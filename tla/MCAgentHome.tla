----------------------------- MODULE MCAgentHome -----------------------------
(* One agent with up to two notes in its old home, and two deliveries that *)
(* bring files, two of them of the same name.                              *)
EXTENDS AgentHome, TLC
CONSTANTS n1, n2, f1, f2, t1, t2
NameOfFile == (f1 :> n1) @@ (f2 :> n1)
Symmetry == Permutations({f1, f2}) \cup Permutations({t1, t2})
=============================================================================
