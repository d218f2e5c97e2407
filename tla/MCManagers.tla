----------------------------- MODULE MCManagers -----------------------------
(* One computer with two calls at a time; one id, and two callers that     *)
(* hold a copy of what it names.                                           *)
EXTENDS Managers, TLC
CONSTANTS k1, k2
Symmetry == Permutations({k1, k2}) \cup Permutations(Callers)
=============================================================================
