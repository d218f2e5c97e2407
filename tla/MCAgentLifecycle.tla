-------------------------- MODULE MCAgentLifecycle --------------------------
(* Symmetry for the bounded instances of AgentLifecycle.  Process and      *)
(* delivery names are interchangeable, and so are launches and agents; the *)
(* runs that check liveness use no symmetry.                               *)
EXTENDS AgentLifecycle, TLC

NameSymmetry ==
  Permutations(ProcIds) \cup Permutations(Deliveries)
    \cup Permutations(Agents) \cup Permutations(Launches)

=============================================================================
