--------------------------- MODULE MCAgentApiProxy ---------------------------
(* Symmetry for the bounded instance of AgentApiProxy.                     *)
EXTENDS AgentApiProxy, TLC

NameSymmetry ==
  Permutations(Tokens) \cup Permutations(Launches) \cup Permutations(Agents)

=============================================================================
