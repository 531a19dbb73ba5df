--------------------------- MODULE MCAgentService ---------------------------
(* Small instances of AgentService. *)
EXTENDS AgentService, TLC

Symmetry == Permutations(Changes) \cup Permutations(Runs) \cup Permutations(Starts) \cup Permutations(Picks)
=============================================================================
