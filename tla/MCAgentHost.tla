---------------------------- MODULE MCAgentHost ----------------------------
(* AgentHost on a small instance; no symmetry, for the liveness properties. *)
EXTENDS AgentHost, TLC
=============================================================================
