---------------------------- MODULE MCToolBroker ----------------------------
(* Small instances of ToolBroker: two shims, which share three calls. *)
EXTENDS ToolBroker, TLC

CONSTANTS s1, s2, c1, c2, b

MCCallsOf == (s1 :> {c1}) @@ (s2 :> {c2, b})
=============================================================================
