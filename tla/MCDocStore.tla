----------------------------- MODULE MCDocStore -----------------------------
(* Small instances of DocStore.  Three sources are one surrogate pair each, which
   share one half or the other; the first two differ in a comment only; the fourth
   has compile errors. *)
EXTENDS DocStore, TLC

CONSTANTS x, h1, h2, l1, l2, i1, i3

MCStarter == <<h1, l1>>
MCPairs == {<<h1, l1>>, <<h1, l2>>, <<h2, l1>>}
MCSources == MCPairs \cup {<<x>>}
MCIrOf == [s \in MCSources |-> CASE s = <<x>> -> None [] s = <<h2, l1>> -> i3 [] OTHER -> i1]
MCPairIrs == [s \in MCPairs |-> MCIrOf[s]]
=============================================================================
