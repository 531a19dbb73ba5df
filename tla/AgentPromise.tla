---------------------------- MODULE AgentPromise ----------------------------
(* What the agent process promises the renderer, without saying how: at most one
   run at a time, under an id not used before; events of this run only, with
   growing sequence numbers; and one of them ends the run, and is its last.
   AgentHost implements it, and it is the agent that AgentService works with. *)
EXTENDS Integers

CONSTANTS Runs,   \* run ids
          None    \* JavaScript's null

VARIABLES used,   \* run ids given out
          run,    \* the run under way, or None
          last    \* the last event told: its run and number, and whether it is an end

vars == <<used, run, last>>

Init == used = {} /\ run = None /\ last = [run |-> None, seq |-> 0, end |-> FALSE]

Begin(r) ==
  /\ run = None /\ r \in Runs \ used
  /\ run' = r
  /\ used' = used \cup {r}
  /\ UNCHANGED last

(* The number of the last event of the run under way. *)
Count == IF last.run = run THEN last.seq ELSE 0

Tell(seq, end) ==
  /\ run # None /\ seq > Count
  /\ last' = [run |-> run, seq |-> seq, end |-> end]
  /\ run' = IF end THEN None ELSE run
  /\ UNCHANGED used

Next == (\E r \in Runs : Begin(r)) \/ Tell(last'.seq, last'.end)

Spec == Init /\ [][Next]_vars
=============================================================================
