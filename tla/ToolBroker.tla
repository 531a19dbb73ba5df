----------------------------- MODULE ToolBroker -----------------------------
(***************************************************************************)
(* The host's tool broker for one phase of one run, the sockets, and the   *)
(* shims (one per connection) through which a CLI agent calls tools.       *)
(*                                                                         *)
(* A socket is two FIFO channels; EOF is the last thing in one.  A call    *)
(* is a model value, issued at most once, by one shim.  The handler is the *)
(* host's DesignSession, which is not re-entrant: after its deadline the   *)
(* broker no longer waits for it, but it may still be running.             *)
(***************************************************************************)
EXTENDS Integers, Sequences, FiniteSets

CONSTANTS Shims, Calls,
          CallsOf,         \* bound: [shim -> the calls the model makes through it]
          BadCalls,        \* calls of unknown tools or with too large arguments
          None,            \* JavaScript's null
          MaxCalls,        \* limits.maxCalls
          MaxConnections,  \* limits.maxConnections
          MaxCallsAfterClose,
          MaxPendingSockets,
          MaxQueuedCalls,
          MaxFrames        \* bound: frames a shim has on their way

ASSUME CallsAssumption == BadCalls \subseteq Calls /\ CallsOf \in [Shims -> SUBSET Calls]
ASSUME NoneAssumption == None \notin Shims \cup Calls
ASSUME LimitsAssumption ==
    {MaxCalls, MaxConnections, MaxCallsAfterClose, MaxPendingSockets, MaxQueuedCalls,
     MaxFrames} \subseteq Nat

VARIABLES
    broker,   \* the Broker's fields
    conn,     \* [shim -> what the broker knows of its connection]
    down,     \* [shim -> frames on their way from the broker]
    up,       \* [shim -> frames on their way to the broker]
    shim,     \* [shim -> BridgeBackend's state]
    told,     \* [shim -> closedReason is set]
    from,     \* [call -> the shim that issued it]
    answer,   \* [call -> what the model got, "new", or "pending"]
    handling, \* calls whose handler is at work
    ran       \* calls whose handler was started

hostVars == <<broker, conn, down, handling, ran>>
shimVars == <<shim, told, from, answer>>
vars == <<hostVars, up, shimVars>>

EOF == [t |-> "eof"]
ShimFrames == [t : {"hello", "bye", "eof"}] \cup [t : {"call", "cancel"}, id : Calls]

Init ==
    /\ broker = [state |-> "open", active |-> None, accepted |-> 0,
                 queue |-> <<>>, pumping |-> FALSE, running |-> {},
                 calls |-> 0, refusedOpen |-> 0, afterClose |-> 0, reported |-> FALSE]
    /\ conn = [s \in Shims |-> "none"]
    /\ down = [s \in Shims |-> <<>>] /\ up = [s \in Shims |-> <<>>]
    /\ shim = [s \in Shims |-> "off"] /\ told = [s \in Shims |-> FALSE]
    /\ from = [c \in Calls |-> None] /\ answer = [c \in Calls |-> "new"]
    /\ handling = {} /\ ran = {}

-----------------------------------------------------------------------------
(* The broker's methods, on a view h of what they read and write. *)

Host == [b |-> broker, conn |-> conn, down |-> down, handling |-> handling, ran |-> ran]

SetHost(h) ==
    /\ broker' = h.b /\ conn' = h.conn /\ down' = h.down
    /\ handling' = h.handling /\ ran' = h.ran

Open(h, s) == h.conn[s] \in {"new", "authed"}

(* What is written to a socket whose other end is gone is lost. *)
Send(h, s, frame) ==
    IF Open(h, s) /\ shim[s] # "down" THEN [h EXCEPT !.down[s] = Append(@, frame)] ELSE h

(* #end: what was written is flushed first. *)
End(h, s) ==
    IF Open(h, s) THEN [Send(h, s, EOF) EXCEPT !.conn[s] = "ended"] ELSE h

Deny(h, s) == End(Send(h, s, [t |-> "denied"]), s)

Answer(h, c, text) == Send(h, from[c], [t |-> "result", id |-> c, text |-> text])

Close(h) ==
    IF h.b.state # "open" THEN h
    ELSE LET h1 == [h EXCEPT !.b.state = "closing"]
         IN  IF h.b.active = None THEN h1 ELSE Send(h1, h.b.active, [t |-> "closed"])

(* Mutant: the connections are not ended. *)
FinishQuietly(h) == [h EXCEPT !.b.state = "closed", !.b.queue = <<>>]

FinishClose(h) ==
    [h EXCEPT !.b.state = "closed", !.b.queue = <<>>,
              !.down = [s \in Shims |-> Send(h, s, EOF).down[s]],
              !.conn = [s \in Shims |-> IF Open(h, s) THEN "ended" ELSE @[s]]]

(* The queue q with the calls in C only, in their order. *)
Keeping(q, C) ==
    LET kept[i \in 0..Len(q)] ==
          IF i = 0 THEN <<>>
          ELSE IF q[i] \in C THEN Append(kept[i - 1], q[i]) ELSE kept[i - 1]
    IN  kept[Len(q)]

(* The socket's close event. *)
Forget(h, s) ==
    [h EXCEPT !.conn[s] = "gone",
              !.b.active = IF @ = s THEN None ELSE @,
              !.b.queue = Keeping(@, {c \in Calls : from[c] # s})]

(* Only a call that arrived after close counts. *)
AnswerClosed(h, c, arrivedOpen) ==
    LET n == h.b.afterClose + 1
        h1 == Answer(h, c, "closed")
    IN  IF arrivedOpen THEN h1
        ELSE [h1 EXCEPT !.b.afterClose = n, !.b.reported = @ \/ n >= MaxCallsAfterClose]

Refuse(h, c) ==
    LET h1 == Answer(h, c, "refused")
    IN  IF h.b.state = "open" THEN [h1 EXCEPT !.b.refusedOpen = @ + 1] ELSE h1

(* Mutant: refused calls do not count. *)
RunsReachLimit(h) == h.b.calls >= MaxCalls

CallLimitReached(h) == h.b.calls + h.b.refusedOpen >= MaxCalls

HitCallLimit(h, c) == Answer(Close(h), c, "closed")

RunHandler(h, c) ==
    [h EXCEPT !.b.calls = @ + 1, !.b.running = {c},
              !.handling = @ \cup {c}, !.ran = @ \cup {c}]

(* Mutant: the state is not looked at when a call leaves the queue. *)
ProcessAlways(h, c) ==
    IF CallLimitReached(h) THEN HitCallLimit(h, c)
    ELSE IF c \in BadCalls THEN Refuse(h, c) ELSE RunHandler(h, c)

Process(h, c) ==
    CASE h.b.state # "open" -> AnswerClosed(h, c, TRUE)
      [] h.b.state = "open" /\ CallLimitReached(h) -> HitCallLimit(h, c)
      [] h.b.state = "open" /\ ~CallLimitReached(h) ->
           IF c \in BadCalls THEN Refuse(h, c) ELSE RunHandler(h, c)

(* One turn of the loop of #pump. *)
PumpTurn(h) ==
    IF h.b.queue = <<>> THEN [h EXCEPT !.b.pumping = FALSE]
    ELSE LET c == Head(h.b.queue)
             h1 == [h EXCEPT !.b.queue = Tail(@), !.b.pumping = TRUE]
         IN  IF Open(h, from[c]) THEN Process(h1, c) ELSE h1

(* A call that was queued starts the pump, which runs to its first await. *)
Enqueue(h, c) ==
    LET h1 == [h EXCEPT !.b.queue = Append(@, c)]
    IN  IF h.b.pumping THEN h1 ELSE PumpTurn(h1)

Waiting(h, s) == Len(SelectSeq(h.b.queue, LAMBDA c : from[c] = s))

-----------------------------------------------------------------------------
(* Frames from the shim (#frame). *)

(* Mutant: closing is not told. *)
HelloUntold(h, s) ==
    LET taken == h.b.active # None /\ Open(h, h.b.active)
        h1 == [h EXCEPT !.conn[s] = "authed", !.b.active = s, !.b.accepted = @ + 1]
    IN  IF h.b.accepted >= MaxConnections \/ taken THEN Deny(h, s)
        ELSE Send(h1, s, [t |-> "welcome"])

OnHello(h, s) ==
    LET taken == h.b.active # None /\ Open(h, h.b.active)
        h1 == [h EXCEPT !.conn[s] = "authed", !.b.active = s, !.b.accepted = @ + 1]
        h2 == Send(h1, s, [t |-> "welcome"])
    IN  IF h.b.accepted >= MaxConnections \/ taken THEN Deny(h, s)
        ELSE IF h.b.state = "closing" THEN Send(h2, s, [t |-> "closed"]) ELSE h2

(* Mutant: a running call is answered as cancelled. *)
CancelRunning(h, c) ==
    Answer([h EXCEPT !.b.queue = Keeping(@, Calls \ {c})], c, "cancelled")

OnCancel(h, c) ==
    IF \E i \in DOMAIN h.b.queue : h.b.queue[i] = c
    THEN Answer([h EXCEPT !.b.queue = Keeping(@, Calls \ {c})], c, "cancelled")
    ELSE h                                   \* a running call is not interrupted

OnCall(h, s, c) ==
    IF h.b.state # "open" THEN AnswerClosed(h, c, FALSE)
    ELSE IF CallLimitReached(h) THEN HitCallLimit(h, c)
    ELSE IF Waiting(h, s) >= MaxQueuedCalls THEN Refuse(h, c)
    ELSE Enqueue(h, c)

OnFrame(h, s, f) ==
    CASE f.t = "eof" -> Forget(h, s)
      [] f.t # "eof" /\ ~Open(h, s) -> h
      [] f.t = "hello" /\ h.conn[s] = "new" -> OnHello(h, s)
      [] f.t = "hello" /\ h.conn[s] = "authed" -> Deny(h, s)
      [] f.t = "bye" /\ Open(h, s) -> IF h.conn[s] = "new" THEN Deny(h, s) ELSE End(h, s)
      [] f.t = "call" /\ Open(h, s) -> OnCall(h, s, f.id)
      [] f.t = "cancel" /\ Open(h, s) -> OnCancel(h, f.id)

HostReads(s) ==
    /\ conn[s] \in {"new", "authed", "ended"} /\ up[s] # <<>>
    /\ SetHost(OnFrame(Host, s, Head(up[s])))
    /\ up' = [up EXCEPT ![s] = Tail(@)]
    /\ UNCHANGED shimVars

(* An ended socket has flushed, and closes. *)
SocketCloses(s) ==
    /\ conn[s] = "ended"
    /\ SetHost(Forget(Host, s))
    /\ up' = [up EXCEPT ![s] = <<>>]
    /\ UNCHANGED shimVars

HelloTimesOut(s) ==
    /\ conn[s] = "new"
    /\ SetHost(Deny(Host, s))
    /\ UNCHANGED <<up, shimVars>>

(* #pump goes on after the call it awaited. *)
Pump ==
    /\ broker.pumping /\ broker.running = {}
    /\ SetHost(PumpTurn(Host))
    /\ UNCHANGED <<up, shimVars>>

(* The handler's result (or its failure) passes through, and may close. *)
HandlerReturns(closes) ==
    /\ \E c \in broker.running :
         LET h == [Host EXCEPT !.b.running = {}, !.handling = @ \ {c}]
             h1 == Answer(h, c, "result")
         IN  SetHost(IF closes THEN Close(h1) ELSE h1)
    /\ UNCHANGED <<up, shimVars>>

(* Mutant: the broker stays open after a deadline. *)
TimesOutOpen ==
    /\ \E c \in broker.running :
         SetHost(Answer([Host EXCEPT !.b.running = {}], c, "closed"))
    /\ up' = up /\ UNCHANGED shimVars

(* The deadline passes: nobody waits any more for a handler still at work. *)
HandlerTimesOut ==
    /\ \E c \in broker.running :
         SetHost(Close(Answer([Host EXCEPT !.b.running = {}], c, "closed")))
    /\ UNCHANGED <<up, shimVars>>

HandlerEndsLate(c) ==
    /\ c \in handling /\ c \notin broker.running
    /\ handling' = handling \ {c}
    /\ UNCHANGED <<broker, conn, down, ran, up, shimVars>>

(* close(), from the driver. *)
HostCloses ==
    /\ broker.state = "open"
    /\ SetHost(Close(Host))
    /\ UNCHANGED <<up, shimVars>>

GraceEnds ==
    /\ broker.state = "closing"
    /\ SetHost(FinishClose(Host))
    /\ UNCHANGED <<up, shimVars>>

Dispose ==
    /\ broker.state # "closed"
    /\ SetHost(FinishClose(Host))
    /\ UNCHANGED <<up, shimVars>>

-----------------------------------------------------------------------------
(* The shim. *)

Gone(s) == IF told[s] THEN "closed" ELSE "unavailable"

(* #fail: the socket is destroyed (nothing more is read from it), and every
   pending call gets its text. *)
Fail(s) ==
    /\ shim' = [shim EXCEPT ![s] = "down"]
    /\ up' = [up EXCEPT ![s] = IF conn[s] = "gone" THEN @ ELSE Append(@, EOF)]
    /\ answer' = [c \in Calls |-> IF from[c] = s /\ answer[c] = "pending"
                                  THEN Gone(s) ELSE answer[c]]
    /\ UNCHANGED <<told, from>>

(* The socket connects and says hello, or the host does not take it. *)
Connect(s) ==
    /\ shim[s] = "off"
    /\ IF broker.state = "closed"
          \/ Cardinality({r \in Shims : conn[r] = "new"}) >= MaxPendingSockets
       THEN /\ shim' = [shim EXCEPT ![s] = "down"]
            /\ UNCHANGED <<conn, up>>
       ELSE /\ shim' = [shim EXCEPT ![s] = "connecting"]
            /\ conn' = [conn EXCEPT ![s] = "new"]
            /\ up' = [up EXCEPT ![s] = <<[t |-> "hello"]>>]
    /\ UNCHANGED <<broker, down, handling, ran, told, from, answer>>

ConnectTimesOut(s) ==
    /\ shim[s] = "connecting"
    /\ Fail(s)
    /\ down' = [down EXCEPT ![s] = <<>>]
    /\ UNCHANGED <<broker, conn, handling, ran>>

ShimReads(s) ==
    /\ shim[s] \in {"connecting", "up"} /\ down[s] # <<>>
    /\ LET f == Head(down[s])
       IN  \/ /\ f.t = "welcome" /\ shim[s] = "connecting"
              /\ shim' = [shim EXCEPT ![s] = "up"]
              /\ UNCHANGED <<up, told, from, answer>>
           \/ /\ f.t \in {"denied", "eof"} \/ (f.t = "welcome" /\ shim[s] = "up")
              /\ Fail(s)
           \/ /\ f.t = "closed"
              /\ told' = [told EXCEPT ![s] = TRUE]
              /\ UNCHANGED <<up, shim, from, answer>>
           \/ /\ f.t = "result"
              /\ answer' = IF answer[f.id] = "pending" /\ from[f.id] = s
                           THEN [answer EXCEPT ![f.id] = f.text] ELSE answer
              /\ UNCHANGED <<up, shim, told, from>>
    /\ down' = [down EXCEPT ![s] = IF shim'[s] = "down" THEN <<>> ELSE Tail(@)]
    /\ UNCHANGED <<broker, conn, handling, ran>>

CallTool(s, c) ==
    /\ c \in CallsOf[s] /\ answer[c] = "new"
    /\ shim[s] # "off" /\ Len(up[s]) < MaxFrames
    /\ from' = IF shim[s] = "up" THEN [from EXCEPT ![c] = s] ELSE from
    /\ answer' = [answer EXCEPT ![c] = IF shim[s] = "up" THEN "pending" ELSE Gone(s)]
    /\ up' = IF shim[s] = "up"
             THEN [up EXCEPT ![s] = Append(@, [t |-> "call", id |-> c])] ELSE up
    /\ UNCHANGED <<hostVars, shim, told>>

Cancel(s, c) ==
    /\ shim[s] = "up" /\ from[c] = s /\ answer[c] = "pending"
    /\ Len(up[s]) < MaxFrames /\ \A i \in DOMAIN up[s] : up[s][i] # [t |-> "cancel", id |-> c]
    /\ up' = [up EXCEPT ![s] = Append(@, [t |-> "cancel", id |-> c])]
    /\ UNCHANGED <<hostVars, shimVars>>

(* close(): the CLI ends the shim. *)
ShimCloses(s) ==
    /\ shim[s] \in {"connecting", "up"}
    /\ shim' = [shim EXCEPT ![s] = "down"]
    /\ up' = [up EXCEPT ![s] = IF conn[s] = "gone" THEN @ ELSE @ \o <<[t |-> "bye"], EOF>>]
    /\ down' = [down EXCEPT ![s] = <<>>]
    /\ answer' = [c \in Calls |-> IF from[c] = s /\ answer[c] = "pending"
                                  THEN Gone(s) ELSE answer[c]]
    /\ UNCHANGED <<broker, conn, handling, ran, told, from>>

-----------------------------------------------------------------------------
Next ==
    \/ \E s \in Shims :
         \/ HostReads(s) \/ SocketCloses(s) \/ HelloTimesOut(s)
         \/ Connect(s) \/ ConnectTimesOut(s) \/ ShimReads(s) \/ ShimCloses(s)
         \/ \E c \in Calls : CallTool(s, c) \/ Cancel(s, c)
    \/ Pump \/ (\E closes \in BOOLEAN : HandlerReturns(closes)) \/ HandlerTimesOut
    \/ \E c \in Calls : HandlerEndsLate(c)
    \/ HostCloses \/ GraceEnds \/ Dispose

Spec == Init /\ [][Next]_vars

(* Sockets deliver, the pump goes on, and a handler that does not return in
   time meets its deadline. *)
Fairness ==
    /\ \A s \in Shims : /\ WF_vars(HostReads(s)) /\ WF_vars(SocketCloses(s))
                         /\ WF_vars(ShimReads(s))
    /\ WF_vars(Pump)
    /\ WF_vars((\E closes \in BOOLEAN : HandlerReturns(closes)) \/ HandlerTimesOut)

FairSpec == Spec /\ Fairness

-----------------------------------------------------------------------------
(* Properties. *)

(* Two handlers never work at the same time on the session, although one that
   missed its deadline goes on ("The handler may still be running: close so no
   other handler starts on the same session"). *)
OneHandler == \A c, d \in handling : c = d

(* After close() no handler starts, whatever was queued or in the sockets. *)
NothingStartsAfterClose ==
    [][ran' # ran => broker.state = "open"]_vars

(* Handlers started and calls refused while open stay within maxCalls, also
   when they are queued before the limit is reached. *)
CallBudget ==
    Cardinality(ran) + broker.refusedOpen <= MaxCalls

(* One shim at a time is served. *)
OneConnection ==
    \A r, s \in Shims : conn[r] = "authed" /\ conn[s] = "authed" => r = s

(* A shim that is served while the broker closes has been told, or the word is
   on its way before the end of the connection: its calls end with the closed
   text, not the unavailable one. *)
ClosingIsAnnounced ==
    \A s \in Shims : broker.state = "closing" /\ conn[s] = "authed" /\ shim[s] # "down"
                    => told[s] \/ \E i \in DOMAIN down[s] : down[s][i] = [t |-> "closed"]

(* A call answered as not executed (refused, cancelled before it ran) was not. *)
NotExecutedMeansNotRun ==
    \A c \in Calls : answer[c] \in {"refused", "cancelled"} => c \notin ran

(* Every call is answered: the shim never hangs. *)
EveryCallIsAnswered ==
    \A c \in Calls : answer[c] = "pending" ~> answer[c] # "pending"
=============================================================================
