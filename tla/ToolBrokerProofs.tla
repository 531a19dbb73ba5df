-------------------------- MODULE ToolBrokerProofs --------------------------
(* Theorems about ToolBroker, for any shims, calls and limits. *)
EXTENDS ToolBroker, TLAPS, FiniteSetTheorems

(***************************************************************************)
(* A view of the broker's state.  Its queue needs no type here.            *)
(***************************************************************************)
Fields == {"state", "active", "accepted", "queue", "pumping", "running",
           "calls", "refusedOpen", "afterClose", "reported"}

Shape(h) ==
    /\ DOMAIN h = {"b", "conn", "down", "handling", "ran"}
    /\ DOMAIN h.b = Fields /\ DOMAIN h.conn = Shims
    /\ h.b.calls \in Nat /\ h.b.refusedOpen \in Nat

(* The handler the pump awaits is the only one, and while the broker is open
   none works that the pump does not await. *)
HandlersSafe(h) ==
    /\ h.b.running # {} => h.handling = h.b.running /\ h.b.pumping = TRUE
    /\ h.b.running = {} /\ h.b.state = "open" => h.handling = {}
    /\ \A c, d \in h.handling : c = d

BudgetSafe(h) ==
    /\ IsFiniteSet(h.ran) /\ Cardinality(h.ran) <= h.b.calls
    /\ h.b.calls + h.b.refusedOpen <= MaxCalls

ConnSafe(h) == \A s \in Shims : h.conn[s] = "authed" => h.b.active = s

Safe(h) == Shape(h) /\ HandlersSafe(h) /\ BudgetSafe(h) /\ ConnSafe(h)

(* g is safe, and handlers were started only if h is open. *)
Goes(h, g) == Safe(g) /\ (g.ran # h.ran => h.b.state = "open")

(* What does not concern the frames on their way is the same. *)
Same(h, g) ==
    /\ Shape(g) /\ g.b = h.b /\ g.conn = h.conn
    /\ g.handling = h.handling /\ g.ran = h.ran

LEMMA SameIsSafe == ASSUME NEW h, NEW g, Safe(h), Same(h, g) PROVE Safe(g)
BY DEF Safe, Same, HandlersSafe, BudgetSafe, ConnSafe

(* Writing a frame touches only what is on its way. *)
LEMMA SendSame ==
    ASSUME NEW h, Shape(h), NEW s, NEW f
    PROVE  Same(h, Send(h, s, f))
BY DEF Send, Same, Shape

LEMMA AnswerSame ==
    ASSUME NEW h, Shape(h), NEW c, NEW t
    PROVE  Same(h, Answer(h, c, t))
BY SendSame DEF Answer

(* Ending a connection leaves it unserved. *)
LEMMA EndSafe ==
    ASSUME NEW h, Safe(h), NEW s \in Shims
    PROVE  Safe(End(h, s)) /\ End(h, s).ran = h.ran
<1>1. CASE ~Open(h, s)
  BY <1>1 DEF End
<1>2. CASE Open(h, s)
  <2> DEFINE g == Send(h, s, EOF)
  <2>1. Safe(g) /\ Same(h, g)
    BY SendSame, SameIsSafe DEF Safe
  <2>2. End(h, s) = [g EXCEPT !.conn[s] = "ended"]
    BY <1>2 DEF End
  <2>. HIDE DEF g
  <2>. QED
    BY <2>1, <2>2 DEF Safe, Shape, Same, HandlersSafe, BudgetSafe, ConnSafe
<1>. QED  BY <1>1, <1>2

LEMMA DenySafe ==
    ASSUME NEW h, Safe(h), NEW s \in Shims
    PROVE  Safe(Deny(h, s)) /\ Deny(h, s).ran = h.ran
<1> DEFINE g == Send(h, s, [t |-> "denied"])
<1>1. Same(h, g) /\ Safe(g)
  BY SendSame, SameIsSafe DEF Safe
<1>2. Deny(h, s) = End(g, s)
  BY DEF Deny
<1>. HIDE DEF g
<1>. QED  BY <1>1, <1>2, EndSafe DEF Same

-----------------------------------------------------------------------------
(* Each method of the broker keeps Safe. *)

LEMMA CloseSafe ==
    ASSUME NEW h, Safe(h)
    PROVE  /\ Safe(Close(h)) /\ Close(h).ran = h.ran /\ Close(h).b.state # "open"
           /\ Close(h).handling = h.handling /\ Close(h).b.running = h.b.running
<1>1. CASE h.b.state # "open"
  BY <1>1 DEF Close
<1>2. CASE h.b.state = "open"
  <2> DEFINE g == [h EXCEPT !.b.state = "closing"]
  <2>1. /\ Safe(g) /\ g.ran = h.ran /\ g.b.state = "closing"
        /\ g.handling = h.handling /\ g.b.running = h.b.running
    BY <1>2 DEF Safe, Shape, Fields, HandlersSafe, BudgetSafe, ConnSafe
  <2>2. \/ Close(h) = g
        \/ Close(h) = Send(g, h.b.active, [t |-> "closed"])
    BY <1>2 DEF Close
  <2>. HIDE DEF g
  <2>3. Same(g, Send(g, h.b.active, [t |-> "closed"]))
    BY <2>1, SendSame DEF Safe
  <2>. QED  BY <2>1, <2>2, <2>3, SameIsSafe DEF Same
<1>. QED  BY <1>1, <1>2

LEMMA FinishCloseSafe ==
    ASSUME NEW h, Safe(h)
    PROVE  Safe(FinishClose(h)) /\ FinishClose(h).ran = h.ran
BY DEF FinishClose, Open, Safe, Shape, Fields, HandlersSafe, BudgetSafe, ConnSafe

LEMMA ForgetSafe ==
    ASSUME NEW h, Safe(h), NEW s \in Shims
    PROVE  Safe(Forget(h, s)) /\ Forget(h, s).ran = h.ran
<1> DEFINE q == Keeping(h.b.queue, {c \in Calls : from[c] # s})
<1> DEFINE g == [h EXCEPT !.conn[s] = "gone",
                          !.b.active = IF h.b.active = s THEN None ELSE h.b.active,
                          !.b.queue = q]
<1>1. Forget(h, s) = g
  BY DEF Forget, Safe, Shape, Fields
<1>. HIDE DEF q
<1>2. Safe(g) /\ g.ran = h.ran
  BY DEF Safe, Shape, Fields, HandlersSafe, BudgetSafe, ConnSafe
<1>. QED  BY <1>1, <1>2

LEMMA AnswerClosedSafe ==
    ASSUME NEW h, Safe(h), NEW c, NEW arrivedOpen \in BOOLEAN
    PROVE  Safe(AnswerClosed(h, c, arrivedOpen)) /\ AnswerClosed(h, c, arrivedOpen).ran = h.ran
<1> DEFINE g == Answer(h, c, "closed")
           n == h.b.afterClose + 1
           over == g.b.reported \/ n >= MaxCallsAfterClose
           counted(e) == [g EXCEPT !.b.afterClose = n, !.b.reported = e]
<1>1. Safe(g) /\ g.ran = h.ran
  BY AnswerSame, SameIsSafe DEF Safe, Same
<1>. HIDE DEF g, n
<1>2. ASSUME NEW e  PROVE Safe(counted(e)) /\ counted(e).ran = h.ran
  BY <1>1 DEF Safe, Shape, Fields, HandlersSafe, BudgetSafe, ConnSafe
<1>3. AnswerClosed(h, c, arrivedOpen) = g \/ AnswerClosed(h, c, arrivedOpen) = counted(over)
  BY <1>1 DEF AnswerClosed, g, n, Safe, Shape, Fields
<1>. HIDE DEF counted, over
<1>. QED
  BY <1>1, <1>2, <1>3

(* A refused call counts while the broker is open, so there must be room. *)
LEMMA RefuseSafe ==
    ASSUME NEW h, Safe(h), NEW c, h.b.calls + h.b.refusedOpen < MaxCalls
    PROVE  Safe(Refuse(h, c)) /\ Refuse(h, c).ran = h.ran
<1> DEFINE g == Answer(h, c, "refused")
<1>1. Safe(g) /\ g.ran = h.ran /\ g.b = h.b
  BY AnswerSame, SameIsSafe DEF Safe, Same
<1>2. Refuse(h, c) = g \/ Refuse(h, c) = [g EXCEPT !.b.refusedOpen = @ + 1]
  BY DEF Refuse
<1>. HIDE DEF g
<1>3. g.b.calls + (g.b.refusedOpen + 1) <= MaxCalls /\ g.b.refusedOpen + 1 \in Nat
  BY <1>1, LimitsAssumption DEF Safe, Shape
<1>. QED
  BY <1>1, <1>2, <1>3 DEF Safe, Shape, Fields, HandlersSafe, BudgetSafe, ConnSafe

LEMMA HitCallLimitSafe ==
    ASSUME NEW h, Safe(h), NEW c
    PROVE  Safe(HitCallLimit(h, c)) /\ HitCallLimit(h, c).ran = h.ran
<1> DEFINE g == Close(h)
<1>1. Safe(g) /\ g.ran = h.ran
  BY CloseSafe
<1>2. HitCallLimit(h, c) = Answer(g, c, "closed")
  BY DEF HitCallLimit
<1>. HIDE DEF g
<1>3. Same(g, Answer(g, c, "closed"))
  BY <1>1, AnswerSame DEF Safe
<1>. QED  BY <1>1, <1>2, <1>3, SameIsSafe DEF Same

(* The one step that starts a handler: the pump awaits none, and the broker is
   open, so none is at work either. *)
LEMMA RunHandlerSafe ==
    ASSUME NEW h, Safe(h), NEW c,
           h.b.running = {}, h.b.pumping = TRUE, h.b.state = "open",
           h.b.calls + h.b.refusedOpen < MaxCalls
    PROVE  Safe(RunHandler(h, c))
<1> DEFINE g == RunHandler(h, c)
<1>1. /\ DOMAIN g = {"b", "conn", "down", "handling", "ran"}
      /\ DOMAIN g.b = Fields /\ DOMAIN g.conn = Shims
  BY DEF RunHandler, Safe, Shape, Fields
<1>2. /\ g.b.calls = h.b.calls + 1 /\ g.b.refusedOpen = h.b.refusedOpen
      /\ g.b.running = {c} /\ g.b.pumping = TRUE /\ g.handling = {c}
      /\ g.ran = h.ran \cup {c} /\ g.conn = h.conn /\ g.b.active = h.b.active
  BY DEF RunHandler, Safe, Shape, Fields, HandlersSafe
<1>3. IsFiniteSet(h.ran \cup {c}) /\ Cardinality(h.ran \cup {c}) <= h.b.calls + 1
  <2>1. IsFiniteSet(h.ran) /\ Cardinality(h.ran) <= h.b.calls /\ h.b.calls \in Nat
    BY DEF Safe, BudgetSafe, Shape
  <2>2. /\ IsFiniteSet(h.ran \cup {c})
        /\ Cardinality(h.ran \cup {c}) = IF c \in h.ran THEN Cardinality(h.ran)
                                         ELSE Cardinality(h.ran) + 1
    BY <2>1, FS_AddElement
  <2>3. Cardinality(h.ran) \in Nat
    BY <2>1, FS_CardinalityType
  <2>. QED  BY <2>1, <2>2, <2>3
<1>. HIDE DEF g
<1>4. BudgetSafe(g)
  BY <1>2, <1>3, LimitsAssumption DEF BudgetSafe, Safe, Shape
<1>5. HandlersSafe(g) /\ ConnSafe(g)
  BY <1>2 DEF HandlersSafe, ConnSafe, Safe
<1>6. Shape(g)
  BY <1>1, <1>2 DEF Safe, Shape
<1>. QED  BY <1>4, <1>5, <1>6 DEF Safe, g

LEMMA ProcessGoes ==
    ASSUME NEW h, Safe(h), NEW c, h.b.running = {}, h.b.pumping = TRUE
    PROVE  Goes(h, Process(h, c))
<1>1. CASE h.b.state # "open"
  BY <1>1, AnswerClosedSafe DEF Process, Goes
<1>2. CASE h.b.state = "open" /\ CallLimitReached(h)
  <2>1. Process(h, c) = HitCallLimit(h, c)
    BY <1>2 DEF Process
  <2>. QED  BY <2>1, HitCallLimitSafe DEF Goes
<1>3. CASE h.b.state = "open" /\ ~CallLimitReached(h)
  <2>1. h.b.calls + h.b.refusedOpen < MaxCalls
    BY <1>3, LimitsAssumption DEF CallLimitReached, Safe, Shape
  <2>2. Process(h, c) = IF c \in BadCalls THEN Refuse(h, c) ELSE RunHandler(h, c)
    BY <1>3 DEF Process
  <2>. QED  BY <1>3, <2>1, <2>2, RefuseSafe, RunHandlerSafe DEF Goes
<1>. QED  BY <1>1, <1>2, <1>3

LEMMA PumpTurnGoes ==
    ASSUME NEW h, Safe(h), h.b.running = {}
    PROVE  Goes(h, PumpTurn(h))
<1> DEFINE c == Head(h.b.queue)
           idle == [h EXCEPT !.b.pumping = FALSE]
           g == [h EXCEPT !.b.queue = Tail(h.b.queue), !.b.pumping = TRUE]
<1>1. Safe(idle) /\ idle.ran = h.ran
  BY DEF Safe, Shape, Fields, HandlersSafe, BudgetSafe, ConnSafe
<1>2. /\ Safe(g) /\ g.ran = h.ran /\ g.b.state = h.b.state
      /\ g.b.running = {} /\ g.b.pumping = TRUE
  BY DEF Safe, Shape, Fields, HandlersSafe, BudgetSafe, ConnSafe
<1>3. PumpTurn(h) \in {idle, g, Process(g, c)}
  BY DEF PumpTurn, Safe, Shape, Fields
<1>. HIDE DEF g, idle, c
<1>4. Goes(g, Process(g, c))
  BY <1>2, ProcessGoes
<1>. QED  BY <1>1, <1>2, <1>3, <1>4 DEF Goes

(* A queued call starts the pump only when it does not run, and then nothing
   is awaited. *)
LEMMA EnqueueGoes ==
    ASSUME NEW h, Safe(h), NEW c
    PROVE  Goes(h, Enqueue(h, c))
<1> DEFINE g == [h EXCEPT !.b.queue = Append(h.b.queue, c)]
<1>1. /\ Safe(g) /\ g.ran = h.ran /\ g.b.state = h.b.state
      /\ g.b.running = h.b.running
  BY DEF Safe, Shape, Fields, HandlersSafe, BudgetSafe, ConnSafe
<1>2. Enqueue(h, c) = IF h.b.pumping THEN g ELSE PumpTurn(g)
  BY DEF Enqueue, Safe, Shape, Fields
<1>3. ~h.b.pumping => h.b.running = {}
  BY DEF Safe, HandlersSafe
<1>. HIDE DEF g
<1>4. CASE h.b.pumping
  BY <1>1, <1>2, <1>4 DEF Goes
<1>5. CASE ~h.b.pumping
  <2>1. Goes(g, PumpTurn(g))
    BY <1>1, <1>3, <1>5, PumpTurnGoes
  <2>. QED  BY <1>1, <1>2, <1>5, <2>1 DEF Goes
<1>. QED  BY <1>4, <1>5

(* A hello is answered only when no other connection is served. *)
LEMMA OnHelloSafe ==
    ASSUME NEW h, Safe(h), NEW s \in Shims
    PROVE  Safe(OnHello(h, s)) /\ OnHello(h, s).ran = h.ran
<1> DEFINE taken == h.b.active # None /\ Open(h, h.b.active)
           g == [h EXCEPT !.conn[s] = "authed", !.b.active = s,
                          !.b.accepted = h.b.accepted + 1]
           g2 == Send(g, s, [t |-> "welcome"])
           g3 == Send(g2, s, [t |-> "closed"])
<1>1. ASSUME ~taken  PROVE Safe(g) /\ g.ran = h.ran
  <2>1. \A r \in Shims : h.conn[r] # "authed"
    BY <1>1, NoneAssumption DEF Open, Safe, ConnSafe
  <2>. QED
    BY <2>1 DEF Safe, Shape, Fields, HandlersSafe, BudgetSafe, ConnSafe
<1>2. OnHello(h, s) \in {Deny(h, s), g2, g3} /\ (taken => OnHello(h, s) = Deny(h, s))
  BY DEF OnHello, Safe, Shape, Fields
<1>. HIDE DEF g
<1>3. ASSUME ~taken  PROVE Safe(g2) /\ g2.ran = h.ran
  BY <1>1, <1>3, SendSame, SameIsSafe DEF Safe, Same
<1>. HIDE DEF g2
<1>4. ASSUME ~taken  PROVE Safe(g3) /\ g3.ran = h.ran
  BY <1>3, <1>4, SendSame, SameIsSafe DEF Safe, Same
<1>. HIDE DEF g3, taken
<1>. QED  BY <1>2, <1>3, <1>4, DenySafe

LEMMA OnCancelSafe ==
    ASSUME NEW h, Safe(h), NEW c
    PROVE  Safe(OnCancel(h, c)) /\ OnCancel(h, c).ran = h.ran
<1> DEFINE g(q) == [h EXCEPT !.b.queue = q]
           answered(q) == Answer(g(q), c, "cancelled")
<1>1. ASSUME NEW q  PROVE Safe(answered(q)) /\ answered(q).ran = h.ran
  <2>1. Safe(g(q)) /\ g(q).ran = h.ran
    BY DEF Safe, Shape, Fields, HandlersSafe, BudgetSafe, ConnSafe
  <2>. HIDE DEF g
  <2>2. Same(g(q), answered(q))
    BY <2>1, AnswerSame DEF Safe
  <2>. QED  BY <2>1, <2>2, SameIsSafe DEF Same
<1>2. OnCancel(h, c) = h \/ \E q : OnCancel(h, c) = answered(q)
  BY DEF OnCancel
<1>. QED  BY <1>1, <1>2

LEMMA OnCallGoes ==
    ASSUME NEW h, Safe(h), NEW s \in Shims, NEW c
    PROVE  Goes(h, OnCall(h, s, c))
<1>1. CASE h.b.state # "open"
  BY <1>1, AnswerClosedSafe DEF OnCall, Goes
<1>2. CASE h.b.state = "open" /\ CallLimitReached(h)
  BY <1>2, HitCallLimitSafe DEF OnCall, Goes
<1>3. CASE h.b.state = "open" /\ ~CallLimitReached(h)
  <2>1. h.b.calls + h.b.refusedOpen < MaxCalls
    BY <1>3, LimitsAssumption DEF CallLimitReached, Safe, Shape
  <2>2. OnCall(h, s, c) \in {Refuse(h, c), Enqueue(h, c)}
    BY <1>3 DEF OnCall
  <2>. QED  BY <2>1, <2>2, RefuseSafe, EnqueueGoes DEF Goes
<1>. QED  BY <1>1, <1>2, <1>3

FrameKinds == {"hello", "bye", "eof", "call", "cancel"}

LEMMA OnFrameGoes ==
    ASSUME NEW h, Safe(h), NEW s \in Shims, NEW f, f.t \in FrameKinds
    PROVE  Goes(h, OnFrame(h, s, f))
<1>1. CASE f.t = "eof"
  BY <1>1, ForgetSafe DEF OnFrame, Goes
<1>2. CASE f.t # "eof" /\ ~Open(h, s)
  BY <1>2 DEF OnFrame, Goes, Open
<1>3. CASE f.t = "hello" /\ Open(h, s)
  <2>1. OnFrame(h, s, f) \in {OnHello(h, s), Deny(h, s)}
    BY <1>3 DEF OnFrame, Open
  <2>. QED  BY <2>1, OnHelloSafe, DenySafe DEF Goes
<1>4. CASE f.t = "bye" /\ Open(h, s)
  <2>1. OnFrame(h, s, f) \in {Deny(h, s), End(h, s)}
    BY <1>4 DEF OnFrame
  <2>. QED  BY <2>1, DenySafe, EndSafe DEF Goes
<1>5. CASE f.t = "call" /\ Open(h, s)
  <2>1. OnFrame(h, s, f) = OnCall(h, s, f.id)
    BY <1>5 DEF OnFrame
  <2>. QED  BY <2>1, OnCallGoes
<1>6. CASE f.t = "cancel" /\ Open(h, s)
  <2>1. OnFrame(h, s, f) = OnCancel(h, f.id)
    BY <1>6 DEF OnFrame
  <2>. QED  BY <2>1, OnCancelSafe DEF Goes
<1>. QED  BY <1>1, <1>2, <1>3, <1>4, <1>5, <1>6 DEF FrameKinds

-----------------------------------------------------------------------------
(* The invariant, and the steps. *)

BrokerInv == Safe(Host) /\ up \in [Shims -> Seq(ShimFrames)]

LEMMA HostView ==
    /\ Host.b = broker /\ Host.conn = conn /\ Host.down = down
    /\ Host.handling = handling /\ Host.ran = ran
BY DEF Host

(* A step of the broker sets its variables to the fields of a view. *)
LEMMA SetGoes ==
    ASSUME NEW g, Goes(Host, g), SetHost(g)
    PROVE  Safe(Host)' /\ (ran' # ran => broker.state = "open")
<1>1. Host' = [b |-> g.b, conn |-> g.conn, down |-> g.down, handling |-> g.handling,
               ran |-> g.ran]
  BY DEF Host, SetHost
<1>2. Safe(Host')
  BY <1>1 DEF Goes, Safe, Shape, HandlersSafe, BudgetSafe, ConnSafe
<1>3. Safe(Host)' = Safe(Host')
  BY DEF Safe, Shape, HandlersSafe, BudgetSafe, ConnSafe
<1>. QED  BY <1>2, <1>3, HostView DEF Goes, SetHost

(* What every step keeps, and promises of the handlers it starts. *)
Keeps == BrokerInv' /\ (ran' # ran => broker.state = "open")

LEMMA FrameTypes ==
    /\ EOF \in ShimFrames /\ [t |-> "hello"] \in ShimFrames /\ [t |-> "bye"] \in ShimFrames
    /\ \A c \in Calls : /\ [t |-> "call", id |-> c] \in ShimFrames
                        /\ [t |-> "cancel", id |-> c] \in ShimFrames
    /\ \A f \in ShimFrames : f.t \in FrameKinds
BY DEF EOF, ShimFrames, FrameKinds

LEMMA HostReadsKeeps ==
    ASSUME BrokerInv, NEW s \in Shims, HostReads(s)
    PROVE  Keeps
<1>1. Head(up[s]).t \in FrameKinds /\ up' \in [Shims -> Seq(ShimFrames)]
  <2>1. up[s] \in Seq(ShimFrames) /\ up[s] # <<>>
    BY DEF BrokerInv, HostReads
  <2>2. Head(up[s]) \in ShimFrames /\ Tail(up[s]) \in Seq(ShimFrames)
    BY <2>1
  <2>. QED  BY <2>2, FrameTypes DEF BrokerInv, HostReads
<1>2. Goes(Host, OnFrame(Host, s, Head(up[s])))
  BY <1>1, OnFrameGoes DEF BrokerInv
<1>. QED
  BY <1>1, <1>2, SetGoes DEF HostReads, Keeps, BrokerInv

(* The broker's other steps. *)
LEMMA BrokerKeeps ==
    ASSUME BrokerInv,
           \/ \E s \in Shims : SocketCloses(s) \/ HelloTimesOut(s)
           \/ Pump \/ HostCloses \/ GraceEnds \/ Dispose
    PROVE  Keeps
<1>1. ASSUME NEW s \in Shims, SocketCloses(s)  PROVE Keeps
  <2>1. up' \in [Shims -> Seq(ShimFrames)]
    BY <1>1 DEF BrokerInv, SocketCloses
  <2>2. Goes(Host, Forget(Host, s))
    BY ForgetSafe DEF BrokerInv, Goes
  <2>. QED  BY <1>1, <2>1, <2>2, SetGoes DEF SocketCloses, Keeps, BrokerInv
<1>2. ASSUME NEW s \in Shims, HelloTimesOut(s)  PROVE Keeps
  <2>1. Goes(Host, Deny(Host, s))
    BY DenySafe DEF BrokerInv, Goes
  <2>. QED  BY <1>2, <2>1, SetGoes DEF HelloTimesOut, Keeps, BrokerInv
<1>3. CASE Pump
  <2>1. Goes(Host, PumpTurn(Host))
    BY <1>3, PumpTurnGoes, HostView DEF BrokerInv, Pump
  <2>. QED  BY <1>3, <2>1, SetGoes DEF Pump, Keeps, BrokerInv
<1>4. CASE HostCloses
  <2>1. Goes(Host, Close(Host))
    BY CloseSafe DEF BrokerInv, Goes
  <2>. QED  BY <1>4, <2>1, SetGoes DEF HostCloses, Keeps, BrokerInv
<1>5. CASE GraceEnds \/ Dispose
  <2>1. Goes(Host, FinishClose(Host))
    BY FinishCloseSafe DEF BrokerInv, Goes
  <2>. QED  BY <1>5, <2>1, SetGoes DEF GraceEnds, Dispose, Keeps, BrokerInv
<1>. QED  BY <1>1, <1>2, <1>3, <1>4, <1>5

(* Closing makes a handler nobody awaits harmless. *)
LEMMA LateClose ==
    ASSUME NEW h, Shape(h), BudgetSafe(h), ConnSafe(h), h.b.running = {},
           \A c, d \in h.handling : c = d
    PROVE  Safe(Close(h)) /\ Close(h).ran = h.ran
<1>1. CASE h.b.state # "open"
  BY <1>1 DEF Close, Safe, HandlersSafe
<1>2. CASE h.b.state = "open"
  <2> DEFINE g == [h EXCEPT !.b.state = "closing"]
  <2>1. Safe(g) /\ g.ran = h.ran
    BY DEF Safe, Shape, Fields, HandlersSafe, BudgetSafe, ConnSafe
  <2>2. \/ Close(h) = g
        \/ Close(h) = Send(g, h.b.active, [t |-> "closed"])
    BY <1>2 DEF Close
  <2>. HIDE DEF g
  <2>3. Same(g, Send(g, h.b.active, [t |-> "closed"]))
    BY <2>1, SendSame DEF Safe
  <2>. QED  BY <2>1, <2>2, <2>3, SameIsSafe DEF Same
<1>. QED  BY <1>1, <1>2

(* The end of a handler: in time, or past its deadline, and then it goes on
   but the broker is open no more. *)
LEMMA HandlerKeeps ==
    ASSUME BrokerInv,
           \/ \E closes \in BOOLEAN : HandlerReturns(closes)
           \/ HandlerTimesOut \/ \E c \in Calls : HandlerEndsLate(c)
    PROVE  Keeps
<1>1. ASSUME NEW closes \in BOOLEAN, HandlerReturns(closes)  PROVE Keeps
  <2>1. PICK c \in broker.running :
          LET h == [Host EXCEPT !.b.running = {}, !.handling = Host.handling \ {c}]
              h1 == Answer(h, c, "result")
          IN  SetHost(IF closes THEN Close(h1) ELSE h1)
    BY <1>1 DEF HandlerReturns
  <2> DEFINE h == [Host EXCEPT !.b.running = {}, !.handling = Host.handling \ {c}]
             h1 == Answer(h, c, "result")
  <2>2. Safe(h) /\ h.ran = Host.ran
    <3>1. Safe(Host) /\ c \in Host.b.running
      BY <2>1, HostView DEF BrokerInv
    <3>2. Host.handling \ {c} = {}
      BY <3>1 DEF Safe, HandlersSafe
    <3>. QED
      BY <3>1, <3>2 DEF Safe, Shape, Fields, HandlersSafe, BudgetSafe, ConnSafe
  <2>3. SetHost(IF closes THEN Close(h1) ELSE h1)
    BY <2>1
  <2>. HIDE DEF h
  <2>4. Safe(h1) /\ h1.ran = Host.ran
    BY <2>2, AnswerSame, SameIsSafe DEF Safe, Same
  <2>. HIDE DEF h1
  <2>5. Goes(Host, IF closes THEN Close(h1) ELSE h1)
    BY <2>4, CloseSafe DEF Goes
  <2>. QED  BY <1>1, <2>3, <2>5, SetGoes DEF HandlerReturns, Keeps, BrokerInv
<1>2. CASE HandlerTimesOut
  <2>1. PICK c \in broker.running :
          SetHost(Close(Answer([Host EXCEPT !.b.running = {}], c, "closed")))
    BY <1>2 DEF HandlerTimesOut
  <2> DEFINE h == [Host EXCEPT !.b.running = {}]
             h1 == Answer(h, c, "closed")
             g == Close(h1)
  <2>0. SetHost(g)
    BY <2>1
  <2>2. /\ Shape(h) /\ BudgetSafe(h) /\ ConnSafe(h) /\ h.ran = Host.ran
        /\ h.b.running = {} /\ \A a, d \in h.handling : a = d
    BY DEF BrokerInv, Safe, Shape, Fields, HandlersSafe, BudgetSafe, ConnSafe
  <2>. HIDE DEF h
  <2>3. Same(h, h1)
    BY <2>2, AnswerSame
  <2>. HIDE DEF h1
  <2>4. Safe(g) /\ g.ran = Host.ran
    <3>1. Shape(h1) /\ BudgetSafe(h1) /\ ConnSafe(h1) /\ h1.b.running = {}
      BY <2>2, <2>3 DEF Same, BudgetSafe, ConnSafe
    <3>2. (\A a, d \in h1.handling : a = d) /\ h1.ran = Host.ran
      BY <2>2, <2>3 DEF Same
    <3>. QED  BY <3>1, <3>2, LateClose
  <2>. HIDE DEF g
  <2>. QED  BY <1>2, <2>0, <2>4, SetGoes DEF HandlerTimesOut, Keeps, BrokerInv, Goes
<1>3. ASSUME NEW c \in Calls, HandlerEndsLate(c)  PROVE Keeps
  <2>1. broker.running = {}
    BY <1>3, HostView DEF HandlerEndsLate, BrokerInv, Safe, HandlersSafe
  <2>2. Host' = [Host EXCEPT !.handling = handling \ {c}] /\ ran' = ran
    BY <1>3 DEF HandlerEndsLate, Host
  <2>3. Safe(Host)'
    BY <1>3, <2>1 DEF HandlerEndsLate, BrokerInv, Host, Safe, Shape, Fields, HandlersSafe,
       BudgetSafe, ConnSafe
  <2>. QED  BY <1>3, <2>2, <2>3 DEF HandlerEndsLate, Keeps, BrokerInv
<1>. QED  BY <1>1, <1>2, <1>3

(* The shims' steps leave the broker alone but for the connection they open,
   and write only frames. *)
LEMMA ShimKeeps ==
    ASSUME BrokerInv, NEW s \in Shims,
           \/ Connect(s) \/ ConnectTimesOut(s) \/ ShimReads(s) \/ ShimCloses(s)
           \/ \E c \in Calls : CallTool(s, c) \/ Cancel(s, c)
    PROVE  Keeps
<1> USE DEF hostVars, shimVars
<1>1. CASE Connect(s)
  <2>1. up' \in [Shims -> Seq(ShimFrames)]
    <3>1. <<[t |-> "hello"]>> \in Seq(ShimFrames)
      BY FrameTypes
    <3>2. up' = up \/ up' = [up EXCEPT ![s] = <<[t |-> "hello"]>>]
      BY <1>1 DEF Connect
    <3>. QED  BY <3>1, <3>2 DEF BrokerInv
  <2>2. /\ broker' = broker /\ handling' = handling /\ ran' = ran
        /\ conn' = conn \/ conn' = [conn EXCEPT ![s] = "new"]
    BY <1>1 DEF Connect
  <2>3. Safe(Host)'
    BY <2>2 DEF BrokerInv, Host, Safe, Shape, Fields, HandlersSafe, BudgetSafe, ConnSafe
  <2>. QED  BY <2>1, <2>2, <2>3 DEF Keeps, BrokerInv
<1>2. ASSUME UNCHANGED <<broker, conn, handling, ran>>
      PROVE  Safe(Host)' /\ ran' = ran
  BY <1>2 DEF BrokerInv, Host, Safe, Shape, Fields, HandlersSafe, BudgetSafe, ConnSafe
<1>3. ASSUME Fail(s)  PROVE up' \in [Shims -> Seq(ShimFrames)]
  BY <1>3, FrameTypes DEF Fail, BrokerInv
<1>4. CASE ConnectTimesOut(s)
  BY <1>2, <1>3, <1>4 DEF ConnectTimesOut, Keeps, BrokerInv
<1>5. CASE ShimReads(s)
  <2>1. up' \in [Shims -> Seq(ShimFrames)]
    BY <1>3, <1>5 DEF ShimReads, BrokerInv
  <2>2. UNCHANGED <<broker, conn, handling, ran>>
    BY <1>5 DEF ShimReads
  <2>. QED  BY <1>2, <2>1, <2>2 DEF Keeps, BrokerInv
<1>6. CASE ShimCloses(s)
  <2>1. up' \in [Shims -> Seq(ShimFrames)]
    <3>1. up[s] \o <<[t |-> "bye"], EOF>> \in Seq(ShimFrames)
      BY FrameTypes DEF BrokerInv
    <3>. QED  BY <1>6, <3>1 DEF ShimCloses, BrokerInv
  <2>. QED  BY <1>2, <1>6, <2>1 DEF ShimCloses, Keeps, BrokerInv
<1>7. ASSUME NEW c \in Calls, CallTool(s, c) \/ Cancel(s, c)  PROVE Keeps
  <2>1. up' \in [Shims -> Seq(ShimFrames)]
    <3>1. up' = up \/ \E f \in ShimFrames : up' = [up EXCEPT ![s] = Append(up[s], f)]
      BY <1>7, FrameTypes DEF CallTool, Cancel
    <3>2. ASSUME NEW f \in ShimFrames
          PROVE  [up EXCEPT ![s] = Append(up[s], f)] \in [Shims -> Seq(ShimFrames)]
      <4>1. Append(up[s], f) \in Seq(ShimFrames)
        BY DEF BrokerInv
      <4>. QED  BY <4>1 DEF BrokerInv
    <3>. QED  BY <3>1, <3>2 DEF BrokerInv
  <2>2. UNCHANGED <<broker, conn, handling, ran>>
    BY <1>7 DEF CallTool, Cancel
  <2>. QED  BY <1>2, <2>1, <2>2 DEF Keeps, BrokerInv
<1>. QED  BY <1>1, <1>4, <1>5, <1>6, <1>7

LEMMA NextKeeps == ASSUME BrokerInv, Next PROVE Keeps
BY HostReadsKeeps, BrokerKeeps, HandlerKeeps, ShimKeeps DEF Next

LEMMA InitInv == Init => BrokerInv
<1>1. Init => Safe(Host)
  BY FS_EmptySet, LimitsAssumption, NoneAssumption DEF Init, Host, Safe, Shape, Fields,
     HandlersSafe, BudgetSafe, ConnSafe
<1>2. Init => up \in [Shims -> Seq(ShimFrames)]
  BY DEF Init
<1>. QED  BY <1>1, <1>2 DEF BrokerInv

LEMMA StutterKeeps == ASSUME BrokerInv, UNCHANGED vars PROVE Keeps
BY DEF BrokerInv, Host, vars, hostVars, shimVars, Keeps, Safe, Shape, Fields, HandlersSafe,
   BudgetSafe, ConnSafe

THEOREM Invariance == Spec => []BrokerInv
<1>1. BrokerInv /\ [Next]_vars => BrokerInv'
  BY NextKeeps, StutterKeeps DEF Keeps
<1>. QED  BY InitInv, <1>1, PTL DEF Spec

-----------------------------------------------------------------------------
(* The handler's session is never entered twice: #pump starts no handler while
   one it timed out on may be at work. *)
THEOREM OneHandlerCorrect == Spec => []OneHandler
<1>1. BrokerInv => OneHandler
  BY HostView DEF BrokerInv, Safe, HandlersSafe, OneHandler
<1>. QED  BY Invariance, <1>1, PTL

(* maxCalls bounds the handlers started and the calls refused while open. *)
THEOREM CallBudgetCorrect == Spec => []CallBudget
<1>1. BrokerInv => CallBudget
  <2>1. ASSUME BrokerInv  PROVE CallBudget
    <3>1. /\ IsFiniteSet(ran) /\ Cardinality(ran) <= broker.calls
          /\ broker.calls + broker.refusedOpen <= MaxCalls
          /\ broker.calls \in Nat /\ broker.refusedOpen \in Nat
      BY <2>1, HostView DEF BrokerInv, Safe, BudgetSafe, Shape
    <3>2. Cardinality(ran) \in Nat
      BY <3>1, FS_CardinalityType
    <3>. QED  BY <3>1, <3>2, LimitsAssumption DEF CallBudget
  <2>. QED  BY <2>1
<1>. QED  BY Invariance, <1>1, PTL

(* The broker serves one connection at a time. *)
THEOREM OneConnectionCorrect == Spec => []OneConnection
<1>1. BrokerInv => OneConnection
  BY HostView DEF BrokerInv, Safe, ConnSafe, OneConnection
<1>. QED  BY Invariance, <1>1, PTL

(* After close no handler starts, whatever is queued or in the sockets. *)
THEOREM NothingStartsCorrect == Spec => NothingStartsAfterClose
<1>1. BrokerInv /\ [Next]_vars => [ran' # ran => broker.state = "open"]_vars
  BY NextKeeps, StutterKeeps DEF Keeps
<1>. QED  BY Invariance, <1>1, PTL DEF Spec, NothingStartsAfterClose

-----------------------------------------------------------------------------
(***************************************************************************)
(* Closing is announced.  What the closed frame needs to arrive: the frames *)
(* on their way to a shim are a sequence, which the broker only extends and *)
(* the shim only reads from the front.                                      *)
(***************************************************************************)
IsSeq(q) == \E F : q \in Seq(F)

IsComing(q) == \E i \in DOMAIN q : q[i] = [t |-> "closed"]

Announces(h) ==
    /\ DOMAIN h.down = Shims
    /\ \A s \in Shims :
         /\ IsSeq(h.down[s])
         /\ h.b.state = "closing" /\ h.conn[s] = "authed" /\ shim[s] # "down"
              => told[s] \/ IsComing(h.down[s])

LEMMA FrameAppended ==
    ASSUME NEW q, IsSeq(q), NEW f
    PROVE  /\ IsSeq(Append(q, f))
           /\ IsComing(q) \/ f = [t |-> "closed"] => IsComing(Append(q, f))
<1>1. PICK F : q \in Seq(F)
  BY DEF IsSeq
<1>2. q \in Seq(F \cup {f}) /\ f \in F \cup {f}
  BY <1>1
<1>3. Append(q, f) \in Seq(F \cup {f})
  BY <1>2
<1>4. /\ \A i \in DOMAIN q : i \in DOMAIN Append(q, f) /\ Append(q, f)[i] = q[i]
      /\ Len(q) + 1 \in DOMAIN Append(q, f) /\ Append(q, f)[Len(q) + 1] = f
  BY <1>1
<1>. QED  BY <1>3, <1>4 DEF IsSeq, IsComing

(* Reading a frame that is not the closed one leaves that one on its way. *)
LEMMA FrameTaken ==
    ASSUME NEW q, IsSeq(q), q # <<>>
    PROVE  /\ IsSeq(Tail(q))
           /\ IsComing(q) => Head(q) = [t |-> "closed"] \/ IsComing(Tail(q))
<1>1. PICK F : q \in Seq(F)
  BY DEF IsSeq
<1>2. Tail(q) \in Seq(F)
  BY <1>1
<1>3. ASSUME NEW i \in DOMAIN q, i # 1
      PROVE  i - 1 \in DOMAIN Tail(q) /\ Tail(q)[i - 1] = q[i]
  BY <1>1, <1>3
<1>4. Head(q) = q[1]
  BY <1>1
<1>. QED  BY <1>2, <1>3, <1>4 DEF IsSeq, IsComing

LEMMA SendAnnounces ==
    ASSUME NEW h, Shape(h), Announces(h), NEW s, NEW f
    PROVE  /\ Announces(Send(h, s, f))
           /\ s \in Shims /\ Open(h, s) /\ shim[s] # "down" /\ f = [t |-> "closed"]
                => IsComing(Send(h, s, f).down[s])
<1> DEFINE g == [h EXCEPT !.down[s] = Append(h.down[s], f)]
<1>1. Send(h, s, f) = h \/ Send(h, s, f) = g
  BY DEF Send
<1>2. Open(h, s) /\ shim[s] # "down" => Send(h, s, f) = g
  BY DEF Send
<1>3. /\ g.b = h.b /\ g.conn = h.conn /\ DOMAIN g.down = Shims
      /\ \A r \in Shims : g.down[r] = IF r = s THEN Append(h.down[s], f) ELSE h.down[r]
  BY DEF Shape, Announces
<1>. HIDE DEF g
<1>4. ASSUME s \in Shims
      PROVE  /\ IsSeq(Append(h.down[s], f))
             /\ IsComing(h.down[s]) \/ f = [t |-> "closed"] => IsComing(Append(h.down[s], f))
  BY <1>4, FrameAppended DEF Announces
<1>5. Announces(g)
  BY <1>3, <1>4 DEF Announces
<1>. QED  BY <1>1, <1>2, <1>3, <1>4, <1>5

(* The other fields of the broker do not matter, nor does a connection that
   stops being served. *)
LEMMA SameAnnounces ==
    ASSUME NEW h, Announces(h), NEW g,
           g.down = h.down, g.b.state = h.b.state,
           \A s \in Shims : g.conn[s] = "authed" => h.conn[s] = "authed"
    PROVE  Announces(g)
BY DEF Announces

LEMMA AnswerAnnounces ==
    ASSUME NEW h, Shape(h), Announces(h), NEW c, NEW x
    PROVE  Announces(Answer(h, c, x))
BY SendAnnounces DEF Answer

LEMMA EndAnnounces ==
    ASSUME NEW h, Shape(h), Announces(h), NEW s \in Shims
    PROVE  Announces(End(h, s))
<1> DEFINE g == Send(h, s, EOF)
           e == [g EXCEPT !.conn[s] = "ended"]
<1>1. Shape(g) /\ Announces(g)
  BY SendSame, SendAnnounces DEF Same
<1>2. End(h, s) = h \/ End(h, s) = e
  BY DEF End
<1>. HIDE DEF g
<1>3. Announces(e)
  <2>1. e.down = g.down /\ e.b.state = g.b.state
    BY <1>1 DEF Shape
  <2>2. \A r \in Shims : e.conn[r] = "authed" => g.conn[r] = "authed"
    BY <1>1 DEF Shape
  <2>. HIDE DEF e
  <2>. QED  BY <1>1, <2>1, <2>2, SameAnnounces
<1>. QED  BY <1>2, <1>3

LEMMA DenyAnnounces ==
    ASSUME NEW h, Shape(h), Announces(h), NEW s \in Shims
    PROVE  Announces(Deny(h, s))
<1>1. Shape(Send(h, s, [t |-> "denied"])) /\ Announces(Send(h, s, [t |-> "denied"]))
  BY SendSame, SendAnnounces DEF Same
<1>. QED  BY <1>1, EndAnnounces DEF Deny

(* The connection that is served is the active one: it is told. *)
LEMMA CloseAnnounces ==
    ASSUME NEW h, Shape(h), ConnSafe(h), Announces(h)
    PROVE  Announces(Close(h))
<1> DEFINE g == [h EXCEPT !.b.state = "closing"]
           a == h.b.active
           sent == Send(g, a, [t |-> "closed"])
<1>1. CASE h.b.state # "open"
  BY <1>1 DEF Close
<1>2. CASE h.b.state = "open"
  <2>1. /\ Shape(g) /\ g.conn = h.conn /\ g.down = h.down /\ g.b.state = "closing"
        /\ Close(h) = IF a = None THEN g ELSE sent
    BY <1>2 DEF Close, Shape, Fields
  <2>. HIDE DEF g
  <2>2. \A s \in Shims : h.conn[s] = "authed" => s = a /\ Open(g, s)
    BY <2>1 DEF ConnSafe, Open
  <2>3. CASE a = None
    BY <2>1, <2>2, <2>3, NoneAssumption DEF Announces
  <2>4. CASE a # None
    <3>1. /\ sent.conn = h.conn /\ DOMAIN sent.down = Shims
          /\ \A s \in Shims : IsSeq(sent.down[s])
          /\ a \in Shims /\ Open(g, a) /\ shim[a] # "down" => IsComing(sent.down[a])
      <4>1. sent = g \/ sent = [g EXCEPT !.down[a] = Append(g.down[a], [t |-> "closed"])]
        BY DEF Send
      <4>2. Open(g, a) /\ shim[a] # "down"
              => sent = [g EXCEPT !.down[a] = Append(g.down[a], [t |-> "closed"])]
        BY DEF Send
      <4>3. a \in Shims => /\ IsSeq(Append(g.down[a], [t |-> "closed"]))
                           /\ IsComing(Append(g.down[a], [t |-> "closed"]))
        BY <2>1, FrameAppended DEF Announces
      <4>4. /\ DOMAIN g = {"b", "conn", "down", "handling", "ran"}
            /\ DOMAIN g.down = Shims /\ \A s \in Shims : IsSeq(g.down[s])
        BY <2>1 DEF Announces, Shape
      <4>. HIDE DEF sent
      <4>. QED  BY <2>1, <4>1, <4>2, <4>3, <4>4
    <3>. HIDE DEF sent
    <3>. QED  BY <2>1, <2>2, <2>4, <3>1 DEF Announces
  <2>. QED  BY <2>3, <2>4
<1>. QED  BY <1>1, <1>2

LEMMA FinishAnnounces ==
    ASSUME NEW h, Shape(h), Announces(h)
    PROVE  Announces(FinishClose(h))
<1> DEFINE g == FinishClose(h)
<1>1. g.b.state = "closed" /\ g.down = [s \in Shims |-> Send(h, s, EOF).down[s]]
  BY DEF FinishClose, Shape, Fields
<1>2. \A s \in Shims : IsSeq(Send(h, s, EOF).down[s])
  BY SendAnnounces DEF Announces
<1>. HIDE DEF g
<1>3. Announces(g)
  BY <1>1, <1>2 DEF Announces
<1>. QED  BY <1>3 DEF g

(* A forgotten connection is not served, and the others keep their frames. *)
LEMMA ForgetAnnounces ==
    ASSUME NEW h, Shape(h), Announces(h), NEW s \in Shims
    PROVE  Announces(Forget(h, s))
<1> DEFINE q == Keeping(h.b.queue, {c \in Calls : from[c] # s})
           g == [h EXCEPT !.conn[s] = "gone",
                          !.b.active = IF h.b.active = s THEN None ELSE h.b.active,
                          !.b.queue = q]
<1>1. Forget(h, s) = g
  BY DEF Forget, Shape, Fields
<1>. HIDE DEF q
<1>2. /\ g.down = h.down /\ g.b.state = h.b.state
      /\ \A r \in Shims : g.conn[r] = "authed" => h.conn[r] = "authed"
  BY DEF Shape, Fields
<1>. HIDE DEF g
<1>. QED  BY <1>1, <1>2, SameAnnounces

LEMMA AnswerClosedAnnounces ==
    ASSUME NEW h, Shape(h), Announces(h), NEW c, NEW arrivedOpen \in BOOLEAN
    PROVE  Announces(AnswerClosed(h, c, arrivedOpen))
<1> DEFINE g == Answer(h, c, "closed")
           n == h.b.afterClose + 1
           over == g.b.reported \/ n >= MaxCallsAfterClose
           counted(e) == [g EXCEPT !.b.afterClose = n, !.b.reported = e]
<1>1. Announces(g) /\ Shape(g)
  BY AnswerAnnounces, AnswerSame DEF Same
<1>. HIDE DEF g, n
<1>2. ASSUME NEW e  PROVE Announces(counted(e))
  BY <1>1, SameAnnounces DEF Shape, Fields
<1>3. AnswerClosed(h, c, arrivedOpen) = g \/ AnswerClosed(h, c, arrivedOpen) = counted(over)
  BY <1>1 DEF AnswerClosed, g, n, Shape, Fields
<1>. HIDE DEF counted, over
<1>. QED  BY <1>1, <1>2, <1>3

LEMMA RefuseAnnounces ==
    ASSUME NEW h, Shape(h), Announces(h), NEW c
    PROVE  Announces(Refuse(h, c))
<1> DEFINE g == Answer(h, c, "refused")
           k == [g EXCEPT !.b.refusedOpen = @ + 1]
<1>1. Announces(g) /\ Shape(g)
  BY AnswerAnnounces, AnswerSame DEF Same
<1>2. Refuse(h, c) = g \/ Refuse(h, c) = k
  BY DEF Refuse
<1>. HIDE DEF g
<1>3. k.down = g.down /\ k.conn = g.conn /\ k.b.state = g.b.state
  BY <1>1 DEF Shape, Fields
<1>. HIDE DEF k
<1>. QED  BY <1>1, <1>2, <1>3, SameAnnounces

LEMMA HitCallLimitAnnounces ==
    ASSUME NEW h, Safe(h), Announces(h), NEW c
    PROVE  Announces(HitCallLimit(h, c))
<1>1. Announces(Close(h)) /\ Shape(Close(h))
  BY CloseAnnounces, CloseSafe DEF Safe
<1>. QED  BY <1>1, AnswerAnnounces DEF HitCallLimit

LEMMA ProcessAnnounces ==
    ASSUME NEW h, Safe(h), Announces(h), NEW c
    PROVE  Announces(Process(h, c))
<1>1. CASE h.b.state # "open"
  BY <1>1, AnswerClosedAnnounces DEF Process, Safe
<1>2. CASE h.b.state = "open" /\ CallLimitReached(h)
  BY <1>2, HitCallLimitAnnounces DEF Process
<1>3. CASE h.b.state = "open" /\ ~CallLimitReached(h)
  <2>1. Process(h, c) \in {Refuse(h, c), RunHandler(h, c)}
    BY <1>3 DEF Process
  <2>2. Announces(RunHandler(h, c))
    <3>1. /\ RunHandler(h, c).down = h.down /\ RunHandler(h, c).conn = h.conn
          /\ RunHandler(h, c).b.state = h.b.state
      BY DEF RunHandler, Safe, Shape, Fields
    <3>. QED  BY <3>1, SameAnnounces
  <2>. QED  BY <2>1, <2>2, RefuseAnnounces DEF Safe
<1>. QED  BY <1>1, <1>2, <1>3

LEMMA PumpTurnAnnounces ==
    ASSUME NEW h, Safe(h), Announces(h)
    PROVE  Announces(PumpTurn(h))
<1> DEFINE c == Head(h.b.queue)
           idle == [h EXCEPT !.b.pumping = FALSE]
           g == [h EXCEPT !.b.queue = Tail(h.b.queue), !.b.pumping = TRUE]
<1>0. h.b.running # {} => h.b.pumping = TRUE
  BY DEF Safe, HandlersSafe
<1>1. Announces(idle)
  BY SameAnnounces DEF Safe, Shape, Fields
<1>2. Safe(g) /\ Announces(g)
  <2>1. Safe(g)
    BY <1>0 DEF Safe, Shape, Fields, HandlersSafe, BudgetSafe, ConnSafe
  <2>2. Announces(g)
    BY SameAnnounces DEF Safe, Shape, Fields
  <2>. QED  BY <2>1, <2>2
<1>3. PumpTurn(h) \in {idle, g, Process(g, c)}
  BY DEF PumpTurn, Safe, Shape, Fields
<1>. HIDE DEF g, idle, c
<1>. QED  BY <1>1, <1>2, <1>3, ProcessAnnounces

LEMMA EnqueueAnnounces ==
    ASSUME NEW h, Safe(h), Announces(h), NEW c
    PROVE  Announces(Enqueue(h, c))
<1> DEFINE g == [h EXCEPT !.b.queue = Append(h.b.queue, c)]
<1>1. Safe(g)
  BY DEF Safe, Shape, Fields, HandlersSafe, BudgetSafe, ConnSafe
<1>2. Announces(g)
  BY SameAnnounces DEF Safe, Shape, Fields
<1>3. Enqueue(h, c) = IF h.b.pumping THEN g ELSE PumpTurn(g)
  BY DEF Enqueue, Safe, Shape, Fields
<1>. HIDE DEF g
<1>. QED  BY <1>1, <1>2, <1>3, PumpTurnAnnounces

(* A shim that connects while the broker closes is told at once. *)
LEMMA OnHelloAnnounces ==
    ASSUME NEW h, Safe(h), Announces(h), NEW s \in Shims
    PROVE  Announces(OnHello(h, s))
<1> DEFINE taken == h.b.active # None /\ Open(h, h.b.active)
           g == [h EXCEPT !.conn[s] = "authed", !.b.active = s,
                          !.b.accepted = h.b.accepted + 1]
           g2 == Send(g, s, [t |-> "welcome"])
           g3 == Send(g2, s, [t |-> "closed"])
<1>1. OnHello(h, s) = IF h.b.accepted >= MaxConnections \/ taken THEN Deny(h, s)
                      ELSE IF h.b.state = "closing" THEN g3 ELSE g2
  BY DEF OnHello, Safe, Shape, Fields
<1>2. /\ Shape(g) /\ g.b.state = h.b.state /\ g.down = h.down
      /\ \A r \in Shims : g.conn[r] = IF r = s THEN "authed" ELSE h.conn[r]
  BY DEF Safe, Shape, Fields
<1>. HIDE DEF g
<1>3. CASE h.b.accepted >= MaxConnections \/ taken
  BY <1>1, <1>3, DenyAnnounces DEF Safe
<1>4. CASE ~(h.b.accepted >= MaxConnections \/ taken) /\ h.b.state # "closing"
  <2>1. Announces(g)
    BY <1>2, <1>4 DEF Announces
  <2>. QED  BY <1>1, <1>2, <1>4, <2>1, SendAnnounces
<1>5. CASE ~(h.b.accepted >= MaxConnections \/ taken) /\ h.b.state = "closing"
  <2>1. /\ g2.conn = g.conn /\ g3.conn = g.conn /\ g3.b = g.b /\ g2.b = g.b
        /\ Shape(g2) /\ Shape(g3)
    BY <1>2, SendSame DEF Same
  <2>2. \A r \in Shims : IsSeq(g2.down[r]) /\ (r # s => g2.down[r] = h.down[r])
    BY <1>2, FrameAppended DEF Send, Shape, Announces
  <2>3. DOMAIN g2.down = Shims /\ DOMAIN g3.down = Shims
    BY <1>2 DEF Send, Shape, Announces
  <2>4. Open(g2, s)
    BY <1>2, <2>1 DEF Open
  <2>. HIDE DEF g2
  <2>5. \A r \in Shims : IsSeq(g3.down[r]) /\ (r # s => g3.down[r] = g2.down[r])
    BY <2>1, <2>2, <2>3, FrameAppended DEF Send, Shape
  <2>6. shim[s] # "down" => IsComing(g3.down[s])
    <3>1. ASSUME shim[s] # "down"
          PROVE  g3 = [g2 EXCEPT !.down[s] = Append(g2.down[s], [t |-> "closed"])]
      BY <2>4, <3>1 DEF Send
    <3>2. ASSUME shim[s] # "down"
          PROVE  g3.down[s] = Append(g2.down[s], [t |-> "closed"])
      BY <2>1, <2>3, <3>1, <3>2 DEF Shape
    <3>. QED  BY <2>2, <3>2, FrameAppended
  <2>. HIDE DEF g3
  <2>7. Announces(g3)
    BY <1>2, <2>1, <2>2, <2>3, <2>5, <2>6 DEF Announces
  <2>. QED  BY <1>1, <1>5, <2>7
<1>. QED  BY <1>3, <1>4, <1>5

LEMMA OnCancelAnnounces ==
    ASSUME NEW h, Shape(h), Announces(h), NEW c
    PROVE  Announces(OnCancel(h, c))
<1> DEFINE g(q) == [h EXCEPT !.b.queue = q]
           answered(q) == Answer(g(q), c, "cancelled")
<1>1. ASSUME NEW q  PROVE Announces(answered(q))
  <2>1. Shape(g(q)) /\ Announces(g(q))
    BY SameAnnounces DEF Shape, Fields
  <2>. HIDE DEF g
  <2>. QED  BY <2>1, AnswerAnnounces
<1>2. OnCancel(h, c) = h \/ \E q : OnCancel(h, c) = answered(q)
  BY DEF OnCancel
<1>. HIDE DEF answered
<1>. QED  BY <1>1, <1>2

LEMMA OnFrameAnnounces ==
    ASSUME NEW h, Safe(h), Announces(h), NEW s \in Shims, NEW f, f.t \in FrameKinds
    PROVE  Announces(OnFrame(h, s, f))
<1>1. CASE f.t = "eof"
  BY <1>1, ForgetAnnounces DEF OnFrame, Safe
<1>2. CASE f.t # "eof" /\ ~Open(h, s)
  BY <1>2 DEF OnFrame, Open
<1>3. CASE f.t = "hello" /\ Open(h, s)
  <2>1. OnFrame(h, s, f) \in {OnHello(h, s), Deny(h, s)}
    BY <1>3 DEF OnFrame, Open
  <2>. QED  BY <2>1, OnHelloAnnounces, DenyAnnounces DEF Safe
<1>4. CASE f.t = "bye" /\ Open(h, s)
  <2>1. OnFrame(h, s, f) \in {Deny(h, s), End(h, s)}
    BY <1>4 DEF OnFrame
  <2>. QED  BY <2>1, DenyAnnounces, EndAnnounces DEF Safe
<1>5. CASE f.t = "call" /\ Open(h, s)
  <2>1. OnFrame(h, s, f) = OnCall(h, s, f.id)
    BY <1>5 DEF OnFrame
  <2>2. OnCall(h, s, f.id) \in {AnswerClosed(h, f.id, FALSE), HitCallLimit(h, f.id),
                                Refuse(h, f.id), Enqueue(h, f.id)}
    BY DEF OnCall
  <2>. QED
    BY <2>1, <2>2, AnswerClosedAnnounces, HitCallLimitAnnounces, RefuseAnnounces,
       EnqueueAnnounces DEF Safe
<1>6. CASE f.t = "cancel" /\ Open(h, s)
  <2>1. OnFrame(h, s, f) = OnCancel(h, f.id)
    BY <1>6 DEF OnFrame
  <2>. QED  BY <2>1, OnCancelAnnounces DEF Safe
<1>. QED  BY <1>1, <1>2, <1>3, <1>4, <1>5, <1>6 DEF FrameKinds

ShimStates == {"off", "connecting", "up", "down"}

AnnounceInv ==
    /\ Announces(Host)
    /\ shim \in [Shims -> ShimStates] /\ told \in [Shims -> BOOLEAN]

(* The broker's steps leave the shims alone. *)
LEMMA SetAnnounces ==
    ASSUME AnnounceInv, NEW g, Announces(g), SetHost(g), UNCHANGED shimVars
    PROVE  AnnounceInv'
BY HostView DEF AnnounceInv, Announces, SetHost, Host, shimVars

LEMMA BrokerAnnounces ==
    ASSUME BrokerInv, AnnounceInv,
           \/ \E s \in Shims : HostReads(s) \/ SocketCloses(s) \/ HelloTimesOut(s)
           \/ Pump \/ HostCloses \/ GraceEnds \/ Dispose
    PROVE  AnnounceInv'
<1>0. Safe(Host) /\ Shape(Host) /\ ConnSafe(Host) /\ Announces(Host)
  BY DEF BrokerInv, AnnounceInv, Safe
<1>1. ASSUME NEW s \in Shims, HostReads(s)  PROVE AnnounceInv'
  <2>1. Head(up[s]) \in ShimFrames
    BY <1>1 DEF BrokerInv, HostReads
  <2>2. Announces(OnFrame(Host, s, Head(up[s])))
    BY <1>0, <2>1, FrameTypes, OnFrameAnnounces
  <2>. QED  BY <1>1, <2>2, SetAnnounces DEF HostReads
<1>2. ASSUME NEW s \in Shims, SocketCloses(s)  PROVE AnnounceInv'
  BY <1>0, <1>2, ForgetAnnounces, SetAnnounces DEF SocketCloses
<1>3. ASSUME NEW s \in Shims, HelloTimesOut(s)  PROVE AnnounceInv'
  BY <1>0, <1>3, DenyAnnounces, SetAnnounces DEF HelloTimesOut
<1>4. CASE Pump
  BY <1>0, <1>4, PumpTurnAnnounces, SetAnnounces DEF Pump
<1>5. CASE HostCloses
  BY <1>0, <1>5, CloseAnnounces, SetAnnounces DEF HostCloses
<1>6. CASE GraceEnds \/ Dispose
  BY <1>0, <1>6, FinishAnnounces, SetAnnounces DEF GraceEnds, Dispose
<1>. QED  BY <1>1, <1>2, <1>3, <1>4, <1>5, <1>6

LEMMA HandlerAnnounces ==
    ASSUME BrokerInv, AnnounceInv,
           \/ \E closes \in BOOLEAN : HandlerReturns(closes)
           \/ HandlerTimesOut \/ \E c \in Calls : HandlerEndsLate(c)
    PROVE  AnnounceInv'
<1>0. Safe(Host) /\ Shape(Host) /\ ConnSafe(Host) /\ Announces(Host)
  BY DEF BrokerInv, AnnounceInv, Safe
<1> DEFINE done(k) == [Host EXCEPT !.b.running = {}, !.handling = k]
           late == [Host EXCEPT !.b.running = {}]
<1>1. ASSUME NEW k  PROVE Shape(done(k)) /\ ConnSafe(done(k)) /\ Announces(done(k))
  BY <1>0, SameAnnounces DEF Shape, Fields, ConnSafe
<1>2. Shape(late) /\ ConnSafe(late) /\ Announces(late)
  BY <1>0, SameAnnounces DEF Shape, Fields, ConnSafe
<1>3. ASSUME NEW d, Shape(d), ConnSafe(d), Announces(d), NEW c, NEW x
      PROVE  LET g == Answer(d, c, x)
             IN  Announces(g) /\ Announces(Close(g))
  <2> DEFINE g == Answer(d, c, x)
  <2>1. Announces(g) /\ Same(d, g)
    BY <1>3, AnswerAnnounces, AnswerSame
  <2>. HIDE DEF g
  <2>2. Shape(g) /\ ConnSafe(g)
    BY <1>3, <2>1 DEF Same, ConnSafe
  <2>3. Announces(g) /\ Announces(Close(g))
    BY <2>1, <2>2, CloseAnnounces
  <2>. QED  BY <2>3 DEF g
<1>4. ASSUME NEW closes \in BOOLEAN, HandlerReturns(closes)  PROVE AnnounceInv'
  <2>1. UNCHANGED shimVars /\ \E c \in broker.running :
          LET g == Answer(done(Host.handling \ {c}), c, "result")
          IN  SetHost(IF closes THEN Close(g) ELSE g)
    BY <1>4 DEF HandlerReturns
  <2>. HIDE DEF done
  <2>. QED  BY <1>1, <1>3, <2>1, SetAnnounces
<1>5. CASE HandlerTimesOut
  <2>1. UNCHANGED shimVars /\ \E c \in broker.running : SetHost(Close(Answer(late, c, "closed")))
    BY <1>5 DEF HandlerTimesOut
  <2>. HIDE DEF late
  <2>. QED  BY <1>2, <1>3, <2>1, SetAnnounces
<1>6. ASSUME NEW c \in Calls, HandlerEndsLate(c)  PROVE AnnounceInv'
  BY <1>6 DEF HandlerEndsLate, AnnounceInv, Announces, Host, shimVars
<1>. QED  BY <1>4, <1>5, <1>6

(* A shim drops no frame it has not read, but when it is down. *)
LEMMA ShimAnnounces ==
    ASSUME BrokerInv, AnnounceInv, NEW s \in Shims,
           \/ Connect(s) \/ ConnectTimesOut(s) \/ ShimReads(s) \/ ShimCloses(s)
           \/ \E c \in Calls : CallTool(s, c) \/ Cancel(s, c)
    PROVE  AnnounceInv'
<1>0. /\ DOMAIN conn = Shims /\ DOMAIN down = Shims /\ \A r \in Shims : IsSeq(down[r])
      /\ \A r \in Shims : broker.state = "closing" /\ conn[r] = "authed" /\ shim[r] # "down"
                           => told[r] \/ IsComing(down[r])
  BY HostView DEF BrokerInv, Safe, Shape, AnnounceInv, Announces
<1>1. SUFFICES
        /\ shim' \in [Shims -> ShimStates] /\ told' \in [Shims -> BOOLEAN]
        /\ DOMAIN down' = Shims /\ \A r \in Shims : IsSeq(down'[r])
        /\ \A r \in Shims : broker'.state = "closing" /\ conn'[r] = "authed"
                              /\ shim'[r] # "down"
                            => told'[r] \/ IsComing(down'[r])
  BY DEF AnnounceInv, Announces, Host
<1>2. IsSeq(<<>>)
  BY DEF IsSeq
<1>3. CASE Connect(s)
  BY <1>0, <1>3 DEF Connect, AnnounceInv, ShimStates
<1>4. CASE ConnectTimesOut(s)
  BY <1>0, <1>2, <1>4 DEF ConnectTimesOut, Fail, AnnounceInv, ShimStates
<1>5. CASE ShimCloses(s)
  BY <1>0, <1>2, <1>5 DEF ShimCloses, AnnounceInv, ShimStates
<1>6. CASE ShimReads(s)
  <2>1. /\ UNCHANGED <<broker, conn>> /\ down[s] # <<>>
        /\ down' = [down EXCEPT ![s] = IF shim'[s] = "down" THEN <<>> ELSE Tail(down[s])]
    BY <1>6 DEF ShimReads
  <2>2. /\ shim' \in [Shims -> ShimStates] /\ told' \in [Shims -> BOOLEAN]
        /\ \A r \in Shims : r # s => shim'[r] = shim[r] /\ told'[r] = told[r]
        /\ \/ shim'[s] = "down"
           \/ /\ shim[s] # "down" /\ (told[s] => told'[s])
              /\ Head(down[s]) = [t |-> "closed"] => told'[s]
    <3>1. shim[s] # "down" /\ shim \in [Shims -> ShimStates] /\ told \in [Shims -> BOOLEAN]
      BY <1>6 DEF ShimReads, AnnounceInv
    <3>2. CASE Fail(s)
      BY <3>1, <3>2 DEF Fail, ShimStates
    <3>3. CASE shim' = [shim EXCEPT ![s] = "up"] /\ told' = told
               /\ Head(down[s]).t = "welcome"
      BY <3>1, <3>3 DEF ShimStates
    <3>4. CASE shim' = shim /\ told' = [told EXCEPT ![s] = TRUE]
      BY <3>1, <3>4
    <3>5. CASE shim' = shim /\ told' = told /\ Head(down[s]).t = "result"
      BY <3>1, <3>5
    <3>. QED  BY <1>6, <3>2, <3>3, <3>4, <3>5 DEF ShimReads
  <2>3. /\ IsSeq(Tail(down[s]))
        /\ IsComing(down[s]) => Head(down[s]) = [t |-> "closed"] \/ IsComing(Tail(down[s]))
    BY <1>0, <2>1, FrameTaken
  <2>4. /\ DOMAIN down' = Shims
        /\ \A r \in Shims : r # s => down'[r] = down[r]
        /\ down'[s] = IF shim'[s] = "down" THEN <<>> ELSE Tail(down[s])
    BY <1>0, <2>1
  <2>5. ASSUME NEW r \in Shims
        PROVE  /\ IsSeq(down'[r])
               /\ broker'.state = "closing" /\ conn'[r] = "authed" /\ shim'[r] # "down"
                    => told'[r] \/ IsComing(down'[r])
    <3>1. CASE r = s
      BY <1>0, <1>2, <2>1, <2>2, <2>3, <2>4, <3>1
    <3>2. CASE r # s
      BY <1>0, <2>1, <2>2, <2>4, <3>2
    <3>. QED  BY <3>1, <3>2
  <2>. QED  BY <2>2, <2>4, <2>5
<1>7. ASSUME NEW c \in Calls, CallTool(s, c) \/ Cancel(s, c)  PROVE AnnounceInv'
  BY <1>7 DEF CallTool, Cancel, hostVars, shimVars, AnnounceInv, Announces, Host
<1>. QED  BY <1>3, <1>4, <1>5, <1>6, <1>7 DEF AnnounceInv, Announces, Host

(* A shim that is served while the broker closes hears of it before its
   connection ends: its calls end with the closed text. *)
THEOREM ClosingCorrect == Spec => []ClosingIsAnnounced
<1>1. Init => AnnounceInv
  BY DEF Init, AnnounceInv, Announces, Host, IsSeq, ShimStates
<1>2. BrokerInv /\ AnnounceInv /\ [Next]_vars => AnnounceInv'
  <2>1. ASSUME BrokerInv, AnnounceInv, Next  PROVE AnnounceInv'
    BY <2>1, BrokerAnnounces, HandlerAnnounces, ShimAnnounces DEF Next
  <2>2. ASSUME AnnounceInv, UNCHANGED vars  PROVE AnnounceInv'
    BY <2>2 DEF vars, hostVars, shimVars, AnnounceInv, Announces, Host
  <2>. QED  BY <2>1, <2>2
<1>3. AnnounceInv => ClosingIsAnnounced
  BY HostView DEF AnnounceInv, Announces, IsComing, ClosingIsAnnounced
<1>. QED  BY <1>1, <1>2, <1>3, Invariance, PTL DEF Spec

-----------------------------------------------------------------------------
(***************************************************************************)
(* What was not executed was not run.  A call is in one place: in a frame  *)
(* on its way, in the queue, run, or told as not run.                      *)
(***************************************************************************)

(* Induction on a set of numbers: if n were missing, moving every number up by
   one would fit the set into a smaller one. *)
LEMMA Induction ==
    ASSUME NEW n \in Nat, NEW S, 0 \in S, \A i \in 0..(n - 1) : i \in S => i + 1 \in S
    PROVE  n \in S
<1> SUFFICES ASSUME n \notin S
             PROVE  FALSE
  OBVIOUS
<1> DEFINE T == S \cap (0..n)
           next == [i \in T |-> i + 1]
<1>1. IsFiniteSet(T) /\ 0 \in T
  <2>1. IsFiniteSet(0..n)
    BY FS_Interval
  <2>. QED  BY <2>1, FS_Subset
<1>2. IsFiniteSet(T \ {0}) /\ Cardinality(T \ {0}) = Cardinality(T) - 1
      /\ Cardinality(T) \in Nat
  BY <1>1, FS_RemoveElement, FS_CardinalityType
<1>3. next \in Injection(T, T \ {0})
  <2>1. \A i \in T : i + 1 \in T \ {0}
    OBVIOUS
  <2>2. \A i, k \in T : next[i] = next[k] => i = k
    OBVIOUS
  <2>. QED  BY <2>1, <2>2 DEF Injection, IsInjective
<1>4. Cardinality(T) <= Cardinality(T \ {0})
  BY <1>2, <1>3, FS_Injection
<1>. QED  BY <1>2, <1>4

(* The recursive function that filters a queue exists. *)
LEMMA KeepingSteps ==
    ASSUME NEW q \in Seq(Calls), NEW C
    PROVE  \E kept :
             /\ kept[0] = <<>> /\ kept[Len(q)] = Keeping(q, C)
             /\ \A i \in 1..Len(q) :
                  kept[i] = IF q[i] \in C THEN Append(kept[i - 1], q[i]) ELSE kept[i - 1]
<1> DEFINE n == Len(q)
           Grow(r, i) == IF q[i] \in C THEN Append(r, q[i]) ELSE r
           Steps(f, m) == f[0] = <<>> /\ \A i \in 1..m : f[i] = Grow(f[i - 1], i)
           S == {m \in 0..n : \E f : Steps(f, m)}
           kept[i \in 0..n] == IF i = 0 THEN <<>>
                               ELSE IF q[i] \in C THEN Append(kept[i - 1], q[i]) ELSE kept[i - 1]
<1>1. n \in Nat
  OBVIOUS
<1>2. 0 \in S
  <2> DEFINE f == [i \in {0} |-> <<>>]
  <2>1. Steps(f, 0)
    OBVIOUS
  <2>2. \E g : Steps(g, 0)
    BY <2>1
  <2>. HIDE DEF Steps
  <2>. QED  BY <1>1, <2>2
<1> HIDE DEF Grow
<1>3. ASSUME NEW m \in 0..(n - 1), m \in S
      PROVE  m + 1 \in S
  <2>1. PICK f : Steps(f, m)
    BY <1>3
  <2> DEFINE g == [i \in 0..(m + 1) |-> IF i <= m THEN f[i] ELSE Grow(f[m], m + 1)]
  <2>2. ASSUME NEW i \in 1..(m + 1)
        PROVE  g[i] = Grow(g[i - 1], i)
    <3>1. CASE i <= m
      BY <1>1, <2>1, <3>1
    <3>2. CASE i = m + 1
      BY <1>1, <3>2
    <3>. QED  BY <1>1, <3>1, <3>2
  <2>3. Steps(g, m + 1)
    BY <1>1, <2>1, <2>2
  <2>4. \E h : Steps(h, m + 1)
    BY <2>3
  <2>5. m + 1 \in 0..n
    BY <1>1
  <2>. HIDE DEF Steps, n
  <2>. QED  BY <2>4, <2>5
<1>4. PICK f : Steps(f, n)
  <2>. HIDE DEF Steps, n
  <2>1. n \in S
    BY <1>1, <1>2, <1>3, Induction
  <2>. QED  BY <2>1
<1>5. kept = [i \in 0..n |-> IF i = 0 THEN <<>>
                             ELSE IF q[i] \in C THEN Append(kept[i - 1], q[i]) ELSE kept[i - 1]]
  <2> DEFINE h == [i \in 0..n |-> f[i]]
  <2>1. h = [i \in 0..n |-> IF i = 0 THEN <<>>
                            ELSE IF q[i] \in C THEN Append(h[i - 1], q[i]) ELSE h[i - 1]]
    BY <1>1, <1>4 DEF Grow
  <2>. HIDE DEF h, n
  <2>. QED  BY <2>1
<1>. HIDE DEF kept
<1>6. Steps(kept, n)
  <2>1. ASSUME NEW i \in 0..n
        PROVE  kept[i] = IF i = 0 THEN <<>>
                         ELSE IF q[i] \in C THEN Append(kept[i - 1], q[i]) ELSE kept[i - 1]
    BY <1>5, <2>1
  <2>2. \A i \in 1..n : i \in 0..n /\ i # 0
    BY <1>1
  <2>. HIDE DEF n
  <2>. QED  BY <1>1, <2>1, <2>2 DEF Grow
<1>7. kept[n] = Keeping(q, C)
  BY DEF Keeping, kept
<1>. QED  BY <1>6, <1>7 DEF Grow

(* A queue of calls, each in it once. *)
IsQueue(q) == q \in Seq(Calls) /\ \A i, j \in DOMAIN q : q[i] = q[j] => i = j

LEMMA QueueAppended ==
    ASSUME NEW q, IsQueue(q), NEW c \in Calls, \A i \in DOMAIN q : q[i] # c
    PROVE  /\ IsQueue(Append(q, c))
           /\ \A i \in DOMAIN Append(q, c) :
                Append(q, c)[i] = c \/ \E j \in DOMAIN q : q[j] = Append(q, c)[i]
BY DEF IsQueue

LEMMA QueueTaken ==
    ASSUME NEW q, IsQueue(q), q # <<>>
    PROVE  /\ IsQueue(Tail(q)) /\ Head(q) \in Calls
           /\ \E j \in DOMAIN q : q[j] = Head(q)
           /\ \A i \in DOMAIN Tail(q) : /\ Tail(q)[i] # Head(q)
                                        /\ \E j \in DOMAIN q : q[j] = Tail(q)[i]
<1>1. /\ q \in Seq(Calls) /\ Len(q) \in Nat \ {0} /\ DOMAIN q = 1..Len(q)
      /\ Tail(q) \in Seq(Calls) /\ DOMAIN Tail(q) = 1..(Len(q) - 1)
      /\ Head(q) = q[1] /\ 1 \in DOMAIN q
      /\ \A i \in DOMAIN Tail(q) : i + 1 \in DOMAIN q /\ Tail(q)[i] = q[i + 1]
  BY DEF IsQueue
<1>2. \A i, j \in DOMAIN q : q[i] = q[j] => i = j
  BY DEF IsQueue
<1>. QED  BY <1>1, <1>2 DEF IsQueue

(* Filtering a queue leaves a queue, of calls of C that were in it. *)
LEMMA KeepingFits ==
    ASSUME NEW q, IsQueue(q), NEW C
    PROVE  /\ IsQueue(Keeping(q, C))
           /\ \A i \in DOMAIN Keeping(q, C) :
                /\ Keeping(q, C)[i] \in C
                /\ \E j \in DOMAIN q : q[j] = Keeping(q, C)[i]
<1> DEFINE n == Len(q)
           Fits(r, m) == /\ IsQueue(r)
                         /\ \A i \in DOMAIN r : r[i] \in C /\ \E j \in 1..m : q[j] = r[i]
           S(f) == {m \in 0..n : Fits(f[m], m)}
<1>1. n \in Nat /\ DOMAIN q = 1..n /\ q \in Seq(Calls) /\ \A i \in 1..n : q[i] \in Calls
  BY DEF IsQueue
<1>2. PICK f : /\ f[0] = <<>> /\ f[n] = Keeping(q, C)
               /\ \A i \in 1..n : f[i] = IF q[i] \in C THEN Append(f[i - 1], q[i]) ELSE f[i - 1]
  BY <1>1, KeepingSteps
<1>3. 0 \in S(f)
  <2>1. IsQueue(<<>>) /\ DOMAIN <<>> = {}
    BY DEF IsQueue
  <2>2. Fits(f[0], 0)
    BY <1>2, <2>1
  <2>. QED  BY <1>1, <2>2
<1>4. ASSUME NEW m \in 0..(n - 1), m \in S(f)
      PROVE  m + 1 \in S(f)
  <2>1. Fits(f[m], m) /\ m + 1 \in 1..n /\ (m + 1) - 1 = m /\ m \in Nat
    BY <1>1, <1>4
  <2>2. f[m + 1] = IF q[m + 1] \in C THEN Append(f[m], q[m + 1]) ELSE f[m]
    BY <1>2, <2>1
  <2>3. \A i \in DOMAIN f[m] : f[m][i] # q[m + 1]
    <3>1. ASSUME NEW i \in DOMAIN f[m], f[m][i] = q[m + 1]  PROVE FALSE
      <4>1. PICK j \in 1..m : q[j] = f[m][i]
        BY <2>1
      <4>2. j \in 1..n /\ j # m + 1 /\ q[j] = q[m + 1]
        BY <1>1, <2>1, <3>1, <4>1
      <4>. QED  BY <1>1, <2>1, <4>2 DEF IsQueue
    <3>. QED  BY <3>1
  <2>4. CASE q[m + 1] \in C
    <3> DEFINE r == Append(f[m], q[m + 1])
    <3>1. q[m + 1] \in Calls /\ IsQueue(f[m])
      BY <1>1, <2>1
    <3>2. /\ IsQueue(r)
          /\ \A i \in DOMAIN r : r[i] = q[m + 1] \/ \E j \in DOMAIN f[m] : f[m][j] = r[i]
      BY <2>3, <3>1, QueueAppended
    <3> HIDE DEF r
    <3>3. ASSUME NEW i \in DOMAIN r
          PROVE  r[i] \in C /\ \E j \in 1..(m + 1) : q[j] = r[i]
      <4>1. CASE r[i] = q[m + 1]
        BY <2>1, <2>4, <4>1
      <4>2. ASSUME NEW j \in DOMAIN f[m], f[m][j] = r[i]
            PROVE  r[i] \in C /\ \E k \in 1..(m + 1) : q[k] = r[i]
        BY <2>1, <4>2
      <4>. QED  BY <3>2, <4>1, <4>2
    <3>4. f[m + 1] = r
      BY <2>2, <2>4 DEF r
    <3>5. Fits(f[m + 1], m + 1)
      BY <3>2, <3>3, <3>4
    <3>. QED  BY <1>1, <2>1, <3>5
  <2>5. CASE q[m + 1] \notin C
    <3>1. f[m + 1] = f[m]
      BY <2>2, <2>5
    <3>2. Fits(f[m + 1], m + 1)
      BY <2>1, <3>1
    <3>. QED  BY <1>1, <2>1, <3>2
  <2>. QED  BY <2>4, <2>5
<1>5. n \in S(f)
  <2>. HIDE DEF S, n
  <2>. QED  BY <1>1, <1>3, <1>4, Induction
<1>6. Fits(Keeping(q, C), n)
  BY <1>2, <1>5
<1>. QED  BY <1>1, <1>6

-----------------------------------------------------------------------------
(* Where a call is. *)

NotRun == {"refused", "cancelled"}

(* The model was told, or will be, that call c was not executed. *)
SaysNotRun(f, c) == f.t = "result" /\ f.id = c /\ f.text \in NotRun

Told(h, c) ==
    \/ answer[c] \in NotRun
    \/ \E s \in Shims : \E i \in DOMAIN h.down[s] : SaysNotRun(h.down[s][i], c)

Queued(h, c) == \E i \in DOMAIN h.b.queue : h.b.queue[i] = c

Fresh(h, c) == ~Queued(h, c) /\ c \notin h.ran /\ ~Told(h, c)

(* A result's text is never the mark of a call not issued yet. *)
IsFrame(f) == f.t = "result" => f.text # "new"

AreFrames(q) ==
    /\ DOMAIN q = Shims
    /\ \A s \in Shims : IsSeq(q[s]) /\ \A i \in DOMAIN q[s] : IsFrame(q[s][i])

Places(h) ==
    /\ IsQueue(h.b.queue) /\ AreFrames(h.down) /\ Shape(h)
    /\ \A c \in Calls : /\ Queued(h, c) => c \notin h.ran /\ ~Told(h, c)
                        /\ Told(h, c) => c \notin h.ran

(* From h to g calls leave the queue, and none is run or told as not run, but
   for those in C. *)
LeavesBut(h, g, C) ==
    /\ IsQueue(g.b.queue) /\ AreFrames(g.down) /\ Shape(g)
    /\ \A c \in Calls \ C : /\ Queued(g, c) => Queued(h, c)
                            /\ c \in g.ran => c \in h.ran
                            /\ Told(g, c) => Told(h, c)

Leaves(h, g) == LeavesBut(h, g, {})

LEMMA LeavesKeeps ==
    ASSUME NEW h, NEW g, Places(h), Leaves(h, g)
    PROVE  Places(g) /\ \A c \in Calls : Fresh(h, c) => Fresh(g, c)
BY DEF Places, Leaves, LeavesBut, Fresh

LEMMA LeavesTwice ==
    ASSUME NEW h, NEW g, NEW k, NEW C, LeavesBut(h, g, C), LeavesBut(g, k, C)
    PROVE  LeavesBut(h, k, C)
BY DEF LeavesBut

LEMMA LeavesMore ==
    ASSUME NEW h, NEW g, NEW C, Leaves(h, g)
    PROVE  LeavesBut(h, g, C)
BY DEF Leaves, LeavesBut

LEMMA FrameAdded ==
    ASSUME NEW q, IsSeq(q), NEW f
    PROVE  /\ IsSeq(Append(q, f))
           /\ \A i \in DOMAIN Append(q, f) :
                Append(q, f)[i] = f \/ \E j \in DOMAIN q : q[j] = Append(q, f)[i]
<1>1. PICK F : q \in Seq(F)
  BY DEF IsSeq
<1>2. q \in Seq(F \cup {f}) /\ f \in F \cup {f}
  BY <1>1
<1>3. Append(q, f) \in Seq(F \cup {f})
  BY <1>2
<1>4. \A i \in DOMAIN Append(q, f) :
        \/ i \in DOMAIN q /\ Append(q, f)[i] = q[i]
        \/ Append(q, f)[i] = f
  BY <1>1
<1>. QED  BY <1>3, <1>4 DEF IsSeq

(* A frame sent tells of one call at most. *)
LEMMA SendLeaves ==
    ASSUME NEW h, Places(h), NEW s, NEW f, IsFrame(f),
           NEW C, \A c \in Calls \ C : ~SaysNotRun(f, c)
    PROVE  /\ LeavesBut(h, Send(h, s, f), C)
           /\ Send(h, s, f).b = h.b /\ Send(h, s, f).ran = h.ran
           /\ Send(h, s, f).conn = h.conn /\ Send(h, s, f).handling = h.handling
<1> DEFINE g == [h EXCEPT !.down[s] = Append(h.down[s], f)]
<1>0. /\ IsQueue(h.b.queue) /\ AreFrames(h.down) /\ Shape(h)
  BY DEF Places
<1>1. Send(h, s, f) = h \/ Send(h, s, f) = g
  BY DEF Send
<1>2. Same(h, Send(h, s, f))
  BY <1>0, SendSame
<1>3. CASE Send(h, s, f) = h
  BY <1>0, <1>2, <1>3 DEF LeavesBut, Same
<1>4. CASE Send(h, s, f) = g
  <2>1. /\ DOMAIN g.down = Shims /\ Same(h, g)
        /\ \A r \in Shims : g.down[r] = IF r = s THEN Append(h.down[s], f) ELSE h.down[r]
    BY <1>0, <1>2, <1>4 DEF Shape, AreFrames
  <2>. HIDE DEF g
  <2>2. ASSUME NEW r \in Shims
        PROVE  /\ IsSeq(g.down[r]) /\ \A i \in DOMAIN g.down[r] : IsFrame(g.down[r][i])
               /\ \A i \in DOMAIN g.down[r] : \/ g.down[r][i] = f
                                              \/ \E j \in DOMAIN h.down[r] : h.down[r][j] = g.down[r][i]
    <3>1. CASE r = s
      <4>1. IsSeq(h.down[s]) /\ g.down[r] = Append(h.down[s], f)
        BY <1>0, <2>1, <3>1 DEF AreFrames
      <4>2. /\ IsSeq(Append(h.down[s], f))
            /\ \A i \in DOMAIN Append(h.down[s], f) :
                 \/ Append(h.down[s], f)[i] = f
                 \/ \E j \in DOMAIN h.down[s] : h.down[s][j] = Append(h.down[s], f)[i]
        BY <4>1, FrameAdded
      <4>3. \A i \in DOMAIN h.down[s] : IsFrame(h.down[s][i])
        BY <1>0, <3>1 DEF AreFrames
      <4>. QED  BY <3>1, <4>1, <4>2, <4>3
    <3>2. CASE r # s
      BY <1>0, <2>1, <3>2 DEF AreFrames
    <3>. QED  BY <3>1, <3>2
  <2>3. ASSUME NEW c \in Calls \ C, Told(g, c)  PROVE Told(h, c)
    BY <2>2, <2>3 DEF Told
  <2>4. AreFrames(g.down)
    BY <2>1, <2>2 DEF AreFrames
  <2>5. \A c : Queued(g, c) => Queued(h, c)
    BY <2>1 DEF Queued, Same
  <2>. QED  BY <1>0, <1>4, <2>1, <2>3, <2>4, <2>5 DEF LeavesBut, Same
<1>. QED  BY <1>1, <1>3, <1>4

(* What only changes other fields. *)
LEMMA SameLeaves ==
    ASSUME NEW h, Places(h), NEW g, Shape(g), g.down = h.down, g.b.queue = h.b.queue,
           g.ran = h.ran
    PROVE  Leaves(h, g)
BY DEF Leaves, LeavesBut, Places, Queued, Told

LEMMA QuietFrames ==
    /\ \A c : /\ ~SaysNotRun(EOF, c) /\ ~SaysNotRun([t |-> "denied"], c)
              /\ ~SaysNotRun([t |-> "closed"], c) /\ ~SaysNotRun([t |-> "welcome"], c)
    /\ IsFrame(EOF) /\ IsFrame([t |-> "denied"]) /\ IsFrame([t |-> "closed"])
    /\ IsFrame([t |-> "welcome"])
    /\ \A c, d, x : /\ x # "new" => IsFrame([t |-> "result", id |-> d, text |-> x])
                    /\ x \notin NotRun => ~SaysNotRun([t |-> "result", id |-> d, text |-> x], c)
                    /\ c # d => ~SaysNotRun([t |-> "result", id |-> d, text |-> x], c)
BY DEF SaysNotRun, IsFrame, EOF

LEMMA SendQuiet ==
    ASSUME NEW h, Places(h), NEW s, NEW f, IsFrame(f), \A c \in Calls : ~SaysNotRun(f, c)
    PROVE  /\ Leaves(h, Send(h, s, f)) /\ Places(Send(h, s, f))
           /\ Send(h, s, f).b = h.b /\ Send(h, s, f).ran = h.ran
           /\ Send(h, s, f).conn = h.conn /\ Send(h, s, f).handling = h.handling
<1>1. /\ Leaves(h, Send(h, s, f))
      /\ Send(h, s, f).b = h.b /\ Send(h, s, f).ran = h.ran
      /\ Send(h, s, f).conn = h.conn /\ Send(h, s, f).handling = h.handling
  BY SendLeaves DEF Leaves
<1>. QED  BY <1>1, LeavesKeeps

LEMMA AnswerLeaves ==
    ASSUME NEW h, Places(h), NEW c, NEW x, x # "new"
    PROVE  /\ LeavesBut(h, Answer(h, c, x), {c})
           /\ x \notin NotRun => Leaves(h, Answer(h, c, x))
           /\ Answer(h, c, x).b = h.b /\ Answer(h, c, x).ran = h.ran
           /\ Answer(h, c, x).conn = h.conn /\ Answer(h, c, x).handling = h.handling
<1> DEFINE f == [t |-> "result", id |-> c, text |-> x]
<1>1. IsFrame(f) /\ (\A d \in Calls \ {c} : ~SaysNotRun(f, d)) /\ (x \notin NotRun => \A d \in Calls : ~SaysNotRun(f, d))
  BY QuietFrames
<1>2. Answer(h, c, x) = Send(h, from[c], f)
  BY DEF Answer
<1>. HIDE DEF f
<1>3. /\ LeavesBut(h, Answer(h, c, x), {c})
      /\ Answer(h, c, x).b = h.b /\ Answer(h, c, x).ran = h.ran
      /\ Answer(h, c, x).conn = h.conn /\ Answer(h, c, x).handling = h.handling
  BY <1>1, <1>2, SendLeaves
<1>4. x \notin NotRun => Leaves(h, Answer(h, c, x))
  BY <1>1, <1>2, SendQuiet
<1>. QED  BY <1>3, <1>4

(* Answering a call that is nowhere else. *)
LEMMA AnswerPlaces ==
    ASSUME NEW h, Places(h), NEW c \in Calls, ~Queued(h, c), c \notin h.ran, NEW x, x # "new"
    PROVE  Places(Answer(h, c, x))
<1> DEFINE g == Answer(h, c, x)
<1>1. LeavesBut(h, g, {c}) /\ g.b = h.b /\ g.ran = h.ran
  BY AnswerLeaves
<1>. HIDE DEF g
<1>2. ~Queued(g, c) /\ c \notin g.ran
  BY <1>1 DEF Queued
<1>3. Places(g)
  BY <1>1, <1>2 DEF Places, LeavesBut
<1>. QED  BY <1>3 DEF g

-----------------------------------------------------------------------------
(* The broker's methods: where they leave the calls. *)

LEMMA EndLeaves ==
    ASSUME NEW h, Places(h), NEW s \in Shims
    PROVE  Leaves(h, End(h, s)) /\ Places(End(h, s))
<1> DEFINE g == Send(h, s, EOF)
           e == [g EXCEPT !.conn[s] = "ended"]
<1>1. Leaves(h, h)
  BY DEF Leaves, LeavesBut, Places
<1>2. End(h, s) = h \/ End(h, s) = e
  BY DEF End
<1>3. IsFrame(EOF) /\ \A c \in Calls : ~SaysNotRun(EOF, c)
  BY QuietFrames
<1>4. Leaves(h, g) /\ Places(g)
  BY <1>3, SendQuiet
<1>. HIDE DEF g
<1>5. Shape(e) /\ e.down = g.down /\ e.b.queue = g.b.queue /\ e.ran = g.ran
  BY <1>4 DEF Places, Shape
<1>. HIDE DEF e
<1>6. Leaves(g, e)
  BY <1>4, <1>5, SameLeaves
<1>7. Leaves(h, e)
  BY <1>4, <1>6, LeavesTwice DEF Leaves
<1>8. Leaves(h, End(h, s))
  BY <1>1, <1>2, <1>7
<1>. QED  BY <1>8, LeavesKeeps

LEMMA DenyLeaves ==
    ASSUME NEW h, Places(h), NEW s \in Shims
    PROVE  Leaves(h, Deny(h, s)) /\ Places(Deny(h, s))
<1> DEFINE g == Send(h, s, [t |-> "denied"])
<1>1. IsFrame([t |-> "denied"]) /\ \A c \in Calls : ~SaysNotRun([t |-> "denied"], c)
  BY QuietFrames
<1>2. Leaves(h, g) /\ Places(g)
  BY <1>1, SendQuiet
<1>3. Deny(h, s) = End(g, s)
  BY DEF Deny
<1>. HIDE DEF g
<1>4. Leaves(g, Deny(h, s))
  BY <1>2, <1>3, EndLeaves
<1>5. Leaves(h, Deny(h, s))
  BY <1>2, <1>4, LeavesTwice DEF Leaves
<1>. QED  BY <1>5, LeavesKeeps

LEMMA CloseLeaves ==
    ASSUME NEW h, Places(h)
    PROVE  /\ Leaves(h, Close(h)) /\ Places(Close(h))
           /\ Close(h).b.queue = h.b.queue /\ Close(h).ran = h.ran
<1> DEFINE g == [h EXCEPT !.b.state = "closing"]
           k == Send(g, h.b.active, [t |-> "closed"])
<1>1. Leaves(h, h)
  BY DEF Leaves, LeavesBut, Places
<1>2. Close(h) \in {h, g, k}
  BY DEF Close
<1>3. Shape(g) /\ g.down = h.down /\ g.b.queue = h.b.queue /\ g.ran = h.ran
  BY DEF Places, Shape, Fields
<1>. HIDE DEF g
<1>4. Leaves(h, g)
  BY <1>3, SameLeaves
<1>5. /\ Places(g) /\ IsFrame([t |-> "closed"])
      /\ \A c \in Calls : ~SaysNotRun([t |-> "closed"], c)
  BY <1>4, LeavesKeeps, QuietFrames
<1>6. Leaves(g, k) /\ k.b = g.b /\ k.ran = g.ran
  BY <1>5, SendQuiet
<1>. HIDE DEF k
<1>7. Leaves(h, k)
  BY <1>4, <1>6, LeavesTwice DEF Leaves
<1>8. Leaves(h, Close(h)) /\ Close(h).b.queue = h.b.queue /\ Close(h).ran = h.ran
  BY <1>1, <1>2, <1>3, <1>4, <1>6, <1>7
<1>. QED  BY <1>8, LeavesKeeps

LEMMA FinishLeaves ==
    ASSUME NEW h, Places(h)
    PROVE  Leaves(h, FinishClose(h)) /\ Places(FinishClose(h))
<1> DEFINE g == FinishClose(h)
<1>1. /\ Shape(g) /\ g.b.queue = <<>> /\ g.ran = h.ran
      /\ g.down = [s \in Shims |-> Send(h, s, EOF).down[s]]
  BY DEF FinishClose, Places, Shape, Fields
<1>. HIDE DEF g
<1>2. IsFrame(EOF) /\ \A c \in Calls : ~SaysNotRun(EOF, c)
  BY QuietFrames
<1>3. ASSUME NEW s \in Shims
      PROVE  /\ IsSeq(g.down[s]) /\ \A i \in DOMAIN g.down[s] : IsFrame(g.down[s][i])
             /\ \A c \in Calls, i \in DOMAIN g.down[s] : SaysNotRun(g.down[s][i], c) => Told(h, c)
  <2>1. Leaves(h, Send(h, s, EOF))
    BY <1>2, SendQuiet
  <2>2. g.down[s] = Send(h, s, EOF).down[s]
    BY <1>1
  <2>. QED  BY <2>1, <2>2 DEF Leaves, LeavesBut, Told, AreFrames
<1>4. AreFrames(g.down) /\ \A c \in Calls : Told(g, c) => Told(h, c)
  BY <1>1, <1>3 DEF AreFrames, Told
<1>5. Leaves(h, g)
  BY <1>1, <1>4 DEF Leaves, LeavesBut, IsQueue, Queued
<1>. QED  BY <1>5, LeavesKeeps DEF g

LEMMA ForgetLeaves ==
    ASSUME NEW h, Places(h), NEW s \in Shims
    PROVE  Leaves(h, Forget(h, s)) /\ Places(Forget(h, s))
<1> DEFINE q == Keeping(h.b.queue, {c \in Calls : from[c] # s})
           g == Forget(h, s)
<1>1. /\ IsQueue(q)
      /\ \A i \in DOMAIN q : \E j \in DOMAIN h.b.queue : h.b.queue[j] = q[i]
  <2> DEFINE C == {c \in Calls : from[c] # s}
  <2>1. IsQueue(h.b.queue)
    BY DEF Places
  <2>2. q = Keeping(h.b.queue, C)
    OBVIOUS
  <2>. HIDE DEF C, q
  <2>. QED  BY <2>1, <2>2, KeepingFits
<1>2. Shape(g) /\ g.b.queue = q /\ g.down = h.down /\ g.ran = h.ran
  BY DEF Forget, Places, Shape, Fields
<1>. HIDE DEF q, g
<1>3. Leaves(h, g)
  BY <1>1, <1>2 DEF Leaves, LeavesBut, Places, Queued, Told
<1>. QED  BY <1>3, LeavesKeeps DEF g

LEMMA AnswerClosedLeaves ==
    ASSUME NEW h, Places(h), NEW c \in Calls, NEW arrivedOpen \in BOOLEAN
    PROVE  Leaves(h, AnswerClosed(h, c, arrivedOpen))
<1> DEFINE g == Answer(h, c, "closed")
           n == h.b.afterClose + 1
           over == g.b.reported \/ n >= MaxCallsAfterClose
           counted(e) == [g EXCEPT !.b.afterClose = n, !.b.reported = e]
<1>1. Leaves(h, g)
  BY AnswerLeaves DEF NotRun
<1>2. Places(g)
  BY <1>1, LeavesKeeps
<1>. HIDE DEF g, n
<1>3. ASSUME NEW e  PROVE Leaves(g, counted(e))
  <2>1. /\ Shape(counted(e)) /\ counted(e).down = g.down /\ counted(e).b.queue = g.b.queue
        /\ counted(e).ran = g.ran
    BY <1>2 DEF Places, Shape, Fields
  <2>. HIDE DEF counted
  <2>. QED  BY <1>2, <2>1, SameLeaves
<1>4. AnswerClosed(h, c, arrivedOpen) = g \/ AnswerClosed(h, c, arrivedOpen) = counted(over)
  BY <1>2 DEF AnswerClosed, g, n, Places, Shape, Fields
<1>5. Leaves(g, counted(over))
  BY <1>3
<1>. HIDE DEF counted, over
<1>6. Leaves(h, counted(over))
  BY <1>1, <1>5, LeavesTwice DEF Leaves
<1>. QED  BY <1>1, <1>4, <1>6

LEMMA HitCallLimitLeaves ==
    ASSUME NEW h, Places(h), NEW c \in Calls
    PROVE  Leaves(h, HitCallLimit(h, c))
<1>1. Leaves(h, Close(h)) /\ Places(Close(h))
  BY CloseLeaves
<1>2. Leaves(Close(h), Answer(Close(h), c, "closed"))
  BY <1>1, AnswerLeaves DEF NotRun
<1>. QED  BY <1>1, <1>2, LeavesTwice DEF Leaves, HitCallLimit

(* What a method does with a call that is nowhere else: it puts it in one place. *)
Puts(h, g, c) == Places(g) /\ \A d \in Calls \ {c} : Fresh(h, d) => Fresh(g, d)

LEMMA LeavesPuts ==
    ASSUME NEW h, NEW g, Places(h), Leaves(h, g), NEW c
    PROVE  Puts(h, g, c)
BY LeavesKeeps DEF Puts

LEMMA RefusePuts ==
    ASSUME NEW h, Places(h), NEW c \in Calls, Fresh(h, c)
    PROVE  Puts(h, Refuse(h, c), c)
<1> DEFINE g == Answer(h, c, "refused")
           k == [g EXCEPT !.b.refusedOpen = @ + 1]
<1>1. Places(g) /\ LeavesBut(h, g, {c})
  BY AnswerPlaces, AnswerLeaves DEF Fresh
<1>2. Refuse(h, c) = g \/ Refuse(h, c) = k
  BY DEF Refuse
<1>. HIDE DEF g
<1>3. Shape(k) /\ k.down = g.down /\ k.b.queue = g.b.queue /\ k.ran = g.ran
  BY <1>1 DEF Places, Shape, Fields
<1>. HIDE DEF k
<1>4. Leaves(g, k)
  BY <1>1, <1>3, SameLeaves
<1>5. Places(k) /\ LeavesBut(h, k, {c})
  BY <1>1, <1>4, LeavesKeeps, LeavesMore, LeavesTwice
<1>6. Places(Refuse(h, c)) /\ LeavesBut(h, Refuse(h, c), {c})
  BY <1>1, <1>2, <1>5
<1>. QED  BY <1>6 DEF Puts, LeavesBut, Fresh

LEMMA RunHandlerPuts ==
    ASSUME NEW h, Places(h), NEW c \in Calls, Fresh(h, c)
    PROVE  Puts(h, RunHandler(h, c), c)
<1> DEFINE g == RunHandler(h, c)
<1>0. Shape(h)
  BY DEF Places
<1>1. /\ Shape(g) /\ g.down = h.down /\ g.b.queue = h.b.queue
      /\ g.ran = h.ran \cup {c}
  <2>1. /\ DOMAIN g = {"b", "conn", "down", "handling", "ran"}
        /\ DOMAIN g.b = Fields /\ DOMAIN g.conn = Shims
        /\ g.b.refusedOpen = h.b.refusedOpen
        /\ g.down = h.down /\ g.b.queue = h.b.queue /\ g.ran = h.ran \cup {c}
    BY <1>0 DEF RunHandler, Shape, Fields
  <2>2. g.b.calls = h.b.calls + 1
    BY <1>0 DEF RunHandler, Shape, Fields
  <2>. HIDE DEF g
  <2>. QED  BY <1>0, <2>1, <2>2 DEF Shape
<1>. HIDE DEF g
<1>2. \A d : (Queued(g, d) <=> Queued(h, d)) /\ (Told(g, d) <=> Told(h, d))
  BY <1>1 DEF Queued, Told
<1>3. Places(g)
  BY <1>1, <1>2 DEF Places, Fresh
<1>4. \A d \in Calls \ {c} : Fresh(h, d) => Fresh(g, d)
  BY <1>1, <1>2 DEF Fresh
<1>. QED  BY <1>3, <1>4 DEF Puts, g

LEMMA ProcessPuts ==
    ASSUME NEW h, Places(h), NEW c \in Calls, Fresh(h, c)
    PROVE  Puts(h, Process(h, c), c)
<1>1. CASE h.b.state # "open"
  BY <1>1, AnswerClosedLeaves, LeavesPuts DEF Process
<1>2. CASE h.b.state = "open" /\ CallLimitReached(h)
  BY <1>2, HitCallLimitLeaves, LeavesPuts DEF Process
<1>3. CASE h.b.state = "open" /\ ~CallLimitReached(h)
  <2>1. Process(h, c) \in {Refuse(h, c), RunHandler(h, c)}
    BY <1>3 DEF Process
  <2>. QED  BY <2>1, RefusePuts, RunHandlerPuts
<1>. QED  BY <1>1, <1>2, <1>3

(* A turn of the pump takes the first call of the queue, which no other place
   has: what is in no place stays so. *)
LEMMA PumpTurnPlaces ==
    ASSUME NEW h, Places(h)
    PROVE  Places(PumpTurn(h)) /\ \A d \in Calls : Fresh(h, d) => Fresh(PumpTurn(h), d)
<1> DEFINE c == Head(h.b.queue)
           idle == [h EXCEPT !.b.pumping = FALSE]
           g == [h EXCEPT !.b.queue = Tail(h.b.queue), !.b.pumping = TRUE]
<1>1. PumpTurn(h) = IF h.b.queue = <<>> THEN idle
                    ELSE IF Open(h, from[c]) THEN Process(g, c) ELSE g
  BY DEF PumpTurn, Places, Shape, Fields
<1>2. Shape(idle) /\ idle.down = h.down /\ idle.b.queue = h.b.queue /\ idle.ran = h.ran
  BY DEF Places, Shape, Fields
<1>3. Shape(g) /\ g.down = h.down /\ g.b.queue = Tail(h.b.queue) /\ g.ran = h.ran
  BY DEF Places, Shape, Fields
<1>. HIDE DEF idle, g
<1>4. CASE h.b.queue = <<>>
  <2>1. Leaves(h, idle)
    BY <1>2, SameLeaves
  <2>. QED  BY <1>1, <1>4, <2>1, LeavesKeeps
<1>5. CASE h.b.queue # <<>>
  <2> DEFINE q == h.b.queue
  <2>1. IsQueue(q) /\ AreFrames(h.down)
    BY DEF Places
  <2>2. /\ IsQueue(Tail(q)) /\ c \in Calls /\ \E j \in DOMAIN q : q[j] = c
        /\ \A i \in DOMAIN Tail(q) : Tail(q)[i] # c /\ \E j \in DOMAIN q : q[j] = Tail(q)[i]
    BY <1>5, <2>1, QueueTaken
  <2>. HIDE DEF c
  <2>3. \A d : Told(g, d) => Told(h, d)
    BY <1>3 DEF Told
  <2>4. ~Queued(g, c) /\ Queued(h, c) /\ \A d : Queued(g, d) => Queued(h, d)
    BY <1>3, <2>2 DEF Queued
  <2>5. Leaves(h, g)
    BY <1>3, <2>1, <2>2, <2>3, <2>4 DEF Leaves, LeavesBut
  <2>6. Places(g) /\ \A d \in Calls : Fresh(h, d) => Fresh(g, d)
    BY <2>5, LeavesKeeps
  <2>7. Fresh(g, c) /\ ~Fresh(h, c)
    BY <1>3, <2>2, <2>3, <2>4 DEF Fresh, Places
  <2>8. Puts(g, Process(g, c), c)
    BY <2>2, <2>6, <2>7, ProcessPuts
  <2>. QED  BY <1>1, <1>5, <2>6, <2>7, <2>8 DEF Puts
<1>. QED  BY <1>4, <1>5

LEMMA EnqueuePuts ==
    ASSUME NEW h, Places(h), NEW c \in Calls, Fresh(h, c)
    PROVE  Puts(h, Enqueue(h, c), c)
<1> DEFINE g == [h EXCEPT !.b.queue = Append(h.b.queue, c)]
<1>1. Enqueue(h, c) = IF h.b.pumping THEN g ELSE PumpTurn(g)
  BY DEF Enqueue, Places, Shape, Fields
<1>2. Shape(g) /\ g.down = h.down /\ g.b.queue = Append(h.b.queue, c) /\ g.ran = h.ran
  BY DEF Places, Shape, Fields
<1>. HIDE DEF g
<1>3. IsQueue(h.b.queue) /\ \A i \in DOMAIN h.b.queue : h.b.queue[i] # c
  BY DEF Places, Fresh, Queued
<1>4. /\ IsQueue(g.b.queue)
      /\ \A i \in DOMAIN g.b.queue : \/ g.b.queue[i] = c
                                     \/ \E j \in DOMAIN h.b.queue : h.b.queue[j] = g.b.queue[i]
  BY <1>2, <1>3, QueueAppended
<1>5. \A d \in Calls : /\ Queued(g, d) => d = c \/ Queued(h, d)
                       /\ Told(g, d) <=> Told(h, d)
  BY <1>2, <1>4 DEF Queued, Told
<1>6. Places(g)
  BY <1>2, <1>4, <1>5 DEF Places, Fresh
<1>7. \A d \in Calls \ {c} : Fresh(h, d) => Fresh(g, d)
  BY <1>2, <1>5 DEF Fresh
<1>. QED  BY <1>1, <1>6, <1>7, PumpTurnPlaces DEF Puts

(* A cancelled call leaves the queue before it is answered. *)
LEMMA OnCancelPlaces ==
    ASSUME NEW h, Places(h), NEW c \in Calls
    PROVE  Places(OnCancel(h, c)) /\ \A d \in Calls : Fresh(h, d) => Fresh(OnCancel(h, c), d)
<1> DEFINE q == Keeping(h.b.queue, Calls \ {c})
           g == [h EXCEPT !.b.queue = q]
           k == Answer(g, c, "cancelled")
<1>1. CASE ~Queued(h, c)
  BY <1>1 DEF OnCancel, Queued
<1>2. CASE Queued(h, c)
  <2>1. OnCancel(h, c) = k
    BY <1>2 DEF OnCancel, Queued
  <2>2. /\ IsQueue(q)
        /\ \A i \in DOMAIN q : q[i] # c /\ \E j \in DOMAIN h.b.queue : h.b.queue[j] = q[i]
    BY KeepingFits DEF Places
  <2>3. Shape(g) /\ g.b.queue = q /\ g.down = h.down /\ g.ran = h.ran
    BY DEF Places, Shape, Fields
  <2>. HIDE DEF q, g
  <2>4. Leaves(h, g)
    BY <2>2, <2>3 DEF Leaves, LeavesBut, Places, Queued, Told
  <2>5. Places(g) /\ ~Queued(g, c) /\ c \notin g.ran
    BY <1>2, <2>2, <2>3, <2>4, LeavesKeeps DEF Queued, Places
  <2>6. Places(k) /\ LeavesBut(g, k, {c})
    BY <2>5, AnswerPlaces, AnswerLeaves
  <2>. HIDE DEF k
  <2>7. \A d \in Calls : Fresh(h, d) => d # c /\ Fresh(g, d)
    BY <1>2, <2>4, LeavesKeeps DEF Fresh
  <2>8. \A d \in Calls : Fresh(h, d) => Fresh(k, d)
    BY <2>6, <2>7 DEF LeavesBut, Fresh
  <2>. QED  BY <2>1, <2>6, <2>8
<1>. QED  BY <1>1, <1>2

LEMMA OnCallPuts ==
    ASSUME NEW h, Places(h), NEW s \in Shims, NEW c \in Calls, Fresh(h, c)
    PROVE  Puts(h, OnCall(h, s, c), c)
<1>1. OnCall(h, s, c) \in {AnswerClosed(h, c, FALSE), HitCallLimit(h, c), Refuse(h, c),
                           Enqueue(h, c)}
  BY DEF OnCall
<1>. QED
  BY <1>1, AnswerClosedLeaves, HitCallLimitLeaves, LeavesPuts, RefusePuts, EnqueuePuts

LEMMA OnHelloLeaves ==
    ASSUME NEW h, Places(h), NEW s \in Shims
    PROVE  Leaves(h, OnHello(h, s))
<1> DEFINE g == [h EXCEPT !.conn[s] = "authed", !.b.active = s,
                          !.b.accepted = h.b.accepted + 1]
           g2 == Send(g, s, [t |-> "welcome"])
           g3 == Send(g2, s, [t |-> "closed"])
<1>1. OnHello(h, s) \in {Deny(h, s), g2, g3}
  BY DEF OnHello, Places, Shape, Fields
<1>2. Shape(g) /\ g.down = h.down /\ g.b.queue = h.b.queue /\ g.ran = h.ran
  BY DEF Places, Shape, Fields
<1>. HIDE DEF g
<1>3. Leaves(h, g) /\ Places(g)
  BY <1>2, SameLeaves, LeavesKeeps
<1>4. IsFrame([t |-> "welcome"]) /\ IsFrame([t |-> "closed"])
      /\ \A c \in Calls : ~SaysNotRun([t |-> "welcome"], c) /\ ~SaysNotRun([t |-> "closed"], c)
  BY QuietFrames
<1>5. Leaves(g, g2) /\ Places(g2)
  BY <1>3, <1>4, SendQuiet
<1>. HIDE DEF g2
<1>6. Leaves(g2, g3)
  BY <1>4, <1>5, SendQuiet
<1>. HIDE DEF g3
<1>7. Leaves(h, g2) /\ Leaves(h, g3)
  BY <1>3, <1>5, <1>6, LeavesTwice DEF Leaves
<1>. QED  BY <1>1, <1>7, DenyLeaves

(* A frame moves the call it names, and no other. *)
LEMMA OnFramePlaces ==
    ASSUME NEW h, Places(h), NEW s \in Shims, NEW f \in ShimFrames,
           f.t = "call" => Fresh(h, f.id)
    PROVE  /\ Places(OnFrame(h, s, f))
           /\ \A d \in Calls : Fresh(h, d) /\ ~(f.t = "call" /\ f.id = d)
                                 => Fresh(OnFrame(h, s, f), d)
<1> DEFINE g == OnFrame(h, s, f)
<1>0. f.t \in FrameKinds /\ (f.t \in {"call", "cancel"} => f.id \in Calls)
  BY FrameTypes DEF ShimFrames
<1>1. SUFFICES Leaves(h, g) \/ (f.t = "call" /\ Puts(h, g, f.id))
                 \/ (Places(g) /\ \A d \in Calls : Fresh(h, d) => Fresh(g, d))
  BY LeavesKeeps DEF Puts
<1>2. CASE f.t = "eof"
  <2>1. g = Forget(h, s)
    BY <1>2 DEF OnFrame
  <2>. QED  BY <2>1, ForgetLeaves
<1>3. CASE f.t # "eof" /\ ~Open(h, s)
  <2>1. g = h
    BY <1>3 DEF OnFrame, Open
  <2>. QED  BY <2>1
<1>4. CASE f.t = "hello" /\ Open(h, s)
  <2>1. g \in {OnHello(h, s), Deny(h, s)}
    BY <1>4 DEF OnFrame, Open
  <2>. QED  BY <2>1, OnHelloLeaves, DenyLeaves
<1>5. CASE f.t = "bye" /\ Open(h, s)
  <2>1. g \in {Deny(h, s), End(h, s)}
    BY <1>5 DEF OnFrame
  <2>. QED  BY <2>1, DenyLeaves, EndLeaves
<1>6. CASE f.t = "call" /\ Open(h, s)
  <2>1. g = OnCall(h, s, f.id)
    BY <1>6 DEF OnFrame
  <2>. QED  BY <1>0, <1>6, <2>1, OnCallPuts
<1>7. CASE f.t = "cancel" /\ Open(h, s)
  <2>1. g = OnCancel(h, f.id)
    BY <1>7 DEF OnFrame
  <2>. QED  BY <1>0, <1>7, <2>1, OnCancelPlaces
<1>. QED  BY <1>0, <1>2, <1>3, <1>4, <1>5, <1>6, <1>7 DEF FrameKinds

-----------------------------------------------------------------------------
(* The steps. *)

Waits(s, c) == \E i \in DOMAIN up[s] : up[s][i].t = "call" /\ up[s][i].id = c

(* A call that was issued waits with its shim at most once. *)
WaitsOnce ==
    \A s \in Shims : \A i, j \in DOMAIN up[s] :
      /\ up[s][i].t = "call" /\ up[s][j].t = "call" /\ up[s][i].id = up[s][j].id
      => i = j

PlacesInv ==
    /\ Places(Host) /\ WaitsOnce /\ DOMAIN answer = Calls /\ DOMAIN from = Calls
    /\ \A c \in Calls : /\ answer[c] = "new" => from[c] = None
                        /\ from[c] = None => Fresh(Host, c)
    /\ \A s \in Shims : \A c \in Calls : Waits(s, c) => from[c] = s /\ Fresh(Host, c)

(* What the broker's steps need to keep: the frame they read is gone. *)
LEMMA SetPlaces ==
    ASSUME PlacesInv, NEW g, Places(g), SetHost(g), UNCHANGED shimVars, WaitsOnce',
           \A c \in Calls : from[c] = None \/ (\E s \in Shims : Waits(s, c)')
                              => Fresh(g, c),
           \A s \in Shims : \A c \in Calls : Waits(s, c)' => Waits(s, c)
    PROVE  PlacesInv'
<1>1. /\ Host'.b = g.b /\ Host'.down = g.down /\ Host'.ran = g.ran /\ Host'.conn = g.conn
      /\ Host'.handling = g.handling /\ DOMAIN Host' = {"b", "conn", "down", "handling", "ran"}
  BY DEF Host, SetHost
<1>2. answer' = answer /\ from' = from
  BY DEF shimVars
<1>3. \A c : (Told(Host, c)' <=> Told(g, c)) /\ (Queued(Host, c)' <=> Queued(g, c))
  BY <1>1, <1>2 DEF Told, Queued
<1>4. Shape(Host')
  BY <1>1 DEF Places, Shape
<1>5. Places(Host)'
  BY <1>1, <1>3, <1>4 DEF Places, Shape
<1>6. \A c : Fresh(g, c) => Fresh(Host, c)'
  BY <1>1, <1>3 DEF Fresh
<1>. QED  BY <1>2, <1>5, <1>6 DEF PlacesInv

(* A step of the broker that reads no frame. *)
LEMMA QuietStep ==
    ASSUME PlacesInv, NEW g, SetHost(g), UNCHANGED <<up, shimVars>>, Places(g),
           \A c \in Calls : Fresh(Host, c) => Fresh(g, c)
    PROVE  PlacesInv'
<1>1. WaitsOnce' /\ \A s \in Shims : \A c \in Calls : Waits(s, c)' <=> Waits(s, c)
  BY DEF PlacesInv, WaitsOnce, Waits
<1>2. \A c \in Calls : from[c] = None \/ (\E s \in Shims : Waits(s, c)') => Fresh(g, c)
  BY <1>1 DEF PlacesInv
<1>. QED  BY <1>1, <1>2, SetPlaces

LEMMA HostReadsPlaces ==
    ASSUME BrokerInv, PlacesInv, NEW s \in Shims, HostReads(s)
    PROVE  PlacesInv'
<1> DEFINE f == Head(up[s])
           g == OnFrame(Host, s, f)
<1>1. /\ up \in [Shims -> Seq(ShimFrames)] /\ up[s] # <<>> /\ SetHost(g)
      /\ up' = [up EXCEPT ![s] = Tail(up[s])] /\ UNCHANGED shimVars
  BY DEF BrokerInv, HostReads
<1>2. /\ f \in ShimFrames /\ f = up[s][1] /\ 1 \in DOMAIN up[s]
      /\ up'[s] = Tail(up[s]) /\ \A r \in Shims : r # s => up'[r] = up[r]
      /\ \A i \in DOMAIN up'[s] : /\ i + 1 \in DOMAIN up[s] /\ i + 1 # 1
                                  /\ up'[s][i] = up[s][i + 1]
      /\ DOMAIN up'[s] \subseteq Nat
  BY <1>1
<1>. HIDE DEF f, g
<1>3. f.t = "call" => f.id \in Calls
  BY <1>2 DEF ShimFrames
<1>4. f.t = "call" => from[f.id] = s /\ Fresh(Host, f.id)
  <2>1. f.t = "call" => Waits(s, f.id)
    BY <1>2 DEF Waits
  <2>. QED  BY <1>3, <2>1 DEF PlacesInv
<1>5. WaitsOnce'
  <2> SUFFICES ASSUME NEW r \in Shims, NEW i \in DOMAIN up'[r], NEW j \in DOMAIN up'[r],
                      up'[r][i].t = "call", up'[r][j].t = "call", up'[r][i].id = up'[r][j].id
               PROVE  i = j
    BY DEF WaitsOnce
  <2>1. CASE r # s
    BY <1>2, <2>1 DEF PlacesInv, WaitsOnce
  <2>2. CASE r = s
    <3>1. /\ i + 1 \in DOMAIN up[s] /\ j + 1 \in DOMAIN up[s] /\ i \in Nat /\ j \in Nat
          /\ up'[r][i] = up[s][i + 1] /\ up'[r][j] = up[s][j + 1]
      BY <1>2, <2>2
    <3>2. i + 1 = j + 1
      BY <3>1 DEF PlacesInv, WaitsOnce
    <3>. QED  BY <3>1, <3>2
  <2>. QED  BY <2>1, <2>2
<1>6. ASSUME NEW r \in Shims, NEW c \in Calls, Waits(r, c)'
      PROVE  Waits(r, c) /\ ~(f.t = "call" /\ f.id = c)
  <2>1. PICK i \in DOMAIN up'[r] : up'[r][i].t = "call" /\ up'[r][i].id = c
    BY <1>6 DEF Waits
  <2>2. CASE r # s
    <3>1. Waits(r, c)
      BY <1>2, <2>1, <2>2 DEF Waits
    <3>2. from[c] = r
      BY <3>1 DEF PlacesInv
    <3>. QED  BY <1>4, <2>2, <3>1, <3>2
  <2>3. CASE r = s
    <3>1. i + 1 \in DOMAIN up[s] /\ i + 1 # 1 /\ up[s][i + 1].t = "call" /\ up[s][i + 1].id = c
      BY <1>2, <2>1, <2>3
    <3>2. Waits(r, c)
      BY <2>3, <3>1 DEF Waits
    <3>3. ~(f.t = "call" /\ f.id = c)
      BY <1>2, <3>1 DEF PlacesInv, WaitsOnce
    <3>. QED  BY <3>2, <3>3
  <2>. QED  BY <2>2, <2>3
<1>7. /\ Places(g)
      /\ \A d \in Calls : Fresh(Host, d) /\ ~(f.t = "call" /\ f.id = d) => Fresh(g, d)
  <2>1. Places(Host)
    BY DEF PlacesInv
  <2>2. f.t = "call" => Fresh(Host, f.id)
    BY <1>4
  <2>. QED  BY <1>2, <2>1, <2>2, OnFramePlaces DEF g
<1>8. ASSUME NEW c \in Calls, from[c] = None \/ \E r \in Shims : Waits(r, c)'
      PROVE  Fresh(g, c)
  <2>1. Fresh(Host, c)
    BY <1>6, <1>8 DEF PlacesInv
  <2>2. ~(f.t = "call" /\ f.id = c)
    BY <1>4, <1>6, <1>8, NoneAssumption
  <2>. QED  BY <1>7, <2>1, <2>2
<1>. QED  BY <1>1, <1>5, <1>6, <1>7, <1>8, SetPlaces

LEMMA BrokerPlaces ==
    ASSUME BrokerInv, PlacesInv,
           \/ \E s \in Shims : HostReads(s) \/ SocketCloses(s) \/ HelloTimesOut(s)
           \/ Pump \/ HostCloses \/ GraceEnds \/ Dispose
    PROVE  PlacesInv'
<1>0. Places(Host)
  BY DEF PlacesInv
<1>1. ASSUME NEW s \in Shims, SocketCloses(s)  PROVE PlacesInv'
  <2> DEFINE g == Forget(Host, s)
  <2>1. Places(g) /\ \A c \in Calls : Fresh(Host, c) => Fresh(g, c)
    BY <1>0, ForgetLeaves, LeavesKeeps
  <2>2. SetHost(g) /\ UNCHANGED shimVars /\ up' = [up EXCEPT ![s] = <<>>]
    BY <1>1 DEF SocketCloses
  <2>. HIDE DEF g
  <2>3. \A r \in Shims : up'[r] = up[r] \/ up'[r] = <<>>
    BY <2>2 DEF BrokerInv
  <2>4. WaitsOnce' /\ \A r \in Shims : \A c \in Calls : Waits(r, c)' => Waits(r, c)
    BY <2>3 DEF PlacesInv, WaitsOnce, Waits
  <2>5. \A c \in Calls : from[c] = None \/ (\E r \in Shims : Waits(r, c)') => Fresh(g, c)
    BY <2>1, <2>4 DEF PlacesInv
  <2>. QED  BY <2>1, <2>2, <2>4, <2>5, SetPlaces
<1>2. ASSUME NEW s \in Shims, HelloTimesOut(s)  PROVE PlacesInv'
  <2>1. Places(Deny(Host, s)) /\ \A c \in Calls : Fresh(Host, c) => Fresh(Deny(Host, s), c)
    BY <1>0, DenyLeaves, LeavesKeeps
  <2>. QED  BY <1>2, <2>1, QuietStep DEF HelloTimesOut
<1>3. CASE Pump
  <2>1. Places(PumpTurn(Host)) /\ \A c \in Calls : Fresh(Host, c) => Fresh(PumpTurn(Host), c)
    BY <1>0, PumpTurnPlaces
  <2>. QED  BY <1>3, <2>1, QuietStep DEF Pump
<1>4. CASE HostCloses
  <2>1. Places(Close(Host)) /\ \A c \in Calls : Fresh(Host, c) => Fresh(Close(Host), c)
    BY <1>0, CloseLeaves, LeavesKeeps
  <2>. QED  BY <1>4, <2>1, QuietStep DEF HostCloses
<1>5. CASE GraceEnds \/ Dispose
  <2>1. Places(FinishClose(Host)) /\ \A c \in Calls : Fresh(Host, c) => Fresh(FinishClose(Host), c)
    BY <1>0, FinishLeaves, LeavesKeeps
  <2>. QED  BY <1>5, <2>1, QuietStep DEF GraceEnds, Dispose
<1>. QED  BY <1>1, <1>2, <1>3, <1>4, <1>5, HostReadsPlaces

LEMMA HandlerPlaces ==
    ASSUME BrokerInv, PlacesInv,
           \/ \E closes \in BOOLEAN : HandlerReturns(closes)
           \/ HandlerTimesOut \/ \E c \in Calls : HandlerEndsLate(c)
    PROVE  PlacesInv'
<1> DEFINE done(k) == [Host EXCEPT !.b.running = {}, !.handling = k]
           late == [Host EXCEPT !.b.running = {}]
<1>0. Places(Host)
  BY DEF PlacesInv
<1>1. ASSUME NEW k  PROVE Leaves(Host, done(k)) /\ Places(done(k))
  <2>1. /\ Shape(done(k)) /\ done(k).down = Host.down /\ done(k).b.queue = Host.b.queue
        /\ done(k).ran = Host.ran
    BY <1>0 DEF Places, Shape, Fields
  <2>. HIDE DEF done
  <2>. QED  BY <1>0, <2>1, SameLeaves, LeavesKeeps
<1>2. Leaves(Host, late) /\ Places(late)
  <2>1. Shape(late) /\ late.down = Host.down /\ late.b.queue = Host.b.queue /\ late.ran = Host.ran
    BY <1>0 DEF Places, Shape, Fields
  <2>. HIDE DEF late
  <2>. QED  BY <1>0, <2>1, SameLeaves, LeavesKeeps
<1>3. ASSUME NEW d, Leaves(Host, d), Places(d), NEW c, NEW x, x \notin NotRun, x # "new"
      PROVE  LET g == Answer(d, c, x)
             IN  /\ Places(g) /\ \A e \in Calls : Fresh(Host, e) => Fresh(g, e)
                 /\ Places(Close(g)) /\ \A e \in Calls : Fresh(Host, e) => Fresh(Close(g), e)
  <2> DEFINE g == Answer(d, c, x)
  <2>1. Leaves(d, g)
    BY <1>3, AnswerLeaves
  <2>. HIDE DEF g
  <2>2. Leaves(Host, g) /\ Places(g)
    BY <1>3, <2>1, LeavesTwice, LeavesKeeps DEF Leaves
  <2>3. Leaves(Host, Close(g))
    BY <2>2, CloseLeaves, LeavesTwice DEF Leaves
  <2>4. /\ Places(g) /\ \A e \in Calls : Fresh(Host, e) => Fresh(g, e)
        /\ Places(Close(g)) /\ \A e \in Calls : Fresh(Host, e) => Fresh(Close(g), e)
    BY <1>0, <2>2, <2>3, LeavesKeeps
  <2>. QED  BY <2>4 DEF g
<1>4. "result" \notin NotRun /\ "closed" \notin NotRun
  BY DEF NotRun
<1>5. ASSUME NEW closes \in BOOLEAN, HandlerReturns(closes)  PROVE PlacesInv'
  <2>1. UNCHANGED <<up, shimVars>> /\ \E c \in broker.running :
          LET g == Answer(done(Host.handling \ {c}), c, "result")
          IN  SetHost(IF closes THEN Close(g) ELSE g)
    BY <1>5 DEF HandlerReturns
  <2>. HIDE DEF done
  <2>2. PICK c :
          LET g == Answer(done(Host.handling \ {c}), c, "result")
          IN  SetHost(IF closes THEN Close(g) ELSE g)
    BY <2>1
  <2> DEFINE d == done(Host.handling \ {c})
             g == Answer(d, c, "result")
  <2>3. Leaves(Host, d) /\ Places(d)
    BY <1>1
  <2>. HIDE DEF d
  <2>4. /\ Places(g) /\ \A e \in Calls : Fresh(Host, e) => Fresh(g, e)
        /\ Places(Close(g)) /\ \A e \in Calls : Fresh(Host, e) => Fresh(Close(g), e)
    BY <1>3, <1>4, <2>3
  <2>5. SetHost(IF closes THEN Close(g) ELSE g)
    BY <2>2 DEF d
  <2>. HIDE DEF g
  <2>. QED  BY <2>1, <2>4, <2>5, QuietStep
<1>6. CASE HandlerTimesOut
  <2>1. UNCHANGED <<up, shimVars>> /\ \E c \in broker.running : SetHost(Close(Answer(late, c, "closed")))
    BY <1>6 DEF HandlerTimesOut
  <2>. HIDE DEF late
  <2>2. PICK c : SetHost(Close(Answer(late, c, "closed")))
    BY <2>1
  <2>3. /\ Places(Close(Answer(late, c, "closed")))
        /\ \A e \in Calls : Fresh(Host, e) => Fresh(Close(Answer(late, c, "closed")), e)
    BY <1>2, <1>3, <1>4
  <2>. QED  BY <2>1, <2>2, <2>3, QuietStep
<1>7. ASSUME NEW c \in Calls, HandlerEndsLate(c)  PROVE PlacesInv'
  <2> DEFINE g == [Host EXCEPT !.handling = handling \ {c}]
  <2>1. SetHost(g) /\ UNCHANGED <<up, shimVars>>
    BY <1>7 DEF HandlerEndsLate, SetHost, Host
  <2>2. Shape(g) /\ g.down = Host.down /\ g.b.queue = Host.b.queue /\ g.ran = Host.ran
    BY <1>0 DEF Places, Shape, Fields
  <2>. HIDE DEF g
  <2>3. Places(g) /\ \A e \in Calls : Fresh(Host, e) => Fresh(g, e)
    BY <1>0, <2>2, SameLeaves, LeavesKeeps
  <2>. QED  BY <2>1, <2>3, QuietStep
<1>. QED  BY <1>5, <1>6, <1>7

(* A shim issues a call once, and drops or fails what it waits for, but never
   says of a call that it was not run. *)
LEMMA ShimStep ==
    ASSUME PlacesInv, UNCHANGED <<broker, handling, ran>>, DOMAIN conn' = Shims, WaitsOnce',
           DOMAIN answer' = Calls, DOMAIN from' = Calls, AreFrames(down'),
           \A c \in Calls : /\ Told(Host, c)' => Told(Host, c)
                            /\ answer'[c] = "new" => answer[c] = "new" /\ from'[c] = from[c]
                            /\ from'[c] = None => from[c] = None,
           \A s \in Shims : \A c \in Calls :
             Waits(s, c)' => from'[c] = s /\ (Waits(s, c) \/ from[c] = None)
    PROVE  PlacesInv'
<1>1. /\ Host'.b = Host.b /\ Host'.ran = Host.ran /\ Host'.down = down' /\ Host'.conn = conn'
      /\ DOMAIN Host' = {"b", "conn", "down", "handling", "ran"}
      /\ Places(Host)
  BY DEF Host, PlacesInv
<1>2. \A c \in Calls : Queued(Host, c)' <=> Queued(Host, c)
  BY <1>1 DEF Queued
<1>3. \A c \in Calls : Fresh(Host, c) => Fresh(Host, c)'
  BY <1>1, <1>2 DEF Fresh
<1>4. Places(Host)'
  BY <1>1, <1>2 DEF Places, Shape
<1>5. \A c \in Calls : from'[c] = None => Fresh(Host, c)'
  BY <1>3 DEF PlacesInv
<1>6. \A s \in Shims : \A c \in Calls : Waits(s, c)' => from'[c] = s /\ Fresh(Host, c)'
  BY <1>3 DEF PlacesInv
<1>7. \A c \in Calls : answer'[c] = "new" => from'[c] = None
  BY DEF PlacesInv
<1>. QED  BY <1>4, <1>5, <1>6, <1>7 DEF PlacesInv

(* Frames that are no calls, at the end of those on their way. *)
LEMMA NoCallAdded ==
    ASSUME NEW q, NEW r, NEW F, q \in Seq(F), r \in Seq(F),
           \A i \in DOMAIN r : r[i].t # "call"
    PROVE  \A i \in DOMAIN (q \o r) :
             (q \o r)[i].t = "call" => i \in DOMAIN q /\ (q \o r)[i] = q[i]
<1>1. ASSUME NEW i \in DOMAIN (q \o r), i \notin DOMAIN q
      PROVE  i - Len(q) \in DOMAIN r /\ (q \o r)[i] = r[i - Len(q)]
  BY <1>1
<1>2. ASSUME NEW i \in DOMAIN q  PROVE (q \o r)[i] = q[i]
  BY <1>2
<1>. QED  BY <1>1, <1>2

(* No new call is on its way. *)
NoNewCall ==
    \A s \in Shims : \A i \in DOMAIN up'[s] :
      up'[s][i].t = "call" => i \in DOMAIN up[s] /\ up'[s][i] = up[s][i]

LEMMA NoNewCallWaits ==
    ASSUME PlacesInv, NoNewCall
    PROVE  WaitsOnce' /\ \A s \in Shims : \A c \in Calls : Waits(s, c)' => Waits(s, c)
BY DEF NoNewCall, PlacesInv, WaitsOnce, Waits

LEMMA FailsQuietly ==
    ASSUME BrokerInv, PlacesInv, NEW s \in Shims, Fail(s)
    PROVE  /\ NoNewCall /\ from' = from /\ DOMAIN answer' = Calls
           /\ \A c \in Calls : /\ answer'[c] \in NotRun => answer[c] \in NotRun
                               /\ answer'[c] = "new" => answer[c] = "new"
<1>1. \A r \in Shims : up'[r] = up[r] \/ up'[r] = up[r] \o <<EOF>>
  BY DEF Fail, BrokerInv
<1>2. <<EOF>> \in Seq(ShimFrames) /\ \A i \in DOMAIN <<EOF>> : <<EOF>>[i].t # "call"
  BY FrameTypes DEF EOF
<1>3. ASSUME NEW r \in Shims, NEW i \in DOMAIN (up[r] \o <<EOF>>),
             (up[r] \o <<EOF>>)[i].t = "call"
      PROVE  i \in DOMAIN up[r] /\ (up[r] \o <<EOF>>)[i] = up[r][i]
  <2>1. up[r] \in Seq(ShimFrames)
    BY DEF BrokerInv
  <2>. QED  BY <1>2, <1>3, <2>1, NoCallAdded
<1>4. NoNewCall
  BY <1>1, <1>3 DEF NoNewCall
<1>5. /\ from' = from
      /\ answer' = [c \in Calls |-> IF from[c] = s /\ answer[c] = "pending"
                                    THEN Gone(s) ELSE answer[c]]
  BY DEF Fail
<1>6. Gone(s) \in {"closed", "unavailable"}
  BY DEF Gone
<1>. QED  BY <1>4, <1>5, <1>6 DEF NotRun

LEMMA ShimPlaces ==
    ASSUME BrokerInv, PlacesInv, NEW s \in Shims,
           \/ Connect(s) \/ ConnectTimesOut(s) \/ ShimReads(s) \/ ShimCloses(s)
    PROVE  PlacesInv'
<1>0. /\ AreFrames(down) /\ DOMAIN conn = Shims /\ up \in [Shims -> Seq(ShimFrames)]
      /\ DOMAIN answer = Calls /\ DOMAIN from = Calls
  BY HostView DEF PlacesInv, Places, Shape, BrokerInv
(* What is read or dropped is gone, and nothing else is added. *)
<1>1. ASSUME UNCHANGED <<broker, handling, ran, from>>, NoNewCall, DOMAIN conn' = Shims,
             DOMAIN answer' = Calls, AreFrames(down'),
             \A r \in Shims : \A i \in DOMAIN down'[r] :
               \E j \in DOMAIN down[r] : down[r][j] = down'[r][i],
             \A c \in Calls : /\ answer'[c] = "new" => answer[c] = "new"
                              /\ answer'[c] \in NotRun => Told(Host, c)
      PROVE  PlacesInv'
  <2>1. WaitsOnce' /\ \A r \in Shims : \A c \in Calls : Waits(r, c)' => Waits(r, c)
    BY <1>1, NoNewCallWaits
  <2>2. Host'.down = down' /\ Host.down = down
    BY DEF Host
  <2>3. \A c \in Calls : Told(Host, c)' => Told(Host, c)
    BY <1>1, <2>2 DEF Told
  <2>4. \A r \in Shims : \A c \in Calls : Waits(r, c) => from[c] = r
    BY DEF PlacesInv
  <2>. QED  BY <1>0, <1>1, <2>1, <2>3, <2>4, ShimStep
<1>2. IsSeq(<<>>) /\ DOMAIN <<>> = {}
  BY DEF IsSeq
<1>3. \A c \in Calls : answer[c] \in NotRun => Told(Host, c)
  BY DEF Told
<1>4. CASE Connect(s)
  <2>1. /\ UNCHANGED <<broker, down, handling, ran, from, answer>> /\ DOMAIN conn' = Shims
        /\ up' = up \/ up' = [up EXCEPT ![s] = <<[t |-> "hello"]>>]
    BY <1>0, <1>4 DEF Connect
  <2>2. NoNewCall
    BY <1>0, <2>1 DEF NoNewCall
  <2>. QED  BY <1>0, <1>1, <1>3, <2>1, <2>2
<1>5. CASE ConnectTimesOut(s)
  <2>1. /\ Fail(s) /\ UNCHANGED <<broker, conn, handling, ran>>
        /\ down' = [down EXCEPT ![s] = <<>>]
    BY <1>5 DEF ConnectTimesOut
  <2>2. AreFrames(down') /\ \A r \in Shims : down'[r] = down[r] \/ down'[r] = <<>>
    BY <1>0, <1>2, <2>1 DEF AreFrames
  <2>. QED  BY <1>0, <1>1, <1>2, <1>3, <2>1, <2>2, FailsQuietly
<1>6. CASE ShimCloses(s)
  <2>1. /\ UNCHANGED <<broker, conn, handling, ran, from>>
        /\ down' = [down EXCEPT ![s] = <<>>]
        /\ \A r \in Shims : up'[r] = up[r] \/ up'[r] = up[r] \o <<[t |-> "bye"], EOF>>
        /\ answer' = [c \in Calls |-> IF from[c] = s /\ answer[c] = "pending"
                                      THEN Gone(s) ELSE answer[c]]
    BY <1>0, <1>6 DEF ShimCloses
  <2>2. AreFrames(down') /\ \A r \in Shims : down'[r] = down[r] \/ down'[r] = <<>>
    BY <1>0, <1>2, <2>1 DEF AreFrames
  <2> DEFINE last == <<[t |-> "bye"], EOF>>
  <2>3. last \in Seq(ShimFrames) /\ \A i \in DOMAIN last : last[i].t # "call"
    BY FrameTypes DEF EOF
  <2>. HIDE DEF last
  <2>4. ASSUME NEW r \in Shims, NEW i \in DOMAIN (up[r] \o last), (up[r] \o last)[i].t = "call"
        PROVE  i \in DOMAIN up[r] /\ (up[r] \o last)[i] = up[r][i]
    BY <1>0, <2>3, <2>4, NoCallAdded
  <2>5. NoNewCall
    BY <2>1, <2>4 DEF NoNewCall, last
  <2>6. Gone(s) \in {"closed", "unavailable"}
    BY DEF Gone
  <2>7. /\ DOMAIN answer' = Calls
        /\ \A c \in Calls : /\ answer'[c] \in NotRun => answer[c] \in NotRun
                            /\ answer'[c] = "new" => answer[c] = "new"
    BY <2>1, <2>6 DEF NotRun
  <2>. QED  BY <1>0, <1>1, <1>2, <1>3, <2>1, <2>2, <2>5, <2>7
<1>7. CASE ShimReads(s)
  <2> DEFINE f == Head(down[s])
  <2>1. /\ UNCHANGED <<broker, conn, handling, ran>> /\ down[s] # <<>>
        /\ down' = [down EXCEPT ![s] = IF shim'[s] = "down" THEN <<>> ELSE Tail(down[s])]
    BY <1>7 DEF ShimReads
  <2>2. /\ IsSeq(Tail(down[s])) /\ f = down[s][1] /\ 1 \in DOMAIN down[s]
        /\ \A i \in DOMAIN Tail(down[s]) :
             \E j \in DOMAIN down[s] : down[s][j] = Tail(down[s])[i]
    <3>1. PICK F : down[s] \in Seq(F)
      BY <1>0 DEF AreFrames, IsSeq
    <3>2. Tail(down[s]) \in Seq(F) /\ f = down[s][1] /\ 1 \in DOMAIN down[s]
      BY <2>1, <3>1
    <3>3. \A i \in DOMAIN Tail(down[s]) :
            i + 1 \in DOMAIN down[s] /\ down[s][i + 1] = Tail(down[s])[i]
      BY <2>1, <3>1
    <3>. QED  BY <3>2, <3>3 DEF IsSeq
  <2>3. /\ AreFrames(down')
        /\ \A r \in Shims : \A i \in DOMAIN down'[r] :
             \E j \in DOMAIN down[r] : down[r][j] = down'[r][i]
    <3>1. /\ DOMAIN down' = Shims /\ \A r \in Shims : r # s => down'[r] = down[r]
          /\ down'[s] = <<>> \/ down'[s] = Tail(down[s])
      BY <1>0, <2>1 DEF AreFrames
    <3>. QED  BY <1>0, <1>2, <2>2, <3>1 DEF AreFrames
  <2>. HIDE DEF f
  <2>4. /\ from' = from /\ NoNewCall /\ DOMAIN answer' = Calls
        /\ \A c \in Calls : /\ answer'[c] = "new" => answer[c] = "new"
                            /\ answer'[c] \in NotRun => Told(Host, c)
    <3>1. CASE Fail(s)
      BY <1>3, <3>1, FailsQuietly
    <3>2. CASE UNCHANGED <<up, from, answer>>
      BY <1>0, <1>3, <3>2 DEF NoNewCall
    <3>3. CASE /\ f.t = "result" /\ UNCHANGED <<up, from>>
               /\ answer' = IF answer[f.id] = "pending" /\ from[f.id] = s
                            THEN [answer EXCEPT ![f.id] = f.text] ELSE answer
      <4>1. \A c \in Calls : f.id = c /\ f.text \in NotRun => Told(Host, c)
        <5>1. Host.down = down
          BY DEF Host
        <5>. QED  BY <2>2, <3>3, <5>1 DEF Told, SaysNotRun
      <4>2. NoNewCall /\ DOMAIN answer' = Calls
        BY <1>0, <3>3 DEF NoNewCall
      <4>3. \A c \in Calls : answer'[c] = answer[c] \/ (c = f.id /\ answer'[c] = f.text)
        BY <1>0, <3>3
      <4>4. ASSUME NEW c \in Calls, answer'[c] = "new"  PROVE answer[c] = "new"
          BY <2>2, <3>3, <4>3, <4>4, <1>0 DEF AreFrames, IsFrame
      <4>. QED  BY <1>3, <3>3, <4>1, <4>2, <4>3, <4>4
    <3>. QED  BY <1>7, <3>1, <3>2, <3>3 DEF ShimReads, f
  <2>. QED  BY <1>0, <1>1, <2>1, <2>3, <2>4
<1>. QED  BY <1>4, <1>5, <1>6, <1>7

(* A call is issued once: until then it is nowhere. *)
LEMMA CallPlaces ==
    ASSUME BrokerInv, PlacesInv, NEW s \in Shims, NEW c \in Calls, CallTool(s, c) \/ Cancel(s, c)
    PROVE  PlacesInv'
<1>0. /\ AreFrames(down) /\ DOMAIN conn = Shims /\ up \in [Shims -> Seq(ShimFrames)]
      /\ DOMAIN answer = Calls /\ DOMAIN from = Calls /\ None \notin Shims /\ s # None
  BY HostView, NoneAssumption DEF PlacesInv, Places, Shape, BrokerInv
<1>1. /\ UNCHANGED <<broker, handling, ran, down, conn>>
      /\ \A r \in Shims : r # s => up'[r] = up[r]
  BY <1>0 DEF CallTool, Cancel, hostVars
<1>2. ASSUME NEW f \in ShimFrames, up'[s] = Append(up[s], f)
      PROVE  \A i \in DOMAIN up'[s] : \/ i \in DOMAIN up[s] /\ up'[s][i] = up[s][i]
                                      \/ i = Len(up[s]) + 1 /\ up'[s][i] = f
  BY <1>0, <1>2
<1>3. ASSUME answer' = answer, from' = from, NoNewCall
      PROVE  PlacesInv'
  <2>1. WaitsOnce' /\ \A r \in Shims : \A d \in Calls : Waits(r, d)' => Waits(r, d)
    BY <1>3, NoNewCallWaits
  <2>2. \A d \in Calls : Told(Host, d)' => Told(Host, d)
    BY <1>1, <1>3 DEF Told, Host
  <2>3. \A r \in Shims : \A d \in Calls : Waits(r, d) => from[d] = r
    BY DEF PlacesInv
  <2>. QED  BY <1>0, <1>1, <1>3, <2>1, <2>2, <2>3, ShimStep
<1>4. CASE Cancel(s, c)
  <2> DEFINE f == [t |-> "cancel", id |-> c]
  <2>1. answer' = answer /\ from' = from /\ up'[s] = Append(up[s], f)
    BY <1>0, <1>4 DEF Cancel, shimVars
  <2>2. f \in ShimFrames /\ f.t # "call"
    BY FrameTypes
  <2>. HIDE DEF f
  <2>3. NoNewCall
    BY <1>1, <1>2, <2>1, <2>2 DEF NoNewCall
  <2>. QED  BY <1>3, <2>1, <2>3
<1>5. CASE CallTool(s, c) /\ shim[s] = "up"
  <2> DEFINE f == [t |-> "call", id |-> c]
  <2>1. /\ answer[c] = "new" /\ answer' = [answer EXCEPT ![c] = "pending"]
        /\ from' = [from EXCEPT ![c] = s] /\ up'[s] = Append(up[s], f)
    BY <1>0, <1>5 DEF CallTool
  <2>2. f \in ShimFrames /\ f.t = "call" /\ f.id = c
    BY FrameTypes
  <2>. HIDE DEF f
  <2>3. from[c] = None /\ \A r \in Shims : ~Waits(r, c)
    BY <1>0, <2>1 DEF PlacesInv
  <2>4. \A i \in DOMAIN up'[s] : \/ i \in DOMAIN up[s] /\ up'[s][i] = up[s][i]
                                 \/ i = Len(up[s]) + 1 /\ up'[s][i] = f
    BY <1>2, <2>1, <2>2
  <2>5. \A r \in Shims : \A d \in Calls : Waits(r, d)' => Waits(r, d) \/ (r = s /\ d = c)
    BY <1>1, <2>2, <2>4 DEF Waits
  <2>6. WaitsOnce'
    <3> SUFFICES ASSUME NEW r \in Shims, NEW i \in DOMAIN up'[r], NEW j \in DOMAIN up'[r],
                        up'[r][i].t = "call", up'[r][j].t = "call", up'[r][i].id = up'[r][j].id
                 PROVE  i = j
      BY DEF WaitsOnce
    <3>1. CASE r # s
      BY <1>1, <3>1 DEF PlacesInv, WaitsOnce
    <3>2. CASE r = s
      <4>1. \A k \in DOMAIN up[s] : ~(up[s][k].t = "call" /\ up[s][k].id = c)
        BY <2>3 DEF Waits
      <4>2. (i \in DOMAIN up[s] /\ up'[s][i] = up[s][i]) <=> up'[s][i].id # c
        BY <2>2, <2>4, <3>2, <4>1
      <4>3. (j \in DOMAIN up[s] /\ up'[s][j] = up[s][j]) <=> up'[s][j].id # c
        BY <2>2, <2>4, <3>2, <4>1
      <4>. QED  BY <2>4, <3>2, <4>2, <4>3 DEF PlacesInv, WaitsOnce
    <3>. QED  BY <3>1, <3>2
  <2>7. \A d \in Calls : Told(Host, d)' => Told(Host, d)
    <3>1. \A d \in Calls : answer'[d] \in NotRun => answer[d] \in NotRun
      BY <1>0, <2>1 DEF NotRun
    <3>. QED  BY <1>1, <3>1 DEF Told, Host
  <2>8. \A d \in Calls : /\ answer'[d] = "new" => answer[d] = "new" /\ from'[d] = from[d]
                         /\ from'[d] = None => from[d] = None
    BY <1>0, <2>1, <2>3
  <2>9. \A r \in Shims : \A d \in Calls :
          Waits(r, d)' => from'[d] = r /\ (Waits(r, d) \/ from[d] = None)
    <3>1. \A r \in Shims : \A d \in Calls : Waits(r, d) => from[d] = r /\ d # c
      BY <2>3 DEF PlacesInv
    <3>2. \A d \in Calls : from'[d] = IF d = c THEN s ELSE from[d]
      BY <1>0, <2>1
    <3>. QED  BY <2>3, <2>5, <3>1, <3>2
  <2>10. DOMAIN answer' = Calls /\ DOMAIN from' = Calls
    BY <1>0, <2>1
  <2>. QED  BY <1>0, <1>1, <2>6, <2>7, <2>8, <2>9, <2>10, ShimStep
<1>6. CASE CallTool(s, c) /\ shim[s] # "up"
  <2>1. /\ answer' = [answer EXCEPT ![c] = Gone(s)] /\ from' = from /\ up' = up
    BY <1>6 DEF CallTool
  <2>2. Gone(s) \in {"closed", "unavailable"}
    BY DEF Gone
  <2>3. NoNewCall
    BY <2>1 DEF NoNewCall
  <2>4. WaitsOnce' /\ \A r \in Shims : \A d \in Calls : Waits(r, d)' => Waits(r, d)
    BY <2>3, NoNewCallWaits
  <2>5. /\ DOMAIN answer' = Calls
        /\ \A d \in Calls : /\ answer'[d] \in NotRun => answer[d] \in NotRun
                            /\ answer'[d] = "new" => answer[d] = "new"
    BY <1>0, <2>1, <2>2 DEF NotRun
  <2>6. \A d \in Calls : Told(Host, d)' => Told(Host, d)
    BY <1>1, <2>5 DEF Told, Host
  <2>7. \A r \in Shims : \A d \in Calls : Waits(r, d) => from[d] = r
    BY DEF PlacesInv
  <2>. QED  BY <1>0, <1>1, <2>1, <2>4, <2>5, <2>6, <2>7, ShimStep
<1>. QED  BY <1>4, <1>5, <1>6

LEMMA InitPlaces == ASSUME Init PROVE PlacesInv
<1>1. Shape(Host) /\ Host.b.queue = <<>> /\ Host.down = [s \in Shims |-> <<>>] /\ Host.ran = {}
  BY LimitsAssumption DEF Init, Host, Shape, Fields
<1>2. IsQueue(<<>>) /\ IsSeq(<<>>) /\ DOMAIN <<>> = {}
  BY DEF IsQueue, IsSeq
<1>3. AreFrames(Host.down) /\ \A c \in Calls : ~Told(Host, c) /\ ~Queued(Host, c)
  BY <1>1, <1>2 DEF AreFrames, Told, Queued, NotRun, Init
<1>4. Places(Host) /\ \A c \in Calls : Fresh(Host, c)
  BY <1>1, <1>2, <1>3 DEF Places, Fresh
<1>5. WaitsOnce /\ \A s \in Shims : \A c \in Calls : ~Waits(s, c)
  BY <1>2 DEF Init, WaitsOnce, Waits
<1>. QED  BY <1>4, <1>5 DEF PlacesInv, Init

LEMMA NextPlaces == ASSUME BrokerInv, PlacesInv, [Next]_vars PROVE PlacesInv'
<1>1. ASSUME Next  PROVE PlacesInv'
  BY <1>1, BrokerPlaces, HandlerPlaces, ShimPlaces, CallPlaces DEF Next
<1>2. ASSUME UNCHANGED vars  PROVE PlacesInv'
  <2>1. Host' = Host /\ up' = up /\ answer' = answer /\ from' = from
    BY <1>2 DEF vars, hostVars, shimVars, Host
  <2>. QED  BY <2>1 DEF PlacesInv, Places, Shape, Fresh, Queued, Told, Waits, WaitsOnce
<1>. QED  BY <1>1, <1>2

(* A call is in one place at most: a frame on its way, the queue, run, or told
   as not run. *)
THEOREM PlacesCorrect == Spec => []PlacesInv
<1>1. Init => PlacesInv
  BY InitPlaces
<1>2. BrokerInv /\ PlacesInv /\ [Next]_vars => PlacesInv'
  BY NextPlaces
<1>. QED  BY <1>1, <1>2, Invariance, PTL DEF Spec

(* A call answered as refused or cancelled was not run, and will not be: a
   retry does not do the same thing twice. *)
THEOREM NotExecutedCorrect == Spec => []NotExecutedMeansNotRun
<1>1. PlacesInv => NotExecutedMeansNotRun
  BY HostView DEF PlacesInv, Places, Told, NotRun, NotExecutedMeansNotRun
<1>. QED  BY <1>1, PlacesCorrect, PTL
=============================================================================
