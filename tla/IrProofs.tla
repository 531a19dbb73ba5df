----------------------------- MODULE IrProofs -----------------------------
(***************************************************************************)
(* The IR v1 document and the references it holds.                         *)
(*                                                                         *)
(* The document.  It changes by whole transactions, loads, undos and redos *)
(* only, captures agree with the geometry committed with them, and the     *)
(* parameters shown are the document's once the queue is empty: for any    *)
(* models, solutions, queues and transactions.  The document stays that on *)
(* which the transaction started, since only the running job and an undo   *)
(* change it, and busy keeps undo out; so the refusal of a document that   *)
(* changed meanwhile is never needed.                                      *)
(*                                                                         *)
(* References.  Resolution builds its result one captured key at a time.   *)
(* After each key, what is used and what is consumed fit (SoundSoFar), and *)
(* each member seen so far has a face of its own, was told as removed or   *)
(* made the reference fail (Accounts); from that follow what a resolution  *)
(* may use, for any part, query and capture.  A command leaves a capture   *)
(* of the part it was made in, and such a capture is read back exactly.    *)
(***************************************************************************)
EXTENDS IrDocStore, References, HistoryProofs

(* The running transaction, and what it has made of its document so far *)
TxIsAlone ==
    /\ busy <=> tx # None
    /\ tx # None => job = [at |-> "transaction"] /\ tx \in Works /\ tx.base = document

(* The ops of t that have settled, and those of a kind among them *)
Settled(t) == 1..t.done
EditsOf(t) == {i \in Settled(t) : t.calls[i].op = "edit"}
CapturesOf(t) == {i \in Settled(t) : Captures(t.calls[i])}

(* How far the transaction is *)
Progress(t) ==
    /\ t.done <= Len(t.calls)
    /\ t.at \in {"writeBack", "op"} => t.done < Len(t.calls)
    /\ t.at = "end" => t.done = Len(t.calls) /\ ~t.failed

(* The working document says what the last edit said, and has a capture of its own
   only if an op captured. *)
SaysLast(t) ==
    \/ EditsOf(t) = {} /\ t.working[1] = t.base[1]
    \/ \E i \in EditsOf(t) : (\A j \in EditsOf(t) : j <= i) /\ t.working[1] = t.calls[i].to

KeepsCapture(t) == CapturesOf(t) = {} => t.working[3] = t.base[3]

(* A document at its fixed point; written is one, and so is the document a capture
   runs on. *)
Fixed(d) == WrittenBack(d) = d

RunsFixed(t) ==
    /\ t.written # None => Fixed(t.written)
    /\ AutoWriteBack /\ t.at = "op" /\ Captures(t.calls[t.done + 1]) => Fixed(t.working)

(* After a capture that no edit followed, it agrees with the fixed point. *)
Captured(t) == \E i \in CapturesOf(t) : \A j \in EditsOf(t) : j <= i

CaptureAgrees(t) ==
    AutoWriteBack /\ Captured(t) => Fixed(t.working) /\ t.working[3] = t.working[2]

Sound(t) ==
    /\ Progress(t) /\ RunsFixed(t)
    /\ ~t.failed => SaysLast(t) /\ KeepsCapture(t) /\ CaptureAgrees(t)

(* Parameters of another document are about to be replaced. *)
RefreshWaits == \E i \in DOMAIN queue : queue[i].type = "refresh"
RefreshComes == RefreshWaits \/ (job.at = "params" /\ job.doc = document)

ParamsFollow ==
    /\ document = None => params = None
    /\ switches = 0 => params \in {document, None} \/ RefreshComes

PlainType ==
    /\ document \in Docs \cup {None} /\ params \in Docs \cup {None}
    /\ revision \in Nat /\ switches \in Nat /\ busy \in BOOLEAN
    /\ queue \in Seq(Jobs) /\ job \in Awaited /\ tx \in Works \cup {None}

IrInv ==
    /\ PlainType /\ TxIsAlone /\ ParamsFollow
    /\ tx # None => Sound(tx)

StacksFit ==
    /\ history \in Histories
    /\ \E texts \in [1..Len(history.undo) -> Docs] : IsPast(texts, history.undo, document)
    /\ \E texts \in [1..Len(history.redo) -> Docs] : IsFuture(texts, history.redo, document)

-----------------------------------------------------------------------------
(* Documents, and what the engine makes of them. *)

LEMMA DocParts ==
    ASSUME NEW d \in Docs
    PROVE  /\ d = <<d[1], d[2], d[3]>>
           /\ d[1] \in Models /\ d[2] \in Geometries /\ d[3] \in Geometries
BY DEF Docs

LEMMA DocOf ==
    ASSUME NEW m \in Models, NEW g \in Geometries, NEW c \in Geometries
    PROVE  /\ <<m, g, c>> \in Docs
           /\ <<m, g, c>>[1] = m /\ <<m, g, c>>[2] = g /\ <<m, g, c>>[3] = c
BY DEF Docs

LEMMA DocsAreTexts == Docs \in SUBSET Seq(Units)
<1>1. ASSUME NEW m \in Models, NEW g \in Geometries, NEW c \in Geometries
      PROVE  <<m, g, c>> \in Seq(Units)
  <2>1. m \in Units /\ g \in Units /\ c \in Units
    BY DocsAssumption
  <2>. QED  BY <2>1
<1>2. ASSUME NEW d \in Docs PROVE d \in Seq(Units)
  <2>1. <<d[1], d[2], d[3]>> \in Seq(Units) /\ d = <<d[1], d[2], d[3]>>
    BY <1>1, DocParts
  <2>. QED  BY <2>1
<1>. QED  BY <1>2

LEMMA WriteBackFixes ==
    ASSUME NEW d \in Docs
    PROVE  /\ WrittenBack(d) \in Docs /\ Fixed(WrittenBack(d))
           /\ WrittenBack(d)[1] = d[1] /\ WrittenBack(d)[3] = d[3]
<1>1. CASE SolutionOf[d[1]] = None
  BY <1>1 DEF WrittenBack, Fixed
<1>2. CASE SolutionOf[d[1]] # None
  <2>1. SolutionOf[d[1]] \in Geometries
    BY <1>2, DocParts, DocsAssumption
  <2>2. WrittenBack(d) = <<d[1], SolutionOf[d[1]], d[3]>>
    BY <1>2 DEF WrittenBack
  <2>. QED  BY <1>2, <2>1, <2>2, DocParts, DocOf DEF WrittenBack, Fixed
<1>. QED  BY <1>1, <1>2

(* A capture keeps the fixed point. *)
LEMMA CaptureKeepsFixed ==
    ASSUME NEW d \in Docs, Fixed(d)
    PROVE  Fixed(<<d[1], d[2], d[2]>>)
<1>1. SolutionOf[d[1]] # None => SolutionOf[d[1]] \in Geometries
  BY DocParts, DocsAssumption
<1>2. SolutionOf[d[1]] # None => SolutionOf[d[1]] = d[2]
  BY <1>1, DocParts, DocOf DEF Fixed, WrittenBack
<1>. QED  BY <1>2, DocParts, DocOf DEF Fixed, WrittenBack

LEMMA AppliedIsDoc ==
    ASSUME NEW d \in Docs, NEW o \in Ops
    PROVE  /\ Applied(d, o) \in Docs
           /\ o.op = "edit" => Applied(d, o)[1] = o.to /\ Applied(d, o)[3] = d[3]
           /\ o.op = "writeBack" => Applied(d, o) = WrittenBack(d)
           /\ Captures(o) => Applied(d, o) = <<d[1], d[2], d[2]>>
<1>1. CASE o.op = "edit"
  <2>1. o.to \in Models
    BY <1>1 DEF Ops
  <2>2. Applied(d, o) = <<o.to, d[2], d[3]>>
    <3>1. ~Captures(o) /\ o.op # "writeBack"
      BY <1>1 DEF Captures
    <3>. QED  BY <1>1, <3>1 DEF Applied
  <2>3. ~Captures(o) /\ o.op # "writeBack"
    BY <1>1 DEF Captures
  <2>. QED  BY <2>1, <2>2, <2>3, DocParts, DocOf
<1>2. CASE o.op = "writeBack"
  BY <1>2, WriteBackFixes DEF Applied, Captures
<1>3. CASE Captures(o)
  <2>1. o.op # "edit" /\ o.op # "writeBack" /\ Applied(d, o) = <<d[1], d[2], d[2]>>
    BY <1>3 DEF Captures, Applied
  <2>. QED  BY <1>3, <2>1, DocParts, DocOf
<1>. QED  BY <1>1, <1>2, <1>3 DEF Ops, Captures

-----------------------------------------------------------------------------
(* The ops of a transaction. *)

(* The settled ops of a transaction do not change. *)
LEMMA SettledSame ==
    ASSUME NEW t, NEW u, u.done = t.done, \A i \in Settled(t) : u.calls[i] = t.calls[i]
    PROVE  EditsOf(u) = EditsOf(t) /\ CapturesOf(u) = CapturesOf(t)
BY DEF Settled, EditsOf, CapturesOf

(* The parts of a transaction *)
LEMMA WorkParts ==
    ASSUME NEW t \in Works
    PROVE  /\ t = [base |-> t.base, working |-> t.working, written |-> t.written,
                   calls |-> t.calls, done |-> t.done, at |-> t.at, callback |-> t.callback,
                   failed |-> t.failed, edited |-> t.edited]
           /\ t.base \in Docs /\ t.working \in Docs /\ t.written \in Docs \cup {None}
           /\ t.calls \in Seq(Ops) /\ t.done \in Nat
           /\ t.at \in {"idle", "writeBack", "op", "end"}
           /\ t.callback \in {"runs", "returned", "threw"}
           /\ t.failed \in BOOLEAN /\ t.edited \in BOOLEAN
BY DEF Works

(* One more op is called. *)
LEMMA CallSound ==
    ASSUME NEW t \in Works, Sound(t), t.at # "end", NEW o \in Ops
    PROVE  /\ [t EXCEPT !.calls = Append(@, o)] \in Works
           /\ [t EXCEPT !.calls = Append(@, o)].base = t.base
           /\ Sound([t EXCEPT !.calls = Append(@, o)])
<1> DEFINE u == [t EXCEPT !.calls = Append(@, o)]
<1>0. Append(t.calls, o) \in Seq(Ops)
  BY WorkParts
<1>1. /\ u \in Works /\ u.base = t.base /\ u.working = t.working /\ u.written = t.written
      /\ u.calls = Append(t.calls, o) /\ u.done = t.done /\ u.at = t.at /\ u.failed = t.failed
  BY <1>0 DEF Works
<1>2. /\ t.calls \in Seq(Ops) /\ t.done \in Nat /\ Progress(t) /\ RunsFixed(t)
      /\ Len(t.calls) \in Nat /\ t.done <= Len(t.calls)
  BY WorkParts DEF Sound, Progress
<1> HIDE DEF u
<1>3. /\ Len(u.calls) = Len(t.calls) + 1
      /\ \A i \in 1..Len(t.calls) : u.calls[i] = t.calls[i]
  BY <1>1, <1>2
<1>4. EditsOf(u) = EditsOf(t) /\ CapturesOf(u) = CapturesOf(t)
  <2>1. \A i \in Settled(t) : i \in 1 .. Len(t.calls)
    BY <1>2 DEF Settled
  <2>2. u.done = t.done
    BY <1>1
  <2>3. \A i \in Settled(t) : u.calls[i] = t.calls[i]
    BY <1>3, <2>1
  <2>. QED  BY <2>2, <2>3, SettledSame
<1>5. Progress(u)
  BY <1>1, <1>2, <1>3 DEF Progress
<1>6. RunsFixed(u)
  <2>1. t.at = "op" => t.done + 1 \in 1..Len(t.calls)
    BY <1>2 DEF Progress
  <2>. QED  BY <1>1, <1>2, <1>3, <2>1 DEF RunsFixed
<1>7. ~t.failed => SaysLast(u) /\ KeepsCapture(u) /\ CaptureAgrees(u)
  <2>1. EditsOf(t) \subseteq 1..Len(t.calls)
    BY <1>2 DEF EditsOf, Settled
  <2>. QED
    BY <1>1, <1>3, <1>4, <2>1 DEF Sound, SaysLast, KeepsCapture, CaptureAgrees, Captured
<1>. QED  BY <1>1, <1>5, <1>6, <1>7 DEF u, Sound

(* The op about to run *)
OpOf(t) == t.calls[t.done + 1]

(* An op begins, on the fixed point if it captures. *)
LEMMA BeginSound ==
    ASSUME NEW t \in Works, Sound(t), t.at = "idle", t.done < Len(t.calls), NEW at,
           at = "writeBack" \/ (at = "op" /\ ~(AutoWriteBack /\ Captures(OpOf(t)) /\ t.working # t.written))
    PROVE  /\ [t EXCEPT !.at = at] \in Works /\ [t EXCEPT !.at = at].base = t.base
           /\ Sound([t EXCEPT !.at = at])
<1> DEFINE u == [t EXCEPT !.at = at]
<1>1. /\ u \in Works /\ u.base = t.base /\ u.working = t.working /\ u.written = t.written
      /\ u.calls = t.calls /\ u.done = t.done /\ u.at = at /\ u.failed = t.failed
  BY DEF Works
<1>2. t.working \in Docs /\ t.working # None
  BY WorkParts, NoneAssumption
<1> HIDE DEF u
<1>3. EditsOf(u) = EditsOf(t) /\ CapturesOf(u) = CapturesOf(t)
  BY <1>1, SettledSame
<1>4. Progress(u)
  BY <1>1 DEF Sound, Progress
<1>5. RunsFixed(u)
  BY <1>1, <1>2 DEF Sound, RunsFixed, OpOf
<1>6. ~t.failed => SaysLast(u) /\ KeepsCapture(u) /\ CaptureAgrees(u)
  BY <1>1, <1>3 DEF Sound, SaysLast, KeepsCapture, CaptureAgrees, Captured
<1>. QED  BY <1>1, <1>4, <1>5, <1>6 DEF u, Sound

(* A refused op *)
LEMMA RefusedSound ==
    ASSUME NEW t \in Works, Progress(t), t.written # None => Fixed(t.written), t.done < Len(t.calls)
    PROVE  OpRefused(t) \in Works /\ OpRefused(t).base = t.base /\ Sound(OpRefused(t))
<1> DEFINE u == OpRefused(t)
<1>0. t.done + 1 \in Nat
  BY WorkParts
<1>1. /\ u \in Works /\ u.base = t.base /\ u.written = t.written /\ u.calls = t.calls
      /\ u.done = t.done + 1 /\ u.at = "idle" /\ u.failed = TRUE
  BY <1>0 DEF Works, OpRefused
<1>2. t.done \in Nat /\ Len(t.calls) \in Nat
  BY WorkParts
<1> HIDE DEF u
<1>3. Progress(u) /\ RunsFixed(u)
  BY <1>1, <1>2 DEF Progress, RunsFixed
<1>. QED  BY <1>1, <1>3 DEF u, Sound

(* The write-back before a capture *)
LEMMA WrittenBackSound ==
    ASSUME NEW t \in Works, Sound(t), t.at = "writeBack"
    PROVE  /\ TxWrittenBack(t) \in Works /\ TxWrittenBack(t).base = t.base
           /\ Progress(TxWrittenBack(t)) /\ TxWrittenBack(t).done < Len(TxWrittenBack(t).calls)
           /\ Fixed(TxWrittenBack(t).written)
           /\ [TxWrittenBack(t) EXCEPT !.at = "op"] \in Works
           /\ [TxWrittenBack(t) EXCEPT !.at = "op"].base = t.base
           /\ Sound([TxWrittenBack(t) EXCEPT !.at = "op"])
<1> DEFINE w == WrittenBack(t.working)
           v == TxWrittenBack(t)
           u == [v EXCEPT !.at = "op"]
<1>1. /\ t.working \in Docs /\ w \in Docs /\ Fixed(w)
      /\ w[1] = t.working[1] /\ w[3] = t.working[3]
  BY WorkParts, WriteBackFixes
<1> HIDE DEF w
<1>2. /\ v \in Works /\ v.base = t.base /\ v.written = w /\ v.working = w /\ v.calls = t.calls
      /\ v.done = t.done /\ v.at = t.at /\ v.failed = t.failed
  BY <1>1 DEF Works, TxWrittenBack, w
<1> HIDE DEF v
<1>3. /\ u \in Works /\ u.base = t.base /\ u.written = w /\ u.working = w /\ u.calls = t.calls
      /\ u.done = t.done /\ u.at = "op" /\ u.failed = t.failed
  BY <1>2 DEF Works
<1> HIDE DEF u
<1>4. Progress(v) /\ v.done < Len(v.calls) /\ Progress(u)
  BY <1>2, <1>3 DEF Sound, Progress
<1>5. RunsFixed(u)
  BY <1>1, <1>3 DEF RunsFixed
<1>6. EditsOf(u) = EditsOf(t) /\ CapturesOf(u) = CapturesOf(t)
  BY <1>3, SettledSame
<1>7. ~t.failed => SaysLast(u) /\ KeepsCapture(u)
  BY <1>1, <1>3, <1>6 DEF Sound, SaysLast, KeepsCapture
<1>8. ~t.failed => CaptureAgrees(u)
  <2>1. Fixed(t.working) => w = t.working
    BY DEF Fixed, w
  <2>. QED  BY <1>1, <1>3, <1>6, <2>1 DEF Sound, CaptureAgrees, Captured
<1>. QED  BY <1>1, <1>2, <1>3, <1>4, <1>5, <1>7, <1>8 DEF u, v, Sound

(* One more op has settled. *)
LEMMA OneMore ==
    ASSUME NEW t \in Works, NEW u, u.done = t.done + 1, u.calls = t.calls
    PROVE  /\ EditsOf(u) = EditsOf(t) \cup (IF OpOf(t).op = "edit" THEN {u.done} ELSE {})
           /\ CapturesOf(u) = CapturesOf(t) \cup (IF Captures(OpOf(t)) THEN {u.done} ELSE {})
           /\ u.calls[u.done] = OpOf(t)
           /\ \A i \in EditsOf(t) \cup CapturesOf(t) : i \in Nat /\ i < u.done
<1>1. t.done \in Nat
  BY WorkParts
<1>2. Settled(u) = Settled(t) \cup {u.done} /\ \A i \in Settled(t) : i \in Nat /\ i < u.done
  BY <1>1 DEF Settled
<1>3. u.calls[u.done] = OpOf(t)
  BY DEF OpOf
<1>. QED  BY <1>2, <1>3 DEF EditsOf, CapturesOf

(* What OpDone makes of the transaction *)
Ran(t) ==
    [t EXCEPT
       !.at = "idle", !.done = t.done + 1, !.working = Applied(t.working, OpOf(t)),
       !.edited = t.edited \/ (Applied(t.working, OpOf(t)) # t.working /\ OpOf(t).op # "writeBack"),
       !.written = IF OpOf(t).op = "writeBack" \/ (OpOf(t).op = "capture" /\ t.working = t.written)
                   THEN Applied(t.working, OpOf(t)) ELSE t.written]

LEMMA RanSound ==
    ASSUME NEW t \in Works, Sound(t), t.at = "op"
    PROVE  Ran(t) \in Works /\ Ran(t).base = t.base /\ Sound(Ran(t))
<1> DEFINE u == Ran(t)
           o == OpOf(t)
           d == Applied(t.working, o)
<1>1. /\ t.done \in Nat /\ t.calls \in Seq(Ops) /\ t.done < Len(t.calls) /\ Len(t.calls) \in Nat
      /\ t.working \in Docs /\ t.written \in Docs \cup {None}
  BY WorkParts DEF Sound, Progress
<1>2. o \in Ops
  BY <1>1 DEF OpOf
<1>3. /\ d \in Docs
      /\ o.op = "edit" => d[1] = o.to /\ d[3] = t.working[3]
      /\ o.op = "writeBack" => d = WrittenBack(t.working)
      /\ Captures(o) => d = <<t.working[1], t.working[2], t.working[2]>>
  BY <1>1, <1>2, AppliedIsDoc
<1>4. o.op = "edit" \/ o.op = "writeBack" \/ Captures(o)
  BY <1>2 DEF Ops, Captures
<1>5. o.op = "capture" => Captures(o)
  BY DEF Captures
<1> HIDE DEF o, d
<1>6. /\ u.base = t.base /\ u.working = d /\ u.calls = t.calls
      /\ u.done = t.done + 1 /\ u.at = "idle" /\ u.failed = t.failed
      /\ u.written = IF o.op = "writeBack" \/ (o.op = "capture" /\ t.working = t.written)
                     THEN d ELSE t.written
  BY WorkParts DEF Ran, o, d
<1>7. u \in Works
  <2>1. t.done + 1 \in Nat /\ (t.edited \/ (d # t.working /\ o.op # "writeBack")) \in BOOLEAN
    BY <1>1, WorkParts
  <2>2. (IF o.op = "writeBack" \/ (o.op = "capture" /\ t.working = t.written) THEN d ELSE t.written)
          \in Docs \cup {None}
    BY <1>1, <1>3
  <2>. QED  BY <1>3, <2>1, <2>2 DEF Works, Ran, o, d
<1> HIDE DEF u
<1>8. /\ EditsOf(u) = EditsOf(t) \cup (IF o.op = "edit" THEN {u.done} ELSE {})
      /\ CapturesOf(u) = CapturesOf(t) \cup (IF Captures(o) THEN {u.done} ELSE {})
      /\ u.calls[u.done] = o
      /\ \A i \in EditsOf(t) \cup CapturesOf(t) : i \in Nat /\ i < u.done
  BY <1>6, OneMore DEF o
<1>9. Captures(o) => o.op # "edit" /\ o.op # "writeBack"
  BY DEF Captures
<1>10. d[1] = t.working[1] \/ o.op = "edit"
  <2>1. CASE o.op = "writeBack"
    BY <1>1, <1>3, <2>1, WriteBackFixes
  <2>2. CASE Captures(o)
    BY <1>1, <1>3, <2>2, DocParts, DocOf
  <2>. QED  BY <1>4, <2>1, <2>2
<1>11. d[3] = t.working[3] \/ Captures(o)
  BY <1>1, <1>3, <1>4, WriteBackFixes
<1>12. Progress(u)
  BY <1>1, <1>6 DEF Progress
<1>13. RunsFixed(u)
  <2>1. CASE o.op = "writeBack"
    BY <1>1, <1>3, <1>6, <2>1, WriteBackFixes DEF RunsFixed
  <2>2. CASE o.op = "capture" /\ t.working = t.written
    <3>1. Fixed(t.working)
      BY <1>1, <2>2, NoneAssumption DEF Sound, RunsFixed
    <3>2. Fixed(d)
      BY <1>1, <1>3, <1>5, <2>2, <3>1, CaptureKeepsFixed
    <3>. QED  BY <1>6, <2>2, <3>2 DEF RunsFixed
  <2>3. CASE ~(o.op = "writeBack" \/ (o.op = "capture" /\ t.working = t.written))
    <3>1. u.written = t.written
      BY <1>6, <2>3
    <3>. QED  BY <1>6, <3>1 DEF Sound, RunsFixed
  <2>. QED  BY <2>1, <2>2, <2>3
<1>14. ASSUME ~t.failed PROVE SaysLast(u)
  <2>1. CASE o.op = "edit"
    <3>1. u.done \in EditsOf(u) /\ u.working[1] = u.calls[u.done].to
      BY <1>3, <1>6, <1>8, <2>1
    <3>2. \A j \in EditsOf(u) : j <= u.done
      BY <1>1, <1>6, <1>8
    <3>. QED  BY <3>1, <3>2 DEF SaysLast
  <2>2. CASE o.op # "edit"
    <3>1. EditsOf(u) = EditsOf(t) /\ u.working[1] = t.working[1]
      BY <1>6, <1>8, <1>10, <2>2
    <3>. QED  BY <1>6, <1>14, <3>1 DEF Sound, SaysLast
  <2>. QED  BY <2>1, <2>2
<1>15. ASSUME ~t.failed PROVE KeepsCapture(u)
  BY <1>6, <1>8, <1>11, <1>15 DEF Sound, KeepsCapture
<1>16. ASSUME ~t.failed, AutoWriteBack, Captured(u)
       PROVE  Fixed(u.working) /\ u.working[3] = u.working[2]
  <2>1. CASE o.op = "edit"
    <3>1. \A i \in CapturesOf(u) : i \in Nat /\ i < u.done
      BY <1>8, <1>9, <2>1
    <3>2. u.done \in EditsOf(u)
      BY <1>8, <2>1
    <3>3. u.done \in Nat
      BY <1>1, <1>6
    <3>. QED  BY <1>16, <3>1, <3>2, <3>3 DEF Captured
  <2>2. CASE o.op = "writeBack"
    <3>1. EditsOf(u) = EditsOf(t) /\ CapturesOf(u) = CapturesOf(t)
      BY <1>8, <1>9, <2>2
    <3>2. Fixed(t.working) /\ t.working[3] = t.working[2]
      BY <1>16, <3>1 DEF Sound, CaptureAgrees, Captured
    <3>. QED  BY <1>3, <1>6, <2>2, <3>2 DEF Fixed
  <2>3. CASE Captures(o)
    <3>1. Fixed(t.working)
      BY <1>16, <2>3 DEF Sound, RunsFixed, o, OpOf
    <3>2. Fixed(d) /\ d[3] = d[2]
      BY <1>1, <1>3, <2>3, <3>1, CaptureKeepsFixed, DocParts, DocOf
    <3>. QED  BY <1>6, <3>2
  <2>. QED  BY <1>4, <2>1, <2>2, <2>3
<1>17. ~u.failed => SaysLast(u) /\ KeepsCapture(u) /\ CaptureAgrees(u)
  BY <1>6, <1>14, <1>15, <1>16 DEF CaptureAgrees
<1>. QED  BY <1>6, <1>7, <1>12, <1>13, <1>17 DEF u, Sound

(* Its end: after the callback settled, and all ops. *)
LEMMA EndSound ==
    ASSUME NEW t \in Works, Sound(t), t.at = "idle", t.done = Len(t.calls), ~t.failed
    PROVE  /\ [t EXCEPT !.at = "end"] \in Works /\ [t EXCEPT !.at = "end"].base = t.base
           /\ Sound([t EXCEPT !.at = "end"])
<1> DEFINE u == [t EXCEPT !.at = "end"]
<1>1. /\ u \in Works /\ u.base = t.base /\ u.working = t.working /\ u.written = t.written
      /\ u.calls = t.calls /\ u.done = t.done /\ u.at = "end" /\ u.failed = t.failed
  BY DEF Works
<1> HIDE DEF u
<1>2. EditsOf(u) = EditsOf(t) /\ CapturesOf(u) = CapturesOf(t)
  BY <1>1, SettledSame
<1>3. Progress(u) /\ RunsFixed(u)
  BY <1>1 DEF Sound, Progress, RunsFixed
<1>4. ~t.failed => SaysLast(u) /\ KeepsCapture(u) /\ CaptureAgrees(u)
  BY <1>1, <1>2 DEF Sound, SaysLast, KeepsCapture, CaptureAgrees, Captured
<1>. QED  BY <1>1, <1>3, <1>4 DEF u, Sound

LEMMA CallbackSound ==
    ASSUME NEW t \in Works, Sound(t), NEW how \in {"returned", "threw"}
    PROVE  /\ [t EXCEPT !.callback = how] \in Works /\ [t EXCEPT !.callback = how].base = t.base
           /\ Sound([t EXCEPT !.callback = how])
<1> DEFINE u == [t EXCEPT !.callback = how]
<1>1. /\ u \in Works /\ u.base = t.base /\ u.working = t.working /\ u.written = t.written
      /\ u.calls = t.calls /\ u.done = t.done /\ u.at = t.at /\ u.failed = t.failed
  BY DEF Works
<1> HIDE DEF u
<1>2. EditsOf(u) = EditsOf(t) /\ CapturesOf(u) = CapturesOf(t)
  BY <1>1, SettledSame
<1>3. Progress(u) /\ RunsFixed(u)
  BY <1>1 DEF Sound, Progress, RunsFixed
<1>4. ~t.failed => SaysLast(u) /\ KeepsCapture(u) /\ CaptureAgrees(u)
  BY <1>1, <1>2 DEF Sound, SaysLast, KeepsCapture, CaptureAgrees, Captured
<1>. QED  BY <1>1, <1>3, <1>4 DEF u, Sound

(* A new transaction *)
LEMMA NewSound ==
    ASSUME NEW d \in Docs
    PROVE  NewTransaction(d) \in Works /\ NewTransaction(d).base = d /\ Sound(NewTransaction(d))
<1> DEFINE t == NewTransaction(d)
<1>1. /\ t \in Works /\ t.base = d /\ t.working = d /\ t.written = None /\ t.calls = <<>>
      /\ t.done = 0 /\ t.at = "idle" /\ t.failed = FALSE
  BY DEF NewTransaction, Works
<1> HIDE DEF t
<1>2. EditsOf(t) = {} /\ CapturesOf(t) = {}
  BY <1>1 DEF EditsOf, CapturesOf, Settled
<1>. QED  BY <1>1, <1>2 DEF t, Sound, Progress, RunsFixed, SaysLast, KeepsCapture, CaptureAgrees, Captured

-----------------------------------------------------------------------------
(* The steps of a transaction. *)

LEMMA Goes ==
    ASSUME IrInv, tx # None, NEW t, GoesOn(t), t \in Works, t.base = tx.base, Sound(t)
    PROVE  IrInv'
<1>1. t # None
  BY NoneAssumption
<1>. QED  BY <1>1 DEF IrInv, PlainType, TxIsAlone, ParamsFollow, RefreshComes, RefreshWaits,
             GoesOn, storeVars

LEMMA TransactionKeeps ==
    ASSUME IrInv,
           \/ \E o \in Ops : Call(o)
           \/ BeginOp \/ OpWrittenBack \/ OpDone \/ OpFails
           \/ \E how \in {"returned", "threw"} : CallbackSettles(how)
    PROVE  IrInv'
<1>1. tx # None
  BY DEF Call, BeginOp, OpWrittenBack, OpDone, OpFails, CallbackSettles
<1>2. tx \in Works /\ Sound(tx) /\ Progress(tx) /\ (tx.written # None => Fixed(tx.written))
  BY <1>1 DEF IrInv, TxIsAlone, Sound, RunsFixed
<1>3. ASSUME NEW o \in Ops, Call(o) PROVE IrInv'
  BY <1>1, <1>2, <1>3, CallSound, Goes DEF Call
<1>4. CASE BeginOp
  <2> DEFINE at == IF WritesBackFirst THEN "writeBack" ELSE "op"
  <2>1. at = "writeBack" \/ (at = "op" /\ ~(AutoWriteBack /\ Captures(OpOf(tx)) /\ tx.working # tx.written))
    BY DEF WritesBackFirst, Op, OpOf
  <2>2. tx.at = "idle" /\ tx.done < Len(tx.calls) /\ GoesOn([tx EXCEPT !.at = at])
    BY <1>4 DEF BeginOp
  <2> HIDE DEF at
  <2>. QED  BY <1>1, <1>2, <2>1, <2>2, BeginSound, Goes
<1>5. CASE OpWrittenBack
  <2> DEFINE t == TxWrittenBack(tx)
  <2>1. GoesOn(OpRefused(t)) \/ GoesOn([t EXCEPT !.at = "op"])
    BY <1>5 DEF OpWrittenBack
  <2>2. /\ t \in Works /\ t.base = tx.base /\ Progress(t) /\ t.done < Len(t.calls) /\ Fixed(t.written)
        /\ [t EXCEPT !.at = "op"] \in Works /\ [t EXCEPT !.at = "op"].base = tx.base
        /\ Sound([t EXCEPT !.at = "op"])
    BY <1>2, <1>5, WrittenBackSound DEF OpWrittenBack
  <2> HIDE DEF t
  <2>. QED  BY <1>1, <2>1, <2>2, RefusedSound, Goes
<1>6. CASE OpDone
  <2>1. GoesOn(Ran(tx)) /\ tx.at = "op"
    BY <1>6 DEF OpDone, Ran, Op, OpOf
  <2>. QED  BY <1>1, <1>2, <2>1, RanSound, Goes
<1>7. CASE OpFails
  <2>1. GoesOn(OpRefused(tx)) /\ tx.done < Len(tx.calls)
    BY <1>2, <1>7 DEF OpFails, Progress
  <2>. QED  BY <1>1, <1>2, <2>1, RefusedSound, Goes
<1>8. ASSUME NEW how \in {"returned", "threw"}, CallbackSettles(how) PROVE IrInv'
  BY <1>1, <1>2, <1>8, CallbackSound, Goes DEF CallbackSettles
<1>. QED  BY <1>3, <1>4, <1>5, <1>6, <1>7, <1>8

(* The document a transaction commits: what the features say, what is captured, and
   that the capture agrees with the geometry, come from its ops. *)
Prepared(t, d) ==
    /\ d \in Docs /\ d[1] = t.working[1] /\ d[3] = t.working[3]
    /\ Fixed(t.working) => d = t.working

(* How a transaction may end *)
Ends ==
    \/ Refuse
    \/ \E d : Prepared(tx, d) /\ tx.done = Len(tx.calls) /\ ~tx.failed /\ Commit(d)

LEMMA EndsSo ==
    ASSUME IrInv, End \/ EndWrittenBack \/ EndFails
    PROVE  tx # None /\ (Ends \/ IrInv')
<1>1. tx # None
  BY DEF End, EndWrittenBack, EndFails
<1>2. tx \in Works /\ Sound(tx)
  BY <1>1 DEF IrInv, TxIsAlone
<1>3. tx.working \in Docs
  BY <1>2, WorkParts
<1>4. Prepared(tx, tx.working)
  BY <1>3 DEF Prepared
<1>5. Prepared(tx, WrittenBack(tx.working))
  BY <1>3, WriteBackFixes DEF Prepared, Fixed
<1>6. CASE End
  <2>1. tx.at = "idle" /\ tx.done = Len(tx.calls)
    BY <1>6 DEF End, Closes
  <2>2. CASE Refuse
    BY <1>1, <2>2 DEF Ends
  <2>3. CASE ~tx.failed /\ GoesOn([tx EXCEPT !.at = "end"])
    BY <1>1, <1>2, <2>1, <2>3, EndSound, Goes
  <2>4. CASE ~tx.failed /\ Commit(tx.working)
    BY <1>1, <1>4, <2>1, <2>4 DEF Ends
  <2>. QED  BY <1>6, <2>2, <2>3, <2>4 DEF End
<1>7. CASE EndWrittenBack
  <2>1. tx.done = Len(tx.calls) /\ ~tx.failed /\ Commit(WrittenBack(tx.working))
    BY <1>2, <1>7 DEF EndWrittenBack, Sound, Progress
  <2>. QED  BY <1>1, <1>5, <2>1 DEF Ends
<1>8. CASE EndFails
  BY <1>1, <1>8 DEF EndFails, Ends
<1>. QED  BY <1>6, <1>7, <1>8

-----------------------------------------------------------------------------
(* The queue and the parameters. *)

LEMMA RefreshStays ==
    ASSUME queue \in Seq(Jobs), RefreshWaits,
           \/ queue' = queue
           \/ \E j : queue' = Append(queue, j)
           \/ queue # <<>> /\ Head(queue).type # "refresh" /\ queue' = Tail(queue)
    PROVE  RefreshWaits'
<1>1. PICK i \in DOMAIN queue : queue[i].type = "refresh"
  BY DEF RefreshWaits
<1>2. ASSUME NEW j, queue' = Append(queue, j) PROVE RefreshWaits'
  <2>1. i \in 1..Len(queue) /\ Len(queue) \in Nat
    OBVIOUS
  <2>2. i \in DOMAIN queue' /\ queue'[i] = queue[i]
    BY <1>2, <2>1
  <2>. QED  BY <1>1, <2>2 DEF RefreshWaits
<1>3. CASE queue # <<>> /\ Head(queue).type # "refresh" /\ queue' = Tail(queue)
  <2>1. /\ i \in 1..Len(queue) /\ Len(queue) \in Nat /\ Head(queue) = queue[1]
    BY <1>3
  <2>2. i # 1
    BY <1>1, <1>3, <2>1
  <2>3. i - 1 \in DOMAIN Tail(queue) /\ Tail(queue)[i - 1] = queue[i]
    BY <1>3, <2>1, <2>2
  <2>. QED  BY <1>1, <1>3, <2>3 DEF RefreshWaits
<1>4. CASE queue' = queue
  BY <1>1, <1>4 DEF RefreshWaits
<1>. QED  BY <1>2, <1>3, <1>4

(* The parameters of d come next, unless there is no engine for them. *)
LEMMA RefreshFollows ==
    ASSUME switches \in Nat, NEW d \in Docs \cup {None}, Refresh(d), document' = d,
           document' = None => params' = None, switches' = switches
    PROVE  ParamsFollow' /\ job' \in Awaited
<1>1. job' \in Awaited
  BY DEF Refresh, Awaited, Free
<1>2. switches = 0 /\ d # None => job'.at = "params" /\ job'.doc = d
  BY DEF Refresh, HasCommands
<1>. QED  BY <1>1, <1>2 DEF ParamsFollow, RefreshComes

LEMMA AskKeeps ==
    ASSUME IrInv, NEW j \in Jobs, Ask(j)
    PROVE  IrInv'
<1>1. queue' \in Seq(Jobs)
  BY DEF IrInv, PlainType, Ask
<1>2. RefreshWaits => RefreshWaits'
  BY RefreshStays DEF IrInv, PlainType, Ask
<1>. QED  BY <1>1, <1>2 DEF IrInv, PlainType, TxIsAlone, ParamsFollow, RefreshComes, Ask, storeVars

(* The next job is taken. *)
LEMMA JobTaken ==
    ASSUME IrInv, NEW type, IsNext(type), queue' = Tail(queue)
    PROVE  /\ queue' \in Seq(Jobs) /\ Head(queue) \in Jobs /\ tx = None /\ ~busy
           /\ type # "refresh" /\ RefreshWaits => RefreshWaits'
           /\ ~(job.at = "params")
<1>1. queue \in Seq(Jobs) /\ queue # <<>> /\ job = Free /\ Head(queue).type = type
  BY DEF IrInv, PlainType, IsNext
<1>2. Tail(queue) \in Seq(Jobs) /\ Head(queue) \in Jobs
  BY <1>1
<1>3. job.at = "none"
  BY <1>1 DEF Free
<1>4. tx = None /\ ~busy
  BY <1>3 DEF IrInv, PlainType, TxIsAlone
<1>5. type # "refresh" /\ RefreshWaits => RefreshWaits'
  BY <1>1, RefreshStays
<1>. QED  BY <1>2, <1>3, <1>4, <1>5

LEMMA StartKeeps ==
    ASSUME IrInv, StartRefresh \/ StartLoad \/ StartTransaction
    PROVE  IrInv'
<1>1. CASE StartRefresh
  <2>1. queue' \in Seq(Jobs) /\ tx = None /\ ~busy
    BY <1>1, JobTaken DEF StartRefresh
  <2>2. ParamsFollow' /\ job' \in Awaited
    BY <1>1, RefreshFollows DEF IrInv, PlainType, ParamsFollow, StartRefresh, storeVars
  <2>. QED  BY <1>1, <2>1, <2>2 DEF IrInv, PlainType, TxIsAlone, StartRefresh, storeVars
<1>2. CASE StartLoad
  <2>1. queue' \in Seq(Jobs) /\ tx = None /\ ~busy /\ Head(queue) \in Jobs
        /\ (RefreshWaits => RefreshWaits') /\ job.at # "params"
    BY <1>2, JobTaken DEF StartLoad
  <2>2. Head(queue).doc \in Docs
    BY <1>2, <2>1 DEF Jobs, StartLoad, IsNext
  <2>3. job' \in Awaited
    BY <1>2, <2>2 DEF StartLoad, Awaited, Free
  <2>4. ParamsFollow'
    BY <1>2, <2>1 DEF IrInv, ParamsFollow, RefreshComes, StartLoad, storeVars
  <2>. QED  BY <1>2, <2>1, <2>3, <2>4 DEF IrInv, PlainType, TxIsAlone, StartLoad, storeVars
<1>3. CASE StartTransaction
  <2>1. queue' \in Seq(Jobs) /\ tx = None /\ ~busy
        /\ (RefreshWaits => RefreshWaits') /\ job.at # "params"
    BY <1>3, JobTaken DEF StartTransaction
  <2>2. ParamsFollow'
    BY <1>3, <2>1 DEF IrInv, ParamsFollow, RefreshComes, StartTransaction
  <2>3. CASE document # None /\ HasCommands
    <3>1. document \in Docs /\ job' = [at |-> "transaction"] /\ busy' = TRUE
          /\ tx' = NewTransaction(document) /\ UNCHANGED <<document, params, revision, switches>>
      BY <1>3, <2>3 DEF StartTransaction, IrInv, PlainType
    <3>2. tx' \in Works /\ tx'.base = document /\ Sound(tx)' /\ tx' # None
      BY <3>1, NewSound, NoneAssumption
    <3>3. job' \in Awaited
      BY <3>1 DEF Awaited
    <3>. QED  BY <2>1, <2>2, <3>1, <3>2, <3>3 DEF IrInv, PlainType, TxIsAlone
  <2>4. CASE ~(document # None /\ HasCommands)
    BY <1>3, <2>1, <2>2, <2>4 DEF IrInv, PlainType, TxIsAlone, StartTransaction
  <2>. QED  BY <2>3, <2>4
<1>. QED  BY <1>1, <1>2, <1>3

LEMMA JobDone ==
    ASSUME IrInv, \/ \E ok \in BOOLEAN : ParamsDone(ok)
                  \/ LoadDone \/ LoadFails
    PROVE  IrInv'
<1>0. tx = None /\ ~busy /\ job \in Awaited
  BY DEF IrInv, PlainType, TxIsAlone, ParamsDone, LoadDone, LoadFails
<1>1. ASSUME NEW ok \in BOOLEAN, ParamsDone(ok) PROVE IrInv'
  <2>1. job.doc \in Docs
    BY <1>0, <1>1 DEF ParamsDone, Awaited
  <2>2. job' \in Awaited /\ params' \in Docs \cup {None}
    BY <1>1, <2>1 DEF ParamsDone, Awaited, Free, IrInv, PlainType
  <2>3. ParamsFollow'
    <3>1. CASE document = job.doc
      BY <1>1, <2>1, <3>1, NoneAssumption DEF ParamsDone, ParamsFollow
    <3>2. CASE document # job.doc
      BY <1>1, <3>2 DEF ParamsDone, IrInv, ParamsFollow, RefreshComes, RefreshWaits
    <3>. QED  BY <3>1, <3>2
  <2>. QED  BY <1>0, <1>1, <2>2, <2>3 DEF ParamsDone, IrInv, PlainType, TxIsAlone
<1>2. CASE LoadDone
  <2>1. job.doc \in Docs
    BY <1>0, <1>2 DEF LoadDone, Awaited
  <2>2. ParamsFollow' /\ job' \in Awaited
    BY <1>2, <2>1, RefreshFollows, NoneAssumption DEF LoadDone, IrInv, PlainType
  <2>. QED  BY <1>0, <1>2, <2>1, <2>2 DEF LoadDone, IrInv, PlainType, TxIsAlone
<1>3. CASE LoadFails
  <2>1. job' \in Awaited /\ job.at # "params"
    BY <1>3 DEF LoadFails, Awaited, Free
  <2>. QED  BY <1>0, <1>3, <2>1 DEF LoadFails, IrInv, PlainType, TxIsAlone, ParamsFollow, RefreshComes,
                 RefreshWaits, storeVars
<1>. QED  BY <1>1, <1>2, <1>3

(* A transaction ends with its document, since nothing else changed it. *)
LEMMA EndsKeep ==
    ASSUME IrInv, tx # None, Ends
    PROVE  IrInv'
<1>0. job.at # "params" /\ document \in Docs /\ tx.base = document /\ switches \in Nat
  <2>1. tx \in Works /\ tx.base = document /\ job = [at |-> "transaction"]
    BY DEF IrInv, TxIsAlone
  <2>. QED  BY <2>1, WorkParts DEF IrInv, PlainType
<1>1. CASE Refuse
  <2>1. job' \in Awaited
    BY <1>1 DEF Refuse, Free, Awaited
  <2>. QED  BY <1>0, <1>1, <2>1 DEF Refuse, IrInv, PlainType, TxIsAlone, ParamsFollow, RefreshComes, RefreshWaits
<1>2. ASSUME NEW d, Prepared(tx, d), Commit(d), ~Refuse PROVE IrInv'
  <2>0. d \in Docs /\ d # None /\ busy' = FALSE /\ tx' = None /\ UNCHANGED <<params, switches, queue>>
    BY <1>0, <1>2, NoneAssumption DEF Prepared, Commit
  <2>1. CASE d = document
    <3>1. job' = Free /\ UNCHANGED <<document, revision>>
      BY <1>0, <1>2, <2>1 DEF Commit
    <3>2. job' \in Awaited
      BY <3>1 DEF Free, Awaited
    <3>. QED  BY <1>0, <2>0, <3>1, <3>2 DEF IrInv, PlainType, TxIsAlone, ParamsFollow, RefreshComes, RefreshWaits
  <2>2. CASE d # document
    <3>1. document' = d /\ revision' = revision + 1 /\ Refresh(d)
      BY <1>0, <1>2, <2>2 DEF Commit
    <3>2. ParamsFollow' /\ job' \in Awaited
      BY <1>0, <2>0, <3>1, RefreshFollows
    <3>3. PlainType'
      <4>1. revision \in Nat /\ switches \in Nat /\ params \in Docs \cup {None} /\ queue \in Seq(Jobs)
        BY DEF IrInv, PlainType
      <4>2. revision' \in Nat
        BY <3>1, <4>1
      <4>3. busy' \in BOOLEAN
        BY <2>0
      <4>. QED  BY <2>0, <3>1, <3>2, <4>1, <4>2, <4>3 DEF PlainType
    <3>4. TxIsAlone'
      BY <2>0 DEF TxIsAlone
    <3>. QED  BY <2>0, <3>2, <3>3, <3>4 DEF IrInv
  <2>. QED  BY <2>1, <2>2
<1>. QED  BY <1>1, <1>2 DEF Ends

(* Undo and redo, to a document *)
LEMMA RestoreKeeps ==
    ASSUME IrInv, NEW edit, NEW h, Restore(edit, h), document' \in Docs
    PROVE  IrInv'
<1> DEFINE j == [type |-> "refresh"]
<1>1. j \in Jobs /\ queue \in Seq(Jobs) /\ queue' = Append(queue, j) /\ j.type = "refresh"
  BY DEF Jobs, IrInv, PlainType, Restore
<1> HIDE DEF j
<1>2. queue' \in Seq(Jobs)
  BY <1>1
<1>3. RefreshWaits'
  <2>1. Len(queue) \in Nat /\ Len(queue) + 1 \in DOMAIN queue' /\ queue'[Len(queue) + 1] = j
    BY <1>1
  <2>. QED  BY <1>1, <2>1 DEF RefreshWaits
<1>4. tx = None
  BY DEF IrInv, TxIsAlone, Restore
<1>. QED  BY <1>2, <1>3, <1>4, NoneAssumption DEF IrInv, PlainType, TxIsAlone, ParamsFollow, RefreshComes, Restore

LEMMA SwitchKeeps ==
    ASSUME IrInv, SwitchEngine
    PROVE  IrInv'
BY DEF IrInv, PlainType, TxIsAlone, ParamsFollow, SwitchEngine, storeVars

-----------------------------------------------------------------------------
(* The undo history. *)

LEMMA StacksMean ==
    ASSUME StacksFit
    PROVE  /\ history.undo \in Seq(Transactions) /\ history.redo \in Seq(Transactions)
           /\ Past \in Seq(Docs) /\ IsPast(Past, history.undo, document)
           /\ Future \in Seq(Docs) /\ IsFuture(Future, history.redo, document)
<1>1. /\ Past \in [1..Len(history.undo) -> Docs] /\ IsPast(Past, history.undo, document)
      /\ Future \in [1..Len(history.redo) -> Docs] /\ IsFuture(Future, history.redo, document)
  BY DEF StacksFit, Past, Future
<1>2. history.undo \in Seq(Transactions) /\ history.redo \in Seq(Transactions)
  BY DEF StacksFit, Histories
<1>3. Len(history.undo) \in Nat /\ Len(history.redo) \in Nat
  BY <1>2
<1>4. Past \in Seq(Docs) /\ Future \in Seq(Docs)
  BY <1>1, <1>3
<1>. QED  BY <1>1, <1>2, <1>4

LEMMA StacksMeanNext ==
    ASSUME NEW p \in Seq(Docs), NEW f \in Seq(Docs), history' \in Histories,
           IsPast(p, history'.undo, document'), IsFuture(f, history'.redo, document')
    PROVE  StacksFit' /\ Past' = p /\ Future' = f
<1>1. history'.undo \in Seq(Transactions) /\ history'.redo \in Seq(Transactions)
  BY DEF Histories
<1>2. Past' = p /\ Future' = f
  BY <1>1, PastChosen, FutureChosen DEF Past, Future
<1>3. p \in [1..Len(history'.undo) -> Docs] /\ f \in [1..Len(history'.redo) -> Docs]
  BY DEF IsPast, IsFuture
<1>. QED  BY <1>2, <1>3 DEF StacksFit

LEMMA NoStacks ==
    /\ NoHistory \in Histories /\ ~NoHistory.sealed /\ <<>> \in Seq(Docs)
    /\ \A d : IsPast(<<>>, NoHistory.undo, d) /\ IsFuture(<<>>, NoHistory.redo, d)
<1>1. NoHistory.undo = <<>> /\ NoHistory.redo = <<>> /\ NoHistory.sealed = FALSE
  BY DEF NoHistory
<1>2. NoHistory \in Histories
  BY DEF NoHistory, Histories
<1>. QED  BY <1>1, <1>2 DEF IsPast, IsFuture

LEMMA HistoryInit ==
    ASSUME Init
    PROVE  StacksFit /\ Log!Init
<1>1. history = NoHistory /\ document = None
  BY DEF Init
<1>2. history.undo = <<>> /\ history.redo = <<>> /\ history.undo \in Seq(Transactions)
      /\ history.redo \in Seq(Transactions) /\ history.sealed = FALSE
  BY <1>1 DEF NoHistory
<1>3. StacksFit
  <2>1. <<>> \in [1..Len(history.undo) -> Docs] /\ <<>> \in [1..Len(history.redo) -> Docs]
    BY <1>2
  <2>. QED  BY <1>1, <2>1, NoStacks DEF StacksFit
<1>4. Past = <<>> /\ Future = <<>>
  BY <1>1, <1>2, NoStacks, PastChosen, FutureChosen DEF Past, Future
<1>. QED  BY <1>1, <1>2, <1>3, <1>4 DEF Log!Init

LEMMA HistoryUnchanged ==
    ASSUME StacksFit, UNCHANGED <<document, history>>
    PROVE  StacksFit' /\ UNCHANGED Log!vars
BY DEF StacksFit, Past, Future, Log!vars

LEMMA HistoryCleared ==
    ASSUME NEW d \in Docs, history' = NoHistory, document' = d
    PROVE  StacksFit' /\ Log!Clear(d)
<1>1. StacksFit' /\ Past' = <<>> /\ Future' = <<>>
  BY NoStacks, StacksMeanNext
<1>2. ~history'.sealed
  BY NoStacks
<1>. QED  BY <1>1, <1>2 DEF Log!Clear

LEMMA AllDifferences == Differences(Docs, Transactions)
<1>. SUFFICES ASSUME NEW b \in Docs, NEW a \in Docs, NEW key \in Keys \cup {NoKey}
              PROVE  Transaction(DiffText(b, a), key) \in Transactions
  BY DEF Differences
<1>1. DiffText(b, a) \in Edits
  BY DiffTurns, DocsAreTexts
<1>. QED  BY <1>1 DEF Transaction, Transactions

LEMMA HistoryRecorded ==
    ASSUME StacksFit, document \in Docs, NEW d \in Docs, d # document,
           history' \in Recorded(history, document, d, NoKey), document' = d
    PROVE  StacksFit' /\ (Log!Edit(d) \/ Log!Continue(d))
<1>1. /\ history \in Histories /\ history.undo \in Seq(Transactions)
      /\ Past \in Seq(Docs) /\ IsPast(Past, history.undo, document)
  BY StacksMean DEF StacksFit
<1>2. PICK p \in Seq(Docs) : p = Past /\ IsPast(p, history.undo, document)
  BY <1>1
<1>3. history' \in Histories /\ Extended(Docs, history, document, d, p, history')
  BY <1>1, <1>2, RecordMeans, AllDifferences, DocsAreTexts
<1>4. IsFuture(<<>>, history'.redo, document') /\ <<>> \in Seq(Docs)
  BY <1>3 DEF IsFuture, Extended
<1>5. PICK q \in Seq(Docs) :
        /\ IsPast(q, history'.undo, d)
        /\ q = Cut(Append(p, document)) \/ (~history.sealed /\ p # <<>> /\ q = Continued(p, d))
  BY <1>3 DEF Extended
<1>6. StacksFit' /\ Past' = q /\ Future' = <<>>
  BY <1>3, <1>4, <1>5, StacksMeanNext
<1>7. CASE q = Cut(Append(p, document))
  BY <1>2, <1>3, <1>6, <1>7 DEF Log!Edit, Log!Newest, Cut, Extended
<1>8. CASE ~history.sealed /\ p # <<>> /\ q = Continued(p, d)
  BY <1>2, <1>3, <1>6, <1>8 DEF Log!Continue, Log!Front, Log!Last, Front, Last, Continued, Extended
<1>. QED  BY <1>5, <1>6, <1>7, <1>8

LEMMA HistoryUndone ==
    ASSUME StacksFit, document \in Docs, Undo
    PROVE  StacksFit' /\ document' \in Docs /\ Log!Undo
<1>0. Transactions \in SUBSET Transactions
  OBVIOUS
<1>1. /\ history.undo # <<>> /\ history' = Undone(history)
      /\ document' = ApplyEdit(document, InvertEdit(Last(history.undo).edit))
      /\ history \in Histories
  BY DEF Undo, Restore, StacksFit
<1>2. PICK p \in Seq(Docs), f \in Seq(Docs) :
        /\ p = Past /\ IsPast(p, history.undo, document)
        /\ f = Future /\ IsFuture(f, history.redo, document)
        /\ history.undo \in Seq(Transactions) /\ history.redo \in Seq(Transactions)
  BY StacksMean
<1>3. /\ Undone(history) \in Histories /\ Undone(history).sealed = TRUE
      /\ p # <<>> /\ Front(p) \in Seq(Docs) /\ Last(p) \in Docs /\ Append(f, document) \in Seq(Docs)
      /\ Turns(Last(history.undo).edit, Last(p), document)
      /\ IsPast(Front(p), Undone(history).undo, Last(p))
      /\ IsFuture(Append(f, document), Undone(history).redo, Last(p))
  <2> DEFINE h == history
             d == document
  <2>1. /\ h \in Histories /\ h.undo \in Seq(Transactions) /\ h.redo \in Seq(Transactions)
        /\ d \in Docs /\ IsPast(p, h.undo, d) /\ IsFuture(f, h.redo, d) /\ h.undo # <<>>
    BY <1>1, <1>2
  <2> HIDE DEF h, d
  <2>2. Undone(h) \in Histories /\ Undone(h).sealed = TRUE
    BY ONLY <1>0, <2>1, p \in Seq(Docs), f \in Seq(Docs), UndoMeans, DocsAreTexts
  <2>3. p # <<>> /\ Turns(Last(h.undo).edit, Last(p), d)
    BY <2>1, PastPop
  <2>4. Front(p) \in Seq(Docs) /\ Last(p) \in Docs /\ Append(f, d) \in Seq(Docs)
    BY <2>1, <2>3, FrontLast
  <2>5. /\ IsPast(Front(p), Undone(h).undo, Last(p))
        /\ IsFuture(Append(f, d), Undone(h).redo, Last(p))
    BY ONLY <1>0, <2>1, p \in Seq(Docs), f \in Seq(Docs), UndoMeans, DocsAreTexts
  <2>. QED  BY <2>2, <2>3, <2>5, <2>4 DEF h, d
<1>4. document' = Last(p)
  BY <1>1, <1>3 DEF Turns
<1>5. StacksFit' /\ Past' = Front(p) /\ Future' = Append(f, document)
  BY <1>1, <1>3, <1>4, StacksMeanNext
<1>. QED  BY <1>1, <1>2, <1>3, <1>4, <1>5 DEF Log!Undo, Log!Front, Log!Last, Front, Last

LEMMA HistoryRedone ==
    ASSUME StacksFit, document \in Docs, Redo
    PROVE  StacksFit' /\ document' \in Docs /\ Log!Redo
<1>0. Transactions \in SUBSET Transactions
  OBVIOUS
<1>1. /\ history.redo # <<>> /\ history' = Redone(history)
      /\ document' = ApplyEdit(document, Last(history.redo).edit)
      /\ history \in Histories
  BY DEF Redo, Restore, StacksFit
<1>2. PICK p \in Seq(Docs), f \in Seq(Docs) :
        /\ p = Past /\ IsPast(p, history.undo, document)
        /\ f = Future /\ IsFuture(f, history.redo, document)
        /\ history.undo \in Seq(Transactions) /\ history.redo \in Seq(Transactions)
  BY StacksMean
<1>3. /\ Redone(history) \in Histories /\ Redone(history).sealed = TRUE
      /\ f # <<>> /\ Front(f) \in Seq(Docs) /\ Last(f) \in Docs /\ Append(p, document) \in Seq(Docs)
      /\ Turns(Last(history.redo).edit, document, Last(f))
      /\ IsPast(Append(p, document), Redone(history).undo, Last(f))
      /\ IsFuture(Front(f), Redone(history).redo, Last(f))
  <2> DEFINE h == history
             d == document
  <2>1. /\ h \in Histories /\ h.undo \in Seq(Transactions) /\ h.redo \in Seq(Transactions)
        /\ d \in Docs /\ IsPast(p, h.undo, d) /\ IsFuture(f, h.redo, d) /\ h.redo # <<>>
    BY <1>1, <1>2
  <2> HIDE DEF h, d
  <2>2. Redone(h) \in Histories /\ Redone(h).sealed = TRUE
    BY ONLY <1>0, <2>1, p \in Seq(Docs), f \in Seq(Docs), RedoMeans, DocsAreTexts
  <2>3. f # <<>> /\ Turns(Last(h.redo).edit, d, Last(f))
    BY <2>1, FuturePop
  <2>4. Front(f) \in Seq(Docs) /\ Last(f) \in Docs /\ Append(p, d) \in Seq(Docs)
    BY <2>1, <2>3, FrontLast
  <2>5. /\ IsPast(Append(p, d), Redone(h).undo, Last(f))
        /\ IsFuture(Front(f), Redone(h).redo, Last(f))
    BY ONLY <1>0, <2>1, p \in Seq(Docs), f \in Seq(Docs), RedoMeans, DocsAreTexts
  <2>. QED  BY <2>2, <2>3, <2>5, <2>4 DEF h, d
<1>4. document' = Last(f)
  BY <1>1, <1>3 DEF Turns
<1>5. StacksFit' /\ Past' = Append(p, document) /\ Future' = Front(f)
  BY <1>1, <1>3, <1>4, StacksMeanNext
<1>. QED  BY <1>1, <1>2, <1>3, <1>4, <1>5 DEF Log!Redo, Log!Front, Log!Last, Front, Last

(* The steps that leave the document and its history *)
Reads ==
    \/ \E j \in Jobs : Ask(j)
    \/ StartRefresh \/ StartLoad \/ LoadFails
    \/ \E ok \in BOOLEAN : ParamsDone(ok)
    \/ StartTransaction
    \/ \E o \in Ops : Call(o)
    \/ BeginOp \/ OpWrittenBack \/ OpDone \/ OpFails
    \/ \E how \in {"returned", "threw"} : CallbackSettles(how)
    \/ SwitchEngine

LEMMA StepCases ==
    ASSUME Next
    PROVE  Reads \/ LoadDone \/ (End \/ EndWrittenBack \/ EndFails) \/ Undo \/ Redo
<1>1. (\A d \in Loads : [type |-> "load", doc |-> d] \in Jobs) /\ [type |-> "transaction"] \in Jobs
  BY DocsAssumption DEF Jobs
<1>. QED  BY <1>1 DEF Next, Reads

LEMMA ReadsNothing ==
    ASSUME Reads
    PROVE  UNCHANGED <<document, history>>
BY DEF Reads, Ask, StartRefresh, StartLoad, LoadFails, ParamsDone, StartTransaction, Call, BeginOp,
   OpWrittenBack, OpDone, OpFails, CallbackSettles, SwitchEngine, GoesOn, storeVars

(* What may become of the document as a transaction goes on and ends *)
LEMMA EndCommits ==
    ASSUME IrInv, End \/ EndWrittenBack \/ EndFails
    PROVE  \/ UNCHANGED <<document, history>>
           \/ \E d \in Docs :
                /\ tx # None /\ document \in Docs /\ document' = d /\ d # document
                /\ history' \in Recorded(history, document, d, NoKey)
                /\ Prepared(tx, d) /\ tx.done = Len(tx.calls) /\ ~tx.failed
<1>1. tx # None /\ tx \in Works /\ tx.base = document /\ document \in Docs
  <2>1. tx # None
    BY EndsSo
  <2>2. tx \in Works /\ tx.base = document
    BY <2>1 DEF IrInv, TxIsAlone
  <2>. QED  BY <2>1, <2>2, WorkParts
<1>2. CASE Refuse \/ \E t : GoesOn(t)
  BY <1>2 DEF Refuse, GoesOn, storeVars
<1>3. ASSUME NEW d, Prepared(tx, d), Commit(d), tx.done = Len(tx.calls), ~tx.failed
      PROVE  \/ UNCHANGED <<document, history>>
             \/ /\ d \in Docs /\ document' = d /\ d # document
                /\ history' \in Recorded(history, document, d, NoKey)
  BY <1>1, <1>3 DEF Commit, Prepared
<1>4. (Refuse \/ \E t : GoesOn(t))
      \/ \E d : Prepared(tx, d) /\ tx.done = Len(tx.calls) /\ ~tx.failed /\ Commit(d)
  <2>1. Prepared(tx, tx.working) /\ Prepared(tx, WrittenBack(tx.working))
    BY <1>1, WorkParts, WriteBackFixes DEF Prepared, Fixed
  <2>2. Progress(tx)
    BY <1>1 DEF IrInv, Sound
  <2>. QED  BY <2>1, <2>2 DEF End, EndWrittenBack, EndFails, Closes, Progress
<1>. QED  BY <1>1, <1>2, <1>3, <1>4

LEMMA HistoryStep ==
    ASSUME IrInv, StacksFit, [Next]_vars
    PROVE  /\ StacksFit' /\ [Log!Next]_(Log!vars)
           /\ Undo \/ Redo => document' \in Docs
<1>1. ASSUME UNCHANGED <<document, history>>
      PROVE  StacksFit' /\ [Log!Next]_(Log!vars)
  BY <1>1, HistoryUnchanged
<1>2. document \in Docs \cup {None}
  BY DEF IrInv, PlainType
<1>3. Undo => StacksFit' /\ document' \in Docs /\ Log!Undo
  BY <1>2, HistoryUndone DEF Undo, Restore
<1>4. Redo => StacksFit' /\ document' \in Docs /\ Log!Redo
  BY <1>2, HistoryRedone DEF Redo, Restore
<1>. SUFFICES StacksFit' /\ [Log!Next]_(Log!vars)
  BY <1>3, <1>4
<1>5. CASE Reads
  BY <1>1, <1>5, ReadsNothing
<1>6. CASE LoadDone
  <2>1. job.doc \in Docs
    BY <1>6 DEF LoadDone, IrInv, PlainType, Awaited
  <2>. QED  BY <1>6, <2>1, HistoryCleared DEF LoadDone, Log!Next
<1>7. CASE End \/ EndWrittenBack \/ EndFails
  <2>1. ASSUME NEW d \in Docs, document \in Docs, document' = d, d # document,
               history' \in Recorded(history, document, d, NoKey)
        PROVE  StacksFit' /\ [Log!Next]_(Log!vars)
    <3>1. StacksFit' /\ (Log!Edit(d) \/ Log!Continue(d))
      BY <2>1, HistoryRecorded
    <3>. QED  BY <3>1 DEF Log!Next
  <2>. QED  BY <1>1, <1>7, <2>1, EndCommits
<1>8. CASE UNCHANGED vars
  BY <1>1, <1>8 DEF vars, storeVars
<1>. QED  BY <1>3, <1>4, <1>5, <1>6, <1>7, <1>8, StepCases DEF Log!Next

-----------------------------------------------------------------------------
(* The theorems. *)

LEMMA IrInit == ASSUME Init PROVE IrInv
<1>1. /\ document = None /\ revision = 0 /\ busy = FALSE /\ params = None /\ switches = 0
      /\ queue = <<>> /\ job = Free /\ tx = None
  BY DEF Init
<1>2. job \in Awaited /\ queue \in Seq(Jobs)
  BY <1>1 DEF Awaited, Free
<1>3. PlainType
  BY <1>1, <1>2 DEF PlainType
<1>4. TxIsAlone /\ ParamsFollow
  BY <1>1 DEF TxIsAlone, ParamsFollow
<1>. QED  BY <1>1, <1>3, <1>4 DEF IrInv

(* A transaction is alone with its document and is sound, and the parameters
   follow, in every reachable state. *)
THEOREM Invariance == Spec => [](IrInv /\ StacksFit)
<1>1. ASSUME IrInv, StacksFit, [Next]_vars
      PROVE  IrInv' /\ StacksFit'
  <2>1. StacksFit' /\ (Undo \/ Redo => document' \in Docs)
    BY <1>1, HistoryStep
  <2>. SUFFICES IrInv'
    BY <2>1
  <2>2. CASE Reads
    BY <1>1, <2>2, AskKeeps, StartKeeps, JobDone, TransactionKeeps, SwitchKeeps DEF Reads
  <2>3. CASE LoadDone
    BY <1>1, <2>3, JobDone
  <2>4. CASE End \/ EndWrittenBack \/ EndFails
    BY <1>1, <2>4, EndsSo, EndsKeep
  <2>5. CASE Undo \/ Redo
    BY <1>1, <2>1, <2>5, RestoreKeeps DEF Undo, Redo
  <2>6. CASE UNCHANGED vars
    BY <1>1, <2>6 DEF vars, storeVars, IrInv, PlainType, TxIsAlone, ParamsFollow, RefreshComes, RefreshWaits
  <2>. QED  BY <1>1, <2>1, <2>2, <2>3, <2>4, <2>5, <2>6, StepCases
<1>2. Init => IrInv /\ StacksFit
  BY IrInit, HistoryInit
<1>. QED  BY <1>1, <1>2, PTL DEF Spec

(* Every variable keeps its type. *)
THEOREM TypeCorrect == Spec => []TypeOK
<1>1. IrInv /\ StacksFit => TypeOK
  BY DEF IrInv, PlainType, StacksFit, TypeOK
<1>. QED  BY <1>1, Invariance, PTL

(* The parameters shown are the document's once the queue is empty
   (ir-doc-store.ts:78), while no engine is switched. *)
THEOREM ParamsCorrect == Spec => []ParamsAreCurrent
<1>1. IrInv => ParamsAreCurrent
  <2>1. SUFFICES ASSUME IrInv, switches = 0, queue = <<>>, job = Free
                 PROVE  params \in {document, None}
    BY DEF ParamsAreCurrent
  <2>2. job.at = "none"
    BY <2>1 DEF Free
  <2>3. ~RefreshComes
    BY <2>1, <2>2 DEF RefreshComes, RefreshWaits
  <2>. QED  BY <2>1, <2>3 DEF IrInv, ParamsFollow
<1>. QED  BY <1>1, Invariance, PTL

(* Loads, transactions, undos and redos are the steps of a log of whole documents,
   whatever is called while the engine works (ir-doc-store.ts:12-14). *)
THEOREM UndoCorrect == Spec => KeepsUndoLog
<1>1. Init => Log!Init
  BY HistoryInit
<1>2. IrInv /\ StacksFit /\ [Next]_vars => [Log!Next]_(Log!vars)
  BY HistoryStep
<1>. QED  BY <1>1, <1>2, Invariance, PTL DEF Spec, KeepsUndoLog, Log!Spec

(* A document that changes as the engine becomes free was prepared by all ops of the
   transaction. *)
LEMMA CommitStep ==
    ASSUME IrInv, [Next]_vars, Commits
    PROVE  /\ tx # None /\ tx \in Works /\ Sound(tx) /\ tx.base = document
           /\ Prepared(tx, document') /\ tx.done = Len(tx.calls) /\ ~tx.failed
<1>1. document' # document /\ busy /\ ~busy'
  BY DEF Commits
<1>2. tx # None /\ tx \in Works /\ Sound(tx) /\ tx.base = document /\ job.at = "transaction"
  BY <1>1 DEF IrInv, TxIsAlone
<1>3. ~Reads /\ ~UNCHANGED vars /\ ~LoadDone /\ ~Undo /\ ~Redo
  BY <1>1, <1>2, ReadsNothing DEF vars, storeVars, LoadDone, Undo, Redo, Restore
<1>4. End \/ EndWrittenBack \/ EndFails
  BY <1>3, StepCases
<1>. QED  BY <1>1, <1>2, <1>4, EndCommits

LEMMA SaysAll ==
    ASSUME NEW t \in Works, SaysLast(t), t.done = Len(t.calls)
    PROVE  t.working[1] = Says(t.base[1], t.calls)
<1> DEFINE edits == {i \in DOMAIN t.calls : t.calls[i].op = "edit"}
<1>1. DOMAIN t.calls = Settled(t) /\ t.done \in Nat
  BY WorkParts DEF Settled
<1>2. EditsOf(t) = edits /\ \A i \in edits : i \in Nat
  BY <1>1 DEF EditsOf, Settled
<1>3. CASE edits = {}
  BY <1>2, <1>3 DEF SaysLast, Says
<1>4. CASE edits # {}
  <2>1. PICK i \in edits : (\A j \in edits : j <= i) /\ t.working[1] = t.calls[i].to
    BY <1>2, <1>4 DEF SaysLast
  <2> DEFINE last == CHOOSE k \in edits : \A j \in edits : j <= k
  <2>2. last \in edits /\ \A j \in edits : j <= last
    BY <2>1
  <2>3. Says(t.base[1], t.calls) = t.calls[last].to
    BY <1>4 DEF Says
  <2> HIDE DEF last, edits
  <2>4. last = i
    BY <1>2, <2>1, <2>2
  <2>. QED  BY <2>1, <2>3, <2>4
<1>. QED  BY <1>3, <1>4

(* A transaction commits all of its ops or none, for any number of ops in any order,
   awaited or not (ir-doc-store.ts:8-11). *)
THEOREM CommitsCorrect == Spec => CommitsAreWhole
<1>1. ASSUME IrInv, [Next]_vars, Commits
      PROVE  /\ document'[1] = Says(document[1], tx.calls)
             /\ (\A i \in DOMAIN tx.calls : ~Captures(tx.calls[i])) => document'[3] = document[3]
  <2>1. /\ tx \in Works /\ Sound(tx) /\ tx.base = document /\ tx.done = Len(tx.calls) /\ ~tx.failed
        /\ document'[1] = tx.working[1] /\ document'[3] = tx.working[3]
    BY <1>1, CommitStep DEF Prepared
  <2>2. SaysLast(tx) /\ KeepsCapture(tx)
    BY <2>1 DEF Sound
  <2>3. DOMAIN tx.calls = Settled(tx)
    BY <2>1, WorkParts DEF Settled
  <2>4. (\A i \in DOMAIN tx.calls : ~Captures(tx.calls[i])) => CapturesOf(tx) = {}
    BY <2>3 DEF CapturesOf
  <2>. QED  BY <2>1, <2>2, <2>4, SaysAll DEF KeepsCapture
<1>. QED  BY <1>1, Invariance, PTL DEF Spec, CommitsAreWhole

(* A capture agrees with the geometry committed with it, unless an edit comes after
   it (ir-doc-store.ts:28-31). *)
THEOREM CapturesCorrect == Spec => CapturesAreStored
<1>1. ASSUME IrInv, [Next]_vars, Commits, AutoWriteBack,
             NEW i \in DOMAIN tx.calls, Captures(tx.calls[i]),
             \A j \in DOMAIN tx.calls : j > i => tx.calls[j].op # "edit"
      PROVE  document'[3] = document'[2]
  <2>1. /\ tx \in Works /\ Sound(tx) /\ tx.done = Len(tx.calls) /\ ~tx.failed
        /\ Fixed(tx.working) => document' = tx.working
    BY <1>1, CommitStep DEF Prepared
  <2>2. DOMAIN tx.calls = Settled(tx) /\ tx.done \in Nat
    BY <2>1, WorkParts DEF Settled
  <2>3. Captured(tx)
    <3>1. i \in CapturesOf(tx)
      BY <1>1, <2>2 DEF CapturesOf
    <3>2. \A j \in EditsOf(tx) : j <= i
      BY <1>1, <2>2 DEF EditsOf, Settled
    <3>. QED  BY <3>1, <3>2 DEF Captured
  <2>. QED  BY <1>1, <2>1, <2>3 DEF Sound, CaptureAgrees
<1>2. IrInv /\ [Next]_vars =>
        [(Commits /\ AutoWriteBack /\ \E i \in DOMAIN tx.calls :
            Captures(tx.calls[i]) /\ \A j \in DOMAIN tx.calls : j > i => tx.calls[j].op # "edit")
         => document'[3] = document'[2]]_vars
  BY <1>1
<1>. QED  BY <1>2, Invariance, PTL DEF Spec, CapturesAreStored

(***************************************************************************)
(* Finite sets, their strict orders, and induction on a number: were n not *)
(* in S, moving each member below it up by one would be one-to-one into a  *)
(* smaller set.                                                            *)
(***************************************************************************)
LEMMA Induction ==
    ASSUME NEW n \in Nat, NEW S, 0 \in S, \A i \in 0 .. n - 1 : i \in S => i + 1 \in S
    PROVE  n \in S
<1> SUFFICES ASSUME n \notin S PROVE FALSE
  OBVIOUS
<1> DEFINE T == S \cap 0 .. n
           up == [i \in T |-> i + 1]
<1>1. IsFiniteSet(T) /\ 0 \in T
  <2>1. IsFiniteSet(0 .. n)
    BY FS_Interval
  <2> QED BY <2>1, FS_Subset
<1>2. /\ IsFiniteSet(T \ {0}) /\ Cardinality(T \ {0}) = Cardinality(T) - 1
      /\ Cardinality(T) \in Nat
  BY <1>1, FS_RemoveElement, FS_CardinalityType
<1>3. up \in Injection(T, T \ {0})
  <2>1. \A i \in T : i + 1 \in T \ {0}
    OBVIOUS
  <2>2. \A i, k \in T : up[i] = up[k] => i = k
    OBVIOUS
  <2> QED BY <2>1, <2>2 DEF Injection, IsInjective
<1>4. Cardinality(T) <= Cardinality(T \ {0})
  BY <1>2, <1>3, FS_Injection
<1> QED BY <1>2, <1>4

\* R orders S strictly and totally.
Orders(R, S) ==
    /\ \A x \in S : <<x, x>> \notin R
    /\ \A x, y, z \in S : <<x, y>> \in R /\ <<y, z>> \in R => <<x, z>> \in R
    /\ \A x, y \in S : x # y => <<x, y>> \in R \/ <<y, x>> \in R
Under(R, S, x) == {y \in S : <<y, x>> \in R}
Rank(R, S, x) == Cardinality(Under(R, S, x))

\* What is below x is below what x is below, and x with it.
LEMMA RankGrows ==
    ASSUME NEW S, IsFiniteSet(S), NEW R, Orders(R, S), NEW x \in S, NEW y \in S, <<x, y>> \in R
    PROVE  Rank(R, S, x) < Rank(R, S, y)
<1>1. Under(R, S, x) \cup {x} \in SUBSET Under(R, S, y) /\ x \notin Under(R, S, x)
  BY DEF Orders, Under
<1>2. IsFiniteSet(Under(R, S, x)) /\ IsFiniteSet(Under(R, S, y))
  BY FS_Subset DEF Under
<1>3. Cardinality(Under(R, S, x) \cup {x}) = Cardinality(Under(R, S, x)) + 1
  BY <1>1, <1>2, FS_AddElement
<1>4. Cardinality(Under(R, S, x) \cup {x}) <= Cardinality(Under(R, S, y))
  BY <1>1, <1>2, FS_Subset
<1>5. Cardinality(Under(R, S, x)) \in Nat /\ Cardinality(Under(R, S, y)) \in Nat
  BY <1>2, FS_CardinalityType
<1> QED BY <1>3, <1>4, <1>5 DEF Rank

\* The ranks of the members of S are the numbers below its size, each once.
LEMMA Ranks ==
    ASSUME NEW S, IsFiniteSet(S), NEW R, Orders(R, S)
    PROVE  /\ Cardinality(S) \in Nat
           /\ \A x \in S : Rank(R, S, x) \in 0 .. Cardinality(S) - 1
           /\ \A x, y \in S : Rank(R, S, x) = Rank(R, S, y) => x = y
           /\ \A k \in 1 .. Cardinality(S) : \E x \in S : Rank(R, S, x) = k - 1
<1> DEFINE n == Cardinality(S)
           rank == [x \in S |-> Rank(R, S, x)]
<1>1. n \in Nat
  BY FS_CardinalityType
<1>2. ASSUME NEW x \in S PROVE Rank(R, S, x) \in 0 .. n - 1
  <2>1. Under(R, S, x) \in SUBSET S /\ Under(R, S, x) \in SUBSET (S \ {x})
    BY DEF Orders, Under
  <2>2. IsFiniteSet(S \ {x}) /\ Cardinality(S \ {x}) = n - 1
    BY FS_RemoveElement
  <2>3. Cardinality(Under(R, S, x)) <= n - 1 /\ IsFiniteSet(Under(R, S, x))
    BY <2>1, <2>2, FS_Subset
  <2>4. Cardinality(Under(R, S, x)) \in Nat
    BY <2>3, FS_CardinalityType
  <2> QED BY <1>1, <2>3, <2>4 DEF Rank
<1>3. ASSUME NEW x \in S, NEW y \in S, Rank(R, S, x) = Rank(R, S, y) PROVE x = y
  <2>1. <<x, y>> \notin R /\ <<y, x>> \notin R
    BY <1>1, <1>2, <1>3, RankGrows
  <2> QED BY <2>1 DEF Orders
<1>4. rank \in Injection(S, 0 .. n - 1)
  BY <1>2, <1>3 DEF Injection, IsInjective
<1>5. IsFiniteSet(0 .. n - 1) /\ Cardinality(0 .. n - 1) = n
  BY <1>1, FS_Interval
<1>6. rank \in Surjection(S, 0 .. n - 1)
  BY <1>4, <1>5, FS_Injection
<1>7. ASSUME NEW k \in 1 .. n PROVE \E x \in S : Rank(R, S, x) = k - 1
  <2>1. k - 1 \in 0 .. n - 1
    BY <1>1
  <2> QED BY <1>6, <2>1 DEF Surjection
<1> QED BY <1>1, <1>2, <1>3, <1>7

\* The first of a finite set.
LEMMA FirstIs ==
    ASSUME NEW S, IsFiniteSet(S), NEW R, Orders(R, S), S # {}
    PROVE  \E x \in S : \A y \in S \ {x} : <<x, y>> \in R
<1> DEFINE n == Cardinality(S)
<1>1. n \in Nat /\ n # 0
  BY FS_CardinalityType, FS_EmptySet
<1>2. \A k \in 1 .. n : \E x \in S : Rank(R, S, x) = k - 1
  BY Ranks
<1>3. 1 \in 1 .. n /\ 1 - 1 = 0
  BY <1>1
<1>4. PICK x \in S : Rank(R, S, x) = 0
  <2> HIDE DEF n
  <2> QED BY <1>2, <1>3
<1>5. ASSUME NEW y \in S \ {x} PROVE <<x, y>> \in R
  <2>1. SUFFICES ASSUME <<y, x>> \in R PROVE FALSE
    BY <1>5 DEF Orders
  <2>2. Rank(R, S, y) < Rank(R, S, x) /\ Rank(R, S, y) \in 0 .. n - 1
    BY <2>1, RankGrows, Ranks
  <2> QED BY <1>4, <2>2
<1> QED BY <1>5

(***************************************************************************)
(* The canonical order of the faces of a scope.                            *)
(***************************************************************************)
Before(S) == {p \in S \X S : Precedes(p[1], p[2])}

\* Two faces of a well-formed part are always told apart,
LEMMA PrecedesOrders ==
    ASSUME NEW sc, WellFormed(sc)
    PROVE  /\ \A x \in sc.faces : ~Precedes(x, x)
           /\ \A x, y, z \in sc.faces : Precedes(x, y) /\ Precedes(y, z) => Precedes(x, z)
           /\ \A x, y \in sc.faces : x # y => Precedes(x, y) \/ Precedes(y, x)
<1>1. \A x \in sc.faces : /\ x.key[1] \in Int /\ x.key[2] \in Int /\ x.key = <<x.key[1], x.key[2]>>
                          /\ x.body \in Int /\ x.carrier[2] \in Int /\ x.lo \in Int /\ x.hi \in Int
  BY DEF WellFormed
<1>2. ASSUME NEW x \in sc.faces PROVE ~Precedes(x, x)
  BY <1>1 DEF Precedes, KeyBefore, Centroid
<1>3. ASSUME NEW x \in sc.faces, NEW y \in sc.faces, NEW z \in sc.faces, Precedes(x, y), Precedes(y, z)
      PROVE  Precedes(x, z)
  BY <1>1, <1>3 DEF Precedes, KeyBefore, Centroid
<1>4. ASSUME NEW x \in sc.faces, NEW y \in sc.faces, x # y, ~Precedes(x, y)
      PROVE  Precedes(y, x)
  <2>0. /\ x.key[1] \in Int /\ x.key[2] \in Int /\ x.key = <<x.key[1], x.key[2]>>
        /\ y.key[1] \in Int /\ y.key[2] \in Int /\ y.key = <<y.key[1], y.key[2]>>
        /\ x.body \in Int /\ x.carrier[2] \in Int /\ x.lo \in Int /\ x.hi \in Int
        /\ y.body \in Int /\ y.carrier[2] \in Int /\ y.lo \in Int /\ y.hi \in Int
    BY <1>1
  <2>1. CASE x.key # y.key
    BY <1>4, <2>0, <2>1 DEF Precedes, KeyBefore
  <2>2. CASE x.key = y.key
    <3>1. ~(x.body = y.body /\ Centroid(x) = Centroid(y))
      BY <1>4, <2>2 DEF WellFormed
    <3> QED BY <1>4, <2>0, <2>2, <3>1 DEF Precedes, Centroid
  <2> QED BY <2>1, <2>2
<1> QED BY <1>2, <1>3, <1>4

\* so that the faces of any set are in a strict total order.
LEMMA BeforeOrders ==
    ASSUME NEW sc, WellFormed(sc), NEW S \in SUBSET sc.faces
    PROVE  Orders(Before(S), S) /\ IsFiniteSet(S) /\ Cardinality(S) \in Nat
<1>1. \A x, y \in S : <<x, y>> \in Before(S) <=> Precedes(x, y)
  BY DEF Before
<1>2. IsFiniteSet(S) /\ Cardinality(S) \in Nat
  BY FS_Subset, FS_CardinalityType DEF WellFormed
<1>3. /\ \A x \in S : ~Precedes(x, x)
      /\ \A x, y, z \in S : Precedes(x, y) /\ Precedes(y, z) => Precedes(x, z)
      /\ \A x, y \in S : x # y => Precedes(x, y) \/ Precedes(y, x)
  BY PrecedesOrders
<1> QED BY <1>1, <1>2, <1>3 DEF Orders

\* Canonical lists each face once, in the order.
LEMMA CanonicalLists ==
    ASSUME NEW sc, WellFormed(sc), NEW S \in SUBSET sc.faces
    PROVE  /\ Cardinality(S) \in Nat
           /\ DOMAIN Canonical(S) = 1 .. Cardinality(S)
           /\ \A i \in 1 .. Cardinality(S) : Canonical(S)[i] \in S
           /\ \A x \in S : \E i \in 1 .. Cardinality(S) : Canonical(S)[i] = x
           /\ \A i, j \in 1 .. Cardinality(S) :
                /\ Canonical(S)[i] = Canonical(S)[j] => i = j
                /\ Precedes(Canonical(S)[i], Canonical(S)[j]) => i < j
<1> DEFINE n == Cardinality(S)
           R == Before(S)
           s == Canonical(S)
<1>1. Orders(R, S) /\ IsFiniteSet(S) /\ n \in Nat
  BY BeforeOrders
<1>2. /\ \A x \in S : Rank(R, S, x) \in 0 .. n - 1
      /\ \A x, y \in S : Rank(R, S, x) = Rank(R, S, y) => x = y
      /\ \A k \in 1 .. n : \E x \in S : Rank(R, S, x) = k - 1
  BY <1>1, Ranks
<1>3. \A x \in S : {y \in S : Precedes(y, x)} = Under(R, S, x)
  BY DEF Under, Before
<1>4. DOMAIN s = 1 .. n
  BY DEF Canonical, InOrder
<1>5. ASSUME NEW i \in 1 .. n PROVE s[i] \in S /\ Rank(R, S, s[i]) = i - 1
  <2>1. s[i] = CHOOSE x \in S : Cardinality({y \in S : Precedes(y, x)}) = i - 1
    BY DEF Canonical, InOrder
  <2>2. \E x \in S : Cardinality({y \in S : Precedes(y, x)}) = i - 1
    BY <1>2, <1>3 DEF Rank
  <2>3. s[i] \in S /\ Cardinality({y \in S : Precedes(y, s[i])}) = i - 1
    <3> HIDE DEF s
    <3> QED BY <2>1, <2>2
  <2> QED BY <1>3, <2>3 DEF Rank
<1>6. ASSUME NEW x \in S PROVE \E i \in 1 .. n : s[i] = x
  <2> DEFINE i == Rank(R, S, x) + 1
  <2>1. i \in 1 .. n /\ i - 1 = Rank(R, S, x)
    BY <1>1, <1>2
  <2>2. s[i] = x
    BY <1>2, <1>5, <2>1
  <2> QED BY <2>1, <2>2
<1>7. ASSUME NEW i \in 1 .. n, NEW j \in 1 .. n PROVE s[i] = s[j] => i = j
  BY <1>1, <1>5
<1>8. ASSUME NEW i \in 1 .. n, NEW j \in 1 .. n, Precedes(s[i], s[j]) PROVE i < j
  <2>1. <<s[i], s[j]>> \in R
    BY <1>5, <1>8 DEF Before
  <2>2. Rank(R, S, s[i]) < Rank(R, S, s[j])
    BY <1>1, <1>5, <2>1, RankGrows
  <2> QED BY <1>1, <1>5, <2>2
<1> QED BY <1>1, <1>4, <1>5, <1>6, <1>7, <1>8

(***************************************************************************)
(* The builder.  A step either fails, and then the resolution has failed,  *)
(* or it only adds: faces, warnings, dropped members; a face that was      *)
(* repaired or is a piece of a split stays one or the other.               *)
(***************************************************************************)
IsBuilder(b) ==
    b = [used |-> b.used, consumed |-> b.consumed, fail |-> b.fail,
         unresolved |-> b.unresolved, split |-> b.split, repaired |-> b.repaired,
         splits |-> b.splits, dropped |-> b.dropped, warnings |-> b.warnings]

SoundSoFar(c, b) ==
    /\ b.unresolved = <<>>
    /\ b.consumed = Faces(b.used)
    /\ Faces(b.used) \subseteq c.sc.faces
    /\ \A u \in b.used : u.via = "named"
    /\ b.dropped \in Nat

MarkedFace(b, f) == \E u \in b.used : u.face = f /\ u.status \in {"repaired", "split"}

Grows(b, n) ==
    /\ Faces(b.used) \subseteq Faces(n.used)
    /\ b.dropped <= n.dropped
    /\ b.warnings \subseteq n.warnings
    /\ \A f \in Faces(b.used) : MarkedFace(b, f) => MarkedFace(n, f)

Fit(c, b) == IsBuilder(b) /\ (b.fail = "none" => SoundSoFar(c, b))

Follows(c, b, n) == Fit(c, n) /\ (n.fail = "none" => b.fail = "none" /\ Grows(b, n))

InContext(c) == WellFormed(c.sc) /\ c.all \subseteq c.sc.faces /\ c.rejected = FALSE

\* Doing nothing is a step,
LEMMA FollowsItself ==
    ASSUME NEW c, NEW b, Fit(c, b)
    PROVE  Follows(c, b, b)
BY DEF Follows, Fit, Grows, SoundSoFar

\* and two steps are one.
LEMMA FollowsOn ==
    ASSUME NEW c, NEW b, NEW n, NEW o, Fit(c, b), Follows(c, b, n), Follows(c, n, o)
    PROVE  Follows(c, b, o)
<1> SUFFICES ASSUME o.fail = "none" PROVE Grows(b, o) /\ b.fail = "none"
  BY DEF Follows
<1>1. /\ n.fail = "none" /\ b.fail = "none" /\ Grows(b, n) /\ Grows(n, o)
      /\ SoundSoFar(c, b) /\ SoundSoFar(c, n) /\ SoundSoFar(c, o)
  BY DEF Follows, Fit
<1>2. b.dropped <= o.dropped
  BY <1>1 DEF Grows, SoundSoFar
<1> QED BY <1>1, <1>2 DEF Grows

\* The empty builder, before the first key.
LEMMA EmptyFits ==
    ASSUME NEW c
    PROVE  Fit(c, Empty) /\ Empty.fail = "none" /\ Empty.used = {} /\ Empty.dropped = 0
           /\ Empty.warnings = {}
BY DEF Fit, IsBuilder, SoundSoFar, Empty, Faces

\* What is unresolved fails.
LEMMA UnresolvedFails ==
    ASSUME NEW b, IsBuilder(b), NEW key, NEW candidates, NEW code, code # "none"
    PROVE  /\ IsBuilder(Unresolved(b, key, candidates, code))
           /\ Unresolved(b, key, candidates, code).fail # "none"
<1> DEFINE n == Unresolved(b, key, candidates, code)
<1>1. n = [used |-> b.used, consumed |-> b.consumed,
           fail |-> IF b.fail = "none" THEN code ELSE b.fail,
           unresolved |-> Append(b.unresolved,
               [key |-> key, candidates |-> FirstOf(candidates, MaxCandidates)]),
           split |-> b.split, repaired |-> b.repaired,
           splits |-> b.splits, dropped |-> b.dropped, warnings |-> b.warnings]
  <2> DEFINE entry == [key |-> key, candidates |-> FirstOf(candidates, MaxCandidates)]
             failed == IF b.fail = "none" THEN code ELSE b.fail
             more == Append(b.unresolved, entry)
  <2>1. n = [b EXCEPT !.unresolved = more, !.fail = failed]
    BY DEF Unresolved
  <2> HIDE DEF more, failed, n
  <2>2. n = [used |-> b.used, consumed |-> b.consumed, fail |-> failed, unresolved |-> more,
             split |-> b.split, repaired |-> b.repaired,
             splits |-> b.splits, dropped |-> b.dropped, warnings |-> b.warnings]
    BY <2>1 DEF IsBuilder
  <2> QED BY <2>2 DEF more, failed
<1> HIDE DEF n
<1>2. IsBuilder(n) /\ n.fail # "none"
  BY <1>1 DEF IsBuilder
<1> QED BY <1>2 DEF n

\* A step may always fail.
LEMMA UnresolvedFollows ==
    ASSUME NEW c, NEW b, IsBuilder(b), NEW key, NEW candidates, NEW code, code # "none"
    PROVE  /\ Follows(c, b, Unresolved(b, key, candidates, code))
           /\ Unresolved(b, key, candidates, code).fail # "none"
BY UnresolvedFails DEF Follows, Fit

\* A face that is put replaces what was used of it before.
LEMMA PutAdds ==
    ASSUME NEW used, NEW f, NEW via, NEW status
    PROVE  /\ Faces(Put(used, f, via, status)) = Faces(used) \cup {f}
           /\ \A u \in used : u.face # f => u \in Put(used, f, via, status)
           /\ \E u \in Put(used, f, via, status) :
                u.face = f /\ u.via = via /\ u.status = status
           /\ \A u \in Put(used, f, via, status) : u \in used \/ (u.face = f /\ u.via = via)
<1> DEFINE n == [face |-> f, via |-> via, status |-> status]
<1>1. Put(used, f, via, status) = {u \in used : u.face # f} \cup {n}
  BY DEF Put
<1>2. n.face = f /\ n.via = via /\ n.status = status
  OBVIOUS
<1> QED BY <1>1, <1>2 DEF Faces

\* A face is taken, with pieces of its own, unless there may be one face only.
LEMMA SplitFollows ==
    ASSUME NEW c, NEW b, Fit(c, b), NEW m, NEW anchor, NEW pieces \in SUBSET c.sc.faces,
           NEW card, NEW captured, NEW n, n = Split(b, m, anchor, pieces, card, captured)
    PROVE  /\ Follows(c, b, n)
           /\ n.fail = "none" => /\ card # One /\ pieces \subseteq Faces(n.used)
                                 /\ n.dropped = b.dropped
<1> DEFINE taken == [b EXCEPT !.split = TRUE, !.consumed = @ \cup pieces]
           kept == {u \in b.used : u.face \notin pieces}
           order == PiecesInOrder(pieces, anchor)
           new == {[face |-> p, via |-> "named", status |-> "split"] : p \in pieces}
<1>1. taken = [used |-> b.used, consumed |-> b.consumed \cup pieces, fail |-> b.fail,
               unresolved |-> b.unresolved, split |-> TRUE, repaired |-> b.repaired,
               splits |-> b.splits, dropped |-> b.dropped, warnings |-> b.warnings]
  <2> DEFINE more == b.consumed \cup pieces
  <2>1. taken = [b EXCEPT !.split = TRUE, !.consumed = more]
    OBVIOUS
  <2> HIDE DEF kept, order, new, more, taken
  <2>2. taken = [used |-> b.used, consumed |-> more, fail |-> b.fail,
                 unresolved |-> b.unresolved, split |-> TRUE, repaired |-> b.repaired,
                 splits |-> b.splits, dropped |-> b.dropped, warnings |-> b.warnings]
    BY <2>1 DEF Fit, IsBuilder
  <2> QED BY <2>2 DEF more
<1> HIDE DEF taken
<1>2. IsBuilder(taken)
  BY <1>1 DEF IsBuilder
<1>3. CASE card = One
  <2>1. n = Unresolved(taken, m.key, order, "REF_SPLIT")
    BY <1>3 DEF Split, taken
  <2>2. IsBuilder(n) /\ n.fail # "none"
    BY <1>2, <2>1, UnresolvedFails
  <2> QED BY <2>2 DEF Follows, Fit
<1>4. CASE card # One
  <2>1. n = [Warn(taken, "REF_SPLIT_ACCEPTED") EXCEPT !.used = kept \cup new,
                !.splits = Append(@, [key |-> m.key, pieces |-> order, captured |-> captured])]
    BY <1>4 DEF Split, taken
  <2>2. n = [used |-> kept \cup new, consumed |-> b.consumed \cup pieces, fail |-> b.fail,
             unresolved |-> b.unresolved, split |-> TRUE, repaired |-> b.repaired,
             splits |-> Append(b.splits, [key |-> m.key, pieces |-> order, captured |-> captured]),
             dropped |-> b.dropped, warnings |-> b.warnings \cup {"REF_SPLIT_ACCEPTED"}]
    <3> HIDE DEF kept, new, order
    <3> QED BY <1>1, <2>1 DEF Warn
  <2>3. IsBuilder(n)
    <3> HIDE DEF kept, new, order
    <3> QED BY <2>2 DEF IsBuilder
  <2>4. /\ n.fail = b.fail /\ n.used = kept \cup new /\ n.consumed = b.consumed \cup pieces
        /\ n.dropped = b.dropped /\ b.warnings \subseteq n.warnings /\ n.unresolved = b.unresolved
    <3> HIDE DEF kept, new, order
    <3> QED BY <2>2
  <2>5. \A u \in new : u.face \in pieces /\ u.via = "named" /\ u.status = "split"
    OBVIOUS
  <2>6. \A p \in pieces : \E u \in new : u.face = p
    <3>1. ASSUME NEW p \in pieces PROVE \E u \in new : u.face = p
      <4>1. [face |-> p, via |-> "named", status |-> "split"] \in new
        OBVIOUS
      <4> QED BY <4>1
    <3> QED BY <3>1
  <2> HIDE DEF new
  <2>7. Faces(n.used) = Faces(b.used) \cup pieces
    BY <2>4, <2>5, <2>6 DEF Faces
  <2>8. ASSUME b.fail = "none" PROVE SoundSoFar(c, n) /\ Grows(b, n)
    <3>1. SoundSoFar(c, b)
      BY <2>8 DEF Fit
    <3>2. SoundSoFar(c, n)
      BY <2>4, <2>5, <2>7, <3>1 DEF SoundSoFar
    <3>3. ASSUME NEW f \in Faces(b.used), MarkedFace(b, f) PROVE MarkedFace(n, f)
      BY <2>4, <2>5, <2>6, <3>3 DEF MarkedFace
    <3> QED BY <2>4, <2>7, <3>1, <3>2, <3>3 DEF Grows, SoundSoFar
  <2> QED BY <1>4, <2>3, <2>4, <2>7, <2>8 DEF Follows, Fit
<1> QED BY <1>3, <1>4

\* A face in the very place of a captured member is taken for it.
LEMMA RepairFollows ==
    ASSUME NEW c, InContext(c), NEW b, Fit(c, b), NEW m, NEW f \in c.sc.faces, NEW n, n = Repair(c, b, m, f)
    PROVE  /\ Follows(c, b, n)
           /\ n.fail = "none" => f \in Faces(n.used) /\ MarkedFace(n, f)
<1> DEFINE used == Put(b.used, f, "named", "repaired")
<1>1. n = [used |-> used, consumed |-> b.consumed \cup {f}, fail |-> b.fail,
           unresolved |-> b.unresolved, split |-> b.split, repaired |-> TRUE,
           splits |-> b.splits, dropped |-> b.dropped,
           warnings |-> b.warnings \cup {"REF_REPAIRED"}]
  <2>1. n = [Warn(b, "REF_REPAIRED") EXCEPT !.repaired = TRUE, !.used = Put(@, f, "named", "repaired"),
                !.consumed = @ \cup {f}]
    BY DEF Repair, InContext
  <2> QED BY <2>1 DEF Fit, IsBuilder, Warn
<1>2. /\ Faces(used) = Faces(b.used) \cup {f}
      /\ \A u \in b.used : u.face # f => u \in used
      /\ \E u \in used : u.face = f /\ u.via = "named" /\ u.status = "repaired"
      /\ \A u \in used : u \in b.used \/ (u.face = f /\ u.via = "named")
  BY PutAdds
<1> HIDE DEF used
<1>3. IsBuilder(n)
  BY <1>1 DEF IsBuilder
<1>4. /\ n.fail = b.fail /\ n.used = used /\ n.consumed = b.consumed \cup {f}
      /\ n.dropped = b.dropped /\ b.warnings \subseteq n.warnings /\ n.unresolved = b.unresolved
  BY <1>1
<1>5. MarkedFace(n, f)
  BY <1>2, <1>4 DEF MarkedFace
<1>6. ASSUME b.fail = "none" PROVE SoundSoFar(c, n) /\ Grows(b, n)
  <2>1. SoundSoFar(c, b)
    BY <1>6 DEF Fit
  <2>2. SoundSoFar(c, n)
    BY <1>2, <1>4, <2>1 DEF SoundSoFar
  <2>3. ASSUME NEW g \in Faces(b.used), MarkedFace(b, g) PROVE MarkedFace(n, g)
    BY <1>2, <1>4, <1>5, <2>3 DEF MarkedFace
  <2> QED BY <1>2, <1>4, <2>1, <2>2, <2>3 DEF Grows, SoundSoFar
<1> QED BY <1>2, <1>3, <1>4, <1>5, <1>6 DEF Follows, Fit

\* A face that carries the key is taken as it is, unless it was taken for another member.
LEMMA ValidatedFollows ==
    ASSUME NEW c, NEW b, Fit(c, b), NEW m, NEW f \in c.sc.faces, NEW n, n = Validated(c, b, m, f)
    PROVE  /\ Follows(c, b, n)
           /\ n.fail = "none" =>
                /\ f \in Faces(n.used) /\ n.dropped = b.dropped
                /\ f.key = m.key /\ Type(f) = m.carrier[1] /\ ~(Neighbors(c.sc, f) < m.neighbors)
                     => n.warnings = b.warnings
<1> DEFINE merged == IF f.key # m.key THEN {"REF_MERGED"} ELSE {}
           changed == IF Type(f) # m.carrier[1] THEN {"REF_KIND_CHANGED"}
                      ELSE IF Neighbors(c.sc, f) < m.neighbors
                      THEN {"REF_NEIGHBORHOOD_CHANGED"} ELSE {}
           status == IF "REF_KIND_CHANGED" \in changed THEN "kind_changed"
                     ELSE IF changed # {} THEN "neighborhood_changed"
                     ELSE IF merged # {} THEN "merged" ELSE "exact"
           told == [b EXCEPT !.warnings = @ \cup merged \cup changed]
<1>1. told = [used |-> b.used, consumed |-> b.consumed, fail |-> b.fail,
              unresolved |-> b.unresolved, split |-> b.split, repaired |-> b.repaired,
              splits |-> b.splits, dropped |-> b.dropped, warnings |-> b.warnings \cup merged \cup changed]
  <2> HIDE DEF merged, changed
  <2> QED BY DEF Fit, IsBuilder
<1>2. IsBuilder(told)
  <2> HIDE DEF told, merged, changed
  <2> QED BY <1>1 DEF IsBuilder
<1>3. f.key = m.key /\ Type(f) = m.carrier[1] /\ ~(Neighbors(c.sc, f) < m.neighbors)
        => merged = {} /\ changed = {}
  OBVIOUS
<1>4. n = IF \E u \in b.used : u.face = f /\ u.status \in {"repaired", "split"}
          THEN Unresolved(told, m.key, <<f>>, "REF_AMBIGUOUS")
          ELSE [told EXCEPT !.used = Put(@, f, "named", status), !.consumed = @ \cup {f}]
  BY DEF Validated
<1> HIDE DEF told, merged, changed, status
<1>5. CASE MarkedFace(b, f)
  <2>1. n = Unresolved(told, m.key, <<f>>, "REF_AMBIGUOUS")
    BY <1>4, <1>5 DEF MarkedFace
  <2>2. IsBuilder(n) /\ n.fail # "none"
    BY <1>2, <2>1, UnresolvedFails
  <2> QED BY <2>2 DEF Follows, Fit
<1>6. CASE ~MarkedFace(b, f)
  <2> DEFINE used == Put(b.used, f, "named", status)
  <2>1. n = [used |-> used, consumed |-> b.consumed \cup {f}, fail |-> b.fail,
             unresolved |-> b.unresolved, split |-> b.split, repaired |-> b.repaired,
             splits |-> b.splits, dropped |-> b.dropped, warnings |-> b.warnings \cup merged \cup changed]
    BY <1>1, <1>4, <1>6 DEF MarkedFace
  <2>2. /\ Faces(used) = Faces(b.used) \cup {f}
        /\ \A u \in b.used : u.face # f => u \in used
        /\ \A u \in used : u \in b.used \/ (u.face = f /\ u.via = "named")
    BY PutAdds
  <2> HIDE DEF used
  <2>3. IsBuilder(n)
    BY <2>1 DEF IsBuilder
  <2>4. /\ n.fail = b.fail /\ n.used = used /\ n.consumed = b.consumed \cup {f}
        /\ n.dropped = b.dropped /\ n.unresolved = b.unresolved
        /\ n.warnings = b.warnings \cup merged \cup changed
    BY <2>1
  <2>5. ASSUME b.fail = "none" PROVE SoundSoFar(c, n) /\ Grows(b, n)
    <3>1. SoundSoFar(c, b)
      BY <2>5 DEF Fit
    <3>2. SoundSoFar(c, n)
      BY <2>2, <2>4, <3>1 DEF SoundSoFar
    <3>3. ASSUME NEW g \in Faces(b.used), MarkedFace(b, g) PROVE MarkedFace(n, g)
      BY <1>6, <2>2, <2>4, <3>3 DEF MarkedFace
    <3> QED BY <2>2, <2>4, <3>1, <3>2, <3>3 DEF Grows, SoundSoFar
  <2> QED BY <1>3, <2>2, <2>3, <2>4, <2>5 DEF Follows, Fit
<1> QED BY <1>5, <1>6

(***************************************************************************)
(* What a captured member goes through.                                    *)
(***************************************************************************)
\* Failing that, the face in its place is of its own feature, and nobody else's.
TakenOver(c, b, m, f) ==
    /\ f \in c.sc.faces /\ f \notin c.claimed /\ f \notin b.consumed
    /\ Own(m, f) /\ Identical(m, f)

\* A member whose key is gone fails, or takes over a free face of its own kind and place.
LEMMA FallbackFollows ==
    ASSUME NEW c, InContext(c), NEW b, Fit(c, b), NEW m, NEW n, n = Fallback(c, b, m)
    PROVE  /\ Follows(c, b, n)
           /\ n.fail = "none" =>
                \E f \in Faces(n.used) : TakenOver(c, b, m, f) /\ MarkedFace(n, f)
<1> DEFINE identical == IdenticalFree(c, b, m)
           mine == {f \in identical : Own(m, f)}
           own == Canonical(mine)
           foreign == {f \in identical : ~Own(m, f)}
           inQuery == Canonical(foreign \cap c.all)
           elsewhere == Canonical(foreign \ c.all)
           pieces == InOrder(OwnPieces(c, b, m), LAMBDA p, q :
                               \/ Size(p) > Size(q)
                               \/ Size(p) = Size(q) /\ Precedes(p, q))
           others == SelectSeq(Likely(c, b, m), LAMBDA f : f # pieces[1])
           resembling == Resembling(c, b, m, elsewhere)
<1>1. IsBuilder(b)
  BY DEF Fit
<1>2. mine \in SUBSET c.sc.faces
  BY DEF IdenticalFree, FreeFaces, Alike
<1>3. ASSUME own # <<>> PROVE own[1] \in mine
  <2> HIDE DEF mine
  <2>1. /\ Cardinality(mine) \in Nat /\ DOMAIN own = 1 .. Cardinality(mine)
        /\ \A i \in 1 .. Cardinality(mine) : own[i] \in mine
    BY <1>2, CanonicalLists DEF InContext
  <2>2. own = [i \in DOMAIN own |-> own[i]]
    BY DEF Canonical, InOrder
  <2>3. Cardinality(mine) # 0
    <3>1. SUFFICES ASSUME Cardinality(mine) = 0 PROVE FALSE
      OBVIOUS
    <3> HIDE DEF own
    <3>2. DOMAIN own = {}
      BY <2>1, <3>1
    <3> QED BY <1>3, <2>2, <3>2
  <2> QED BY <2>1, <2>3
<1>4. ASSUME NEW f \in mine PROVE TakenOver(c, b, m, f)
  BY <1>4 DEF TakenOver, IdenticalFree, FreeFaces, Alike
<1>5. resembling.fail # "none" /\ Follows(c, b, resembling)
  <2> HIDE DEF elsewhere
  <2> DEFINE likely == Likely(c, b, m)
             tied == Tied(c, b, m, likely[1])
  <2>1. \/ resembling = Unresolved(b, m.key, elsewhere, "REF_UNCERTAIN")
        \/ resembling = Unresolved(b, m.key, <<>>, "REF_MISSING")
        \/ resembling = Unresolved(b, m.key, tied, "REF_AMBIGUOUS")
        \/ resembling = Unresolved(b, m.key, likely, "REF_UNCERTAIN")
    BY DEF Resembling
  <2> HIDE DEF likely, tied, resembling
  <2> QED BY <1>1, <2>1, UnresolvedFollows
<1>6. n = IF Suppressed(c, m) THEN Unresolved(b, m.key, <<>>, "REF_MISSING")
          ELSE IF Cardinality(identical) > 1
          THEN Unresolved(b, m.key, own \o inQuery \o elsewhere, "REF_AMBIGUOUS")
          ELSE IF own # <<>> THEN Repair(c, b, m, own[1])
          ELSE IF inQuery # <<>> THEN Unresolved(b, m.key, inQuery, "REF_UNCERTAIN")
          ELSE IF Len(pieces) > 1
          THEN [Unresolved(b, m.key, pieces, "REF_SPLIT") EXCEPT !.split = TRUE]
          ELSE IF Len(pieces) = 1
          THEN Unresolved(b, m.key, pieces \o others, "REF_UNCERTAIN")
          ELSE resembling
  BY DEF Fallback, FallbackTo
<1> HIDE DEF own, inQuery, elsewhere, pieces, others, resembling, identical, foreign
<1>7. \/ n = Repair(c, b, m, own[1]) /\ own # <<>>
      \/ n = resembling
      \/ n = [Unresolved(b, m.key, pieces, "REF_SPLIT") EXCEPT !.split = TRUE]
      \/ n = Unresolved(b, m.key, <<>>, "REF_MISSING")
      \/ n = Unresolved(b, m.key, own \o inQuery \o elsewhere, "REF_AMBIGUOUS")
      \/ n = Unresolved(b, m.key, inQuery, "REF_UNCERTAIN")
      \/ n = Unresolved(b, m.key, pieces \o others, "REF_UNCERTAIN")
  BY <1>6
<1>8. CASE n = Repair(c, b, m, own[1]) /\ own # <<>>
  <2>1. own[1] \in mine
    BY <1>3, <1>8
  <2>2. own[1] \in c.sc.faces /\ TakenOver(c, b, m, own[1])
    BY <1>2, <1>4, <2>1
  <2> QED BY <1>8, <2>2, RepairFollows
<1>9. CASE n = [Unresolved(b, m.key, pieces, "REF_SPLIT") EXCEPT !.split = TRUE]
  <2> DEFINE o == Unresolved(b, m.key, pieces, "REF_SPLIT")
  <2>1. IsBuilder(o) /\ o.fail # "none"
    BY <1>1, UnresolvedFails
  <2>2. n = [o EXCEPT !.split = TRUE]
    BY <1>9
  <2> HIDE DEF o
  <2>3. n = [used |-> o.used, consumed |-> o.consumed, fail |-> o.fail,
             unresolved |-> o.unresolved, split |-> TRUE, repaired |-> o.repaired,
             splits |-> o.splits, dropped |-> o.dropped, warnings |-> o.warnings]
    BY <2>1, <2>2 DEF IsBuilder
  <2>4. IsBuilder(n) /\ n.fail # "none"
    BY <2>1, <2>3 DEF IsBuilder
  <2> QED BY <2>4 DEF Follows, Fit
<1>10. ASSUME NEW candidates, NEW code, code # "none", n = Unresolved(b, m.key, candidates, code)
       PROVE  Follows(c, b, n) /\ n.fail # "none"
  BY <1>1, <1>10, UnresolvedFollows
<1> QED BY <1>5, <1>7, <1>8, <1>9, <1>10

\* The pieces of a member are faces, the anchor one of them.
LEMMA PiecesOfMember ==
    ASSUME NEW c, InContext(c), NEW m, NEW f \in c.sc.faces
    PROVE  /\ f \in Connected(c.sc, f) /\ Connected(c.sc, f) \subseteq c.sc.faces
           /\ f \in InsidePieces(c, m, f) /\ InsidePieces(c, m, f) \subseteq c.sc.faces
           /\ f \in NewKeyPieces(c, m, f) /\ NewKeyPieces(c, m, f) \subseteq InsidePieces(c, m, f)
           /\ ~(Cardinality(NewKeyPieces(c, m, f)) >= 2) => NewKeyPieces(c, m, f) = {f}
<1>1. f \in Connected(c.sc, f) /\ Connected(c.sc, f) \subseteq c.sc.faces
  BY DEF Connected
<1>2. f \in InsidePieces(c, m, f) /\ InsidePieces(c, m, f) \subseteq c.sc.faces
  BY <1>1 DEF InsidePieces
<1>3. f \in NewKeyPieces(c, m, f) /\ NewKeyPieces(c, m, f) \subseteq InsidePieces(c, m, f)
  BY <1>2 DEF NewKeyPieces
<1> DEFINE P == NewKeyPieces(c, m, f)
<1>4. IsFiniteSet(P)
  BY <1>2, <1>3, FS_Subset DEF InContext, WellFormed
<1>5. ASSUME ~(Cardinality(P) >= 2) PROVE P = {f}
  <2> HIDE DEF P
  <2>1. Cardinality(P) \in Nat /\ Cardinality(P) # 0
    BY <1>3, <1>4, FS_CardinalityType, FS_EmptySet DEF P
  <2>2. Cardinality(P) = 1
    BY <1>5, <2>1
  <2> QED BY <1>3, <1>4, <2>2, FS_Singleton DEF P
<1> QED BY <1>1, <1>2, <1>3, <1>5

\* A member the query dropped is told, and its key's faces have no pieces of new keys.
LEMMA DroppedFollows ==
    ASSUME NEW c, InContext(c), NEW b, Fit(c, b), NEW m, NEW n, n = DroppedMember(c, b, m)
    PROVE  /\ Follows(c, b, n)
           /\ n.fail = "none" =>
                /\ n.dropped = b.dropped + 1
                /\ \A f \in Carrying(c.sc, m.key) \ c.all :
                     Neighbors(c.sc, f) > m.neighbors => NewKeyPieces(c, m, f) = {f}
<1> DEFINE carriers == {f \in Carrying(c.sc, m.key) \ c.all :
                          /\ Neighbors(c.sc, f) > m.neighbors
                          /\ Cardinality(NewKeyPieces(c, m, f)) >= 2}
           anchor == Canonical(carriers)[1]
<1>1. CASE carriers = {}
  <2>1. n = [b EXCEPT !.dropped = @ + 1]
    BY <1>1 DEF DroppedMember
  <2>2. n = [used |-> b.used, consumed |-> b.consumed, fail |-> b.fail,
             unresolved |-> b.unresolved, split |-> b.split, repaired |-> b.repaired,
             splits |-> b.splits, dropped |-> b.dropped + 1, warnings |-> b.warnings]
    <3> HIDE DEF carriers, anchor
    <3> QED BY <2>1 DEF Fit, IsBuilder
  <2>3. IsBuilder(n)
    <3> HIDE DEF carriers, anchor
    <3> QED BY <2>2 DEF IsBuilder
  <2>4. /\ n.fail = b.fail /\ n.used = b.used /\ n.consumed = b.consumed
        /\ n.dropped = b.dropped + 1 /\ n.unresolved = b.unresolved /\ n.warnings = b.warnings
    <3> HIDE DEF carriers, anchor
    <3> QED BY <2>2
  <2>5. ASSUME b.fail = "none" PROVE SoundSoFar(c, n) /\ Grows(b, n)
    <3>1. SoundSoFar(c, b)
      BY <2>5 DEF Fit
    <3> QED BY <2>4, <3>1 DEF SoundSoFar, Grows, MarkedFace
  <2>6. ASSUME NEW f \in Carrying(c.sc, m.key) \ c.all, Neighbors(c.sc, f) > m.neighbors
        PROVE  NewKeyPieces(c, m, f) = {f}
    <3>1. f \in c.sc.faces
      BY DEF Carrying
    <3>2. ~(Cardinality(NewKeyPieces(c, m, f)) >= 2)
      BY <1>1, <2>6
    <3> QED BY <3>1, <3>2, PiecesOfMember
  <2> QED BY <2>3, <2>4, <2>5, <2>6 DEF Follows, Fit
<1>2. CASE carriers # {}
  <2>1. n = Split(b, m, anchor, NewKeyPieces(c, m, anchor), One, 1)
    BY <1>2 DEF DroppedMember
  <2>2. NewKeyPieces(c, m, anchor) \in SUBSET c.sc.faces
    <3>1. carriers \in SUBSET c.sc.faces
      BY DEF Carrying
    <3>2. Cardinality(carriers) # 0 /\ Cardinality(carriers) \in Nat
      <4> HIDE DEF carriers
      <4>1. IsFiniteSet(carriers)
        BY <3>1, FS_Subset DEF InContext, WellFormed
      <4> QED BY <1>2, <4>1, FS_CardinalityType, FS_EmptySet
    <3>3. anchor \in carriers
      <4> HIDE DEF carriers
      <4>1. \A i \in 1 .. Cardinality(carriers) : Canonical(carriers)[i] \in carriers
        BY <3>1, CanonicalLists DEF InContext
      <4> QED BY <3>2, <4>1
    <3> HIDE DEF anchor, carriers
    <3> QED BY <3>1, <3>3, PiecesOfMember
  <2> HIDE DEF anchor, carriers
  <2>3. Follows(c, b, n) /\ n.fail # "none"
    BY <2>1, <2>2, SplitFollows
  <2> QED BY <2>3
<1> QED BY <1>1, <1>2

\* The face that carries a member's key is used, with the pieces of new keys if it
\* gained neighbours, and without a word if nothing about it changed.
LEMMA ValidateOneFollows ==
    ASSUME NEW c, InContext(c), NEW b, Fit(c, b), NEW m, m.neighbors \in Nat, NEW f \in c.sc.faces,
           NEW n, n = ValidateOne(c, b, m, f)
    PROVE  /\ Follows(c, b, n)
           /\ n.fail = "none" =>
                /\ f \in Faces(n.used)
                /\ Neighbors(c.sc, f) > m.neighbors => NewKeyPieces(c, m, f) \subseteq Faces(n.used)
                /\ f.key = m.key /\ Type(f) = m.carrier[1] /\ Neighbors(c.sc, f) = m.neighbors
                     => n.warnings = b.warnings
<1> DEFINE inside == InsidePieces(c, m, f)
           pieces == NewKeyPieces(c, m, f)
           unseen == pieces # inside \/ Chooses(c.q)
           around == {p \in Connected(c.sc, f) :
                        p = f \/ (p \notin c.claimed /\ ~DroppedPiece(c, m, p))}
           more == Neighbors(c.sc, f) <= m.neighbors
           card == IF unseen THEN One ELSE c.card
<1>1. Neighbors(c.sc, f) \in Nat
  <2>1. Adjoining(c.sc, f) \in SUBSET c.sc.faces
    BY DEF Adjoining
  <2> QED BY <2>1, FS_Subset, FS_CardinalityType DEF Neighbors, InContext, WellFormed
<1>2. pieces \in SUBSET c.sc.faces /\ f \in pieces /\ around \in SUBSET c.sc.faces
  BY PiecesOfMember
<1>3. n = IF more THEN Validated(c, b, m, f)
          ELSE IF Cardinality(pieces) >= 2 THEN Split(b, m, f, pieces, card, 1)
          ELSE IF pieces # inside THEN Split(b, m, f, pieces, c.card, 1)
          ELSE IF ~Identical(m, f) THEN Split(b, m, f, around, One, 1)
          ELSE Validated(c, b, m, f)
  BY DEF ValidateOne
<1>4. more \/ ~(Neighbors(c.sc, f) = m.neighbors)
  BY <1>1
<1>5. Neighbors(c.sc, f) > m.neighbors <=> ~more
  BY <1>1
<1>6. ~(Cardinality(pieces) >= 2) => pieces = {f}
  BY PiecesOfMember
<1> HIDE DEF more, card, around, pieces, inside, unseen
<1>7. ASSUME n = Validated(c, b, m, f)
      PROVE  /\ Follows(c, b, n)
             /\ n.fail = "none" =>
                  /\ f \in Faces(n.used)
                  /\ f.key = m.key /\ Type(f) = m.carrier[1] /\ Neighbors(c.sc, f) = m.neighbors
                       => n.warnings = b.warnings
  BY <1>1, <1>7, ValidatedFollows
<1>8. ASSUME NEW k, n = Split(b, m, f, pieces, k, 1)
      PROVE  Follows(c, b, n) /\ (n.fail = "none" => pieces \subseteq Faces(n.used))
  BY <1>2, <1>8, SplitFollows
<1>9. ASSUME n = Split(b, m, f, around, One, 1)
      PROVE  Follows(c, b, n) /\ n.fail # "none"
  BY <1>2, <1>9, SplitFollows
<1>10. CASE more
  BY <1>3, <1>5, <1>7, <1>10
<1>11. CASE ~more
  <2>1. Neighbors(c.sc, f) # m.neighbors
    BY <1>4, <1>11
  <2>2. CASE n = Validated(c, b, m, f) /\ ~(Cardinality(pieces) >= 2)
    BY <1>6, <1>7, <2>1, <2>2 DEF pieces
  <2>3. CASE \E k : n = Split(b, m, f, pieces, k, 1)
    BY <1>2, <1>8, <2>1, <2>3 DEF pieces
  <2>4. CASE n = Split(b, m, f, around, One, 1)
    BY <1>9, <2>4
  <2> QED BY <1>3, <1>11, <2>2, <2>3, <2>4
<1> QED BY <1>10, <1>11

(***************************************************************************)
(* Captured pieces of one key and the faces that carry it: the matching.   *)
(***************************************************************************)
IsMember(m) == /\ m.neighbors \in Nat
               /\ m.lo \in Int /\ m.hi \in Int /\ m.lo < m.hi

IsCapture(ms) == /\ Len(ms) \in Nat /\ DOMAIN ms = 1 .. Len(ms)
                 /\ \A i \in 1 .. Len(ms) : IsMember(ms[i])

\* A score is at most 100, and 100 says that the face is in the very place.
LEMMA ScoreIs ==
    ASSUME NEW m, IsMember(m), NEW f, f.lo \in Int, f.hi \in Int, f.lo < f.hi
    PROVE  Score(m, f) \in Int /\ Score(m, f) <= 100 /\ (Score(m, f) = 100 <=> Identical(m, f))
<1> DEFINE x == m.hi - m.lo
           y == f.hi - f.lo
           away == (m.lo + m.hi) - (f.lo + f.hi)
           far == IF away < 0 THEN -away ELSE away
           least == IF x < y THEN x ELSE y
           most == IF x < y THEN y ELSE x
           ratio == (100 * least) \div most
<1>1. x \in Int /\ y \in Int /\ x > 0 /\ y > 0 /\ away \in Int
  BY DEF IsMember
<1>2. Score(m, f) = IF SameSupport(m, f) THEN ratio - 100 * far ELSE -10000
  BY DEF Score, Size
<1>3. m.lo = f.lo /\ m.hi = f.hi <=> x = y /\ far = 0
  BY DEF IsMember
<1> HIDE DEF x, y, away
<1>4. far \in Int /\ far >= 0
  BY <1>1
<1>5. least \in Int /\ most \in Int /\ 0 < least /\ least <= most /\ (least = most <=> x = y)
  BY <1>1
<1> HIDE DEF far, least, most
<1>6. ratio \in Int /\ most * ratio <= 100 * least /\ 100 * least < most * (ratio + 1)
  BY <1>5
<1> HIDE DEF ratio
<1>7. ratio <= 100 /\ (ratio = 100 <=> x = y)
  <2>1. CASE ratio >= 101
    <3>1. most * ratio >= most * 101
      BY <1>5, <1>6, <2>1
    <3> QED BY <1>5, <1>6, <3>1
  <2>2. CASE ratio = 100
    BY <1>5, <1>6, <2>2
  <2>3. CASE ratio <= 99
    <3>1. most * (ratio + 1) <= most * 100
      BY <1>5, <1>6, <2>3
    <3> QED BY <1>5, <1>6, <2>3, <3>1
  <2> QED BY <1>6, <2>1, <2>2, <2>3
<1>8. Identical(m, f) <=> SameSupport(m, f) /\ x = y /\ far = 0
  BY <1>3 DEF Identical
<1> QED BY <1>2, <1>4, <1>6, <1>7, <1>8

Betters(ms, P) == {q \in P \X P : Better(ms, q[1], q[2])}

\* The pairs of a matching are ordered strictly and totally.
LEMMA BetterOrders ==
    ASSUME NEW sc, WellFormed(sc), NEW ms, IsCapture(ms), NEW hits \in SUBSET sc.faces,
           NEW I \in SUBSET (1 .. Len(ms)), NEW P \in SUBSET (I \X hits)
    PROVE  Orders(Betters(ms, P), P) /\ IsFiniteSet(P)
<1>1. \A p, o \in P : <<p, o>> \in Betters(ms, P) <=> Better(ms, p, o)
  BY DEF Betters
<1>2. IsFiniteSet(hits)
  BY BeforeOrders
<1>3. /\ \A x \in hits : ~Precedes(x, x)
      /\ \A x, y, z \in hits : Precedes(x, y) /\ Precedes(y, z) => Precedes(x, z)
      /\ \A x, y \in hits : x # y => Precedes(x, y) \/ Precedes(y, x)
  BY PrecedesOrders
<1>4. \A p \in P : /\ p[1] \in 1 .. Len(ms) /\ p[2] \in hits /\ p = <<p[1], p[2]>>
                   /\ Score(ms[p[1]], p[2]) \in Int
  <2>1. ASSUME NEW p \in P PROVE Score(ms[p[1]], p[2]) \in Int
    <3>1. IsMember(ms[p[1]]) /\ p[2] \in sc.faces
      BY DEF IsCapture
    <3> QED BY <3>1, ScoreIs DEF WellFormed
  <2>2. ASSUME NEW p \in P
        PROVE  p[1] \in 1 .. Len(ms) /\ p[2] \in hits /\ p = <<p[1], p[2]>>
    <3>1. p \in I \X hits
      OBVIOUS
    <3>2. p[1] \in I /\ p[2] \in hits /\ p = <<p[1], p[2]>>
      BY ONLY <3>1
    <3> QED BY <3>2
  <2> QED BY <2>1, <2>2
<1>5. IsFiniteSet(P)
  <2>1. IsFiniteSet(I)
    <3>1. IsFiniteSet(1 .. Len(ms))
      BY FS_Interval DEF IsCapture
    <3> QED BY <3>1, FS_Subset
  <2>2. IsFiniteSet(I \X hits)
    BY <1>2, <2>1, FS_Product
  <2> QED BY <2>2, FS_Subset
<1>6. ASSUME NEW p \in P PROVE ~Better(ms, p, p)
  <2>1. p[1] \in Int
    BY <1>4 DEF IsCapture
  <2> QED BY <1>3, <1>4, <2>1 DEF Better
<1>7. ASSUME NEW p \in P, NEW o \in P, NEW q \in P, Better(ms, p, o), Better(ms, o, q)
      PROVE  Better(ms, p, q)
  <2>1. Precedes(p[2], o[2]) /\ Precedes(o[2], q[2]) => Precedes(p[2], q[2])
    BY <1>3, <1>4
  <2>2. p[1] \in Int /\ o[1] \in Int /\ q[1] \in Int
    BY <1>4 DEF IsCapture
  <2> QED BY <1>4, <1>7, <2>1, <2>2 DEF Better
<1>8. ASSUME NEW p \in P, NEW o \in P, p # o, ~Better(ms, p, o)
      PROVE  Better(ms, o, p)
  <2>1. p[1] \in Int /\ o[1] \in Int
    BY <1>4 DEF IsCapture
  <2>2. p[2] # o[2] => Precedes(p[2], o[2]) \/ Precedes(o[2], p[2])
    BY <1>3, <1>4
  <2>3. p[1] # o[1] \/ p[2] # o[2]
    BY <1>4, <1>8
  <2> QED BY <1>4, <1>8, <2>1, <2>2, <2>3 DEF Better
<1> QED BY <1>1, <1>5, <1>6, <1>7, <1>8 DEF Orders

\* A step of the matching adds the best of the open pairs, if there is one.
LEMMA PairBestIs ==
    ASSUME NEW sc, WellFormed(sc), NEW ms, IsCapture(ms), NEW hits \in SUBSET sc.faces,
           NEW I \in SUBSET (1 .. Len(ms)), NEW pairs, Open(pairs, I, hits) # {}
    PROVE  \E p \in Open(pairs, I, hits) :
             /\ PairBest(ms, I, hits, pairs) = pairs \cup {p}
             /\ \A o \in Open(pairs, I, hits) \ {p} : Better(ms, p, o)
<1> DEFINE open == Open(pairs, I, hits)
           p == CHOOSE x \in open : \A o \in open \ {x} : Better(ms, x, o)
<1>1. open \in SUBSET (I \X hits)
  BY DEF Open
<1>2. \E x \in open : \A o \in open \ {x} : <<x, o>> \in Betters(ms, open)
  <2> HIDE DEF open
  <2>1. Orders(Betters(ms, open), open) /\ IsFiniteSet(open)
    BY <1>1, BetterOrders
  <2>2. open # {}
    BY DEF open
  <2> QED BY <2>1, <2>2, FirstIs
<1>3. \E x \in open : \A o \in open \ {x} : Better(ms, x, o)
  BY <1>2 DEF Betters
<1>4. PairBest(ms, I, hits, pairs) = pairs \cup {p}
  BY DEF PairBest
<1>5. p \in open /\ \A o \in open \ {p} : Better(ms, p, o)
  <2> HIDE DEF open
  <2> QED BY <1>3
<1> HIDE DEF p
<1> QED BY <1>4, <1>5

\* The matching goes on pair by pair: its recursive function exists.
AssignedBy(at, ms, I, hits) ==
    /\ at[0] = {} /\ at[Len(ms)] = Assign(ms, I, hits)
    /\ \A i \in 1 .. Len(ms) : at[i] = PairBest(ms, I, hits, at[i - 1])

\* The greedy matching, pair by pair.
LEMMA AssignSteps ==
    ASSUME NEW ms, Len(ms) \in Nat, NEW I, NEW hits
    PROVE  \E at : AssignedBy(at, ms, I, hits)
<1> DEFINE n == Len(ms)
           Steps(f, m) == /\ f[0] = {}
                          /\ \A i \in 1 .. m : f[i] = PairBest(ms, I, hits, f[i - 1])
           S == {m \in 0 .. n : \E f : Steps(f, m)}
           pairs[i \in 0 .. n] == IF i = 0 THEN {} ELSE PairBest(ms, I, hits, pairs[i - 1])
<1>1. n \in Nat
  OBVIOUS
<1>2. 0 \in S
  <2> DEFINE f == [i \in {0} |-> {}]
  <2>1. Steps(f, 0)
    OBVIOUS
  <2>2. \E g : Steps(g, 0)
    BY <2>1
  <2> HIDE DEF Steps
  <2> QED BY <1>1, <2>2
<1>3. ASSUME NEW m \in 0 .. (n - 1), m \in S
      PROVE  m + 1 \in S
  <2>1. PICK f : Steps(f, m)
    BY <1>3
  <2> DEFINE g == [i \in 0 .. (m + 1) |-> IF i <= m THEN f[i] ELSE PairBest(ms, I, hits, f[m])]
  <2>2. ASSUME NEW i \in 1 .. (m + 1)
        PROVE  g[i] = PairBest(ms, I, hits, g[i - 1])
    <3>1. CASE i <= m
      BY <1>1, <2>1, <3>1
    <3>2. CASE i = m + 1
      BY <1>1, <3>2
    <3> QED BY <1>1, <3>1, <3>2
  <2>3. Steps(g, m + 1)
    BY <1>1, <2>1, <2>2
  <2>4. \E h : Steps(h, m + 1)
    BY <2>3
  <2>5. m + 1 \in 0 .. n
    BY <1>1
  <2> HIDE DEF Steps, n
  <2> QED BY <2>4, <2>5
<1>4. PICK f : Steps(f, n)
  <2> HIDE DEF Steps, n
  <2>1. n \in S
    BY <1>1, <1>2, <1>3, Induction
  <2> QED BY <2>1
<1>5. pairs = [i \in 0 .. n |-> IF i = 0 THEN {} ELSE PairBest(ms, I, hits, pairs[i - 1])]
  <2> DEFINE h == [i \in 0 .. n |-> f[i]]
  <2>1. ASSUME NEW i \in 0 .. n
        PROVE  h[i] = IF i = 0 THEN {} ELSE PairBest(ms, I, hits, h[i - 1])
    <3>1. CASE i = 0
      BY <1>1, <1>4, <3>1
    <3>2. CASE i # 0
      <4>1. i \in 1 .. n /\ i - 1 \in 0 .. n
        BY <1>1, <3>2
      <4> QED BY <1>4, <3>2, <4>1
    <3> QED BY <3>1, <3>2
  <2>2. h = [i \in 0 .. n |-> IF i = 0 THEN {} ELSE PairBest(ms, I, hits, h[i - 1])]
    BY <2>1
  <2> HIDE DEF h, n
  <2> QED BY <2>2
<1> HIDE DEF pairs
<1>6. ASSUME NEW i \in 0 .. n
      PROVE  pairs[i] = IF i = 0 THEN {} ELSE PairBest(ms, I, hits, pairs[i - 1])
  BY <1>5
<1>7. ASSUME NEW i \in 1 .. n PROVE pairs[i] = PairBest(ms, I, hits, pairs[i - 1])
  <2>1. i \in 0 .. n /\ i # 0
    BY <1>1
  <2> QED BY <1>6, <2>1
<1>8. pairs[0] = {}
  BY <1>1, <1>6
<1>9. pairs[n] = Assign(ms, I, hits)
  BY DEF Assign, pairs
<1>10. AssignedBy(pairs, ms, I, hits)
  BY <1>7, <1>8, <1>9 DEF AssignedBy
<1> QED BY <1>10

Firsts(pairs) == {p[1] : p \in pairs}
Matching(pairs) == \A p, o \in pairs : p[1] = o[1] \/ p[2] = o[2] => p = o

\* The matching leaves no captured piece and no face that are both open.
LEMMA AssignIs ==
    ASSUME NEW sc, WellFormed(sc), NEW ms, IsCapture(ms), NEW hits \in SUBSET sc.faces,
           NEW I \in SUBSET (1 .. Len(ms))
    PROVE  /\ Assign(ms, I, hits) \subseteq I \X hits /\ Matching(Assign(ms, I, hits))
           /\ \A i \in I, f \in hits :
                \E o \in Assign(ms, I, hits) : o[1] = i \/ o[2] = f
<1> DEFINE n == Len(ms)
<1>1. n \in Nat
  BY DEF IsCapture
<1>a. PICK at : AssignedBy(at, ms, I, hits)
  BY <1>1, AssignSteps
<1>2. /\ at[0] = {} /\ at[n] = Assign(ms, I, hits)
      /\ \A i \in 1 .. n : at[i] = PairBest(ms, I, hits, at[i - 1])
  BY <1>a DEF AssignedBy
<1> DEFINE Good(m) == /\ at[m] \subseteq I \X hits /\ Matching(at[m])
                      /\ Open(at[m], I, hits) # {} =>
                           IsFiniteSet(Firsts(at[m])) /\ Cardinality(Firsts(at[m])) = m
           S == {m \in 0 .. n : Good(m)}
<1>3. Good(0)
  <2>1. Firsts(at[0]) = {}
    BY <1>2 DEF Firsts
  <2> QED BY <1>2, <2>1, FS_EmptySet DEF Matching
<1>4. ASSUME NEW m \in 0 .. n - 1, Good(m) PROVE Good(m + 1)
  <2>1. m + 1 \in 1 .. n /\ (m + 1) - 1 = m
    BY <1>1
  <2>2. at[m + 1] = PairBest(ms, I, hits, at[m])
    BY <1>2, <2>1
  <2>3. CASE Open(at[m], I, hits) = {}
    <3>1. at[m + 1] = at[m]
      BY <2>2, <2>3 DEF PairBest
    <3> QED BY <1>4, <2>3, <3>1
  <2>4. CASE Open(at[m], I, hits) # {}
    <3>1. PICK p \in Open(at[m], I, hits) : at[m + 1] = at[m] \cup {p}
      BY <2>2, <2>4, PairBestIs
    <3>2. p \in I \X hits /\ \A o \in at[m] : p[1] # o[1] /\ p[2] # o[2]
      BY DEF Open
    <3>3. Firsts(at[m + 1]) = Firsts(at[m]) \cup {p[1]} /\ p[1] \notin Firsts(at[m])
      BY <3>1, <3>2 DEF Firsts
    <3>4. IsFiniteSet(Firsts(at[m])) /\ Cardinality(Firsts(at[m])) = m
      BY <1>4, <2>4
    <3>5. IsFiniteSet(Firsts(at[m + 1])) /\ Cardinality(Firsts(at[m + 1])) = m + 1
      <4> DEFINE F == Firsts(at[m])
                 x == p[1]
      <4>1. IsFiniteSet(F) /\ Cardinality(F) = m /\ x \notin F
        BY <3>3, <3>4
      <4> HIDE DEF F, x
      <4>2. IsFiniteSet(F \cup {x}) /\ Cardinality(F \cup {x}) = m + 1
        BY <4>1, FS_AddElement
      <4> QED BY <3>3, <4>2 DEF F, x
    <3>6. at[m + 1] \subseteq I \X hits
      BY <1>4, <3>1, <3>2
    <3>7. Matching(at[m + 1])
      BY <1>4, <3>1, <3>2 DEF Matching
    <3> QED BY <3>5, <3>6, <3>7
  <2> QED BY <2>3, <2>4
<1>5. Good(n)
  <2> HIDE DEF Good
  <2>1. 0 \in S
    BY <1>1, <1>3
  <2>a. ASSUME NEW m \in 0 .. n - 1, m \in S PROVE m + 1 \in S
    <3>1. m + 1 \in 0 .. n
      BY <1>1
    <3> QED BY <1>4, <2>a, <3>1
  <2>2. n \in S
    <3> HIDE DEF S, n
    <3> QED BY <1>1, <2>1, <2>a, Induction
  <2> QED BY <2>2
<1>6. ASSUME Open(at[n], I, hits) # {} PROVE FALSE
  <2>1. IsFiniteSet(Firsts(at[n])) /\ Cardinality(Firsts(at[n])) = n
    BY <1>5, <1>6
  <2>2. Firsts(at[n]) \in SUBSET (1 .. n)
    BY <1>5 DEF Firsts
  <2>3. IsFiniteSet(1 .. n) /\ Cardinality(1 .. n) = n
    BY <1>1, FS_Interval
  <2>4. Firsts(at[n]) = 1 .. n
    BY <2>1, <2>2, <2>3, FS_Subset
  <2>5. PICK p \in Open(at[n], I, hits) : TRUE
    BY <1>6
  <2>6. p[1] \in 1 .. n /\ p[1] \notin Firsts(at[n])
    BY DEF Open, Firsts
  <2> QED BY <2>4, <2>6
<1>7. ASSUME NEW i \in I, NEW f \in hits
      PROVE  \E o \in at[n] : o[1] = i \/ o[2] = f
  <2>1. <<i, f>> \notin Open(at[n], I, hits)
    BY <1>6
  <2> QED BY <2>1 DEF Open
<1> QED BY <1>2, <1>5, <1>7

\* Every face is where one member was captured, each where its own was.
Places(place, ms, I, hits) ==
    /\ place \in [I -> hits]
    /\ \A f \in hits : \E i \in I : place[i] = f
    /\ \A i, j \in I : place[i] = place[j] => i = j
    /\ \A i, j \in I : Precedes(place[i], place[j]) => i < j
    /\ \A i \in I : Identical(ms[i], place[i])

StaysIn(place, I, pairs) == \A i \in I : \A f : <<i, f>> \in pairs <=> f = place[i]

\* Pieces that are where they were captured are matched with themselves: the order of
\* the capture tells apart those that coincide.
LEMMA AssignKeepsPlaces ==
    ASSUME NEW sc, WellFormed(sc), NEW ms, IsCapture(ms), NEW hits \in SUBSET sc.faces,
           NEW I \in SUBSET (1 .. Len(ms)), NEW place, Places(place, ms, I, hits)
    PROVE  StaysIn(place, I, Assign(ms, I, hits))
<1> USE DEF Places
<1> DEFINE n == Len(ms)
<1>1. n \in Nat
  BY DEF IsCapture
<1>a. PICK at : AssignedBy(at, ms, I, hits)
  BY <1>1, AssignSteps
<1>2. /\ at[0] = {} /\ at[n] = Assign(ms, I, hits)
      /\ \A i \in 1 .. n : at[i] = PairBest(ms, I, hits, at[i - 1])
  BY <1>a DEF AssignedBy
<1> DEFINE Good(m) == \A p \in at[m] : p[1] \in I /\ p[2] = place[p[1]]
           S == {m \in 0 .. n : Good(m)}
<1>3. Good(0)
  BY <1>2
<1>4. ASSUME NEW m \in 0 .. n - 1, Good(m) PROVE Good(m + 1)
  <2>1. m + 1 \in 1 .. n /\ (m + 1) - 1 = m
    BY <1>1
  <2>2. at[m + 1] = PairBest(ms, I, hits, at[m])
    BY <1>2, <2>1
  <2>3. CASE Open(at[m], I, hits) = {}
    <3>1. at[m + 1] = at[m]
      BY <2>2, <2>3 DEF PairBest
    <3> QED BY <1>4, <2>3, <3>1
  <2>4. CASE Open(at[m], I, hits) # {}
    <3>1. PICK p \in Open(at[m], I, hits) :
            /\ at[m + 1] = at[m] \cup {p}
            /\ \A o \in Open(at[m], I, hits) \ {p} : Better(ms, p, o)
      BY <2>2, <2>4, PairBestIs
    <3>a. p \in I \X hits
      BY ONLY <3>1, p \in Open(at[m], I, hits) DEF Open
    <3>b. p = <<p[1], p[2]>> /\ p[1] \in I /\ p[2] \in hits
      BY ONLY <3>a
    <3>2. PICK i \in I, f \in hits : p = <<i, f>>
      BY ONLY <3>b
    <3>3. \A o \in at[m] : i # o[1] /\ f # o[2]
      BY <3>2 DEF Open
    <3>4. SUFFICES ASSUME f # place[i] PROVE FALSE
      BY <1>4, <3>1, <3>2
    <3>5. PICK j \in I : place[j] = f
      OBVIOUS
    <3>6. i # j /\ <<i, place[i]>> \in Open(at[m], I, hits) /\ <<j, f>> \in Open(at[m], I, hits)
      BY <1>4, <3>3, <3>4, <3>5 DEF Open
    <3>7. Better(ms, <<i, f>>, <<i, place[i]>>) /\ Better(ms, <<i, f>>, <<j, f>>)
      BY <3>1, <3>2, <3>4, <3>6
    <3>8. /\ Score(ms[i], f) \in Int /\ Score(ms[i], f) <= 100
          /\ Score(ms[i], place[i]) = 100 /\ Score(ms[j], f) = 100
      <4>1. IsMember(ms[i]) /\ IsMember(ms[j]) /\ f \in sc.faces /\ place[i] \in sc.faces
        BY DEF IsCapture
      <4>2. \A g \in sc.faces : g.lo \in Int /\ g.hi \in Int /\ g.lo < g.hi
        BY DEF WellFormed
      <4> QED BY <3>5, <4>1, <4>2, ScoreIs
    <3>9. i \in Int /\ j \in Int
      BY <1>1
    <3>10. Precedes(f, place[i])
      BY <3>7, <3>8, <3>9 DEF Better
    <3>11. i < j
      BY <3>6, <3>7, <3>8, <3>9 DEF Better
    <3> QED BY <3>5, <3>9, <3>10, <3>11
  <2> QED BY <2>3, <2>4
<1>5. Good(n)
  <2> HIDE DEF Good
  <2>1. 0 \in S
    BY <1>1, <1>3
  <2>a. ASSUME NEW m \in 0 .. n - 1, m \in S PROVE m + 1 \in S
    <3>1. m + 1 \in 0 .. n
      BY <1>1
    <3> QED BY <1>4, <2>a, <3>1
  <2>2. n \in S
    <3> HIDE DEF S, n
    <3> QED BY <1>1, <2>1, <2>a, Induction
  <2> QED BY <2>2
<1>b. /\ at[n] \subseteq I \X hits
      /\ \A i \in I, f \in hits : \E o \in at[n] : o[1] = i \/ o[2] = f
  <2>1. /\ Assign(ms, I, hits) \subseteq I \X hits
        /\ \A i \in I, f \in hits :
             \E o \in Assign(ms, I, hits) : o[1] = i \/ o[2] = f
    BY AssignIs
  <2> HIDE DEF n, Places
  <2> QED BY <1>2, <2>1
<1>6. ASSUME NEW i \in I PROVE <<i, place[i]>> \in at[n]
  <2>1. PICK o \in at[n] : o[1] = i \/ o[2] = place[i]
    BY <1>b
  <2>2. o[1] \in I /\ o[2] = place[o[1]]
    BY <1>5
  <2>3. o[1] = i /\ o[2] = place[i]
    BY <2>1, <2>2
  <2>4. o \in I \X hits
    BY <1>b
  <2> QED BY <2>3, <2>4
<1>7. ASSUME NEW i \in I, NEW f, <<i, f>> \in at[n] PROVE f = place[i]
  BY <1>5, <1>7
<1>8. ASSUME NEW i \in I, NEW f PROVE <<i, f>> \in Assign(ms, I, hits) <=> f = place[i]
  BY <1>2, <1>6, <1>7
<1> QED BY <1>8 DEF StaysIn

(***************************************************************************)
(* Who accounts for which captured member: of the members in P that are    *)
(* alive, those in K have a face each, and the others were told as removed.*)
(***************************************************************************)
Claims(c, ms) == c.claimed = c.all \cap UNION {Carrying(c.sc, k) : k \in KeysOf(ms, Named(ms))}
Alive(c, ms) == {i \in Named(ms) : ms[i].key \notin DOMAIN c.sc.aliases}

Given(c, ms, b, i, f) ==
    /\ f \in Faces(b.used)
    /\ \/ f.key = ms[i].key /\ f \in c.claimed
       \/ f \notin c.claimed /\ Own(ms[i], f) /\ Identical(ms[i], f) /\ MarkedFace(b, f)

Accounts(c, ms, b, P, K, face) ==
    /\ K \in SUBSET (P \cap Alive(c, ms))
    /\ Cardinality((P \cap Alive(c, ms)) \ K) <= b.dropped
    /\ face \in [K -> Faces(b.used)]
    /\ \A i \in K : Given(c, ms, b, i, face[i])
    /\ \A i, j \in K : face[i] = face[j] => i = j

\* Members of a key that are matched have the face they are matched with.
AsMatched(c, K, face, I, pairs) ==
    \A i \in K \cap I : face[i] \in c.claimed => <<i, face[i]>> \in pairs

\* The members that are told as removed can be counted.
LEMMA AliveIsFinite ==
    ASSUME NEW c, NEW ms, IsCapture(ms), NEW P, NEW K
    PROVE  /\ IsFiniteSet((P \cap Alive(c, ms)) \ K)
           /\ Cardinality((P \cap Alive(c, ms)) \ K) \in Nat
<1>1. (P \cap Alive(c, ms)) \ K \in SUBSET (1 .. Len(ms))
  BY DEF Alive, Named, Via, IsCapture
<1>2. IsFiniteSet(1 .. Len(ms))
  BY FS_Interval DEF IsCapture
<1> QED BY <1>1, <1>2, FS_Subset, FS_CardinalityType

\* A face that was given to a member stays its own,
LEMMA GivenStays ==
    ASSUME NEW c, NEW ms, NEW b, NEW n, Grows(b, n), NEW i, NEW f, Given(c, ms, b, i, f)
    PROVE  Given(c, ms, n, i, f)
BY DEF Given, Grows

\* and so does every such face, while the builder grows.
LEMMA AccountsGrow ==
    ASSUME NEW c, NEW ms, IsCapture(ms), NEW b, Fit(c, b), NEW n, Follows(c, b, n), n.fail = "none",
           NEW P, NEW K, NEW face, Accounts(c, ms, b, P, K, face)
    PROVE  Accounts(c, ms, n, P, K, face)
<1>1. Grows(b, n) /\ SoundSoFar(c, b) /\ SoundSoFar(c, n)
  BY DEF Follows, Fit
<1>2. Cardinality((P \cap Alive(c, ms)) \ K) <= n.dropped
  <2>1. Cardinality((P \cap Alive(c, ms)) \ K) \in Nat
    BY AliveIsFinite
  <2> QED BY <1>1, <2>1 DEF Accounts, Grows, SoundSoFar
<1>3. \A i \in K : Given(c, ms, n, i, face[i])
  BY <1>1, GivenStays DEF Accounts
<1> QED BY <1>1, <1>2, <1>3 DEF Accounts, Grows

\* One member more, with a face that nobody has.
LEMMA AccountsMore ==
    ASSUME NEW c, NEW ms, NEW n, NEW P, NEW K, NEW face, Accounts(c, ms, n, P, K, face),
           NEW i \in Alive(c, ms), i \notin P, NEW f, Given(c, ms, n, i, f),
           \A j \in K : face[j] # f
    PROVE  Accounts(c, ms, n, P \cup {i}, K \cup {i},
                    [j \in K \cup {i} |-> IF j = i THEN f ELSE face[j]])
<1> DEFINE more == [j \in K \cup {i} |-> IF j = i THEN f ELSE face[j]]
<1>1. i \notin K
  BY DEF Accounts
<1>2. more[i] = f /\ \A j \in K : more[j] = face[j]
  BY <1>1
<1>3. ((P \cup {i}) \cap Alive(c, ms)) \ (K \cup {i}) = (P \cap Alive(c, ms)) \ K
  BY <1>1
<1>4. more \in [K \cup {i} -> Faces(n.used)]
  BY DEF Accounts, Given
<1> HIDE DEF more
<1>5. \A j \in K \cup {i} : Given(c, ms, n, j, more[j])
  BY <1>2 DEF Accounts
<1>6. \A j, k \in K \cup {i} : more[j] = more[k] => j = k
  BY <1>1, <1>2 DEF Accounts
<1>7. Accounts(c, ms, n, P \cup {i}, K \cup {i}, more)
  BY <1>3, <1>4, <1>5, <1>6 DEF Accounts
<1> QED BY <1>7 DEF more

\* One member less.
LEMMA AccountsLess ==
    ASSUME NEW c, NEW ms, IsCapture(ms), NEW b, Fit(c, b), NEW n, Follows(c, b, n), n.fail = "none",
           n.dropped = b.dropped + 1,
           NEW P, NEW K, NEW face, Accounts(c, ms, b, P, K, face), NEW i
    PROVE  Accounts(c, ms, n, P \cup {i}, K, face)
<1> DEFINE old == (P \cap Alive(c, ms)) \ K
           new == ((P \cup {i}) \cap Alive(c, ms)) \ K
<1>1. Accounts(c, ms, n, P, K, face)
  BY AccountsGrow
<1>2. b.dropped \in Nat
  BY DEF Follows, Fit, SoundSoFar
<1>3. IsFiniteSet(old) /\ Cardinality(old) \in Nat /\ IsFiniteSet(new) /\ Cardinality(new) \in Nat
  BY AliveIsFinite
<1>4. new \in SUBSET (old \cup {i})
  OBVIOUS
<1>5. Cardinality(old) <= b.dropped
  BY DEF Accounts
<1>6. Cardinality(new) <= n.dropped
  <2> HIDE DEF old, new
  <2>1. IsFiniteSet(old \cup {i}) /\ Cardinality(old \cup {i}) <= Cardinality(old) + 1
    <3>1. IsFiniteSet(old) /\ Cardinality(old) \in Nat
      BY <1>3
    <3>2. /\ IsFiniteSet(old \cup {i})
          /\ Cardinality(old \cup {i}) = IF i \in old THEN Cardinality(old) ELSE Cardinality(old) + 1
      BY ONLY <3>1, FS_AddElement
    <3> QED BY <3>1, <3>2
  <2>2. Cardinality(new) <= Cardinality(old \cup {i}) /\ Cardinality(old \cup {i}) \in Nat
    BY <1>4, <2>1, FS_Subset, FS_CardinalityType
  <2> QED BY <1>2, <1>3, <1>5, <2>1, <2>2
<1> QED BY <1>1, <1>6 DEF Accounts

\* Members whose key was merged away need no face.
LEMMA AccountsDead ==
    ASSUME NEW c, NEW ms, NEW n, NEW P, NEW K, NEW face, Accounts(c, ms, n, P, K, face),
           NEW I, I \cap Alive(c, ms) = {}
    PROVE  Accounts(c, ms, n, P \cup I, K, face)
<1>1. (P \cup I) \cap Alive(c, ms) = P \cap Alive(c, ms)
  OBVIOUS
<1> QED BY <1>1 DEF Accounts

\* The faces that carry a living key have it, and are claimed.
LEMMA CarriesKey ==
    ASSUME NEW c, InContext(c), NEW ms, Claims(c, ms), NEW i \in Named(ms),
           NEW f \in c.all \cap Carrying(c.sc, ms[i].key)
    PROVE  f \in c.claimed /\ (i \in Alive(c, ms) => f.key = ms[i].key)
<1>1. f \in c.claimed
  BY DEF Claims, KeysOf
<1>2. ASSUME i \in Alive(c, ms) PROVE f.key = ms[i].key
  BY <1>2 DEF Alive, Carrying, NormalKey
<1> QED BY <1>1, <1>2

(***************************************************************************)
(* One member.  `found` is the face it is matched with, if there is one.   *)
(***************************************************************************)
Done(c, m, found, b) ==
    /\ \A f \in found :
         /\ f \in Faces(b.used)
         /\ Neighbors(c.sc, f) > m.neighbors => NewKeyPieces(c, m, f) \subseteq Faces(b.used)
    /\ found = {} /\ Carrying(c.sc, m.key) \ c.all # {} =>
         /\ b.dropped > 0
         /\ \A f \in Carrying(c.sc, m.key) \ c.all :
              Neighbors(c.sc, f) > m.neighbors => NewKeyPieces(c, m, f) = {f}

\* What was done for a member stays so.
LEMMA DoneStays ==
    ASSUME NEW c, NEW m, NEW found, NEW b, Fit(c, b), NEW n, Follows(c, b, n), n.fail = "none",
           Done(c, m, found, b)
    PROVE  Done(c, m, found, n)
<1>1. Grows(b, n) /\ SoundSoFar(c, b) /\ SoundSoFar(c, n)
  BY DEF Follows, Fit
<1>2. b.dropped > 0 => n.dropped > 0
  BY <1>1 DEF Grows, SoundSoFar
<1> QED BY <1>1, <1>2 DEF Done, Grows

\* A member's face says nothing new about it.
Unchanged(c, m, f) ==
    f.key = m.key /\ Type(f) = m.carrier[1] /\ Neighbors(c.sc, f) = m.neighbors

\* One member: it fails, keeps its face, is told as removed, or takes a face over.
LEMMA MemberFollows ==
    ASSUME NEW c, InContext(c), NEW b, Fit(c, b), NEW m, m.neighbors \in Nat,
           NEW found \in SUBSET c.all, \A f, g \in found : f = g,
           NEW n, n = ValidateMember(c, b, m, found)
    PROVE  /\ Follows(c, b, n)
           /\ n.fail = "none" =>
                /\ Done(c, m, found, n)
                /\ found # {} /\ (\A f \in found : Unchanged(c, m, f)) => n.warnings = b.warnings
                /\ found = {} =>
                     \/ n.dropped = b.dropped + 1
                     \/ \E f \in Faces(n.used) : TakenOver(c, b, m, f) /\ MarkedFace(n, f)
<1>1. CASE found # {}
  <2> DEFINE f == CHOOSE x \in found : TRUE
  <2>1. f \in found /\ found = {f}
    BY <1>1
  <2>2. n = ValidateOne(c, b, m, f)
    BY <1>1 DEF ValidateMember
  <2> HIDE DEF f
  <2>3. f \in c.sc.faces
    BY <2>1 DEF InContext
  <2>4. /\ Follows(c, b, n)
        /\ n.fail = "none" =>
             /\ f \in Faces(n.used)
             /\ Neighbors(c.sc, f) > m.neighbors => NewKeyPieces(c, m, f) \subseteq Faces(n.used)
             /\ f.key = m.key /\ Type(f) = m.carrier[1] /\ Neighbors(c.sc, f) = m.neighbors
                  => n.warnings = b.warnings
    BY <2>2, <2>3, ValidateOneFollows
  <2> QED BY <1>1, <2>1, <2>4 DEF Done, Unchanged
<1>2. CASE found = {} /\ Carrying(c.sc, m.key) \ c.all # {}
  <2>1. n = DroppedMember(c, b, m)
    BY <1>2 DEF ValidateMember, Absent
  <2>2. /\ Follows(c, b, n)
        /\ n.fail = "none" =>
             /\ n.dropped = b.dropped + 1
             /\ \A f \in Carrying(c.sc, m.key) \ c.all :
                  Neighbors(c.sc, f) > m.neighbors => NewKeyPieces(c, m, f) = {f}
    BY <2>1, DroppedFollows
  <2>3. n.fail = "none" => b.dropped \in Nat
    BY <2>2 DEF Follows, Fit, SoundSoFar
  <2> QED BY <1>2, <2>2, <2>3 DEF Done
<1>3. CASE found = {} /\ Carrying(c.sc, m.key) \ c.all = {}
  <2>1. n = Fallback(c, b, m)
    BY <1>3 DEF ValidateMember, Absent
  <2>2. /\ Follows(c, b, n)
        /\ n.fail = "none" =>
             \E f \in Faces(n.used) : TakenOver(c, b, m, f) /\ MarkedFace(n, f)
    BY <2>1, FallbackFollows
  <2> QED BY <1>3, <2>2 DEF Done
<1> QED BY <1>1, <1>2, <1>3

\* After one member more, all visited members are accounted for.
LEMMA MemberAccounts ==
    ASSUME NEW c, InContext(c), NEW ms, IsCapture(ms), Claims(c, ms), NEW b, Fit(c, b),
           NEW i \in Named(ms), NEW pairs, Matching(pairs),
           pairs \subseteq SameKey(ms, i) \X (c.all \cap Carrying(c.sc, ms[i].key)),
           NEW n, n = ValidateMember(c, b, ms[i], {f \in c.all : <<i, f>> \in pairs}),
           n.fail = "none",
           NEW P, i \notin P, NEW K, NEW face, Accounts(c, ms, b, P, K, face),
           AsMatched(c, K, face, SameKey(ms, i), pairs)
    PROVE  \E L, new : /\ Accounts(c, ms, n, P \cup {i}, L, new)
                       /\ AsMatched(c, L, new, SameKey(ms, i), pairs)
<1> DEFINE found == {f \in c.all : <<i, f>> \in pairs}
           I == SameKey(ms, i)
           hits == c.all \cap Carrying(c.sc, ms[i].key)
<1>1. \A f, g \in found : f = g
  BY DEF Matching
<1>2. ms[i].neighbors \in Nat
  BY DEF IsCapture, IsMember, Named, Via
<1>3. /\ Follows(c, b, n)
      /\ Done(c, ms[i], found, n)
      /\ found = {} =>
           \/ n.dropped = b.dropped + 1
           \/ \E f \in Faces(n.used) : TakenOver(c, b, ms[i], f) /\ MarkedFace(n, f)
  <2>1. n = ValidateMember(c, b, ms[i], found) /\ found \in SUBSET c.all
    OBVIOUS
  <2> HIDE DEF found
  <2> QED BY <1>1, <1>2, <2>1, MemberFollows
<1>4. Accounts(c, ms, n, P, K, face)
  BY <1>3, AccountsGrow
<1>5. K \subseteq P /\ K \subseteq Named(ms) /\ DOMAIN face = K
  BY DEF Accounts, Alive
<1>6. CASE i \notin Alive(c, ms)
  <2>1. {i} \cap Alive(c, ms) = {}
    BY <1>6
  <2> QED BY <1>4, <2>1, AccountsDead
<1>7. CASE i \in Alive(c, ms) /\ found = {} /\ n.dropped = b.dropped + 1
  BY <1>3, <1>7, AccountsLess
<1>8. ASSUME i \in Alive(c, ms), NEW f, Given(c, ms, n, i, f), \A j \in K : face[j] # f,
             f \in c.claimed => <<i, f>> \in pairs
      PROVE  \E L, new : /\ Accounts(c, ms, n, P \cup {i}, L, new)
                         /\ AsMatched(c, L, new, I, pairs)
  <2> DEFINE L == K \cup {i}
             new == [j \in L |-> IF j = i THEN f ELSE face[j]]
  <2>1. Accounts(c, ms, n, P \cup {i}, L, new)
    BY <1>4, <1>8, AccountsMore
  <2>2. AsMatched(c, L, new, I, pairs)
    <3>1. i \notin K
      BY <1>5
    <3>2. new[i] = f /\ \A j \in K : new[j] = face[j]
      BY <3>1
    <3> HIDE DEF new
    <3> QED BY <1>8, <3>2 DEF AsMatched
  <2> HIDE DEF L, new
  <2> QED BY <2>1, <2>2
<1>9. CASE i \in Alive(c, ms) /\ found = {}
           /\ \E f \in Faces(n.used) : TakenOver(c, b, ms[i], f) /\ MarkedFace(n, f)
  <2>1. PICK f \in Faces(n.used) : TakenOver(c, b, ms[i], f) /\ MarkedFace(n, f)
    BY <1>9
  <2>2. Given(c, ms, n, i, f) /\ f \notin c.claimed
    BY <2>1 DEF Given, TakenOver
  <2>3. f \notin Faces(b.used)
    <3>1. b.consumed = Faces(b.used)
      BY <1>3 DEF Follows, Fit, SoundSoFar
    <3> QED BY <2>1, <3>1 DEF TakenOver
  <2>4. \A j \in K : face[j] # f
    BY <2>3 DEF Accounts
  <2> QED BY <1>8, <1>9, <2>2, <2>4
<1>10. CASE i \in Alive(c, ms) /\ found # {}
  <2>1. PICK f \in found : TRUE
    BY <1>10
  <2>2. f \in hits /\ <<i, f>> \in pairs
    OBVIOUS
  <2>3. f \in c.claimed /\ f.key = ms[i].key
    BY <1>10, <2>2, CarriesKey
  <2>4. f \in Faces(n.used)
    BY <1>3 DEF Done
  <2>5. Given(c, ms, n, i, f)
    BY <2>3, <2>4 DEF Given
  <2>6. ASSUME NEW j \in K, face[j] = f PROVE FALSE
    <3>1. Given(c, ms, b, j, f)
      BY <2>6 DEF Accounts
    <3>2. f.key = ms[j].key
      BY <2>3, <3>1 DEF Given
    <3>3. j \in I
      BY <1>5, <2>3, <3>2 DEF SameKey
    <3>4. <<j, f>> \in pairs
      BY <2>3, <2>6, <3>3 DEF AsMatched
    <3>5. j = i
      BY <2>2, <3>4 DEF Matching
    <3> QED BY <1>5, <3>5
  <2> QED BY <1>8, <1>10, <2>2, <2>5, <2>6
<1> QED BY <1>3, <1>6, <1>7, <1>9, <1>10, <1>4 DEF AsMatched

(***************************************************************************)
(* The members of one key, one by one.                                     *)
(***************************************************************************)
Found(c, pairs, i) == {f \in c.all : <<i, f>> \in pairs}

\* A member is matched with a face that is as it was captured.
FoundAsIs(c, ms, pairs, i) ==
    Found(c, pairs, i) # {} /\ \A f \in Found(c, pairs, i) : Unchanged(c, ms[i], f)

BuiltBy(at, c, b, ms, I, pairs) ==
    /\ at[0] = b /\ at[Len(ms)] = OneByOne(c, b, ms, I, pairs)
    /\ \A i \in 1 .. Len(ms) :
         at[i] = IF i \notin I THEN at[i - 1]
                 ELSE ValidateMember(c, at[i - 1], ms[i], Found(c, pairs, i))

\* The members of a key, one by one.
LEMMA BuiltSteps ==
    ASSUME NEW c, NEW b, NEW ms, Len(ms) \in Nat, NEW I, NEW pairs
    PROVE  \E at : BuiltBy(at, c, b, ms, I, pairs)
<1> DEFINE n == Len(ms)
           Step(x, i) == IF i \notin I THEN x ELSE ValidateMember(c, x, ms[i], Found(c, pairs, i))
           Steps(f, m) == f[0] = b /\ \A i \in 1 .. m : f[i] = Step(f[i - 1], i)
           S == {m \in 0 .. n : \E f : Steps(f, m)}
           built[i \in 0 .. n] ==
               IF i = 0 THEN b
               ELSE IF i \notin I THEN built[i - 1]
               ELSE ValidateMember(c, built[i - 1], ms[i], {f \in c.all : <<i, f>> \in pairs})
<1>1. n \in Nat
  OBVIOUS
<1>2. 0 \in S
  <2> DEFINE f == [i \in {0} |-> b]
  <2>1. Steps(f, 0)
    OBVIOUS
  <2>2. \E g : Steps(g, 0)
    BY <2>1
  <2> HIDE DEF Steps
  <2> QED BY <1>1, <2>2
<1>3. ASSUME NEW m \in 0 .. (n - 1), m \in S
      PROVE  m + 1 \in S
  <2>1. PICK f : Steps(f, m)
    BY <1>3
  <2> DEFINE g == [i \in 0 .. (m + 1) |-> IF i <= m THEN f[i] ELSE Step(f[m], m + 1)]
  <2> HIDE DEF Step
  <2>2. ASSUME NEW i \in 1 .. (m + 1)
        PROVE  g[i] = Step(g[i - 1], i)
    <3>1. CASE i <= m
      BY <1>1, <2>1, <3>1
    <3>2. CASE i = m + 1
      BY <1>1, <3>2
    <3> QED BY <1>1, <3>1, <3>2
  <2>3. Steps(g, m + 1)
    BY <1>1, <2>1, <2>2
  <2>4. \E h : Steps(h, m + 1)
    BY <2>3
  <2>5. m + 1 \in 0 .. n
    BY <1>1
  <2> HIDE DEF Steps, n
  <2> QED BY <2>4, <2>5
<1>4. PICK f : Steps(f, n)
  <2> HIDE DEF Steps, n
  <2>1. n \in S
    BY <1>1, <1>2, <1>3, Induction
  <2> QED BY <2>1
<1>5. built = [i \in 0 .. n |-> IF i = 0 THEN b ELSE Step(built[i - 1], i)]
  <2> DEFINE h == [i \in 0 .. n |-> f[i]]
  <2>1. ASSUME NEW i \in 0 .. n
        PROVE  h[i] = IF i = 0 THEN b ELSE Step(h[i - 1], i)
    <3> HIDE DEF Step
    <3>1. CASE i = 0
      BY <1>1, <1>4, <3>1
    <3>2. CASE i # 0
      <4>1. i \in 1 .. n /\ i - 1 \in 0 .. n
        BY <1>1, <3>2
      <4> QED BY <1>4, <3>2, <4>1
    <3> QED BY <3>1, <3>2
  <2>2. h = [i \in 0 .. n |->
               IF i = 0 THEN b
               ELSE IF i \notin I THEN h[i - 1]
               ELSE ValidateMember(c, h[i - 1], ms[i], {x \in c.all : <<i, x>> \in pairs})]
    BY <2>1 DEF Found
  <2> HIDE DEF h, n
  <2>3. built = [i \in 0 .. n |->
               IF i = 0 THEN b
               ELSE IF i \notin I THEN built[i - 1]
               ELSE ValidateMember(c, built[i - 1], ms[i], {x \in c.all : <<i, x>> \in pairs})]
    BY <2>2
  <2> QED BY <2>3 DEF Found
<1> HIDE DEF built
<1>6. ASSUME NEW i \in 0 .. n
      PROVE  built[i] = IF i = 0 THEN b ELSE Step(built[i - 1], i)
  <2> HIDE DEF Step
  <2> QED BY <1>5
<1>7. ASSUME NEW i \in 1 .. n PROVE built[i] = Step(built[i - 1], i)
  <2>1. i \in 0 .. n /\ i # 0
    BY <1>1
  <2> HIDE DEF Step
  <2> QED BY <1>6, <2>1
<1>8. built[0] = b
  BY <1>1, <1>6
<1>9. built[n] = OneByOne(c, b, ms, I, pairs)
  BY DEF OneByOne, built
<1>10. BuiltBy(built, c, b, ms, I, pairs)
  BY <1>7, <1>8, <1>9 DEF BuiltBy
<1> QED BY <1>10

\* The members of a key that were visited are done, without a word if nothing changed.
LEMMA OneByOneFollows ==
    ASSUME NEW c, InContext(c), NEW ms, IsCapture(ms), NEW b, Fit(c, b), NEW I,
           NEW pairs, Matching(pairs), NEW at, BuiltBy(at, c, b, ms, I, pairs), NEW m \in 0 .. Len(ms)
    PROVE  /\ Follows(c, b, at[m])
           /\ at[m].fail = "none" =>
                /\ \A i \in I \cap 1 .. m : Done(c, ms[i], Found(c, pairs, i), at[m])
                /\ (\A i \in I \cap 1 .. m : FoundAsIs(c, ms, pairs, i))
                     => at[m].warnings = b.warnings
<1> DEFINE n == Len(ms)
           Still(i) == FoundAsIs(c, ms, pairs, i)
           Good(k) == /\ Follows(c, b, at[k])
                      /\ at[k].fail = "none" =>
                           /\ \A i \in I \cap 1 .. k : Done(c, ms[i], Found(c, pairs, i), at[k])
                           /\ (\A i \in I \cap 1 .. k : Still(i)) => at[k].warnings = b.warnings
           S == {k \in 0 .. n : Good(k)}
<1>1. n \in Nat /\ m \in Nat
  BY DEF IsCapture
<1>2. Good(0)
  <2>1. at[0] = b
    BY DEF BuiltBy
  <2>2. Follows(c, b, b)
    BY FollowsItself
  <2>3. 1 .. 0 = {}
    OBVIOUS
  <2> QED BY <2>1, <2>2, <2>3
<1>3. ASSUME NEW k \in 0 .. n - 1, Good(k) PROVE Good(k + 1)
  <2>1. k + 1 \in 1 .. n /\ (k + 1) - 1 = k /\ 1 .. (k + 1) = 1 .. k \cup {k + 1}
    BY <1>1
  <2>2. at[k + 1] = IF k + 1 \notin I THEN at[k]
                    ELSE ValidateMember(c, at[k], ms[k + 1], Found(c, pairs, k + 1))
    BY <2>1 DEF BuiltBy
  <2>3. CASE k + 1 \notin I
    <3>1. at[k + 1] = at[k] /\ I \cap 1 .. (k + 1) = I \cap 1 .. k
      BY <2>1, <2>2, <2>3
    <3> QED BY <1>3, <3>1
  <2>4. CASE k + 1 \in I
    <3> DEFINE i == k + 1
               o == at[k]
               x == at[k + 1]
    <3>1. x = ValidateMember(c, o, ms[i], Found(c, pairs, i))
      BY <2>2, <2>4
    <3>2. Fit(c, o) /\ Follows(c, b, o)
      BY <1>3 DEF Follows
    <3>3. ms[i].neighbors \in Nat
      BY <2>1 DEF IsCapture, IsMember
    <3>4. Found(c, pairs, i) \in SUBSET c.all /\ \A f, g \in Found(c, pairs, i) : f = g
      BY DEF Found, Matching
    <3>5. I \cap 1 .. (k + 1) = (I \cap 1 .. k) \cup {i}
      BY <2>1, <2>4
    <3>6. /\ o.fail = "none" => \A j \in I \cap 1 .. k : Done(c, ms[j], Found(c, pairs, j), o)
          /\ o.fail = "none" /\ (\A j \in I \cap 1 .. k : Still(j)) => o.warnings = b.warnings
      BY <1>3
    <3> HIDE DEF i, o, x
    <3>7. /\ Follows(c, o, x)
          /\ x.fail = "none" =>
               /\ Done(c, ms[i], Found(c, pairs, i), x)
               /\ Still(i) => x.warnings = o.warnings
      <4>1. Follows(c, o, x) /\ (x.fail = "none" => Done(c, ms[i], Found(c, pairs, i), x))
        BY <3>1, <3>2, <3>3, <3>4, MemberFollows
      <4>2. ASSUME x.fail = "none", Still(i) PROVE x.warnings = o.warnings
        BY <3>1, <3>2, <3>3, <3>4, <4>2, MemberFollows DEF FoundAsIs
      <4> QED BY <4>1, <4>2
    <3>8. Follows(c, b, x)
      BY <3>2, <3>7, FollowsOn
    <3>9. ASSUME x.fail = "none", NEW j \in I \cap 1 .. k PROVE Done(c, ms[j], Found(c, pairs, j), x)
      <4>1. o.fail = "none"
        BY <3>7, <3>9 DEF Follows
      <4>2. Done(c, ms[j], Found(c, pairs, j), o)
        BY <3>6, <3>9, <4>1
      <4> QED BY <3>2, <3>7, <3>9, <4>2, DoneStays
    <3>10. ASSUME x.fail = "none", \A j \in I \cap 1 .. (k + 1) : Still(j)
           PROVE  x.warnings = b.warnings
      <4> HIDE DEF Still
      <4>1. o.fail = "none"
        BY <3>7, <3>10 DEF Follows
      <4>2. x.warnings = o.warnings
        BY <3>5, <3>7, <3>10
      <4>3. o.warnings = b.warnings
        BY <3>5, <3>6, <3>10, <4>1
      <4> QED BY <4>2, <4>3
    <3>11. ASSUME x.fail = "none", NEW j \in I \cap 1 .. (k + 1)
           PROVE  Done(c, ms[j], Found(c, pairs, j), x)
      BY <3>5, <3>7, <3>9, <3>11
    <3> HIDE DEF Still
    <3> QED BY <3>8, <3>10, <3>11 DEF x
  <2> QED BY <2>3, <2>4
<1>4. Good(m)
  <2> HIDE DEF Good
  <2> DEFINE T == {k \in 0 .. m : Good(k)}
  <2>1. 0 \in T
    BY <1>1, <1>2
  <2>2. ASSUME NEW k \in 0 .. m - 1, k \in T PROVE k + 1 \in T
    <3>1. k + 1 \in 0 .. m /\ k \in 0 .. n - 1
      BY <1>1
    <3> QED BY <1>3, <2>2, <3>1
  <2>3. m \in T
    <3> HIDE DEF T, n
    <3> QED BY <1>1, <2>1, <2>2, Induction
  <2> QED BY <2>3
<1> QED BY <1>4

\* They are accounted for when the members of other keys were.
LEMMA OneByOneAccounts ==
    ASSUME NEW c, InContext(c), NEW ms, IsCapture(ms), Claims(c, ms), NEW b, Fit(c, b),
           NEW i \in Named(ms), NEW pairs, Matching(pairs),
           pairs \subseteq SameKey(ms, i) \X (c.all \cap Carrying(c.sc, ms[i].key)),
           NEW n, n = OneByOne(c, b, ms, SameKey(ms, i), pairs), n.fail = "none",
           NEW P, P \cap SameKey(ms, i) = {}, NEW K, NEW face, Accounts(c, ms, b, P, K, face)
    PROVE  \E L, new : Accounts(c, ms, n, P \cup SameKey(ms, i), L, new)
<1> DEFINE I == SameKey(ms, i)
           len == Len(ms)
<1>1. len \in Nat /\ I \in SUBSET (1 .. len)
  BY DEF IsCapture, SameKey, Named, Via
<1>2. PICK at : BuiltBy(at, c, b, ms, I, pairs)
  BY <1>1, BuiltSteps
<1>3. \A m \in 0 .. len : Follows(c, b, at[m])
  BY <1>2, OneByOneFollows
<1> DEFINE Good(m) == at[m].fail = "none" =>
                        \E L, new : /\ Accounts(c, ms, at[m], P \cup (I \cap 1 .. m), L, new)
                                    /\ AsMatched(c, L, new, I, pairs)
<1>4. Good(0)
  <2>1. at[0] = b
    BY <1>2 DEF BuiltBy
  <2>2. P \cup (I \cap 1 .. 0) = P
    OBVIOUS
  <2>3. K \cap I = {}
    BY DEF Accounts
  <2>4. AsMatched(c, K, face, I, pairs)
    BY <2>3 DEF AsMatched
  <2>5. Accounts(c, ms, at[0], P \cup (I \cap 1 .. 0), K, face)
    BY <2>1, <2>2
  <2> QED BY <2>4, <2>5
<1>5. ASSUME NEW m \in 0 .. len - 1, Good(m) PROVE Good(m + 1)
  <2>1. m + 1 \in 1 .. len /\ (m + 1) - 1 = m /\ 1 .. (m + 1) = 1 .. m \cup {m + 1} /\ m \in 0 .. len
        /\ m + 1 \notin 1 .. m
    BY <1>1
  <2>2. at[m + 1] = IF m + 1 \notin I THEN at[m]
                    ELSE ValidateMember(c, at[m], ms[m + 1], Found(c, pairs, m + 1))
    BY <1>2, <2>1 DEF BuiltBy
  <2>3. CASE m + 1 \notin I
    <3>1. at[m + 1] = at[m] /\ I \cap 1 .. (m + 1) = I \cap 1 .. m
      BY <2>1, <2>2, <2>3
    <3> QED BY <1>5, <3>1
  <2>4. CASE m + 1 \in I
    <3> DEFINE j == m + 1
               o == at[m]
               x == at[m + 1]
               Q == P \cup (I \cap 1 .. m)
    <3>1. x = ValidateMember(c, o, ms[j], {f \in c.all : <<j, f>> \in pairs})
      BY <2>2, <2>4 DEF Found
    <3>2. Fit(c, o)
      BY <1>3, <2>1 DEF Follows
    <3>3. j \in Named(ms) /\ SameKey(ms, j) = I /\ ms[j].key = ms[i].key
      BY <2>4 DEF SameKey
    <3>4. j \notin Q /\ P \cup (I \cap 1 .. (m + 1)) = Q \cup {j}
      BY <2>1, <2>4
    <3> SUFFICES ASSUME x.fail = "none"
                 PROVE  \E L, new : /\ Accounts(c, ms, x, Q \cup {j}, L, new)
                                    /\ AsMatched(c, L, new, I, pairs)
      BY <3>4
    <3>5. o.fail = "none"
      <4>1. ms[j].neighbors \in Nat
        BY <2>1 DEF IsCapture, IsMember
      <4>2. Found(c, pairs, j) \in SUBSET c.all /\ \A f, g \in Found(c, pairs, j) : f = g
        BY DEF Found, Matching
      <4>3. x = ValidateMember(c, o, ms[j], Found(c, pairs, j))
        BY <3>1 DEF Found
      <4> HIDE DEF x, o, j
      <4>4. Follows(c, o, x)
        BY <3>2, <4>1, <4>2, <4>3, MemberFollows
      <4> QED BY <4>4 DEF Follows
    <3>6. PICK L, new : Accounts(c, ms, o, Q, L, new) /\ AsMatched(c, L, new, I, pairs)
      BY <1>5, <3>5
    <3>7. pairs \subseteq SameKey(ms, j) \X (c.all \cap Carrying(c.sc, ms[j].key))
      BY <3>3
    <3>8. AsMatched(c, L, new, SameKey(ms, j), pairs)
      BY <3>3, <3>6
    <3> HIDE DEF x, o, j, Q, I
    <3>9. \E M, given : /\ Accounts(c, ms, x, Q \cup {j}, M, given)
                        /\ AsMatched(c, M, given, SameKey(ms, j), pairs)
      BY <3>1, <3>2, <3>3, <3>4, <3>6, <3>7, <3>8, MemberAccounts
    <3> QED BY <3>3, <3>9
  <2> QED BY <2>3, <2>4
<1>6. Good(len)
  <2> HIDE DEF Good
  <2> DEFINE T == {k \in 0 .. len : Good(k)}
  <2>1. 0 \in T
    BY <1>1, <1>4
  <2>2. ASSUME NEW k \in 0 .. len - 1, k \in T PROVE k + 1 \in T
    <3>1. k + 1 \in 0 .. len
      BY <1>1
    <3> QED BY <1>5, <2>2, <3>1
  <2>3. len \in T
    <3> HIDE DEF T, len
    <3> QED BY <1>1, <2>1, <2>2, Induction
  <2> QED BY <2>3
<1>7. at[len] = n /\ I \cap 1 .. len = I
  BY <1>1, <1>2 DEF BuiltBy
<1> QED BY <1>6, <1>7

(***************************************************************************)
(* All members of a key.                                                   *)
(***************************************************************************)
LEMMA SmallerInjects ==
    ASSUME NEW S, IsFiniteSet(S), NEW T, IsFiniteSet(T), Cardinality(S) <= Cardinality(T)
    PROVE  \E f \in [S -> T] : \A x, y \in S : f[x] = f[y] => x = y
<1> DEFINE s == Cardinality(S)
           t == Cardinality(T)
<1>1. s \in Nat /\ t \in Nat /\ ExistsBijection(1 .. s, S) /\ ExistsBijection(1 .. t, T)
  BY FS_CardinalityType
<1>2. PICK p \in Bijection(1 .. s, S) : TRUE
  BY <1>1 DEF ExistsBijection
<1>3. PICK q \in Bijection(1 .. t, T) : TRUE
  BY <1>1 DEF ExistsBijection
<1>4. /\ p \in [1 .. s -> S] /\ \A x \in S : \E i \in 1 .. s : p[i] = x
      /\ q \in [1 .. t -> T] /\ \A i, j \in 1 .. t : q[i] = q[j] => i = j
  BY <1>2, <1>3 DEF Bijection, Injection, IsInjective, Surjection
<1>5. s <= t
  OBVIOUS
<1> HIDE DEF s, t
<1> DEFINE at == [x \in S |-> CHOOSE i \in 1 .. s : p[i] = x]
           f == [x \in S |-> q[at[x]]]
<1>6. ASSUME NEW x \in S PROVE at[x] \in 1 .. s /\ p[at[x]] = x /\ at[x] \in 1 .. t
  <2>1. \E i \in 1 .. s : p[i] = x
    BY <1>4
  <2>2. at[x] \in 1 .. s /\ p[at[x]] = x
    BY <2>1
  <2> QED BY <1>1, <1>5, <2>2
<1> HIDE DEF at
<1>7. f \in [S -> T]
  BY <1>4, <1>6
<1>8. ASSUME NEW x \in S, NEW y \in S, f[x] = f[y] PROVE x = y
  <2>1. q[at[x]] = q[at[y]]
    BY <1>8
  <2>2. at[x] = at[y]
    BY <1>4, <1>6, <2>1
  <2> QED BY <1>6, <2>2
<1> HIDE DEF f
<1> QED BY <1>7, <1>8

\* The matching leaves no face if there are as many members, and a member if there are more.
LEMMA MatchedAll ==
    ASSUME NEW I, IsFiniteSet(I), NEW hits, IsFiniteSet(hits),
           NEW pairs, pairs \subseteq I \X hits, Matching(pairs),
           \A i \in I, f \in hits : \E o \in pairs : o[1] = i \/ o[2] = f
    PROVE  /\ Cardinality(hits) <= Cardinality(I) =>
                \A f \in hits : \E i \in I : <<i, f>> \in pairs
           /\ Cardinality(hits) < Cardinality(I) =>
                \E i \in I : \A f \in hits : <<i, f>> \notin pairs
<1>0. \A o \in pairs : o[1] \in I /\ o[2] \in hits /\ <<o[1], o[2]>> \in pairs
  <2>1. ASSUME NEW o \in pairs PROVE o[1] \in I /\ o[2] \in hits /\ o = <<o[1], o[2]>>
    <3>1. o \in I \X hits
      OBVIOUS
    <3> QED BY ONLY <3>1
  <2> QED BY <2>1
<1>1. Cardinality(hits) \in Nat /\ Cardinality(I) \in Nat
  BY FS_CardinalityType
<1>2. ASSUME NEW H \in SUBSET hits, \A i \in I : \E f \in H : <<i, f>> \in pairs
      PROVE  Cardinality(I) <= Cardinality(H) /\ Cardinality(H) \in Nat
  <2> DEFINE g == [i \in I |-> CHOOSE f \in H : <<i, f>> \in pairs]
  <2>1. \A i \in I : g[i] \in H /\ <<i, g[i]>> \in pairs
    BY <1>2
  <2> HIDE DEF g
  <2>2. ASSUME NEW i \in I, NEW j \in I, g[i] = g[j] PROVE i = j
    <3>1. <<i, g[i]>> \in pairs /\ <<j, g[i]>> \in pairs
      BY <2>1, <2>2
    <3>2. <<i, g[i]>> = <<j, g[i]>>
      BY <3>1 DEF Matching
    <3> QED BY <3>2
  <2>3. g \in Injection(I, H)
    <3>1. g \in [I -> H]
      BY <2>1 DEF g
    <3> QED BY <2>2, <3>1 DEF Injection, IsInjective
  <2>4. IsFiniteSet(H)
    BY FS_Subset
  <2> QED BY <2>3, <2>4, FS_Injection, FS_CardinalityType
<1>3. ASSUME Cardinality(hits) <= Cardinality(I), NEW f \in hits
      PROVE  \E i \in I : <<i, f>> \in pairs
  <2> SUFFICES ASSUME \A i \in I : <<i, f>> \notin pairs PROVE FALSE
    OBVIOUS
  <2> DEFINE H == hits \ {f}
  <2>1. ASSUME NEW i \in I PROVE \E g \in H : <<i, g>> \in pairs
    <3>1. PICK o \in pairs : o[1] = i \/ o[2] = f
      OBVIOUS
    <3>2. o[2] # f /\ o[1] = i /\ <<i, o[2]>> \in pairs /\ o[2] \in hits
      BY <1>0, <3>1
    <3> QED BY <3>2
  <2>2. H \in SUBSET hits
    OBVIOUS
  <2>3. Cardinality(H) = Cardinality(hits) - 1
    BY FS_RemoveElement
  <2> HIDE DEF H
  <2>4. Cardinality(I) <= Cardinality(H) /\ Cardinality(H) \in Nat
    BY <1>2, <2>1, <2>2
  <2> QED BY <1>1, <1>3, <2>3, <2>4
<1>4. ASSUME Cardinality(hits) < Cardinality(I)
      PROVE  \E i \in I : \A f \in hits : <<i, f>> \notin pairs
  <2> SUFFICES ASSUME \A i \in I : \E f \in hits : <<i, f>> \in pairs PROVE FALSE
    OBVIOUS
  <2>1. Cardinality(I) <= Cardinality(hits)
    BY <1>2
  <2> QED BY <1>1, <1>4, <2>1
<1> QED BY <1>3, <1>4

\* The face that has a key is used with the pieces of what was captured.
WholeAt(c, m, f, n) ==
    Neighbors(c.sc, f) > m.neighbors => NewKeyPieces(c, m, f) \subseteq Faces(n.used) \cup {f}

KeyDone(c, ms, i, n) ==
    LET I == SameKey(ms, i)
        hits == c.all \cap Carrying(c.sc, ms[i].key)
    IN /\ hits \subseteq Faces(n.used)
       /\ \A f : Carrying(c.sc, ms[i].key) = {f} => \E j \in I : WholeAt(c, ms[j], f, n)
       /\ Cardinality(hits) < Cardinality(I) /\ Carrying(c.sc, ms[i].key) \ c.all # {}
            => n.dropped > 0

\* The faces with the key are where they were captured, and as they were.
KeyStill(c, ms, i) ==
    LET I == SameKey(ms, i)
        hits == c.all \cap Carrying(c.sc, ms[i].key)
    IN \E place : /\ Places(place, ms, I, hits)
                  /\ \A j \in I : Unchanged(c, ms[j], place[j])

\* What was done for a key stays so.
LEMMA KeyDoneStays ==
    ASSUME NEW c, NEW ms, NEW i, NEW b, Fit(c, b), NEW n, Follows(c, b, n), n.fail = "none",
           KeyDone(c, ms, i, b)
    PROVE  KeyDone(c, ms, i, n)
<1>1. Faces(b.used) \subseteq Faces(n.used) /\ (b.dropped > 0 => n.dropped > 0)
  BY DEF Follows, Fit, Grows, SoundSoFar
<1>2. \A m, f : WholeAt(c, m, f, b) => WholeAt(c, m, f, n)
  BY <1>1 DEF WholeAt
<1> QED BY <1>1, <1>2 DEF KeyDone

\* A key's members and the faces it can be matched with are finitely many.
LEMMA KeyIsFinite ==
    ASSUME NEW c, InContext(c), NEW ms, IsCapture(ms), NEW i \in Named(ms)
    PROVE  LET I == SameKey(ms, i)
               hits == c.all \cap Carrying(c.sc, ms[i].key)
           IN /\ I \in SUBSET (1 .. Len(ms)) /\ IsFiniteSet(I) /\ Cardinality(I) \in Nat /\ i \in I
              /\ Cardinality(I) # 0
              /\ hits \in SUBSET c.sc.faces /\ IsFiniteSet(hits) /\ Cardinality(hits) \in Nat
<1> DEFINE I == SameKey(ms, i)
           hits == c.all \cap Carrying(c.sc, ms[i].key)
<1>1. I \in SUBSET (1 .. Len(ms)) /\ i \in I
  BY DEF IsCapture, SameKey, Named, Via
<1>2. IsFiniteSet(1 .. Len(ms))
  BY FS_Interval DEF IsCapture
<1>3. hits \in SUBSET c.sc.faces
  BY DEF InContext
<1>4. IsFiniteSet(c.sc.faces)
  BY DEF InContext, WellFormed
<1> HIDE DEF I, hits
<1>5. IsFiniteSet(I) /\ Cardinality(I) \in Nat /\ Cardinality(I) # 0
  BY <1>1, <1>2, FS_Subset, FS_CardinalityType, FS_EmptySet
<1>6. IsFiniteSet(hits) /\ Cardinality(hits) \in Nat
  BY <1>3, <1>4, FS_Subset, FS_CardinalityType
<1> QED BY <1>1, <1>3, <1>5, <1>6 DEF I, hits

\* A key, in each of the ways validate_key takes.
LEMMA KeyFollows ==
    ASSUME NEW c, InContext(c), NEW ms, IsCapture(ms), NEW b, Fit(c, b), NEW i \in Named(ms),
           NEW n, n = ValidateKey(c, b, ms, i)
    PROVE  /\ Follows(c, b, n)
           /\ n.fail = "none" => KeyDone(c, ms, i, n)
           /\ n.fail = "none" /\ KeyStill(c, ms, i) => n.warnings = b.warnings
<1> DEFINE I == SameKey(ms, i)
           hits == c.all \cap Carrying(c.sc, ms[i].key)
           pairs == Assign(ms, I, hits)
<1>1. /\ I \in SUBSET (1 .. Len(ms)) /\ IsFiniteSet(I) /\ Cardinality(I) \in Nat /\ i \in I
      /\ Cardinality(I) # 0
      /\ hits \in SUBSET c.sc.faces /\ IsFiniteSet(hits) /\ Cardinality(hits) \in Nat
  BY KeyIsFinite
<1>2. CASE Cardinality(hits) > Cardinality(I)
  <2>1. n = Split(b, ms[i], Best(ms[i], hits), hits, c.card, Cardinality(I))
    BY <1>2 DEF ValidateKey
  <2>2. Follows(c, b, n) /\ (n.fail = "none" => hits \subseteq Faces(n.used))
    <3> HIDE DEF hits, I
    <3> QED BY <1>1, <2>1, SplitFollows
  <2>3. ASSUME NEW f, Carrying(c.sc, ms[i].key) = {f} PROVE FALSE
    <3>1. hits \in SUBSET {f}
      BY <2>3
    <3>2. Cardinality({f}) = 1 /\ IsFiniteSet({f})
      BY FS_Singleton
    <3> HIDE DEF hits
    <3>3. Cardinality(hits) <= 1
      BY <3>1, <3>2, FS_Subset
    <3> QED BY <1>1, <1>2, <3>3
  <2>4. ~KeyStill(c, ms, i)
    <3> SUFFICES ASSUME NEW place \in [I -> hits], \A f \in hits : \E j \in I : place[j] = f
                 PROVE  FALSE
      BY DEF KeyStill, Places
    <3> HIDE DEF hits, I
    <3>1. place \in Surjection(I, hits)
      BY DEF Surjection
    <3>2. Cardinality(hits) <= Cardinality(I)
      BY <1>1, <3>1, FS_Surjection
    <3> QED BY <1>1, <1>2, <3>2
  <2>5. ~(Cardinality(hits) < Cardinality(I))
    BY <1>1, <1>2
  <2> QED BY <2>2, <2>3, <2>4, <2>5 DEF KeyDone
<1>3. CASE ~(Cardinality(hits) > Cardinality(I))
  <2>1. n = OneByOne(c, b, ms, I, pairs)
    BY <1>3 DEF ValidateKey
  <2>2. WellFormed(c.sc) /\ Len(ms) \in Nat
    BY DEF InContext, IsCapture
  <2>3. /\ pairs \subseteq I \X hits /\ Matching(pairs)
        /\ \A j \in I, f \in hits : \E o \in pairs : o[1] = j \/ o[2] = f
    <3> HIDE DEF hits, I
    <3> QED BY <1>1, <2>2, AssignIs
  <2> HIDE DEF pairs
  <2>4. PICK at : BuiltBy(at, c, b, ms, I, pairs)
    BY <2>2, BuiltSteps
  <2>5. at[Len(ms)] = n /\ I \cap 1 .. Len(ms) = I /\ Len(ms) \in 0 .. Len(ms)
    BY <1>1, <2>1, <2>2, <2>4 DEF BuiltBy
  <2>6. /\ Follows(c, b, n)
        /\ n.fail = "none" =>
             /\ \A j \in I : Done(c, ms[j], Found(c, pairs, j), n)
             /\ (\A j \in I : FoundAsIs(c, ms, pairs, j)) => n.warnings = b.warnings
    <3>1. Matching(pairs) /\ Len(ms) \in 0 .. Len(ms)
      BY <2>3, <2>5
    <3> HIDE DEF I
    <3>2. Follows(c, b, at[Len(ms)])
      BY <2>4, <3>1, OneByOneFollows
    <3>3. ASSUME at[Len(ms)].fail = "none", NEW j \in I \cap 1 .. Len(ms)
          PROVE  Done(c, ms[j], Found(c, pairs, j), at[Len(ms)])
      BY <2>4, <3>1, <3>3, OneByOneFollows
    <3>4. ASSUME at[Len(ms)].fail = "none",
                 \A j \in I \cap 1 .. Len(ms) : FoundAsIs(c, ms, pairs, j)
          PROVE  at[Len(ms)].warnings = b.warnings
      BY <2>4, <3>1, <3>4, OneByOneFollows
    <3> QED BY <2>5, <3>2, <3>3, <3>4
  <2>7. \A j \in I : Found(c, pairs, j) = {f \in hits : <<j, f>> \in pairs}
    BY <2>3 DEF Found
  <2>8. /\ \A f \in hits : \E j \in I : <<j, f>> \in pairs
        /\ Cardinality(hits) < Cardinality(I) =>
             \E j \in I : \A f \in hits : <<j, f>> \notin pairs
    <3>1. Cardinality(hits) <= Cardinality(I)
      BY <1>1, <1>3
    <3> HIDE DEF hits, I
    <3> QED BY <1>1, <2>3, <3>1, MatchedAll
  <2>9. ASSUME n.fail = "none" PROVE KeyDone(c, ms, i, n)
    <3>1. \A j \in I : Done(c, ms[j], Found(c, pairs, j), n)
      BY <2>6, <2>9
    <3>2. ASSUME NEW f \in hits PROVE f \in Faces(n.used)
      <4>1. PICK j \in I : f \in Found(c, pairs, j)
        BY <2>7, <2>8
      <4> QED BY <3>1, <4>1 DEF Done
    <3>3. ASSUME NEW f, Carrying(c.sc, ms[i].key) = {f} PROVE \E j \in I : WholeAt(c, ms[j], f, n)
      <4>1. CASE f \in c.all
        <5>1. f \in hits
          BY <3>3, <4>1
        <5>2. PICK j \in I : f \in Found(c, pairs, j)
          BY <2>7, <2>8, <5>1
        <5> QED BY <3>1, <5>2 DEF Done, WholeAt
      <4>2. CASE f \notin c.all
        <5>1. hits = {} /\ f \in Carrying(c.sc, ms[i].key) \ c.all
          BY <3>3, <4>2
        <5>2. Found(c, pairs, i) = {}
          BY <1>1, <2>7, <5>1
        <5>3. Neighbors(c.sc, f) > ms[i].neighbors => NewKeyPieces(c, ms[i], f) = {f}
          BY <1>1, <3>1, <5>1, <5>2 DEF Done
        <5>4. WholeAt(c, ms[i], f, n)
          BY <5>3 DEF WholeAt
        <5> QED BY <1>1, <5>4
      <4> QED BY <4>1, <4>2
    <3>4. ASSUME Cardinality(hits) < Cardinality(I), Carrying(c.sc, ms[i].key) \ c.all # {}
          PROVE  n.dropped > 0
      <4>1. PICK j \in I : \A f \in hits : <<j, f>> \notin pairs
        BY <2>8, <3>4
      <4>2. Found(c, pairs, j) = {} /\ ms[j].key = ms[i].key
        BY <2>7, <4>1 DEF SameKey
      <4> QED BY <3>1, <3>4, <4>2 DEF Done
    <3> QED BY <3>2, <3>3, <3>4 DEF KeyDone
  <2>10. ASSUME n.fail = "none", KeyStill(c, ms, i) PROVE n.warnings = b.warnings
    <3>1. PICK place : Places(place, ms, I, hits) /\ \A j \in I : Unchanged(c, ms[j], place[j])
      BY <2>10 DEF KeyStill
    <3>2. \A j \in I : place[j] \in hits /\ \A f : <<j, f>> \in pairs <=> f = place[j]
      <4>1. \A j \in I : place[j] \in hits
        BY <3>1 DEF Places
      <4> HIDE DEF hits, I
      <4>2. StaysIn(place, I, Assign(ms, I, hits))
        <5>1. WellFormed(c.sc) /\ hits \in SUBSET c.sc.faces /\ I \in SUBSET (1 .. Len(ms))
          BY <1>1, <2>2
        <5>2. Places(place, ms, I, hits)
          BY <3>1
        <5>3. IsCapture(ms)
          OBVIOUS
        <5> QED BY ONLY <5>1, <5>2, <5>3, AssignKeepsPlaces
      <4> QED BY <4>1, <4>2 DEF pairs, StaysIn
    <3>3. ASSUME NEW j \in I PROVE FoundAsIs(c, ms, pairs, j)
      <4>1. place[j] \in hits /\ <<j, place[j]>> \in pairs
        BY <3>2
      <4>2. place[j] \in Found(c, pairs, j)
        BY <2>7, <4>1
      <4>3. \A f \in Found(c, pairs, j) : f = place[j]
        BY <2>7, <3>2
      <4>4. Unchanged(c, ms[j], place[j])
        BY <3>1
      <4> QED BY <4>2, <4>3, <4>4 DEF FoundAsIs
    <3> QED BY <2>6, <2>10, <3>3
  <2> QED BY <2>6, <2>9, <2>10
<1> QED BY <1>2, <1>3

\* After one key more, its members are accounted for too.
LEMMA KeyAccounts ==
    ASSUME NEW c, InContext(c), NEW ms, IsCapture(ms), Claims(c, ms), NEW b, Fit(c, b),
           NEW i \in Named(ms), NEW n, n = ValidateKey(c, b, ms, i), n.fail = "none",
           NEW P, P \cap SameKey(ms, i) = {}, NEW K, NEW face, Accounts(c, ms, b, P, K, face)
    PROVE  \E L, new : Accounts(c, ms, n, P \cup SameKey(ms, i), L, new)
<1> DEFINE I == SameKey(ms, i)
           hits == c.all \cap Carrying(c.sc, ms[i].key)
           pairs == Assign(ms, I, hits)
<1>1. /\ I \in SUBSET (1 .. Len(ms)) /\ IsFiniteSet(I) /\ Cardinality(I) \in Nat
      /\ hits \in SUBSET c.sc.faces /\ IsFiniteSet(hits) /\ Cardinality(hits) \in Nat
  BY KeyIsFinite
<1>2. Follows(c, b, n) /\ KeyDone(c, ms, i, n)
  BY KeyFollows
<1>3. \A j \in I : j \in Named(ms) /\ ms[j].key = ms[i].key
  BY DEF SameKey
<1>4. CASE Cardinality(hits) > Cardinality(I)
  <2>1. Accounts(c, ms, n, P, K, face)
    BY <1>2, AccountsGrow
  <2>2. CASE i \notin Alive(c, ms)
    <3>1. I \cap Alive(c, ms) = {}
      BY <1>3, <2>2 DEF Alive
    <3> QED BY <2>1, <3>1, AccountsDead
  <2>3. CASE i \in Alive(c, ms)
    <3>1. I \subseteq Alive(c, ms)
      BY <1>3, <2>3 DEF Alive
    <3>2. PICK g \in [I -> hits] : \A x, y \in I : g[x] = g[y] => x = y
      <4> HIDE DEF I, hits
      <4> QED BY <1>1, <1>4, SmallerInjects
    <3>3. \A f \in hits : f \in c.claimed /\ f.key = ms[i].key /\ f \in Faces(n.used)
      BY <1>2, <2>3, CarriesKey DEF KeyDone
    <3> HIDE DEF hits
    <3> DEFINE L == K \cup I
               new == [j \in L |-> IF j \in I THEN g[j] ELSE face[j]]
    <3>4. K \cap I = {} /\ K \subseteq Named(ms) /\ face \in [K -> Faces(n.used)]
      BY <2>1 DEF Accounts, Alive
    <3>5. /\ \A j \in K : new[j] = face[j]
          /\ \A j \in I : new[j] = g[j] /\ g[j] \in hits
      BY <3>4
    <3>6. new \in [L -> Faces(n.used)]
      BY <3>2, <3>3, <3>4
    <3> HIDE DEF new
    <3>7. ((P \cup I) \cap Alive(c, ms)) \ L = (P \cap Alive(c, ms)) \ K
      BY <3>1, <3>4 DEF Accounts
    <3>8. ASSUME NEW j \in I PROVE Given(c, ms, n, j, new[j])
      BY <1>3, <3>3, <3>5 DEF Given
    <3>9. ASSUME NEW j \in K PROVE Given(c, ms, n, j, new[j])
      BY <2>1, <3>5 DEF Accounts
    <3>10. ASSUME NEW j \in K, NEW k \in I, new[j] = new[k] PROVE FALSE
      <4>1. Given(c, ms, n, j, face[j]) /\ face[j] \in hits
        BY <2>1, <3>5, <3>10 DEF Accounts
      <4>2. face[j].key = ms[j].key /\ face[j].key = ms[i].key
        BY <3>3, <4>1 DEF Given
      <4>3. j \in I
        BY <3>4, <4>2 DEF SameKey
      <4> QED BY <3>4, <4>3
    <3>11. \A j, k \in L : new[j] = new[k] => j = k
      BY <2>1, <3>2, <3>5, <3>10 DEF Accounts
    <3>12. L \in SUBSET ((P \cup I) \cap Alive(c, ms))
      BY <2>1, <3>1 DEF Accounts
    <3>13. Accounts(c, ms, n, P \cup I, L, new)
      <4>1. Cardinality(((P \cup I) \cap Alive(c, ms)) \ L) <= n.dropped
        <5> HIDE DEF L
        <5> QED BY <2>1, <3>7 DEF Accounts
      <4>2. \A j \in L : Given(c, ms, n, j, new[j])
        BY <3>8, <3>9
      <4> HIDE DEF L
      <4> QED BY <3>6, <3>11, <3>12, <4>1, <4>2 DEF Accounts
    <3> QED BY <3>13
  <2> QED BY <2>2, <2>3
<1>5. CASE ~(Cardinality(hits) > Cardinality(I))
  <2>1. n = OneByOne(c, b, ms, I, pairs)
    BY <1>5 DEF ValidateKey
  <2>2. pairs \subseteq I \X hits /\ Matching(pairs)
    <3>1. WellFormed(c.sc)
      BY DEF InContext
    <3> HIDE DEF hits, I
    <3> QED BY <1>1, <3>1, AssignIs
  <2> HIDE DEF pairs
  <2> QED BY <2>1, <2>2, OneByOneAccounts
<1> QED BY <1>4, <1>5

(***************************************************************************)
(* All keys of the capture, in the order of their first members.  Seen are *)
(* the members whose key has its turn among the first m.                   *)
(***************************************************************************)
Seen(ms, m) == {j \in Named(ms) : \E i \in SameKey(ms, j) : i <= m}

\* The i-th member is the first of its key.
Opens(ms, i) == i \in Named(ms) /\ IsLeast(i, SameKey(ms, i))

KeysBuiltBy(at, c, ms) ==
    /\ at[0] = Empty /\ at[Len(ms)] = ThroughKeys(c, ms)
    /\ \A i \in 1 .. Len(ms) :
         at[i] = IF Opens(ms, i) THEN ValidateKey(c, at[i - 1], ms, i) ELSE at[i - 1]

\* The keys of a capture, in the order of their first members.
LEMMA KeysBuiltSteps ==
    ASSUME NEW c, NEW ms, Len(ms) \in Nat
    PROVE  \E at : KeysBuiltBy(at, c, ms)
<1> DEFINE n == Len(ms)
           Step(x, i) == IF i \notin Named(ms) \/ ~IsLeast(i, SameKey(ms, i)) THEN x
                         ELSE ValidateKey(c, x, ms, i)
           Steps(f, m) == f[0] = Empty /\ \A i \in 1 .. m : f[i] = Step(f[i - 1], i)
           S == {m \in 0 .. n : \E f : Steps(f, m)}
           built[i \in 0 .. n] ==
               IF i = 0 THEN Empty
               ELSE IF i \notin Named(ms) \/ ~IsLeast(i, SameKey(ms, i)) THEN built[i - 1]
               ELSE ValidateKey(c, built[i - 1], ms, i)
<1>1. n \in Nat
  OBVIOUS
<1>2. 0 \in S
  <2> DEFINE f == [i \in {0} |-> Empty]
  <2>1. Steps(f, 0)
    OBVIOUS
  <2>2. \E g : Steps(g, 0)
    BY <2>1
  <2> HIDE DEF Steps
  <2> QED BY <1>1, <2>2
<1>3. ASSUME NEW m \in 0 .. (n - 1), m \in S
      PROVE  m + 1 \in S
  <2>1. PICK f : Steps(f, m)
    BY <1>3
  <2> DEFINE g == [i \in 0 .. (m + 1) |-> IF i <= m THEN f[i] ELSE Step(f[m], m + 1)]
  <2> HIDE DEF Step
  <2>2. ASSUME NEW i \in 1 .. (m + 1)
        PROVE  g[i] = Step(g[i - 1], i)
    <3>1. CASE i <= m
      BY <1>1, <2>1, <3>1
    <3>2. CASE i = m + 1
      BY <1>1, <3>2
    <3> QED BY <1>1, <3>1, <3>2
  <2>3. Steps(g, m + 1)
    BY <1>1, <2>1, <2>2
  <2>4. \E h : Steps(h, m + 1)
    BY <2>3
  <2>5. m + 1 \in 0 .. n
    BY <1>1
  <2> HIDE DEF Steps, n
  <2> QED BY <2>4, <2>5
<1>4. PICK f : Steps(f, n)
  <2> HIDE DEF Steps, n
  <2>1. n \in S
    BY <1>1, <1>2, <1>3, Induction
  <2> QED BY <2>1
<1>5. built = [i \in 0 .. n |-> IF i = 0 THEN Empty ELSE Step(built[i - 1], i)]
  <2> DEFINE h == [i \in 0 .. n |-> f[i]]
  <2>1. ASSUME NEW i \in 0 .. n
        PROVE  h[i] = IF i = 0 THEN Empty ELSE Step(h[i - 1], i)
    <3> HIDE DEF Step
    <3>1. CASE i = 0
      BY <1>1, <1>4, <3>1
    <3>2. CASE i # 0
      <4>1. i \in 1 .. n /\ i - 1 \in 0 .. n
        BY <1>1, <3>2
      <4> QED BY <1>4, <3>2, <4>1
    <3> QED BY <3>1, <3>2
  <2>2. h = [i \in 0 .. n |->
               IF i = 0 THEN Empty
               ELSE IF i \notin Named(ms) \/ ~IsLeast(i, SameKey(ms, i)) THEN h[i - 1]
               ELSE ValidateKey(c, h[i - 1], ms, i)]
    BY <2>1
  <2> HIDE DEF h, n
  <2>3. built = [i \in 0 .. n |->
               IF i = 0 THEN Empty
               ELSE IF i \notin Named(ms) \/ ~IsLeast(i, SameKey(ms, i)) THEN built[i - 1]
               ELSE ValidateKey(c, built[i - 1], ms, i)]
    BY <2>2
  <2> QED BY <2>3
<1> HIDE DEF built
<1>6. ASSUME NEW i \in 0 .. n
      PROVE  built[i] = IF i = 0 THEN Empty ELSE Step(built[i - 1], i)
  <2> HIDE DEF Step
  <2> QED BY <1>5
<1>7. ASSUME NEW i \in 1 .. n PROVE built[i] = Step(built[i - 1], i)
  <2>1. i \in 0 .. n /\ i # 0
    BY <1>1
  <2> HIDE DEF Step
  <2> QED BY <1>6, <2>1
<1>8. built[0] = Empty
  BY <1>1, <1>6
<1>9. built[n] = ThroughKeys(c, ms)
  BY DEF ThroughKeys, built
<1>10. KeysBuiltBy(built, c, ms)
  BY <1>7, <1>8, <1>9 DEF KeysBuiltBy, Opens
<1> QED BY <1>10

\* Who is seen next.
LEMMA SeenNext ==
    ASSUME NEW ms, IsCapture(ms), NEW m \in 0 .. Len(ms) - 1
    PROVE  /\ Opens(ms, m + 1) => /\ Seen(ms, m + 1) = Seen(ms, m) \cup SameKey(ms, m + 1)
                                  /\ Seen(ms, m) \cap SameKey(ms, m + 1) = {}
           /\ ~Opens(ms, m + 1) => Seen(ms, m + 1) = Seen(ms, m)
<1>1. m \in Int /\ Named(ms) \subseteq Int
  BY DEF IsCapture, Named, Via
<1>2. \A i : SameKey(ms, i) \subseteq Named(ms)
  BY DEF SameKey
<1>3. \A i, j \in Named(ms) : j \in SameKey(ms, i) => SameKey(ms, j) = SameKey(ms, i) /\ i \in SameKey(ms, j)
  BY DEF SameKey
<1>4. \A i : i <= m + 1 /\ i \in Int => i <= m \/ i = m + 1
  BY <1>1
<1>5. ASSUME NEW j \in Named(ms)
      PROVE  j \in Seen(ms, m + 1)
               <=> j \in Seen(ms, m) \/ (j \in SameKey(ms, m + 1) /\ m + 1 \in Named(ms))
  <2>1. ASSUME j \in Seen(ms, m + 1), j \notin Seen(ms, m)
        PROVE  j \in SameKey(ms, m + 1) /\ m + 1 \in Named(ms)
    <3>1. PICK i \in SameKey(ms, j) : i <= m + 1
      BY <2>1 DEF Seen
    <3>2. i = m + 1
      BY <1>1, <1>2, <2>1, <3>1 DEF Seen
    <3> QED BY <1>2, <1>3, <3>1, <3>2
  <2>2. ASSUME j \in Seen(ms, m) PROVE j \in Seen(ms, m + 1)
    BY <1>1, <1>2, <2>2 DEF Seen
  <2>3. ASSUME j \in SameKey(ms, m + 1), m + 1 \in Named(ms) PROVE j \in Seen(ms, m + 1)
    <3>1. m + 1 \in SameKey(ms, j) /\ m + 1 <= m + 1
      BY <1>1, <1>3, <2>3
    <3> QED BY <3>1 DEF Seen
  <2> QED BY <2>1, <2>2, <2>3
<1>6. Seen(ms, m) \subseteq Named(ms) /\ Seen(ms, m + 1) \subseteq Named(ms)
  BY DEF Seen
<1>7. ASSUME Opens(ms, m + 1), NEW j \in Seen(ms, m) \cap SameKey(ms, m + 1) PROVE FALSE
  <2>1. PICK i \in SameKey(ms, j) : i <= m
    BY <1>7 DEF Seen
  <2>2. i \in SameKey(ms, m + 1) /\ i \in Int
    BY <1>1, <1>2, <1>3, <1>7, <2>1 DEF Opens
  <2>3. m + 1 <= i
    BY <1>7, <2>2 DEF Opens, IsLeast
  <2> QED BY <1>1, <2>1, <2>2, <2>3
<1>8. ASSUME ~Opens(ms, m + 1), m + 1 \in Named(ms), NEW j \in SameKey(ms, m + 1)
      PROVE  j \in Seen(ms, m)
  <2>1. PICK i \in SameKey(ms, m + 1) : ~(m + 1 <= i)
    BY <1>8 DEF Opens, IsLeast
  <2>2. i \in Int /\ i <= m /\ j \in Named(ms)
    BY <1>1, <1>2, <1>8, <2>1
  <2>3. i \in SameKey(ms, j)
    BY <1>3, <1>8, <2>1, <2>2
  <2> QED BY <2>2, <2>3 DEF Seen
<1>9. ASSUME ~Opens(ms, m + 1) PROVE Seen(ms, m + 1) = Seen(ms, m)
  <2>1. ASSUME NEW j \in Seen(ms, m + 1) PROVE j \in Seen(ms, m)
    <3>1. j \in Named(ms)
      BY <1>6
    <3> QED BY <1>5, <1>8, <1>9, <3>1
  <2>2. ASSUME NEW j \in Seen(ms, m) PROVE j \in Seen(ms, m + 1)
    <3>1. j \in Named(ms)
      BY <1>6
    <3> QED BY <1>5, <3>1
  <2> QED BY <2>1, <2>2
<1>10. Opens(ms, m + 1) => Seen(ms, m + 1) = Seen(ms, m) \cup SameKey(ms, m + 1)
  BY <1>2, <1>5, <1>6 DEF Opens
<1> QED BY <1>7, <1>9, <1>10

\* What holds of one member of a key holds of the key.
LEMMA KeyDoneOfKey ==
    ASSUME NEW c, NEW ms, NEW i, NEW j \in SameKey(ms, i), NEW n, KeyDone(c, ms, i, n)
    PROVE  KeyDone(c, ms, j, n)
<1>1. ms[j].key = ms[i].key /\ SameKey(ms, j) = SameKey(ms, i)
  BY DEF SameKey
<1> QED BY <1>1 DEF KeyDone

\* What the first m members leave, if they all keep their word.
KeysGood(c, ms, m, x) ==
    /\ Follows(c, Empty, x)
    /\ x.fail = "none" =>
         /\ \A j \in Seen(ms, m) : KeyDone(c, ms, j, x)
         /\ \E L, new : Accounts(c, ms, x, Seen(ms, m), L, new)
         /\ (\A j \in Named(ms) : KeyStill(c, ms, j)) => x.warnings = {}

\* Before the first member nothing is claimed;
LEMMA KeysGoodFirst ==
    ASSUME NEW c, NEW ms, IsCapture(ms)
    PROVE  KeysGood(c, ms, 0, Empty)
<1>1. Fit(c, Empty) /\ Empty.used = {} /\ Empty.dropped = 0 /\ Empty.warnings = {}
  BY EmptyFits
<1>2. Follows(c, Empty, Empty)
  BY <1>1, FollowsItself
<1>3. Seen(ms, 0) = {}
  <2>1. ASSUME NEW j \in Seen(ms, 0) PROVE FALSE
    <3>1. PICK i \in SameKey(ms, j) : i <= 0
      BY DEF Seen
    <3>2. i \in 1 .. Len(ms) /\ Len(ms) \in Nat
      BY <3>1 DEF SameKey, Named, Via, IsCapture
    <3> QED BY <3>1, <3>2
  <2> QED BY <2>1
<1>4. Accounts(c, ms, Empty, {}, {}, [i \in {} |-> i])
  <2>1. ({} \cap Alive(c, ms)) \ {} = {} /\ Cardinality({}) = 0
    BY FS_EmptySet
  <2>2. Cardinality(({} \cap Alive(c, ms)) \ {}) <= Empty.dropped
    BY <1>1, <2>1
  <2>3. [i \in {} |-> i] \in [{} -> Faces(Empty.used)]
    OBVIOUS
  <2> QED BY <2>2, <2>3 DEF Accounts
<1>5. \E L, new : Accounts(c, ms, Empty, Seen(ms, 0), L, new)
  BY <1>3, <1>4
<1> QED BY <1>1, <1>2, <1>3, <1>5 DEF KeysGood

\* one member more keeps what holds of those seen.
LEMMA KeysGoodNext ==
    ASSUME NEW c, InContext(c), NEW ms, IsCapture(ms), Claims(c, ms),
           NEW m \in 0 .. Len(ms) - 1, NEW o, KeysGood(c, ms, m, o), NEW x,
           x = IF Opens(ms, m + 1) THEN ValidateKey(c, o, ms, m + 1) ELSE o
    PROVE  KeysGood(c, ms, m + 1, x)
<1>1. CASE ~Opens(ms, m + 1)
  BY <1>1, SeenNext DEF KeysGood
<1>2. CASE Opens(ms, m + 1)
  <2> DEFINE i == m + 1
             I == SameKey(ms, i)
             P == Seen(ms, m)
  <2>1. Seen(ms, i) = P \cup I /\ P \cap I = {} /\ i \in Named(ms) /\ x = ValidateKey(c, o, ms, i)
    BY <1>2, SeenNext DEF Opens
  <2>2. Follows(c, Empty, o) /\ Fit(c, o) /\ Fit(c, Empty)
    BY EmptyFits DEF KeysGood, Follows
  <2> HIDE DEF i, I, P
  <2>3. /\ Follows(c, o, x)
        /\ x.fail = "none" => KeyDone(c, ms, i, x)
        /\ x.fail = "none" /\ KeyStill(c, ms, i) => x.warnings = o.warnings
    BY <2>1, <2>2, KeyFollows
  <2>4. Follows(c, Empty, x)
    BY <2>2, <2>3, FollowsOn
  <2> SUFFICES ASSUME x.fail = "none"
               PROVE  /\ \A j \in Seen(ms, i) : KeyDone(c, ms, j, x)
                      /\ \E L, new : Accounts(c, ms, x, Seen(ms, i), L, new)
                      /\ (\A j \in Named(ms) : KeyStill(c, ms, j)) => x.warnings = {}
    BY <2>4 DEF KeysGood, i
  <2>5. o.fail = "none"
    BY <2>3 DEF Follows
  <2>6. ASSUME NEW j \in Seen(ms, i) PROVE KeyDone(c, ms, j, x)
    <3>1. CASE j \in P
      <4>1. KeyDone(c, ms, j, o)
        BY <2>5, <3>1 DEF KeysGood, P
      <4> QED BY <2>2, <2>3, <4>1, KeyDoneStays
    <3>2. CASE j \in I
      <4>1. KeyDone(c, ms, i, x) /\ j \in SameKey(ms, i)
        BY <2>3, <3>2 DEF I
      <4> QED BY <4>1, KeyDoneOfKey
    <3> QED BY <2>1, <3>1, <3>2
  <2>7. \E L, new : Accounts(c, ms, x, Seen(ms, i), L, new)
    <3>1. PICK K, face : Accounts(c, ms, o, P, K, face)
      BY <2>5 DEF KeysGood, P
    <3>2. P \cap SameKey(ms, i) = {}
      BY <2>1 DEF I
    <3>3. \E L, new : Accounts(c, ms, x, P \cup SameKey(ms, i), L, new)
      BY <2>1, <2>2, <3>1, <3>2, KeyAccounts
    <3> QED BY <2>1, <3>3 DEF I
  <2>8. ASSUME \A j \in Named(ms) : KeyStill(c, ms, j) PROVE x.warnings = {}
    <3>1. o.warnings = {}
      BY <2>5, <2>8 DEF KeysGood
    <3> QED BY <2>1, <2>3, <2>8, <3>1
  <2> QED BY <2>6, <2>7, <2>8
<1> QED BY <1>1, <1>2

\* When all members had their turn.
LEMMA ThroughKeysIs ==
    ASSUME NEW c, InContext(c), NEW ms, IsCapture(ms), Claims(c, ms), NEW n, n = ThroughKeys(c, ms)
    PROVE  /\ Fit(c, n)
           /\ n.fail = "none" =>
                /\ \A j \in Named(ms) : KeyDone(c, ms, j, n)
                /\ \E L, new : Accounts(c, ms, n, Named(ms), L, new)
                /\ (\A j \in Named(ms) : KeyStill(c, ms, j)) => n.warnings = {}
<1> DEFINE len == Len(ms)
<1>1. len \in Nat
  BY DEF IsCapture
<1>2. PICK at : KeysBuiltBy(at, c, ms)
  BY <1>1, KeysBuiltSteps
<1> DEFINE T == {k \in 0 .. len : KeysGood(c, ms, k, at[k])}
<1>3. 0 \in T
  BY <1>1, <1>2, KeysGoodFirst DEF KeysBuiltBy
<1>4. ASSUME NEW k \in 0 .. len - 1, k \in T PROVE k + 1 \in T
  <2>1. k + 1 \in 1 .. len /\ k + 1 \in 0 .. len /\ (k + 1) - 1 = k
    BY <1>1
  <2>2. at[k + 1] = IF Opens(ms, k + 1) THEN ValidateKey(c, at[k], ms, k + 1) ELSE at[k]
    BY <1>2, <2>1 DEF KeysBuiltBy
  <2>3. KeysGood(c, ms, k, at[k])
    BY <1>4
  <2>4. KeysGood(c, ms, k + 1, at[k + 1])
    <3> DEFINE o == at[k]
               x == at[k + 1]
    <3>1. KeysGood(c, ms, k, o) /\ x = IF Opens(ms, k + 1) THEN ValidateKey(c, o, ms, k + 1) ELSE o
      BY <2>2, <2>3
    <3>2. k \in 0 .. Len(ms) - 1
      OBVIOUS
    <3> HIDE DEF o, x
    <3>3. KeysGood(c, ms, k + 1, x)
      BY <3>1, <3>2, KeysGoodNext
    <3> QED BY <3>3 DEF x
  <2> QED BY <2>1, <2>4
<1>5. len \in T
  <2> HIDE DEF T, len
  <2> QED BY <1>1, <1>3, <1>4, Induction
<1>6. KeysGood(c, ms, len, n)
  BY <1>2, <1>5 DEF KeysBuiltBy
<1>7. Seen(ms, len) = Named(ms)
  <2>1. ASSUME NEW j \in Named(ms) PROVE j \in Seen(ms, len)
    <3>1. j \in SameKey(ms, j) /\ j <= len
      BY <1>1 DEF SameKey, Named, Via, IsCapture
    <3> QED BY <3>1 DEF Seen
  <2> QED BY <2>1 DEF Seen
<1> QED BY <1>6, <1>7 DEF KeysGood, Follows

(***************************************************************************)
(* The whole resolution: the members of the capture, the rest of what the  *)
(* query selects, the cardinality, the outcome.                            *)
(***************************************************************************)
LEMMA EvalSelects ==
    ASSUME NEW sc, NEW q
    PROVE  Eval(sc, q).all \in SUBSET sc.faces
<1>1. \A value : EvalNode(sc, q, value).all \in SUBSET sc.faces
  BY DEF EvalNode, Combined
<1> QED BY <1>1 DEF Eval

\* The context of a reference whose query is not rejected.
Reading(r, sc) == Context(r, sc, FALSE)

\* The context of a resolution is well-formed, whatever the query.
LEMMA ContextIs ==
    ASSUME NEW r, NEW sc, WellFormed(sc), NEW c, c = Reading(r, sc)
    PROVE  /\ c.sc = sc /\ c.q = r.q /\ c.card = r.card /\ c.all = Selected(sc, r.q)
           /\ InContext(c) /\ Claims(c, r.members)
<1> DEFINE got == Eval(sc, r.q)
           claims == got.all \cap UNION {Carrying(sc, k) : k \in KeysOf(r.members, Named(r.members))}
<1>1. c = [sc |-> sc, q |-> r.q, card |-> r.card, rejected |-> FALSE,
           all |-> got.all, named |-> got.named, claimed |-> claims]
  BY DEF Context, ContextOf, Reading
<1>2. got.all \in SUBSET sc.faces
  BY EvalSelects
<1>3. got.all = Selected(sc, r.q)
  BY DEF Selected
<1> HIDE DEF got, claims
<1>4. /\ c.sc = sc /\ c.q = r.q /\ c.card = r.card /\ c.all = got.all /\ c.claimed = claims
      /\ ~c.rejected
  BY <1>1
<1>5. InContext(c)
  BY <1>2, <1>4 DEF InContext
<1>6. claims = got.all \cap UNION {Carrying(sc, k) : k \in KeysOf(r.members, Named(r.members))}
  BY DEF claims
<1>7. Claims(c, r.members)
  BY <1>4, <1>6 DEF Claims
<1> QED BY <1>3, <1>4, <1>5, <1>7

\* How the rest of the selection is used.
RestUsed(c, b, u) ==
    /\ u.face \in c.all \ (b.consumed \cup Faces(b.used))
    /\ u.via = IF u.face \in c.named THEN "named" ELSE "broad"
    /\ u.status = "exact"

\* The rest adds what the query selects and no member consumed, and nothing else.
LEMMA RestIs ==
    ASSUME NEW c, NEW b, IsBuilder(b), NEW n, n = Rest(c, b)
    PROVE  /\ IsBuilder(n) /\ n.fail = b.fail /\ n.unresolved = b.unresolved
           /\ n.consumed = b.consumed /\ n.repaired = b.repaired /\ n.dropped = b.dropped
           /\ n.warnings = b.warnings
           /\ \A u \in b.used : u \in n.used
           /\ \A u \in n.used : u \in b.used \/ RestUsed(c, b, u)
           /\ Faces(n.used) = Faces(b.used) \cup (c.all \ b.consumed)
<1> DEFINE Entry(f) == [face |-> f, via |-> IF f \in c.named THEN "named" ELSE "broad",
                        status |-> "exact"]
           new == {Entry(f) : f \in c.all \ (b.consumed \cup Faces(b.used))}
           more == b.used \cup new
<1>1. n = [b EXCEPT !.used = more]
  BY DEF Rest
<1>2. \A u \in new : RestUsed(c, b, u)
  BY DEF RestUsed
<1>3. \A f \in c.all \ (b.consumed \cup Faces(b.used)) : Entry(f) \in new /\ Entry(f).face = f
  OBVIOUS
<1>4. more = b.used \cup new
  OBVIOUS
<1> HIDE DEF more, new, Entry
<1>5. n = [used |-> more, consumed |-> b.consumed, fail |-> b.fail,
           unresolved |-> b.unresolved, split |-> b.split, repaired |-> b.repaired,
           splits |-> b.splits, dropped |-> b.dropped, warnings |-> b.warnings]
  BY <1>1 DEF IsBuilder
<1>6. /\ IsBuilder(n) /\ n.fail = b.fail /\ n.unresolved = b.unresolved
      /\ n.consumed = b.consumed /\ n.repaired = b.repaired /\ n.dropped = b.dropped
      /\ n.warnings = b.warnings /\ n.used = more
  BY <1>5 DEF IsBuilder
<1>7. ASSUME NEW f \in c.all \ b.consumed PROVE f \in Faces(more)
  BY <1>3, <1>4 DEF Faces
<1>8. Faces(more) = Faces(b.used) \cup (c.all \ b.consumed)
  <2>1. \A f \in Faces(more) : f \in Faces(b.used) \/ f \in c.all \ b.consumed
    BY <1>2, <1>4 DEF Faces, RestUsed
  <2>2. Faces(b.used) \subseteq Faces(more)
    BY <1>4 DEF Faces
  <2> QED BY <1>7, <2>1, <2>2
<1> QED BY <1>2, <1>4, <1>6, <1>8

\* The check of the cardinality fails or leaves everything as it is.
LEMMA CheckCardIs ==
    ASSUME NEW c, NEW b, IsBuilder(b)
    PROVE  CheckCard(c, b) = b \/ CheckCard(c, b).fail # "none"
<1> DEFINE all == InOrder(Faces(b.used), LAMBDA f, g :
                      \/ f \in b.consumed /\ g \notin b.consumed
                      \/ (f \in b.consumed) = (g \in b.consumed) /\ Precedes(f, g))
<1>1. "fail" \in DOMAIN b /\ "unresolved" \in DOMAIN b
  BY DEF IsBuilder
<1>2. Missing(c, b).fail # "none"
  <2> DEFINE told == [i \in 1 .. Cardinality({f \in {SourceFeature(s) : s \in Sources(c.q)} :
                            c.sc.status[f] = "suppressed"}) |-> [key |-> Keyless, candidates |-> <<>>]]
             u == IF b.unresolved = <<>> THEN told ELSE b.unresolved
  <2>1. Missing(c, b) = [b EXCEPT !.fail = "REF_MISSING", !.unresolved = u]
    BY DEF Missing
  <2> HIDE DEF u
  <2> QED BY <1>1, <2>1
<1>3. TellSplits(b).fail # "none"
  <2> DEFINE larger == Larger(b.splits)
             u == b.unresolved \o [i \in DOMAIN larger |->
                    [key |-> larger[i].key,
                     candidates |-> FirstOf(larger[i].pieces, MaxCandidates)]]
  <2>1. TellSplits(b) = [b EXCEPT !.fail = "REF_SPLIT", !.unresolved = u]
    BY DEF TellSplits
  <2> HIDE DEF u
  <2> QED BY <1>1, <2>1
<1>4. [b EXCEPT !.fail = "REF_CARDINALITY"].fail # "none"
  BY <1>1
<1>5. \A code : code # "none" => Unresolved(b, Keyless, all, code).fail # "none"
  <2> HIDE DEF all
  <2> QED BY UnresolvedFails
<1>6. \/ CheckCard(c, b) = b
      \/ CheckCard(c, b) = Missing(c, b)
      \/ CheckCard(c, b) = Unresolved(b, Keyless, all, IF b.split THEN "REF_SPLIT" ELSE "REF_AMBIGUOUS")
      \/ CheckCard(c, b) = TellSplits(b)
      \/ CheckCard(c, b) = [b EXCEPT !.fail = "REF_CARDINALITY"]
  BY DEF CheckCard
<1> HIDE DEF all
<1>7. Unresolved(b, Keyless, all, IF b.split THEN "REF_SPLIT" ELSE "REF_AMBIGUOUS").fail # "none"
  BY <1>5
<1> QED BY <1>2, <1>3, <1>4, <1>6, <1>7

\* What the captured members leave to the rest.
Placed(r, c) == IF r.captured THEN ThroughKeys(c, r.members) ELSE Empty

\* What is known of the builder once all captured members are through.
LEMMA PlacedIs ==
    ASSUME NEW r, IsCapture(r.members), NEW c, InContext(c), Claims(c, r.members),
           NEW b, b = Placed(r, c)
    PROVE  /\ Fit(c, b)
           /\ r.captured /\ b.fail = "none" =>
                /\ \A j \in Named(r.members) : KeyDone(c, r.members, j, b)
                /\ \E L, new : Accounts(c, r.members, b, Named(r.members), L, new)
                /\ (\A j \in Named(r.members) : KeyStill(c, r.members, j)) => b.warnings = {}
           /\ ~r.captured => b = Empty
<1>1. CASE r.captured
  <2>1. b = ThroughKeys(c, r.members)
    BY <1>1 DEF Placed
  <2> QED BY <1>1, <2>1, ThroughKeysIs
<1>2. CASE ~r.captured
  BY <1>2, EmptyFits DEF Placed
<1> QED BY <1>1, <1>2

\* What resolves is what the builder has, and a proposal is made of it.
LEMMA OutcomeIs ==
    ASSUME NEW r, NEW c, NEW b, NEW changed, NEW res, res = Outcome(r, c, b, changed)
    PROVE  /\ b.fail # "none" => res.status = "failed" /\ res.proposal = Nothing
           /\ b.fail = "none" =>
                /\ res.status \in {"exact", "accepted"}
                /\ res.status = IF b.warnings = {} /\ ~changed THEN "exact" ELSE "accepted"
                /\ res.used = b.used /\ res.dropped = b.dropped /\ res.unresolved = b.unresolved
                /\ res.changed = changed
                /\ res.proposal = IF changed \/ b.repaired THEN <<Proposal(r, c, b)>> ELSE Nothing
<1>1. CASE b.fail # "none"
  BY <1>1 DEF Outcome, Failed
<1>2. CASE b.fail = "none"
  <2> DEFINE status == IF b.warnings = {} /\ ~changed THEN "exact" ELSE "accepted"
             proposal == IF changed \/ b.repaired THEN <<Proposal(r, c, b)>> ELSE Nothing
  <2>1. res = [status |-> status, code |-> "none", used |-> b.used, shown |-> b.used,
               unresolved |-> b.unresolved, changed |-> changed, dropped |-> b.dropped,
               proposal |-> proposal]
    BY <1>2 DEF Outcome
  <2> HIDE DEF status, proposal
  <2>2. /\ res.status = status /\ res.used = b.used /\ res.dropped = b.dropped
        /\ res.unresolved = b.unresolved /\ res.changed = changed /\ res.proposal = proposal
    BY <2>1
  <2> QED BY <1>2, <2>2 DEF status, proposal
<1> QED BY <1>1, <1>2

\* A resolution that does not fail, and what it was built from.
Resolved(r, sc, res, c, b, n) ==
    /\ Evaluates(sc, r.q)
    /\ b.fail = "none" /\ SoundSoFar(c, b)
    /\ res.used = n.used /\ res.dropped = b.dropped /\ res.unresolved = <<>>
    /\ Faces(n.used) = Faces(b.used) \cup c.all /\ Faces(n.used) \in SUBSET sc.faces
    /\ res.changed = (r.captured /\ SetChanged(c, n, r.members))
    /\ res.status = IF b.warnings = {} /\ ~res.changed THEN "exact" ELSE "accepted"
    /\ res.proposal = IF res.changed \/ b.repaired THEN <<Proposal(r, c, n)>> ELSE Nothing
    /\ CheckCard(c, n) = n

\* A resolution that does not fail ran every step and failed in none.
LEMMA ResolveIs ==
    ASSUME NEW r, IsCapture(r.members), NEW sc, WellFormed(sc), NEW res, res = Resolve(r, sc),
           res.status # "failed",
           NEW c, c = Reading(r, sc), NEW b, b = Placed(r, c), NEW n, n = Rest(c, b)
    PROVE  Resolved(r, sc, res, c, b, n)
<1>1. InContext(c) /\ Claims(c, r.members) /\ c.sc = sc
  BY ContextIs
<1>2. Fit(c, b) /\ IsBuilder(b)
  BY <1>1, PlacedIs DEF Fit
<1>3. /\ IsBuilder(n) /\ n.fail = b.fail /\ n.unresolved = b.unresolved
      /\ n.consumed = b.consumed /\ n.repaired = b.repaired /\ n.dropped = b.dropped
      /\ n.warnings = b.warnings
      /\ Faces(n.used) = Faces(b.used) \cup (c.all \ b.consumed)
  BY <1>2, RestIs
<1>4. \A code, shown, unresolved : Failed(code, shown, unresolved).status = "failed"
  BY DEF Failed
<1>5. ~UnknownCurve(sc, r.q) /\ ~BlockedSource(sc, r.q)
  BY <1>4 DEF Resolve
<1>6. n = Members(r, c)
  BY DEF Members, Placed
<1>7. res = Told(r, c, CheckCard(c, n))
  BY <1>5, <1>6 DEF Resolve, Checked, Reading
<1> DEFINE Changes(x) == r.captured /\ SetChanged(c, x, r.members)
<1>8. CheckCard(c, n) = n /\ n.fail = "none"
  <2> DEFINE x == CheckCard(c, n)
  <2>1. res = Outcome(r, c, x, Changes(x))
    BY <1>7 DEF Told
  <2> HIDE DEF x, Changes
  <2>2. x.fail = "none"
    BY <2>1, OutcomeIs
  <2> QED BY <1>3, <2>2, CheckCardIs DEF x
<1>9. res = Outcome(r, c, n, Changes(n))
  BY <1>7, <1>8 DEF Told
<1> HIDE DEF Changes
<1>11. SoundSoFar(c, b)
  BY <1>2, <1>3, <1>8 DEF Fit
<1>12. Faces(n.used) = Faces(b.used) \cup c.all /\ Faces(n.used) \in SUBSET sc.faces
  BY <1>1, <1>3, <1>11 DEF SoundSoFar, InContext
<1>13. /\ res.used = n.used /\ res.dropped = b.dropped /\ res.unresolved = b.unresolved
       /\ res.changed = Changes(n)
       /\ res.status = IF b.warnings = {} /\ ~Changes(n) THEN "exact" ELSE "accepted"
       /\ res.proposal = IF Changes(n) \/ b.repaired THEN <<Proposal(r, c, n)>> ELSE Nothing
  BY <1>3, <1>8, <1>9, OutcomeIs
<1>14. res.changed = (r.captured /\ SetChanged(c, n, r.members))
  BY <1>13 DEF Changes
<1>15. Evaluates(sc, r.q) /\ res.unresolved = <<>>
  BY <1>5, <1>11, <1>13 DEF Evaluates, SoundSoFar
<1> QED BY <1>3, <1>8, <1>11, <1>12, <1>13, <1>14, <1>15 DEF Resolved

\* A failure proposes nothing.
LEMMA FailedProposesNothing ==
    ASSUME NEW r, NEW sc, Resolve(r, sc).status = "failed"
    PROVE  Resolve(r, sc).proposal = Nothing
<1>1. \A code, shown, unresolved :
        Failed(code, shown, unresolved).proposal = Nothing
  BY DEF Failed
<1>2. ASSUME NEW c, NEW b, NEW changed, Outcome(r, c, b, changed).status = "failed"
      PROVE  Outcome(r, c, b, changed).proposal = Nothing
  <2> DEFINE res == Outcome(r, c, b, changed)
  <2>1. res = Outcome(r, c, b, changed) /\ res.status = "failed"
    BY <1>2
  <2> HIDE DEF res
  <2>2. b.fail # "none"
    BY <2>1, OutcomeIs
  <2>3. res.proposal = Nothing
    BY <2>1, <2>2, OutcomeIs
  <2> QED BY <2>3 DEF res
<1> QED BY <1>1, <1>2 DEF Resolve, Checked, Told

(***************************************************************************)
(* A capture.                                                              *)
(***************************************************************************)
LEMMA NeighborsIs ==
    ASSUME NEW sc, WellFormed(sc), NEW f
    PROVE  Neighbors(sc, f) \in Nat
<1>1. Adjoining(sc, f) \in SUBSET sc.faces /\ IsFiniteSet(sc.faces)
  BY DEF Adjoining, WellFormed
<1> QED BY <1>1, FS_Subset, FS_CardinalityType DEF Neighbors

\* A capture lists the fingerprints of what was used, in canonical order.
LEMMA CaptureIs ==
    ASSUME NEW sc, WellFormed(sc), NEW used, Faces(used) \in SUBSET sc.faces,
           NEW ms, ms = Capture(sc, used), NEW order, order = Canonical(Faces(used))
    PROVE  /\ IsCapture(ms) /\ Len(ms) = Cardinality(Faces(used)) /\ DOMAIN ms = DOMAIN order
           /\ DOMAIN order = 1 .. Len(ms)
           /\ \A i \in DOMAIN ms : \E u \in used :
                /\ u.face = order[i] /\ ms[i] = Fingerprint(sc, u)
<1> DEFINE n == Cardinality(Faces(used))
<1>1. n \in Nat /\ DOMAIN order = 1 .. n /\ \A i \in 1 .. n : order[i] \in Faces(used)
  BY CanonicalLists
<1>2. ms = [i \in 1 .. n |-> Fingerprint(sc, CHOOSE u \in used : u.face = order[i])]
  BY <1>1 DEF Capture
<1>3. ASSUME NEW i \in 1 .. n
      PROVE  \E u \in used : u.face = order[i] /\ ms[i] = Fingerprint(sc, u)
  <2>1. \E u \in used : u.face = order[i]
    BY <1>1 DEF Faces
  <2> DEFINE u == CHOOSE x \in used : x.face = order[i]
  <2>2. u \in used /\ u.face = order[i]
    BY <2>1
  <2>3. ms[i] = Fingerprint(sc, u)
    BY <1>2
  <2> HIDE DEF u
  <2> QED BY <2>2, <2>3
<1> DEFINE R == {ms[i] : i \in 1 .. n}
<1> HIDE DEF n
<1>4. ms \in [1 .. n -> R]
  <2>1. DOMAIN ms = 1 .. n /\ ms = [i \in 1 .. n |-> ms[i]]
    BY <1>2
  <2> HIDE DEF R
  <2>2. \A i \in 1 .. n : ms[i] \in R
    BY DEF R
  <2> QED BY <2>1, <2>2
<1>5. ms \in Seq(R)
  <2> HIDE DEF R
  <2> QED BY <1>1, <1>4, SeqDef
<1>6. Len(ms) = n /\ DOMAIN ms = 1 .. n
  <2> HIDE DEF R
  <2>1. Len(ms) \in Nat /\ DOMAIN ms = 1 .. Len(ms)
    BY <1>5, LenProperties
  <2>2. DOMAIN ms = 1 .. n
    BY <1>4
  <2>3. \A k \in Nat : k \in 1 .. n <=> k \in 1 .. Len(ms)
    BY <2>1, <2>2
  <2>4. n <= Len(ms) /\ Len(ms) <= n
    BY <1>1, <2>1, <2>3
  <2>5. n \in Nat /\ Len(ms) \in Nat
    BY <1>1, <2>1
  <2>6. Len(ms) = n
    BY ONLY <2>4, <2>5
  <2> QED BY <2>2, <2>6
<1>7. ASSUME NEW i \in 1 .. n PROVE IsMember(ms[i])
  <2>1. PICK u \in used : u.face = order[i] /\ ms[i] = Fingerprint(sc, u)
    BY <1>3
  <2>2. u.face \in sc.faces
    BY <1>1, <2>1
  <2>3. ms[i].neighbors = Neighbors(sc, u.face) /\ ms[i].lo = u.face.lo /\ ms[i].hi = u.face.hi
    BY <2>1 DEF Fingerprint
  <2>4. Neighbors(sc, u.face) \in Nat
    BY NeighborsIs
  <2> QED BY <2>2, <2>3, <2>4 DEF IsMember, WellFormed
<1> QED BY <1>1, <1>3, <1>6, <1>7 DEF IsCapture, n

\* An empty capture names nothing.
LEMMA NoMembers == IsCapture(<<>>) /\ Named(<<>>) = {}
BY DEF IsCapture, Named, Via

(***************************************************************************)
(* The reference in the document: a record whose capture is one that the   *)
(* resolver made, of a part there can be.                                  *)
(***************************************************************************)
IsReference(r) ==
    /\ r = [q |-> r.q, card |-> r.card, captured |-> r.captured, members |-> r.members]
    /\ r.captured \in BOOLEAN
    /\ IsCapture(r.members)
    /\ ~r.captured => r.members = <<>>

RefInv == scope \in Scopes /\ IsReference(ref)

\* The references that commands make: without a capture,
LEMMA UncapturedIs ==
    ASSUME NEW q, NEW card, NEW r, r = Uncaptured(q, card)
    PROVE  IsReference(r) /\ ~r.captured /\ r.q = q /\ r.card = card
<1>1. r = [q |-> q, card |-> card, captured |-> FALSE, members |-> <<>>]
  BY DEF Uncaptured
<1>2. r.q = q /\ r.card = card /\ r.members = <<>>
  BY <1>1
<1>3. r.captured = FALSE
  BY <1>1
<1>4. r = [q |-> r.q, card |-> r.card, captured |-> r.captured, members |-> r.members]
  BY <1>1, <1>2, <1>3
<1> QED BY <1>2, <1>3, <1>4, NoMembers DEF IsReference

\* A reference with a fresh capture; its query may be rewritten too.
LEMMA CapturedIs ==
    ASSUME NEW sc, WellFormed(sc), NEW used, Faces(used) \in SUBSET sc.faces, NEW q, NEW card,
           NEW r, r = [q |-> q, card |-> card, captured |-> TRUE, members |-> Capture(sc, used)]
    PROVE  /\ IsReference(r) /\ r.captured /\ r.q = q /\ r.card = card
           /\ r.members = Capture(sc, used)
<1> DEFINE ms == Capture(sc, used)
<1>1. IsCapture(ms)
  BY CaptureIs
<1>2. r = [q |-> q, card |-> card, captured |-> TRUE, members |-> ms]
  OBVIOUS
<1> HIDE DEF ms
<1>3. r.q = q /\ r.card = card /\ r.members = ms
  BY <1>2
<1>4. r.captured = TRUE
  BY <1>2
<1>5. r = [q |-> r.q, card |-> r.card, captured |-> r.captured, members |-> r.members]
  BY <1>2, <1>3, <1>4
<1>6. IsReference(r)
  BY <1>1, <1>3, <1>4, <1>5 DEF IsReference
<1> QED BY <1>3, <1>4, <1>6 DEF ms

\* with a fresh one,
LEMMA RecapturedIs ==
    ASSUME NEW r, IsReference(r), WellFormed(scope), NEW fresh, Faces(fresh.used) \in SUBSET scope.faces,
           NEW n, n = Recaptured(r, fresh)
    PROVE  /\ IsReference(n) /\ n.captured /\ n.q = r.q /\ n.card = r.card
           /\ n.members = Capture(scope, fresh.used)
<1> DEFINE ms == Capture(scope, fresh.used)
<1>1. n = [r EXCEPT !.captured = TRUE, !.members = ms]
  BY DEF Recaptured
<1> HIDE DEF ms
<1>2. n = [q |-> r.q, card |-> r.card, captured |-> TRUE, members |-> ms]
  BY <1>1 DEF IsReference
<1>3. n = [q |-> r.q, card |-> r.card, captured |-> TRUE, members |-> Capture(scope, fresh.used)]
  BY <1>2 DEF ms
<1> QED BY <1>3, CapturedIs

\* and with that of a proposal.
LEMMA ProposalIs ==
    ASSUME NEW r, IsReference(r), NEW c, WellFormed(c.sc), NEW b, Faces(b.used) \in SUBSET c.sc.faces,
           NEW n, n = Proposal(r, c, b)
    PROVE  /\ IsReference(n) /\ n.captured /\ n.card = r.card
           /\ n.q \in {r.q, Rewrite(c.sc, r.q, b.used)}
           /\ n.members = Capture(c.sc, b.used)
<1> DEFINE ms == Capture(c.sc, b.used)
           query == IF b.repaired THEN Rewrite(c.sc, r.q, b.used) ELSE r.q
<1>1. n = [r EXCEPT !.captured = TRUE, !.members = ms, !.q = query]
  BY DEF Proposal
<1> HIDE DEF ms, query
<1>2. n = [q |-> query, card |-> r.card, captured |-> TRUE, members |-> ms]
  BY <1>1 DEF IsReference
<1>3. n = [q |-> query, card |-> r.card, captured |-> TRUE, members |-> Capture(c.sc, b.used)]
  BY <1>2 DEF ms
<1>4. /\ IsReference(n) /\ n.captured /\ n.card = r.card /\ n.q = query
      /\ n.members = Capture(c.sc, b.used)
  BY <1>3, CapturedIs
<1> QED BY <1>4 DEF query

\* The faces of a resolution that does not fail are the part's.
LEMMA ResolvesToFaces ==
    ASSUME NEW r, IsCapture(r.members), NEW sc, WellFormed(sc), NEW res, res = Resolve(r, sc),
           res.status # "failed"
    PROVE  Faces(res.used) \in SUBSET sc.faces
<1> DEFINE c == Reading(r, sc)
           b == Placed(r, c)
           n == Rest(c, b)
<1>1. c = Reading(r, sc) /\ b = Placed(r, c) /\ n = Rest(c, b)
  OBVIOUS
<1> HIDE DEF c, b, n
<1>2. Resolved(r, sc, res, c, b, n)
  BY <1>1, ResolveIs
<1> QED BY <1>2 DEF Resolved

\* A reference that is read afresh: its query alone.
LEMMA FreshIs ==
    ASSUME NEW r, IsReference(r), NEW n, n = [r EXCEPT !.captured = TRUE, !.members = <<>>]
    PROVE  IsReference(n) /\ n.captured /\ n.q = r.q /\ n.card = r.card /\ n.members = <<>>
<1>1. n = [q |-> r.q, card |-> r.card, captured |-> TRUE, members |-> <<>>]
  BY DEF IsReference
<1>2. n.q = r.q /\ n.card = r.card /\ n.members = <<>>
  BY <1>1
<1>3. n.captured = TRUE
  BY <1>1
<1>4. n = [q |-> n.q, card |-> n.card, captured |-> n.captured, members |-> n.members]
  BY <1>1, <1>2, <1>3
<1> QED BY <1>2, <1>3, <1>4, NoMembers DEF IsReference

\* What a query gives through an empty capture is in the part.
LEMMA FreshFaces ==
    ASSUME NEW r, IsReference(r), WellFormed(scope), ReadFresh(r).status # "failed"
    PROVE  Faces(ReadFresh(r).used) \in SUBSET scope.faces
<1> DEFINE n == [r EXCEPT !.captured = TRUE, !.members = <<>>]
           res == ReadFresh(r)
<1>1. res = Resolve(n, scope)
  BY DEF ReadFresh
<1>2. IsReference(n)
  BY FreshIs
<1>3. res.status # "failed"
  OBVIOUS
<1> HIDE DEF n, res
<1>4. Faces(res.used) \in SUBSET scope.faces
  BY <1>1, <1>2, <1>3, ResolvesToFaces DEF IsReference
<1> QED BY <1>4 DEF res

\* What a command writes.
LEMMA ProposedIs ==
    ASSUME NEW r, IsReference(r), NEW sc, WellFormed(sc), NEW res, res = Resolve(r, sc),
           res.proposal # Nothing
    PROVE  /\ res.status # "failed"
           /\ IsReference(res.proposal[1])
<1>1. res.status # "failed"
  BY FailedProposesNothing
<1> DEFINE c == Reading(r, sc)
           b == Placed(r, c)
           n == Rest(c, b)
<1>2. c = Reading(r, sc) /\ b = Placed(r, c) /\ n = Rest(c, b)
  OBVIOUS
<1> HIDE DEF c, b, n
<1>3. IsCapture(r.members)
  BY DEF IsReference
<1>4. /\ Faces(n.used) \in SUBSET sc.faces
      /\ res.proposal = IF res.changed \/ b.repaired THEN <<Proposal(r, c, n)>> ELSE Nothing
  <2>1. Resolved(r, sc, res, c, b, n)
    BY <1>1, <1>2, <1>3, ResolveIs
  <2> QED BY <2>1 DEF Resolved
<1>5. c.sc = sc
  BY <1>2, ContextIs
<1> DEFINE p == Proposal(r, c, n)
<1>6. res.proposal = <<p>>
  BY <1>4
<1>7. IsReference(p)
  BY <1>4, <1>5, ProposalIs
<1> HIDE DEF p
<1> QED BY <1>1, <1>6, <1>7

\* The invariant holds at first
LEMMA RefInitInv == RefInit => RefInv
<1> SUFFICES ASSUME RefInit PROVE RefInv
  OBVIOUS
<1>1. ref = Uncaptured(ref.q, ref.card) /\ scope \in Scopes
  BY WrittenAssumption DEF RefInit
<1>2. IsReference(ref)
  BY <1>1, UncapturedIs
<1> QED BY <1>1, <1>2 DEF RefInv

\* and in every step: only the three commands write, and each writes a capture.
LEMMA RefNextInv == RefInv /\ [RefNext]_refVars => RefInv'
<1> SUFFICES ASSUME RefInv, [RefNext]_refVars PROVE RefInv'
  OBVIOUS
<1>0. scope \in Scopes /\ WellFormed(scope) /\ IsReference(ref)
  BY ScopesAssumption DEF RefInv
<1>1. CASE UNCHANGED refVars
  BY <1>0, <1>1 DEF refVars, RefInv, IsReference
<1>2. CASE Edit
  BY <1>0, <1>2 DEF Edit, RefInv, IsReference
<1>3. CASE ReadCandidate
  BY <1>0, <1>3 DEF ReadCandidate, RefInv, IsReference
<1>4. CASE Forget
  BY <1>0, <1>4 DEF Forget, RefInv, IsReference
<1>5. ASSUME IsReference(ref'), scope' = scope PROVE RefInv'
  BY <1>0, <1>5 DEF RefInv, IsReference
<1>6. CASE CaptureRef
  <2> DEFINE fresh == ReadFresh(ref)
  <2>1. fresh.status # "failed" /\ ref' = Recaptured(ref, fresh) /\ scope' = scope
    BY <1>6 DEF CaptureRef
  <2>2. Faces(fresh.used) \in SUBSET scope.faces
    BY <1>0, <2>1, FreshFaces
  <2> HIDE DEF fresh
  <2>3. IsReference(ref')
    BY <1>0, <2>1, <2>2, RecapturedIs
  <2> QED BY <1>5, <2>1, <2>3
<1>7. CASE AcceptRefProposal
  <2> DEFINE cur == Resolve(ref, scope)
  <2>1. cur.proposal # Nothing /\ ref' = cur.proposal[1] /\ scope' = scope
    BY <1>7 DEF AcceptRefProposal
  <2>2. cur = Resolve(ref, scope)
    OBVIOUS
  <2> HIDE DEF cur
  <2>3. IsReference(ref')
    BY <1>0, <2>1, <2>2, ProposedIs
  <2> QED BY <1>5, <2>1, <2>3
<1>8. CASE AcceptRefCandidate
  <2>1. PICK q : \E fresh \in {ReadFresh(Uncaptured(q, ref.card))} :
                    /\ fresh.status # "failed"
                    /\ ref' = Recaptured(Uncaptured(q, ref.card), fresh)
                    /\ scope' = scope
    BY <1>8 DEF AcceptRefCandidate
  <2> DEFINE r == Uncaptured(q, ref.card)
             fresh == ReadFresh(r)
  <2>2. IsReference(r)
    BY UncapturedIs
  <2>3. fresh.status # "failed" /\ ref' = Recaptured(r, fresh) /\ scope' = scope
    BY <2>1
  <2> HIDE DEF r
  <2>4. Faces(fresh.used) \in SUBSET scope.faces
    BY <1>0, <2>2, <2>3, FreshFaces
  <2> HIDE DEF fresh
  <2>5. IsReference(ref')
    BY <1>0, <2>2, <2>3, <2>4, RecapturedIs
  <2> QED BY <1>5, <2>3, <2>5
<1> QED BY <1>1, <1>2, <1>3, <1>4, <1>6, <1>7, <1>8 DEF RefNext

\* The reference in the document is a written one or one that the commands made: its
\* capture lists fingerprints, and none without one (RefDef of forge-ir and its writers).
THEOREM ReferencesAreWritten == RefSpec => []RefInv
BY RefInitInv, RefNextInv, PTL DEF RefSpec

\* Accounts, at the end of a resolution, is the property.
LEMMA AccountsMeanMembers == RefInv => MembersAreAccounted
<1> SUFFICES ASSUME RefInv PROVE MembersAreAccounted
  OBVIOUS
<1> DEFINE ms == ref.members
           alive == {i \in Named(ms) : ms[i].key \notin DOMAIN scope.aliases}
           res == Resolve(ref, scope)
<1>1. WellFormed(scope) /\ IsReference(ref) /\ IsCapture(ms)
  BY ScopesAssumption DEF RefInv, IsReference
<1> SUFFICES ASSUME res.status # "failed"
             PROVE  \E kept \in SUBSET alive :
                      /\ Cardinality(alive \ kept) <= res.dropped
                      /\ \E face \in [kept -> res.used] :
                          /\ \A i \in kept : Stands(ms[i], face[i])
                          /\ \A i, j \in kept : face[i] = face[j] => i = j
  BY DEF MembersAreAccounted
<1> DEFINE c == Reading(ref, scope)
           b == Placed(ref, c)
           n == Rest(c, b)
<1>2. c = Reading(ref, scope) /\ b = Placed(ref, c) /\ n = Rest(c, b) /\ res = Resolve(ref, scope)
  OBVIOUS
<1>3. res.status # "failed"
  OBVIOUS
<1>a. ms = ref.members
  OBVIOUS
<1> HIDE DEF c, b, n, res, ms
<1>4. c.sc = scope /\ InContext(c) /\ Claims(c, ms)
  BY <1>1, <1>2, <1>a, ContextIs
<1>5. b.fail = "none" /\ SoundSoFar(c, b) /\ res.used = n.used /\ res.dropped = b.dropped
  <2>1. Resolved(ref, scope, res, c, b, n)
    BY <1>1, <1>2, <1>3, <1>a, ResolveIs
  <2> QED BY <2>1 DEF Resolved
<1>6. IsBuilder(b)
  BY <1>1, <1>2, <1>4, <1>a, PlacedIs DEF Fit
<1>7. \A u \in b.used : u \in res.used
  BY <1>2, <1>5, <1>6, RestIs
<1>8. alive = Alive(c, ms) /\ alive \subseteq Named(ms)
  BY <1>4 DEF Alive
<1>9. CASE ref.captured
  <2>1. PICK L, new : Accounts(c, ms, b, Named(ms), L, new)
    BY <1>1, <1>2, <1>4, <1>5, <1>9, <1>a, PlacedIs
  <2>2. /\ L \in SUBSET alive
        /\ Named(ms) \cap Alive(c, ms) = alive
        /\ Cardinality(alive \ L) <= res.dropped
        /\ \A i \in L : Given(c, ms, b, i, new[i])
        /\ \A i, j \in L : new[i] = new[j] => i = j
    <3>1. Named(ms) \cap Alive(c, ms) = alive
      BY <1>8
    <3> HIDE DEF alive
    <3> QED BY <1>5, <2>1, <3>1 DEF Accounts
  <2>3. ASSUME NEW i \in L PROVE \E u \in res.used : u.face = new[i] /\ Stands(ms[i], u)
    <3>1. Given(c, ms, b, i, new[i])
      BY <2>2
    <3>2. CASE new[i].key = ms[i].key
      BY <1>7, <3>1, <3>2 DEF Given, Faces, Stands
    <3>3. CASE new[i].key # ms[i].key
      <4>1. Own(ms[i], new[i]) /\ Identical(ms[i], new[i]) /\ MarkedFace(b, new[i])
        BY <3>1, <3>3 DEF Given
      <4> QED BY <1>7, <4>1 DEF MarkedFace, Stands
    <3> QED BY <3>2, <3>3
  <2> DEFINE face == [i \in L |-> CHOOSE u \in res.used : u.face = new[i] /\ Stands(ms[i], u)]
  <2>4. \A i \in L : face[i] \in res.used /\ face[i].face = new[i] /\ Stands(ms[i], face[i])
    BY <2>3
  <2>5. face \in [L -> res.used]
    BY <2>4
  <2> HIDE DEF face
  <2>6. \A i, j \in L : face[i] = face[j] => i = j
    BY <2>2, <2>4
  <2> QED BY <2>2, <2>4, <2>5, <2>6
<1>10. CASE ~ref.captured
  <2>1. Named(ms) = {}
    BY <1>1, <1>10, <1>a, NoMembers DEF IsReference
  <2>2. alive = {} /\ alive \ {} = {}
    BY <1>8, <2>1
  <2>3. Cardinality({}) = 0 /\ res.dropped \in Nat
    BY <1>5, FS_EmptySet DEF SoundSoFar
  <2> DEFINE face == [i \in {} |-> i]
  <2>4. face \in [{} -> res.used]
    OBVIOUS
  <2> HIDE DEF face, alive
  <2>5. Cardinality(alive \ {}) <= res.dropped /\ {} \in SUBSET alive
    BY <2>2, <2>3
  <2>6. \E given \in [{} -> res.used] :
          /\ \A i \in {} : Stands(ms[i], given[i])
          /\ \A i, j \in {} : given[i] = given[j] => i = j
    BY <2>4
  <2> QED BY <2>5, <2>6
<1> QED BY <1>9, <1>10

\* Captured members never collapse silently: when a reference is used, each named member
\* of its capture has a face of its own there, but for those whose key was merged away
\* and those told as removed (validate_key, fallback and the claimed set of resolve.rs).
THEOREM MembersStand == RefSpec => []MembersAreAccounted
BY ReferencesAreWritten, AccountsMeanMembers, PTL

\* KeyDone, at the end of a resolution, is the property.
LEMMA KeysMeanAnchor == RefInv => AnchorIsNotAlone
<1> SUFFICES ASSUME RefInv PROVE AnchorIsNotAlone
  OBVIOUS
<1> DEFINE ms == ref.members
           res == Resolve(ref, scope)
<1>1. WellFormed(scope) /\ IsReference(ref) /\ IsCapture(ms)
  BY ScopesAssumption DEF RefInv, IsReference
<1> SUFFICES ASSUME res.status # "failed", NEW k \in KeysOf(ms, Named(ms)),
                    Cardinality(Carrying(scope, k)) = 1
             PROVE  \E i \in Named(ms) : ms[i].key = k /\ UsedWhole(ms[i], res)
  BY DEF AnchorIsNotAlone
<1> DEFINE c == Reading(ref, scope)
           b == Placed(ref, c)
           n == Rest(c, b)
<1>2. c = Reading(ref, scope) /\ b = Placed(ref, c) /\ n = Rest(c, b) /\ res = Resolve(ref, scope)
  OBVIOUS
<1>3. res.status # "failed"
  OBVIOUS
<1>a. ms = ref.members
  OBVIOUS
<1> HIDE DEF c, b, n, res, ms
<1>4. c.sc = scope /\ InContext(c) /\ Claims(c, ms)
  BY <1>1, <1>2, <1>a, ContextIs
<1>5. b.fail = "none" /\ res.used = n.used /\ Faces(n.used) = Faces(b.used) \cup c.all
  <2>1. Resolved(ref, scope, res, c, b, n)
    BY <1>1, <1>2, <1>3, <1>a, ResolveIs
  <2> QED BY <2>1 DEF Resolved
<1>6. PICK i \in Named(ms) : ms[i].key = k
  BY DEF KeysOf
<1>7. ref.captured
  BY <1>1, <1>6, <1>a, NoMembers DEF IsReference
<1>8. KeyDone(c, ms, i, b)
  BY <1>1, <1>2, <1>4, <1>5, <1>7, <1>a, PlacedIs
<1>9. PICK f : Carrying(scope, k) = {f}
  <2>1. Carrying(scope, k) \in SUBSET scope.faces /\ IsFiniteSet(scope.faces)
    BY <1>1 DEF Carrying, WellFormed
  <2>2. IsFiniteSet(Carrying(scope, k))
    BY <2>1, FS_Subset
  <2> QED BY <2>2, FS_Singleton
<1>10. PICK j \in SameKey(ms, i) : WholeAt(c, ms[j], f, b)
  BY <1>4, <1>6, <1>8, <1>9 DEF KeyDone
<1>11. j \in Named(ms) /\ ms[j].key = k
  BY <1>6 DEF SameKey
<1>12. ASSUME f \in Faces(res.used), Neighbors(scope, f) > ms[j].neighbors,
              NEW p \in PiecesBeside(ms[j], f)
       PROVE  p \in Faces(res.used)
  <2>1. /\ p \in Connected(scope, f) /\ SameSupport(ms[j], p) /\ Contained(ms[j], p)
        /\ \A key \in KeysOf(ms, DOMAIN ms) : p \notin Carrying(scope, key)
    BY <1>12, <1>a DEF PiecesBeside
  <2>2. \A key \in KeysOf(ms, Named(ms)) : p \notin Carrying(scope, key)
    BY <2>1 DEF KeysOf, Named, Via
  <2>3. p \notin c.claimed
    BY <1>4, <2>2 DEF Claims
  <2>4. p \notin Carrying(scope, ms[j].key)
    BY <1>11, <2>2
  <2>5. p \in NewKeyPieces(c, ms[j], f)
    BY <1>4, <2>1, <2>3, <2>4 DEF NewKeyPieces, InsidePieces, DroppedPiece
  <2> QED BY <1>4, <1>5, <1>10, <1>12, <2>5 DEF WholeAt
<1>13. UsedWhole(ms[j], res)
  BY <1>9, <1>11, <1>12 DEF UsedWhole
<1> QED BY <1>11, <1>13

\* A key that one face carries is never used by that face alone when what was captured is
\* split into it and pieces of new keys (validate_one, dropped_member and new_key_pieces
\* of resolve.rs).
THEOREM AnchorsAreWhole == RefSpec => []AnchorIsNotAlone
BY ReferencesAreWritten, KeysMeanAnchor, PTL

(***************************************************************************)
(* The queries that commands write select what they are written for.       *)
(***************************************************************************)
LEMMA LeastIs ==
    ASSUME NEW S \in SUBSET Nat, S # {}
    PROVE  \E i \in S : \A j \in S : i <= j
<1> SUFFICES ASSUME \A i \in S : \E j \in S : ~(i <= j) PROVE FALSE
  OBVIOUS
<1>1. PICK n \in S : TRUE
  OBVIOUS
<1> DEFINE T == {k \in 0 .. n : \A j \in S : ~(j <= k)}
<1>2. 0 \in T
  <2>1. ASSUME NEW j \in S, j <= 0 PROVE FALSE
    <3>1. \A k \in S : j <= k
      BY <2>1
    <3> QED BY <3>1
  <2> QED BY <1>1, <2>1
<1>3. ASSUME NEW k \in 0 .. n - 1, k \in T PROVE k + 1 \in T
  <2>1. \A j \in S : j >= k + 1 /\ j \in Nat
    BY <1>3
  <2>2. ASSUME NEW j \in S, j <= k + 1 PROVE FALSE
    <3>1. \A i \in S : j <= i
      BY <2>1, <2>2
    <3> QED BY <3>1
  <2> QED BY <1>1, <2>2
<1>4. n \in T
  <2> HIDE DEF T
  <2> QED BY <1>1, <1>2, <1>3, Induction
<1> QED BY <1>1, <1>4

\* The first query is one of those tried.
LEMMA FirstQueryIs ==
    ASSUME NEW qs, DOMAIN qs \subseteq Nat, NEW q, q = FirstQuery(qs)
    PROVE  q = NoQuery \/ \E i \in DOMAIN qs : q = qs[i]
<1> DEFINE good == {i \in DOMAIN qs : qs[i] # NoQuery}
<1>1. CASE good = {}
  BY <1>1 DEF FirstQuery
<1>2. CASE good # {}
  <2> DEFINE i == CHOOSE k \in good : \A j \in good : k <= j
  <2>1. q = qs[i]
    BY <1>2 DEF FirstQuery
  <2>2. i \in good
    <3>1. good \in SUBSET Nat
      OBVIOUS
    <3> HIDE DEF good
    <3>2. \E k \in good : \A j \in good : k <= j
      BY <1>2, <3>1, LeastIs
    <3> QED BY <3>2
  <2> HIDE DEF i
  <2> QED BY <2>1, <2>2
<1> QED BY <1>1, <1>2

\* A query that selects e alone, or none.
Names(sc, e, q) == q = NoQuery \/ Selects(sc, q, {e})

\* Every attempt of the synthesis is verified, or is none: peeling,
LEMMA PeelToNames ==
    ASSUME NEW sc, NEW e, NEW base, NEW dir, NEW levels \in Int
    PROVE  Names(sc, e, PeelTo(sc, e, base, dir, levels))
<1> DEFINE q[n \in 1 .. levels + 1] ==
               IF n = 1 THEN base ELSE Minus(q[n - 1], Extreme(q[n - 1], dir))
           Top(n) == Extreme(q[n], dir)
           qs == [n \in 1 .. levels + 1 |-> IF Selects(sc, Top(n), {e}) THEN Top(n) ELSE NoQuery]
<1>1. PeelTo(sc, e, base, dir, levels) = FirstQuery(qs)
  BY DEF PeelTo
<1> HIDE DEF q
<1>2. DOMAIN qs = 1 .. levels + 1
  OBVIOUS
<1>3. ASSUME NEW n \in 1 .. levels + 1 PROVE Names(sc, e, qs[n])
  BY DEF Names
<1> HIDE DEF qs
<1>4. DOMAIN qs \subseteq Nat
  BY <1>2
<1>5. FirstQuery(qs) = NoQuery \/ \E i \in DOMAIN qs : FirstQuery(qs) = qs[i]
  BY <1>4, FirstQueryIs
<1> QED BY <1>1, <1>2, <1>3, <1>5 DEF Names

\* along the best direction,
LEMMA PeeledNames ==
    ASSUME NEW sc, WellFormed(sc), NEW S \in SUBSET sc.faces, NEW e, NEW base
    PROVE  Names(sc, e, Peeled(sc, S, e, base))
<1>1. ASSUME NEW dir PROVE Names(sc, e, PeelAlong(sc, e, base, dir, Cardinality(Farther(S, e, dir))))
  <2> DEFINE above == Cardinality(Farther(S, e, dir))
             levels == IF above < MaxPeels THEN above ELSE MaxPeels
  <2>1. Farther(S, e, dir) \in SUBSET sc.faces /\ IsFiniteSet(sc.faces)
    BY DEF Farther, WellFormed
  <2>2. above \in Nat
    BY <2>1, FS_Subset, FS_CardinalityType
  <2> HIDE DEF above
  <2>3. levels \in Int
    BY <2>2 DEF MaxPeels
  <2>4. PeelAlong(sc, e, base, dir, above) = PeelTo(sc, e, base, dir, levels)
    BY DEF PeelAlong
  <2> HIDE DEF levels
  <2>5. Names(sc, e, PeelAlong(sc, e, base, dir, above))
    BY <2>3, <2>4, PeelToNames
  <2> QED BY <2>5 DEF above
<1>2. \/ Peeled(sc, S, e, base) = NoQuery
      \/ \E dir : Peeled(sc, S, e, base) = PeelAlong(sc, e, base, dir, Cardinality(Farther(S, e, dir)))
  BY DEF Peeled
<1> QED BY <1>1, <1>2 DEF Names

\* narrowing,
LEMMA NarrowNames ==
    ASSUME NEW sc, WellFormed(sc), NEW e, NEW base
    PROVE  Names(sc, e, Narrow(sc, e, base))
<1> DEFINE S == Selected(sc, base)
           one == OneAxis(S, e, base)
           two == TwoAxes(S, e, base)
           peeled == Peeled(sc, S, e, base)
<1>1. S \in SUBSET sc.faces /\ Narrow(sc, e, base) = NarrowFrom(sc, S, e, base)
  BY EvalSelects DEF Selected, Narrow
<1>2. S = Selected(sc, base)
  OBVIOUS
<1> HIDE DEF S
<1>3. Names(sc, e, peeled)
  BY <1>1, PeeledNames
<1> HIDE DEF one, two, peeled
<1>4. Names(sc, e, FirstExact(sc, e, one, two, peeled))
  BY <1>3 DEF FirstExact, Names
<1>5. CASE ~Evaluates(sc, base) \/ e \notin S
  BY <1>1, <1>5 DEF NarrowFrom, Names
<1>6. CASE Evaluates(sc, base) /\ e \in S /\ S = {e}
  <2>1. Narrow(sc, e, base) = base
    BY <1>1, <1>6 DEF NarrowFrom
  <2> QED BY <1>2, <1>6, <2>1 DEF Names, Selects
<1>7. CASE Evaluates(sc, base) /\ e \in S /\ S # {e}
  <2>1. Narrow(sc, e, base) = FirstExact(sc, e, one, two, peeled)
    BY <1>1, <1>7 DEF NarrowFrom, one, two, peeled
  <2> QED BY <1>4, <2>1
<1> QED BY <1>5, <1>6, <1>7

\* and all of it.
LEMMA SynthesizeNames ==
    ASSUME NEW sc, WellFormed(sc), NEW e, NEW base, NEW n \in Nat, DOMAIN base = 1 .. n, Len(base) = n
    PROVE  Names(sc, e, Synthesize(sc, e, base))
<1> DEFINE own == Side(e.key)
           bases == base \o <<Created(FeatureOf(e.key)), own>>
           qs == [i \in DOMAIN bases |-> Narrow(sc, e, bases[i])]
<1>1. CASE Selects(sc, own, {e})
  BY <1>1 DEF Synthesize, Names
<1>2. CASE ~Selects(sc, own, {e})
  <2>1. Synthesize(sc, e, base) = FirstQuery(qs)
    BY <1>2 DEF Synthesize, FirstNarrow
  <2>2. DOMAIN bases \subseteq Nat
    <3>1. DOMAIN bases = 1 .. Len(base) + 2
      BY DEF own
    <3> QED BY <3>1
  <2> HIDE DEF bases
  <2>3. DOMAIN qs \subseteq Nat /\ \A i \in DOMAIN qs : Names(sc, e, qs[i])
    BY <2>2, NarrowNames
  <2> HIDE DEF qs
  <2>4. FirstQuery(qs) = NoQuery \/ \E i \in DOMAIN qs : FirstQuery(qs) = qs[i]
    BY <2>3, FirstQueryIs
  <2> QED BY <2>1, <2>3, <2>4 DEF Names
<1> QED BY <1>1, <1>2

\* The query of an accepted repair is the old one, or selects what was repaired.
LEMMA RewriteIs ==
    ASSUME NEW sc, WellFormed(sc), NEW q, NEW used, Faces(used) \in SUBSET sc.faces,
           NEW n, n = Rewrite(sc, q, used)
    PROVE  n = q \/ Selects(sc, n, Faces(used))
<1> DEFINE faces == Faces(used)
           only == OnlyQuery(sc, faces, q)
           queries == RepairQueries(sc, used)
           found == SelectSeq(queries, LAMBDA x : x # NoQuery)
<1>1. n = IF only # NoQuery THEN only ELSE Patched(sc, q, faces, found)
  BY DEF Rewrite, RewriteBy
<1>2. CASE only # NoQuery
  <2> HIDE DEF queries, found
  <2>1. Cardinality(faces) = 1 /\ only = Synthesize(sc, CHOOSE f \in faces : TRUE, <<q>>)
    BY <1>2 DEF OnlyQuery
  <2>2. PICK f : faces = {f}
    <3>1. IsFiniteSet(faces)
      BY FS_Subset DEF WellFormed
    <3> HIDE DEF faces
    <3> QED BY <2>1, <3>1, FS_Singleton
  <2>3. (CHOOSE x \in faces : TRUE) = f
    BY <2>2
  <2>4. only = Synthesize(sc, f, <<q>>)
    BY <2>1, <2>3
  <2>5. DOMAIN <<q>> = 1 .. 1 /\ Len(<<q>>) = 1
    OBVIOUS
  <2> HIDE DEF only, faces
  <2>6. Names(sc, f, only)
    BY <2>4, <2>5, SynthesizeNames
  <2> QED BY <1>1, <1>2, <2>2, <2>6 DEF Names, faces
<1>3. CASE only = NoQuery
  <2> HIDE DEF only, found, queries
  <2> DEFINE qs == <<ReplaceEmptyLeaves(sc, q, UnionOf(found)), Union(q, UnionOf(found))>>
             good == {i \in DOMAIN qs : Selects(sc, qs[i], faces)}
             i == CHOOSE k \in good : \A j \in good : k <= j
  <2>1. n = Patched(sc, q, faces, found)
    BY <1>1, <1>3
  <2>2. n = q \/ n = FirstSelecting(sc, qs, faces, q)
    BY <2>1 DEF Patched
  <2>3. DOMAIN qs \subseteq Nat
    OBVIOUS
  <2> HIDE DEF qs, faces
  <2>4. n = q \/ (good # {} /\ n = qs[i])
    BY <2>2 DEF FirstSelecting
  <2>5. ASSUME good # {} PROVE i \in good
    <3>1. good \in SUBSET Nat
      BY <2>3
    <3> HIDE DEF good
    <3>2. \E k \in good : \A j \in good : k <= j
      BY <2>5, <3>1, LeastIs
    <3> QED BY <3>2
  <2> HIDE DEF i
  <2> QED BY <2>4, <2>5 DEF faces
<1> QED BY <1>2, <1>3

(***************************************************************************)
(* A reference that was captured in this very part, and still selects no   *)
(* other faces than what it was captured from.                             *)
(***************************************************************************)
Unmerged(sc) == \A f \in sc.faces : f.key \notin DOMAIN sc.aliases

\* ms captures `used`; what `all`, the selection now, leaves of it was there by name.
CapturedFrom(sc, ms, used, all) ==
    /\ Faces(used) \in SUBSET sc.faces
    /\ ms = Capture(sc, used)
    /\ all \subseteq Faces(used)
    /\ \A u \in used : u.via \in {"named", "broad"}
    /\ \A u \in used : u.face \notin all => u.via = "named"

\* The i-th member is the i-th face.
LEMMA MemberIs ==
    ASSUME NEW sc, WellFormed(sc), NEW ms, NEW used, NEW all, CapturedFrom(sc, ms, used, all),
           NEW order, order = Canonical(Faces(used))
    PROVE  /\ IsCapture(ms) /\ DOMAIN ms = 1 .. Len(ms) /\ DOMAIN order = 1 .. Len(ms)
           /\ Len(ms) = Cardinality(Faces(used))
           /\ \A i \in 1 .. Len(ms) :
                /\ order[i] \in Faces(used)
                /\ ms[i].key = order[i].key
                /\ Identical(ms[i], order[i])
                /\ ms[i].carrier = order[i].carrier
                /\ ms[i].neighbors = Neighbors(sc, order[i])
                /\ ms[i].via \in {"named", "broad"}
                /\ order[i] \notin all => ms[i].via = "named"
           /\ \A f \in Faces(used) : \E i \in 1 .. Len(ms) : order[i] = f
           /\ \A i, j \in 1 .. Len(ms) :
                /\ order[i] = order[j] => i = j
                /\ Precedes(order[i], order[j]) => i < j
<1>1. /\ IsCapture(ms) /\ Len(ms) = Cardinality(Faces(used)) /\ DOMAIN ms = DOMAIN order
      /\ DOMAIN order = 1 .. Len(ms)
      /\ \A i \in DOMAIN ms : \E u \in used : u.face = order[i] /\ ms[i] = Fingerprint(sc, u)
  BY CaptureIs DEF CapturedFrom
<1>2. /\ \A i \in 1 .. Len(ms) : order[i] \in Faces(used)
      /\ \A f \in Faces(used) : \E i \in 1 .. Len(ms) : order[i] = f
      /\ \A i, j \in 1 .. Len(ms) :
           /\ order[i] = order[j] => i = j
           /\ Precedes(order[i], order[j]) => i < j
  BY <1>1, CanonicalLists DEF CapturedFrom
<1>3. ASSUME NEW i \in 1 .. Len(ms)
      PROVE  /\ ms[i].key = order[i].key
             /\ Identical(ms[i], order[i])
             /\ ms[i].carrier = order[i].carrier
             /\ ms[i].neighbors = Neighbors(sc, order[i])
             /\ ms[i].via \in {"named", "broad"}
             /\ order[i] \notin all => ms[i].via = "named"
  <2>1. PICK u \in used : u.face = order[i] /\ ms[i] = Fingerprint(sc, u)
    BY <1>1
  <2> DEFINE neighbors == Neighbors(sc, u.face)
  <2>2. ms[i] = [key |-> u.face.key, via |-> u.via, carrier |-> u.face.carrier,
                 lo |-> u.face.lo, hi |-> u.face.hi, neighbors |-> neighbors]
    BY <2>1 DEF Fingerprint
  <2>3. neighbors = Neighbors(sc, order[i])
    BY <2>1
  <2> HIDE DEF neighbors
  <2>4. /\ ms[i].key = order[i].key /\ ms[i].via = u.via /\ ms[i].carrier = order[i].carrier
        /\ ms[i].lo = order[i].lo /\ ms[i].hi = order[i].hi
        /\ ms[i].neighbors = Neighbors(sc, order[i])
    BY <2>1, <2>2, <2>3
  <2>5. u.via \in {"named", "broad"} /\ (order[i] \notin all => u.via = "named")
    BY <2>1 DEF CapturedFrom
  <2> QED BY <2>4, <2>5 DEF Identical, SameSupport
<1> QED BY <1>1, <1>2, <1>3

\* No key that is captured by name is captured otherwise: its faces are accounted for.
LEMMA NamesAreNamed ==
    ASSUME NEW c, InContext(c), Unmerged(c.sc), NEW ms, NEW used, CapturedFrom(c.sc, ms, used, c.all),
           NEW b, SoundSoFar(c, b), NEW n, n.consumed = b.consumed, ~SetChanged(c, n, ms),
           NEW i \in Named(ms), KeyDone(c, ms, i, b)
    PROVE  /\ Carrying(c.sc, ms[i].key) = {f \in c.sc.faces : f.key = ms[i].key}
           /\ \A j \in 1 .. Len(ms) : ms[j].key = ms[i].key => j \in Named(ms)
<1> DEFINE order == Canonical(Faces(used))
           k == ms[i].key
           broad == Via(ms, "broad")
           now == {f \in c.all \ n.consumed : f \notin c.named \/ f.key \notin KeysOf(ms, Named(ms))}
<1>1. WellFormed(c.sc)
  BY DEF InContext
<1>2. /\ DOMAIN ms = 1 .. Len(ms)
      /\ \A j \in 1 .. Len(ms) : /\ order[j] \in Faces(used) /\ ms[j].key = order[j].key
                                 /\ ms[j].via \in {"named", "broad"}
  <2>1. order = Canonical(Faces(used))
    OBVIOUS
  <2> HIDE DEF order
  <2> QED BY <1>1, <2>1, MemberIs
<1> HIDE DEF order
<1>3. i \in 1 .. Len(ms)
  BY <1>2 DEF Named, Via
<1>4. order[i] \in c.sc.faces
  BY <1>2, <1>3 DEF CapturedFrom
<1>5. k \notin DOMAIN c.sc.aliases
  BY <1>2, <1>3, <1>4 DEF Unmerged
<1>6. Carrying(c.sc, k) = {f \in c.sc.faces : f.key = k}
  BY <1>5 DEF Carrying, NormalKey
<1>7. \A f \in c.all : f.key = k => f \in n.consumed
  BY <1>6 DEF KeyDone, SoundSoFar, InContext
<1>8. {f \in now : f.key = k} = {}
  BY <1>7
<1>9. ASSUME NEW j \in 1 .. Len(ms), ms[j].key = k, j \notin Named(ms) PROVE FALSE
  <2>1. j \in broad
    BY <1>2, <1>9 DEF Named, Via
  <2>2. k \in KeysOf(ms, broad)
    BY <1>9, <2>1 DEF KeysOf
  <2>3. Cardinality({f \in now : f.key = k}) = Cardinality({x \in broad : ms[x].key = k})
    BY <2>2 DEF SetChanged
  <2>4. Cardinality({x \in broad : ms[x].key = k}) = 0
    BY <1>8, <2>3, FS_EmptySet
  <2> DEFINE T == {x \in broad : ms[x].key = k}
  <2>5. T \in SUBSET (1 .. Len(ms))
    BY <1>2 DEF Via
  <2>6. IsFiniteSet(1 .. Len(ms))
    <3>1. Len(ms) \in Nat
      <4>1. IsCapture(ms)
        BY <1>1, MemberIs
      <4> QED BY <4>1 DEF IsCapture
    <3> QED BY <3>1, FS_Interval
  <2>7. j \in T /\ Cardinality(T) = 0
    BY <1>9, <2>1, <2>4
  <2> HIDE DEF T
  <2>8. T = {}
    BY <2>5, <2>6, <2>7, FS_Subset, FS_EmptySet
  <2> QED BY <2>7, <2>8
<1> QED BY <1>6, <1>9

\* Nothing happened to the key's faces: the query still selects them.
LEMMA KeyIsStill ==
    ASSUME NEW c, InContext(c), Unmerged(c.sc), NEW ms, NEW used, CapturedFrom(c.sc, ms, used, c.all),
           NEW b, SoundSoFar(c, b), NEW n, n.consumed = b.consumed, n.dropped = b.dropped,
           ~SetChanged(c, n, ms), NEW i \in Named(ms), KeyDone(c, ms, i, b)
    PROVE  /\ KeyStill(c, ms, i)
           /\ Canonical(Faces(used))[i] \in c.all
<1> DEFINE order == Canonical(Faces(used))
           I == SameKey(ms, i)
           hits == c.all \cap Carrying(c.sc, ms[i].key)
<1>1. WellFormed(c.sc) /\ c.all \subseteq c.sc.faces
  BY DEF InContext
<1>2. order = Canonical(Faces(used))
  OBVIOUS
<1>3. /\ Carrying(c.sc, ms[i].key) = {f \in c.sc.faces : f.key = ms[i].key}
      /\ \A j \in 1 .. Len(ms) : ms[j].key = ms[i].key => j \in Named(ms)
  BY NamesAreNamed
<1>4. hits = {f \in c.all : f.key = ms[i].key}
  BY <1>1, <1>3
<1> HIDE DEF order
<1>5. /\ IsCapture(ms) /\ DOMAIN ms = 1 .. Len(ms)
      /\ \A j \in 1 .. Len(ms) :
           /\ order[j] \in Faces(used)
           /\ ms[j].key = order[j].key
           /\ Identical(ms[j], order[j])
           /\ ms[j].carrier = order[j].carrier
           /\ ms[j].neighbors = Neighbors(c.sc, order[j])
      /\ \A f \in Faces(used) : \E j \in 1 .. Len(ms) : order[j] = f
      /\ \A j, k \in 1 .. Len(ms) :
           /\ order[j] = order[k] => j = k
           /\ Precedes(order[j], order[k]) => j < k
  BY <1>1, <1>2, MemberIs
<1>6. /\ I \in SUBSET (1 .. Len(ms)) /\ i \in I /\ IsFiniteSet(I) /\ Cardinality(I) \in Nat
      /\ IsFiniteSet(hits) /\ Cardinality(hits) \in Nat
  BY <1>5, KeyIsFinite
<1>7. \A j \in I : ms[j].key = ms[i].key /\ order[j].key = ms[i].key /\ order[j] \in c.sc.faces
  BY <1>5, <1>6 DEF SameKey, CapturedFrom
<1>8. \A f \in hits : \E j \in I : order[j] = f
  <2>1. ASSUME NEW f \in hits PROVE \E j \in I : order[j] = f
    <3>1. f \in Faces(used) /\ f.key = ms[i].key
      BY <1>4 DEF CapturedFrom
    <3>2. PICK j \in 1 .. Len(ms) : order[j] = f
      BY <1>5, <3>1
    <3>3. j \in I
      BY <1>3, <1>5, <3>1, <3>2 DEF SameKey
    <3> QED BY <3>2, <3>3
  <2> QED BY <2>1
<1>9. ASSUME NEW j \in I, order[j] \notin c.all PROVE FALSE
  <2>1. order[j] \in Carrying(c.sc, ms[i].key) \ c.all
    BY <1>3, <1>7, <1>9
  <2>2. Cardinality(hits) < Cardinality(I)
    <3> DEFINE g == [x \in I \ {j} |-> order[x]]
    <3>a. \A f \in hits : \E x \in I \ {j} : order[x] = f
      BY <1>4, <1>8, <1>9
    <3> DEFINE at == [f \in hits |-> CHOOSE x \in I \ {j} : order[x] = f]
    <3> HIDE DEF hits, I
    <3>1. \A f \in hits : at[f] \in I \ {j} /\ order[at[f]] = f
      BY <3>a
    <3>2. at \in [hits -> I \ {j}]
      BY <3>1
    <3>3. \A f, h \in hits : at[f] = at[h] => f = h
      BY <3>1
    <3> HIDE DEF at
    <3>4. at \in Injection(hits, I \ {j})
      BY <3>2, <3>3 DEF Injection, IsInjective
    <3>5. IsFiniteSet(I \ {j}) /\ Cardinality(I \ {j}) = Cardinality(I) - 1
      BY <1>6, FS_RemoveElement
    <3>6. Cardinality(hits) <= Cardinality(I \ {j})
      BY <3>4, <3>5, FS_Injection
    <3> QED BY <1>6, <3>5, <3>6
  <2>3. b.dropped > 0
    BY <2>1, <2>2 DEF KeyDone
  <2>4. SetChanged(c, n, ms)
    BY <2>3 DEF SetChanged
  <2> QED BY <2>4
<1>10. \A j \in I : order[j] \in hits
  BY <1>4, <1>7, <1>9
<1> DEFINE place == [j \in I |-> order[j]]
<1>11. Places(place, ms, I, hits)
  <2>1. place \in [I -> hits]
    BY <1>10
  <2>2. \A j \in I : place[j] = order[j]
    OBVIOUS
  <2> HIDE DEF place, hits, I
  <2>3. \A f \in hits : \E j \in I : place[j] = f
    BY <1>8, <2>2
  <2>4. \A j, k \in I : /\ place[j] = place[k] => j = k
                        /\ Precedes(place[j], place[k]) => j < k
    BY <1>5, <1>6, <2>2
  <2>5. \A j \in I : Identical(ms[j], place[j])
    BY <1>5, <1>6, <2>2
  <2> QED BY <2>1, <2>3, <2>4, <2>5 DEF Places
<1>12. \A j \in I : Unchanged(c, ms[j], place[j])
  <2>1. ASSUME NEW j \in I PROVE Unchanged(c, ms[j], order[j])
    <3>1. j \in 1 .. Len(ms)
      BY <1>6
    <3> QED BY <1>5, <3>1 DEF Unchanged, Type
  <2> QED BY <2>1
<1>13. KeyStill(c, ms, i)
  <2> HIDE DEF place
  <2> QED BY <1>11, <1>12 DEF KeyStill
<1> QED BY <1>6, <1>9, <1>13 DEF order

\* A capture that is read back in the part it was made in.
LEMMA ReadBackIsExact ==
    ASSUME NEW r, IsReference(r), r.captured, NEW sc, WellFormed(sc), Unmerged(sc),
           NEW used, CapturedFrom(sc, r.members, used, Selected(sc, r.q)),
           NEW res, res = Resolve(r, sc), res.status # "failed", ~res.changed
    PROVE  /\ res.status = "exact"
           /\ Faces(used) \subseteq Faces(res.used)
<1> DEFINE c == Reading(r, sc)
           b == Placed(r, c)
           n == Rest(c, b)
           ms == r.members
<1>1. c = Reading(r, sc) /\ b = Placed(r, c) /\ n = Rest(c, b) /\ ms = r.members
  OBVIOUS
<1>2. IsCapture(ms)
  BY DEF IsReference
<1> HIDE DEF c, b, n, ms
<1>3. c.sc = sc /\ c.all = Selected(sc, r.q) /\ InContext(c) /\ Claims(c, ms)
  BY <1>1, ContextIs
<1>4. Resolved(r, sc, res, c, b, n)
  BY <1>1, <1>2, ResolveIs
<1>5. b.fail = "none" /\ SoundSoFar(c, b)
  BY <1>4 DEF Resolved
<1>6. IsBuilder(b)
  BY <1>1, <1>2, <1>3, PlacedIs DEF Fit
<1>7. n.consumed = b.consumed /\ n.dropped = b.dropped
  BY <1>1, <1>6, RestIs
<1>8. ~SetChanged(c, n, ms)
  BY <1>1, <1>4 DEF Resolved
<1>9. CapturedFrom(c.sc, ms, used, c.all) /\ Unmerged(c.sc)
  BY <1>1, <1>3
<1>10. ASSUME NEW i \in Named(ms)
       PROVE  KeyStill(c, ms, i) /\ Canonical(Faces(used))[i] \in c.all
  <2>1. KeyDone(c, ms, i, b)
    BY <1>1, <1>2, <1>3, <1>5, PlacedIs
  <2> QED BY <1>3, <1>5, <1>7, <1>8, <1>9, <2>1, KeyIsStill
<1>11. b.warnings = {}
  BY <1>1, <1>2, <1>3, <1>5, <1>10, PlacedIs
<1>12. res.status = "exact"
  BY <1>4, <1>11 DEF Resolved
<1>13. ASSUME NEW f \in Faces(used) PROVE f \in c.all
  <2> DEFINE order == Canonical(Faces(used))
  <2>1. /\ DOMAIN ms = 1 .. Len(ms)
        /\ \A i \in 1 .. Len(ms) : order[i] \notin c.all => ms[i].via = "named"
        /\ \E i \in 1 .. Len(ms) : order[i] = f
    <3>1. order = Canonical(Faces(used)) /\ WellFormed(c.sc)
      BY <1>3
    <3> HIDE DEF order
    <3> QED BY <1>9, <3>1, MemberIs
  <2>2. PICK i \in 1 .. Len(ms) : order[i] = f
    BY <2>1
  <2>3. CASE order[i] \notin c.all
    <3>1. i \in Named(ms)
      BY <2>1, <2>3 DEF Named, Via
    <3> QED BY <1>10, <2>3, <3>1
  <2> QED BY <2>2, <2>3
<1>14. c.all \subseteq Faces(res.used)
  BY <1>4 DEF Resolved
<1> QED BY <1>12, <1>13, <1>14

(***************************************************************************)
(* The commands.                                                           *)
(***************************************************************************)
LEMMA NoKeys ==
    ASSUME NEW c
    PROVE  ThroughKeys(c, <<>>) = Empty
<1>1. Len(<<>>) = 0 /\ Len(<<>>) \in Nat
  OBVIOUS
<1>2. PICK at : KeysBuiltBy(at, c, <<>>)
  BY <1>1, KeysBuiltSteps
<1>3. at[0] = Empty /\ at[Len(<<>>)] = ThroughKeys(c, <<>>)
  BY <1>2 DEF KeysBuiltBy
<1> QED BY <1>1, <1>3

\* A fresh capture is of what the query selects.
LEMMA FreshCaptures ==
    ASSUME NEW r, IsReference(r), WellFormed(scope), NEW fresh, fresh = ReadFresh(r),
           fresh.status # "failed"
    PROVE  /\ CapturedFrom(scope, Capture(scope, fresh.used), fresh.used, Selected(scope, r.q))
           /\ Faces(fresh.used) \in SUBSET scope.faces
<1> DEFINE m == [r EXCEPT !.captured = TRUE, !.members = <<>>]
           c == Reading(m, scope)
           b == Placed(m, c)
           n == Rest(c, b)
<1>1. fresh = Resolve(m, scope)
  BY DEF ReadFresh
<1>2. IsReference(m) /\ m.captured /\ m.q = r.q /\ m.members = <<>>
  BY FreshIs
<1>3. c = Reading(m, scope) /\ b = Placed(m, c) /\ n = Rest(c, b)
  OBVIOUS
<1> HIDE DEF c, b, n, m
<1>4. c.sc = scope /\ c.all = Selected(scope, r.q)
  BY <1>2, <1>3, ContextIs
<1>5. b = Empty
  BY <1>2, <1>3, NoKeys DEF Placed
<1>6. IsCapture(m.members)
  BY <1>2 DEF IsReference
<1>7. Resolved(m, scope, fresh, c, b, n)
  BY <1>1, <1>3, <1>6, ResolveIs
<1>8. IsBuilder(b) /\ b.used = {} /\ Faces(b.used) = {}
  BY <1>5, EmptyFits DEF Fit, Faces
<1>9. /\ fresh.used = n.used /\ Faces(fresh.used) = c.all
      /\ Faces(fresh.used) \in SUBSET scope.faces
  BY <1>7, <1>8 DEF Resolved
<1>10. ASSUME NEW u \in fresh.used
       PROVE  u.via \in {"named", "broad"} /\ u.face \in c.all
  <2>1. RestUsed(c, b, u)
    BY <1>3, <1>8, <1>9, <1>10, RestIs
  <2> QED BY <2>1 DEF RestUsed
<1> QED BY <1>4, <1>9, <1>10 DEF CapturedFrom

\* A reference with a fresh capture resolves with nothing to tell.
LEMMA RecaptureIsExact ==
    ASSUME NEW r, IsReference(r), WellFormed(scope), NEW fresh, fresh = ReadFresh(r),
           fresh.status # "failed", NEW n, n = Recaptured(r, fresh),
           NEW res, res = Resolve(n, scope), res.status # "failed", ~res.changed, MergedAway
    PROVE  res.status = "exact"
<1>1. /\ CapturedFrom(scope, Capture(scope, fresh.used), fresh.used, Selected(scope, r.q))
      /\ Faces(fresh.used) \in SUBSET scope.faces
  BY FreshCaptures
<1>2. IsReference(n) /\ n.captured /\ n.q = r.q /\ n.members = Capture(scope, fresh.used)
  BY <1>1, RecapturedIs
<1>3. CapturedFrom(scope, n.members, fresh.used, Selected(scope, n.q))
  BY <1>1, <1>2
<1>4. Unmerged(scope)
  BY DEF MergedAway, Unmerged
<1> QED BY <1>2, <1>3, <1>4, ReadBackIsExact

\* An accepted proposal says what the reference said: its capture is of what was used, and
\* its query the old one or one that selects that.
LEMMA ProposalIsExact ==
    ASSUME NEW r, IsReference(r), WellFormed(scope), NEW cur, cur = Resolve(r, scope),
           cur.proposal # Nothing, NEW p, p = cur.proposal[1],
           NEW res, res = Resolve(p, scope), ResolvesTo(res, p.members), MergedAway
    PROVE  res.status = "exact" /\ Faces(res.used) = Faces(cur.used)
<1> DEFINE c == Reading(r, scope)
           b == Placed(r, c)
           n == Rest(c, b)
<1>1. c = Reading(r, scope) /\ b = Placed(r, c) /\ n = Rest(c, b)
  OBVIOUS
<1> HIDE DEF c, b, n
<1>2. IsCapture(r.members) /\ cur.status # "failed"
  BY ProposedIs DEF IsReference
<1>3. Resolved(r, scope, cur, c, b, n)
  BY <1>1, <1>2, ResolveIs
<1>4. c.sc = scope /\ c.all = Selected(scope, r.q) /\ InContext(c) /\ Claims(c, r.members)
  BY <1>1, ContextIs
<1>5. /\ cur.used = n.used /\ Faces(n.used) = Faces(b.used) \cup c.all
      /\ Faces(n.used) \in SUBSET scope.faces /\ SoundSoFar(c, b)
  BY <1>3 DEF Resolved
<1>6. IsBuilder(b)
  BY <1>1, <1>2, <1>4, PlacedIs DEF Fit
<1> DEFINE q == Proposal(r, c, n)
<1>7. p = q
  <2>1. cur.proposal = IF cur.changed \/ b.repaired THEN <<q>> ELSE Nothing
    BY <1>3 DEF Resolved
  <2> HIDE DEF q
  <2>2. cur.proposal = <<q>>
    BY <2>1
  <2> QED BY <2>2
<1>8. /\ IsReference(p) /\ p.captured
      /\ p.q = r.q \/ p.q = Rewrite(scope, r.q, n.used)
      /\ p.members = Capture(scope, n.used)
  <2>1. Faces(n.used) \in SUBSET c.sc.faces /\ WellFormed(c.sc) /\ p = Proposal(r, c, n)
    BY <1>4, <1>5, <1>7
  <2>2. IsReference(r)
    OBVIOUS
  <2>3. IsReference(q)
    BY <2>1, <2>2, ProposalIs
  <2>4. q.captured
    BY <2>1, <2>2, ProposalIs
  <2>5. q.members = Capture(c.sc, n.used)
    BY <2>1, <2>2, ProposalIs
  <2>6. q.q \in {r.q, Rewrite(c.sc, r.q, n.used)}
    BY <2>1, <2>2, ProposalIs
  <2> QED BY <1>4, <1>7, <2>3, <2>4, <2>5, <2>6
<1>9. \A u \in n.used : u \in b.used \/ RestUsed(c, b, u)
  BY <1>1, <1>6, RestIs
<1>10. \A u \in n.used : u.via \in {"named", "broad"} /\ (u.face \notin c.all => u.via = "named")
  BY <1>5, <1>9 DEF SoundSoFar, RestUsed
<1>11. CapturedFrom(scope, p.members, n.used, Selected(scope, p.q))
  <2>1. CASE p.q = r.q
    <3>1. Selected(scope, p.q) = c.all
      BY <1>4, <2>1
    <3> QED BY <1>5, <1>8, <1>10, <3>1 DEF CapturedFrom
  <2>2. CASE Selects(scope, p.q, Faces(n.used))
    <3>1. Selected(scope, p.q) = Faces(n.used)
      BY <2>2 DEF Selects
    <3>2. \A u \in n.used : u.face \in Selected(scope, p.q)
      BY <3>1 DEF Faces
    <3> QED BY <1>5, <1>8, <1>10, <3>1, <3>2 DEF CapturedFrom
  <2>3. p.q = r.q \/ Selects(scope, p.q, Faces(n.used))
    BY <1>5, <1>8, RewriteIs
  <2> QED BY <2>1, <2>2, <2>3
<1>12. Unmerged(scope)
  BY DEF MergedAway, Unmerged
<1>13. res.status # "failed" /\ ~res.changed
  BY DEF ResolvesTo
<1>14. res.status = "exact" /\ Faces(n.used) \subseteq Faces(res.used)
  BY <1>8, <1>11, <1>12, <1>13, ReadBackIsExact
<1>15. Faces(res.used) = Faces(n.used)
  <2> DEFINE order == Canonical(Faces(res.used))
             U == Faces(n.used)
             W == Faces(res.used)
  <2>1. IsCapture(p.members) /\ DOMAIN p.members = 1 .. Len(p.members) /\ Len(p.members) = Cardinality(U)
    <3> DEFINE list == Canonical(Faces(n.used))
    <3>1. list = Canonical(Faces(n.used))
      OBVIOUS
    <3>2. Faces(n.used) \in SUBSET scope.faces /\ p.members = Capture(scope, n.used)
      BY <1>5, <1>8
    <3> HIDE DEF list
    <3>3. /\ IsCapture(p.members) /\ DOMAIN p.members = DOMAIN list
          /\ DOMAIN list = 1 .. Len(p.members)
          /\ Len(p.members) = Cardinality(Faces(n.used))
      BY <3>1, <3>2, CaptureIs
    <3> QED BY <3>3
  <2>2. W \in SUBSET scope.faces
    BY <1>8, <1>13, ResolvesToFaces DEF IsReference
  <2>3. DOMAIN order = 1 .. Cardinality(W) /\ Cardinality(W) \in Nat
    BY <2>2, CanonicalLists
  <2>4. DOMAIN order = DOMAIN p.members
    <3>1. [i \in DOMAIN order |-> order[i].key] = [i \in DOMAIN p.members |-> p.members[i].key]
      BY DEF ResolvesTo
    <3> HIDE DEF order
    <3> QED BY <3>1
  <2>5. IsFiniteSet(W) /\ IsFiniteSet(U)
    BY <1>5, <2>2, FS_Subset DEF WellFormed
  <2>6. Cardinality(U) = Cardinality(W)
    <3> DEFINE x == Cardinality(U)
               y == Cardinality(W)
    <3>1. x \in Nat /\ y \in Nat /\ 1 .. x = 1 .. y
      BY <2>1, <2>3, <2>4, <2>5, FS_CardinalityType
    <3> HIDE DEF x, y
    <3>2. \A k \in Nat : k \in 1 .. x <=> k \in 1 .. y
      BY <3>1
    <3>3. x <= y /\ y <= x
      BY <3>1, <3>2
    <3>4. x = y
      BY ONLY <3>1, <3>3
    <3> QED BY <3>4 DEF x, y
  <2> HIDE DEF U, W, order
  <2>7. U \in SUBSET W
    BY <1>14 DEF U, W
  <2>8. U = W
    BY <2>5, <2>6, <2>7, FS_Subset
  <2> QED BY <2>8 DEF U, W
<1> QED BY <1>5, <1>14, <1>15

\* What a command promises of the reference it wrote.
Kept(before, after) ==
    /\ after.status # "failed"
    /\ before.status = "failed" =>
        /\ read # Nothing
        /\ Faces(after.used) \subseteq Offered(before, read[1])
        /\ IF read[1].probe # Nothing
           THEN \A f \in Faces(after.used) : read[1].probe = <<Centroid(f)>>
           ELSE Offered(before, read[1]) = Faces(after.used)
    /\ MergedAway =>
        /\ after.status = "exact"
        /\ before.status # "failed" => Faces(after.used) = Faces(before.used)

\* Each command keeps the reference: captureRef,
LEMMA CaptureKeeps ==
    ASSUME RefInv, CaptureRef
    PROVE  scope' = scope /\ Kept(Resolve(ref, scope), Resolve(ref', scope))
<1>0. WellFormed(scope) /\ IsReference(ref)
  BY ScopesAssumption DEF RefInv
<1> DEFINE cur == Resolve(ref, scope)
           fresh == ReadFresh(ref)
           res == Resolve(ref', scope)
<1>1. /\ cur.status # "failed" /\ fresh.status # "failed" /\ ref' = Recaptured(ref, fresh)
      /\ ResolvesTo(res, ref'.members) /\ Faces(res.used) = Faces(cur.used) /\ scope' = scope
  BY DEF CaptureRef
<1>2. res = Resolve(ref', scope) /\ fresh = ReadFresh(ref)
  OBVIOUS
<1> HIDE DEF cur, fresh, res
<1>3. res.status # "failed" /\ ~res.changed
  BY <1>1 DEF ResolvesTo
<1>4. MergedAway => res.status = "exact"
  BY <1>0, <1>1, <1>2, <1>3, RecaptureIsExact
<1>5. Kept(cur, res)
  BY <1>1, <1>3, <1>4 DEF Kept
<1> QED BY <1>1, <1>5 DEF cur, res

\* acceptRefProposal,
LEMMA ProposalKeeps ==
    ASSUME RefInv, AcceptRefProposal
    PROVE  scope' = scope /\ Kept(Resolve(ref, scope), Resolve(ref', scope))
<1>0. WellFormed(scope) /\ IsReference(ref)
  BY ScopesAssumption DEF RefInv
<1> DEFINE cur == Resolve(ref, scope)
           res == Resolve(ref', scope)
<1>1. /\ cur.proposal # Nothing /\ ref' = cur.proposal[1]
      /\ ResolvesTo(res, ref'.members) /\ scope' = scope
  BY DEF AcceptRefProposal
<1>2. res = Resolve(ref', scope) /\ cur = Resolve(ref, scope)
  OBVIOUS
<1> HIDE DEF cur, res
<1>3. cur.status # "failed"
  BY <1>0, <1>1, <1>2, ProposedIs
<1>4. res.status # "failed"
  BY <1>1 DEF ResolvesTo
<1>5. MergedAway => res.status = "exact" /\ Faces(res.used) = Faces(cur.used)
  BY <1>0, <1>1, <1>2, ProposalIsExact
<1>6. Kept(cur, res)
  BY <1>3, <1>4, <1>5 DEF Kept
<1> QED BY <1>1, <1>6 DEF cur, res

\* What a call designates is offered to it; and without a probe nothing else is.
LEMMA DesignatedIsOffered ==
    ASSUME NEW res, NEW sel, NEW hit \in Hits(res, sel)
    PROVE  /\ hit[1] \in DOMAIN res.unresolved
           /\ res.unresolved[hit[1]].candidates[hit[2]] \in Offered(res, sel)
<1>1. PICK i \in DOMAIN res.unresolved : hit \in {i} \X DOMAIN res.unresolved[i].candidates
  BY DEF Hits, Spots
<1>2. PICK j \in DOMAIN res.unresolved[i].candidates : hit = <<i, j>>
  BY <1>1
<1>3. /\ res.unresolved[i].key = sel.member
      /\ res.unresolved[i].candidates[j].key = sel.key
      /\ sel.index \in {0, j}
  BY <1>2 DEF Hits
<1> DEFINE u == res.unresolved[i]
           f == u.candidates[j]
<1>4. u \in SetOf(res.unresolved) /\ f \in SetOf(u.candidates)
  BY DEF SetOf
<1>5. hit[1] = i /\ hit[2] = j /\ u.key = sel.member /\ f.key = sel.key
  BY <1>2, <1>3
<1> HIDE DEF u
<1>6. \E k \in DOMAIN u.candidates : u.candidates[k] = f /\ sel.index \in {0, k}
  BY <1>3 DEF u
<1> HIDE DEF f
<1>7. f \in Offered(res, sel)
  BY <1>4, <1>5, <1>6 DEF Offered
<1> QED BY <1>5, <1>7 DEF f, u

LEMMA OnlyOffered ==
    ASSUME NEW res, NEW sel, sel.probe = Nothing, NEW hit, Hits(res, sel) = {hit}
    PROVE  Offered(res, sel) = {res.unresolved[hit[1]].candidates[hit[2]]}
<1> DEFINE cand == res.unresolved[hit[1]].candidates[hit[2]]
<1>1. ASSUME NEW f \in Offered(res, sel) PROVE f = cand
  <2>1. PICK i \in DOMAIN res.unresolved : \E j \in DOMAIN res.unresolved[i].candidates :
          /\ res.unresolved[i].key = sel.member /\ f.key = sel.key
          /\ res.unresolved[i].candidates[j] = f /\ sel.index \in {0, j}
    BY <1>1 DEF Offered, SetOf
  <2>2. PICK j \in DOMAIN res.unresolved[i].candidates :
          /\ res.unresolved[i].key = sel.member /\ f.key = sel.key
          /\ res.unresolved[i].candidates[j] = f /\ sel.index \in {0, j}
    BY <2>1
  <2>3. <<i, j>> \in Spots(res) /\ <<i, j>>[1] = i /\ <<i, j>>[2] = j
    BY DEF Spots
  <2>5. <<i, j>> \in Hits(res, sel)
    BY <2>2, <2>3 DEF Hits
  <2>4. hit = <<i, j>>
    BY <2>5
  <2> QED BY <2>2, <2>4
<1>2. cand \in Offered(res, sel)
  BY DesignatedIsOffered
<1> HIDE DEF cand
<1> QED BY <1>1, <1>2 DEF cand

\* and acceptRefCandidate.
LEMMA CandidateKeeps ==
    ASSUME RefInv, AcceptRefCandidate
    PROVE  scope' = scope /\ Kept(Resolve(ref, scope), Resolve(ref', scope))
<1>0. WellFormed(scope) /\ IsReference(ref) /\ IsCapture(ref.members)
  BY ScopesAssumption DEF RefInv, IsReference
<1> DEFINE cur == Resolve(ref, scope)
           res == Resolve(ref', scope)
<1>a. PICK hits \in {Hits(cur, read[1])} :
        \E hit \in hits :
            /\ hits = {hit}
            /\ \E u \in {cur.unresolved[hit[1]]} : \E cand \in {u.candidates[hit[2]]} :
                /\ \E q \in {Synthesize(scope, cand, <<ref.q>>)} :
                    \E fresh \in {ReadFresh(Uncaptured(q, ref.card))} :
                        /\ fresh.status # "failed"
                        /\ ref' = Recaptured(Uncaptured(q, ref.card), fresh)
                /\ ResolvesTo(res, <<cand>>)
                /\ Faces(res.used) = {cand}
  BY DEF AcceptRefCandidate
<1>b. PICK hit \in hits :
            /\ hits = {hit}
            /\ \E u \in {cur.unresolved[hit[1]]} : \E cand \in {u.candidates[hit[2]]} :
                /\ \E q \in {Synthesize(scope, cand, <<ref.q>>)} :
                    \E fresh \in {ReadFresh(Uncaptured(q, ref.card))} :
                        /\ fresh.status # "failed"
                        /\ ref' = Recaptured(Uncaptured(q, ref.card), fresh)
                /\ ResolvesTo(res, <<cand>>)
                /\ Faces(res.used) = {cand}
  BY <1>a
<1> DEFINE cand == cur.unresolved[hit[1]].candidates[hit[2]]
           q == Synthesize(scope, cand, <<ref.q>>)
<1>1. /\ Hits(cur, read[1]) = {hit}
      /\ ReadFresh(Uncaptured(q, ref.card)).status # "failed"
      /\ ref' = Recaptured(Uncaptured(q, ref.card), ReadFresh(Uncaptured(q, ref.card)))
      /\ ResolvesTo(res, <<cand>>)
      /\ Faces(res.used) = {cand}
      /\ scope' = scope /\ read # Nothing
  <2>1. scope' = scope /\ read # Nothing
    BY DEF AcceptRefCandidate
  <2> HIDE DEF cur, res
  <2> QED BY <1>a, <1>b, <2>1
<1> HIDE DEF q
<1> DEFINE r == Uncaptured(q, ref.card)
           fresh == ReadFresh(r)
<1>2. IsReference(r)
  BY UncapturedIs
<1>3. fresh = ReadFresh(r) /\ fresh.status # "failed" /\ ref' = Recaptured(r, fresh)
  BY <1>1
<1>4. res = Resolve(ref', scope) /\ cur = Resolve(ref, scope)
  OBVIOUS
<1> HIDE DEF cur, r, fresh, res
<1>5. hit[1] \in DOMAIN cur.unresolved /\ cand \in Offered(cur, read[1])
  BY <1>1, DesignatedIsOffered
<1>a1. read[1].probe # Nothing => read[1].probe = <<Centroid(cand)>>
  BY <1>1 DEF Hits
<1>b1. read[1].probe = Nothing => Offered(cur, read[1]) = {cand}
  BY <1>1, OnlyOffered
<1>6. cur.status = "failed"
  <2> SUFFICES ASSUME cur.status # "failed" PROVE FALSE
    OBVIOUS
  <2> DEFINE c == Reading(ref, scope)
             b == Placed(ref, c)
             n == Rest(c, b)
  <2>1. c = Reading(ref, scope) /\ b = Placed(ref, c) /\ n = Rest(c, b)
    OBVIOUS
  <2> HIDE DEF c, b, n
  <2>2. Resolved(ref, scope, cur, c, b, n)
    BY <1>0, <1>4, <2>1, ResolveIs
  <2>3. cur.unresolved = <<>>
    BY <2>2 DEF Resolved
  <2> QED BY <1>5, <2>3
<1>7. res.status # "failed" /\ ~res.changed
  BY <1>1 DEF ResolvesTo
<1>8. MergedAway => res.status = "exact"
  BY <1>0, <1>2, <1>3, <1>4, <1>7, RecaptureIsExact
<1>9. Kept(cur, res)
  BY <1>1, <1>5, <1>a1, <1>b1, <1>6, <1>7, <1>8 DEF Kept
<1> QED BY <1>1, <1>9 DEF cur, res

\* No other step writes it.
LEMMA CommandsKeep ==
    ASSUME RefInv, RefNext, ref' # ref
    PROVE  scope' = scope /\ Kept(Resolve(ref, scope), Resolve(ref', scope))
<1>1. CaptureRef \/ AcceptRefProposal \/ AcceptRefCandidate
  BY DEF RefNext, Edit, ReadCandidate, Forget
<1> QED BY <1>1, CaptureKeeps, ProposalKeeps, CandidateKeeps

\* A command that rewrites a reference leaves one that resolves; if it gave nothing before,
\* to a face offered now: the very one whose probe the user read, and without a probe the only
\* one that the key, and the place if given, can mean now; and, unless a face still has a merged
\* key, with nothing to tell and to the faces it gave before (capture_ref, accept_ref_proposal
\* and accept_ref_candidate of commands.rs).
THEOREM CommandsKeepTheReference == RefSpec => CommandsAreExact
<1>1. RefInv /\ [RefNext]_refVars =>
        [ref' # ref =>
            \A before \in {Resolve(ref, scope)}, after \in {Resolve(ref', scope')} :
                /\ after.status # "failed"
                /\ before.status = "failed" =>
                    /\ read # Nothing
                    /\ Faces(after.used) \subseteq Offered(before, read[1])
                    /\ IF read[1].probe # Nothing
                       THEN \A f \in Faces(after.used) : read[1].probe = <<Centroid(f)>>
                       ELSE Offered(before, read[1]) = Faces(after.used)
                /\ MergedAway =>
                    /\ after.status = "exact"
                    /\ before.status # "failed" => Faces(after.used) = Faces(before.used)]_refVars
  <2> SUFFICES ASSUME RefInv, RefNext, ref' # ref
               PROVE  Kept(Resolve(ref, scope), Resolve(ref', scope'))
    BY DEF Kept, refVars
  <2> QED BY CommandsKeep
<1> QED BY <1>1, ReferencesAreWritten, PTL DEF RefSpec, CommandsAreExact

=============================================================================
