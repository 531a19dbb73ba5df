----------------------------- MODULE IrDocStore -----------------------------
(***************************************************************************)
(* The document of the IR v1 app: loads and transactions, which are queued  *)
(* and run one at a time over an engine that answers later, and undo and    *)
(* redo, which are not queued.                                             *)
(*                                                                         *)
(* A document is three units: what its features say, the geometry its       *)
(* sketches have stored, and the geometry a reference captured.  Writing    *)
(* back stores the solution of the sketches.  The reading jobs of the queue *)
(* (preview, report, idle) are left out.                                   *)
(***************************************************************************)
EXTENDS History

CONSTANTS Models,         \* what the features of a document may say
          Geometries,     \* what sketches and captures may hold
          SolutionOf,     \* [model -> its solution; None: the engine refuses
                          \* to write it back]
          Loads,          \* documents the user loads
          None,           \* JavaScript's null
          AutoWriteBack,  \* the option of this name
          MaxRevision,    \* bound: changes of the document
          MaxQueue,       \* bound: jobs waiting
          MaxCalls,       \* bound: ops of a transaction
          MaxSwitches     \* bound: switches of the engine

Docs == {<<m, g, c>> : m \in Models, g \in Geometries, c \in Geometries}

ASSUME DocsAssumption ==
    /\ Models \cup Geometries \subseteq Units
    /\ SolutionOf \in [Models -> Geometries \cup {None}]
    /\ Loads \subseteq Docs
ASSUME BoundsAssumption == {MaxRevision, MaxQueue, MaxCalls, MaxSwitches} \subseteq Nat
ASSUME OptionAssumption == AutoWriteBack \in BOOLEAN

VARIABLES
    document,   \* the document of record, or None
    revision, history, busy,
    params,     \* the document whose parameters are shown, or None
    switches,   \* how often the user has switched the engine
    queue,      \* jobs that wait for the running one
    job,        \* what the running job awaits
    tx          \* the running transaction

storeVars == <<document, revision, history, busy, params>>
vars == <<storeVars, switches, queue, job, tx>>

(* An edit (of a parameter, a name, a version), a capture, a repair that carries
   the probe of what was read, one by the mere index of a candidate, and a
   write-back of all sketches. *)
Ops == [op : {"edit"}, to : Models] \cup [op : {"capture", "repair", "pick", "writeBack"}]

(* CAPTURE_OPS *)
Captures(o) == o.op \in {"capture", "repair", "pick"}

Jobs == [type : {"load"}, doc : Docs] \cup [type : {"transaction", "refresh"}]
Awaited == [at : {"none", "transaction"}] \cup [at : {"canonicalize", "params"}, doc : Docs]

(* at: what its chain of ops, or after them its end, awaits; done: how many of
   the ops called have settled *)
Works == [base : Docs, working : Docs, written : Docs \cup {None},
          calls : Seq(Ops), done : Nat, at : {"idle", "writeBack", "op", "end"},
          callback : {"runs", "returned", "threw"}, failed : BOOLEAN, edited : BOOLEAN]

ASSUME NoneAssumption == None \notin Docs \cup Works

TypeOK ==
    /\ document \in Docs \cup {None} /\ params \in Docs \cup {None}
    /\ revision \in Nat /\ history \in Histories
    /\ busy \in BOOLEAN /\ switches \in Nat
    /\ queue \in Seq(Jobs) /\ job \in Awaited
    /\ tx \in Works \cup {None}

Free == [at |-> "none"]

Init ==
    /\ document = None /\ revision = 0 /\ history = NoHistory
    /\ busy = FALSE /\ params = None /\ switches = 0
    /\ queue = <<>> /\ job = Free /\ tx = None

-----------------------------------------------------------------------------
(* The engine. *)

(* writeBack, to the fixed point; a refusal leaves the document. *)
WrittenBack(d) ==
    IF SolutionOf[d[1]] = None THEN d ELSE <<d[1], SolutionOf[d[1]], d[3]>>

(* What the engine makes of the document, if it does not refuse. *)
Applied(d, o) ==
    CASE o.op = "edit" -> <<o.to, d[2], d[3]>>
      [] o.op = "writeBack" -> WrittenBack(d)
      [] Captures(o) -> <<d[1], d[2], d[2]>>

(* Whether the active engine has a command layer: every second one has none. *)
HasCommands == switches % 2 = 0

SwitchEngine ==
    /\ switches < MaxSwitches /\ switches' = switches + 1
    /\ UNCHANGED <<storeVars, queue, job, tx>>

-----------------------------------------------------------------------------
(* The queue. *)

(* serial; there is room for the changes under way. *)
Ask(j) ==
    /\ Len(queue) < MaxQueue /\ revision + Len(queue) < MaxRevision
    /\ queue' = Append(queue, j)
    /\ UNCHANGED <<storeVars, switches, job, tx>>

IsNext(type) == job = Free /\ queue # <<>> /\ Head(queue).type = type

(* refreshParams, of document d, at the end of a job: without a command layer
   the parameters stay. *)
Refresh(d) == job' = IF HasCommands /\ d # None THEN [at |-> "params", doc |-> d] ELSE Free

StartRefresh ==
    /\ IsNext("refresh") /\ queue' = Tail(queue)
    /\ Refresh(document)
    /\ UNCHANGED <<storeVars, switches, tx>>

(* The parameters are there, or cannot be had. *)
ParamsDone(ok) ==
    /\ job.at = "params" /\ job' = Free
    /\ params' = IF document # job.doc THEN params ELSE IF ok THEN job.doc ELSE None
    /\ UNCHANGED <<document, revision, history, busy, switches, queue, tx>>

StartLoad ==
    /\ IsNext("load") /\ queue' = Tail(queue)
    /\ job' = IF HasCommands THEN [at |-> "canonicalize", doc |-> Head(queue).doc] ELSE Free
    /\ UNCHANGED <<storeVars, switches, tx>>

LoadDone ==
    /\ job.at = "canonicalize"
    /\ history' = NoHistory
    /\ document' = job.doc /\ revision' = revision + 1
    /\ Refresh(job.doc)
    /\ UNCHANGED <<busy, params, switches, queue, tx>>

LoadFails ==
    /\ job.at = "canonicalize" /\ job' = Free
    /\ UNCHANGED <<storeVars, switches, queue, tx>>

-----------------------------------------------------------------------------
(* A transaction: its callback applies ops, which run one after the other. *)

NewTransaction(d) ==
    [base |-> d, working |-> d, written |-> None, calls |-> <<>>, done |-> 0, at |-> "idle",
     callback |-> "runs", failed |-> FALSE, edited |-> FALSE]

StartTransaction ==
    /\ IsNext("transaction") /\ queue' = Tail(queue)
    /\ IF document # None /\ HasCommands
       THEN /\ busy' = TRUE
            /\ job' = [at |-> "transaction"]
            /\ tx' = NewTransaction(document)
       ELSE UNCHANGED <<busy, job, tx>>
    /\ UNCHANGED <<document, revision, history, params, switches>>

GoesOn(t) == tx' = t /\ UNCHANGED <<storeVars, switches, queue, job>>

(* tx.apply, by the callback or by what it started and did not wait for *)
Call(o) ==
    /\ tx # None /\ tx.at # "end" /\ Len(tx.calls) < MaxCalls
    /\ GoesOn([tx EXCEPT !.calls = Append(@, o)])

Op == tx.calls[tx.done + 1]

(* Mutant: a capture is taken of the document as it is. *)
TakesAnything == FALSE

(* An op that captures runs on the written-back document. *)
WritesBackFirst == AutoWriteBack /\ Captures(Op) /\ tx.working # tx.written

(* The next op begins. *)
BeginOp ==
    /\ tx # None /\ tx.at = "idle" /\ tx.done < Len(tx.calls)
    /\ GoesOn([tx EXCEPT !.at = IF WritesBackFirst THEN "writeBack" ELSE "op"])

(* The op is refused; the transaction remembers. *)
OpRefused(t) == [t EXCEPT !.at = "idle", !.done = @ + 1, !.failed = TRUE]

TxWrittenBack(t) ==
    [t EXCEPT !.working = WrittenBack(t.working), !.written = WrittenBack(t.working)]

(* A repair by index is refused when the write-back changed the document. *)
OpWrittenBack ==
    /\ tx # None /\ tx.at = "writeBack"
    /\ LET t == TxWrittenBack(tx) IN
         GoesOn(IF Op.op = "pick" /\ t.working # tx.working THEN OpRefused(t)
                ELSE [t EXCEPT !.at = "op"])

OpDone ==
    /\ tx # None /\ tx.at = "op"
    /\ Op.op = "writeBack" => SolutionOf[tx.working[1]] # None
    /\ LET d == Applied(tx.working, Op)
           atFixedPoint == tx.working = tx.written
       IN  GoesOn([tx EXCEPT
             !.at = "idle", !.done = @ + 1, !.working = d,
             !.edited = @ \/ (d # tx.working /\ Op.op # "writeBack"),
             !.written = IF Op.op = "writeBack" \/ (Op.op = "capture" /\ atFixedPoint)
                         THEN d ELSE @])

(* The engine refuses the op or is lost, perhaps in the write-back before it. *)
OpFails ==
    /\ tx # None /\ tx.at \in {"writeBack", "op"}
    /\ GoesOn(OpRefused(tx))

CallbackSettles(how) ==
    /\ tx # None /\ tx.callback = "runs"
    /\ GoesOn([tx EXCEPT !.callback = how])

(* Mutant: ops that were not awaited are not waited for. *)
NotAwaited == tx.callback # "runs" /\ tx.at = "idle"

(* The callback has settled and so have all ops: the handle is closed. *)
Closes == tx.callback # "runs" /\ tx.at = "idle" /\ tx.done = Len(tx.calls)

Refuse ==
    /\ busy' = FALSE /\ job' = Free /\ tx' = None
    /\ UNCHANGED <<document, revision, history, params, switches, queue>>

(* What was prepared, d, becomes the document, unless that changed meanwhile. *)
Commit(d) ==
    IF document # tx.base THEN Refuse
    ELSE /\ busy' = FALSE /\ tx' = None
         /\ IF d = tx.base THEN job' = Free /\ UNCHANGED <<document, revision, history>>
            ELSE /\ history' \in Recorded(history, tx.base, d, NoKey)
                 /\ document' = d /\ revision' = revision + 1
                 /\ Refresh(d)
         /\ UNCHANGED <<params, switches, queue>>

End ==
    /\ tx # None /\ Closes
    /\ IF tx.callback = "threw" \/ tx.failed THEN Refuse
       ELSE IF AutoWriteBack /\ tx.edited /\ tx.working # tx.written
       THEN GoesOn([tx EXCEPT !.at = "end"])
       ELSE Commit(tx.working)

EndWrittenBack == tx # None /\ tx.at = "end" /\ Commit(WrittenBack(tx.working))

EndFails == tx # None /\ tx.at = "end" /\ Refuse

-----------------------------------------------------------------------------
(* Undo and redo. *)

(* Mutant: the parameters of the document before stay. *)
RestoreKeepsParams(edit, h) ==
    /\ document # None /\ ~busy /\ revision < MaxRevision
    /\ Applies(document, edit)
    /\ document' = ApplyEdit(document, edit) /\ revision' = revision + 1
    /\ history' = h
    /\ UNCHANGED <<busy, params, switches, queue, job, tx>>

(* The document is the one the edit gives; its parameters are asked for. *)
Restore(edit, h) ==
    /\ document # None /\ ~busy /\ revision < MaxRevision
    /\ Applies(document, edit)
    /\ document' = ApplyEdit(document, edit) /\ revision' = revision + 1
    /\ history' = h
    /\ queue' = Append(queue, [type |-> "refresh"])
    /\ UNCHANGED <<busy, params, switches, job, tx>>

(* Mutant: what was undone cannot be redone. *)
UndoForgets ==
    /\ history.undo # <<>>
    /\ Restore(InvertEdit(Last(history.undo).edit), [Undone(history) EXCEPT !.redo = <<>>])

Undo == history.undo # <<>> /\ Restore(InvertEdit(Last(history.undo).edit), Undone(history))

Redo == history.redo # <<>> /\ Restore(Last(history.redo).edit, Redone(history))

-----------------------------------------------------------------------------
Next ==
    \/ \E d \in Loads : Ask([type |-> "load", doc |-> d])
    \/ Ask([type |-> "transaction"])
    \/ StartRefresh \/ StartLoad \/ LoadDone \/ LoadFails
    \/ \E ok \in BOOLEAN : ParamsDone(ok)
    \/ StartTransaction
    \/ \E o \in Ops : Call(o)
    \/ BeginOp \/ OpWrittenBack \/ OpDone \/ OpFails
    \/ \E how \in {"returned", "threw"} : CallbackSettles(how)
    \/ End \/ EndWrittenBack \/ EndFails
    \/ Undo \/ Redo
    \/ SwitchEngine

Spec == Init /\ [][Next]_vars

-----------------------------------------------------------------------------
(* Properties. *)

Commits == busy /\ ~busy' /\ document' # document

(* What the features say after the ops cs, if they said m before. *)
Says(m, cs) ==
    LET edits == {i \in DOMAIN cs : cs[i].op = "edit"}
    IN  IF edits = {} THEN m ELSE cs[CHOOSE i \in edits : \A j \in edits : j <= i].to

(* A transaction commits all that was called, in the order of the calls, awaited or
   not, or nothing (ir-doc-store.ts:8-11, :34-37). *)
CommitsAreWhole ==
    [][Commits => /\ document'[1] = Says(document[1], tx.calls)
                  /\ (\A i \in DOMAIN tx.calls : ~Captures(tx.calls[i]))
                     => document'[3] = document[3]]_vars

(* A capture describes the geometry that is committed with it: after an op that
   captures, and no edit after that, the two agree (ir-doc-store.ts:28-31). *)
CapturesAreStored ==
    [][(Commits /\ AutoWriteBack /\ \E i \in DOMAIN tx.calls :
            Captures(tx.calls[i]) /\ \A j \in DOMAIN tx.calls : j > i => tx.calls[j].op # "edit")
       => document'[3] = document'[2]]_vars

(* Once the queue is empty, the parameters shown are those of the document, or none
   are (ir-doc-store.ts:78), as long as the engine is not switched. *)
ParamsAreCurrent ==
    switches = 0 /\ queue = <<>> /\ job = Free => params \in {document, None}

(* The texts that undo and redo give. *)
Past == CHOOSE texts \in [1..Len(history.undo) -> Docs] : IsPast(texts, history.undo, document)
Future == CHOOSE texts \in [1..Len(history.redo) -> Docs] : IsFuture(texts, history.redo, document)

Log == INSTANCE UndoLog WITH Texts <- Docs \cup {None}, Limit <- HistoryLimit, past <- Past,
                             present <- document, future <- Future, open <- ~history.sealed

(* A load, a transaction, an undo and a redo are each one step of a log of whole
   documents, though the engine works in between: undo restores the document before
   the transaction, and nothing else changes the document (ir-doc-store.ts:12-14). *)
KeepsUndoLog == Log!Spec
=============================================================================
