------------------------------ MODULE DocStore ------------------------------
(***************************************************************************)
(* The open document of the app: its source, the compile-and-evaluate      *)
(* pipeline with its timer and its runs in flight, engine switches, and    *)
(* the commands that open and save files.                                  *)
(*                                                                         *)
(* A source is a name; compiling it gives IrOf[source], or None when it    *)
(* has errors.  A file is what was written last: the source itself, or the *)
(* source its IR JSON came from.  docId changes only together with         *)
(* revision, so isStale is the test of the revision.                       *)
(***************************************************************************)
EXTENDS History

CONSTANTS Sources,      \* source texts
          Starter,      \* the source a new document starts with
          Irs,          \* compiled documents
          IrOf,         \* [source -> its IR, or None]
          Engines,      \* evaluation engines
          Paths,        \* files
          JsonPaths,    \* files that hold IR JSON
          None,         \* JavaScript's null
          MaxRevision,  \* bound: source changes and loads
          MaxRuns,      \* bound: runs in flight
          MaxSaves,     \* bound: file writes in flight
          Recomputes,   \* TRUE: recompute and engine.select are called
          ServiceFails  \* TRUE: the CadScript service may reject a compile

ASSUME SourcesAssumption ==
    /\ Starter \in Sources /\ Sources \subseteq Seq(Units)
    /\ IrOf \in [Sources -> Irs \cup {None}]
ASSUME NoneAssumption ==
    None \notin Sources \cup Irs \cup Engines \cup Paths \cup [ir : Irs, engine : Engines]
ASSUME BoundsAssumption == MaxRevision \in Nat /\ MaxRuns \in Nat /\ MaxSaves \in Nat
ASSUME FilesAssumption == JsonPaths \subseteq Paths
ASSUME SwitchAssumption == {Recomputes, ServiceFails} \subseteq BOOLEAN

VARIABLES
    source, savedSource, dirty, path, revision,      \* the document
    history,                                         \* its undo and redo stacks
    compile, compiledRevision, model,                \* the compile state: the source
                                                     \* compiled last, the last good IR
    report, evaluatedIrJson, engineError,            \* the evaluation
    phase, timer, forceEval,                         \* the pipeline
    compiling,    \* runs awaiting the CadScript service, which answers in order
    evaluating,   \* runs awaiting an engine; forge-cli answers in any order
    active,       \* EngineManager: the active engine
    selecting,    \* engines that an engine.select command awaits
    disk,         \* [file -> what was written last]
    saving,       \* saveTo calls awaiting host.writeFile
    opening,      \* openPath calls that have read their file and are to load it
    overtaken     \* history: the last save or load to end was of an older document, or
                  \* of an older file

docVars == <<source, savedSource, dirty, path, revision, history>>
compileVars == <<compile, compiledRevision, model>>
evalVars == <<report, evaluatedIrJson, engineError>>
pipeVars == <<phase, timer, forceEval>>
runVars == <<compiling, evaluating>>
engineVars == <<active, selecting>>
fileVars == <<disk, saving, opening, overtaken>>
vars == <<docVars, compileVars, evalVars, pipeVars, runVars, engineVars, fileVars>>

(* What run() captured before its first await, and before its second. *)
Runs == [revision : Nat, source : Sources]
Evaluations == [revision : Nat, ir : Irs, engine : Engines]
Reports == [ir : Irs, engine : Engines]
(* The revision that the data is of; whether a write of the file ended since it was read. *)
Saves == [path : Paths, data : Sources, revision : Nat]
Opens == [path : Paths, text : Sources, late : BOOLEAN]

TypeOK ==
    /\ source \in Sources /\ savedSource \in Sources /\ dirty \in BOOLEAN
    /\ path \in Paths \cup {None} /\ revision \in Nat /\ history \in Histories
    /\ compile \in Sources \cup {None} /\ compiledRevision \in Nat
    /\ model \in Irs \cup {None}
    /\ report \in Reports \cup {None} /\ evaluatedIrJson \in Irs \cup {None}
    /\ engineError \in {"none", "service", "engine"}
    /\ phase \in {"idle", "pending", "compiling", "evaluating"}
    /\ timer \in BOOLEAN /\ forceEval \in BOOLEAN
    /\ compiling \in Seq(Runs) /\ evaluating \in Seq(Evaluations)
    /\ active \in Engines /\ selecting \in SUBSET Engines
    /\ disk \in [Paths -> Sources \cup {None}]
    /\ saving \in SUBSET Saves /\ opening \in SUBSET Opens /\ overtaken \in BOOLEAN

(* After bootstrap: an engine is chosen, the starter document is loaded. *)
Init ==
    /\ source = Starter /\ savedSource = Starter /\ dirty = FALSE
    /\ path = None /\ revision = 2 /\ history = NoHistory
    /\ compile = None /\ compiledRevision = 0 /\ model = None
    /\ report = None /\ evaluatedIrJson = None /\ engineError = "none"
    /\ phase = "pending" /\ timer = TRUE /\ forceEval = FALSE
    /\ compiling = <<>> /\ evaluating = <<>>
    /\ active \in Engines /\ selecting = {}
    /\ disk \in [Paths -> {Starter, None}]
    /\ saving = {} /\ opening = {} /\ overtaken = FALSE

-----------------------------------------------------------------------------
(* The document. *)

(* Mutant: a timer that is set is not started again. *)
ScheduleIfIdle ==
    /\ phase' = "pending"
    /\ timer' = (phase = "idle")

(* schedule: the timer is restarted. *)
Schedule == phase' = "pending" /\ timer' = TRUE

(* load *)
Load(s, p) ==
    /\ revision < MaxRevision
    /\ source' = s /\ savedSource' = s /\ dirty' = FALSE
    /\ path' = p /\ revision' = revision + 1 /\ history' = NoHistory
    /\ compile' = None /\ compiledRevision' = 0 /\ model' = None
    /\ report' = None /\ evaluatedIrJson' = None /\ engineError' = "none"
    /\ Schedule
    /\ UNCHANGED <<forceEval, runVars, engineVars>>

(* applySource *)
ApplySource(s) ==
    /\ revision < MaxRevision
    /\ source' = s
    /\ revision' = revision + 1
    /\ dirty' = (s # savedSource)
    /\ Schedule
    /\ UNCHANGED <<savedSource, path, compileVars, evalVars, forceEval, runVars,
                   engineVars, fileVars>>

SetSource(s, key) ==
    /\ s # source
    /\ history' \in Recorded(history, source, s, key)
    /\ ApplySource(s)

(* applyEdit throws when the edit does not apply: see StacksFit. *)
Undo ==
    /\ history.undo # <<>>
    /\ LET edit == InvertEdit(Last(history.undo).edit) IN
         /\ Applies(source, edit)
         /\ ApplySource(ApplyEdit(source, edit))
    /\ history' = Undone(history)

Redo ==
    /\ history.redo # <<>>
    /\ LET edit == Last(history.redo).edit IN
         /\ Applies(source, edit)
         /\ ApplySource(ApplyEdit(source, edit))
    /\ history' = Redone(history)

(* sealTransaction, when the editor loses focus *)
SealTransaction ==
    /\ Keys # {} /\ history' = Sealed(history)
    /\ UNCHANGED <<source, savedSource, dirty, path, revision, compileVars, evalVars, pipeVars,
                   runVars, engineVars, fileVars>>

(* recompute, from doc.recompute *)
Recompute ==
    /\ Recomputes
    /\ forceEval' = TRUE
    /\ Schedule
    /\ UNCHANGED <<docVars, compileVars, evalVars, runVars, engineVars, fileVars>>

(* engine.select awaits the engine; then the engine is active and the command
   calls recompute. *)
SelectEngine(e) ==
    /\ Recomputes
    /\ e \notin selecting
    /\ selecting' = selecting \cup {e}
    /\ UNCHANGED <<docVars, compileVars, evalVars, pipeVars, runVars, active, fileVars>>

EngineReady(e) ==
    /\ e \in selecting
    /\ selecting' = selecting \ {e}
    /\ active' = e
    /\ forceEval' = TRUE
    /\ Schedule
    /\ UNCHANGED <<docVars, compileVars, evalVars, runVars, fileVars>>

EngineUnavailable(e) ==
    /\ e \in selecting
    /\ selecting' = selecting \ {e}
    /\ UNCHANGED <<docVars, compileVars, evalVars, pipeVars, runVars, active, fileVars>>

-----------------------------------------------------------------------------
(* The pipeline: run() between its awaits. *)

(* Mutant: an outdated run goes on. *)
NeverStale(r) == FALSE

(* isStale of a run *)
IsStale(r) == r.revision # revision

(* The timer fires: run() captures the source and awaits the compiler. *)
TimerFires ==
    /\ timer
    /\ Len(compiling) + Len(evaluating) < MaxRuns
    /\ timer' = FALSE
    /\ phase' = "compiling"
    /\ compiling' = Append(compiling, [revision |-> revision, source |-> source])
    /\ UNCHANGED <<docVars, compileVars, evalVars, forceEval, evaluating, engineVars,
                   fileVars>>

RunReturns ==
    /\ compiling # <<>>
    /\ compiling' = Tail(compiling)
    /\ UNCHANGED <<docVars, timer, engineVars, fileVars>>

(* The service rejects. *)
CompileFails ==
    /\ ServiceFails
    /\ RunReturns
    /\ IF IsStale(Head(compiling))
       THEN UNCHANGED <<phase, engineError>>
       ELSE phase' = "idle" /\ engineError' = "service"
    /\ UNCHANGED <<compileVars, report, evaluatedIrJson, forceEval, evaluating>>

CompileStale ==
    /\ RunReturns
    /\ IsStale(Head(compiling))
    /\ UNCHANGED <<compileVars, evalVars, phase, forceEval, evaluating>>

(* The compile output of a current run becomes the state. *)
TakeOutput(r) ==
    /\ compile' = r.source
    /\ compiledRevision' = r.revision
    /\ model' = IF IrOf[r.source] # None THEN IrOf[r.source] ELSE model

CompileErrors ==
    /\ RunReturns
    /\ LET r == Head(compiling) IN
         /\ ~IsStale(r) /\ IrOf[r.source] = None
         /\ TakeOutput(r)
    /\ phase' = "idle"
    /\ UNCHANGED <<evalVars, forceEval, evaluating>>

(* run() skips the evaluation of an IR that was evaluated before. *)
Evaluated(ir) ==
    /\ ~forceEval
    /\ ir = evaluatedIrJson
    /\ report # None \/ engineError # "none"

CompileUnchanged ==
    /\ RunReturns
    /\ LET r == Head(compiling) IN
         /\ ~IsStale(r) /\ IrOf[r.source] # None
         /\ TakeOutput(r)
         /\ Evaluated(IrOf[r.source])
    /\ phase' = "idle"
    /\ UNCHANGED <<evalVars, forceEval, evaluating>>

CompileDone ==
    /\ RunReturns
    /\ LET r == Head(compiling)
           ir == IrOf[r.source] IN
         /\ ~IsStale(r) /\ ir # None
         /\ TakeOutput(r)
         /\ ~Evaluated(ir)
         /\ evaluating' = Append(evaluating,
                                 [revision |-> r.revision, ir |-> ir, engine |-> active])
    /\ forceEval' = FALSE
    /\ phase' = "evaluating"
    /\ UNCHANGED evalVars

EvaluationReturns(i) ==
    /\ evaluating' = RemoveAt(evaluating, i)
    /\ UNCHANGED <<docVars, compileVars, timer, forceEval, compiling, engineVars, fileVars>>

EvaluateStale(i) ==
    /\ EvaluationReturns(i)
    /\ IsStale(evaluating[i])
    /\ UNCHANGED <<evalVars, phase>>

EvaluateDone(i) ==
    /\ EvaluationReturns(i)
    /\ LET r == evaluating[i] IN
         /\ ~IsStale(r)
         /\ report' = [ir |-> r.ir, engine |-> r.engine]
         /\ evaluatedIrJson' = r.ir
    /\ engineError' = "none"
    /\ phase' = "idle"

EvaluateFails(i) ==
    /\ EvaluationReturns(i)
    /\ ~IsStale(evaluating[i])
    /\ report' = None
    /\ evaluatedIrJson' = evaluating[i].ir
    /\ engineError' = "engine"
    /\ phase' = "idle"

CompileReturns ==
    CompileFails \/ CompileStale \/ CompileErrors \/ CompileUnchanged \/ CompileDone

Evaluates(i) == EvaluateStale(i) \/ EvaluateDone(i) \/ EvaluateFails(i)

-----------------------------------------------------------------------------
(* The file commands. *)

(* What idle() waits for. *)
Idle == phase = "idle" /\ ~timer

(* currentIr: idle, and the last compile had no errors. *)
HasIr == Idle /\ compile # None /\ IrOf[compile] # None

(* saveTo awaits the write of what it took from the document: its source, or the
   IR of the source compiled last. *)
Save(p) ==
    /\ Cardinality(saving) < MaxSaves
    /\ p \in JsonPaths => HasIr
    /\ saving' = saving \cup
         {IF p \in JsonPaths THEN [path |-> p, data |-> compile, revision |-> compiledRevision]
                             ELSE [path |-> p, data |-> source, revision |-> revision]}
    /\ UNCHANGED <<docVars, compileVars, evalVars, pipeVars, runVars, engineVars, disk,
                   opening, overtaken>>

(* Mutant: the saved source is not remembered. *)
MarkSavedKeepSource(p) == path' = p /\ dirty' = FALSE /\ UNCHANGED savedSource

(* markSaved *)
MarkSaved(p) ==
    /\ path' = p
    /\ savedSource' = source
    /\ dirty' = FALSE

SaveDone(sv) ==
    /\ saving' = saving \ {sv}
    /\ disk' = [disk EXCEPT ![sv.path] = sv.data]
    /\ MarkSaved(sv.path)
    /\ opening' = {IF o.path = sv.path THEN [o EXCEPT !.late = TRUE] ELSE o : o \in opening}
    /\ overtaken' = (sv.revision # revision)
    /\ UNCHANGED <<source, revision, history, compileVars, evalVars, pipeVars, runVars,
                   engineVars>>

SaveFails(sv) ==
    /\ saving' = saving \ {sv}
    /\ UNCHANGED <<docVars, compileVars, evalVars, pipeVars, runVars, engineVars, disk,
                   opening, overtaken>>

(* file.new; confirmDiscard and load are one step of the event loop. *)
New ==
    /\ Load(Starter, None)
    /\ overtaken' = FALSE
    /\ UNCHANGED <<disk, saving, opening>>

(* file.open and file.openRecent: the user was asked, the file is read.  Bound of
   the model: one at a time. *)
Open(p) ==
    /\ opening = {} /\ disk[p] # None
    /\ opening' = {[path |-> p, text |-> disk[p], late |-> FALSE]}
    /\ UNCHANGED <<docVars, compileVars, evalVars, pipeVars, runVars, engineVars, disk,
                   saving, overtaken>>

(* What was read, and for IR JSON printed, is loaded. *)
OpenDone(o) ==
    /\ opening' = opening \ {o}
    /\ Load(o.text, o.path)
    /\ overtaken' = o.late
    /\ UNCHANGED <<disk, saving>>

OpenFails(o) ==
    /\ opening' = opening \ {o}
    /\ UNCHANGED <<docVars, compileVars, evalVars, pipeVars, runVars, engineVars, disk,
                   saving, overtaken>>

-----------------------------------------------------------------------------
Pipeline ==
    \/ TimerFires
    \/ CompileReturns
    \/ \E i \in DOMAIN evaluating : Evaluates(i)

Next ==
    \/ Pipeline
    \/ \E s \in Sources, key \in Keys \cup {NoKey} : SetSource(s, key)
    \/ Undo \/ Redo \/ SealTransaction
    \/ Recompute
    \/ \E e \in Engines : SelectEngine(e) \/ EngineReady(e) \/ EngineUnavailable(e)
    \/ \E p \in Paths : Save(p) \/ Open(p)
    \/ \E sv \in saving : SaveDone(sv) \/ SaveFails(sv)
    \/ \E o \in opening : OpenDone(o) \/ OpenFails(o)
    \/ New

(* Timers fire, and the compiler and the engines answer or reject. *)
Fairness ==
    /\ WF_vars(TimerFires)
    /\ WF_vars(CompileReturns)
    /\ \A i \in 1..MaxRuns : WF_vars(i \in DOMAIN evaluating /\ Evaluates(i))

Spec == Init /\ [][Next]_vars
FairSpec == Spec /\ Fairness

-----------------------------------------------------------------------------
(* The state describes the latest source once the pipeline is idle: its compile
   output and, if that has an IR, the report of this IR or an error
   (doc-store.ts:5-8). *)
IdleDescribesSource ==
    Idle /\ engineError # "service" =>
        /\ compiledRevision = revision /\ compile = source
        /\ IrOf[source] # None =>
             /\ model = IrOf[source] /\ evaluatedIrJson = IrOf[source]
             /\ report = None => engineError = "engine"
             /\ report # None => report.ir = IrOf[source]

(* No change strands the pipeline: once the user rests it becomes idle, and
   stays so. *)
Settles == <>[][Pipeline]_vars => <>[]Idle

(* savedSource is the source as last saved or loaded (doc-store.ts:40): a document
   that is not dirty is on disk under its path, however edits, undo, compiles, loads,
   reads and writes cross; but when the save it comes from was of an older document
   than the one it marked, or the load of an older file than the one there. *)
CleanIsOnDisk == ~dirty /\ path # None /\ ~overtaken => disk[path] = source

(* Undo and redo find the text their edit was made for, in whatever order
   changes are recorded, merged, dropped, undone, redone and forgotten: applyEdit
   never throws (text-edit.ts:39). *)
StacksFit ==
    /\ \E texts \in [1..Len(history.undo) -> Sources] : IsPast(texts, history.undo, source)
    /\ \E texts \in [1..Len(history.redo) -> Sources] : IsFuture(texts, history.redo, source)

(* A recorded edit splits no surrogate pair (text-edit.ts:18). *)
PairsAreWhole ==
    \A tx \in Range(history.undo) \cup Range(history.redo) :
      Whole(tx.edit.removed) /\ Whole(tx.edit.inserted)

(* The texts that undo and redo give. *)
Past == CHOOSE texts \in [1..Len(history.undo) -> Sources] : IsPast(texts, history.undo, source)
Future == CHOOSE texts \in [1..Len(history.redo) -> Sources] : IsFuture(texts, history.redo, source)

Log == INSTANCE UndoLog WITH Texts <- Sources, Limit <- HistoryLimit, past <- Past,
                             present <- source, future <- Future, open <- ~history.sealed

(* Stacks of edits implement a log of whole texts: each undo gives the text
   before the transaction, a redo the one undone last, no edit goes on with a
   transaction after an undo, a redo or a seal (history.ts:2-4). *)
KeepsUndoLog == Log!Spec
=============================================================================
