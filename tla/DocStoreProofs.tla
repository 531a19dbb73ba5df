--------------------------- MODULE DocStoreProofs ---------------------------
(* Theorems about DocStore, for any sources, engines, files and bounds: any
   number of edits, loads, engine switches and runs in flight. *)
EXTENDS DocStore, HistoryProofs

-----------------------------------------------------------------------------
(* Sequences of runs. *)

(* Removing an element leaves some of the elements. *)
LEMMA Removed ==
    ASSUME NEW S, NEW s \in Seq(S), NEW i \in DOMAIN s
    PROVE  /\ RemoveAt(s, i) \in Seq(S)
           /\ \A j \in DOMAIN RemoveAt(s, i) : \E k \in DOMAIN s : RemoveAt(s, i)[j] = s[k]
<1> DEFINE a == SubSeq(s, 1, i - 1)
           b == SubSeq(s, i + 1, Len(s))
           t == RemoveAt(s, i)
<1>1. i \in 1..Len(s) /\ Len(s) \in Nat /\ i - 1 \in Int /\ i + 1 \in Int
  OBVIOUS
<1>2. (\A k \in 1..(i - 1) : s[k] \in S) /\ (\A k \in (i + 1)..Len(s) : s[k] \in S)
  BY <1>1
<1>3. /\ a \in Seq(S) /\ Len(a) = i - 1
      /\ \A k \in 1..(i - 1) : a[k] = s[k]
  BY <1>1, <1>2, SubSeqProperties
<1>4. /\ b \in Seq(S) /\ Len(b) = Len(s) - i
      /\ \A k \in 1..(Len(s) - i) : b[k] = s[k + i]
  BY <1>1, <1>2, SubSeqProperties
<1>5. t = a \o b
  BY DEF RemoveAt
<1> HIDE DEF a, b, t
<1>6. /\ t \in Seq(S) /\ Len(t) = Len(a) + Len(b)
      /\ \A j \in 1..(Len(a) + Len(b)) : t[j] = IF j <= Len(a) THEN a[j] ELSE b[j - Len(a)]
  BY <1>3, <1>4, <1>5, ConcatProperties
<1>7. Len(a) + Len(b) = Len(s) - 1
  BY <1>1, <1>3, <1>4
<1>8. \A j \in 1..(Len(s) - 1) : t[j] = IF j <= i - 1 THEN a[j] ELSE b[j - (i - 1)]
  BY ONLY <1>3, <1>6, <1>7
<1>9. DOMAIN t = 1..(Len(s) - 1)
  BY <1>6, <1>7
<1>10. ASSUME NEW j \in 1..(Len(s) - 1)
      PROVE  \E k \in DOMAIN s : t[j] = s[k]
  <2>1. j \in DOMAIN s /\ j + 1 \in DOMAIN s /\ j \in Int
    BY <1>1
  <2>2. CASE j <= i - 1
    <3>1. j \in 1..(i - 1)
      BY <1>1, <2>1, <2>2
    <3>2. t[j] = a[j]
      BY <1>8, <2>2
    <3>3. a[j] = s[j]
      BY <1>3, <3>1
    <3>. QED  BY <2>1, <3>2, <3>3
  <2>3. CASE ~(j <= i - 1)
    <3>1. j - (i - 1) \in 1..(Len(s) - i) /\ (j - (i - 1)) + i = j + 1
      BY <1>1, <2>1, <2>3
    <3>2. t[j] = b[j - (i - 1)]
      BY <1>8, <2>3
    <3>3. b[j - (i - 1)] = s[j + 1]
      BY <1>4, <3>1
    <3>. QED  BY <2>1, <3>2, <3>3
  <2>. QED  BY <2>2, <2>3
<1>11. \A j \in DOMAIN t : \E k \in DOMAIN s : t[j] = s[k]
  BY <1>9, <1>10
<1>. QED  BY <1>6, <1>11 DEF t

(* The first run, and the others. *)
LEMMA Taken ==
    ASSUME NEW S, NEW s \in Seq(S), s # <<>>
    PROVE  /\ 1 \in DOMAIN s /\ Head(s) = s[1] /\ Head(s) \in S /\ Tail(s) \in Seq(S)
           /\ \A j \in DOMAIN Tail(s) : \E k \in DOMAIN s : Tail(s)[j] = s[k]
<1>1. Tail(s) \in Seq(S) /\ Len(Tail(s)) = Len(s) - 1 /\ Head(s) \in S
      /\ \A i \in 1..Len(Tail(s)) : Tail(s)[i] = s[i + 1]
  BY HeadTailProperties
<1>2. \A j \in DOMAIN Tail(s) : j + 1 \in DOMAIN s
  BY <1>1
<1>. QED  BY <1>1, <1>2

-----------------------------------------------------------------------------
(* The invariant. *)

(* The parts of TypeOK that the pipeline touches, and the others. *)
DocType ==
    /\ source \in Sources /\ savedSource \in Sources /\ dirty \in BOOLEAN
    /\ path \in Paths \cup {None} /\ revision \in Nat
PipeType ==
    /\ compile \in Sources \cup {None} /\ compiledRevision \in Nat
    /\ model \in Irs \cup {None}
    /\ report \in Reports \cup {None} /\ evaluatedIrJson \in Irs \cup {None}
    /\ engineError \in {"none", "service", "engine"}
    /\ phase \in {"idle", "pending", "compiling", "evaluating"}
    /\ timer \in BOOLEAN /\ forceEval \in BOOLEAN
RunType == compiling \in Seq(Runs) /\ evaluating \in Seq(Evaluations)
FileType ==
    /\ active \in Engines /\ selecting \in SUBSET Engines
    /\ disk \in [Paths -> Sources \cup {None}]
    /\ saving \in SUBSET Saves /\ opening \in SUBSET Opens /\ overtaken \in BOOLEAN

TypeInv == DocType /\ PipeType /\ RunType /\ FileType

(* A run of the current revision was made from the current source and, past its
   compile, for the compile state. *)
CompilingKnown ==
    \A i \in DOMAIN compiling :
      /\ compiling[i].revision <= revision
      /\ ~IsStale(compiling[i]) => compiling[i].source = source

EvaluatingKnown ==
    \A i \in DOMAIN evaluating :
      /\ evaluating[i].revision <= revision
      /\ ~IsStale(evaluating[i]) =>
           /\ compiledRevision = revision /\ compile = source
           /\ evaluating[i].ir = IrOf[source] /\ model = IrOf[source]

(* A report is that of the IR evaluated last. *)
ReportKnown ==
    /\ report # None => report.ir = evaluatedIrJson
    /\ evaluatedIrJson # None /\ report = None => engineError # "none"

DocInv == TypeInv /\ CompilingKnown /\ EvaluatingKnown /\ ReportKnown /\ IdleDescribesSource

LEMMA InvInit == ASSUME Init PROVE DocInv
<1>1. DocType /\ PipeType /\ RunType
  <2>1. DocType
    BY SourcesAssumption DEF Init, DocType
  <2>2. PipeType
    BY DEF Init, PipeType
  <2>3. RunType
    BY DEF Init, RunType
  <2>. QED  BY <2>1, <2>2, <2>3
<1>2. FileType
  BY SourcesAssumption, NoneAssumption DEF Init, FileType
<1>3. CompilingKnown /\ EvaluatingKnown
  BY DEF Init, CompilingKnown, EvaluatingKnown
<1>4. ReportKnown /\ IdleDescribesSource
  BY DEF Init, ReportKnown, IdleDescribesSource, Idle
<1>. QED  BY <1>1, <1>2, <1>3, <1>4 DEF DocInv, TypeInv

-----------------------------------------------------------------------------
(* The user's and the commands' steps. *)

(* What a step leaves alone keeps its part of the invariant. *)
LEMMA PipeKept ==
    ASSUME DocInv, UNCHANGED <<source, revision, compileVars, evalVars, runVars>>,
           \/ UNCHANGED pipeVars
           \/ phase' = "pending" /\ timer' = TRUE /\ forceEval' \in BOOLEAN
    PROVE  PipeType' /\ RunType' /\ CompilingKnown' /\ EvaluatingKnown' /\ ReportKnown' /\ IdleDescribesSource'
BY DEF DocInv, TypeInv, PipeType, RunType, CompilingKnown, EvaluatingKnown, ReportKnown,
       IdleDescribesSource, Idle, IsStale, compileVars, evalVars, runVars, pipeVars

(* A new revision outdates every run. *)
LEMMA NewRevision ==
    ASSUME DocInv, revision' = revision + 1, UNCHANGED runVars
    PROVE  RunType' /\ CompilingKnown' /\ EvaluatingKnown'
<1>1. revision \in Nat
  BY DEF DocInv, TypeInv, DocType
<1>2. ASSUME NEW i \in DOMAIN compiling
      PROVE  compiling[i].revision <= revision /\ compiling[i].revision \in Nat
  <2>1. compiling[i] \in Runs
    BY DEF DocInv, TypeInv, RunType
  <2>. QED  BY <2>1 DEF DocInv, CompilingKnown, Runs
<1>3. ASSUME NEW i \in DOMAIN evaluating
      PROVE  evaluating[i].revision <= revision /\ evaluating[i].revision \in Nat
  <2>1. evaluating[i] \in Evaluations
    BY DEF DocInv, TypeInv, RunType
  <2>. QED  BY <2>1 DEF DocInv, EvaluatingKnown, Evaluations
<1>4. CompilingKnown'
  BY <1>1, <1>2 DEF CompilingKnown, IsStale, runVars
<1>5. EvaluatingKnown'
  BY <1>1, <1>3 DEF EvaluatingKnown, IsStale, runVars
<1>. QED  BY <1>4, <1>5 DEF DocInv, TypeInv, RunType, runVars

LEMMA LoadKeeps ==
    ASSUME DocInv, NEW s \in Sources, NEW p \in Paths \cup {None}, Load(s, p)
    PROVE  /\ DocType' /\ PipeType' /\ RunType' /\ CompilingKnown' /\ EvaluatingKnown'
           /\ ReportKnown' /\ IdleDescribesSource'
<1>1. RunType' /\ CompilingKnown' /\ EvaluatingKnown'
  BY NewRevision DEF Load
<1>2. DocType' /\ PipeType'
  <2>1. DocType'
    <3>1. revision \in Nat
      BY DEF DocInv, TypeInv, DocType
    <3>2. source' = s /\ savedSource' = s /\ dirty' = FALSE /\ path' = p
          /\ revision' = revision + 1
      BY DEF Load
    <3>3. dirty' \in BOOLEAN
      BY <3>2
    <3>4. revision' \in Nat
      BY <3>1, <3>2
    <3>. QED  BY <3>2, <3>3, <3>4 DEF DocType
  <2>2. forceEval \in BOOLEAN
    BY DEF DocInv, TypeInv, PipeType
  <2>3. PipeType'
    BY <2>2 DEF Load, Schedule, PipeType
  <2>. QED  BY <2>1, <2>3
<1>3. ReportKnown' /\ IdleDescribesSource'
  BY DEF Load, Schedule, ReportKnown, IdleDescribesSource, Idle
<1>. QED  BY <1>1, <1>2, <1>3

LEMMA EditKeeps ==
    ASSUME DocInv, NEW s \in Sources, ApplySource(s)
    PROVE  DocInv'
<1>1. RunType' /\ CompilingKnown' /\ EvaluatingKnown'
  BY NewRevision DEF ApplySource
<1>2. DocType' /\ PipeType' /\ FileType'
  BY DEF ApplySource, Schedule, DocInv, TypeInv, DocType, PipeType, FileType, compileVars, evalVars,
         engineVars, fileVars
<1>3. ReportKnown' /\ IdleDescribesSource'
  BY DEF ApplySource, Schedule, DocInv, ReportKnown, IdleDescribesSource, Idle, evalVars
<1>. QED  BY <1>1, <1>2, <1>3 DEF DocInv, TypeInv

LEMMA SealKeeps ==
    ASSUME DocInv, SealTransaction
    PROVE  DocInv'
<1>1. PipeType' /\ RunType' /\ CompilingKnown' /\ EvaluatingKnown' /\ ReportKnown' /\ IdleDescribesSource'
  BY PipeKept DEF SealTransaction
<1>2. DocType' /\ FileType'
  BY DEF DocInv, TypeInv, DocType, FileType, SealTransaction, fileVars, engineVars
<1>. QED  BY <1>1, <1>2 DEF DocInv, TypeInv

LEMMA EngineKeeps ==
    ASSUME DocInv,
           \/ Recompute
           \/ \E e \in Engines : SelectEngine(e) \/ EngineReady(e) \/ EngineUnavailable(e)
    PROVE  DocInv'
<1> USE DEF Recompute, SelectEngine, EngineReady, EngineUnavailable
<1>1. PipeType' /\ RunType' /\ CompilingKnown' /\ EvaluatingKnown' /\ ReportKnown' /\ IdleDescribesSource'
  BY PipeKept DEF Schedule, docVars
<1>2. DocType' /\ FileType'
  BY DEF DocInv, TypeInv, DocType, FileType, docVars, fileVars, engineVars
<1>. QED  BY <1>1, <1>2 DEF DocInv, TypeInv

LEMMA FileKeeps ==
    ASSUME DocInv,
           \/ \E p \in Paths : Save(p) \/ Open(p)
           \/ \E sv \in saving : SaveDone(sv) \/ SaveFails(sv)
           \/ \E o \in opening : OpenFails(o)
    PROVE  DocInv'
<1> USE DEF Save, Open, SaveDone, SaveFails, OpenFails
<1>1. PipeType' /\ RunType' /\ CompilingKnown' /\ EvaluatingKnown' /\ ReportKnown' /\ IdleDescribesSource'
  BY PipeKept DEF docVars, MarkSaved
<1>2. DocType'
  BY DEF DocInv, TypeInv, DocType, FileType, Saves, docVars, MarkSaved
<1>3. FileType'
  <2>1. ASSUME NEW p \in Paths, Save(p)
        PROVE  FileType'
    <3>1. /\ p \in JsonPaths => compile \in Sources
          /\ source \in Sources /\ revision \in Nat /\ compiledRevision \in Nat
      BY <2>1 DEF DocInv, TypeInv, DocType, PipeType, HasIr
    <3>2. \A sv \in saving' \ saving : sv \in Saves
      BY <2>1, <3>1 DEF Saves
    <3>3. saving' \in SUBSET Saves
      BY <3>2 DEF DocInv, TypeInv, FileType
    <3>. QED  BY <2>1, <3>3 DEF DocInv, TypeInv, FileType, engineVars
  <2>2. ASSUME NEW p \in Paths, Open(p)
        PROVE  FileType'
    <3>1. disk[p] \in Sources
      BY <2>2 DEF DocInv, TypeInv, FileType
    <3>. QED  BY <2>2, <3>1 DEF DocInv, TypeInv, FileType, Opens, engineVars
  <2>3. ASSUME NEW sv \in saving, SaveDone(sv)
        PROVE  FileType'
    <3>1. sv.path \in Paths /\ sv.data \in Sources
      BY DEF DocInv, TypeInv, FileType, Saves
    <3>2. \A o \in Opens : [o EXCEPT !.late = TRUE] \in Opens
      BY DEF Opens
    <3>3. opening' \in SUBSET Opens
      BY <2>3, <3>2 DEF DocInv, TypeInv, FileType
    <3>4. disk' \in [Paths -> Sources \cup {None}] /\ overtaken' \in BOOLEAN
      BY <2>3, <3>1 DEF DocInv, TypeInv, FileType
    <3>. QED  BY <2>3, <3>3, <3>4 DEF DocInv, TypeInv, FileType, engineVars
  <2>4. ASSUME NEW sv \in saving, SaveFails(sv)
        PROVE  FileType'
    BY <2>4 DEF DocInv, TypeInv, FileType, engineVars
  <2>5. ASSUME NEW o \in opening, OpenFails(o)
        PROVE  FileType'
    BY <2>5 DEF DocInv, TypeInv, FileType, engineVars
  <2>. QED  BY <2>1, <2>2, <2>3, <2>4, <2>5
<1>. QED  BY <1>1, <1>2, <1>3 DEF DocInv, TypeInv

LEMMA LoadsKeep ==
    ASSUME DocInv, New \/ \E o \in opening : OpenDone(o)
    PROVE  DocInv'
<1>1. CASE New
  <2>1. FileType'
    BY <1>1 DEF New, Load, DocInv, TypeInv, FileType, fileVars, engineVars
  <2>. QED  BY <1>1, <2>1, LoadKeeps, SourcesAssumption DEF New, DocInv, TypeInv
<1>2. ASSUME NEW o \in opening, OpenDone(o)
      PROVE  DocInv'
  <2>1. o.text \in Sources /\ o.path \in Paths /\ o.late \in BOOLEAN
    BY DEF DocInv, TypeInv, FileType, Opens
  <2>2. FileType'
    BY <1>2, <2>1 DEF OpenDone, Load, DocInv, TypeInv, FileType, engineVars
  <2>. QED  BY <1>2, <2>1, <2>2, LoadKeeps DEF OpenDone, DocInv, TypeInv
<1>. QED  BY <1>1, <1>2

-----------------------------------------------------------------------------
(* The steps of the pipeline. *)

(* Every run left after one compile returned was there before. *)
LEMMA CompileTaken ==
    ASSUME DocInv, RunReturns
    PROVE  /\ Head(compiling) \in Runs
           /\ Head(compiling).revision <= revision
           /\ ~IsStale(Head(compiling)) => Head(compiling).source = source
           /\ compiling' \in Seq(Runs) /\ CompilingKnown'
<1>1. compiling \in Seq(Runs) /\ compiling # <<>> /\ compiling' = Tail(compiling)
      /\ UNCHANGED <<source, revision>>
  BY DEF DocInv, TypeInv, RunType, RunReturns, docVars
<1>2. /\ 1 \in DOMAIN compiling /\ Head(compiling) = compiling[1]
      /\ Head(compiling) \in Runs /\ Tail(compiling) \in Seq(Runs)
      /\ \A j \in DOMAIN Tail(compiling) : \E k \in DOMAIN compiling : Tail(compiling)[j] = compiling[k]
  BY <1>1, Taken
<1>. QED  BY <1>1, <1>2 DEF DocInv, CompilingKnown, IsStale

LEMMA EvaluationTaken ==
    ASSUME DocInv, NEW i \in DOMAIN evaluating, EvaluationReturns(i)
    PROVE  /\ evaluating[i] \in Evaluations
           /\ RunType' /\ CompilingKnown' /\ EvaluatingKnown'
<1>1. evaluating \in Seq(Evaluations) /\ evaluating' = RemoveAt(evaluating, i)
      /\ UNCHANGED <<source, revision, compile, compiledRevision, model, compiling>>
  BY DEF DocInv, TypeInv, RunType, EvaluationReturns, docVars, compileVars
<1>2. /\ RemoveAt(evaluating, i) \in Seq(Evaluations)
      /\ \A j \in DOMAIN RemoveAt(evaluating, i) :
           \E k \in DOMAIN evaluating : RemoveAt(evaluating, i)[j] = evaluating[k]
  BY <1>1, Removed
<1>3. EvaluatingKnown'
  BY <1>1, <1>2 DEF DocInv, EvaluatingKnown, IsStale
<1>4. CompilingKnown' /\ RunType'
  BY <1>1, <1>2 DEF DocInv, TypeInv, RunType, CompilingKnown, IsStale
<1>. QED  BY <1>1, <1>3, <1>4

LEMMA TimerKeeps ==
    ASSUME DocInv, TimerFires
    PROVE  DocInv'
<1> DEFINE r == [revision |-> revision, source |-> source]
<1>1. r \in Runs /\ compiling \in Seq(Runs) /\ compiling' = Append(compiling, r)
      /\ UNCHANGED <<source, revision, evaluating, compile, compiledRevision, model>>
  BY DEF DocInv, TypeInv, DocType, RunType, Runs, TimerFires, docVars, compileVars
<1>2. compiling' \in Seq(Runs)
      /\ \A j \in DOMAIN compiling' : compiling'[j] = r \/ \E k \in DOMAIN compiling : compiling'[j] = compiling[k]
  BY <1>1
<1>3. revision \in Nat
  BY DEF DocInv, TypeInv, DocType
<1>4. CompilingKnown'
  BY <1>1, <1>2, <1>3 DEF DocInv, CompilingKnown, IsStale
<1>5. EvaluatingKnown' /\ RunType'
  BY <1>1, <1>2 DEF DocInv, TypeInv, RunType, EvaluatingKnown, IsStale
<1>6. DocType' /\ PipeType' /\ FileType'
  BY DEF DocInv, TypeInv, DocType, PipeType, FileType, TimerFires, docVars, compileVars, evalVars,
         engineVars, fileVars
<1>7. ReportKnown' /\ IdleDescribesSource'
  BY DEF DocInv, ReportKnown, IdleDescribesSource, Idle, TimerFires, evalVars
<1>. QED  BY <1>4, <1>5, <1>6, <1>7 DEF DocInv, TypeInv

(* What the returns of a compile have in common. *)
LEMMA ReturnKeeps ==
    ASSUME DocInv, RunReturns
    PROVE  DocType' /\ FileType' /\ timer' \in BOOLEAN
BY DEF DocInv, TypeInv, DocType, PipeType, FileType, RunReturns, docVars, engineVars, fileVars

LEMMA CompileFailsKeeps ==
    ASSUME DocInv, CompileFails
    PROVE  DocInv'
<1>1. /\ compiling' \in Seq(Runs) /\ CompilingKnown' /\ DocType' /\ FileType' /\ timer' \in BOOLEAN
      /\ UNCHANGED <<source, revision, timer>>
  BY CompileTaken, ReturnKeeps DEF CompileFails, RunReturns, docVars
<1>2. PipeType' /\ RunType' /\ EvaluatingKnown'
  BY <1>1 DEF DocInv, TypeInv, PipeType, RunType, EvaluatingKnown, IsStale, CompileFails, compileVars
<1>3. ReportKnown'
  BY DEF DocInv, ReportKnown, CompileFails
<1>4. IdleDescribesSource'
  BY <1>1 DEF DocInv, IdleDescribesSource, Idle, CompileFails, compileVars
<1>. QED  BY <1>1, <1>2, <1>3, <1>4 DEF DocInv, TypeInv

LEMMA CompileStaleKeeps ==
    ASSUME DocInv, CompileStale
    PROVE  DocInv'
<1>1. /\ compiling' \in Seq(Runs) /\ CompilingKnown' /\ DocType' /\ FileType' /\ timer' \in BOOLEAN
      /\ UNCHANGED <<source, revision, timer>>
  BY CompileTaken, ReturnKeeps DEF CompileStale, RunReturns, docVars
<1>2. PipeType' /\ RunType' /\ EvaluatingKnown'
  BY <1>1 DEF DocInv, TypeInv, PipeType, RunType, EvaluatingKnown, IsStale, CompileStale, compileVars, evalVars
<1>3. ReportKnown' /\ IdleDescribesSource'
  BY <1>1 DEF DocInv, ReportKnown, IdleDescribesSource, Idle, CompileStale, compileVars, evalVars
<1>. QED  BY <1>1, <1>2, <1>3 DEF DocInv, TypeInv

(* A current compile describes the current source. *)
LEMMA OutputTaken ==
    ASSUME DocInv, RunReturns, ~IsStale(Head(compiling)), TakeOutput(Head(compiling))
    PROVE  /\ compile' = source /\ compiledRevision' = revision
           /\ model' = IF IrOf[source] # None THEN IrOf[source] ELSE model
           /\ compile' \in Sources \cup {None} /\ compiledRevision' \in Nat
           /\ model' \in Irs \cup {None}
           /\ UNCHANGED <<source, revision, timer>>
           /\ EvaluatingKnown => \A i \in DOMAIN evaluating :
                /\ evaluating[i].revision <= revision
                /\ evaluating[i].revision = revision =>
                     /\ evaluating[i].ir = IrOf[source] /\ model' = IrOf[source]
<1>1. Head(compiling).source = source /\ Head(compiling).revision = revision
  BY CompileTaken DEF IsStale
<1>2. source \in Sources /\ revision \in Nat /\ IrOf[source] \in Irs \cup {None}
  BY SourcesAssumption DEF DocInv, TypeInv, DocType
<1>3. /\ compile' = source /\ compiledRevision' = revision
      /\ model' = IF IrOf[source] # None THEN IrOf[source] ELSE model
  BY <1>1 DEF TakeOutput
<1>4. /\ compile' \in Sources \cup {None} /\ compiledRevision' \in Nat
      /\ model' \in Irs \cup {None}
  BY <1>2, <1>3 DEF DocInv, TypeInv, PipeType
<1>5. UNCHANGED <<source, revision, timer>>
  BY DEF RunReturns, docVars
<1>6. EvaluatingKnown => \A i \in DOMAIN evaluating :
        /\ evaluating[i].revision <= revision
        /\ evaluating[i].revision = revision =>
             /\ evaluating[i].ir = IrOf[source] /\ model' = IrOf[source]
  BY <1>3 DEF EvaluatingKnown, IsStale
<1>. QED  BY <1>3, <1>4, <1>5, <1>6

(* A compile whose output is not evaluated: it has errors, or its IR was
   evaluated before. *)
LEMMA CompileIdleKeeps ==
    ASSUME DocInv, CompileErrors \/ CompileUnchanged
    PROVE  DocInv'
<1>1. /\ RunReturns /\ ~IsStale(Head(compiling)) /\ TakeOutput(Head(compiling))
      /\ phase' = "idle" /\ UNCHANGED <<evalVars, forceEval, evaluating>>
  BY DEF CompileErrors, CompileUnchanged
<1>2. Head(compiling).source = source
  BY <1>1, CompileTaken
<1>3. compiling' \in Seq(Runs) /\ CompilingKnown' /\ DocType' /\ FileType' /\ timer' \in BOOLEAN
  BY <1>1, CompileTaken, ReturnKeeps
<1>4. PipeType' /\ RunType' /\ EvaluatingKnown' /\ ReportKnown'
  BY <1>1, <1>3, OutputTaken DEF DocInv, TypeInv, PipeType, RunType, EvaluatingKnown, ReportKnown, IsStale, evalVars
<1>5. CASE IrOf[source] = None
  BY <1>1, <1>3, <1>4, <1>5, OutputTaken DEF IdleDescribesSource, DocInv, TypeInv
<1>6. CASE IrOf[source] # None
  <2>1. evaluatedIrJson = IrOf[source] /\ (report # None \/ engineError # "none")
    BY <1>2, <1>6 DEF CompileErrors, CompileUnchanged, Evaluated
  <2>2. engineError \in {"none", "service", "engine"}
    BY DEF DocInv, TypeInv, PipeType
  <2>. QED  BY <1>1, <1>6, <2>1, <2>2, OutputTaken, <1>3, <1>4 DEF IdleDescribesSource, DocInv, TypeInv, ReportKnown, evalVars
<1>. QED  BY <1>3, <1>4, <1>5, <1>6 DEF DocInv, TypeInv

LEMMA CompileDoneKeeps ==
    ASSUME DocInv, CompileDone
    PROVE  DocInv'
<1> DEFINE ir == IrOf[Head(compiling).source]
           e == [revision |-> Head(compiling).revision, ir |-> ir, engine |-> active]
<1>1. /\ RunReturns /\ ~IsStale(Head(compiling)) /\ TakeOutput(Head(compiling)) /\ ir # None
      /\ evaluating' = Append(evaluating, e)
      /\ forceEval' = FALSE /\ phase' = "evaluating" /\ UNCHANGED evalVars
  BY DEF CompileDone
<1>2. Head(compiling).source = source /\ Head(compiling).revision = revision
  BY <1>1, CompileTaken DEF IsStale
<1>3. compiling' \in Seq(Runs) /\ CompilingKnown' /\ DocType' /\ FileType' /\ timer' \in BOOLEAN
  BY <1>1, CompileTaken, ReturnKeeps
<1>4. e \in Evaluations /\ evaluating \in Seq(Evaluations) /\ revision \in Nat
  BY <1>1, <1>2, SourcesAssumption DEF DocInv, TypeInv, DocType, RunType, FileType, Evaluations
<1>5. /\ evaluating' \in Seq(Evaluations)
      /\ \A j \in DOMAIN evaluating' :
           evaluating'[j] = e \/ \E k \in DOMAIN evaluating : evaluating'[j] = evaluating[k]
  BY <1>1, <1>4
<1>6. e.revision = revision /\ e.ir = IrOf[source] /\ IrOf[source] # None
  BY <1>1, <1>2
<1> HIDE DEF e, ir
<1>7. EvaluatingKnown'
  BY <1>1, <1>4, <1>5, <1>6, OutputTaken DEF DocInv, EvaluatingKnown, IsStale
<1>8. PipeType' /\ RunType'
  BY <1>1, <1>3, <1>5, OutputTaken DEF DocInv, TypeInv, PipeType, RunType, evalVars
<1>9. ReportKnown' /\ IdleDescribesSource'
  BY <1>1 DEF DocInv, ReportKnown, IdleDescribesSource, Idle, evalVars
<1>. QED  BY <1>3, <1>7, <1>8, <1>9 DEF DocInv, TypeInv

LEMMA EvaluateKeeps ==
    ASSUME DocInv, NEW i \in DOMAIN evaluating, Evaluates(i)
    PROVE  DocInv'
<1> DEFINE e == evaluating[i]
<1>1. EvaluationReturns(i)
  BY DEF Evaluates, EvaluateStale, EvaluateDone, EvaluateFails
<1>2. e \in Evaluations /\ RunType' /\ CompilingKnown' /\ EvaluatingKnown'
  BY <1>1, EvaluationTaken
<1>3. e.ir \in Irs /\ e.ir # None /\ [ir |-> e.ir, engine |-> e.engine] \in Reports
      /\ [ir |-> e.ir, engine |-> e.engine] # None
  BY <1>2, NoneAssumption DEF Evaluations, Reports
<1>4. UNCHANGED <<docVars, compileVars, timer, forceEval, compiling, engineVars, fileVars>>
  BY <1>1 DEF EvaluationReturns
<1>5. DocType' /\ FileType'
  BY <1>4 DEF DocInv, TypeInv, DocType, FileType, docVars, engineVars, fileVars
<1>6. ~IsStale(e) =>
        /\ compiledRevision = revision /\ compile = source
        /\ e.ir = IrOf[source] /\ model = IrOf[source]
  BY DEF DocInv, EvaluatingKnown
<1> HIDE DEF e
<1>7. CASE UNCHANGED <<evalVars, phase>>
  BY <1>2, <1>4, <1>5, <1>7 DEF DocInv, TypeInv, PipeType, ReportKnown, IdleDescribesSource, Idle,
       docVars, compileVars, evalVars
<1>8. CASE /\ ~IsStale(e) /\ phase' = "idle" /\ evaluatedIrJson' = e.ir
           /\ report' = [ir |-> e.ir, engine |-> e.engine] /\ engineError' = "none"
  <2>1. PipeType'
    BY <1>3, <1>4, <1>8 DEF DocInv, TypeInv, PipeType, compileVars
  <2>2. ReportKnown' /\ IdleDescribesSource'
    BY <1>3, <1>4, <1>6, <1>8 DEF ReportKnown, IdleDescribesSource, docVars, compileVars
  <2>. QED  BY <1>2, <1>5, <2>1, <2>2 DEF DocInv, TypeInv
<1>9. CASE /\ ~IsStale(e) /\ phase' = "idle" /\ evaluatedIrJson' = e.ir
           /\ report' = None /\ engineError' = "engine"
  <2>1. PipeType'
    BY <1>3, <1>4, <1>9 DEF DocInv, TypeInv, PipeType, compileVars
  <2>2. ReportKnown' /\ IdleDescribesSource'
    BY <1>3, <1>4, <1>6, <1>9 DEF ReportKnown, IdleDescribesSource, docVars, compileVars
  <2>. QED  BY <1>2, <1>5, <2>1, <2>2 DEF DocInv, TypeInv
<1>. QED  BY <1>7, <1>8, <1>9 DEF Evaluates, EvaluateStale, EvaluateDone, EvaluateFails, e

-----------------------------------------------------------------------------
(* The undo history.  E is a set of transactions that holds every difference
   between two sources: all of them, or those that split no surrogate pair. *)

HistoryIn(E) ==
    /\ history \in Histories /\ history.undo \in Seq(E) /\ history.redo \in Seq(E)
    /\ StacksFit

(* What the stacks mean, and that they mean nothing else. *)
LEMMA StacksMean ==
    ASSUME NEW E \in SUBSET Transactions, HistoryIn(E)
    PROVE  /\ Past \in Seq(Sources) /\ IsPast(Past, history.undo, source)
           /\ Future \in Seq(Sources) /\ IsFuture(Future, history.redo, source)
<1>1. /\ Past \in [1..Len(history.undo) -> Sources] /\ IsPast(Past, history.undo, source)
      /\ Future \in [1..Len(history.redo) -> Sources] /\ IsFuture(Future, history.redo, source)
  BY DEF HistoryIn, StacksFit, Past, Future
<1>2. Len(history.undo) \in Nat /\ Len(history.redo) \in Nat
  BY DEF HistoryIn
<1>3. Past \in Seq(Sources) /\ Future \in Seq(Sources)
  BY <1>1, <1>2
<1>. QED  BY <1>1, <1>3

LEMMA StacksMeanNext ==
    ASSUME NEW E \in SUBSET Transactions, NEW p \in Seq(Sources), NEW f \in Seq(Sources),
           history' \in Histories, history'.undo \in Seq(E), history'.redo \in Seq(E),
           IsPast(p, history'.undo, source'), IsFuture(f, history'.redo, source')
    PROVE  HistoryIn(E)' /\ Past' = p /\ Future' = f
<1>1. history'.undo \in Seq(Transactions) /\ history'.redo \in Seq(Transactions)
  OBVIOUS
<1>2. Past' = p /\ Future' = f
  BY <1>1, PastChosen, FutureChosen DEF Past, Future
<1>3. p \in [1..Len(history'.undo) -> Sources] /\ f \in [1..Len(history'.redo) -> Sources]
  BY DEF IsPast, IsFuture
<1>4. HistoryIn(E)'
  BY <1>3 DEF HistoryIn, StacksFit
<1>. QED  BY <1>2, <1>4

LEMMA NothingMeans == IsPast(<<>>, NoHistory.undo, source) /\ IsFuture(<<>>, NoHistory.redo, source)
BY DEF IsPast, IsFuture, NoHistory

LEMMA HistoryInit ==
    ASSUME NEW E \in SUBSET Transactions, Init
    PROVE  HistoryIn(E) /\ Log!Init
<1>1. history = NoHistory /\ source \in Sources
  BY SourcesAssumption DEF Init
<1>2. NoHistory \in Histories /\ NoHistory.undo = <<>> /\ NoHistory.redo = <<>> /\ ~NoHistory.sealed
  BY DEF NoHistory, Histories
<1>3. IsPast(<<>>, history.undo, source) /\ IsFuture(<<>>, history.redo, source)
  BY <1>1, NothingMeans
<1>4. <<>> \in [1..Len(history.undo) -> Sources] /\ <<>> \in [1..Len(history.redo) -> Sources]
  BY <1>1, <1>2
<1>5. HistoryIn(E)
  <2>1. StacksFit
    BY <1>3, <1>4 DEF StacksFit
  <2>2. history \in Histories /\ history.undo \in Seq(E) /\ history.redo \in Seq(E)
    BY <1>1, <1>2
  <2>. QED  BY <2>1, <2>2 DEF HistoryIn
<1>6. Past = <<>> /\ Future = <<>>
  <2>1. history.undo \in Seq(Transactions) /\ history.redo \in Seq(Transactions) /\ <<>> \in Seq(Sources)
    BY <1>1, <1>2
  <2>. QED  BY <1>3, <2>1, PastChosen, FutureChosen DEF Past, Future
<1>. QED  BY <1>1, <1>2, <1>5, <1>6 DEF Log!Init

LEMMA HistoryUnchanged ==
    ASSUME NEW E \in SUBSET Transactions, HistoryIn(E), UNCHANGED <<source, history>>
    PROVE  HistoryIn(E)' /\ UNCHANGED Log!vars
BY DEF HistoryIn, StacksFit, Past, Future, Log!vars

LEMMA HistoryCleared ==
    ASSUME NEW E \in SUBSET Transactions, NEW s \in Sources, NEW p, Load(s, p)
    PROVE  HistoryIn(E)' /\ Log!Clear(s)
<1>1. history' = NoHistory /\ source' = s
  BY DEF Load
<1>2. NoHistory \in Histories /\ NoHistory.undo = <<>> /\ NoHistory.redo = <<>> /\ ~NoHistory.sealed
  BY DEF NoHistory, Histories
<1>3. IsPast(<<>>, history'.undo, source') /\ IsFuture(<<>>, history'.redo, source')
  BY <1>1 DEF IsPast, IsFuture, NoHistory
<1>4. HistoryIn(E)' /\ Past' = <<>> /\ Future' = <<>>
  <2>1. /\ history' \in Histories /\ history'.undo \in Seq(E) /\ history'.redo \in Seq(E)
        /\ <<>> \in Seq(Sources)
    BY <1>1, <1>2
  <2>. QED  BY <1>3, <2>1, StacksMeanNext
<1>. QED  BY <1>1, <1>2, <1>4 DEF Log!Clear

LEMMA HistoryRecorded ==
    ASSUME NEW E \in SUBSET Transactions, Differences(Sources, E), HistoryIn(E), source \in Sources,
           NEW s \in Sources, NEW key \in Keys \cup {NoKey}, SetSource(s, key)
    PROVE  HistoryIn(E)' /\ (Log!Edit(s) \/ Log!Continue(s))
<1>1. /\ history' \in Recorded(history, source, s, key) /\ source' = s /\ s # source
      /\ Sources \in SUBSET Seq(Units)
  BY SourcesAssumption DEF SetSource, ApplySource
<1>2. PICK p \in Seq(Sources) : p = Past /\ IsPast(p, history.undo, source)
  BY StacksMean
<1>3. history \in Histories /\ history.undo \in Seq(E)
  BY DEF HistoryIn
<1>4. history' \in Histories /\ history'.undo \in Seq(E) /\ Extended(Sources, history, source, s, p, history')
  BY <1>1, <1>2, <1>3, RecordMeans
<1>5. history'.redo \in Seq(E) /\ IsFuture(<<>>, history'.redo, source') /\ <<>> \in Seq(Sources)
  BY <1>4 DEF IsFuture, Extended
<1>6. PICK q \in Seq(Sources) :
        /\ IsPast(q, history'.undo, s)
        /\ q = Cut(Append(p, source)) \/ (~history.sealed /\ p # <<>> /\ q = Continued(p, s))
  BY <1>4 DEF Extended
<1>7. HistoryIn(E)' /\ Past' = q /\ Future' = <<>>
  BY <1>1, <1>4, <1>5, <1>6, StacksMeanNext
<1>8. CASE q = Cut(Append(p, source))
  BY <1>1, <1>2, <1>4, <1>7, <1>8 DEF Log!Edit, Log!Newest, Cut, Extended
<1>9. CASE ~history.sealed /\ p # <<>> /\ q = Continued(p, s)
  BY <1>1, <1>2, <1>4, <1>7, <1>9 DEF Log!Continue, Log!Front, Log!Last, Front, Last, Continued, Extended
<1>. QED  BY <1>6, <1>7, <1>8, <1>9

(* Undo applies, and gives a source. *)
LEMMA HistoryUndone ==
    ASSUME NEW E \in SUBSET Transactions, HistoryIn(E), source \in Sources, Undo
    PROVE  /\ HistoryIn(E)' /\ Log!Undo
           /\ \E s \in Sources : ApplySource(s)
<1>1. /\ history.undo # <<>> /\ history' = Undone(history)
      /\ ApplySource(ApplyEdit(source, InvertEdit(Last(history.undo).edit)))
      /\ Sources \in SUBSET Seq(Units)
  BY SourcesAssumption DEF Undo
<1>2. PICK p \in Seq(Sources), f \in Seq(Sources) :
        /\ p = Past /\ IsPast(p, history.undo, source)
        /\ f = Future /\ IsFuture(f, history.redo, source)
  BY StacksMean
<1>3. history \in Histories /\ history.undo \in Seq(E) /\ history.redo \in Seq(E)
  BY DEF HistoryIn
<1>4. history' \in Histories /\ history'.undo \in Seq(E) /\ history'.redo \in Seq(E)
      /\ history'.sealed = TRUE
  BY <1>1, <1>2, <1>3, UndoMeans
<1>5. /\ p # <<>> /\ Front(p) \in Seq(Sources) /\ Last(p) \in Sources
      /\ Append(f, source) \in Seq(Sources)
      /\ Turns(Last(history.undo).edit, Last(p), source)
  <2>1. history.undo \in Seq(Transactions)
    BY <1>3
  <2>2. p # <<>> /\ Turns(Last(history.undo).edit, Last(p), source)
    BY <1>1, <1>2, <2>1, PastPop
  <2>3. Front(p) \in Seq(Sources) /\ Last(p) \in Sources
    BY <2>2, FrontLast
  <2>. QED  BY <2>2, <2>3
<1>6. /\ IsPast(Front(p), history'.undo, Last(p))
      /\ IsFuture(Append(f, source), history'.redo, Last(p))
  BY <1>1, <1>2, <1>3, UndoMeans
<1>7. ApplySource(Last(p))
  BY <1>1, <1>5 DEF Turns
<1>8. source' = Last(p)
  BY <1>7 DEF ApplySource
<1>9. HistoryIn(E)' /\ Past' = Front(p) /\ Future' = Append(f, source)
  BY <1>4, <1>5, <1>6, <1>8, StacksMeanNext
<1>. QED  BY <1>2, <1>4, <1>5, <1>7, <1>8, <1>9 DEF Log!Undo, Log!Front, Log!Last, Front, Last

LEMMA HistoryRedone ==
    ASSUME NEW E \in SUBSET Transactions, HistoryIn(E), source \in Sources, Redo
    PROVE  /\ HistoryIn(E)' /\ Log!Redo
           /\ \E s \in Sources : ApplySource(s)
<1>1. /\ history.redo # <<>> /\ history' = Redone(history)
      /\ ApplySource(ApplyEdit(source, Last(history.redo).edit))
      /\ Sources \in SUBSET Seq(Units)
  BY SourcesAssumption DEF Redo
<1>2. PICK p \in Seq(Sources), f \in Seq(Sources) :
        /\ p = Past /\ IsPast(p, history.undo, source)
        /\ f = Future /\ IsFuture(f, history.redo, source)
  BY StacksMean
<1>3. history \in Histories /\ history.undo \in Seq(E) /\ history.redo \in Seq(E)
  BY DEF HistoryIn
<1>4. history' \in Histories /\ history'.undo \in Seq(E) /\ history'.redo \in Seq(E)
      /\ history'.sealed = TRUE
  BY <1>1, <1>2, <1>3, RedoMeans
<1>5. /\ f # <<>> /\ Front(f) \in Seq(Sources) /\ Last(f) \in Sources
      /\ Append(p, source) \in Seq(Sources)
      /\ Turns(Last(history.redo).edit, source, Last(f))
  <2>1. history.redo \in Seq(Transactions)
    BY <1>3
  <2>2. f # <<>> /\ Turns(Last(history.redo).edit, source, Last(f))
    BY <1>1, <1>2, <2>1, FuturePop
  <2>3. Front(f) \in Seq(Sources) /\ Last(f) \in Sources
    BY <2>2, FrontLast
  <2>. QED  BY <2>2, <2>3
<1>6. /\ IsPast(Append(p, source), history'.undo, Last(f))
      /\ IsFuture(Front(f), history'.redo, Last(f))
  BY <1>1, <1>2, <1>3, RedoMeans
<1>7. ApplySource(Last(f))
  BY <1>1, <1>5 DEF Turns
<1>8. source' = Last(f)
  BY <1>7 DEF ApplySource
<1>9. HistoryIn(E)' /\ Past' = Append(p, source) /\ Future' = Front(f)
  BY <1>4, <1>5, <1>6, <1>8, StacksMeanNext
<1>. QED  BY <1>2, <1>4, <1>5, <1>7, <1>8, <1>9 DEF Log!Redo, Log!Front, Log!Last, Front, Last

LEMMA HistorySealed ==
    ASSUME NEW E \in SUBSET Transactions, HistoryIn(E), SealTransaction
    PROVE  HistoryIn(E)' /\ Log!Close
<1>1. history' = Sealed(history) /\ source' = source /\ history \in Histories
  BY DEF SealTransaction, HistoryIn
<1>2. history'.undo = history.undo /\ history'.redo = history.redo /\ history'.sealed = TRUE
      /\ history' \in Histories
  BY <1>1 DEF Sealed, Histories
<1>3. Past' = Past /\ Future' = Future
  BY <1>1, <1>2 DEF Past, Future
<1>4. HistoryIn(E)'
  BY <1>1, <1>2 DEF HistoryIn, StacksFit
<1>. QED  BY <1>1, <1>2, <1>3, <1>4 DEF Log!Close

LEMMA HistoryStep ==
    ASSUME NEW E \in SUBSET Transactions, Differences(Sources, E), HistoryIn(E), DocInv, [Next]_vars
    PROVE  HistoryIn(E)' /\ [Log!Next]_(Log!vars)
<1>0. source \in Sources
  BY DEF DocInv, TypeInv, DocType
<1>1. ASSUME UNCHANGED <<source, history>>
      PROVE  HistoryIn(E)' /\ [Log!Next]_(Log!vars)
  BY <1>1, HistoryUnchanged
<1>2. ASSUME NEW s \in Sources, NEW key \in Keys \cup {NoKey}, SetSource(s, key)
      PROVE  HistoryIn(E)' /\ [Log!Next]_(Log!vars)
  BY <1>0, <1>2, HistoryRecorded DEF Log!Next
<1>3. CASE Undo
  BY <1>0, <1>3, HistoryUndone DEF Log!Next
<1>4. CASE Redo
  BY <1>0, <1>4, HistoryRedone DEF Log!Next
<1>5. CASE SealTransaction
  BY <1>5, HistorySealed DEF Log!Next
<1>6. CASE New
  BY <1>6, HistoryCleared, SourcesAssumption DEF New, Log!Next
<1>7. ASSUME NEW o \in opening, OpenDone(o)
      PROVE  HistoryIn(E)' /\ [Log!Next]_(Log!vars)
  <2>1. o.text \in Sources
    BY DEF DocInv, TypeInv, FileType, Opens
  <2>. QED  BY <1>7, <2>1, HistoryCleared DEF OpenDone, Log!Next
<1>8. CASE Pipeline
  <2>1. UNCHANGED docVars
    BY <1>8 DEF Pipeline, TimerFires, CompileReturns, CompileFails, CompileStale, CompileErrors,
       CompileUnchanged, CompileDone, RunReturns, Evaluates, EvaluateStale, EvaluateDone,
       EvaluateFails, EvaluationReturns
  <2>. QED  BY <1>1, <2>1 DEF docVars
<1>9. CASE Recompute \/ \E e \in Engines : SelectEngine(e) \/ EngineReady(e) \/ EngineUnavailable(e)
  BY <1>1, <1>9 DEF Recompute, SelectEngine, EngineReady, EngineUnavailable, docVars
<1>10. CASE \/ \E p \in Paths : Save(p) \/ Open(p)
            \/ \E sv \in saving : SaveDone(sv) \/ SaveFails(sv)
            \/ \E o \in opening : OpenFails(o)
  BY <1>1, <1>10 DEF Save, Open, SaveDone, SaveFails, OpenFails, docVars
<1>11. CASE UNCHANGED vars
  BY <1>1, <1>11 DEF vars, docVars
<1>. QED  BY <1>2, <1>3, <1>4, <1>5, <1>6, <1>7, <1>8, <1>9, <1>10, <1>11 DEF Next

(* Every difference between sources is a transaction; between whole ones, a whole one. *)
LEMMA AllDifferences == Differences(Sources, Transactions)
<1>. SUFFICES ASSUME NEW b \in Sources, NEW a \in Sources, NEW key \in Keys \cup {NoKey}
              PROVE  Transaction(DiffText(b, a), key) \in Transactions
  BY DEF Differences
<1>1. DiffText(b, a) \in Edits
  BY DiffTurns, SourcesAssumption
<1>. QED  BY <1>1 DEF Transaction, Transactions

-----------------------------------------------------------------------------
(* The theorems. *)

(* DocInv holds in every reachable state, whatever order answers come in, and the
   undo history fits. *)
THEOREM Invariance == Spec => [](DocInv /\ HistoryIn(Transactions))
<1>1. ASSUME DocInv, HistoryIn(Transactions), [Next]_vars
      PROVE  DocInv'
  <2>1. CASE Next
    <3>1. ASSUME NEW s \in Sources, NEW key \in Keys \cup {NoKey}, SetSource(s, key)
          PROVE  DocInv'
      BY <1>1, <3>1, EditKeeps DEF SetSource
    <3>2. CASE Undo \/ Redo
      <4>1. source \in Sources /\ Transactions \in SUBSET Transactions
        BY <1>1 DEF DocInv, TypeInv, DocType
      <4>2. \E s \in Sources : ApplySource(s)
        BY <1>1, <3>2, <4>1, HistoryUndone, HistoryRedone
      <4>. QED  BY <1>1, <4>2, EditKeeps
    <3>. QED
      BY <1>1, <2>1, <3>1, <3>2, TimerKeeps, CompileFailsKeeps, CompileStaleKeeps, CompileIdleKeeps,
         CompileDoneKeeps, EvaluateKeeps, SealKeeps, EngineKeeps, FileKeeps, LoadsKeep
         DEF Next, Pipeline, CompileReturns
  <2>2. CASE UNCHANGED vars
    <3>1. PipeType' /\ RunType' /\ CompilingKnown' /\ EvaluatingKnown' /\ ReportKnown' /\ IdleDescribesSource'
      BY <1>1, <2>2, PipeKept DEF vars, docVars
    <3>2. DocType' /\ FileType'
      BY <1>1, <2>2 DEF DocInv, TypeInv, DocType, FileType, vars, docVars, engineVars, fileVars
    <3>. QED  BY <3>1, <3>2 DEF DocInv, TypeInv
  <2>. QED  BY <1>1, <2>1, <2>2
<1>2. ASSUME DocInv, HistoryIn(Transactions), [Next]_vars
      PROVE  HistoryIn(Transactions)'
  BY <1>2, HistoryStep, AllDifferences
<1>3. Init => DocInv /\ HistoryIn(Transactions)
  BY InvInit, HistoryInit
<1>. QED  BY <1>1, <1>2, <1>3, PTL DEF Spec

(* Every variable of the document, its history, its pipeline and its files keeps its type. *)
THEOREM TypeCorrect == Spec => []TypeOK
<1>1. DocInv /\ HistoryIn(Transactions) => TypeOK
  BY DEF DocInv, TypeInv, DocType, PipeType, RunType, FileType, HistoryIn, TypeOK
<1>. QED  BY <1>1, Invariance, PTL

(* Undo and redo always find the text their edit was made for (text-edit.ts:39). *)
THEOREM StacksCorrect == Spec => []StacksFit
<1>1. HistoryIn(Transactions) => StacksFit
  BY DEF HistoryIn
<1>. QED  BY <1>1, Invariance, PTL

(* The stacks of edits implement a log of whole texts, whatever is edited, undone,
   redone, sealed and loaded, in any order (history.ts:2-4). *)
THEOREM UndoCorrect == Spec => KeepsUndoLog
<1>1. Init => Log!Init
  BY HistoryInit
<1>2. DocInv /\ HistoryIn(Transactions) /\ [Next]_vars => [Log!Next]_(Log!vars)
  BY HistoryStep, AllDifferences
<1>. QED  BY <1>1, <1>2, Invariance, PTL DEF Spec, KeepsUndoLog, Log!Spec

(* Transactions that split no surrogate pair *)
WholeTransactions ==
    {tx \in Transactions : Whole(tx.edit.removed) /\ Whole(tx.edit.inserted)}

(* No edit on the stacks splits a surrogate pair, when the texts have whole ones
   (text-edit.ts:18). *)
THEOREM PairsCorrect ==
    ASSUME \A s \in Sources : Whole(s)
    PROVE  Spec => []PairsAreWhole
<1>0. Differences(Sources, WholeTransactions)
  <2>. SUFFICES ASSUME NEW b \in Sources, NEW a \in Sources, NEW key \in Keys \cup {NoKey}
                PROVE  Transaction(DiffText(b, a), key) \in WholeTransactions
    BY DEF Differences
  <2>1. Transaction(DiffText(b, a), key) \in Transactions
    BY AllDifferences DEF Differences
  <2>2. Whole(DiffText(b, a).removed) /\ Whole(DiffText(b, a).inserted)
    BY DiffIsWhole, SourcesAssumption
  <2>3. Transaction(DiffText(b, a), key).edit = DiffText(b, a)
    BY DEF Transaction
  <2>. QED  BY <2>1, <2>2, <2>3 DEF WholeTransactions
<1>1. WholeTransactions \in SUBSET Transactions
  BY DEF WholeTransactions
<1>2. Init => HistoryIn(WholeTransactions)
  BY <1>1, HistoryInit
<1>3. DocInv /\ HistoryIn(WholeTransactions) /\ [Next]_vars => HistoryIn(WholeTransactions)'
  BY <1>0, <1>1, HistoryStep
<1>4. HistoryIn(WholeTransactions) => PairsAreWhole
  BY DEF HistoryIn, WholeTransactions, PairsAreWhole, Range
<1>. QED  BY <1>2, <1>3, <1>4, Invariance, PTL DEF Spec

(* An idle pipeline describes the latest source (doc-store.ts:5-8). *)
THEOREM IdleCorrect == Spec => []IdleDescribesSource
<1>1. DocInv => IdleDescribesSource
  BY DEF DocInv
<1>. QED  BY <1>1, Invariance, PTL

-----------------------------------------------------------------------------
(* The files.  What is compiled, written and read is known by the revision it is of. *)

CompileKnown ==
    compile # None =>
      /\ compiledRevision <= revision
      /\ compiledRevision = revision => compile = source
SavesKnown ==
    \A sv \in saving :
      /\ sv.revision <= revision
      /\ sv.revision = revision => sv.data = source
OpensKnown == \A o \in opening : ~o.late => disk[o.path] = o.text
SavedOnDisk == path # None /\ ~overtaken => disk[path] = savedSource
CleanIsSaved == ~dirty => source = savedSource

FilesInv ==
    DocInv /\ CompileKnown /\ SavesKnown /\ OpensKnown /\ SavedOnDisk /\ CleanIsSaved

(* What leaves the document, the compile state and the disk alone, and takes up no
   other write or read, disturbs nothing. *)
LEMMA FilesUndisturbed ==
    ASSUME FilesInv, UNCHANGED <<docVars, compileVars, disk, overtaken>>,
           saving' \subseteq saving, opening' \subseteq opening
    PROVE  CompileKnown' /\ SavesKnown' /\ OpensKnown' /\ SavedOnDisk' /\ CleanIsSaved'
BY DEF FilesInv, CompileKnown, SavesKnown, OpensKnown, SavedOnDisk, CleanIsSaved, docVars,
       compileVars

(* The pipeline takes the output of a compile for the revision it is of. *)
LEMMA PipelineKeepsFiles ==
    ASSUME FilesInv, Pipeline
    PROVE  CompileKnown' /\ SavesKnown' /\ OpensKnown' /\ SavedOnDisk' /\ CleanIsSaved'
<1>1. UNCHANGED <<docVars, fileVars>>
  BY DEF Pipeline, TimerFires, CompileReturns, CompileFails, CompileStale, CompileErrors,
     CompileUnchanged, CompileDone, RunReturns, Evaluates, EvaluateStale, EvaluateDone,
     EvaluateFails, EvaluationReturns
<1>2. CASE UNCHANGED compileVars
  BY <1>1, <1>2, FilesUndisturbed DEF fileVars
<1>3. CASE RunReturns /\ ~IsStale(Head(compiling)) /\ TakeOutput(Head(compiling))
  <2>1. compile' = source /\ compiledRevision' = revision /\ revision \in Nat
    BY <1>3, OutputTaken DEF FilesInv, DocInv, TypeInv, DocType
  <2>. QED  BY <1>1, <2>1 DEF FilesInv, CompileKnown, SavesKnown, OpensKnown, SavedOnDisk,
               CleanIsSaved, docVars, fileVars
<1>. QED
  BY <1>2, <1>3 DEF Pipeline, TimerFires, CompileReturns, CompileFails, CompileStale,
     CompileErrors, CompileUnchanged, CompileDone, Evaluates, EvaluateStale, EvaluateDone,
     EvaluateFails, EvaluationReturns

(* A new revision is none that is written or compiled. *)
LEMMA RevisionKeepsSaves ==
    ASSUME FilesInv, revision' = revision + 1, saving' = saving
    PROVE  SavesKnown'
<1>1. revision \in Nat /\ \A sv \in saving : sv.revision \in Nat
  BY DEF FilesInv, DocInv, TypeInv, DocType, FileType, Saves
<1>. QED  BY <1>1 DEF FilesInv, SavesKnown

LEMMA EditKeepsFiles ==
    ASSUME FilesInv, NEW s, ApplySource(s)
    PROVE  CompileKnown' /\ SavesKnown' /\ OpensKnown' /\ SavedOnDisk' /\ CleanIsSaved'
<1>1. revision \in Nat /\ compiledRevision \in Nat
  BY DEF FilesInv, DocInv, TypeInv, DocType, PipeType
<1>2. CompileKnown'
  BY <1>1 DEF FilesInv, CompileKnown, ApplySource, compileVars
<1>3. SavesKnown'
  BY RevisionKeepsSaves DEF ApplySource, fileVars
<1>. QED
  BY <1>2, <1>3 DEF FilesInv, OpensKnown, SavedOnDisk, CleanIsSaved, ApplySource, fileVars

(* A loaded document is on disk, or the load is late. *)
LEMMA LoadKeepsFiles ==
    ASSUME FilesInv, NEW s, NEW p, Load(s, p), UNCHANGED <<disk, saving>>,
           opening' \subseteq opening, p # None /\ ~overtaken' => disk[p] = s
    PROVE  CompileKnown' /\ SavesKnown' /\ OpensKnown' /\ SavedOnDisk' /\ CleanIsSaved'
<1>1. CompileKnown' /\ SavesKnown'
  BY RevisionKeepsSaves DEF Load, CompileKnown
<1>. QED  BY <1>1 DEF FilesInv, OpensKnown, SavedOnDisk, CleanIsSaved, Load

(* What is written is known: text is the source, IR JSON comes from the compile state. *)
LEMMA SaveTakesKnown ==
    ASSUME FilesInv, NEW q \in Paths, Save(q)
    PROVE  CompileKnown' /\ SavesKnown' /\ OpensKnown' /\ SavedOnDisk' /\ CleanIsSaved'
<1>1. revision \in Nat
  BY DEF FilesInv, DocInv, TypeInv, DocType
<1>2. q \in JsonPaths => compile # None
  BY DEF Save, HasIr
<1>3. \A sv \in saving' \ saving :
        sv.revision <= revision /\ (sv.revision = revision => sv.data = source)
  BY <1>1, <1>2 DEF Save, FilesInv, CompileKnown
<1>4. SavesKnown'
  BY <1>3 DEF FilesInv, SavesKnown, Save, docVars
<1>. QED  BY <1>4 DEF FilesInv, CompileKnown, OpensKnown, SavedOnDisk, CleanIsSaved, Save,
             docVars, compileVars

LEMMA OpenReads ==
    ASSUME FilesInv, NEW q \in Paths, Open(q)
    PROVE  CompileKnown' /\ SavesKnown' /\ OpensKnown' /\ SavedOnDisk' /\ CleanIsSaved'
BY DEF Open, FilesInv, CompileKnown, SavesKnown, OpensKnown, SavedOnDisk, CleanIsSaved,
       docVars, compileVars

(* A write that ends makes the reads of its file late. *)
LEMMA SaveDoneKeepsFiles ==
    ASSUME FilesInv, NEW sv \in saving, SaveDone(sv)
    PROVE  CompileKnown' /\ SavesKnown' /\ OpensKnown' /\ SavedOnDisk' /\ CleanIsSaved'
<1>1. /\ sv.path \in Paths /\ disk \in [Paths -> Sources \cup {None}]
      /\ sv.revision = revision => sv.data = source
  BY DEF FilesInv, SavesKnown, DocInv, TypeInv, FileType, Saves
<1>2. \A o \in opening : o \in Opens /\ [o EXCEPT !.late = TRUE].late
  BY DEF FilesInv, DocInv, TypeInv, FileType, Opens
<1>3. OpensKnown'
  <2>. SUFFICES ASSUME NEW o \in opening', ~o.late
                PROVE  disk'[o.path] = o.text
    BY DEF OpensKnown
  <2>1. o \in opening /\ o.path # sv.path
    BY <1>2 DEF SaveDone
  <2>2. disk[o.path] = o.text /\ o.path \in Paths
    BY <2>1, <1>2 DEF FilesInv, OpensKnown, Opens
  <2>. QED  BY <1>1, <2>1, <2>2 DEF SaveDone
<1>4. SavedOnDisk' /\ CleanIsSaved'
  BY <1>1 DEF SaveDone, MarkSaved, SavedOnDisk, CleanIsSaved
<1>5. CompileKnown' /\ SavesKnown'
  BY DEF FilesInv, CompileKnown, SavesKnown, SaveDone, compileVars
<1>. QED  BY <1>3, <1>4, <1>5

(* A document that is not dirty is on disk under its path, whatever is edited, loaded,
   compiled, read and written, in any order and with any failure: but after a save of an
   older document than the one it marks, or a load of an older file (doc-store.ts:40). *)
THEOREM CleanCorrect == Spec => []CleanIsOnDisk
<1>1. Init /\ DocInv => FilesInv
  BY DEF Init, FilesInv, CompileKnown, SavesKnown, OpensKnown, SavedOnDisk, CleanIsSaved
<1>2. ASSUME FilesInv, DocInv', [Next]_vars
      PROVE  FilesInv'
  <2> DEFINE Goal == CompileKnown' /\ SavesKnown' /\ OpensKnown' /\ SavedOnDisk' /\ CleanIsSaved'
  <2> SUFFICES Goal
    BY <1>2 DEF FilesInv
  <2>1. CASE Pipeline
    BY <1>2, <2>1, PipelineKeepsFiles
  <2>2. CASE \/ \E s \in Sources, key \in Keys \cup {NoKey} : SetSource(s, key)
             \/ Undo \/ Redo
    BY <1>2, <2>2, EditKeepsFiles DEF SetSource, Undo, Redo
  <2>3. CASE \/ SealTransaction
             \/ Recompute
             \/ \E e \in Engines : SelectEngine(e) \/ EngineReady(e) \/ EngineUnavailable(e)
    <3>1. CASE SealTransaction
      BY <1>2, <3>1 DEF SealTransaction, FilesInv, CompileKnown, SavesKnown, OpensKnown,
         SavedOnDisk, CleanIsSaved, compileVars, fileVars
    <3>. QED  BY <1>2, <2>3, <3>1, FilesUndisturbed DEF Recompute, SelectEngine, EngineReady,
                 EngineUnavailable, fileVars
  <2>4. ASSUME NEW q \in Paths, Save(q) \/ Open(q)
        PROVE  Goal
    BY <1>2, <2>4, SaveTakesKnown, OpenReads
  <2>5. ASSUME NEW sv \in saving, SaveDone(sv) \/ SaveFails(sv)
        PROVE  Goal
    BY <1>2, <2>5, SaveDoneKeepsFiles, FilesUndisturbed DEF SaveFails
  <2>6. ASSUME NEW o \in opening, OpenDone(o)
        PROVE  Goal
    BY <1>2, <2>6, LoadKeepsFiles DEF OpenDone, FilesInv, OpensKnown
  <2>7. ASSUME NEW o \in opening, OpenFails(o)
        PROVE  Goal
    BY <1>2, <2>7, FilesUndisturbed DEF OpenFails
  <2>8. CASE New
    BY <1>2, <2>8, LoadKeepsFiles DEF New
  <2>9. CASE UNCHANGED vars
    BY <1>2, <2>9, FilesUndisturbed DEF vars, fileVars
  <2>. QED  BY <1>2, <2>1, <2>2, <2>3, <2>4, <2>5, <2>6, <2>7, <2>8, <2>9 DEF Next
<1>3. FilesInv => CleanIsOnDisk
  BY DEF FilesInv, SavedOnDisk, CleanIsSaved, CleanIsOnDisk
<1>. QED  BY <1>1, <1>2, <1>3, Invariance, PTL DEF Spec

=============================================================================
