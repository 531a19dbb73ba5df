---------------------------- MODULE PartTimeline ----------------------------
(***************************************************************************)
(* One part studio evaluated feature by feature (forge-regen v1, PartEval):*)
(* every feature is skipped, fails and passes its input through, or turns  *)
(* the part's bodies into the next ones and reports what it created,       *)
(* modified and removed.  The body operations are those of forge-ops.      *)
(*                                                                         *)
(* A feature is named by its position in the timeline.  Geometry is cut    *)
(* down to a line of cells: a body is an interval, so that overlaps, shared*)
(* faces, splits and merges all happen and an edge contact cannot.  A      *)
(* reference is a set: f stands for every body of feature f, -f for the    *)
(* first of them (an extreme query), and no name at all for "all".         *)
(* What the kernel may refuse (a non-manifold union, a body that fails the *)
(* validity check) and what an expression may do is chosen at each step.   *)
(***************************************************************************)
EXTENDS Integers, FiniteSets, SequencesExt

CONSTANTS
  Timelines,     \* the documents: sequences of feature records, a valid one at least
  Stages,        \* where a feature can get in trouble
  MaxTroubles,   \* bound: features in trouble in one evaluation
  MaxOperands    \* bound: targets, and tools, in OperandOrderIsIrrelevant

ASSUME TimelinesAreSequences ==
  \A d \in Timelines : DOMAIN d = 1 .. Len(d) /\ Len(d) \in Nat

VARIABLES
  doc,       \* the timeline being evaluated
  next,      \* the feature whose turn it is
  bodies,    \* the part's bodies: a sequence of [origin, cells]
  aliases,   \* <<key merged away, key that survives>>, by the bodies' origins
  infos,     \* feature -> [status, regions, datum], as references see it
  sketches,  \* feature -> [state, regions]
  seeds,     \* feature -> [op, bodies]: the tools kept for patterns
  features   \* the report: feature -> its entry, none for the suppressed

vars == <<doc, next, bodies, aliases, infos, sketches, seeds, features>>

----------------------------------------------------------------------------
(* Geometry: intervals of cells and their canonical order. *)

Low(I) == CHOOSE a \in I : \A b \in I : a <= b
High(I) == CHOOSE a \in I : \A b \in I : b <= a
IsInterval(I) == \E a, b \in I : I = a .. b
AreIntervals(s) == s \in Seq(SUBSET Int) /\ \A i \in DOMAIN s : IsInterval(s[i])
Near(A, B) == \E a \in A, b \in B : a - b \in -1 .. 1     \* overlap or a shared face
Pieces(S) == {I \in {a .. b : a, b \in S} :
                I # {} /\ I \subseteq S /\ \A c \in S \ I : ~ Near({c}, I)}

Cells(bs) == UNION {bs[i].cells : i \in DOMAIN bs}
Origins(bs) == {bs[i].origin : i \in DOMAIN bs}
SortKey(b) == <<b.origin.feature, b.origin.member, b.origin.instance, Low(b.cells), High(b.cells)>>
Before(a, b) == \E i \in 1 .. 5 : /\ SortKey(a)[i] < SortKey(b)[i]
                                  /\ \A j \in 1 .. i - 1 : SortKey(a)[j] = SortKey(b)[j]
Sorted(S, less(_, _)) ==
  [k \in 1 .. Cardinality(S) |-> CHOOSE x \in S : Cardinality({y \in S : less(y, x)}) = k - 1]
\* The values of <<position, value>> pairs in order, equal ones by position.
InOrder(S, less(_, _)) ==
  LET at == Sorted(S, LAMBDA x, y : less(x[2], y[2]) \/ (~ less(y[2], x[2]) /\ x[1] < y[1]))
  IN [k \in DOMAIN at |-> at[k][2]]
SortedSeq(s, less(_, _)) == InOrder({<<i, s[i]>> : i \in DOMAIN s}, less)
Canonical(bs) == SortedSeq(bs, Before)
Bodies(origin, intervals) == {[origin |-> origin, cells |-> I] : I \in intervals}

----------------------------------------------------------------------------
(* Body operations (forge-ops): targets T and tools K, sequences of bodies. *)
(* A result has the bodies it made, the targets it left alone (positions),  *)
(* the origins that vanished, and the keys merged away.                     *)

NoResult(code) == [code |-> code, bodies |-> <<>>, untouched |-> {}, removed |-> {}, merged |-> {}]

\* The component of cells P holds these operands; its first target gives the origin.
Component(P, bs) == {i \in DOMAIN bs : bs[i].cells \subseteq P}
\* Mutant: the origin of the operand listed first.
KeepFirstListed(P, T) == T[Low(Component(P, T))].origin
Keep(P, T) == T[CHOOSE t \in Component(P, T) : \A u \in Component(P, T) : ~ Before(T[u], T[t])].origin

Join(T, K) ==
  LET all == T \o K
      united == {P \in Pieces(Cells(all)) : Cardinality(Component(P, all)) > 1}
      pairs(bs) == UNION {{<<bs[i].origin, Keep(P, T)>> : i \in Component(P, bs)} : P \in united}
  IN IF \E k \in DOMAIN K : \A t \in DOMAIN T : ~ Near(T[t].cells, K[k].cells)
     THEN NoResult("BOOLEAN_NO_INTERSECTION")
     ELSE [code |-> "OK",
           bodies |-> Sorted({[origin |-> Keep(P, T), cells |-> P] : P \in united}, Before),
           untouched |-> {t \in DOMAIN T : \A P \in united : t \notin Component(P, T)},
           removed |-> {p[1] : p \in {q \in pairs(T) : q[1] # q[2]}},
           merged |-> {q \in pairs(all) : q[1] # q[2]}]

\* Every target becomes the pieces of what the tools leave of it.
Carve(T, touched(_), rest(_)) ==
  [code |-> "OK",
   bodies |-> InOrder(UNION {{t} \X Bodies(T[t].origin, Pieces(rest(t))) :
                               t \in {u \in DOMAIN T : touched(u)}}, Before),
   untouched |-> {t \in DOMAIN T : ~ touched(t)},
   removed |-> {T[t].origin : t \in {u \in DOMAIN T : touched(u) /\ rest(u) = {}}},
   merged |-> {}]

Cut(T, K) ==
  IF Cells(T) \cap Cells(K) = {}
  THEN NoResult("BOOLEAN_NO_INTERSECTION")
  ELSE Carve(T, LAMBDA t : T[t].cells \cap Cells(K) # {}, LAMBDA t : T[t].cells \ Cells(K))

Intersect(T, K) ==
  IF Cells(T) \cap Cells(K) = {}
  THEN NoResult("BOOLEAN_EMPTY_RESULT")
  ELSE Carve(T, LAMBDA t : TRUE, LAMBDA t : T[t].cells \cap Cells(K))

RemovedNotCarried(res, T) ==
  [res EXCEPT !.removed = @ \ (Origins(res.bodies) \cup {T[t].origin : t \in res.untouched})]

ApplyOp(op, T, K) ==
  IF T = <<>> \/ K = <<>> THEN NoResult("FORGE_BOOLEAN_NO_OPERANDS")
  ELSE IF \E t \in DOMAIN T, k \in DOMAIN K : T[t] = K[k] THEN NoResult("BOOLEAN_TOOL_IS_TARGET")
  ELSE RemovedNotCarried(CASE op = "join" -> Join(T, K)
                           [] op = "cut" -> Cut(T, K)
                           [] op = "intersect" -> Intersect(T, K), T)

----------------------------------------------------------------------------
(* What a feature's evaluation hands back: the part's bodies and aliases as *)
(* it left them, even when it fails, and what it computed for the rest.     *)

NoSeed == [op |-> "none", bodies |-> <<>>]
Unchanged(code) ==
  [code |-> code, bodies |-> bodies, aliases |-> aliases, regions |-> <<>>, datum |-> FALSE,
   seed |-> NoSeed, report |-> <<>>, removed |-> {}]

Reports(bs, change) == [i \in DOMAIN bs |-> [body |-> bs[i], change |-> change]]
Pick(bs, I) == LET at == Sorted(I, <) IN [k \in DOMAIN at |-> bs[at[k]]]

\* One entry per body made, and the origins that no body of the part carries any more.
\* Mutant: bodies of one origin have one entry.
ListOncePerOrigin(res) ==
  Reports(SelectSeq(res.bodies, LAMBDA b : \A i \in DOMAIN res.bodies :
                      res.bodies[i].origin = b.origin => ~ Before(b, res.bodies[i])), "modified")
Listed(res) == Reports(res.bodies, "modified")
\* Mutant: an origin is removed although a body still carries it.
RemovedEvenIfCarried(res, left) == res.removed
Removed(res, left) == res.removed \ Origins(left)

\* Replaces the targets I of bs that res touched, and drops the consumed bodies.
CommitOp(bs, as, I, consumed, res) ==
  LET at == Sorted(I, <)
      gone == {at[t] : t \in DOMAIN at \ res.untouched} \cup consumed
      left == Pick(bs, DOMAIN bs \ gone) \o res.bodies
      old == {a \in as : \E m \in res.merged : m[1] = a[1]}
  IN [bodies |-> left, aliases |-> (as \ old) \cup res.merged,
      report |-> Listed(res), removed |-> Removed(res, left)]

\* The bodies a reference to the features fs resolves to; {} names every body.
Resolve(bs, fs) ==
  {i \in DOMAIN bs :
     \/ fs = {} \/ bs[i].origin.feature \in fs
     \/ /\ - bs[i].origin.feature \in fs
        /\ \A j \in DOMAIN bs : bs[j].origin.feature = bs[i].origin.feature => ~ Before(bs[j], bs[i])}
Unresolved(bs, fs) == fs # {} /\ Resolve(bs, fs) = {}

BodyOpOn(I, K, op, consumed, seed, stage) ==
  LET res == ApplyOp(op, Pick(bodies, I), K)
      done == CommitOp(bodies, aliases, I, consumed, res)
      code == IF res.code = "OK" /\ stage = "operation" THEN "KERNEL_REFUSED" ELSE res.code
  IN IF code # "OK" THEN [Unchanged(code) EXCEPT !.seed = seed]
     ELSE [Unchanged("OK") EXCEPT !.seed = seed, !.bodies = done.bodies, !.aliases = done.aliases,
                                  !.report = done.report, !.removed = done.removed]

----------------------------------------------------------------------------
(* The features.  Each evaluates feature f = doc[next] at a stage of        *)
(* trouble ("operation": the kernel refuses) and hands back its outcome.    *)

F == doc[next]
SeedIds == UNION {Range(doc[i].seeds) : i \in {j \in DOMAIN doc : doc[j].type = "pattern"}}
MadeBy(f, i, I) == [origin |-> [feature |-> f, member |-> i, instance |-> 0], cells |-> I]
KeptTools(op, tools) == IF next \in SeedIds THEN [op |-> op, bodies |-> tools] ELSE NoSeed

Sketch(stage) ==
  IF stage = "operation" THEN Unchanged("KERNEL_REFUSED")
  ELSE [Unchanged("OK") EXCEPT !.regions = F.regions]

\* The regions and the kept tools are recorded before the body operation can fail.
Sweep(stage) ==
  LET regions == sketches[F.sketch].regions
      tools == [i \in DOMAIN regions |-> MadeBy(next, i, regions[i])]
      seed == KeptTools(F.op, tools)
      targets == Resolve(bodies, F.targets)
  IN IF F.op # "new_body" /\ Unresolved(bodies, F.targets) THEN Unchanged("REF_NOT_FOUND")
     ELSE IF F.op # "new_body"
     THEN [BodyOpOn(targets, tools, F.op, {}, seed, stage) EXCEPT !.regions = regions]
     ELSE IF stage = "operation"
     THEN [Unchanged("KERNEL_REFUSED") EXCEPT !.regions = regions, !.seed = seed]
     ELSE [Unchanged("OK") EXCEPT !.regions = regions, !.seed = seed, !.bodies = bodies \o tools,
                                  !.report = Reports(Canonical(tools), "created")]

Boolean(stage) ==
  LET targets == Resolve(bodies, F.targets)
      tools == Resolve(bodies, F.tools)
  IN CASE Unresolved(bodies, F.targets) \/ Unresolved(bodies, F.tools) -> Unchanged("REF_NOT_FOUND")
       [] targets \cap tools # {} -> Unchanged("BOOLEAN_TOOL_IS_TARGET")
       [] OTHER -> BodyOpOn(targets, Pick(bodies, tools), F.op, IF F.keepTools THEN {} ELSE tools,
                            NoSeed, stage)

\* Every position must meet a target.  The tools are kept once the cut is committed.
Hole(stage) ==
  LET targets == Resolve(bodies, F.targets)
      tools == [i \in DOMAIN F.positions |-> MadeBy(next, i, F.positions[i])]
      cut == BodyOpOn(targets, tools, "cut", {}, NoSeed, stage)
      miss == \E i \in DOMAIN tools : tools[i].cells \cap Cells(Pick(bodies, targets)) = {}
  IN CASE Unresolved(bodies, F.targets) -> Unchanged("REF_NOT_FOUND")
       [] F.ownsFace /\ Cardinality(targets) # 1 -> Unchanged("REF_AMBIGUOUS")
       [] miss -> Unchanged("HOLE_MISSES_BODY")
       [] OTHER -> IF cut.code = "OK" THEN [cut EXCEPT !.seed = KeptTools("hole", tools)] ELSE cut

Blend(stage) ==
  LET on == Resolve(bodies, F.targets)
      blended == [i \in DOMAIN bodies |->
                    IF i \in on THEN [bodies[i] EXCEPT !.cells = @ \ {High(@)}] ELSE bodies[i]]
  IN CASE Unresolved(bodies, F.targets) -> Unchanged("REF_NOT_FOUND")
       [] stage = "operation" \/ \E i \in on : blended[i].cells = {} -> Unchanged("KERNEL_REFUSED")
       [] OTHER -> [Unchanged("OK") EXCEPT !.bodies = blended,
                      !.report = Reports(Canonical(Pick(blended, on)), "modified")]

Datum(stage) ==
  IF stage = "operation" THEN Unchanged("DATUM_DEGENERATE") ELSE [Unchanged("OK") EXCEPT !.datum = TRUE]

Tag(stage) == Unchanged(IF Unresolved(bodies, F.targets) THEN "REF_NOT_FOUND" ELSE "OK")

----------------------------------------------------------------------------
(* Patterns: the copies of each seed's tools, applied seed after seed.      *)

Copies(tools, q) ==
  [i \in DOMAIN tools |->
     [origin |-> [feature |-> next, member |-> tools[i].origin.member, instance |-> q],
      cells |-> {c + F.shifts[q] : c \in tools[i].cells}]]

\* One seed's instances against the targets T: those that miss are skipped.
ApplySeed(op, tools, T) ==
  LET at == DOMAIN F.shifts
      misses(q) ==
        CASE op = "join" -> \A i \in DOMAIN tools : ~ Near(Copies(tools, q)[i].cells, Cells(T))
          [] OTHER -> Cells(Copies(tools, q)) \cap Cells(T) = {}
      live == {q \in at : ~ misses(q)}
      copies(Q) == FlattenSeq([k \in 1 .. Cardinality(Q) |-> Copies(tools, Sorted(Q, <)[k])])
      bodyOp == IF op = "hole" THEN "cut" ELSE op
  IN IF op = "new_body" THEN [code |-> "OK", created |-> copies(at), res |-> NoResult("none")]
     ELSE IF live = {} THEN [code |-> IF at = {} THEN "OK" ELSE "PATTERN_ALL_INSTANCES_FAILED",
                             created |-> <<>>, res |-> NoResult("none")]
     ELSE LET res == ApplyOp(bodyOp, T, copies(live))
          IN [code |-> res.code, created |-> <<>>, res |-> res]

\* Mutant: the report of the last seed only.
LastSeedOnly(report, new) == new
\* The report so far: a body a later seed modifies again is meant to keep one entry.
Merge(report, new) ==
  FoldLeft(LAMBDA acc, r :
             Append(SelectSeq(acc, LAMBDA x : x.body.origin # r.body.origin \/ x.change # "modified"), r),
           report, new)

\* One seed after the other on the part as the last one left it.
ApplyOneSeed(acc, seed, stage) ==
  LET I == Resolve(acc.bodies, seed.targets)
      out == ApplySeed(seed.op, seed.tools, Pick(acc.bodies, I))
      done == CommitOp(acc.bodies, acc.aliases, I, {}, out.res)
  IN CASE acc.code # "OK" -> acc
       [] seed.op # "new_body" /\ Unresolved(acc.bodies, seed.targets) ->
            [acc EXCEPT !.code = "REF_NOT_FOUND"]
       [] seed.one /\ Cardinality(I) # 1 -> [acc EXCEPT !.code = "REF_AMBIGUOUS"]
       [] out.code # "OK" -> [acc EXCEPT !.code = out.code]
       [] stage = "operation" -> [acc EXCEPT !.code = "KERNEL_REFUSED"]
       [] out.res.code = "OK" -> [acc EXCEPT !.bodies = done.bodies, !.aliases = done.aliases,
                                             !.report = Merge(acc.report, done.report),
                                             !.removed = @ \cup done.removed]
       [] OTHER -> [acc EXCEPT !.bodies = @ \o out.created,
                               !.report = @ \o Reports(out.created, "created")]

\* A failing seed gives the bodies and aliases back as they were.
\* Mutant: the bodies stay as the seeds before left them.
NotRestored(run) == run
Restored(run) == Unchanged(run.code)

\* fail is the seed the kernel refuses, if any.
ApplySeeds(order, fail) ==
  LET after[k \in 0 .. Len(order)] ==
        IF k = 0 THEN Unchanged("OK")
        ELSE ApplyOneSeed(after[k - 1], order[k], IF k = fail THEN "operation" ELSE "none")
      run == after[Len(order)]
  IN IF run.code # "OK" THEN Restored(run)
     ELSE [Unchanged("OK") EXCEPT !.bodies = run.bodies, !.aliases = run.aliases,
             !.report = SortedSeq(run.report, LAMBDA a, b : Before(a.body, b.body)),
             !.removed = run.removed \ Origins(run.bodies)]

\* A hole that has no targets of its own cuts the one body that owns its face now.
FeatureSeeds ==
  LET at == Sorted(Range(F.seeds), <)
  IN [k \in DOMAIN at |->
        [op |-> seeds[at[k]].op, tools |-> seeds[at[k]].bodies, targets |-> doc[at[k]].targets,
         one |-> doc[at[k]].type = "hole" /\ doc[at[k]].ownsFace]]
Pattern(fail) ==
  IF \E i \in Range(F.seeds) : seeds[i] = NoSeed THEN Unchanged("FORGE_PATTERN_SEED_UNAVAILABLE")
  ELSE ApplySeeds(FeatureSeeds, fail)

\* Body seeds: the bodies as they are now, and the join targets resolved before any copy.
BodyPattern(fail) ==
  CASE Unresolved(bodies, F.of) \/ (F.op = "join" /\ Unresolved(bodies, F.targets)) ->
         Unchanged("REF_NOT_FOUND")
    [] OTHER -> ApplySeeds(<<[op |-> F.op, tools |-> Pick(bodies, Resolve(bodies, F.of)),
                              targets |-> F.targets, one |-> FALSE]>>, fail)

----------------------------------------------------------------------------
(* One step per feature: it is skipped, it is stopped before its operation, *)
(* or the operation runs.                                                   *)

NoInfo(status) == [status |-> status, regions |-> <<>>, datum |-> FALSE]
NoEntry == [status |-> "None", code |-> "OK", bodies |-> <<>>, removed |-> {}]
NoSketch == [state |-> "None", regions |-> <<>>]

Init ==
  /\ doc \in Timelines
  /\ next = 1
  /\ bodies = <<>> /\ aliases = {}
  /\ infos = [i \in DOMAIN doc |-> NoInfo("Ok")]
  /\ sketches = [i \in DOMAIN doc |-> NoSketch]
  /\ seeds = [i \in DOMAIN doc |-> NoSeed]
  /\ features = [i \in DOMAIN doc |-> NoEntry]

\* The features a feature names by id, in field order.
Deps(f) ==
  (CASE f.type = "sweep" -> <<f.sketch>> [] f.type = "pattern" -> f.seeds [] OTHER -> <<>>) \o f.uses

\* Validation leaves no id that is not a feature's, and no operation that there is not.
BodyOps == {"join", "cut", "intersect"}
ASSUME TimelinesAreValid ==
  \A d \in Timelines : \A i \in DOMAIN d :
    /\ d[i].uses \in Seq(DOMAIN d)
    /\ d[i].type = "sweep" => d[i].sketch \in DOMAIN d /\ d[i].op \in BodyOps \cup {"new_body"}
    /\ d[i].type = "boolean" => d[i].op \in BodyOps
    /\ d[i].type = "pattern" => d[i].seeds \in Seq(DOMAIN d)
    /\ d[i].type = "bodyPattern" => d[i].op \in {"join", "new_body"}

\* What is drawn is one interval a region and a position; copies move by whole cells.
ASSUME GeometryIsOfIntervals ==
  \A d \in Timelines : \A i \in DOMAIN d :
    /\ d[i].type = "sketch" => AreIntervals(d[i].regions)
    /\ d[i].type = "hole" => AreIntervals(d[i].positions)
    /\ d[i].type \in {"pattern", "bodyPattern"} => d[i].shifts \in Seq(Int)

SketchDep(i) == CASE sketches[i].state = "Done" -> "OK"
                  [] sketches[i].state = "Suppressed" -> "SKETCH_SUPPRESSED"
                  [] sketches[i].state = "Failed" -> "DEPENDENCY_FAILED"
                  [] OTHER -> "UNRESOLVED_SKETCH"
\* Mutant: what only is not there is no error.
SuppressedIsNoError(i) == CASE i >= next -> "UNRESOLVED_FEATURE"
                            [] infos[i].status = "Failed" -> "DEPENDENCY_FAILED"
                            [] OTHER -> "OK"
ByIdDep(i) == CASE i >= next -> "UNRESOLVED_FEATURE"
                [] infos[i].status = "Suppressed" -> "DEPENDENCY_SUPPRESSED"
                [] infos[i].status = "Failed" -> "DEPENDENCY_FAILED"
                [] OTHER -> "OK"
DepCode(i) == IF doc[i].type = "sketch" THEN SketchDep(i) ELSE ByIdDep(i)
BadDeps == {k \in DOMAIN Deps(F) : DepCode(Deps(F)[k]) # "OK"}

\* Why the feature is stopped before its operation: the first reason decides the code.
Stopped(stage) ==
  CASE stage = "suppression" -> "EXPR_FAILED"
    [] stage = "parameter" -> "PARAM_FAILED"
    [] BadDeps # {} -> DepCode(Deps(F)[Low(BadDeps)])
    [] stage = "field" -> "INVALID_FIELD"
    [] OTHER -> "OK"

Entry(status, out) ==
  [status |-> status, code |-> out.code,
   bodies |-> IF status = "Ok" THEN out.report ELSE <<>>,
   removed |-> IF status = "Ok" THEN out.removed ELSE {}]

Troubled == {i \in DOMAIN infos : infos[i].status = "Suppressed"}
  \cup {i \in DOMAIN features : features[i].code \in
          {"EXPR_FAILED", "PARAM_FAILED", "INVALID_FIELD", "KERNEL_REFUSED", "DATUM_DEGENERATE"}}
Trouble(stage) == stage # "none" => stage \in Stages /\ Cardinality(Troubled) < MaxTroubles

InfoAfter(out) == IF out.code = "OK" THEN [status |-> "Ok", regions |-> out.regions, datum |-> out.datum]
                  ELSE NoInfo("Failed")
\* Mutant: the tools of a failed feature are kept.
SeedStays(out) == out.seed
SeedAfter(out) == IF out.code = "OK" THEN out.seed ELSE NoSeed

Report(out) ==
  LET ok == out.code = "OK"
  IN /\ bodies' = out.bodies /\ aliases' = out.aliases
     /\ infos' = [infos EXCEPT ![next] = InfoAfter(out)]
     /\ sketches' = IF F.type # "sketch" THEN sketches
                    ELSE [sketches EXCEPT ![next] =
                            IF ok THEN [state |-> "Done", regions |-> out.regions]
                            ELSE [state |-> "Failed", regions |-> <<>>]]
     /\ seeds' = [seeds EXCEPT ![next] = SeedAfter(out)]
     /\ features' = [features EXCEPT ![next] = Entry(IF ok THEN "Ok" ELSE "Error", out)]
     /\ next' = next + 1
     /\ UNCHANGED doc

Turn(type) == next \in DOMAIN doc /\ F.type = type
Runs(type, stage) == Turn(type) /\ stage \in {"none", "operation"} /\ Trouble(stage) /\ Stopped(stage) = "OK"

Suppress ==
  /\ next \in DOMAIN doc /\ Trouble("suppressed")
  /\ infos' = [infos EXCEPT ![next].status = "Suppressed"]
  /\ sketches' = IF F.type # "sketch" THEN sketches
                 ELSE [sketches EXCEPT ![next].state = "Suppressed"]
  /\ next' = next + 1
  /\ UNCHANGED <<doc, bodies, aliases, seeds, features>>

Stop == /\ next \in DOMAIN doc
        /\ \E stage \in {"none", "suppression", "parameter", "field"} :
             Trouble(stage) /\ Stopped(stage) # "OK" /\ Report(Unchanged(Stopped(stage)))

EvalSketch == \E stage \in {"none", "operation"} : Runs("sketch", stage) /\ Report(Sketch(stage))
EvalSweep == \E stage \in {"none", "operation"} : Runs("sweep", stage) /\ Report(Sweep(stage))
EvalBoolean == \E stage \in {"none", "operation"} : Runs("boolean", stage) /\ Report(Boolean(stage))
EvalHole == \E stage \in {"none", "operation"} : Runs("hole", stage) /\ Report(Hole(stage))
EvalBlend == \E stage \in {"none", "operation"} : Runs("blend", stage) /\ Report(Blend(stage))
EvalDatum == \E stage \in {"none", "operation"} : Runs("datum", stage) /\ Report(Datum(stage))
EvalTag == Runs("tag", "none") /\ Report(Tag("none"))
EvalPattern ==
  /\ Turn("pattern")
  /\ \E fail \in 0 .. Len(F.seeds) :
       Runs("pattern", IF fail = 0 THEN "none" ELSE "operation") /\ Report(Pattern(fail))
EvalBodyPattern ==
  \E fail \in 0 .. 1 :
    Runs("bodyPattern", IF fail = 0 THEN "none" ELSE "operation") /\ Report(BodyPattern(fail))

\* The end of the timeline: the part's bodies in canonical order.
Finish ==
  /\ next = Len(doc) + 1
  /\ bodies' = Canonical(bodies)
  /\ next' = next + 1
  /\ UNCHANGED <<doc, aliases, infos, sketches, seeds, features>>

Next == \/ Suppress \/ Stop \/ EvalSketch \/ EvalSweep \/ EvalBoolean \/ EvalHole \/ EvalBlend
        \/ EvalDatum \/ EvalTag \/ EvalPattern \/ EvalBodyPattern \/ Finish

Spec == Init /\ [][Next]_vars

----------------------------------------------------------------------------
(* Properties. *)

\* A feature that reports success rests on features that succeeded: a failed or suppressed
\* sketch, datum, tag or seed stops whatever names it, however far down the timeline.
OkRestsOnOk ==
  \A k \in DOMAIN doc :
    features[k].status = "Ok" =>
      \A d \in DOMAIN Deps(doc[k]) :
        LET i == Deps(doc[k])[d]
        IN i < k /\ infos[i].status = "Ok" /\ (doc[i].type = "sketch" => sketches[i].state = "Done")

\* Patterns find the tools of exactly the seeds that succeeded: a seed that failed after its
\* tools were kept has none, so no pattern copies tools of a feature that is not in the part.
SeedsAreExact ==
  \A i \in DOMAIN doc :
    seeds[i] # NoSeed <=>
      i < next /\ i \in SeedIds /\ infos[i].status = "Ok" /\ doc[i].type \in {"sweep", "hole"}

\* The canonical order makes an operation's outcome the same for every order of its operands.
OperandOrderIsIrrelevant ==
  next = Len(doc) + 1 =>
    \A I, K \in {S \in SUBSET DOMAIN bodies : Cardinality(S) \in 1 .. MaxOperands} :
      I \cap K = {} =>
        \A op \in {"join", "cut", "intersect"} :
          LET one == ApplyOp(op, Pick(bodies, I), Pick(bodies, K))
              two == ApplyOp(op, Reverse(Pick(bodies, I)), Reverse(Pick(bodies, K)))
          IN /\ one.code = two.code /\ one.bodies = two.bodies
             /\ one.removed = two.removed /\ one.merged = two.merged

NewEntry == features'[next]
Reported(status) == features' # features /\ NewEntry.status = status

\* A feature that fails passes its input through: bodies, aliases, the other features' state
\* and the tools kept for patterns are what they were, wherever its evaluation stopped.
FailurePassesThrough ==
  [][Reported("Error") =>
       /\ bodies' = bodies /\ aliases' = aliases
       /\ infos' = [infos EXCEPT ![next] = NoInfo("Failed")]
       /\ seeds' = [seeds EXCEPT ![next] = NoSeed]
       /\ \A i \in DOMAIN doc \ {next} : sketches'[i] = sketches[i]
       /\ NewEntry.bodies = <<>> /\ NewEntry.removed = {}]_vars

\* The origins a feature reports as removed are those that vanished from the part with it,
\* save a boolean's consumed tools; a pattern may also remove copies it made itself.
RemovedIsExact ==
  [][Reported("Ok") =>
       LET gone == Origins(bodies) \ Origins(bodies')
           tools == IF F.type # "boolean" \/ F.keepTools THEN {}
                    ELSE Origins(Pick(bodies, Resolve(bodies, F.tools)))
       IN /\ NewEntry.removed \cap Origins(bodies') = {}
          /\ gone \subseteq NewEntry.removed \cup tools
          /\ \A o \in NewEntry.removed \ gone : o.feature = next /\ F.type = "pattern"]_vars

Count(bs, b) == Cardinality({i \in DOMAIN bs : bs[i] = b})
Entries(e, b) == Cardinality({i \in DOMAIN e.bodies : e.bodies[i].body = b})
Carried == Range(bodies) \cup Range(bodies')
ListedBodies == {NewEntry.bodies[i].body : i \in DOMAIN NewEntry.bodies}

\* The bodies of bs at the positions I that an operation with tools of the cells k acts on: a
\* join what its tools or another target reach, a cut what its tools meet, else every target.
Acted(op, bs, I, k) ==
  {i \in I : CASE op = "join" -> Near(bs[i].cells, k \cup UNION {bs[j].cells : j \in I \ {i}})
               [] op = "cut" -> bs[i].cells \cap k # {}
               [] OTHER -> TRUE}
\* The bodies that the feature replaces or consumes.
ActedOn ==
  LET targets == Resolve(bodies, F.targets)
      tools == Resolve(bodies, F.tools)
  IN CASE F.type = "sweep" /\ F.op # "new_body" ->
            Acted(F.op, bodies, targets, UNION Range(sketches[F.sketch].regions))
       [] F.type = "boolean" ->
            Acted(F.op, bodies, targets, Cells(Pick(bodies, tools))) \cup (IF F.keepTools THEN {} ELSE tools)
       [] F.type = "hole" -> Acted("cut", bodies, targets, UNION Range(F.positions))
       [] F.type = "blend" -> targets
       [] OTHER -> {}

\* A feature lists the bodies it created or modified, each as it now is, and no other: every
\* piece of a split, a target that was acted on even when its geometry is what it was, and
\* never a target that no tool reached.  What it did not act on stays as it is, unlisted.
ReportIsTheChange ==
  [][Reported("Ok") /\ F.type \notin {"pattern", "bodyPattern"} =>
       \A b \in Carried \cup ListedBodies :
         Count(bodies', b) = Count(Pick(bodies, DOMAIN bodies \ ActedOn), b) + Entries(NewEntry, b)]_vars

\* A pattern's report survives its later seeds: an origin under which the part has a body it
\* had not, or had fewer times, is listed, and what is listed was there or is the pattern's.
\* Not every body is: of the pieces of one origin Acc::merge keeps the last one's entry.
PatternListsOrigins ==
  [][Reported("Ok") /\ F.type \in {"pattern", "bodyPattern"} =>
       /\ \A b \in Range(bodies') :
            Count(bodies', b) > Count(bodies, b) => b.origin \in {c.origin : c \in ListedBodies}
       /\ \A c \in ListedBodies : c.origin.feature = next \/ c.origin \in Origins(bodies)]_vars
=============================================================================
