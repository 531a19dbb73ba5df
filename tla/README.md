# PartZero: TLA+ models, checks and proofs

PartZero is a CAD program for parametric parts. A document is a *CadScript*
source; it compiles to an IR, which an engine (`forge`, in Rust, natively or as
WebAssembly) evaluates to bodies and a report. A design agent proposes new
versions of the document: it runs in a process of its own, calls language models
through APIs or vendor CLIs, and its proposals are reviewed in the app.

The numerical kernel is sequential. Much of what is hard to test lies in the
TypeScript around it: timers, processes, sockets and promises whose answers come in
any order, while the user goes on working. Half of the modules are about that part. In the
kernel it is what holds one evaluation together, and one evaluation to the next:
features that fail in the middle of a timeline, what they leave behind for later ones,
parameters that depend on each other, and references that must still mean the same
faces after the part was edited. The other half is about that.

## 1. Inventory

State, operations and neighbours of each part; then what is hard in it and what
makes it correct. `PROJECT.json` lists every part, the ones without a module too.

### Desktop: agent host and worker
`packages/desktop/src/agent/{host,runner,protocol,worker}.ts`
- **State.** The host keeps its worker process, the active run with the sequence
  number of its last event and its stop timer, a flag for a start that awaits
  detection, and the CLI process groups of the worker's last report. A worker
  keeps one run: its event counter, an open question, whether it was aborted.
- **Operations.** `start`, `answer`, `stop`, `stopAll` from the renderer; events,
  `procs` reports and the exit notice from the worker; the stop timer.
- **Hard.** A worker may die at any point, and its exit notice and last messages
  arrive when its successor already runs; a stop may time out while the result is
  under way; `start` awaits detection between its check and its effect.
- **Correct when** there is one run at a time and it can always end; the renderer
  gets a run's events in order and one terminal event; the CLIs of a dead worker
  are killed and those of another worker are not.

### App: document, pipeline, engine manager, file commands
`packages/app/src/doc/doc-store.ts`, `engine/engine-manager.ts`, `commands/commands.ts`
- **State.** Source, saved source, dirty mark, path, revision; the last compile, the
  last good IR, the report; phase, debounce timer and a forced evaluation; the
  active engine.
- **Operations.** Edit, undo, redo, load, recompute, engine switch, save, open, new.
- **Hard.** Several compiles and evaluations of different revisions are in flight;
  saves, opens and engine switches await while the user edits.
- **Correct when** an idle pipeline describes the latest source with the active
  engine, it becomes idle once the user rests, and a document that is not dirty is
  on disk.

### App: undo and redo
`packages/app/src/doc/{history,text-edit}.ts`
- **State.** Two stacks of transactions, each one replaced range of the source with a key;
  whether the last transaction is sealed.
- **Operations.** Record (push or merge into the last one), seal, undo, redo, clear.
- **Hard.** A transaction keeps a replaced range and not the texts, so it means something
  only in the text it was made for; merges rewrite it or make it vanish, the limit
  forgets the oldest, and ranges are cut at UTF-16 units.
- **Correct when** every undo and redo finds its text and gives back exactly the text
  before, or after, the transaction; nothing is merged into a closed one; no surrogate
  pair is split.

### App: IR v1 documents
`packages/app/src/doc/v1/{ir-doc-store,ops,command-engine}.ts`
- **State.** The document of record, its parameters as shown, the history, a busy flag; a
  queue of jobs, one of which runs; of a running transaction the base, the working document,
  the last one written back, and the chain of its ops.
- **Operations.** Load and transactions, which are queued; ops within a transaction, each
  perhaps preceded by a write-back; undo and redo, which are not queued; engine switches.
- **Hard.** Every op is an answer of an engine that may refuse, be lost or be switched; a
  callback may throw or return while its ops run; undo and redo come between jobs; parameters
  of a document arrive when it has changed.
- **Correct when** a transaction commits all of its ops or nothing and is one step of undo, a
  capture is of the geometry committed with it, and the parameters shown are those of the
  document.

### App: agent review
`packages/app/src/agent/agent-service.ts`, `proposal.ts`
- **State.** Runs and their status, the active run, the review (draft, preparing,
  ready), the changes ticked, the variant and its preview, events that overtook
  the reply naming their run.
- **Operations.** `start`, `handleEvent`, `setAccepted`, `accept`, `reject`.
- **Hard.** Events before the reply to `start`; answers for earlier ticks; `accept`
  crosses three awaits while the document may be edited.
- **Correct when** the active run is alive and is the one `stop` reaches, a pending
  review is never hidden, variant and preview are those of the ticks, and the
  document changes only by reviewed changes and by the user.

### MCP server: tool broker and bridge client
`packages/mcp-server/src/{broker,bridge-client,bridge-protocol}.ts`
- **State.** Open, closing or closed; the served connection; a queue, the call its
  pump awaits, the counters against `maxCalls`; on the shim's side the pending
  calls and whether it was told that the broker closes.
- **Operations.** Frames `hello`, `call`, `cancel`, `bye`; the handler's answer or
  its deadline; `close`, the end of the grace, `dispose`; `callTool`, `cancel`,
  `close` of the shim.
- **Hard.** A handler that missed its deadline goes on; close races queued calls; a
  socket ends with calls pending.
- **Correct when** at most one handler works on the session, limits hold, nothing
  starts after close, what is reported as not executed was not, and every call is
  answered.

### Kernel: part evaluation
`forge/crates/forge-regen/src/v1/{part,pattern,hole,blend,bodies,deps}.rs`,
`forge/crates/forge-ops/src/{boolean,pattern}/mod.rs`
- **State.** The bodies of the part with their origins, aliases of origins merged away,
  per feature its status, regions and datum, the sketches, the tools kept for patterns.
- **Operations.** One evaluation of each feature of the timeline: suppressed, stopped by
  a dependency, a parameter or a field, or run: sketch, sweep, boolean, hole, blend,
  datum, tag, pattern.
- **Hard.** A feature may fail after it recorded something; a pattern applies several
  operations one after the other; one operation splits and merges bodies that share an
  origin; the order of operands comes from a reference.
- **Correct when** a failed feature leaves the part as it was, what succeeds rests on what
  succeeded, patterns copy what is in the part, the outcome does not depend on the order
  of operands, and the report says what changed.

### Kernel: parameters
`forge/crates/forge-ir/src/v1/expr/checker.rs`, `forge/crates/forge-params/src/values.rs`
- **State.** The dependency graph of the expressions, bounds included; the evaluation
  order; the components and a cycle for each; a value or a failure for each parameter.
- **Operations.** Build, order, evaluate, find the cycles, block, and what a feature that
  uses parameters is told.
- **Hard.** Names are looked up across scopes; the order must be the same everywhere;
  failures pass through several parameters and must name the first; graphs with nested
  and adjacent cycles.
- **Correct when** every parameter gets one result after those it uses, the order is the
  least one, what has no value is on or behind a cycle or names its root cause, and the
  loops end.

### Kernel: references
`forge/crates/forge-refs/src/{scope,query,geom,synth,resolve}.rs`,
`forge/crates/forge-wasm/src/commands.rs`
- **State.** The part before a feature: faces with keys and geometry, merged keys, the
  status of features, curves of the sketches. A reference in the document: a query, a
  cardinality, and a capture of what the query selected when it was written. During one
  resolution: the faces used, those that captured members account for, warnings,
  entries for what could not be resolved.
- **Operations.** Resolve; the commands `captureRef`, `acceptRefProposal` and
  `acceptRefCandidate`, which rewrite a reference and resolve it again; any edit of the
  part in between.
- **Hard.** A captured key may be gone, split by a cut (its pieces share the key), split
  in the sketch (a piece has a new key), merged, or taken by another feature, several of
  these at once and for several members that must not take each other's faces; a
  candidate is accepted from a report that may be old.
- **Correct when** members of a reference that is used each keep a face, a split is not
  used by one of its pieces alone, and a command leaves a reference that gives exactly
  what it gave before or the one face that the user's choice can mean now.

### Parts without a module yet
- **Worker RPC** (`worker-rpc.ts`): request ids, a worker that is lost. Correct when
  each request settles once.
- **Gateway and budget** (`llm-gateway/src/{gateway,budget,router}.ts`): concurrent calls
  reserve against a cap. Correct when reservations are released and the cap holds.
- **CLI processes** (`llm-gateway/src/cli/process.ts`): stdout end, close, exit and the
  ladder of signals. Correct when the exit is reported once, after the last line.
- **Orchestrator, CLI runtime, sessions** (`agent/src`, `agent-tools/src`): phases, nudges,
  the proposal gate, checkpoints and rollback; a tool handler that outlives its CLI.

### Left out for good
The rest of the forge crates and the CadScript compiler are sequential and numerical or
syntactic: what they compute is a matter of floating-point geometry, tables or syntax
trees, on which a few states say nothing. They are most of the repository's lines, so the
models cover a small share of those. The models of the app use "compile" as a function
`IrOf` and "evaluate" as an answer that comes later. Rendering, settings, key storage,
file formats, evals, the Python oracle and scripts have no protocol state a model checker
could explore.

### How the parts meet
The renderer (AgentService) invokes `start`, `stop` and `answer` on the host; the host
posts them to the worker and forwards its events. In the worker, a run that uses a
CLI opens a ToolBroker for the shim that the CLI starts. AgentService reads and sets
the source of DocStore. Each module has its neighbour as an environment that may do
all the neighbour may do. Between host and renderer this is stated once: `AgentPromise` is
what the agent process promises (one run at a time, ascending events, one end). AgentHost
implements it, and AgentService has it as its agent: `HostStarts` and `HostSends` are its
`Begin` and `Tell` with a draft or a result. AgentHost has the renderer as any call at any
time.
In the kernel, `Params` gives the features of a timeline their values (`PartTimeline` has
them as present, failed or suppressed), and a feature that uses a reference resolves it
in the part as the features before left it (`PartTimeline` has the outcome of that,
`References` how it comes about, in any of several parts).

## 2. Modules

| module | models | proofs |
| --- | --- | --- |
| `AgentHost` | host, workers, channels, CLI groups | `AgentHostProofs` |
| `AgentPromise` | what the agent process promises; `AgentHost` implements it, `AgentService` works with it | in `AgentHostProofs` |
| `DocStore` | document, pipeline, engine switches, files; extends `History` | `DocStoreProofs` |
| `History` | the undo and redo stacks, text edits | `HistoryProofs` |
| `UndoLog` | what undo promises of whole texts; `DocStore` and `IrDocStore` implement it | in `DocStoreProofs`, `IrProofs` |
| `IrDocStore` | the IR v1 document, its queue and transactions; extends `History` | `IrProofs` |
| `AgentService` | runs, drafts, review, accept | `AgentServiceProofs` |
| `ToolBroker` | broker, sockets, shims | `ToolBrokerProofs` |
| `PartTimeline` | one part, feature by feature, and the body operations | `PartTimelineProofs` |
| `Params` | graph, order, cycles and values of parameters | `ParamsProofs` |
| `ParamPromise` | what evaluating parameters promises; `Params` implements it | in `ParamsProofs` |
| `RefQuery` | faces, queries, comparison, synthesis of a query | in `IrProofs` |
| `References` | resolution of a reference and the commands that rewrite it | `IrProofs` |

`MC<module>` gives each its symmetry sets or the constants TLC needs. A step of a
model is what the event loop runs between two awaits; code after an `await` is an
action of its own, and every call that waits is in the state (`compiling`,
`evaluating`, `saving`, `opening`, `selecting`; `start`, `accept`, `pick`, `prepares`,
`previews`; `running`).

**AgentHost.** `StartBusy`, `Start` and `StartRun`/`StartRefused` are `start` before and after
detection; `EnsureWorker` is `#ensureWorker`; `OnExit` its exit listener;
`OnWorkerMessage` is `#onWorkerMessage`; `EmitTerminal` is `#emit` of the
terminal events the host adds itself. `HandleStart`, `HandleStop`, `HandleAnswer`,
`Ask`, `Progress`, `RunEnds` and `ReportProcs` are the worker's `AgentRunner` and `Run`.
`AgentPromise` is implemented with `used` mapped to the runs started, `run` to the host's run
and `last` to the event sent last (`Told`).
A process is *unborn*, *alive*, *killed* (SIGTERM sent, not yet handled), *exited*
(its notice is under way) or *gone*. `Crash` may leave its CLIs running, as an
out-of-memory kill does; `HandleSigterm` kills them. A killed process may handle its
signal, and its exit notice may come, at any later time: also when a successor runs.
`disowned` is a history variable: the runs that the notice of another worker failed.

**DocStore.** `TimerFires` captures revision and source as `run()` does before its first
await; `Compile...` and `Evaluate...` are what follows each await, with `IsStale` as
the guard of `run()`. Compiles answer in order (one worker), evaluations in any
order (`forge-cli` processes). A file holds what was written: the source, or the
source its IR JSON was compiled from. `saving` and `opening` are the writes and the open
under way, each with what it captured before its awaits: the data and the revision, or the
text that was read. `overtaken` is a history variable: the last save or load to end was of
another document than the one it marked, or of a file that was written over meanwhile.

**History.** A text is a sequence of UTF-16 units and an edit replaces one range of it, as in
`text-edit.ts`; `DiffText`, `Applies`, `ApplyEdit` and `InvertEdit` are its functions.
`Push`, `Merge`, `Undone`, `Redone` and `Sealed` are the methods on the stacks. Whether an
edit comes within `coalesceMs` is a choice, so `Recorded` is the set of both outcomes.
`IsPast` and `IsFuture` say which texts the stacks stand for; `UndoLog` keeps those texts
and knows no edits. `DocStore` implements it with `past` and `future` mapped to these
texts, `present` to the source and `open` to `~sealed`.

**IrDocStore.** A document is three units: what its features say, the geometry its sketches
have stored, and the geometry a reference captured; an *edit* changes the first, a write-back
stores `SolutionOf` the first in the second, a capture copies the second to the third. `Ask`
is `serial`, `job` is what the running job awaits, and `tx` the local variables of
`transaction`; `Call` is `tx.apply`, by the callback or by what it left running, and `BeginOp`,
`OpWrittenBack`, `OpDone` and `OpFails` are the links of its chain. A callback does not await
other calls of the store: these are queued behind its own transaction, so it would wait for
itself. The store implements `UndoLog`, too, with whole documents as texts: a transaction is
an `Edit` at the moment it commits, a load a `Clear`.

**AgentService.** A source is the set of what was changed in it, so that rebasing
accepted changes onto an edited document is a union; a review keeps which of the two
sides compile (`irs`), since without both there is nothing to tick. `HandleEvent`
covers `reduceRun`, `#onDraft`, `#onResult` and `#dropDraft` in one step, on the record
`View`, because `start` replays the buffered events with it in one step as well. An accept
under way has two history flags, for an edit during its last compile and for a reject.

**ToolBroker.** The broker's methods are operators on a view `h` of its state, since they
call each other (`OnCall` may `Enqueue`, which may take a `PumpTurn`, which may
`Process`, which may `Close`); an action applies one chain of them. Each connection
is two FIFO channels with EOF at the end.

**PartTimeline.** A feature is one step. `Suppress`, `Stop` and `Eval...` are the ways of
`PartEval::feature`; what `evaluate` hands back (bodies, regions, tools, report, or a
code) is an outcome record, and `Report` is what `feature` and `fail` then keep of it.
Geometry is cut down to a line of cells: a body is an interval, so that overlap, shared
faces, splits and merges happen, with the functions of `forge-ops` (`Join`, `Cut`,
`Intersect`, `CommitOp`) on top. Where the kernel may refuse, the step may choose to: the
thin walls, retries and measures of a fillet, chamfer or shell are this one choice. A hole
without targets keeps whether its face is one (`one`), so that a pattern of it may be
refused as ambiguous later in the timeline.

**Params.** A parameter is its position in declaration order; of an expression the
identifiers in source order are kept. Each turn of a loop of `ParamGraph` is a step
(`Build`, `Order`, Tarjan's `StartRoot`, `Descend`, `Return`); the breadth-first searches
are functions whose `Turn` takes one parameter from the queue. `ParamPromise` knows only what the parameters need from each other: every
step settles one parameter whose needs are settled, or one that is in trouble; which
one of a cycle is named is left open. `Params` implements it with `results` mapped by
`Settled`, all steps but `Evaluate` and `Block` being stutters.

**References.** One resolution is a pure function, `Resolve`, in the order of
`resolve_with`: `ThroughKeys` takes one captured key after the other (`ValidateKey`,
`ValidateOne`, `DroppedMember`, `Fallback`), `Rest` adds what the query selects beyond
them, `CheckCard` is the cardinality of the whole. The steps are the edits, which move to
any other of `Scopes`, and the commands. A face is an interval of a carrier, so that it
can be cut, split, moved and replaced; equal centroids on one carrier score the ratio of
the sizes, other centroids less than what is plausible, other carriers nothing. The
third axis separates nothing, so four directions remain. `read` is the candidate a user
has read, in a report that edits may have made old: its member and key, with its place or
without, with its probe or without, as `accept_ref_candidate` allows all four.

## 3. Runs

Each property has a mutant of the code in its module (marked *Mutant* there): the property
fails on it under the same run, so no property holds for want of interesting states. What a
proof gives for all constants and another property of the run implies is not run once more:
types, `StacksFit`, `BlockedIsInTrouble` and `SentInOrder` are proved (section 4) and their
failure would also break `KeepsUndoLog` or a `KeepsPromise`. Bounded models stop when their bounds are used
up, so the runs do not check deadlock; `Settles`, `StopEndsRun`, `RunsEnd` and
`EveryCallIsAnswered` say instead what must not get stuck.

| run | states | shows |
| --- | --- | --- |
| `host_runs` | @host_runs@ | two runs, two workers, a CLI group, crashes, stop timeouts, exits at any later time: the host implements `AgentPromise`; no run goes on untracked but a disowned one; an exit kills only its own groups; a stopped run ends and reported groups die |
| `host_late_exit` | violation | see 6 |
| `doc_pipeline` | @doc_pipeline@ | three runs in flight, loads, recomputes, engine switches, failing service: idle means the latest source; the pipeline settles |
| `doc_saves` | @doc_saves@ | an IR JSON file, two writes and an open under way, a service that may reject, edits meanwhile: clean means on disk unless overtaken; merges, undo and redo: the stacks split no pair and implement a log of whole texts |
| `ir_transactions` | @ir_transactions@ | loads and transactions of two ops over an engine that answers late, refuses or is switched, undo and redo in between: a transaction commits whole or not at all, captures are of the committed geometry, parameters follow the document; each change is one step of a log |
| `review_runs` | @review_runs@ | two starts and two `setAccepted` under way, an accept and rejects: the active run is alive, a proposal that waits stays, variant and preview are those of the ticks |
| `review_accepts` | @review_accepts@ | two runs in turn, two changes, an accept, an edit at any time: the document changes by edits and by reviewed changes on the document as it is; runs end, reviews become ready |
| `broker_calls` | @broker_calls@ | two shims, three calls, limits of two: one handler, the budget, close; every call is answered |
| `part_timeline` | @part_timeline@ | all timelines of two menus, up to two features in trouble: failures pass the input through, tools and reports are exact, a pattern lists what its seeds changed by origin, operand order is irrelevant |
| `params` | @params@ | all graphs of three parameters: order, components, cycles, failures and their causes; the promise is kept |
| `references` | @references@ | eight references, nineteen versions of a part: members keep faces of their own, splits are not used by one piece, commands are exact |
| `reference_split` | violation | see 6 |

**Why the bounds are enough.** Two workers give a replaced one and its successor, two runs the
run of each; only the first run is `Talkative` (has an event besides its end), as the order
of events within a run is that of one channel. That a worker refuses a start because it is
busy would take a third run; the proofs have it. The pipeline's guards
compare a run with the current revision only, so an outdated run, a current one and a
third (forced) cover the cases; the four sources are the starter, one that differs in
comments only (same IR), another IR and one with errors. The sources of `doc_saves` are one
surrogate pair each and share the high or the low half, so that every replaced range has
to be widened at its start or its end; three changes with a limit of two transactions cut
the stack, merge into the last, cancel it out, undo and redo. In
`ir_transactions` one model can be written back and one cannot, the document to load has
geometry that is not solved, two ops are a capture before or after an edit, and four changes
with a limit of two transactions cut the stack, undo and redo; with one engine switch a
transaction or a load ends with an engine that has no command layer. Two changes are the
least that can be partly accepted, and one is enough where two calls race. `doc_saves` has
one path, of IR JSON: it is the form whose data may be of an older source, and two paths, or
a second file of source text, exceed what TLC explores in minutes; `CleanCorrect` has
any number of either. Limits of two in the broker let a queued call find the limit
reached; the bad call is refused and counted. `MaxQueue`, `MaxFrames`, `MaxPreviews`
and `ProcsTaken` bound what is under way, and are named as bounds where they stand. The
scopes of `references` are the ways a face can be found again or not (cut, split in the
sketch, both, moved, redrawn, replaced by its own or by another feature, merged,
suppressed, failed), each beside a second face that may be a member too; the references
name one face, unite two, choose among two, or take all of a feature, with each kind of
cardinality. Commands nest queries; `MaxNesting` lets them wrap and peel what was written.

**Assumptions.**
- `Recomputes = FALSE` only keeps `doc_saves` small; the proof does without.
- `switches = 0` in `ParamsAreCurrent`: section 6 has the case of a switch.
- `BufferAssumption`: fewer events precede the reply to `start` than the buffer keeps
  (1000 in the code).

**Histories.** Three properties name a case in which the code does not keep them, and hold in
every other: `NoOrphanRun` but for runs in `disowned`, `CleanIsOnDisk` unless `overtaken`,
`DocumentChangesAreReviewed` but for an accept that is `edited` or `rejected`. These variables
record that the case occurred; no guard reads them, and the runs reach it. Section 6 says
what the code does then.

**Fairness.** Only what the runtime guarantees. Node fires an armed timer, delivers messages of
a live channel and exit notices (`AgentHost`, `DocStore`); a SIGTERM handler runs once
the loop turns. A compile or an evaluation that was sent is answered or rejected: the
service rejects what is pending when its worker is lost, and an engine call ends with its
process. The agent ends its run (budget and deadlines in the orchestrator), in
`RunsEnd` only; nothing is assumed of it in `StopEndsRun`. In the broker a handler
returns or meets its deadline, which is one disjunction: neither is certain alone.
No fairness is given to the user, to a worker's progress, to the vendor's CLI or to
`close`.

## 4. Proofs

Checked by TLAPS for all values of the constants.

**AgentHostProofs.** `TypeCorrect`; `ExitKillsOwn` (`ExitKillsOwnGroups`); `GroupsCorrect`
(`GroupsOfCurrentWorker`: the remembered groups are the current worker's), on which the
second rests. It is not inductive: a report is under way while its worker is replaced,
and what it will write to the host's memory must be known. The invariant is

    GroupsInv == TypeOK /\ GroupsOfCurrentWorker /\ ReportsOwnGroups

with `ReportsOwnGroups` saying that a report in any channel names groups of the worker
that posted it; `OnWorkerMessage` drops reports of replaced workers, so what is stored is
the current worker's. `ExitKillsOwn` follows from it: `OnExit` is the only step to *gone*,
and `OwnsGroups` with the invariant leaves only the exiting worker's groups.

In the same module, `OrderCorrect` (`SentInOrder`): the renderer gets a run's events with
ascending sequence numbers and nothing after its terminal event, for any workers, runs,
crashes, late exits and stop timeouts. `OrderInv` describes everything that is still on
its way: commands, the run at work and the posted events of one worker form one flow, in
which a run appears in one worker only (`Known`), numbers ascend (`Ascending`), a run that
has not begun has no events (`Fresh`), and what the host has sent is below what can still
come (`SentBelow`). The host sends a run's terminal event itself only when it forgets
the run, and drops what comes later. `KeepsPromiseHolds` is the refinement: `StepTold` shows
that a step sends at most one event, of the active run and, by `OrderInv`, with a number
above those sent; it is terminal exactly when the host forgets the run. `OneStart` adds that
a start waits for detection only while no run is under way.

`NoOrphanRunHolds` is about the worker the host talks to, however late the others exit.
`OrphanInv` adds to `OrderInv` that this worker works on, or has a start before it of, the
active run or a disowned one only (`Tracked`), and that it is done with the active run before
the terminal event is on its way; so the host never forgets a run that goes on, but by the
notice of another worker. `OneStart` is what two starts that await detection would break.
That an exit ends its own run only is not proved, as it is false (section 6).

**HistoryProofs.** Lemmas about the stacks, for any texts, and two results on `diffText`:
`DiffTurns` (the edit turns one text into the other and its inverse turns it back) and
`DiffIsWhole` (between texts without lone surrogates it splits no pair). That the longest
common prefix and suffix are common follows from the cardinality of intervals, since
induction over the texts is out of the prover's reach. For the stacks: one stack of
edits stands for at most one stack of texts, and `PushMeans`, `MergeMeans`, `UndoMeans` and
`RedoMeans` say what each method does to these texts.

**DocStoreProofs.** `StacksCorrect` (`StacksFit`), `UndoCorrect` (`KeepsUndoLog`, the refinement)
and `PairsCorrect` (`PairsAreWhole`, for sources without lone surrogates), for every set of
texts and every limit. The invariant `HistoryIn(E)` says that both stacks stand for texts
among the sources and that their edits are in `E`: every transaction for the first two,
those that split no pair for the third. For the refinement the chosen `Past` and `Future`
are the texts the invariant speaks of, since there is only one such stack.
`CleanCorrect` (`CleanIsOnDisk`), for any number of writes under way, edits, loads and failing
compiles. `FilesInv` says that a write whose revision is still the document's holds the
document (`SavesKnown`), also when it holds the source an IR JSON came from, which must then
be the current one (`CompileKnown`); that what is being opened is what the file has unless a
write ended meanwhile (`OpensKnown`); and that the saved source is on disk unless
`overtaken` (`SavedOnDisk`).
`IdleCorrect` (`IdleDescribesSource`), for any number of edits, loads, switches
and runs in flight, and `TypeCorrect`. `DocInv` adds to the types

- `CompilingKnown`: a run that is not stale holds the current source;
- `EvaluatingKnown`: an evaluation that is not stale belongs to the compile state, which
  is that of the current source;
- `ReportKnown`: the report is that of the IR evaluated last, and an IR that was
  evaluated without a report left an error;
- a file that is being read exists (otherwise a load might set no source).

A new revision makes every run stale, so edits and loads keep the first two
vacuously; `ReportKnown` is what makes the skip of an unchanged IR sound.

**IrProofs: the document.** `CommitsCorrect` (`CommitsAreWhole`), `CapturesCorrect`
(`CapturesAreStored`), `ParamsCorrect` (`ParamsAreCurrent`), `UndoCorrect` (`KeepsUndoLog`, the
refinement) and `TypeCorrect`, for any documents, ops, queue and limit. The invariant has an
argument for each. The document stays the base of the running transaction, since `busy` keeps
undo and redo out and the queue keeps out the rest; so every commit takes effect, as one edit
of the log. What the working document says is what the last edit among the ops that
have settled said, unless one was refused, and then nothing is committed. While no edit
follows the last capture, captured and stored geometry agree, and the document is at its
fixed point or cannot be written back: the capture ran on the written-back document, so the
write-back at the end changes nothing. And whenever the parameters shown are not the
document's, a refresh is queued or an answer for this very document is awaited.

**IrProofs: references.** `MembersStand` (`MembersAreAccounted`), `AnchorsAreWhole`
(`AnchorIsNotAlone`), `CommandsKeepTheReference` (`CommandsAreExact`) and
`ReferencesAreWritten`, for any set of parts, any references written without a capture
and any bound on queries. Of a part it is assumed (`WellFormed`) that its faces are
finitely many, each with an extent, and that two of one body and key have points of
their own: otherwise `Scope::canonical` has no order for them.

The state needs little: `RefInv` says that the reference is a written one, or one whose
capture lists fingerprints with ends in order. What is hard is one resolution, in which
the code visits one captured key after the other with a builder. Three facts about the
builder are carried from key to key:
- `SoundSoFar`: unless it has failed, nothing is unresolved, all that is used is consumed, and
  all of it is in the part. A step fails for good or only adds (`Follows`): a face that is
  used stays used, one that was repaired or split stays marked;
- `Accounts`: of the members visited and alive, all but as many as were told as removed
  have a face each: one with their key that the query selects, or one that no captured
  key designates, of the same feature and extent, and marked. No two share one:
  faces with a key are matched one to one (`Assign`), and a repair takes a free face;
- `KeyDone`: every face with the key that the query selects is used, and a key that one face
  carries, with its pieces.

`MembersStand` and `AnchorsAreWhole` are these facts at the end. For the commands it takes
`ReadBackIsExact`: a capture that is resolved in the part it was made in, and of which nothing
is missing and nothing new, is exact. The captured order agrees with the canonical one, so
the greedy matching pairs each captured piece with itself (`AssignKeepsPlaces`: its score is
the highest there is, and among pieces that coincide the order decides as it did when they
were captured), and nothing gained or lost a neighbour. That the set is the one it should be
the commands check themselves (`ResolvesTo`); that a synthesized query selects the face it was
made for is `SynthesizeNames`, that a call without a probe takes the only face it can mean is
`OnlyOffered`, and that a rewritten one is the old one or selects what was
used is `RewriteIs`.

What the proofs found out about the model and the code:
- `CommandsAreExact` is not true of every part: when a face still carries a key that was
  merged into another, `captureRef` makes a capture that tells `REF_MERGED` at once, so
  the reference is accepted and not exact. `MergedAway` excludes that case, for what
  the commands give exactly, and the run has a part of this kind;
- a face that stands for a member by repair may be marked as a split by a later key;
- bodies that coincide in all their points are told apart by their order alone, which
  `canonical` and `best_match` must share;
- two attempts of `narrow` were cases that both could hold; the first is now taken first.

**AgentServiceProofs.** `RunsInvariant`, on which everything rests, is about streams. The events
of a run are under way, or kept for a run the app does not know yet, or handled. `RunsInv`
says that those kept and those under way are one stream in the agent's order, and that the
end of a run which is over is in it until it is handled (`RunOrder`); that a run that has
not begun is silent (`UntoldSilent`); and that early events fit the buffer (`BufferFits`). When
the reply to `start` comes, the kept events are replayed in one step; the proof handles them
as if they were still under way, ahead of the others, so that one lemma on handling an event
serves both. That what each event keeps is kept by the replay is an induction on its length,
for which the prover has no rule: `Induction` gets it from cardinality, since moving the
numbers below the first failing one up by one would fit a finite set into a smaller one.
`ActiveRunAlive` (`ActiveRunIsAlive`) follows.

`ReviewInv` adds that a run's proposal is prepared once, after its end (`PreparesOnce`), that a
`setAccepted` under way is about the proposal it was called on (`PicksFit`), and that
an evaluation that is still the latest is of the variant shown (`PreviewFits`); `TicksMatch`
(`VariantMatchesTicks`) and `GhostIsOfVariant` (`PreviewShowsVariant`) follow for any number of
either under way. `PendingStays` (`PendingReviewStays`), for any number of starts and accepts,
needs `HeldInv`: at most one proposal is the one to prepare (`latest`), and while a proposal
waits for the user it is that one, of a run that is done. A draft of another run therefore
finds the review pending and is dropped, and another run's end does not touch it; only
`#onResult` of another run's proposal puts a *preparing* review in its place.
`ChangesAreMerged` has the first half of `DocumentChangesAreReviewed` for any number of
accepts: `MergesInv` says that what an accept will write is the ticked changes on the document
it saw, and that this is the document as it is unless it was edited during the last compile.

**ToolBrokerProofs.** `OneHandlerCorrect`, `CallBudgetCorrect`, `OneConnectionCorrect`,
`NothingStartsCorrect`, all from `BrokerInv`, which says of the view `Host`:

- `HandlersSafe`: the call the pump awaits is the only one at work, and while the broker is
  open no other is. After a deadline the handler goes on, but the broker is no
  longer open, and that is why no second one starts;
- `BudgetSafe`: handlers started do not exceed the counter, counters stay within `maxCalls`;
- `ConnSafe`: an authenticated connection is the served one.

`ClosingCorrect` (`ClosingIsAnnounced`) has an invariant of its own, `AnnounceInv`: in what a
shim has still to read the closed frame, once sent, stays until it is read, since the broker
only appends and the shim takes from the front; and whoever connects while the broker
closes is sent it with the hello.

`NotExecutedCorrect` (`NotExecutedMeansNotRun`) rests on `PlacesInv`: a call is in one place at
most. It waits in a frame of the shim that issued it, once; or in the queue, once; or it was
run; or the model was told, or will be by a frame on its way, that it was not executed. A
frame read, a turn of the pump and a cancel each take the call out of its place before they
put it into another. That filtering the queue keeps its calls once and adds none is proved by
`Induction`, as the replay of events above.

Each operator on the view has a lemma that it keeps these, so the proof follows the
calls of the code.

**PartTimelineProofs.** Six of the seven properties of PartTimeline (not `PatternListsOrigins`), for every timeline and every number of
bodies and operands, under two assumptions on the documents: `TimelinesAreValid` (ids name
features, operations are those there are: what validation leaves) and `GeometryIsOfIntervals`
(a region or a position is one interval of cells, copies move by whole cells: the
abstraction). TLC evaluates both on the run's timelines.

*Statuses and seeds.* `OkRestsOnOkHolds`, `SeedsAreExactHolds`, `FailurePassesThroughHolds` come
from `IInv`, which adds that features not yet evaluated are as in `Init` and that an info and
a sketch agree; the lemmas (`...Good`) say of each feature's outcome which of bodies, aliases
and seed it can have when it fails. The case that needs an argument is the sweep: it fails
with its tools in hand, and `SeedAfter` drops them; and the pattern, whose `Restored` gives
the input back.

*Reports.* `RemovedIsExactHolds` and `ReportIsTheChangeHolds` come from `TInv` (bodies are
bodies, kept tools are seeds, drawn regions are intervals), which is not inductive without
the geometry: pieces of intervals, copies and blends are intervals again (`PiecesAre`,
`Shifted`, `Shortened`). `Accounts` says what a body operation owes its targets: the origin of each
one it touched is in its result, among the removed, or on a target left alone. A join owes it to
`TargetInPiece` (each joined component holds a target, as no tool misses all of them), a cut
and an intersection to `CarveAccounts`. `Commits` carries this to the part, and `RunIs` over
the seeds of a pattern, one after the other. What is listed is counted (`Count`), body by
body, so equal pieces of a split count twice. `ReportIsTheChange` is an equation: for each
body, how often the part has it is how often it is among those not acted on (`Rest`) and
listed. `ApplyOpTouches` says that a body operation leaves untouched exactly the targets it
does not act on (a join those no tool and no other target reaches, a cut those no
tool meets), and `CommitKeeps` that these stay where they were; the rest is `Listings`. Patterns
are not in it, see section 6.

*Operands.* `OperandOrderIsIrrelevantHolds`: `Before` is a strict order on bodies
(`BeforeIsStrict`), so the body at each place of a canonical sequence is fixed by how many
come before it (`SlotIs`), hence by how often each body is there (`SameOrder`). Reordered
operands have the same cells, components of the same size, the same first target in each
(`KeepSame`) and the same pieces at other positions (`CarvedMatch`). The lemma `ApplyOpSame` has
this for any reordering of targets and tools; the property is about their reversal, and
`MaxOperands` only bounds what TLC looks at.

**ParamsProofs.** `OrderIsLeastHolds`, `BlockedIsInTroubleHolds`, `OkRestsOnOkHolds`, the
refinement `KeepsPromiseHolds`, `CyclesAreFoundHolds` and `RootCauseHolds`: all the
properties of Params, for every document and every failure.

*Order and values.* `IInv` says of each phase what the next one takes for granted: while the graph is built, that `deps` of the parameters
passed are exactly their needs, each once; while it is ordered, that `missing` counts the
needs not in `order` and `ready` are those with none; while it is evaluated, that results
are those of a prefix of the order. That what is left out is in trouble follows from
`missing`: each of the rest needs another of the rest.

*Components.* `TarjanInv` describes the search while it runs: what is on the stack
and in no component, what each frame of the path has looked at, that links are low enough
(`LinksAreLow`) and that what they stand for is reached (`LinksAreReached`), and that the
components closed so far are whole classes from which nothing leads out
(`ClassesAreClosed`). `CloseStep` has the argument: when a frame's link is its own index,
nothing on the stack above it leads below it, and all of it is reached and reaches back.

*Cycles.* `SearchIs` says what a breadth-first search returns: a walk to a nearest goal
(the queue holds walks, the shorter first, and all that is as near as its head was
seen), or nothing, and then what it saw is closed and has no goal. That the turns
suffice is a count: one more than the parameters seen, less those that wait. With it a
component with a cycle is told by a shortest one (`CycleIsShortest`): whoever goes round
stays in the component (`RoundStays`), so no walk outside can be shorter. `SitesAreFirst`
gives the field.

*Root cause.* `RootInv` says what each result names: an ordered one a parameter that
failed by itself, a blocked one a member of a cycle. That there is one to name is
`BlockedReachesCycle`: of the blocked parameters it reaches, one that reaches fewest
needs a blocked one that reaches as many, hence itself.

The recursive functions of the model (`Reach`, `Keeping`, `Search`) are unfolded with
`Induction` and `Iterates`, which are proved from the cardinality of intervals.

**Model-checked only.** Liveness (`Settles`, `StopEndsRun`, `ReportedGroupsDie`, `RunsEnd`,
`EveryCallIsAnswered`) is out of the prover's reach. `PatternListsOrigins`, and the half of
`DocumentChangesAreReviewed` that says which review an accept resolves: it holds for one accept
at a time only (section 6).
Induction over the members of a capture and over the keys is done on numbers (`Induction`,
from the cardinality of intervals); queries are nested, and `ReadBackIsExact` needs of them
only that `Eval` is a function of part and query.

## 5. What could come next

1. *Gateway* with the budget; *CliProcess* with its events and signals; *WorkerRpc*.
2. *EngineManager* with the cache of engine promises and the fallback order of `auto`.
3. *CliRuntime* and *DesignSession* on top of ToolBroker: drain, checkpoints, rollback.
4. References to edges, vertices and bodies; tags and forks of the naming tables.
5. Proofs: that resolution fails only for a reason (a split, a tie, a missing name).

## 6. Where code and text disagree

With a run that ends in a counterexample:
- **`reference_split`** (`resolve.rs`, `validate_key`). When several faces of the result carry
  the captured key they are taken as the split, and pieces with new keys are not looked
  for: a face that was split by its curve and by a cut is used without the curve's piece,
  where the specification says that a split is used whole or fails.

- **`host_late_exit`** (`host.ts:411`). After a stop timeout the killed worker's exit notice may
  come when the next run is active: the listener sends `WORKER_EXITED` for that run and
  forgets it, while its worker goes on with it. The check for late exits two lines above
  covers the CLI groups only. `docs/AGENT-IN-APP.md:41` says that a crash ends the run it
  happened in only.

Seen while modelling, without a run that fails on it (the first three are the cases of the
history variables of section 3):
- `markSaved` marks the source of the moment, not what was written: an edit made during the
  write is marked as saved (`commands.ts:114`), where `doc-store.ts:40` calls it the source as
  last saved or loaded. After a service failure `currentIr` saves the IR of an earlier source
  (`commands.ts:76`), and the error stays when the next compile skips the evaluation
  (`doc-store.ts:270`);
- `file.open` loads what it read before further awaits (`commands.ts:84`, `:95`): over edits
  made after its question was answered, and an older text when the file was saved
  meanwhile;
- `accept` compares the document before its last compile and not after it: an edit made
  during the compile is overwritten (`agent-service.ts:543`), where the error of `:536` would
  have told the user to try again; and after a reject during the accept the changes are
  written although the review says rejected;
- a switch to an engine without command layer leaves parameters as they are: an undo, or a
  load that finishes after it, then shows those of the earlier document
  (`ir-doc-store.ts:392`), which `:78` says are refreshed after each change;
- `IR_DOCUMENT_CHANGED` (`ir-doc-store.ts:315`) is unreachable: nothing changes the document
  while a transaction is busy, which is what the first argument of `IrProofs` shows;
- `Acc::merge` keeps one modified entry per origin: when a pattern's cut splits a body, its
  pieces share the origin and only the last is reported (`pattern.rs:114`), and what a later
  seed removes may still be listed. So `ReportIsTheChange` is false of patterns, and
  `PatternListsOrigins` says what is true: each changed origin is listed;
- what a join does with targets that overlap each other and no tool is an open question of the
  code's own (`boolean/mod.rs:1217`); the model does as the code does;
- a captured face that loses a neighbour in the same edit that splits it has as many
  neighbours as before, so the split goes unnoticed (the count is what the specification
  compares, too);
- an evaluation on the old engine has the same revision, so a late answer replaces the
  new engine's report (`doc-store.ts:297`);
- after a seal, an edit that is typed and cancelled at once drops its own transaction and
  leaves the stack unsealed: a next edit in time with the same key merges into the
  transaction closed before (`history.ts:78`, `:95`). `UndoLog` has it as the code does
  (`Continue` to the text before leaves it open);
- a recompute during a run lets `idle()` resolve before the recompute has run
  (`doc-store.ts:303`);
- a forced evaluation is lost when an edit that leaves the IR alone outdates its
  run (`doc-store.ts:292`);
- `stopAll` does not reach a start that awaits detection (`host.ts:350`);
- an accept resolves whatever review is current when it ends (`agent-service.ts:545`, `:554`):
  with two accepts, or two runs, that may be another proposal's;
- two starts in flight at once may both pass the check, and the second run's finished proposal
  takes the place of the first's (`agent-service.ts:273`), which `PendingReviewStays` allows
  by name;
- a reservation is not released when a provider's transport cannot be made
  (`gateway.ts:249`).

## 7. Left out of the modelled parts

AgentHost: what a run does inside the worker (its events are progress or an end), the
quit of the app, and the wording of
prechecks (one refusal stands for all). DocStore: selection, parameters; a write lands when it is answered, and one open is
under way at a time. History: labels,
origins, and the clock (an edit may be in time or not). IrDocStore: `preview`, `report` and
`idle`, which only read; labels and outcomes; a write-back of named sketches, and sketches a
write-back withholds. AgentService: `answer` and settings (one call each),
dependency warnings of `proposal.ts`. ToolBroker: tickets and malformed frames (denied like
any protocol error), and the credit that user waits give a deadline (a deadline may
come at any time). Process group ids are not reused in AgentHost. PartTimeline: geometry
beyond intervals (an edge contact, a face, a measure), the parameters of import, revolve
and sketches, and why the kernel refuses. Params: parsing, types and arithmetic of
expressions (a value or a bound fails by itself or does not), and overrides. References:
edges, vertices and bodies, junction swaps, tags, the other forms of queries, probes that
fail, confidences, and the commands that do not
rewrite a reference.
