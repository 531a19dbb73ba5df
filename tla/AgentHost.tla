----------------------------- MODULE AgentHost -----------------------------
(***************************************************************************)
(* The desktop side of an agent run: the main process (`AgentHost`) and    *)
(* the utility processes it forks (`AgentRunner`), with the channels       *)
(* between them.  The renderer is an environment that invokes start, stop  *)
(* and answer, and takes the events the host sends it (AgentService models *)
(* it with its own state).                                                 *)
(*                                                                         *)
(* An event is reduced to its run, its sequence number and whether it ends *)
(* the run: "end" stands for a result and for every error, "progress" for   *)
(* the rest.  The id of a CLI process group is not reused.                  *)
(***************************************************************************)
EXTENDS Integers, Sequences, FiniteSets

CONSTANTS Runs,        \* run ids
          Workers,     \* utility processes, forked as needed
          Groups,      \* ids of CLI process groups; none: no run uses a CLI
          None,        \* JavaScript's null
          Talkative,   \* bound: the runs that tell more than their end
          MaxSeq,      \* bound: events such a run tells before its end
          MaxQueue     \* bound: messages under way to a worker

ASSUME NoneAssumption == None \notin Runs \cup Workers
ASSUME BoundsAssumption == MaxSeq \in Nat /\ MaxQueue \in Nat \ {0} /\ Talkative \subseteq Runs

VARIABLES
    starting,     \* how many calls of start await detection (#starting: it is not 0)
    hostWorker,   \* AgentHost.#worker
    hostRun,      \* AgentHost.#run
    lastSeq,      \* ActiveRun.lastSeq of hostRun
    stopTimer,    \* ActiveRun.stopTimer is armed
    groups,       \* AgentHost.#cliGroups
    groupsOwner,  \* AgentHost.#cliGroupsOwner
    started,      \* run ids handed out so far
    sent,         \* the last event given to deps.send
    toWorker,     \* [worker -> messages under way to it]
    toHost,       \* [worker -> messages under way from it]
    proc,         \* [worker -> state of the process and of its exit notice]
    job,          \* [worker -> its AgentRunner.#run]
    liveCli,      \* CLI process groups that are running
    spawner,      \* [group -> the worker that started it]
    reported,     \* [worker -> the groups of its last procs report]
    disowned      \* history: runs failed by the exit of a worker that was not theirs

hostVars == <<starting, hostWorker, hostRun, lastSeq, stopTimer, groups, groupsOwner>>
workerVars == <<job, reported>>
cliVars == <<liveCli, spawner>>
vars == <<hostVars, started, sent, toWorker, toHost, proc,
          workerVars, cliVars, disowned>>

ProgressKinds == {"progress"}
TerminalKinds == {"end"}

Event(r, s, k) == [run |-> r, seq |-> s, kind |-> k]
Events == [run : Runs, seq : Nat, kind : ProgressKinds \cup TerminalKinds]

ASSUME EventAssumption == None \notin Events

IsTerminalEvent(e) == e.kind \in TerminalKinds

(* HostToWorker messages; only an answer names a question. *)
ToWorker(t, r, q) == [type |-> t, run |-> r, question |-> q]
HostToWorker == [type : {"start", "stop", "answer"}, run : Runs, question : Nat]

(* WorkerToHost messages: an event, or the live CLI groups. *)
EventMsg(e) == [type |-> "event", event |-> e]
ProcsMsg(gs) == [type |-> "procs", pids |-> gs]
WorkerToHost == [type : {"event"}, event : Events]
                  \cup [type : {"procs"}, pids : SUBSET Groups]

(* Run of runner.ts; question = 0 means that no answer is awaited. *)
Jobs == [run : Runs \cup {None}, seq : Nat, asked : Nat, question : Nat,
         aborted : BOOLEAN, done : BOOLEAN]
NewJob(r) == [run |-> r, seq |-> 0, asked |-> 0, question |-> 0,
              aborted |-> FALSE, done |-> FALSE]
NoJob == [NewJob(None) EXCEPT !.done = TRUE]

(* liveCliProcessGroups() in worker w *)
Live(w) == {g \in liveCli : spawner[g] = w}

(* AgentRunner.busy *)
Busy(w) == job[w].run # None /\ ~job[w].done

(* The event loop of w turns.  A killed process handles SIGTERM when its loop
   turns next, before it handles any other message. *)
Running(w) == proc[w] = "alive"

TypeOK ==
    /\ starting \in Nat
    /\ hostWorker \in Workers \cup {None}
    /\ hostRun \in Runs \cup {None}
    /\ lastSeq \in Nat
    /\ stopTimer \in BOOLEAN
    /\ groups \in SUBSET Groups
    /\ groupsOwner \in Workers \cup {None}
    /\ started \in SUBSET Runs
    /\ sent \in Events \cup {None}
    /\ toWorker \in [Workers -> Seq(HostToWorker)]
    /\ toHost \in [Workers -> Seq(WorkerToHost)]
    /\ proc \in [Workers -> {"unborn", "alive", "killed", "exited", "gone"}]
    /\ job \in [Workers -> Jobs]
    /\ liveCli \in SUBSET Groups
    /\ spawner \in [Groups -> Workers \cup {None}]
    /\ reported \in [Workers -> SUBSET Groups]
    /\ disowned \in SUBSET Runs

Init ==
    /\ starting = 0
    /\ hostWorker = None
    /\ hostRun = None
    /\ lastSeq = 0
    /\ stopTimer = FALSE
    /\ groups = {}
    /\ groupsOwner = None
    /\ started = {}
    /\ sent = None
    /\ toWorker = [w \in Workers |-> <<>>]
    /\ toHost = [w \in Workers |-> <<>>]
    /\ proc = [w \in Workers |-> "unborn"]
    /\ job = [w \in Workers |-> NoJob]
    /\ liveCli = {}
    /\ spawner = [g \in Groups |-> None]
    /\ reported = [w \in Workers |-> {}]
    /\ disowned = {}

-----------------------------------------------------------------------------
(* The host. *)

(* deps.send *)
Send(e) == sent' = e

(* WorkerHandle.postMessage; what is posted to a dead process is lost. *)
Post(w, m) ==
    toWorker' = IF proc[w] = "exited" THEN toWorker
                                      ELSE [toWorker EXCEPT ![w] = Append(@, m)]

(* Mutant: #finish clears the timer only. *)
FinishTimerOnly == stopTimer' = FALSE /\ UNCHANGED hostRun

(* #finish of the active run *)
Finish == hostRun' = None /\ stopTimer' = FALSE

(* Mutant: the number of the last event is used again. *)
KeepSeqTerminal(k) ==
    /\ Send(Event(hostRun, lastSeq, k))
    /\ UNCHANGED lastSeq
    /\ Finish
(* #emit of a terminal event by the host itself: next sequence number, finish *)
EmitTerminal(k) ==
    /\ Send(Event(hostRun, lastSeq + 1, k))
    /\ lastSeq' = lastSeq + 1
    /\ Finish

(* #killCliGroups *)
KillCliGroups ==
    /\ liveCli' = liveCli \ groups
    /\ groups' = {}
    /\ groupsOwner' = None

(* Mutant: a start that awaits detection does not refuse the next one. *)
BusyWithRun == hostRun # None
(* start, up to its first await: refused while a run or another start is on. *)
StartBusy == hostRun # None \/ starting # 0

Start ==
    /\ ~StartBusy
    /\ starting' = starting + 1
    /\ UNCHANGED <<hostWorker, hostRun, lastSeq, stopTimer, groups, groupsOwner,
                   started, sent, toWorker, toHost, proc, workerVars, cliVars, disowned>>

(* #start after detection: the precheck, or the fork, refuses the run. *)
StartRefused ==
    /\ starting # 0
    /\ starting' = starting - 1
    /\ UNCHANGED <<hostWorker, hostRun, lastSeq, stopTimer, groups, groupsOwner,
                   started, sent, toWorker, toHost, proc, workerVars, cliVars, disowned>>

(* #ensureWorker: w is the current worker, or a process forked now. *)
EnsureWorker(w) ==
    IF hostWorker # None
    THEN /\ w = hostWorker
         /\ UNCHANGED <<hostWorker, proc>>
    ELSE /\ proc[w] = "unborn"
         /\ hostWorker' = w
         /\ proc' = [proc EXCEPT ![w] = "alive"]

(* #start after detection, all prechecks passed: run r starts on worker w. *)
StartRun(r, w) ==
    /\ starting # 0
    /\ r \notin started
    /\ EnsureWorker(w)
    /\ hostRun' = r
    /\ lastSeq' = 0
    /\ stopTimer' = FALSE
    /\ started' = started \cup {r}
    /\ Post(w, ToWorker("start", r, 0))
    /\ starting' = starting - 1
    /\ UNCHANGED <<groups, groupsOwner, sent, toHost, workerVars, cliVars, disowned>>

(* answer: posted to the worker when r is the active run. *)
Answer(r, q) ==
    /\ IF hostRun = r /\ hostWorker # None
       THEN Post(hostWorker, ToWorker("answer", r, q))
       ELSE UNCHANGED toWorker
    /\ UNCHANGED <<hostVars, started, sent, toHost, proc,
                   workerVars, cliVars, disowned>>

(* #stopRun: post stop, arm the timer once. *)
StopRun(r) ==
    IF r # None /\ hostRun = r /\ hostWorker # None
    THEN Post(hostWorker, ToWorker("stop", r, 0)) /\ stopTimer' = TRUE
    ELSE UNCHANGED <<toWorker, stopTimer>>

(* stop; stopAll, when a window closes, does the same for the active run. *)
Stop(r) ==
    /\ StopRun(r)
    /\ UNCHANGED <<starting, hostWorker, hostRun, lastSeq, groups, groupsOwner,
                   started, sent, toHost, proc, workerVars, cliVars, disowned>>

(* The stop timer fires: STOP_TIMEOUT, then kill the process and its CLIs. *)
StopTimeout ==
    /\ stopTimer
    /\ hostRun # None
    /\ EmitTerminal("end")
    /\ hostWorker' = None
    /\ proc' = IF hostWorker # None /\ proc[hostWorker] = "alive"
               THEN [proc EXCEPT ![hostWorker] = "killed"]
               ELSE proc
    /\ KillCliGroups
    /\ UNCHANGED <<starting, started, toWorker, toHost, workerVars, spawner, disowned>>

(* Mutant: whoever exits, the remembered groups are killed. *)
AnyGroups(w) == TRUE
(* Mutant: groups with an owner are never killed. *)
OrphanGroups(w) == groupsOwner = None

(* onExit: the remembered groups are w's to kill, or there are none. *)
OwnsGroups(w) == groupsOwner \in {None, w}

(* onExit of worker w. *)
OnExit(w) ==
    /\ proc[w] = "exited"
    /\ proc' = [proc EXCEPT ![w] = "gone"]
    /\ hostWorker' = IF hostWorker = w THEN None ELSE hostWorker
    /\ IF OwnsGroups(w)
       THEN KillCliGroups
       ELSE UNCHANGED <<liveCli, groups, groupsOwner>>
    /\ IF hostRun # None
       THEN EmitTerminal("end")
       ELSE UNCHANGED <<hostRun, lastSeq, stopTimer, sent>>
    /\ disowned' = IF w = hostWorker THEN disowned ELSE disowned \cup ({hostRun} \ {None})
    /\ UNCHANGED <<starting, started, toWorker, toHost, workerVars, spawner>>

(* #onWorkerMessage: messages of a replaced worker, and events of another run,
   are dropped; an event goes on unchanged, a terminal one ends the run. *)
ForwardEvent(e) ==
    /\ Send(e)
    /\ lastSeq' = IF e.seq > lastSeq THEN e.seq ELSE lastSeq
    /\ IF IsTerminalEvent(e) THEN Finish ELSE UNCHANGED <<hostRun, stopTimer>>

OnWorkerMessage(w) ==
    /\ toHost[w] # <<>>
    /\ toHost' = [toHost EXCEPT ![w] = Tail(@)]
    /\ LET m == Head(toHost[w]) IN
         \/ /\ w = hostWorker /\ m.type = "procs"
            /\ groups' = m.pids
            /\ groupsOwner' = w
            /\ UNCHANGED <<hostRun, lastSeq, stopTimer, sent>>
         \/ /\ w = hostWorker /\ m.type = "event" /\ m.event.run = hostRun
            /\ ForwardEvent(m.event)
            /\ UNCHANGED <<groups, groupsOwner>>
         \/ /\ w # hostWorker \/ (m.type = "event" /\ m.event.run # hostRun)
            /\ UNCHANGED <<hostRun, lastSeq, stopTimer, groups, groupsOwner, sent>>
    /\ UNCHANGED <<starting, hostWorker, started, toWorker, proc,
                   workerVars, cliVars, disowned>>

-----------------------------------------------------------------------------
(* A worker. *)

(* Run.emit, once per action: nothing after the run is done. *)
Emit(w, j, k) == Append(toHost[w], EventMsg(Event(j.run, j.seq + 1, k)))

(* handle(start): a worker that is busy fails the new run, not the old one. *)
HandleStart(w) ==
    /\ Running(w)
    /\ toWorker[w] # <<>> /\ Head(toWorker[w]).type = "start"
    /\ LET r == Head(toWorker[w]).run IN
         IF Busy(w)
         THEN /\ toHost' = [toHost EXCEPT ![w] = Emit(w, NewJob(r), "end")]
              /\ UNCHANGED workerVars
         ELSE /\ job' = [job EXCEPT ![w] = NewJob(r)]
              /\ reported' = [reported EXCEPT ![w] = {}]
              /\ UNCHANGED toHost
    /\ toWorker' = [toWorker EXCEPT ![w] = Tail(@)]
    /\ UNCHANGED <<hostVars, started, sent, proc, cliVars, disowned>>

(* handle(stop): abort, and answer an open question with its defaults. *)
HandleStop(w) ==
    /\ Running(w)
    /\ toWorker[w] # <<>> /\ Head(toWorker[w]).type = "stop"
    /\ job' = IF job[w].run = Head(toWorker[w]).run
              THEN [job EXCEPT ![w].aborted = TRUE, ![w].question = 0]
              ELSE job
    /\ toWorker' = [toWorker EXCEPT ![w] = Tail(@)]
    /\ UNCHANGED <<hostVars, started, sent, toHost, proc,
                   reported, cliVars, disowned>>

(* handle(answer): only the open question of the current run takes it. *)
HandleAnswer(w) ==
    /\ Running(w)
    /\ toWorker[w] # <<>> /\ Head(toWorker[w]).type = "answer"
    /\ LET m == Head(toWorker[w]) IN
         IF /\ job[w].run = m.run /\ job[w].question # 0 /\ job[w].question = m.question
         THEN /\ toHost' = [toHost EXCEPT ![w] = Emit(w, job[w], "progress")]
              /\ job' = [job EXCEPT ![w].seq = @ + 1, ![w].question = 0]
         ELSE UNCHANGED <<toHost, job>>
    /\ toWorker' = [toWorker EXCEPT ![w] = Tail(@)]
    /\ UNCHANGED <<hostVars, started, sent, proc, reported, cliVars, disowned>>

(* Bounds of the model: this run tells more than its end, and not too much. *)
MayTalk(w) == Busy(w) /\ job[w].run \in Talkative /\ job[w].seq < MaxSeq

(* The run emits an event that changes nothing in the worker. *)
Progress(w) ==
    /\ Running(w) /\ MayTalk(w)
    /\ toHost' = [toHost EXCEPT ![w] = Emit(w, job[w], "progress")]
    /\ job' = [job EXCEPT ![w].seq = @ + 1]
    /\ UNCHANGED <<hostVars, started, sent, toWorker, proc,
                   reported, cliVars, disowned>>

(* Run.ask: the question is announced; after an abort its defaults are taken. *)
Ask(w) ==
    /\ Running(w) /\ MayTalk(w) /\ job[w].question = 0
    /\ toHost' = [toHost EXCEPT ![w] = Emit(w, job[w], "progress")]
    /\ job' = [job EXCEPT ![w].seq = @ + 1, ![w].asked = @ + 1,
                          ![w].question = IF job[w].aborted THEN 0 ELSE job[w].asked + 1]
    /\ UNCHANGED <<hostVars, started, sent, toWorker, proc,
                   reported, cliVars, disowned>>

(* The end of #start: result or error, then the last procs report.  Every CLI
   call was awaited, so no group of the worker runs any more. *)
RunEnds(w) ==
    /\ Running(w) /\ Busy(w) /\ job[w].question = 0 /\ Live(w) = {}
    /\ toHost' = [toHost EXCEPT ![w] =
                    IF reported[w] # {} THEN Append(Emit(w, job[w], "end"), ProcsMsg({}))
                                        ELSE Emit(w, job[w], "end")]
    /\ job' = [job EXCEPT ![w].seq = @ + 1, ![w].done = TRUE]
    /\ reported' = [reported EXCEPT ![w] = {}]
    /\ UNCHANGED <<hostVars, started, sent, toWorker, proc, cliVars, disowned>>

(* A CLI call starts in its own process group, or ends. *)
SpawnCli(w) ==
    /\ Running(w) /\ Busy(w) /\ ~job[w].aborted
    /\ \E g \in Groups :
         /\ spawner[g] = None
         /\ spawner' = [spawner EXCEPT ![g] = w]
         /\ liveCli' = liveCli \cup {g}
    /\ UNCHANGED <<hostVars, started, sent, toWorker, toHost, proc, workerVars,
                   disowned>>

CliEnds(g) ==
    /\ g \in liveCli
    /\ liveCli' = liveCli \ {g}
    /\ UNCHANGED <<hostVars, started, sent, toWorker, toHost, proc, workerVars,
                   spawner, disowned>>

(* Bound of the model: the previous procs report was delivered (the timer of
   the reports has a period of 500 ms). *)
ProcsTaken(w) == \A i \in DOMAIN toHost[w] : toHost[w][i].type # "procs"

(* reportProcs on its timer: only a changed list is posted. *)
ReportProcs(w) ==
    /\ Running(w) /\ Busy(w) /\ ProcsTaken(w)
    /\ reported[w] # Live(w)
    /\ toHost' = [toHost EXCEPT ![w] = Append(@, ProcsMsg(Live(w)))]
    /\ reported' = [reported EXCEPT ![w] = Live(w)]
    /\ UNCHANGED <<hostVars, started, sent, toWorker, proc, job, cliVars, disowned>>

(* The process ends: its memory and what is under way to it are lost, what it
   has posted may still arrive. *)
Exit(w) ==
    /\ proc' = [proc EXCEPT ![w] = "exited"]
    /\ job' = [job EXCEPT ![w] = NoJob]
    /\ reported' = [reported EXCEPT ![w] = {}]
    /\ toWorker' = [toWorker EXCEPT ![w] = <<>>]
    /\ UNCHANGED <<hostVars, started, sent, toHost, spawner, disowned>>

(* SIGTERM is handled: the worker kills its CLIs and exits. *)
HandleSigterm(w) ==
    /\ proc[w] = "killed"
    /\ Exit(w)
    /\ liveCli' = liveCli \ Live(w)

(* An uncaught exception kills the CLIs first; an OOM or a signal does not. *)
Crash(w) ==
    /\ proc[w] \in {"alive", "killed"}
    /\ Exit(w)
    /\ liveCli' \in {liveCli, liveCli \ Live(w)}

WorkerStep(w) ==
    \/ HandleStart(w) \/ HandleStop(w) \/ HandleAnswer(w)
    \/ Progress(w) \/ Ask(w) \/ RunEnds(w)
    \/ SpawnCli(w) \/ ReportProcs(w)
    \/ HandleSigterm(w) \/ Crash(w)

HostStep ==
    \/ StartRefused
    \/ \E r \in Runs, w \in Workers : StartRun(r, w)
    \/ StopTimeout
    \/ \E w \in Workers : OnExit(w) \/ OnWorkerMessage(w)

-----------------------------------------------------------------------------
(* The renderer as the host sees it: any call at any time, within MaxQueue
   messages under way to a worker (a bound of the model). *)
QueueFree == hostWorker # None => Len(toWorker[hostWorker]) < MaxQueue

CallStop(r) == QueueFree /\ Stop(r)

CallAnswer(r, q) == QueueFree /\ Answer(r, q)

RendererStep ==
    \/ Start
    \/ \E r \in started : CallStop(r)
    \/ \E r \in started, q \in 1..MaxSeq : CallAnswer(r, q)

Next ==
    \/ RendererStep
    \/ HostStep
    \/ \E w \in Workers : WorkerStep(w)
    \/ \E g \in Groups : CliEnds(g)

(* Timers fire, messages and exit notices are delivered, and a killed process
   handles SIGTERM once its synchronous work ends.  Nothing else a worker or
   the user does is certain. *)
Fairness ==
    /\ WF_vars(StopTimeout)
    /\ \A w \in Workers : WF_vars(OnWorkerMessage(w)) /\ WF_vars(OnExit(w))
    /\ \A w \in Workers : WF_vars(HandleSigterm(w))

Spec == Init /\ [][Next]_vars
FairSpec == Spec /\ Fairness

-----------------------------------------------------------------------------
(* The CLI groups the host would kill belong to its current worker, however
   late the procs reports and exit notices of replaced workers arrive. *)
GroupsOfCurrentWorker ==
    groups # {} =>
         /\ hostWorker # None
         /\ groupsOwner = hostWorker
         /\ \A g \in groups : spawner[g] = hostWorker

(* Only events of the active run are sent, with growing sequence numbers and
   nothing after a terminal one, also when the host itself adds the event that
   ends the run; reduceRun relies on it to drop duplicates only. *)
SentInOrder ==
    [][sent' # sent =>
         /\ sent'.run = hostRun
         /\ sent # None /\ sent.run = sent'.run
              => sent.seq < sent'.seq /\ ~IsTerminalEvent(sent)]_vars

(* What the renderer is told, as an abstract agent process would tell it. *)
Told == IF sent = None THEN [run |-> None, seq |-> 0, end |-> FALSE]
        ELSE [run |-> sent.run, seq |-> sent.seq, end |-> IsTerminalEvent(sent)]

Promise == INSTANCE AgentPromise WITH used <- started, run <- hostRun, last <- Told

(* Whatever workers crash, are replaced or exit late, the renderer sees one run
   at a time, each with ascending events of its own, one of which ends it: what
   AgentService relies on. *)
KeepsPromise == Promise!Spec

(* A procs report under way names groups of the worker that posted it. *)
ReportsOwnGroups ==
    \A w \in Workers : \A i \in DOMAIN toHost[w] :
      toHost[w][i].type = "procs" => \A g \in toHost[w][i].pids : spawner[g] = w

(* No run goes on in the current worker that the host does not follow, where stop,
   answers and the budget question would not reach it, however starts, ends and
   exits cross; but for the runs that a late exit notice ended (ExitEndsOwnRun). *)
NoOrphanRun ==
    hostWorker # None /\ proc[hostWorker] = "alive" /\ Busy(hostWorker)
      => job[hostWorker].run \in {hostRun} \cup disowned

(* A late exit of a replaced worker kills no CLI group of its successor
   (desktop/test/cli-providers.test.ts:653). *)
ExitKillsOwnGroups ==
    [][\A w \in Workers :
         proc[w] = "exited" /\ proc'[w] = "gone"
           => \A g \in liveCli \ liveCli' : spawner[g] = w]_vars

(* A crash ends the run it happened in and no other: WORKER_EXITED is sent only
   when the worker of the run has exited (docs/AGENT-IN-APP.md:41).  The code breaks
   it: a worker killed after a stop timeout may exit when its successor runs. *)
ExitEndsOwnRun ==
    [][\A w \in Workers :
         proc[w] = "exited" /\ proc'[w] = "gone" /\ hostRun # None => hostWorker = w]_vars

(* A stopped run ends, whatever its worker does. *)
StopEndsRun == \A r \in Runs : (hostRun = r /\ stopTimer) ~> hostRun # r

(* A worker that died without killing its CLIs leaves none the host was told
   of: docs/CLI-PROVIDERS.md's backstop. *)
ReportedGroupsDie ==
    \A g \in Groups, w \in Workers :
      (g \in groups /\ spawner[g] = w /\ proc[w] = "exited") ~> g \notin liveCli
=============================================================================
