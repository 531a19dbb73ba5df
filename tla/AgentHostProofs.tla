-------------------------- MODULE AgentHostProofs --------------------------
(* Theorems about AgentHost, for any runs, workers, CLI groups and bounds. *)
EXTENDS AgentHost, TLAPS

(* An event, and a message made of it, has its type. *)
LEMMA EventType ==
    ASSUME NEW r \in Runs, NEW s \in Nat, NEW k \in ProgressKinds \cup TerminalKinds
    PROVE  /\ Event(r, s, k) \in Events
           /\ EventMsg(Event(r, s, k)) \in WorkerToHost
BY DEF Event, Events, EventMsg, WorkerToHost

(* Appending to, and taking from, one worker's channel keeps the channels' type. *)
LEMMA ChannelType ==
    ASSUME NEW M, NEW ch \in [Workers -> Seq(M)], NEW w \in Workers
    PROVE  /\ \A m \in M : [ch EXCEPT ![w] = Append(@, m)] \in [Workers -> Seq(M)]
           /\ ch[w] # <<>> => /\ [ch EXCEPT ![w] = Tail(@)] \in [Workers -> Seq(M)]
                              /\ Head(ch[w]) \in M
           /\ [ch EXCEPT ![w] = <<>>] \in [Workers -> Seq(M)]
OBVIOUS

(* postMessage keeps the type of the channels to the workers. *)
LEMMA PostType ==
    ASSUME TypeOK, NEW w \in Workers, NEW msg \in HostToWorker, Post(w, msg)
    PROVE  toWorker' \in [Workers -> Seq(HostToWorker)]
BY DEF TypeOK, Post

(* A terminal event of the host has its type, and leaves no active run. *)
LEMMA EmitType ==
    ASSUME TypeOK, hostRun # None, NEW k \in TerminalKinds, EmitTerminal(k)
    PROVE  sent' \in Events /\ lastSeq' \in Nat /\ hostRun' = None /\ stopTimer' = FALSE
<1>1. lastSeq + 1 \in Nat /\ hostRun \in Runs
  BY DEF TypeOK
<1>2. sent' = Event(hostRun, lastSeq + 1, k) /\ lastSeq' = lastSeq + 1
      /\ hostRun' = None /\ stopTimer' = FALSE
  BY DEF EmitTerminal, Send, Finish
<1>3. Event(hostRun, lastSeq + 1, k) \in Events
  BY <1>1, EventType
<1>. QED  BY <1>1, <1>2, <1>3

(* Replacing one worker's job by a job keeps the type of job. *)
LEMMA JobType ==
    ASSUME TypeOK, NEW w \in Workers, NEW j \in Jobs
    PROVE  [job EXCEPT ![w] = j] \in [Workers -> Jobs]
BY DEF TypeOK

(* The fields a worker changes keep the type of a job. *)
LEMMA JobFieldType ==
    ASSUME NEW j \in Jobs, NEW s \in Nat, NEW a \in Nat, NEW q \in Nat
    PROVE  /\ [j EXCEPT !.seq = s] \in Jobs
           /\ [j EXCEPT !.aborted = TRUE, !.question = q] \in Jobs
           /\ [j EXCEPT !.seq = s, !.question = q] \in Jobs
           /\ [j EXCEPT !.seq = s, !.asked = a, !.question = q] \in Jobs
           /\ [j EXCEPT !.seq = s, !.done = TRUE] \in Jobs
BY DEF Jobs

(* The host's own steps keep TypeOK. *)
LEMMA HostType ==
    ASSUME TypeOK, HostStep \/ RendererStep
    PROVE  TypeOK'
<1> USE NoneAssumption DEF hostVars, workerVars, cliVars
<1>1. CASE StartRefused
  BY <1>1 DEF TypeOK, StartRefused
<1>2. ASSUME NEW r \in Runs, NEW w \in Workers, StartRun(r, w)
      PROVE  TypeOK'
  <2>1. ToWorker("start", r, 0) \in HostToWorker
    BY DEF ToWorker, HostToWorker
  <2>2. toWorker' \in [Workers -> Seq(HostToWorker)]
    BY <1>2, <2>1, PostType DEF StartRun
  <2>3. proc' \in [Workers -> {"unborn", "alive", "killed", "exited", "gone"}]
        /\ hostWorker' \in Workers \cup {None}
    BY <1>2 DEF TypeOK, StartRun, EnsureWorker
  <2>4. starting' \in Nat
    BY <1>2 DEF TypeOK, StartRun
  <2>. QED  BY <1>2, <2>2, <2>3, <2>4 DEF TypeOK, StartRun
<1>3. CASE StopTimeout
  <2>2. /\ sent' \in Events
        /\ lastSeq' \in Nat
        /\ hostRun' = None
        /\ stopTimer' = FALSE
    BY <1>3, EmitType DEF StopTimeout, TerminalKinds
  <2>3. proc' \in [Workers -> {"unborn", "alive", "killed", "exited", "gone"}]
    BY <1>3 DEF TypeOK, StopTimeout
  <2>. QED  BY <1>3, <2>2, <2>3 DEF TypeOK, StopTimeout, KillCliGroups
<1>4. ASSUME NEW w \in Workers, OnExit(w)
      PROVE  TypeOK'
  <2>2. /\ sent' \in Events \cup {None}
        /\ lastSeq' \in Nat
        /\ hostRun' \in Runs \cup {None}
        /\ stopTimer' \in BOOLEAN
    <3>1. CASE hostRun = None
      BY <1>4, <3>1 DEF TypeOK, OnExit
    <3>2. CASE hostRun # None
      <4>1. EmitTerminal("end")
        BY <1>4, <3>2 DEF OnExit
      <4>. QED  BY <3>2, <4>1, EmitType DEF TerminalKinds
    <3>. QED  BY <3>1, <3>2
  <2>3. /\ liveCli' \in SUBSET Groups
        /\ groups' \in SUBSET Groups
        /\ groupsOwner' \in Workers \cup {None}
    BY <1>4 DEF TypeOK, OnExit, KillCliGroups
  <2>. QED  BY <1>4, <2>2, <2>3 DEF TypeOK, OnExit
<1>5. ASSUME NEW w \in Workers, OnWorkerMessage(w)
      PROVE  TypeOK'
  <2>1. /\ toHost' \in [Workers -> Seq(WorkerToHost)]
        /\ Head(toHost[w]) \in WorkerToHost
    BY <1>5, ChannelType DEF TypeOK, OnWorkerMessage
  <2>2. /\ Head(toHost[w]).type = "event" => Head(toHost[w]).event \in Events
        /\ Head(toHost[w]).type = "procs" => Head(toHost[w]).pids \in SUBSET Groups
    BY <2>1 DEF WorkerToHost
  <2>3. /\ sent' \in Events \cup {None}
        /\ lastSeq' \in Nat
        /\ hostRun' \in Runs \cup {None}
        /\ stopTimer' \in BOOLEAN
        /\ groups' \in SUBSET Groups
        /\ groupsOwner' \in Workers \cup {None}
    BY <1>5, <2>2 DEF TypeOK, OnWorkerMessage, ForwardEvent, Send, Finish, Events
  <2>. QED  BY <1>5, <2>1, <2>3 DEF TypeOK, OnWorkerMessage
<1>6. CASE Start
  BY <1>6 DEF TypeOK, Start
<1>7. ASSUME NEW r \in Runs, StopRun(r)
      PROVE  /\ toWorker' \in [Workers -> Seq(HostToWorker)]
             /\ stopTimer' \in BOOLEAN
  <2>1. ToWorker("stop", r, 0) \in HostToWorker
    BY DEF ToWorker, HostToWorker
  <2>2. CASE r # None /\ hostRun = r /\ hostWorker # None
    <3>1. Post(hostWorker, ToWorker("stop", r, 0)) /\ stopTimer' = TRUE
      BY <1>7, <2>2 DEF StopRun
    <3>. QED  BY <2>1, <2>2, <3>1, PostType DEF TypeOK
  <2>3. CASE ~(r # None /\ hostRun = r /\ hostWorker # None)
    BY <1>7, <2>3 DEF TypeOK, StopRun
  <2>. QED  BY <2>2, <2>3
<1>8. ASSUME NEW r \in started, CallStop(r)
      PROVE  TypeOK'
  BY <1>7, <1>8 DEF TypeOK, CallStop, Stop
<1>9. ASSUME NEW r \in started, NEW q \in 1..MaxSeq, CallAnswer(r, q)
      PROVE  TypeOK'
  <2>1. ToWorker("answer", r, q) \in HostToWorker
    BY BoundsAssumption DEF ToWorker, HostToWorker, TypeOK
  <2>2. toWorker' \in [Workers -> Seq(HostToWorker)]
    <3>1. CASE hostRun = r /\ hostWorker # None
      <4>1. Post(hostWorker, ToWorker("answer", r, q))
        BY <1>9, <3>1 DEF CallAnswer, Answer
      <4>. QED  BY <2>1, <3>1, <4>1, PostType DEF TypeOK
    <3>2. CASE ~(hostRun = r /\ hostWorker # None)
      BY <1>9, <3>2 DEF TypeOK, CallAnswer, Answer
    <3>. QED  BY <3>1, <3>2
  <2>. QED  BY <1>9, <2>2 DEF TypeOK, CallAnswer, Answer
<1>. QED
  BY <1>1, <1>2, <1>3, <1>4, <1>5, <1>6, <1>8, <1>9 DEF HostStep, RendererStep

(* A step of a worker, or of a CLI process, keeps TypeOK. *)
LEMMA WorkerType ==
    ASSUME TypeOK, NEW w \in Workers, WorkerStep(w)
    PROVE  TypeOK'
<1> USE NoneAssumption DEF hostVars, workerVars, cliVars
<1>1. /\ job[w] \in Jobs
      /\ job[w].seq + 1 \in Nat /\ job[w].asked + 1 \in Nat
  BY DEF TypeOK, Jobs
<1>2. ASSUME NEW j \in Jobs, j.run \in Runs, NEW k \in ProgressKinds \cup TerminalKinds
      PROVE  EventMsg(Event(j.run, j.seq + 1, k)) \in WorkerToHost
  <2>1. j.seq + 1 \in Nat
    BY DEF Jobs
  <2>. QED  BY <1>2, <2>1, EventType
<1>3. ASSUME NEW j \in Jobs, j.run \in Runs, NEW k \in ProgressKinds \cup TerminalKinds
      PROVE  /\ Emit(w, j, k) \in Seq(WorkerToHost)
             /\ [toHost EXCEPT ![w] = Emit(w, j, k)] \in [Workers -> Seq(WorkerToHost)]
  BY <1>2, <1>3 DEF TypeOK, Emit
<1>4. ASSUME toWorker[w] # <<>>
      PROVE  /\ [toWorker EXCEPT ![w] = Tail(@)] \in [Workers -> Seq(HostToWorker)]
             /\ Head(toWorker[w]).run \in Runs
  <2>1. /\ [toWorker EXCEPT ![w] = Tail(@)] \in [Workers -> Seq(HostToWorker)]
        /\ Head(toWorker[w]) \in HostToWorker
    BY <1>4, ChannelType DEF TypeOK
  <2>. QED  BY <2>1 DEF HostToWorker
<1>5. CASE HandleStart(w)
  <2> DEFINE r == Head(toWorker[w]).run
  <2>1. r \in Runs /\ NewJob(r) \in Jobs /\ NewJob(r).run = r
    BY <1>4, <1>5 DEF HandleStart, NewJob, Jobs
  <2>2. CASE Busy(w)
    <3>1. /\ toHost' = [toHost EXCEPT ![w] = Emit(w, NewJob(r), "end")]
          /\ toWorker' = [toWorker EXCEPT ![w] = Tail(@)]
          /\ UNCHANGED <<job, reported>>
      BY <1>5, <2>2 DEF HandleStart
    <3>2. toHost' \in [Workers -> Seq(WorkerToHost)]
      BY <1>3, <2>1, <3>1 DEF TerminalKinds
    <3>3. toWorker' \in [Workers -> Seq(HostToWorker)]
      BY <1>4, <1>5, <3>1 DEF HandleStart
    <3>. QED  BY <1>5, <3>1, <3>2, <3>3 DEF TypeOK, HandleStart
  <2>3. CASE ~Busy(w)
    <3>1. /\ job' = [job EXCEPT ![w] = NewJob(r)]
          /\ toWorker' = [toWorker EXCEPT ![w] = Tail(@)]
          /\ reported' = [reported EXCEPT ![w] = {}]
          /\ UNCHANGED toHost
      BY <1>5, <2>3 DEF HandleStart
    <3>2. job' \in [Workers -> Jobs]
      BY <2>1, <3>1, JobType
    <3>3. toWorker' \in [Workers -> Seq(HostToWorker)]
      BY <1>4, <1>5, <3>1 DEF HandleStart
    <3>. QED  BY <1>5, <3>1, <3>2, <3>3 DEF TypeOK, HandleStart
  <2>. QED  BY <2>2, <2>3
<1>6. CASE HandleStop(w)
  <2>1. [job[w] EXCEPT !.aborted = TRUE, !.question = 0] \in Jobs
    BY <1>1, JobFieldType
  <2>2. job' \in [Workers -> Jobs]
    BY <1>6, <2>1 DEF TypeOK, HandleStop
  <2>. QED  BY <1>4, <1>6, <2>2 DEF TypeOK, HandleStop
<1>7. CASE HandleAnswer(w)
  <2>1. job' \in [Workers -> Jobs]
    <3>1. [job[w] EXCEPT !.seq = job[w].seq + 1, !.question = 0] \in Jobs
      BY <1>1, JobFieldType
    <3>. QED  BY <1>7, <3>1 DEF TypeOK, HandleAnswer
  <2>2. toHost' \in [Workers -> Seq(WorkerToHost)]
    <3>1. CASE toHost' = [toHost EXCEPT ![w] = Emit(w, job[w], "progress")]
      <4>1. (toWorker[w] # <<>> /\ job[w].run = Head(toWorker[w]).run) \/ UNCHANGED toHost
        BY <1>7 DEF HandleAnswer
      <4>2. CASE job[w].run \in Runs
        BY <1>1, <1>3, <3>1, <4>2 DEF ProgressKinds
      <4>3. CASE UNCHANGED toHost
        BY <4>3 DEF TypeOK
      <4>. QED  BY <1>4, <4>1, <4>2, <4>3
    <3>2. CASE UNCHANGED toHost
      BY <3>2 DEF TypeOK
    <3>. QED  BY <1>7, <3>1, <3>2 DEF HandleAnswer
  <2>. QED  BY <1>4, <1>7, <2>1, <2>2 DEF TypeOK, HandleAnswer
<1>8. CASE Progress(w)
  <2>1. job[w].run \in Runs
    BY <1>1, <1>8 DEF Progress, MayTalk, Busy, Jobs
  <2>2. job' \in [Workers -> Jobs]
    <3>1. [job[w] EXCEPT !.seq = job[w].seq + 1] \in Jobs
      BY <1>1, JobFieldType
    <3>. QED  BY <1>8, <3>1 DEF TypeOK, Progress
  <2>. QED  BY <1>1, <1>3, <1>8, <2>1, <2>2 DEF TypeOK, Progress, MayTalk, ProgressKinds
<1>9. CASE Ask(w)
  <2>1. job[w].run \in Runs
    BY <1>1, <1>9 DEF Ask, MayTalk, Busy, Jobs
  <2>2. job' \in [Workers -> Jobs]
    <3>1. (IF job[w].aborted THEN 0 ELSE job[w].asked + 1) \in Nat
      BY <1>1
    <3>2. [job[w] EXCEPT !.seq = job[w].seq + 1, !.asked = job[w].asked + 1,
                         !.question = IF job[w].aborted THEN 0 ELSE job[w].asked + 1] \in Jobs
      BY <1>1, <3>1, JobFieldType
    <3>. QED  BY <1>9, <3>2 DEF TypeOK, Ask
  <2>. QED  BY <1>1, <1>3, <1>9, <2>1, <2>2 DEF TypeOK, Ask, ProgressKinds
<1>10. CASE RunEnds(w)
  <2>1. job[w].run \in Runs
    BY <1>1, <1>10 DEF RunEnds, Busy, Jobs
  <2>2. job' \in [Workers -> Jobs]
    <3>1. [job[w] EXCEPT !.seq = job[w].seq + 1, !.done = TRUE] \in Jobs
      BY <1>1, JobFieldType
    <3>. QED  BY <1>10, <3>1 DEF TypeOK, RunEnds
  <2>3. ProcsMsg({}) \in WorkerToHost
    BY DEF ProcsMsg, WorkerToHost
  <2>4. toHost' = [toHost EXCEPT ![w] =
                     IF reported[w] # {} THEN Append(Emit(w, job[w], "end"), ProcsMsg({}))
                                         ELSE Emit(w, job[w], "end")]
    BY <1>10 DEF RunEnds
  <2>5. Emit(w, job[w], "end") \in Seq(WorkerToHost)
    BY <1>1, <1>3, <2>1 DEF TerminalKinds
  <2>6. toHost' \in [Workers -> Seq(WorkerToHost)]
    BY <2>3, <2>4, <2>5 DEF TypeOK
  <2>. QED  BY <1>10, <2>2, <2>6 DEF TypeOK, RunEnds
<1>11. CASE SpawnCli(w)
  BY <1>11 DEF TypeOK, SpawnCli
<1>12. CASE ReportProcs(w)
  <2>1. Live(w) \in SUBSET Groups /\ ProcsMsg(Live(w)) \in WorkerToHost
    BY DEF TypeOK, Live, ProcsMsg, WorkerToHost
  <2>. QED  BY <1>12, <2>1 DEF TypeOK, ReportProcs
<1>13. ASSUME Exit(w), liveCli' \in SUBSET Groups
       PROVE  TypeOK'
  <2>1. NoJob \in Jobs
    BY DEF NoJob, NewJob, Jobs
  <2>. QED  BY <1>13, <2>1 DEF TypeOK, Exit
<1>14. CASE HandleSigterm(w)
  BY <1>13, <1>14 DEF TypeOK, HandleSigterm
<1>15. CASE Crash(w)
  BY <1>13, <1>15 DEF TypeOK, Crash
<1>. QED
  BY <1>5, <1>6, <1>7, <1>8, <1>9, <1>10, <1>11, <1>12, <1>14, <1>15 DEF WorkerStep

(* TypeOK holds initially, and the end of a CLI process keeps it. *)
LEMMA TypeInit == Init => TypeOK
<1>1. NoJob \in Jobs
  BY DEF NoJob, NewJob, Jobs
<1>2. SUFFICES ASSUME Init
               PROVE  TypeOK
  OBVIOUS
<1>3. /\ toWorker \in [Workers -> Seq(HostToWorker)]
      /\ toHost \in [Workers -> Seq(WorkerToHost)]
  BY <1>2 DEF Init
<1>4. /\ job \in [Workers -> Jobs]
      /\ proc \in [Workers -> {"unborn", "alive", "killed", "exited", "gone"}]
      /\ spawner \in [Groups -> Workers \cup {None}]
      /\ reported \in [Workers -> SUBSET Groups]
  BY <1>1, <1>2 DEF Init
<1>. QED  BY <1>2, <1>3, <1>4 DEF Init, TypeOK

LEMMA CliEndsType ==
    ASSUME TypeOK, NEW g \in Groups, CliEnds(g)
    PROVE  TypeOK'
BY DEF TypeOK, CliEnds, hostVars, workerVars

(* Every variable of the host, the channels and the workers keeps its type. *)
THEOREM TypeCorrect == Spec => []TypeOK
<1>1. Init => TypeOK
  BY TypeInit
<1>2. TypeOK /\ [Next]_vars => TypeOK'
  <2>1. ASSUME TypeOK, UNCHANGED vars
        PROVE  TypeOK'
    BY <2>1 DEF TypeOK, vars, hostVars, workerVars, cliVars
  <2>. QED  BY <2>1, HostType, WorkerType, CliEndsType DEF Next
<1>. QED  BY <1>1, <1>2, PTL DEF Spec

-----------------------------------------------------------------------------
(* CLI process groups.  GroupsOfCurrentWorker is not inductive by itself: what
   a report names must belong to the worker that posted it, also while the
   report is under way and the worker is replaced. *)
GroupsInv == TypeOK /\ GroupsOfCurrentWorker /\ ReportsOwnGroups

(* Taking a message, or appending one that is no report or names only groups
   of its worker, keeps ReportsOwnGroups. *)
LEMMA ReportsKept ==
    ASSUME TypeOK, ReportsOwnGroups, NEW w \in Workers, UNCHANGED spawner,
           \/ UNCHANGED toHost
           \/ toHost[w] # <<>> /\ toHost' = [toHost EXCEPT ![w] = Tail(@)]
           \/ \E m \in WorkerToHost :
                /\ m.type = "procs" => \A g \in m.pids : spawner[g] = w
                /\ toHost' = [toHost EXCEPT ![w] = Append(@, m)]
           \/ \E m, n \in WorkerToHost :
                /\ m.type # "procs" /\ n.type = "procs" /\ n.pids = {}
                /\ toHost' = [toHost EXCEPT ![w] = Append(Append(@, m), n)]
    PROVE  ReportsOwnGroups'
<1>1. CASE UNCHANGED toHost
  BY <1>1 DEF ReportsOwnGroups
<1>2. CASE toHost[w] # <<>> /\ toHost' = [toHost EXCEPT ![w] = Tail(@)]
  <2>1. toHost[w] \in Seq(WorkerToHost)
    BY DEF TypeOK
  <2>2. \A i \in DOMAIN Tail(toHost[w]) :
          i + 1 \in DOMAIN toHost[w] /\ Tail(toHost[w])[i] = toHost[w][i + 1]
    BY <1>2, <2>1
  <2>3. toHost'[w] = Tail(toHost[w]) /\ \A v \in Workers : v # w => toHost'[v] = toHost[v]
    BY <1>2 DEF TypeOK
  <2>4. ASSUME NEW v \in Workers, NEW i \in DOMAIN toHost'[v], toHost'[v][i].type = "procs"
        PROVE  \A g \in toHost'[v][i].pids : spawner[g] = v
    <3>1. CASE v = w
      <4>1. PICK k \in DOMAIN toHost[w] : toHost'[v][i] = toHost[w][k]
        BY <2>2, <2>3, <2>4, <3>1
      <4>. QED  BY <2>4, <3>1, <4>1 DEF ReportsOwnGroups
    <3>2. CASE v # w
      BY <2>3, <2>4, <3>2 DEF ReportsOwnGroups
    <3>. QED  BY <3>1, <3>2
  <2>. QED  BY <2>4 DEF ReportsOwnGroups
<1>3. ASSUME NEW m \in WorkerToHost,
             m.type = "procs" => \A g \in m.pids : spawner[g] = w,
             toHost' = [toHost EXCEPT ![w] = Append(@, m)]
      PROVE  ReportsOwnGroups'
  <2>1. toHost[w] \in Seq(WorkerToHost)
    BY DEF TypeOK
  <2>2. \A i \in DOMAIN Append(toHost[w], m) :
          \/ i \in DOMAIN toHost[w] /\ Append(toHost[w], m)[i] = toHost[w][i]
          \/ Append(toHost[w], m)[i] = m
    BY <2>1
  <2>3. /\ toHost'[w] = Append(toHost[w], m)
        /\ \A v \in Workers : v # w => toHost'[v] = toHost[v]
    BY <1>3 DEF TypeOK
  <2>4. ASSUME NEW v \in Workers, NEW i \in DOMAIN toHost'[v], toHost'[v][i].type = "procs"
        PROVE  \A g \in toHost'[v][i].pids : spawner[g] = v
    <3>1. CASE v = w
      BY <1>3, <2>2, <2>3, <2>4, <3>1 DEF ReportsOwnGroups
    <3>2. CASE v # w
      BY <2>3, <2>4, <3>2 DEF ReportsOwnGroups
    <3>. QED  BY <3>1, <3>2
  <2>. QED  BY <2>4 DEF ReportsOwnGroups
<1>4. ASSUME NEW m \in WorkerToHost, NEW n \in WorkerToHost,
             m.type # "procs" /\ n.type = "procs" /\ n.pids = {},
             toHost' = [toHost EXCEPT ![w] = Append(Append(@, m), n)]
      PROVE  ReportsOwnGroups'
  <2>1. toHost[w] \in Seq(WorkerToHost)
    BY DEF TypeOK
  <2>2. \A i \in DOMAIN Append(Append(toHost[w], m), n) :
          \/ /\ i \in DOMAIN toHost[w]
             /\ Append(Append(toHost[w], m), n)[i] = toHost[w][i]
          \/ Append(Append(toHost[w], m), n)[i] \in {m, n}
    BY <2>1
  <2>3. /\ toHost'[w] = Append(Append(toHost[w], m), n)
        /\ \A v \in Workers : v # w => toHost'[v] = toHost[v]
    BY <1>4 DEF TypeOK
  <2>4. ASSUME NEW v \in Workers, NEW i \in DOMAIN toHost'[v], toHost'[v][i].type = "procs"
        PROVE  \A g \in toHost'[v][i].pids : spawner[g] = v
    <3>1. CASE v = w
      BY <1>4, <2>2, <2>3, <2>4, <3>1 DEF ReportsOwnGroups
    <3>2. CASE v # w
      BY <2>3, <2>4, <3>2 DEF ReportsOwnGroups
    <3>. QED  BY <3>1, <3>2
  <2>. QED  BY <2>4 DEF ReportsOwnGroups
<1>. QED  BY <1>1, <1>2, <1>3, <1>4

(* An event emitted by a worker is a message, and no report. *)
LEMMA EmitMessage ==
    ASSUME TypeOK, NEW w \in Workers, NEW j \in Jobs, j.run \in Runs,
           NEW k \in ProgressKinds \cup TerminalKinds
    PROVE  \E m \in WorkerToHost : m.type # "procs" /\ Emit(w, j, k) = Append(toHost[w], m)
<1>1. j.seq + 1 \in Nat
  BY DEF Jobs
<1>2. EventMsg(Event(j.run, j.seq + 1, k)) \in WorkerToHost
  BY <1>1, EventType
<1>. QED  BY <1>2 DEF Emit, EventMsg

(* A report the host takes from its current worker names that worker's groups. *)
LEMMA ReportTaken ==
    ASSUME TypeOK, ReportsOwnGroups, NEW w \in Workers, toHost[w] # <<>>,
           Head(toHost[w]).type = "procs"
    PROVE  \A g \in Head(toHost[w]).pids : spawner[g] = w
<1>1. 1 \in DOMAIN toHost[w] /\ Head(toHost[w]) = toHost[w][1]
  BY DEF TypeOK
<1>. QED  BY <1>1 DEF ReportsOwnGroups

(* A step of the host or the renderer keeps GroupsInv. *)
LEMMA HostGroups ==
    ASSUME GroupsInv, HostStep \/ RendererStep
    PROVE  GroupsInv'
<1> USE NoneAssumption DEF hostVars, workerVars, cliVars
<1>0. TypeOK /\ GroupsOfCurrentWorker /\ ReportsOwnGroups /\ TypeOK'
  BY HostType DEF GroupsInv
<1>1. ASSUME UNCHANGED <<hostWorker, groups, groupsOwner, spawner, toHost>>
      PROVE  GroupsOfCurrentWorker' /\ ReportsOwnGroups'
  BY <1>0, <1>1 DEF GroupsOfCurrentWorker, ReportsOwnGroups
<1>2. CASE StartRefused
  BY <1>0, <1>1, <1>2 DEF StartRefused, GroupsInv
<1>3. ASSUME NEW r \in Runs, NEW w \in Workers, StartRun(r, w)
      PROVE  GroupsOfCurrentWorker' /\ ReportsOwnGroups'
  BY <1>0, <1>3 DEF StartRun, EnsureWorker, GroupsOfCurrentWorker, ReportsOwnGroups
<1>4. CASE StopTimeout
  <2>1. groups' = {} /\ UNCHANGED <<toHost, spawner>>
    BY <1>4 DEF StopTimeout, KillCliGroups
  <2>. QED  BY <1>0, <2>1 DEF GroupsInv, GroupsOfCurrentWorker, ReportsOwnGroups
<1>5. ASSUME NEW w \in Workers, OnExit(w)
      PROVE  GroupsOfCurrentWorker' /\ ReportsOwnGroups'
  <2>1. CASE OwnsGroups(w)
    <3>1. groups' = {}
      BY <1>5, <2>1 DEF OnExit, KillCliGroups
    <3>. QED  BY <1>0, <1>5, <3>1 DEF OnExit, GroupsOfCurrentWorker, ReportsOwnGroups
  <2>2. CASE ~OwnsGroups(w)
    <3>1. UNCHANGED <<groups, groupsOwner, spawner, toHost>>
      BY <1>5, <2>2 DEF OnExit
    <3>2. groups # {} => hostWorker # w /\ hostWorker' = hostWorker
      BY <1>0, <1>5, <2>2 DEF OnExit, OwnsGroups, GroupsOfCurrentWorker
    <3>. QED  BY <1>0, <3>1, <3>2 DEF GroupsOfCurrentWorker, ReportsOwnGroups
  <2>. QED  BY <2>1, <2>2
<1>6. ASSUME NEW w \in Workers, OnWorkerMessage(w)
      PROVE  GroupsOfCurrentWorker' /\ ReportsOwnGroups'
  <2>1. ReportsOwnGroups'
    BY <1>0, <1>6, ReportsKept DEF OnWorkerMessage
  <2>2. GroupsOfCurrentWorker'
    <3>1. UNCHANGED <<hostWorker, spawner>> /\ toHost[w] # <<>>
      BY <1>6 DEF OnWorkerMessage
    <3>2. \/ UNCHANGED <<groups, groupsOwner>>
          \/ /\ w = hostWorker /\ Head(toHost[w]).type = "procs"
             /\ groups' = Head(toHost[w]).pids /\ groupsOwner' = w
      BY <1>6 DEF OnWorkerMessage
    <3>. QED  BY <1>0, <3>1, <3>2, ReportTaken DEF GroupsOfCurrentWorker
  <2>. QED  BY <2>1, <2>2
<1>7. ASSUME RendererStep
      PROVE  UNCHANGED <<hostWorker, groups, groupsOwner, spawner, toHost>>
  BY <1>7 DEF RendererStep, Start, CallStop, Stop, CallAnswer, Answer
<1>. QED
  BY <1>0, <1>1, <1>2, <1>3, <1>4, <1>5, <1>6, <1>7 DEF HostStep, GroupsInv

(* A step of a worker keeps GroupsInv. *)
LEMMA WorkerGroups ==
    ASSUME GroupsInv, NEW w \in Workers, WorkerStep(w)
    PROVE  GroupsInv'
<1> USE NoneAssumption DEF hostVars, workerVars, cliVars
<1>0. TypeOK /\ GroupsOfCurrentWorker /\ ReportsOwnGroups /\ TypeOK'
  BY WorkerType DEF GroupsInv
<1>1. ASSUME UNCHANGED <<hostWorker, groups, groupsOwner, spawner>>
      PROVE  GroupsOfCurrentWorker'
  BY <1>0, <1>1 DEF GroupsOfCurrentWorker
<1>2. ASSUME NEW j \in Jobs, j.run \in Runs, NEW k \in ProgressKinds \cup TerminalKinds,
             toHost' = [toHost EXCEPT ![w] = Emit(w, j, k)], UNCHANGED spawner
      PROVE  ReportsOwnGroups'
  <2>1. PICK m \in WorkerToHost : m.type # "procs" /\ Emit(w, j, k) = Append(toHost[w], m)
    BY <1>0, <1>2, EmitMessage
  <2>2. toHost' = [toHost EXCEPT ![w] = Append(@, m)]
    BY <1>0, <1>2, <2>1 DEF TypeOK
  <2>. QED  BY <1>0, <1>2, <2>1, <2>2, ReportsKept
<1>3. job[w] \in Jobs
  BY <1>0 DEF TypeOK
<1>4. Busy(w) => job[w].run \in Runs
  BY <1>3 DEF Busy, Jobs
<1>5. toWorker[w] # <<>> => Head(toWorker[w]) \in HostToWorker
  BY <1>0, ChannelType DEF TypeOK
<1>6. toWorker[w] # <<>> => /\ Head(toWorker[w]).run \in Runs
                           /\ NewJob(Head(toWorker[w]).run) \in Jobs
                           /\ NewJob(Head(toWorker[w]).run).run = Head(toWorker[w]).run
  BY <1>5 DEF HostToWorker, NewJob, Jobs
<1>7. CASE HandleStart(w)
  <2>1. \/ UNCHANGED toHost
        \/ toHost' = [toHost EXCEPT ![w] = Emit(w, NewJob(Head(toWorker[w]).run), "end")]
    BY <1>7 DEF HandleStart
  <2>2. ReportsOwnGroups'
    <3>1. UNCHANGED spawner /\ toWorker[w] # <<>>
      BY <1>7 DEF HandleStart
    <3>. QED  BY <1>0, <1>2, <1>6, <2>1, <3>1, ReportsKept DEF TerminalKinds
  <2>. QED  BY <1>0, <1>1, <1>7, <2>2 DEF HandleStart, GroupsInv
<1>8. CASE HandleStop(w)
  BY <1>0, <1>1, <1>8, ReportsKept DEF HandleStop, GroupsInv
<1>9. CASE HandleAnswer(w)
  <2>1. \/ UNCHANGED toHost
        \/ /\ job[w].run = Head(toWorker[w]).run
           /\ toHost' = [toHost EXCEPT ![w] = Emit(w, job[w], "progress")]
    BY <1>9 DEF HandleAnswer
  <2>2. ReportsOwnGroups'
    <3>1. UNCHANGED spawner /\ toWorker[w] # <<>>
      BY <1>9 DEF HandleAnswer
    <3>. QED  BY <1>0, <1>2, <1>3, <1>6, <2>1, <3>1, ReportsKept DEF ProgressKinds
  <2>. QED  BY <1>0, <1>1, <1>9, <2>2 DEF HandleAnswer, GroupsInv
<1>10. CASE Progress(w)
  <2>1. ReportsOwnGroups'
    BY <1>2, <1>3, <1>4, <1>10 DEF Progress, MayTalk, ProgressKinds
  <2>. QED  BY <1>0, <1>1, <1>10, <2>1 DEF Progress, GroupsInv
<1>11. CASE Ask(w)
  <2>1. ReportsOwnGroups'
    BY <1>2, <1>3, <1>4, <1>11 DEF Ask, MayTalk, ProgressKinds
  <2>2. UNCHANGED <<hostWorker, groups, groupsOwner, spawner>>
    BY <1>11 DEF Ask
  <2>. QED  BY <1>0, <1>1, <2>1, <2>2 DEF GroupsInv
<1>12. CASE RunEnds(w)
  <2>1. UNCHANGED <<hostWorker, groups, groupsOwner, spawner>> /\ job[w].run \in Runs
    BY <1>4, <1>12 DEF RunEnds
  <2>2. toHost' = [toHost EXCEPT ![w] =
                     IF reported[w] # {} THEN Append(Emit(w, job[w], "end"), ProcsMsg({}))
                                         ELSE Emit(w, job[w], "end")]
    BY <1>12 DEF RunEnds
  <2>3. PICK m \in WorkerToHost :
          m.type # "procs" /\ Emit(w, job[w], "end") = Append(toHost[w], m)
    BY <1>0, <1>3, <2>1, EmitMessage DEF TerminalKinds
  <2>4. /\ ProcsMsg({}) \in WorkerToHost
        /\ ProcsMsg({}).type = "procs" /\ ProcsMsg({}).pids = {}
    BY DEF ProcsMsg, WorkerToHost
  <2>5. \/ toHost' = [toHost EXCEPT ![w] = Append(@, m)]
        \/ toHost' = [toHost EXCEPT ![w] = Append(Append(@, m), ProcsMsg({}))]
    BY <2>2, <2>3
  <2>6. ReportsOwnGroups'
    BY <1>0, <2>1, <2>3, <2>4, <2>5, ReportsKept
  <2>. QED  BY <1>0, <1>1, <2>1, <2>6 DEF GroupsInv
<1>13. CASE SpawnCli(w)
  <2>1. PICK g \in Groups : spawner[g] = None /\ spawner' = [spawner EXCEPT ![g] = w]
    BY <1>13 DEF SpawnCli
  <2>2. \A h \in Groups : spawner[h] # None => spawner'[h] = spawner[h]
    BY <1>0, <2>1 DEF TypeOK
  <2>3. UNCHANGED <<hostWorker, groups, groupsOwner, toHost>>
    BY <1>13 DEF SpawnCli
  <2>4. GroupsOfCurrentWorker'
    BY <1>0, <2>2, <2>3 DEF GroupsOfCurrentWorker, TypeOK
  <2>5. \A v \in Workers : \A i \in DOMAIN toHost[v] :
          toHost[v][i].type = "procs" => toHost[v][i].pids \subseteq Groups
    <3>1. \A v \in Workers : \A i \in DOMAIN toHost[v] : toHost[v][i] \in WorkerToHost
      BY <1>0 DEF TypeOK
    <3>2. \A m \in WorkerToHost : m.type = "procs" => m.pids \subseteq Groups
      BY DEF WorkerToHost
    <3>. QED  BY <3>1, <3>2
  <2>6. ReportsOwnGroups'
    BY <1>0, <2>2, <2>3, <2>5 DEF ReportsOwnGroups
  <2>. QED  BY <1>0, <2>4, <2>6 DEF GroupsInv
<1>14. CASE ReportProcs(w)
  <2>1. /\ ProcsMsg(Live(w)) \in WorkerToHost
        /\ \A g \in ProcsMsg(Live(w)).pids : spawner[g] = w
    BY <1>0 DEF Live, ProcsMsg, WorkerToHost, TypeOK
  <2>2. toHost' = [toHost EXCEPT ![w] = Append(@, ProcsMsg(Live(w)))] /\ UNCHANGED spawner
    BY <1>14 DEF ReportProcs
  <2>3. ReportsOwnGroups'
    BY <1>0, <2>1, <2>2, ReportsKept
  <2>. QED  BY <1>0, <1>1, <1>14, <2>3 DEF ReportProcs, GroupsInv
<1>15. ASSUME Exit(w)
       PROVE  GroupsInv'
  BY <1>0, <1>1, <1>15, ReportsKept DEF Exit, GroupsInv
<1>. QED
  BY <1>7, <1>8, <1>9, <1>10, <1>11, <1>12, <1>13, <1>14, <1>15
     DEF WorkerStep, HandleSigterm, Crash

LEMMA GroupsInvariant == Spec => []GroupsInv
<1>1. Init => GroupsInv
  BY TypeInit DEF Init, GroupsInv, GroupsOfCurrentWorker, ReportsOwnGroups
<1>2. GroupsInv /\ [Next]_vars => GroupsInv'
  <2>1. ASSUME GroupsInv, NEW g \in Groups, CliEnds(g)
        PROVE  GroupsInv'
    BY <2>1, CliEndsType DEF GroupsInv, GroupsOfCurrentWorker, ReportsOwnGroups, CliEnds,
                        TypeOK, hostVars, workerVars
  <2>2. ASSUME GroupsInv, UNCHANGED vars
        PROVE  GroupsInv'
    BY <2>2 DEF GroupsInv, GroupsOfCurrentWorker, ReportsOwnGroups, TypeOK, vars,
                hostVars, workerVars, cliVars
  <2>. QED  BY <2>1, <2>2, HostGroups, WorkerGroups DEF Next
<1>. QED  BY <1>1, <1>2, PTL DEF Spec

(* What the host would kill are CLI groups of its current worker. *)
THEOREM GroupsCorrect == Spec => []GroupsOfCurrentWorker
<1>1. GroupsInv => GroupsOfCurrentWorker
  BY DEF GroupsInv
<1>. QED  BY <1>1, GroupsInvariant, PTL

(* Only the handling of its exit notice makes a worker gone. *)
LEMMA OnlyOnExit ==
    ASSUME TypeOK, Next, NEW w \in Workers, proc[w] = "exited", proc'[w] = "gone"
    PROVE  OnExit(w)
<1>1. ASSUME NEW v \in Workers, WorkerStep(v)
      PROVE  proc' = proc \/ proc' = [proc EXCEPT ![v] = "exited"]
  BY <1>1 DEF WorkerStep, HandleStart, HandleStop, HandleAnswer, Progress, Ask, RunEnds,
              SpawnCli, ReportProcs, HandleSigterm, Crash, Exit
<1>2. ASSUME RendererStep \/ \E g \in Groups : CliEnds(g)
      PROVE  proc' = proc
  BY <1>2 DEF RendererStep, Start, CallStop, Stop, CallAnswer, Answer, CliEnds
<1>3. ASSUME NEW v \in Workers, OnExit(v), v # w
      PROVE  proc'[w] = proc[w]
  BY <1>3 DEF OnExit, TypeOK
<1>4. ASSUME NEW v \in Workers, OnWorkerMessage(v) \/ StartRefused
      PROVE  proc' = proc
  BY <1>4 DEF OnWorkerMessage, StartRefused
<1>5. ASSUME NEW r \in Runs, NEW v \in Workers, StartRun(r, v)
      PROVE  proc' = proc \/ proc' = [proc EXCEPT ![v] = "alive"]
  BY <1>5 DEF StartRun, EnsureWorker
<1>6. ASSUME StopTimeout
      PROVE  proc' = proc \/ proc' = [proc EXCEPT ![hostWorker] = "killed"]
  BY <1>6 DEF StopTimeout
<1>. QED  BY <1>1, <1>2, <1>3, <1>4, <1>5, <1>6 DEF Next, HostStep, TypeOK

(* The exit notice of a worker kills that worker's CLI groups only. *)
THEOREM ExitKillsOwn == Spec => ExitKillsOwnGroups
<1> DEFINE Step == \A w \in Workers :
                     proc[w] = "exited" /\ proc'[w] = "gone"
                       => \A g \in liveCli \ liveCli' : spawner[g] = w
<1>1. GroupsInv /\ [Next]_vars => [Step]_vars
  <2> SUFFICES ASSUME GroupsInv, Next, NEW w \in Workers,
                      proc[w] = "exited", proc'[w] = "gone",
                      NEW g \in liveCli \ liveCli'
               PROVE  spawner[g] = w
    BY DEF vars
  <2>1. OnExit(w)
    BY OnlyOnExit DEF GroupsInv
  <2>2. OwnsGroups(w) /\ liveCli' = liveCli \ groups
    BY <2>1 DEF OnExit, KillCliGroups
  <2>3. g \in groups
    BY <2>2
  <2>. QED  BY <2>2, <2>3, NoneAssumption DEF GroupsInv, GroupsOfCurrentWorker, OwnsGroups
<1>. QED  BY <1>1, GroupsInvariant, PTL DEF Spec, ExitKillsOwnGroups

-----------------------------------------------------------------------------
(* The host sends the events of a run in order: SentInOrder, for any runs,
   workers and bounds.  It is not inductive: that the next event is newer than
   the last one sent rests on what is still under way between the host and the
   worker, in both directions, and on how far the worker's job has counted.
   Flow says that of one worker, Ahead of the run the host follows. *)
IsEventOf(m, r) == m.type = "event" /\ m.event.run = r
IsStartOf(m, r) == m.type = "start" /\ m.run = r

(* What evs (under way from a worker), cmds (under way to it) and its job j
   name are runs handed out. *)
Known(S, evs, cmds, j) ==
    /\ \A i \in DOMAIN evs : evs[i].type = "event" => evs[i].event.run \in S
    /\ \A i \in DOMAIN cmds : cmds[i].type = "start" => cmds[i].run \in S
    /\ j.run \in S \cup {None}

(* The events of a run ascend, up to where its job counts. *)
Ascending(evs, j) ==
    /\ \A i, k \in DOMAIN evs, r \in Runs :
         i < k /\ IsEventOf(evs[i], r) /\ IsEventOf(evs[k], r)
           => evs[i].event.seq < evs[k].event.seq
    /\ \A i \in DOMAIN evs : IsEventOf(evs[i], j.run) => evs[i].event.seq <= j.seq

(* A run that is yet to start has no event and no job, and starts once. *)
Fresh(evs, cmds, j) ==
    \A i \in DOMAIN cmds, r \in Runs : IsStartOf(cmds[i], r) =>
       /\ j.run # r
       /\ \A k \in DOMAIN evs : ~IsEventOf(evs[k], r)
       /\ \A k \in DOMAIN cmds : IsStartOf(cmds[k], r) => k = i

Flow(S, evs, cmds, j) == Known(S, evs, cmds, j) /\ Ascending(evs, j) /\ Fresh(evs, cmds, j)

(* Every event of r still to come is newer than the last one sent. *)
Ahead(evs, cmds, j, r, last) ==
    /\ \A i \in DOMAIN evs : IsEventOf(evs[i], r) => last < evs[i].event.seq
    /\ j.run = r => last <= j.seq
    /\ \A i \in DOMAIN cmds : IsStartOf(cmds[i], r) => last = 0

FlowOf(w) == Flow(started, toHost[w], toWorker[w], job[w])
AheadOf(w, r, last) == Ahead(toHost[w], toWorker[w], job[w], r, last)

(* The last event sent of the active run ended nothing and is counted. *)
SentBelow ==
    /\ hostRun \in started \cup {None}
    /\ sent # None =>
         /\ sent.run \in started
         /\ sent.run = hostRun => sent.seq <= lastSeq /\ ~IsTerminalEvent(sent)

OrderInv ==
    /\ TypeOK
    /\ SentBelow
    /\ \A w \in Workers : FlowOf(w)
    /\ hostRun # None /\ hostWorker # None => AheadOf(hostWorker, hostRun, lastSeq)

-----------------------------------------------------------------------------
(* What each operation does to the two channels of a worker and its job. *)

(* The channels and the job of one worker are well typed. *)
Typed(evs, cmds, j) ==
    evs \in Seq(WorkerToHost) /\ cmds \in Seq(HostToWorker) /\ j \in Jobs

(* Nothing but fewer commands, or a job whose run and count stay. *)
LEMMA FlowShrinks ==
    ASSUME NEW S, NEW evs, NEW cmds, NEW j, NEW cmds2, NEW j2,
           Typed(evs, cmds, j), Typed(evs, cmds2, j2),
           cmds2 = cmds \/ (cmds # <<>> /\ cmds2 = Tail(cmds)) \/ cmds2 = <<>>,
           j2.run = j.run, j2.seq = j.seq
    PROVE  /\ Flow(S, evs, cmds, j) => Flow(S, evs, cmds2, j2)
           /\ \A r, last : Ahead(evs, cmds, j, r, last) => Ahead(evs, cmds2, j2, r, last)
<1>1. PICK d \in {0, 1} : \A i \in DOMAIN cmds2 : i + d \in DOMAIN cmds /\ cmds2[i] = cmds[i + d]
  <2>1. CASE cmds2 = cmds \/ cmds2 = <<>>
    <3>1. \A i \in DOMAIN cmds2 : i + 0 \in DOMAIN cmds /\ cmds2[i] = cmds[i + 0]
      BY <2>1 DEF Typed
    <3>. QED  BY <3>1
  <2>2. CASE cmds # <<>> /\ cmds2 = Tail(cmds)
    <3>1. \A i \in DOMAIN cmds2 : i + 1 \in DOMAIN cmds /\ cmds2[i] = cmds[i + 1]
      BY <2>2 DEF Typed
    <3>. QED  BY <3>1
  <2>. QED  BY <2>1, <2>2
<1>2. \A i \in DOMAIN cmds2 : i \in Int
  BY DEF Typed
<1>3. \A r, last : Ahead(evs, cmds, j, r, last) => Ahead(evs, cmds2, j2, r, last)
  BY <1>1 DEF Ahead
<1>4. ASSUME Flow(S, evs, cmds, j)
      PROVE  Flow(S, evs, cmds2, j2)
  <2>1. Known(S, evs, cmds2, j2)
    BY <1>1, <1>4 DEF Flow, Known
  <2>2. Ascending(evs, j2)
    BY <1>4 DEF Flow, Ascending
  <2>3. Fresh(evs, cmds2, j2)
    <3> SUFFICES ASSUME NEW i \in DOMAIN cmds2, NEW r \in Runs, IsStartOf(cmds2[i], r)
                 PROVE  /\ j2.run # r
                        /\ \A k \in DOMAIN evs : ~IsEventOf(evs[k], r)
                        /\ \A k \in DOMAIN cmds2 : IsStartOf(cmds2[k], r) => k = i
      BY DEF Fresh
    <3>1. /\ j.run # r
          /\ \A k \in DOMAIN evs : ~IsEventOf(evs[k], r)
          /\ \A k \in DOMAIN cmds : IsStartOf(cmds[k], r) => k = i + d
      BY <1>1, <1>4 DEF Flow, Fresh
    <3>2. ASSUME NEW k \in DOMAIN cmds2, IsStartOf(cmds2[k], r)
          PROVE  k = i
      <4>1. k + d = i + d
        BY <1>1, <3>1, <3>2
      <4>. QED  BY <1>2, <4>1
    <3>. QED  BY <3>1, <3>2
  <2>. QED  BY <2>1, <2>2, <2>3 DEF Flow
<1>. QED  BY <1>3, <1>4

(* A command that is no start, or the start of a run not handed out yet. *)
LEMMA CommandPosted ==
    ASSUME NEW S \in SUBSET Runs, NEW evs, NEW cmds, NEW j, NEW m \in HostToWorker,
           Typed(evs, cmds, j), Flow(S, evs, cmds, j), m.type = "start" => m.run \notin S
    PROVE  /\ Flow(S \cup {m.run}, evs, Append(cmds, m), j)
           /\ m.type # "start" => Flow(S, evs, Append(cmds, m), j)
           /\ m.type # "start" => \A r, last : Ahead(evs, cmds, j, r, last)
                                     => Ahead(evs, Append(cmds, m), j, r, last)
           /\ m.type = "start" => Ahead(evs, Append(cmds, m), j, m.run, 0)
<1> DEFINE more == Append(cmds, m)
<1>1. \A i \in DOMAIN more : \/ i \in DOMAIN cmds /\ more[i] = cmds[i]
                             \/ i = Len(cmds) + 1 /\ more[i] = m
  BY DEF Typed
<1>2. m.run \in Runs /\ m.run # None
  BY NoneAssumption DEF HostToWorker
<1>3. Known(S \cup {m.run}, evs, more, j) /\ (m.type # "start" => Known(S, evs, more, j))
  BY <1>1 DEF Flow, Known
<1>4. Ascending(evs, j)
  BY DEF Flow
<1>5. Fresh(evs, more, j)
  <2> SUFFICES ASSUME NEW i \in DOMAIN more, NEW r \in Runs, IsStartOf(more[i], r)
               PROVE  /\ j.run # r
                      /\ \A k \in DOMAIN evs : ~IsEventOf(evs[k], r)
                      /\ \A k \in DOMAIN more : IsStartOf(more[k], r) => k = i
    BY DEF Fresh
  <2>1. CASE i \in DOMAIN cmds /\ more[i] = cmds[i]
    <3>1. r \in S
      BY <2>1 DEF Flow, Known, IsStartOf
    <3>2. ~IsStartOf(m, r)
      BY <3>1 DEF IsStartOf
    <3>. QED  BY <1>1, <2>1, <3>2 DEF Flow, Fresh
  <2>2. CASE i = Len(cmds) + 1 /\ more[i] = m
    <3>1. r \notin S /\ r # None
      BY <1>2, <2>2 DEF IsStartOf
    <3>2. \A k \in DOMAIN cmds : ~IsStartOf(cmds[k], r)
      BY <3>1 DEF Flow, Known, IsStartOf
    <3>3. \A k \in DOMAIN evs : ~IsEventOf(evs[k], r)
      BY <3>1 DEF Flow, Known, IsEventOf
    <3>. QED  BY <1>1, <2>2, <3>1, <3>2, <3>3 DEF Flow, Known
  <2>. QED  BY <1>1, <2>1, <2>2
<1>6. m.type # "start" => \A r, last : Ahead(evs, cmds, j, r, last) => Ahead(evs, more, j, r, last)
  BY <1>1 DEF Ahead, IsStartOf
<1>7. m.type = "start" => Ahead(evs, more, j, m.run, 0)
  BY <1>2 DEF Ahead, Flow, Known, IsEventOf, IsStartOf
<1>. QED  BY <1>3, <1>4, <1>5, <1>6, <1>7 DEF Flow

(* The host takes the next message; what is left is newer than an event taken. *)
LEMMA MessageTaken ==
    ASSUME NEW S, NEW evs, NEW cmds, NEW j, evs # <<>>,
           Typed(evs, cmds, j), Flow(S, evs, cmds, j)
    PROVE  /\ Flow(S, Tail(evs), cmds, j)
           /\ \A r, last : Ahead(evs, cmds, j, r, last) => Ahead(Tail(evs), cmds, j, r, last)
           /\ \A r \in Runs : IsEventOf(Head(evs), r)
                                => Ahead(Tail(evs), cmds, j, r, Head(evs).event.seq)
<1>1. \A i \in DOMAIN Tail(evs) : i + 1 \in DOMAIN evs /\ Tail(evs)[i] = evs[i + 1] /\ i \in Nat /\ 1 < i + 1
  BY DEF Typed
<1>2. 1 \in DOMAIN evs /\ Head(evs) = evs[1]
  BY DEF Typed
<1>3. Flow(S, Tail(evs), cmds, j)
  <2>1. Known(S, Tail(evs), cmds, j)
    BY <1>1 DEF Flow, Known
  <2>2. Ascending(Tail(evs), j)
    <3>1. ASSUME NEW i \in DOMAIN Tail(evs), NEW k \in DOMAIN Tail(evs), NEW r \in Runs, i < k,
                 IsEventOf(Tail(evs)[i], r), IsEventOf(Tail(evs)[k], r)
          PROVE  Tail(evs)[i].event.seq < Tail(evs)[k].event.seq
      <4>1. i + 1 < k + 1
        BY <1>1, <3>1
      <4>. QED  BY <1>1, <3>1, <4>1 DEF Flow, Ascending
    <3>2. \A i \in DOMAIN Tail(evs) : IsEventOf(Tail(evs)[i], j.run) => Tail(evs)[i].event.seq <= j.seq
      BY <1>1 DEF Flow, Ascending
    <3>. QED  BY <3>1, <3>2 DEF Ascending
  <2>3. Fresh(Tail(evs), cmds, j)
    BY <1>1 DEF Flow, Fresh
  <2>. QED  BY <2>1, <2>2, <2>3 DEF Flow
<1>4. \A r, last : Ahead(evs, cmds, j, r, last) => Ahead(Tail(evs), cmds, j, r, last)
  BY <1>1 DEF Ahead
<1>5. ASSUME NEW r \in Runs, IsEventOf(Head(evs), r)
      PROVE  Ahead(Tail(evs), cmds, j, r, Head(evs).event.seq)
  <2>1. \A i \in DOMAIN Tail(evs) : IsEventOf(Tail(evs)[i], r)
                                      => Head(evs).event.seq < Tail(evs)[i].event.seq
    BY <1>1, <1>2, <1>5 DEF Flow, Ascending
  <2>2. j.run = r => Head(evs).event.seq <= j.seq
    BY <1>2, <1>5 DEF Flow, Ascending
  <2>3. \A i \in DOMAIN cmds : ~IsStartOf(cmds[i], r)
    BY <1>2, <1>5 DEF Flow, Fresh
  <2>. QED  BY <2>1, <2>2, <2>3 DEF Ahead
<1>. QED  BY <1>3, <1>4, <1>5

(* A report of CLI groups is no event of any run. *)
LEMMA ReportAdded ==
    ASSUME NEW S, NEW evs, NEW cmds, NEW j, NEW m \in WorkerToHost, m.type = "procs",
           Typed(evs, cmds, j), Flow(S, evs, cmds, j)
    PROVE  /\ Flow(S, Append(evs, m), cmds, j)
           /\ \A r, last : Ahead(evs, cmds, j, r, last) => Ahead(Append(evs, m), cmds, j, r, last)
<1>1. \A i \in DOMAIN Append(evs, m) :
        \/ i \in DOMAIN evs /\ Append(evs, m)[i] = evs[i]
        \/ Append(evs, m)[i].type = "procs"
  BY DEF Typed
<1>2. Known(S, Append(evs, m), cmds, j)
  BY <1>1 DEF Flow, Known
<1>3. Ascending(Append(evs, m), j)
  BY <1>1 DEF Flow, Ascending, IsEventOf
<1>4. Fresh(Append(evs, m), cmds, j)
  BY <1>1 DEF Flow, Fresh, IsEventOf
<1>5. \A r, last : Ahead(evs, cmds, j, r, last) => Ahead(Append(evs, m), cmds, j, r, last)
  BY <1>1 DEF Ahead, IsEventOf
<1>. QED  BY <1>2, <1>3, <1>4, <1>5 DEF Flow

(* The job emits an event: the next number, for what is under way and sent. *)
LEMMA EventAdded ==
    ASSUME NEW S \in SUBSET Runs, NEW evs, NEW cmds, NEW j, NEW j2 \in Jobs,
           NEW k \in ProgressKinds \cup TerminalKinds,
           Typed(evs, cmds, j), Flow(S, evs, cmds, j), j.run \in Runs,
           j2.run = j.run, j2.seq = j.seq + 1
    PROVE  LET more == Append(evs, EventMsg(Event(j.run, j.seq + 1, k)))
           IN  /\ Flow(S, more, cmds, j2)
               /\ \A r \in Runs, last \in Nat : Ahead(evs, cmds, j, r, last) => Ahead(more, cmds, j2, r, last)
<1> DEFINE m == EventMsg(Event(j.run, j.seq + 1, k))
           more == Append(evs, m)
<1>1. /\ m.type = "event" /\ m.event.run = j.run /\ m.event.seq = j.seq + 1
      /\ j.seq \in Nat /\ m \in WorkerToHost
  <2>1. j.seq \in Nat /\ j.seq + 1 \in Nat
    BY DEF Typed, Jobs
  <2>. QED  BY <2>1, EventType DEF EventMsg, Event
<1>2. \A i \in DOMAIN more : \/ i \in DOMAIN evs /\ i < Len(evs) + 1 /\ more[i] = evs[i]
                             \/ i = Len(evs) + 1 /\ more[i] = m
  BY DEF Typed
<1>3. \A i \in DOMAIN evs : i \in Nat /\ (evs[i].type = "event" => evs[i].event.seq \in Nat)
  <2>1. \A i \in DOMAIN evs : i \in Nat /\ evs[i] \in WorkerToHost
    BY DEF Typed
  <2>2. \A n \in WorkerToHost : n.type = "event" => n.event.seq \in Nat
    BY DEF WorkerToHost, Events
  <2>. QED  BY <2>1, <2>2
<1>4. Known(S, more, cmds, j2)
  <2>1. j.run \in S
    BY NoneAssumption DEF Flow, Known
  <2>. QED  BY <1>1, <1>2, <2>1 DEF Flow, Known
<1>5. Ascending(more, j2)
  <2>1. ASSUME NEW i \in DOMAIN more, NEW l \in DOMAIN more, NEW r \in Runs, i < l,
               IsEventOf(more[i], r), IsEventOf(more[l], r)
        PROVE  more[i].event.seq < more[l].event.seq
    <3>1. i \in DOMAIN evs /\ more[i] = evs[i]
      BY <1>2, <2>1 DEF Typed
    <3>2. CASE l \in DOMAIN evs /\ more[l] = evs[l]
      BY <2>1, <3>1, <3>2 DEF Flow, Ascending
    <3>3. CASE more[l] = m
      BY <1>1, <1>3, <2>1, <3>1, <3>3 DEF Flow, Ascending, IsEventOf
    <3>. QED  BY <1>2, <3>2, <3>3
  <2>2. ASSUME NEW i \in DOMAIN more, IsEventOf(more[i], j2.run)
        PROVE  more[i].event.seq <= j2.seq
    BY <1>1, <1>2, <1>3, <2>2 DEF Flow, Ascending, IsEventOf
  <2>. QED  BY <2>1, <2>2 DEF Ascending
<1>6. Fresh(more, cmds, j2)
  BY <1>1, <1>2 DEF Flow, Fresh, IsEventOf
<1>7. \A r \in Runs, last \in Nat : Ahead(evs, cmds, j, r, last) => Ahead(more, cmds, j2, r, last)
  BY <1>1, <1>2 DEF Ahead, IsEventOf
<1>. QED  BY <1>4, <1>5, <1>6, <1>7 DEF Flow

(* The head of a queue of commands is its first. *)
LEMMA FirstCommand ==
    ASSUME NEW cmds \in Seq(HostToWorker), cmds # <<>>, Head(cmds).type = "start"
    PROVE  /\ Head(cmds) = cmds[1] /\ 1 \in DOMAIN cmds
           /\ Head(cmds).run \in Runs
           /\ IsStartOf(cmds[1], Head(cmds).run)
<1>1. Head(cmds) = cmds[1] /\ 1 \in DOMAIN cmds /\ Head(cmds) \in HostToWorker
  OBVIOUS
<1>2. \A m \in HostToWorker : m.run \in Runs
  BY DEF HostToWorker
<1>. QED  BY <1>1, <1>2 DEF IsStartOf

(* A start taken while the worker is busy: the new run fails with event 1. *)
LEMMA StartRefusedByWorker ==
    ASSUME NEW S \in SUBSET Runs, NEW evs, NEW cmds, NEW j,
           Typed(evs, cmds, j), Flow(S, evs, cmds, j),
           cmds # <<>>, Head(cmds).type = "start"
    PROVE  LET more == Append(evs, EventMsg(Event(Head(cmds).run, 1, "end")))
           IN  /\ Flow(S, more, Tail(cmds), j)
               /\ \A r, last : Ahead(evs, cmds, j, r, last) => Ahead(more, Tail(cmds), j, r, last)
<1> DEFINE q == Head(cmds).run
           m == EventMsg(Event(q, 1, "end"))
           more == Append(evs, m)
<1>1. Head(cmds) = cmds[1] /\ 1 \in DOMAIN cmds /\ q \in Runs /\ IsStartOf(cmds[1], q)
  BY FirstCommand DEF Typed
<1>2. /\ q \in S /\ j.run # q
      /\ \A i \in DOMAIN evs : ~IsEventOf(evs[i], q)
      /\ \A i \in DOMAIN cmds : IsStartOf(cmds[i], q) => i = 1
  BY <1>1 DEF Flow, Fresh, Known, IsStartOf
<1>3. m.type = "event" /\ m.event.run = q /\ m.event.seq = 1 /\ m \in WorkerToHost
  BY <1>1, EventType DEF EventMsg, Event, TerminalKinds
<1>4. \A i \in DOMAIN more : \/ i \in DOMAIN evs /\ i < Len(evs) + 1 /\ more[i] = evs[i]
                             \/ i = Len(evs) + 1 /\ more[i] = m
  BY DEF Typed
<1>5. \A i \in DOMAIN Tail(cmds) : i \in Nat /\ i + 1 \in DOMAIN cmds /\ i + 1 # 1 /\ Tail(cmds)[i] = cmds[i + 1]
  BY DEF Typed
<1>6. Known(S, more, Tail(cmds), j)
  BY <1>2, <1>3, <1>4, <1>5 DEF Flow, Known
<1>7. Ascending(more, j)
  <2>1. ASSUME NEW i \in DOMAIN more, NEW l \in DOMAIN more, NEW r \in Runs, i < l,
               IsEventOf(more[i], r), IsEventOf(more[l], r)
        PROVE  more[i].event.seq < more[l].event.seq
    <3>1. i \in DOMAIN evs /\ more[i] = evs[i]
      BY <1>4, <2>1 DEF Typed
    <3>2. r # q
      BY <1>2, <2>1, <3>1
    <3>3. l \in DOMAIN evs /\ more[l] = evs[l]
      BY <1>3, <1>4, <2>1, <3>2 DEF IsEventOf
    <3>. QED  BY <2>1, <3>1, <3>3 DEF Flow, Ascending
  <2>2. \A i \in DOMAIN more : IsEventOf(more[i], j.run) => more[i].event.seq <= j.seq
    BY <1>2, <1>3, <1>4 DEF Flow, Ascending, IsEventOf
  <2>. QED  BY <2>1, <2>2 DEF Ascending
<1>8. Fresh(more, Tail(cmds), j)
  <2> SUFFICES ASSUME NEW i \in DOMAIN Tail(cmds), NEW r \in Runs, IsStartOf(Tail(cmds)[i], r)
               PROVE  /\ j.run # r
                      /\ \A k \in DOMAIN more : ~IsEventOf(more[k], r)
                      /\ \A k \in DOMAIN Tail(cmds) : IsStartOf(Tail(cmds)[k], r) => k = i
    BY DEF Fresh
  <2>1. /\ j.run # r
        /\ \A k \in DOMAIN evs : ~IsEventOf(evs[k], r)
        /\ \A k \in DOMAIN cmds : IsStartOf(cmds[k], r) => k = i + 1
    BY <1>5 DEF Flow, Fresh
  <2>2. r # q
    BY <1>2, <1>5
  <2>3. ASSUME NEW k \in DOMAIN Tail(cmds), IsStartOf(Tail(cmds)[k], r)
        PROVE  k = i
    <3>1. k + 1 = i + 1
      BY <1>5, <2>1, <2>3
    <3>. QED  BY <1>5, <3>1
  <2>. QED  BY <1>3, <1>4, <2>1, <2>2, <2>3 DEF IsEventOf
<1>9. \A r, last : Ahead(evs, cmds, j, r, last) => Ahead(more, Tail(cmds), j, r, last)
  BY <1>1, <1>3, <1>4, <1>5 DEF Ahead, IsEventOf, IsStartOf
<1>. QED  BY <1>6, <1>7, <1>8, <1>9 DEF Flow

(* A start taken while the worker is idle: the run becomes its job. *)
LEMMA JobStarts ==
    ASSUME NEW S \in SUBSET Runs, NEW evs, NEW cmds, NEW j,
           Typed(evs, cmds, j), Flow(S, evs, cmds, j),
           cmds # <<>>, Head(cmds).type = "start"
    PROVE  /\ Flow(S, evs, Tail(cmds), NewJob(Head(cmds).run))
           /\ \A r, last : Ahead(evs, cmds, j, r, last)
                             => Ahead(evs, Tail(cmds), NewJob(Head(cmds).run), r, last)
<1> DEFINE q == Head(cmds).run
<1>0. NewJob(q).run = q /\ NewJob(q).seq = 0
  BY DEF NewJob
<1>1. Head(cmds) = cmds[1] /\ 1 \in DOMAIN cmds /\ q \in Runs /\ IsStartOf(cmds[1], q)
  BY FirstCommand DEF Typed
<1>2. /\ q \in S
      /\ \A i \in DOMAIN evs : ~IsEventOf(evs[i], q)
      /\ \A i \in DOMAIN cmds : IsStartOf(cmds[i], q) => i = 1
  BY <1>1 DEF Flow, Fresh, Known, IsStartOf
<1>3. \A i \in DOMAIN Tail(cmds) : i \in Nat /\ i + 1 \in DOMAIN cmds /\ i + 1 # 1 /\ Tail(cmds)[i] = cmds[i + 1]
  BY DEF Typed
<1>4. Known(S, evs, Tail(cmds), NewJob(q))
  BY <1>0, <1>2, <1>3 DEF Flow, Known
<1>5. Ascending(evs, NewJob(q))
  BY <1>0, <1>2 DEF Flow, Ascending
<1>6. Fresh(evs, Tail(cmds), NewJob(q))
  <2> SUFFICES ASSUME NEW i \in DOMAIN Tail(cmds), NEW r \in Runs, IsStartOf(Tail(cmds)[i], r)
               PROVE  /\ q # r
                      /\ \A k \in DOMAIN evs : ~IsEventOf(evs[k], r)
                      /\ \A k \in DOMAIN Tail(cmds) : IsStartOf(Tail(cmds)[k], r) => k = i
    BY <1>0 DEF Fresh
  <2>1. /\ \A k \in DOMAIN evs : ~IsEventOf(evs[k], r)
        /\ \A k \in DOMAIN cmds : IsStartOf(cmds[k], r) => k = i + 1
    BY <1>3 DEF Flow, Fresh
  <2>2. r # q
    BY <1>2, <1>3
  <2>3. ASSUME NEW k \in DOMAIN Tail(cmds), IsStartOf(Tail(cmds)[k], r)
        PROVE  k = i
    <3>1. k + 1 = i + 1
      BY <1>3, <2>1, <2>3
    <3>. QED  BY <1>3, <3>1
  <2>. QED  BY <2>1, <2>2, <2>3
<1>7. \A r, last : Ahead(evs, cmds, j, r, last) => Ahead(evs, Tail(cmds), NewJob(q), r, last)
  BY <1>0, <1>1, <1>3 DEF Ahead, IsStartOf
<1>. QED  BY <1>4, <1>5, <1>6, <1>7 DEF Flow

(* The worker exits: its job and the commands to it are gone. *)
LEMMA WorkerExits ==
    ASSUME NEW S \in SUBSET Runs, NEW evs, NEW cmds, NEW j,
           Typed(evs, cmds, j), Flow(S, evs, cmds, j)
    PROVE  /\ Flow(S, evs, <<>>, NoJob)
           /\ \A r \in Runs : \A last : Ahead(evs, cmds, j, r, last) => Ahead(evs, <<>>, NoJob, r, last)
<1>1. NoJob.run = None
  BY DEF NoJob, NewJob
<1>2. \A i \in DOMAIN evs : ~IsEventOf(evs[i], None)
  BY NoneAssumption DEF Flow, Known, IsEventOf
<1>3. Known(S, evs, <<>>, NoJob)
  BY <1>1 DEF Flow, Known
<1>4. Ascending(evs, NoJob)
  BY <1>1, <1>2 DEF Flow, Ascending
<1>5. Fresh(evs, <<>>, NoJob)
  BY DEF Fresh
<1>6. \A r \in Runs : \A last : Ahead(evs, cmds, j, r, last) => Ahead(evs, <<>>, NoJob, r, last)
  BY <1>1, NoneAssumption DEF Ahead
<1>. QED  BY <1>3, <1>4, <1>5, <1>6 DEF Flow

-----------------------------------------------------------------------------
(* The steps of the system. *)

(* A step keeps every worker's Flow, and what is ahead of any run's events. *)
StreamsKept ==
    /\ \A v \in Workers : Flow(started', toHost'[v], toWorker'[v], job'[v])
    /\ \A v \in Workers, r \in Runs, last \in Nat :
         AheadOf(v, r, last) => Ahead(toHost'[v], toWorker'[v], job'[v], r, last)

LEMMA TypedWorker == ASSUME TypeOK, NEW w \in Workers
                     PROVE  Typed(toHost[w], toWorker[w], job[w]) /\ started \in SUBSET Runs
BY DEF TypeOK, Typed

(* That is enough when the host does not change what it follows. *)
LEMMA FollowingSame ==
    ASSUME OrderInv, TypeOK', StreamsKept,
           UNCHANGED <<started, sent, hostRun, hostWorker, lastSeq>>
    PROVE  OrderInv'
<1>1. SentBelow'
  BY DEF OrderInv, SentBelow
<1>2. \A w \in Workers : FlowOf(w)'
  BY DEF StreamsKept, FlowOf
<1>3. ASSUME (hostRun # None /\ hostWorker # None)'
      PROVE  AheadOf(hostWorker, hostRun, lastSeq)'
  <2>1. AheadOf(hostWorker, hostRun, lastSeq)
    BY <1>3 DEF OrderInv
  <2>2. hostWorker \in Workers /\ hostRun \in Runs /\ lastSeq \in Nat
    BY <1>3 DEF OrderInv, TypeOK
  <2>3. Ahead(toHost'[hostWorker], toWorker'[hostWorker], job'[hostWorker], hostRun, lastSeq)
    BY <2>1, <2>2 DEF StreamsKept
  <2>. QED  BY <2>3 DEF AheadOf
<1>. QED  BY <1>1, <1>2, <1>3 DEF OrderInv

(* A step of one worker: it suffices to look at that worker. *)
LEMMA OneWorker ==
    ASSUME OrderInv, NEW w \in Workers, UNCHANGED started,
           \A v \in Workers : v # w => /\ toHost'[v] = toHost[v]
                                       /\ toWorker'[v] = toWorker[v]
                                       /\ job'[v] = job[v],
           Flow(started, toHost'[w], toWorker'[w], job'[w]),
           \A r \in Runs, last \in Nat :
             AheadOf(w, r, last) => Ahead(toHost'[w], toWorker'[w], job'[w], r, last)
    PROVE  StreamsKept
<1>1. \A v \in Workers : Flow(started', toHost'[v], toWorker'[v], job'[v])
  BY DEF OrderInv, FlowOf
<1>2. \A v \in Workers, r \in Runs, last \in Nat :
        AheadOf(v, r, last) => Ahead(toHost'[v], toWorker'[v], job'[v], r, last)
  BY DEF AheadOf
<1>. QED  BY <1>1, <1>2 DEF StreamsKept

(* A worker that takes a command, and adds no event. *)
LEMMA CommandTaken ==
    ASSUME OrderInv, NEW w \in Workers, NEW j \in Jobs, UNCHANGED <<started, toHost>>,
           job' = [job EXCEPT ![w] = j], j.run = job[w].run, j.seq = job[w].seq,
           \/ UNCHANGED toWorker
           \/ toWorker[w] # <<>> /\ toWorker' = [toWorker EXCEPT ![w] = Tail(@)]
    PROVE  StreamsKept
<1>1. Typed(toHost[w], toWorker[w], job[w]) /\ FlowOf(w)
  BY TypedWorker DEF OrderInv
<1>2. /\ job'[w] = j /\ toHost'[w] = toHost[w]
      /\ \/ toWorker'[w] = toWorker[w]
         \/ toWorker[w] # <<>> /\ toWorker'[w] = Tail(toWorker[w])
      /\ \A v \in Workers : v # w => toWorker'[v] = toWorker[v] /\ job'[v] = job[v]
  BY DEF OrderInv, TypeOK
<1>3. Typed(toHost[w], toWorker'[w], j)
  <2>1. toWorker[w] # <<>> => Tail(toWorker[w]) \in Seq(HostToWorker)
    BY <1>1 DEF Typed
  <2>. QED  BY <1>1, <1>2, <2>1 DEF Typed
<1>4. /\ Flow(started, toHost[w], toWorker'[w], j)
      /\ \A r, last : AheadOf(w, r, last) => Ahead(toHost[w], toWorker'[w], j, r, last)
  BY <1>1, <1>2, <1>3, FlowShrinks DEF FlowOf, AheadOf
<1>. QED  BY <1>2, <1>4, OneWorker

(* A job that emits an event, taking a command first or not. *)
LEMMA JobEmits ==
    ASSUME OrderInv, NEW w \in Workers, NEW j \in Jobs, UNCHANGED started,
           NEW k \in ProgressKinds \cup TerminalKinds,
           job[w].run \in Runs, j.run = job[w].run, j.seq = job[w].seq + 1,
           job' = [job EXCEPT ![w] = j],
           \/ toHost' = [toHost EXCEPT ![w] = Emit(w, job[w], k)]
           \/ toHost' = [toHost EXCEPT ![w] = Append(Emit(w, job[w], k), ProcsMsg({}))],
           \/ UNCHANGED toWorker
           \/ toWorker[w] # <<>> /\ toWorker' = [toWorker EXCEPT ![w] = Tail(@)]
    PROVE  StreamsKept
<1> DEFINE evs == Emit(w, job[w], k)
<1>1. Typed(toHost[w], toWorker[w], job[w]) /\ FlowOf(w) /\ started \in SUBSET Runs
  BY TypedWorker DEF OrderInv
<1>2. /\ job'[w] = j
      /\ toHost'[w] \in {evs, Append(evs, ProcsMsg({}))}
      /\ \/ toWorker'[w] = toWorker[w]
         \/ toWorker[w] # <<>> /\ toWorker'[w] = Tail(toWorker[w])
      /\ \A v \in Workers : v # w => /\ toHost'[v] = toHost[v]
                                     /\ toWorker'[v] = toWorker[v]
                                     /\ job'[v] = job[v]
  BY DEF OrderInv, TypeOK
<1>3. /\ Flow(started, evs, toWorker[w], j)
      /\ \A r \in Runs, last \in Nat : AheadOf(w, r, last) => Ahead(evs, toWorker[w], j, r, last)
  BY <1>1, EventAdded DEF FlowOf, AheadOf, Emit
<1>4. evs \in Seq(WorkerToHost)
  <2>1. job[w].seq + 1 \in Nat
    BY <1>1 DEF Typed, Jobs
  <2>2. EventMsg(Event(job[w].run, job[w].seq + 1, k)) \in WorkerToHost
    BY <2>1, EventType
  <2>. QED  BY <1>1, <2>2 DEF Typed, Emit
<1>5. Typed(evs, toWorker[w], j) /\ Typed(evs, toWorker'[w], j)
  <2>1. toWorker[w] # <<>> => Tail(toWorker[w]) \in Seq(HostToWorker)
    BY <1>1 DEF Typed
  <2>. QED  BY <1>1, <1>2, <1>4, <2>1 DEF Typed
<1>6. /\ Flow(started, evs, toWorker'[w], j)
      /\ \A r \in Runs, last \in Nat : AheadOf(w, r, last) => Ahead(evs, toWorker'[w], j, r, last)
  BY <1>2, <1>3, <1>5, FlowShrinks
<1>7. ProcsMsg({}) \in WorkerToHost /\ ProcsMsg({}).type = "procs"
  BY DEF ProcsMsg, WorkerToHost
<1>8. /\ Flow(started, toHost'[w], toWorker'[w], j)
      /\ \A r \in Runs, last \in Nat : AheadOf(w, r, last) => Ahead(toHost'[w], toWorker'[w], j, r, last)
  <2>1. /\ Flow(started, Append(evs, ProcsMsg({})), toWorker'[w], j)
        /\ \A r, last : Ahead(evs, toWorker'[w], j, r, last)
                          => Ahead(Append(evs, ProcsMsg({})), toWorker'[w], j, r, last)
    BY <1>5, <1>6, <1>7, ReportAdded
  <2>2. CASE toHost'[w] = evs
    BY <1>6, <2>2
  <2>3. CASE toHost'[w] = Append(evs, ProcsMsg({}))
    <3>. HIDE DEF evs
    <3>. QED  BY <1>6, <2>1, <2>3
  <2>. QED  BY <1>2, <2>2, <2>3
<1>. QED  BY <1>2, <1>8, OneWorker

(* A step of a worker. *)
LEMMA WorkerOrder ==
    ASSUME OrderInv, NEW w \in Workers, WorkerStep(w)
    PROVE  OrderInv'
<1> USE NoneAssumption DEF hostVars, workerVars, cliVars
<1>0. TypeOK /\ TypeOK' /\ job[w] \in Jobs /\ job' \in [Workers -> Jobs]
  <2>1. TypeOK
    BY DEF OrderInv
  <2>. QED  BY <2>1, WorkerType DEF TypeOK
<1>1. Typed(toHost[w], toWorker[w], job[w]) /\ FlowOf(w) /\ started \in SUBSET Runs
  BY <1>0, TypedWorker DEF OrderInv
<1>2. UNCHANGED <<started, sent, hostRun, hostWorker, lastSeq>>
  BY DEF WorkerStep, HandleStart, HandleStop, HandleAnswer, Progress, Ask, RunEnds,
         SpawnCli, ReportProcs, HandleSigterm, Crash, Exit
<1>3. Busy(w) => job[w].run \in Runs
  BY <1>0 DEF Busy, Jobs
<1>4. job'[w] \in Jobs
  BY <1>0
<1>5. CASE HandleStart(w)
  <2> DEFINE q == Head(toWorker[w]).run
  <2>1. /\ toWorker[w] # <<>> /\ Head(toWorker[w]).type = "start"
        /\ toWorker' = [toWorker EXCEPT ![w] = Tail(@)]
    BY <1>5 DEF HandleStart
  <2>2. CASE Busy(w)
    <3>1. /\ UNCHANGED job
          /\ toHost' = [toHost EXCEPT ![w] = Emit(w, NewJob(q), "end")]
      BY <1>5, <2>2 DEF HandleStart
    <3>2. Emit(w, NewJob(q), "end") = Append(toHost[w], EventMsg(Event(q, 1, "end")))
      BY DEF Emit, NewJob
    <3>3. /\ Flow(started, toHost'[w], toWorker'[w], job'[w])
          /\ \A r, last : AheadOf(w, r, last) => Ahead(toHost'[w], toWorker'[w], job'[w], r, last)
      <4>1. /\ toHost'[w] = Append(toHost[w], EventMsg(Event(q, 1, "end")))
            /\ toWorker'[w] = Tail(toWorker[w]) /\ job'[w] = job[w]
        BY <1>0, <2>1, <3>1, <3>2 DEF TypeOK
      <4>2. /\ Flow(started, Append(toHost[w], EventMsg(Event(q, 1, "end"))),
                    Tail(toWorker[w]), job[w])
            /\ \A r, last : AheadOf(w, r, last)
                 => Ahead(Append(toHost[w], EventMsg(Event(q, 1, "end"))),
                          Tail(toWorker[w]), job[w], r, last)
        BY <1>1, <2>1, StartRefusedByWorker DEF FlowOf, AheadOf
      <4>. QED  BY <4>1, <4>2
    <3>4. \A v \in Workers : v # w => /\ toHost'[v] = toHost[v]
                                      /\ toWorker'[v] = toWorker[v]
                                      /\ job'[v] = job[v]
      BY <1>0, <2>1, <3>1 DEF TypeOK
    <3>. QED  BY <1>0, <1>2, <3>3, <3>4, OneWorker, FollowingSame
  <2>3. CASE ~Busy(w)
    <3>1. job' = [job EXCEPT ![w] = NewJob(q)] /\ UNCHANGED toHost
      BY <1>5, <2>3 DEF HandleStart
    <3>2. /\ Flow(started, toHost'[w], toWorker'[w], job'[w])
          /\ \A r, last : AheadOf(w, r, last) => Ahead(toHost'[w], toWorker'[w], job'[w], r, last)
      <4>1. toHost'[w] = toHost[w] /\ toWorker'[w] = Tail(toWorker[w]) /\ job'[w] = NewJob(q)
        BY <1>0, <2>1, <3>1 DEF TypeOK
      <4>. QED  BY <1>1, <2>1, <4>1, JobStarts DEF FlowOf, AheadOf
    <3>3. \A v \in Workers : v # w => /\ toHost'[v] = toHost[v]
                                      /\ toWorker'[v] = toWorker[v]
                                      /\ job'[v] = job[v]
      BY <1>0, <2>1, <3>1 DEF TypeOK
    <3>. QED  BY <1>0, <1>2, <3>2, <3>3, OneWorker, FollowingSame
  <2>. QED  BY <2>2, <2>3
<1>6. CASE HandleStop(w)
  <2>1. /\ UNCHANGED <<started, toHost>>
        /\ toWorker[w] # <<>> /\ toWorker' = [toWorker EXCEPT ![w] = Tail(@)]
        /\ \/ job' = job
           \/ job' = [job EXCEPT ![w].aborted = TRUE, ![w].question = 0]
    BY <1>6 DEF HandleStop
  <2>2. /\ job' = [job EXCEPT ![w] = job'[w]]
        /\ job'[w].run = job[w].run /\ job'[w].seq = job[w].seq
    BY <1>0, <2>1 DEF TypeOK, Jobs
  <2>. QED  BY <1>0, <1>2, <1>4, <2>1, <2>2, CommandTaken, FollowingSame
<1>7. CASE HandleAnswer(w)
  <2>1. /\ UNCHANGED started
        /\ toWorker[w] # <<>> /\ toWorker' = [toWorker EXCEPT ![w] = Tail(@)]
    BY <1>7 DEF HandleAnswer
  <2>2. CASE UNCHANGED <<toHost, job>>
    <3>1. job' = [job EXCEPT ![w] = job[w]]
      BY <1>0, <2>2
    <3>. QED  BY <1>0, <1>2, <2>1, <2>2, <3>1, CommandTaken, FollowingSame
  <2>3. CASE ~UNCHANGED <<toHost, job>>
    <3>1. /\ toHost' = [toHost EXCEPT ![w] = Emit(w, job[w], "progress")]
          /\ job' = [job EXCEPT ![w].seq = @ + 1, ![w].question = 0]
          /\ job[w].run = Head(toWorker[w]).run
      BY <1>7, <2>3 DEF HandleAnswer
    <3>2. job[w].run \in Runs
      <4>1. Head(toWorker[w]) \in HostToWorker
        BY <1>1, <2>1 DEF Typed
      <4>. QED  BY <3>1, <4>1 DEF HostToWorker
    <3>3. /\ job' = [job EXCEPT ![w] = job'[w]]
          /\ job'[w].run = job[w].run /\ job'[w].seq = job[w].seq + 1
      BY <1>0, <3>1 DEF TypeOK, Jobs
    <3>. QED  BY <1>0, <1>2, <1>4, <2>1, <3>1, <3>2, <3>3, JobEmits, FollowingSame
              DEF ProgressKinds
  <2>. QED  BY <2>2, <2>3
<1>8. CASE Progress(w)
  <2>1. /\ UNCHANGED <<started, toWorker>> /\ job[w].run \in Runs
        /\ toHost' = [toHost EXCEPT ![w] = Emit(w, job[w], "progress")]
        /\ job' = [job EXCEPT ![w].seq = @ + 1]
    BY <1>3, <1>8 DEF Progress, MayTalk
  <2>2. /\ job' = [job EXCEPT ![w] = job'[w]]
        /\ job'[w].run = job[w].run /\ job'[w].seq = job[w].seq + 1
    BY <1>0, <2>1 DEF TypeOK, Jobs
  <2>. QED  BY <1>0, <1>2, <1>4, <2>1, <2>2, JobEmits, FollowingSame DEF ProgressKinds
<1>9. CASE Ask(w)
  <2>1. /\ UNCHANGED <<started, toWorker>> /\ job[w].run \in Runs
        /\ toHost' = [toHost EXCEPT ![w] = Emit(w, job[w], "progress")]
        /\ job' = [job EXCEPT ![w].seq = @ + 1, ![w].asked = @ + 1,
                        ![w].question = IF job[w].aborted THEN 0 ELSE job[w].asked + 1]
    BY <1>3, <1>9 DEF Ask, MayTalk
  <2>2. /\ job' = [job EXCEPT ![w] = job'[w]]
        /\ job'[w].run = job[w].run /\ job'[w].seq = job[w].seq + 1
    BY <1>0, <2>1 DEF TypeOK, Jobs
  <2>. QED  BY <1>0, <1>2, <1>4, <2>1, <2>2, JobEmits, FollowingSame DEF ProgressKinds
<1>10. CASE RunEnds(w)
  <2>1. /\ UNCHANGED <<started, toWorker>> /\ job[w].run \in Runs
        /\ job' = [job EXCEPT ![w].seq = @ + 1, ![w].done = TRUE]
    BY <1>3, <1>10 DEF RunEnds
  <2>2. \/ toHost' = [toHost EXCEPT ![w] = Emit(w, job[w], "end")]
        \/ toHost' = [toHost EXCEPT ![w] = Append(Emit(w, job[w], "end"), ProcsMsg({}))]
    BY <1>10 DEF RunEnds
  <2>3. /\ job' = [job EXCEPT ![w] = job'[w]]
        /\ job'[w].run = job[w].run /\ job'[w].seq = job[w].seq + 1
    BY <1>0, <2>1 DEF TypeOK, Jobs
  <2>4. "end" \in ProgressKinds \cup TerminalKinds
    BY DEF TerminalKinds
  <2>. QED  BY <1>0, <1>2, <1>4, <2>1, <2>2, <2>3, <2>4, JobEmits, FollowingSame
<1>11. CASE SpawnCli(w)
  <2>1. UNCHANGED <<started, toHost, toWorker, job>>
    BY <1>11 DEF SpawnCli
  <2>2. job' = [job EXCEPT ![w] = job[w]]
    BY <1>0, <2>1
  <2>. QED  BY <1>0, <1>2, <2>1, <2>2, CommandTaken, FollowingSame
<1>12. CASE ReportProcs(w)
  <2>1. /\ UNCHANGED <<toWorker, job>>
        /\ toHost' = [toHost EXCEPT ![w] = Append(@, ProcsMsg(Live(w)))]
    BY <1>12 DEF ReportProcs
  <2>2. ProcsMsg(Live(w)) \in WorkerToHost /\ ProcsMsg(Live(w)).type = "procs"
    BY <1>0 DEF TypeOK, Live, ProcsMsg, WorkerToHost
  <2>3. /\ toHost'[w] = Append(toHost[w], ProcsMsg(Live(w)))
        /\ \A v \in Workers : v # w => toHost'[v] = toHost[v]
    BY <1>0, <2>1 DEF TypeOK
  <2>4. /\ Flow(started, toHost'[w], toWorker'[w], job'[w])
        /\ \A r, last : AheadOf(w, r, last) => Ahead(toHost'[w], toWorker'[w], job'[w], r, last)
    BY <1>1, <2>1, <2>2, <2>3, ReportAdded DEF FlowOf, AheadOf
  <2>. QED  BY <1>0, <1>2, <2>1, <2>3, <2>4, OneWorker, FollowingSame
<1>13. ASSUME Exit(w)
       PROVE  OrderInv'
  <2>1. /\ toHost'[w] = toHost[w] /\ toWorker'[w] = <<>> /\ job'[w] = NoJob
        /\ \A v \in Workers : v # w => /\ toHost'[v] = toHost[v]
                                       /\ toWorker'[v] = toWorker[v]
                                       /\ job'[v] = job[v]
    BY <1>0, <1>13 DEF TypeOK, Exit
  <2>2. /\ Flow(started, toHost'[w], toWorker'[w], job'[w])
        /\ \A r \in Runs : \A last : AheadOf(w, r, last)
             => Ahead(toHost'[w], toWorker'[w], job'[w], r, last)
    BY <1>1, <2>1, WorkerExits DEF FlowOf, AheadOf
  <2>. QED  BY <1>0, <1>2, <2>1, <2>2, OneWorker, FollowingSame
<1>. QED
  BY <1>5, <1>6, <1>7, <1>8, <1>9, <1>10, <1>11, <1>12, <1>13
     DEF WorkerStep, HandleSigterm, Crash

(* A command posted to the current worker that starts nothing. *)
LEMMA PostOrder ==
    ASSUME OrderInv, NEW w \in Workers, NEW m \in HostToWorker, m.type # "start",
           Post(w, m), UNCHANGED <<started, toHost, job>>
    PROVE  StreamsKept
<1>1. Typed(toHost[w], toWorker[w], job[w]) /\ FlowOf(w) /\ started \in SUBSET Runs
  BY TypedWorker DEF OrderInv
<1>2. /\ toWorker'[w] \in {toWorker[w], Append(toWorker[w], m)}
      /\ \A v \in Workers : v # w => toWorker'[v] = toWorker[v]
  BY DEF OrderInv, TypeOK, Post
<1>3. /\ Flow(started, toHost[w], toWorker'[w], job[w])
      /\ \A r, last : AheadOf(w, r, last) => Ahead(toHost[w], toWorker'[w], job[w], r, last)
  <2>1. /\ Flow(started, toHost[w], Append(toWorker[w], m), job[w])
        /\ \A r, last : AheadOf(w, r, last)
             => Ahead(toHost[w], Append(toWorker[w], m), job[w], r, last)
    BY <1>1, CommandPosted DEF FlowOf, AheadOf
  <2>. QED  BY <1>1, <1>2, <2>1 DEF FlowOf, AheadOf
<1>. QED  BY <1>2, <1>3, OneWorker

(* A run handed out now: nothing of it is under way but its start. *)
LEMMA StartOrder ==
    ASSUME OrderInv, TypeOK', NEW r \in Runs, NEW w \in Workers, StartRun(r, w)
    PROVE  OrderInv'
<1> USE NoneAssumption
<1>1. /\ started' = started \cup {r} /\ r \notin started /\ hostRun' = r /\ lastSeq' = 0
      /\ hostWorker' = w /\ UNCHANGED <<sent, toHost, job>>
      /\ Post(w, ToWorker("start", r, 0))
  BY DEF StartRun, EnsureWorker, workerVars
<1>2. SentBelow'
  BY <1>1 DEF OrderInv, SentBelow
<1>3. ASSUME NEW v \in Workers
      PROVE  Flow(started, toHost[v], toWorker[v], job[v]) /\ Typed(toHost[v], toWorker[v], job[v])
  BY TypedWorker DEF OrderInv, FlowOf
<1>4. /\ ToWorker("start", r, 0) \in HostToWorker
      /\ ToWorker("start", r, 0).type = "start" /\ ToWorker("start", r, 0).run = r
  BY DEF ToWorker, HostToWorker
<1>5. \A v \in Workers :
        \/ toWorker'[v] = toWorker[v]
        \/ v = w /\ toWorker'[v] = Append(toWorker[v], ToWorker("start", r, 0))
  BY <1>1 DEF OrderInv, TypeOK, Post
<1>6. ASSUME NEW v \in Workers
      PROVE  FlowOf(v)'
  <2>1. Flow(started', toHost[v], toWorker[v], job[v])
    BY <1>1, <1>3 DEF Flow, Known
  <2>2. CASE toWorker'[v] = toWorker[v]
    BY <1>1, <2>1, <2>2 DEF FlowOf
  <2>3. CASE toWorker'[v] = Append(toWorker[v], ToWorker("start", r, 0))
    <3>1. started \in SUBSET Runs
      BY DEF OrderInv, TypeOK
    <3>2. Flow(started \cup {r}, toHost[v], Append(toWorker[v], ToWorker("start", r, 0)), job[v])
      BY <1>1, <1>3, <1>4, <3>1, CommandPosted
    <3>. QED  BY <1>1, <2>3, <3>2 DEF FlowOf
  <2>. QED  BY <1>5, <2>2, <2>3
<1>7. AheadOf(hostWorker, hostRun, lastSeq)'
  <2>1. /\ \A i \in DOMAIN toHost[w] : ~IsEventOf(toHost[w][i], r)
        /\ job[w].run # r
    BY <1>1, <1>3 DEF Flow, Known, IsEventOf
  <2>2. Ahead(toHost'[w], toWorker'[w], job'[w], r, 0)
    BY <1>1, <2>1 DEF Ahead
  <2>. QED  BY <1>1, <2>2 DEF AheadOf
<1>. QED  BY <1>2, <1>6, <1>7 DEF OrderInv

(* What the host sends when it ends a run itself follows all it has sent. *)
LEMMA TerminalInOrder ==
    ASSUME TypeOK, SentBelow, hostRun # None, NEW k \in TerminalKinds, EmitTerminal(k)
    PROVE  /\ sent'.run = hostRun /\ hostRun' = None
           /\ sent # None /\ sent.run = sent'.run
                => sent.seq < sent'.seq /\ ~IsTerminalEvent(sent)
           /\ SentBelow' \/ started' # started
<1>1. sent' = Event(hostRun, lastSeq + 1, k) /\ hostRun' = None /\ hostRun \in started
  BY DEF EmitTerminal, Send, Finish, SentBelow
<1>2. sent'.run = hostRun /\ sent'.seq = lastSeq + 1
  BY <1>1 DEF Event
<1>3. sent # None => sent.seq \in Nat
  BY DEF TypeOK, Events
<1>4. lastSeq \in Nat
  BY DEF TypeOK
<1>. QED  BY <1>1, <1>2, <1>3, <1>4 DEF SentBelow

(* A message taken: an event that goes on is the next of its run. *)
LEMMA MessageOrder ==
    ASSUME OrderInv, TypeOK', NEW w \in Workers, OnWorkerMessage(w)
    PROVE  /\ OrderInv'
           /\ sent' # sent => /\ sent'.run = hostRun
                              /\ sent # None /\ sent.run = sent'.run
                                   => sent.seq < sent'.seq /\ ~IsTerminalEvent(sent)
<1> USE NoneAssumption
<1> DEFINE m == Head(toHost[w])
<1>1. /\ toHost[w] # <<>> /\ toHost' = [toHost EXCEPT ![w] = Tail(@)]
      /\ UNCHANGED <<started, hostWorker, toWorker, job>>
  BY DEF OnWorkerMessage, workerVars
<1>2. Typed(toHost[w], toWorker[w], job[w]) /\ FlowOf(w) /\ TypeOK /\ SentBelow
  BY TypedWorker DEF OrderInv
<1>3. /\ Flow(started, Tail(toHost[w]), toWorker[w], job[w])
      /\ \A r, last : AheadOf(w, r, last) => Ahead(Tail(toHost[w]), toWorker[w], job[w], r, last)
      /\ \A r \in Runs : IsEventOf(m, r)
           => Ahead(Tail(toHost[w]), toWorker[w], job[w], r, m.event.seq)
  BY <1>1, <1>2, MessageTaken DEF FlowOf, AheadOf
<1>4. /\ toHost'[w] = Tail(toHost[w])
      /\ \A v \in Workers : v # w => toHost'[v] = toHost[v]
  BY <1>1, <1>2 DEF TypeOK
<1>5. StreamsKept
  BY <1>1, <1>3, <1>4, OneWorker DEF AheadOf
<1>6. CASE UNCHANGED <<hostRun, lastSeq, sent>>
  BY <1>1, <1>5, <1>6, FollowingSame
<1>7. CASE w = hostWorker /\ m.type = "event" /\ m.event.run = hostRun /\ ForwardEvent(m.event)
  <2>1. m \in WorkerToHost /\ 1 \in DOMAIN toHost[w] /\ m = toHost[w][1]
    BY <1>1, <1>2 DEF Typed
  <2>2. m.event \in Events /\ hostRun \in Runs /\ IsEventOf(m, hostRun) /\ m.event.seq \in Nat
    <3>1. \A n \in WorkerToHost : n.type = "event" => n.event \in Events
      BY DEF WorkerToHost
    <3>2. \A e \in Events : e.run \in Runs /\ e.seq \in Nat
      BY DEF Events
    <3>. QED  BY <1>7, <2>1, <3>1, <3>2 DEF IsEventOf
  <2>3. lastSeq < m.event.seq
    <3>1. AheadOf(hostWorker, hostRun, lastSeq)
      BY <1>7, <2>2 DEF OrderInv
    <3>. QED  BY <1>7, <2>1, <2>2, <3>1 DEF AheadOf, Ahead
  <2>4. /\ sent' = m.event /\ lastSeq' = m.event.seq
        /\ hostRun' = IF IsTerminalEvent(m.event) THEN None ELSE hostRun
    BY <1>7, <2>3 DEF ForwardEvent, Send, Finish
  <2>5. /\ sent'.run = hostRun
        /\ sent # None /\ sent.run = sent'.run => sent.seq < sent'.seq /\ ~IsTerminalEvent(sent)
    <3>1. sent # None => sent.seq \in Nat
      BY <1>2 DEF TypeOK, Events
    <3>2. lastSeq \in Nat
      BY <1>2 DEF TypeOK
    <3>. QED  BY <1>2, <1>7, <2>2, <2>3, <2>4, <3>1, <3>2 DEF SentBelow
  <2>6. SentBelow'
    <3>1. hostRun \in started /\ m.event.run = hostRun
      BY <1>2, <1>7, <2>2 DEF SentBelow
    <3>2. hostRun # None
      BY <2>2
    <3>3. sent'.run \in started' /\ sent'.seq <= lastSeq'
      BY <1>1, <2>2, <2>4, <3>1
    <3>4. sent'.run = hostRun' => ~IsTerminalEvent(sent')
      BY <2>4, <3>1, <3>2
    <3>5. hostRun' \in started' \cup {None}
      BY <1>1, <2>4, <3>1
    <3>6. IsTerminalEvent(sent)' <=> IsTerminalEvent(sent')
      BY DEF IsTerminalEvent
    <3>. QED  BY <3>3, <3>4, <3>5, <3>6 DEF SentBelow
  <2>7. \A v \in Workers : FlowOf(v)'
    BY <1>5 DEF StreamsKept, FlowOf
  <2>8. (hostRun # None /\ hostWorker # None)' => AheadOf(hostWorker, hostRun, lastSeq)'
    <3>1. Ahead(toHost'[w], toWorker'[w], job'[w], hostRun, m.event.seq)
      BY <1>1, <1>3, <1>4, <2>2
    <3>2. (hostRun # None)' => hostRun' = hostRun
      BY <2>4
    <3>. QED  BY <1>1, <1>7, <2>4, <3>1, <3>2 DEF AheadOf
  <2>. QED  BY <2>5, <2>6, <2>7, <2>8 DEF OrderInv
<1>. QED  BY <1>6, <1>7 DEF OnWorkerMessage

(* A step of the host or the renderer. *)
LEMMA HostOrder ==
    ASSUME OrderInv, HostStep \/ RendererStep
    PROVE  /\ OrderInv'
           /\ sent' # sent => /\ sent'.run = hostRun
                              /\ sent # None /\ sent.run = sent'.run
                                   => sent.seq < sent'.seq /\ ~IsTerminalEvent(sent)
<1> USE NoneAssumption DEF hostVars, workerVars, cliVars
<1>0. TypeOK /\ TypeOK' /\ SentBelow
  <2>1. TypeOK /\ SentBelow
    BY DEF OrderInv
  <2>. QED  BY <2>1, HostType
<1>1. ASSUME UNCHANGED <<started, toHost, toWorker, job>>
      PROVE  StreamsKept
  BY <1>1 DEF OrderInv, StreamsKept, FlowOf, AheadOf
<1>2. ASSUME UNCHANGED <<started, sent, hostRun, hostWorker, lastSeq, toHost, toWorker, job>>
      PROVE  OrderInv'
  BY <1>0, <1>1, <1>2, FollowingSame
<1>3. ASSUME NEW w \in Workers, NEW m \in HostToWorker, m.type # "start",
             Post(w, m), UNCHANGED <<started, sent, hostRun, hostWorker, lastSeq, toHost, job>>
      PROVE  OrderInv'
  BY <1>0, <1>3, PostOrder, FollowingSame
<1>4. ASSUME NEW k \in TerminalKinds, hostRun # None, EmitTerminal(k),
             UNCHANGED <<started, toHost, toWorker, job>>
      PROVE  /\ OrderInv'
             /\ sent'.run = hostRun
             /\ sent # None /\ sent.run = sent'.run
                  => sent.seq < sent'.seq /\ ~IsTerminalEvent(sent)
  <2>1. \A v \in Workers : FlowOf(v)'
    BY <1>1, <1>4 DEF StreamsKept, FlowOf
  <2>. QED  BY <1>0, <1>4, <2>1, TerminalInOrder DEF OrderInv
<1>5. CASE StartRefused
  BY <1>2, <1>5 DEF StartRefused
<1>6. ASSUME NEW r \in Runs, NEW w \in Workers, StartRun(r, w)
      PROVE  OrderInv' /\ sent' = sent
  BY <1>0, <1>6, StartOrder DEF StartRun
<1>7. CASE StopTimeout
  BY <1>4, <1>7 DEF StopTimeout, TerminalKinds
<1>8. ASSUME NEW w \in Workers, OnExit(w)
      PROVE  /\ OrderInv'
             /\ sent' # sent => /\ sent'.run = hostRun
                                /\ sent # None /\ sent.run = sent'.run
                                     => sent.seq < sent'.seq /\ ~IsTerminalEvent(sent)
  <2>1. UNCHANGED <<started, toHost, toWorker, job>>
    BY <1>8 DEF OnExit
  <2>2. CASE hostRun # None
    BY <1>4, <1>8, <2>1, <2>2 DEF OnExit, TerminalKinds
  <2>3. CASE hostRun = None
    <3>1. UNCHANGED <<hostRun, lastSeq, sent>>
      BY <1>8, <2>3 DEF OnExit
    <3>2. SentBelow' /\ \A v \in Workers : FlowOf(v)'
      BY <1>0, <1>1, <2>1, <3>1 DEF SentBelow, StreamsKept, FlowOf
    <3>. QED  BY <1>0, <2>3, <3>1, <3>2 DEF OrderInv
  <2>. QED  BY <2>2, <2>3
<1>9. ASSUME RendererStep
      PROVE  OrderInv' /\ sent' = sent
  <2>1. ASSUME NEW r, StopRun(r), UNCHANGED <<started, sent, hostRun, hostWorker, lastSeq, toHost, job>>
        PROVE  OrderInv'
    <3>1. CASE UNCHANGED toWorker
      BY <1>2, <2>1, <3>1
    <3>2. CASE ~UNCHANGED toWorker
      <4>1. hostWorker \in Workers /\ hostRun = r /\ r \in Runs /\ Post(hostWorker, ToWorker("stop", r, 0))
        BY <1>0, <2>1, <3>2 DEF StopRun, TypeOK
      <4>2. ToWorker("stop", r, 0) \in HostToWorker /\ ToWorker("stop", r, 0).type # "start"
        BY <4>1 DEF ToWorker, HostToWorker
      <4>. QED  BY <1>3, <2>1, <4>1, <4>2
    <3>. QED  BY <3>1, <3>2
  <2>2. ASSUME NEW r \in started, NEW q \in 1..MaxSeq, CallAnswer(r, q)
        PROVE  OrderInv' /\ sent' = sent
    <3>1. UNCHANGED <<started, sent, hostRun, hostWorker, lastSeq, toHost, job>>
      BY <2>2 DEF CallAnswer, Answer
    <3>2. CASE hostRun = r /\ hostWorker # None
      <4>1. hostWorker \in Workers /\ Post(hostWorker, ToWorker("answer", r, q))
        BY <1>0, <2>2, <3>2 DEF CallAnswer, Answer, TypeOK
      <4>2. /\ ToWorker("answer", r, q) \in HostToWorker
            /\ ToWorker("answer", r, q).type # "start"
        BY <1>0, BoundsAssumption DEF ToWorker, HostToWorker, TypeOK
      <4>. QED  BY <1>3, <3>1, <4>1, <4>2
    <3>3. CASE ~(hostRun = r /\ hostWorker # None)
      <4>1. UNCHANGED toWorker
        BY <2>2, <3>3 DEF CallAnswer, Answer
      <4>. QED  BY <1>2, <3>1, <4>1
    <3>. QED  BY <3>2, <3>3
  <2>3. CASE Start
    BY <1>2, <2>3 DEF Start
  <2>4. ASSUME NEW r \in started, CallStop(r)
        PROVE  OrderInv' /\ sent' = sent
    BY <2>1, <2>4 DEF CallStop, Stop
  <2>. QED  BY <1>9, <2>2, <2>3, <2>4 DEF RendererStep
<1>. QED
  BY <1>2, <1>5, <1>6, <1>7, <1>8, <1>9, MessageOrder, <1>0 DEF HostStep, StartRefused, StopTimeout

LEMMA InitialOrder == Init => OrderInv
<1> SUFFICES ASSUME Init
             PROVE  OrderInv
  OBVIOUS
<1>1. NoJob.run = None
  BY DEF NoJob, NewJob
<1>2. SentBelow /\ hostRun = None
  BY DEF Init, SentBelow
<1>3. \A w \in Workers : FlowOf(w)
  BY <1>1, NoneAssumption DEF Init, FlowOf, Flow, Known, Ascending, Fresh
<1>. QED  BY <1>2, <1>3, TypeInit DEF OrderInv

LEMMA StillOrder == ASSUME OrderInv, UNCHANGED vars PROVE OrderInv'
BY DEF OrderInv, TypeOK, SentBelow, FlowOf, AheadOf, vars, hostVars, workerVars, cliVars

LEMMA CliEndsOrder ==
    ASSUME OrderInv, NEW g \in Groups, CliEnds(g)
    PROVE  OrderInv'
<1>1. TypeOK'
  BY CliEndsType DEF OrderInv
<1>2. UNCHANGED <<started, sent, hostRun, hostWorker, lastSeq, toHost, toWorker, job>>
  BY DEF CliEnds, hostVars, workerVars
<1>. QED  BY <1>1, <1>2 DEF OrderInv, SentBelow, FlowOf, AheadOf

LEMMA OrderInvariant == Spec => []OrderInv
<1>1. OrderInv /\ [Next]_vars => OrderInv'
  BY StillOrder, CliEndsOrder, HostOrder, WorkerOrder DEF Next
<1>. QED  BY <1>1, InitialOrder, PTL DEF Spec

(* The renderer gets the events of the active run only, with growing sequence
   numbers, and nothing after the one that ended the run. *)
THEOREM OrderCorrect == Spec => SentInOrder
<1> DEFINE Step == sent' # sent =>
                     /\ sent'.run = hostRun
                     /\ sent # None /\ sent.run = sent'.run
                          => sent.seq < sent'.seq /\ ~IsTerminalEvent(sent)
<1>1. OrderInv /\ [Next]_vars => [Step]_vars
  <2> SUFFICES ASSUME OrderInv, Next
               PROVE  Step
    BY DEF vars
  <2>1. ASSUME NEW w \in Workers, WorkerStep(w)
        PROVE  sent' = sent
    BY <2>1 DEF WorkerStep, HandleStart, HandleStop, HandleAnswer, Progress, Ask, RunEnds,
                SpawnCli, ReportProcs, HandleSigterm, Crash, Exit
  <2>2. ASSUME NEW g \in Groups, CliEnds(g)
        PROVE  sent' = sent
    BY <2>2 DEF CliEnds
  <2>. QED  BY <2>1, <2>2, HostOrder DEF Next
<1>. QED  BY <1>1, OrderInvariant, PTL DEF Spec, SentInOrder

-----------------------------------------------------------------------------
(* The host implements AgentPromise.  A start waits for detection only while no
   run is under way: this and OrderInv make every step one of the promise, or
   one the renderer does not see. *)
OneStart == starting = 0 \/ (starting = 1 /\ hostRun = None)

EventSent(e) == [run |-> e.run, seq |-> e.seq, end |-> IsTerminalEvent(e)]

(* An event that is newer than all of its run is told. *)
LEMMA EventTold ==
    ASSUME OrderInv, hostRun # None, NEW e \in Events, e.run = hostRun, lastSeq < e.seq,
           sent' = e, started' = started, hostRun' = IF IsTerminalEvent(e) THEN None ELSE hostRun
    PROVE  Promise!Next
<1>1. Told' = EventSent(e)
  BY EventAssumption DEF Told, EventSent, IsTerminalEvent
<1>2. lastSeq \in Nat /\ e.seq \in Nat /\ (sent # None => sent.seq \in Nat)
  BY DEF OrderInv, TypeOK, Events
<1>3. Told.run = hostRun => Told.seq <= lastSeq
  <2>1. CASE sent = None
    BY <2>1 DEF Told
  <2>2. CASE sent # None
    BY <2>2 DEF Told, OrderInv, SentBelow
  <2>. QED  BY <2>1, <2>2
<1>4. Told.run = hostRun => Told.seq \in Nat
  BY <1>2 DEF Told
<1>5. e.seq > Promise!Count
  BY <1>2, <1>3, <1>4 DEF Promise!Count
<1>6. /\ Told'.seq = e.seq /\ Told'.end = IsTerminalEvent(e)
      /\ Told' = [run |-> hostRun, seq |-> Told'.seq, end |-> Told'.end]
  BY <1>1 DEF EventSent
<1>. QED  BY <1>5, <1>6 DEF Promise!Next, Promise!Tell

LEMMA TerminalTold ==
    ASSUME OrderInv, hostRun # None, NEW k \in TerminalKinds, EmitTerminal(k),
           started' = started
    PROVE  Promise!Next
<1> DEFINE e == Event(hostRun, lastSeq + 1, k)
<1>1. e \in Events /\ e.run = hostRun /\ lastSeq < e.seq
  BY DEF Event, Events, OrderInv, TypeOK
<1>2. sent' = e /\ hostRun' = None /\ IsTerminalEvent(e)
  BY DEF EmitTerminal, Send, Finish, IsTerminalEvent, Event
<1>. QED  BY <1>1, <1>2, EventTold

LEMMA Unseen ==
    ASSUME UNCHANGED <<started, hostRun, sent>>
    PROVE  UNCHANGED Promise!vars
BY DEF Promise!vars, Told, IsTerminalEvent

LEMMA StepTold ==
    ASSUME OrderInv, OneStart, [Next]_vars
    PROVE  [Promise!Next]_Promise!vars
<1> USE NoneAssumption DEF hostVars, workerVars, cliVars
<1> DEFINE Seen == ~UNCHANGED <<started, hostRun, sent>>
<1> SUFFICES ASSUME Seen
             PROVE  Promise!Next
  BY Unseen
<1>1. TypeOK
  BY DEF OrderInv
<1>2. ASSUME NEW w \in Workers, WorkerStep(w)
      PROVE  ~Seen
  BY <1>2 DEF WorkerStep, HandleStart, HandleStop, HandleAnswer, Progress, Ask, RunEnds,
              SpawnCli, ReportProcs, HandleSigterm, Crash, Exit
<1>3. ASSUME RendererStep
      PROVE  ~Seen
  BY <1>3 DEF RendererStep, Start, CallStop, Stop, CallAnswer, Answer
<1>4. ASSUME (\E g \in Groups : CliEnds(g)) \/ StartRefused \/ UNCHANGED vars
      PROVE  ~Seen
  BY <1>4 DEF CliEnds, StartRefused, vars
<1>5. ASSUME NEW r \in Runs, NEW w \in Workers, StartRun(r, w)
      PROVE  Promise!Next
  <2>1. hostRun = None /\ r \notin started /\ hostRun' = r /\ started' = started \cup {r}
    BY <1>5 DEF StartRun, OneStart
  <2>2. Told' = Told
    BY <1>5 DEF StartRun, Told, IsTerminalEvent
  <2>. QED  BY <2>1, <2>2 DEF Promise!Next, Promise!Begin
<1>6. CASE StopTimeout
  BY <1>6, TerminalTold DEF StopTimeout, TerminalKinds
<1>7. ASSUME NEW w \in Workers, OnExit(w)
      PROVE  Promise!Next
  BY <1>7, TerminalTold DEF OnExit, TerminalKinds
<1>8. ASSUME NEW w \in Workers, OnWorkerMessage(w)
      PROVE  Promise!Next
  <2> DEFINE m == Head(toHost[w])
  <2>1. /\ w = hostWorker /\ m.type = "event" /\ m.event.run = hostRun /\ ForwardEvent(m.event)
        /\ toHost[w] # <<>> /\ started' = started
    BY <1>8 DEF OnWorkerMessage
  <2>2. m \in WorkerToHost /\ 1 \in DOMAIN toHost[w] /\ m = toHost[w][1]
    BY <1>1, <2>1 DEF TypeOK
  <2>3. m.event \in Events /\ hostRun \in Runs
    BY <2>1, <2>2 DEF WorkerToHost, Events
  <2>4. lastSeq < m.event.seq
    BY <2>1, <2>2, <2>3 DEF OrderInv, AheadOf, Ahead, IsEventOf
  <2>5. sent' = m.event /\ hostRun' = IF IsTerminalEvent(m.event) THEN None ELSE hostRun
    BY <2>1 DEF ForwardEvent, Send, Finish
  <2>. QED  BY <2>1, <2>3, <2>4, <2>5, EventTold
<1>. QED  BY <1>2, <1>3, <1>4, <1>5, <1>6, <1>7, <1>8 DEF Next, HostStep

LEMMA OneStartKept ==
    ASSUME TypeOK, OneStart, [Next]_vars
    PROVE  OneStart'
<1> USE DEF hostVars, workerVars, cliVars, OneStart
<1>1. ASSUME NEW w \in Workers, WorkerStep(w)
      PROVE  UNCHANGED <<starting, hostRun>>
  BY <1>1 DEF WorkerStep, HandleStart, HandleStop, HandleAnswer, Progress, Ask, RunEnds,
              SpawnCli, ReportProcs, HandleSigterm, Crash, Exit
<1>2. CASE RendererStep
  BY <1>2 DEF RendererStep, Start, StartBusy, CallStop, Stop, CallAnswer, Answer
<1>3. CASE (\E g \in Groups : CliEnds(g)) \/ UNCHANGED vars
  BY <1>3 DEF CliEnds, vars
<1>4. CASE HostStep
  <2>1. \/ starting # 0 /\ starting' = starting - 1
        \/ starting' = starting /\ hostRun' \in {hostRun, None}
    BY <1>4 DEF HostStep, StartRefused, StartRun, StopTimeout, OnExit, OnWorkerMessage,
                EmitTerminal, ForwardEvent, Finish
  <2>. QED  BY <2>1
<1>. QED  BY <1>1, <1>2, <1>3, <1>4 DEF Next

(* What the renderer sees is one run at a time, each with ascending events of its
   own and one event that ends it, whatever the workers do. *)
THEOREM KeepsPromiseHolds == Spec => KeepsPromise
<1>1. Init => Promise!Init
  BY DEF Init, Promise!Init, Told
<1>2. Init => OneStart
  BY DEF Init, OneStart
<1>3. OrderInv /\ OneStart /\ [Next]_vars => OneStart'
  BY OneStartKept DEF OrderInv
<1>4. OrderInv /\ OneStart /\ [Next]_vars => [Promise!Next]_Promise!vars
  BY StepTold
<1>. QED
  BY <1>1, <1>2, <1>3, <1>4, OrderInvariant, PTL DEF Spec, KeepsPromise, Promise!Spec

-----------------------------------------------------------------------------
(* Whose run is at work, for any runs, workers and bounds. *)

(* A worker that is yet to be forked, as the current one is not, has no work. *)
Unforked ==
    /\ hostWorker # None => proc[hostWorker] # "unborn"
    /\ \A v \in Workers : proc[v] = "unborn" => ~Busy(v) /\ toWorker[v] = <<>>

(* A run has a worker, and a start waits for detection only when there is none. *)
OneRun == OneStart /\ (hostRun # None => hostWorker # None)

(* Worker w works on no run, and is to start none, but r and the disowned ones,
   and not on r once the end of r was told. *)
Tracked(w, r) ==
    /\ Busy(w) => job[w].run \in {r} \cup disowned
    /\ \A i \in DOMAIN toWorker[w] : toWorker[w][i].type = "start"
                                       => toWorker[w][i].run \in {r} \cup disowned
    /\ \A i \in DOMAIN toHost[w] :
         IsEventOf(toHost[w][i], r) /\ IsTerminalEvent(toHost[w][i].event)
           => ~(Busy(w) /\ job[w].run = r)

OrphanInv ==
    /\ OrderInv
    /\ Unforked
    /\ OneRun
    /\ hostWorker # None => Tracked(hostWorker, hostRun)

-----------------------------------------------------------------------------
(* Tracked survives a job that goes on or ends, commands that start nothing,
   and messages that end nothing while the job goes on. *)
LEMMA TrackedKept ==
    ASSUME TypeOK, NEW w \in Workers, Tracked(w, hostRun), UNCHANGED <<hostRun, disowned>>,
           Busy(w)' => Busy(w) /\ job'[w].run = job[w].run,
           \A i \in DOMAIN toWorker'[w] :
             \/ \E k \in DOMAIN toWorker[w] : toWorker'[w][i] = toWorker[w][k]
             \/ toWorker'[w][i].type # "start",
           \A i \in DOMAIN toHost'[w] :
             \/ \E k \in DOMAIN toHost[w] : toHost'[w][i] = toHost[w][k]
             \/ toHost'[w][i].type = "procs"
             \/ ~IsTerminalEvent(toHost'[w][i].event)
             \/ ~Busy(w)'
    PROVE  Tracked(w, hostRun)'
<1>1. ASSUME Busy(w)'
      PROVE  job'[w].run \in {hostRun'} \cup disowned'
  BY <1>1 DEF Tracked
<1>2. ASSUME NEW i \in DOMAIN toWorker'[w], toWorker'[w][i].type = "start"
      PROVE  toWorker'[w][i].run \in {hostRun'} \cup disowned'
  <2>1. PICK k \in DOMAIN toWorker[w] : toWorker'[w][i] = toWorker[w][k]
    BY <1>2
  <2>. QED  BY <1>2, <2>1 DEF Tracked
<1>3. ASSUME NEW i \in DOMAIN toHost'[w], IsEventOf(toHost'[w][i], hostRun),
             IsTerminalEvent(toHost'[w][i].event)
      PROVE  ~(Busy(w)' /\ job'[w].run = hostRun)
  <2>1. CASE \E k \in DOMAIN toHost[w] : toHost'[w][i] = toHost[w][k]
    BY <1>3, <2>1 DEF Tracked
  <2>2. toHost'[w][i].type # "procs"
    BY <1>3 DEF IsEventOf
  <2>. QED  BY <1>3, <2>1, <2>2
<1>4. \A m : (IsEventOf(m, hostRun))' <=> IsEventOf(m, hostRun)
  BY DEF IsEventOf
<1>. QED  BY <1>1, <1>2, <1>3, <1>4 DEF Tracked

(* What is in a queue after taking its head, or after adding to it. *)
LEMMA QueueSteps ==
    ASSUME NEW T, NEW q \in Seq(T), NEW m
    PROVE  /\ q # <<>> => \A i \in DOMAIN Tail(q) : \E k \in DOMAIN q : Tail(q)[i] = q[k]
           /\ \A i \in DOMAIN Append(q, m) : \/ \E k \in DOMAIN q : Append(q, m)[i] = q[k]
                                             \/ Append(q, m)[i] = m
<1>1. q # <<>> => \A i \in DOMAIN Tail(q) : i + 1 \in DOMAIN q /\ Tail(q)[i] = q[i + 1]
  OBVIOUS
<1>2. \A i \in DOMAIN Append(q, m) : \/ i \in DOMAIN q /\ Append(q, m)[i] = q[i]
                                     \/ Append(q, m)[i] = m
  OBVIOUS
<1>. QED  BY <1>1, <1>2

(* A start the current worker takes is that of the run the host follows or of a
   disowned one; a busy worker fails it, another works on it from then on. *)
LEMMA StartTaken ==
    ASSUME OrphanInv, hostWorker \in Workers, HandleStart(hostWorker)
    PROVE  Tracked(hostWorker, hostRun)'
<1> DEFINE w == hostWorker
           q == Head(toWorker[w]).run
<1>1. TypeOK /\ FlowOf(w) /\ Tracked(w, hostRun) /\ Typed(toHost[w], toWorker[w], job[w])
  BY NoneAssumption, TypedWorker DEF OrphanInv, OrderInv
<1>2. /\ toWorker[w] # <<>> /\ Head(toWorker[w]).type = "start"
      /\ toWorker' = [toWorker EXCEPT ![w] = Tail(@)]
      /\ UNCHANGED <<hostWorker, hostRun, disowned>>
  BY DEF HandleStart, hostVars
<1>3. /\ Head(toWorker[w]) = toWorker[w][1] /\ 1 \in DOMAIN toWorker[w] /\ q \in Runs
      /\ IsStartOf(toWorker[w][1], q)
  BY <1>1, <1>2, FirstCommand DEF Typed
<1>4. q \in {hostRun} \cup disowned
  BY <1>1, <1>2, <1>3 DEF Tracked
<1>5. job[w].run # q /\ \A i \in DOMAIN toHost[w] : ~IsEventOf(toHost[w][i], q)
  BY <1>1, <1>3 DEF FlowOf, Flow, Fresh
<1>6. \A i \in DOMAIN toWorker'[w] : \E k \in DOMAIN toWorker[w] : toWorker'[w][i] = toWorker[w][k]
  <2>1. toWorker'[w] = Tail(toWorker[w])
    BY <1>1, <1>2 DEF TypeOK
  <2>. QED  BY <1>1, <1>2, <2>1, QueueSteps DEF Typed
<1>7. \A i \in DOMAIN toWorker'[w] : toWorker'[w][i].type = "start"
                                       => toWorker'[w][i].run \in {hostRun} \cup disowned
  BY <1>1, <1>6 DEF Tracked
<1>8. CASE Busy(w)
  <2>1. toHost' = [toHost EXCEPT ![w] = Emit(w, NewJob(q), "end")] /\ job' = job
    BY <1>8 DEF HandleStart, workerVars
  <2>2. toHost'[w] = Append(toHost[w], EventMsg(Event(q, 1, "end")))
    BY <1>1, <2>1 DEF Emit, NewJob, TypeOK
  <2>3. \A i \in DOMAIN toHost'[w] : \/ \E k \in DOMAIN toHost[w] : toHost'[w][i] = toHost[w][k]
                                     \/ toHost'[w][i] = EventMsg(Event(q, 1, "end"))
    BY <1>1, <2>2, QueueSteps DEF Typed
  <2>4. EventMsg(Event(q, 1, "end")).event.run = q
    BY DEF EventMsg, Event
  <2>5. \A i \in DOMAIN toHost'[w] :
          IsEventOf(toHost'[w][i], hostRun) /\ IsTerminalEvent(toHost'[w][i].event)
            => job[w].run # hostRun
    <3> SUFFICES ASSUME NEW i \in DOMAIN toHost'[w], IsEventOf(toHost'[w][i], hostRun),
                        IsTerminalEvent(toHost'[w][i].event)
                 PROVE  job[w].run # hostRun
      OBVIOUS
    <3>1. CASE \E k \in DOMAIN toHost[w] : toHost'[w][i] = toHost[w][k]
      BY <1>1, <1>8, <3>1 DEF Tracked
    <3>2. CASE toHost'[w][i] = EventMsg(Event(q, 1, "end"))
      BY <1>5, <2>4, <3>2 DEF IsEventOf
    <3>. QED  BY <2>3, <3>1, <3>2
  <2>. QED  BY <1>1, <1>2, <1>7, <2>1, <2>5 DEF Tracked, Busy, IsEventOf
<1>9. CASE ~Busy(w)
  <2>1. job' = [job EXCEPT ![w] = NewJob(q)] /\ toHost' = toHost
    BY <1>9 DEF HandleStart
  <2>2. job'[w].run = q
    BY <1>1, <2>1 DEF TypeOK, NewJob
  <2>. QED  BY <1>2, <1>4, <1>5, <1>7, <2>1, <2>2 DEF Tracked, IsEventOf
<1>. QED  BY <1>8, <1>9

(* Every other step of the current worker's event loop. *)
LEMMA LoopTracked ==
    ASSUME OrphanInv, NEW w \in Workers, w = hostWorker,
           \/ HandleStop(w) \/ HandleAnswer(w) \/ Progress(w) \/ Ask(w) \/ RunEnds(w)
           \/ SpawnCli(w) \/ ReportProcs(w)
    PROVE  Tracked(w, hostRun)'
<1>1. TypeOK /\ Tracked(w, hostRun) /\ Typed(toHost[w], toWorker[w], job[w])
  BY NoneAssumption, TypedWorker DEF OrphanInv, OrderInv
<1>2. UNCHANGED <<hostWorker, hostRun, disowned>>
  BY DEF HandleStop, HandleAnswer, Progress, Ask, RunEnds, SpawnCli, ReportProcs, hostVars
<1>3. Busy(w)' => Busy(w) /\ job'[w].run = job[w].run
  <2>1. job \in [Workers -> Jobs] /\ job[w] \in Jobs
    BY <1>1 DEF TypeOK
  <2>2. CASE HandleStop(w)
    BY <2>1, <2>2 DEF HandleStop, Jobs, Busy
  <2>3. CASE HandleAnswer(w)
    BY <2>1, <2>3 DEF HandleAnswer, Jobs, Busy
  <2>4. CASE Progress(w) \/ Ask(w)
    BY <2>1, <2>4 DEF Progress, Ask, Jobs, Busy
  <2>5. CASE RunEnds(w)
    BY <2>1, <2>5 DEF RunEnds, Jobs, Busy
  <2>6. CASE SpawnCli(w) \/ ReportProcs(w)
    BY <2>6 DEF SpawnCli, ReportProcs, workerVars, Busy
  <2>. QED  BY <2>2, <2>3, <2>4, <2>5, <2>6
<1>4. \A i \in DOMAIN toWorker'[w] : \E k \in DOMAIN toWorker[w] : toWorker'[w][i] = toWorker[w][k]
  <2>1. \/ toWorker'[w] = toWorker[w]
        \/ toWorker[w] # <<>> /\ toWorker'[w] = Tail(toWorker[w])
    BY <1>1 DEF HandleStop, HandleAnswer, Progress, Ask, RunEnds, SpawnCli, ReportProcs, TypeOK
  <2>2. toWorker[w] # <<>> => \A i \in DOMAIN Tail(toWorker[w]) :
          i + 1 \in DOMAIN toWorker[w] /\ Tail(toWorker[w])[i] = toWorker[w][i + 1]
    BY <1>1 DEF Typed
  <2>. QED  BY <2>1, <2>2
<1>5. CASE HandleStop(w) \/ SpawnCli(w)
  <2>1. toHost' = toHost
    BY <1>5 DEF HandleStop, SpawnCli
  <2>. QED  BY <1>1, <1>2, <1>3, <1>4, <2>1, TrackedKept
<1>6. CASE HandleAnswer(w) \/ Progress(w) \/ Ask(w)
  <2>1. toHost'[w] \in {toHost[w], Emit(w, job[w], "progress")}
    BY <1>1, <1>6 DEF HandleAnswer, Progress, Ask, TypeOK
  <2>2. \A i \in DOMAIN toHost'[w] :
          \/ \E l \in DOMAIN toHost[w] : toHost'[w][i] = toHost[w][l]
          \/ toHost'[w][i] = EventMsg(Event(job[w].run, job[w].seq + 1, "progress"))
    BY SMTT(30), <1>1, <2>1, QueueSteps DEF Typed, Emit
  <2>3. ~IsTerminalEvent(EventMsg(Event(job[w].run, job[w].seq + 1, "progress")).event)
    BY DEF IsTerminalEvent, EventMsg, Event, TerminalKinds
  <2>4. \A i \in DOMAIN toHost'[w] :
          \/ \E l \in DOMAIN toHost[w] : toHost'[w][i] = toHost[w][l]
          \/ ~IsTerminalEvent(toHost'[w][i].event)
    BY <2>2, <2>3
  <2>. QED  BY <1>1, <1>2, <1>3, <1>4, <2>4, TrackedKept
<1>7. CASE RunEnds(w)
  <2>1. ~Busy(w)'
    BY <1>1, <1>7 DEF RunEnds, Busy, TypeOK, Jobs
  <2>. QED  BY <1>1, <1>2, <1>3, <1>4, <2>1, TrackedKept
<1>8. CASE ReportProcs(w)
  <2>1. toHost'[w] = Append(toHost[w], ProcsMsg(Live(w)))
    BY <1>1, <1>8 DEF ReportProcs, TypeOK
  <2>2. ProcsMsg(Live(w)).type = "procs"
    BY DEF ProcsMsg
  <2>3. \A i \in DOMAIN toHost'[w] :
          \/ \E k \in DOMAIN toHost[w] : toHost'[w][i] = toHost[w][k]
          \/ toHost'[w][i].type = "procs"
    BY <1>1, <2>1, <2>2, QueueSteps DEF Typed
  <2>. QED  BY <1>1, <1>2, <1>3, <1>4, <2>3, TrackedKept
<1>. QED  BY <1>5, <1>6, <1>7, <1>8

(* A step of a worker. *)
LEMMA WorkerOrphan ==
    ASSUME OrphanInv, NEW w \in Workers, WorkerStep(w)
    PROVE  OrphanInv'
<1> USE NoneAssumption
<1>1. OrderInv' /\ TypeOK
  BY WorkerOrder DEF OrphanInv, OrderInv
<1>2. UNCHANGED <<starting, hostWorker, hostRun, disowned>>
  BY DEF WorkerStep, HandleStart, HandleStop, HandleAnswer, Progress, Ask, RunEnds,
         SpawnCli, ReportProcs, HandleSigterm, Crash, Exit, hostVars
<1>3. OneRun'
  BY <1>2 DEF OrphanInv, OneRun, OneStart
<1>4. /\ \A v \in Workers : v # w => /\ toHost'[v] = toHost[v]
                                     /\ toWorker'[v] = toWorker[v]
                                     /\ job'[v] = job[v]
                                     /\ proc'[v] = proc[v]
      /\ \/ proc' = proc /\ proc[w] = "alive"
         \/ proc'[w] = "exited" /\ proc[w] \in {"alive", "killed"} /\ Exit(w)
  BY <1>1 DEF WorkerStep, HandleStart, HandleStop, HandleAnswer, Progress, Ask, RunEnds,
         SpawnCli, ReportProcs, HandleSigterm, Crash, Exit, Running, workerVars, TypeOK
<1>5. Unforked'
  BY <1>1, <1>2, <1>4 DEF OrphanInv, Unforked, TypeOK, Busy
<1>6. CASE w # hostWorker
  BY <1>1, <1>2, <1>3, <1>4, <1>5, <1>6
     DEF OrphanInv, OrderInv, TypeOK, Tracked, Busy, IsEventOf
<1>7. CASE w = hostWorker /\ Exit(w)
  <2>1. ~Busy(w)' /\ toWorker'[w] = <<>>
    BY <1>1, <1>7 DEF Exit, NoJob, NewJob, Busy, TypeOK
  <2>. QED  BY <1>1, <1>2, <1>3, <1>5, <1>7, <2>1 DEF OrphanInv, Tracked
<1>8. CASE w = hostWorker /\ ~Exit(w)
  <2>1. CASE HandleStart(w)
    BY <1>1, <1>2, <1>3, <1>5, <1>8, <2>1, StartTaken DEF OrphanInv
  <2>2. CASE ~HandleStart(w)
    <3>1. Tracked(w, hostRun)'
      BY <1>8, <2>2, LoopTracked DEF WorkerStep, HandleSigterm, Crash
    <3>. QED  BY <1>1, <1>2, <1>3, <1>5, <1>8, <3>1 DEF OrphanInv
  <2>. QED  BY <2>1, <2>2
<1>. QED  BY <1>6, <1>7, <1>8

(* A step that leaves processes, jobs and messages from the workers alone, and
   posts at most a command that starts nothing. *)
LEMMA PostedOrphan ==
    ASSUME OrphanInv, OrderInv', OneRun',
           UNCHANGED <<hostWorker, hostRun, proc, job, toHost, disowned>>,
           \/ UNCHANGED toWorker
           \/ \E m \in HostToWorker : m.type # "start" /\ Post(hostWorker, m) /\ hostWorker # None
    PROVE  OrphanInv'
<1>1. TypeOK
  BY DEF OrphanInv, OrderInv
<1>2. \A v \in Workers : toWorker'[v] = toWorker[v] \/ (v = hostWorker /\ hostWorker # None)
  BY <1>1 DEF Post, TypeOK
<1>3. Unforked'
  BY <1>1, <1>2 DEF OrphanInv, Unforked, Busy, TypeOK
<1>4. ASSUME hostWorker # None
      PROVE  Tracked(hostWorker, hostRun)'
  <2>1. hostWorker \in Workers /\ Tracked(hostWorker, hostRun)
    BY <1>1, <1>4 DEF OrphanInv, TypeOK
  <2>2. toWorker[hostWorker] \in Seq(HostToWorker)
    BY <1>1, <2>1 DEF TypeOK
  <2>3. \/ toWorker'[hostWorker] = toWorker[hostWorker]
        \/ \E m \in HostToWorker : /\ m.type # "start"
                                   /\ toWorker'[hostWorker] = Append(toWorker[hostWorker], m)
    BY <1>1, <2>1 DEF Post, TypeOK
  <2>4. \A i \in DOMAIN toWorker'[hostWorker] :
          \/ \E k \in DOMAIN toWorker[hostWorker] : toWorker'[hostWorker][i] = toWorker[hostWorker][k]
          \/ toWorker'[hostWorker][i].type # "start"
    BY <2>2, <2>3, QueueSteps
  <2>5. /\ \A i \in DOMAIN toHost'[hostWorker] :
             \E k \in DOMAIN toHost[hostWorker] : toHost'[hostWorker][i] = toHost[hostWorker][k]
        /\ Busy(hostWorker)' => Busy(hostWorker) /\ job'[hostWorker].run = job[hostWorker].run
    BY DEF Busy
  <2>6. ASSUME NEW w \in Workers, w = hostWorker
        PROVE  Tracked(w, hostRun)'
    BY <1>1, <2>1, <2>4, <2>5, <2>6, TrackedKept
  <2>. QED  BY <2>1, <2>6
<1>. QED  BY <1>3, <1>4 DEF OrphanInv

(* A run starts, on the current worker, which may still work on a disowned one,
   or on a new one. *)
LEMMA StartOrphan ==
    ASSUME OrphanInv, OrderInv', NEW r \in Runs, NEW w \in Workers, StartRun(r, w)
    PROVE  OrphanInv'
<1> USE NoneAssumption
<1>1. TypeOK /\ FlowOf(w)
  BY DEF OrphanInv, OrderInv
<1>2. /\ hostRun = None /\ hostRun' = r /\ starting' = 0 /\ hostWorker' = w /\ w # None
      /\ r \notin started /\ UNCHANGED <<toHost, job, disowned>>
      /\ Post(w, ToWorker("start", r, 0))
  BY DEF OrphanInv, OneRun, OneStart, StartRun, EnsureWorker, workerVars
<1>3. /\ Busy(w) => job[w].run \in disowned
      /\ \A i \in DOMAIN toWorker[w] : toWorker[w][i].type = "start"
                                         => toWorker[w][i].run \in disowned
  <2>1. CASE hostWorker # None
    <3>1. w = hostWorker /\ Tracked(w, None)
      BY <1>2, <2>1 DEF OrphanInv, StartRun, EnsureWorker
    <3>2. Busy(w) => job[w].run \in disowned
      BY <3>1 DEF Tracked, Busy
    <3>3. \A i \in DOMAIN toWorker[w] : toWorker[w][i] \in HostToWorker
      BY <1>1 DEF TypeOK
    <3>. QED  BY <3>1, <3>2, <3>3 DEF Tracked, HostToWorker
  <2>2. CASE hostWorker = None
    BY <2>2 DEF OrphanInv, Unforked, StartRun, EnsureWorker
  <2>. QED  BY <2>1, <2>2
<1>4. OneRun'
  BY <1>2 DEF OneRun, OneStart
<1>5. Unforked'
  <2>1. /\ proc' = proc \/ (hostWorker = None /\ proc' = [proc EXCEPT ![w] = "alive"])
        /\ hostWorker # None => w = hostWorker /\ proc' = proc
        /\ hostWorker = None => proc' = [proc EXCEPT ![w] = "alive"]
    BY DEF StartRun, EnsureWorker
  <2>2. \A v \in Workers : toWorker'[v] = toWorker[v] \/ v = w
    BY <1>1, <1>2 DEF Post, TypeOK
  <2>. QED  BY <1>1, <1>2, <2>1, <2>2 DEF OrphanInv, Unforked, Busy, TypeOK
<1>6. Tracked(w, r)'
  <2>1. toWorker'[w] \in {toWorker[w], Append(toWorker[w], ToWorker("start", r, 0))}
    BY <1>1, <1>2 DEF Post, TypeOK
  <2>2. toWorker[w] \in Seq(HostToWorker)
    BY <1>1 DEF TypeOK
  <2>3. \A i \in DOMAIN toWorker'[w] :
          \/ \E k \in DOMAIN toWorker[w] : toWorker'[w][i] = toWorker[w][k]
          \/ toWorker'[w][i] = ToWorker("start", r, 0)
    BY <2>1, <2>2, QueueSteps
  <2>4. \A i \in DOMAIN toHost[w] : ~IsEventOf(toHost[w][i], r)
    BY <1>1, <1>2 DEF FlowOf, Flow, Known, IsEventOf
  <2>5. ToWorker("start", r, 0).run = r
    BY DEF ToWorker
  <2>6. \A i \in DOMAIN toWorker'[w] : toWorker'[w][i].type = "start"
                                         => toWorker'[w][i].run \in {r} \cup disowned
    BY <1>3, <2>3, <2>5
  <2>. QED  BY <1>2, <1>3, <2>4, <2>6 DEF Tracked, Busy, IsEventOf
<1>7. Tracked(hostWorker, hostRun)'
  BY <1>2, <1>6 DEF Tracked, Busy, IsEventOf
<1>. QED  BY <1>4, <1>5, <1>7 DEF OrphanInv

(* A terminal event that ends the run leaves its worker without it. *)
LEMMA MessageOrphan ==
    ASSUME OrphanInv, OrderInv', NEW w \in Workers, OnWorkerMessage(w)
    PROVE  OrphanInv'
<1> USE NoneAssumption
<1> DEFINE m == Head(toHost[w])
<1>1. /\ toHost[w] # <<>> /\ toHost' = [toHost EXCEPT ![w] = Tail(@)]
      /\ UNCHANGED <<starting, hostWorker, toWorker, job, proc, disowned>>
  BY DEF OnWorkerMessage, workerVars
<1>2. TypeOK /\ \A v \in Workers : FlowOf(v)
  BY DEF OrphanInv, OrderInv
<1>3. /\ toHost[w] \in Seq(WorkerToHost)
      /\ toHost'[w] = Tail(toHost[w]) /\ \A v \in Workers : v # w => toHost'[v] = toHost[v]
      /\ 1 \in DOMAIN toHost[w] /\ m = toHost[w][1]
  BY <1>1, <1>2 DEF TypeOK
<1>4. hostRun' = hostRun \/ hostRun' = None
  BY DEF OnWorkerMessage, ForwardEvent, Finish
<1>5. OneRun' /\ Unforked'
  BY <1>1, <1>4 DEF OrphanInv, OneRun, OneStart, Unforked, Busy
<1>6. ASSUME NEW v \in Workers, v = hostWorker, hostRun' = hostRun
      PROVE  Tracked(v, hostRun)'
  <2>1. Tracked(v, hostRun)
    BY <1>6 DEF OrphanInv
  <2>2. \A i \in DOMAIN toHost'[v] : \E k \in DOMAIN toHost[v] : toHost'[v][i] = toHost[v][k]
    <3>1. \A i \in DOMAIN Tail(toHost[w]) :
            i + 1 \in DOMAIN toHost[w] /\ Tail(toHost[w])[i] = toHost[w][i + 1]
      BY <1>1, <1>3
    <3>2. CASE v = w
      BY <1>3, <3>1, <3>2
    <3>3. CASE v # w
      BY <1>3, <3>3
    <3>. QED  BY <3>2, <3>3
  <2>3. Busy(v)' => Busy(v) /\ job'[v].run = job[v].run
    BY <1>1 DEF Busy
  <2>4. \A i \in DOMAIN toWorker'[v] : \E k \in DOMAIN toWorker[v] : toWorker'[v][i] = toWorker[v][k]
    BY <1>1
  <2>. QED  BY <1>1, <1>2, <1>6, <2>1, <2>2, <2>3, <2>4, TrackedKept
<1>7. ASSUME hostWorker # None, hostRun' # hostRun
      PROVE  Tracked(hostWorker, hostRun)'
  <2>1. /\ w = hostWorker /\ m.type = "event" /\ m.event.run = hostRun
        /\ IsTerminalEvent(m.event) /\ hostRun' = None
    BY <1>7 DEF OnWorkerMessage, ForwardEvent, Finish
  <2>2. Tracked(w, hostRun) /\ IsEventOf(m, hostRun) /\ hostRun \in Runs
    BY <1>2, <1>4, <1>7, <2>1 DEF OrphanInv, IsEventOf, TypeOK
  <2>3. Busy(w) => job[w].run \in disowned
    BY <1>3, <2>1, <2>2 DEF Tracked
  <2>4. \A i \in DOMAIN toWorker[w] : ~IsStartOf(toWorker[w][i], hostRun)
    BY <1>2, <1>3, <2>2 DEF FlowOf, Flow, Fresh
  <2>5. \A i \in DOMAIN toWorker[w] : toWorker[w][i].type = "start"
                                        => toWorker[w][i].run \in disowned
    BY <2>2, <2>4 DEF Tracked, IsStartOf
  <2>. QED  BY <1>1, <2>1, <2>3, <2>5 DEF Tracked, Busy
<1>8. hostWorker # None => Tracked(hostWorker, hostRun)'
  <2>1. hostWorker # None => hostWorker \in Workers
    BY <1>2 DEF TypeOK
  <2>2. ASSUME hostWorker # None, hostRun' = hostRun
        PROVE  Tracked(hostWorker, hostRun)'
    BY <1>1, <1>6, <2>1, <2>2 DEF Tracked, Busy, IsEventOf
  <2>. QED  BY <1>7, <2>2
<1>. QED  BY <1>1, <1>5, <1>8 DEF OrphanInv

(* An exit that ends the run of another worker disowns it: that worker goes on. *)
LEMMA ExitOrphan ==
    ASSUME OrphanInv, OrderInv', NEW w \in Workers, OnExit(w)
    PROVE  OrphanInv'
<1> USE NoneAssumption
<1>1. TypeOK
  BY DEF OrphanInv, OrderInv
<1>2. /\ proc[w] = "exited" /\ proc' = [proc EXCEPT ![w] = "gone"]
      /\ hostWorker' = IF hostWorker = w THEN None ELSE hostWorker
      /\ UNCHANGED <<starting, toWorker, toHost, job>>
      /\ hostRun' = None
      /\ w # hostWorker => disowned' = disowned \cup ({hostRun} \ {None})
  BY DEF OnExit, EmitTerminal, Finish, workerVars
<1>3. Unforked' /\ OneRun'
  BY <1>1, <1>2 DEF OrphanInv, Unforked, OneRun, OneStart, Busy, TypeOK
<1>4. ASSUME hostWorker' # None
      PROVE  Tracked(hostWorker, hostRun)'
  <2>1. /\ hostWorker' = hostWorker /\ hostWorker \in Workers /\ hostWorker # w
        /\ Tracked(hostWorker, hostRun)
    BY <1>1, <1>2, <1>4 DEF OrphanInv, TypeOK
  <2>2. \A i \in DOMAIN toWorker[hostWorker] : toWorker[hostWorker][i].run \in Runs
    <3>1. \A i \in DOMAIN toWorker[hostWorker] : toWorker[hostWorker][i] \in HostToWorker
      BY <1>1, <2>1 DEF TypeOK
    <3>. QED  BY <3>1 DEF HostToWorker
  <2>3. Busy(hostWorker) => job[hostWorker].run \in disowned' /\ job[hostWorker].run # None
    BY <1>2, <2>1 DEF Tracked, Busy
  <2>4. \A i \in DOMAIN toWorker[hostWorker] : toWorker[hostWorker][i].type = "start"
                                                 => toWorker[hostWorker][i].run \in disowned'
    BY <1>2, <2>1, <2>2 DEF Tracked
  <2>5. Busy(hostWorker)' <=> Busy(hostWorker)
    BY <1>2, <2>1 DEF Busy
  <2>. QED  BY <1>2, <2>1, <2>3, <2>4, <2>5 DEF Tracked
<1>. QED  BY <1>3, <1>4 DEF OrphanInv

(* A step of the host or the renderer. *)
LEMMA HostOrphan ==
    ASSUME OrphanInv, HostStep \/ RendererStep
    PROVE  OrphanInv'
<1> USE NoneAssumption DEF hostVars, workerVars
<1>1. OrderInv' /\ TypeOK
  BY HostOrder DEF OrphanInv, OrderInv
<1>2. CASE StartRefused
  <2>1. OneRun' /\ UNCHANGED <<hostWorker, hostRun, proc, job, toHost, toWorker, disowned>>
    BY <1>2 DEF StartRefused, OrphanInv, OneRun, OneStart
  <2>. QED  BY <1>1, <2>1, PostedOrphan
<1>3. ASSUME NEW r \in Runs, NEW w \in Workers, StartRun(r, w)
      PROVE  OrphanInv'
  BY <1>1, <1>3, StartOrphan
<1>4. CASE StopTimeout
  <2>1. /\ hostRun' = None /\ hostWorker' = None /\ UNCHANGED <<starting, toWorker, job>>
        /\ proc' = IF hostWorker # None /\ proc[hostWorker] = "alive"
                   THEN [proc EXCEPT ![hostWorker] = "killed"] ELSE proc
    BY <1>4 DEF StopTimeout, EmitTerminal, Finish
  <2>2. Unforked' /\ OneRun'
    BY <1>1, <2>1 DEF OrphanInv, Unforked, OneRun, OneStart, Busy, TypeOK
  <2>. QED  BY <1>1, <2>1, <2>2 DEF OrphanInv
<1>5. ASSUME NEW w \in Workers, OnExit(w)
      PROVE  OrphanInv'
  BY <1>1, <1>5, ExitOrphan
<1>6. ASSUME NEW w \in Workers, OnWorkerMessage(w)
      PROVE  OrphanInv'
  BY <1>1, <1>6, MessageOrphan
<1>7. ASSUME NEW r \in started, CallStop(r)
      PROVE  OrphanInv'
  <2>1. UNCHANGED <<starting, hostWorker, hostRun, proc, job, toHost, disowned>> /\ StopRun(r)
    BY <1>7 DEF CallStop, Stop
  <2>2. OneRun'
    BY <2>1 DEF OrphanInv, OneRun, OneStart
  <2>3. CASE UNCHANGED toWorker
    BY <1>1, <2>1, <2>2, <2>3, PostedOrphan
  <2>4. CASE ~UNCHANGED toWorker
    <3>1. hostWorker # None /\ r \in Runs /\ Post(hostWorker, ToWorker("stop", r, 0))
      BY <1>1, <2>1, <2>4 DEF StopRun, TypeOK
    <3>2. ToWorker("stop", r, 0) \in HostToWorker /\ ToWorker("stop", r, 0).type # "start"
      BY <3>1 DEF ToWorker, HostToWorker
    <3>. QED  BY <1>1, <2>1, <2>2, <3>1, <3>2, PostedOrphan
  <2>. QED  BY <2>3, <2>4
<1>8. CASE Start
  <2>1. OneRun' /\ UNCHANGED <<hostWorker, hostRun, proc, job, toHost, toWorker, disowned>>
    BY <1>8 DEF Start, StartBusy, OrphanInv, OneRun, OneStart
  <2>. QED  BY <1>1, <2>1, PostedOrphan
<1>9. ASSUME NEW r \in started, NEW q \in 1..MaxSeq, CallAnswer(r, q)
      PROVE  OrphanInv'
  <2>1. UNCHANGED <<starting, hostWorker, hostRun, proc, job, toHost, disowned>>
    BY <1>9 DEF CallAnswer, Answer
  <2>2. OneRun'
    BY <2>1 DEF OrphanInv, OneRun, OneStart
  <2>3. CASE hostRun = r /\ hostWorker # None
    <3>1. Post(hostWorker, ToWorker("answer", r, q))
      BY <1>9, <2>3 DEF CallAnswer, Answer
    <3>2. ToWorker("answer", r, q) \in HostToWorker /\ ToWorker("answer", r, q).type # "start"
      BY <1>1, BoundsAssumption DEF ToWorker, HostToWorker, TypeOK
    <3>. QED  BY <1>1, <2>1, <2>2, <2>3, <3>1, <3>2, PostedOrphan
  <2>4. CASE ~(hostRun = r /\ hostWorker # None)
    <3>1. UNCHANGED toWorker
      BY <1>9, <2>4 DEF CallAnswer, Answer
    <3>. QED  BY <1>1, <2>1, <2>2, <3>1, PostedOrphan
  <2>. QED  BY <2>3, <2>4
<1>. QED
  BY <1>2, <1>3, <1>4, <1>5, <1>6, <1>7, <1>8, <1>9 DEF HostStep, RendererStep

LEMMA OrphanInvariant == Spec => []OrphanInv
<1>1. Init => OrphanInv
  <2> SUFFICES ASSUME Init
               PROVE  OrphanInv
    OBVIOUS
  <2>1. OrderInv
    BY InitialOrder
  <2>2. Unforked /\ OneRun /\ hostWorker = None
    <3>1. NoJob.done
      BY DEF NoJob, NewJob
    <3>. QED  BY <3>1, NoneAssumption DEF Init, Unforked, OneRun, OneStart, Busy
  <2>. QED  BY <2>1, <2>2 DEF OrphanInv
<1>2. OrphanInv /\ [Next]_vars => OrphanInv'
  <2>1. ASSUME OrphanInv, UNCHANGED vars
        PROVE  OrphanInv'
    BY <2>1, StillOrder DEF OrphanInv, Unforked, OneRun, OneStart, Tracked, Busy, IsEventOf, vars,
                       hostVars, workerVars
  <2>2. ASSUME OrphanInv, NEW g \in Groups, CliEnds(g)
        PROVE  OrphanInv'
    BY <2>2, CliEndsOrder DEF OrphanInv, Unforked, OneRun, OneStart, Tracked, Busy, IsEventOf,
                         CliEnds, hostVars, workerVars
  <2>. QED  BY <2>1, <2>2, HostOrphan, WorkerOrphan DEF Next
<1>. QED  BY <1>1, <1>2, PTL DEF Spec

(* Stop, answers and the budget question reach the run at work in the current worker,
   unless the exit of a replaced worker made the host forget it. *)
THEOREM NoOrphanRunHolds == Spec => []NoOrphanRun
<1>1. OrphanInv => NoOrphanRun
  BY DEF OrphanInv, NoOrphanRun, Tracked
<1>. QED  BY <1>1, OrphanInvariant, PTL
=============================================================================
