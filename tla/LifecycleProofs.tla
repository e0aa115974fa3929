---------------------------- MODULE LifecycleProofs ----------------------------
(***************************************************************************)
(* Proofs about ServiceLifecycle, for every number of services, every set  *)
(* of tasks and operations, and every fault: its types, which jobs are at  *)
(* work wherever a task is suspended, and the course a task can take.      *)
(***************************************************************************)
EXTENDS ServiceLifecycle, TLAPS

JobPc == Pending \cup Ended \cup {"idle"}
JobType == [Tasks -> [Service -> Job]]
SeenType == [Tasks -> [Service -> State \cup {"unknown", "stalled"}]]
AtType == [Tasks -> Service \cup {0}]
PartType == [Tasks -> {"none", "create", "start", "stop", "destroy", "unregister"}]
ResultType == [Tasks -> {"none", "Done.", "False", "None", "failure", "lost"}]
StageType == [Tasks -> Stage]

\* What an action leaves behind, variable by variable.
ProgressType ==
  part \in PartType /\ stage \in StageType /\ at \in AtType /\ result \in ResultType
DockerType == container \in [Service -> Container] /\ data \subseteq Service
RegistryType == registered \in BOOLEAN /\ deployment \in BOOLEAN
AskedType ==
  /\ op \in [Tasks -> AllOperations \cup {"none"}]
  /\ target \in [Tasks -> SUBSET Service]
  /\ scrub \in [Tasks -> BOOLEAN]
  /\ before \in [Tasks -> [Service -> Container]]

LEMMA TypeParts ==
  TypeOK <=> /\ ProgressType /\ DockerType /\ RegistryType /\ AskedType
             /\ seen \in SeenType /\ job \in JobType
  BY DEF TypeOK, ProgressType, DockerType, RegistryType, AskedType, SeenType, JobType,
         AtType, PartType, ResultType, StageType

-----------------------------------------------------------------------------
\* Jobs.

LEMMA MovesJobType ==
  ASSUME job \in JobType, NEW k \in Tasks, NEW s \in Service,
         NEW pc \in JobPc, NEW id \in Nat, MovesJob(k, s, pc, id)
  PROVE  job' \in JobType
<1>1. job[k][s] \in Job
  BY DEF JobType
<1>2. [[job[k][s] EXCEPT !.pc = pc] EXCEPT !.id = id] \in Job
  BY <1>1 DEF Job, JobPc
<1>3. job' = [job EXCEPT ![k] = [job[k] EXCEPT ![s] = [[job[k][s] EXCEPT !.pc = pc] EXCEPT !.id = id]]]
  BY DEF MovesJob, JobType
<1> QED BY <1>2, <1>3 DEF JobType

LEMMA CallType ==
  ASSUME TypeOK, NEW k \in Tasks, NEW s \in Service, NEW c \in Container,
         NEW pc \in JobPc, NEW refusedPc \in JobPc, Call(k, s, c, pc, refusedPc)
  PROVE  container' \in [Service -> Container] /\ job' \in JobType
<1>1. job \in JobType /\ container \in [Service -> Container] /\ job[k][s].id \in Nat
  BY TypeParts DEF JobType, Job, DockerType
<1>2. container' \in [Service -> Container]
  BY <1>1 DEF Call
<1>3. \E p \in JobPc : MovesJob(k, s, p, job[k][s].id)
  BY DEF Call, JobPc, Ended
<1> QED BY <1>1, <1>2, <1>3, MovesJobType

LEMMA InspectionType ==
  ASSUME TypeOK, NEW s \in Service
  PROVE  Inspection(s) \subseteq State
  BY TypeParts DEF DockerType, Container, Inspection, State

LEMMA AfterFindType ==
  ASSUME NEW name, NEW pc, NEW id
  PROVE  AfterFind(name, pc, id) \in JobPc
  BY DEF AfterFind, JobPc, Pending

LEMMA AfterLookType ==
  ASSUME NEW name, NEW pc, NEW s, NEW found
  PROVE  AfterLook(name, pc, s, found) \in JobPc
  BY DEF AfterLook, Emit, JobPc, Pending, Ended

LEMMA JobStepType ==
  ASSUME TypeOK, NEW k \in Tasks, NEW s \in Service, JobStep(k, s)
  PROVE  TypeOK'
<1>0. /\ container[s] \in Container /\ job[k][s] \in Job
      /\ job \in JobType /\ seen \in SeenType /\ data \subseteq Service
      /\ container \in [Service -> Container]
  BY TypeParts DEF DockerType, JobType
<1>1. CASE Find(k, s)
  <2>1. PICK id \in Nat, pc \in JobPc : MovesJob(k, s, pc, id)
    BY <1>0, <1>1, AfterFindType DEF Find, Container, JobPc, Ended
  <2>2. job' \in JobType
    BY <1>0, <2>1, MovesJobType
  <2> QED BY <1>1, <2>2 DEF Find, TypeOK, JobType, docker, registry, asked, progress
<1>2. CASE Post(k, s)
  <2>1. Created(container[s]) \in Container
    BY <1>0 DEF Created, Container, State
  <2>2. container' \in [Service -> Container] /\ job' \in JobType
    BY <1>2, <2>1, CallType DEF Post, JobPc, Pending, Ended
  <2> QED BY <1>2, <2>2 DEF Post, TypeOK, JobType, registry, asked, progress
<1>3. CASE Run(k, s)
  <2>1. [container[s] EXCEPT !.state = "running"] \in Container
    BY <1>0 DEF Container, State
  <2>2. container' \in [Service -> Container] /\ job' \in JobType
    BY <1>0, <1>3, <2>1, CallType DEF Run, JobPc, Pending, Ended
  <2> QED BY <1>3, <2>2 DEF Run, TypeOK, JobType, registry, asked, progress
<1>4. CASE Kill(k, s)
  <2>1. [container[s] EXCEPT !.state = "stopped"] \in Container
    BY <1>0 DEF Container, State
  <2>2. container' \in [Service -> Container] /\ job' \in JobType
    BY <1>0, <1>4, <2>1, CallType DEF Kill, JobPc, Pending, Ended
  <2> QED BY <1>4, <2>2 DEF Kill, TypeOK, JobType, registry, asked, progress
<1>5. CASE Delete(k, s)
  <2>1. [container[s] EXCEPT !.state = "absent"] \in Container
    BY <1>0 DEF Container, State
  <2>2. container' \in [Service -> Container] /\ job' \in JobType
    BY <1>0, <1>5, <2>1, CallType DEF Delete, JobPc, Pending, Ended
  <2> QED BY <1>5, <2>2 DEF Delete, TypeOK, JobType, registry, asked, progress
<1>6. CASE Look(k, s)
  <2>1. job[k][s].id \in Nat
    BY <1>0 DEF Job
  <2>2. ASSUME NEW found \in State, seen' = [seen EXCEPT ![k][s] = found],
               MovesJob(k, s, AfterLook(job[k][s].name, job[k][s].pc, s, found), job[k][s].id)
        PROVE  job' \in JobType /\ seen' \in SeenType
    <3>1. job' \in JobType
      BY <1>0, <2>1, <2>2, MovesJobType, AfterLookType
    <3> QED BY <1>0, <2>2, <3>1 DEF SeenType
  <2>3. ASSUME MovesJob(k, s, "failed", job[k][s].id), UNCHANGED seen
        PROVE  job' \in JobType /\ seen' \in SeenType
    <3>1. "failed" \in JobPc
      BY DEF JobPc, Ended
    <3> QED BY <1>0, <2>1, <2>3, <3>1, MovesJobType
  <2>4. \/ \E found \in State :
             /\ seen' = [seen EXCEPT ![k][s] = found]
             /\ MovesJob(k, s, AfterLook(job[k][s].name, job[k][s].pc, s, found), job[k][s].id)
        \/ MovesJob(k, s, "failed", job[k][s].id) /\ UNCHANGED seen
    BY <1>6, InspectionType DEF Look
  <2>5. job' \in JobType /\ seen' \in SeenType
    BY <2>2, <2>3, <2>4
  <2> QED BY <1>6, <2>5 DEF Look, TypeOK, JobType, SeenType, docker, registry, asked, progress
<1>7. CASE Exec(k, s) \/ Listen(k, s)
  <2>1. job[k][s].id \in Nat
    BY <1>0 DEF Job
  <2>2. \E pc \in JobPc : MovesJob(k, s, pc, job[k][s].id)
    BY <1>7 DEF Exec, Listen, Emit, JobPc, Pending, Ended
  <2>3. job' \in JobType
    BY <1>0, <2>1, <2>2, MovesJobType
  <2> QED BY <1>7, <2>3 DEF Exec, Listen, TypeOK, JobType, docker, registry, asked, progress
<1> QED BY <1>1, <1>2, <1>3, <1>4, <1>5, <1>6, <1>7 DEF JobStep

\* What a call that stalls leaves of the job, or of the inspection, it belongs to.
LEMMA StallsForm ==
  ASSUME TypeOK, NEW k \in Tasks, NEW s \in Service, Stalls(k, s)
  PROVE  /\ UNCHANGED <<container, data, registered, deployment, op, target, scrub, before,
                        part, stage, at, result>>
         /\ seen' \in SeenType /\ job' \in JobType
         /\ \A j \in Tasks, t \in Service :
              /\ seen'[j][t] \in {seen[j][t], "stalled"}
              /\ \/ job'[j][t] = job[j][t]
                 \/ /\ job[j][t].pc \in Pending
                    /\ job'[j][t].pc = "stalled" /\ job'[j][t].name = job[j][t].name
<1>0. job \in JobType /\ seen \in SeenType /\ job[k][s].id \in Nat
  BY TypeParts DEF JobType, Job
<1>1. CASE Busy(k, s) /\ MovesJob(k, s, "stalled", job[k][s].id) /\ UNCHANGED seen
  <2>1. job' \in JobType
    BY <1>0, <1>1, MovesJobType DEF JobPc, Pending
  <2>2. /\ job'[k][s].pc = "stalled" /\ job'[k][s].name = job[k][s].name
        /\ \A j \in Tasks, t \in Service : j # k \/ t # s => job'[j][t] = job[j][t]
    BY <1>0, <1>1 DEF MovesJob, JobType, Job
  <2> QED BY <1>0, <1>1, <2>1, <2>2 DEF Stalls, Busy, docker, registry, asked, progress
<1>2. CASE seen' = [seen EXCEPT ![k][s] = "stalled"] /\ UNCHANGED job
  BY <1>0, <1>2 DEF Stalls, SeenType, docker, registry, asked, progress
<1> QED BY <1>1, <1>2 DEF Stalls

-----------------------------------------------------------------------------
\* How a turn of task k leaves its generator: what is common to every turn.

Outcome == {"Done.", "False", "None"}
Waits == {"creating", "starting", "waiting", "pausing", "stopping"}

\* The generators of the other tasks are where they were.
OthersStay(k) ==
  \A j \in Tasks \ {k} : stage'[j] = stage[j] /\ at'[j] = at[j] /\ result'[j] = result[j]

LEMMA OverTurn ==
  ASSUME ProgressType, NEW k \in Tasks, NEW r \in Outcome \cup {"failure"}, Over(k, r)
  PROVE  /\ ProgressType' /\ OthersStay(k)
         /\ stage'[k] = "over" /\ result'[k] = r
  BY DEF ProgressType, PartType, StageType, AtType, ResultType, Over, OthersStay, Stage, Outcome

LEMMA PartEndsTurn ==
  ASSUME ProgressType, NEW k \in Tasks, NEW r \in Outcome, PartEnds(k, r)
  PROVE  /\ ProgressType' /\ OthersStay(k)
         /\ \/ stage'[k] = "over" /\ result'[k] = r
            \/ stage'[k] \in {"get", "unregistering"} /\ result'[k] = result[k]
<1>1. CASE SecondPart(op[k]) \in {"none", part[k]}
  BY <1>1, OverTurn DEF PartEnds
<1>2. CASE SecondPart(op[k]) \notin {"none", part[k]}
  <2>1. SecondPart(op[k]) \in {"none", "start", "unregister"}
    BY DEF SecondPart
  <2> QED BY <1>2, <2>1 DEF PartEnds, ProgressType, PartType, StageType, AtType, ResultType,
                            OthersStay, Stage
<1> QED BY <1>1, <1>2

LEMMA SuspendTurn ==
  ASSUME ProgressType, NEW k \in Tasks, NEW where \in Stage, NEW s \in Service \cup {0},
         SuspendAt(k, where, s)
  PROVE  /\ ProgressType' /\ OthersStay(k)
         /\ stage'[k] = where /\ at'[k] = s /\ result'[k] = result[k]
  BY DEF ProgressType, PartType, StageType, AtType, ResultType, SuspendAt, OthersStay

LEMMA NewJobType ==
  ASSUME NEW name \in JobName
  PROVE  NewJob(name) \in Job
  BY DEF JobName, NewJob, Job, Pending, Ended

LEMMA LaunchType ==
  ASSUME job \in JobType, NEW k \in Tasks, NEW S, NEW name \in JobName, Launch(k, S, name)
  PROVE  /\ job' \in JobType
         /\ \A j \in Tasks \ {k} : job'[j] = job[j]
         /\ \A s \in Service \ S : job'[k][s] = job[k][s]
<1>1. NewJob(name) \in Job
  BY NewJobType
<1>2. [s \in Service |-> IF s \in S THEN NewJob(name) ELSE job[k][s]] \in [Service -> Job]
  BY <1>1 DEF JobType
<1> QED BY <1>2 DEF Launch, JobType

-----------------------------------------------------------------------------
\* The invariant: which jobs may be at work, by where the task is.

\* Here no job of a task is at work.
Resting == {"idle", "get", "deployment", "inspect", "waiting", "pausing", "unregistering"}

NoneBusy(k) == \A s \in Service : ~ Busy(k, s)

JobsSuit(k) ==
  /\ stage[k] \in Resting => NoneBusy(k)
  /\ stage[k] \in {"creating", "starting"} => \A s \in Service : Busy(k, s) => s = at[k]
  /\ result[k] # "none" => stage[k] = "over"
  /\ result[k] \in Outcome => NoneBusy(k)
  /\ stage[k] \in Waits => at[k] \in Service

IInv == TypeOK /\ \A k \in Tasks : JobsSuit(k)

\* The state of another task is as it was, and so are its jobs.
LEMMA OthersSuit ==
  ASSUME IInv, NEW k \in Tasks, OthersStay(k), \A j \in Tasks \ {k} : job'[j] = job[j]
  PROVE  \A j \in Tasks \ {k} : JobsSuit(j)'
  BY DEF IInv, JobsSuit, OthersStay, NoneBusy, Busy

LEMMA OverSuits ==
  ASSUME IInv, NEW k \in Tasks, NEW r \in Outcome \cup {"failure"}, Over(k, r),
         UNCHANGED job, r \in Outcome => NoneBusy(k)
  PROVE  ProgressType' /\ \A j \in Tasks : JobsSuit(j)'
<1>1. ProgressType' /\ OthersStay(k) /\ stage'[k] = "over" /\ result'[k] = r
  BY OverTurn, TypeParts DEF IInv
<1>2. JobsSuit(k)'
  BY <1>1 DEF JobsSuit, Resting, Waits, NoneBusy, Busy, Outcome
<1> QED BY <1>1, <1>2, OthersSuit

LEMMA PartEndsSuits ==
  ASSUME IInv, NEW k \in Tasks, NEW r \in Outcome, PartEnds(k, r),
         UNCHANGED job, NoneBusy(k), stage[k] # "over"
  PROVE  ProgressType' /\ \A j \in Tasks : JobsSuit(j)'
<1>1. /\ ProgressType' /\ OthersStay(k)
      /\ \/ stage'[k] = "over" /\ result'[k] = r
         \/ stage'[k] \in {"get", "unregistering"} /\ result'[k] = result[k]
  BY PartEndsTurn, TypeParts DEF IInv
<1>2. result[k] = "none"
  BY DEF IInv, JobsSuit
<1>3. JobsSuit(k)'
  BY <1>1, <1>2 DEF JobsSuit, Resting, Waits, NoneBusy, Busy, Outcome
<1> QED BY <1>1, <1>3, OthersSuit

\* A task that had no job at work launches the one it then waits for.
LEMMA LaunchSuits ==
  ASSUME IInv, NEW k \in Tasks, NEW s \in Service, NEW name \in JobName,
         NEW where \in {"creating", "starting"}, NoneBusy(k), stage[k] # "over",
         Launch(k, {s}, name), SuspendAt(k, where, s)
  PROVE  ProgressType' /\ job' \in JobType /\ \A j \in Tasks : JobsSuit(j)'
<1>1. /\ ProgressType' /\ OthersStay(k)
      /\ stage'[k] = where /\ at'[k] = s /\ result'[k] = result[k]
  BY SuspendTurn, TypeParts DEF IInv, Stage
<1>2. /\ job' \in JobType
      /\ \A j \in Tasks \ {k} : job'[j] = job[j]
      /\ \A t \in Service \ {s} : job'[k][t] = job[k][t]
  BY LaunchType, TypeParts DEF IInv
<1>3. result[k] = "none"
  BY DEF IInv, JobsSuit
<1>4. JobsSuit(k)'
  BY <1>1, <1>2, <1>3 DEF JobsSuit, Resting, NoneBusy, Busy, Outcome
<1> QED BY <1>1, <1>2, <1>4, OthersSuit

LEMMA StartNextSuits ==
  ASSUME IInv, NEW k \in Tasks, NEW last, StartNext(k, last), NoneBusy(k), stage[k] # "over"
  PROVE  ProgressType' /\ job' \in JobType /\ \A j \in Tasks : JobsSuit(j)'
<1>1. CASE \E s \in Service : Launch(k, {s}, "start") /\ SuspendAt(k, "starting", s)
  BY <1>1, LaunchSuits DEF JobName
<1>2. CASE PartEnds(k, "Done.") /\ UNCHANGED job
  BY <1>2, PartEndsSuits, TypeParts DEF IInv, Outcome, JobType
<1>3. target[k] \subseteq Service
  BY TypeParts DEF IInv, AskedType
<1> QED BY <1>1, <1>2, <1>3 DEF StartNext

LEMMA CreateNextSuits ==
  ASSUME IInv, NEW k \in Tasks, NEW last, CreateNext(k, last), NoneBusy(k), stage[k] # "over"
  PROVE  ProgressType' /\ job' \in JobType /\ \A j \in Tasks : JobsSuit(j)'
<1>1. CASE \E s \in Service : Launch(k, {s}, "create") /\ SuspendAt(k, "creating", s)
  BY <1>1, LaunchSuits DEF JobName
<1>2. CASE StartNext(k, 0)
  BY <1>2, StartNextSuits
<1>3. CASE PartEnds(k, "Done.") /\ UNCHANGED job
  BY <1>3, PartEndsSuits, TypeParts DEF IInv, Outcome, JobType
<1>4. target[k] \subseteq Service
  BY TypeParts DEF IInv, AskedType
<1> QED BY <1>1, <1>2, <1>3, <1>4 DEF CreateNext

\* Where several jobs may be at work, nothing is said about them.
LEMMA GatherSuits ==
  ASSUME IInv, NEW k \in Tasks, NEW where \in {"stopping", "gathering"},
         NEW s \in Service \cup {0}, where = "stopping" => s \in Service,
         SuspendAt(k, where, s), stage[k] # "over",
         job' \in JobType, \A j \in Tasks \ {k} : job'[j] = job[j]
  PROVE  ProgressType' /\ \A j \in Tasks : JobsSuit(j)'
<1>1. /\ ProgressType' /\ OthersStay(k)
      /\ stage'[k] = where /\ at'[k] = s /\ result'[k] = result[k]
  BY SuspendTurn, TypeParts DEF IInv, Stage
<1>2. result[k] = "none"
  BY DEF IInv, JobsSuit
<1>3. JobsSuit(k)'
  BY <1>1, <1>2 DEF JobsSuit, Resting, Waits, Outcome
<1> QED BY <1>1, <1>3, OthersSuit

LEMMA DestroyTurnType ==
  ASSUME TypeOK, NEW k \in Tasks, NEW S, NEW down, NEW stops, DestroyTurn(k, S, down, stops)
  PROVE  /\ job' \in JobType /\ data' \subseteq Service
         /\ \A j \in Tasks \ {k} : job'[j] = job[j]
<1>1. NewJob("destroy") \in Job /\ NewJob("stop") \in Job
  BY NewJobType DEF JobName
<1>2. job \in JobType /\ data \subseteq Service
  BY TypeParts DEF DockerType
<1>3. [t \in Service |->
        IF t \in S /\ (t \in down \/ seen[k][t] # "absent") THEN NewJob("destroy")
        ELSE IF t \in stops THEN NewJob("stop") ELSE job[k][t]] \in [Service -> Job]
  BY <1>1, <1>2 DEF JobType
<1> QED BY <1>2, <1>3 DEF DestroyTurn, JobType

LEMMA DestroyNextSuits ==
  ASSUME IInv, NEW k \in Tasks, NEW ahead \in SUBSET Service, NEW down,
         DestroyNext(k, ahead, down), stage[k] # "over"
  PROVE  /\ ProgressType' /\ job' \in JobType /\ data' \subseteq Service
         /\ \A j \in Tasks : JobsSuit(j)'
<1>1. CASE \E s \in Service : /\ DestroyTurn(k, {t \in ahead : t < s}, down, {s})
                              /\ SuspendAt(k, "stopping", s)
  BY <1>1, DestroyTurnType, GatherSuits DEF IInv
<1>2. CASE DestroyTurn(k, ahead, down, {}) /\ SuspendAt(k, "gathering", 0)
  BY <1>2, DestroyTurnType, GatherSuits DEF IInv
<1>3. StopsFirst(k, ahead, down) \subseteq Service
  BY DEF StopsFirst
<1> QED BY <1>1, <1>2, <1>3 DEF DestroyNext

LEMMA StopAllSuits ==
  ASSUME IInv, NEW k \in Tasks, StopAll(k), stage[k] # "over"
  PROVE  /\ ProgressType' /\ job' \in JobType /\ \A j \in Tasks : JobsSuit(j)'
<1>1. /\ job' \in JobType /\ \A j \in Tasks \ {k} : job'[j] = job[j]
  BY LaunchType, TypeParts DEF IInv, StopAll, JobName
<1> QED BY <1>1, GatherSuits DEF StopAll

-----------------------------------------------------------------------------
\* The actions of a task.

\* A job that ended is at work no longer, and it was the only one.
LEMMA EndedAlone ==
  ASSUME IInv, NEW k \in Tasks, NEW where \in {"creating", "starting"}, NEW how \in Ended,
         JobEnded(k, where, how)
  PROVE  NoneBusy(k) /\ stage[k] # "over"
  BY DEF IInv, JobsSuit, JobEnded, NoneBusy, Busy, Ended, Pending

\* The turns that leave containers, registry and questions alone.
LEMMA QuietTurns ==
  ASSUME IInv, NEW k \in Tasks, Get(k) \/ JobFailed(k) \/ AfterCreate(k) \/ AfterStart(k)
                                \/ Ready(k) \/ AfterPause(k) \/ Gathered(k)
  PROVE  IInv'
<1>1. /\ docker' = docker /\ registry' = registry /\ asked' = asked /\ seen' = seen
  BY DEF Get, JobFailed, AfterCreate, AfterStart, Ready, AfterPause, Gathered
<1>2. job \in JobType /\ at[k] \in Service \cup {0} /\ ProgressType
  BY TypeParts DEF IInv, ProgressType, AtType
<1>3. SUFFICES ProgressType' /\ job' \in JobType /\ \A j \in Tasks : JobsSuit(j)'
  BY <1>1, TypeParts
     DEF IInv, TypeOK, ProgressType, JobType, PartType, StageType, AtType, ResultType,
         docker, registry, asked
<1>4. CASE Get(k)
  <2>1. NoneBusy(k) /\ result[k] = "none"
    BY <1>4 DEF Get, IInv, JobsSuit, Resting
  <2>2. CASE registered
    <3>1. ProgressType' /\ OthersStay(k)
      BY <1>2, <1>4, <2>2 DEF Get, ProgressType, StageType, PartType, AtType, ResultType,
                              Stage, OthersStay
    <3>2. stage'[k] = "deployment" /\ result'[k] = "none" /\ job' = job
      BY <1>2, <1>4, <2>1, <2>2 DEF Get, ProgressType, StageType
    <3>3. JobsSuit(k)'
      BY <2>1, <3>2 DEF JobsSuit, NoneBusy, Busy, Waits, Outcome
    <3> QED BY <1>2, <3>1, <3>2, <3>3, OthersSuit
  <2>3. CASE ~ registered
    BY <1>2, <1>4, <2>1, <2>3, OverSuits DEF Get
  <2> QED BY <2>2, <2>3
<1>5. CASE JobFailed(k)
  BY <1>2, <1>5, OverSuits DEF JobFailed, Outcome
<1>6. CASE AfterCreate(k)
  BY <1>6, EndedAlone, CreateNextSuits DEF AfterCreate, Ended
<1>7. CASE AfterStart(k)
  <2>1. NoneBusy(k) /\ stage[k] # "over" /\ at[k] \in Service /\ result[k] = "none"
    BY <1>7, EndedAlone DEF AfterStart, Ended, JobEnded, IInv, JobsSuit, Waits
  <2>2. CASE SuspendAt(k, "waiting", at[k]) /\ UNCHANGED job
    <3>1. /\ ProgressType' /\ OthersStay(k)
          /\ stage'[k] = "waiting" /\ at'[k] = at[k] /\ result'[k] = result[k]
      BY <1>2, <2>2, SuspendTurn DEF Stage
    <3>2. JobsSuit(k)'
      BY <2>1, <2>2, <3>1 DEF JobsSuit, NoneBusy, Busy, Waits, Outcome
    <3> QED BY <1>2, <2>2, <3>1, <3>2, OthersSuit
  <2> QED BY <1>7, <2>1, <2>2, StartNextSuits DEF AfterStart
<1>8. CASE Ready(k)
  <2>1. NoneBusy(k) /\ at[k] \in Service /\ result[k] = "none" /\ job' = job
    BY <1>8 DEF Ready, IInv, JobsSuit, Waits, Resting
  <2>2. /\ ProgressType' /\ OthersStay(k)
        /\ stage'[k] = "pausing" /\ at'[k] = at[k] /\ result'[k] = result[k]
    BY <1>2, <1>8, SuspendTurn DEF Stage, Ready
  <2>3. JobsSuit(k)'
    BY <2>1, <2>2 DEF JobsSuit, NoneBusy, Busy, Waits, Outcome
  <2> QED BY <1>2, <2>1, <2>2, <2>3, OthersSuit
<1>9. CASE AfterPause(k)
  <2>1. NoneBusy(k) /\ stage[k] # "over"
    BY <1>9 DEF AfterPause, IInv, JobsSuit, Resting
  <2> QED BY <1>2, <1>9, <2>1, StartNextSuits, OverSuits DEF AfterPause, GoesOnIf, Outcome
<1>10. CASE Gathered(k)
  <2>1. CASE (\A s \in Service : ~ Busy(k, s)) /\ PartEnds(k, "Done.")
    BY <1>2, <1>10, <2>1, PartEndsSuits DEF Gathered, NoneBusy, Outcome
  <2>2. CASE Over(k, "failure")
    BY <1>2, <1>10, <2>2, OverSuits DEF Gathered, Outcome
  <2> QED BY <1>10, <2>1, <2>2 DEF Gathered
<1> QED BY <1>4, <1>5, <1>6, <1>7, <1>8, <1>9, <1>10

LEMMA BeginSuits ==
  ASSUME LifecycleAssumption, IInv, NEW k \in Tasks, Begin(k)
  PROVE  IInv'
<1>1. PICK o \in Operations, S \in {Service} \cup {{s} : s \in Service} :
        /\ op' = [op EXCEPT ![k] = o]
        /\ target' = [target EXCEPT ![k] = S]
        /\ part' = [part EXCEPT ![k] = FirstPart(o)]
        /\ scrub' \in {scrub} \cup {[scrub EXCEPT ![k] = TRUE]}
  BY DEF Begin
<1>2. o \in AllOperations /\ S \subseteq Service
  BY DEF LifecycleAssumption
<1>3. FirstPart(o) \in {"create", "start", "stop", "destroy"}
  BY <1>2 DEF FirstPart, AllOperations
<1>4. ProgressType /\ DockerType /\ AskedType
  BY TypeParts DEF IInv
<1>5. ProgressType'
  BY <1>1, <1>3, <1>4 DEF Begin, ProgressType, PartType, StageType, Stage, AtType, ResultType
<1>6. AskedType'
  BY <1>1, <1>2, <1>4 DEF Begin, AskedType, DockerType
<1>7. TypeOK'
  BY <1>5, <1>6, TypeParts
     DEF Begin, IInv, TypeOK, ProgressType, AskedType, PartType, StageType, AtType,
         ResultType, docker, registry
<1>8. OthersStay(k) /\ stage'[k] = "get" /\ UNCHANGED <<job, result, at>>
  BY <1>4 DEF Begin, OthersStay, ProgressType, StageType
<1>9. NoneBusy(k) /\ result[k] = "none"
  BY DEF Begin, IInv, JobsSuit, Resting
<1>10. JobsSuit(k)'
  BY <1>8, <1>9 DEF JobsSuit, NoneBusy, Busy, Waits, Outcome
<1> QED BY <1>7, <1>8, <1>10, OthersSuit DEF IInv

LEMMA LoadSuits ==
  ASSUME IInv, NEW k \in Tasks, Load(k)
  PROVE  IInv'
<1>1. /\ NoneBusy(k) /\ result[k] = "none" /\ stage[k] # "over"
      /\ ProgressType /\ seen \in SeenType /\ job \in JobType
  BY TypeParts DEF Load, IInv, JobsSuit, Resting
<1>2. UNCHANGED <<container, data, registered, deployment, op, target, scrub, before, job>>
  BY DEF Load, docker, registry, asked
<1>3. CASE deployment
  <2>1. /\ stage' = [stage EXCEPT ![k] = "inspect"] /\ UNCHANGED <<part, at, result>>
        /\ seen' = [seen EXCEPT ![k] = [s \in Service |-> "unknown"]]
    BY <1>3 DEF Load
  <2>2. ProgressType' /\ OthersStay(k) /\ stage'[k] = "inspect" /\ seen' \in SeenType
    BY <1>1, <2>1 DEF ProgressType, StageType, PartType, AtType, ResultType, Stage,
                      OthersStay, SeenType
  <2>3. JobsSuit(k)'
    BY <1>1, <1>2, <2>1, <2>2 DEF JobsSuit, NoneBusy, Busy, Waits, Outcome
  <2>4. \A j \in Tasks : JobsSuit(j)'
    BY <1>2, <2>2, <2>3, OthersSuit
  <2> QED BY <1>2, <2>2, <2>4
          DEF IInv, TypeOK, ProgressType, SeenType, PartType, StageType, AtType, ResultType
<1>4. CASE ~ deployment
  <2>1. UNCHANGED seen /\ (PartEnds(k, "None") \/ Over(k, "failure"))
    BY <1>4 DEF Load
  <2>2. ProgressType' /\ \A j \in Tasks : JobsSuit(j)'
    BY <1>1, <1>2, <2>1, PartEndsSuits, OverSuits DEF Outcome
  <2> QED BY <1>2, <2>1, <2>2
          DEF IInv, TypeOK, ProgressType, PartType, StageType, AtType, ResultType
<1> QED BY <1>3, <1>4

LEMMA LoadedSuits ==
  ASSUME IInv, NEW k \in Tasks, Loaded(k) \/ AfterStop(k)
  PROVE  IInv'
<1>1. UNCHANGED <<container, registered, deployment, op, target, scrub, before, seen>>
  BY DEF Loaded, AfterStop, registry, asked
<1>2. target[k] \subseteq Service /\ data \subseteq Service
  BY TypeParts DEF IInv, AskedType, DockerType
<1>3. ProgressType' /\ job' \in JobType /\ data' \subseteq Service /\ \A j \in Tasks : JobsSuit(j)'
  <2>1. CASE Loaded(k)
    <3>1. stage[k] = "inspect" /\ NoneBusy(k)
      BY <2>1 DEF Loaded, Inspected, IInv, JobsSuit, Resting
    <3>2. CASE CreateNext(k, 0) /\ UNCHANGED data
      BY <1>2, <3>1, <3>2, CreateNextSuits
    <3>3. CASE StopAll(k) /\ UNCHANGED data
      BY <1>2, <3>1, <3>3, StopAllSuits
    <3>4. CASE DestroyNext(k, target[k], {})
      BY <1>2, <3>1, <3>4, DestroyNextSuits
    <3> QED BY <2>1, <3>2, <3>3, <3>4 DEF Loaded
  <2>2. CASE AfterStop(k)
    <3>1. stage[k] # "over" /\ {s \in target[k] : s >= at[k]} \in SUBSET Service
      BY <1>2, <2>2 DEF AfterStop, JobEnded
    <3> QED BY <2>2, <3>1, DestroyNextSuits DEF AfterStop
  <2> QED BY <2>1, <2>2
<1> QED BY <1>1, <1>3
        DEF IInv, TypeOK, ProgressType, JobType, PartType, StageType, AtType, ResultType

LEMMA TimedOutSuits ==
  ASSUME IInv, NEW k \in Tasks, TimedOut(k)
  PROVE  IInv'
<1>1. UNCHANGED <<container, data, registered, deployment, op, target, scrub, before>>
  BY DEF TimedOut, docker, registry, asked
<1>2. /\ NoneBusy(k) /\ stage[k] # "over" /\ at[k] \in Service
      /\ seen \in SeenType /\ job \in JobType
  BY TypeParts DEF TimedOut, IInv, JobsSuit, Resting, Waits
<1>3. ASSUME NEW found \in State, seen' = [seen EXCEPT ![k][at[k]] = found],
             GoesOnIf(k, found = "running")
      PROVE  /\ seen' \in SeenType
             /\ ProgressType' /\ job' \in JobType /\ \A j \in Tasks : JobsSuit(j)'
  <2>1. seen' \in SeenType
    BY <1>2, <1>3 DEF SeenType
  <2>2. CASE StartNext(k, at[k])
    BY <1>2, <2>1, <2>2, StartNextSuits
  <2>3. CASE Over(k, "False") /\ UNCHANGED job
    <3>1. ProgressType' /\ \A j \in Tasks : JobsSuit(j)'
      BY <1>2, <2>3, OverSuits DEF Outcome
    <3> QED BY <1>2, <2>1, <2>3, <3>1
  <2> QED BY <1>3, <2>1, <2>2, <2>3 DEF GoesOnIf
<1>4. ASSUME Over(k, "failure"), UNCHANGED <<seen, job>>
      PROVE  /\ seen' \in SeenType
             /\ ProgressType' /\ job' \in JobType /\ \A j \in Tasks : JobsSuit(j)'
  <2>1. ProgressType' /\ \A j \in Tasks : JobsSuit(j)'
    BY <1>2, <1>4, OverSuits DEF Outcome
  <2> QED BY <1>2, <1>4, <2>1
<1>5. /\ seen' \in SeenType
      /\ ProgressType' /\ job' \in JobType /\ \A j \in Tasks : JobsSuit(j)'
  <2>1. \/ \E found \in State : /\ seen' = [seen EXCEPT ![k][at[k]] = found]
                               /\ GoesOnIf(k, found = "running")
        \/ Over(k, "failure") /\ UNCHANGED <<seen, job>>
    BY <1>2, InspectionType DEF TimedOut, IInv
  <2> QED BY <1>3, <1>4, <2>1
<1> QED BY <1>1, <1>5
        DEF IInv, TypeOK, ProgressType, JobType, SeenType, PartType, StageType, AtType, ResultType

LEMMA UnregisterSuits ==
  ASSUME IInv, NEW k \in Tasks, Unregister(k)
  PROVE  IInv'
<1>1. UNCHANGED <<container, data, deployment, op, target, scrub, before, seen, job>>
  BY DEF Unregister, docker, asked
<1>2. registered' \in BOOLEAN
  BY DEF Unregister
<1>3. NoneBusy(k)
  BY DEF Unregister, IInv, JobsSuit, Resting
<1>4. ProgressType' /\ \A j \in Tasks : JobsSuit(j)'
  BY <1>1, <1>3, OverSuits DEF Unregister, Outcome
<1> QED BY <1>1, <1>2, <1>4
        DEF IInv, TypeOK, ProgressType, PartType, StageType, AtType, ResultType

LEMMA InspectSuits ==
  ASSUME IInv, NEW k \in Tasks, NEW s \in Service, Inspect(k, s)
  PROVE  IInv'
<1>1. UNCHANGED <<container, data, registered, deployment, op, target, scrub, before, job>>
  BY DEF Inspect, docker, registry, asked
<1>2. /\ NoneBusy(k) /\ stage[k] # "over"
      /\ seen \in SeenType /\ job \in JobType
  BY TypeParts DEF Inspect, IInv, JobsSuit, Resting
<1>3. seen' \in SeenType
  BY <1>2, InspectionType DEF Inspect, IInv, SeenType
<1>4. CASE UNCHANGED progress
  BY <1>1, <1>3, <1>4 DEF IInv, TypeOK, SeenType, JobsSuit, NoneBusy, Busy, progress
<1>5. CASE Over(k, "failure")
  <2>1. ProgressType' /\ \A j \in Tasks : JobsSuit(j)'
    BY <1>1, <1>2, <1>5, OverSuits DEF Outcome
  <2> QED BY <1>1, <1>3, <2>1
          DEF IInv, TypeOK, ProgressType, SeenType, PartType, StageType, AtType, ResultType
<1> QED BY <1>4, <1>5 DEF Inspect

LEMMA JobStepSuits ==
  ASSUME IInv, NEW k \in Tasks, NEW s \in Service, JobStep(k, s)
  PROVE  IInv'
<1>1. TypeOK'
  BY JobStepType DEF IInv
<1>2. Busy(k, s)
  BY DEF JobStep, Find, Post, Run, Kill, Delete, Look, Exec, Listen, Busy, Pending
<1>3. UNCHANGED <<part, stage, at, result>>
  BY DEF JobStep, Find, Post, Run, Kill, Delete, Look, Exec, Listen, progress
<1>4. PICK pc, id : MovesJob(k, s, pc, id)
  BY DEF JobStep, Find, Post, Run, Kill, Delete, Look, Exec, Listen, Call
<1>5. \A j \in Tasks, t \in Service : j # k \/ t # s => job'[j][t] = job[j][t]
  BY <1>4, TypeParts DEF MovesJob, IInv, JobType
<1>6. \A j \in Tasks : JobsSuit(j)'
  BY <1>2, <1>3, <1>5 DEF IInv, JobsSuit, NoneBusy, Busy
<1> QED BY <1>1, <1>6 DEF IInv

LEMMA StallsSuits ==
  ASSUME IInv, NEW k \in Tasks, NEW s \in Service, Stalls(k, s)
  PROVE  IInv'
<1>1. /\ UNCHANGED <<container, data, registered, deployment, op, target, scrub, before,
                     part, stage, at, result>>
      /\ seen' \in SeenType /\ job' \in JobType
      /\ \A j \in Tasks, t \in Service : Busy(j, t)' => Busy(j, t)
  BY StallsForm DEF IInv, Busy
<1>2. \A j \in Tasks : JobsSuit(j)'
  BY <1>1 DEF IInv, JobsSuit, NoneBusy
<1> QED BY <1>1, <1>2 DEF IInv, TypeOK, SeenType, JobType

\* The actions that are no task's.
LEMMA ChangesSuit ==
  ASSUME IInv, (\E s \in Service : ContainerExits(s)) \/ DeploymentChanges \/ Crash
  PROVE  IInv'
<1>1. CASE \E s \in Service : ContainerExits(s)
  <2>1. PICK s \in Service : ContainerExits(s)
    BY <1>1
  <2>2. container' \in [Service -> Container]
    BY <2>1, TypeParts DEF ContainerExits, IInv, DockerType, Container, State
  <2>3. UNCHANGED <<data, registered, deployment, op, target, scrub, before, job, part, stage,
                    at, result, seen>>
    BY <2>1 DEF ContainerExits, registry, asked, progress
  <2> QED BY <2>2, <2>3 DEF IInv, TypeOK, JobsSuit, NoneBusy, Busy
<1>2. CASE DeploymentChanges
  BY <1>2 DEF DeploymentChanges, IInv, TypeOK, JobsSuit, NoneBusy, Busy, docker, asked, progress
<1>3. CASE Crash
  <2>1. NoJob \in Job /\ NoJob.pc \notin Pending
    BY DEF NoJob, Job, Pending
  <2>2. job' \in JobType /\ \A j \in Tasks : NoneBusy(j)'
    BY <1>3, <2>1 DEF Crash, JobType, NoneBusy, Busy
  <2>3. ProgressType'
    BY <1>3, TypeParts DEF Crash, IInv, ProgressType, PartType, StageType, AtType, ResultType, Stage
  <2>4. \A j \in Tasks : JobsSuit(j)'
    <3>1. ASSUME NEW j \in Tasks PROVE JobsSuit(j)'
      <4>1. stage'[j] \in {"idle", "over"} /\ (result'[j] # "none" => stage'[j] = "over")
        BY <1>3, TypeParts DEF Crash, IInv, JobsSuit, Active, ProgressType, StageType
      <4> QED BY <2>2, <4>1 DEF JobsSuit, NoneBusy, Waits
    <3> QED BY <3>1
  <2> QED BY <1>3, <2>2, <2>3, <2>4
          DEF Crash, IInv, TypeOK, ProgressType, JobType, PartType, StageType, AtType, ResultType,
              docker, registry, asked
<1> QED BY <1>1, <1>2, <1>3

-----------------------------------------------------------------------------
LEMMA InvInit ==
  ASSUME LifecycleAssumption, Init
  PROVE  IInv
<1>1. NoContainer \in Container /\ NoJob \in Job /\ NoJob.pc \notin Pending
  BY DEF NoContainer, Container, State, NoJob, Job, Pending
<1>2. PICK left \in [Service -> Initially] :
        /\ container = [s \in Service |-> IF left[s] = "absent" THEN NoContainer
                                          ELSE [state |-> left[s], id |-> 1]]
        /\ data = {s \in Service : left[s] # "absent"}
  BY DEF Init
<1>3. container \in [Service -> Container]
  BY <1>1, <1>2 DEF LifecycleAssumption, Container, State
<1>4. \A k \in Tasks : JobsSuit(k)
  BY <1>1 DEF Init, JobsSuit, NoneBusy, Busy, Waits, Outcome
<1> QED BY <1>1, <1>2, <1>3, <1>4 DEF Init, IInv, TypeOK, Stage, State, Service

LEMMA InvStep ==
  ASSUME LifecycleAssumption, IInv, [Next]_vars
  PROVE  IInv'
<1>1. ASSUME NEW k \in Tasks, Begin(k) \/ Ready(k) \/ TaskTurn(k) PROVE IInv'
  BY <1>1, BeginSuits, QuietTurns, LoadSuits, LoadedSuits, TimedOutSuits, UnregisterSuits
     DEF TaskTurn
<1>2. ASSUME NEW k \in Tasks, NEW s \in Service,
             Inspect(k, s) \/ JobStep(k, s) \/ Stalls(k, s)
      PROVE  IInv'
  BY <1>2, InspectSuits, JobStepSuits, StallsSuits
<1>3. CASE (\E s \in Service : ContainerExits(s)) \/ DeploymentChanges \/ Crash
  BY <1>3, ChangesSuit
<1>4. CASE UNCHANGED vars
  BY <1>4 DEF vars, docker, registry, asked, progress, IInv, TypeOK, JobsSuit, NoneBusy, Busy
<1> QED BY <1>1, <1>2, <1>3, <1>4 DEF Next

THEOREM InvHolds == Spec => []IInv
<1>1. Init => IInv
  BY InvInit, LifecycleAssumption
<1>2. IInv /\ [Next]_vars => IInv'
  BY InvStep, LifecycleAssumption
<1> QED BY <1>1, <1>2, PTL DEF Spec

\* Every variable keeps its type, whatever Docker and the tasks do.
THEOREM LifecycleTypeCorrect == Spec => []TypeOK
<1>1. IInv => TypeOK
  BY DEF IInv
<1> QED BY <1>1, InvHolds, PTL

\* No generator drives a container on behalf of a task that has reported
\* anything but a failure.
THEOREM NoJobEverOutlivesSuccess == Spec => []NoJobOutlivesSuccess
<1>1. IInv => NoJobOutlivesSuccess
  BY DEF IInv, JobsSuit, NoJobOutlivesSuccess, NoneBusy, Outcome
<1> QED BY <1>1, InvHolds, PTL

-----------------------------------------------------------------------------
(* The course of a task. *)

\* What the generator of a job can be suspended at.
Shape(j) ==
  \/ j.name = "none" /\ j.pc = "idle"
  \/ j.name = "create" /\ j.pc \in {"post", "created", "stalled"} \cup Ended
  \/ /\ j.name = "start"
     /\ j.pc \in {"find", "post", "created", "refind", "image", "run", "started", "exec",
                  "listen", "look", "stalled"} \cup Ended
  \/ j.name = "stop" /\ j.pc \in {"find", "kill", "look", "stalled"} \cup Ended
  \/ j.name = "destroy" /\ j.pc \in {"find", "delete", "look", "stalled"} \cup Ended

\* A generator in part p can be suspended at g.
Fits(p, g) ==
  \/ p = "none" /\ g \in {"idle", "over"}
  \/ p = "unregister" /\ g = "unregistering"
  \/ p \in {"create", "start", "stop", "destroy"} /\ g \in {"get", "deployment", "inspect"}
  \/ p \in {"create", "start"} /\ g = "creating"
  \/ p = "start" /\ g \in {"starting", "waiting", "pausing"}
  \/ p = "destroy" /\ g = "stopping"
  \/ p \in {"stop", "destroy"} /\ g = "gathering"

\* Here the task has not inspected every service yet.
Blind == {"idle", "get", "deployment", "inspect", "unregistering", "over"}

\* The jobs that may be at work in part p.
JobsOf(p) ==
  IF p = "stop" THEN {"stop"}
  ELSE IF p = "destroy" THEN {"stop", "destroy"} ELSE {"create", "start"}

\* Where task k is fits what it was asked for, and so do its jobs.
Course(k) ==
  /\ Fits(part[k], stage[k])
  /\ part[k] # "none" => /\ op[k] # "none"
                         /\ part[k] \in {FirstPart(op[k]), SecondPart(op[k])}
                         /\ \A s \in Service : Busy(k, s) => s \in target[k] /\ job[k][s].name \in JobsOf(part[k])
  /\ stage[k] \notin Blind => \A s \in Service : seen[k][s] # "unknown"
  /\ stage[k] \in Waits => at[k] \in target[k]

NotAskedYet == \A k \in Tasks : stage[k] = "idle" => op[k] = "none"

\* The inductive invariant of the course of every task.
CourseInv ==
  /\ IInv /\ NotAskedYet
  /\ \A k \in Tasks : Course(k)
  /\ \A k \in Tasks, s \in Service : Shape(job[k][s])

\* Everything of the other tasks is as it was.
Apart(k) ==
  \A j \in Tasks \ {k} :
    /\ stage'[j] = stage[j] /\ at'[j] = at[j] /\ part'[j] = part[j] /\ result'[j] = result[j]
    /\ job'[j] = job[j] /\ seen'[j] = seen[j]

LEMMA PartEndsApart ==
  ASSUME ProgressType, NEW k \in Tasks, NEW r, PartEnds(k, r) \/ Over(k, r)
  PROVE  \A j \in Tasks \ {k} : /\ stage'[j] = stage[j] /\ at'[j] = at[j]
                                /\ part'[j] = part[j] /\ result'[j] = result[j]
BY DEF PartEnds, Over, ProgressType, PartType, StageType, AtType, ResultType

LEMMA SuspendApart ==
  ASSUME ProgressType, NEW k \in Tasks, NEW g, NEW s, SuspendAt(k, g, s)
  PROVE  \A j \in Tasks \ {k} : /\ stage'[j] = stage[j] /\ at'[j] = at[j]
                                /\ part'[j] = part[j] /\ result'[j] = result[j]
BY DEF SuspendAt, ProgressType, PartType, StageType, AtType, ResultType

LEMMA LaunchApart ==
  ASSUME job \in JobType, NEW k \in Tasks, NEW S, NEW name, Launch(k, S, name)
  PROVE  /\ \A j \in Tasks \ {k} : job'[j] = job[j]
         /\ \A s \in Service : job'[k][s] = IF s \in S THEN NewJob(name) ELSE job[k][s]
BY DEF Launch, JobType

LEMMA DestroyTurnApart ==
  ASSUME job \in JobType, NEW k \in Tasks, NEW S, NEW down, NEW stops, DestroyTurn(k, S, down, stops)
  PROVE  /\ \A j \in Tasks \ {k} : job'[j] = job[j]
         /\ \A t \in Service :
              job'[k][t] = IF t \in S /\ (t \in down \/ seen[k][t] # "absent") THEN NewJob("destroy")
                           ELSE IF t \in stops THEN NewJob("stop") ELSE job[k][t]
BY DEF DestroyTurn, JobType

LEMMA NextApart ==
  ASSUME TypeOK, NEW k \in Tasks, NEW last,
         StartNext(k, last) \/ CreateNext(k, last), UNCHANGED seen
  PROVE  Apart(k)
<1>1. ProgressType /\ job \in JobType
  BY TypeParts
<1> QED BY <1>1, PartEndsApart, SuspendApart, LaunchApart
        DEF StartNext, CreateNext, Apart

LEMMA TurnApart ==
  ASSUME TypeOK, NEW k \in Tasks, TaskTurn(k) \/ Ready(k)
  PROVE  Apart(k) /\ UNCHANGED <<container, deployment, op, target, scrub, before>>
<1>1. ProgressType /\ job \in JobType /\ seen \in SeenType
  BY TypeParts
<1>2. UNCHANGED <<container, deployment, op, target, scrub, before>>
  BY DEF TaskTurn, Get, Load, Loaded, JobFailed, AfterCreate, AfterStart, AfterPause, TimedOut,
         AfterStop, Gathered, Unregister, Ready, docker, registry, asked
<1> SUFFICES Apart(k)
  BY <1>2
<1>3. CASE Get(k)
  BY <1>1, <1>3, PartEndsApart DEF Get, Apart, ProgressType, StageType
<1>4. CASE Load(k)
  BY <1>1, <1>4, PartEndsApart DEF Load, Apart, ProgressType, StageType, SeenType
<1>5. CASE Loaded(k) \/ AfterStop(k)
  <2>1. ASSUME NEW ahead, NEW down, DestroyNext(k, ahead, down), UNCHANGED seen PROVE Apart(k)
    <3>1. ASSUME NEW g, NEW s, NEW S, NEW stops, DestroyTurn(k, S, down, stops), SuspendAt(k, g, s)
          PROVE  Apart(k)
      BY <1>1, <2>1, <3>1, SuspendApart, DestroyTurnApart DEF Apart
    <3> QED BY <2>1, <3>1 DEF DestroyNext
  <2>2. ASSUME StopAll(k), UNCHANGED seen PROVE Apart(k)
    BY <1>1, <2>2, SuspendApart, LaunchApart DEF StopAll, Apart
  <2> QED BY <1>5, <2>1, <2>2, NextApart DEF Loaded, AfterStop
<1>6. CASE JobFailed(k) \/ Gathered(k) \/ Unregister(k)
  BY <1>1, <1>6, PartEndsApart DEF JobFailed, Gathered, Unregister, Apart
<1>7. CASE AfterCreate(k) \/ AfterStart(k) \/ Ready(k)
  BY <1>1, <1>7, NextApart, SuspendApart DEF AfterCreate, AfterStart, Ready, Apart
<1>8. CASE AfterPause(k) \/ TimedOut(k)
  <2>1. \A j \in Tasks \ {k} : seen'[j] = seen[j]
    BY <1>1, <1>8 DEF AfterPause, TimedOut, SeenType
  <2>2. CASE StartNext(k, at[k])
    <3>1. ASSUME NEW g, NEW s, NEW name, Launch(k, {s}, name), SuspendAt(k, g, s) PROVE Apart(k)
      BY <1>1, <2>1, <3>1, SuspendApart, LaunchApart DEF Apart
    <3>2. CASE PartEnds(k, "Done.") /\ UNCHANGED job
      BY <1>1, <2>1, <3>2, PartEndsApart DEF Apart
    <3> QED BY <2>2, <3>1, <3>2 DEF StartNext
  <2>3. CASE (Over(k, "False") \/ Over(k, "failure")) /\ UNCHANGED job
    BY <1>1, <2>1, <2>3, PartEndsApart DEF Apart
  <2> QED BY <1>8, <2>2, <2>3 DEF AfterPause, TimedOut, GoesOnIf
<1> QED BY <1>3, <1>4, <1>5, <1>6, <1>7, <1>8 DEF TaskTurn

\* The step of a job leaves everything but itself, what was seen of its
\* service, and that service's container and data.
StepsApart(k, s) ==
  /\ \A j \in Tasks, t \in Service :
       j # k \/ t # s => job'[j][t] = job[j][t] /\ seen'[j][t] = seen[j][t]
  /\ job'[k][s].name = job[k][s].name
  /\ \A t \in Service \ {s} : container'[t] = container[t] /\ (t \in data' <=> t \in data)
  /\ UNCHANGED <<part, stage, at, result, registered, deployment, op, target, scrub, before>>

LEMMA MovesJobTo ==
  ASSUME job \in JobType, NEW k \in Tasks, NEW s \in Service, NEW pc, NEW id, MovesJob(k, s, pc, id)
  PROVE  /\ job'[k][s].name = job[k][s].name /\ job'[k][s].pc = pc /\ job'[k][s].id = id
         /\ \A j \in Tasks, t \in Service : j # k \/ t # s => job'[j][t] = job[j][t]
BY DEF MovesJob, JobType, Job

LEMMA JobStepApart ==
  ASSUME TypeOK, NEW k \in Tasks, NEW s \in Service, JobStep(k, s)
  PROVE  StepsApart(k, s) /\ Busy(k, s)
<1>0. /\ container \in [Service -> Container] /\ seen \in SeenType /\ job \in JobType
  BY TypeParts DEF DockerType
<1>1. PICK pc, id : MovesJob(k, s, pc, id)
  BY DEF JobStep, Find, Post, Run, Kill, Delete, Look, Exec, Listen, Call
<1>2. /\ job'[k][s].name = job[k][s].name
      /\ \A j \in Tasks, t \in Service : j # k \/ t # s => job'[j][t] = job[j][t]
  BY <1>0, <1>1, MovesJobTo
<1>3. \A t \in Service \ {s} : container'[t] = container[t] /\ (t \in data' <=> t \in data)
  BY <1>0 DEF JobStep, Find, Post, Run, Kill, Delete, Look, Exec, Listen, Call, docker
<1>4. \A j \in Tasks, t \in Service : j # k \/ t # s => seen'[j][t] = seen[j][t]
  BY <1>0 DEF JobStep, Find, Post, Run, Kill, Delete, Look, Exec, Listen, SeenType
<1>5. UNCHANGED <<part, stage, at, result, registered, deployment, op, target, scrub, before>>
  BY DEF JobStep, Find, Post, Run, Kill, Delete, Look, Exec, Listen, progress, registry, asked
<1>6. Busy(k, s)
  BY DEF JobStep, Find, Post, Run, Kill, Delete, Look, Exec, Listen, Busy, Pending
<1> QED BY <1>2, <1>3, <1>4, <1>5, <1>6 DEF StepsApart

LEMMA NewJobFields ==
  ASSUME NEW name \in JobName
  PROVE  /\ Shape(NewJob(name)) /\ NewJob(name).name = name /\ NewJob(name).pc \in Pending
         /\ NewJob(name).pc = IF name = "create" THEN "post" ELSE "find"
         /\ NewJob(name).id = 0
BY DEF NewJob, Shape, JobName, Pending

\* What a turn does to the jobs: it leaves each, or begins a new one.
LEMMA TurnJobs ==
  ASSUME TypeOK, NEW k \in Tasks, TaskTurn(k) \/ Ready(k), NEW s \in Service
  PROVE  job'[k][s] = job[k][s] \/ \E name \in JobName : job'[k][s] = NewJob(name)
<1>1. job \in JobType
  BY TypeParts
<1>2. ASSUME NEW S, NEW name \in JobName, Launch(k, S, name)
      PROVE  job'[k][s] = job[k][s] \/ \E n \in JobName : job'[k][s] = NewJob(n)
  BY <1>1, <1>2, LaunchApart
<1>3. ASSUME NEW S, NEW down, NEW stops, DestroyTurn(k, S, down, stops)
      PROVE  job'[k][s] = job[k][s] \/ \E n \in JobName : job'[k][s] = NewJob(n)
  BY <1>1, <1>3, DestroyTurnApart DEF JobName
<1>4. \/ job' = job
      \/ \E S, name : name \in JobName /\ Launch(k, S, name)
      \/ \E S, down, stops : DestroyTurn(k, S, down, stops)
  <2>1. ASSUME NEW last, StartNext(k, last)
        PROVE job' = job \/ \E S, name : name \in JobName /\ Launch(k, S, name)
    BY <2>1 DEF StartNext, JobName
  <2>2. ASSUME NEW last, CreateNext(k, last)
        PROVE job' = job \/ \E S, name : name \in JobName /\ Launch(k, S, name)
    BY <2>1, <2>2 DEF CreateNext, JobName
  <2>3. ASSUME StopAll(k) PROVE \E S, name : name \in JobName /\ Launch(k, S, name)
    BY <2>3 DEF StopAll, JobName
  <2>4. ASSUME NEW ahead, NEW down, DestroyNext(k, ahead, down)
        PROVE \E S, d, stops : DestroyTurn(k, S, d, stops)
    BY <2>4 DEF DestroyNext
  <2> QED BY <2>1, <2>2, <2>3, <2>4
          DEF TaskTurn, Get, Load, Loaded, JobFailed, AfterCreate, AfterStart, AfterPause, TimedOut,
              AfterStop, Gathered, Unregister, Ready, GoesOnIf
<1> QED BY <1>2, <1>3, <1>4

\* Where a turn goes from, and what it knows.
Aware(k) == \A s \in Service : seen[k][s] # "unknown"

LEMMA OverCourse ==
  ASSUME ProgressType, NEW k \in Tasks, NEW r, Over(k, r)
  PROVE  Course(k)'
BY DEF Over, Course, Fits, Blind, Waits, ProgressType, PartType, StageType

LEMMA SecondParts ==
  ASSUME AskedType, NEW k \in Tasks
  PROVE  /\ SecondPart(op[k]) \in {"none", "start", "unregister"}
         /\ FirstPart(op[k]) \in {"none", "create", "start", "stop", "destroy"}
BY DEF SecondPart, FirstPart, AskedType, AllOperations

LEMMA PartEndsTo ==
  ASSUME ProgressType, NEW k \in Tasks, NEW r, PartEnds(k, r)
  PROVE  \/ Over(k, r) /\ SecondPart(op[k]) \in {"none", part[k]}
         \/ /\ SecondPart(op[k]) \notin {"none", part[k]}
            /\ part'[k] = SecondPart(op[k])
            /\ stage'[k] = IF part'[k] = "unregister" THEN "unregistering" ELSE "get"
            /\ result' = result
BY DEF PartEnds, ProgressType, PartType, StageType

LEMMA PartEndsCourse ==
  ASSUME ProgressType, AskedType, NEW k \in Tasks, Course(k), part[k] # "none", NoneBusy(k),
         NEW r, PartEnds(k, r), UNCHANGED <<job, op, target>>
  PROVE  Course(k)'
<1>1. CASE Over(k, r)
  BY <1>1, OverCourse
<1>2. CASE /\ SecondPart(op[k]) \notin {"none", part[k]}
           /\ part'[k] = SecondPart(op[k])
           /\ stage'[k] = IF part'[k] = "unregister" THEN "unregistering" ELSE "get"
  BY <1>2, SecondParts DEF Course, Fits, Blind, Waits, NoneBusy, Busy
<1> QED BY <1>1, <1>2, PartEndsTo

LEMMA SuspendTo ==
  ASSUME ProgressType, NEW k \in Tasks, NEW g, NEW s, SuspendAt(k, g, s)
  PROVE  stage'[k] = g /\ at'[k] = s /\ part' = part /\ result' = result
BY DEF SuspendAt, ProgressType, StageType, AtType

LEMMA SuspendCourse ==
  ASSUME ProgressType, NEW k \in Tasks, Course(k), part[k] # "none",
         NEW g, NEW s, SuspendAt(k, g, s), Fits(part[k], g), UNCHANGED <<op, target>>, Aware(k)',
         g \in Waits => s \in target[k],
         \A t \in Service : Busy(k, t)' => t \in target[k] /\ job'[k][t].name \in JobsOf(part[k])
  PROVE  Course(k)'
BY SuspendTo DEF Course, Aware

LEMMA LaunchCourse ==
  ASSUME TypeOK, NEW k \in Tasks, Course(k), part[k] # "none", NoneBusy(k),
         NEW g, NEW s \in target[k], NEW name \in JobName, SuspendAt(k, g, s), Launch(k, {s}, name),
         Fits(part[k], g), name \in JobsOf(part[k]), UNCHANGED <<op, target>>, Aware(k)'
  PROVE  Course(k)'
<1>1. ProgressType /\ job \in JobType
  BY TypeParts
<1>2. \A t \in Service : job'[k][t] = IF t \in {s} THEN NewJob(name) ELSE job[k][t]
  BY <1>1, LaunchApart
<1>3. \A t \in Service : Busy(k, t)' => t = s /\ job'[k][t] = NewJob(name)
  BY <1>2 DEF NoneBusy, Busy
<1> QED BY <1>1, <1>3, NewJobFields, SuspendCourse

LEMMA StartNextCourse ==
  ASSUME TypeOK, NEW k \in Tasks, Course(k), part[k] = "start", NoneBusy(k), NEW last,
         StartNext(k, last), UNCHANGED <<op, target>>, Aware(k)'
  PROVE  Course(k)'
<1>1. ProgressType /\ AskedType
  BY TypeParts
<1>2. CASE \E s \in target[k] : Launch(k, {s}, "start") /\ SuspendAt(k, "starting", s)
  BY <1>2, LaunchCourse DEF JobName, JobsOf, Fits
<1>3. CASE PartEnds(k, "Done.") /\ UNCHANGED job
  BY <1>1, <1>3, PartEndsCourse
<1> QED BY <1>2, <1>3 DEF StartNext

LEMMA CreateNextCourse ==
  ASSUME TypeOK, NEW k \in Tasks, Course(k), part[k] \in {"create", "start"}, NoneBusy(k), NEW last,
         CreateNext(k, last), UNCHANGED <<op, target>>, Aware(k)'
  PROVE  Course(k)'
<1>1. ProgressType /\ AskedType
  BY TypeParts
<1>2. CASE \E s \in target[k] : Launch(k, {s}, "create") /\ SuspendAt(k, "creating", s)
  BY <1>2, LaunchCourse DEF JobName, JobsOf, Fits
<1>3. CASE part[k] = "start" /\ StartNext(k, 0)
  BY <1>3, StartNextCourse
<1>4. CASE PartEnds(k, "Done.") /\ UNCHANGED job
  BY <1>1, <1>4, PartEndsCourse
<1> QED BY <1>2, <1>3, <1>4 DEF CreateNext

LEMMA DestroyNextCourse ==
  ASSUME TypeOK, NEW k \in Tasks, Course(k), part[k] = "destroy", NEW ahead \in SUBSET target[k],
         NEW down, DestroyNext(k, ahead, down), UNCHANGED <<op, target>>, Aware(k)'
  PROVE  Course(k)'
<1>1. ProgressType /\ job \in JobType
  BY TypeParts
<1>2. ASSUME NEW S \in SUBSET target[k], NEW stops \in SUBSET target[k], DestroyTurn(k, S, down, stops)
      PROVE  \A t \in Service :
               Busy(k, t)' => t \in target[k] /\ job'[k][t].name \in JobsOf(part[k])
  <2>1. ASSUME NEW t \in Service, Busy(k, t)'
        PROVE  t \in target[k] /\ job'[k][t].name \in {"stop", "destroy"}
    <3>1. \/ t \in S /\ job'[k][t] = NewJob("destroy")
          \/ t \in stops /\ job'[k][t] = NewJob("stop")
          \/ job'[k][t] = job[k][t]
      BY <1>1, <1>2, DestroyTurnApart
    <3>2. CASE job'[k][t] = job[k][t]
      BY <2>1, <3>2 DEF Course, Busy, JobsOf
    <3> QED BY <3>1, <3>2, NewJobFields DEF JobName
  <2> QED BY <2>1 DEF JobsOf
<1>3. CASE \E s \in ahead : /\ DestroyTurn(k, {t \in ahead : t < s}, down, {s})
                            /\ SuspendAt(k, "stopping", s)
  BY <1>1, <1>2, <1>3, SuspendCourse DEF Fits
<1>4. CASE DestroyTurn(k, ahead, down, {}) /\ SuspendAt(k, "gathering", 0)
  BY <1>1, <1>2, <1>4, SuspendCourse DEF Fits, Waits
<1> QED BY <1>3, <1>4 DEF DestroyNext, StopsFirst

LEMMA StopAllCourse ==
  ASSUME TypeOK, NEW k \in Tasks, Course(k), part[k] = "stop", NoneBusy(k), StopAll(k),
         UNCHANGED <<op, target>>, Aware(k)'
  PROVE  Course(k)'
<1>1. ProgressType /\ job \in JobType
  BY TypeParts
<1>2. ASSUME NEW t \in Service, Busy(k, t)'
      PROVE  t \in target[k] /\ job'[k][t].name \in JobsOf(part[k])
  <2>1. job'[k][t] = NewJob("stop") /\ t \in target[k]
    BY <1>1, <1>2, LaunchApart DEF StopAll, NoneBusy, Busy
  <2> QED BY <2>1, NewJobFields DEF JobName, JobsOf
<1> QED BY <1>1, <1>2, SuspendCourse DEF StopAll, Fits, Waits

\* In the middle of a part.
LEMMA ActivePart ==
  ASSUME NEW k \in Tasks, Course(k), stage[k] \notin {"idle", "over"}
  PROVE  part[k] # "none" /\ (stage[k] \notin Blind => Aware(k))
BY DEF Course, Fits, Aware

LEMMA TurnCourse ==
  ASSUME IInv, NEW k \in Tasks, Course(k), TaskTurn(k) \/ Ready(k)
  PROVE  Course(k)'
<1>0. /\ TypeOK /\ ProgressType /\ AskedType /\ job \in JobType /\ seen \in SeenType
      /\ target[k] \subseteq Service /\ JobsSuit(k)
      /\ UNCHANGED <<op, target>>
  BY TypeParts, TurnApart DEF IInv, AskedType
<1>1. CASE Get(k)
  <2>1. part[k] # "none" /\ NoneBusy(k) /\ stage[k] = "get"
    BY <1>0, <1>1, ActivePart DEF Get, JobsSuit, Resting
  <2>2. CASE stage' = [stage EXCEPT ![k] = "deployment"] /\ UNCHANGED <<part, job>>
    BY <1>0, <2>1, <2>2 DEF Course, Fits, Blind, Waits, ProgressType, StageType, NoneBusy, Busy
  <2> QED BY <1>0, <1>1, <2>2, OverCourse DEF Get
<1>2. CASE Load(k)
  <2>1. part[k] # "none" /\ NoneBusy(k) /\ stage[k] = "deployment" /\ UNCHANGED job
    BY <1>0, <1>2, ActivePart DEF Load, JobsSuit, Resting
  <2>2. CASE stage' = [stage EXCEPT ![k] = "inspect"] /\ UNCHANGED part
    BY <1>0, <2>1, <2>2 DEF Course, Fits, Blind, Waits, ProgressType, StageType, NoneBusy, Busy
  <2> QED BY <1>0, <1>2, <2>1, <2>2, OverCourse, PartEndsCourse DEF Load
<1>3. CASE Loaded(k)
  <2>1. NoneBusy(k) /\ Aware(k)' /\ part[k] # "none"
    BY <1>0, <1>3, ActivePart DEF Loaded, Inspected, JobsSuit, Resting, Aware, State
  <2> QED BY <1>0, <1>3, <2>1, CreateNextCourse, StopAllCourse, DestroyNextCourse DEF Loaded
<1>4. CASE JobFailed(k)
  BY <1>0, <1>4, OverCourse DEF JobFailed
<1>5. CASE AfterCreate(k)
  <2>1. NoneBusy(k) /\ part[k] \in {"create", "start"} /\ Aware(k)'
    BY <1>5, EndedAlone, ActivePart DEF AfterCreate, Ended, JobEnded, Course, Fits, Blind, Aware
  <2> QED BY <1>0, <1>5, <2>1, CreateNextCourse DEF AfterCreate
<1>6. CASE AfterStart(k)
  <2>1. NoneBusy(k) /\ part[k] = "start" /\ Aware(k)' /\ at[k] \in target[k]
    BY <1>6, EndedAlone, ActivePart
       DEF AfterStart, Ended, JobEnded, Course, Fits, Blind, Aware, Waits
  <2>2. CASE SuspendAt(k, "waiting", at[k]) /\ UNCHANGED job
    BY <1>0, <2>1, <2>2, SuspendCourse DEF Fits, NoneBusy, Busy
  <2> QED BY <1>0, <1>6, <2>1, <2>2, StartNextCourse DEF AfterStart
<1>7. CASE Ready(k)
  <2>1. /\ NoneBusy(k) /\ part[k] = "start" /\ Aware(k)' /\ UNCHANGED job
        /\ at[k] \in target[k]
    BY <1>0, <1>7, ActivePart DEF Ready, Course, Fits, Blind, Aware, JobsSuit, Resting, Waits
  <2> QED BY <1>0, <1>7, <2>1, SuspendCourse DEF Ready, Fits, NoneBusy, Busy
<1>8. CASE AfterPause(k)
  <2>1. NoneBusy(k) /\ part[k] = "start" /\ Aware(k)'
    BY <1>0, <1>8, ActivePart DEF AfterPause, Course, Fits, Blind, Aware, JobsSuit, Resting
  <2> QED BY <1>0, <1>8, <2>1, StartNextCourse, OverCourse DEF AfterPause, GoesOnIf
<1>9. CASE TimedOut(k)
  <2>1. NoneBusy(k) /\ part[k] = "start" /\ Aware(k) /\ at[k] \in Service
    BY <1>0, <1>9, ActivePart DEF TimedOut, Course, Fits, Blind, Aware, JobsSuit, Resting, Waits
  <2>2. Aware(k)'
    BY <1>0, <1>9, <2>1, InspectionType DEF TimedOut, Aware, SeenType, State
  <2> QED BY <1>0, <1>9, <2>1, <2>2, StartNextCourse, OverCourse DEF TimedOut, GoesOnIf
<1>10. CASE AfterStop(k)
  <2>1. part[k] = "destroy" /\ Aware(k)'
    BY <1>10, ActivePart DEF AfterStop, JobEnded, Course, Fits, Blind, Aware
  <2> QED BY <1>0, <1>10, <2>1, DestroyNextCourse DEF AfterStop
<1>11. CASE Gathered(k)
  <2>1. part[k] # "none"
    BY <1>11, ActivePart DEF Gathered
  <2> QED BY <1>0, <1>11, <2>1, OverCourse, PartEndsCourse DEF Gathered, NoneBusy
<1>12. CASE Unregister(k)
  BY <1>0, <1>12, OverCourse DEF Unregister
<1> QED BY <1>1, <1>2, <1>3, <1>4, <1>5, <1>6, <1>7, <1>8, <1>9, <1>10, <1>11, <1>12 DEF TaskTurn

\* Those who do not move keep their course.
LEMMA ApartCourse ==
  ASSUME CourseInv, NEW k \in Tasks, Apart(k), UNCHANGED <<op, target>>
  PROVE  /\ \A j \in Tasks \ {k} : Course(j)'
         /\ \A j \in Tasks \ {k}, s \in Service : Shape(job'[j][s])
BY DEF CourseInv, Course, Apart, Busy

\* Beginning.
BeginsWith(k, o, S) ==
  /\ o \in AllOperations /\ S \subseteq Service
  /\ op'[k] = o /\ target'[k] = S /\ part'[k] = FirstPart(o) /\ stage'[k] = "get"
  /\ before'[k] = container
  /\ \A j \in Tasks \ {k} :
       /\ op'[j] = op[j] /\ target'[j] = target[j] /\ part'[j] = part[j] /\ stage'[j] = stage[j]
       /\ before'[j] = before[j] /\ scrub'[j] = scrub[j]
  /\ UNCHANGED <<container, data, registered, deployment, at, seen, job, result>>

LEMMA BeginForm ==
  ASSUME LifecycleAssumption, TypeOK, NEW k \in Tasks, Begin(k)
  PROVE  /\ stage[k] = "idle"
         /\ \E o \in Operations, S \in SUBSET Service : BeginsWith(k, o, S)
<1>1. ProgressType /\ AskedType
  BY TypeParts
<1>2. PICK o \in Operations, S \in {Service} \cup {{s} : s \in Service} :
        /\ op' = [op EXCEPT ![k] = o]
        /\ target' = [target EXCEPT ![k] = S]
        /\ part' = [part EXCEPT ![k] = FirstPart(o)]
        /\ scrub' \in {scrub} \cup {[scrub EXCEPT ![k] = TRUE]}
  BY DEF Begin
<1>3. o \in AllOperations /\ S \subseteq Service
  BY DEF LifecycleAssumption
<1>4. \A j \in Tasks \ {k} : scrub'[j] = scrub[j]
  BY <1>1, <1>2 DEF AskedType
<1>5. BeginsWith(k, o, S)
  BY <1>1, <1>2, <1>3, <1>4
     DEF BeginsWith, Begin, ProgressType, AskedType, PartType, StageType, docker, registry
<1> QED BY <1>3, <1>5 DEF Begin

LEMMA FirstParts ==
  ASSUME NEW o \in AllOperations
  PROVE  FirstPart(o) \in {"create", "start", "stop", "destroy"} /\ o # "none"
BY DEF FirstPart, AllOperations

LEMMA CourseBegin ==
  ASSUME LifecycleAssumption, CourseInv, NEW k \in Tasks, Begin(k)
  PROVE  CourseInv'
<1>1. IInv' /\ TypeOK
  BY BeginSuits DEF CourseInv, IInv
<1>2. PICK o \in Operations, S \in SUBSET Service : BeginsWith(k, o, S)
  BY <1>1, BeginForm
<1>3. stage[k] = "idle" /\ NoneBusy(k)
  BY <1>1, BeginForm DEF CourseInv, IInv, JobsSuit, Resting
<1>4. Course(k)'
  BY <1>2, <1>3, FirstParts DEF BeginsWith, Course, Fits, Blind, Waits, NoneBusy, Busy
<1>5. \A j \in Tasks \ {k} : Course(j)'
  BY <1>2 DEF BeginsWith, CourseInv, Course, Busy
<1>6. NotAskedYet'
  BY <1>2 DEF BeginsWith, CourseInv, NotAskedYet
<1>7. \A j \in Tasks, s \in Service : Shape(job'[j][s])
  BY <1>2 DEF BeginsWith, CourseInv
<1> QED BY <1>1, <1>4, <1>5, <1>6, <1>7 DEF CourseInv

LEMMA TurnNeverIdles ==
  ASSUME IInv, NEW k \in Tasks, TaskTurn(k) \/ Ready(k)
  PROVE  \A i \in Tasks : stage'[i] = "idle" => stage[i] = "idle"
<1>1. \A i \in Tasks : \A where : stage' = [stage EXCEPT ![k] = where] /\ where # "idle"
                                => (stage'[i] = "idle" => stage[i] = "idle")
  BY TypeParts DEF IInv, ProgressType, StageType
<1>2. ASSUME NEW r, PartEnds(k, r)
      PROVE  \E where : where # "idle" /\ stage' = [stage EXCEPT ![k] = where]
  BY <1>2 DEF PartEnds, Over
<1>3. ASSUME NEW last, StartNext(k, last)
      PROVE  \E where : where # "idle" /\ stage' = [stage EXCEPT ![k] = where]
  BY <1>2, <1>3 DEF StartNext, SuspendAt
<1>4. ASSUME NEW last, CreateNext(k, last)
      PROVE  \E where : where # "idle" /\ stage' = [stage EXCEPT ![k] = where]
  BY <1>2, <1>3, <1>4 DEF CreateNext, SuspendAt
<1>5. \E where : where # "idle" /\ stage' = [stage EXCEPT ![k] = where]
  BY <1>2, <1>3, <1>4
     DEF TaskTurn, Get, Load, Loaded, JobFailed, AfterCreate, AfterStart, AfterPause, TimedOut,
         AfterStop, Gathered, Unregister, Ready, Over, SuspendAt, StopAll, DestroyNext, GoesOnIf
<1> QED BY <1>1, <1>5

LEMMA CourseTurn ==
  ASSUME LifecycleAssumption, CourseInv, NEW k \in Tasks, TaskTurn(k) \/ Ready(k)
  PROVE  CourseInv'
<1>1. IInv' /\ IInv /\ TypeOK /\ Course(k)
  BY QuietTurns, LoadSuits, LoadedSuits, TimedOutSuits, UnregisterSuits DEF TaskTurn, CourseInv, IInv
<1>2. Apart(k) /\ UNCHANGED <<op, target>>
  BY <1>1, TurnApart
<1>3. Course(k)'
  BY <1>1, TurnCourse
<1>4. \A s \in Service : Shape(job'[k][s])
  BY <1>1, TurnJobs, NewJobFields DEF CourseInv
<1>5. NotAskedYet'
  BY <1>1, <1>2, TurnNeverIdles DEF CourseInv, NotAskedYet
<1> QED BY <1>1, <1>2, <1>3, <1>4, <1>5, ApartCourse DEF CourseInv

LEMMA CourseInspect ==
  ASSUME CourseInv, NEW k \in Tasks, NEW s \in Service, Inspect(k, s)
  PROVE  CourseInv'
<1>1. IInv'
  BY InspectSuits DEF CourseInv
<1>2. UNCHANGED <<op, target, job>> /\ stage[k] = "inspect"
  BY DEF Inspect, asked
<1>3. TypeOK /\ ProgressType /\ seen \in SeenType
  BY TypeParts DEF CourseInv, IInv
<1>4. \A j \in Tasks \ {k} : seen'[j] = seen[j]
  BY <1>3 DEF Inspect, SeenType
<1>5. CASE UNCHANGED progress
  BY <1>1, <1>2, <1>4, <1>5 DEF CourseInv, Course, Blind, Busy, NotAskedYet, progress
<1>6. CASE Over(k, "failure")
  <2>1. Apart(k)
    BY <1>2, <1>3, <1>4, <1>6, PartEndsApart DEF Apart
  <2>2. Course(k)'
    BY <1>3, <1>6, OverCourse
  <2>3. NotAskedYet'
    BY <1>2, <1>3, <1>6 DEF NotAskedYet, CourseInv, Over, ProgressType, StageType
  <2> QED BY <1>1, <1>2, <2>1, <2>2, <2>3, ApartCourse DEF CourseInv
<1> QED BY <1>5, <1>6 DEF Inspect

\* The steps of a job keep to its kind.
LEMMA StepShape ==
  ASSUME TypeOK, NEW k \in Tasks, NEW s \in Service, Shape(job[k][s]), JobStep(k, s)
  PROVE  Shape(job'[k][s])
<1>0. job \in JobType
  BY TypeParts
<1> DEFINE j == job[k][s]
           n == job'[k][s]
<1>1. n.name = j.name
  BY JobStepApart DEF StepsApart
<1>2. ASSUME NEW pc, NEW id, MovesJob(k, s, pc, id) PROVE n.pc = pc
  BY <1>0, <1>2, MovesJobTo
<1>3. CASE Find(k, s)
  <2>1. j.pc \in {"find", "refind"} /\ (n.pc = "failed" \/ \E id : n.pc = AfterFind(j.name, j.pc, id))
    BY <1>2, <1>3 DEF Find
  <2> QED BY <1>1, <2>1 DEF Shape, AfterFind, Ended
<1>4. CASE Post(k, s)
  <2>1. j.pc = "post" /\ n.pc \in {"created", "failed"}
    BY <1>2, <1>4 DEF Post, Call
  <2> QED BY <1>1, <2>1 DEF Shape, Ended
<1>5. CASE Run(k, s) \/ Kill(k, s) \/ Delete(k, s)
  <2>1. \/ j.pc = "run" /\ n.pc \in {"started", "failed"}
        \/ j.pc \in {"kill", "delete"} /\ n.pc \in {"look", "failed"}
    BY <1>2, <1>5 DEF Run, Kill, Delete, Call
  <2> QED BY <1>1, <2>1 DEF Shape, Ended
<1>6. CASE Look(k, s)
  <2>1. /\ j.pc \in {"created", "image", "started", "look"}
        /\ n.pc = "failed" \/ \E found : n.pc = AfterLook(j.name, j.pc, s, found)
    BY <1>2, <1>6 DEF Look
  <2> QED BY <1>1, <2>1 DEF Shape, AfterLook, Emit, Ended
<1>7. CASE Exec(k, s) \/ Listen(k, s)
  <2>1. j.pc \in {"exec", "listen"} /\ n.pc \in {"listen", "look", "failed"}
    BY <1>2, <1>7 DEF Exec, Listen, Emit
  <2> QED BY <1>1, <2>1 DEF Shape, Ended
<1> QED BY <1>3, <1>4, <1>5, <1>6, <1>7 DEF JobStep

LEMMA CourseJobStep ==
  ASSUME CourseInv, NEW k \in Tasks, NEW s \in Service, JobStep(k, s)
  PROVE  CourseInv'
<1>1. IInv' /\ TypeOK
  BY JobStepSuits DEF CourseInv, IInv
<1>2. StepsApart(k, s) /\ Busy(k, s)
  BY <1>1, JobStepApart
<1>3. \A i \in Tasks, t \in Service : Shape(job'[i][t])
  BY <1>1, <1>2, StepShape DEF CourseInv, StepsApart
<1>4. \A t \in Service : seen'[k][t] = "unknown" => seen[k][t] = "unknown"
  BY <1>1, <1>2, InspectionType, TypeParts
     DEF JobStep, Find, Post, Run, Kill, Delete, Look, Exec, Listen, SeenType, State
<1>5. ASSUME NEW i \in Tasks PROVE Course(i)'
  <2>1. Course(i)
    BY DEF CourseInv
  <2>2. \A t \in Service : Busy(i, t)' => Busy(i, t) /\ job'[i][t].name = job[i][t].name
    BY <1>2 DEF StepsApart, Busy
  <2>3. \A t \in Service : seen'[i][t] = "unknown" => seen[i][t] = "unknown"
    BY <1>2, <1>4 DEF StepsApart
  <2> QED BY <1>2, <2>1, <2>2, <2>3 DEF Course, StepsApart
<1> QED BY <1>1, <1>2, <1>3, <1>5 DEF CourseInv, NotAskedYet, StepsApart

LEMMA CourseStalls ==
  ASSUME CourseInv, NEW k \in Tasks, NEW s \in Service, Stalls(k, s)
  PROVE  CourseInv'
<1>1. IInv' /\ TypeOK
  BY StallsSuits DEF CourseInv, IInv
<1>2. /\ UNCHANGED <<op, target, part, stage, at>>
      /\ \A j \in Tasks, t \in Service :
           /\ seen'[j][t] \in {seen[j][t], "stalled"}
           /\ \/ job'[j][t] = job[j][t]
              \/ /\ job[j][t].pc \in Pending
                 /\ job'[j][t].pc = "stalled" /\ job'[j][t].name = job[j][t].name
  BY <1>1, StallsForm
<1>3. \A j \in Tasks, t \in Service : Shape(job'[j][t])
  BY <1>2 DEF CourseInv, Shape, Pending
<1>4. ASSUME NEW j \in Tasks PROVE Course(j)'
  <2>1. Course(j)
    BY DEF CourseInv
  <2>2. \A t \in Service : Busy(j, t)' => Busy(j, t) /\ job'[j][t].name = job[j][t].name
    BY <1>2 DEF Busy
  <2>3. \A t \in Service : seen'[j][t] = "unknown" => seen[j][t] = "unknown"
    BY <1>2
  <2> QED BY <1>2, <2>1, <2>2, <2>3 DEF Course
<1> QED BY <1>1, <1>2, <1>3, <1>4 DEF CourseInv, NotAskedYet

LEMMA CrashForm ==
  ASSUME IInv, Crash
  PROVE  \A k \in Tasks :
           /\ part'[k] = "none"
           /\ stage'[k] = IF Active(k) THEN "over" ELSE stage[k]
           /\ result'[k] = IF Active(k) THEN "lost" ELSE result[k]
           /\ \A s \in Service : job'[k][s] = NoJob
BY DEF Crash

LEMMA CourseChanges ==
  ASSUME CourseInv, (\E s \in Service : ContainerExits(s)) \/ DeploymentChanges \/ Crash \/ UNCHANGED vars
  PROVE  CourseInv'
<1>1. IInv'
  <2>1. CASE UNCHANGED vars
    BY <2>1 DEF vars, docker, registry, asked, progress, CourseInv, IInv, TypeOK, JobsSuit, NoneBusy, Busy
  <2> QED BY <2>1, ChangesSuit DEF CourseInv
<1>2. CASE Crash
  <2>1. NoJob.name = "none" /\ NoJob.pc = "idle"
    BY DEF NoJob
  <2>2. \A k \in Tasks, s \in Service : Shape(job'[k][s])
    BY <1>2, <2>1 DEF Crash, Shape
  <2>3. UNCHANGED op /\ \A k \in Tasks : part'[k] = "none" /\ stage'[k] \in {stage[k], "over"}
                     /\ stage'[k] \in {"idle", "over"}
    BY <1>2 DEF Crash, Active, asked
  <2>4. \A k \in Tasks : Course(k)'
    BY <2>3 DEF Course, Fits, Blind, Waits
  <2>5. NotAskedYet'
    BY <2>3 DEF NotAskedYet, CourseInv
  <2> QED BY <1>1, <2>2, <2>4, <2>5 DEF CourseInv
<1>3. CASE (\E s \in Service : ContainerExits(s)) \/ DeploymentChanges \/ UNCHANGED vars
  <2>1. UNCHANGED <<op, target, part, stage, at, job, seen>>
    BY <1>3 DEF ContainerExits, DeploymentChanges, vars, asked, progress
  <2> QED BY <1>1, <2>1 DEF CourseInv, Course, Busy, NotAskedYet
<1> QED BY <1>2, <1>3

LEMMA CourseInit ==
  ASSUME LifecycleAssumption, Init
  PROVE  CourseInv
<1>1. IInv /\ NotAskedYet
  BY InvInit DEF Init, NotAskedYet
<1>2. \A k \in Tasks, s \in Service : Shape(job[k][s])
  BY DEF Init, Shape, NoJob
<1>3. \A k \in Tasks : Course(k)
  BY DEF Init, Course, Fits, Blind, Waits
<1> QED BY <1>1, <1>2, <1>3 DEF CourseInv

LEMMA CourseStep ==
  ASSUME LifecycleAssumption, CourseInv, [Next]_vars
  PROVE  CourseInv'
BY CourseBegin, CourseTurn, CourseInspect, CourseJobStep, CourseStalls, CourseChanges DEF Next

\* A generator is suspended only where its part can be, the jobs at work are
\* those of its part and on services it was asked about, and a loop acts only
\* on services that have all been inspected: whatever fails or dies.
THEOREM CourseHolds == Spec => []CourseInv
<1>1. Init => CourseInv
  BY CourseInit, LifecycleAssumption
<1>2. CourseInv /\ [Next]_vars => CourseInv'
  BY CourseStep, LifecycleAssumption
<1> QED BY <1>1, <1>2, PTL DEF Spec

-----------------------------------------------------------------------------
\* Tasks that only create and start.

Sharing == AllMeantTo({"create", "start"})

\* The only container of its name there has ever been.
OnlyOne(c) == c.id = IF c.state = "absent" THEN 0 ELSE 1

\* The job j of service s cannot take the container c away and fails, if at
\* all, in a listener; c is there wherever start relies on it, it is the one that
\* start has found, and it runs from when start has started it.
Harmless(j, s, c) ==
  /\ \/ j.name = "none" /\ j.pc = "idle"
     \/ j.name = "create" /\ j.pc \in {"post", "created", "done"}
     \/ /\ j.name = "start"
        /\ j.pc \in {"find", "post", "created", "refind", "image", "run", "started", "exec",
                     "listen", "look", "done", "failed"}
  /\ j.pc \in {"created", "refind", "image", "run"} => c.state # "absent"
  /\ j.pc \in {"image", "run", "started", "exec"} => j.id = c.id
  /\ j.pc \in {"started", "exec", "listen", "failed"} => c.state = "running"
  /\ j.pc \in {"listen", "failed"} => s \in Web

\* A service that task k was to start and started, and that is a web service.
WebIsUp(k) == op[k] = "start" /\ \E s \in target[k] \cap Web : container[s].state = "running"

Peaceful(k) ==
  /\ part[k] \in {"none", "create", "start"}
  /\ stage[k] \notin {"stopping", "gathering", "unregistering"}
  /\ result[k] = "failure" => WebIsUp(k)

\* Only a start starts, and what it was asked to.
Entitled(k, s) == job[k][s].name = "start" => op[k] = "start" /\ s \in target[k]

Shared ==
  /\ registered /\ deployment
  /\ \A s \in Service : OnlyOne(container[s])
  /\ \A k \in Tasks : Peaceful(k)
  /\ \A k \in Tasks, s \in Service : Harmless(job[k][s], s, container[s]) /\ Entitled(k, s)

SharedInv == CourseInv /\ (Sharing => Shared)

LEMMA SharedJobStep ==
  ASSUME Faults = {}, TypeOK, Shared, NEW k \in Tasks, NEW s \in Service, JobStep(k, s)
  PROVE  Shared'
<1> DEFINE j == job[k][s]
           c == container[s]
           n == job'[k][s]
<1>0. /\ c \in Container /\ j \in Job /\ job \in JobType
      /\ container \in [Service -> Container]
      /\ Harmless(j, s, c) /\ OnlyOne(c)
  BY TypeParts DEF DockerType, JobType, Shared
<1>1. /\ \A t \in Service \ {s} : container'[t] = container[t]
      /\ container'[s] \in Container /\ OnlyOne(container'[s])
      /\ c.state # "absent" => container'[s].state # "absent" /\ container'[s].id = c.id
      /\ c.state = "running" => container'[s].state = "running"
      /\ j.pc = "post" => container'[s].state # "absent"
      /\ j.pc = "run" => container'[s].state = "running"
  <2>1. CASE Find(k, s) \/ Look(k, s) \/ Exec(k, s) \/ Listen(k, s)
    BY <1>0, <2>1 DEF Find, Look, Exec, Listen, docker, Harmless
  <2>2. CASE Post(k, s)
    BY <1>0, <2>2 DEF Post, Call, Created, OnlyOne, Container, State
  <2>3. CASE Run(k, s)
    BY <1>0, <2>3 DEF Run, Call, OnlyOne, Container, State, Harmless
  <2>4. ~ Kill(k, s) /\ ~ Delete(k, s)
    BY <1>0 DEF Kill, Delete, Harmless
  <2> QED BY <2>1, <2>2, <2>3, <2>4 DEF JobStep
<1>2. StepsApart(k, s)
  BY JobStepApart
<1>3. /\ \A i \in Tasks, t \in Service : i # k \/ t # s => job'[i][t] = job[i][t]
      /\ n.name = j.name
      /\ UNCHANGED <<registered, deployment, part, stage, result, op, target>>
  BY <1>2 DEF StepsApart
<1>4. Harmless(n, s, container'[s])
  <2>0. ASSUME NEW p, NEW i, MovesJob(k, s, p, i) PROVE n.pc = p /\ n.id = i
    BY <1>0, <2>0, MovesJobTo
  <2>1. CASE Find(k, s)
    <3>1. /\ c.state = "absent" <=> c.id = 0
          /\ j.pc \in {"find", "refind"} /\ j.name = "start" /\ container' = container
      BY <1>0, <2>1 DEF Find, Harmless, OnlyOne, docker
    <3> DEFINE known == IF c.state = "absent" THEN 0 ELSE c.id
    <3>2. n.pc = AfterFind(j.name, j.pc, known) /\ n.id = known
      BY <2>0, <2>1 DEF Find
    <3>3. /\ n.pc = IF c.state = "absent" /\ j.pc = "find" THEN "post" ELSE "image"
          /\ n.id = c.id
      BY <3>1, <3>2 DEF AfterFind
    <3> QED BY <1>0, <1>3, <3>1, <3>3 DEF Harmless
  <2>2. CASE Post(k, s)
    <3>1. n.pc = "created" /\ j.pc = "post"
      BY <2>0, <2>2 DEF Post, Call
    <3> QED BY <1>0, <1>1, <1>3, <3>1 DEF Harmless
  <2>3. CASE Run(k, s)
    <3>1. n.pc = "started" /\ j.pc = "run" /\ n.id = j.id
      BY <2>0, <2>3 DEF Run, Call
    <3> QED BY <1>0, <1>1, <1>3, <3>1 DEF Harmless
  <2>4. CASE Look(k, s)
    <3>1. /\ n.pc = AfterLook(j.name, j.pc, s, c.state) /\ n.id = j.id
          /\ j.pc \in {"created", "image", "started", "look"} /\ container' = container
      BY <2>0, <2>4 DEF Look, Inspection, docker
    <3>2. n.pc = IF j.pc = "image" THEN "run"
                 ELSE IF j.pc = "started" THEN "exec"
                 ELSE IF j.pc = "created" /\ j.name = "start" THEN "refind" ELSE "done"
      BY <1>0, <3>1 DEF AfterLook, Harmless
    <3> QED BY <1>0, <1>3, <3>1, <3>2 DEF Harmless
  <2>5. CASE Exec(k, s)
    <3>1. c.state = "running" /\ j.id = c.id /\ j.pc = "exec"
      BY <1>0, <2>5 DEF Exec, Harmless
    <3>2. n.pc = Emit(s) /\ container' = container
      BY <2>0, <2>5, <3>1 DEF Exec, docker
    <3> QED BY <1>0, <1>3, <3>1, <3>2 DEF Harmless, Emit
  <2>6. CASE Listen(k, s)
    <3>1. n.pc \in {"look", "failed"} /\ j.pc = "listen" /\ container' = container
      BY <2>0, <2>6 DEF Listen, docker
    <3> QED BY <1>0, <1>3, <3>1 DEF Harmless
  <2>7. ~ Kill(k, s) /\ ~ Delete(k, s)
    BY <1>0 DEF Kill, Delete, Harmless
  <2> QED BY <2>1, <2>2, <2>3, <2>4, <2>5, <2>6, <2>7 DEF JobStep
<1>5. ASSUME NEW i \in Tasks, NEW t \in Service
      PROVE  Harmless(job'[i][t], t, container'[t]) /\ Entitled(i, t)'
  <2>1. Harmless(job[i][t], t, container[t]) /\ Entitled(i, t)
    BY DEF Shared
  <2>2. CASE i = k /\ t = s
    BY <1>3, <1>4, <2>1, <2>2 DEF Entitled
  <2>3. CASE t # s
    BY <1>1, <1>3, <2>1, <2>3 DEF Entitled
  <2>4. CASE i # k /\ t = s
    <3>1. OnlyOne(container[s]) /\ OnlyOne(container'[s]) /\ job'[i][t] = job[i][t]
      BY <1>0, <1>1, <1>3, <2>4
    <3>2. job[i][t].pc \in {"image", "run", "started", "exec"} => container[s].state # "absent"
      BY <2>1, <2>4 DEF Harmless
    <3> QED BY <1>1, <1>3, <2>1, <2>4, <3>1, <3>2 DEF Harmless, Entitled
  <2> QED BY <2>2, <2>3, <2>4
<1>6. \A t \in Service : OnlyOne(container'[t])
  BY <1>1 DEF Shared
<1>7. ASSUME NEW i \in Tasks PROVE Peaceful(i)'
  <2>1. \A t \in Service : container[t].state = "running" => container'[t].state = "running"
    BY <1>1
  <2>2. WebIsUp(i) => WebIsUp(i)'
    <3>1. target[i] \subseteq Service
      BY TypeParts DEF AskedType
    <3> QED BY <1>3, <2>1, <3>1 DEF WebIsUp
  <2> QED BY <1>3, <2>2 DEF Shared, Peaceful
<1> QED BY <1>3, <1>5, <1>6, <1>7 DEF Shared

-----------------------------------------------------------------------------
\* The turns of a task that creates or starts.

\* What such a turn leaves of its own generator and its jobs.
SharedProgress(k) ==
  /\ \A i \in Tasks : Peaceful(i)'
  /\ \A i \in Tasks, s \in Service :
       \/ job'[i][s] \in {job[i][s], NewJob("create")}
       \/ job'[i][s] = NewJob("start") /\ op[i] = "start" /\ s \in target[i]

LEMMA PeaceStays ==
  ASSUME UNCHANGED <<container, op, target>>, NEW k \in Tasks
  PROVE  WebIsUp(k)' <=> WebIsUp(k)
BY DEF WebIsUp

LEMMA SharedOver ==
  ASSUME ProgressType, Shared, UNCHANGED <<container, op, target, job>>,
         NEW k \in Tasks, NEW r \in Outcome \cup {"failure"}, Over(k, r),
         r = "failure" => WebIsUp(k)
  PROVE  SharedProgress(k)
<1>1. \A i \in Tasks : /\ part'[i] \in {part[i], "none"} /\ stage'[i] \in {stage[i], "over"}
                       /\ result'[i] = result[i] \/ (i = k /\ result'[i] = r)
  BY DEF Over, ProgressType, PartType, StageType, ResultType
<1>2. \A i \in Tasks : Peaceful(i)'
  BY <1>1, PeaceStays DEF Shared, Peaceful, Outcome
<1> QED BY <1>2 DEF SharedProgress

LEMMA SharedSuspend ==
  ASSUME ProgressType, Shared, UNCHANGED <<container, op, target>>, NEW k \in Tasks, NEW s,
         NEW where \in {"creating", "starting", "waiting", "pausing"}, SuspendAt(k, where, s)
  PROVE  \A i \in Tasks : Peaceful(i)'
<1>1. \A i \in Tasks : /\ part'[i] = part[i] /\ stage'[i] \in {stage[i], where}
                       /\ result'[i] = result[i]
  BY DEF SuspendAt, ProgressType, StageType
<1> QED BY <1>1, PeaceStays DEF Shared, Peaceful

LEMMA SharedLaunch ==
  ASSUME job \in JobType, NEW k \in Tasks, NEW S, NEW name \in {"create", "start"},
         Launch(k, S, name), name = "start" => op[k] = "start" /\ S \subseteq target[k]
  PROVE  \A i \in Tasks, s \in Service :
           \/ job'[i][s] \in {job[i][s], NewJob("create")}
           \/ job'[i][s] = NewJob("start") /\ op[i] = "start" /\ s \in target[i]
<1>1. \A i \in Tasks \ {k} : job'[i] = job[i]
  BY LaunchApart
<1>2. \A s \in Service : job'[k][s] = IF s \in S THEN NewJob(name) ELSE job[k][s]
  BY LaunchApart
<1> QED BY <1>1, <1>2

LEMMA SharedPartEnds ==
  ASSUME ProgressType, AskedType, Shared, Sharing, UNCHANGED <<container, op, target, job>>,
         NEW k \in Tasks, PartEnds(k, "Done.")
  PROVE  SharedProgress(k)
<1>1. SecondPart(op[k]) = "none"
  BY DEF Sharing, AllMeantTo, SecondPart
<1> QED BY <1>1, SharedOver DEF PartEnds, Outcome

LEMMA SharedStartNext ==
  ASSUME TypeOK, Shared, Sharing, UNCHANGED <<container, op, target>>,
         NEW k \in Tasks, op[k] = "start", NEW last, StartNext(k, last)
  PROVE  SharedProgress(k)
<1>1. ProgressType /\ AskedType /\ job \in JobType
  BY TypeParts
<1>2. CASE \E s \in target[k] : Launch(k, {s}, "start") /\ SuspendAt(k, "starting", s)
  BY <1>1, <1>2, SharedLaunch, SharedSuspend DEF SharedProgress
<1>3. CASE PartEnds(k, "Done.") /\ UNCHANGED job
  BY <1>1, <1>3, SharedPartEnds
<1> QED BY <1>2, <1>3 DEF StartNext

LEMMA SharedCreateNext ==
  ASSUME TypeOK, Shared, Sharing, UNCHANGED <<container, op, target>>,
         NEW k \in Tasks, part[k] = "start" => op[k] = "start", NEW last, CreateNext(k, last)
  PROVE  SharedProgress(k)
<1>1. ProgressType /\ AskedType /\ job \in JobType
  BY TypeParts
<1>2. CASE \E s : Launch(k, {s}, "create") /\ SuspendAt(k, "creating", s)
  BY <1>1, <1>2, SharedLaunch, SharedSuspend DEF SharedProgress
<1>3. CASE part[k] = "start" /\ StartNext(k, 0)
  BY <1>3, SharedStartNext
<1>4. CASE PartEnds(k, "Done.") /\ UNCHANGED job
  BY <1>1, <1>4, SharedPartEnds
<1> QED BY <1>2, <1>3, <1>4 DEF CreateNext

LEMMA SharedTurn ==
  ASSUME Faults = {}, CourseInv, Shared, Sharing, NEW k \in Tasks, TaskTurn(k) \/ Ready(k)
  PROVE  Shared'
<1>1. /\ TypeOK /\ ProgressType /\ AskedType /\ job \in JobType /\ Peaceful(k) /\ Course(k)
      /\ registered = TRUE /\ deployment = TRUE
  BY TypeParts DEF CourseInv, IInv, Shared, RegistryType
<1>2. UNCHANGED <<container, deployment, op, target>>
  BY <1>1, TurnApart
<1>3. part[k] = "start" => op[k] = "start"
  BY <1>1 DEF Course, FirstPart, SecondPart, Sharing, AllMeantTo
<1>4. ~ AfterStop(k) /\ ~ Gathered(k) /\ ~ Unregister(k)
  BY <1>1 DEF Peaceful, AfterStop, JobEnded, Gathered, Unregister
<1>5. UNCHANGED registered
  BY <1>4 DEF TaskTurn, Get, Load, Loaded, JobFailed, AfterCreate, AfterStart, AfterPause, TimedOut,
              Ready, registry
<1>6. SharedProgress(k)
  <2>1. CASE Get(k) \/ Load(k)
    <3>1. /\ part' = part /\ result' = result /\ job' = job
          /\ \E where \in {"deployment", "inspect"} : stage' = [stage EXCEPT ![k] = where]
      BY <1>1, <2>1 DEF Get, Load
    <3>2. \A i \in Tasks : stage'[i] \in {stage[i], "deployment", "inspect"}
      BY <1>1, <3>1 DEF ProgressType, StageType
    <3> QED BY <1>2, <3>1, <3>2, PeaceStays DEF SharedProgress, Shared, Peaceful
  <2>2. CASE Loaded(k)
    <3>1. CreateNext(k, 0)
      BY <1>1, <2>2 DEF Loaded, Peaceful
    <3> QED BY <1>1, <1>2, <1>3, <3>1, SharedCreateNext
  <2>3. CASE AfterCreate(k)
    BY <1>1, <1>2, <1>3, <2>3, SharedCreateNext DEF AfterCreate
  <2>4. CASE AfterStart(k) \/ Ready(k)
    <3>1. CASE AfterStart(k) /\ StartNext(k, at[k])
      <4>1. part[k] = "start"
        BY <1>1, <3>1 DEF AfterStart, JobEnded, Course, Fits
      <4> QED BY <1>1, <1>2, <1>3, <3>1, <4>1, SharedStartNext
    <3>2. CASE job' = job /\ \E where \in {"waiting", "pausing"} : SuspendAt(k, where, at[k])
      BY <1>1, <1>2, <3>2, SharedSuspend DEF SharedProgress
    <3> QED BY <2>4, <3>1, <3>2 DEF AfterStart, Ready
  <2>5. CASE AfterPause(k) \/ TimedOut(k)
    <3>1. part[k] = "start"
      BY <1>1, <2>5 DEF AfterPause, TimedOut, Course, Fits
    <3>2. CASE StartNext(k, at[k])
      BY <1>1, <1>2, <1>3, <3>1, <3>2, SharedStartNext
    <3>3. CASE Over(k, "False") /\ UNCHANGED job
      BY <1>1, <1>2, <3>3, SharedOver DEF Outcome
    <3> QED BY <2>5, <3>2, <3>3 DEF AfterPause, TimedOut, GoesOnIf
  <2>6. CASE JobFailed(k)
    <3>1. stage[k] \in Waits /\ job[k][at[k]].pc = "failed"
      BY <2>6 DEF JobFailed, JobEnded, Waits
    <3>2. at[k] \in target[k] /\ target[k] \subseteq Service
      BY <1>1, <3>1 DEF Course, AskedType
    <3>3. Harmless(job[k][at[k]], at[k], container[at[k]]) /\ Entitled(k, at[k])
      BY <3>2 DEF Shared
    <3>4. WebIsUp(k)
      BY <3>1, <3>2, <3>3 DEF Harmless, Entitled, WebIsUp
    <3> QED BY <1>1, <1>2, <2>6, <3>4, SharedOver DEF JobFailed
  <2> QED BY <1>4, <2>1, <2>2, <2>3, <2>4, <2>5, <2>6 DEF TaskTurn
<1>7. ASSUME NEW i \in Tasks, NEW s \in Service
      PROVE  Harmless(job'[i][s], s, container'[s]) /\ Entitled(i, s)'
  <2>1. /\ Harmless(NewJob("create"), s, container[s]) /\ Harmless(NewJob("start"), s, container[s])
        /\ NewJob("create").name = "create"
    BY DEF Harmless, NewJob
  <2>2. Harmless(job[i][s], s, container[s]) /\ Entitled(i, s)
    BY DEF Shared
  <2> QED BY <1>2, <1>6, <2>1, <2>2 DEF SharedProgress, Entitled
<1> QED BY <1>1, <1>2, <1>5, <1>6, <1>7 DEF Shared, SharedProgress

-----------------------------------------------------------------------------
LEMMA SharedInit ==
  ASSUME LifecycleAssumption, Init
  PROVE  SharedInv
<1>1. CourseInv
  BY CourseInit
<1>2. \A s \in Service : OnlyOne(container[s])
  BY DEF Init, OnlyOne, NoContainer
<1>3. \A k \in Tasks : Peaceful(k)
  BY DEF Init, Peaceful
<1>4. \A k \in Tasks, s \in Service : Harmless(job[k][s], s, container[s]) /\ Entitled(k, s)
  BY DEF Init, Harmless, Entitled, NoJob
<1>5. registered /\ deployment
  BY DEF Init
<1> QED BY <1>1, <1>2, <1>3, <1>4, <1>5 DEF SharedInv, Shared

LEMMA SharedBegin ==
  ASSUME LifecycleAssumption, SharedInv, NEW k \in Tasks, Begin(k)
  PROVE  (Sharing => Shared)'
<1>1. TypeOK /\ ProgressType /\ IInv /\ Course(k)
  BY TypeParts DEF SharedInv, CourseInv, IInv
<1>2. PICK o \in Operations, S \in SUBSET Service : BeginsWith(k, o, S)
  BY <1>1, BeginForm
<1>3. stage[k] = "idle" /\ op[k] = "none" /\ result[k] = "none"
  BY <1>1, BeginForm DEF SharedInv, CourseInv, NotAskedYet, IInv, JobsSuit
<1>4. ASSUME Sharing' PROVE Shared'
  <2>1. o \in {"create", "start", "none"} /\ Sharing
    BY <1>2, <1>3, <1>4 DEF Sharing, AllMeantTo, BeginsWith
  <2>2. FirstPart(o) \in {"create", "start", "none"} /\ Shared
    BY <2>1 DEF FirstPart, SharedInv
  <2>3. ASSUME NEW i \in Tasks PROVE Peaceful(i)' /\ \A s \in Service : Entitled(i, s)'
    <3>1. CASE i = k
      <4>1. \A s \in Service : job[k][s].name # "start"
        BY <1>3, <2>2 DEF Shared, Entitled
      <4> QED BY <1>2, <1>3, <2>2, <3>1, <4>1 DEF BeginsWith, Peaceful, Entitled
    <3>2. CASE i # k
      BY <1>2, <2>2, <3>2 DEF BeginsWith, Shared, Peaceful, Entitled, WebIsUp
    <3> QED BY <3>1, <3>2
  <2> QED BY <1>2, <2>2, <2>3 DEF Shared, BeginsWith
<1> QED BY <1>4

\* Whatever is no beginning asks for nothing.
LEMMA SharedAsked ==
  ASSUME SharedInv, UNCHANGED op, Shared /\ Sharing => Shared'
  PROVE  (Sharing => Shared)'
  BY DEF SharedInv, Sharing, AllMeantTo

LEMMA SharedStep ==
  ASSUME LifecycleAssumption, Faults = {}, Changes \cap {"deployment", "exit"} = {},
         SharedInv, [Next]_vars
  PROVE  SharedInv'
<1>1. CourseInv' /\ CourseInv /\ TypeOK /\ IInv
  BY CourseStep DEF SharedInv, CourseInv, IInv
<1> SUFFICES (Sharing => Shared)'
  BY <1>1 DEF SharedInv
<1>2. ASSUME NEW k \in Tasks, TaskTurn(k) \/ Ready(k) PROVE (Sharing => Shared)'
  BY <1>1, <1>2, TurnApart, SharedTurn, SharedAsked
<1>3. ASSUME NEW k \in Tasks, NEW s \in Service, Inspect(k, s) PROVE (Sharing => Shared)'
  <2>1. UNCHANGED <<container, registered, deployment, op, target, part, stage, result, job>>
    BY <1>3 DEF Inspect, docker, registry, asked, progress
  <2> QED BY <2>1, SharedAsked DEF Shared, Peaceful, WebIsUp, Entitled
<1>4. ASSUME NEW k \in Tasks, NEW s \in Service, JobStep(k, s) PROVE (Sharing => Shared)'
  BY <1>1, <1>4, JobStepApart, SharedJobStep, SharedAsked DEF StepsApart
<1>5. CASE Crash
  <2>1. UNCHANGED <<op, target, container, registered, deployment>>
    BY <1>5 DEF Crash, docker, registry, asked
  <2>2. ASSUME Shared, NEW i \in Tasks PROVE Peaceful(i)'
    <3>1. /\ part'[i] = "none" /\ stage'[i] \in {stage[i], "over"}
          /\ result'[i] \in {result[i], "lost"}
      BY <1>1, <1>5, CrashForm
    <3> QED BY <2>1, <2>2, <3>1 DEF Shared, Peaceful, WebIsUp
  <2>3. \A i \in Tasks, s \in Service : Harmless(job'[i][s], s, container'[s]) /\ Entitled(i, s)'
    BY <1>5 DEF Crash, Harmless, Entitled, NoJob
  <2>4. Shared => Shared'
    BY <2>1, <2>2, <2>3 DEF Shared
  <2> QED BY <2>1, <2>4, SharedAsked
<1>6. CASE UNCHANGED vars
  <2>1. UNCHANGED <<container, registered, deployment, op, target, part, stage, result, job>>
    BY <1>6 DEF vars, docker, registry, asked, progress
  <2> QED BY <2>1, SharedAsked DEF Shared, Peaceful, WebIsUp, Entitled
<1>7. ~ DeploymentChanges /\ \A s \in Service : ~ ContainerExits(s)
  BY DEF DeploymentChanges, ContainerExits
<1>8. \A k \in Tasks, s \in Service : ~ Stalls(k, s)
  BY DEF Stalls
<1> QED BY <1>2, <1>3, <1>4, <1>5, <1>6, <1>7, <1>8, SharedBegin DEF Next

\* With a Docker that does what it is asked, containers that do not exit and a
\* deployment that stays, tasks that only create and start, however many overlap
\* and whenever the server dies, make one container of a name and fail only in a
\* listener, with the web service whose start was announced to it running.
THEOREM StartsAlwaysShare ==
  ASSUME Faults = {}, Changes \cap {"deployment", "exit"} = {}
  PROVE  Spec => []StartsShare
<1>1. Init => SharedInv
  BY SharedInit, LifecycleAssumption
<1>2. SharedInv /\ [Next]_vars => SharedInv'
  BY SharedStep, LifecycleAssumption
<1>3. SharedInv => StartsShare
  <2>1. \A s \in Service : OnlyOne(container[s]) => container[s].id <= 1
    BY DEF OnlyOne
  <2> QED BY <2>1 DEF SharedInv, Sharing, Shared, Peaceful, WebIsUp, StartsShare
<1> QED BY <1>1, <1>2, <1>3, PTL DEF Spec

=============================================================================
