-------------------------- MODULE LifecycleOutcomes -------------------------
(***************************************************************************)
(* What the tasks of ServiceLifecycle report, proved for every number of   *)
(* services and every finite set of tasks: what one operator's task does   *)
(* before it says "Done.", what tasks that overlap leave, and that volumes *)
(* go only from under containers that are down.                            *)
(***************************************************************************)
EXTENDS LifecycleProofs, FiniteSetTheorems

-----------------------------------------------------------------------------
(* Going down: the parts that stop and destroy. *)

\* The parts that take down; the jobs that do have the same names.
GoingDown == {"stop", "destroy"}

\* A container is no further up than found says.
NoHigher(state, found) == found \in {"running", "unknown"} \/ state \in {"absent", found}

\* The job stops the container of s, or finds that there is nothing to stop.
StopsIt(k, s) ==
  LET j == job[k][s]
  IN j.name = "stop" /\ (j.pc = "find" \/ (j.pc = "kill" /\ j.id = container[s].id))

\* The job removes the container of s, which Docker will not refuse.
DestroysIt(k, s) ==
  LET j == job[k][s]
  IN /\ j.name = "destroy" /\ container[s].state # "running"
     /\ j.pc = "find" \/ (j.pc = "delete" /\ j.id = container[s].id)

\* What task k is to do to s is done, or a job of its own is about to do it.
StoppedBy(k, s) == container[s].state # "running" \/ StopsIt(k, s)
GoneBy(k, s) ==
  /\ container[s].state = "absent" \/ DestroysIt(k, s)
  /\ Scrubs(k) => s \notin data

\* The loop of task_destroy is done with s.
Behind(k, s) == stage[k] = "gathering" \/ s < at[k]

\* How far a part that takes down has come.  What it saw bounds the state of
\* the containers from above, so that what it skips is down; and every service
\* it has passed is down, or its job is at work and cannot miss.
Sinking(k) ==
  /\ part[k] \in GoingDown /\ stage[k] \in {"inspect", "stopping", "gathering"} =>
       \A s \in Service : NoHigher(container[s].state, seen[k][s])
  /\ part[k] = "stop" /\ stage[k] = "gathering" => \A s \in target[k] : StoppedBy(k, s)
  /\ part[k] = "destroy" /\ stage[k] \in {"stopping", "gathering"} =>
       \A s \in target[k] : /\ Behind(k, s) => GoneBy(k, s)
                            /\ s = at[k] => StoppedBy(k, s)

\* What the part has brought about once its jobs are done.
Sunk(k) ==
  /\ part[k] = "stop" => \A s \in target[k] : container[s].state # "running"
  /\ part[k] = "destroy" => \A s \in target[k] : /\ container[s].state = "absent"
                                                 /\ Scrubs(k) => s \notin data

\* Containers have come down, or are as they were.
Lowered ==
  /\ \A s \in Service : /\ container'[s].id = container[s].id
                        /\ NoHigher(container'[s].state, container[s].state)
  /\ data' \subseteq data

LEMMA ContainerState ==
  ASSUME TypeOK, NEW s \in Service
  PROVE  container[s].state \in State /\ container[s].id \in Nat
BY TypeParts DEF DockerType, Container

LEMMA LowerStill ==
  ASSUME TypeOK, Lowered, NEW s \in Service
  PROVE  /\ container[s].state # "running" => container'[s].state # "running"
         /\ container[s].state = "absent" => container'[s].state = "absent"
         /\ \A found : NoHigher(container[s].state, found) => NoHigher(container'[s].state, found)
BY ContainerState DEF Lowered, NoHigher, State

\* Whatever others take down, a task goes on to what it was asked for.
LEMMA SinkingHolds ==
  ASSUME TypeOK, Lowered, NEW k \in Tasks, Sinking(k),
         part'[k] = part[k], stage'[k] = stage[k], at'[k] = at[k],
         op'[k] = op[k], target'[k] = target[k], scrub'[k] = scrub[k], seen'[k] = seen[k], job'[k] = job[k]
  PROVE  Sinking(k)'
<1>1. target[k] \subseteq Service
  BY TypeParts DEF AskedType
<1>2. \A s \in Service : StoppedBy(k, s) => StoppedBy(k, s)'
  BY LowerStill DEF StoppedBy, StopsIt, Lowered
<1>3. \A s \in Service : GoneBy(k, s) => GoneBy(k, s)'
  BY LowerStill DEF GoneBy, DestroysIt, Lowered, Scrubs
<1>4. \A s \in Service : NoHigher(container[s].state, seen[k][s]) =>
                          NoHigher(container'[s].state, seen'[k][s])
  BY LowerStill
<1> QED BY <1>1, <1>2, <1>3, <1>4 DEF Sinking, Behind

\* The answers Docker gives when it answers.
LEMMA AnsweredCall ==
  ASSUME Faults = {}, TypeOK, NEW k \in Tasks, NEW s \in Service, NEW c \in Container,
         NEW pc, NEW refusedPc, Call(k, s, c, pc, refusedPc)
  PROVE  /\ container'[s] = c /\ \A t \in Service \ {s} : container'[t] = container[t]
         /\ job'[k][s].name = job[k][s].name /\ job'[k][s].pc = pc /\ job'[k][s].id = job[k][s].id
<1>1. job \in JobType /\ container \in [Service -> Container]
  BY TypeParts DEF DockerType
<1>2. container' = [container EXCEPT ![s] = c] /\ MovesJob(k, s, pc, job[k][s].id)
  BY DEF Call
<1> QED BY <1>1, <1>2, MovesJobTo

\* The steps of the jobs that take a container down.
LEMMA DownStep ==
  ASSUME Faults = {}, TypeOK, NEW k \in Tasks, NEW s \in Service, Shape(job[k][s]),
         job[k][s].name \in GoingDown, JobStep(k, s)
  PROVE  /\ Lowered
         /\ StoppedBy(k, s) => StoppedBy(k, s)'
         /\ GoneBy(k, s) => GoneBy(k, s)'
         /\ seen'[k][s] \in {seen[k][s], container[s].state} /\ data' = data
         /\ job'[k][s].pc # "failed"
<1> DEFINE j == job[k][s]
           n == job'[k][s]
           c == container[s]
<1>0. /\ c \in Container /\ c.state \in State /\ c.id \in Nat /\ job \in JobType
      /\ seen \in SeenType /\ n.name = j.name /\ Scrubs(k)' = Scrubs(k)
  BY ContainerState, JobStepApart, TypeParts DEF DockerType, StepsApart, Scrubs
<1>1. CASE Find(k, s)
  <2>1. LET known == IF c.state = "absent" THEN 0 ELSE c.id
        IN MovesJob(k, s, AfterFind(j.name, j.pc, known), known)
    BY <1>1 DEF Find
  <2>2. /\ n.pc = IF j.name = "stop" THEN "kill" ELSE "delete"
        /\ n.id = IF c.state = "absent" THEN 0 ELSE c.id
    BY <1>0, <2>1, MovesJobTo DEF AfterFind, GoingDown
  <2>3. UNCHANGED <<container, data, seen>>
    BY <1>1 DEF Find, docker
  <2>4. Lowered
    BY <2>3, ContainerState DEF Lowered, NoHigher
  <2>5. StoppedBy(k, s) => StoppedBy(k, s)'
    BY <1>0, <2>2, <2>3 DEF StoppedBy, StopsIt
  <2>6. GoneBy(k, s) => GoneBy(k, s)'
    BY <1>0, <2>2, <2>3 DEF GoneBy, DestroysIt
  <2> QED BY <2>2, <2>3, <2>4, <2>5, <2>6
<1>2. CASE Kill(k, s)
  <2> DEFINE hit == c.id = j.id /\ c.state = "running"
             d == IF hit THEN [c EXCEPT !.state = "stopped"] ELSE c
  <2>1. d \in Container /\ d.id = c.id /\ d.state = IF hit THEN "stopped" ELSE c.state
    BY <1>0 DEF Container, State
  <2>2. Call(k, s, d, "look", "look") /\ j.pc = "kill" /\ UNCHANGED <<data, seen>>
    BY <1>2 DEF Kill
  <2>3. /\ container'[s] = d /\ \A t \in Service \ {s} : container'[t] = container[t]
        /\ n.pc = "look" /\ n.id = j.id
    BY <2>1, <2>2, AnsweredCall
  <2>4. Lowered
    BY <1>0, <2>1, <2>2, <2>3, ContainerState DEF Lowered, NoHigher, State
  <2>5. StoppedBy(k, s) => StoppedBy(k, s)'
    BY <1>0, <2>1, <2>2, <2>3 DEF StoppedBy, StopsIt
  <2>6. GoneBy(k, s) => GoneBy(k, s)'
    BY <1>0, <2>1, <2>2, <2>3 DEF GoneBy, DestroysIt
  <2> QED BY <2>2, <2>3, <2>4, <2>5, <2>6
<1>3. CASE Delete(k, s)
  <2> DEFINE hit == c.id = j.id /\ c.state = "stopped"
             d == IF hit THEN [c EXCEPT !.state = "absent"] ELSE c
  <2>1. d \in Container /\ d.id = c.id /\ d.state = IF hit THEN "absent" ELSE c.state
    BY <1>0 DEF Container, State
  <2>2. Call(k, s, d, "look", "look") /\ j.pc = "delete" /\ UNCHANGED <<data, seen>>
    BY <1>3 DEF Delete
  <2>3. /\ container'[s] = d /\ \A t \in Service \ {s} : container'[t] = container[t]
        /\ n.pc = "look" /\ n.id = j.id
    BY <2>1, <2>2, AnsweredCall
  <2>4. Lowered
    BY <1>0, <2>1, <2>2, <2>3, ContainerState DEF Lowered, NoHigher, State
  <2>5. StoppedBy(k, s) => StoppedBy(k, s)'
    BY <1>0, <2>1, <2>2, <2>3 DEF StoppedBy, StopsIt, State
  <2>6. GoneBy(k, s) => GoneBy(k, s)'
    BY <1>0, <2>1, <2>2, <2>3 DEF GoneBy, DestroysIt, State
  <2> QED BY <2>2, <2>3, <2>4, <2>5, <2>6
<1>4. CASE Look(k, s)
  <2>1. seen'[k][s] = c.state /\ UNCHANGED <<container, data>> /\ j.pc = "look"
    BY <1>0, <1>4 DEF Look, Inspection, SeenType, docker, Shape, GoingDown, Ended
  <2>4. n.pc = "done"
    <3>1. MovesJob(k, s, AfterLook(j.name, j.pc, s, c.state), j.id)
      BY <1>4 DEF Look, Inspection
    <3> QED BY <1>0, <2>1, <3>1, MovesJobTo DEF AfterLook
  <2>2. Lowered
    BY <2>1, ContainerState DEF Lowered, NoHigher
  <2>3. ~ StopsIt(k, s) /\ ~ DestroysIt(k, s)
    BY <2>1 DEF StopsIt, DestroysIt
  <2> QED BY <1>0, <2>1, <2>2, <2>3, <2>4 DEF StoppedBy, GoneBy
<1>5. ~ Post(k, s) /\ ~ Run(k, s) /\ ~ Exec(k, s) /\ ~ Listen(k, s)
  BY DEF Post, Run, Exec, Listen, Shape, GoingDown, Ended
<1> QED BY <1>1, <1>2, <1>3, <1>4, <1>5 DEF JobStep

LEMMA SinkingStep ==
  ASSUME Faults = {}, TypeOK, NEW k \in Tasks, NEW s \in Service, Shape(job[k][s]),
         job[k][s].name \in GoingDown, JobStep(k, s), Sinking(k)
  PROVE  Sinking(k)'
<1>1. /\ Lowered
      /\ StoppedBy(k, s) => StoppedBy(k, s)'
      /\ GoneBy(k, s) => GoneBy(k, s)'
      /\ seen'[k][s] \in {seen[k][s], container[s].state}
  BY DownStep
<1>2. StepsApart(k, s) /\ target[k] \subseteq Service
  BY JobStepApart, TypeParts DEF AskedType
<1>3. \A t \in Service : StoppedBy(k, t) => StoppedBy(k, t)'
  BY <1>1, <1>2, LowerStill DEF StoppedBy, StopsIt, Lowered, StepsApart
<1>4. \A t \in Service : GoneBy(k, t) => GoneBy(k, t)'
  BY <1>1, <1>2, LowerStill DEF GoneBy, DestroysIt, Lowered, Scrubs, StepsApart
<1>5. \A t \in Service : NoHigher(container[t].state, seen[k][t]) =>
                          NoHigher(container'[t].state, seen'[k][t])
  <2>1. ASSUME NEW t \in Service, NoHigher(container[t].state, seen[k][t])
        PROVE  NoHigher(container'[t].state, seen'[k][t])
    <3>1. seen'[k][t] \in {seen[k][t], container[t].state}
      BY <1>1, <1>2 DEF StepsApart
    <3>2. NoHigher(container'[t].state, container[t].state)
      BY <1>1 DEF Lowered
    <3> QED BY <1>1, <2>1, <3>1, <3>2, LowerStill
  <2> QED BY <2>1
<1> QED BY <1>2, <1>3, <1>4, <1>5 DEF Sinking, Behind, StepsApart

\* Docker's containers stay as they are, and no volume is deleted of one that
\* runs: what a turn of a task does to them.
Scrubbed == data' \subseteq data /\ \A s \in data \ data' : container[s].state # "running"

\* One turn of task_destroy.  Those it passes are down, and those before them
\* are being destroyed.
LEMMA DestroyNextSinks ==
  ASSUME TypeOK, NEW k \in Tasks, part[k] = "destroy", Aware(k), NEW ahead \in SUBSET target[k],
         NEW down \in SUBSET ahead, DestroyNext(k, ahead, down),
         UNCHANGED <<container, op, target, scrub, seen>>,
         \A s \in Service : NoHigher(container[s].state, seen[k][s]),
         \A s \in down : container[s].state # "running",
         \A s \in target[k] \ ahead : GoneBy(k, s),
         \A s \in target[k] \ ahead : \A t \in ahead : s < t
  PROVE  Sinking(k)' /\ Scrubbed
<1>0. /\ ProgressType /\ job \in JobType /\ data \subseteq Service /\ target[k] \subseteq Service
      /\ Scrubs(k)' = Scrubs(k)
  BY TypeParts DEF DockerType, AskedType, Scrubs
<1>1. ASSUME NEW S \in SUBSET ahead, NEW stops \in SUBSET target[k], DestroyTurn(k, S, down, stops),
             \A s \in S : s \in down \/ seen[k][s] # "running"
      PROVE  /\ Scrubbed
             /\ \A s \in S : GoneBy(k, s)'
             /\ \A s \in target[k] \ (ahead \cup stops) : GoneBy(k, s)'
             /\ \A s \in stops \ S : StoppedBy(k, s)'
  <2>1. \A s \in S : container[s].state # "running"
    BY <1>0, <1>1, ContainerState DEF NoHigher, Aware, State
  <2>2. data' = IF Scrubs(k) THEN data \ S ELSE data
    BY <1>1 DEF DestroyTurn
  <2>3. \A s \in Service :
           job'[k][s] = IF s \in S /\ (s \in down \/ seen[k][s] # "absent") THEN NewJob("destroy")
                        ELSE IF s \in stops THEN NewJob("stop") ELSE job[k][s]
    BY <1>0, <1>1, DestroyTurnApart
  <2>4. Scrubbed
    BY <2>1, <2>2 DEF Scrubbed
  <2>5. ASSUME NEW s \in S PROVE GoneBy(k, s)'
    <3>1. CASE s \in down \/ seen[k][s] # "absent"
      <4>1. job'[k][s] = NewJob("destroy")
        BY <1>0, <2>3, <3>1
      <4>2. DestroysIt(k, s)'
        BY <2>1, <4>1 DEF DestroysIt, NewJob
      <4> QED BY <1>0, <2>2, <4>2 DEF GoneBy
    <3>2. CASE seen[k][s] = "absent"
      <4>1. container[s].state = "absent"
        BY <1>0, <3>2 DEF NoHigher
      <4> QED BY <1>0, <2>2, <4>1 DEF GoneBy
    <3> QED BY <3>1, <3>2
  <2>6. ASSUME NEW s \in target[k] \ (ahead \cup stops) PROVE GoneBy(k, s)'
    <3>1. job'[k][s] = job[k][s] /\ GoneBy(k, s)
      BY <1>0, <2>3
    <3> QED BY <1>0, <2>4, <3>1 DEF GoneBy, DestroysIt, Scrubbed
  <2>7. ASSUME NEW s \in stops \ S PROVE StoppedBy(k, s)'
    <3>1. job'[k][s] = NewJob("stop")
      BY <1>0, <2>3, <2>7
    <3> QED BY <3>1 DEF StoppedBy, StopsIt, NewJob
  <2> QED BY <2>4, <2>5, <2>6, <2>7
<1>2. CASE \E m \in StopsFirst(k, ahead, down) :
             /\ First(StopsFirst(k, ahead, down), m)
             /\ DestroyTurn(k, {t \in ahead : t < m}, down, {m})
             /\ SuspendAt(k, "stopping", m)
  <2>1. PICK m \in StopsFirst(k, ahead, down) :
             /\ First(StopsFirst(k, ahead, down), m)
             /\ DestroyTurn(k, {t \in ahead : t < m}, down, {m})
             /\ SuspendAt(k, "stopping", m)
    BY <1>2
  <2> DEFINE S == {t \in ahead : t < m}
  <2>2. m \in ahead /\ m \in target[k] /\ m \notin S
    BY <1>0 DEF StopsFirst, Service
  <2>3. \A s \in S : s \in down \/ seen[k][s] # "running"
    BY <1>0, <2>1, <2>2 DEF StopsFirst, First, Service
  <2>4. /\ Scrubbed
        /\ \A s \in S : GoneBy(k, s)'
        /\ \A s \in target[k] \ (ahead \cup {m}) : GoneBy(k, s)'
        /\ \A s \in {m} \ S : StoppedBy(k, s)'
    <3>1. S \in SUBSET ahead /\ {m} \in SUBSET target[k] /\ DestroyTurn(k, S, down, {m})
      BY <2>1, <2>2
    <3> HIDE DEF S
    <3> QED BY <1>1, <2>3, <3>1
  <2>5. stage'[k] = "stopping" /\ at'[k] = m /\ part' = part
    BY <1>0, <2>1, SuspendTo
  <2>6. ASSUME NEW s \in target[k] PROVE (s < m => GoneBy(k, s)') /\ (s = m => StoppedBy(k, s)')
    BY <2>2, <2>4 DEF Service
  <2>7. Sinking(k)'
    BY <1>0, <2>5, <2>6 DEF Sinking, Behind, GoingDown
  <2> QED BY <2>4, <2>7
<1>3. CASE /\ StopsFirst(k, ahead, down) = {}
           /\ DestroyTurn(k, ahead, down, {}) /\ SuspendAt(k, "gathering", 0)
  <2>1. \A s \in ahead : s \in down \/ seen[k][s] # "running"
    BY <1>3 DEF StopsFirst
  <2>2. /\ Scrubbed
        /\ \A s \in ahead : GoneBy(k, s)'
        /\ \A s \in target[k] \ (ahead \cup {}) : GoneBy(k, s)'
    BY <1>1, <1>3, <2>1
  <2>3. stage'[k] = "gathering" /\ at'[k] = 0 /\ part' = part
    BY <1>0, <1>3, SuspendTo
  <2>4. \A s \in target[k] : GoneBy(k, s)' /\ s # 0
    BY <1>0, <2>2 DEF Service
  <2>5. Sinking(k)'
    BY <1>0, <2>3, <2>4 DEF Sinking, Behind, GoingDown
  <2> QED BY <2>2, <2>5
<1> QED BY <1>2, <1>3 DEF DestroyNext

LEMMA StopAllSinks ==
  ASSUME TypeOK, NEW k \in Tasks, part[k] = "stop", Aware(k), StopAll(k),
         UNCHANGED <<container, target, seen>>,
         \A s \in Service : NoHigher(container[s].state, seen[k][s])
  PROVE  Sinking(k)'
<1>1. ProgressType /\ job \in JobType /\ target[k] \subseteq Service
  BY TypeParts DEF AskedType
<1>2. stage'[k] = "gathering" /\ part' = part
  BY <1>1, SuspendTo DEF StopAll
<1>3. ASSUME NEW s \in target[k] PROVE StoppedBy(k, s)'
  <2>1. CASE seen[k][s] = "running"
    <3>1. job'[k][s] = NewJob("stop")
      BY <1>1, <2>1, LaunchApart DEF StopAll
    <3> QED BY <3>1 DEF StoppedBy, StopsIt, NewJob
  <2>2. CASE seen[k][s] # "running"
    BY <1>1, <2>2, ContainerState DEF StoppedBy, NoHigher, Aware, State
  <2> QED BY <2>1, <2>2
<1> QED BY <1>1, <1>2, <1>3 DEF Sinking, GoingDown

\* Once no job of the part is at work, it has brought about what it was for.
LEMMA GatheredSunk ==
  ASSUME TypeOK, NEW k \in Tasks, Sinking(k), stage[k] = "gathering", NoneBusy(k)
  PROVE  Sunk(k)
<1>1. \A s \in Service : ~ StopsIt(k, s) /\ ~ DestroysIt(k, s)
  BY DEF NoneBusy, Busy, StopsIt, DestroysIt, Pending
<1>2. target[k] \subseteq Service
  BY TypeParts DEF AskedType
<1> QED BY <1>1, <1>2 DEF Sinking, Sunk, Behind, StoppedBy, GoneBy

\* A turn that goes on to another part, or to no part.
LEMMA PartEndsSinks ==
  ASSUME ProgressType, AskedType, NEW k \in Tasks, NEW r, PartEnds(k, r) \/ Over(k, r)
  PROVE  Sinking(k)'
<1>1. part'[k] \notin GoingDown \/ stage'[k] = "get"
  BY PartEndsTo, SecondParts DEF Over, ProgressType, PartType, StageType, GoingDown
<1> QED BY <1>1 DEF Sinking, GoingDown

LEMMA UpSinks ==
  ASSUME TypeOK, NEW k \in Tasks, part[k] \notin GoingDown, NEW last,
         StartNext(k, last) \/ CreateNext(k, last)
  PROVE  Sinking(k)'
<1>1. ProgressType /\ AskedType
  BY TypeParts
<1>2. CASE PartEnds(k, "Done.")
  BY <1>1, <1>2, PartEndsSinks
<1>3. CASE \E g, s : SuspendAt(k, g, s)
  BY <1>1, <1>3, SuspendTo DEF Sinking, GoingDown
<1> QED BY <1>2, <1>3 DEF StartNext, CreateNext

\* Every turn takes the task further down, and it leaves its part for the
\* next one only with the work done.
LEMMA SinkingTurn ==
  ASSUME IInv, NEW k \in Tasks, Course(k), Sinking(k), TaskTurn(k) \/ Ready(k)
  PROVE  /\ Sinking(k)' /\ Scrubbed
         /\ \/ part'[k] = part[k] \/ result'[k] = "failure" \/ ~ deployment
            \/ Sunk(k)
<1> DEFINE Leaves == part'[k] = part[k] \/ result'[k] = "failure" \/ ~ deployment \/ Sunk(k)
<1>0. /\ TypeOK /\ ProgressType /\ AskedType /\ job \in JobType /\ seen \in SeenType
      /\ target[k] \subseteq Service /\ JobsSuit(k)
      /\ UNCHANGED <<container, op, target, scrub>>
  BY TypeParts, TurnApart DEF IInv, AskedType
<1>a. data' = data => Scrubbed
  BY DEF Scrubbed
<1>b. \A r : Over(k, r) => result'[k] = r
  BY <1>0 DEF Over, ProgressType, ResultType
<1>c. part[k] \notin GoingDown => Sunk(k)
  BY DEF Sunk, GoingDown
<1>1. CASE Get(k)
  <2>1. CASE stage' = [stage EXCEPT ![k] = "deployment"] /\ UNCHANGED part
    BY <1>0, <1>1, <1>a, <2>1 DEF Sinking, Get, docker, ProgressType, StageType
  <2> QED BY <1>0, <1>1, <1>a, <1>b, <2>1, PartEndsSinks DEF Get, docker
<1>2. CASE Load(k)
  <2>1. data' = data
    BY <1>2 DEF Load, docker
  <2>2. CASE deployment
    <3>1. stage'[k] = "inspect" /\ part' = part /\ \A s \in Service : seen'[k][s] = "unknown"
      BY <1>0, <1>2, <2>2 DEF Load, ProgressType, StageType, SeenType
    <3> QED BY <1>a, <2>1, <3>1 DEF Sinking, NoHigher
  <2> QED BY <1>0, <1>2, <1>a, <2>1, <2>2, PartEndsSinks DEF Load
<1>3. CASE Loaded(k)
  <2>1. /\ Aware(k) /\ UNCHANGED seen
        /\ part[k] \in GoingDown => \A s \in Service : NoHigher(container[s].state, seen[k][s])
    BY <1>3 DEF Loaded, Inspected, Aware, Sinking, State
  <2>2. CASE part[k] \in {"create", "start"} /\ CreateNext(k, 0) /\ UNCHANGED data
    BY <1>0, <1>a, <1>c, <2>2, UpSinks DEF GoingDown
  <2>3. CASE part[k] = "stop" /\ StopAll(k) /\ UNCHANGED data
    BY <1>0, <1>a, <2>1, <2>3, StopAllSinks, SuspendTo DEF GoingDown, StopAll
  <2>4. CASE part[k] = "destroy" /\ DestroyNext(k, target[k], {})
    <3>1. part' = part
      BY <2>4 DEF DestroyNext, SuspendAt
    <3> QED BY <1>0, <2>1, <2>4, <3>1, DestroyNextSinks DEF GoingDown
  <2> QED BY <1>3, <2>2, <2>3, <2>4 DEF Loaded
<1>4. CASE JobFailed(k)
  BY <1>0, <1>4, <1>a, <1>b, PartEndsSinks DEF JobFailed, docker
<1>5. CASE AfterCreate(k) \/ AfterStart(k) \/ Ready(k) \/ AfterPause(k) \/ TimedOut(k)
  <2>1. part[k] \notin GoingDown /\ data' = data
    BY <1>5 DEF AfterCreate, AfterStart, Ready, AfterPause, TimedOut, JobEnded, Course, Fits,
                GoingDown, docker
  <2>2. CASE \E last : StartNext(k, last) \/ CreateNext(k, last)
    <3>1. Sinking(k)'
      BY <1>0, <2>1, <2>2, UpSinks
    <3> QED BY <1>a, <1>c, <2>1, <3>1
  <2>3. CASE \E r : Over(k, r)
    <3>1. Sinking(k)'
      BY <1>0, <2>3, PartEndsSinks
    <3> QED BY <1>a, <1>c, <2>1, <3>1
  <2>4. CASE \E g, s : SuspendAt(k, g, s)
    <3>1. Sinking(k)'
      BY <1>0, <2>1, <2>4, SuspendTo DEF Sinking, GoingDown
    <3> QED BY <1>a, <1>c, <2>1, <3>1
  <2> QED BY <1>5, <2>2, <2>3, <2>4 DEF AfterCreate, AfterStart, Ready, AfterPause, TimedOut, GoesOnIf
<1>6. CASE AfterStop(k)
  <2>1. part[k] = "destroy" /\ stage[k] = "stopping" /\ at[k] \in Service /\ Aware(k)
    BY <1>0, <1>6 DEF AfterStop, JobEnded, Course, Fits, Blind, Aware, JobsSuit, Waits
  <2> DEFINE ahead == {s \in target[k] : s >= at[k]}
  <2>2. DestroyNext(k, ahead, {at[k]}) /\ UNCHANGED seen /\ job[k][at[k]].pc = "done"
    BY <1>6 DEF AfterStop, JobEnded
  <2>3. \A s \in Service : NoHigher(container[s].state, seen[k][s])
    BY <2>1 DEF Sinking, GoingDown
  <2>4. \A s \in target[k] \ ahead : GoneBy(k, s)
    BY <1>0, <2>1 DEF Sinking, Behind, Service
  <2>5. at[k] \in target[k] => container[at[k]].state # "running"
    BY <2>1, <2>2 DEF Sinking, StoppedBy, StopsIt
  <2>6. \A s \in target[k] \ ahead : \A t \in ahead : s < t
    BY <1>0, <2>1 DEF Service
  <2>7. part' = part
    BY <2>2 DEF DestroyNext, SuspendAt
  <2>8. CASE at[k] \in target[k]
    <3>1. {at[k]} \in SUBSET ahead /\ ahead \in SUBSET target[k]
      BY <2>1, <2>8 DEF Service
    <3> HIDE DEF ahead
    <3> QED BY <1>0, <2>1, <2>2, <2>3, <2>4, <2>5, <2>6, <2>7, <2>8, <3>1, DestroyNextSinks
  <2>9. at[k] \in target[k]
    BY <2>1 DEF Course, Waits
  <2> QED BY <2>8, <2>9
<1>7. CASE Gathered(k)
  <2>1. data' = data /\ stage[k] = "gathering"
    BY <1>7 DEF Gathered, docker
  <2>2. CASE Over(k, "failure")
    BY <1>0, <1>a, <1>b, <2>1, <2>2, PartEndsSinks
  <2>3. CASE (\A s \in Service : ~ Busy(k, s)) /\ PartEnds(k, "Done.")
    BY <1>0, <1>a, <2>1, <2>3, PartEndsSinks, GatheredSunk DEF NoneBusy
  <2> QED BY <1>7, <2>2, <2>3 DEF Gathered
<1>8. CASE Unregister(k)
  <2>1. part[k] \notin GoingDown
    BY <1>8 DEF Unregister, Course, Fits, GoingDown
  <2> QED BY <1>0, <1>8, <1>a, <1>c, <2>1, PartEndsSinks DEF Unregister, docker
<1> QED BY <1>1, <1>2, <1>3, <1>4, <1>5, <1>6, <1>7, <1>8 DEF TaskTurn

-----------------------------------------------------------------------------
(* Going up: the jobs that create and start. *)

\* Containers have come up, or are as they were.
Raised ==
  \A s \in Service :
    LET c == container[s]
        d == container'[s]
    IN /\ c.state # "absent" => d.state # "absent" /\ d.id = c.id
       /\ c.state = "running" => d.state = "running"
       /\ c.state = "absent" => d = c \/ (d.state # "absent" /\ d.id = c.id + 1)

LEMMA UpStep ==
  ASSUME Faults = {}, TypeOK, NEW k \in Tasks, NEW s \in Service, Shape(job[k][s]),
         job[k][s].name \notin GoingDown, JobStep(k, s)
  PROVE  /\ Raised
         /\ seen'[k][s] \in {seen[k][s], container[s].state}
<1> DEFINE j == job[k][s]
           c == container[s]
<1>0. /\ c \in Container /\ c.state \in State /\ c.id \in Nat /\ seen \in SeenType
      /\ StepsApart(k, s)
  BY ContainerState, JobStepApart, TypeParts DEF DockerType
<1>1. CASE Find(k, s) \/ Look(k, s) \/ Exec(k, s) \/ Listen(k, s)
  BY <1>0, <1>1 DEF Find, Look, Exec, Listen, docker, Raised, Inspection, SeenType
<1>2. CASE Post(k, s)
  <2>1. Created(c) \in Container
    BY <1>0 DEF Created, Container, State
  <2>2. container'[s] = Created(c)
    BY <1>2, <2>1, AnsweredCall DEF Post
  <2> QED BY <1>0, <1>2, <2>2 DEF Post, Raised, StepsApart, Created, State
<1>3. CASE Run(k, s)
  <2> DEFINE d == IF c.id = j.id /\ c.state # "absent" THEN [c EXCEPT !.state = "running"] ELSE c
  <2>1. d \in Container /\ d.id = c.id /\ (d = c \/ (d.state = "running" /\ c.state # "absent"))
    BY <1>0 DEF Container, State
  <2>2. container'[s] = d
    BY <1>3, <2>1, AnsweredCall DEF Run
  <2> HIDE DEF d
  <2>3. seen' = seen
    BY <1>3 DEF Run
  <2> QED BY <1>0, <2>1, <2>2, <2>3 DEF Raised, StepsApart
<1>4. ~ Kill(k, s) /\ ~ Delete(k, s)
  BY DEF Kill, Delete, Shape, GoingDown, Ended
<1> QED BY <1>1, <1>2, <1>3, <1>4 DEF JobStep

\* No job that takes a container down fails, and a part that takes down has no
\* other jobs.  (A start may fail: in a listener, or when its container exits.)
Steady(k, s) ==
  LET j == job[k][s]
  IN /\ j.pc = "failed" => j.name \notin GoingDown
     /\ part[k] \in GoingDown \/ stage[k] = "idle" => j.name \in GoingDown \cup {"none"}

\* Where a turn takes a task.
LEMMA TurnParts ==
  ASSUME IInv, NEW k \in Tasks, TaskTurn(k) \/ Ready(k)
  PROVE  \/ part'[k] \in {part[k], "none"}
         \/ part'[k] = "unregister" /\ SecondPart(op[k]) = "unregister"
         \/ part'[k] = "start" /\ SecondPart(op[k]) = "start" /\ stage'[k] = "get"
<1> DEFINE Fine == \/ part'[k] \in {part[k], "none"}
                   \/ part'[k] = "unregister" /\ SecondPart(op[k]) = "unregister"
                   \/ part'[k] = "start" /\ SecondPart(op[k]) = "start" /\ stage'[k] = "get"
<1>0. ProgressType /\ AskedType
  BY TypeParts DEF IInv
<1>1. \A r : Over(k, r) => Fine
  BY <1>0 DEF Over, ProgressType, PartType
<1>2. \A r : PartEnds(k, r) => Fine
  BY <1>0, <1>1, PartEndsTo, SecondParts
<1>3. \A g, t : SuspendAt(k, g, t) => Fine
  BY DEF SuspendAt
<1>4. \A last : StartNext(k, last) => Fine
  BY <1>2, <1>3 DEF StartNext
<1>5. \A last : CreateNext(k, last) => Fine
  BY <1>2, <1>3, <1>4 DEF CreateNext
<1>6. (\A ahead, down : DestroyNext(k, ahead, down) => Fine) /\ (StopAll(k) => Fine)
  BY <1>3 DEF DestroyNext, StopAll
<1> SUFFICES Fine
  OBVIOUS
<1> HIDE DEF Fine
<1>7. CASE Get(k) \/ Load(k)
  <2>1. part' = part => Fine
    BY DEF Fine
  <2> QED BY <1>1, <1>2, <1>7, <2>1 DEF Get, Load
<1>8. CASE Loaded(k) \/ AfterStop(k)
  BY <1>5, <1>6, <1>8 DEF Loaded, AfterStop
<1>9. CASE JobFailed(k) \/ Gathered(k) \/ Unregister(k)
  BY <1>1, <1>2, <1>9 DEF JobFailed, Gathered, Unregister
<1>10. CASE AfterCreate(k) \/ AfterStart(k) \/ AfterPause(k) \/ TimedOut(k) \/ Ready(k)
  BY <1>1, <1>3, <1>4, <1>5, <1>10 DEF AfterCreate, AfterStart, AfterPause, TimedOut, Ready, GoesOnIf
<1> QED BY <1>7, <1>8, <1>9, <1>10 DEF TaskTurn

-----------------------------------------------------------------------------
(* One operator. *)

\* No two tasks are under way, and none has left a job at work.
Solo ==
  /\ \A j, k \in Tasks : Active(j) /\ Active(k) => j = k
  /\ \A k \in Tasks : ~ Active(k) => NoneBusy(k)
  /\ \A k \in Tasks : Sinking(k)
  /\ \A k \in Tasks, s \in Service : Steady(k, s)

\* The inductive invariant of one operator.
SoloInv == CourseInv /\ Solo

LEMMA Inactive ==
  ASSUME CourseInv, NEW k \in Tasks
  PROVE  ~ Active(k) <=> part[k] = "none"
BY DEF CourseInv, Course, Fits, Active

LEMMA NobodyActive ==
  ASSUME LifecycleAssumption, MaxActive <= 1, NEW k \in Tasks, Begin(k)
  PROVE  \A j \in Tasks : ~ Active(j)
<1> DEFINE A == {t \in Tasks : Active(t)}
<1>1. IsFiniteSet(A)
  BY FS_Subset DEF LifecycleAssumption
<1>2. Cardinality(A) \in Nat /\ Cardinality(A) < MaxActive
  BY <1>1, FS_CardinalityType DEF Begin
<1>3. Cardinality(A) = 0
  BY <1>2 DEF LifecycleAssumption
<1>4. A = {}
  BY <1>1, <1>3, FS_EmptySet
<1> QED BY <1>4

\* A task ends quietly: a start that fails is the only job at work.
LEMMA EndsQuietly ==
  ASSUME Faults = {}, CourseInv, IInv', NEW k \in Tasks, \A s \in Service : Steady(k, s),
         TaskTurn(k) \/ Ready(k), stage'[k] = "over"
  PROVE  NoneBusy(k)'
<1>0. ProgressType /\ JobsSuit(k) /\ JobsSuit(k)' /\ IInv /\ Course(k) /\ \A s \in Service : Shape(job[k][s])
  BY TypeParts DEF CourseInv, IInv
<1>1. part[k] \in GoingDown => \A s \in Service : job[k][s].pc # "failed"
  BY <1>0 DEF Steady, Shape, GoingDown
<1>5. CASE JobFailed(k)
  <2>1. ~ JobEnded(k, "stopping", "failed")
    BY <1>0, <1>1 DEF JobEnded, JobsSuit, Waits, Course, Fits, GoingDown
  <2>2. NoneBusy(k)
    BY <1>0, <1>5, <2>1, EndedAlone DEF JobFailed, Ended
  <2> QED BY <1>5, <2>2 DEF JobFailed, NoneBusy, Busy
<1>6. Gathered(k) => PartEnds(k, "Done.")
  BY <1>0, <1>1 DEF Gathered, Course, Fits, GoingDown
<1>2. CASE result'[k] \in Outcome
  BY <1>0, <1>2 DEF JobsSuit
<1>3. CASE Get(k) \/ Load(k)
  BY <1>0, <1>3 DEF Get, Load, JobsSuit, Resting, NoneBusy, Busy
<1>4. CASE ~ Get(k) /\ ~ Load(k) /\ ~ JobFailed(k)
  <2>1. \A r : Over(k, r) => result'[k] = r
    BY <1>0 DEF Over, ProgressType, ResultType
  <2>2. \A r : PartEnds(k, r) => stage'[k] # "over" \/ result'[k] = r
    BY <1>0, <2>1, PartEndsTo
  <2>3. \A g, s : SuspendAt(k, g, s) => stage'[k] = g
    BY <1>0, SuspendTo
  <2>4. \A last : StartNext(k, last) => result'[k] = "Done."
    BY <2>2, <2>3 DEF StartNext
  <2>5. \A last : CreateNext(k, last) => result'[k] = "Done."
    BY <2>2, <2>3, <2>4 DEF CreateNext
  <2>6. \A ahead, down : ~ DestroyNext(k, ahead, down)
    BY <2>3 DEF DestroyNext
  <2>7. ~ StopAll(k)
    BY <2>3 DEF StopAll
  <2>8. result'[k] \in {"Done.", "False"}
    BY <1>4, <1>6, <2>1, <2>2, <2>3, <2>4, <2>5, <2>6, <2>7
       DEF TaskTurn, Loaded, AfterCreate, AfterStart, AfterPause, TimedOut,
           AfterStop, Unregister, Ready, GoesOnIf
  <2> QED BY <1>2, <2>8 DEF Outcome
<1> QED BY <1>3, <1>4, <1>5

LEMMA SoloBegin ==
  ASSUME LifecycleAssumption, MaxActive <= 1, SoloInv, NEW k \in Tasks, Begin(k)
  PROVE  Solo'
<1>1. PICK o \in Operations, S \in SUBSET Service : BeginsWith(k, o, S)
  BY BeginForm DEF SoloInv, CourseInv, IInv
<1>2. \A j \in Tasks : ~ Active(j)
  BY NobodyActive
<1>3. \A j \in Tasks \ {k} : ~ Active(j)'
  BY <1>1, <1>2 DEF BeginsWith, Active
<1>4. \A j \in Tasks : ~ Active(j)' => NoneBusy(j)'
  BY <1>1, <1>2 DEF BeginsWith, Active, SoloInv, Solo, NoneBusy, Busy
<1>5. \A j \in Tasks : Sinking(j)'
  <2>1. ASSUME NEW j \in Tasks \ {k} PROVE part'[j] = "none"
    BY <1>1, <1>2, Inactive DEF BeginsWith, SoloInv
  <2>2. stage'[k] = "get"
    BY <1>1 DEF BeginsWith
  <2> QED BY <2>1, <2>2 DEF Sinking, GoingDown
<1>6. \A j \in Tasks, s \in Service : Steady(j, s)'
  BY <1>1, BeginForm DEF BeginsWith, SoloInv, Solo, Steady, CourseInv, IInv
<1> QED BY <1>3, <1>4, <1>5, <1>6 DEF Solo

LEMMA TurnActive ==
  ASSUME NEW k \in Tasks, TaskTurn(k) \/ Ready(k)
  PROVE  Active(k)
BY DEF TaskTurn, Ready, Get, Load, Loaded, Inspected, JobFailed, JobEnded, AfterCreate, AfterStart,
       AfterPause, TimedOut, AfterStop, Gathered, Unregister, Active

LEMMA SoloTurn ==
  ASSUME LifecycleAssumption, Faults = {}, SoloInv, NEW k \in Tasks, TaskTurn(k) \/ Ready(k)
  PROVE  Solo' /\ Scrubbed
<1>1. CourseInv' /\ CourseInv /\ IInv /\ IInv' /\ Course(k) /\ TypeOK
  BY CourseTurn DEF SoloInv, CourseInv, IInv
<1>2. Apart(k) /\ UNCHANGED <<container, op, target, scrub>>
  BY <1>1, TurnApart
<1>3. Active(k) /\ \A j \in Tasks \ {k} : ~ Active(j)
  BY TurnActive DEF SoloInv, Solo
<1>4. \A j \in Tasks \ {k} : ~ Active(j)' /\ NoneBusy(j)'
  BY <1>2, <1>3 DEF Apart, Active, SoloInv, Solo, NoneBusy, Busy
<1>5. Sinking(k)' /\ Scrubbed
  BY <1>1, SinkingTurn DEF SoloInv, Solo
<1>6. \A j \in Tasks \ {k} : Sinking(j)'
  BY <1>1, <1>4, Inactive DEF CourseInv, Course, Fits, Active, Sinking, GoingDown
<1>7. \A j \in Tasks, s \in Service : Steady(j, s)'
  <2>1. ASSUME NEW s \in Service PROVE Steady(k, s)'
    <3>1. stage'[k] # "idle" /\ (part'[k] \in GoingDown => part'[k] = part[k])
      BY <1>1, <1>3, TurnNeverIdles, TurnParts DEF Active, GoingDown
    <3>2. Steady(k, s) /\ Course(k)'
      BY <1>1 DEF SoloInv, Solo, CourseInv
    <3>3. CASE job'[k][s] = job[k][s]
      BY <3>1, <3>2, <3>3 DEF Steady
    <3>4. CASE \E name \in JobName : job'[k][s] = NewJob(name)
      <4>1. job'[k][s].pc \in Pending
        BY <3>4, NewJobFields
      <4> QED BY <3>1, <3>2, <4>1 DEF Steady, Course, Busy, JobsOf, GoingDown, Pending
    <3> QED BY <1>1, <3>3, <3>4, TurnJobs
  <2> QED BY <1>2, <2>1 DEF Apart, SoloInv, Solo, Steady
<1>8. ~ Active(k)' => NoneBusy(k)'
  <2>1. stage'[k] = "idle" => stage[k] = "idle"
    BY <1>1, TurnNeverIdles
  <2>2. CASE stage'[k] = "over"
    BY <1>1, <2>2, EndsQuietly DEF SoloInv, Solo
  <2> QED BY <1>3, <2>1, <2>2 DEF Active
<1> QED BY <1>4, <1>5, <1>6, <1>7, <1>8 DEF Solo

LEMMA SoloInspect ==
  ASSUME Faults = {}, SoloInv, NEW k \in Tasks, NEW s \in Service, Inspect(k, s)
  PROVE  Solo'
<1>1. /\ UNCHANGED <<container, data, op, target, scrub, part, stage, at, job>>
      /\ seen' = [seen EXCEPT ![k][s] = container[s].state] /\ stage[k] = "inspect"
  BY DEF Inspect, Inspection, docker, asked, progress
<1>2. seen \in SeenType
  BY TypeParts DEF SoloInv, CourseInv, IInv
<1>3. \A j \in Tasks, t \in Service :
        NoHigher(container[t].state, seen[j][t]) => NoHigher(container'[t].state, seen'[j][t])
  BY <1>1, <1>2 DEF SeenType, NoHigher
<1>4. \A j \in Tasks : Sinking(j)'
  BY <1>1, <1>3 DEF SoloInv, Solo, Sinking, Behind, StoppedBy, StopsIt, GoneBy, DestroysIt, Scrubs
<1> QED BY <1>1, <1>4 DEF SoloInv, Solo, Active, NoneBusy, Busy, Steady

LEMMA SoloStep ==
  ASSUME Faults = {}, SoloInv, NEW k \in Tasks, NEW s \in Service, JobStep(k, s)
  PROVE  Solo'
<1>1. TypeOK /\ CourseInv /\ Course(k) /\ Shape(job[k][s]) /\ Solo
  BY DEF SoloInv, CourseInv, IInv
<1>2. StepsApart(k, s) /\ Busy(k, s)
  BY <1>1, JobStepApart
<1>3. /\ Active(k) /\ part[k] # "none"
      /\ \A j \in Tasks \ {k} : ~ Active(j) /\ NoneBusy(j) /\ part[j] = "none"
  BY <1>1, <1>2, Inactive DEF Solo, NoneBusy
<1>4. \A j, i \in Tasks : Active(j)' /\ Active(i)' => j = i
  BY <1>1, <1>2 DEF StepsApart, Active, Solo
<1>5. \A j \in Tasks : ~ Active(j)' => NoneBusy(j)'
  BY <1>2, <1>3 DEF StepsApart, Active, NoneBusy, Busy
<1>6. \A j \in Tasks \ {k} : Sinking(j)'
  BY <1>2, <1>3 DEF StepsApart, Sinking, GoingDown
<1>7. Sinking(k)'
  <2>1. CASE job[k][s].name \in GoingDown
    BY <1>1, <2>1, SinkingStep DEF Solo
  <2>2. CASE part[k] \notin GoingDown
    BY <1>2, <2>2 DEF StepsApart, Sinking, GoingDown
  <2> QED BY <1>2, <1>3, <2>1, <2>2, <1>1 DEF Course, JobsOf, GoingDown
<1>8. ASSUME NEW j \in Tasks, NEW t \in Service PROVE Steady(j, t)'
  <2>1. Steady(j, t)
    BY <1>1 DEF Solo
  <2>2. CASE j = k /\ t = s
    <3>1. job[k][s].name \in GoingDown => job'[k][s].pc # "failed"
      BY <1>1, DownStep
    <3> QED BY <1>2, <2>1, <2>2, <3>1 DEF StepsApart, Steady
  <2>3. CASE j # k \/ t # s
    BY <1>2, <2>1, <2>3 DEF StepsApart, Steady
  <2> QED BY <2>2, <2>3
<1> QED BY <1>4, <1>5, <1>6, <1>7, <1>8 DEF Solo

LEMMA ExitLowers ==
  ASSUME TypeOK, NEW s \in Service, ContainerExits(s)
  PROVE  /\ Lowered /\ \A t \in Service : container[t].state # "absent" => container'[t].state # "absent"
         /\ UNCHANGED <<data, registered, deployment, op, target, scrub, before,
                        part, stage, at, result, seen, job>>
<1>1. /\ container \in [Service -> Container]
      /\ container[s].state = "running" /\ container' = [container EXCEPT ![s].state = "stopped"]
  BY TypeParts DEF DockerType, ContainerExits
<1>2. \A t \in Service : /\ container'[t].id = container[t].id
                         /\ t # s => container'[t] = container[t]
                         /\ t = s => container'[t].state = "stopped"
  BY <1>1 DEF Container
<1>3. UNCHANGED <<data, registered, deployment, op, target, scrub, before,
                  part, stage, at, result, seen, job>>
  BY DEF ContainerExits, registry, asked, progress
<1> QED BY <1>1, <1>2, <1>3, ContainerState DEF Lowered, NoHigher

LEMMA SoloChanges ==
  ASSUME SoloInv, (\E s \in Service : ContainerExits(s)) \/ DeploymentChanges \/ Crash \/ UNCHANGED vars
  PROVE  Solo'
<1>1. TypeOK /\ CourseInv /\ Solo
  BY DEF SoloInv, CourseInv, IInv
<1>2. CASE \E s \in Service : ContainerExits(s)
  <2>1. /\ Lowered /\ \A t \in Service : container[t].state # "absent" => container'[t].state # "absent"
        /\ UNCHANGED <<op, target, scrub, part, stage, at, seen, job>>
    BY <1>1, <1>2, ExitLowers
  <2>2. \A j \in Tasks : Sinking(j)'
    BY <1>1, <2>1, SinkingHolds DEF Solo
  <2> QED BY <1>1, <2>1, <2>2 DEF Solo, Active, NoneBusy, Busy, Steady
<1>3. CASE Crash
  <2>1. \A j \in Tasks : part'[j] = "none" /\ ~ Active(j)'
    BY <1>3 DEF Crash, Active
  <2>2. \A j \in Tasks, s \in Service : job'[j][s].pc = "idle" /\ job'[j][s].name = "none"
    BY <1>3 DEF Crash, NoJob
  <2> QED BY <2>1, <2>2 DEF Solo, Sinking, GoingDown, Steady, NoneBusy, Busy, Pending
<1>4. CASE DeploymentChanges \/ UNCHANGED vars
  <2>1. UNCHANGED <<container, data, op, target, scrub, part, stage, at, seen, job>>
    BY <1>4 DEF DeploymentChanges, vars, docker, asked, progress
  <2> QED BY <1>1, <2>1
          DEF Solo, Active, NoneBusy, Busy, Steady, Sinking, Behind, StoppedBy, StopsIt,
              GoneBy, DestroysIt, Scrubs
<1> QED BY <1>2, <1>3, <1>4

LEMMA SoloInit ==
  ASSUME LifecycleAssumption, Init
  PROVE  SoloInv
<1>1. CourseInv
  BY CourseInit
<1>2. \A k \in Tasks : ~ Active(k) /\ NoneBusy(k) /\ part[k] = "none"
  BY DEF Init, Active, NoneBusy, Busy, NoJob, Pending
<1>3. \A k \in Tasks, s \in Service : Steady(k, s)
  BY DEF Init, Steady, NoJob
<1> QED BY <1>1, <1>2, <1>3 DEF SoloInv, Solo, Sinking, GoingDown

LEMMA SoloNext ==
  ASSUME LifecycleAssumption, MaxActive <= 1, Faults = {}, SoloInv, [Next]_vars
  PROVE  SoloInv'
<1>1. CourseInv'
  BY CourseStep DEF SoloInv
<1>2. Solo'
  <2>1. \A k \in Tasks, s \in Service : ~ Stalls(k, s)
    BY DEF Stalls
  <2> QED BY <2>1, SoloBegin, SoloTurn, SoloInspect, SoloStep, SoloChanges DEF Next
<1> QED BY <1>1, <1>2 DEF SoloInv

\* Only task_destroy deletes volumes.
LEMMA OthersKeepData ==
  ASSUME TypeOK, [Next]_vars, \A k \in Tasks : ~ TaskTurn(k) /\ ~ Ready(k)
  PROVE  data \subseteq data'
<1>1. \A k \in Tasks, s \in Service : JobStep(k, s) => data \subseteq data'
  BY DEF JobStep, Find, Post, Run, Kill, Delete, Look, Exec, Listen, docker
<1>2. \A k \in Tasks, s \in Service : Inspect(k, s) \/ Stalls(k, s) => data' = data
  BY DEF Inspect, Stalls, docker
<1> QED BY <1>1, <1>2 DEF Next, Begin, ContainerExits, DeploymentChanges, Crash, vars, docker

\* With one operator and a Docker that does what it is asked, a task deletes no
\* volume directory under a running container, whatever exits, whenever the
\* server dies, and whatever becomes of the deployment.
THEOREM ScrubsOnlyWhatIsDown ==
  ASSUME MaxActive <= 1, Faults = {}
  PROVE  Spec => ScrubbedWhileDown
<1>1. Init => SoloInv
  BY SoloInit, LifecycleAssumption
<1>2. SoloInv /\ [Next]_vars => SoloInv'
  BY SoloNext, LifecycleAssumption
<1>3. SoloInv /\ [Next]_vars => [\A s \in data \ data' : container[s].state # "running"]_vars
  <2> SUFFICES ASSUME SoloInv, [Next]_vars
               PROVE  \A s \in data \ data' : container[s].state # "running"
    OBVIOUS
  <2>1. CASE \E k \in Tasks : TaskTurn(k) \/ Ready(k)
    BY <2>1, SoloTurn, LifecycleAssumption DEF Scrubbed
  <2>2. CASE \A k \in Tasks : ~ TaskTurn(k) /\ ~ Ready(k)
    BY <2>2, OthersKeepData DEF SoloInv, CourseInv, IInv
  <2> QED BY <2>1, <2>2
<1> QED BY <1>1, <1>2, <1>3, PTL DEF Spec, ScrubbedWhileDown

-----------------------------------------------------------------------------
(* Tasks that only take down. *)

\* Nothing else has been asked for.
TakingDown == AllMeantTo({"stop", "destroy", "remove"})

\* The task has done its work on every service, whatever is left of it.
Accomplished(k) == result[k] = "Done." \/ stage[k] = "unregistering"

\* No container comes up any more: whatever the tasks do to each other helps
\* them, and what one of them has accomplished nobody undoes.
Descent ==
  /\ deployment
  /\ \A k \in Tasks, s \in Service : Busy(k, s) => job[k][s].name \in GoingDown
  /\ \A k \in Tasks : Sinking(k)
  /\ \A k \in Tasks : Accomplished(k) => \A s \in target[k] : Achieved(k, s)

\* The inductive invariant of tasks that take down.
DescentInv == CourseInv /\ (TakingDown => Descent)

\* What a task was asked to take down stays down.
LEMMA AchievedLowered ==
  ASSUME TypeOK, Lowered, NEW k \in Tasks, op[k] \in {"none", "stop", "destroy", "remove"},
         op'[k] = op[k], scrub'[k] = scrub[k], NEW s \in Service, Achieved(k, s)
  PROVE  Achieved(k, s)'
BY LowerStill DEF Achieved, Lowered, Scrubs

LEMMA SunkAchieved ==
  ASSUME NEW k \in Tasks, Course(k), part[k] \in GoingDown,
         op[k] \in {"none", "stop", "destroy", "remove"}, Sunk(k)
  PROVE  \A s \in target[k] : Achieved(k, s)
<1>1. \/ op[k] = "stop" /\ part[k] = "stop"
      \/ op[k] \in {"destroy", "remove"} /\ part[k] = "destroy"
  BY DEF Course, FirstPart, SecondPart, GoingDown
<1> QED BY <1>1 DEF Sunk, Achieved, Scrubs

LEMMA DescentKeeps ==
  ASSUME DescentInv, TakingDown, Lowered, deployment', UNCHANGED <<op, target, scrub, part, stage, at>>,
         \A k \in Tasks : result'[k] = "Done." => result[k] = "Done.",
         \A k \in Tasks, s \in Service : Busy(k, s)' => job'[k][s].name \in GoingDown,
         \A k \in Tasks : Sinking(k)'
  PROVE  Descent'
<1>1. TypeOK /\ Descent
  BY DEF DescentInv, CourseInv, IInv
<1>2. ASSUME NEW k \in Tasks, Accomplished(k)', NEW s \in target[k] PROVE Achieved(k, s)'
  <2>1. Accomplished(k) /\ s \in Service
    BY <1>1, <1>2, TypeParts DEF Accomplished, AskedType
  <2>2. Achieved(k, s)
    BY <1>1, <1>2, <2>1 DEF Descent
  <2>3. op[k] \in {"none", "stop", "destroy", "remove"}
    BY DEF TakingDown, AllMeantTo
  <2> QED BY <1>1, <2>1, <2>2, <2>3, AchievedLowered
<1> QED BY <1>2 DEF Descent

\* A turn that ends the task, or takes it to the registry, begins no job.
LEMMA EndsLaunchNothing ==
  ASSUME TypeOK, NEW k \in Tasks, TaskTurn(k) \/ Ready(k), stage'[k] \in {"over", "unregistering"}
  PROVE  job' = job
<1>1. \A t : /\ ~ SuspendAt(k, "creating", t) /\ ~ SuspendAt(k, "starting", t)
             /\ ~ SuspendAt(k, "stopping", t) /\ ~ SuspendAt(k, "gathering", t)
             /\ ~ SuspendAt(k, "waiting", t) /\ ~ SuspendAt(k, "pausing", t)
  BY TypeParts, SuspendTo
<1>2. \A last : StartNext(k, last) => job' = job
  BY <1>1 DEF StartNext
<1>3. \A last : CreateNext(k, last) => job' = job
  BY <1>1, <1>2 DEF CreateNext
<1>4. ~ StopAll(k) /\ \A ahead, down : ~ DestroyNext(k, ahead, down)
  BY <1>1 DEF StopAll, DestroyNext
<1> QED BY <1>2, <1>3, <1>4
        DEF TaskTurn, Get, Load, Loaded, JobFailed, AfterCreate, AfterStart, AfterPause,
            TimedOut, AfterStop, Gathered, Unregister, Ready, GoesOnIf

LEMMA DescentTurn ==
  ASSUME LifecycleAssumption, DescentInv, TakingDown, NEW k \in Tasks, TaskTurn(k) \/ Ready(k)
  PROVE  Descent'
<1>1. CourseInv /\ CourseInv' /\ IInv /\ Course(k) /\ TypeOK /\ Descent
  BY CourseTurn DEF DescentInv, CourseInv, IInv
<1>2. /\ Apart(k) /\ UNCHANGED <<container, deployment, op, target, scrub>>
      /\ op[k] \in {"none", "stop", "destroy", "remove"} /\ target[k] \subseteq Service
  BY <1>1, TurnApart, TypeParts DEF TakingDown, AllMeantTo, AskedType
<1>3. /\ Sinking(k)' /\ Scrubbed
      /\ part'[k] = part[k] \/ result'[k] = "failure" \/ ~ deployment \/ Sunk(k)
  BY <1>1, SinkingTurn DEF Descent
<1>4. Lowered
  BY <1>1, <1>2, <1>3, ContainerState DEF Scrubbed, Lowered, NoHigher
<1>5. \A j \in Tasks \ {k} : Sinking(j)'
  BY <1>1, <1>2, <1>4, SinkingHolds DEF Apart, Descent
<1>6. ASSUME NEW j \in Tasks, NEW s \in Service, Busy(j, s)' PROVE job'[j][s].name \in GoingDown
  <2>1. CASE j = k
    <3>1. Course(k)' /\ (part'[k] \in GoingDown \/ part'[k] = "none" \/ part'[k] = "unregister"
                         \/ part'[k] \in {"create", "start"})
      BY <1>1 DEF CourseInv, Course, Fits, GoingDown
    <3>2. part'[k] \notin {"create", "start"}
      BY <1>1, <1>2, <3>1 DEF Course, FirstPart, SecondPart
    <3>3. CASE part'[k] \in GoingDown
      BY <1>6, <2>1, <3>1, <3>3 DEF Course, JobsOf, GoingDown
    <3>4. CASE part'[k] \notin GoingDown
      <4>1. stage'[k] # "idle"
        BY <1>1, TurnActive, TurnNeverIdles DEF Active
      <4>2. stage'[k] \in {"over", "unregistering"}
        BY <3>1, <3>2, <3>4, <4>1 DEF Course, Fits, GoingDown
      <4>3. job'[k][s] = job[k][s] \/ \E name \in JobName : job'[k][s] = NewJob(name)
        BY <1>1, TurnJobs
      <4>4. job' = job
        BY <1>1, <4>2, EndsLaunchNothing
      <4> QED BY <1>1, <1>6, <2>1, <4>4 DEF Descent, Busy
    <3> QED BY <3>3, <3>4
  <2>2. CASE j # k
    BY <1>1, <1>2, <1>6, <2>2 DEF Apart, Descent, Busy
  <2> QED BY <2>1, <2>2
<1>7. ASSUME NEW j \in Tasks, Accomplished(j)' PROVE \A s \in target[j] : Achieved(j, s)'
  <2>1. op[j] \in {"none", "stop", "destroy", "remove"} /\ target[j] \subseteq Service
    BY <1>1, TypeParts DEF TakingDown, AllMeantTo, AskedType
  <2>2. CASE Accomplished(j)
    BY <1>1, <1>2, <1>4, <2>1, <2>2, AchievedLowered DEF Descent
  <2>3. CASE ~ Accomplished(j)
    <3>1. j = k /\ result'[k] # "failure"
      BY <1>1, <1>2, <1>7, <2>3 DEF Apart, Accomplished, CourseInv, IInv, JobsSuit
    <3>2. part[k] \in GoingDown
      BY <1>1, <1>2, <2>3, <3>1, TurnActive
         DEF Accomplished, Course, Fits, FirstPart, SecondPart, GoingDown, Active
    <3>3. part'[k] # part[k]
      BY <1>1, <1>7, <3>1, <3>2
         DEF Accomplished, CourseInv, IInv, JobsSuit, Course, Fits, GoingDown
    <3>4. \A s \in target[k] : Achieved(k, s)
      BY <1>1, <1>2, <1>3, <3>1, <3>2, <3>3, SunkAchieved DEF Descent
    <3> QED BY <1>1, <1>2, <1>4, <2>1, <3>1, <3>4, AchievedLowered
  <2> QED BY <2>2, <2>3
<1> QED BY <1>1, <1>2, <1>3, <1>5, <1>6, <1>7 DEF Descent

LEMMA DescentStep ==
  ASSUME Faults = {}, DescentInv, TakingDown, NEW k \in Tasks, NEW s \in Service,
         JobStep(k, s) \/ Inspect(k, s)
  PROVE  Descent'
<1>1. TypeOK /\ CourseInv /\ Shape(job[k][s]) /\ Descent
  BY DEF DescentInv, CourseInv, IInv
<1>2. CASE JobStep(k, s)
  <2>1. StepsApart(k, s) /\ Busy(k, s)
    BY <1>1, <1>2, JobStepApart
  <2>2. job[k][s].name \in GoingDown
    BY <1>1, <2>1 DEF Descent
  <2>3. Lowered /\ data' = data
    BY <1>1, <1>2, <2>2, DownStep
  <2>4. ASSUME NEW j \in Tasks PROVE Sinking(j)'
    <3>1. CASE j = k
      BY <1>1, <1>2, <2>2, <3>1, SinkingStep DEF Descent
    <3>2. CASE j # k
      <4>1. job \in JobType /\ seen \in SeenType
        BY <1>1, TypeParts
      <4>2. job'[j] = job[j] /\ seen'[j] = seen[j]
        BY <1>2, <3>2, <4>1 DEF JobStep, Find, Post, Run, Kill, Delete, Look, Exec, Listen, Call,
                                MovesJob, JobType, SeenType
      <4> QED BY <1>1, <2>1, <2>3, <4>2, SinkingHolds DEF StepsApart, Descent
    <3> QED BY <3>1, <3>2
  <2>5. \A j \in Tasks, t \in Service : Busy(j, t)' => job'[j][t].name \in GoingDown
    BY <1>1, <2>1, <2>2 DEF StepsApart, Busy, Descent
  <2> QED BY <1>1, <2>1, <2>3, <2>4, <2>5, DescentKeeps DEF StepsApart, Descent
<1>3. CASE Inspect(k, s)
  <2>1. /\ UNCHANGED <<container, data, deployment, op, target, scrub, part, stage, at, job, result>>
        /\ seen' = [seen EXCEPT ![k][s] = container[s].state]
    BY <1>3 DEF Inspect, Inspection, docker, registry, asked, progress
  <2>2. seen \in SeenType
    BY <1>1, TypeParts
  <2>3. \A j \in Tasks, t \in Service :
          NoHigher(container[t].state, seen[j][t]) => NoHigher(container'[t].state, seen'[j][t])
    BY <2>1, <2>2 DEF SeenType, NoHigher
  <2>4. \A j \in Tasks : Sinking(j)'
    BY <1>1, <2>1, <2>3 DEF Descent, Sinking, Behind, StoppedBy, StopsIt, GoneBy, DestroysIt, Scrubs
  <2>5. Lowered
    BY <1>1, <2>1, ContainerState DEF Lowered, NoHigher
  <2> QED BY <1>1, <2>1, <2>4, <2>5, DescentKeeps DEF Descent, Busy
<1> QED BY <1>2, <1>3

LEMMA DescentBegin ==
  ASSUME LifecycleAssumption, DescentInv, NEW k \in Tasks, Begin(k), TakingDown'
  PROVE  Descent'
<1>1. TypeOK /\ CourseInv /\ IInv
  BY DEF DescentInv, CourseInv, IInv
<1>2. PICK o \in Operations, S \in SUBSET Service : BeginsWith(k, o, S)
  BY <1>1, BeginForm
<1>3. stage[k] = "idle" /\ op[k] = "none" /\ result[k] # "Done."
  BY <1>1, BeginForm DEF CourseInv, NotAskedYet, IInv, JobsSuit
<1>4. TakingDown
  BY <1>2, <1>3 DEF TakingDown, AllMeantTo, BeginsWith
<1>5. Descent
  BY <1>4 DEF DescentInv
<1>6. \A j \in Tasks : Sinking(j)'
  BY <1>2, <1>5 DEF BeginsWith, Descent, Sinking, GoingDown, Behind, StoppedBy, StopsIt,
                    GoneBy, DestroysIt, Scrubs
<1>7. ASSUME NEW j \in Tasks, Accomplished(j)', NEW s \in target'[j] PROVE Achieved(j, s)'
  <2>1. j # k /\ Accomplished(j)
    BY <1>2, <1>3, <1>7 DEF BeginsWith, Accomplished
  <2> QED BY <1>2, <1>5, <1>7, <2>1 DEF BeginsWith, Descent, Achieved, Scrubs
<1> QED BY <1>2, <1>5, <1>6, <1>7 DEF Descent, BeginsWith, Busy

LEMMA DescentChanges ==
  ASSUME DescentInv, TakingDown, (\E s \in Service : ContainerExits(s)) \/ Crash \/ UNCHANGED vars
  PROVE  Descent'
<1>1. TypeOK /\ CourseInv /\ Descent
  BY DEF DescentInv, CourseInv, IInv
<1>2. CASE \E s \in Service : ContainerExits(s)
  <2>1. /\ Lowered /\ UNCHANGED <<data, deployment, op, target, scrub, part, stage, at, result, seen, job>>
    BY <1>1, <1>2, ExitLowers
  <2>2. \A j \in Tasks : Sinking(j)'
    BY <1>1, <2>1, SinkingHolds DEF Descent
  <2> QED BY <1>1, <2>1, <2>2, DescentKeeps DEF Descent, Busy
<1>3. CASE Crash
  <2>1. /\ \A j \in Tasks : part'[j] = "none" /\ stage'[j] # "unregistering"
        /\ UNCHANGED <<container, data, deployment, op, target, scrub>>
        /\ \A j \in Tasks : result'[j] = "Done." => result[j] = "Done."
    BY <1>3 DEF Crash, Active, docker, registry, asked
  <2>2. \A j \in Tasks, s \in Service : job'[j][s].pc = "idle"
    BY <1>3 DEF Crash, NoJob
  <2>3. \A j \in Tasks : Sinking(j)'
    BY <2>1 DEF Sinking, GoingDown
  <2>4. ASSUME NEW j \in Tasks, Accomplished(j)', NEW s \in target'[j] PROVE Achieved(j, s)'
    <3>1. Accomplished(j) /\ s \in target[j]
      BY <2>1, <2>4 DEF Accomplished
    <3>2. Achieved(j, s)
      BY <1>1, <3>1 DEF Descent
    <3> QED BY <2>1, <3>2 DEF Achieved, Scrubs
  <2> QED BY <1>1, <2>1, <2>2, <2>3, <2>4 DEF Descent, Busy, Pending
<1>4. CASE UNCHANGED vars
  <2>1. UNCHANGED <<container, data, deployment, op, target, scrub, part, stage, at, result, seen, job>>
    BY <1>4 DEF vars, docker, registry, asked, progress
  <2>2. Lowered
    BY <1>1, <2>1, ContainerState DEF Lowered, NoHigher
  <2>3. \A j \in Tasks : Sinking(j)'
    BY <1>1, <2>1, <2>2, SinkingHolds DEF Descent
  <2> QED BY <1>1, <2>1, <2>2, <2>3, DescentKeeps DEF Descent, Busy
<1> QED BY <1>2, <1>3, <1>4

LEMMA DescentInit ==
  ASSUME LifecycleAssumption, Init
  PROVE  DescentInv
<1>1. CourseInv
  BY CourseInit
<1>2. \A k \in Tasks : part[k] = "none" /\ stage[k] = "idle" /\ result[k] = "none"
  BY DEF Init
<1>3. \A k \in Tasks, s \in Service : ~ Busy(k, s)
  BY DEF Init, Busy, NoJob, Pending
<1> QED BY <1>1, <1>2, <1>3 DEF DescentInv, Descent, Sinking, GoingDown, Accomplished, Init

\* Only a beginning asks for anything.
LEMMA AsksNothing ==
  ASSUME [Next]_vars, \A k \in Tasks : ~ Begin(k)
  PROVE  UNCHANGED op
<1>1. \A k \in Tasks : TaskTurn(k) \/ Ready(k) => op' = op
  BY DEF TaskTurn, Get, Load, Loaded, JobFailed, AfterCreate, AfterStart, AfterPause, TimedOut,
         AfterStop, Gathered, Unregister, Ready, asked
<1>2. \A k \in Tasks, s \in Service : JobStep(k, s) => op' = op
  BY DEF JobStep, Find, Post, Run, Kill, Delete, Look, Exec, Listen, asked
<1>3. \A k \in Tasks, s \in Service : Inspect(k, s) \/ Stalls(k, s) => op' = op
  BY DEF Inspect, Stalls, asked
<1> QED BY <1>1, <1>2, <1>3 DEF Next, ContainerExits, DeploymentChanges, Crash, vars, asked

LEMMA DescentNext ==
  ASSUME LifecycleAssumption, Faults = {}, "deployment" \notin Changes, DescentInv, [Next]_vars
  PROVE  DescentInv'
<1>1. CourseInv'
  BY CourseStep DEF DescentInv
<1>2. ASSUME TakingDown' PROVE Descent'
  <2>1. CASE \E k \in Tasks : Begin(k)
    BY <1>2, <2>1, DescentBegin
  <2>2. CASE \A k \in Tasks : ~ Begin(k)
    <3>1. TakingDown
      BY <1>2, <2>2, AsksNothing DEF TakingDown, AllMeantTo
    <3>2. ~ DeploymentChanges /\ \A k \in Tasks, s \in Service : ~ Stalls(k, s)
      BY DEF DeploymentChanges, Stalls
    <3> QED BY <2>2, <3>1, <3>2, DescentTurn, DescentStep, DescentChanges DEF Next
  <2> QED BY <2>1, <2>2
<1> QED BY <1>1, <1>2 DEF DescentInv

-----------------------------------------------------------------------------
(* On the way up: the parts that create and start. *)

\* The job brings the container of s up.
StartsIt(k, s) ==
  LET j == job[k][s]
      c == container[s]
  IN /\ j.name = "start"
     /\ \/ j.pc \in {"find", "post"}
        \/ j.pc \in {"created", "refind"} /\ c.state # "absent"
        \/ j.pc \in {"image", "run"} /\ c.state # "absent" /\ j.id = c.id

\* The task is on the way to start s.
WillStart(k, s) ==
  /\ part[k] = "start"
  /\ \/ stage[k] \in {"get", "deployment"}
     \/ stage[k] \in {"inspect", "creating"} /\ seen[k][s] # "running"
     \/ stage[k] \in {"starting", "waiting", "pausing"} /\ s > at[k] /\ seen[k][s] # "running"
     \/ stage[k] = "starting" /\ s = at[k] /\ StartsIt(k, s)

\* The task is on the way to create s.
WillCreate(k, s) ==
  /\ part[k] = "create"
  /\ \/ stage[k] \in {"get", "deployment"}
     \/ stage[k] = "inspect" /\ seen[k][s] \in {"unknown", "absent"}
     \/ stage[k] = "creating" /\ s > at[k] /\ seen[k][s] = "absent"
     \/ stage[k] = "creating" /\ s = at[k] /\ job[k][s].name = "create" /\ job[k][s].pc = "post"

\* What task k is to do to s is done, or the task is on the way to it.
StartedBy(k, s) == container[s].state = "running" \/ WillStart(k, s)
CreatedBy(k, s) == container[s].state # "absent" \/ WillCreate(k, s)

\* Whatever others bring up, a task goes on to what it was asked for.
LEMMA RisingHolds ==
  ASSUME Raised, NEW k \in Tasks, NEW s \in Service,
         part'[k] = part[k], stage'[k] = stage[k], at'[k] = at[k],
         seen'[k][s] = seen[k][s], job'[k][s] = job[k][s]
  PROVE  /\ StartedBy(k, s) => StartedBy(k, s)'
         /\ CreatedBy(k, s) => CreatedBy(k, s)'
         /\ WillStart(k, s) => WillStart(k, s)'
<1>1. StartsIt(k, s) => StartsIt(k, s)'
  BY DEF Raised, StartsIt
<1>2. WillStart(k, s) => WillStart(k, s)'
  BY <1>1 DEF WillStart
<1>3. WillCreate(k, s) => WillCreate(k, s)'
  BY DEF WillCreate
<1> QED BY <1>2, <1>3 DEF StartedBy, CreatedBy, Raised

LEMMA StartsItStep ==
  ASSUME Faults = {}, TypeOK, NEW k \in Tasks, NEW s \in Service, Shape(job[k][s]),
         JobStep(k, s), StartsIt(k, s)
  PROVE  container'[s].state = "running" \/ StartsIt(k, s)'
<1> DEFINE j == job[k][s]
           n == job'[k][s]
           c == container[s]
<1>0. /\ c \in Container /\ c.state \in State /\ c.id \in Nat /\ job \in JobType
      /\ n.name = j.name /\ j.name = "start"
  BY ContainerState, JobStepApart, TypeParts DEF DockerType, StepsApart, StartsIt
<1>1. CASE Find(k, s)
  <2>1. LET known == IF c.state = "absent" THEN 0 ELSE c.id
        IN MovesJob(k, s, AfterFind(j.name, j.pc, known), known)
    BY <1>1 DEF Find
  <2>2. /\ n.pc = AfterFind(j.name, j.pc, IF c.state = "absent" THEN 0 ELSE c.id)
        /\ n.id = IF c.state = "absent" THEN 0 ELSE c.id
        /\ j.pc \in {"find", "refind"} /\ UNCHANGED container
    BY <1>0, <1>1, <2>1, MovesJobTo DEF Find, docker
  <2>3. CASE c.state = "absent"
    BY <1>0, <2>2, <2>3 DEF StartsIt, AfterFind
  <2>4. CASE c.state # "absent"
    BY <1>0, <2>2, <2>4 DEF StartsIt, AfterFind
  <2> QED BY <2>3, <2>4
<1>2. CASE Post(k, s)
  <2>1. Created(c) \in Container /\ Created(c).state # "absent"
    BY <1>0 DEF Created, Container, State
  <2>2. container'[s] = Created(c) /\ n.pc = "created"
    BY <1>2, <2>1, AnsweredCall DEF Post
  <2> QED BY <1>0, <2>1, <2>2 DEF StartsIt
<1>3. CASE Run(k, s)
  <2> DEFINE d == IF c.id = j.id /\ c.state # "absent" THEN [c EXCEPT !.state = "running"] ELSE c
  <2>1. d \in Container
    BY <1>0 DEF Container, State
  <2>2. container'[s] = d
    BY <1>3, <2>1, AnsweredCall DEF Run
  <2>3. c.id = j.id /\ c.state # "absent"
    BY <1>3 DEF Run, StartsIt
  <2>4. d.state = "running"
    BY <1>0, <2>3 DEF Container
  <2> QED BY <2>2, <2>4
<1>4. CASE Look(k, s)
  <2>1. /\ n.pc = AfterLook(j.name, j.pc, s, c.state) /\ n.id = j.id
        /\ j.pc \in {"created", "image"} /\ UNCHANGED container
    BY <1>0, <1>4, MovesJobTo DEF Look, Inspection, docker, StartsIt
  <2> QED BY <1>0, <2>1 DEF StartsIt, AfterLook
<1>5. ~ Kill(k, s) /\ ~ Delete(k, s) /\ ~ Exec(k, s) /\ ~ Listen(k, s)
  BY DEF Kill, Delete, Exec, Listen, StartsIt
<1> QED BY <1>1, <1>2, <1>3, <1>4, <1>5 DEF JobStep

\* A job that creates or starts disturbs nobody who does, and goes on itself.
LEMMA RisingStep ==
  ASSUME Faults = {}, TypeOK, NEW j \in Tasks, NEW t \in Service, Shape(job[j][t]),
         job[j][t].name \notin GoingDown, JobStep(j, t), NEW k \in Tasks, NEW s \in Service
  PROVE  /\ StartedBy(k, s) => StartedBy(k, s)'
         /\ CreatedBy(k, s) => CreatedBy(k, s)'
<1>1. Raised /\ StepsApart(j, t) /\ seen'[j][t] \in {seen[j][t], container[t].state}
  BY UpStep, JobStepApart
<1>2. CASE k # j \/ s # t
  BY <1>1, <1>2, RisingHolds DEF StepsApart
<1>3. CASE k = j /\ s = t
  <2>1. StartsIt(k, s) => container'[s].state = "running" \/ StartsIt(k, s)'
    BY <1>3, StartsItStep
  <2>2. StartedBy(k, s) => StartedBy(k, s)'
    BY <1>1, <1>3, <2>1 DEF Raised, StepsApart, StartedBy, WillStart
  <2>3. CASE job[k][s].pc = "post"
    <3>1. container'[s].state # "absent"
      <4>1. Post(k, s) /\ container[s] \in Container
        BY <1>3, <2>3, TypeParts DEF JobStep, Find, Run, Kill, Delete, Look, Exec, Listen, DockerType
      <4>2. Created(container[s]) \in Container /\ Created(container[s]).state # "absent"
        BY <4>1 DEF Created, Container, State
      <4> QED BY <4>1, <4>2, AnsweredCall DEF Post
    <3> QED BY <2>2, <3>1 DEF CreatedBy
  <2>4. CASE job[k][s].pc # "post"
    BY <1>1, <1>3, <2>2, <2>4 DEF Raised, StepsApart, CreatedBy, WillCreate
  <2> QED BY <2>2, <2>3, <2>4
<1> QED BY <1>2, <1>3

LEMMA RisingInspect ==
  ASSUME Faults = {}, TypeOK, NEW j \in Tasks, NEW t \in Service, Inspect(j, t),
         NEW k \in Tasks, NEW s \in Service
  PROVE  /\ StartedBy(k, s) => StartedBy(k, s)'
         /\ CreatedBy(k, s) => CreatedBy(k, s)'
         /\ ~ (k = j /\ s = t) => seen'[k][s] = seen[k][s]
         /\ seen'[j][t] = container[t].state
         /\ UNCHANGED <<container, data, registered, deployment, op, target, scrub, before,
                        part, stage, at, result, job>>
<1>1. /\ UNCHANGED <<container, data, registered, deployment, op, target, scrub, before,
                     part, stage, at, result, job>>
      /\ seen' = [seen EXCEPT ![j][t] = container[t].state] /\ stage[j] = "inspect"
  BY DEF Inspect, Inspection, docker, registry, asked, progress
<1>2. /\ seen'[j][t] = container[t].state
      /\ ~ (k = j /\ s = t) => seen'[k][s] = seen[k][s]
  BY <1>1, TypeParts DEF SeenType
<1>3. Raised
  BY <1>1 DEF Raised
<1>4. CASE ~ (k = j /\ s = t)
  BY <1>1, <1>2, <1>3, <1>4, RisingHolds
<1>5. CASE k = j /\ s = t
  BY <1>1, <1>2, <1>5 DEF StartedBy, CreatedBy, WillStart, WillCreate
<1> QED BY <1>1, <1>2, <1>4, <1>5

\* The loop of task_start comes to every service ahead that did not run.
LEMMA StartNextRises ==
  ASSUME TypeOK, NEW k \in Tasks, part[k] = "start", NEW last \in Nat, StartNext(k, last),
         NEW s \in target[k], s > last, seen[k][s] # "running", seen'[k][s] = seen[k][s]
  PROVE  WillStart(k, s)'
<1> DEFINE down == {t \in target[k] : t > last /\ seen[k][t] # "running"}
<1>0. ProgressType /\ job \in JobType /\ target[k] \subseteq Service /\ s \in down
  BY TypeParts DEF AskedType
<1>1. PICK m \in down : First(down, m) /\ Launch(k, {m}, "start") /\ SuspendAt(k, "starting", m)
  BY <1>0 DEF StartNext
<1>2. stage'[k] = "starting" /\ at'[k] = m /\ part'[k] = "start"
  BY <1>0, <1>1, SuspendTo
<1>3. s = m \/ s > m
  BY <1>0, <1>1 DEF First, Service
<1>4. CASE s = m
  <2>1. job'[k][s] = NewJob("start")
    BY <1>0, <1>1, <1>4, LaunchApart
  <2> QED BY <1>2, <1>4, <2>1 DEF WillStart, StartsIt, NewJob
<1> QED BY <1>2, <1>3, <1>4 DEF WillStart

LEMMA CreateNextRises ==
  ASSUME TypeOK, NEW k \in Tasks, part[k] \in {"create", "start"}, NEW last \in Nat, CreateNext(k, last),
         NEW s \in target[k], UNCHANGED seen
  PROVE  /\ part[k] = "start" /\ seen[k][s] # "running" => WillStart(k, s)'
         /\ part[k] = "create" /\ s > last /\ seen[k][s] = "absent" => WillCreate(k, s)'
<1> DEFINE missing == {t \in target[k] : t > last /\ seen[k][t] = "absent"}
<1>0. ProgressType /\ job \in JobType /\ target[k] \subseteq Service /\ s > 0
  BY TypeParts DEF AskedType, Service
<1>1. CASE \E m \in missing : First(missing, m) /\ Launch(k, {m}, "create") /\ SuspendAt(k, "creating", m)
  <2>1. PICK m \in missing : First(missing, m) /\ Launch(k, {m}, "create") /\ SuspendAt(k, "creating", m)
    BY <1>1
  <2>2. stage'[k] = "creating" /\ at'[k] = m /\ part'[k] = part[k]
    BY <1>0, <2>1, SuspendTo
  <2>3. s \in missing => s = m \/ s > m
    BY <1>0, <2>1 DEF First, Service
  <2>4. s = m => job'[k][s] = NewJob("create")
    BY <1>0, <2>1, LaunchApart
  <2> QED BY <2>2, <2>3, <2>4 DEF WillStart, WillCreate, NewJob
<1>2. CASE missing = {} /\ part[k] = "start" /\ StartNext(k, 0)
  BY <1>0, <1>2, StartNextRises
<1>3. CASE missing = {} /\ part[k] = "create"
  BY <1>3
<1> QED BY <1>1, <1>2, <1>3 DEF CreateNext

\* Operations whose second part is task_start, and all that end with it.
Restarts == {"restart", "rebuild"}
Starts == {"start", "restart", "rebuild"}

\* A turn of a task that creates or starts leaves no service behind, unless
\* the task gives up.
LEMMA RisingTurn ==
  ASSUME IInv, NEW k \in Tasks, Course(k), TaskTurn(k) \/ Ready(k), NEW s \in target[k]
  PROVE  /\ StartedBy(k, s) => StartedBy(k, s)' \/ result'[k] \in {"failure", "False"}
         /\ CreatedBy(k, s) => CreatedBy(k, s)' \/ result'[k] = "failure"
<1>0. /\ TypeOK /\ ProgressType /\ AskedType /\ job \in JobType /\ seen \in SeenType
      /\ target[k] \subseteq Service /\ s \in Service /\ UNCHANGED container /\ at[k] \in Nat
  BY TypeParts, TurnApart DEF IInv, AskedType, ProgressType, AtType, Service
<1>b. \A r : Over(k, r) => result'[k] = r
  BY <1>0 DEF Over, ProgressType, ResultType
<1>c. \A g, t : SuspendAt(k, g, t) => stage'[k] = g /\ at'[k] = t /\ part' = part
  BY <1>0, SuspendTo
<1>d. s > 0
  BY <1>0 DEF Service
<1>1. CASE Get(k)
  <2>1. CASE stage' = [stage EXCEPT ![k] = "deployment"] /\ UNCHANGED part
    BY <1>0, <1>1, <2>1 DEF Get, WillStart, WillCreate, ProgressType, StageType, StartedBy, CreatedBy
  <2> QED BY <1>1, <1>b, <2>1 DEF Get
<1>2. CASE Load(k)
  <2>1. CASE deployment
    <3>1. stage'[k] = "inspect" /\ part' = part /\ seen'[k][s] = "unknown"
      BY <1>0, <1>2, <2>1 DEF Load, ProgressType, StageType, SeenType
    <3> QED BY <1>0, <1>2, <3>1 DEF WillStart, WillCreate, StartedBy, CreatedBy
  <2>2. CASE ~ deployment /\ part[k] # "destroy"
    BY <1>2, <1>b, <2>2 DEF Load
  <2>3. CASE part[k] = "destroy"
    BY <1>0, <2>3 DEF WillStart, WillCreate, StartedBy, CreatedBy
  <2> QED BY <2>1, <2>2, <2>3
<1>3. CASE Loaded(k)
  <2>1. CASE part[k] \in {"create", "start"}
    <3>1. CreateNext(k, 0) /\ UNCHANGED seen /\ stage[k] = "inspect" /\ seen[k][s] # "unknown"
      BY <1>0, <1>3, <2>1 DEF Loaded, Inspected, State
    <3>2. /\ part[k] = "start" /\ seen[k][s] # "running" => WillStart(k, s)'
          /\ part[k] = "create" /\ s > 0 /\ seen[k][s] = "absent" => WillCreate(k, s)'
      BY <1>0, <2>1, <3>1, CreateNextRises
    <3> QED BY <1>0, <1>d, <3>1, <3>2 DEF WillStart, WillCreate, StartedBy, CreatedBy
  <2>2. CASE part[k] \notin {"create", "start"}
    BY <1>0, <2>2 DEF WillStart, WillCreate, StartedBy, CreatedBy
  <2> QED BY <2>1, <2>2
<1>4. CASE JobFailed(k)
  BY <1>4, <1>b DEF JobFailed
<1>5. CASE AfterCreate(k)
  <2>1. /\ CreateNext(k, at[k]) /\ UNCHANGED seen /\ stage[k] = "creating"
        /\ job[k][at[k]].pc = "done" /\ part[k] \in {"create", "start"}
    BY <1>5 DEF AfterCreate, JobEnded, Course, Fits
  <2>2. /\ part[k] = "start" /\ seen[k][s] # "running" => WillStart(k, s)'
        /\ part[k] = "create" /\ s > at[k] /\ seen[k][s] = "absent" => WillCreate(k, s)'
    BY <1>0, <2>1, CreateNextRises
  <2> QED BY <1>0, <2>1, <2>2 DEF WillStart, WillCreate, StartedBy, CreatedBy
<1>6. CASE AfterStart(k)
  <2>1. /\ UNCHANGED seen /\ stage[k] = "starting" /\ job[k][at[k]].pc = "done" /\ part[k] = "start"
        /\ ~ StartsIt(k, at[k])
    BY <1>6 DEF AfterStart, JobEnded, Course, Fits, StartsIt
  <2>2. s > at[k] /\ seen[k][s] # "running" => WillStart(k, s)'
    <3>1. CASE SuspendAt(k, "waiting", at[k])
      BY <1>0, <1>c, <2>1, <3>1 DEF WillStart
    <3>2. CASE StartNext(k, at[k])
      BY <1>0, <2>1, <3>2, StartNextRises
    <3> QED BY <1>6, <3>1, <3>2 DEF AfterStart
  <2> QED BY <1>0, <2>1, <2>2 DEF WillStart, WillCreate, StartedBy, CreatedBy
<1>7. CASE Ready(k) \/ AfterPause(k) \/ TimedOut(k)
  <2>1. stage[k] \in {"waiting", "pausing"} /\ part[k] = "start" /\ at[k] \in Service
    BY <1>0, <1>7 DEF Ready, AfterPause, TimedOut, Course, Fits, IInv, JobsSuit, Waits
  <2>2. s > at[k] => seen'[k][s] = seen[k][s]
    <3>1. seen' = seen \/ \E found : seen' = [seen EXCEPT ![k][at[k]] = found]
      BY <1>7 DEF Ready, AfterPause, TimedOut
    <3>2. s > at[k] => s # at[k]
      BY <1>0 DEF Service
    <3> QED BY <1>0, <3>1, <3>2 DEF SeenType
  <2>3. CASE s > at[k] /\ seen[k][s] # "running"
    <3>1. CASE SuspendAt(k, "pausing", at[k])
      BY <1>0, <1>c, <2>1, <2>2, <2>3, <3>1 DEF WillStart, StartedBy, CreatedBy, WillCreate
    <3>2. CASE StartNext(k, at[k])
      <4>1. WillStart(k, s)'
        BY <1>0, <2>1, <2>2, <2>3, <3>2, StartNextRises
      <4> QED BY <1>0, <2>1, <4>1 DEF StartedBy, CreatedBy, WillCreate
    <3>3. CASE Over(k, "False") \/ Over(k, "failure")
      BY <1>0, <1>b, <2>1, <3>3 DEF CreatedBy, WillCreate
    <3> QED BY <1>7, <3>1, <3>2, <3>3 DEF Ready, AfterPause, TimedOut, GoesOnIf
  <2>4. CASE ~ (s > at[k] /\ seen[k][s] # "running")
    BY <1>0, <2>1, <2>4 DEF WillStart, StartedBy, CreatedBy, WillCreate
  <2> QED BY <2>3, <2>4
<1>8. CASE AfterStop(k) \/ Gathered(k) \/ Unregister(k)
  <2>1. part[k] \notin {"create", "start"}
    BY <1>8 DEF AfterStop, Gathered, Unregister, JobEnded, Course, Fits
  <2> QED BY <1>0, <2>1 DEF WillStart, WillCreate, StartedBy, CreatedBy
<1> QED BY <1>1, <1>2, <1>3, <1>4, <1>5, <1>6, <1>7, <1>8 DEF TaskTurn

\* A restart that is done with its first part goes on to start.
LEMMA RestartTurn ==
  ASSUME IInv, NEW k \in Tasks, Course(k), TaskTurn(k) \/ Ready(k), op[k] \in Restarts,
         part[k] \in GoingDown
  PROVE  part'[k] = part[k] \/ result'[k] = "failure" \/ (part'[k] = "start" /\ stage'[k] = "get")
<1>0. ProgressType
  BY TypeParts DEF IInv
<1>b. \A r : Over(k, r) => result'[k] = r
  BY <1>0 DEF Over, ProgressType, ResultType
<1>c. \A r : PartEnds(k, r) => part'[k] = "start" /\ stage'[k] = "get"
  BY <1>0, PartEndsTo DEF SecondPart, Restarts, GoingDown
<1>d. \A g, t : SuspendAt(k, g, t) => part' = part
  BY DEF SuspendAt
<1>1. CASE Get(k) \/ Load(k)
  BY <1>1, <1>b, <1>c DEF Get, Load
<1>2. CASE Loaded(k) \/ AfterStop(k)
  BY <1>2, <1>d DEF Loaded, AfterStop, DestroyNext, StopAll, GoingDown
<1>3. CASE JobFailed(k) \/ Gathered(k)
  BY <1>3, <1>b, <1>c DEF JobFailed, Gathered
<1>4. ~ AfterCreate(k) /\ ~ AfterStart(k) /\ ~ Ready(k) /\ ~ AfterPause(k) /\ ~ TimedOut(k) /\ ~ Unregister(k)
  BY DEF AfterCreate, AfterStart, Ready, AfterPause, TimedOut, Unregister, JobEnded, Course, Fits, GoingDown
<1> QED BY <1>1, <1>2, <1>3, <1>4 DEF TaskTurn

-----------------------------------------------------------------------------
(* Tasks that only bring up. *)

\* Nothing else has been asked for.
BringingUp == AllMeantTo({"create", "start", "restart", "rebuild"})

\* Every restart and rebuild has got to the end, or is on its way.
Unbroken == \A k \in Tasks : op[k] \in Restarts => result[k] \in {"none", "Done."}

\* The task has yet to find out that it is to start s again.
Debtor(k, s) ==
  /\ op[k] \in Restarts /\ s \in target[k]
  /\ \/ part[k] \in GoingDown
     \/ stage[k] \in {"get", "deployment"}
     \/ stage[k] = "inspect" /\ seen[k][s] = "unknown"

\* The task has found out, and is on the way to it.
Redeemer(k, s) == op[k] \in Restarts /\ s \in target[k] /\ WillStart(k, s)

\* What is down, some task is about to bring up again.
Mending(s) == \E k \in Tasks : Debtor(k, s) \/ Redeemer(k, s)

\* An operation of ops concerns s and has not failed.
Claims(k, s, ops) == op[k] \in ops /\ s \in target[k] /\ result[k] \in {"none", "Done."}

\* Each task that has not failed has brought s up, or will.
Settled(s) ==
  \A k \in Tasks : /\ Claims(k, s, Starts) => StartedBy(k, s)
                   /\ Claims(k, s, {"create"}) => CreatedBy(k, s)

\* Restarts take services down under others.  Yet a service is either as each
\* task relies on, or some restart owes it a start: from the stop on it is a
\* debtor, until its second inspection shows the service down and makes it a
\* redeemer, or up, by whoever started it.
Ascent ==
  /\ \A k \in Tasks, s \in Service : Busy(k, s) /\ job[k][s].name \in GoingDown => part[k] \in GoingDown
  /\ \A s \in Service : Mending(s) \/ Settled(s)

\* The inductive invariant of tasks that bring up.
AscentInv == CourseInv /\ (BringingUp /\ Unbroken => Ascent)

LEMMA RunningSettled ==
  ASSUME NEW s, container[s].state = "running"
  PROVE  Settled(s)
BY DEF Settled, StartedBy, CreatedBy

\* Only a restart or a rebuild takes anything down.
LEMMA OnlyRestarts ==
  ASSUME NEW k \in Tasks, Course(k), BringingUp, part[k] \in GoingDown
  PROVE  op[k] \in Restarts
BY DEF Course, FirstPart, SecondPart, BringingUp, AllMeantTo, GoingDown, Restarts

LEMMA DebtorTurn ==
  ASSUME IInv, NEW k \in Tasks, Course(k), TaskTurn(k) \/ Ready(k), UNCHANGED <<op, target>>,
         NEW s \in Service, Debtor(k, s), result'[k] # "failure"
  PROVE  Debtor(k, s)'
<1>0. ProgressType /\ seen \in SeenType
  BY TypeParts DEF IInv
<1>1. CASE part[k] \in GoingDown
  <2>1. part'[k] = part[k] \/ (part'[k] = "start" /\ stage'[k] = "get")
    BY <1>1, RestartTurn DEF Debtor
  <2> QED BY <1>1, <2>1 DEF Debtor
<1>2. CASE part[k] \notin GoingDown
  <2>1. stage[k] \in {"get", "deployment"} \/ (stage[k] = "inspect" /\ seen[k][s] = "unknown")
    BY <1>2 DEF Debtor
  <2>2. Get(k) \/ Load(k)
    BY <2>1 DEF TaskTurn, Loaded, Inspected, JobFailed, AfterCreate, AfterStart, AfterPause, TimedOut,
                AfterStop, Gathered, Unregister, Ready, JobEnded, State
  <2>3. \A r : Over(k, r) => result'[k] = r
    BY <1>0 DEF Over, ProgressType, ResultType
  <2>4. CASE Get(k)
    <3>1. stage'[k] = "deployment"
      BY <1>0, <2>3, <2>4 DEF Get, ProgressType, StageType
    <3> QED BY <3>1 DEF Debtor
  <2>5. CASE Load(k)
    <3>1. stage'[k] = "inspect" /\ seen'[k][s] = "unknown"
      BY <1>0, <1>2, <2>3, <2>5 DEF Load, ProgressType, StageType, SeenType, GoingDown
    <3> QED BY <3>1 DEF Debtor
  <2> QED BY <2>2, <2>4, <2>5
<1> QED BY <1>1, <1>2

LEMMA AscentTurn ==
  ASSUME LifecycleAssumption, CourseInv, BringingUp, Ascent, NEW k \in Tasks, TaskTurn(k) \/ Ready(k),
         Unbroken'
  PROVE  Ascent'
<1>1. CourseInv' /\ IInv /\ Course(k) /\ Course(k)' /\ TypeOK
  BY CourseTurn DEF CourseInv, IInv
<1>2. Apart(k) /\ UNCHANGED <<container, op, target>> /\ Raised
  BY <1>1, TurnApart DEF Raised
<1>3. result[k] = "none"
  BY <1>1, TurnActive DEF IInv, JobsSuit, Active
<1>4. op[k] \in Restarts => result'[k] \in {"none", "Done."}
  BY <1>2 DEF Unbroken
<1>5. ASSUME NEW s \in Service PROVE Mending(s)' \/ Settled(s)'
  <2>1. ASSUME NEW j \in Tasks \ {k}
        PROVE  /\ Debtor(j, s) => Debtor(j, s)'
               /\ Redeemer(j, s) => Redeemer(j, s)'
               /\ StartedBy(j, s) => StartedBy(j, s)'
               /\ CreatedBy(j, s) => CreatedBy(j, s)'
    BY <1>2, RisingHolds DEF Apart, Debtor, Redeemer
  <2>2. Debtor(k, s) => Debtor(k, s)'
    BY <1>1, <1>2, <1>4, DebtorTurn DEF Debtor
  <2>3. s \in target[k] =>
          /\ StartedBy(k, s) => StartedBy(k, s)' \/ result'[k] \in {"failure", "False"}
          /\ CreatedBy(k, s) => CreatedBy(k, s)' \/ result'[k] = "failure"
    BY <1>1, RisingTurn
  <2>4. Redeemer(k, s) => Redeemer(k, s)' \/ Settled(s)'
    BY <1>2, <1>4, <2>3, RunningSettled DEF Redeemer, StartedBy, Settled, CreatedBy
  <2>5. CASE Mending(s)
    BY <2>1, <2>2, <2>4, <2>5 DEF Mending
  <2>6. CASE Settled(s)
    <3>1. \A j \in Tasks \ {k} : result'[j] = result[j]
      BY <1>2 DEF Apart
    <3>2. Settled(s)'
      BY <1>2, <1>3, <2>1, <2>3, <2>6, <3>1 DEF Settled, Claims
    <3> QED BY <3>2
  <2> QED BY <2>5, <2>6 DEF Ascent
<1>6. ASSUME NEW j \in Tasks, NEW s \in Service, Busy(j, s)', job'[j][s].name \in GoingDown
      PROVE  part'[j] \in GoingDown
  <2>1. CASE j # k
    BY <1>2, <1>6, <2>1 DEF Apart, Ascent, Busy
  <2>2. CASE j = k /\ part'[k] # "none"
    BY <1>1, <1>6, <2>2 DEF Course, JobsOf, GoingDown
  <2>3. CASE j = k /\ part'[k] = "none"
    <3>1. stage'[k] \in {"idle", "over"} /\ stage'[k] # "idle"
      BY <1>1, <2>3, TurnActive, TurnNeverIdles DEF Course, Fits, Active
    <3>2. job' = job
      BY <1>1, <3>1, EndsLaunchNothing
    <3>3. part[k] \in GoingDown
      BY <1>6, <2>3, <3>2 DEF Ascent, Busy
    <3>4. op[k] \in Restarts
      BY <1>1, <3>3, OnlyRestarts
    <3> QED BY <1>1, <1>4, <2>3, <3>3, <3>4, RestartTurn DEF GoingDown
  <2> QED BY <2>1, <2>2, <2>3
<1> QED BY <1>5, <1>6 DEF Ascent

LEMMA AscentStep ==
  ASSUME Faults = {}, CourseInv, BringingUp, Ascent, NEW j \in Tasks, NEW t \in Service, JobStep(j, t)
  PROVE  Ascent'
<1>1. TypeOK /\ IInv /\ Shape(job[j][t]) /\ Course(j)
  BY DEF CourseInv, IInv
<1>2. StepsApart(j, t) /\ Busy(j, t)
  BY <1>1, JobStepApart
<1>3. ASSUME NEW k \in Tasks, NEW s \in Service, Debtor(k, s) PROVE Debtor(k, s)'
  <2>1. stage[j] # "inspect"
    BY <1>1, <1>2 DEF IInv, JobsSuit, Resting, NoneBusy
  <2> QED BY <1>2, <1>3, <2>1 DEF Debtor, StepsApart
<1>4. ASSUME NEW s \in Service PROVE Mending(s)' \/ Settled(s)'
  <2>1. CASE job[j][t].name \notin GoingDown
    <3>1. \A k \in Tasks : /\ StartedBy(k, s) => StartedBy(k, s)'
                           /\ CreatedBy(k, s) => CreatedBy(k, s)'
      BY <1>1, <2>1, RisingStep
    <3>2. Settled(s) => Settled(s)'
      BY <1>2, <3>1 DEF Settled, Claims, StepsApart
    <3>3. \A k \in Tasks : Redeemer(k, s) => Redeemer(k, s)' \/ Settled(s)'
      BY <1>2, <3>1, RunningSettled DEF Redeemer, StartedBy, StepsApart, Settled, CreatedBy
    <3> QED BY <1>3, <3>2, <3>3 DEF Mending, Ascent
  <2>2. CASE job[j][t].name \in GoingDown /\ s = t
    <3>1. part[j] \in GoingDown /\ t \in target[j]
      BY <1>1, <1>2, <2>2 DEF Ascent, Course, GoingDown
    <3>2. Debtor(j, t)
      BY <1>1, <3>1, OnlyRestarts DEF Debtor
    <3> QED BY <1>3, <2>2, <3>2 DEF Mending
  <2>3. CASE s # t
    <3>1. /\ container'[s] = container[s] /\ UNCHANGED <<part, stage, at, op, target, result>>
          /\ \A k \in Tasks : job'[k][s] = job[k][s] /\ seen'[k][s] = seen[k][s]
      BY <1>2, <2>3 DEF StepsApart
    <3>2. \A k \in Tasks : /\ WillStart(k, s) => WillStart(k, s)'
                           /\ WillCreate(k, s) => WillCreate(k, s)'
      BY <3>1 DEF WillStart, WillCreate, StartsIt
    <3>3. Settled(s) => Settled(s)'
      BY <3>1, <3>2 DEF Settled, Claims, StartedBy, CreatedBy
    <3>4. \A k \in Tasks : Redeemer(k, s) => Redeemer(k, s)'
      BY <3>1, <3>2 DEF Redeemer
    <3> QED BY <1>3, <3>3, <3>4 DEF Mending, Ascent
  <2> QED BY <2>1, <2>2, <2>3
<1>5. \A k \in Tasks, s \in Service : Busy(k, s)' => Busy(k, s) /\ job'[k][s].name = job[k][s].name
  BY <1>2 DEF StepsApart, Busy
<1> QED BY <1>2, <1>4, <1>5 DEF Ascent, StepsApart

LEMMA AscentInspect ==
  ASSUME Faults = {}, CourseInv, BringingUp, Ascent, NEW j \in Tasks, NEW t \in Service, Inspect(j, t)
  PROVE  Ascent'
<1>1. TypeOK /\ IInv /\ Course(j) /\ stage[j] = "inspect"
  BY DEF CourseInv, IInv, Inspect
<1>2. /\ seen'[j][t] = container[t].state
      /\ UNCHANGED <<container, op, target, part, stage, at, result, job>>
      /\ \A k \in Tasks, s \in Service :
           /\ StartedBy(k, s) => StartedBy(k, s)'
           /\ CreatedBy(k, s) => CreatedBy(k, s)'
           /\ ~ (k = j /\ s = t) => seen'[k][s] = seen[k][s]
  BY <1>1, RisingInspect
<1>3. ASSUME NEW s \in Service PROVE Mending(s)' \/ Settled(s)'
  <2>1. Settled(s) => Settled(s)'
    BY <1>2 DEF Settled, Claims
  <2>2. \A k \in Tasks : Redeemer(k, s) => Redeemer(k, s)' \/ Settled(s)'
    BY <1>2, RunningSettled DEF Redeemer, StartedBy, Settled, CreatedBy
  <2>3. \A k \in Tasks : Debtor(k, s) /\ ~ (k = j /\ s = t) => Debtor(k, s)'
    BY <1>2 DEF Debtor
  <2>4. CASE Debtor(j, t) /\ s = t
    <3>1. CASE part[j] \in GoingDown
      BY <1>2, <2>4, <3>1 DEF Debtor, Mending
    <3>2. CASE container[t].state = "running"
      BY <1>2, <2>4, <3>2, RunningSettled DEF Settled, StartedBy, CreatedBy
    <3>3. CASE part[j] \notin GoingDown /\ container[t].state # "running"
      <4>1. part[j] = "start"
        BY <1>1, <2>4, <3>3 DEF Debtor, Restarts, Course, Fits, FirstPart, SecondPart, GoingDown
      <4>2. WillStart(j, t)'
        BY <1>1, <1>2, <3>3, <4>1 DEF WillStart
      <4> QED BY <1>2, <2>4, <4>2 DEF Redeemer, Debtor, Mending
    <3> QED BY <3>1, <3>2, <3>3
  <2> QED BY <2>1, <2>2, <2>3, <2>4 DEF Mending, Ascent
<1> QED BY <1>2, <1>3 DEF Ascent, Busy

LEMMA AscentBegin ==
  ASSUME LifecycleAssumption, AscentInv, NEW k \in Tasks, Begin(k), BringingUp', Unbroken'
  PROVE  Ascent'
<1>1. TypeOK /\ CourseInv /\ IInv
  BY DEF AscentInv, CourseInv, IInv
<1>2. PICK o \in Operations, S \in SUBSET Service : BeginsWith(k, o, S)
  BY <1>1, BeginForm
<1>3. stage[k] = "idle" /\ op[k] = "none" /\ part[k] = "none" /\ NoneBusy(k)
  BY <1>1, BeginForm DEF CourseInv, NotAskedYet, IInv, JobsSuit, Resting, Course, Fits
<1>4. BringingUp /\ Unbroken
  BY <1>2, <1>3 DEF BringingUp, Unbroken, AllMeantTo, BeginsWith, Restarts
<1>5. Ascent
  BY <1>4 DEF AscentInv
<1>6. ASSUME NEW s \in Service PROVE Mending(s)' \/ Settled(s)'
  <2>1. ASSUME NEW j \in Tasks \ {k}
        PROVE  /\ Debtor(j, s) => Debtor(j, s)'
               /\ Redeemer(j, s) => Redeemer(j, s)'
               /\ StartedBy(j, s) => StartedBy(j, s)'
               /\ CreatedBy(j, s) => CreatedBy(j, s)'
               /\ op'[j] = op[j] /\ target'[j] = target[j] /\ result'[j] = result[j]
    <3>1. /\ part'[j] = part[j] /\ stage'[j] = stage[j] /\ op'[j] = op[j] /\ target'[j] = target[j]
          /\ UNCHANGED <<container, at, seen, job, result>>
      BY <1>2 DEF BeginsWith
    <3> QED BY <3>1 DEF Debtor, Redeemer, StartedBy, CreatedBy, WillStart, WillCreate, StartsIt
  <2>2. CASE Mending(s)
    BY <1>3, <2>1, <2>2 DEF Mending, Debtor, Redeemer, Restarts
  <2>3. CASE Settled(s) /\ ~ Debtor(k, s)'
    <3>1. op'[k] = o /\ part'[k] = FirstPart(o) /\ stage'[k] = "get"
      BY <1>2 DEF BeginsWith
    <3>2. s \in target'[k] => o \notin Restarts
      BY <2>3, <3>1 DEF Debtor
    <3>3. Claims(k, s, Starts)' => StartedBy(k, s)'
      BY <3>1, <3>2 DEF Claims, StartedBy, WillStart, Starts, Restarts, FirstPart
    <3>4. Claims(k, s, {"create"})' => CreatedBy(k, s)'
      BY <3>1 DEF Claims, CreatedBy, WillCreate, FirstPart
    <3> QED BY <2>1, <2>3, <3>3, <3>4 DEF Settled, Claims
  <2> QED BY <1>5, <2>2, <2>3 DEF Ascent, Mending
<1>7. ASSUME NEW j \in Tasks, NEW s \in Service, Busy(j, s)', job'[j][s].name \in GoingDown
      PROVE  part'[j] \in GoingDown
  <2>1. j # k
    BY <1>2, <1>3, <1>7 DEF BeginsWith, NoneBusy, Busy
  <2> QED BY <1>2, <1>5, <1>7, <2>1 DEF BeginsWith, Ascent, Busy
<1> QED BY <1>6, <1>7 DEF Ascent

LEMMA AscentChanges ==
  ASSUME CourseInv, BringingUp, Ascent, DeploymentChanges \/ Crash \/ UNCHANGED vars, Unbroken'
  PROVE  Ascent'
<1>1. CASE DeploymentChanges \/ UNCHANGED vars
  <2>1. UNCHANGED <<container, op, target, part, stage, at, result, seen, job>>
    BY <1>1 DEF DeploymentChanges, vars, docker, asked, progress
  <2>2. \A k \in Tasks, s \in Service :
           /\ Debtor(k, s) => Debtor(k, s)'
           /\ WillStart(k, s) => WillStart(k, s)'
           /\ WillCreate(k, s) => WillCreate(k, s)'
    BY <2>1 DEF Debtor, WillStart, WillCreate, StartsIt
  <2>3. \A s \in Service : Mending(s) => Mending(s)'
    BY <2>1, <2>2 DEF Mending, Redeemer
  <2>4. \A s \in Service : Settled(s) => Settled(s)'
    BY <2>1, <2>2 DEF Settled, Claims, StartedBy, CreatedBy
  <2> QED BY <2>1, <2>3, <2>4 DEF Ascent, Busy
<1>2. CASE Crash
  <2>1. /\ \A k \in Tasks : result'[k] = IF Active(k) THEN "lost" ELSE result[k]
        /\ UNCHANGED <<container, op, target>>
        /\ \A k \in Tasks, s \in Service : job'[k][s] = NoJob
    BY <1>2 DEF Crash, docker, asked
  <2>2. \A k \in Tasks : op[k] \in Restarts => ~ Active(k)
    BY <2>1 DEF Unbroken
  <2>3. \A k \in Tasks : ~ Active(k) => part[k] = "none" /\ stage[k] \in {"idle", "over"}
    BY Inactive DEF Active
  <2>4. \A s \in Service : ~ Mending(s)
    BY <2>2, <2>3 DEF Mending, Debtor, Redeemer, WillStart, GoingDown
  <2>5. ASSUME NEW s \in Service PROVE Settled(s)'
    <3>1. Settled(s)
      BY <2>4 DEF Ascent
    <3>2. \A k \in Tasks : \A ops : Claims(k, s, ops)' => Claims(k, s, ops) /\ part[k] = "none"
      BY <2>1, <2>3 DEF Claims
    <3> QED BY <2>1, <3>1, <3>2 DEF Settled, StartedBy, CreatedBy, WillStart, WillCreate
  <2> QED BY <2>1, <2>5 DEF Ascent, Busy, NoJob, Pending
<1> QED BY <1>1, <1>2

LEMMA AscentInit ==
  ASSUME LifecycleAssumption, Init
  PROVE  AscentInv
<1>1. CourseInv
  BY CourseInit
<1>2. /\ \A k \in Tasks : op[k] = "none"
      /\ \A k \in Tasks, s \in Service : job[k][s] = NoJob
  BY DEF Init
<1> QED BY <1>1, <1>2 DEF AscentInv, Ascent, Settled, Claims, Starts, Busy, NoJob, Pending

\* A restart that has been broken off stays so.
LEMMA UnbrokenBefore ==
  ASSUME CourseInv, [Next]_vars, Unbroken'
  PROVE  Unbroken
<1>1. ASSUME NEW k \in Tasks, op[k] \in Restarts
      PROVE  op'[k] = op[k] /\ (result[k] = "none" \/ result'[k] = result[k] \/ result'[k] = "lost")
  <2>1. TypeOK /\ IInv /\ op[k] # "none"
    BY <1>1 DEF CourseInv, IInv, Restarts
  <2>2. CASE \E j \in Tasks : TaskTurn(j) \/ Ready(j)
    <3>1. PICK j \in Tasks : TaskTurn(j) \/ Ready(j)
      BY <2>2
    <3>2. Apart(j) /\ UNCHANGED op
      BY <2>1, <3>1, TurnApart
    <3>3. result[j] = "none"
      BY <2>1, <3>1, TurnActive DEF IInv, JobsSuit, Active
    <3> QED BY <3>2, <3>3 DEF Apart
  <2>3. CASE \E j \in Tasks : Begin(j)
    <3>1. PICK j \in Tasks : Begin(j)
      BY <2>3
    <3>2. k # j
      BY <2>1, <3>1, BeginForm DEF CourseInv, NotAskedYet, Begin
    <3> QED BY <2>1, <3>1, <3>2 DEF Begin, IInv, TypeOK
  <2>4. CASE \E j \in Tasks, s \in Service : JobStep(j, s)
    BY <2>1, <2>4, JobStepApart DEF StepsApart
  <2>5. CASE Crash
    BY <2>5 DEF Crash, asked
  <2>6. CASE \/ \E j \in Tasks, s \in Service : Stalls(j, s)
             \/ \E s \in Service : ContainerExits(s)
             \/ DeploymentChanges \/ UNCHANGED vars
    BY <2>6 DEF Stalls, ContainerExits, DeploymentChanges, vars, asked, progress
  <2>7. CASE \E j \in Tasks, s \in Service : Inspect(j, s)
    <3>1. PICK j \in Tasks, s \in Service : Inspect(j, s)
      BY <2>7
    <3>2. result[j] = "none" /\ UNCHANGED op /\ \A i \in Tasks \ {j} : result'[i] = result[i]
      <4>1. result \in ResultType
        BY <2>1, TypeParts DEF ProgressType
      <4> QED BY <2>1, <3>1, <4>1 DEF Inspect, IInv, JobsSuit, asked, progress, Over, ResultType
    <3> QED BY <3>2
  <2> QED BY <2>2, <2>3, <2>4, <2>5, <2>6, <2>7 DEF Next
<1> QED BY <1>1 DEF Unbroken

LEMMA AscentNext ==
  ASSUME LifecycleAssumption, Faults = {}, "exit" \notin Changes, AscentInv, [Next]_vars
  PROVE  AscentInv'
<1>1. CourseInv /\ CourseInv'
  BY CourseStep DEF AscentInv
<1>2. ASSUME BringingUp', Unbroken' PROVE Ascent'
  <2>1. CASE \E k \in Tasks : Begin(k)
    BY <1>2, <2>1, AscentBegin
  <2>2. CASE \A k \in Tasks : ~ Begin(k)
    <3>1. BringingUp /\ Unbroken
      BY <1>1, <1>2, <2>2, AsksNothing, UnbrokenBefore DEF BringingUp, AllMeantTo
    <3>2. /\ Ascent /\ \A s \in Service : ~ ContainerExits(s)
          /\ \A k \in Tasks, s \in Service : ~ Stalls(k, s)
      BY <3>1 DEF AscentInv, ContainerExits, Stalls
    <3> QED BY <1>1, <1>2, <2>2, <3>1, <3>2, AscentTurn, AscentStep, AscentInspect, AscentChanges DEF Next
  <2> QED BY <2>1, <2>2
<1> QED BY <1>1, <1>2 DEF AscentInv

LEMMA AscentAchieves ==
  ASSUME AscentInv, Quiet, BringingUp, Unbroken, NEW k \in Tasks, result[k] = "Done.", NEW s \in target[k]
  PROVE  Achieved(k, s)
<1>1. /\ Ascent /\ s \in Service /\ \A j \in Tasks : part[j] = "none" /\ stage[j] \in {"idle", "over"}
  <2>1. CourseInv /\ target[k] \subseteq Service
    BY TypeParts DEF AscentInv, CourseInv, IInv, AskedType
  <2> QED BY <2>1, Inactive DEF Quiet, Active, AscentInv
<1>2. Settled(s)
  BY <1>1 DEF Ascent, Mending, Debtor, Redeemer, WillStart, GoingDown
<1>3. ~ WillStart(k, s) /\ ~ WillCreate(k, s)
  BY <1>1 DEF WillStart, WillCreate
<1>4. op[k] \in Starts => container[s].state = "running"
  BY <1>2, <1>3 DEF Settled, Claims, StartedBy
<1>5. op[k] = "create" => container[s].state # "absent"
  BY <1>2, <1>3 DEF Settled, Claims, CreatedBy
<1>6. op[k] \in {"none", "create", "start", "restart", "rebuild"}
  BY DEF BringingUp, AllMeantTo
<1> QED BY <1>4, <1>5, <1>6 DEF Achieved, Starts

\* Tasks that overlap and pull the same way leave everything as each that
\* reported "Done." was asked, for any number of tasks and services, whatever
\* each has seen and whenever the server dies: Docker does what it is asked, no
\* container exits by itself, and the deployment stays.
THEOREM TasksSettleAsAsked ==
  ASSUME Faults = {}, Changes \subseteq {"crash"}
  PROVE  Spec => []SettledAsAsked
<1>0. "exit" \notin Changes /\ "deployment" \notin Changes
  OBVIOUS
<1>1. Init => AscentInv /\ DescentInv
  BY AscentInit, DescentInit, LifecycleAssumption
<1>2. AscentInv /\ DescentInv /\ [Next]_vars => AscentInv' /\ DescentInv'
  BY <1>0, AscentNext, DescentNext, LifecycleAssumption
<1>3. AscentInv /\ DescentInv => SettledAsAsked
  <2> SUFFICES ASSUME AscentInv, DescentInv, Quiet,
                      NEW k \in Tasks, result[k] = "Done.", NEW s \in target[k],
                      \/ /\ AllMeantTo({"create", "start", "restart", "rebuild"})
                         /\ \A j \in Tasks : op[j] \in {"restart", "rebuild"} => result[j] = "Done."
                      \/ AllMeantTo({"stop", "destroy", "remove"})
               PROVE  Achieved(k, s)
    BY DEF SettledAsAsked
  <2>1. CASE /\ AllMeantTo({"create", "start", "restart", "rebuild"})
             /\ \A j \in Tasks : op[j] \in {"restart", "rebuild"} => result[j] = "Done."
    <3>1. BringingUp /\ Unbroken
      BY <2>1 DEF BringingUp, Unbroken, Restarts
    <3> QED BY <3>1, AscentAchieves
  <2>2. CASE AllMeantTo({"stop", "destroy", "remove"})
    BY <2>2 DEF TakingDown, DescentInv, Descent, Accomplished
  <2> QED BY <2>1, <2>2
<1> QED BY <1>1, <1>2, <1>3, PTL DEF Spec

-----------------------------------------------------------------------------
(* What one operator's task reports. *)

\* The container of s is still the one the task found; a rebuild has removed
\* it, and then makes another.
KeptOne(k, s) ==
  LET b == before[k][s]
      c == container[s]
  IN /\ op[k] \in {"create", "start", "stop", "restart"} /\ b.state # "absent" =>
          c.state # "absent" /\ c.id = b.id
     /\ part[k] \in {"destroy", "unregister"} => c.id = b.id
     /\ op[k] = "rebuild" /\ part[k] = "start" =>
          IF c.state = "absent" THEN c.id = b.id ELSE c.id > b.id

\* How far the task has come with the services it was asked about, the others
\* being as it found them.
OnTrack(k) ==
  /\ \A s \in Service \ target[k] : container[s] = before[k][s]
  /\ \A s \in target[k] :
       /\ KeptOne(k, s)
       /\ part[k] = "start" => StartedBy(k, s)
       /\ part[k] = "create" => CreatedBy(k, s)
       /\ part[k] = "unregister" => container[s].state = "absent" /\ s \notin data

\* The inductive invariant of one operator who gets what is done.
TrackInv ==
  /\ SoloInv
  /\ deployment
  /\ \A k \in Tasks : Active(k) => OnTrack(k)

LEMMA TrackTurn ==
  ASSUME LifecycleAssumption, TrackInv, NEW k \in Tasks, TaskTurn(k) \/ Ready(k), Active(k)'
  PROVE  OnTrack(k)'
<1>1. CourseInv /\ CourseInv' /\ IInv /\ IInv' /\ Course(k) /\ Course(k)' /\ TypeOK
  BY CourseTurn DEF TrackInv, SoloInv, CourseInv, IInv
<1>2. /\ UNCHANGED <<container, op, target, scrub, before>> /\ target[k] \subseteq Service
      /\ OnTrack(k) /\ Sinking(k) /\ deployment
  BY <1>1, TurnApart, TurnActive, TypeParts DEF TrackInv, SoloInv, Solo, AskedType
<1>3. result'[k] = "none" /\ part'[k] # "none"
  BY <1>1 DEF IInv, JobsSuit, Active, Course, Fits
<1>4. Scrubbed /\ (part'[k] = part[k] \/ Sunk(k))
  BY <1>1, <1>2, <1>3, SinkingTurn
<1>5. \/ part'[k] = part[k]
      \/ part'[k] = "unregister" /\ SecondPart(op[k]) = "unregister"
      \/ part'[k] = "start" /\ SecondPart(op[k]) = "start" /\ stage'[k] = "get"
  BY <1>1, <1>3, TurnParts
<1>6. part'[k] # part[k] => part[k] = FirstPart(op[k])
  BY <1>1, <1>5, TurnActive DEF Course, Fits, Active
<1>7. ASSUME NEW s \in target[k]
      PROVE  /\ KeptOne(k, s)'
             /\ part'[k] = "start" => StartedBy(k, s)'
             /\ part'[k] = "create" => CreatedBy(k, s)'
             /\ part'[k] = "unregister" => container[s].state = "absent" /\ s \notin data'
  <2>1. CASE part'[k] = part[k]
    <3>1. KeptOne(k, s)'
      BY <1>2, <2>1 DEF OnTrack, KeptOne
    <3>2. /\ StartedBy(k, s) => StartedBy(k, s)'
          /\ CreatedBy(k, s) => CreatedBy(k, s)'
      BY <1>1, <1>3, RisingTurn
    <3> QED BY <1>2, <1>4, <2>1, <3>1, <3>2 DEF OnTrack, Scrubbed
  <2>2. CASE part'[k] # part[k] /\ part'[k] = "unregister" /\ SecondPart(op[k]) = "unregister"
    <3>1. op[k] = "remove" /\ part[k] = "destroy"
      BY <1>6, <2>2 DEF SecondPart, FirstPart
    <3>2. container[s].state = "absent" /\ s \notin data'
      BY <1>4, <2>2, <3>1 DEF Sunk, Scrubs, Scrubbed
    <3> QED BY <1>2, <2>2, <3>1, <3>2 DEF OnTrack, KeptOne
  <2>3. CASE part'[k] # part[k] /\ part'[k] = "start" /\ SecondPart(op[k]) = "start" /\ stage'[k] = "get"
    <3>1. \/ op[k] = "restart" /\ part[k] = "stop"
          \/ op[k] = "rebuild" /\ part[k] = "destroy"
      BY <1>6, <2>3 DEF SecondPart, FirstPart
    <3>2. StartedBy(k, s)'
      BY <2>3 DEF StartedBy, WillStart
    <3>3. KeptOne(k, s)'
      BY <1>2, <1>4, <2>3, <3>1 DEF OnTrack, KeptOne, Sunk
    <3> QED BY <2>3, <3>2, <3>3
  <2> QED BY <1>5, <2>1, <2>2, <2>3
<1> QED BY <1>2, <1>7 DEF OnTrack

\* Stopping removes no container.
LEMMA StopStep ==
  ASSUME Faults = {}, TypeOK, NEW k \in Tasks, NEW s \in Service, Shape(job[k][s]),
         job[k][s].name = "stop", JobStep(k, s), container[s].state # "absent"
  PROVE  container'[s].state # "absent"
<1> DEFINE c == container[s]
           d == IF c.id = job[k][s].id /\ c.state = "running" THEN [c EXCEPT !.state = "stopped"] ELSE c
<1>1. d \in Container /\ d.state # "absent"
  BY TypeParts DEF DockerType, Container, State
<1>2. CASE Kill(k, s)
  <2>1. container'[s] = d
    BY <1>1, <1>2, AnsweredCall DEF Kill
  <2> QED BY <1>1, <2>1
<1>3. CASE Find(k, s) \/ Look(k, s)
  BY <1>3 DEF Find, Look, docker
<1>4. ~ Post(k, s) /\ ~ Run(k, s) /\ ~ Delete(k, s) /\ ~ Exec(k, s) /\ ~ Listen(k, s)
  BY DEF Post, Run, Delete, Exec, Listen, Shape, Ended
<1> QED BY <1>2, <1>3, <1>4 DEF JobStep

LEMMA TrackStep ==
  ASSUME Faults = {}, TrackInv, NEW k \in Tasks, NEW t \in Service, JobStep(k, t)
  PROVE  OnTrack(k)'
<1>1. /\ CourseInv /\ IInv /\ TypeOK /\ Course(k) /\ Shape(job[k][t]) /\ Solo
  BY DEF TrackInv, SoloInv, CourseInv, IInv
<1>2. StepsApart(k, t) /\ Busy(k, t)
  BY <1>1, JobStepApart
<1>3. Active(k) /\ OnTrack(k) /\ part[k] \notin {"none", "unregister"}
  BY <1>1, <1>2, Inactive DEF Solo, NoneBusy, TrackInv, IInv, JobsSuit, Resting, Course, Fits
<1>4. /\ t \in target[k] /\ job[k][t].name \in JobsOf(part[k]) /\ target[k] \subseteq Service
      /\ part[k] \in {FirstPart(op[k]), SecondPart(op[k])} /\ op[k] \in AllOperations
  BY <1>1, <1>2, <1>3, TypeParts DEF Course, AskedType
<1>5. \A s \in Service \ target[k] : container'[s] = before'[k][s]
  BY <1>2, <1>3, <1>4 DEF OnTrack, StepsApart
<1>6. CASE part[k] \in GoingDown
  <2>1. Lowered
    BY <1>1, <1>4, <1>6, DownStep DEF JobsOf, GoingDown
  <2>2. part[k] = "stop" => \A s \in Service : container[s].state # "absent" => container'[s].state # "absent"
    BY <1>1, <1>2, <1>4, StopStep DEF JobsOf, StepsApart
  <2>3. op[k] \in {"create", "start", "stop", "restart"} => part[k] = "stop"
    BY <1>4, <1>6 DEF FirstPart, SecondPart, GoingDown
  <2>4. ASSUME NEW s \in target[k] PROVE KeptOne(k, s)'
    <3>1. KeptOne(k, s) /\ container'[s].id = container[s].id
      BY <1>3, <1>4, <2>1 DEF OnTrack, Lowered
    <3> QED BY <1>2, <1>4, <1>6, <2>2, <2>3, <3>1 DEF KeptOne, StepsApart, GoingDown
  <2> QED BY <1>2, <1>5, <1>6, <2>4 DEF OnTrack, StepsApart, GoingDown
<1>7. CASE part[k] \in {"create", "start"}
  <2>1. job[k][t].name \notin GoingDown
    BY <1>4, <1>7 DEF JobsOf, GoingDown
  <2>2. Raised
    BY <1>1, <2>1, UpStep
  <2>3. ASSUME NEW s \in target[k] PROVE KeptOne(k, s)'
    <3>1. KeptOne(k, s) /\ container[s].id \in Nat /\ before[k][s].id \in Nat
      BY <1>1, <1>3, <1>4, ContainerState, TypeParts DEF OnTrack, AskedType, Container
    <3>2. LET c == container[s]
              d == container'[s]
          IN /\ c.state # "absent" => d.state # "absent" /\ d.id = c.id
             /\ c.state = "absent" => d = c \/ (d.state # "absent" /\ d.id = c.id + 1)
      BY <1>4, <2>2 DEF Raised
    <3> QED BY <1>2, <1>7, <3>1, <3>2 DEF KeptOne, StepsApart
  <2>4. ASSUME NEW s \in target[k]
        PROVE  /\ part[k] = "start" => StartedBy(k, s)'
               /\ part[k] = "create" => CreatedBy(k, s)'
    BY <1>1, <1>3, <1>4, <2>1, RisingStep DEF OnTrack
  <2> QED BY <1>2, <1>5, <1>7, <2>3, <2>4 DEF OnTrack, StepsApart
<1> QED BY <1>1, <1>3, <1>6, <1>7 DEF Course, Fits, GoingDown

LEMMA TrackBegin ==
  ASSUME LifecycleAssumption, MaxActive <= 1, TrackInv, NEW k \in Tasks, Begin(k)
  PROVE  \A j \in Tasks : Active(j)' => OnTrack(j)'
<1>1. PICK o \in Operations, S \in SUBSET Service : BeginsWith(k, o, S)
  BY BeginForm DEF TrackInv, SoloInv, CourseInv, IInv
<1>2. \A j \in Tasks \ {k} : ~ Active(j)'
  BY <1>1, NobodyActive DEF BeginsWith, Active
<1>3. /\ op'[k] = o /\ target'[k] = S /\ part'[k] = FirstPart(o) /\ stage'[k] = "get"
      /\ before'[k] = container /\ UNCHANGED container /\ o \in AllOperations
  BY <1>1 DEF BeginsWith
<1>4. ASSUME NEW s \in S
      PROVE  /\ KeptOne(k, s)'
             /\ part'[k] = "start" => StartedBy(k, s)'
             /\ part'[k] = "create" => CreatedBy(k, s)'
             /\ part'[k] # "unregister"
  BY <1>3, FirstParts DEF KeptOne, StartedBy, CreatedBy, WillStart, WillCreate, FirstPart
<1>5. OnTrack(k)'
  BY <1>3, <1>4 DEF OnTrack
<1> QED BY <1>2, <1>5

LEMMA TrackInspect ==
  ASSUME Faults = {}, TrackInv, NEW k \in Tasks, NEW t \in Service, Inspect(k, t)
  PROVE  \A j \in Tasks : Active(j)' => OnTrack(j)'
<1>1. TypeOK
  BY DEF TrackInv, SoloInv, CourseInv, IInv
<1>2. /\ UNCHANGED <<container, data, op, target, before, part, stage>>
      /\ \A j \in Tasks, s \in Service :
           /\ StartedBy(j, s) => StartedBy(j, s)'
           /\ CreatedBy(j, s) => CreatedBy(j, s)'
  BY <1>1, RisingInspect
<1>3. \A j \in Tasks : target[j] \subseteq Service
  BY <1>1, TypeParts DEF AskedType
<1> QED BY <1>2, <1>3 DEF TrackInv, Active, OnTrack, KeptOne

LEMMA TrackNext ==
  ASSUME LifecycleAssumption, MaxActive <= 1, Faults = {}, Changes \subseteq {"crash"},
         TrackInv, [Next]_vars
  PROVE  TrackInv'
<1>1. SoloInv' /\ SoloInv /\ TypeOK
  BY SoloNext DEF TrackInv, SoloInv, CourseInv, IInv
<1>2. CASE \E k \in Tasks : Begin(k)
  <2>1. deployment'
    BY <1>2 DEF Begin, registry, TrackInv
  <2> QED BY <1>1, <1>2, <2>1, TrackBegin DEF TrackInv
<1>3. CASE \E k \in Tasks : TaskTurn(k) \/ Ready(k)
  <2>1. PICK k \in Tasks : TaskTurn(k) \/ Ready(k)
    BY <1>3
  <2>2. Active(k) /\ Apart(k) /\ deployment'
    BY <1>1, <2>1, TurnActive, TurnApart DEF TrackInv
  <2>3. \A j \in Tasks \ {k} : ~ Active(j)'
    BY <2>2 DEF TrackInv, SoloInv, Solo, Apart, Active
  <2> QED BY <1>1, <2>1, <2>2, <2>3, TrackTurn DEF TrackInv
<1>4. CASE \E k \in Tasks, s \in Service : JobStep(k, s)
  <2>1. PICK k \in Tasks, s \in Service : JobStep(k, s)
    BY <1>4
  <2>2. StepsApart(k, s) /\ Busy(k, s)
    BY <1>1, <2>1, JobStepApart
  <2>3. Active(k)
    BY <2>2 DEF TrackInv, SoloInv, Solo, NoneBusy
  <2>4. \A j \in Tasks \ {k} : ~ Active(j)'
    BY <2>2, <2>3 DEF TrackInv, SoloInv, Solo, StepsApart, Active
  <2> QED BY <1>1, <2>1, <2>2, <2>4, TrackStep DEF TrackInv, StepsApart
<1>5. CASE \E k \in Tasks, s \in Service : Inspect(k, s)
  <2>1. deployment'
    BY <1>5 DEF Inspect, registry, TrackInv
  <2> QED BY <1>1, <1>5, <2>1, TrackInspect DEF TrackInv
<1>6. CASE Crash
  BY <1>1, <1>6 DEF Crash, Active, registry, TrackInv
<1>7. CASE UNCHANGED vars
  <2>1. UNCHANGED <<container, data, deployment, op, target, before, part, stage, at, seen, job>>
    BY <1>7 DEF vars, docker, registry, asked, progress
  <2> QED BY <1>1, <2>1
          DEF TrackInv, Active, OnTrack, KeptOne, StartedBy, CreatedBy, WillStart, WillCreate, StartsIt
<1>8. /\ ~ DeploymentChanges /\ \A s \in Service : ~ ContainerExits(s)
      /\ \A k \in Tasks, s \in Service : ~ Stalls(k, s)
  BY DEF DeploymentChanges, ContainerExits, Stalls
<1> QED BY <1>2, <1>3, <1>4, <1>5, <1>6, <1>7, <1>8 DEF Next

LEMMA TrackInit ==
  ASSUME LifecycleAssumption, Init
  PROVE  TrackInv
BY SoloInit DEF TrackInv, Init, Active

\* Only a turn of its own ends a task with "Done.".
LEMMA EndsByItself ==
  ASSUME CourseInv, [Next]_vars, NEW k \in Tasks, Ends(k, "Done.")
  PROVE  TaskTurn(k) \/ Ready(k)
<1>1. TypeOK /\ stage[k] # "over" /\ stage'[k] = "over" /\ result'[k] = "Done."
  BY DEF CourseInv, IInv, Ends
<1>2. ASSUME NEW j \in Tasks, TaskTurn(j) \/ Ready(j) PROVE j = k
  BY <1>1, <1>2, TurnApart DEF Apart
<1>3. ASSUME NEW j \in Tasks PROVE ~ Begin(j)
  <2>1. \A S, o : ~ BeginsWith(j, o, S)
    BY <1>1 DEF BeginsWith
  <2> QED BY <1>1, <2>1, BeginForm, LifecycleAssumption
<1>4. \A j \in Tasks, s \in Service : ~ JobStep(j, s)
  BY <1>1, JobStepApart DEF StepsApart
<1>5. ~ Crash
  BY <1>1 DEF Crash
<1>6. /\ \A j \in Tasks, s \in Service : ~ Stalls(j, s)
      /\ \A s \in Service : ~ ContainerExits(s)
      /\ ~ DeploymentChanges /\ ~ UNCHANGED vars
  BY <1>1 DEF Stalls, ContainerExits, DeploymentChanges, vars, progress
<1>7. \A j \in Tasks, s \in Service : ~ Inspect(j, s)
  BY <1>1, TypeParts DEF Inspect, Over, progress, ProgressType, ResultType, StageType
<1> QED BY <1>2, <1>3, <1>4, <1>5, <1>6, <1>7 DEF Next

LEMMA DoneTurn ==
  ASSUME TrackInv, TrackInv', NEW k \in Tasks, TaskTurn(k) \/ Ready(k), Ends(k, "Done.")
  PROVE  /\ \A s \in target[k] : Achieved(k, s)' /\ RightContainer(k, s)'
         /\ \A s \in Service \ target[k] : container'[s] = before[k][s]
<1>1. CourseInv /\ CourseInv' /\ IInv /\ Course(k) /\ Course(k)' /\ TypeOK
  BY DEF TrackInv, SoloInv, CourseInv, IInv
<1>2. /\ UNCHANGED <<container, op, target, scrub, before>> /\ target[k] \subseteq Service
      /\ OnTrack(k) /\ Sinking(k) /\ deployment /\ op[k] \in AllOperations
      /\ Scrubs(k)' = Scrubs(k)
  BY <1>1, TurnApart, TurnActive, TypeParts
     DEF TrackInv, SoloInv, Solo, AskedType, Course, Fits, Active, Scrubs
<1>3. part'[k] = "none" /\ part[k] # "none" /\ result'[k] = "Done."
  BY <1>1, TurnActive DEF Ends, Course, Fits, Active
<1>4. Scrubbed /\ Sunk(k)
  BY <1>1, <1>2, <1>3, SinkingTurn
<1>5. /\ part[k] \in {FirstPart(op[k]), SecondPart(op[k])}
      /\ op[k] \in Restarts => part[k] \notin GoingDown
  BY <1>1, <1>3, RestartTurn DEF Course, GoingDown
<1>6. ASSUME NEW s \in target[k] PROVE Achieved(k, s)' /\ RightContainer(k, s)'
  <2>1. /\ part[k] = "start" => container[s].state = "running"
        /\ part[k] = "create" => container[s].state # "absent"
    BY <1>1, <1>2, <1>3, <1>6, RisingTurn DEF OnTrack, StartedBy, CreatedBy, WillStart, WillCreate
  <2>2. KeptOne(k, s)
    BY <1>2 DEF OnTrack
  <2>3. CASE op[k] \in {"create", "start"}
    BY <1>2, <1>3, <1>5, <2>1, <2>2, <2>3
       DEF Achieved, RightContainer, KeptOne, FirstPart, SecondPart
  <2>4. CASE op[k] = "stop"
    BY <1>2, <1>3, <1>4, <1>5, <2>2, <2>4
       DEF Achieved, RightContainer, KeptOne, FirstPart, SecondPart, Sunk
  <2>5. CASE op[k] \in Restarts
    <3>1. part[k] = "start"
      BY <1>3, <1>5, <2>5 DEF Restarts, FirstPart, SecondPart, GoingDown
    <3> QED BY <1>2, <2>1, <2>2, <2>5, <3>1 DEF Achieved, RightContainer, KeptOne, Restarts
  <2>6. CASE op[k] \in {"destroy", "remove"}
    <3>1. /\ part[k] \in {"destroy", "unregister"}
          /\ container[s].state = "absent" /\ (Scrubs(k) => s \notin data)
      BY <1>2, <1>3, <1>4, <1>5, <2>6 DEF Sunk, OnTrack, FirstPart, SecondPart
    <3> QED BY <1>2, <1>4, <2>2, <2>6, <3>1 DEF Achieved, RightContainer, KeptOne, Scrubbed, Scrubs
  <2> QED BY <1>2, <2>3, <2>4, <2>5, <2>6 DEF AllOperations, Restarts
<1> QED BY <1>2, <1>6 DEF OnTrack

\* With one operator and a Docker that does what it is asked, a task that reports "Done."
\* has done what it was asked, to the containers it was asked about and to no
\* others, from whatever state an earlier task or a crash of the server left.
THEOREM OneOperatorGetsWhatIsDone ==
  ASSUME MaxActive <= 1, Faults = {}, Changes \subseteq {"crash"}
  PROVE  Spec => DoneMeansDone
<1>1. Init => TrackInv
  BY TrackInit, LifecycleAssumption
<1>2. TrackInv /\ [Next]_vars => TrackInv'
  BY TrackNext, LifecycleAssumption
<1>3. TrackInv /\ [Next]_vars =>
        [\A k \in Tasks : Ends(k, "Done.") =>
           /\ \A s \in target[k] : Achieved(k, s)' /\ RightContainer(k, s)'
           /\ \A s \in Service \ target[k] : container'[s] = before[k][s]]_vars
  <2> SUFFICES ASSUME TrackInv, [Next]_vars, NEW k \in Tasks, Ends(k, "Done.")
               PROVE  /\ \A s \in target[k] : Achieved(k, s)' /\ RightContainer(k, s)'
                      /\ \A s \in Service \ target[k] : container'[s] = before[k][s]
    OBVIOUS
  <2>1. CourseInv /\ TrackInv'
    BY <1>2 DEF TrackInv, SoloInv
  <2> QED BY <2>1, EndsByItself, DoneTurn
<1> QED BY <1>1, <1>2, <1>3, PTL DEF Spec, DoneMeansDone

\* What a task that takes down has reported as "Done." stays so.
DownForGood ==
  TakingDown => \A k \in Tasks : result[k] = "Done." => \A s \in target[k] : Achieved(k, s)

\* With a Docker that does what it is asked and a deployment that stays, of tasks that only
\* take down, however many overlap, each that reports "Done." has brought its
\* services down for good, whatever exits and whenever the server dies.
THEOREM WhatIsTakenDownStaysDown ==
  ASSUME Faults = {}, "deployment" \notin Changes
  PROVE  Spec => []DownForGood
<1>1. Init => DescentInv
  BY DescentInit, LifecycleAssumption
<1>2. DescentInv /\ [Next]_vars => DescentInv'
  BY DescentNext, LifecycleAssumption
<1>3. DescentInv => DownForGood
  BY DEF DescentInv, Descent, DownForGood, Accomplished
<1> QED BY <1>1, <1>2, <1>3, PTL DEF Spec

\* What a task that creates or starts has reported as "Done." stays so.
UpForGood ==
  AllMeantTo({"create", "start"}) =>
    \A k \in Tasks : result[k] = "Done." => \A s \in target[k] : Achieved(k, s)

LEMMA AscentStaysUp ==
  ASSUME AscentInv
  PROVE  UpForGood
<1> SUFFICES ASSUME AllMeantTo({"create", "start"}), NEW k \in Tasks, result[k] = "Done.",
                    NEW s \in target[k]
             PROVE  Achieved(k, s)
  BY DEF UpForGood
<1>1. \A j \in Tasks : op[j] \in {"none", "create", "start"}
  BY DEF AllMeantTo
<1>2. BringingUp /\ Unbroken
  BY <1>1 DEF BringingUp, AllMeantTo, Unbroken, Restarts
<1>3. Ascent /\ s \in Service /\ part[k] = "none"
  <2>1. IInv /\ CourseInv /\ target[k] \subseteq Service /\ stage[k] = "over"
    BY TypeParts DEF AscentInv, CourseInv, IInv, AskedType, JobsSuit
  <2> QED BY <1>2, <2>1, Inactive DEF Active, AscentInv
<1>4. Settled(s)
  BY <1>1, <1>3 DEF Ascent, Mending, Debtor, Redeemer, Restarts
<1>5. StartedBy(k, s) \/ op[k] # "start"
  BY <1>4 DEF Settled, Claims, Starts
<1>6. CreatedBy(k, s) \/ op[k] # "create"
  BY <1>4 DEF Settled, Claims
<1> QED BY <1>1, <1>3, <1>5, <1>6 DEF Achieved, StartedBy, CreatedBy, WillStart, WillCreate

\* With a Docker that does what it is asked and containers that do not exit by themselves,
\* of tasks that only create and start, however many overlap, each that
\* reports "Done." has brought its services up for good, whenever the server
\* dies and whatever becomes of the deployment.
THEOREM WhatIsBroughtUpStaysUp ==
  ASSUME Faults = {}, "exit" \notin Changes
  PROVE  Spec => []UpForGood
<1>1. Init => AscentInv
  BY AscentInit, LifecycleAssumption
<1>2. AscentInv /\ [Next]_vars => AscentInv'
  BY AscentNext, LifecycleAssumption
<1> QED BY <1>1, <1>2, AscentStaysUp, PTL DEF Spec

\* What overlapping tasks of one direction, restarts apart, report as "Done."
\* is so at that moment and ever after, for any number of tasks and services.
THEOREM DoneAlwaysStaysDone ==
  ASSUME Faults = {}, Changes \subseteq {"crash"}
  PROVE  Spec => []DoneStaysDone
<1>1. Spec => []DownForGood
  BY WhatIsTakenDownStaysDown
<1>2. Spec => []UpForGood
  BY WhatIsBroughtUpStaysUp
<1>3. DownForGood /\ UpForGood => DoneStaysDone
  BY DEF DownForGood, UpForGood, TakingDown, DoneStaysDone
<1> QED BY <1>1, <1>2, <1>3, PTL

=============================================================================
