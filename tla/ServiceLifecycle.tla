---------------------------- MODULE ServiceLifecycle ----------------------------
(***************************************************************************)
(* The tasks of mcloud/tasks.py that drive the containers of one           *)
(* application: create, start, stop, restart, destroy, rebuild, remove.    *)
(* Each is a generator.  It looks the application up, inspects every       *)
(* service once, and from then on acts on what it saw; the work on one     *)
(* service is a generator of its own, a job (mcloud/service.py), which     *)
(* makes calls to a Docker daemon (mcloud/txdocker.py).                    *)
(*                                                                         *)
(* A task's action is one turn of the reactor.  A job's action is one call *)
(* at the moment Docker carries it out; the turn that follows its answer   *)
(* only issues the next call, and is part of it.  Killing a task ends its  *)
(* ticket and not its generator (TaskRpc), so there is no action for it.   *)
(***************************************************************************)
EXTENDS Naturals, FiniteSets

CONSTANTS
  N,             \* services of the application, in the order of mcloud.yml
  Tasks,         \* tasks that may be asked for, each at most once
  Operations,    \* what they may be asked to do
  WaitsFor,      \* services whose configuration has a "wait"
  Web,           \* services with a web or ssl port, which the proxy publishes
  MaxActive,     \* bound: tasks under way at once
  Initially,     \* states the containers may be in at first
  Faults,        \* what may go wrong in a call to Docker
  Changes        \* what may happen without a task

Service == 1 .. N

AllOperations == {"create", "start", "stop", "restart", "destroy", "rebuild", "remove"}

\* "refused": Docker answers with an error.  "lost": no answer in 30 seconds,
\* whether or not the call was carried out.  "stalled": the headers of an answer
\* come and its body never ends, which no timeout covers.
AllFaults == {"refused", "lost", "stalled"}

\* "exit": a container exits.  "crash": the server process dies.
\* "deployment": the record of the deployment the application runs on is
\* removed, or created again.
AllChanges == {"exit", "crash", "deployment"}

ASSUME LifecycleAssumption ==
  /\ N \in Nat
  /\ IsFiniteSet(Tasks)
  /\ Operations \subseteq AllOperations
  /\ WaitsFor \subseteq Service
  /\ Web \subseteq Service
  /\ MaxActive \in Nat
  /\ Initially \subseteq {"absent", "stopped", "running"}
  /\ Faults \subseteq AllFaults
  /\ Changes \subseteq AllChanges

VARIABLES
  container,   \* service -> Docker's container of that name
  data,        \* services that have a directory under <home>/volumes
  registered,  \* the application is in mcloud-apps
  deployment,  \* its deployment is in mcloud-deployments
  op,          \* task -> what it was asked to do, "none" before
  target,      \* task -> the services it was asked to do it to
  scrub,       \* task -> whether --scrub-data was asked for
  part,        \* task -> which task_* method its generator is in
  stage,       \* task -> where its generator is suspended
  at,          \* task -> the service its loop has come to
  seen,        \* task -> service -> Service._inspect_data, "unknown" before;
               \* "stalled" when the task hangs in an inspection
  job,         \* task -> service -> the generator at work on it
  result,      \* task -> what the task returned, or "failure"
  before       \* history: task -> the containers when it began

docker == <<container, data>>
registry == <<registered, deployment>>
asked == <<op, target, scrub, before>>
progress == <<part, stage, at, result>>
vars == <<docker, registry, asked, progress, seen, job>>

State == {"absent", "stopped", "running"}

\* The id is that of the container, or of the last one that had its name.
Container == [state : State, id : Nat]

Stage == {"idle", "get", "deployment", "inspect", "creating", "starting",
          "waiting", "pausing", "stopping", "gathering", "unregistering", "over"}

\* Where a job is: the call it makes next, "stalled" in one, or how it ended.
Pending == {"find", "post", "created", "refind", "image", "run", "started", "exec", "listen",
            "kill", "delete", "look", "stalled"}
Ended == {"done", "failed"}
JobName == {"create", "start", "stop", "destroy"}
Job == [name : JobName \cup {"none"}, pc : Pending \cup Ended \cup {"idle"}, id : Nat]

NoJob == [name |-> "none", pc |-> "idle", id |-> 0]
NewJob(name) == [name |-> name, pc |-> IF name = "create" THEN "post" ELSE "find", id |-> 0]

TypeOK ==
  /\ container \in [Service -> Container]
  /\ data \subseteq Service
  /\ registered \in BOOLEAN
  /\ deployment \in BOOLEAN
  /\ op \in [Tasks -> AllOperations \cup {"none"}]
  /\ target \in [Tasks -> SUBSET Service]
  /\ scrub \in [Tasks -> BOOLEAN]
  /\ part \in [Tasks -> {"none", "create", "start", "stop", "destroy", "unregister"}]
  /\ stage \in [Tasks -> Stage]
  /\ at \in [Tasks -> Service \cup {0}]
  /\ seen \in [Tasks -> [Service -> State \cup {"unknown", "stalled"}]]
  /\ job \in [Tasks -> [Service -> Job]]
  /\ result \in [Tasks -> {"none", "Done.", "False", "None", "failure", "lost"}]
  /\ before \in [Tasks -> [Service -> Container]]

NoContainer == [state |-> "absent", id |-> 0]

\* Tasks that came earlier may have left any containers.
Init ==
  /\ \E left \in [Service -> Initially] :
       /\ container = [s \in Service |-> IF left[s] = "absent" THEN NoContainer
                                        ELSE [state |-> left[s], id |-> 1]]
       /\ data = {s \in Service : left[s] # "absent"}
  /\ registered = TRUE
  /\ deployment = TRUE
  /\ op = [k \in Tasks |-> "none"]
  /\ target = [k \in Tasks |-> {}]
  /\ scrub = [k \in Tasks |-> FALSE]
  /\ part = [k \in Tasks |-> "none"]
  /\ stage = [k \in Tasks |-> "idle"]
  /\ at = [k \in Tasks |-> 0]
  /\ seen = [k \in Tasks |-> [s \in Service |-> "unknown"]]
  /\ job = [k \in Tasks |-> [s \in Service |-> NoJob]]
  /\ result = [k \in Tasks |-> "none"]
  /\ before = [k \in Tasks |-> [s \in Service |-> NoContainer]]

-----------------------------------------------------------------------------
(***************************************************************************)
(* Jobs: Service.create, start, stop, destroy, call by call.               *)
(***************************************************************************)

Busy(k, s) == job[k][s].pc \in Pending

MovesJob(k, s, pc, id) ==
  job' = [job EXCEPT ![k][s].pc = pc, ![k][s].id = id]

\* A call that would make c of the container of s.  pc is where the job goes
\* after an answer, refusedPc after an answer that is an error; without an
\* answer the request raises DockerConnectionFailed.
Call(k, s, c, pc, refusedPc) ==
  LET id == job[k][s].id
      carriedOut == container' = [container EXCEPT ![s] = c]
  IN \/ carriedOut /\ MovesJob(k, s, pc, id)
     \/ "refused" \in Faults /\ UNCHANGED container /\ MovesJob(k, s, refusedPc, id)
     \/ /\ "lost" \in Faults
        /\ carriedOut \/ UNCHANGED container
        /\ MovesJob(k, s, "failed", id)

Bug_AfterFind(name, pc, id) ==  \* pauses what it was to stop
  IF name = "start"
  THEN IF id = 0 /\ pc = "find" THEN "post" ELSE "image"
  ELSE IF name = "stop" THEN "pause" ELSE "delete"

\* Where a job goes once it knows the container's id, 0 if there is none.
AfterFind(name, pc, id) ==
  IF name = "start"
  THEN IF id = 0 /\ pc = "find" THEN "post" ELSE "image"
  ELSE IF name = "stop" THEN "kill" ELSE "delete"

\* find_container_by_name.  Any answer but a 200 is "no such container".
Find(k, s) ==
  LET j == job[k][s]
      known == IF container[s].state = "absent" THEN 0 ELSE container[s].id
  IN /\ j.pc \in {"find", "refind"}
     /\ \/ MovesJob(k, s, AfterFind(j.name, j.pc, known), known)
        \/ "refused" \in Faults /\ MovesJob(k, s, AfterFind(j.name, j.pc, 0), 0)
        \/ "lost" \in Faults /\ MovesJob(k, s, "failed", 0)
     /\ UNCHANGED <<docker, registry, asked, progress, seen>>

\* 201 creates the container; 409, the name is taken, counts as success.
Created(c) == IF c.state = "absent" THEN [state |-> "stopped", id |-> c.id + 1] ELSE c

Bug_Post(k, s) ==  \* 409 is an error
  /\ job[k][s].pc = "post"
  /\ Call(k, s, Created(container[s]),
          IF container[s].state = "absent" THEN "created" ELSE "failed", "failed")
  /\ UNCHANGED <<data, registry, asked, progress, seen>>

\* build_image, _generate_config, create_container; an error raises CommandFailed.
Post(k, s) ==
  /\ job[k][s].pc = "post"
  /\ Call(k, s, Created(container[s]), "created", "failed")
  /\ UNCHANGED <<data, registry, asked, progress, seen>>

\* start_container by id: any answer is taken.  The directory of the image's
\* volumes was made before; Docker makes the one it mounts if it is missing.
Run(k, s) ==
  LET c == container[s]
      hit == c.id = job[k][s].id /\ c.state # "absent"
  IN /\ job[k][s].pc = "run"
     /\ Call(k, s, IF hit THEN [c EXCEPT !.state = "running"] ELSE c, "started", "started")
     /\ data' = data \cup {s}
     /\ UNCHANGED <<registry, asked, progress, seen>>

\* stop_container by id: any answer is taken.
Kill(k, s) ==
  LET c == container[s]
      hit == c.id = job[k][s].id /\ c.state = "running"
  IN /\ job[k][s].pc = "kill"
     /\ Call(k, s, IF hit THEN [c EXCEPT !.state = "stopped"] ELSE c, "look", "look")
     /\ UNCHANGED <<data, registry, asked, progress, seen>>

\* remove_container by id: any answer is taken.  Docker does not remove a
\* container that runs.
Delete(k, s) ==
  LET c == container[s]
      hit == c.id = job[k][s].id /\ c.state = "stopped"
  IN /\ job[k][s].pc = "delete"
     /\ Call(k, s, IF hit THEN [c EXCEPT !.state = "absent"] ELSE c, "look", "look")
     /\ UNCHANGED <<data, registry, asked, progress, seen>>

\* What Service.inspect can make of service s: without an answer it stores
\* None, which reads as "not created".
Inspection(s) ==
  {container[s].state} \cup IF "lost" \in Faults THEN {"absent"} ELSE {}

\* After the call that starts a container, and the file put into it: the
\* listeners, of which only the proxy's does something, for a web service.
Emit(s) == IF s \in Web THEN "listen" ELSE "look"

\* start needs the image of what it inspected, and raises without it; it puts
\* a file into the container it has started if that is found running.
AfterLook(name, pc, s, found) ==
  IF pc = "image" THEN IF found = "absent" THEN "failed" ELSE "run"
  ELSE IF pc = "started" THEN IF found = "running" THEN "exec" ELSE Emit(s)
  ELSE IF pc = "created" /\ name = "start" THEN "refind"
  ELSE "done"

\* The inspection after a call, and the one of start before it, with that of
\* the image.  An error is no JSON and raises; no answer about the image does.
Look(k, s) ==
  LET j == job[k][s]
  IN /\ j.pc \in {"created", "image", "started", "look"}
     /\ \/ \E found \in Inspection(s) :
             /\ seen' = [seen EXCEPT ![k][s] = found]
             /\ MovesJob(k, s, AfterLook(j.name, j.pc, s, found), j.id)
        \/ /\ "refused" \in Faults \/ ("lost" \in Faults /\ j.pc = "image")
           /\ MovesJob(k, s, "failed", j.id)
           /\ UNCHANGED seen
     /\ UNCHANGED <<docker, registry, asked, progress>>

\* put_file by id: an exec made in the container, which must run, and started.
\* What the first call answers is used, what the second one does is not.
Exec(k, s) ==
  LET j == job[k][s]
      hit == container[s].id = j.id /\ container[s].state = "running"
  IN /\ j.pc = "exec"
     /\ \/ hit /\ MovesJob(k, s, Emit(s), j.id)
        \/ /\ ~ hit \/ "refused" \in Faults \/ "lost" \in Faults
           /\ MovesJob(k, s, "failed", j.id)
     /\ UNCHANGED <<docker, registry, asked, progress, seen>>

\* The listener rebuilds the proxy of the deployment, which raises when other
\* rebuilds get in its way (Publishing), those of other applications included.
Listen(k, s) ==
  /\ job[k][s].pc = "listen"
  /\ \E pc \in {"look", "failed"} : MovesJob(k, s, pc, job[k][s].id)
  /\ UNCHANGED <<docker, registry, asked, progress, seen>>

JobStep(k, s) ==
  \/ Find(k, s) \/ Post(k, s) \/ Run(k, s) \/ Kill(k, s) \/ Delete(k, s)
  \/ Look(k, s) \/ Exec(k, s) \/ Listen(k, s)

-----------------------------------------------------------------------------
(***************************************************************************)
(* Tasks.                                                                  *)
(***************************************************************************)

\* restart is task_stop and then task_start, rebuild task_destroy and then
\* task_start, remove task_destroy and then the removal from mcloud-apps.
FirstPart(operation) ==
  IF operation = "restart" THEN "stop"
  ELSE IF operation \in {"rebuild", "remove"} THEN "destroy"
  ELSE operation

SecondPart(operation) ==
  IF operation \in {"restart", "rebuild"} THEN "start"
  ELSE IF operation = "remove" THEN "unregister"
  ELSE "none"

Active(k) == stage[k] \notin {"idle", "over"}

\* task_remove always destroys with scrub_data=True.
Scrubs(k) == scrub[k] \/ op[k] = "remove"

First(S, s) == s \in S /\ \A t \in S : s <= t

Over(k, r) ==
  /\ stage' = [stage EXCEPT ![k] = "over"]
  /\ result' = [result EXCEPT ![k] = r]
  /\ part' = [part EXCEPT ![k] = "none"]
  /\ at' = [at EXCEPT ![k] = 0]

\* A part is done: on to the second one, which loads the application anew, or
\* r is what the task returns.
PartEnds(k, r) ==
  LET rest == SecondPart(op[k])
  IN IF rest \in {"none", part[k]}
     THEN Over(k, r)
     ELSE /\ part' = [part EXCEPT ![k] = rest]
          /\ stage' = [stage EXCEPT ![k] = IF rest = "unregister" THEN "unregistering" ELSE "get"]
          /\ at' = [at EXCEPT ![k] = 0]
          /\ UNCHANGED result

Begin(k) ==
  /\ stage[k] = "idle"
  /\ Cardinality({t \in Tasks : Active(t)}) < MaxActive
  /\ \E o \in Operations, S \in {Service} \cup {{s} : s \in Service} :
       /\ op' = [op EXCEPT ![k] = o]
       /\ target' = [target EXCEPT ![k] = S]
       /\ part' = [part EXCEPT ![k] = FirstPart(o)]
       /\ scrub' \in {scrub} \cup IF o \in {"destroy", "rebuild"}
                                    THEN {[scrub EXCEPT ![k] = TRUE]} ELSE {}
  /\ stage' = [stage EXCEPT ![k] = "get"]
  /\ before' = [before EXCEPT ![k] = container]
  /\ UNCHANGED <<docker, registry, at, seen, job, result>>

\* ApplicationController.get: AppDoesNotExist if the record is gone.
Get(k) ==
  /\ stage[k] = "get"
  /\ IF registered
     THEN stage' = [stage EXCEPT ![k] = "deployment"] /\ UNCHANGED <<part, at, result>>
     ELSE Over(k, "failure")
  /\ UNCHANGED <<docker, registry, asked, seen, job>>

\* Application.load.  Without its deployment it returns a dict that describes
\* the error; task_destroy returns None then, the others fail on it.
Load(k) ==
  /\ stage[k] = "deployment"
  /\ \/ /\ deployment
        /\ stage' = [stage EXCEPT ![k] = "inspect"]
        /\ seen' = [seen EXCEPT ![k] = [s \in Service |-> "unknown"]]
        /\ UNCHANGED <<part, at, result>>
     \/ /\ ~ deployment
        /\ IF part[k] = "destroy" THEN PartEnds(k, "None") ELSE Over(k, "failure")
        /\ UNCHANGED seen
  /\ UNCHANGED <<docker, registry, asked, job>>

\* The inspections of load are gathered: the first that raises ends the task.
Inspect(k, s) ==
  /\ stage[k] = "inspect"
  /\ seen[k][s] = "unknown"
  /\ \/ /\ \E found \in Inspection(s) : seen' = [seen EXCEPT ![k][s] = found]
        /\ UNCHANGED progress
     \/ "refused" \in Faults /\ Over(k, "failure") /\ UNCHANGED seen
  /\ UNCHANGED <<docker, registry, asked, job>>

Inspected(k) == stage[k] = "inspect" /\ \A s \in Service : seen[k][s] \in State

Launch(k, S, name) ==
  job' = [job EXCEPT ![k] = [s \in Service |-> IF s \in S THEN NewJob(name) ELSE job[k][s]]]

\* The task waits at service s.
SuspendAt(k, where, s) ==
  /\ stage' = [stage EXCEPT ![k] = where]
  /\ at' = [at EXCEPT ![k] = s]
  /\ UNCHANGED <<part, result>>

\* The second loop of task_start, after the services up to last.
StartNext(k, last) ==
  LET down == {s \in target[k] : s > last /\ seen[k][s] # "running"}
  IN \/ \E s \in down : First(down, s) /\ Launch(k, {s}, "start") /\ SuspendAt(k, "starting", s)
     \/ down = {} /\ PartEnds(k, "Done.") /\ UNCHANGED job

\* The loop of task_create, which is the first one of task_start.
CreateNext(k, last) ==
  LET missing == {s \in target[k] : s > last /\ seen[k][s] = "absent"}
  IN \/ \E s \in missing : First(missing, s) /\ Launch(k, {s}, "create") /\ SuspendAt(k, "creating", s)
     \/ /\ missing = {}
        /\ IF part[k] = "start" THEN StartNext(k, 0) ELSE PartEnds(k, "Done.") /\ UNCHANGED job

\* The loop of task_stop, which waits for nothing.
StopAll(k) ==
  /\ Launch(k, {s \in target[k] : seen[k][s] = "running"}, "stop")
  /\ SuspendAt(k, "gathering", 0)

\* The services task_destroy stops before it destroys them.
StopsFirst(k, ahead, down) == {s \in ahead \ down : seen[k][s] = "running"}

Bug_DestroyTurn(k, S, down, stops) ==  \* deletes the volumes of stops as well
  /\ job' = [job EXCEPT ![k] = [t \in Service |->
       IF t \in S /\ (t \in down \/ seen[k][t] # "absent") THEN NewJob("destroy")
       ELSE IF t \in stops THEN NewJob("stop") ELSE job[k][t]]]
  /\ data' = IF Scrubs(k) THEN data \ (S \cup stops) ELSE data

\* One turn of task_destroy: it destroys the containers of S that exist, those
\* of down for certain, deletes the volumes, and begins to stop those of stops.
DestroyTurn(k, S, down, stops) ==
  /\ job' = [job EXCEPT ![k] = [t \in Service |->
       IF t \in S /\ (t \in down \/ seen[k][t] # "absent") THEN NewJob("destroy")
       ELSE IF t \in stops THEN NewJob("stop") ELSE job[k][t]]]
  /\ data' = IF Scrubs(k) THEN data \ S ELSE data

\* The loop of task_destroy over the services in ahead, those in down being
\* stopped by now: it comes to the next one that runs and waits for its stop.
DestroyNext(k, ahead, down) ==
  LET up == StopsFirst(k, ahead, down)
  IN \/ \E s \in up : /\ First(up, s)
                      /\ DestroyTurn(k, {t \in ahead : t < s}, down, {s})
                      /\ SuspendAt(k, "stopping", s)
     \/ up = {} /\ DestroyTurn(k, ahead, down, {}) /\ SuspendAt(k, "gathering", 0)

\* The turn after the last inspection.
Loaded(k) ==
  /\ Inspected(k)
  /\ \/ part[k] \in {"create", "start"} /\ CreateNext(k, 0) /\ UNCHANGED data
     \/ part[k] = "stop" /\ StopAll(k) /\ UNCHANGED data
     \/ part[k] = "destroy" /\ DestroyNext(k, target[k], {})
  /\ UNCHANGED <<container, registry, asked, seen>>

JobEnded(k, where, how) == stage[k] = where /\ job[k][at[k]].pc = how

\* A job the generator waits for raises, and so does the task.
JobFailed(k) ==
  /\ \E where \in {"creating", "starting", "stopping"} : JobEnded(k, where, "failed")
  /\ Over(k, "failure")
  /\ UNCHANGED <<docker, registry, asked, seen, job>>

AfterCreate(k) ==
  /\ JobEnded(k, "creating", "done")
  /\ CreateNext(k, at[k])
  /\ UNCHANGED <<docker, registry, asked, seen>>

\* Without a "wait" the task sleeps 0.2 seconds and looks at nothing.
AfterStart(k) ==
  /\ JobEnded(k, "starting", "done")
  /\ IF at[k] \in WaitsFor
     THEN SuspendAt(k, "waiting", at[k]) /\ UNCHANGED job
     ELSE StartNext(k, at[k])
  /\ UNCHANGED <<docker, registry, asked, seen>>

\* The container reported itself ready; the task sleeps a little longer.
Ready(k) ==
  /\ stage[k] = "waiting"
  /\ seen[k][at[k]] # "stalled"
  /\ container[at[k]].state = "running"
  /\ SuspendAt(k, "pausing", at[k])
  /\ UNCHANGED <<docker, registry, asked, seen, job>>

GoesOnIf(k, up) == IF up THEN StartNext(k, at[k]) ELSE Over(k, "False") /\ UNCHANGED job

\* After the pause is_running() judges by the inspection start ended with.
AfterPause(k) ==
  /\ stage[k] = "pausing"
  /\ GoesOnIf(k, seen[k][at[k]] = "running")
  /\ UNCHANGED <<docker, registry, asked, seen>>

Bug_TimedOut(k) == FALSE  \* waits for the event without a timeout

\* No report in time: the service is inspected again, and judged by that.
TimedOut(k) ==
  /\ stage[k] = "waiting"
  /\ seen[k][at[k]] # "stalled"
  /\ \/ \E found \in Inspection(at[k]) :
          /\ seen' = [seen EXCEPT ![k][at[k]] = found]
          /\ GoesOnIf(k, found = "running")
     \/ "refused" \in Faults /\ Over(k, "failure") /\ UNCHANGED <<seen, job>>
  /\ UNCHANGED <<docker, registry, asked>>

Bug_AfterStop(k) ==  \* forgets to destroy what it stopped
  /\ JobEnded(k, "stopping", "done")
  /\ DestroyNext(k, {s \in target[k] : s > at[k]}, {})
  /\ UNCHANGED <<container, registry, asked, seen>>

AfterStop(k) ==
  /\ JobEnded(k, "stopping", "done")
  /\ DestroyNext(k, {s \in target[k] : s >= at[k]}, {at[k]})
  /\ UNCHANGED <<container, registry, asked, seen>>

Bug_Gathered(k) ==  \* does not wait for the jobs
  /\ stage[k] = "gathering"
  /\ PartEnds(k, "Done.")
  /\ UNCHANGED <<docker, registry, asked, seen, job>>

\* gatherResults: the first failure is the task's, the other jobs go on.
Gathered(k) ==
  /\ stage[k] = "gathering"
  /\ \/ (\A s \in Service : ~ Busy(k, s) /\ job[k][s].pc # "failed") /\ PartEnds(k, "Done.")
     \/ (\E s \in Service : job[k][s].pc = "failed") /\ Over(k, "failure")
  /\ UNCHANGED <<docker, registry, asked, seen, job>>

\* ApplicationController.remove of the name the task was given: that of a
\* single service is not in mcloud-apps.
Unregister(k) ==
  /\ stage[k] = "unregistering"
  /\ registered' = (registered /\ target[k] # Service)
  /\ Over(k, "Done.")
  /\ UNCHANGED <<docker, deployment, asked, seen, job>>

TaskTurn(k) ==
  \/ Get(k) \/ Load(k) \/ Loaded(k) \/ JobFailed(k)
  \/ AfterCreate(k) \/ AfterStart(k) \/ AfterPause(k) \/ TimedOut(k)
  \/ AfterStop(k) \/ Gathered(k) \/ Unregister(k)

-----------------------------------------------------------------------------
(***************************************************************************)
(* What happens without a task.                                            *)
(***************************************************************************)

ContainerExits(s) ==
  /\ "exit" \in Changes
  /\ container[s].state = "running"
  /\ container' = [container EXCEPT ![s].state = "stopped"]
  /\ UNCHANGED <<data, registry, asked, progress, seen, job>>

\* deployment_remove, which asks no application; deployment_create.
DeploymentChanges ==
  /\ "deployment" \in Changes
  /\ deployment' = ~ deployment
  /\ UNCHANGED <<docker, registered, asked, progress, seen, job>>

\* The body of an answer of Docker does not end (find, build and pull, inspect,
\* stats, put_file), in a job or in an inspection of the task itself.  The calls
\* that start, stop and remove a container read no body.
Stalls(k, s) ==
  /\ "stalled" \in Faults
  /\ \/ /\ Busy(k, s) /\ job[k][s].pc \notin {"run", "kill", "delete", "stalled"}
        /\ MovesJob(k, s, "stalled", job[k][s].id)
        /\ UNCHANGED seen
     \/ /\ \/ stage[k] = "inspect" /\ seen[k][s] = "unknown"
           \/ stage[k] = "waiting" /\ at[k] = s /\ seen[k][s] # "stalled"
        /\ seen' = [seen EXCEPT ![k][s] = "stalled"]
        /\ UNCHANGED job
  /\ UNCHANGED <<docker, registry, asked, progress>>

\* The server process dies: nothing of its generators is kept anywhere.
Crash ==
  /\ "crash" \in Changes
  /\ \E k \in Tasks : Active(k) \/ \E s \in Service : Busy(k, s)
  /\ job' = [k \in Tasks |-> [s \in Service |-> NoJob]]
  /\ stage' = [k \in Tasks |-> IF Active(k) THEN "over" ELSE stage[k]]
  /\ result' = [k \in Tasks |-> IF Active(k) THEN "lost" ELSE result[k]]
  /\ part' = [k \in Tasks |-> "none"]
  /\ at' = [k \in Tasks |-> 0]
  /\ UNCHANGED <<docker, registry, asked, seen>>

Next ==
  \/ \E k \in Tasks : Begin(k) \/ Ready(k) \/ TaskTurn(k)
  \/ \E k \in Tasks, s \in Service : Inspect(k, s) \/ JobStep(k, s) \/ Stalls(k, s)
  \/ \E s \in Service : ContainerExits(s)
  \/ DeploymentChanges
  \/ Crash

Spec == Init /\ [][Next]_vars

\* The reactor goes on with a generator whose answer or timer has come; a
\* request to Docker gets the headers of an answer or ends by its timeout of 30
\* seconds, and a body that has begun ends unless the call has stalled.  That
\* Redis answers is a premise: nothing limits the wait for it.
Fairness ==
  /\ \A k \in Tasks : WF_vars(TaskTurn(k))
  /\ \A k \in Tasks, s \in Service : WF_vars(Inspect(k, s)) /\ WF_vars(JobStep(k, s))

FairSpec == Spec /\ Fairness

-----------------------------------------------------------------------------
(***************************************************************************)
(* Properties.                                                             *)
(***************************************************************************)

\* What a task that reports "Done." promises of service s.  What becomes of the
\* volumes is left out for remove: it deletes them (Scrubs), and
\* docs/source/use/app.rst says that it "still will not".
Achieved(k, s) ==
  LET c == container[s]
  IN /\ op[k] = "create" => c.state # "absent"
     /\ op[k] \in {"start", "restart", "rebuild"} => c.state = "running"
     /\ op[k] = "stop" => c.state # "running"
     /\ op[k] \in {"destroy", "remove"} => c.state = "absent"
     /\ op[k] = "destroy" /\ scrub[k] => s \notin data

\* It is still the same container, or for rebuild, no longer.
RightContainer(k, s) ==
  before[k][s].state # "absent" =>
    IF op[k] = "rebuild" THEN container[s].id > before[k][s].id
                         ELSE container[s].id = before[k][s].id

Ends(k, r) == stage[k] # "over" /\ stage'[k] = "over" /\ result'[k] = r

\* With one operator and a Docker that does what it is asked (Faults = {}: no
\* call refused, lost or stalled), a task that reports "Done." has brought every
\* service it was asked about to the state it was asked for, whatever state an
\* earlier task or a crash of the server left; rebuild has made new containers,
\* every other task kept the ones there were, and the services it was not asked
\* about are as before.  (The answers of start, stop and delete are not used:
\* after a refusal a task reports "Done." as well, with nothing done.)
DoneMeansDone ==
  [][\A k \in Tasks : Ends(k, "Done.") =>
       /\ \A s \in target[k] : Achieved(k, s)' /\ RightContainer(k, s)'
       /\ \A s \in Service \ target[k] : container'[s] = before[k][s]]_vars

\* With one operator and no call refused or lost, no volume directory is deleted
\* under a running container (the rmtree of task_destroy comes before the removal
\* of the container has been answered).  A stop that Docker refuses is taken for
\* one that succeeded, and the rmtree follows.
ScrubbedWhileDown ==
  [][\A s \in data \ data' : container[s].state # "running"]_vars

Quiet == \A k \in Tasks : ~ Active(k) /\ \A s \in Service : ~ Busy(k, s)

\* The tasks asked for pull the same way.
AllMeantTo(operations) == \A k \in Tasks : op[k] \in operations \cup {"none"}

\* Tasks that overlap on one application, all meant to bring it up or all
\* meant to take it down: once everything has come to rest, what every task
\* reported as "Done." is so, though each acted on its own stale inspection.
\* (Unless a restart or a rebuild did not get to the end: it took services
\* down that another task had reported up, and left them there.)
SettledAsAsked ==
  /\ Quiet
  /\ \/ /\ AllMeantTo({"create", "start", "restart", "rebuild"})
        /\ \A k \in Tasks : op[k] \in {"restart", "rebuild"} => result[k] = "Done."
     \/ AllMeantTo({"stop", "destroy", "remove"})
  => \A k \in Tasks : result[k] = "Done." => \A s \in target[k] : Achieved(k, s)

\* Of tasks that overlap and only create and start, or only take down, what
\* one has reported as "Done." is so at every moment from then on: none acts
\* on what it saw too long ago so as to undo it (the call that is on its way
\* when the report is made included).
DoneStaysDone ==
  AllMeantTo({"create", "start"}) \/ AllMeantTo({"stop", "destroy", "remove"}) =>
    \A k \in Tasks : result[k] = "Done." => \A s \in target[k] : Achieved(k, s)

\* Tasks that only create and start services of one application, overlapping as
\* they may, never make a second container of a name, and fail in one place only:
\* a start in a listener, that is, once a web service it was asked for runs.
\* (Creating at once, starting at once, or putting the file in at once fails none.)
StartsShare ==
  AllMeantTo({"create", "start"}) =>
    /\ \A k \in Tasks : result[k] = "failure" =>
         op[k] = "start" /\ \E s \in target[k] \cap Web : container[s].state = "running"
    /\ \A s \in Service : container[s].id <= 1

\* A task that has reported anything but a failure left no generator behind
\* that still drives a container (gatherResults waits for all of them only as
\* long as none fails).
NoJobOutlivesSuccess ==
  \A k \in Tasks : result[k] \in {"Done.", "False", "None"} => \A s \in Service : ~ Busy(k, s)

Stalled(k) == \E s \in Service : job[k][s].pc = "stalled" \/ seen[k][s] = "stalled"

\* However Docker refuses and loses calls, a task that began comes to an end, and
\* so does what it left behind, unless the body of an answer never ended.
EveryTaskEnds ==
  \A k \in Tasks :
    Active(k) ~> ((stage[k] = "over" /\ \A s \in Service : ~ Busy(k, s)) \/ Stalled(k))

\* docs/source/use/local_start_tune.rst: after the ready report, "pause for
\* 3s", "check container is still running and continue execution".
ChecksStillRunning ==
  [][\A k \in Tasks :
       stage[k] = "pausing" /\ stage'[k] \in {"starting", "over"} /\ result'[k] \in {"none", "Done."}
         => container[at[k]].state = "running"]_vars

=============================================================================
