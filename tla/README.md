# Verification of mcloud

mcloud runs applications, described by a `mcloud.yml`, as Docker containers. A
server process (`mcloud-server`, one Twisted reactor, Python 2) keeps its state
in Redis, talks to one or more Docker daemons over HTTP, and is driven by the
`mcloud` command over a websocket. This directory holds TLA+ modules translated
from that code, TLC configurations that check them on small instances, and
proofs that TLAPS checks for every instance.


## 1. The system

| Part | Files | State it keeps | Operations | Hard part |
|---|---|---|---|---|
| Task RPC | `mcloud/remote.py` | server: `ticket_map`, `tasks_running`; client: `request_map`, `task_map`; Redis: `mcloud-ticket-id` | `task_start`, `kill`, `list`, `ping`, `stdin`; events `task.progress`, `task.success`, `task.failure` | kills, disconnects, restarts and task ends race |
| Service lifecycle | `mcloud/tasks.py`, `service.py`, `txdocker.py` | Docker containers, volume directories; per task an inspection of every service | create, start, stop, restart, rebuild, destroy, remove, run, inspect | several tasks on one application, each with its own stale inspection; answers of Docker that are ignored |
| Registry | `mcloud/application.py`, `deployment.py` | Redis hashes `mcloud-apps`, `mcloud-deployments`, key `mcloud-deployment-default` | init, update, remove, set-deployment; create, update, remove, set default, publish, unpublish | every update is a read, a change and a write some turns later |
| Event bus | `mcloud/events.py`, `util.py` | pattern -> callbacks, Redis subscriptions | `on`, `once`, `cancel`, `wait_for_event`, `fire_event` | callbacks that share a subscription, timeouts, reconnects |
| Web page (the older client) | `mcloud/static_old/assets/js`, `components/reconnectingWebsocket` | the socket, calls that wait, tasks of the terminals, the table | select, inspect, logs, run, refresh, type | answers that race clicks, attempts to connect that race losses |
| Configuration | `mcloud/config.py`, `container.py` | none | load, validate, filter by environment, extend, process | small algorithms with corner cases |
| Command line | `mcloud/rpc_client.py`, `main.py`, `shell.py`, `interrupt.py` | the interrupt stack | one function per command | Ctrl-C while something is under way |
| Sync | `mcloud/sync.py` | the rsync container of a session | upload, download, watch | a container that must be removed however the session ends |
| Attach | `mcloud/attach.py` | terminal mode, one raw connection | `run`, `shell` | switch of the protocol in mid-stream |
| Plugins | `plugins/haproxy`, `mcloud/plugins` | which plugins are loaded, the haproxy container and its configuration | rebuild on set-up, start, publish, unpublish; called only once their set-up has succeeded | two rebuilds at once; a set-up that failed |
| Set-up | `txhttp.py`, `ssl.py`, `rpc_server.py` | none | wiring of libraries; at the start the plugins are set up and the deployments of all docker-machines written, while the server answers already | what the start writes meets what tasks wrote before (in `Registry`, `Publishing`) |

How they interact. The command line calls a task over the RPC; the server looks
the name up in the methods `task_*` of `TaskService` and runs it as an
`inlineCallbacks` generator, which reads the registry, inspects and drives
containers, and reports through `ApiRpcServer.task_progress`. Starting a web
service, publishing and unpublishing call the listeners of the plugins, haproxy
among them, inside the task. The event bus connects a running container
(`@me ready`) with the task that waits for it, and the client's key strokes with
an attached container. The web page under `static_old` is another client of the RPC, over a socket that
reconnects; it is the older client, kept in the repository, while the server serves `static/build/client`
(`remote.py:276`). Nothing locks anything: what is atomic is one turn of the
reactor, from one `yield` to the next.

What makes each part correct, in the order in which this project takes them:

- **Task RPC.** A client learns its ticket before anything about it; it sees one
  outcome, and nothing after it; a ticket belongs to one client, across restarts;
  a request is answered once; a kill releases who waits; the two tables of the
  server agree about which tasks can still be killed or reported.
- **Service lifecycle.** A task that reports success leaves the containers in the
  state it was asked for if nobody else works on the application and Docker does what
  it is asked (its answers to start, stop and delete are not used); tasks that only
  start converge; a plain `remove` keeps the volumes (it does not, section 4); with one
  operator, and no call that Docker refuses or loses, a volume goes only while its container is down.
- **Registry.** A task that no other writer of the same record overlaps is atomic, and
  its effect lasts until somebody asks for the opposite; with overlapping writers, nothing appears that nobody wrote.
- **Plugins.** Whoever publishes alone, with the plugin loaded and no refusal of Docker's
  ignored, leaves a load balancer that runs and serves what
  the registry publishes; rebuilds that overlap leave it up.
- **Event bus.** A wait is released once, by the event or by the timeout; what
  arrives reaches everyone registered at that moment, in order.
- **Web page.** It believes in a connection exactly when there is one; answers are
  matched with their calls; no event comes before its listeners; while a connection lasts, no task of it is left behind.
- **Configuration.** A volume stays below the application; an environment filter
  keeps exactly the sections of that environment; extension terminates. (Not modelled.)

## 2. The modules

One module per component, composed where components interact.

| Module | Models | Runs as | Theorems in |
|---|---|---|---|
| `TaskRpc` (implements `TicketService`) | the task protocol | `MCTaskRpc` | `TaskRpcProofs`, `TaskRpcAnswers` |
| `ServiceLifecycle` | the tasks that change containers | `MCServiceLifecycle` | `LifecycleProofs`, `LifecycleOutcomes` |
| `Registry` | the records in Redis and the tasks that change them | `MCRegistry` | `RegistryProofs` |
| `Publishing` (extends `Registry`) | the haproxy plugin inside those tasks | `MCPublishing` | `PublishingProofs` |
| `EventBus` | subscriptions, waits and timeouts | itself | `EventBusProofs` |
| `WebClient` | the page and its socket | itself | `WebProofs` |

`WebClient` and `EventBus` need no definitions for TLC beyond the values of their
constants, so their runs have no module of their own. Every definition named `Bug_...`
is a mutation of the one after it, with the fault it plants in its comment; none is used by a
specification.

Bounds: two tasks or two clients and two of whatever they share, since nearly every hazard
listed in `PROJECT.json` is a race of two actors, or of one actor and a failure. What takes a third (two later tasks that overlap,
and what they do to the effect of an earlier one) is left to the theorems, none of which
depends on a bound.

Left for later: a composition of `TaskRpc` and `ServiceLifecycle`.

## 3. The task protocol

### `TaskRpc`

One action is one turn of the reactor. The correspondence with `mcloud/remote.py`:

| Code | Model |
|---|---|
| `Client.call_sync`, `request_map`, `request_id` | `Call`, `request_map`, `sent` |
| the websocket, each direction | FIFO queues `c2s[s]`, `s2c[s]` |
| `Server.on_message`, per word | `OnTaskStart`, `OnKill`, `OnQuery` (ping, list, unknown word), `OnStdin` |
| `redis.incr('mcloud-ticket-id')` under way | a record in the FIFO `incrs` (one Redis connection, answers in order) |
| its answer: `ticket_map[id] = client`, the response, `callLater(0, _do_start)` | `IncrReply`, `sched` |
| `_do_start` | `DoStart`, by what the task is: `StartUnknown` (no such name: `ValueError` outside the `try`), `StartRaises` (the `except` branch), `StartSyncFail` (a Deferred that has failed already), `StartAsync` |
| `task_completed`, `task_failed` | `TaskEnds`, `Report`, `Forget` (including the `KeyError` that leaves a `ticket_map` entry behind) |
| `task_progress`, `task_stdout` | `Progress` |
| `task_kill` and `cancel()` | `Cancel`: in Twisted 14.0.2 the Deferred of a generator fails at once, the generator itself goes on (`body` stays `"active"`) |
| `on_client_disconnect`, `kill_client_tasks` | `Disconnect` |
| `Client.on_message`, `call`, `Task.on_*` | `Receive`, `TaskAfter`, `task_map` |
| `Client.shutdown`, or the process ends | `Shutdown` |
| the server process dies and starts again | `Restart` |
| the Redis connection is lost | `RedisLost` |

A task is abstracted to its kind; its progress and its end are free. No task in
`TaskService` succeeds without yielding, so that case is not a kind. Payloads
are left out. A client is a process that connects once: the command line makes one
connection per command.

### `TicketService`

The abstract specification: `Join`, `LeaveOrIssue`, `Accept`, `Finish` over the tickets
that exist, who is connected, and what each client sees. The refinement mapping is
in `TaskRpc` (`Promise`): a ticket exists once the Redis counter passed it; a client
sees what its `Task` objects hold.

### Runs

| Run | Question | Instance | Properties |
|---|---|---|---|
| `rpc_races` | do kills, disconnects, restarts, Redis failures and ends of two clients' tasks keep every channel in order and the server's tables in agreement, and implement `TicketService`? | 2 sessions (symmetric), 2 requests each, 2 tickets, start, kill and stdin, Redis failures, tasks that run or fail at once; about 900 000 states | `TypeOK`, `TablesAgree`, `NoUnknownTaskEvent`, `OutcomeIsLast`, `TicketHandedOutOnce`, `AnsweredOnce`, `KillAckAfterOutcome`, `DisconnectCancels`, `ImplementsTicketService` |
| `rpc_answers` | with a fair reactor, is every request answered, does every kill release, and is the end of a task reported? | 2 sessions, 1 request each, 2 tickets, every kind | `RequestsAnswered`, `KillReleasesOwner`, `OutcomeDelivered` |
| `rpc_killed_runs_on` | expected violation: a kill that was confirmed has stopped the task | 2 sessions | `KilledTaskStops` |

Why these bounds are enough for the questions: every race in this protocol is
between at most two connections and the tickets of one of them (an owner, and a
killer or a second owner); two requests per session allow a start followed by a
kill of the same or of the other session's ticket, and two tickets allow one to be
reused wrongly. `MaxChannel` only bounds how much progress may be undelivered. The
proofs below do not depend on any of the bounds.

Deadlock is checked: a state without successors does not exist, because
`Restart` is always possible.

Fairness (`Fairness`): the reactor processes each socket and each `callLater`, Redis
answers, and a connected client reads. Nobody is obliged to call, to disconnect, or
to end a task; `OutcomeDelivered` alone supposes that tasks end (`TasksEnd`).
`RequestsAnswered` excludes `stdin`, which is never answered, and Redis failures,
after which the except of `on_message` leaves the client without an answer.

### Findings

- No run is spent on this one: `_do_start` raises `No such task` outside its `try`, in a
  reactor call nobody observes, when the client has its ticket already. No failure
  is sent, `ticket_map` keeps the entry, the client waits for ever. The `dns` command
  (`rpc_client.py:1159`) calls a task that does not exist.
- `rpc_killed_runs_on`: `mcloud kill` prints `Task successfully treminated.` while the
  generator of the task goes on and drives containers.

### Proofs

`TaskRpcProofs` and `TaskRpcAnswers` prove, for every set of sessions and every bound:

- `TypeCorrect`: `Spec => []TypeOK`.
- `TablesAlwaysAgree`: `Spec => []TablesAgree`. `TablesAgree` is not inductive: that a
  scheduled ticket is started only once, and has an owner then, needs
  `TicketsInOrder` (a ticket beyond the counter is unknown everywhere; a scheduled
  ticket has an owner and nothing else; code that outlives its Deferred has no
  owner). `TablesInv` is the conjunction, with `TypeOK`.
- `DisconnectAlwaysCancels`: `Spec => DisconnectCancels`, from `TablesInv`: what is awaited is listed, and only what is
  listed can be cancelled.
- `EventsAlwaysKnown`, `OutcomeAlwaysLast`, `TicketAlwaysHandedOutOnce`, from one
  invariant `ChannelInv`: for each session the messages under way are in order given what
  the client knows (`InOrder`), and the server's tables suit the *end* of that
  channel (`ChannelsSuit`): the owner of a ticket will know it once it has read
  everything, will not have its outcome as long as the ticket is live, tickets beyond
  the counter are unheard of, and no ticket is known to two sessions. Each action
  appends a message that suits (`ResponseSuits`, `EventSuits`, `IncrReplySuits`), takes
  one from the front (`TailInOrder`, `TailMoves`), or only forgets (`NothingSaid`).
- `RpcImplementsTicketService`: `Spec => ImplementsTicketService`, from the same invariant:
  when a client handles `accepted`, nobody else has seen the ticket; when it handles
  an outcome, the ticket is running.
- `AlwaysAnsweredOnce`: `Spec => []AnsweredOnce`. That no answer comes for a request that is closed says nothing
  about the answers not yet made; `AnswerInv` says where an open request is: in exactly one of the client's queue, the
  INCRs Redis still owes the server, and the answers under way.
- `KillAlwaysAckedAfterOutcome`: `Spec => []KillAckAfterOutcome`. `KillInv` adds to `ChannelInv` that an owner is
  a client which knows its ticket once it has read everything, and that the relic of a failed task has been told (`OwnersKnow`, `RelicsTold`).

The only assumption is `RpcAssumption`: the bounds are natural numbers, words and kinds
are among those the code distinguishes, and `NoSession` is not a session.
Only model-checked: the liveness properties, which are out of the prover's reach.

## 4. The service lifecycle

### `ServiceLifecycle`

The tasks of `mcloud/tasks.py` that change containers, for one application. A task is a
generator that loads the application (`Get`, `Load`), inspects every service once
(`Inspect`), and then acts on what it saw (`seen`). The work on one service is a generator
of `mcloud/service.py`, here a *job*, which makes calls to Docker.

| Code | Model |
|---|---|
| `Service._inspect_data` of a task's own `Service` objects | `seen[k][s]`, `"unknown"` until inspected |
| `Service.create / start / stop / destroy` | `job[k][s]`; its call next is `pc`: `Find`, `Post`, `Run`, `Kill`, `Delete`, `Look` |
| `put_file` after a start, if the container runs (`service.py:372`) | `Exec`: raises on a container that does not run any more |
| the listeners of a start (`service.py:385`): for a web service, the rebuild of the proxy | `Emit`, `Listen`: may raise (`Publishing` shows how), for the services in `Web` |
| the body of an answer that does not end (`txdocker.py:85`: the timeout of 30 seconds ends with the headers) | `Stalls` |
| the container ids `find_container_by_name` returns | `job[k][s].id`: a later call by an old id hits nothing |
| `task_restart`, `task_rebuild`, `task_remove` | `FirstPart`, `SecondPart`, `PartEnds`: the second part loads and inspects anew |
| the two loops of `task_start` | `CreateNext`, `StartNext`, `AfterCreate`, `AfterStart` |
| `wait`, the ready event, its timeout | `Ready`, `AfterPause`, `TimedOut` |
| the loop of `task_stop`, `gatherResults` | `StopAll`, `Gathered` (the first failure ends the task, the other jobs go on) |
| the loop of `task_destroy` | `DestroyNext`: one turn from one running service to the next, `rmtree` included (`DestroyTurn`) |
| `app_controller.remove` | `Unregister` |
| Docker | `container`; a call may be refused, lost or stalled (`Faults`); containers exit (`ContainerExits`) |
| the server process dies | `Crash`: nothing of a generator survives |

One action is one turn of a task, or one call of a job at the moment Docker carries it
out. The turn of a job between two calls touches nothing another generator reads, so it
is part of the later call. A lost call has had its effect by the time its 30 seconds are
over, or has none: an effect that comes later still is not modelled. An inspection that gets no
answer reads as "not created", one that Docker answers with an error raises. Not modelled is a task for a service that
`mcloud.yml` does not name (every loop skips everything, and the task reports `Done.`). An image build or a configuration that
fails is a refused `Post`. The listeners of a start are one call that goes on or raises, since the proxy they rebuild is shared
with other applications: its steps are in `Publishing`. A kill of the task is not an action: `TaskRpc` shows that it does
not reach the generator.

What Docker answers to `start`, `stop` and `delete` is not used (`txdocker.py:371, 383, 388`): a call it refuses counts as
done. So a start whose port is taken reports "Done." with nothing running, and a stop that is refused is followed by the `rmtree` of
the volumes under a container that runs. The model has these steps (`Run`, `Kill`, `Delete` under `"refused"`); the properties about success do
not hold there, and say so.

### Runs

| Run | Question | Instance | Properties |
|---|---|---|---|
| `svc_alone` | does a success mean what it says, whatever was there before? | 2 services, one of them with a wait and on the web, 2 tasks one after another, every operation, crashes, no faults; 1.9 million states | `DoneMeansDone`, `ScrubbedWhileDown` |
| `svc_together` | do overlapping tasks that pull the same way end as they report, and do creations disturb each other? | 2 services, one on the web, 2 tasks at once, every operation, no faults; 4.5 million states | `SettledAsAsked`, `DoneStaysDone`, `StartsShare` |
| `svc_faults` | what holds under every failure? | 1 task, every fault and change; 460 000 states | `TypeOK`, `NoJobOutlivesSuccess`, `EveryTaskEnds` |
| `svc_ready` | expected violation: a service that reported itself ready is checked again after the pause | 1 service, 1 task | `ChecksStillRunning` |

Two services are the least with an order between them and with one that is not asked
for; two tasks make every race of two inspections. A task is asked for once, so that
containers are made a bounded number of times; `MaxActive` is the number of
tasks at once, 1 for one operator. `Initially` gives the containers earlier tasks left. `svc_together` tells states apart by
`WithoutHistory`: its properties do not mention `before`, which no step reads, and what a task that is over had seen is never read again.
Deadlock is not checked: when every task has been asked for and has ended, the model stops,
as the server does when nobody asks; that no task gets stuck is `EveryTaskEnds`.

What overlapping tasks do *not* promise: `SettledAsAsked` is about operations that pull the
same way. A start against a destroy has no right outcome; and a start may report a
failure because a rebuild removed the container under it. Nor does it speak of restarts and rebuilds that do not get
to their end: a start of service 2 reports "Done."; a rebuild of everything destroys both services and then fails on
service 1, which a rebuild of service 1 alone has just removed a second time; that one ends well, and service 2 stays down. It takes
three tasks to see it; that three and more bring no other case is the theorem `TasksSettleAsAsked`.
`DoneStaysDone` says more of less: where nothing is restarted, what a task has reported holds from that moment on, not only
once all is over.
`svc_alone` takes a Docker that does what it is asked (`Faults = {}`): an inspection that gets no answer reads as
"not created" (`service.py:116`), so that `stop` may report success and stop nothing; a refusal is taken for success; and what a
failed task left at work may undo what the next one reports. All are listed as hazards. In particular a failed stop that the `rmtree` of the volumes
follows cannot happen in this run: what `ScrubbedWhileDown` checks is the order of the two.
`Achieved` asks that the volumes are gone only of a `destroy --scrub-data`; that they are gone after a plain `remove` too is no promise kept but the opposite of one (below).

`StartsShare` is what overlapping creations and starts do to each other: one container of a name, and no failure but one. A start may fail in the listener
of a web service, when the rebuild of the proxy meets another rebuild; the service itself runs then. No container exits by itself there: one that does between the
inspection and the `put_file` fails the start that was about to use it.

Fairness (`Fairness`): the reactor resumes a generator whose answer or timer has come; a request to Docker gets the headers of an answer
or ends by its timeout (`txdocker.py:85`), and a body that has begun ends unless the call has stalled. Nothing in the code limits the wait for a
body (`txdocker.py:144, 172, 203, 325`), so `Stalls` may happen at every call that reads one, and `EveryTaskEnds` excepts the task it happened to; nothing limits the wait for
Redis either, and that Redis answers is a premise of the property. A
container need not report itself ready, or exit; nobody has to begin a task.

### Findings

- `svc_ready`: after a ready report and the pause, `is_running()` reads the inspection
  made when the container was started; a container that died in the meantime counts as up.
  The branch for the timeout inspects again.
- No run is spent on the rest, which the code shows plainly. `task_remove` calls `task_destroy` with `scrub_data=True` (`tasks.py:205`; `Scrubs` in the model), so the volume directories go. The manual
  (`docs/source/use/app.rst:118`) says of a plain `remove`: "This command still will not remove any application volumes (ex. /var/lib/mysql for mysql container)";
  the `--scrub-data` it names for that is an option the command does not have.
- `remove` of an application whose deployment was removed forgets the application and leaves
  its containers running (`tasks.py:810`, against `app.rst:116`).
- The manual (`docs/source/use/app.rst:149`) says that `restart` stops the services sequentially;
  `StopAll` stops them at once, as the code does.

### Proofs

Everything here is for every number of services and any finite set of tasks; the only assumption on the constants is
`LifecycleAssumption`, and what else a theorem supposes of them is in its ASSUME.

| Theorem | Property | Supposes |
|---|---|---|
| `LifecycleTypeCorrect` | `[]TypeOK` | nothing |
| `CourseHolds` | `[]CourseInv` | nothing |
| `NoJobEverOutlivesSuccess` | `[]NoJobOutlivesSuccess` | nothing |
| `StartsAlwaysShare` | `[]StartsShare` | no faults, no exits, the deployment stays |
| `ScrubsOnlyWhatIsDown` | `ScrubbedWhileDown` | one operator, no faults |
| `OneOperatorGetsWhatIsDone` | `DoneMeansDone` | one operator, no faults, no exits, the deployment stays |
| `TasksSettleAsAsked` | `[]SettledAsAsked` | no faults, no exits, the deployment stays |
| `DoneAlwaysStaysDone` | `[]DoneStaysDone` | the same |
| `WhatIsTakenDownStaysDown` | the downward half of `DoneStaysDone` | no faults, the deployment stays |
| `WhatIsBroughtUpStaysUp` | the upward half of `DoneStaysDone` | no faults, no exits |

"No faults" is `Faults = {}` (Docker refuses, loses and stalls no call), "one operator" `MaxActive <= 1`; the server may die in all of them. The hypotheses are
what the properties need. A request that fails reads as "not created" (`service.py:116`), one that is refused as done, and what a failed task left at
work undoes the next one's; an application whose deployment is gone is "destroyed" by doing nothing (`tasks.py:810`); a service that exits
is down, whoever has just started it, and fails a start that is about to put a file into it. The runs that check these properties stay within the hypotheses.

`LifecycleProofs` holds the first four. None is inductive. For `TypeOK` and `NoJobOutlivesSuccess`: that an inspection after a timeout concerns a service of the
application needs to know that a task that waits is at a service, and that a success leaves
no job needs to know which jobs may be at work wherever a task is suspended. `IInv` adds that
(`JobsSuit`): none where the task rests, only the one it waits for while it creates and starts;
a result exists only once the task is over. For `StartsShare`, `Shared` says of every job that it cannot take a
container away and cannot fail but in a listener, that the container is there at the calls that rely on it, the one the job found, and runs from the
start on (`Harmless`), of every container that it
is the first of its name, and of every task that it is in none of the parts that stop, and has failed only with a web service of its own up (`WebIsUp`); it holds as long as nothing but
creations and starts has been asked for (`NotAskedYet`: what was asked never changes). The lemmas follow the operators of the model
(`LaunchSuits`, `StartNextSuits`, `DestroyNextSuits`, ...), then its actions. `CourseInv` adds where a task can
be at all: the stage fits the part and the part the operation, its jobs are those of the part (a stop launches only stops) and on
its own services, and a loop acts only once every service has been inspected. It holds under every fault.

`LifecycleOutcomes` builds on `CourseInv`. The core of it is `Sinking`, of one task in a part that stops or destroys: what it saw bounds the state of the
containers *from above* (`NoHigher`), so what it skips is down; and every service it has passed is down, or its job is at work with
the id of the container that is there now (`StopsIt`, `DestroysIt`), so that the call cannot miss and Docker cannot refuse. Four
invariants follow.

- `SoloInv`, of one operator: `Sinking`; no task but the active one has a job at work; and no job of it fails, because the container it inspects,
  starts or creates is as the last find left it (`Founded`). This gives `ScrubsOnlyWhatIsDown`: while a volume goes, nobody
  starts anything.
- `DescentInv`, of any number of tasks that only take down: `Sinking` of all of them. They disturb each other in one way,
  that a container is further down than one has seen (`Lowered`), and `Sinking` survives that; nobody undoes what a task has
  accomplished (`Accomplished`).
- `AscentInv`, of any number of tasks that only bring up. Here restarts take away what others rely on, and no task's own
  claim is inductive. What is: for every service, either all who claim it are served (`Settled`: it is as they want it, or a job of
  their own is about to make it so), or some restart or rebuild owes it a start (`Mending`). It is a `Debtor` from the
  beginning until its second inspection; then it has seen the service down, and is a `Redeemer` until it starts it, or has seen it up, which settles everybody. So
  the debts are paid when all is over, unless a debtor fails. `SettledAsAsked` excludes that, and `Unbroken` with it: the same condition at
  every earlier moment, which a failure can only end.
- `TrackInv`, of one operator: besides `SoloInv`, how far the task has come through both halves (`OnTrack`). The services it was not asked about are as it found them,
  those it was are up once the second half has passed them, and the containers are those it found, or later ones where it rebuilds
  (`KeptOne`). That a rebuild makes a *new* container is the part of `DoneMeansDone` that needs it.

Only model-checked: `EveryTaskEnds`, which is liveness.

## 5. The registry

### `Registry`

Applications and deployments are two hashes in Redis, of whole records as JSON, and one
key. The tasks of `mcloud/tasks.py` that change them are modelled with everything
they do to Redis, in the order in which they do it.

| Code | Model |
|---|---|
| `mcloud-apps`, `mcloud-deployments`, `mcloud-deployment-default` | `applications`, `deployments`, `default` |
| the one connection of the server (txredisapi, answers in order) | `pipe`: the tasks whose request is under way |
| what a task does next | `pc`, named for the request under way (`"get app"`, `"put dep"`, ...) or for the wait (`"validate"`, `"plugins"`, ...) |
| the record it read and changed, until it writes it | `app`, `rec`; an answer of `hgetall`: `all` |
| `ApplicationController.get / create / update / update_source / remove` | `TakesApp`, `RefusesApp`, `Validated`, `PutApp`, `DelApp` |
| `DeploymentController.update / publish_app / unpublish_app / remove / set_default` | `TakesDep`, `RefusesDep`, `PutDep`, `DelDep`, `SetDefault` |
| `get_default`: the default, else the first, else a new 'local' | `AllDeps`, `DefaultOf`, `TakesDefault` |
| `task_deployment_create` | `PutDep`, `AllDeps`, `CountsDeps`, `SetDefault` |
| `task_machine`, `configure_docker_machine`: all machines that `docker-machine` knows, one after another | `MachineEnds`, `Syncs` (which machines there are: `listed`), `TakesDep` (read twice, or created), `PutDep`, `NextMachine` (those still to come: `todo`) |
| the start of the server (`rpc_server.py:155-190`): the port is bound, the plugins are set up, all machines are written | `Begin` of `"setup"`, `up`, `Notified`, `Syncs`: a task like the others, since the API answers meanwhile |
| an exception in a parse, a process, the pull of an image, a plugin | `Fails` |
| the Redis connection is lost; the server dies | `RedisLost`, `Crash` |

A step is one request as Redis executes it together with the turn its answer starts.
That turn touches only the task's own copies and sends the next request, and nobody else can see
when within it that happens, so nothing is lost by joining them. Of a configuration only which
one it is is kept; of an export, whether a domain is published for an application (the service
and the port are left out); of TLS and keys, whether they are set. The `host`, `port` and `local`
of a deployment take no part in any decision here and are left out. Two things raise nothing and so are not failures here: an inspection
that Docker does not answer (`service.py:117`) and the set-up of a plugin (`rpc_server.py:174`).

### Run

`registry`: two tasks, each any of the eleven operations, the start of a web service or the start of the server, on two applications, two
deployments (both of which may be machines), one domain and two configurations, from several initial registries, with
crashes, lost connections and failures (550 000 states). Two tasks make every lost update, and a task before a crash with the
start after it; one domain is enough since `exports` is overwritten whole. Deadlock is not checked: the
model stops when every task has been asked for. No fairness: no liveness is claimed.

- `CopyIsFresh`: when a task is about to write, and no other writer of that record has been at work
  since it began, what it writes is the record *as it is now* with the one change it was asked for.
  This is what "atomic" means for code that reads, waits and writes.
- `LostOnlyToRivals`: the effect of a task that reported success is there until a writer of the same record takes it back: one
  that was at work at the same time, and may have written an older copy, or one that came later and was asked for the opposite
  (`AppUndoes`, `DepUndoes`: an `unpublish` after a publication, a removal, a `deployment_create` of the same name, which replaces the
  record; for TLS also the start of the server, which turns TLS on). Later tasks that change something else of the record undo nothing,
  however many they are and however they overlap each other, and a crash undoes nothing but through what the start after it writes: that start keeps
  every export of every machine. For a task that goes through the machines it is said of each machine it is through with, however it ends.
- `NothingInvented`: however tasks overlap, every field of every record was there at the beginning or was
  asked for by a task on that very record; a publish creates at most 'local'.

What does *not* hold, and is not claimed: of two overlapping writers of one record, one update is lost
(`publish_app` writes the whole record of the deployment back); two `init` of one name may both succeed;
an update that overlaps a removal brings the application back; two first deployments at once
leave no default; `set_default` takes any name. The documentation promises nothing about overlap.

### Observations

- `docs/source/use/publish.rst:58` says that one domain belongs to one application; exports are kept per
  deployment, so two deployments may export the same domain. After a `set-deployment`, `unpublish`
  looks at the new deployment, and the old one keeps the domain.
- `Deployment.update` sets `tls` from its arguments whenever it is called; an upload of a
  key gives none, and turns TLS off (`deployment.py:62`, `rpc_client.py:917`). `ChangedDep` has it.

### Proofs

`RegistryProofs` proves, for every set of tasks, applications, deployments, domains and faults,
`RegistryTypes`, `RegistryInventsNothing`, `CopiesAreFresh` and `EffectsLast` (the four properties of the run),
from `RegistryAssumption` alone. None of them is inductive.

- Types need `Shapes`: what a task was asked for, and what it holds, by what it waits for. Every step of a task is then a
  `GoodTurn`: it keeps the shapes and touches no other task.
- `RegistryInventsNothing` needs `Provenance`: the copies that tasks hold, too, come from where the records may come from.
- `CopiesAreFresh` and `EffectsLast` share `AllFacts`, one conjunction per task: a task in `before[k]` is over (`Order`); a copy says
  what was asked (`CopySuits`); it is the record as it is now, changed, while nobody disturbs the task (`AppFresh`,
  `DepFresh`, and `AllFresh` for the answer of `hgetall`). A step is a case of two tasks, the one that moves and the one the fact is about
  (`OtherFacts`): if they differ, the mover writes another record (`NotMine`) or is a rival.
- `EffectsLast` adds `Lasts`, from the moment of the write, not of the end. That the record has the effect is not inductive: a later
  task may hold a copy. So the effect is in the record *and* in every copy, and every answer of `hgetall`, that a task which began after the end holds
  (`AppKept`, `DepKept`). Such a task either is asked for the opposite, which makes it a rival, or what it makes of a record
  with the effect has it too (`LaterOrRival`, `AppOutcomeKeeps`, `DepOutcomeKeeps`).


## 6. Publishing

### `Publishing`

`Publishing` extends `Registry` with what its waits `"plugins"` stand for: the haproxy plugin
(`plugins/haproxy/mcloud_haproxy.py`), called inside publish, unpublish, the start of a web service, and
once when the server starts. It composes three pieces of state: the registry, which services run (`web`),
and the container `mcloud_haproxy` of each deployment (`proxy`, with the routes of the configuration its image was
built from). `plugin[k]` is the state of `dump` and `rebuild_haproxy` on behalf of task `k`.

| Code | Model |
|---|---|
| the plugins the server calls: those whose `setup()` has succeeded since its start (`rpc_server.py:156-174`) | `loaded`, `SetupFails`, `NotLoaded` (the task goes on without it) |
| `on_service_start`, `on_domain_publish`, `on_domain_unpublish`, `setup` | `Called` |
| `ApplicationController.list` inside `dump` | `Collects` (exports), `Lists` (applications) |
| the loop of `dump`, the `KeyError` of an application without a deployment | `Dumps` |
| the loop of `rebuild_haproxy` | `Chooses` |
| `Service.rebuild`: `stop`, `destroy`, `start`, each looking the container up by name | `Find`, `Stops`, `Deletes`, `Creates`, `Inspects`, `Starts` |
| `put_file` after the start, if a container of that name runs | `Looks`, `Puts`: raises if the one it started does not run any more |
| a call of Docker by an id that is gone, or a delete that is refused | `Hit`, `Deletes` |
| an error that Docker answers to find, stop, delete or start, an inspection without an answer (`txdocker.py:370-388`, `service.py:117`) | `Ignored`: the plugin goes on, with a container that is not there for it, or a route less |

Not modelled: the scheme, the port and the service of a URL, so a route is a pair of a domain and an
application; the route every application has under its own name. What raises inside a rebuild (a call without an answer, the creation that is
refused, an exec) ends the task with a failure (`Fails`), at any of its waits. `skipped` is history: the tasks that met a plugin
that was not loaded or an answer that was ignored.

### Runs

`publishing`: two tasks of publish, unpublish, start, set-up, `set_deployment`, `deployment_remove` with crashes,
lost connections, failures, refusals that nobody looks at and services that exit; two deployments, an application with a deployment of its own and one
that follows the default, with and without an old haproxy container, with the plugin loaded or not (3.3 million states). The
constraint `OneSkips` lets ignored refusals meet one of the two tasks.

- `DoneMeansServed`: a task that reported success, that no other overlapped or followed, and that is not in `skipped`, leaves a haproxy that runs, serves every domain the
  registry publishes on that deployment, and serves none that is not published, whatever failures, refusals and the tasks before it had left of the container.
- `ProxyStaysUp`: rebuilds that overlap delete and create each other's container; when all is over without a
  failure and with `skipped` empty, it runs, wherever something was published and an application is. The tasks so far must be ones that publish or only read:
  `set_deployment` may move an application away while `dump` reads it and back afterwards, and then a publish rebuilds nothing
  and succeeds.

`publishing_stale` (expected violation of `LoadBalancerReconfigured`): two publishes at once, both successful. The one that
dumped first creates the container last, and one domain is not served.
`docs/source/use/publish.rst:46` says: "Load balancer is already reconfigured, so you can open your url in
browser." Nothing rebuilds it until the next publish or start.

No run is spent on the other way to the same sentence, which one line shows: what the set-up of a plugin raises, at the start of the server, is printed
and swallowed (`rpc_server.py:170-174`), the plugin is not appended to those that are called, and for the life of that server every publish succeeds
with nothing rebuilt (`NotLoaded`). A refusal that is ignored has the same outcome once. Both are why `DoneMeansServed` excepts `skipped`.

### Proofs

`PublishingProofs` proves `PublishingTypes`, `RebuildsLeaveItUp` (`ProxyStaysUp`) and `SuccessMeansServed` (`DoneMeansServed`) for
every set of tasks, applications, deployments and domains, and every fault, on top of `State` of `RegistryProofs`. The invariant `PubInv` says for every deployment
what holds *between* the steps of rebuilds that take each other's containers away:

- `Tended(d)`: the container of `d` runs, or some task `Works` on it: it has yet to look for the container it will start, or it
  found the one that is there now. A task that deletes a container is itself back before the search, so it tends `d`; one that finds its id gone
  was not counted.
- `Rebuilt(k)`: a publish keeps its deployment on its list, or `d` is tended, or no application is there. This needs the list
  of applications that `dump` read to be still right, and so `Defaults(k)` and `NamesKept`: while tasks only publish, the deployment that
  `get_default` answers with does not change, not even when the first publish creates 'local'.
- All of it is claimed while nothing has failed and nothing was skipped (`Calm`), which no step can bring back (`Outcomes`).

Every step of the plugin `Tends`, `Raises`, `Ends` or `Skips`; every step of `Registry` is `Quietly` or ends in a failure.

`DoneMeansServed` rests on a second invariant, `AloneInv`, which says where a task that nobody overlaps, and that has met neither a plugin
that is not loaded nor a refusal that is ignored (`Lone`), `Stands`:

- On its way to the plugin: the deployment it works on is where the application runs (`Home`), also when that was looked up as the
  default and the publish is about to create it.
- In `dump` (`InPlugin`): the domains and applications it has read are what the registry holds (`Exported`, `Listing`), since
  nobody else writes and its own write is done; so the routes it renders serve the deployment (`Serves`). A service that exits
  meanwhile leaves a route too many, of a domain that is still published, never one too few.
- In the rebuild (`Phase`): whatever container it found is stopped before it is deleted, so that Docker does not refuse; it is
  gone before the search that leads to a creation; and the container that is started is the one that was created, by its id.

That a task is alone after a step means that the step was its own (`TurnLone`): who has been at work since it began has
not ended before it (`Over`), and nothing but the end of a service or a failure happens besides.


## 7. The event bus

### `EventBus`

| Code | Model |
|---|---|
| `EventBusProtocol.callbacks`, an attribute of the class | `callbacks`, `None` for a pattern that is not in it |
| `on`, `wait_for_event`, `attach`, `cancel` | `On`, `WaitForEvent`, `Attach`, `Detach` |
| `psubscribe` on the connection of the bus | `requests`, `Subscribe`, `subscribed` |
| `fire_event` over the other connection | `Publish` |
| `messageReceived` | `MessageReceived` |
| `txtimeout` | `timer`, `TimesOut` |
| `connectionLost`, the reconnecting factory | `Lose`, `Reconnect` |

A wait and its fate are one value of `state`; `"fired twice"` is the `AlreadyCalledError` the code must
avoid. `due` and `heard` are history: the events Redis sent while a callback was registered, and
those it was called with. `once` is not modelled: the only patterns it is used for (`task.failure.*`) are
published by nobody. Nor is the subscriber `ApiRpcServer.on_log`, which changes nothing.

### Run

`event_bus`: two waits that may share one pattern, with or without a timeout, one terminal that attaches and detaches,
three events, two lost connections (97 000 states). Two waits on one pattern make the second rely on
the subscription of the first. Deadlock is not checked: events and losses run out.

Fairness: Redis executes a subscription it was sent, the reactor handles a message and calls a timer that is
due. Nobody must publish, and no connection must come back.

`WaitsEnd` states what follows: a wait with a timer ends whatever is lost, and a wait that an event is on
its way to ends unless the connection goes. A wait *without* a timer whose event was
published before the subscription arrived, or after a reconnect, never ends: after a reconnect
nothing is subscribed again, because the table, which outlives the connection, says it is. `TableIsSubscribed`
therefore claims the first connection only.

### Proofs

`EventBusProofs` proves `BusTypes`, `WaitsFireOnce`, `TableStaysSubscribed`, `NothingIsMissed` and `EventsInOrder` for
every set of patterns, waits and terminals and every bound, from `BusAssumption`. The invariant `IInv` adds `Table`
(who is in the table under which pattern, and who no longer is) and `Order`: the numbers of the messages
under way rise, and all are greater than what their callbacks have heard. `WaitsEnd` is
liveness and stays with TLC.

## 8. The web page

### `WebClient`

One module for the three files the page consists of, since one event of the browser runs through all of them:
`reconnecting-websocket.js` opens and reopens the socket, `assets/js/mcloud.js` sends calls and hands answers
and events out, `assets/js/app.js` reacts to clicks. An action is one event with all callbacks and continuations
it leads to; JavaScript does not interleave them.

| Code | Model |
|---|---|
| `ws`, `reconnectAttempt` of the reconnecting socket | `ws`, `reconnectAttempt` |
| `connect(true)`, its timer, `onopen`, `onclose` | `Reconnects`, `GivesUp`, `Opens`, `Closed` |
| `McloudIO.online`, `wait_connect` | `online`, `waiting` (the calls whose promise waits for 'connect') |
| `request_id`, `requests`, `call`, `request` | `request_id`, `requests`, `Transmit`, `Issue` |
| `on_response`, `on_raw_message` | `ReceiveResponse`, `ReceiveEvent` |
| `McloudIOTask` and its listeners | `heard` |
| `kill_service_tasks`, `select_app`, `select_service` | `Kills`, `SelectApp`, `SelectService` |
| `service_inspect`, `service_logs`, `service_run`, `update_apps` | `OpenTab`, `UpdateApps` |
| `logs_terminal`, `run_terminal` of a service | `terminal`: none, open, destroyed |
| keys typed into a terminal | `Type`, `typing` |
| the server, seen from one connection | `Serve`, `Output`, `TaskEnds`, `Drops`: the order `TaskRpc` establishes (`NoUnknownTaskEvent`, `DisconnectCancels`) |
| requests the server goes on with when their connection is gone (`remote.py:107, 136`), and the tasks nobody kills | `late`, `ServeLate`, `orphans`, `OrphanEnds` |

This is the older page, kept in the repository; the server serves
`static/build/client` (`remote.py:276`), a directory the repository does not hold.

A message that has arrived before the socket closes, at either end, is still handled, and the rest is lost. When the connection goes, the server
kills what its tables show at the moment it notices (`remote.py:96`); what is under way inside it, and what it has answered but not begun, runs on as an orphan
(`Drops` leaves any of them to run). A key typed on a socket that is closing is discarded by the browser; without a socket, or on one that is not open yet, the first send throws (`Type`). A request that waits for
Redis lets those after it pass. The reconnection intervals are left out: a timer fires some time later.
`timedOut` is false whenever `onclose` looks at it. Nothing counts the attempts but the length of the
pause between them, so `Reconnects` is always possible.

### Run

`web`: one name in the table, four requests, two messages under way (490 000 states). Four requests are the list, a selection, a terminal that is opened in it, and the
kill that the next selection sends, or a second list or terminal instead, with any losses and reconnections between them; the proofs of the safety properties hold for any
number. Every `list` fills the table with new objects, so one name
gives several services. `MaxRequests` bounds `request_id`, `MaxChannel` what the server may have sent. Deadlock is checked.

- `OnlineMeansSocket`: through any attempts, timeouts, losses and reconnections the page is online exactly
  while there is a socket to send on (a closing one still counts, until its `onclose`), and no call waits while it is.
- `AnswersMatch`: a request or an answer under way belongs to the promise kept under its id.
- `EventsHeard`: an event finds the listeners of its task, or the answer that creates them is before it.
- `NothingStray`: a log or a command that runs for the present connection will be killed by the next selection, or the message that makes
  this so is under way. (The next *selection*: opening a tab kills nothing.) It is not said of orphans, of which the page never hears, nor of the generator that a kill leaves
  running (`rpc_killed_runs_on`).
- `PaneExists`: output never comes for a terminal that does not exist. It may come for one that was destroyed:
  a service that is selected again gets its old, dead terminal.
- `GetsThrough` (liveness): what waits for a connection is sent some day.

Fairness (`Fairness`): the browser handles messages, the timers of the socket and its close (weak), and an attempt to connect
succeeds now and then (strong: attempts may fail any finite number of times; without it
nothing can get through). Nobody has to click, and the server owes nothing.

### Observations

Not runs: a click on the tab that is open starts its task a second time; keys go to every task ever run in
that terminal; `call_task` never settles when the task fails; a `stdin` without a socket throws; a call whose answer
the connection lost stays pending; `ping` calls a function that does not exist.

### Proofs

`WebProofs` proves `OnlineAlwaysMeansSocket` for all names and bounds, from `WebAssumption`, by the invariant `SocketInv`: besides
the property, an open socket, and a closing one the page still believes in, has `reconnectAttempt` false, so that
`onclose` reports exactly the closes the page must hear of. It goes on with what is under way (`Wire`): the tickets given out
are the first ones and no more than the requests sent (so the next one exists), no id is under way twice, and
each request or answer is the one whose promise is kept under its id. `Shrinks` and `Spoken` say what a step of the
server may do to the two queues, and every such step is shown to be a `Speech`.

The second half of the module adds what the page makes of it, in one inductive invariant `WebInv`, and proves the other safety
properties from it:

- `Hearing`: besides the events under way, every task that still runs has listeners or an answer under way,
  since it may report at any moment; this gives `EventsHeard`.
- `Loads`: outcomes under way are of tasks that have ended, one each, so that the table was filled at most as often as
  tasks have finished. `TypeOK` needs it: the objects of the table are numbered.
- `AllShown`: the terminal of a call exists from the click on, while the call waits, is under way or runs, and
  no step takes a terminal away (`Kept`); this gives `PaneExists`.
- `Stray`: `NothingStray` with the fact that a socket that is not open has no task of its connection behind it (`live` is empty; orphans may run), so that
  the kills of a selection are lost only when there is nothing the page could have killed.

What a lost connection leaves under way in the server (`late`, `Left` in the proofs) keeps its part in the counts: a late start takes a ticket as well, so `Wire` and `AllShown`
speak of it too.

The assumption `WebAssumption` is that the page can send at least one request and that `None` is neither
a name nor a call. `GetsThrough` is model-checked only.

## 9. What is proved and what is only checked

Proved for every value of the constants: `TypeOK` of `TaskRpc`, `ServiceLifecycle`, `Registry`, `EventBus` and `WebClient`; `TablesAgree`,
`NoUnknownTaskEvent`, `OutcomeIsLast`, `TicketHandedOutOnce`, `AnsweredOnce`, `KillAckAfterOutcome`, `DisconnectCancels`, `ImplementsTicketService`; `NoJobOutlivesSuccess`, `StartsShare`, `ScrubbedWhileDown`,
`DoneMeansDone`, `SettledAsAsked`, `DoneStaysDone`;
`NothingInvented`, `CopyIsFresh`, `LostOnlyToRivals`; `FiredOnce`, `TableIsSubscribed`, `NothingMissed`, `HeardInOrder`;
`PubTypeOK`, `ProxyStaysUp`, `DoneMeansServed`; `OnlineMeansSocket`, `AnswersMatch`, `EventsHeard`, `NothingStray`, `PaneExists`. These are all the safety properties of
the passing runs. Checked by TLC on the instances above only: everything temporal (`RequestsAnswered`, `KillReleasesOwner`, `OutcomeDelivered`, `EveryTaskEnds`,
`WaitsEnd`, `GetsThrough`):
liveness under fairness is out of the prover's reach.


## 10. Not modelled

- The configuration file (`config.py`, `container.py`): a conversion of text with unit tests of its own. Where it decides
  something, the models have both outcomes.
- `sync.py`: blocking calls around an rsync process. `attach.py`: copies bytes; what it shares with others, its
  registration on the bus, is in `EventBus`. The interrupt stack, argument parsing and output of the command line.
- HTTP, TLS, certificates, dependency injection, and what Docker, Redis, Twisted, rsync and haproxy do inside.
- Most JavaScript in the repository is third-party (`static_old/components/angular`, `term.js`, `xterm.js`, and the Bootstrap bundle
  `assets/js/modera.js`); `mcloud/static/client` and its gulpfile are a scaffold that shows fixed data and never calls the
  server. What the project wrote itself, `mcloud.js` and `app.js` with the reconnecting socket they rest on, is `WebClient`.
- The tasks `run`, `sync`, `backup`, `logs`, `set_var`, `rm_var` and the listing tasks: they change no state that the
  properties here are about.
