------------------------------ MODULE Registry ------------------------------
(***************************************************************************)
(* What mcloud-server remembers: the applications and the deployments, two *)
(* hashes and a key in Redis, and the tasks that change them               *)
(* (mcloud/tasks.py, application.py, deployment.py).  Every change of a    *)
(* record is a read, a change of the copy and a write of the whole record  *)
(* some turns of the reactor later; nothing is locked.                     *)
(*                                                                         *)
(* All tasks share one connection to Redis, which executes and answers in  *)
(* order: pipe is the queue of the tasks whose request is under way, and   *)
(* one step executes the request at its head together with the turn that   *)
(* its answer starts, which touches nothing but the state of its own task  *)
(* and ends by sending the next request.  Waits for anything else (Docker, *)
(* a process, the plugins) take as long as they like.                      *)
(*                                                                         *)
(* The start of the server (mcloud/rpc_server.py, run_server) is a task    *)
(* too: it sets up the plugins and then writes a deployment for every      *)
(* machine docker-machine knows, while the API answers already.            *)
(***************************************************************************)
EXTENDS Naturals, Sequences, FiniteSets

CONSTANTS
    Tasks,          \* the tasks operators may ask for, each of them once
    Apps,           \* names of applications
    Deployments,    \* names of deployments
    Domains,        \* public domain names
    Sources,        \* configurations of an application, mcloud.yml as text
    Local,          \* the deployment named 'local'
    Machines,       \* the names docker-machine may list
    None,           \* Python's None, and a key that is not in Redis
    Words,          \* the tasks that may be asked for
    Faults,         \* what may go wrong: "crash", "redis", "refuse"
    StartApps,      \* what the hash mcloud-apps may hold at the beginning
    StartDeps,      \* what the hash mcloud-deployments may hold
    StartDefaults   \* what mcloud-deployment-default may hold

\* A configuration of an application: where it lives and what it consists of.
AppRecord == [deployment : Deployments \cup {None}, source : Sources]

\* A deployment: the domains it exports, and how its Docker is reached.
DepRecord == [exports : [Domains -> Apps \cup {None}], tls : BOOLEAN, key : BOOLEAN]

AppStore == [Apps -> AppRecord \cup {None}]
DepStore == [Deployments -> DepRecord \cup {None}]

AppWords == {"init", "update", "remove", "set_deployment"}
PublishWords == {"publish", "unpublish"}
DepWords == {"deployment_create", "deployment_update", "deployment_remove"}
\* These write the deployments of all machines: 'mcloud machine', the server's start.
MachineWords == {"machine", "setup"}
\* The start of a web service reads its application and calls the plugins.
ReadWords == {"start"}

ASSUME RegistryAssumption ==
    /\ Local \in Deployments
    /\ Machines \subseteq Deployments
    /\ None \notin Apps \cup Deployments \cup AppRecord \cup DepRecord \cup DepStore
    /\ Words \subseteq AppWords \cup PublishWords \cup DepWords \cup MachineWords
                     \cup ReadWords \cup {"deployment_set_default"}
    /\ StartApps \subseteq AppStore
    /\ StartDeps \subseteq DepStore
    /\ StartDefaults \subseteq Deployments \cup {None}

VARIABLES
    applications,   \* the hash mcloud-apps
    deployments,    \* the hash mcloud-deployments
    default,        \* the key mcloud-deployment-default
    up,             \* whether the server runs
    pipe,           \* tasks whose request to Redis is under way, in order
    op,             \* what the task was asked for
    pc,             \* what the task waits for
    at,             \* the deployment a task works on
    app,            \* the copy of an application record a task holds
    rec,            \* the copy of a deployment record a task holds
    all,            \* the answer of hgetall a task holds
    listed,         \* the machines docker-machine listed to a task
    todo,           \* those of them it has not written yet
    result,         \* how the task ended
    before          \* history: the tasks that had ended when this one began

stores == <<applications, deployments, default>>
held == <<at, app, rec, all, todo>>
vars == <<stores, up, pipe, op, pc, held, listed, result, before>>

-----------------------------------------------------------------------------
(* Requests and records *)

Request(word, a, d, x, v) ==
    [word |-> word, app |-> a, deployment |-> d, domain |-> x, value |-> v]

\* deployment_update sets TLS to what it is given, and to False when it is given
\* nothing, as an upload of a key does.
Settings == {"tls", "no-tls", "key"}

Requests ==
    LET R(words, A, D, X, V) ==
            { Request(w, a, d, x, v) : w \in words \cap Words, a \in A, d \in D, x \in X, v \in V }
    IN  UNION {
            R({"init"}, Apps, Deployments \cup {None}, {None}, Sources),
            R({"update"}, Apps, {None}, {None}, Sources),
            R({"set_deployment"}, Apps, Deployments, {None}, {None}),
            R({"remove", "start"}, Apps, {None}, {None}, {None}),
            R(PublishWords, Apps, {None}, Domains, {None}),
            R({"deployment_create"}, {None}, Deployments, {None}, {"tls", "no-tls"}),
            R({"deployment_update"}, {None}, Deployments, {None}, Settings),
            R(MachineWords, {None}, {None}, {None}, {"tls"}),
            R({"deployment_remove", "deployment_set_default"}, {None}, Deployments, {None}, {None}) }

Fresh(tls) == [exports |-> [x \in Domains |-> None], tls |-> tls, key |-> FALSE]

\* Mutation: set_deployment stores the name of the application.
Bug_ChangedApp(o, r) ==
    IF o.word = "set_deployment" THEN [r EXCEPT !.deployment = o.app]
    ELSE [r EXCEPT !.source = o.value]

\* What a task makes of the application record it read.
ChangedApp(o, r) ==
    IF o.word = "set_deployment" THEN [r EXCEPT !.deployment = o.deployment]
    ELSE [r EXCEPT !.source = o.value]

\* What a task makes of the deployment record it read.
ChangedDep(o, r) ==
    IF o.word = "publish" THEN [r EXCEPT !.exports[o.domain] = o.app]
    ELSE IF o.word = "unpublish" THEN [r EXCEPT !.exports[o.domain] = None]
    ELSE [r EXCEPT !.tls = (o.value = "tls"),
                   !.key = @ \/ o.value = "key" \/ o.word \in MachineWords]

\* What is there for a task to change when it finds no record and makes one: a machine
\* is reached by TLS, get_default's 'local' is not.
Created(o) == IF o.word \in MachineWords THEN Fresh(TRUE) ELSE Fresh(FALSE)

Existing(store) == { d \in DOMAIN store : store[d] # None }

Active == { k \in Tasks : pc[k] \notin {"new", "done"} }
Ended == { k \in Tasks : pc[k] = "done" }

-----------------------------------------------------------------------------
(* How a task goes on *)

\* It is the turn of the task whose request Redis executes.
Turn(k, label) == pipe # <<>> /\ Head(pipe) = k /\ pc[k] = label

\* Its turn ends with another request,
Ask(k, label) ==
    /\ pc' = [pc EXCEPT ![k] = label]
    /\ pipe' = Append(Tail(pipe), k)
    /\ UNCHANGED <<up, op, listed, result, before>>

\* with a wait for something else,
Await(k, label) ==
    /\ pc' = [pc EXCEPT ![k] = label]
    /\ pipe' = Tail(pipe)
    /\ UNCHANGED <<up, op, listed, result, before>>

\* or with the end of the task.
Finish(k, outcome) ==
    /\ pc' = [pc EXCEPT ![k] = "done"]
    /\ result' = [result EXCEPT ![k] = outcome]
    /\ app' = [app EXCEPT ![k] = None]
    /\ rec' = [rec EXCEPT ![k] = None]
    /\ all' = [all EXCEPT ![k] = None]
    /\ UNCHANGED <<up, op, at, listed, before>>

Return(k, outcome) == Finish(k, outcome) /\ pipe' = Tail(pipe) /\ UNCHANGED todo

\* A wait is over, and the task sends its next request or ends.
Resume(k, from, label) ==
    /\ pc[k] = from
    /\ pc' = [pc EXCEPT ![k] = label]
    /\ pipe' = Append(pipe, k)
    /\ UNCHANGED <<stores, up, op, held, listed, result, before>>

Leave(k, from, outcome) ==
    /\ pc[k] = from
    /\ Finish(k, outcome)
    /\ UNCHANGED <<stores, pipe, todo>>

-----------------------------------------------------------------------------
(* Beginning of a task *)

FirstLabel(word) ==
    IF word \in AppWords \cup PublishWords \cup {"start"} THEN "get app"
    ELSE IF word = "setup" THEN "plugins"
    ELSE IF word = "deployment_create" THEN "put dep"
    ELSE IF word = "deployment_update" THEN "get dep"
    ELSE IF word = "deployment_remove" THEN "del dep"
    ELSE IF word = "machine" THEN "machine"
    ELSE "set default"

\* A server that does not run can only be started.  It answers from then on: its
\* port is bound before the plugins are loaded.
Begin(k, o) ==
    /\ pc[k] = "new"
    /\ up = (o.word # "setup")
    /\ up' = TRUE
    /\ op' = [op EXCEPT ![k] = o]
    /\ pc' = [pc EXCEPT ![k] = FirstLabel(o.word)]
    /\ pipe' = IF o.word \in MachineWords THEN pipe ELSE Append(pipe, k)
    /\ at' = [at EXCEPT ![k] = o.deployment]
    /\ rec' = [rec EXCEPT ![k] = IF o.word = "deployment_create" THEN Fresh(o.value = "tls") ELSE None]
    /\ before' = [before EXCEPT ![k] = Ended]
    /\ UNCHANGED <<stores, app, all, listed, todo, result>>

-----------------------------------------------------------------------------
(* Applications *)

\* hget mcloud-apps: 'Application already exist', AppDoesNotExist, and for
\* set_deployment the TypeError of json.loads(None).
RefusesApp(k) ==
    /\ Turn(k, "get app")
    /\ (op[k].word = "init") = (applications[op[k].app] # None)
    /\ Return(k, "failed")
    /\ UNCHANGED stores

TakesApp(k) ==
    LET o == op[k]
        r == applications[o.app]
    IN  /\ Turn(k, "get app")
        /\ \/ /\ o.word = "init" /\ r = None
              /\ app' = [app EXCEPT ![k] = [deployment |-> o.deployment, source |-> o.value]]
              /\ Await(k, "validate")
              /\ UNCHANGED at
           \/ /\ o.word = "update" /\ r # None
              /\ app' = [app EXCEPT ![k] = ChangedApp(o, r)]
              /\ Await(k, "validate")
              /\ UNCHANGED at
           \/ /\ o.word = "set_deployment" /\ r # None
              /\ app' = [app EXCEPT ![k] = ChangedApp(o, r)]
              /\ Ask(k, "put app")
              /\ UNCHANGED at
           \/ /\ o.word = "remove" /\ r # None
              /\ Await(k, "destroy")
              /\ UNCHANGED <<app, at>>
           \/ /\ o.word = "start" /\ r # None
              /\ Await(k, "launch")
              /\ UNCHANGED <<app, at>>
           \/ /\ o.word \in PublishWords /\ r # None
              /\ at' = [at EXCEPT ![k] = r.deployment]
              /\ Ask(k, IF r.deployment = None THEN "all deps" ELSE "get dep")
              /\ UNCHANGED app
        /\ UNCHANGED <<stores, rec, all, todo>>

\* Application.load, which parses the configuration and asks Docker about every
\* service, and task_destroy.
Validated(k) == Resume(k, "validate", "put app")
Destroyed(k) == Resume(k, "destroy", "del app")

\* hset mcloud-apps.  An update goes on to list the applications.
PutApp(k) ==
    /\ Turn(k, "put app")
    /\ applications' = [applications EXCEPT ![op[k].app] = app[k]]
    /\ \/ op[k].word = "update" /\ Await(k, "list") /\ UNCHANGED held
       \/ op[k].word # "update" /\ Return(k, "ok")
    /\ UNCHANGED <<deployments, default>>

\* hdel mcloud-apps
DelApp(k) ==
    /\ Turn(k, "del app")
    /\ applications' = [applications EXCEPT ![op[k].app] = None]
    /\ Return(k, "ok")
    /\ UNCHANGED <<deployments, default>>

-----------------------------------------------------------------------------
(* Deployments *)

\* configure_docker_machine goes through the machines that are there, in whatever
\* order glob has them.  What it reads of each, before it asks for its deployment,
\* may not be there or not parse.
Syncs(k, from) ==
    \/ Leave(k, from, "ok")
    \/ "refuse" \in Faults /\ Leave(k, from, "failed")
    \/ \E S \in SUBSET Machines : \E d \in S :
          /\ pc[k] = from
          /\ pc' = [pc EXCEPT ![k] = "get dep"]
          /\ pipe' = Append(pipe, k)
          /\ listed' = [listed EXCEPT ![k] = S]
          /\ todo' = [todo EXCEPT ![k] = S]
          /\ at' = [at EXCEPT ![k] = d]
          /\ UNCHANGED <<stores, up, op, app, rec, all, result, before>>

\* docker-machine has ended.
MachineEnds(k) == Syncs(k, "machine")

\* hget mcloud-deployments: DeploymentDoesNotExist, which configure_docker_machine
\* takes for a deployment to create.
ToChange(k) ==
    \/ Turn(k, "get dep") /\ op[k].word \notin MachineWords
    \/ Turn(k, "get dep again")

RefusesDep(k) ==
    /\ ToChange(k)
    /\ deployments[at[k]] = None
    /\ Return(k, "failed")
    /\ UNCHANGED stores

\* Mutation: whatever is changed is created if it is not there.
Bug_TakesDep(k) ==
    LET r == deployments[at[k]]
    IN  /\ Turn(k, "get dep") \/ Turn(k, "get dep again")
        /\ rec' = [rec EXCEPT ![k] = ChangedDep(op[k], IF r = None THEN Fresh(TRUE) ELSE r)]
        /\ Ask(k, "put dep")
        /\ UNCHANGED <<stores, at, app, all, todo>>

\* Mutation: a machine that is known is written anew.
Bug_RewritesMachine(k) ==
    LET r == deployments[at[k]]
    IN  /\ \/ /\ ToChange(k)
              /\ r # None
              /\ rec' = [rec EXCEPT ![k] = ChangedDep(op[k], r)]
           \/ /\ Turn(k, "get dep") /\ op[k].word \in MachineWords
              /\ rec' = [rec EXCEPT ![k] = ChangedDep(op[k], Fresh(TRUE))]
        /\ Ask(k, "put dep")
        /\ UNCHANGED <<stores, at, app, all, todo>>

TakesDep(k) ==
    LET r == deployments[at[k]]
    IN  /\ \/ /\ ToChange(k)
              /\ r # None
              /\ rec' = [rec EXCEPT ![k] = ChangedDep(op[k], r)]
              /\ Ask(k, "put dep")
           \/ /\ Turn(k, "get dep") /\ op[k].word \in MachineWords /\ r # None
              /\ Ask(k, "get dep again")
              /\ UNCHANGED rec
           \/ /\ Turn(k, "get dep") /\ op[k].word \in MachineWords /\ r = None
              /\ rec' = [rec EXCEPT ![k] = ChangedDep(op[k], Fresh(TRUE))]
              /\ Ask(k, "put dep")
        /\ UNCHANGED <<stores, at, app, all, todo>>

\* hgetall mcloud-deployments, the first half of get_default and of list
AllDeps(k) ==
    /\ Turn(k, "all deps")
    /\ all' = [all EXCEPT ![k] = deployments]
    /\ Ask(k, "get default")
    /\ UNCHANGED <<stores, at, app, rec, todo>>

\* The second half of get_default: the deployment named as the default, else the
\* first of the answer (the same one for the same names), else a new one named
\* 'local'.
DefaultOf(store, named) ==
    LET E == Existing(store)
    IN  IF named \in E THEN named ELSE IF E # {} THEN CHOOSE d \in E : TRUE ELSE Local

\* Mutation: get_default answers with a new deployment of that name.
Bug_TakesDefault(k) ==
    /\ Turn(k, "get default")
    /\ op[k].word \in PublishWords
    /\ LET d == DefaultOf(all[k], default)
       IN  /\ at' = [at EXCEPT ![k] = d]
           /\ rec' = [rec EXCEPT ![k] = ChangedDep(op[k], Fresh(FALSE))]
    /\ all' = [all EXCEPT ![k] = None]
    /\ Ask(k, "put dep")
    /\ UNCHANGED <<stores, app, todo>>

TakesDefault(k) ==
    /\ Turn(k, "get default")
    /\ op[k].word \in PublishWords
    /\ LET d == DefaultOf(all[k], default)
       IN  /\ at' = [at EXCEPT ![k] = d]
           /\ rec' = [rec EXCEPT ![k] =
                         ChangedDep(op[k], IF all[k][d] = None THEN Fresh(FALSE) ELSE all[k][d])]
    /\ all' = [all EXCEPT ![k] = None]
    /\ Ask(k, "put dep")
    /\ UNCHANGED <<stores, app, todo>>

\* task_deployment_create: the only deployment there is becomes the default.
CountsDeps(k) ==
    /\ Turn(k, "get default")
    /\ op[k].word = "deployment_create"
    /\ \/ /\ Cardinality(Existing(all[k])) = 1
          /\ Ask(k, "set default")
          /\ UNCHANGED held
       \/ /\ Cardinality(Existing(all[k])) # 1
          /\ Return(k, "ok")
    /\ UNCHANGED stores

\* One machine is written, and the next one's turn is it.
NextMachine(k) ==
    LET rest == todo[k] \ {at[k]}
    IN  /\ todo' = [todo EXCEPT ![k] = rest]
        /\ \/ rest = {} /\ Finish(k, "ok") /\ pipe' = Tail(pipe)
           \/ rest # {} /\ "refuse" \in Faults /\ Finish(k, "failed") /\ pipe' = Tail(pipe)
           \/ /\ \E d \in rest : at' = [at EXCEPT ![k] = d]
              /\ Ask(k, "get dep")
              /\ UNCHANGED <<app, rec, all>>

\* hset mcloud-deployments.  publish_app goes on to call the plugins.
PutDep(k) ==
    LET w == op[k].word
    IN  /\ Turn(k, "put dep")
        /\ deployments' = [deployments EXCEPT ![at[k]] = rec[k]]
        /\ \/ w \in PublishWords /\ Await(k, "plugins") /\ UNCHANGED held
           \/ w = "deployment_create" /\ Ask(k, "all deps") /\ UNCHANGED held
           \/ w = "deployment_update" /\ Return(k, "ok")
           \/ w \in MachineWords /\ NextMachine(k)
        /\ UNCHANGED <<applications, default>>

\* hdel mcloud-deployments; whoever uses the deployment keeps its name.
DelDep(k) ==
    /\ Turn(k, "del dep")
    /\ deployments' = [deployments EXCEPT ![at[k]] = None]
    /\ Return(k, "ok")
    /\ UNCHANGED <<applications, default>>

\* set mcloud-deployment-default, whether or not there is such a deployment
SetDefault(k) ==
    /\ Turn(k, "set default")
    /\ default' = at[k]
    /\ Return(k, "ok")
    /\ UNCHANGED <<applications, deployments>>

-----------------------------------------------------------------------------
(* Plugins, the final list, and failures *)

Goes(k, from, label) ==
    /\ pc[k] = from
    /\ pc' = [pc EXCEPT ![k] = label]
    /\ UNCHANGED <<stores, up, pipe, op, held, listed, result, before>>

\* The containers of a service are up, and its listeners are called.
Launched(k) == Goes(k, "launch", "plugins")

\* The plugins have returned; publish and unpublish go on to list the applications,
\* and the start of the server, whatever the setup of a plugin raised, to the machines.
Notified(k) ==
    \/ Goes(k, "plugins", "list") /\ op[k].word \in PublishWords
    \/ Leave(k, "plugins", "ok") /\ op[k].word \in ReadWords
    \/ Syncs(k, "plugins") /\ op[k].word = "setup"

Listed(k) == Leave(k, "list", "ok")

\* What is not Redis raises an exception: a configuration that does not parse, a
\* process that fails, the pull of an image, a plugin.  (An inspection that Docker
\* does not answer raises nothing, and what a plugin's setup raises is swallowed.)
Fails(k) ==
    /\ "refuse" \in Faults
    /\ \E label \in {"validate", "destroy", "machine", "launch", "plugins", "list"} :
          Leave(k, label, "failed") /\ (label = "plugins" => op[k].word # "setup")

\* All the tasks in S end where they are; nobody is told.
Abandon(S, outcome) ==
    /\ pipe' = <<>>
    /\ pc' = [k \in Tasks |-> IF k \in S THEN "done" ELSE pc[k]]
    /\ result' = [k \in Tasks |-> IF k \in S THEN outcome ELSE result[k]]
    /\ app' = [k \in Tasks |-> IF k \in S THEN None ELSE app[k]]
    /\ rec' = [k \in Tasks |-> IF k \in S THEN None ELSE rec[k]]
    /\ all' = [k \in Tasks |-> IF k \in S THEN None ELSE all[k]]
    /\ UNCHANGED <<stores, op, at, listed, todo, before>>

\* The connection to Redis breaks: every request under way fails.
RedisLost ==
    /\ "redis" \in Faults
    /\ pipe # <<>>
    /\ Abandon({ k \in Active : \E i \in DOMAIN pipe : pipe[i] = k }, "failed")
    /\ UNCHANGED up

\* The server dies; what is in Redis stays.  The next start is a task like any other.
Crash ==
    /\ "crash" \in Faults
    /\ up
    /\ up' = FALSE
    /\ Abandon(Active, "lost")

-----------------------------------------------------------------------------
(* Specification *)

Init ==
    /\ applications \in StartApps
    /\ deployments \in StartDeps
    /\ default \in StartDefaults
    /\ up \in BOOLEAN
    /\ pipe = <<>>
    /\ op = [k \in Tasks |-> None]
    /\ pc = [k \in Tasks |-> "new"]
    /\ at = [k \in Tasks |-> None]
    /\ app = [k \in Tasks |-> None]
    /\ rec = [k \in Tasks |-> None]
    /\ all = [k \in Tasks |-> None]
    /\ listed = [k \in Tasks |-> {}]
    /\ todo = [k \in Tasks |-> {}]
    /\ result = [k \in Tasks |-> "none"]
    /\ before = [k \in Tasks |-> {}]

\* The steps of a task up to the call of the plugins and after it.
AppStep(k) ==
    RefusesApp(k) \/ TakesApp(k) \/ Validated(k) \/ Destroyed(k) \/ PutApp(k) \/ DelApp(k)
DepStep(k) ==
    \/ MachineEnds(k) \/ RefusesDep(k) \/ TakesDep(k) \/ AllDeps(k) \/ TakesDefault(k)
    \/ CountsDeps(k) \/ PutDep(k) \/ DelDep(k) \/ SetDefault(k)

Next ==
    \/ \E k \in Tasks :
          \/ \E o \in Requests : Begin(k, o)
          \/ AppStep(k) \/ DepStep(k)
          \/ Launched(k) \/ Notified(k) \/ Listed(k) \/ Fails(k)
    \/ RedisLost \/ Crash

Spec == Init /\ [][Next]_vars

-----------------------------------------------------------------------------
(* Properties *)

Labels ==
    {"new", "done", "validate", "destroy", "machine", "launch", "plugins", "list", "get app",
     "put app", "del app", "get dep", "get dep again", "put dep", "del dep", "all deps", "get default",
     "set default"}

\* The types of the state.
TypeOK ==
    /\ applications \in AppStore
    /\ deployments \in DepStore
    /\ default \in Deployments \cup {None}
    /\ up \in BOOLEAN
    /\ pipe \in Seq(Tasks)
    /\ op \in [Tasks -> Requests \cup {None}]
    /\ pc \in [Tasks -> Labels]
    /\ at \in [Tasks -> Deployments \cup {None}]
    /\ app \in [Tasks -> AppRecord \cup {None}]
    /\ rec \in [Tasks -> DepRecord \cup {None}]
    /\ all \in [Tasks -> DepStore \cup {None}]
    /\ listed \in [Tasks -> SUBSET Machines]
    /\ todo \in [Tasks -> SUBSET Machines]
    /\ result \in [Tasks -> {"none", "ok", "failed", "lost"}]
    /\ before \in [Tasks -> SUBSET Tasks]

Begun(k) == pc[k] # "new"
Asked(words) == { k \in Tasks : Begun(k) /\ op[k].word \in words }

\* The tasks that write the record of an application, or of a deployment: those that
\* were asked to, a publish that has found the deployment to be the one of its
\* application, and whoever has been listed a machine of that name.
AppWriters(a) == { k \in Asked(AppWords) : op[k].app = a }
DepWriters(d) ==
    { k \in Asked(DepWords) : op[k].deployment = d } \cup { k \in Asked(PublishWords) : at[k] = d }
    \cup { k \in Asked(MachineWords) : d \in listed[k] }

\* Nobody in S has been at work since task k began.
Undisturbed(k, S) == \A j \in S : j = k \/ j \in before[k]

\* A copy of a record is written back some turns after it was read.  If no other
\* writer of that record has been at work since the task began, what it writes is
\* the record as it is now with the one change the task was asked for: publish_app,
\* update, update_source and set_deployment are then atomic.
CopyIsFresh ==
    \A k \in Tasks :
        /\ pc[k] = "put app" /\ Undisturbed(k, AppWriters(op[k].app))
           => app[k] = IF op[k].word = "init"
                       THEN [deployment |-> op[k].deployment, source |-> op[k].value]
                       ELSE ChangedApp(op[k], applications[op[k].app])
        /\ pc[k] = "put dep" /\ op[k].word # "deployment_create" /\ Undisturbed(k, DepWriters(at[k]))
           => rec[k] = ChangedDep(op[k], IF deployments[at[k]] # None THEN deployments[at[k]]
                                         ELSE Created(op[k]))

\* A record that says what the request asked for.
AppAsAsked(o, r) ==
    /\ o.word \in {"init", "update"} => r.source = o.value
    /\ o.word \in {"init", "set_deployment"} => r.deployment = o.deployment

DepAsAsked(o, r) ==
    /\ o.word = "publish" => r.exports[o.domain] = o.app
    /\ o.word = "unpublish" => r.exports[o.domain] = None
    /\ o.word \in DepWords \cup MachineWords => r.tls = (o.value = "tls")
    /\ (o.word \in DepWords /\ o.value = "key") \/ o.word \in MachineWords => r.key

\* What a request asks for is there.
AppHas(o, r) == IF o.word = "remove" THEN r = None ELSE r # None /\ AppAsAsked(o, r)
DepHas(o, r) == IF o.word = "deployment_remove" THEN r = None ELSE r # None /\ DepAsAsked(o, r)

\* What a task asked for p makes of a record nobody else touches.
AppOutcome(p, r) ==
    IF p.word = "remove" THEN None
    ELSE IF p.word = "init"
         THEN IF r = None THEN [deployment |-> p.deployment, source |-> p.value] ELSE r
    ELSE IF r = None THEN None ELSE ChangedApp(p, r)

DepOutcome(p, d, r) ==
    IF p.word = "deployment_remove" THEN None
    ELSE IF p.word = "deployment_create" THEN Fresh(p.value = "tls")
    ELSE IF r # None THEN ChangedDep(p, r)
    ELSE IF p.word \in MachineWords \/ (p.word \in PublishWords /\ d = Local)
         THEN ChangedDep(p, Created(p))
    ELSE None

\* Done after o, p takes back what o asked for.
AppUndoes(p, o) ==
    \E r \in AppRecord \cup {None} : AppHas(o, r) /\ ~AppHas(o, AppOutcome(p, r))
DepUndoes(p, o, d) ==
    \E r \in DepRecord \cup {None} : DepHas(o, r) /\ ~DepHas(o, DepOutcome(p, d, r))

\* Task j was at work when k was, or it came later and was asked for the opposite.
AppRival(j, k) ==
    j # k /\ j \notin before[k] /\ (k \in before[j] => AppUndoes(op[j], op[k]))
DepRival(j, k, d) ==
    j # k /\ j \notin before[k] /\ (k \in before[j] => DepUndoes(op[j], op[k], d))

AppClear(k) == \A j \in AppWriters(op[k].app) : ~AppRival(j, k)
DepClear(k, d) == \A j \in DepWriters(d) : ~DepRival(j, k, d)

\* The deployments a task has written: the one of a task that has succeeded, the
\* machines it is through with of one that goes through them, however it ends.
DepsWritten(k) ==
    IF ~Begun(k) THEN {}
    ELSE IF op[k].word \in MachineWords THEN listed[k] \ todo[k]
    ELSE IF result[k] = "ok" /\ op[k].word \in DepWords \cup PublishWords THEN {at[k]}
    ELSE {}

\* A task that reported success has had its effect, and the effect lasts until a
\* task that was at work at the same time overwrites the record with an older copy,
\* or a later task is asked for the opposite.  A crash, a lost connection, a failing
\* task, any number of later tasks that change something else of the record, even
\* those that overlap one another, and the start of the server, which writes the
\* deployments of all machines, undo nothing else.
LostOnlyToRivals ==
    \A k \in Tasks :
        /\ result[k] = "ok" /\ op[k].word \in AppWords /\ AppClear(k)
           => AppHas(op[k], applications[op[k].app])
        /\ \A d \in DepsWritten(k) : DepClear(k, d) => DepHas(op[k], deployments[d])

\* Where a value in the registry may come from.
FromInit(a) == Asked({"init"}) \cap AppWriters(a)
Given(a, r) ==
    /\ \/ \E f \in StartApps : f[a] # None
       \/ FromInit(a) # {}
    /\ \/ \E f \in StartApps : f[a] # None /\ f[a].source = r.source
       \/ \E k \in AppWriters(a) : op[k].word \in {"init", "update"} /\ op[k].value = r.source
    /\ \/ \E f \in StartApps : f[a] # None /\ f[a].deployment = r.deployment
       \/ \E k \in AppWriters(a) : /\ op[k].word \in {"init", "set_deployment"}
                                   /\ op[k].deployment = r.deployment
GivenDep(d, r) ==
    /\ \/ \E f \in StartDeps : f[d] # None
       \/ \E k \in Asked({"deployment_create"}) : op[k].deployment = d
       \/ \E k \in Asked(MachineWords) : d \in listed[k]
       \/ d = Local /\ Asked(PublishWords) # {}
    /\ \A x \in Domains : r.exports[x] # None =>
          \/ \E f \in StartDeps : f[d] # None /\ f[d].exports[x] = r.exports[x]
          \/ \E k \in Asked({"publish"}) : op[k].domain = x /\ op[k].app = r.exports[x]

\* However tasks overlap, whatever is lost or comes back, nothing appears in the
\* registry that nobody wrote: every field of every record is one it had at the
\* beginning or one that a task was asked to give to that very record, a record
\* that exists was created by somebody or is a machine's, and only 'local' is created
\* by a publish.
NothingInvented ==
    /\ \A a \in Apps : applications[a] # None => Given(a, applications[a])
    /\ \A d \in Deployments : deployments[d] # None => GivenDep(d, deployments[d])
    /\ default # None =>
          \/ default \in StartDefaults
          \/ \E k \in Asked({"deployment_set_default", "deployment_create"}) :
                op[k].deployment = default
=============================================================================
