----------------------------- MODULE Publishing -----------------------------
(***************************************************************************)
(* How a published domain reaches the load balancer: the tasks of Registry *)
(* that call plugins, composed with the haproxy plugin                     *)
(* (plugins/haproxy/mcloud_haproxy.py).  The plugin lists the applications *)
(* and what they publish, renders the configuration of every deployment,   *)
(* and rebuilds the one container named mcloud_haproxy there: it stops,    *)
(* deletes, creates and starts it, looking it up by name each time.        *)
(*                                                                         *)
(* The requests the plugin sends to Redis between its waits for Docker are *)
(* not queued with those of the tasks: they may take as long as they like. *)
(* Docker may say no where nobody looks at what it says.                   *)
(***************************************************************************)
EXTENDS Registry

CONSTANTS
    Old,            \* the id of a haproxy container that was there before
    StartProxies    \* what may run on each deployment at the beginning

Routes == SUBSET (Domains \X Apps)
Container == [id : Tasks \cup {Old}, running : BOOLEAN, routes : Routes]

ASSUME PublishingAssumption ==
    /\ Old \notin Tasks /\ None \notin Tasks \cup {Old} \cup Container
    /\ StartProxies \subseteq [Deployments -> Container \cup {None}]

VARIABLES
    web,        \* whether the web service of an application runs
    proxy,      \* the container mcloud_haproxy of each deployment
    loaded,     \* whether the plugin is among those the server calls
    plugin,     \* what the plugin does on behalf of each task
    skipped     \* history: the tasks for which something of it silently was not done

pubVars == <<vars, web, proxy, loaded, plugin, skipped>>

Idle == [stage |-> "idle", dep |-> None, public |-> {}, apps |-> {}, routes |-> {},
         todo |-> {}, id |-> None]

-----------------------------------------------------------------------------
(* Dumping the configuration *)

\* get_deployment of an application with a deployment of that name, or without one
Resolved(name) == IF name = None THEN DefaultOf(deployments, default) ELSE name
Dangling(name) == name # None /\ deployments[name] = None

At(k, stage) == pc[k] = "plugins" /\ plugin[k].stage = stage

\* Steps of the plugin change the plugin's state and the container.
Quiet == UNCHANGED <<vars, web, loaded, skipped>>
Moves(k, stage, p) == plugin' = [plugin EXCEPT ![k] = [p EXCEPT !.stage = stage]]

\* An exception in the plugin is one in the task; but the start of the server goes on,
\* with a plugin that is not loaded.
Raises(k) ==
    /\ \/ Leave(k, "plugins", "failed") /\ op[k].word # "setup"
       \/ Syncs(k, "plugins") /\ op[k].word = "setup"
    /\ plugin' = [plugin EXCEPT ![k] = Idle]
    /\ UNCHANGED <<web, proxy, loaded, skipped>>

\* Whatever else the plugin's setup waits for may raise too.
SetupFails(k) == "refuse" \in Faults /\ pc[k] = "plugins" /\ op[k].word = "setup" /\ Raises(k)

\* The plugins are called that are loaded.
NotLoaded(k) ==
    /\ At(k, "idle")
    /\ ~loaded /\ op[k].word # "setup"
    /\ Notified(k)
    /\ skipped' = skipped \cup {k}
    /\ UNCHANGED <<web, proxy, loaded, plugin>>

\* on_service_start reads the application and its deployment once more;
\* publish_app hands its deployment over; setup concerns all of them.
Called(k) ==
    /\ At(k, "idle")
    /\ loaded \/ op[k].word = "setup"
    /\ LET w == op[k].word
           a == op[k].app
           gone == w = "start" /\ (applications[a] = None \/ Dangling(applications[a].deployment))
       IN  \/ gone /\ Raises(k)
           \/ /\ ~gone
              /\ Moves(k, "dump", [plugin[k] EXCEPT !.dep =
                    IF w = "start" THEN Resolved(applications[a].deployment) ELSE at[k]])
              /\ Quiet /\ UNCHANGED proxy

\* ApplicationController.list: the domains of every deployment, by application,
Collects(k) ==
    /\ At(k, "dump")
    /\ Moves(k, "apps", [plugin[k] EXCEPT !.public =
          { xa \in Domains \X Apps :
              \E d \in Existing(deployments) : deployments[d].exports[xa[1]] = xa[2] }])
    /\ Quiet /\ UNCHANGED proxy

\* the applications,
Lists(k) ==
    /\ At(k, "apps")
    /\ Moves(k, "load", [plugin[k] EXCEPT !.apps =
          { <<a, applications[a].deployment>> : a \in Existing(applications) }])
    /\ Quiet /\ UNCHANGED proxy

\* and where each of them runs.  One whose deployment does not exist is listed
\* without it, and dump raises a KeyError.  One in unseen is not seen to run.
DumpsBut(k, unseen) ==
    LET p == plugin[k]
        routes == { <<Resolved(an[2]), xa[1], xa[2]>> : an \in p.apps, xa \in p.public }
        own == { r \in routes : \E an \in p.apps : /\ an[1] = r[3] /\ web[r[3]] /\ r[3] \notin unseen
                                                   /\ Resolved(an[2]) = r[1] }
        keys == { Resolved(an[2]) : an \in p.apps }
    IN  /\ At(k, "load")
        /\ \A an \in p.apps : ~Dangling(an[2])
        /\ Moves(k, "next", [p EXCEPT !.routes = own, !.apps = {}, !.public = {},
                                      !.todo = IF op[k].word = "setup" THEN keys
                                               ELSE keys \cap {p.dep}])

Dumps(k) ==
    \/ DumpsBut(k, {}) /\ Quiet /\ UNCHANGED proxy
    \/ At(k, "load") /\ (\E an \in plugin[k].apps : Dangling(an[2])) /\ Raises(k)

-----------------------------------------------------------------------------
(* Rebuilding the container *)

RoutesFor(k, d) == { <<r[2], r[3]>> : r \in { q \in plugin[k].routes : q[1] = d } }

\* The next deployment, or the end of the plugin's work: after its setup it is loaded.
Chooses(k) ==
    LET p == plugin[k]
    IN  /\ At(k, "next")
        /\ \/ /\ p.todo = {}
              /\ Notified(k)
              /\ plugin' = [plugin EXCEPT ![k] = Idle]
              /\ loaded' = (loaded \/ op[k].word = "setup")
              /\ UNCHANGED <<web, proxy, skipped>>
           \/ \E d \in p.todo :
                 \/ deployments[d] = None /\ Raises(k)
                 \/ /\ deployments[d] # None
                    /\ Moves(k, "find to stop", [p EXCEPT !.todo = @ \ {d}, !.dep = d])
                    /\ Quiet /\ UNCHANGED proxy

\* find_container_by_name: the id the next call uses.
Find(k, from, to) ==
    LET c == proxy[plugin[k].dep]
    IN  /\ At(k, from)
        /\ Moves(k, to, [plugin[k] EXCEPT !.id = IF c = None THEN None ELSE c.id])
        /\ Quiet /\ UNCHANGED proxy

\* A call by the id that was found; one by an id that is gone does nothing.
Hit(k) == LET c == proxy[plugin[k].dep] IN c # None /\ c.id = plugin[k].id

\* Mutation: the call that stops the container is forgotten.
Bug_Stops(k) ==
    /\ At(k, "stop")
    /\ Moves(k, "find to delete", plugin[k])
    /\ Quiet /\ UNCHANGED proxy

Stops(k) ==
    /\ At(k, "stop")
    /\ proxy' = IF Hit(k) THEN [proxy EXCEPT ![plugin[k].dep].running = FALSE] ELSE proxy
    /\ Moves(k, "find to delete", plugin[k])
    /\ Quiet

\* Docker refuses to delete a container that runs, and nobody looks at its answer.
Deletes(k) ==
    LET d == plugin[k].dep
    IN  /\ At(k, "delete")
        /\ proxy' = IF Hit(k) /\ ~proxy[d].running THEN [proxy EXCEPT ![d] = None] ELSE proxy
        /\ Moves(k, "find to start", plugin[k])
        /\ Quiet

\* Service.start creates the container if there was none by that name; one that
\* has appeared in the meantime is taken for it (status 409).
Creates(k) ==
    LET d == plugin[k].dep
    IN  /\ At(k, "found")
        /\ plugin[k].id = None
        /\ proxy' = IF proxy[d] # None THEN proxy
                    ELSE [proxy EXCEPT ![d] = [id |-> k, running |-> FALSE, routes |-> RoutesFor(k, d)]]
        /\ Moves(k, "find created", plugin[k])
        /\ Quiet

\* Mutation: the container that was just created is not started.
Bug_Inspects(k) ==
    /\ At(k, "found") \/ At(k, "created")
    /\ \/ proxy[plugin[k].dep] = None /\ Raises(k)
       \/ /\ proxy[plugin[k].dep] # None
          /\ Moves(k, IF At(k, "created") THEN "next" ELSE "start", plugin[k])
          /\ Quiet /\ UNCHANGED proxy

\* Service.start inspects the container by its name: a TypeError if it is gone.
Inspects(k) ==
    /\ \/ At(k, "found") /\ plugin[k].id # None
       \/ At(k, "created")
    /\ \/ proxy[plugin[k].dep] = None /\ Raises(k)
       \/ /\ proxy[plugin[k].dep] # None
          /\ Moves(k, "start", plugin[k])
          /\ Quiet /\ UNCHANGED proxy

Starts(k) ==
    /\ At(k, "start")
    /\ proxy' = IF Hit(k) THEN [proxy EXCEPT ![plugin[k].dep].running = TRUE] ELSE proxy
    /\ Moves(k, "started", plugin[k])
    /\ Quiet

\* Into a container that runs by that name
Looks(k) ==
    LET c == proxy[plugin[k].dep]
    IN  /\ At(k, "started")
        /\ Moves(k, IF c # None /\ c.running THEN "exec" ELSE "next", plugin[k])
        /\ Quiet /\ UNCHANGED proxy

\* put_file puts a file, by the id it was started by: Docker's answer has no 'Id' if
\* that is not there any more, or does not run.
Puts(k) ==
    /\ At(k, "exec")
    /\ \/ /\ Hit(k) /\ proxy[plugin[k].dep].running
          /\ Moves(k, "next", plugin[k])
          /\ Quiet /\ UNCHANGED proxy
       \/ ~(Hit(k) /\ proxy[plugin[k].dep].running) /\ Raises(k)

Rebuilds(k) ==
    \/ Find(k, "find to stop", "stop") \/ Stops(k)
    \/ Find(k, "find to delete", "delete") \/ Deletes(k)
    \/ Find(k, "find to start", "found") \/ Creates(k)
    \/ Find(k, "find created", "created") \/ Inspects(k) \/ Starts(k)
    \/ Looks(k) \/ Puts(k)

\* Docker answers a call with an error, or an inspection not at all, and the plugin
\* goes on: for a container that is not found there is none, the answers to stop,
\* delete and start are ignored, and what was not inspected does not run.
Ignored(k) ==
    /\ "deny" \in Faults
    /\ \/ \E step \in {<<"find to stop", "stop">>, <<"find to delete", "delete">>,
                       <<"find to start", "found">>, <<"find created", "created">>} :
             At(k, step[1]) /\ Moves(k, step[2], [plugin[k] EXCEPT !.id = None])
       \/ \E step \in {<<"stop", "find to delete">>, <<"delete", "find to start">>,
                       <<"start", "started">>, <<"started", "next">>} :
             At(k, step[1]) /\ Moves(k, step[2], plugin[k])
       \/ \E unseen \in SUBSET Apps : DumpsBut(k, unseen)
    /\ skipped' = skipped \cup {k}
    /\ UNCHANGED <<vars, web, loaded, proxy>>

-----------------------------------------------------------------------------
(* Specification *)

PubInit ==
    /\ Init
    /\ web \in [Apps -> BOOLEAN]
    /\ proxy \in StartProxies
    /\ loaded \in BOOLEAN /\ (loaded => up)
    /\ plugin = [k \in Tasks |-> Idle]
    /\ skipped = {}

\* Mutation: the plugin of a task that is killed goes on.
Bug_Elsewhere == UNCHANGED plugin

\* A step of Registry, which ends the plugin's work for the tasks it ends.
Elsewhere == plugin' = [k \in Tasks |-> IF pc'[k] = "plugins" THEN plugin[k] ELSE Idle]

\* The service of the application is up when its listeners are called.
Launches(k) ==
    /\ Launched(k)
    /\ web' = [web EXCEPT ![op[k].app] = TRUE]
    /\ UNCHANGED <<proxy, loaded, skipped>> /\ Elsewhere

ServiceExits(a) ==
    /\ "exit" \in Faults
    /\ web[a]
    /\ web' = [web EXCEPT ![a] = FALSE]
    /\ UNCHANGED <<vars, proxy, loaded, plugin, skipped>>

InRegistry(k) ==
    /\ \/ \E o \in Requests : Begin(k, o)
       \/ AppStep(k) \/ DepStep(k) \/ Listed(k) \/ Fails(k)
    /\ UNCHANGED <<web, proxy, loaded, skipped>> /\ Elsewhere

\* A server that has died has nothing loaded.
Interrupted ==
    /\ RedisLost \/ Crash
    /\ loaded' = (loaded /\ up')
    /\ UNCHANGED <<web, proxy, skipped>> /\ Elsewhere

PluginStep(k) ==
    \/ NotLoaded(k) \/ Called(k) \/ Collects(k) \/ Lists(k) \/ Dumps(k) \/ Chooses(k)
    \/ Rebuilds(k) \/ Ignored(k) \/ SetupFails(k)

PubNext ==
    \/ \E k \in Tasks : InRegistry(k) \/ Launches(k) \/ PluginStep(k)
    \/ \E a \in Apps : ServiceExits(a)
    \/ Interrupted

PubSpec == PubInit /\ [][PubNext]_pubVars

-----------------------------------------------------------------------------
(* Properties *)

\* The types of what Publishing adds.
PubTypeOK ==
    /\ web \in [Apps -> BOOLEAN]
    /\ proxy \in [Deployments -> Container \cup {None}]
    /\ loaded \in BOOLEAN
    /\ skipped \subseteq Tasks
    /\ \A k \in Tasks :
          LET p == plugin[k]
          IN  /\ p.dep \in Deployments \cup {None}
              /\ p.id \in Tasks \cup {Old, None}
              /\ p.public \in Routes
              /\ p.routes \subseteq Deployments \X Domains \X Apps
              /\ p.todo \subseteq Deployments
              /\ p.stage # "idle" => pc[k] = "plugins"

\* The domains the registry sends to deployment d, as haproxy should serve them.
Published(d) ==
    { xa \in Domains \X Apps :
        /\ applications[xa[2]] # None /\ web[xa[2]]
        /\ Resolved(applications[xa[2]].deployment) = d
        /\ \E e \in Existing(deployments) : deployments[e].exports[xa[1]] = xa[2] }

Alone(k) == Undisturbed(k, { j \in Tasks : Begun(j) })

\* Where the listeners of a task that succeeded rebuilt the proxy.
Served(k) == IF op[k].word = "start" THEN Resolved(applications[op[k].app].deployment) ELSE at[k]

\* A publish, an unpublish or a start that reported success, that no other task
\* overlapped or followed, that found the plugin loaded and for which Docker did what
\* nobody looks at, has left a load balancer that runs and that serves what
\* the registry publishes there and no domain that is not published, whatever state
\* failures, crashes, refusals and other tasks had left the container in.
DoneMeansServed ==
    \A k \in Tasks :
        /\ result[k] = "ok" /\ Alone(k) /\ k \notin skipped
        /\ op[k].word \in PublishWords \cup {"start"}
        => LET c == proxy[Served(k)]
           IN  /\ c # None
               /\ c.running
               /\ Published(Served(k)) \subseteq c.routes
               /\ \A xa \in c.routes :
                     \E e \in Existing(deployments) : deployments[e].exports[xa[1]] = xa[2]

\* The tasks so far publish, unpublish or only read.
OnlyRebuilds == \A j \in Tasks : Begun(j) => op[j].word \in PublishWords \cup ReadWords

\* Rebuilds that overlap do not leave the load balancer down, however many they are,
\* though each deletes and creates the container the others work on: when all have
\* ended, none of them by a failure or with something left undone, it runs wherever
\* something was published, if an application is there.
ProxyStaysUp ==
    \A k \in Tasks :
        /\ OnlyRebuilds /\ skipped = {}
        /\ \A j \in Tasks : pc[j] \in {"new", "done"} /\ result[j] \in {"none", "ok"}
        /\ result[k] = "ok" /\ op[k].word \in PublishWords
        /\ \E a \in Existing(applications) : Resolved(applications[a].deployment) = at[k]
        => proxy[at[k]] # None /\ proxy[at[k]].running

\* What docs/source/use/publish.rst says after a publish: "Load balancer is already
\* reconfigured, so you can open your url in browser."  Once all tasks have ended,
\* without any failure, a domain that was published and is in the registry is served.
LoadBalancerReconfigured ==
    \A d \in Deployments :
        /\ skipped = {}
        /\ \A k \in Tasks : pc[k] = "done" /\ result[k] = "ok"
        /\ proxy[d] # None
        => Published(d) \subseteq proxy[d].routes
=============================================================================
