--------------------------- MODULE PublishingProofs ---------------------------
(***************************************************************************)
(* Proofs about Publishing, for every set of tasks, applications,          *)
(* deployments and domains, and every fault.                               *)
(***************************************************************************)
EXTENDS Publishing, RegistryProofs

-----------------------------------------------------------------------------
(* Types *)

Stages == {"idle", "dump", "apps", "load", "next", "find to stop", "stop", "find to delete", "delete",
           "find to start", "found", "find created", "created", "start", "started", "exec"}

\* Those of the rebuilding of one container.
Rebuilding == {"find to stop", "stop", "find to delete", "delete", "find to start", "found",
               "find created", "created", "start", "started", "exec"}

PluginRecord ==
  [stage : Stages, dep : Deployments \cup {None}, public : Routes,
   apps : SUBSET (Apps \X (Deployments \cup {None})),
   routes : SUBSET (Deployments \X Domains \X Apps),
   todo : SUBSET Deployments, id : Tasks \cup {Old, None}]

PubType ==
  /\ web \in [Apps -> BOOLEAN]
  /\ proxy \in [Deployments -> Container \cup {None}]
  /\ plugin \in [Tasks -> PluginRecord]
  /\ \A k \in Tasks : /\ plugin[k].stage # "idle" => pc[k] = "plugins"
                      /\ plugin[k].stage \in Rebuilding => plugin[k].dep \in Deployments

LEMMA IdleRecord == Idle \in PluginRecord /\ Idle.stage = "idle"
  BY DEF Idle, PluginRecord, Stages, Routes

LEMMA PluginFields ==
  ASSUME PubType, NEW k \in Tasks
  PROVE  /\ plugin[k] \in PluginRecord /\ plugin[k].stage \in Stages
         /\ plugin[k].dep \in Deployments \cup {None} /\ plugin[k].public \in Routes
         /\ plugin[k].apps \in SUBSET (Apps \X (Deployments \cup {None}))
         /\ plugin[k].routes \in SUBSET (Deployments \X Domains \X Apps)
         /\ plugin[k].todo \in SUBSET Deployments /\ plugin[k].id \in Tasks \cup {Old, None}
<1>1. plugin[k] \in PluginRecord
  BY DEF PubType
<1> QED BY <1>1 DEF PluginRecord

LEMMA ResolvedType ==
  ASSUME State, NEW name \in Deployments \cup {None}
  PROVE  Resolved(name) \in Deployments
<1>1. DefaultOf(deployments, default) \in Deployments
  BY DefaultOfType DEF State, StoreType
<1> QED BY <1>1 DEF Resolved

LEMMA AppDeployment ==
  ASSUME State, NEW a \in Existing(applications)
  PROVE  a \in Apps /\ applications[a].deployment \in Deployments \cup {None}
BY DEF State, StoreType, AppStore, AppRecord, Existing

\* What moving a task's plugin to another stage leaves.
LEMMA MovesType ==
  ASSUME PubType, NEW k \in Tasks, NEW r \in PluginRecord, plugin' = [plugin EXCEPT ![k] = r],
         pc[k] = "plugins", UNCHANGED pc, r.stage \in Rebuilding => r.dep \in Deployments
  PROVE  /\ plugin' \in [Tasks -> PluginRecord]
         /\ \A j \in Tasks : /\ plugin'[j].stage # "idle" => pc'[j] = "plugins"
                             /\ plugin'[j].stage \in Rebuilding => plugin'[j].dep \in Deployments
         /\ plugin'[k] = r
         /\ \A j \in Tasks \ {k} : plugin'[j] = plugin[j]
BY DEF PubType

LEMMA RecordMoved ==
  ASSUME NEW stage \in Stages, NEW p \in PluginRecord, NEW r, r = [p EXCEPT !.stage = stage]
  PROVE  /\ r \in PluginRecord
         /\ r.stage = stage /\ r.dep = p.dep /\ r.apps = p.apps /\ r.todo = p.todo /\ r.id = p.id
         /\ r.public = p.public /\ r.routes = p.routes
BY DEF PluginRecord

\* An exception in the plugin ends the task, unless that is the start of the server.
LEMMA RaisesType ==
  ASSUME State, PubType, NEW k \in Tasks, Raises(k)
  PROVE  /\ State' /\ PubType' /\ Turned(k) /\ skipped' = skipped
         /\ op[k].word = "setup" \/ result'[k] = "failed"
<1>1. GoodTurn(k)
  BY GoodLeave, GoodSyncs DEF Raises, MachineWords
<1>2. plugin' = [plugin EXCEPT ![k] = Idle] /\ UNCHANGED <<web, proxy>>
  BY DEF Raises
<1>3. plugin' \in [Tasks -> PluginRecord] /\ plugin'[k].stage = "idle"
      /\ \A j \in Tasks \ {k} : plugin'[j] = plugin[j]
  BY <1>2, IdleRecord DEF PubType
<1>4. \A j \in Tasks \ {k} : pc'[j] = pc[j]
  BY <1>1 DEF GoodTurn, Turned, OthersStay
<1>5. op[k].word = "setup" \/ result'[k] = "failed"
  BY DEF Raises, Leave, Finish, State, LocalType
<1>6. skipped' = skipped
  BY DEF Raises
<1> QED BY <1>1, <1>2, <1>3, <1>4, <1>5, <1>6 DEF PubType, GoodTurn, Rebuilding

-----------------------------------------------------------------------------
(* Who looks after a load balancer *)

\* Where a task that rebuilds deployment d has yet to look for the container that
\* it starts, or has found the one that is there.
Early == {"find to stop", "stop", "find to delete", "delete", "find to start"}

Works(k, d) ==
  /\ pc[k] = "plugins" /\ plugin[k].dep = d
  /\ \/ plugin[k].stage \in Early
     \/ plugin[k].stage = "found" /\ plugin[k].id = None
     \/ /\ proxy[d] # None
        /\ \/ plugin[k].stage = "find created"
           \/ plugin[k].stage \in {"found", "created", "start"} /\ plugin[k].id = proxy[d].id

\* The load balancer of d runs, or somebody will start it.
Tended(d) == (proxy[d] # None /\ proxy[d].running) \/ \E k \in Tasks : Works(k, d)

Used(d) == \E a \in Existing(applications) : Resolved(applications[a].deployment) = d

\* Nothing has failed or was left undone, and nobody has been asked to change the registry
\* but for the domains.
Calm == OnlyRebuilds /\ skipped = {} /\ \A k \in Tasks : result[k] \in {"none", "ok"}

\* The list of deployments a task holds gives the default there is, and a record that
\* is about to be put changes none.
Defaults(k) ==
  /\ pc[k] = "get default" =>
       \/ Existing(all[k]) = Existing(deployments)
       \/ Existing(all[k]) = {} /\ Existing(deployments) = {Local}
  /\ pc[k] = "put dep" => at[k] \in Existing(deployments) \/ (Existing(deployments) = {} /\ at[k] = Local)

\* The domains that deployments export, and the applications with theirs.
Exported == { xa \in Domains \X Apps :
                 \E d \in Existing(deployments) : deployments[d].exports[xa[1]] = xa[2] }
Listing == { <<a, applications[a].deployment>> : a \in Existing(applications) }

Dumping == {"idle", "dump", "apps", "load"}

\* What a task that publishes does about the load balancer where it publishes.
Rebuilt(k) ==
  pc[k] # "new" /\ op[k].word \in PublishWords =>
    /\ pc[k] = "plugins" =>
         /\ plugin[k].stage \in {"dump", "apps", "load"} => plugin[k].dep = at[k]
         /\ plugin[k].stage = "load" =>
              plugin[k].apps = Listing
         /\ plugin[k].stage \notin Dumping => at[k] \in plugin[k].todo \/ Tended(at[k]) \/ ~Used(at[k])
    /\ pc[k] = "list" \/ (pc[k] = "done" /\ result[k] = "ok") =>
         at[k] \in Deployments /\ (Tended(at[k]) \/ ~Used(at[k]))

-----------------------------------------------------------------------------
(* The steps of the plugin *)

\* The plugin goes on for task k.
Advances(k) ==
  /\ UNCHANGED <<vars, web, skipped>> /\ pc[k] = "plugins" /\ State' /\ PubType'
  /\ \A j \in Tasks \ {k} : plugin'[j] = plugin[j]
  /\ \A d \in Deployments : d # plugin[k].dep => proxy'[d] = proxy[d]

\* No load balancer is left to itself, and task k does its part.
Tends(k) ==
  /\ Advances(k)
  /\ \A d \in Deployments : Tended(d) => Tended(d)'
  /\ Rebuilt(k) => Rebuilt(k)'

\* A step of the plugin touches one container at most.
TouchesOne(k) ==
  /\ proxy' \in [Deployments -> Container \cup {None}]
  /\ \A d \in Deployments : d # plugin[k].dep => proxy'[d] = proxy[d]

LEMMA OneContainer ==
  ASSUME PubType, NEW k \in Tasks,
         proxy' = proxy \/ \E d \in Deployments, c \in Container \cup {None} :
                              d = plugin[k].dep /\ proxy' = [proxy EXCEPT ![d] = c]
  PROVE  TouchesOne(k)
BY DEF PubType, TouchesOne

LEMMA MovesAdvances ==
  ASSUME State, PubType, NEW k \in Tasks, pc[k] = "plugins", NEW stage \in Stages,
         NEW p \in PluginRecord, stage \in Rebuilding => p.dep \in Deployments,
         plugin' = [plugin EXCEPT ![k] = [p EXCEPT !.stage = stage]], Quiet,
         TouchesOne(k)
  PROVE  /\ Advances(k) /\ plugin'[k].stage = stage /\ plugin'[k].dep = p.dep
         /\ plugin'[k].apps = p.apps /\ plugin'[k].todo = p.todo /\ plugin'[k].id = p.id
         /\ plugin'[k].public = p.public /\ plugin'[k].routes = p.routes
<1>1. UNCHANGED <<vars, web, skipped>> /\ pc[k] = "plugins"
  BY DEF Quiet
<1>2. UNCHANGED pc
  BY <1>1 DEF vars
<1>0. PICK r : r = [p EXCEPT !.stage = stage]
  OBVIOUS
<1>r. /\ r \in PluginRecord /\ plugin' = [plugin EXCEPT ![k] = r]
      /\ r.stage = stage /\ r.dep = p.dep /\ r.apps = p.apps /\ r.todo = p.todo /\ r.id = p.id
      /\ r.public = p.public /\ r.routes = p.routes
  <2>1. plugin' = [plugin EXCEPT ![k] = r]
    BY <1>0
  <2> QED BY <1>0, <2>1, RecordMoved
<1>3. /\ plugin' \in [Tasks -> PluginRecord]
      /\ \A j \in Tasks : /\ plugin'[j].stage # "idle" => pc'[j] = "plugins"
                          /\ plugin'[j].stage \in Rebuilding => plugin'[j].dep \in Deployments
      /\ plugin'[k] = r
      /\ \A j \in Tasks \ {k} : plugin'[j] = plugin[j]
  BY <1>1, <1>2, <1>r, MovesType
<1>4. /\ proxy' \in [Deployments -> Container \cup {None}]
      /\ \A d \in Deployments : d # plugin[k].dep => proxy'[d] = proxy[d]
  BY DEF TouchesOne
<1>5. State'
  BY <1>1, NextState DEF vars
<1>6. PubType'
  BY <1>1, <1>3, <1>4 DEF PubType
<1> QED BY <1>1, <1>r, <1>3, <1>4, <1>5, <1>6 DEF Advances

\* Another task goes on looking after d, or this one does.
LEMMA StillTended ==
  ASSUME PubType, NEW k \in Tasks, Advances(k), NEW d \in Deployments, Tended(d),
         proxy'[d] = proxy[d], Works(k, d) => Works(k, d)'
  PROVE  Tended(d)'
<1>1. UNCHANGED pc
  BY DEF Advances, vars
<1>2. ASSUME NEW j \in Tasks \ {k}, Works(j, d) PROVE Works(j, d)'
  BY <1>1, <1>2 DEF Works, Advances
<1> QED BY <1>2 DEF Tended

\* Before there is anything to look after.
LEMMA IdleTends ==
  ASSUME State, PubType, NEW k \in Tasks, Advances(k), proxy' = proxy,
         plugin[k].stage \in Dumping \cup {"next"}
  PROVE  \A d \in Deployments : Tended(d) => Tended(d)'
<1>1. ASSUME NEW d \in Deployments, Works(k, d) PROVE FALSE
  BY <1>1 DEF Works, Early, Dumping
<1> QED BY <1>1, StillTended

LEMMA UsedStays ==
  ASSUME NEW k \in Tasks, Advances(k)
  PROVE  /\ \A d : Used(d)' <=> Used(d)
         /\ UNCHANGED <<applications, deployments, default, op, pc, at, result>>
BY DEF Advances, vars, stores, held, Used, Existing, Resolved, DefaultOf

-----------------------------------------------------------------------------
(* Dumping the configuration *)

LEMMA DumpStages ==
  /\ "dump" \in Stages \ Rebuilding /\ "apps" \in Stages \ Rebuilding
  /\ "load" \in Stages \ Rebuilding /\ "next" \in Stages \ Rebuilding
BY DEF Stages, Rebuilding

LEMMA DumpAdvances ==
  ASSUME State, PubType, NEW k \in Tasks, pc[k] = "plugins",
         NEW stage, stage \in {"dump", "apps", "load", "next"}, NEW p \in PluginRecord,
         plugin' = [plugin EXCEPT ![k] = [p EXCEPT !.stage = stage]], Quiet, proxy' = proxy
  PROVE  /\ Advances(k) /\ plugin'[k].stage = stage /\ plugin'[k].dep = p.dep
         /\ plugin'[k].apps = p.apps /\ plugin'[k].todo = p.todo /\ plugin'[k].id = p.id
         /\ plugin'[k].public = p.public /\ plugin'[k].routes = p.routes
<1>1. stage \in Stages /\ (stage \in Rebuilding => p.dep \in Deployments)
  BY DumpStages
<1>2. TouchesOne(k)
  BY OneContainer
<1> QED BY <1>1, <1>2, MovesAdvances

\* A step of dump: the task goes on from one of its stages to another.
Dumped(k, from, stage) ==
  At(k, from) /\ Advances(k) /\ proxy' = proxy /\ plugin'[k].stage = stage

LEMMA CalledMoves ==
  ASSUME State, PubType, NEW k \in Tasks, Called(k)
  PROVE  \/ Raises(k)
         \/ /\ Dumped(k, "idle", "dump")
            /\ plugin'[k].dep = IF op[k].word = "start" THEN Resolved(applications[op[k].app].deployment)
                                ELSE at[k]
            /\ op[k].word = "start" => applications[op[k].app] # None
<1>. SUFFICES ASSUME ~Raises(k)
              PROVE  /\ Dumped(k, "idle", "dump")
                     /\ plugin'[k].dep = IF op[k].word = "start" THEN Resolved(applications[op[k].app].deployment)
                                         ELSE at[k]
                     /\ op[k].word = "start" => applications[op[k].app] # None
  OBVIOUS
<1>1. PICK dep : dep = IF op[k].word = "start" THEN Resolved(applications[op[k].app].deployment) ELSE at[k]
  OBVIOUS
<1>2. PICK p : p = [plugin[k] EXCEPT !.dep = dep]
  OBVIOUS
<1>3. /\ At(k, "idle") /\ Quiet /\ proxy' = proxy
      /\ plugin' = [plugin EXCEPT ![k] = [p EXCEPT !.stage = "dump"]]
      /\ op[k].word = "start" => applications[op[k].app] # None
  BY <1>1, <1>2 DEF Called, Moves
<1>4. dep \in Deployments \cup {None}
  <2>1. CASE op[k].word = "start"
    <3>1. Shape(k) /\ pc[k] = "plugins"
      BY <1>3 DEF State, Shapes, At
    <3>2. op[k].app \in Apps
      BY <2>1, <3>1, RequestFields DEF Shape, ShapeOf
    <3>3. op[k].app \in Existing(applications)
      BY <1>3, <2>1, <3>2 DEF Existing, State, StoreType, AppStore
    <3> QED BY <1>1, <2>1, <3>3, AppDeployment, ResolvedType
  <2>2. CASE op[k].word # "start"
    BY <1>1, <2>2 DEF State, LocalType
  <2> QED BY <2>1, <2>2
<1>5. p \in PluginRecord /\ p.dep = dep
  BY <1>2, <1>4, PluginFields DEF PluginRecord
<1>6. Advances(k) /\ plugin'[k].stage = "dump" /\ plugin'[k].dep = dep
  BY <1>3, <1>5, DumpAdvances DEF At
<1> QED BY <1>1, <1>3, <1>6 DEF Dumped

LEMMA CollectsMoves ==
  ASSUME State, PubType, NEW k \in Tasks, Collects(k)
  PROVE  /\ Dumped(k, "dump", "apps")
         /\ plugin'[k].dep = plugin[k].dep /\ plugin'[k].public = Exported
<1>1. PICK s : s = Exported
  OBVIOUS
<1>2. PICK p : p = [plugin[k] EXCEPT !.public = s]
  OBVIOUS
<1>3. /\ At(k, "dump") /\ Quiet /\ proxy' = proxy
      /\ plugin' = [plugin EXCEPT ![k] = [p EXCEPT !.stage = "apps"]]
  BY <1>1, <1>2 DEF Collects, Moves, Exported
<1>4. s \in Routes
  BY <1>1 DEF Routes, Exported
<1>5. p \in PluginRecord /\ p.dep = plugin[k].dep /\ p.public = s
  BY <1>2, <1>4, PluginFields DEF PluginRecord
<1>6. /\ Advances(k) /\ plugin'[k].stage = "apps" /\ plugin'[k].dep = plugin[k].dep
      /\ plugin'[k].public = s
  BY <1>3, <1>5, DumpAdvances DEF At
<1> QED BY <1>1, <1>3, <1>6 DEF Dumped

LEMMA ListsMoves ==
  ASSUME State, PubType, NEW k \in Tasks, Lists(k)
  PROVE  /\ Dumped(k, "apps", "load")
         /\ plugin'[k].dep = plugin[k].dep /\ plugin'[k].public = plugin[k].public
         /\ plugin'[k].apps = Listing
<1>1. PICK s : s = Listing
  OBVIOUS
<1>2. PICK p : p = [plugin[k] EXCEPT !.apps = s]
  OBVIOUS
<1>3. /\ At(k, "apps") /\ Quiet /\ proxy' = proxy
      /\ plugin' = [plugin EXCEPT ![k] = [p EXCEPT !.stage = "load"]]
  BY <1>1, <1>2 DEF Lists, Moves, Listing
<1>4. s \in SUBSET (Apps \X (Deployments \cup {None}))
  BY <1>1, AppDeployment DEF Listing
<1>5. p \in PluginRecord /\ p.dep = plugin[k].dep /\ p.apps = s /\ p.public = plugin[k].public
  BY <1>2, <1>4, PluginFields DEF PluginRecord
<1>6. /\ Advances(k) /\ plugin'[k].stage = "load" /\ plugin'[k].dep = plugin[k].dep
      /\ plugin'[k].apps = s /\ plugin'[k].public = plugin[k].public
  BY <1>3, <1>5, DumpAdvances DEF At
<1> QED BY <1>1, <1>3, <1>6 DEF Dumped

\* Where an application of the list runs.
LEMMA ListedType ==
  ASSUME State, PubType, NEW k \in Tasks, NEW an \in plugin[k].apps
  PROVE  an[1] \in Apps /\ Resolved(an[2]) \in Deployments
<1>1. an[1] \in Apps /\ an[2] \in Deployments \cup {None}
  BY PluginFields
<1> QED BY <1>1, ResolvedType

\* The routes of a dump are those of the applications that are listed and run.
DumpedRoutes(k, routes) ==
  /\ \A r \in routes : \E an \in plugin[k].apps, xa \in plugin[k].public :
        r = <<Resolved(an[2]), xa[1], xa[2]>>
  /\ \A an \in plugin[k].apps, xa \in plugin[k].public :
        an[1] = xa[2] /\ web[xa[2]] => <<Resolved(an[2]), xa[1], xa[2]>> \in routes

LEMMA DumpsButMoves ==
  ASSUME State, PubType, NEW k \in Tasks, NEW unseen, DumpsBut(k, unseen)
  PROVE  \E p \in PluginRecord :
           /\ At(k, "load") /\ plugin' = [plugin EXCEPT ![k] = [p EXCEPT !.stage = "next"]]
           /\ unseen = {} => DumpedRoutes(k, p.routes)
           /\ p.todo = IF op[k].word = "setup" THEN { Resolved(an[2]) : an \in plugin[k].apps }
                       ELSE { Resolved(an[2]) : an \in plugin[k].apps } \cap {plugin[k].dep}
<1> DEFINE routes == { <<Resolved(an[2]), xa[1], xa[2]>> : an \in plugin[k].apps, xa \in plugin[k].public }
<1>0. /\ \A r \in routes : \E an \in plugin[k].apps, xa \in plugin[k].public :
            r = <<Resolved(an[2]), xa[1], xa[2]>>
      /\ \A an \in plugin[k].apps, xa \in plugin[k].public : <<Resolved(an[2]), xa[1], xa[2]>> \in routes
  OBVIOUS
<1> HIDE DEF routes
<1>1. PICK own : own = { r \in routes : \E an \in plugin[k].apps :
                           /\ an[1] = r[3] /\ web[r[3]] /\ r[3] \notin unseen /\ Resolved(an[2]) = r[1] }
  OBVIOUS
<1>2. PICK keys : keys = { Resolved(an[2]) : an \in plugin[k].apps }
  OBVIOUS
<1>3. PICK todo_ : todo_ = IF op[k].word = "setup" THEN keys ELSE keys \cap {plugin[k].dep}
  OBVIOUS
<1>4. PICK p : p = [plugin[k] EXCEPT !.routes = own, !.apps = {}, !.public = {}, !.todo = todo_]
  OBVIOUS
<1>5. /\ At(k, "load")
      /\ plugin' = [plugin EXCEPT ![k] = [p EXCEPT !.stage = "next"]]
  BY <1>1, <1>2, <1>3, <1>4 DEF DumpsBut, Moves, routes
<1>6. own \in SUBSET (Deployments \X Domains \X Apps) /\ todo_ \in SUBSET Deployments
  <2>1. \A xa \in plugin[k].public : xa[1] \in Domains /\ xa[2] \in Apps
    BY PluginFields DEF Routes
  <2> QED BY <1>0, <1>1, <1>2, <1>3, <2>1, ListedType
<1>7. p \in PluginRecord /\ p.todo = todo_ /\ p.routes = own
  BY <1>4, <1>6, PluginFields DEF PluginRecord, Routes
<1>9. unseen = {} => DumpedRoutes(k, own)
  <2>1. ASSUME unseen = {}, NEW an \in plugin[k].apps, NEW xa \in plugin[k].public, an[1] = xa[2], web[xa[2]]
        PROVE  <<Resolved(an[2]), xa[1], xa[2]>> \in own
    <3>1. PICK r : r = <<Resolved(an[2]), xa[1], xa[2]>>
      OBVIOUS
    <3>2. r[1] = Resolved(an[2]) /\ r[3] = xa[2] /\ r \in routes
      BY <1>0, <3>1
    <3> QED BY <1>1, <2>1, <3>1, <3>2
  <2> QED BY <1>0, <1>1, <2>1 DEF DumpedRoutes
<1> QED BY <1>2, <1>3, <1>5, <1>7, <1>9

LEMMA DumpsMoves ==
  ASSUME State, PubType, NEW k \in Tasks, Dumps(k), ~Raises(k)
  PROVE  /\ Dumped(k, "load", "next") /\ DumpedRoutes(k, plugin'[k].routes)
         /\ plugin'[k].todo = IF op[k].word = "setup" THEN { Resolved(an[2]) : an \in plugin[k].apps }
                              ELSE { Resolved(an[2]) : an \in plugin[k].apps } \cap {plugin[k].dep}
<1>1. DumpsBut(k, {}) /\ Quiet /\ proxy' = proxy
  BY DEF Dumps
<1>2. PICK p \in PluginRecord :
        /\ At(k, "load") /\ plugin' = [plugin EXCEPT ![k] = [p EXCEPT !.stage = "next"]]
        /\ DumpedRoutes(k, p.routes)
        /\ p.todo = IF op[k].word = "setup" THEN { Resolved(an[2]) : an \in plugin[k].apps }
                    ELSE { Resolved(an[2]) : an \in plugin[k].apps } \cap {plugin[k].dep}
  BY <1>1, DumpsButMoves
<1>3. Advances(k) /\ plugin'[k].stage = "next" /\ plugin'[k].todo = p.todo /\ plugin'[k].routes = p.routes
  BY <1>1, <1>2, DumpAdvances DEF At
<1> QED BY <1>1, <1>2, <1>3 DEF Dumped

-----------------------------------------------------------------------------
(* The dump leaves every container to who looks after it *)

LEMMA DumpedTends ==
  ASSUME State, PubType, NEW k \in Tasks, NEW from \in Dumping \cup {"next"}, NEW stage,
         Dumped(k, from, stage), Rebuilt(k) => Rebuilt(k)'
  PROVE  Tends(k)
<1>1. \A d \in Deployments : Tended(d) => Tended(d)'
  BY IdleTends DEF Dumped, At
<1> QED BY <1>1 DEF Tends, Dumped

LEMMA DumpTends ==
  ASSUME State, PubType, NEW k \in Tasks, Called(k) \/ Collects(k) \/ Lists(k) \/ Dumps(k)
  PROVE  Tends(k) \/ Raises(k)
<1>. SUFFICES ASSUME ~Raises(k) PROVE Tends(k)
  OBVIOUS
<1>1. CASE Called(k)
  <2>1. /\ Dumped(k, "idle", "dump")
        /\ op[k].word \in PublishWords => plugin'[k].dep = at[k]
    BY <1>1, CalledMoves DEF PublishWords
  <2>2. Rebuilt(k)'
    BY <2>1, UsedStays DEF Rebuilt, Dumping, At, Dumped
  <2> QED BY <2>1, <2>2, DumpedTends DEF Dumping
<1>2. CASE Collects(k)
  <2>1. Dumped(k, "dump", "apps") /\ plugin'[k].dep = plugin[k].dep
    BY <1>2, CollectsMoves
  <2>2. Rebuilt(k) => Rebuilt(k)'
    BY <2>1, UsedStays DEF Rebuilt, Dumping, At, Dumped
  <2> QED BY <2>1, <2>2, DumpedTends DEF Dumping
<1>3. CASE Lists(k)
  <2>1. Dumped(k, "apps", "load") /\ plugin'[k].dep = plugin[k].dep /\ plugin'[k].apps = Listing
    BY <1>3, ListsMoves
  <2>2. Listing' = Listing
    BY <2>1, UsedStays DEF Listing, Dumped, Existing
  <2>3. Rebuilt(k) => Rebuilt(k)'
    BY <2>1, <2>2, UsedStays DEF Rebuilt, Dumping, At, Dumped
  <2> QED BY <2>1, <2>3, DumpedTends DEF Dumping
<1>4. CASE Dumps(k)
  <2> DEFINE keys == { Resolved(an[2]) : an \in plugin[k].apps }
  <2>1. /\ Dumped(k, "load", "next")
        /\ op[k].word \in PublishWords => plugin'[k].todo = keys \cap {plugin[k].dep}
    BY <1>4, DumpsMoves DEF PublishWords
  <2>2. Rebuilt(k) => Rebuilt(k)'
    <3>1. SUFFICES ASSUME Rebuilt(k), pc[k] # "new", op[k].word \in PublishWords
                   PROVE  at[k] \in plugin'[k].todo \/ ~Used(at[k])
      BY <2>1, UsedStays DEF Rebuilt, At, Dumping, Dumped
    <3>2. plugin[k].dep = at[k] /\ plugin[k].apps = Listing
      BY <2>1, <3>1 DEF Rebuilt, At, Dumped
    <3>3. ASSUME Used(at[k]) PROVE at[k] \in keys
      <4>1. PICK a \in Existing(applications) : Resolved(applications[a].deployment) = at[k]
        BY <3>3 DEF Used
      <4>2. PICK an \in plugin[k].apps : an = <<a, applications[a].deployment>>
        BY <3>2, <4>1 DEF Listing
      <4>3. an[2] = applications[a].deployment
        BY <4>2
      <4> QED BY <4>1, <4>2, <4>3
    <3> QED BY <2>1, <3>1, <3>2, <3>3
  <2> QED BY <2>1, <2>2, DumpedTends DEF Dumping
<1> QED BY <1>1, <1>2, <1>3, <1>4

\* The plugin has seen to all it had to.
Ends(k) ==
  /\ At(k, "next") /\ plugin[k].todo = {}
  /\ Notified(k) /\ plugin' = [plugin EXCEPT ![k] = Idle] /\ UNCHANGED <<web, proxy, skipped>>

LEMMA ChoosesMoves ==
  ASSUME State, PubType, NEW k \in Tasks, Chooses(k), ~Raises(k), ~Ends(k)
  PROVE  \E d \in plugin[k].todo :
           /\ d \in Deployments
           /\ Dumped(k, "next", "find to stop") /\ plugin'[k].dep = d
           /\ plugin'[k].todo = plugin[k].todo \ {d} /\ plugin'[k].routes = plugin[k].routes
<1>1. PICK d \in plugin[k].todo :
        /\ At(k, "next") /\ Quiet /\ proxy' = proxy
        /\ Moves(k, "find to stop", [plugin[k] EXCEPT !.todo = @ \ {d}, !.dep = d])
  BY DEF Chooses, Ends
<1>2. d \in Deployments
  BY PluginFields
<1>3. PICK p : p = [plugin[k] EXCEPT !.todo = @ \ {d}, !.dep = d]
  OBVIOUS
<1>4. plugin' = [plugin EXCEPT ![k] = [p EXCEPT !.stage = "find to stop"]]
  BY <1>1, <1>3 DEF Moves
<1>5. /\ p \in PluginRecord /\ p.dep = d /\ p.todo = plugin[k].todo \ {d}
      /\ p.routes = plugin[k].routes
  BY <1>2, <1>3, PluginFields DEF PluginRecord
<1>6. /\ Advances(k) /\ plugin'[k].stage = "find to stop" /\ plugin'[k].dep = d
      /\ plugin'[k].todo = plugin[k].todo \ {d} /\ plugin'[k].routes = plugin[k].routes
  <2>1. "find to stop" \in Stages /\ pc[k] = "plugins" /\ TouchesOne(k)
    BY <1>1, OneContainer DEF Stages, At
  <2>2. p \in PluginRecord /\ p.dep \in Deployments /\ Quiet
    BY <1>1, <1>2, <1>5
  <2>3. /\ Advances(k) /\ plugin'[k].stage = "find to stop" /\ plugin'[k].dep = p.dep
        /\ plugin'[k].todo = p.todo /\ plugin'[k].routes = p.routes
    BY <1>4, <2>1, <2>2, MovesAdvances
  <2> QED BY <1>5, <2>3
<1> QED BY <1>1, <1>2, <1>6 DEF Dumped

LEMMA ChoosesTends ==
  ASSUME State, PubType, NEW k \in Tasks, Chooses(k)
  PROVE  Tends(k) \/ Raises(k) \/ Ends(k)
<1>. SUFFICES ASSUME ~Raises(k), ~Ends(k) PROVE Tends(k)
  OBVIOUS
<1>1. PICK d \in plugin[k].todo :
        /\ d \in Deployments
        /\ Dumped(k, "next", "find to stop") /\ plugin'[k].dep = d
        /\ plugin'[k].todo = plugin[k].todo \ {d}
  BY ChoosesMoves
<1>6. /\ Advances(k) /\ plugin'[k].stage = "find to stop" /\ At(k, "next") /\ proxy' = proxy
  BY <1>1 DEF Dumped
<1>7. \A e \in Deployments : Tended(e) => Tended(e)'
  BY <1>6, IdleTends DEF At
<1>8. Tended(d)'
  <2>1. pc'[k] = "plugins"
    BY <1>6 DEF Advances, vars
  <2>2. Works(k, d)'
    BY <1>1, <1>6, <2>1 DEF Works, Early
  <2> QED BY <2>2 DEF Tended
<1>9. Rebuilt(k) => Rebuilt(k)'
  <2>1. SUFFICES ASSUME Rebuilt(k), pc[k] # "new", op[k].word \in PublishWords, ~Tended(at[k])', Used(at[k])
                 PROVE  at[k] \in plugin'[k].todo
    BY <1>1, <1>6, UsedStays DEF Rebuilt, At, Dumping
  <2>2. at[k] \in Deployments
    BY <1>6, <2>1 DEF At, State, Shapes, Shape, ShapeOf
  <2>3. at[k] # d
    BY <1>8, <2>1, UsedStays, <1>6
  <2>4. ~Tended(at[k])
    BY <1>7, <2>1, <2>2, UsedStays, <1>6
  <2> QED BY <1>1, <1>6, <2>1, <2>3, <2>4 DEF Rebuilt, At, Dumping
<1> QED BY <1>6, <1>7, <1>9 DEF Tends

\* A step of the rebuilding of d that leaves d to somebody.
LEMMA WorkTends ==
  ASSUME State, PubType, NEW k \in Tasks, Advances(k), plugin[k].stage \in Rebuilding,
         plugin'[k].stage \notin Dumping, plugin'[k].todo = plugin[k].todo,
         NEW d \in Deployments, d = plugin[k].dep, Tended(d) => Tended(d)'
  PROVE  Tends(k)
<1>1. \A e \in Deployments : Tended(e) => Tended(e)'
  <2>1. ASSUME NEW e \in Deployments, e # d, Tended(e) PROVE Tended(e)'
    <3>1. proxy'[e] = proxy[e]
      BY <2>1 DEF Advances
    <3>2. ~Works(k, e)
      BY <2>1 DEF Works
    <3> QED BY <2>1, <3>1, <3>2, StillTended
  <2> QED BY <2>1
<1>2. Rebuilt(k) => Rebuilt(k)'
  <2>1. SUFFICES ASSUME Rebuilt(k), pc[k] # "new", op[k].word \in PublishWords, Used(at[k]),
                        at[k] \notin plugin[k].todo
                 PROVE  Tended(at[k])'
    <3>1. pc[k] = "plugins" /\ pc'[k] = "plugins"
      BY DEF Advances, vars
    <3> QED BY <3>1, UsedStays DEF Rebuilt, Dumping
  <2>2. pc[k] = "plugins"
    BY DEF Advances
  <2>3. at[k] \in Deployments
    BY <2>1, <2>2 DEF State, Shapes, Shape, ShapeOf
  <2>4. Tended(at[k])
    BY <2>1, <2>2 DEF Rebuilt, Dumping, Rebuilding
  <2>5. at'[k] = at[k]
    BY UsedStays
  <2> QED BY <1>1, <2>3, <2>4, <2>5
<1> QED BY <1>1, <1>2 DEF Tends

-----------------------------------------------------------------------------
(* Rebuilding a container *)

\* Before and after a step of the rebuilding of d: the task has moved to stage, with
\* the container found as id.
Moved(k, d, stage, id) ==
  /\ Advances(k) /\ plugin[k].stage \in Rebuilding /\ plugin'[k].stage = stage
  /\ d = plugin[k].dep /\ plugin'[k].dep = d /\ plugin'[k].todo = plugin[k].todo
  /\ plugin'[k].id = id /\ plugin'[k].routes = plugin[k].routes

LEMMA RebuildMoves ==
  ASSUME State, PubType, NEW k \in Tasks, pc[k] = "plugins", plugin[k].stage \in Rebuilding,
         NEW stage \in Stages, Moves(k, stage, plugin[k]), Quiet,
         TouchesOne(k)
  PROVE  Moved(k, plugin[k].dep, stage, plugin[k].id)
<1>1. PICK p \in PluginRecord : p = plugin[k]
  BY PluginFields
<1>2. stage \in Rebuilding => p.dep \in Deployments
  BY <1>1 DEF PubType
<1>3. plugin' = [plugin EXCEPT ![k] = [p EXCEPT !.stage = stage]]
  BY <1>1 DEF Moves
<1>4. /\ Advances(k) /\ plugin'[k].stage = stage /\ plugin'[k].dep = p.dep
      /\ plugin'[k].apps = p.apps /\ plugin'[k].todo = p.todo /\ plugin'[k].id = p.id
      /\ plugin'[k].routes = p.routes
  BY <1>2, <1>3, MovesAdvances
<1> QED BY <1>1, <1>4 DEF Moved

LEMMA StageMoves ==
  ASSUME State, PubType, NEW k \in Tasks, NEW from \in Rebuilding, At(k, from),
         NEW stage \in Rebuilding \cup {"next"}, Moves(k, stage, plugin[k]), Quiet,
         NEW d, d = plugin[k].dep,
         proxy' = proxy \/ \E c \in Container \cup {None} : proxy' = [proxy EXCEPT ![d] = c]
  PROVE  d \in Deployments /\ Moved(k, d, stage, plugin[k].id)
<1>1. pc[k] = "plugins" /\ plugin[k].stage \in Rebuilding /\ d \in Deployments
  BY DEF At, PubType
<1>2. stage \in Stages
  BY DEF Stages, Rebuilding
<1>0. proxy' = proxy \/ \E e \in Deployments, c \in Container \cup {None} :
                           e = plugin[k].dep /\ proxy' = [proxy EXCEPT ![e] = c]
  BY <1>1
<1>4. TouchesOne(k)
  BY <1>0, OneContainer
<1> QED BY <1>1, <1>2, <1>4, RebuildMoves

LEMMA FindMoves ==
  ASSUME State, PubType, NEW k \in Tasks, NEW from \in Rebuilding, NEW stage \in Rebuilding,
         Find(k, from, stage), NEW d, d = plugin[k].dep
  PROVE  /\ d \in Deployments /\ proxy' = proxy
         /\ Moved(k, d, stage, IF proxy[d] = None THEN None ELSE proxy[d].id)
<1> DEFINE id == IF proxy[d] = None THEN None ELSE proxy[d].id
<1>1. pc[k] = "plugins" /\ plugin[k].stage \in Rebuilding /\ d \in Deployments
  BY DEF Find, At, PubType
<1>2. stage \in Stages
  BY DEF Stages, Rebuilding
<1>3. id \in Tasks \cup {Old, None}
  BY <1>1 DEF PubType, Container
<1>4. PICK i \in Tasks \cup {Old, None} : i = id
  BY <1>3
<1>5. PICK p : p = [plugin[k] EXCEPT !.id = i]
  OBVIOUS
<1>6. p \in PluginRecord /\ p.dep = d /\ p.todo = plugin[k].todo /\ p.id = i
      /\ p.routes = plugin[k].routes
  BY <1>5, PluginFields DEF PluginRecord
<1>7. plugin' = [plugin EXCEPT ![k] = [p EXCEPT !.stage = stage]] /\ Quiet /\ proxy' = proxy
  BY <1>4, <1>5 DEF Find, Moves
<1>8. /\ Advances(k) /\ plugin'[k].stage = stage /\ plugin'[k].dep = p.dep
      /\ plugin'[k].apps = p.apps /\ plugin'[k].todo = p.todo /\ plugin'[k].id = p.id
      /\ plugin'[k].routes = p.routes
  <2>1. TouchesOne(k)
    BY <1>7, OneContainer
  <2> QED BY <1>1, <1>2, <1>6, <1>7, <2>1, MovesAdvances
<1> QED BY <1>1, <1>4, <1>6, <1>7, <1>8 DEF Moved

\* A step after which the task works on d.

\* What the calls to Docker make of the container of d.
LEMMA ContainerSet ==
  ASSUME PubType, NEW d \in Deployments, proxy[d] # None, NEW b \in BOOLEAN
  PROVE  [proxy[d] EXCEPT !.running = b] \in Container
BY DEF PubType, Container

LEMMA StopsMoves ==
  ASSUME State, PubType, NEW k \in Tasks, Stops(k), NEW d, d = plugin[k].dep
  PROVE  /\ At(k, "stop") /\ d \in Deployments /\ Moved(k, d, "find to delete", plugin[k].id)
         /\ proxy' = IF Hit(k) THEN [proxy EXCEPT ![d].running = FALSE] ELSE proxy
<1>s. "stop" \in Rebuilding /\ "find to delete" \in Rebuilding
  BY DEF Rebuilding
<1>1. At(k, "stop") /\ Moves(k, "find to delete", plugin[k]) /\ Quiet
  BY DEF Stops
<1>d. d \in Deployments
  BY <1>1, <1>s DEF At, PubType
<1>2. proxy' = proxy \/ \E c \in Container \cup {None} : proxy' = [proxy EXCEPT ![d] = c]
  <2>1. CASE Hit(k)
    <3>1. PICK c : c = [proxy[d] EXCEPT !.running = FALSE]
      OBVIOUS
    <3>2. c \in Container
      BY <1>d, <2>1, <3>1, ContainerSet DEF Hit
    <3>3. proxy' = [proxy EXCEPT ![d] = c]
      BY <2>1, <3>1 DEF Stops
    <3> QED BY <3>2, <3>3
  <2> QED BY <2>1 DEF Stops
<1>3. Moved(k, d, "find to delete", plugin[k].id)
  BY <1>1, <1>2, <1>s, StageMoves
<1> QED BY <1>1, <1>3, <1>d DEF Stops

LEMMA DeletesMoves ==
  ASSUME State, PubType, NEW k \in Tasks, Deletes(k), NEW d, d = plugin[k].dep
  PROVE  /\ At(k, "delete") /\ d \in Deployments /\ Moved(k, d, "find to start", plugin[k].id)
         /\ proxy' = IF Hit(k) /\ ~proxy[d].running THEN [proxy EXCEPT ![d] = None] ELSE proxy
<1>s. "delete" \in Rebuilding /\ "find to start" \in Rebuilding
  BY DEF Rebuilding
<1>1. At(k, "delete") /\ Moves(k, "find to start", plugin[k]) /\ Quiet
  BY DEF Deletes
<1>d. d \in Deployments
  BY <1>1, <1>s DEF At, PubType
<1>2. proxy' = proxy \/ \E c \in Container \cup {None} : proxy' = [proxy EXCEPT ![d] = c]
  BY DEF Deletes
<1>3. Moved(k, d, "find to start", plugin[k].id)
  BY <1>1, <1>2, <1>s, StageMoves
<1> QED BY <1>1, <1>3, <1>d DEF Deletes

LEMMA CreatesMoves ==
  ASSUME State, PubType, NEW k \in Tasks, Creates(k), NEW d, d = plugin[k].dep
  PROVE  /\ At(k, "found") /\ d \in Deployments /\ Moved(k, d, "find created", plugin[k].id)
         /\ proxy'[d] # None
         /\ proxy[d] = None => proxy'[d].routes = RoutesFor(k, d)
<1>s. "found" \in Rebuilding /\ "find created" \in Rebuilding
  BY DEF Rebuilding
<1>1. At(k, "found") /\ Moves(k, "find created", plugin[k]) /\ Quiet
  BY DEF Creates
<1>d. d \in Deployments
  BY <1>1, <1>s DEF At, PubType
<1>2. PICK c : c = [id |-> k, running |-> FALSE, routes |-> RoutesFor(k, d)]
  OBVIOUS
<1>3. RoutesFor(k, d) \in Routes
  <2>1. \A r \in plugin[k].routes : r[2] \in Domains /\ r[3] \in Apps
    BY PluginFields
  <2> QED BY <2>1 DEF RoutesFor, Routes
<1>4. c \in Container /\ c # None /\ c.routes = RoutesFor(k, d)
  <2>1. c \in Container /\ c.routes = RoutesFor(k, d)
    BY <1>2, <1>3 DEF Container
  <2> QED BY <2>1, PublishingAssumption
<1>5. proxy' = IF proxy[d] # None THEN proxy ELSE [proxy EXCEPT ![d] = c]
  BY <1>2 DEF Creates
<1>6. proxy'[d] # None /\ (proxy[d] = None => proxy'[d].routes = RoutesFor(k, d))
  BY <1>4, <1>5, <1>d DEF PubType
<1>7. proxy' = proxy \/ \E e \in Container \cup {None} : proxy' = [proxy EXCEPT ![d] = e]
  BY <1>4, <1>5
<1>8. Moved(k, d, "find created", plugin[k].id)
  BY <1>1, <1>s, <1>7, StageMoves
<1> QED BY <1>1, <1>6, <1>8, <1>d

LEMMA InspectsMoves ==
  ASSUME State, PubType, NEW k \in Tasks, Inspects(k), ~Raises(k), NEW d, d = plugin[k].dep
  PROVE  /\ (At(k, "found") /\ plugin[k].id # None) \/ At(k, "created")
         /\ d \in Deployments /\ Moved(k, d, "start", plugin[k].id) /\ proxy' = proxy
<1>s. "found" \in Rebuilding /\ "created" \in Rebuilding /\ "start" \in Rebuilding
  BY DEF Rebuilding
<1>1. /\ (At(k, "found") /\ plugin[k].id # None) \/ At(k, "created")
      /\ Moves(k, "start", plugin[k]) /\ Quiet /\ proxy' = proxy
  BY DEF Inspects
<1>2. d \in Deployments /\ Moved(k, d, "start", plugin[k].id)
  BY <1>1, <1>s, StageMoves
<1> QED BY <1>1, <1>2

LEMMA StartsMoves ==
  ASSUME State, PubType, NEW k \in Tasks, Starts(k), NEW d, d = plugin[k].dep
  PROVE  /\ At(k, "start") /\ d \in Deployments /\ Moved(k, d, "started", plugin[k].id)
         /\ Hit(k) => /\ proxy'[d] # None /\ proxy'[d].running
                      /\ proxy'[d].routes = proxy[d].routes /\ proxy'[d].id = proxy[d].id
         /\ ~Hit(k) => proxy' = proxy
<1>s. "start" \in Rebuilding /\ "started" \in Rebuilding
  BY DEF Rebuilding
<1>1. At(k, "start") /\ Moves(k, "started", plugin[k]) /\ Quiet
  BY DEF Starts
<1>d. d \in Deployments
  BY <1>1, <1>s DEF At, PubType
<1>2. CASE Hit(k)
  <2>1. PICK c : c = [proxy[d] EXCEPT !.running = TRUE]
    OBVIOUS
  <2>2. proxy[d] # None
    BY <1>2 DEF Hit
  <2>3. c \in Container /\ c.running /\ c.routes = proxy[d].routes /\ c.id = proxy[d].id
    BY <1>d, <2>1, <2>2, ContainerSet DEF PubType, Container
  <2>4. proxy' = [proxy EXCEPT ![d] = c]
    BY <1>2, <2>1 DEF Starts
  <2>5. proxy'[d] = c /\ c # None
    BY <1>d, <2>3, <2>4, PublishingAssumption DEF PubType
  <2>6. Moved(k, d, "started", plugin[k].id)
    BY <1>1, <1>s, <2>3, <2>4, StageMoves
  <2> QED BY <1>1, <1>2, <1>d, <2>3, <2>5, <2>6
<1>3. CASE ~Hit(k)
  <2>1. proxy' = proxy
    BY <1>3 DEF Starts
  <2>2. Moved(k, d, "started", plugin[k].id)
    BY <1>1, <1>s, <2>1, StageMoves
  <2> QED BY <1>1, <1>3, <1>d, <2>1, <2>2
<1> QED BY <1>2, <1>3

LEMMA LooksMoves ==
  ASSUME State, PubType, NEW k \in Tasks, Looks(k), NEW d, d = plugin[k].dep
  PROVE  /\ At(k, "started") /\ d \in Deployments /\ proxy' = proxy
         /\ Moved(k, d, IF proxy[d] # None /\ proxy[d].running THEN "exec" ELSE "next", plugin[k].id)
<1>s. "started" \in Rebuilding /\ "exec" \in Rebuilding
  BY DEF Rebuilding
<1>1. PICK stage \in Rebuilding \cup {"next"} :
        stage = IF proxy[d] # None /\ proxy[d].running THEN "exec" ELSE "next"
  BY <1>s
<1>2. At(k, "started") /\ Moves(k, stage, plugin[k]) /\ Quiet /\ proxy' = proxy
  BY <1>1 DEF Looks
<1>3. d \in Deployments /\ Moved(k, d, stage, plugin[k].id)
  BY <1>2, <1>s, StageMoves
<1> QED BY <1>1, <1>2, <1>3

LEMMA PutsMoves ==
  ASSUME State, PubType, NEW k \in Tasks, Puts(k), ~Raises(k), NEW d, d = plugin[k].dep
  PROVE  /\ At(k, "exec") /\ d \in Deployments /\ Moved(k, d, "next", plugin[k].id) /\ proxy' = proxy
<1>s. "exec" \in Rebuilding
  BY DEF Rebuilding
<1>1. At(k, "exec") /\ Moves(k, "next", plugin[k]) /\ Quiet /\ proxy' = proxy
  BY DEF Puts
<1> QED BY <1>1, <1>s, StageMoves

-----------------------------------------------------------------------------
(* The rebuilding leaves no container to nobody *)

\* A step after which the task works on d.
LEMMA WorksTends ==
  ASSUME State, PubType, NEW k \in Tasks, NEW d \in Deployments, NEW stage \in Rebuilding, NEW id,
         Moved(k, d, stage, id),
         \/ stage \in Early
         \/ stage = "found" /\ id = None
         \/ /\ proxy'[d] # None
            /\ stage = "find created" \/ (stage \in {"found", "created", "start"} /\ id = proxy'[d].id)
  PROVE  Tends(k)
<1>1. pc'[k] = "plugins"
  BY DEF Moved, Advances, vars
<1>2. Works(k, d)'
  BY <1>1 DEF Works, Moved
<1>3. Tended(d)'
  BY <1>2 DEF Tended
<1>4. stage \notin Dumping
  BY DEF Rebuilding, Dumping
<1> QED BY <1>3, <1>4, WorkTends DEF Moved

LEMMA FindTends ==
  ASSUME State, PubType, NEW k \in Tasks,
         \/ Find(k, "find to stop", "stop") \/ Find(k, "find to delete", "delete")
         \/ Find(k, "find to start", "found") \/ Find(k, "find created", "created")
  PROVE  Tends(k)
<1>0. PICK d : d = plugin[k].dep
  OBVIOUS
<1>s. {"find to stop", "stop", "find to delete", "delete", "find to start", "found", "find created",
       "created"} \subseteq Rebuilding
  BY DEF Rebuilding
<1>1. CASE Find(k, "find to stop", "stop")
  <2>1. d \in Deployments /\ \E id : Moved(k, d, "stop", id)
    BY <1>0, <1>1, <1>s, FindMoves
  <2> QED BY <1>s, <2>1, WorksTends DEF Early
<1>2. CASE Find(k, "find to delete", "delete")
  <2>1. d \in Deployments /\ \E id : Moved(k, d, "delete", id)
    BY <1>0, <1>2, <1>s, FindMoves
  <2> QED BY <1>s, <2>1, WorksTends DEF Early
<1>3. CASE Find(k, "find to start", "found")
  <2>1. PICK id : id = IF proxy[d] = None THEN None ELSE proxy[d].id
    OBVIOUS
  <2>2. d \in Deployments /\ proxy' = proxy /\ Moved(k, d, "found", id)
    BY <1>0, <1>3, <1>s, <2>1, FindMoves
  <2>3. id = None \/ (proxy'[d] # None /\ id = proxy'[d].id)
    BY <2>1, <2>2
  <2> QED BY <1>s, <2>2, <2>3, WorksTends
<1>4. CASE Find(k, "find created", "created")
  <2>1. PICK id : id = IF proxy[d] = None THEN None ELSE proxy[d].id
    OBVIOUS
  <2>2. d \in Deployments /\ proxy' = proxy /\ Moved(k, d, "created", id)
    BY <1>0, <1>4, <1>s, <2>1, FindMoves
  <2>3. CASE proxy[d] # None
    <3>1. proxy'[d] # None /\ id = proxy'[d].id
      BY <2>1, <2>2, <2>3
    <3> QED BY <1>s, <2>2, <3>1, WorksTends
  <2>4. CASE proxy[d] = None
    <3>1. ~Works(k, d)
      BY <1>4, <2>4 DEF Works, Early, Find, At
    <3>2. Tended(d) => Tended(d)'
      BY <2>2, <3>1, StillTended DEF Moved
    <3>3. "created" \notin Dumping
      BY DEF Dumping
    <3> QED BY <2>2, <3>2, <3>3, WorkTends DEF Moved
  <2> QED BY <2>3, <2>4
<1> QED BY <1>1, <1>2, <1>3, <1>4

LEMMA DockerTends ==
  ASSUME State, PubType, NEW k \in Tasks,
         Stops(k) \/ Deletes(k) \/ Creates(k) \/ Inspects(k) \/ Starts(k) \/ Looks(k) \/ Puts(k)
  PROVE  Tends(k) \/ Raises(k)
<1>. SUFFICES ASSUME ~Raises(k) PROVE Tends(k)
  OBVIOUS
<1>0. PICK d : d = plugin[k].dep
  OBVIOUS
<1>s. /\ "find to delete" \in Rebuilding /\ "find to start" \in Rebuilding /\ "find created" \in Rebuilding
      /\ {"start", "started", "exec", "next"} \cap Dumping = {}
      /\ "find to delete" \in Early /\ "find to start" \in Early
  BY DEF Rebuilding, Dumping, Early
<1>1. CASE Stops(k)
  BY <1>0, <1>1, <1>s, StopsMoves, WorksTends
<1>2. CASE Deletes(k)
  BY <1>0, <1>2, <1>s, DeletesMoves, WorksTends
<1>3. CASE Creates(k)
  BY <1>0, <1>3, <1>s, CreatesMoves, WorksTends
<1>4. CASE Inspects(k)
  <2>1. /\ (At(k, "found") /\ plugin[k].id # None) \/ At(k, "created")
        /\ d \in Deployments /\ Moved(k, d, "start", plugin[k].id) /\ proxy' = proxy
    BY <1>0, <1>4, InspectsMoves
  <2>2. Works(k, d) => Works(k, d)'
    <3>1. pc'[k] = "plugins"
      BY <2>1 DEF Moved, Advances, vars
    <3> QED BY <2>1, <3>1 DEF Works, Early, At, Moved
  <2>3. Tended(d) => Tended(d)'
    BY <2>1, <2>2, StillTended DEF Moved
  <2> QED BY <2>1, <2>3, <1>s, WorkTends DEF Moved
<1>5. CASE Starts(k)
  <2>1. At(k, "start") /\ d \in Deployments /\ Moved(k, d, "started", plugin[k].id)
    BY <1>0, <1>5, StartsMoves
  <2>2. Tended(d) => Tended(d)'
    <3>1. CASE Hit(k)
      BY <1>0, <1>5, <3>1, StartsMoves DEF Tended
    <3>2. CASE ~Hit(k)
      <4>1. proxy' = proxy
        BY <1>0, <1>5, <3>2, StartsMoves
      <4>2. ~Works(k, d)
        BY <1>0, <2>1, <3>2 DEF Works, Early, At, Hit
      <4> QED BY <2>1, <4>1, <4>2, StillTended DEF Moved
    <3> QED BY <3>1, <3>2
  <2> QED BY <2>1, <2>2, <1>s, WorkTends DEF Moved
<1>6. CASE Looks(k) \/ Puts(k)
  <2>1. PICK stage \in {"exec", "next"} :
          /\ At(k, "started") \/ At(k, "exec")
          /\ d \in Deployments /\ Moved(k, d, stage, plugin[k].id) /\ proxy' = proxy
    BY <1>0, <1>6, LooksMoves, PutsMoves
  <2>2. ~Works(k, d)
    BY <2>1 DEF Works, Early, At
  <2>3. Tended(d) => Tended(d)'
    BY <2>1, <2>2, StillTended DEF Moved
  <2> QED BY <2>1, <2>3, <1>s, WorkTends DEF Moved
<1> QED BY <1>1, <1>2, <1>3, <1>4, <1>5, <1>6

\* Something is not done for task k.
Skips(k) == NotLoaded(k) \/ Ignored(k)

\* A step of the plugin does its part, ends the plugin's work, raises, or leaves
\* something undone.
LEMMA PluginTends ==
  ASSUME State, PubType, NEW k \in Tasks, PluginStep(k)
  PROVE  Tends(k) \/ Raises(k) \/ Ends(k) \/ Skips(k)
BY DumpTends, ChoosesTends, FindTends, DockerTends DEF PluginStep, Rebuilds, Skips, SetupFails

LEMMA SkipsType ==
  ASSUME State, PubType, NEW k \in Tasks, Skips(k)
  PROVE  /\ State' /\ PubType' /\ Turned(k) /\ skipped' = skipped \cup {k}
         /\ TaskStep(k) \/ UNCHANGED vars
<1>1. CASE NotLoaded(k)
  <2>1. GoodTurn(k)
    BY <1>1, TaskStepGood DEF NotLoaded, TaskStep
  <2>2. /\ plugin' = plugin /\ web' = web /\ proxy' = proxy /\ plugin[k].stage = "idle"
        /\ skipped' = skipped \cup {k} /\ TaskStep(k)
    BY <1>1 DEF NotLoaded, At, TaskStep
  <2>3. \A j \in Tasks \ {k} : pc'[j] = pc[j]
    BY <2>1 DEF GoodTurn, Turned, OthersStay
  <2>4. PubType'
    BY <2>2, <2>3 DEF PubType, Rebuilding
  <2> QED BY <2>1, <2>2, <2>4 DEF GoodTurn
<1>2. CASE Ignored(k)
  <2>0. UNCHANGED <<vars, web, proxy>> /\ skipped' = skipped \cup {k}
    BY <1>2 DEF Ignored
  <2>1. UNCHANGED <<op, pc, at, app, rec, all, listed, todo, result, before>>
    BY <2>0 DEF vars, held
  <2>2. State'
    BY <2>0, NextState
  <2>3. PICK r \in PluginRecord :
          /\ plugin' = [plugin EXCEPT ![k] = r] /\ pc[k] = "plugins"
          /\ r.stage \in Rebuilding => r.dep \in Deployments
    <3>1. ASSUME NEW from \in Rebuilding, NEW stage \in Rebuilding \cup {"next"}, At(k, from),
                 NEW p, p = [plugin[k] EXCEPT !.id = None] \/ p = plugin[k], Moves(k, stage, p)
          PROVE  \E r \in PluginRecord : /\ plugin' = [plugin EXCEPT ![k] = r] /\ pc[k] = "plugins"
                                         /\ r.stage \in Rebuilding => r.dep \in Deployments
      <4>1. p \in PluginRecord /\ p.dep = plugin[k].dep
        BY <3>1, PluginFields DEF PluginRecord
      <4>2. plugin[k].dep \in Deployments /\ pc[k] = "plugins"
        BY <3>1 DEF PubType, At
      <4>3. stage \in Stages
        BY DEF Stages, Rebuilding
      <4>4. PICK r : r = [p EXCEPT !.stage = stage]
        OBVIOUS
      <4>5. r \in PluginRecord /\ r.dep = p.dep /\ plugin' = [plugin EXCEPT ![k] = r]
        BY <3>1, <4>1, <4>3, <4>4, RecordMoved DEF Moves
      <4> QED BY <4>1, <4>2, <4>5
    <3>2. ASSUME NEW unseen, DumpsBut(k, unseen)
          PROVE  \E r \in PluginRecord : /\ plugin' = [plugin EXCEPT ![k] = r] /\ pc[k] = "plugins"
                                         /\ r.stage \in Rebuilding => r.dep \in Deployments
      <4>1. PICK p \in PluginRecord :
              At(k, "load") /\ plugin' = [plugin EXCEPT ![k] = [p EXCEPT !.stage = "next"]]
        BY <3>2, DumpsButMoves
      <4>2. PICK r : r = [p EXCEPT !.stage = "next"]
        OBVIOUS
      <4>3. r \in PluginRecord /\ r.stage = "next"
        BY <4>2, DumpStages, RecordMoved
      <4> QED BY <4>1, <4>2, <4>3 DEF At, Rebuilding
    <3>s. {"find to stop", "stop", "find to delete", "delete", "find to start", "found", "find created",
           "created", "start", "started"} \subseteq Rebuilding
      BY DEF Rebuilding
    <3>3. CASE \E step \in {<<"find to stop", "stop">>, <<"find to delete", "delete">>,
                            <<"find to start", "found">>, <<"find created", "created">>} :
                  At(k, step[1]) /\ Moves(k, step[2], [plugin[k] EXCEPT !.id = None])
      <4>0. PICK p : p = [plugin[k] EXCEPT !.id = None]
        OBVIOUS
      <4>1. PICK step \in {<<"find to stop", "stop">>, <<"find to delete", "delete">>,
                          <<"find to start", "found">>, <<"find created", "created">>} :
              At(k, step[1]) /\ Moves(k, step[2], p)
        BY <3>3, <4>0
      <4>3. step[1] \in Rebuilding /\ step[2] \in Rebuilding
        <5>1. CASE step = <<"find to stop", "stop">>
          BY <3>s, <5>1
        <5>2. CASE step = <<"find to delete", "delete">>
          BY <3>s, <5>2
        <5>3. CASE step = <<"find to start", "found">>
          BY <3>s, <5>3
        <5>4. CASE step = <<"find created", "created">>
          BY <3>s, <5>4
        <5> QED BY <5>1, <5>2, <5>3, <5>4
      <4>2. PICK from \in Rebuilding, stage \in Rebuilding : At(k, from) /\ Moves(k, stage, p)
        BY <4>1, <4>3
      <4> QED BY <3>1, <4>0, <4>2
    <3>4. CASE \E step \in {<<"stop", "find to delete">>, <<"delete", "find to start">>,
                            <<"start", "started">>, <<"started", "next">>} :
                  At(k, step[1]) /\ Moves(k, step[2], plugin[k])
      <4>0. PICK p : p = plugin[k]
        OBVIOUS
      <4>1. PICK step \in {<<"stop", "find to delete">>, <<"delete", "find to start">>,
                          <<"start", "started">>, <<"started", "next">>} :
              At(k, step[1]) /\ Moves(k, step[2], p)
        BY <3>4, <4>0
      <4>3. step[1] \in Rebuilding /\ step[2] \in Rebuilding \cup {"next"}
        <5>1. CASE step = <<"stop", "find to delete">>
          BY <3>s, <5>1
        <5>2. CASE step = <<"delete", "find to start">>
          BY <3>s, <5>2
        <5>3. CASE step = <<"start", "started">>
          BY <3>s, <5>3
        <5>4. CASE step = <<"started", "next">>
          BY <3>s, <5>4
        <5> QED BY <5>1, <5>2, <5>3, <5>4
      <4>2. PICK from \in Rebuilding, stage \in Rebuilding \cup {"next"} : At(k, from) /\ Moves(k, stage, p)
        BY <4>1, <4>3
      <4> QED BY <3>1, <4>0, <4>2
    <3> QED BY <1>2, <3>2, <3>3, <3>4 DEF Ignored
  <2>4. PubType'
    <3>1. /\ plugin' \in [Tasks -> PluginRecord]
          /\ \A j \in Tasks : /\ plugin'[j].stage # "idle" => pc'[j] = "plugins"
                              /\ plugin'[j].stage \in Rebuilding => plugin'[j].dep \in Deployments
      BY <2>1, <2>3, MovesType
    <3> QED BY <2>0, <3>1 DEF PubType
  <2>5. Turned(k)
    <3>2. pc[k] = "plugins"
      BY <2>3
    <3>3. pc' = pc
      BY <2>1
    <3>1. pc[k] = "plugins" /\ pc'[k] = "plugins"
      BY <3>2, <3>3
    <3> QED BY <2>1, <3>1 DEF Turned, OthersStay
  <2> QED BY <2>0, <2>2, <2>4, <2>5
<1> QED BY <1>1, <1>2 DEF Skips

-----------------------------------------------------------------------------
(* The steps of Registry *)

\* A task has an outcome when it has ended.
Outcomes == \A k \in Tasks : pc[k] # "done" => result[k] = "none"

LEMMA TaskOutcome ==
  ASSUME NEW k \in Tasks, TaskStep(k)
  PROVE  result' = result \/ \E outcome : Finish(k, outcome)
<1>1. CASE AppStep(k)
  BY <1>1 DEF AppStep, RefusesApp, TakesApp, Validated, Destroyed, Resume, PutApp, DelApp, Return, Ask, Await
<1>2. CASE DepStep(k)
  BY <1>2 DEF DepStep, MachineEnds, Syncs, Leave, RefusesDep, TakesDep, AllDeps, TakesDefault, CountsDeps,
     PutDep, NextMachine, DelDep, SetDefault, Return, Ask, Await
<1>3. CASE Launched(k) \/ Notified(k) \/ Listed(k) \/ Fails(k)
  BY <1>3 DEF Launched, Notified, Syncs, Listed, Fails, Goes, Leave
<1> QED BY <1>1, <1>2, <1>3 DEF TaskStep

LEMMA TaskOutcomes ==
  ASSUME State, Outcomes, NEW k \in Tasks, TaskStep(k), skipped \subseteq skipped'
  PROVE  Outcomes' /\ (Calm' => Calm)
<1>1. Turned(k)
  BY TaskStepGood DEF GoodTurn
<1>2. pc'[k] # "done" => result'[k] = result[k]
  <2>1. CASE result' = result
    BY <2>1
  <2>2. ASSUME NEW outcome, Finish(k, outcome) PROVE pc'[k] = "done"
    BY <2>2 DEF Finish, State, LocalType
  <2> QED BY <2>1, <2>2, TaskOutcome
<1>3. Outcomes'
  BY <1>1, <1>2 DEF Outcomes, Turned, OthersStay
<1>4. ASSUME Calm' PROVE Calm
  <2>1. OnlyRebuilds
    BY <1>1, <1>4 DEF Calm, OnlyRebuilds, Begun, Turned, OthersStay
  <2>2. \A j \in Tasks : result[j] \in {"none", "ok"}
    BY <1>1, <1>4 DEF Calm, Outcomes, Turned, OthersStay
  <2>3. skipped = {}
    BY <1>4 DEF Calm
  <2> QED BY <2>1, <2>2, <2>3 DEF Calm
<1> QED BY <1>3, <1>4

LEMMA BeginOutcomes ==
  ASSUME State, Outcomes, NEW k \in Tasks, NEW o \in Requests, Begin(k, o), skipped' = skipped
  PROVE  Outcomes' /\ (Calm' => Calm)
<1>1. OthersStay(k) /\ pc[k] = "new" /\ pc'[k] \notin {"new", "done"} /\ result' = result
  BY BeginGood DEF Begin
<1>2. Outcomes'
  BY <1>1 DEF Outcomes, OthersStay
<1>3. ASSUME Calm' PROVE Calm
  BY <1>1, <1>3 DEF Calm, OnlyRebuilds, Begun, OthersStay
<1> QED BY <1>2, <1>3

\* Who is interrupted has failed.
LEMMA InterruptOutcomes ==
  ASSUME State, Outcomes, RedisLost \/ Crash, skipped' = skipped
  PROVE  Outcomes' /\ (Calm' => Calm /\ UNCHANGED <<stores, pc, op, at, all, result>>)
<1>1. \E S : Abandon(S, "failed") \/ Abandon(S, "lost")
  BY DEF RedisLost, Crash
<1>p. PICK S : Abandon(S, "failed") \/ Abandon(S, "lost")
  BY <1>1
<1>2. Outcomes'
  BY <1>p DEF Abandon, Outcomes
<1>3. ASSUME Calm' PROVE Calm /\ UNCHANGED <<stores, pc, op, at, all, result>>
  <2>1. \A k \in Tasks : k \notin S
    BY <1>p, <1>3 DEF Abandon, Calm
  <2>2. pc' = pc /\ result' = result /\ all' = all
    BY <1>p, <2>1 DEF Abandon, State, LocalType
  <2>3. UNCHANGED <<stores, op, at>>
    BY <1>p DEF Abandon
  <2>4. Calm
    BY <1>3, <2>2, <2>3 DEF Calm, OnlyRebuilds, Begun
  <2> QED BY <2>2, <2>3, <2>4
<1> QED BY <1>2, <1>3

-----------------------------------------------------------------------------
(* While all that is asked for is domains *)

\* Where applications run stays: the only deployment that may appear is the one that
\* get_default answers with when there is none.
NamesKept ==
  /\ UNCHANGED <<applications, default>>
  /\ \/ Existing(deployments)' = Existing(deployments)
     \/ Existing(deployments) = {} /\ Existing(deployments)' = {Local}

LEMMA SameDefault ==
  ASSUME NEW s, NEW t, NEW named,
         Existing(s) = Existing(t) \/ (Existing(s) = {} /\ Existing(t) = {Local})
  PROVE  DefaultOf(s, named) = DefaultOf(t, named)
<1>1. CASE Existing(s) = Existing(t)
  BY <1>1 DEF DefaultOf
<1>2. CASE Existing(s) = {} /\ Existing(t) = {Local}
  <2>1. (CHOOSE d \in Existing(t) : TRUE) = Local
    BY <1>2
  <2> QED BY <1>2, <2>1 DEF DefaultOf
<1> QED BY <1>1, <1>2

LEMMA SameUsed ==
  ASSUME NamesKept
  PROVE  \A d : Used(d)' <=> Used(d)
<1>1. DefaultOf(deployments, default)' = DefaultOf(deployments, default)
  BY SameDefault DEF NamesKept, DefaultOf, Existing
<1> QED BY <1>1 DEF NamesKept, Used, Resolved, Existing

\* Whoever stays where he is goes on as before.
LEMMA OthersKept ==
  ASSUME PubType, NamesKept, proxy' = proxy, NEW S \in SUBSET Tasks,
         \A j \in Tasks \ S : pc[j] # "plugins",
         \A j \in S : /\ pc'[j] = pc[j] /\ op'[j] = op[j] /\ at'[j] = at[j] /\ all'[j] = all[j]
                      /\ result'[j] = result[j]
                      /\ pc[j] = "plugins" => plugin'[j] = plugin[j]
  PROVE  /\ \A d \in Deployments : Tended(d) => Tended(d)'
         /\ \A j \in S : Defaults(j) => Defaults(j)'
         /\ \A j \in S : State /\ Rebuilt(j) => Rebuilt(j)'
<1>1. \A d \in Deployments : Tended(d) => Tended(d)'
  BY DEF Tended, Works
<1>2. ASSUME NEW j \in S, Defaults(j) PROVE Defaults(j)'
  <2>1. /\ pc'[j] = pc[j] /\ at'[j] = at[j] /\ all'[j] = all[j]
    OBVIOUS
  <2>2. CASE pc[j] = "get default"
    <3>1. Existing(all[j])' = Existing(all[j])
      BY <2>1 DEF Existing
    <3> QED BY <1>2, <2>1, <2>2, <3>1 DEF Defaults, NamesKept
  <2>3. CASE pc[j] = "put dep"
    BY <1>2, <2>1, <2>3 DEF Defaults, NamesKept
  <2> QED BY <2>1, <2>2, <2>3 DEF Defaults
<1>3. ASSUME NEW j \in S, State, Rebuilt(j) PROVE Rebuilt(j)'
  <2>0. /\ pc'[j] = pc[j] /\ op'[j] = op[j] /\ at'[j] = at[j] /\ result'[j] = result[j]
        /\ pc[j] = "plugins" => plugin'[j] = plugin[j]
    OBVIOUS
  <2>1. SUFFICES ASSUME pc[j] # "new", op[j].word \in PublishWords PROVE Rebuilt(j)'
    BY <2>0 DEF Rebuilt
  <2>2. pc[j] = "plugins" => at[j] \in Deployments
    BY <1>3, <2>1 DEF State, Shapes, Shape, ShapeOf
  <2>3. Listing' = Listing
    BY DEF NamesKept, Existing, Listing
  <2> QED BY <1>1, <1>3, <2>0, <2>1, <2>2, <2>3, SameUsed DEF Rebuilt
<1> QED BY <1>1, <1>2, <1>3

\* A step of task k, which has been asked for domains or only reads.
Quietly(k) ==
  /\ NamesKept /\ Defaults(k)'
  /\ pc[k] \notin {"plugins", "list"}
  /\ op[k].word \in PublishWords => pc'[k] # "list" /\ (pc'[k] = "done" => result'[k] # "ok")

LEMMA StoresNamesKept == UNCHANGED stores => NamesKept
  BY DEF stores, NamesKept, Existing

LEMMA QuietApp ==
  ASSUME State, NEW k \in Tasks, op[k].word \in PublishWords \cup ReadWords, AppStep(k)
  PROVE  Quietly(k)
<1>0. Shape(k) /\ LocalType
  BY DEF State, Shapes
<1>1. CASE RefusesApp(k)
  <2>1. UNCHANGED stores /\ pc[k] = "get app" /\ pc'[k] = "done" /\ result'[k] = "failed"
    BY <1>0, <1>1 DEF RefusesApp, Turn, Return, Finish, LocalType
  <2> QED BY <2>1, StoresNamesKept DEF Quietly, Defaults
<1>2. CASE TakesApp(k)
  <2>1. UNCHANGED stores /\ pc[k] = "get app"
    BY <1>2 DEF TakesApp, Turn
  <2>2. pc'[k] \in {"launch", "all deps", "get dep"}
    BY <1>0, <1>2 DEF TakesApp, Ask, Await, PublishWords, ReadWords, LocalType
  <2> QED BY <2>1, <2>2, StoresNamesKept DEF Quietly, Defaults
<1>3. CASE Validated(k) \/ Destroyed(k) \/ PutApp(k) \/ DelApp(k)
  <2>1. pc[k] \in {"validate", "destroy", "put app", "del app"}
    BY <1>3 DEF Validated, Destroyed, PutApp, DelApp, Resume, Turn
  <2>2. op[k].word \in WordsAt(pc[k])
    BY <1>0, <2>1 DEF Shape, ShapeOf
  <2> QED BY <2>1, <2>2 DEF WordsAt, PublishWords, ReadWords
<1> QED BY <1>1, <1>2, <1>3 DEF AppStep

LEMMA QuietDep ==
  ASSUME State, NEW k \in Tasks, op[k].word \in PublishWords \cup ReadWords, Defaults(k), DepStep(k)
  PROVE  Quietly(k)
<1>0. Shape(k) /\ LocalType
  BY DEF State, Shapes
<1>s. deployments \in DepStore
  BY DEF State, StoreType
<1>1. CASE RefusesDep(k)
  <2>1. /\ UNCHANGED stores /\ pc[k] \in {"get dep", "get dep again"} /\ pc'[k] = "done"
        /\ result'[k] = "failed"
    BY <1>0, <1>1 DEF RefusesDep, ToChange, Turn, Return, Finish, LocalType
  <2> QED BY <2>1, StoresNamesKept DEF Quietly, Defaults
<1>2. CASE TakesDep(k)
  <2>1. pc[k] \in {"get dep", "get dep again"}
    BY <1>2 DEF TakesDep, ToChange, Turn
  <2>2. op[k].word \in WordsAt(pc[k]) /\ at[k] \in Deployments
    BY <1>0, <2>1 DEF Shape, ShapeOf
  <2>3. op[k].word \notin MachineWords
    BY DEF PublishWords, ReadWords, MachineWords
  <2>4. /\ UNCHANGED stores /\ at' = at /\ deployments[at[k]] # None
        /\ pc' = [pc EXCEPT ![k] = "put dep"]
    BY <1>2, <2>3 DEF TakesDep, ToChange, Ask
  <2>5. pc'[k] = "put dep" /\ at'[k] \in Existing(deployments)'
    BY <1>0, <1>s, <2>2, <2>4 DEF LocalType, Existing, DepStore, stores
  <2> QED BY <2>1, <2>4, <2>5, StoresNamesKept DEF Quietly, Defaults
<1>3. CASE AllDeps(k)
  <2>1. /\ UNCHANGED stores /\ pc[k] = "all deps" /\ pc'[k] = "get default" /\ all'[k] = deployments
    BY <1>0, <1>3 DEF AllDeps, Turn, Ask, LocalType
  <2>2. Existing(all[k])' = Existing(deployments)'
    BY <2>1 DEF Existing, stores
  <2> QED BY <2>1, <2>2, StoresNamesKept DEF Quietly, Defaults
<1>4. CASE TakesDefault(k)
  <2>1. PICK d : d = DefaultOf(all[k], default)
    OBVIOUS
  <2>2. /\ UNCHANGED stores /\ pc[k] = "get default" /\ pc'[k] = "put dep"
        /\ at' = [at EXCEPT ![k] = d]
    BY <1>0, <1>4, <2>1 DEF TakesDefault, Turn, Ask, LocalType
  <2>3. at'[k] = d
    BY <1>0, <2>2 DEF LocalType
  <2>4. Existing(all[k]) = Existing(deployments) \/ (Existing(all[k]) = {} /\ Existing(deployments) = {Local})
    BY <2>2 DEF Defaults
  <2>5. d = DefaultOf(deployments, default)
    BY <2>1, <2>4, SameDefault
  <2>6. d \in Existing(deployments) \/ (Existing(deployments) = {} /\ d = Local)
    BY <2>5 DEF DefaultOf
  <2>7. Existing(deployments)' = Existing(deployments)
    BY <2>2 DEF stores, Existing
  <2>8. Defaults(k)'
    BY <2>2, <2>3, <2>6, <2>7 DEF Defaults
  <2> QED BY <2>2, <2>8, StoresNamesKept DEF Quietly
<1>5. CASE PutDep(k)
  <2>1. pc[k] = "put dep"
    BY <1>5 DEF PutDep, Turn
  <2>2. rec[k] # None /\ at[k] \in Deployments /\ op[k].word \in PublishWords
    <3>1. rec[k] \in DepRecord /\ at[k] \in Deployments /\ op[k].word \in WordsAt("put dep")
      BY <1>0, <2>1 DEF Shape, ShapeOf
    <3>2. op[k].word \in PublishWords
      BY <3>1 DEF WordsAt, PublishWords, ReadWords, MachineWords
    <3> QED BY <3>1, <3>2, RegistryAssumption
  <2>3. /\ deployments' = [deployments EXCEPT ![at[k]] = rec[k]] /\ UNCHANGED <<applications, default>>
        /\ pc'[k] = "plugins"
    BY <1>0, <1>5, <2>2 DEF PutDep, Await, LocalType, PublishWords, MachineWords
  <2>4. Existing(deployments)' = Existing(deployments) \cup {at[k]}
    BY <1>s, <2>2, <2>3 DEF Existing, DepStore
  <2>5. at[k] \in Existing(deployments) \/ (Existing(deployments) = {} /\ at[k] = Local)
    BY <2>1 DEF Defaults
  <2>6. NamesKept
    BY <2>3, <2>4, <2>5 DEF NamesKept
  <2> QED BY <2>1, <2>3, <2>6 DEF Quietly, Defaults
<1>6. CASE MachineEnds(k) \/ CountsDeps(k) \/ DelDep(k) \/ SetDefault(k)
  <2>1. \/ pc[k] \in {"machine", "del dep", "set default"}
        \/ op[k].word = "deployment_create"
    BY <1>6 DEF MachineEnds, Syncs, Leave, CountsDeps, DelDep, SetDefault, Turn
  <2>2. pc[k] \in {"machine", "del dep", "set default"} => op[k].word \in WordsAt(pc[k])
    BY <1>0 DEF Shape, ShapeOf
  <2> QED BY <2>1, <2>2 DEF WordsAt, PublishWords, ReadWords
<1> QED BY <1>1, <1>2, <1>3, <1>4, <1>5, <1>6 DEF DepStep

-----------------------------------------------------------------------------
(* What is preserved *)

CalmInv == Calm => \A k \in Tasks : Defaults(k) /\ Rebuilt(k)

PubInv == State /\ PubType /\ Outcomes /\ CalmInv

\* The flags.
FlagsType == loaded \in BOOLEAN /\ skipped \subseteq Tasks

\* The state of the plugin after a step of Registry.
LEMMA ElsewhereType ==
  ASSUME PubType, Elsewhere, web' \in [Apps -> BOOLEAN], proxy' = proxy
  PROVE  /\ PubType'
         /\ \A k \in Tasks : pc'[k] = "plugins" => plugin'[k] = plugin[k]
<1>1. \A k \in Tasks : plugin'[k] = IF pc'[k] = "plugins" THEN plugin[k] ELSE Idle
  BY DEF Elsewhere
<1>2. plugin' \in [Tasks -> PluginRecord]
  BY IdleRecord DEF Elsewhere, PubType
<1>3. ASSUME NEW k \in Tasks
      PROVE  /\ plugin'[k].stage # "idle" => pc'[k] = "plugins"
             /\ plugin'[k].stage \in Rebuilding => plugin'[k].dep \in Deployments
  BY <1>1, IdleRecord DEF PubType, Rebuilding
<1> QED BY <1>1, <1>2, <1>3 DEF PubType

LEMMA KeptByPlugin ==
  ASSUME PubInv, NEW k \in Tasks, PluginStep(k)
  PROVE  PubInv'
<1>0. State /\ PubType /\ Outcomes /\ CalmInv
  BY DEF PubInv
<1>1. CASE Tends(k)
  <2>1. /\ UNCHANGED <<vars, skipped>> /\ State' /\ PubType'
        /\ \A j \in Tasks \ {k} : plugin'[j] = plugin[j]
        /\ \A d \in Deployments : Tended(d) => Tended(d)'
        /\ Rebuilt(k) => Rebuilt(k)'
        /\ \A d : Used(d)' <=> Used(d)
    BY <1>1, UsedStays DEF Tends, Advances
  <2>2. UNCHANGED <<applications, deployments, default, pc, op, at, all, result>>
    BY <2>1 DEF vars, stores, held
  <2>3. Outcomes' /\ (Calm' => Calm)
    BY <1>0, <2>1, <2>2 DEF Outcomes, Calm, OnlyRebuilds, Begun
  <2>4. ASSUME NEW j \in Tasks, Defaults(j), Rebuilt(j) PROVE Defaults(j)' /\ Rebuilt(j)'
    <3>1. Defaults(j)'
      BY <2>2, <2>4 DEF Defaults, Existing
    <3>2. CASE j # k
      <4>1. pc[j] = "plugins" /\ pc[j] # "new" /\ op[j].word \in PublishWords => at[j] \in Deployments
        BY <1>0 DEF State, Shapes, Shape, ShapeOf
      <4>2. Listing' = Listing
        BY <2>2 DEF Existing, Listing
      <4>3. plugin'[j] = plugin[j]
        BY <2>1, <3>2
      <4> QED BY <2>1, <2>2, <2>4, <3>1, <4>1, <4>2, <4>3 DEF Rebuilt
    <3> QED BY <2>1, <2>4, <3>1, <3>2
  <2>5. CalmInv'
    BY <1>0, <2>3, <2>4 DEF CalmInv
  <2> QED BY <2>1, <2>3, <2>5 DEF PubInv
<1>2. CASE Raises(k)
  <2>1. /\ State' /\ PubType' /\ Turned(k)
        /\ op[k].word = "setup" \/ result'[k] = "failed"
    BY <1>0, <1>2, RaisesType
  <2>2. Outcomes'
    <3>1. pc'[k] = "done" \/ result' = result
      BY <1>0, <1>2 DEF Raises, Syncs, Leave, Finish, State, LocalType
    <3> QED BY <1>0, <2>1, <3>1 DEF Outcomes, Turned, OthersStay
  <2>3. ~Calm'
    BY <2>1 DEF Calm, OnlyRebuilds, Begun, Turned, PublishWords, ReadWords
  <2> QED BY <2>1, <2>2, <2>3 DEF PubInv, CalmInv
<1>3. CASE Ends(k)
  <2>1. /\ pc[k] = "plugins" /\ plugin[k].stage = "next" /\ plugin[k].todo = {} /\ TaskStep(k)
        /\ UNCHANGED stores /\ proxy' = proxy /\ web' = web /\ plugin' = [plugin EXCEPT ![k] = Idle]
    BY <1>3 DEF Ends, At, TaskStep, Notified, Goes, Leave, Syncs
  <2>2. State' /\ Turned(k) /\ Outcomes' /\ (Calm' => Calm)
    <3>1. skipped \subseteq skipped'
      BY <1>3 DEF Ends
    <3> QED BY <1>0, <2>1, <3>1, TaskStepGood, TaskOutcomes DEF GoodTurn
  <2>3. /\ plugin' \in [Tasks -> PluginRecord] /\ plugin'[k].stage = "idle"
        /\ \A j \in Tasks \ {k} : plugin'[j] = plugin[j]
    BY <1>0, <2>1, IdleRecord DEF PubType
  <2>4. PubType'
    BY <1>0, <2>1, <2>2, <2>3 DEF PubType, Turned, OthersStay, Rebuilding
  <2>5. NamesKept
    BY <2>1, StoresNamesKept
  <2>6. ASSUME NEW d \in Deployments, Tended(d) PROVE Tended(d)'
    <3>1. ~Works(k, d)
      BY <2>1 DEF Works, Early
    <3>2. ASSUME NEW j \in Tasks \ {k}, Works(j, d) PROVE Works(j, d)'
      BY <2>1, <2>2, <2>3, <3>2 DEF Works, Turned, OthersStay
    <3> QED BY <2>1, <2>6, <3>1, <3>2 DEF Tended
  <2>7. ASSUME op[k].word # "setup", NEW j \in Tasks, Defaults(j), Rebuilt(j)
        PROVE  Defaults(j)' /\ Rebuilt(j)'
    <3>0. Existing(deployments)' = Existing(deployments) /\ \A d : Used(d)' <=> Used(d)
      BY <2>1, <2>5, SameUsed DEF stores, Existing
    <3>1. CASE j # k
      <4>1. /\ pc'[j] = pc[j] /\ op'[j] = op[j] /\ at'[j] = at[j] /\ all'[j] = all[j]
            /\ result'[j] = result[j] /\ plugin'[j] = plugin[j]
        BY <2>2, <2>3, <3>1 DEF Turned, OthersStay
      <4>2. Defaults(j)'
        BY <2>7, <3>0, <4>1 DEF Defaults, Existing
      <4>3. pc[j] = "plugins" /\ pc[j] # "new" /\ op[j].word \in PublishWords => at[j] \in Deployments
        BY <1>0 DEF State, Shapes, Shape, ShapeOf
      <4>4. Listing' = Listing
        BY <2>1 DEF stores, Existing, Listing
      <4> QED BY <2>6, <2>7, <3>0, <4>1, <4>2, <4>3, <4>4 DEF Rebuilt
    <3>2. CASE j = k
      <4>1. pc'[k] \in {"list", "done"} /\ op' = op /\ at'[k] = at[k]
        BY <1>0, <1>3, <2>2, <2>7 DEF Ends, Notified, Goes, Leave, Finish, held, State, LocalType
      <4>2. pc[k] # "new" /\ op[k].word \in PublishWords => at[k] \in Deployments
        BY <1>0, <2>1 DEF State, Shapes, Shape, ShapeOf
      <4>3. pc[k] # "new" /\ op[k].word \in PublishWords => Tended(at[k]) \/ ~Used(at[k])
        BY <2>1, <2>7, <3>2 DEF Rebuilt, Dumping
      <4>4. pc[k] # "new" /\ op[k].word \in PublishWords => Tended(at[k])' \/ ~Used(at[k])'
        BY <2>6, <3>0, <4>1, <4>2, <4>3
      <4> QED BY <2>1, <3>2, <4>1, <4>2, <4>4 DEF Defaults, Rebuilt
    <3> QED BY <3>1, <3>2
  <2>8. Calm' => op[k].word # "setup"
    BY <2>2 DEF Calm, OnlyRebuilds, Begun, Turned, PublishWords, ReadWords
  <2>9. CalmInv'
    BY <1>0, <2>2, <2>7, <2>8 DEF CalmInv
  <2> QED BY <2>2, <2>4, <2>9 DEF PubInv
<1>4. CASE Skips(k)
  <2>1. State' /\ PubType' /\ skipped' = skipped \cup {k} /\ (TaskStep(k) \/ UNCHANGED vars)
    BY <1>0, <1>4, SkipsType
  <2>2. Outcomes'
    <3>1. CASE TaskStep(k)
      BY <1>0, <2>1, <3>1, TaskOutcomes
    <3>2. CASE UNCHANGED vars
      BY <1>0, <3>2 DEF Outcomes, vars
    <3> QED BY <2>1, <3>1, <3>2
  <2>3. ~Calm'
    BY <2>1 DEF Calm
  <2> QED BY <2>1, <2>2, <2>3 DEF PubInv, CalmInv
<1> QED BY <1>0, <1>1, <1>2, <1>3, <1>4, PluginTends

LEMMA KeptByTask ==
  ASSUME PubInv, NEW k \in Tasks, AppStep(k) \/ DepStep(k) \/ Listed(k) \/ Fails(k) \/ Launched(k),
         web' \in [Apps -> BOOLEAN], UNCHANGED <<proxy, skipped>>, Elsewhere
  PROVE  PubInv'
<1>0. State /\ PubType /\ Outcomes /\ CalmInv /\ TaskStep(k)
  BY DEF PubInv, TaskStep
<1>1. State' /\ Turned(k) /\ Outcomes' /\ (Calm' => Calm)
  BY <1>0, TaskStepGood, TaskOutcomes DEF GoodTurn
<1>2. PubType' /\ \A j \in Tasks : pc'[j] = "plugins" => plugin'[j] = plugin[j]
  BY <1>0, ElsewhereType
<1>3. ASSUME Calm' PROVE \A j \in Tasks : Defaults(j)' /\ Rebuilt(j)'
  <2>1. Calm /\ \A j \in Tasks : Defaults(j) /\ Rebuilt(j)
    BY <1>0, <1>1, <1>3 DEF CalmInv
  <2>2. Shape(k) /\ pc[k] # "new"
    BY <1>0, <1>1 DEF State, Shapes, Turned
  <2>3. op[k] \in Requests /\ op[k].word \in PublishWords \cup ReadWords
    BY <2>1, <2>2 DEF Calm, OnlyRebuilds, Begun, Shape, ShapeOf
  <2>4. \/ Quietly(k)
        \/ UNCHANGED stores /\ pc[k] = "launch" /\ pc'[k] = "plugins" /\ op[k].word = "start"
        \/ UNCHANGED stores /\ pc[k] = "list" /\ pc'[k] = "done" /\ result'[k] = "ok" /\ at' = at
    <3>1. CASE AppStep(k) \/ DepStep(k)
      BY <1>0, <2>1, <2>3, <3>1, QuietApp, QuietDep
    <3>2. CASE Launched(k)
      <4>1. UNCHANGED stores /\ pc[k] = "launch" /\ pc'[k] = "plugins"
        BY <1>0, <3>2 DEF Launched, Goes, State, LocalType
      <4>2. op[k].word = "start"
        BY <2>2, <4>1 DEF Shape, ShapeOf, WordsAt
      <4> QED BY <4>1, <4>2
    <3>3. CASE Listed(k)
      BY <1>0, <3>3 DEF Listed, Leave, Finish, State, LocalType
    <3>4. CASE Fails(k)
      <4>1. result'[k] = "failed"
        BY <1>0, <3>4 DEF Fails, Leave, Finish, State, LocalType
      <4> QED BY <1>3, <4>1 DEF Calm
    <3> QED BY <3>1, <3>2, <3>3, <3>4
  <2>5. NamesKept /\ pc[k] # "plugins" /\ Defaults(k)'
    BY <2>4, StoresNamesKept DEF Quietly, Defaults
  <2>6. PICK S \in SUBSET Tasks : S = Tasks \ {k}
    OBVIOUS
  <2>7. \A j \in S : /\ pc'[j] = pc[j] /\ op'[j] = op[j] /\ at'[j] = at[j] /\ all'[j] = all[j]
                     /\ result'[j] = result[j]
                     /\ pc[j] = "plugins" => plugin'[j] = plugin[j]
    BY <1>1, <1>2, <2>6 DEF Turned, OthersStay
  <2>8. \A j \in Tasks \ S : pc[j] # "plugins"
    BY <2>5, <2>6
  <2>9. /\ \A d \in Deployments : Tended(d) => Tended(d)'
        /\ \A j \in S : Defaults(j) => Defaults(j)'
        /\ \A j \in S : State /\ Rebuilt(j) => Rebuilt(j)'
    BY <1>0, <2>5, <2>7, <2>8, OthersKept
  <2>10. Rebuilt(k)'
    <3>1. op'[k] = op[k]
      BY <1>1 DEF Turned
    <3>2. plugin[k].stage = "idle"
      BY <1>0, <2>5 DEF PubType
    <3>3. CASE Quietly(k)
      BY <1>2, <3>1, <3>2, <3>3 DEF Quietly, Rebuilt, Dumping
    <3>4. CASE op[k].word = "start"
      BY <3>1, <3>4 DEF Rebuilt, PublishWords
    <3>5. CASE UNCHANGED stores /\ pc[k] = "list" /\ pc'[k] = "done" /\ result'[k] = "ok" /\ at' = at
      <4>1. at'[k] = at[k] /\ \A d : Used(d)' <=> Used(d)
        BY <2>5, <3>5, SameUsed
      <4>2. pc[k] # "new" /\ op[k].word \in PublishWords =>
               at[k] \in Deployments /\ (Tended(at[k]) \/ ~Used(at[k]))
        BY <2>1, <3>5 DEF Rebuilt
      <4> QED BY <2>9, <3>1, <3>5, <4>1, <4>2 DEF Rebuilt
    <3> QED BY <2>4, <3>3, <3>4, <3>5
  <2> QED BY <1>0, <2>1, <2>5, <2>6, <2>9, <2>10
<1> QED BY <1>1, <1>2, <1>3 DEF PubInv, CalmInv

LEMMA KeptByBegin ==
  ASSUME PubInv, NEW k \in Tasks, NEW o \in Requests, Begin(k, o),
         UNCHANGED <<web, proxy, skipped>>, Elsewhere
  PROVE  PubInv'
<1>0. State /\ PubType /\ Outcomes /\ CalmInv
  BY DEF PubInv
<1>1. /\ State' /\ OthersStay(k) /\ pc[k] = "new" /\ pc'[k] \notin {"new", "done"} /\ op'[k] = o
      /\ Outcomes' /\ (Calm' => Calm)
  BY <1>0, BeginGood, BeginOutcomes
<1>2. PubType' /\ \A j \in Tasks : pc'[j] = "plugins" => plugin'[j] = plugin[j]
  BY <1>0, ElsewhereType DEF PubType
<1>3. ASSUME Calm' PROVE \A j \in Tasks : Defaults(j)' /\ Rebuilt(j)'
  <2>1. Calm /\ \A j \in Tasks : Defaults(j) /\ Rebuilt(j)
    BY <1>0, <1>1, <1>3 DEF CalmInv
  <2>2. o.word \in PublishWords \cup ReadWords
    BY <1>1, <1>3 DEF Calm, OnlyRebuilds, Begun
  <2>3. pc'[k] \in {"get app", "plugins"} /\ NamesKept
    <3>1. pc'[k] = FirstLabel(o.word) /\ UNCHANGED stores
      BY <1>0 DEF Begin, State, LocalType
    <3> QED BY <2>2, <3>1, StoresNamesKept DEF FirstLabel, PublishWords, ReadWords
  <2>6. PICK S \in SUBSET Tasks : S = Tasks \ {k}
    OBVIOUS
  <2>7. \A j \in S : /\ pc'[j] = pc[j] /\ op'[j] = op[j] /\ at'[j] = at[j] /\ all'[j] = all[j]
                     /\ result'[j] = result[j]
                     /\ pc[j] = "plugins" => plugin'[j] = plugin[j]
    BY <1>1, <1>2, <2>6 DEF OthersStay
  <2>8. \A j \in Tasks \ S : pc[j] # "plugins"
    BY <1>1, <2>6
  <2>9. /\ \A j \in S : Defaults(j) => Defaults(j)'
        /\ \A j \in S : State /\ Rebuilt(j) => Rebuilt(j)'
    BY <1>0, <2>3, <2>7, <2>8, OthersKept
  <2>10. Defaults(k)' /\ Rebuilt(k)'
    <3>1. plugin[k].stage = "idle"
      BY <1>0, <1>1 DEF PubType
    <3> QED BY <1>2, <2>3, <3>1 DEF Defaults, Rebuilt, Dumping
  <2> QED BY <1>0, <2>1, <2>6, <2>9, <2>10
<1> QED BY <1>1, <1>2, <1>3 DEF PubInv, CalmInv

LEMMA KeptByInterrupt ==
  ASSUME PubInv, Interrupted
  PROVE  PubInv'
<1>0. /\ State /\ PubType /\ Outcomes /\ CalmInv
      /\ RedisLost \/ Crash
      /\ UNCHANGED <<web, proxy, skipped>> /\ Elsewhere
  BY DEF PubInv, Interrupted
<1>1. State' /\ Outcomes' /\ (Calm' => Calm /\ UNCHANGED <<stores, pc, op, at, all, result>>)
  BY <1>0, InterruptGood, InterruptOutcomes
<1>2. PubType' /\ \A j \in Tasks : pc'[j] = "plugins" => plugin'[j] = plugin[j]
  BY <1>0, ElsewhereType DEF PubType
<1>3. ASSUME Calm' PROVE \A j \in Tasks : Defaults(j)' /\ Rebuilt(j)'
  <2>1. /\ \A j \in Tasks : Defaults(j) /\ Rebuilt(j)
        /\ UNCHANGED <<stores, pc, op, at, all, result>>
    BY <1>0, <1>1, <1>3 DEF CalmInv
  <2>2. NamesKept
    BY <2>1, StoresNamesKept
  <2>3. PICK S \in SUBSET Tasks : S = Tasks
    OBVIOUS
  <2>4. \A j \in S : /\ pc'[j] = pc[j] /\ op'[j] = op[j] /\ at'[j] = at[j] /\ all'[j] = all[j]
                     /\ result'[j] = result[j]
                     /\ pc[j] = "plugins" => plugin'[j] = plugin[j]
    BY <1>2, <2>1
  <2>5. /\ \A j \in S : Defaults(j) => Defaults(j)'
        /\ \A j \in S : State /\ Rebuilt(j) => Rebuilt(j)'
    BY <1>0, <2>2, <2>3, <2>4, OthersKept
  <2> QED BY <1>0, <2>1, <2>3, <2>5
<1> QED BY <1>1, <1>2, <1>3 DEF PubInv, CalmInv

\* What neither a task nor the plugin does.
LEMMA KeptOutside ==
  ASSUME PubInv, UNCHANGED <<vars, proxy, plugin, skipped>>, web' \in [Apps -> BOOLEAN]
  PROVE  PubInv'
<1>0. State /\ PubType /\ Outcomes /\ CalmInv
  BY DEF PubInv
<1>1. UNCHANGED <<applications, deployments, default, pc, op, at, all, result>>
  BY DEF vars, stores, held
<1>2. State'
  BY <1>0, NextState
<1>3. PubType'
  BY <1>0, <1>1 DEF PubType
<1>4. Outcomes' /\ (Calm' => Calm)
  BY <1>0, <1>1 DEF Outcomes, Calm, OnlyRebuilds, Begun
<1>5. NamesKept
  BY <1>1 DEF NamesKept, Existing
<1>6. PICK S \in SUBSET Tasks : S = Tasks
  OBVIOUS
<1>7. /\ \A j \in S : Defaults(j) => Defaults(j)'
      /\ \A j \in S : State /\ Rebuilt(j) => Rebuilt(j)'
  BY <1>0, <1>1, <1>5, <1>6, OthersKept
<1>8. CalmInv'
  BY <1>0, <1>4, <1>6, <1>7 DEF CalmInv
<1> QED BY <1>2, <1>3, <1>4, <1>8 DEF PubInv

-----------------------------------------------------------------------------
(* Where a task that nobody overlaps or follows stands *)

\* Where the application of the task runs, and that a task that publishes works there.
Spot(k) == Resolved(applications[op[k].app].deployment)
Home(k) == applications[op[k].app] # None /\ (op[k].word \in PublishWords => Spot(k) = at[k])

\* Routes that serve all that is published to d, and nothing that is not published.
Serves(d, routes) == Published(d) \subseteq routes /\ routes \subseteq Exported
Serving(d) == proxy[d] # None /\ proxy[d].running /\ Serves(d, proxy[d].routes)

\* What the task knows of the container of d on its way: at first there may be one, by
\* the name and whatever its id; then there is none; then there is the one it created.
Phase(k, d) ==
  LET p == plugin[k]
      c == proxy[d]
  IN  /\ p.stage = "stop" => c = None \/ p.id = c.id
      /\ p.stage = "find to delete" => c = None \/ ~c.running
      /\ p.stage = "delete" => c = None \/ (~c.running /\ p.id = c.id)
      /\ p.stage \in {"find to start", "found"} => c = None
      /\ p.stage = "found" => p.id = None
      /\ p.stage \in {"find created", "created", "start"} => c # None /\ c.routes = RoutesFor(k, d)
      /\ p.stage \in {"created", "start"} => p.id = c.id
      /\ p.stage \in {"started", "exec"} => /\ c # None /\ c.running /\ p.id = c.id
                                            /\ c.routes = RoutesFor(k, d)

InPlugin(k, d) ==
  LET p == plugin[k]
  IN  /\ p.stage \in {"dump", "apps", "load"} => p.dep = d
      /\ p.stage \in {"apps", "load"} => p.public = Exported
      /\ p.stage = "load" => p.apps = Listing
      /\ p.stage = "next" => \/ p.todo = {d} /\ Serves(d, RoutesFor(k, d))
                             \/ p.todo = {} /\ Serving(d)
      /\ p.stage \in Rebuilding => p.dep = d /\ p.todo = {} /\ Serves(d, RoutesFor(k, d)) /\ Phase(k, d)

Stands(k) ==
  /\ Defaults(k)
  /\ pc[k] \in {"all deps", "get default"} => /\ applications[op[k].app] # None
                                              /\ applications[op[k].app].deployment = None
  /\ pc[k] \in {"get dep", "put dep", "plugins"} /\ op[k].word \in PublishWords => Home(k)
  /\ pc[k] = "plugins" => /\ plugin[k].stage # "idle" => Home(k)
                          /\ \A d \in Deployments : d = Spot(k) => InPlugin(k, d)
  /\ pc[k] \in {"list", "done"} => /\ Home(k)
                                   /\ \A d \in Deployments : d = Spot(k) => Serving(d)

\* A publish, an unpublish or a start; one that has not failed, with nobody beside it.
Reconfigures(k) == Begun(k) /\ op[k].word \in PublishWords \cup {"start"}
Lone(k) == Reconfigures(k) /\ Alone(k) /\ result[k] \in {"none", "ok"} /\ k \notin skipped

LoneInv == \A k \in Tasks : Lone(k) => Stands(k)

\* Who had ended when a task began has ended.
Over == \A k \in Tasks : \A j \in before[k] : pc[j] = "done"

LEMMA AdvancesSame ==
  ASSUME NEW k \in Tasks, Advances(k)
  PROVE  /\ Spot(k)' = Spot(k) /\ (Home(k)' <=> Home(k))
         /\ Exported' = Exported /\ Listing' = Listing
         /\ \A d, routes : Serves(d, routes)' <=> Serves(d, routes)
         /\ UNCHANGED <<pc, op>> /\ pc[k] = "plugins" /\ (Defaults(k)' <=> Defaults(k))
<1>1. /\ UNCHANGED <<applications, deployments, default, op, pc, at, all, web>> /\ pc[k] = "plugins"
  BY DEF Advances, vars, stores, held
<1>2. Exported' = Exported /\ Listing' = Listing
  BY <1>1 DEF Exported, Listing, Existing
<1>3. Spot(k)' = Spot(k) /\ (Home(k)' <=> Home(k))
  BY <1>1 DEF Spot, Home, Resolved, DefaultOf, Existing
<1>4. \A d : Published(d)' = Published(d)
  BY <1>1 DEF Published, Resolved, DefaultOf, Existing
<1>5. \A d, routes : Serves(d, routes)' <=> Serves(d, routes)
  BY <1>2, <1>4 DEF Serves
<1>6. Defaults(k)' <=> Defaults(k)
  BY <1>1 DEF Defaults
<1> QED BY <1>1, <1>2, <1>3, <1>5, <1>6

LEMMA SameRoutes ==
  ASSUME NEW k \in Tasks, plugin'[k].routes = plugin[k].routes
  PROVE  \A d : RoutesFor(k, d)' = RoutesFor(k, d)
BY DEF RoutesFor

\* The routes that a dump of what there is gives d are as they should be.
LEMMA DumpServes ==
  ASSUME State, PubType, NEW k \in Tasks, NEW d \in Deployments, NEW own, DumpedRoutes(k, own),
         plugin[k].public = Exported, plugin[k].apps = Listing
  PROVE  Serves(d, { <<r[2], r[3]>> : r \in { q \in own : q[1] = d } })
<1> DEFINE there == { q \in own : q[1] = d }
<1> DEFINE routes == { <<r[2], r[3]>> : r \in there }
<1>1. \A r \in own : \E an \in Listing, xa \in Exported : r = <<Resolved(an[2]), xa[1], xa[2]>>
  BY DEF DumpedRoutes
<1>2. \A an \in Listing, xa \in Exported :
        an[1] = xa[2] /\ web[xa[2]] => <<Resolved(an[2]), xa[1], xa[2]>> \in own
  BY DEF DumpedRoutes
<1>3. \A xa \in Exported : xa \in Domains \X Apps /\ xa = <<xa[1], xa[2]>>
  BY DEF Exported
<1>4. ASSUME NEW rt \in routes PROVE rt \in Exported
  <2>1. PICK r \in own : rt = <<r[2], r[3]>>
    OBVIOUS
  <2>2. PICK an \in Listing, xa \in Exported : r = <<Resolved(an[2]), xa[1], xa[2]>>
    BY <1>1
  <2>3. rt = <<xa[1], xa[2]>>
    BY <2>1, <2>2
  <2> QED BY <1>3, <2>3
<1>5. ASSUME NEW xa \in Published(d) PROVE xa \in routes
  <2>1. /\ xa \in Exported /\ applications[xa[2]] # None /\ web[xa[2]]
        /\ Resolved(applications[xa[2]].deployment) = d
    BY DEF Published, Exported
  <2>2. xa[2] \in Existing(applications)
    BY <1>3, <2>1 DEF State, StoreType, AppStore, Existing
  <2>3. PICK an \in Listing : an = <<xa[2], applications[xa[2]].deployment>>
    BY <2>2 DEF Listing
  <2>4. an[1] = xa[2] /\ Resolved(an[2]) = d
    BY <2>1, <2>3
  <2>5. <<d, xa[1], xa[2]>> \in own
    BY <1>2, <2>1, <2>4
  <2>6. <<d, xa[1], xa[2]>> \in there
    BY <2>5
  <2>7. <<xa[1], xa[2]>> \in routes
    BY <2>6
  <2> QED BY <1>3, <2>1, <2>7
<1> QED BY <1>4, <1>5 DEF Serves

-----------------------------------------------------------------------------
(* The plugin of such a task *)

\* What a step of the plugin leaves.
SeesTo(k, d) == Advances(k) /\ Home(k) /\ InPlugin(k, d)'

LEMMA CalledServes ==
  ASSUME State, PubType, NEW k \in Tasks, Called(k), ~Raises(k), NEW d \in Deployments, d = Spot(k),
         op[k].word \in PublishWords \cup {"start"}, op[k].word \in PublishWords => Home(k)
  PROVE  SeesTo(k, d)
<1>1. /\ Dumped(k, "idle", "dump")
      /\ plugin'[k].dep = IF op[k].word = "start" THEN Resolved(applications[op[k].app].deployment)
                          ELSE at[k]
      /\ op[k].word = "start" => applications[op[k].app] # None
  BY CalledMoves
<1>2. Home(k) /\ plugin'[k].dep = d
  BY <1>1 DEF Home, Spot, PublishWords
<1>3. plugin'[k].stage = "dump" /\ Advances(k)
  BY <1>1 DEF Dumped
<1>4. InPlugin(k, d)'
  BY <1>2, <1>3 DEF InPlugin, Rebuilding
<1> QED BY <1>2, <1>3, <1>4 DEF SeesTo

LEMMA ListsServes ==
  ASSUME State, PubType, NEW k \in Tasks, Collects(k) \/ Lists(k), NEW d \in Deployments,
         Home(k), InPlugin(k, d)
  PROVE  SeesTo(k, d)
<1>1. CASE Collects(k)
  <2>1. /\ plugin[k].stage = "dump" /\ plugin'[k].stage = "apps" /\ Advances(k)
        /\ plugin'[k].dep = plugin[k].dep /\ plugin'[k].public = Exported
    BY <1>1, CollectsMoves DEF Dumped, At
  <2>2. Exported' = Exported
    BY <2>1, AdvancesSame
  <2>3. InPlugin(k, d)'
    BY <2>1, <2>2 DEF InPlugin, Rebuilding
  <2> QED BY <2>1, <2>3 DEF SeesTo
<1>2. CASE Lists(k)
  <2>1. /\ plugin[k].stage = "apps" /\ plugin'[k].stage = "load" /\ Advances(k)
        /\ plugin'[k].dep = plugin[k].dep /\ plugin'[k].public = plugin[k].public
        /\ plugin'[k].apps = Listing
    BY <1>2, ListsMoves DEF Dumped, At
  <2>2. Exported' = Exported /\ Listing' = Listing
    BY <2>1, AdvancesSame
  <2>3. InPlugin(k, d)'
    BY <2>1, <2>2 DEF InPlugin, Rebuilding
  <2> QED BY <2>1, <2>3 DEF SeesTo
<1> QED BY <1>1, <1>2

LEMMA DumpsServes ==
  ASSUME State, PubType, NEW k \in Tasks, Dumps(k), ~Raises(k), NEW d \in Deployments, d = Spot(k),
         op[k].word \in PublishWords \cup {"start"}, Home(k), InPlugin(k, d)
  PROVE  SeesTo(k, d)
<1> DEFINE keys == { Resolved(an[2]) : an \in plugin[k].apps }
<1>1. /\ Dumped(k, "load", "next") /\ DumpedRoutes(k, plugin'[k].routes)
      /\ plugin'[k].todo = keys \cap {plugin[k].dep}
  BY DumpsMoves DEF PublishWords
<1>2. plugin[k].dep = d /\ plugin[k].public = Exported /\ plugin[k].apps = Listing
  BY <1>1 DEF InPlugin, Dumped, At
<1>3. d \in keys
  <2>1. Shape(k) /\ pc[k] = "plugins"
    BY <1>1 DEF State, Shapes, Dumped, At
  <2>2. op[k].app \in Apps
    BY <2>1, RequestFields DEF Shape, ShapeOf
  <2>3. op[k].app \in Existing(applications)
    BY <2>2 DEF Home, Existing, State, StoreType, AppStore
  <2>4. PICK an \in plugin[k].apps : an = <<op[k].app, applications[op[k].app].deployment>>
    BY <1>2, <2>3 DEF Listing
  <2>5. Resolved(an[2]) = d
    BY <2>4 DEF Spot
  <2> QED BY <2>5
<1>4. plugin'[k].todo = {d}
  BY <1>1, <1>2, <1>3
<1>5. Serves(d, RoutesFor(k, d)')
  <2>1. PICK own : own = plugin'[k].routes
    OBVIOUS
  <2>2. DumpedRoutes(k, own)
    BY <1>1, <2>1
  <2>3. Serves(d, { <<r[2], r[3]>> : r \in { q \in own : q[1] = d } })
    BY <1>2, <2>2, DumpServes
  <2> QED BY <2>1, <2>3 DEF RoutesFor
<1>6. Advances(k) /\ plugin'[k].stage = "next"
  BY <1>1 DEF Dumped
<1>7. Serves(d, RoutesFor(k, d))'
  <2>1. PICK rs : rs = RoutesFor(k, d)'
    OBVIOUS
  <2>2. Serves(d, rs)'
    BY <1>5, <1>6, <2>1, AdvancesSame
  <2> QED BY <2>1, <2>2 DEF Serves
<1>8. InPlugin(k, d)'
  BY <1>4, <1>6, <1>7 DEF InPlugin, Rebuilding
<1> QED BY <1>6, <1>8 DEF SeesTo

LEMMA RoutesServe ==
  ASSUME NEW k \in Tasks, Advances(k), plugin'[k].routes = plugin[k].routes, NEW d,
         Serves(d, RoutesFor(k, d))
  PROVE  RoutesFor(k, d)' = RoutesFor(k, d) /\ Serves(d, RoutesFor(k, d))'
<1>1. RoutesFor(k, d)' = RoutesFor(k, d)
  BY SameRoutes
<1>2. PICK rs : rs = RoutesFor(k, d)
  OBVIOUS
<1>3. Serves(d, rs)'
  BY <1>2, AdvancesSame
<1> QED BY <1>1, <1>2, <1>3 DEF Serves

LEMMA ChoosesServes ==
  ASSUME State, PubType, NEW k \in Tasks, Chooses(k), ~Raises(k), ~Ends(k), NEW d \in Deployments,
         Home(k), InPlugin(k, d)
  PROVE  SeesTo(k, d)
<1>1. PICK e \in plugin[k].todo :
        /\ Dumped(k, "next", "find to stop") /\ plugin'[k].dep = e
        /\ plugin'[k].todo = plugin[k].todo \ {e} /\ plugin'[k].routes = plugin[k].routes
  BY ChoosesMoves
<1>2. plugin[k].todo = {d} /\ Serves(d, RoutesFor(k, d))
  BY <1>1 DEF InPlugin, Dumped, At
<1>3. Advances(k) /\ plugin'[k].stage = "find to stop" /\ plugin'[k].dep = d /\ plugin'[k].todo = {}
  BY <1>1, <1>2 DEF Dumped
<1>4. Serves(d, RoutesFor(k, d))'
  BY <1>1, <1>2, <1>3, RoutesServe
<1>5. InPlugin(k, d)'
  BY <1>3, <1>4 DEF InPlugin, Rebuilding, Phase
<1> QED BY <1>3, <1>5 DEF SeesTo

\* A step of the rebuilding on to another of it.
LEMMA MovedServes ==
  ASSUME NEW k \in Tasks, NEW d, NEW stage \in Rebuilding, NEW id, Moved(k, d, stage, id),
         Home(k), InPlugin(k, d), Phase(k, d)'
  PROVE  SeesTo(k, d)
<1>1. /\ Advances(k) /\ plugin[k].stage \in Rebuilding /\ plugin'[k].stage = stage
      /\ plugin'[k].dep = d /\ plugin'[k].todo = plugin[k].todo /\ plugin'[k].routes = plugin[k].routes
  BY DEF Moved
<1>2. plugin[k].todo = {} /\ Serves(d, RoutesFor(k, d))
  BY <1>1 DEF InPlugin
<1>3. Serves(d, RoutesFor(k, d))'
  BY <1>1, <1>2, RoutesServe
<1>4. InPlugin(k, d)'
  BY <1>1, <1>2, <1>3 DEF InPlugin, Rebuilding
<1> QED BY <1>1, <1>4 DEF SeesTo

\* The deployment whose container is rebuilt.
LEMMA OnSpot ==
  ASSUME NEW k \in Tasks, NEW d, InPlugin(k, d), plugin[k].stage \in Rebuilding
  PROVE  plugin[k].dep = d /\ Phase(k, d) /\ Serves(d, RoutesFor(k, d))
BY DEF InPlugin

LEMMA FindServes ==
  ASSUME State, PubType, NEW k \in Tasks,
         \/ Find(k, "find to stop", "stop") \/ Find(k, "find to delete", "delete")
         \/ Find(k, "find to start", "found") \/ Find(k, "find created", "created"),
         NEW d \in Deployments, Home(k), InPlugin(k, d)
  PROVE  SeesTo(k, d)
<1>s. {"find to stop", "stop", "find to delete", "delete", "find to start", "found", "find created",
       "created"} \subseteq Rebuilding
  BY DEF Rebuilding
<1>0. plugin[k].dep = d /\ Phase(k, d)
  <2>1. plugin[k].stage \in Rebuilding
    BY <1>s DEF Find, At
  <2> QED BY <2>1, OnSpot
<1>1. PICK id : id = IF proxy[d] = None THEN None ELSE proxy[d].id
  OBVIOUS
<1>2. CASE Find(k, "find to stop", "stop")
  <2>1. proxy' = proxy /\ Moved(k, d, "stop", id)
    BY <1>0, <1>1, <1>2, <1>s, FindMoves
  <2>2. Phase(k, d)'
    BY <1>1, <2>1 DEF Phase, Moved
  <2> QED BY <1>s, <2>1, <2>2, MovedServes
<1>3. CASE Find(k, "find to delete", "delete")
  <2>1. proxy' = proxy /\ Moved(k, d, "delete", id) /\ plugin[k].stage = "find to delete"
    BY <1>0, <1>1, <1>3, <1>s, FindMoves DEF Find, At
  <2>2. Phase(k, d)'
    BY <1>0, <1>1, <2>1 DEF Phase, Moved
  <2> QED BY <1>s, <2>1, <2>2, MovedServes
<1>4. CASE Find(k, "find to start", "found")
  <2>1. proxy' = proxy /\ Moved(k, d, "found", id) /\ plugin[k].stage = "find to start"
    BY <1>0, <1>1, <1>4, <1>s, FindMoves DEF Find, At
  <2>2. Phase(k, d)'
    BY <1>0, <1>1, <2>1 DEF Phase, Moved
  <2> QED BY <1>s, <2>1, <2>2, MovedServes
<1>5. CASE Find(k, "find created", "created")
  <2>1. proxy' = proxy /\ Moved(k, d, "created", id) /\ plugin[k].stage = "find created"
    BY <1>0, <1>1, <1>5, <1>s, FindMoves DEF Find, At
  <2>2. RoutesFor(k, d)' = RoutesFor(k, d)
    BY <2>1, SameRoutes DEF Moved
  <2>3. Phase(k, d)'
    BY <1>0, <1>1, <2>1, <2>2 DEF Phase, Moved
  <2> QED BY <1>s, <2>1, <2>3, MovedServes
<1> QED BY <1>2, <1>3, <1>4, <1>5

LEMMA DockerServes ==
  ASSUME State, PubType, NEW k \in Tasks, Stops(k) \/ Deletes(k) \/ Creates(k) \/ Inspects(k),
         ~Raises(k), NEW d \in Deployments, Home(k), InPlugin(k, d)
  PROVE  SeesTo(k, d)
<1>s. {"stop", "find to delete", "delete", "find to start", "found", "find created", "created",
       "start"} \subseteq Rebuilding
  BY DEF Rebuilding
<1>0. plugin[k].dep = d /\ Phase(k, d)
  <2>1. plugin[k].stage \in Rebuilding
    BY <1>s DEF Stops, Deletes, Creates, Inspects, At
  <2> QED BY <2>1, OnSpot
<1>2. CASE Stops(k)
  <2>1. /\ plugin[k].stage = "stop" /\ Moved(k, d, "find to delete", plugin[k].id)
        /\ proxy' = IF Hit(k) THEN [proxy EXCEPT ![d].running = FALSE] ELSE proxy
    BY <1>0, <1>2, StopsMoves DEF At
  <2>2. proxy'[d] = None \/ ~proxy'[d].running
    <3>1. CASE Hit(k)
      <4>1. proxy' = [proxy EXCEPT ![d] = [proxy[d] EXCEPT !.running = FALSE]]
        BY <2>1, <3>1
      <4>2. proxy[d] \in Container
        BY <1>0, <3>1 DEF Hit, PubType
      <4>3. ~[proxy[d] EXCEPT !.running = FALSE].running
        BY <4>2 DEF Container
      <4> QED BY <4>1, <4>3 DEF PubType
    <3>2. CASE ~Hit(k)
      BY <1>0, <2>1, <3>2 DEF Hit, Phase
    <3> QED BY <3>1, <3>2
  <2>3. Phase(k, d)'
    BY <2>1, <2>2 DEF Phase, Moved
  <2> QED BY <1>s, <2>1, <2>3, MovedServes
<1>3. CASE Deletes(k)
  <2>1. /\ plugin[k].stage = "delete" /\ Moved(k, d, "find to start", plugin[k].id)
        /\ proxy' = IF Hit(k) /\ ~proxy[d].running THEN [proxy EXCEPT ![d] = None] ELSE proxy
    BY <1>0, <1>3, DeletesMoves DEF At
  <2>2. proxy'[d] = None
    BY <1>0, <2>1 DEF Hit, Phase, PubType
  <2>3. Phase(k, d)'
    BY <2>1, <2>2 DEF Phase, Moved
  <2> QED BY <1>s, <2>1, <2>3, MovedServes
<1>4. CASE Creates(k)
  <2>1. /\ plugin[k].stage = "found" /\ Moved(k, d, "find created", plugin[k].id)
        /\ proxy'[d] # None
        /\ proxy[d] = None => proxy'[d].routes = RoutesFor(k, d)
    BY <1>0, <1>4, CreatesMoves DEF At
  <2>2. RoutesFor(k, d)' = RoutesFor(k, d)
    BY <2>1, SameRoutes DEF Moved
  <2>3. proxy[d] = None
    BY <1>0, <2>1 DEF Phase
  <2>4. Phase(k, d)'
    BY <2>1, <2>2, <2>3 DEF Phase, Moved
  <2> QED BY <1>s, <2>1, <2>4, MovedServes
<1>5. CASE Inspects(k)
  <2>1. /\ (plugin[k].stage = "found" /\ plugin[k].id # None) \/ plugin[k].stage = "created"
        /\ Moved(k, d, "start", plugin[k].id) /\ proxy' = proxy
    BY <1>0, <1>5, InspectsMoves DEF At
  <2>2. plugin[k].stage = "created"
    BY <1>0, <2>1 DEF Phase
  <2>3. RoutesFor(k, d)' = RoutesFor(k, d)
    BY <2>1, SameRoutes DEF Moved
  <2>4. Phase(k, d)'
    BY <1>0, <2>1, <2>2, <2>3 DEF Phase, Moved
  <2> QED BY <1>s, <2>1, <2>4, MovedServes
<1> QED BY <1>2, <1>3, <1>4, <1>5

LEMMA StartsServes ==
  ASSUME State, PubType, NEW k \in Tasks, Starts(k), NEW d \in Deployments, Home(k), InPlugin(k, d)
  PROVE  SeesTo(k, d)
<1>1. plugin[k].stage = "start" /\ plugin[k].stage \in Rebuilding /\ "started" \in Rebuilding
  BY DEF Starts, At, Rebuilding
<1>2. plugin[k].dep = d /\ Phase(k, d)
  BY <1>1, OnSpot
<1>3. Hit(k) /\ proxy[d].routes = RoutesFor(k, d) /\ plugin[k].id = proxy[d].id
  BY <1>1, <1>2 DEF Phase, Hit
<1>4. /\ Moved(k, d, "started", plugin[k].id)
      /\ proxy'[d] # None /\ proxy'[d].running /\ proxy'[d].routes = proxy[d].routes
      /\ proxy'[d].id = proxy[d].id
  BY <1>2, <1>3, StartsMoves
<1>5. RoutesFor(k, d)' = RoutesFor(k, d)
  BY <1>4, SameRoutes DEF Moved
<1>6. Phase(k, d)'
  BY <1>3, <1>4, <1>5 DEF Phase, Moved
<1> QED BY <1>1, <1>4, <1>6, MovedServes

\* The container that was started runs by that name, and takes the file.
LEMMA PutsServes ==
  ASSUME State, PubType, NEW k \in Tasks, Looks(k) \/ Puts(k), ~Raises(k), NEW d \in Deployments,
         Home(k), InPlugin(k, d)
  PROVE  SeesTo(k, d)
<1>1. plugin[k].stage \in {"started", "exec"} /\ plugin[k].stage \in Rebuilding /\ "exec" \in Rebuilding
  BY DEF Looks, Puts, At, Rebuilding
<1>2. plugin[k].dep = d /\ Phase(k, d) /\ Serves(d, RoutesFor(k, d)) /\ plugin[k].todo = {}
  BY <1>1 DEF InPlugin
<1>3. /\ proxy[d] # None /\ proxy[d].running /\ plugin[k].id = proxy[d].id
      /\ proxy[d].routes = RoutesFor(k, d)
  BY <1>1, <1>2 DEF Phase
<1>4. CASE Looks(k)
  <2>1. proxy' = proxy /\ Moved(k, d, "exec", plugin[k].id)
    BY <1>2, <1>3, <1>4, LooksMoves
  <2>2. RoutesFor(k, d)' = RoutesFor(k, d)
    BY <2>1, SameRoutes DEF Moved
  <2>3. Phase(k, d)'
    BY <1>3, <2>1, <2>2 DEF Phase, Moved
  <2> QED BY <1>1, <2>1, <2>3, MovedServes
<1>5. CASE Puts(k)
  <2>1. proxy' = proxy /\ Moved(k, d, "next", plugin[k].id)
    BY <1>2, <1>5, PutsMoves
  <2>2. /\ Advances(k) /\ plugin'[k].stage = "next" /\ plugin'[k].todo = {}
        /\ plugin'[k].routes = plugin[k].routes
    BY <1>2, <2>1 DEF Moved
  <2>3. RoutesFor(k, d)' = RoutesFor(k, d) /\ Serves(d, RoutesFor(k, d))'
    BY <1>2, <2>2, RoutesServe
  <2>4. Serving(d)'
    BY <1>3, <2>1, <2>3 DEF Serving
  <2>5. InPlugin(k, d)'
    BY <2>2, <2>4 DEF InPlugin, Rebuilding
  <2> QED BY <2>2, <2>5 DEF SeesTo
<1> QED BY <1>4, <1>5

LEMMA NotCalled ==
  ASSUME NEW k \in Tasks, PluginStep(k), ~Called(k), ~Raises(k), ~Skips(k)
  PROVE  plugin[k].stage # "idle"
<1>1. CASE Collects(k) \/ Lists(k)
  BY <1>1 DEF Collects, Lists, At
<1>2. CASE Dumps(k)
  BY <1>2 DEF Dumps, DumpsBut, At
<1>3. CASE Chooses(k)
  BY <1>3 DEF Chooses, At
<1>4. ASSUME NEW from, NEW to, Find(k, from, to), from # "idle" PROVE plugin[k].stage # "idle"
  BY <1>4 DEF Find, At
<1>5. CASE Stops(k) \/ Deletes(k) \/ Creates(k)
  BY <1>5 DEF Stops, Deletes, Creates, At
<1>6. CASE Inspects(k) \/ Starts(k) \/ Looks(k) \/ Puts(k)
  BY <1>6 DEF Inspects, Starts, Looks, Puts, At
<1> QED BY <1>1, <1>2, <1>3, <1>4, <1>5, <1>6 DEF PluginStep, Rebuilds, Skips, SetupFails

LEMMA PluginServes ==
  ASSUME State, PubType, NEW k \in Tasks, PluginStep(k), ~Raises(k), ~Ends(k), ~Skips(k),
         NEW d \in Deployments, d = Spot(k), op[k].word \in PublishWords \cup {"start"},
         op[k].word \in PublishWords => Home(k), plugin[k].stage # "idle" => Home(k),
         InPlugin(k, d)
  PROVE  SeesTo(k, d)
<1>1. CASE Called(k)
  BY <1>1, CalledServes
<1>2. CASE ~Called(k)
  <2>1. plugin[k].stage # "idle"
    BY <1>2, NotCalled
  <2> QED BY <1>2, <2>1, ListsServes, DumpsServes, ChoosesServes, FindServes, DockerServes,
             StartsServes, PutsServes DEF PluginStep, Rebuilds, Skips, SetupFails
<1> QED BY <1>1, <1>2

-----------------------------------------------------------------------------
(* What the steps of others, and its own, leave such a task *)

\* If k is alone after a step of another task, nothing was at work but k.
LEMMA NobodyElse ==
  ASSUME State, Over, NEW j \in Tasks, Turned(j), NEW k \in Tasks, k # j, Alone(k)'
  PROVE  FALSE
<1>1. Begun(j)' /\ before' = before /\ pc[j] # "done"
  BY DEF Turned, Begun
<1>2. j \in before[k]
  BY <1>1 DEF Alone, Undisturbed
<1> QED BY <1>1, <1>2 DEF Over

\* A turn makes nobody alone, and who has not failed had not.
LEMMA TurnLone ==
  ASSUME State, Outcomes, Over, NEW j \in Tasks, Turned(j), skipped \subseteq skipped',
         NEW k \in Tasks, Lone(k)'
  PROVE  k = j /\ Lone(k)
<1>1. k = j
  BY NobodyElse DEF Lone
<1>2. Begun(k) /\ op' = op /\ before' = before /\ pc[k] # "done"
  BY <1>1 DEF Turned, Begun
<1>3. \A i \in Tasks : Begun(i) => Begun(i)'
  BY DEF Turned, OthersStay, Begun
<1>4. Alone(k)
  BY <1>2, <1>3 DEF Lone, Alone, Undisturbed
<1>5. result[k] = "none"
  BY <1>2 DEF Outcomes
<1>6. k \notin skipped
  BY DEF Lone
<1> QED BY <1>1, <1>2, <1>4, <1>5, <1>6 DEF Lone, Reconfigures

LEMMA SpotType ==
  ASSUME State, NEW k \in Tasks, Begun(k), op[k].word \in PublishWords \cup {"start"}, Home(k)
  PROVE  Spot(k) \in Deployments
<1>1. op[k].app \in Apps
  BY RequestFields DEF State, Shapes, Shape, ShapeOf, Begun
<1>2. op[k].app \in Existing(applications)
  BY <1>1 DEF Home, Existing, State, StoreType, AppStore
<1> QED BY <1>2, AppDeployment, ResolvedType DEF Spot

LEMMA DefaultKept ==
  ASSUME NamesKept
  PROVE  DefaultOf(deployments, default)' = DefaultOf(deployments, default)
BY SameDefault DEF NamesKept, DefaultOf, Existing

LEMMA SameSpot ==
  ASSUME NamesKept, NEW k \in Tasks, op'[k] = op[k], at'[k] = at[k]
  PROVE  Spot(k)' = Spot(k) /\ (Home(k)' <=> Home(k))
<1>1. DefaultOf(deployments, default)' = DefaultOf(deployments, default)
  BY DefaultKept
<1> QED BY <1>1 DEF NamesKept, Spot, Home, Resolved

\* The registry stays, and no service appears: what serves d goes on to.
LEMMA ServesLess ==
  ASSUME UNCHANGED stores, \A a \in Apps : web'[a] => web[a]
  PROVE  /\ Exported' = Exported /\ Listing' = Listing
         /\ \A d, routes : Serves(d, routes) => Serves(d, routes)'
<1>1. UNCHANGED <<applications, deployments, default>>
  BY DEF stores
<1>2. Exported' = Exported /\ Listing' = Listing
  BY <1>1 DEF Exported, Listing, Existing
<1>3. \A d : Published(d)' \subseteq Published(d)
  <2>1. \A n : Resolved(n)' = Resolved(n)
    BY <1>1 DEF Resolved, DefaultOf, Existing
  <2>2. Existing(deployments)' = Existing(deployments)
    BY <1>1 DEF Existing
  <2> QED BY <1>1, <2>1, <2>2 DEF Published
<1> QED BY <1>2, <1>3 DEF Serves

LEMMA ServingKept ==
  ASSUME UNCHANGED <<stores, proxy>>, \A a \in Apps : web'[a] => web[a]
  PROVE  \A d : Serving(d) => Serving(d)'
BY ServesLess DEF Serving

\* Nothing happens to the registry and the container.
LEMMA StandsStill ==
  ASSUME NEW k \in Tasks, Stands(k), UNCHANGED <<stores, proxy>>,
         \A a \in Apps : web'[a] => web[a],
         pc'[k] = pc[k], op'[k] = op[k], at'[k] = at[k], all'[k] = all[k],
         pc[k] = "plugins" => plugin'[k] = plugin[k]
  PROVE  Stands(k)'
<1>1. UNCHANGED <<applications, deployments, default>>
  BY DEF stores
<1>2. Spot(k)' = Spot(k) /\ (Home(k)' <=> Home(k)) /\ (Defaults(k)' <=> Defaults(k))
  <2>1. NamesKept
    BY StoresNamesKept
  <2>2. Existing(all[k])' = Existing(all[k]) /\ Existing(deployments)' = Existing(deployments)
    BY <1>1 DEF Existing
  <2>3. Defaults(k)' <=> Defaults(k)
    BY <1>1, <2>2 DEF Defaults
  <2> QED BY <2>1, <2>3, SameSpot
<1>3. \A d : Serving(d) => Serving(d)'
  BY ServingKept
<1>4. ASSUME pc[k] = "plugins", NEW d \in Deployments, InPlugin(k, d) PROVE InPlugin(k, d)'
  <2>1. plugin'[k] = plugin[k]
    BY <1>4
  <2>2. RoutesFor(k, d)' = RoutesFor(k, d)
    BY <2>1, SameRoutes
  <2>3. Serves(d, RoutesFor(k, d)) => Serves(d, RoutesFor(k, d))'
    <3>1. PICK rs : rs = RoutesFor(k, d)
      OBVIOUS
    <3>2. Serves(d, rs) => Serves(d, rs)'
      BY ServesLess
    <3> QED BY <2>2, <3>1, <3>2 DEF Serves
  <2>4. Phase(k, d) => Phase(k, d)'
    BY <2>1, <2>2 DEF Phase
  <2>5. Exported' = Exported /\ Listing' = Listing
    BY ServesLess
  <2> QED BY <1>3, <1>4, <2>1, <2>3, <2>4, <2>5 DEF InPlugin
<1> QED BY <1>1, <1>2, <1>3, <1>4 DEF Stands

-----------------------------------------------------------------------------
(* The steps of such a task *)

LEMMA PluginStands ==
  ASSUME State, PubType, NEW k \in Tasks, PluginStep(k), ~Raises(k), ~Ends(k), ~Skips(k),
         Reconfigures(k), Stands(k)
  PROVE  Stands(k)'
<1>0. pc[k] = "plugins" /\ Advances(k)
  <2>1. pc[k] = "plugins" /\ Tends(k)
    BY PluginTends DEF Tends, Advances
  <2> QED BY <2>1 DEF Tends
<1>1. /\ op[k].word \in PublishWords => Home(k)
      /\ plugin[k].stage # "idle" => Home(k)
      /\ \A d \in Deployments : d = Spot(k) => InPlugin(k, d)
  BY <1>0 DEF Stands
<1>2. \A d \in Deployments : d = Spot(k) => SeesTo(k, d)
  BY <1>1, PluginServes DEF Reconfigures
<1>3. Home(k)
  <2>1. CASE Called(k)
    BY <1>1, <2>1, CalledMoves DEF Home, Reconfigures
  <2>2. CASE ~Called(k)
    BY <1>1, <2>2, NotCalled
  <2> QED BY <2>1, <2>2
<1>4. /\ Spot(k)' = Spot(k) /\ Home(k)' /\ UNCHANGED <<pc, op>> /\ Defaults(k)'
  BY <1>0, <1>3, AdvancesSame DEF Stands
<1>5. \A d \in Deployments : d = Spot(k)' => InPlugin(k, d)'
  BY <1>2, <1>4 DEF SeesTo
<1> QED BY <1>0, <1>4, <1>5 DEF Stands

LEMMA EndsStands ==
  ASSUME State, NEW k \in Tasks, Ends(k), Reconfigures(k), Stands(k)
  PROVE  Stands(k)'
<1>1. /\ pc[k] = "plugins" /\ plugin[k].stage = "next" /\ plugin[k].todo = {}
      /\ UNCHANGED <<stores, proxy, web>> /\ UNCHANGED <<op, at>> /\ pc'[k] \in {"list", "done"}
  <2>1. op[k].word # "setup"
    BY DEF Reconfigures, PublishWords
  <2> QED BY <2>1 DEF Ends, At, Notified, Goes, Leave, Finish, held, State, LocalType
<1>2. Home(k) /\ \A d \in Deployments : d = Spot(k) => Serving(d)
  BY <1>1 DEF Stands, InPlugin
<1>3. Spot(k)' = Spot(k) /\ Home(k)'
  BY <1>1, <1>2, StoresNamesKept, SameSpot
<1>4. \A d : Serving(d) => Serving(d)'
  BY <1>1, ServingKept
<1>5. Defaults(k)'
  BY <1>1 DEF Defaults
<1> QED BY <1>1, <1>2, <1>3, <1>4, <1>5 DEF Stands

LEMMA AppStands ==
  ASSUME State, NEW k \in Tasks, AppStep(k), Reconfigures(k)
  PROVE  Stands(k)' \/ result'[k] = "failed"
<1>0. Shape(k) /\ LocalType
  BY DEF State, Shapes
<1>1. CASE RefusesApp(k)
  BY <1>0, <1>1 DEF RefusesApp, Return, Finish, LocalType
<1>2. CASE TakesApp(k)
  <2>1. UNCHANGED stores /\ pc[k] = "get app" /\ op' = op /\ applications[op[k].app] # None
    BY <1>2 DEF TakesApp, Turn, Ask, Await, Reconfigures, PublishWords
  <2>2. CASE op[k].word = "start"
    <3>1. pc'[k] = "launch"
      BY <1>0, <1>2, <2>2 DEF TakesApp, Await, LocalType, PublishWords
    <3> QED BY <3>1 DEF Stands, Defaults
  <2>3. CASE op[k].word \in PublishWords
    <3>1. PICK dep : dep = applications[op[k].app].deployment
      OBVIOUS
    <3>2. /\ at' = [at EXCEPT ![k] = dep]
          /\ pc' = [pc EXCEPT ![k] = IF dep = None THEN "all deps" ELSE "get dep"]
      BY <1>2, <2>3, <3>1 DEF TakesApp, Ask, PublishWords
    <3>3. at'[k] = dep /\ pc'[k] = IF dep = None THEN "all deps" ELSE "get dep"
      BY <1>0, <3>2 DEF LocalType
    <3>4. applications' = applications /\ op' = op
      BY <2>1 DEF stores
    <3>5. dep # None => Home(k)'
      BY <2>1, <3>1, <3>3, <3>4 DEF Home, Spot, Resolved
    <3> QED BY <2>1, <3>1, <3>3, <3>4, <3>5 DEF Stands, Defaults
  <2> QED BY <2>2, <2>3 DEF Reconfigures
<1>3. CASE Validated(k) \/ Destroyed(k) \/ PutApp(k) \/ DelApp(k)
  <2>1. pc[k] \in {"validate", "destroy", "put app", "del app"}
    BY <1>3 DEF Validated, Destroyed, PutApp, DelApp, Resume, Turn
  <2>2. op[k].word \in WordsAt(pc[k])
    BY <1>0, <2>1 DEF Shape, ShapeOf
  <2> QED BY <2>1, <2>2 DEF WordsAt, PublishWords, Reconfigures
<1> QED BY <1>1, <1>2, <1>3 DEF AppStep

LEMMA DepStands ==
  ASSUME State, PubType, NEW k \in Tasks, DepStep(k), Reconfigures(k), Stands(k),
         pc'[k] = "plugins" => plugin'[k] = plugin[k]
  PROVE  Stands(k)' \/ result'[k] = "failed"
<1>0. Shape(k) /\ LocalType
  BY DEF State, Shapes
<1>q. NamesKept /\ Defaults(k)'
  BY QuietDep DEF Reconfigures, ReadWords, Quietly, Stands
<1>1. CASE RefusesDep(k)
  BY <1>0, <1>1 DEF RefusesDep, Return, Finish, LocalType
<1>2. CASE TakesDep(k)
  <2>1. pc[k] \in {"get dep", "get dep again"}
    BY <1>2 DEF TakesDep, ToChange, Turn
  <2>2. op[k].word \in WordsAt(pc[k])
    BY <1>0, <2>1 DEF Shape, ShapeOf
  <2>3. op[k].word \in PublishWords /\ pc[k] = "get dep"
    BY <2>1, <2>2 DEF Reconfigures, WordsAt, PublishWords, MachineWords
  <2>4. pc' = [pc EXCEPT ![k] = "put dep"] /\ op' = op /\ at' = at
    BY <1>2, <2>3 DEF TakesDep, ToChange, Ask, PublishWords, MachineWords
  <2>5. pc'[k] = "put dep" /\ Home(k)'
    BY <1>0, <1>q, <2>3, <2>4, SameSpot DEF LocalType, Stands
  <2> QED BY <1>q, <2>5 DEF Stands
<1>3. CASE AllDeps(k)
  <2>1. UNCHANGED stores /\ pc[k] = "all deps" /\ pc'[k] = "get default" /\ op' = op
    BY <1>0, <1>3 DEF AllDeps, Turn, Ask, LocalType
  <2> QED BY <1>q, <2>1 DEF Stands, stores
<1>4. CASE TakesDefault(k)
  <2>1. PICK d : d = DefaultOf(all[k], default)
    OBVIOUS
  <2>2. /\ UNCHANGED stores /\ pc[k] = "get default" /\ pc'[k] = "put dep" /\ op' = op
        /\ at' = [at EXCEPT ![k] = d]
    BY <1>0, <1>4, <2>1 DEF TakesDefault, Turn, Ask, LocalType
  <2>3. at'[k] = d
    BY <1>0, <2>2 DEF LocalType
  <2>4. Existing(all[k]) = Existing(deployments) \/ (Existing(all[k]) = {} /\ Existing(deployments) = {Local})
    BY <2>2 DEF Defaults, Stands
  <2>5. d = DefaultOf(deployments, default)
    BY <2>1, <2>4, SameDefault
  <2>6. applications[op[k].app] # None /\ applications[op[k].app].deployment = None
    BY <2>2 DEF Stands
  <2>7. DefaultOf(deployments, default)' = d /\ applications' = applications
    BY <1>q, <2>5, DefaultKept DEF NamesKept
  <2>8. Home(k)'
    BY <2>2, <2>3, <2>6, <2>7 DEF Home, Spot, Resolved
  <2> QED BY <1>q, <2>2, <2>8 DEF Stands
<1>5. CASE PutDep(k)
  <2>1. pc[k] = "put dep"
    BY <1>5 DEF PutDep, Turn
  <2>2. op[k].word \in PublishWords
    BY <1>0, <2>1 DEF Shape, ShapeOf, WordsAt, Reconfigures, MachineWords, PublishWords
  <2>3. pc'[k] = "plugins" /\ op' = op /\ at' = at
    BY <1>0, <1>5, <2>2 DEF PutDep, Await, held, LocalType, PublishWords, MachineWords
  <2>4. Home(k)'
    BY <1>q, <2>1, <2>2, <2>3, SameSpot DEF Stands
  <2>5. plugin'[k].stage = "idle"
    BY <2>1, <2>3 DEF PubType
  <2>6. \A d : InPlugin(k, d)'
    BY <2>5 DEF InPlugin, Rebuilding
  <2> QED BY <1>q, <2>3, <2>4, <2>5, <2>6 DEF Stands
<1>6. CASE MachineEnds(k) \/ CountsDeps(k) \/ DelDep(k) \/ SetDefault(k)
  <2>1. \/ pc[k] \in {"machine", "del dep", "set default"}
        \/ op[k].word = "deployment_create"
    BY <1>6 DEF MachineEnds, Syncs, Leave, CountsDeps, DelDep, SetDefault, Turn
  <2>2. pc[k] \in {"machine", "del dep", "set default"} => op[k].word \in WordsAt(pc[k])
    BY <1>0 DEF Shape, ShapeOf
  <2> QED BY <2>1, <2>2 DEF WordsAt, PublishWords, Reconfigures
<1> QED BY <1>1, <1>2, <1>3, <1>4, <1>5, <1>6 DEF DepStep

LEMMA TailStands ==
  ASSUME State, PubType, NEW k \in Tasks, Launched(k) \/ Listed(k) \/ Fails(k), Reconfigures(k), Stands(k),
         proxy' = proxy, Listed(k) => web' = web, pc'[k] = "plugins" => plugin'[k] = plugin[k]
  PROVE  Stands(k)' \/ result'[k] = "failed"
<1>0. Shape(k) /\ LocalType
  BY DEF State, Shapes
<1>1. CASE Launched(k)
  <2>1. pc[k] = "launch" /\ pc'[k] = "plugins" /\ op' = op
    BY <1>0, <1>1 DEF Launched, Goes, LocalType
  <2>2. op[k].word = "start"
    BY <1>0, <2>1 DEF Shape, ShapeOf, WordsAt
  <2>3. plugin'[k].stage = "idle"
    BY <2>1 DEF PubType
  <2>4. \A d : InPlugin(k, d)'
    BY <2>3 DEF InPlugin, Rebuilding
  <2> QED BY <2>1, <2>2, <2>3, <2>4 DEF Stands, Defaults, PublishWords
<1>2. CASE Listed(k)
  <2>1. pc[k] = "list" /\ pc'[k] = "done" /\ UNCHANGED <<stores, proxy, web>> /\ op' = op /\ at' = at
    BY <1>0, <1>2 DEF Listed, Leave, Finish, LocalType
  <2>2. Home(k) /\ \A d \in Deployments : d = Spot(k) => Serving(d)
    BY <2>1 DEF Stands
  <2>3. Spot(k)' = Spot(k) /\ Home(k)'
    BY <2>1, <2>2, StoresNamesKept, SameSpot
  <2>4. \A d : Serving(d) => Serving(d)'
    BY <2>1, ServingKept
  <2> QED BY <2>1, <2>2, <2>3, <2>4 DEF Stands, Defaults
<1>3. CASE Fails(k)
  BY <1>0, <1>3 DEF Fails, Leave, Finish, LocalType
<1> QED BY <1>1, <1>2, <1>3

-----------------------------------------------------------------------------
(* What is preserved, of the tasks that are alone *)

AloneInv == Over /\ LoneInv

LEMMA TurnOver ==
  ASSUME State, Over, NEW j \in Tasks, Turned(j)
  PROVE  Over'
<1>1. \A i \in Tasks : pc[i] = "done" => pc'[i] = "done"
  BY DEF Turned, OthersStay
<1>2. before' = before /\ \A k \in Tasks : before[k] \subseteq Tasks
  BY DEF Turned, State, LocalType
<1> QED BY <1>1, <1>2 DEF Over

\* One turn of task j keeps the invariant if it keeps its part.
LEMMA AloneTurn ==
  ASSUME State, Outcomes, AloneInv, NEW j \in Tasks, Turned(j), skipped \subseteq skipped',
         Lone(j) /\ Lone(j)' => Stands(j)'
  PROVE  AloneInv'
<1>1. Over'
  BY TurnOver DEF AloneInv
<1>2. ASSUME NEW k \in Tasks, Lone(k)' PROVE Stands(k)'
  BY <1>2, TurnLone DEF AloneInv, Lone
<1> QED BY <1>1, <1>2 DEF AloneInv, LoneInv

LEMMA AloneByTask ==
  ASSUME PubInv, AloneInv, NEW k \in Tasks, AppStep(k) \/ DepStep(k) \/ Listed(k) \/ Fails(k) \/ Launched(k),
         UNCHANGED <<proxy, skipped>>, Listed(k) => web' = web, Elsewhere
  PROVE  AloneInv'
<1>0. State /\ PubType /\ Outcomes /\ Turned(k)
  BY TaskStepGood DEF PubInv, TaskStep, GoodTurn
<1>1. pc'[k] = "plugins" => plugin'[k] = plugin[k]
  BY DEF Elsewhere
<1>2. Lone(k) => Reconfigures(k) /\ Stands(k)
  BY DEF AloneInv, LoneInv, Lone
<1>3. Lone(k) => Stands(k)' \/ result'[k] = "failed"
  BY <1>0, <1>1, <1>2, AppStands, DepStands, TailStands
<1>4. Lone(k)' => result'[k] # "failed"
  BY DEF Lone
<1> QED BY <1>0, <1>3, <1>4, AloneTurn

LEMMA AloneByPlugin ==
  ASSUME PubInv, AloneInv, NEW k \in Tasks, PluginStep(k)
  PROVE  AloneInv'
<1>0. State /\ PubType /\ Outcomes
  BY DEF PubInv
<1>1. Lone(k) => Reconfigures(k) /\ Stands(k)
  BY DEF AloneInv, LoneInv, Lone
<1>2. CASE Raises(k)
  <2>1. Turned(k) /\ skipped' = skipped /\ (op[k].word = "setup" \/ result'[k] = "failed")
    BY <1>0, <1>2, RaisesType
  <2>2. ~(Lone(k) /\ Lone(k)')
    BY <2>1 DEF Lone, Reconfigures, PublishWords
  <2> QED BY <1>0, <2>1, <2>2, AloneTurn
<1>3. CASE Ends(k)
  <2>1. Turned(k) /\ skipped' = skipped
    BY <1>0, <1>3, TaskStepGood DEF Ends, TaskStep, GoodTurn
  <2> QED BY <1>0, <1>1, <1>3, <2>1, EndsStands, AloneTurn
<1>4. CASE Skips(k)
  <2>1. Turned(k) /\ skipped' = skipped \cup {k}
    BY <1>0, <1>4, SkipsType
  <2>2. ~Lone(k)'
    BY <2>1 DEF Lone
  <2> QED BY <1>0, <2>1, <2>2, AloneTurn
<1>5. CASE ~Raises(k) /\ ~Ends(k) /\ ~Skips(k)
  <2>1. UNCHANGED <<vars, skipped>> /\ pc[k] = "plugins" /\ pc'[k] = "plugins"
    <3>1. Tends(k)
      BY <1>0, <1>5, PluginTends
    <3> QED BY <3>1 DEF Tends, Advances, vars
  <2>2. Turned(k)
    BY <2>1 DEF vars, held, Turned, OthersStay
  <2>3. Lone(k) => Stands(k)'
    BY <1>0, <1>1, <1>5, PluginStands
  <2> QED BY <1>0, <2>1, <2>2, <2>3, AloneTurn
<1> QED BY <1>2, <1>3, <1>4, <1>5

LEMMA AloneByBegin ==
  ASSUME PubInv, AloneInv, NEW k \in Tasks, NEW o \in Requests, Begin(k, o), skipped' = skipped
  PROVE  AloneInv'
<1>0. /\ State /\ OthersStay(k) /\ pc[k] = "new" /\ pc'[k] \notin {"new", "done"}
      /\ op'[k] = o /\ before'[k] = Ended
  BY BeginGood DEF PubInv
<1>1. Over'
  <2>1. \A i \in Tasks : pc[i] = "done" => pc'[i] = "done"
    BY <1>0 DEF OthersStay
  <2>2. \A j \in Tasks : before[j] \subseteq Tasks
    BY <1>0 DEF State, LocalType
  <2>3. \A j \in Tasks \ {k} : before'[j] = before[j]
    BY <1>0 DEF OthersStay
  <2> QED BY <1>0, <2>1, <2>2, <2>3 DEF AloneInv, Over, Ended
<1>2. ASSUME NEW j \in Tasks, Lone(j)' PROVE Stands(j)'
  <2>1. CASE j = k
    <3>1. pc'[k] = "get app"
      <4>1. pc'[k] = FirstLabel(o.word)
        BY <1>0 DEF Begin, State, LocalType
      <4> QED BY <1>0, <1>2, <2>1, <4>1 DEF FirstLabel, Lone, Reconfigures
    <3> QED BY <2>1, <3>1 DEF Stands, Defaults
  <2>2. CASE j # k
    <3>1. k \in before[j]
      BY <1>0, <1>2, <2>2 DEF Lone, Alone, Undisturbed, Begun, OthersStay
    <3> QED BY <1>0, <3>1 DEF AloneInv, Over
  <2> QED BY <2>1, <2>2
<1> QED BY <1>1, <1>2 DEF AloneInv, LoneInv

LEMMA AloneByInterrupt ==
  ASSUME PubInv, AloneInv, Interrupted
  PROVE  AloneInv'
<1>0. State /\ (RedisLost \/ Crash) /\ UNCHANGED <<web, proxy, skipped>> /\ Elsewhere
  BY DEF PubInv, Interrupted
<1>1. PICK S \in SUBSET Active, outcome \in {"failed", "lost"} : Abandon(S, outcome)
  BY <1>0 DEF RedisLost, Crash
<1>2. UNCHANGED <<stores, op, at, before>> /\ \A j \in Tasks : Begun(j)' <=> Begun(j)
  BY <1>1 DEF Abandon, Active, Begun
<1>3. Over'
  <2>1. \A j \in Tasks : pc[j] = "done" => pc'[j] = "done"
    BY <1>1 DEF Abandon
  <2>2. \A j \in Tasks : before[j] \subseteq Tasks
    BY <1>0 DEF State, LocalType
  <2> QED BY <1>2, <2>1, <2>2 DEF AloneInv, Over
<1>4. ASSUME NEW j \in Tasks, Lone(j)' PROVE Stands(j)'
  <2>1. j \notin S
    BY <1>1, <1>4 DEF Abandon, Lone
  <2>2. pc'[j] = pc[j] /\ result'[j] = result[j] /\ all'[j] = all[j]
    BY <1>1, <2>1 DEF Abandon
  <2>3. Alone(j)
    BY <1>2, <1>4 DEF Lone, Alone, Undisturbed
  <2>4. Lone(j)
    BY <1>0, <1>2, <1>4, <2>2, <2>3 DEF Lone, Reconfigures
  <2>5. Stands(j)
    BY <2>4 DEF AloneInv, LoneInv
  <2>6. pc[j] = "plugins" => plugin'[j] = plugin[j]
    BY <1>0, <2>2 DEF Elsewhere
  <2> QED BY <1>0, <1>2, <2>2, <2>5, <2>6, StandsStill
<1> QED BY <1>3, <1>4 DEF AloneInv, LoneInv

LEMMA AloneOutside ==
  ASSUME AloneInv, UNCHANGED <<vars, proxy, plugin, skipped>>, \A a \in Apps : web'[a] => web[a]
  PROVE  AloneInv'
<1>1. UNCHANGED <<stores, pc, op, at, all, result, before>>
  BY DEF vars, held
<1>2. Over'
  BY <1>1 DEF AloneInv, Over
<1>3. ASSUME NEW j \in Tasks, Lone(j)' PROVE Stands(j)'
  <2>1. Lone(j)
    BY <1>1, <1>3 DEF Lone, Reconfigures, Alone, Undisturbed, Begun
  <2>2. Stands(j)
    BY <2>1 DEF AloneInv, LoneInv
  <2> QED BY <1>1, <2>2, StandsStill
<1> QED BY <1>2, <1>3 DEF AloneInv, LoneInv

LEMMA InitAlone == PubInit => AloneInv
BY DEF PubInit, Init, AloneInv, Over, LoneInv, Lone, Reconfigures, Begun

LEMMA NextAlone == PubInv /\ AloneInv /\ [PubNext]_pubVars => AloneInv'
<1> SUFFICES ASSUME PubInv, AloneInv, [PubNext]_pubVars PROVE AloneInv'
  OBVIOUS
<1>1. ASSUME NEW k \in Tasks, InRegistry(k) PROVE AloneInv'
  <2>1. ASSUME NEW o \in Requests, Begin(k, o) PROVE AloneInv'
    BY <1>1, <2>1, AloneByBegin DEF InRegistry
  <2>2. CASE AppStep(k) \/ DepStep(k) \/ Listed(k) \/ Fails(k)
    BY <1>1, <2>2, AloneByTask DEF InRegistry
  <2> QED BY <1>1, <2>1, <2>2 DEF InRegistry
<1>2. ASSUME NEW k \in Tasks, Launches(k) PROVE AloneInv'
  <2>1. ~Listed(k)
    BY <1>2 DEF Launches, Launched, Goes, Listed, Leave
  <2> QED BY <1>2, <2>1, AloneByTask DEF Launches
<1>3. ASSUME NEW k \in Tasks, PluginStep(k) PROVE AloneInv'
  BY <1>3, AloneByPlugin
<1>4. ASSUME NEW a \in Apps, ServiceExits(a) PROVE AloneInv'
  <2>1. web \in [Apps -> BOOLEAN]
    BY DEF PubInv, PubType
  <2>2. \A b \in Apps : web'[b] => web[b]
    BY <1>4, <2>1 DEF ServiceExits
  <2> QED BY <1>4, <2>2, AloneOutside DEF ServiceExits
<1>5. CASE Interrupted
  BY <1>5, AloneByInterrupt
<1>6. CASE UNCHANGED pubVars
  BY <1>6, AloneOutside DEF pubVars
<1> QED BY <1>1, <1>2, <1>3, <1>4, <1>5, <1>6 DEF PubNext

-----------------------------------------------------------------------------
(* Theorems *)

LEMMA InitPub == PubInit => PubInv
<1> SUFFICES ASSUME PubInit PROVE PubInv
  OBVIOUS
<1>1. State
  BY InitState DEF PubInit
<1>2. PubType
  BY IdleRecord, PublishingAssumption DEF PubInit, PubType, Rebuilding
<1>3. Outcomes /\ CalmInv
  BY DEF PubInit, Init, Outcomes, CalmInv, Defaults, Rebuilt
<1> QED BY <1>1, <1>2, <1>3 DEF PubInv

LEMMA NextPub == PubInv /\ [PubNext]_pubVars => PubInv'
<1> SUFFICES ASSUME PubInv, [PubNext]_pubVars PROVE PubInv'
  OBVIOUS
<1>w. web \in [Apps -> BOOLEAN]
  BY DEF PubInv, PubType
<1>1. ASSUME NEW k \in Tasks, InRegistry(k) PROVE PubInv'
  <2>1. ASSUME NEW o \in Requests, Begin(k, o) PROVE PubInv'
    BY <1>1, <2>1, KeptByBegin DEF InRegistry
  <2>2. CASE AppStep(k) \/ DepStep(k) \/ Listed(k) \/ Fails(k)
    BY <1>1, <1>w, <2>2, KeptByTask DEF InRegistry
  <2> QED BY <1>1, <2>1, <2>2 DEF InRegistry
<1>2. ASSUME NEW k \in Tasks, Launches(k) PROVE PubInv'
  <2>1. web' \in [Apps -> BOOLEAN]
    BY <1>2, <1>w DEF Launches
  <2> QED BY <1>2, <2>1, KeptByTask DEF Launches
<1>3. ASSUME NEW k \in Tasks, PluginStep(k) PROVE PubInv'
  BY <1>3, KeptByPlugin
<1>4. ASSUME NEW a \in Apps, ServiceExits(a) PROVE PubInv'
  <2>1. web' \in [Apps -> BOOLEAN]
    BY <1>4, <1>w DEF ServiceExits
  <2> QED BY <1>4, <2>1, KeptOutside DEF ServiceExits
<1>5. CASE Interrupted
  BY <1>5, KeptByInterrupt
<1>6. CASE UNCHANGED pubVars
  BY <1>6, <1>w, KeptOutside DEF pubVars
<1> QED BY <1>1, <1>2, <1>3, <1>4, <1>5, <1>6 DEF PubNext

LEMMA InitFlags == PubInit => FlagsType
BY DEF PubInit, FlagsType

LEMMA NextFlags == State /\ FlagsType /\ [PubNext]_pubVars => FlagsType'
<1> SUFFICES ASSUME State, FlagsType, [PubNext]_pubVars PROVE FlagsType'
  OBVIOUS
<1>1. ASSUME NEW k \in Tasks, PluginStep(k) PROVE FlagsType'
  <2>1. \/ skipped' = skipped /\ loaded' = loaded
        \/ skipped' = skipped \cup {k} /\ loaded' = loaded
        \/ skipped' = skipped /\ loaded' = (loaded \/ op[k].word = "setup")
    BY <1>1 DEF PluginStep, NotLoaded, Called, Collects, Lists, Dumps, Chooses, Rebuilds, Ignored,
       SetupFails, Raises, Quiet, Find, Stops, Deletes, Creates, Inspects, Starts, Looks, Puts
  <2> QED BY <2>1 DEF FlagsType
<1>2. CASE Interrupted
  <2>1. up' \in BOOLEAN
    BY <1>2, InterruptGood DEF Interrupted, State, LocalType
  <2> QED BY <1>2, <2>1 DEF Interrupted, FlagsType
<1>3. ASSUME UNCHANGED <<loaded, skipped>> PROVE FlagsType'
  BY <1>3 DEF FlagsType
<1> QED BY <1>1, <1>2, <1>3 DEF PubNext, InRegistry, Launches, ServiceExits, pubVars

\* What the plugin holds keeps its types, for every task and whatever fails: in
\* particular the rebuilding of a container always knows the deployment it is for.
THEOREM PublishingTypes == PubSpec => []PubTypeOK
<1>1. PubInv /\ FlagsType => PubTypeOK
  <2> SUFFICES ASSUME PubInv, FlagsType PROVE PubTypeOK
    OBVIOUS
  <2>1. PubType
    BY DEF PubInv
  <2>2. \A k \in Tasks : plugin[k].routes \subseteq Deployments \X Domains \X Apps
    BY <2>1, PluginFields
  <2> QED BY <2>1, <2>2, PluginFields DEF PubType, PubTypeOK, FlagsType
<1>2. PubInv => State
  BY DEF PubInv
<1> QED BY <1>1, <1>2, InitPub, NextPub, InitFlags, NextFlags, PTL DEF PubSpec

\* However many rebuilds overlap, each deleting and creating the container that the
\* others work on, the load balancer is up when all of them have ended without a
\* failure and without a refusal of Docker's that nobody looked at: until then it runs,
\* or a task has yet to start the one that is there.
THEOREM RebuildsLeaveItUp == PubSpec => []ProxyStaysUp
<1>1. PubInv => ProxyStaysUp
  <2> SUFFICES ASSUME PubInv, NEW k \in Tasks, OnlyRebuilds, skipped = {},
                      \A j \in Tasks : pc[j] \in {"new", "done"} /\ result[j] \in {"none", "ok"},
                      result[k] = "ok", op[k].word \in PublishWords,
                      \E a \in Existing(applications) : Resolved(applications[a].deployment) = at[k]
               PROVE  proxy[at[k]] # None /\ proxy[at[k]].running
    BY DEF ProxyStaysUp
  <2>1. Calm /\ Rebuilt(k) /\ Used(at[k])
    BY DEF PubInv, CalmInv, Calm, Used
  <2>2. pc[k] = "done"
    BY DEF PubInv, Outcomes
  <2>3. pc[k] # "new"
    BY <2>2
  <2>4. Tended(at[k])
    BY <2>1, <2>2, <2>3 DEF Rebuilt
  <2>5. \A j \in Tasks : ~Works(j, at[k])
    BY DEF Works
  <2> QED BY <2>4, <2>5 DEF Tended
<1> QED BY <1>1, InitPub, NextPub, PTL DEF PubSpec

\* A publish, an unpublish or a start that nobody overlapped or followed and that reported
\* success, with the plugin loaded and nothing of its rebuild silently left undone, has left
\* a load balancer that serves what the registry says, whatever container there was before
\* and whatever had failed, been refused or gone unnoticed for other tasks: on its way the
\* task has taken the old one down before it made its own, from a list of applications and
\* domains that is still right.
THEOREM SuccessMeansServed == PubSpec => []DoneMeansServed
<1>1. PubInv /\ AloneInv => DoneMeansServed
  <2> SUFFICES ASSUME PubInv, AloneInv, NEW k \in Tasks, result[k] = "ok", Alone(k), k \notin skipped,
                      op[k].word \in PublishWords \cup {"start"}
               PROVE  Serving(Served(k))
    BY DEF DoneMeansServed, Serving, Serves, Exported
  <2>1. State /\ pc[k] = "done"
    BY DEF PubInv, Outcomes
  <2>2. Reconfigures(k) /\ Stands(k)
    BY <2>1 DEF AloneInv, LoneInv, Lone, Reconfigures, Begun
  <2>3. Home(k) /\ \A d \in Deployments : d = Spot(k) => Serving(d)
    BY <2>1, <2>2 DEF Stands
  <2>4. Spot(k) \in Deployments
    BY <2>1, <2>2, <2>3, SpotType DEF Reconfigures
  <2>5. Served(k) = Spot(k)
    BY <2>3 DEF Home, Spot, Served, PublishWords
  <2> QED BY <2>3, <2>4, <2>5
<1> QED BY <1>1, InitPub, NextPub, InitAlone, NextAlone, PTL DEF PubSpec
=============================================================================
