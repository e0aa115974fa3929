---------------------------- MODULE RegistryProofs ----------------------------
(***************************************************************************)
(* Proofs about Registry, for every set of tasks, applications,            *)
(* deployments and domains, and every fault.                               *)
(***************************************************************************)
EXTENDS Registry, TLAPS

-----------------------------------------------------------------------------
\* What is asked for.

LEMMA RequestFields ==
  ASSUME NEW o \in Requests
  PROVE  /\ o.word \in Words
         /\ o.word \in AppWords \cup PublishWords \cup DepWords \cup MachineWords \cup ReadWords
                      \cup {"deployment_set_default"}
         /\ o.word \in PublishWords \cup MachineWords => o.deployment = None
         /\ o.deployment \in Deployments \cup {None}
         /\ o.word \in AppWords \cup PublishWords \cup {"start"} => o.app \in Apps
         /\ o.word \in PublishWords => o.domain \in Domains
         /\ o.word \in {"init", "update"} => o.value \in Sources
         /\ o.word \in {"set_deployment", "deployment_set_default"} \cup DepWords
            => o.deployment \in Deployments
         /\ o.word = "deployment_create" => o.value # "key"
         /\ o.word \in MachineWords => o.value = "tls"
BY RegistryAssumption DEF Requests, Request, AppWords, PublishWords, DepWords, MachineWords, ReadWords, Settings

\* No word is of two kinds.
LEMMA WordKinds ==
  /\ AppWords \cap (PublishWords \cup DepWords \cup MachineWords \cup ReadWords) = {}
  /\ PublishWords \cap (DepWords \cup MachineWords \cup ReadWords) = {}
  /\ DepWords \cap (MachineWords \cup ReadWords) = {}
  /\ MachineWords \cap ReadWords = {}
  /\ "deployment_set_default" \notin AppWords \cup PublishWords \cup DepWords \cup MachineWords \cup ReadWords
BY DEF AppWords, PublishWords, DepWords, MachineWords, ReadWords

-----------------------------------------------------------------------------
\* What a task is asked for, by what it waits for.
WordsAt(label) ==
  IF label = "get app" THEN AppWords \cup PublishWords \cup {"start"}
  ELSE IF label = "validate" THEN {"init", "update"}
  ELSE IF label \in {"destroy", "del app"} THEN {"remove"}
  ELSE IF label = "launch" THEN {"start"}
  ELSE IF label = "put app" THEN {"init", "update", "set_deployment"}
  ELSE IF label = "machine" THEN {"machine"}
  ELSE IF label = "get dep again" THEN MachineWords
  ELSE IF label = "get dep" THEN PublishWords \cup {"deployment_update"} \cup MachineWords
  ELSE IF label = "put dep" THEN PublishWords \cup {"deployment_create", "deployment_update"} \cup MachineWords
  ELSE IF label = "del dep" THEN {"deployment_remove"}
  ELSE IF label \in {"all deps", "get default"} THEN PublishWords \cup {"deployment_create"}
  ELSE IF label = "set default" THEN {"deployment_set_default", "deployment_create"}
  ELSE IF label = "plugins" THEN PublishWords \cup ReadWords \cup {"setup"}
  ELSE IF label = "list" THEN PublishWords \cup {"update"}
  ELSE AppWords \cup PublishWords \cup DepWords \cup MachineWords \cup ReadWords
       \cup {"deployment_set_default"}

\* What a task that waits for label l holds, given its other variables.
ShapeOf(l, o, d, a, r, s, ms, ts) ==
  /\ l # "new" => o \in Requests /\ o.word \in WordsAt(l)
  /\ l \in {"validate", "put app"} => a \in AppRecord
  /\ l = "put dep" => r \in DepRecord
  /\ l = "get default" => s \in DepStore
  /\ l \in {"get dep", "get dep again", "put dep", "del dep", "set default"} => d \in Deployments
  /\ l # "new" /\ o.word \in DepWords \cup {"deployment_set_default"} => d = o.deployment
  /\ l \in {"plugins", "list"} /\ o.word \in PublishWords => d \in Deployments
  /\ l \in {"get app", "all deps", "get default"} /\ o.word \in PublishWords => d = None
  /\ l \in {"new", "machine"} => ms = {}
  /\ l = "plugins" /\ o.word = "setup" => ms = {}
  /\ l \in {"get dep", "get dep again", "put dep"} /\ o.word \in MachineWords => d \in ts
  /\ ts \subseteq ms

Shape(k) == ShapeOf(pc[k], op[k], at[k], app[k], rec[k], all[k], listed[k], todo[k])

Shapes == \A k \in Tasks : Shape(k)

\* The other tasks stay where they are.
OthersStay(k) ==
  \A j \in Tasks \ {k} :
    /\ pc'[j] = pc[j] /\ op'[j] = op[j] /\ at'[j] = at[j] /\ app'[j] = app[j]
    /\ rec'[j] = rec[j] /\ all'[j] = all[j] /\ result'[j] = result[j]
    /\ before'[j] = before[j] /\ listed'[j] = listed[j] /\ todo'[j] = todo[j]

\* A turn of task k that leaves what it was asked for.
Turned(k) ==
  /\ OthersStay(k) /\ op' = op /\ before' = before
  /\ pc[k] \notin {"new", "done"} /\ pc'[k] # "new"

LocalType ==
  /\ pipe \in Seq(Tasks)
  /\ op \in [Tasks -> Requests \cup {None}]
  /\ pc \in [Tasks -> Labels]
  /\ at \in [Tasks -> Deployments \cup {None}]
  /\ app \in [Tasks -> AppRecord \cup {None}]
  /\ rec \in [Tasks -> DepRecord \cup {None}]
  /\ all \in [Tasks -> DepStore \cup {None}]
  /\ listed \in [Tasks -> SUBSET Machines]
  /\ todo \in [Tasks -> SUBSET Machines]
  /\ up \in BOOLEAN
  /\ result \in [Tasks -> {"none", "ok", "failed", "lost"}]
  /\ before \in [Tasks -> SUBSET Tasks]

StoreType ==
  /\ applications \in AppStore
  /\ deployments \in DepStore
  /\ default \in Deployments \cup {None}

LEMMA TypeParts == TypeOK <=> LocalType /\ StoreType
BY DEF TypeOK, LocalType, StoreType

LEMMA ShapesStep ==
  ASSUME Shapes, NEW k \in Tasks, OthersStay(k), Shape(k)'
  PROVE  Shapes'
<1> SUFFICES ASSUME NEW j \in Tasks \ {k} PROVE Shape(j)'
  BY DEF Shapes
<1> QED BY DEF Shapes, Shape, OthersStay

-----------------------------------------------------------------------------
\* How a turn ends.

LEMMA PipeType ==
  ASSUME pipe \in Seq(Tasks), NEW k \in Tasks
  PROVE  /\ Append(pipe, k) \in Seq(Tasks)
         /\ pipe # <<>> => Tail(pipe) \in Seq(Tasks)
         /\ pipe # <<>> => Append(Tail(pipe), k) \in Seq(Tasks)
OBVIOUS

LEMMA AskTurn ==
  ASSUME LocalType, NEW k \in Tasks, NEW from, NEW label \in Labels \ {"new"}, Turn(k, from),
         from \notin {"new", "done"},
         \/ Ask(k, label)
         \/ Await(k, label),
         at' = at \/ \E d \in Deployments : at' = [at EXCEPT ![k] = d],
         app' = app \/ \E a \in AppRecord : app' = [app EXCEPT ![k] = a],
         rec' = rec \/ \E r \in DepRecord : rec' = [rec EXCEPT ![k] = r],
         all' = all \/ \E s \in DepStore \cup {None} : all' = [all EXCEPT ![k] = s],
         todo' = todo \/ \E T \in SUBSET todo[k] : todo' = [todo EXCEPT ![k] = T]
  PROVE  /\ LocalType' /\ Turned(k) /\ pc'[k] = label
         /\ listed' = listed /\ todo'[k] \subseteq todo[k]
<1>1. pipe' \in Seq(Tasks)
  <2>1. pipe \in Seq(Tasks) /\ pipe # <<>>
    BY DEF Turn, LocalType
  <2>2. pipe' = Append(Tail(pipe), k) \/ pipe' = Tail(pipe)
    BY DEF Ask, Await
  <2> QED BY <2>1, <2>2, PipeType
<1>2. at' \in [Tasks -> Deployments \cup {None}] /\ app' \in [Tasks -> AppRecord \cup {None}]
  BY DEF LocalType
<1>3. rec' \in [Tasks -> DepRecord \cup {None}] /\ all' \in [Tasks -> DepStore \cup {None}]
  BY DEF LocalType
<1>t. todo' \in [Tasks -> SUBSET Machines] /\ todo'[k] \subseteq todo[k]
  BY DEF LocalType
<1>4. \A j \in Tasks \ {k} : /\ at'[j] = at[j] /\ app'[j] = app[j] /\ rec'[j] = rec[j] /\ all'[j] = all[j]
                              /\ todo'[j] = todo[j]
  BY DEF LocalType
<1>5. /\ pc' = [pc EXCEPT ![k] = label]
      /\ UNCHANGED <<up, op, listed, result, before>>
  BY DEF Ask, Await
<1> QED BY <1>1, <1>2, <1>3, <1>t, <1>4, <1>5 DEF LocalType, Turned, OthersStay, Turn

LEMMA FinishTurn ==
  ASSUME LocalType, NEW k \in Tasks, NEW outcome \in {"ok", "failed"}, Finish(k, outcome),
         pc[k] \notin {"new", "done"},
         pipe' = pipe \/ (pipe # <<>> /\ pipe' = Tail(pipe)),
         todo' = todo \/ \E T \in SUBSET todo[k] : todo' = [todo EXCEPT ![k] = T]
  PROVE  /\ LocalType' /\ Turned(k) /\ pc'[k] = "done" /\ result'[k] = outcome
         /\ at' = at /\ listed' = listed
<1>t. todo' \in [Tasks -> SUBSET Machines] /\ \A j \in Tasks \ {k} : todo'[j] = todo[j]
  BY DEF LocalType
<1>1. pipe' \in Seq(Tasks)
  <2>1. pipe \in Seq(Tasks)
    BY DEF LocalType
  <2> QED BY <2>1, PipeType
<1> QED BY <1>1, <1>t DEF LocalType, Turned, OthersStay, Finish, Labels

-----------------------------------------------------------------------------
\* Records.

LEMMA ChangedAppType ==
  ASSUME NEW o \in Requests, NEW r \in AppRecord, o.word \in {"update", "set_deployment"}
  PROVE  ChangedApp(o, r) \in AppRecord
<1>1. CASE o.word = "set_deployment"
  <2>1. o.deployment \in Deployments
    BY <1>1, RequestFields
  <2> QED BY <1>1, <2>1 DEF ChangedApp, AppRecord
<1>2. CASE o.word = "update"
  <2>1. o.value \in Sources
    BY <1>2, RequestFields
  <2> QED BY <1>2, <2>1 DEF ChangedApp, AppRecord
<1> QED BY <1>1, <1>2

LEMMA FreshType ==
  ASSUME NEW tls \in BOOLEAN
  PROVE  Fresh(tls) \in DepRecord
BY DEF Fresh, DepRecord

LEMMA ChangedDepType ==
  ASSUME NEW o \in Requests, NEW r \in DepRecord
  PROVE  ChangedDep(o, r) \in DepRecord
<1>1. CASE o.word = "publish"
  <2>1. o.app \in Apps /\ o.domain \in Domains
    BY <1>1, RequestFields DEF PublishWords
  <2> QED BY <1>1, <2>1 DEF ChangedDep, DepRecord
<1>2. CASE o.word = "unpublish"
  <2>1. o.domain \in Domains
    BY <1>2, RequestFields DEF PublishWords
  <2> QED BY <1>2, <2>1 DEF ChangedDep, DepRecord
<1>3. CASE o.word \notin {"publish", "unpublish"}
  BY <1>3 DEF ChangedDep, DepRecord
<1> QED BY <1>1, <1>2, <1>3

\* What get_default answers was there, or is the deployment named 'local'.
LEMMA DefaultOfType ==
  ASSUME NEW store \in DepStore, NEW named
  PROVE  /\ DefaultOf(store, named) \in Deployments
         /\ store[DefaultOf(store, named)] = None => DefaultOf(store, named) = Local
<1>1. DOMAIN store = Deployments /\ Existing(store) \subseteq Deployments
      /\ \A d \in Existing(store) : store[d] # None
  BY DEF DepStore, Existing
<1>2. CASE named \in Existing(store)
  BY <1>1, <1>2 DEF DefaultOf
<1>3. CASE named \notin Existing(store) /\ Existing(store) # {}
  <2>1. (CHOOSE d \in Existing(store) : TRUE) \in Existing(store)
    BY <1>3
  <2> QED BY <1>1, <1>3, <2>1 DEF DefaultOf
<1>4. CASE named \notin Existing(store) /\ Existing(store) = {}
  BY <1>4, RegistryAssumption DEF DefaultOf
<1> QED BY <1>2, <1>3, <1>4

-----------------------------------------------------------------------------
\* The steps of a task, one by one.

State == LocalType /\ StoreType /\ Shapes

\* Task k makes a turn and the state is of its type again.
GoodTurn(k) == State' /\ Turned(k)

LEMMA GoodEnd ==
  ASSUME State, NEW k \in Tasks, NEW outcome \in {"ok", "failed"}, Finish(k, outcome),
         pc[k] \notin {"new", "done"},
         pipe' = pipe \/ (pipe # <<>> /\ pipe' = Tail(pipe)),
         todo' = todo \/ \E T \in SUBSET todo[k] : todo' = [todo EXCEPT ![k] = T],
         StoreType'
  PROVE  GoodTurn(k)
<1>1. LocalType' /\ Turned(k) /\ pc'[k] = "done" /\ at' = at /\ listed' = listed /\ todo'[k] \subseteq todo[k]
  <2>1. todo'[k] \subseteq todo[k]
    BY DEF State, LocalType
  <2> QED BY <2>1, FinishTurn DEF State
<1>2. Shape(k)'
  <2>1. Shape(k)
    BY DEF State, Shapes
  <2>2. op'[k] \in Requests /\ op'[k].word \in WordsAt("done")
    BY <1>1, <2>1, RequestFields DEF Shape, ShapeOf, WordsAt, Turned
  <2> QED BY <1>1, <2>1, <2>2 DEF Shape, ShapeOf, Turned
<1>3. Shapes'
  BY <1>1, <1>2, ShapesStep DEF State, Turned
<1> QED BY <1>1, <1>3 DEF GoodTurn, State

LEMMA GoodReturn ==
  ASSUME State, NEW k \in Tasks, NEW label, Turn(k, label), label \notin {"new", "done"},
         NEW outcome \in {"ok", "failed"}, Return(k, outcome), StoreType'
  PROVE  GoodTurn(k)
BY GoodEnd DEF Return, Turn

LEMMA GoodRefusesApp ==
  ASSUME State, NEW k \in Tasks, RefusesApp(k)
  PROVE  GoodTurn(k)
<1>1. StoreType'
  BY DEF RefusesApp, State, StoreType, stores
<1> QED BY <1>1, GoodReturn DEF RefusesApp

LEMMA GoodTakesApp ==
  ASSUME State, NEW k \in Tasks, TakesApp(k)
  PROVE  GoodTurn(k)
<1> DEFINE o == op[k]
           r == applications[o.app]
<1>1. /\ Turn(k, "get app") /\ pc[k] = "get app" /\ LocalType /\ Shape(k)
      /\ UNCHANGED <<applications, deployments, default, rec, all, todo>>
  BY DEF TakesApp, Turn, stores, State, Shapes
<1>2. StoreType'
  BY <1>1 DEF State, StoreType
<1>3. o \in Requests /\ o.word \in AppWords \cup PublishWords \cup {"start"} /\ o.app \in Apps
  BY <1>1, RequestFields DEF Shape, ShapeOf, WordsAt
<1>4. r \in AppRecord \cup {None}
  BY <1>3 DEF State, StoreType, AppStore
<1>a. CASE o.word = "init" /\ r = None
  <2> DEFINE new == [deployment |-> o.deployment, source |-> o.value]
  <2>1. new \in AppRecord
    BY <1>3, <1>a, RequestFields DEF AppRecord
  <2>2. Await(k, "validate") /\ app' = [app EXCEPT ![k] = new] /\ at' = at
    BY <1>a DEF TakesApp, AppWords, PublishWords
  <2>3. LocalType' /\ Turned(k) /\ pc'[k] = "validate" /\ listed' = listed /\ todo'[k] \subseteq todo[k]
    BY <1>1, <2>1, <2>2, AskTurn DEF Labels
  <2>4. Shape(k)'
    BY <1>1, <1>3, <1>a, <2>1, <2>2, <2>3 DEF Shape, ShapeOf, WordsAt, Turned, LocalType, DepWords, MachineWords, PublishWords
  <2> QED BY <1>2, <2>3, <2>4, ShapesStep DEF GoodTurn, State, Turned
<1>b. CASE o.word = "update" /\ r # None
  <2>1. ChangedApp(o, r) \in AppRecord
    BY <1>3, <1>4, <1>b, ChangedAppType
  <2>2. Await(k, "validate") /\ app' = [app EXCEPT ![k] = ChangedApp(o, r)] /\ at' = at
    BY <1>b DEF TakesApp, AppWords, PublishWords
  <2>3. LocalType' /\ Turned(k) /\ pc'[k] = "validate" /\ listed' = listed /\ todo'[k] \subseteq todo[k]
    BY <1>1, <2>1, <2>2, AskTurn DEF Labels
  <2>4. Shape(k)'
    BY <1>1, <1>3, <1>b, <2>1, <2>2, <2>3 DEF Shape, ShapeOf, WordsAt, Turned, LocalType, DepWords, MachineWords, PublishWords
  <2> QED BY <1>2, <2>3, <2>4, ShapesStep DEF GoodTurn, State, Turned
<1>c. CASE o.word = "set_deployment" /\ r # None
  <2>1. ChangedApp(o, r) \in AppRecord
    BY <1>3, <1>4, <1>c, ChangedAppType
  <2>2. Ask(k, "put app") /\ app' = [app EXCEPT ![k] = ChangedApp(o, r)] /\ at' = at
    BY <1>c DEF TakesApp, AppWords, PublishWords
  <2>3. LocalType' /\ Turned(k) /\ pc'[k] = "put app" /\ listed' = listed /\ todo'[k] \subseteq todo[k]
    BY <1>1, <2>1, <2>2, AskTurn DEF Labels
  <2>4. Shape(k)'
    BY <1>1, <1>3, <1>c, <2>1, <2>2, <2>3 DEF Shape, ShapeOf, WordsAt, Turned, LocalType, DepWords, MachineWords, PublishWords
  <2> QED BY <1>2, <2>3, <2>4, ShapesStep DEF GoodTurn, State, Turned
<1>d. CASE o.word = "remove" /\ r # None
  <2>1. Await(k, "destroy") /\ app' = app /\ at' = at
    BY <1>d DEF TakesApp, AppWords, PublishWords
  <2>2. LocalType' /\ Turned(k) /\ pc'[k] = "destroy" /\ listed' = listed /\ todo'[k] \subseteq todo[k]
    BY <1>1, <2>1, AskTurn DEF Labels
  <2>3. Shape(k)'
    BY <1>1, <1>3, <1>d, <2>1, <2>2 DEF Shape, ShapeOf, WordsAt, Turned, DepWords, MachineWords, PublishWords
  <2> QED BY <1>2, <2>2, <2>3, ShapesStep DEF GoodTurn, State, Turned
<1>e. CASE o.word = "start" /\ r # None
  <2>1. Await(k, "launch") /\ app' = app /\ at' = at
    BY <1>e DEF TakesApp, AppWords, PublishWords
  <2>2. LocalType' /\ Turned(k) /\ pc'[k] = "launch" /\ listed' = listed /\ todo'[k] \subseteq todo[k]
    BY <1>1, <2>1, AskTurn DEF Labels
  <2>3. Shape(k)'
    BY <1>1, <1>3, <1>e, <2>1, <2>2 DEF Shape, ShapeOf, WordsAt, Turned, DepWords, MachineWords, PublishWords
  <2> QED BY <1>2, <2>2, <2>3, ShapesStep DEF GoodTurn, State, Turned
<1>f. CASE o.word \in PublishWords /\ r # None
  <2>0. r.deployment \in Deployments \cup {None}
    BY <1>4, <1>f DEF AppRecord
  <2>1. /\ Ask(k, IF r.deployment = None THEN "all deps" ELSE "get dep")
        /\ app' = app /\ at' = [at EXCEPT ![k] = r.deployment]
    BY <1>f DEF TakesApp, PublishWords
  <2>x. CASE r.deployment = None
    <3>1. pc' = [pc EXCEPT ![k] = "all deps"] /\ op' = op /\ result' = result /\ before' = before
          /\ up' = up /\ listed' = listed /\ pipe' = Append(Tail(pipe), k)
      BY <2>1, <2>x DEF Ask
    <3>2. LocalType'
      BY <1>1, <2>0, <2>1, <3>1, PipeType DEF LocalType, Labels, Turn
    <3>3. Turned(k) /\ pc'[k] = "all deps"
      BY <1>1, <2>1, <3>1 DEF LocalType, Turned, OthersStay
    <3>5. at'[k] = None
      BY <1>1, <2>1, <2>x DEF LocalType
    <3>4. Shape(k)'
      BY <1>1, <1>3, <1>f, <3>1, <3>3, <3>5 DEF Shape, ShapeOf, WordsAt, DepWords, PublishWords, MachineWords
    <3> QED BY <1>2, <3>2, <3>3, <3>4, ShapesStep DEF GoodTurn, State, Turned
  <2>y. CASE r.deployment # None
    <3>1. Ask(k, "get dep") /\ \E d \in Deployments : at' = [at EXCEPT ![k] = d]
      BY <2>0, <2>1, <2>y
    <3>2. LocalType' /\ Turned(k) /\ pc'[k] = "get dep" /\ listed' = listed /\ todo'[k] \subseteq todo[k]
      BY <1>1, <2>1, <3>1, AskTurn DEF Labels
    <3>3. at'[k] \in Deployments
      BY <1>1, <2>0, <2>1, <2>y DEF LocalType
    <3>4. Shape(k)'
      BY <1>1, <1>3, <1>f, <3>2, <3>3 DEF Shape, ShapeOf, WordsAt, DepWords, PublishWords, MachineWords, Turned
    <3> QED BY <1>2, <3>2, <3>4, ShapesStep DEF GoodTurn, State, Turned
  <2> QED BY <2>x, <2>y
<1> QED BY <1>a, <1>b, <1>c, <1>d, <1>e, <1>f DEF TakesApp

LEMMA GoodGoes ==
  ASSUME State, NEW k \in Tasks, NEW from, NEW label \in Labels \ {"new", "done"},
         pc[k] = from, from \notin {"new", "done"},
         pc' = [pc EXCEPT ![k] = label],
         UNCHANGED <<stores, up, op, held, listed, result, before>>,
         pipe' \in Seq(Tasks),
         Shape(k)'
  PROVE  GoodTurn(k)
<1>1. LocalType' /\ Turned(k) /\ StoreType'
  BY DEF State, LocalType, StoreType, Turned, OthersStay, stores, held
<1> QED BY <1>1, ShapesStep DEF GoodTurn, State, Turned

LEMMA GoodResume ==
  ASSUME State, NEW k \in Tasks, Validated(k) \/ Destroyed(k)
  PROVE  GoodTurn(k)
<1>0. Shape(k) /\ pipe \in Seq(Tasks) /\ pc \in [Tasks -> Labels]
  BY DEF State, Shapes, LocalType
<1>1. Append(pipe, k) \in Seq(Tasks)
  BY <1>0, PipeType
<1>a. CASE Validated(k)
  <2>1. Shape(k)'
    BY <1>0, <1>a DEF Validated, Resume, Shape, ShapeOf, WordsAt, held, DepWords, MachineWords, PublishWords
  <2> QED BY <1>1, <1>a, <2>1, GoodGoes DEF Validated, Resume, Labels
<1>b. CASE Destroyed(k)
  <2>1. Shape(k)'
    BY <1>0, <1>b DEF Destroyed, Resume, Shape, ShapeOf, WordsAt, held, DepWords, MachineWords, PublishWords
  <2> QED BY <1>1, <1>b, <2>1, GoodGoes DEF Destroyed, Resume, Labels
<1> QED BY <1>a, <1>b

\* A task that asks for the deployment of a machine.
LEMMA MachineShape ==
  ASSUME NEW k \in Tasks, op' = op, op[k] \in Requests, op[k].word \in MachineWords,
         pc'[k] = "get dep", at'[k] \in Deployments, at'[k] \in todo'[k], todo'[k] \subseteq listed'[k]
  PROVE  Shape(k)'
BY WordKinds DEF Shape, ShapeOf, WordsAt, DepWords, MachineWords, PublishWords

LEMMA GoodPutApp ==
  ASSUME State, NEW k \in Tasks, PutApp(k)
  PROVE  GoodTurn(k)
<1>1. /\ Turn(k, "put app") /\ pc[k] = "put app" /\ LocalType /\ Shape(k)
  BY DEF PutApp, Turn, State, Shapes
<1>2. op[k] \in Requests /\ op[k].word \in WordsAt("put app") /\ app[k] \in AppRecord /\ op[k].app \in Apps
  BY <1>1, RequestFields DEF Shape, ShapeOf, WordsAt, AppWords
<1>3. StoreType'
  BY <1>2 DEF PutApp, State, StoreType, AppStore
<1>a. CASE op[k].word = "update"
  <2>1. Await(k, "list") /\ at' = at /\ app' = app /\ rec' = rec /\ all' = all /\ todo' = todo
    BY <1>a DEF PutApp, held
  <2>2. LocalType' /\ Turned(k) /\ pc'[k] = "list" /\ listed' = listed /\ todo'[k] \subseteq todo[k]
    BY <1>1, <2>1, AskTurn DEF Labels
  <2>3. Shape(k)'
    BY <1>1, <1>2, <1>a, <2>1, <2>2 DEF Shape, ShapeOf, WordsAt, Turned, DepWords, PublishWords, MachineWords
  <2> QED BY <1>3, <2>2, <2>3, ShapesStep DEF GoodTurn, State, Turned
<1>b. CASE op[k].word # "update"
  BY <1>1, <1>3, <1>b, GoodReturn DEF PutApp
<1> QED BY <1>a, <1>b

LEMMA GoodDelApp ==
  ASSUME State, NEW k \in Tasks, DelApp(k)
  PROVE  GoodTurn(k)
<1>1. Shape(k) /\ pc[k] = "del app"
  BY DEF DelApp, Turn, State, Shapes
<1>2. op[k].app \in Apps
  BY <1>1, RequestFields DEF Shape, ShapeOf, WordsAt, AppWords
<1>3. StoreType'
  BY <1>2 DEF DelApp, State, StoreType, AppStore
<1> QED BY <1>3, GoodReturn DEF DelApp

LEMMA GoodRefusesDep ==
  ASSUME State, NEW k \in Tasks, RefusesDep(k)
  PROVE  GoodTurn(k)
<1>1. StoreType'
  BY DEF RefusesDep, State, StoreType, stores
<1> QED BY <1>1, GoodReturn DEF RefusesDep, ToChange

\* A task that waits for a deployment works on one that has a name.
LEMMA DepAt ==
  ASSUME State, NEW k \in Tasks,
         pc[k] \in {"get dep", "get dep again", "put dep", "del dep", "set default"}
  PROVE  at[k] \in Deployments /\ op[k] \in Requests /\ op[k].word \in WordsAt(pc[k])
BY DEF State, Shapes, Shape, ShapeOf

\* Turns that ask for the write of the record r.
LEMMA GoodToPut ==
  ASSUME State, NEW k \in Tasks, NEW from, Turn(k, from), from \notin {"new", "done"},
         op[k] \in Requests, op[k].word \in WordsAt("put dep"),
         NEW r \in DepRecord, rec' = [rec EXCEPT ![k] = r],
         Ask(k, "put dep"), at' = at, at[k] \in Deployments,
         UNCHANGED <<stores, app, todo>>,
         op[k].word \in MachineWords => at[k] \in todo[k],
         all' = all \/ all' = [all EXCEPT ![k] = None]
  PROVE  GoodTurn(k)
<1>1. LocalType /\ Shape(k) /\ StoreType'
  BY DEF State, Shapes, StoreType, stores
<1>2. LocalType' /\ Turned(k) /\ pc'[k] = "put dep" /\ listed' = listed /\ todo'[k] \subseteq todo[k]
  BY <1>1, AskTurn DEF Labels
<1>3. rec'[k] = r
  BY <1>1 DEF LocalType
<1>4. Shape(k)'
  BY <1>1, <1>2, <1>3 DEF Shape, ShapeOf, Turned, Turn, MachineWords, PublishWords
<1> QED BY <1>1, <1>2, <1>4, ShapesStep DEF GoodTurn, State, Turned

LEMMA GoodTakesDep ==
  ASSUME State, NEW k \in Tasks, TakesDep(k)
  PROVE  GoodTurn(k)
<1>1. /\ LocalType /\ Shape(k)
      /\ UNCHANGED <<applications, deployments, default, at, app, all, todo>>
  BY DEF TakesDep, stores, State, Shapes
<1>2. PICK from \in {"get dep", "get dep again"} : Turn(k, from) /\ pc[k] = from
  BY DEF TakesDep, ToChange, Turn
<1>3. /\ at[k] \in Deployments /\ op[k] \in Requests /\ op[k].word \in WordsAt("put dep")
      /\ op[k].word \in MachineWords => at[k] \in todo[k]
  BY <1>1, <1>2, DepAt DEF WordsAt, Shape, ShapeOf
<1>4. deployments[at[k]] \in DepRecord \cup {None}
  BY <1>3 DEF State, StoreType, DepStore
<1>a. CASE /\ ToChange(k) /\ deployments[at[k]] # None
           /\ rec' = [rec EXCEPT ![k] = ChangedDep(op[k], deployments[at[k]])]
           /\ Ask(k, "put dep")
  <2>1. ChangedDep(op[k], deployments[at[k]]) \in DepRecord
    BY <1>3, <1>4, <1>a, ChangedDepType
  <2> QED BY <1>1, <1>2, <1>3, <1>a, <2>1, GoodToPut DEF stores
<1>b. CASE /\ Turn(k, "get dep") /\ op[k].word \in MachineWords
           /\ Ask(k, "get dep again") /\ UNCHANGED rec
  <2>1. LocalType' /\ Turned(k) /\ pc'[k] = "get dep again" /\ listed' = listed /\ todo'[k] \subseteq todo[k]
    BY <1>1, <1>b, AskTurn DEF Labels
  <2>2. StoreType'
    BY <1>1 DEF State, StoreType
  <2>3. Shape(k)'
    BY <1>1, <1>2, <1>3, <1>b, <2>1 DEF Shape, ShapeOf, WordsAt, Turned, MachineWords, PublishWords
  <2> QED BY <2>1, <2>2, <2>3, ShapesStep DEF GoodTurn, State, Turned
<1>c. CASE /\ Turn(k, "get dep") /\ op[k].word \in MachineWords
           /\ rec' = [rec EXCEPT ![k] = ChangedDep(op[k], Fresh(TRUE))]
           /\ Ask(k, "put dep")
  <2>1. ChangedDep(op[k], Fresh(TRUE)) \in DepRecord
    BY <1>3, FreshType, ChangedDepType
  <2> QED BY <1>1, <1>3, <1>c, <2>1, GoodToPut DEF stores
<1> QED BY <1>a, <1>b, <1>c DEF TakesDep

LEMMA GoodAllDeps ==
  ASSUME State, NEW k \in Tasks, AllDeps(k)
  PROVE  GoodTurn(k)
<1>1. /\ Turn(k, "all deps") /\ pc[k] = "all deps" /\ LocalType /\ Shape(k) /\ deployments \in DepStore
      /\ Ask(k, "get default") /\ UNCHANGED <<applications, deployments, default, at, app, rec, todo>>
      /\ all' = [all EXCEPT ![k] = deployments]
  BY DEF AllDeps, Turn, stores, State, Shapes, StoreType
<1>2. StoreType'
  BY <1>1 DEF State, StoreType
<1>3. LocalType' /\ Turned(k) /\ pc'[k] = "get default" /\ listed' = listed /\ todo'[k] \subseteq todo[k]
  BY <1>1, AskTurn DEF Labels
<1>4. all'[k] = deployments
  BY <1>1 DEF LocalType
<1>5. Shape(k)'
  BY <1>1, <1>3, <1>4 DEF Shape, ShapeOf, WordsAt, Turned, MachineWords, PublishWords
<1> QED BY <1>2, <1>3, <1>5, ShapesStep DEF GoodTurn, State, Turned

\* What get_default gives to publish and unpublish.
DefaultRecord(k, d) == IF all[k][d] = None THEN Fresh(FALSE) ELSE all[k][d]

LEMMA GoodTakesDefault ==
  ASSUME State, NEW k \in Tasks, TakesDefault(k)
  PROVE  GoodTurn(k)
<1> DEFINE d == DefaultOf(all[k], default)
           r == ChangedDep(op[k], DefaultRecord(k, d))
<1>1. /\ Turn(k, "get default") /\ pc[k] = "get default" /\ LocalType /\ Shape(k)
      /\ UNCHANGED <<applications, deployments, default, app, todo>>
      /\ at' = [at EXCEPT ![k] = d] /\ rec' = [rec EXCEPT ![k] = r]
      /\ all' = [all EXCEPT ![k] = None] /\ Ask(k, "put dep")
  BY DEF TakesDefault, Turn, stores, State, Shapes, DefaultRecord
<1>2. all[k] \in DepStore /\ op[k] \in Requests /\ op[k].word \in PublishWords
  BY <1>1 DEF Shape, ShapeOf, TakesDefault
<1>3. d \in Deployments
  BY <1>2, DefaultOfType
<1>4. DefaultRecord(k, d) \in DepRecord
  BY <1>2, <1>3, FreshType DEF DepStore, DefaultRecord
<1>5. r \in DepRecord
  BY <1>2, <1>4, ChangedDepType
<1> HIDE DEF r, d
<1>6. LocalType' /\ Turned(k) /\ pc'[k] = "put dep" /\ listed' = listed /\ todo'[k] \subseteq todo[k]
  BY <1>1, <1>3, <1>5, AskTurn DEF Labels
<1>7. rec'[k] = r /\ at'[k] = d
  BY <1>1 DEF LocalType
<1>8. Shape(k)'
  BY <1>1, <1>2, <1>3, <1>5, <1>6, <1>7 DEF Shape, ShapeOf, WordsAt, Turned, PublishWords, DepWords, MachineWords
<1>9. StoreType'
  BY <1>1 DEF State, StoreType
<1> QED BY <1>6, <1>8, <1>9, ShapesStep DEF GoodTurn, State, Turned

LEMMA GoodCountsDeps ==
  ASSUME State, NEW k \in Tasks, CountsDeps(k)
  PROVE  GoodTurn(k)
<1>1. /\ Turn(k, "get default") /\ pc[k] = "get default" /\ LocalType /\ Shape(k)
      /\ op[k].word = "deployment_create"
  BY DEF CountsDeps, Turn, State, Shapes
<1>2. StoreType'
  BY DEF CountsDeps, State, StoreType, stores
<1>3. op[k] \in Requests /\ at[k] \in Deployments
  BY <1>1, RequestFields DEF Shape, ShapeOf, DepWords
<1>a. CASE Ask(k, "set default") /\ UNCHANGED held
  <2>1. LocalType' /\ Turned(k) /\ pc'[k] = "set default" /\ listed' = listed /\ todo'[k] \subseteq todo[k]
    BY <1>1, <1>a, AskTurn DEF Labels, held
  <2>2. Shape(k)'
    BY <1>1, <1>3, <1>a, <2>1 DEF Shape, ShapeOf, WordsAt, Turned, held, MachineWords, PublishWords
  <2> QED BY <1>2, <2>1, <2>2, ShapesStep DEF GoodTurn, State, Turned
<1>b. CASE Return(k, "ok")
  BY <1>1, <1>2, <1>b, GoodReturn
<1> QED BY <1>a, <1>b DEF CountsDeps

\* From one machine to the next, or to the end.
LEMMA GoodNextMachine ==
  ASSUME State, NEW k \in Tasks, Turn(k, "put dep"), op[k].word \in MachineWords, NextMachine(k), StoreType'
  PROVE  GoodTurn(k)
<1> DEFINE rest == todo[k] \ {at[k]}
<1>0. /\ LocalType /\ Shape(k) /\ pc[k] = "put dep" /\ pipe # <<>> /\ op[k] \in Requests
      /\ todo[k] \subseteq Machines /\ todo[k] \subseteq listed[k]
  BY DEF State, Shapes, Turn, Shape, ShapeOf, LocalType
<1>1. todo' = [todo EXCEPT ![k] = rest] /\ rest \in SUBSET todo[k] /\ todo'[k] = rest
  BY <1>0 DEF NextMachine, LocalType
<1>2. CASE \E outcome \in {"ok", "failed"} : Finish(k, outcome) /\ pipe' = Tail(pipe)
  BY <1>0, <1>1, <1>2, GoodEnd
<1>3. CASE /\ \E d \in rest : at' = [at EXCEPT ![k] = d]
           /\ Ask(k, "get dep")
           /\ UNCHANGED <<app, rec, all>>
  <2>1. PICK d \in rest : at' = [at EXCEPT ![k] = d]
    BY <1>3
  <2>2. d \in Deployments /\ at'[k] = d
    BY <1>0, <2>1, RegistryAssumption DEF LocalType
  <2>3. LocalType' /\ Turned(k) /\ pc'[k] = "get dep" /\ listed' = listed
    BY <1>0, <1>1, <1>3, <2>1, <2>2, AskTurn DEF Labels
  <2>4. Shape(k)'
    BY <1>0, <1>1, <2>2, <2>3, MachineShape DEF Turned, MachineWords, PublishWords
  <2> QED BY <2>3, <2>4, ShapesStep DEF GoodTurn, State, Turned
<1> QED BY <1>2, <1>3 DEF NextMachine

LEMMA GoodPutDep ==
  ASSUME State, NEW k \in Tasks, PutDep(k)
  PROVE  GoodTurn(k)
<1>1. /\ Turn(k, "put dep") /\ pc[k] = "put dep" /\ LocalType /\ Shape(k)
  BY DEF PutDep, Turn, State, Shapes
<1>2. /\ op[k] \in Requests /\ at[k] \in Deployments /\ rec[k] \in DepRecord
      /\ op[k].word \in WordsAt("put dep")
  BY <1>1 DEF Shape, ShapeOf
<1>3. StoreType'
  BY <1>2 DEF PutDep, State, StoreType, DepStore
<1>a. CASE op[k].word \in PublishWords
  <2>1. Await(k, "plugins") /\ UNCHANGED held
    BY <1>a DEF PutDep, PublishWords, MachineWords
  <2>2. LocalType' /\ Turned(k) /\ pc'[k] = "plugins" /\ listed' = listed /\ todo'[k] \subseteq todo[k]
    BY <1>1, <2>1, AskTurn DEF Labels, held
  <2>3. Shape(k)'
    BY <1>1, <1>2, <1>a, <2>1, <2>2 DEF Shape, ShapeOf, WordsAt, Turned, held, MachineWords, PublishWords
  <2> QED BY <1>3, <2>2, <2>3, ShapesStep DEF GoodTurn, State, Turned
<1>b. CASE op[k].word = "deployment_create"
  <2>1. Ask(k, "all deps") /\ UNCHANGED held
    BY <1>b DEF PutDep, PublishWords, MachineWords
  <2>2. LocalType' /\ Turned(k) /\ pc'[k] = "all deps" /\ listed' = listed /\ todo'[k] \subseteq todo[k]
    BY <1>1, <2>1, AskTurn DEF Labels, held
  <2>3. Shape(k)'
    BY <1>1, <1>2, <1>b, <2>1, <2>2 DEF Shape, ShapeOf, WordsAt, Turned, held, MachineWords, PublishWords
  <2> QED BY <1>3, <2>2, <2>3, ShapesStep DEF GoodTurn, State, Turned
<1>c. CASE op[k].word = "deployment_update"
  <2>1. Return(k, "ok")
    BY <1>c DEF PutDep, PublishWords, MachineWords
  <2> QED BY <1>1, <1>3, <2>1, GoodReturn
<1>d. CASE op[k].word \in MachineWords
  <2>1. NextMachine(k)
    BY <1>d DEF PutDep, PublishWords, MachineWords
  <2> QED BY <1>1, <1>2, <1>3, <1>d, <2>1, GoodNextMachine
<1> QED BY <1>2, <1>a, <1>b, <1>c, <1>d DEF WordsAt

LEMMA GoodDelDep ==
  ASSUME State, NEW k \in Tasks, DelDep(k)
  PROVE  GoodTurn(k)
<1>1. at[k] \in Deployments
  BY DepAt DEF DelDep, Turn
<1>2. StoreType'
  BY <1>1 DEF DelDep, State, StoreType, DepStore
<1> QED BY <1>2, GoodReturn DEF DelDep

LEMMA GoodSetDefault ==
  ASSUME State, NEW k \in Tasks, SetDefault(k)
  PROVE  GoodTurn(k)
<1>1. at[k] \in Deployments
  BY DepAt DEF SetDefault, Turn
<1>2. StoreType'
  BY <1>1 DEF SetDefault, State, StoreType
<1> QED BY <1>2, GoodReturn DEF SetDefault

LEMMA GoodLeave ==
  ASSUME State, NEW k \in Tasks, NEW from, from \notin {"new", "done"},
         NEW outcome \in {"ok", "failed"}, Leave(k, from, outcome)
  PROVE  GoodTurn(k)
<1>1. StoreType'
  BY DEF Leave, stores, State, StoreType
<1> QED BY <1>1, GoodEnd DEF Leave

\* The machines are listed.
LEMMA GoodSyncs ==
  ASSUME State, NEW k \in Tasks, NEW from \in {"machine", "plugins"}, Syncs(k, from),
         op[k].word \in MachineWords
  PROVE  GoodTurn(k)
<1>0. /\ LocalType /\ Shape(k) /\ pc[k] = from /\ op[k] \in Requests
  BY DEF State, Shapes, Syncs, Leave, Shape, ShapeOf
<1>1. CASE \E outcome \in {"ok", "failed"} : Leave(k, from, outcome)
  BY <1>1, GoodLeave
<1>2. ASSUME NEW S \in SUBSET Machines, NEW d \in S,
             /\ pc' = [pc EXCEPT ![k] = "get dep"]
             /\ pipe' = Append(pipe, k)
             /\ listed' = [listed EXCEPT ![k] = S]
             /\ todo' = [todo EXCEPT ![k] = S]
             /\ at' = [at EXCEPT ![k] = d]
             /\ UNCHANGED <<stores, up, op, app, rec, all, result, before>>
      PROVE  GoodTurn(k)
  <2>1. d \in Deployments /\ StoreType' /\ pipe' \in Seq(Tasks)
    BY <1>0, <1>2, PipeType, RegistryAssumption DEF State, StoreType, stores, LocalType
  <2>2. /\ LocalType' /\ pc'[k] = "get dep" /\ at'[k] = d /\ listed'[k] = S /\ todo'[k] = S
    BY <1>0, <1>2, <2>1 DEF LocalType, Labels
  <2>3. Turned(k)
    BY <1>0, <1>2, <2>2 DEF LocalType, Turned, OthersStay
  <2>4. Shape(k)'
    BY <1>0, <1>2, <2>1, <2>2, MachineShape DEF Turned
  <2> QED BY <2>1, <2>2, <2>3, <2>4, ShapesStep DEF GoodTurn, State, Turned
<1> QED BY <1>1, <1>2 DEF Syncs

LEMMA GoodMachineEnds ==
  ASSUME State, NEW k \in Tasks, MachineEnds(k)
  PROVE  GoodTurn(k)
<1>1. pc[k] = "machine"
  BY DEF MachineEnds, Syncs, Leave
<1>2. op[k].word \in MachineWords
  BY <1>1 DEF State, Shapes, Shape, ShapeOf, WordsAt, MachineWords
<1> QED BY <1>2, GoodSyncs DEF MachineEnds

LEMMA GoodTail ==
  ASSUME State, NEW k \in Tasks, Launched(k) \/ Notified(k) \/ Listed(k) \/ Fails(k)
  PROVE  GoodTurn(k)
<1>0. Shape(k) /\ pipe \in Seq(Tasks) /\ pc \in [Tasks -> Labels]
  BY DEF State, Shapes, LocalType
<1>a. CASE Launched(k)
  <2>1. Shape(k)'
    BY <1>0, <1>a DEF Launched, Goes, Shape, ShapeOf, WordsAt, held, DepWords, ReadWords, PublishWords, MachineWords
  <2> QED BY <1>0, <1>a, <2>1, GoodGoes DEF Launched, Goes, Labels
<1>b. CASE Goes(k, "plugins", "list") /\ op[k].word \in PublishWords
  <2>1. Shape(k)'
    BY <1>0, <1>b DEF Goes, Shape, ShapeOf, WordsAt, held, MachineWords, PublishWords
  <2> QED BY <1>0, <1>b, <2>1, GoodGoes DEF Goes, Labels
<1>c. CASE Leave(k, "plugins", "ok")
  BY <1>c, GoodLeave
<1>s. CASE Syncs(k, "plugins") /\ op[k].word = "setup"
  BY <1>s, GoodSyncs DEF MachineWords
<1>d. CASE Listed(k)
  BY <1>d, GoodLeave DEF Listed
<1>e. CASE Fails(k)
  BY <1>e, GoodLeave DEF Fails
<1> QED BY <1>a, <1>b, <1>c, <1>d, <1>e, <1>s DEF Notified

\* Every step of a task that has begun is a turn of that task.
TaskStep(k) ==
  AppStep(k) \/ DepStep(k) \/ Launched(k) \/ Notified(k) \/ Listed(k) \/ Fails(k)

LEMMA TaskStepGood ==
  ASSUME State, NEW k \in Tasks, TaskStep(k)
  PROVE  GoodTurn(k)
<1>1. CASE AppStep(k)
  BY <1>1, GoodRefusesApp, GoodTakesApp, GoodResume, GoodPutApp, GoodDelApp DEF AppStep
<1>2. CASE DepStep(k)
  BY <1>2, GoodMachineEnds, GoodRefusesDep, GoodTakesDep, GoodAllDeps, GoodTakesDefault, GoodCountsDeps,
     GoodPutDep, GoodDelDep, GoodSetDefault DEF DepStep
<1>3. CASE Launched(k) \/ Notified(k) \/ Listed(k) \/ Fails(k)
  BY <1>3, GoodTail
<1> QED BY <1>1, <1>2, <1>3 DEF TaskStep

-----------------------------------------------------------------------------
\* The beginning of a task, and what ends several.

LEMMA BeginGood ==
  ASSUME State, NEW k \in Tasks, NEW o \in Requests, Begin(k, o)
  PROVE  /\ State' /\ OthersStay(k)
         /\ pc[k] = "new" /\ pc'[k] \notin {"new", "done"} /\ op'[k] = o /\ before'[k] = Ended
<1>0. LocalType /\ Shape(k) /\ pc[k] = "new" /\ FirstLabel(o.word) \in Labels \ {"new", "done"}
  BY DEF State, Shapes, Begin, FirstLabel, Labels
<1>1. o.deployment \in Deployments \cup {None}
  BY RequestFields
<1>2. (IF o.word = "deployment_create" THEN Fresh(o.value = "tls") ELSE None) \in DepRecord \cup {None}
  BY FreshType
<1>3. pipe' \in Seq(Tasks)
  BY <1>0, PipeType DEF Begin, LocalType
<1>4. Ended \subseteq Tasks
  BY DEF Ended
<1>5. /\ op' = [op EXCEPT ![k] = o]
      /\ pc' = [pc EXCEPT ![k] = FirstLabel(o.word)]
      /\ at' = [at EXCEPT ![k] = o.deployment]
      /\ rec' = [rec EXCEPT ![k] = IF o.word = "deployment_create" THEN Fresh(o.value = "tls") ELSE None]
      /\ before' = [before EXCEPT ![k] = Ended]
      /\ up' = TRUE
      /\ UNCHANGED <<applications, deployments, default, app, all, listed, todo, result>>
  BY DEF Begin, stores
<1>6. LocalType' /\ StoreType'
  BY <1>0, <1>1, <1>2, <1>3, <1>4, <1>5 DEF LocalType, State, StoreType
<1>7. /\ pc'[k] = FirstLabel(o.word) /\ op'[k] = o /\ at'[k] = o.deployment /\ before'[k] = Ended
      /\ o.word = "deployment_create" => rec'[k] \in DepRecord
  BY <1>0, <1>5, FreshType DEF LocalType
<1>8. OthersStay(k)
  BY <1>0, <1>5 DEF LocalType, OthersStay
<1>9. o.word \in WordsAt(FirstLabel(o.word))
  BY RequestFields DEF WordsAt, FirstLabel, AppWords, PublishWords, DepWords, MachineWords, ReadWords
<1>10. Shape(k)'
  <2>1. /\ FirstLabel(o.word) \in {"get app", "plugins", "put dep", "get dep", "del dep", "machine", "set default"}
        /\ FirstLabel(o.word) = "put dep" => o.word = "deployment_create"
        /\ FirstLabel(o.word) = "get dep" => o.word = "deployment_update"
        /\ FirstLabel(o.word) = "del dep" => o.word = "deployment_remove"
        /\ FirstLabel(o.word) = "set default" => o.word = "deployment_set_default"
        /\ FirstLabel(o.word) = "plugins" => o.word = "setup"
    BY RequestFields DEF FirstLabel, AppWords, PublishWords, DepWords, MachineWords, ReadWords
  <2>2. /\ o.word \in {"deployment_set_default"} \cup DepWords => o.deployment \in Deployments
        /\ o.word \in PublishWords => o.deployment = None
    BY RequestFields
  <2>3. listed'[k] = {} /\ todo'[k] = {}
    BY <1>0, <1>5 DEF Shape, ShapeOf
  <2> QED BY <1>7, <1>9, <2>1, <2>2, <2>3 DEF Shape, ShapeOf, DepWords, PublishWords, MachineWords
<1> QED BY <1>0, <1>6, <1>7, <1>8, <1>10, ShapesStep DEF State

LEMMA AbandonGood ==
  ASSUME State, NEW S, NEW outcome \in {"failed", "lost"}, Abandon(S, outcome), up' \in BOOLEAN,
         \A k \in Tasks : k \in S => pc[k] # "new"
  PROVE  State'
<1>1. StoreType'
  BY DEF Abandon, State, StoreType, stores
<1>t. LocalType'
  <2>1. LocalType
    BY DEF State
  <2>2. pipe' \in Seq(Tasks)
    BY DEF Abandon
  <2>3. pc' \in [Tasks -> Labels] /\ result' \in [Tasks -> {"none", "ok", "failed", "lost"}]
    BY <2>1 DEF Abandon, LocalType, Labels
  <2>4. /\ app' \in [Tasks -> AppRecord \cup {None}] /\ rec' \in [Tasks -> DepRecord \cup {None}]
        /\ all' \in [Tasks -> DepStore \cup {None}]
    BY <2>1 DEF Abandon, LocalType
  <2>5. UNCHANGED <<op, at, listed, todo, before>>
    BY DEF Abandon
  <2> QED BY <2>1, <2>2, <2>3, <2>4, <2>5 DEF LocalType
<1>2. ASSUME NEW k \in Tasks PROVE Shape(k)'
  <2>1. Shape(k)
    BY DEF State, Shapes
  <2>2. CASE k \in S
    <3>1. /\ pc'[k] = "done" /\ op'[k] = op[k] /\ at'[k] = at[k] /\ pc[k] # "new"
          /\ listed'[k] = listed[k] /\ todo'[k] = todo[k]
      BY <2>2 DEF Abandon
    <3>2. op[k] \in Requests /\ op[k].word \in WordsAt("done")
      BY <2>1, <3>1, RequestFields DEF Shape, ShapeOf, WordsAt
    <3> QED BY <2>1, <3>1, <3>2 DEF Shape, ShapeOf
  <2>3. CASE k \notin S
    BY <2>1, <2>3 DEF Shape, Abandon
  <2> QED BY <2>2, <2>3
<1> QED BY <1>1, <1>t, <1>2 DEF State, Shapes

LEMMA InterruptGood ==
  ASSUME State, RedisLost \/ Crash
  PROVE  State'
<1>1. up' \in BOOLEAN
  BY DEF RedisLost, Crash, State, LocalType
<1> QED BY <1>1, AbandonGood DEF RedisLost, Crash, Active

-----------------------------------------------------------------------------
\* Types.

LEMMA InitState == Init => State
<1> SUFFICES ASSUME Init PROVE State
  OBVIOUS
<1>1. StoreType
  BY RegistryAssumption DEF Init, StoreType
<1>2. LocalType
  BY DEF Init, LocalType, Labels
<1>3. Shapes
  BY DEF Init, Shapes, Shape, ShapeOf
<1> QED BY <1>1, <1>2, <1>3 DEF State

LEMMA NextState == State /\ [Next]_vars => State'
<1> SUFFICES ASSUME State, [Next]_vars PROVE State'
  OBVIOUS
<1>1. ASSUME NEW k \in Tasks, NEW o \in Requests, Begin(k, o) PROVE State'
  BY <1>1, BeginGood
<1>2. ASSUME NEW k \in Tasks, TaskStep(k) PROVE State'
  BY <1>2, TaskStepGood DEF GoodTurn
<1>3. CASE RedisLost \/ Crash
  BY <1>3, InterruptGood
<1>4. CASE UNCHANGED vars
  BY <1>4 DEF vars, stores, held, State, LocalType, StoreType, Shapes, Shape
<1> QED BY <1>1, <1>2, <1>3, <1>4 DEF Next, TaskStep

\* The state keeps its types, whatever tasks are asked for and however they end:
\* in particular a task that writes a record holds one, and works on a deployment
\* that has a name.
THEOREM RegistryTypes == Spec => []TypeOK
<1>1. State => TypeOK
  BY TypeParts DEF State
<1> QED BY <1>1, InitState, NextState, PTL DEF Spec

-----------------------------------------------------------------------------
\* What a step does to the registry.

\* Task k writes at most one record: the one its words are about.
WritesOwn(k) ==
  /\ \/ applications' = applications
     \/ /\ op[k].word \in AppWords
        /\ \E r \in AppRecord \cup {None} : applications' = [applications EXCEPT ![op[k].app] = r]
  /\ \/ deployments' = deployments
     \/ /\ at[k] \in Deployments /\ k \in DepWriters(at[k])
        /\ \E r \in DepRecord \cup {None} : deployments' = [deployments EXCEPT ![at[k]] = r]

LEMMA TaskWritesOwn ==
  ASSUME State, NEW k \in Tasks, TaskStep(k)
  PROVE  WritesOwn(k)
<1>0. Shape(k)
  BY DEF State, Shapes
<1>1. CASE PutApp(k)
  <2>1. op[k].word \in WordsAt("put app") /\ app[k] \in AppRecord
    BY <1>0, <1>1 DEF PutApp, Turn, Shape, ShapeOf
  <2> QED BY <1>1, <2>1 DEF PutApp, WritesOwn, WordsAt, AppWords
<1>2. CASE DelApp(k)
  <2>1. op[k].word \in WordsAt("del app")
    BY <1>0, <1>2 DEF DelApp, Turn, Shape, ShapeOf
  <2> QED BY <1>2, <2>1 DEF DelApp, WritesOwn, WordsAt, AppWords
<1>3. CASE PutDep(k)
  <2>1. op[k].word \in WordsAt("put dep") /\ rec[k] \in DepRecord /\ at[k] \in Deployments
    BY <1>0, <1>3 DEF PutDep, Turn, Shape, ShapeOf
  <2>2. k \in DepWriters(at[k])
    BY <1>0, <1>3, <2>1 DEF PutDep, Turn, Shape, ShapeOf, DepWriters, Asked, Begun, WordsAt, DepWords
  <2> QED BY <1>3, <2>1, <2>2 DEF PutDep, WritesOwn
<1>4. CASE DelDep(k)
  <2>1. op[k].word \in WordsAt("del dep") /\ at[k] \in Deployments
    BY <1>0, <1>4 DEF DelDep, Turn, Shape, ShapeOf
  <2>2. k \in DepWriters(at[k])
    BY <1>0, <1>4, <2>1 DEF DelDep, Turn, Shape, ShapeOf, DepWriters, Asked, Begun, WordsAt, DepWords
  <2> QED BY <1>4, <2>1, <2>2 DEF DelDep, WritesOwn
<1>5. CASE ~(PutApp(k) \/ DelApp(k) \/ PutDep(k) \/ DelDep(k))
  <2>1. applications' = applications /\ deployments' = deployments
    BY <1>5 DEF TaskStep, AppStep, DepStep, RefusesApp, TakesApp, Validated, Destroyed, Resume,
       MachineEnds, Syncs, RefusesDep, TakesDep, AllDeps, TakesDefault, CountsDeps, SetDefault,
       Launched, Notified, Listed, Fails, Goes, Leave, stores
  <2> QED BY <2>1 DEF WritesOwn
<1> QED BY <1>1, <1>2, <1>3, <1>4, <1>5

-----------------------------------------------------------------------------
\* Where values come from.  Copies that tasks hold are given as the registry is.
Provenance ==
  /\ \A a \in Apps : applications[a] # None => Given(a, applications[a])
  /\ \A d \in Deployments : deployments[d] # None => GivenDep(d, deployments[d])
  /\ default # None =>
        \/ default \in StartDefaults
        \/ \E k \in Asked({"deployment_set_default", "deployment_create"}) :
              op[k].deployment = default
  /\ \A k \in Tasks : pc[k] \in {"validate", "put app"} => Given(op[k].app, app[k])
  /\ \A k \in Tasks : pc[k] = "put dep" => GivenDep(at[k], rec[k])
  /\ \A k \in Tasks : pc[k] = "get default" =>
        \A d \in Deployments : all[k][d] # None => GivenDep(d, all[k][d])

\* Who was asked for something stays asked for it.
Grows ==
  \A j \in Tasks : Begun(j) => Begun(j)' /\ op'[j] = op[j] /\ listed[j] \subseteq listed'[j]

LEMMA GivenGrows ==
  ASSUME Grows, NEW a \in Apps, NEW r, Given(a, r)
  PROVE  Given(a, r)'
<1>1. \A words : Asked(words) \subseteq Asked(words)'
  BY DEF Grows, Asked
<1>2. AppWriters(a) \subseteq AppWriters(a)' /\ \A j \in AppWriters(a) : op'[j] = op[j]
  BY <1>1 DEF Grows, AppWriters, Asked
<1>3. FromInit(a) \subseteq FromInit(a)'
  BY <1>1, <1>2 DEF FromInit
<1> QED BY <1>2, <1>3 DEF Given

LEMMA GivenDepGrows ==
  ASSUME Grows, NEW d \in Deployments, NEW r, GivenDep(d, r)
  PROVE  GivenDep(d, r)'
<1>1. \A words : /\ Asked(words) \subseteq Asked(words)'
                 /\ \A j \in Asked(words) : op'[j] = op[j] /\ listed[j] \subseteq listed'[j]
  BY DEF Grows, Asked
<1> QED BY <1>1 DEF GivenDep

\* What a machine task was listed, it was listed once; a publish finds its deployment once.
LEMMA FindsOnce ==
  ASSUME State, NEW k \in Tasks, TaskStep(k)
  PROVE  /\ listed[k] \subseteq listed'[k]
         /\ op[k].word \in PublishWords /\ at[k] \in Deployments => at'[k] = at[k]
<1>0. Shape(k) /\ None \notin Deployments
  BY RegistryAssumption DEF State, Shapes
<1>1. CASE TakesApp(k) \/ TakesDefault(k)
  <2>1. op[k].word \in PublishWords => (at[k] = None \/ at' = at)
    BY <1>0, <1>1 DEF TakesApp, TakesDefault, Turn, Shape, ShapeOf
  <2>2. listed' = listed
    BY <1>1 DEF TakesApp, TakesDefault, Ask, Await
  <2> QED BY <1>0, <2>1, <2>2
<1>2. CASE MachineEnds(k) \/ Notified(k)
  <2>1. CASE UNCHANGED <<listed, at>>
    BY <2>1
  <2>2. CASE \E from \in {"machine", "plugins"} :
               /\ pc[k] = from /\ op[k].word \in MachineWords
               /\ from = "plugins" => op[k].word = "setup"
    <3>1. listed[k] = {}
      BY <1>0, <2>2 DEF Shape, ShapeOf
    <3> QED BY <2>2, <3>1, WordKinds
  <2> QED BY <1>0, <1>2, <2>1, <2>2 DEF MachineEnds, Notified, Syncs, Goes, Leave, Finish, held,
          Shape, ShapeOf, WordsAt, MachineWords
<1>3. CASE PutDep(k)
  <2>1. op[k].word \in WordsAt("put dep")
    BY <1>0, <1>3 DEF PutDep, Turn, Shape, ShapeOf
  <2>2. op[k].word \in MachineWords \/ at' = at
    BY <1>3, <2>1 DEF PutDep, WordsAt, held, Return, Finish
  <2>3. listed' = listed
    BY <1>3 DEF PutDep, NextMachine, Ask, Await, Return, Finish
  <2> QED BY <2>2, <2>3, WordKinds
<1>4. CASE ~(TakesApp(k) \/ TakesDefault(k) \/ MachineEnds(k) \/ Notified(k) \/ PutDep(k))
  <2>1. UNCHANGED <<listed, at>>
    <3>1. CASE AppStep(k)
      BY <1>4, <3>1 DEF AppStep, RefusesApp, Validated, Destroyed, PutApp, DelApp, Resume, Ask, Await,
         Return, Finish, held
    <3>2. CASE DepStep(k)
      BY <1>4, <3>2 DEF DepStep, RefusesDep, TakesDep, AllDeps, CountsDeps, DelDep, SetDefault, Ask, Await,
         Return, Finish, held
    <3>3. CASE Launched(k) \/ Listed(k) \/ Fails(k)
      BY <1>4, <3>3 DEF Launched, Listed, Fails, Goes, Leave, Finish, held
    <3> QED BY <1>4, <3>1, <3>2, <3>3 DEF TaskStep
  <2> QED BY <2>1
<1> QED BY <1>1, <1>2, <1>3, <1>4

LEMMA TurnGrows ==
  ASSUME State, NEW k \in Tasks, TaskStep(k)
  PROVE  Grows
<1>1. Turned(k)
  BY TaskStepGood DEF GoodTurn
<1> QED BY <1>1, FindsOnce DEF Turned, OthersStay, Grows, Begun

\* Which steps read a record, by what the task waits for afterwards.
LEMMA WhoReads ==
  ASSUME State, NEW k \in Tasks, TaskStep(k)
  PROVE  /\ pc'[k] \in {"validate", "put app"} => TakesApp(k) \/ Validated(k)
         /\ pc'[k] = "put dep" => TakesDep(k) \/ TakesDefault(k)
         /\ pc'[k] = "get default" => AllDeps(k)
<1>0. pc \in [Tasks -> Labels]
  BY DEF State, LocalType
<1>1. CASE AppStep(k)
  BY <1>0, <1>1 DEF AppStep, RefusesApp, TakesApp, Validated, Destroyed, PutApp, DelApp, Resume,
     Ask, Await, Return, Finish
<1>2. CASE DepStep(k)
  BY <1>0, <1>2 DEF DepStep, MachineEnds, Syncs, RefusesDep, TakesDep, AllDeps, TakesDefault, CountsDeps,
     PutDep, NextMachine, DelDep, SetDefault, Leave, Ask, Await, Return, Finish
<1>3. CASE Launched(k) \/ Notified(k) \/ Listed(k) \/ Fails(k)
  BY <1>0, <1>3 DEF Launched, Notified, Syncs, Listed, Fails, Goes, Leave, Finish
<1> QED BY <1>1, <1>2, <1>3 DEF TaskStep

\* Which steps write, and what.
LEMMA WhoWrites ==
  ASSUME State, NEW k \in Tasks, TaskStep(k)
  PROVE  /\ applications' # applications => PutApp(k) \/ DelApp(k)
         /\ deployments' # deployments => PutDep(k) \/ DelDep(k)
         /\ default' # default => SetDefault(k)
BY DEF TaskStep, AppStep, DepStep, RefusesApp, TakesApp, Validated, Destroyed, Resume,
   MachineEnds, Syncs, RefusesDep, TakesDep, AllDeps, TakesDefault, CountsDeps, SetDefault,
   PutApp, DelApp, PutDep, DelDep, Launched, Notified, Listed, Fails, Goes, Leave, stores

\* A change gives what the request says, and nothing else.
LEMMA ChangedAppGiven ==
  ASSUME State, NEW k \in Tasks, Begun(k), op[k].word \in {"update", "set_deployment"},
         op[k].app \in Apps, NEW r \in AppRecord, Given(op[k].app, r), op[k] \in Requests
  PROVE  Given(op[k].app, ChangedApp(op[k], r))
<1>1. k \in AppWriters(op[k].app)
  BY DEF AppWriters, Asked, AppWords
<1>2. ChangedApp(op[k], r).source = r.source \/ (op[k].word = "update" /\ ChangedApp(op[k], r).source = op[k].value)
  BY DEF ChangedApp, AppRecord
<1>3. \/ ChangedApp(op[k], r).deployment = r.deployment
      \/ op[k].word = "set_deployment" /\ ChangedApp(op[k], r).deployment = op[k].deployment
  BY DEF ChangedApp, AppRecord
<1> QED BY <1>1, <1>2, <1>3 DEF Given

LEMMA ChangedDepGiven ==
  ASSUME NEW k \in Tasks, Begun(k), op[k] \in Requests, NEW d \in Deployments,
         NEW r \in DepRecord, GivenDep(d, r)
  PROVE  GivenDep(d, ChangedDep(op[k], r))
<1> DEFINE c == ChangedDep(op[k], r)
<1>1. ASSUME NEW x \in Domains
      PROVE  \/ c.exports[x] = r.exports[x] \/ c.exports[x] = None
             \/ op[k].word = "publish" /\ op[k].domain = x /\ c.exports[x] = op[k].app
  BY DEF ChangedDep, DepRecord
<1>2. op[k].word = "publish" => k \in Asked({"publish"})
  BY DEF Asked
<1> HIDE DEF c
<1>3. GivenDep(d, c)
  BY <1>1, <1>2 DEF GivenDep
<1> QED BY <1>3 DEF c

LEMMA FreshGiven ==
  ASSUME NEW d \in Deployments, NEW tls,
         \/ \E k \in Asked({"deployment_create"}) : op[k].deployment = d
         \/ \E k \in Asked(MachineWords) : d \in listed[k]
         \/ d = Local /\ Asked(PublishWords) # {}
  PROVE  GivenDep(d, Fresh(tls))
BY DEF GivenDep, Fresh

LEMMA ProvenanceTask ==
  ASSUME State, Provenance, NEW k \in Tasks, TaskStep(k)
  PROVE  Provenance'
<1>0. /\ GoodTurn(k) /\ Grows /\ LocalType /\ Shape(k) /\ Shape(k)' /\ op' = op /\ pc[k] # "new" /\ Begun(k)
      /\ applications \in AppStore /\ deployments \in DepStore /\ pc'[k] # "new"
  BY TaskStepGood, TurnGrows DEF GoodTurn, State, Turned, Shapes, StoreType, Begun
<1>1. ASSUME NEW a \in Apps, applications'[a] # None PROVE Given(a, applications[a])'
  <2>1. CASE applications' = applications
    BY <1>0, <1>1, <2>1, GivenGrows DEF Provenance
  <2>2. CASE PutApp(k)
    <3>1. Given(op[k].app, app[k]) /\ applications' = [applications EXCEPT ![op[k].app] = app[k]]
      BY <2>2 DEF PutApp, Turn, Provenance
    <3>2. \/ a = op[k].app /\ applications'[a] = app[k]
          \/ applications'[a] = applications[a]
      BY <1>0, <3>1 DEF AppStore
    <3> QED BY <1>0, <1>1, <3>1, <3>2, GivenGrows DEF Provenance
  <2>3. CASE DelApp(k)
    <3>1. applications'[a] = applications[a]
      BY <1>0, <1>1, <2>3 DEF DelApp, AppStore
    <3> QED BY <1>0, <1>1, <3>1, GivenGrows DEF Provenance
  <2> QED BY <2>1, <2>2, <2>3, WhoWrites
<1>2. ASSUME NEW d \in Deployments, deployments'[d] # None PROVE GivenDep(d, deployments[d])'
  <2>1. CASE deployments' = deployments
    BY <1>0, <1>2, <2>1, GivenDepGrows DEF Provenance
  <2>2. CASE PutDep(k)
    <3>1. GivenDep(at[k], rec[k]) /\ deployments' = [deployments EXCEPT ![at[k]] = rec[k]]
      BY <2>2 DEF PutDep, Turn, Provenance
    <3>2. \/ d = at[k] /\ deployments'[d] = rec[k]
          \/ deployments'[d] = deployments[d]
      BY <1>0, <3>1 DEF DepStore
    <3> QED BY <1>0, <1>2, <3>1, <3>2, GivenDepGrows DEF Provenance
  <2>3. CASE DelDep(k)
    <3>1. deployments'[d] = deployments[d]
      BY <1>0, <1>2, <2>3 DEF DelDep, DepStore
    <3> QED BY <1>0, <1>2, <3>1, GivenDepGrows DEF Provenance
  <2> QED BY <2>1, <2>2, <2>3, WhoWrites
<1>3. \/ default' = None \/ default' \in StartDefaults
      \/ \E j \in Asked({"deployment_set_default", "deployment_create"})' : op'[j].deployment = default'
  <2>1. CASE default' = default
    <3>1. Asked({"deployment_set_default", "deployment_create"}) \subseteq
            Asked({"deployment_set_default", "deployment_create"})'
      BY <1>0 DEF Grows, Asked
    <3> QED BY <1>0, <2>1, <3>1 DEF Provenance
  <2>2. CASE SetDefault(k)
    <3>1. op[k].word \in WordsAt("set default") /\ default' = at[k]
      BY <1>0, <2>2 DEF SetDefault, Turn, Shape, ShapeOf
    <3>2. at[k] = op[k].deployment
      BY <1>0, <3>1 DEF Shape, ShapeOf, WordsAt, DepWords
    <3>3. k \in Asked({"deployment_set_default", "deployment_create"})'
      BY <1>0, <3>1 DEF Asked, Begun, WordsAt
    <3> QED BY <1>0, <3>1, <3>2, <3>3
  <2> QED BY <2>1, <2>2, WhoWrites
<1>4. ASSUME NEW j \in Tasks, j # k
      PROVE  /\ pc'[j] \in {"validate", "put app"} => Given(op[j].app, app[j])'
             /\ pc'[j] = "put dep" => GivenDep(at[j], rec[j])'
             /\ pc'[j] = "get default" =>
                  \A d \in Deployments : all'[j][d] # None => GivenDep(d, all[j][d])'
  <2>1. /\ pc'[j] = pc[j] /\ op'[j] = op[j] /\ at'[j] = at[j] /\ app'[j] = app[j]
        /\ rec'[j] = rec[j] /\ all'[j] = all[j] /\ Shape(j)
    BY <1>0, <1>4 DEF GoodTurn, Turned, OthersStay, State, Shapes
  <2>2. pc[j] \in {"validate", "put app"} => op[j].app \in Apps
    BY <2>1, RequestFields DEF Shape, ShapeOf, WordsAt, AppWords
  <2>3. pc[j] = "put dep" => at[j] \in Deployments
    BY <2>1 DEF Shape, ShapeOf
  <2> QED BY <1>0, <2>1, <2>2, <2>3, GivenGrows, GivenDepGrows DEF Provenance
<1>5. ASSUME pc'[k] \in {"validate", "put app"} PROVE Given(op[k].app, app[k])'
  <2>1. op[k] \in Requests /\ op[k].app \in Apps
    BY <1>0, <1>5, RequestFields DEF Shape, ShapeOf, WordsAt, AppWords
  <2>2. Given(op[k].app, app'[k])
    <3>1. CASE Validated(k)
      BY <3>1 DEF Validated, Resume, held, Provenance
    <3>2. CASE TakesApp(k) /\ op[k].word = "init"
      <4>1. app' = [app EXCEPT ![k] = [deployment |-> op[k].deployment, source |-> op[k].value]]
        BY <3>2 DEF TakesApp, PublishWords
      <4>2. app'[k] = [deployment |-> op[k].deployment, source |-> op[k].value]
        BY <1>0, <4>1 DEF LocalType
      <4>3. app'[k].deployment = op[k].deployment /\ app'[k].source = op[k].value
        BY <4>2
      <4>4. k \in AppWriters(op[k].app) /\ k \in FromInit(op[k].app)
        BY <1>0, <3>2 DEF AppWriters, FromInit, Asked, AppWords
      <4> QED BY <3>2, <4>3, <4>4 DEF Given
    <3>3. CASE TakesApp(k) /\ op[k].word \in {"update", "set_deployment"}
      <4> DEFINE r == applications[op[k].app]
      <4>1. r # None /\ app' = [app EXCEPT ![k] = ChangedApp(op[k], r)]
        BY <3>3 DEF TakesApp, PublishWords
      <4>2. app'[k] = ChangedApp(op[k], r) /\ r \in AppRecord
        BY <1>0, <2>1, <4>1 DEF LocalType, AppStore
      <4>3. Given(op[k].app, r)
        BY <2>1, <4>1 DEF Provenance
      <4> QED BY <1>0, <2>1, <3>3, <4>2, <4>3, ChangedAppGiven
    <3>4. TakesApp(k) => op[k].word \in {"init", "update", "set_deployment"}
      BY <1>0, <1>5 DEF TakesApp, Ask, Await, LocalType
    <3> QED BY <1>5, <3>1, <3>2, <3>3, <3>4, WhoReads
  <2> QED BY <1>0, <2>1, <2>2, GivenGrows
<1>6. ASSUME pc'[k] = "put dep" PROVE GivenDep(at[k], rec[k])'
  <2>1. op[k] \in Requests
    BY <1>0 DEF Shape, ShapeOf
  <2>2. at'[k] \in Deployments /\ GivenDep(at'[k], rec'[k])
    <3>1. CASE TakesDep(k)
      <4>1. at' = at /\ at[k] \in Deployments
        BY <1>0, <1>6, <3>1 DEF TakesDep, Shape, ShapeOf
      <4> DEFINE r == deployments[at[k]]
      <4>2. \/ r # None /\ rec' = [rec EXCEPT ![k] = ChangedDep(op[k], r)]
            \/ /\ pc[k] = "get dep" /\ op[k].word \in MachineWords
               /\ rec' = [rec EXCEPT ![k] = ChangedDep(op[k], Fresh(TRUE))]
        BY <1>0, <1>6, <3>1 DEF TakesDep, Turn, Ask, LocalType
      <4>3. CASE r # None /\ rec' = [rec EXCEPT ![k] = ChangedDep(op[k], r)]
        <5>1. GivenDep(at[k], r) /\ r \in DepRecord
          BY <1>0, <4>1, <4>3 DEF Provenance, DepStore
        <5>2. rec'[k] = ChangedDep(op[k], r)
          BY <1>0, <4>3 DEF LocalType
        <5> QED BY <1>0, <2>1, <4>1, <5>1, <5>2, ChangedDepGiven
      <4>4. CASE /\ pc[k] = "get dep" /\ op[k].word \in MachineWords
                 /\ rec' = [rec EXCEPT ![k] = ChangedDep(op[k], Fresh(TRUE))]
        <5>1. at[k] \in listed[k] /\ k \in Asked(MachineWords)
          BY <1>0, <4>4 DEF Shape, ShapeOf, Asked
        <5>2. GivenDep(at[k], Fresh(TRUE)) /\ Fresh(TRUE) \in DepRecord
          BY <4>1, <5>1, FreshGiven, FreshType
        <5>3. rec'[k] = ChangedDep(op[k], Fresh(TRUE))
          BY <1>0, <4>4 DEF LocalType
        <5> QED BY <1>0, <2>1, <4>1, <5>2, <5>3, ChangedDepGiven
      <4> QED BY <4>2, <4>3, <4>4
    <3>2. CASE TakesDefault(k)
      <4> DEFINE d == DefaultOf(all[k], default)
      <4>1. /\ at' = [at EXCEPT ![k] = d] /\ op[k].word \in PublishWords /\ pc[k] = "get default"
            /\ rec' = [rec EXCEPT ![k] = ChangedDep(op[k], DefaultRecord(k, d))]
        BY <3>2 DEF TakesDefault, Turn, DefaultRecord
      <4>2. all[k] \in DepStore
        BY <1>0, <4>1 DEF Shape, ShapeOf
      <4>3. d \in Deployments /\ (all[k][d] = None => d = Local)
        BY <4>2, DefaultOfType
      <4>4. at'[k] = d /\ rec'[k] = ChangedDep(op[k], DefaultRecord(k, d))
        BY <1>0, <4>1 DEF LocalType
      <4> HIDE DEF d
      <4>5. k \in Asked(PublishWords)
        BY <1>0, <4>1 DEF Asked
      <4>6. GivenDep(d, DefaultRecord(k, d)) /\ DefaultRecord(k, d) \in DepRecord
        BY <4>1, <4>2, <4>3, <4>5, FreshGiven, FreshType DEF DefaultRecord, Provenance, DepStore
      <4> QED BY <1>0, <2>1, <4>3, <4>4, <4>6, ChangedDepGiven
    <3> QED BY <1>6, <3>1, <3>2, WhoReads
  <2> QED BY <1>0, <2>2, GivenDepGrows
<1>7. ASSUME pc'[k] = "get default", NEW d \in Deployments, all'[k][d] # None
      PROVE  GivenDep(d, all[k][d])'
  <2>1. AllDeps(k)
    BY <1>7, WhoReads
  <2>2. all'[k] = deployments
    BY <1>0, <2>1 DEF AllDeps, LocalType
  <2> QED BY <1>0, <1>7, <2>2, GivenDepGrows DEF Provenance
<1> QED BY <1>1, <1>2, <1>3, <1>4, <1>5, <1>6, <1>7 DEF Provenance

\* A step that leaves the registry alone and lets the tasks that go on keep what
\* they hold keeps the provenance, whatever begins or ends.
LEMMA ProvenanceKept ==
  ASSUME State, Provenance, Grows, UNCHANGED stores,
         \A j \in Tasks :
            \/ pc'[j] \notin {"validate", "put app", "put dep", "get default"}
            \/ /\ pc'[j] = pc[j] /\ op'[j] = op[j] /\ at'[j] = at[j] /\ app'[j] = app[j]
               /\ rec'[j] = rec[j] /\ all'[j] = all[j]
            \/ pc'[j] = "put dep" /\ at'[j] \in Deployments /\ GivenDep(at[j], rec[j])'
  PROVE  Provenance'
<1>1. /\ applications \in AppStore /\ deployments \in DepStore
      /\ applications' = applications /\ deployments' = deployments /\ default' = default
  BY DEF State, StoreType, stores
<1>2. ASSUME NEW a \in Apps, applications'[a] # None PROVE Given(a, applications[a])'
  BY <1>1, <1>2, GivenGrows DEF Provenance
<1>3. ASSUME NEW d \in Deployments, deployments'[d] # None PROVE GivenDep(d, deployments[d])'
  BY <1>1, <1>3, GivenDepGrows DEF Provenance
<1>4. \/ default' = None \/ default' \in StartDefaults
      \/ \E j \in Asked({"deployment_set_default", "deployment_create"})' : op'[j].deployment = default'
  <2>1. /\ Asked({"deployment_set_default", "deployment_create"}) \subseteq
             Asked({"deployment_set_default", "deployment_create"})'
        /\ \A j \in Asked({"deployment_set_default", "deployment_create"}) : op'[j] = op[j]
    BY DEF Grows, Asked
  <2> QED BY <1>1, <2>1 DEF Provenance
<1>5. ASSUME NEW j \in Tasks
      PROVE  /\ pc'[j] \in {"validate", "put app"} => Given(op[j].app, app[j])'
             /\ pc'[j] = "put dep" => GivenDep(at[j], rec[j])'
             /\ pc'[j] = "get default" =>
                  \A d \in Deployments : all'[j][d] # None => GivenDep(d, all[j][d])'
  <2>1. Shape(j)
    BY DEF State, Shapes
  <2>2. pc[j] \in {"validate", "put app"} => op[j].app \in Apps
    BY <2>1, RequestFields DEF Shape, ShapeOf, WordsAt, AppWords
  <2>3. pc[j] = "put dep" => at[j] \in Deployments
    BY <2>1 DEF Shape, ShapeOf
  <2> QED BY <2>2, <2>3, GivenGrows, GivenDepGrows DEF Provenance
<1> QED BY <1>2, <1>3, <1>4, <1>5 DEF Provenance

LEMMA ProvenanceBegin ==
  ASSUME State, Provenance, NEW k \in Tasks, NEW o \in Requests, Begin(k, o)
  PROVE  Provenance'
<1>1. /\ State' /\ OthersStay(k) /\ pc[k] = "new" /\ pc'[k] \notin {"new", "done"}
      /\ op'[k] = o /\ UNCHANGED stores
  BY BeginGood DEF Begin
<1>2. Grows
  BY <1>1 DEF OthersStay, Grows, Begun
<1>3. /\ pc'[k] = FirstLabel(o.word) /\ at'[k] = o.deployment
      /\ rec'[k] = IF o.word = "deployment_create" THEN Fresh(o.value = "tls") ELSE None
  BY DEF Begin, State, LocalType
<1>4. CASE o.word # "deployment_create"
  <2>1. pc'[k] \notin {"validate", "put app", "put dep", "get default"}
    BY <1>3, <1>4, RequestFields DEF FirstLabel, AppWords, PublishWords, DepWords, MachineWords, ReadWords
  <2> QED BY <1>1, <1>2, <2>1, ProvenanceKept DEF OthersStay
<1>5. CASE o.word = "deployment_create"
  <2>1. pc'[k] = "put dep" /\ at'[k] = o.deployment /\ o.deployment \in Deployments
    BY <1>3, <1>5, RequestFields DEF FirstLabel, AppWords, PublishWords, DepWords, ReadWords
  <2>2. rec'[k] = Fresh(o.value = "tls")
    BY <1>3, <1>5
  <2>3. k \in Asked({"deployment_create"})' /\ op'[k].deployment = at'[k]
    BY <1>1, <1>5, <2>1 DEF Asked, Begun
  <2>4. GivenDep(at[k], rec[k])'
    BY <2>2, <2>3 DEF GivenDep, Fresh
  <2> QED BY <1>1, <1>2, <2>1, <2>4, ProvenanceKept DEF OthersStay
<1> QED BY <1>4, <1>5

LEMMA ProvenanceInterrupt ==
  ASSUME State, Provenance, RedisLost \/ Crash
  PROVE  Provenance'
<1>1. PICK S \in SUBSET Active, outcome \in {"failed", "lost"} : Abandon(S, outcome)
  BY DEF RedisLost, Crash
<1>2. Grows
  BY <1>1 DEF Abandon, Active, Grows, Begun
<1>3. \A j \in Tasks :
        \/ pc'[j] = "done"
        \/ /\ pc'[j] = pc[j] /\ op'[j] = op[j] /\ at'[j] = at[j] /\ app'[j] = app[j]
           /\ rec'[j] = rec[j] /\ all'[j] = all[j]
  BY <1>1 DEF Abandon
<1>4. UNCHANGED stores
  BY <1>1 DEF Abandon
<1> QED BY <1>2, <1>3, <1>4, ProvenanceKept

LEMMA InitProvenance == Init => Provenance
<1> SUFFICES ASSUME Init PROVE Provenance
  OBVIOUS
<1>1. ASSUME NEW a \in Apps, applications[a] # None PROVE Given(a, applications[a])
  BY <1>1 DEF Init, Given
<1>2. ASSUME NEW d \in Deployments, deployments[d] # None PROVE GivenDep(d, deployments[d])
  BY <1>2 DEF Init, GivenDep
<1>3. default # None => default \in StartDefaults
  BY DEF Init
<1> QED BY <1>1, <1>2, <1>3 DEF Provenance, Init

LEMMA NextProvenance == State /\ Provenance /\ [Next]_vars => Provenance'
<1> SUFFICES ASSUME State, Provenance, [Next]_vars PROVE Provenance'
  OBVIOUS
<1>1. ASSUME NEW k \in Tasks, NEW o \in Requests, Begin(k, o) PROVE Provenance'
  BY <1>1, ProvenanceBegin
<1>2. ASSUME NEW k \in Tasks, TaskStep(k) PROVE Provenance'
  BY <1>2, ProvenanceTask
<1>3. CASE RedisLost \/ Crash
  BY <1>3, ProvenanceInterrupt
<1>4. CASE UNCHANGED vars
  BY <1>4, ProvenanceKept DEF vars, held, stores, Grows, Begun
<1> QED BY <1>1, <1>2, <1>3, <1>4 DEF Next, TaskStep

\* Nothing appears in the registry that nobody wrote, however many tasks overlap
\* and whatever is lost: the copies that tasks hold come from the registry, and what
\* is changed in them comes from what they were asked.
THEOREM RegistryInventsNothing == Spec => []NothingInvented
<1>1. Provenance => NothingInvented
  BY DEF Provenance, NothingInvented
<1> QED BY <1>1, InitState, NextState, InitProvenance, NextProvenance, PTL DEF Spec

-----------------------------------------------------------------------------
\* What tasks hold, and what they have done, as long as no rival disturbs them.

\* The tasks whose write is done, though they may have more to do.
HasWritten(k) ==
  \/ result[k] = "ok"
  \/ op[k].word = "update" /\ pc[k] = "list"
  \/ op[k].word \in PublishWords /\ pc[k] \in {"plugins", "list"}
  \/ op[k].word = "deployment_create" /\ pc[k] \in {"all deps", "get default", "set default"}

\* The tasks that had ended when k began have ended; only who has ended has a result.
Order(k) ==
  /\ \A j \in before[k] : j \in Tasks /\ pc[j] = "done"
  /\ pc[k] # "done" => result[k] = "none"
  /\ HasWritten(k) /\ op[k].word \in DepWords \cup PublishWords => at[k] \in Deployments

\* A copy about to be written says what was asked.
CopySuits(k) ==
  /\ pc[k] \in {"validate", "put app"} => AppAsAsked(op[k], app[k])
  /\ pc[k] = "put dep" => DepAsAsked(op[k], rec[k])

AppTarget(k) ==
  IF op[k].word = "init" THEN [deployment |-> op[k].deployment, source |-> op[k].value]
  ELSE ChangedApp(op[k], applications[op[k].app])

DepTarget(k) ==
  ChangedDep(op[k], IF deployments[at[k]] # None THEN deployments[at[k]]
                    ELSE Created(op[k]))

\* It is the record as it is now, changed.
AppFresh(k) ==
  pc[k] \in {"validate", "put app"} /\ Undisturbed(k, AppWriters(op[k].app)) => app[k] = AppTarget(k)
DepFresh(k) ==
  pc[k] = "put dep" /\ op[k].word # "deployment_create" /\ Undisturbed(k, DepWriters(at[k]))
  => rec[k] = DepTarget(k)
AllFresh(k) ==
  pc[k] = "get default" /\ op[k].word \in PublishWords =>
    \A d \in Deployments : Undisturbed(k, DepWriters(d)) => all[k][d] = deployments[d]

Facts(k) ==
  Order(k) /\ CopySuits(k) /\ AppFresh(k) /\ DepFresh(k) /\ AllFresh(k)

AllFacts == \A k \in Tasks : Facts(k)

\* A turn may make its task a writer of a deployment, and makes nobody one of an
\* application.
LEMMA MoreWriters ==
  ASSUME State, NEW k \in Tasks, TaskStep(k)
  PROVE  /\ \A a : AppWriters(a)' = AppWriters(a)
         /\ \A d \in Deployments : DepWriters(d) \subseteq DepWriters(d)'
         /\ before' = before
<1>0. Turned(k) /\ at \in [Tasks -> Deployments \cup {None}]
  BY TaskStepGood DEF GoodTurn, State, LocalType
<1>1. \A words : Asked(words)' = Asked(words)
  BY <1>0 DEF Turned, OthersStay, Asked, Begun
<1>2. ASSUME NEW d \in Deployments, NEW j \in DepWriters(d) PROVE j \in DepWriters(d)'
  <2>1. j \in Tasks /\ (j \in Asked(PublishWords) /\ at[j] = d => at'[j] = d) /\ listed[j] \subseteq listed'[j]
    <3>1. j \in Tasks
      BY DEF DepWriters, Asked
    <3>2. CASE j = k
      BY <3>1, <3>2, FindsOnce DEF Asked
    <3>3. CASE j # k
      BY <1>0, <3>1, <3>3 DEF Turned, OthersStay
    <3> QED BY <3>1, <3>2, <3>3
  <2> QED BY <1>0, <1>1, <2>1 DEF DepWriters, Turned
<1> QED BY <1>0, <1>1, <1>2 DEF Turned, AppWriters

\* Whoever is disturbed by nobody finds the records untouched by the others.
LEMMA NotMine ==
  ASSUME State, AllFacts, NEW j \in Tasks, TaskStep(j), NEW k \in Tasks, k # j
  PROVE  /\ \A a \in Apps : Undisturbed(k, AppWriters(a)) => applications'[a] = applications[a]
         /\ \A d \in Deployments : Undisturbed(k, DepWriters(d)) => deployments'[d] = deployments[d]
<1>1. Turned(j) /\ WritesOwn(j) /\ Begun(j) /\ j \notin before[k]
  BY TaskStepGood, TaskWritesOwn DEF GoodTurn, Turned, Begun, AllFacts, Facts, Order
<1>2. ASSUME NEW a \in Apps, Undisturbed(k, AppWriters(a)) PROVE applications'[a] = applications[a]
  <2>1. j \notin AppWriters(a)
    BY <1>1, <1>2 DEF Undisturbed
  <2>2. op[j].word \in AppWords => op[j].app # a
    BY <1>1, <2>1 DEF AppWriters, Asked
  <2> QED BY <1>1, <2>2 DEF WritesOwn, State, StoreType, AppStore
<1>3. ASSUME NEW d \in Deployments, Undisturbed(k, DepWriters(d)) PROVE deployments'[d] = deployments[d]
  <2>1. j \notin DepWriters(d)
    BY <1>1, <1>3 DEF Undisturbed
  <2> QED BY <1>1, <2>1 DEF WritesOwn, State, StoreType, DepStore
<1> QED BY <1>2, <1>3

LEMMA OtherFacts ==
  ASSUME State, AllFacts, NEW j \in Tasks, TaskStep(j), NEW k \in Tasks, k # j
  PROVE  Facts(k)'
<1>0. /\ Turned(j) /\ Shape(k) /\ Facts(k)
      /\ pc'[k] = pc[k] /\ op' = op /\ at'[k] = at[k] /\ app'[k] = app[k]
      /\ rec'[k] = rec[k] /\ all'[k] = all[k] /\ result'[k] = result[k] /\ before' = before
  BY TaskStepGood DEF GoodTurn, Turned, OthersStay, State, Shapes, AllFacts
<1>1. /\ \A a \in Apps : Undisturbed(k, AppWriters(a))' => /\ Undisturbed(k, AppWriters(a))
                                                          /\ applications'[a] = applications[a]
      /\ \A d \in Deployments : Undisturbed(k, DepWriters(d))' => /\ Undisturbed(k, DepWriters(d))
                                                                 /\ deployments'[d] = deployments[d]
  BY <1>0, MoreWriters, NotMine DEF Undisturbed
<1>2. Order(k)'
  <2>1. \A i \in Tasks : pc[i] = "done" => pc'[i] = "done"
    BY <1>0 DEF Turned, OthersStay
  <2> QED BY <1>0, <2>1 DEF Order, Facts, HasWritten
<1>3. CopySuits(k)'
  BY <1>0 DEF Facts, CopySuits, AppAsAsked, DepAsAsked
<1>4. AppFresh(k)'
  <2>1. pc[k] \in {"validate", "put app"} => op[k].app \in Apps
    BY <1>0, RequestFields DEF Shape, ShapeOf, WordsAt, AppWords
  <2> QED BY <1>0, <1>1, <2>1 DEF Facts, AppFresh, AppTarget
<1>5. DepFresh(k)'
  <2>1. pc[k] = "put dep" => at[k] \in Deployments
    BY <1>0 DEF Shape, ShapeOf
  <2> QED BY <1>0, <1>1, <2>1 DEF Facts, DepFresh, DepTarget
<1>6. AllFresh(k)'
  BY <1>0, <1>1 DEF Facts, AllFresh
<1> QED BY <1>2, <1>3, <1>4, <1>5, <1>6 DEF Facts

LEMMA ChangedAppSuits ==
  ASSUME NEW o \in Requests, NEW r \in AppRecord, o.word \in {"update", "set_deployment"}
  PROVE  AppAsAsked(o, ChangedApp(o, r))
BY DEF AppAsAsked, ChangedApp, AppRecord

LEMMA ChangedDepSuits ==
  ASSUME NEW o \in Requests, NEW r \in DepRecord, o.word \in WordsAt("put dep")
  PROVE  DepAsAsked(o, ChangedDep(o, r))
<1>1. CASE o.word \in PublishWords
  <2>1. o.domain \in Domains
    BY <1>1, RequestFields
  <2> QED BY <1>1, <2>1 DEF DepAsAsked, ChangedDep, DepRecord, PublishWords, DepWords, MachineWords
<1>2. CASE o.word \in DepWords \cup MachineWords
  BY <1>2, RequestFields DEF DepAsAsked, ChangedDep, DepRecord, DepWords, MachineWords
<1> QED BY <1>1, <1>2 DEF WordsAt, DepWords

\* Only a write, or what follows one, makes a task one that has written.
LEMMA WhoHasWritten ==
  ASSUME State, AllFacts, NEW k \in Tasks, TaskStep(k), HasWritten(k)',
         op[k].word \in AppWords \cup DepWords \cup PublishWords
  PROVE  \/ PutApp(k) \/ DelApp(k) \/ PutDep(k) \/ DelDep(k)
         \/ /\ HasWritten(k) /\ at'[k] = at[k]
            /\ applications' = applications /\ deployments' = deployments
<1>0. /\ LocalType /\ Shape(k) /\ op' = op /\ result[k] = "none" /\ pc[k] \notin {"new", "done"}
  BY TaskStepGood DEF GoodTurn, Turned, State, Shapes, AllFacts, Facts, Order
<1>1. CASE AppStep(k)
  BY <1>0, <1>1 DEF AppStep, RefusesApp, TakesApp, Validated, Destroyed, Resume, Ask, Await, Return,
     Finish, HasWritten, LocalType, stores, held, Turn, PublishWords
<1>2. CASE RefusesDep(k)
  BY <1>0, <1>2 DEF RefusesDep, ToChange, Return, Finish, HasWritten, LocalType
<1>12. CASE MachineEnds(k)
  <2>1. pc[k] = "machine"
    BY <1>12 DEF MachineEnds, Syncs, Leave
  <2> QED BY <1>0, <2>1, WordKinds DEF Shape, ShapeOf, WordsAt, MachineWords
<1>3. CASE TakesDep(k)
  BY <1>0, <1>3 DEF TakesDep, ToChange, Ask, HasWritten, LocalType, Turn
<1>4. CASE AllDeps(k)
  BY <1>0, <1>4 DEF AllDeps, Ask, HasWritten, LocalType, Turn, stores
<1>5. CASE TakesDefault(k)
  BY <1>0, <1>5 DEF TakesDefault, Ask, HasWritten, LocalType, Turn, PublishWords
<1>6. CASE CountsDeps(k)
  BY <1>0, <1>6 DEF CountsDeps, Ask, Return, Finish, HasWritten, LocalType, Turn, stores, held
<1>7. CASE SetDefault(k)
  <2>1. op[k].word = "deployment_create" /\ pc[k] = "set default"
    BY <1>0, <1>7 DEF SetDefault, Turn, Shape, ShapeOf, WordsAt, AppWords, DepWords, PublishWords
  <2> QED BY <1>7, <2>1 DEF SetDefault, Return, Finish, HasWritten
<1>8. CASE Launched(k)
  <2>1. op[k].word = "start"
    BY <1>0, <1>8 DEF Launched, Goes, Shape, ShapeOf, WordsAt
  <2> QED BY <2>1 DEF AppWords, DepWords, PublishWords
<1>13. CASE Syncs(k, "plugins") /\ op[k].word = "setup"
  BY <1>13, WordKinds DEF MachineWords
<1>9. CASE Notified(k) /\ op[k].word # "setup"
  BY <1>0, <1>9 DEF Notified, Goes, Leave, Finish, HasWritten, LocalType, stores, held, PublishWords,
     ReadWords, AppWords, DepWords
<1>14. Notified(k) => op[k].word # "setup" \/ Syncs(k, "plugins")
  BY DEF Notified, PublishWords, ReadWords
<1>10. CASE Listed(k)
  <2>1. op[k].word \in PublishWords \cup {"update"} /\ pc[k] = "list"
    BY <1>0, <1>10 DEF Listed, Leave, Shape, ShapeOf, WordsAt
  <2> QED BY <1>10, <2>1 DEF Listed, Leave, Finish, HasWritten, stores
<1>11. CASE Fails(k)
  BY <1>0, <1>11 DEF Fails, Leave, Finish, HasWritten, LocalType
<1> QED BY <1>1, <1>2, <1>3, <1>4, <1>5, <1>6, <1>7, <1>8, <1>9, <1>10, <1>11, <1>12, <1>13, <1>14 DEF TaskStep, DepStep

LEMMA OwnOrder ==
  ASSUME State, AllFacts, NEW k \in Tasks, TaskStep(k)
  PROVE  Order(k)'
<1>0. /\ State' /\ Turned(k) /\ Facts(k) /\ LocalType /\ Shape(k)
  BY TaskStepGood DEF GoodTurn, State, Shapes, AllFacts
<1>1. \A j \in before'[k] : j \in Tasks /\ pc'[j] = "done"
  BY <1>0 DEF Turned, OthersStay, Facts, Order
<1>2. pc'[k] # "done" => result'[k] = "none"
  <2>1. result[k] = "none"
    BY <1>0 DEF Turned, Facts, Order
  <2>2. pc'[k] = "done" \/ result' = result
    BY <1>0 DEF TaskStep, AppStep, DepStep, RefusesApp, TakesApp, Validated, Destroyed, PutApp, DelApp,
       MachineEnds, Syncs, RefusesDep, TakesDep, AllDeps, TakesDefault, CountsDeps, PutDep, NextMachine,
       DelDep, SetDefault, Launched, Notified, Listed, Fails, Goes, Leave, Resume, Ask, Await, Return, Finish, LocalType
  <2> QED BY <2>1, <2>2
<1>3. HasWritten(k)' /\ op'[k].word \in DepWords \cup PublishWords => at'[k] \in Deployments
  <2> SUFFICES ASSUME HasWritten(k)', op[k].word \in DepWords \cup PublishWords
               PROVE  at'[k] \in Deployments
    BY <1>0 DEF Turned
  <2>1. CASE PutDep(k) \/ DelDep(k)
    <3>1. at[k] \in Deployments
      BY <2>1, DepAt DEF PutDep, DelDep, Turn
    <3>2. op[k].word \notin MachineWords
      BY WordKinds
    <3> QED BY <2>1, <3>1, <3>2 DEF PutDep, DelDep, held, Await, Ask, Return, Finish
  <2>2. CASE PutApp(k) \/ DelApp(k)
    BY <1>0, <2>2 DEF PutApp, DelApp, Turn, Shape, ShapeOf, WordsAt, DepWords, PublishWords
  <2>3. CASE HasWritten(k) /\ at'[k] = at[k]
    BY <1>0, <2>3 DEF Facts, Order
  <2> QED BY <2>1, <2>2, <2>3, WhoHasWritten
<1> QED BY <1>1, <1>2, <1>3 DEF Order

\* What a task reads is fresh, and it changes it as it was asked.
LEMMA OwnApp ==
  ASSUME State, AllFacts, NEW k \in Tasks, TaskStep(k), pc'[k] \in {"validate", "put app"}
  PROVE  AppAsAsked(op[k], app'[k]) /\ AppFresh(k)'
<1>0. /\ Turned(k) /\ Facts(k) /\ LocalType /\ Shape(k) /\ op' = op /\ Shape(k)'
  BY TaskStepGood DEF GoodTurn, State, Shapes, AllFacts, Turned
<1>1. op[k] \in Requests /\ op[k].word \in WordsAt("put app") /\ op[k].app \in Apps
  BY <1>0, RequestFields DEF Shape, ShapeOf, WordsAt, AppWords
<1>2. Undisturbed(k, AppWriters(op[k].app))' => Undisturbed(k, AppWriters(op[k].app))
  BY <1>0, MoreWriters DEF Undisturbed
<1>3. CASE Validated(k)
  <2>1. pc[k] = "validate" /\ app' = app /\ applications' = applications
    BY <1>3 DEF Validated, Resume, stores, held
  <2>2. AppAsAsked(op[k], app[k]) /\ AppFresh(k)
    BY <1>0, <2>1 DEF Facts, CopySuits
  <2> QED BY <1>0, <1>2, <2>1, <2>2 DEF AppFresh, AppTarget
<1>4. CASE TakesApp(k)
  <2>1. applications' = applications
    BY <1>4 DEF TakesApp, stores
  <2>2. app'[k] = AppTarget(k)
    <3>1. CASE op[k].word = "init"
      BY <1>0, <1>4, <3>1 DEF TakesApp, AppTarget, LocalType, PublishWords
    <3>2. CASE op[k].word \in {"update", "set_deployment"}
      BY <1>0, <1>4, <3>2 DEF TakesApp, AppTarget, LocalType, PublishWords
    <3> QED BY <1>1, <3>1, <3>2 DEF WordsAt
  <2>3. AppAsAsked(op[k], AppTarget(k))
    <3>1. CASE op[k].word = "init"
      BY <3>1 DEF AppTarget, AppAsAsked
    <3>2. CASE op[k].word \in {"update", "set_deployment"}
      <4>1. applications[op[k].app] \in AppRecord
        BY <1>1, <1>4, <3>2 DEF TakesApp, State, StoreType, AppStore, PublishWords
      <4> QED BY <1>1, <3>2, <4>1, ChangedAppSuits DEF AppTarget
    <3> QED BY <1>1, <3>1, <3>2 DEF WordsAt
  <2>4. AppFresh(k)'
    BY <1>0, <2>1, <2>2 DEF AppFresh, AppTarget
  <2> QED BY <2>2, <2>3, <2>4
<1> QED BY <1>3, <1>4, WhoReads

LEMMA OwnDep ==
  ASSUME State, AllFacts, NEW k \in Tasks, TaskStep(k), pc'[k] = "put dep"
  PROVE  DepAsAsked(op[k], rec'[k]) /\ DepFresh(k)'
<1>0. /\ Turned(k) /\ Facts(k) /\ LocalType /\ Shape(k) /\ op' = op /\ Shape(k)'
      /\ deployments \in DepStore
  BY TaskStepGood DEF GoodTurn, State, Shapes, AllFacts, Turned, StoreType
<1>1. op[k] \in Requests /\ op[k].word \in WordsAt("put dep")
  BY <1>0 DEF Shape, ShapeOf
<1>3. CASE TakesDep(k)
  <2>1. /\ deployments' = deployments /\ at' = at /\ at[k] \in Deployments
        /\ pc[k] \in {"get dep", "get dep again"}
    BY <1>0, <1>3 DEF TakesDep, stores, ToChange, Turn, Shape, ShapeOf
  <2>2. PICK r \in DepRecord : /\ rec'[k] = ChangedDep(op[k], r)
                               /\ r = IF deployments[at[k]] # None THEN deployments[at[k]]
                                      ELSE Created(op[k])
    <3>1. CASE deployments[at[k]] # None
      <4>1. rec' = [rec EXCEPT ![k] = ChangedDep(op[k], deployments[at[k]])]
        BY <1>0, <1>3, <3>1 DEF TakesDep, Ask, LocalType
      <4>2. rec'[k] = ChangedDep(op[k], deployments[at[k]]) /\ deployments[at[k]] \in DepRecord
        BY <1>0, <2>1, <3>1, <4>1 DEF LocalType, DepStore
      <4> QED BY <3>1, <4>2
    <3>2. CASE deployments[at[k]] = None
      <4>1. op[k].word \in MachineWords /\ rec' = [rec EXCEPT ![k] = ChangedDep(op[k], Fresh(TRUE))]
        BY <1>0, <1>3, <3>2 DEF TakesDep, Ask, LocalType
      <4>2. rec'[k] = ChangedDep(op[k], Fresh(TRUE)) /\ Fresh(TRUE) \in DepRecord
        BY <1>0, <4>1, FreshType DEF LocalType
      <4>3. Created(op[k]) = Fresh(TRUE)
        BY <4>1 DEF Created
      <4> QED BY <3>2, <4>2, <4>3
    <3> QED BY <3>1, <3>2
  <2>3. DepAsAsked(op[k], rec'[k])
    BY <1>1, <2>2, ChangedDepSuits
  <2>4. DepFresh(k)'
    BY <1>0, <2>1, <2>2 DEF DepFresh, DepTarget
  <2> QED BY <2>3, <2>4
<1>4. CASE TakesDefault(k)
  <2> DEFINE d == DefaultOf(all[k], default)
  <2>1. /\ at' = [at EXCEPT ![k] = d] /\ op[k].word \in PublishWords /\ pc[k] = "get default"
        /\ rec' = [rec EXCEPT ![k] = ChangedDep(op[k], DefaultRecord(k, d))]
        /\ deployments' = deployments
    BY <1>4 DEF TakesDefault, Turn, DefaultRecord, stores
  <2>2. all[k] \in DepStore
    BY <1>0, <2>1 DEF Shape, ShapeOf
  <2>3. d \in Deployments
    BY <2>2, DefaultOfType
  <2>4. at'[k] = d /\ rec'[k] = ChangedDep(op[k], DefaultRecord(k, d))
    BY <1>0, <2>1 DEF LocalType
  <2> HIDE DEF d
  <2>5. DefaultRecord(k, d) \in DepRecord
    BY <2>2, <2>3, FreshType DEF DefaultRecord, DepStore
  <2>6. DepAsAsked(op[k], rec'[k])
    BY <1>1, <2>4, <2>5, ChangedDepSuits
  <2>7. Undisturbed(k, DepWriters(d)) => all[k][d] = deployments[d]
    BY <1>0, <2>1, <2>3 DEF Facts, AllFresh
  <2>8. Undisturbed(k, DepWriters(d)) =>
          rec'[k] = ChangedDep(op[k], IF deployments[d] # None THEN deployments[d] ELSE Fresh(FALSE))
    BY <2>4, <2>7 DEF DefaultRecord
  <2>9. Created(op[k]) = Fresh(FALSE)
    BY <2>1, WordKinds DEF Created
  <2>10. Undisturbed(k, DepWriters(at[k]))' => Undisturbed(k, DepWriters(d))
    BY <1>0, <2>3, <2>4, MoreWriters DEF Undisturbed
  <2>11. DepFresh(k)'
    BY <1>0, <2>1, <2>4, <2>8, <2>9, <2>10 DEF DepFresh, DepTarget
  <2> QED BY <2>6, <2>11
<1> QED BY <1>3, <1>4, WhoReads

LEMMA OwnFacts ==
  ASSUME State, AllFacts, NEW k \in Tasks, TaskStep(k)
  PROVE  Facts(k)'
<1>0. /\ Turned(k) /\ Facts(k) /\ LocalType /\ Shape(k) /\ op' = op /\ State'
      /\ applications \in AppStore /\ deployments \in DepStore
  BY TaskStepGood DEF GoodTurn, State, Shapes, AllFacts, Turned, StoreType
<1>1. Order(k)'
  BY OwnOrder
<1>2. CopySuits(k)'
  BY <1>0, OwnApp, OwnDep DEF CopySuits, AppAsAsked, DepAsAsked
<1>3. AppFresh(k)'
  BY OwnApp DEF AppFresh
<1>4. DepFresh(k)'
  BY OwnDep DEF DepFresh
<1>5. AllFresh(k)'
  <2> SUFFICES ASSUME pc'[k] = "get default" PROVE all'[k] = deployments'
    BY DEF AllFresh
  <2>1. AllDeps(k)
    BY WhoReads
  <2> QED BY <1>0, <2>1 DEF AllDeps, LocalType, stores
<1> QED BY <1>1, <1>2, <1>3, <1>4, <1>5 DEF Facts

\* Beginning a task may add it to the writers, and changes nobody else.
LEMMA BeginAdds ==
  ASSUME State, NEW k \in Tasks, NEW o \in Requests, Begin(k, o)
  PROVE  /\ \A a : AppWriters(a) \subseteq AppWriters(a)'
         /\ \A d : DepWriters(d) \subseteq DepWriters(d)'
         /\ \A a : k \notin AppWriters(a)
         /\ \A d : k \notin DepWriters(d)
<1>0. OthersStay(k) /\ pc[k] = "new"
  BY BeginGood
<1>1. /\ \A words : Asked(words) \subseteq Asked(words)' /\ k \notin Asked(words)
      /\ \A j \in Tasks \ {k} : op'[j] = op[j] /\ at'[j] = at[j] /\ listed'[j] = listed[j]
  BY <1>0 DEF OthersStay, Asked, Begun
<1>2. \A words : Asked(words) \subseteq Tasks \ {k}
  BY <1>1 DEF Asked
<1>3. \A a : AppWriters(a) \subseteq AppWriters(a)' /\ k \notin AppWriters(a)
  BY <1>1, <1>2 DEF AppWriters
<1>4. ASSUME NEW d PROVE DepWriters(d) \subseteq DepWriters(d)' /\ k \notin DepWriters(d)
  BY <1>1, <1>2 DEF DepWriters
<1> QED BY <1>3, <1>4

LEMMA FactsBegin ==
  ASSUME State, AllFacts, NEW k \in Tasks, NEW o \in Requests, Begin(k, o)
  PROVE  AllFacts'
<1>0. /\ State' /\ OthersStay(k) /\ pc[k] = "new" /\ pc'[k] \notin {"new", "done"}
      /\ op'[k] = o /\ before'[k] = Ended /\ result' = result
      /\ applications' = applications /\ deployments' = deployments
  BY BeginGood DEF Begin, stores
<1>1. /\ \A a : AppWriters(a) \subseteq AppWriters(a)'
      /\ \A d : DepWriters(d) \subseteq DepWriters(d)'
  BY BeginAdds
<1>2. \A i \in Tasks : pc[i] = "done" => pc'[i] = "done"
  BY <1>0 DEF OthersStay
<1>3. ASSUME NEW j \in Tasks, j # k PROVE Facts(j)'
  <2>1. /\ Facts(j) /\ pc'[j] = pc[j] /\ op'[j] = op[j] /\ at'[j] = at[j] /\ app'[j] = app[j]
        /\ rec'[j] = rec[j] /\ all'[j] = all[j] /\ result'[j] = result[j] /\ before'[j] = before[j]
    BY <1>0, <1>3 DEF OthersStay, AllFacts
  <2>2. /\ \A a : Undisturbed(j, AppWriters(a))' => Undisturbed(j, AppWriters(a))
        /\ \A d : Undisturbed(j, DepWriters(d))' => Undisturbed(j, DepWriters(d))
    BY <1>1, <2>1 DEF Undisturbed
  <2>3. Order(j)' /\ CopySuits(j)'
    BY <1>2, <2>1 DEF Facts, Order, CopySuits, HasWritten, AppAsAsked, DepAsAsked
  <2>4. AppFresh(j)' /\ DepFresh(j)' /\ AllFresh(j)'
    BY <1>0, <2>1, <2>2 DEF Facts, AppFresh, DepFresh, AllFresh, AppTarget, DepTarget
  <2> QED BY <2>3, <2>4 DEF Facts
<1>4. Facts(k)'
  <2>1. /\ pc'[k] = FirstLabel(o.word)
        /\ rec'[k] = IF o.word = "deployment_create" THEN Fresh(o.value = "tls") ELSE None
        /\ result'[k] = "none"
    BY <1>0 DEF Begin, State, LocalType, AllFacts, Facts, Order
  <2>2. /\ pc'[k] \notin {"validate", "put app", "get default", "list", "all deps"}
        /\ pc'[k] = "put dep" => o.word = "deployment_create"
        /\ pc'[k] = "plugins" => o.word = "setup"
        /\ pc'[k] = "set default" => o.word = "deployment_set_default"
    BY <2>1, RequestFields DEF FirstLabel, AppWords, PublishWords, DepWords, MachineWords, ReadWords
  <2>3. Order(k)'
    BY <1>0, <1>2, <2>1, <2>2 DEF Order, Ended, HasWritten, DepWords, PublishWords
  <2>4. o.word = "deployment_create" => DepAsAsked(o, Fresh(o.value = "tls"))
    BY RequestFields DEF DepAsAsked, Fresh, DepWords, MachineWords
  <2>5. CopySuits(k)'
    BY <1>0, <2>1, <2>2, <2>4 DEF CopySuits, DepAsAsked
  <2>6. AppFresh(k)' /\ DepFresh(k)' /\ AllFresh(k)'
    BY <1>0, <2>2 DEF AppFresh, DepFresh, AllFresh
  <2> QED BY <2>3, <2>5, <2>6 DEF Facts
<1> QED BY <1>3, <1>4 DEF AllFacts

\* Tasks that are cut off have no success to account for.
LEMMA FactsInterrupt ==
  ASSUME State, AllFacts, RedisLost \/ Crash
  PROVE  AllFacts'
<1>1. PICK S \in SUBSET Active, outcome \in {"failed", "lost"} : Abandon(S, outcome)
  BY DEF RedisLost, Crash
<1>2. /\ applications' = applications /\ deployments' = deployments
      /\ op' = op /\ at' = at /\ before' = before /\ listed' = listed
      /\ \A j \in Tasks : Begun(j)' = Begun(j)
      /\ \A i \in Tasks : pc[i] = "done" => pc'[i] = "done"
  BY <1>1 DEF Abandon, stores, Active, Begun
<1>3. (\A a : AppWriters(a)' = AppWriters(a)) /\ (\A d : DepWriters(d)' = DepWriters(d))
  <2>1. \A words : Asked(words)' = Asked(words)
    BY <1>2 DEF Asked
  <2> QED BY <1>2, <2>1 DEF AppWriters, DepWriters
<1>4. ASSUME NEW j \in Tasks, j \in S PROVE Facts(j)'
  <2>1. pc'[j] = "done" /\ result'[j] # "ok"
    BY <1>1, <1>4 DEF Abandon
  <2>2. ~HasWritten(j)'
    BY <2>1 DEF HasWritten
  <2>3. Order(j)'
    BY <1>2, <2>1, <2>2 DEF Order, AllFacts, Facts
  <2> QED BY <2>1, <2>2, <2>3 DEF Facts, CopySuits, AppFresh, DepFresh, AllFresh
<1>5. ASSUME NEW j \in Tasks, j \notin S PROVE Facts(j)'
  <2>1. /\ Facts(j) /\ pc'[j] = pc[j] /\ app'[j] = app[j]
        /\ rec'[j] = rec[j] /\ all'[j] = all[j] /\ result'[j] = result[j]
    BY <1>1, <1>5 DEF Abandon, AllFacts
  <2>2. /\ \A a : Undisturbed(j, AppWriters(a))' => Undisturbed(j, AppWriters(a))
        /\ \A d : Undisturbed(j, DepWriters(d))' => Undisturbed(j, DepWriters(d))
    BY <1>2, <1>3 DEF Undisturbed
  <2>3. Order(j)' /\ CopySuits(j)'
    BY <1>2, <2>1 DEF Facts, Order, CopySuits, HasWritten, AppAsAsked, DepAsAsked
  <2>4. AppFresh(j)' /\ DepFresh(j)' /\ AllFresh(j)'
    BY <1>2, <2>1, <2>2 DEF Facts, AppFresh, DepFresh, AllFresh, AppTarget, DepTarget
  <2> QED BY <2>3, <2>4 DEF Facts
<1> QED BY <1>4, <1>5 DEF AllFacts

LEMMA InitFacts == Init => AllFacts
BY DEF Init, AllFacts, Facts, Order, CopySuits, AppFresh, DepFresh, AllFresh, HasWritten

LEMMA NextFacts == State /\ AllFacts /\ [Next]_vars => AllFacts'
<1> SUFFICES ASSUME State, AllFacts, [Next]_vars PROVE AllFacts'
  OBVIOUS
<1>1. ASSUME NEW k \in Tasks, NEW o \in Requests, Begin(k, o) PROVE AllFacts'
  BY <1>1, FactsBegin
<1>2. ASSUME NEW k \in Tasks, TaskStep(k) PROVE AllFacts'
  BY <1>2, OwnFacts, OtherFacts DEF AllFacts
<1>3. CASE RedisLost \/ Crash
  BY <1>3, FactsInterrupt
<1>4. CASE UNCHANGED vars
  <2>1. /\ applications' = applications /\ deployments' = deployments
        /\ op' = op /\ pc' = pc /\ at' = at /\ app' = app /\ rec' = rec /\ all' = all
        /\ result' = result /\ before' = before /\ listed' = listed
    BY <1>4 DEF vars, held, stores
  <2>2. (\A a : AppWriters(a)' = AppWriters(a)) /\ (\A d : DepWriters(d)' = DepWriters(d))
    BY <2>1 DEF AppWriters, DepWriters, Asked, Begun
  <2>3. ASSUME NEW j \in Tasks PROVE Facts(j)'
    <3>1. /\ \A a : Undisturbed(j, AppWriters(a))' => Undisturbed(j, AppWriters(a))
          /\ \A d : Undisturbed(j, DepWriters(d))' => Undisturbed(j, DepWriters(d))
      BY <2>1, <2>2 DEF Undisturbed
    <3>2. Facts(j)
      BY DEF AllFacts
    <3>3. Order(j)' /\ CopySuits(j)'
      BY <2>1, <3>2 DEF Facts, Order, CopySuits, HasWritten, AppAsAsked, DepAsAsked
    <3>4. AppFresh(j)' /\ DepFresh(j)' /\ AllFresh(j)'
      BY <2>1, <3>1, <3>2 DEF Facts, AppFresh, DepFresh, AllFresh, AppTarget, DepTarget
    <3> QED BY <3>3, <3>4 DEF Facts
  <2> QED BY <2>3 DEF AllFacts
<1> QED BY <1>1, <1>2, <1>3, <1>4 DEF Next, TaskStep

\* A read, a change and a write some turns later are atomic for a task that no other
\* writer of the record disturbs, for any number of tasks about other records.
THEOREM CopiesAreFresh == Spec => []CopyIsFresh
<1>1. AllFacts => CopyIsFresh
  BY DEF AllFacts, Facts, AppFresh, DepFresh, CopyIsFresh, AppTarget, DepTarget
<1> QED BY <1>1, InitState, NextState, InitFacts, NextFacts, PTL DEF Spec

-----------------------------------------------------------------------------
\* Effects last: the records, and the copies of them that later tasks hold.

\* The deployments whose write a task has behind it.
WroteDeps(k) ==
  IF ~Begun(k) THEN {}
  ELSE IF op[k].word \in MachineWords THEN listed[k] \ todo[k]
  ELSE IF HasWritten(k) /\ op[k].word \in DepWords \cup PublishWords THEN {at[k]}
  ELSE {}

\* What k asked for is in the record, and in every copy that a task holds that began
\* after k had ended.
AppKept(k) ==
  /\ AppHas(op[k], applications[op[k].app])
  /\ \A j \in Tasks : k \in before[j] /\ pc[j] \in {"validate", "put app"} /\ op[j].app = op[k].app
                      => AppHas(op[k], app[j])

DepKept(k, d) ==
  /\ DepHas(op[k], deployments[d])
  /\ \A j \in Tasks : k \in before[j] =>
        /\ pc[j] = "put dep" /\ at[j] = d => DepHas(op[k], rec[j])
        /\ pc[j] = "get default" => DepHas(op[k], all[j][d])

AppLasts(k) == HasWritten(k) /\ op[k].word \in AppWords /\ AppClear(k) => AppKept(k)
DepLasts(k) == \A d \in WroteDeps(k) : DepClear(k, d) => DepKept(k, d)

Lasts == \A k \in Tasks : AppLasts(k) /\ DepLasts(k)

LEMMA WroteDepsType ==
  ASSUME State, AllFacts, NEW k \in Tasks
  PROVE  WroteDeps(k) \subseteq Deployments
BY RegistryAssumption DEF WroteDeps, AllFacts, Facts, Order, State, LocalType

LEMMA AppOutcomeKeeps ==
  ASSUME NEW p, NEW o, NEW r \in AppRecord \cup {None}, AppHas(o, r), ~AppUndoes(p, o)
  PROVE  AppHas(o, AppOutcome(p, r))
BY DEF AppUndoes

LEMMA DepOutcomeKeeps ==
  ASSUME NEW p, NEW o, NEW d, NEW r \in DepRecord \cup {None}, DepHas(o, r), ~DepUndoes(p, o, d)
  PROVE  DepHas(o, DepOutcome(p, d, r))
BY DEF DepUndoes

\* A task that makes a turn and is no rival of k began after k had ended, and was not
\* asked for the opposite.
LEMMA LaterOrRival ==
  ASSUME State, AllFacts, NEW j \in Tasks, TaskStep(j), NEW k \in Tasks, k # j
  PROVE  /\ AppClear(k)' /\ j \in AppWriters(op[k].app)
            => k \in before[j] /\ ~AppUndoes(op[j], op[k])
         /\ \A d : DepClear(k, d)' /\ j \in DepWriters(d)'
            => k \in before[j] /\ ~DepUndoes(op[j], op[k], d)
<1>1. Turned(j)
  BY TaskStepGood DEF GoodTurn
<1>2. j \notin before[k] /\ op' = op /\ before' = before
  BY <1>1 DEF Turned, AllFacts, Facts, Order
<1>3. AppWriters(op[k].app)' = AppWriters(op[k].app)
  BY <1>2, MoreWriters
<1>4. ASSUME AppClear(k)', j \in AppWriters(op[k].app)
      PROVE  k \in before[j] /\ ~AppUndoes(op[j], op[k])
  BY <1>2, <1>3, <1>4 DEF AppClear, AppRival, AppUndoes
<1>5. ASSUME NEW d, DepClear(k, d)', j \in DepWriters(d)'
      PROVE  k \in before[j] /\ ~DepUndoes(op[j], op[k], d)
  BY <1>2, <1>5 DEF DepClear, DepRival, DepUndoes
<1> QED BY <1>4, <1>5

\* Who is clear of rivals after a turn was so before it.
LEMMA ClearBefore ==
  ASSUME State, NEW j \in Tasks, TaskStep(j), NEW k \in Tasks
  PROVE  /\ AppClear(k)' => AppClear(k)
         /\ \A d \in Deployments : DepClear(k, d)' => DepClear(k, d)
<1>1. op' = op /\ before' = before
  BY TaskStepGood DEF GoodTurn, Turned
<1>2. AppClear(k)' => AppClear(k)
  BY <1>1, MoreWriters DEF AppClear, AppRival, AppUndoes
<1>3. ASSUME NEW d \in Deployments, DepClear(k, d)' PROVE DepClear(k, d)
  <2>1. DepWriters(d) \subseteq DepWriters(d)'
    BY MoreWriters
  <2> QED BY <1>1, <1>3, <2>1 DEF DepClear, DepRival, DepUndoes
<1> QED BY <1>2, <1>3

\* A copy that is read is what its task makes of the record.
LEMMA AppReadIs ==
  ASSUME State, NEW j \in Tasks, TakesApp(j), pc'[j] \in {"validate", "put app"}
  PROVE  /\ op[j].app \in Apps /\ op[j].word \in AppWords
         /\ app'[j] = AppOutcome(op[j], applications[op[j].app])
<1>0. /\ Shape(j) /\ pc[j] = "get app" /\ LocalType /\ GoodTurn(j)
  BY GoodTakesApp DEF State, Shapes, TakesApp, Turn
<1>1. Shape(j)' /\ op' = op
  BY <1>0 DEF GoodTurn, State, Shapes, Turned
<1>2. op[j].word \in {"init", "update", "set_deployment"} /\ op[j].app \in Apps
  BY <1>1, RequestFields DEF Shape, ShapeOf, WordsAt, AppWords
<1>3. CASE op[j].word = "init"
  <2>1. /\ applications[op[j].app] = None
        /\ app' = [app EXCEPT ![j] = [deployment |-> op[j].deployment, source |-> op[j].value]]
    BY <1>3 DEF TakesApp, PublishWords
  <2>2. app'[j] = [deployment |-> op[j].deployment, source |-> op[j].value]
    BY <1>0, <2>1 DEF LocalType
  <2> QED BY <1>2, <1>3, <2>1, <2>2 DEF AppOutcome, AppWords
<1>4. CASE op[j].word \in {"update", "set_deployment"}
  <2>1. /\ applications[op[j].app] # None
        /\ app' = [app EXCEPT ![j] = ChangedApp(op[j], applications[op[j].app])]
    BY <1>4 DEF TakesApp, PublishWords
  <2>2. app'[j] = ChangedApp(op[j], applications[op[j].app])
    BY <1>0, <2>1 DEF LocalType
  <2>3. op[j].word \in AppWords /\ op[j].word # "remove" /\ op[j].word # "init"
    BY <1>4 DEF AppWords
  <2> QED BY <1>2, <2>1, <2>2, <2>3 DEF AppOutcome
<1> QED BY <1>2, <1>3, <1>4

LEMMA DepReadIs ==
  ASSUME State, NEW j \in Tasks, TaskStep(j), pc'[j] = "put dep"
  PROVE  /\ at'[j] \in Deployments /\ j \in DepWriters(at[j])'
         /\ \/ TakesDep(j) /\ rec'[j] = DepOutcome(op[j], at'[j], deployments[at'[j]])
            \/ /\ TakesDefault(j) /\ pc[j] = "get default" /\ all[j] \in DepStore
               /\ rec'[j] = DepOutcome(op[j], at'[j], all[j][at'[j]])
<1>0. /\ Shape(j) /\ Shape(j)' /\ LocalType /\ op' = op /\ Begun(j)' /\ op[j] \in Requests
  BY TaskStepGood DEF GoodTurn, State, Shapes, Turned, Begun, Shape, ShapeOf
<1>1. op[j].word \in PublishWords \cup {"deployment_create", "deployment_update"} \cup MachineWords
  BY <1>0 DEF Shape, ShapeOf, WordsAt
<1>2. at'[j] \in Deployments /\ j \in DepWriters(at[j])'
  <2>1. at'[j] \in Deployments
    BY <1>0 DEF Shape, ShapeOf
  <2>2. CASE op[j].word \in PublishWords
    <3>1. j \in Asked(PublishWords)'
      BY <1>0, <2>2 DEF Asked
    <3> QED BY <1>0, <2>1, <2>2, <3>1 DEF DepWriters
  <2>3. CASE op[j].word \in {"deployment_create", "deployment_update"}
    BY <1>0, <2>1, <2>3 DEF DepWriters, Asked, Shape, ShapeOf, DepWords
  <2>4. CASE op[j].word \in MachineWords
    BY <1>0, <2>1, <2>4 DEF DepWriters, Asked, Shape, ShapeOf
  <2> QED BY <1>1, <2>1, <2>2, <2>3, <2>4
<1>3. CASE TakesDep(j)
  <2>1. at' = at /\ op[j].word \notin {"deployment_create", "deployment_remove"}
    BY <1>0, <1>1, <1>3 DEF TakesDep, ToChange, Turn, Shape, ShapeOf, WordsAt, PublishWords, MachineWords
  <2>2. CASE deployments[at[j]] # None
    <3>1. rec'[j] = ChangedDep(op[j], deployments[at[j]])
      BY <1>0, <1>3, <2>2 DEF TakesDep, Ask, LocalType
    <3> QED BY <1>2, <1>3, <2>1, <2>2, <3>1 DEF DepOutcome
  <2>3. CASE deployments[at[j]] = None
    <3>1. op[j].word \in MachineWords /\ rec'[j] = ChangedDep(op[j], Fresh(TRUE))
      BY <1>0, <1>3, <2>3 DEF TakesDep, Ask, LocalType
    <3> QED BY <1>2, <1>3, <2>1, <2>3, <3>1 DEF DepOutcome, Created
  <2> QED BY <2>2, <2>3
<1>4. CASE TakesDefault(j)
  <2>1. /\ pc[j] = "get default" /\ op[j].word \in PublishWords /\ all[j] \in DepStore
        /\ at' = [at EXCEPT ![j] = DefaultOf(all[j], default)]
        /\ rec' = [rec EXCEPT ![j] = ChangedDep(op[j], DefaultRecord(j, DefaultOf(all[j], default)))]
    BY <1>0, <1>4 DEF TakesDefault, Turn, DefaultRecord, Shape, ShapeOf
  <2>2. at'[j] = DefaultOf(all[j], default) /\ rec'[j] = ChangedDep(op[j], DefaultRecord(j, at'[j]))
    BY <1>0, <2>1 DEF LocalType
  <2>3. all[j][at'[j]] = None => at'[j] = Local
    BY <2>1, <2>2, DefaultOfType
  <2>4. op[j].word \notin {"deployment_create", "deployment_remove"} /\ op[j].word \notin MachineWords
    BY <2>1 DEF PublishWords, MachineWords
  <2>5. rec'[j] = DepOutcome(op[j], at'[j], all[j][at'[j]])
    <3>1. CASE all[j][at'[j]] # None
      BY <2>2, <2>4, <3>1 DEF DepOutcome, DefaultRecord
    <3>2. CASE all[j][at'[j]] = None
      BY <2>1, <2>2, <2>3, <2>4, <3>2 DEF DepOutcome, DefaultRecord, Created
    <3> QED BY <3>1, <3>2
  <2> QED BY <1>2, <1>4, <2>1, <2>5
<1> QED BY <1>2, <1>3, <1>4, WhoReads

\* The turns of others keep what k has done.
LEMMA OtherAppLasts ==
  ASSUME State, AllFacts, Lasts, NEW j \in Tasks, TaskStep(j), NEW k \in Tasks, k # j
  PROVE  AppLasts(k)'
<1>0. /\ Turned(j) /\ OthersStay(j) /\ op' = op /\ before' = before /\ Shape(k) /\ Shape(j) /\ pc[j] # "new"
      /\ LocalType /\ applications \in AppStore
  BY TaskStepGood DEF GoodTurn, Turned, State, Shapes, StoreType
<1> SUFFICES ASSUME HasWritten(k)', op[k].word \in AppWords, AppClear(k)'
             PROVE  AppKept(k)'
  BY <1>0 DEF AppLasts
<1> DEFINE a == op[k].app
<1>1. HasWritten(k)
  BY <1>0 DEF HasWritten, OthersStay
<1>2. a \in Apps
  BY <1>1, RequestFields, <1>0 DEF HasWritten, AllFacts, Facts, Order, Shape, ShapeOf
<1>3. AppKept(k)
  BY <1>1, ClearBefore DEF Lasts, AppLasts
<1>4. j \in AppWriters(a) => k \in before[j] /\ ~AppUndoes(op[j], op[k])
  BY LaterOrRival
<1>5. op[j].word \in AppWords /\ op[j].app = a => j \in AppWriters(a)
  BY <1>0 DEF AppWriters, Asked, Begun
<1>6. applications[a] \in AppRecord \cup {None} /\ AppHas(op[k], applications[a])
  BY <1>0, <1>2, <1>3 DEF AppStore, AppKept
<1> HIDE DEF a
<1>7. AppHas(op[k], applications'[a])
  <2>1. CASE PutApp(j)
    <3>1. /\ pc[j] = "put app" /\ applications' = [applications EXCEPT ![op[j].app] = app[j]]
          /\ op[j].word \in AppWords
      BY <1>0, <2>1 DEF PutApp, Turn, Shape, ShapeOf, WordsAt, AppWords
    <3>2. CASE op[j].app = a
      <4>1. AppHas(op[k], app[j])
        BY <1>3, <1>4, <1>5, <3>1, <3>2 DEF AppKept, a
      <4> QED BY <1>0, <1>2, <3>1, <3>2, <4>1 DEF AppStore
    <3>3. CASE op[j].app # a
      BY <1>0, <1>2, <1>6, <3>1, <3>3 DEF AppStore
    <3> QED BY <3>2, <3>3
  <2>2. CASE DelApp(j)
    <3>1. applications' = [applications EXCEPT ![op[j].app] = None] /\ op[j].word = "remove"
      BY <1>0, <2>2 DEF DelApp, Turn, Shape, ShapeOf, WordsAt
    <3>2. CASE op[j].app = a
      <4>1. AppHas(op[k], AppOutcome(op[j], applications[a]))
        BY <1>4, <1>5, <1>6, <3>1, <3>2, AppOutcomeKeeps DEF AppWords
      <4> QED BY <1>0, <1>2, <3>1, <3>2, <4>1 DEF AppStore, AppOutcome
    <3>3. CASE op[j].app # a
      BY <1>0, <1>2, <1>6, <3>1, <3>3 DEF AppStore
    <3> QED BY <3>2, <3>3
  <2>3. CASE applications' = applications
    BY <1>6, <2>3
  <2> QED BY <2>1, <2>2, <2>3, WhoWrites
<1>8. ASSUME NEW i \in Tasks, k \in before[i], pc'[i] \in {"validate", "put app"}, op[i].app = a
      PROVE  AppHas(op[k], app'[i])
  <2>1. CASE i # j
    <3>1. pc'[i] = pc[i] /\ app'[i] = app[i]
      BY <1>0, <2>1 DEF OthersStay
    <3> QED BY <1>3, <1>8, <3>1 DEF AppKept, a
  <2>2. CASE i = j /\ Validated(j)
    <3>1. pc[j] = "validate" /\ app' = app
      BY <2>2 DEF Validated, Resume, held
    <3> QED BY <1>3, <1>8, <2>2, <3>1 DEF AppKept, a
  <2>3. CASE i = j /\ TakesApp(j)
    <3>1. op[j].word \in AppWords /\ app'[j] = AppOutcome(op[j], applications[a])
      BY <1>8, <2>3, AppReadIs
    <3> QED BY <1>4, <1>5, <1>6, <1>8, <2>3, <3>1, AppOutcomeKeeps
  <2> QED BY <1>8, <2>1, <2>2, <2>3, WhoReads
<1> QED BY <1>0, <1>7, <1>8 DEF AppKept, a, AppHas, AppAsAsked

LEMMA OtherDepLasts ==
  ASSUME State, AllFacts, Lasts, NEW j \in Tasks, TaskStep(j), NEW k \in Tasks, k # j
  PROVE  DepLasts(k)'
<1>0. /\ Turned(j) /\ OthersStay(j) /\ op' = op /\ before' = before /\ Shape(k) /\ Shape(j) /\ pc[j] # "new"
      /\ LocalType /\ deployments \in DepStore
  BY TaskStepGood DEF GoodTurn, Turned, State, Shapes, StoreType
<1>1. WroteDeps(k)' = WroteDeps(k)
  BY <1>0 DEF WroteDeps, HasWritten, OthersStay, Begun
<1> SUFFICES ASSUME NEW d \in WroteDeps(k), DepClear(k, d)'
             PROVE  DepKept(k, d)'
  BY <1>1 DEF DepLasts
<1>2. d \in Deployments
  BY WroteDepsType
<1>3. DepKept(k, d)
  BY <1>2, ClearBefore DEF Lasts, DepLasts
<1>4. j \in DepWriters(d)' => k \in before[j] /\ ~DepUndoes(op[j], op[k], d)
  BY LaterOrRival
<1>5. DepWriters(d) \subseteq DepWriters(d)'
  BY <1>2, MoreWriters
<1>6. deployments[d] \in DepRecord \cup {None} /\ DepHas(op[k], deployments[d])
  BY <1>0, <1>2, <1>3 DEF DepStore, DepKept
<1>7. DepHas(op[k], deployments'[d])
  <2>1. CASE PutDep(j)
    <3>1. /\ pc[j] = "put dep" /\ deployments' = [deployments EXCEPT ![at[j]] = rec[j]]
          /\ at[j] \in Deployments
      BY <2>1, DepAt DEF PutDep, Turn
    <3>2. CASE at[j] = d
      <4>1. j \in DepWriters(d)
        BY <1>0, <3>1, <3>2 DEF Shape, ShapeOf, WordsAt, DepWriters, Asked, Begun, DepWords
      <4>2. DepHas(op[k], rec[j])
        BY <1>3, <1>4, <1>5, <3>1, <3>2, <4>1 DEF DepKept
      <4> QED BY <1>0, <1>2, <3>1, <3>2, <4>2 DEF DepStore
    <3>3. CASE at[j] # d
      BY <1>0, <1>2, <1>6, <3>1, <3>3 DEF DepStore
    <3> QED BY <3>2, <3>3
  <2>2. CASE DelDep(j)
    <3>1. /\ pc[j] = "del dep" /\ deployments' = [deployments EXCEPT ![at[j]] = None]
          /\ at[j] \in Deployments /\ op[j].word = "deployment_remove"
      BY <2>2, DepAt DEF DelDep, Turn, WordsAt
    <3>2. CASE at[j] = d
      <4>1. j \in DepWriters(d)
        BY <1>0, <3>1, <3>2 DEF Shape, ShapeOf, WordsAt, DepWriters, Asked, Begun, DepWords
      <4>2. DepHas(op[k], DepOutcome(op[j], d, deployments[d]))
        BY <1>4, <1>5, <1>6, <4>1, DepOutcomeKeeps
      <4> QED BY <1>0, <1>2, <3>1, <3>2, <4>2 DEF DepStore, DepOutcome
    <3>3. CASE at[j] # d
      BY <1>0, <1>2, <1>6, <3>1, <3>3 DEF DepStore
    <3> QED BY <3>2, <3>3
  <2>3. CASE deployments' = deployments
    BY <1>6, <2>3
  <2> QED BY <2>1, <2>2, <2>3, WhoWrites
<1>8. ASSUME NEW i \in Tasks, k \in before[i]
      PROVE  /\ pc'[i] = "put dep" /\ at'[i] = d => DepHas(op[k], rec'[i])
             /\ pc'[i] = "get default" => DepHas(op[k], all'[i][d])
  <2>1. CASE i # j
    <3>1. pc'[i] = pc[i] /\ at'[i] = at[i] /\ rec'[i] = rec[i] /\ all'[i] = all[i]
      BY <1>0, <2>1 DEF OthersStay
    <3> QED BY <1>3, <1>8, <3>1 DEF DepKept
  <2>2. ASSUME i = j, pc'[j] = "put dep", at'[j] = d PROVE DepHas(op[k], rec'[j])
    <3>1. j \in DepWriters(d)'
      BY <2>2, DepReadIs
    <3>2. ~DepUndoes(op[j], op[k], d)
      BY <1>4, <3>1
    <3>3. CASE rec'[j] = DepOutcome(op[j], d, deployments[d])
      BY <1>6, <3>2, <3>3, DepOutcomeKeeps
    <3>4. CASE /\ pc[j] = "get default" /\ all[j] \in DepStore
               /\ rec'[j] = DepOutcome(op[j], d, all[j][d])
      <4>1. all[j][d] \in DepRecord \cup {None} /\ DepHas(op[k], all[j][d])
        BY <1>2, <1>3, <1>8, <2>2, <3>4 DEF DepStore, DepKept
      <4> QED BY <3>2, <3>4, <4>1, DepOutcomeKeeps
    <3> QED BY <2>2, <3>3, <3>4, DepReadIs
  <2>3. ASSUME i = j, pc'[j] = "get default" PROVE DepHas(op[k], all'[j][d])
    <3>1. AllDeps(j)
      BY <2>3, WhoReads
    <3>2. all'[j] = deployments
      BY <1>0, <3>1 DEF AllDeps, LocalType
    <3> QED BY <1>6, <3>2
  <2> QED BY <2>1, <2>2, <2>3
<1> QED BY <1>0, <1>7, <1>8 DEF DepKept, DepHas, DepAsAsked

\* What a task writes is what it was asked to; nobody can have begun after its end yet.
LEMMA OwnAppLasts ==
  ASSUME State, AllFacts, Lasts, NEW k \in Tasks, TaskStep(k)
  PROVE  AppLasts(k)'
<1>0. /\ Turned(k) /\ Facts(k) /\ LocalType /\ Shape(k) /\ op' = op /\ before' = before
      /\ applications \in AppStore
  BY TaskStepGood DEF GoodTurn, State, Shapes, AllFacts, Turned, StoreType
<1> SUFFICES ASSUME HasWritten(k)', op[k].word \in AppWords, AppClear(k)'
             PROVE  AppKept(k)'
  BY <1>0 DEF AppLasts
<1>1. op[k].app \in Apps
  BY <1>0, RequestFields DEF Turned, Shape, ShapeOf
<1>2. \A j \in Tasks : k \notin before[j]
  BY <1>0 DEF Turned, AllFacts, Facts, Order
<1>3. AppHas(op[k], applications'[op[k].app])
  <2>1. CASE PutApp(k)
    <3>1. /\ app[k] \in AppRecord /\ AppAsAsked(op[k], app[k])
          /\ op[k].word # "remove" /\ applications' = [applications EXCEPT ![op[k].app] = app[k]]
      BY <1>0, <2>1 DEF PutApp, Turn, Shape, ShapeOf, WordsAt, Facts, CopySuits
    <3>2. applications'[op[k].app] = app[k] /\ app[k] # None
      BY <1>0, <1>1, <3>1, RegistryAssumption DEF AppStore
    <3> QED BY <3>1, <3>2 DEF AppHas
  <2>2. CASE DelApp(k)
    <3>1. op[k].word = "remove" /\ applications' = [applications EXCEPT ![op[k].app] = None]
      BY <1>0, <2>2 DEF DelApp, Turn, Shape, ShapeOf, WordsAt
    <3> QED BY <1>0, <1>1, <3>1 DEF AppHas, AppStore
  <2>3. CASE PutDep(k) \/ DelDep(k)
    BY <1>0, <2>3, WordKinds DEF PutDep, DelDep, Turn, Shape, ShapeOf, WordsAt, DepWords
  <2>4. CASE HasWritten(k) /\ applications' = applications
    <3>1. AppKept(k)
      BY <2>4, ClearBefore DEF Lasts, AppLasts
    <3> QED BY <2>4, <3>1 DEF AppKept
  <2> QED BY <2>1, <2>2, <2>3, <2>4, WhoHasWritten
<1> QED BY <1>0, <1>2, <1>3 DEF AppKept, AppHas, AppAsAsked

\* What a turn adds to the deployments its task has written.
LEMMA OwnWrote ==
  ASSUME State, AllFacts, NEW k \in Tasks, TaskStep(k), NEW d \in WroteDeps(k)'
  PROVE  \/ /\ at[k] = d /\ d \in Deployments
            /\ \/ PutDep(k) /\ op[k].word \in DepWords \cup PublishWords \cup MachineWords
               \/ DelDep(k) /\ op[k].word = "deployment_remove"
         \/ d \in WroteDeps(k) /\ deployments'[d] = deployments[d]
<1>0. /\ Turned(k) /\ Facts(k) /\ LocalType /\ Shape(k) /\ op' = op /\ Begun(k) /\ Begun(k)'
      /\ deployments \in DepStore
  BY TaskStepGood DEF GoodTurn, State, Shapes, AllFacts, Turned, StoreType, Begun
<1>1. CASE PutDep(k) \/ DelDep(k)
  <2>1. at[k] \in Deployments /\ op[k].word \in WordsAt(pc[k]) /\ pc[k] \in {"put dep", "del dep"}
    BY <1>1, DepAt DEF PutDep, DelDep, Turn
  <2>2. /\ PutDep(k) => pc[k] = "put dep"
        /\ DelDep(k) => pc[k] = "del dep"
    BY DEF PutDep, DelDep, Turn
  <2>3. /\ PutDep(k) => op[k].word \in DepWords \cup PublishWords \cup MachineWords
        /\ DelDep(k) => op[k].word = "deployment_remove"
    BY <2>1, <2>2 DEF WordsAt, DepWords
  <2>4. CASE at[k] = d
    BY <1>1, <2>1, <2>3, <2>4
  <2>5. CASE at[k] # d
    <3>1. op[k].word \in MachineWords
      <4>1. ASSUME op[k].word \notin MachineWords PROVE at' = at
        BY <1>1, <4>1 DEF PutDep, DelDep, held, Await, Ask, Return, Finish
      <4>2. ASSUME op[k].word \notin MachineWords PROVE FALSE
        <5>1. WroteDeps(k)' \subseteq {at'[k]}
          BY <1>0, <4>2 DEF WroteDeps
        <5> QED BY <2>5, <4>1, <4>2, <5>1
      <4> QED BY <4>2
    <3>2. PutDep(k) /\ NextMachine(k)
      BY <1>1, <2>3, <3>1 DEF PutDep, MachineWords, PublishWords
    <3>3. listed' = listed /\ todo'[k] = todo[k] \ {at[k]}
      BY <1>0, <3>2 DEF NextMachine, Finish, Ask, LocalType
    <3>4. d \in WroteDeps(k)
      BY <1>0, <2>5, <3>1, <3>3 DEF WroteDeps
    <3>5. deployments'[d] = deployments[d]
      <4>1. d \in Deployments /\ deployments' = [deployments EXCEPT ![at[k]] = rec[k]]
        BY <3>2, <3>4, WroteDepsType DEF PutDep
      <4> QED BY <1>0, <2>5, <4>1 DEF DepStore
    <3> QED BY <3>4, <3>5
  <2> QED BY <2>4, <2>5
<1>2. CASE ~(PutDep(k) \/ DelDep(k))
  <2>0. deployments' = deployments
    BY <1>2, WhoWrites
  <2>1. CASE op[k].word \in MachineWords
    <3>1. (listed' = listed /\ todo' = todo) \/ listed'[k] = todo'[k]
      <4>1. CASE AppStep(k)
        BY <4>1 DEF AppStep, RefusesApp, TakesApp, Validated, Destroyed, PutApp, DelApp, Resume, Ask, Await,
           Return, Finish, held
      <4>2. CASE MachineEnds(k) \/ Notified(k)
        <5>1. CASE \E from \in {"machine", "plugins"} : Syncs(k, from)
          <6>1. CASE \E from, outcome : Leave(k, from, outcome)
            BY <6>1 DEF Leave, Finish
          <6>2. CASE \E S \in SUBSET Machines : /\ listed' = [listed EXCEPT ![k] = S]
                                              /\ todo' = [todo EXCEPT ![k] = S]
            BY <1>0, <6>2 DEF LocalType
          <6> QED BY <5>1, <6>1, <6>2 DEF Syncs
        <5>2. CASE \E from, label : Goes(k, from, label) \/ Leave(k, from, label)
          BY <5>2 DEF Goes, Leave, Finish, held
        <5> QED BY <4>2, <5>1, <5>2 DEF MachineEnds, Notified
      <4>3. CASE DepStep(k) /\ ~MachineEnds(k)
        BY <1>2, <4>3 DEF DepStep, RefusesDep, TakesDep, AllDeps, TakesDefault, CountsDeps, SetDefault,
           Ask, Await, Return, Finish, held
      <4>4. CASE Launched(k) \/ Listed(k) \/ Fails(k)
        BY <4>4 DEF Launched, Listed, Fails, Goes, Leave, Finish, held
      <4> QED BY <4>1, <4>2, <4>3, <4>4 DEF TaskStep
    <3> QED BY <1>0, <2>0, <2>1, <3>1 DEF WroteDeps
  <2>2. CASE op[k].word \notin MachineWords
    <3>1. HasWritten(k)' /\ op[k].word \in DepWords \cup PublishWords /\ d = at'[k]
      BY <1>0, <2>2 DEF WroteDeps
    <3>2. PutApp(k) \/ DelApp(k) => op[k].word \in AppWords
      BY <1>0 DEF PutApp, DelApp, Turn, Shape, ShapeOf, WordsAt, AppWords
    <3>3. HasWritten(k) /\ at'[k] = at[k]
      BY <1>2, <3>1, <3>2, WhoHasWritten, WordKinds
    <3> QED BY <1>0, <2>0, <2>2, <3>1, <3>3 DEF WroteDeps
  <2> QED BY <2>1, <2>2
<1> QED BY <1>1, <1>2

LEMMA OwnDepLasts ==
  ASSUME State, AllFacts, Lasts, NEW k \in Tasks, TaskStep(k)
  PROVE  DepLasts(k)'
<1>0. /\ Turned(k) /\ Facts(k) /\ LocalType /\ Shape(k) /\ op' = op /\ before' = before
      /\ deployments \in DepStore
  BY TaskStepGood DEF GoodTurn, State, Shapes, AllFacts, Turned, StoreType
<1> SUFFICES ASSUME NEW d \in WroteDeps(k)', DepClear(k, d)' PROVE DepKept(k, d)'
  BY DEF DepLasts
<1>1. \A j \in Tasks : k \notin before[j]
  BY <1>0 DEF Turned, AllFacts, Facts, Order
<1>2. DepHas(op[k], deployments'[d])
  <2>1. CASE at[k] = d /\ d \in Deployments /\ PutDep(k)
    <3>1. /\ rec[k] \in DepRecord /\ DepAsAsked(op[k], rec[k]) /\ op[k].word # "deployment_remove"
          /\ deployments' = [deployments EXCEPT ![d] = rec[k]]
      BY <1>0, <2>1 DEF PutDep, Turn, Shape, ShapeOf, WordsAt, Facts, CopySuits, PublishWords, MachineWords
    <3>2. deployments'[d] = rec[k] /\ rec[k] # None
      BY <1>0, <2>1, <3>1, RegistryAssumption DEF DepStore
    <3> QED BY <3>1, <3>2 DEF DepHas
  <2>2. CASE at[k] = d /\ d \in Deployments /\ DelDep(k) /\ op[k].word = "deployment_remove"
    BY <1>0, <2>2 DEF DelDep, DepHas, DepStore
  <2>3. CASE d \in WroteDeps(k) /\ deployments'[d] = deployments[d]
    <3>1. DepClear(k, d)
      BY <2>3, WroteDepsType, ClearBefore
    <3> QED BY <2>3, <3>1 DEF Lasts, DepLasts, DepKept
  <2> QED BY <2>1, <2>2, <2>3, OwnWrote
<1> QED BY <1>0, <1>1, <1>2 DEF DepKept, DepHas, DepAsAsked

\* A task that begins holds no copy, but for deployment_create, whose copy is what it
\* makes of any record.
LEMMA LastsBegin ==
  ASSUME State, AllFacts, Lasts, NEW j \in Tasks, NEW o \in Requests, Begin(j, o)
  PROVE  Lasts'
<1>0. /\ State' /\ AllFacts' /\ OthersStay(j) /\ pc[j] = "new" /\ pc'[j] \notin {"new", "done"}
      /\ op'[j] = o /\ before'[j] = Ended /\ result' = result /\ listed' = listed /\ todo' = todo
      /\ applications' = applications /\ deployments' = deployments
  BY BeginGood, FactsBegin DEF Begin, stores
<1>1. /\ pc'[j] = FirstLabel(o.word) /\ at'[j] = o.deployment
      /\ rec'[j] = IF o.word = "deployment_create" THEN Fresh(o.value = "tls") ELSE None
      /\ result'[j] = "none" /\ listed'[j] = {}
  <2>1. listed[j] = {} /\ result[j] = "none"
    BY <1>0 DEF State, Shapes, Shape, ShapeOf, AllFacts, Facts, Order
  <2> QED BY <1>0, <2>1 DEF Begin, State, LocalType
<1>2. /\ pc'[j] \notin {"validate", "put app", "get default", "list", "all deps"}
      /\ pc'[j] = "put dep" => o.word = "deployment_create"
      /\ pc'[j] = "plugins" => o.word = "setup"
      /\ pc'[j] = "set default" => o.word = "deployment_set_default"
  BY <1>1, RequestFields DEF FirstLabel, AppWords, PublishWords, DepWords, MachineWords, ReadWords
<1>3. AppLasts(j)' /\ DepLasts(j)'
  <2>1. ~HasWritten(j)'
    BY <1>0, <1>1, <1>2, WordKinds DEF HasWritten, PublishWords, MachineWords
  <2> QED BY <1>1, <2>1 DEF AppLasts, DepLasts, WroteDeps
<1>4. ASSUME NEW k \in Tasks, k # j PROVE AppLasts(k)' /\ DepLasts(k)'
  <2>1. /\ pc'[k] = pc[k] /\ op'[k] = op[k] /\ at'[k] = at[k] /\ result'[k] = result[k]
        /\ before'[k] = before[k] /\ listed'[k] = listed[k] /\ todo'[k] = todo[k]
    BY <1>0, <1>4 DEF OthersStay
  <2>2. /\ HasWritten(k)' = HasWritten(k) /\ WroteDeps(k)' = WroteDeps(k)
    BY <2>1 DEF HasWritten, WroteDeps, Begun
  <2>3. ASSUME NEW i \in Tasks, i # j
        PROVE  /\ op'[i] = op[i] /\ before'[i] = before[i] /\ pc'[i] = pc[i] /\ at'[i] = at[i]
               /\ app'[i] = app[i] /\ rec'[i] = rec[i] /\ all'[i] = all[i]
    BY <1>0, <2>3 DEF OthersStay
  <2>4. AppClear(k)' => AppClear(k)
    <3>1. \A a : AppWriters(a) \subseteq AppWriters(a)' /\ j \notin AppWriters(a) /\ AppWriters(a) \subseteq Tasks
      BY BeginAdds DEF AppWriters, Asked
    <3>2. ASSUME NEW i \in AppWriters(op[k].app), AppRival(i, k) PROVE AppRival(i, k)'
      <4>1. i \in Tasks /\ i # j
        BY <3>1, <3>2
      <4> QED BY <2>1, <2>3, <3>2, <4>1 DEF AppRival, AppUndoes
    <3> QED BY <2>1, <3>1, <3>2 DEF AppClear
  <2>5. ASSUME NEW d PROVE DepClear(k, d)' => DepClear(k, d)
    <3>1. DepWriters(d) \subseteq DepWriters(d)' /\ j \notin DepWriters(d) /\ DepWriters(d) \subseteq Tasks
      BY BeginAdds DEF DepWriters, Asked
    <3>2. ASSUME NEW i \in DepWriters(d), DepRival(i, k, d) PROVE DepRival(i, k, d)'
      <4>1. i \in Tasks /\ i # j
        BY <3>1, <3>2
      <4> QED BY <2>1, <2>3, <3>2, <4>1 DEF DepRival, DepUndoes
    <3> QED BY <3>1, <3>2 DEF DepClear
  <2>6. AppLasts(k)'
    <3> SUFFICES ASSUME HasWritten(k), op[k].word \in AppWords, AppClear(k)' PROVE AppKept(k)'
      BY <2>1, <2>2 DEF AppLasts
    <3>1. AppKept(k)
      BY <2>4 DEF Lasts, AppLasts
    <3> QED BY <1>0, <1>2, <2>1, <2>3, <3>1 DEF AppKept, AppHas, AppAsAsked
  <2>7. ASSUME NEW d \in WroteDeps(k), DepClear(k, d)' PROVE DepKept(k, d)'
    <3>1. DepKept(k, d) /\ d \in Deployments
      BY <2>5, <2>7, WroteDepsType DEF Lasts, DepLasts
    <3>2. DepHas(op[k], deployments[d]) /\ deployments[d] \in DepRecord \cup {None}
      BY <3>1 DEF DepKept, State, StoreType, DepStore
    <3>3. ASSUME k \in before'[j], pc'[j] = "put dep", at'[j] = d PROVE DepHas(op[k], rec'[j])
      <4>1. o.word = "deployment_create" /\ o.deployment = d
        BY <1>1, <1>2, <3>3
      <4>2. j \in DepWriters(d)' /\ j \notin before[k]
        BY <1>0, <4>1 DEF DepWriters, Asked, Begun, DepWords, AllFacts, Facts, Order
      <4>3. ~DepUndoes(o, op[k], d)
        BY <1>0, <1>4, <2>1, <2>7, <3>3, <4>2 DEF DepClear, DepRival, DepUndoes
      <4>4. rec'[j] = DepOutcome(o, d, deployments[d])
        BY <1>1, <4>1 DEF DepOutcome
      <4> QED BY <3>2, <4>3, <4>4, DepOutcomeKeeps
    <3>4. \A i \in Tasks : k \in before'[i] =>
             /\ pc'[i] = "put dep" /\ at'[i] = d => DepHas(op[k], rec'[i])
             /\ pc'[i] = "get default" => DepHas(op[k], all'[i][d])
      BY <1>2, <2>3, <3>1, <3>3 DEF DepKept
    <3>5. deployments' = deployments /\ op'[k] = op[k]
      BY <1>0, <2>1
    <3>6. \A r : DepHas(op'[k], r) = DepHas(op[k], r)
      BY <3>5
    <3> QED BY <3>2, <3>4, <3>5, <3>6 DEF DepKept
  <2> QED BY <2>2, <2>6, <2>7 DEF DepLasts
<1> QED BY <1>3, <1>4 DEF Lasts

\* Whoever is cut off holds no copy any more, and writes none.
LEMMA LastsKept ==
  ASSUME Lasts,
         UNCHANGED <<applications, deployments, op, at, before, listed, todo>>,
         \A i \in Tasks : Begun(i)' = Begun(i),
         \A i \in Tasks : \/ pc'[i] = "done" /\ result'[i] # "ok"
                         \/ /\ pc'[i] = pc[i] /\ app'[i] = app[i] /\ rec'[i] = rec[i] /\ all'[i] = all[i]
                            /\ result'[i] = result[i]
  PROVE  Lasts'
<1>1. \A words : Asked(words)' = Asked(words)
  BY DEF Asked
<1>2. (\A a : AppWriters(a)' = AppWriters(a)) /\ (\A d : DepWriters(d)' = DepWriters(d))
  BY <1>1 DEF AppWriters, DepWriters
<1>3. ASSUME NEW k \in Tasks PROVE AppLasts(k)' /\ DepLasts(k)'
  <2>1. HasWritten(k)' => HasWritten(k)
    BY DEF HasWritten
  <2>2. WroteDeps(k)' \subseteq WroteDeps(k)
    BY <2>1 DEF WroteDeps
  <2>3. AppClear(k)' = AppClear(k) /\ \A d : DepClear(k, d)' = DepClear(k, d)
    BY <1>2 DEF AppClear, DepClear, AppRival, DepRival, AppUndoes, DepUndoes
  <2>4. AppKept(k) => AppKept(k)'
    BY DEF AppKept, AppHas, AppAsAsked
  <2>5. ASSUME NEW d, DepKept(k, d) PROVE DepKept(k, d)'
    <3>1. DepHas(op[k], deployments'[d])
      BY <2>5 DEF DepKept
    <3>2. \A i \in Tasks : k \in before'[i] =>
             /\ pc'[i] = "put dep" /\ at'[i] = d => DepHas(op[k], rec'[i])
             /\ pc'[i] = "get default" => DepHas(op[k], all'[i][d])
      BY <2>5 DEF DepKept
    <3> QED BY <3>1, <3>2 DEF DepKept, DepHas, DepAsAsked
  <2>6. AppLasts(k)'
    BY <2>1, <2>3, <2>4 DEF Lasts, AppLasts
  <2>7. DepLasts(k)'
    BY <2>2, <2>3, <2>5 DEF Lasts, DepLasts
  <2> QED BY <2>6, <2>7
<1> QED BY <1>3 DEF Lasts

LEMMA LastsInterrupt ==
  ASSUME State, Lasts, RedisLost \/ Crash
  PROVE  Lasts'
<1>1. PICK S \in SUBSET Active, outcome \in {"failed", "lost"} : Abandon(S, outcome)
  BY DEF RedisLost, Crash
<1>2. /\ UNCHANGED <<applications, deployments, op, at, before, listed, todo>>
      /\ \A j \in Tasks : Begun(j)' = Begun(j)
  BY <1>1 DEF Abandon, stores, Active, Begun
<1>3. \A i \in Tasks : \/ pc'[i] = "done" /\ result'[i] # "ok"
                       \/ /\ pc'[i] = pc[i] /\ app'[i] = app[i] /\ rec'[i] = rec[i] /\ all'[i] = all[i]
                          /\ result'[i] = result[i]
  BY <1>1 DEF Abandon
<1> QED BY <1>2, <1>3, LastsKept

LEMMA InitLasts == Init => Lasts
BY DEF Init, Lasts, AppLasts, DepLasts, WroteDeps, HasWritten, Begun

LEMMA NextLasts == State /\ AllFacts /\ Lasts /\ [Next]_vars => Lasts'
<1> SUFFICES ASSUME State, AllFacts, Lasts, [Next]_vars PROVE Lasts'
  OBVIOUS
<1>1. ASSUME NEW k \in Tasks, NEW o \in Requests, Begin(k, o) PROVE Lasts'
  BY <1>1, LastsBegin
<1>2. ASSUME NEW k \in Tasks, TaskStep(k) PROVE Lasts'
  BY <1>2, OwnAppLasts, OwnDepLasts, OtherAppLasts, OtherDepLasts DEF Lasts
<1>3. CASE RedisLost \/ Crash
  BY <1>3, LastsInterrupt
<1>4. CASE UNCHANGED vars
  BY <1>4, LastsKept DEF vars, held, stores, Begun
<1> QED BY <1>1, <1>2, <1>3, <1>4 DEF Next, TaskStep

\* An effect that was reported lasts: crashes, restarts of the server, broken connections,
\* failing tasks and later tasks, as many as there are and however they overlap one
\* another, undo it only if one of them was at work together with the task, or was asked
\* for the opposite.
THEOREM EffectsLast == Spec => []LostOnlyToRivals
<1>1. AllFacts /\ Lasts => LostOnlyToRivals
  <2> SUFFICES ASSUME AllFacts, Lasts PROVE LostOnlyToRivals
    OBVIOUS
  <2>1. ASSUME NEW k \in Tasks, result[k] = "ok", op[k].word \in AppWords, AppClear(k)
        PROVE  AppHas(op[k], applications[op[k].app])
    BY <2>1 DEF Lasts, AppLasts, AppKept, HasWritten
  <2>2. ASSUME NEW k \in Tasks, NEW d \in DepsWritten(k), DepClear(k, d)
        PROVE  DepHas(op[k], deployments[d])
    <3>1. d \in WroteDeps(k)
      BY <2>2 DEF DepsWritten, WroteDeps, HasWritten
    <3> QED BY <2>2, <3>1 DEF Lasts, DepLasts, DepKept
  <2> QED BY <2>1, <2>2 DEF LostOnlyToRivals
<1> QED BY <1>1, InitState, NextState, InitFacts, NextFacts, InitLasts, NextLasts, PTL DEF Spec
=============================================================================
