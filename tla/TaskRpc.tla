-------------------------------- MODULE TaskRpc --------------------------------
(***************************************************************************)
(* The task protocol of mcloud/remote.py: the websocket Server with its    *)
(* ApiRpcServer (ticket_map, tasks_running), and the Client / Task objects *)
(* of the command line.  A client asks for a task; the server takes a      *)
(* ticket number from Redis, answers with it, starts the task in a later   *)
(* reactor turn, and reports progress and one outcome as events carrying   *)
(* the ticket.                                                             *)
(*                                                                         *)
(* One action is one turn of the (single threaded) Twisted reactor, from   *)
(* one yield or callLater to the next.  A connection is two FIFO queues.   *)
(***************************************************************************)
EXTENDS Naturals, Sequences, FiniteSets

CONSTANTS
  Sessions,     \* client connections, each opened at most once
  NoSession,    \* "not in ticket_map"
  Words,        \* the values of data['task'] the clients send
  Kinds,        \* how the tasks they start behave
  MaxRequests,  \* bound: requests one session sends
  MaxTickets,   \* bound: values of the Redis counter mcloud-ticket-id
  MaxChannel,   \* bound: progress is held back while this much is undelivered
  RedisMayFail  \* whether the Redis connection may be lost

\* "query" stands for ping, list and any word the server does not know: they
\* change nothing and are answered at once.
AllWords == {"task_start", "kill", "query", "stdin"}

\* "unknown": no such task.  "raises": the callable raises, or returns no
\* Deferred.  "syncfail": the Deferred it returns has failed already.
\* "async": the task yields at least once before it ends.
AllKinds == {"unknown", "raises", "syncfail", "async"}

ASSUME RpcAssumption ==
  /\ NoSession \notin Sessions
  /\ Words \subseteq AllWords
  /\ Kinds \subseteq AllKinds
  /\ MaxRequests \in Nat
  /\ MaxTickets \in Nat
  /\ MaxChannel \in Nat
  /\ RedisMayFail \in BOOLEAN

Ticket == 1 .. MaxTickets
RequestId == 1 .. MaxRequests
Outcomes == {"success", "failure"}

\* What a session may ask; fields a word does not use hold "none" and 0.
Asks == {a \in [word : {"task_start"}, kind : Kinds, ticket : {0}]
               \cup [word : {"kill"}, kind : {"none"}, ticket : Ticket]
               \cup [word : {"query", "stdin"}, kind : {"none"}, ticket : {0}] :
           a.word \in Words}

Request == [id : RequestId, ask : Asks]

\* A response carries the request's id, an event the id 0.
Message == [type : {"response"}, id : RequestId, ticket : Ticket,
            name : {"accepted", "killed", "not_running"}]
           \cup
           [type : {"response"}, id : RequestId, ticket : {0}, name : {"answer"}]
           \cup
           [type : {"event"}, id : {0}, ticket : Ticket,
            name : Outcomes \cup {"progress"}]

VARIABLES
  counter,        \* Redis: the last ticket number handed out
  incrs,          \* INCR commands whose reply task_start awaits, in order
  kind,           \* ticket -> kind of its task, "none" while not issued
  sched,          \* tickets whose _do_start is scheduled by callLater(0)
  ticket_map,     \* ticket -> session its events go to
  tasks_running,  \* tickets with an entry in tasks_running
  defered,        \* ticket -> the task's Deferred: "none", "waiting", "called"
  body,           \* ticket -> the task's generator: "none", "active", "ended"
  conn,           \* session -> "new", "open", "closing" (client gone), "closed"
  c2s,            \* session -> requests not yet handled by the server
  s2c,            \* session -> messages not yet handled by the client
  sent,           \* session -> Client.request_id
  request_map,    \* session -> ids whose Deferred has not fired
  task_map        \* session -> ticket -> what the client's Task knows

server == <<incrs, kind, sched, ticket_map, tasks_running, defered, body>>
client == <<sent, request_map, task_map>>
vars == <<counter, server, conn, c2s, s2c, client>>

TaskView == {"absent", "running"} \cup Outcomes

TypeOK ==
  /\ counter \in 0 .. MaxTickets
  /\ incrs \in Seq([session : Sessions, id : RequestId, kind : Kinds])
  /\ kind \in [Ticket -> Kinds \cup {"none"}]
  /\ sched \subseteq Ticket
  /\ ticket_map \in [Ticket -> Sessions \cup {NoSession}]
  /\ tasks_running \subseteq Ticket
  /\ defered \in [Ticket -> {"none", "waiting", "called"}]
  /\ body \in [Ticket -> {"none", "active", "ended"}]
  /\ conn \in [Sessions -> {"new", "open", "closing", "closed"}]
  /\ c2s \in [Sessions -> Seq(Request)]
  /\ s2c \in [Sessions -> Seq(Message)]
  /\ sent \in [Sessions -> 0 .. MaxRequests]
  /\ request_map \in [Sessions -> SUBSET RequestId]
  /\ task_map \in [Sessions -> [Ticket -> TaskView]]

ServerIdle ==
  /\ incrs = << >>
  /\ kind = [t \in Ticket |-> "none"]
  /\ sched = {}
  /\ ticket_map = [t \in Ticket |-> NoSession]
  /\ tasks_running = {}
  /\ defered = [t \in Ticket |-> "none"]
  /\ body = [t \in Ticket |-> "none"]

Init ==
  /\ counter = 0
  /\ ServerIdle
  /\ conn = [s \in Sessions |-> "new"]
  /\ c2s = [s \in Sessions |-> << >>]
  /\ s2c = [s \in Sessions |-> << >>]
  /\ sent = [s \in Sessions |-> 0]
  /\ request_map = [s \in Sessions |-> {}]
  /\ task_map = [s \in Sessions |-> [t \in Ticket |-> "absent"]]

-----------------------------------------------------------------------------
(* What the server says and forgets.                                       *)

Response(r, name, t) == [type |-> "response", id |-> r, name |-> name, ticket |-> t]
Event(name, t) == [type |-> "event", id |-> 0, name |-> name, ticket |-> t]

\* sendMessage drops what it is given once the connection is not open; what is
\* written to a client that has left is read by nobody.
Sent(q, s, m) ==
  IF s \in Sessions /\ conn[s] = "open" THEN [q EXCEPT ![s] = Append(@, m)] ELSE q

\* Mutation: ticket_map keeps the tickets that have ended.
Bug_Forget(T) ==
  /\ tasks_running' = tasks_running \ T
  /\ UNCHANGED ticket_map

\* The end of task_completed and task_failed, for the tickets that have an owner:
\* a ticket that is not in tasks_running makes the first del raise KeyError, and
\* ticket_map keeps it.
Forget(T) ==
  LET owned == {t \in T : ticket_map[t] # NoSession} IN
  /\ tasks_running' = tasks_running \ owned
  /\ ticket_map' = [t \in Ticket |-> IF t \in owned \cap tasks_running
                                     THEN NoSession ELSE ticket_map[t]]

\* task_completed and task_failed
Report(t, outcome) ==
  /\ s2c' = Sent(s2c, ticket_map[t], Event(outcome, t))
  /\ Forget({t})

\* What task_kill can cancel: the Deferred of an inlineCallbacks generator fails
\* at once; the generator is not stopped, and its own result will be swallowed.
\* On a Deferred that was called, cancel does nothing.
Cancellable == {t \in tasks_running : defered[t] = "waiting"}

Cancel(T) ==
  LET dead == T \cap Cancellable IN
  /\ defered' = [t \in Ticket |-> IF t \in dead THEN "called" ELSE defered[t]]
  /\ Forget(dead)

-----------------------------------------------------------------------------
(* The client.                                                             *)

Connect(s) ==
  /\ conn[s] = "new"
  /\ conn' = [conn EXCEPT ![s] = "open"]
  /\ UNCHANGED <<counter, server, c2s, s2c, client>>

\* Mutation: every request gets the id 1.
Bug_Call(s, ask) ==
  /\ conn[s] = "open" /\ sent[s] < MaxRequests
  /\ sent' = [sent EXCEPT ![s] = @ + 1]
  /\ request_map' = [request_map EXCEPT ![s] = @ \cup {1}]
  /\ c2s' = [c2s EXCEPT ![s] = Append(@, [id |-> 1, ask |-> ask])]
  /\ UNCHANGED <<counter, server, conn, s2c, task_map>>

\* call_sync
Call(s, ask) ==
  /\ conn[s] = "open"
  /\ sent[s] < MaxRequests
  /\ sent' = [sent EXCEPT ![s] = @ + 1]
  /\ request_map' = [request_map EXCEPT ![s] = @ \cup {sent'[s]}]
  /\ c2s' = [c2s EXCEPT ![s] =
               Append(@, [id |-> sent'[s], ask |-> ask])]
  /\ UNCHANGED <<counter, server, conn, s2c, task_map>>

\* Mutation: any event replaces the state of the task.
Bug_TaskAfter(view, m) ==
  IF m.type = "event" THEN [view EXCEPT ![m.ticket] = m.name]
  ELSE IF m.name = "accepted" THEN [view EXCEPT ![m.ticket] = "running"] ELSE view

\* The effect on the Task objects of a message: call registers the task when
\* the ticket arrives, an event finds its task or raises 'Unknown task id'.
TaskAfter(view, m) ==
  IF m.name = "accepted" THEN [view EXCEPT ![m.ticket] = "running"]
  ELSE IF m.name \in Outcomes /\ view[m.ticket] # "absent"
       THEN [view EXCEPT ![m.ticket] = m.name] ELSE view

\* Client.on_message
Receive(s) ==
  /\ conn[s] = "open"
  /\ s2c[s] # << >>
  /\ s2c' = [s2c EXCEPT ![s] = Tail(@)]
  /\ request_map' = [request_map EXCEPT ![s] = @ \ {Head(s2c[s]).id}]
  /\ task_map' = [task_map EXCEPT ![s] = TaskAfter(@, Head(s2c[s]))]
  /\ UNCHANGED <<counter, server, conn, c2s, sent>>

\* shutdown: at the end of a command, on Ctrl-C, or because the process dies.
\* What it sent may still reach the server.
Shutdown(s) ==
  /\ conn[s] = "open"
  /\ conn' = [conn EXCEPT ![s] = "closing"]
  /\ s2c' = [s2c EXCEPT ![s] = << >>]
  /\ UNCHANGED <<counter, server, c2s, client>>

-----------------------------------------------------------------------------
(* The server.                                                             *)

Serving(s) == conn[s] \in {"open", "closing"} /\ c2s[s] # << >>

Consume(s) == c2s' = [c2s EXCEPT ![s] = Tail(@)]

\* on_message, 'task_start': ask Redis for a ticket.
OnTaskStart(s) ==
  LET m == Head(c2s[s]) IN
  /\ Serving(s) /\ m.ask.word = "task_start"
  /\ Consume(s)
  /\ incrs' = Append(incrs, [session |-> s, id |-> m.id, kind |-> m.ask.kind])
  /\ UNCHANGED <<counter, kind, sched, ticket_map, tasks_running, defered, body,
                 conn, s2c, client>>

\* Mutation: a task that fails at once is started before the answer is sent.
Bug_IncrReply ==
  LET c == Head(incrs)
      t == counter + 1
      told == IF c.kind = "syncfail" THEN Sent(s2c, c.session, Event("failure", t)) ELSE s2c IN
  /\ incrs # << >> /\ counter < MaxTickets
  /\ counter' = t
  /\ incrs' = Tail(incrs)
  /\ kind' = [kind EXCEPT ![t] = c.kind]
  /\ sched' = IF c.kind = "syncfail" THEN sched ELSE sched \cup {t}
  /\ ticket_map' = [ticket_map EXCEPT ![t] = c.session]
  /\ s2c' = Sent(told, c.session, Response(c.id, "accepted", t))
  /\ UNCHANGED <<tasks_running, defered, body, conn, c2s, client>>

\* Mutation: the ticket number is one more than the tickets the process knows.
Bug_MemoryTicket ==
  LET c == Head(incrs)
      t == Cardinality({u \in Ticket : kind[u] # "none"}) + 1 IN
  /\ incrs # << >> /\ t <= MaxTickets
  /\ counter' = t
  /\ incrs' = Tail(incrs)
  /\ kind' = [kind EXCEPT ![t] = c.kind]
  /\ sched' = sched \cup {t}
  /\ ticket_map' = [ticket_map EXCEPT ![t] = c.session]
  /\ s2c' = Sent(s2c, c.session, Response(c.id, "accepted", t))
  /\ UNCHANGED <<tasks_running, defered, body, conn, c2s, client>>

\* The reply of Redis resumes task_start and, with its result, on_message.
IncrReply ==
  LET c == Head(incrs)
      t == counter + 1 IN
  /\ incrs # << >> /\ counter < MaxTickets
  /\ counter' = t
  /\ incrs' = Tail(incrs)
  /\ kind' = [kind EXCEPT ![t] = c.kind]
  /\ sched' = sched \cup {t}
  /\ ticket_map' = [ticket_map EXCEPT ![t] = c.session]
  /\ s2c' = Sent(s2c, c.session, Response(c.id, "accepted", t))
  /\ UNCHANGED <<tasks_running, defered, body, conn, c2s, client>>

\* _do_start raises ValueError outside its try block.
StartUnknown(t) ==
  /\ kind[t] = "unknown"
  /\ UNCHANGED <<s2c, tasks_running, ticket_map, defered, body>>

\* Mutation: the exception is swallowed.
Bug_StartRaises(t) ==
  /\ kind[t] = "raises"
  /\ UNCHANGED <<s2c, tasks_running, ticket_map, defered, body>>

\* The except branch of _do_start reports a ticket that never was running.
StartRaises(t) ==
  /\ kind[t] = "raises"
  /\ Report(t, "failure")
  /\ UNCHANGED <<defered, body>>

\* addErrback runs task_failed at once, before tasks_running has the ticket.
StartSyncFail(t) ==
  /\ kind[t] = "syncfail"
  /\ s2c' = Sent(s2c, ticket_map[t], Event("failure", t))
  /\ tasks_running' = tasks_running \cup {t}
  /\ defered' = [defered EXCEPT ![t] = "called"]
  /\ body' = [body EXCEPT ![t] = "ended"]
  /\ UNCHANGED ticket_map

\* Mutation: the task is not entered into tasks_running.
Bug_StartAsync(t) ==
  /\ kind[t] = "async"
  /\ defered' = [defered EXCEPT ![t] = "waiting"]
  /\ body' = [body EXCEPT ![t] = "active"]
  /\ UNCHANGED <<s2c, ticket_map, tasks_running>>

StartAsync(t) ==
  /\ kind[t] = "async"
  /\ tasks_running' = tasks_running \cup {t}
  /\ defered' = [defered EXCEPT ![t] = "waiting"]
  /\ body' = [body EXCEPT ![t] = "active"]
  /\ UNCHANGED <<s2c, ticket_map>>

DoStart(t) ==
  /\ t \in sched
  /\ sched' = sched \ {t}
  /\ StartUnknown(t) \/ StartRaises(t) \/ StartSyncFail(t) \/ StartAsync(t)
  /\ UNCHANGED <<counter, incrs, kind, conn, c2s, client>>

\* task_progress and task_stdout, called from the body of the task.
Progress(t) ==
  /\ body[t] = "active" /\ ticket_map[t] # NoSession
  /\ Len(s2c[ticket_map[t]]) < MaxChannel
  /\ s2c' = Sent(s2c, ticket_map[t], Event("progress", t))
  /\ UNCHANGED <<counter, server, conn, c2s, client>>

\* The body returns or raises.  A cancelled Deferred swallows the result.
TaskEnds(t, outcome) ==
  /\ body[t] = "active"
  /\ body' = [body EXCEPT ![t] = "ended"]
  /\ IF defered[t] = "waiting"
     THEN /\ defered' = [defered EXCEPT ![t] = "called"]
          /\ Report(t, outcome)
     ELSE UNCHANGED <<defered, s2c, tasks_running, ticket_map>>
  /\ UNCHANGED <<counter, incrs, kind, sched, conn, c2s, client>>

\* Mutation: the killer is answered before the Deferred is cancelled.
Bug_AnswerFirst(s) ==
  LET m == Head(c2s[s])
      t == m.ask.ticket
      answer == IF t \in tasks_running THEN "killed" ELSE "not_running"
      answered == Sent(s2c, s, Response(m.id, answer, t)) IN
  /\ Serving(s) /\ m.ask.word = "kill"
  /\ Consume(s)
  /\ s2c' = IF t \in Cancellable
            THEN Sent(answered, ticket_map[t], Event("failure", t)) ELSE answered
  /\ Cancel({t})
  /\ UNCHANGED <<counter, incrs, kind, sched, body, conn, client>>

\* Mutation: the failure of a cancelled task is not sent to its owner.
Bug_SilentKill(s) ==
  LET m == Head(c2s[s])
      t == m.ask.ticket
      answer == IF t \in tasks_running THEN "killed" ELSE "not_running" IN
  /\ Serving(s) /\ m.ask.word = "kill"
  /\ Consume(s)
  /\ s2c' = Sent(s2c, s, Response(m.id, answer, t))
  /\ Cancel({t})
  /\ UNCHANGED <<counter, incrs, kind, sched, body, conn, client>>

\* on_message, 'kill': task_kill reports the failure to the owner, then the
\* killer gets its answer.
OnKill(s) ==
  LET m == Head(c2s[s])
      t == m.ask.ticket
      told == IF t \in Cancellable
              THEN Sent(s2c, ticket_map[t], Event("failure", t)) ELSE s2c
      answer == IF t \in tasks_running THEN "killed" ELSE "not_running" IN
  /\ Serving(s) /\ m.ask.word = "kill"
  /\ Consume(s)
  /\ s2c' = Sent(told, s, Response(m.id, answer, t))
  /\ Cancel({t})
  /\ UNCHANGED <<counter, incrs, kind, sched, body, conn, client>>

\* Mutation: no answer to an unknown word.
Bug_OnQuery(s) ==
  /\ Serving(s) /\ Head(c2s[s]).ask.word = "query"
  /\ Consume(s)
  /\ UNCHANGED <<counter, server, conn, s2c, client>>

\* on_message, 'ping', 'list' and unknown words.
OnQuery(s) ==
  LET m == Head(c2s[s]) IN
  /\ Serving(s) /\ m.ask.word = "query"
  /\ Consume(s)
  /\ s2c' = Sent(s2c, s, Response(m.id, "answer", 0))
  /\ UNCHANGED <<counter, server, conn, client>>

\* on_message, 'stdin': published on the event bus, never answered.
OnStdin(s) ==
  /\ Serving(s) /\ Head(c2s[s]).ask.word = "stdin"
  /\ Consume(s)
  /\ UNCHANGED <<counter, server, conn, s2c, client>>

\* Mutation: the tasks of the client are left alone.
Bug_Disconnect(s) ==
  /\ conn[s] \in {"open", "closing"}
  /\ conn' = [conn EXCEPT ![s] = "closed"]
  /\ c2s' = [c2s EXCEPT ![s] = << >>]
  /\ s2c' = [s2c EXCEPT ![s] = << >>]
  /\ UNCHANGED <<counter, server, client>>

\* onClose on the server: kill_client_tasks goes over ticket_map.  Messages that
\* were under way in either direction are lost.
Disconnect(s) ==
  /\ conn[s] \in {"open", "closing"}
  /\ conn' = [conn EXCEPT ![s] = "closed"]
  /\ c2s' = [c2s EXCEPT ![s] = << >>]
  /\ s2c' = [s2c EXCEPT ![s] = << >>]
  /\ Cancel({t \in Ticket : ticket_map[t] = s})
  /\ UNCHANGED <<counter, incrs, kind, sched, body, client>>

\* Mutation: the counter starts again from zero.
Bug_LoseIncrs ==
  /\ incrs' = << >>
  /\ counter' = 0

\* The outstanding INCRs never get a reply; Redis may have executed some.
LoseIncrs ==
  /\ incrs' = << >>
  /\ \E n \in 0 .. Len(incrs) : counter + n <= MaxTickets /\ counter' = counter + n

\* The connection to Redis is lost: every INCR without a reply fails, on_message
\* logs the error, and the client is told nothing.
RedisLost ==
  /\ RedisMayFail /\ incrs # << >>
  /\ LoseIncrs
  /\ UNCHANGED <<kind, sched, ticket_map, tasks_running, defered, body,
                 conn, c2s, s2c, client>>

\* The server process dies and is started again: only the Redis counter is kept.
Restart ==
  /\ LoseIncrs
  /\ kind' = [t \in Ticket |-> "none"]
  /\ sched' = {}
  /\ ticket_map' = [t \in Ticket |-> NoSession]
  /\ tasks_running' = {}
  /\ defered' = [t \in Ticket |-> "none"]
  /\ body' = [t \in Ticket |-> "none"]
  /\ conn' = [s \in Sessions |-> IF conn[s] = "new" THEN "new" ELSE "closed"]
  /\ c2s' = [s \in Sessions |-> << >>]
  /\ s2c' = [s \in Sessions |-> << >>]
  /\ UNCHANGED client

Next ==
  \/ \E s \in Sessions :
       \/ Connect(s) \/ Receive(s) \/ Shutdown(s) \/ Disconnect(s)
       \/ \E a \in Asks : Call(s, a)
       \/ OnTaskStart(s) \/ OnKill(s) \/ OnQuery(s) \/ OnStdin(s)
  \/ \E t \in Ticket :
       \/ DoStart(t) \/ Progress(t)
       \/ \E o \in Outcomes : TaskEnds(t, o)
  \/ IncrReply \/ RedisLost \/ Restart

Spec == Init /\ [][Next]_vars

\* The reactor runs every scheduled call and reads every socket; Redis answers;
\* a client that is running reads its socket.  Nobody has to call or disconnect.
Fairness ==
  /\ \A s \in Sessions : WF_vars(Receive(s)) /\ WF_vars(OnTaskStart(s))
                         /\ WF_vars(OnKill(s)) /\ WF_vars(OnQuery(s))
  /\ \A t \in Ticket : WF_vars(DoStart(t))
  /\ WF_vars(IncrReply)

FairSpec == Spec /\ Fairness

\* For what needs a task to come to an end by itself.
TasksEnd == \A t \in Ticket : WF_vars(\E o \in Outcomes : TaskEnds(t, o))

-----------------------------------------------------------------------------
(* Safety.                                                                 *)

\* Of the first n messages under way in q, one hands out t / ends t.
AcceptedIn(q, n, t) == \E j \in 1 .. n : q[j].name = "accepted" /\ q[j].ticket = t
EndedIn(q, n, t) == \E j \in 1 .. n : q[j].name \in Outcomes /\ q[j].ticket = t

\* A client with this view of its tasks knows t / has the outcome of t when it
\* has handled the first n messages of q.
Known(view, q, n, t) == view[t] # "absent" \/ AcceptedIn(q, n, t)
Ended(view, q, n, t) == view[t] \in Outcomes \/ EndedIn(q, n, t)

\* No event overtakes the response that introduces its ticket, so on_message
\* never raises 'Unknown task id' (remote.py:397).
EventsKnown(view, q) ==
  \A i \in 1 .. Len(q) : q[i].type = "event" => Known(view, q, i - 1, q[i].ticket)

NoUnknownTaskEvent == \A s \in Sessions : EventsKnown(task_map[s], s2c[s])

\* After the outcome of a ticket comes nothing more of it: not a second outcome
\* when a kill, a disconnect and the end of the task race, and no progress of a
\* killed task whose code is still running.
EventsLive(view, q) ==
  \A i \in 1 .. Len(q) : q[i].type = "event" => ~Ended(view, q, i - 1, q[i].ticket)

OutcomeIsLast == \A s \in Sessions : EventsLive(task_map[s], s2c[s])

\* A ticket is handed out once: to one session, in one response, whatever
\* restarts of the server and failures of Redis came in between.
AcceptsFresh(view, q) ==
  \A i \in 1 .. Len(q) : q[i].name = "accepted" => ~Known(view, q, i - 1, q[i].ticket)

KnownTo(s, t) == Known(task_map[s], s2c[s], Len(s2c[s]), t)

TicketHandedOutOnce ==
  /\ \A s \in Sessions : AcceptsFresh(task_map[s], s2c[s])
  /\ \A s, o \in Sessions, t \in Ticket : KnownTo(s, t) /\ KnownTo(o, t) => s = o

\* A request is answered at most once, and only while it is open: the Deferred
\* in request_map is never fired twice.
AnsweredOnce ==
  \A s \in Sessions : \A i \in 1 .. Len(s2c[s]) :
    s2c[s][i].type = "response" =>
      /\ s2c[s][i].id \in request_map[s]
      /\ \A j \in 1 .. i - 1 : s2c[s][j].id # s2c[s][i].id

\* A client that kills its own task and is told it worked has its outcome by
\* then: terminate_task never marks a task stopped that is still waited for.
KillAckAfterOutcome ==
  \A s \in Sessions : LET q == s2c[s] IN
    \A i \in 1 .. Len(q) :
      q[i].name = "killed" /\ Known(task_map[s], q, i - 1, q[i].ticket)
        => Ended(task_map[s], q, i - 1, q[i].ticket)

\* The two tables agree on the tasks that can still be killed or reported: a
\* task that awaits its result is listed and has an owner; a listed task is
\* such a task, or the relic of one that failed while it was started; an entry
\* of ticket_map outlives its task only where _do_start fails.
TablesAgree ==
  \A t \in Ticket :
    /\ defered[t] = "waiting" =>
         body[t] = "active" /\ t \in tasks_running /\ ticket_map[t] # NoSession
    /\ t \in tasks_running => defered[t] = "waiting" \/ kind[t] = "syncfail"
    /\ ticket_map[t] # NoSession =>
         t \in sched \/ defered[t] = "waiting" \/ kind[t] # "async"

\* When the server drops a client, what it then runs for it is cancelled.  (A
\* ticket still awaited from Redis, or not yet started, escapes: it is started
\* later for a client that is gone.)
DisconnectCancels ==
  [][\A s \in Sessions : conn[s] # "closed" /\ conn'[s] = "closed" =>
       \A t \in Ticket : ticket_map[t] = s => defered'[t] # "waiting"]_vars

\* All of the above implements what clients may rely on.
Promise == INSTANCE TicketService WITH
  issued <- 1 .. counter,
  online <- [s \in Sessions |-> IF conn[s] = "new" THEN "new"
                                ELSE IF conn[s] = "open" THEN "on" ELSE "off"],
  tasks <- task_map

\* Restarts, kills, lost connections and Redis failures notwithstanding, a client
\* sees each of its tickets run and end once, and no other client sees it.
ImplementsTicketService == Promise!Spec

-----------------------------------------------------------------------------
(* Liveness.                                                               *)

\* Every request of a client that stays is answered (stdin never is; and none
\* has to be when Redis fails).
RequestsAnswered ==
  \A s \in Sessions, r \in RequestId :
    r \in request_map[s] /\ conn[s] = "open"
      ~> r \notin request_map[s] \/ conn[s] # "open"

\* If tasks come to an end, a task that exists is reported to the client that
\* waits for it.
OutcomeDelivered ==
  TasksEnd =>
    \A s \in Sessions, t \in Ticket :
      task_map[s][t] = "running" /\ conn[s] = "open" /\ kind[t] # "unknown"
        ~> task_map[s][t] \in Outcomes \/ conn[s] # "open"

\* k has asked to kill the task t of s, which can be killed.
KillUnderWay(s, k, t) ==
  /\ t \in Cancellable /\ ticket_map[t] = s /\ conn[s] = "open"
  /\ \E i \in 1 .. Len(c2s[k]) : c2s[k][i].ask = [word |-> "kill", kind |-> "none", ticket |-> t]

\* A kill releases the client that waits for the task, even if the task would
\* never end by itself.
KillReleasesOwner ==
  \A s, k \in Sessions, t \in Ticket :
    KillUnderWay(s, k, t)
      ~> task_map[s][t] \in Outcomes \/ conn[s] # "open" \/ conn[k] = "closed"

-----------------------------------------------------------------------------
(* What the repository says and the code does not do.                      *)

\* 'Task successfully treminated.' (rpc_client.py:1211): when a kill was
\* answered with success, no code of the task runs any more.
KilledTaskStops ==
  \A s \in Sessions : \A i \in 1 .. Len(s2c[s]) :
    s2c[s][i].name = "killed" => body[s2c[s][i].ticket] # "active"
=============================================================================
