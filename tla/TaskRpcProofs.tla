----------------------------- MODULE TaskRpcProofs -----------------------------
(***************************************************************************)
(* Proofs about TaskRpc, for every set of sessions and every bound: its    *)
(* tables agree; events come after the response that hands out their       *)
(* ticket and never after its outcome; tickets are handed out once; and    *)
(* the protocol implements TicketService.                                  *)
(***************************************************************************)
EXTENDS TaskRpc, TLAPS

USE RpcAssumption

-----------------------------------------------------------------------------
(* The operations on channels and tables keep their types.                 *)

\* Sending a message keeps the channels well formed.
LEMMA SentType ==
  ASSUME TypeOK, NEW q \in [Sessions -> Seq(Message)], NEW s, NEW m \in Message
  PROVE  Sent(q, s, m) \in [Sessions -> Seq(Message)]
<1>1. CASE s \in Sessions /\ conn[s] = "open"
  BY <1>1 DEF Sent
<1>2. CASE ~(s \in Sessions /\ conn[s] = "open")
  BY <1>2 DEF Sent
<1> QED BY <1>1, <1>2

\* Every message the server builds is one.
LEMMA MessagesAreMessages ==
  ASSUME NEW t \in Ticket, NEW r \in RequestId
  PROVE  /\ Response(r, "accepted", t) \in Message
         /\ Response(r, "killed", t) \in Message
         /\ Response(r, "not_running", t) \in Message
         /\ Response(r, "answer", 0) \in Message
         /\ \A o \in Outcomes \cup {"progress"} : Event(o, t) \in Message
BY DEF Response, Event, Message, RequestId, Ticket

\* Forgetting tickets keeps the tables well formed.
LEMMA ForgetType ==
  ASSUME TypeOK, NEW T \in SUBSET Ticket, Forget(T)
  PROVE  /\ tasks_running' \subseteq Ticket
         /\ ticket_map' \in [Ticket -> Sessions \cup {NoSession}]
BY DEF TypeOK, Forget

\* So does cancelling them.
LEMMA CancelType ==
  ASSUME TypeOK, NEW T \in SUBSET Ticket, Cancel(T)
  PROVE  /\ tasks_running' \subseteq Ticket
         /\ ticket_map' \in [Ticket -> Sessions \cup {NoSession}]
         /\ defered' \in [Ticket -> {"none", "waiting", "called"}]
<1>1. Forget(T \cap Cancellable)
  BY DEF Cancel
<1>2. defered' \in [Ticket -> {"none", "waiting", "called"}]
  BY DEF Cancel, TypeOK
<1> QED BY <1>1, <1>2, ForgetType

\* The request at the head of a queue is a request.
LEMMA HeadOfC2S ==
  ASSUME TypeOK, NEW s \in Sessions, c2s[s] # << >>
  PROVE  /\ Head(c2s[s]) \in Request
         /\ Head(c2s[s]).id \in RequestId
         /\ Head(c2s[s]).ask.word = "kill" => Head(c2s[s]).ask.ticket \in Ticket
         /\ Head(c2s[s]).ask.word = "task_start" => Head(c2s[s]).ask.kind \in Kinds
         /\ [c2s EXCEPT ![s] = Tail(@)] \in [Sessions -> Seq(Request)]
<1>1. c2s[s] \in Seq(Request) /\ c2s \in [Sessions -> Seq(Request)]
  BY DEF TypeOK
<1>2. Head(c2s[s]) \in Request /\ Tail(c2s[s]) \in Seq(Request)
  BY <1>1
<1>3. \A m \in Request : /\ m.id \in RequestId
                         /\ m.ask.word = "kill" => m.ask.ticket \in Ticket
                         /\ m.ask.word = "task_start" => m.ask.kind \in Kinds
  BY DEF Request, Asks
<1> QED BY <1>1, <1>2, <1>3

-----------------------------------------------------------------------------
(* Type correctness.                                                       *)

LEMMA TypeInit == Init => TypeOK
BY DEF Init, ServerIdle, TypeOK, TaskView

\* Every step keeps the types.
LEMMA TypeStep == TypeOK /\ [Next]_vars => TypeOK'
<1> SUFFICES ASSUME TypeOK, [Next]_vars PROVE TypeOK'
  OBVIOUS
<1>1. ASSUME NEW s \in Sessions, Connect(s) PROVE TypeOK'
  BY <1>1 DEF Connect, TypeOK, server, client
<1>2. ASSUME NEW s \in Sessions, Receive(s) PROVE TypeOK'
  <2> DEFINE m == Head(s2c[s])
  <2>1. m \in Message /\ Tail(s2c[s]) \in Seq(Message)
    BY <1>2 DEF Receive, TypeOK
  <2>2. task_map[s] \in [Ticket -> TaskView]
    BY DEF TypeOK
  <2>3. m.name = "accepted" => m.ticket \in Ticket \cup {0}
    BY <2>1 DEF Message
  <2>4. TaskAfter(task_map[s], m) \in [Ticket -> TaskView]
    <3>1. CASE m.name = "accepted"
      BY <3>1, <2>2 DEF TaskAfter, TaskView
    <3>2. CASE m.name # "accepted" /\ m.name \in Outcomes /\ task_map[s][m.ticket] # "absent"
      BY <3>2, <2>2 DEF TaskAfter, TaskView
    <3>3. CASE m.name # "accepted" /\ ~(m.name \in Outcomes /\ task_map[s][m.ticket] # "absent")
      BY <3>3, <2>2 DEF TaskAfter, TaskView
    <3> QED BY <3>1, <3>2, <3>3
  <2>5. s2c' \in [Sessions -> Seq(Message)]
    BY <1>2, <2>1 DEF Receive, TypeOK
  <2>6. task_map' \in [Sessions -> [Ticket -> TaskView]]
    BY <1>2, <2>4 DEF Receive, TypeOK
  <2>7. request_map' \in [Sessions -> SUBSET RequestId]
    BY <1>2 DEF Receive, TypeOK
  <2> QED BY <1>2, <2>5, <2>6, <2>7 DEF Receive, TypeOK, server, client
<1>3. ASSUME NEW s \in Sessions, Shutdown(s) PROVE TypeOK'
  BY <1>3 DEF Shutdown, TypeOK, server, client
<1>4. ASSUME NEW s \in Sessions, Disconnect(s) PROVE TypeOK'
  <2>1. {t \in Ticket : ticket_map[t] = s} \in SUBSET Ticket
    OBVIOUS
  <2>2. /\ tasks_running' \subseteq Ticket
        /\ ticket_map' \in [Ticket -> Sessions \cup {NoSession}]
        /\ defered' \in [Ticket -> {"none", "waiting", "called"}]
    BY <1>4, <2>1, CancelType DEF Disconnect
  <2> QED BY <1>4, <2>2 DEF Disconnect, TypeOK, server, client
<1>5. ASSUME NEW s \in Sessions, NEW a \in Asks, Call(s, a) PROVE TypeOK'
  <2>1. sent[s] + 1 \in RequestId /\ sent' \in [Sessions -> 0 .. MaxRequests]
    BY <1>5 DEF Call, TypeOK, RequestId
  <2>2. sent'[s] = sent[s] + 1
    BY <1>5 DEF Call, TypeOK
  <2>3. [id |-> sent'[s], ask |-> a] \in Request
    BY <2>1, <2>2 DEF Request
  <2>4. c2s' \in [Sessions -> Seq(Request)]
    BY <1>5, <2>3 DEF Call, TypeOK
  <2>5. request_map' \in [Sessions -> SUBSET RequestId]
    BY <1>5, <2>1, <2>2 DEF Call, TypeOK
  <2> QED BY <1>5, <2>1, <2>4, <2>5 DEF Call, TypeOK, server, client
<1>6. ASSUME NEW s \in Sessions, OnTaskStart(s) PROVE TypeOK'
  <2> DEFINE m == Head(c2s[s])
  <2>1. m.id \in RequestId /\ m.ask.kind \in Kinds /\ c2s' \in [Sessions -> Seq(Request)]
    BY <1>6, HeadOfC2S DEF OnTaskStart, Serving, Consume
  <2>2. incrs' \in Seq([session : Sessions, id : RequestId, kind : Kinds])
    BY <1>6, <2>1 DEF OnTaskStart, TypeOK
  <2> QED BY <1>6, <2>1, <2>2 DEF OnTaskStart, TypeOK, client
<1>7. ASSUME NEW s \in Sessions, OnKill(s) PROVE TypeOK'
  <2> DEFINE m == Head(c2s[s])
  <2> DEFINE t == m.ask.ticket
  <2>1. m.id \in RequestId /\ t \in Ticket /\ c2s' \in [Sessions -> Seq(Request)]
    BY <1>7, HeadOfC2S DEF OnKill, Serving, Consume
  <2> DEFINE told == IF t \in Cancellable
                     THEN Sent(s2c, ticket_map[t], Event("failure", t)) ELSE s2c
  <2> DEFINE answer == Response(m.id, IF t \in tasks_running THEN "killed" ELSE "not_running", t)
  <2>2. answer \in Message /\ Event("failure", t) \in Message
    BY <2>1, MessagesAreMessages DEF Outcomes
  <2>3. told \in [Sessions -> Seq(Message)]
    BY <2>2, SentType DEF TypeOK
  <2>4. s2c' = Sent(told, s, answer)
    BY <1>7 DEF OnKill
  <2>5. s2c' \in [Sessions -> Seq(Message)]
    <3> HIDE DEF told, answer
    <3> QED BY <2>2, <2>3, <2>4, SentType
  <2>6. Cancel({t}) /\ {t} \in SUBSET Ticket
    BY <1>7, <2>1 DEF OnKill
  <2>7. /\ tasks_running' \subseteq Ticket
        /\ ticket_map' \in [Ticket -> Sessions \cup {NoSession}]
        /\ defered' \in [Ticket -> {"none", "waiting", "called"}]
    BY <2>6, CancelType
  <2> QED BY <1>7, <2>1, <2>5, <2>7 DEF OnKill, TypeOK, client
<1>8. ASSUME NEW s \in Sessions, OnQuery(s) PROVE TypeOK'
  <2>1. c2s' \in [Sessions -> Seq(Request)] /\ Head(c2s[s]).id \in RequestId
    BY <1>8, HeadOfC2S DEF OnQuery, Serving, Consume
  <2>2. Response(Head(c2s[s]).id, "answer", 0) \in Message
    BY <2>1 DEF Response, Message
  <2>3. s2c' \in [Sessions -> Seq(Message)]
    BY <1>8, <2>2, SentType DEF OnQuery, TypeOK
  <2> QED BY <1>8, <2>1, <2>3 DEF OnQuery, TypeOK, server, client
<1>9. ASSUME NEW s \in Sessions, OnStdin(s) PROVE TypeOK'
  <2>1. c2s' \in [Sessions -> Seq(Request)]
    BY <1>9, HeadOfC2S DEF OnStdin, Serving, Consume
  <2> QED BY <1>9, <2>1 DEF OnStdin, TypeOK, server, client
<1>10. ASSUME NEW t \in Ticket, DoStart(t) PROVE TypeOK'
  <2>1. sched' \subseteq Ticket /\ Event("failure", t) \in Message
    BY <1>10 DEF DoStart, TypeOK, Event, Message, Outcomes
  <2>2. CASE StartUnknown(t)
    BY <1>10, <2>1, <2>2 DEF DoStart, StartUnknown, TypeOK, client
  <2>3. CASE StartRaises(t)
    <3>1. s2c' \in [Sessions -> Seq(Message)] /\ Forget({t})
      BY <2>1, <2>3, SentType DEF StartRaises, Report, TypeOK
    <3>2. /\ tasks_running' \subseteq Ticket
          /\ ticket_map' \in [Ticket -> Sessions \cup {NoSession}]
      BY <3>1, ForgetType
    <3> QED BY <1>10, <2>1, <2>3, <3>1, <3>2 DEF DoStart, StartRaises, TypeOK, client
  <2>4. CASE StartSyncFail(t)
    <3>1. s2c' \in [Sessions -> Seq(Message)]
      BY <2>1, <2>4, SentType DEF StartSyncFail, TypeOK
    <3> QED BY <1>10, <2>1, <2>4, <3>1 DEF DoStart, StartSyncFail, TypeOK, client
  <2>5. CASE StartAsync(t)
    BY <1>10, <2>1, <2>5 DEF DoStart, StartAsync, TypeOK, client
  <2> QED BY <1>10, <2>2, <2>3, <2>4, <2>5 DEF DoStart
<1>11. ASSUME NEW t \in Ticket, Progress(t) PROVE TypeOK'
  <2>1. Event("progress", t) \in Message
    BY DEF Event, Message
  <2>2. s2c \in [Sessions -> Seq(Message)]
    BY DEF TypeOK
  <2>3. s2c' = Sent(s2c, ticket_map[t], Event("progress", t))
    BY <1>11 DEF Progress
  <2>4. s2c' \in [Sessions -> Seq(Message)]
    BY <2>1, <2>2, <2>3, SentType
  <2> QED BY <1>11, <2>4 DEF Progress, TypeOK, server, client
<1>12. ASSUME NEW t \in Ticket, NEW o \in Outcomes, TaskEnds(t, o) PROVE TypeOK'
  <2>1. Event(o, t) \in Message
    BY DEF Event, Message
  <2>2. CASE defered[t] = "waiting"
    <3>0. s2c' = Sent(s2c, ticket_map[t], Event(o, t)) /\ Forget({t})
      BY <1>12, <2>2 DEF TaskEnds, Report
    <3>1. s2c' \in [Sessions -> Seq(Message)]
      BY <2>1, <3>0, SentType DEF TypeOK
    <3>2. /\ tasks_running' \subseteq Ticket
          /\ ticket_map' \in [Ticket -> Sessions \cup {NoSession}]
      BY <3>0, ForgetType
    <3> QED BY <1>12, <2>2, <3>1, <3>2 DEF TaskEnds, TypeOK, client
  <2>3. CASE defered[t] # "waiting"
    BY <1>12, <2>3 DEF TaskEnds, TypeOK, client
  <2> QED BY <2>2, <2>3
<1>13. ASSUME IncrReply PROVE TypeOK'
  <2> DEFINE c == Head(incrs)
  <2> DEFINE C == [session : Sessions, id : RequestId, kind : Kinds]
  <2>0. counter + 1 \in Ticket /\ counter + 1 \in 0 .. MaxTickets
    BY <1>13 DEF IncrReply, TypeOK, Ticket
  <2>1. c \in C /\ Tail(incrs) \in Seq(C)
    <3>1. incrs \in Seq(C) /\ incrs # << >>
      BY <1>13 DEF IncrReply, TypeOK
    <3> HIDE DEF C
    <3> QED BY <3>1
  <2>2. Response(c.id, "accepted", counter + 1) \in Message
    BY <2>0, <2>1, MessagesAreMessages
  <2>3. s2c' \in [Sessions -> Seq(Message)]
    BY <1>13, <2>2, SentType DEF IncrReply, TypeOK
  <2> QED BY <1>13, <2>0, <2>1, <2>3 DEF IncrReply, TypeOK, client
<1>14. ASSUME RedisLost PROVE TypeOK'
  BY <1>14 DEF RedisLost, LoseIncrs, TypeOK, client
<1>15. ASSUME Restart PROVE TypeOK'
  BY <1>15 DEF Restart, LoseIncrs, TypeOK, client
<1>16. CASE UNCHANGED vars
  BY <1>16 DEF vars, server, client, TypeOK
<1> QED
  BY <1>1, <1>2, <1>3, <1>4, <1>5, <1>6, <1>7, <1>8, <1>9, <1>10, <1>11, <1>12,
     <1>13, <1>14, <1>15, <1>16 DEF Next

\* Every state the protocol can reach is well typed.
THEOREM TypeCorrect == Spec => []TypeOK
BY TypeInit, TypeStep, PTL DEF Spec

-----------------------------------------------------------------------------
(* The two tables of the server.                                           *)

\* A ticket beyond the counter is unknown to the server; a ticket that waits to be
\* started has an owner and nothing else; code that outlives its Deferred has no
\* owner.
TicketsInOrder ==
  \A t \in Ticket :
    /\ t > counter => /\ kind[t] = "none" /\ ticket_map[t] = NoSession
                      /\ t \notin sched /\ t \notin tasks_running
                      /\ defered[t] = "none" /\ body[t] = "none"
    /\ t \in sched => /\ ticket_map[t] # NoSession /\ t \notin tasks_running
                      /\ defered[t] = "none" /\ body[t] = "none"
    /\ body[t] = "active" => defered[t] = "waiting" \/ ticket_map[t] = NoSession

\* What makes TablesAgree inductive.
TablesInv == TypeOK /\ TicketsInOrder /\ TablesAgree

LEMMA TablesInit == Init => TablesInv
BY TypeInit DEF TablesInv, TicketsInOrder, TablesAgree, Init, ServerIdle

\* Cancelling tickets leaves nothing of them that the tables disagree on.
LEMMA CancelKeepsTables ==
  ASSUME TablesInv, TypeOK', NEW T \in SUBSET Ticket, Cancel(T),
         UNCHANGED <<counter, kind, sched, body>>
  PROVE  TicketsInOrder' /\ TablesAgree'
<1> DEFINE dead == T \cap Cancellable
<1>1. \A t \in dead : /\ defered[t] = "waiting" /\ t \in Ticket
                      /\ ticket_map[t] # NoSession /\ t \in tasks_running
  BY DEF TablesInv, TablesAgree, Cancellable
<1>2. tasks_running' = tasks_running \ dead
  BY <1>1 DEF Cancel, Forget
<1>3. ticket_map' = [t \in Ticket |-> IF t \in dead THEN NoSession ELSE ticket_map[t]]
  BY <1>1 DEF Cancel, Forget
<1>4. defered' = [t \in Ticket |-> IF t \in dead THEN "called" ELSE defered[t]]
  BY DEF Cancel
<1> HIDE DEF dead
<1>5. TicketsInOrder'
  BY <1>1, <1>2, <1>3, <1>4 DEF TablesInv, TicketsInOrder
<1>6. TablesAgree'
  BY <1>1, <1>2, <1>3, <1>4 DEF TablesInv, TablesAgree
<1> QED BY <1>5, <1>6

LEMMA TablesStep == TablesInv /\ [Next]_vars => TablesInv'
<1> SUFFICES ASSUME TablesInv, [Next]_vars PROVE TicketsInOrder' /\ TablesAgree'
  BY TypeStep DEF TablesInv
<1>0. TypeOK /\ TypeOK'
  BY TypeStep DEF TablesInv
<1> DEFINE Goal == TicketsInOrder' /\ TablesAgree'
<1>a. ASSUME UNCHANGED <<counter, server>> PROVE Goal
  BY <1>a DEF TablesInv, TicketsInOrder, TablesAgree, server
<1>1. ASSUME NEW s \in Sessions, Connect(s) \/ Receive(s) \/ Shutdown(s) PROVE Goal
  BY <1>a, <1>1 DEF Connect, Receive, Shutdown
<1>2. ASSUME NEW s \in Sessions, Disconnect(s) PROVE Goal
  <2>1. {t \in Ticket : ticket_map[t] = s} \in SUBSET Ticket
    OBVIOUS
  <2> QED BY <1>0, <1>2, <2>1, CancelKeepsTables DEF Disconnect
<1>3. ASSUME NEW s \in Sessions, NEW a \in Asks, Call(s, a) PROVE Goal
  BY <1>a, <1>3 DEF Call
<1>4. ASSUME NEW s \in Sessions, OnQuery(s) \/ OnStdin(s) PROVE Goal
  BY <1>a, <1>4 DEF OnQuery, OnStdin
<1>5. ASSUME NEW s \in Sessions, OnTaskStart(s) PROVE Goal
  BY <1>5 DEF OnTaskStart, TablesInv, TicketsInOrder, TablesAgree
<1>6. ASSUME NEW s \in Sessions, OnKill(s) PROVE Goal
  <2>1. Head(c2s[s]).ask.ticket \in Ticket
    BY <1>0, <1>6, HeadOfC2S DEF OnKill, Serving
  <2>2. {Head(c2s[s]).ask.ticket} \in SUBSET Ticket
    BY <2>1
  <2>3. Cancel({Head(c2s[s]).ask.ticket}) /\ UNCHANGED <<counter, kind, sched, body>>
    BY <1>6 DEF OnKill
  <2> QED BY <1>0, <2>2, <2>3, CancelKeepsTables
<1>7. ASSUME NEW t \in Ticket, DoStart(t) PROVE Goal
  <2> USE <1>0, <1>7 DEF DoStart, TablesInv, TicketsInOrder, TablesAgree, TypeOK
  <2>1. CASE StartUnknown(t)
    BY <2>1 DEF StartUnknown
  <2>2. CASE StartRaises(t)
    <3>1. Forget({t}) /\ t \notin tasks_running /\ kind[t] = "raises"
      BY <2>2 DEF StartRaises, Report
    <3>2. UNCHANGED <<tasks_running, ticket_map>>
      BY <3>1 DEF Forget
    <3> QED BY <2>2, <3>1, <3>2 DEF StartRaises
  <2>3. CASE StartSyncFail(t)
    BY <2>3 DEF StartSyncFail
  <2>4. CASE StartAsync(t)
    BY <2>4 DEF StartAsync
  <2> QED BY <2>1, <2>2, <2>3, <2>4
<1>8. ASSUME NEW t \in Ticket, Progress(t) PROVE Goal
  BY <1>a, <1>8 DEF Progress
<1>9. ASSUME NEW t \in Ticket, NEW o \in Outcomes, TaskEnds(t, o) PROVE Goal
  <2>1. CASE defered[t] = "waiting"
    <3>1. Forget({t}) /\ t \in tasks_running /\ ticket_map[t] # NoSession
      BY <1>9, <2>1 DEF TaskEnds, Report, TablesInv, TablesAgree
    <3>2. /\ tasks_running' = tasks_running \ {t}
          /\ ticket_map' = [u \in Ticket |-> IF u = t THEN NoSession ELSE ticket_map[u]]
      BY <3>1 DEF Forget
    <3> QED BY <1>0, <1>9, <2>1, <3>1, <3>2
            DEF TaskEnds, TablesInv, TicketsInOrder, TablesAgree, TypeOK
  <2>2. CASE defered[t] # "waiting"
    BY <1>0, <1>9, <2>2 DEF TaskEnds, TablesInv, TicketsInOrder, TablesAgree, TypeOK
  <2> QED BY <2>1, <2>2
<1>10. ASSUME IncrReply PROVE Goal
  <2>1. /\ counter + 1 \in Ticket /\ counter' = counter + 1 /\ counter \in Nat
        /\ Head(incrs).session \in Sessions
    <3> DEFINE C == [session : Sessions, id : RequestId, kind : Kinds]
    <3>1. incrs \in Seq(C) /\ incrs # << >>
      BY <1>0, <1>10 DEF IncrReply, TypeOK
    <3>2. Head(incrs) \in C
      <4> HIDE DEF C
      <4> QED BY <3>1
    <3>3. Head(incrs).session \in Sessions
      BY <3>2
    <3>4. counter < MaxTickets /\ counter' = counter + 1
      BY <1>10 DEF IncrReply
    <3>5. counter \in 0 .. MaxTickets
      BY <1>0 DEF TypeOK
    <3>6. counter \in Nat /\ counter + 1 \in Ticket
      BY <3>4, <3>5, RpcAssumption DEF Ticket, RpcAssumption
    <3> QED BY <3>3, <3>4, <3>6
  <2> DEFINE n == counter + 1
  <2>2. /\ kind[n] = "none" /\ n \notin tasks_running
        /\ defered[n] = "none" /\ body[n] = "none"
    BY <2>1 DEF TablesInv, TicketsInOrder
  <2>3. \A t \in Ticket : t > counter' => t > counter /\ t # n
    BY <2>1 DEF Ticket
  <2> HIDE DEF n
  <2>4. /\ sched' = sched \cup {n}
        /\ kind' = [kind EXCEPT ![n] = Head(incrs).kind]
        /\ ticket_map' = [ticket_map EXCEPT ![n] = Head(incrs).session]
        /\ UNCHANGED <<tasks_running, defered, body>>
    BY <1>10 DEF IncrReply, n
  <2>5. /\ ticket_map'[n] # NoSession /\ n \in sched'
        /\ \A t \in Ticket \ {n} : /\ kind'[t] = kind[t] /\ ticket_map'[t] = ticket_map[t]
                                   /\ t \in sched' <=> t \in sched
    BY <1>0, <2>1, <2>4 DEF TypeOK
  <2>6. ~(n > counter')
    BY <2>1 DEF n
  <2>7. TicketsInOrder'
    BY <2>2, <2>3, <2>4, <2>5, <2>6 DEF TablesInv, TicketsInOrder
  <2>8. TablesAgree'
    <3> SUFFICES ASSUME NEW t \in Ticket PROVE
          /\ defered[t] = "waiting" =>
               body[t] = "active" /\ t \in tasks_running /\ ticket_map'[t] # NoSession
          /\ t \in tasks_running => defered[t] = "waiting" \/ kind'[t] = "syncfail"
          /\ ticket_map'[t] # NoSession =>
               t \in sched' \/ defered[t] = "waiting" \/ kind'[t] # "async"
      BY <2>4 DEF TablesAgree
    <3>1. CASE t = n
      BY <2>2, <2>5, <3>1
    <3>2. CASE t # n
      BY <2>5, <3>2 DEF TablesInv, TablesAgree
    <3> QED BY <3>1, <3>2
  <2> QED BY <2>7, <2>8
<1>11. ASSUME RedisLost PROVE Goal
  <2>1. counter' >= counter /\ counter \in Nat /\ counter' \in Nat
    BY <1>0, <1>11 DEF RedisLost, LoseIncrs, TypeOK
  <2>2. \A t \in Ticket : t > counter' => t > counter
    BY <2>1 DEF Ticket
  <2> QED BY <1>11, <2>2 DEF RedisLost, TablesInv, TicketsInOrder, TablesAgree
<1>12. ASSUME Restart PROVE Goal
  BY <1>12 DEF Restart, TicketsInOrder, TablesAgree
<1>13. CASE UNCHANGED vars
  BY <1>a, <1>13 DEF vars
<1> QED
  BY <1>1, <1>2, <1>3, <1>4, <1>5, <1>6, <1>7, <1>8, <1>9, <1>10, <1>11, <1>12, <1>13
  DEF Next

\* However kills, disconnects and ends of tasks interleave, a task that awaits
\* its result stays listed and owned, and nothing else of an ordinary task stays.
THEOREM TablesAlwaysAgree == Spec => []TablesAgree
<1>1. Spec => []TablesInv
  BY TablesInit, TablesStep, PTL DEF Spec
<1>2. TablesInv => TablesAgree
  BY DEF TablesInv
<1> QED BY <1>1, <1>2, PTL

\* When the server drops a client, no task it runs for that client goes on being
\* awaited: one that awaits its result is listed, so that it can be cancelled.
THEOREM DisconnectAlwaysCancels == Spec => DisconnectCancels
<1>1. Spec => []TablesInv
  BY TablesInit, TablesStep, PTL DEF Spec
<1> DEFINE Cancels == \A s \in Sessions : conn[s] # "closed" /\ conn'[s] = "closed" =>
                        \A t \in Ticket : ticket_map[t] = s => defered'[t] # "waiting"
<1>2. TablesInv /\ [Next]_vars => [Cancels]_vars
  <2> SUFFICES ASSUME TablesInv, Next PROVE Cancels
    OBVIOUS
  <2>0. conn \in [Sessions -> {"new", "open", "closing", "closed"}]
    BY DEF TablesInv, TypeOK
  <2>1. ASSUME NEW s \in Sessions, Disconnect(s) PROVE Cancels
    <3>1. conn' = [conn EXCEPT ![s] = "closed"] /\ Cancel({t \in Ticket : ticket_map[t] = s})
      BY <2>1 DEF Disconnect
    <3>2. ASSUME NEW t \in Ticket, ticket_map[t] = s PROVE defered'[t] # "waiting"
      BY <3>1, <3>2 DEF Cancel, Cancellable, TablesInv, TablesAgree
    <3>3. \A r \in Sessions : conn[r] # "closed" /\ conn'[r] = "closed" => r = s
      BY <2>0, <3>1
    <3> QED BY <3>2, <3>3
  <2>2. CASE Restart
    BY <2>2 DEF Restart
  <2>3. ASSUME NEW s \in Sessions, Connect(s) \/ Shutdown(s) PROVE Cancels
    BY <2>0, <2>3 DEF Connect, Shutdown
  <2>4. ASSUME NEW s \in Sessions,
               \/ Receive(s) \/ OnTaskStart(s) \/ OnKill(s) \/ OnQuery(s) \/ OnStdin(s)
               \/ \E a \in Asks : Call(s, a)
        PROVE  Cancels
    <3>1. conn' = conn
      BY <2>4 DEF Receive, OnTaskStart, OnKill, OnQuery, OnStdin, Call
    <3> QED BY <3>1
  <2>5. ASSUME NEW t \in Ticket, DoStart(t) \/ Progress(t) \/ \E o \in Outcomes : TaskEnds(t, o)
        PROVE  Cancels
    <3>1. conn' = conn
      BY <2>5 DEF DoStart, Progress, TaskEnds
    <3> QED BY <3>1
  <2>6. CASE IncrReply \/ RedisLost
    <3>1. conn' = conn
      BY <2>6 DEF IncrReply, RedisLost
    <3> QED BY <3>1
  <2> QED BY <2>1, <2>2, <2>3, <2>4, <2>5, <2>6 DEF Next
<1>3. DisconnectCancels <=> [][Cancels]_vars
  BY DEF DisconnectCancels
<1> HIDE DEF Cancels
<1> QED BY <1>1, <1>2, <1>3, PTL DEF Spec

-----------------------------------------------------------------------------
(* One channel: a message is appended, a message is taken.                 *)

\* Appending a message changes nothing about what comes before it.
LEMMA AppendKeeps ==
  ASSUME NEW view, NEW q \in Seq(Message), NEW m \in Message
  PROVE  /\ Len(Append(q, m)) = Len(q) + 1 /\ Append(q, m)[Len(q) + 1] = m
         /\ \A i \in 1 .. Len(q) : Append(q, m)[i] = q[i]
         /\ \A n \in 0 .. Len(q) : \A t :
              /\ AcceptedIn(Append(q, m), n, t) <=> AcceptedIn(q, n, t)
              /\ EndedIn(Append(q, m), n, t) <=> EndedIn(q, n, t)
              /\ Known(view, Append(q, m), n, t) <=> Known(view, q, n, t)
              /\ Ended(view, Append(q, m), n, t) <=> Ended(view, q, n, t)
<1> DEFINE r == Append(q, m)
<1>1. Len(r) = Len(q) + 1 /\ r[Len(q) + 1] = m /\ Len(q) \in Nat
  OBVIOUS
<1>2. \A i \in 1 .. Len(q) : r[i] = q[i]
  OBVIOUS
<1> HIDE DEF r
<1>3. ASSUME NEW n \in 0 .. Len(q), NEW t
      PROVE  /\ AcceptedIn(r, n, t) <=> AcceptedIn(q, n, t)
             /\ EndedIn(r, n, t) <=> EndedIn(q, n, t)
  <2>1. \A i \in 1 .. n : i \in 1 .. Len(q)
    BY <1>1
  <2> QED BY <2>1, <1>2 DEF AcceptedIn, EndedIn
<1> QED BY <1>1, <1>2, <1>3 DEF Known, Ended, r

\* At the end of the channel, the new message counts.
LEMMA AppendAdds ==
  ASSUME NEW view, NEW q \in Seq(Message), NEW m \in Message, NEW t
  PROVE  /\ Known(view, Append(q, m), Len(Append(q, m)), t)
              <=> Known(view, q, Len(q), t) \/ (m.name = "accepted" /\ m.ticket = t)
         /\ Ended(view, Append(q, m), Len(Append(q, m)), t)
              <=> Ended(view, q, Len(q), t) \/ (m.name \in Outcomes /\ m.ticket = t)
<1> DEFINE r == Append(q, m)
<1>1. /\ Len(r) = Len(q) + 1 /\ r[Len(q) + 1] = m /\ Len(q) \in Nat
      /\ \A i \in 1 .. Len(q) : r[i] = q[i]
  BY AppendKeeps
<1> HIDE DEF r
<1>2. AcceptedIn(r, Len(r), t) <=> AcceptedIn(q, Len(q), t) \/ (m.name = "accepted" /\ m.ticket = t)
  BY <1>1 DEF AcceptedIn
<1>3. EndedIn(r, Len(r), t) <=> EndedIn(q, Len(q), t) \/ (m.name \in Outcomes /\ m.ticket = t)
  BY <1>1 DEF EndedIn
<1> QED BY <1>2, <1>3 DEF Known, Ended, r

\* Order on a channel: the three properties of one client together.
InOrder(view, q) == EventsKnown(view, q) /\ EventsLive(view, q) /\ AcceptsFresh(view, q)

LEMMA AppendInOrder ==
  ASSUME NEW view, NEW q \in Seq(Message), NEW m \in Message, InOrder(view, q),
         m.type = "event" => /\ Known(view, q, Len(q), m.ticket)
                             /\ ~Ended(view, q, Len(q), m.ticket),
         m.name = "accepted" => ~Known(view, q, Len(q), m.ticket)
  PROVE  InOrder(view, Append(q, m))
<1> DEFINE r == Append(q, m)
<1>1. /\ Len(r) = Len(q) + 1 /\ r[Len(q) + 1] = m /\ Len(q) \in Nat
      /\ \A i \in 1 .. Len(q) : r[i] = q[i]
      /\ \A n \in 0 .. Len(q) : \A t :
           /\ Known(view, r, n, t) <=> Known(view, q, n, t)
           /\ Ended(view, r, n, t) <=> Ended(view, q, n, t)
  BY AppendKeeps
<1> HIDE DEF r
<1>2. SUFFICES ASSUME NEW i \in 1 .. Len(r)
      PROVE /\ r[i].type = "event" => /\ Known(view, r, i - 1, r[i].ticket)
                                      /\ ~Ended(view, r, i - 1, r[i].ticket)
            /\ r[i].name = "accepted" => ~Known(view, r, i - 1, r[i].ticket)
  BY DEF InOrder, EventsKnown, EventsLive, AcceptsFresh, r
<1>3. i - 1 \in 0 .. Len(q)
  BY <1>1
<1>4. CASE i = Len(q) + 1
  <2>1. r[i] = m /\ i - 1 = Len(q)
    BY <1>1, <1>4
  <2> QED BY <1>1, <1>3, <2>1
<1>5. CASE i # Len(q) + 1
  <2>1. i \in 1 .. Len(q) /\ r[i] = q[i]
    BY <1>1, <1>5
  <2>2. /\ q[i].type = "event" => /\ Known(view, q, i - 1, q[i].ticket)
                                  /\ ~Ended(view, q, i - 1, q[i].ticket)
        /\ q[i].name = "accepted" => ~Known(view, q, i - 1, q[i].ticket)
    BY <2>1 DEF InOrder, EventsKnown, EventsLive, AcceptsFresh
  <2> QED BY <1>1, <1>3, <2>1, <2>2
<1> QED BY <1>4, <1>5

\* What the client knows moves from the channel into its Task objects.
LEMMA TailMoves ==
  ASSUME NEW view \in [Ticket -> TaskView], NEW q \in Seq(Message), q # << >>,
         InOrder(view, q), NEW n \in 0 .. Len(Tail(q)), NEW t \in Ticket
  PROVE  /\ Known(TaskAfter(view, Head(q)), Tail(q), n, t) <=> Known(view, q, n + 1, t)
         /\ Ended(TaskAfter(view, Head(q)), Tail(q), n, t) <=> Ended(view, q, n + 1, t)
<1> DEFINE r == Tail(q)
<1> DEFINE m == Head(q)
<1> DEFINE w == TaskAfter(view, m)
<1>1. /\ Len(q) \in Nat /\ Len(q) > 0 /\ Len(r) = Len(q) - 1 /\ m = q[1] /\ m \in Message
      /\ \A i \in 1 .. Len(r) : r[i] = q[i + 1]
  OBVIOUS
<1>2. /\ m.type = "event" => /\ Known(view, q, 0, m.ticket) /\ ~Ended(view, q, 0, m.ticket)
      /\ m.name = "accepted" => ~Known(view, q, 0, m.ticket)
  <2>1. 1 \in 1 .. Len(q) /\ 1 - 1 = 0
    BY <1>1
  <2> QED BY <1>1, <2>1 DEF InOrder, EventsKnown, EventsLive, AcceptsFresh
<1>3. /\ m.type = "event" => view[m.ticket] # "absent"
      /\ m.name = "accepted" => view[m.ticket] = "absent"
  BY <1>2 DEF Known, AcceptedIn
<1>4. m.name \in Outcomes => m.type = "event" /\ m.ticket \in Ticket
  BY <1>1 DEF Message, Outcomes
<1>5. w[t] # "absent" <=> view[t] # "absent" \/ (m.name = "accepted" /\ m.ticket = t)
  BY <1>1, <1>3, <1>4 DEF TaskAfter, TaskView, Outcomes
<1>6. w[t] \in Outcomes <=> view[t] \in Outcomes \/ (m.name \in Outcomes /\ m.ticket = t)
  BY <1>1, <1>3, <1>4 DEF TaskAfter, TaskView, Outcomes
<1> HIDE DEF r, m, w
<1>7. AcceptedIn(q, n + 1, t) <=> AcceptedIn(r, n, t) \/ (m.name = "accepted" /\ m.ticket = t)
  <2>1. ASSUME AcceptedIn(q, n + 1, t)
        PROVE  AcceptedIn(r, n, t) \/ (m.name = "accepted" /\ m.ticket = t)
    <3>1. PICK j \in 1 .. n + 1 : q[j].name = "accepted" /\ q[j].ticket = t
      BY <2>1 DEF AcceptedIn
    <3>2. CASE j = 1
      BY <1>1, <3>1, <3>2
    <3>3. CASE j # 1
      <4>1. j - 1 \in 1 .. n /\ j - 1 \in 1 .. Len(r) /\ (j - 1) + 1 = j
        BY <1>1, <3>3 DEF r
      <4>2. r[j - 1] = q[j]
        BY <1>1, <4>1
      <4> QED BY <3>1, <4>1, <4>2 DEF AcceptedIn
    <3> QED BY <3>2, <3>3
  <2>2. ASSUME AcceptedIn(r, n, t) PROVE AcceptedIn(q, n + 1, t)
    <3>1. PICK j \in 1 .. n : r[j].name = "accepted" /\ r[j].ticket = t
      BY <2>2 DEF AcceptedIn
    <3>2. j \in 1 .. Len(r) /\ j + 1 \in 1 .. n + 1
      BY <1>1 DEF r
    <3> QED BY <1>1, <3>1, <3>2 DEF AcceptedIn
  <2>3. ASSUME m.name = "accepted", m.ticket = t PROVE AcceptedIn(q, n + 1, t)
    BY <1>1, <2>3 DEF AcceptedIn
  <2> QED BY <2>1, <2>2, <2>3
<1>8. EndedIn(q, n + 1, t) <=> EndedIn(r, n, t) \/ (m.name \in Outcomes /\ m.ticket = t)
  <2>1. ASSUME EndedIn(q, n + 1, t)
        PROVE  EndedIn(r, n, t) \/ (m.name \in Outcomes /\ m.ticket = t)
    <3>1. PICK j \in 1 .. n + 1 : q[j].name \in Outcomes /\ q[j].ticket = t
      BY <2>1 DEF EndedIn
    <3>2. CASE j = 1
      BY <1>1, <3>1, <3>2
    <3>3. CASE j # 1
      <4>1. j - 1 \in 1 .. n /\ j - 1 \in 1 .. Len(r) /\ (j - 1) + 1 = j
        BY <1>1, <3>3 DEF r
      <4>2. r[j - 1] = q[j]
        BY <1>1, <4>1
      <4> QED BY <3>1, <4>1, <4>2 DEF EndedIn
    <3> QED BY <3>2, <3>3
  <2>2. ASSUME EndedIn(r, n, t) PROVE EndedIn(q, n + 1, t)
    <3>1. PICK j \in 1 .. n : r[j].name \in Outcomes /\ r[j].ticket = t
      BY <2>2 DEF EndedIn
    <3>2. j \in 1 .. Len(r) /\ j + 1 \in 1 .. n + 1
      BY <1>1 DEF r
    <3> QED BY <1>1, <3>1, <3>2 DEF EndedIn
  <2>3. ASSUME m.name \in Outcomes, m.ticket = t PROVE EndedIn(q, n + 1, t)
    BY <1>1, <2>3 DEF EndedIn
  <2> QED BY <2>1, <2>2, <2>3
<1> QED BY <1>5, <1>6, <1>7, <1>8 DEF Known, Ended, r, m, w

LEMMA TailInOrder ==
  ASSUME NEW view \in [Ticket -> TaskView], NEW q \in Seq(Message), q # << >>,
         InOrder(view, q)
  PROVE  InOrder(TaskAfter(view, Head(q)), Tail(q))
<1> DEFINE r == Tail(q)
<1> DEFINE w == TaskAfter(view, Head(q))
<1>1. /\ Len(q) \in Nat /\ Len(r) = Len(q) - 1
      /\ \A i \in 1 .. Len(r) : r[i] = q[i + 1] /\ r[i] \in Message
  OBVIOUS
<1>2. \A n \in 0 .. Len(r), t \in Ticket : /\ Known(w, r, n, t) <=> Known(view, q, n + 1, t)
                                           /\ Ended(w, r, n, t) <=> Ended(view, q, n + 1, t)
  BY TailMoves
<1> HIDE DEF r, w
<1>3. SUFFICES ASSUME NEW i \in 1 .. Len(r)
      PROVE /\ r[i].type = "event" => /\ Known(w, r, i - 1, r[i].ticket)
                                      /\ ~Ended(w, r, i - 1, r[i].ticket)
            /\ r[i].name = "accepted" => ~Known(w, r, i - 1, r[i].ticket)
  BY DEF InOrder, EventsKnown, EventsLive, AcceptsFresh, r, w
<1>4. /\ i - 1 \in 0 .. Len(r) /\ (i - 1) + 1 = i /\ i + 1 \in 1 .. Len(q) /\ (i + 1) - 1 = i
      /\ r[i] = q[i + 1]
  BY <1>1
<1>5. r[i].type = "event" \/ r[i].name = "accepted" => r[i].ticket \in Ticket
  BY <1>1 DEF Message
<1>6. /\ r[i].type = "event" => Known(view, q, i, r[i].ticket) /\ ~Ended(view, q, i, r[i].ticket)
      /\ r[i].name = "accepted" => ~Known(view, q, i, r[i].ticket)
  BY <1>4 DEF InOrder, EventsKnown, EventsLive, AcceptsFresh
<1> QED BY <1>2, <1>4, <1>5, <1>6

-----------------------------------------------------------------------------
(* The invariant of the channels.                                          *)

\* Tickets the server will still report on.
Live == sched \cup {t \in Ticket : defered[t] = "waiting"}

Knows(chan, s, t) == Known(task_map[s], chan[s], Len(chan[s]), t)
HasOutcome(chan, s, t) == Ended(task_map[s], chan[s], Len(chan[s]), t)

\* Channels chan suit a server with the owners tm and the live tickets: each is in
\* order; the client an event would go to knows the ticket and, while there is
\* more to report, has not seen its outcome; unissued tickets are unheard of; a
\* ticket is known to one client.
ChannelsSuit(chan, tm, live) ==
  /\ \A s \in Sessions : InOrder(task_map[s], chan[s])
  /\ \A s \in Sessions, t \in Ticket :
       /\ tm[t] = s /\ conn[s] \in {"new", "open"} => Knows(chan, s, t)
       /\ tm[t] = s /\ conn[s] = "open" /\ t \in live => ~HasOutcome(chan, s, t)
       /\ t > counter => ~Knows(chan, s, t) /\ ~HasOutcome(chan, s, t)
  /\ \A s, o \in Sessions, t \in Ticket : Knows(chan, s, t) /\ Knows(chan, o, t) => s = o

\* A session that has not connected has sent and been told nothing.
NewSilent ==
  \A s \in Sessions : conn[s] = "new" =>
    /\ s2c[s] = << >> /\ c2s[s] = << >>
    /\ \A i \in 1 .. Len(incrs) : incrs[i].session # s
    /\ \A t \in Ticket : task_map[s][t] = "absent" /\ ticket_map[t] # s

ChannelInv == TablesInv /\ NewSilent /\ ChannelsSuit(s2c, ticket_map, Live)

\* Nothing under way: nothing known beyond the Task objects.
LEMMA EmptyChannel ==
  ASSUME NEW view
  PROVE  /\ InOrder(view, << >>)
         /\ \A t : /\ Known(view, << >>, 0, t) <=> view[t] # "absent"
                   /\ Ended(view, << >>, 0, t) <=> view[t] \in Outcomes
BY DEF InOrder, EventsKnown, EventsLive, AcceptsFresh, Known, Ended, AcceptedIn, EndedIn

\* A response other than "accepted" concerns no ticket.
LEMMA ResponseSuits ==
  ASSUME NEW chan \in [Sessions -> Seq(Message)], NEW tm, NEW live,
         ChannelsSuit(chan, tm, live), NEW s, NEW m \in Message,
         m.type = "response", m.name # "accepted"
  PROVE  ChannelsSuit(Sent(chan, s, m), tm, live)
<1>1. CASE ~(s \in Sessions /\ conn[s] = "open")
  BY <1>1 DEF Sent
<1>2. CASE s \in Sessions /\ conn[s] = "open"
  <2> DEFINE new == [chan EXCEPT ![s] = Append(@, m)]
  <2>1. Sent(chan, s, m) = new
    BY <1>2 DEF Sent
  <2>2. m.name \notin Outcomes
    BY DEF Message, Outcomes
  <2>3. new[s] = Append(chan[s], m) /\ \A o \in Sessions \ {s} : new[o] = chan[o]
    BY <1>2
  <2>4. chan[s] \in Seq(Message)
    BY <1>2
  <2> HIDE DEF new
  <2>5. InOrder(task_map[s], new[s])
    BY <1>2, <2>3, <2>4, AppendInOrder DEF ChannelsSuit
  <2>6. \A o \in Sessions, t \in Ticket : /\ Knows(new, o, t) <=> Knows(chan, o, t)
                                          /\ HasOutcome(new, o, t) <=> HasOutcome(chan, o, t)
    <3> SUFFICES ASSUME NEW o \in Sessions, NEW t \in Ticket
                 PROVE  /\ Knows(new, o, t) <=> Knows(chan, o, t)
                        /\ HasOutcome(new, o, t) <=> HasOutcome(chan, o, t)
      OBVIOUS
    <3>1. CASE o = s
      <4>1. /\ Known(task_map[s], Append(chan[s], m), Len(Append(chan[s], m)), t)
                 <=> Known(task_map[s], chan[s], Len(chan[s]), t)
            /\ Ended(task_map[s], Append(chan[s], m), Len(Append(chan[s], m)), t)
                 <=> Ended(task_map[s], chan[s], Len(chan[s]), t)
        BY <2>2, <2>4, AppendAdds
      <4> QED BY <2>3, <3>1, <4>1 DEF Knows, HasOutcome
    <3>2. CASE o # s
      BY <2>3, <3>2 DEF Knows, HasOutcome
    <3> QED BY <3>1, <3>2
  <2>7. \A o \in Sessions : InOrder(task_map[o], new[o])
    BY <2>3, <2>5 DEF ChannelsSuit
  <2> QED BY <2>1, <2>6, <2>7 DEF ChannelsSuit
<1> QED BY <1>1, <1>2

\* An event of a live ticket goes to its owner; an outcome ends the ticket's life.
LEMMA EventSuits ==
  ASSUME NEW chan \in [Sessions -> Seq(Message)], NEW tm, NEW live,
         ChannelsSuit(chan, tm, live), NEW t \in Ticket, t \in live, counter \in Nat,
         tm[t] \in Sessions \cup {NoSession}, t <= counter,
         NEW name \in Outcomes \cup {"progress"}, NEW live2 \in SUBSET live,
         name \in Outcomes => t \notin live2
  PROVE  ChannelsSuit(Sent(chan, tm[t], Event(name, t)), tm, live2)
<1> SUFFICES ASSUME NEW s, s = tm[t], NEW m, m = Event(name, t)
             PROVE  ChannelsSuit(Sent(chan, s, m), tm, live2)
  OBVIOUS
<1>m. m \in Message /\ m.type = "event" /\ m.ticket = t /\ m.name = name /\ m.name # "accepted"
  BY DEF Event, Message, Outcomes
<1>0. ChannelsSuit(chan, tm, live2)
  BY DEF ChannelsSuit
<1>1. CASE ~(s \in Sessions /\ conn[s] = "open")
  BY <1>0, <1>1 DEF Sent
<1>2. CASE s \in Sessions /\ conn[s] = "open"
  <2> DEFINE new == [chan EXCEPT ![s] = Append(@, m)]
  <2>1. Sent(chan, s, m) = new
    BY <1>2 DEF Sent
  <2>2. new[s] = Append(chan[s], m) /\ \A o \in Sessions \ {s} : new[o] = chan[o]
    BY <1>2
  <2>3. chan[s] \in Seq(Message)
    BY <1>2
  <2> HIDE DEF new
  <2>4. Knows(chan, s, t) /\ ~HasOutcome(chan, s, t)
    BY <1>2 DEF ChannelsSuit
  <2>5. InOrder(task_map[s], new[s])
    BY <1>2, <1>m, <2>2, <2>3, <2>4, AppendInOrder DEF ChannelsSuit, Knows, HasOutcome
  <2>6. \A o \in Sessions, u \in Ticket :
          /\ Knows(new, o, u) <=> Knows(chan, o, u)
          /\ HasOutcome(new, o, u) <=> \/ HasOutcome(chan, o, u)
                                       \/ o = s /\ u = t /\ name \in Outcomes
    <3> SUFFICES ASSUME NEW o \in Sessions, NEW u \in Ticket
                 PROVE  /\ Knows(new, o, u) <=> Knows(chan, o, u)
                        /\ HasOutcome(new, o, u) <=> \/ HasOutcome(chan, o, u)
                                                     \/ o = s /\ u = t /\ name \in Outcomes
      OBVIOUS
    <3>1. CASE o = s
      <4>1. /\ Known(task_map[s], Append(chan[s], m), Len(Append(chan[s], m)), u)
                 <=> Known(task_map[s], chan[s], Len(chan[s]), u)
            /\ Ended(task_map[s], Append(chan[s], m), Len(Append(chan[s], m)), u)
                 <=> Ended(task_map[s], chan[s], Len(chan[s]), u) \/ (name \in Outcomes /\ t = u)
        <5>1. /\ Known(task_map[s], Append(chan[s], m), Len(Append(chan[s], m)), u)
                   <=> Known(task_map[s], chan[s], Len(chan[s]), u) \/ (m.name = "accepted" /\ m.ticket = u)
              /\ Ended(task_map[s], Append(chan[s], m), Len(Append(chan[s], m)), u)
                   <=> Ended(task_map[s], chan[s], Len(chan[s]), u) \/ (m.name \in Outcomes /\ m.ticket = u)
          BY <1>m, <2>3, AppendAdds
        <5> QED BY <1>m, <5>1
      <4>2. new[o] = Append(chan[s], m) /\ chan[o] = chan[s]
        BY <2>2, <3>1
      <4>3. /\ Knows(new, o, u) <=> Knows(chan, o, u)
            /\ HasOutcome(new, o, u) <=> HasOutcome(chan, o, u) \/ (name \in Outcomes /\ t = u)
        BY <3>1, <4>1, <4>2 DEF Knows, HasOutcome
      <4> QED BY <3>1, <4>3
    <3>2. CASE o # s
      BY <2>2, <3>2 DEF Knows, HasOutcome
    <3> QED BY <3>1, <3>2
  <2>7. \A o \in Sessions : InOrder(task_map[o], new[o])
    BY <2>2, <2>5 DEF ChannelsSuit
  <2>8. t > counter => FALSE
    BY DEF Ticket
  <2>9. ChannelsSuit(new, tm, live2)
    BY <1>0, <2>6, <2>7, <2>8 DEF ChannelsSuit
  <2> QED BY <2>1, <2>9
<1> QED BY <1>1, <1>2

\* The server forgets owners, or has less left to report.
LEMMA FewerSuit ==
  ASSUME NEW chan, NEW tm, NEW live, ChannelsSuit(chan, tm, live),
         NEW tm2, \A t \in Ticket : tm2[t] \in {tm[t], NoSession},
         NEW live2, \A t \in Ticket : t \in live2 /\ tm2[t] # NoSession => t \in live
  PROVE  ChannelsSuit(chan, tm2, live2)
BY RpcAssumption DEF ChannelsSuit

-----------------------------------------------------------------------------
(* Every step keeps the invariant.                                         *)

LEMMA ChannelInit == Init => ChannelInv
<1> SUFFICES ASSUME Init PROVE NewSilent /\ ChannelsSuit(s2c, ticket_map, Live)
  BY TablesInit DEF ChannelInv
<1>1. NewSilent
  BY RpcAssumption DEF Init, ServerIdle, NewSilent
<1>2. \A s \in Sessions : s2c[s] = << >> /\ \A t \in Ticket : task_map[s][t] = "absent"
  BY DEF Init
<1>3. \A s \in Sessions, t \in Ticket :
        ~Knows(s2c, s, t) /\ ~HasOutcome(s2c, s, t)
  BY <1>2, EmptyChannel DEF Knows, HasOutcome, Outcomes
<1>4. \A s \in Sessions : InOrder(task_map[s], s2c[s])
  BY <1>2, EmptyChannel
<1>5. \A t \in Ticket : ticket_map[t] = NoSession
  BY DEF Init, ServerIdle
<1> QED BY <1>1, <1>3, <1>4, <1>5, RpcAssumption DEF ChannelsSuit

\* Nobody who has not connected is told or asked anything.
LEMMA SilentStep == ChannelInv /\ [Next]_vars => NewSilent'
<1> SUFFICES ASSUME ChannelInv, [Next]_vars PROVE NewSilent'
  OBVIOUS
<1>0. TypeOK /\ TypeOK' /\ NewSilent
  BY TypeStep DEF ChannelInv, TablesInv
<1> SUFFICES ASSUME NEW s \in Sessions, conn'[s] = "new"
             PROVE  /\ s2c'[s] = << >> /\ c2s'[s] = << >>
                    /\ \A i \in 1 .. Len(incrs') : incrs'[i].session # s
                    /\ \A t \in Ticket : task_map'[s][t] = "absent" /\ ticket_map'[t] # s
  BY DEF NewSilent
<1>1. conn[s] = "new"
  <2>0. conn \in [Sessions -> {"new", "open", "closing", "closed"}]
    BY <1>0 DEF TypeOK
  <2>1. ASSUME NEW o \in Sessions, Connect(o) \/ Shutdown(o) \/ Disconnect(o)
        PROVE  conn[s] = "new"
    BY <2>0, <2>1 DEF Connect, Shutdown, Disconnect
  <2>2. ASSUME Restart PROVE conn[s] = "new"
    BY <2>0, <2>2 DEF Restart
  <2>3. CASE conn' = conn
    BY <2>3
  <2>4. [Next]_vars => conn' = conn \/ Restart
                       \/ \E o \in Sessions : Connect(o) \/ Shutdown(o) \/ Disconnect(o)
    BY DEF Next, Receive, Call, OnTaskStart, OnKill, OnQuery, OnStdin, DoStart, Progress,
       TaskEnds, IncrReply, RedisLost, vars
  <2> QED BY <2>1, <2>2, <2>3, <2>4
<1>2. /\ s2c[s] = << >> /\ c2s[s] = << >>
      /\ \A i \in 1 .. Len(incrs) : incrs[i].session # s
      /\ \A t \in Ticket : task_map[s][t] = "absent" /\ ticket_map[t] # s
  BY <1>0, <1>1 DEF NewSilent
<1>s. \A chan \in [Sessions -> Seq(Message)] : \A o, m : Sent(chan, o, m)[s] = chan[s]
  BY <1>1 DEF Sent
<1>3. s2c'[s] = << >>
  <2>1. s2c \in [Sessions -> Seq(Message)]
    BY <1>0 DEF TypeOK
  <2>2. ASSUME NEW o \in Sessions, OnKill(o) PROVE s2c'[s] = << >>
    <3> DEFINE t == Head(c2s[o]).ask.ticket
    <3> DEFINE told == IF t \in Cancellable
                       THEN Sent(s2c, ticket_map[t], Event("failure", t)) ELSE s2c
    <3>1. told[s] = << >>
      BY <1>2, <1>s, <2>1
    <3>2. PICK m : s2c' = Sent(told, o, m)
      BY <2>2 DEF OnKill
    <3> HIDE DEF told
    <3> QED BY <1>1, <3>1, <3>2 DEF Sent
  <2>3. ASSUME NEW o \in Sessions, OnQuery(o) PROVE s2c'[s] = << >>
    BY <1>2, <1>s, <2>1, <2>3 DEF OnQuery
  <2>4. ASSUME NEW t \in Ticket, DoStart(t) PROVE s2c'[s] = << >>
    BY <1>2, <1>s, <2>1, <2>4
    DEF DoStart, StartUnknown, StartRaises, StartSyncFail, StartAsync, Report
  <2>5. ASSUME NEW t \in Ticket, NEW o \in Outcomes, TaskEnds(t, o) PROVE s2c'[s] = << >>
    BY <1>2, <1>s, <2>1, <2>5 DEF TaskEnds, Report
  <2>6. ASSUME NEW t \in Ticket, Progress(t) PROVE s2c'[s] = << >>
    BY <1>2, <1>s, <2>1, <2>6 DEF Progress
  <2>7. ASSUME IncrReply PROVE s2c'[s] = << >>
    BY <1>2, <1>s, <2>1, <2>7 DEF IncrReply
  <2>8. ASSUME NEW o \in Sessions,
               Connect(o) \/ Shutdown(o) \/ Disconnect(o) \/ Receive(o)
                 \/ (\E a \in Asks : Call(o, a)) \/ OnTaskStart(o) \/ OnStdin(o)
        PROVE  s2c'[s] = << >>
    BY <1>1, <1>2, <2>1, <2>8 DEF Connect, Shutdown, Disconnect, Receive, Call,
       OnTaskStart, OnStdin
  <2>9. ASSUME RedisLost \/ Restart \/ UNCHANGED vars PROVE s2c'[s] = << >>
    BY <1>2, <2>9 DEF RedisLost, Restart, vars
  <2> QED BY <2>2, <2>3, <2>4, <2>5, <2>6, <2>7, <2>8, <2>9 DEF Next
<1>4. c2s'[s] = << >>
  <2>0. c2s \in [Sessions -> Seq(Request)]
    BY <1>0 DEF TypeOK
  <2>1. ASSUME NEW o \in Sessions, Serving(o), Consume(o) PROVE c2s'[s] = << >>
    BY <1>1, <1>2, <2>0, <2>1 DEF Serving, Consume
  <2>2. ASSUME NEW o \in Sessions, Disconnect(o) PROVE c2s'[s] = << >>
    BY <1>1, <1>2, <2>0, <2>2 DEF Disconnect
  <2>3. ASSUME NEW o \in Sessions, NEW a \in Asks, Call(o, a) PROVE c2s'[s] = << >>
    BY <1>1, <1>2, <2>0, <2>3 DEF Call
  <2>4. ASSUME Restart PROVE c2s'[s] = << >>
    BY <2>4 DEF Restart
  <2>5. CASE UNCHANGED c2s
    BY <1>2, <2>5
  <2>6. [Next]_vars => \/ UNCHANGED c2s \/ Restart
                       \/ \E o \in Sessions : \/ Serving(o) /\ Consume(o)
                                              \/ Disconnect(o)
                                              \/ \E a \in Asks : Call(o, a)
    BY DEF Next, Connect, Receive, Shutdown, OnTaskStart, OnKill, OnQuery, OnStdin,
       DoStart, Progress, TaskEnds, IncrReply, RedisLost, vars
  <2> QED BY <2>1, <2>2, <2>3, <2>4, <2>5, <2>6
<1>5. \A t \in Ticket : task_map'[s][t] = "absent"
  <2>0. task_map \in [Sessions -> [Ticket -> TaskView]]
    BY <1>0 DEF TypeOK
  <2>1. ASSUME NEW o \in Sessions, Receive(o) PROVE task_map'[s] = task_map[s]
    BY <1>1, <2>0, <2>1 DEF Receive
  <2>2. CASE UNCHANGED task_map
    BY <1>2, <2>2
  <2>3. [Next]_vars => UNCHANGED task_map \/ \E o \in Sessions : Receive(o)
    BY DEF Next, Connect, Call, Shutdown, Disconnect, OnTaskStart, OnKill, OnQuery,
       OnStdin, DoStart, Progress, TaskEnds, IncrReply, RedisLost, Restart, vars, client
  <2> QED BY <1>2, <2>1, <2>2, <2>3
<1>6. \A i \in 1 .. Len(incrs') : incrs'[i].session # s
  <2> DEFINE C == [session : Sessions, id : RequestId, kind : Kinds]
  <2>0. incrs \in Seq(C) /\ incrs' \in Seq(C)
    BY <1>0 DEF TypeOK
  <2>1. ASSUME NEW o \in Sessions, OnTaskStart(o)
        PROVE  \A i \in 1 .. Len(incrs') : incrs'[i].session # s
    <3>1. o # s
      BY <1>2, <2>1 DEF OnTaskStart, Serving
    <3>2. PICK c : incrs' = Append(incrs, c) /\ c.session = o /\ c \in C
      <4>1. Head(c2s[o]).id \in RequestId /\ Head(c2s[o]).ask.kind \in Kinds
        BY <1>0, <2>1, HeadOfC2S DEF OnTaskStart, Serving
      <4> QED BY <2>1, <4>1 DEF OnTaskStart
    <3> HIDE DEF C
    <3>3. /\ Len(incrs') = Len(incrs) + 1 /\ incrs'[Len(incrs) + 1] = c
          /\ \A i \in 1 .. Len(incrs) : incrs'[i] = incrs[i]
          /\ Len(incrs) \in Nat
      BY <2>0, <3>2
    <3> QED BY <1>2, <3>1, <3>2, <3>3
  <2>2. CASE IncrReply
    <3>1. incrs # << >> /\ incrs' = Tail(incrs)
      BY <2>2 DEF IncrReply
    <3> HIDE DEF C
    <3>2. /\ Len(incrs') = Len(incrs) - 1 /\ Len(incrs) \in Nat
          /\ \A i \in 1 .. Len(incrs') : incrs'[i] = incrs[i + 1]
      BY <2>0, <3>1
    <3> QED BY <1>2, <3>2
  <2>3. CASE incrs' = << >> \/ incrs' = incrs
    BY <1>2, <2>3
  <2>4. [Next]_vars => \/ incrs' = << >> \/ incrs' = incrs \/ IncrReply
                       \/ \E o \in Sessions : OnTaskStart(o)
    BY DEF Next, Connect, Receive, Shutdown, Disconnect, Call,
       OnKill, OnQuery, OnStdin, DoStart, Progress, TaskEnds, RedisLost, LoseIncrs,
       Restart, vars, server, client
  <2> QED BY <2>1, <2>2, <2>3, <2>4
<1>7. \A t \in Ticket : ticket_map'[t] # s
  <2>1. CASE IncrReply
    <3>1. 1 \in 1 .. Len(incrs) /\ Head(incrs) = incrs[1]
      BY <1>0, <2>1 DEF IncrReply, TypeOK
    <3>2. Head(incrs).session # s
      BY <1>2, <3>1
    <3> QED BY <1>0, <1>2, <2>1, <3>2 DEF IncrReply, TypeOK
  <2>2. CASE \A t \in Ticket : ticket_map'[t] \in {ticket_map[t], NoSession}
    BY <1>2, <2>2, RpcAssumption
  <2>3. \A T : Forget(T) => \A t \in Ticket : ticket_map'[t] \in {ticket_map[t], NoSession}
    BY DEF Forget
  <2> QED BY <2>1, <2>2, <2>3 DEF Next, Connect, Receive, Shutdown, Disconnect, Call,
       OnTaskStart, OnKill, OnQuery, OnStdin, DoStart, StartUnknown, StartRaises,
       StartSyncFail, StartAsync, Report, Cancel, Progress, TaskEnds, RedisLost,
       Restart, vars, server, client
<1> QED BY <1>3, <1>4, <1>5, <1>6, <1>7

\* Clients and counter as before, a step is judged by what it sends and forgets.
LEMMA SameClients ==
  ASSUME UNCHANGED <<counter, conn, task_map>>, ChannelsSuit(s2c', ticket_map', Live')
  PROVE  ChannelsSuit(s2c, ticket_map, Live)'
BY DEF ChannelsSuit, Knows, HasOutcome

\* Nothing is said; some sessions leave, some tickets lose their owner or end.
LEMMA NothingSaid ==
  ASSUME ChannelsSuit(s2c, ticket_map, Live), TypeOK, TypeOK', UNCHANGED task_map,
         counter <= counter',
         \A s \in Sessions : \/ conn'[s] = conn[s] /\ s2c'[s] = s2c[s]
                             \/ conn'[s] \in {"closing", "closed"} /\ s2c'[s] = << >>,
         \A t \in Ticket : /\ ticket_map'[t] \in {ticket_map[t], NoSession}
                           /\ t \in Live' /\ ticket_map'[t] # NoSession => t \in Live
  PROVE  ChannelsSuit(s2c, ticket_map, Live)'
<1>1. \A s \in Sessions, t \in Ticket :
        /\ Knows(s2c, s, t)' => Knows(s2c, s, t)
        /\ HasOutcome(s2c, s, t)' => HasOutcome(s2c, s, t)
        /\ conn'[s] \in {"new", "open"} => /\ Knows(s2c, s, t)' <=> Knows(s2c, s, t)
                                           /\ conn'[s] = conn[s]
  <2> SUFFICES ASSUME NEW s \in Sessions, NEW t \in Ticket
      PROVE /\ Knows(s2c, s, t)' => Knows(s2c, s, t)
            /\ HasOutcome(s2c, s, t)' => HasOutcome(s2c, s, t)
            /\ conn'[s] \in {"new", "open"} => /\ Knows(s2c, s, t)' <=> Knows(s2c, s, t)
                                               /\ conn'[s] = conn[s]
    OBVIOUS
  <2>1. CASE conn'[s] = conn[s] /\ s2c'[s] = s2c[s]
    BY <2>1 DEF Knows, HasOutcome
  <2>2. CASE conn'[s] \in {"closing", "closed"} /\ s2c'[s] = << >>
    <3>1. /\ Known(task_map[s], << >>, 0, t) => Known(task_map[s], s2c[s], Len(s2c[s]), t)
          /\ Ended(task_map[s], << >>, 0, t) => Ended(task_map[s], s2c[s], Len(s2c[s]), t)
      BY EmptyChannel DEF Known, Ended
    <3>2. Len(s2c'[s]) = 0
      BY <2>2
    <3> QED BY <2>2, <3>1, <3>2 DEF Knows, HasOutcome
  <2> QED BY <2>1, <2>2
<1>2. \A s \in Sessions : InOrder(task_map[s], s2c'[s])
  BY EmptyChannel DEF ChannelsSuit
<1>3. \A t \in Ticket : t > counter' => t > counter
  BY DEF TypeOK, Ticket
<1> QED BY <1>1, <1>2, <1>3, RpcAssumption DEF ChannelsSuit

\* Receiving a message moves knowledge, and adds none.
LEMMA ReceiveSuits ==
  ASSUME ChannelInv, NEW s \in Sessions, Receive(s)
  PROVE  ChannelsSuit(s2c, ticket_map, Live)'
<1>1. /\ task_map[s] \in [Ticket -> TaskView] /\ s2c[s] \in Seq(Message)
      /\ s2c[s] # << >> /\ InOrder(task_map[s], s2c[s])
  BY DEF ChannelInv, TablesInv, TypeOK, Receive, ChannelsSuit
<1>2. /\ s2c'[s] = Tail(s2c[s]) /\ task_map'[s] = TaskAfter(task_map[s], Head(s2c[s]))
      /\ \A o \in Sessions \ {s} : s2c'[o] = s2c[o] /\ task_map'[o] = task_map[o]
      /\ UNCHANGED <<counter, conn, ticket_map, Live>>
  BY DEF ChannelInv, TablesInv, TypeOK, Receive, server, Live
<1>3. InOrder(task_map'[s], s2c'[s])
  BY <1>1, <1>2, TailInOrder
<1>4. \A o \in Sessions, t \in Ticket : /\ Knows(s2c, o, t)' <=> Knows(s2c, o, t)
                                        /\ HasOutcome(s2c, o, t)' <=> HasOutcome(s2c, o, t)
  <2> SUFFICES ASSUME NEW o \in Sessions, NEW t \in Ticket
      PROVE /\ Knows(s2c, o, t)' <=> Knows(s2c, o, t)
            /\ HasOutcome(s2c, o, t)' <=> HasOutcome(s2c, o, t)
    OBVIOUS
  <2>1. CASE o = s
    <3>1. Len(Tail(s2c[s])) \in 0 .. Len(Tail(s2c[s])) /\ Len(Tail(s2c[s])) + 1 = Len(s2c[s])
      BY <1>1
    <3> DEFINE view == TaskAfter(task_map[s], Head(s2c[s]))
    <3> DEFINE r == Tail(s2c[s])
    <3>2. /\ Known(view, r, Len(r), t) <=> Known(task_map[s], s2c[s], Len(r) + 1, t)
          /\ Ended(view, r, Len(r), t) <=> Ended(task_map[s], s2c[s], Len(r) + 1, t)
      BY <1>1, <3>1, TailMoves
    <3>3. Len(s2c[s]) = Len(r) + 1 /\ task_map'[s] = view /\ s2c'[s] = r
      BY <1>2, <3>1
    <3> HIDE DEF view, r
    <3> QED BY <2>1, <3>2, <3>3 DEF Knows, HasOutcome
  <2>2. CASE o # s
    BY <1>2, <2>2 DEF Knows, HasOutcome
  <2> QED BY <2>1, <2>2
<1>5. \A o \in Sessions : InOrder(task_map'[o], s2c'[o])
  BY <1>2, <1>3 DEF ChannelInv, ChannelsSuit
<1> QED BY <1>2, <1>4, <1>5 DEF ChannelInv, ChannelsSuit

\* The ticket in a new "accepted" response is known to nobody.
LEMMA IncrReplySuits ==
  ASSUME ChannelInv, IncrReply
  PROVE  ChannelsSuit(s2c, ticket_map, Live)'
<1> DEFINE c == Head(incrs)
<1> DEFINE m == Response(c.id, "accepted", counter + 1)
<1>0. TypeOK /\ TicketsInOrder /\ NewSilent /\ ChannelsSuit(s2c, ticket_map, Live)
  BY DEF ChannelInv, TablesInv
<1>1. SUFFICES ASSUME NEW t, t = counter + 1, NEW s, s = c.session, NEW n, n = m
      PROVE  ChannelsSuit(s2c, ticket_map, Live)'
  OBVIOUS
<1>2. t \in Ticket /\ t > counter /\ counter \in Nat
  BY <1>0, <1>1, RpcAssumption DEF IncrReply, Ticket, TypeOK
<1>3. s \in Sessions /\ conn[s] # "new" /\ n \in Message
  <2> DEFINE C == [session : Sessions, id : RequestId, kind : Kinds]
  <2>1. incrs \in Seq(C) /\ incrs # << >>
    BY <1>0 DEF TypeOK, IncrReply
  <2>2. c \in C /\ c = incrs[1] /\ 1 \in 1 .. Len(incrs)
    <3> HIDE DEF C
    <3> QED BY <2>1
  <2>3. c.session \in Sessions /\ c.id \in RequestId
    BY <2>2
  <2> QED BY <1>0, <1>1, <1>2, <2>2, <2>3, MessagesAreMessages DEF NewSilent
<1>4. /\ n.name = "accepted" /\ n.ticket = t /\ n.type # "event" /\ n.name \notin Outcomes
  BY <1>1 DEF Response, Outcomes
<1>5. /\ ticket_map' = [ticket_map EXCEPT ![t] = s] /\ s2c' = Sent(s2c, s, n)
      /\ counter' = t /\ sched' = sched \cup {t}
      /\ UNCHANGED <<conn, task_map, defered>>
  BY <1>1 DEF IncrReply, client
<1> HIDE DEF c, m
<1>6. /\ \A o \in Sessions : ~Knows(s2c, o, t) /\ ~HasOutcome(s2c, o, t)
      /\ ticket_map \in [Ticket -> Sessions \cup {NoSession}]
      /\ ticket_map'[t] = s /\ \A u \in Ticket \ {t} : ticket_map'[u] = ticket_map[u]
      /\ Live' = Live \cup {t}
  BY <1>0, <1>2, <1>5 DEF ChannelsSuit, TypeOK, Live
<1>7. CASE conn[s] = "open"
  <2>1. /\ s2c'[s] = Append(s2c[s], n) /\ \A o \in Sessions \ {s} : s2c'[o] = s2c[o]
        /\ s2c[s] \in Seq(Message)
    BY <1>0, <1>3, <1>5, <1>7 DEF Sent, TypeOK
  <2>2. InOrder(task_map[s], s2c'[s])
    BY <1>0, <1>3, <1>4, <1>6, <2>1, AppendInOrder DEF ChannelsSuit, Knows, HasOutcome
  <2>3. \A o \in Sessions, u \in Ticket :
          /\ Knows(s2c, o, u)' <=> Knows(s2c, o, u) \/ (o = s /\ u = t)
          /\ HasOutcome(s2c, o, u)' <=> HasOutcome(s2c, o, u)
    <3> SUFFICES ASSUME NEW o \in Sessions, NEW u \in Ticket
        PROVE  /\ Knows(s2c, o, u)' <=> Knows(s2c, o, u) \/ (o = s /\ u = t)
               /\ HasOutcome(s2c, o, u)' <=> HasOutcome(s2c, o, u)
      OBVIOUS
    <3>1. CASE o = s
      <4>1. /\ Known(task_map[s], s2c'[s], Len(s2c'[s]), u)
                 <=> Known(task_map[s], s2c[s], Len(s2c[s]), u) \/ (n.name = "accepted" /\ n.ticket = u)
            /\ Ended(task_map[s], s2c'[s], Len(s2c'[s]), u)
                 <=> Ended(task_map[s], s2c[s], Len(s2c[s]), u) \/ (n.name \in Outcomes /\ n.ticket = u)
        BY <1>3, <2>1, AppendAdds
      <4> QED BY <1>4, <1>5, <3>1, <4>1 DEF Knows, HasOutcome
    <3>2. CASE o # s
      BY <1>5, <2>1, <3>2 DEF Knows, HasOutcome
    <3> QED BY <3>1, <3>2
  <2>4. \A o \in Sessions : InOrder(task_map[o], s2c'[o])
    BY <1>0, <2>1, <2>2 DEF ChannelsSuit
  <2>5. \A u \in Ticket : u > counter' => u > counter /\ u # t
    BY <1>1, <1>2, <1>5 DEF Ticket
  <2>6. \A o \in Sessions, u \in Ticket :
          /\ ticket_map'[u] = o /\ conn'[o] \in {"new", "open"} => Knows(s2c, o, u)'
          /\ ticket_map'[u] = o /\ conn'[o] = "open" /\ u \in Live' => ~HasOutcome(s2c, o, u)'
          /\ u > counter' => ~Knows(s2c, o, u)' /\ ~HasOutcome(s2c, o, u)'
    BY <1>0, <1>5, <1>6, <2>3, <2>5 DEF ChannelsSuit
  <2>7. \A o, k \in Sessions, u \in Ticket : Knows(s2c, o, u)' /\ Knows(s2c, k, u)' => o = k
    BY <1>0, <1>6, <2>3 DEF ChannelsSuit
  <2> QED BY <1>5, <2>4, <2>6, <2>7 DEF ChannelsSuit
<1>8. CASE conn[s] # "open"
  <2>1. s2c' = s2c
    BY <1>5, <1>8 DEF Sent
  <2>2. \A o \in Sessions, u \in Ticket : /\ Knows(s2c, o, u)' <=> Knows(s2c, o, u)
                                          /\ HasOutcome(s2c, o, u)' <=> HasOutcome(s2c, o, u)
    BY <1>5, <2>1 DEF Knows, HasOutcome
  <2>5. \A u \in Ticket : u > counter' => u > counter
    BY <1>1, <1>2, <1>5 DEF Ticket
  <2>6. \A o \in Sessions, u \in Ticket :
          /\ ticket_map'[u] = o /\ conn'[o] \in {"new", "open"} => Knows(s2c, o, u)'
          /\ ticket_map'[u] = o /\ conn'[o] = "open" /\ u \in Live' => ~HasOutcome(s2c, o, u)'
          /\ u > counter' => ~Knows(s2c, o, u)' /\ ~HasOutcome(s2c, o, u)'
    BY <1>0, <1>3, <1>5, <1>6, <1>8, <2>2, <2>5 DEF ChannelsSuit
  <2> QED BY <1>0, <1>5, <2>1, <2>2, <2>6 DEF ChannelsSuit
<1> QED BY <1>7, <1>8

\* A kill tells the owner, answers the killer, and ends what can be cancelled.
LEMMA KillSuits ==
  ASSUME ChannelInv, NEW s \in Sessions, OnKill(s)
  PROVE  ChannelsSuit(s2c, ticket_map, Live)'
<1> DEFINE r == Head(c2s[s]).id
<1>0. /\ TypeOK /\ TicketsInOrder /\ TablesAgree /\ ChannelsSuit(s2c, ticket_map, Live)
      /\ UNCHANGED <<counter, conn, task_map, sched>>
  BY DEF ChannelInv, TablesInv, OnKill, client
<1>1. Head(c2s[s]).ask.ticket \in Ticket /\ r \in RequestId
  BY <1>0, HeadOfC2S DEF OnKill, Serving
<1>2. PICK t \in Ticket : t = Head(c2s[s]).ask.ticket
  BY <1>1
<1> DEFINE dead == {t} \cap Cancellable
<1> DEFINE told == IF t \in Cancellable
                   THEN Sent(s2c, ticket_map[t], Event("failure", t)) ELSE s2c
<1>3. /\ \A u \in Ticket : ticket_map'[u] \in {ticket_map[u], NoSession}
      /\ \A u \in Ticket : defered'[u] = IF u \in dead THEN "called" ELSE defered[u]
  BY <1>2 DEF OnKill, Cancel, Forget
<1>4. PICK n \in {"killed", "not_running"} : s2c' = Sent(told, s, Response(r, n, t))
  BY <1>2 DEF OnKill
<1>5. \A u \in Ticket : u \in Live' => u \in Live \ dead
  <2>1. \A u \in dead : u \notin sched
    BY <1>0 DEF TicketsInOrder, Cancellable
  <2> QED BY <1>0, <1>3, <2>1 DEF Live
<1>6. told \in [Sessions -> Seq(Message)] /\ ChannelsSuit(told, ticket_map, Live \ dead)
  <2>0. s2c \in [Sessions -> Seq(Message)] /\ ticket_map \in [Ticket -> Sessions \cup {NoSession}]
        /\ counter \in Nat
    BY <1>0, RpcAssumption DEF TypeOK
  <2>1. CASE t \in Cancellable
    <3>1. t \in Live /\ ~(t > counter)
      BY <1>0, <2>1 DEF Cancellable, Live, TicketsInOrder
    <3>2. t <= counter /\ t \notin Live \ dead /\ "failure" \in Outcomes
      BY <2>0, <2>1, <3>1 DEF Ticket, Outcomes
    <3>3. told = Sent(s2c, ticket_map[t], Event("failure", t))
      BY <2>1
    <3>4. told \in [Sessions -> Seq(Message)]
      BY <1>0, <2>0, <3>2, <3>3, SentType, MessagesAreMessages DEF Event, Message
    <3>5. Live \ dead \in SUBSET Live /\ ticket_map[t] \in Sessions \cup {NoSession}
          /\ "failure" \in Outcomes \cup {"progress"}
      BY <2>0, <3>2
    <3> HIDE DEF dead, told
    <3> QED BY <1>0, <2>0, <3>1, <3>2, <3>3, <3>4, <3>5, EventSuits
  <2>2. CASE t \notin Cancellable
    <3>1. dead = {} /\ told = s2c
      BY <2>2
    <3> HIDE DEF dead, told
    <3>2. Live \ dead = Live
      BY <3>1
    <3> QED BY <1>0, <2>0, <3>1, <3>2
  <2> QED BY <2>1, <2>2
<1>7. Response(r, n, t) \in Message /\ Response(r, n, t).type = "response"
      /\ Response(r, n, t).name # "accepted"
  BY <1>1, <1>4, MessagesAreMessages DEF Response
<1>8. ChannelsSuit(s2c', ticket_map, Live \ dead)
  <2> HIDE DEF dead, told
  <2> QED BY <1>4, <1>6, <1>7, ResponseSuits
<1>9. ChannelsSuit(s2c', ticket_map', Live')
  <2> HIDE DEF dead, told
  <2>1. \A u \in Ticket : u \in Live' /\ ticket_map'[u] # NoSession => u \in Live \ dead
    BY <1>5
  <2> QED BY <1>3, <1>8, <2>1, FewerSuit
<1> QED BY <1>0, <1>9, SameClients

\* A task that is started or ends tells its owner the outcome, if it has one.
LEMMA OutcomeSuits ==
  ASSUME ChannelInv, NEW t \in Ticket, t \in Live, NEW name \in Outcomes,
         s2c' = Sent(s2c, ticket_map[t], Event(name, t)),
         \A u \in Ticket : ticket_map'[u] \in {ticket_map[u], NoSession},
         \A u \in Ticket : u \in Live' => u \in Live /\ u # t,
         UNCHANGED <<counter, conn, task_map>>
  PROVE  ChannelsSuit(s2c, ticket_map, Live)'
<1>1. /\ TypeOK /\ TicketsInOrder /\ ChannelsSuit(s2c, ticket_map, Live)
  BY DEF ChannelInv, TablesInv
<1>2. /\ s2c \in [Sessions -> Seq(Message)] /\ counter \in Nat
      /\ ticket_map[t] \in Sessions \cup {NoSession}
  BY <1>1, RpcAssumption DEF TypeOK
<1>3. t <= counter
  BY <1>1, <1>2 DEF Live, TicketsInOrder, Ticket
<1>4. Live \ {t} \in SUBSET Live /\ t \notin Live \ {t} /\ name \in Outcomes \cup {"progress"}
  OBVIOUS
<1>5. ChannelsSuit(s2c', ticket_map, Live \ {t})
  BY <1>1, <1>2, <1>3, <1>4, EventSuits
<1>6. \A u \in Ticket : u \in Live' /\ ticket_map'[u] # NoSession => u \in Live \ {t}
  OBVIOUS
<1>7. ChannelsSuit(s2c', ticket_map', Live')
  BY <1>5, <1>6, FewerSuit
<1> QED BY <1>7, SameClients

LEMMA DoStartSuits ==
  ASSUME ChannelInv, NEW t \in Ticket, DoStart(t)
  PROVE  ChannelsSuit(s2c, ticket_map, Live)'
<1>0. /\ TypeOK /\ TypeOK' /\ TicketsInOrder /\ ChannelsSuit(s2c, ticket_map, Live)
  <2>1. Next
    BY DEF Next
  <2> QED BY <2>1, TypeStep DEF ChannelInv, TablesInv
<1>1. /\ t \in sched /\ sched' = sched \ {t} /\ t \in Live
      /\ defered[t] = "none" /\ t \notin tasks_running
      /\ UNCHANGED <<counter, conn, task_map>>
  BY <1>0 DEF DoStart, Live, TicketsInOrder, client
<1>2. counter <= counter'
  BY <1>0, <1>1 DEF TypeOK
<1>3. CASE StartUnknown(t) \/ StartAsync(t)
  <2>1. UNCHANGED <<s2c, ticket_map>> /\ \A u \in Ticket : u \in Live' => u \in Live
    BY <1>0, <1>1, <1>3 DEF StartUnknown, StartAsync, Live, TypeOK
  <2> QED BY <1>0, <1>1, <1>2, <2>1, NothingSaid
<1>4. CASE StartRaises(t) \/ StartSyncFail(t)
  <2>1. /\ s2c' = Sent(s2c, ticket_map[t], Event("failure", t))
        /\ \A u \in Ticket : ticket_map'[u] \in {ticket_map[u], NoSession}
    BY <1>4 DEF StartRaises, StartSyncFail, Report, Forget
  <2>2. \A u \in Ticket : u \in Live' => u \in Live /\ u # t
    BY <1>0, <1>1, <1>4 DEF StartRaises, StartSyncFail, Live, TypeOK
  <2>3. "failure" \in Outcomes
    BY DEF Outcomes
  <2> QED BY <1>1, <2>1, <2>2, <2>3, OutcomeSuits
<1> QED BY <1>3, <1>4 DEF DoStart

LEMMA TaskEndsSuits ==
  ASSUME ChannelInv, NEW t \in Ticket, NEW name \in Outcomes, TaskEnds(t, name)
  PROVE  ChannelsSuit(s2c, ticket_map, Live)'
<1>0. /\ TypeOK /\ TypeOK' /\ TicketsInOrder /\ ChannelsSuit(s2c, ticket_map, Live)
  <2>1. Next
    BY DEF Next
  <2> QED BY <2>1, TypeStep DEF ChannelInv, TablesInv
<1>1. UNCHANGED <<counter, conn, task_map, sched>>
  BY DEF TaskEnds, client
<1>2. CASE defered[t] = "waiting"
  <2>1. /\ s2c' = Sent(s2c, ticket_map[t], Event(name, t))
        /\ \A u \in Ticket : ticket_map'[u] \in {ticket_map[u], NoSession}
        /\ defered' = [defered EXCEPT ![t] = "called"]
    BY <1>2 DEF TaskEnds, Report, Forget
  <2>2. t \in Live /\ t \notin sched
    BY <1>0, <1>2 DEF Live, TicketsInOrder
  <2>3. \A u \in Ticket : u \in Live' => u \in Live /\ u # t
    BY <1>0, <1>1, <2>1, <2>2 DEF Live, TypeOK
  <2> QED BY <1>1, <2>1, <2>2, <2>3, OutcomeSuits
<1>3. CASE defered[t] # "waiting"
  <2>1. UNCHANGED <<s2c, ticket_map, defered>>
    BY <1>3 DEF TaskEnds
  <2>2. counter <= counter'
    BY <1>0, <1>1 DEF TypeOK
  <2> QED BY <1>0, <1>1, <2>1, <2>2, NothingSaid DEF Live
<1> QED BY <1>2, <1>3

\* Progress comes from a task whose owner waits for it.
LEMMA ProgressSuits ==
  ASSUME ChannelInv, NEW t \in Ticket, Progress(t)
  PROVE  ChannelsSuit(s2c, ticket_map, Live)'
<1>1. /\ TypeOK /\ TicketsInOrder /\ ChannelsSuit(s2c, ticket_map, Live)
  BY DEF ChannelInv, TablesInv
<1>2. /\ s2c \in [Sessions -> Seq(Message)] /\ counter \in Nat
      /\ ticket_map[t] \in Sessions \cup {NoSession}
  BY <1>1, RpcAssumption DEF TypeOK
<1>3. t \in Live /\ t <= counter
  BY <1>1, <1>2 DEF Progress, Live, TicketsInOrder, Ticket
<1>4. Live \in SUBSET Live /\ "progress" \in Outcomes \cup {"progress"}
      /\ "progress" \notin Outcomes
  BY DEF Outcomes
<1>5. ChannelsSuit(Sent(s2c, ticket_map[t], Event("progress", t)), ticket_map, Live)
  BY <1>1, <1>2, <1>3, <1>4, EventSuits
<1>6. /\ s2c' = Sent(s2c, ticket_map[t], Event("progress", t))
      /\ UNCHANGED <<counter, conn, task_map, ticket_map, Live>>
  BY DEF Progress, server, client, Live
<1>7. ChannelsSuit(s2c', ticket_map', Live')
  BY <1>5, <1>6
<1> QED BY <1>6, <1>7, SameClients

LEMMA ChannelStep == ChannelInv /\ [Next]_vars => ChannelInv'
<1> SUFFICES ASSUME ChannelInv, [Next]_vars PROVE ChannelsSuit(s2c, ticket_map, Live)'
  BY TablesStep, SilentStep DEF ChannelInv
<1> DEFINE Goal == ChannelsSuit(s2c, ticket_map, Live)'
<1>0. /\ TypeOK /\ TypeOK' /\ NewSilent /\ ChannelsSuit(s2c, ticket_map, Live)
      /\ counter \in Nat
  BY TypeStep, RpcAssumption DEF ChannelInv, TablesInv, TypeOK
<1>1. ASSUME NEW s \in Sessions, Connect(s) PROVE Goal
  <2>1. /\ UNCHANGED <<counter, s2c, task_map, ticket_map, Live>>
        /\ conn[s] = "new" /\ conn'[s] = "open"
        /\ \A o \in Sessions \ {s} : conn'[o] = conn[o]
    BY <1>0, <1>1 DEF Connect, TypeOK, server, client, Live
  <2>2. \A t \in Ticket : ticket_map[t] # s
    BY <1>0, <2>1 DEF NewSilent
  <2>3. \A o \in Sessions, t \in Ticket : /\ Knows(s2c, o, t)' <=> Knows(s2c, o, t)
                                          /\ HasOutcome(s2c, o, t)' <=> HasOutcome(s2c, o, t)
    BY <2>1 DEF Knows, HasOutcome
  <2> QED BY <1>0, <2>1, <2>2, <2>3 DEF ChannelsSuit
<1>2. ASSUME NEW s \in Sessions, Shutdown(s) PROVE Goal
  <2>1. /\ UNCHANGED <<counter, task_map, ticket_map, Live>>
        /\ \A o \in Sessions : \/ conn'[o] = conn[o] /\ s2c'[o] = s2c[o]
                               \/ conn'[o] \in {"closing", "closed"} /\ s2c'[o] = << >>
    BY <1>0, <1>2 DEF Shutdown, TypeOK, server, client, Live
  <2> QED BY <1>0, <2>1, NothingSaid
<1>3. ASSUME NEW s \in Sessions, Disconnect(s) PROVE Goal
  <2>1. UNCHANGED task_map /\ counter <= counter'
    BY <1>0, <1>3 DEF Disconnect, client
  <2>2. \A o \in Sessions : \/ conn'[o] = conn[o] /\ s2c'[o] = s2c[o]
                            \/ conn'[o] \in {"closing", "closed"} /\ s2c'[o] = << >>
    BY <1>0, <1>3 DEF Disconnect, TypeOK
  <2>3. \A t \in Ticket : /\ ticket_map'[t] \in {ticket_map[t], NoSession}
                          /\ t \in Live' /\ ticket_map'[t] # NoSession => t \in Live
    BY <1>3 DEF Disconnect, Cancel, Forget, Live
  <2> QED BY <1>0, <2>1, <2>2, <2>3, NothingSaid
<1>4. ASSUME Restart PROVE Goal
  <2>1. UNCHANGED task_map /\ counter <= counter'
    BY <1>0, <1>4 DEF Restart, LoseIncrs, client
  <2>2. \A o \in Sessions : \/ conn'[o] = conn[o] /\ s2c'[o] = s2c[o]
                            \/ conn'[o] \in {"closing", "closed"} /\ s2c'[o] = << >>
    BY <1>0, <1>4 DEF Restart, NewSilent
  <2>3. \A t \in Ticket : ticket_map'[t] = NoSession
    BY <1>4 DEF Restart
  <2> QED BY <1>0, <2>1, <2>2, <2>3, NothingSaid
<1>5. ASSUME UNCHANGED <<conn, s2c, task_map, ticket_map, sched, defered>>, counter <= counter'
      PROVE  Goal
  BY <1>0, <1>5, NothingSaid DEF Live
<1>6. ASSUME RedisLost PROVE Goal
  <2>1. counter <= counter'
    BY <1>0, <1>6 DEF RedisLost, LoseIncrs
  <2> QED BY <1>5, <1>6, <2>1 DEF RedisLost, client
<1>7. ASSUME NEW s \in Sessions, OnQuery(s) PROVE Goal
  <2>1. Response(Head(c2s[s]).id, "answer", 0) \in Message
    BY <1>0, <1>7, HeadOfC2S DEF OnQuery, Serving, Response, Message
  <2>2. PICK m \in Message : m = Response(Head(c2s[s]).id, "answer", 0)
    BY <2>1
  <2>3. m.type = "response" /\ m.name # "accepted"
    BY <2>2 DEF Response
  <2>4. s2c \in [Sessions -> Seq(Message)]
    BY <1>0 DEF TypeOK
  <2>5. ChannelsSuit(Sent(s2c, s, m), ticket_map, Live)
    BY <1>0, <2>3, <2>4, ResponseSuits
  <2>6. s2c' = Sent(s2c, s, m) /\ UNCHANGED <<counter, conn, task_map, ticket_map, Live>>
    BY <1>7, <2>2 DEF OnQuery, server, client, Live
  <2>7. ChannelsSuit(s2c', ticket_map', Live')
    BY <2>5, <2>6
  <2> QED BY <2>6, <2>7, SameClients
<1>8. ASSUME NEW s \in Sessions,
             (\E a \in Asks : Call(s, a)) \/ OnTaskStart(s) \/ OnStdin(s)
      PROVE  Goal
  <2>1. UNCHANGED <<counter, conn, s2c, task_map, ticket_map, sched, defered>>
    BY <1>8 DEF Call, OnTaskStart, OnStdin, server, client
  <2>2. counter <= counter'
    BY <1>0, <2>1
  <2> QED BY <1>5, <2>1, <2>2
<1>9. CASE UNCHANGED vars
  BY <1>0, <1>5, <1>9 DEF vars, server, client
<1> HIDE DEF Goal
<1> QED BY <1>1, <1>2, <1>3, <1>4, <1>6, <1>7, <1>8, <1>9, ReceiveSuits, IncrReplySuits,
        KillSuits, DoStartSuits, TaskEndsSuits, ProgressSuits DEF Next, Goal

-----------------------------------------------------------------------------
(* What follows for the clients.                                           *)

LEMMA ChannelsAlwaysSuit == Spec => []ChannelInv
BY ChannelInit, ChannelStep, PTL DEF Spec

\* No event overtakes the response with its ticket (remote.py:397 never raises):
\* the owner in ticket_map knows the ticket, or has left.
THEOREM EventsAlwaysKnown == Spec => []NoUnknownTaskEvent
<1>1. ChannelInv => NoUnknownTaskEvent
  BY DEF ChannelInv, ChannelsSuit, InOrder, NoUnknownTaskEvent
<1> QED BY <1>1, ChannelsAlwaysSuit, PTL

\* Nothing of a ticket follows its outcome, however kills, disconnects and the
\* end of the task race: an event is sent only for live tickets, and an outcome
\* ends the life of its ticket.
THEOREM OutcomeAlwaysLast == Spec => []OutcomeIsLast
<1>1. ChannelInv => OutcomeIsLast
  BY DEF ChannelInv, ChannelsSuit, InOrder, OutcomeIsLast
<1> QED BY <1>1, ChannelsAlwaysSuit, PTL

\* A ticket reaches one client, in one response: tickets beyond the counter are
\* unheard of, and restarts and Redis failures never turn the counter back.
THEOREM TicketAlwaysHandedOutOnce == Spec => []TicketHandedOutOnce
<1>1. ChannelInv => TicketHandedOutOnce
  BY DEF ChannelInv, ChannelsSuit, InOrder, TicketHandedOutOnce, KnownTo, Knows
<1> QED BY <1>1, ChannelsAlwaysSuit, PTL

-----------------------------------------------------------------------------
(* The protocol implements TicketService.                                  *)

Online(s) == IF conn[s] = "new" THEN "new" ELSE IF conn[s] = "open" THEN "on" ELSE "off"

LEMMA PromiseInit == Init => Promise!Init
BY DEF Init, Promise!Init

\* A message that changes what the client sees hands out a ticket or ends it.
LEMMA ReceivePromised ==
  ASSUME ChannelInv, NEW s \in Sessions, Receive(s)
  PROVE  [Promise!Next]_(Promise!vars)
<1> DEFINE q == s2c[s]
<1> DEFINE m == Head(q)
<1>0. TypeOK /\ ChannelsSuit(s2c, ticket_map, Live) /\ UNCHANGED <<counter, conn>>
  BY DEF ChannelInv, TablesInv, Receive
<1>1. /\ q \in Seq(Message) /\ q # << >> /\ conn[s] = "open"
      /\ task_map[s] \in [Ticket -> TaskView]
      /\ task_map' = [task_map EXCEPT ![s] = TaskAfter(@, m)]
  BY <1>0 DEF TypeOK, Receive
<1>2. m = q[1] /\ 1 \in 1 .. Len(q) /\ 1 - 1 = 0 /\ m \in Message
  BY <1>1
<1>3. /\ m.type = "event" => ~Ended(task_map[s], q, 0, m.ticket)
      /\ m.name = "accepted" => \A o \in Sessions : task_map[o][m.ticket] = "absent"
  <2>1. m.type = "event" => ~Ended(task_map[s], q, 0, m.ticket)
    BY <1>0, <1>2 DEF ChannelsSuit, InOrder, EventsLive
  <2>2. ASSUME m.name = "accepted", NEW o \in Sessions
        PROVE  task_map[o][m.ticket] = "absent"
    <3>1. m.ticket \in Ticket
      BY <1>2, <2>2 DEF Message
    <3>2. ~Known(task_map[s], q, 0, m.ticket)
      BY <1>0, <1>2, <2>2 DEF ChannelsSuit, InOrder, AcceptsFresh
    <3>3. Knows(s2c, s, m.ticket)
      BY <1>2, <2>2 DEF Knows, Known, AcceptedIn
    <3>4. task_map[o][m.ticket] # "absent" => Knows(s2c, o, m.ticket)
      BY DEF Knows, Known
    <3> QED BY <1>0, <3>1, <3>2, <3>3, <3>4 DEF ChannelsSuit, Known
  <2> QED BY <2>1, <2>2
<1>4. m.name = "accepted" => m.ticket \in Ticket /\ m.ticket \in 1 .. counter
  <2> SUFFICES ASSUME m.name = "accepted" PROVE m.ticket \in Ticket /\ m.ticket \in 1 .. counter
    OBVIOUS
  <2>1. m.ticket \in Ticket
    BY <1>2 DEF Message
  <2>2. Knows(s2c, s, m.ticket)
    BY <1>2 DEF Knows, Known, AcceptedIn
  <2>3. ~(m.ticket > counter)
    BY <1>0, <2>1, <2>2 DEF ChannelsSuit
  <2>4. counter \in Nat
    BY <1>0, RpcAssumption DEF TypeOK
  <2> QED BY <2>1, <2>3, <2>4 DEF Ticket
<1> HIDE DEF m
<1>5. CASE m.name = "accepted"
  <2>1. task_map' = [task_map EXCEPT ![s][m.ticket] = "running"]
    BY <1>1, <1>5 DEF TaskAfter
  <2>2. Promise!Accept(s, m.ticket)
    BY <1>0, <1>1, <1>3, <1>4, <1>5, <2>1 DEF Promise!Accept
  <2> QED BY <1>4, <1>5, <2>2 DEF Promise!Next
<1>6. CASE m.name \in Outcomes /\ task_map[s][m.ticket] # "absent"
  <2>1. task_map' = [task_map EXCEPT ![s][m.ticket] = m.name]
    BY <1>1, <1>6 DEF TaskAfter, Outcomes
  <2>2. m.type = "event" /\ m.ticket \in Ticket
    BY <1>2, <1>6 DEF Message, Outcomes
  <2>3. task_map[s][m.ticket] = "running"
    BY <1>1, <1>3, <1>6, <2>2 DEF Ended, TaskView
  <2>4. Promise!Finish(s, m.ticket, m.name)
    BY <1>0, <1>1, <2>1, <2>3 DEF Promise!Finish
  <2> QED BY <1>6, <2>2, <2>4 DEF Promise!Next, Outcomes
<1>7. CASE ~(m.name = "accepted") /\ ~(m.name \in Outcomes /\ task_map[s][m.ticket] # "absent")
  <2>1. task_map' = task_map
    BY <1>0, <1>1, <1>7 DEF TaskAfter, TypeOK
  <2> QED BY <1>0, <2>1 DEF Promise!vars
<1> QED BY <1>5, <1>6, <1>7

LEMMA StepPromised ==
  ChannelInv /\ ChannelInv' /\ [Next]_vars => [Promise!Next]_(Promise!vars)
<1> SUFFICES ASSUME ChannelInv, ChannelInv', [Next]_vars PROVE [Promise!Next]_(Promise!vars)
  OBVIOUS
<1>0. TypeOK /\ TypeOK' /\ counter \in Nat /\ counter' \in 0 .. MaxTickets
  BY RpcAssumption DEF ChannelInv, TablesInv, TypeOK
<1>1. ASSUME NEW s \in Sessions, Connect(s) PROVE [Promise!Next]_(Promise!vars)
  <2>1. /\ UNCHANGED <<counter, task_map>> /\ conn[s] = "new"
        /\ conn' = [conn EXCEPT ![s] = "open"]
    BY <1>1 DEF Connect, client
  <2>2. Promise!Join(s)
    BY <1>0, <2>1 DEF Promise!Join, TypeOK
  <2> QED BY <2>2 DEF Promise!Next
<1>2. ASSUME NEW gone \in SUBSET {s \in Sessions : conn[s] = "open"}, UNCHANGED task_map,
             \A s \in Sessions : Online(s)' = IF s \in gone THEN "off" ELSE Online(s),
             counter <= counter'
      PROVE  [Promise!Next]_(Promise!vars)
  <2>1. /\ 1 .. counter' = (1 .. counter) \cup (counter + 1 .. counter')
        /\ (counter + 1 .. counter') \in SUBSET Ticket
    <3>1. counter' \in Nat /\ counter' <= MaxTickets
      BY <1>0, RpcAssumption
    <3>2. /\ \A n \in 1 .. counter' : n \in 1 .. counter \/ n \in (counter + 1 .. counter')
          /\ \A n \in 1 .. counter : n \in 1 .. counter'
          /\ \A n \in (counter + 1 .. counter') : n \in 1 .. counter'
      BY <1>0, <1>2, <3>1
    <3>3. \A n \in (counter + 1 .. counter') : n \in Ticket
      BY <1>0, <3>1, RpcAssumption DEF Ticket
    <3> QED BY <3>2, <3>3
  <2>2. Promise!LeaveOrIssue
    BY <1>2, <2>1 DEF Promise!LeaveOrIssue, Online
  <2> QED BY <2>2 DEF Promise!Next
<1>3. ASSUME UNCHANGED <<conn, task_map>>, counter <= counter'
      PROVE  [Promise!Next]_(Promise!vars)
  <2>1. {} \in SUBSET {s \in Sessions : conn[s] = "open"}
    OBVIOUS
  <2>2. \A s \in Sessions : Online(s)' = IF s \in {} THEN "off" ELSE Online(s)
    BY <1>3 DEF Online
  <2> QED BY <1>2, <1>3, <2>1, <2>2
<1>4. ASSUME NEW s \in Sessions, Shutdown(s) PROVE [Promise!Next]_(Promise!vars)
  <2>1. /\ \A o \in Sessions : Online(o)' = IF o \in {s} THEN "off" ELSE Online(o)
        /\ UNCHANGED task_map /\ counter <= counter'
        /\ {s} \in SUBSET {o \in Sessions : conn[o] = "open"}
    BY <1>0, <1>4 DEF Shutdown, TypeOK, Online, client
  <2> QED BY <1>2, <2>1
<1>5. ASSUME NEW s \in Sessions, Disconnect(s) PROVE [Promise!Next]_(Promise!vars)
  <2> DEFINE gone == {s} \cap {o \in Sessions : conn[o] = "open"}
  <2>1. /\ \A o \in Sessions : Online(o)' = IF o \in gone THEN "off" ELSE Online(o)
        /\ UNCHANGED task_map /\ counter <= counter'
        /\ gone \in SUBSET {o \in Sessions : conn[o] = "open"}
    BY <1>0, <1>5 DEF Disconnect, TypeOK, Online, client
  <2> QED BY <1>2, <2>1
<1>6. ASSUME Restart PROVE [Promise!Next]_(Promise!vars)
  <2> DEFINE gone == {o \in Sessions : conn[o] = "open"}
  <2>1. /\ \A o \in Sessions : Online(o)' = IF o \in gone THEN "off" ELSE Online(o)
        /\ gone \in SUBSET {o \in Sessions : conn[o] = "open"}
    BY <1>0, <1>6 DEF Restart, TypeOK, Online
  <2>2. UNCHANGED task_map /\ counter <= counter'
    BY <1>0, <1>6 DEF Restart, LoseIncrs, client
  <2> QED BY <1>2, <2>1, <2>2
<1>7. ASSUME IncrReply \/ RedisLost PROVE [Promise!Next]_(Promise!vars)
  <2>1. UNCHANGED <<conn, task_map>> /\ counter <= counter'
    BY <1>0, <1>7 DEF IncrReply, RedisLost, LoseIncrs, client
  <2> QED BY <1>3, <2>1
<1>8. CASE UNCHANGED <<counter, conn, task_map>>
  BY <1>8 DEF Promise!vars
<1>9. [Next]_vars =>
        \/ UNCHANGED <<counter, conn, task_map>> \/ IncrReply \/ RedisLost \/ Restart
        \/ \E s \in Sessions : Connect(s) \/ Receive(s) \/ Shutdown(s) \/ Disconnect(s)
  BY DEF Next, Call, OnTaskStart, OnKill, OnQuery, OnStdin, DoStart, Progress, TaskEnds,
     vars, client
<1> QED BY <1>1, <1>4, <1>5, <1>6, <1>7, <1>8, <1>9, ReceivePromised

\* Whatever the connections, kills, restarts and Redis failures, what the clients
\* of remote.py see is a behaviour of TicketService.
THEOREM RpcImplementsTicketService == Spec => ImplementsTicketService
<1>1. ChannelInv /\ ChannelInv' /\ [Next]_vars => [Promise!Next]_(Promise!vars)
  BY StepPromised
<1> QED BY <1>1, PromiseInit, ChannelsAlwaysSuit, PTL
        DEF Spec, ImplementsTicketService, Promise!Spec

=============================================================================
