------------------------------ MODULE WebProofs ------------------------------
(***************************************************************************)
(* What WebClient promises of the connection and of what is under way over *)
(* it, for any number of services, requests and messages: the socket, the  *)
(* ids, the tickets and the steps of the server; and then of the page:     *)
(* every event is heard, no task is left running behind the user's back,   *)
(* every terminal is there when it is written to.                          *)
(***************************************************************************)
EXTENDS WebClient, FiniteSetTheorems, SequenceTheorems, TLAPS

\* What the page believes of its socket, in every state of the socket.  Only a
\* socket that was never open leaves reconnectAttempt set while it closes, and then
\* the page has been told before that the one it replaces is gone.
SocketInv ==
    /\ ws \in {"connecting", "open", "closing", "none"}
    /\ online \in BOOLEAN /\ reconnectAttempt \in BOOLEAN
    /\ ws = "open" => online /\ ~reconnectAttempt
    /\ ws \in {"none", "connecting"} => ~online
    /\ ws = "closing" /\ online => ~reconnectAttempt
    /\ online => waiting = <<>>

\* What a step that leaves the socket alone may do to the calls that wait.
LEMMA WaitsWhileOffline ==
    ASSUME SocketInv, UNCHANGED socket, online => waiting' = waiting
    PROVE  SocketInv'
  BY DEF SocketInv, socket

LEMMA SocketInduction == SocketInv /\ [Next]_vars => SocketInv'
<1>. SUFFICES ASSUME SocketInv, [Next]_vars PROVE SocketInv'
  OBVIOUS
<1>1. CASE Opens
  BY <1>1 DEF Opens, SocketInv
<1>2. CASE GivesUp
  BY <1>2 DEF GivesUp, SocketInv, calls
<1>3. CASE Drops
  BY <1>3 DEF Drops, SocketInv, calls
<1>4. CASE Closed
  BY <1>4 DEF Closed, SocketInv, calls
<1>5. CASE Reconnects
  BY <1>5 DEF Reconnects, SocketInv, calls
<1>6. ASSUME NEW q, Issue(q) PROVE online => waiting' = waiting
  BY <1>6 DEF Issue
<1>7. CASE ServerStep \/ LeftBehind
  <2>1. UNCHANGED <<socket, calls>>
    BY <1>7 DEF ServerStep, Serve, Output, TaskEnds, LeftBehind, ServeLate, OrphanEnds
  <2>. QED
    BY <2>1, WaitsWhileOffline DEF calls
<1>8. CASE ReceiveResponse \/ ReceiveEvent
  <2>1. UNCHANGED <<socket, waiting>>
    BY <1>8 DEF ReceiveResponse, ReceiveEvent, calls
  <2>. QED
    BY <2>1, WaitsWhileOffline
<1>9. CASE Click
  <2>1. UNCHANGED socket
    BY <1>9 DEF Click, SelectApp, SelectService, OpenTab, UpdateApps, Type
  <2>2. online => waiting' = waiting
    BY <1>9, <1>6 DEF Click, SelectApp, SelectService, OpenTab, UpdateApps, Type
  <2>. QED
    BY <2>1, <2>2, WaitsWhileOffline
<1>10. CASE UNCHANGED vars
  BY <1>10, WaitsWhileOffline DEF vars, calls
<1>. QED
  BY <1>1, <1>2, <1>3, <1>4, <1>5, <1>7, <1>8, <1>9, <1>10 DEF Next, SocketStep

\* Online means that there is a socket to send on and that nobody waits for one,
\* for any page, any order of losses, refusals and reconnections.
THEOREM OnlineAlwaysMeansSocket == Spec => []OnlineMeansSocket
<1>1. Init => SocketInv
  BY DEF Init, SocketInv
<1>2. SocketInv => OnlineMeansSocket
  BY DEF SocketInv, OnlineMeansSocket
<1>. QED
  BY <1>1, <1>2, SocketInduction, PTL DEF Spec

-----------------------------------------------------------------------------
(* Sequences *)

\* What is sent stands behind what was sent before.
LEMMA Joined ==
    ASSUME NEW S, NEW q \in Seq(S), NEW r \in Seq(S)
    PROVE  /\ q \o r \in Seq(S) /\ Len(q \o r) = Len(q) + Len(r)
           /\ \A i \in 1 .. Len(q) : (q \o r)[i] = q[i]
           /\ \A i \in 1 .. Len(r) : (q \o r)[Len(q) + i] = r[i]
           /\ \A i \in 1 .. Len(q \o r) : i \in 1 .. Len(q) \/ i - Len(q) \in 1 .. Len(r)
  OBVIOUS

\* Taking the i-th moves up what stood behind it.
Above(i, j) == IF j < i THEN j ELSE j + 1

LEMMA Taken ==
    ASSUME NEW S, NEW q \in Seq(S), NEW i \in 1 .. Len(q)
    PROVE  LET r == SubSeq(q, 1, i - 1) \o SubSeq(q, i + 1, Len(q))
           IN  /\ r \in Seq(S) /\ Len(r) = Len(q) - 1
               /\ \A j \in 1 .. Len(r) : /\ Above(i, j) \in 1 .. Len(q) /\ Above(i, j) # i
                                         /\ r[j] = q[Above(i, j)]
<1>. DEFINE a == SubSeq(q, 1, i - 1)
            b == SubSeq(q, i + 1, Len(q))
<1>0. Len(q) \in Nat /\ \A j \in 1 .. Len(q) : q[j] \in S
  OBVIOUS
<1>1. /\ a \in Seq(S) /\ Len(a) = i - 1
      /\ \A j \in 1 .. i - 1 : a[j] = q[j]
  <2>1. \A j \in 1 .. i - 1 : q[j] \in S
    BY <1>0
  <2>2. 1 \in Int /\ i - 1 \in Int /\ i \in Nat
    OBVIOUS
  <2>. QED
    BY <2>1, <2>2, SubSeqProperties
<1>2. /\ b \in Seq(S) /\ Len(b) = Len(q) - i
      /\ \A j \in 1 .. Len(q) - i : b[j] = q[i + j]
  <2>1. \A j \in i + 1 .. Len(q) : q[j] \in S
    BY <1>0
  <2>2. i + 1 \in Int /\ Len(q) \in Int /\ i \in Nat /\ i <= Len(q)
    OBVIOUS
  <2>3. /\ b \in Seq(S)
        /\ Len(b) = IF i + 1 <= Len(q) THEN Len(q) - (i + 1) + 1 ELSE 0
        /\ \A j \in 1 .. Len(q) - (i + 1) + 1 : b[j] = q[i + 1 + j - 1]
    BY <2>1, <2>2, SubSeqProperties
  <2>. QED
    BY <2>2, <2>3
<1>. HIDE DEF a, b
<1>3. a \o b \in Seq(S) /\ Len(a \o b) = Len(q) - 1
  <2>1. a \o b \in Seq(S) /\ Len(a \o b) = Len(a) + Len(b)
    BY <1>1, <1>2, ConcatProperties
  <2>2. Len(a) = i - 1 /\ Len(b) = Len(q) - i /\ Len(q) \in Nat /\ i \in Nat
    BY <1>0, <1>1, <1>2
  <2>. QED
    BY <2>1, <2>2
<1>4. ASSUME NEW j \in 1 .. Len(q) - 1 PROVE (a \o b)[j] = q[Above(i, j)]
  <2>0. (a \o b)[j] = IF j <= Len(a) THEN a[j] ELSE b[j - Len(a)]
    BY <1>0, <1>1, <1>2, ConcatProperties
  <2>1. CASE j < i
    <3>1. j <= Len(a) /\ j \in 1 .. i - 1
      BY <1>1, <2>1
    <3>. QED
      BY <1>1, <2>0, <2>1, <3>1 DEF Above
  <2>2. CASE ~(j < i)
    <3>1. j - (i - 1) \in 1 .. Len(q) - i /\ ~(j <= Len(a)) /\ j - Len(a) = j - (i - 1)
      BY <1>0, <1>1, <2>2
    <3>2. b[j - (i - 1)] = q[i + (j - (i - 1))] /\ i + (j - (i - 1)) = j + 1
      BY <1>2, <3>1
    <3>. QED
      BY <2>0, <2>2, <3>1, <3>2 DEF Above
  <2>3. j \in Nat /\ i \in Nat
    BY <1>0
  <2>. QED
    BY <2>1, <2>2, <2>3
<1>5. \A j \in 1 .. Len(q) - 1 : Above(i, j) \in 1 .. Len(q) /\ Above(i, j) # i
  BY <1>0 DEF Above
<1>. QED
  BY <1>3, <1>4, <1>5 DEF a, b

-----------------------------------------------------------------------------
(* What is under way *)

Requests == [id : Ids, call : Calls]
Messages == [type : {"response", "output", "success", "failure"}, id : Ids, ticket : Tickets \cup {0}]

\* The tickets given out are the first ones, and every one was a request.
Allotted ==
    \E m \in Nat : /\ m + Len(c2s) + Len(late) <= request_id
                   /\ \A n \in Tickets : tasks[n] # None <=> n <= m

\* No id is under way twice, as a request or as an answer.
Numbered ==
    /\ \A i \in 1 .. Len(c2s) : c2s[i].id < request_id
    /\ \A i, j \in 1 .. Len(c2s) : i # j => c2s[i].id # c2s[j].id
    /\ \A i \in 1 .. Len(s2c) : s2c[i].type = "response" =>
          /\ s2c[i].id < request_id
          /\ \A j \in 1 .. Len(c2s) : s2c[i].id # c2s[j].id
          /\ \A j \in 1 .. Len(s2c) : i # j /\ s2c[j].type = "response" => s2c[i].id # s2c[j].id

\* A request, and then its answer, is the one whose promise is kept under its id.
Matching ==
    /\ \A i \in 1 .. Len(c2s) : c2s[i].call.word # "stdin" => requests[c2s[i].id] = c2s[i].call
    /\ \A i \in 1 .. Len(s2c) : s2c[i].type = "response" =>
          LET c == requests[s2c[i].id]
          IN  /\ c # None
              /\ IF s2c[i].ticket = 0 THEN c.word \notin Starts ELSE c = tasks[s2c[i].ticket]

\* Tickets stand for tasks that were started.
Known ==
    /\ \A i \in 1 .. Len(s2c) : /\ s2c[i].ticket # 0 => tasks[s2c[i].ticket] # None
                                /\ s2c[i].type # "response" => s2c[i].ticket # 0
    /\ \A t \in live : tasks[t] # None
    /\ \A t \in Tickets : tasks[t] # None => tasks[t].word \in Starts

Wire == Allotted /\ Numbered /\ Matching /\ Known

WireType ==
    /\ request_id \in 0 .. MaxRequests
    /\ requests \in [Ids -> Calls \cup {None}]
    /\ c2s \in Seq(Requests)
    /\ s2c \in Seq(Messages)
    /\ tasks \in [Tickets -> Calls \cup {None}]
    /\ live \subseteq Tickets /\ orphans \subseteq Tickets
    /\ late \in Seq(Requests)

LEMMA NoneIsNoCall == None \notin Calls /\ MaxRequests \in Nat \ {0}
  BY WebAssumption

\* What stands in the queues.
LEMMA InTheQueues ==
    ASSUME WireType
    PROVE  /\ Len(c2s) \in Nat /\ Len(s2c) \in Nat /\ Len(late) \in Nat /\ request_id \in Nat
           /\ \A i \in Ids : i \in Nat
           /\ \A i \in 1 .. Len(c2s) : /\ c2s[i] \in Requests
                                      /\ c2s[i].id \in Ids /\ c2s[i].call \in Calls
           /\ \A i \in 1 .. Len(s2c) : /\ s2c[i] \in Messages
                                      /\ s2c[i].id \in Ids /\ s2c[i].ticket \in Tickets \cup {0}
<1>1. \A i \in 1 .. Len(c2s) : c2s[i] \in Requests
  BY DEF WireType
<1>2. \A i \in 1 .. Len(s2c) : s2c[i] \in Messages
  BY DEF WireType
<1>3. /\ Len(c2s) \in Nat /\ Len(s2c) \in Nat /\ Len(late) \in Nat /\ request_id \in Nat
      /\ \A i \in Ids : i \in Nat
  BY DEF WireType, Ids
<1>. QED
  BY <1>1, <1>2, <1>3 DEF Requests, Messages

\* What McloudIO.call sends: each call under the next id.
LEMMA TransmitWire ==
    ASSUME WireType, Wire, NEW q \in Seq(Calls), NEW up \in BOOLEAN,
           request_id + Len(q) <= MaxRequests, Transmit(q, up),
           UNCHANGED <<s2c, tasks, live, late, orphans>>
    PROVE  WireType' /\ Wire'
<1>. DEFINE r == [j \in DOMAIN q |-> [id |-> request_id + j - 1, call |-> q[j]]]
<1>0. /\ Len(q) \in Nat /\ DOMAIN q = 1 .. Len(q) /\ request_id \in Nat /\ MaxRequests \in Nat
      /\ \A j \in 1 .. Len(q) : q[j] \in Calls
  BY WebAssumption DEF WireType
<1>1. r \in Seq(Requests) /\ Len(r) = Len(q)
  <2>1. \A j \in 1 .. Len(q) : request_id + j - 1 \in Ids
    BY <1>0 DEF Ids
  <2>2. \A j \in 1 .. Len(q) : [id |-> request_id + j - 1, call |-> q[j]] \in Requests
    BY <1>0, <2>1 DEF Requests
  <2>. QED
    BY <1>0, <2>2
<1>2. \A j \in 1 .. Len(q) : r[j].id = request_id + j - 1 /\ r[j].call = q[j]
  BY <1>0
<1>3. request_id' = request_id + Len(q) /\ request_id' \in 0 .. MaxRequests
  BY <1>0 DEF Transmit
<1>4. /\ \A i \in Ids : i < request_id => requests'[i] = requests[i]
      /\ \A j \in 1 .. Len(q) : q[j].word # "stdin" => requests'[request_id + j - 1] = q[j]
  <2>1. ASSUME NEW i \in Ids, i < request_id PROVE requests'[i] = requests[i]
    <3>1. ~\E j \in DOMAIN q : i = request_id + j - 1
      BY <1>0, <2>1 DEF Ids
    <3>. QED
      BY <3>1 DEF Transmit
  <2>2. ASSUME NEW j \in 1 .. Len(q), q[j].word # "stdin" PROVE requests'[request_id + j - 1] = q[j]
    <3>1. request_id + j - 1 \in Ids /\ (request_id + j - 1) - request_id + 1 = j
      BY <1>0 DEF Ids
    <3>2. PICK i : i = request_id + j - 1
      OBVIOUS
    <3>3. i \in Ids /\ i - request_id + 1 = j
      BY <3>1, <3>2
    <3>4. requests'[i] = q[i - request_id + 1]
      BY <1>0, <2>2, <3>2, <3>3 DEF Transmit
    <3>. QED
      BY <3>2, <3>3, <3>4
  <2>. QED
    BY <2>1, <2>2
<1>5. requests' \in [Ids -> Calls \cup {None}]
  <2>1. ASSUME NEW i \in Ids, NEW j \in DOMAIN q, i = request_id + j - 1
        PROVE  q[i - request_id + 1] \in Calls
    <3>1. i - request_id + 1 = j
      BY <1>0, <2>1
    <3>. QED
      BY <1>0, <3>1
  <2>. QED
    BY <2>1 DEF Transmit, WireType
<1>6. c2s' = (IF up THEN c2s \o r ELSE c2s)
  BY DEF Transmit
<1>. HIDE DEF r
<1>7. /\ c2s' \in Seq(Requests) /\ Len(c2s') <= Len(c2s) + Len(q)
      /\ Len(c2s) \in Nat /\ Len(c2s') \in Nat
      /\ \A i \in 1 .. Len(c2s') :
           \/ i \in 1 .. Len(c2s) /\ c2s'[i] = c2s[i]
           \/ /\ i - Len(c2s) \in 1 .. Len(q)
              /\ c2s'[i].id = request_id + (i - Len(c2s)) - 1
              /\ c2s'[i].call = q[i - Len(c2s)]
  <2>1. CASE up
    <3>1. /\ c2s' \in Seq(Requests) /\ Len(c2s') = Len(c2s) + Len(q)
          /\ \A i \in 1 .. Len(c2s) : c2s'[i] = c2s[i]
          /\ \A j \in 1 .. Len(r) : c2s'[Len(c2s) + j] = r[j]
          /\ \A i \in 1 .. Len(c2s') : i \in 1 .. Len(c2s) \/ i - Len(c2s) \in 1 .. Len(r)
          /\ Len(c2s) \in Nat
      <4>1. c2s \in Seq(Requests) /\ c2s' = c2s \o r
        BY <1>6, <2>1 DEF WireType
      <4>2. /\ c2s \o r \in Seq(Requests) /\ Len(c2s \o r) = Len(c2s) + Len(r)
            /\ \A i \in 1 .. Len(c2s) : (c2s \o r)[i] = c2s[i]
            /\ \A i \in 1 .. Len(r) : (c2s \o r)[Len(c2s) + i] = r[i]
            /\ \A i \in 1 .. Len(c2s \o r) : i \in 1 .. Len(c2s) \/ i - Len(c2s) \in 1 .. Len(r)
        BY <1>1, <4>1, Joined, Zenon
      <4>. QED
        BY <1>1, <4>1, <4>2, InTheQueues, Zenon
    <3>2. ASSUME NEW i \in 1 .. Len(c2s'), i - Len(c2s) \in 1 .. Len(r)
          PROVE  c2s'[i] = r[i - Len(c2s)]
      <4>1. i = Len(c2s) + (i - Len(c2s))
        BY <3>1
      <4>. QED
        BY <3>1, <3>2, <4>1
    <3>. QED
      BY <1>0, <1>1, <1>2, <3>1, <3>2
  <2>2. CASE ~up
    BY <1>0, <1>6, <2>2 DEF WireType
  <2>. QED
    BY <2>1, <2>2
<1>8. \A i \in 1 .. Len(c2s) : c2s[i].id \in Ids /\ c2s[i].id < request_id
  BY InTheQueues DEF Wire, Numbered
<1>9. WireType'
  BY <1>3, <1>5, <1>7 DEF WireType
<1>10. Allotted'
  <2>1. PICK m \in Nat : /\ m + Len(c2s) + Len(late) <= request_id
                         /\ \A n \in Tickets : tasks[n] # None <=> n <= m
    BY DEF Wire, Allotted
  <2>2. m + Len(c2s') + Len(late') <= request_id'
    BY <1>0, <1>3, <1>7, <2>1, InTheQueues
  <2>. QED
    BY <2>1, <2>2 DEF Allotted
<1>11. Numbered'
  <2>1. \A i \in 1 .. Len(c2s') : c2s'[i].id < request_id'
    <3>1. ASSUME NEW i \in 1 .. Len(c2s'), i \in 1 .. Len(c2s), c2s'[i] = c2s[i]
          PROVE  c2s'[i].id < request_id'
      BY <1>0, <1>3, <1>8, <3>1, InTheQueues
    <3>2. ASSUME NEW i \in 1 .. Len(c2s'), i - Len(c2s) \in 1 .. Len(q),
                 c2s'[i].id = request_id + (i - Len(c2s)) - 1
          PROVE  c2s'[i].id < request_id'
      BY <1>0, <1>3, <1>7, <3>2
    <3>. QED
      BY <1>7, <3>1, <3>2
  <2>2. ASSUME NEW i \in 1 .. Len(c2s'), NEW j \in 1 .. Len(c2s'), i # j
        PROVE  c2s'[i].id # c2s'[j].id
    <3>1. i \in Nat /\ j \in Nat /\ \A n \in 1 .. Len(c2s) : c2s[n].id \in Nat
      BY <1>7, InTheQueues
    <3>2. CASE i \in 1 .. Len(c2s) /\ c2s'[i] = c2s[i]
      <4>1. CASE j \in 1 .. Len(c2s) /\ c2s'[j] = c2s[j]
        BY <2>2, <3>2, <4>1 DEF Wire, Numbered
      <4>2. CASE /\ j - Len(c2s) \in 1 .. Len(q)
                 /\ c2s'[j].id = request_id + (j - Len(c2s)) - 1
        BY <1>0, <1>7, <1>8, <3>1, <3>2, <4>2
      <4>. QED
        BY <1>7, <4>1, <4>2
    <3>3. CASE /\ i - Len(c2s) \in 1 .. Len(q)
               /\ c2s'[i].id = request_id + (i - Len(c2s)) - 1
      <4>1. CASE j \in 1 .. Len(c2s) /\ c2s'[j] = c2s[j]
        BY <1>0, <1>7, <1>8, <3>1, <3>3, <4>1
      <4>2. CASE c2s'[j].id = request_id + (j - Len(c2s)) - 1
        BY <1>0, <1>7, <2>2, <3>1, <3>3, <4>2
      <4>. QED
        BY <1>7, <4>1, <4>2
    <3>. QED
      BY <1>7, <3>2, <3>3
  <2>3. ASSUME NEW i \in 1 .. Len(s2c), s2c[i].type = "response"
        PROVE  /\ s2c[i].id < request_id'
               /\ \A j \in 1 .. Len(c2s') : s2c[i].id # c2s'[j].id
    <3>1. s2c[i].id < request_id /\ s2c[i].id \in Ids
      BY <2>3, InTheQueues DEF Wire, Numbered
    <3>2. \A j \in 1 .. Len(c2s) : s2c[i].id # c2s[j].id
      BY <2>3 DEF Wire, Numbered
    <3>. QED
      <4>1. s2c[i].id \in Nat /\ s2c[i].id < request_id'
        BY <1>0, <1>3, <3>1, InTheQueues
      <4>2. ASSUME NEW j \in 1 .. Len(c2s') PROVE s2c[i].id # c2s'[j].id
        <5>1. CASE j \in 1 .. Len(c2s) /\ c2s'[j] = c2s[j]
          BY <3>2, <5>1
        <5>2. CASE /\ j - Len(c2s) \in 1 .. Len(q)
                   /\ c2s'[j].id = request_id + (j - Len(c2s)) - 1
          BY <1>0, <1>7, <3>1, <4>1, <5>2
        <5>. QED
          BY <1>7, <5>1, <5>2
      <4>. QED
        BY <4>1, <4>2
  <2>. QED
    BY <2>1, <2>2, <2>3 DEF Wire, Numbered
<1>12. Matching'
  <2>1. ASSUME NEW i \in 1 .. Len(c2s'), c2s'[i].call.word # "stdin"
        PROVE  requests'[c2s'[i].id] = c2s'[i].call
    <3>1. CASE i \in 1 .. Len(c2s) /\ c2s'[i] = c2s[i]
      <4>1. c2s[i].id \in Ids /\ c2s[i].id < request_id
        BY <1>8, <3>1
      <4>2. requests[c2s[i].id] = c2s[i].call
        BY <2>1, <3>1 DEF Wire, Matching
      <4>. QED
        BY <1>4, <3>1, <4>1, <4>2
    <3>2. CASE /\ i - Len(c2s) \in 1 .. Len(q)
               /\ c2s'[i].id = request_id + (i - Len(c2s)) - 1
               /\ c2s'[i].call = q[i - Len(c2s)]
      <4>1. PICK j : j = i - Len(c2s)
        OBVIOUS
      <4>2. j \in 1 .. Len(q) /\ c2s'[i].id = request_id + j - 1 /\ c2s'[i].call = q[j]
        BY <3>2, <4>1
      <4>. QED
        BY <1>4, <2>1, <4>2
    <3>. QED
      BY <1>7, <3>1, <3>2
  <2>2. ASSUME NEW i \in 1 .. Len(s2c), s2c[i].type = "response"
        PROVE  requests'[s2c[i].id] = requests[s2c[i].id]
    BY <1>4, <2>2, InTheQueues DEF Wire, Numbered
  <2>. QED
    BY <2>1, <2>2 DEF Wire, Matching
<1>13. Known'
  BY DEF Wire, Known
<1>. QED
  BY <1>9, <1>10, <1>11, <1>12, <1>13 DEF Wire

\* The messages in c2s but for the i-th, if there is an i-th.
Shrinks(i) ==
    /\ c2s' \in Seq(Requests)
    /\ Len(c2s') = IF i \in 1 .. Len(c2s) THEN Len(c2s) - 1 ELSE Len(c2s)
    /\ \A j \in 1 .. Len(c2s') : /\ Above(i, j) \in 1 .. Len(c2s) /\ Above(i, j) # i
                                 /\ c2s'[j] = c2s[Above(i, j)]

\* What the server says in one step: an event of a task that was live, or the answer
\* with this id and ticket, or the one and then the other.
Spoken(id, x) ==
    /\ s2c' \in Seq(Messages) /\ Len(s2c) <= Len(s2c')
    /\ \A j \in 1 .. Len(s2c) : s2c'[j] = s2c[j]
    /\ \A j \in Len(s2c) + 1 .. Len(s2c') :
         \/ /\ j = Len(s2c) + 1 /\ s2c'[j].type # "response" /\ s2c'[j].ticket \in live
            /\ s2c'[j].type # "output" => s2c'[j].ticket \notin live'
         \/ j = Len(s2c') /\ s2c'[j] = Response(id, x)

LEMMA SpokenWire ==
    ASSUME WireType, WireType', Wire, NEW i \in 1 .. Len(c2s) + 1, NEW id, NEW x,
           Shrinks(i), Spoken(id, x), UNCHANGED <<request_id, requests>>,
           \A t \in live' : tasks'[t] # None,
           \A n \in Tickets : tasks[n] # None => tasks'[n] = tasks[n],
           \A n \in Tickets : tasks'[n] # None => tasks'[n].word \in Starts,
           \A j \in Len(s2c) + 1 .. Len(s2c') : s2c'[j] = Response(id, x) =>
               /\ i \in 1 .. Len(c2s) /\ id = c2s[i].id
               /\ requests[id] # None
               /\ IF x = 0 THEN requests[id].word \notin Starts
                           ELSE requests[id] = tasks'[x] /\ tasks'[x] # None
    PROVE  Numbered' /\ Matching' /\ Known'
<1>0. /\ Len(c2s) \in Nat /\ Len(c2s') \in Nat /\ Len(s2c) \in Nat /\ Len(s2c') \in Nat
      /\ i \in Nat /\ 0 \notin Tickets /\ live \subseteq Tickets
      /\ \A j \in 1 .. Len(s2c) : s2c[j].ticket \in Tickets \cup {0}
  BY InTheQueues DEF Tickets, Shrinks, Spoken, WireType
<1>1. \A j, k \in 1 .. Len(c2s') : j # k => Above(i, j) # Above(i, k)
  BY <1>0 DEF Above
<1>2. \A j \in 1 .. Len(c2s') : c2s'[j].id < request_id /\ c2s'[j] = c2s[Above(i, j)]
  BY DEF Shrinks, Wire, Numbered
<1>3. \A j, k \in 1 .. Len(c2s') : j # k => c2s'[j].id # c2s'[k].id
  <2>1. SUFFICES ASSUME NEW j \in 1 .. Len(c2s'), NEW k \in 1 .. Len(c2s'), j # k
                 PROVE  c2s'[j].id # c2s'[k].id
    OBVIOUS
  <2>2. /\ Above(i, j) \in 1 .. Len(c2s) /\ c2s'[j] = c2s[Above(i, j)]
        /\ Above(i, k) \in 1 .. Len(c2s) /\ c2s'[k] = c2s[Above(i, k)]
    BY DEF Shrinks
  <2>3. Above(i, j) # Above(i, k)
    BY <1>1, <2>1
  <2>. QED
    BY <2>2, <2>3 DEF Wire, Numbered
<1>4. ASSUME NEW j \in 1 .. Len(s2c')
      PROVE  \/ j \in 1 .. Len(s2c) /\ s2c'[j] = s2c[j]
             \/ /\ j \in Len(s2c) + 1 .. Len(s2c') /\ s2c'[j].type # "response"
                /\ s2c'[j].ticket \in live
             \/ /\ j \in Len(s2c) + 1 .. Len(s2c') /\ j = Len(s2c')
                /\ s2c'[j] = Response(id, x) /\ s2c'[j].type = "response"
                /\ s2c'[j].id = id /\ s2c'[j].ticket = x
  <2>1. j \in 1 .. Len(s2c) \/ j \in Len(s2c) + 1 .. Len(s2c')
    BY <1>0
  <2>. QED
    BY <2>1 DEF Spoken, Response
<1>5. ASSUME NEW j \in Len(s2c) + 1 .. Len(s2c'), s2c'[j] = Response(id, x)
      PROVE  /\ id < request_id
             /\ \A k \in 1 .. Len(c2s') : id # c2s'[k].id
             /\ \A k \in 1 .. Len(s2c) : s2c[k].type = "response" => s2c[k].id # id
  <2>1. i \in 1 .. Len(c2s) /\ id = c2s[i].id
    BY <1>5
  <2>2. id < request_id /\ \A k \in 1 .. Len(s2c) : s2c[k].type = "response" => s2c[k].id # id
    BY <2>1 DEF Wire, Numbered
  <2>3. \A k \in 1 .. Len(c2s) : k # i => c2s[k].id # id
    BY <2>1 DEF Wire, Numbered
  <2>. QED
    BY <2>2, <2>3 DEF Shrinks
<1>6. Numbered'
  <2>1. ASSUME NEW j \in 1 .. Len(s2c'), s2c'[j].type = "response"
        PROVE  /\ s2c'[j].id < request_id
               /\ \A k \in 1 .. Len(c2s') : s2c'[j].id # c2s'[k].id
    <3>1. CASE j \in 1 .. Len(s2c) /\ s2c'[j] = s2c[j]
      <4>1. s2c[j].id < request_id /\ \A k \in 1 .. Len(c2s) : s2c[j].id # c2s[k].id
        BY <2>1, <3>1 DEF Wire, Numbered
      <4>2. \A k \in 1 .. Len(c2s') : Above(i, k) \in 1 .. Len(c2s) /\ c2s'[k] = c2s[Above(i, k)]
        BY DEF Shrinks
      <4>. QED
        BY <3>1, <4>1, <4>2
    <3>2. CASE /\ j \in Len(s2c) + 1 .. Len(s2c') /\ s2c'[j] = Response(id, x)
               /\ s2c'[j].id = id
      BY <1>5, <2>1, <3>2
    <3>. QED
      BY <1>4, <2>1, <3>1, <3>2
  <2>2. ASSUME NEW j \in 1 .. Len(s2c'), NEW k \in 1 .. Len(s2c'), j # k,
               s2c'[j].type = "response", s2c'[k].type = "response"
        PROVE  s2c'[j].id # s2c'[k].id
    <3>1. CASE s2c'[j] = s2c[j] /\ j \in 1 .. Len(s2c) /\ s2c'[k] = s2c[k] /\ k \in 1 .. Len(s2c)
      BY <2>2, <3>1 DEF Wire, Numbered
    <3>2. CASE /\ s2c'[j] = s2c[j] /\ j \in 1 .. Len(s2c)
               /\ k \in Len(s2c) + 1 .. Len(s2c') /\ s2c'[k] = Response(id, x) /\ s2c'[k].id = id
      BY <1>5, <2>2, <3>2
    <3>3. CASE /\ s2c'[k] = s2c[k] /\ k \in 1 .. Len(s2c)
               /\ j \in Len(s2c) + 1 .. Len(s2c') /\ s2c'[j] = Response(id, x) /\ s2c'[j].id = id
      BY <1>5, <2>2, <3>3
    <3>. QED
      BY <1>4, <2>2, <3>1, <3>2, <3>3
  <2>. QED
    BY <1>2, <1>3, <2>1, <2>2 DEF Numbered
<1>7. Matching'
  <2>1. \A j \in 1 .. Len(c2s') : c2s'[j].call.word # "stdin" => requests'[c2s'[j].id] = c2s'[j].call
    BY DEF Shrinks, Wire, Matching
  <2>2. ASSUME NEW j \in 1 .. Len(s2c'), s2c'[j].type = "response"
        PROVE  LET c == requests'[s2c'[j].id]
               IN  /\ c # None
                   /\ IF s2c'[j].ticket = 0 THEN c.word \notin Starts ELSE c = tasks'[s2c'[j].ticket]
    <3>1. CASE j \in 1 .. Len(s2c) /\ s2c'[j] = s2c[j]
      BY <1>0, <2>2, <3>1 DEF Wire, Matching, Known
    <3>2. CASE /\ j \in Len(s2c) + 1 .. Len(s2c') /\ s2c'[j] = Response(id, x)
               /\ s2c'[j].id = id /\ s2c'[j].ticket = x
      BY <3>2
    <3>. QED
      BY <1>4, <2>2, <3>1, <3>2
  <2>. QED
    BY <2>1, <2>2 DEF Matching
<1>8. Known'
  <2>1. ASSUME NEW j \in 1 .. Len(s2c')
        PROVE  /\ s2c'[j].ticket # 0 => tasks'[s2c'[j].ticket] # None
               /\ s2c'[j].type # "response" => s2c'[j].ticket # 0
    <3>1. CASE j \in 1 .. Len(s2c) /\ s2c'[j] = s2c[j]
      BY <1>0, <3>1 DEF Wire, Known
    <3>2. CASE s2c'[j].ticket \in live
      BY <1>0, <3>2 DEF Wire, Known
    <3>3. CASE /\ j \in Len(s2c) + 1 .. Len(s2c') /\ s2c'[j] = Response(id, x)
               /\ s2c'[j].ticket = x /\ s2c'[j].type = "response"
      BY <3>3
    <3>. QED
      BY <1>4, <3>1, <3>2, <3>3
  <2>. QED
    BY <2>1 DEF Known
<1>. QED
  BY <1>6, <1>7, <1>8

\* The browser handles the first message, having forgotten the promise of an answer.
LEMMA TakenWire ==
    ASSUME WireType, Wire, s2c # <<>>, s2c' = Tail(s2c),
           UNCHANGED <<request_id, c2s, tasks, live, late, orphans>>,
           IF Head(s2c).type = "response"
           THEN requests' = [requests EXCEPT ![Head(s2c).id] = None] ELSE requests' = requests
    PROVE  /\ WireType' /\ Wire'
           /\ Len(s2c') = Len(s2c) - 1 /\ Head(s2c) = s2c[1]
           /\ \A j \in 1 .. Len(s2c') : s2c'[j] = s2c[j + 1] /\ j + 1 \in 2 .. Len(s2c)
<1>1. /\ s2c' \in Seq(Messages) /\ Len(s2c') = Len(s2c) - 1 /\ Len(s2c) \in Nat \ {0}
      /\ Head(s2c) = s2c[1]
      /\ \A j \in 1 .. Len(s2c') : s2c'[j] = s2c[j + 1] /\ j + 1 \in 2 .. Len(s2c)
  <2>1. s2c \in Seq(Messages)
    BY DEF WireType
  <2>2. /\ Tail(s2c) \in Seq(Messages) /\ Len(Tail(s2c)) = Len(s2c) - 1
        /\ \A j \in 1 .. Len(Tail(s2c)) : Tail(s2c)[j] = s2c[j + 1]
    BY <2>1, HeadTailProperties
  <2>3. Len(s2c) \in Nat \ {0} /\ Head(s2c) = s2c[1]
    BY <2>1, EmptySeq
  <2>. QED
    BY <2>2, <2>3
<1>2. /\ requests' \in [Ids -> Calls \cup {None}]
      /\ \A i \in Ids : (s2c[1].type = "response" => i # s2c[1].id) => requests'[i] = requests[i]
  BY <1>1 DEF WireType
<1>3. WireType'
  BY <1>1, <1>2 DEF WireType
<1>4. Numbered'
  BY <1>1 DEF Wire, Numbered
<1>5. Matching'
  <2>1. \A j \in 1 .. Len(c2s) : requests'[c2s[j].id] = requests[c2s[j].id]
    BY <1>1, <1>2, InTheQueues DEF Wire, Numbered
  <2>2. \A j \in 2 .. Len(s2c) : s2c[j].type = "response" => requests'[s2c[j].id] = requests[s2c[j].id]
    <3>1. SUFFICES ASSUME NEW j \in 2 .. Len(s2c), s2c[j].type = "response"
                   PROVE  requests'[s2c[j].id] = requests[s2c[j].id]
      OBVIOUS
    <3>2. s2c[j].id \in Ids /\ (s2c[1].type = "response" => s2c[j].id # s2c[1].id)
      BY <1>1, <3>1, InTheQueues DEF Wire, Numbered
    <3>. QED
      BY <1>2, <3>2
  <2>3. ASSUME NEW j \in 1 .. Len(s2c'), s2c'[j].type = "response"
        PROVE  LET c == requests'[s2c'[j].id]
               IN  /\ c # None
                   /\ IF s2c'[j].ticket = 0 THEN c.word \notin Starts ELSE c = tasks[s2c'[j].ticket]
    <3>1. j + 1 \in 1 .. Len(s2c) /\ s2c'[j] = s2c[j + 1]
      BY <1>1
    <3>. QED
      BY <1>1, <2>2, <2>3, <3>1 DEF Wire, Matching
  <2>. QED
    BY <2>1, <2>3 DEF Wire, Matching
<1>6. Known'
  BY <1>1 DEF Wire, Known
<1>7. Allotted'
  BY DEF Wire, Allotted
<1>. QED
  BY <1>1, <1>3, <1>4, <1>5, <1>6, <1>7 DEF Wire

\* The calls in c2s, and those of connections that are gone.
Asked == { c2s[i].call : i \in 1 .. Len(c2s) }
Left == { late[i].call : i \in 1 .. Len(late) }

\* The connection is lost with some of what was under way.
LEMMA DroppedWire ==
    ASSUME WireType, Wire, c2s' = <<>>, NEW n \in 0 .. Len(s2c), s2c' = SubSeq(s2c, 1, n),
           NEW k \in 0 .. Len(c2s), late' = late \o SubSeq(c2s, 1, k), orphans' \subseteq Tickets,
           live' = {}, UNCHANGED <<request_id, requests, tasks>>
    PROVE  /\ WireType' /\ Wire'
           /\ Left' \subseteq Left \cup Asked
           /\ Len(s2c') = n /\ \A j \in 1 .. n : s2c'[j] = s2c[j] /\ j \in 1 .. Len(s2c)
<1>1. /\ s2c' \in Seq(Messages) /\ Len(s2c') = n
      /\ \A j \in 1 .. n : s2c'[j] = s2c[j] /\ j \in 1 .. Len(s2c)
  <2>1. \A j \in 1 .. n : j \in 1 .. Len(s2c) /\ s2c[j] \in Messages
    BY InTheQueues
  <2>2. n \in Nat
    BY InTheQueues
  <2>3. /\ s2c' \in Seq(Messages) /\ Len(s2c') = IF 1 <= n THEN n - 1 + 1 ELSE 0
        /\ \A j \in 1 .. n - 1 + 1 : s2c'[j] = s2c[1 + j - 1]
    BY <2>1, <2>2, SubSeqProperties
  <2>. QED
    BY <2>1, <2>2, <2>3
<1>2. c2s' \in Seq(Requests) /\ Len(c2s') = 0
  OBVIOUS
<1>6. /\ late' \in Seq(Requests) /\ Len(late') = Len(late) + k
      /\ \A i \in 1 .. Len(late') : \/ i \in 1 .. Len(late) /\ late'[i] = late[i]
                                    \/ \E j \in 1 .. Len(c2s) : late'[i] = c2s[j]
  <2>. DEFINE r == SubSeq(c2s, 1, k)
  <2>1. \A j \in 1 .. k : j \in 1 .. Len(c2s) /\ c2s[j] \in Requests
    BY InTheQueues
  <2>2. k \in Nat
    BY InTheQueues
  <2>3. /\ r \in Seq(Requests) /\ Len(r) = IF 1 <= k THEN k - 1 + 1 ELSE 0
        /\ \A j \in 1 .. k - 1 + 1 : r[j] = c2s[1 + j - 1]
    BY <2>1, <2>2, SubSeqProperties
  <2>4. Len(r) = k /\ \A j \in 1 .. Len(r) : r[j] = c2s[j] /\ j \in 1 .. Len(c2s)
    BY <2>1, <2>2, <2>3
  <2>5. late \in Seq(Requests) /\ Len(late) \in Nat
    BY InTheQueues DEF WireType
  <2>. HIDE DEF r
  <2>6. /\ late \o r \in Seq(Requests) /\ Len(late \o r) = Len(late) + Len(r)
        /\ \A i \in 1 .. Len(late) : (late \o r)[i] = late[i]
        /\ \A i \in 1 .. Len(r) : (late \o r)[Len(late) + i] = r[i]
        /\ \A i \in 1 .. Len(late \o r) : i \in 1 .. Len(late) \/ i - Len(late) \in 1 .. Len(r)
    BY <2>3, <2>5, Joined
  <2>7. ASSUME NEW i \in 1 .. Len(late \o r), i - Len(late) \in 1 .. Len(r)
        PROVE  \E j \in 1 .. Len(c2s) : (late \o r)[i] = c2s[j]
    <3>1. PICK j : j = i - Len(late)
      OBVIOUS
    <3>2. j \in 1 .. Len(r) /\ i = Len(late) + j
      BY <2>5, <2>7, <3>1
    <3>. QED
      BY <2>4, <2>6, <3>2
  <2>8. late' = late \o r
    BY DEF r
  <2>. QED
    BY <2>4, <2>6, <2>7, <2>8
<1>3. WireType'
  BY <1>1, <1>2, <1>6 DEF WireType
<1>4. Numbered' /\ Matching' /\ Known'
  BY <1>1, <1>2 DEF Wire, Numbered, Matching, Known
<1>5. Allotted'
  <2>1. Len(c2s) \in Nat /\ Len(late) \in Nat /\ request_id \in Nat
    BY InTheQueues
  <2>2. PICK m \in Nat : /\ m + Len(c2s) + Len(late) <= request_id
                         /\ \A x \in Tickets : tasks[x] # None <=> x <= m
    BY DEF Wire, Allotted
  <2>3. m + Len(c2s') + Len(late') <= request_id'
    BY <1>2, <1>6, <2>1, <2>2
  <2>. QED
    BY <2>2, <2>3 DEF Allotted
<1>7. Left' \subseteq Left \cup Asked
  BY <1>6 DEF Left, Asked
<1>. QED
  BY <1>1, <1>3, <1>4, <1>5, <1>7 DEF Wire

-----------------------------------------------------------------------------
(* What is asked for *)

LEMMA TransmitAsks ==
    ASSUME WireType, NEW q \in Seq(Calls), NEW up \in BOOLEAN, Transmit(q, up)
    PROVE  Asked' = Asked \cup (IF up THEN Members(q) ELSE {})
<1>. DEFINE r == [j \in DOMAIN q |-> [id |-> request_id + j - 1, call |-> q[j]]]
<1>1. CASE up
  <2>0. DOMAIN q = 1 .. Len(q) /\ Len(q) \in Nat /\ Len(c2s) \in Nat
    BY InTheQueues
  <2>1. r \in Seq([id : Int, call : Calls]) /\ Len(r) = Len(q)
    <3>1. \A j \in 1 .. Len(q) : [id |-> request_id + j - 1, call |-> q[j]] \in [id : Int, call : Calls]
      BY DEF WireType
    <3>. QED
      BY <2>0, <3>1
  <2>2. \A j \in 1 .. Len(q) : r[j].call = q[j]
    BY <2>0
  <2>3. c2s' = c2s \o r /\ c2s \in Seq([id : Int, call : Calls])
    <3>1. Requests \subseteq [id : Int, call : Calls]
      BY DEF Requests, Ids
    <3>2. c2s \in Seq(Requests)
      BY DEF WireType
    <3>4. c2s \in Seq([id : Int, call : Calls])
      BY <3>1, <3>2, SeqMonotonic
    <3>. QED
      BY <1>1, <3>4 DEF Transmit
  <2>. HIDE DEF r
  <2>. DEFINE R == [id : Int, call : Calls]
  <2>. HIDE DEF R
  <2>4. c2s \in Seq(R) /\ r \in Seq(R)
    BY <2>1, <2>3 DEF R
  <2>5. /\ Len(c2s') = Len(c2s) + Len(q)
        /\ \A i \in 1 .. Len(c2s) : c2s'[i] = c2s[i]
        /\ \A i \in 1 .. Len(q) : c2s'[Len(c2s) + i] = r[i]
        /\ \A i \in 1 .. Len(c2s') : i \in 1 .. Len(c2s) \/ i - Len(c2s) \in 1 .. Len(q)
    <3>1. /\ Len(c2s \o r) = Len(c2s) + Len(r)
          /\ \A i \in 1 .. Len(c2s) : (c2s \o r)[i] = c2s[i]
          /\ \A i \in 1 .. Len(r) : (c2s \o r)[Len(c2s) + i] = r[i]
          /\ \A i \in 1 .. Len(c2s \o r) : i \in 1 .. Len(c2s) \/ i - Len(c2s) \in 1 .. Len(r)
      BY <2>4, Joined
    <3>2. c2s' = c2s \o r /\ Len(r) = Len(q)
      BY <2>1, <2>3
    <3>. QED
      BY <3>1, <3>2, Zenon
  <2>6. Members(q) = { q[j] : j \in 1 .. Len(q) }
    BY <2>0 DEF Members
  <2>7. Asked \subseteq Asked'
    BY <2>0, <2>5 DEF Asked
  <2>8. Members(q) \subseteq Asked'
    <3>1. ASSUME NEW j \in 1 .. Len(q) PROVE q[j] \in Asked'
      <4>1. PICK i : i = Len(c2s) + j
        OBVIOUS
      <4>2. i \in 1 .. Len(c2s') /\ c2s'[i] = r[j]
        BY <2>0, <2>5, <4>1
      <4>3. c2s'[i].call = q[j]
        BY <2>2, <4>2
      <4>. QED
        BY <4>2, <4>3 DEF Asked
    <3>. QED
      BY <2>6, <3>1
  <2>9. Asked' \subseteq Asked \cup Members(q)
    <3>1. ASSUME NEW i \in 1 .. Len(c2s') PROVE c2s'[i].call \in Asked \cup Members(q)
      <4>1. CASE i \in 1 .. Len(c2s)
        BY <2>5, <4>1 DEF Asked
      <4>2. CASE i - Len(c2s) \in 1 .. Len(q)
        <5>1. PICK j : j = i - Len(c2s)
          OBVIOUS
        <5>2. j \in 1 .. Len(q) /\ i = Len(c2s) + j
          BY <2>0, <2>5, <4>2, <5>1
        <5>3. c2s'[i] = r[j]
          BY <2>5, <5>2
        <5>. QED
          BY <2>2, <2>6, <5>2, <5>3
      <4>. QED
        BY <2>5, <4>1, <4>2
    <3>. QED
      BY <3>1 DEF Asked
  <2>. QED
    BY <1>1, <2>7, <2>8, <2>9
<1>2. CASE ~up
  BY <1>2 DEF Transmit, Asked
<1>. QED
  BY <1>1, <1>2

LEMMA MembersJoined ==
    ASSUME NEW S, NEW q \in Seq(S), NEW r \in Seq(S)
    PROVE  Members(q \o r) = Members(q) \cup Members(r)
<1>1. /\ q \o r \in Seq(S) /\ Len(q \o r) = Len(q) + Len(r)
      /\ \A i \in 1 .. Len(q) : (q \o r)[i] = q[i]
      /\ \A i \in 1 .. Len(r) : (q \o r)[Len(q) + i] = r[i]
      /\ \A i \in 1 .. Len(q \o r) : i \in 1 .. Len(q) \/ i - Len(q) \in 1 .. Len(r)
  BY Joined
<1>2. /\ DOMAIN q = 1 .. Len(q) /\ DOMAIN r = 1 .. Len(r) /\ DOMAIN (q \o r) = 1 .. Len(q \o r)
      /\ Len(q) \in Nat /\ Len(r) \in Nat
  BY <1>1
<1>3. ASSUME NEW i \in 1 .. Len(q \o r) PROVE (q \o r)[i] \in Members(q) \cup Members(r)
  <2>1. CASE i \in 1 .. Len(q)
    BY <1>1, <1>2, <2>1 DEF Members
  <2>2. CASE i - Len(q) \in 1 .. Len(r)
    <3>1. PICK j : j = i - Len(q)
      OBVIOUS
    <3>2. j \in 1 .. Len(r) /\ i = Len(q) + j
      BY <1>1, <1>2, <2>2, <3>1
    <3>3. (q \o r)[i] = r[j]
      BY <1>1, <3>2
    <3>. QED
      BY <1>2, <3>2, <3>3 DEF Members
  <2>. QED
    BY <1>1, <2>1, <2>2
<1>4. ASSUME NEW i \in 1 .. Len(q) PROVE q[i] \in Members(q \o r)
  <2>1. i \in 1 .. Len(q \o r) /\ (q \o r)[i] = q[i]
    BY <1>1, <1>2
  <2>. QED
    BY <1>2, <2>1 DEF Members
<1>5. ASSUME NEW i \in 1 .. Len(r) PROVE r[i] \in Members(q \o r)
  <2>1. PICK j : j = Len(q) + i
    OBVIOUS
  <2>2. j \in 1 .. Len(q \o r) /\ (q \o r)[j] = r[i]
    BY <1>1, <1>2, <2>1
  <2>. QED
    BY <1>2, <2>2 DEF Members
<1>6. /\ Members(q) = { q[i] : i \in 1 .. Len(q) } /\ Members(r) = { r[i] : i \in 1 .. Len(r) }
      /\ Members(q \o r) = { (q \o r)[i] : i \in 1 .. Len(q \o r) }
  BY <1>2 DEF Members
<1>. QED
  BY <1>3, <1>4, <1>5, <1>6

\* The calls that wait for a connection can still be numbered once there is one.
Patient == waiting \in Seq(Calls) /\ request_id + Len(waiting) <= MaxRequests

\* McloudIO.request sends the calls q, unless the socket is closing, or keeps them.
LEMMA IssueWire ==
    ASSUME SocketInv, WireType, Wire, Patient, NEW q \in Seq(Calls), Issue(q),
           UNCHANGED <<s2c, tasks, live, late, orphans, ws>>
    PROVE  /\ WireType' /\ Wire' /\ Patient'
           /\ Asked' = Asked \cup (IF ws = "open" THEN Members(q) ELSE {})
           /\ Members(waiting') \subseteq Members(waiting) \cup Members(q)
<1>0. request_id \in Nat /\ Len(waiting) \in Nat /\ Len(q) \in Nat /\ MaxRequests \in Nat
  BY InTheQueues, WebAssumption DEF Patient
<1>1. CASE online /\ Transmit(q, ws = "open") /\ UNCHANGED waiting
  <2>1. request_id + Len(waiting) + Len(q) <= MaxRequests
    BY DEF Issue
  <2>2. request_id + Len(q) <= MaxRequests
    BY <1>0, <2>1
  <2>3. request_id' = request_id + Len(q)
    BY <1>1 DEF Transmit
  <2>4. Patient'
    BY <1>0, <1>1, <2>1, <2>3 DEF Patient
  <2>5. WireType' /\ Wire'
    BY <1>1, <2>2, TransmitWire
  <2>6. Asked' = Asked \cup (IF ws = "open" THEN Members(q) ELSE {})
    BY <1>1, TransmitAsks
  <2>. QED
    BY <1>1, <2>4, <2>5, <2>6
<1>2. CASE ~online /\ waiting' = waiting \o q /\ UNCHANGED <<request_id, requests, c2s>>
  <2>1. Patient' /\ Members(waiting') = Members(waiting) \cup Members(q)
    <3>1. request_id + Len(waiting) + Len(q) <= MaxRequests
      BY DEF Issue
    <3>2. waiting \o q \in Seq(Calls) /\ Len(waiting \o q) = Len(waiting) + Len(q)
      BY Joined DEF Patient
    <3>3. Patient'
      BY <1>0, <1>2, <3>1, <3>2 DEF Patient
    <3>. QED
      BY <1>2, <3>3, MembersJoined DEF Patient
  <2>2. ws # "open"
    BY <1>2 DEF SocketInv
  <2>3. WireType' /\ Wire' /\ Asked' = Asked
    BY <1>2 DEF WireType, Wire, Allotted, Numbered, Matching, Known, Asked
  <2>. QED
    BY <2>1, <2>2, <2>3
<1>. QED
  BY <1>1, <1>2 DEF Issue

-----------------------------------------------------------------------------
(* The steps of the server *)

\* A step of the server takes the i-th request, if there is an i-th, and speaks.
Speech(i, id, x) ==
    /\ Shrinks(i) /\ Spoken(id, x)
    /\ \A t \in live' :
         \/ t \in live /\ (i \in 1 .. Len(c2s) => c2s[i].call # Call("kill", None, t))
         \/ /\ t = x /\ tasks[t] = None /\ i \in 1 .. Len(c2s)
            /\ s2c'[Len(s2c')] = Response(id, x) /\ Len(s2c) < Len(s2c')
    /\ \A n \in Tickets : \/ tasks'[n] = tasks[n]
                          \/ /\ tasks[n] = None /\ i \in 1 .. Len(c2s)
                             /\ tasks'[n] = c2s[i].call /\ tasks'[n] # None

LEMMA MessagesMade ==
    ASSUME NEW t \in Tickets \cup {0}
    PROVE  /\ \A i \in Ids : Response(i, t) \in Messages
           /\ \A name \in {"output", "success", "failure"} : Event(name, t) \in Messages
<1>1. 0 \in Ids
  BY WebAssumption DEF Ids
<1>. QED
  BY <1>1 DEF Response, Event, Messages

\* One message more, and two.
LEMMA SaysOne ==
    ASSUME WireType, NEW m \in Messages, s2c' = Append(s2c, m)
    PROVE  /\ s2c' \in Seq(Messages) /\ Len(s2c') = Len(s2c) + 1 /\ Len(s2c) \in Nat
           /\ \A j \in 1 .. Len(s2c) : s2c'[j] = s2c[j]
           /\ s2c'[Len(s2c) + 1] = m
  BY DEF WireType

LEMMA SaysTwo ==
    ASSUME WireType, NEW m \in Messages, NEW n \in Messages, s2c' = s2c \o <<m>> \o <<n>>
    PROVE  /\ s2c' \in Seq(Messages) /\ Len(s2c') = Len(s2c) + 2 /\ Len(s2c) \in Nat
           /\ \A j \in 1 .. Len(s2c) : s2c'[j] = s2c[j]
           /\ s2c'[Len(s2c) + 1] = m /\ s2c'[Len(s2c) + 2] = n
  BY DEF WireType

\* The next ticket is the one after those given out.
LEMMA NextTicket ==
    ASSUME WireType, Wire, NEW new, new = NewTicket,
           NEW c \in Calls, tasks' = [tasks EXCEPT ![new] = c], UNCHANGED request_id,
           Len(c2s') \in Nat, Len(late') \in Nat, Len(c2s') + Len(late') = Len(c2s) + Len(late) - 1
    PROVE  new \in Tickets /\ tasks[new] = None /\ Allotted'
<1>0. /\ Len(c2s) \in Nat /\ Len(late) \in Nat /\ Len(c2s) + Len(late) > 0
      /\ request_id \in Nat /\ request_id <= MaxRequests /\ MaxRequests \in Nat
  BY InTheQueues, WebAssumption DEF WireType
<1>1. PICK m \in Nat : /\ m + Len(c2s) + Len(late) <= request_id
                       /\ \A n \in Tickets : tasks[n] # None <=> n <= m
  BY DEF Wire, Allotted
<1>2. /\ m + 1 \in Tickets /\ tasks[m + 1] = None
      /\ \A k \in 1 .. (m + 1) - 1 : k \in Tickets /\ tasks[k] # None
  BY <1>0, <1>1 DEF Tickets
<1>3. new \in Tickets /\ tasks[new] = None /\ \A k \in 1 .. new - 1 : tasks[k] # None
  BY <1>2 DEF NewTicket
<1>4. new = m + 1
  <2>1. new \in Nat /\ ~(new <= m)
    BY <1>1, <1>3 DEF Tickets
  <2>2. ~(m + 1 \in 1 .. new - 1)
    BY <1>2, <1>3
  <2>. QED
    BY <2>1, <2>2
<1>5. \A n \in Tickets : tasks'[n] # None <=> n <= m + 1
  <2>1. tasks'[new] = c /\ \A n \in Tickets : n # new => tasks'[n] = tasks[n]
    BY <1>3 DEF WireType
  <2>2. \A n \in Tickets : n <= m + 1 <=> n = new \/ n <= m
    <3>1. \A n \in Tickets : n \in Nat
      BY DEF Tickets
    <3>2. \A n \in Nat : n <= m + 1 <=> n = m + 1 \/ n <= m
      OBVIOUS
    <3>. QED
      BY <1>4, <3>1, <3>2
  <2>. QED
    BY <1>1, <2>1, <2>2, NoneIsNoCall
<1>6. m + 1 \in Nat /\ m + 1 + Len(c2s') + Len(late') <= request_id
  BY <1>0, <1>1
<1>. QED
  BY <1>3, <1>5, <1>6 DEF Allotted

\* Fewer requests under way, and as many tickets.
LEMMA SameTickets ==
    ASSUME WireType, Wire, UNCHANGED <<tasks, request_id>>,
           Len(c2s') \in Nat, Len(late') \in Nat, Len(c2s') + Len(late') <= Len(c2s) + Len(late)
    PROVE  Allotted'
<1>1. Len(c2s) \in Nat /\ Len(late) \in Nat /\ request_id \in Nat
  BY InTheQueues
<1>2. PICK m \in Nat : /\ m + Len(c2s) + Len(late) <= request_id
                       /\ \A n \in Tickets : tasks[n] # None <=> n <= m
  BY DEF Wire, Allotted
<1>3. m + Len(c2s') + Len(late') <= request_id
  BY <1>1, <1>2
<1>. QED
  BY <1>2, <1>3 DEF Allotted

\* Every step of the server is such a step, and keeps the numbers in order.
LEMMA ServeSpeech ==
    ASSUME WireType, Wire, NEW i \in DOMAIN c2s, Serve(i)
    PROVE  WireType' /\ Wire' /\ \E id, x : Speech(i, id, x)
<1>. DEFINE m == c2s[i]
            new == NewTicket
<1>0. /\ i \in 1 .. Len(c2s) /\ Len(c2s) \in Nat \ {0} /\ m.id \in Ids /\ m.call \in Calls
      /\ m.call.ticket \in Tickets \cup {0} /\ 0 \notin Tickets
      /\ live \subseteq Tickets /\ tasks \in [Tickets -> Calls \cup {None}]
      /\ Len(s2c) \in Nat
  <2>1. i \in 1 .. Len(c2s) /\ Len(c2s) \in Nat /\ Len(s2c) \in Nat
    BY InTheQueues DEF WireType
  <2>2. m.id \in Ids /\ m.call \in Calls
    BY <2>1, InTheQueues
  <2>3. m.call.ticket \in Tickets \cup {0}
    BY <2>2 DEF Calls
  <2>. QED
    BY <2>1, <2>2, <2>3 DEF WireType, Tickets
<1>1. UNCHANGED <<request_id, requests, late>> /\ Len(late) \in Nat /\ late \in Seq(Requests)
  BY InTheQueues DEF Serve, calls, server, WireType
<1>2. /\ c2s' \in Seq(Requests) /\ Len(c2s') = Len(c2s) - 1
      /\ \A j \in 1 .. Len(c2s') : /\ Above(i, j) \in 1 .. Len(c2s) /\ Above(i, j) # i
                                   /\ c2s'[j] = c2s[Above(i, j)]
  <2>1. c2s' = SubSeq(c2s, 1, i - 1) \o SubSeq(c2s, i + 1, Len(c2s))
    BY DEF Serve
  <2>2. c2s \in Seq(Requests)
    BY DEF WireType
  <2>3. LET r == SubSeq(c2s, 1, i - 1) \o SubSeq(c2s, i + 1, Len(c2s))
        IN  /\ r \in Seq(Requests) /\ Len(r) = Len(c2s) - 1
            /\ \A j \in 1 .. Len(r) : /\ Above(i, j) \in 1 .. Len(c2s) /\ Above(i, j) # i
                                      /\ r[j] = c2s[Above(i, j)]
    BY <1>0, <2>2, Taken
  <2>. QED
    BY <2>1, <2>3
<1>3. Shrinks(i)
  BY <1>0, <1>2 DEF Shrinks
<1>4. m.call.word # "stdin" => requests[m.id] = m.call /\ requests[m.id] # None
  BY <1>0, NoneIsNoCall DEF Wire, Matching
<1>5. i \in 1 .. Len(c2s) + 1
  BY <1>0
<1>6. CASE /\ m.call.word \in Starts
           /\ tasks' = [tasks EXCEPT ![new] = m.call]
           /\ live' = live \cup {new}
           /\ s2c' = Append(s2c, Response(m.id, new))
           /\ UNCHANGED orphans
  <2>1. PICK n : n = new
    OBVIOUS
  <2>2. n \in Tickets /\ tasks[n] = None /\ Allotted'
    <3>1. n = NewTicket /\ tasks' = [tasks EXCEPT ![n] = m.call]
      BY <1>6, <2>1
    <3>2. Len(c2s') \in Nat /\ Len(c2s') + Len(late') = Len(c2s) + Len(late) - 1
      BY <1>0, <1>1, <1>2
    <3>. QED
      BY <1>0, <1>1, <3>1, <3>2, NextTicket
  <2>. HIDE DEF new
  <2>3. /\ s2c' \in Seq(Messages) /\ Len(s2c') = Len(s2c) + 1
        /\ \A j \in 1 .. Len(s2c) : s2c'[j] = s2c[j]
        /\ s2c'[Len(s2c) + 1] = Response(m.id, n)
    BY <1>0, <1>6, <2>1, <2>2, MessagesMade, SaysOne
  <2>4. Spoken(m.id, n)
    BY <1>0, <2>3 DEF Spoken
  <2>5. tasks'[n] = m.call /\ \A k \in Tickets : k # n => tasks'[k] = tasks[k]
    BY <1>0, <1>6, <2>1, <2>2
  <2>6. WireType'
    BY <1>0, <1>1, <1>2, <1>6, <2>1, <2>2, <2>3 DEF WireType
  <2>7. Speech(i, m.id, n)
    <3>1. \A t \in live : m.call # Call("kill", None, t)
      BY <1>6 DEF Call, Starts, Tabs, Panes
    <3>2. m.call # None
      BY <1>0, NoneIsNoCall
    <3>3. \A t \in live' : t \in live \/ t = n
      BY <1>6, <2>1
    <3>4. s2c'[Len(s2c')] = Response(m.id, n) /\ Len(s2c) < Len(s2c')
      BY <1>0, <2>3
    <3>. QED
      BY <1>0, <1>3, <2>2, <2>4, <2>5, <3>1, <3>2, <3>3, <3>4 DEF Speech
  <2>8. Numbered' /\ Matching' /\ Known'
    <3>1. \A t \in live' : tasks'[t] # None
      <4>1. \A t \in live : tasks[t] # None /\ t # n
        BY <2>2 DEF Wire, Known
      <4>. QED
        BY <1>0, <1>6, <2>1, <2>5, <4>1, NoneIsNoCall
    <3>2. \A k \in Tickets : /\ tasks[k] # None => tasks'[k] = tasks[k]
                             /\ tasks'[k] # None => tasks'[k].word \in Starts
      BY <1>6, <2>2, <2>5 DEF Wire, Known
    <3>3. /\ m.id = c2s[i].id /\ requests[m.id] # None /\ n # 0
          /\ requests[m.id] = tasks'[n] /\ tasks'[n] # None
      BY <1>0, <1>4, <1>6, <2>2, <2>5, NoneIsNoCall DEF Starts, Tabs, Panes
    <3>. QED
      BY <1>0, <1>1, <1>3, <1>5, <2>4, <2>6, <3>1, <3>2, <3>3, SpokenWire
  <2>. QED
    BY <2>2, <2>6, <2>7, <2>8 DEF Wire
<1>7. CASE /\ m.call.word = "kill"
           /\ live' = live \ {m.call.ticket}
           /\ s2c' = s2c \o (IF m.call.ticket \in live THEN <<Event("failure", m.call.ticket)>> ELSE <<>>)
                         \o <<Response(m.id, 0)>>
           /\ orphans' \subseteq orphans
           /\ UNCHANGED tasks
  <2>. DEFINE t == m.call.ticket
  <2>. HIDE DEF new
  <2>0. Response(m.id, 0) \in Messages /\ Event("failure", t) \in Messages
    BY <1>0, MessagesMade
  <2>1. s2c' \in Seq(Messages) /\ Spoken(m.id, 0) /\ Len(s2c) < Len(s2c')
    <3>1. CASE t \in live
      <4>1. s2c' = s2c \o <<Event("failure", t)>> \o <<Response(m.id, 0)>>
        BY <1>7, <3>1
      <4>2. /\ s2c' \in Seq(Messages) /\ Len(s2c') = Len(s2c) + 2
            /\ \A j \in 1 .. Len(s2c) : s2c'[j] = s2c[j]
            /\ s2c'[Len(s2c) + 1] = Event("failure", t) /\ s2c'[Len(s2c) + 2] = Response(m.id, 0)
        BY <2>0, <4>1, SaysTwo
      <4>3. /\ Event("failure", t).type = "failure" /\ Event("failure", t).ticket = t
            /\ t \in live /\ t \notin live'
        BY <1>7, <3>1 DEF Event
      <4>. HIDE DEF m, t
      <4>. QED
        BY <1>0, <4>2, <4>3 DEF Spoken
    <3>2. CASE t \notin live
      <4>1. s2c' = Append(s2c, Response(m.id, 0))
        BY <1>7, <3>2 DEF WireType
      <4>2. /\ s2c' \in Seq(Messages) /\ Len(s2c') = Len(s2c) + 1
            /\ \A j \in 1 .. Len(s2c) : s2c'[j] = s2c[j]
            /\ s2c'[Len(s2c) + 1] = Response(m.id, 0)
        BY <2>0, <4>1, SaysOne
      <4>. QED
        BY <1>0, <4>2 DEF Spoken
    <3>. QED
      BY <3>1, <3>2
  <2>2. WireType' /\ Allotted'
    <3>1. WireType'
      BY <1>0, <1>1, <1>2, <1>7, <2>1 DEF WireType
    <3>2. Len(c2s') \in Nat /\ Len(c2s') + Len(late') <= Len(c2s) + Len(late)
      BY <1>0, <1>1, <1>2
    <3>. QED
      BY <1>1, <1>7, <3>1, <3>2, SameTickets
  <2>3. Speech(i, m.id, 0)
    <3>1. \A k \in live' : k \in live /\ m.call # Call("kill", None, k)
      BY <1>7 DEF Call
    <3>. QED
      BY <1>3, <1>7, <2>1, <3>1 DEF Speech
  <2>4. Numbered' /\ Matching' /\ Known'
    <3>1. \A k \in live' : tasks'[k] # None
      BY <1>7 DEF Wire, Known
    <3>2. \A k \in Tickets : /\ tasks[k] # None => tasks'[k] = tasks[k]
                             /\ tasks'[k] # None => tasks'[k].word \in Starts
      BY <1>7 DEF Wire, Known
    <3>3. /\ m.id = c2s[i].id /\ requests[m.id] # None /\ requests[m.id].word \notin Starts
      BY <1>4, <1>7 DEF Starts, Tabs, Panes
    <3>. QED
      BY <1>0, <1>1, <1>3, <1>5, <2>1, <2>2, <3>1, <3>2, <3>3, SpokenWire
  <2>. QED
    BY <2>2, <2>3, <2>4 DEF Wire
<1>8. CASE m.call.word # "kill" /\ UNCHANGED <<server, s2c>>
  <2>. HIDE DEF new
  <2>0. UNCHANGED <<tasks, live, orphans>>
    BY <1>8 DEF server
  <2>1. s2c' \in Seq(Messages) /\ Spoken(m.id, 0) /\ Len(s2c') = Len(s2c)
    BY <1>0, <1>8 DEF Spoken, WireType
  <2>2. WireType' /\ Allotted'
    <3>1. WireType'
      BY <1>0, <1>1, <1>2, <2>0, <2>1 DEF WireType
    <3>2. Len(c2s') \in Nat /\ Len(c2s') + Len(late') <= Len(c2s) + Len(late)
      BY <1>0, <1>1, <1>2
    <3>. QED
      BY <1>1, <2>0, <3>1, <3>2, SameTickets
  <2>3. Speech(i, m.id, 0)
    <3>1. \A k \in live : m.call # Call("kill", None, k)
      BY <1>8 DEF Call
    <3>. QED
      BY <1>3, <2>0, <2>1, <3>1 DEF Speech
  <2>4. Numbered' /\ Matching' /\ Known'
    <3>1. \A k \in live' : tasks'[k] # None
      BY <2>0 DEF Wire, Known
    <3>2. \A k \in Tickets : /\ tasks[k] # None => tasks'[k] = tasks[k]
                             /\ tasks'[k] # None => tasks'[k].word \in Starts
      BY <2>0 DEF Wire, Known
    <3>3. ~\E j \in Len(s2c) + 1 .. Len(s2c') : TRUE
      BY <1>0, <2>1
    <3>. QED
      BY <1>0, <1>1, <1>3, <1>5, <2>1, <2>2, <3>1, <3>2, <3>3, SpokenWire
  <2>. QED
    BY <2>2, <2>3, <2>4 DEF Wire
<1>. QED
  BY <1>6, <1>7, <1>8 DEF Serve

LEMMA TaskSpeech ==
    ASSUME WireType, Wire, NEW t \in live, NEW name \in {"output", "success", "failure"},
           s2c' = Append(s2c, Event(name, t)),
           live' \subseteq live, name # "output" => t \notin live',
           UNCHANGED <<request_id, requests, c2s, tasks, late, orphans>>
    PROVE  WireType' /\ Wire' /\ \E i \in 1 .. Len(c2s) + 1 : \E id, x : Speech(i, id, x)
<1>0. Len(c2s) \in Nat /\ Len(s2c) \in Nat /\ t \in Tickets
  BY InTheQueues DEF WireType
<1>1. PICK i : i = Len(c2s) + 1
  OBVIOUS
<1>2. i \in 1 .. Len(c2s) + 1 /\ ~(i \in 1 .. Len(c2s)) /\ Shrinks(i)
  <2>1. \A j \in 1 .. Len(c2s) : Above(i, j) = j /\ j # i
    BY <1>0, <1>1 DEF Above
  <2>2. c2s' \in Seq(Requests)
    BY DEF WireType
  <2>. QED
    BY <1>0, <1>1, <2>1, <2>2 DEF Shrinks
<1>3. /\ s2c' \in Seq(Messages) /\ Len(s2c') = Len(s2c) + 1
      /\ \A j \in 1 .. Len(s2c) : s2c'[j] = s2c[j]
      /\ s2c'[Len(s2c) + 1] = Event(name, t)
  BY <1>0, MessagesMade, SaysOne
<1>4. Event(name, t).type = name /\ Event(name, t).ticket = t /\ name # "response"
  BY DEF Event
<1>5. Spoken(0, 0)
  BY <1>0, <1>3, <1>4 DEF Spoken
<1>6. WireType'
  BY <1>3 DEF WireType
<1>7. Allotted'
  BY DEF Wire, Allotted
<1>8. Speech(i, 0, 0)
  BY <1>2, <1>5 DEF Speech
<1>9. Numbered' /\ Matching' /\ Known'
  <2>1. \A k \in live' : tasks'[k] # None
    BY DEF Wire, Known
  <2>2. \A k \in Tickets : /\ tasks[k] # None => tasks'[k] = tasks[k]
                           /\ tasks'[k] # None => tasks'[k].word \in Starts
    BY DEF Wire, Known
  <2>3. \A j \in Len(s2c) + 1 .. Len(s2c') : s2c'[j] # Response(0, 0)
    BY <1>0, <1>3, <1>4 DEF Response
  <2>. QED
    BY <1>2, <1>5, <1>6, <2>1, <2>2, <2>3, SpokenWire
<1>. QED
  BY <1>2, <1>6, <1>7, <1>8, <1>9 DEF Wire

LEMMA ServerSpeech ==
    ASSUME WireType, Wire, ServerStep
    PROVE  /\ WireType' /\ Wire'
           /\ \E i \in 1 .. Len(c2s) + 1 : \E id, x : Speech(i, id, x)
           /\ UNCHANGED <<socket, calls, late, heard, page>>
<1>1. UNCHANGED <<socket, calls, late, heard, page>>
  BY DEF ServerStep, Serve, Output, TaskEnds, calls, server
<1>2. ASSUME NEW i \in DOMAIN c2s, Serve(i)
      PROVE  WireType' /\ Wire' /\ \E j \in 1 .. Len(c2s) + 1 : \E id, x : Speech(j, id, x)
  <2>1. i \in 1 .. Len(c2s) + 1
    BY InTheQueues DEF WireType
  <2>. QED
    BY <1>2, <2>1, ServeSpeech
<1>3. ASSUME NEW t \in Tickets, Output(t)
      PROVE  WireType' /\ Wire' /\ \E j \in 1 .. Len(c2s) + 1 : \E id, x : Speech(j, id, x)
  BY <1>3, TaskSpeech DEF Output, calls, server
<1>4. ASSUME NEW t \in Tickets, NEW outcome \in {"success", "failure"}, TaskEnds(t, outcome)
      PROVE  WireType' /\ Wire' /\ \E j \in 1 .. Len(c2s) + 1 : \E id, x : Speech(j, id, x)
  BY <1>4, TaskSpeech DEF TaskEnds, calls
<1>. QED
  BY <1>1, <1>2, <1>3, <1>4 DEF ServerStep

-----------------------------------------------------------------------------
(* Who hears what *)

\* The answer that gave out t is among the first n messages.
AnsweredBefore(t, n) == \E j \in 1 .. n : s2c[j].type = "response" /\ s2c[j].ticket = t

AnsweredThen(t, n) == \E j \in 1 .. n : s2c'[j].type = "response" /\ s2c'[j].ticket = t

Hearing ==
    /\ \A i \in 1 .. Len(s2c) : s2c[i].type # "response" =>
          s2c[i].ticket \in heard \/ AnsweredBefore(s2c[i].ticket, i - 1)
    /\ \A t \in live : t \in heard \/ AnsweredBefore(t, Len(s2c))

LEMMA HearingSpoken ==
    ASSUME WireType, Hearing, NEW id, NEW x, Spoken(id, x), UNCHANGED heard,
           \A t \in live' : t \in live \/ (t = x /\ s2c'[Len(s2c')] = Response(id, x) /\ Len(s2c) < Len(s2c'))
    PROVE  Hearing'
<1>0. Len(s2c) \in Nat /\ Len(s2c') \in Nat /\ Len(s2c) <= Len(s2c')
  BY InTheQueues DEF Spoken
<1>1. \A t, n : AnsweredBefore(t, Len(s2c)) /\ n \in Len(s2c) .. Len(s2c') => AnsweredThen(t, n)
  <2>1. SUFFICES ASSUME NEW t, NEW n \in Len(s2c) .. Len(s2c'), NEW j \in 1 .. Len(s2c),
                        s2c[j].type = "response", s2c[j].ticket = t
                 PROVE  j \in 1 .. n /\ s2c'[j] = s2c[j]
    BY DEF AnsweredBefore, AnsweredThen
  <2>. QED
    BY <1>0 DEF Spoken
<1>2. \A t, n : n \in 0 .. Len(s2c) /\ AnsweredBefore(t, n) => AnsweredThen(t, n)
  <2>1. SUFFICES ASSUME NEW n \in 0 .. Len(s2c), NEW j \in 1 .. n PROVE s2c'[j] = s2c[j]
    BY DEF AnsweredBefore, AnsweredThen
  <2>. QED
    BY <1>0 DEF Spoken
<1>3. ASSUME NEW i \in 1 .. Len(s2c'), s2c'[i].type # "response"
      PROVE  s2c'[i].ticket \in heard' \/ AnsweredThen(s2c'[i].ticket, i - 1)
  <2>1. CASE i \in 1 .. Len(s2c)
    <3>1. s2c'[i] = s2c[i] /\ i - 1 \in 0 .. Len(s2c)
      BY <1>0, <2>1 DEF Spoken
    <3>2. s2c[i].ticket \in heard \/ AnsweredBefore(s2c[i].ticket, i - 1)
      BY <1>3, <2>1, <3>1 DEF Hearing
    <3>3. PICK n : n = i - 1
      OBVIOUS
    <3>4. AnsweredBefore(s2c[i].ticket, n) => AnsweredThen(s2c[i].ticket, n)
      BY <1>2, <3>1, <3>3
    <3>5. AnsweredThen(s2c[i].ticket, n) => AnsweredThen(s2c'[i].ticket, i - 1)
      BY <3>1, <3>3 DEF AnsweredBefore, AnsweredThen
    <3>. QED
      BY <3>1, <3>2, <3>3, <3>4, <3>5
  <2>2. CASE i \in Len(s2c) + 1 .. Len(s2c')
    <3>1. s2c'[i].ticket \in live /\ i - 1 = Len(s2c)
      BY <1>0, <1>3, <2>2 DEF Spoken, Response
    <3>2. PICK t : t = s2c'[i].ticket
      OBVIOUS
    <3>3. t \in heard \/ AnsweredBefore(t, Len(s2c))
      BY <3>1, <3>2 DEF Hearing
    <3>4. AnsweredBefore(t, Len(s2c)) => \E j \in 1 .. Len(s2c) : s2c'[j].type = "response" /\ s2c'[j].ticket = t
      BY DEF AnsweredBefore, AnsweredThen, Spoken
    <3>. QED
      BY <3>1, <3>2, <3>3, <3>4 DEF AnsweredBefore, AnsweredThen
  <2>. QED
    BY <1>0, <2>1, <2>2
<1>4. ASSUME NEW t \in live' PROVE t \in heard' \/ AnsweredThen(t, Len(s2c'))
  <2>1. CASE t \in live
    <3>1. t \in heard \/ AnsweredBefore(t, Len(s2c))
      BY <2>1 DEF Hearing
    <3>2. \A j \in 1 .. Len(s2c) : j \in 1 .. Len(s2c') /\ s2c'[j] = s2c[j]
      BY <1>0 DEF Spoken
    <3>. QED
      BY <3>1, <3>2 DEF AnsweredBefore, AnsweredThen
  <2>2. CASE t = x /\ s2c'[Len(s2c')] = Response(id, x) /\ Len(s2c) < Len(s2c')
    <3>1. /\ s2c'[Len(s2c')].type = "response" /\ s2c'[Len(s2c')].ticket = t
          /\ Len(s2c') \in 1 .. Len(s2c')
      BY <1>0, <2>2 DEF Response
    <3>. QED
      BY <3>1 DEF AnsweredBefore, AnsweredThen
  <2>. QED
    BY <2>1, <2>2
<1>. QED
  BY <1>3, <1>4 DEF Hearing, AnsweredBefore, AnsweredThen

LEMMA HearingTaken ==
    ASSUME WireType, Hearing, UNCHANGED live, Len(s2c) \in Nat \ {0}, Len(s2c') = Len(s2c) - 1,
           \A j \in 1 .. Len(s2c') : s2c'[j] = s2c[j + 1],
           heard \subseteq heard',
           s2c[1].type = "response" /\ s2c[1].ticket # 0 => s2c[1].ticket \in heard',
           \A j \in 1 .. Len(s2c) : s2c[j].type # "response" => s2c[j].ticket # 0
    PROVE  Hearing'
<1>0. 0 \notin Tickets /\ live \subseteq Tickets
  BY DEF Tickets, WireType
<1>1. ASSUME NEW t, t # 0, NEW n \in 1 .. Len(s2c), AnsweredBefore(t, n)
      PROVE  t \in heard' \/ \E j \in 1 .. n - 1 : s2c'[j].type = "response" /\ s2c'[j].ticket = t
  <2>1. PICK j \in 1 .. n : s2c[j].type = "response" /\ s2c[j].ticket = t
    BY <1>1 DEF AnsweredBefore, AnsweredThen
  <2>2. CASE j = 1
    BY <1>1, <2>1, <2>2
  <2>3. CASE j # 1
    <3>1. PICK k : k = j - 1
      OBVIOUS
    <3>2. k \in 1 .. n - 1 /\ k \in 1 .. Len(s2c') /\ s2c'[k] = s2c[j]
      BY <2>1, <2>3, <3>1
    <3>. QED
      BY <2>1, <3>2
  <2>. QED
    BY <2>2, <2>3
<1>2. ASSUME NEW i \in 1 .. Len(s2c'), s2c'[i].type # "response"
      PROVE  s2c'[i].ticket \in heard' \/ AnsweredThen(s2c'[i].ticket, i - 1)
  <2>1. s2c'[i] = s2c[i + 1] /\ i + 1 \in 1 .. Len(s2c) /\ (i + 1) - 1 = i /\ i \in 1 .. Len(s2c)
    OBVIOUS
  <2>2. PICK t : t = s2c'[i].ticket
    OBVIOUS
  <2>3. t # 0 /\ (t \in heard \/ AnsweredBefore(t, i))
    BY <1>2, <2>1, <2>2 DEF Hearing
  <2>4. t \in heard' \/ \E j \in 1 .. i - 1 : s2c'[j].type = "response" /\ s2c'[j].ticket = t
    BY <1>1, <2>1, <2>3
  <2>. QED
    BY <2>2, <2>4 DEF AnsweredBefore, AnsweredThen
<1>3. ASSUME NEW t \in live' PROVE t \in heard' \/ AnsweredThen(t, Len(s2c'))
  <2>1. t # 0 /\ Len(s2c) \in 1 .. Len(s2c) /\ (t \in heard \/ AnsweredBefore(t, Len(s2c)))
    BY <1>0, <1>3 DEF Hearing
  <2>2. t \in heard' \/ \E j \in 1 .. Len(s2c) - 1 : s2c'[j].type = "response" /\ s2c'[j].ticket = t
    BY <1>1, <2>1
  <2>. QED
    BY <2>2 DEF AnsweredBefore, AnsweredThen
<1>. QED
  BY <1>2, <1>3 DEF Hearing, AnsweredBefore, AnsweredThen

LEMMA HearingDropped ==
    ASSUME WireType, Hearing, live' = {}, UNCHANGED heard, NEW n \in 0 .. Len(s2c), Len(s2c') = n,
           \A j \in 1 .. n : s2c'[j] = s2c[j] /\ j \in 1 .. Len(s2c)
    PROVE  Hearing'
<1>1. ASSUME NEW i \in 1 .. n, s2c[i].type # "response"
      PROVE  s2c[i].ticket \in heard
             \/ \E j \in 1 .. i - 1 : s2c'[j].type = "response" /\ s2c'[j].ticket = s2c[i].ticket
  <2>1. i \in 1 .. Len(s2c) /\ \A j \in 1 .. i - 1 : s2c'[j] = s2c[j]
    BY InTheQueues
  <2>2. s2c[i].ticket \in heard \/ AnsweredBefore(s2c[i].ticket, i - 1)
    BY <1>1, <2>1 DEF Hearing
  <2>. QED
    BY <2>1, <2>2 DEF AnsweredBefore, AnsweredThen
<1>. QED
  BY <1>1 DEF Hearing, AnsweredBefore, AnsweredThen

-----------------------------------------------------------------------------
(* How often the table is filled *)

Final(m) == m.type \in {"success", "failure"}

\* The tasks whose success has been handled, or will never come.
Finished ==
    { t \in Tickets : /\ tasks[t] # None /\ t \notin live
                      /\ \A i \in 1 .. Len(s2c) : s2c[i].type = "success" => s2c[i].ticket # t }

Loads ==
    /\ loaded \in Nat /\ loaded <= Cardinality(Finished)
    /\ \A i \in 1 .. Len(s2c) : Final(s2c[i]) => s2c[i].ticket \notin live
    /\ \A i, j \in 1 .. Len(s2c) :
          i # j /\ Final(s2c[i]) /\ Final(s2c[j]) => s2c[i].ticket # s2c[j].ticket

LEMMA SomeTickets ==
    ASSUME NEW T \in SUBSET Tickets
    PROVE  IsFiniteSet(T) /\ Cardinality(T) \in Nat /\ Cardinality(T) <= MaxRequests
<1>1. MaxRequests \in Nat \ {0}
  BY WebAssumption
<1>2. IsFiniteSet(Tickets) /\ Cardinality(Tickets) = MaxRequests
  <2>1. /\ IsFiniteSet(1 .. MaxRequests)
        /\ Cardinality(1 .. MaxRequests) = IF 1 > MaxRequests THEN 0 ELSE MaxRequests - 1 + 1
    BY <1>1, FS_Interval
  <2>. QED
    BY <1>1, <2>1 DEF Tickets
<1>3. IsFiniteSet(T) /\ Cardinality(T) <= Cardinality(Tickets)
  BY <1>2, FS_Subset
<1>4. Cardinality(T) \in Nat
  BY <1>3, FS_CardinalityType
<1>. QED
  BY <1>2, <1>3, <1>4

\* If none is finished no more, the table was not filled too often; and it may be
\* filled once more if one is newly finished.
LEMMA MoreFinished ==
    ASSUME Loads, Finished \subseteq Finished',
           \/ UNCHANGED loaded
           \/ loaded' = loaded + 1 /\ Finished # Finished'
    PROVE  loaded' \in Nat /\ loaded' <= Cardinality(Finished')
<1>1. Finished \in SUBSET Tickets /\ Finished' \in SUBSET Tickets
  BY DEF Finished
<1>2. /\ Cardinality(Finished) \in Nat /\ Cardinality(Finished') \in Nat
      /\ Cardinality(Finished) <= Cardinality(Finished')
      /\ Cardinality(Finished) = Cardinality(Finished') => Finished = Finished'
  <2>1. IsFiniteSet(Finished') /\ Finished \in SUBSET Finished'
    BY <1>1, SomeTickets
  <2>. QED
    BY <1>1, <2>1, SomeTickets, FS_Subset
<1>3. loaded \in Nat /\ loaded <= Cardinality(Finished)
  BY DEF Loads
<1>. QED
  BY <1>2, <1>3

LEMMA LoadsSpoken ==
    ASSUME WireType, Wire, Loads, NEW id, NEW x, Spoken(id, x), UNCHANGED loaded,
           \A t \in live' : t \in live \/ tasks[t] = None,
           \A n \in Tickets : tasks[n] # None => tasks'[n] = tasks[n]
    PROVE  Loads'
<1>0. Len(s2c) \in Nat /\ Len(s2c') \in Nat /\ Len(s2c) <= Len(s2c') /\ 0 \notin Tickets
  BY InTheQueues DEF Spoken, Tickets
<1>1. \A t \in live : tasks[t] # None /\ t \in Tickets
  BY DEF Wire, Known, WireType
<1>2. ASSUME NEW i \in 1 .. Len(s2c')
      PROVE  \/ i \in 1 .. Len(s2c) /\ s2c'[i] = s2c[i]
             \/ /\ i = Len(s2c) + 1 /\ s2c'[i].ticket \in live
                /\ Final(s2c'[i]) => s2c'[i].ticket \notin live'
             \/ s2c'[i].type = "response"
  <2>1. i \in 1 .. Len(s2c) \/ i \in Len(s2c) + 1 .. Len(s2c')
    BY <1>0
  <2>. QED
    BY <2>1 DEF Spoken, Response, Final
<1>3. Finished \subseteq Finished'
  <2>1. SUFFICES ASSUME NEW t \in Finished, NEW i \in 1 .. Len(s2c'), s2c'[i].type = "success"
                 PROVE  s2c'[i].ticket # t
    BY DEF Finished
  <2>2. CASE i \in 1 .. Len(s2c) /\ s2c'[i] = s2c[i]
    BY <2>1, <2>2 DEF Finished
  <2>3. CASE s2c'[i].ticket \in live
    BY <2>3 DEF Finished
  <2>. QED
    BY <1>2, <2>1, <2>2, <2>3
<1>4. \A i \in 1 .. Len(s2c) : Final(s2c[i]) => s2c[i].ticket \notin live /\ s2c[i].ticket \notin live'
  <2>1. SUFFICES ASSUME NEW i \in 1 .. Len(s2c), Final(s2c[i])
                 PROVE  s2c[i].ticket \notin live /\ s2c[i].ticket \notin live'
    OBVIOUS
  <2>2. s2c[i].ticket \notin live /\ tasks[s2c[i].ticket] # None
    BY <2>1 DEF Loads, Wire, Known, Final
  <2>. QED
    BY <2>2
<1>5. \A i \in 1 .. Len(s2c') : Final(s2c'[i]) => s2c'[i].ticket \notin live'
  BY <1>2, <1>4 DEF Final
<1>6. ASSUME NEW i \in 1 .. Len(s2c'), NEW j \in 1 .. Len(s2c'), i # j,
             Final(s2c'[i]), Final(s2c'[j])
      PROVE  s2c'[i].ticket # s2c'[j].ticket
  <2>1. s2c'[i].type # "response" /\ s2c'[j].type # "response"
    BY <1>6 DEF Final
  <2>2. CASE /\ i \in 1 .. Len(s2c) /\ s2c'[i] = s2c[i]
             /\ j \in 1 .. Len(s2c) /\ s2c'[j] = s2c[j]
    BY <1>6, <2>2 DEF Loads
  <2>. QED
    BY <1>2, <1>4, <1>6, <2>1, <2>2
<1>. QED
  BY <1>3, <1>5, <1>6, MoreFinished DEF Loads

LEMMA LoadsTaken ==
    ASSUME WireType, Wire, Loads, UNCHANGED <<tasks, live>>, Len(s2c) \in Nat \ {0},
           Len(s2c') = Len(s2c) - 1,
           \A j \in 1 .. Len(s2c') : s2c'[j] = s2c[j + 1],
           UNCHANGED loaded \/ (loaded' = loaded + 1 /\ s2c[1].type = "success")
    PROVE  Loads'
<1>1. \A i \in 1 .. Len(s2c') : s2c'[i] = s2c[i + 1] /\ i + 1 \in 1 .. Len(s2c)
  OBVIOUS
<1>2. Finished \subseteq Finished'
  BY <1>1 DEF Finished
<1>3. ASSUME s2c[1].type = "success" PROVE Finished # Finished'
  <2>1. PICK t : t = s2c[1].ticket
    OBVIOUS
  <2>2. 1 \in 1 .. Len(s2c) /\ s2c[1].ticket \in Tickets \cup {0}
    BY InTheQueues
  <2>3. t \in Tickets /\ tasks[t] # None /\ t \notin live
    BY <1>3, <2>1, <2>2 DEF Wire, Known, Loads, Final
  <2>4. \A i \in 1 .. Len(s2c') : s2c'[i].type = "success" => s2c'[i].ticket # t
    <3>1. \A i \in 1 .. Len(s2c) : i # 1 /\ s2c[i].type = "success" => s2c[i].ticket # t
      BY <1>3, <2>1, <2>2 DEF Loads, Final
    <3>. QED
      BY <1>1, <3>1
  <2>5. t \in Finished' /\ t \notin Finished
    BY <1>3, <2>1, <2>2, <2>3, <2>4 DEF Finished
  <2>. QED
    BY <2>5
<1>4. ASSUME NEW i \in 1 .. Len(s2c'), Final(s2c'[i]) PROVE s2c'[i].ticket \notin live'
  <2>1. i + 1 \in 1 .. Len(s2c) /\ Final(s2c[i + 1])
    BY <1>1, <1>4 DEF Final
  <2>. QED
    BY <1>1, <2>1 DEF Loads
<1>5. ASSUME NEW i \in 1 .. Len(s2c'), NEW j \in 1 .. Len(s2c'), i # j, Final(s2c'[i]), Final(s2c'[j])
      PROVE  s2c'[i].ticket # s2c'[j].ticket
  <2>1. /\ i + 1 \in 1 .. Len(s2c) /\ Final(s2c[i + 1])
        /\ j + 1 \in 1 .. Len(s2c) /\ Final(s2c[j + 1])
    BY <1>1, <1>5 DEF Final
  <2>2. i + 1 # j + 1
    BY <1>5
  <2>3. s2c[i + 1].ticket # s2c[j + 1].ticket
    BY <2>1, <2>2 DEF Loads
  <2>. QED
    BY <1>1, <2>3
<1>. QED
  BY <1>2, <1>3, <1>4, <1>5, MoreFinished DEF Loads, Final

LEMMA LoadsDropped ==
    ASSUME WireType, Loads, live' = {}, UNCHANGED <<loaded, tasks>>,
           NEW n \in 0 .. Len(s2c), Len(s2c') = n,
           \A j \in 1 .. n : s2c'[j] = s2c[j] /\ j \in 1 .. Len(s2c)
    PROVE  Loads'
<1>1. Finished \subseteq Finished'
  BY DEF Finished
<1>. QED
  BY <1>1, MoreFinished DEF Loads

-----------------------------------------------------------------------------
(* The terminals and what is left running *)

PageType ==
    /\ heard \subseteq Tickets
    /\ selected \in Services \cup {None} /\ tab \in Tabs \cup {None}
    /\ service_tasks \in Seq(Tickets)
    /\ terminal \in [Panes -> [Services -> {"none", "open", "destroyed"}]]
    /\ typing \in [Services -> Seq(Tickets)]

\* The terminal a call is for exists.
Shown(c) == c.word \in Panes => c.service \in Services /\ terminal[c.word][c.service] # "none"

AllShown ==
    /\ \A c \in Members(waiting) \cup Asked \cup Left : Shown(c)
    /\ \A n \in Tickets : tasks[n] # None => Shown(tasks[n])

\* A task for a terminal that still runs will be killed, or its number is under way,
\* or the kill is; and no task reports to a connection that is gone.
Found(t) ==
    \/ t \in Members(service_tasks)
    \/ \E i \in 1 .. Len(s2c) : s2c[i].type = "response" /\ s2c[i].ticket = t
    \/ Call("kill", None, t) \in Asked

Stray ==
    /\ ws # "open" => live = {} /\ c2s = <<>>
    /\ \A t \in live : tasks[t].word \in Panes => Found(t)

\* A terminal that is there stays.
Kept ==
    \A w \in Panes, s \in Services : terminal[w][s] # "none" => terminal'[w][s] # "none"

ShownThen(c) == c.word \in Panes => c.service \in Services /\ terminal'[c.word][c.service] # "none"

WebInv ==
    /\ SocketInv /\ WireType /\ Wire /\ Patient /\ PageType
    /\ Hearing /\ Loads /\ AllShown /\ Stray

LEMMA MembersAppended ==
    ASSUME NEW S, NEW q \in Seq(S), NEW x \in S
    PROVE  Append(q, x) \in Seq(S) /\ Members(q) \subseteq Members(Append(q, x)) /\ x \in Members(Append(q, x))
<1>1. /\ DOMAIN q = 1 .. Len(q) /\ DOMAIN Append(q, x) = 1 .. Len(q) + 1 /\ Len(q) \in Nat
      /\ Append(q, x) \in Seq(S)
  OBVIOUS
<1>2. \A i \in 1 .. Len(q) : Append(q, x)[i] = q[i] /\ i \in 1 .. Len(q) + 1
  OBVIOUS
<1>3. Append(q, x)[Len(q) + 1] = x /\ Len(q) + 1 \in 1 .. Len(q) + 1
  OBVIOUS
<1>. QED
  BY <1>1, <1>2, <1>3 DEF Members

\* The steps of the server.
LEMMA ServerKeeps ==
    ASSUME WebInv, SocketInv', ServerStep
    PROVE  WebInv'
<1>0. PICK i \in 1 .. Len(c2s) + 1 : \E id, x : Speech(i, id, x)
  BY ServerSpeech DEF WebInv
<1>1. PICK id, x : Speech(i, id, x)
  BY <1>0
<1>2. WireType' /\ Wire' /\ UNCHANGED <<socket, calls, late, heard, page>>
  BY ServerSpeech DEF WebInv
<1>3. Patient' /\ PageType'
  BY <1>2 DEF WebInv, Patient, PageType, calls, page
<1>4. Hearing'
  BY <1>1, <1>2, HearingSpoken DEF WebInv, Speech
<1>5. Loads'
  BY <1>1, <1>2, LoadsSpoken DEF WebInv, Speech, page
<1>6. /\ Len(c2s) \in Nat /\ Len(c2s') \in Nat /\ i \in Nat
      /\ \A j \in 1 .. Len(c2s') : Above(i, j) \in 1 .. Len(c2s) /\ c2s'[j] = c2s[Above(i, j)]
      /\ Len(c2s') = IF i \in 1 .. Len(c2s) THEN Len(c2s) - 1 ELSE Len(c2s)
  BY <1>1, InTheQueues DEF WebInv, Speech, Shrinks
<1>7. AllShown'
  <2>1. Asked' \subseteq Asked
    BY <1>6 DEF Asked
  <2>2. \A c : Shown(c)' <=> Shown(c)
    BY <1>2 DEF Shown, page
  <2>3. \A c \in Members(waiting') \cup Asked' \cup Left' : Shown(c)
    BY <1>2, <2>1 DEF WebInv, AllShown, Left, calls
  <2>4. ASSUME NEW n \in Tickets, tasks'[n] # None PROVE Shown(tasks'[n])
    <3>1. CASE tasks'[n] = tasks[n]
      BY <2>4, <3>1 DEF WebInv, AllShown
    <3>2. CASE i \in 1 .. Len(c2s) /\ tasks'[n] = c2s[i].call
      BY <3>2 DEF WebInv, AllShown, Asked
    <3>. QED
      BY <1>1, <3>1, <3>2 DEF Speech
  <2>. QED
    BY <1>2, <2>3, <2>4 DEF AllShown, Shown, page
<1>8. Stray'
  <2>1. ASSUME ws # "open" PROVE live' = {} /\ c2s' = <<>>
    <3>1. live = {} /\ c2s = <<>> /\ Len(c2s) = 0
      BY <2>1 DEF WebInv, Stray
    <3>2. Len(c2s') = 0 /\ c2s' \in Seq(Requests)
      BY <1>1, <1>6, <3>1 DEF Speech, Shrinks
    <3>3. live' = {}
      BY <1>1, <3>1 DEF Speech
    <3>. QED
      BY <3>2, <3>3, EmptySeq
  <2>2. ASSUME NEW t \in live', tasks'[t].word \in Panes
        PROVE  \/ t \in Members(service_tasks)
               \/ \E k \in 1 .. Len(s2c') : s2c'[k].type = "response" /\ s2c'[k].ticket = t
               \/ Call("kill", None, t) \in Asked'
    <3>0. /\ \A k \in 1 .. Len(s2c) : k \in 1 .. Len(s2c') /\ s2c'[k] = s2c[k]
          /\ Len(s2c) \in Nat /\ Len(s2c') \in Nat
      BY <1>1, InTheQueues DEF WebInv, Speech, Spoken
    <3>1. CASE t \in live /\ (i \in 1 .. Len(c2s) => c2s[i].call # Call("kill", None, t))
      <4>1. t \in Tickets /\ tasks[t] # None
        BY <3>1 DEF WebInv, Wire, Known, WireType
      <4>2. tasks'[t] = tasks[t]
        BY <1>1, <4>1 DEF Speech
      <4>3. Found(t)
        BY <2>2, <3>1, <4>2 DEF WebInv, Stray
      <4>4. ASSUME Call("kill", None, t) \in Asked PROVE Call("kill", None, t) \in Asked'
        <5>1. PICK k \in 1 .. Len(c2s) : c2s[k].call = Call("kill", None, t)
          BY <4>4 DEF Asked
        <5>2. k # i
          BY <3>1, <5>1
        <5>3. PICK j : j = IF k < i THEN k ELSE k - 1
          OBVIOUS
        <5>4. j \in 1 .. Len(c2s') /\ Above(i, j) = k
          BY <1>6, <5>2, <5>3 DEF Above
        <5>. QED
          BY <1>6, <5>1, <5>4 DEF Asked
      <4>. QED
        BY <3>0, <4>3, <4>4 DEF Found
    <3>2. CASE t = x /\ s2c'[Len(s2c')] = Response(id, x) /\ Len(s2c) < Len(s2c')
      <4>1. Len(s2c') \in 1 .. Len(s2c')
        BY <3>0, <3>2
      <4>. QED
        BY <3>2, <4>1 DEF Response
    <3>. QED
      BY <1>1, <3>1, <3>2 DEF Speech
  <2>. QED
    BY <1>2, <2>1, <2>2 DEF Stray, Found, socket, page
<1>. QED
  BY <1>2, <1>3, <1>4, <1>5, <1>7, <1>8 DEF WebInv

\* What the server still does for connections that are gone.
LEMMA LeftBehindKeeps ==
    ASSUME WebInv, SocketInv', LeftBehind
    PROVE  WebInv'
<1>0. UNCHANGED <<socket, calls, c2s, s2c, live, heard, page>>
  BY DEF LeftBehind, ServeLate, OrphanEnds
<1>1. /\ Len(c2s) \in Nat /\ Len(c2s') = Len(c2s) /\ Len(late) \in Nat
      /\ UNCHANGED <<request_id, requests, waiting>>
  BY <1>0, InTheQueues DEF WebInv, calls
<1>2. /\ WireType' /\ Allotted' /\ Left' \subseteq Left
      /\ \A n \in Tickets : \/ tasks'[n] = tasks[n]
                            \/ tasks[n] = None /\ tasks'[n] \in Left /\ tasks'[n].word \in Starts
  <2>1. CASE ServeLate
    <3>. DEFINE c == Head(late).call
    <3>1. late \in Seq(Requests) /\ late # <<>> /\ late' = Tail(late)
      BY <2>1 DEF ServeLate, WebInv, WireType
    <3>2. /\ Tail(late) \in Seq(Requests) /\ Len(Tail(late)) = Len(late) - 1
          /\ \A j \in 1 .. Len(Tail(late)) : Tail(late)[j] = late[j + 1]
      BY <3>1, HeadTailProperties
    <3>3. Len(late) \in Nat \ {0} /\ Head(late) = late[1]
      BY <3>1, EmptySeq
    <3>4. late' \in Seq(Requests) /\ Len(late') = Len(late) - 1
      BY <3>1, <3>2
    <3>5. Left' \subseteq Left
      <4>1. \A j \in 1 .. Len(late') : late'[j] = late[j + 1] /\ j + 1 \in 1 .. Len(late)
        BY <3>1, <3>2, <3>3, <3>4
      <4>. QED
        BY <4>1 DEF Left
    <3>6. c \in Left /\ c \in Calls
      <4>1. 1 \in 1 .. Len(late) /\ late[1] \in Requests
        BY <3>1, <3>3
      <4>. QED
        BY <3>3, <4>1 DEF Left, Requests
    <3>7. CASE c.word \notin Starts
      <4>1. UNCHANGED tasks /\ orphans' \subseteq orphans
        BY <2>1, <3>7 DEF ServeLate
      <4>2. WireType'
        BY <1>0, <1>1, <3>4, <4>1 DEF WebInv, WireType
      <4>3. Allotted'
        <5>1. Len(late') \in Nat /\ Len(c2s') + Len(late') <= Len(c2s) + Len(late)
          BY <1>1, <3>3, <3>4
        <5>. QED
          BY <1>1, <4>1, <5>1, SameTickets DEF WebInv
      <4>. QED
        BY <3>5, <4>1, <4>2, <4>3
    <3>8. CASE c.word \in Starts
      <4>1. tasks' = [tasks EXCEPT ![NewTicket] = c] /\ orphans' = orphans \cup {NewTicket}
        BY <2>1, <3>8 DEF ServeLate, Starts, Tabs, Panes
      <4>2. PICK n : n = NewTicket
        OBVIOUS
      <4>3. n \in Tickets /\ tasks[n] = None /\ Allotted'
        <5>1. tasks' = [tasks EXCEPT ![n] = c]
          BY <4>1, <4>2
        <5>2. Len(late') \in Nat /\ Len(c2s') + Len(late') = Len(c2s) + Len(late) - 1
          BY <1>1, <3>3, <3>4
        <5>. QED
          BY <1>1, <3>6, <4>2, <5>1, <5>2, NextTicket DEF WebInv
      <4>4. tasks'[n] = c /\ \A k \in Tickets : k # n => tasks'[k] = tasks[k]
        BY <4>1, <4>2, <4>3 DEF WebInv, WireType
      <4>5. WireType'
        BY <1>0, <1>1, <3>4, <3>6, <4>1, <4>2, <4>3 DEF WebInv, WireType
      <4>. QED
        BY <3>5, <3>6, <3>8, <4>3, <4>4, <4>5
    <3>. QED
      BY <3>7, <3>8
  <2>2. CASE \E t \in Tickets : OrphanEnds(t)
    <3>1. UNCHANGED <<tasks, late>> /\ orphans' \subseteq orphans
      BY <2>2 DEF OrphanEnds
    <3>2. WireType' /\ Left' = Left
      BY <1>0, <1>1, <3>1 DEF WebInv, WireType, Left
    <3>3. Allotted'
      BY <1>0, <1>1, <3>1 DEF WebInv, Wire, Allotted
    <3>. QED
      BY <3>1, <3>2, <3>3
  <2>. QED
    BY <2>1, <2>2 DEF LeftBehind
<1>3. /\ \A t \in live : t \in Tickets /\ tasks'[t] = tasks[t]
      /\ \A n \in Tickets : tasks[n] # None => tasks'[n] = tasks[n]
  BY <1>2 DEF WebInv, Wire, Known, WireType
<1>4. \A n \in Tickets : tasks'[n] # None => tasks'[n] = tasks[n] \/ tasks'[n] \in Left
  BY <1>2
<1>5. Numbered' /\ Matching' /\ Known'
  <2>1. Numbered'
    BY <1>0, <1>1 DEF WebInv, Wire, Numbered
  <2>2. \A i \in 1 .. Len(s2c) : s2c[i].ticket # 0 =>
           s2c[i].ticket \in Tickets /\ tasks[s2c[i].ticket] # None /\ tasks'[s2c[i].ticket] = tasks[s2c[i].ticket]
    BY <1>3, InTheQueues DEF WebInv, Wire, Known
  <2>3. Matching'
    BY <1>0, <1>1, <2>2 DEF WebInv, Wire, Matching
  <2>4. Known'
    BY <1>0, <1>2, <1>3, <2>2 DEF WebInv, Wire, Known
  <2>. QED
    BY <2>1, <2>3, <2>4
<1>6. Patient' /\ PageType' /\ Hearing'
  BY <1>0, <1>1 DEF WebInv, Patient, PageType, Hearing, AnsweredBefore, page
<1>7. Loads'
  <2>1. Finished \subseteq Finished'
    BY <1>0, <1>3 DEF Finished
  <2>. QED
    BY <1>0, <2>1, MoreFinished DEF WebInv, Loads, page
<1>8. AllShown'
  <2>1. \A c : Shown(c)' <=> Shown(c)
    BY <1>0 DEF Shown, page
  <2>2. Asked' = Asked
    BY <1>0 DEF Asked
  <2>3. \A n \in Tickets : tasks'[n] # None => Shown(tasks'[n])
    BY <1>2 DEF WebInv, AllShown
  <2>4. \A c \in Members(waiting') \cup Asked' \cup Left' : Shown(c)
    BY <1>1, <1>2, <2>2 DEF WebInv, AllShown
  <2>. QED
    BY <1>0, <2>3, <2>4 DEF AllShown, Shown, page
<1>9. Stray'
  BY <1>0, <1>3 DEF WebInv, Stray, Found, Asked, socket, page
<1>. QED
  BY <1>2, <1>5, <1>6, <1>7, <1>8, <1>9 DEF WebInv, Wire

\* The answers and the events the page handles.
LEMMA ReceiveKeeps ==
    ASSUME WebInv, SocketInv', ReceiveResponse \/ ReceiveEvent
    PROVE  WebInv'
<1>. DEFINE m == Head(s2c)
            c == requests[m.id]
<1>0. /\ s2c # <<>> /\ s2c' = Tail(s2c)
      /\ UNCHANGED <<socket, waiting, request_id, c2s, tasks, live, late, orphans, selected, tab, terminal>>
      /\ IF m.type = "response" THEN requests' = [requests EXCEPT ![m.id] = None]
                                ELSE requests' = requests
  BY DEF ReceiveResponse, ReceiveEvent, Take, calls, server
<1>1. /\ WireType' /\ Wire'
      /\ Len(s2c') = Len(s2c) - 1 /\ m = s2c[1]
      /\ \A j \in 1 .. Len(s2c') : s2c'[j] = s2c[j + 1] /\ j + 1 \in 2 .. Len(s2c)
  BY <1>0, TakenWire DEF WebInv
<1>2. /\ Len(s2c) \in Nat \ {0} /\ 1 \in 1 .. Len(s2c) /\ m.ticket \in Tickets \cup {0} /\ 0 \notin Tickets
      /\ m.id \in Ids
  <2>1. Len(s2c) \in Nat /\ Len(s2c) # 0
    BY <1>0, InTheQueues, EmptySeq DEF WebInv, WireType
  <2>2. 1 \in 1 .. Len(s2c)
    BY <2>1
  <2>. QED
    BY <1>1, <2>1, <2>2, InTheQueues DEF WebInv, Tickets
<1>3. m.type = "response" =>
        /\ c # None
        /\ m.ticket = 0 => c.word \notin Starts
        /\ m.ticket # 0 => c = tasks[m.ticket] /\ c.word \in Starts /\ m.ticket \in Tickets
  BY <1>1, <1>2 DEF WebInv, Wire, Matching, Known
<1>4. /\ heard' \subseteq heard \cup {m.ticket}
      /\ heard \subseteq heard'
      /\ m.type = "response" /\ m.ticket # 0 => m.ticket \in heard'
      /\ m.ticket = 0 => heard' = heard
  BY <1>3 DEF ReceiveResponse, ReceiveEvent
<1>5. Patient'
  BY <1>0 DEF WebInv, Patient
<1>6. PageType' /\ Members(service_tasks) \subseteq Members(service_tasks')
      /\ (m.type = "response" /\ m.ticket # 0 /\ c.word \in Panes => m.ticket \in Members(service_tasks'))
  <2>1. CASE ReceiveEvent
    BY <2>1 DEF ReceiveEvent, WebInv, PageType
  <2>2. CASE ReceiveResponse /\ m.ticket = 0
    <3>1. UNCHANGED <<heard, service_tasks, typing>>
      BY <1>3, <2>2 DEF ReceiveResponse
    <3>. QED
      BY <1>0, <2>2, <3>1 DEF WebInv, PageType
  <2>3. CASE ReceiveResponse /\ m.ticket # 0
    <3>0. m.ticket \in Tickets /\ m.type = "response" /\ c # None /\ c.word \in Starts
      BY <1>3, <2>3 DEF ReceiveResponse
    <3>1. heard' \subseteq Tickets
      BY <1>4, <3>0 DEF WebInv, PageType
    <3>2. /\ service_tasks' = IF c.word \in Panes THEN Append(service_tasks, m.ticket) ELSE service_tasks
          /\ typing' = IF c.word = "run" THEN [typing EXCEPT ![c.service] = Append(@, m.ticket)] ELSE typing
      BY <2>3, <3>0 DEF ReceiveResponse
    <3>3. /\ Append(service_tasks, m.ticket) \in Seq(Tickets)
          /\ Members(service_tasks) \subseteq Members(Append(service_tasks, m.ticket))
          /\ m.ticket \in Members(Append(service_tasks, m.ticket))
          /\ service_tasks \in Seq(Tickets)
      BY <3>0, MembersAppended DEF WebInv, PageType
    <3>4. typing' \in [Services -> Seq(Tickets)]
      <4>1. \A s \in Services : Append(typing[s], m.ticket) \in Seq(Tickets)
        BY <3>0 DEF WebInv, PageType
      <4>. QED
        BY <3>2, <4>1 DEF WebInv, PageType
    <3>5. /\ service_tasks' \in Seq(Tickets) /\ Members(service_tasks) \subseteq Members(service_tasks')
          /\ c.word \in Panes => m.ticket \in Members(service_tasks')
      BY <3>2, <3>3
    <3>. QED
      BY <1>0, <3>1, <3>4, <3>5 DEF WebInv, PageType
  <2>4. m.ticket = 0 \/ m.ticket # 0
    OBVIOUS
  <2>. HIDE DEF m, c
  <2>. QED
    BY <2>1, <2>2, <2>3, <2>4
<1>7. Hearing'
  <2>1. \A j \in 1 .. Len(s2c) : s2c[j].type # "response" => s2c[j].ticket # 0
    BY DEF WebInv, Wire, Known
  <2>. QED
    BY <1>0, <1>1, <1>2, <1>4, <2>1, HearingTaken DEF WebInv
<1>8. Loads'
  <2>1. UNCHANGED loaded \/ (loaded' = loaded + 1 /\ s2c[1].type = "success")
    BY <1>1 DEF ReceiveResponse, ReceiveEvent
  <2>. QED
    BY <1>0, <1>1, <1>2, <2>1, LoadsTaken DEF WebInv
<1>9. AllShown'
  BY <1>0 DEF WebInv, AllShown, Shown, Asked, Left
<1>10. Stray'
  <2>1. ASSUME NEW t \in live, tasks[t].word \in Panes
        PROVE  \/ t \in Members(service_tasks')
               \/ \E k \in 1 .. Len(s2c') : s2c'[k].type = "response" /\ s2c'[k].ticket = t
               \/ Call("kill", None, t) \in Asked
    <3>1. Found(t)
      BY <2>1 DEF WebInv, Stray
    <3>2. ASSUME NEW k \in 1 .. Len(s2c), s2c[k].type = "response", s2c[k].ticket = t
          PROVE  \/ t \in Members(service_tasks')
                 \/ \E j \in 1 .. Len(s2c') : s2c'[j].type = "response" /\ s2c'[j].ticket = t
      <4>1. CASE k = 1
        <5>1. m.type = "response" /\ m.ticket = t /\ t # 0
          BY <1>1, <1>2, <3>2, <4>1 DEF WebInv, WireType
        <5>2. c.word \in Panes
          BY <1>3, <2>1, <5>1
        <5>. QED
          BY <1>6, <5>1, <5>2
      <4>2. CASE k # 1
        <5>1. PICK j : j = k - 1
          OBVIOUS
        <5>2. j \in 1 .. Len(s2c') /\ s2c'[j] = s2c[k]
          BY <1>1, <1>2, <4>2, <5>1
        <5>. QED
          BY <3>2, <5>2
      <4>. QED
        BY <4>1, <4>2
    <3>. QED
      BY <1>6, <3>1, <3>2 DEF Found
  <2>. QED
    BY <1>0, <2>1 DEF WebInv, Stray, Found, Asked, socket
<1>. QED
  BY <1>1, <1>5, <1>6, <1>7, <1>8, <1>9, <1>10 DEF WebInv

\* What happens to the socket.
LEMMA SocketKeeps ==
    ASSUME WebInv, SocketInv', SocketStep
    PROVE  WebInv'
<1>1. CASE Drops
  <2>0. /\ UNCHANGED <<reconnectAttempt, online, calls, tasks, heard, page>>
        /\ c2s' = <<>> /\ live' = {}
    BY <1>1 DEF Drops
  <2>1. PICK n \in 0 .. Len(s2c) : s2c' = SubSeq(s2c, 1, n)
    BY <1>1 DEF Drops
  <2>7. PICK k \in 0 .. Len(c2s) : late' = late \o SubSeq(c2s, 1, k)
    BY <1>1 DEF Drops
  <2>8. orphans' \subseteq Tickets
    BY <1>1 DEF Drops, WebInv, WireType
  <2>2. /\ WireType' /\ Wire' /\ Left' \subseteq Left \cup Asked
        /\ Len(s2c') = n /\ \A j \in 1 .. n : s2c'[j] = s2c[j] /\ j \in 1 .. Len(s2c)
    BY <2>0, <2>1, <2>7, <2>8, DroppedWire DEF WebInv, calls
  <2>3. Patient' /\ PageType'
    BY <2>0 DEF WebInv, Patient, PageType, calls, page
  <2>4. Hearing' /\ Loads'
    BY <2>0, <2>2, HearingDropped, LoadsDropped DEF WebInv, page
  <2>5. AllShown'
    <3>1. Asked' = {}
      BY <2>0 DEF Asked
    <3>. QED
      BY <2>0, <2>2, <3>1 DEF WebInv, AllShown, Shown, calls, page
  <2>6. Stray'
    BY <2>0 DEF Stray
  <2>. QED
    BY <2>2, <2>3, <2>4, <2>5, <2>6 DEF WebInv
<1>2. CASE Opens
  <2>0. /\ UNCHANGED <<s2c, tasks, live, late, orphans, heard, page>> /\ ws = "connecting" /\ ws' = "open"
        /\ Transmit(waiting, TRUE) /\ waiting' = <<>>
    BY <1>2 DEF Opens, server
  <2>1. PICK q : q = waiting
    OBVIOUS
  <2>2. q \in Seq(Calls) /\ request_id + Len(q) <= MaxRequests /\ Transmit(q, TRUE)
    BY <2>0, <2>1 DEF WebInv, Patient
  <2>3. WireType' /\ Wire' /\ Asked' = Asked \cup Members(q)
    BY <2>0, <2>2, TransmitWire, TransmitAsks DEF WebInv
  <2>4. Patient'
    <3>1. request_id' = request_id + Len(q) /\ Len(q) \in Nat /\ request_id \in Nat
      BY <2>2, InTheQueues DEF Transmit, WebInv
    <3>. QED
      BY <2>0, <2>2, <3>1 DEF Patient
  <2>5. PageType' /\ Hearing' /\ Loads'
    BY <2>0 DEF WebInv, PageType, Hearing, AnsweredBefore, Loads, Finished, page
  <2>6. AllShown'
    <3>1. Members(waiting') = {}
      BY <2>0 DEF Members
    <3>. QED
      BY <2>0, <2>1, <2>3, <3>1 DEF WebInv, AllShown, Shown, Left, page
  <2>7. Stray'
    BY <2>0 DEF WebInv, Stray
  <2>. QED
    BY <2>3, <2>4, <2>5, <2>6, <2>7 DEF WebInv
<1>3. CASE GivesUp \/ Closed \/ Reconnects
  <2>1. /\ UNCHANGED <<calls, c2s, s2c, tasks, live, late, orphans, heard, page>>
        /\ ws # "open" /\ ws' # "open"
    BY <1>3 DEF GivesUp, Closed, Reconnects, server
  <2>2. WireType' /\ Wire' /\ Patient' /\ PageType'
    BY <2>1 DEF WebInv, WireType, Wire, Allotted, Numbered, Matching, Known, Patient, PageType, calls, page
  <2>3. Hearing'
    BY <2>1 DEF WebInv, Hearing, AnsweredBefore
  <2>4. Loads'
    BY <2>1 DEF WebInv, Loads, Finished, page
  <2>5. AllShown'
    BY <2>1 DEF WebInv, AllShown, Shown, Asked, Left, calls, page
  <2>6. Stray'
    BY <2>1 DEF WebInv, Stray
  <2>. QED
    BY <2>2, <2>3, <2>4, <2>5, <2>6 DEF WebInv
<1>. QED
  BY <1>1, <1>2, <1>3 DEF SocketStep

\* A click that sends the calls q, changes the terminals, and forgets the tasks to
\* kill only if it kills them.
LEMMA ClickKeeps ==
    ASSUME WebInv, SocketInv', PageType', NEW q \in Seq(Calls), Issue(q),
           UNCHANGED <<socket, s2c, server, heard, loaded>>, Kept,
           \A c \in Members(q) : ShownThen(c),
           \A t \in Members(service_tasks) :
              t \in Members(service_tasks') \/ Call("kill", None, t) \in Members(q)
    PROVE  WebInv'
<1>0. UNCHANGED <<ws, online, s2c, tasks, live, late, orphans, heard, loaded>>
  BY DEF socket, server
<1>1. /\ WireType' /\ Wire' /\ Patient'
      /\ Asked' = Asked \cup (IF ws = "open" THEN Members(q) ELSE {})
      /\ Members(waiting') \subseteq Members(waiting) \cup Members(q)
  BY <1>0, IssueWire DEF WebInv
<1>2. Hearing'
  BY <1>0 DEF WebInv, Hearing, AnsweredBefore
<1>3. Loads'
  BY <1>0 DEF WebInv, Loads, Finished
<1>4. AllShown'
  <2>1. \A c : Shown(c) => ShownThen(c)
    BY DEF Shown, ShownThen, Kept
  <2>2. \A c \in Members(waiting') \cup Asked' \cup Left' : ShownThen(c)
    BY <1>0, <1>1, <2>1 DEF WebInv, AllShown, Left
  <2>3. \A n \in Tickets : tasks'[n] # None => ShownThen(tasks'[n])
    BY <1>0, <2>1 DEF WebInv, AllShown
  <2>. QED
    BY <2>2, <2>3 DEF AllShown, Shown, ShownThen
<1>5. Stray'
  <2>1. ws # "open" => live' = {} /\ c2s' = <<>>
    <3>1. ws # "open" => c2s' = c2s
      BY DEF Issue, Transmit
    <3>. QED
      BY <1>0, <3>1 DEF WebInv, Stray
  <2>2. ASSUME NEW t \in live, tasks[t].word \in Panes
        PROVE  \/ t \in Members(service_tasks')
               \/ \E i \in 1 .. Len(s2c) : s2c[i].type = "response" /\ s2c[i].ticket = t
               \/ Call("kill", None, t) \in Asked'
    <3>1. Found(t) /\ ws = "open"
      BY <2>2 DEF WebInv, Stray
    <3>. QED
      BY <1>1, <3>1 DEF Found
  <2>. QED
    BY <1>0, <2>1, <2>2 DEF Stray, Found
<1>. QED
  BY <1>1, <1>2, <1>3, <1>4, <1>5 DEF WebInv

\* The kills of a selection, followed by the calls of r.
LEMMA SelectionSends ==
    ASSUME WebInv, NEW r \in Seq(Calls)
    PROVE  /\ Kills \in Seq(Calls) /\ Kills \o r \in Seq(Calls)
           /\ \A t \in Members(service_tasks) : Call("kill", None, t) \in Members(Kills \o r)
           /\ \A c \in Members(Kills \o r) : c.word \in Panes => c \in Members(r)
<1>1. DOMAIN service_tasks = 1 .. Len(service_tasks) /\ Len(service_tasks) \in Nat
      /\ \A i \in 1 .. Len(service_tasks) : service_tasks[i] \in Tickets
  BY DEF WebInv, PageType
<1>2. \A t \in Tickets : Call("kill", None, t) \in Calls
  BY DEF Call, Calls
<1>3. Kills \in Seq(Calls) /\ DOMAIN Kills = 1 .. Len(service_tasks)
      /\ \A i \in 1 .. Len(service_tasks) : Kills[i] = Call("kill", None, service_tasks[i])
  BY <1>1, <1>2 DEF Kills
<1>4. PICK k : k = Kills
  OBVIOUS
<1>5. k \o r \in Seq(Calls) /\ Members(k \o r) = Members(k) \cup Members(r)
  <2>1. k \in Seq(Calls)
    BY <1>3, <1>4
  <2>. QED
    BY <2>1, Joined, MembersJoined
<1>6. Members(k) = { Call("kill", None, service_tasks[i]) : i \in 1 .. Len(service_tasks) }
  BY <1>3, <1>4 DEF Members
<1>7. \A t \in Members(service_tasks) : Call("kill", None, t) \in Members(k)
  BY <1>1, <1>6 DEF Members
<1>8. \A c \in Members(k) : c.word \notin Panes
  BY <1>6 DEF Call, Panes
<1>. QED
  BY <1>3, <1>4, <1>5, <1>7, <1>8

\* What becomes of the terminals.
LEMMA CreatedShows ==
    ASSUME NEW ts \in [Panes -> [Services -> {"none", "open", "destroyed"}]],
           NEW w, NEW s \in Services
    PROVE  /\ Created(ts, w, s) \in [Panes -> [Services -> {"none", "open", "destroyed"}]]
           /\ w \in Panes => Created(ts, w, s)[w][s] # "none"
           /\ \A p \in Panes, x \in Services : ts[p][x] # "none" => Created(ts, w, s)[p][x] # "none"
<1>1. CASE w \in Panes /\ ts[w][s] = "none"
  <2>1. Created(ts, w, s) = [ts EXCEPT ![w][s] = "open"]
    BY <1>1 DEF Created
  <2>. QED
    BY <1>1, <2>1
<1>2. CASE ~(w \in Panes /\ ts[w][s] = "none")
  BY <1>2 DEF Created
<1>. QED
  BY <1>1, <1>2

LEMMA DestroyedKeeps ==
    ASSUME NEW ts \in [Panes -> [Services -> {"none", "open", "destroyed"}]], NEW s
    PROVE  /\ Destroyed(ts, s) \in [Panes -> [Services -> {"none", "open", "destroyed"}]]
           /\ \A p \in Panes, x \in Services : ts[p][x] # "none" => Destroyed(ts, s)[p][x] # "none"
  BY DEF Destroyed

LEMMA OneCall ==
    ASSUME NEW c \in Calls
    PROVE  <<c>> \in Seq(Calls) /\ Members(<<c>>) = {c}
  BY DEF Members

LEMMA NoCall == <<>> \in Seq(Calls) /\ Members(<<>>) = {}
  BY DEF Members

LEMMA SelectAppKeeps ==
    ASSUME WebInv, SocketInv', SelectApp
    PROVE  WebInv'
<1>0. /\ Issue(Kills) /\ service_tasks' = <<>> /\ selected' = None
      /\ UNCHANGED <<socket, s2c, server, heard, loaded, tab, terminal, typing>>
  BY DEF SelectApp
<1>1. PICK q : q = Kills \o <<>>
  OBVIOUS
<1>2. /\ q \in Seq(Calls)
      /\ \A t \in Members(service_tasks) : Call("kill", None, t) \in Members(q)
      /\ \A c \in Members(q) : c.word \notin Panes
  BY <1>1, NoCall, SelectionSends
<1>3. q = Kills
  <2>1. Kills \in Seq(Calls)
    BY NoCall, SelectionSends
  <2>. QED
    BY <1>1, <2>1
<1>4. Issue(q)
  BY <1>0, <1>3
<1>5. PageType' /\ Kept
  BY <1>0 DEF WebInv, PageType, Kept
<1>. QED
  BY <1>0, <1>2, <1>4, <1>5, ClickKeeps DEF ShownThen

LEMMA SelectServiceKeeps ==
    ASSUME WebInv, SocketInv', NEW s \in Services, SelectService(s)
    PROVE  WebInv'
<1>1. PICK w : w = IF tab = None THEN "inspect" ELSE tab
  OBVIOUS
<1>2. PICK r : r = IF w = "run" THEN <<>> ELSE <<Call(w, s, 0)>>
  OBVIOUS
<1>3. PICK q : q = Kills \o r
  OBVIOUS
<1>4. /\ Issue(q) /\ service_tasks' = <<>> /\ selected' = s /\ tab' = w
      /\ terminal' = IF w = "run" THEN Destroyed(terminal, selected)
                     ELSE Created(Destroyed(terminal, selected), w, s)
      /\ typing' = [x \in Services |-> IF x = selected /\ terminal["run"][x] # "none" THEN <<>>
                                       ELSE typing[x]]
      /\ UNCHANGED <<socket, s2c, server, heard, loaded>>
  BY <1>1, <1>2, <1>3 DEF SelectService
<1>5. w \in Tabs
  BY <1>1 DEF WebInv, PageType, Tabs
<1>6. r \in Seq(Calls) /\ \A c \in Members(r) : c = Call(w, s, 0) /\ w # "run"
  <2>1. Call(w, s, 0) \in Calls
    BY <1>5 DEF Call, Calls, Starts
  <2>. QED
    BY <1>2, <2>1, NoCall, OneCall
<1>7. /\ q \in Seq(Calls)
      /\ \A t \in Members(service_tasks) : Call("kill", None, t) \in Members(q)
      /\ \A c \in Members(q) : c.word \in Panes => c = Call(w, s, 0) /\ w # "run"
  BY <1>3, <1>6, SelectionSends
<1>8. /\ terminal' \in [Panes -> [Services -> {"none", "open", "destroyed"}]] /\ Kept
      /\ w \in Panes /\ w # "run" => terminal'[w][s] # "none"
  <2>1. PICK d : d = Destroyed(terminal, selected)
    OBVIOUS
  <2>2. /\ d \in [Panes -> [Services -> {"none", "open", "destroyed"}]]
        /\ \A p \in Panes, x \in Services : terminal[p][x] # "none" => d[p][x] # "none"
    <3>1. PICK ts, x : ts = terminal /\ x = selected
      OBVIOUS
    <3>2. ts \in [Panes -> [Services -> {"none", "open", "destroyed"}]]
      BY <3>1 DEF WebInv, PageType
    <3>. QED
      BY <2>1, <3>1, <3>2, DestroyedKeeps
  <2>3. /\ Created(d, w, s) \in [Panes -> [Services -> {"none", "open", "destroyed"}]]
        /\ w \in Panes => Created(d, w, s)[w][s] # "none"
        /\ \A p \in Panes, x \in Services : d[p][x] # "none" => Created(d, w, s)[p][x] # "none"
    BY <2>2, CreatedShows
  <2>4. terminal' = IF w = "run" THEN d ELSE Created(d, w, s)
    BY <1>4, <2>1
  <2>. QED
    BY <2>2, <2>3, <2>4 DEF Kept
<1>9. PageType'
  BY <1>4, <1>5, <1>8 DEF WebInv, PageType
<1>10. \A c \in Members(q) : ShownThen(c)
  BY <1>7, <1>8 DEF ShownThen, Call
<1>. QED
  BY <1>4, <1>7, <1>8, <1>9, <1>10, ClickKeeps

LEMMA OpenTabKeeps ==
    ASSUME WebInv, SocketInv', NEW w \in Tabs, OpenTab(w)
    PROVE  WebInv'
<1>1. PICK s : s = selected
  OBVIOUS
<1>2. PICK q : q = <<Call(w, s, 0)>>
  OBVIOUS
<1>3. /\ s \in Services /\ Issue(q) /\ tab' = w /\ terminal' = Created(terminal, w, s)
      /\ UNCHANGED <<socket, s2c, server, heard, loaded, selected, service_tasks, typing>>
  BY <1>1, <1>2 DEF OpenTab, WebInv, PageType
<1>4. q \in Seq(Calls) /\ \A c \in Members(q) : c = Call(w, s, 0)
  <2>1. Call(w, s, 0) \in Calls
    BY <1>3 DEF Call, Calls, Starts
  <2>. QED
    BY <1>2, <2>1, OneCall
<1>5. /\ terminal' \in [Panes -> [Services -> {"none", "open", "destroyed"}]] /\ Kept
      /\ w \in Panes => terminal'[w][s] # "none"
  <2>1. PICK ts : ts = terminal
    OBVIOUS
  <2>2. ts \in [Panes -> [Services -> {"none", "open", "destroyed"}]]
    BY <2>1 DEF WebInv, PageType
  <2>. QED
    BY <1>3, <2>1, <2>2, CreatedShows DEF Kept
<1>6. PageType'
  BY <1>3, <1>5 DEF WebInv, PageType
<1>7. \A c \in Members(q) : ShownThen(c)
  BY <1>3, <1>4, <1>5 DEF ShownThen, Call
<1>. QED
  BY <1>3, <1>4, <1>5, <1>6, <1>7, ClickKeeps

LEMMA UpdateAppsKeeps ==
    ASSUME WebInv, SocketInv', UpdateApps
    PROVE  WebInv'
<1>1. PICK q : q = <<Call("list", None, 0)>>
  OBVIOUS
<1>2. Issue(q) /\ UNCHANGED <<socket, s2c, server, heard, page>>
  BY <1>1 DEF UpdateApps
<1>3. q \in Seq(Calls) /\ \A c \in Members(q) : c = Call("list", None, 0)
  <2>1. Call("list", None, 0) \in Calls
    BY DEF Call, Calls, Starts
  <2>. QED
    BY <1>1, <2>1, OneCall
<1>4. PageType' /\ Kept /\ UNCHANGED loaded /\ UNCHANGED service_tasks
  BY <1>2 DEF WebInv, PageType, Kept, page
<1>5. \A c \in Members(q) : ShownThen(c)
  BY <1>3 DEF ShownThen, Call, Panes
<1>. QED
  BY <1>2, <1>3, <1>4, <1>5, ClickKeeps

\* The keys go out like any other calls, but never wait.
LEMMA TypeKeeps ==
    ASSUME WebInv, SocketInv', Type
    PROVE  WebInv'
<1>1. PICK q : q = [i \in DOMAIN typing[selected] |-> Call("stdin", None, typing[selected][i])]
  OBVIOUS
<1>2. /\ selected # None /\ q # <<>>
      /\ request_id + Len(waiting) + Len(q) <= MaxRequests
      /\ \/ Transmit(q, ws = "open")
         \/ request_id' = request_id + 1 /\ UNCHANGED <<requests, c2s>>
      /\ UNCHANGED <<socket, waiting, s2c, server, heard, page>>
  BY <1>1 DEF Type
<1>3. q \in Seq(Calls) /\ \A c \in Members(q) : c.word \notin Panes
  <2>1. PICK y : y = typing[selected]
    OBVIOUS
  <2>2. y \in Seq(Tickets)
    BY <1>2, <2>1 DEF WebInv, PageType
  <2>3. \A t \in Tickets : Call("stdin", None, t) \in Calls
    BY DEF Call, Calls
  <2>4. q = [i \in DOMAIN y |-> Call("stdin", None, y[i])]
    BY <1>1, <2>1
  <2>. QED
    BY <2>2, <2>3, <2>4 DEF Members, Call, Panes
<1>4. PageType' /\ Hearing' /\ Loads'
  BY <1>2 DEF WebInv, PageType, Hearing, AnsweredBefore, Loads, Finished, page, server
<1>5. /\ Len(q) \in Nat \ {0} /\ request_id \in Nat /\ Len(waiting) \in Nat /\ MaxRequests \in Nat
      /\ request_id + Len(q) <= MaxRequests
  <2>1. Len(q) \in Nat \ {0} /\ request_id \in Nat /\ Len(waiting) \in Nat /\ MaxRequests \in Nat
    BY <1>2, <1>3, EmptySeq, InTheQueues, WebAssumption DEF WebInv, Patient
  <2>. QED
    BY <1>2, <2>1
<1>6. CASE Transmit(q, ws = "open")
  <2>0. UNCHANGED <<ws, s2c, tasks, live, late, orphans, waiting>>
    BY <1>2 DEF socket, server
  <2>1. /\ WireType' /\ Wire'
        /\ Asked' = Asked \cup (IF ws = "open" THEN Members(q) ELSE {})
    BY <1>3, <1>5, <1>6, <2>0, TransmitWire, TransmitAsks DEF WebInv
  <2>2. Patient'
    <3>1. request_id' = request_id + Len(q)
      BY <1>6 DEF Transmit
    <3>. QED
      BY <1>2, <1>5, <2>0, <3>1 DEF WebInv, Patient
  <2>3. AllShown'
    <3>1. \A c \in Asked' : c \in Asked \/ c.word \notin Panes
      BY <1>3, <2>1
    <3>. QED
      BY <1>2, <3>1 DEF WebInv, AllShown, Shown, Left, page, server
  <2>4. Stray'
    <3>1. ws # "open" => c2s' = c2s
      BY <1>6 DEF Transmit
    <3>2. Asked \subseteq Asked'
      BY <2>1
    <3>. QED
      BY <1>2, <2>0, <3>1, <3>2 DEF WebInv, Stray, Found, page
  <2>. QED
    BY <1>4, <2>1, <2>2, <2>3, <2>4 DEF WebInv
<1>7. CASE request_id' = request_id + 1 /\ UNCHANGED <<requests, c2s>>
  <2>0. /\ UNCHANGED <<ws, s2c, tasks, live, late, orphans, waiting, service_tasks, terminal>>
        /\ request_id' \in 0 .. MaxRequests /\ request_id < request_id' /\ request_id' \in Nat
    BY <1>2, <1>5, <1>7 DEF socket, server, page
  <2>1. WireType'
    BY <1>7, <2>0 DEF WebInv, WireType
  <2>2. Allotted'
    <3>1. PICK m \in Nat : /\ m + Len(c2s) + Len(late) <= request_id
                           /\ \A n \in Tickets : tasks[n] # None <=> n <= m
      BY DEF WebInv, Wire, Allotted
    <3>2. m + Len(c2s) + Len(late) <= request_id' /\ Len(c2s) \in Nat /\ Len(late) \in Nat
      BY <1>5, <2>0, <3>1, InTheQueues DEF WebInv
    <3>. QED
      BY <1>7, <2>0, <3>1, <3>2 DEF Allotted
  <2>3. Numbered'
    <3>1. \A i \in 1 .. Len(c2s) : c2s[i].id < request_id'
      BY <1>5, <2>0, InTheQueues DEF WebInv, Wire, Numbered
    <3>2. \A i \in 1 .. Len(s2c) : s2c[i].type = "response" => s2c[i].id < request_id'
      BY <1>5, <2>0, InTheQueues DEF WebInv, Wire, Numbered
    <3>. QED
      BY <1>7, <2>0, <3>1, <3>2 DEF WebInv, Wire, Numbered
  <2>4. Matching' /\ Known'
    BY <1>7, <2>0 DEF WebInv, Wire, Matching, Known
  <2>5. Patient'
    BY <1>2, <1>5, <1>7, <2>0 DEF WebInv, Patient
  <2>6. AllShown'
    BY <1>7, <2>0 DEF WebInv, AllShown, Shown, Asked, Left
  <2>7. Stray'
    BY <1>7, <2>0 DEF WebInv, Stray, Found, Asked
  <2>. QED
    BY <1>4, <2>1, <2>2, <2>3, <2>4, <2>5, <2>6, <2>7 DEF WebInv, Wire
<1>. QED
  BY <1>2, <1>6, <1>7

-----------------------------------------------------------------------------
(* The invariant *)

LEMMA WebInit == Init => WebInv
<1>. SUFFICES ASSUME Init PROVE WebInv
  OBVIOUS
<1>0. MaxRequests \in Nat \ {0} /\ None \notin Calls
  BY WebAssumption
<1>1. SocketInv
  BY DEF Init, SocketInv
<1>2. WireType
  <2>1. requests \in [Ids -> Calls \cup {None}] /\ tasks \in [Tickets -> Calls \cup {None}]
    BY DEF Init
  <2>2. c2s \in Seq(Requests) /\ s2c \in Seq(Messages) /\ late \in Seq(Requests)
    BY DEF Init
  <2>3. request_id \in 0 .. MaxRequests /\ live \subseteq Tickets /\ orphans \subseteq Tickets
    BY <1>0 DEF Init
  <2>. QED
    BY <2>1, <2>2, <2>3 DEF WireType
<1>3. Wire
  <2>1. Len(c2s) = 0 /\ Len(s2c) = 0 /\ Len(late) = 0 /\ request_id = 0
    BY DEF Init
  <2>2. \A n \in Tickets : tasks[n] = None /\ ~(n <= 0)
    BY <1>0 DEF Init, Tickets
  <2>3. Allotted
    BY <2>1, <2>2 DEF Allotted
  <2>4. Numbered /\ Matching
    BY <2>1 DEF Numbered, Matching
  <2>5. Known
    BY <2>1, <2>2 DEF Known, Init
  <2>. QED
    BY <2>3, <2>4, <2>5 DEF Wire
<1>4. Patient /\ \A c \in Members(waiting) : c = Call("list", None, 0)
  <2>1. PICK q : q = <<Call("list", None, 0)>>
    OBVIOUS
  <2>2. Call("list", None, 0) \in Calls
    BY DEF Call, Calls, Starts
  <2>3. q \in Seq(Calls) /\ Members(q) = {Call("list", None, 0)} /\ Len(q) = 1
    BY <2>1, <2>2, OneCall
  <2>. QED
    BY <1>0, <2>1, <2>3 DEF Init, Patient
<1>5. PageType
  <2>1. /\ terminal \in [Panes -> [Services -> {"none", "open", "destroyed"}]]
        /\ typing \in [Services -> Seq(Tickets)]
    BY DEF Init
  <2>. QED
    BY <2>1 DEF Init, PageType
<1>6. Hearing
  BY DEF Init, Hearing
<1>7. Loads
  <2>1. Finished \in SUBSET Tickets
    BY DEF Finished
  <2>2. Cardinality(Finished) \in Nat
    BY <2>1, SomeTickets
  <2>. QED
    BY <2>2 DEF Init, Loads
<1>8. AllShown
  <2>1. Asked = {} /\ Left = {} /\ \A n \in Tickets : tasks[n] = None
    BY DEF Init, Asked, Left
  <2>. QED
    BY <1>4, <2>1 DEF AllShown, Shown, Call, Panes
<1>9. Stray
  BY DEF Init, Stray
<1>. QED
  BY <1>1, <1>2, <1>3, <1>4, <1>5, <1>6, <1>7, <1>8, <1>9 DEF WebInv

LEMMA WebInduction == WebInv /\ [Next]_vars => WebInv'
<1>. SUFFICES ASSUME WebInv, [Next]_vars PROVE WebInv'
  OBVIOUS
<1>1. SocketInv'
  BY SocketInduction DEF WebInv
<1>2. CASE SocketStep
  BY <1>1, <1>2, SocketKeeps
<1>3. CASE ServerStep
  BY <1>1, <1>3, ServerKeeps
<1>7. CASE LeftBehind
  BY <1>1, <1>7, LeftBehindKeeps
<1>4. CASE ReceiveResponse \/ ReceiveEvent
  BY <1>1, <1>4, ReceiveKeeps
<1>5. CASE Click
  <2>1. CASE SelectApp
    BY <1>1, <2>1, SelectAppKeeps
  <2>2. CASE \E s \in Services : SelectService(s)
    BY <1>1, <2>2, SelectServiceKeeps
  <2>3. CASE \E w \in Tabs : OpenTab(w)
    BY <1>1, <2>3, OpenTabKeeps
  <2>4. CASE UpdateApps
    BY <1>1, <2>4, UpdateAppsKeeps
  <2>5. CASE Type
    BY <1>1, <2>5, TypeKeeps
  <2>. QED
    BY <1>5, <2>1, <2>2, <2>3, <2>4, <2>5 DEF Click
<1>6. CASE UNCHANGED vars
  <2>1. UNCHANGED <<waiting, request_id, requests, c2s, s2c, tasks, live, late, orphans,
                    heard, loaded, ws,
                    selected, tab, service_tasks, terminal, typing>>
    BY <1>6 DEF vars, socket, calls, server, page
  <2>2. WireType' /\ Wire' /\ Patient' /\ PageType'
    BY <2>1 DEF WebInv, WireType, Wire, Allotted, Numbered, Matching, Known, Patient, PageType
  <2>3. Hearing'
    BY <2>1 DEF WebInv, Hearing, AnsweredBefore
  <2>4. Loads'
    BY <2>1 DEF WebInv, Loads, Finished
  <2>5. AllShown'
    BY <2>1 DEF WebInv, AllShown, Shown, Asked, Left
  <2>6. Stray'
    BY <2>1 DEF WebInv, Stray, Found, Asked
  <2>. QED
    BY <1>1, <2>2, <2>3, <2>4, <2>5, <2>6 DEF WebInv
<1>. QED
  BY <1>2, <1>3, <1>4, <1>5, <1>6, <1>7 DEF Next

\* The types of the page, of its calls and of the messages.
THEOREM TypeCorrect == Spec => []TypeOK
<1>1. ASSUME WebInv PROVE TypeOK
  <2>1. loaded \in 0 .. MaxRequests
    <3>1. Finished \in SUBSET Tickets
      BY DEF Finished
    <3>2. Cardinality(Finished) \in Nat /\ Cardinality(Finished) <= MaxRequests /\ MaxRequests \in Nat
      BY <3>1, SomeTickets, WebAssumption
    <3>. QED
      BY <1>1, <3>2 DEF WebInv, Loads
  <2>2. live \subseteq Tickets /\ orphans \subseteq Tickets /\ late \in Seq(Requests)
    BY <1>1 DEF WebInv, WireType
  <2>. QED
    BY <1>1, <2>1, <2>2 DEF WebInv, SocketInv, WireType, Patient, PageType, Requests, Messages, TypeOK
<1>. QED
  BY <1>1, WebInit, WebInduction, PTL DEF Spec

\* What is in a queue stands at a place of it.
LEMMA QueueMembers ==
    ASSUME WireType
    PROVE  /\ Members(c2s) = { c2s[i] : i \in 1 .. Len(c2s) }
           /\ Members(s2c) = { s2c[i] : i \in 1 .. Len(s2c) }
<1>1. DOMAIN c2s = 1 .. Len(c2s) /\ DOMAIN s2c = 1 .. Len(s2c)
  BY DEF WireType
<1>. QED
  BY <1>1 DEF Members

\* An answer is always given to the promise that waits for it, whatever was sent,
\* lost and sent again on however many connections.
THEOREM AnswersAlwaysMatch == Spec => []AnswersMatch
<1>1. ASSUME WebInv PROVE AnswersMatch
  BY <1>1, QueueMembers DEF WebInv, Wire, Matching, AnswersMatch
<1>. QED
  BY <1>1, WebInit, WebInduction, PTL DEF Spec

\* No event of a task ever comes to a page that has no listener for it.
THEOREM EventsAlwaysHeard == Spec => []EventsHeard
<1>1. ASSUME WebInv PROVE EventsHeard
  <2>0. DOMAIN s2c = 1 .. Len(s2c) /\ Len(s2c) \in Nat
    BY <1>1 DEF WebInv, WireType
  <2>1. SUFFICES ASSUME NEW i \in 1 .. Len(s2c), s2c[i].type # "response", s2c[i].ticket \notin heard
                 PROVE  \E j \in 1 .. i - 1 : /\ s2c[j] = Response(s2c[j].id, s2c[i].ticket)
                                              /\ requests[s2c[j].id] = tasks[s2c[i].ticket]
    BY <2>0 DEF EventsHeard
  <2>2. PICK j \in 1 .. i - 1 : s2c[j].type = "response" /\ s2c[j].ticket = s2c[i].ticket
    BY <1>1, <2>1 DEF WebInv, Hearing, AnsweredBefore
  <2>3. j \in 1 .. Len(s2c) /\ s2c[j] \in Messages
    BY <1>1, <2>0, InTheQueues DEF WebInv
  <2>4. s2c[j] = Response(s2c[j].id, s2c[i].ticket)
    BY <2>2, <2>3 DEF Messages, Response
  <2>5. s2c[i].ticket # 0
    BY <1>1, <2>1 DEF WebInv, Wire, Known
  <2>6. requests[s2c[j].id] = tasks[s2c[j].ticket]
    BY <1>1, <2>2, <2>3, <2>5 DEF WebInv, Wire, Matching
  <2>. QED
    BY <2>2, <2>4, <2>6
<1>. QED
  BY <1>1, WebInit, WebInduction, PTL DEF Spec

\* Of what it started on the connection it has, the page loses nothing from sight that
\* runs for a terminal: it will kill it, or hears of it, or is killing it.  What
\* begins or runs on for a connection that is gone is in orphans, not in live.
THEOREM NothingEverStray == Spec => []NothingStray
<1>1. ASSUME WebInv PROVE NothingStray
  <2>1. ASSUME NEW t \in live, tasks[t].word \in Panes, Call("kill", None, t) \in Asked
        PROVE  \E m \in Members(c2s) : m.call = Call("kill", None, t)
    BY <1>1, <2>1, QueueMembers DEF WebInv, Asked
  <2>2. ASSUME NEW t \in live, NEW i \in 1 .. Len(s2c), s2c[i].type = "response", s2c[i].ticket = t
        PROVE  \E m \in Members(s2c) : m.type = "response" /\ m.ticket = t
    BY <1>1, <2>2, QueueMembers DEF WebInv
  <2>. QED
    BY <1>1, <2>1, <2>2 DEF WebInv, Stray, Found, NothingStray
<1>. QED
  BY <1>1, WebInit, WebInduction, PTL DEF Spec

\* The terminal an answer or an output is for is always there.
THEOREM PaneAlwaysExists == Spec => []PaneExists
<1>1. ASSUME WebInv PROVE PaneExists
  <2>1. ASSUME NEW i \in 1 .. Len(s2c), s2c[i].ticket # 0, tasks[s2c[i].ticket].word \in Panes
        PROVE  terminal[tasks[s2c[i].ticket].word][tasks[s2c[i].ticket].service] # "none"
    <3>1. s2c[i].ticket \in Tickets
      BY <1>1, <2>1, InTheQueues DEF WebInv
    <3>2. tasks[s2c[i].ticket] # None
      BY <1>1, <2>1 DEF WebInv, Wire, Known
    <3>. QED
      BY <1>1, <2>1, <3>1, <3>2 DEF WebInv, AllShown, Shown
  <2>. QED
    BY <1>1, <2>1, QueueMembers DEF WebInv, PaneExists
<1>. QED
  BY <1>1, WebInit, WebInduction, PTL DEF Spec
=============================================================================
