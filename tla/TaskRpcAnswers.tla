----------------------------- MODULE TaskRpcAnswers -----------------------------
(***************************************************************************)
(* The answers of TaskRpc, proved for every set of sessions and every      *)
(* bound: a request is answered once, while it is open; and the answer to  *)
(* a kill never arrives before the outcome of the killed task.             *)
(***************************************************************************)
EXTENDS TaskRpcProofs

-----------------------------------------------------------------------------
(* The ids in a queue: where an open request is.                           *)

\* The positions in q of the members of S, their ids, and that no two of them
\* have the same id.
At(q, S) == {i \in 1 .. Len(q) : q[i] \in S}
Ids(q, S) == {q[i].id : i \in At(q, S)}
Once(q, S) == \A i, j \in At(q, S) : q[i].id = q[j].id => i = j

LEMMA IdsOfEmpty ==
  ASSUME NEW S
  PROVE  Ids(<< >>, S) = {} /\ Once(<< >>, S)
BY DEF Ids, Once, At

\* A new entry brings its id, and none else.
LEMMA IdsOfAppend ==
  ASSUME NEW M, NEW q \in Seq(M), NEW m \in M, NEW S
  PROVE  /\ Ids(Append(q, m), S) = IF m \in S THEN Ids(q, S) \cup {m.id} ELSE Ids(q, S)
         /\ Once(q, S) /\ (m \in S => m.id \notin Ids(q, S)) => Once(Append(q, m), S)
<1> DEFINE r == Append(q, m)
<1>1. /\ Len(q) \in Nat /\ Len(r) = Len(q) + 1 /\ r[Len(q) + 1] = m
      /\ \A i \in 1 .. Len(q) : r[i] = q[i]
  OBVIOUS
<1> HIDE DEF r
<1>2. \A i \in 1 .. Len(r) : i \in 1 .. Len(q) \/ i = Len(q) + 1
  BY <1>1
<1>3. Len(q) + 1 \in 1 .. Len(r) /\ \A i \in 1 .. Len(q) : i \in 1 .. Len(r) /\ i # Len(q) + 1
  BY <1>1
<1>4. \A i : i \in At(r, S) <=> i \in At(q, S) \/ (m \in S /\ i = Len(q) + 1)
  BY <1>1, <1>2, <1>3 DEF At
<1>5. \A i \in At(q, S) : r[i] = q[i] /\ i # Len(q) + 1
  BY <1>1, <1>3 DEF At
<1>6. Ids(r, S) = IF m \in S THEN Ids(q, S) \cup {m.id} ELSE Ids(q, S)
  BY <1>1, <1>4, <1>5 DEF Ids
<1>7. ASSUME Once(q, S), m \in S => m.id \notin Ids(q, S) PROVE Once(r, S)
  <2> SUFFICES ASSUME NEW i \in At(r, S), NEW j \in At(r, S), r[i].id = r[j].id PROVE i = j
    BY DEF Once
  <2>1. CASE i \in At(q, S) /\ j \in At(q, S)
    BY <1>5, <1>7, <2>1 DEF Once
  <2>2. CASE i \in At(q, S) /\ j \notin At(q, S)
    BY <1>1, <1>4, <1>5, <1>7, <2>2 DEF Ids
  <2>3. CASE i \notin At(q, S) /\ j \in At(q, S)
    BY <1>1, <1>4, <1>5, <1>7, <2>3 DEF Ids
  <2>4. CASE i \notin At(q, S) /\ j \notin At(q, S)
    BY <1>4, <2>4
  <2> QED BY <2>1, <2>2, <2>3, <2>4
<1> QED BY <1>6, <1>7 DEF r

\* The entry that is taken takes its id with it.
LEMMA IdsOfTail ==
  ASSUME NEW M, NEW q \in Seq(M), q # << >>, NEW S, Once(q, S)
  PROVE  /\ Ids(Tail(q), S) \subseteq Ids(q, S) /\ Once(Tail(q), S)
         /\ Head(q) \in S => Head(q).id \in Ids(q, S) \ Ids(Tail(q), S)
<1> DEFINE r == Tail(q)
<1>1. /\ Len(q) \in Nat /\ Len(q) > 0 /\ Len(r) = Len(q) - 1 /\ Head(q) = q[1]
      /\ \A i \in 1 .. Len(r) : r[i] = q[i + 1]
  OBVIOUS
<1> HIDE DEF r
<1>2. \A i \in 1 .. Len(r) : i + 1 \in 1 .. Len(q) /\ i + 1 # 1
  BY <1>1
<1>3. \A i \in At(r, S) : i + 1 \in At(q, S) /\ r[i] = q[i + 1] /\ i + 1 # 1 /\ i \in Nat
  BY <1>1, <1>2 DEF At
<1>4. Ids(r, S) \subseteq Ids(q, S)
  BY <1>3 DEF Ids
<1>5. Once(r, S)
  <2> SUFFICES ASSUME NEW i \in At(r, S), NEW j \in At(r, S), r[i].id = r[j].id PROVE i = j
    BY DEF Once
  <2>1. i + 1 = j + 1
    BY <1>3 DEF Once
  <2> QED BY <1>3, <2>1
<1>6. ASSUME Head(q) \in S PROVE Head(q).id \in Ids(q, S) \ Ids(r, S)
  <2>1. 1 \in At(q, S)
    BY <1>1, <1>6 DEF At
  <2>2. Head(q).id \in Ids(q, S)
    BY <1>1, <2>1 DEF Ids
  <2>3. ASSUME NEW i \in At(r, S), r[i].id = Head(q).id PROVE FALSE
    BY <1>1, <1>3, <2>1, <2>3 DEF Once
  <2> QED BY <2>2, <2>3 DEF Ids
<1> QED BY <1>4, <1>5, <1>6 DEF r

-----------------------------------------------------------------------------
(* An open request is in one place: in the queue of its client, among the  *)
(* INCRs that Redis owes, or among the answers under way.                  *)

Responses == {m \in Message : m.type = "response"}
From(s) == {c \in [session : Sessions, id : RequestId, kind : Kinds] : c.session = s}

Asked(s) == Ids(c2s[s], Request)
Awaited(s) == Ids(incrs, From(s))
Answered(s) == Ids(s2c[s], Responses)

\* The places C, I and R hold requests that are open and were sent, each in one.
Apart(open, last, C, I, R) ==
  /\ C \subseteq open /\ I \subseteq open /\ R \subseteq open
  /\ \A r \in open : r <= last
  /\ C \cap I = {} /\ C \cap R = {} /\ I \cap R = {}

PlacesInv ==
  \A s \in Sessions :
    /\ Apart(request_map[s], sent[s], Asked(s), Awaited(s), Answered(s))
    /\ Once(c2s[s], Request) /\ Once(incrs, From(s)) /\ Once(s2c[s], Responses)

AnswerInv == TypeOK /\ PlacesInv

\* What is sent to s adds at most its own id, to the answers of s.
LEMMA SentAnswers ==
  ASSUME NEW chan \in [Sessions -> Seq(Message)], NEW s, NEW m \in Message, NEW o \in Sessions,
         Once(chan[o], Responses),
         o = s /\ m.type = "response" => m.id \notin Ids(chan[o], Responses)
  PROVE  /\ Once(Sent(chan, s, m)[o], Responses)
         /\ Ids(Sent(chan, s, m)[o], Responses) \subseteq
              IF o = s /\ m.type = "response" THEN Ids(chan[o], Responses) \cup {m.id}
              ELSE Ids(chan[o], Responses)
<1>1. CASE o = s /\ conn[s] = "open"
  <2>1. Sent(chan, s, m)[o] = Append(chan[o], m) /\ chan[o] \in Seq(Message)
    BY <1>1 DEF Sent
  <2>2. m \in Responses <=> m.type = "response"
    BY DEF Responses
  <2> QED BY <1>1, <2>1, <2>2, IdsOfAppend
<1>2. CASE ~(o = s /\ conn[s] = "open")
  <2>1. Sent(chan, s, m)[o] = chan[o]
    BY <1>2 DEF Sent
  <2> QED BY <2>1
<1> QED BY <1>1, <1>2

\* Places that only lose requests stay apart.
LEMMA FewerApart ==
  ASSUME PlacesInv, UNCHANGED <<sent, request_map>>,
         \A s \in Sessions :
           /\ Asked(s)' \subseteq Asked(s) /\ Once(c2s'[s], Request)
           /\ Awaited(s)' \subseteq Awaited(s) /\ Once(incrs', From(s))
           /\ Answered(s)' \subseteq Answered(s) /\ Once(s2c'[s], Responses)
  PROVE  PlacesInv'
<1> SUFFICES ASSUME NEW s \in Sessions
             PROVE  Apart(request_map'[s], sent'[s], Asked(s)', Awaited(s)', Answered(s)')
  BY DEF PlacesInv, From
<1> QED BY DEF PlacesInv, Apart

LEMMA PlacesInit == Init => AnswerInv
<1> SUFFICES ASSUME Init PROVE PlacesInv
  BY TypeInit DEF AnswerInv
<1> SUFFICES ASSUME NEW s \in Sessions
             PROVE  /\ Apart(request_map[s], sent[s], Asked(s), Awaited(s), Answered(s))
                    /\ Once(c2s[s], Request) /\ Once(incrs, From(s)) /\ Once(s2c[s], Responses)
  BY DEF PlacesInv
<1>1. c2s[s] = << >> /\ incrs = << >> /\ s2c[s] = << >> /\ request_map[s] = {}
  BY DEF Init, ServerIdle
<1> QED BY <1>1, IdsOfEmpty DEF Apart, Asked, Awaited, Answered

\* The server takes the request at the head of the queue of s.
LEMMA ConsumeTakes ==
  ASSUME AnswerInv, NEW s \in Sessions, Serving(s), Consume(s)
  PROVE  /\ Head(c2s[s]).id \in Asked(s) \ Asked(s)' /\ Head(c2s[s]).id \in RequestId
         /\ \A o \in Sessions : Asked(o)' \subseteq Asked(o) /\ Once(c2s'[o], Request)
<1>1. /\ c2s[s] # << >> /\ c2s'[s] = Tail(c2s[s]) /\ \A o \in Sessions \ {s} : c2s'[o] = c2s[o]
      /\ c2s[s] \in Seq(Request)
  BY DEF AnswerInv, TypeOK, Serving, Consume
<1>2. Head(c2s[s]) \in Request /\ Head(c2s[s]).id \in RequestId
  BY <1>1, HeadOfC2S DEF AnswerInv
<1>3. Once(c2s[s], Request)
  BY DEF AnswerInv, PlacesInv
<1>4. /\ Ids(Tail(c2s[s]), Request) \subseteq Ids(c2s[s], Request)
      /\ Once(Tail(c2s[s]), Request)
      /\ Head(c2s[s]).id \in Ids(c2s[s], Request) \ Ids(Tail(c2s[s]), Request)
  BY <1>1, <1>2, <1>3, IdsOfTail
<1>5. ASSUME NEW o \in Sessions PROVE Asked(o)' \subseteq Asked(o) /\ Once(c2s'[o], Request)
  <2>1. CASE o = s
    BY <1>1, <1>4, <2>1 DEF Asked
  <2>2. CASE o # s
    BY <1>1, <2>2 DEF Asked, AnswerInv, PlacesInv
  <2> QED BY <2>1, <2>2
<1> QED BY <1>1, <1>2, <1>4, <1>5 DEF Asked

\* A new request has an id beyond all that are open.
LEMMA CallPlaces ==
  ASSUME AnswerInv, NEW s \in Sessions, NEW a \in Asks, Call(s, a)
  PROVE  PlacesInv'
<1> DEFINE n == sent[s] + 1
<1> DEFINE m == [id |-> n, ask |-> a]
<1>1. /\ sent[s] \in Nat /\ n \in RequestId /\ sent'[s] = n
      /\ request_map[s] \subseteq RequestId
  <2>1. sent[s] \in 0 .. MaxRequests /\ sent[s] < MaxRequests /\ MaxRequests \in Nat
    BY RpcAssumption DEF AnswerInv, TypeOK, Call
  <2>2. sent[s] \in Nat /\ n \in RequestId
    BY <2>1 DEF RequestId
  <2>3. sent'[s] = n /\ request_map[s] \subseteq RequestId
    BY DEF AnswerInv, TypeOK, Call
  <2> QED BY <2>2, <2>3
<1>2. /\ request_map'[s] = request_map[s] \cup {n} /\ c2s'[s] = Append(c2s[s], m)
      /\ \A o \in Sessions \ {s} : /\ request_map'[o] = request_map[o] /\ sent'[o] = sent[o]
                                   /\ c2s'[o] = c2s[o]
      /\ UNCHANGED <<incrs, s2c>>
  BY <1>1 DEF AnswerInv, TypeOK, Call, server
<1>3. m \in Request /\ m.id = n /\ c2s[s] \in Seq(Request)
  BY <1>1 DEF Request, AnswerInv, TypeOK
<1>4. n \notin request_map[s] /\ \A r \in request_map[s] : r <= n
  <2>1. \A r \in request_map[s] : r \in Nat /\ r <= sent[s]
    BY <1>1 DEF AnswerInv, PlacesInv, Apart, RequestId
  <2> QED BY <1>1, <2>1
<1>5. n <= n
  BY <1>1
<1> HIDE DEF n, m
<1>6. n \notin Asked(s) /\ n \notin Awaited(s) /\ n \notin Answered(s)
  BY <1>4 DEF AnswerInv, PlacesInv, Apart
<1>7. Asked(s)' = Asked(s) \cup {n} /\ Once(c2s'[s], Request)
  <2>1. Once(c2s[s], Request)
    BY DEF AnswerInv, PlacesInv
  <2> QED BY <1>2, <1>3, <1>6, <2>1, IdsOfAppend DEF Asked
<1>8. SUFFICES ASSUME NEW o \in Sessions
      PROVE  /\ Apart(request_map[o], sent[o], Asked(o), Awaited(o), Answered(o))'
             /\ Once(c2s'[o], Request) /\ Once(incrs', From(o)) /\ Once(s2c'[o], Responses)
  BY DEF PlacesInv, From
<1>9. /\ Apart(request_map[o], sent[o], Asked(o), Awaited(o), Answered(o))
      /\ Once(c2s[o], Request) /\ Once(incrs, From(o)) /\ Once(s2c[o], Responses)
      /\ Awaited(o)' = Awaited(o) /\ Answered(o)' = Answered(o)
  BY <1>2 DEF AnswerInv, PlacesInv, Awaited, Answered, From
<1>10. CASE o = s
  <2>1. /\ \A r \in request_map[s]' : r <= sent'[s]
        /\ Asked(s)' \subseteq request_map'[s] /\ Asked(s)' \cap Awaited(s)' = {}
        /\ Asked(s)' \cap Answered(s)' = {}
    BY <1>1, <1>2, <1>4, <1>5, <1>6, <1>7, <1>9, <1>10 DEF Apart
  <2> QED BY <1>2, <1>7, <1>9, <1>10, <2>1 DEF Apart
<1>11. CASE o # s
  <2>1. Asked(o)' = Asked(o)
    BY <1>2, <1>11 DEF Asked
  <2> QED BY <1>2, <1>9, <1>11, <2>1
<1> QED BY <1>10, <1>11

\* The client closes the request it has the answer of; an event has no request.
LEMMA ReceivePlaces ==
  ASSUME AnswerInv, NEW s \in Sessions, Receive(s)
  PROVE  PlacesInv'
<1> DEFINE m == Head(s2c[s])
<1>1. /\ s2c[s] \in Seq(Message) /\ s2c[s] # << >>
      /\ s2c'[s] = Tail(s2c[s]) /\ request_map'[s] = request_map[s] \ {m.id}
      /\ \A o \in Sessions \ {s} : s2c'[o] = s2c[o] /\ request_map'[o] = request_map[o]
      /\ UNCHANGED <<incrs, c2s, sent>>
  BY DEF AnswerInv, TypeOK, Receive, server
<1>2. m \in Message /\ request_map[s] \subseteq RequestId
  BY <1>1 DEF AnswerInv, TypeOK
<1>3. m \in Responses \/ m.id = 0
  BY <1>2 DEF Message, Responses
<1>4. 0 \notin request_map[s]
  BY <1>2 DEF RequestId
<1> HIDE DEF m
<1>5. SUFFICES ASSUME NEW o \in Sessions
      PROVE  /\ Apart(request_map[o], sent[o], Asked(o), Awaited(o), Answered(o))'
             /\ Once(c2s'[o], Request) /\ Once(incrs', From(o)) /\ Once(s2c'[o], Responses)
  BY DEF PlacesInv, From
<1>6. /\ Apart(request_map[o], sent[o], Asked(o), Awaited(o), Answered(o))
      /\ Once(c2s[o], Request) /\ Once(incrs, From(o)) /\ Once(s2c[o], Responses)
      /\ Asked(o)' = Asked(o) /\ Awaited(o)' = Awaited(o)
  BY <1>1 DEF AnswerInv, PlacesInv, Asked, Awaited, From
<1>7. CASE o = s
  <2>1. /\ Answered(s)' \subseteq Answered(s) /\ Once(s2c'[s], Responses)
        /\ m \in Responses => m.id \in Answered(s) \ Answered(s)'
    BY <1>1, <1>6, <1>7, IdsOfTail DEF Answered, m
  <2>2. CASE m \in Responses
    BY <1>1, <1>6, <1>7, <2>1, <2>2 DEF Apart
  <2>3. CASE m.id = 0
    BY <1>1, <1>4, <1>6, <1>7, <2>1, <2>3 DEF Apart
  <2> QED BY <1>3, <2>2, <2>3
<1>8. CASE o # s
  <2>1. Answered(o)' = Answered(o)
    BY <1>1, <1>8 DEF Answered
  <2> QED BY <1>1, <1>6, <1>8, <2>1
<1> QED BY <1>7, <1>8

\* task_start moves a request from the queue to the INCRs.
LEMMA TaskStartPlaces ==
  ASSUME AnswerInv, NEW s \in Sessions, OnTaskStart(s)
  PROVE  PlacesInv'
<1> DEFINE C == [session : Sessions, id : RequestId, kind : Kinds]
<1>1. /\ Serving(s) /\ Consume(s) /\ Head(c2s[s]).ask.word = "task_start"
      /\ UNCHANGED <<request_map, sent, s2c>>
  BY DEF OnTaskStart, client
<1>2. PICK r : r = Head(c2s[s]).id
  OBVIOUS
<1>3. /\ r \in Asked(s) \ Asked(s)' /\ r \in RequestId
      /\ \A o \in Sessions : Asked(o)' \subseteq Asked(o) /\ Once(c2s'[o], Request)
  BY <1>1, <1>2, ConsumeTakes
<1>4. PICK c \in C : c.session = s /\ c.id = r /\ incrs' = Append(incrs, c)
  <2>1. Head(c2s[s]).ask.kind \in Kinds
    BY <1>1, HeadOfC2S DEF AnswerInv, Serving
  <2> QED BY <1>2, <1>3, <2>1 DEF OnTaskStart
<1>5. incrs \in Seq(C)
  BY DEF AnswerInv, TypeOK
<1>6. \A o \in Sessions : c \in From(o) <=> o = s
  BY <1>4 DEF From
<1> HIDE DEF C
<1>7. SUFFICES ASSUME NEW o \in Sessions
      PROVE  /\ Apart(request_map[o], sent[o], Asked(o), Awaited(o), Answered(o))'
             /\ Once(c2s'[o], Request) /\ Once(incrs', From(o)) /\ Once(s2c'[o], Responses)
  BY DEF PlacesInv, From
<1>8. /\ Apart(request_map[o], sent[o], Asked(o), Awaited(o), Answered(o))
      /\ Once(incrs, From(o)) /\ Once(s2c[o], Responses) /\ Answered(o)' = Answered(o)
      /\ UNCHANGED <<request_map[o], sent[o]>>
  BY <1>1 DEF AnswerInv, PlacesInv, Answered
<1>9. o = s => r \notin Awaited(o) /\ r \notin Answered(o) /\ r \in request_map[o]
  BY <1>3, <1>8 DEF Apart
<1>10. /\ Awaited(o)' = IF o = s THEN Awaited(o) \cup {r} ELSE Awaited(o)
       /\ Once(incrs', From(o))
  <2>1. /\ Ids(Append(incrs, c), From(o)) =
             IF c \in From(o) THEN Ids(incrs, From(o)) \cup {c.id} ELSE Ids(incrs, From(o))
        /\ Once(incrs, From(o)) /\ (c \in From(o) => c.id \notin Ids(incrs, From(o)))
             => Once(Append(incrs, c), From(o))
    BY <1>5, IdsOfAppend
  <2> QED BY <1>4, <1>6, <1>8, <1>9, <2>1 DEF Awaited, From
<1>11. CASE o = s
  BY <1>1, <1>3, <1>8, <1>9, <1>10, <1>11 DEF Apart
<1>12. CASE o # s
  BY <1>1, <1>3, <1>8, <1>10, <1>12 DEF Apart
<1> QED BY <1>11, <1>12

\* The request r of s is answered: it has left another place.
LEMMA AnswerPlaces ==
  ASSUME AnswerInv, UNCHANGED <<sent, request_map>>, NEW s \in Sessions,
         NEW told \in [Sessions -> Seq(Message)],
         \A o \in Sessions : /\ Ids(told[o], Responses) \subseteq Answered(o)
                             /\ Once(told[o], Responses),
         NEW m \in Message, s2c' = Sent(told, s, m),
         \A o \in Sessions : /\ Asked(o)' \subseteq Asked(o) /\ Once(c2s'[o], Request)
                             /\ Awaited(o)' \subseteq Awaited(o) /\ Once(incrs', From(o)),
         m.type = "response" => \/ m.id \in Asked(s) \ Asked(s)'
                                \/ m.id \in Awaited(s) \ Awaited(s)'
  PROVE  PlacesInv'
<1> SUFFICES ASSUME NEW o \in Sessions
             PROVE  /\ Apart(request_map[o], sent[o], Asked(o), Awaited(o), Answered(o))'
                    /\ Once(c2s'[o], Request) /\ Once(incrs', From(o)) /\ Once(s2c'[o], Responses)
  BY DEF PlacesInv, From
<1>1. Apart(request_map[o], sent[o], Asked(o), Awaited(o), Answered(o))
  BY DEF AnswerInv, PlacesInv
<1>2. o = s /\ m.type = "response" => m.id \notin Answered(o)
  BY <1>1 DEF Apart
<1>3. o = s /\ m.type = "response" => m.id \notin Ids(told[o], Responses)
  BY <1>2
<1>4. /\ Once(s2c'[o], Responses)
      /\ Ids(s2c'[o], Responses) \subseteq
           IF o = s /\ m.type = "response" THEN Ids(told[o], Responses) \cup {m.id}
           ELSE Ids(told[o], Responses)
  BY <1>3, SentAnswers
<1>5. Answered(o)' \subseteq
        IF o = s /\ m.type = "response" THEN Answered(o) \cup {m.id} ELSE Answered(o)
  BY <1>4 DEF Answered, Responses
<1>6. CASE o = s /\ m.type = "response"
  BY <1>1, <1>4, <1>5, <1>6 DEF Apart
<1>7. CASE ~(o = s /\ m.type = "response")
  BY <1>1, <1>4, <1>5, <1>7 DEF Apart
<1> QED BY <1>6, <1>7

\* The reply of Redis turns a request into its answer.
LEMMA IncrReplyPlaces ==
  ASSUME AnswerInv, IncrReply
  PROVE  PlacesInv'
<1> DEFINE C == [session : Sessions, id : RequestId, kind : Kinds]
<1>1. incrs \in Seq(C) /\ incrs # << >> /\ incrs' = Tail(incrs)
  BY DEF AnswerInv, TypeOK, IncrReply
<1>2. PICK c \in C : c = Head(incrs)
  <2> HIDE DEF C
  <2> QED BY <1>1
<1>3. c.session \in Sessions /\ c \in From(c.session) /\ c.id \in RequestId
  BY <1>2 DEF From
<1> HIDE DEF C
<1>4. ASSUME NEW o \in Sessions
      PROVE  /\ Awaited(o)' \subseteq Awaited(o) /\ Once(incrs', From(o))
             /\ c \in From(o) => c.id \in Awaited(o) \ Awaited(o)'
  <2>1. Once(incrs, From(o))
    BY DEF AnswerInv, PlacesInv
  <2>2. /\ Ids(Tail(incrs), From(o)) \subseteq Ids(incrs, From(o)) /\ Once(Tail(incrs), From(o))
        /\ c \in From(o) => c.id \in Ids(incrs, From(o)) \ Ids(Tail(incrs), From(o))
    BY <1>1, <1>2, <2>1, IdsOfTail
  <2> QED BY <1>1, <2>2 DEF Awaited, From
<1>5. PICK m \in Message : m = Response(c.id, "accepted", counter + 1)
  <2>1. counter + 1 \in Ticket
    BY RpcAssumption DEF AnswerInv, TypeOK, IncrReply, Ticket
  <2> QED BY <1>3, <2>1, MessagesAreMessages
<1>6. s2c' = Sent(s2c, c.session, m) /\ m.id = c.id /\ UNCHANGED <<c2s, sent, request_map>>
  BY <1>2, <1>5 DEF IncrReply, client, Response
<1>7. \A o \in Sessions : /\ Asked(o)' \subseteq Asked(o) /\ Once(c2s'[o], Request)
                          /\ Ids(s2c[o], Responses) \subseteq Answered(o)
                          /\ Once(s2c[o], Responses)
  BY <1>6 DEF Asked, Answered, AnswerInv, PlacesInv
<1>8. s2c \in [Sessions -> Seq(Message)]
  BY DEF AnswerInv, TypeOK
<1>9. m.id \in Awaited(c.session) \ Awaited(c.session)'
  BY <1>3, <1>4, <1>6
<1> QED BY <1>3, <1>4, <1>6, <1>7, <1>8, <1>9, AnswerPlaces

\* A kill answers its request; what it tells the owner of the task is an event.
LEMMA KillPlaces ==
  ASSUME AnswerInv, NEW s \in Sessions, OnKill(s)
  PROVE  PlacesInv'
<1> DEFINE r == Head(c2s[s]).id
<1> DEFINE t == Head(c2s[s]).ask.ticket
<1> DEFINE told == IF t \in Cancellable
                   THEN Sent(s2c, ticket_map[t], Event("failure", t)) ELSE s2c
<1>1. /\ Serving(s) /\ Consume(s) /\ t \in Ticket /\ r \in RequestId
      /\ UNCHANGED <<incrs, sent, request_map>>
  <2>1. Serving(s) /\ Consume(s) /\ UNCHANGED <<incrs, sent, request_map>>
        /\ Head(c2s[s]).ask.word = "kill"
    BY DEF OnKill, client
  <2> QED BY <2>1, HeadOfC2S DEF AnswerInv, Serving
<1>2. /\ r \in Asked(s) \ Asked(s)'
      /\ \A o \in Sessions : Asked(o)' \subseteq Asked(o) /\ Once(c2s'[o], Request)
  BY <1>1, ConsumeTakes
<1>3. \E n \in {"killed", "not_running"} : s2c' = Sent(told, s, Response(r, n, t))
  BY DEF OnKill
<1>4. PICK m \in Message : s2c' = Sent(told, s, m) /\ m.id = r
  BY <1>1, <1>3, MessagesAreMessages DEF Response
<1>5. PICK e \in Message : e = Event("failure", t) /\ e.type = "event"
  <2> HIDE DEF r, told
  <2>1. Event("failure", t) \in Message
    BY <1>1, MessagesAreMessages DEF Outcomes
  <2> QED BY <2>1 DEF Event
<1>6. s2c \in [Sessions -> Seq(Message)] /\ \A o \in Sessions : Once(s2c[o], Responses)
  BY DEF AnswerInv, PlacesInv, TypeOK
<1>7. told \in [Sessions -> Seq(Message)]
  BY <1>5, <1>6, SentType DEF AnswerInv
<1>8. ASSUME NEW o \in Sessions
      PROVE  Ids(told[o], Responses) \subseteq Answered(o) /\ Once(told[o], Responses)
  <2>1. CASE t \in Cancellable
    <3>1. told = Sent(s2c, ticket_map[t], e)
      BY <1>5, <2>1
    <3>2. /\ Once(Sent(s2c, ticket_map[t], e)[o], Responses)
          /\ Ids(Sent(s2c, ticket_map[t], e)[o], Responses) \subseteq Ids(s2c[o], Responses)
      <4> HIDE DEF told, r, t
      <4> QED BY <1>5, <1>6, SentAnswers
    <3> HIDE DEF told
    <3> QED BY <3>1, <3>2 DEF Answered
  <2>2. CASE t \notin Cancellable
    BY <1>6, <2>2 DEF Answered
  <2> QED BY <2>1, <2>2
<1>9. \A o \in Sessions : Awaited(o)' \subseteq Awaited(o) /\ Once(incrs', From(o))
  BY <1>1 DEF Awaited, From, AnswerInv, PlacesInv
<1> HIDE DEF told, r, t
<1> QED BY <1>1, <1>2, <1>4, <1>7, <1>8, <1>9, AnswerPlaces

LEMMA PlacesStep == AnswerInv /\ [Next]_vars => AnswerInv'
<1> SUFFICES ASSUME AnswerInv, [Next]_vars PROVE PlacesInv'
  BY TypeStep DEF AnswerInv
<1>0. /\ s2c \in [Sessions -> Seq(Message)]
      /\ \A o \in Sessions : /\ Once(c2s[o], Request) /\ Once(incrs, From(o))
                             /\ Once(s2c[o], Responses)
  BY DEF AnswerInv, PlacesInv, TypeOK
<1>a. ASSUME UNCHANGED <<sent, request_map>>, incrs' \in {incrs, << >>},
             \A o \in Sessions : /\ Asked(o)' \subseteq Asked(o) /\ Once(c2s'[o], Request)
                                 /\ s2c'[o] \in {s2c[o], << >>}
      PROVE  PlacesInv'
  <2>1. ASSUME NEW o \in Sessions
        PROVE  /\ Awaited(o)' \subseteq Awaited(o) /\ Once(incrs', From(o))
               /\ Answered(o)' \subseteq Answered(o) /\ Once(s2c'[o], Responses)
    <3>1. /\ Ids(incrs', From(o)) \subseteq Ids(incrs, From(o)) /\ Once(incrs', From(o))
          /\ Ids(s2c'[o], Responses) \subseteq Ids(s2c[o], Responses) /\ Once(s2c'[o], Responses)
      BY <1>0, <1>a, IdsOfEmpty
    <3> QED BY <3>1 DEF Awaited, Answered, From, Responses
  <2> QED BY <1>a, <2>1, FewerApart DEF AnswerInv
<1>b. ASSUME UNCHANGED <<sent, request_map, c2s>>, incrs' \in {incrs, << >>},
             \A o \in Sessions : s2c'[o] \in {s2c[o], << >>}
      PROVE  PlacesInv'
  BY <1>0, <1>a, <1>b DEF Asked
<1>c. ASSUME UNCHANGED <<sent, request_map, incrs>>,
             \A o \in Sessions : c2s'[o] \in {c2s[o], << >>} /\ s2c'[o] \in {s2c[o], << >>}
      PROVE  PlacesInv'
  <2>1. ASSUME NEW o \in Sessions PROVE Asked(o)' \subseteq Asked(o) /\ Once(c2s'[o], Request)
    <3>1. Ids(c2s'[o], Request) \subseteq Ids(c2s[o], Request) /\ Once(c2s'[o], Request)
      BY <1>0, <1>c, IdsOfEmpty
    <3> QED BY <3>1 DEF Asked
  <2> QED BY <1>a, <1>c, <2>1
<1>d. ASSUME UNCHANGED <<sent, request_map, incrs, c2s>>, NEW s, NEW t \in Ticket,
             NEW name \in Outcomes \cup {"progress"}, s2c' = Sent(s2c, s, Event(name, t))
      PROVE  PlacesInv'
  <2>1. PICK e \in Message : e = Event(name, t) /\ e.type = "event"
    <3>1. Event(name, t) \in Message
      BY DEF Event, Message
    <3> QED BY <3>1 DEF Event
  <2>2. ASSUME NEW o \in Sessions
        PROVE  Answered(o)' \subseteq Answered(o) /\ Once(s2c'[o], Responses)
    <3>1. /\ Once(Sent(s2c, s, e)[o], Responses)
          /\ Ids(Sent(s2c, s, e)[o], Responses) \subseteq Ids(s2c[o], Responses)
      BY <1>0, <2>1, SentAnswers
    <3> QED BY <1>d, <2>1, <3>1 DEF Answered, Responses
  <2>3. \A o \in Sessions : /\ Asked(o)' \subseteq Asked(o) /\ Once(c2s'[o], Request)
                            /\ Awaited(o)' \subseteq Awaited(o) /\ Once(incrs', From(o))
    BY <1>0, <1>d DEF Asked, Awaited, From
  <2> QED BY <1>d, <2>2, <2>3, FewerApart DEF AnswerInv
<1>1. ASSUME NEW s \in Sessions, Connect(s) \/ Shutdown(s) PROVE PlacesInv'
  BY <1>0, <1>b, <1>1 DEF Connect, Shutdown, server, client
<1>2. ASSUME NEW s \in Sessions, Disconnect(s) PROVE PlacesInv'
  <2>1. c2s \in [Sessions -> Seq(Request)]
    BY DEF AnswerInv, TypeOK
  <2> QED BY <1>0, <1>c, <1>2, <2>1 DEF Disconnect, client
<1>3. ASSUME Restart PROVE PlacesInv'
  <2>1. /\ incrs' = << >> /\ UNCHANGED <<sent, request_map>>
        /\ \A o \in Sessions : c2s'[o] = << >> /\ s2c'[o] = << >>
    BY <1>3 DEF Restart, LoseIncrs, client
  <2>2. ASSUME NEW o \in Sessions PROVE Asked(o)' \subseteq Asked(o) /\ Once(c2s'[o], Request)
    BY <2>1, IdsOfEmpty DEF Asked
  <2> QED BY <1>a, <2>1, <2>2
<1>4. ASSUME RedisLost \/ UNCHANGED vars PROVE PlacesInv'
  BY <1>b, <1>4 DEF RedisLost, LoseIncrs, vars, server, client
<1>5. ASSUME NEW s \in Sessions, OnStdin(s) PROVE PlacesInv'
  <2>1. Serving(s) /\ Consume(s) /\ UNCHANGED <<sent, request_map, incrs, s2c>>
    BY <1>5 DEF OnStdin, server, client
  <2> QED BY <1>a, <2>1, ConsumeTakes
<1>6. ASSUME NEW s \in Sessions, OnQuery(s) PROVE PlacesInv'
  <2>1. Serving(s) /\ Consume(s) /\ UNCHANGED <<sent, request_map, incrs>>
    BY <1>6 DEF OnQuery, server, client
  <2>2. /\ Head(c2s[s]).id \in Asked(s) \ Asked(s)' /\ Head(c2s[s]).id \in RequestId
        /\ \A o \in Sessions : Asked(o)' \subseteq Asked(o) /\ Once(c2s'[o], Request)
    BY <2>1, ConsumeTakes
  <2>3. PICK m \in Message : m = Response(Head(c2s[s]).id, "answer", 0)
    BY <2>2 DEF Response, Message
  <2>4. s2c' = Sent(s2c, s, m) /\ m.id = Head(c2s[s]).id
    BY <1>6, <2>3 DEF OnQuery, Response
  <2>5. \A o \in Sessions : /\ Awaited(o)' \subseteq Awaited(o) /\ Once(incrs', From(o))
                            /\ Ids(s2c[o], Responses) \subseteq Answered(o)
    BY <1>0, <2>1 DEF Awaited, Answered, From
  <2> QED BY <1>0, <2>1, <2>2, <2>4, <2>5, AnswerPlaces
<1>7. ASSUME NEW t \in Ticket, DoStart(t) PROVE PlacesInv'
  <2>1. /\ UNCHANGED <<sent, request_map, incrs, c2s>>
        /\ UNCHANGED s2c \/ s2c' = Sent(s2c, ticket_map[t], Event("failure", t))
    BY <1>7 DEF DoStart, StartUnknown, StartRaises, StartSyncFail, StartAsync, Report, client
  <2>2. "failure" \in Outcomes \cup {"progress"}
    BY DEF Outcomes
  <2> QED BY <1>b, <1>d, <2>1, <2>2
<1>8. ASSUME NEW t \in Ticket, Progress(t) PROVE PlacesInv'
  <2>1. /\ UNCHANGED <<sent, request_map, incrs, c2s>>
        /\ s2c' = Sent(s2c, ticket_map[t], Event("progress", t))
    BY <1>8 DEF Progress, server, client
  <2> QED BY <1>d, <2>1
<1>9. ASSUME NEW t \in Ticket, NEW o \in Outcomes, TaskEnds(t, o) PROVE PlacesInv'
  <2>1. /\ UNCHANGED <<sent, request_map, incrs, c2s>>
        /\ UNCHANGED s2c \/ s2c' = Sent(s2c, ticket_map[t], Event(o, t))
    BY <1>9 DEF TaskEnds, Report, client
  <2> QED BY <1>b, <1>d, <2>1
<1> QED BY <1>1, <1>2, <1>3, <1>4, <1>5, <1>6, <1>7, <1>8, <1>9, CallPlaces, ReceivePlaces,
        TaskStartPlaces, IncrReplyPlaces, KillPlaces DEF Next

\* A request is answered at most once, and only while the client waits for it
\* (remote.py:368 finds its Deferred in request_map, and fires it once), whatever
\* restarts, Redis failures and lost connections come in between.
THEOREM AlwaysAnsweredOnce == Spec => []AnsweredOnce
<1>1. Spec => []AnswerInv
  BY PlacesInit, PlacesStep, PTL DEF Spec
<1>2. AnswerInv => AnsweredOnce
  <2> SUFFICES ASSUME AnswerInv, NEW s \in Sessions, NEW i \in 1 .. Len(s2c[s]),
                      s2c[s][i].type = "response"
      PROVE  /\ s2c[s][i].id \in request_map[s]
             /\ \A j \in 1 .. i - 1 : s2c[s][j].id # s2c[s][i].id
    BY DEF AnsweredOnce
  <2>1. /\ Apart(request_map[s], sent[s], Asked(s), Awaited(s), Answered(s))
        /\ Once(s2c[s], Responses) /\ s2c[s] \in Seq(Message)
    BY DEF AnswerInv, PlacesInv, TypeOK
  <2>2. /\ Len(s2c[s]) \in Nat /\ \A j \in 1 .. Len(s2c[s]) : s2c[s][j] \in Message
    BY <2>1
  <2>3. i \in At(s2c[s], Responses)
    BY <2>2 DEF At, Responses
  <2>4. s2c[s][i].id \in request_map[s]
    BY <2>1, <2>3 DEF Apart, Answered, Ids
  <2>5. ASSUME NEW j \in 1 .. i - 1, s2c[s][j].id = s2c[s][i].id PROVE FALSE
    <3>1. j \in 1 .. Len(s2c[s]) /\ j # i
      BY <2>2
    <3>2. s2c[s][j].type = "response"
      BY <2>2, <2>3, <2>5, <3>1 DEF Message, Responses, At, RequestId
    <3>3. j \in At(s2c[s], Responses)
      BY <2>2, <3>1, <3>2 DEF At, Responses
    <3> QED BY <2>1, <2>3, <2>5, <3>1, <3>3 DEF Once
  <2> QED BY <2>4, <2>5
<1> QED BY <1>1, <1>2, PTL

-----------------------------------------------------------------------------
(* The answer to a kill.                                                   *)

\* In one channel: the answer that t was killed comes after the outcome of t.
AcksLast(view, q) ==
  \A i \in 1 .. Len(q) :
    q[i].name = "killed" /\ Known(view, q, i - 1, q[i].ticket)
      => Ended(view, q, i - 1, q[i].ticket)

LEMMA AppendAck ==
  ASSUME NEW view, NEW q \in Seq(Message), NEW m \in Message, AcksLast(view, q),
         m.name = "killed" /\ Known(view, q, Len(q), m.ticket)
           => Ended(view, q, Len(q), m.ticket)
  PROVE  AcksLast(view, Append(q, m))
<1> DEFINE r == Append(q, m)
<1>1. /\ Len(r) = Len(q) + 1 /\ r[Len(q) + 1] = m /\ Len(q) \in Nat
      /\ \A i \in 1 .. Len(q) : r[i] = q[i]
      /\ \A n \in 0 .. Len(q) : \A t :
           /\ Known(view, r, n, t) <=> Known(view, q, n, t)
           /\ Ended(view, r, n, t) <=> Ended(view, q, n, t)
  BY AppendKeeps
<1> HIDE DEF r
<1>2. SUFFICES ASSUME NEW i \in 1 .. Len(r), r[i].name = "killed",
                      Known(view, r, i - 1, r[i].ticket)
      PROVE  Ended(view, r, i - 1, r[i].ticket)
  BY DEF AcksLast, r
<1>3. i - 1 \in 0 .. Len(q)
  BY <1>1
<1>4. CASE i = Len(q) + 1
  <2>1. r[i] = m /\ i - 1 = Len(q)
    BY <1>1, <1>4
  <2> QED BY <1>1, <1>2, <1>3, <2>1
<1>5. CASE i # Len(q) + 1
  <2>1. i \in 1 .. Len(q) /\ r[i] = q[i]
    BY <1>1, <1>5
  <2> QED BY <1>1, <1>2, <1>3, <2>1 DEF AcksLast
<1> QED BY <1>4, <1>5

LEMMA TailAck ==
  ASSUME NEW view \in [Ticket -> TaskView], NEW q \in Seq(Message), q # << >>,
         InOrder(view, q), AcksLast(view, q)
  PROVE  AcksLast(TaskAfter(view, Head(q)), Tail(q))
<1> DEFINE r == Tail(q)
<1> DEFINE w == TaskAfter(view, Head(q))
<1>1. /\ Len(q) \in Nat /\ Len(r) = Len(q) - 1
      /\ \A i \in 1 .. Len(r) : r[i] = q[i + 1] /\ r[i] \in Message
  OBVIOUS
<1>2. \A n \in 0 .. Len(r), t \in Ticket : /\ Known(w, r, n, t) <=> Known(view, q, n + 1, t)
                                           /\ Ended(w, r, n, t) <=> Ended(view, q, n + 1, t)
  BY TailMoves
<1> HIDE DEF r, w
<1>3. SUFFICES ASSUME NEW i \in 1 .. Len(r), r[i].name = "killed",
                      Known(w, r, i - 1, r[i].ticket)
      PROVE  Ended(w, r, i - 1, r[i].ticket)
  BY DEF AcksLast, r, w
<1>4. /\ i - 1 \in 0 .. Len(r) /\ (i - 1) + 1 = i /\ i + 1 \in 1 .. Len(q) /\ (i + 1) - 1 = i
      /\ r[i] = q[i + 1]
  BY <1>1
<1>5. r[i].ticket \in Ticket
  BY <1>1, <1>3 DEF Message, Outcomes
<1>6. Known(view, q, i, r[i].ticket) => Ended(view, q, i, r[i].ticket)
  BY <1>3, <1>4 DEF AcksLast
<1> QED BY <1>2, <1>3, <1>4, <1>5, <1>6

\* The client that knows an owned ticket is its owner.
OwnersKnow(chan, tm) ==
  \A s \in Sessions, t \in Ticket :
    tm[t] # NoSession /\ Knows(chan, s, t) => tm[t] = s

\* A task that failed while it was started is still listed, and its owner has
\* the outcome or has left.
RelicsTold(chan, running) ==
  \A s \in Sessions, t \in Ticket :
    conn[s] = "open" /\ t \in running /\ kind[t] = "syncfail" /\ Knows(chan, s, t)
      => HasOutcome(chan, s, t)

AllAcksLast(chan) == \A s \in Sessions : AcksLast(task_map[s], chan[s])

KillInv ==
  /\ ChannelInv
  /\ OwnersKnow(s2c, ticket_map) /\ RelicsTold(s2c, tasks_running) /\ AllAcksLast(s2c)

\* Sending anything but a ticket teaches nobody a ticket and takes no outcome back.
LEMMA SentTells ==
  ASSUME NEW chan \in [Sessions -> Seq(Message)], NEW s, NEW m \in Message,
         m.name # "accepted", AllAcksLast(chan),
         s \in Sessions /\ conn[s] = "open" /\ m.name = "killed" /\ Knows(chan, s, m.ticket)
           => HasOutcome(chan, s, m.ticket)
  PROVE  /\ \A o \in Sessions, t \in Ticket :
              /\ Knows(Sent(chan, s, m), o, t) <=> Knows(chan, o, t)
              /\ HasOutcome(chan, o, t) => HasOutcome(Sent(chan, s, m), o, t)
              /\ o = s /\ conn[s] = "open" /\ m.name \in Outcomes /\ m.ticket = t
                   => HasOutcome(Sent(chan, s, m), o, t)
         /\ AllAcksLast(Sent(chan, s, m))
<1>1. CASE ~(s \in Sessions /\ conn[s] = "open")
  <2>1. Sent(chan, s, m) = chan
    BY <1>1 DEF Sent
  <2> QED BY <1>1, <2>1
<1>2. CASE s \in Sessions /\ conn[s] = "open"
  <2> DEFINE new == Sent(chan, s, m)
  <2>1. /\ new[s] = Append(chan[s], m) /\ \A o \in Sessions \ {s} : new[o] = chan[o]
        /\ chan[s] \in Seq(Message)
    BY <1>2 DEF Sent
  <2> HIDE DEF new
  <2>2. AcksLast(task_map[s], new[s])
    BY <1>2, <2>1, AppendAck DEF AllAcksLast, Knows, HasOutcome
  <2>3. AllAcksLast(new)
    BY <2>1, <2>2 DEF AllAcksLast
  <2>4. ASSUME NEW o \in Sessions, NEW t \in Ticket
        PROVE  /\ Knows(new, o, t) <=> Knows(chan, o, t)
               /\ HasOutcome(chan, o, t) => HasOutcome(new, o, t)
               /\ o = s /\ m.name \in Outcomes /\ m.ticket = t => HasOutcome(new, o, t)
    <3>1. CASE o = s
      <4>1. /\ Known(task_map[s], new[s], Len(new[s]), t)
                 <=> Known(task_map[s], chan[s], Len(chan[s]), t)
            /\ Ended(task_map[s], new[s], Len(new[s]), t)
                 <=> Ended(task_map[s], chan[s], Len(chan[s]), t) \/ (m.name \in Outcomes /\ m.ticket = t)
        BY <2>1, AppendAdds
      <4> QED BY <3>1, <4>1 DEF Knows, HasOutcome
    <3>2. CASE o # s
      BY <2>1, <3>2 DEF Knows, HasOutcome
    <3> QED BY <3>1, <3>2
  <2> QED BY <2>3, <2>4 DEF new
<1> QED BY <1>1, <1>2

LEMMA KillInit == Init => KillInv
<1> SUFFICES ASSUME Init
    PROVE OwnersKnow(s2c, ticket_map) /\ RelicsTold(s2c, tasks_running) /\ AllAcksLast(s2c)
  BY ChannelInit DEF KillInv
<1>1. /\ \A t \in Ticket : ticket_map[t] = NoSession
      /\ tasks_running = {} /\ \A s \in Sessions : s2c[s] = << >>
  BY DEF Init, ServerIdle
<1> QED BY <1>1 DEF OwnersKnow, RelicsTold, AllAcksLast, AcksLast

\* No client learns of a ticket; who stays keeps the outcomes; owners are forgotten
\* at most; a task that becomes a relic has been reported.
LEMMA NobodyLearns ==
  ASSUME KillInv,
         \A s \in Sessions, t \in Ticket :
           /\ Knows(s2c, s, t)' => Knows(s2c, s, t)
           /\ conn'[s] = "open" /\ Knows(s2c, s, t)' =>
                conn[s] = "open" /\ (HasOutcome(s2c, s, t) => HasOutcome(s2c, s, t)'),
         \A t \in Ticket : ticket_map'[t] \in {ticket_map[t], NoSession},
         \A t \in Ticket : t \in tasks_running' /\ kind'[t] = "syncfail" =>
           \/ t \in tasks_running /\ kind[t] = "syncfail"
           \/ \A s \in Sessions : conn'[s] = "open" /\ Knows(s2c, s, t)'
                                    => HasOutcome(s2c, s, t)'
  PROVE  OwnersKnow(s2c, ticket_map)' /\ RelicsTold(s2c, tasks_running)'
<1>1. OwnersKnow(s2c, ticket_map)'
  <2> SUFFICES ASSUME NEW s \in Sessions, NEW t \in Ticket, ticket_map'[t] # NoSession,
                      Knows(s2c, s, t)'
      PROVE  ticket_map'[t] = s
    BY DEF OwnersKnow, Knows
  <2> QED BY DEF KillInv, OwnersKnow
<1>2. RelicsTold(s2c, tasks_running)'
  <2> SUFFICES ASSUME NEW s \in Sessions, NEW t \in Ticket, conn'[s] = "open",
                      t \in tasks_running', kind'[t] = "syncfail", Knows(s2c, s, t)'
      PROVE  HasOutcome(s2c, s, t)'
    BY DEF RelicsTold, Knows, HasOutcome
  <2> QED BY DEF KillInv, RelicsTold
<1> QED BY <1>1, <1>2

\* The client takes a message.
LEMMA ReceiveKill ==
  ASSUME KillInv, NEW s \in Sessions, Receive(s)
  PROVE  OwnersKnow(s2c, ticket_map)' /\ RelicsTold(s2c, tasks_running)' /\ AllAcksLast(s2c)'
<1>1. /\ task_map[s] \in [Ticket -> TaskView] /\ s2c[s] \in Seq(Message)
      /\ s2c[s] # << >> /\ InOrder(task_map[s], s2c[s]) /\ AcksLast(task_map[s], s2c[s])
  BY DEF KillInv, ChannelInv, TablesInv, TypeOK, Receive, ChannelsSuit, AllAcksLast
<1>2. /\ s2c'[s] = Tail(s2c[s]) /\ task_map'[s] = TaskAfter(task_map[s], Head(s2c[s]))
      /\ \A o \in Sessions \ {s} : s2c'[o] = s2c[o] /\ task_map'[o] = task_map[o]
      /\ UNCHANGED <<conn, ticket_map, tasks_running, kind>> /\ conn[s] = "open"
  BY DEF KillInv, ChannelInv, TablesInv, TypeOK, Receive, server
<1>3. ASSUME NEW o \in Sessions, NEW t \in Ticket
      PROVE  /\ Knows(s2c, o, t)' <=> Knows(s2c, o, t)
             /\ HasOutcome(s2c, o, t)' <=> HasOutcome(s2c, o, t)
  <2>1. CASE o = s
    <3>1. Len(Tail(s2c[s])) \in 0 .. Len(Tail(s2c[s])) /\ Len(Tail(s2c[s])) + 1 = Len(s2c[s])
      BY <1>1
    <3> QED BY <1>1, <1>2, <2>1, <3>1, TailMoves DEF Knows, HasOutcome
  <2>2. CASE o # s
    BY <1>2, <2>2 DEF Knows, HasOutcome
  <2> QED BY <2>1, <2>2
<1>4. OwnersKnow(s2c, ticket_map)' /\ RelicsTold(s2c, tasks_running)'
  BY <1>2, <1>3, NobodyLearns
<1>5. AcksLast(task_map'[s], s2c'[s])
  BY <1>1, <1>2, TailAck
<1>6. \A o \in Sessions : AcksLast(task_map'[o], s2c'[o])
  BY <1>2, <1>5 DEF KillInv, AllAcksLast
<1>7. AllAcksLast(s2c)'
  BY <1>6 DEF AllAcksLast
<1> QED BY <1>4, <1>7

\* The ticket just handed out is known to its owner alone, and not yet started.
LEMMA IncrReplyKill ==
  ASSUME KillInv, IncrReply
  PROVE  OwnersKnow(s2c, ticket_map)' /\ RelicsTold(s2c, tasks_running)' /\ AllAcksLast(s2c)'
<1> DEFINE c == Head(incrs)
<1>0. TypeOK /\ TicketsInOrder /\ ChannelsSuit(s2c, ticket_map, Live)
  BY DEF KillInv, ChannelInv, TablesInv
<1>1. PICK t \in Ticket : t = counter + 1 /\ t > counter
  BY <1>0, RpcAssumption DEF IncrReply, Ticket, TypeOK
<1>2. c.session \in Sessions /\ c.id \in RequestId
  <2> DEFINE C == [session : Sessions, id : RequestId, kind : Kinds]
  <2>1. incrs \in Seq(C) /\ incrs # << >>
    BY <1>0 DEF TypeOK, IncrReply
  <2>2. c \in C
    <3> HIDE DEF C
    <3> QED BY <2>1
  <2> QED BY <2>2
<1>3. PICK s \in Sessions : s = c.session
  BY <1>2
<1>4. PICK m \in Message : m = Response(c.id, "accepted", t)
  BY <1>2, MessagesAreMessages
<1>5. /\ ticket_map' = [ticket_map EXCEPT ![t] = s] /\ s2c' = Sent(s2c, s, m)
      /\ kind' = [kind EXCEPT ![t] = c.kind]
      /\ UNCHANGED <<conn, task_map, tasks_running>>
  BY <1>1, <1>3, <1>4 DEF IncrReply, client
<1>6. m.name = "accepted" /\ m.ticket = t /\ m.name # "killed" /\ m.name \notin Outcomes
  BY <1>4 DEF Response, Outcomes
<1> HIDE DEF c
<1>7. /\ t \notin tasks_running /\ \A o \in Sessions : ~Knows(s2c, o, t)
      /\ ticket_map'[t] = s
      /\ \A u \in Ticket \ {t} : ticket_map'[u] = ticket_map[u] /\ kind'[u] = kind[u]
  BY <1>0, <1>1, <1>5 DEF ChannelsSuit, TicketsInOrder, TypeOK
<1>8. ASSUME NEW o \in Sessions
      PROVE  /\ AcksLast(task_map[o], s2c'[o])
             /\ \A u \in Ticket :
                  /\ Knows(s2c, o, u)' => Knows(s2c, o, u) \/ (o = s /\ u = t)
                  /\ HasOutcome(s2c, o, u)' <=> HasOutcome(s2c, o, u)
  <2>0. AcksLast(task_map[o], s2c[o])
    BY DEF KillInv, AllAcksLast
  <2>1. CASE o = s /\ conn[s] = "open"
    <3>1. s2c'[o] = Append(s2c[o], m) /\ s2c[o] \in Seq(Message)
      BY <1>0, <1>5, <2>1 DEF Sent, TypeOK
    <3>2. AcksLast(task_map[o], s2c'[o])
      BY <1>6, <2>0, <3>1, AppendAck
    <3>3. ASSUME NEW u \in Ticket
          PROVE  /\ Knows(s2c, o, u)' => Knows(s2c, o, u) \/ (o = s /\ u = t)
                 /\ HasOutcome(s2c, o, u)' <=> HasOutcome(s2c, o, u)
      <4>1. /\ Known(task_map[o], s2c'[o], Len(s2c'[o]), u)
                 <=> Known(task_map[o], s2c[o], Len(s2c[o]), u) \/ (m.name = "accepted" /\ m.ticket = u)
            /\ Ended(task_map[o], s2c'[o], Len(s2c'[o]), u)
                 <=> Ended(task_map[o], s2c[o], Len(s2c[o]), u) \/ (m.name \in Outcomes /\ m.ticket = u)
        BY <3>1, AppendAdds
      <4> QED BY <1>5, <1>6, <2>1, <4>1 DEF Knows, HasOutcome
    <3> QED BY <3>2, <3>3
  <2>2. CASE ~(o = s /\ conn[s] = "open")
    <3>1. s2c'[o] = s2c[o]
      BY <1>0, <1>5, <2>2 DEF Sent, TypeOK
    <3> QED BY <1>5, <2>0, <3>1 DEF Knows, HasOutcome
  <2> QED BY <2>1, <2>2
<1>9. OwnersKnow(s2c, ticket_map)'
  <2> SUFFICES ASSUME NEW o \in Sessions, NEW u \in Ticket, ticket_map'[u] # NoSession,
                      Knows(s2c, o, u)'
      PROVE  ticket_map'[u] = o
    BY DEF OwnersKnow, Knows
  <2>1. CASE u = t
    BY <1>7, <1>8, <2>1
  <2>2. CASE u # t
    BY <1>7, <1>8, <2>2 DEF KillInv, OwnersKnow
  <2> QED BY <2>1, <2>2
<1>10. RelicsTold(s2c, tasks_running)'
  <2> SUFFICES ASSUME NEW o \in Sessions, NEW u \in Ticket, conn'[o] = "open",
                      u \in tasks_running', kind'[u] = "syncfail", Knows(s2c, o, u)'
      PROVE  HasOutcome(s2c, o, u)'
    BY DEF RelicsTold, Knows, HasOutcome
  <2>1. u # t
    BY <1>5, <1>7
  <2> QED BY <1>5, <1>7, <1>8, <2>1 DEF KillInv, RelicsTold
<1>11. AllAcksLast(s2c)'
  BY <1>5, <1>8 DEF AllAcksLast
<1> QED BY <1>9, <1>10, <1>11

\* A listed task is cancelled, and its owner told, before the killer is answered;
\* or its owner has been told that it could not be started.
LEMMA KillKill ==
  ASSUME KillInv, NEW s \in Sessions, OnKill(s)
  PROVE  OwnersKnow(s2c, ticket_map)' /\ RelicsTold(s2c, tasks_running)' /\ AllAcksLast(s2c)'
<1> DEFINE r == Head(c2s[s]).id
<1>0. /\ TypeOK /\ TablesAgree /\ s2c \in [Sessions -> Seq(Message)] /\ AllAcksLast(s2c)
      /\ OwnersKnow(s2c, ticket_map) /\ RelicsTold(s2c, tasks_running)
      /\ UNCHANGED <<conn, kind, task_map>>
  BY DEF KillInv, ChannelInv, TablesInv, TypeOK, OnKill, client
<1>1. r \in RequestId /\ Head(c2s[s]).ask.ticket \in Ticket
  BY <1>0, HeadOfC2S DEF OnKill, Serving
<1>2. PICK t \in Ticket : t = Head(c2s[s]).ask.ticket
  BY <1>1
<1> DEFINE told == IF t \in Cancellable
                   THEN Sent(s2c, ticket_map[t], Event("failure", t)) ELSE s2c
<1>3. PICK n \in {"killed", "not_running"} :
        /\ s2c' = Sent(told, s, Response(r, n, t))
        /\ n = "killed" => t \in tasks_running
  BY <1>2 DEF OnKill
<1>4. PICK m \in Message : m = Response(r, n, t)
  BY <1>1, MessagesAreMessages
<1>5. PICK e \in Message : e = Event("failure", t)
  <2>1. Event("failure", t) \in Message
    BY <1>1, MessagesAreMessages DEF Outcomes
  <2> QED BY <2>1
<1>6. /\ \A u \in Ticket : ticket_map'[u] \in {ticket_map[u], NoSession}
      /\ tasks_running' \subseteq tasks_running
  BY <1>2 DEF OnKill, Cancel, Forget
<1>7. /\ told \in [Sessions -> Seq(Message)] /\ AllAcksLast(told)
      /\ \A o \in Sessions, u \in Ticket :
           /\ Knows(told, o, u) <=> Knows(s2c, o, u)
           /\ HasOutcome(s2c, o, u) => HasOutcome(told, o, u)
           /\ t \in Cancellable /\ ticket_map[t] = o /\ conn[o] = "open" /\ u = t
                => HasOutcome(told, o, u)
  <2>1. CASE t \in Cancellable
    <3>1. told = Sent(s2c, ticket_map[t], e)
      BY <1>5, <2>1
    <3>2. /\ e.name \notin {"accepted", "killed"} /\ e.name \in Outcomes /\ e.ticket = t
      BY <1>5 DEF Event, Outcomes
    <3> HIDE DEF told
    <3>3. told \in [Sessions -> Seq(Message)]
      BY <1>0, <3>1, SentType
    <3>4. PICK k : k = ticket_map[t]
      OBVIOUS
    <3>5. /\ \A o \in Sessions, u \in Ticket :
               /\ Knows(told, o, u) <=> Knows(s2c, o, u)
               /\ HasOutcome(s2c, o, u) => HasOutcome(told, o, u)
               /\ o = k /\ conn[k] = "open" /\ e.name \in Outcomes /\ e.ticket = u
                    => HasOutcome(told, o, u)
          /\ AllAcksLast(told)
      BY <1>0, <3>1, <3>2, <3>4, SentTells
    <3> QED BY <3>2, <3>3, <3>4, <3>5
  <2>2. CASE t \notin Cancellable
    BY <1>0, <2>2
  <2> QED BY <2>1, <2>2
<1>8. ASSUME conn[s] = "open", n = "killed", Knows(told, s, t)
      PROVE  HasOutcome(told, s, t)
  <2>1. t \in tasks_running /\ Knows(s2c, s, t)
    BY <1>3, <1>7, <1>8
  <2>2. CASE t \in Cancellable
    <3>1. ticket_map[t] # NoSession
      BY <1>0, <2>2 DEF TablesAgree, Cancellable
    <3>2. ticket_map[t] = s
      BY <1>0, <2>1, <3>1 DEF OwnersKnow
    <3> QED BY <1>7, <1>8, <2>2, <3>2
  <2>3. CASE t \notin Cancellable
    <3>1. kind[t] = "syncfail"
      BY <1>0, <2>1, <2>3 DEF TablesAgree, Cancellable
    <3> QED BY <1>0, <1>7, <1>8, <2>1, <3>1 DEF RelicsTold
  <2> QED BY <2>2, <2>3
<1> HIDE DEF told, r
<1>9. m.name = n /\ m.ticket = t /\ m.name # "accepted"
  BY <1>3, <1>4 DEF Response
<1>10. /\ \A o \in Sessions, u \in Ticket :
            /\ Knows(s2c', o, u) <=> Knows(told, o, u)
            /\ HasOutcome(told, o, u) => HasOutcome(s2c', o, u)
       /\ AllAcksLast(s2c')
  BY <1>3, <1>4, <1>7, <1>8, <1>9, SentTells
<1>11. \A o \in Sessions, u \in Ticket : /\ Knows(s2c, o, u)' <=> Knows(s2c, o, u)
                                         /\ HasOutcome(s2c, o, u) => HasOutcome(s2c, o, u)'
  BY <1>0, <1>7, <1>10 DEF Knows, HasOutcome
<1>12. OwnersKnow(s2c, ticket_map)' /\ RelicsTold(s2c, tasks_running)'
  BY <1>0, <1>6, <1>11, NobodyLearns
<1>13. AllAcksLast(s2c)'
  BY <1>0, <1>10 DEF AllAcksLast
<1> QED BY <1>12, <1>13

\* The server tells the owner of t something of t, or nothing; a task becomes a
\* relic only by failing while it is started, which its owner is told.
LEMMA EventKill ==
  ASSUME KillInv, NEW t \in Ticket, NEW name \in Outcomes \cup {"progress"},
         UNCHANGED <<conn, kind, task_map>>,
         s2c' = s2c \/ s2c' = Sent(s2c, ticket_map[t], Event(name, t)),
         \A u \in Ticket : ticket_map'[u] \in {ticket_map[u], NoSession},
         \A u \in Ticket : u \in tasks_running' /\ kind[u] = "syncfail" =>
           \/ u \in tasks_running
           \/ /\ u = t /\ s2c' = Sent(s2c, ticket_map[t], Event(name, t))
              /\ name \in Outcomes /\ ticket_map[t] # NoSession
  PROVE  OwnersKnow(s2c, ticket_map)' /\ RelicsTold(s2c, tasks_running)' /\ AllAcksLast(s2c)'
<1>1. /\ s2c \in [Sessions -> Seq(Message)] /\ AllAcksLast(s2c) /\ OwnersKnow(s2c, ticket_map)
  BY DEF KillInv, ChannelInv, TablesInv, TypeOK
<1>2. PICK e \in Message : e = Event(name, t)
  <2>1. Event(name, t) \in Message
    BY DEF Event, Message
  <2> QED BY <2>1
<1>3. e.name \notin {"accepted", "killed"} /\ e.name = name /\ e.ticket = t
  BY <1>2 DEF Event, Outcomes
<1>4. PICK k : k = ticket_map[t]
  OBVIOUS
<1>5. /\ \A o \in Sessions, u \in Ticket :
           /\ Knows(Sent(s2c, k, e), o, u) <=> Knows(s2c, o, u)
           /\ HasOutcome(s2c, o, u) => HasOutcome(Sent(s2c, k, e), o, u)
           /\ o = k /\ conn[k] = "open" /\ e.name \in Outcomes /\ e.ticket = u
                => HasOutcome(Sent(s2c, k, e), o, u)
      /\ AllAcksLast(Sent(s2c, k, e))
  BY <1>1, <1>3, SentTells
<1>6. s2c' = s2c \/ s2c' = Sent(s2c, k, e)
  BY <1>2, <1>4
<1>7. \A o \in Sessions, u \in Ticket : /\ Knows(s2c, o, u)' <=> Knows(s2c, o, u)
                                        /\ HasOutcome(s2c, o, u) => HasOutcome(s2c, o, u)'
  <2>1. \A o \in Sessions, u \in Ticket : /\ Knows(s2c', o, u) <=> Knows(s2c, o, u)
                                          /\ HasOutcome(s2c, o, u) => HasOutcome(s2c', o, u)
    BY <1>5, <1>6
  <2> QED BY <2>1 DEF Knows, HasOutcome
<1>8. AllAcksLast(s2c)'
  <2>1. AllAcksLast(s2c')
    BY <1>1, <1>5, <1>6
  <2> QED BY <2>1 DEF AllAcksLast
<1>9. ASSUME NEW u \in Ticket, u \in tasks_running', kind'[u] = "syncfail"
      PROVE  \/ u \in tasks_running /\ kind[u] = "syncfail"
             \/ \A s \in Sessions : conn'[s] = "open" /\ Knows(s2c, s, u)'
                                      => HasOutcome(s2c, s, u)'
  <2>1. CASE u \in tasks_running
    BY <1>9, <2>1
  <2>2. CASE u \notin tasks_running
    <3>1. /\ u = t /\ s2c' = Sent(s2c, k, e) /\ name \in Outcomes /\ ticket_map[t] # NoSession
      BY <1>2, <1>4, <1>9, <2>2
    <3>2. ASSUME NEW s \in Sessions, conn'[s] = "open", Knows(s2c, s, u)'
          PROVE  HasOutcome(s2c, s, u)'
      <4>1. k = s
        BY <1>1, <1>4, <1>7, <3>1, <3>2 DEF OwnersKnow
      <4>2. HasOutcome(s2c', s, u)
        BY <1>3, <1>5, <3>1, <3>2, <4>1
      <4> QED BY <4>2 DEF HasOutcome
    <3> QED BY <3>2
  <2> QED BY <2>1, <2>2
<1>10. OwnersKnow(s2c, ticket_map)' /\ RelicsTold(s2c, tasks_running)'
  BY <1>7, <1>9, NobodyLearns
<1> QED BY <1>8, <1>10

LEMMA KillStep == KillInv /\ [Next]_vars => KillInv'
<1> SUFFICES ASSUME KillInv, [Next]_vars
    PROVE OwnersKnow(s2c, ticket_map)' /\ RelicsTold(s2c, tasks_running)' /\ AllAcksLast(s2c)'
  BY ChannelStep DEF KillInv
<1> DEFINE Goal == OwnersKnow(s2c, ticket_map)' /\ RelicsTold(s2c, tasks_running)' /\ AllAcksLast(s2c)'
<1>0. /\ TypeOK /\ TicketsInOrder /\ NewSilent /\ AllAcksLast(s2c)
      /\ "failure" \in Outcomes
  BY DEF KillInv, ChannelInv, TablesInv, Outcomes
\* Nothing is said; some clients join or leave.
<1>a. ASSUME UNCHANGED task_map, tasks_running' \subseteq tasks_running,
             \A t \in Ticket : t \in tasks_running' => kind'[t] = kind[t],
             \A t \in Ticket : ticket_map'[t] \in {ticket_map[t], NoSession},
             \A s \in Sessions : \/ conn'[s] = conn[s] /\ s2c'[s] = s2c[s]
                                 \/ conn'[s] # "open" /\ s2c'[s] = << >>
                                 \/ conn[s] = "new" /\ s2c'[s] = s2c[s]
      PROVE  Goal
  <2>1. ASSUME NEW s \in Sessions
        PROVE  /\ AcksLast(task_map'[s], s2c'[s])
               /\ \A t \in Ticket :
                    /\ Knows(s2c, s, t)' => Knows(s2c, s, t)
                    /\ conn'[s] = "open" /\ Knows(s2c, s, t)' =>
                         conn[s] = "open" /\ (HasOutcome(s2c, s, t) => HasOutcome(s2c, s, t)')
    <3>0. AcksLast(task_map[s], s2c[s]) /\ AcksLast(task_map[s], << >>)
      BY <1>0 DEF AllAcksLast, AcksLast
    <3>1. CASE conn'[s] = conn[s] /\ s2c'[s] = s2c[s]
      BY <1>a, <3>0, <3>1 DEF Knows, HasOutcome
    <3>2. CASE conn'[s] # "open" /\ s2c'[s] = << >>
      <4>1. ASSUME NEW t \in Ticket, Knows(s2c, s, t)' PROVE Knows(s2c, s, t)
        <5>1. Known(task_map[s], << >>, 0, t)
          BY <1>a, <3>2, <4>1 DEF Knows
        <5>2. task_map[s][t] # "absent"
          BY <5>1, EmptyChannel
        <5> QED BY <5>2 DEF Knows, Known
      <4> QED BY <1>a, <3>0, <3>2, <4>1
    <3>3. CASE conn[s] = "new" /\ s2c'[s] = s2c[s]
      <4>1. s2c[s] = << >> /\ \A t \in Ticket : task_map[s][t] = "absent"
        BY <1>0, <3>3 DEF NewSilent
      <4>2. Len(s2c[s]) = 0
        BY <4>1
      <4>3. \A t \in Ticket : ~Known(task_map[s], s2c[s], Len(s2c[s]), t)
        BY <4>1, <4>2, EmptyChannel
      <4>4. \A t \in Ticket : ~Knows(s2c, s, t)'
        BY <1>a, <3>3, <4>3 DEF Knows
      <4> QED BY <1>a, <3>0, <3>3, <4>4
    <3> QED BY <1>a, <3>1, <3>2, <3>3
  <2>2. AllAcksLast(s2c)'
    BY <2>1 DEF AllAcksLast
  <2>3. \A t \in Ticket : t \in tasks_running' /\ kind'[t] = "syncfail" =>
          t \in tasks_running /\ kind[t] = "syncfail"
    BY <1>a
  <2>4. OwnersKnow(s2c, ticket_map)' /\ RelicsTold(s2c, tasks_running)'
    BY <1>a, <2>1, <2>3, NobodyLearns
  <2> QED BY <2>2, <2>4
<1>1. ASSUME NEW s \in Sessions, Connect(s) \/ Shutdown(s) PROVE Goal
  <2>1. UNCHANGED <<task_map, tasks_running, kind, ticket_map>>
    BY <1>1 DEF Connect, Shutdown, server, client
  <2>2. \A o \in Sessions : \/ conn'[o] = conn[o] /\ s2c'[o] = s2c[o]
                            \/ conn'[o] # "open" /\ s2c'[o] = << >>
                            \/ conn[o] = "new" /\ s2c'[o] = s2c[o]
    BY <1>0, <1>1 DEF Connect, Shutdown, TypeOK
  <2> QED BY <1>a, <2>1, <2>2
<1>2. ASSUME NEW s \in Sessions, Disconnect(s) PROVE Goal
  <2>1. /\ UNCHANGED <<task_map, kind>> /\ tasks_running' \subseteq tasks_running
        /\ \A t \in Ticket : ticket_map'[t] \in {ticket_map[t], NoSession}
    BY <1>2 DEF Disconnect, Cancel, Forget, client
  <2>2. \A o \in Sessions : \/ conn'[o] = conn[o] /\ s2c'[o] = s2c[o]
                            \/ conn'[o] # "open" /\ s2c'[o] = << >>
    BY <1>0, <1>2 DEF Disconnect, TypeOK
  <2> QED BY <1>a, <2>1, <2>2
<1>3. ASSUME Restart PROVE Goal
  <2>1. /\ UNCHANGED task_map /\ tasks_running' = {}
        /\ \A t \in Ticket : ticket_map'[t] = NoSession
        /\ \A o \in Sessions : conn'[o] # "open" /\ s2c'[o] = << >>
    BY <1>3 DEF Restart, client
  <2> QED BY <1>a, <2>1
<1>4. ASSUME UNCHANGED <<conn, s2c, task_map, tasks_running, kind, ticket_map>> PROVE Goal
  BY <1>a, <1>4
<1>5. ASSUME RedisLost \/ UNCHANGED vars PROVE Goal
  BY <1>4, <1>5 DEF RedisLost, vars, server, client
<1>6. ASSUME NEW s \in Sessions,
             (\E a \in Asks : Call(s, a)) \/ OnTaskStart(s) \/ OnStdin(s)
      PROVE  Goal
  BY <1>4, <1>6 DEF Call, OnTaskStart, OnStdin, server, client
<1>7. ASSUME NEW s \in Sessions, OnQuery(s) PROVE Goal
  <2>1. UNCHANGED <<conn, kind, task_map, ticket_map, tasks_running>>
    BY <1>7 DEF OnQuery, server, client
  <2>2. PICK m \in Message : m = Response(Head(c2s[s]).id, "answer", 0)
    BY <1>0, <1>7, HeadOfC2S DEF OnQuery, Serving, Response, Message
  <2>3. m.name = "answer" /\ s2c' = Sent(s2c, s, m) /\ s2c \in [Sessions -> Seq(Message)]
    BY <1>0, <1>7, <2>2 DEF OnQuery, Response, TypeOK
  <2>4. /\ AllAcksLast(s2c')
        /\ \A o \in Sessions, t \in Ticket :
             /\ Knows(s2c', o, t) <=> Knows(s2c, o, t)
             /\ HasOutcome(s2c, o, t) => HasOutcome(s2c', o, t)
    BY <1>0, <2>3, SentTells
  <2>5. /\ AllAcksLast(s2c)'
        /\ \A o \in Sessions, t \in Ticket :
             /\ Knows(s2c, o, t)' <=> Knows(s2c, o, t)
             /\ HasOutcome(s2c, o, t) => HasOutcome(s2c, o, t)'
    BY <2>1, <2>4 DEF AllAcksLast, Knows, HasOutcome
  <2> QED BY <2>1, <2>5, NobodyLearns
<1>8. ASSUME NEW t \in Ticket, DoStart(t) PROVE Goal
  <2>1. UNCHANGED <<conn, kind, task_map>> /\ t \in sched /\ ticket_map[t] # NoSession
    BY <1>0, <1>8 DEF DoStart, TicketsInOrder, client
  <2>2. CASE StartUnknown(t)
    BY <1>4, <2>1, <2>2 DEF StartUnknown
  <2>3. CASE StartRaises(t)
    <3>1. /\ s2c' = Sent(s2c, ticket_map[t], Event("failure", t))
          /\ \A u \in Ticket : ticket_map'[u] \in {ticket_map[u], NoSession}
          /\ tasks_running' \subseteq tasks_running
      BY <2>3 DEF StartRaises, Report, Forget
    <3> QED BY <1>0, <2>1, <3>1, EventKill
  <2>4. CASE StartSyncFail(t)
    <3>1. /\ s2c' = Sent(s2c, ticket_map[t], Event("failure", t))
          /\ \A u \in Ticket : ticket_map'[u] \in {ticket_map[u], NoSession}
          /\ \A u \in Ticket : u \in tasks_running' => u \in tasks_running \/ u = t
      BY <2>4 DEF StartSyncFail
    <3> QED BY <1>0, <2>1, <3>1, EventKill
  <2>5. CASE StartAsync(t)
    <3>1. /\ s2c' = s2c /\ \A u \in Ticket : ticket_map'[u] \in {ticket_map[u], NoSession}
          /\ \A u \in Ticket : u \in tasks_running' => u \in tasks_running \/ u = t
          /\ kind[t] = "async"
      BY <2>5 DEF StartAsync
    <3>2. \A u \in Ticket : u \in tasks_running' /\ kind[u] = "syncfail" => u \in tasks_running
      BY <3>1
    <3> QED BY <1>0, <2>1, <3>1, <3>2, EventKill
  <2> QED BY <1>8, <2>2, <2>3, <2>4, <2>5 DEF DoStart
<1>9. ASSUME NEW t \in Ticket, Progress(t) PROVE Goal
  <2>1. /\ UNCHANGED <<conn, kind, task_map, ticket_map, tasks_running>>
        /\ s2c' = Sent(s2c, ticket_map[t], Event("progress", t))
    BY <1>9 DEF Progress, server, client
  <2> QED BY <2>1, EventKill
<1>10. ASSUME NEW t \in Ticket, NEW o \in Outcomes, TaskEnds(t, o) PROVE Goal
  <2>1. /\ UNCHANGED <<conn, kind, task_map>> /\ tasks_running' \subseteq tasks_running
        /\ s2c' = s2c \/ s2c' = Sent(s2c, ticket_map[t], Event(o, t))
        /\ \A u \in Ticket : ticket_map'[u] \in {ticket_map[u], NoSession}
    BY <1>10 DEF TaskEnds, Report, Forget, client
  <2> QED BY <2>1, EventKill
<1> HIDE DEF Goal
<1> QED BY <1>1, <1>2, <1>3, <1>5, <1>6, <1>7, <1>8, <1>9, <1>10, ReceiveKill, IncrReplyKill,
        KillKill DEF Next, Goal

\* Who kills its own task and is told that it worked has the outcome by then: the
\* Deferred is cancelled, which reports the failure, before task_kill answers; and
\* a task whose Deferred had failed already was reported when it did.
THEOREM KillAlwaysAckedAfterOutcome == Spec => []KillAckAfterOutcome
<1>1. Spec => []KillInv
  BY KillInit, KillStep, PTL DEF Spec
<1>2. KillInv => KillAckAfterOutcome
  BY DEF KillInv, AllAcksLast, AcksLast, KillAckAfterOutcome
<1> QED BY <1>1, <1>2, PTL
=============================================================================
