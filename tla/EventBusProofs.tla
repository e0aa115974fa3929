--------------------------- MODULE EventBusProofs ---------------------------
(***************************************************************************)
(* What EventBus promises, proved for any number of waits, terminals,      *)
(* services, events and lost connections.                                  *)
(***************************************************************************)
EXTENDS EventBus, TLAPS

-----------------------------------------------------------------------------
(* Sequences as lists of members *)

\* Whatever stands in a sequence is a member of it.
LEMMA InMembers ==
    ASSUME NEW S, NEW q \in Seq(S), NEW i \in 1 .. Len(q)
    PROVE  q[i] \in Members(q)
  BY DEF Members

\* Appending adds one member.
LEMMA MembersAppend ==
    ASSUME NEW S, NEW q \in Seq(S), NEW x \in S
    PROVE  /\ Append(q, x) \in Seq(S)
           /\ Members(Append(q, x)) = Members(q) \cup {x}
<1>1. Append(q, x) \in Seq(S) /\ Len(Append(q, x)) = Len(q) + 1
  OBVIOUS
<1>2. \A i \in 1 .. Len(q) : Append(q, x)[i] = q[i]
  OBVIOUS
<1>3. Append(q, x)[Len(q) + 1] = x
  OBVIOUS
<1>4. Members(Append(q, x)) \subseteq Members(q) \cup {x}
  BY <1>1, <1>2, <1>3 DEF Members
<1>5. Members(q) \subseteq Members(Append(q, x))
  BY <1>1, <1>2 DEF Members
<1>6. x \in Members(Append(q, x))
  BY <1>1, <1>3 DEF Members
<1>. QED
  BY <1>1, <1>4, <1>5, <1>6

\* Taking the first leaves the others.
LEMMA MembersTail ==
    ASSUME NEW S, NEW q \in Seq(S), q # <<>>
    PROVE  /\ Head(q) \in S /\ Tail(q) \in Seq(S)
           /\ Members(q) = {Head(q)} \cup Members(Tail(q))
<1>1. /\ Head(q) \in S /\ Tail(q) \in Seq(S) /\ Len(q) \in Nat \ {0}
      /\ Len(Tail(q)) = Len(q) - 1 /\ Head(q) = q[1]
      /\ \A i \in 1 .. Len(q) - 1 : Tail(q)[i] = q[i + 1]
  OBVIOUS
<1>2. Members(q) \subseteq {Head(q)} \cup Members(Tail(q))
  <2>1. SUFFICES ASSUME NEW i \in 1 .. Len(q), i # 1
                 PROVE  q[i] \in Members(Tail(q))
    BY <1>1 DEF Members
  <2>2. i - 1 \in 1 .. Len(q) - 1 /\ Tail(q)[i - 1] = q[i]
    BY <1>1, <2>1
  <2>3. i - 1 \in 1 .. Len(Tail(q))
    BY <2>2, <1>1
  <2>4. Tail(q)[i - 1] \in Members(Tail(q))
    BY <2>3, <1>1, InMembers
  <2>. QED
    BY <2>2, <2>4
<1>3. Members(Tail(q)) \subseteq Members(q)
  <2>1. SUFFICES ASSUME NEW i \in 1 .. Len(q) - 1
                 PROVE  Tail(q)[i] \in Members(q)
    BY <1>1 DEF Members
  <2>2. i + 1 \in 1 .. Len(q) /\ Tail(q)[i] = q[i + 1]
    BY <1>1
  <2>3. q[i + 1] \in Members(q)
    BY <2>2, <1>1 DEF Members
  <2>. QED
    BY <2>2, <2>3
<1>4. Head(q) \in Members(q)
  BY <1>1 DEF Members
<1>. QED
  BY <1>1, <1>2, <1>3, <1>4

LEMMA MembersEmpty == Members(<<>>) = {}
  BY DEF Members

\* Members of a sequence over S are in S.
LEMMA MembersIn ==
    ASSUME NEW S, NEW q \in Seq(S)
    PROVE  Members(q) \subseteq S
  BY DEF Members

\* The same for the numbers a callback has heard.
LEMMA HeardAppend ==
    ASSUME NEW q \in Seq(1 .. MaxEvents), NEW n \in 1 .. MaxEvents
    PROVE  Members(q) \subseteq 1 .. MaxEvents /\ Members(Append(q, n)) = Members(q) \cup {n}
<1>. DEFINE E == 1 .. MaxEvents
<1>1. q \in Seq(E) /\ n \in E
  OBVIOUS
<1>. HIDE DEF E
<1>2. Members(q) \subseteq E /\ Members(Append(q, n)) = Members(q) \cup {n}
  BY <1>1, MembersAppend, MembersIn
<1>. QED
  BY <1>2 DEF E

\* Members of a sequence of numbers are numbers.
LEMMA HeardIn ==
    ASSUME NEW q \in Seq(1 .. MaxEvents)
    PROVE  \A n \in Members(q) : n \in Nat
<1>. DEFINE E == 1 .. MaxEvents
<1>1. q \in Seq(E)
  OBVIOUS
<1>. HIDE DEF E
<1>2. Members(q) \subseteq E
  BY <1>1, MembersIn
<1>. QED
  BY <1>2 DEF E

\* Removing x invents nothing, and loses nothing but x.
LEMMA MembersWithout ==
    ASSUME NEW S, NEW q \in Seq(S), NEW x \in Members(q)
    PROVE  /\ Without(q, x) \in Seq(S)
           /\ Members(Without(q, x)) \subseteq Members(q)
           /\ Members(q) \subseteq Members(Without(q, x)) \cup {x}
<1>. DEFINE k == CHOOSE i \in DOMAIN q : q[i] = x
            r == [i \in 1 .. Len(q) - 1 |-> IF i < k THEN q[i] ELSE q[i + 1]]
<1>1. k \in 1 .. Len(q) /\ q[k] = x /\ Len(q) \in Nat \ {0}
  BY DEF Members
<1>2. Without(q, x) = r
  BY DEF Without
<1>3. /\ r \in Seq(S) /\ DOMAIN r = 1 .. Len(q) - 1
      /\ \A i \in 1 .. Len(q) - 1 : r[i] = IF i < k THEN q[i] ELSE q[i + 1]
  BY <1>1
<1>. HIDE DEF r, k
<1>4. ASSUME NEW i \in 1 .. Len(q) - 1
      PROVE  r[i] \in Members(q)
  BY <1>1, <1>3 DEF Members
<1>5. ASSUME NEW j \in 1 .. Len(q), j # k
      PROVE  \E i \in 1 .. Len(q) - 1 : r[i] = q[j]
  <2>1. CASE j < k
    <3>1. j \in 1 .. Len(q) - 1 /\ r[j] = q[j]
      BY <2>1, <1>1, <1>3
    <3>. QED
      BY <3>1
  <2>2. CASE j > k
    <3>1. j - 1 \in 1 .. Len(q) - 1 /\ r[j - 1] = q[j]
      BY <2>2, <1>1, <1>3
    <3>. QED
      BY <3>1
  <2>3. j < k \/ j > k
    BY <1>1, <1>5
  <2>. QED
    BY <2>1, <2>2, <2>3
<1>6. Members(r) \subseteq Members(q)
  BY <1>3, <1>4 DEF Members
<1>7. Members(q) \subseteq Members(r) \cup {x}
  <2>1. SUFFICES ASSUME NEW j \in 1 .. Len(q), q[j] # x
                 PROVE  q[j] \in Members(r)
    BY DEF Members
  <2>2. PICK i \in 1 .. Len(q) - 1 : r[i] = q[j]
    BY <2>1, <1>1, <1>5
  <2>. QED
    BY <2>2, <1>3 DEF Members
<1>. QED
  BY <1>2, <1>3, <1>6, <1>7

-----------------------------------------------------------------------------
(* The table *)

\* What On does to the table.
LEMMA AfterOn ==
    ASSUME TypeOK, NEW c \in Callbacks, NEW p \in Patterns, On(c, p)
    PROVE  /\ callbacks' \in [Patterns -> Seq(Callbacks) \cup {None}]
           /\ \A x \in Patterns \ {p} : callbacks'[x] = callbacks[x]
           /\ callbacks'[p] # None
           /\ \A x \in Patterns : Registered(x)' = IF x = p THEN Registered(x) \cup {c} ELSE Registered(x)
<1>. DEFINE q == IF callbacks[p] = None THEN <<>> ELSE callbacks[p]
<1>1. q \in Seq(Callbacks) /\ Members(q) = Registered(p)
  <2>1. CASE callbacks[p] = None
    BY <2>1, MembersEmpty DEF Registered
  <2>2. CASE callbacks[p] # None
    BY <2>2 DEF TypeOK, Registered
  <2>. QED
    BY <2>1, <2>2
<1>2. callbacks' = [callbacks EXCEPT ![p] = Append(q, c)]
  BY DEF On
<1>. HIDE DEF q
<1>3. Append(q, c) \in Seq(Callbacks) /\ Members(Append(q, c)) = Members(q) \cup {c}
  BY <1>1, MembersAppend
<1>4. Append(q, c) # None
  BY <1>3, BusAssumption DEF BusAssumption, Callbacks
<1>5. /\ callbacks' \in [Patterns -> Seq(Callbacks) \cup {None}]
      /\ callbacks'[p] = Append(q, c)
      /\ \A x \in Patterns \ {p} : callbacks'[x] = callbacks[x]
  BY <1>2, <1>3 DEF TypeOK
<1>6. ASSUME NEW x \in Patterns
      PROVE  Registered(x)' = IF x = p THEN Registered(x) \cup {c} ELSE Registered(x)
  <2>1. CASE x = p
    BY <2>1, <1>1, <1>3, <1>4, <1>5 DEF Registered
  <2>2. CASE x # p
    BY <2>2, <1>5 DEF Registered
  <2>. QED
    BY <2>1, <2>2
<1>. QED
  BY <1>4, <1>5, <1>6

\* What Detach does to the table.
LEMMA AfterDetach ==
    ASSUME TypeOK, NEW i \in Inputs, i \in Registered(i), Detach(i)
    PROVE  /\ callbacks' \in [Patterns -> Seq(Callbacks) \cup {None}]
           /\ callbacks[i] # None /\ callbacks'[i] # None
           /\ \A x \in Patterns \ {i} : callbacks'[x] = callbacks[x]
           /\ \A x \in Patterns : /\ Registered(x)' \subseteq Registered(x)
                                 /\ Registered(x) \subseteq Registered(x)' \cup {i}
<1>. DEFINE q == callbacks[i]
<1>1. i \in Patterns /\ q # None /\ q \in Seq(Callbacks) /\ i \in Members(q)
  BY DEF Registered, TypeOK, Patterns
<1>2. /\ Without(q, i) \in Seq(Callbacks)
      /\ Members(Without(q, i)) \subseteq Members(q)
      /\ Members(q) \subseteq Members(Without(q, i)) \cup {i}
  BY <1>1, MembersWithout
<1>3. Without(q, i) # None
  BY <1>2, BusAssumption DEF BusAssumption, Callbacks
<1>4. /\ callbacks' \in [Patterns -> Seq(Callbacks) \cup {None}]
      /\ callbacks'[i] = Without(q, i)
      /\ \A x \in Patterns \ {i} : callbacks'[x] = callbacks[x]
  BY <1>1, <1>2 DEF TypeOK, Detach
<1>5. ASSUME NEW x \in Patterns
      PROVE  /\ Registered(x)' \subseteq Registered(x)
             /\ Registered(x) \subseteq Registered(x)' \cup {i}
  <2>1. CASE x = i
    BY <2>1, <1>1, <1>2, <1>3, <1>4 DEF Registered
  <2>2. CASE x # i
    BY <2>2, <1>4 DEF Registered
  <2>. QED
    BY <2>1, <2>2
<1>. QED
  BY <1>1, <1>3, <1>4, <1>5

\* Registered callbacks are callbacks.
LEMMA RegisteredIn ==
    ASSUME TypeOK, NEW p \in Patterns
    PROVE  Registered(p) \subseteq Callbacks
  BY MembersIn DEF Registered, TypeOK

\* A type or two at a time.
LEMMA Types ==
    ASSUME TypeOK
    PROVE  /\ losses \in Nat /\ published \in Nat
           /\ messages \in Seq(Events) /\ requests \in Seq(Patterns)
           /\ state \in [Callbacks -> {"new", "waiting", "event", "timeout", "fired twice", "attached", "detached"}]
           /\ \A c \in Callbacks : heard[c] \in Seq(1 .. MaxEvents)
           /\ messages # <<>> => /\ Head(messages).pattern \in Patterns
                                 /\ Head(messages).number \in 1 .. MaxEvents
<1>1. losses \in 0 .. MaxLosses /\ published \in 0 .. MaxEvents /\ MaxLosses \in Nat /\ MaxEvents \in Nat
  BY BusAssumption DEF TypeOK, BusAssumption
<1>2. messages \in Seq(Events) /\ requests \in Seq(Patterns)
  BY DEF TypeOK
<1>3. messages # <<>> => Head(messages) \in Events
  BY <1>2, MembersTail
<1>4. state \in [Callbacks -> {"new", "waiting", "event", "timeout", "fired twice", "attached", "detached"}]
  BY DEF TypeOK
<1>5. \A c \in Callbacks : heard[c] \in Seq(1 .. MaxEvents)
  BY DEF TypeOK
<1>6. losses \in Nat /\ published \in Nat
  BY <1>1
<1>. QED
  BY <1>2, <1>3, <1>4, <1>5, <1>6 DEF Events

-----------------------------------------------------------------------------
(* The inductive invariant *)

\* Who is in the table: nobody before it registered, a terminal only under its own
\* pattern; and only a wait waits.
Table ==
    /\ losses = 0 => connected
    /\ \A c \in Callbacks : state[c] = "new" =>
          due[c] = {} /\ heard[c] = <<>> /\ \A p \in Patterns : c \notin Registered(p)
    /\ \A i \in Inputs : state[i] # "waiting" /\ (state[i] = "attached" => i \in Registered(i))

\* Events are numbered in the order they travel, after all that have been heard.
Order ==
    /\ \A i, j \in DOMAIN messages : i < j => messages[i].number < messages[j].number
    /\ \A m \in Members(messages) : m.number <= published
    /\ \A c \in Callbacks : \A n \in Members(heard[c]) :
          /\ n <= published
          /\ \A m \in Members(messages) : n < m.number

IInv == TypeOK /\ Table /\ FiredOnce /\ TableIsSubscribed /\ NothingMissed /\ Order /\ HeardInOrder

\* The initial state has it.
LEMMA InitInv == Init => IInv
<1>. SUFFICES ASSUME Init PROVE IInv
  OBVIOUS
<1>1. TypeOK
  BY BusAssumption DEF Init, TypeOK, BusAssumption
<1>2. Table /\ FiredOnce /\ TableIsSubscribed
  BY DEF Init, Table, FiredOnce, TableIsSubscribed, Registered, Callbacks
<1>3. NothingMissed
  BY DEF Init, NothingMissed
<1>4. Order /\ HeardInOrder
  BY MembersEmpty DEF Init, Order, HeardInOrder
<1>. QED
  BY <1>1, <1>2, <1>3, <1>4 DEF IInv

-----------------------------------------------------------------------------
(* Its preservation, one conjunct at a time *)

\* The types.
LEMMA KeepTypes == IInv /\ [Next]_vars => TypeOK'
<1>. SUFFICES ASSUME IInv, [Next]_vars PROVE TypeOK'
  OBVIOUS
<1>. USE DEF IInv
<1>. /\ published \in 0 .. MaxEvents /\ MaxEvents \in Nat
     /\ losses \in 0 .. MaxLosses /\ MaxLosses \in Nat
  BY BusAssumption DEF TypeOK, BusAssumption
<1>1. ASSUME NEW w \in Waits, TimesOut(w) PROVE TypeOK'
  BY <1>1 DEF TimesOut, TypeOK, wire, Callbacks
<1>2. ASSUME NEW c \in Callbacks, NEW p \in Patterns, On(c, p)
      PROVE  requests' \in Seq(Patterns)
  <2>1. requests' = Append(requests, p) \/ requests' = requests
    BY <1>2 DEF On
  <2>2. requests \in Seq(Patterns)
    BY DEF TypeOK
  <2>. QED
    BY <2>1, <2>2
<1>3. ASSUME NEW w \in Waits, NEW p \in Services, NEW t \in BOOLEAN, WaitForEvent(w, p, t)
      PROVE  TypeOK'
  <2>1. w \in Callbacks /\ p \in Patterns /\ On(w, p)
    BY <1>3 DEF Callbacks, Patterns, WaitForEvent
  <2>2. callbacks' \in [Patterns -> Seq(Callbacks) \cup {None}] /\ requests' \in Seq(Patterns)
    BY <2>1, <1>2, AfterOn
  <2>. QED
    BY <1>3, <2>2 DEF WaitForEvent, On, TypeOK
<1>4. ASSUME NEW i \in Inputs, Attach(i) PROVE TypeOK'
  <2>1. i \in Callbacks /\ i \in Patterns /\ On(i, i)
    BY <1>4 DEF Callbacks, Patterns, Attach
  <2>2. callbacks' \in [Patterns -> Seq(Callbacks) \cup {None}] /\ requests' \in Seq(Patterns)
    BY <2>1, <1>2, AfterOn
  <2>. QED
    BY <1>4, <2>2 DEF Attach, On, TypeOK
<1>5. ASSUME NEW i \in Inputs, Detach(i) PROVE TypeOK'
  <2>1. i \in Registered(i) /\ i \in Callbacks
    BY <1>5 DEF Table, Detach, Callbacks
  <2>2. callbacks' \in [Patterns -> Seq(Callbacks) \cup {None}]
    BY <1>5, <2>1, AfterDetach
  <2>. QED
    BY <1>5, <2>2 DEF Detach, TypeOK, wire
<1>6. ASSUME NEW p \in Patterns, Publish(p) PROVE TypeOK'
  <2>1. published + 1 <= MaxEvents /\ published' = published + 1
    BY <1>6 DEF Publish
  <2>5. published + 1 \in 1 .. MaxEvents /\ published' \in 0 .. MaxEvents
    BY <2>1
  <2>2. [pattern |-> p, number |-> published + 1] \in Events
    BY <2>5 DEF Events
  <2>3. messages' \in Seq(Events)
    <3>1. messages' = Append(messages, [pattern |-> p, number |-> published + 1]) \/ messages' = messages
      BY <1>6 DEF Publish
    <3>2. messages \in Seq(Events)
      BY DEF TypeOK
    <3>. QED
      BY <2>2, <3>1, <3>2
  <2>4. due' \in [Callbacks -> SUBSET (1 .. MaxEvents)]
    BY <1>6, <2>5 DEF Publish, TypeOK
  <2>. QED
    BY <1>6, <2>5, <2>3, <2>4 DEF Publish, TypeOK
<1>7. CASE Subscribe
  <2>1. Head(requests) \in Patterns /\ Tail(requests) \in Seq(Patterns)
    BY <1>7, MembersTail DEF Subscribe, TypeOK
  <2>. QED
    BY <1>7, <2>1 DEF Subscribe, TypeOK
<1>8. CASE MessageReceived
  <2>1. Head(messages) \in Events /\ Tail(messages) \in Seq(Events)
    BY <1>8, MembersTail DEF MessageReceived, TypeOK
  <2>2. Head(messages).number \in 1 .. MaxEvents
    BY <2>1 DEF Events
  <2>3. heard' \in [Callbacks -> Seq(1 .. MaxEvents)]
    <3>1. heard' = [c \in Callbacks |-> IF c \in Registered(Head(messages).pattern)
                                      THEN Append(heard[c], Head(messages).number) ELSE heard[c]]
      BY <1>8 DEF MessageReceived
    <3>2. \A c \in Callbacks : heard[c] \in Seq(1 .. MaxEvents)
      BY DEF TypeOK
    <3>3. \A c \in Callbacks : Append(heard[c], Head(messages).number) \in Seq(1 .. MaxEvents)
      BY <2>2, <3>2
    <3>. QED
      BY <3>1, <3>2, <3>3
  <2>4. state' \in [Callbacks -> {"new", "waiting", "event", "timeout", "fired twice", "attached", "detached"}]
    BY <1>8 DEF MessageReceived, TypeOK
  <2>. QED
    BY <1>8, <2>1, <2>3, <2>4 DEF MessageReceived, TypeOK
<1>9. CASE Lose
  <2>3. losses < MaxLosses /\ losses' = losses + 1
    BY <1>9 DEF Lose
  <2>1. losses' \in 0 .. MaxLosses
    BY <2>3
  <2>2. due' \in [Callbacks -> SUBSET (1 .. MaxEvents)]
    BY <1>9 DEF Lose, TypeOK
  <2>4. /\ connected' = FALSE /\ requests' = <<>> /\ subscribed' = {} /\ messages' = <<>>
        /\ callbacks' = callbacks /\ state' = state /\ timer' = timer
        /\ published' = published /\ heard' = heard
    BY <1>9 DEF Lose
  <2>5. requests' \in Seq(Patterns) /\ messages' \in Seq(Events)
    BY <2>4
  <2>. QED
    BY <2>1, <2>2, <2>4, <2>5 DEF TypeOK
<1>10. CASE Reconnect
  BY <1>10 DEF Reconnect, TypeOK
<1>11. CASE UNCHANGED vars
  BY <1>11 DEF vars, wire, TypeOK
<1>. QED
  BY <1>1, <1>3, <1>4, <1>5, <1>6, <1>7, <1>8, <1>9, <1>10, <1>11 DEF Next

\* Who is in the table.
LEMMA KeepTable == IInv /\ [Next]_vars => Table'
<1>. SUFFICES ASSUME IInv, [Next]_vars PROVE Table'
  OBVIOUS
<1>0. TypeOK /\ Table /\ NothingMissed
  BY DEF IInv
<1>. DEFINE New == \A c \in Callbacks : state[c] = "new" =>
                     due[c] = {} /\ heard[c] = <<>> /\ \A p \in Patterns : c \notin Registered(p)
            Own == \A i \in Inputs : state[i] # "waiting" /\ (state[i] = "attached" => i \in Registered(i))
            Conn == losses = 0 => connected
<1>a. /\ Table <=> Conn /\ New /\ Own
      /\ Table' <=> Conn' /\ New' /\ Own'
  BY DEF Table
<1>b. /\ Inputs \subseteq Callbacks /\ Waits \subseteq Callbacks /\ Inputs \subseteq Patterns
      /\ Services \subseteq Patterns /\ Inputs \cap Waits = {} /\ Inputs \cap Services = {}
      /\ Callbacks = Inputs \cup Waits
  BY BusAssumption DEF Callbacks, Patterns, BusAssumption
<1>c. losses \in Nat /\ state \in [Callbacks -> {"new", "waiting", "event", "timeout", "fired twice", "attached", "detached"}]
  BY <1>0, Types
<1>1. ASSUME NEW w \in Waits, TimesOut(w) PROVE Table'
  <2>1. /\ state' = [state EXCEPT ![w] = IF @ = "waiting" THEN "timeout" ELSE "fired twice"]
        /\ due' = due /\ heard' = heard /\ callbacks' = callbacks /\ losses' = losses /\ connected' = connected
    BY <1>1 DEF TimesOut, wire
  <2>2. \A p \in Patterns : Registered(p)' = Registered(p)
    BY <2>1 DEF Registered
  <2>3. \A c \in Callbacks : c # w => state'[c] = state[c]
    BY <2>1, <1>c
  <2>4. state'[w] # "new"
    BY <2>1, <1>b, <1>c
  <2>5. New'
    <3>1. SUFFICES ASSUME NEW c \in Callbacks, state'[c] = "new"
                   PROVE  due'[c] = {} /\ heard'[c] = <<>> /\ \A p \in Patterns : c \notin Registered(p)'
      OBVIOUS
    <3>2. state[c] = "new"
      BY <3>1, <2>3, <2>4
    <3>. QED
      BY <3>2, <2>1, <2>2, <1>0 DEF Table
  <2>6. Own'
    <3>1. SUFFICES ASSUME NEW i \in Inputs
                   PROVE  state'[i] # "waiting" /\ (state'[i] = "attached" => i \in Registered(i)')
      OBVIOUS
    <3>2. i \in Callbacks /\ i \in Patterns /\ i # w
      BY <1>b
    <3>3. state'[i] = state[i] /\ Registered(i)' = Registered(i)
      BY <3>2, <2>2, <2>3
    <3>. QED
      BY <3>3, <1>0 DEF Table
  <2>. QED
    BY <2>1, <2>5, <2>6, <1>0, <1>a
<1>2. ASSUME NEW c \in Callbacks, NEW p \in Patterns, On(c, p), state[c] = "new",
             NEW s \in {"waiting", "attached"}, state' = [state EXCEPT ![c] = s],
             c \in Inputs => s = "attached" /\ p = c
      PROVE  Table'
  <2>1. /\ due' = due /\ heard' = heard /\ losses' = losses /\ connected' = connected
    BY <1>2 DEF On
  <2>2. \A x \in Patterns : Registered(x)' = IF x = p THEN Registered(x) \cup {c} ELSE Registered(x)
    BY <1>0, <1>2, AfterOn
  <2>3. \A d \in Callbacks : d # c => state'[d] = state[d]
    BY <1>2, <1>c
  <2>4. state'[c] = s /\ s # "new"
    BY <1>2, <1>c
  <2>5. New'
    <3>1. ASSUME NEW d \in Callbacks, state'[d] = "new"
          PROVE  due'[d] = {} /\ heard'[d] = <<>> /\ \A x \in Patterns : d \notin Registered(x)'
      <4>1. d # c /\ state[d] = "new"
        BY <3>1, <2>3, <2>4
      <4>. QED
        BY <4>1, <2>1, <2>2, <1>0, <1>a
    <3>. QED
      BY <3>1
  <2>6. Own'
    <3>1. ASSUME NEW i \in Inputs
          PROVE  state'[i] # "waiting" /\ (state'[i] = "attached" => i \in Registered(i)')
      <4>1. CASE i = c
        BY <4>1, <1>2, <2>2, <2>4
      <4>2. CASE i # c
        BY <4>2, <2>2, <2>3, <1>0, <1>a, <1>b
      <4>. QED
        BY <4>1, <4>2
    <3>. QED
      BY <3>1
  <2>. QED
    BY <2>1, <2>5, <2>6, <1>0, <1>a
<1>3. ASSUME NEW w \in Waits, NEW p \in Services, NEW t \in BOOLEAN, WaitForEvent(w, p, t)
      PROVE  Table'
  <2>1. On(w, p) /\ state[w] = "new" /\ state' = [state EXCEPT ![w] = "waiting"]
    BY <1>3 DEF WaitForEvent
  <2>. QED
    BY <2>1, <1>2, <1>b
<1>4. ASSUME NEW i \in Inputs, Attach(i) PROVE Table'
  <2>1. On(i, i) /\ state[i] = "new" /\ state' = [state EXCEPT ![i] = "attached"]
    BY <1>4 DEF Attach
  <2>. QED
    BY <2>1, <1>2, <1>b
<1>5. ASSUME NEW i \in Inputs, Detach(i) PROVE Table'
  <2>1. /\ state' = [state EXCEPT ![i] = "detached"] /\ state[i] = "attached"
        /\ due' = due /\ heard' = heard /\ losses' = losses /\ connected' = connected
    BY <1>5 DEF Detach, wire
  <2>2. i \in Registered(i)
    BY <2>1, <1>0, <1>a
  <2>3. \A x \in Patterns : /\ Registered(x)' \subseteq Registered(x)
                           /\ Registered(x) \subseteq Registered(x)' \cup {i}
    BY <1>0, <1>5, <2>2, AfterDetach
  <2>4. /\ \A d \in Callbacks : d # i => state'[d] = state[d]
        /\ state'[i] = "detached"
    BY <2>1, <1>b, <1>c
  <2>5. New'
    BY <2>1, <2>3, <2>4, <1>0, <1>a
  <2>6. Own'
    BY <2>3, <2>4, <1>0, <1>a, <1>b
  <2>. QED
    BY <2>1, <2>5, <2>6, <1>0, <1>a
<1>6. ASSUME NEW p \in Patterns, Publish(p) PROVE Table'
  <2>1. /\ state' = state /\ heard' = heard /\ callbacks' = callbacks
        /\ losses' = losses /\ connected' = connected
        /\ due' = [c \in Callbacks |-> IF p \in subscribed /\ c \in Registered(p)
                                       THEN due[c] \cup {published + 1} ELSE due[c]]
    BY <1>6 DEF Publish
  <2>2. \A x \in Patterns : Registered(x)' = Registered(x)
    BY <2>1 DEF Registered
  <2>3. New'
    BY <2>1, <2>2, <1>0, <1>a
  <2>4. Own'
    BY <2>1, <2>2, <1>0, <1>a, <1>b
  <2>. QED
    BY <2>1, <2>3, <2>4, <1>0, <1>a
<1>7. CASE Subscribe
  BY <1>7, <1>0 DEF Subscribe, Table, Registered
<1>8. CASE MessageReceived
  <2>. DEFINE called == Registered(Head(messages).pattern)
              woken == { w \in Waits \cap called : state[w] = "waiting" }
  <2>1. /\ callbacks' = callbacks /\ losses' = losses /\ connected' = connected /\ due' = due
        /\ heard' = [c \in Callbacks |-> IF c \in called THEN Append(heard[c], Head(messages).number) ELSE heard[c]]
        /\ state' = [c \in Callbacks |-> IF c \in woken THEN "event" ELSE state[c]]
        /\ messages # <<>>
    BY <1>8 DEF MessageReceived
  <2>2. \A x \in Patterns : Registered(x)' = Registered(x)
    BY <2>1 DEF Registered
  <2>3. Head(messages).pattern \in Patterns
    BY <1>0, <2>1, Types
  <2>. HIDE DEF called
  <2>4. New'
    <3>1. ASSUME NEW c \in Callbacks, state'[c] = "new"
          PROVE  due'[c] = {} /\ heard'[c] = <<>> /\ \A x \in Patterns : c \notin Registered(x)'
      <4>1. state[c] = "new"
        BY <3>1, <2>1
      <4>2. c \notin called
        BY <4>1, <2>3, <1>0, <1>a DEF called
      <4>. QED
        BY <4>1, <4>2, <2>1, <2>2, <1>0, <1>a
    <3>. QED
      BY <3>1
  <2>5. Own'
    BY <2>1, <2>2, <1>0, <1>a, <1>b
  <2>. QED
    BY <2>1, <2>4, <2>5, <1>0, <1>a
<1>9. CASE Lose
  <2>1. /\ losses' = losses + 1 /\ callbacks' = callbacks /\ state' = state /\ heard' = heard
        /\ due' = [c \in Callbacks |-> due[c] \cap Members(heard[c])]
    BY <1>9 DEF Lose
  <2>2. \A x \in Patterns : Registered(x)' = Registered(x)
    BY <2>1 DEF Registered
  <2>3. Conn'
    <3>1. losses' = losses + 1 /\ losses \in Nat
      BY <1>9, <1>c DEF Lose
    <3>. QED
      BY <3>1
  <2>4. New' /\ Own'
    BY <2>1, <2>2, <1>0, <1>a, <1>b
  <2>. QED
    BY <2>3, <2>4, <1>a
<1>10. CASE Reconnect
  BY <1>10, <1>0 DEF Reconnect, Table, Registered
<1>11. CASE UNCHANGED vars
  BY <1>11, <1>0 DEF vars, wire, Table, Registered
<1>. QED
  BY <1>1, <1>3, <1>4, <1>5, <1>6, <1>7, <1>8, <1>9, <1>10, <1>11 DEF Next

\* A Deferred is fired once.
LEMMA KeepFired == IInv /\ [Next]_vars => FiredOnce'
<1>. SUFFICES ASSUME IInv, [Next]_vars PROVE FiredOnce'
  OBVIOUS
<1>0. TypeOK /\ Table /\ FiredOnce
  BY DEF IInv
<1>b. Waits \subseteq Callbacks /\ Inputs \cap Waits = {}
  BY BusAssumption DEF Callbacks, BusAssumption
<1>c. state \in [Callbacks -> {"new", "waiting", "event", "timeout", "fired twice", "attached", "detached"}]
  BY <1>0, Types
<1>1. ASSUME NEW w \in Waits, TimesOut(w) PROVE FiredOnce'
  BY <1>0, <1>1, <1>b, <1>c DEF TimesOut, FiredOnce
<1>2. ASSUME NEW w \in Waits, NEW p \in Services, NEW t \in BOOLEAN, WaitForEvent(w, p, t)
      PROVE  FiredOnce'
  <2>1. /\ state' = [state EXCEPT ![w] = "waiting"]
        /\ timer' = IF t THEN timer \cup {w} ELSE timer
    BY <1>2 DEF WaitForEvent
  <2>. QED
    BY <2>1, <1>0, <1>b, <1>c DEF FiredOnce
<1>3. ASSUME NEW i \in Inputs, Attach(i) \/ Detach(i) PROVE FiredOnce'
  BY <1>0, <1>3, <1>b, <1>c DEF Attach, Detach, FiredOnce
<1>4. CASE MessageReceived
  <2>. DEFINE woken == { w \in Waits \cap Registered(Head(messages).pattern) : state[w] = "waiting" }
  <2>1. /\ state' = [c \in Callbacks |-> IF c \in woken THEN "event" ELSE state[c]]
        /\ timer' = timer \ woken
    BY <1>4 DEF MessageReceived
  <2>. HIDE DEF woken
  <2>. QED
    BY <2>1, <1>0, <1>b, <1>c DEF FiredOnce
<1>5. ASSUME state' = state /\ timer' = timer PROVE FiredOnce'
  BY <1>0, <1>5 DEF FiredOnce
<1>. QED
  BY <1>1, <1>2, <1>3, <1>4, <1>5 DEF Next, Publish, Subscribe, Lose, Reconnect, vars, wire

\* The table is subscribed while the first connection lasts.
LEMMA KeepSubscribed == IInv /\ [Next]_vars => TableIsSubscribed'
<1>. SUFFICES ASSUME IInv, [Next]_vars PROVE TableIsSubscribed'
  OBVIOUS
<1>0. TypeOK /\ Table /\ TableIsSubscribed
  BY DEF IInv
<1>b. /\ Inputs \subseteq Callbacks /\ Waits \subseteq Callbacks /\ Inputs \subseteq Patterns
      /\ Services \subseteq Patterns
  BY DEF Callbacks, Patterns
<1>1. ASSUME NEW c \in Callbacks, NEW p \in Patterns, On(c, p) PROVE TableIsSubscribed'
  <2>1. /\ requests' = IF callbacks[p] = None /\ connected THEN Append(requests, p) ELSE requests
        /\ subscribed' = subscribed /\ losses' = losses
    BY <1>1 DEF On
  <2>2. \A x \in Patterns \ {p} : callbacks'[x] = callbacks[x]
    BY <1>0, <1>1, AfterOn
  <2>3. Members(Append(requests, p)) = Members(requests) \cup {p}
    <3>1. requests \in Seq(Patterns)
      BY <1>0, Types
    <3>. QED
      BY <3>1, MembersAppend
  <2>4. losses = 0 => connected
    BY <1>0 DEF Table
  <2>5. Members(requests) \subseteq Members(requests')
    BY <2>1, <2>3
  <2>6. SUFFICES ASSUME losses = 0, NEW x \in Patterns, callbacks'[x] # None
                 PROVE  x \in subscribed \cup Members(requests')
    BY <2>1 DEF TableIsSubscribed, Members
  <2>7. CASE callbacks[x] # None
    BY <2>5, <2>6, <2>7, <1>0 DEF TableIsSubscribed
  <2>8. CASE callbacks[x] = None
    <3>1. x = p
      BY <2>2, <2>6, <2>8
    <3>. QED
      BY <3>1, <2>1, <2>3, <2>4, <2>6, <2>8
  <2>. QED
    BY <2>7, <2>8
<1>2. ASSUME NEW i \in Inputs, Detach(i) PROVE TableIsSubscribed'
  <2>1. i \in Registered(i) /\ i \in Callbacks
    BY <1>0, <1>2, <1>b DEF Table, Detach
  <2>2. callbacks[i] # None /\ \A x \in Patterns \ {i} : callbacks'[x] = callbacks[x]
    BY <1>0, <1>2, <2>1, AfterDetach
  <2>3. requests' = requests /\ subscribed' = subscribed /\ losses' = losses
    BY <1>2 DEF Detach, wire
  <2>. QED
    BY <2>2, <2>3, <1>0, <1>b DEF TableIsSubscribed
<1>3. CASE Subscribe
  <2>1. /\ requests # <<>> /\ subscribed' = subscribed \cup {Head(requests)} /\ requests' = Tail(requests)
        /\ callbacks' = callbacks /\ losses' = losses
    BY <1>3 DEF Subscribe
  <2>2. Members(requests) = {Head(requests)} \cup Members(Tail(requests))
    BY <2>1, <1>0, Types, MembersTail
  <2>. QED
    BY <2>1, <2>2, <1>0 DEF TableIsSubscribed
<1>4. CASE Lose
  <2>1. losses' = losses + 1 /\ losses \in Nat
    BY <1>0, <1>4, Types DEF Lose
  <2>2. losses' # 0
    BY <2>1
  <2>. QED
    BY <2>2 DEF TableIsSubscribed
<1>5. ASSUME callbacks' = callbacks /\ requests' = requests /\ subscribed' = subscribed /\ losses' = losses
      PROVE  TableIsSubscribed'
  BY <1>0, <1>5 DEF TableIsSubscribed
<1>6. ASSUME NEW w \in Waits, NEW p \in Services, NEW t \in BOOLEAN, WaitForEvent(w, p, t)
      PROVE  TableIsSubscribed'
  BY <1>1, <1>6, <1>b DEF WaitForEvent
<1>7. ASSUME NEW i \in Inputs, Attach(i) PROVE TableIsSubscribed'
  BY <1>1, <1>7, <1>b DEF Attach
<1>. QED
  BY <1>2, <1>3, <1>4, <1>5, <1>6, <1>7
  DEF Next, Publish, MessageReceived, TimesOut, Reconnect, vars, wire

\* Nothing that is due is missed.
LEMMA KeepMissed == IInv /\ [Next]_vars => NothingMissed'
<1>. SUFFICES ASSUME IInv, [Next]_vars PROVE NothingMissed'
  OBVIOUS
<1>0. TypeOK /\ Table /\ NothingMissed
  BY DEF IInv
<1>b. /\ Inputs \subseteq Callbacks /\ Waits \subseteq Callbacks /\ Inputs \subseteq Patterns
      /\ Services \subseteq Patterns /\ Inputs \cap Waits = {} /\ Callbacks = Inputs \cup Waits
  BY BusAssumption DEF Callbacks, Patterns, BusAssumption
<1>c. state \in [Callbacks -> {"new", "waiting", "event", "timeout", "fired twice", "attached", "detached"}]
  BY <1>0, Types
<1>d. \A m \in Members(messages) : m.pattern \in Patterns
  <2>1. Members(messages) \subseteq Events
    BY <1>0, Types, MembersIn
  <2>. QED
    BY <2>1 DEF Events
<1>. DEFINE Coming(c, n) == \E m \in Members(messages) : m.number = n /\ c \in Registered(m.pattern)
            Got(c) == state[c] # "detached" => \A n \in due[c] : n \in Members(heard[c]) \/ Coming(c, n)
            Quiet(c) == state[c] = "waiting" => heard[c] = <<>>
<1>e. /\ NothingMissed <=> \A c \in Callbacks : Got(c) /\ Quiet(c)
      /\ NothingMissed' <=> \A c \in Callbacks : Got(c)' /\ Quiet(c)'
  BY DEF NothingMissed
<1>f. ASSUME NEW c \in Callbacks, messages' = messages, due' = due, heard' = heard,
             state'[c] = "detached" \/ state'[c] = state[c] \/ state'[c] \in {"event", "timeout", "fired twice"},
             state[c] # "detached" \/ state'[c] = "detached",
             \A p \in Patterns : c \in Registered(p) => state'[c] = "detached" \/ c \in Registered(p)'
      PROVE  Got(c)' /\ Quiet(c)'
  <2>1. Got(c) /\ Quiet(c)
    BY <1>0, <1>e
  <2>2. Quiet(c)'
    BY <2>1, <1>f
  <2>3. Got(c)'
    <3>1. SUFFICES ASSUME state'[c] # "detached", NEW n \in due[c], n \notin Members(heard[c])
                   PROVE  Coming(c, n)'
      BY <1>f
    <3>2. PICK m \in Members(messages) : m.number = n /\ c \in Registered(m.pattern)
      BY <3>1, <2>1, <1>f
    <3>3. c \in Registered(m.pattern)'
      BY <3>1, <3>2, <1>d, <1>f
    <3>4. m \in Members(messages)'
      BY <3>2, <1>f DEF Members
    <3>. QED
      BY <3>2, <3>3, <3>4
  <2>. QED
    BY <2>2, <2>3
<1>1. ASSUME NEW w \in Waits, TimesOut(w) PROVE NothingMissed'
  <2>1. /\ state' = [state EXCEPT ![w] = IF @ = "waiting" THEN "timeout" ELSE "fired twice"]
        /\ due' = due /\ heard' = heard /\ callbacks' = callbacks /\ messages' = messages
    BY <1>1 DEF TimesOut, wire
  <2>2. \A p \in Patterns : Registered(p)' = Registered(p)
    BY <2>1 DEF Registered
  <2>3. state[w] = "waiting"
    BY <1>1 DEF TimesOut, IInv, FiredOnce
  <2>4. \A c \in Callbacks : state'[c] = IF c = w THEN "timeout" ELSE state[c]
    BY <2>1, <2>3, <1>b, <1>c
  <2>5. ASSUME NEW c \in Callbacks PROVE Got(c)' /\ Quiet(c)'
    <3>1. \/ state'[c] = "timeout" /\ state[c] = "waiting"
          \/ state'[c] = state[c]
      BY <2>3, <2>4
    <3>. HIDE DEF Got, Quiet
    <3>. QED
      BY <3>1, <2>1, <2>2, <1>f
  <2>. QED
    BY <2>5, <1>e
<1>2. ASSUME NEW c \in Callbacks, NEW p \in Patterns, On(c, p), state[c] = "new",
             NEW s \in {"waiting", "attached"}, state' = [state EXCEPT ![c] = s]
      PROVE  NothingMissed'
  <2>1. due' = due /\ heard' = heard /\ messages' = messages
    BY <1>2 DEF On
  <2>2. \A x \in Patterns : Registered(x) \subseteq Registered(x)'
    BY <1>0, <1>2, AfterOn
  <2>3. \A d \in Callbacks : d # c => state'[d] = state[d]
    BY <1>2, <1>c
  <2>4. due[c] = {} /\ heard[c] = <<>>
    BY <1>0, <1>2 DEF Table
  <2>5. Got(c)' /\ Quiet(c)'
    BY <2>1, <2>4
  <2>6. \A d \in Callbacks : d # c => Got(d)' /\ Quiet(d)'
    BY <2>1, <2>2, <2>3, <1>f
  <2>. QED
    BY <2>5, <2>6, <1>e
<1>3. ASSUME NEW w \in Waits, NEW p \in Services, NEW t \in BOOLEAN, WaitForEvent(w, p, t)
      PROVE  NothingMissed'
  <2>1. On(w, p) /\ state[w] = "new" /\ state' = [state EXCEPT ![w] = "waiting"]
    BY <1>3 DEF WaitForEvent
  <2>. QED
    BY <2>1, <1>2, <1>b
<1>4. ASSUME NEW i \in Inputs, Attach(i) PROVE NothingMissed'
  <2>1. On(i, i) /\ state[i] = "new" /\ state' = [state EXCEPT ![i] = "attached"]
    BY <1>4 DEF Attach
  <2>. QED
    BY <2>1, <1>2, <1>b
<1>5. ASSUME NEW i \in Inputs, Detach(i) PROVE NothingMissed'
  <2>1. /\ state' = [state EXCEPT ![i] = "detached"] /\ state[i] = "attached"
        /\ due' = due /\ heard' = heard /\ messages' = messages
    BY <1>5 DEF Detach, wire
  <2>2. i \in Registered(i)
    BY <2>1, <1>0 DEF Table
  <2>3. \A x \in Patterns : Registered(x) \subseteq Registered(x)' \cup {i}
    BY <1>0, <1>5, <2>2, AfterDetach
  <2>4. /\ \A d \in Callbacks : d # i => state'[d] = state[d]
        /\ state'[i] = "detached"
    BY <2>1, <1>b, <1>c
  <2>5. ASSUME NEW c \in Callbacks PROVE Got(c)' /\ Quiet(c)'
    <3>1. state'[c] = "detached" \/ state'[c] = state[c]
      BY <2>4
    <3>2. state[c] # "detached" \/ state'[c] = "detached"
      BY <2>4
    <3>3. \A p \in Patterns : c \in Registered(p) => state'[c] = "detached" \/ c \in Registered(p)'
      BY <2>3, <2>4
    <3>. HIDE DEF Got, Quiet
    <3>. QED
      BY <3>1, <3>2, <3>3, <2>1, <1>f
  <2>. QED
    BY <2>5, <1>e
<1>6. ASSUME NEW p \in Patterns, Publish(p) PROVE NothingMissed'
  <2>. DEFINE n == published + 1
              e == [pattern |-> p, number |-> n]
  <2>1. /\ state' = state /\ heard' = heard /\ callbacks' = callbacks
        /\ messages' = IF p \in subscribed THEN Append(messages, e) ELSE messages
        /\ due' = [c \in Callbacks |-> IF p \in subscribed /\ c \in Registered(p)
                                       THEN due[c] \cup {n} ELSE due[c]]
    BY <1>6 DEF Publish
  <2>2. \A x \in Patterns : Registered(x)' = Registered(x)
    BY <2>1 DEF Registered
  <2>3. e \in Events
    <3>1. n <= MaxEvents
      BY <1>6 DEF Publish
    <3>2. n \in 1 .. MaxEvents
      <4>1. published \in Nat /\ MaxEvents \in Nat
        BY <1>0, Types, BusAssumption DEF BusAssumption
      <4>2. n \in Nat /\ 1 <= n
        BY <4>1
      <4>. HIDE DEF n
      <4>. QED
        BY <3>1, <4>1, <4>2
    <3>. HIDE DEF n
    <3>. QED
      BY <3>2 DEF Events
  <2>4. Members(messages)' = IF p \in subscribed THEN Members(messages) \cup {e} ELSE Members(messages)
    <3>1. messages \in Seq(Events)
      BY <1>0, Types
    <3>2. Members(Append(messages, e)) = Members(messages) \cup {e}
      <4>. HIDE DEF e
      <4>. QED
        BY <2>3, <3>1, MembersAppend
    <3>. QED
      BY <2>1, <3>2
  <2>. HIDE DEF n
  <2>5. ASSUME NEW c \in Callbacks PROVE Got(c)' /\ Quiet(c)'
    <3>1. Got(c) /\ Quiet(c)
      BY <1>0, <1>e
    <3>2. Got(c)'
      <4>1. SUFFICES ASSUME state[c] # "detached", NEW k \in due'[c], k \notin Members(heard[c])
                     PROVE  Coming(c, k)'
        BY <2>1
      <4>2. CASE k \in due[c]
        <5>1. PICK m \in Members(messages) : m.number = k /\ c \in Registered(m.pattern)
          BY <4>1, <4>2, <3>1
        <5>. QED
          BY <5>1, <2>2, <2>4, <1>d
      <4>3. CASE k \notin due[c]
        <5>1. k = n /\ p \in subscribed /\ c \in Registered(p)
          BY <4>1, <4>3, <2>1
        <5>2. e \in Members(messages)' /\ e.number = k /\ e.pattern = p
          BY <5>1, <2>4
        <5>. QED
          BY <5>1, <5>2, <2>2
      <4>. QED
        BY <4>2, <4>3
    <3>. QED
      BY <3>1, <3>2, <2>1
  <2>. QED
    BY <2>5, <1>e
<1>7. CASE Subscribe
  <2>1. messages' = messages /\ due' = due /\ heard' = heard /\ state' = state /\ callbacks' = callbacks
    BY <1>7 DEF Subscribe
  <2>. QED
    BY <2>1, <1>0 DEF NothingMissed, Registered
<1>8. CASE MessageReceived
  <2>. DEFINE h == Head(messages)
              called == Registered(h.pattern)
              woken == { w \in Waits \cap called : state[w] = "waiting" }
  <2>1. /\ callbacks' = callbacks /\ due' = due /\ messages # <<>> /\ messages' = Tail(messages)
        /\ heard' = [c \in Callbacks |-> IF c \in called THEN Append(heard[c], h.number) ELSE heard[c]]
        /\ state' = [c \in Callbacks |-> IF c \in woken THEN "event" ELSE state[c]]
    BY <1>8 DEF MessageReceived
  <2>2. \A x \in Patterns : Registered(x)' = Registered(x)
    BY <2>1 DEF Registered
  <2>3. Members(messages) = {h} \cup Members(messages)' /\ h.number \in 1 .. MaxEvents
    BY <2>1, <1>0, Types, MembersTail
  <2>4. \A c \in Callbacks : Members(heard[c])' = IF c \in called THEN Members(heard[c]) \cup {h.number}
                                                ELSE Members(heard[c])
    <3>1. ASSUME NEW c \in Callbacks
          PROVE  Members(Append(heard[c], h.number)) = Members(heard[c]) \cup {h.number}
      <4>1. heard[c] \in Seq(1 .. MaxEvents)
        BY <1>0, Types
      <4>. QED
        BY <4>1, <2>3, HeardAppend
    <3>. QED
      BY <2>1, <3>1
  <2>. HIDE DEF h, called
  <2>5. ASSUME NEW c \in Callbacks PROVE Got(c)' /\ Quiet(c)'
    <3>1. Got(c) /\ Quiet(c)
      BY <1>0, <1>e
    <3>2. Got(c)'
      <4>1. SUFFICES ASSUME state[c] # "detached", NEW k \in due[c], k \notin Members(heard[c])'
                     PROVE  Coming(c, k)'
        BY <2>1
      <4>2. PICK m \in Members(messages) : m.number = k /\ c \in Registered(m.pattern)
        BY <4>1, <3>1, <2>4
      <4>3. m # h
        BY <4>1, <4>2, <2>4 DEF called
      <4>4. m \in Members(messages)' /\ c \in Registered(m.pattern)'
        BY <4>2, <4>3, <2>2, <2>3, <1>d
      <4>. QED
        BY <4>2, <4>4
    <3>3. Quiet(c)'
      <4>1. SUFFICES ASSUME state'[c] = "waiting" PROVE heard'[c] = <<>>
        OBVIOUS
      <4>2. state[c] = "waiting" /\ c \notin woken /\ heard[c] = <<>>
        BY <4>1, <3>1, <2>1
      <4>3. c \in Waits
        BY <4>2, <1>0, <1>b DEF Table
      <4>. QED
        BY <4>2, <4>3, <2>1
    <3>. QED
      BY <3>2, <3>3
  <2>. QED
    BY <2>5, <1>e
<1>9. CASE Lose
  <2>1. /\ state' = state /\ heard' = heard
        /\ due' = [c \in Callbacks |-> due[c] \cap Members(heard[c])]
    BY <1>9 DEF Lose
  <2>. QED
    BY <2>1, <1>0 DEF NothingMissed
<1>10. CASE Reconnect
  <2>1. messages' = messages /\ due' = due /\ heard' = heard /\ state' = state /\ callbacks' = callbacks
    BY <1>10 DEF Reconnect
  <2>. QED
    BY <2>1, <1>0 DEF NothingMissed, Registered
<1>11. CASE UNCHANGED vars
  <2>1. messages' = messages /\ due' = due /\ heard' = heard /\ state' = state /\ callbacks' = callbacks
    BY <1>11 DEF vars, wire
  <2>. QED
    BY <2>1, <1>0 DEF NothingMissed, Registered
<1>. QED
  BY <1>1, <1>3, <1>4, <1>5, <1>6, <1>7, <1>8, <1>9, <1>10, <1>11 DEF Next

\* Events keep their order.
LEMMA KeepOrder == IInv /\ [Next]_vars => Order' /\ HeardInOrder'
<1>. SUFFICES ASSUME IInv, [Next]_vars PROVE Order' /\ HeardInOrder'
  OBVIOUS
<1>0. TypeOK /\ Order /\ HeardInOrder
  BY DEF IInv
<1>a. /\ published \in Nat /\ messages \in Seq(Events)
      /\ \A c \in Callbacks : heard[c] \in Seq(1 .. MaxEvents)
  BY <1>0, Types
<1>b. Members(messages) \subseteq Events /\ \A m \in Members(messages) : m.number \in Nat
  <2>1. Members(messages) \subseteq Events
    BY <1>a, MembersIn
  <2>. QED
    BY <2>1 DEF Events
<1>c. \A c \in Callbacks : \A n \in Members(heard[c]) : n \in Nat
  BY <1>a, HeardIn
<1>1. ASSUME messages' = messages, heard' = heard, published' = published
      PROVE  Order' /\ HeardInOrder'
  <2>1. Members(messages)' = Members(messages) /\ \A c \in Callbacks : Members(heard[c])' = Members(heard[c])
    BY <1>1
  <2>. QED
    BY <1>0, <1>1, <2>1 DEF Order, HeardInOrder
<1>2. CASE Lose
  <2>1. messages' = <<>> /\ heard' = heard /\ published' = published
    BY <1>2 DEF Lose
  <2>2. Members(messages)' = {} /\ \A c \in Callbacks : Members(heard[c])' = Members(heard[c])
    BY <2>1, MembersEmpty
  <2>3. DOMAIN messages' = {}
    BY <2>1
  <2>. QED
    BY <1>0, <2>1, <2>2, <2>3 DEF Order, HeardInOrder
<1>3. ASSUME NEW p \in Patterns, Publish(p) PROVE Order' /\ HeardInOrder'
  <2>. DEFINE n == published + 1
              e == [pattern |-> p, number |-> n]
  <2>1. heard' = heard /\ published' = n /\ n <= MaxEvents
    BY <1>3 DEF Publish
  <2>2. n \in 1 .. MaxEvents /\ n > published
    <3>1. MaxEvents \in Nat
      BY BusAssumption DEF BusAssumption
    <3>. QED
      BY <2>1, <3>1, <1>a
  <2>3. \A c \in Callbacks : \A k \in Members(heard[c])' : k \in Nat /\ k <= published /\ k < n
    <3>1. \A c \in Callbacks : \A k \in Members(heard[c]) : k \in Nat /\ k <= published
      BY <1>0, <1>c DEF Order
    <3>2. \A c \in Callbacks : Members(heard[c])' = Members(heard[c])
      BY <2>1
    <3>3. published < n
      BY <1>a
    <3>4. \A k \in Nat : k <= published => k < n
      BY <1>a
    <3>. QED
      BY <3>1, <3>2, <3>4
  <2>4. \A m \in Members(messages) : m.number <= published /\ m.number < n /\ m.number <= n
    BY <2>2, <1>0, <1>a, <1>b DEF Order
  <2>5. \A c \in Callbacks : \A k \in Members(heard[c])' : \A m \in Members(messages) : k < m.number
    BY <2>1, <1>0 DEF Order
  <2>6. HeardInOrder'
    BY <2>1, <1>0 DEF HeardInOrder
  <2>7. CASE messages' = messages
    <3>1. Members(messages)' = Members(messages)
      BY <2>7
    <3>2. \A k \in Nat : k <= published => k <= n
      BY <1>a
    <3>3. \A i, j \in DOMAIN messages' : i < j => messages'[i].number < messages'[j].number
      BY <2>7, <1>0 DEF Order
    <3>4. \A m \in Members(messages)' : m.number <= n
      BY <3>1, <2>4
    <3>5. \A c \in Callbacks : \A k \in Members(heard[c])' : k <= n /\ \A m \in Members(messages)' : k < m.number
      BY <3>1, <3>2, <2>3, <2>5
    <3>. QED
      BY <2>1, <2>6, <3>3, <3>4, <3>5 DEF Order
  <2>8. CASE messages' = Append(messages, e)
    <3>1. e \in Events /\ e.number = n
      BY <2>2 DEF Events
    <3>2. Members(messages)' = Members(messages) \cup {e}
      BY <2>8, <3>1, <1>a, MembersAppend
    <3>3. /\ DOMAIN messages' = 1 .. Len(messages) + 1 /\ DOMAIN messages = 1 .. Len(messages)
          /\ \A i \in 1 .. Len(messages) : messages'[i] = messages[i]
          /\ messages'[Len(messages) + 1] = e /\ Len(messages) \in Nat
      BY <2>8, <3>1, <1>a
    <3>4. ASSUME NEW i \in DOMAIN messages', NEW j \in DOMAIN messages', i < j
          PROVE  messages'[i].number < messages'[j].number
      <4>1. i \in 1 .. Len(messages) /\ messages'[i] = messages[i]
        BY <3>3, <3>4
      <4>2. CASE j = Len(messages) + 1
        <5>1. messages[i] \in Members(messages)
          BY <4>1, <1>a, InMembers
        <5>. QED
          BY <4>1, <4>2, <5>1, <3>1, <3>3, <2>4
      <4>3. CASE j # Len(messages) + 1
        <5>1. j \in DOMAIN messages /\ i \in DOMAIN messages /\ messages'[j] = messages[j]
          BY <4>1, <4>3, <3>3
        <5>. QED
          BY <4>1, <5>1, <3>4, <1>0 DEF Order
      <4>. QED
        BY <4>2, <4>3
    <3>5. \A m \in Members(messages)' : m.number <= n
      BY <3>1, <3>2, <2>2, <2>4
    <3>6. \A c \in Callbacks : \A k \in Members(heard[c])' : k <= n /\ \A m \in Members(messages)' : k < m.number
      BY <3>1, <3>2, <2>2, <2>3, <2>5
    <3>. QED
      BY <3>4, <3>5, <3>6, <2>1, <2>6 DEF Order
  <2>. QED
    BY <2>7, <2>8, <1>3 DEF Publish
<1>4. CASE MessageReceived
  <2>. DEFINE h == Head(messages)
              called == Registered(h.pattern)
  <2>1. /\ messages # <<>> /\ messages' = Tail(messages) /\ published' = published
        /\ heard' = [c \in Callbacks |-> IF c \in called THEN Append(heard[c], h.number) ELSE heard[c]]
    BY <1>4 DEF MessageReceived
  <2>2. /\ Members(messages) = {h} \cup Members(messages)'
        /\ h.number \in 1 .. MaxEvents
    BY <2>1, <1>0, <1>a, Types, MembersTail
  <2>3. /\ DOMAIN messages' = 1 .. Len(messages) - 1 /\ DOMAIN messages = 1 .. Len(messages)
        /\ \A i \in 1 .. Len(messages) - 1 : messages'[i] = messages[i + 1]
        /\ h = messages[1] /\ Len(messages) \in Nat \ {0}
    BY <2>1, <1>a
  <2>. HIDE DEF h, called
  <2>4. ASSUME NEW i \in DOMAIN messages', NEW j \in DOMAIN messages', i < j
        PROVE  messages'[i].number < messages'[j].number
    <3>1. /\ i + 1 \in DOMAIN messages /\ j + 1 \in DOMAIN messages /\ i + 1 < j + 1
          /\ messages'[i] = messages[i + 1] /\ messages'[j] = messages[j + 1]
      BY <2>3, <2>4
    <3>. QED
      BY <3>1, <1>0 DEF Order
  <2>5. \A m \in Members(messages)' : h.number < m.number /\ m.number <= published
    <3>1. SUFFICES ASSUME NEW i \in DOMAIN messages'
                   PROVE  h.number < messages'[i].number /\ messages'[i].number <= published
      BY DEF Members
    <3>2. 1 \in DOMAIN messages /\ i + 1 \in DOMAIN messages /\ 1 < i + 1 /\ messages'[i] = messages[i + 1]
      BY <2>3, <3>1
    <3>3. messages[i + 1] \in Members(messages)
      BY <3>2, <2>3, <1>a, InMembers
    <3>. QED
      BY <3>2, <3>3, <2>3, <1>0 DEF Order
  <2>6. h.number <= published /\ h.number \in Nat
    BY <2>2, <1>0, <1>b DEF Order
  <2>7. ASSUME NEW c \in Callbacks
        PROVE  /\ \A n \in Members(heard[c])' : n <= published /\ \A m \in Members(messages)' : n < m.number
               /\ \A i, j \in DOMAIN heard'[c] : i < j => heard'[c][i] < heard'[c][j]
    <3>1. heard[c] \in Seq(1 .. MaxEvents)
      BY <1>a
    <3>2. /\ \A n \in Members(heard[c]) : n <= published /\ n < h.number
          /\ \A n \in Members(heard[c]) : \A m \in Members(messages)' : n < m.number
          /\ \A i, j \in DOMAIN heard[c] : i < j => heard[c][i] < heard[c][j]
      BY <2>2, <1>0 DEF Order, HeardInOrder
    <3>3. CASE c \notin called
      <4>1. heard'[c] = heard[c]
        BY <3>3, <2>1
      <4>. QED
        BY <4>1, <3>2
    <3>4. CASE c \in called
      <4>1. heard'[c] = Append(heard[c], h.number)
        BY <3>4, <2>1
      <4>2. Members(heard[c])' = Members(heard[c]) \cup {h.number}
        BY <4>1, <3>1, <2>2, HeardAppend
      <4>3. /\ DOMAIN heard'[c] = 1 .. Len(heard[c]) + 1 /\ DOMAIN heard[c] = 1 .. Len(heard[c])
            /\ \A i \in 1 .. Len(heard[c]) : heard'[c][i] = heard[c][i]
            /\ heard'[c][Len(heard[c]) + 1] = h.number /\ Len(heard[c]) \in Nat
        BY <4>1, <3>1, <2>2
      <4>4. ASSUME NEW i \in DOMAIN heard'[c], NEW j \in DOMAIN heard'[c], i < j
            PROVE  heard'[c][i] < heard'[c][j]
        <5>1. i \in 1 .. Len(heard[c]) /\ heard'[c][i] = heard[c][i]
          BY <4>3, <4>4
        <5>2. CASE j = Len(heard[c]) + 1
          <6>1. heard[c][i] \in Members(heard[c])
            BY <5>1, <3>1, InMembers
          <6>. QED
            BY <5>1, <5>2, <6>1, <4>3, <3>2
        <5>3. CASE j # Len(heard[c]) + 1
          <6>1. j \in DOMAIN heard[c] /\ i \in DOMAIN heard[c] /\ heard'[c][j] = heard[c][j]
            BY <5>1, <5>3, <4>3
          <6>. QED
            BY <5>1, <6>1, <4>4, <3>2
        <5>. QED
          BY <5>2, <5>3
      <4>5. \A n \in Members(heard[c])' : n <= published /\ \A m \in Members(messages)' : n < m.number
        BY <4>2, <3>2, <2>5, <2>6
      <4>. QED
        BY <4>4, <4>5
    <3>. QED
      BY <3>3, <3>4
  <2>. QED
    BY <2>1, <2>4, <2>5, <2>7 DEF Order, HeardInOrder
<1>5. (\E w \in Waits : TimesOut(w) \/ \E p \in Services, t \in BOOLEAN : WaitForEvent(w, p, t))
      \/ (\E i \in Inputs : Attach(i) \/ Detach(i)) \/ Subscribe \/ Reconnect \/ UNCHANGED vars
      => messages' = messages /\ heard' = heard /\ published' = published
  BY DEF TimesOut, WaitForEvent, Attach, Detach, On, Subscribe, Reconnect, vars, wire
<1>. QED
  BY <1>1, <1>2, <1>3, <1>4, <1>5 DEF Next

-----------------------------------------------------------------------------
(* Theorems *)

LEMMA Invariance == Spec => []IInv
<1>1. IInv /\ [Next]_vars => IInv'
  BY KeepTypes, KeepTable, KeepFired, KeepSubscribed, KeepMissed, KeepOrder DEF IInv
<1>. QED
  BY <1>1, InitInv, PTL DEF Spec

\* Every reachable state of the bus is well typed.
THEOREM BusTypes == Spec => []TypeOK
<1>1. IInv => TypeOK
  BY DEF IInv
<1>. QED
  BY <1>1, Invariance, PTL

\* A Deferred of wait_for_event is fired once, whatever the order in which the event
\* and the timer come.
THEOREM WaitsFireOnce == Spec => []FiredOnce
<1>1. IInv => FiredOnce
  BY DEF IInv
<1>. QED
  BY <1>1, Invariance, PTL

\* While the first connection lasts, every pattern in the table is subscribed or will be.
THEOREM TableStaysSubscribed == Spec => []TableIsSubscribed
<1>1. IInv => TableIsSubscribed
  BY DEF IInv
<1>. QED
  BY <1>1, Invariance, PTL

\* What Redis has sent on a connection that lasts reaches every callback of its pattern.
THEOREM NothingIsMissed == Spec => []NothingMissed
<1>1. IInv => NothingMissed
  BY DEF IInv
<1>. QED
  BY <1>1, Invariance, PTL

\* Callbacks are called in the order of publication, once for each event.
THEOREM EventsInOrder == Spec => []HeardInOrder
<1>1. IInv => HeardInOrder
  BY DEF IInv
<1>. QED
  BY <1>1, Invariance, PTL
=============================================================================
