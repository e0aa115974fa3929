------------------------------ MODULE EventBus ------------------------------
(***************************************************************************)
(* The event bus of mcloud-server (mcloud/events.py) with the two things   *)
(* that use it: the wait of task_start for the ready report of a service   *)
(* (wait_for_event, with the timer of util.py's txtimeout) and the keys of *)
(* a terminal (on and cancel in txdocker.py's attach).                     *)
(*                                                                         *)
(* The bus has a connection to Redis of its own, only for subscriptions.   *)
(* The factory opens a new one when it is lost; the table of callbacks is  *)
(* an attribute of the class and outlives it.                              *)
(***************************************************************************)
EXTENDS Naturals, Sequences

CONSTANTS
    Services,       \* a service waits for the pattern api.<service>.*
    Waits,          \* calls of wait_for_event
    Inputs,         \* attached terminals, each listens to its own task.stdin.<ticket>
    None,           \* no entry in the table
    MaxEvents,      \* bound on the events published
    MaxLosses       \* bound on the connections lost

ASSUME BusAssumption ==
    /\ Services \cap Inputs = {} /\ Waits \cap Inputs = {}
    /\ None \notin Seq(Waits \cup Inputs)
    /\ MaxEvents \in Nat /\ MaxLosses \in Nat

Patterns == Services \cup Inputs
Callbacks == Waits \cup Inputs
Events == [pattern : Patterns, number : 1 .. MaxEvents]

VARIABLES
    connected,      \* whether EventBus.protocol has its connection
    callbacks,      \* EventBusProtocol.callbacks
    requests,       \* subscriptions under way to Redis
    subscribed,     \* what Redis has of this connection
    messages,       \* messages under way from Redis
    state,          \* what has become of each wait and each terminal
    timer,          \* the waits whose delayedCall is active
    published,      \* how many events there have been
    losses,         \* how many connections have been lost
    due,            \* history: events that Redis sent while the callback was registered
    heard           \* history: events each callback was called with, in order

wire == <<connected, requests, subscribed, messages>>
vars == <<wire, callbacks, state, timer, published, losses, due, heard>>

Members(q) == { q[i] : i \in DOMAIN q }

\* list.remove, for a callback that was registered once
Without(q, x) ==
    LET k == CHOOSE i \in DOMAIN q : q[i] = x
    IN  [i \in 1 .. Len(q) - 1 |-> IF i < k THEN q[i] ELSE q[i + 1]]

Registered(p) == IF callbacks[p] = None THEN {} ELSE Members(callbacks[p])

-----------------------------------------------------------------------------
(* Registering *)

\* EventBusProtocol.on: only the first callback of a pattern subscribes, and a
\* request written to a lost connection is gone.
On(c, p) ==
    /\ callbacks' = [callbacks EXCEPT ![p] = Append(IF @ = None THEN <<>> ELSE @, c)]
    /\ requests' = IF callbacks[p] = None /\ connected THEN Append(requests, p) ELSE requests
    /\ UNCHANGED <<connected, subscribed, messages, published, losses, due, heard>>

\* wait_for_event; a timeout of zero means none.
WaitForEvent(w, p, timeout) ==
    /\ state[w] = "new"
    /\ On(w, p)
    /\ state' = [state EXCEPT ![w] = "waiting"]
    /\ timer' = IF timeout THEN timer \cup {w} ELSE timer

\* Mutation: the keys of a terminal are awaited with a timeout.
Bug_Attach(i) ==
    /\ state[i] = "new"
    /\ On(i, i)
    /\ state' = [state EXCEPT ![i] = "attached"]
    /\ timer' = timer \cup {i}

Attach(i) ==
    /\ state[i] = "new"
    /\ On(i, i)
    /\ state' = [state EXCEPT ![i] = "attached"]
    /\ UNCHANGED timer

\* Mutation: the subscription is cancelled, and the pattern stays in the table.
Bug_Detach(i) ==
    /\ state[i] = "attached"
    /\ state' = [state EXCEPT ![i] = "detached"]
    /\ callbacks' = [callbacks EXCEPT ![i] = Without(@, i)]
    /\ subscribed' = subscribed \ {i}
    /\ UNCHANGED <<connected, requests, messages, timer, published, losses, due, heard>>

\* The finally of attach; the pattern stays in the table.
Detach(i) ==
    /\ state[i] = "attached"
    /\ state' = [state EXCEPT ![i] = "detached"]
    /\ callbacks' = [callbacks EXCEPT ![i] = Without(@, i)]
    /\ UNCHANGED <<wire, timer, published, losses, due, heard>>

-----------------------------------------------------------------------------
(* Redis and the connection *)

Subscribe ==
    /\ requests # <<>>
    /\ subscribed' = subscribed \cup {Head(requests)}
    /\ requests' = Tail(requests)
    /\ UNCHANGED <<connected, callbacks, messages, state, timer, published, losses, due, heard>>

\* fire_event, over the other connection
Publish(p) ==
    LET n == published + 1
    IN  /\ n <= MaxEvents
        /\ published' = n
        /\ messages' = IF p \in subscribed THEN Append(messages, [pattern |-> p, number |-> n])
                       ELSE messages
        /\ due' = [c \in Callbacks |-> IF p \in subscribed /\ c \in Registered(p)
                                       THEN due[c] \cup {n} ELSE due[c]]
        /\ UNCHANGED <<connected, callbacks, requests, subscribed, state, timer, losses, heard>>

\* Mutation: the timers go with the connection.
Bug_Lose ==
    /\ connected /\ losses < MaxLosses
    /\ losses' = losses + 1
    /\ connected' = FALSE
    /\ requests' = <<>> /\ subscribed' = {} /\ messages' = <<>>
    /\ due' = [c \in Callbacks |-> due[c] \cap Members(heard[c])]
    /\ timer' = {}
    /\ UNCHANGED <<callbacks, state, published, heard>>

\* What was under way is lost, and with it what was due.
Lose ==
    /\ connected /\ losses < MaxLosses
    /\ losses' = losses + 1
    /\ connected' = FALSE
    /\ requests' = <<>> /\ subscribed' = {} /\ messages' = <<>>
    /\ due' = [c \in Callbacks |-> due[c] \cap Members(heard[c])]
    /\ UNCHANGED <<callbacks, state, timer, published, heard>>

\* connectionMade of the next protocol: nothing is subscribed again.
Reconnect ==
    /\ ~connected
    /\ connected' = TRUE
    /\ UNCHANGED <<callbacks, requests, subscribed, messages, state, timer, published, losses, due, heard>>

-----------------------------------------------------------------------------
(* Messages and timers *)

\* Mutation: an event that ends a wait leaves its timer running.
Bug_Timer ==
    LET m == Head(messages)
        called == Registered(m.pattern)
        woken == { w \in Waits \cap called : state[w] = "waiting" }
    IN  /\ messages # <<>>
        /\ messages' = Tail(messages)
        /\ heard' = [c \in Callbacks |-> IF c \in called THEN Append(heard[c], m.number) ELSE heard[c]]
        /\ state' = [c \in Callbacks |-> IF c \in woken THEN "event" ELSE state[c]]
        /\ UNCHANGED <<timer, connected, requests, subscribed, callbacks, published, losses, due>>

\* Mutation: callbacks remove themselves from the list that is gone over, as those
\* of once do, and each makes the loop skip the next.
Bug_Once ==
    LET m == Head(messages)
        list == IF callbacks[m.pattern] = None THEN <<>> ELSE callbacks[m.pattern]
        called == { list[i] : i \in { j \in DOMAIN list : j % 2 = 1 } }
        woken == { w \in Waits \cap called : state[w] = "waiting" }
    IN  /\ messages # <<>>
        /\ messages' = Tail(messages)
        /\ heard' = [c \in Callbacks |-> IF c \in called THEN Append(heard[c], m.number) ELSE heard[c]]
        /\ state' = [c \in Callbacks |-> IF c \in woken THEN "event" ELSE state[c]]
        /\ timer' = timer \ woken
        /\ callbacks' = IF list = <<>> THEN callbacks
                        ELSE [callbacks EXCEPT ![m.pattern] = SelectSeq(@, LAMBDA c : c \notin called)]
        /\ UNCHANGED <<connected, requests, subscribed, published, losses, due>>

\* Mutation: the message that came last is handled first.
Bug_LastFirst ==
    LET m == messages[Len(messages)]
        called == Registered(m.pattern)
        woken == { w \in Waits \cap called : state[w] = "waiting" }
    IN  /\ messages # <<>>
        /\ messages' = SubSeq(messages, 1, Len(messages) - 1)
        /\ heard' = [c \in Callbacks |-> IF c \in called THEN Append(heard[c], m.number) ELSE heard[c]]
        /\ state' = [c \in Callbacks |-> IF c \in woken THEN "event" ELSE state[c]]
        /\ timer' = timer \ woken
        /\ UNCHANGED <<connected, requests, subscribed, callbacks, published, losses, due>>

\* Every callback of the pattern is called.  That of a wait fires its Deferred
\* unless it has been fired, and gotResult cancels the timer.
MessageReceived ==
    LET m == Head(messages)
        called == Registered(m.pattern)
        woken == { w \in Waits \cap called : state[w] = "waiting" }
    IN  /\ messages # <<>>
        /\ messages' = Tail(messages)
        /\ heard' = [c \in Callbacks |-> IF c \in called THEN Append(heard[c], m.number) ELSE heard[c]]
        /\ state' = [c \in Callbacks |-> IF c \in woken THEN "event" ELSE state[c]]
        /\ timer' = timer \ woken
        /\ UNCHANGED <<connected, requests, subscribed, callbacks, published, losses, due>>

\* _raise: errback on a Deferred that has been fired is an AlreadyCalledError.
TimesOut(w) ==
    /\ w \in timer
    /\ timer' = timer \ {w}
    /\ state' = [state EXCEPT ![w] = IF @ = "waiting" THEN "timeout" ELSE "fired twice"]
    /\ UNCHANGED <<wire, callbacks, published, losses, due, heard>>

-----------------------------------------------------------------------------
(* Specification *)

\* The server awaits the first connection before it does anything else.
Init ==
    /\ connected = TRUE
    /\ requests = <<>> /\ subscribed = {} /\ messages = <<>>
    /\ callbacks = [p \in Patterns |-> None]
    /\ state = [c \in Callbacks |-> "new"]
    /\ timer = {}
    /\ published = 0 /\ losses = 0
    /\ due = [c \in Callbacks |-> {}]
    /\ heard = [c \in Callbacks |-> <<>>]

Next ==
    \/ \E w \in Waits : TimesOut(w) \/ \E p \in Services, t \in BOOLEAN : WaitForEvent(w, p, t)
    \/ \E i \in Inputs : Attach(i) \/ Detach(i)
    \/ \E p \in Patterns : Publish(p)
    \/ Subscribe \/ MessageReceived \/ Lose \/ Reconnect

Spec == Init /\ [][Next]_vars

\* The reactor calls what is due, and Redis executes what it is sent.
Fairness ==
    /\ WF_vars(Subscribe) /\ WF_vars(MessageReceived)
    /\ \A w \in Waits : WF_vars(TimesOut(w))
FairSpec == Spec /\ Fairness

-----------------------------------------------------------------------------
(* Properties *)

\* The types of the state.
TypeOK ==
    /\ connected \in BOOLEAN
    /\ callbacks \in [Patterns -> Seq(Callbacks) \cup {None}]
    /\ requests \in Seq(Patterns) /\ subscribed \subseteq Patterns
    /\ messages \in Seq(Events)
    /\ state \in [Callbacks -> {"new", "waiting", "event", "timeout", "fired twice", "attached", "detached"}]
    /\ timer \subseteq Waits
    /\ published \in 0 .. MaxEvents /\ losses \in 0 .. MaxLosses
    /\ due \in [Callbacks -> SUBSET (1 .. MaxEvents)]
    /\ heard \in [Callbacks -> Seq(1 .. MaxEvents)]

\* The event and the timeout of a wait may come in the same moment, and events come
\* for waits that are over, whose callbacks stay in the table: the Deferred of a wait
\* is fired once, and its timer runs only while it has not been.
FiredOnce ==
    \A w \in Waits : /\ state[w] # "fired twice"
                     /\ w \in timer => state[w] = "waiting"

\* As long as the first connection lasts, whoever is in the table is heard by Redis:
\* a later callback of a pattern relies on the request the first one made, even if
\* that first one has gone.
TableIsSubscribed ==
    losses = 0 => \A p \in Patterns : callbacks[p] # None => p \in subscribed \cup Members(requests)

\* What Redis has sent on a connection that lasts reaches every callback that was
\* registered then and has not been cancelled, however many share the pattern: it
\* was called with it or the message is under way, and a wait that an event has
\* reached is over.
NothingMissed ==
    \A c \in Callbacks :
        /\ state[c] # "detached" =>
              \A n \in due[c] : \/ n \in Members(heard[c])
                                \/ \E m \in Members(messages) : m.number = n /\ c \in Registered(m.pattern)
        /\ state[c] = "waiting" => heard[c] = <<>>

\* A callback is called once for an event, and in the order the events were
\* published, over all connections.
HeardInOrder ==
    \A c \in Callbacks : \A i, j \in DOMAIN heard[c] : i < j => heard[c][i] < heard[c][j]

\* A wait that an event is on its way to ends unless the connection is lost, and a
\* wait with a timer ends whatever is lost.
WaitsEnd ==
    \A w \in Waits :
        /\ (w \in timer) ~> (state[w] \in {"event", "timeout"})
        /\ (state[w] = "waiting" /\ due[w] # {}) ~> (state[w] # "waiting" \/ ~connected)
=============================================================================
