------------------------------ MODULE WebClient ------------------------------
(***************************************************************************)
(* The web page of mcloud-server: the reconnecting socket                  *)
(* (reconnecting-websocket.js), the client of the task RPC over it         *)
(* (assets/js/mcloud.js) and the controller of the page                    *)
(* (assets/js/app.js).                                                     *)
(*                                                                         *)
(* JavaScript runs one event at a time: one action is one event of the     *)
(* browser (a click, a message, a change of the socket, a timer) with every *)
(* callback and every continuation of a promise it leads to.  The server is *)
(* TaskRpc seen from one connection: it numbers the tasks it starts, sends *)
(* the events of a task after the answer that gave its number, and kills   *)
(* what it finds in its tables when the connection is gone.  A start that  *)
(* is not there yet begins afterwards, for nobody.                         *)
(***************************************************************************)
EXTENDS Naturals, Sequences

CONSTANTS
    Names,          \* the names of the services in the table
    None,           \* undefined
    MaxRequests,    \* bound on request_id
    MaxChannel      \* bound on the messages under way to the page, two at a kill

VARIABLES
    ws,             \* the socket: "connecting", "open", "closing", "none"
    reconnectAttempt, \* the variable of connect() that suppresses 'close'
    online,         \* McloudIO.online
    waiting,        \* the calls whose promise waits for 'connect', in order
    request_id,     \* McloudIO.request_id
    requests,       \* the calls whose promise waits for an answer, by id
    c2s,            \* requests under way to the server
    s2c,            \* messages under way to the page, or not handled yet
    tasks,          \* server: the call that started each ticket
    live,           \* server: tickets of this connection that have not ended
    late,           \* server: requests of connections that are gone, under way inside
    orphans,        \* server: tickets of connections that are gone that run on
    heard,          \* the tickets that have a McloudIOTask with its listeners
    loaded,         \* how many times the table has been filled
    selected,       \* selection.service
    tab,            \* selection.service_tab
    service_tasks,  \* the tickets to kill at the next selection
    terminal,       \* the terminals of each service object, by tab
    typing          \* who listens to the keys of each run terminal

socket == <<ws, reconnectAttempt, online>>
calls == <<waiting, request_id, requests>>
server == <<tasks, live, late, orphans>>
page == <<loaded, selected, tab, service_tasks, terminal, typing>>
vars == <<socket, calls, c2s, s2c, server, heard, page>>

\* Every answer to list fills the table with new objects.
Services == Names \X (1 .. MaxRequests)
Ids == 0 .. MaxRequests - 1
Tickets == 1 .. MaxRequests
Panes == {"logs", "run"}
Tabs == {"inspect"} \cup Panes
Starts == {"list"} \cup Tabs

Call(w, s, t) == [word |-> w, service |-> s, ticket |-> t]
Calls == [word : Starts \cup {"kill", "stdin"}, service : Services \cup {None}, ticket : Tickets \cup {0}]

\* The page loads with one request.
ASSUME WebAssumption ==
    /\ MaxRequests \in Nat \ {0} /\ MaxChannel \in Nat
    /\ None \notin Names /\ None \notin Calls

Response(i, t) == [type |-> "response", id |-> i, ticket |-> t]
Event(name, t) == [type |-> name, id |-> 0, ticket |-> t]

Members(q) == { q[i] : i \in DOMAIN q }

-----------------------------------------------------------------------------
(* The socket *)

\* Mutation: the counter of the requests is advanced once for all that waited.
Bug_Transmit(q, up) ==
    /\ request_id' = IF q = <<>> THEN request_id ELSE request_id + 1
    /\ requests' = [i \in Ids |->
                      IF \E j \in DOMAIN q : i = request_id + j - 1 /\ q[j].word # "stdin"
                      THEN q[i - request_id + 1] ELSE requests[i]]
    /\ c2s' = IF up THEN c2s \o [j \in DOMAIN q |-> [id |-> request_id + j - 1, call |-> q[j]]]
              ELSE c2s

\* McloudIO.call for each of q: up tells whether what is sent reaches the server,
\* a socket that is closing takes it and drops it.  stdin is never answered.
Transmit(q, up) ==
    /\ request_id' = request_id + Len(q)
    /\ requests' = [i \in Ids |->
                      IF \E j \in DOMAIN q : i = request_id + j - 1 /\ q[j].word # "stdin"
                      THEN q[i - request_id + 1] ELSE requests[i]]
    /\ c2s' = IF up THEN c2s \o [j \in DOMAIN q |-> [id |-> request_id + j - 1, call |-> q[j]]]
              ELSE c2s

\* McloudIO.request: at once, or when the socket opens
Issue(q) ==
    /\ request_id + Len(waiting) + Len(q) <= MaxRequests
    /\ \/ online /\ Transmit(q, ws = "open") /\ UNCHANGED waiting
       \/ ~online /\ waiting' = waiting \o q /\ UNCHANGED <<request_id, requests, c2s>>

\* Mutation: an attempt that succeeds does not end the reconnection.
Bug_Opens ==
    /\ ws = "connecting"
    /\ ws' = "open"
    /\ online' = TRUE
    /\ Transmit(waiting, TRUE)
    /\ waiting' = <<>>
    /\ UNCHANGED <<reconnectAttempt, s2c, server, heard, page>>

\* onopen: 'connect' resolves the promises that wait for it, online is set, and the
\* continuations of the promises send their requests.
Opens ==
    /\ ws = "connecting"
    /\ ws' = "open"
    /\ reconnectAttempt' = FALSE
    /\ online' = TRUE
    /\ Transmit(waiting, TRUE)
    /\ waiting' = <<>>
    /\ UNCHANGED <<s2c, server, heard, page>>

\* The attempt is refused, or the timer of connect() closes the socket.
GivesUp ==
    /\ ws = "connecting"
    /\ ws' = "closing"
    /\ UNCHANGED <<reconnectAttempt, online, calls, c2s, s2c, server, heard, page>>

\* The connection is lost, or the server closes it: what has arrived at either end
\* will still be handled, the rest is lost.  The server kills the tasks it finds in
\* tasks_running, none before it notices the loss: those of T run on, because they
\* were answered and not begun, or because it has not noticed.
Drops ==
    /\ ws = "open"
    /\ ws' = "closing"
    /\ c2s' = <<>>
    /\ \E n \in 0 .. Len(c2s) : late' = late \o SubSeq(c2s, 1, n)
    /\ \E n \in 0 .. Len(s2c) : s2c' = SubSeq(s2c, 1, n)
    /\ live' = {}
    /\ \E T \in SUBSET live : orphans' = orphans \cup T
    /\ UNCHANGED <<reconnectAttempt, online, calls, tasks, heard, page>>

\* Mutation: a socket that failed while reconnecting is given up.
Bug_Closed ==
    /\ ws = "closing"
    /\ s2c = <<>>
    /\ ~reconnectAttempt
    /\ ws' = "none"
    /\ online' = FALSE
    /\ UNCHANGED <<reconnectAttempt, calls, c2s, s2c, server, heard, page>>

\* onclose.  The listener hears 'close' only if this socket had been open, or was
\* the first one; timedOut is always false by now.
Closed ==
    /\ ws = "closing"
    /\ s2c = <<>>
    /\ ws' = "none"
    /\ online' = (online /\ reconnectAttempt)
    /\ UNCHANGED <<reconnectAttempt, calls, c2s, s2c, server, heard, page>>

\* The timer of onclose calls connect(true).
Reconnects ==
    /\ ws = "none"
    /\ ws' = "connecting"
    /\ reconnectAttempt' = TRUE
    /\ UNCHANGED <<online, calls, c2s, s2c, server, heard, page>>

-----------------------------------------------------------------------------
(* The server *)

\* What INCR gives next.
NewTicket == CHOOSE n \in Tickets : tasks[n] = None /\ \A k \in 1 .. n - 1 : tasks[k] # None

\* Mutation: a task that fails at once reports it before the answer.
Bug_Serve(i) ==
    LET m == c2s[i]
    IN  /\ Len(s2c) < MaxChannel
        /\ i = 1
        /\ c2s' = Tail(c2s)
        /\ \/ /\ m.call.word \in Starts
              /\ tasks' = [tasks EXCEPT ![NewTicket] = m.call]
              /\ s2c' = s2c \o <<Event("failure", NewTicket), Response(m.id, NewTicket)>>
              /\ UNCHANGED <<live, late, orphans>>
           \/ m.call.word \notin Starts /\ UNCHANGED <<server, s2c>>
        /\ UNCHANGED <<socket, calls, heard, page>>

\* A request that waits for Redis, as the start of a task does, lets later ones pass;
\* if Redis is lost it is never answered.
Serve(i) ==
    LET m == c2s[i]
        t == m.call.ticket
    IN  /\ Len(s2c) < MaxChannel
        /\ \/ i = 1
           \/ /\ m.call.word \notin Starts
              /\ \A j \in 1 .. i - 1 : c2s[j].call.word \in Starts
        /\ c2s' = SubSeq(c2s, 1, i - 1) \o SubSeq(c2s, i + 1, Len(c2s))
        /\ \/ /\ m.call.word \in Starts
              /\ tasks' = [tasks EXCEPT ![NewTicket] = m.call]
              /\ live' = live \cup {NewTicket}
              /\ s2c' = Append(s2c, Response(m.id, NewTicket))
              /\ UNCHANGED <<late, orphans>>
           \/ /\ m.call.word = "kill"
              /\ live' = live \ {t}
              /\ orphans' = orphans \ {t}
              /\ s2c' = s2c \o (IF t \in live THEN <<Event("failure", t)>> ELSE <<>>)
                            \o <<Response(m.id, 0)>>
              /\ UNCHANGED <<tasks, late>>
           \/ m.call.word # "kill" /\ UNCHANGED <<server, s2c>>
        /\ UNCHANGED <<socket, calls, heard, page>>

\* A line of the log, or output of the command.
Output(t) ==
    /\ t \in live /\ tasks[t].word \in Panes
    /\ Len(s2c) < MaxChannel
    /\ s2c' = Append(s2c, Event("output", t))
    /\ UNCHANGED <<socket, calls, c2s, server, heard, page>>

TaskEnds(t, outcome) ==
    /\ t \in live
    /\ Len(s2c) < MaxChannel
    /\ live' = live \ {t}
    /\ s2c' = Append(s2c, Event(outcome, t))
    /\ UNCHANGED <<socket, calls, c2s, tasks, late, orphans, heard, page>>

\* on_message goes on for a connection that is gone: a start gets its number from
\* Redis and begins, its answer and its events go nowhere.
ServeLate ==
    LET c == Head(late).call
    IN  /\ late # <<>>
        /\ late' = Tail(late)
        /\ \/ /\ c.word \in Starts
              /\ tasks' = [tasks EXCEPT ![NewTicket] = c]
              /\ orphans' = orphans \cup {NewTicket}
           \/ c.word = "kill" /\ orphans' = orphans \ {c.ticket} /\ UNCHANGED tasks
           \/ c.word \notin Starts \cup {"kill"} /\ UNCHANGED <<tasks, orphans>>
        /\ UNCHANGED <<socket, calls, c2s, s2c, live, heard, page>>

\* It ends, or the server notices at last that its connection is gone.
OrphanEnds(t) ==
    /\ t \in orphans
    /\ orphans' = orphans \ {t}
    /\ UNCHANGED <<socket, calls, c2s, s2c, tasks, live, late, heard, page>>

-----------------------------------------------------------------------------
(* What the page does with messages *)

Take == ws \in {"open", "closing"} /\ s2c # <<>> /\ s2c' = Tail(s2c)

\* Mutation: the task of a terminal is noted only while its tab is shown.
Bug_ReceiveResponse ==
    LET m == Head(s2c)
        c == requests[m.id]
    IN  /\ Take /\ m.type = "response"
        /\ requests' = [requests EXCEPT ![m.id] = None]
        /\ \/ /\ c # None /\ c.word \in Starts
              /\ heard' = heard \cup {m.ticket}
              /\ service_tasks' = IF c.word \in Panes /\ c.word = tab THEN Append(service_tasks, m.ticket)
                                  ELSE service_tasks
              /\ typing' = IF c.word = "run" THEN [typing EXCEPT ![c.service] = Append(@, m.ticket)]
                           ELSE typing
           \/ (c = None \/ c.word \notin Starts) /\ UNCHANGED <<heard, service_tasks, typing>>
        /\ UNCHANGED <<socket, waiting, request_id, c2s, server, loaded, selected, tab, terminal>>

\* on_response: the promise of the call.  A task that was started gets its
\* listeners; one for a terminal is noted to be killed later, and the keys typed
\* into a run terminal go to it.
ReceiveResponse ==
    LET m == Head(s2c)
        c == requests[m.id]
    IN  /\ Take /\ m.type = "response"
        /\ requests' = [requests EXCEPT ![m.id] = None]
        /\ \/ /\ c # None /\ c.word \in Starts
              /\ heard' = heard \cup {m.ticket}
              /\ service_tasks' = IF c.word \in Panes THEN Append(service_tasks, m.ticket)
                                  ELSE service_tasks
              /\ typing' = IF c.word = "run" THEN [typing EXCEPT ![c.service] = Append(@, m.ticket)]
                           ELSE typing
           \/ (c = None \/ c.word \notin Starts) /\ UNCHANGED <<heard, service_tasks, typing>>
        /\ UNCHANGED <<socket, waiting, request_id, c2s, server, loaded, selected, tab, terminal>>

\* An event goes to the listeners of its task.  Output is written to a terminal, a
\* list fills the table, and a failure is heard by nobody: its promise never settles.
ReceiveEvent ==
    LET m == Head(s2c)
    IN  /\ Take /\ m.type # "response"
        /\ loaded' = IF m.type = "success" /\ m.ticket \in heard /\ tasks[m.ticket].word = "list"
                     THEN loaded + 1 ELSE loaded
        /\ UNCHANGED <<socket, calls, c2s, server, heard, selected, tab, service_tasks, terminal, typing>>

-----------------------------------------------------------------------------
(* What the page does with clicks *)

\* Mutation: a selection that kills nothing still sends a kill.
Bug_Kills == IF service_tasks = <<>> THEN <<[Call("kill", None, 0) EXCEPT !.ticket = None]>>
             ELSE [i \in DOMAIN service_tasks |-> Call("kill", None, service_tasks[i])]

Kills == [i \in DOMAIN service_tasks |-> Call("kill", None, service_tasks[i])]

\* A terminal is created once; one that was destroyed is kept as it is.
Created(ts, w, s) ==
    IF w \in Panes /\ ts[w][s] = "none" THEN [ts EXCEPT ![w][s] = "open"] ELSE ts
\* Mutation: a terminal that is destroyed is removed from its service.
Bug_Destroyed(ts, s) ==
    [p \in Panes |-> [x \in Services |-> IF x = s THEN "none" ELSE ts[p][x]]]

Destroyed(ts, s) ==
    [p \in Panes |-> [x \in Services |->
        IF x = s /\ ts[p][x] # "none" THEN "destroyed" ELSE ts[p][x]]]

\* select_app
SelectApp ==
    /\ Issue(Kills)
    /\ service_tasks' = <<>>
    /\ selected' = None
    /\ UNCHANGED <<socket, s2c, server, heard, loaded, tab, terminal, typing>>

\* select_service: what the tab shows is started for the new service, except a
\* command, which is not run again.
SelectService(s) ==
    LET w == IF tab = None THEN "inspect" ELSE tab
    IN  /\ s[2] = loaded
        /\ Issue(Kills \o IF w = "run" THEN <<>> ELSE <<Call(w, s, 0)>>)
        /\ service_tasks' = <<>>
        /\ terminal' = IF w = "run" THEN Destroyed(terminal, selected)
                       ELSE Created(Destroyed(terminal, selected), w, s)
        /\ typing' = [x \in Services |-> IF x = selected /\ terminal["run"][x] # "none" THEN <<>>
                                         ELSE typing[x]]
        /\ selected' = s
        /\ tab' = w
        /\ UNCHANGED <<socket, s2c, server, heard, loaded>>

\* service_inspect, service_logs and service_run, which kill nothing
OpenTab(w) ==
    /\ selected # None
    /\ Issue(<<Call(w, selected, 0)>>)
    /\ tab' = w
    /\ terminal' = Created(terminal, w, selected)
    /\ UNCHANGED <<socket, s2c, server, heard, loaded, selected, service_tasks, typing>>

\* update_apps
UpdateApps ==
    /\ Issue(<<Call("list", None, 0)>>)
    /\ UNCHANGED <<socket, s2c, server, heard, page>>

\* A key is sent to every task that was ever run in the terminal, without waiting
\* for a connection.  A socket that is closing discards what is sent; without one,
\* or with one that is not open yet, the first call throws.
Type ==
    LET keys == [i \in DOMAIN typing[selected] |-> Call("stdin", None, typing[selected][i])]
    IN  /\ selected # None /\ tab = "run" /\ terminal["run"][selected] = "open"
        /\ keys # <<>>
        /\ request_id + Len(waiting) + Len(keys) <= MaxRequests
        /\ \/ ws \in {"open", "closing"} /\ Transmit(keys, ws = "open")
           \/ /\ ws \notin {"open", "closing"}
              /\ request_id' = request_id + 1
              /\ UNCHANGED <<requests, c2s>>
        /\ UNCHANGED <<socket, waiting, s2c, server, heard, page>>

-----------------------------------------------------------------------------
(* Specification *)

\* The page loads: connect(false), and update_apps() waits for the connection.
Init ==
    /\ ws = "connecting" /\ reconnectAttempt = FALSE /\ online = FALSE
    /\ waiting = <<Call("list", None, 0)>>
    /\ request_id = 0
    /\ requests = [i \in Ids |-> None]
    /\ c2s = <<>> /\ s2c = <<>>
    /\ tasks = [t \in Tickets |-> None]
    /\ live = {} /\ late = <<>> /\ orphans = {} /\ heard = {}
    /\ loaded = 0 /\ selected = None /\ tab = None
    /\ service_tasks = <<>>
    /\ terminal = [p \in Panes |-> [s \in Services |-> "none"]]
    /\ typing = [s \in Services |-> <<>>]

SocketStep == Opens \/ GivesUp \/ Drops \/ Closed \/ Reconnects
ServerStep ==
    \/ \E i \in DOMAIN c2s : Serve(i)
    \/ \E t \in Tickets : Output(t) \/ \E outcome \in {"success", "failure"} : TaskEnds(t, outcome)
LeftBehind == ServeLate \/ \E t \in Tickets : OrphanEnds(t)
Click == SelectApp \/ (\E s \in Services : SelectService(s)) \/ (\E w \in Tabs : OpenTab(w)) \/ UpdateApps \/ Type

Next == SocketStep \/ ServerStep \/ LeftBehind \/ ReceiveResponse \/ ReceiveEvent \/ Click

\* The browser handles its events and its timers; now and then an attempt to
\* connect succeeds.  Nobody has to click, and the server owes nothing.
Fairness ==
    /\ SF_vars(Opens)
    /\ WF_vars(GivesUp) /\ WF_vars(Closed) /\ WF_vars(Reconnects)
    /\ WF_vars(ReceiveResponse) /\ WF_vars(ReceiveEvent)

Spec == Init /\ [][Next]_vars
FairSpec == Spec /\ Fairness

-----------------------------------------------------------------------------
(* Properties *)

\* The types of the state.
TypeOK ==
    /\ ws \in {"connecting", "open", "closing", "none"}
    /\ reconnectAttempt \in BOOLEAN /\ online \in BOOLEAN
    /\ waiting \in Seq(Calls)
    /\ request_id \in 0 .. MaxRequests
    /\ requests \in [Ids -> Calls \cup {None}]
    /\ c2s \in Seq([id : Ids, call : Calls])
    /\ s2c \in Seq([type : {"response", "output", "success", "failure"},
                    id : Ids, ticket : Tickets \cup {0}])
    /\ tasks \in [Tickets -> Calls \cup {None}]
    /\ live \subseteq Tickets /\ heard \subseteq Tickets
    /\ late \in Seq([id : Ids, call : Calls]) /\ orphans \subseteq Tickets
    /\ loaded \in 0 .. MaxRequests
    /\ selected \in Services \cup {None} /\ tab \in Tabs \cup {None}
    /\ service_tasks \in Seq(Tickets)
    /\ terminal \in [Panes -> [Services -> {"none", "open", "destroyed"}]]
    /\ typing \in [Services -> Seq(Tickets)]

\* What McloudIO believes of the connection agrees with the socket underneath,
\* however attempts, timeouts, losses and reconnections follow each other: while it
\* is online there is a socket to send on, so that no call throws, an open socket is
\* known to it, and nobody waits for a connection that is there.
OnlineMeansSocket ==
    /\ online => ws \in {"open", "closing"}
    /\ ws = "open" => online
    /\ online => waiting = <<>>

\* An event that no listener hears is lost for good, and the promise that waits for
\* it stays pending.  Every event finds the listeners of its task: they are there,
\* or the answer that makes the page create them comes first.
EventsHeard ==
    \A i \in DOMAIN s2c : s2c[i].type # "response" =>
        \/ s2c[i].ticket \in heard
        \/ \E j \in 1 .. i - 1 : /\ s2c[j] = Response(s2c[j].id, s2c[i].ticket)
                                 /\ requests[s2c[j].id] = tasks[s2c[i].ticket]

\* Ids are never mixed up: a request under way, or its answer, is the one whose
\* promise is kept under its id.
AnswersMatch ==
    /\ \A m \in Members(c2s) : m.call.word # "stdin" => requests[m.id] = m.call
    /\ \A m \in Members(s2c) : m.type = "response" =>
          /\ requests[m.id] # None
          /\ m.ticket # 0 => requests[m.id] = tasks[m.ticket]

\* While a connection lasts, the page loses sight of no log and no command it has
\* started on it: a task the server still has for a terminal and this connection is
\* one the next selection kills, or its number is on its way to the page, or the
\* request that kills it is on its way to the server.  It is not said of orphans,
\* nor of what the generator of a task that was killed still does (TaskRpc).
NothingStray ==
    \A t \in live : tasks[t].word \in Panes =>
        \/ t \in Members(service_tasks)
        \/ \E m \in Members(s2c) : m.type = "response" /\ m.ticket = t
        \/ \E m \in Members(c2s) : m.call = Call("kill", None, t)

\* Whatever is selected or refreshed meanwhile, the terminal an answer or an output
\* is for exists when it arrives: service.run_terminal is never undefined.
PaneExists ==
    \A m \in Members(s2c) : m.ticket # 0 /\ tasks[m.ticket].word \in Panes =>
        terminal[tasks[m.ticket].word][tasks[m.ticket].service] # "none"

\* What was asked for while there was no connection is asked once there is one:
\* the page never stops trying.
GetsThrough == waiting # <<>> ~> waiting = <<>>
=============================================================================
