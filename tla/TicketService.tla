----------------------------- MODULE TicketService -----------------------------
(***************************************************************************)
(* What the users of mcloud's task protocol may rely on, without queues,   *)
(* tables or Deferreds: tickets are handed out once, to clients that are   *)
(* connected; a client sees a ticket as running until it sees its one      *)
(* outcome, which stays; and who leaves sees nothing more.                 *)
(***************************************************************************)
EXTENDS Naturals

CONSTANTS Sessions, Ticket

VARIABLES
  issued,   \* tickets that exist
  online,   \* session -> "new", "on", "off"
  tasks     \* session -> ticket -> what the client sees

vars == <<issued, online, tasks>>

Init ==
  /\ issued = {}
  /\ online = [s \in Sessions |-> "new"]
  /\ tasks = [s \in Sessions |-> [t \in Ticket |-> "absent"]]

Join(s) ==
  /\ online[s] = "new"
  /\ online' = [online EXCEPT ![s] = "on"]
  /\ UNCHANGED <<issued, tasks>>

\* Some sessions leave (all at once when the server fails), and tickets may be
\* taken that nobody ever gets.
LeaveOrIssue ==
  /\ \E gone \in SUBSET {s \in Sessions : online[s] = "on"} :
       online' = [s \in Sessions |-> IF s \in gone THEN "off" ELSE online[s]]
  /\ \E new \in SUBSET Ticket : issued' = issued \cup new
  /\ UNCHANGED tasks

Accept(s, t) ==
  /\ online[s] = "on" /\ t \in issued
  /\ \A o \in Sessions : tasks[o][t] = "absent"
  /\ tasks' = [tasks EXCEPT ![s][t] = "running"]
  /\ UNCHANGED <<issued, online>>

Finish(s, t, outcome) ==
  /\ online[s] = "on" /\ tasks[s][t] = "running"
  /\ tasks' = [tasks EXCEPT ![s][t] = outcome]
  /\ UNCHANGED <<issued, online>>

Next ==
  \/ \E s \in Sessions : Join(s)
  \/ LeaveOrIssue
  \/ \E s \in Sessions, t \in Ticket :
       Accept(s, t) \/ \E outcome \in {"success", "failure"} : Finish(s, t, outcome)

Spec == Init /\ [][Next]_vars
=============================================================================
