SPECIFICATION Spec
CONSTANTS
  s1 = s1
  s2 = s2
  nobody = nobody
  Sessions = {s1, s2}
  NoSession = nobody
  Words = {"task_start", "kill", "stdin"}
  Kinds = {"async", "syncfail"}
  MaxRequests = 2
  MaxTickets = 2
  MaxChannel = 2
  RedisMayFail = TRUE
SYMMETRY Symmetry
INVARIANTS
  TypeOK
  TablesAgree
  NoUnknownTaskEvent
  OutcomeIsLast
  TicketHandedOutOnce
  AnsweredOnce
  KillAckAfterOutcome
PROPERTIES
  DisconnectCancels
  ImplementsTicketService
