SPECIFICATION Spec
CONSTANTS
  s1 = s1
  s2 = s2
  nobody = nobody
  Sessions = {s1, s2}
  NoSession = nobody
  Words = {"task_start", "kill"}
  Kinds = {"async"}
  MaxRequests = 1
  MaxTickets = 2
  MaxChannel = 1
  RedisMayFail = FALSE
INVARIANTS
  KilledTaskStops
