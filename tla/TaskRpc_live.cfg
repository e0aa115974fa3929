SPECIFICATION FairSpec
CONSTANTS
  s1 = s1
  s2 = s2
  nobody = nobody
  Sessions = {s1, s2}
  NoSession = nobody
  Words = {"task_start", "kill", "query"}
  Kinds = {"unknown", "raises", "syncfail", "async"}
  MaxRequests = 1
  MaxTickets = 2
  MaxChannel = 1
  RedisMayFail = FALSE
PROPERTIES
  RequestsAnswered
  KillReleasesOwner
  OutcomeDelivered
