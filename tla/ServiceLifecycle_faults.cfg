SPECIFICATION FairSpec
CONSTANTS
  k1 = k1
  k2 = k2
  N = 2
  Tasks = {k1}
  Operations = {"create", "start", "stop", "restart", "destroy", "rebuild", "remove"}
  WaitsFor = {1}
  Web = {1}
  MaxActive = 1
  Initially = {"absent", "stopped", "running"}
  Faults = {"refused", "lost", "stalled"}
  Changes = {"exit", "crash", "deployment"}
CHECK_DEADLOCK FALSE
INVARIANTS
  TypeOK
  NoJobOutlivesSuccess
PROPERTIES
  EveryTaskEnds
