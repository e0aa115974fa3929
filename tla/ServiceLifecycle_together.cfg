SPECIFICATION Spec
CONSTANTS
  k1 = k1
  k2 = k2
  N = 2
  Tasks = {k1, k2}
  Operations = {"create", "start", "stop", "restart", "destroy", "rebuild", "remove"}
  WaitsFor = {}
  Web = {1}
  MaxActive = 2
  Initially = {"absent", "running"}
  Faults = {}
  Changes = {}
CHECK_DEADLOCK FALSE
SYMMETRY Symmetry
INVARIANTS
  SettledAsAsked
  DoneStaysDone
  
VIEW WithoutHistory
