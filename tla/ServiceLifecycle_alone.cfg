SPECIFICATION Spec
CONSTANTS
  k1 = k1
  k2 = k2
  N = 2
  Tasks = {k1, k2}
  Operations = {"create", "start", "stop", "restart", "destroy", "rebuild", "remove"}
  WaitsFor = {1}
  Web = {1}
  MaxActive = 1
  Initially = {"absent", "stopped", "running"}
  Faults = {}
  Changes = {"crash"}
CHECK_DEADLOCK FALSE
SYMMETRY Symmetry
PROPERTIES
  DoneMeansDone
  ScrubbedWhileDown
