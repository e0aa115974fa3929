SPECIFICATION FairSpec
CONSTANTS
  k1 = k1
  k2 = k2
  N = 1
  Tasks = {k1}
  Operations = {"start"}
  WaitsFor = {1}
  Web = {}
  MaxActive = 1
  Initially = {"absent"}
  Faults = {}
  Changes = {"exit"}
CHECK_DEADLOCK FALSE
PROPERTIES
  ChecksStillRunning
