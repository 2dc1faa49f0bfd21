SPECIFICATION Spec
CONSTANTS
  Requests = {r1, r2}
  Versions = {v1, v2}
  Procs = {p1, p2}
  None = None
  WithDb = FALSE
  MaxRecords = 0
SYMMETRY Symmetric
CHECK_DEADLOCK FALSE
PROPERTIES
  RemovedIsStopped
