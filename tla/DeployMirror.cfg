SPECIFICATION FairSpec
CONSTANTS
  Requests = {r1}
  Versions = {v1}
  Procs = {p1}
  None = None
  WithDb = TRUE
  MaxRecords = 2
CHECK_DEADLOCK FALSE
PROPERTIES
  MirrorConverges
