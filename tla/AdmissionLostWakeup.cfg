SPECIFICATION FairSpec
CONSTANTS
  NoTunnel = NoTunnel
  t1 = t1
  t2 = t2
  t3 = t3
  t4 = t4
  Tunnels = {t1, t2, t3}
  Returning = {}
  Priority <- Priorities
  Limits = {1}
  WaitTimeout = FALSE
CHECK_DEADLOCK FALSE
PROPERTIES
  WaiterIsAdmitted
