SPECIFICATION FairSpec
CONSTANTS
  NoTunnel = NoTunnel
  t1 = t1
  t2 = t2
  t3 = t3
  t4 = t4
  Tunnels = {t1, t2, t3, t4}
  Returning = {t1, t2, t3, t4}
  Priority <- Priorities
  Limits = {0, 1, 2}
  WaitTimeout = TRUE
CHECK_DEADLOCK FALSE
INVARIANTS
  TypeOK
  ActiveIsGuards
  SlotsBounded
  WaiterIsListed
  GaugeCoversWaiters
PROPERTIES
  AcquireEndsOrIsOvertaken
