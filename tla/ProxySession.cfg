SPECIFICATION Spec
CONSTANTS
  Tunnels = {t1, t2}
  Busy = t1
  Bytes = 2
  MaxDevices = 1
  MaxBytes <- BusyBytes
CHECK_DEADLOCK FALSE
INVARIANTS
  TypeOK
  NeverOvercounted
  UsageExact
  DeviceLimit
  GoneIsUnlisted
