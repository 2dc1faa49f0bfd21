SPECIFICATION FairSpec
CONSTANTS
  i1 = i1
  i2 = i2
  w1 = w1
  w2 = w2
  c1 = c1
  c2 = c2
  s1 = s1
  s2 = s2
  NoWorker = NoWorker
  NoId = NoId
  Ids = {i1}
  Workers = {w1, w2}
  Clients = {c1}
  Sessions = {s1, s2}
  WorkerOf <- TwoWorkers
  Cap = 1
  Ttl = 1
  Lease = 0
  MaxTime = 1
INVARIANTS
  CompletedHasStatus
PROPERTIES
  LeaseNotStolen
  ImplementsLifecycle
  
