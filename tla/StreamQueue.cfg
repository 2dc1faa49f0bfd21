SPECIFICATION FairSpec
CONSTANTS
  Streams = {s1, s2, s3}
  NoStream = NoStream
  Acceptors = {a1}
  Pullers = {d1, d2}
  Cap = 2
  OfferTtl = 1
  MaxTime = 3
CHECK_DEADLOCK FALSE
INVARIANTS
  TypeOK
  StreamsAccounted
  FrontIsFresh
PROPERTIES
  PullEnds
