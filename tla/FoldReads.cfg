SPECIFICATION FairSpec
CONSTANTS
  Readers = {r1, r2}
  Appenders = {a1}
  TTL = 1
  MaxLog = 1
  Observable = TRUE
INVARIANTS
  SingleFlight
PROPERTIES
  PriorMonotone
  ImplementsFreshReads
  ReadsComplete
  IdleReleases
