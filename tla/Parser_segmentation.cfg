SPECIFICATION FairSpec

CONSTANTS
  Sessions <- AllSessions
  Pipelining = FALSE
  MaxRecv = 30

CHECK_DEADLOCK FALSE

INVARIANTS
  OffsetInPool
  Faithful
  Aligned

PROPERTIES
  EveryRequestParsed
