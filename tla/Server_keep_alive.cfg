SPECIFICATION FairSpec

CONSTANTS
  Conns = {c1, c2}
  Fds = {1, 2, 3, 4}
  Udatas = {1, 2, 3, 4, 5, 6}
  Pids = {}
  Kinds = {}
  Faults = {"fin"}
  MaxRequests = 2
  Segments = 1
  Pipelining = FALSE
  FileLen = 2
  BodyLen = 1
  ResponseLen = 2
  MaxEvents = 10

CHECK_DEADLOCK FALSE

INVARIANTS
  TypeOK
  NothingLeftBehind

PROPERTIES
  ServiceSpec
