SPECIFICATION ChildFairSpec

CONSTANTS
  Conns = {c1, c2}
  Fds = {1, 2, 3, 4, 5, 6, 7, 8}
  Udatas = {1, 2, 3, 4}
  Pids = {1, 2}
  Kinds = {"cgiPost", "file"}
  Faults = {"fin"}
  MaxRequests = 1
  Segments = 1
  Pipelining = FALSE
  FileLen = 2
  BodyLen = 1
  ResponseLen = 1
  MaxEvents = 10

CHECK_DEADLOCK FALSE

INVARIANTS
  DescriptorsOwned
  NoDescriptorLeak
  NoLostWakeup

PROPERTIES
  ServiceSpec
