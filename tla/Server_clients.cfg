SPECIFICATION Spec

CONSTANTS
  Conns = {c1, c2}
  Fds = {1, 2, 3}
  Udatas = {1, 2, 3, 4, 5, 6}
  Pids = {}
  Kinds = {"file"}
  Faults = {"fin", "reset", "abort"}
  MaxRequests = 2
  Segments = 1
  Pipelining = TRUE
  FileLen = 1
  BodyLen = 1
  ResponseLen = 1
  MaxEvents = 2

CHECK_DEADLOCK FALSE

SYMMETRY Symmetry

INVARIANTS
  NoUseAfterFree
  NoDescriptorLeak
  EveryClientHeard
  ListenerKept

PROPERTIES
  ClosesOnlyDeparted
