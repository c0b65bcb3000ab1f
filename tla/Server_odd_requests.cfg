SPECIFICATION Spec

CONSTANTS
  Conns = {c1, c2}
  Fds = {1, 2, 3, 4, 5, 6}
  Udatas = {1, 2, 3, 4}
  Pids = {1}
  Kinds = {"upload", "cgiNoProc", "cgiPost", "cgiGet", "file"}
  Faults = {"fin", "crash", "ioError"}
  MaxRequests = 1
  Segments = 2
  Pipelining = FALSE
  FileLen = 1
  BodyLen = 2
  ResponseLen = 2
  MaxEvents = 10

CHECK_DEADLOCK FALSE

SYMMETRY Symmetry

INVARIANTS
  MapExact
  DescriptorsOwned
  EveryClientHeard
  InOrder
