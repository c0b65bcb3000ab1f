SPECIFICATION Spec

CONSTANTS
  Conns = {c1, c2}
  Fds = {1, 2, 3, 4, 5, 6}
  Udatas = {1, 2, 3, 4, 5}
  Pids = {1}
  Kinds = {"cgiGet", "cgiPost", "file", "empty"}
  Faults = {"fin", "timeout", "early", "closeStdout"}
  MaxRequests = 1
  Segments = 1
  Pipelining = FALSE
  FileLen = 1
  BodyLen = 1
  ResponseLen = 2
  MaxEvents = 10

CHECK_DEADLOCK FALSE

SYMMETRY Symmetry

INVARIANTS
  
  
  
  ChildrenTracked
