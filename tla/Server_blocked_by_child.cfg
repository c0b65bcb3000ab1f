SPECIFICATION FairSpec

CONSTANTS
  Conns = {c1, c2}
  Fds = {1, 2, 3, 4, 5, 6}
  Udatas = {1, 2, 3, 4}
  Pids = {1}
  Kinds = {"cgiGet"}
  Faults = {"closeStdout"}
  MaxRequests = 1
  Segments = 1
  Pipelining = FALSE
  FileLen = 1
  BodyLen = 1
  ResponseLen = 1
  MaxEvents = 10

CHECK_DEADLOCK FALSE

PROPERTIES
  NoClientWaitsForAChild
