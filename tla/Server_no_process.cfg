SPECIFICATION Spec

CONSTANTS
  Conns = {c1}
  Fds = {1, 2, 3, 4, 5}
  Udatas = {1, 2, 3, 4}
  Pids = {1}
  Kinds = {"cgiNoProc"}
  Faults = {}
  MaxRequests = 1
  Segments = 1
  Pipelining = FALSE
  FileLen = 1
  BodyLen = 1
  ResponseLen = 1
  MaxEvents = 10

CHECK_DEADLOCK FALSE

INVARIANTS
  NoLostWakeup
