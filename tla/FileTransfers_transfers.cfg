SPECIFICATION Spec

CONSTANTS
  Transfers = {t1, t2, t3}
  FileLen = 3
  BodyLen = 2
  BufSize = 2

\* Every request may be answered.
CHECK_DEADLOCK FALSE

INVARIANTS
  Snapshot
  UploadsKept

PROPERTIES
  EveryTransferEnds
