\* Two requests that exchange no data are started, ended and swept in any order.
SPECIFICATION Spec

CONSTANTS
  Requests = {r1, r2}
  WithDeadline = {}
  MaxRequests = 2
  MaxBufferedBytes = 4
  SettingsBytes = 1
  ItemBytes = {}
  MaxChunks = 1
  MaxEvents = 1
  InputQueueItems = 1
  InputQueueBytes = 2
  OutputQueueItems = 1
  OutputQueueBytes = 2

\* The requests are interchangeable: none has a deadline of its own.
SYMMETRY Interchangeable

INVARIANTS
  LeavesAfterCleanup
  DriverSeesFailedRequests

PROPERTIES
  ShutdownIsFinal

\* A client whose users and backends have finished has nothing left to do.
CHECK_DEADLOCK FALSE
