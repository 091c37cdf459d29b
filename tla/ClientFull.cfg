\* One request with every actor: user, deadline, backend and shutdown.
SPECIFICATION Spec

CONSTANTS
  Requests = {r1}
  WithDeadline = {r1}
  MaxRequests = 1
  MaxBufferedBytes = 4
  SettingsBytes = 1
  ItemBytes = {1}
  MaxChunks = 1
  MaxEvents = 1
  InputQueueItems = 1
  InputQueueBytes = 2
  OutputQueueItems = 1
  OutputQueueBytes = 2

INVARIANTS
  BudgetExact

PROPERTIES
  ImplementsContract

\* A client whose users and backends have finished has nothing left to do.
CHECK_DEADLOCK FALSE
