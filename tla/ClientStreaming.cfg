\* One request that streams two chunks in and two events and the notice out,
\* through queues of one chunk and two events, in a budget that runs out.
SPECIFICATION SpecStreaming

CONSTANTS
  Requests = {r1}
  WithDeadline = {}
  MaxRequests = 1
  MaxBufferedBytes = 3
  SettingsBytes = 1
  ItemBytes = {1}
  MaxChunks = 2
  MaxEvents = 2
  InputQueueItems = 1
  InputQueueBytes = 2
  OutputQueueItems = 2
  OutputQueueBytes = 2

INVARIANTS
  TypeOK
  QueueAccounting
  OutputInOrder
  CompletedIsComplete

\* A client whose users and backends have finished has nothing left to do.
CHECK_DEADLOCK FALSE
