\* Two requests for one execution, without faults.
SPECIFICATION FairSpec

CONSTANTS
  Requests = {r1, r2}
  Limit = 1
  Queued = 1
  Users = {r1}
  Faults = {}

PROPERTIES
  FailedIsAcknowledged
  DriverFinishes

\* Once the control thread has ended nothing is left to do.
CHECK_DEADLOCK FALSE
