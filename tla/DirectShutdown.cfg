\* Two requests for one execution, with every fault.
SPECIFICATION Spec

CONSTANTS
  Requests = {r1, r2}
  Limit = 1
  Queued = 1
  Users = {r1, r2}
  Faults = {"Error", "Panic", "Spurious"}

SYMMETRY Interchangeable

INVARIANTS
  TypeOK
  ExecutionsBounded
  AcknowledgedIsClean
  ReleasedLast
  NothingMissed

\* Once the control thread has ended nothing is left to do.
CHECK_DEADLOCK FALSE
