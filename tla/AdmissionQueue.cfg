\* Three requests for one permit, two of which can wait; any may be cancelled.
SPECIFICATION Spec

CONSTANTS
  Waiters = {w1, w2, w3}
  Limit = 1
  Queued = 2
  Timed = FALSE

SYMMETRY Interchangeable

INVARIANTS
  TypeOK
  FirstComeFirstServed
  CancelIsNotLost
  NoLostWakeup
  CapacityExact
  WorkConserving
  CloseRevokes

\* Once every waiter and its permit are gone nothing is left to do.
CHECK_DEADLOCK FALSE
