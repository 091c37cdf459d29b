\* Two requests with deadlines for one permit; no symmetry, for the liveness.
SPECIFICATION FairSpec

CONSTANTS
  Waiters = {w1, w2}
  Limit = 1
  Queued = 1
  Timed = TRUE

INVARIANTS
  NoLostWakeup

PROPERTIES
  NobodyWaitsForEver

\* Once every waiter and its permit are gone nothing is left to do.
CHECK_DEADLOCK FALSE
