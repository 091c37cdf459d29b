\* Two calls around one change of geometry.
SPECIFICATION Spec

CONSTANTS
  Frames = 2
  Workers = {w1, w2}
  MaxCalls = 2
  MaxChanges = 1
  MaxInterrupts = 1

INVARIANT ReplayIsCurrent

CHECK_DEADLOCK FALSE
