\* Two calls with three frames on two tracks, over an unordered runner that
\* refuses and loses tasks.
SPECIFICATION FairSpec

CONSTANTS
  Tracks = {t1, t2}
  Threads = {w1, w2}
  MaxCalls = 2
  MaxJobs = 3
  NoTrack = NoTrack
  All = All
  Watched = {t1, All}
  Faults = {"Refuse", "Lose", "Unordered"}

INVARIANTS
  TypeOK
  NoJobStranded

PROPERTIES
  SolvesInOrder
  ExecutionsComplete
