\* Three commands and the drop, over streams that may fail at any time.
SPECIFICATION FairSpec

CONSTANT
  MaxCommands = 3

INVARIANTS
  TypeOK
  FailureIsCurrent
  NoWakeupLost

PROPERTY
  DeviceFollows
