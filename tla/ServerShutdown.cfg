\* Two requests for two slots, through a channel of one message.
SPECIFICATION FairSpec

CONSTANTS
  r1 = r1
  r2 = r2
  Custom = Custom
  Requests = {r1, r2}
  Limit = 2
  Capacity = 1
  DefaultKey = Default
  NoKey = NoKey
  KeyOf <- MCKeyOf
  Timed = {r1}
  FramesOf <- MCFramesOf

INVARIANTS
  TypeOK
  ModelsBounded
  
  

PROPERTY ShutdownDelivers

CHECK_DEADLOCK FALSE
