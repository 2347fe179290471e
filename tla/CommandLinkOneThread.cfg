SPECIFICATION FairSpec
CONSTANTS
  t1 = t1
  t2 = t2
  Threads <- OneThread
  Shared = Shared
  NoThread = NoThread
  Refused <- RefusedCommands
  RingSize = 2
  Banks = 2
  MaxCalls = 3
INVARIANT
  OwnVerdict
PROPERTY
  CallReturns
