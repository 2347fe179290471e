SPECIFICATION Spec
CONSTANTS
  t1 = t1
  t2 = t2
  Threads <- TwoThreads
  Shared = Shared
  NoThread = NoThread
  Refused <- RefusedCommands
  RingSize = 2
  Banks = 2
  MaxCalls = 2
SYMMETRY Symmetry
INVARIANTS
  TypeOK
  OwnAnswer
  SuccessWasExecuted
  OneInFlight
PROPERTIES
  ExecutesOnce
  ImplementsService
