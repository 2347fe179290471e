SPECIFICATION LocksFairSpec
CONSTANTS
  a = a
  caps = caps
  shift = shift
  Keys <- SomeKeys
  Modifiers <- SomeModifiers
  LEFT_SHIFT = shift
  LockKeys <- Locks
  RESERVED = RESERVED
  NumSlots = 1
  Banks = 1
  CombLen = 1
INVARIANTS
  LocksTypeOK
  SetLockToggles
  GetTellsLock
PROPERTY
  CommandEnds
