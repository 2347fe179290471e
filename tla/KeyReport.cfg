SPECIFICATION Spec
CONSTANTS
  a = a
  b = b
  caps = caps
  shift = shift
  ctrl = ctrl
  Keys <- SomeKeys
  Modifiers <- SomeModifiers
  LEFT_SHIFT = shift
  LockKeys <- Locks
  RESERVED = RESERVED
  NumSlots = 2
  Banks = 1
  CombLen = 2
SYMMETRY Symmetry
INVARIANTS
  TypeOK
  NoDuplicateKey
  HostMirrorsReport
  PressLeavesNothing
PROPERTY
  ImplementsHeldKeys
