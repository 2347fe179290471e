SPECIFICATION Spec
CONSTANTS
  product = product
  serial = serial
  stray = stray
  Settings <- OneSetting
  Described <- OneSetting
  WPwd = WPwd
  RPwd = RPwd
  TagAddr <- SomeTags
  ValueLen <- SomeLens
  NumSlots = 0
  Strays <- NoStrays
  SlotBase = 14
  SlotStride = 3
  SlotLen = 3
  Size = 10
  FLAG = 119
  Erased = 255
  Values <- LongAndShort
  Strings <- NoStrings
  Overtaken = {"set", "initLock"}
CONSTRAINT BeforeCollision
INVARIANTS
  TypeOK
  SettingsKept
PROPERTY
  ReadsTruth
