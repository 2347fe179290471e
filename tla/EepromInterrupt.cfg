SPECIFICATION Spec
CONSTANTS
  product = product
  serial = serial
  stray = stray
  Settings <- TwoSettings
  Described <- TwoSettings
  WPwd = WPwd
  RPwd = RPwd
  TagAddr <- SomeTags
  ValueLen <- SomeLens
  NumSlots = 0
  Strays <- NoStrays
  SlotBase = 14
  SlotStride = 3
  SlotLen = 3
  Size = 14
  FLAG = 119
  Erased = 255
  Values <- LongAndShort
  Strings <- NoStrings
  Overtaken = {}
INVARIANT
  AddressKept
