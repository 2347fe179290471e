SPECIFICATION Spec
CONSTANTS
  product = product
  serial = serial
  stray = stray
  Settings <- NoSettings
  Described <- NoSettings
  WPwd = WPwd
  RPwd = RPwd
  TagAddr <- SomeTags
  ValueLen <- SomeLens
  NumSlots = 2
  Strays <- NoStrays
  SlotBase = 6
  SlotStride = 3
  SlotLen = 3
  Size = 14
  FLAG = 119
  Erased = 255
  Values <- TwoValues
  Strings <- TwoValues
  Overtaken = {"read", "write"}
INVARIANT
  SlotsKept
