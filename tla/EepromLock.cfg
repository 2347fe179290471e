SPECIFICATION Spec
CONSTANTS
  product = product
  serial = serial
  stray = stray
  Settings <- NoSettings
  Described <- NoSettings
  WPwd = WPwd
  RPwd = RPwd
  TagAddr <- SomeTags
  ValueLen <- SomeLens
  NumSlots = 1
  Strays <- OneStray
  SlotBase = 6
  SlotStride = 3
  SlotLen = 1
  Size = 14
  FLAG = 119
  Erased = 255
  Values <- TwoValues
  Strings <- OneString
  Overtaken = {"write"}
INVARIANT
  SettingsKept
PROPERTY
  StringsGuarded
