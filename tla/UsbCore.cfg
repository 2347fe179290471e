SPECIFICATION FairSpec
CONSTANTS
  kbd = kbd
  raw = raw
  Reports <- Hid
  Serial = Serial
  Control = Control
  LastEp = raw
  ReportLen <- Lens
  WriteLens <- SerialLens
  EpSize = 2
  Banks = 2
  Timeout = 2
  NewBoot = FALSE
  LineStates <- Lines
  MaxSends = 2
  MaxLines = 3
  MaxResets = 1
INVARIANTS
  TypeOK
  ReportsWhole
  NoGap
  TouchUndone
  KeyIsArmed
  TouchCancelled
PROPERTIES
  SendEnds
  RestartHappens
  ImplementsStreams
