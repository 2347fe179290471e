SPECIFICATION FairSpec
CONSTANTS
  left = left
  Buttons <- OneButton
  Width = 3
  Height = 2
  PIXEL = 1
  RMax = 1
  AMax = 7
  Gains <- Speeds
  Banks = 1
  Goals <- SomeGoals
  NoGoal = NoGoal
INVARIANTS
  TypeOK
  HostMirrorsButtons
  MoveToArrives
PROPERTIES
  UpAllReleases
  MoveToEnds
