SPECIFICATION Spec
CONSTANTS
  Windows <- SomeWindows
  Params <- ThreeParams
  Score <- TiedScores
  Draws <- TwoDraws
  Unsound <- SometimesUnsound
  Stored <- SometimesStored
  Pool = 2
  MaxFaults = 1
CHECK_DEADLOCK FALSE
INVARIANTS TypeOK LeaksOnlyBoundaries SearchIsScheduleFree
PROPERTIES ValidationEnds
