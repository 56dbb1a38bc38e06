SPECIFICATION FlattenSpec
CONSTANTS
  s1 = s1
  Updater = Updater
  Symbols <- OneSymbol
  Size = 1
  MaxPositions = 1
  MaxGross = 4
  MaxNet = 4
  Offered <- LongOnly
  WithLedger = TRUE
  Faults = {"flatten","refuse","crash"}
  MaxFaults = 2
  MaxBars = 1
  MaxOrders = 2
INVARIANTS FlattenTypeOK CompleteLeavesOnlySlipped FlattenSettlesLedger
