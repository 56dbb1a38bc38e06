SPECIFICATION Spec
CONSTANTS
  s1 = s1
  s2 = s2
  Updater = Updater
  Symbols <- OneSymbol
  Size = 1
  MaxPositions = 1
  MaxGross = 4
  MaxNet = 4
  Offered <- LongOnly
  WithLedger = TRUE
  Faults = {}
  MaxFaults = 0
  MaxBars = 1
  MaxOrders = 2
PROPERTY ExitFillNets
