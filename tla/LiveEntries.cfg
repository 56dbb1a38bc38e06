SPECIFICATION FairSpec
CONSTANTS
  s1 = s1
  s2 = s2
  Updater = Updater
  Symbols <- OneSymbol
  Size = 2
  MaxPositions = 1
  MaxGross = 4
  MaxNet = 4
  Offered <- LongOnly
  WithLedger = FALSE
  Faults = {"sync", "timeout", "refuse", "decline", "lost", "crash"}
  MaxFaults = 2
  MaxBars = 2
  MaxOrders = 3
INVARIANTS OneEntryPerSymbol NoOversell
PROPERTIES PositionBecomesKnown HandlersReturn
