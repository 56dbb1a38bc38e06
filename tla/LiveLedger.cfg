SPECIFICATION Spec
CONSTANTS
  s1 = s1
  s2 = s2
  Updater = Updater
  Symbols <- OneSymbol
  Size = 2
  MaxPositions = 1
  MaxGross = 4
  MaxNet = 4
  Offered <- OnlyBuys
  WithLedger = TRUE
  Faults = {"timeout", "refuse", "decline"}
  MaxFaults = 2
  MaxBars = 2
  MaxOrders = 2
INVARIANTS LedgerExpectsAccount
