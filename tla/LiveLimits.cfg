SPECIFICATION Spec
CONSTANTS
  s1 = s1
  s2 = s2
  Updater = Updater
  Symbols <- TwoSymbols
  Size = 1
  MaxPositions = 1
  MaxGross = 4
  MaxNet = 4
  Offered <- LongOnly
  WithLedger = FALSE
  Faults = {"read", "sync", "timeout", "cancel", "crash"}
  MaxFaults = 1
  MaxBars = 1
  MaxOrders = 2
SYMMETRY Interchangeable
INVARIANTS TypeOK LimitStillHolds OneSlipsPastHalt
