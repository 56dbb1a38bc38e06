SPECIFICATION Spec
CONSTANTS
  s1 = s1
  s2 = s2
  Symbols = {s1, s2}
  Bars <- SomeBars
  Given <- Directions3
  Sizes = {0, 1, 2, 3}
  Capital = 24
  MaxPositions = 2
  RiskCap = 40
  GrossCap = 90
  NetCap = 70
  MinNotional = 8
  Parts = 2
  Fee = 1
  Borrow = 1
  From = 2
  Steps = 4
SYMMETRY Interchangeable
CHECK_DEADLOCK FALSE
INVARIANTS TypeOK CapsHoldAtOpen TradesExplainCash
