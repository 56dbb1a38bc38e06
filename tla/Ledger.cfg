SPECIFICATION Spec
CONSTANTS
  s1 = s1
  s2 = s2
  entry = entry
  leg = leg
  short = short
  Symbols <- MCSymbols
  Orders <- MCOrders
  SymbolOf <- MCSymbolOf
  SignOf <- MCSignOf
  SizeOf <- MCSizeOf
  BasisOf <- Mixed
  Faults = {"stale", "midorder", "torn"}
  MaxLog = 5
CHECK_DEADLOCK FALSE
INVARIANTS TypeOK FoldIsReplay UntouchedReconcile LifecycleAgreesWithReplay
PROPERTY RepeatsMoveNothing
