SPECIFICATION Spec
CONSTANTS
  p1 = p1
  p2 = p2
  single = single
  Processes <- TwoProcesses
  Singles <- OneSingle
  MaxRounds = 2
  Cumulative <- RunningTotals
  MaxFaults = 1
  MaxQuarantines = 1
  MaxLines = 5
CONSTRAINT ShortJournal
SYMMETRY Interchangeable
CHECK_DEADLOCK FALSE
INVARIANTS TypeOK NoUndercount QuarantineSticks ReplayCarriesCounts
