SPECIFICATION Spec
CONSTANTS
  Scores <- MCScores
  Strategies <- AllBooks
  Lookback = 2
  MaxBuffer = 4
  MaxDisturbances = 2
INVARIANTS TypeOK MemorylessMatchesResearch
PROPERTIES ConvergesOnIntent UnwantedPositionCloses
