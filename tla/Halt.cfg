SPECIFICATION Spec
CONSTANTS
  p1 = p1
  p2 = p2
  i1 = i1
  i2 = i2
  i3 = i3
  i4 = i4
  Processes <- TwoCommands
  Scopes <- TheScopes
  All = "all"
  Strategy = "mine"
  Inodes <- FourInodes
SYMMETRY Interchangeable
VIEW Referenced
INVARIANTS TypeOK ReturnedHaltStands NoEntryPastStandingHalt
PROPERTIES ChangesWhole
