SPECIFICATION Spec
CONSTANTS
  Statements <- Programs
  Size <- MCSize
  Shadowing = FALSE
  MaxStatements = 5
INVARIANTS QubitsAreShared FinishedIsWide NamesMeanTheirBits NoChangeIsCaptured
CHECK_DEADLOCK FALSE
