SPECIFICATION Spec
CONSTANTS
  Statements <- Redeclared
  Size <- MCSize
  Shadowing = TRUE
  MaxStatements = 5
PROPERTY MeasuresDeclaredRegister
CHECK_DEADLOCK FALSE
