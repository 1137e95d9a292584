SPECIFICATION Spec
CONSTANTS
  Statements <- OneUnitary
  MaxLength = 3
  Options <- Arguments
  Labels <- MCLabels
PROPERTY NothingActsOnMeasured
CHECK_DEADLOCK FALSE
