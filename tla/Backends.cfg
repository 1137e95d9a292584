SPECIFICATION Spec
CONSTANTS
  MaxPrograms = 4
  EndsWith <- MCEndsWith
  Scenarios <- MCScenarios
  Devices <- MCDevices
INVARIANTS
  TypeOK
  ResultsInProgramOrder
  NothingLeftBehind
  ErrorIsOfItsPlace
  SubstitutesAreCalibrated
  ProgramKeepsTheCircuit
  EachNameMeansItsGate
  BitsStayApart
  BoxHoldsTheProgram
  RunsOnlyWhatTheDeviceHas
CHECK_DEADLOCK FALSE
