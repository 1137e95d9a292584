SPECIFICATION TranslationSpec
CONSTANTS
  Statements <- Circuits
  MaxLength = 3
  Options <- Arguments
  Labels <- ThreeLabels
  BraketCircuits <- MCBraketCircuits
INVARIANTS GatesKeepTheirOrder BoxesStayOnTheirQubits MeasuresWhatTheBitHolds RefusalHasAReason ReadsTheCircuit RoundTripKeepsTheOrder
CHECK_DEADLOCK FALSE
