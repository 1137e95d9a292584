SPECIFICATION Spec
CONSTANTS
  Pragmas <- InOrder
  Arity <- MCArity
  AllQubits <- MCAllQubits
  OldClbits = 2
  Measured = FALSE
  MaxPragmas = 4
INVARIANTS EveryPlaceIsMeasured RefusalHasAReason EigenvaluesFitRotation
CHECK_DEADLOCK FALSE
