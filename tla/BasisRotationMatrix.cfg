SPECIFICATION Spec
CONSTANTS
  Pragmas <- AnyPlace
  Arity <- MCArity
  AllQubits <- MCAllQubits
  OldClbits = 2
  Measured = FALSE
  MaxPragmas = 3
INVARIANT DifferentObservablesRaise
CHECK_DEADLOCK FALSE
