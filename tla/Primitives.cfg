SPECIFICATION Spec
CONSTANTS
  NQubits = 2
  ByteSize = 2
  Default = 1
  Parameters <- MCParameters
  PubLists <- MCPubLists
INVARIANTS
  ValuesInTheirPlace
  SamplesInTheirPlace
  EachPairRunsOnce
CHECK_DEADLOCK FALSE
