CONSTANTS
  Code <- MCCode
  Alnum <- MCAlnum
  Numbers <- MCNumbers
  NonFinite <- MCNonFinite
  Pasts <- MCPasts
  Outputs <- MCOutputs
  MaxRuns = 2
  Now = 16
SPECIFICATION Spec
INVARIANTS
  TypeOK
  PromReceivesBatch
  InfluxReceivesBatch
  ReadersToldLatest
CHECK_DEADLOCK FALSE
