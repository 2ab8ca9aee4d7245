CONSTANTS
  MaxConns = 1
  MaxCalls = 2
  Offered <- AnyThenSimple
  MaxOut = 2
  MaxKeys = 1
  Capacity = 2

SPECIFICATION Spec

CHECK_DEADLOCK FALSE

INVARIANTS
  InStep

PROPERTIES
  CodeMeansWhole
  BothEnd
