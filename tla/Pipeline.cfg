CONSTANTS
  MaxLen = 5
  Depth = 2

SPECIFICATION FairSpec

INVARIANTS
  NoLeakWithoutWriteFailure

PROPERTIES
  ImplementsSendFile
  CallReturns
