CONSTANTS
  N = 3
  MaxClients = 2
  MaxLost = 1
  Profiles <- AllThenBare
  ServerAcl <- MiddleAcl

SPECIFICATION Spec

CHECK_DEADLOCK FALSE

INVARIANTS
  TableExact
  ModesAgree
  NothingInTheClear

PROPERTIES
  EvictsOldestWhenFull
  CallReturns
  EvictedEnds
