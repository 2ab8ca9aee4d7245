CONSTANTS
  N = 4
  Numbers = {1, 2, 3, 4}
  MaxClients = 2

SPECIFICATION Spec

CHECK_DEADLOCK FALSE

INVARIANTS
  OwnSocket
  NothingLeaks
  EvictedCloses

PROPERTIES
  Served
