CONSTANTS
  Requests = {r1, r2, r3}
  MaxConns = 2
  None = None

SPECIFICATION Spec

\* Every request is answered in the end.
CHECK_DEADLOCK FALSE

INVARIANTS
  OwnAnswer
  NothingLeft

PROPERTIES
  RequestEnds
