CONSTANTS
  Kinds = {"upFile", "simple"}
  FaultSets <- OnlyCannotCreate
  Survived <- CannotCreate
  Tree <- SmallTree
  FileLens = {1}
  Cap = 2
  MaxOps = 2

SPECIFICATION FairSpec

CHECK_DEADLOCK FALSE

INVARIANTS
  InSync
