CONSTANTS
  Kinds = {"simple", "upFile", "upDir", "downFile", "downDir"}
  FaultSets <- MCFaultSets
  Survived <- Survivable
  Tree <- MCTree
  FileLens = {0, 2}
  Cap = 2
  MaxOps = 2

SPECIFICATION FairSpec

CHECK_DEADLOCK FALSE

INVARIANTS
  InSync
  NoMutualWait
  DownloadLeavesNoPartial
  OkMeansWhole
  UploadLeavesNoPartial

PROPERTIES
  EveryCallReturns
  HandlerEnds
