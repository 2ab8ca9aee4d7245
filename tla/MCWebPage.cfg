SPECIFICATION PageSpec
CONSTANTS
  Root = Root
  Sub = Sub
  f = f
  NoName = NoName
  Names = {f}
  Slots = 2
  Polls = 2
  MaxClicks = 2
  MaxMishaps = 1
  Batches <- BatchesDef
INVARIANT UploadTogether
INVARIANT ListingFresh
PROPERTY StatusConverges
PROPERTY TransferEnds
CHECK_DEADLOCK FALSE
