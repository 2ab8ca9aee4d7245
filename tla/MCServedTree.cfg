SPECIFICATION Spec
CONSTANTS
  s1 = s1
  s2 = s2
  Sessions = {s1, s2}
  Names = {1, 2}
  Old = Old
  Hole = Hole
  Ops = {"look", "cd", "mkdir", "delete", "copy", "move", "upload"}
  MaxRequests = 1
  MaxPath = 3
  MaxIno = 4
  Trees <- TreesDef
  Targets <- TargetsDef
INVARIANT DeleteMeansGone
INVARIANT UploadIsExact
INVARIANT CopyIsExact
PROPERTY OnlyWhatIsNamed
PROPERTY RequestEnds
CHECK_DEADLOCK FALSE
