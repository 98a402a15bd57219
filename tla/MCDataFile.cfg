SPECIFICATION Spec
CONSTANTS
  Names <- MCNames
  DataFrames = {0, 2}
  Parts = 2
  MaxPackets = 4
  MaxChanges = 2
  MaxFaults = 1
INVARIANTS
  TypeOK
  FilesWhole
  SizeBound
  RetriesInTime
  FollowsName
PROPERTY
  PartsKept
CHECK_DEADLOCK FALSE
