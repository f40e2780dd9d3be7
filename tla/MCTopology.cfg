SPECIFICATION Spec
CONSTANTS
  Id <- MCId
  ServiceGraphs <- MCServiceGraphs
  Contents <- MCContents
  Absent = Absent
  Malformed = Malformed
  Name = {"default", "other"}
  Default = "default"
  MaxChanges = 3
  MaxBreaks = 2
INVARIANTS
  TypeOK
  GraphIsOneVersion
  SliceIsNeighborhood
PROPERTIES
  NeverBack
  FollowsTheOnlyObject
CHECK_DEADLOCK FALSE
