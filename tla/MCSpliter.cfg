CONSTANTS
  SegmentSize = 3
  FloatBits = 6
  Width = 3
  FileSizes = {0, 1, 2, 3, 4, 5, 6}
  PartSizes = {1, 2, 3, 4, 5, 7}
  MaxCalls = 2
  MaxChanges = 1
SPECIFICATION FairSpec
INVARIANTS
  PartsAreFile
  SplitIsComplete
  FillHasRoom
  PartsHaveSize
PROPERTIES
  CallEnds
CHECK_DEADLOCK FALSE
