CONSTANTS
  SegmentSize = 3
  FloatBits = 6
  Width = 3
  FileSizes = {0, 1, 2, 3, 4, 5, 6, 7}
  PartSizes = {1, 2, 3, 4, 5, 6, 7}
  MaxCalls = 2
  MaxChanges = 0
SPECIFICATION Spec
INVARIANTS
  WritesThatFile
CHECK_DEADLOCK FALSE
