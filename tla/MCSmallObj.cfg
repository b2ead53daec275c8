CONSTANTS
  Area = {a1, a2, a3}
  Alignment = 2
  MaxObjectSize = 3
  PageSize = 7
  MinObjectsPerChunk = 2
  MaxObjectsPerChunk = 3
  FirstRoom = 8
SYMMETRY Interchangeable
SPECIFICATION Spec
INVARIANTS
  PointersTell
  FreeListsIntact
PROPERTIES
  ImplementsHeap
CHECK_DEADLOCK FALSE
