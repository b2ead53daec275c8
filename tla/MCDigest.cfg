SPECIFICATION Spec
CONSTANTS
  ByteBits = 4
  Block = 4
  LenBytes = 2
  Word = 16
  Chunk = 8
  Sizes = {0, 1, 2, 3, 4, 5, 9, 12}
  FileSizes = {0, 7, 8, 19}
  MaxGiven = 68
INVARIANTS MessageKept
PROPERTIES ImplementsHashing
