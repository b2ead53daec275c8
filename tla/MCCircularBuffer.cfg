CONSTANTS
  MaxSize = 3
  MaxInput = 6
  MaxOffset = 4
SPECIFICATION Spec
INVARIANTS
  WindowMatchesStream
  IteratorKeepsPlace
PROPERTIES
  ImplementsWindow
