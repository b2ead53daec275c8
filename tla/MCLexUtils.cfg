SPECIFICATION LexSpec
CONSTANTS
  Alphabet = {"a", "b", "1", "0", "-"}
  MaxText = 5
  Delimiters <- SomeDelimiters
  WordLists <- SomeWords
  IntMax = 127
INVARIANTS PiecesRestoreText EscapeRestoresText NumberIsParsed
