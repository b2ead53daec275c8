CONSTANTS
  MaxText = 8
  MaxNewText = 3
  Chunk = 6
  Sizes = {2, 3, 8}
  Letters = {"a", "b"}
  Nul = "0"
  Patterns <- TwoSizes
  Clients <- EveryClient
  Texts <- AllTexts
  NewTexts <- ShortTexts
SPECIFICATION FairSpec
INVARIANTS
  RecordsAreSplit
  NoRecordMissing
  PiecesInOrder
  DistanceIsRest
PROPERTIES
  ReachesEnd
