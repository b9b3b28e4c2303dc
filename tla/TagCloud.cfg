SPECIFICATION Spec
CONSTANTS
  Sep = {","}
  MaxTok = 2
  Letters = {"a"}
  Other = "_"
  letter2id <- MCletter2id
  MaxDepth = 3
  MaxShown = 2
  NewDigit = {2, 4, 8}
  Charset = {"a", "B", ","}
  Rows <- MCRows
  Blocks <- MCBlocks
  Null = 0
  MaxQueries = 2
  MaxClears = 1
  MaxRows = 2
INVARIANTS TypeOK HeapSound NothingHidden ReplyFits
PROPERTIES LosesOnlyRoot CallReturns CountsWords
