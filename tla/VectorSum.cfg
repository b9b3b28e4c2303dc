SPECIFICATION Spec
CONSTANTS
  Sep = {","}
  MaxTok = 3
  numberOf <- MCnumberOf
  number2id <- MCnumber2id
  Atof <- MCAtof
  NewDigit = {10, 100, 1000}
  Frac = 7
  Charset = {"1", "2", "-", ","}
  Rows <- MCRows
  Inexact = Inexact
  Unspecified = Unspecified
  MaxQueries = 1
  MaxClears = 1
  MaxRows = 2
  MaxReads = 2
INVARIANTS ReplyFits InOrder
PROPERTIES SumsVectors
