SPECIFICATION Spec
CONSTANTS
  Sep = {","}
  MaxTok = 2
  Charset <- MCCharset
  Args <- MCArgs
  Number <- MCNumber
INVARIANTS DotProduct SquaredDistance LeastCommon
