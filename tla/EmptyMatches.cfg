SPECIFICATION EngineSpec
CONSTANTS
  None = None
  Null = Null
  Blocks = {a1, a2}
  PerArena = 2
  MaxUses = 3
  NewKinds = {"object", "mutable"}
  NoRoot = NoRoot
  Values = {x, y}
  ChunkSize = 2
  MaxRoots = 5
  Objects = {1, 2, 3, 4}
  Arena <- MCArena
  Page <- MCPage
  Chunk <- MCChunk
  Graphs <- MCGraphs
  Closable = {{}, {3}}
  Rooms = {0, 1}
  RootThings = {1}
  CallbackThings = {2}
  Strings = {s1, s2, s3}
  Buffers = {b1, b2, b3, b4}
  Literals <- MCLiterals
  MaxStart = 1
  MaxSlice = 1
  RecursionLimit = 0
  MaxLength = 4
  MaxOps = 7
  Absent = Absent
  Keys = {1, 2, 3, 4, 5}
  Hashes = 32
  Hash <- MCHash
  MinSize = 4
  MaxSize = 16
  NoKey = NoKey
  ScriptSize = 11
  ResultSize = 3
  Slack = 5
  Spare = 1
  MapHead = 3
  AddHead = 2
  ArgLengths = {0, 1, 5, 6, 7, 14}
  Answers = {0, 2, 3, 8, 9}
  MaxRefused = 1
  NumNodes = 14
  NumChunks = 5
  KidsPerChunk = 2
  NoLabel = NoLabel
  Ids = {1, 2, 3}
  Hidden = {4, 5}
  PropAttrs = {"own", "shared"}
  Functions = {1}
  Threshold = 3
  MaxSlots = 2
  Parts = {"regexp"}
  Faults = {"none"}
  Anomalies = {}
  MaxCalls = 0
INVARIANT EmptyMatches
