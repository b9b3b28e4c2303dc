SPECIFICATION ThreadsSpec
CONSTANTS
  Lockers = {t1, t2}
  Threads = {t1, t2}
  Contexts = {t1, t2}
  ThreadOf <- OneContextEach
  Scopes = {}
  MaxDepth = 1
  Nests = FALSE
  Nobody = Nobody
  None = None
  Parts = {"runtime"}
INVARIANT FinalIsFinal
