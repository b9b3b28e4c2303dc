SPECIFICATION ThreadsSpec
CONSTANTS
  Lockers = {t1, t2, t3}
  Threads = {t1, t2, t3}
  Contexts = {t1, t2, t3}
  ThreadOf <- OneContextEach
  Scopes = {}
  MaxDepth = 1
  Nests = FALSE
  Nobody = Nobody
  None = None
  Parts = {"lock", "runtime"}
INVARIANTS
  LockTypeOK
  DequeueFinds
  LandsAlone
PROPERTIES
  IsMutex
  UnlockReturns
  UnpinsAlone
  Settles
