SPECIFICATION Spec
CONSTANTS
  t1 = t1
  t2 = t2
  t3 = t3
  s1 = s1
  s2 = s2
  None = None
  Threads = {t1, t2}
  Contexts <- TwoThreads
  ThreadOf <- ThreadOfTwo
  Scopes = {s1, s2}
  MaxDepth = 1
  Nests = TRUE
INVARIANTS
  StillLocked
CHECK_DEADLOCK FALSE
