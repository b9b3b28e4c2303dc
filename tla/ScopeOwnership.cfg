SPECIFICATION Spec
CONSTANTS
  t1 = t1
  t2 = t2
  t3 = t3
  s1 = s1
  s2 = s2
  None = None
  Threads = {t1, t2, t3}
  Contexts <- ThreeThreads
  ThreadOf <- ThreadOfThree
  Scopes = {s1, s2}
  MaxDepth = 1
  Nests = FALSE
INVARIANTS
  TypeOK
  CollectsAlone
  WorksAlone
  ListedIsOwned
