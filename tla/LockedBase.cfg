\* What a locked thing holds stays allocated, by the comment before
\* js_LockGCThing.  Refuted: a mutable string that has a base gets the bit.
SPECIFICATION HeapSpec
CONSTANTS
  Null = Null
  Blocks = {1, 2}
  PerArena = 2
  MaxUses = 2
  NewKinds = {"object", "string", "mutable"}
INVARIANT LocksKeepDeep
