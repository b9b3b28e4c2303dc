-------------------------------- MODULE GCHeap --------------------------------
(***************************************************************************)
(* The heap of GC-things of one size in src/js/jsgc.c, in a build without  *)
(* JS_THREADSAFE: js_NewGCThing with its free list, arenas and last-ditch  *)
(* collection, the locks of things, what js_GC sweeps and frees, and the   *)
(* strings of jsstr.c that hold another one, their base.                   *)
(* Marking is a step here; its own steps are GCMarking's.                  *)
(***************************************************************************)
EXTENDS Naturals, SequencesExt

CONSTANTS Blocks,      \* the arenas malloc can give
          PerArena,    \* things in an arena
          MaxUses,     \* bound: calls of js_LockGCThing that are open, with the
                       \* things that slots and strings hold
          NewKinds,    \* bound: the kinds that js_NewGCThing is asked for
          Null

(* GCX_OBJECT, with the kinds of XML, which are treated alike; GCX_STRING; *)
(* and GCX_MUTABLE_STRING, the type of a string that has a base or that    *)
(* js_ConcatStrings may give one.                                          *)
Kinds == {"object", "string", "mutable"}

(* A thing is its arena and its place there.                               *)
Cells == Blocks \X (1..PerArena)

ASSUME GCHeapAssumption ==
  /\ IsFiniteSet(Blocks) /\ PerArena \in Nat \ {0} /\ NewKinds \subseteq Kinds
  /\ Null \notin Cells \cup Kinds

VARIABLES chain,     \* the arenas of the list, the last one first
          lastLimit, \* how much of the last one is in use
          kind,      \* the flag byte: a kind, "free" (GCF_FINAL) or "raw"
          lockBits,  \* GCF_LOCK
          lockCount, \* rt->gcLocksHash
          freeList,
          newborn,   \* cx->weakRoots.newborn
          ref,       \* what the slots of an object hold; the base of a string
          want,      \* js_NewGCThing after its last-ditch collection
          held       \* history: what the embedding has locked, and how often

gcHeapVars == <<chain, lastLimit, kind, lockBits, lockCount, freeList, newborn, ref, want, held>>
lockVars == <<lockBits, lockCount, held>>

HeapInit ==
  /\ chain = <<>> /\ lastLimit = 0
  /\ kind = [t \in Cells |-> "raw"]
  /\ lockBits = {} /\ lockCount = [t \in {} |-> 0]
  /\ freeList = <<>>
  /\ newborn = [k \in Kinds |-> Null]
  /\ ref = [t \in Cells |-> {}]
  /\ want = Null
  /\ held = [t \in Cells |-> 0]
-------------------------------------------------------------------------------
IsString(t) == kind[t] \in {"string", "mutable"}

(* GC_THING_IS_DEEP: of the strings that have a base, GC_TYPE_IS_STRING    *)
(* leaves out the mutable ones.                                            *)
Deep(t) == kind[t] = "object" \/ (kind[t] = "string" /\ ref[t] # {})

(* What can be reached from ts.                                            *)
HoldsAll(ts) == \A t \in ts : ref[t] \subseteq ts
Closure(ts) ==
  LET others == (UNION {ref[t] : t \in Cells}) \ ts IN
  ts \cup {t \in others : \A s \in SUBSET others : HoldsAll(ts \cup s) => t \in s}

(* The mark phase, from the locks and the weak roots.                      *)
Newborns == {newborn[k] : k \in Kinds} \ {Null}
Marked == Closure(DOMAIN lockCount \cup Newborns)

(* The sweep phase spares what is marked or locked.                        *)
Swept == LET spared == Marked \cup lockBits IN
         [t \in Cells |-> IF kind[t] \in Kinds /\ t \notin spared THEN "free" ELSE kind[t]]

Limit(a) == IF a = chain[1] THEN lastLimit ELSE PerArena
InUse(a) == {<<a, i>> : i \in 1..Limit(a)}

(* The elements of a set in the order of a relation.                       *)
Before(S, R, u) == {v \in S : <<v, u>> \in R}
Ordered(S, R) ==
  [n \in 1..Cardinality(S) |-> CHOOSE u \in S : Cardinality(Before(S, R, u)) = n - 1]

Earlier == {p \in Blocks \X Blocks :
              \E i, j \in DOMAIN chain : i < j /\ p = <<chain[i], chain[j]>>}
Later == {p \in Cells \X Cells :
            \/ <<p[2][1], p[1][1]>> \in Earlier
            \/ p[1][1] = p[2][1] /\ p[1][2] > p[2][2]}

(* Sweep and free phase of js_GC: an arena without a thing is freed, and   *)
(* the free list is made again: what the walk comes to last is its head.   *)
Collect ==
  LET swept == Swept
      kept == {a \in ToSet(chain) : \E t \in InUse(a) : swept[t] # "free"}
      free == {t \in UNION {InUse(a) : a \in kept} : swept[t] = "free"} IN
  /\ chain' = Ordered(kept, Earlier)
  /\ lastLimit' = IF chain = <<>> \/ chain[1] \in kept THEN lastLimit
                  ELSE IF kept = {} THEN 0 ELSE PerArena
  /\ kind' = [t \in Cells |-> IF t[1] \in kept THEN swept[t] ELSE "raw"]
  /\ freeList' = Ordered(free, Later)
  /\ ref' = [t \in Cells |-> IF kind'[t] \in Kinds THEN ref[t] ELSE {}]

GC == /\ want = Null /\ chain # <<>>
      /\ Collect
      /\ UNCHANGED <<lockVars, newborn, want>>
-------------------------------------------------------------------------------
(* What the embedding may still use: what it was given last, what it has   *)
(* locked, and what these hold - but not what a mutable string holds that  *)
(* is locked and not in the table.                                         *)
Lone(t) == kind[t] = "mutable" /\ t \notin DOMAIN lockCount
Held == {t \in Cells : held[t] > 0}
Roots == Newborns \cup {t \in Held : ~Lone(t)}
Protected == LET reached == Closure(Roots) IN {t \in Cells : t \in reached \/ held[t] > 0}

FewUses ==
  Cardinality(UNION {{t} \X (1..held[t]) : t \in Cells})
    + Cardinality(UNION {{t} \X ref[t] : t \in Cells}) <= MaxUses

(* js_NewGCThing gives a thing: no local root scope is open.  A mutable    *)
(* string is one by itself, or js_NewDependentString gives it a base, or   *)
(* it becomes that of the left string whose buffer js_ConcatStrings has    *)
(* made larger for it.                                                     *)
Wants(k) == want \in {Null, k}
Give(t, k) ==
  /\ kind' = [kind EXCEPT ![t] = k]
  /\ newborn' = [newborn EXCEPT ![k] = t]
  /\ \/ ref' = [ref EXCEPT ![t] = {}]
     \/ k = "mutable" /\ \E base \in Protected :
          IsString(base) /\ ref' = [ref EXCEPT ![t] = {base}]
     \/ k = "mutable" /\ \E left \in Protected :
          kind[left] = "mutable" /\ ref[left] = {} /\ ref' = [ref EXCEPT ![t] = {}, ![left] = {t}]
  /\ want' = Null
  /\ UNCHANGED lockVars
  /\ FewUses'

TakeFree(k) ==
  /\ Wants(k) /\ freeList # <<>>
  /\ freeList' = Tail(freeList)
  /\ Give(Head(freeList), k)
  /\ UNCHANGED <<chain, lastLimit>>

HasTail == chain # <<>> /\ lastLimit < PerArena
CanNewArena == Blocks \ ToSet(chain) # {}

TakeTail(k) ==
  /\ Wants(k) /\ freeList = <<>> /\ HasTail
  /\ lastLimit' = lastLimit + 1
  /\ Give(<<chain[1], lastLimit'>>, k)
  /\ UNCHANGED <<chain, freeList>>

NewGCArena(k) ==
  /\ Wants(k) /\ freeList = <<>> /\ ~HasTail
  /\ \E a \in Blocks \ ToSet(chain) :
       /\ chain' = <<a>> \o chain
       /\ Give(<<a, 1>>, k)
  /\ lastLimit' = 1
  /\ UNCHANGED freeList

LastDitch(k) ==
  /\ want = Null /\ freeList = <<>> /\ ~HasTail /\ ~CanNewArena
  /\ Collect
  /\ want' = k
  /\ UNCHANGED <<lockVars, newborn>>

OutOfMemory ==
  /\ want # Null /\ freeList = <<>> /\ ~HasTail /\ ~CanNewArena
  /\ want' = Null
  /\ UNCHANGED <<chain, lastLimit, kind, lockVars, freeList, newborn, ref>>
-------------------------------------------------------------------------------
\* Mutant of Lock: a deep thing is locked like a shallow one.
LockShallow(t) ==
  LET counted == t \in lockBits IN
  /\ want = Null
  /\ lockCount' = IF ~counted THEN lockCount
                  ELSE [u \in DOMAIN lockCount \cup {t} |->
                          IF u # t THEN lockCount[u]
                          ELSE IF t \in DOMAIN lockCount THEN lockCount[t] + 1 ELSE 2]
  /\ lockBits' = lockBits \cup {t}
  /\ held' = [held EXCEPT ![t] = @ + 1]
  /\ UNCHANGED <<chain, lastLimit, kind, freeList, newborn, ref, want>>
  /\ FewUses'

(* js_LockGCThingRT: a shallow thing gets an entry with its second lock.   *)
Lock(t) ==
  LET counted == t \in lockBits \/ Deep(t)
      first == IF Deep(t) THEN 1 ELSE 2 IN
  /\ want = Null
  /\ lockCount' = IF ~counted THEN lockCount
                  ELSE [u \in DOMAIN lockCount \cup {t} |->
                          IF u # t THEN lockCount[u]
                          ELSE IF t \in DOMAIN lockCount THEN lockCount[t] + 1 ELSE first]
  /\ lockBits' = lockBits \cup {t}
  /\ held' = [held EXCEPT ![t] = @ + 1]
  /\ UNCHANGED <<chain, lastLimit, kind, freeList, newborn, ref, want>>
  /\ FewUses'

(* js_UnlockGCThingRT.                                                     *)
Unlock(t) ==
  LET entry == t \in DOMAIN lockCount
      last == ~entry \/ lockCount[t] = 1 IN
  /\ want = Null /\ t \in lockBits
  /\ lockCount' = IF ~entry THEN lockCount
                  ELSE IF last THEN Restrict(lockCount, DOMAIN lockCount \ {t})
                  ELSE [lockCount EXCEPT ![t] = @ - 1]
  /\ lockBits' = IF last THEN lockBits \ {t} ELSE lockBits
  /\ held' = [held EXCEPT ![t] = @ - 1]
  /\ UNCHANGED <<chain, lastLimit, kind, freeList, newborn, ref, want>>

(* The embedding stores a thing in a slot of an object, in the place of    *)
(* what it held.                                                           *)
SetSlot(o, t) ==
  /\ want = Null /\ kind[o] = "object"
  /\ \E u \in ref[o] \cup {Null} : ref' = [ref EXCEPT ![o] = (@ \ {u}) \cup {t}]
  /\ UNCHANGED <<chain, lastLimit, kind, lockVars, freeList, newborn, want>>
  /\ FewUses'

(* js_UndependString gives a string characters of its own, and             *)
(* js_GetStringChars then takes GCF_MUTABLE from it.                       *)
Undepend(t) ==
  /\ want = Null /\ kind[t] = "mutable"
  /\ ref' = [ref EXCEPT ![t] = {}]
  /\ kind' \in {kind, [kind EXCEPT ![t] = "string"]}
  /\ UNCHANGED <<chain, lastLimit, lockVars, freeList, newborn, want>>

(* js_MinimizeDependentStrings gives a string the base of its base.        *)
Minimize(t) ==
  /\ want = Null /\ kind[t] = "mutable"
  /\ \E b \in ref[t] : \E c \in ref[b] : ref' = [ref EXCEPT ![t] = {c}]
  /\ UNCHANGED <<chain, lastLimit, kind, lockVars, freeList, newborn, want>>

(* Nothing has lost what it holds.  When a string has, what comes of using *)
(* it is not defined, and the behaviour ends.                              *)
Intact == \A t \in Cells : \A u \in ref[t] : kind[u] \in Kinds

HeapNext ==
  /\ Intact
  /\ \/ GC \/ OutOfMemory
     \/ \E k \in NewKinds : TakeFree(k) \/ TakeTail(k) \/ NewGCArena(k) \/ LastDitch(k)
     \/ \E t \in Protected : Lock(t) \/ Unlock(t) \/ Undepend(t) \/ Minimize(t)
     \/ \E o, t \in Protected : SetSlot(o, t)

HeapSpec == HeapInit /\ [][HeapNext]_gcHeapVars
-------------------------------------------------------------------------------
FreeListExact ==
  /\ IsInjective(freeList)
  /\ ToSet(freeList) = {t \in Cells : kind[t] = "free"}
  /\ \A t \in Cells : kind[t] = "raw" <=> t[1] \notin ToSet(chain) \/ t[2] > Limit(t[1])

(* The bit, the table and the kind of a thing make up the number of times  *)
(* it is locked.                                                           *)
LocksCounted ==
  \A t \in Cells : held[t] = IF t \notin lockBits THEN 0
                              ELSE IF t \in DOMAIN lockCount THEN lockCount[t] ELSE 1

(* What a locked thing holds stays allocated: a thing with descendants is  *)
(* not just given the bit, as the comment before js_LockGCThingRT says.    *)
LocksKeepDeep == \A t \in Held : \A u \in ref[t] : kind[u] \in Kinds

(* Whatever the embedding may still use is allocated and not on the free   *)
(* list, in a chain of arenas from which empty ones are taken.             *)
HeapKeeps == /\ \A t \in Protected : kind[t] \in Kinds
             /\ FreeListExact /\ LocksCounted
===============================================================================
