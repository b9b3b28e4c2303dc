------------------------------ MODULE LocalRoots ------------------------------
(***************************************************************************)
(* The local root scopes of a context (src/js/jscntxt.c:584-780): values   *)
(* and the marks of the scopes on one stack, kept in chunks.  The walk     *)
(* from chunk to chunk is modelled, not an index into all of them.         *)
(***************************************************************************)
EXTENDS Integers, SequencesExt

CONSTANTS Values,     \* GC-things
          ChunkSize,  \* JSLRS_CHUNK_SIZE
          MaxRoots,   \* bound of the states: values and marks on the stack
          NoRoot

NullMark == -1        \* JSLRS_NULL_MARK

ASSUME LocalRootsAssumption == ChunkSize \in Nat \ {0} /\ NoRoot \notin Values

VARIABLES rootChunks, \* firstChunk .. topChunk, <<>> without a stack
          rootCount, scopeMark,
          lastInternalResult,
          scopes,     \* history: the scopes that are open and what each holds
          result      \* history: what the outermost scope has returned

rootsVars == <<rootChunks, rootCount, scopeMark, lastInternalResult, scopes, result>>

RootsInit ==
  /\ rootChunks = <<>> /\ rootCount = 0 /\ scopeMark = NullMark
  /\ lastInternalResult = NoRoot
  /\ scopes = <<>> /\ result = NoRoot
-------------------------------------------------------------------------------
Slot(n) == (n % ChunkSize) + 1
Boundary(n) == n % ChunkSize = 0
Fresh == [i \in 1..ChunkSize |-> NoRoot]

(* The chunk a walk downwards from topChunk is in when it comes to root n: *)
(* it takes a step down behind every root that is the first of its chunk.  *)
Walk(n) == Len(rootChunks) - Cardinality({k \in n + 1..rootCount - 1 : Boundary(k)})
Root(n) == rootChunks[Walk(n)][Slot(n)]

Put(cs, c, n, v) == [cs EXCEPT ![c][Slot(n)] = v]

(* js_PushLocalRoot, onto a stack that may have been made for it.          *)
Pushed(cs, v) ==
  LET grown == IF rootCount = 0 \/ ~Boundary(rootCount) THEN cs ELSE Append(cs, Fresh)
  IN Put(grown, Len(grown), rootCount, v)

PushRoot(v) ==
  /\ rootChunks # <<>> /\ rootCount < MaxRoots
  /\ rootChunks' = Pushed(rootChunks, v)
  /\ rootCount' = rootCount + 1
  /\ scopes' = [scopes EXCEPT ![Len(scopes)] = Append(@, v)]
  /\ UNCHANGED <<scopeMark, lastInternalResult, result>>

EnterScope ==
  /\ rootCount < MaxRoots
  /\ rootChunks' = Pushed(IF rootChunks = <<>> THEN <<Fresh>> ELSE rootChunks,
                          IF rootChunks = <<>> THEN NullMark ELSE scopeMark)
  /\ scopeMark' = rootCount
  /\ rootCount' = rootCount + 1
  /\ scopes' = Append(scopes, <<>>)
  /\ UNCHANGED <<lastInternalResult, result>>

(* js_LeaveLocalRootScopeWithResult: the result takes the place of the     *)
(* mark, in the chunk that is left on top.                                 *)
LeaveScope(rval) ==
  LET popped == (rootCount - 1) \div ChunkSize - scopeMark \div ChunkSize
      left == SubSeq(rootChunks, 1, Len(rootChunks) - popped)
      keeps == rval # NoRoot /\ scopeMark # 0 IN
  /\ rootChunks # <<>> /\ rootCount # 0 /\ scopeMark # NullMark
  /\ scopeMark' = Last(left)[Slot(scopeMark)]
  /\ rootCount' = IF keeps THEN scopeMark + 1 ELSE scopeMark
  /\ rootChunks' = IF scopeMark = 0 THEN <<>>
                   ELSE IF keeps THEN Put(left, Len(left), scopeMark, rval)
                   ELSE IF Boundary(scopeMark) THEN Front(left) ELSE left
  /\ lastInternalResult' = IF rval # NoRoot /\ scopeMark = 0 THEN rval ELSE lastInternalResult
  /\ LET outer == Front(scopes) IN
     /\ scopes' = IF rval = NoRoot \/ outer = <<>> THEN outer
                  ELSE [outer EXCEPT ![Len(outer)] = Append(@, rval)]
     /\ result' = IF rval # NoRoot /\ outer = <<>> THEN rval ELSE result

RefilledWithNone(i, n) == Put(rootChunks, Walk(i), i, NoRoot)

(* js_ForgetLocalRoot: the last value takes the place of v.                *)
Refilled(i, n) == Put(rootChunks, Walk(i), i, Root(n))

ForgetRoot(v) ==
  LET n == rootCount - 1
      found == {i \in scopeMark + 1..n : Root(i) = v}
      i == CHOOSE j \in found : \A k \in found : k <= j
      emptied == Put(Refilled(i, n), Len(rootChunks), n, NoRoot) IN
  /\ rootChunks # <<>> /\ rootCount # 0 /\ scopeMark < n
  /\ found # {}
  /\ rootChunks' = IF Boundary(n) THEN Front(emptied) ELSE emptied
  /\ rootCount' = n
  /\ scopes' = [scopes EXCEPT ![Len(scopes)] =
                  LET at == CHOOSE j \in DOMAIN @ : @[j] = v IN RemoveAt(@, at)]
  /\ UNCHANGED <<scopeMark, lastInternalResult, result>>

RootsNext == \/ EnterScope
             \/ \E v \in Values : PushRoot(v) \/ ForgetRoot(v)
             \/ \E r \in Values \cup {NoRoot} : LeaveScope(r)

RootsSpec == RootsInit /\ [][RootsNext]_rootsVars
-------------------------------------------------------------------------------
(* js_MarkLocalRoots goes from scope to scope through the marks and takes  *)
(* everything between them.                                                *)
LeadsBack(s) == \A n \in s : Root(n) # NullMark => Root(n) \in s
Marks == {n \in 0..rootCount - 1 :
            \A s \in SUBSET (0..rootCount - 1) : scopeMark \in s /\ LeadsBack(s) => n \in s}

MarkLocalRoots == {Root(n) : n \in (0..rootCount - 1) \ Marks}

(* What a collection finds on the stack is what the open scopes hold, no   *)
(* chunk is kept or given back too early, and nothing else is left of a    *)
(* scope but its result.                                                   *)
RootsAreScopes ==
  /\ MarkLocalRoots = UNION {ToSet(s) : s \in ToSet(scopes)}
  /\ Len(rootChunks) = (rootCount + ChunkSize - 1) \div ChunkSize
  /\ lastInternalResult = result
  /\ \A n \in 0..rootCount - 1 : Walk(n) = n \div ChunkSize + 1
===============================================================================
