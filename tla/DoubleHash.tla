------------------------------ MODULE DoubleHash ------------------------------
(***************************************************************************)
(* The hash tables of the engine (src/js/jsdhash.c): open addressing with  *)
(* double hashing, sentinels for removed entries that others were added    *)
(* past, and a store that grows, shrinks and is compressed, entry by       *)
(* entry, if there is memory.  No table of the engine has an initEntry     *)
(* that fails.                                                             *)
(***************************************************************************)
EXTENDS Integers, FiniteSetsExt

CONSTANTS Keys,
          Hashes,    \* 2^JS_DHASH_BITS
          Hash,      \* of a key, see ENSURE_LIVE_KEYHASH
          MinSize,   \* JS_DHASH_MIN_SIZE
          MaxSize,   \* bound: memory ends with tables of this size
          NoKey

PowerOfTwo(n) == \A d \in 2..n : n % d = 0 => d % 2 = 0
Sizes == {n \in MinSize..MaxSize : PowerOfTwo(n)}

ASSUME TableAssumption ==
  /\ NoKey \notin Keys /\ Hash \in [Keys -> 0..Hashes - 1]
  /\ MinSize \in Nat /\ MaxSize \in Nat /\ Hashes \in Nat
  /\ 4 <= MinSize /\ MaxSize <= Hashes

VARIABLES store, entryCount, removedCount,
          loop,        \* "none", or what runs over a store: "move" or "enumerate"
          nextEntry,   \* where it is
          oldStore,    \* what ChangeTable moves from
          adding,      \* the key JS_DHASH_ADD has changed the table for
          didRemove,   \* whether an enumeration has
          members      \* history: the keys that were added and not removed

tableVars == <<store, entryCount, removedCount, loop, nextEntry, oldStore, adding, didRemove, members>>

FreeEntry == [tag |-> "free", key |-> NoKey, collided |-> FALSE]
RemovedEntry == [FreeEntry EXCEPT !.tag = "removed"]
LiveEntry(k, c) == [tag |-> "live", key |-> k, collided |-> c]
EmptyStore(n) == [i \in 0..n - 1 |-> FreeEntry]
NoStore == EmptyStore(0)

loopVars == <<loop, nextEntry, oldStore, adding, didRemove>>
AtRest == loop = "none" /\ nextEntry = 0 /\ oldStore = NoStore /\ adding = NoKey /\ didRemove = FALSE
LoopEnds ==
  /\ loop' = "none" /\ nextEntry' = 0 /\ oldStore' = NoStore /\ adding' = NoKey /\ didRemove' = FALSE

TableStarts(n) ==
  /\ store = EmptyStore(n) /\ entryCount = 0 /\ removedCount = 0
  /\ AtRest /\ members = {}

TableInit == \E n \in Sizes : TableStarts(n)
-------------------------------------------------------------------------------
(* HASH1, HASH2 and the places they lead to.                               *)
Size(st) == Cardinality(DOMAIN st)
Hash1(n, k) == Hash[k] \div (Hashes \div n)
Hash2(n, k) == LET h == ((Hash[k] * n) % Hashes) \div (Hashes \div n) IN IF h % 2 = 0 THEN h + 1 ELSE h
Probe(st, k, i) == (Hash1(Size(st), k) - i * Hash2(Size(st), k)) % Size(st)

(* SearchTable comes to the key or a free entry; one that adds takes the   *)
(* first removed entry on its way, and tells those it has passed.          *)
Steps(st, k) == Min({i \in 0..Size(st) - 1 : LET e == st[Probe(st, k, i)] IN
                                             e.tag = "free" \/ e.key = k})
Found(st, k) == Probe(st, k, Steps(st, k))
Target(st, k) ==
  LET removed == {i \in 0..Steps(st, k) : st[Probe(st, k, i)].tag = "removed"} IN
  IF st[Found(st, k)].tag = "free" /\ removed # {} THEN Probe(st, k, Min(removed)) ELSE Found(st, k)
Told(st, k) ==
  LET passed == {Probe(st, k, i) : i \in 0..Steps(st, k) - 1} IN
  [i \in DOMAIN st |-> IF i \in passed /\ st[i].tag = "live" THEN [st[i] EXCEPT !.collided = TRUE] ELSE st[i]]

Added(st, k) == [Told(st, k) EXCEPT ![Target(st, k)] = LiveEntry(k, st[Target(st, k)].tag = "removed")]

Has(st, k) == st[Found(st, k)].tag = "live"

(* JS_DHASH_ADD, once the table is as large as it gets.                    *)
Add(k) ==
  /\ store' = IF Has(store, k) THEN Told(store, k) ELSE Added(store, k)
  /\ entryCount' = IF Has(store, k) THEN entryCount ELSE entryCount + 1
  /\ removedCount' = IF store[Target(store, k)].tag = "removed" THEN removedCount - 1 ELSE removedCount
  /\ members' = members \cup {k}
-------------------------------------------------------------------------------
(* ChangeTable: the live entries go to a new store of n entries, in the    *)
(* order they stand in st; k is added after that.                          *)
ChangeTable(st, n, k) ==
  /\ n \in Sizes
  /\ store' = EmptyStore(n) /\ oldStore' = st /\ removedCount' = 0
  /\ loop' = "move" /\ nextEntry' = 0 /\ adding' = k /\ didRemove' = FALSE

MoveEntry ==
  /\ loop = "move" /\ nextEntry \in DOMAIN oldStore
  /\ store' = LET e == oldStore[nextEntry] IN IF e.tag = "live" THEN Added(store, e.key) ELSE store
  /\ nextEntry' = nextEntry + 1
  /\ UNCHANGED <<entryCount, removedCount, loop, oldStore, adding, didRemove, members>>

EndOfMove ==
  /\ loop = "move" /\ nextEntry = Size(oldStore)
  /\ IF adding = NoKey THEN UNCHANGED <<store, entryCount, removedCount, members>> ELSE Add(adding)
  /\ LoopEnds
-------------------------------------------------------------------------------
MaxLoad(n) == (192 * n) \div 256
MinLoad(n) == (64 * n) \div 256

Overloaded == entryCount + removedCount >= MaxLoad(Size(store))

OperateAdd(k) ==
  /\ AtRest /\ ~Overloaded
  /\ Add(k) /\ UNCHANGED loopVars

(* JS_DHASH_ADD grows or compresses an overloaded table first.             *)
AddChanges(k) ==
  /\ AtRest /\ Overloaded
  /\ ChangeTable(store, IF removedCount >= Size(store) \div 4 THEN Size(store) ELSE 2 * Size(store), k)
  /\ UNCHANGED <<entryCount, members>>

(* Without memory it goes on as long as one entry stays free.              *)
AddCrowds(k) ==
  /\ AtRest /\ Overloaded /\ entryCount + removedCount # Size(store) - 1
  /\ Add(k) /\ UNCHANGED loopVars

WithoutSentinel(st, i) == [st EXCEPT ![i] = FreeEntry]

(* JS_DHashTableRawRemove.                                                 *)
Without(st, i) == [st EXCEPT ![i] = IF @.collided THEN RemovedEntry ELSE FreeEntry]
RemovedIn(st) == Cardinality({i \in DOMAIN st : st[i].tag = "removed"})

RawRemove(i) ==
  /\ store' = Without(store, i)
  /\ entryCount' = entryCount - 1
  /\ removedCount' = IF store[i].collided THEN removedCount + 1 ELSE removedCount
  /\ members' = members \ {store[i].key}

(* JS_DHASH_REMOVE, and js_DHashTableRawRemove where a caller has the      *)
(* entry; the former shrinks a table that is nearly empty, if it can.      *)
OperateRemove(k) ==
  /\ AtRest /\ Has(store, k)
  /\ RawRemove(Found(store, k)) /\ UNCHANGED loopVars

RemoveChanges(k) ==
  /\ AtRest /\ Has(store, k)
  /\ Size(store) > MinSize /\ entryCount - 1 <= MinLoad(Size(store))
  /\ ChangeTable(Without(store, Found(store, k)), Size(store) \div 2, NoKey)
  /\ entryCount' = entryCount - 1
  /\ members' = members \ {k}
-------------------------------------------------------------------------------
(* JS_DHashTableEnumerate, whose callback has entries removed and may stop.*)
Enumerate ==
  /\ AtRest /\ loop' = "enumerate"
  /\ UNCHANGED <<store, entryCount, removedCount, nextEntry, oldStore, adding, didRemove, members>>

EnumerateEntry(remove, stop) ==
  /\ loop = "enumerate" /\ nextEntry \in DOMAIN store
  /\ IF store[nextEntry].tag = "live" /\ remove
     THEN RawRemove(nextEntry) /\ didRemove' = TRUE
     ELSE UNCHANGED <<store, entryCount, removedCount, members, didRemove>>
  /\ nextEntry' = IF store[nextEntry].tag = "live" /\ stop THEN Size(store) ELSE nextEntry + 1
  /\ UNCHANGED <<loop, oldStore, adding>>

(* The table shrinks, or is compressed, if it should and there is memory.  *)
Wanted == Max({MinSize, entryCount + entryCount \div 2})
EndOfEnumeration ==
  /\ loop = "enumerate" /\ nextEntry = Size(store)
  /\ LoopEnds /\ UNCHANGED <<store, entryCount, removedCount, members>>

EnumerationChanges ==
  /\ loop = "enumerate" /\ nextEntry = Size(store) /\ didRemove
  /\ \/ removedCount >= Size(store) \div 4
     \/ Size(store) > MinSize /\ entryCount <= MinLoad(Size(store))
  /\ \E n \in Sizes : /\ n >= Wanted /\ \A m \in Sizes : m >= Wanted => n <= m
                      /\ ChangeTable(store, n, NoKey)
  /\ UNCHANGED <<entryCount, members>>

TableNext ==
  \/ \E k \in Keys : OperateAdd(k) \/ AddChanges(k) \/ AddCrowds(k) \/ OperateRemove(k) \/ RemoveChanges(k)
  \/ MoveEntry \/ EndOfMove
  \/ Enumerate \/ EndOfEnumeration \/ EnumerationChanges
  \/ \E remove, stop \in BOOLEAN : EnumerateEntry(remove, stop)

TableSpec == TableInit /\ [][TableNext]_tableVars
-------------------------------------------------------------------------------
(* Through all removals, compressions and failures to grow, a search finds *)
(* every key that is in the table and no other, and it ends: an entry is   *)
(* free, and the counts by which this is kept so are right.  While a table *)
(* changes, each entry finds a free place (JS_ASSERT, jsdhash.c:517).      *)
TableIsMap ==
  /\ \E i \in DOMAIN store : store[i].tag = "free"
  /\ loop # "move" =>
       /\ \A k \in Keys : Has(store, k) <=> k \in members
       /\ entryCount = Cardinality({i \in DOMAIN store : store[i].tag = "live"})
       /\ entryCount = Cardinality(members)
       /\ removedCount = RemovedIn(store)
  /\ loop = "move" /\ nextEntry \in DOMAIN oldStore =>
       LET e == oldStore[nextEntry] IN e.tag = "live" => store[Target(store, e.key)].tag = "free"
===============================================================================
