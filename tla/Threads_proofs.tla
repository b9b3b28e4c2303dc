----------------------------- MODULE Threads_proofs -----------------------------
(***************************************************************************)
(* The threads of the engine, any number of them.  The lock word of a thin *)
(* lock always names its one owner, and js_Dequeue finds what it asserts.  *)
(* Requests, the collector and scope ownership, with any contexts of each  *)
(* thread and any scopes: the count that the collector waits for is the    *)
(* right one, it collects alone, and no two threads work on one scope.     *)
(* The invariant of the requests also holds while contexts come and go, so *)
(* that a runtime lands alone.                                             *)
(***************************************************************************)
EXTENDS ThinLock, ScopeOwnership, JsRuntime, FiniteSetTheorems, TLAPS

Words == [who : Lockers \cup {Nobody}, wait : BOOLEAN]

Waiters == {t \in Lockers : place[t] = "asleep"}

LockTyped == /\ owner \in Words
         /\ seen \in [Lockers -> Words]
         /\ bit \in [Lockers -> BOOLEAN]
         /\ global \in Lockers \cup {Nobody}
         /\ slock \in Lockers \cup {Nobody}
         /\ asleep \subseteq Lockers
         /\ place \in [Lockers -> LockPcs]

SuspCounted == susp = Cardinality(Waiters)

(* The word says who is between js_Lock and the store or the swap that     *)
(* gives the lock back, and is 0 if nobody is.                             *)
OwnerHolds ==
  /\ \A t \in Lockers : owner.who = t <=> place[t] \in {"critical", "store", "dequeue"}
  /\ owner.who = Nobody => owner = Free

(* Where the global lock and the lock of the fat lock are held. *)
LocksHeld ==
  \A t \in Lockers : /\ global = t <=> place[t] \in {"read", "swap", "suspend"}
                     /\ slock = t <=> place[t] = "notify"
                     /\ t \in asleep => place[t] = "asleep"

(* A wait bit in the word stands for somebody in the fat lock, unless the  *)
(* one who has just set it still has the global lock.  A thread that woke  *)
(* up carries the bit while others are left there, and puts it back when   *)
(* it takes the lock over.                                                 *)
BitMeans ==
  /\ owner.wait /\ global = Nobody => susp > 0
  /\ \A t \in Lockers : /\ place[t] = "dequeue" => owner.wait
                        /\ bit[t] => place[t] \in {"read", "swap", "suspend", "asleep"}
                        /\ bit[t] /\ place[t] \in {"read", "swap"} => susp > 0

LockInv == LockTyped /\ SuspCounted /\ OwnerHolds /\ LocksHeld /\ BitMeans

-----------------------------------------------------------------------------
LEMMA WaitersFinite == IsFiniteSet(Waiters) /\ Cardinality(Waiters) \in Nat
<1>1. IsFiniteSet(Waiters)
  BY ThinLockAssumption, FS_Subset DEF Waiters
<1> QED
  BY <1>1, FS_CardinalityType

\* A thread that neither was nor is asleep does not count.
LEMMA WaitersSame ==
  ASSUME LockTyped, NEW t \in Lockers, NEW from, NEW to, Moves(t, from, to),
         from # "asleep", to # "asleep"
  PROVE  Waiters' = Waiters
BY DEF LockTyped, Moves, Waiters

\* js_SuspendThread adds one to them, and its end takes one away.
LEMMA WaitersMore ==
  ASSUME LockTyped, SuspCounted, NEW t \in Lockers, Moves(t, "suspend", "asleep")
  PROVE  Cardinality(Waiters') = susp + 1 /\ susp \in Nat
<1>1. Waiters' = Waiters \cup {t} /\ t \notin Waiters
  BY DEF LockTyped, Moves, Waiters
<1> QED
  BY <1>1, WaitersFinite, FS_AddElement DEF SuspCounted

LEMMA WaitersLess ==
  ASSUME LockTyped, SuspCounted, NEW t \in Lockers, Moves(t, "asleep", "read")
  PROVE  Cardinality(Waiters') = susp - 1 /\ susp \in Nat \ {0}
<1>1. Waiters' = Waiters \ {t} /\ t \in Waiters
  BY DEF LockTyped, Moves, Waiters
<1>2. susp # 0
  BY <1>1, WaitersFinite, FS_EmptySet DEF SuspCounted
<1> QED
  BY <1>1, <1>2, WaitersFinite, FS_RemoveElement DEF SuspCounted

LEMMA WordType == \A t \in Lockers : \A b \in BOOLEAN : Word(t, b) \in Words
BY DEF Word, Words

LEMMA BooleanBit == LockTyped => \A t \in Lockers : bit[t] \in BOOLEAN
BY DEF LockTyped

LEMMA LockInvInit == LockInit => LockInv
<1> SUFFICES ASSUME LockInit PROVE LockInv
  OBVIOUS
<1>1. LockTyped
  BY DEF LockInit, LockTyped, Words, Free, LockPcs
<1>2. SuspCounted
  <2>1. Waiters = {}
    BY DEF LockInit, Waiters
  <2> QED
    BY <2>1, FS_EmptySet DEF LockInit, SuspCounted
<1>3. OwnerHolds /\ LocksHeld /\ BitMeans
  BY ThinLockAssumption DEF LockInit, OwnerHolds, LocksHeld, BitMeans, Free
<1> QED
  BY <1>1, <1>2, <1>3 DEF LockInv

-----------------------------------------------------------------------------
LEMMA LockInvNext == LockInv /\ [LockNext]_lockVars => LockInv'
<1> SUFFICES ASSUME LockInv, [LockNext]_lockVars PROVE LockInv'
  OBVIOUS
<1> USE DEF LockInv
<1>1. ASSUME NEW t \in Lockers, LockFast(t) PROVE LockInv'
  <2> USE <1>1 DEF LockFast
  <2>1. LockTyped'
    BY DEF LockTyped, Words, Word, Free, Moves, LockPcs
  <2>2. SuspCounted'
    BY WaitersSame DEF SuspCounted
  <2>3. OwnerHolds'
    BY ThinLockAssumption DEF OwnerHolds, LockTyped, Words, Word, Free, Moves
  <2>4. LocksHeld'
    BY ThinLockAssumption DEF LocksHeld, LockTyped, Moves
  <2>5. BitMeans'
    BY ThinLockAssumption DEF BitMeans, OwnerHolds, LocksHeld, LockTyped, Words, Word, Free, Moves
  <2> QED
    BY <2>1, <2>2, <2>3, <2>4, <2>5
<1>2. ASSUME NEW t \in Lockers, LockSlow(t) PROVE LockInv'
  <2> USE <1>2 DEF LockSlow
  <2>1. LockTyped'
    BY DEF LockTyped, Words, Free, Moves, LockPcs
  <2>2. SuspCounted'
    BY WaitersSame DEF SuspCounted
  <2>3. OwnerHolds'
    BY ThinLockAssumption DEF OwnerHolds, LockTyped, Free, Moves
  <2>4. LocksHeld'
    BY ThinLockAssumption DEF LocksHeld, LockTyped, Moves
  <2>5. BitMeans'
    BY ThinLockAssumption DEF BitMeans, OwnerHolds, LocksHeld, LockTyped, Free, Moves
  <2> QED
    BY <2>1, <2>2, <2>3, <2>4, <2>5
<1>3. ASSUME NEW t \in Lockers, Enqueue(t) PROVE LockInv'
  <2> USE <1>3 DEF Enqueue
  <2>1. LockTyped'
    BY DEF LockTyped, Words, Moves, TakeGlobal, LockPcs
  <2>2. SuspCounted'
    BY WaitersSame DEF SuspCounted
  <2>3. OwnerHolds'
    BY ThinLockAssumption DEF OwnerHolds, LockTyped, Free, Moves, TakeGlobal
  <2>4. LocksHeld'
    BY ThinLockAssumption DEF LocksHeld, LockTyped, Moves, TakeGlobal
  <2>5. BitMeans'
    BY ThinLockAssumption DEF BitMeans, OwnerHolds, LocksHeld, LockTyped, Moves, TakeGlobal
  <2> QED
    BY <2>1, <2>2, <2>3, <2>4, <2>5
<1>4. ASSUME NEW t \in Lockers, ReadOwner(t) PROVE LockInv'
  <2> USE <1>4 DEF ReadOwner
  <2>1. LockTyped'
    BY DEF LockTyped, Words, Moves, LockPcs
  <2>2. SuspCounted'
    BY WaitersSame DEF SuspCounted
  <2>3. OwnerHolds'
    BY ThinLockAssumption DEF OwnerHolds, LockTyped, Free, Moves
  <2>4. LocksHeld'
    BY ThinLockAssumption DEF LocksHeld, LockTyped, Moves
  <2>5. BitMeans'
    BY ThinLockAssumption DEF BitMeans, OwnerHolds, LocksHeld, LockTyped, Moves
  <2> QED
    BY <2>1, <2>2, <2>3, <2>4, <2>5
<1>5. ASSUME NEW t \in Lockers, Announce(t) PROVE LockInv'
  <2> USE <1>5 DEF Announce
  <2>1. LockTyped'
    BY DEF LockTyped, Words, Free, Moves, LockPcs
  <2>2. SuspCounted'
    BY WaitersSame DEF SuspCounted
  <2>3. OwnerHolds'
    BY ThinLockAssumption DEF OwnerHolds, LockTyped, Words, Free, Moves
  <2>4. LocksHeld'
    BY ThinLockAssumption DEF LocksHeld, LockTyped, Moves
  <2>5. BitMeans'
    BY ThinLockAssumption DEF BitMeans, OwnerHolds, LocksHeld, LockTyped, Words, Free, Moves
  <2> QED
    BY <2>1, <2>2, <2>3, <2>4, <2>5
<1>6. ASSUME NEW t \in Lockers, Suspend(t) PROVE LockInv'
  <2> USE <1>6 DEF Suspend
  <2>1. LockTyped'
    BY DEF LockTyped, Words, Moves, LockPcs
  <2>2. SuspCounted'
    BY WaitersMore DEF SuspCounted
  <2>3. OwnerHolds'
    BY ThinLockAssumption DEF OwnerHolds, LockTyped, Free, Moves
  <2>4. LocksHeld'
    BY ThinLockAssumption DEF LocksHeld, LockTyped, Moves
  <2>5. BitMeans'
    <3>1. susp' = susp + 1 /\ susp \in Nat
      BY WaitersMore
    <3>2. susp' > 0
      BY <3>1
    <3> QED
      BY <3>2 DEF BitMeans, LockTyped, Moves
  <2> QED
    BY <2>1, <2>2, <2>3, <2>4, <2>5
<1>7. ASSUME NEW t \in Lockers, TakeOver(t) PROVE LockInv'
  <2> USE <1>7 DEF TakeOver
  <2>1. LockTyped'
    <3>1. owner' \in Words
      BY WordType, BooleanBit
    <3> QED
      BY <3>1 DEF LockTyped, Words, Word, Free, Moves, TakeGlobal, LockPcs, OwnerHolds, LocksHeld, BitMeans
  <2>2. SuspCounted'
    BY WaitersSame DEF SuspCounted
  <2>3. OwnerHolds'
    BY ThinLockAssumption DEF OwnerHolds, LockTyped, Words, Word, Free, Moves
  <2>4. LocksHeld'
    BY ThinLockAssumption DEF LocksHeld, LockTyped, Moves
  <2>5. BitMeans'
    BY ThinLockAssumption DEF BitMeans, OwnerHolds, LocksHeld, LockTyped, Words, Word, Free, Moves
  <2> QED
    BY <2>1, <2>2, <2>3, <2>4, <2>5
<1>8. ASSUME NEW t \in Lockers, Retry(t) PROVE LockInv'
  <2> USE <1>8 DEF Retry
  <2>1. LockTyped'
    BY DEF LockTyped, Words, Free, Moves, LockPcs
  <2>2. SuspCounted'
    BY WaitersSame DEF SuspCounted
  <2>3. OwnerHolds'
    BY ThinLockAssumption DEF OwnerHolds, LockTyped, Free, Moves
  <2>4. LocksHeld'
    BY ThinLockAssumption DEF LocksHeld, LockTyped, Moves
  <2>5. BitMeans'
    BY ThinLockAssumption DEF BitMeans, OwnerHolds, LocksHeld, LockTyped, Free, Moves
  <2> QED
    BY <2>1, <2>2, <2>3, <2>4, <2>5
<1>9. ASSUME NEW t \in Lockers, WakeUp(t) PROVE LockInv'
  <2> USE <1>9 DEF WakeUp
  <2>1. LockTyped'
    BY DEF LockTyped, Words, Moves, TakeGlobal, LockPcs
  <2>2. SuspCounted'
    BY WaitersLess DEF SuspCounted
  <2>3. OwnerHolds'
    BY ThinLockAssumption DEF OwnerHolds, LockTyped, Free, Moves, TakeGlobal
  <2>4. LocksHeld'
    BY ThinLockAssumption DEF LocksHeld, LockTyped, Moves, TakeGlobal
  <2>5. BitMeans'
    <3>1. susp' = susp - 1 /\ susp \in Nat \ {0}
      BY WaitersLess
    <3>2. bit'[t] => susp' > 0
      <4>1. bit \in [Lockers -> BOOLEAN] /\ bit' = [bit EXCEPT ![t] = susp # 1]
        BY DEF LockTyped
      <4>2. bit'[t] => susp # 1
        BY <4>1, Zenon
      <4> QED
        BY <3>1, <4>2
    <3>3. \A u \in Lockers : u # t => bit'[u] = bit[u] /\ place'[u] = place[u]
      BY DEF LockTyped, Moves
    <3>4. place'[t] = "read" /\ global' = t
      BY DEF LockTyped, Moves, TakeGlobal
    <3>5. \A u \in Lockers : u # t => place[u] \notin {"read", "swap"}
      BY DEF LocksHeld, TakeGlobal
    <3> QED
      BY <3>2, <3>3, <3>4, <3>5, ThinLockAssumption DEF BitMeans
  <2> QED
    BY <2>1, <2>2, <2>3, <2>4, <2>5
<1>10. ASSUME NEW t \in Lockers, UnlockTest(t) PROVE LockInv'
  <2> USE <1>10 DEF UnlockTest
  <2>1. LockTyped'
    BY DEF LockTyped, Words, Word, Moves, LockPcs
  <2>2. SuspCounted'
    BY WaitersSame DEF SuspCounted
  <2>3. OwnerHolds'
    BY ThinLockAssumption DEF OwnerHolds, LockTyped, Word, Free, Moves
  <2>4. LocksHeld'
    BY ThinLockAssumption DEF LocksHeld, LockTyped, Moves
  <2>5. BitMeans'
    BY ThinLockAssumption DEF BitMeans, OwnerHolds, LocksHeld, LockTyped, Words, Word, Moves
  <2> QED
    BY <2>1, <2>2, <2>3, <2>4, <2>5
<1>11. ASSUME NEW t \in Lockers, UnlockStore(t) PROVE LockInv'
  <2> USE <1>11 DEF UnlockStore
  <2>1. LockTyped'
    BY DEF LockTyped, Words, Free, Moves, LockPcs
  <2>2. SuspCounted'
    BY WaitersSame DEF SuspCounted
  <2>3. OwnerHolds'
    BY ThinLockAssumption DEF OwnerHolds, LockTyped, Words, Free, Moves
  <2>4. LocksHeld'
    BY ThinLockAssumption DEF LocksHeld, LockTyped, Moves
  <2>5. BitMeans'
    BY ThinLockAssumption DEF BitMeans, OwnerHolds, LocksHeld, LockTyped, Words, Free, Moves
  <2> QED
    BY <2>1, <2>2, <2>3, <2>4, <2>5
<1>12. ASSUME NEW t \in Lockers, Dequeue(t) PROVE LockInv'
  <2> USE <1>12 DEF Dequeue
  <2>1. LockTyped'
    BY DEF LockTyped, Words, Free, Moves, LockPcs
  <2>2. SuspCounted'
    BY WaitersSame DEF SuspCounted
  <2>3. OwnerHolds'
    BY ThinLockAssumption DEF OwnerHolds, LockTyped, Words, Free, Moves
  <2>4. LocksHeld'
    BY ThinLockAssumption DEF LocksHeld, LockTyped, Moves
  <2>5. BitMeans'
    BY ThinLockAssumption DEF BitMeans, OwnerHolds, LocksHeld, LockTyped, Words, Free, Moves
  <2> QED
    BY <2>1, <2>2, <2>3, <2>4, <2>5
<1>13. ASSUME NEW t \in Lockers, Notify(t) PROVE LockInv'
  <2> USE <1>13 DEF Notify
  <2>1. LockTyped'
    BY DEF LockTyped, Words, Moves, LockPcs
  <2>2. SuspCounted'
    BY WaitersSame DEF SuspCounted
  <2>3. OwnerHolds'
    BY ThinLockAssumption DEF OwnerHolds, LockTyped, Free, Moves
  <2>4. LocksHeld'
    BY ThinLockAssumption DEF LocksHeld, LockTyped, Moves
  <2>5. BitMeans'
    BY ThinLockAssumption DEF BitMeans, OwnerHolds, LocksHeld, LockTyped, Moves
  <2> QED
    BY <2>1, <2>2, <2>3, <2>4, <2>5
<1>14. CASE UNCHANGED lockVars
  BY <1>14 DEF lockVars, LockTyped, SuspCounted, OwnerHolds, LocksHeld, BitMeans, Waiters
<1> QED
  BY <1>1, <1>2, <1>3, <1>4, <1>5, <1>6, <1>7, <1>8, <1>9, <1>10, <1>11, <1>12, <1>13, <1>14
  DEF LockNext, Locking, Unlocking

-----------------------------------------------------------------------------
(* Nobody gives the fat lock back while somebody waits in it, and nobody   *)
(* keeps it (js_SuspendThread), however many threads there are.            *)
THEOREM LockTyping == LockSpec => []LockTypeOK
<1>1. LockInv => LockTypeOK
  BY DEF LockInv, LockTyped, SuspCounted, LockTypeOK, Words, Waiters
<1> QED
  BY <1>1, LockInvInit, LockInvNext, PTL DEF LockSpec

(* Whoever unlocks through js_Dequeue finds in the word its own name and   *)
(* the wait bit, and a fat lock with somebody in it.                       *)
THEOREM Dequeues == LockSpec => []DequeueFinds
<1>1. LockInv => DequeueFinds
  BY DEF LockInv, LockTyped, Words, OwnerHolds, BitMeans, DequeueFinds, Word
<1> QED
  BY <1>1, LockInvInit, LockInvNext, PTL DEF LockSpec

(* The word is a mutex: nobody gets the lock while another has it, through *)
(* js_Lock or js_Enqueue, and what js_Unlock stores or js_Dequeue swaps    *)
(* takes the lock from the thread that unlocks.                            *)
THEOREM Excludes == LockSpec => IsMutex
<1>1. LockInit => M!Init
  BY DEF LockInit, M!Init, Free
<1>2. LockInv /\ [LockNext]_lockVars => [M!Next]_(owner.who)
  <2> SUFFICES ASSUME LockInv, [LockNext]_lockVars PROVE M!Next \/ UNCHANGED owner.who
    OBVIOUS
  <2>1. ASSUME NEW t \in Lockers, LockFast(t) \/ TakeOver(t) PROVE M!Acquire(t)
    BY <2>1 DEF LockFast, TakeOver, M!Acquire, Free, Word
  <2>2. ASSUME NEW t \in Lockers, UnlockStore(t) \/ Dequeue(t) PROVE M!Release(t)
    BY <2>2 DEF UnlockStore, Dequeue, Moves, LockInv, OwnerHolds, M!Release, Free
  <2>3. ASSUME NEW t \in Lockers, Announce(t) PROVE UNCHANGED owner.who
    BY <2>3 DEF Announce, LockInv, LockTyped, Words
  <2>4. ASSUME UNCHANGED owner PROVE UNCHANGED owner.who
    BY <2>4
  <2> QED
    BY <2>1, <2>2, <2>3, <2>4
    DEF LockNext, Locking, Unlocking, LockSlow, Enqueue, ReadOwner, Suspend, Retry, WakeUp,
        UnlockTest, Notify, lockVars, M!Next
<1> QED
  BY <1>1, <1>2, LockInvInit, LockInvNext, PTL DEF LockSpec, IsMutex, M!Spec

-----------------------------------------------------------------------------
(***************************************************************************)
(* Requests and the collector, then scopes, then the life of the runtime.  *)
(***************************************************************************)
CallRecords == [cx : Contexts \cup {None},
                scope : Scopes \cup {None}, inner : Scopes \cup {None}]

InGC == {"join", "drain", "collect"}

Typed == /\ depth \in [Contexts -> 0 .. MaxDepth]
         /\ gcLevel \in Nat /\ gcThread \in Threads \cup {None}
         /\ gcRunning \in BOOLEAN /\ gcPoke \in BOOLEAN
         /\ debit \in [Threads -> Nat]
         /\ pc \in [Threads -> Pcs]
         /\ call \in [Threads -> CallRecords]

(* What a thread that waits to begin, or yields, does it for. *)
CallOf(t) == LET c == call[t].cx IN
  /\ pc[t] \in {"begin", "yield"} => c \in Contexts /\ ThreadOf[c] = t
  /\ pc[t] = "begin" => depth[c] = 0
  /\ pc[t] = "yield" => depth[c] > 0

Calling == \A t \in Threads : CallOf(t)

(* A thread in js_GC has taken all its requests out of the count. *)
Debits == \A t \in Threads :
            debit[t] = IF pc[t] \in InGC THEN Cardinality(ActiveOf(t)) ELSE 0

Counts == requestCount = Cardinality(Counted)

(* One thread collects at a time; the others in js_GC have raised gcLevel  *)
(* and wait.  While it marks and sweeps no request counts.                 *)
Collectors ==
  /\ \A t \in Threads : /\ gcThread = t <=> pc[t] \in {"drain", "collect"}
                        /\ pc[t] = "collect" <=> gcThread = t /\ gcRunning
                        /\ pc[t] = "root" => ActiveOf(t) = {}
  /\ gcLevel > 0 <=> gcThread # None
  /\ gcLevel <= Cardinality({t \in Threads : pc[t] \in InGC})
  /\ gcRunning => gcThread # None /\ requestCount = 0

RequestInv == Typed /\ Calling /\ Debits /\ Counts /\ Collectors

-----------------------------------------------------------------------------
ScopesTyped == /\ saved \in [Threads -> 0 .. MaxDepth]
               /\ ownercx \in [Scopes -> Contexts \cup {None}]
               /\ lock \in [Scopes -> Threads \cup {None}]
               /\ todo \subseteq Scopes
               /\ held \in [Threads -> SUBSET Scopes]
               /\ sharing \in [Contexts -> Scopes \cup {None}]

ScopePcs == {"own", "outer", "claim", "share", "lock"}

(* Whoever wants a scope, or works on one, does it for one of its contexts *)
(* in a request, or suspended out of one.                                  *)
ClaimOf(t) == LET c == call[t].cx IN
  /\ pc[t] \in ScopePcs =>
       c \in Contexts /\ ThreadOf[c] = t /\ call[t].scope \in Scopes
  /\ pc[t] \in {"own", "outer", "claim", "lock"} => depth[c] > 0
  /\ pc[t] = "outer" => call[t].inner \in Scopes
  /\ pc[t] = "share" => depth[c] = 0 /\ saved[t] > 0
  /\ held[t] # {} => /\ pc[t] \in ScopePcs \cup {"run"}
                     /\ pc[t] = "run" => c \in Contexts /\ ThreadOf[c] = t /\ depth[c] > 0

Claims == \A t \in Threads : ClaimOf(t)

Suspended(c) == pc[ThreadOf[c]] = "share" /\ call[ThreadOf[c]].cx = c

Entered(c) == depth[c] > 0 \/ Suspended(c)

Listed == \A s \in todo : ownercx[s] # None /\ Entered(ownercx[s])

(* A scope that has a lock has no owner any more. *)
SharedForGood ==
  /\ \A s \in Scopes : lock[s] # None => ownercx[s] = None
  /\ \A t \in Threads : pc[t] = "lock" => ownercx[call[t].scope] = None
  /\ \A c \in Contexts : sharing[c] # None => Suspended(c)

ScopeInv == RequestInv /\ ScopesTyped /\ Claims /\ Listed /\ SharedForGood

(* A thread on its way to a scope has no other; it works on what is its    *)
(* context's or what it has the lock of.                                   *)
WorksOf(t) == /\ call[t].inner = None /\ pc[t] # "own"
              /\ held[t] # {} => pc[t] = "run" /\ call[t].scope \in held[t]
              /\ \A s \in held[t] : ownercx[s] = call[t].cx \/ lock[s] = t

Works == \A t \in Threads : WorksOf(t)

-----------------------------------------------------------------------------
Launches == {"launching", "pinning", "upping", "failed"}
Lands == {"landing", "unpinning", "lastLeaving", "lastEnding", "final"}

(* One context at most launches or lands the runtime, alone in the list or *)
(* when nobody is in it; the others live only while the runtime is up.     *)
Alone ==
  /\ \A c, d \in Contexts : phase[c] \in Launches \cup Lands /\ phase[d] \in Launches \cup Lands => c = d
  /\ \A c \in Contexts : /\ phase[c] \in Launches => state = "launching" /\ linked = {c}
                         /\ phase[c] \in Lands => state = "landing" /\ linked = {}
                         /\ phase[c] = "live" => state = "up"
                         /\ phase[c] = "upping" => pinned
  /\ state = "launching" => \E c \in Contexts : phase[c] \in Launches
  /\ state = "landing" => \E c \in Contexts : phase[c] \in Lands
  /\ state = "up" => pinned

(* Whoever is about to unpin the atoms is in a request, or waits for one.  *)
MayUnpin(c) == depth[c] > 0 \/ (pc[ThreadOf[c]] = "begin" /\ call[ThreadOf[c]].cx = c)

Unpinning == \A c \in Contexts : phase[c] = "unpinning" => MayUnpin(c)

LifeInv == RequestInv /\ LifeTypeOK /\ Alone /\ Unpinning

-----------------------------------------------------------------------------
LEMMA Finite == /\ \A S \in SUBSET Contexts : IsFiniteSet(S) /\ Cardinality(S) \in Nat
                /\ \A S \in SUBSET Threads : IsFiniteSet(S) /\ Cardinality(S) \in Nat
BY RequestsAssumption, FS_Subset, FS_CardinalityType

\* Which contexts count, and after any step that keeps the debits right.
Busy(c) == LET t == ThreadOf[c] IN
           /\ depth[c] > 0 /\ pc[t] \notin InGC
           /\ pc[t] = "yield" => call[t].cx # c

LEMMA CountedIs == Debits => Counted = {c \in Contexts : Busy(c)}
<1> SUFFICES ASSUME Debits, NEW c \in Contexts
             PROVE  c \in Counted <=> Busy(c)
  BY DEF Counted
<1> DEFINE t == ThreadOf[c]
<1>1. t \in Threads
  BY RequestsAssumption
<1>2. CASE pc[t] \in InGC
  <2>1. depth[c] > 0 => ActiveOf(t) # {}
    BY DEF ActiveOf
  <2>2. depth[c] > 0 => debit[t] > 0
    <3>1. debit[t] = Cardinality(ActiveOf(t)) /\ ActiveOf(t) \in SUBSET Contexts
      BY <1>1, <1>2 DEF Debits, ActiveOf
    <3> QED
      BY <2>1, <3>1, Finite, FS_EmptySet
  <2> QED
    BY <1>2, <2>2 DEF Counted, Hidden, InGC, Busy
<1>3. CASE pc[t] \notin InGC
  <2>1. ~(debit[t] > 0)
    BY <1>1, <1>3 DEF Debits
  <2> QED
    BY <1>3, <2>1 DEF Counted, Hidden, Busy
<1> QED
  BY <1>2, <1>3

LEMMA CountedNext == Debits' => Counted' = {c \in Contexts : Busy(c)'}
<1>1. (Debits => Counted = {c \in Contexts : Busy(c)})'
  BY CountedIs, PTL
<1> QED
  BY <1>1

\* A thread outside js_GC goes on to q, and changes nothing but its own call
\* and the requests of its own contexts, which it counts.
Steps(t, q) ==
  /\ t \in Threads /\ pc[t] \notin InGC
  /\ q \in Pcs \ InGC /\ pc' = [pc EXCEPT ![t] = q]
  /\ call' \in [Threads -> CallRecords]
  /\ \A u \in Threads : u # t => call'[u] = call[u]
  /\ depth' \in [Contexts -> 0 .. MaxDepth]
  /\ \A c \in Contexts : ThreadOf[c] # t => depth'[c] = depth[c]
  /\ gcPoke' \in BOOLEAN
  /\ UNCHANGED <<gcLevel, gcThread, gcRunning, debit>>

LEMMA StepFrame ==
  ASSUME Typed, NEW t, NEW q, Steps(t, q)
  PROVE  /\ pc'[t] = q
         /\ \A u \in Threads : u # t => /\ pc'[u] = pc[u] /\ call'[u] = call[u]
                                       /\ ActiveOf(u)' = ActiveOf(u)
         /\ \A c \in Contexts : ThreadOf[c] # t => Busy(c)' = Busy(c)
<1>1. pc'[t] = q
  BY DEF Steps, Typed
<1>2. \A u \in Threads : u # t => pc'[u] = pc[u] /\ call'[u] = call[u]
  BY DEF Steps, Typed
<1>3. \A u \in Threads : u # t => ActiveOf(u)' = ActiveOf(u)
  BY DEF Steps, ActiveOf
<1>4. ASSUME NEW c \in Contexts, ThreadOf[c] # t PROVE Busy(c)' = Busy(c)
  <2>1. ThreadOf[c] \in Threads
    BY RequestsAssumption
  <2>2. pc'[ThreadOf[c]] = pc[ThreadOf[c]] /\ call'[ThreadOf[c]] = call[ThreadOf[c]]
    BY <1>2, <1>4, <2>1
  <2>3. depth'[c] = depth[c]
    BY <1>4 DEF Steps
  <2> QED
    BY <2>2, <2>3 DEF Busy
<1> QED
  BY <1>1, <1>2, <1>3, <1>4

LEMMA StepKeeps ==
  ASSUME RequestInv, NEW t, NEW q, Steps(t, q), CallOf(t)',
         q = "root" => ActiveOf(t)' = {},
         requestCount' = Cardinality({c \in Contexts : Busy(c)'}),
         gcRunning => requestCount' = 0
  PROVE  RequestInv'
<1> USE DEF RequestInv
<1>1. Typed'
  BY DEF Typed, Steps
<1>2. Calling'
  <2>1. ASSUME NEW u \in Threads, u # t PROVE CallOf(u)'
    <3>1. pc'[u] = pc[u] /\ call'[u] = call[u]
      BY <2>1, StepFrame
    <3>2. call[u].cx \in Contexts /\ ThreadOf[call[u].cx] = u => depth'[call[u].cx] = depth[call[u].cx]
      BY <2>1 DEF Steps
    <3> QED
      BY <3>1, <3>2 DEF Calling, CallOf
  <2> QED
    BY <2>1 DEF Calling
<1>3. Debits'
  <2>1. debit[t] = 0 /\ t \in Threads /\ q \notin InGC /\ debit' = debit
    BY DEF Debits, Steps
  <2>2. pc'[t] = q
    BY StepFrame
  <2>3. \A u \in Threads : u # t => pc'[u] = pc[u] /\ ActiveOf(u)' = ActiveOf(u)
    BY StepFrame
  <2> QED
    BY <2>1, <2>2, <2>3 DEF Debits
<1>4. Counts'
  BY <1>3, CountedNext DEF Counts
<1>5. Collectors'
  <2>1. {u \in Threads : pc'[u] \in InGC} = {u \in Threads : pc[u] \in InGC}
    BY StepFrame DEF Steps
  <2>2. \A u \in Threads : u # t => pc'[u] = pc[u] /\ ActiveOf(u)' = ActiveOf(u)
    BY StepFrame
  <2>3. pc'[t] = q
    BY StepFrame
  <2>4. q \notin {"drain", "collect"} /\ pc[t] \notin {"drain", "collect"} /\ t \in Threads
    BY DEF Steps, InGC
  <2> QED
    BY <2>1, <2>2, <2>3, <2>4 DEF Collectors, Steps
<1> QED
  BY <1>1, <1>2, <1>3, <1>4, <1>5

\* No request begins or ends.
LEMMA RequestKept ==
  ASSUME RequestInv, NEW t, NEW q, Steps(t, q), pc[t] # "yield", q # "yield",
         \A c \in Contexts : depth'[c] > 0 <=> depth[c] > 0,
         q = "begin" => CallOf(t)',
         q = "root" => ActiveOf(t) = {},
         UNCHANGED requestCount
  PROVE  RequestInv'
<1> USE DEF RequestInv
<1>1. pc'[t] = q /\ t \in Threads /\ pc[t] \notin InGC /\ q \notin InGC
  <2>1. pc'[t] = q
    BY StepFrame
  <2> QED
    BY <2>1 DEF Steps, InGC
<1>2. CallOf(t)'
  BY <1>1 DEF CallOf
<1>3. ASSUME NEW c \in Contexts PROVE Busy(c)' <=> Busy(c)
  <2>1. CASE ThreadOf[c] = t
    BY <1>1, <2>1 DEF Busy
  <2>2. CASE ThreadOf[c] # t
    BY <2>2, StepFrame
  <2> QED
    BY <2>1, <2>2
<1>4. requestCount' = Cardinality({c \in Contexts : Busy(c)'})
  BY <1>3, CountedIs DEF Counts
<1>5. q = "root" => ActiveOf(t)' = {}
  BY DEF ActiveOf
<1>6. gcRunning => requestCount' = 0
  BY DEF Collectors
<1> QED
  BY <1>2, <1>4, <1>5, <1>6, StepKeeps

\* Another context is in a request; it waits until nobody collects.
LEMMA Starts ==
  ASSUME RequestInv, NEW c \in Contexts, NEW q \in {"run", "claim"}, Steps(ThreadOf[c], q),
         ~Busy(c), pc[ThreadOf[c]] = "yield" => call[ThreadOf[c]].cx = c,
         gcLevel = 0,
         depth'[c] > 0, \A d \in Contexts : d # c => depth'[d] = depth[d],
         requestCount' = requestCount + 1
  PROVE  RequestInv'
<1> DEFINE t == ThreadOf[c]
<1> USE DEF RequestInv
<1>1. pc'[t] = q /\ t \in Threads /\ pc[t] \notin InGC /\ q \notin InGC \cup {"begin", "yield"}
  <2>1. pc'[t] = q
    BY StepFrame
  <2> QED
    BY <2>1 DEF Steps, InGC
<1>2. CallOf(t)'
  BY <1>1 DEF CallOf
<1>3. Busy(c)'
  BY <1>1 DEF Busy
<1>4. ASSUME NEW d \in Contexts, d # c PROVE Busy(d)' <=> Busy(d)
  <2>1. CASE ThreadOf[d] = t
    BY <1>1, <1>4, <2>1 DEF Busy
  <2>2. CASE ThreadOf[d] # t
    BY <2>2, StepFrame
  <2> QED
    BY <2>1, <2>2
<1>5. {d \in Contexts : Busy(d)'} = {d \in Contexts : Busy(d)} \cup {c}
  BY <1>3, <1>4
<1>6. requestCount' = Cardinality({d \in Contexts : Busy(d)'})
  BY <1>5, CountedIs, Finite, FS_AddElement DEF Counts
<1>7. ~gcRunning
  BY DEF Collectors
<1> QED
  BY <1>2, <1>6, <1>7, StepKeeps

\* The request of a context ends, or is suspended, or its thread yields.
LEMMA Ends ==
  ASSUME RequestInv, NEW c \in Contexts, NEW q \in {"run", "share", "yield"},
         Steps(ThreadOf[c], q), pc[ThreadOf[c]] # "yield", depth[c] > 0,
         IF q = "yield" THEN depth'[c] > 0 /\ call'[ThreadOf[c]].cx = c ELSE depth'[c] = 0,
         \A d \in Contexts : d # c => depth'[d] = depth[d],
         requestCount' = requestCount - 1
  PROVE  RequestInv'
<1> DEFINE t == ThreadOf[c]
<1> USE DEF RequestInv
<1>1. pc'[t] = q /\ t \in Threads /\ pc[t] \notin InGC /\ q \notin InGC \cup {"begin"}
  <2>1. pc'[t] = q
    BY StepFrame
  <2> QED
    BY <2>1 DEF Steps, InGC
<1>2. CallOf(t)'
  BY <1>1 DEF CallOf
<1>3. Busy(c) /\ ~Busy(c)'
  BY <1>1 DEF Busy, Typed
<1>4. ASSUME NEW d \in Contexts, d # c PROVE Busy(d)' <=> Busy(d)
  <2>1. CASE ThreadOf[d] = t
    BY <1>1, <1>4, <2>1 DEF Busy
  <2>2. CASE ThreadOf[d] # t
    BY <2>2, StepFrame
  <2> QED
    BY <2>1, <2>2
<1>5. {d \in Contexts : Busy(d)'} = {d \in Contexts : Busy(d)} \ {c}
  BY <1>3, <1>4
<1>6. requestCount > 0 /\ requestCount' = Cardinality({d \in Contexts : Busy(d)'})
  <2>1. {d \in Contexts : Busy(d)} # {}
    BY <1>3
  <2> QED
    BY <1>3, <1>5, <2>1, CountedIs, Finite, FS_RemoveElement, FS_EmptySet DEF Counts
<1>7. ~gcRunning
  BY <1>6 DEF Collectors
<1> QED
  BY <1>1, <1>2, <1>6, <1>7, StepKeeps

-----------------------------------------------------------------------------
\* What a thread finds when it enters or leaves js_GC: exactly its own
\* contexts change sides.
LEMMA ActiveCount ==
  ASSUME NEW t \in Threads
  PROVE  /\ ActiveOf(t) \in SUBSET Contexts /\ Cardinality(ActiveOf(t)) \in Nat
         /\ \A B \in SUBSET Contexts :
              /\ ActiveOf(t) \subseteq B =>
                   Cardinality(B \ ActiveOf(t)) = Cardinality(B) - Cardinality(ActiveOf(t))
              /\ ActiveOf(t) \cap B = {} =>
                   Cardinality(B \cup ActiveOf(t)) = Cardinality(B) + Cardinality(ActiveOf(t))
<1>1. ActiveOf(t) \in SUBSET Contexts /\ Cardinality(ActiveOf(t)) \in Nat
  BY Finite DEF ActiveOf
<1>2. ASSUME NEW B \in SUBSET Contexts, ActiveOf(t) \subseteq B
      PROVE  Cardinality(B \ ActiveOf(t)) = Cardinality(B) - Cardinality(ActiveOf(t))
  <2>1. B \cap ActiveOf(t) = ActiveOf(t)
    BY <1>2
  <2> QED
    BY <2>1, <1>1, Finite, FS_Difference
<1>3. ASSUME NEW B \in SUBSET Contexts, ActiveOf(t) \cap B = {}
      PROVE  Cardinality(B \cup ActiveOf(t)) = Cardinality(B) + Cardinality(ActiveOf(t))
  <2>1. Cardinality(B \cap ActiveOf(t)) = 0
    BY <1>3, FS_EmptySet
  <2>2. Cardinality(B) \in Nat
    BY Finite
  <2>3. Cardinality(B \cup ActiveOf(t))
          = Cardinality(B) + Cardinality(ActiveOf(t)) - Cardinality(B \cap ActiveOf(t))
    BY <1>1, Finite, FS_Union
  <2> QED
    BY <1>1, <2>1, <2>2, <2>3
<1> QED
  BY <1>1, <1>2, <1>3

LEMMA EnterGCKeeps == ASSUME RequestInv, NEW t \in Threads, EnterGC(t) PROVE RequestInv'
<1> DEFINE own == Cardinality(ActiveOf(t))
           q == IF gcLevel > 0 THEN "join" ELSE "drain"
<1> USE DEF RequestInv
<1>1. /\ pc[t] = "gc" /\ pc' = [pc EXCEPT ![t] = q]
      /\ depth' = depth /\ call' = call /\ gcRunning' = gcRunning /\ gcPoke' = FALSE
      /\ debit' = [debit EXCEPT ![t] = own]
      /\ requestCount' = requestCount - own
      /\ gcLevel' = gcLevel + 1
      /\ gcThread' = IF gcLevel > 0 THEN gcThread ELSE t
  BY DEF EnterGC, At, Goto
<1>2. own \in Nat
  BY ActiveCount
<1>3. pc'[t] = q /\ q \in InGC /\ \A u \in Threads : u # t => pc'[u] = pc[u]
  BY <1>1 DEF Typed, InGC
<1>4. Typed'
  <2>1. q \in Pcs
    BY DEF Pcs
  <2>2. debit' \in [Threads -> Nat] /\ pc' \in [Threads -> Pcs]
    BY <1>1, <1>2, <2>1 DEF Typed
  <2>3. gcLevel' \in Nat /\ gcThread' \in Threads \cup {None}
    BY <1>1 DEF Typed
  <2>4. /\ depth' \in [Contexts -> 0 .. MaxDepth] /\ call' \in [Threads -> CallRecords]
        /\ gcRunning' \in BOOLEAN /\ gcPoke' \in BOOLEAN
    BY <1>1 DEF Typed
  <2> QED
    BY <2>2, <2>3, <2>4 DEF Typed
<1>5. Calling'
  BY <1>1, <1>3 DEF Calling, CallOf, InGC
<1>6. \A u \in Threads : ActiveOf(u)' = ActiveOf(u)
  BY <1>1 DEF ActiveOf
<1>7. Debits'
  BY <1>1, <1>3, <1>6 DEF Debits, Typed
<1>8. Counts'
  <2>1. ASSUME NEW c \in Contexts PROVE Busy(c)' <=> Busy(c) /\ c \notin ActiveOf(t)
    <3>1. ThreadOf[c] \in Threads
      BY RequestsAssumption
    <3> QED
      BY <1>1, <1>3, <3>1 DEF Busy, ActiveOf
  <2>2. \A c \in ActiveOf(t) : Busy(c)
    BY <1>1 DEF Busy, ActiveOf, InGC
  <2>3. {c \in Contexts : Busy(c)'} = {c \in Contexts : Busy(c)} \ ActiveOf(t)
    BY <2>1
  <2>4. ActiveOf(t) \subseteq {c \in Contexts : Busy(c)}
    BY <2>2, ActiveCount
  <2> QED
    BY <1>1, <1>7, <2>3, <2>4, ActiveCount, CountedIs, CountedNext DEF Counts
<1>9. Collectors'
  <2>1. gcRunning => requestCount' = 0
    <3>1. requestCount' \in Nat
      BY <1>7, <1>8, CountedNext, Finite DEF Counts
    <3> QED
      BY <1>1, <1>2, <3>1 DEF Collectors
  <2>2. gcLevel' <= Cardinality({u \in Threads : pc'[u] \in InGC})
    <3>1. {u \in Threads : pc'[u] \in InGC} = {u \in Threads : pc[u] \in InGC} \cup {t}
      BY <1>3
    <3>2. t \notin {u \in Threads : pc[u] \in InGC}
      BY <1>1 DEF InGC
    <3>3. Cardinality({u \in Threads : pc'[u] \in InGC})
            = Cardinality({u \in Threads : pc[u] \in InGC}) + 1
      BY <3>1, <3>2, Finite, FS_AddElement
    <3>4. Cardinality({u \in Threads : pc[u] \in InGC}) \in Nat
      BY Finite
    <3> QED
      BY <1>1, <3>3, <3>4 DEF Collectors, Typed
  <2>3. gcLevel' > 0 /\ gcThread' # None
    BY <1>1, RequestsAssumption DEF Collectors, Typed
  <2>4. ASSUME NEW u \in Threads
        PROVE  /\ gcThread' = u <=> pc'[u] \in {"drain", "collect"}
               /\ pc'[u] = "collect" <=> gcThread' = u /\ gcRunning'
               /\ pc'[u] = "root" => ActiveOf(u)' = {}
    <3>1. CASE gcLevel > 0
      BY <1>1, <1>3, <1>6, <3>1, RequestsAssumption DEF Collectors
    <3>2. CASE ~(gcLevel > 0)
      <4>1. gcThread = None /\ ~gcRunning /\ gcThread' = t /\ pc'[t] = "drain"
        BY <1>1, <1>3, <3>2 DEF Collectors
      <4> QED
        BY <1>1, <1>3, <1>6, <4>1, RequestsAssumption DEF Collectors
    <3> QED
      BY <3>1, <3>2
  <2> QED
    BY <1>1, <2>1, <2>2, <2>3, <2>4 DEF Collectors
<1> QED
  BY <1>4, <1>5, <1>7, <1>8, <1>9

\* The end of js_GC, for the thread that collected and for one that joined:
\* its requests count again.
LEMMA LeaveGC ==
  ASSUME RequestInv, NEW t \in Threads, pc[t] \in InGC,
         pc' = [pc EXCEPT ![t] = "run"], debit' = [debit EXCEPT ![t] = 0],
         requestCount' = requestCount + debit[t],
         UNCHANGED <<depth, call>>
  PROVE  Calling' /\ Debits' /\ Counts' /\ \A u \in Threads : ActiveOf(u)' = ActiveOf(u)
<1> USE DEF RequestInv
<1>1. pc'[t] = "run" /\ \A u \in Threads : u # t => pc'[u] = pc[u]
  BY DEF Typed
<1>2. \A u \in Threads : ActiveOf(u)' = ActiveOf(u)
  BY DEF ActiveOf
<1>3. Calling'
  BY <1>1 DEF Calling, CallOf
<1>4. Debits'
  BY <1>1, <1>2 DEF Debits, Typed, InGC
<1>5. Counts'
  <2>1. ASSUME NEW c \in Contexts PROVE Busy(c)' <=> Busy(c) \/ c \in ActiveOf(t)
    <3>1. ThreadOf[c] \in Threads
      BY RequestsAssumption
    <3>2. CASE ThreadOf[c] = t
      BY <1>1, <3>2 DEF Busy, ActiveOf, InGC
    <3>3. CASE ThreadOf[c] # t
      BY <1>1, <3>1, <3>3 DEF Busy, ActiveOf
    <3> QED
      BY <3>2, <3>3
  <2>2. \A c \in ActiveOf(t) : ~Busy(c)
    BY DEF Busy, ActiveOf
  <2>3. {c \in Contexts : Busy(c)'} = {c \in Contexts : Busy(c)} \cup ActiveOf(t)
    BY <2>1, ActiveCount
  <2>4. ActiveOf(t) \cap {c \in Contexts : Busy(c)} = {}
    BY <2>2
  <2>5. debit[t] = Cardinality(ActiveOf(t))
    BY DEF Debits
  <2> QED
    BY <1>4, <2>3, <2>4, <2>5, ActiveCount, CountedIs, CountedNext DEF Counts
<1> QED
  BY <1>2, <1>3, <1>4, <1>5

\* A thread that only waits again, for the same.
LEMMA Unmoved ==
  ASSUME RequestInv, UNCHANGED <<requestVars, gcVars, pc, call>>
  PROVE  RequestInv'
<1>1. \A t \in Threads : ActiveOf(t)' = ActiveOf(t)
  BY DEF requestVars, ActiveOf
<1>2. Counted' = Counted
  BY DEF requestVars, gcVars, Counted, Hidden
<1> QED
  BY <1>1, <1>2 DEF RequestInv, requestVars, gcVars, Typed, Calling, CallOf, Debits, Counts, Collectors

LEMMA JoinKeeps == ASSUME RequestInv, NEW t \in Threads, Join(t) PROVE RequestInv'
<1>1. CASE gcLevel > 0
  BY <1>1, Unmoved DEF Join, requestVars, gcVars
<1>2. CASE ~(gcLevel > 0)
  <2> USE DEF RequestInv
  <2>1. /\ pc[t] = "join" /\ pc' = [pc EXCEPT ![t] = "run"]
        /\ debit' = [debit EXCEPT ![t] = 0] /\ requestCount' = requestCount + debit[t]
        /\ UNCHANGED <<depth, call, gcLevel, gcThread, gcRunning, gcPoke>>
    BY <1>2 DEF Join, At, Goto
  <2>2. Calling' /\ Debits' /\ Counts' /\ \A u \in Threads : ActiveOf(u)' = ActiveOf(u)
    BY <2>1, LeaveGC DEF InGC
  <2>3. Typed'
    BY <2>1 DEF Typed, Pcs
  <2>4. Collectors'
    <3>1. gcThread = None /\ ~gcRunning /\ gcLevel = 0
      BY <1>2 DEF Collectors, Typed
    <3>2. Cardinality({u \in Threads : pc'[u] \in InGC}) \in Nat
      BY Finite
    <3>3. pc'[t] = "run" /\ \A u \in Threads : u # t => pc'[u] = pc[u]
      BY <2>1 DEF Typed
    <3> QED
      BY <2>1, <2>2, <3>1, <3>2, <3>3 DEF Collectors
  <2> QED
    BY <2>2, <2>3, <2>4
<1> QED
  BY <1>1, <1>2

LEMMA EndGCKeeps == ASSUME RequestInv, NEW t \in Threads, EndGC(t) PROVE RequestInv'
<1> USE DEF RequestInv
<1>1. /\ pc[t] = "collect" /\ pc' = [pc EXCEPT ![t] = "run"]
      /\ debit' = [debit EXCEPT ![t] = 0] /\ requestCount' = requestCount + debit[t]
      /\ gcLevel' = 0 /\ gcThread' = None /\ gcRunning' = FALSE
      /\ UNCHANGED <<depth, call, gcPoke>>
  BY DEF EndGC, At, Goto
<1>2. Calling' /\ Debits' /\ Counts' /\ \A u \in Threads : ActiveOf(u)' = ActiveOf(u)
  BY <1>1, LeaveGC DEF InGC
<1>3. Typed'
  BY <1>1 DEF Typed, Pcs
<1>4. Collectors'
  <2>1. gcThread = t
    BY <1>1 DEF Collectors
  <2>2. Cardinality({u \in Threads : pc'[u] \in InGC}) \in Nat
    BY Finite
  <2>3. pc'[t] = "run" /\ \A u \in Threads : u # t => pc'[u] = pc[u]
    BY <1>1 DEF Typed
  <2> QED
    BY <1>1, <1>2, <2>1, <2>2, <2>3, RequestsAssumption DEF Collectors
<1> QED
  BY <1>2, <1>3, <1>4

LEMMA DrainKeeps == ASSUME RequestInv, NEW t \in Threads, Drain(t) PROVE RequestInv'
<1>1. CASE requestCount > 0
  BY <1>1, Unmoved DEF Drain, gcVars
<1>2. CASE ~(requestCount > 0)
  <2> USE DEF RequestInv
  <2>1. /\ pc[t] = "drain" /\ pc' = [pc EXCEPT ![t] = "collect"] /\ gcRunning' = TRUE
        /\ UNCHANGED <<requestVars, gcLevel, gcThread, gcPoke, debit, call>>
    BY <1>2 DEF Drain, At, Goto
  <2>2. pc'[t] = "collect" /\ \A u \in Threads : u # t => pc'[u] = pc[u]
    BY <2>1 DEF Typed
  <2>3. Typed'
    BY <2>1 DEF Typed, Pcs, requestVars
  <2>4. Calling'
    BY <2>1, <2>2 DEF Calling, CallOf, requestVars
  <2>5. \A u \in Threads : ActiveOf(u)' = ActiveOf(u)
    BY <2>1 DEF ActiveOf, requestVars
  <2>6. Debits'
    BY <2>1, <2>2, <2>5 DEF Debits, InGC
  <2>7. Counts'
    <3>1. ASSUME NEW c \in Contexts PROVE Busy(c)' <=> Busy(c)
      BY <2>1, <2>2, RequestsAssumption DEF Busy, InGC, requestVars
    <3> QED
      BY <2>1, <2>6, <3>1, CountedIs, CountedNext DEF Counts, requestVars
  <2>8. Collectors'
    <3>1. gcThread = t
      BY <2>1 DEF Collectors
    <3>2. requestCount = 0
      BY <1>2, CountedIs, Finite DEF Counts
    <3>3. {u \in Threads : pc'[u] \in InGC} = {u \in Threads : pc[u] \in InGC}
      BY <2>1, <2>2 DEF InGC
    <3> QED
      BY <2>1, <2>2, <2>5, <3>1, <3>2, <3>3, RequestsAssumption DEF Collectors, requestVars
  <2> QED
    BY <2>3, <2>4, <2>6, <2>7, <2>8
<1> QED
  BY <1>1, <1>2

LEMMA RestartKeeps == ASSUME RequestInv, NEW t \in Threads, Restart(t) PROVE RequestInv'
<1> USE DEF RequestInv
<1>1. /\ pc[t] = "collect" /\ gcLevel' = 1 /\ gcPoke' = FALSE
      /\ UNCHANGED <<requestVars, gcThread, gcRunning, debit, pc, call>>
  BY DEF Restart, At, threadVars
<1>2. \A u \in Threads : ActiveOf(u)' = ActiveOf(u)
  BY <1>1 DEF ActiveOf, requestVars
<1>3. Counted' = Counted
  BY <1>1 DEF Counted, Hidden, requestVars
<1>4. gcLevel > 0
  BY <1>1, RequestsAssumption DEF Collectors
<1>5. gcLevel' <= Cardinality({u \in Threads : pc[u] \in InGC})
  <2>1. Cardinality({u \in Threads : pc[u] \in InGC}) \in Nat
    BY Finite
  <2> QED
    BY <1>1, <1>4, <2>1 DEF Collectors, Typed
<1>6. Collectors'
  BY <1>1, <1>2, <1>4, <1>5 DEF Collectors, requestVars
<1>7. Typed'
  BY <1>1 DEF Typed, requestVars
<1>8. Calling' /\ Debits' /\ Counts'
  BY <1>1, <1>2, <1>3 DEF Calling, CallOf, Debits, Counts, requestVars
<1> QED
  BY <1>6, <1>7, <1>8

\* The calls on requests and roots.
LEMMA BeginRequestKeeps ==
  ASSUME RequestInv, NEW c \in Contexts, BeginRequest(c) PROVE RequestInv'
<1> DEFINE t == ThreadOf[c]
<1> USE DEF RequestInv
<1>1. t \in Threads /\ pc[t] = "run"
  BY RequestsAssumption DEF BeginRequest, Runs
<1>2. CASE depth[c] = 0 /\ MustWait(t)
  <2>1. /\ pc' = [pc EXCEPT ![t] = "begin"] /\ call' = [call EXCEPT ![t].cx = c]
        /\ UNCHANGED <<requestVars, gcVars>>
    BY <1>2 DEF BeginRequest, Goto
  <2>2. call' \in [Threads -> CallRecords]
    BY <1>1, <2>1 DEF Typed, CallRecords
  <2>3. Steps(t, "begin")
    BY <1>1, <2>1, <2>2 DEF Steps, Typed, Pcs, InGC, requestVars, gcVars
  <2>4. CallOf(t)'
    BY <1>1, <1>2, <2>1 DEF CallOf, Typed, CallRecords, requestVars
  <2> QED
    BY <1>1, <2>1, <2>3, <2>4, RequestKept DEF requestVars
<1>3. CASE ~(depth[c] = 0 /\ MustWait(t))
  <2>1. /\ depth' = [depth EXCEPT ![c] = depth[c] + 1] /\ depth[c] < MaxDepth
        /\ requestCount' = IF depth[c] = 0 THEN requestCount + 1 ELSE requestCount
        /\ UNCHANGED <<gcVars, threadVars>>
    BY <1>3 DEF BeginRequest
  <2>2. depth'[c] > 0 /\ depth' \in [Contexts -> 0 .. MaxDepth]
    BY <2>1, RequestsAssumption DEF Typed
  <2>3. \A d \in Contexts : d # c => depth'[d] = depth[d]
    BY <2>1 DEF Typed
  <2>4. Steps(t, "run")
    <3>1. pc' = [pc EXCEPT ![t] = "run"]
      BY <1>1, <2>1 DEF Typed, threadVars
    <3> QED
      BY <1>1, <2>1, <2>2, <2>3, <3>1 DEF Steps, Typed, Pcs, InGC, gcVars, threadVars
  <2>5. CASE depth[c] = 0
    <3>1. gcLevel = 0
      <4>1. gcThread # t
        BY <1>1 DEF Collectors
      <4> QED
        BY <1>3, <2>5, <4>1 DEF MustWait, Typed
    <3>2. ~Busy(c)
      BY <2>5 DEF Busy
    <3> QED
      BY <1>1, <2>1, <2>2, <2>3, <2>4, <2>5, <3>1, <3>2, Starts
  <2>6. CASE depth[c] # 0
    <3>1. \A d \in Contexts : depth'[d] > 0 <=> depth[d] > 0
      BY <2>2, <2>3, <2>6 DEF Typed
    <3> QED
      BY <1>1, <2>1, <2>4, <2>6, <3>1, RequestKept
  <2> QED
    BY <2>5, <2>6
<1> QED
  BY <1>2, <1>3

LEMMA BeginAgainKeeps ==
  ASSUME RequestInv, NEW t \in Threads, BeginAgain(t) PROVE RequestInv'
<1> DEFINE c == call[t].cx
<1> USE DEF RequestInv
<1>1. CASE gcLevel > 0
  BY <1>1, Unmoved DEF BeginAgain
<1>2. CASE ~(gcLevel > 0)
  <2>1. /\ pc[t] = "begin" /\ pc' = [pc EXCEPT ![t] = "run"]
        /\ call' = [call EXCEPT ![t] = NoCall]
        /\ depth' = [depth EXCEPT ![c] = 1] /\ requestCount' = requestCount + 1
        /\ UNCHANGED gcVars
    BY <1>2 DEF BeginAgain, At, Goto
  <2>2. c \in Contexts /\ ThreadOf[c] = t /\ depth[c] = 0
    BY <2>1 DEF Calling, CallOf
  <2>3. call' \in [Threads -> CallRecords]
    BY <2>1 DEF Typed, CallRecords, NoCall
  <2>4. /\ depth' \in [Contexts -> 0 .. MaxDepth] /\ depth'[c] > 0
        /\ \A d \in Contexts : d # c => depth'[d] = depth[d]
    BY <2>1, <2>2, RequestsAssumption DEF Typed
  <2>5. Steps(t, "run")
    BY <2>1, <2>2, <2>3, <2>4 DEF Steps, Typed, Pcs, InGC, gcVars
  <2>6. gcLevel = 0 /\ ~Busy(c)
    BY <1>2, <2>2 DEF Typed, Busy
  <2> QED
    BY <2>1, <2>2, <2>4, <2>5, <2>6, Starts
<1> QED
  BY <1>1, <1>2

LEMMA EndRequestKeeps ==
  ASSUME RequestInv, NEW c \in Contexts, EndRequest(c) PROVE RequestInv'
<1> DEFINE t == ThreadOf[c]
<1> USE DEF RequestInv
<1>1. /\ t \in Threads /\ pc[t] = "run" /\ depth[c] > 0
      /\ depth' = [depth EXCEPT ![c] = depth[c] - 1]
      /\ requestCount' = IF depth[c] > 1 THEN requestCount ELSE requestCount - 1
      /\ UNCHANGED <<gcVars, pc, call>>
  BY RequestsAssumption DEF EndRequest, Runs, Drop
<1>2. /\ depth' \in [Contexts -> 0 .. MaxDepth] /\ depth'[c] = depth[c] - 1
      /\ \A d \in Contexts : d # c => depth'[d] = depth[d]
  BY <1>1, RequestsAssumption DEF Typed
<1>3. Steps(t, "run")
  <2>1. pc' = [pc EXCEPT ![t] = "run"]
    BY <1>1 DEF Typed
  <2> QED
    BY <1>1, <1>2, <2>1 DEF Steps, Typed, Pcs, InGC, gcVars
<1>4. CASE depth[c] > 1
  <2>1. \A d \in Contexts : depth'[d] > 0 <=> depth[d] > 0
    BY <1>2, <1>4 DEF Typed
  <2> QED
    BY <1>1, <1>3, <1>4, <2>1, RequestKept
<1>5. CASE ~(depth[c] > 1)
  <2>1. depth'[c] = 0
    BY <1>1, <1>2, <1>5 DEF Typed
  <2> QED
    BY <1>1, <1>2, <1>3, <1>5, <2>1, Ends
<1> QED
  BY <1>4, <1>5

LEMMA YieldRequestKeeps ==
  ASSUME RequestInv, NEW c \in Contexts, YieldRequest(c) PROVE RequestInv'
<1> DEFINE t == ThreadOf[c]
<1> USE DEF RequestInv
<1>1. /\ t \in Threads /\ pc[t] = "run" /\ depth[c] > 0
      /\ pc' = [pc EXCEPT ![t] = "yield"] /\ call' = [call EXCEPT ![t].cx = c]
      /\ requestCount' = requestCount - 1
      /\ UNCHANGED <<depth, gcVars>>
  BY RequestsAssumption DEF YieldRequest, Runs, Drop, Goto
<1>2. call' \in [Threads -> CallRecords] /\ call'[t].cx = c
  BY <1>1 DEF Typed, CallRecords
<1>3. Steps(t, "yield")
  BY <1>1, <1>2 DEF Steps, Typed, Pcs, InGC, gcVars
<1> QED
  BY <1>1, <1>2, <1>3, Ends

LEMMA YieldEndsKeeps ==
  ASSUME RequestInv, NEW t \in Threads, YieldEnds(t) PROVE RequestInv'
<1> DEFINE c == call[t].cx
<1> USE DEF RequestInv
<1>1. CASE MustWait(t)
  BY <1>1, Unmoved DEF YieldEnds
<1>2. CASE ~MustWait(t)
  <2>1. /\ pc[t] = "yield" /\ pc' = [pc EXCEPT ![t] = "run"]
        /\ call' = [call EXCEPT ![t] = NoCall]
        /\ requestCount' = requestCount + 1
        /\ UNCHANGED <<depth, gcVars>>
    BY <1>2 DEF YieldEnds, At, Goto
  <2>2. c \in Contexts /\ ThreadOf[c] = t /\ depth[c] > 0
    BY <2>1 DEF Calling, CallOf
  <2>3. call' \in [Threads -> CallRecords]
    BY <2>1 DEF Typed, CallRecords, NoCall
  <2>4. Steps(t, "run")
    BY <2>1, <2>3 DEF Steps, Typed, Pcs, InGC, gcVars
  <2>5. gcLevel = 0
    BY <1>2, <2>1 DEF MustWait, Collectors, Typed
  <2>6. ~Busy(c)
    BY <2>1, <2>2 DEF Busy
  <2> QED
    BY <2>1, <2>2, <2>4, <2>5, <2>6, Starts
<1> QED
  BY <1>1, <1>2

\* A thread goes on with its requests as they are.
LEMMA Continues ==
  ASSUME RequestInv, NEW t \in Threads, NEW q \in Pcs \ (InGC \cup {"begin", "yield"}),
         pc[t] \notin InGC \cup {"yield"}, pc' = [pc EXCEPT ![t] = q],
         call' \in [Threads -> CallRecords], \A u \in Threads : u # t => call'[u] = call[u],
         gcPoke' \in BOOLEAN, q = "root" => ActiveOf(t) = {},
         UNCHANGED <<requestVars, gcLevel, gcThread, gcRunning, debit>>
  PROVE  RequestInv'
<1>1. Steps(t, q)
  BY DEF Steps, RequestInv, Typed, requestVars
<1>2. \A c \in Contexts : depth'[c] > 0 <=> depth[c] > 0
  BY DEF requestVars
<1> QED
  BY <1>1, <1>2, RequestKept DEF requestVars

\* While the collector runs, a thread that runs is in no request.
LEMMA RunsInNone ==
  ASSUME RequestInv, gcRunning, NEW t \in Threads, pc[t] \notin InGC \cup {"yield"}
  PROVE  ActiveOf(t) = {}
<1>1. {c \in Contexts : Busy(c)} = {}
  BY CountedIs, Finite, FS_EmptySet DEF RequestInv, Counts, Collectors
<1> QED
  BY <1>1 DEF ActiveOf, Busy

LEMMA CollectKeeps ==
  ASSUME RequestInv, NEW c \in Contexts, Collect(c) PROVE RequestInv'
<1>1. /\ ThreadOf[c] \in Threads /\ pc[ThreadOf[c]] = "run"
      /\ pc' = [pc EXCEPT ![ThreadOf[c]] = "gc"] /\ gcPoke' = TRUE
      /\ UNCHANGED <<requestVars, gcLevel, gcThread, gcRunning, debit, call>>
  BY RequestsAssumption DEF Collect, Runs, Goto
<1> QED
  BY <1>1, Continues DEF RequestInv, Typed, Pcs, InGC

LEMMA NotPokedKeeps ==
  ASSUME RequestInv, NEW t \in Threads, NotPoked(t) PROVE RequestInv'
<1>1. /\ pc[t] = "gc" /\ pc' = [pc EXCEPT ![t] = "run"]
      /\ UNCHANGED <<requestVars, gcVars, call>>
  BY DEF NotPoked, At, Goto
<1> QED
  BY <1>1, Continues DEF RequestInv, Typed, Pcs, InGC, gcVars

LEMMA RemoveRootKeeps ==
  ASSUME RequestInv, NEW c \in Contexts, RemoveRoot(c) PROVE RequestInv'
<1> DEFINE t == ThreadOf[c]
<1>1. /\ t \in Threads /\ pc[t] = "run"
      /\ UNCHANGED <<requestVars, gcLevel, gcThread, gcRunning, debit, call>>
  BY RequestsAssumption DEF RemoveRoot, Runs
<1>2. CASE gcRunning
  <2>1. pc' = [pc EXCEPT ![t] = "root"] /\ UNCHANGED gcPoke
    BY <1>2 DEF RemoveRoot, Goto
  <2>2. ActiveOf(t) = {}
    BY <1>1, <1>2, RunsInNone DEF InGC
  <2> QED
    BY <1>1, <2>1, <2>2, Continues DEF RequestInv, Typed, Pcs, InGC
<1>3. CASE ~gcRunning
  <2>1. pc' = [pc EXCEPT ![t] = "run"] /\ gcPoke' = TRUE
    BY <1>1, <1>3 DEF RemoveRoot, RequestInv, Typed
  <2> QED
    BY <1>1, <2>1, Continues DEF RequestInv, Typed, Pcs, InGC
<1> QED
  BY <1>2, <1>3

LEMMA RemoveRootAgainKeeps ==
  ASSUME RequestInv, NEW t \in Threads, RemoveRootAgain(t) PROVE RequestInv'
<1>1. CASE gcLevel > 0
  BY <1>1, Unmoved DEF RemoveRootAgain, gcVars
<1>2. CASE ~(gcLevel > 0)
  <2>1. /\ pc[t] = "root" /\ pc' = [pc EXCEPT ![t] = "run"] /\ gcPoke' = TRUE
        /\ UNCHANGED <<requestVars, gcLevel, gcThread, gcRunning, debit, call>>
    BY <1>2 DEF RemoveRootAgain, At, Goto
  <2> QED
    BY <2>1, Continues DEF RequestInv, Typed, Pcs, InGC
<1> QED
  BY <1>1, <1>2

LEMMA RequestInvInit == Init => RequestInv
<1> SUFFICES ASSUME Init PROVE RequestInv
  OBVIOUS
<1>1. Typed
  <2>1. NoCall \in CallRecords /\ 0 \in 0 .. MaxDepth
    BY RequestsAssumption DEF NoCall, CallRecords
  <2> QED
    BY <2>1 DEF Init, Typed, Pcs
<1>2. Calling /\ Debits
  BY DEF Init, Calling, CallOf, Debits, InGC
<1>3. Counts
  <2>1. Counted = {}
    BY DEF Init, Counted
  <2> QED
    BY <2>1, FS_EmptySet DEF Init, Counts
<1>4. Collectors
  <2>1. {t \in Threads : pc[t] \in InGC} = {}
    BY DEF Init, InGC
  <2>2. gcLevel <= Cardinality({t \in Threads : pc[t] \in InGC})
    BY <2>1, FS_EmptySet DEF Init
  <2> QED
    BY <2>2, RequestsAssumption DEF Init, Collectors
<1> QED
  BY <1>1, <1>2, <1>3, <1>4 DEF RequestInv

LEMMA RequestingKeeps ==
  ASSUME RequestInv, NEW t \in Threads, Requesting(t) \/ Collecting(t) PROVE RequestInv'
BY BeginAgainKeeps, YieldEndsKeeps, RemoveRootAgainKeeps, NotPokedKeeps, EnterGCKeeps,
   JoinKeeps, DrainKeeps, RestartKeeps, EndGCKeeps
DEF Requesting, Collecting

-----------------------------------------------------------------------------
\* The calls and waits on scopes leave the count right.
LEMMA ScopesKeepRequests ==
  ASSUME RequestInv, ScopesTyped, Claims, NEW t \in Threads, Claiming(t)
  PROVE  RequestInv'
<1> USE DEF RequestInv
<1>1. CASE Own(t) \/ Claim(t) \/ Lock(t)
  <2>1. PICK q \in {"run", "outer"} :
          /\ pc[t] \in {"own", "claim", "lock"} /\ pc' = [pc EXCEPT ![t] = q]
          /\ call' = call
          /\ UNCHANGED <<requestVars, gcVars>>
    BY <1>1 DEF Own, Claim, Lock, At, Enter, Goto
  <2>2. call' \in [Threads -> CallRecords] /\ \A u \in Threads : u # t => call'[u] = call[u]
    BY <2>1 DEF Typed
  <2> QED
    BY <2>1, <2>2, Continues DEF Pcs, InGC, gcVars, Typed
<1>2. CASE LockInner(t)
  <2>1. PICK q \in {"own", "lock", "claim"} :
          /\ pc[t] = "outer" /\ pc' = [pc EXCEPT ![t] = q]
          /\ call' = [call EXCEPT ![t] = [cx |-> call[t].cx, scope |-> call[t].inner, inner |-> None]]
          /\ UNCHANGED <<requestVars, gcVars>>
    BY <1>2 DEF LockInner, At, Goto, WorkOn
  <2>2. call' \in [Threads -> CallRecords] /\ \A u \in Threads : u # t => call'[u] = call[u]
    BY <2>1 DEF Typed, CallRecords
  <2> QED
    BY <2>1, <2>2, Continues DEF Pcs, InGC, gcVars, Typed
<1>3. CASE ClaimShared(t) \/ ShareScope(t)
  <2>1. /\ pc[t] = "claim" /\ pc' = [pc EXCEPT ![t] = "lock"]
        /\ UNCHANGED <<requestVars, gcVars, call>>
    BY <1>3 DEF ClaimShared, ShareScope, At, Goto
  <2> QED
    BY <2>1, Continues DEF Pcs, InGC, gcVars, Typed
<1>4. CASE AwaitShare(t)
  <2> DEFINE c == call[t].cx
  <2>1. /\ pc[t] = "claim" /\ pc' = [pc EXCEPT ![t] = "share"]
        /\ depth' = [depth EXCEPT ![c] = 0] /\ requestCount' = requestCount - 1
        /\ UNCHANGED <<gcVars, call>>
    BY <1>4 DEF AwaitShare, At, Goto
  <2>2. c \in Contexts /\ ThreadOf[c] = t /\ depth[c] > 0
    BY <2>1 DEF Claims, ClaimOf, ScopePcs
  <2>3. /\ depth' \in [Contexts -> 0 .. MaxDepth] /\ depth'[c] = 0
        /\ \A d \in Contexts : d # c => depth'[d] = depth[d]
    BY <2>1, <2>2, RequestsAssumption DEF Typed
  <2>4. Steps(t, "share")
    BY <2>1, <2>2, <2>3 DEF Steps, Typed, Pcs, InGC, gcVars
  <2> QED
    BY <2>1, <2>2, <2>3, <2>4, Ends
<1>5. CASE Shared(t)
  <2> DEFINE c == call[t].cx
  <2>1. CASE gcLevel > 0
    BY <1>5, <2>1, Unmoved DEF Shared
  <2>2. CASE ~(gcLevel > 0)
    <3>1. /\ pc[t] = "share" /\ pc' = [pc EXCEPT ![t] = "claim"]
          /\ depth' = [depth EXCEPT ![c] = saved[t]] /\ requestCount' = requestCount + 1
          /\ UNCHANGED <<gcVars, call>>
      BY <1>5, <2>2 DEF Shared, At, Goto
    <3>2. c \in Contexts /\ ThreadOf[c] = t /\ depth[c] = 0 /\ saved[t] > 0
      BY <3>1 DEF Claims, ClaimOf, ScopePcs
    <3>3. /\ depth' \in [Contexts -> 0 .. MaxDepth] /\ depth'[c] > 0
          /\ \A d \in Contexts : d # c => depth'[d] = depth[d]
      BY <3>1, <3>2, RequestsAssumption DEF Typed, ScopesTyped
    <3>4. Steps(t, "claim")
      BY <3>1, <3>2, <3>3 DEF Steps, Typed, Pcs, InGC, gcVars
    <3>5. gcLevel = 0 /\ ~Busy(c)
      BY <2>2, <3>2 DEF Typed, Busy
    <3> QED
      BY <3>1, <3>2, <3>3, <3>4, <3>5, Starts
  <2> QED
    BY <2>1, <2>2
<1> QED
  BY <1>1, <1>2, <1>3, <1>4, <1>5 DEF Claiming

LEMMA CallsKeepRequests ==
  ASSUME RequestInv, NEW c \in Contexts, Calls(c) PROVE RequestInv'
<1> DEFINE t == ThreadOf[c]
<1> USE DEF RequestInv
<1>1. t \in Threads
  BY RequestsAssumption
<1>2. ASSUME NEW s \in Scopes, LockScope(c, s) PROVE RequestInv'
  <2>1. PICK q \in {"run", "lock", "claim"} :
          /\ pc[t] = "run" /\ pc' = [pc EXCEPT ![t] = q]
          /\ call' = [call EXCEPT ![t] = WorkOn(c, s)]
          /\ UNCHANGED <<requestVars, gcVars>>
    <3>1. CASE ownercx[s] = c
      BY <1>1, <1>2, <3>1 DEF LockScope, Runs, Typed
    <3>2. CASE ownercx[s] # c
      BY <1>2, <3>2 DEF LockScope, Runs, Goto
    <3> QED
      BY <3>1, <3>2
  <2>2. call' \in [Threads -> CallRecords] /\ \A u \in Threads : u # t => call'[u] = call[u]
    <3>1. WorkOn(c, s) \in CallRecords
      BY DEF CallRecords, WorkOn
    <3> QED
      BY <2>1, <3>1 DEF Typed
  <2> QED
    BY <1>1, <2>1, <2>2, Continues DEF Pcs, InGC, gcVars, Typed
<1>3. ASSUME NEW s \in Scopes, NEW p \in Scopes, SetProto(c, s, p) PROVE RequestInv'
  <2>1. PICK q \in {"own", "lock", "claim"} :
          /\ pc[t] = "run" /\ pc' = [pc EXCEPT ![t] = q]
          /\ call' = [call EXCEPT ![t] = [cx |-> c, scope |-> s, inner |-> p]]
          /\ UNCHANGED <<requestVars, gcVars>>
    BY <1>3 DEF SetProto, Runs, Goto
  <2>2. call' \in [Threads -> CallRecords] /\ \A u \in Threads : u # t => call'[u] = call[u]
    BY <2>1 DEF Typed, CallRecords
  <2> QED
    BY <1>1, <2>1, <2>2, Continues DEF Pcs, InGC, gcVars, Typed
<1>4. ASSUME UnlockScope(c) PROVE RequestInv'
  <2>1. /\ pc[t] = "run" /\ pc' = [pc EXCEPT ![t] = "run"]
        /\ call' = [call EXCEPT ![t] = NoCall]
        /\ UNCHANGED <<requestVars, gcVars>>
    BY <1>1, <1>4 DEF UnlockScope, Runs, Typed
  <2>2. call' \in [Threads -> CallRecords] /\ \A u \in Threads : u # t => call'[u] = call[u]
    BY <2>1 DEF Typed, CallRecords, NoCall
  <2> QED
    BY <1>1, <2>1, <2>2, Continues DEF Pcs, InGC, gcVars, Typed
<1> QED
  BY <1>2, <1>3, <1>4, BeginRequestKeeps, EndRequestKeeps, YieldRequestKeeps, CollectKeeps, RemoveRootKeeps
  DEF Calls

-----------------------------------------------------------------------------
\* A step of thread t: what it must leave behind so that the scopes are
\* still owned, listed and locked as they should be.
LEMMA ScopeStep ==
  ASSUME Claims, SharedForGood, NEW t \in Threads,
         \A u \in Threads : u # t => /\ pc'[u] = pc[u] /\ call'[u] = call[u]
                                     /\ saved'[u] = saved[u] /\ held'[u] = held[u],
         \A c \in Contexts : ThreadOf[c] # t => depth'[c] = depth[c] /\ sharing'[c] = sharing[c],
         ClaimOf(t)',
         \A s \in Scopes : ownercx[s] = None => ownercx'[s] = None,
         \A s \in Scopes : lock'[s] # None => lock[s] # None \/ ownercx'[s] = None,
         pc'[t] = "lock" => ownercx'[call'[t].scope] = None,
         \A c \in Contexts : ThreadOf[c] = t /\ sharing'[c] # None => Suspended(c)'
  PROVE  Claims' /\ SharedForGood'
<1>1. ASSUME NEW u \in Threads, u # t PROVE ClaimOf(u)'
  BY <1>1 DEF Claims, ClaimOf, ScopePcs
<1>2. \A s \in Scopes : lock'[s] # None => ownercx'[s] = None
  BY DEF SharedForGood
<1>3. ASSUME NEW u \in Threads, pc'[u] = "lock" PROVE ownercx'[call'[u].scope] = None
  BY <1>3 DEF SharedForGood, Claims, ClaimOf, ScopePcs
<1>4. ASSUME NEW c \in Contexts, sharing'[c] # None PROVE Suspended(c)'
  BY <1>4, RequestsAssumption DEF SharedForGood, Suspended
<1> QED
  BY <1>1, <1>2, <1>3, <1>4 DEF Claims, SharedForGood

LEMMA StaysListed ==
  ASSUME Listed, ScopesTyped, todo' \subseteq todo,
         \A s \in todo' : ownercx'[s] = ownercx[s],
         \A c \in Contexts : Entered(c) => Entered(c)'
  PROVE  Listed'
BY DEF Listed, ScopesTyped

ScopesKeep == ScopesTyped /\ Claims /\ Listed /\ SharedForGood

\* What has nothing to do with scopes leaves them alone.
LEMMA Aside ==
  ASSUME ScopesKeep, NEW t \in Threads, held[t] = {}, pc[t] \notin ScopePcs, pc'[t] \notin ScopePcs,
         \A u \in Threads : u # t => pc'[u] = pc[u] /\ call'[u] = call[u],
         \A c \in Contexts : ThreadOf[c] # t => depth'[c] = depth[c],
         \A c \in Contexts : depth[c] > 0 => depth'[c] > 0,
         UNCHANGED scopeVars
  PROVE  ScopesKeep'
<1> USE DEF ScopesKeep
<1>1. ScopesTyped'
  BY DEF ScopesTyped, scopeVars
<1>2. ASSUME NEW c \in Contexts, Suspended(c) PROVE Suspended(c)'
  BY <1>2, RequestsAssumption DEF Suspended, ScopePcs
<1>3. Listed'
  BY <1>2, StaysListed DEF scopeVars, Entered
<1>4. ClaimOf(t)'
  BY DEF ClaimOf, ScopePcs, scopeVars
<1>5. Claims' /\ SharedForGood'
  <2>1. \A c \in Contexts : sharing'[c] # None => Suspended(c)'
    BY <1>2 DEF SharedForGood, scopeVars
  <2>2. pc'[t] # "lock"
    BY DEF ScopePcs
  <2> QED
    BY <1>4, <2>1, <2>2, ScopeStep DEF scopeVars
<1> QED
  BY <1>1, <1>3, <1>5

LEMMA CallsAside ==
  ASSUME RequestInv, ScopesKeep, NEW c \in Contexts,
         BeginRequest(c) \/ YieldRequest(c) \/ Collect(c) \/ RemoveRoot(c)
  PROVE  ScopesKeep'
<1> DEFINE t == ThreadOf[c]
<1>1. t \in Threads /\ pc[t] = "run" /\ held[t] = {} /\ UNCHANGED scopeVars
  BY RequestsAssumption DEF BeginRequest, YieldRequest, Collect, RemoveRoot, Runs
<1>2. PICK q \in {"run", "begin", "yield", "gc", "root"} : pc' = [pc EXCEPT ![t] = q]
  BY <1>1 DEF BeginRequest, YieldRequest, Collect, RemoveRoot, Goto, RequestInv, Typed, threadVars
<1>3. call' = call \/ call' = [call EXCEPT ![t].cx = c]
  BY DEF BeginRequest, YieldRequest, Collect, RemoveRoot, threadVars
<1>4. depth' = depth \/ depth' = [depth EXCEPT ![c] = depth[c] + 1]
  BY DEF BeginRequest, YieldRequest, Collect, RemoveRoot, requestVars
<1>5. pc'[t] \notin ScopePcs /\ pc[t] \notin ScopePcs
  BY <1>1, <1>2 DEF RequestInv, Typed, ScopePcs
<1>6. \A u \in Threads : u # t => pc'[u] = pc[u] /\ call'[u] = call[u]
  BY <1>2, <1>3 DEF RequestInv, Typed
<1>7. /\ \A d \in Contexts : ThreadOf[d] # t => depth'[d] = depth[d]
      /\ \A d \in Contexts : depth[d] > 0 => depth'[d] > 0
  BY <1>4 DEF RequestInv, Typed
<1> QED
  BY <1>1, <1>5, <1>6, <1>7, Aside

LEMMA WaitsAside ==
  ASSUME RequestInv, ScopesKeep, NEW t \in Threads, Requesting(t) \/ Collecting(t)
  PROVE  ScopesKeep'
<1> USE DEF Requesting, BeginAgain, YieldEnds, RemoveRootAgain,
            Collecting, NotPoked, EnterGC, Join, Drain, Restart, EndGC
<1>1. pc[t] \in Pcs \ (ScopePcs \cup {"run"}) /\ UNCHANGED scopeVars
  BY DEF At, Pcs, ScopePcs
<1>0. held[t] = {}
  BY <1>1 DEF ScopesKeep, Claims, ClaimOf
<1>2. pc' = pc \/ \E q \in {"run", "join", "drain", "collect"} : pc' = [pc EXCEPT ![t] = q]
  BY DEF Goto, threadVars
<1>3. call' = call \/ call' = [call EXCEPT ![t] = NoCall]
  BY DEF threadVars
<1>4. \/ depth' = depth
      \/ pc[t] = "begin" /\ depth' = [depth EXCEPT ![call[t].cx] = 1]
  BY DEF requestVars, At
<1>5. pc'[t] \notin ScopePcs
  BY <1>1, <1>2 DEF RequestInv, Typed, ScopePcs
<1>6. \A u \in Threads : u # t => pc'[u] = pc[u] /\ call'[u] = call[u]
  BY <1>2, <1>3 DEF RequestInv, Typed
<1>7. /\ \A d \in Contexts : ThreadOf[d] # t => depth'[d] = depth[d]
      /\ \A d \in Contexts : depth[d] > 0 => depth'[d] > 0
  <2>1. pc[t] = "begin" => ThreadOf[call[t].cx] = t
    BY DEF RequestInv, Calling, CallOf
  <2> QED
    BY <1>4, <2>1 DEF RequestInv, Typed
<1> QED
  BY <1>0, <1>1, <1>5, <1>6, <1>7, Aside

\* The end of the last request of a context gives up the scopes that are
\* listed.
LEMMA EndRequestKeepsScopes ==
  ASSUME RequestInv, ScopesKeep, NEW c \in Contexts, EndRequest(c) PROVE ScopesKeep'
<1> DEFINE t == ThreadOf[c]
           shared == {s \in todo : ownercx[s] = c}
<1> USE DEF ScopesKeep
<1>1. /\ t \in Threads /\ pc[t] = "run" /\ held[t] = {} /\ depth[c] > 0
      /\ depth' = [depth EXCEPT ![c] = depth[c] - 1]
      /\ UNCHANGED <<pc, call, sharing, held, saved>>
  BY RequestsAssumption DEF EndRequest, Runs
<1>2. \/ depth[c] > 1 /\ UNCHANGED <<ownercx, todo, lock>>
      \/ /\ ownercx' = [s \in Scopes |-> IF s \in shared THEN None ELSE ownercx[s]]
         /\ lock' = [s \in Scopes |-> IF s \in shared THEN None ELSE lock[s]]
         /\ todo' = todo \ shared
  BY DEF EndRequest, ToShare
<1>3. ScopesTyped'
  BY <1>1, <1>2 DEF ScopesTyped
<1>4. \A d \in Contexts : Suspended(d)' <=> Suspended(d)
  BY <1>1 DEF Suspended
<1>5. \A d \in Contexts : d # c => (Entered(d)' <=> Entered(d))
  BY <1>1, <1>4 DEF Entered, RequestInv, Typed
<1>6. Listed'
  <2>1. CASE depth[c] > 1 /\ UNCHANGED <<ownercx, todo, lock>>
    <3>1. Entered(c)'
      BY <1>1, <2>1 DEF Entered, RequestInv, Typed
    <3> QED
      BY <1>5, <2>1, <3>1, StaysListed
  <2>2. CASE /\ ownercx' = [s \in Scopes |-> IF s \in shared THEN None ELSE ownercx[s]]
             /\ todo' = todo \ shared
    <3>1. ASSUME NEW s \in todo' PROVE ownercx'[s] = ownercx[s] /\ ownercx[s] # c
      BY <2>2 DEF ScopesTyped
    <3> QED
      BY <1>5, <2>2, <3>1 DEF Listed, ScopesTyped
  <2> QED
    BY <1>2, <2>1, <2>2
<1>7. Claims' /\ SharedForGood'
  <2>1. ClaimOf(t)'
    BY <1>1 DEF ClaimOf, ScopePcs
  <2>2. /\ \A s \in Scopes : ownercx[s] = None => ownercx'[s] = None
        /\ \A s \in Scopes : lock'[s] # None => lock[s] # None
    BY <1>2 DEF ScopesTyped
  <2>3. \A d \in Contexts : sharing'[d] # None => Suspended(d)'
    BY <1>1, <1>4 DEF SharedForGood
  <2>4. \A d \in Contexts : ThreadOf[d] # t => depth'[d] = depth[d]
    BY <1>1 DEF RequestInv, Typed
  <2>5. pc'[t] # "lock"
    BY <1>1
  <2> QED
    BY <1>1, <2>1, <2>2, <2>3, <2>4, <2>5, ScopeStep
<1> QED
  BY <1>3, <1>6, <1>7

\* A thread that neither begins nor ends to wait for a scope.
LEMMA Within ==
  ASSUME RequestInv, ScopesKeep, NEW t \in Threads, NEW q, q # "share", pc[t] # "share",
         pc' = [pc EXCEPT ![t] = q],
         \A u \in Threads : u # t => call'[u] = call[u] /\ held'[u] = held[u],
         UNCHANGED <<depth, sharing, saved>>, ScopesTyped', ClaimOf(t)',
         \A s \in Scopes : ownercx[s] = None => ownercx'[s] = None,
         \A s \in Scopes : lock'[s] # None => lock[s] # None \/ ownercx'[s] = None,
         q = "lock" => ownercx'[call'[t].scope] = None,
         todo' \subseteq todo,
         \A s \in todo' : \/ ownercx'[s] = ownercx[s]
                          \/ ownercx'[s] \in Contexts /\ depth[ownercx'[s]] > 0
  PROVE  ScopesKeep'
<1> USE DEF ScopesKeep
<1>1. pc'[t] = q /\ \A u \in Threads : u # t => pc'[u] = pc[u]
  BY DEF RequestInv, Typed
<1>2. ASSUME NEW c \in Contexts PROVE Suspended(c)' <=> Suspended(c)
  <2>1. CASE ThreadOf[c] = t
    BY <1>1, <2>1 DEF Suspended
  <2>2. CASE ThreadOf[c] # t
    BY <1>1, <2>2, RequestsAssumption DEF Suspended
  <2> QED
    BY <2>1, <2>2
<1>3. Listed'
  <2>1. ASSUME NEW s \in todo' PROVE ownercx'[s] # None /\ Entered(ownercx[s])'
    <3>1. s \in Scopes /\ ownercx[s] \in Contexts /\ Entered(ownercx[s])
      BY <2>1 DEF Listed, ScopesTyped
    <3>2. CASE ownercx'[s] = ownercx[s]
      BY <1>2, <3>1, <3>2, RequestsAssumption DEF Entered, Suspended
    <3>3. CASE ownercx'[s] \in Contexts /\ depth[ownercx'[s]] > 0
      BY <3>3, RequestsAssumption DEF Entered
    <3> QED
      BY <2>1, <3>2, <3>3
  <2> QED
    BY <2>1 DEF Listed
<1>4. \A c \in Contexts : sharing'[c] # None => Suspended(c)'
  BY <1>2 DEF SharedForGood
<1>5. Claims' /\ SharedForGood'
  BY <1>1, <1>4, ScopeStep
<1> QED
  BY <1>3, <1>5

LEMMA LockScopeKeepsScopes ==
  ASSUME RequestInv, ScopesKeep, NEW c \in Contexts, NEW s \in Scopes, LockScope(c, s)
  PROVE  ScopesKeep'
<1> DEFINE t == ThreadOf[c]
<1> USE DEF ScopesKeep
<1>1. /\ t \in Threads /\ pc[t] = "run" /\ depth[c] > 0
      /\ held[t] = {} /\ UNCHANGED <<depth, sharing, saved, ownercx, todo, lock>>
  BY RequestsAssumption DEF LockScope, Runs, requestVars
<1>0. /\ \A r \in Scopes : ownercx[r] = None => ownercx'[r] = None
      /\ \A r \in Scopes : lock'[r] # None => lock[r] # None \/ ownercx'[r] = None
      /\ todo' \subseteq todo
      /\ \A r \in todo' : \/ ownercx'[r] = ownercx[r]
                          \/ ownercx'[r] \in Contexts /\ depth[ownercx'[r]] > 0
  BY <1>1
<1>2. CASE ownercx[s] = c
  <2>1. /\ pc' = [pc EXCEPT ![t] = "run"] /\ held' = [held EXCEPT ![t] = {s}]
        /\ call' = [call EXCEPT ![t] = WorkOn(c, s)]
    BY <1>1, <1>2 DEF LockScope, RequestInv, Typed
  <2>2. ScopesTyped' /\ ClaimOf(t)' /\ \A u \in Threads : u # t => call'[u] = call[u] /\ held'[u] = held[u]
    <3>1. call'[t] = WorkOn(c, s) /\ pc'[t] = "run"
      BY <1>1, <2>1 DEF RequestInv, Typed
    <3>2. WorkOn(c, s).cx = c
      BY DEF WorkOn
    <3>3. ClaimOf(t)'
      BY <1>1, <3>1, <3>2 DEF ClaimOf, ScopePcs
    <3>4. ScopesTyped'
      BY <1>1, <2>1 DEF ScopesTyped
    <3> QED
      BY <1>1, <2>1, <3>3, <3>4 DEF RequestInv, Typed, ScopesTyped
  <2> QED
    BY <1>0, <1>1, <2>1, <2>2, Within
<1>3. CASE ownercx[s] # c
  <2> DEFINE q == IF ownercx[s] = None THEN "lock" ELSE "claim"
  <2>1. /\ pc' = [pc EXCEPT ![t] = q] /\ held' = held
        /\ call' = [call EXCEPT ![t] = [cx |-> c, scope |-> s, inner |-> None]]
    BY <1>3 DEF LockScope, Goto, WorkOn
  <2>2. /\ call'[t] = [cx |-> c, scope |-> s, inner |-> None] /\ pc'[t] = q
        /\ \A u \in Threads : u # t => call'[u] = call[u] /\ held'[u] = held[u]
    BY <1>1, <2>1 DEF RequestInv, Typed
  <2>3. ScopesTyped' /\ ClaimOf(t)'
    BY <1>1, <2>1, <2>2 DEF ScopesTyped, ClaimOf, ScopePcs
  <2>4. q = "lock" => ownercx'[call'[t].scope] = None
    BY <1>1, <2>2
  <2> QED
    BY <1>0, <1>1, <2>1, <2>2, <2>3, <2>4, Within
<1> QED
  BY <1>2, <1>3

LEMMA SetProtoKeepsScopes ==
  ASSUME RequestInv, ScopesKeep, NEW c \in Contexts, NEW s \in Scopes, NEW p \in Scopes,
         SetProto(c, s, p)
  PROVE  ScopesKeep'
<1> DEFINE t == ThreadOf[c]
           q == IF ownercx[s] = c THEN "own" ELSE IF ownercx[s] = None THEN "lock" ELSE "claim"
<1> USE DEF ScopesKeep
<1>1. /\ t \in Threads /\ pc[t] = "run" /\ depth[c] > 0 /\ held[t] = {}
      /\ pc' = [pc EXCEPT ![t] = q]
      /\ call' = [call EXCEPT ![t] = [cx |-> c, scope |-> s, inner |-> p]]
      /\ UNCHANGED <<depth, sharing, saved, ownercx, todo, lock, held>>
  BY RequestsAssumption DEF SetProto, Runs, Goto, requestVars
<1>0. /\ \A r \in Scopes : ownercx[r] = None => ownercx'[r] = None
      /\ \A r \in Scopes : lock'[r] # None => lock[r] # None \/ ownercx'[r] = None
      /\ todo' \subseteq todo
      /\ \A r \in todo' : \/ ownercx'[r] = ownercx[r]
                          \/ ownercx'[r] \in Contexts /\ depth[ownercx'[r]] > 0
  BY <1>1
<1>2. /\ call'[t] = [cx |-> c, scope |-> s, inner |-> p] /\ pc'[t] = q
      /\ \A u \in Threads : u # t => call'[u] = call[u] /\ held'[u] = held[u]
  BY <1>1 DEF RequestInv, Typed
<1>3. ScopesTyped' /\ ClaimOf(t)'
  BY <1>1, <1>2 DEF ScopesTyped, ClaimOf, ScopePcs
<1>4. q = "lock" => ownercx'[call'[t].scope] = None
  BY <1>1, <1>2
<1> QED
  BY <1>0, <1>1, <1>2, <1>3, <1>4, Within

LEMMA UnlockScopeKeepsScopes ==
  ASSUME RequestInv, ScopesKeep, NEW c \in Contexts, UnlockScope(c)
  PROVE  ScopesKeep'
<1> DEFINE t == ThreadOf[c]
<1> USE DEF ScopesKeep
<1>1. /\ t \in Threads /\ pc[t] = "run" /\ pc' = [pc EXCEPT ![t] = "run"]
      /\ ownercx' = [s \in Scopes |->
                       IF s = call[t].scope /\ ownercx[s] # None THEN c ELSE ownercx[s]]
      /\ lock' = [s \in Scopes |-> IF s \in held[t] /\ lock[s] = t THEN None ELSE lock[s]]
      /\ held' = [held EXCEPT ![t] = {}]
      /\ call' = [call EXCEPT ![t] = NoCall]
      /\ held[t] # {} /\ call[t].cx = c
      /\ UNCHANGED <<depth, sharing, saved, todo>>
  BY RequestsAssumption DEF UnlockScope, Runs, requestVars, RequestInv, Typed
<1>2. ScopesTyped'
  BY <1>1 DEF ScopesTyped
<1>3. ClaimOf(t)' /\ \A u \in Threads : u # t => call'[u] = call[u] /\ held'[u] = held[u]
  BY <1>1 DEF ClaimOf, ScopePcs, RequestInv, Typed, ScopesTyped
<1>4. \A s \in todo' : \/ ownercx'[s] = ownercx[s]
                       \/ ownercx'[s] \in Contexts /\ depth[ownercx'[s]] > 0
  <2>1. depth[c] > 0
    BY <1>1 DEF Claims, ClaimOf, ScopePcs
  <2>2. \A s \in todo' : s \in Scopes /\ (ownercx'[s] = ownercx[s] \/ ownercx'[s] = c)
    BY <1>1 DEF ScopesTyped
  <2> QED
    BY <1>1, <2>1, <2>2
<1>5. /\ \A s \in Scopes : ownercx[s] = None => ownercx'[s] = None
      /\ \A s \in Scopes : lock'[s] # None => lock[s] # None
  BY <1>1
<1> QED
  BY <1>1, <1>2, <1>3, <1>4, <1>5, Within

\* The thread of t has its scope.
LEMMA EnterScope ==
  ASSUME RequestInv, ScopesKeep, NEW t \in Threads, pc[t] \in {"own", "claim", "lock"}, Enter(t)
  PROVE  /\ \E q \in {"run", "outer"} : pc' = [pc EXCEPT ![t] = q]
         /\ held' = [held EXCEPT ![t] = @ \cup {call[t].scope}]
         /\ held' \in [Threads -> SUBSET Scopes]
         /\ \A u \in Threads : u # t => call'[u] = call[u] /\ held'[u] = held[u]
         /\ depth' = depth /\ saved' = saved => ClaimOf(t)'
<1> USE DEF ScopesKeep
<1>1. /\ call[t].cx \in Contexts /\ ThreadOf[call[t].cx] = t /\ depth[call[t].cx] > 0
      /\ call[t].scope \in Scopes
  BY DEF Claims, ClaimOf, ScopePcs
<1>2. held' = [held EXCEPT ![t] = @ \cup {call[t].scope}] /\ held' \in [Threads -> SUBSET Scopes]
  BY <1>1 DEF Enter, ScopesTyped
<1>3. CASE call[t].inner = None
  <2>1. pc' = [pc EXCEPT ![t] = "run"] /\ call' = call
    BY <1>3 DEF Enter, Goto
  <2>2. pc'[t] = "run" /\ call'[t].cx = call[t].cx
    BY <2>1 DEF RequestInv, Typed
  <2>3. depth' = depth /\ saved' = saved => ClaimOf(t)'
    BY <1>1, <2>2 DEF ClaimOf, ScopePcs
  <2> QED
    BY <1>2, <2>1, <2>3 DEF RequestInv, Typed, ScopesTyped
<1>4. CASE call[t].inner # None
  <2>1. pc' = [pc EXCEPT ![t] = "outer"] /\ call' = call
    BY <1>4 DEF Enter, Goto
  <2>2. pc'[t] = "outer" /\ call[t].inner \in Scopes
    BY <1>4, <2>1 DEF RequestInv, Typed, CallRecords
  <2>3. depth' = depth /\ saved' = saved => ClaimOf(t)'
    BY <1>1, <2>1, <2>2 DEF ClaimOf, ScopePcs
  <2> QED
    BY <1>2, <2>1, <2>3 DEF ScopesTyped
<1> QED
  BY <1>3, <1>4

LEMMA EntersKeepScopes ==
  ASSUME RequestInv, ScopesKeep, NEW t \in Threads, Own(t) \/ Claim(t) \/ Lock(t)
  PROVE  ScopesKeep'
<1> DEFINE c == call[t].cx
           s == call[t].scope
<1> USE DEF ScopesKeep
<1>1. /\ pc[t] \in {"own", "claim", "lock"} /\ Enter(t)
      /\ UNCHANGED <<depth, sharing, saved, todo>>
  BY DEF Own, Claim, Lock, At, requestVars
<1>2. c \in Contexts /\ ThreadOf[c] = t /\ depth[c] > 0 /\ s \in Scopes
  BY <1>1 DEF Claims, ClaimOf, ScopePcs
<1>3. /\ held' \in [Threads -> SUBSET Scopes] /\ ClaimOf(t)'
      /\ \A u \in Threads : u # t => call'[u] = call[u] /\ held'[u] = held[u]
  BY <1>1, EnterScope
<1>4. PICK q \in {"run", "outer"} : pc' = [pc EXCEPT ![t] = q]
  BY <1>1, EnterScope
<1>5. /\ ownercx' \in [Scopes -> Contexts \cup {None}] /\ lock' \in [Scopes -> Threads \cup {None}]
      /\ \A r \in Scopes : ownercx[r] = None => ownercx'[r] = None
      /\ \A r \in Scopes : lock'[r] # None => lock[r] # None \/ ownercx'[r] = None
      /\ \A r \in Scopes : ownercx'[r] = ownercx[r] \/ ownercx'[r] = c
  <2>1. CASE Own(t)
    BY <2>1 DEF Own, ScopesTyped
  <2>2. CASE Claim(t)
    BY <1>2, <2>2 DEF Claim, ScopesTyped
  <2>3. CASE Lock(t)
    <3>1. ownercx[s] = None
      BY <2>3 DEF Lock, At, SharedForGood
    <3> QED
      BY <1>2, <2>3, <3>1 DEF Lock, ScopesTyped
  <2> QED
    BY <2>1, <2>2, <2>3
<1>6. ScopesTyped'
  BY <1>1, <1>3, <1>5 DEF ScopesTyped
<1>7. /\ todo' \subseteq todo
      /\ \A r \in todo' : \/ ownercx'[r] = ownercx[r]
                          \/ ownercx'[r] \in Contexts /\ depth[ownercx'[r]] > 0
  BY <1>1, <1>2, <1>5 DEF ScopesTyped
<1> QED
  BY <1>1, <1>3, <1>4, <1>5, <1>6, <1>7, Within

LEMMA LockInnerKeepsScopes ==
  ASSUME RequestInv, ScopesKeep, NEW t \in Threads, LockInner(t) PROVE ScopesKeep'
<1> DEFINE c == call[t].cx
           p == call[t].inner
           q == IF ownercx[p] = c THEN "own" ELSE IF ownercx[p] = None THEN "lock" ELSE "claim"
<1> USE DEF ScopesKeep
<1>1. /\ pc[t] = "outer" /\ pc' = [pc EXCEPT ![t] = q]
      /\ call' = [call EXCEPT ![t] = [cx |-> c, scope |-> p, inner |-> None]]
      /\ UNCHANGED <<depth, sharing, saved, ownercx, todo, lock, held>>
  BY DEF LockInner, At, Goto, requestVars, WorkOn
<1>2. c \in Contexts /\ ThreadOf[c] = t /\ depth[c] > 0 /\ p \in Scopes
  BY <1>1 DEF Claims, ClaimOf, ScopePcs
<1>3. /\ call'[t] = [cx |-> c, scope |-> p, inner |-> None] /\ pc'[t] = q
      /\ \A u \in Threads : u # t => call'[u] = call[u] /\ held'[u] = held[u]
  BY <1>1 DEF RequestInv, Typed
<1>4. ScopesTyped' /\ ClaimOf(t)'
  BY <1>1, <1>2, <1>3 DEF ScopesTyped, ClaimOf, ScopePcs
<1>5. q = "lock" => ownercx'[call'[t].scope] = None
  BY <1>1, <1>3
<1>6. /\ \A r \in Scopes : ownercx[r] = None => ownercx'[r] = None
      /\ \A r \in Scopes : lock'[r] # None => lock[r] # None \/ ownercx'[r] = None
      /\ todo' \subseteq todo
      /\ \A r \in todo' : \/ ownercx'[r] = ownercx[r]
                          \/ ownercx'[r] \in Contexts /\ depth[ownercx'[r]] > 0
  BY <1>1
<1> QED
  BY <1>1, <1>3, <1>4, <1>5, <1>6, Within

LEMMA GivesUpKeepsScopes ==
  ASSUME RequestInv, ScopesKeep, NEW t \in Threads, ClaimShared(t) \/ ShareScope(t)
  PROVE  ScopesKeep'
<1> DEFINE c == call[t].cx
           s == call[t].scope
<1> USE DEF ScopesKeep
<1>1. /\ pc[t] = "claim" /\ pc' = [pc EXCEPT ![t] = "lock"]
      /\ UNCHANGED <<depth, sharing, saved, held, call>>
  BY DEF ClaimShared, ShareScope, At, Goto, requestVars, scopeVars
<1>2. c \in Contexts /\ ThreadOf[c] = t /\ depth[c] > 0 /\ s \in Scopes
  BY <1>1 DEF Claims, ClaimOf, ScopePcs
<1>3. \/ ownercx[s] = None /\ UNCHANGED <<ownercx, lock, todo>>
      \/ /\ ownercx[s] # None /\ ownercx' = [ownercx EXCEPT ![s] = None]
         /\ lock' = [lock EXCEPT ![s] = IF s = setSlotScope THEN ThreadOf[ownercx[s]] ELSE None]
         /\ todo' = todo \ {s}
  BY DEF ClaimShared, ShareScope, scopeVars
<1>4. ScopesTyped'
  BY <1>1, <1>2, <1>3, RequestsAssumption DEF ScopesTyped
<1>5. ClaimOf(t)'
  <2>1. pc'[t] = "lock"
    BY <1>1 DEF RequestInv, Typed
  <2> QED
    BY <1>1, <1>2, <2>1 DEF ClaimOf, ScopePcs
<1>6. /\ \A r \in Scopes : ownercx[r] = None => ownercx'[r] = None
      /\ \A r \in Scopes : lock'[r] # None => lock[r] # None \/ ownercx'[r] = None
      /\ todo' \subseteq todo /\ ownercx'[call'[t].scope] = None
      /\ \A r \in todo' : \/ ownercx'[r] = ownercx[r]
                          \/ ownercx'[r] \in Contexts /\ depth[ownercx'[r]] > 0
  BY <1>1, <1>2, <1>3 DEF ScopesTyped
<1> QED
  BY <1>1, <1>4, <1>5, <1>6, Within

\* A request is suspended, and resumed: its context is entered all the time.
LEMMA AwaitShareKeepsScopes ==
  ASSUME RequestInv, ScopesKeep, NEW t \in Threads, AwaitShare(t) PROVE ScopesKeep'
<1> DEFINE c == call[t].cx
           s == call[t].scope
           o == ownercx[s]
<1> USE DEF ScopesKeep
<1>1. /\ pc[t] = "claim" /\ pc' = [pc EXCEPT ![t] = "share"]
      /\ o # None /\ ~CanClaim(c, s)
      /\ todo' = todo \cup {s} /\ depth' = [depth EXCEPT ![c] = 0]
      /\ saved' = [saved EXCEPT ![t] = depth[c]] /\ sharing' = [sharing EXCEPT ![c] = s]
      /\ UNCHANGED <<ownercx, lock, held, call>>
  BY DEF AwaitShare, At, Goto
<1>2. c \in Contexts /\ ThreadOf[c] = t /\ depth[c] > 0 /\ s \in Scopes
  BY <1>1 DEF Claims, ClaimOf, ScopePcs
<1>3. pc'[t] = "share" /\ \A u \in Threads : u # t => pc'[u] = pc[u]
  BY <1>1 DEF RequestInv, Typed
<1>4. /\ depth'[c] = 0 /\ saved'[t] > 0
      /\ \A d \in Contexts : d # c => depth'[d] = depth[d] /\ sharing'[d] = sharing[d]
      /\ \A u \in Threads : u # t => saved'[u] = saved[u]
  BY <1>1, <1>2 DEF RequestInv, Typed, ScopesTyped
<1>5. ScopesTyped'
  BY <1>1, <1>2 DEF ScopesTyped, RequestInv, Typed
<1>6. ClaimOf(t)'
  BY <1>1, <1>2, <1>3, <1>4 DEF ClaimOf, ScopePcs
<1>7. ASSUME NEW d \in Contexts PROVE Suspended(d)' <=> Suspended(d) \/ d = c
  BY <1>1, <1>2, <1>3, RequestsAssumption DEF Suspended
<1>8. Listed'
  <2>1. ASSUME NEW r \in todo' PROVE ownercx[r] \in Contexts /\ Entered(ownercx[r])'
    <3>1. CASE r \in todo
      BY <1>1, <1>4, <1>7, <3>1 DEF Listed, Entered, ScopesTyped
    <3>2. CASE r \notin todo
      <4>1. r = s /\ depth[o] # 0 /\ ThreadOf[o] # t /\ o \in Contexts
        BY <1>1, <1>2, <2>1, <3>2 DEF CanClaim, ScopesTyped
      <4> QED
        BY <1>1, <1>2, <1>4, <4>1 DEF Entered, RequestInv, Typed
    <3> QED
      BY <3>1, <3>2
  <2> QED
    BY <1>1, <2>1, RequestsAssumption DEF Listed
<1>9. Claims' /\ SharedForGood'
  <2>1. \A d \in Contexts : sharing'[d] # None => Suspended(d)'
    BY <1>4, <1>7 DEF SharedForGood
  <2> QED
    BY <1>1, <1>2, <1>3, <1>4, <1>6, <2>1, ScopeStep
<1> QED
  BY <1>5, <1>8, <1>9

LEMMA SharedKeepsScopes ==
  ASSUME RequestInv, ScopesKeep, NEW t \in Threads, Shared(t) PROVE ScopesKeep'
<1> DEFINE c == call[t].cx
<1> USE DEF ScopesKeep
<1>1. pc[t] = "share" /\ UNCHANGED <<ownercx, todo, lock, held, call>>
  BY DEF Shared, At
<1>2. c \in Contexts /\ ThreadOf[c] = t /\ depth[c] = 0 /\ saved[t] > 0 /\ call[t].scope \in Scopes
  BY <1>1 DEF Claims, ClaimOf, ScopePcs
<1>3. CASE gcLevel > 0
  <2>1. UNCHANGED <<depth, sharing, saved, pc>>
    BY <1>3 DEF Shared, requestVars
  <2> QED
    BY <1>1, <2>1 DEF ScopesTyped, Claims, ClaimOf, Listed, Entered, Suspended, SharedForGood
<1>4. CASE ~(gcLevel > 0)
  <2>1. /\ pc' = [pc EXCEPT ![t] = "claim"] /\ depth' = [depth EXCEPT ![c] = saved[t]]
        /\ saved' = [saved EXCEPT ![t] = 0] /\ sharing' = [sharing EXCEPT ![c] = None]
    BY <1>4 DEF Shared, Goto
  <2>2. pc'[t] = "claim" /\ \A u \in Threads : u # t => pc'[u] = pc[u]
    BY <2>1 DEF RequestInv, Typed
  <2>3. /\ depth'[c] > 0 /\ sharing'[c] = None
        /\ \A d \in Contexts : d # c => depth'[d] = depth[d] /\ sharing'[d] = sharing[d]
        /\ \A u \in Threads : u # t => saved'[u] = saved[u]
    BY <1>2, <2>1 DEF RequestInv, Typed, ScopesTyped
  <2>4. ScopesTyped'
    <3>1. 0 \in 0 .. MaxDepth
      BY RequestsAssumption
    <3>2. saved' \in [Threads -> 0 .. MaxDepth]
      BY <2>1, <3>1 DEF ScopesTyped
    <3>3. sharing' \in [Contexts -> Scopes \cup {None}]
      BY <2>1 DEF ScopesTyped
    <3> QED
      BY <1>1, <3>2, <3>3 DEF ScopesTyped
  <2>5. ClaimOf(t)'
    BY <1>1, <1>2, <2>2, <2>3 DEF ClaimOf, ScopePcs
  <2>6. ASSUME NEW d \in Contexts, d # c PROVE Suspended(d)' <=> Suspended(d)
    BY <1>1, <1>2, <2>2, <2>6, RequestsAssumption DEF Suspended
  <2>7. Listed'
    <3>1. \A d \in Contexts : Entered(d) => Entered(d)'
      BY <2>3, <2>6 DEF Entered
    <3> QED
      BY <1>1, <3>1, StaysListed
  <2>8. Claims' /\ SharedForGood'
    <3>1. \A d \in Contexts : sharing'[d] # None => Suspended(d)'
      BY <2>3, <2>6 DEF SharedForGood
    <3> QED
      BY <1>1, <1>2, <2>2, <2>3, <2>5, <3>1, ScopeStep
  <2> QED
    BY <2>4, <2>7, <2>8
<1> QED
  BY <1>3, <1>4

-----------------------------------------------------------------------------
LEMMA ScopeInvInit == Init => ScopeInv
<1> SUFFICES ASSUME Init PROVE ScopeInv
  OBVIOUS
<1>1. ScopesTyped
  BY RequestsAssumption DEF Init, ScopesTyped
<1>2. Claims /\ Listed /\ SharedForGood
  BY DEF Init, Claims, ClaimOf, ScopePcs, Listed, SharedForGood
<1> QED
  BY <1>1, <1>2, RequestInvInit DEF ScopeInv

LEMMA ScopeInvNext == ScopeInv /\ [Next]_vars => ScopeInv'
<1> SUFFICES ASSUME ScopeInv, [Next]_vars PROVE ScopeInv'
  OBVIOUS
<1>1. RequestInv /\ ScopesKeep
  BY DEF ScopeInv, ScopesKeep
<1>2. RequestInv'
  <2>1. CASE UNCHANGED vars
    BY <1>1, <2>1, Unmoved DEF vars, threadVars
  <2>2. ASSUME NEW c \in Contexts, Calls(c) PROVE RequestInv'
    BY <1>1, <2>2, CallsKeepRequests
  <2>3. ASSUME NEW t \in Threads, Requesting(t) \/ Collecting(t) PROVE RequestInv'
    BY <1>1, <2>3, RequestingKeeps
  <2>4. ASSUME NEW t \in Threads, Claiming(t) PROVE RequestInv'
    BY <1>1, <2>4, ScopesKeepRequests DEF ScopesKeep
  <2> QED
    BY <2>1, <2>2, <2>3, <2>4 DEF Next
<1>3. ScopesKeep'
  <2>1. CASE UNCHANGED vars
    BY <1>1, <2>1
    DEF vars, requestVars, scopeVars, threadVars, ScopesKeep, ScopesTyped, Claims, ClaimOf,
        Listed, Entered, Suspended, SharedForGood
  <2>2. ASSUME NEW c \in Contexts, Calls(c) PROVE ScopesKeep'
    BY <1>1, <2>2, CallsAside, EndRequestKeepsScopes, LockScopeKeepsScopes, SetProtoKeepsScopes,
       UnlockScopeKeepsScopes DEF Calls
  <2>3. ASSUME NEW t \in Threads, Requesting(t) \/ Collecting(t) PROVE ScopesKeep'
    BY <1>1, <2>3, WaitsAside
  <2>4. ASSUME NEW t \in Threads, Claiming(t) PROVE ScopesKeep'
    BY <1>1, <2>4, EntersKeepScopes, LockInnerKeepsScopes, GivesUpKeepsScopes,
       AwaitShareKeepsScopes, SharedKeepsScopes DEF Claiming
  <2> QED
    BY <2>1, <2>2, <2>3, <2>4 DEF Next
<1> QED
  BY <1>2, <1>3 DEF ScopeInv, ScopesKeep

(* Types, and requestCount is the number of contexts in a request that the *)
(* collector has to wait for: every path pays back what it took, with      *)
(* several contexts in one thread too.                                     *)
THEOREM Typing == Spec => []TypeOK
<1>1. ScopeInv => TypeOK
  <2> SUFFICES ASSUME ScopeInv PROVE TypeOK
    OBVIOUS
  <2>1. gcLevel \in 0 .. Cardinality(Threads)
    <3>1. Cardinality({t \in Threads : pc[t] \in InGC}) <= Cardinality(Threads)
      BY RequestsAssumption, FS_Subset
    <3>2. Cardinality({t \in Threads : pc[t] \in InGC}) \in Nat /\ Cardinality(Threads) \in Nat
      BY Finite
    <3> QED
      BY <3>1, <3>2 DEF ScopeInv, RequestInv, Typed, Collectors
  <2> QED
    BY <2>1 DEF ScopeInv, RequestInv, Typed, Counts, ScopesTyped, TypeOK
<1> QED
  BY <1>1, ScopeInvInit, ScopeInvNext, PTL DEF Spec

LEMMA AloneFromCount == RequestInv => CollectsAlone
<1> SUFFICES ASSUME RequestInv PROVE CollectsAlone
  OBVIOUS
<1>1. ASSUME gcRunning, NEW c \in Contexts, depth[c] > 0, ThreadOf[c] # gcThread
      PROVE  pc[ThreadOf[c]] \in {"yield", "join"}
  <2>1. ThreadOf[c] \in Threads /\ c \in ActiveOf(ThreadOf[c])
    BY <1>1, RequestsAssumption DEF ActiveOf
  <2>2. pc[ThreadOf[c]] \in InGC \cup {"yield"}
    BY <1>1, <2>1, RunsInNone
  <2> QED
    BY <1>1, <2>1, <2>2 DEF InGC, RequestInv, Collectors
<1> QED
  BY <1>1 DEF CollectsAlone, RequestInv, Collectors

(* While one thread marks and sweeps, no other is in a request that runs,  *)
(* and who waits to remove a root is in none.                              *)
THEOREM Collects == Spec => []CollectsAlone
<1>1. ScopeInv => CollectsAlone
  BY AloneFromCount DEF ScopeInv
<1> QED
  BY <1>1, ScopeInvInit, ScopeInvNext, PTL DEF Spec

(* Whoever waits for a listed scope waits for the end of a request that    *)
(* has begun, or that its owner has suspended.                             *)
THEOREM Lists == Spec => []ListedIsOwned
<1>1. ScopeInv => ListedIsOwned
  <2> SUFFICES ASSUME ScopeInv, NEW s \in todo
               PROVE  ownercx[s] # None /\ (depth[ownercx[s]] > 0 \/ saved[ThreadOf[ownercx[s]]] > 0)
    BY DEF ListedIsOwned
  <2>1. ownercx[s] \in Contexts /\ Entered(ownercx[s])
    BY DEF ScopeInv, Listed, ScopesTyped
  <2> QED
    BY <2>1, RequestsAssumption DEF ScopeInv, Listed, Entered, Suspended, Claims, ClaimOf
<1> QED
  BY <1>1, ScopeInvInit, ScopeInvNext, PTL DEF Spec


-----------------------------------------------------------------------------
\* No two threads work on one scope.
LEMMA Apart ==
  ASSUME ScopeInv, Works, NEW t \in Threads, NEW u \in Threads, t # u
  PROVE  held[t] \cap held[u] = {}
<1> SUFFICES ASSUME NEW s \in held[t], s \in held[u] PROVE FALSE
  OBVIOUS
<1>1. \A v \in {t, u} : /\ call[v].cx \in Contexts /\ ThreadOf[call[v].cx] = v
                        /\ ownercx[s] = call[v].cx \/ lock[s] = v
  BY DEF Works, WorksOf, ScopeInv, Claims, ClaimOf
<1>2. s \in Scopes /\ (lock[s] # None => ownercx[s] = None)
  BY DEF ScopeInv, ScopesTyped, SharedForGood
<1> QED
  BY <1>1, <1>2, RequestsAssumption

\* A step of t takes no scope away that another thread works on.
LEMMA WorkStep ==
  ASSUME Works, NEW t \in Threads,
         \A u \in Threads : u # t => pc'[u] = pc[u] /\ call'[u] = call[u] /\ held'[u] = held[u],
         \A u \in Threads : u # t => \A s \in held[u] : ownercx'[s] = ownercx[s] /\ lock'[s] = lock[s],
         WorksOf(t)'
  PROVE  Works'
<1>1. ASSUME NEW u \in Threads, u # t PROVE WorksOf(u)'
  BY <1>1 DEF Works, WorksOf
<1> QED
  BY <1>1 DEF Works

\* A thread that has no scope moves on.
LEMMA WorkWaits ==
  ASSUME ScopeInv, Works, NEW t \in Threads, held[t] = {}, held' = held,
         \A u \in Threads : u # t => pc'[u] = pc[u] /\ call'[u] = call[u],
         call'[t].inner = None, pc'[t] # "own", UNCHANGED <<ownercx, lock>>
  PROVE  Works'
<1>1. WorksOf(t)'
  BY DEF WorksOf
<1> QED
  BY <1>1, WorkStep

\* A scope of a context that another thread works on stays as it is.
LEMMA TakenStays ==
  ASSUME ScopeInv, Works, NEW u \in Threads, NEW s \in held[u]
  PROVE  \/ lock[s] = u /\ ownercx[s] = None
         \/ /\ ownercx[s] = call[u].cx /\ ownercx[s] \in Contexts /\ pc[u] = "run"
            /\ ThreadOf[ownercx[s]] = u /\ depth[ownercx[s]] > 0
BY RequestsAssumption DEF ScopeInv, Works, WorksOf, Claims, ClaimOf, ScopesTyped, SharedForGood

LEMMA CallsWork ==
  ASSUME ScopeInv, Works, ~Nests, NEW c \in Contexts, Calls(c) PROVE Works'
<1> DEFINE t == ThreadOf[c]
<1>1. t \in Threads /\ RequestInv /\ ScopesTyped
  BY RequestsAssumption DEF ScopeInv
<1>2. call[t].inner = None /\ pc[t] # "own"
  BY <1>1 DEF Works, WorksOf
<1>3. CASE BeginRequest(c) \/ YieldRequest(c) \/ Collect(c) \/ RemoveRoot(c)
  <2>1. held[t] = {} /\ UNCHANGED scopeVars
    BY <1>3 DEF BeginRequest, YieldRequest, Collect, RemoveRoot
  <2>2. pc' = pc \/ \E q \in {"begin", "yield", "gc", "root"} : pc' = [pc EXCEPT ![t] = q]
    BY <1>3 DEF BeginRequest, YieldRequest, Collect, RemoveRoot, Goto, threadVars
  <2>3. call' = call \/ call' = [call EXCEPT ![t].cx = c]
    BY <1>3 DEF BeginRequest, YieldRequest, Collect, RemoveRoot, threadVars
  <2>4. pc'[t] # "own" /\ \A u \in Threads : u # t => pc'[u] = pc[u] /\ call'[u] = call[u]
    BY <1>1, <1>2, <2>2, <2>3 DEF RequestInv, Typed
  <2>5. call'[t].inner = None
    BY <1>1, <1>2, <2>3 DEF RequestInv, Typed, CallRecords
  <2> QED
    BY <1>1, <2>1, <2>4, <2>5, WorkWaits DEF scopeVars
<1>4. CASE EndRequest(c)
  <2>1. held[t] = {} /\ UNCHANGED <<pc, call, held>>
    BY <1>4 DEF EndRequest
  <2>2. ASSUME NEW u \in Threads, u # t, NEW s \in held[u]
        PROVE  ownercx'[s] = ownercx[s] /\ lock'[s] = lock[s]
    <3>1. s \in Scopes /\ ownercx[s] # c
      BY <1>1, <2>2, TakenStays, RequestsAssumption DEF ScopesTyped
    <3>2. \/ UNCHANGED <<ownercx, lock>>
          \/ LET shared == {r \in todo : ownercx[r] = c} IN
             /\ ownercx' = [r \in Scopes |-> IF r \in shared THEN None ELSE ownercx[r]]
             /\ lock' = [r \in Scopes |-> IF r \in shared THEN None ELSE lock[r]]
      BY <1>4 DEF EndRequest
    <3> QED
      BY <3>1, <3>2
  <2>3. WorksOf(t)'
    BY <1>2, <2>1 DEF WorksOf
  <2> QED
    BY <1>1, <2>1, <2>2, <2>3, WorkStep
<1>5. CASE UnlockScope(c)
  <2>1. /\ ownercx' = [s \in Scopes |->
                         IF s = call[t].scope /\ ownercx[s] # None THEN c ELSE ownercx[s]]
        /\ call[t].scope \in held[t]
        /\ lock' = [s \in Scopes |-> IF s \in held[t] /\ lock[s] = t THEN None ELSE lock[s]]
        /\ held' = [held EXCEPT ![t] = {}] /\ call' = [call EXCEPT ![t] = NoCall] /\ pc' = pc
    BY <1>1, <1>5 DEF UnlockScope, Works, WorksOf
  <2>2. /\ held'[t] = {} /\ call'[t] = NoCall
        /\ \A u \in Threads : u # t => pc'[u] = pc[u] /\ call'[u] = call[u] /\ held'[u] = held[u]
    BY <1>1, <2>1 DEF RequestInv, Typed, ScopesTyped
  <2>3. WorksOf(t)'
    BY <1>2, <2>1, <2>2 DEF WorksOf, NoCall
  <2>4. ASSUME NEW u \in Threads, u # t, NEW s \in held[u]
        PROVE  ownercx'[s] = ownercx[s] /\ lock'[s] = lock[s]
    <3>1. s \in Scopes /\ s \notin held[t]
      BY <1>1, <2>4, Apart DEF ScopesTyped
    <3> QED
      BY <2>1, <3>1
  <2> QED
    BY <1>1, <2>2, <2>3, <2>4, WorkStep
<1>6. ASSUME NEW s \in Scopes, LockScope(c, s) PROVE Works'
  <2>1. held[t] = {} /\ pc[t] = "run" /\ UNCHANGED <<ownercx, lock>>
    BY <1>6 DEF LockScope, Runs
  <2>2. CASE ownercx[s] = c
    <3>1. held' = [held EXCEPT ![t] = {s}] /\ call' = [call EXCEPT ![t] = WorkOn(c, s)] /\ pc' = pc
      BY <1>6, <2>2 DEF LockScope
    <3>2. /\ held'[t] = {s} /\ call'[t] = WorkOn(c, s)
          /\ \A u \in Threads : u # t => pc'[u] = pc[u] /\ call'[u] = call[u] /\ held'[u] = held[u]
      BY <1>1, <3>1 DEF RequestInv, Typed, ScopesTyped
    <3>3. WorksOf(t)'
      BY <2>1, <2>2, <3>1, <3>2 DEF WorksOf, WorkOn
    <3> QED
      BY <1>1, <2>1, <3>2, <3>3, WorkStep
  <2>3. CASE ownercx[s] # c
    <3>1. /\ held' = held
          /\ pc' = [pc EXCEPT ![t] = IF ownercx[s] = None THEN "lock" ELSE "claim"]
          /\ call' = [call EXCEPT ![t] = [cx |-> c, scope |-> s, inner |-> None]]
      BY <1>6, <2>3 DEF LockScope, Goto, WorkOn
    <3>2. /\ call'[t].inner = None /\ pc'[t] # "own"
          /\ \A u \in Threads : u # t => pc'[u] = pc[u] /\ call'[u] = call[u]
      BY <1>1, <3>1 DEF RequestInv, Typed
    <3> QED
      BY <1>1, <2>1, <3>1, <3>2, WorkWaits
  <2> QED
    BY <2>2, <2>3
<1>7. ASSUME NEW s \in Scopes, NEW p \in Scopes, SetProto(c, s, p) PROVE FALSE
  BY <1>7 DEF SetProto
<1> QED
  BY <1>3, <1>4, <1>5, <1>6, <1>7 DEF Calls

LEMMA WaitsWork ==
  ASSUME ScopeInv, Works, NEW t \in Threads, Requesting(t) \/ Collecting(t) PROVE Works'
<1> USE DEF Requesting, BeginAgain, YieldEnds, RemoveRootAgain,
            Collecting, NotPoked, EnterGC, Join, Drain, Restart, EndGC
<1>1. pc[t] # "run" /\ UNCHANGED scopeVars
  BY DEF At
<1>2. held[t] = {} /\ call[t].inner = None /\ pc[t] # "own"
  BY <1>1 DEF Works, WorksOf
<1>3. pc' = pc \/ \E q \in {"run", "join", "drain", "collect"} : pc' = [pc EXCEPT ![t] = q]
  BY DEF Goto, threadVars
<1>4. call' = call \/ call' = [call EXCEPT ![t] = NoCall]
  BY DEF threadVars
<1>5. /\ call'[t].inner = None /\ pc'[t] # "own"
      /\ \A u \in Threads : u # t => pc'[u] = pc[u] /\ call'[u] = call[u]
  BY <1>2, <1>3, <1>4 DEF ScopeInv, RequestInv, Typed, NoCall
<1> QED
  BY <1>1, <1>2, <1>5, WorkWaits DEF scopeVars

LEMMA EnterWorks ==
  ASSUME ScopeInv, Works, NEW t \in Threads, pc[t] \in {"claim", "lock"}, Enter(t),
         LET s == call[t].scope IN ownercx'[s] = call[t].cx \/ lock'[s] = t
  PROVE  /\ WorksOf(t)'
         /\ \A u \in Threads : u # t => pc'[u] = pc[u] /\ call'[u] = call[u] /\ held'[u] = held[u]
<1> DEFINE s == call[t].scope
<1>1. held[t] = {} /\ call[t].inner = None
  BY DEF Works, WorksOf
<1>2. held' = [held EXCEPT ![t] = @ \cup {s}] /\ pc' = [pc EXCEPT ![t] = "run"]
  BY <1>1 DEF Enter, Goto
<1>3. call' = call
  BY <1>1 DEF Enter
<1>4. held'[t] = {s} /\ pc'[t] = "run"
  BY <1>1, <1>2 DEF ScopeInv, RequestInv, Typed, ScopesTyped
<1>5. call'[t].cx = call[t].cx /\ call'[t].scope = s /\ call'[t].inner = None
  BY <1>1, <1>3
<1>6. \A u \in Threads : u # t => pc'[u] = pc[u] /\ call'[u] = call[u] /\ held'[u] = held[u]
  BY <1>2, <1>3 DEF ScopeInv, RequestInv, Typed, ScopesTyped
<1>7. WorksOf(t)'
  BY <1>4, <1>5 DEF WorksOf
<1> QED
  BY <1>6, <1>7

LEMMA ClaimingWork ==
  ASSUME ScopeInv, Works, NEW t \in Threads, Claiming(t) PROVE Works'
<1> DEFINE c == call[t].cx
           s == call[t].scope
           o == ownercx[s]
<1>0. RequestInv /\ ScopesTyped
  BY DEF ScopeInv
<1>1. pc[t] \in ScopePcs /\ s \in Scopes /\ c \in Contexts /\ ThreadOf[c] = t
  BY DEF Claiming, Own, LockInner, Claim, ClaimShared, ShareScope, AwaitShare, Shared, Lock, At,
         ScopePcs, ScopeInv, Claims, ClaimOf
<1>2. held[t] = {} /\ call[t].inner = None /\ pc[t] # "own"
  BY <1>1 DEF Works, WorksOf, ScopePcs
<1>3. CASE Claim(t)
  <2>1. /\ pc[t] = "claim" /\ Enter(t) /\ ownercx' = [ownercx EXCEPT ![s] = c] /\ lock' = lock
        /\ o # None /\ (depth[o] = 0 \/ ThreadOf[o] = t)
    BY <1>1, <1>3 DEF Claim, At, CanClaim
  <2>2. ownercx'[s] = c
    BY <1>0, <1>1, <2>1 DEF ScopesTyped
  <2>3. ASSUME NEW u \in Threads, u # t, NEW r \in held[u]
        PROVE  ownercx'[r] = ownercx[r] /\ lock'[r] = lock[r]
    <3>1. r # s
      BY <1>0, <2>1, <2>3, TakenStays DEF RequestInv, Typed
    <3>2. r \in Scopes
      BY <1>0 DEF ScopesTyped
    <3> QED
      BY <1>0, <2>1, <3>1, <3>2 DEF ScopesTyped
  <2>4. /\ WorksOf(t)'
        /\ \A u \in Threads : u # t => pc'[u] = pc[u] /\ call'[u] = call[u] /\ held'[u] = held[u]
    BY <2>1, <2>2, EnterWorks
  <2> QED
    BY <2>3, <2>4, WorkStep
<1>4. CASE Lock(t)
  <2>1. /\ pc[t] = "lock" /\ Enter(t) /\ lock' = [lock EXCEPT ![s] = t] /\ ownercx' = ownercx
        /\ lock[s] = None
    BY <1>4 DEF Lock, At
  <2>2. lock'[s] = t /\ ownercx[s] = None
    BY <1>0, <1>1, <2>1 DEF ScopesTyped, ScopeInv, SharedForGood
  <2>3. ASSUME NEW u \in Threads, u # t, NEW r \in held[u]
        PROVE  ownercx'[r] = ownercx[r] /\ lock'[r] = lock[r]
    <3>1. r # s
      BY <2>1, <2>2, <2>3, TakenStays, RequestsAssumption
    <3>2. r \in Scopes
      BY <1>0 DEF ScopesTyped
    <3> QED
      BY <1>0, <2>1, <3>1, <3>2 DEF ScopesTyped
  <2>4. /\ WorksOf(t)'
        /\ \A u \in Threads : u # t => pc'[u] = pc[u] /\ call'[u] = call[u] /\ held'[u] = held[u]
    BY <2>1, <2>2, EnterWorks
  <2> QED
    BY <2>3, <2>4, WorkStep
<1>5. CASE ClaimShared(t) \/ AwaitShare(t) \/ Shared(t)
  <2>1. UNCHANGED <<ownercx, lock, held, call>>
    BY <1>5 DEF ClaimShared, AwaitShare, Shared, scopeVars
  <2>2. pc' = pc \/ \E q \in {"lock", "share", "claim"} : pc' = [pc EXCEPT ![t] = q]
    BY <1>5 DEF ClaimShared, AwaitShare, Shared, Goto
  <2>3. pc'[t] # "own" /\ \A u \in Threads : u # t => pc'[u] = pc[u] /\ call'[u] = call[u]
    BY <1>0, <1>2, <2>1, <2>2 DEF RequestInv, Typed
  <2> QED
    BY <1>2, <2>1, <2>3, WorkWaits
<1>6. CASE ShareScope(t)
  <2>1. /\ pc' = [pc EXCEPT ![t] = "lock"] /\ UNCHANGED <<held, call>>
        /\ ownercx' = [ownercx EXCEPT ![s] = None]
        /\ \E v : lock' = [lock EXCEPT ![s] = v]
    BY <1>6 DEF ShareScope, Goto
  <2>2. o # None /\ WillDeadlock(o, c)
    BY <1>6 DEF ShareScope
  <2>3. sharing[o] # None /\ o \in Contexts
    <3>1. PICK n \in 2 .. Cardinality(Contexts) : \E path \in [1 .. n -> Contexts] :
            path[1] = o /\ \A i \in 1 .. Cardinality(DOMAIN path) - 1 : WaitsOn(path[i], path[i + 1])
      BY <2>2 DEF WillDeadlock
    <3>2. PICK path \in [1 .. n -> Contexts] :
            path[1] = o /\ \A i \in 1 .. Cardinality(DOMAIN path) - 1 : WaitsOn(path[i], path[i + 1])
      BY <3>1
    <3>3. n \in Nat /\ n >= 2
      BY Finite
    <3>4. Cardinality(1 .. n) = n
      BY <3>3, FS_Interval
    <3>5. DOMAIN path = 1 .. n
      OBVIOUS
    <3>6. WaitsOn(path[1], path[2])
      BY <3>2, <3>3, <3>4, <3>5
    <3> QED
      BY <3>2, <3>3, <3>6 DEF WaitsOn
  <2>4. pc[ThreadOf[o]] = "share"
    BY <2>3 DEF ScopeInv, SharedForGood, Suspended
  <2>5. ASSUME NEW u \in Threads, u # t, NEW r \in held[u]
        PROVE  ownercx'[r] = ownercx[r] /\ lock'[r] = lock[r]
    <3>1. r # s
      BY <2>2, <2>4, <2>5, TakenStays
    <3>2. r \in Scopes
      BY <1>0 DEF ScopesTyped
    <3> QED
      BY <1>0, <2>1, <3>1, <3>2 DEF ScopesTyped
  <2>6. WorksOf(t)'
    BY <1>0, <1>2, <2>1 DEF WorksOf, RequestInv, Typed
  <2>7. \A u \in Threads : u # t => pc'[u] = pc[u] /\ call'[u] = call[u] /\ held'[u] = held[u]
    BY <1>0, <2>1 DEF RequestInv, Typed
  <2> QED
    BY <2>5, <2>6, <2>7, WorkStep
<1>7. ~Own(t) /\ ~LockInner(t)
  BY <1>1, <1>2, RequestsAssumption DEF Own, LockInner, At, ScopeInv, Claims, ClaimOf
<1> QED
  BY <1>3, <1>4, <1>5, <1>6, <1>7 DEF Claiming

(* Where nobody calls js_SetProtoOrParent, the one that locks two scopes,  *)
(* no two threads work on one scope, nor one on a scope it has lost, for   *)
(* any contexts of each thread: a request that runs keeps its scopes until *)
(* it ends, and none runs into the cycle that takes them away.  (The run   *)
(* ScopeStolen shows what happens with js_SetProtoOrParent.)               *)
THEOREM WorkAlone == ASSUME ~Nests PROVE Spec => []WorksAlone
<1>1. Init => Works
  BY DEF Init, Works, WorksOf, NoCall
<1>2. ScopeInv /\ Works /\ [Next]_vars => Works'
  <2> SUFFICES ASSUME ScopeInv, Works, [Next]_vars PROVE Works'
    OBVIOUS
  <2>1. CASE UNCHANGED vars
    BY <2>1 DEF Works, WorksOf, vars, scopeVars, threadVars
  <2> QED
    BY <2>1, CallsWork, WaitsWork, ClaimingWork DEF Next
<1>3. ScopeInv /\ Works => WorksAlone
  <2> SUFFICES ASSUME ScopeInv, Works PROVE WorksAlone
    OBVIOUS
  <2>1. \A t, u \in Threads : t # u => held[t] \cap held[u] = {}
    BY Apart
  <2>2. StillLocked
    BY DEF Works, WorksOf, StillLocked
  <2> QED
    BY <2>1, <2>2 DEF WorksAlone
<1> QED
  BY <1>1, <1>2, <1>3, ScopeInvInit, ScopeInvNext, PTL DEF Spec

-----------------------------------------------------------------------------
LEMMA LifeKeepsRequests ==
  ASSUME RequestInv, LifeNext PROVE RequestInv'
<1>1. CASE UNCHANGED vars
  BY <1>1, Unmoved DEF vars, threadVars
<1>2. ASSUME NEW c \in Contexts, BeginRequest(c) \/ EndRequest(c) \/ Collect(c) \/ RemoveRoot(c)
      PROVE  RequestInv'
  BY <1>2, BeginRequestKeeps, EndRequestKeeps, CollectKeeps, RemoveRootKeeps
<1>3. ASSUME NEW c \in Contexts, LeaveCollects(c) PROVE RequestInv'
  <2>1. CASE Collect(c)
    BY <2>1, CollectKeeps
  <2>2. CASE UNCHANGED vars
    BY <1>1, <2>2
  <2>3. CASE ~Collect(c) /\ ~UNCHANGED vars
    <3>1. /\ ThreadOf[c] \in Threads /\ pc[ThreadOf[c]] = "run" /\ gcPoke' = TRUE
          /\ UNCHANGED <<requestVars, gcLevel, gcThread, gcRunning, debit, threadVars>>
      BY <1>3, <2>3, RequestsAssumption DEF LeaveCollects, Runs
    <3>2. pc' = [pc EXCEPT ![ThreadOf[c]] = "run"] /\ call' \in [Threads -> CallRecords] /\ call' = call
      BY <3>1 DEF threadVars, RequestInv, Typed
    <3> QED
      BY <3>1, <3>2, Continues DEF Pcs, InGC
  <2> QED
    BY <2>1, <2>2, <2>3
<1>4. ASSUME NEW t \in Threads, Resume(t) PROVE RequestInv'
  BY <1>4, BeginAgainKeeps, RemoveRootAgainKeeps DEF Resume
<1>5. ASSUME NEW t \in Threads, GC(t) PROVE RequestInv'
  BY <1>5, NotPokedKeeps, EnterGCKeeps, JoinKeeps, DrainKeeps, RestartKeeps, EndGCKeeps DEF GC
<1>6. ASSUME NEW c \in Contexts, NewContext(c) \/ Destroy(c) \/ Launching(c) PROVE RequestInv'
  BY <1>1, <1>2, <1>6 DEF NewContext, Destroy, Launching, LaunchBegins, Launched, Up, Abandon, Unlink
<1>7. ASSUME NEW c \in Contexts, Use(c) PROVE RequestInv'
  BY <1>2, <1>7 DEF Use
<1>8. ASSUME NEW c \in Contexts, Leaving(c) PROVE RequestInv'
  BY <1>1, <1>2, <1>3, <1>8
  DEF Leaving, LandBegins, Unpin, FreeRegExpStatics, EndRequests, FinalGC, Down, Gone
<1> QED
  BY <1>4, <1>5, <1>6, <1>7, <1>8 DEF LifeNext

\* The one context of which the phase changes.
LEMMA Becoming ==
  ASSUME phase \in [Contexts -> Phases], NEW c \in Contexts, NEW from, NEW to \in Phases,
         Becomes(c, from, to)
  PROVE  /\ phase[c] = from /\ phase'[c] = to /\ phase' \in [Contexts -> Phases]
         /\ \A d \in Contexts : d # c => phase'[d] = phase[d]
BY DEF Becomes

\* From one phase to the other a context keeps its place in the list, and
\* goes on launching or landing if it did.
Alike(f, g) == /\ g \in Phases /\ g # "live"
               /\ f \in Inside <=> g \in Inside
               /\ f \in Launches <=> g \in Launches
               /\ f \in Lands <=> g \in Lands

LEMMA Alikes ==
  /\ Alike("launching", "pinning") /\ Alike("pinning", "upping") /\ Alike("pinning", "failed")
  /\ Alike("landing", "unpinning") /\ Alike("unpinning", "lastLeaving")
  /\ Alike("leaving", "ending") /\ Alike("lastLeaving", "lastEnding")
  /\ Alike("ending", "gone") /\ Alike("lastEnding", "final") /\ Alike("gone", "none")
BY DEF Alike, Phases, Inside, Launches, Lands

\* A context goes on, and the list and the runtime stay as they are.
LEMMA GoesOn ==
  ASSUME LifeTypeOK, Alone, NEW c \in Contexts, NEW from, NEW to, Becomes(c, from, to),
         Alike(from, to), pinned' \in BOOLEAN, pinned' = pinned \/ from \in Launches \cup Lands,
         to = "upping" => pinned', UNCHANGED <<state, linked>>
  PROVE  LifeTypeOK' /\ Alone'
<1> USE DEF Alike
<1>1. /\ phase[c] = from /\ phase'[c] = to /\ phase' \in [Contexts -> Phases]
      /\ \A d \in Contexts : d # c => phase'[d] = phase[d]
  BY Becoming DEF LifeTypeOK
<1>2. LifeTypeOK'
  BY <1>1 DEF LifeTypeOK
<1>3. Alone'
  <2>1. \A d \in Contexts : /\ phase'[d] \in Launches <=> phase[d] \in Launches
                            /\ phase'[d] \in Lands <=> phase[d] \in Lands
                            /\ phase'[d] = "live" => phase[d] = "live"
    BY <1>1
  <2>2. state = "up" => pinned' = pinned
    BY <1>1 DEF Alone
  <2>3. \A d \in Contexts : phase'[d] = "upping" => pinned'
    BY <1>1 DEF Alone, Launches
  <2> QED
    BY <2>1, <2>2, <2>3 DEF Alone
<1> QED
  BY <1>2, <1>3

LEMMA NewContextKeeps ==
  ASSUME LifeTypeOK, Alone, NEW c \in Contexts, NewContext(c) PROVE LifeTypeOK' /\ Alone'
<1> DEFINE to == IF state = "down" THEN "launching" ELSE "live"
<1>1. /\ phase[c] = "none" /\ phase'[c] = to /\ phase' \in [Contexts -> Phases]
      /\ \A d \in Contexts : d # c => phase'[d] = phase[d]
  BY Becoming DEF LifeTypeOK, NewContext, Phases
<1>2. /\ state \in {"up", "down"} /\ linked' = linked \cup {c}
      /\ state' = (IF state = "down" THEN "launching" ELSE state) /\ pinned' = pinned
  BY DEF NewContext
<1>3. \A d \in Contexts : phase[d] \notin Launches \cup Lands
  BY <1>2 DEF Alone
<1>4. LifeTypeOK'
  <2>1. linked' = {d \in Contexts : phase'[d] \in Inside}
    BY <1>1, <1>2 DEF LifeTypeOK, Inside
  <2> QED
    BY <1>1, <1>2, <2>1 DEF LifeTypeOK
<1>5. Alone'
  <2>1. CASE state = "down"
    <3>1. linked' = {c} /\ state' = "launching"
      BY <1>2, <2>1 DEF LifeTypeOK
    <3>2. \A d \in Contexts : d # c => phase'[d] \notin Launches \cup Lands \cup {"live"}
      BY <1>1, <1>3, <2>1 DEF Alone
    <3> QED
      BY <1>1, <1>2, <2>1, <3>1, <3>2 DEF Alone, Launches, Lands
  <2>2. CASE state = "up"
    <3>1. state' = "up" /\ \A d \in Contexts : phase'[d] \notin Launches \cup Lands
      BY <1>1, <1>2, <1>3, <2>2 DEF Launches, Lands
    <3> QED
      BY <1>2, <2>2, <3>1 DEF Alone, Launches
  <2> QED
    BY <1>2, <2>1, <2>2
<1> QED
  BY <1>4, <1>5

LEMMA UpKeeps ==
  ASSUME LifeTypeOK, Alone, NEW c \in Contexts, Up(c) PROVE LifeTypeOK' /\ Alone'
<1>1. /\ phase[c] = "upping" /\ phase'[c] = "live" /\ phase' \in [Contexts -> Phases]
      /\ \A d \in Contexts : d # c => phase'[d] = phase[d]
  BY Becoming DEF LifeTypeOK, Up, Phases
<1>2. state' = "up" /\ pinned' = pinned /\ linked' = linked
  BY DEF Up
<1>3. linked = {c} /\ pinned /\ \A d \in Contexts : phase'[d] \notin Launches \cup Lands
  BY <1>1 DEF Alone, Launches, Lands
<1>4. LifeTypeOK'
  <2>1. linked' = {d \in Contexts : phase'[d] \in Inside}
    BY <1>1, <1>2 DEF LifeTypeOK, Inside
  <2> QED
    BY <1>1, <1>2, <1>3, <2>1 DEF LifeTypeOK
<1>5. Alone'
  BY <1>2, <1>3 DEF Alone, Launches
<1> QED
  BY <1>4, <1>5

LEMMA UnlinkKeeps ==
  ASSUME LifeTypeOK, Alone, NEW c \in Contexts, NEW from \in {"live", "launching", "failed"},
         Unlink(c, from)
  PROVE  LifeTypeOK' /\ Alone'
<1> DEFINE last == linked = {c}
           to == IF last THEN "landing" ELSE "leaving"
<1>1. /\ phase[c] = from /\ phase'[c] = to /\ phase' \in [Contexts -> Phases]
      /\ \A d \in Contexts : d # c => phase'[d] = phase[d]
  BY Becoming DEF LifeTypeOK, Unlink, Phases
<1>2. /\ linked' = linked \ {c} /\ pinned' = pinned
      /\ state' = IF last THEN "landing" ELSE state
  BY DEF Unlink
<1>3. c \in linked
  BY <1>1 DEF LifeTypeOK, Inside
<1>4. from # "live" => last
  BY <1>1 DEF Alone, Launches
<1>5. LifeTypeOK'
  <2>1. linked' = {d \in Contexts : phase'[d] \in Inside}
    BY <1>1, <1>2 DEF LifeTypeOK, Inside
  <2> QED
    BY <1>1, <1>2, <1>3, <2>1 DEF LifeTypeOK
<1>6. Alone'
  <2>1. \A d \in Contexts : d # c => phase[d] \notin Launches \cup Lands
    BY <1>1, <1>3 DEF Alone, Launches, Lands
  <2>2. CASE last
    <3>1. \A d \in Contexts : d # c => phase'[d] \notin Launches \cup Lands \cup {"live"}
      BY <1>1, <2>1, <2>2 DEF LifeTypeOK, Inside
    <3> QED
      BY <1>1, <1>2, <2>2, <3>1 DEF Alone, Launches, Lands
  <2>3. CASE ~last
    <3>1. state = "up" /\ state' = "up" /\ pinned
      BY <1>1, <1>2, <1>4, <2>3 DEF Alone
    <3>2. \A d \in Contexts : phase'[d] \notin Launches \cup Lands
      BY <1>1, <2>1, <2>3 DEF Launches, Lands
    <3> QED
      BY <1>2, <3>1, <3>2 DEF Alone, Launches
  <2> QED
    BY <2>2, <2>3
<1> QED
  BY <1>5, <1>6

LEMMA DownKeeps ==
  ASSUME LifeTypeOK, Alone, NEW c \in Contexts, Down(c) PROVE LifeTypeOK' /\ Alone'
<1>1. /\ phase[c] = "final" /\ phase'[c] = "none" /\ phase' \in [Contexts -> Phases]
      /\ \A d \in Contexts : d # c => phase'[d] = phase[d]
  BY Becoming DEF LifeTypeOK, Down, Phases
<1>2. state' = "down" /\ pinned' = pinned /\ linked' = linked
  BY DEF Down
<1>3. linked = {} /\ \A d \in Contexts : phase'[d] \notin Launches \cup Lands \cup {"live"}
  BY <1>1 DEF Alone, Launches, Lands
<1>4. LifeTypeOK'
  <2>1. linked' = {d \in Contexts : phase'[d] \in Inside}
    BY <1>1, <1>2 DEF LifeTypeOK, Inside
  <2> QED
    BY <1>1, <1>2, <1>3, <2>1 DEF LifeTypeOK
<1>5. Alone'
  BY <1>2, <1>3 DEF Alone, Launches
<1> QED
  BY <1>4, <1>5

LEMMA LifeKeepsAlone ==
  ASSUME LifeTypeOK, Alone, [LifeNext]_allVars PROVE LifeTypeOK' /\ Alone'
<1>1. CASE UNCHANGED lifeVars
  BY <1>1 DEF lifeVars, LifeTypeOK, Alone
<1>2. ASSUME NEW c \in Contexts, NewContext(c) \/ Destroy(c) \/ Up(c) \/ Abandon(c) \/ Down(c)
      PROVE  LifeTypeOK' /\ Alone'
  BY <1>2, NewContextKeeps, UnlinkKeeps, UpKeeps, DownKeeps DEF Destroy, Abandon
<1>3. ASSUME NEW c \in Contexts,
             LaunchBegins(c) \/ Launched(c) \/ LandBegins(c) \/ Unpin(c) \/ FreeRegExpStatics(c)
             \/ LeaveCollects(c) \/ FinalGC(c) \/ Gone(c)
      PROVE  LifeTypeOK' /\ Alone'
  <2>1. UNCHANGED <<state, linked>>
    BY <1>3 DEF LaunchBegins, Launched, LandBegins, Unpin, FreeRegExpStatics, LeaveCollects, FinalGC, Gone
  <2>2. pinned \in BOOLEAN
    BY DEF LifeTypeOK
  <2>3. CASE Launched(c)
    <3>1. PICK to \in {"upping", "failed"} :
            Becomes(c, "pinning", to) /\ pinned' \in BOOLEAN /\ (to = "upping" => pinned')
      BY <2>3 DEF Launched
    <3>2. Alike("pinning", to) /\ "pinning" \in Launches
      BY Alikes DEF Launches
    <3> QED
      BY <2>1, <3>1, <3>2, GoesOn
  <2>4. CASE Unpin(c)
    <3>1. Becomes(c, "unpinning", "lastLeaving") /\ pinned' = FALSE
      BY <2>4 DEF Unpin
    <3>2. "unpinning" \in Lands
      BY DEF Lands
    <3> QED
      BY <2>1, <3>1, <3>2, Alikes, GoesOn
  <2>5. CASE ~Launched(c) /\ ~Unpin(c)
    <3>1. PICK from, to : Becomes(c, from, to) /\ Alike(from, to) /\ to # "upping"
      BY <1>3, <2>5, Alikes DEF LaunchBegins, LandBegins, FreeRegExpStatics, LeaveCollects, FinalGC, Gone
    <3>2. pinned' = pinned
      BY <1>3, <2>5 DEF LaunchBegins, LandBegins, FreeRegExpStatics, LeaveCollects, FinalGC, Gone
    <3> QED
      BY <2>1, <2>2, <3>1, <3>2, GoesOn
  <2> QED
    BY <2>3, <2>4, <2>5
<1> QED
  BY <1>1, <1>2, <1>3 DEF allVars, LifeNext, Use, Launching, Leaving, EndRequests, Resume, GC

\* Another context of the thread, or another thread, does not end the wait.
LEMMA StaysToUnpin ==
  ASSUME RequestInv, NEW c \in Contexts, MayUnpin(c), NEW t \in Threads,
         \A u \in Threads : u # t => pc'[u] = pc[u] /\ call'[u] = call[u],
         depth[c] > 0 => depth'[c] > 0,
         ThreadOf[c] = t => \/ pc[t] # "begin" \/ depth'[c] > 0
                            \/ pc'[t] = pc[t] /\ call'[t] = call[t]
  PROVE  MayUnpin(c)'
BY RequestsAssumption DEF MayUnpin

LEMMA CallsLeaveUnpinning ==
  ASSUME RequestInv, NEW c \in Contexts, MayUnpin(c), NEW d \in Contexts,
         BeginRequest(d) \/ (d # c /\ EndRequest(d)) \/ Collect(d) \/ RemoveRoot(d)
  PROVE  MayUnpin(c)'
<1> DEFINE t == ThreadOf[d]
<1>1. t \in Threads /\ pc[t] = "run"
  BY RequestsAssumption DEF BeginRequest, EndRequest, Collect, RemoveRoot, Runs
<1>2. pc' = pc \/ \E q \in {"begin", "gc", "root"} : pc' = [pc EXCEPT ![t] = q]
  BY DEF BeginRequest, EndRequest, Collect, RemoveRoot, Goto, threadVars
<1>3. call' = call \/ call' = [call EXCEPT ![t].cx = d]
  BY DEF BeginRequest, EndRequest, Collect, RemoveRoot, threadVars
<1>4. \A u \in Threads : u # t => pc'[u] = pc[u] /\ call'[u] = call[u]
  BY <1>2, <1>3 DEF RequestInv, Typed
<1>5. \/ depth' = depth \/ depth' = [depth EXCEPT ![d] = @ + 1]
      \/ d # c /\ depth' = [depth EXCEPT ![d] = @ - 1]
  BY DEF BeginRequest, EndRequest, Collect, RemoveRoot, requestVars
<1>6. depth[c] > 0 => depth'[c] > 0
  BY <1>5 DEF RequestInv, Typed
<1> QED
  BY <1>1, <1>4, <1>6, StaysToUnpin

LEMMA WaitsLeaveUnpinning ==
  ASSUME RequestInv, NEW c \in Contexts, MayUnpin(c), NEW t \in Threads, Resume(t) \/ GC(t)
  PROVE  MayUnpin(c)'
<1> USE DEF Resume, BeginAgain, RemoveRootAgain, GC, NotPoked, EnterGC, Join, Drain, Restart, EndGC
<1>1. pc' = pc \/ \E q \in {"run", "join", "drain", "collect"} : pc' = [pc EXCEPT ![t] = q]
  BY DEF Goto, threadVars
<1>2. call' = call \/ call' = [call EXCEPT ![t] = NoCall]
  BY DEF threadVars
<1>3. \A u \in Threads : u # t => pc'[u] = pc[u] /\ call'[u] = call[u]
  BY <1>1, <1>2 DEF RequestInv, Typed
<1>4. depth' = depth \/ (pc[t] = "begin" /\ depth' = [depth EXCEPT ![call[t].cx] = 1])
  BY DEF requestVars, At
<1>5. depth[c] > 0 => depth'[c] > 0
  BY <1>4 DEF RequestInv, Typed
<1>6. pc[t] = "begin" => \/ pc' = pc /\ call' = call
                         \/ depth' = [depth EXCEPT ![call[t].cx] = 1]
  BY DEF At
<1>7. ASSUME ThreadOf[c] = t, pc[t] = "begin", depth'[c] = 0 PROVE pc'[t] = pc[t] /\ call'[t] = call[t]
  BY <1>5, <1>6, <1>7 DEF MayUnpin, RequestInv, Typed
<1>8. depth'[c] > 0 \/ depth'[c] = 0
  BY <1>4 DEF RequestInv, Typed
<1> QED
  BY <1>3, <1>5, <1>7, <1>8, StaysToUnpin

LEMMA UnpinningKept ==
  ASSUME LifeInv, LifeNext PROVE Unpinning'
<1> SUFFICES ASSUME NEW c \in Contexts, phase'[c] = "unpinning" PROVE MayUnpin(c)'
  BY DEF Unpinning
<1>0. RequestInv /\ phase \in [Contexts -> Phases]
  BY DEF LifeInv, LifeTypeOK
<1>1. CASE LandBegins(c)
  <2>1. CASE depth[c] = 0
    <3>1. BeginRequest(c) /\ ThreadOf[c] \in Threads
      BY <1>1, <2>1, RequestsAssumption DEF LandBegins
    <3>2. \/ depth' = [depth EXCEPT ![c] = @ + 1]
          \/ pc' = [pc EXCEPT ![ThreadOf[c]] = "begin"] /\ call' = [call EXCEPT ![ThreadOf[c]].cx = c]
      BY <3>1 DEF BeginRequest, Goto
    <3> QED
      BY <1>0, <2>1, <3>1, <3>2 DEF MayUnpin, RequestInv, Typed, CallRecords
  <2>2. CASE depth[c] # 0
    BY <1>0, <1>1, <2>2 DEF LandBegins, vars, requestVars, MayUnpin, RequestInv, Typed
  <2> QED
    BY <2>1, <2>2
<1>2. CASE ~LandBegins(c)
  <2>1. phase[c] = "unpinning"
    BY <1>0, <1>2
    DEF LifeNext, NewContext, Destroy, Use, Launching, LaunchBegins, Launched, Up, Abandon, Unlink,
        Leaving, LandBegins, Unpin, FreeRegExpStatics, EndRequests, LeaveCollects, FinalGC, Down, Gone,
        Resume, GC, Becomes, lifeVars
  <2>2. MayUnpin(c)
    BY <2>1 DEF LifeInv, Unpinning
  <2>3. CASE UNCHANGED <<depth, pc, call>>
    BY <2>2, <2>3 DEF MayUnpin
  <2>4. ASSUME NEW d \in Contexts, BeginRequest(d) \/ (d # c /\ EndRequest(d)) \/ Collect(d) \/ RemoveRoot(d)
        PROVE  MayUnpin(c)'
    BY <1>0, <2>2, <2>4, CallsLeaveUnpinning
  <2>5. ASSUME NEW t \in Threads, Resume(t) \/ GC(t) PROVE MayUnpin(c)'
    BY <1>0, <2>2, <2>5, WaitsLeaveUnpinning
  <2>6. ASSUME NEW d \in Contexts, Use(d) PROVE MayUnpin(c)'
    BY <2>1, <2>4, <2>6 DEF Use
  <2>7. ASSUME NEW d \in Contexts, NewContext(d) \/ Destroy(d) \/ Launching(d) PROVE MayUnpin(c)'
    BY <2>1, <2>3, <2>4, <2>7
    DEF NewContext, Destroy, Launching, LaunchBegins, Launched, Up, Abandon, Unlink, Becomes,
        vars, requestVars, threadVars
  <2>8. ASSUME NEW d \in Contexts, Leaving(d) PROVE MayUnpin(c)'
    BY <2>1, <2>3, <2>4, <2>8
    DEF Leaving, LandBegins, Unpin, FreeRegExpStatics, EndRequests, LeaveCollects, FinalGC, Down, Gone,
        Becomes, vars, requestVars, threadVars
  <2> QED
    BY <2>5, <2>6, <2>7, <2>8 DEF LifeNext
<1> QED
  BY <1>1, <1>2

LEMMA LifeInvInit == LifeInit => LifeInv
<1> SUFFICES ASSUME LifeInit PROVE LifeInv
  OBVIOUS
<1>1. RequestInv
  BY RequestInvInit DEF LifeInit
<1>2. LifeTypeOK /\ Alone /\ Unpinning
  BY DEF LifeInit, LifeTypeOK, Phases, Inside, Alone, Launches, Lands, Unpinning
<1> QED
  BY <1>1, <1>2 DEF LifeInv

LEMMA LifeInvNext == LifeInv /\ [LifeNext]_allVars => LifeInv'
<1> SUFFICES ASSUME LifeInv, [LifeNext]_allVars PROVE LifeInv'
  OBVIOUS
<1>1. RequestInv'
  <2>1. CASE UNCHANGED allVars
    BY <2>1, Unmoved DEF LifeInv, allVars, vars, threadVars
  <2> QED
    BY <2>1, LifeKeepsRequests DEF LifeInv
<1>2. LifeTypeOK' /\ Alone'
  BY LifeKeepsAlone DEF LifeInv
<1>3. Unpinning'
  <2>1. CASE UNCHANGED allVars
    BY <2>1 DEF LifeInv, Unpinning, MayUnpin, allVars, vars, requestVars, threadVars, lifeVars
  <2> QED
    BY <2>1, UnpinningKept
<1> QED
  BY <1>1, <1>2, <1>3 DEF LifeInv

(* What js_NewContext and js_DestroyContext assert of the list and the     *)
(* state of the runtime.                                                   *)
THEOREM LifeTyping == LifeSpec => []LifeTypeOK
<1>1. LifeInv => LifeTypeOK
  BY DEF LifeInv
<1> QED
  BY <1>1, LifeInvInit, LifeInvNext, PTL DEF LifeSpec

(* One context at a time launches or lands the runtime, and only then is   *)
(* the runtime neither up nor down; a context in use finds its atoms       *)
(* pinned.                                                                 *)
THEOREM LandAlone == LifeSpec => []LandsAlone
<1>1. LifeInv => LandsAlone
  <2> SUFFICES ASSUME LifeInv PROVE LandsAlone
    OBVIOUS
  <2> DEFINE Moving == {c \in Contexts : phase[c] \in Launches \cup Lands}
  <2>1. Cardinality(Moving) = IF state \in {"launching", "landing"} THEN 1 ELSE 0
    <3>1. CASE state \in {"launching", "landing"}
      <4>1. PICK c \in Contexts : phase[c] \in Launches \cup Lands
        BY <3>1 DEF LifeInv, Alone
      <4>2. Moving = {c}
        BY <4>1 DEF LifeInv, Alone
      <4> QED
        BY <3>1, <4>2, FS_Singleton
    <3>2. CASE state \notin {"launching", "landing"}
      <4>1. Moving = {}
        BY <3>2 DEF LifeInv, Alone
      <4> QED
        BY <3>2, <4>1, FS_EmptySet
    <3> QED
      BY <3>1, <3>2
  <2>2. Moving = {c \in Contexts : phase[c] \in {"launching", "pinning", "upping", "failed", "landing",
                 "unpinning", "lastLeaving", "lastEnding", "final"}}
    BY DEF Launches, Lands
  <2>3. \A c \in Contexts : phase[c] = "live" => pinned
    BY DEF LifeInv, Alone
  <2> QED
    BY <2>1, <2>2, <2>3 DEF LandsAlone
<1> QED
  BY <1>1, LifeInvInit, LifeInvNext, PTL DEF LifeSpec

(* Nobody unpins the atoms while a collector runs: who does is in a        *)
(* request, and its thread runs.                                           *)
THEOREM Unpins == LifeSpec => UnpinsAlone
<1>1. LifeInv /\ [LifeNext]_allVars => [pinned /\ ~pinned' => ~gcRunning]_allVars
  <2> SUFFICES ASSUME LifeInv, LifeNext, pinned' # pinned PROVE ~gcRunning
    BY DEF allVars, lifeVars
  <2>1. PICK c \in Contexts : Launched(c) \/ Unpin(c)
    BY DEF LifeNext, NewContext, Destroy, Use, Launching, LaunchBegins, Up, Abandon, Unlink,
        Leaving, LandBegins, FreeRegExpStatics, EndRequests, LeaveCollects, FinalGC, Down, Gone,
        Resume, GC, lifeVars
  <2>2. pc[ThreadOf[c]] = "run"
    BY <2>1 DEF Launched, EndRequest, Unpin, Runs
  <2>3. depth[c] > 0
    <3>1. CASE Launched(c)
      BY <3>1 DEF Launched, EndRequest
    <3>2. CASE Unpin(c)
      BY <2>2, <3>2 DEF Unpin, Becomes, LifeInv, Unpinning, MayUnpin
    <3> QED
      BY <2>1, <3>1, <3>2
  <2>4. ThreadOf[c] \in Threads /\ c \in ActiveOf(ThreadOf[c])
    BY <2>3, RequestsAssumption DEF ActiveOf
  <2> QED
    BY <2>2, <2>4, RunsInNone DEF LifeInv, InGC
<1> QED
  BY <1>1, LifeInvInit, LifeInvNext, PTL DEF LifeSpec, UnpinsAlone
================================================================================
