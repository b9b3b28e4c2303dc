------------------------------ MODULE ThinLock ------------------------------
(***************************************************************************)
(* The locks of src/js/jslock.c: a word that holds the owner and a wait    *)
(* bit, a fat lock with a condition variable that exists while threads     *)
(* wait, and a global lock that serialises whoever takes the slow path.    *)
(* The word is written by compare-and-swap, except for one store in        *)
(* js_Unlock, so a test of the word and what follows are separate steps.   *)
(***************************************************************************)
EXTENDS Naturals, FiniteSets

CONSTANTS Lockers, Nobody

ASSUME ThinLockAssumption == Nobody \notin Lockers /\ IsFiniteSet(Lockers)

VARIABLES
  owner,   \* tl->owner: the thread and the wait bit
  seen,    \* o in js_Enqueue, the word as the thread has read it
  bit,     \* the wait bit of me in js_Enqueue
  global,  \* who holds the global lock
  slock,   \* who holds the lock of the fat lock
  susp,    \* fl->susp; the lock has a fat lock while this is positive
  asleep,  \* the threads that wait for svar
  place

lockVars == <<owner, seen, bit, global, slock, susp, asleep, place>>

Free == [who |-> Nobody, wait |-> FALSE]

Word(t, w) == [who |-> t, wait |-> w]

LockInit == /\ owner = Free
            /\ seen = [t \in Lockers |-> Free]
            /\ bit = [t \in Lockers |-> FALSE]
            /\ global = Nobody
            /\ slock = Nobody
            /\ susp = 0
            /\ asleep = {}
            /\ place = [t \in Lockers |-> "idle"]

Moves(t, from, to) == place[t] = from /\ place' = [place EXCEPT ![t] = to]

TakeGlobal(t) == global = Nobody /\ global' = t

-----------------------------------------------------------------------------
(* js_Lock: one compare-and-swap if nobody has the lock. *)

LockFast(t) == /\ owner = Free
               /\ owner' = Word(t, FALSE)
               /\ Moves(t, "idle", "critical")
               /\ UNCHANGED <<seen, bit, global, slock, susp, asleep>>

(* js_Lock goes on to js_Enqueue, which takes the global lock. *)
LockSlow(t) == /\ owner # Free
               /\ Moves(t, "idle", "enqueue")
               /\ UNCHANGED <<owner, seen, bit, global, slock, susp, asleep>>

Enqueue(t) == /\ Moves(t, "enqueue", "read")
              /\ TakeGlobal(t)
              /\ UNCHANGED <<owner, seen, bit, slock, susp, asleep>>

ReadOwner(t) == /\ Moves(t, "read", "swap")
                /\ seen' = [seen EXCEPT ![t] = owner]
                /\ UNCHANGED <<owner, bit, global, slock, susp, asleep>>

(* The first swap sets the wait bit in the word as it was read; what the   *)
(* thread does then is js_SuspendThread up to the wait, under slock.       *)
Announce(t) == /\ seen[t] # Free
               /\ owner = seen[t]
               /\ owner' = [owner EXCEPT !.wait = TRUE]
               /\ Moves(t, "swap", "suspend")
               /\ seen' = [seen EXCEPT ![t] = Free]
               /\ UNCHANGED <<bit, global, slock, susp, asleep>>

Suspend(t) == /\ Moves(t, "suspend", "asleep")
              /\ slock = Nobody
              /\ susp' = susp + 1
              /\ global' = Nobody
              /\ asleep' = asleep \cup {t}
              /\ UNCHANGED <<owner, seen, bit, slock>>

TakeOverUnlooked(t) == /\ seen[t] = Free \/ owner # seen[t]
                       /\ owner' = Word(t, bit[t])
                       /\ global' = Nobody
                       /\ Moves(t, "swap", "critical")
                       /\ seen' = [seen EXCEPT ![t] = Free]
                       /\ bit' = [bit EXCEPT ![t] = FALSE]
                       /\ UNCHANGED <<slock, susp, asleep>>

(* The second swap takes a lock that has become free. *)
TakeOver(t) == /\ seen[t] = Free \/ owner # seen[t]
               /\ owner = Free
               /\ owner' = Word(t, bit[t])
               /\ global' = Nobody
               /\ Moves(t, "swap", "critical")
               /\ seen' = [seen EXCEPT ![t] = Free]
               /\ bit' = [bit EXCEPT ![t] = FALSE]
               /\ UNCHANGED <<slock, susp, asleep>>

Retry(t) == /\ seen[t] = Free \/ owner # seen[t]
            /\ owner # Free
            /\ Moves(t, "swap", "read")
            /\ seen' = [seen EXCEPT ![t] = Free]
            /\ UNCHANGED <<owner, bit, global, slock, susp, asleep>>

WakeUpKeepsBit(t) == /\ place[t] = "asleep" /\ t \notin asleep
                     /\ slock = Nobody
                     /\ Moves(t, "asleep", "read")
                     /\ TakeGlobal(t)
                     /\ susp' = susp - 1
                     /\ bit' = [bit EXCEPT ![t] = TRUE]
                     /\ UNCHANGED <<owner, seen, slock, asleep>>

WakeUpForgetsSusp(t) == /\ place[t] = "asleep" /\ t \notin asleep
                        /\ slock = Nobody
                        /\ Moves(t, "asleep", "read")
                        /\ TakeGlobal(t)
                        /\ bit' = [bit EXCEPT ![t] = susp # 1]
                        /\ UNCHANGED <<owner, seen, susp, slock, asleep>>

(* A thread that was notified has slock for a moment, then asks for the    *)
(* global lock; the last one to leave gives the fat lock back.             *)
WakeUp(t) == /\ place[t] = "asleep" /\ t \notin asleep
             /\ slock = Nobody
             /\ Moves(t, "asleep", "read")
             /\ TakeGlobal(t)
             /\ susp' = susp - 1
             /\ bit' = [bit EXCEPT ![t] = susp # 1]
             /\ UNCHANGED <<owner, seen, slock, asleep>>

-----------------------------------------------------------------------------
(* js_Unlock looks at the word: without a wait bit it goes on to store 0,  *)
(* which is no compare-and-swap.                                           *)

UnlockTest(t) ==
  /\ IF owner = Word(t, FALSE) THEN Moves(t, "critical", "store")
                               ELSE Moves(t, "critical", "dequeue")
  /\ UNCHANGED <<owner, seen, bit, global, slock, susp, asleep>>

UnlockStoreSpins(t) ==
  \/ /\ owner = Word(t, FALSE)
     /\ Moves(t, "store", "idle")
     /\ owner' = Free
     /\ UNCHANGED <<seen, bit, global, slock, susp, asleep>>
  \/ /\ place[t] = "store" /\ owner # Word(t, FALSE)
     /\ UNCHANGED lockVars

UnlockStore(t) == /\ Moves(t, "store", "idle")
                  /\ owner' = Free
                  /\ UNCHANGED <<seen, bit, global, slock, susp, asleep>>

(* js_Dequeue releases the lock under the global lock and passes from it   *)
(* to slock, under which it notifies one thread.                           *)
Dequeue(t) == /\ Moves(t, "dequeue", "notify")
              /\ global = Nobody /\ slock = Nobody
              /\ slock' = t
              /\ owner' = Free
              /\ UNCHANGED <<seen, bit, global, susp, asleep>>

Notify(t) == /\ Moves(t, "notify", "idle")
             /\ slock' = Nobody
             /\ IF asleep = {} THEN UNCHANGED asleep
                ELSE \E s \in asleep : asleep' = asleep \ {s}
             /\ UNCHANGED <<owner, seen, bit, global, susp>>

-----------------------------------------------------------------------------
Locking(t) == \/ Enqueue(t) \/ ReadOwner(t) \/ Announce(t) \/ Suspend(t)
              \/ TakeOver(t) \/ Retry(t) \/ WakeUp(t)

Unlocking(t) == UnlockTest(t) \/ UnlockStore(t) \/ Dequeue(t) \/ Notify(t)

LockNext == \E t \in Lockers : LockFast(t) \/ LockSlow(t) \/ Locking(t) \/ Unlocking(t)

(* A thread that has begun to lock or unlock runs on; nobody has to begin. *)
LockFairness == \A t \in Lockers : WF_lockVars(Locking(t)) /\ WF_lockVars(Unlocking(t))

LockSpec == LockInit /\ [][LockNext]_lockVars /\ LockFairness

-----------------------------------------------------------------------------
LockPcs == {"idle", "enqueue", "read", "swap", "suspend", "asleep",
            "critical", "store", "dequeue", "notify"}

(* Types; susp counts those that wait, so the fat lock is neither given    *)
(* back while somebody waits nor kept (js_SuspendThread).                  *)
LockTypeOK ==
  /\ owner \in [who : Lockers \cup {Nobody}, wait : BOOLEAN]
  /\ seen \in [Lockers -> [who : Lockers \cup {Nobody}, wait : BOOLEAN]]
  /\ bit \in [Lockers -> BOOLEAN]
  /\ global \in Lockers \cup {Nobody}
  /\ slock \in Lockers \cup {Nobody}
  /\ asleep \subseteq Lockers
  /\ place \in [Lockers -> LockPcs]
  /\ susp = Cardinality({t \in Lockers : place[t] = "asleep"})

(* The assertions of js_Dequeue: whoever unlocks through it finds the wait *)
(* bit and a fat lock with somebody in it, and the swap cannot fail.       *)
DequeueFinds == \A t \in Lockers : place[t] = "dequeue" /\ global = Nobody =>
                  owner = Word(t, TRUE) /\ susp > 0

(* The lock word implements a mutex: the plain store of js_Unlock and the  *)
(* stale wait bit of js_Enqueue never make two owners or drop one.         *)
M == INSTANCE Mutex WITH Threads <- Lockers, None <- Nobody, holder <- owner.who

IsMutex == M!Spec

(* A thread that unlocks is done at some time, whatever happens between    *)
(* the global lock and slock.                                              *)
UnlockReturns == \A t \in Lockers :
                   place[t] \in {"store", "dequeue", "notify"} ~> place[t] = "idle"

(* What the comments of js_Unlock and above js_SuspendThread say: a thread *)
(* that waits has set the wait bit for the owner, or somebody is on the    *)
(* way who will set it again or wake the next one.  The store of js_Unlock *)
(* does not keep it: no run claims it.                                     *)
WaiterAnnounced ==
  asleep # {} => \/ owner.wait
                 \/ \E t \in Lockers : \/ place[t] \in {"read", "swap", "suspend", "notify"}
                                       \/ place[t] = "asleep" /\ t \notin asleep
=============================================================================
