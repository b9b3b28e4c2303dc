--------------------------- MODULE ScopeOwnership ---------------------------
(***************************************************************************)
(* The scopes of src/js/jslock.c on top of Requests.  A scope belongs to a *)
(* context, which works on it without a lock.  Another context takes it    *)
(* over if the owner is in no request, else it lists the scope for sharing *)
(* and suspends its own request until the owner's request ends; a shared   *)
(* scope has a lock and never goes back to one owner.                      *)
(***************************************************************************)
EXTENDS Requests

(* What a context works on: s, which it has locked last.                   *)
WorkOn(c, s) == [cx |-> c, scope |-> s, inner |-> None]

(* The thread has the scope of its call, and goes on to the inner one or   *)
(* to its work, in which it calls none of this.                            *)
Enter(t) ==
  LET s == call[t].scope IN
  /\ held' = [held EXCEPT ![t] = @ \cup {s}]
  /\ Goto(t, IF call[t].inner = None THEN "run" ELSE "outer")
  /\ UNCHANGED call

(* JS_LOCK_SCOPE: nothing to do for the owner. *)
LockScope(c, s) ==
  LET t == ThreadOf[c] IN
  /\ Runs(c) /\ depth[c] > 0 /\ held[t] = {}
  /\ IF ownercx[s] = c
     THEN /\ held' = [held EXCEPT ![t] = {s}]
          /\ call' = [call EXCEPT ![t] = WorkOn(c, s)]
          /\ UNCHANGED pc
     ELSE /\ Goto(t, IF ownercx[s] = None THEN "lock" ELSE "claim")
          /\ call' = [call EXCEPT ![t] = WorkOn(c, s)]
          /\ UNCHANGED held
  /\ UNCHANGED <<requestVars, gcVars, ownercx, todo, sharing, lock, slotBusy, setSlotScope, saved, waits>>

(* js_SetProtoOrParent, one call at a time: locks s, then p while s is     *)
(* still locked.                                                           *)
SetProto(c, s, p) ==
  LET t == ThreadOf[c] IN
  /\ Nests /\ s # p
  /\ Runs(c) /\ depth[c] > 0 /\ held[t] = {}
  /\ slotBusy = None
  /\ slotBusy' = t
  /\ Goto(t, IF ownercx[s] = c THEN "own" ELSE IF ownercx[s] = None THEN "lock" ELSE "claim")
  /\ call' = [call EXCEPT ![t] = [cx |-> c, scope |-> s, inner |-> p]]
  /\ UNCHANGED <<requestVars, gcVars, ownercx, todo, sharing, lock, setSlotScope, held, saved, waits>>

Own(t) == /\ At(t, "own")
          /\ Enter(t)
          /\ UNCHANGED <<requestVars, gcVars, ownercx, todo, sharing, lock, slotBusy, setSlotScope, saved, waits>>

LockInner(t) ==
  LET c == call[t].cx
      s == call[t].scope
      p == call[t].inner IN
  /\ At(t, "outer")
  /\ setSlotScope' = IF ownercx[s] = c THEN s ELSE None
  /\ Goto(t, IF ownercx[p] = c THEN "own" ELSE IF ownercx[p] = None THEN "lock" ELSE "claim")
  /\ call' = [call EXCEPT ![t] = WorkOn(c, p)]
  /\ UNCHANGED <<requestVars, gcVars, ownercx, todo, sharing, lock, slotBusy, held, saved, waits>>

-----------------------------------------------------------------------------
(* ClaimScope. *)

(* The owner is waiting, maybe over other waiting owners, for a scope of c. *)
WaitsOn(a, b) == sharing[a] # None /\ ownercx[sharing[a]] = b

WillDeadlock(o, c) ==
  \E path \in UNION {[1..n -> Contexts] : n \in 2..Cardinality(Contexts)} :
    LET n == Cardinality(DOMAIN path) IN
    /\ path[1] = o /\ path[n] = c
    /\ \A i \in 1..n - 1 : WaitsOn(path[i], path[i + 1])

CanClaimBusy(c, s) == s \notin todo

CanClaim(c, s) == LET o == ownercx[s] IN
                  /\ s \notin todo
                  /\ depth[o] = 0 \/ ThreadOf[o] = ThreadOf[c]

Claim(t) ==
  LET c == call[t].cx
      s == call[t].scope IN
  /\ At(t, "claim") /\ ownercx[s] # None /\ CanClaim(c, s)
  /\ ownercx' = [ownercx EXCEPT ![s] = c]
  /\ Enter(t)
  /\ UNCHANGED <<requestVars, gcVars, todo, sharing, lock, slotBusy, setSlotScope, saved, waits>>

(* The owner has shared it meanwhile. *)
ClaimShared(t) ==
  /\ At(t, "claim") /\ ownercx[call[t].scope] = None
  /\ Goto(t, "lock")
  /\ UNCHANGED <<requestVars, gcVars, scopeVars, call, waits>>

(* ShareScope: waiting would be for ever, so the scope is shared now.  If  *)
(* the owner is in js_SetProtoOrParent it gets the lock.                   *)
ShareScope(t) ==
  LET c == call[t].cx
      s == call[t].scope
      o == ownercx[s] IN
  /\ At(t, "claim") /\ o # None /\ ~CanClaim(c, s) /\ WillDeadlock(o, c)
  /\ ownercx' = [ownercx EXCEPT ![s] = None]
  /\ lock' = [lock EXCEPT ![s] = IF s = setSlotScope THEN ThreadOf[o] ELSE None]
  /\ todo' = todo \ {s}
  /\ waits' = IF s \in todo THEN Woken({"scopeSharingDone"}) ELSE waits
  /\ Goto(t, "lock")
  /\ UNCHANGED <<requestVars, gcVars, sharing, slotBusy, setSlotScope, held, saved, call>>

AwaitShare(t) ==
  LET c == call[t].cx
      s == call[t].scope
      o == ownercx[s] IN
  /\ At(t, "claim") /\ o # None /\ ~CanClaim(c, s) /\ ~WillDeadlock(o, c)
  /\ todo' = todo \cup {s}
  /\ saved' = [saved EXCEPT ![t] = depth[c]]
  /\ depth' = [depth EXCEPT ![c] = 0]
  /\ requestCount' = requestCount - 1
  /\ waits' = [(IF requestCount = 1 THEN Woken({"requestDone"}) ELSE waits)
                 EXCEPT ![t] = "scopeSharingDone"]
  /\ sharing' = [sharing EXCEPT ![c] = s]
  /\ Goto(t, "share")
  /\ UNCHANGED <<gcVars, ownercx, lock, slotBusy, setSlotScope, held, call>>

(* Notified: resume the request, then look at the scope again. *)
Shared(t) ==
  LET c == call[t].cx IN
  /\ At(t, "share")
  /\ IF gcLevel > 0
     THEN WaitFor(t, "gcDone") /\ UNCHANGED <<requestVars, sharing, saved, pc>>
     ELSE /\ depth' = [depth EXCEPT ![c] = saved[t]]
          /\ saved' = [saved EXCEPT ![t] = 0]
          /\ requestCount' = requestCount + 1
          /\ sharing' = [sharing EXCEPT ![c] = None]
          /\ Goto(t, "claim")
          /\ UNCHANGED waits
  /\ UNCHANGED <<gcVars, ownercx, todo, lock, slotBusy, setSlotScope, held, call>>

Lock(t) ==
  LET s == call[t].scope IN
  /\ At(t, "lock") /\ lock[s] = None
  /\ lock' = [lock EXCEPT ![s] = t]
  /\ Enter(t)
  /\ UNCHANGED <<requestVars, gcVars, ownercx, todo, sharing, slotBusy, setSlotScope, saved, waits>>

(* JS_UNLOCK_SCOPE and js_UnlockScope, by which a context claims a scope   *)
(* of one owner back.  js_SetProtoOrParent has both scopes here: the lock  *)
(* of the outer one is given back by js_TransferScopeLock, which does      *)
(* nothing for a scope of one owner, and the inner one is unlocked.        *)
UnlockScope(c) ==
  LET t == ThreadOf[c]
      inner == call[t].scope IN
  /\ Runs(c) /\ held[t] # {} /\ call[t].cx = c
  /\ ownercx' = [s \in Scopes |-> IF s = inner /\ ownercx[s] # None THEN c ELSE ownercx[s]]
  /\ lock' = [s \in Scopes |-> IF s \in held[t] /\ lock[s] = t THEN None ELSE lock[s]]
  /\ held' = [held EXCEPT ![t] = {}]
  /\ slotBusy' = IF slotBusy = t THEN None ELSE slotBusy
  /\ setSlotScope' = IF slotBusy = t THEN None ELSE setSlotScope
  /\ call' = [call EXCEPT ![t] = NoCall]
  /\ UNCHANGED <<requestVars, gcVars, todo, sharing, saved, pc, waits>>

-----------------------------------------------------------------------------
Requesting(t) == BeginAgain(t) \/ YieldEnds(t) \/ RemoveRootAgain(t)

Collecting(t) == \/ NotPoked(t) \/ EnterGC(t) \/ Join(t) \/ Drain(t)
                 \/ Restart(t) \/ EndGC(t)

Claiming(t) == \/ Own(t) \/ LockInner(t) \/ Claim(t) \/ ClaimShared(t)
               \/ ShareScope(t) \/ AwaitShare(t) \/ Shared(t) \/ Lock(t)

Calls(c) == \/ BeginRequest(c) \/ EndRequest(c) \/ YieldRequest(c)
            \/ Collect(c) \/ RemoveRoot(c) \/ UnlockScope(c)
            \/ \E s \in Scopes : LockScope(c, s) \/ \E p \in Scopes : SetProto(c, s, p)

Next == \/ \E c \in Contexts : Calls(c)
        \/ \E t \in Threads : Requesting(t) \/ Collecting(t) \/ Claiming(t)

(* What is begun is run on, and a request, nested or not, ends: scripts do. *)
Fairness == /\ \A t \in Threads : /\ WF_vars(Requesting(t)) /\ WF_vars(Collecting(t))
                                  /\ WF_vars(Claiming(t))
            /\ \A c \in Contexts : /\ SF_vars(EndRequest(c)) /\ SF_vars(UnlockScope(c))
                                   /\ SF_vars(EndRequest(c) /\ depth[c] = 1)

Spec == Init /\ [][Next]_vars /\ Fairness

-----------------------------------------------------------------------------
Pcs == {"run", "begin", "yield", "gc", "join", "drain", "collect", "root",
        "own", "outer", "claim", "share", "lock"}

(* Types; and requestCount is the number of contexts in a request, without *)
(* those whose thread has said that it waits or collects: every path pays  *)
(* back what it took (JS_YieldRequest, js_GC, ClaimScope).                 *)
TypeOK ==
  /\ depth \in [Contexts -> 0..MaxDepth] /\ saved \in [Threads -> 0..MaxDepth]
  /\ gcLevel \in 0..Cardinality(Threads) /\ gcThread \in Threads \cup {None}
  /\ gcRunning \in BOOLEAN /\ gcPoke \in BOOLEAN
  /\ ownercx \in [Scopes -> Contexts \cup {None}]
  /\ lock \in [Scopes -> Threads \cup {None}]
  /\ todo \subseteq Scopes /\ held \in [Threads -> SUBSET Scopes]
  /\ sharing \in [Contexts -> Scopes \cup {None}]
  /\ pc \in [Threads -> Pcs]
  /\ requestCount = Cardinality(Counted)

(* While the collector marks and sweeps nobody else is in a request that   *)
(* runs (js_GC waits for them, JS_BeginRequest and all that resume wait    *)
(* for it); and, as the comment in js_AddRootRT presumes, whoever waits    *)
(* there is in no request the collector could wait for.                    *)
CollectsAlone ==
  /\ gcRunning => \A c \in Contexts : depth[c] > 0 /\ ThreadOf[c] # gcThread =>
                    pc[ThreadOf[c]] \in {"yield", "join"}
  /\ \A t \in Threads : pc[t] = "root" => ActiveOf(t) = {}

(* The assertions of js_TransferScopeLock and js_UnlockScope: what a       *)
(* thread works on is its own, or it has the lock.                         *)
StillLocked ==
  \A t \in Threads : pc[t] = "run" =>
    \A s \in held[t] : ownercx[s] = call[t].cx \/ lock[s] = t

(* Two threads never work on one scope, with or without a lock, and none   *)
(* on a scope it has lost.                                                 *)
WorksAlone == /\ \A t, u \in Threads : t # u => held[t] \cap held[u] = {}
              /\ StillLocked

(* A scope is listed only while its owner is in a request whose end will   *)
(* share it, or waits and will be in one again.                            *)
ListedIsOwned ==
  \A s \in todo : LET o == ownercx[s] IN
    o # None /\ (depth[o] > 0 \/ saved[ThreadOf[o]] > 0)

(* js_SetProtoOrParent has locked the outer scope and waits for the end of *)
(* a request that waits for that lock.                                     *)
NestingDeadlock ==
  \E t \in Threads, c \in Contexts :
    /\ waits[t] = "scopeSharingDone" /\ sharing[call[t].cx] \in todo
    /\ ownercx[sharing[call[t].cx]] = c /\ depth[c] > 0
    /\ pc[ThreadOf[c]] = "lock" /\ lock[call[ThreadOf[c]].scope] = t

(* The collector gets to run: JS_AddRootRT, JS_BeginRequest and all that   *)
(* resume stay out of its way, and the last to leave tells it.             *)
DrainEnds == \A t \in Threads : pc[t] = "drain" ~> pc[t] = "collect"

(* Who waits for a scope is told: cycles of owners and waiters are found,  *)
(* all but the one through js_SetProtoOrParent.                            *)
SharingDone == \A t \in Threads :
  waits[t] = "scopeSharingDone" ~> waits[t] # "scopeSharingDone" \/ NestingDeadlock
=============================================================================
