------------------------------ MODULE Requests ------------------------------
(***************************************************************************)
(* How the threads of a thread-safe build share a runtime: requests        *)
(* (src/js/jsapi.c), the collector that waits for them (js_GC in           *)
(* src/js/jsgc.c) and scopes that belong to one context until another one  *)
(* wants them (ClaimScope in src/js/jslock.c).                             *)
(*                                                                         *)
(* What runs under rt->gcLock without waiting is one step.  A wait on a    *)
(* condition variable gives the lock away and returns after a              *)
(* notification only, to test its condition again.                         *)
(***************************************************************************)
EXTENDS Naturals, FiniteSets

CONSTANTS Contexts, Threads, Scopes, None,
          ThreadOf,   \* the thread of each context
          MaxDepth,   \* bound: depth of nested requests
          Nests       \* whether anybody calls js_SetProtoOrParent

ASSUME RequestsAssumption ==
  /\ ThreadOf \in [Contexts -> Threads]
  /\ IsFiniteSet(Contexts) /\ IsFiniteSet(Threads)
  /\ None \notin Contexts \cup Threads \cup Scopes
  /\ MaxDepth \in Nat \ {0}
  /\ Nests \in BOOLEAN

VARIABLES
  depth,         \* cx->requestDepth
  requestCount,  \* rt->requestCount
  gcLevel, gcThread, gcRunning, gcPoke,  \* of the runtime
  debit,         \* requestDebit of a thread in js_GC
  ownercx,       \* of each scope
  todo,          \* the scopes on rt->scopeSharingTodo
  sharing,       \* cx->scopeToShare
  lock,          \* the thread that has the lock of a shared scope
  slotBusy, setSlotScope, \* rt->setSlotBusy (by whom) and rt->setSlotScope
  held,          \* the scopes a thread works on
  pc, call,      \* where a thread is, and the context, scope and second scope
  saved,         \* saveDepth in ClaimScope
  waits          \* the condition variable a thread waits for

requestVars == <<depth, requestCount>>
gcVars == <<gcLevel, gcThread, gcRunning, gcPoke, debit>>
scopeVars == <<ownercx, todo, sharing, lock, slotBusy, setSlotScope, held, saved>>
threadVars == <<pc, call, waits>>
vars == <<requestVars, gcVars, scopeVars, threadVars>>

NoCall == [cx |-> None, scope |-> None, inner |-> None]

Init == /\ depth = [c \in Contexts |-> 0]
        /\ requestCount = 0
        /\ gcLevel = 0 /\ gcThread = None /\ gcRunning = FALSE /\ gcPoke = FALSE
        /\ debit = [t \in Threads |-> 0]
        /\ ownercx \in [Scopes -> Contexts]
        /\ todo = {}
        /\ sharing = [c \in Contexts |-> None]
        /\ lock = [s \in Scopes |-> None]
        /\ slotBusy = None /\ setSlotScope = None
        /\ held = [t \in Threads |-> {}]
        /\ pc = [t \in Threads |-> "run"]
        /\ call = [t \in Threads |-> NoCall]
        /\ saved = [t \in Threads |-> 0]
        /\ waits = [t \in Threads |-> "nothing"]

Goto(t, to) == pc' = [pc EXCEPT ![t] = to]

(* Context c's thread is free to make a call. *)
Runs(c) == pc[ThreadOf[c]] = "run"

At(t, p) == pc[t] = p /\ waits[t] = "nothing"

Woken(cvs) == [t \in Threads |-> IF waits[t] \in cvs THEN "nothing" ELSE waits[t]]

WaitFor(t, cv) == waits' = [waits EXCEPT ![t] = cv]

(* n requests less: the collector hears of the last one. *)
Drop(n, cvs) ==
  /\ requestCount' = requestCount - n
  /\ waits' = Woken(IF n > 0 /\ requestCount = n THEN cvs \cup {"requestDone"} ELSE cvs)

-----------------------------------------------------------------------------
(* JS_BeginRequest, and its wait while a collector is at work or waits. *)

MustWaitRunning(t) == gcThread # t /\ gcRunning

MustWait(t) == gcThread # t /\ gcLevel > 0

BeginRequest(c) ==
  LET t == ThreadOf[c] IN
  /\ Runs(c) /\ depth[c] < MaxDepth /\ held[t] = {}
  /\ IF depth[c] = 0 /\ MustWait(t)
     THEN /\ Goto(t, "begin") /\ WaitFor(t, "gcDone")
          /\ call' = [call EXCEPT ![t].cx = c]
          /\ UNCHANGED requestVars
     ELSE /\ depth' = [depth EXCEPT ![c] = @ + 1]
          /\ requestCount' = IF depth[c] = 0 THEN requestCount + 1 ELSE requestCount
          /\ UNCHANGED threadVars
  /\ UNCHANGED <<gcVars, scopeVars>>

BeginAgainOnce(t) ==
  /\ At(t, "begin")
  /\ depth' = [depth EXCEPT ![call[t].cx] = 1]
  /\ requestCount' = requestCount + 1
  /\ Goto(t, "run") /\ call' = [call EXCEPT ![t] = NoCall]
  /\ UNCHANGED <<gcVars, scopeVars, waits>>

BeginAgain(t) ==
  /\ At(t, "begin")
  /\ IF gcLevel > 0
     THEN WaitFor(t, "gcDone") /\ UNCHANGED <<requestVars, pc, call>>
     ELSE /\ depth' = [depth EXCEPT ![call[t].cx] = 1]
          /\ requestCount' = requestCount + 1
          /\ Goto(t, "run") /\ call' = [call EXCEPT ![t] = NoCall]
          /\ UNCHANGED waits
  /\ UNCHANGED <<gcVars, scopeVars>>

(* The end of an outermost request shares the scopes of the context that   *)
(* others wait for.                                                        *)
ToShareAll(shared) == todo

ToShare(shared) == todo \ shared

NewsNone(shared) == {}

News(shared) == IF shared = {} THEN {} ELSE {"scopeSharingDone"}

EndRequest(c) ==
  /\ Runs(c) /\ depth[c] > 0 /\ held[ThreadOf[c]] = {}
  /\ depth' = [depth EXCEPT ![c] = @ - 1]
  /\ IF depth[c] > 1
     THEN UNCHANGED <<requestCount, ownercx, todo, lock, waits>>
     ELSE LET shared == {s \in todo : ownercx[s] = c} IN
          /\ ownercx' = [s \in Scopes |-> IF s \in shared THEN None ELSE ownercx[s]]
          /\ lock' = [s \in Scopes |-> IF s \in shared THEN None ELSE lock[s]]
          /\ todo' = ToShare(shared)
          /\ Drop(1, News(shared))
  /\ UNCHANGED <<gcVars, sharing, slotBusy, setSlotScope, held, saved, pc, call>>

(* JS_YieldRequest leaves the lock between its two halves. *)
YieldRequest(c) ==
  LET t == ThreadOf[c] IN
  /\ Runs(c) /\ depth[c] > 0 /\ held[t] = {}
  /\ Drop(1, {})
  /\ Goto(t, "yield") /\ call' = [call EXCEPT ![t].cx = c]
  /\ UNCHANGED <<depth, gcVars, scopeVars>>

YieldEnds(t) ==
  /\ At(t, "yield")
  /\ IF MustWait(t)
     THEN WaitFor(t, "gcDone") /\ UNCHANGED <<requestVars, pc, call>>
     ELSE /\ requestCount' = requestCount + 1
          /\ Goto(t, "run") /\ call' = [call EXCEPT ![t] = NoCall]
          /\ UNCHANGED <<depth, waits>>
  /\ UNCHANGED <<gcVars, scopeVars>>

-----------------------------------------------------------------------------
(* js_GC.  gcPoke is set before the lock is taken. *)

Collect(c) ==
  /\ Runs(c) /\ held[ThreadOf[c]] = {}
  /\ gcPoke' = TRUE
  /\ Goto(ThreadOf[c], "gc")
  /\ UNCHANGED <<requestVars, gcLevel, gcThread, gcRunning, debit, scopeVars, call, waits>>

ActiveOf(t) == {c \in Contexts : ThreadOf[c] = t /\ depth[c] > 0}

(* Nobody has worked since the last collection. *)
NotPoked(t) == /\ At(t, "gc") /\ ~gcPoke
               /\ Goto(t, "run")
               /\ UNCHANGED <<requestVars, gcVars, scopeVars, call, waits>>

(* The requests of this thread do not count while it is here.  If another  *)
(* thread collects, it is told to start over and waited for.               *)
EnterGC(t) ==
  LET own == Cardinality(ActiveOf(t)) IN
  /\ At(t, "gc") /\ gcPoke
  /\ gcPoke' = FALSE
  /\ debit' = [debit EXCEPT ![t] = own]
  /\ requestCount' = requestCount - own
  /\ gcLevel' = gcLevel + 1
  /\ LET told == IF own > 0 /\ requestCount = own THEN Woken({"requestDone"}) ELSE waits IN
     IF gcLevel > 0
     THEN /\ Goto(t, "join") /\ waits' = [told EXCEPT ![t] = "gcDone"]
          /\ UNCHANGED gcThread
     ELSE /\ Goto(t, "drain") /\ waits' = told
          /\ gcThread' = t
  /\ UNCHANGED <<depth, gcRunning, scopeVars, call>>

JoinForgetsDebit(t) ==
  /\ At(t, "join") /\ gcLevel = 0
  /\ debit' = [debit EXCEPT ![t] = 0]
  /\ Goto(t, "run")
  /\ UNCHANGED <<requestVars, gcLevel, gcThread, gcRunning, gcPoke, scopeVars, call, waits>>

Join(t) ==
  /\ At(t, "join")
  /\ IF gcLevel > 0
     THEN WaitFor(t, "gcDone") /\ UNCHANGED <<requestCount, debit, pc>>
     ELSE /\ requestCount' = requestCount + debit[t]
          /\ debit' = [debit EXCEPT ![t] = 0]
          /\ Goto(t, "run")
          /\ UNCHANGED waits
  /\ UNCHANGED <<depth, gcLevel, gcThread, gcRunning, gcPoke, scopeVars, call>>

Drain(t) ==
  /\ At(t, "drain")
  /\ IF requestCount > 0
     THEN WaitFor(t, "requestDone") /\ UNCHANGED <<pc, gcRunning>>
     ELSE Goto(t, "collect") /\ gcRunning' = TRUE /\ UNCHANGED waits
  /\ UNCHANGED <<requestVars, gcLevel, gcThread, gcPoke, debit, scopeVars, call>>

(* Mark and sweep are over: again, if somebody has asked for it meanwhile. *)
Restart(t) ==
  /\ At(t, "collect") /\ (gcLevel > 1 \/ gcPoke)
  /\ gcLevel' = 1 /\ gcPoke' = FALSE
  /\ UNCHANGED <<requestVars, gcThread, gcRunning, debit, scopeVars, threadVars>>

EndGC(t) ==
  /\ At(t, "collect") /\ gcLevel = 1 /\ ~gcPoke
  /\ gcLevel' = 0 /\ gcThread' = None /\ gcRunning' = FALSE
  /\ requestCount' = requestCount + debit[t]
  /\ debit' = [debit EXCEPT ![t] = 0]
  /\ waits' = Woken({"gcDone"})
  /\ Goto(t, "run")
  /\ UNCHANGED <<depth, gcPoke, scopeVars, call>>

(* js_RemoveRoot, in a request or not, waits for a collection that runs. *)
RemoveRoot(c) ==
  LET t == ThreadOf[c] IN
  /\ Runs(c) /\ held[t] = {}
  /\ IF gcRunning
     THEN Goto(t, "root") /\ WaitFor(t, "gcDone") /\ UNCHANGED gcPoke
     ELSE gcPoke' = TRUE /\ UNCHANGED <<pc, waits>>
  /\ UNCHANGED <<requestVars, gcLevel, gcThread, gcRunning, debit, scopeVars, call>>

RemoveRootAgain(t) ==
  /\ At(t, "root")
  /\ IF gcLevel > 0
     THEN WaitFor(t, "gcDone") /\ UNCHANGED <<gcPoke, pc>>
     ELSE gcPoke' = TRUE /\ Goto(t, "run") /\ UNCHANGED waits
  /\ UNCHANGED <<requestVars, gcLevel, gcThread, gcRunning, debit, scopeVars, call>>

-----------------------------------------------------------------------------
(* A request does not count while its thread yields or is in js_GC. *)
Hidden(c) == LET t == ThreadOf[c] IN
             IF pc[t] = "yield" THEN call[t].cx = c ELSE debit[t] > 0

Counted == {c \in Contexts : depth[c] > 0 /\ ~Hidden(c)}
=============================================================================
