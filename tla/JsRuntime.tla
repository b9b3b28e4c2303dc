------------------------------ MODULE JsRuntime ------------------------------
(***************************************************************************)
(* The life of a runtime in a thread-safe build: the first context         *)
(* launches it, the last one lands it (js_NewContext and js_DestroyContext *)
(* in src/js/jscntxt.c), with the requests and the collector of Requests   *)
(* in between.  A context is created and destroyed over and over, each by  *)
(* its own thread.                                                         *)
(***************************************************************************)
EXTENDS Requests

VARIABLES state,   \* rt->state
          linked,  \* rt->contextList
          phase,   \* how far each context is in its life
          pinned   \* whether the well-known atoms are pinned

lifeVars == <<state, linked, phase, pinned>>
allVars == <<vars, lifeVars>>

LifeInit == /\ Init
            /\ state = "down"
            /\ linked = {}
            /\ phase = [c \in Contexts |-> "none"]
            /\ pinned = FALSE

Becomes(c, from, to) == phase[c] = from /\ phase' = [phase EXCEPT ![c] = to]

NewContextEarly(c) ==
  /\ Runs(c) /\ state # "landing"
  /\ Becomes(c, "none", IF state = "down" THEN "launching" ELSE "live")
  /\ linked' = linked \cup {c}
  /\ state' = IF state = "down" THEN "launching" ELSE state
  /\ UNCHANGED <<vars, pinned>>

(* js_NewContext: waits on rt->stateChange while another context launches  *)
(* or lands.                                                               *)
NewContext(c) ==
  /\ Runs(c) /\ state \in {"up", "down"}
  /\ Becomes(c, "none", IF state = "down" THEN "launching" ELSE "live")
  /\ linked' = linked \cup {c}
  /\ state' = IF state = "down" THEN "launching" ELSE state
  /\ UNCHANGED <<vars, pinned>>

LaunchBegins(c) ==
  /\ Becomes(c, "launching", "pinning")
  /\ BeginRequest(c)
  /\ UNCHANGED <<state, linked, pinned>>

(* The atoms are made, or not for want of memory. *)
Launched(c) ==
  /\ \/ Becomes(c, "pinning", "upping") /\ pinned' = TRUE
     \/ Becomes(c, "pinning", "failed") /\ pinned' \in BOOLEAN
  /\ EndRequest(c)
  /\ UNCHANGED <<state, linked>>

UpUnsaid(c) ==
  /\ Becomes(c, "upping", "live")
  /\ UNCHANGED <<vars, state, linked, pinned>>

Up(c) ==
  /\ Becomes(c, "upping", "live")
  /\ state' = "up"
  /\ UNCHANGED <<vars, linked, pinned>>

(* js_DestroyContext, called from outside or by js_NewContext that failed. *)
UnlinkStaysUp(c, from) ==
  /\ Runs(c)
  /\ Becomes(c, from, IF linked = {c} THEN "landing" ELSE "leaving")
  /\ linked' = linked \ {c}
  /\ UNCHANGED <<vars, state, pinned>>

Unlink(c, from) ==
  LET last == linked = {c} IN
  /\ Runs(c)
  /\ Becomes(c, from, IF last THEN "landing" ELSE "leaving")
  /\ linked' = linked \ {c}
  /\ state' = IF last THEN "landing" ELSE state
  /\ UNCHANGED <<vars, pinned>>

Destroy(c) == Unlink(c, "live")

(* js_InitRegExpStatics has failed, or the launch.  A context that is not  *)
(* the first and fails there is one that is destroyed at once.             *)
Abandon(c) == \E from \in {"launching", "failed"} : Unlink(c, from)

(* The request waits for a collection that runs. *)
LandBeginsAtOnce(c) ==
  /\ Becomes(c, "landing", "unpinning")
  /\ UNCHANGED <<vars, state, linked, pinned>>

LandBegins(c) ==
  /\ Becomes(c, "landing", "unpinning")
  /\ IF depth[c] = 0 THEN BeginRequest(c) ELSE UNCHANGED vars
  /\ UNCHANGED <<state, linked, pinned>>

Unpin(c) ==
  /\ Runs(c)
  /\ Becomes(c, "unpinning", "lastLeaving")
  /\ pinned' = FALSE
  /\ UNCHANGED <<vars, state, linked>>

(* js_FreeRegExpStatics removes a root. *)
FreeRegExpStatics(c) ==
  /\ \/ Becomes(c, "leaving", "ending")
     \/ Becomes(c, "lastLeaving", "lastEnding")
  /\ RemoveRoot(c)
  /\ UNCHANGED <<state, linked, pinned>>

EndRequests(c) ==
  /\ phase[c] \in {"ending", "lastEnding"}
  /\ EndRequest(c)
  /\ UNCHANGED lifeVars

(* JSDCM_FORCE_GC, or JSDCM_MAYBE_GC and the heap is large: a collection   *)
(* on the way out, unless the runtime is not up.  Else none.               *)
LeaveCollects(c) ==
  /\ depth[c] = 0
  /\ Becomes(c, "ending", "gone")
  /\ \/ IF state = "up" THEN Collect(c)
        ELSE /\ Runs(c) /\ gcPoke' = TRUE
             /\ UNCHANGED <<requestVars, gcLevel, gcThread, gcRunning, debit, scopeVars, threadVars>>
     \/ Runs(c) /\ UNCHANGED vars
  /\ UNCHANGED <<state, linked, pinned>>

FinalGC(c) ==
  /\ depth[c] = 0
  /\ Becomes(c, "lastEnding", "final")
  /\ Collect(c)
  /\ UNCHANGED <<state, linked, pinned>>

Down(c) ==
  /\ Runs(c)
  /\ Becomes(c, "final", "none")
  /\ state' = "down"
  /\ UNCHANGED <<vars, linked, pinned>>

Gone(c) == /\ Runs(c)
           /\ Becomes(c, "gone", "none")
           /\ UNCHANGED <<vars, state, linked, pinned>>

(* While it lives a context is used as in Requests. *)
Use(c) == /\ phase[c] = "live" /\ UNCHANGED lifeVars
          /\ BeginRequest(c) \/ EndRequest(c) \/ (state = "up" /\ Collect(c))

Resume(t) == /\ BeginAgain(t) \/ RemoveRootAgain(t)
             /\ UNCHANGED lifeVars

GC(t) == /\ NotPoked(t) \/ EnterGC(t) \/ Join(t) \/ Drain(t) \/ Restart(t) \/ EndGC(t)
         /\ UNCHANGED lifeVars

Launching(c) == LaunchBegins(c) \/ Launched(c) \/ Up(c) \/ Abandon(c)

Leaving(c) == \/ LandBegins(c) \/ Unpin(c) \/ FreeRegExpStatics(c) \/ EndRequests(c)
              \/ LeaveCollects(c) \/ FinalGC(c) \/ Down(c) \/ Gone(c)

LifeNext == \/ \E c \in Contexts : \/ NewContext(c) \/ Destroy(c) \/ Use(c)
                                   \/ Launching(c) \/ Leaving(c)
            \/ \E t \in Threads : Resume(t) \/ GC(t)

(* Threads run on; scripts end, and so do the uses of a context. *)
LifeFairness ==
  /\ \A c \in Contexts : /\ WF_allVars(Launching(c)) /\ WF_allVars(Leaving(c))
                         /\ SF_allVars(Use(c) /\ EndRequest(c))
  /\ \A t \in Threads : WF_allVars(Resume(t)) /\ WF_allVars(GC(t))

LifeSpec == LifeInit /\ [][LifeNext]_allVars /\ LifeFairness

-----------------------------------------------------------------------------
Phases == {"none", "launching", "pinning", "upping", "failed", "live", "landing", "unpinning",
           "lastLeaving", "lastEnding", "leaving", "ending", "final", "gone"}

Inside == {"launching", "pinning", "upping", "failed", "live"}

(* Types; and what js_NewContext and js_DestroyContext assert: the list    *)
(* is empty when the runtime is down, not when it is up, and who destroys  *)
(* a context finds the runtime up or launching.                            *)
LifeTypeOK ==
  /\ state \in {"down", "launching", "up", "landing"}
  /\ phase \in [Contexts -> Phases]
  /\ pinned \in BOOLEAN
  /\ linked = {c \in Contexts : phase[c] \in Inside}
  /\ state = "down" => linked = {}
  /\ state = "up" => linked # {}
  /\ linked # {} => state \in {"up", "launching"}

(* One context launches or lands the runtime at a time, whatever those do  *)
(* that have left the list; a context in use finds its atoms pinned.       *)
LandsAlone ==
  /\ Cardinality({c \in Contexts : phase[c] \in {"launching", "pinning", "upping", "failed", "landing",
                 "unpinning", "lastLeaving", "lastEnding", "final"}}) =
       IF state \in {"launching", "landing"} THEN 1 ELSE 0
  /\ \A c \in Contexts : phase[c] = "live" => pinned

(* js_DestroyContext begins a request so that no collector runs while it   *)
(* unpins the atoms.                                                       *)
UnpinsAlone == [][pinned /\ ~pinned' => ~gcRunning]_allVars

(* "the truly final GC": when the runtime goes down no collector is at     *)
(* work that was there before.                                             *)
FinalIsFinal == state = "down" => gcThread = None

(* Who waits for rt->stateChange waits for something that comes.           *)
Settles == state \in {"launching", "landing"} ~> state \in {"up", "down"}
=============================================================================
