------------------------------ MODULE GCMarking ------------------------------
(***************************************************************************)
(* The mark phase of js_GC (src/js/jsgc.c): recursion with the tail call   *)
(* made a loop, things whose children wait in the unscanned bag while the  *)
(* C stack is low, the bag's bits for chunk, page and arena, generators    *)
(* that are kept to be closed, and marking on behalf of the JSGC_MARK_END  *)
(* callback.  A step is one slot, one thing or one chunk.                  *)
(***************************************************************************)
EXTENDS Naturals, SequencesExt

CONSTANTS Objects,   \* things with slots; the other things are strings
          Arena,     \* of each thing, and its page in the arena and
          Page,      \* its chunk in the page (one bit of unscannedBitmap)
          Chunk,
          Graphs,    \* the heaps: of each thing, its slots or its base
          Closable,  \* the generators there may be
          Rooms,     \* calls of MarkGCThingChildren that fit the C stack
          RootThings,     \* what js_GC is to keep
          CallbackThings, \* what the JSGC_MARK_END callback may ask to keep
          None

Things == DOMAIN Arena
Arenas == {Arena[t] : t \in Things}

(* A thing is its address; a string that is not dependent has no base.     *)
ASSUME GCMarkingAssumption ==
  /\ Things \subseteq Nat /\ Objects \subseteq Things
  /\ RootThings \subseteq Things /\ CallbackThings \subseteq Things
  /\ \A gs \in Closable : gs \subseteq Things
  /\ \A k \in Graphs : /\ k \in [Things -> Seq(Things)]
                       /\ \A t \in Things \ Objects : Len(k[t]) <= 1
  /\ None \notin Things
  /\ \A a \in Arenas, ts \in SUBSET Things : None # [arena |-> a, rest |-> ts]

VARIABLES kids,      \* of a thing: its slots, or the base of a dependent string
          inFinally, \* generators that yielded inside a try with a finally
          lastContext, room, \* gckind = GC_LAST_CONTEXT, and calls that fit the C stack
          phase, todo,       \* what js_GC is at, and the things it has yet to mark there
          generators,        \* gcCloseState.reachableList
          marked, bagged,    \* GCF_MARK, and GCF_FINAL with it
          chunks, pages,     \* unscannedBitmap, unscannedPages
          stack,             \* the arenas from gcUnscannedArenaStackTop, last first
          scan,              \* the locals of ScanDelayedChildren
          frames,            \* the calls of MarkGCThingChildren
          asked              \* history: what the collector was asked to keep

heapVars == <<kids, inFinally, lastContext, room>>
bagVars == <<bagged, chunks, pages, stack>>
vars == <<heapVars, phase, todo, generators, marked, bagVars, scan, frames, asked>>

HeapToMark ==
  /\ kids \in Graphs
  /\ generators \in Closable /\ \A g \in generators : kids[g] # <<>>
  /\ inFinally \in SUBSET generators
  /\ lastContext \in BOOLEAN
  /\ room \in Rooms

MarkingStarts ==
  /\ phase = "roots" /\ todo = RootThings /\ marked = {}
  /\ bagged = {} /\ chunks = {} /\ pages = {} /\ stack = <<>>
  /\ scan = None /\ frames = <<>> /\ asked = {}

Init == HeapToMark /\ MarkingStarts
-------------------------------------------------------------------------------
ChunkOf(t) == <<Arena[t], Page[t], Chunk[t]>>
PageOf(t) == <<Arena[t], Page[t]>>
Idle == frames = <<>>
Scanning == scan # None

Call(t, check) == [thing |-> t, check |-> check, at |-> 0, pending |-> None]
Top == frames[Len(frames)]
Replace(f) == frames' = [frames EXCEPT ![Len(frames)] = f]
Return == frames' = Front(frames)

Mark(t) == marked' = marked \cup {t}

(* js_MarkGCThing, from outside of the callback.                           *)
MarkThing(t) ==
  /\ asked' = asked \cup {t}
  /\ IF t \in marked THEN UNCHANGED <<marked, frames>>
     ELSE Mark(t) /\ frames' = <<Call(t, TRUE)>>
-------------------------------------------------------------------------------
(* AddThingToUnscannedBag.  prevUnscanned is set for what is on the stack. *)
AddToBag(t) ==
  /\ bagged' = bagged \cup {t}
  /\ chunks' = chunks \cup {ChunkOf(t)}
  /\ pages' = pages \cup {PageOf(t)}
  /\ stack' = IF Arena[t] \in ToSet(stack) THEN stack ELSE Append(stack, Arena[t])

(* MarkGCThingChildren comes to a thing.                                   *)
TooDeep == Top.check /\ Len(frames) > room

BagObject ==
  /\ ~Idle /\ Top.at = 0 /\ Top.thing \in Objects /\ TooDeep
  /\ AddToBag(Top.thing) /\ Return
  /\ UNCHANGED <<heapVars, phase, todo, generators, marked, scan, asked>>

EnterObject ==
  /\ ~Idle /\ Top.at = 0 /\ Top.thing \in Objects /\ ~TooDeep
  /\ Replace([Top EXCEPT !.at = 1])
  /\ UNCHANGED <<heapVars, phase, todo, generators, marked, bagVars, scan, asked>>

EnterString ==
  /\ ~Idle /\ Top.at = 0 /\ Top.thing \notin Objects
  /\ IF ToSet(kids[Top.thing]) \subseteq marked THEN Return /\ UNCHANGED marked
     ELSE LET base == kids[Top.thing][1] IN
          Mark(base) /\ Replace(Call(base, Top.check))
  /\ UNCHANGED <<heapVars, phase, todo, generators, bagVars, scan, asked>>

(* The loop over the slots is a thing behind: it marks one when it has     *)
(* found the next.                                                         *)
InSlots == ~Idle /\ Top.at \in 1..Len(kids[Top.thing])
NextThing == kids[Top.thing][Top.at]
Passes == NextThing \in marked \cup {Top.pending}

SkipSlot ==
  /\ InSlots /\ Passes
  /\ Replace([Top EXCEPT !.at = @ + 1])
  /\ UNCHANGED <<heapVars, phase, todo, generators, marked, bagVars, scan, asked>>

HoldSlot ==
  /\ InSlots /\ ~Passes /\ Top.pending = None
  /\ Replace([Top EXCEPT !.at = @ + 1, !.pending = NextThing])
  /\ UNCHANGED <<heapVars, phase, todo, generators, marked, bagVars, scan, asked>>

(* The recursion may mark the next thing, which is looked at again.        *)
Recurse ==
  /\ InSlots /\ ~Passes /\ Top.pending # None
  /\ Mark(Top.pending)
  /\ frames' = Append([frames EXCEPT ![Len(frames)].pending = None], Call(Top.pending, TRUE))
  /\ UNCHANGED <<heapVars, phase, todo, generators, bagVars, scan, asked>>

SlotsEnd ==
  /\ ~Idle /\ Top.at > Len(kids[Top.thing])
  /\ IF Top.pending = None THEN Return /\ UNCHANGED marked
     ELSE Mark(Top.pending) /\ Replace(Call(Top.pending, FALSE))
  /\ UNCHANGED <<heapVars, phase, todo, generators, bagVars, scan, asked>>
-------------------------------------------------------------------------------
(* ScanDelayedChildren: the highest chunk of the highest page first, an    *)
(* arena after the other, and off the stack only from its top.             *)
ArenaOf(p) == p[1]
PagesIn(a) == {p \in pages : ArenaOf(p) = a}
ChunksIn(p) == {c \in chunks : <<c[1], c[2]>> = p}

ScanBegins(a) == [arena |-> a, rest |-> {}]
StartScan == scan' = IF stack = <<>> THEN None ELSE ScanBegins(Last(stack))

ScanChunk ==
  /\ Idle /\ Scanning /\ scan.rest = {} /\ PagesIn(scan.arena) # {}
  /\ LET p == <<scan.arena, Max({q[2] : q \in PagesIn(scan.arena)})>>
         c == <<p[1], p[2], Max({d[3] : d \in ChunksIn(p)})>> IN
     /\ chunks' = chunks \ {c}
     /\ pages' = IF ChunksIn(p) = {c} THEN pages \ {p} ELSE pages
     /\ scan' = [scan EXCEPT !.rest = {t \in Things : ChunkOf(t) = c}]
  /\ UNCHANGED <<heapVars, phase, todo, generators, marked, bagged, stack, frames, asked>>

ScanThing ==
  /\ Idle /\ Scanning
  /\ \E t \in scan.rest :
       /\ \A u \in scan.rest : t <= u
       /\ scan' = [scan EXCEPT !.rest = @ \ {t}]
       /\ IF t \in bagged THEN bagged' = bagged \ {t} /\ frames' = <<Call(t, FALSE)>>
          ELSE UNCHANGED <<bagged, frames>>
  /\ UNCHANGED <<heapVars, phase, todo, generators, marked, chunks, pages, stack, asked>>

ArenaScanned ==
  /\ Idle /\ Scanning /\ scan.rest = {} /\ PagesIn(scan.arena) = {}
  /\ stack' = IF scan.arena = Last(stack) THEN Front(stack) ELSE stack
  /\ scan' = IF stack' = <<>> THEN None ELSE ScanBegins(Last(stack'))
  /\ UNCHANGED <<heapVars, phase, todo, generators, marked, bagged, chunks, pages, frames, asked>>
-------------------------------------------------------------------------------
(* The order of the mark phase in js_GC.                                   *)
Free == Idle /\ ~Scanning

MarkRoot ==
  /\ Free /\ phase \in {"roots", "close"}
  /\ \E t \in todo : MarkThing(t) /\ todo' = todo \ {t}
  /\ UNCHANGED <<heapVars, phase, generators, bagVars, scan>>

RootsMarked ==
  /\ Free /\ phase = "roots" /\ todo = {}
  /\ phase' = "find" /\ StartScan
  /\ UNCHANGED <<heapVars, todo, generators, marked, bagVars, frames, asked>>

(* FindAndMarkObjectsToClose: the first slot is the parent.                *)
CanScheduleCloseHook(g) == kids[g][1] \in marked

FindObjectsToClose ==
  LET found == generators \ marked
      hooks == {g \in found \cap inFinally : CanScheduleCloseHook(g)} IN
  /\ Free /\ phase = "find"
  /\ generators' = generators \ found
  /\ todo' = IF lastContext THEN {} ELSE hooks
  /\ phase' = "close"
  /\ UNCHANGED <<heapVars, marked, bagVars, scan, frames, asked>>

ClosesMarkedUnscanned ==
  /\ Free /\ phase = "close" /\ todo = {}
  /\ phase' = "callback"
  /\ UNCHANGED <<heapVars, todo, generators, marked, bagVars, scan, frames, asked>>

ClosesMarked ==
  /\ Free /\ phase = "close" /\ todo = {}
  /\ phase' = "callback" /\ StartScan
  /\ UNCHANGED <<heapVars, todo, generators, marked, bagVars, frames, asked>>

(* js_MarkGCThing from the callback: scans what it put off before it       *)
(* returns.  The bag is empty when it begins.                              *)
MarkFromCallback ==
  /\ Free /\ phase = "callback"
  /\ \E t \in CallbackThings \ asked :
       /\ asked' = asked \cup {t}
       /\ IF t \in marked THEN UNCHANGED <<marked, frames, phase>>
          ELSE Mark(t) /\ frames' = <<Call(t, FALSE)>> /\ phase' = "inside"
  /\ UNCHANGED <<heapVars, todo, generators, bagVars, scan>>

ScanForCallback ==
  /\ Free /\ phase = "inside"
  /\ phase' = "callback" /\ StartScan
  /\ UNCHANGED <<heapVars, todo, generators, marked, bagVars, frames, asked>>

CallbackReturns ==
  /\ Free /\ phase = "callback"
  /\ phase' = "sweep"
  /\ UNCHANGED <<heapVars, todo, generators, marked, bagVars, scan, frames, asked>>

Next == \/ BagObject \/ EnterObject \/ EnterString \/ SkipSlot \/ HoldSlot \/ Recurse \/ SlotsEnd
        \/ ScanChunk \/ ScanThing \/ ArenaScanned
        \/ MarkRoot \/ RootsMarked \/ FindObjectsToClose \/ ClosesMarked
        \/ MarkFromCallback \/ ScanForCallback \/ CallbackReturns

Spec == Init /\ [][Next]_vars
-------------------------------------------------------------------------------
(* MarkGCThingChildren comes to a thing that is marked and not put off, as *)
(* its assertion and the one of AddThingToUnscannedBag say.                *)
EntersOnce == ~Idle /\ Top.at = 0 => Top.thing \in marked \ bagged

(* What is put off can be found: ScanDelayedChildren comes to its chunk,   *)
(* or is in it.                                                            *)
BagIsFound ==
  \A t \in bagged : /\ t \in marked
                    /\ \/ Scanning /\ t \in scan.rest
                       \/ ChunkOf(t) \in chunks /\ PageOf(t) \in pages
                    /\ Arena[t] \in ToSet(stack)

Closed(ts) == \A t \in ts : ToSet(kids[t]) \subseteq ts
KeptBy(ts) == {t \in Things : \A s \in SUBSET Things : ts \subseteq s /\ Closed(s) => t \in s}

(* At every return to the callback, as at the sweep, the things that are   *)
(* marked are exactly those that can be reached from what the collector    *)
(* was asked to keep, and nothing is put off, however little of the C      *)
(* stack there was (src/js/jsgc.c:2455).                                   *)
MarksReachable == Free /\ phase \in {"callback", "sweep"} => bagged = {} /\ marked = KeptBy(asked)

MarkingSound == EntersOnce /\ BagIsFound /\ MarksReachable
===============================================================================
