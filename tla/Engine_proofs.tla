-------------------------- MODULE Engine_proofs ---------------------------
(***************************************************************************)
(* What the collector marks and what it frees.  The mark phase marks       *)
(* exactly what can be reached, for every heap, every placement of its     *)
(* things in chunks, pages and arenas, every set of roots and generators,  *)
(* and however little of the C stack there is.  Then, for every number of  *)
(* arenas and of things in one: the sweep, the free list it makes and the  *)
(* things js_NewGCThing gives keep what the embedding may still use.  And  *)
(* for every size of a chunk: the local roots a collection marks are what  *)
(* the open scopes hold.  For any strings and buffers: a string keeps its  *)
(* characters.  For hash tables of every size: a search ends, with what is *)
(* in the table.  Last, the buffers through which jsmap and jsreduce reach *)
(* the engine.                                                             *)
(***************************************************************************)
EXTENDS GCMarking, GCHeap, LocalRoots, Strings, DoubleHash, ScriptBuffers, SequenceTheorems,
        FiniteSetTheorems, FunctionTheorems, WellFoundedInduction, TLAPS

Frame == [thing : Things, check : BOOLEAN, at : Nat, pending : Things \cup {None}]
Scan == [arena : Arenas, rest : SUBSET Things]

TypeOK ==
  /\ kids \in Graphs
  /\ phase \in {"roots", "find", "close", "callback", "inside", "sweep"}
  /\ todo \subseteq Things /\ generators \subseteq Things
  /\ marked \subseteq Things /\ bagged \subseteq Things /\ asked \subseteq Things
  /\ chunks \subseteq {ChunkOf(t) : t \in Things} /\ pages \subseteq {PageOf(t) : t \in Things}
  /\ stack \in Seq(Arenas)
  /\ scan \in Scan \cup {None}
  /\ frames \in Seq(Frame)

(***************************************************************************)
(* The calls fs of MarkGCThingChildren on the heap k, while ms is marked   *)
(* and bs put off: a call has marked the slots behind it, except for the   *)
(* one it holds, and only the innermost call holds one.                    *)
(***************************************************************************)
FrameSound(f, k, ms, bs) ==
  /\ f.thing \in ms \ bs
  /\ \A j \in 1 .. Len(k[f.thing]) : j < f.at => k[f.thing][j] \in ms \cup {f.pending}
  /\ f.pending # None => f.pending \in ToSet(k[f.thing]) \ ms
  /\ f.at = 0 => f.pending = None
  /\ f.thing \notin Objects => f.at = 0

CallsSound(fs, k, ms, bs) ==
  /\ \A i \in 1 .. Len(fs) :
       FrameSound(fs[i], k, ms, bs) /\ (i < Len(fs) => fs[i].pending = None)
  /\ \A i, j \in 1 .. Len(fs) : fs[i].thing = fs[j].thing => i = j

\* What is marked has its slots marked, or is put off, or is being looked at.
NothingMissed(fs, k, ms, bs) ==
  \A t \in ms \ bs : \/ ToSet(k[t]) \subseteq ms
                     \/ \E i \in 1 .. Len(fs) : fs[i].thing = t

Sound(fs, k, ms, bs) == CallsSound(fs, k, ms, bs) /\ NothingMissed(fs, k, ms, bs)

\* Nothing is marked but what must be.
MarksKept == \A s \in SUBSET Things : asked \subseteq s /\ Closed(s) => marked \subseteq s

\* A scan goes on until the stack of arenas is empty.
ScansAll ==
  /\ Scanning => stack # <<>>
  /\ phase \in {"find", "callback", "sweep"} /\ ~Scanning => Idle /\ stack = <<>>

MarkingInv ==
  /\ TypeOK
  /\ Sound(frames, kids, marked, bagged)
  /\ MarksKept /\ asked \subseteq marked
  /\ BagIsFound
  /\ ScansAll

-------------------------------------------------------------------------------
LEMMA FrontIs ==
  ASSUME NEW S, NEW s \in Seq(S), s # <<>>
  PROVE  /\ Len(s) \in Nat \ {0}
         /\ Front(s) \in Seq(S) /\ Len(Front(s)) = Len(s) - 1
         /\ \A i \in 1 .. Len(s) - 1 : Front(s)[i] = s[i]
         /\ Last(s) \in S /\ Last(s) = s[Len(s)]
<1>1. Len(s) \in Nat \ {0} /\ s \in [1 .. Len(s) -> S]
  BY EmptySeq, LenProperties
<1> QED
  BY <1>1, SubSeqProperties DEF Front, Last

LEMMA ReplacedIs ==
  ASSUME NEW S, NEW s \in Seq(S), s # <<>>, NEW e \in S
  PROVE  LET r == [s EXCEPT ![Len(s)] = e]
         IN  /\ r \in Seq(S) /\ Len(r) = Len(s)
             /\ \A i \in 1 .. Len(s) - 1 : r[i] = s[i]
             /\ r[Len(s)] = e
<1>1. Len(s) \in 1 .. Len(s) /\ Len(s) \in Nat
  BY EmptySeq, LenProperties
<1> QED
  BY <1>1, ExceptSeq, LenProperties

LEMMA SlotsAre ==
  ASSUME NEW k \in Graphs, NEW t \in Things
  PROVE  /\ k[t] \in Seq(Things) /\ Len(k[t]) \in Nat
         /\ ToSet(k[t]) = {k[t][i] : i \in 1 .. Len(k[t])}
         /\ ToSet(k[t]) \subseteq Things
<1>1. k[t] \in Seq(Things)
  BY GCMarkingAssumption
<1>2. Len(k[t]) \in Nat /\ DOMAIN k[t] = 1 .. Len(k[t]) /\ k[t] \in [1 .. Len(k[t]) -> Things]
  BY <1>1, LenProperties
<1> QED
  BY <1>1, <1>2 DEF ToSet

LEMMA CallIs ==
  ASSUME NEW u \in Things, NEW b \in BOOLEAN
  PROVE  /\ Call(u, b) \in Frame /\ Call(u, b).thing = u /\ Call(u, b).at = 0
         /\ Call(u, b).pending = None
BY DEF Call, Frame

\* A call that has just come to a marked thing.
LEMMA Begun ==
  ASSUME NEW u \in Things, NEW b \in BOOLEAN, NEW k, NEW ms, NEW bs, u \in ms \ bs
  PROVE  FrameSound(Call(u, b), k, ms, bs)
BY DEF Call, FrameSound

\* The innermost call returns, its slots marked or put off.
LEMMA Pop ==
  ASSUME NEW fs \in Seq(Frame), NEW k \in Graphs, NEW ms, NEW bs, NEW cs,
         fs # <<>>, Sound(fs, k, ms, bs),
         \/ cs = bs /\ ToSet(k[Last(fs).thing]) \subseteq ms
         \/ cs = bs \cup {Last(fs).thing}
  PROVE  Sound(Front(fs), k, ms, cs)
<1> DEFINE gs == Front(fs)
<1>1. PICK n \in Nat : n = Len(fs) /\ n # 0
  BY FrontIs
<1>2. /\ Len(gs) = n - 1 /\ \A i \in 1 .. n - 1 : gs[i] = fs[i]
      /\ Last(fs) = fs[n]
  BY <1>1, FrontIs
<1> HIDE DEF gs
<1>3. CallsSound(gs, k, ms, cs)
  <2>1. ASSUME NEW i \in 1 .. n - 1
        PROVE  FrameSound(gs[i], k, ms, cs) /\ gs[i].pending = None
    <3>1. FrameSound(fs[i], k, ms, bs) /\ fs[i].pending = None /\ fs[i].thing # fs[n].thing
      BY <1>1, <2>1 DEF Sound, CallsSound
    <3> QED
      BY <1>2, <2>1, <3>1 DEF FrameSound
  <2>2. \A i, j \in 1 .. n - 1 : gs[i].thing = gs[j].thing => i = j
    BY <1>1, <1>2 DEF Sound, CallsSound
  <2> QED
    BY <1>2, <2>1, <2>2 DEF CallsSound
<1>4. NothingMissed(gs, k, ms, cs)
  <2> SUFFICES ASSUME NEW t \in ms \ cs, ~(ToSet(k[t]) \subseteq ms)
               PROVE  \E i \in 1 .. n - 1 : gs[i].thing = t
    BY <1>2 DEF NothingMissed
  <2>1. t # fs[n].thing /\ t \in ms \ bs
    BY <1>2
  <2>2. PICK i \in 1 .. n : fs[i].thing = t
    BY <1>1, <2>1 DEF Sound, NothingMissed
  <2>3. i \in 1 .. n - 1
    BY <2>1, <2>2
  <2> QED
    BY <1>2, <2>2, <2>3
<1> QED
  BY <1>3, <1>4 DEF Sound, gs

\* The innermost call goes on.
LEMMA Step ==
  ASSUME NEW fs \in Seq(Frame), NEW k \in Graphs, NEW ms, NEW bs, NEW g \in Frame,
         fs # <<>>, Sound(fs, k, ms, bs),
         g.thing = Last(fs).thing, FrameSound(g, k, ms, bs)
  PROVE  Sound([fs EXCEPT ![Len(fs)] = g], k, ms, bs)
<1> DEFINE gs == [fs EXCEPT ![Len(fs)] = g]
<1>1. PICK n \in Nat : n = Len(fs) /\ n # 0
  BY FrontIs
<1>2. /\ Len(gs) = n /\ (\A i \in 1 .. n - 1 : gs[i] = fs[i]) /\ gs[n] = g
      /\ Last(fs) = fs[n]
  <2>1. Last(fs) = fs[n]
    BY <1>1, FrontIs
  <2>2. Len(gs) = Len(fs) /\ (\A i \in 1 .. Len(fs) - 1 : gs[i] = fs[i]) /\ gs[Len(fs)] = g
    BY ReplacedIs
  <2> QED
    BY <1>1, <2>1, <2>2
<1> HIDE DEF gs
<1>3. \A i \in 1 .. n : gs[i].thing = fs[i].thing
  BY <1>2
<1>4. \A i \in 1 .. n : FrameSound(gs[i], k, ms, bs) /\ (i < n => gs[i].pending = None)
  BY <1>1, <1>2 DEF Sound, CallsSound
<1>5. CallsSound(gs, k, ms, bs)
  BY <1>1, <1>2, <1>3, <1>4 DEF Sound, CallsSound
<1>6. NothingMissed(gs, k, ms, bs)
  BY <1>1, <1>2, <1>3 DEF Sound, NothingMissed
<1> QED
  BY <1>5, <1>6 DEF Sound, gs

\* Marking one more thing disturbs no call that holds none.
LEMMA MoreMarked ==
  ASSUME NEW f, NEW k, NEW ms, NEW bs, NEW u, FrameSound(f, k, ms, bs), f.pending = None, u # None
  PROVE  FrameSound(f, k, ms \cup {u}, bs)
BY DEF FrameSound

\* The innermost call goes on with the last of its things in its own place.
LEMMA Turn ==
  ASSUME NEW fs \in Seq(Frame), NEW k \in Graphs, NEW ms, NEW bs, NEW u \in Things \ ms,
         NEW b \in BOOLEAN,
         fs # <<>>, Sound(fs, k, ms, bs), bs \subseteq ms,
         ToSet(k[Last(fs).thing]) \subseteq ms \cup {u}
  PROVE  Sound([fs EXCEPT ![Len(fs)] = Call(u, b)], k, ms \cup {u}, bs)
<1> DEFINE gs == [fs EXCEPT ![Len(fs)] = Call(u, b)]
           ns == ms \cup {u}
<1>1. PICK n \in Nat : n = Len(fs) /\ n # 0
  BY FrontIs
<1>2. /\ Len(gs) = n /\ (\A i \in 1 .. n - 1 : gs[i] = fs[i]) /\ gs[n] = Call(u, b)
      /\ Last(fs) = fs[n]
  <2>1. Last(fs) = fs[n]
    BY <1>1, FrontIs
  <2>2. Len(gs) = Len(fs) /\ (\A i \in 1 .. Len(fs) - 1 : gs[i] = fs[i]) /\ gs[Len(fs)] = Call(u, b)
    <3>1. Call(u, b) \in Frame
      BY CallIs
    <3> QED
      BY <3>1, ReplacedIs
  <2> QED
    BY <1>1, <2>1, <2>2
<1>3. gs[n].thing = u /\ FrameSound(gs[n], k, ns, bs) /\ u # None
  BY <1>2, CallIs, Begun, GCMarkingAssumption
<1> HIDE DEF gs
<1>4. ASSUME NEW i \in 1 .. n - 1
      PROVE  FrameSound(gs[i], k, ns, bs) /\ gs[i].pending = None /\ gs[i].thing # u
  <2>1. FrameSound(fs[i], k, ms, bs) /\ fs[i].pending = None
    BY <1>1, <1>4 DEF Sound, CallsSound
  <2>2. FrameSound(fs[i], k, ns, bs) /\ fs[i].thing # u
    BY <1>3, <2>1, MoreMarked DEF FrameSound
  <2> QED
    BY <1>2, <2>1, <2>2
<1>5. CallsSound(gs, k, ns, bs)
  <2>1. ASSUME NEW i \in 1 .. n
        PROVE  FrameSound(gs[i], k, ns, bs) /\ (i < n => gs[i].pending = None)
    <3>1. CASE i = n
      BY <1>3, <3>1
    <3>2. CASE i \in 1 .. n - 1
      BY <1>4, <3>2
    <3> QED
      BY <1>1, <3>1, <3>2
  <2>2. \A i, j \in 1 .. n - 1 : gs[i].thing = gs[j].thing => i = j
    BY <1>1, <1>2 DEF Sound, CallsSound
  <2>3. \A i, j \in 1 .. n : gs[i].thing = gs[j].thing => i = j
    BY <1>1, <1>3, <1>4, <2>2
  <2> QED
    BY <1>2, <2>1, <2>3 DEF CallsSound
<1>6. NothingMissed(gs, k, ns, bs)
  <2> SUFFICES ASSUME NEW t \in ns \ bs, ~(ToSet(k[t]) \subseteq ns)
               PROVE  \E i \in 1 .. n : gs[i].thing = t
    BY <1>2 DEF NothingMissed
  <2>1. CASE t = u
    BY <1>1, <1>3, <2>1
  <2>2. CASE t # u
    <3>1. PICK i \in 1 .. n : fs[i].thing = t
      BY <1>1, <2>2 DEF Sound, NothingMissed
    <3>2. i # n
      BY <1>2, <3>1
    <3> QED
      BY <1>2, <3>1, <3>2
  <2> QED
    BY <2>1, <2>2
<1> QED
  BY <1>5, <1>6 DEF Sound, gs

\* The innermost call calls itself for the thing it holds.
LEMMA Push ==
  ASSUME NEW fs \in Seq(Frame), NEW k \in Graphs, NEW ms, NEW bs, NEW u \in Things,
         fs # <<>>, Sound(fs, k, ms, bs), bs \subseteq ms, Last(fs).pending = u
  PROVE  LET gs == Append([fs EXCEPT ![Len(fs)].pending = None], Call(u, TRUE))
         IN  gs \in Seq(Frame) /\ Sound(gs, k, ms \cup {u}, bs)
<1> DEFINE es == [fs EXCEPT ![Len(fs)].pending = None]
           gs == Append(es, Call(u, TRUE))
           ns == ms \cup {u}
           g == [fs[Len(fs)] EXCEPT !.pending = None]
<1>1. PICK n \in Nat : n = Len(fs) /\ n # 0
  BY FrontIs
<1>2. Last(fs) = fs[n] /\ fs[n] \in Frame
  BY <1>1, FrontIs
<1>3. /\ g \in Frame /\ g.thing = fs[n].thing /\ g.at = fs[n].at /\ g.pending = None
  BY <1>1, <1>2 DEF Frame
<1>4. /\ es \in Seq(Frame) /\ Len(es) = n
      /\ \A i \in 1 .. n - 1 : es[i] = fs[i]
      /\ es[n] = g
  <2>1. es = [fs EXCEPT ![Len(fs)] = g]
    OBVIOUS
  <2> QED
    BY <1>1, <1>3, <2>1, ReplacedIs
<1> HIDE DEF es, g
<1>5. /\ gs \in Seq(Frame) /\ Len(gs) = n + 1
      /\ \A i \in 1 .. n : gs[i] = es[i]
      /\ gs[n + 1] = Call(u, TRUE)
  <2>1. Call(u, TRUE) \in Frame
    BY CallIs
  <2>2. /\ gs \in Seq(Frame) /\ Len(gs) = Len(es) + 1
        /\ \A i \in 1 .. Len(es) : gs[i] = es[i]
        /\ gs[Len(es) + 1] = Call(u, TRUE)
    <3> DEFINE e == Call(u, TRUE)
    <3>1. es \in Seq(Frame) /\ e \in Frame
      BY <1>4, <2>1
    <3> HIDE DEF e
    <3>2. /\ Append(es, e) \in Seq(Frame) /\ Len(Append(es, e)) = Len(es) + 1
          /\ \A i \in 1 .. Len(es) : Append(es, e)[i] = es[i]
          /\ Append(es, e)[Len(es) + 1] = e
      BY <3>1, AppendProperties
    <3> QED
      BY <3>2 DEF e
  <2> QED
    BY <1>4, <2>2
<1> HIDE DEF gs
<1>6. u \notin ms /\ u # None
  BY <1>1, <1>2, GCMarkingAssumption DEF Sound, CallsSound, FrameSound
<1>7. gs[n + 1].thing = u /\ FrameSound(gs[n + 1], k, ns, bs)
  BY <1>5, <1>6, CallIs, Begun
<1>8. ASSUME NEW i \in 1 .. n
      PROVE  FrameSound(gs[i], k, ns, bs) /\ gs[i].pending = None /\ gs[i].thing = fs[i].thing
  <2>1. FrameSound(fs[i], k, ms, bs) /\ (i < n => fs[i].pending = None)
    BY <1>1, <1>8 DEF Sound, CallsSound
  <2>2. CASE i < n
    <3>1. gs[i] = fs[i]
      BY <1>4, <1>5, <2>2
    <3> QED
      BY <1>6, <2>1, <2>2, <3>1, MoreMarked
  <2>3. CASE i = n
    <3>1. gs[i] = g /\ fs[i].pending = u
      BY <1>2, <1>4, <1>5, <2>3
    <3>2. FrameSound(g, k, ns, bs)
      BY <1>3, <1>6, <2>1, <2>3, <3>1 DEF FrameSound
    <3> QED
      BY <1>3, <2>3, <3>1, <3>2
  <2> QED
    BY <2>2, <2>3
<1>9. CallsSound(gs, k, ns, bs)
  <2>1. ASSUME NEW i \in 1 .. n + 1
        PROVE  FrameSound(gs[i], k, ns, bs) /\ (i < n + 1 => gs[i].pending = None)
    <3>1. CASE i = n + 1
      BY <1>7, <3>1
    <3>2. CASE i \in 1 .. n
      BY <1>8, <3>2
    <3> QED
      BY <1>1, <3>1, <3>2
  <2>2. \A i \in 1 .. n : gs[i].thing # u
    BY <1>1, <1>6, <1>8 DEF Sound, CallsSound, FrameSound
  <2>3. \A i, j \in 1 .. n : gs[i].thing = gs[j].thing => i = j
    BY <1>1, <1>8 DEF Sound, CallsSound
  <2>4. \A i, j \in 1 .. n + 1 : gs[i].thing = gs[j].thing => i = j
    BY <1>7, <2>2, <2>3
  <2> QED
    BY <1>5, <2>1, <2>4 DEF CallsSound
<1>10. NothingMissed(gs, k, ns, bs)
  <2> SUFFICES ASSUME NEW t \in ns \ bs, ~(ToSet(k[t]) \subseteq ns)
               PROVE  \E i \in 1 .. n + 1 : gs[i].thing = t
    BY <1>5 DEF NothingMissed
  <2>1. CASE t = u
    BY <1>1, <1>7, <2>1
  <2>2. CASE t # u
    <3>1. PICK i \in 1 .. n : fs[i].thing = t
      BY <1>1, <2>2 DEF Sound, NothingMissed
    <3> QED
      BY <1>1, <1>8, <3>1
  <2> QED
    BY <2>1, <2>2
<1> QED
  BY <1>5, <1>9, <1>10 DEF Sound, gs, es

\* A call from outside, for a thing that gets marked or was put off.
LEMMA Enter ==
  ASSUME NEW k \in Graphs, NEW ms, NEW bs, NEW u \in Things, NEW b \in BOOLEAN, NEW ns, NEW cs,
         Sound(<<>>, k, ms, bs),
         \/ u \notin ms /\ ns = ms \cup {u} /\ cs = bs /\ bs \subseteq ms
         \/ u \in bs /\ u \in ms /\ ns = ms /\ cs = bs \ {u}
  PROVE  <<Call(u, b)>> \in Seq(Frame) /\ Sound(<<Call(u, b)>>, k, ns, cs)
<1> DEFINE gs == <<Call(u, b)>>
<1>1. Call(u, b) \in Frame /\ Call(u, b).thing = u /\ Call(u, b).pending = None
  BY CallIs
<1>2. gs \in Seq(Frame) /\ Len(gs) = 1 /\ gs[1] = Call(u, b)
  BY <1>1
<1>3. FrameSound(gs[1], k, ns, cs)
  BY <1>2, Begun
<1> HIDE DEF gs
<1>4. CallsSound(gs, k, ns, cs)
  BY <1>2, <1>3 DEF CallsSound
<1>5. NothingMissed(gs, k, ns, cs)
  <2> SUFFICES ASSUME NEW t \in ns \ cs, t # u PROVE ToSet(k[t]) \subseteq ns
    BY <1>1, <1>2 DEF NothingMissed
  <2>1. t \in ms \ bs
    OBVIOUS
  <2>2. ToSet(k[t]) \subseteq ms
    BY <2>1, EmptySeq DEF Sound, NothingMissed
  <2> QED
    BY <2>2
<1> QED
  BY <1>2, <1>4, <1>5 DEF Sound, gs

-------------------------------------------------------------------------------
LEMMA ToSetAppend ==
  ASSUME NEW S, NEW s \in Seq(S), NEW e \in S
  PROVE  Append(s, e) \in Seq(S) /\ ToSet(Append(s, e)) = ToSet(s) \cup {e}
<1> DEFINE r == Append(s, e)
<1>1. /\ r \in Seq(S) /\ Len(r) = Len(s) + 1
      /\ \A i \in 1 .. Len(s) : r[i] = s[i]
      /\ r[Len(s) + 1] = e
  BY AppendProperties
<1>2. Len(s) \in Nat /\ DOMAIN s = 1 .. Len(s) /\ DOMAIN r = 1 .. Len(s) + 1
  BY <1>1, LenProperties
<1> HIDE DEF r
<1>3. ToSet(r) = ToSet(s) \cup {e}
  BY <1>1, <1>2 DEF ToSet
<1> QED
  BY <1>1, <1>3 DEF r

LEMMA ToSetFront ==
  ASSUME NEW S, NEW s \in Seq(S), s # <<>>
  PROVE  ToSet(s) \subseteq ToSet(Front(s)) \cup {Last(s)}
<1>1. PICK n \in Nat : n = Len(s) /\ n # 0
  BY FrontIs
<1>2. /\ Front(s) \in Seq(S) /\ Len(Front(s)) = n - 1
      /\ \A i \in 1 .. n - 1 : Front(s)[i] = s[i]
      /\ Last(s) = s[n]
  BY <1>1, FrontIs
<1>3. DOMAIN s = 1 .. n /\ DOMAIN Front(s) = 1 .. n - 1
  BY <1>1, <1>2, LenProperties
<1>4. ASSUME NEW i \in 1 .. n PROVE s[i] \in ToSet(Front(s)) \cup {Last(s)}
  <2>1. i = n \/ i \in 1 .. n - 1
    BY <1>1
  <2> QED
    BY <1>2, <1>3, <2>1 DEF ToSet
<1> QED
  BY <1>3, <1>4 DEF ToSet

LEMMA Innermost ==
  ASSUME MarkingInv, ~Idle
  PROVE  /\ Top \in Frame /\ Top = Last(frames) /\ frames # <<>>
         /\ FrameSound(Top, kids, marked, bagged)
         /\ Top.thing \in Things /\ Top.check \in BOOLEAN /\ Top.at \in Nat
         /\ Top.pending \in Things \cup {None}
<1>1. frames \in Seq(Frame) /\ frames # <<>> /\ Sound(frames, kids, marked, bagged)
  BY DEF MarkingInv, TypeOK, Idle
<1>2. Last(frames) = frames[Len(frames)] /\ Last(frames) \in Frame /\ Len(frames) \in Nat \ {0}
  BY <1>1, FrontIs
<1>3. FrameSound(Top, kids, marked, bagged)
  BY <1>1, <1>2 DEF Sound, CallsSound, Top
<1> QED
  BY <1>1, <1>2, <1>3 DEF Top, Frame

\* What a call may still mark can be reached from what is marked.
LEMMA Reachable ==
  ASSUME MarkingInv, ~Idle, NEW u, u \in ToSet(kids[Top.thing])
  PROVE  u \in UNION {ToSet(kids[t]) : t \in marked}
BY Innermost DEF FrameSound

LEMMA MarksNext ==
  ASSUME MarkingInv, kids' = kids, asked \subseteq asked', asked' \subseteq marked',
         marked' \subseteq marked \cup asked' \cup UNION {ToSet(kids[t]) : t \in marked}
  PROVE  MarksKept'
<1> SUFFICES ASSUME NEW s \in SUBSET Things, asked' \subseteq s,
                    \A t \in s : ToSet(kids[t]) \subseteq s
             PROVE  marked' \subseteq s
  BY DEF MarksKept, Closed
<1>1. marked \subseteq s
  BY DEF MarkingInv, MarksKept, Closed
<1>2. UNION {ToSet(kids[t]) : t \in marked} \subseteq s
  BY <1>1
<1> QED
  BY <1>1, <1>2

LEMMA KeptNext == MarkingInv /\ [Next]_vars => MarksKept' /\ asked' \subseteq marked'
<1> SUFFICES ASSUME MarkingInv, [Next]_vars PROVE MarksKept' /\ asked' \subseteq marked'
  OBVIOUS
<1>1. asked \subseteq marked /\ kids' = kids
  BY DEF MarkingInv, vars, heapVars, Next, BagObject, EnterObject, EnterString, SkipSlot, HoldSlot,
         Recurse, SlotsEnd, ScanChunk, ScanThing, ArenaScanned, MarkRoot, RootsMarked,
         FindObjectsToClose, ClosesMarked, MarkFromCallback, ScanForCallback, CallbackReturns
<1>2. ASSUME UNCHANGED <<asked, marked>> PROVE MarksKept' /\ asked' \subseteq marked'
  BY <1>1, <1>2, MarksNext
<1>3. CASE \/ BagObject \/ EnterObject \/ SkipSlot \/ HoldSlot \/ ScanChunk \/ ScanThing
           \/ ArenaScanned \/ RootsMarked \/ FindObjectsToClose \/ ClosesMarked
           \/ ScanForCallback \/ CallbackReturns \/ UNCHANGED vars
  <2>1. UNCHANGED <<asked, marked>>
    BY <1>3 DEF vars, BagObject, EnterObject, SkipSlot, HoldSlot, ScanChunk, ScanThing,
       ArenaScanned, RootsMarked, FindObjectsToClose, ClosesMarked, ScanForCallback, CallbackReturns
  <2> QED
    BY <1>2, <2>1
<1>4. ASSUME NEW u \in ToSet(kids[Top.thing]), ~Idle, marked' = marked \cup {u}, asked' = asked
      PROVE  MarksKept' /\ asked' \subseteq marked'
  <2>1. u \in UNION {ToSet(kids[t]) : t \in marked}
    BY <1>4, Reachable
  <2>2. marked' \subseteq marked \cup asked' \cup UNION {ToSet(kids[t]) : t \in marked}
    BY <1>4, <2>1
  <2> QED
    BY <1>1, <1>4, <2>2, MarksNext
<1>5. CASE EnterString
  <2>1. CASE ToSet(kids[Top.thing]) \subseteq marked
    <3>1. UNCHANGED <<asked, marked>>
      BY <1>5, <2>1 DEF EnterString
    <3> QED
      BY <1>2, <3>1
  <2>2. CASE ~(ToSet(kids[Top.thing]) \subseteq marked)
    <3>1. /\ ~Idle /\ asked' = asked /\ marked' = marked \cup {kids[Top.thing][1]}
      BY <1>5, <2>2 DEF EnterString, Mark
    <3>2. kids[Top.thing][1] \in ToSet(kids[Top.thing])
      <4>1. kids \in Graphs /\ Top.thing \in Things
        BY <3>1, Innermost DEF MarkingInv, TypeOK
      <4>2. /\ Len(kids[Top.thing]) \in Nat
            /\ ToSet(kids[Top.thing]) = {kids[Top.thing][i] : i \in 1 .. Len(kids[Top.thing])}
        BY <4>1, SlotsAre
      <4>3. Len(kids[Top.thing]) # 0
        BY <2>2, <4>2
      <4> QED
        BY <4>2, <4>3
    <3> QED
      BY <1>4, <3>1, <3>2
  <2> QED
    BY <2>1, <2>2
<1>6. CASE Recurse \/ SlotsEnd
  <2>1. ~Idle /\ asked' = asked
    BY <1>6 DEF Recurse, SlotsEnd, InSlots
  <2>2. CASE Top.pending = None
    <3>1. UNCHANGED <<asked, marked>>
      BY <1>6, <2>2 DEF Recurse, SlotsEnd
    <3> QED
      BY <1>2, <3>1
  <2>3. CASE Top.pending # None
    <3>1. marked' = marked \cup {Top.pending}
      BY <1>6, <2>3 DEF Recurse, SlotsEnd, Mark
    <3>2. Top.pending \in ToSet(kids[Top.thing])
      BY <2>1, <2>3, Innermost DEF FrameSound
    <3> QED
      BY <1>4, <2>1, <3>1, <3>2
  <2> QED
    BY <2>2, <2>3
<1>7. CASE MarkRoot \/ MarkFromCallback
  <2>1. PICK t : asked' = asked \cup {t} /\ marked' = marked \cup {t}
    BY <1>7 DEF MarkRoot, MarkFromCallback, MarkThing, Mark
  <2> QED
    BY <1>1, <2>1, MarksNext
<1> QED
  BY <1>3, <1>5, <1>6, <1>7 DEF Next

\* The calls of MarkGCThingChildren, through every way they call, turn and
\* return.
LEMMA CallsNext ==
  MarkingInv /\ [Next]_vars =>
    frames' \in Seq(Frame) /\ Sound(frames', kids', marked', bagged')
<1> SUFFICES ASSUME MarkingInv, [Next]_vars
             PROVE  frames' \in Seq(Frame) /\ Sound(frames', kids', marked', bagged')
  OBVIOUS
<1>1. /\ frames \in Seq(Frame) /\ kids \in Graphs /\ Sound(frames, kids, marked, bagged)
      /\ bagged \subseteq marked /\ marked \subseteq Things /\ None \notin Things
  BY GCMarkingAssumption DEF MarkingInv, TypeOK, BagIsFound
<1>2. kids' = kids
  BY DEF vars, heapVars, Next, BagObject, EnterObject, EnterString, SkipSlot, HoldSlot,
         Recurse, SlotsEnd, ScanChunk, ScanThing, ArenaScanned, MarkRoot, RootsMarked,
         FindObjectsToClose, ClosesMarked, MarkFromCallback, ScanForCallback, CallbackReturns
<1>3. ASSUME UNCHANGED <<frames, marked, bagged>>
      PROVE  frames' \in Seq(Frame) /\ Sound(frames', kids', marked', bagged')
  BY <1>1, <1>2, <1>3
<1>4. ASSUME ~Idle
      PROVE  /\ Top \in Frame /\ Top = Last(frames) /\ frames # <<>>
             /\ FrameSound(Top, kids, marked, bagged)
             /\ Top.thing \in Things /\ Top.check \in BOOLEAN /\ Top.at \in Nat
             /\ kids[Top.thing] \in Seq(Things) /\ Len(kids[Top.thing]) \in Nat
             /\ ToSet(kids[Top.thing]) = {kids[Top.thing][j] : j \in 1 .. Len(kids[Top.thing])}
             /\ ToSet(kids[Top.thing]) \subseteq Things
  BY <1>1, <1>4, Innermost, SlotsAre
<1>5. ASSUME ~Idle, Return, marked' = marked,
             \/ bagged' = bagged /\ ToSet(kids[Top.thing]) \subseteq marked
             \/ bagged' = bagged \cup {Top.thing}
      PROVE  frames' \in Seq(Frame) /\ Sound(frames', kids', marked', bagged')
  <2>1. frames' = Front(frames) /\ frames # <<>> /\ Top = Last(frames)
    BY <1>4, <1>5 DEF Return
  <2>2. frames' \in Seq(Frame)
    BY <1>1, <2>1, FrontIs
  <2>3. Sound(Front(frames), kids, marked, bagged')
    BY <1>1, <1>5, <2>1, Pop
  <2> QED
    BY <1>2, <1>5, <2>1, <2>2, <2>3
<1>6. ASSUME ~Idle, NEW g \in Frame, Replace(g), g.thing = Top.thing,
             FrameSound(g, kids, marked, bagged), UNCHANGED <<marked, bagged>>
      PROVE  frames' \in Seq(Frame) /\ Sound(frames', kids', marked', bagged')
  <2>1. /\ frames' = [frames EXCEPT ![Len(frames)] = g] /\ frames # <<>>
        /\ g.thing = Last(frames).thing
    BY <1>4, <1>6 DEF Replace
  <2>2. frames' \in Seq(Frame)
    BY <1>1, <2>1, ReplacedIs
  <2>3. Sound([frames EXCEPT ![Len(frames)] = g], kids, marked, bagged)
    BY <1>1, <1>6, <2>1, Step
  <2> QED
    BY <1>2, <1>6, <2>1, <2>2, <2>3
<1>7. ASSUME ~Idle, NEW u \in Things \ marked, NEW b \in BOOLEAN, Replace(Call(u, b)), Mark(u),
             ToSet(kids[Top.thing]) \subseteq marked \cup {u}, bagged' = bagged
      PROVE  frames' \in Seq(Frame) /\ Sound(frames', kids', marked', bagged')
  <2>1. /\ frames' = [frames EXCEPT ![Len(frames)] = Call(u, b)] /\ frames # <<>>
        /\ Top = Last(frames) /\ Call(u, b) \in Frame
    BY <1>4, <1>7, CallIs DEF Replace
  <2>2. frames' \in Seq(Frame)
    BY <1>1, <2>1, ReplacedIs
  <2>3. Sound([frames EXCEPT ![Len(frames)] = Call(u, b)], kids, marked \cup {u}, bagged)
    BY <1>1, <1>7, <2>1, Turn
  <2> QED
    BY <1>2, <1>7, <2>1, <2>2, <2>3 DEF Mark
<1>8. CASE BagObject
  BY <1>5, <1>8 DEF BagObject, AddToBag
<1>9. CASE EnterObject
  <2> DEFINE g == [Top EXCEPT !.at = 1]
  <2>1. ~Idle /\ Top.at = 0 /\ Top.thing \in Objects /\ Replace(g) /\ UNCHANGED <<marked, bagged>>
    BY <1>9 DEF EnterObject, bagVars
  <2>2. /\ g \in Frame /\ g.thing = Top.thing /\ g.at = 1 /\ g.pending = Top.pending
    BY <1>4, <2>1 DEF Frame
  <2> HIDE DEF g
  <2>3. FrameSound(g, kids, marked, bagged)
    BY <1>4, <2>1, <2>2 DEF FrameSound
  <2> QED
    BY <1>6, <2>1, <2>2, <2>3
<1>10. CASE EnterString
  <2>1. ~Idle /\ bagged' = bagged /\ Top.thing \notin Objects
    BY <1>10 DEF EnterString, bagVars
  <2>2. CASE ToSet(kids[Top.thing]) \subseteq marked
    BY <1>5, <1>10, <2>1, <2>2 DEF EnterString
  <2>3. CASE ~(ToSet(kids[Top.thing]) \subseteq marked)
    <3> DEFINE base == kids[Top.thing][1]
    <3>1. Mark(base) /\ Replace(Call(base, Top.check))
      BY <1>10, <2>3 DEF EnterString
    <3>2. Len(kids[Top.thing]) <= 1
      BY <1>1, <1>4, <2>1, GCMarkingAssumption
    <3>3. Len(kids[Top.thing]) = 1
      <4>1. PICK l \in Nat : l = Len(kids[Top.thing])
        BY <1>4, <2>1
      <4>2. l # 0
        <5>1. CASE l = 0
          <6>1. ToSet(kids[Top.thing]) = {kids[Top.thing][j] : j \in 1 .. 0}
            BY <1>4, <2>1, <4>1, <5>1
          <6> QED
            BY <2>3, <6>1
        <5> QED
          BY <5>1
      <4>3. l <= 1
        BY <3>2, <4>1
      <4>4. l = 1
        BY <4>2, <4>3
      <4> QED
        BY <4>1, <4>4
    <3>4. ToSet(kids[Top.thing]) = {base}
      BY <1>4, <2>1, <3>3
    <3>5. base \in Things \ marked /\ Top.check \in BOOLEAN
      BY <1>4, <2>1, <2>3, <3>4
    <3> HIDE DEF base
    <3> QED
      BY <1>7, <2>1, <3>1, <3>4, <3>5
  <2> QED
    BY <2>2, <2>3
<1>11. CASE SkipSlot \/ HoldSlot
  <2> DEFINE g == IF SkipSlot THEN [Top EXCEPT !.at = @ + 1]
                  ELSE [Top EXCEPT !.at = @ + 1, !.pending = NextThing]
  <2>1. /\ ~Idle /\ Top.at \in 1 .. Len(kids[Top.thing]) /\ Replace(g)
        /\ UNCHANGED <<marked, bagged>>
    BY <1>11 DEF SkipSlot, HoldSlot, InSlots, bagVars
  <2>2. NextThing = kids[Top.thing][Top.at] /\ NextThing \in ToSet(kids[Top.thing])
    BY <1>4, <2>1 DEF NextThing
  <2>3. /\ g \in Frame /\ g.thing = Top.thing /\ g.at = Top.at + 1
        /\ g.pending = IF SkipSlot THEN Top.pending ELSE NextThing
    <3>1. CASE SkipSlot
      BY <1>4, <2>1, <3>1 DEF Frame
    <3>2. CASE ~SkipSlot
      <4>1. NextThing \in Things \cup {None}
        BY <1>4, <2>1, <2>2
      <4>2. Top.at + 1 \in Nat
        BY <1>4, <2>1
      <4> QED
        BY <1>4, <2>1, <3>2, <4>1, <4>2 DEF Frame
    <3> QED
      BY <3>1, <3>2
  <2>4. IF SkipSlot THEN NextThing \in marked \cup {Top.pending}
        ELSE NextThing \notin marked /\ Top.pending = None
    BY <1>11 DEF SkipSlot, HoldSlot, Passes
  <2> HIDE DEF g
  <2>5. FrameSound(Top, kids, marked, bagged) /\ Top.at \in Nat /\ Top.thing \in Objects
    BY <1>4, <2>1 DEF FrameSound
  <2>6. ASSUME NEW j \in 1 .. Len(kids[g.thing]), j < g.at
        PROVE  kids[g.thing][j] \in marked \cup {g.pending}
    <3>1. CASE j < Top.at
      <4>1. kids[Top.thing][j] \in marked \cup {Top.pending}
        BY <2>3, <2>5, <2>6, <3>1 DEF FrameSound
      <4>2. kids[Top.thing][j] \in Things
        BY <1>4, <2>1, <2>3, <2>6
      <4> QED
        BY <1>1, <2>3, <2>4, <4>1, <4>2
    <3>2. CASE j = Top.at
      BY <2>2, <2>3, <2>4, <3>2
    <3> QED
      BY <1>4, <2>1, <2>3, <2>6, <3>1, <3>2
  <2>7. FrameSound(g, kids, marked, bagged)
    BY <2>2, <2>3, <2>4, <2>5, <2>6 DEF FrameSound
  <2> QED
    BY <1>6, <2>1, <2>3, <2>7
<1>12. CASE Recurse
  <2> DEFINE u == Top.pending
  <2>1. /\ ~Idle /\ u # None /\ marked' = marked \cup {u} /\ bagged' = bagged
        /\ frames' = Append([frames EXCEPT ![Len(frames)].pending = None], Call(u, TRUE))
    BY <1>12 DEF Recurse, InSlots, Mark, bagVars
  <2>2. u \in Things /\ Last(frames).pending = u /\ frames # <<>>
    BY <1>4, <2>1 DEF Frame
  <2> HIDE DEF u
  <2>3. LET gs == Append([frames EXCEPT ![Len(frames)].pending = None], Call(u, TRUE))
        IN  gs \in Seq(Frame) /\ Sound(gs, kids, marked \cup {u}, bagged)
    BY <1>1, <2>2, Push
  <2> QED
    BY <1>2, <2>1, <2>3
<1>13. CASE SlotsEnd
  <2>1. ~Idle /\ Top.at > Len(kids[Top.thing]) /\ bagged' = bagged
    BY <1>13 DEF SlotsEnd, bagVars
  <2>2. ToSet(kids[Top.thing]) \subseteq marked \cup {Top.pending}
    <3>1. ASSUME NEW j \in 1 .. Len(kids[Top.thing])
          PROVE  kids[Top.thing][j] \in marked \cup {Top.pending}
      BY <1>4, <2>1, <3>1 DEF FrameSound
    <3> QED
      BY <1>4, <2>1, <3>1
  <2>3. CASE Top.pending = None
    <3>1. ToSet(kids[Top.thing]) \subseteq marked
      BY <1>1, <1>4, <2>1, <2>2, <2>3
    <3> QED
      BY <1>5, <1>13, <2>1, <2>3, <3>1 DEF SlotsEnd
  <2>4. CASE Top.pending # None
    <3>1. Top.pending \in Things \ marked
      BY <1>4, <2>1, <2>4 DEF FrameSound
    <3> QED
      BY <1>7, <1>13, <2>1, <2>2, <2>4, <3>1 DEF SlotsEnd
  <2> QED
    BY <2>3, <2>4
<1>14. ASSUME Idle, NEW u \in Things, NEW b \in BOOLEAN, frames' = <<Call(u, b)>>,
              \/ u \notin marked /\ marked' = marked \cup {u} /\ bagged' = bagged
              \/ u \in bagged /\ marked' = marked /\ bagged' = bagged \ {u}
       PROVE  frames' \in Seq(Frame) /\ Sound(frames', kids', marked', bagged')
  <2>1. Sound(<<>>, kids, marked, bagged)
    BY <1>1, <1>14 DEF Idle
  <2>2. <<Call(u, b)>> \in Seq(Frame) /\ Sound(<<Call(u, b)>>, kids, marked', bagged')
    BY <1>1, <1>14, <2>1, Enter
  <2> QED
    BY <1>2, <1>14, <2>2
<1>15. CASE ScanThing
  <2>1. PICK t \in scan.rest :
          /\ Idle /\ Scanning /\ marked' = marked
          /\ IF t \in bagged THEN bagged' = bagged \ {t} /\ frames' = <<Call(t, FALSE)>>
             ELSE UNCHANGED <<bagged, frames>>
    BY <1>15 DEF ScanThing
  <2>2. t \in Things
    BY <2>1 DEF MarkingInv, TypeOK, Scan, Scanning
  <2> QED
    BY <1>3, <1>14, <2>1, <2>2
<1>16. CASE MarkRoot \/ MarkFromCallback
  <2>1. PICK t \in todo \cup CallbackThings, b \in BOOLEAN :
          /\ Idle /\ bagged' = bagged
          /\ IF t \in marked THEN UNCHANGED <<marked, frames>>
             ELSE marked' = marked \cup {t} /\ frames' = <<Call(t, b)>>
    BY <1>16 DEF MarkRoot, MarkFromCallback, MarkThing, Mark, Free, bagVars
  <2>2. t \in Things
    BY GCMarkingAssumption DEF MarkingInv, TypeOK
  <2> QED
    BY <1>3, <1>14, <2>1, <2>2
<1>17. CASE \/ ScanChunk \/ ArenaScanned \/ RootsMarked \/ FindObjectsToClose \/ ClosesMarked
            \/ ScanForCallback \/ CallbackReturns \/ UNCHANGED vars
  BY <1>3, <1>17 DEF vars, bagVars, ScanChunk, ArenaScanned, RootsMarked, FindObjectsToClose,
     ClosesMarked, ScanForCallback, CallbackReturns
<1> QED
  BY <1>8, <1>9, <1>10, <1>11, <1>12, <1>13, <1>15, <1>16, <1>17 DEF Next

-------------------------------------------------------------------------------
LEMMA ScanIs ==
  /\ None \notin Scan
  /\ \A a \in Arenas : ScanBegins(a) \in Scan /\ ScanBegins(a).rest = {}
<1>1. ASSUME NEW x \in Scan PROVE x # None
  <2>1. x = [arena |-> x.arena, rest |-> x.rest] /\ x.arena \in Arenas /\ x.rest \in SUBSET Things
    BY DEF Scan
  <2> QED
    BY <2>1, GCMarkingAssumption
<1> QED
  BY <1>1 DEF Scan, ScanBegins

\* ScanDelayedChildren begins with the arena on top, if there is one.
LEMMA ScanStarts ==
  ASSUME MarkingInv, StartScan
  PROVE  scan' \in Scan \cup {None} /\ (scan' # None <=> stack # <<>>)
<1>1. stack # <<>> => Last(stack) \in Arenas
  BY FrontIs DEF MarkingInv, TypeOK
<1> QED
  BY <1>1, ScanIs DEF StartScan

LEMMA TypesNext == MarkingInv /\ [Next]_vars => TypeOK'
<1> SUFFICES ASSUME MarkingInv, [Next]_vars PROVE TypeOK'
  OBVIOUS
<1>1. TypeOK /\ frames' \in Seq(Frame)
  BY CallsNext DEF MarkingInv
<1>2. ASSUME ~Idle
      PROVE  /\ Top.thing \in Things /\ ToSet(kids[Top.thing]) \subseteq Things
             /\ kids[Top.thing] \in Seq(Things)
             /\ Top.pending \in Things \cup {None}
  BY <1>1, <1>2, Innermost, SlotsAre DEF TypeOK
<1>3. CASE BagObject
  <2>1. /\ ~Idle /\ bagged' = bagged \cup {Top.thing}
        /\ chunks' = chunks \cup {ChunkOf(Top.thing)} /\ pages' = pages \cup {PageOf(Top.thing)}
        /\ stack' = stack \/ stack' = Append(stack, Arena[Top.thing])
        /\ UNCHANGED <<kids, phase, todo, generators, marked, scan, asked>>
    BY <1>3 DEF BagObject, AddToBag, heapVars
  <2>2. stack' \in Seq(Arenas)
    <3>1. stack \in Seq(Arenas) /\ Arena[Top.thing] \in Arenas
      BY <1>1, <1>2, <2>1 DEF TypeOK, Arenas
    <3>2. Append(stack, Arena[Top.thing]) \in Seq(Arenas)
      BY <3>1, AppendProperties
    <3> QED
      BY <2>1, <3>1, <3>2
  <2> QED
    BY <1>1, <1>2, <2>1, <2>2 DEF TypeOK, ChunkOf, PageOf
<1>4. CASE EnterString \/ Recurse \/ SlotsEnd
  <2>1. /\ ~Idle
        /\ UNCHANGED <<kids, phase, todo, generators, bagVars, scan, asked>>
    BY <1>4 DEF EnterString, Recurse, SlotsEnd, InSlots, heapVars
  <2>2. marked' \subseteq Things
    <3>1. CASE EnterString
      <4>1. CASE ToSet(kids[Top.thing]) \subseteq marked
        BY <1>1, <3>1, <4>1 DEF EnterString, TypeOK
      <4>2. CASE ~(ToSet(kids[Top.thing]) \subseteq marked)
        <5>1. kids[Top.thing] # <<>>
          BY <4>2, EmptySeq DEF ToSet
        <5>2. kids[Top.thing][1] \in Things
          BY <1>2, <2>1, <5>1, EmptySeq, ElementOfSeq
        <5> QED
          BY <1>1, <3>1, <4>2, <5>2 DEF EnterString, Mark, TypeOK
      <4> QED
        BY <4>1, <4>2
    <3>2. CASE Recurse \/ SlotsEnd
      BY <1>1, <1>2, <2>1, <3>2 DEF Recurse, SlotsEnd, Mark, TypeOK
    <3> QED
      BY <1>4, <3>1, <3>2
  <2> QED
    BY <1>1, <2>1, <2>2 DEF TypeOK, bagVars, ChunkOf, PageOf
<1>5. CASE EnterObject \/ SkipSlot \/ HoldSlot \/ CallbackReturns \/ UNCHANGED vars
  BY <1>1, <1>5 DEF EnterObject, SkipSlot, HoldSlot, CallbackReturns, vars, heapVars, bagVars,
     TypeOK, ChunkOf, PageOf
<1>6. CASE ScanChunk \/ ScanThing
  <2>1. scan \in Scan
    BY <1>1, <1>6 DEF ScanChunk, ScanThing, Scanning, TypeOK
  <2>2. scan' \in Scan
    BY <1>6, <2>1 DEF ScanChunk, ScanThing, Scan
  <2>3. /\ chunks' \subseteq chunks /\ pages' \subseteq pages /\ bagged' \subseteq bagged
        /\ UNCHANGED <<kids, phase, todo, generators, marked, stack, asked>>
    BY <1>6 DEF ScanChunk, ScanThing, heapVars
  <2> QED
    BY <1>1, <2>2, <2>3 DEF TypeOK, ChunkOf, PageOf
<1>7. CASE ArenaScanned
  <2>1. /\ stack' \in {stack, Front(stack)} /\ stack # <<>>
        /\ scan' = IF stack' = <<>> THEN None ELSE ScanBegins(Last(stack'))
        /\ UNCHANGED <<kids, phase, todo, generators, marked, bagged, chunks, pages, asked>>
    BY <1>7 DEF ArenaScanned, heapVars, MarkingInv, ScansAll
  <2>2. stack' \in Seq(Arenas)
    BY <1>1, <2>1, FrontIs DEF TypeOK
  <2>3. stack' # <<>> => Last(stack') \in Arenas
    BY <2>2, FrontIs
  <2>4. scan' \in Scan \cup {None}
    BY <2>1, <2>3, ScanIs
  <2> QED
    BY <1>1, <2>1, <2>2, <2>4 DEF TypeOK, ChunkOf, PageOf
<1>8. CASE RootsMarked \/ ClosesMarked \/ ScanForCallback
  <2>1. /\ StartScan /\ phase' \in {"find", "callback"}
        /\ UNCHANGED <<kids, todo, generators, marked, bagVars, asked>>
    BY <1>8 DEF RootsMarked, ClosesMarked, ScanForCallback, heapVars
  <2> QED
    BY <1>1, <2>1, ScanStarts DEF TypeOK, bagVars, ChunkOf, PageOf
<1>9. CASE MarkRoot \/ MarkFromCallback
  <2>1. PICK t \in todo \cup CallbackThings :
          /\ asked' = asked \cup {t} /\ marked' \in {marked, marked \cup {t}}
          /\ todo' \subseteq todo /\ phase' \in {phase, "inside"}
          /\ UNCHANGED <<kids, generators, bagVars, scan>>
    BY <1>9 DEF MarkRoot, MarkFromCallback, MarkThing, Mark, heapVars
  <2>2. t \in Things
    BY <1>1, GCMarkingAssumption DEF TypeOK
  <2> QED
    BY <1>1, <2>1, <2>2 DEF TypeOK, bagVars, ChunkOf, PageOf
<1>10. CASE FindObjectsToClose
  <2>1. /\ generators' \subseteq generators /\ todo' \subseteq generators /\ phase' = "close"
        /\ UNCHANGED <<kids, marked, bagVars, scan, asked>>
    BY <1>10 DEF FindObjectsToClose, heapVars
  <2> QED
    BY <1>1, <2>1 DEF TypeOK, bagVars, ChunkOf, PageOf
<1> QED
  BY <1>3, <1>4, <1>5, <1>6, <1>7, <1>8, <1>9, <1>10 DEF Next

\* What is put off stays within reach of the scan.
LEMMA BagNext == MarkingInv /\ [Next]_vars => BagIsFound'
<1> SUFFICES ASSUME MarkingInv, [Next]_vars PROVE BagIsFound'
  OBVIOUS
<1> DEFINE Spotted(t, sc, cs, ps) == \/ sc # None /\ t \in sc.rest
                                     \/ ChunkOf(t) \in cs /\ PageOf(t) \in ps
<1>1. /\ bagged \subseteq Things /\ stack \in Seq(Arenas) /\ scan \in Scan \cup {None}
      /\ \A t \in bagged : /\ t \in marked
                           /\ Spotted(t, scan, chunks, pages)
                           /\ Arena[t] \in ToSet(stack)
  BY DEF MarkingInv, TypeOK, BagIsFound, Scanning
<1>2. ASSUME \A t \in bagged' : /\ t \in marked'
                                /\ Spotted(t, scan', chunks', pages')
                                /\ Arena[t] \in ToSet(stack')
      PROVE  BagIsFound'
  BY <1>2 DEF BagIsFound, Scanning, ChunkOf, PageOf
<1>3. CASE BagObject
  <2>1. /\ ~Idle /\ bagged' = bagged \cup {Top.thing} /\ UNCHANGED <<marked, scan>>
        /\ chunks' = chunks \cup {ChunkOf(Top.thing)} /\ pages' = pages \cup {PageOf(Top.thing)}
        /\ stack' = IF Arena[Top.thing] \in ToSet(stack) THEN stack
                    ELSE Append(stack, Arena[Top.thing])
    BY <1>3 DEF BagObject, AddToBag
  <2>2. Top.thing \in marked /\ Top.thing \in Things
    BY <2>1, Innermost DEF FrameSound
  <2>3. ToSet(stack') = ToSet(stack) \cup {Arena[Top.thing]}
    <3>1. Arena[Top.thing] \in Arenas
      BY <2>2 DEF Arenas
    <3>2. ToSet(Append(stack, Arena[Top.thing])) = ToSet(stack) \cup {Arena[Top.thing]}
      BY <1>1, <3>1, ToSetAppend
    <3> QED
      BY <2>1, <3>2
  <2> QED
    BY <1>1, <1>2, <2>1, <2>2, <2>3
<1>4. CASE ScanChunk
  <2>1. PICK p, c :
          /\ Scanning /\ scan.rest = {} /\ UNCHANGED <<marked, bagged, stack>>
          /\ chunks' = chunks \ {c}
          /\ pages' = IF ChunksIn(p) = {c} THEN pages \ {p} ELSE pages
          /\ scan' = [scan EXCEPT !.rest = {t \in Things : ChunkOf(t) = c}]
    BY <1>4 DEF ScanChunk
  <2>2. scan' \in Scan /\ scan'.rest = {t \in Things : ChunkOf(t) = c}
    BY <1>1, <2>1 DEF Scan, Scanning
  <2>3. scan' # None
    BY <2>2, ScanIs
  <2>4. ASSUME NEW t \in bagged PROVE Spotted(t, scan', chunks', pages')
    <3>1. ChunkOf(t) \in chunks /\ PageOf(t) \in pages
      BY <1>1, <2>1
    <3>2. ChunkOf(t) \in ChunksIn(PageOf(t))
      BY <3>1 DEF ChunksIn, ChunkOf, PageOf
    <3>3. CASE ChunkOf(t) = c
      BY <1>1, <2>2, <2>3, <3>3
    <3>4. CASE ChunkOf(t) # c
      BY <2>1, <3>1, <3>2, <3>4
    <3> QED
      BY <3>3, <3>4
  <2> QED
    BY <1>1, <1>2, <2>1, <2>4
<1>5. CASE ScanThing
  <2>1. PICK t \in scan.rest :
          /\ Scanning /\ UNCHANGED <<marked, chunks, pages, stack>>
          /\ scan' = [scan EXCEPT !.rest = @ \ {t}]
          /\ bagged' = bagged \ {t}
    BY <1>5 DEF ScanThing
  <2>2. scan' \in Scan /\ scan'.rest = scan.rest \ {t}
    BY <1>1, <2>1 DEF Scan, Scanning
  <2>3. scan' # None
    BY <2>2, ScanIs
  <2> QED
    BY <1>1, <1>2, <2>1, <2>2, <2>3
<1>6. CASE ArenaScanned
  <2>1. /\ Scanning /\ scan.rest = {} /\ PagesIn(scan.arena) = {}
        /\ stack' = IF scan.arena = Last(stack) THEN Front(stack) ELSE stack
        /\ UNCHANGED <<marked, bagged, chunks, pages>>
    BY <1>6 DEF ArenaScanned
  <2>2. stack # <<>>
    BY <2>1 DEF MarkingInv, ScansAll
  <2>3. ASSUME NEW t \in bagged
        PROVE  ChunkOf(t) \in chunks /\ PageOf(t) \in pages /\ Arena[t] \in ToSet(stack')
    <3>1. ChunkOf(t) \in chunks /\ PageOf(t) \in pages
      BY <1>1, <2>1
    <3>2. Arena[t] # scan.arena
      BY <2>1, <3>1 DEF PagesIn, PageOf, ArenaOf
    <3>3. Arena[t] \in ToSet(Front(stack)) \cup {Last(stack)} /\ Arena[t] \in ToSet(stack)
      BY <1>1, <2>2, ToSetFront
    <3> QED
      BY <2>1, <3>1, <3>2, <3>3
  <2> QED
    BY <1>1, <1>2, <2>1, <2>3
<1>7. CASE RootsMarked \/ ClosesMarked \/ ScanForCallback
  <2>1. ~Scanning /\ UNCHANGED <<marked, bagVars>>
    BY <1>7 DEF RootsMarked, ClosesMarked, ScanForCallback, Free
  <2> QED
    BY <1>1, <1>2, <2>1 DEF Scanning, bagVars
<1>8. CASE \/ EnterObject \/ EnterString \/ SkipSlot \/ HoldSlot \/ Recurse \/ SlotsEnd \/ MarkRoot
           \/ FindObjectsToClose \/ MarkFromCallback \/ CallbackReturns \/ UNCHANGED vars
  <2>1. marked \subseteq marked' /\ UNCHANGED <<bagVars, scan>>
    BY <1>8 DEF EnterObject, EnterString, SkipSlot, HoldSlot, Recurse, SlotsEnd, MarkRoot, Mark,
       MarkThing, FindObjectsToClose, MarkFromCallback, CallbackReturns, vars
  <2> QED
    BY <1>1, <1>2, <2>1 DEF bagVars
<1> QED
  BY <1>3, <1>4, <1>5, <1>6, <1>7, <1>8 DEF Next

LEMMA ScansNext == MarkingInv /\ [Next]_vars => ScansAll'
<1> SUFFICES ASSUME MarkingInv, [Next]_vars PROVE ScansAll'
  OBVIOUS
<1>1. ScansAll /\ stack \in Seq(Arenas) /\ scan \in Scan \cup {None}
  BY DEF MarkingInv, TypeOK
<1>2. CASE BagObject
  <2>1. /\ ~Idle /\ UNCHANGED <<scan, phase>>
        /\ stack' = stack \/ stack' = Append(stack, Arena[Top.thing])
    BY <1>2 DEF BagObject, AddToBag
  <2>2. Arena[Top.thing] \in Arenas
    BY <2>1, Innermost DEF Arenas
  <2>3. Append(stack, Arena[Top.thing]) # <<>>
    BY <1>1, <2>2, AppendProperties
  <2> QED
    BY <1>1, <2>1, <2>3 DEF ScansAll, Scanning
<1>3. CASE EnterObject \/ EnterString \/ SkipSlot \/ HoldSlot \/ Recurse \/ SlotsEnd
  <2>1. ~Idle /\ UNCHANGED <<scan, phase, stack>>
    BY <1>3 DEF EnterObject, EnterString, SkipSlot, HoldSlot, Recurse, SlotsEnd, InSlots, bagVars
  <2> QED
    BY <1>1, <2>1 DEF ScansAll, Scanning
<1>4. CASE ScanChunk \/ ScanThing
  <2>1. Scanning /\ UNCHANGED <<phase, stack>>
    BY <1>4 DEF ScanChunk, ScanThing
  <2>2. scan' \in Scan
    BY <1>1, <1>4, <2>1 DEF ScanChunk, ScanThing, Scan, Scanning
  <2> QED
    BY <1>1, <2>1, <2>2, ScanIs DEF ScansAll, Scanning
<1>5. CASE ArenaScanned
  <2>1. /\ Idle /\ UNCHANGED <<phase, frames>>
        /\ scan' = IF stack' = <<>> THEN None ELSE ScanBegins(Last(stack'))
    BY <1>5 DEF ArenaScanned
  <2>2. stack' \in Seq(Arenas)
    BY TypesNext DEF TypeOK
  <2>3. stack' # <<>> => scan' # None
    BY <2>1, <2>2, FrontIs, ScanIs
  <2> QED
    BY <2>1, <2>3 DEF ScansAll, Scanning, Idle
<1>6. CASE RootsMarked \/ ClosesMarked \/ ScanForCallback
  <2>1. Idle /\ StartScan /\ UNCHANGED <<stack, frames>>
    BY <1>6 DEF RootsMarked, ClosesMarked, ScanForCallback, Free, bagVars
  <2> QED
    BY <2>1, ScanStarts DEF ScansAll, Scanning, Idle
<1>7. CASE MarkRoot \/ FindObjectsToClose
  <2>1. /\ ~Scanning /\ phase' \in {"roots", "close"} /\ UNCHANGED scan
    BY <1>7 DEF MarkRoot, FindObjectsToClose, Free
  <2> QED
    BY <2>1 DEF ScansAll, Scanning
<1>8. CASE MarkFromCallback
  <2>1. /\ Free /\ phase = "callback" /\ UNCHANGED <<scan, stack>>
        /\ phase' = "inside" \/ UNCHANGED <<frames, phase>>
    BY <1>8 DEF MarkFromCallback, bagVars
  <2> QED
    BY <1>1, <2>1 DEF ScansAll, Scanning, Idle, Free
<1>9. CASE CallbackReturns \/ UNCHANGED vars
  BY <1>1, <1>9 DEF CallbackReturns, vars, bagVars, ScansAll, Scanning, Idle, Free
<1> QED
  BY <1>2, <1>3, <1>4, <1>5, <1>6, <1>7, <1>8, <1>9 DEF Next

-------------------------------------------------------------------------------
LEMMA MarkingInit == Init => MarkingInv
<1> SUFFICES ASSUME Init PROVE MarkingInv
  OBVIOUS
<1>1. /\ kids \in Graphs /\ todo \subseteq Things /\ generators \subseteq Things
  BY GCMarkingAssumption DEF Init, HeapToMark, MarkingStarts
<1>2. <<>> \in Seq(Arenas) /\ <<>> \in Seq(Frame) /\ Len(<<>>) = 0
  BY EmptySeq
<1>3. TypeOK
  BY <1>1, <1>2 DEF Init, MarkingStarts, TypeOK
<1>4. Sound(frames, kids, marked, bagged)
  BY <1>2 DEF Init, MarkingStarts, Sound, CallsSound, NothingMissed
<1> QED
  BY <1>3, <1>4
     DEF Init, MarkingStarts, MarkingInv, MarksKept, BagIsFound, ScansAll, Scanning, Idle

LEMMA MarkingNext == MarkingInv /\ [Next]_vars => MarkingInv'
BY CallsNext, KeptNext, TypesNext, BagNext, ScansNext DEF MarkingInv

LEMMA MarkingAlways == Spec => []MarkingInv
BY MarkingInit, MarkingNext, PTL DEF Spec

\* The types of the mark phase.
THEOREM TypeCorrect == Spec => []TypeOK
<1>1. MarkingInv => TypeOK
  BY DEF MarkingInv
<1> QED
  BY <1>1, MarkingAlways, PTL

\* js_GC and js_MarkGCThing mark what can be reached from what they were asked
\* to keep and nothing else, before anything is swept and whenever the callback
\* has the control; what is put off on the way is found again; and no thing
\* is put off or looked at while it already is.
THEOREM MarksExactly == Spec => []MarkingSound
<1>1. MarkingInv => MarkingSound
  <2> SUFFICES ASSUME MarkingInv PROVE MarkingSound
    OBVIOUS
  <2>1. EntersOnce
    BY Innermost DEF EntersOnce, FrameSound
  <2>2. ASSUME Free, phase \in {"callback", "sweep"}
        PROVE  bagged = {} /\ marked = KeptBy(asked)
    <3>1. stack = <<>> /\ frames = <<>>
      BY <2>2 DEF MarkingInv, ScansAll, Free, Idle
    <3>2. bagged = {}
      BY <3>1 DEF MarkingInv, BagIsFound, ToSet
    <3>3. Closed(marked) /\ marked \in SUBSET Things
      BY <3>1, <3>2, EmptySeq DEF MarkingInv, TypeOK, Sound, NothingMissed, Closed
    <3>4. marked \subseteq KeptBy(asked)
      BY <3>3 DEF MarkingInv, MarksKept, KeptBy
    <3>5. KeptBy(asked) \subseteq marked
      BY <3>3 DEF MarkingInv, KeptBy
    <3> QED
      BY <3>2, <3>4, <3>5
  <2> QED
    BY <2>1, <2>2 DEF MarkingSound, MarksReachable, MarkingInv
<1> QED
  BY <1>1, MarkingAlways, PTL
-------------------------------------------------------------------------------
(***************************************************************************)
(* A finite set in the order of a relation: each element once.             *)
(***************************************************************************)
Orders(R, S) ==
  /\ \A u \in S : <<u, u>> \notin R
  /\ \A u, v \in S : u # v => <<u, v>> \in R \/ <<v, u>> \in R
  /\ \A u, v, w \in S : <<u, v>> \in R /\ <<v, w>> \in R => <<u, w>> \in R

LEMMA BeforeGrows ==
  ASSUME NEW S, IsFiniteSet(S), NEW R, Orders(R, S), NEW u \in S
  PROVE  /\ Cardinality(Before(S, R, u)) \in 0 .. Cardinality(S) - 1
         /\ \A v \in S : <<u, v>> \in R =>
              Cardinality(Before(S, R, u)) < Cardinality(Before(S, R, v))
<1>1. \A T \in SUBSET S : IsFiniteSet(T) /\ Cardinality(T) \in Nat
  BY FS_Subset, FS_CardinalityType
<1>2. ASSUME NEW T \in SUBSET S, NEW v \in T, Before(S, R, u) \subseteq T \ {v}
      PROVE  Cardinality(Before(S, R, u)) <= Cardinality(T) - 1
  <2>1. T \ {v} \in SUBSET S /\ Before(S, R, u) \in SUBSET (T \ {v})
    BY <1>2
  <2>2. Cardinality(Before(S, R, u)) <= Cardinality(T \ {v})
    BY <1>1, <2>1, FS_Subset
  <2> QED
    BY <1>1, <2>2, FS_RemoveElement
<1>3. Before(S, R, u) \subseteq S \ {u}
  BY DEF Before, Orders
<1>4. ASSUME NEW v \in S, <<u, v>> \in R
      PROVE  Cardinality(Before(S, R, u)) < Cardinality(Before(S, R, v))
  <2>1. Before(S, R, u) \subseteq Before(S, R, v) \ {u} /\ u \in Before(S, R, v)
        /\ Before(S, R, v) \in SUBSET S
    BY <1>4 DEF Before, Orders
  <2>2. Cardinality(Before(S, R, u)) <= Cardinality(Before(S, R, v)) - 1
    BY <1>2, <2>1
  <2> QED
    BY <1>1, <2>1, <2>2
<1>5. S \in SUBSET S /\ Before(S, R, u) \in SUBSET S
  BY DEF Before
<1>6. Cardinality(Before(S, R, u)) <= Cardinality(S) - 1
  BY <1>2, <1>3, <1>5
<1> QED
  BY <1>1, <1>4, <1>5, <1>6

LEMMA OrderedIs ==
  ASSUME NEW S, IsFiniteSet(S), NEW R, Orders(R, S)
  PROVE  /\ Ordered(S, R) \in Seq(S) /\ Len(Ordered(S, R)) = Cardinality(S)
         /\ ToSet(Ordered(S, R)) = S /\ IsInjective(Ordered(S, R))
         /\ \A u \in S : Before(S, R, u) = {} => Ordered(S, R) # <<>> /\ Ordered(S, R)[1] = u
<1> DEFINE N == Cardinality(S)
           rank == [u \in S |-> Cardinality(Before(S, R, u)) + 1]
           o == Ordered(S, R)
<1>1. N \in Nat
  BY FS_CardinalityType
<1>2. \A u \in S : Cardinality(Before(S, R, u)) \in Nat /\ rank[u] \in 1 .. N
  BY <1>1, BeforeGrows
<1>3. \A u, v \in S : rank[u] = rank[v] => u = v
  <2> SUFFICES ASSUME NEW u \in S, NEW v \in S, u # v PROVE rank[u] # rank[v]
    OBVIOUS
  <2>1. <<u, v>> \in R \/ <<v, u>> \in R
    BY DEF Orders
  <2> QED
    BY <1>2, <2>1, BeforeGrows
<1>4. rank \in Injection(S, 1 .. N)
  BY <1>2, <1>3, Fun_IsInj
<1>5. IsFiniteSet(1 .. N) /\ Cardinality(1 .. N) = N
  BY <1>1, FS_Interval
<1>6. rank \in Surjection(S, 1 .. N)
  BY <1>4, <1>5, FS_Injection
<1>7. \A n \in 1 .. N : \E u \in S : rank[u] = n
  <2> HIDE DEF rank
  <2> QED
    BY <1>6, Fun_SurjectionProperties
<1>8. \A n \in 1 .. N : o[n] \in S /\ rank[o[n]] = n
  <2> SUFFICES ASSUME NEW n \in 1 .. N PROVE o[n] \in S /\ rank[o[n]] = n
    OBVIOUS
  <2>1. o[n] = CHOOSE u \in S : Cardinality(Before(S, R, u)) = n - 1
    BY DEF Ordered
  <2>2. \E u \in S : Cardinality(Before(S, R, u)) = n - 1
    BY <1>2, <1>7
  <2>3. o[n] \in S /\ Cardinality(Before(S, R, o[n])) = n - 1
    BY <2>1, <2>2
  <2> QED
    BY <1>1, <2>3
<1>9. o \in [1 .. N -> S]
  BY <1>8 DEF Ordered
<1>10. o \in Seq(S) /\ Len(o) = N /\ DOMAIN o = 1 .. N
  BY <1>1, <1>9, LenProperties
<1>11. \A u \in S : o[rank[u]] = u
  BY <1>2, <1>3, <1>8
<1>12. ToSet(o) = S
  BY <1>2, <1>8, <1>10, <1>11 DEF ToSet
<1>13. IsInjective(o)
  <2> SUFFICES ASSUME NEW a \in 1 .. N, NEW b \in 1 .. N, o[a] = o[b] PROVE a = b
    BY <1>10 DEF IsInjective
  <2> HIDE DEF rank, o
  <2> QED
    BY <1>8
<1>14. ASSUME NEW u \in S, Before(S, R, u) = {} PROVE o # <<>> /\ o[1] = u
  <2>1. rank[u] = 1
    BY <1>14, FS_EmptySet
  <2> QED
    BY <1>1, <1>2, <1>10, <1>11, <2>1, EmptySeq
<1> QED
  BY <1>10, <1>12, <1>13, <1>14
-------------------------------------------------------------------------------
(***************************************************************************)
(* The heap.  An arena lies in the chain once; a thing with a lock is in   *)
(* the table, unless it is shallow and has one; only objects and mutable   *)
(* strings hold anything.                                                  *)
(***************************************************************************)
HeapTypeOK ==
  /\ chain \in Seq(Blocks) /\ lastLimit \in 0 .. PerArena
  /\ kind \in [Cells -> Kinds \cup {"free", "raw"}]
  /\ lockBits \subseteq Cells
  /\ DOMAIN lockCount \subseteq lockBits
  /\ lockCount \in [DOMAIN lockCount -> Nat \ {0}]
  /\ freeList \in Seq(Cells)
  /\ newborn \in [Kinds -> Cells \cup {Null}]
  /\ ref \in [Cells -> SUBSET Cells]
  /\ want \in Kinds \cup {Null}
  /\ held \in [Cells -> Nat]

ChainSound == IsInjective(chain) /\ (chain = <<>> <=> lastLimit = 0)

DeepIsListed == \A t \in lockBits : Deep(t) => t \in DOMAIN lockCount

FlatHoldNone == \A t \in Cells : ref[t] # {} => kind[t] \in {"object", "mutable"}

HeapInv == HeapTypeOK /\ ChainSound /\ DeepIsListed /\ FlatHoldNone /\ HeapKeeps

-------------------------------------------------------------------------------
(* What can be reached is the least set that holds all its things hold.    *)

LEMMA ClosureIs ==
  ASSUME NEW ts \in SUBSET Cells, ref \in [Cells -> SUBSET Cells]
  PROVE  /\ Closure(ts) \in SUBSET Cells /\ ts \subseteq Closure(ts) /\ HoldsAll(Closure(ts))
         /\ \A s \in SUBSET Cells : ts \subseteq s /\ HoldsAll(s) => Closure(ts) \subseteq s
<1> DEFINE others == (UNION {ref[t] : t \in Cells}) \ ts
<1>1. Closure(ts) = ts \cup {t \in others : \A s \in SUBSET others : HoldsAll(ts \cup s) => t \in s}
  BY DEF Closure
<1>2. others \subseteq Cells /\ \A t \in Cells : ref[t] \subseteq ts \cup others
  <2>1. ASSUME NEW u \in others PROVE u \in Cells
    <3>1. PICK t \in Cells : u \in ref[t]
      BY <2>1
    <3> QED
      BY <3>1
  <2>2. ASSUME NEW t \in Cells, NEW u \in ref[t], u \notin ts PROVE u \in others
    <3>1. u \in UNION {ref[v] : v \in Cells}
      BY Zenon
    <3> QED
      BY <2>2, <3>1
  <2> HIDE DEF others
  <2> QED
    BY <2>1, <2>2
<1> HIDE DEF others
<1>3. HoldsAll(Closure(ts))
  <2> SUFFICES ASSUME NEW t \in Closure(ts), NEW u \in ref[t], u \notin ts,
                      NEW s \in SUBSET others, HoldsAll(ts \cup s)
               PROVE  u \in others /\ u \in s
    BY <1>1, <1>2 DEF HoldsAll
  <2>1. t \in ts \cup s /\ t \in Cells
    BY <1>1, <1>2
  <2> QED
    BY <1>2, <2>1 DEF HoldsAll
<1>4. ASSUME NEW s \in SUBSET Cells, ts \subseteq s, HoldsAll(s) PROVE Closure(ts) \subseteq s
  <2>1. HoldsAll(ts \cup (s \cap others))
    BY <1>2, <1>4 DEF HoldsAll
  <2>2. s \cap others \in SUBSET others
    OBVIOUS
  <2> QED
    BY <1>1, <1>4, <2>1, <2>2
<1> QED
  BY <1>1, <1>2, <1>3, <1>4

LEMMA NewbornsAre == HeapTypeOK => Newborns \in SUBSET Cells
BY DEF HeapTypeOK, Newborns

LEMMA ProtectedIs ==
  ASSUME HeapTypeOK
  PROVE  /\ Roots \in SUBSET Cells /\ Roots \subseteq Closure(Roots) /\ HoldsAll(Closure(Roots))
         /\ Closure(Roots) \in SUBSET Cells /\ Newborns \subseteq Roots
         /\ Protected = Held \cup Closure(Roots)
         /\ Held = {t \in Cells : held[t] > 0}
<1>1. Roots \in SUBSET Cells /\ Newborns \subseteq Roots
  BY NewbornsAre DEF Roots, Held
<1>2. /\ Closure(Roots) \in SUBSET Cells /\ Roots \subseteq Closure(Roots)
      /\ HoldsAll(Closure(Roots))
  BY <1>1, ClosureIs DEF HeapTypeOK
<1> HIDE DEF Roots
<1> QED
  BY <1>1, <1>2 DEF Protected, Held

LEMMA LockedIsHeld ==
  ASSUME HeapTypeOK, LocksCounted PROVE \A t \in Cells : held[t] > 0 <=> t \in lockBits
<1> SUFFICES ASSUME NEW t \in Cells PROVE held[t] > 0 <=> t \in lockBits
  OBVIOUS
<1>1. held[t] = IF t \notin lockBits THEN 0
                ELSE IF t \in DOMAIN lockCount THEN lockCount[t] ELSE 1
  BY DEF LocksCounted
<1>2. t \in DOMAIN lockCount => lockCount[t] \in Nat \ {0}
  BY DEF HeapTypeOK
<1> QED
  BY <1>1, <1>2

\* What a collection marks or finds locked is all that is protected.
LEMMA MarkedOrLocked == HeapInv => Protected \subseteq Marked \cup lockBits
<1> SUFFICES ASSUME HeapInv PROVE Protected \subseteq Marked \cup lockBits
  OBVIOUS
<1> USE DEF HeapInv
<1>1. DOMAIN lockCount \cup Newborns \in SUBSET Cells
  BY NewbornsAre DEF HeapTypeOK
<1>2. /\ Marked \in SUBSET Cells /\ DOMAIN lockCount \cup Newborns \subseteq Marked
      /\ HoldsAll(Marked)
  BY <1>1, ClosureIs DEF Marked, HeapTypeOK
<1>3. Held \subseteq lockBits
  BY LockedIsHeld DEF HeapKeeps, Held
<1> DEFINE s == Marked \cup {t \in lockBits : ref[t] = {}}
<1>4. s \in SUBSET Cells /\ HoldsAll(s)
  BY <1>2 DEF HeapTypeOK, HoldsAll
<1>5. ASSUME NEW t \in Held, ~Lone(t), t \notin DOMAIN lockCount PROVE ref[t] = {}
  <2>1. t \in lockBits /\ t \in Cells /\ kind[t] # "mutable"
    BY <1>3, <1>5 DEF Lone, Held
  <2>2. ~Deep(t)
    BY <1>5, <2>1 DEF DeepIsListed
  <2> QED
    BY <2>1, <2>2 DEF Deep, FlatHoldNone
<1>6. Roots \subseteq s
  BY <1>2, <1>3, <1>5 DEF Roots
<1>7. Closure(Roots) \subseteq s
  BY <1>4, <1>6, ProtectedIs, ClosureIs DEF HeapTypeOK
<1> QED
  BY <1>3, <1>7, ProtectedIs
-------------------------------------------------------------------------------
(* The walks of a collection: arenas as in the chain, things against it.   *)

LEMMA ChainOrder ==
  ASSUME HeapTypeOK, ChainSound
  PROVE  Orders(Earlier, ToSet(chain)) /\ IsFiniteSet(ToSet(chain)) /\ ToSet(chain) \subseteq Blocks
<1>1. /\ DOMAIN chain = 1 .. Len(chain) /\ Len(chain) \in Nat
      /\ \A i \in DOMAIN chain : chain[i] \in Blocks
  BY LenProperties, ElementOfSeq DEF HeapTypeOK
<1>2. ToSet(chain) \subseteq Blocks
  BY <1>1 DEF ToSet
<1>3. \A i, j \in DOMAIN chain : chain[i] = chain[j] => i = j
  BY DEF ChainSound, IsInjective
<1>4. \A i, j \in DOMAIN chain : <<chain[i], chain[j]>> \in Earlier <=> i < j
  BY <1>1, <1>3 DEF Earlier
<1>5. ASSUME NEW u \in ToSet(chain) PROVE \E i \in DOMAIN chain : u = chain[i]
  BY DEF ToSet
<1>6. Orders(Earlier, ToSet(chain))
  <2>1. ASSUME NEW u \in ToSet(chain) PROVE <<u, u>> \notin Earlier
    <3>1. PICK i \in DOMAIN chain : u = chain[i]
      BY <1>5
    <3>2. ~(i < i)
      BY <1>1
    <3>3. <<chain[i], chain[i]>> \notin Earlier
      BY <1>4, <3>2
    <3> QED
      BY <3>1, <3>3
  <2>2. ASSUME NEW u \in ToSet(chain), NEW v \in ToSet(chain), u # v
        PROVE  <<u, v>> \in Earlier \/ <<v, u>> \in Earlier
    <3>1. PICK i \in DOMAIN chain, j \in DOMAIN chain : u = chain[i] /\ v = chain[j]
      BY <1>5
    <3>2. i < j \/ j < i
      BY <1>1, <2>2, <3>1
    <3> QED
      BY <1>4, <3>1, <3>2
  <2>3. ASSUME NEW u \in ToSet(chain), NEW v \in ToSet(chain), NEW w \in ToSet(chain),
               <<u, v>> \in Earlier, <<v, w>> \in Earlier
        PROVE  <<u, w>> \in Earlier
    <3>1. PICK i \in DOMAIN chain, j \in DOMAIN chain, k \in DOMAIN chain :
            u = chain[i] /\ v = chain[j] /\ w = chain[k]
      BY <1>5
    <3>2. i < j /\ j < k
      BY <1>4, <2>3, <3>1
    <3>3. i < k
      BY <1>1, <3>2
    <3> QED
      BY <1>4, <3>1, <3>3
  <2> QED
    BY <2>1, <2>2, <2>3 DEF Orders
<1> QED
  BY <1>2, <1>6, FS_Subset, GCHeapAssumption

LEMMA HeadIsFirst ==
  ASSUME HeapTypeOK, ChainSound, chain # <<>>
  PROVE  chain[1] \in ToSet(chain) /\ Before(ToSet(chain), Earlier, chain[1]) = {}
<1>1. DOMAIN chain = 1 .. Len(chain) /\ Len(chain) \in Nat \ {0}
  BY LenProperties, EmptySeq DEF HeapTypeOK
<1>2. \A i, j \in DOMAIN chain : chain[i] = chain[j] => i = j
  BY DEF ChainSound, IsInjective
<1>3. \A v : <<v, chain[1]>> \notin Earlier
  BY <1>1, <1>2 DEF Earlier
<1> QED
  BY <1>1, <1>3 DEF ToSet, Before

LEMMA ThingOrder ==
  ASSUME HeapTypeOK, ChainSound, NEW S \in SUBSET Cells, \A t \in S : t[1] \in ToSet(chain)
  PROVE  Orders(Later, S)
<1>1. \A t \in Cells : t = <<t[1], t[2]>> /\ t[2] \in 1 .. PerArena
  BY DEF Cells
<1>2. \A t, u \in Cells : <<t, u>> \in Later <=>
         <<u[1], t[1]>> \in Earlier \/ (t[1] = u[1] /\ t[2] > u[2])
  BY DEF Later
<1>3. PerArena \in Nat
  BY GCHeapAssumption
<1>4. ASSUME NEW u \in S PROVE <<u, u>> \notin Later
  <2>1. <<u[1], u[1]>> \notin Earlier
    BY ChainOrder DEF Orders
  <2>2. ~(u[2] > u[2])
    BY <1>1, <1>3
  <2> QED
    BY <1>2, <2>1, <2>2
<1>5. \A u, v \in S : u # v => <<u, v>> \in Later \/ <<v, u>> \in Later
  <2> SUFFICES ASSUME NEW u \in S, NEW v \in S, u # v PROVE <<u, v>> \in Later \/ <<v, u>> \in Later
    OBVIOUS
  <2>1. CASE u[1] = v[1]
    <3>1. u[2] # v[2]
      BY <1>1, <2>1
    <3>2. u[2] > v[2] \/ v[2] > u[2]
      BY <1>1, <1>3, <3>1
    <3> QED
      BY <1>2, <2>1, <3>2
  <2>2. CASE u[1] # v[1]
    BY <1>2, <2>2, ChainOrder DEF Orders
  <2> QED
    BY <2>1, <2>2
<1>6. \A u, v, w \in S : <<u, v>> \in Later /\ <<v, w>> \in Later => <<u, w>> \in Later
  <2> SUFFICES ASSUME NEW u \in S, NEW v \in S, NEW w \in S, <<u, v>> \in Later, <<v, w>> \in Later
               PROVE  <<u, w>> \in Later
    OBVIOUS
  <2>1. /\ <<v[1], u[1]>> \in Earlier \/ (u[1] = v[1] /\ u[2] > v[2])
        /\ <<w[1], v[1]>> \in Earlier \/ (v[1] = w[1] /\ v[2] > w[2])
    BY <1>2
  <2>2. \/ <<w[1], u[1]>> \in Earlier
        \/ u[1] = w[1] /\ u[2] > v[2] /\ v[2] > w[2]
    BY <2>1, ChainOrder DEF Orders
  <2>3. u[2] > v[2] /\ v[2] > w[2] => u[2] > w[2]
    BY <1>1, <1>3
  <2> QED
    BY <1>2, <2>2, <2>3
<1> QED
  BY <1>4, <1>5, <1>6 DEF Orders

LEMMA LimitIs == HeapTypeOK => \A a : Limit(a) \in 0 .. PerArena
BY GCHeapAssumption DEF Limit, HeapTypeOK

LEMMA CellsFinite == \A S \in SUBSET Cells : IsFiniteSet(S)
<1>1. IsFiniteSet(1 .. PerArena)
  BY FS_Interval, GCHeapAssumption
<1>2. IsFiniteSet(Cells)
  BY <1>1, FS_Product, GCHeapAssumption DEF Cells
<1> QED
  BY <1>2, FS_Subset
-------------------------------------------------------------------------------
\* After a step: where s has what is born, or locked and no lone string, and
\* what this holds, nothing but s and what is locked is protected.
LEMMA ProtectedNext ==
  ASSUME HeapTypeOK', NEW s \in SUBSET Cells,
         Newborns' \subseteq s, \A t \in Cells : held'[t] > 0 /\ ~Lone(t)' => t \in s,
         \A t \in s : ref'[t] \subseteq s
  PROVE  \A t \in Protected' : t \in s \/ (t \in Cells /\ held'[t] > 0)
<1> DEFINE ts == Roots'
           others == (UNION {ref'[t] : t \in Cells}) \ ts
<1>1. ts \subseteq s
  BY DEF Roots, Held
<1>2. \A t \in Protected' :
        \/ t \in Cells /\ held'[t] > 0
        \/ t \in ts
        \/ /\ t \in others
           /\ \A r \in SUBSET others : (\A u \in ts \cup r : ref'[u] \subseteq ts \cup r) => t \in r
  BY DEF Protected, Closure, HoldsAll
<1>3. \A t \in Cells : ref'[t] \subseteq ts \cup others
  <2>1. ASSUME NEW t \in Cells, NEW u \in ref'[t], u \notin ts PROVE u \in others
    <3>1. u \in UNION {ref'[v] : v \in Cells}
      BY Zenon
    <3> QED
      BY <2>1, <3>1
  <2> HIDE DEF ts, others
  <2> QED
    BY <2>1
<1> HIDE DEF ts, others
<1>4. \A u \in ts \cup (s \cap others) : ref'[u] \subseteq ts \cup (s \cap others)
  BY <1>1, <1>3
<1>5. s \cap others \in SUBSET others
  OBVIOUS
<1> QED
  BY <1>1, <1>2, <1>4, <1>5

Live == {t \in Cells : kind[t] \in Kinds}

LEMMA RootsLive ==
  ASSUME HeapInv
  PROVE  /\ Protected \subseteq Live /\ Newborns \subseteq Live
         /\ \A t \in Cells : held[t] > 0 => t \in Live
BY ProtectedIs DEF HeapInv, HeapKeeps, Live

\* Where nothing has lost what it holds, what is born and locked need only be
\* there.
LEMMA LiveNext ==
  ASSUME HeapTypeOK', Intact', Newborns' \subseteq Live',
         \A t \in Cells : held'[t] > 0 => t \in Live'
  PROVE  \A t \in Protected' : kind'[t] \in Kinds
<1>1. Live' \in SUBSET Cells /\ \A t \in Live' : ref'[t] \subseteq Live'
  BY DEF Live, Intact, HeapTypeOK
<1> QED
  BY <1>1, ProtectedNext DEF Live

Kept == {a \in ToSet(chain) : \E t \in InUse(a) : Swept[t] # "free"}
Freed == {t \in UNION {InUse(a) : a \in Kept} : Swept[t] = "free"}

LEMMA CollectIs ==
  ASSUME HeapInv, Collect
  PROVE  /\ chain' \in Seq(Blocks) /\ IsInjective(chain') /\ ToSet(chain') = Kept
         /\ chain' = <<>> <=> Kept = {}
         /\ chain # <<>> /\ chain[1] \in Kept => chain' # <<>> /\ chain'[1] = chain[1]
         /\ freeList' \in Seq(Cells) /\ IsInjective(freeList') /\ ToSet(freeList') = Freed
<1> USE DEF HeapInv
<1>1. chain' = Ordered(Kept, Earlier) /\ freeList' = Ordered(Freed, Later)
  BY DEF Collect, Kept, Freed
<1>2. Orders(Earlier, Kept) /\ IsFiniteSet(Kept) /\ Kept \subseteq Blocks
  <2>1. Kept \in SUBSET ToSet(chain)
    BY DEF Kept
  <2> QED
    BY <2>1, ChainOrder, FS_Subset DEF Orders
<1>3. Freed \in SUBSET Cells /\ \A t \in Freed : t[1] \in ToSet(chain)
  <2> SUFFICES ASSUME NEW t \in Freed PROVE t \in Cells /\ t[1] \in ToSet(chain)
    OBVIOUS
  <2>1. PICK a \in Kept : t \in InUse(a)
    BY DEF Freed
  <2>2. PICK i \in 1 .. Limit(a) : t = <<a, i>>
    BY <2>1 DEF InUse
  <2>3. i \in 1 .. PerArena
    BY LimitIs, GCHeapAssumption
  <2> QED
    BY <1>2, <2>2, <2>3 DEF Kept, Cells
<1>4. Orders(Later, Freed) /\ IsFiniteSet(Freed)
  BY <1>3, ThingOrder, CellsFinite
<1>5. /\ chain' \in Seq(Kept) /\ IsInjective(chain') /\ ToSet(chain') = Kept
      /\ \A u \in Kept : Before(Kept, Earlier, u) = {} => chain' # <<>> /\ chain'[1] = u
  BY <1>1, <1>2, OrderedIs
<1>6. freeList' \in Seq(Freed) /\ IsInjective(freeList') /\ ToSet(freeList') = Freed
  BY <1>1, <1>4, OrderedIs
<1>7. chain' \in Seq(Blocks) /\ freeList' \in Seq(Cells)
  BY <1>2, <1>3, <1>5, <1>6, SeqMonotonic
<1>8. chain' = <<>> <=> Kept = {}
  <2>1. DOMAIN chain' = 1 .. Len(chain') /\ Len(chain') \in Nat
        /\ (chain' # <<>> => Len(chain') \in Nat \ {0})
    BY <1>7, LenProperties, EmptySeq
  <2> QED
    BY <1>5, <2>1, EmptySeq DEF ToSet
<1>9. chain # <<>> /\ chain[1] \in Kept => Before(Kept, Earlier, chain[1]) = {}
  BY HeadIsFirst DEF Before, Kept
<1> QED
  BY <1>5, <1>6, <1>7, <1>8, <1>9

LEMMA LimitKept ==
  ASSUME HeapInv, Collect
  PROVE  /\ lastLimit' \in 0 .. PerArena /\ (chain' = <<>> <=> lastLimit' = 0)
         /\ \A a \in Kept : Limit(a)' = Limit(a)
<1> USE DEF HeapInv
<1>0. PerArena \in Nat \ {0} /\ lastLimit \in 0 .. PerArena /\ (chain = <<>> <=> lastLimit = 0)
  BY GCHeapAssumption DEF HeapTypeOK, ChainSound
<1>1. lastLimit' = IF chain = <<>> \/ chain[1] \in Kept THEN lastLimit
                   ELSE IF Kept = {} THEN 0 ELSE PerArena
  BY DEF Collect, Kept
<1>2. chain = <<>> => Kept = {}
  BY EmptySeq DEF Kept, ToSet
<1>3. \A a : Limit(a)' = IF a = chain'[1] THEN lastLimit' ELSE PerArena
  BY DEF Limit
<1> QED
  BY <1>0, <1>1, <1>2, <1>3, CollectIs DEF Limit

LEMMA CollectKeeps ==
  ASSUME HeapInv, Collect, UNCHANGED <<lockVars, newborn>>, want' \in Kinds \cup {Null}
  PROVE  HeapInv'
<1> USE DEF HeapInv, Kinds
<1>1. UNCHANGED <<lockBits, lockCount, held, newborn, Newborns>>
  BY DEF lockVars, Newborns
<1>2. /\ kind' = [t \in Cells |-> IF t[1] \in Kept THEN Swept[t] ELSE "raw"]
      /\ ref' = [t \in Cells |-> IF kind'[t] \in Kinds THEN ref[t] ELSE {}]
  BY DEF Collect, Kept
<1>3. \A t \in Cells : /\ kind[t] \in Kinds \cup {"free", "raw"}
                       /\ Swept[t] = IF kind[t] \in Kinds /\ t \notin Marked \cup lockBits
                                     THEN "free" ELSE kind[t]
  BY DEF Swept, HeapTypeOK
<1>4. \A t \in Cells : /\ t = <<t[1], t[2]>> /\ t[1] \in Blocks /\ t[2] \in 1 .. PerArena
                       /\ kind[t] = "raw" <=> t[1] \notin ToSet(chain) \/ t[2] > Limit(t[1])
  BY DEF Cells, HeapKeeps, FreeListExact
<1>5. \A t \in Cells : kind[t] # "raw" => t[1] \in ToSet(chain) /\ t \in InUse(t[1])
  BY <1>4, LimitIs, GCHeapAssumption DEF InUse
<1>6. ASSUME NEW t \in Cells, kind[t] \in Kinds, t \in Marked \cup lockBits
      PROVE  kind'[t] = kind[t] /\ ref'[t] = ref[t]
  <2>1. Swept[t] = kind[t] /\ kind[t] # "raw" /\ kind[t] # "free"
    BY <1>3, <1>6
  <2>2. t[1] \in Kept
    BY <1>5, <2>1 DEF Kept
  <2> QED
    BY <1>2, <1>6, <2>1, <2>2
<1>7. HeapTypeOK'
  BY <1>1, <1>2, <1>3, CollectIs, LimitKept DEF HeapTypeOK
<1>8. ChainSound'
  BY CollectIs, LimitKept DEF ChainSound
<1>9. \A t \in Protected : kind[t] \in Kinds /\ t \in Cells /\ t \in Marked \cup lockBits
  BY ProtectedIs, MarkedOrLocked DEF HeapKeeps
<1>10. \A t \in Protected : kind'[t] = kind[t] /\ ref'[t] = ref[t]
  BY <1>6, <1>9
<1>11. Protected' \subseteq Protected
  <2>1. Newborns' \subseteq Closure(Roots) /\ Closure(Roots) \subseteq Protected
    BY <1>1, ProtectedIs
  <2>2. ASSUME NEW t \in Cells, held'[t] > 0, ~Lone(t)' PROVE t \in Closure(Roots)
    <3>1. t \in Held /\ t \in Protected
      BY <1>1, <2>2, ProtectedIs
    <3>2. ~Lone(t)
      BY <1>1, <1>10, <2>2, <3>1 DEF Lone
    <3> QED
      BY <3>1, <3>2, ProtectedIs DEF Roots
  <2>3. \A t \in Closure(Roots) : ref'[t] \subseteq Closure(Roots)
    BY <1>10, <2>1, ProtectedIs DEF HoldsAll
  <2>4. \A t \in Protected' : t \in Closure(Roots) \/ (t \in Cells /\ held'[t] > 0)
    BY <1>7, <2>1, <2>2, <2>3, ProtectedIs, ProtectedNext
  <2> QED
    BY <1>1, <2>4, ProtectedIs
<1>12. DeepIsListed'
  <2>1. \A t \in lockBits : held[t] > 0
    BY DEF HeapTypeOK, HeapKeeps, LocksCounted
  <2>2. \A t \in lockBits : kind'[t] = kind[t] /\ ref'[t] = ref[t]
    BY <1>10, <2>1, ProtectedIs DEF HeapTypeOK
  <2> QED
    BY <1>1, <2>2 DEF DeepIsListed, Deep
<1>13. FlatHoldNone'
  <2> SUFFICES ASSUME NEW t \in Cells, ref'[t] # {} PROVE kind'[t] \in {"object", "mutable"}
    BY DEF FlatHoldNone
  <2>1. kind'[t] \in Kinds /\ ref[t] # {}
    BY <1>2
  <2> QED
    BY <1>2, <1>3, <2>1 DEF FlatHoldNone
<1>14. FreeListExact'
  <2>1. Freed = {t \in Cells : kind'[t] = "free"}
    <3>1. ASSUME NEW t \in Freed PROVE t \in Cells /\ kind'[t] = "free"
      <4>1. PICK a \in Kept : t \in InUse(a)
        BY DEF Freed
      <4>2. t[1] = a /\ t \in Cells
        BY <4>1, LimitIs, GCHeapAssumption, CollectIs, ChainOrder DEF InUse, Cells, Kept
      <4> QED
        BY <1>2, <4>2 DEF Freed
    <3>2. ASSUME NEW t \in Cells, kind'[t] = "free" PROVE t \in Freed
      <4>1. t[1] \in Kept /\ Swept[t] = "free"
        BY <1>2, <3>2
      <4>2. kind[t] # "raw"
        BY <1>3, <4>1
      <4> QED
        BY <1>5, <4>1, <4>2 DEF Freed
    <3> QED
      BY <3>1, <3>2
  <2>2. \A t \in Cells : kind'[t] = "raw" <=> t[1] \notin Kept \/ t[2] > Limit(t[1])'
    <3> SUFFICES ASSUME NEW t \in Cells
                 PROVE  kind'[t] = "raw" <=> t[1] \notin Kept \/ t[2] > Limit(t[1])'
      OBVIOUS
    <3>1. CASE t[1] \notin Kept
      BY <1>2, <3>1
    <3>2. CASE t[1] \in Kept
      <4>1. kind'[t] = "raw" <=> kind[t] = "raw"
        BY <1>2, <1>3, <3>2
      <4>2. t[1] \in ToSet(chain) /\ Limit(t[1])' = Limit(t[1])
        BY <3>2, LimitKept DEF Kept
      <4> QED
        BY <1>4, <3>2, <4>1, <4>2
    <3> QED
      BY <3>1, <3>2
  <2> QED
    BY <2>1, <2>2, CollectIs DEF FreeListExact
<1>15. LocksCounted'
  BY <1>1 DEF HeapKeeps, LocksCounted
<1>16. \A t \in Protected' : kind'[t] \in Kinds
  BY <1>9, <1>10, <1>11
<1> QED
  BY <1>7, <1>8, <1>12, <1>13, <1>14, <1>15, <1>16 DEF HeapKeeps
-------------------------------------------------------------------------------
\* A thing that was free or raw is given.
LEMMA GiveKeeps ==
  ASSUME HeapInv, Intact, NEW t \in Cells, NEW k \in Kinds, Give(t, k), kind[t] \in {"free", "raw"},
         chain' \in Seq(Blocks), lastLimit' \in 0 .. PerArena, ChainSound',
         freeList' \in Seq(Cells), FreeListExact'
  PROVE  HeapInv'
<1> USE DEF HeapInv
<1>1. /\ kind' = [kind EXCEPT ![t] = k] /\ newborn' = [newborn EXCEPT ![k] = t]
      /\ want' = Null
      /\ UNCHANGED <<lockBits, lockCount, held>>
  BY DEF Give, lockVars
<1>2. /\ \A u \in Cells : kind'[u] = IF u = t THEN k ELSE kind[u]
      /\ t \notin Live /\ Live' = Live \cup {t}
  BY <1>1 DEF HeapTypeOK, Kinds, Live
<1>3. t \notin lockBits
  BY <1>2, RootsLive, LockedIsHeld DEF HeapKeeps
<1> DEFINE HoldsWell ==
             /\ ref' \in [Cells -> SUBSET Cells] /\ Intact' /\ FlatHoldNone'
             /\ \A u \in Cells : u # t => ref'[u] = ref[u] \/ kind'[u] = "mutable"
<1>4. HoldsWell
  <2>0. \A u \in Cells : ref[u] \subseteq Live /\ ref \in [Cells -> SUBSET Cells]
    BY DEF Intact, Live, HeapTypeOK
  <2>1. CASE ref' = [ref EXCEPT ![t] = {}]
    <3>1. \A u \in Cells : ref'[u] = IF u = t THEN {} ELSE ref[u]
      BY <2>0, <2>1
    <3> QED
      BY <1>2, <2>0, <2>1, <3>1 DEF Intact, Live, FlatHoldNone
  <2>2. ASSUME k = "mutable", NEW base \in Protected, ref' = [ref EXCEPT ![t] = {base}]
        PROVE  HoldsWell
    <3>1. base \in Live /\ base \in Cells
      BY RootsLive DEF Live
    <3>2. \A u \in Cells : ref'[u] = IF u = t THEN {base} ELSE ref[u]
      BY <2>0, <2>2
    <3> QED
      BY <1>2, <2>0, <2>2, <3>1, <3>2 DEF Intact, Live, FlatHoldNone
  <2>3. ASSUME k = "mutable", NEW left \in Protected, kind[left] = "mutable",
               ref' = [ref EXCEPT ![t] = {}, ![left] = {t}]
        PROVE  HoldsWell
    <3>1. left \in Live /\ left \in Cells /\ left # t
      BY <1>2, RootsLive DEF Live
    <3>2. \A u \in Cells : ref'[u] = IF u = t THEN {} ELSE IF u = left THEN {t} ELSE ref[u]
      BY <2>0, <2>3, <3>1
    <3> QED
      BY <1>2, <2>0, <2>3, <3>1, <3>2 DEF Intact, Live, FlatHoldNone
  <2> QED
    BY <2>1, <2>2, <2>3 DEF Give
<1>5. HeapTypeOK'
  BY <1>1, <1>4 DEF HeapTypeOK
<1>6. Newborns' \subseteq Newborns \cup {t}
  BY <1>1 DEF Newborns, HeapTypeOK
<1>7. \A u \in Protected' : kind'[u] \in Kinds
  BY <1>1, <1>2, <1>4, <1>5, <1>6, RootsLive, LiveNext
<1>8. DeepIsListed'
  BY <1>1, <1>2, <1>3, <1>4 DEF DeepIsListed, Deep, HeapTypeOK
<1>9. LocksCounted'
  BY <1>1 DEF HeapKeeps, LocksCounted
<1> QED
  BY <1>4, <1>5, <1>7, <1>8, <1>9 DEF HeapKeeps

LEMMA TakeFreeKeeps == ASSUME HeapInv, Intact, NEW k \in Kinds, TakeFree(k) PROVE HeapInv'
<1> USE DEF HeapInv
<1> DEFINE t == Head(freeList)
<1>1. /\ freeList \in Seq(Cells) /\ freeList # <<>> /\ freeList' = Tail(freeList)
      /\ UNCHANGED <<chain, lastLimit>> /\ Give(t, k)
  BY DEF TakeFree, HeapTypeOK
<1>2. /\ freeList' \in Seq(Cells) /\ Len(freeList') = Len(freeList) - 1 /\ Len(freeList) \in Nat \ {0}
      /\ \A i \in 1 .. Len(freeList) - 1 : freeList'[i] = freeList[i + 1]
      /\ t = freeList[1]
  BY <1>1, HeadTailProperties, EmptySeq
<1>3. DOMAIN freeList = 1 .. Len(freeList) /\ DOMAIN freeList' = 1 .. Len(freeList) - 1
  BY <1>1, <1>2, LenProperties
<1>4. \A i, j \in 1 .. Len(freeList) : freeList[i] = freeList[j] => i = j
  BY <1>3 DEF HeapKeeps, FreeListExact, IsInjective
<1>5. IsInjective(freeList')
  <2> SUFFICES ASSUME NEW i \in 1 .. Len(freeList) - 1, NEW j \in 1 .. Len(freeList) - 1,
                      freeList'[i] = freeList'[j]
               PROVE  i = j
    BY <1>3 DEF IsInjective
  <2>1. i + 1 \in 1 .. Len(freeList) /\ j + 1 \in 1 .. Len(freeList)
    BY <1>2
  <2>2. i + 1 = j + 1
    BY <1>2, <1>4, <2>1
  <2> QED
    BY <2>2
<1>6. ToSet(freeList') = ToSet(freeList) \ {t}
  <2>1. ASSUME NEW u \in ToSet(freeList') PROVE u \in ToSet(freeList) \ {t}
    <3>1. PICK i \in 1 .. Len(freeList) - 1 : u = freeList'[i]
      BY <1>3 DEF ToSet
    <3>2. i + 1 \in 1 .. Len(freeList) /\ 1 \in 1 .. Len(freeList) /\ i + 1 # 1 /\ u = freeList[i + 1]
      BY <1>2, <3>1
    <3> QED
      BY <1>2, <1>3, <1>4, <3>2 DEF ToSet
  <2>2. ASSUME NEW u \in ToSet(freeList) \ {t} PROVE u \in ToSet(freeList')
    <3>1. PICK i \in 1 .. Len(freeList) : u = freeList[i]
      BY <1>3 DEF ToSet
    <3>2. i - 1 \in 1 .. Len(freeList) - 1 /\ (i - 1) + 1 = i
      BY <1>2, <2>2, <3>1
    <3> QED
      BY <1>2, <1>3, <3>1, <3>2 DEF ToSet
  <2> QED
    BY <2>1, <2>2
<1>7. t \in Cells /\ kind[t] = "free"
  BY <1>2, <1>3 DEF ToSet, HeapKeeps, FreeListExact
<1>8. \A u \in Cells : kind'[u] = IF u = t THEN k ELSE kind[u]
  BY <1>1, <1>7 DEF Give, HeapTypeOK
<1>9. FreeListExact'
  <2>1. ToSet(freeList') = {u \in Cells : kind'[u] = "free"}
    BY <1>6, <1>8 DEF HeapKeeps, FreeListExact, Kinds
  <2>2. \A u \in Cells : kind'[u] = "raw" <=> kind[u] = "raw"
    BY <1>7, <1>8 DEF Kinds
  <2>3. \A a : Limit(a)' = Limit(a)
    BY <1>1 DEF Limit
  <2> QED
    BY <1>1, <1>5, <2>1, <2>2, <2>3 DEF HeapKeeps, FreeListExact
<1>10. chain' \in Seq(Blocks) /\ lastLimit' \in 0 .. PerArena /\ ChainSound'
  BY <1>1 DEF HeapTypeOK, ChainSound
<1> QED
  BY <1>1, <1>2, <1>7, <1>9, <1>10, GiveKeeps

LEMMA TakeTailKeeps == ASSUME HeapInv, Intact, NEW k \in Kinds, TakeTail(k) PROVE HeapInv'
<1> USE DEF HeapInv
<1> DEFINE t == <<chain[1], lastLimit + 1>>
<1>1. /\ freeList = <<>> /\ chain # <<>> /\ lastLimit < PerArena /\ lastLimit' = lastLimit + 1
      /\ UNCHANGED <<chain, freeList>> /\ Give(t, k)
  BY DEF TakeTail, HasTail
<1>2. lastLimit \in 1 .. PerArena /\ lastLimit' \in 0 .. PerArena /\ lastLimit' # 0 /\ PerArena \in Nat
  BY <1>1, GCHeapAssumption DEF HeapTypeOK, ChainSound
<1>3. chain[1] \in ToSet(chain) /\ chain[1] \in Blocks
  BY <1>1, HeadIsFirst, ChainOrder
<1>4. t \in Cells /\ t[1] = chain[1] /\ t[2] = lastLimit + 1
  BY <1>1, <1>2, <1>3 DEF Cells
<1>5. kind[t] = "raw"
  BY <1>2, <1>4 DEF HeapKeeps, FreeListExact, Limit
<1>6. \A u \in Cells : kind'[u] = IF u = t THEN k ELSE kind[u]
  BY <1>1, <1>4 DEF Give, HeapTypeOK
<1>7. FreeListExact'
  <2>1. ToSet(freeList') = {u \in Cells : kind'[u] = "free"}
    BY <1>1, <1>5, <1>6 DEF HeapKeeps, FreeListExact, Kinds
  <2>2. ASSUME NEW u \in Cells
        PROVE  kind'[u] = "raw" <=> u[1] \notin ToSet(chain) \/ u[2] > Limit(u[1])'
    <3>1. /\ kind[u] = "raw" <=> u[1] \notin ToSet(chain) \/ u[2] > Limit(u[1])
          /\ u = <<u[1], u[2]>> /\ u[2] \in 1 .. PerArena
      BY DEF HeapKeeps, FreeListExact, Cells
    <3>2. u = t => kind'[u] # "raw" /\ u[1] \in ToSet(chain) /\ ~(u[2] > Limit(u[1])')
      BY <1>1, <1>2, <1>3, <1>4, <1>6 DEF Limit, Kinds
    <3>3. CASE u # t /\ u[1] = chain[1]
      <4>1. u[2] # lastLimit + 1
        BY <3>1, <3>3
      <4>2. u[2] > lastLimit <=> u[2] > lastLimit + 1
        BY <1>2, <3>1, <4>1
      <4> QED
        BY <1>1, <1>6, <3>1, <3>3, <4>2 DEF Limit
    <3>4. CASE u # t /\ u[1] # chain[1]
      BY <1>1, <1>6, <3>1, <3>4 DEF Limit
    <3> QED
      BY <3>2, <3>3, <3>4
  <2> QED
    BY <1>1, <2>1, <2>2 DEF HeapKeeps, FreeListExact
<1>8. chain' \in Seq(Blocks) /\ freeList' \in Seq(Cells) /\ ChainSound'
  BY <1>1, <1>2 DEF HeapTypeOK, ChainSound
<1> QED
  BY <1>1, <1>2, <1>4, <1>5, <1>7, <1>8, GiveKeeps

LEMMA NewGCArenaKeeps == ASSUME HeapInv, Intact, NEW k \in Kinds, NewGCArena(k) PROVE HeapInv'
<1> USE DEF HeapInv
<1>1. PICK a \in Blocks \ ToSet(chain) : chain' = <<a>> \o chain /\ Give(<<a, 1>>, k)
  BY DEF NewGCArena
<1> DEFINE t == <<a, 1>>
<1>2. /\ freeList = <<>> /\ lastLimit' = 1 /\ freeList' = freeList
      /\ chain = <<>> \/ ~(lastLimit < PerArena)
  BY DEF NewGCArena, HasTail
<1>3. PerArena \in Nat \ {0} /\ lastLimit \in 0 .. PerArena
  BY GCHeapAssumption DEF HeapTypeOK
<1>4. t \in Cells /\ t[1] = a /\ t[2] = 1
  BY <1>3 DEF Cells
<1>5. kind[t] = "raw"
  BY <1>1, <1>4 DEF HeapKeeps, FreeListExact
<1>6. \A u \in Cells : kind'[u] = IF u = t THEN k ELSE kind[u]
  BY <1>1, <1>4 DEF Give, HeapTypeOK
<1>7. /\ chain' \in Seq(Blocks) /\ Len(chain') = Len(chain) + 1 /\ Len(chain) \in Nat
      /\ chain'[1] = a /\ \A i \in 1 .. Len(chain) : chain'[i + 1] = chain[i]
      /\ DOMAIN chain = 1 .. Len(chain) /\ DOMAIN chain' = 1 .. Len(chain) + 1
  <2>1. <<a>> \in Seq(Blocks) /\ Len(<<a>>) = 1 /\ <<a>>[1] = a /\ chain \in Seq(Blocks)
    BY DEF HeapTypeOK
  <2>2. /\ chain' \in Seq(Blocks) /\ Len(chain') = 1 + Len(chain)
        /\ \A i \in 1 .. 1 + Len(chain) : chain'[i] = IF i <= 1 THEN <<a>>[i] ELSE chain[i - 1]
    BY <1>1, <2>1, ConcatProperties
  <2>3. Len(chain) \in Nat /\ DOMAIN chain = 1 .. Len(chain) /\ DOMAIN chain' = 1 .. Len(chain')
    BY <2>1, <2>2, LenProperties
  <2> QED
    BY <2>1, <2>2, <2>3
<1>8. ToSet(chain') = ToSet(chain) \cup {a}
  <2>1. \A i \in DOMAIN chain' : i = 1 \/ (i - 1 \in DOMAIN chain /\ chain'[i] = chain[i - 1])
    <3> SUFFICES ASSUME NEW i \in DOMAIN chain', i # 1
                 PROVE  i - 1 \in DOMAIN chain /\ chain'[i] = chain[i - 1]
      OBVIOUS
    <3>1. i - 1 \in 1 .. Len(chain) /\ (i - 1) + 1 = i
      BY <1>7
    <3> QED
      BY <1>7, <3>1
  <2>2. \A i \in DOMAIN chain : i + 1 \in DOMAIN chain' /\ chain'[i + 1] = chain[i]
    BY <1>7
  <2>3. 1 \in DOMAIN chain' /\ chain'[1] = a
    BY <1>7
  <2>4. ToSet(chain') \subseteq ToSet(chain) \cup {a}
    BY <2>1, <2>3 DEF ToSet
  <2>5. ToSet(chain) \cup {a} \subseteq ToSet(chain')
    BY <2>2, <2>3 DEF ToSet
  <2> QED
    BY <2>4, <2>5
<1>9. IsInjective(chain')
  <2> SUFFICES ASSUME NEW i \in DOMAIN chain', NEW j \in DOMAIN chain', i < j, chain'[i] = chain'[j]
               PROVE  FALSE
    BY <1>7 DEF IsInjective
  <2>1. j - 1 \in DOMAIN chain /\ (j - 1) + 1 = j /\ chain'[j] = chain[j - 1]
    BY <1>7
  <2>2. CASE i = 1
    BY <1>7, <2>1, <2>2 DEF ToSet
  <2>3. CASE i # 1
    <3>1. i - 1 \in DOMAIN chain /\ (i - 1) + 1 = i /\ chain'[i] = chain[i - 1] /\ i - 1 # j - 1
      BY <1>7, <2>3
    <3> QED
      BY <2>1, <3>1 DEF ChainSound, IsInjective
  <2> QED
    BY <2>2, <2>3
<1>10. chain' # <<>>
  BY <1>7, EmptySeq
<1>11. FreeListExact'
  <2>1. ToSet(freeList') = {u \in Cells : kind'[u] = "free"}
    BY <1>2, <1>5, <1>6 DEF HeapKeeps, FreeListExact, Kinds
  <2>2. ASSUME NEW u \in Cells
        PROVE  kind'[u] = "raw" <=> u[1] \notin ToSet(chain') \/ u[2] > Limit(u[1])'
    <3>1. /\ kind[u] = "raw" <=> u[1] \notin ToSet(chain) \/ u[2] > Limit(u[1])
          /\ u = <<u[1], u[2]>> /\ u[2] \in 1 .. PerArena
      BY DEF HeapKeeps, FreeListExact, Cells
    <3>2. CASE u[1] = a
      <4>1. Limit(a)' = 1 /\ a \in ToSet(chain') /\ (u = t <=> ~(u[2] > 1)) /\ kind[u] = "raw"
        BY <1>2, <1>3, <1>7, <1>8, <3>1, <3>2 DEF Limit
      <4> QED
        BY <1>6, <3>2, <4>1 DEF Kinds
    <3>3. CASE u[1] # a
      <4>1. u[1] \in ToSet(chain) => Limit(u[1]) = PerArena
        <5>1. chain = <<>> => ToSet(chain) = {}
          BY EmptySeq DEF ToSet
        <5> QED
          BY <1>2, <1>3, <5>1 DEF Limit
      <4>2. Limit(u[1])' = PerArena
        BY <1>7, <3>3 DEF Limit
      <4> QED
        BY <1>4, <1>6, <1>8, <3>1, <3>3, <4>1, <4>2
    <3> QED
      BY <3>2, <3>3
  <2> QED
    BY <1>2, <2>1, <2>2 DEF HeapKeeps, FreeListExact
<1>12. lastLimit' \in 0 .. PerArena /\ freeList' \in Seq(Cells) /\ ChainSound'
  BY <1>2, <1>3, <1>9, <1>10 DEF HeapTypeOK, ChainSound
<1> QED
  BY <1>1, <1>4, <1>5, <1>7, <1>11, <1>12, GiveKeeps
-------------------------------------------------------------------------------
\* The things stay where they are.
LEMMA PlacesStay ==
  ASSUME HeapInv, UNCHANGED <<chain, lastLimit, kind, freeList>>
  PROVE  ChainSound' /\ FreeListExact' /\ \A a : Limit(a)' = Limit(a)
<1>1. \A a : Limit(a)' = Limit(a)
  BY DEF Limit
<1> QED
  BY <1>1 DEF HeapInv, ChainSound, HeapKeeps, FreeListExact

LEMMA LockKeeps == ASSUME HeapInv, Intact, NEW t \in Protected, Lock(t) PROVE HeapInv'
<1> USE DEF HeapInv
<1>0. t \in Cells /\ t \in Live
  BY RootsLive DEF Live
<1>1. /\ lockBits' = lockBits \cup {t}
      /\ held' = [held EXCEPT ![t] = @ + 1]
      /\ lockCount' = IF ~(t \in lockBits \/ Deep(t)) THEN lockCount
                      ELSE [u \in DOMAIN lockCount \cup {t} |->
                              IF u # t THEN lockCount[u]
                              ELSE IF t \in DOMAIN lockCount THEN lockCount[t] + 1
                              ELSE IF Deep(t) THEN 1 ELSE 2]
      /\ UNCHANGED <<chain, lastLimit, kind, freeList, newborn, ref, want>>
  BY DEF Lock
<1>2. /\ DOMAIN lockCount' = DOMAIN lockCount \cup (IF t \in lockBits \/ Deep(t) THEN {t} ELSE {})
      /\ \A u \in DOMAIN lockCount' : lockCount'[u] =
           IF u # t THEN lockCount[u]
           ELSE IF t \in DOMAIN lockCount THEN lockCount[t] + 1 ELSE IF Deep(t) THEN 1 ELSE 2
      /\ lockCount' = [u \in DOMAIN lockCount' |-> lockCount'[u]]
  <2>1. /\ lockCount = [u \in DOMAIN lockCount |-> lockCount[u]]
        /\ t \in DOMAIN lockCount => t \in lockBits
    BY DEF HeapTypeOK
  <2>2. CASE ~(t \in lockBits \/ Deep(t))
    BY <1>1, <2>1, <2>2
  <2>3. CASE t \in lockBits \/ Deep(t)
    BY <1>1, <2>1, <2>3
  <2> QED
    BY <2>2, <2>3
<1>3. \A u \in DOMAIN lockCount' : lockCount'[u] \in Nat \ {0}
  BY <1>2 DEF HeapTypeOK
<1>4. HeapTypeOK'
  BY <1>0, <1>1, <1>2, <1>3 DEF HeapTypeOK
<1>5. \A u \in Cells : held'[u] = IF u = t THEN held[t] + 1 ELSE held[u]
  BY <1>0, <1>1 DEF HeapTypeOK
<1>6. LocksCounted'
  <2> SUFFICES ASSUME NEW u \in Cells
               PROVE  held'[u] = IF u \notin lockBits' THEN 0
                                 ELSE IF u \in DOMAIN lockCount' THEN lockCount'[u] ELSE 1
    BY DEF LocksCounted
  <2>1. held[u] = IF u \notin lockBits THEN 0
                  ELSE IF u \in DOMAIN lockCount THEN lockCount[u] ELSE 1
    BY DEF HeapKeeps, LocksCounted
  <2>2. u # t => /\ u \in lockBits' <=> u \in lockBits
                 /\ u \in DOMAIN lockCount' <=> u \in DOMAIN lockCount
                 /\ u \in DOMAIN lockCount' => lockCount'[u] = lockCount[u]
    BY <1>1, <1>2
  <2>3. CASE u # t
    BY <1>5, <2>1, <2>2, <2>3
  <2>4. CASE u = t
    <3>1. t \in lockBits /\ t \notin DOMAIN lockCount => ~Deep(t)
      BY DEF DeepIsListed
    <3>2. t \in DOMAIN lockCount => t \in lockBits
      BY DEF HeapTypeOK
    <3>3. t \in lockBits' /\ held'[t] = held[t] + 1
      BY <1>0, <1>1, <1>5
    <3>4. t \in DOMAIN lockCount' <=> t \in lockBits \/ Deep(t)
      BY <1>2, <3>2
    <3> QED
      BY <1>2, <2>1, <2>4, <3>1, <3>2, <3>3, <3>4
  <2> QED
    BY <2>3, <2>4
<1>7. \A u \in Protected' : kind'[u] \in Kinds
  <2>1. Newborns' = Newborns /\ Intact' /\ Live' = Live
    BY <1>1 DEF Newborns, Intact, Live
  <2> QED
    BY <1>0, <1>4, <1>5, <2>1, RootsLive, LiveNext
<1>8. DeepIsListed'
  BY <1>1, <1>2 DEF DeepIsListed, Deep
<1>9. FlatHoldNone'
  BY <1>1 DEF FlatHoldNone
<1> QED
  BY <1>1, <1>4, <1>6, <1>7, <1>8, <1>9, PlacesStay DEF HeapKeeps

LEMMA UnlockKeeps == ASSUME HeapInv, Intact, NEW t \in Cells, Unlock(t) PROVE HeapInv'
<1> USE DEF HeapInv
<1> DEFINE entry == t \in DOMAIN lockCount
           last == ~entry \/ lockCount[t] = 1
<1>1. /\ t \in lockBits /\ held' = [held EXCEPT ![t] = @ - 1]
      /\ lockCount' = IF ~entry THEN lockCount
                      ELSE IF last THEN Restrict(lockCount, DOMAIN lockCount \ {t})
                      ELSE [lockCount EXCEPT ![t] = @ - 1]
      /\ lockBits' = IF last THEN lockBits \ {t} ELSE lockBits
      /\ UNCHANGED <<chain, lastLimit, kind, freeList, newborn, ref, want>>
  BY DEF Unlock
<1>2. /\ DOMAIN lockCount' = DOMAIN lockCount \ (IF last THEN {t} ELSE {})
      /\ \A u \in DOMAIN lockCount' : lockCount'[u] = IF u # t THEN lockCount[u] ELSE lockCount[t] - 1
      /\ lockCount' = [u \in DOMAIN lockCount' |-> lockCount'[u]]
  BY <1>1 DEF HeapTypeOK, Restrict
<1>3. \A u \in DOMAIN lockCount : lockCount[u] \in Nat \ {0}
  BY DEF HeapTypeOK
<1>4. \A u \in DOMAIN lockCount' : lockCount'[u] \in Nat \ {0}
  BY <1>2, <1>3
<1>5. \A u \in Cells : held[u] = IF u \notin lockBits THEN 0
                               ELSE IF u \in DOMAIN lockCount THEN lockCount[u] ELSE 1
  BY DEF HeapKeeps, LocksCounted
<1>6. \A u \in Cells : held'[u] = IF u = t THEN held[t] - 1 ELSE held[u]
  BY <1>1 DEF HeapTypeOK
<1>7. held[t] \in Nat \ {0}
  BY <1>1, <1>3, <1>5
<1>8. HeapTypeOK'
  <2>1. held' \in [Cells -> Nat]
    BY <1>1, <1>7 DEF HeapTypeOK
  <2>2. lockBits' \subseteq Cells /\ DOMAIN lockCount' \subseteq lockBits'
    BY <1>1, <1>2 DEF HeapTypeOK
  <2> QED
    BY <1>1, <1>2, <1>4, <2>1, <2>2 DEF HeapTypeOK
<1>9. LocksCounted'
  <2> SUFFICES ASSUME NEW u \in Cells
               PROVE  held'[u] = IF u \notin lockBits' THEN 0
                                 ELSE IF u \in DOMAIN lockCount' THEN lockCount'[u] ELSE 1
    BY DEF LocksCounted
  <2>1. CASE u # t
    BY <1>1, <1>2, <1>5, <1>6, <2>1
  <2>2. CASE u = t /\ last
    BY <1>1, <1>5, <1>6, <2>2
  <2>3. CASE u = t /\ ~last
    BY <1>1, <1>2, <1>5, <1>6, <2>3
  <2> QED
    BY <2>1, <2>2, <2>3
<1>10. \A u \in Protected' : kind'[u] \in Kinds
  <2>1. Newborns' = Newborns /\ Intact' /\ Live' = Live
    BY <1>1 DEF Newborns, Intact, Live
  <2>2. \A u \in Cells : held'[u] > 0 => held[u] > 0
    BY <1>6, <1>7
  <2> QED
    BY <1>8, <2>1, <2>2, RootsLive, LiveNext
<1>11. DeepIsListed'
  BY <1>1, <1>2 DEF DeepIsListed, Deep
<1>12. FlatHoldNone'
  BY <1>1 DEF FlatHoldNone
<1> QED
  BY <1>1, <1>8, <1>9, <1>10, <1>11, <1>12, PlacesStay DEF HeapKeeps

\* One thing gets other things to hold that are there.
LEMMA HoldingKeeps ==
  ASSUME HeapInv, Intact, NEW o \in Cells, kind[o] \in {"object", "mutable"},
         NEW ts \in SUBSET Live, ref' = [ref EXCEPT ![o] = ts],
         UNCHANGED <<chain, lastLimit, kind, lockVars, freeList, newborn, want>>
  PROVE  HeapInv'
<1> USE DEF HeapInv
<1>1. UNCHANGED <<lockBits, lockCount, held>>
  BY DEF lockVars
<1>2. ref' \in [Cells -> SUBSET Cells] /\ \A v \in Cells : ref'[v] = IF v = o THEN ts ELSE ref[v]
  BY DEF HeapTypeOK, Live
<1>3. HeapTypeOK'
  BY <1>1, <1>2 DEF HeapTypeOK
<1>4. Newborns' = Newborns /\ Intact' /\ Live' = Live
  BY <1>2 DEF Newborns, Intact, Live
<1>5. \A v \in Protected' : kind'[v] \in Kinds
  BY <1>1, <1>3, <1>4, RootsLive, LiveNext
<1>6. FlatHoldNone'
  BY <1>2 DEF FlatHoldNone
<1>7. DeepIsListed' /\ LocksCounted'
  BY <1>1, <1>2 DEF DeepIsListed, Deep, HeapKeeps, LocksCounted, HeapTypeOK
<1> QED
  BY <1>3, <1>5, <1>6, <1>7, PlacesStay DEF HeapKeeps

LEMMA SetSlotKeeps ==
  ASSUME HeapInv, Intact, NEW o \in Protected, NEW t \in Protected, SetSlot(o, t) PROVE HeapInv'
<1>1. o \in Cells /\ t \in Live /\ ref[o] \subseteq Live /\ ref \in [Cells -> SUBSET Cells]
  BY RootsLive DEF Live, Intact, HeapInv, HeapTypeOK
<1>2. PICK u : ref' = [ref EXCEPT ![o] = (@ \ {u}) \cup {t}]
  BY DEF SetSlot
<1>3. (ref[o] \ {u}) \cup {t} \in SUBSET Live /\ ref' = [ref EXCEPT ![o] = (ref[o] \ {u}) \cup {t}]
  BY <1>1, <1>2
<1> QED
  BY <1>1, <1>3, HoldingKeeps DEF SetSlot

LEMMA MinimizeKeeps ==
  ASSUME HeapInv, Intact, NEW t \in Protected, Minimize(t) PROVE HeapInv'
<1>1. t \in Cells /\ ref \in [Cells -> SUBSET Cells]
  BY RootsLive DEF Live, HeapInv, HeapTypeOK
<1>2. PICK b \in ref[t] : \E c \in ref[b] : ref' = [ref EXCEPT ![t] = {c}]
  BY DEF Minimize
<1>3. PICK c \in ref[b] : ref' = [ref EXCEPT ![t] = {c}]
  BY <1>2
<1>4. {c} \in SUBSET Live
  BY <1>1 DEF Intact, Live
<1> QED
  BY <1>1, <1>3, <1>4, HoldingKeeps DEF Minimize

LEMMA UndependKeeps ==
  ASSUME HeapInv, Intact, NEW t \in Protected, Undepend(t) PROVE HeapInv'
<1> USE DEF HeapInv
<1>1. /\ t \in Cells /\ kind[t] = "mutable" /\ ref' = [ref EXCEPT ![t] = {}]
      /\ kind' \in {kind, [kind EXCEPT ![t] = "string"]}
      /\ UNCHANGED <<chain, lastLimit, lockBits, lockCount, held, freeList, newborn, want>>
  BY RootsLive DEF Live, Undepend, lockVars
<1>2. /\ \A u \in Cells : ref'[u] = IF u = t THEN {} ELSE ref[u]
      /\ kind'[t] \in {"mutable", "string"}
      /\ \A u \in Cells : u # t => kind'[u] = kind[u]
  BY <1>1 DEF HeapTypeOK
<1>3. HeapTypeOK'
  BY <1>1 DEF HeapTypeOK, Kinds
<1>4. Newborns' = Newborns /\ Live' = Live
  BY <1>1, <1>2 DEF Newborns, Live, Kinds
<1>5. Intact'
  BY <1>2, <1>4 DEF Intact, Live, HeapTypeOK
<1>6. \A u \in Protected' : kind'[u] \in Kinds
  BY <1>1, <1>3, <1>4, <1>5, RootsLive, LiveNext
<1>7. ChainSound' /\ FreeListExact'
  <2>1. \A a : Limit(a)' = Limit(a)
    BY <1>1 DEF Limit
  <2>2. \A u \in Cells : /\ kind'[u] = "free" <=> kind[u] = "free"
                         /\ kind'[u] = "raw" <=> kind[u] = "raw"
    BY <1>1, <1>2
  <2> QED
    BY <1>1, <2>1, <2>2 DEF ChainSound, HeapKeeps, FreeListExact
<1>8. DeepIsListed' /\ FlatHoldNone' /\ LocksCounted'
  BY <1>1, <1>2 DEF DeepIsListed, Deep, FlatHoldNone, HeapKeeps, LocksCounted, HeapTypeOK
<1> QED
  BY <1>3, <1>6, <1>7, <1>8 DEF HeapKeeps

LEMMA HeapUnchanged ==
  ASSUME HeapInv, want' \in Kinds \cup {Null},
         UNCHANGED <<chain, lastLimit, kind, lockVars, freeList, newborn, ref>>
  PROVE  HeapInv'
<1> USE DEF HeapInv
<1>1. HeapTypeOK'
  BY DEF HeapTypeOK, lockVars
<1>2. Protected' = Protected
  BY DEF Protected, Closure, HoldsAll, Roots, Held, Lone, Newborns, lockVars
<1>3. DeepIsListed' /\ LocksCounted' /\ FlatHoldNone'
  BY DEF DeepIsListed, Deep, HeapKeeps, LocksCounted, FlatHoldNone, lockVars
<1> QED
  BY <1>1, <1>2, <1>3, PlacesStay DEF HeapKeeps

LEMMA HeapInvInit == HeapInit => HeapInv
<1> SUFFICES ASSUME HeapInit PROVE HeapInv
  OBVIOUS
<1> USE DEF HeapInit
<1>1. DOMAIN chain = {} /\ DOMAIN freeList = {} /\ PerArena \in Nat
  BY GCHeapAssumption, LenProperties, EmptySeq
<1>2. HeapTypeOK
  BY <1>1 DEF HeapTypeOK
<1>3. ChainSound
  BY <1>1 DEF ChainSound, IsInjective
<1>4. Protected = {}
  <2>1. Newborns = {} /\ Held = {}
    BY DEF Newborns, Held
  <2>2. {} \in SUBSET Cells /\ Roots = {} /\ HoldsAll({}) /\ ref \in [Cells -> SUBSET Cells]
    BY <2>1 DEF Roots, HoldsAll
  <2>3. Closure(Roots) \subseteq {}
    BY <2>2, ClosureIs
  <2> QED
    BY <1>2, <2>1, <2>3, ProtectedIs
<1>5. FreeListExact
  BY <1>1 DEF FreeListExact, IsInjective, ToSet
<1>6. LocksCounted /\ DeepIsListed /\ FlatHoldNone
  BY DEF LocksCounted, DeepIsListed, FlatHoldNone
<1> QED
  BY <1>2, <1>3, <1>4, <1>5, <1>6 DEF HeapInv, HeapKeeps

LEMMA HeapInvNext == HeapInv /\ [HeapNext]_gcHeapVars => HeapInv'
<1> SUFFICES ASSUME HeapInv, [HeapNext]_gcHeapVars PROVE HeapInv'
  OBVIOUS
<1>1. want \in Kinds \cup {Null} /\ Protected \subseteq Cells
  BY ProtectedIs DEF HeapInv, HeapTypeOK, Held
<1>2. CASE GC
  BY <1>1, <1>2, CollectKeeps DEF GC
<1>3. CASE OutOfMemory
  BY <1>3, HeapUnchanged DEF OutOfMemory
<1>4. ASSUME NEW k \in Kinds, LastDitch(k) PROVE HeapInv'
  BY <1>4, CollectKeeps DEF LastDitch
<1>5. ASSUME Intact, NEW k \in Kinds, TakeFree(k) \/ TakeTail(k) \/ NewGCArena(k) PROVE HeapInv'
  BY <1>5, TakeFreeKeeps, TakeTailKeeps, NewGCArenaKeeps
<1>6. ASSUME Intact, NEW t \in Protected, Lock(t) \/ Unlock(t) PROVE HeapInv'
  BY <1>1, <1>6, LockKeeps, UnlockKeeps
<1>7. ASSUME Intact, NEW t \in Protected, Undepend(t) \/ Minimize(t) PROVE HeapInv'
  BY <1>7, UndependKeeps, MinimizeKeeps
<1>8. ASSUME Intact, NEW o \in Protected, NEW t \in Protected, SetSlot(o, t) PROVE HeapInv'
  BY <1>8, SetSlotKeeps
<1>9. CASE UNCHANGED gcHeapVars
  <2>1. UNCHANGED <<chain, lastLimit, kind, lockVars, freeList, newborn, ref>> /\ want' = want
    BY <1>9 DEF gcHeapVars, lockVars
  <2> QED
    BY <1>1, <2>1, HeapUnchanged
<1> QED
  BY <1>2, <1>3, <1>4, <1>5, <1>6, <1>7, <1>8, <1>9, GCHeapAssumption DEF HeapNext

(* Whatever is given, locked or held is never given out again, except what *)
(* is held by a mutable string alone that is locked and not in the table;  *)
(* the free list has each free thing once; and a thing is locked as often  *)
(* as the bit and the table say (js_NewGCThing, js_LockGCThingRT,          *)
(* js_UnlockGCThingRT, the sweep of js_GC, js_NewDependentString,          *)
(* js_ConcatStrings).  Up to the sweep by which a string loses its base.   *)
THEOREM KeepsWhatIsUsed == HeapSpec => []HeapKeeps
<1>1. HeapInv => HeapKeeps
  BY DEF HeapInv
<1> QED
  BY <1>1, HeapInvInit, HeapInvNext, PTL DEF HeapSpec
-------------------------------------------------------------------------------
(***************************************************************************)
(* The stack of local roots.  Entry n is in chunk n \div ChunkSize + 1.    *)
(***************************************************************************)
Item == Values \cup Int \cup {NoRoot}
Chunks == Seq([1..ChunkSize -> Item])

ChunkOfEntry(n) == n \div ChunkSize + 1
Entry(cs, n) == cs[ChunkOfEntry(n)][Slot(n)]

Chunked(cs, r) ==
  /\ cs \in Chunks /\ r \in Nat
  /\ Len(cs) = IF r = 0 THEN 0 ELSE ChunkOfEntry(r - 1)

\* The entries before the n-th are the same.
Agree(cs, ds, n) == \A k \in 0 .. n - 1 : Entry(cs, k) = Entry(ds, k)

LEMMA ChunkTyped == \A n \in Nat : ChunkOfEntry(n) \in Nat \ {0} /\ Slot(n) \in 1..ChunkSize
  BY LocalRootsAssumption DEF ChunkOfEntry, Slot

LEMMA ChunkNext ==
  \A n \in Nat : ChunkOfEntry(n + 1) = ChunkOfEntry(n) + (IF Boundary(n + 1) THEN 1 ELSE 0)
  BY LocalRootsAssumption DEF ChunkOfEntry, Boundary

LEMMA ChunkRises == \A m, n \in Nat : m <= n => ChunkOfEntry(m) <= ChunkOfEntry(n)
  BY LocalRootsAssumption DEF ChunkOfEntry

LEMMA PlaceIsOne ==
  \A m, n \in Nat : ChunkOfEntry(m) = ChunkOfEntry(n) /\ Slot(m) = Slot(n) => m = n
  BY LocalRootsAssumption DEF ChunkOfEntry, Slot

LEMMA ChunkFirst == ChunkOfEntry(0) = 1 /\ Boundary(0)
  BY LocalRootsAssumption DEF ChunkOfEntry, Boundary

LEMMA ChunkCount ==
  \A r \in Nat : (r + ChunkSize - 1) \div ChunkSize = IF r = 0 THEN 0 ELSE ChunkOfEntry(r - 1)
<1>1. (0 + ChunkSize - 1) \div ChunkSize = 0
  BY LocalRootsAssumption
<1>2. ASSUME NEW n \in Nat PROVE (n + ChunkSize) \div ChunkSize = n \div ChunkSize + 1
  BY LocalRootsAssumption
<1>3. ASSUME NEW r \in Nat, r # 0
      PROVE  (r + ChunkSize - 1) \div ChunkSize = ChunkOfEntry(r - 1)
  <2>1. r - 1 \in Nat /\ r + ChunkSize - 1 = (r - 1) + ChunkSize
    BY <1>3, LocalRootsAssumption
  <2> QED
    BY <1>2, <2>1 DEF ChunkOfEntry
<1> QED
  BY <1>1, <1>3

LEMMA LeastNumber ==
  ASSUME NEW T, T \subseteq Nat, T # {}
  PROVE  \E i \in T : \A j \in T : i <= j
<1>1. PICK i \in T : \A j \in T : ~(<<j, i>> \in OpToRel(<, Nat))
  BY NatLessThanWellFounded, WFMin
<1>2. ASSUME NEW j \in T PROVE i <= j
  <2>1. i \in Nat /\ j \in Nat
    OBVIOUS
  <2>2. ~(j < i)
    <3>1. SUFFICES ASSUME j < i PROVE FALSE
      OBVIOUS
    <3>2. <<j, i>> \in Nat \X Nat /\ <<j, i>>[1] < <<j, i>>[2]
      BY <2>1, <3>1
    <3>3. <<j, i>> \in OpToRel(<, Nat)
      BY <3>2, Zenon DEF OpToRel
    <3> QED
      BY <1>1, <3>3
  <2> QED
    BY <2>1, <2>2
<1> QED
  BY <1>2

\* The boundaries behind n up to m are those between their chunks.
LEMMA BoundariesBetween ==
  ASSUME NEW n \in Nat, NEW m \in Nat, n <= m
  PROVE  Cardinality({k \in n + 1..m : Boundary(k)}) = ChunkOfEntry(m) - ChunkOfEntry(n)
<1> DEFINE B(i) == {k \in n + 1..i : Boundary(k)}
           T == {i \in Nat : n <= i /\ Cardinality(B(i)) # ChunkOfEntry(i) - ChunkOfEntry(n)}
<1>1. SUFFICES ASSUME T # {} PROVE FALSE
  OBVIOUS
<1>2. PICK i \in T : \A j \in T : i <= j
  BY <1>1, LeastNumber
<1>3. i # n
  <2>1. B(n) = {}
    OBVIOUS
  <2>2. Cardinality(B(n)) = ChunkOfEntry(n) - ChunkOfEntry(n)
    <3>1. Cardinality(B(n)) = 0
      BY <2>1, FS_EmptySet
    <3>2. ChunkOfEntry(n) \in Nat
      BY ChunkTyped
    <3> HIDE DEF B
    <3> QED
      BY <3>1, <3>2
  <2> QED
    BY <2>2
<1>4. i - 1 \in Nat /\ n <= i - 1 /\ Cardinality(B(i - 1)) = ChunkOfEntry(i - 1) - ChunkOfEntry(n)
  BY <1>2, <1>3
<1>5. IsFiniteSet(B(i - 1))
  <2>1. IsFiniteSet(n + 1..i - 1) /\ B(i - 1) \subseteq n + 1..i - 1
    BY FS_Interval, <1>4
  <2> QED
    BY <2>1, FS_Subset
<1>6. ChunkOfEntry(i) = ChunkOfEntry(i - 1) + (IF Boundary(i) THEN 1 ELSE 0)
  <2>1. i = (i - 1) + 1
    BY <1>2
  <2> QED
    BY <1>4, <2>1, ChunkNext
<1>7. /\ Boundary(i) => B(i) = B(i - 1) \cup {i}
      /\ ~Boundary(i) => B(i) = B(i - 1)
      /\ i \notin B(i - 1)
  BY <1>4
<1>8. Cardinality(B(i)) = Cardinality(B(i - 1)) + (IF Boundary(i) THEN 1 ELSE 0)
  <2> HIDE DEF B
  <2>1. Cardinality(B(i - 1) \cup {i}) = Cardinality(B(i - 1)) + 1 /\ Cardinality(B(i - 1)) \in Nat
    BY <1>5, <1>7, FS_AddElement, FS_CardinalityType
  <2>2. CASE Boundary(i)
    BY <1>7, <2>1, <2>2
  <2>3. CASE ~Boundary(i)
    BY <1>7, <2>1, <2>3
  <2> QED
    BY <2>2, <2>3
<1>9. Cardinality(B(i)) # ChunkOfEntry(i) - ChunkOfEntry(n)
  BY <1>2
<1> HIDE DEF B, T
<1>10. ChunkOfEntry(i - 1) \in Nat /\ ChunkOfEntry(n) \in Nat
  BY <1>4, ChunkTyped
<1> QED
  BY <1>4, <1>6, <1>8, <1>9, <1>10

\* The walk from the top comes to the chunk of an entry.
LEMMA WalkIs ==
  ASSUME Chunked(rootChunks, rootCount), NEW n \in 0..rootCount - 1
  PROVE  Walk(n) = ChunkOfEntry(n) /\ Root(n) = Entry(rootChunks, n)
<1>1. n \in Nat /\ rootCount - 1 \in Nat /\ n <= rootCount - 1 /\ Len(rootChunks) = ChunkOfEntry(rootCount - 1)
  BY DEF Chunked
<1>2. Walk(n) = ChunkOfEntry(rootCount - 1) - (ChunkOfEntry(rootCount - 1) - ChunkOfEntry(n))
  BY <1>1, BoundariesBetween DEF Walk
<1>3. ChunkOfEntry(rootCount - 1) \in Nat /\ ChunkOfEntry(n) \in Nat
  BY <1>1, ChunkTyped
<1>4. Walk(n) = ChunkOfEntry(n)
  BY <1>2, <1>3
<1> QED
  BY <1>4 DEF Root, Entry

LEMMA PutIs ==
  ASSUME NEW cs \in Chunks, NEW n \in Nat, ChunkOfEntry(n) <= Len(cs), NEW v \in Item
  PROVE  LET ds == Put(cs, ChunkOfEntry(n), n, v) IN
         /\ ds \in Chunks /\ Len(ds) = Len(cs) /\ Entry(ds, n) = v
         /\ \A k \in Nat : ChunkOfEntry(k) <= Len(cs) /\ k # n => Entry(ds, k) = Entry(cs, k)
<1> DEFINE c == ChunkOfEntry(n)
           e == [cs[c] EXCEPT ![Slot(n)] = v]
           ds == Put(cs, c, n, v)
<1>1. c \in 1 .. Len(cs) /\ Slot(n) \in 1..ChunkSize
  BY ChunkTyped, LenProperties DEF Chunks
<1>2. cs[c] \in [1..ChunkSize -> Item]
  BY <1>1, ElementOfSeq DEF Chunks
<1>3. e \in [1..ChunkSize -> Item] /\ e[Slot(n)] = v /\ \A i \in 1..ChunkSize : i # Slot(n) => e[i] = cs[c][i]
  BY <1>1, <1>2
<1>4. ds = [cs EXCEPT ![c] = e]
  BY DEF Put
<1> HIDE DEF e, ds
<1>5. /\ ds \in Chunks /\ Len(ds) = Len(cs)
      /\ \A i \in 1 .. Len(cs) : ds[i] = IF i = c THEN e ELSE cs[i]
  BY <1>1, <1>3, <1>4, ExceptSeq DEF Chunks
<1>6. Entry(ds, n) = v
  BY <1>1, <1>3, <1>5 DEF Entry
<1>7. ASSUME NEW k \in Nat, ChunkOfEntry(k) <= Len(cs), k # n
      PROVE  Entry(ds, k) = Entry(cs, k)
  <2>1. ChunkOfEntry(k) \in 1 .. Len(cs) /\ Slot(k) \in 1..ChunkSize
        /\ (ChunkOfEntry(k) = c => Slot(k) # Slot(n))
    <3>1. ChunkOfEntry(k) \in Nat \ {0} /\ Slot(k) \in 1..ChunkSize
      BY ChunkTyped
    <3>2. ChunkOfEntry(k) = c => Slot(k) # Slot(n)
      BY <1>7, PlaceIsOne
    <3>3. Len(cs) \in Nat
      BY LenProperties DEF Chunks
    <3> QED
      BY <1>7, <3>1, <3>2, <3>3
  <2> QED
    BY <1>3, <1>5, <2>1 DEF Entry
<1> QED
  BY <1>5, <1>6, <1>7 DEF ds

\* The first n chunks, or one more.
LEMMA CutIs ==
  ASSUME NEW cs \in Chunks, NEW n \in 0 .. Len(cs)
  PROVE  LET ds == SubSeq(cs, 1, n) IN
         /\ ds \in Chunks /\ Len(ds) = n
         /\ \A k \in Nat : ChunkOfEntry(k) <= n => Entry(ds, k) = Entry(cs, k)
<1>1. Len(cs) \in Nat /\ \A i \in 1 .. Len(cs) : cs[i] \in [1..ChunkSize -> Item]
  BY LenProperties, ElementOfSeq DEF Chunks
<1>2. /\ SubSeq(cs, 1, n) \in Chunks /\ Len(SubSeq(cs, 1, n)) = n
      /\ \A i \in 1 .. n : SubSeq(cs, 1, n)[i] = cs[i]
  BY <1>1, SubSeqProperties DEF Chunks
<1>3. \A k \in Nat : ChunkOfEntry(k) <= n => ChunkOfEntry(k) \in 1 .. n
  BY ChunkTyped
<1> QED
  BY <1>2, <1>3 DEF Entry

LEMMA GrowIs ==
  ASSUME NEW cs \in Chunks
  PROVE  LET ds == Append(cs, Fresh) IN
         /\ ds \in Chunks /\ Len(ds) = Len(cs) + 1
         /\ \A k \in Nat : ChunkOfEntry(k) <= Len(cs) => Entry(ds, k) = Entry(cs, k)
<1>1. Fresh \in [1..ChunkSize -> Item]
  BY DEF Fresh, Item
<1>2. /\ Append(cs, Fresh) \in Chunks /\ Len(Append(cs, Fresh)) = Len(cs) + 1
      /\ \A i \in 1 .. Len(cs) : Append(cs, Fresh)[i] = cs[i]
  BY <1>1, AppendProperties DEF Chunks
<1>3. \A k \in Nat : ChunkOfEntry(k) <= Len(cs) => ChunkOfEntry(k) \in 1 .. Len(cs)
  BY ChunkTyped, LenProperties DEF Chunks
<1> QED
  BY <1>2, <1>3 DEF Entry

\* js_PushLocalRoot, also onto the first chunk.
LEMMA PushedIs ==
  ASSUME NEW cs \in Chunks, rootCount \in Nat, NEW v \in Item,
         Len(cs) = IF rootCount = 0 THEN 1 ELSE ChunkOfEntry(rootCount - 1)
  PROVE  /\ Chunked(Pushed(cs, v), rootCount + 1) /\ Entry(Pushed(cs, v), rootCount) = v
         /\ Agree(Pushed(cs, v), cs, rootCount)
<1> DEFINE grown == IF rootCount = 0 \/ ~Boundary(rootCount) THEN cs ELSE Append(cs, Fresh)
<1>1. grown \in Chunks /\ Len(grown) = ChunkOfEntry(rootCount)
  <2>1. CASE rootCount = 0
    BY <2>1, ChunkFirst
  <2>2. CASE rootCount # 0
    <3>1. rootCount - 1 \in Nat /\ rootCount = (rootCount - 1) + 1
      BY <2>2
    <3>2. ChunkOfEntry(rootCount) = Len(cs) + (IF Boundary(rootCount) THEN 1 ELSE 0)
      BY <2>2, <3>1, ChunkNext
    <3> QED
      BY <2>2, <3>2, GrowIs, LenProperties DEF Chunks
  <2> QED
    BY <2>1, <2>2
<1>2. Agree(grown, cs, rootCount)
  <2>1. ASSUME NEW k \in 0 .. rootCount - 1 PROVE k \in Nat /\ ChunkOfEntry(k) <= Len(cs)
    <3>1. k \in Nat /\ rootCount - 1 \in Nat /\ k <= rootCount - 1 /\ rootCount # 0
      OBVIOUS
    <3> QED
      BY <3>1, ChunkRises
  <2> QED
    BY <2>1, GrowIs DEF Agree
<1>3. Pushed(cs, v) = Put(grown, ChunkOfEntry(rootCount), rootCount, v)
  BY <1>1 DEF Pushed
<1> HIDE DEF grown
<1>4. ASSUME NEW k \in 0 .. rootCount - 1
      PROVE  k \in Nat /\ ChunkOfEntry(k) <= Len(grown) /\ k # rootCount
  <2>1. k \in Nat /\ k <= rootCount /\ k # rootCount
    OBVIOUS
  <2> QED
    BY <1>1, <2>1, ChunkRises
<1>5. ChunkOfEntry(rootCount) \in Nat
  BY ChunkTyped
<1>6. /\ Pushed(cs, v) \in Chunks /\ Len(Pushed(cs, v)) = Len(grown)
      /\ Entry(Pushed(cs, v), rootCount) = v
      /\ \A k \in Nat : ChunkOfEntry(k) <= Len(grown) /\ k # rootCount =>
           Entry(Pushed(cs, v), k) = Entry(grown, k)
  BY <1>1, <1>3, <1>5, PutIs
<1>7. Agree(Pushed(cs, v), cs, rootCount)
  BY <1>2, <1>4, <1>6 DEF Agree
<1> QED
  BY <1>1, <1>6, <1>7 DEF Chunked

LEMMA EntryTyped ==
  ASSUME NEW cs \in Chunks, NEW n \in Nat, ChunkOfEntry(n) <= Len(cs)
  PROVE  Entry(cs, n) \in Item
<1>1. ChunkOfEntry(n) \in Nat \ {0} /\ Slot(n) \in 1..ChunkSize /\ Len(cs) \in Nat
  BY ChunkTyped, LenProperties DEF Chunks
<1>2. cs[ChunkOfEntry(n)] \in [1..ChunkSize -> Item]
  BY <1>1, ElementOfSeq DEF Chunks
<1> QED
  BY <1>1, <1>2 DEF Entry

\* The chunks that are left when the entries before n are.
LEMMA ChunksLeft ==
  ASSUME NEW cs \in Chunks, NEW n \in Nat \ {0}, Len(cs) = ChunkOfEntry(n)
  PROVE  LET ds == IF Boundary(n) THEN Front(cs) ELSE cs IN
         Chunked(ds, n) /\ Agree(ds, cs, n)
<1> DEFINE ds == IF Boundary(n) THEN Front(cs) ELSE cs
<1>1. n - 1 \in Nat /\ n = (n - 1) + 1
  OBVIOUS
<1>2. /\ ChunkOfEntry(n) = ChunkOfEntry(n - 1) + (IF Boundary(n) THEN 1 ELSE 0)
      /\ ChunkOfEntry(n - 1) \in Nat \ {0}
  BY <1>1, ChunkNext, ChunkTyped
<1>3. \A k \in 0 .. n - 1 : k \in Nat /\ ChunkOfEntry(k) <= ChunkOfEntry(n - 1)
  BY <1>1, ChunkRises
<1>4. CASE Boundary(n)
  <2>1. Len(cs) - 1 = ChunkOfEntry(n - 1) /\ Len(cs) - 1 \in 0 .. Len(cs)
    BY <1>2, <1>4
  <2>2. /\ SubSeq(cs, 1, Len(cs) - 1) \in Chunks /\ Len(SubSeq(cs, 1, Len(cs) - 1)) = ChunkOfEntry(n - 1)
        /\ \A k \in Nat : ChunkOfEntry(k) <= ChunkOfEntry(n - 1) =>
             Entry(SubSeq(cs, 1, Len(cs) - 1), k) = Entry(cs, k)
    BY <2>1, CutIs
  <2> QED
    BY <1>3, <1>4, <2>2 DEF Chunked, Agree, Front
<1>5. CASE ~Boundary(n)
  BY <1>2, <1>5 DEF Chunked, Agree
<1> QED
  BY <1>4, <1>5

\* js_LeaveLocalRootScopeWithResult.
LEMMA LeaveIs ==
  ASSUME Chunked(rootChunks, rootCount), scopeMark \in 0 .. rootCount - 1,
         NEW r \in Values \cup {NoRoot}, LeaveScope(r)
  PROVE  /\ scopeMark' = Entry(rootChunks, scopeMark)
         /\ Chunked(rootChunks', rootCount') /\ Agree(rootChunks', rootChunks, scopeMark)
         /\ rootCount' = IF r # NoRoot /\ scopeMark # 0 THEN scopeMark + 1 ELSE scopeMark
         /\ r # NoRoot /\ scopeMark # 0 => Entry(rootChunks', scopeMark) = r
<1> DEFINE n == scopeMark
           left == SubSeq(rootChunks, 1, ChunkOfEntry(n))
<1>1. rootCount - 1 \in Nat /\ n \in Nat /\ n <= rootCount - 1
      /\ rootChunks \in Chunks /\ Len(rootChunks) = ChunkOfEntry(rootCount - 1)
  BY DEF Chunked
<1>2. /\ ChunkOfEntry(n) \in Nat \ {0} /\ ChunkOfEntry(n) <= Len(rootChunks)
      /\ Len(rootChunks) \in Nat
      /\ Len(rootChunks) - ((rootCount - 1) \div ChunkSize - n \div ChunkSize) = ChunkOfEntry(n)
  <2>1. ChunkOfEntry(n) \in Nat \ {0} /\ ChunkOfEntry(rootCount - 1) \in Nat \ {0}
        /\ ChunkOfEntry(n) <= ChunkOfEntry(rootCount - 1)
    BY <1>1, ChunkTyped, ChunkRises
  <2>2. (rootCount - 1) \div ChunkSize = ChunkOfEntry(rootCount - 1) - 1 /\ n \div ChunkSize = ChunkOfEntry(n) - 1
    BY <1>1, LocalRootsAssumption DEF ChunkOfEntry
  <2> QED
    BY <1>1, <2>1, <2>2
<1>3. /\ scopeMark' = Last(left)[Slot(n)]
      /\ rootCount' = IF r # NoRoot /\ n # 0 THEN n + 1 ELSE n
      /\ rootChunks' = IF n = 0 THEN <<>>
                       ELSE IF r # NoRoot /\ n # 0 THEN Put(left, Len(left), n, r)
                       ELSE IF Boundary(n) THEN Front(left) ELSE left
  BY <1>2 DEF LeaveScope
<1>4. /\ left \in Chunks /\ Len(left) = ChunkOfEntry(n)
      /\ \A k \in Nat : ChunkOfEntry(k) <= ChunkOfEntry(n) => Entry(left, k) = Entry(rootChunks, k)
  BY <1>1, <1>2, CutIs
<1> HIDE DEF left
<1>5. scopeMark' = Entry(rootChunks, n)
  <2>1. scopeMark' = Entry(left, n)
    BY <1>3, <1>4 DEF Last, Entry
  <2> QED
    BY <1>1, <1>2, <1>4, <2>1
<1>6. \A k \in 0 .. n - 1 : k \in Nat /\ k # n /\ ChunkOfEntry(k) <= ChunkOfEntry(n)
  BY <1>1, ChunkRises
<1>7. CASE n = 0
  <2>1. rootChunks' = <<>> /\ rootCount' = 0 /\ <<>> \in Chunks /\ Len(<<>>) = 0
    BY <1>3, <1>7, EmptySeq DEF Chunks
  <2> QED
    BY <1>3, <1>5, <1>7, <2>1 DEF Chunked, Agree
<1>8. CASE n # 0 /\ r # NoRoot
  <2>1. rootChunks' = Put(left, ChunkOfEntry(n), n, r) /\ rootCount' = n + 1 /\ r \in Item
    BY <1>3, <1>4, <1>8 DEF Item
  <2>2. /\ rootChunks' \in Chunks /\ Len(rootChunks') = ChunkOfEntry(n) /\ Entry(rootChunks', n) = r
        /\ \A k \in Nat : ChunkOfEntry(k) <= ChunkOfEntry(n) /\ k # n =>
             Entry(rootChunks', k) = Entry(left, k)
    BY <1>1, <1>2, <1>4, <2>1, PutIs
  <2>3. Agree(rootChunks', rootChunks, n)
    BY <1>4, <1>6, <2>2 DEF Agree
  <2>4. Chunked(rootChunks', rootCount')
    BY <1>1, <2>1, <2>2 DEF Chunked
  <2> QED
    BY <1>3, <1>5, <2>2, <2>3, <2>4
<1>9. CASE n # 0 /\ r = NoRoot
  <2>1. rootChunks' = (IF Boundary(n) THEN Front(left) ELSE left) /\ rootCount' = n /\ n \in Nat \ {0}
    BY <1>1, <1>3, <1>9
  <2>2. Chunked(rootChunks', n) /\ Agree(rootChunks', left, n)
    BY <1>4, <2>1, ChunksLeft
  <2>3. Agree(rootChunks', rootChunks, n)
    BY <1>4, <1>6, <2>2 DEF Agree
  <2> QED
    BY <1>3, <1>5, <1>9, <2>1, <2>2, <2>3
<1> QED
  BY <1>7, <1>8, <1>9

\* js_ForgetLocalRoot: the last entry takes the place of the i-th.
LEMMA ForgetIs ==
  ASSUME Chunked(rootChunks, rootCount), scopeMark \in Nat, NEW v \in Values, ForgetRoot(v)
  PROVE  \E i \in scopeMark + 1 .. rootCount - 1 :
           /\ Entry(rootChunks, i) = v
           /\ rootCount' = rootCount - 1 /\ Chunked(rootChunks', rootCount')
           /\ \A k \in 0 .. rootCount' - 1 :
                Entry(rootChunks', k) = Entry(rootChunks, IF k = i THEN rootCount - 1 ELSE k)
<1> DEFINE n == rootCount - 1
           found == {i \in scopeMark + 1..n : Root(i) = v}
           i == CHOOSE j \in found : \A k \in found : k <= j
           es == Put(Refilled(i, n), Len(rootChunks), n, NoRoot)
<1>1. /\ found # {} /\ scopeMark < n /\ rootCount' = n
      /\ rootChunks' = IF Boundary(n) THEN Front(es) ELSE es
  BY DEF ForgetRoot
<1>2. /\ n \in Nat \ {0} /\ rootChunks \in Chunks /\ Len(rootChunks) = ChunkOfEntry(n)
      /\ rootCount \in Nat
  BY <1>1 DEF Chunked
<1>3. i \in found
  <2>1. {n - k : k \in found} \subseteq Nat /\ {n - k : k \in found} # {}
    BY <1>1, <1>2
  <2>2. PICK d \in {n - k : k \in found} : \A e \in {n - k : k \in found} : d <= e
    BY <2>1, LeastNumber
  <2>3. PICK j \in found : d = n - j
    OBVIOUS
  <2>4. \A k \in found : k <= j
    <3>1. ASSUME NEW k \in found PROVE k <= j
      <4>1. n - j <= n - k
        BY <2>2, <2>3
      <4> QED
        BY <1>2, <4>1
    <3> QED
      BY <3>1
  <2> QED
    BY <2>4
<1>4. i \in Nat /\ i \in scopeMark + 1 .. n /\ Root(i) = v
  BY <1>3
<1> HIDE DEF i, found
<1>5. /\ Walk(i) = ChunkOfEntry(i) /\ Root(i) = Entry(rootChunks, i) /\ Root(n) = Entry(rootChunks, n)
      /\ ChunkOfEntry(i) <= ChunkOfEntry(n) /\ ChunkOfEntry(n) \in Nat
  BY <1>2, <1>4, WalkIs, ChunkRises, ChunkTyped
<1>6. Root(n) \in Item /\ NoRoot \in Item
  BY <1>2, <1>5, EntryTyped DEF Item
<1>7. /\ Refilled(i, n) \in Chunks /\ Len(Refilled(i, n)) = ChunkOfEntry(n)
      /\ Entry(Refilled(i, n), i) = Root(n)
      /\ \A k \in Nat : ChunkOfEntry(k) <= ChunkOfEntry(n) /\ k # i =>
           Entry(Refilled(i, n), k) = Entry(rootChunks, k)
  BY <1>2, <1>4, <1>5, <1>6, PutIs DEF Refilled
<1>8. es = Put(Refilled(i, n), ChunkOfEntry(n), n, NoRoot)
  BY <1>2
<1>9. /\ es \in Chunks /\ Len(es) = ChunkOfEntry(n)
      /\ \A k \in Nat : ChunkOfEntry(k) <= ChunkOfEntry(n) /\ k # n =>
           Entry(es, k) = Entry(Refilled(i, n), k)
  BY <1>2, <1>5, <1>6, <1>7, <1>8, PutIs
<1> HIDE DEF es
<1>10. Chunked(rootChunks', n) /\ Agree(rootChunks', es, n)
  BY <1>1, <1>2, <1>9, ChunksLeft
<1>11. ASSUME NEW k \in 0 .. n - 1
       PROVE  Entry(rootChunks', k) = Entry(rootChunks, IF k = i THEN n ELSE k)
  <2>1. k \in Nat /\ k # n /\ ChunkOfEntry(k) <= ChunkOfEntry(n)
    BY <1>2, ChunkRises
  <2>2. Entry(rootChunks', k) = Entry(Refilled(i, n), k)
    BY <1>9, <1>10, <2>1 DEF Agree
  <2> QED
    BY <1>5, <1>7, <2>1, <2>2
<1> QED
  BY <1>1, <1>4, <1>5, <1>10, <1>11
-------------------------------------------------------------------------------
(***************************************************************************)
(* What the open scopes hold.                                              *)
(***************************************************************************)
Shuffles(f, n) ==
  /\ \A i, j \in 1..n : f[i] = f[j] => i = j
  /\ \A y \in 1..n : \E x \in 1..n : f[x] = y

\* The entries behind the a-th are those of t, in some order.
Holds(cs, a, t) ==
  \E f \in [1..Len(t) -> 1..Len(t)] :
    Shuffles(f, Len(t)) /\ \A i \in 1..Len(t) : Entry(cs, a + i) = t[f[i]]

LEMMA HoldsStays ==
  ASSUME NEW cs, NEW ds, NEW a \in Nat, NEW t \in Seq(Values), Holds(cs, a, t),
         Agree(ds, cs, a + Len(t) + 1)
  PROVE  Holds(ds, a, t)
<1>1. \A i \in 1..Len(t) : Entry(ds, a + i) = Entry(cs, a + i)
  BY LenProperties DEF Agree
<1> QED
  BY <1>1 DEF Holds

LEMMA HoldsNothing == ASSUME NEW cs, NEW a PROVE Holds(cs, a, <<>>)
<1>1. Len(<<>>) = 0
  BY EmptySeq
<1>2. [i \in {} |-> i] \in [{} -> {}] /\ 1..0 = {}
  OBVIOUS
<1> QED
  BY <1>1, <1>2 DEF Holds, Shuffles

LEMMA HoldsMore ==
  ASSUME NEW cs, NEW ds, NEW a \in Nat, NEW t \in Seq(Values), Holds(cs, a, t),
         Agree(ds, cs, a + Len(t) + 1), NEW v \in Values, Entry(ds, a + Len(t) + 1) = v
  PROVE  Holds(ds, a, Append(t, v))
<1> DEFINE n == Len(t)
           u == Append(t, v)
<1>1. n \in Nat /\ Len(u) = n + 1 /\ u[n + 1] = v /\ \A i \in 1..n : u[i] = t[i]
  BY LenProperties, AppendProperties
<1>2. PICK f \in [1..n -> 1..n] :
        Shuffles(f, n) /\ \A i \in 1..n : Entry(cs, a + i) = t[f[i]]
  BY DEF Holds
<1> DEFINE g == [i \in 1..n + 1 |-> IF i = n + 1 THEN n + 1 ELSE f[i]]
<1> HIDE DEF u
<1>3. /\ g \in [1..n + 1 -> 1..n + 1] /\ g[n + 1] = n + 1
      /\ \A i \in 1..n : g[i] = f[i] /\ f[i] \in 1..n
  <2>1. \A i \in 1..n + 1 : i = n + 1 \/ (i \in 1..n /\ f[i] \in 1..n /\ f[i] \in 1..n + 1)
    BY <1>1
  <2>2. n + 1 \in 1..n + 1 /\ \A i \in 1..n : i \in 1..n + 1 /\ i # n + 1 /\ f[i] \in 1..n
    BY <1>1
  <2> QED
    BY <2>1, <2>2
<1>4. \A i \in 1..n : Entry(ds, a + i) = Entry(cs, a + i)
  BY <1>1 DEF Agree
<1> HIDE DEF g
<1>5. \A i \in 1..n + 1 : i \in 1..n \/ i = n + 1
  BY <1>1
<1>6. Shuffles(g, n + 1)
  <2>1. ASSUME NEW i \in 1..n + 1, NEW j \in 1..n + 1, g[i] = g[j] PROVE i = j
    <3>1. \A k \in 1..n : g[k] # n + 1
      BY <1>1, <1>3
    <3>2. CASE i = n + 1 \/ j = n + 1
      BY <1>3, <1>5, <2>1, <3>1, <3>2
    <3>3. CASE i \in 1..n /\ j \in 1..n
      BY <1>2, <1>3, <2>1, <3>3 DEF Shuffles
    <3> QED
      BY <1>5, <3>2, <3>3
  <2>2. ASSUME NEW y \in 1..n + 1 PROVE \E x \in 1..n + 1 : g[x] = y
    <3>1. CASE y = n + 1
      BY <1>1, <1>3, <3>1
    <3>2. CASE y \in 1..n
      <4>1. PICK x \in 1..n : f[x] = y
        BY <1>2, <3>2 DEF Shuffles
      <4>2. x \in 1..n + 1
        BY <1>1
      <4> QED
        BY <1>3, <4>1, <4>2
    <3> QED
      BY <1>5, <3>1, <3>2
  <2> QED
    BY <2>1, <2>2 DEF Shuffles
<1>7. ASSUME NEW i \in 1..n + 1 PROVE Entry(ds, a + i) = u[g[i]]
  <2>1. CASE i = n + 1
    <3>1. a + i = a + Len(t) + 1
      BY <1>1, <2>1
    <3> QED
      BY <1>1, <1>3, <2>1, <3>1
  <2>2. CASE i \in 1..n
    BY <1>1, <1>2, <1>3, <1>4, <2>2
  <2> QED
    BY <1>5, <2>1, <2>2
<1>8. \E h \in [1..Len(u) -> 1..Len(u)] :
        Shuffles(h, Len(u)) /\ \A i \in 1..Len(u) : Entry(ds, a + i) = u[h[i]]
  BY <1>1, <1>3, <1>6, <1>7
<1> QED
  BY <1>8 DEF Holds, u

LEMMA RemoveAtIs ==
  ASSUME NEW S, NEW t \in Seq(S), NEW at \in 1..Len(t)
  PROVE  /\ RemoveAt(t, at) \in Seq(S) /\ Len(RemoveAt(t, at)) = Len(t) - 1
         /\ \A i \in 1..Len(t) - 1 : RemoveAt(t, at)[i] = IF i < at THEN t[i] ELSE t[i + 1]
<1> DEFINE l == SubSeq(t, 1, at - 1)
           r == SubSeq(t, at + 1, Len(t))
<1>1. Len(t) \in Nat /\ \A i \in 1..Len(t) : t[i] \in S
  BY LenProperties, ElementOfSeq
<1>2. /\ l \in Seq(S) /\ Len(l) = at - 1
      /\ \A i \in 1..at - 1 : l[i] = t[i]
  BY <1>1, SubSeqProperties
<1>3. /\ r \in Seq(S) /\ Len(r) = Len(t) - at
      /\ \A i \in 1..Len(t) - at : r[i] = t[at + i]
  <2>1. at + 1 \in Int /\ \A i \in at + 1..Len(t) : t[i] \in S
    BY <1>1
  <2>2. /\ r \in Seq(S) /\ Len(r) = (IF at + 1 <= Len(t) THEN Len(t) - (at + 1) + 1 ELSE 0)
        /\ \A i \in 1..Len(t) - (at + 1) + 1 : r[i] = t[(at + 1) + i - 1]
    BY <1>1, <2>1, SubSeqProperties
  <2>3. \A i \in 1..Len(t) - at : i \in 1..Len(t) - (at + 1) + 1 /\ (at + 1) + i - 1 = at + i
    BY <1>1
  <2> QED
    BY <1>1, <2>2, <2>3
<1> HIDE DEF l, r
<1>4. /\ l \o r \in Seq(S) /\ Len(l \o r) = Len(t) - 1
      /\ \A i \in 1..Len(t) - 1 : (l \o r)[i] = IF i <= at - 1 THEN l[i] ELSE r[i - (at - 1)]
  <2>1. /\ l \o r \in Seq(S) /\ Len(l \o r) = Len(l) + Len(r)
        /\ \A i \in 1..Len(l) + Len(r) : (l \o r)[i] = IF i <= Len(l) THEN l[i] ELSE r[i - Len(l)]
    BY <1>2, <1>3, ConcatProperties
  <2>2. Len(l) + Len(r) = Len(t) - 1
    BY <1>1, <1>2, <1>3
  <2> QED
    BY <1>2, <2>1, <2>2
<1>5. ASSUME NEW i \in 1..Len(t) - 1
      PROVE  (l \o r)[i] = IF i < at THEN t[i] ELSE t[i + 1]
  <2>1. CASE i < at
    BY <1>1, <1>2, <1>4, <2>1
  <2>2. CASE ~(i < at)
    <3>1. i - (at - 1) \in 1..Len(t) - at /\ at + (i - (at - 1)) = i + 1
      BY <1>1, <2>2
    <3> QED
      BY <1>1, <1>3, <1>4, <2>2, <3>1
  <2> QED
    BY <2>1, <2>2
<1>6. RemoveAt(t, at) = l \o r
  BY DEF RemoveAt, l, r
<1> QED
  BY <1>4, <1>5, <1>6

LEMMA HoldsLess ==
  ASSUME NEW cs, NEW ds, NEW a \in Nat, NEW t \in Seq(Values), Holds(cs, a, t),
         NEW i \in 1..Len(t), NEW at \in 1..Len(t), t[at] = Entry(cs, a + i),
         \A k \in 1..Len(t) - 1 : Entry(ds, a + k) = Entry(cs, IF k = i THEN a + Len(t) ELSE a + k)
  PROVE  Holds(ds, a, RemoveAt(t, at))
<1> DEFINE n == Len(t)
           u == RemoveAt(t, at)
<1>1. n \in Nat \ {0} /\ i \in 1..n /\ at \in 1..n /\ n \in 1..n
  BY LenProperties
<1>2. /\ Len(u) = n - 1
      /\ \A k \in 1..n - 1 : u[k] = IF k < at THEN t[k] ELSE t[k + 1]
  BY RemoveAtIs
<1> HIDE DEF u
<1>3. PICK f \in [1..n -> 1..n] :
        Shuffles(f, n) /\ \A k \in 1..n : Entry(cs, a + k) = t[f[k]]
  BY DEF Holds
\* The i-th entry is matched with the one that goes, ...
<1>4. PICK j \in 1..n : f[j] = at
  BY <1>1, <1>3 DEF Shuffles
<1> DEFINE turn(k) == IF k = i THEN j ELSE IF k = j THEN i ELSE k
           e == [k \in 1..n |-> f[turn(k)]]
<1>5. /\ \A k \in 1..n : turn(k) \in 1..n /\ turn(turn(k)) = k
      /\ turn(i) = j
  OBVIOUS
<1> HIDE DEF turn
<1>6. e \in [1..n -> 1..n] /\ e[i] = at /\ \A k \in 1..n : e[k] = f[turn(k)]
  BY <1>1, <1>4, <1>5
<1> HIDE DEF e
<1>7. \A k, l \in 1..n : e[k] = e[l] => k = l
  <2>1. ASSUME NEW k \in 1..n, NEW l \in 1..n, e[k] = e[l] PROVE turn(k) = turn(l)
    <3>1. turn(k) \in 1..n /\ turn(l) \in 1..n /\ f[turn(k)] = f[turn(l)]
      BY <1>5, <1>6, <2>1
    <3> QED
      BY <1>3, <3>1 DEF Shuffles
  <2> QED
    BY <1>5, <2>1
<1>8. ASSUME NEW y \in 1..n PROVE \E k \in 1..n : e[k] = y
  <2>1. PICK x \in 1..n : f[x] = y
    BY <1>3 DEF Shuffles
  <2> QED
    BY <1>5, <1>6, <2>1
<1>9. \A k \in 1..n : k # i => Entry(cs, a + k) = t[e[k]]
  <2>1. ASSUME NEW k \in 1..n, k # i PROVE Entry(cs, a + k) = t[e[k]]
    <3>1. CASE k = j
      <4>1. e[k] = f[i]
        BY <1>1, <1>5, <1>6, <3>1 DEF turn
      <4> QED
        BY <1>3, <1>4, <3>1, <4>1
    <3>2. CASE k # j
      BY <1>3, <1>6, <2>1, <3>2 DEF turn
    <3> QED
      BY <3>1, <3>2
  <2> QED
    BY <2>1
\* ... then the last one takes its place.
<1> DEFINE from(k) == IF k = i THEN n ELSE k
           into(y) == IF y < at THEN y ELSE y - 1
           g == [k \in 1..n - 1 |-> into(e[from(k)])]
<1>10. ASSUME NEW k \in 1..n - 1
      PROVE  /\ from(k) \in 1..n /\ from(k) # i /\ e[from(k)] \in 1..n /\ e[from(k)] # at
             /\ g[k] = into(e[from(k)]) /\ g[k] \in 1..n - 1 /\ t[e[from(k)]] = u[g[k]]
  <2>5. from(k) \in 1..n /\ from(k) # i
    BY <1>1
  <2>1. from(k) \in 1..n /\ from(k) # i /\ e[from(k)] \in 1..n
    BY <1>6, <2>5
  <2>2. e[from(k)] # at
    BY <1>1, <1>6, <1>7, <2>1
  <2>3. g[k] = into(e[from(k)])
    OBVIOUS
  <2>4. \A y \in 1..n : y # at => into(y) \in 1..n - 1 /\ t[y] = u[into(y)]
    BY <1>1, <1>2
  <2> QED
    BY <2>1, <2>2, <2>3, <2>4
<1>11. g \in [1..n - 1 -> 1..n - 1]
  BY <1>10
<1>12. ASSUME NEW k \in 1..n - 1, NEW l \in 1..n - 1, g[k] = g[l] PROVE k = l
  <2>1. e[from(k)] = e[from(l)]
    <3>1. \A y, z \in 1..n : y # at /\ z # at /\ into(y) = into(z) => y = z
      BY <1>1
    <3> QED
      BY <1>10, <1>12, <3>1
  <2>2. from(k) = from(l)
    BY <1>7, <1>10, <2>1
  <2> QED
    BY <1>1, <2>2
<1>13. ASSUME NEW y \in 1..n - 1 PROVE \E k \in 1..n - 1 : g[k] = y
  <2>1. PICK z \in 1..n : z # at /\ into(z) = y
    <3>1. CASE y < at
      <4>1. y \in 1..n /\ y # at /\ into(y) = y
        BY <1>1, <3>1
      <4> QED
        BY <4>1
    <3>2. CASE ~(y < at)
      <4>1. y + 1 \in 1..n /\ y + 1 # at /\ into(y + 1) = y
        BY <1>1, <3>2
      <4> QED
        BY <4>1
    <3> QED
      BY <3>1, <3>2
  <2>2. PICK x \in 1..n : e[x] = z
    BY <1>8
  <2>3. x # i
    BY <1>6, <2>1, <2>2
  <2>4. CASE x = n
    <3>1. i \in 1..n - 1 /\ from(i) = x
      BY <1>1, <2>3, <2>4
    <3> QED
      BY <1>10, <2>1, <2>2, <3>1
  <2>5. CASE x # n
    <3>1. x \in 1..n - 1 /\ from(x) = x
      BY <1>1, <2>3, <2>5
    <3> QED
      BY <1>10, <2>1, <2>2, <3>1
  <2> QED
    BY <2>4, <2>5
<1>14. ASSUME NEW k \in 1..n - 1 PROVE Entry(ds, a + k) = u[g[k]]
  <2>1. Entry(ds, a + k) = Entry(cs, a + from(k))
    OBVIOUS
  <2> QED
    BY <1>10, <1>9, <2>1
<1> HIDE DEF g
<1>16. Shuffles(g, n - 1)
  BY <1>12, <1>13 DEF Shuffles
<1>17. \E h \in [1..Len(u) -> 1..Len(u)] :
         Shuffles(h, Len(u)) /\ \A k \in 1..Len(u) : Entry(ds, a + k) = u[h[k]]
  BY <1>2, <1>11, <1>14, <1>16
<1> QED
  BY <1>17 DEF Holds, u

LEMMA HoldsThese ==
  ASSUME NEW cs, NEW a \in Nat, NEW t \in Seq(Values), Holds(cs, a, t)
  PROVE  {Entry(cs, a + i) : i \in 1..Len(t)} = ToSet(t)
<1>1. DOMAIN t = 1..Len(t)
  BY LenProperties
<1>2. PICK f \in [1..Len(t) -> 1..Len(t)] :
        Shuffles(f, Len(t)) /\ \A i \in 1..Len(t) : Entry(cs, a + i) = t[f[i]]
  BY DEF Holds
<1>3. ToSet(t) = {t[i] : i \in 1..Len(t)}
  BY <1>1 DEF ToSet
<1>4. ASSUME NEW i \in 1..Len(t) PROVE Entry(cs, a + i) \in ToSet(t)
  BY <1>2, <1>3
<1>5. ASSUME NEW y \in 1..Len(t) PROVE \E i \in 1..Len(t) : t[y] = Entry(cs, a + i)
  <2>1. PICK i \in 1..Len(t) : f[i] = y
    BY <1>2 DEF Shuffles
  <2> QED
    BY <1>2, <2>1
<1> QED
  BY <1>3, <1>4, <1>5
-------------------------------------------------------------------------------
(***************************************************************************)
(* The scopes ss lie on the stack of r entries one behind the other, the   *)
(* k-th from p[k] on, where the place of the one before it is kept.        *)
(***************************************************************************)
Framed(p, cs, r, mark, ss) ==
  LET n == Len(ss) IN
  /\ p \in [1..n -> Nat]
  /\ \A k \in 1..n : /\ p[k] = IF k = 1 THEN 0 ELSE p[k - 1] + Len(ss[k - 1]) + 1
                     /\ Entry(cs, p[k]) = IF k = 1 THEN NullMark ELSE p[k - 1]
                     /\ Holds(cs, p[k], ss[k])
  /\ \A i, k \in 1..n : i < k => p[i] + Len(ss[i]) < p[k]
  /\ r = IF n = 0 THEN 0 ELSE p[n] + Len(ss[n]) + 1
  /\ mark = IF n = 0 THEN NullMark ELSE p[n]

RootsInv ==
  /\ Chunked(rootChunks, rootCount) /\ scopes \in Seq(Seq(Values))
  /\ lastInternalResult = result
  /\ \E p \in [1..Len(scopes) -> 0..rootCount] :
       Framed(p, rootChunks, rootCount, scopeMark, scopes)

\* With no scope before it left out: where the k-th one ends.
LEMMA FramedIs ==
  ASSUME NEW p, NEW cs, NEW r, NEW mark, NEW ss \in Seq(Seq(Values)), Framed(p, cs, r, mark, ss)
  PROVE  /\ Len(ss) \in Nat /\ r \in Nat
         /\ \A k \in 1..Len(ss) : ss[k] \in Seq(Values) /\ Len(ss[k]) \in Nat /\ p[k] \in Nat
                                  /\ p[k] + Len(ss[k]) < r
         /\ ss # <<>> => /\ Len(ss) \in 1..Len(ss) /\ mark = p[Len(ss)] /\ mark \in Nat
                         /\ r = mark + Len(ss[Len(ss)]) + 1
         /\ ss = <<>> => r = 0 /\ mark = NullMark
<1> DEFINE n == Len(ss)
<1>1. n \in Nat /\ (ss # <<>> <=> n # 0)
  BY LenProperties, EmptySeq
<1>2. \A k \in 1..n : ss[k] \in Seq(Values) /\ Len(ss[k]) \in Nat /\ p[k] \in Nat
  BY ElementOfSeq, LenProperties DEF Framed
<1>3. n # 0 => n \in 1..n /\ mark = p[n] /\ mark \in Nat /\ r = mark + Len(ss[n]) + 1 /\ r \in Nat
  BY <1>1, <1>2 DEF Framed
<1>4. n = 0 => r = 0 /\ mark = NullMark
  BY DEF Framed
<1>5. ASSUME NEW k \in 1..n PROVE p[k] + Len(ss[k]) < r
  <2>1. k = n \/ k < n
    BY <1>1
  <2>2. k < n => p[k] + Len(ss[k]) < p[n]
    BY <1>3 DEF Framed
  <2> QED
    BY <1>1, <1>2, <1>3, <2>1, <2>2
<1> QED
  BY <1>1, <1>2, <1>3, <1>4, <1>5

\* What is left of the stack under entry m: the scopes that end before it.
LEMMA ScopeStays ==
  ASSUME NEW p, NEW cs, NEW r, NEW mark, NEW ss \in Seq(Seq(Values)), Framed(p, cs, r, mark, ss),
         NEW k \in 1..Len(ss), NEW ds, NEW m \in Nat, Agree(ds, cs, m), p[k] + Len(ss[k]) < m
  PROVE  Entry(ds, p[k]) = Entry(cs, p[k]) /\ Holds(ds, p[k], ss[k])
<1>1. p[k] \in Nat /\ Len(ss[k]) \in Nat /\ ss[k] \in Seq(Values) /\ Holds(cs, p[k], ss[k])
  BY FramedIs DEF Framed
<1>2. Entry(ds, p[k]) = Entry(cs, p[k]) /\ Agree(ds, cs, p[k] + Len(ss[k]) + 1)
  BY <1>1 DEF Agree
<1> QED
  BY <1>1, <1>2, HoldsStays

LEMMA TopChanges ==
  ASSUME NEW p, NEW cs, NEW r, NEW mark, NEW ss \in Seq(Seq(Values)), Framed(p, cs, r, mark, ss),
         ss # <<>>, NEW t \in Seq(Values), NEW ds, Agree(ds, cs, mark + 1), Holds(ds, mark, t)
  PROVE  Framed(p, ds, mark + Len(t) + 1, mark, [ss EXCEPT ![Len(ss)] = t])
<1> DEFINE n == Len(ss)
           us == [ss EXCEPT ![n] = t]
<1>1. n \in Nat /\ n \in 1..n /\ mark = p[n] /\ mark \in Nat /\ Len(t) \in Nat
  BY FramedIs, LenProperties
<1>2. Len(us) = n /\ \A k \in 1..n : us[k] = IF k = n THEN t ELSE ss[k]
  BY <1>1, ExceptSeq
<1> HIDE DEF us
<1>3. \A k \in 1..n : k # n => p[k] + Len(ss[k]) < mark
  BY <1>1 DEF Framed
<1>4. ASSUME NEW k \in 1..n
      PROVE  Entry(ds, p[k]) = Entry(cs, p[k]) /\ Holds(ds, p[k], us[k])
  <2>1. CASE k = n
    BY <1>1, <1>2, <2>1 DEF Agree
  <2>2. CASE k # n
    <3>1. p[k] + Len(ss[k]) < mark + 1 /\ mark + 1 \in Nat
      BY <1>1, <1>3, <2>2, FramedIs
    <3> QED
      BY <1>2, <2>2, <3>1, ScopeStays
  <2> QED
    BY <2>1, <2>2
<1>5. \A k \in 1..n : k # n => us[k] = ss[k]
  BY <1>2
<1>6. \A i, k \in 1..n : i < k => p[i] + Len(us[i]) < p[k]
  <2>1. \A i, k \in 1..n : i < k => i # n
    BY <1>1
  <2> QED
    BY <1>5, <2>1 DEF Framed
<1>7. \A k \in 1..n : p[k] = IF k = 1 THEN 0 ELSE p[k - 1] + Len(us[k - 1]) + 1
  <2>1. \A k \in 1..n : k # 1 => k - 1 \in 1..n /\ k - 1 # n
    BY <1>1
  <2> QED
    BY <1>5, <2>1 DEF Framed
<1>8. p \in [1..n -> Nat] /\ us[n] = t
  BY <1>1, <1>2 DEF Framed
<1>9. \A k \in 1..n : Entry(ds, p[k]) = IF k = 1 THEN NullMark ELSE p[k - 1]
  BY <1>4 DEF Framed
<1>10. n # 0 /\ mark + Len(t) + 1 = p[n] + Len(us[n]) + 1
  BY <1>1, <1>8
<1>11. Framed(p, ds, mark + Len(t) + 1, mark, us)
  BY <1>1, <1>2, <1>4, <1>6, <1>7, <1>8, <1>9, <1>10 DEF Framed
<1> QED
  BY <1>11 DEF us

LEMMA ScopeLeft ==
  ASSUME NEW p, NEW cs, NEW r, NEW mark, NEW ss \in Seq(Seq(Values)), Framed(p, cs, r, mark, ss),
         ss # <<>>, NEW ds, Agree(ds, cs, mark)
  PROVE  Framed([k \in 1..Len(ss) - 1 |-> p[k]], ds, mark, Entry(cs, mark), Front(ss))
<1> DEFINE n == Len(ss)
           us == Front(ss)
           q == [k \in 1..n - 1 |-> p[k]]
<1>1. n \in Nat /\ n \in 1..n /\ mark = p[n] /\ mark \in Nat
  BY FramedIs
<1>2. Len(us) = n - 1 /\ \A k \in 1..n - 1 : us[k] = ss[k]
  BY FrontIs
<1>3. q \in [1..n - 1 -> Nat] /\ \A k \in 1..n - 1 : q[k] = p[k] /\ k \in 1..n
  BY <1>1 DEF Framed
<1> HIDE DEF us, q
<1>4. \A k \in 1..n - 1 : p[k] + Len(ss[k]) < mark
  BY <1>1 DEF Framed
<1>5. \A k \in 1..n - 1 : Entry(ds, q[k]) = Entry(cs, p[k]) /\ Holds(ds, q[k], us[k])
  <2>1. ASSUME NEW k \in 1..n - 1
        PROVE  Entry(ds, p[k]) = Entry(cs, p[k]) /\ Holds(ds, p[k], ss[k])
    <3>1. k \in 1..n /\ mark \in Nat /\ p[k] + Len(ss[k]) < mark
      BY <1>1, <1>3, <1>4
    <3> QED
      BY <3>1, ScopeStays
  <2> QED
    BY <1>2, <1>3, <2>1
<1>6. \A k \in 1..n - 1 : k # 1 => k - 1 \in 1..n - 1
  BY <1>1
<1>7. \A k \in 1..n - 1 : q[k] = IF k = 1 THEN 0 ELSE q[k - 1] + Len(us[k - 1]) + 1
  BY <1>2, <1>3, <1>6 DEF Framed
<1>8. \A k \in 1..n - 1 : Entry(ds, q[k]) = IF k = 1 THEN NullMark ELSE q[k - 1]
  BY <1>3, <1>5, <1>6 DEF Framed
<1>9. \A i, k \in 1..n - 1 : i < k => q[i] + Len(us[i]) < q[k]
  BY <1>2, <1>3 DEF Framed
<1>10. /\ mark = IF n - 1 = 0 THEN 0 ELSE q[n - 1] + Len(us[n - 1]) + 1
       /\ Entry(cs, mark) = IF n - 1 = 0 THEN NullMark ELSE q[n - 1]
  <2>1. CASE n = 1
    BY <1>1, <2>1 DEF Framed
  <2>2. CASE n # 1
    <3>1. n - 1 # 0 /\ n - 1 \in 1..n - 1
      <4>1. \A m \in Nat : m \in 1..m /\ m # 1 => m - 1 # 0 /\ m - 1 \in 1..m - 1
        OBVIOUS
      <4> QED
        BY <1>1, <2>2, <4>1
    <3>2. /\ p[n] = p[n - 1] + Len(ss[n - 1]) + 1
          /\ Entry(cs, p[n]) = p[n - 1]
      BY <1>1, <2>2 DEF Framed
    <3> QED
      BY <1>1, <1>2, <1>3, <3>1, <3>2
  <2> QED
    BY <2>1, <2>2
<1> QED
  BY <1>2, <1>3, <1>5, <1>7, <1>8, <1>9, <1>10 DEF Framed, us, q

LEMMA ScopeEntered ==
  ASSUME NEW p, NEW cs, NEW r, NEW mark, NEW ss \in Seq(Seq(Values)), Framed(p, cs, r, mark, ss),
         NEW ds, Agree(ds, cs, r), Entry(ds, r) = mark
  PROVE  Framed([k \in 1..Len(ss) + 1 |-> IF k = Len(ss) + 1 THEN r ELSE p[k]],
                ds, r + 1, r, Append(ss, <<>>))
<1> DEFINE n == Len(ss)
           us == Append(ss, <<>>)
           q == [k \in 1..n + 1 |-> IF k = n + 1 THEN r ELSE p[k]]
<1>1. n \in Nat /\ r \in Nat /\ (n = 0 => r = 0 /\ mark = NullMark)
      /\ (n # 0 => n \in 1..n /\ mark = p[n] /\ r = p[n] + Len(ss[n]) + 1)
  BY FramedIs, EmptySeq
<1>2. <<>> \in Seq(Values) /\ Len(<<>>) = 0
  BY EmptySeq
<1>3. Len(us) = n + 1 /\ us[n + 1] = <<>> /\ \A k \in 1..n : us[k] = ss[k]
  BY <1>1, <1>2, AppendProperties
<1>4. q[n + 1] = r /\ \A k \in 1..n : q[k] = p[k] /\ p[k] \in Nat /\ p[k] + Len(ss[k]) < r
  <2>1. n + 1 \in 1..n + 1 /\ \A k \in 1..n : k \in 1..n + 1 /\ k # n + 1
    BY <1>1
  <2> QED
    BY <2>1, FramedIs
<1>5. \A k \in 1..n + 1 : k = n + 1 \/ k \in 1..n
  BY <1>1
<1>6. q \in [1..n + 1 -> Nat]
  <2>1. \A k \in 1..n + 1 : (IF k = n + 1 THEN r ELSE p[k]) \in Nat
    BY <1>1, <1>4, <1>5
  <2> QED
    BY <2>1
<1> HIDE DEF us, q
<1>7. \A k \in 1..n : Entry(ds, q[k]) = Entry(cs, p[k]) /\ Holds(ds, q[k], us[k])
  BY <1>1, <1>3, <1>4, ScopeStays
<1>8. \A k \in 1..n : k # 1 => k - 1 \in 1..n
  BY <1>1
<1>9. ASSUME NEW k \in 1..n + 1
      PROVE  /\ q[k] = IF k = 1 THEN 0 ELSE q[k - 1] + Len(us[k - 1]) + 1
             /\ Entry(ds, q[k]) = IF k = 1 THEN NullMark ELSE q[k - 1]
             /\ Holds(ds, q[k], us[k])
  <2>1. CASE k = n + 1
    <3>1. Holds(ds, q[k], us[k])
      BY <1>3, <2>1, HoldsNothing
    <3>2. CASE n = 0
      BY <1>1, <1>4, <2>1, <3>1, <3>2
    <3>3. CASE n # 0
      <4>1. k # 1 /\ k - 1 = n /\ n \in 1..n
        BY <1>1, <2>1, <3>3
      <4> QED
        BY <1>1, <1>3, <1>4, <2>1, <3>1, <3>3, <4>1
    <3> QED
      BY <3>2, <3>3
  <2>2. CASE k \in 1..n
    <3>1. p[k] = (IF k = 1 THEN 0 ELSE p[k - 1] + Len(ss[k - 1]) + 1)
          /\ Entry(cs, p[k]) = (IF k = 1 THEN NullMark ELSE p[k - 1])
      BY <2>2 DEF Framed
    <3> QED
      BY <1>3, <1>4, <1>7, <1>8, <2>2, <3>1
  <2> QED
    BY <1>5, <2>1, <2>2
<1>10. ASSUME NEW i \in 1..n + 1, NEW k \in 1..n + 1, i < k
       PROVE  q[i] + Len(us[i]) < q[k]
  <2>1. i \in 1..n
    BY <1>1, <1>10
  <2>2. CASE k = n + 1
    BY <1>3, <1>4, <2>1, <2>2
  <2>3. CASE k \in 1..n
    <3>1. p[i] + Len(ss[i]) < p[k]
      BY <1>10, <2>1, <2>3 DEF Framed
    <3> QED
      BY <1>3, <1>4, <2>1, <2>3, <3>1
  <2> QED
    BY <1>5, <2>2, <2>3
<1>11. n + 1 # 0 /\ r + 1 = q[n + 1] + Len(us[n + 1]) + 1 /\ r = q[n + 1]
  BY <1>1, <1>2, <1>3, <1>4
<1> QED
  BY <1>3, <1>6, <1>9, <1>10, <1>11 DEF Framed, us, q

LEMMA RootsInvInit == RootsInit => RootsInv
<1> SUFFICES ASSUME RootsInit PROVE RootsInv
  OBVIOUS
<1> USE DEF RootsInit
<1>1. Len(<<>>) = 0 /\ <<>> \in Chunks /\ <<>> \in Seq(Seq(Values))
  BY EmptySeq DEF Chunks
<1>2. Chunked(rootChunks, rootCount)
  BY <1>1 DEF Chunked
<1> DEFINE p == [k \in 1..0 |-> 0]
<1>3. p \in [1..0 -> 0..rootCount] /\ p \in [1..0 -> Nat] /\ 1..0 = {}
  OBVIOUS
<1>4. Framed(p, rootChunks, rootCount, scopeMark, scopes)
  BY <1>1, <1>3 DEF Framed
<1> QED
  BY <1>1, <1>2, <1>3, <1>4 DEF RootsInv

\* A frame found for the next state makes its invariant.
LEMMA FrameFound ==
  ASSUME Chunked(rootChunks, rootCount)', (scopes \in Seq(Seq(Values)))',
         lastInternalResult' = result',
         NEW p, Framed(p, rootChunks', rootCount', scopeMark', scopes')
  PROVE  RootsInv'
<1>1. p \in [1..Len(scopes') -> 0..rootCount']
  <2>1. \A k \in 1..Len(scopes') : p[k] \in 0..rootCount'
    BY FramedIs
  <2> QED
    BY <2>1 DEF Framed
<1> QED
  BY <1>1 DEF RootsInv

LEMMA PushKeeps == ASSUME RootsInv, NEW v \in Values, PushRoot(v) PROVE RootsInv'
<1>1. PICK p : Framed(p, rootChunks, rootCount, scopeMark, scopes)
  BY DEF RootsInv
<1> DEFINE t == scopes[Len(scopes)]
<1>2. /\ Chunked(rootChunks, rootCount) /\ scopes \in Seq(Seq(Values)) /\ rootChunks # <<>>
      /\ rootChunks' = Pushed(rootChunks, v) /\ rootCount' = rootCount + 1
      /\ scopes' = [scopes EXCEPT ![Len(scopes)] = Append(t, v)]
      /\ UNCHANGED <<scopeMark, lastInternalResult, result>> /\ lastInternalResult = result
  BY DEF RootsInv, PushRoot
<1>3. rootCount # 0 /\ scopes # <<>>
  BY <1>1, <1>2, FramedIs, EmptySeq DEF Chunked, Chunks
<1>4. /\ Chunked(rootChunks', rootCount') /\ Entry(rootChunks', rootCount) = v
      /\ Agree(rootChunks', rootChunks, rootCount)
  BY <1>2, <1>3, PushedIs DEF Chunked, Item
<1>5. /\ scopeMark \in Nat /\ t \in Seq(Values) /\ Len(t) \in Nat /\ Len(scopes) \in 1..Len(scopes)
      /\ rootCount = scopeMark + Len(t) + 1 /\ Holds(rootChunks, scopeMark, t)
  BY <1>1, <1>2, <1>3, FramedIs DEF Framed
<1>6. Holds(rootChunks', scopeMark, Append(t, v))
  BY <1>4, <1>5, HoldsMore
<1>7. Append(t, v) \in Seq(Values) /\ Len(Append(t, v)) = Len(t) + 1
  BY <1>5, AppendProperties
<1>8. Agree(rootChunks', rootChunks, scopeMark + 1)
  BY <1>4, <1>5 DEF Agree
<1>9. Framed(p, rootChunks', scopeMark + Len(Append(t, v)) + 1, scopeMark, scopes')
  BY <1>1, <1>2, <1>3, <1>6, <1>7, <1>8, TopChanges
<1>10. scopeMark + Len(Append(t, v)) + 1 = rootCount'
  BY <1>2, <1>5, <1>7
<1>11. scopes' \in Seq(Seq(Values))
  BY <1>2, <1>5, <1>7, ExceptSeq
<1> QED
  BY <1>2, <1>4, <1>9, <1>10, <1>11, FrameFound

LEMMA EnterKeeps == ASSUME RootsInv, EnterScope PROVE RootsInv'
<1>1. PICK p : Framed(p, rootChunks, rootCount, scopeMark, scopes)
  BY DEF RootsInv
<1> DEFINE cs == IF rootChunks = <<>> THEN <<Fresh>> ELSE rootChunks
           v == IF rootChunks = <<>> THEN NullMark ELSE scopeMark
<1>2. /\ Chunked(rootChunks, rootCount) /\ scopes \in Seq(Seq(Values))
      /\ rootChunks' = Pushed(cs, v) /\ rootCount' = rootCount + 1 /\ scopeMark' = rootCount
      /\ scopes' = Append(scopes, <<>>)
      /\ UNCHANGED <<lastInternalResult, result>> /\ lastInternalResult = result
  BY DEF RootsInv, EnterScope
<1>3. rootChunks = <<>> <=> rootCount = 0
  <2>1. rootChunks = <<>> <=> Len(rootChunks) = 0
    BY <1>2, EmptySeq DEF Chunked, Chunks
  <2>2. ASSUME rootCount # 0 PROVE Len(rootChunks) # 0
    <3>1. rootCount - 1 \in Nat /\ Len(rootChunks) = ChunkOfEntry(rootCount - 1)
      BY <1>2, <2>2 DEF Chunked
    <3> QED
      BY <3>1, ChunkTyped
  <2>3. rootCount = 0 => Len(rootChunks) = 0
    BY <1>2 DEF Chunked
  <2> QED
    BY <2>1, <2>2, <2>3
<1>4. cs \in Chunks /\ Len(cs) = (IF rootCount = 0 THEN 1 ELSE ChunkOfEntry(rootCount - 1))
  <2>1. Fresh \in [1..ChunkSize -> Item]
    BY DEF Fresh, Item
  <2>2. <<Fresh>> \in Chunks /\ Len(<<Fresh>>) = 1
    BY <2>1 DEF Chunks
  <2> QED
    BY <1>2, <1>3, <2>2 DEF Chunked
<1>5. v = scopeMark /\ v \in Item /\ rootCount \in Nat
  BY <1>1, <1>2, <1>3, FramedIs DEF Item, NullMark
<1>6. /\ Chunked(rootChunks', rootCount') /\ Entry(rootChunks', rootCount) = scopeMark
      /\ Agree(rootChunks', cs, rootCount)
  BY <1>2, <1>4, <1>5, PushedIs
<1>7. Agree(rootChunks', rootChunks, rootCount)
  BY <1>3, <1>5, <1>6 DEF Agree
<1>8. Framed([k \in 1..Len(scopes) + 1 |-> IF k = Len(scopes) + 1 THEN rootCount ELSE p[k]],
             rootChunks', rootCount', scopeMark', scopes')
  BY <1>1, <1>2, <1>6, <1>7, ScopeEntered
<1>9. scopes' \in Seq(Seq(Values))
  BY <1>2, EmptySeq, AppendProperties
<1> QED
  BY <1>2, <1>6, <1>8, <1>9, FrameFound

LEMMA LeaveKeeps ==
  ASSUME RootsInv, NEW r \in Values \cup {NoRoot}, LeaveScope(r) PROVE RootsInv'
<1>1. PICK p : Framed(p, rootChunks, rootCount, scopeMark, scopes)
  BY DEF RootsInv
<1> DEFINE outer == Front(scopes)
           q == [k \in 1..Len(scopes) - 1 |-> p[k]]
<1>2. /\ Chunked(rootChunks, rootCount) /\ scopes \in Seq(Seq(Values)) /\ rootCount # 0
      /\ lastInternalResult = result
      /\ lastInternalResult' = IF r # NoRoot /\ scopeMark = 0 THEN r ELSE lastInternalResult
      /\ scopes' = IF r = NoRoot \/ outer = <<>> THEN outer
                   ELSE [outer EXCEPT ![Len(outer)] = Append(@, r)]
      /\ result' = IF r # NoRoot /\ outer = <<>> THEN r ELSE result
  BY DEF RootsInv, LeaveScope
<1>3. scopes # <<>> /\ scopeMark \in 0 .. rootCount - 1 /\ scopeMark \in Nat
  <2>1. scopes # <<>>
    BY <1>1, <1>2, FramedIs
  <2>2. /\ scopeMark \in Nat /\ rootCount \in Nat /\ Len(scopes[Len(scopes)]) \in Nat
        /\ rootCount = scopeMark + Len(scopes[Len(scopes)]) + 1
    BY <1>1, <1>2, <2>1, FramedIs
  <2> QED
    BY <2>1, <2>2
<1>4. /\ scopeMark' = Entry(rootChunks, scopeMark)
      /\ Chunked(rootChunks', rootCount') /\ Agree(rootChunks', rootChunks, scopeMark)
      /\ rootCount' = (IF r # NoRoot /\ scopeMark # 0 THEN scopeMark + 1 ELSE scopeMark)
      /\ (r # NoRoot /\ scopeMark # 0 => Entry(rootChunks', scopeMark) = r)
  BY <1>2, <1>3, LeaveIs
<1>5. outer \in Seq(Seq(Values)) /\ Len(outer) = Len(scopes) - 1
  BY <1>2, <1>3, FrontIs
<1>6. Framed(q, rootChunks', scopeMark, scopeMark', outer)
  BY <1>1, <1>2, <1>3, <1>4, ScopeLeft
<1> HIDE DEF outer, q
<1>7. outer = <<>> <=> scopeMark = 0
  <2>1. outer = <<>> => scopeMark = 0
    <3>1. Len(outer) = 0 => scopeMark = 0
      BY <1>6 DEF Framed
    <3> QED
      BY <3>1, EmptySeq
  <2>2. ASSUME outer # <<>> PROVE scopeMark # 0
    <3>1. scopeMark' \in Nat /\ Len(outer[Len(outer)]) \in Nat
          /\ scopeMark = scopeMark' + Len(outer[Len(outer)]) + 1
      BY <1>5, <1>6, <2>2, FramedIs
    <3> QED
      BY <3>1
  <2> QED
    BY <2>1, <2>2
<1>8. lastInternalResult' = result'
  BY <1>2, <1>7
<1>9. CASE r = NoRoot \/ outer = <<>>
  <2>1. rootCount' = scopeMark /\ scopes' = outer
    BY <1>2, <1>4, <1>7, <1>9
  <2> QED
    BY <1>4, <1>5, <1>6, <1>8, <2>1, FrameFound
<1>10. CASE r # NoRoot /\ outer # <<>>
  <2> DEFINE t == outer[Len(outer)]
  <2>1. /\ rootCount' = scopeMark + 1 /\ Entry(rootChunks', scopeMark) = r /\ r \in Values
        /\ scopes' = [outer EXCEPT ![Len(outer)] = Append(t, r)]
    BY <1>2, <1>4, <1>7, <1>10
  <2>2. /\ scopeMark' \in Nat /\ t \in Seq(Values) /\ Len(t) \in Nat /\ Len(outer) \in 1..Len(outer)
        /\ scopeMark = scopeMark' + Len(t) + 1 /\ Holds(rootChunks', scopeMark', t)
    <3>1. /\ Len(outer) \in 1..Len(outer) /\ scopeMark' = q[Len(outer)] /\ scopeMark' \in Nat
          /\ scopeMark = scopeMark' + Len(t) + 1
      BY <1>5, <1>6, <1>10, FramedIs
    <3>2. t \in Seq(Values) /\ Len(t) \in Nat
      BY <1>5, <3>1, ElementOfSeq, LenProperties
    <3>3. Holds(rootChunks', q[Len(outer)], t)
      BY <1>6, <3>1 DEF Framed
    <3> QED
      BY <3>1, <3>2, <3>3
  <2>3. /\ Agree(rootChunks', rootChunks', scopeMark' + Len(t) + 1)
        /\ Agree(rootChunks', rootChunks', scopeMark' + 1)
    BY DEF Agree
  <2>4. Holds(rootChunks', scopeMark', Append(t, r))
    <3>1. Entry(rootChunks', scopeMark' + Len(t) + 1) = r
      BY <2>1, <2>2
    <3> HIDE DEF t
    <3> QED
      BY <2>1, <2>2, <2>3, <3>1, HoldsMore
  <2>5. Append(t, r) \in Seq(Values) /\ Len(Append(t, r)) = Len(t) + 1
    BY <2>1, <2>2, AppendProperties
  <2>6. Framed(q, rootChunks', scopeMark' + Len(Append(t, r)) + 1, scopeMark', scopes')
    <3>1. Framed(q, rootChunks', scopeMark' + Len(Append(t, r)) + 1, scopeMark',
                 [outer EXCEPT ![Len(outer)] = Append(t, r)])
      BY <1>5, <1>6, <1>10, <2>3, <2>4, <2>5, TopChanges
    <3> QED
      BY <2>1, <3>1
  <2>7. scopeMark' + Len(Append(t, r)) + 1 = rootCount'
    BY <2>1, <2>2, <2>5
  <2>8. scopes' \in Seq(Seq(Values))
    BY <1>5, <2>1, <2>2, <2>5, ExceptSeq
  <2> QED
    BY <1>4, <1>8, <2>6, <2>7, <2>8, FrameFound
<1> QED
  BY <1>9, <1>10

LEMMA ForgetKeeps == ASSUME RootsInv, NEW v \in Values, ForgetRoot(v) PROVE RootsInv'
<1>1. PICK p : Framed(p, rootChunks, rootCount, scopeMark, scopes)
  BY DEF RootsInv
<1> DEFINE N == Len(scopes)
           t == scopes[N]
           at == CHOOSE j \in DOMAIN t : t[j] = v
           n == Len(t)
<1>2. /\ Chunked(rootChunks, rootCount) /\ scopes \in Seq(Seq(Values)) /\ rootCount # 0
      /\ scopes' = [scopes EXCEPT ![N] = RemoveAt(t, at)]
      /\ UNCHANGED <<scopeMark, lastInternalResult, result>> /\ lastInternalResult = result
  BY DEF RootsInv, ForgetRoot
<1>3. scopes # <<>>
  BY <1>1, <1>2, FramedIs
<1>4. /\ scopeMark \in Nat /\ t \in Seq(Values) /\ n \in Nat /\ N \in 1..N
      /\ rootCount = scopeMark + n + 1 /\ Holds(rootChunks, scopeMark, t)
  BY <1>1, <1>2, <1>3, FramedIs DEF Framed
<1>5. PICK i \in scopeMark + 1 .. rootCount - 1 :
        /\ Entry(rootChunks, i) = v
        /\ rootCount' = rootCount - 1 /\ Chunked(rootChunks', rootCount')
        /\ \A k \in 0 .. rootCount' - 1 :
             Entry(rootChunks', k) = Entry(rootChunks, IF k = i THEN rootCount - 1 ELSE k)
  BY <1>2, <1>4, ForgetIs
<1>6. i - scopeMark \in 1..n /\ scopeMark + (i - scopeMark) = i
  BY <1>4
<1>7. at \in 1..n /\ t[at] = v
  <2>1. DOMAIN t = 1..n
    BY <1>4, LenProperties
  <2>2. PICK f \in [1..n -> 1..n] : \A k \in 1..n : Entry(rootChunks, scopeMark + k) = t[f[k]]
    BY <1>4 DEF Holds
  <2>3. f[i - scopeMark] \in DOMAIN t /\ t[f[i - scopeMark]] = v
    BY <1>5, <1>6, <2>1, <2>2
  <2> QED
    BY <2>1, <2>3
<1> HIDE DEF at
<1>8. ASSUME NEW k \in 1..n - 1
      PROVE  Entry(rootChunks', scopeMark + k) =
               Entry(rootChunks, IF k = i - scopeMark THEN scopeMark + n ELSE scopeMark + k)
  <2>1. /\ scopeMark + k \in 0 .. rootCount' - 1 /\ rootCount - 1 = scopeMark + n
        /\ scopeMark + k = i <=> k = i - scopeMark
    BY <1>4, <1>5
  <2> QED
    BY <1>5, <2>1
<1>9. Holds(rootChunks', scopeMark, RemoveAt(t, at))
  <2>1. t[at] = Entry(rootChunks, scopeMark + (i - scopeMark))
    BY <1>5, <1>6, <1>7
  <2> QED
    BY <1>4, <1>6, <1>7, <1>8, <2>1, HoldsLess
<1>10. RemoveAt(t, at) \in Seq(Values) /\ Len(RemoveAt(t, at)) = n - 1
  BY <1>4, <1>7, RemoveAtIs
<1>11. Agree(rootChunks', rootChunks, scopeMark + 1)
  <2>1. ASSUME NEW k \in 0 .. (scopeMark + 1) - 1
        PROVE  Entry(rootChunks', k) = Entry(rootChunks, k)
    <3>1. k \in 0 .. rootCount' - 1 /\ k # i
      BY <1>4, <1>5, <1>7
    <3> QED
      BY <1>5, <3>1
  <2>2. \A k \in 0 .. (scopeMark + 1) - 1 : Entry(rootChunks', k) = Entry(rootChunks, k)
    BY <2>1
  <2> QED
    BY <2>2 DEF Agree
<1>12. Framed(p, rootChunks', scopeMark + Len(RemoveAt(t, at)) + 1, scopeMark, scopes')
  BY <1>1, <1>2, <1>3, <1>9, <1>10, <1>11, TopChanges
<1>13. scopeMark + Len(RemoveAt(t, at)) + 1 = rootCount'
  BY <1>4, <1>5, <1>10
<1>14. scopes' \in Seq(Seq(Values))
  BY <1>2, <1>4, <1>10, ExceptSeq
<1> QED
  BY <1>2, <1>5, <1>12, <1>13, <1>14, FrameFound
LEMMA RootsInvNext == RootsInv /\ [RootsNext]_rootsVars => RootsInv'
<1> SUFFICES ASSUME RootsInv, [RootsNext]_rootsVars PROVE RootsInv'
  OBVIOUS
<1>1. CASE EnterScope
  BY <1>1, EnterKeeps
<1>2. ASSUME NEW v \in Values, PushRoot(v) PROVE RootsInv'
  BY <1>2, PushKeeps
<1>3. ASSUME NEW v \in Values, ForgetRoot(v) PROVE RootsInv'
  BY <1>3, ForgetKeeps
<1>4. ASSUME NEW r \in Values \cup {NoRoot}, LeaveScope(r) PROVE RootsInv'
  BY <1>4, LeaveKeeps
<1>5. CASE UNCHANGED rootsVars
  BY <1>5 DEF rootsVars, RootsInv, Chunked, Framed, Holds, Entry
<1> QED
  BY <1>1, <1>2, <1>3, <1>4, <1>5 DEF RootsNext
-------------------------------------------------------------------------------
\* The marks of the walk are the places of the scopes: from the last of them
\* it comes to each, and it comes to nothing else.
LEMMA MarksAre ==
  ASSUME Chunked(rootChunks, rootCount), scopes \in Seq(Seq(Values)),
         NEW p, Framed(p, rootChunks, rootCount, scopeMark, scopes)
  PROVE  Marks = {p[k] : k \in 1..Len(scopes)}
<1> DEFINE n == Len(scopes)
           P == {p[k] : k \in 1..n}
<1>1. n \in Nat /\ rootCount \in Nat /\ \A k \in 1..n : p[k] \in 0..rootCount - 1 /\ p[k] \in Nat
  <2>1. /\ n \in Nat /\ rootCount \in Nat
        /\ \A k \in 1..n : p[k] \in Nat /\ Len(scopes[k]) \in Nat /\ p[k] + Len(scopes[k]) < rootCount
    BY FramedIs
  <2> QED
    BY <2>1
<1>2. \A k \in 1..n : Root(p[k]) = IF k = 1 THEN NullMark ELSE p[k - 1]
  BY <1>1, WalkIs DEF Framed
<1>3. \A k \in 1..n : k # 1 => k - 1 \in 1..n
  BY <1>1
<1>4. P \in SUBSET (0..rootCount - 1) /\ LeadsBack(P)
  BY <1>1, <1>2, <1>3 DEF LeadsBack
<1>5. n # 0 => n \in 1..n /\ scopeMark = p[n]
  BY <1>1 DEF Framed
<1>6. Marks \subseteq P
  <2>1. CASE n = 0
    <3>1. rootCount = 0
      BY <2>1 DEF Framed
    <3> QED
      BY <3>1 DEF Marks
  <2>2. CASE n # 0
    BY <1>4, <1>5, <2>2 DEF Marks
  <2> QED
    BY <2>1, <2>2
<1>7. ASSUME NEW s \in SUBSET (0..rootCount - 1), scopeMark \in s, LeadsBack(s), NEW k \in 1..n
      PROVE  p[k] \in s
  <2> DEFINE T == {d \in Nat : d < n /\ p[n - d] \notin s}
  <2>1. SUFFICES ASSUME p[k] \notin s PROVE FALSE
    OBVIOUS
  <2>2. n - k \in T
    <3>1. n - k \in Nat /\ n - k < n /\ n - (n - k) = k
      BY <1>1
    <3> QED
      BY <2>1, <3>1
  <2>3. PICK d \in T : \A e \in T : d <= e
    <3> HIDE DEF T
    <3>1. T \subseteq Nat
      BY DEF T
    <3> QED
      BY <2>2, <3>1, LeastNumber
  <2>4. d \in Nat /\ d < n /\ p[n - d] \notin s
    OBVIOUS
  <2>5. d # 0
    BY <1>1, <1>5, <1>7, <2>4
  <2>6. d - 1 \in Nat /\ d - 1 < n /\ d - 1 \notin T /\ n - (d - 1) \in 1..n
        /\ n - (d - 1) # 1 /\ n - (d - 1) - 1 = n - d /\ n - d \in 1..n
    <3>1. n - d \in 1..n
      BY <1>1, <2>4
    <3>2. d - 1 \in Nat /\ d - 1 < n /\ ~(d <= d - 1) /\ n - (d - 1) - 1 = n - d
      BY <1>1, <2>4, <2>5
    <3>3. n - (d - 1) \in 1..n /\ n - (d - 1) # 1
      BY <1>1, <2>4, <2>5
    <3>4. d - 1 \notin T
      <4> HIDE DEF T
      <4> QED
        BY <2>3, <3>2
    <3> HIDE DEF T
    <3> QED
      BY <3>1, <3>2, <3>3, <3>4
  <2>7. p[n - (d - 1)] \in s
    BY <2>6
  <2> HIDE DEF T
  <2>8. Root(p[n - (d - 1)]) = p[n - d] /\ p[n - d] \in Nat
    BY <1>1, <1>2, <2>6
  <2>9. p[n - d] # NullMark
    BY <2>8 DEF NullMark
  <2> QED
    BY <1>7, <2>4, <2>7, <2>8, <2>9 DEF LeadsBack
<1>8. P \subseteq Marks
  BY <1>1, <1>7 DEF Marks
<1> QED
  BY <1>6, <1>8

\* Every entry is in the reach of a scope.
LEMMA Covers ==
  ASSUME NEW p, NEW cs, NEW r, NEW mark, NEW ss \in Seq(Seq(Values)), Framed(p, cs, r, mark, ss),
         NEW m \in 0..r - 1
  PROVE  \E k \in 1..Len(ss) : p[k] <= m /\ m <= p[k] + Len(ss[k])
<1> DEFINE n == Len(ss)
           T == {d \in Nat : d < n /\ p[n - d] <= m}
<1>1. /\ n \in Nat /\ r \in Nat /\ m \in Nat /\ m < r
      /\ \A k \in 1..n : p[k] \in Nat /\ Len(ss[k]) \in Nat
  <2>1. n \in Nat /\ r \in Nat /\ \A k \in 1..n : p[k] \in Nat /\ Len(ss[k]) \in Nat
    BY FramedIs
  <2> QED
    BY <2>1
<1>2. n # 0 /\ r = p[n] + Len(ss[n]) + 1
  BY <1>1 DEF Framed
<1>3. n - 1 \in T
  <2>1. 1 \in 1..n /\ n - (n - 1) = 1 /\ n - 1 \in Nat /\ n - 1 < n
    BY <1>1, <1>2
  <2>2. p[1] = 0
    BY <2>1 DEF Framed
  <2> QED
    BY <1>1, <2>1, <2>2
<1>4. PICK d \in T : \A e \in T : d <= e
  <2> HIDE DEF T
  <2>1. T \subseteq Nat
    BY DEF T
  <2> QED
    BY <1>3, <2>1, LeastNumber
<1>5. d \in Nat /\ d < n /\ p[n - d] <= m /\ n - d \in 1..n
  BY <1>1
<1>6. CASE d = 0
  <2>1. n - d = n /\ n \in 1..n
    BY <1>1, <1>2, <1>6
  <2>2. p[n] <= m /\ m <= p[n] + Len(ss[n])
    <3>1. p[n] \in Nat /\ Len(ss[n]) \in Nat
      BY <1>1, <2>1
    <3>2. p[n] <= m
      BY <1>5, <2>1
    <3> HIDE DEF T
    <3> QED
      BY <1>1, <1>2, <3>1, <3>2
  <2> QED
    BY <2>1, <2>2
<1>7. CASE d # 0
  <2>1. d - 1 \in Nat /\ d - 1 < n /\ d - 1 \notin T /\ n - (d - 1) \in 1..n
        /\ n - (d - 1) # 1 /\ n - (d - 1) - 1 = n - d
    <3>2. d - 1 \in Nat /\ d - 1 < n /\ ~(d <= d - 1) /\ n - (d - 1) - 1 = n - d
      BY <1>1, <1>5, <1>7
    <3>3. n - (d - 1) \in 1..n /\ n - (d - 1) # 1
      BY <1>1, <1>5, <1>7
    <3>4. d - 1 \notin T
      <4> HIDE DEF T
      <4> QED
        BY <1>4, <3>2
    <3> HIDE DEF T
    <3> QED
      BY <3>2, <3>3, <3>4
  <2>2. ~(p[n - (d - 1)] <= m)
    BY <2>1
  <2>3. p[n - (d - 1)] = p[n - d] + Len(ss[n - d]) + 1
    BY <2>1 DEF Framed
  <2>4. p[n - d] \in Nat /\ Len(ss[n - d]) \in Nat
    BY <1>1, <1>5
  <2> HIDE DEF T
  <2>5. m <= p[n - d] + Len(ss[n - d])
    BY <1>1, <2>2, <2>3, <2>4
  <2> QED
    BY <1>5, <2>5
<1> QED
  BY <1>6, <1>7

LEMMA EntriesAreNoMarks ==
  ASSUME NEW p, NEW cs, NEW r, NEW mark, NEW ss \in Seq(Seq(Values)), Framed(p, cs, r, mark, ss),
         NEW k \in 1..Len(ss), NEW j \in 1..Len(ss[k])
  PROVE  p[k] + j \in 0..r - 1 /\ \A l \in 1..Len(ss) : p[k] + j # p[l]
<1>1. /\ Len(ss) \in Nat /\ r \in Nat
      /\ \A l \in 1..Len(ss) : p[l] \in Nat /\ Len(ss[l]) \in Nat /\ p[l] + Len(ss[l]) < r
  BY FramedIs
<1>2. ASSUME NEW l \in 1..Len(ss) PROVE p[k] + j # p[l]
  <2>1. l < k => p[l] + Len(ss[l]) < p[k]
    BY DEF Framed
  <2>2. k < l => p[k] + Len(ss[k]) < p[l]
    BY DEF Framed
  <2>3. p[l] \in Nat /\ p[k] \in Nat /\ Len(ss[l]) \in Nat /\ Len(ss[k]) \in Nat
    BY <1>1
  <2>4. CASE l < k
    BY <2>1, <2>3, <2>4
  <2>5. CASE k < l
    BY <2>2, <2>3, <2>5
  <2>6. CASE l = k
    BY <2>3, <2>6
  <2> QED
    BY <1>1, <2>4, <2>5, <2>6
<1> QED
  BY <1>1, <1>2

LEMMA RootsInvScopes == RootsInv => RootsAreScopes
<1> SUFFICES ASSUME RootsInv PROVE RootsAreScopes
  OBVIOUS
<1>1. PICK p : Framed(p, rootChunks, rootCount, scopeMark, scopes)
  BY DEF RootsInv
<1>2. Chunked(rootChunks, rootCount) /\ scopes \in Seq(Seq(Values)) /\ lastInternalResult = result
  BY DEF RootsInv
<1> DEFINE n == Len(scopes)
           ofScopes == UNION {ToSet(s) : s \in ToSet(scopes)}
<1>3. /\ n \in Nat
      /\ \A k \in 1..n : scopes[k] \in Seq(Values) /\ Len(scopes[k]) \in Nat /\ p[k] \in Nat
  BY <1>1, <1>2, FramedIs
<1>4. Marks = {p[k] : k \in 1..n}
  BY <1>1, <1>2, MarksAre
<1>5. \A s : s \in ToSet(scopes) <=> \E k \in 1..n : s = scopes[k]
  BY <1>2, LenProperties DEF ToSet
<1>6. \A k \in 1..n : {Entry(rootChunks, p[k] + i) : i \in 1..Len(scopes[k])} = ToSet(scopes[k])
  BY <1>1, <1>3, HoldsThese DEF Framed
<1>7. MarkLocalRoots = ofScopes
  <2>1. ASSUME NEW m \in (0..rootCount - 1) \ Marks PROVE Root(m) \in ofScopes
    <3>1. PICK k \in 1..n : p[k] <= m /\ m <= p[k] + Len(scopes[k])
      BY <1>1, <1>2, Covers
    <3>2. m # p[k] /\ m \in Nat
      BY <1>2, <1>4 DEF Chunked
    <3>3. m - p[k] \in 1..Len(scopes[k]) /\ p[k] + (m - p[k]) = m
      BY <1>3, <3>1, <3>2
    <3>4. Root(m) = Entry(rootChunks, m)
      BY <1>2, WalkIs
    <3>5. Root(m) \in ToSet(scopes[k])
      BY <1>6, <3>3, <3>4
    <3> QED
      BY <1>5, <3>5
  <2>2. ASSUME NEW v \in ofScopes PROVE \E m \in (0..rootCount - 1) \ Marks : v = Root(m)
    <3>1. PICK k \in 1..n : v \in ToSet(scopes[k])
      BY <1>5
    <3>2. PICK i \in 1..Len(scopes[k]) : v = Entry(rootChunks, p[k] + i)
      BY <1>6, <3>1
    <3>3. p[k] + i \in 0..rootCount - 1 /\ \A l \in 1..n : p[k] + i # p[l]
      BY <1>1, <1>2, EntriesAreNoMarks
    <3>4. Root(p[k] + i) = Entry(rootChunks, p[k] + i)
      BY <1>2, <3>3, WalkIs
    <3>5. p[k] + i \in (0..rootCount - 1) \ Marks
      BY <1>4, <3>3
    <3> QED
      BY <3>2, <3>4, <3>5
  <2> HIDE DEF ofScopes
  <2> QED
    BY <2>1, <2>2 DEF MarkLocalRoots
<1>8. Len(rootChunks) = (rootCount + ChunkSize - 1) \div ChunkSize
  BY <1>2, ChunkCount DEF Chunked
<1>9. \A m \in 0..rootCount - 1 : Walk(m) = m \div ChunkSize + 1
  BY <1>2, WalkIs DEF ChunkOfEntry
<1> QED
  BY <1>2, <1>7, <1>8, <1>9 DEF RootsAreScopes

\* After every sequence of js_EnterLocalRootScope, js_PushLocalRoot,
\* js_ForgetLocalRoot and js_LeaveLocalRootScopeWithResult what a collection
\* marks from the stack is what the open scopes hold, its chunks are those its
\* entries need, the walk from chunk to chunk finds every entry, and a scope
\* leaves its result and nothing else (src/js/jscntxt.c:584-780).
THEOREM RootsStayScopes == RootsSpec => []RootsAreScopes
<1>1. RootsSpec => []RootsInv
  BY RootsInvInit, RootsInvNext, PTL DEF RootsSpec
<1> QED
  BY <1>1, RootsInvScopes, PTL
-------------------------------------------------------------------------------
(***************************************************************************)
(* Strings.  What each of them is, in the headers st, buffers mm, texts tx *)
(* and pointers gv.                                                        *)
(***************************************************************************)
StringRecords == [tag : {"free", "flat", "dependent"}, mutable : BOOLEAN,
                  buf : Buffers \cup {Absent}, base : Strings \cup {Absent},
                  start : Nat, len : Nat]

StringsTyped(st, mm, tx, gv) ==
  /\ st \in [Strings -> StringRecords] /\ mm \in [Buffers -> Texts \cup {Absent}]
  /\ tx \in [Strings -> Texts] /\ gv \in [Strings -> Buffers \cup {Absent}]

FlatReads(st, mm, tx, s) ==
  st[s].tag = "flat" =>
    /\ st[s].buf \in Buffers /\ mm[st[s].buf] \in Texts
    /\ st[s].len <= Len(mm[st[s].buf]) /\ tx[s] = SubSeq(mm[st[s].buf], 1, st[s].len)

DependentReads(st, tx, s) ==
  st[s].tag = "dependent" =>
    /\ st[s].base \in Strings /\ st[st[s].base].tag # "free"
    /\ st[s].start + st[s].len <= st[st[s].base].len
    /\ tx[s] = SubSeq(tx[st[s].base], st[s].start + 1, st[s].start + st[s].len)

Reads(st, mm, tx, gv, s) ==
  /\ FlatReads(st, mm, tx, s) /\ DependentReads(st, tx, s)
  /\ st[s].tag # "flat" => st[s].buf = Absent
  /\ st[s].tag # "free" => Len(tx[s]) = st[s].len
  /\ gv[s] # Absent => st[s].tag = "flat" /\ ~st[s].mutable /\ gv[s] = st[s].buf

\* A buffer in use has a string, and one only.
Owned(st, mm) ==
  /\ \A b \in Buffers : mm[b] # Absent => \E s \in Strings : st[s].buf = b
  /\ \A s, t \in Strings : st[s].buf = st[t].buf /\ st[s].buf # Absent => s = t

\* No string is among its own bases.
Descends(st) ==
  \E rank \in [Strings -> Nat] :
    \A s \in Strings : st[s].tag = "dependent" => rank[st[s].base] < rank[s]

StringsSound(st, mm, tx, gv) ==
  /\ StringsTyped(st, mm, tx, gv) /\ Owned(st, mm) /\ Descends(st)
  /\ \A s \in Strings : Reads(st, mm, tx, gv, s)

StringsInv == StringsSound(str, mem, text, given)

LEMMA TextIs ==
  \A t \in Texts : /\ Len(t) \in Nat
                   /\ \A m, n \in Nat : m + n <= Len(t) =>
                        /\ SubSeq(t, m + 1, m + n) \in Texts /\ Len(SubSeq(t, m + 1, m + n)) = n
                        /\ \A i \in 1..n : SubSeq(t, m + 1, m + n)[i] = t[m + i]
<1> SUFFICES ASSUME NEW t \in Texts
             PROVE  /\ Len(t) \in Nat
                    /\ \A m, n \in Nat : m + n <= Len(t) =>
                        /\ SubSeq(t, m + 1, m + n) \in Texts /\ Len(SubSeq(t, m + 1, m + n)) = n
                        /\ \A i \in 1..n : SubSeq(t, m + 1, m + n)[i] = t[m + i]
  OBVIOUS
<1> DEFINE S == UNION {ToSet(chars) : chars \in Literals}
<1>1. Len(t) \in Nat /\ t \in Seq(S) /\ \A i \in 1..Len(t) : t[i] \in S
  BY LenProperties, ElementOfSeq DEF Texts
<1> HIDE DEF S
<1>2. ASSUME NEW m \in Nat, NEW n \in Nat, m + n <= Len(t)
      PROVE  /\ SubSeq(t, m + 1, m + n) \in Seq(S) /\ Len(SubSeq(t, m + 1, m + n)) = n
             /\ \A i \in 1..n : SubSeq(t, m + 1, m + n)[i] = t[m + i]
  <2>1. \A i \in m + 1..m + n : t[i] \in S
    BY <1>1, <1>2
  <2>2. /\ SubSeq(t, m + 1, m + n) \in Seq(S)
        /\ Len(SubSeq(t, m + 1, m + n)) = (IF m + 1 <= m + n THEN (m + n) - (m + 1) + 1 ELSE 0)
        /\ \A i \in 1..(m + n) - (m + 1) + 1 : SubSeq(t, m + 1, m + n)[i] = t[(m + 1) + i - 1]
    BY <2>1, SubSeqProperties
  <2>3. (IF m + 1 <= m + n THEN (m + n) - (m + 1) + 1 ELSE 0) = n /\ (m + n) - (m + 1) + 1 = n
    OBVIOUS
  <2>4. \A i \in 1..n : (m + 1) + i - 1 = m + i
    OBVIOUS
  <2> QED
    BY <2>2, <2>3, <2>4
<1> QED
  BY <1>1, <1>2 DEF Texts, S

\* A part of a part.
LEMMA PartOfPart ==
  ASSUME NEW t \in Texts, NEW a \in Nat, NEW m \in Nat, a + m <= Len(t),
         NEW b \in Nat, NEW n \in Nat, b + n <= m
  PROVE  SubSeq(SubSeq(t, a + 1, a + m), b + 1, b + n) = SubSeq(t, (a + b) + 1, (a + b) + n)
<1> DEFINE u == SubSeq(t, a + 1, a + m)
           v == SubSeq(u, b + 1, b + n)
           w == SubSeq(t, (a + b) + 1, (a + b) + n)
<1>1. u \in Texts /\ Len(u) = m /\ \A i \in 1..m : u[i] = t[a + i]
  BY TextIs
<1>2. v \in Texts /\ Len(v) = n /\ \A i \in 1..n : v[i] = u[b + i]
  <2> HIDE DEF u
  <2> QED
    BY <1>1, TextIs
<1>3. a + b \in Nat /\ (a + b) + n <= Len(t)
  BY TextIs
<1>4. w \in Texts /\ Len(w) = n /\ \A i \in 1..n : w[i] = t[(a + b) + i]
  BY <1>3, TextIs
<1> HIDE DEF u, v, w
<1>5. ASSUME NEW i \in 1..n PROVE v[i] = w[i]
  <2>1. b + i \in 1..m /\ a + (b + i) = (a + b) + i
    OBVIOUS
  <2> QED
    BY <1>1, <1>2, <1>4, <2>1
<1>6. v = w
  BY <1>2, <1>4, <1>5, SeqEqual DEF Texts
<1> QED
  BY <1>6 DEF u, v, w

LEMMA WholeText == ASSUME NEW t \in Texts PROVE SubSeq(t, 1, Len(t)) = t
<1>1. Len(t) \in Nat /\ 0 + Len(t) <= Len(t) /\ 0 + 1 = 1 /\ 0 + Len(t) = Len(t) /\ 0 \in Nat
  BY TextIs
<1>2. /\ SubSeq(t, 0 + 1, 0 + Len(t)) \in Texts /\ Len(SubSeq(t, 0 + 1, 0 + Len(t))) = Len(t)
      /\ \A i \in 1..Len(t) : SubSeq(t, 0 + 1, 0 + Len(t))[i] = t[0 + i]
  BY <1>1, TextIs
<1>3. SubSeq(t, 1, Len(t)) \in Texts /\ Len(SubSeq(t, 1, Len(t))) = Len(t)
      /\ \A i \in 1..Len(t) : SubSeq(t, 1, Len(t))[i] = t[i]
  BY <1>1, <1>2
<1> QED
  BY <1>3, SeqEqual DEF Texts

LEMMA FirstOfBoth ==
  ASSUME NEW t \in Texts, NEW u \in Texts
  PROVE  /\ t \o u \in Texts /\ Len(t \o u) = Len(t) + Len(u)
         /\ SubSeq(t \o u, 1, Len(t)) = t
<1>1. t \o u \in Texts /\ Len(t \o u) = Len(t) + Len(u)
      /\ \A i \in 1..Len(t) + Len(u) : (t \o u)[i] = IF i <= Len(t) THEN t[i] ELSE u[i - Len(t)]
  BY ConcatProperties DEF Texts
<1>2. Len(t) \in Nat /\ Len(u) \in Nat /\ 0 + Len(t) <= Len(t) + Len(u) /\ 0 + 1 = 1 /\ 0 + Len(t) = Len(t) /\ 0 \in Nat
  BY TextIs
<1>3. /\ SubSeq(t \o u, 0 + 1, 0 + Len(t)) \in Texts /\ Len(SubSeq(t \o u, 0 + 1, 0 + Len(t))) = Len(t)
      /\ \A i \in 1..Len(t) : SubSeq(t \o u, 0 + 1, 0 + Len(t))[i] = (t \o u)[0 + i]
  <2> DEFINE w == t \o u
  <2>1. w \in Texts /\ 0 + Len(t) <= Len(w)
    BY <1>1, <1>2
  <2> HIDE DEF w
  <2>2. /\ SubSeq(w, 0 + 1, 0 + Len(t)) \in Texts /\ Len(SubSeq(w, 0 + 1, 0 + Len(t))) = Len(t)
        /\ \A i \in 1..Len(t) : SubSeq(w, 0 + 1, 0 + Len(t))[i] = w[0 + i]
    BY <1>2, <2>1, TextIs
  <2> QED
    BY <2>2 DEF w
<1>4. SubSeq(t \o u, 1, Len(t)) \in Texts /\ Len(SubSeq(t \o u, 1, Len(t))) = Len(t)
      /\ \A i \in 1..Len(t) : SubSeq(t \o u, 1, Len(t))[i] = t[i]
  <2>1. \A i \in 1..Len(t) : 0 + i = i /\ i \in 1..Len(t) + Len(u) /\ i <= Len(t)
    BY <1>2
  <2> QED
    BY <1>1, <1>2, <1>3, <2>1
<1>5. SubSeq(t \o u, 1, Len(t)) = t
  BY <1>4, SeqEqual DEF Texts
<1> QED
  BY <1>1, <1>5
-------------------------------------------------------------------------------
\* A set that has each living string whose bases it has, has all of them.
LEMMA EveryString ==
  ASSUME StringsInv, NEW Good,
         \A s \in Alive : (IsDependent(s) => str[s].base \in Good) => s \in Good
  PROVE  Alive \subseteq Good
<1>1. PICK rank \in [Strings -> Nat] :
        \A s \in Strings : str[s].tag = "dependent" => rank[str[s].base] < rank[s]
  BY DEF StringsInv, StringsSound, Descends
<1> DEFINE Bad == {s \in Alive : s \notin Good}
           T == {rank[s] : s \in Bad}
<1>2. SUFFICES ASSUME Bad # {} PROVE FALSE
  OBVIOUS
<1>3. T \subseteq Nat /\ T # {}
  BY <1>2 DEF Alive
<1>4. PICK n \in T : \A m \in T : n <= m
  <2> HIDE DEF T
  <2> QED
    BY <1>3, LeastNumber
<1>5. PICK s \in Bad : n = rank[s]
  BY <1>4
<1>6. IsDependent(s) /\ str[s].base \notin Good
  BY <1>5
<1>7. s \in Strings /\ str[s].base \in Alive /\ rank[str[s].base] < rank[s]
      /\ rank[s] \in Nat /\ rank[str[s].base] \in Nat
  BY <1>1, <1>5, <1>6
     DEF StringsInv, StringsSound, Reads, DependentReads, IsDependent, Alive
<1>8. rank[str[s].base] \in T
  BY <1>6, <1>7
<1>9. n <= rank[str[s].base]
  <2> HIDE DEF T
  <2> QED
    BY <1>4, <1>8
<1> QED
  BY <1>5, <1>7, <1>9

LEMMA BaseIs ==
  ASSUME StringsInv, NEW s \in Alive, IsDependent(s)
  PROVE  /\ s \in Strings /\ str[s].base \in Alive /\ str[s].start \in Nat /\ str[s].len \in Nat
         /\ str[s].start + str[s].len <= str[str[s].base].len
         /\ text[s] = SubSeq(text[str[s].base], str[s].start + 1, str[s].start + str[s].len)
  BY DEF StringsInv, StringsSound, StringsTyped, StringRecords, Reads, DependentReads, IsDependent, Alive

LEMMA BasesAre ==
  ASSUME StringsInv, NEW s \in Alive
  PROVE  /\ s \in Bases(s) /\ Bases(s) \subseteq Alive
         /\ Bases(s) = IF IsDependent(s) THEN {s} \cup Bases(str[s].base) ELSE {s}
<1>1. s \in Strings /\ s \in Bases(s)
  BY DEF Alive, Bases
<1>2. Alive \in SUBSET Strings /\ Leads(Alive)
  BY BaseIs DEF Leads, Alive
<1>3. Bases(s) \subseteq Alive
  BY <1>2 DEF Bases
<1>4. CASE IsDependent(s)
  <2> DEFINE base == str[s].base
             met == {s} \cup Bases(base)
  <2>1. base \in Alive /\ base \in Strings
    BY <1>4, BaseIs DEF Alive
  <2>2. base \in Bases(base)
    BY <2>1 DEF Bases
  <2>3. ASSUME NEW t \in Bases(base), IsDependent(t) PROVE str[t].base \in Bases(base)
    <3>1. t \in Alive
      BY <1>2, <2>1 DEF Bases
    <3>2. str[t].base \in Strings
      BY <2>3, <3>1, BaseIs DEF Alive
    <3> QED
      BY <2>3, <3>2 DEF Bases, Leads
  <2>4. met \in SUBSET Strings /\ Leads(met)
    BY <1>1, <2>2, <2>3 DEF Bases, Leads
  <2>5. Bases(s) \subseteq met
    BY <2>4 DEF Bases
  <2>6. Bases(base) \subseteq Bases(s)
    BY <1>4 DEF Bases, Leads
  <2> QED
    BY <1>1, <1>3, <1>4, <2>5, <2>6
<1>5. CASE ~IsDependent(s)
  <2>1. {s} \in SUBSET Strings /\ Leads({s})
    BY <1>1, <1>5 DEF Leads
  <2>2. Bases(s) \subseteq {s}
    BY <2>1 DEF Bases
  <2> QED
    BY <1>1, <1>3, <1>5, <2>2
<1> QED
  BY <1>4, <1>5

LEMMA NotItsBase ==
  ASSUME StringsInv, NEW s \in Alive, IsDependent(s)
  PROVE  s \notin Bases(str[s].base)
<1>1. PICK rank \in [Strings -> Nat] :
        \A t \in Strings : str[t].tag = "dependent" => rank[str[t].base] < rank[t]
  BY DEF StringsInv, StringsSound, Descends
<1> DEFINE base == str[s].base
           met == {t \in Alive : rank[t] <= rank[base]}
<1>2. s \in Strings /\ base \in Alive /\ base \in Strings /\ rank[base] < rank[s]
      /\ rank[base] \in Nat /\ rank[s] \in Nat
  BY <1>1, BaseIs DEF Alive, IsDependent
<1>3. ASSUME NEW t \in met, IsDependent(t) PROVE str[t].base \in met
  <2>1. t \in Alive /\ t \in Strings /\ rank[t] <= rank[base] /\ rank[t] \in Nat
    BY DEF Alive
  <2>2. str[t].base \in Alive /\ str[t].base \in Strings
    BY <1>3, <2>1, BaseIs DEF Alive
  <2>3. rank[str[t].base] < rank[t] /\ rank[str[t].base] \in Nat
    BY <1>1, <1>3, <2>1, <2>2 DEF IsDependent
  <2> QED
    BY <1>2, <2>1, <2>2, <2>3
<1>4. met \in SUBSET Strings /\ Leads(met) /\ base \in met /\ s \notin met
  BY <1>2, <1>3 DEF Leads, Alive
<1> QED
  BY <1>4 DEF Bases

LEMMA FlatBaseIs ==
  ASSUME StringsInv, NEW s \in Alive
  PROVE  /\ FlatBase(s) \in Bases(s) /\ FlatBase(s) \in Alive /\ ~IsDependent(FlatBase(s))
         /\ FlatBase(s) = IF IsDependent(s) THEN FlatBase(str[s].base) ELSE s
<1> DEFINE One(x) == \E t \in Bases(x) : ~IsDependent(t) /\ \A u \in Bases(x) : ~IsDependent(u) => u = t
           Good == {x \in Alive : One(x)}
<1>1. ASSUME NEW x \in Alive, IsDependent(x) => str[x].base \in Good PROVE x \in Good
  <2>1. CASE IsDependent(x)
    <3>1. Bases(x) = {x} \cup Bases(str[x].base) /\ One(str[x].base)
      BY <1>1, <2>1, BasesAre
    <3> QED
      BY <2>1, <3>1
  <2>2. CASE ~IsDependent(x)
    BY <2>2, BasesAre
  <2> QED
    BY <2>1, <2>2
<1>2. \A x \in Alive : One(x)
  <2> HIDE DEF Good
  <2>1. Alive \subseteq Good
    BY <1>1, EveryString
  <2> QED
    BY <2>1 DEF Good
<1>3. \A x \in Alive : FlatBase(x) \in Bases(x) /\ ~IsDependent(FlatBase(x))
                       /\ \A u \in Bases(x) : ~IsDependent(u) => u = FlatBase(x)
  BY <1>2 DEF FlatBase
<1>4. CASE IsDependent(s)
  <2>1. str[s].base \in Alive /\ Bases(s) = {s} \cup Bases(str[s].base)
    BY <1>4, BaseIs, BasesAre
  <2>2. FlatBase(str[s].base) \in Bases(s) /\ ~IsDependent(FlatBase(str[s].base))
    BY <1>3, <2>1
  <2> QED
    BY <1>3, <1>4, <2>2, BasesAre
<1>5. CASE ~IsDependent(s)
  BY <1>3, <1>5, BasesAre
<1> QED
  BY <1>4, <1>5

LEMMA StartIs ==
  ASSUME StringsInv, NEW s \in Alive
  PROVE  /\ Start(s) \in Nat
         /\ Start(s) = IF IsDependent(s) THEN str[s].start + Start(str[s].base) ELSE 0
<1> DEFINE own(x) == {x} \X (1..str[x].start)
           skipped(x) == UNION {own(t) : t \in Dependents(x)}
           Good == {x \in Alive : IsFiniteSet(skipped(x))}
<1>1. ASSUME NEW x \in Alive, IsDependent(x)
      PROVE  /\ str[x].base \in Alive /\ str[x].start \in Nat
             /\ skipped(x) = own(x) \cup skipped(str[x].base)
             /\ own(x) \cap skipped(str[x].base) = {}
             /\ IsFiniteSet(own(x)) /\ Cardinality(own(x)) = str[x].start
  <2> DEFINE base == str[x].base
  <2>1. base \in Alive /\ str[x].start \in Nat /\ Bases(x) = {x} \cup Bases(base) /\ x \notin Bases(base)
    BY <1>1, BaseIs, BasesAre, NotItsBase
  <2>2. Dependents(x) = {x} \cup Dependents(base) /\ x \notin Dependents(base)
    BY <1>1, <2>1 DEF Dependents
  <2>3. skipped(x) = own(x) \cup skipped(base) /\ own(x) \cap skipped(base) = {}
    BY <2>2
  <2>4. IsFiniteSet({x}) /\ Cardinality({x}) = 1
    BY FS_Singleton
  <2>5. IsFiniteSet(1..str[x].start) /\ Cardinality(1..str[x].start) = str[x].start
    <3>1. \A n \in Nat : n \in Int /\ 1 \in Int /\ (IF 1 > n THEN 0 ELSE n - 1 + 1) = n
      OBVIOUS
    <3>2. \A n \in Nat : IsFiniteSet(1..n) /\ Cardinality(1..n) = n
      BY <3>1, FS_Interval
    <3> QED
      BY <2>1, <3>2
  <2>6. IsFiniteSet(own(x)) /\ Cardinality(own(x)) = 1 * str[x].start
    BY <2>4, <2>5, FS_Product
  <2> QED
    BY <2>1, <2>3, <2>6
<1>2. ASSUME NEW x \in Alive, ~IsDependent(x) PROVE skipped(x) = {}
  <2>1. Dependents(x) = {}
    BY <1>2, BasesAre DEF Dependents
  <2> QED
    BY <2>1
<1>3. \A x : Start(x) = Cardinality(skipped(x))
  BY DEF Start
<1> HIDE DEF own, skipped
<1>4. ASSUME NEW x \in Alive, IsDependent(x) => str[x].base \in Good PROVE x \in Good
  <2>1. CASE IsDependent(x)
    <3>1. IsFiniteSet(own(x)) /\ IsFiniteSet(skipped(str[x].base))
      BY <1>1, <1>4, <2>1
    <3>2. IsFiniteSet(own(x) \cup skipped(str[x].base))
      BY <3>1, FS_Union
    <3> QED
      BY <1>1, <2>1, <3>2
  <2>2. CASE ~IsDependent(x)
    BY <1>2, <2>2, FS_EmptySet
  <2> QED
    BY <2>1, <2>2
<1>5. \A x \in Alive : IsFiniteSet(skipped(x)) /\ Cardinality(skipped(x)) \in Nat
  <2> HIDE DEF Good
  <2>1. Alive \subseteq Good
    BY <1>4, EveryString
  <2> QED
    BY <2>1, FS_CardinalityType DEF Good
<1>6. CASE IsDependent(s)
  <2> DEFINE rest == skipped(str[s].base)
  <2>1. IsFiniteSet(rest) /\ Cardinality(rest) \in Nat /\ IsFiniteSet(own(s))
    BY <1>1, <1>5, <1>6
  <2>2. Cardinality(own(s) \cup rest) =
          Cardinality(own(s)) + Cardinality(rest) - Cardinality(own(s) \cap rest)
    BY <2>1, FS_Union
  <2>3. Cardinality(own(s) \cap rest) = 0
    BY <1>1, <1>6, FS_EmptySet
  <2>4. /\ str[s].start \in Nat /\ Cardinality(own(s)) = str[s].start
        /\ Start(s) = Cardinality(own(s) \cup rest) /\ Start(str[s].base) = Cardinality(rest)
    BY <1>1, <1>3, <1>6
  <2> HIDE DEF rest
  <2>5. Start(s) = str[s].start + Start(str[s].base) /\ Start(s) \in Nat
    BY <2>1, <2>2, <2>3, <2>4
  <2> QED
    BY <1>6, <2>5
<1>7. CASE ~IsDependent(s)
  BY <1>2, <1>3, <1>7, FS_EmptySet
<1> QED
  BY <1>6, <1>7

\* What a string stands for is a part of its flat base.
LEMMA PartOfFlat ==
  ASSUME StringsInv, NEW s \in Alive
  PROVE  /\ Start(s) + str[s].len <= str[FlatBase(s)].len
         /\ text[s] = SubSeq(text[FlatBase(s)], Start(s) + 1, Start(s) + str[s].len)
<1> DEFINE Part(x) == /\ Start(x) + str[x].len <= str[FlatBase(x)].len
                      /\ text[x] = SubSeq(text[FlatBase(x)], Start(x) + 1, Start(x) + str[x].len)
           Good == {x \in Alive : Part(x)}
<1>1. \A x \in Alive : x \in Strings /\ str[x].len \in Nat /\ text[x] \in Texts /\ Len(text[x]) = str[x].len
  BY DEF StringsInv, StringsSound, StringsTyped, StringRecords, Reads, Alive
<1>2. ASSUME NEW x \in Alive, IsDependent(x) => str[x].base \in Good PROVE x \in Good
  <2>1. CASE IsDependent(x)
    <3> DEFINE base == str[x].base
               flat == FlatBase(base)
    <3>1. base \in Alive /\ Part(base)
      BY <1>2, <2>1
    <3>2. /\ str[x].start \in Nat /\ str[x].len \in Nat
          /\ str[x].start + str[x].len <= str[base].len
          /\ text[x] = SubSeq(text[base], str[x].start + 1, str[x].start + str[x].len)
      BY <2>1, BaseIs
    <3>3. FlatBase(x) = flat /\ flat \in Alive /\ Start(x) = str[x].start + Start(base) /\ Start(base) \in Nat
      BY <2>1, <3>1, FlatBaseIs, StartIs
    <3>4. str[base].len \in Nat /\ text[flat] \in Texts /\ Len(text[flat]) = str[flat].len /\ str[flat].len \in Nat
      BY <1>1, <3>1, <3>3
    <3>5. text[x] = SubSeq(SubSeq(text[flat], Start(base) + 1, Start(base) + str[base].len),
                           str[x].start + 1, str[x].start + str[x].len)
      BY <3>1, <3>2
    <3>6. text[x] = SubSeq(text[flat], (Start(base) + str[x].start) + 1,
                           (Start(base) + str[x].start) + str[x].len)
      <4> DEFINE whole == text[flat]
                 a == Start(base)
                 m == str[base].len
                 b == str[x].start
                 n == str[x].len
      <4>1. whole \in Texts /\ a \in Nat /\ m \in Nat /\ b \in Nat /\ n \in Nat /\ a + m <= Len(whole) /\ b + n <= m
        BY <3>1, <3>2, <3>3, <3>4
      <4> HIDE DEF whole, a, m, b, n
      <4>2. SubSeq(SubSeq(whole, a + 1, a + m), b + 1, b + n) = SubSeq(whole, (a + b) + 1, (a + b) + n)
        BY <4>1, PartOfPart
      <4> QED
        BY <3>5, <4>2 DEF whole, a, m, b, n
    <3>7. Start(x) = Start(base) + str[x].start /\ Start(x) + str[x].len <= str[flat].len
      <4>1. Start(base) + str[base].len <= str[flat].len
        BY <3>1
      <4>2. \A a, b, m, n, k \in Nat : a + m <= k /\ b + n <= m => b + a = a + b /\ (a + b) + n <= k
        OBVIOUS
      <4>3. str[x].start + str[x].len <= str[base].len
        BY <3>2
      <4>4. Start(base) + str[x].start = str[x].start + Start(base)
            /\ (Start(base) + str[x].start) + str[x].len <= str[flat].len
        BY <3>2, <3>3, <3>4, <4>1, <4>2, <4>3
      <4> QED
        BY <3>3, <4>4
    <3> HIDE DEF flat, base
    <3>8. text[x] = SubSeq(text[flat], Start(x) + 1, Start(x) + str[x].len)
      BY <3>6, <3>7
    <3> QED
      BY <3>3, <3>7, <3>8
  <2>2. CASE ~IsDependent(x)
    <3>1. FlatBase(x) = x /\ Start(x) = 0
      BY <2>2, FlatBaseIs, StartIs
    <3>2. text[x] \in Texts /\ Len(text[x]) = str[x].len /\ str[x].len \in Nat
      BY <1>1
    <3>3. text[x] = SubSeq(text[x], 1, str[x].len)
      BY <3>2, WholeText
    <3>4. 0 + 1 = 1 /\ 0 + str[x].len = str[x].len
      BY <3>2
    <3> QED
      BY <3>1, <3>2, <3>3, <3>4
  <2> QED
    BY <2>1, <2>2
<1>3. Alive \subseteq Good
  <2> HIDE DEF Good
  <2> QED
    BY <1>2, EveryString
<1> QED
  BY <1>3

LEMMA CharsAre ==
  ASSUME StringsInv, NEW s \in Alive
  PROVE  /\ FlatBase(s) \in Alive /\ str[FlatBase(s)].tag = "flat"
         /\ str[FlatBase(s)].buf \in Buffers /\ mem[str[FlatBase(s)].buf] \in Texts
         /\ Chars(mem, s) = text[s]
<1> DEFINE flat == FlatBase(s)
           b == str[flat].buf
<1>1. flat \in Alive /\ str[flat].tag = "flat"
  BY FlatBaseIs DEF StringsInv, StringsSound, StringsTyped, StringRecords, Alive, IsDependent
<1>2. /\ b \in Buffers /\ mem[b] \in Texts /\ str[flat].len <= Len(mem[b])
      /\ text[flat] = SubSeq(mem[b], 1, str[flat].len) /\ str[flat].len \in Nat /\ str[s].len \in Nat
  BY <1>1 DEF StringsInv, StringsSound, StringsTyped, StringRecords, Reads, FlatReads, Alive
<1>3. /\ Start(s) + str[s].len <= str[flat].len /\ Start(s) \in Nat
      /\ text[s] = SubSeq(text[flat], Start(s) + 1, Start(s) + str[s].len)
  BY PartOfFlat, StartIs
<1> HIDE DEF flat
<1>4. 0 \in Nat /\ 0 + 1 = 1 /\ 0 + str[flat].len = str[flat].len /\ 0 + Start(s) = Start(s)
  BY <1>2, <1>3
<1>5. SubSeq(SubSeq(mem[b], 0 + 1, 0 + str[flat].len), Start(s) + 1, Start(s) + str[s].len)
        = SubSeq(mem[b], (0 + Start(s)) + 1, (0 + Start(s)) + str[s].len)
  <2> DEFINE whole == mem[b]
             n == str[flat].len
             m == str[s].len
             k == Start(s)
  <2>1. whole \in Texts /\ n \in Nat /\ m \in Nat /\ k \in Nat /\ 0 + n <= Len(whole) /\ k + m <= n
    BY <1>2, <1>3, <1>4
  <2> HIDE DEF whole, n, m, k
  <2>2. SubSeq(SubSeq(whole, 0 + 1, 0 + n), k + 1, k + m) = SubSeq(whole, (0 + k) + 1, (0 + k) + m)
    BY <1>4, <2>1, PartOfPart
  <2> QED
    BY <2>2 DEF whole, n, m, k
<1>6. text[s] = SubSeq(mem[b], Start(s) + 1, Start(s) + str[s].len)
  BY <1>2, <1>3, <1>4, <1>5
<1> QED
  BY <1>1, <1>2, <1>6 DEF Chars, flat
LEMMA StringsInvKeep == StringsInv => StringsKeep
<1> SUFFICES ASSUME StringsInv PROVE StringsKeep
  OBVIOUS
<1>1. ASSUME NEW s \in Alive
      PROVE  /\ str[FlatBase(s)].tag = "flat" /\ mem[str[FlatBase(s)].buf] # Absent
             /\ Chars(mem, s) = text[s]
             /\ given[s] # Absent => given[s] = str[s].buf
  <2>1. given[s] # Absent => given[s] = str[s].buf
    BY DEF StringsInv, StringsSound, Reads, Alive
  <2> QED
    BY <2>1, CharsAre, StringsAssumption
<1>2. ASSUME NEW b \in Buffers \ FreeBuffers
      PROVE  Cardinality({s \in Alive : str[s].buf = b}) = 1
  <2>1. mem[b] # Absent /\ b # Absent
    BY StringsAssumption DEF FreeBuffers
  <2>2. PICK s \in Strings : str[s].buf = b
    BY <2>1 DEF StringsInv, StringsSound, Owned
  <2>3. s \in Alive
    BY <2>1, <2>2 DEF StringsInv, StringsSound, Reads, Alive
  <2>4. {t \in Alive : str[t].buf = b} = {s}
    BY <2>1, <2>2, <2>3 DEF StringsInv, StringsSound, Owned, Alive
  <2> QED
    BY <2>4, FS_Singleton
<1> QED
  BY <1>1, <1>2 DEF StringsKeep
-------------------------------------------------------------------------------
LEMMA NoStringIs == NoString \in StringRecords /\ NoString.tag = "free" /\ NoString.buf = Absent
  BY DEF StringRecords, NoString

LEMMA NewFlatIs ==
  ASSUME NEW b \in Buffers, NEW n \in Nat, NEW mutable \in BOOLEAN
  PROVE  /\ Flat(b, n, mutable) \in StringRecords
         /\ Flat(b, n, mutable).tag = "flat" /\ Flat(b, n, mutable).buf = b
         /\ Flat(b, n, mutable).len = n /\ Flat(b, n, mutable).mutable = mutable
  BY DEF StringRecords, NoString, Flat

LEMMA NewDependentIs ==
  ASSUME NEW base \in Strings, NEW k \in Nat, NEW n \in Nat
  PROVE  /\ Dependent(base, k, n) \in StringRecords
         /\ Dependent(base, k, n).tag = "dependent" /\ Dependent(base, k, n).buf = Absent
         /\ Dependent(base, k, n).base = base /\ Dependent(base, k, n).start = k
         /\ Dependent(base, k, n).len = n
  BY DEF StringRecords, NoString, Dependent

LEMMA StringsInvInit == StringsInit => StringsInv
<1> SUFFICES ASSUME StringsInit PROVE StringsInv
  OBVIOUS
<1>1. <<>> \in Texts /\ \A s \in Strings : str[s] = NoString
  BY EmptySeq DEF Texts, StringsInit
<1>2. StringsTyped(str, mem, text, given)
  BY <1>1, NoStringIs DEF StringsTyped, StringsInit
<1>3. Owned(str, mem)
  BY <1>1, NoStringIs DEF Owned, StringsInit
<1>4. Descends(str)
  <2>1. [s \in Strings |-> 0] \in [Strings -> Nat]
    OBVIOUS
  <2>2. \A s \in Strings : str[s].tag # "dependent"
    BY <1>1, NoStringIs
  <2> QED
    BY <2>1, <2>2, Zenon DEF Descends
<1>5. \A s \in Strings : Reads(str, mem, text, given, s)
  BY <1>1, NoStringIs DEF Reads, FlatReads, DependentReads, StringsInit
<1> QED
  BY <1>2, <1>3, <1>4, <1>5 DEF StringsInv, StringsSound

\* The fields of a string.
LEMMA HeaderIs ==
  ASSUME NEW st, NEW mm, NEW tx, NEW gv, StringsSound(st, mm, tx, gv), NEW s \in Strings
  PROVE  /\ st[s] \in StringRecords /\ st[s].len \in Nat /\ st[s].start \in Nat
         /\ st[s].tag \in {"free", "flat", "dependent"} /\ st[s].mutable \in BOOLEAN
         /\ tx[s] \in Texts /\ gv[s] \in Buffers \cup {Absent}
         /\ st[s].tag = "flat" =>
              /\ st[s].buf \in Buffers /\ st[s].buf # Absent
              /\ mm[st[s].buf] \in Texts /\ mm[st[s].buf] # Absent
              /\ st[s].len <= Len(mm[st[s].buf]) /\ tx[s] = SubSeq(mm[st[s].buf], 1, st[s].len)
         /\ st[s].tag = "dependent" =>
              /\ st[s].base \in Strings /\ st[st[s].base].tag # "free"
              /\ st[s].start + st[s].len <= st[st[s].base].len
              /\ tx[s] = SubSeq(tx[st[s].base], st[s].start + 1, st[s].start + st[s].len)
         /\ st[s].tag # "flat" => st[s].buf = Absent
         /\ st[s].tag # "free" => Len(tx[s]) = st[s].len
         /\ gv[s] # Absent => st[s].tag = "flat" /\ ~st[s].mutable /\ gv[s] = st[s].buf
  BY StringsAssumption
     DEF StringsSound, StringsTyped, StringRecords, Reads, FlatReads, DependentReads

\* A buffer that is free is nobody's.
LEMMA FreeIsNobodys ==
  ASSUME NEW st, NEW mm, NEW tx, NEW gv, StringsSound(st, mm, tx, gv),
         NEW b \in Buffers, mm[b] = Absent, NEW s \in Strings
  PROVE  st[s].buf # b
<1>1. st[s].tag # "flat" => st[s].buf = Absent
  BY HeaderIs
<1>2. st[s].tag = "flat" => mm[st[s].buf] # Absent
  BY HeaderIs
<1> QED
  BY <1>1, <1>2, StringsAssumption

LEMMA NewFlat ==
  ASSUME NEW st, NEW mm, NEW tx, NEW gv, StringsSound(st, mm, tx, gv),
         NEW f \in Strings, st[f].tag = "free", NEW b \in Buffers, mm[b] = Absent,
         NEW chars \in Texts, NEW mutable \in BOOLEAN
  PROVE  StringsSound([st EXCEPT ![f] = Flat(b, Len(chars), mutable)], [mm EXCEPT ![b] = chars],
                      [tx EXCEPT ![f] = chars], gv)
<1> DEFINE h == Flat(b, Len(chars), mutable)
           st1 == [st EXCEPT ![f] = h]
           mm1 == [mm EXCEPT ![b] = chars]
           tx1 == [tx EXCEPT ![f] = chars]
<1>1. /\ st \in [Strings -> StringRecords] /\ mm \in [Buffers -> Texts \cup {Absent}]
      /\ tx \in [Strings -> Texts] /\ gv \in [Strings -> Buffers \cup {Absent}]
  BY DEF StringsSound, StringsTyped
<1>2. h \in StringRecords /\ h.tag = "flat" /\ h.buf = b /\ h.len = Len(chars) /\ Len(chars) \in Nat
  <2>1. Len(chars) \in Nat
    BY TextIs
  <2> QED
    BY <2>1, NewFlatIs
<1> HIDE DEF h
<1>3. StringsTyped(st1, mm1, tx1, gv)
  BY <1>1, <1>2 DEF StringsTyped
<1>4. /\ st1[f] = h /\ tx1[f] = chars /\ mm1[b] = chars
      /\ \A s \in Strings : s # f => st1[s] = st[s] /\ tx1[s] = tx[s]
      /\ \A c \in Buffers : c # b => mm1[c] = mm[c]
  BY <1>1
<1> HIDE DEF st1, mm1, tx1
<1>5. \A s \in Strings : st[s].buf # b
  BY FreeIsNobodys
<1>6. b # Absent /\ Absent \notin Texts
  BY StringsAssumption
<1>7. ASSUME NEW s \in Strings PROVE Reads(st1, mm1, tx1, gv, s)
  <2>1. CASE s = f
    <3>1. gv[f] = Absent
      BY HeaderIs
    <3>2. SubSeq(chars, 1, Len(chars)) = chars
      BY WholeText
    <3> QED
      BY <1>2, <1>4, <2>1, <3>1, <3>2 DEF Reads, FlatReads, DependentReads
  <2>2. CASE s # f
    <3>1. st1[s] = st[s] /\ tx1[s] = tx[s]
      BY <1>4, <2>2
    <3>2. st[s].tag = "flat" => mm1[st[s].buf] = mm[st[s].buf]
      BY <1>4, <1>5, HeaderIs
    <3>3. st[s].tag = "dependent" => st1[st[s].base] = st[st[s].base] /\ tx1[st[s].base] = tx[st[s].base]
      BY <1>4, HeaderIs
    <3>4. Reads(st, mm, tx, gv, s)
      BY DEF StringsSound
    <3> QED
      BY <3>1, <3>2, <3>3, <3>4 DEF Reads, FlatReads, DependentReads
  <2> QED
    BY <2>1, <2>2
<1>8. Owned(st1, mm1)
  <2>1. st[f].buf = Absent
    BY HeaderIs
  <2>2. ASSUME NEW c \in Buffers, mm1[c] # Absent PROVE \E s \in Strings : st1[s].buf = c
    <3>1. CASE c = b
      BY <1>2, <1>4, <3>1
    <3>2. CASE c # b
      <4>1. mm[c] # Absent /\ c # Absent
        BY <1>4, <2>2, <3>2, StringsAssumption
      <4>2. PICK s \in Strings : st[s].buf = c
        BY <4>1 DEF StringsSound, Owned
      <4> QED
        BY <1>4, <2>1, <4>1, <4>2
    <3> QED
      BY <3>1, <3>2
  <2>3. ASSUME NEW s \in Strings, NEW t \in Strings, st1[s].buf = st1[t].buf, st1[s].buf # Absent
        PROVE  s = t
    BY <1>2, <1>4, <1>5, <2>3 DEF StringsSound, Owned
  <2> QED
    BY <2>2, <2>3 DEF Owned
<1>9. Descends(st1)
  BY <1>2, <1>4 DEF StringsSound, Descends
<1>10. StringsSound(st1, mm1, tx1, gv)
  BY <1>3, <1>7, <1>8, <1>9 DEF StringsSound
<1> QED
  BY <1>10 DEF st1, mm1, tx1, h

LEMMA NewDependent ==
  ASSUME NEW st, NEW mm, NEW tx, NEW gv, StringsSound(st, mm, tx, gv),
         NEW f \in Strings, st[f].tag = "free", NEW base \in Strings, st[base].tag # "free",
         NEW k \in Nat, NEW n \in Nat, k + n <= st[base].len
  PROVE  StringsSound([st EXCEPT ![f] = Dependent(base, k, n)], mm,
                      [tx EXCEPT ![f] = SubSeq(tx[base], k + 1, k + n)], gv)
<1> DEFINE h == Dependent(base, k, n)
           chars == SubSeq(tx[base], k + 1, k + n)
           st1 == [st EXCEPT ![f] = h]
           tx1 == [tx EXCEPT ![f] = chars]
<1>1. /\ st \in [Strings -> StringRecords] /\ mm \in [Buffers -> Texts \cup {Absent}]
      /\ tx \in [Strings -> Texts] /\ gv \in [Strings -> Buffers \cup {Absent}]
  BY DEF StringsSound, StringsTyped
<1>2. /\ h \in StringRecords /\ h.tag = "dependent" /\ h.buf = Absent
      /\ h.base = base /\ h.start = k /\ h.len = n
  BY NewDependentIs
<1>3. chars \in Texts /\ Len(chars) = n
  <2>1. tx[base] \in Texts /\ Len(tx[base]) = st[base].len
    BY HeaderIs
  <2> QED
    BY <2>1, TextIs
<1>4. base # f
  OBVIOUS
<1> HIDE DEF h
<1>5. StringsTyped(st1, mm, tx1, gv)
  BY <1>1, <1>2, <1>3 DEF StringsTyped
<1>6. /\ st1[f] = h /\ tx1[f] = chars
      /\ \A s \in Strings : s # f => st1[s] = st[s] /\ tx1[s] = tx[s]
  BY <1>1
<1> HIDE DEF st1, tx1
<1>7. ASSUME NEW s \in Strings PROVE Reads(st1, mm, tx1, gv, s)
  <2>1. CASE s = f
    <3>1. gv[f] = Absent
      BY HeaderIs
    <3>2. st1[base] = st[base] /\ tx1[base] = tx[base]
      BY <1>4, <1>6
    <3> QED
      BY <1>2, <1>3, <1>6, <2>1, <3>1, <3>2 DEF Reads, FlatReads, DependentReads
  <2>2. CASE s # f
    <3>1. st1[s] = st[s] /\ tx1[s] = tx[s]
      BY <1>6, <2>2
    <3>2. st[s].tag = "dependent" => st1[st[s].base] = st[st[s].base] /\ tx1[st[s].base] = tx[st[s].base]
      BY <1>6, HeaderIs
    <3>3. Reads(st, mm, tx, gv, s)
      BY DEF StringsSound
    <3> QED
      BY <3>1, <3>2, <3>3 DEF Reads, FlatReads, DependentReads
  <2> QED
    BY <2>1, <2>2
<1>8. Owned(st1, mm)
  <2>1. st[f].buf = Absent
    BY HeaderIs
  <2>2. \A s \in Strings : st1[s].buf = st[s].buf
    BY <1>2, <1>6, <2>1
  <2> QED
    BY <2>2 DEF StringsSound, Owned
<1>9. Descends(st1)
  <2>1. PICK rank \in [Strings -> Nat] :
          \A s \in Strings : st[s].tag = "dependent" => rank[st[s].base] < rank[s]
    BY DEF StringsSound, Descends
  <2> DEFINE rank1 == [rank EXCEPT ![f] = rank[base] + 1]
  <2>2. rank1 \in [Strings -> Nat] /\ rank1[f] = rank[base] + 1
        /\ \A s \in Strings : s # f => rank1[s] = rank[s]
    OBVIOUS
  <2> HIDE DEF rank1
  <2>3. ASSUME NEW s \in Strings, st1[s].tag = "dependent" PROVE rank1[st1[s].base] < rank1[s]
    <3>1. CASE s = f
      BY <1>2, <1>4, <1>6, <2>2, <3>1
    <3>2. CASE s # f
      <4>1. st1[s] = st[s]
        BY <1>6, <3>2
      <4>2. st[s].base \in Strings /\ st[s].base # f
        BY <2>3, <4>1, HeaderIs
      <4> QED
        BY <2>1, <2>2, <2>3, <3>2, <4>1, <4>2
    <3> QED
      BY <3>1, <3>2
  <2> QED
    BY <2>2, <2>3 DEF Descends
<1>10. StringsSound(st1, mm, tx1, gv)
  BY <1>5, <1>7, <1>8, <1>9 DEF StringsSound
<1> QED
  BY <1>10 DEF st1, tx1, h
\* js_UndependString: a dependent string gets a buffer of its own, ...
LEMMA Undepended ==
  ASSUME NEW st, NEW mm, NEW tx, NEW gv, StringsSound(st, mm, tx, gv),
         NEW s \in Strings, st[s].tag = "dependent", NEW b \in Buffers, mm[b] = Absent
  PROVE  StringsSound([st EXCEPT ![s] = Flat(b, st[s].len, FALSE)], [mm EXCEPT ![b] = tx[s]],
                      tx, [gv EXCEPT ![s] = b])
<1> DEFINE h == Flat(b, st[s].len, FALSE)
           st1 == [st EXCEPT ![s] = h]
           mm1 == [mm EXCEPT ![b] = tx[s]]
           gv1 == [gv EXCEPT ![s] = b]
<1>1. /\ st \in [Strings -> StringRecords] /\ mm \in [Buffers -> Texts \cup {Absent}]
      /\ tx \in [Strings -> Texts] /\ gv \in [Strings -> Buffers \cup {Absent}]
  BY DEF StringsSound, StringsTyped
<1>2. tx[s] \in Texts /\ Len(tx[s]) = st[s].len /\ st[s].len \in Nat /\ st[s].buf = Absent
  BY HeaderIs
<1>3. h \in StringRecords /\ h.tag = "flat" /\ h.buf = b /\ h.len = st[s].len /\ h.mutable = FALSE
  BY <1>2, NewFlatIs
<1> HIDE DEF h
<1>4. StringsTyped(st1, mm1, tx, gv1)
  BY <1>1, <1>2, <1>3 DEF StringsTyped
<1>5. /\ st1[s] = h /\ mm1[b] = tx[s] /\ gv1[s] = b
      /\ \A t \in Strings : t # s => st1[t] = st[t] /\ gv1[t] = gv[t]
      /\ \A c \in Buffers : c # b => mm1[c] = mm[c]
  BY <1>1
<1> HIDE DEF st1, mm1, gv1
<1>6. \A t \in Strings : st[t].buf # b
  BY FreeIsNobodys
<1>7. b # Absent /\ Absent \notin Texts
  BY StringsAssumption
<1>8. ASSUME NEW t \in Strings PROVE Reads(st1, mm1, tx, gv1, t)
  <2>1. CASE t = s
    <3>1. SubSeq(tx[s], 1, Len(tx[s])) = tx[s]
      BY <1>2, WholeText
    <3> QED
      BY <1>2, <1>3, <1>5, <2>1, <3>1 DEF Reads, FlatReads, DependentReads
  <2>2. CASE t # s
    <3>1. st1[t] = st[t] /\ gv1[t] = gv[t]
      BY <1>5, <2>2
    <3>2. st[t].tag = "flat" => mm1[st[t].buf] = mm[st[t].buf]
      BY <1>5, <1>6, HeaderIs
    <3>3. st[t].tag = "dependent" => st1[st[t].base].tag # "free" /\ st1[st[t].base].len = st[st[t].base].len
      <4>1. \A u \in Strings : st[u].tag # "free" => st1[u].tag # "free" /\ st1[u].len = st[u].len
        <5>1. SUFFICES ASSUME NEW u \in Strings, st[u].tag # "free"
                       PROVE  st1[u].tag # "free" /\ st1[u].len = st[u].len
          OBVIOUS
        <5>2. CASE u = s
          BY <1>3, <1>5, <5>2
        <5>3. CASE u # s
          BY <1>5, <5>1, <5>3
        <5> QED
          BY <5>2, <5>3
      <4>2. st[t].tag = "dependent" => st[t].base \in Strings /\ st[st[t].base].tag # "free"
        BY HeaderIs
      <4> QED
        BY <4>1, <4>2
    <3>4. Reads(st, mm, tx, gv, t)
      BY DEF StringsSound
    <3> QED
      BY <3>1, <3>2, <3>3, <3>4 DEF Reads, FlatReads, DependentReads
  <2> QED
    BY <2>1, <2>2
<1>9. Owned(st1, mm1)
  <2>1. ASSUME NEW c \in Buffers, mm1[c] # Absent PROVE \E t \in Strings : st1[t].buf = c
    <3>1. CASE c = b
      BY <1>3, <1>5, <3>1
    <3>2. CASE c # b
      <4>1. mm[c] # Absent /\ c # Absent
        BY <1>5, <2>1, <3>2, StringsAssumption
      <4>2. PICK t \in Strings : st[t].buf = c
        BY <4>1 DEF StringsSound, Owned
      <4> QED
        BY <1>2, <1>5, <4>1, <4>2
    <3> QED
      BY <3>1, <3>2
  <2>2. ASSUME NEW t \in Strings, NEW u \in Strings, st1[t].buf = st1[u].buf, st1[t].buf # Absent
        PROVE  t = u
    BY <1>3, <1>5, <1>6, <2>2 DEF StringsSound, Owned
  <2> QED
    BY <2>1, <2>2 DEF Owned
<1>10. Descends(st1)
  BY <1>3, <1>5 DEF StringsSound, Descends
<1>11. StringsSound(st1, mm1, tx, gv1)
  BY <1>4, <1>8, <1>9, <1>10 DEF StringsSound
<1> QED
  BY <1>11 DEF st1, mm1, gv1, h

\* ... and a flat one keeps it, unchanged from then on.
LEMMA NowImmutable ==
  ASSUME NEW st, NEW mm, NEW tx, NEW gv, StringsSound(st, mm, tx, gv),
         NEW s \in Strings, st[s].tag = "flat"
  PROVE  StringsSound([st EXCEPT ![s].mutable = FALSE], mm, tx, [gv EXCEPT ![s] = st[s].buf])
<1> DEFINE h == [st[s] EXCEPT !.mutable = FALSE]
           st1 == [st EXCEPT ![s].mutable = FALSE]
           gv1 == [gv EXCEPT ![s] = st[s].buf]
<1>1. /\ st \in [Strings -> StringRecords] /\ mm \in [Buffers -> Texts \cup {Absent}]
      /\ tx \in [Strings -> Texts] /\ gv \in [Strings -> Buffers \cup {Absent}]
  BY DEF StringsSound, StringsTyped
<1>2. /\ h \in StringRecords /\ h.tag = st[s].tag /\ h.buf = st[s].buf /\ h.len = st[s].len
      /\ h.mutable = FALSE
  BY <1>1 DEF StringRecords
<1>3. st1 = [st EXCEPT ![s] = h] /\ st[s].buf \in Buffers
  BY HeaderIs
<1> HIDE DEF h, st1
<1>4. StringsTyped(st1, mm, tx, gv1)
  BY <1>1, <1>2, <1>3 DEF StringsTyped
<1>5. /\ st1[s] = h /\ gv1[s] = st[s].buf
      /\ \A t \in Strings : t # s => st1[t] = st[t] /\ gv1[t] = gv[t]
  BY <1>1, <1>3
<1> HIDE DEF gv1
<1>6. \A t \in Strings : st1[t].tag = st[t].tag /\ st1[t].buf = st[t].buf /\ st1[t].len = st[t].len
  BY <1>2, <1>5
<1>7. ASSUME NEW t \in Strings PROVE Reads(st1, mm, tx, gv1, t)
  <2>1. Reads(st, mm, tx, gv, t)
    BY DEF StringsSound
  <2>2. CASE t = s
    BY <1>2, <1>5, <2>1, <2>2 DEF Reads, FlatReads, DependentReads
  <2>3. CASE t # s
    <3>1. st1[t] = st[t] /\ gv1[t] = gv[t]
      BY <1>5, <2>3
    <3> QED
      BY <1>6, <2>1, <3>1 DEF Reads, FlatReads, DependentReads
  <2> QED
    BY <2>2, <2>3
<1>8. Owned(st1, mm)
  BY <1>6 DEF StringsSound, Owned
<1>9. Descends(st1)
  BY <1>2, <1>5 DEF StringsSound, Descends
<1>10. StringsSound(st1, mm, tx, gv1)
  BY <1>4, <1>7, <1>8, <1>9 DEF StringsSound
<1> QED
  BY <1>10 DEF st1, gv1

\* realloc: the buffer of l moves to b, or stays and is cut.
LEMMA Moved ==
  ASSUME NEW st, NEW mm, NEW tx, NEW gv, StringsSound(st, mm, tx, gv),
         NEW l \in Strings, st[l].tag = "flat", st[l].mutable,
         NEW b \in Buffers, b = st[l].buf \/ mm[b] = Absent
  PROVE  StringsSound([st EXCEPT ![l].buf = b],
                      [mm EXCEPT ![st[l].buf] = Absent, ![b] = SubSeq(mm[st[l].buf], 1, st[l].len)],
                      tx, gv)
<1> DEFINE a == st[l].buf
           h == [st[l] EXCEPT !.buf = b]
           st1 == [st EXCEPT ![l].buf = b]
           mm1 == [mm EXCEPT ![a] = Absent, ![b] = SubSeq(mm[a], 1, st[l].len)]
<1>1. /\ st \in [Strings -> StringRecords] /\ mm \in [Buffers -> Texts \cup {Absent}]
      /\ tx \in [Strings -> Texts] /\ gv \in [Strings -> Buffers \cup {Absent}]
  BY DEF StringsSound, StringsTyped
<1>2. /\ h \in StringRecords /\ h.tag = "flat" /\ h.buf = b /\ h.len = st[l].len
  BY <1>1 DEF StringRecords
<1>3. /\ a \in Buffers /\ tx[l] = SubSeq(mm[a], 1, st[l].len) /\ tx[l] \in Texts
      /\ Len(tx[l]) = st[l].len /\ gv[l] = Absent
  BY HeaderIs
<1>4. st1 = [st EXCEPT ![l] = h] /\ mm1 = [mm EXCEPT ![a] = Absent, ![b] = tx[l]]
  BY <1>3
<1>5. \A t \in Strings : t # l => st[t].buf # a /\ st[t].buf # b
  <2>1. \A t \in Strings : t # l => st[t].buf # a
    BY <1>3, StringsAssumption DEF StringsSound, Owned
  <2>2. mm[b] = Absent => \A t \in Strings : st[t].buf # b
    BY FreeIsNobodys
  <2> QED
    BY <2>1, <2>2
<1> HIDE DEF a, h, st1, mm1
<1>6. StringsTyped(st1, mm1, tx, gv)
  BY <1>1, <1>2, <1>3, <1>4 DEF StringsTyped
<1>7. /\ st1[l] = h /\ mm1[b] = tx[l] /\ (a # b => mm1[a] = Absent)
      /\ \A t \in Strings : t # l => st1[t] = st[t]
      /\ \A c \in Buffers : c # a /\ c # b => mm1[c] = mm[c]
  BY <1>1, <1>3, <1>4
<1>8. \A t \in Strings : st1[t].tag = st[t].tag /\ st1[t].len = st[t].len
  BY <1>2, <1>7
<1>9. b # Absent /\ Absent \notin Texts
  BY StringsAssumption
<1>10. ASSUME NEW t \in Strings PROVE Reads(st1, mm1, tx, gv, t)
  <2>1. Reads(st, mm, tx, gv, t)
    BY DEF StringsSound
  <2>2. CASE t = l
    <3>1. SubSeq(tx[l], 1, Len(tx[l])) = tx[l]
      BY <1>3, WholeText
    <3>2. Len(tx[l]) \in Nat
      BY <1>3, TextIs
    <3>3. /\ st1[l].tag = "flat" /\ st1[l].buf = b /\ st1[l].len = Len(tx[l]) /\ mm1[st1[l].buf] = tx[l]
      BY <1>2, <1>3, <1>7
    <3>4. FlatReads(st1, mm1, tx, l)
      <4>1. mm1[st1[l].buf] \in Texts /\ st1[l].buf \in Buffers
        BY <1>3, <3>3
      <4>2. st1[l].len <= Len(mm1[st1[l].buf])
        BY <3>2, <3>3
      <4>3. tx[l] = SubSeq(mm1[st1[l].buf], 1, st1[l].len)
        BY <3>1, <3>3
      <4> QED
        BY <4>1, <4>2, <4>3 DEF FlatReads
    <3>5. DependentReads(st1, tx, l)
      BY <3>3 DEF DependentReads
    <3> QED
      BY <1>3, <2>2, <3>3, <3>4, <3>5 DEF Reads
  <2>3. CASE t # l
    <3>1. st1[t] = st[t]
      BY <1>7, <2>3
    <3>2. st[t].tag = "flat" => mm1[st[t].buf] = mm[st[t].buf]
      BY <1>5, <1>7, <2>3, HeaderIs
    <3> QED
      BY <1>8, <2>1, <3>1, <3>2 DEF Reads, FlatReads, DependentReads
  <2> QED
    BY <2>2, <2>3
<1>11. Owned(st1, mm1)
  <2>1. ASSUME NEW c \in Buffers, mm1[c] # Absent PROVE \E t \in Strings : st1[t].buf = c
    <3>1. CASE c = b
      BY <1>2, <1>7, <3>1
    <3>2. CASE c # b
      <4>1. mm[c] # Absent /\ c # a
        BY <1>7, <2>1, <3>2
      <4>2. PICK t \in Strings : st[t].buf = c
        BY <4>1 DEF StringsSound, Owned
      <4>3. t # l
        BY <4>1, <4>2 DEF a
      <4> QED
        BY <1>7, <4>2, <4>3
    <3> QED
      BY <3>1, <3>2
  <2>2. ASSUME NEW t \in Strings, NEW u \in Strings, st1[t].buf = st1[u].buf, st1[t].buf # Absent
        PROVE  t = u
    BY <1>2, <1>5, <1>7, <2>2 DEF StringsSound, Owned
  <2> QED
    BY <2>1, <2>2 DEF Owned
<1>12. Descends(st1)
  BY <1>2, <1>7 DEF StringsSound, Descends
<1>13. StringsSound(st1, mm1, tx, gv)
  BY <1>6, <1>10, <1>11, <1>12 DEF StringsSound
<1> QED
  BY <1>13 DEF st1, mm1, a
\* js_ConcatStrings: f takes the buffer of l, which depends on it.
LEMMA Onto ==
  ASSUME NEW st, NEW mm, NEW tx, NEW gv, StringsSound(st, mm, tx, gv),
         NEW l \in Strings, st[l].tag = "flat", st[l].mutable,
         NEW f \in Strings, st[f].tag = "free", NEW u \in Texts
  PROVE  StringsSound([st EXCEPT ![f] = Flat(st[l].buf, Len(tx[l] \o u), TRUE),
                                 ![l] = Dependent(f, 0, st[l].len)],
                      [mm EXCEPT ![st[l].buf] = tx[l] \o u], [tx EXCEPT ![f] = tx[l] \o u], gv)
<1> DEFINE b == st[l].buf
           n == st[l].len
           chars == tx[l] \o u
           h == Flat(b, Len(chars), TRUE)
           d == Dependent(f, 0, n)
           st1 == [st EXCEPT ![f] = h, ![l] = d]
           mm1 == [mm EXCEPT ![b] = chars]
           tx1 == [tx EXCEPT ![f] = chars]
<1>1. /\ st \in [Strings -> StringRecords] /\ mm \in [Buffers -> Texts \cup {Absent}]
      /\ tx \in [Strings -> Texts] /\ gv \in [Strings -> Buffers \cup {Absent}]
  BY DEF StringsSound, StringsTyped
<1>2. /\ b \in Buffers /\ b # Absent /\ n \in Nat /\ tx[l] \in Texts /\ Len(tx[l]) = n
      /\ gv[l] = Absent /\ gv[f] = Absent /\ st[f].buf = Absent
  BY HeaderIs
<1>3. f # l
  OBVIOUS
<1>4. /\ chars \in Texts /\ Len(chars) \in Nat /\ n <= Len(chars) /\ SubSeq(chars, 1, n) = tx[l]
  <2>1. Len(u) \in Nat /\ chars \in Texts /\ Len(chars) = Len(tx[l]) + Len(u)
        /\ SubSeq(chars, 1, Len(tx[l])) = tx[l]
    BY <1>2, FirstOfBoth, TextIs
  <2> HIDE DEF chars
  <2> QED
    BY <1>2, <2>1
<1> HIDE DEF chars
<1>5. /\ h \in StringRecords /\ h.tag = "flat" /\ h.buf = b /\ h.len = Len(chars)
  BY <1>2, <1>4, NewFlatIs
<1>6. /\ d \in StringRecords /\ d.tag = "dependent" /\ d.buf = Absent /\ d.base = f
      /\ d.start = 0 /\ d.len = n
  BY <1>2, NewDependentIs
<1> HIDE DEF h, d, n, b
<1>7. StringsTyped(st1, mm1, tx1, gv)
  BY <1>1, <1>2, <1>4, <1>5, <1>6 DEF StringsTyped
<1>8. /\ st1[f] = h /\ st1[l] = d /\ mm1[b] = chars /\ tx1[f] = chars /\ tx1[l] = tx[l]
      /\ \A t \in Strings : t # f /\ t # l => st1[t] = st[t] /\ tx1[t] = tx[t]
      /\ \A c \in Buffers : c # b => mm1[c] = mm[c]
  BY <1>1, <1>2, <1>3
<1> HIDE DEF st1, mm1, tx1
<1>9. \A t \in Strings : t # l => st[t].buf # b
  BY <1>2 DEF StringsSound, Owned, b
<1>10. \A t \in Strings : st[t].tag # "free" => st1[t].tag # "free" /\ st1[t].len = st[t].len /\ tx1[t] = tx[t]
  <2>1. SUFFICES ASSUME NEW t \in Strings, st[t].tag # "free"
                 PROVE  st1[t].tag # "free" /\ st1[t].len = st[t].len /\ tx1[t] = tx[t]
    OBVIOUS
  <2>2. CASE t = l
    BY <1>6, <1>8, <2>2 DEF n
  <2>3. CASE t # l
    BY <1>8, <2>1, <2>3
  <2> QED
    BY <2>2, <2>3
<1>11. Absent \notin Texts
  BY StringsAssumption
<1>12. ASSUME NEW t \in Strings PROVE Reads(st1, mm1, tx1, gv, t)
  <2>1. CASE t = f
    <3>1. SubSeq(chars, 1, Len(chars)) = chars
      BY <1>4, WholeText
    <3>2. st1[f].tag = "flat" /\ st1[f].buf = b /\ st1[f].len = Len(chars) /\ mm1[st1[f].buf] = chars
      BY <1>5, <1>8
    <3>3. FlatReads(st1, mm1, tx1, f)
      <4>1. mm1[st1[f].buf] \in Texts /\ st1[f].buf \in Buffers
        BY <1>2, <1>4, <3>2
      <4>2. st1[f].len <= Len(mm1[st1[f].buf])
        BY <1>4, <3>2
      <4>3. tx1[f] = SubSeq(mm1[st1[f].buf], 1, st1[f].len)
        BY <1>8, <3>1, <3>2
      <4> QED
        BY <4>1, <4>2, <4>3 DEF FlatReads
    <3>4. DependentReads(st1, tx1, f)
      BY <3>2 DEF DependentReads
    <3> QED
      BY <1>2, <1>8, <2>1, <3>2, <3>3, <3>4 DEF Reads
  <2>2. CASE t = l
    <3>1. /\ st1[l].tag = "dependent" /\ st1[l].buf = Absent /\ st1[l].base = f
          /\ st1[l].start = 0 /\ st1[l].len = n
      BY <1>6, <1>8
    <3>2. 0 + 1 = 1 /\ 0 + n = n
      BY <1>2
    <3>3. DependentReads(st1, tx1, l)
      <4>1. st1[st1[l].base].tag # "free" /\ st1[st1[l].base].len = Len(chars)
        BY <1>5, <1>8, <3>1
      <4>2. st1[l].start + st1[l].len <= st1[st1[l].base].len
        BY <1>4, <3>1, <3>2, <4>1
      <4>3. tx1[st1[l].base] = chars
        BY <1>8, <3>1
      <4>4. tx1[l] = SubSeq(tx1[st1[l].base], st1[l].start + 1, st1[l].start + st1[l].len)
        BY <1>4, <1>8, <3>1, <3>2, <4>3
      <4> QED
        BY <3>1, <4>1, <4>2, <4>4 DEF DependentReads
    <3>4. FlatReads(st1, mm1, tx1, l)
      BY <3>1 DEF FlatReads
    <3> QED
      BY <1>2, <1>8, <2>2, <3>1, <3>3, <3>4 DEF Reads
  <2>3. CASE t # f /\ t # l
    <3>1. st1[t] = st[t] /\ tx1[t] = tx[t]
      BY <1>8, <2>3
    <3>2. st[t].tag = "flat" => mm1[st[t].buf] = mm[st[t].buf]
      BY <1>8, <1>9, <2>3, HeaderIs
    <3>3. st[t].tag = "dependent" =>
            /\ st1[st[t].base].tag # "free" /\ st1[st[t].base].len = st[st[t].base].len
            /\ tx1[st[t].base] = tx[st[t].base]
      BY <1>10, HeaderIs
    <3>4. Reads(st, mm, tx, gv, t)
      BY DEF StringsSound
    <3> QED
      BY <3>1, <3>2, <3>3, <3>4 DEF Reads, FlatReads, DependentReads
  <2> QED
    BY <2>1, <2>2, <2>3
<1>13. Owned(st1, mm1)
  <2>1. ASSUME NEW c \in Buffers, mm1[c] # Absent PROVE \E t \in Strings : st1[t].buf = c
    <3>1. CASE c = b
      BY <1>5, <1>8, <3>1
    <3>2. CASE c # b
      <4>1. mm[c] # Absent /\ c # Absent
        BY <1>8, <2>1, <3>2, StringsAssumption
      <4>2. PICK t \in Strings : st[t].buf = c
        BY <4>1 DEF StringsSound, Owned
      <4>3. t # l /\ t # f
        BY <1>2, <3>2, <4>1, <4>2 DEF b
      <4> QED
        BY <1>8, <4>2, <4>3
    <3> QED
      BY <3>1, <3>2
  <2>2. ASSUME NEW t \in Strings, NEW v \in Strings, st1[t].buf = st1[v].buf, st1[t].buf # Absent
        PROVE  t = v
    <3>1. t # l /\ v # l
      BY <1>6, <1>8, <2>2
    <3>2. \A x \in Strings : x # l => st1[x].buf = IF x = f THEN b ELSE st[x].buf
      BY <1>5, <1>8
    <3> QED
      BY <1>9, <2>2, <3>1, <3>2 DEF StringsSound, Owned
  <2> QED
    BY <2>1, <2>2 DEF Owned
<1>14. Descends(st1)
  <2>1. PICK rank \in [Strings -> Nat] :
          \A s \in Strings : st[s].tag = "dependent" => rank[st[s].base] < rank[s]
    BY DEF StringsSound, Descends
  <2> DEFINE rank1 == [s \in Strings |-> IF s = f THEN 0 ELSE rank[s] + 1]
  <2>2. rank1 \in [Strings -> Nat] /\ rank1[f] = 0 /\ \A s \in Strings : s # f => rank1[s] = rank[s] + 1
    OBVIOUS
  <2> HIDE DEF rank1
  <2>3. ASSUME NEW s \in Strings, st1[s].tag = "dependent" PROVE rank1[st1[s].base] < rank1[s]
    <3>1. s # f
      BY <1>5, <1>8, <2>3
    <3>2. CASE s = l
      BY <1>3, <1>6, <1>8, <2>1, <2>2, <3>2
    <3>3. CASE s # l
      <4>1. st1[s] = st[s]
        BY <1>8, <3>1, <3>3
      <4>2. st[s].base \in Strings /\ st[s].base # f /\ st[s].tag = "dependent"
        BY <2>3, <4>1, HeaderIs
      <4>3. rank[st[s].base] < rank[s] /\ rank[st[s].base] \in Nat /\ rank[s] \in Nat
        BY <2>1, <4>2
      <4> QED
        BY <2>2, <3>1, <4>1, <4>2, <4>3
    <3> QED
      BY <3>2, <3>3
  <2> QED
    BY <2>2, <2>3 DEF Descends
<1>15. StringsSound(st1, mm1, tx1, gv)
  BY <1>7, <1>12, <1>13, <1>14 DEF StringsSound
<1> QED
  BY <1>15 DEF st1, mm1, tx1, h, d, chars, n, b
\* js_MinimizeDependentStrings changes where a string starts to look only.
LEMMA MinimizedIs ==
  ASSUME StringsInv, NEW s \in Alive
  PROVE  /\ StringsSound(Minimized(s), mem, text, given)
         /\ \A t \in Strings : /\ Minimized(s)[t].tag = str[t].tag /\ Minimized(s)[t].buf = str[t].buf
                               /\ Minimized(s)[t].len = str[t].len
<1> DEFINE st1 == Minimized(s)
           straight(t) == [str[t] EXCEPT !.base = FlatBase(t), !.start = Start(t)]
<1>1. /\ str \in [Strings -> StringRecords] /\ mem \in [Buffers -> Texts \cup {Absent}]
      /\ text \in [Strings -> Texts] /\ given \in [Strings -> Buffers \cup {Absent}]
  BY DEF StringsInv, StringsSound, StringsTyped
<1>2. DOMAIN st1 = Strings /\ st1 = [t \in Strings |-> st1[t]]
      /\ \A t \in Strings : st1[t] = str[t] \/ (t \in Alive /\ IsDependent(t) /\ st1[t] = straight(t))
  <2>1. Dependents(s) \subseteq Alive /\ \A t \in Dependents(s) : IsDependent(t)
    BY BasesAre DEF Dependents
  <2> QED
    BY <2>1 DEF Minimized
<1>3. ASSUME NEW t \in Alive, IsDependent(t)
      PROVE  /\ FlatBase(t) \in Strings /\ Start(t) \in Nat
             /\ straight(t) \in StringRecords /\ straight(t).tag = "dependent"
             /\ straight(t).buf = str[t].buf /\ straight(t).len = str[t].len
             /\ straight(t).mutable = str[t].mutable
             /\ straight(t).base = FlatBase(t) /\ straight(t).start = Start(t)
  <2>1. FlatBase(t) \in Strings /\ Start(t) \in Nat /\ t \in Strings
    BY FlatBaseIs, StartIs DEF Alive
  <2> QED
    BY <1>1, <1>3, <2>1 DEF StringRecords, IsDependent
<1> HIDE DEF st1, straight
<1>4. \A t \in Strings : /\ st1[t] \in StringRecords /\ st1[t].tag = str[t].tag /\ st1[t].buf = str[t].buf
                         /\ st1[t].len = str[t].len /\ st1[t].mutable = str[t].mutable
  BY <1>1, <1>2, <1>3 DEF IsDependent
<1>5. StringsTyped(st1, mem, text, given)
  BY <1>1, <1>2, <1>4 DEF StringsTyped
<1>6. ASSUME NEW t \in Strings PROVE Reads(st1, mem, text, given, t)
  <2>1. Reads(str, mem, text, given, t)
    BY DEF StringsInv, StringsSound
  <2>2. FlatReads(st1, mem, text, t)
    BY <1>4, <2>1 DEF FlatReads, Reads
  <2>3. DependentReads(st1, text, t)
    <3>1. CASE st1[t] = str[t]
      BY <1>4, <2>1, <3>1 DEF DependentReads, Reads, StringsInv, StringsSound
    <3>2. CASE t \in Alive /\ IsDependent(t) /\ st1[t] = straight(t)
      <4>1. /\ FlatBase(t) \in Strings /\ str[FlatBase(t)].tag # "free"
            /\ Start(t) + str[t].len <= str[FlatBase(t)].len
            /\ text[t] = SubSeq(text[FlatBase(t)], Start(t) + 1, Start(t) + str[t].len)
        BY <3>2, FlatBaseIs, PartOfFlat DEF Alive
      <4>2. st1[t].base = FlatBase(t) /\ st1[t].start = Start(t) /\ st1[t].len = str[t].len
        BY <1>3, <3>2
      <4>3. st1[FlatBase(t)].tag # "free" /\ st1[FlatBase(t)].len = str[FlatBase(t)].len
        BY <1>4, <4>1
      <4> QED
        BY <4>1, <4>2, <4>3 DEF DependentReads
    <3> QED
      BY <1>2, <3>1, <3>2
  <2> QED
    BY <1>4, <2>1, <2>2, <2>3 DEF Reads
<1>7. Owned(st1, mem)
  BY <1>4 DEF StringsInv, StringsSound, Owned
<1>8. Descends(st1)
  <2>1. PICK rank \in [Strings -> Nat] :
          \A t \in Strings : str[t].tag = "dependent" => rank[str[t].base] < rank[t]
    BY DEF StringsInv, StringsSound, Descends
  <2> DEFINE Good == {t \in Alive : /\ rank[FlatBase(t)] <= rank[t]
                                    /\ IsDependent(t) => rank[FlatBase(t)] < rank[t]}
  <2>2. ASSUME NEW t \in Alive, IsDependent(t) => str[t].base \in Good PROVE t \in Good
    <3>1. t \in Strings /\ rank[t] \in Nat
      BY DEF Alive
    <3>2. CASE IsDependent(t)
      <4>1. /\ FlatBase(t) = FlatBase(str[t].base) /\ FlatBase(t) \in Strings
            /\ rank[FlatBase(t)] <= rank[str[t].base] /\ str[t].base \in Strings
        BY <2>2, <3>2, FlatBaseIs DEF Alive
      <4>2. rank[str[t].base] < rank[t]
        BY <2>1, <3>1, <3>2 DEF IsDependent
      <4>3. rank[FlatBase(t)] \in Nat /\ rank[str[t].base] \in Nat
        BY <4>1
      <4>4. rank[FlatBase(t)] < rank[t]
        BY <3>1, <4>1, <4>2, <4>3
      <4> QED
        BY <3>1, <4>3, <4>4
    <3>3. CASE ~IsDependent(t)
      <4>1. FlatBase(t) = t
        BY <3>3, FlatBaseIs
      <4> QED
        BY <3>1, <3>3, <4>1
    <3> QED
      BY <3>2, <3>3
  <2> HIDE DEF Good
  <2>3. Alive \subseteq Good
    BY <2>2, EveryString
  <2>4. ASSUME NEW t \in Strings, st1[t].tag = "dependent" PROVE rank[st1[t].base] < rank[t]
    <3>1. str[t].tag = "dependent"
      BY <1>4, <2>4
    <3>2. CASE st1[t] = str[t]
      BY <2>1, <3>1, <3>2
    <3>3. CASE t \in Alive /\ IsDependent(t) /\ st1[t] = straight(t)
      BY <1>3, <2>3, <3>3 DEF Good
    <3> QED
      BY <1>2, <3>2, <3>3
  <2> QED
    BY <2>4 DEF Descends
<1>9. StringsSound(st1, mem, text, given)
  BY <1>5, <1>6, <1>7, <1>8 DEF StringsSound
<1> QED
  BY <1>4, <1>9 DEF st1

\* A collection frees what is not marked.
LEMMA CollectionKeeps ==
  ASSUME StringsInv, NEW kept \in SUBSET Alive, CollectStrings(kept)
  PROVE  StringsInv'
<1> DEFINE met == UNION {Bases(s) : s \in kept}
           freed == {str[s].buf : s \in Alive \ met}
<1>1. /\ str \in [Strings -> StringRecords] /\ mem \in [Buffers -> Texts \cup {Absent}]
      /\ text \in [Strings -> Texts] /\ given \in [Strings -> Buffers \cup {Absent}]
  BY DEF StringsInv, StringsSound, StringsTyped
<1>2. /\ str' = [s \in Strings |-> IF s \in met THEN str[s] ELSE NoString]
      /\ mem' = [b \in Buffers |-> IF b \in freed THEN Absent ELSE mem[b]]
      /\ text' = [s \in Strings |-> IF s \in met THEN text[s] ELSE <<>>]
      /\ given' = [s \in Strings |-> IF s \in met THEN given[s] ELSE Absent]
  BY DEF CollectStrings
<1>3. met \subseteq Alive /\ Leads(met)
  <2>1. ASSUME NEW t \in met PROVE t \in Alive /\ (IsDependent(t) => str[t].base \in met)
    <3>1. PICK s \in kept : t \in Bases(s)
      OBVIOUS
    <3>2. s \in Alive /\ t \in Alive
      BY <3>1, BasesAre
    <3>3. CASE IsDependent(t)
      <4>1. str[t].base \in Strings
        BY <3>2, <3>3, BaseIs DEF Alive
      <4>2. str[t].base \in Bases(s)
        BY <3>1, <3>3, <4>1 DEF Bases, Leads
      <4> QED
        BY <3>1, <3>2, <4>2
    <3> QED
      BY <3>2, <3>3
  <2> QED
    BY <2>1 DEF Leads
<1> HIDE DEF met
<1>4. <<>> \in Texts /\ NoString \in StringRecords /\ NoString.tag = "free" /\ NoString.buf = Absent
  BY EmptySeq, NoStringIs DEF Texts
<1>5. \A b \in freed : \A s \in met : str[s].buf = b => b = Absent
  BY <1>3 DEF StringsInv, StringsSound, Owned, Alive
<1> HIDE DEF freed
<1>6. StringsTyped(str', mem', text', given')
  BY <1>1, <1>2, <1>4 DEF StringsTyped
<1>7. ASSUME NEW s \in Strings PROVE Reads(str', mem', text', given', s)
  <2>1. CASE s \in met
    <3>1. str'[s] = str[s] /\ text'[s] = text[s] /\ given'[s] = given[s]
      BY <1>2, <2>1
    <3>2. str[s].tag = "flat" => mem'[str[s].buf] = mem[str[s].buf]
      BY <1>2, <1>5, <2>1, HeaderIs DEF StringsInv
    <3>3. str[s].tag = "dependent" => str'[str[s].base] = str[str[s].base] /\ text'[str[s].base] = text[str[s].base]
      <4>1. ASSUME str[s].tag = "dependent" PROVE str[s].base \in met /\ str[s].base \in Strings
        BY <1>3, <2>1, <4>1 DEF Leads, IsDependent, Alive
      <4> QED
        BY <1>2, <4>1
    <3>4. Reads(str, mem, text, given, s)
      BY DEF StringsInv, StringsSound
    <3> QED
      BY <3>1, <3>2, <3>3, <3>4 DEF Reads, FlatReads, DependentReads
  <2>2. CASE s \notin met
    BY <1>2, <1>4, <2>2 DEF Reads, FlatReads, DependentReads
  <2> QED
    BY <2>1, <2>2
<1>8. Owned(str', mem')
  <2>1. ASSUME NEW b \in Buffers, mem'[b] # Absent PROVE \E s \in Strings : str'[s].buf = b
    <3>1. b \notin freed /\ mem[b] # Absent /\ b # Absent
      BY <1>2, <2>1, StringsAssumption
    <3>2. PICK s \in Strings : str[s].buf = b
      BY <3>1 DEF StringsInv, StringsSound, Owned
    <3>3. s \in Alive
      BY <3>1, <3>2 DEF StringsInv, StringsSound, Reads, Alive
    <3>4. s \in met
      BY <3>1, <3>2, <3>3 DEF freed
    <3> QED
      BY <1>2, <3>2, <3>4
  <2>2. ASSUME NEW s \in Strings, NEW t \in Strings, str'[s].buf = str'[t].buf, str'[s].buf # Absent
        PROVE  s = t
    <3>1. str'[s] = str[s] /\ str'[t] = str[t]
      BY <1>2, <1>4, <2>2
    <3> QED
      BY <2>2, <3>1 DEF StringsInv, StringsSound, Owned
  <2> QED
    BY <2>1, <2>2 DEF Owned
<1>9. Descends(str')
  <2>1. PICK rank \in [Strings -> Nat] :
          \A s \in Strings : str[s].tag = "dependent" => rank[str[s].base] < rank[s]
    BY DEF StringsInv, StringsSound, Descends
  <2>2. \A s \in Strings : str'[s].tag = "dependent" => rank[str'[s].base] < rank[s]
    BY <1>2, <1>4, <2>1
  <2> QED
    BY <2>2 DEF Descends
<1> QED
  BY <1>6, <1>7, <1>8, <1>9 DEF StringsInv, StringsSound-------------------------------------------------------------------------------
LEMMA FreeStringIs == Alive # Strings => FreeString \in Strings /\ str[FreeString].tag = "free"
<1> SUFFICES ASSUME Alive # Strings PROVE FreeString \in Strings /\ str[FreeString].tag = "free"
  OBVIOUS
<1>1. \E s \in Strings : s \notin Alive
  BY DEF Alive
<1>2. FreeString \in Strings /\ FreeString \notin Alive
  BY <1>1 DEF FreeString
<1> QED
  BY <1>2 DEF Alive

LEMMA FreeBufferIs == FreeBuffers # {} => FreeBuffer \in Buffers /\ mem[FreeBuffer] = Absent
<1> SUFFICES ASSUME FreeBuffers # {} PROVE FreeBuffer \in Buffers /\ mem[FreeBuffer] = Absent
  OBVIOUS
<1>1. \E b \in Buffers : b \in FreeBuffers
  BY DEF FreeBuffers
<1>2. FreeBuffer \in FreeBuffers
  BY <1>1 DEF FreeBuffer
<1> QED
  BY <1>2 DEF FreeBuffers

LEMMA ReadStep == ASSUME StringsInv, NEW s \in Strings, Read(s) PROVE StringsInv'
<1>1. s \in Alive /\ str' = Minimized(s) /\ mem' = mem /\ text' = text /\ given' = given
  BY DEF Read
<1> QED
  BY <1>1, MinimizedIs DEF StringsInv

LEMMA NewStringStep ==
  ASSUME StringsInv, NEW chars \in Texts, NEW mutable \in BOOLEAN, NewString(chars, mutable)
  PROVE  StringsInv'
<1>1. FreeString \in Strings /\ str[FreeString].tag = "free"
  BY FreeStringIs DEF NewString, HasRoom
<1>2. FreeBuffer \in Buffers /\ mem[FreeBuffer] = Absent
  BY FreeBufferIs DEF NewString, HasRoom
<1>3. /\ str' = [str EXCEPT ![FreeString] = Flat(FreeBuffer, Len(chars), mutable)]
      /\ mem' = [mem EXCEPT ![FreeBuffer] = chars]
      /\ text' = [text EXCEPT ![FreeString] = chars]
      /\ given' = given
  BY DEF NewString
<1>4. StringsSound([str EXCEPT ![FreeString] = Flat(FreeBuffer, Len(chars), mutable)],
                   [mem EXCEPT ![FreeBuffer] = chars],
                   [text EXCEPT ![FreeString] = chars], given)
  BY <1>1, <1>2, NewFlat DEF StringsInv
<1> QED
  BY <1>3, <1>4 DEF StringsInv

LEMMA NewDependentStringStep ==
  ASSUME StringsInv, NEW base \in Strings, NEW k \in Nat, NEW n \in Nat,
         NewDependentString(base, k, n)
  PROVE  StringsInv'
<1> DEFINE chars == SubSeq(Chars(mem, base), k + 1, k + n)
<1>1. base \in Alive /\ str[base].tag # "free" /\ k + n <= str[base].len
  BY DEF NewDependentString, Alive
<1>2. chars = SubSeq(text[base], k + 1, k + n)
  BY <1>1, CharsAre
<1>3. text[base] \in Texts /\ Len(text[base]) = str[base].len
  BY <1>1, HeaderIs DEF StringsInv
<1>4. chars \in Texts
  BY <1>1, <1>2, <1>3, TextIs
<1>5. CASE k > MaxStart \/ (k # 0 /\ n > MaxSlice)
  <2>1. NewString(chars, FALSE)
    BY <1>5 DEF NewDependentString
  <2> HIDE DEF chars
  <2> QED
    BY <1>4, <2>1, NewStringStep
<1>6. CASE ~(k > MaxStart \/ (k # 0 /\ n > MaxSlice))
  <2>1. /\ str' = [str EXCEPT ![FreeString] = Dependent(base, k, n)]
        /\ text' = [text EXCEPT ![FreeString] = chars]
        /\ mem' = mem /\ given' = given
    BY <1>6 DEF NewDependentString
  <2>2. FreeString \in Strings /\ str[FreeString].tag = "free"
    BY FreeStringIs DEF NewDependentString
  <2>3. StringsSound([str EXCEPT ![FreeString] = Dependent(base, k, n)], mem,
                     [text EXCEPT ![FreeString] = SubSeq(text[base], k + 1, k + n)], given)
    BY <1>1, <2>2, NewDependent DEF StringsInv
  <2> QED
    BY <1>2, <2>1, <2>3 DEF StringsInv
<1> QED
  BY <1>5, <1>6

LEMMA ConcatCopyStep ==
  ASSUME StringsInv, NEW left \in Strings, NEW right \in Strings, ConcatCopy(left, right)
  PROVE  StringsInv'
<1> DEFINE chars == Chars(mem, left) \o Chars(mem, right)
<1>1. left \in Alive /\ right \in Alive
  BY DEF ConcatCopy
<1>2. Chars(mem, left) \in Texts /\ Chars(mem, right) \in Texts
  BY <1>1, CharsAre, HeaderIs DEF StringsInv
<1>3. chars \in Texts
  BY <1>2, FirstOfBoth
<1>4. NewString(chars, TRUE)
  BY DEF ConcatCopy
<1> HIDE DEF chars
<1> QED
  BY <1>3, <1>4, NewStringStep

LEMMA ReallocIs ==
  ASSUME StringsInv, NEW l \in Alive, OwnsBuffer(l),
         NEW b \in Buffers, b = str[l].buf \/ mem[b] = Absent
  PROVE  /\ str[l].tag = "flat" /\ str[l].mutable
         /\ StringsSound([str EXCEPT ![l].buf = b], Realloc(l, b), text, given)
         /\ Realloc(l, b)[b] = text[l]
         /\ \A c \in Buffers : c # str[l].buf /\ c # b => Realloc(l, b)[c] = mem[c]
<1>1. l \in Strings /\ str[l].tag = "flat" /\ str[l].mutable
  BY HeaderIs DEF OwnsBuffer, IsDependent, Alive, StringsInv
<1>2. /\ mem \in [Buffers -> Texts \cup {Absent}] /\ str[l].buf \in Buffers
      /\ text[l] = SubSeq(mem[str[l].buf], 1, str[l].len)
  BY <1>1, HeaderIs DEF StringsInv, StringsSound, StringsTyped
<1>3. StringsSound([str EXCEPT ![l].buf = b], Realloc(l, b), text, given)
  BY <1>1, Moved DEF StringsInv, Realloc
<1>4. /\ Realloc(l, b)[b] = text[l]
      /\ \A c \in Buffers : c # str[l].buf /\ c # b => Realloc(l, b)[c] = mem[c]
  BY <1>2 DEF Realloc
<1> QED
  BY <1>1, <1>3, <1>4

\* What js_ConcatStrings appends, read after the buffer of left has moved.
LEMMA RightCharsAre ==
  ASSUME StringsInv, NEW left \in Alive, OwnsBuffer(left), NEW right \in Alive,
         NEW b \in Buffers, b = str[left].buf \/ mem[b] = Absent
  PROVE  RightChars(left, right, b) = text[right]
<1> DEFINE flat == FlatBase(right)
           a == str[flat].buf
<1>1. /\ flat \in Alive /\ str[flat].tag = "flat" /\ a \in Buffers /\ a # Absent
      /\ Chars(mem, right) = SubSeq(mem[a], Start(right) + 1, Start(right) + str[right].len)
      /\ Chars(mem, right) = text[right]
  BY CharsAre, HeaderIs, StringsAssumption DEF Chars
<1>2. left \in Strings /\ flat \in Strings
  BY <1>1 DEF Alive
<1>3. CASE a = str[left].buf
  <2>1. flat = left
    BY <1>1, <1>2, <1>3 DEF StringsInv, StringsSound, Owned
  <2>2. /\ Start(right) + str[right].len <= str[left].len
        /\ text[right] = SubSeq(text[left], Start(right) + 1, Start(right) + str[right].len)
    BY <2>1, PartOfFlat
  <2>3. RightBuffer(left, right, b) = b
    BY <1>3 DEF RightBuffer
  <2>4. Realloc(left, b)[b] = text[left]
    BY ReallocIs
  <2> QED
    BY <2>2, <2>3, <2>4 DEF RightChars
<1>4. CASE a # str[left].buf
  <2>1. RightBuffer(left, right, b) = a
    BY <1>4 DEF RightBuffer
  <2>2. a # b
    BY <1>2, <1>4, FreeIsNobodys DEF StringsInv
  <2>3. Realloc(left, b)[a] = mem[a]
    <3>1. \A c \in Buffers : c # str[left].buf /\ c # b => Realloc(left, b)[c] = mem[c]
      BY ReallocIs
    <3>2. a \in Buffers
      BY <1>1
    <3> HIDE DEF a
    <3> QED
      BY <1>4, <2>2, <3>1, <3>2
  <2> HIDE DEF a
  <2> QED
    BY <1>1, <2>1, <2>3 DEF RightChars
<1> QED
  BY <1>3, <1>4

LEMMA ConcatOntoStep ==
  ASSUME StringsInv, NEW left \in Strings, NEW right \in Strings, ConcatOnto(left, right)
  PROVE  StringsInv'
<1>1. left \in Alive /\ right \in Alive /\ OwnsBuffer(left)
  BY DEF ConcatOnto
<1>2. FreeString \in Strings /\ str[FreeString].tag = "free"
  BY FreeStringIs DEF ConcatOnto, HasRoom
<1>3. FreeBuffer \in Buffers /\ mem[FreeBuffer] = Absent
  BY FreeBufferIs DEF ConcatOnto, HasRoom
<1>4. str[left].tag = "flat" /\ str[left].buf \in Buffers
  BY <1>1, HeaderIs DEF OwnsBuffer, IsDependent, Alive, StringsInv
<1>5. PICK b \in {str[left].buf, FreeBuffer} :
        LET chars == Realloc(left, b)[b] \o RightChars(left, right, b) IN
        /\ mem' = [Realloc(left, b) EXCEPT ![b] = chars]
        /\ str' = [str EXCEPT ![FreeString] = Flat(b, Len(chars), TRUE),
                              ![left] = Dependent(FreeString, 0, str[left].len)]
        /\ text' = [text EXCEPT ![FreeString] = text[left] \o text[right]]
  BY DEF ConcatOnto
<1>6. b \in Buffers /\ (b = str[left].buf \/ mem[b] = Absent)
  BY <1>3, <1>4
<1> DEFINE st == [str EXCEPT ![left].buf = b]
           mm == Realloc(left, b)
           u == text[right]
<1>7. StringsSound(st, mm, text, given) /\ mm[b] = text[left] /\ str[left].mutable
      /\ RightChars(left, right, b) = u
  BY <1>1, <1>6, ReallocIs, RightCharsAre
<1>8. /\ mem' = [mm EXCEPT ![b] = text[left] \o u]
      /\ str' = [str EXCEPT ![FreeString] = Flat(b, Len(text[left] \o u), TRUE),
                            ![left] = Dependent(FreeString, 0, str[left].len)]
      /\ text' = [text EXCEPT ![FreeString] = text[left] \o u]
      /\ given' = given
  BY <1>5, <1>7 DEF ConcatOnto
<1>9. str \in [Strings -> StringRecords] /\ u \in Texts
  BY <1>1, HeaderIs DEF StringsInv, StringsSound, StringsTyped
<1>10. /\ st[left].tag = "flat" /\ st[left].mutable /\ st[left].buf = b /\ st[left].len = str[left].len
       /\ st[FreeString].tag = "free"
  BY <1>2, <1>4, <1>7, <1>9 DEF StringRecords
<1>11. \A x, y : [st EXCEPT ![FreeString] = x, ![left] = y] = [str EXCEPT ![FreeString] = x, ![left] = y]
  BY <1>9
<1> HIDE DEF st, mm, u
<1>12. StringsSound([st EXCEPT ![FreeString] = Flat(st[left].buf, Len(text[left] \o u), TRUE),
                               ![left] = Dependent(FreeString, 0, st[left].len)],
                    [mm EXCEPT ![st[left].buf] = text[left] \o u],
                    [text EXCEPT ![FreeString] = text[left] \o u], given)
  BY <1>2, <1>7, <1>9, <1>10, Onto
<1> QED
  BY <1>8, <1>10, <1>11, <1>12 DEF StringsInv

LEMMA ConcatFailsStep == ASSUME StringsInv, NEW left \in Strings, ConcatFails(left) PROVE StringsInv'
<1>1. left \in Alive /\ OwnsBuffer(left) /\ mem' = Realloc(left, FreeBuffer)
      /\ str' = [str EXCEPT ![left].buf = FreeBuffer] /\ text' = text /\ given' = given
  BY DEF ConcatFails
<1>2. FreeBuffer \in Buffers /\ mem[FreeBuffer] = Absent
  BY FreeBufferIs DEF ConcatFails
<1> QED
  BY <1>1, <1>2, ReallocIs DEF StringsInv

LEMMA GetStringCharsStep == ASSUME StringsInv, NEW s \in Strings, GetStringChars(s) PROVE StringsInv'
<1>1. s \in Alive /\ given' = [given EXCEPT ![s] = str'[s].buf] /\ text' = text
  BY DEF GetStringChars
<1>2. str \in [Strings -> StringRecords] /\ str[s].tag \in {"flat", "dependent"}
  BY <1>1, HeaderIs DEF StringsInv, StringsSound, StringsTyped, Alive
<1>3. CASE IsDependent(s)
  <2> DEFINE st == Minimized(s)
  <2>1. FreeBuffer \in Buffers /\ mem[FreeBuffer] = Absent
    BY <1>3, FreeBufferIs DEF GetStringChars
  <2>2. /\ mem' = [mem EXCEPT ![FreeBuffer] = text[s]]
        /\ str' = [st EXCEPT ![s] = Flat(FreeBuffer, str[s].len, FALSE)]
    BY <1>1, <1>3, CharsAre DEF GetStringChars
  <2>3. StringsSound(st, mem, text, given) /\ st[s].tag = "dependent" /\ st[s].len = str[s].len
    BY <1>1, <1>3, MinimizedIs DEF IsDependent
  <2>4. s \in DOMAIN st /\ str[s].len \in Nat
    BY HeaderIs DEF Minimized, StringsInv
  <2> HIDE DEF st
  <2>5. str'[s] = Flat(FreeBuffer, str[s].len, FALSE)
    BY <2>2, <2>4
  <2>6. str'[s].buf = FreeBuffer
    <3>1. Flat(FreeBuffer, str[s].len, FALSE).buf = FreeBuffer
      BY DEF Flat, NoString
    <3> QED
      BY <2>5, <3>1
  <2>7. StringsSound([st EXCEPT ![s] = Flat(FreeBuffer, st[s].len, FALSE)],
                     [mem EXCEPT ![FreeBuffer] = text[s]], text, [given EXCEPT ![s] = FreeBuffer])
    BY <2>1, <2>3, Undepended
  <2> QED
    BY <1>1, <2>2, <2>3, <2>6, <2>7 DEF StringsInv
<1>4. CASE ~IsDependent(s)
  <2>1. str' = [str EXCEPT ![s].mutable = FALSE] /\ mem' = mem
    BY <1>4 DEF GetStringChars
  <2>2. str[s].tag = "flat" /\ str'[s].buf = str[s].buf
    BY <1>2, <1>4, <2>1 DEF IsDependent, StringRecords
  <2>3. StringsSound([str EXCEPT ![s].mutable = FALSE], mem, text, [given EXCEPT ![s] = str[s].buf])
    BY <2>2, NowImmutable DEF StringsInv
  <2> QED
    BY <1>1, <2>1, <2>2, <2>3 DEF StringsInv
<1> QED
  BY <1>3, <1>4

LEMMA StringsInvNext == StringsInv /\ [StringsNext]_stringsVars => StringsInv'
<1> SUFFICES ASSUME StringsInv, [StringsNext]_stringsVars PROVE StringsInv'
  OBVIOUS
<1>1. CASE UNCHANGED stringsVars
  BY <1>1 DEF StringsInv, stringsVars
<1>2. ASSUME NEW chars \in Literals, NewString(chars, TRUE) PROVE StringsInv'
  BY <1>2, NewStringStep, StringsAssumption
<1>3. ASSUME NEW base \in Strings, NEW k \in 0..MaxLength, NEW n \in 1..MaxLength,
             NewDependentString(base, k, n)
      PROVE  StringsInv'
  BY <1>3, NewDependentStringStep, StringsAssumption
<1>4. ASSUME NEW kept \in SUBSET Alive, CollectStrings(kept) PROVE StringsInv'
  BY <1>4, CollectionKeeps
<1> QED
  BY <1>1, <1>2, <1>3, <1>4, ReadStep, GetStringCharsStep, ConcatFailsStep, ConcatCopyStep, ConcatOntoStep
     DEF StringsNext, StringsStep

(***************************************************************************)
(* A string keeps its characters, in a buffer that one string owns, and    *)
(* the pointers js_GetStringChars has given out stay good.                 *)
(***************************************************************************)
THEOREM StringsStayWhole == StringsSpec => []StringsKeep
<1>1. StringsInv /\ [StringsNext]_stringsVars => StringsInv'
  BY StringsInvNext
<1> QED
  BY <1>1, StringsInvInit, StringsInvKeep, PTL DEF StringsSpec
-------------------------------------------------------------------------------
(***************************************************************************)
(* Hash tables.  An odd number is relatively prime to a power of two, so   *)
(* the places that a key leads to are all of the table.                    *)
(***************************************************************************)
Divides(d, a) == \E q \in Int : a = d * q

LEMMA ModIs ==
  ASSUME NEW n \in Nat, n > 0, NEW a \in Int
  PROVE  \E q \in Int : \E r \in 0..n - 1 : q = a \div n /\ r = a % n /\ a = n * q + r
<1> DEFINE q == a \div n
           r == a % n
<1>1. r \in 0..n - 1 /\ q \in Int
  OBVIOUS
<1>2. q = a \div n /\ r = a % n
  OBVIOUS
<1> HIDE DEF q, r
<1>3. a = n * q + r
  BY <1>1, <1>2
<1> QED
  BY <1>1, <1>2, <1>3

LEMMA OddTimes ==
  ASSUME NEW n \in Nat \ {0}, PowerOfTwo(n), NEW u \in Nat, u % 2 = 1,
         NEW d \in 0..n - 1, Divides(n, d * u)
  PROVE  d = 0
<1> DEFINE T == {x \in 1..n : Divides(n, x * u)}
<1>1. n \in T
  <2>1. n * u = n * u /\ u \in Int /\ n \in 1..n
    OBVIOUS
  <2> QED
    BY <2>1 DEF Divides
<1>2. PICK m \in T : \A x \in T : m <= x
  <2>1. T \subseteq Nat
    OBVIOUS
  <2> HIDE DEF T
  <2> QED
    BY <1>1, <2>1, LeastNumber
<1>3. m \in Nat \ {0} /\ m <= n /\ Divides(n, m * u)
  OBVIOUS
<1>4. ASSUME NEW x \in Nat, x <= n, Divides(n, x * u) PROVE x % m = 0
  <2>1. PICK q \in Int, r \in 0..m - 1 : r = x % m /\ x = m * q + r
    <3>1. m \in Nat /\ m > 0 /\ x \in Int
      BY <1>3
    <3> QED
      BY <3>1, ModIs
  <2>2. PICK y \in Int : x * u = n * y
    BY <1>4 DEF Divides
  <2>3. PICK z \in Int : m * u = n * z
    BY <1>3 DEF Divides
  <2>4. r = x - m * q /\ r \in Int
    BY <1>3, <2>1
  <2>5. r * u = n * (y - z * q)
    <3>1. r * u = x * u - (m * u) * q
      BY <1>3, <2>1, <2>4
    <3>2. n * y - (n * z) * q = n * (y - z * q)
      BY <2>1
    <3> QED
      BY <2>2, <2>3, <3>1, <3>2
  <2>6. Divides(n, r * u)
    <3>1. y - z * q \in Int
      BY <2>1
    <3> QED
      BY <2>5, <3>1 DEF Divides
  <2>7. r = 0
    <3>1. SUFFICES ASSUME r # 0 PROVE FALSE
      OBVIOUS
    <3>2. r \in 1..n /\ r < m
      BY <1>3, <2>1, <3>1
    <3>3. r \in T
      BY <2>6, <3>2
    <3>4. m <= r
      <4> HIDE DEF T
      <4> QED
        BY <1>2, <3>3
    <3> QED
      BY <1>3, <2>1, <3>2, <3>4
  <2> QED
    BY <2>1, <2>7
<1> HIDE DEF T
<1>5. PICK q \in Int : n = m * q
  <2>1. n % m = 0
    <3>1. n * u = n * u /\ u \in Int
      OBVIOUS
    <3>2. Divides(n, n * u)
      BY <3>1 DEF Divides
    <3> QED
      BY <1>4, <3>2
  <2>2. PICK q \in Int, r \in 0..m - 1 : r = n % m /\ n = m * q + r
    BY <1>3, ModIs
  <2>3. n = m * q
    BY <1>3, <2>1, <2>2
  <2> QED
    BY <2>3
<1>6. q \in 1..n
  <2>1. m \in Nat /\ m >= 1 /\ n >= 1 /\ q \in Int
    BY <1>3
  <2>2. q >= 1
    <3>1. q <= 0 => m * q <= 0
      BY <2>1
    <3> QED
      BY <1>5, <2>1, <3>1
  <2>3. m * q >= q
    BY <2>1, <2>2
  <2> QED
    BY <1>5, <2>2, <2>3
<1>7. PICK p \in Int : u = q * p
  <2>1. PICK p \in Int : m * u = n * p
    BY <1>3 DEF Divides
  <2>2. m * u = m * (q * p)
    <3>1. (m * q) * p = m * (q * p)
      BY <1>3
    <3> QED
      BY <1>5, <2>1, <3>1
  <2>3. u = q * p
    <3>1. q * p \in Int /\ u \in Int /\ m \in Int /\ m # 0
      BY <1>3
    <3>2. \A a, b, c \in Int : c # 0 /\ c * a = c * b => a = b
      OBVIOUS
    <3> QED
      BY <2>2, <3>1, <3>2
  <2> QED
    BY <2>3
<1>8. q % 2 = 1
  <2>1. SUFFICES ASSUME q % 2 = 0 PROVE FALSE
    BY <1>6
  <2>2. PICK h \in Int : q = 2 * h
    BY <1>6, <2>1
  <2>3. u = 2 * (h * p)
    BY <1>7, <2>2
  <2>4. h * p \in Int
    OBVIOUS
  <2>5. \A x \in Int : (2 * x) % 2 = 0
    OBVIOUS
  <2> QED
    BY <2>3, <2>4, <2>5
<1>9. q = 1
  <2>1. SUFFICES ASSUME q # 1 PROVE FALSE
    OBVIOUS
  <2>2. q \in 2..n
    BY <1>6, <2>1
  <2>3. n % q = 0
    <3>1. PICK e \in Int, r \in 0..q - 1 : r = n % q /\ n = q * e + r
      <4>1. q \in Nat /\ q > 0 /\ n \in Int
        BY <2>2
      <4> QED
        BY <4>1, ModIs
    <3>2. r = q * (m - e)
      BY <1>3, <1>5, <3>1
    <3>3. \A a \in Nat \ {0}, b, c \in Int : 0 <= c /\ c < a /\ c = a * b => c = 0
      <4>1. SUFFICES ASSUME NEW a \in Nat \ {0}, NEW b \in Int, NEW c \in Int, 0 <= c, c < a, c = a * b PROVE c = 0
        OBVIOUS
      <4>2. b >= 1 => a * b >= a
        OBVIOUS
      <4>3. b <= -1 => a * b < 0
        OBVIOUS
      <4>4. b = 0 => a * b = 0
        OBVIOUS
      <4> QED
        BY <4>1, <4>2, <4>3, <4>4
    <3>4. m - e \in Int /\ q \in Nat \ {0} /\ r \in Int /\ 0 <= r /\ r < q
      BY <1>3, <2>2, <3>1
    <3> QED
      BY <3>1, <3>2, <3>3, <3>4
  <2> QED
    BY <1>8, <2>2, <2>3 DEF PowerOfTwo
<1>10. m = n
  BY <1>3, <1>5, <1>9
<1>11. d % n = 0
  BY <1>4, <1>10
<1>12. d % n = d
  OBVIOUS
<1> QED
  BY <1>11, <1>12

LEMMA SizeIs ==
  ASSUME NEW n \in Sizes
  PROVE  /\ n \in Nat /\ n >= 4 /\ n <= Hashes /\ MinSize <= n /\ PowerOfTwo(n)
         /\ \A st : DOMAIN st = 0..n - 1 => Size(st) = n
<1>1. n \in Nat /\ n >= 4 /\ n <= Hashes /\ MinSize <= n /\ PowerOfTwo(n)
  BY TableAssumption DEF Sizes
<1>2. Cardinality(0..n - 1) = n
  <2>1. 0 \in Int /\ n - 1 \in Int /\ ~(0 > n - 1) /\ (n - 1) - 0 + 1 = n
    BY <1>1
  <2> QED
    BY <2>1, FS_Interval
<1> QED
  BY <1>1, <1>2 DEF Size

\* Double hashing needs the second hash code to be relatively prime to the size.
LEMMA ProbesAll ==
  ASSUME NEW n \in Sizes, NEW st, DOMAIN st = 0..n - 1, NEW k \in Keys
  PROVE  /\ \A i \in 0..n - 1 : Probe(st, k, i) \in 0..n - 1
         /\ \A i, j \in 0..n - 1 : Probe(st, k, i) = Probe(st, k, j) => i = j
         /\ \A p \in 0..n - 1 : \E i \in 0..n - 1 : Probe(st, k, i) = p
<1> DEFINE u == Hash2(n, k)
           h == Hash1(n, k)
           f == [i \in 0..n - 1 |-> (h - i * u) % n]
<1>1. n \in Nat /\ n > 0 /\ PowerOfTwo(n) /\ Size(st) = n
  BY SizeIs
<1>2. h \in Nat /\ u \in Nat /\ u % 2 = 1
  <2>1. Hash[k] \in Nat /\ Hashes \in Nat /\ Hashes > 0 /\ n <= Hashes
    BY SizeIs, TableAssumption
  <2>2. PICK unit \in Nat : unit = Hashes \div n /\ unit > 0
    <3>1. PICK q \in Int, r \in 0..n - 1 : q = Hashes \div n /\ Hashes = n * q + r
      BY <1>1, <2>1, ModIs
    <3>2. q > 0
      <4>1. SUFFICES ASSUME q <= 0 PROVE FALSE
        BY <3>1
      <4>2. n * q <= 0
        BY <1>1, <4>1
      <4> QED
        BY <1>1, <2>1, <3>1, <4>2
    <3> QED
      BY <3>1, <3>2
  <2>3. \A a \in Nat : a \div unit \in Nat
    BY <2>2
  <2>4. h \in Nat
    BY <2>1, <2>2, <2>3 DEF Hash1
  <2>5. (Hash[k] * n) % Hashes \in Nat
    <3>1. Hash[k] * n \in Nat
      BY <1>1, <2>1
    <3>2. \A a \in Nat : a % Hashes \in Nat
      BY <2>1
    <3> QED
      BY <3>1, <3>2
  <2>6. ((Hash[k] * n) % Hashes) \div unit \in Nat
    BY <2>3, <2>5
  <2>7. \A a \in Nat : (IF a % 2 = 0 THEN a + 1 ELSE a) \in Nat /\ (IF a % 2 = 0 THEN a + 1 ELSE a) % 2 = 1
    OBVIOUS
  <2> QED
    BY <2>2, <2>4, <2>6, <2>7 DEF Hash2
<1>3. \A i \in 0..n - 1 : Probe(st, k, i) = f[i]
  BY <1>1 DEF Probe
<1> HIDE DEF u, h
<1>4. \A i \in 0..n - 1 : f[i] \in 0..n - 1
  BY <1>1, <1>2
<1>5. ASSUME NEW i \in 0..n - 1, NEW j \in 0..n - 1, i <= j, f[i] = f[j] PROVE i = j
  <2>1. h - i * u \in Int /\ h - j * u \in Int
    BY <1>2
  <2>2. PICK q \in Int, r \in 0..n - 1 : r = (h - i * u) % n /\ h - i * u = n * q + r
    BY <1>1, <2>1, ModIs
  <2>3. PICK p \in Int, s \in 0..n - 1 : s = (h - j * u) % n /\ h - j * u = n * p + s
    BY <1>1, <2>1, ModIs
  <2>4. r = s
    BY <1>5, <2>2, <2>3
  <2>5. (j - i) * u = n * (q - p)
    <3>1. (j - i) * u = (h - i * u) - (h - j * u)
      BY <1>2
    <3>2. (n * q + r) - (n * p + s) = n * (q - p)
      BY <1>1, <2>4
    <3> QED
      BY <2>2, <2>3, <3>1, <3>2
  <2>6. Divides(n, (j - i) * u)
    <3>1. q - p \in Int
      OBVIOUS
    <3> QED
      BY <2>5, <3>1 DEF Divides
  <2>7. j - i \in 0..n - 1 /\ n \in Nat \ {0}
    BY <1>1, <1>5
  <2>8. j - i = 0
    BY <1>1, <1>2, <2>6, <2>7, OddTimes
  <2> QED
    BY <2>8
<1>6. \A i, j \in 0..n - 1 : f[i] = f[j] => i = j
  <2>1. \A i, j \in 0..n - 1 : i <= j \/ j <= i
    BY <1>1
  <2> HIDE DEF f
  <2> QED
    BY <1>5, <2>1
<1>7. f \in Injection(0..n - 1, 0..n - 1)
  BY <1>4, <1>6 DEF Injection, IsInjective
<1>8. IsFiniteSet(0..n - 1)
  BY <1>1, FS_Interval
<1> HIDE DEF f
<1>9. f \in Surjection(0..n - 1, 0..n - 1)
  BY <1>7, <1>8, FS_Injection
<1>10. \A p \in 0..n - 1 : \E i \in 0..n - 1 : f[i] = p
  BY <1>9 DEF Surjection
<1> QED
  BY <1>3, <1>4, <1>6, <1>10
-------------------------------------------------------------------------------
(***************************************************************************)
(* A store in which a search finds what is there: the entries that come    *)
(* before a live one on the way from its hash code are live and told so,   *)
(* or sentinels.                                                           *)
(***************************************************************************)
Entries == [tag : {"free", "removed", "live"}, key : Keys \cup {NoKey}, collided : BOOLEAN]
LiveIn(st) == {i \in DOMAIN st : st[i].tag = "live"}
GoneIn(st) == {i \in DOMAIN st : st[i].tag = "removed"}
KeysIn(st) == {st[i].key : i \in LiveIn(st)}
HasFree(st) == \E i \in DOMAIN st : st[i].tag = "free"

Stored(st, n) ==
  /\ st \in [0..n - 1 -> Entries]
  /\ \A i \in 0..n - 1 : st[i].tag = "live" <=> st[i].key # NoKey
  /\ \A i, j \in LiveIn(st) : st[i].key = st[j].key => i = j

Passed(e) == e.tag = "removed" \/ (e.tag = "live" /\ e.collided)
ReachedBy(st, p, s) ==
  /\ Probe(st, st[p].key, s) = p
  /\ \A j \in 0..s - 1 : Passed(st[Probe(st, st[p].key, j)])
Reached(st, n) == \A p \in LiveIn(st) : \E s \in 0..n - 1 : ReachedBy(st, p, s)

Searched(st, n) == Stored(st, n) /\ Reached(st, n) /\ HasFree(st)

LEMMA SameProbes ==
  ASSUME NEW st, NEW sv, DOMAIN st = DOMAIN sv, NEW k, NEW i
  PROVE  Probe(st, k, i) = Probe(sv, k, i)
BY Zenon DEF Probe, Size

LEMMA LeastIs ==
  ASSUME NEW T, T \subseteq Nat, T # {}
  PROVE  Min(T) \in T /\ \A j \in T : Min(T) <= j
BY LeastNumber, Zenon DEF Min

\* SearchTable ends, at the key if it is in the table and at a free entry if not.
LEMMA Search ==
  ASSUME NEW n \in Sizes, NEW st, Searched(st, n), NEW k \in Keys
  PROVE  /\ Steps(st, k) \in 0..n - 1
         /\ Found(st, k) \in 0..n - 1
         /\ \A j \in 0..Steps(st, k) - 1 : /\ st[Probe(st, k, j)].tag # "free"
                                           /\ st[Probe(st, k, j)].key # k
         /\ k \in KeysIn(st) => st[Found(st, k)].tag = "live" /\ st[Found(st, k)].key = k
         /\ k \notin KeysIn(st) => st[Found(st, k)].tag = "free"
<1> DEFINE T == {i \in 0..Size(st) - 1 : LET e == st[Probe(st, k, i)] IN e.tag = "free" \/ e.key = k}
           s == Steps(st, k)
<1>1. st \in [0..n - 1 -> Entries] /\ DOMAIN st = 0..n - 1 /\ Size(st) = n /\ n \in Nat /\ n > 0
  BY SizeIs DEF Searched, Stored
<1>2. /\ \A i \in 0..n - 1 : Probe(st, k, i) \in 0..n - 1
      /\ \A i, j \in 0..n - 1 : Probe(st, k, i) = Probe(st, k, j) => i = j
      /\ \A p \in 0..n - 1 : \E i \in 0..n - 1 : Probe(st, k, i) = p
  <2>1. DOMAIN st = 0..n - 1
    BY <1>1
  <2> HIDE DEF T, s
  <2> QED
    BY <2>1, ProbesAll
<1>3. T # {}
  <2>1. PICK p \in 0..n - 1 : st[p].tag = "free"
    BY <1>1 DEF Searched, HasFree
  <2>2. PICK i \in 0..n - 1 : Probe(st, k, i) = p
    BY <1>2
  <2>3. i \in T
    BY <1>1, <2>1, <2>2
  <2> QED
    BY <2>3
<1>4. s = Min(T)
  BY DEF Steps
<1>5. s \in T /\ \A j \in T : s <= j
  <2>1. T \subseteq Nat
    OBVIOUS
  <2> HIDE DEF T, s
  <2> QED
    BY <1>3, <1>4, <2>1, LeastIs
<1>6. s \in 0..n - 1 /\ Found(st, k) = Probe(st, k, s) /\ Found(st, k) \in 0..n - 1
  BY <1>1, <1>2, <1>5 DEF Found
<1>7. st[Found(st, k)].tag = "free" \/ st[Found(st, k)].key = k
  BY <1>5, <1>6
<1>8. \A j \in 0..s - 1 : j \notin T /\ j \in 0..Size(st) - 1
  <2> HIDE DEF T
  <2> QED
    BY <1>1, <1>5, <1>6
<1>9. \A j \in 0..s - 1 : st[Probe(st, k, j)].tag # "free" /\ st[Probe(st, k, j)].key # k
  BY <1>8
<1>10. \A i \in 0..n - 1 : st[i].tag = "live" <=> st[i].key # NoKey
  BY DEF Searched, Stored
<1>11. k # NoKey
  BY TableAssumption
<1> HIDE DEF s, T
<1>12. ASSUME k \notin KeysIn(st) PROVE st[Found(st, k)].tag = "free"
  BY <1>1, <1>6, <1>7, <1>10, <1>11, <1>12 DEF KeysIn, LiveIn
<1>13. ASSUME k \in KeysIn(st) PROVE st[Found(st, k)].tag = "live" /\ st[Found(st, k)].key = k
  <2>1. PICK p \in LiveIn(st) : st[p].key = k
    BY <1>13 DEF KeysIn
  <2>2. PICK r \in 0..n - 1 : ReachedBy(st, p, r)
    BY DEF Searched, Reached
  <2>3. Probe(st, k, r) = p /\ \A j \in 0..r - 1 : Passed(st[Probe(st, k, j)])
    BY <2>1, <2>2 DEF ReachedBy
  <2>4. r \in T /\ s <= r
    BY <1>1, <1>5, <2>1, <2>3 DEF T
  <2>5. s = r
    <3>1. SUFFICES ASSUME s # r PROVE FALSE
      OBVIOUS
    <3>2. s \in 0..r - 1
      BY <1>6, <2>4, <3>1
    <3>3. Passed(st[Found(st, k)])
      BY <1>6, <2>3, <3>2
    <3>4. st[Found(st, k)].tag # "free"
      BY <3>3 DEF Passed
    <3>5. Found(st, k) \in LiveIn(st) /\ st[Found(st, k)].key = k
      BY <1>1, <1>6, <1>7, <1>10, <1>11, <3>4 DEF LiveIn
    <3>6. Found(st, k) = p
      BY <2>1, <3>5 DEF Searched, Stored
    <3> QED
      BY <1>2, <1>6, <2>3, <3>1, <3>6
  <2> QED
    BY <1>6, <2>1, <2>3, <2>5 DEF LiveIn
<1> QED
  BY <1>6, <1>9, <1>12, <1>13 DEF s

LEMMA HasIs ==
  ASSUME NEW n \in Sizes, NEW st, Searched(st, n), NEW k \in Keys
  PROVE  Has(st, k) <=> k \in KeysIn(st)
BY Search DEF Has

\* An entry is added at the first sentinel on the way, or else at the free entry.
LEMMA TargetIs ==
  ASSUME NEW n \in Sizes, NEW st, Searched(st, n), NEW k \in Keys, k \notin KeysIn(st)
  PROVE  /\ Target(st, k) \in 0..n - 1
         /\ st[Target(st, k)].tag \in {"free", "removed"}
         /\ GoneIn(st) = {} => st[Target(st, k)].tag = "free"
         /\ \E t \in 0..Steps(st, k) : /\ Target(st, k) = Probe(st, k, t)
                                       /\ \A j \in 0..t - 1 : st[Probe(st, k, j)].tag = "live"
<1> DEFINE s == Steps(st, k)
           R == {i \in 0..s : st[Probe(st, k, i)].tag = "removed"}
<1>1. /\ s \in 0..n - 1 /\ Found(st, k) = Probe(st, k, s) /\ st[Found(st, k)].tag = "free"
      /\ Found(st, k) \in 0..n - 1
      /\ \A j \in 0..s - 1 : st[Probe(st, k, j)].tag # "free"
  BY Search DEF Found
<1>2. \A i \in 0..n - 1 : st[i] \in Entries
  BY DEF Searched, Stored
<1>3. DOMAIN st = 0..n - 1 /\ n \in Nat
  BY SizeIs DEF Searched, Stored
<1>4. \A i \in 0..n - 1 : Probe(st, k, i) \in 0..n - 1
  BY <1>3, ProbesAll
<1>5. \A i \in 0..n - 1 : st[i].tag \in {"free", "removed", "live"}
  BY <1>2 DEF Entries
<1>6. Target(st, k) = IF R # {} THEN Probe(st, k, Min(R)) ELSE Found(st, k)
  BY <1>1 DEF Target
<1> HIDE DEF s
<1>7. CASE R = {}
  <2>1. Target(st, k) = Probe(st, k, s) /\ s \in 0..s
    BY <1>1, <1>6, <1>7
  <2>2. \A j \in 0..s - 1 : st[Probe(st, k, j)].tag = "live"
    <3>1. ASSUME NEW j \in 0..s - 1 PROVE st[Probe(st, k, j)].tag = "live"
      <4>1. j \in 0..s /\ j \in 0..n - 1
        BY <1>1, <1>3
      <4> QED
        BY <1>1, <1>4, <1>5, <1>7, <4>1
    <3> QED
      BY <3>1
  <2> QED
    BY <1>1, <2>1, <2>2 DEF s
<1>8. CASE R # {}
  <2> DEFINE t == Min(R)
  <2>1. R \subseteq Nat
    BY <1>1
  <2>2. t \in R /\ \A j \in R : t <= j
    <3> HIDE DEF R
    <3> QED
      BY <1>8, <2>1, LeastIs
  <2> HIDE DEF t
  <2>3. t \in 0..s /\ st[Probe(st, k, t)].tag = "removed"
    BY <2>2
  <2>4. Target(st, k) = Probe(st, k, t) /\ Target(st, k) \in 0..n - 1
    <3>1. Target(st, k) = Probe(st, k, t)
      BY <1>6, <1>8 DEF t
    <3> QED
      BY <1>1, <1>3, <1>4, <2>3, <3>1
  <2>5. \A j \in 0..t - 1 : st[Probe(st, k, j)].tag = "live"
    <3>1. ASSUME NEW j \in 0..t - 1 PROVE st[Probe(st, k, j)].tag = "live"
      <4>1. j \in 0..s - 1 /\ j \in 0..s /\ j \in 0..n - 1 /\ ~(t <= j)
        BY <1>1, <1>3, <2>3
      <4>2. j \notin R
        <5> HIDE DEF R
        <5> QED
          BY <2>2, <4>1
      <4> QED
        BY <1>1, <1>4, <1>5, <4>1, <4>2
    <3> QED
      BY <3>1
  <2>6. GoneIn(st) # {}
    BY <1>3, <2>3, <2>4 DEF GoneIn
  <2> QED
    BY <2>3, <2>4, <2>5, <2>6 DEF s
<1> QED
  BY <1>7, <1>8

LEMMA StillReached ==
  ASSUME NEW n \in Sizes, NEW st, NEW sv, DOMAIN st = 0..n - 1, DOMAIN sv = 0..n - 1,
         \A i \in 0..n - 1 : Passed(st[i]) => Passed(sv[i]),
         NEW p, st[p].key \in Keys, sv[p].key = st[p].key,
         NEW s \in 0..n - 1, ReachedBy(st, p, s)
  PROVE  ReachedBy(sv, p, s)
<1> DEFINE k == st[p].key
<1>1. \A j : Probe(sv, k, j) = Probe(st, k, j)
  BY SameProbes
<1>2. \A j \in 0..n - 1 : Probe(st, k, j) \in 0..n - 1
  BY ProbesAll
<1>3. \A j \in 0..s - 1 : j \in 0..n - 1
  BY SizeIs
<1> HIDE DEF k
<1>4. Probe(st, k, s) = p /\ \A j \in 0..s - 1 : Passed(st[Probe(st, k, j)])
  BY DEF ReachedBy, k
<1>5. \A j \in 0..s - 1 : Passed(sv[Probe(sv, k, j)])
  BY <1>1, <1>2, <1>3, <1>4
<1> QED
  BY <1>1, <1>4, <1>5 DEF ReachedBy, k

\* An entry that is passed is told that another was added past it.
LEMMA ToldIs ==
  ASSUME NEW n \in Sizes, NEW st, Searched(st, n), NEW k \in Keys
  PROVE  /\ Told(st, k) \in [0..n - 1 -> Entries]
         /\ \A i \in 0..n - 1 : /\ Told(st, k)[i].tag = st[i].tag
                                /\ Told(st, k)[i].key = st[i].key
                                /\ Passed(st[i]) => Passed(Told(st, k)[i])
         /\ \A j \in 0..Steps(st, k) - 1 : st[Probe(st, k, j)].tag = "live" => Passed(Told(st, k)[Probe(st, k, j)])
<1> DEFINE passed == {Probe(st, k, i) : i \in 0..Steps(st, k) - 1}
<1>1. st \in [0..n - 1 -> Entries] /\ DOMAIN st = 0..n - 1
  BY DEF Searched, Stored
<1>2. Told(st, k) = [i \in 0..n - 1 |-> IF i \in passed /\ st[i].tag = "live" THEN [st[i] EXCEPT !.collided = TRUE] ELSE st[i]]
  BY <1>1 DEF Told
<1>3. \A j \in 0..Steps(st, k) - 1 : Probe(st, k, j) \in passed /\ Probe(st, k, j) \in 0..n - 1
  <2>1. \A j \in 0..n - 1 : Probe(st, k, j) \in 0..n - 1
    BY <1>1, ProbesAll
  <2>2. \A j \in 0..Steps(st, k) - 1 : j \in 0..n - 1
    BY SizeIs, Search
  <2> QED
    BY <2>1, <2>2
<1> HIDE DEF passed
<1>4. \A e \in Entries : /\ [e EXCEPT !.collided = TRUE] \in Entries
                         /\ [e EXCEPT !.collided = TRUE].tag = e.tag
                         /\ [e EXCEPT !.collided = TRUE].key = e.key
                         /\ [e EXCEPT !.collided = TRUE].collided = TRUE
  BY DEF Entries
<1>5. \A i \in 0..n - 1 : st[i] \in Entries
  BY <1>1
<1>6. ASSUME NEW i \in 0..n - 1
      PROVE  /\ Told(st, k)[i] \in Entries /\ Told(st, k)[i].tag = st[i].tag /\ Told(st, k)[i].key = st[i].key
             /\ Passed(st[i]) => Passed(Told(st, k)[i])
             /\ i \in passed /\ st[i].tag = "live" => Passed(Told(st, k)[i])
  <2>1. CASE i \in passed /\ st[i].tag = "live"
    <3>1. Told(st, k)[i] = [st[i] EXCEPT !.collided = TRUE]
      BY <1>2, <2>1
    <3> QED
      BY <1>4, <1>5, <2>1, <3>1 DEF Passed
  <2>2. CASE ~(i \in passed /\ st[i].tag = "live")
    BY <1>2, <1>5, <2>2
  <2> QED
    BY <2>1, <2>2
<1>7. Told(st, k) \in [0..n - 1 -> Entries]
  BY <1>2, <1>6
<1> QED
  BY <1>3, <1>6, <1>7

LEMMA ToldKeeps ==
  ASSUME NEW n \in Sizes, NEW st, Searched(st, n), NEW k \in Keys
  PROVE  /\ Searched(Told(st, k), n)
         /\ LiveIn(Told(st, k)) = LiveIn(st) /\ GoneIn(Told(st, k)) = GoneIn(st)
         /\ KeysIn(Told(st, k)) = KeysIn(st)
<1> DEFINE sv == Told(st, k)
<1>1. /\ sv \in [0..n - 1 -> Entries]
      /\ \A i \in 0..n - 1 : sv[i].tag = st[i].tag /\ sv[i].key = st[i].key /\ (Passed(st[i]) => Passed(sv[i]))
  BY ToldIs
<1>2. /\ st \in [0..n - 1 -> Entries] /\ DOMAIN st = 0..n - 1
      /\ \A i \in 0..n - 1 : st[i].tag = "live" <=> st[i].key # NoKey
      /\ \A i, j \in LiveIn(st) : st[i].key = st[j].key => i = j
  BY DEF Searched, Stored
<1> HIDE DEF sv
<1>3. DOMAIN sv = 0..n - 1
  BY <1>1
<1>4. LiveIn(sv) = LiveIn(st) /\ GoneIn(sv) = GoneIn(st)
  BY <1>1, <1>2, <1>3 DEF LiveIn, GoneIn
<1>5. KeysIn(sv) = KeysIn(st)
  <2>1. \A i \in LiveIn(st) : sv[i].key = st[i].key
    BY <1>1, <1>2 DEF LiveIn
  <2> QED
    BY <1>4, <2>1 DEF KeysIn
<1>6. Stored(sv, n)
  <2>1. \A i, j \in LiveIn(sv) : i \in 0..n - 1 /\ j \in 0..n - 1
    BY <1>3 DEF LiveIn
  <2> QED
    BY <1>1, <1>2, <1>4, <2>1 DEF Stored
<1>7. Reached(sv, n)
  <2>1. SUFFICES ASSUME NEW p \in LiveIn(sv) PROVE \E s \in 0..n - 1 : ReachedBy(sv, p, s)
    BY DEF Reached
  <2>2. PICK s \in 0..n - 1 : ReachedBy(st, p, s)
    BY <1>4 DEF Searched, Reached
  <2>3. p \in 0..n - 1 /\ st[p].key \in Keys
    BY <1>2, <1>4 DEF LiveIn, Entries
  <2> QED
    BY <1>1, <1>2, <1>3, <2>2, <2>3, StillReached
<1>8. HasFree(sv)
  BY <1>1, <1>2, <1>3 DEF Searched, HasFree
<1> QED
  BY <1>4, <1>5, <1>6, <1>7, <1>8 DEF Searched, sv

\* The key that is added is reached, and all others still are.
LEMMA AddedKeeps ==
  ASSUME NEW n \in Sizes, NEW st, Searched(st, n), NEW k \in Keys, k \notin KeysIn(st),
         HasFree(Added(st, k))
  PROVE  /\ Searched(Added(st, k), n)
         /\ KeysIn(Added(st, k)) = KeysIn(st) \cup {k}
         /\ GoneIn(Added(st, k)) = GoneIn(st) \ {Target(st, k)}
<1> DEFINE sv == Added(st, k)
           to == Target(st, k)
           told == Told(st, k)
           gone == st[to].tag = "removed"
<1>1. /\ told \in [0..n - 1 -> Entries]
      /\ \A i \in 0..n - 1 : told[i].tag = st[i].tag /\ told[i].key = st[i].key /\ (Passed(st[i]) => Passed(told[i]))
      /\ \A j \in 0..Steps(st, k) - 1 : st[Probe(st, k, j)].tag = "live" => Passed(told[Probe(st, k, j)])
  BY ToldIs
<1>2. /\ st \in [0..n - 1 -> Entries] /\ DOMAIN st = 0..n - 1
      /\ \A i \in 0..n - 1 : st[i].tag = "live" <=> st[i].key # NoKey
      /\ \A i, j \in LiveIn(st) : st[i].key = st[j].key => i = j
  BY DEF Searched, Stored
<1>3. PICK t \in 0..Steps(st, k) : to = Probe(st, k, t) /\ \A j \in 0..t - 1 : st[Probe(st, k, j)].tag = "live"
  BY TargetIs
<1>4. to \in 0..n - 1 /\ st[to].tag \in {"free", "removed"} /\ Steps(st, k) \in 0..n - 1
  BY TargetIs, Search
<1>5. LiveEntry(k, gone) \in Entries /\ LiveEntry(k, gone).tag = "live" /\ LiveEntry(k, gone).key = k
      /\ LiveEntry(k, gone).collided = gone
  BY DEF LiveEntry, Entries
<1>6. sv = [told EXCEPT ![to] = LiveEntry(k, gone)]
  BY DEF Added
<1> HIDE DEF sv, to, told, gone
<1>7. sv \in [0..n - 1 -> Entries] /\ DOMAIN sv = 0..n - 1 /\ sv[to] = LiveEntry(k, gone)
      /\ \A i \in 0..n - 1 : i # to => sv[i] = told[i]
  BY <1>1, <1>4, <1>5, <1>6
<1>8. LiveIn(sv) = LiveIn(st) \cup {to} /\ to \notin LiveIn(st)
  BY <1>1, <1>2, <1>4, <1>5, <1>7 DEF LiveIn
<1>9. GoneIn(sv) = GoneIn(st) \ {to}
  BY <1>1, <1>2, <1>4, <1>5, <1>7 DEF GoneIn
<1>10. \A i \in LiveIn(st) : i \in 0..n - 1 /\ i # to /\ sv[i].key = st[i].key
  BY <1>1, <1>2, <1>7, <1>8 DEF LiveIn
<1>11. sv[to].key = k
  BY <1>5, <1>7
<1>12. KeysIn(sv) = KeysIn(st) \cup {k}
  BY <1>8, <1>10, <1>11 DEF KeysIn
<1>13. Stored(sv, n)
  <2>1. \A i \in 0..n - 1 : sv[i].tag = "live" <=> sv[i].key # NoKey
    BY <1>1, <1>2, <1>4, <1>5, <1>7, TableAssumption
  <2>2. \A i \in LiveIn(st) : st[i].key # k
    BY DEF KeysIn
  <2>3. \A i, j \in LiveIn(sv) : sv[i].key = sv[j].key => i = j
    BY <1>2, <1>8, <1>10, <1>11, <2>2
  <2> QED
    BY <1>7, <2>1, <2>3 DEF Stored
<1>14. \A i \in 0..n - 1 : Passed(st[i]) => Passed(sv[i])
  <2>1. Passed(st[to]) => Passed(sv[to])
    BY <1>4, <1>5, <1>7 DEF Passed, gone
  <2> QED
    BY <1>1, <1>7, <2>1
<1>15. Reached(sv, n)
  <2>1. SUFFICES ASSUME NEW p \in LiveIn(sv) PROVE \E s \in 0..n - 1 : ReachedBy(sv, p, s)
    BY DEF Reached
  <2>2. CASE p \in LiveIn(st)
    <3>1. PICK s \in 0..n - 1 : ReachedBy(st, p, s)
      BY <2>2 DEF Searched, Reached
    <3>2. p \in 0..n - 1 /\ st[p].key \in Keys /\ sv[p].key = st[p].key
      BY <1>2, <1>10, <2>2 DEF LiveIn, Entries
    <3> QED
      BY <1>2, <1>7, <1>14, <3>1, <3>2, StillReached
  <2>3. CASE p = to
    <3>1. \A j : Probe(sv, k, j) = Probe(st, k, j)
      BY <1>2, <1>7, SameProbes
    <3>2. /\ \A i \in 0..n - 1 : Probe(st, k, i) \in 0..n - 1
          /\ \A i, j \in 0..n - 1 : Probe(st, k, i) = Probe(st, k, j) => i = j
      BY <1>2, ProbesAll
    <3>3. t \in 0..n - 1 /\ \A j \in 0..t - 1 : j \in 0..n - 1 /\ j # t /\ j \in 0..Steps(st, k) - 1
      BY <1>3, <1>4, SizeIs
    <3>4. \A j \in 0..t - 1 : Probe(st, k, j) \in 0..n - 1 /\ Probe(st, k, j) # to
      BY <1>3, <3>2, <3>3
    <3>5. \A j \in 0..t - 1 : Passed(sv[Probe(sv, k, j)])
      BY <1>1, <1>3, <1>7, <3>1, <3>3, <3>4
    <3>6. ReachedBy(sv, p, t)
      BY <1>3, <1>11, <2>3, <3>1, <3>5 DEF ReachedBy
    <3> QED
      BY <3>3, <3>6
  <2> QED
    BY <1>8, <2>1, <2>2, <2>3
<1> QED
  BY <1>9, <1>12, <1>13, <1>15 DEF Searched, sv, to

\* The sentinel for a removed entry that others were added past keeps them reached.
LEMMA WithoutKeeps ==
  ASSUME NEW n \in Sizes, NEW st, Searched(st, n), NEW i \in LiveIn(st)
  PROVE  /\ Searched(Without(st, i), n)
         /\ KeysIn(Without(st, i)) = KeysIn(st) \ {st[i].key}
         /\ GoneIn(Without(st, i)) = IF st[i].collided THEN GoneIn(st) \cup {i} ELSE GoneIn(st)
         /\ i \notin GoneIn(st)
<1> DEFINE sv == Without(st, i)
           e == IF st[i].collided THEN RemovedEntry ELSE FreeEntry
<1>1. /\ st \in [0..n - 1 -> Entries] /\ DOMAIN st = 0..n - 1
      /\ \A p \in 0..n - 1 : st[p].tag = "live" <=> st[p].key # NoKey
      /\ \A p, q \in LiveIn(st) : st[p].key = st[q].key => p = q
  BY DEF Searched, Stored
<1>2. i \in 0..n - 1 /\ st[i].tag = "live" /\ i \notin GoneIn(st)
  BY <1>1 DEF LiveIn, GoneIn
<1>3. sv = [st EXCEPT ![i] = e]
  BY <1>1, <1>2 DEF Without
<1>4. e \in Entries /\ e.key = NoKey /\ e.tag # "live" /\ (st[i].collided => e.tag = "removed")
      /\ (~st[i].collided => e.tag = "free")
  BY DEF Entries, RemovedEntry, FreeEntry
<1> HIDE DEF sv, e
<1>5. sv \in [0..n - 1 -> Entries] /\ DOMAIN sv = 0..n - 1 /\ sv[i] = e
      /\ \A p \in 0..n - 1 : p # i => sv[p] = st[p]
  BY <1>1, <1>2, <1>3, <1>4
<1>6. LiveIn(sv) = LiveIn(st) \ {i}
  BY <1>1, <1>2, <1>4, <1>5 DEF LiveIn
<1>7. GoneIn(sv) = IF st[i].collided THEN GoneIn(st) \cup {i} ELSE GoneIn(st)
  BY <1>1, <1>2, <1>4, <1>5 DEF GoneIn
<1>8. \A p \in LiveIn(sv) : p \in LiveIn(st) /\ p \in 0..n - 1 /\ p # i /\ sv[p] = st[p]
  BY <1>1, <1>5, <1>6 DEF LiveIn
<1>9. KeysIn(sv) = KeysIn(st) \ {st[i].key}
  BY <1>1, <1>6, <1>8 DEF KeysIn
<1>10. Stored(sv, n)
  <2>1. \A p \in 0..n - 1 : sv[p].tag = "live" <=> sv[p].key # NoKey
    BY <1>1, <1>4, <1>5
  <2>2. \A p, q \in LiveIn(sv) : sv[p].key = sv[q].key => p = q
    BY <1>1, <1>8
  <2> QED
    BY <1>5, <2>1, <2>2 DEF Stored
<1>11. \A p \in 0..n - 1 : Passed(st[p]) => Passed(sv[p])
  <2>1. Passed(st[i]) => Passed(sv[i])
    BY <1>2, <1>4, <1>5 DEF Passed
  <2> QED
    BY <1>5, <2>1
<1>12. Reached(sv, n)
  <2>1. SUFFICES ASSUME NEW p \in LiveIn(sv) PROVE \E s \in 0..n - 1 : ReachedBy(sv, p, s)
    BY DEF Reached
  <2>2. PICK s \in 0..n - 1 : ReachedBy(st, p, s)
    BY <1>8 DEF Searched, Reached
  <2>3. st[p].key \in Keys /\ sv[p].key = st[p].key
    BY <1>1, <1>8 DEF LiveIn, Entries
  <2> QED
    BY <1>1, <1>5, <1>11, <2>2, <2>3, StillReached
<1>13. HasFree(sv)
  <2>1. PICK p \in 0..n - 1 : st[p].tag = "free"
    BY <1>1 DEF Searched, HasFree
  <2>2. p # i
    BY <1>2, <2>1
  <2> QED
    BY <1>5, <2>1, <2>2 DEF HasFree
<1> QED
  BY <1>2, <1>7, <1>9, <1>10, <1>12, <1>13 DEF Searched, sv
-------------------------------------------------------------------------------
(***************************************************************************)
(* The counts say that an entry is free, and a table that changes has      *)
(* room for the entries of the old one.                                    *)
(***************************************************************************)
LEMMA CountIs ==
  ASSUME NEW n \in Sizes, NEW st, Stored(st, n)
  PROVE  /\ IsFiniteSet(LiveIn(st)) /\ IsFiniteSet(GoneIn(st)) /\ IsFiniteSet(KeysIn(st))
         /\ KeysIn(st) \subseteq Keys
         /\ Cardinality(LiveIn(st)) = Cardinality(KeysIn(st))
         /\ Cardinality(LiveIn(st) \cup GoneIn(st)) = Cardinality(KeysIn(st)) + Cardinality(GoneIn(st))
<1> DEFINE f == [p \in LiveIn(st) |-> st[p].key]
<1>1. /\ st \in [0..n - 1 -> Entries] /\ DOMAIN st = 0..n - 1
      /\ \A i \in 0..n - 1 : st[i].tag = "live" <=> st[i].key # NoKey
      /\ \A i, j \in LiveIn(st) : st[i].key = st[j].key => i = j
  BY DEF Stored
<1>2. LiveIn(st) \subseteq 0..n - 1 /\ GoneIn(st) \subseteq 0..n - 1 /\ LiveIn(st) \cap GoneIn(st) = {}
  BY <1>1 DEF LiveIn, GoneIn
<1>3. IsFiniteSet(LiveIn(st)) /\ IsFiniteSet(GoneIn(st))
  <2>1. IsFiniteSet(0..n - 1)
    BY SizeIs, FS_Interval
  <2> QED
    BY <1>2, <2>1, FS_Subset
<1>4. KeysIn(st) \subseteq Keys
  BY <1>1 DEF KeysIn, LiveIn, Entries
<1>5. f \in Surjection(LiveIn(st), KeysIn(st)) /\ f \in Injection(LiveIn(st), KeysIn(st))
  BY <1>1 DEF KeysIn, Surjection, Injection, IsInjective
<1> HIDE DEF f
<1>6. IsFiniteSet(KeysIn(st)) /\ Cardinality(LiveIn(st)) = Cardinality(KeysIn(st))
  BY <1>3, <1>5, FS_Surjection
<1>7. Cardinality(LiveIn(st) \cup GoneIn(st)) = Cardinality(KeysIn(st)) + Cardinality(GoneIn(st))
  <2>1. Cardinality(LiveIn(st) \cap GoneIn(st)) = 0
    BY <1>2, FS_EmptySet
  <2>2. Cardinality(LiveIn(st)) \in Nat /\ Cardinality(GoneIn(st)) \in Nat
    BY <1>3, FS_CardinalityType
  <2>3. Cardinality(LiveIn(st) \cup GoneIn(st)) = Cardinality(LiveIn(st)) + Cardinality(GoneIn(st)) - 0
    BY <1>3, <2>1, FS_Union, Zenon
  <2> QED
    BY <1>6, <2>2, <2>3
<1> QED
  BY <1>3, <1>4, <1>6, <1>7

LEMMA FreeLeft ==
  ASSUME NEW n \in Sizes, NEW st, Stored(st, n), Cardinality(KeysIn(st)) + Cardinality(GoneIn(st)) <= n - 2, NEW x
  PROVE  \E i \in 0..n - 1 : i # x /\ st[i].tag = "free"
<1> DEFINE U == LiveIn(st) \cup GoneIn(st)
<1>1. IsFiniteSet(U) /\ Cardinality(U) <= n - 2 /\ n \in Nat
  BY CountIs, FS_Union, SizeIs
<1>2. Cardinality(U) \in Nat
  BY <1>1, FS_CardinalityType
<1> HIDE DEF U
<1>3. IsFiniteSet(U \cup {x}) /\ Cardinality(U \cup {x}) <= n - 1
  <2>1. /\ IsFiniteSet(U \cup {x})
        /\ Cardinality(U \cup {x}) = IF x \in U THEN Cardinality(U) ELSE Cardinality(U) + 1
    BY <1>1, FS_AddElement, Zenon
  <2> QED
    BY <1>1, <1>2, <2>1
<1>4. IsFiniteSet(0..n - 1) /\ Cardinality(0..n - 1) = n
  <2>1. 0 \in Int /\ n - 1 \in Int /\ ~(0 > n - 1) /\ (n - 1) - 0 + 1 = n
    BY SizeIs
  <2> QED
    BY <2>1, FS_Interval
<1>5. ~(0..n - 1 \subseteq U \cup {x})
  <2>1. SUFFICES ASSUME 0..n - 1 \subseteq U \cup {x} PROVE FALSE
    OBVIOUS
  <2>2. Cardinality(0..n - 1) <= Cardinality(U \cup {x})
    BY <1>3, <2>1, FS_Subset
  <2>3. Cardinality(U \cup {x}) \in Nat
    BY <1>3, FS_CardinalityType
  <2> QED
    BY <1>1, <1>3, <1>4, <2>2, <2>3
<1>6. PICK i \in 0..n - 1 : i \notin U /\ i # x
  BY <1>5
<1>7. st[i] \in Entries /\ i \in DOMAIN st
  BY DEF Stored
<1>8. st[i].tag = "free"
  BY <1>6, <1>7 DEF LiveIn, GoneIn, Entries, U
<1> QED
  BY <1>6, <1>8

LEMMA RoomAfter ==
  ASSUME NEW n \in Sizes, NEW st, Searched(st, n), NEW k \in Keys, k \notin KeysIn(st),
         Cardinality(KeysIn(st)) + Cardinality(GoneIn(st)) <= n - 2
  PROVE  HasFree(Added(st, k))
<1> DEFINE to == Target(st, k)
           told == Told(st, k)
<1>1. PICK i \in 0..n - 1 : i # to /\ st[i].tag = "free"
  BY FreeLeft DEF Searched
<1>2. told \in [0..n - 1 -> Entries] /\ told[i].tag = "free" /\ to \in 0..n - 1
  BY <1>1, ToldIs, TargetIs
<1>3. DOMAIN Added(st, k) = 0..n - 1 /\ Added(st, k)[i] = told[i]
  <2>1. Added(st, k) = [told EXCEPT ![to] = LiveEntry(k, st[to].tag = "removed")]
    BY DEF Added
  <2> HIDE DEF told, to
  <2> QED
    BY <1>1, <1>2, <2>1
<1> QED
  BY <1>2, <1>3 DEF HasFree

LEMMA EmptyIs ==
  ASSUME NEW n \in Sizes
  PROVE  /\ Searched(EmptyStore(n), n) /\ GoneIn(EmptyStore(n)) = {} /\ KeysIn(EmptyStore(n)) = {}
<1> DEFINE st == EmptyStore(n)
<1>1. FreeEntry \in Entries /\ FreeEntry.tag = "free" /\ FreeEntry.key = NoKey
  BY DEF FreeEntry, Entries
<1>2. st \in [0..n - 1 -> Entries] /\ DOMAIN st = 0..n - 1 /\ \A i \in 0..n - 1 : st[i] = FreeEntry
  BY <1>1 DEF EmptyStore
<1> HIDE DEF st
<1>3. LiveIn(st) = {} /\ GoneIn(st) = {}
  BY <1>1, <1>2 DEF LiveIn, GoneIn
<1>4. KeysIn(st) = {}
  BY <1>3 DEF KeysIn
<1>5. HasFree(st)
  <2>1. 0 \in 0..n - 1
    BY SizeIs
  <2> QED
    BY <1>1, <1>2, <2>1 DEF HasFree
<1>6. Stored(st, n) /\ Reached(st, n)
  BY <1>1, <1>2, <1>3 DEF Stored, Reached
<1> QED
  BY <1>3, <1>4, <1>5, <1>6 DEF Searched, st
-------------------------------------------------------------------------------
(***************************************************************************)
(* The invariant.  While a table changes, the new store has no sentinel    *)
(* and the keys of the entries that were moved, and there is room for all  *)
(* of the old store and for the key that waits to be added.                *)
(***************************************************************************)
KeysBelow(st, b) == {st[i].key : i \in {i \in LiveIn(st) : i < b}}

Whole(n) == KeysIn(store) = members /\ entryCount + removedCount <= n - 1

Moving(n) ==
  /\ GoneIn(store) = {} /\ KeysIn(store) = KeysBelow(oldStore, nextEntry)
  /\ adding \in Keys \cup {NoKey}
  /\ entryCount + (IF adding = NoKey THEN 1 ELSE 2) <= n
  /\ KeysIn(oldStore) = members
  /\ \E m \in Sizes : Stored(oldStore, m) /\ nextEntry \in 0..m

TableInv ==
  /\ members \subseteq Keys /\ IsFiniteSet(members) /\ entryCount = Cardinality(members)
  /\ \E n \in Sizes :
       /\ Searched(store, n) /\ removedCount = Cardinality(GoneIn(store))
       /\ IF loop = "move" THEN Moving(n) ELSE Whole(n)

LEMMA TableStarting ==
  ASSUME NEW n \in Sizes, TableStarts(n)
  PROVE  TableInv
<1>1. Searched(store, n) /\ GoneIn(store) = {} /\ KeysIn(store) = {}
  BY EmptyIs DEF TableStarts
<1>2. members = {} /\ entryCount = 0 /\ removedCount = 0 /\ loop = "none"
  BY DEF TableStarts, AtRest
<1>3. IsFiniteSet({}) /\ Cardinality({}) = 0 /\ n \in Nat /\ n >= 4
  BY FS_EmptySet, SizeIs
<1> QED
  BY <1>1, <1>2, <1>3 DEF TableInv, Whole

\* Add is fit to add if an entry stays free.
LEMMA AddAdds ==
  ASSUME NEW n \in Sizes, Searched(store, n), removedCount = Cardinality(GoneIn(store)),
         KeysIn(store) = members, IsFiniteSet(members), entryCount = Cardinality(members),
         NEW k \in Keys, entryCount + removedCount <= n - 2, Add(k)
  PROVE  /\ Searched(store', n) /\ removedCount' = Cardinality(GoneIn(store')) /\ KeysIn(store') = members'
         /\ members' = members \cup {k} /\ IsFiniteSet(members') /\ entryCount' = Cardinality(members')
         /\ entryCount' + removedCount' <= n - 1
<1>1. Has(store, k) <=> k \in members
  BY HasIs
<1>2. members' = members \cup {k} /\ IsFiniteSet(members')
      /\ Cardinality(members') = IF k \in members THEN entryCount ELSE entryCount + 1
  BY FS_AddElement DEF Add
<1>3. IsFiniteSet(GoneIn(store)) /\ removedCount \in Nat /\ entryCount \in Nat /\ n \in Nat
  BY CountIs, FS_CardinalityType, SizeIs DEF Searched
<1>4. CASE k \in members
  <2>1. store' = Told(store, k) /\ entryCount' = entryCount
    BY <1>1, <1>4 DEF Add
  <2>2. store[Target(store, k)].tag = "live"
    <3>1. store[Found(store, k)].tag = "live"
      BY <1>4, Search
    <3> QED
      BY <3>1 DEF Target
  <2>3. removedCount' = removedCount
    BY <2>2 DEF Add
  <2>4. Searched(store', n) /\ GoneIn(store') = GoneIn(store) /\ KeysIn(store') = KeysIn(store)
    BY <2>1, ToldKeeps
  <2> QED
    BY <1>2, <1>3, <1>4, <2>1, <2>3, <2>4
<1>5. CASE k \notin members
  <2> DEFINE to == Target(store, k)
  <2>1. store' = Added(store, k) /\ entryCount' = entryCount + 1
    BY <1>1, <1>5 DEF Add
  <2>2. Searched(store', n) /\ KeysIn(store') = members \cup {k} /\ GoneIn(store') = GoneIn(store) \ {to}
    BY <1>5, <2>1, RoomAfter, AddedKeeps
  <2>3. to \in GoneIn(store) <=> store[to].tag = "removed"
    BY <1>5, TargetIs DEF GoneIn, Searched, Stored
  <2>4. removedCount' = Cardinality(GoneIn(store'))
    <3>1. removedCount' = IF store[to].tag = "removed" THEN removedCount - 1 ELSE removedCount
      BY DEF Add
    <3>2. Cardinality(GoneIn(store) \ {to}) = IF to \in GoneIn(store) THEN removedCount - 1 ELSE removedCount
      BY <1>3, FS_RemoveElement, Zenon
    <3> HIDE DEF to
    <3> QED
      BY <2>2, <2>3, <3>1, <3>2
  <2>5. removedCount' <= removedCount
    BY <1>3 DEF Add
  <2>6. removedCount' \in Int
    BY <1>3 DEF Add
  <2> QED
    BY <1>2, <1>3, <1>5, <2>1, <2>2, <2>4, <2>5, <2>6
<1> QED
  BY <1>4, <1>5

\* So is RawRemove to remove.
LEMMA RemoveRemoves ==
  ASSUME NEW n \in Sizes, Searched(store, n), removedCount = Cardinality(GoneIn(store)),
         KeysIn(store) = members, IsFiniteSet(members), entryCount = Cardinality(members),
         NEW i \in LiveIn(store), entryCount + removedCount <= n - 1, RawRemove(i)
  PROVE  /\ Searched(store', n) /\ removedCount' = Cardinality(GoneIn(store')) /\ KeysIn(store') = members'
         /\ members' \subseteq members /\ IsFiniteSet(members') /\ entryCount' = Cardinality(members')
         /\ entryCount' + removedCount' <= n - 1
<1> DEFINE k == store[i].key
<1>1. /\ Searched(store', n) /\ KeysIn(store') = KeysIn(store) \ {k}
      /\ GoneIn(store') = IF store[i].collided THEN GoneIn(store) \cup {i} ELSE GoneIn(store)
      /\ i \notin GoneIn(store)
  BY WithoutKeeps DEF RawRemove
<1>2. k \in members
  BY DEF KeysIn
<1>3. IsFiniteSet(GoneIn(store)) /\ removedCount \in Nat /\ entryCount \in Nat /\ n \in Nat
  BY CountIs, FS_CardinalityType, SizeIs DEF Searched
<1>4. members' = members \ {k} /\ entryCount' = entryCount - 1
      /\ removedCount' = IF store[i].collided THEN removedCount + 1 ELSE removedCount
  BY DEF RawRemove
<1> HIDE DEF k
<1>5. IsFiniteSet(members') /\ Cardinality(members') = entryCount - 1
  BY <1>2, <1>4, FS_RemoveElement
<1>6. removedCount' = Cardinality(GoneIn(store'))
  BY <1>1, <1>3, <1>4, FS_AddElement
<1>7. entryCount' + removedCount' <= n - 1
  BY <1>3, <1>4
<1> QED
  BY <1>1, <1>4, <1>5, <1>6, <1>7

LEMMA ChangeStarts ==
  ASSUME NEW st, NEW m \in Sizes, Stored(st, m), NEW n \in Sizes, NEW k \in Keys \cup {NoKey},
         ChangeTable(st, n, k),
         members' \subseteq Keys, IsFiniteSet(members'), entryCount' = Cardinality(members'),
         KeysIn(st) = members', entryCount' + (IF k = NoKey THEN 1 ELSE 2) <= n
  PROVE  TableInv'
<1>1. /\ store' = EmptyStore(n) /\ oldStore' = st /\ removedCount' = 0 /\ loop' = "move" /\ nextEntry' = 0
      /\ adding' = k
  BY DEF ChangeTable
<1>2. Searched(store', n) /\ GoneIn(store') = {} /\ KeysIn(store') = {}
  BY <1>1, EmptyIs
<1>3. removedCount' = Cardinality(GoneIn(store'))
  BY <1>1, <1>2, FS_EmptySet
<1>4. KeysBelow(st, 0) = {}
  <2>1. \A i \in LiveIn(st) : ~(i < 0)
    BY SizeIs DEF LiveIn, Stored
  <2> QED
    BY <2>1 DEF KeysBelow
<1>5. 0 \in 0..m
  BY SizeIs
<1>6. Moving(n)'
  BY <1>1, <1>2, <1>4, <1>5 DEF Moving
<1> QED
  BY <1>1, <1>2, <1>3, <1>6 DEF TableInv

\* The counts of a table in which no entry is moved.
LEMMA CountsOf ==
  ASSUME NEW n \in Sizes, Searched(store, n), removedCount = Cardinality(GoneIn(store)),
         IsFiniteSet(members), entryCount = Cardinality(members)
  PROVE  Size(store) = n /\ n \in Nat /\ n >= 4 /\ entryCount \in Nat /\ removedCount \in Nat
BY CountIs, FS_CardinalityType, SizeIs DEF Searched, Stored

LEMMA AddKeeps ==
  ASSUME TableInv, NEW k \in Keys, OperateAdd(k) \/ AddCrowds(k)
  PROVE  TableInv'
<1>1. PICK n \in Sizes : Searched(store, n) /\ removedCount = Cardinality(GoneIn(store)) /\ Whole(n)
  BY DEF TableInv, OperateAdd, AddCrowds, AtRest
<1>2. members \subseteq Keys /\ IsFiniteSet(members) /\ entryCount = Cardinality(members) /\ Add(k)
      /\ loop' = loop /\ loop = "none"
  BY DEF TableInv, OperateAdd, AddCrowds, loopVars, AtRest
<1>3. Size(store) = n /\ n \in Nat /\ n >= 4 /\ entryCount \in Nat /\ removedCount \in Nat
  BY <1>1, <1>2, CountsOf
<1>4. entryCount + removedCount <= n - 2
  <2>1. CASE OperateAdd(k)
    <3>1. ~(entryCount + removedCount >= (192 * n) \div 256)
      BY <1>3, <2>1 DEF OperateAdd, Overloaded, MaxLoad
    <3>2. (192 * n) \div 256 <= n - 1
      BY <1>3
    <3>3. (192 * n) \div 256 \in Int
      BY <1>3
    <3> QED
      BY <1>3, <3>1, <3>2, <3>3
  <2>2. CASE AddCrowds(k)
    BY <1>1, <1>3, <2>2 DEF AddCrowds, Whole
  <2> QED
    BY <2>1, <2>2
<1>5. /\ Searched(store', n) /\ removedCount' = Cardinality(GoneIn(store')) /\ KeysIn(store') = members'
      /\ members' = members \cup {k} /\ IsFiniteSet(members') /\ entryCount' = Cardinality(members')
      /\ entryCount' + removedCount' <= n - 1
  BY <1>1, <1>2, <1>4, AddAdds DEF Whole
<1>6. Whole(n)'
  BY <1>5 DEF Whole
<1> QED
  BY <1>2, <1>5, <1>6 DEF TableInv

LEMMA AddChangesKeeps ==
  ASSUME TableInv, NEW k \in Keys, AddChanges(k)
  PROVE  TableInv'
<1>1. PICK n \in Sizes : Searched(store, n) /\ removedCount = Cardinality(GoneIn(store)) /\ Whole(n)
  BY DEF TableInv, AddChanges, AtRest
<1>2. members \subseteq Keys /\ IsFiniteSet(members) /\ entryCount = Cardinality(members)
      /\ members' = members /\ entryCount' = entryCount
  BY DEF TableInv, AddChanges
<1>3. Size(store) = n /\ n \in Nat /\ n >= 4 /\ entryCount \in Nat /\ removedCount \in Nat
  BY <1>1, <1>2, CountsOf
<1> DEFINE to == IF removedCount >= n \div 4 THEN n ELSE 2 * n
<1>4. ChangeTable(store, to, k)
  BY <1>3 DEF AddChanges
<1>5. entryCount + 2 <= to
  <2>1. entryCount + removedCount <= n - 1
    BY <1>1 DEF Whole
  <2>2. n \div 4 >= 1 /\ n \div 4 \in Int
    BY <1>3
  <2> QED
    BY <1>3, <2>1, <2>2
<1> HIDE DEF to
<1>6. to \in Sizes
  BY <1>4 DEF ChangeTable
<1>7. k # NoKey /\ KeysIn(store) = members'
  BY <1>1, <1>2, TableAssumption DEF Whole
<1> QED
  BY <1>1, <1>2, <1>4, <1>5, <1>6, <1>7, ChangeStarts DEF Searched

LEMMA RemoveKeeps ==
  ASSUME TableInv, NEW i \in LiveIn(store), RawRemove(i), loop # "move", loop' = loop
  PROVE  TableInv'
<1>1. PICK n \in Sizes : Searched(store, n) /\ removedCount = Cardinality(GoneIn(store)) /\ Whole(n)
  BY DEF TableInv
<1>2. members \subseteq Keys /\ IsFiniteSet(members) /\ entryCount = Cardinality(members)
  BY DEF TableInv
<1>3. /\ Searched(store', n) /\ removedCount' = Cardinality(GoneIn(store')) /\ KeysIn(store') = members'
      /\ members' \subseteq members /\ IsFiniteSet(members') /\ entryCount' = Cardinality(members')
      /\ entryCount' + removedCount' <= n - 1
  BY <1>1, <1>2, RemoveRemoves DEF Whole
<1>4. Whole(n)'
  BY <1>3 DEF Whole
<1> QED
  BY <1>2, <1>3, <1>4 DEF TableInv

LEMMA RemoveChangesKeeps ==
  ASSUME TableInv, NEW k \in Keys, RemoveChanges(k)
  PROVE  TableInv'
<1>1. PICK n \in Sizes : Searched(store, n) /\ removedCount = Cardinality(GoneIn(store)) /\ Whole(n)
  BY DEF TableInv, RemoveChanges, AtRest
<1>2. members \subseteq Keys /\ IsFiniteSet(members) /\ entryCount = Cardinality(members)
      /\ members' = members \ {k} /\ entryCount' = entryCount - 1 /\ Has(store, k)
  BY DEF TableInv, RemoveChanges
<1>3. Size(store) = n /\ n \in Nat /\ n >= 4 /\ entryCount \in Nat /\ removedCount \in Nat
  BY <1>1, <1>2, CountsOf
<1> DEFINE st == Without(store, Found(store, k))
           to == n \div 2
<1>4. ChangeTable(st, to, NoKey) /\ entryCount - 1 <= (64 * n) \div 256 /\ to \in Sizes
  BY <1>3 DEF RemoveChanges, MinLoad, ChangeTable
<1>5. k \in members
  BY <1>1, <1>2, HasIs DEF Whole
<1>6. store[Found(store, k)].key = k /\ Found(store, k) \in LiveIn(store)
  <2>1. /\ Found(store, k) \in 0..n - 1
        /\ store[Found(store, k)].tag = "live" /\ store[Found(store, k)].key = k
    BY <1>1, <1>5, Search DEF Whole
  <2>2. DOMAIN store = 0..n - 1
    BY <1>1 DEF Searched, Stored
  <2> QED
    BY <2>1, <2>2 DEF LiveIn
<1>7. Stored(st, n) /\ KeysIn(st) = members \ {k}
  BY <1>1, <1>6, WithoutKeeps DEF Searched, Whole
<1>8. IsFiniteSet(members') /\ entryCount' = Cardinality(members')
  <2>1. /\ IsFiniteSet(members \ {k})
        /\ Cardinality(members \ {k}) = IF k \in members THEN Cardinality(members) - 1 ELSE Cardinality(members)
    BY <1>2, FS_RemoveElement, Zenon
  <2> QED
    BY <1>2, <1>5, <2>1
<1>9. entryCount' + 1 <= to
  <2>1. (64 * n) \div 256 <= n \div 2 - 1
    BY <1>3
  <2>2. (64 * n) \div 256 \in Int /\ n \div 2 \in Int
    BY <1>3
  <2> QED
    BY <1>2, <1>3, <1>4, <2>1, <2>2
<1> HIDE DEF st, to
<1> QED
  BY <1>2, <1>4, <1>7, <1>8, <1>9, ChangeStarts

LEMMA EnumerationChangesKeeps ==
  ASSUME TableInv, EnumerationChanges
  PROVE  TableInv'
<1>1. PICK n \in Sizes : Searched(store, n) /\ removedCount = Cardinality(GoneIn(store)) /\ Whole(n)
  BY DEF TableInv, EnumerationChanges
<1>2. members \subseteq Keys /\ IsFiniteSet(members) /\ entryCount = Cardinality(members)
      /\ members' = members /\ entryCount' = entryCount
  BY DEF TableInv, EnumerationChanges
<1>3. PICK to \in Sizes : to >= Wanted /\ ChangeTable(store, to, NoKey)
  BY DEF EnumerationChanges
<1>4. entryCount \in Nat /\ to \in Nat /\ to >= 4
  BY <1>1, <1>2, CountsOf, SizeIs
<1>5. Wanted \in Int /\ Wanted >= entryCount + entryCount \div 2
  <2> DEFINE a == entryCount + entryCount \div 2
  <2>1. a \in Int /\ MinSize \in Int
    BY <1>4, TableAssumption
  <2>2. Wanted = CHOOSE x \in {MinSize, a} : \A y \in {MinSize, a} : x >= y
    BY DEF Wanted, Max
  <2> HIDE DEF a
  <2>3. \E x \in {MinSize, a} : \A y \in {MinSize, a} : x >= y
    BY <2>1
  <2>4. Wanted \in {MinSize, a} /\ \A y \in {MinSize, a} : Wanted >= y
    BY <2>2, <2>3
  <2> QED
    BY <2>1, <2>4 DEF a
<1>6. entryCount + 1 <= to
  <2>1. entryCount >= 2 => entryCount + entryCount \div 2 >= entryCount + 1
    BY <1>4
  <2>2. entryCount + entryCount \div 2 \in Int
    BY <1>4
  <2> QED
    BY <1>3, <1>4, <1>5, <2>1, <2>2
<1> QED
  BY <1>1, <1>2, <1>3, <1>6, ChangeStarts DEF Searched, Whole

\* The next entry that is moved is no duplicate, and there is room for it.
LEMMA MoveFinds ==
  ASSUME NEW n \in Sizes, Searched(store, n), Moving(n), IsFiniteSet(members), entryCount = Cardinality(members),
         nextEntry \in DOMAIN oldStore, oldStore[nextEntry].tag = "live"
  PROVE  /\ oldStore[nextEntry].key \in Keys /\ oldStore[nextEntry].key \notin KeysIn(store)
         /\ Cardinality(KeysIn(store)) + Cardinality(GoneIn(store)) <= n - 2
         /\ KeysBelow(oldStore, nextEntry + 1) = KeysIn(store) \cup {oldStore[nextEntry].key}
<1> DEFINE k == oldStore[nextEntry].key
<1>1. PICK m \in Sizes : Stored(oldStore, m) /\ nextEntry \in 0..m
  BY DEF Moving
<1>2. /\ DOMAIN oldStore = 0..m - 1 /\ m \in Nat
      /\ \A i, j \in LiveIn(oldStore) : oldStore[i].key = oldStore[j].key => i = j
      /\ \A i \in LiveIn(oldStore) : i \in 0..m - 1 /\ oldStore[i].key \in Keys
  <2>1. KeysIn(oldStore) \subseteq Keys
    BY <1>1, CountIs
  <2> QED
    BY <1>1, <2>1, SizeIs DEF Stored, LiveIn, KeysIn
<1>3. nextEntry \in LiveIn(oldStore) /\ nextEntry \in 0..m - 1
  BY <1>2 DEF LiveIn
<1>4. KeysIn(store) = KeysBelow(oldStore, nextEntry) /\ GoneIn(store) = {} /\ KeysIn(oldStore) = members
  BY DEF Moving
<1>5. \A i \in LiveIn(oldStore) : i < nextEntry + 1 <=> i < nextEntry \/ i = nextEntry
  BY <1>2, <1>3
<1>6. k \notin KeysIn(store)
  <2>1. \A i \in LiveIn(oldStore) : i < nextEntry => oldStore[i].key # k
    BY <1>2, <1>3
  <2> QED
    BY <1>4, <2>1 DEF KeysBelow
<1>7. KeysBelow(oldStore, nextEntry + 1) = KeysIn(store) \cup {k}
  BY <1>3, <1>4, <1>5 DEF KeysBelow
<1>8. KeysIn(store) \cup {k} \subseteq members
  BY <1>3, <1>4 DEF KeysBelow, KeysIn
<1> HIDE DEF k
<1>9. Cardinality(KeysIn(store)) + 1 <= entryCount
  <2>1. IsFiniteSet(KeysIn(store))
    BY <1>8, FS_Subset
  <2>2. Cardinality(KeysIn(store) \cup {k}) = Cardinality(KeysIn(store)) + 1
    BY <1>6, <2>1, FS_AddElement
  <2> QED
    BY <1>8, <2>2, FS_Subset
<1>10. entryCount + 1 <= n
  <2>1. entryCount \in Nat /\ n \in Nat
    BY FS_CardinalityType, SizeIs
  <2> QED
    BY <2>1 DEF Moving
<1>11. Cardinality(KeysIn(store)) + Cardinality(GoneIn(store)) <= n - 2
  <2>1. Cardinality(GoneIn(store)) = 0
    BY <1>4, FS_EmptySet
  <2>2. entryCount \in Nat /\ n \in Nat
    BY FS_CardinalityType, SizeIs
  <2>3. Cardinality(KeysIn(store)) \in Nat
    BY CountIs, FS_CardinalityType DEF Searched
  <2> QED
    BY <1>9, <1>10, <2>1, <2>2, <2>3
<1> QED
  BY <1>2, <1>3, <1>6, <1>7, <1>11 DEF k

LEMMA MoveKeeps ==
  ASSUME TableInv, MoveEntry
  PROVE  TableInv'
<1>1. PICK n \in Sizes : Searched(store, n) /\ removedCount = Cardinality(GoneIn(store)) /\ Moving(n)
  BY DEF TableInv, MoveEntry
<1>2. members \subseteq Keys /\ IsFiniteSet(members) /\ entryCount = Cardinality(members)
  BY DEF TableInv
<1>3. UNCHANGED <<entryCount, removedCount, loop, oldStore, adding, members>> /\ nextEntry' = nextEntry + 1
      /\ loop = "move" /\ nextEntry \in DOMAIN oldStore
  BY DEF MoveEntry
<1>4. PICK m \in Sizes : Stored(oldStore, m) /\ nextEntry \in 0..m
  BY <1>1 DEF Moving
<1>5. nextEntry + 1 \in 0..m /\ DOMAIN oldStore = 0..m - 1 /\ nextEntry \in 0..m - 1
  BY <1>3, <1>4, SizeIs DEF Stored
<1>6. Searched(store', n) /\ GoneIn(store') = {} /\ KeysIn(store') = KeysBelow(oldStore, nextEntry + 1)
  <2>1. CASE oldStore[nextEntry].tag = "live"
    <3> DEFINE k == oldStore[nextEntry].key
    <3>1. /\ k \in Keys /\ k \notin KeysIn(store)
          /\ Cardinality(KeysIn(store)) + Cardinality(GoneIn(store)) <= n - 2
          /\ KeysBelow(oldStore, nextEntry + 1) = KeysIn(store) \cup {k}
      BY <1>1, <1>2, <1>3, <2>1, MoveFinds
    <3>2. store' = Added(store, k)
      BY <2>1 DEF MoveEntry
    <3> HIDE DEF k
    <3>3. /\ Searched(store', n) /\ KeysIn(store') = KeysIn(store) \cup {k}
          /\ GoneIn(store') = GoneIn(store) \ {Target(store, k)}
      BY <1>1, <3>1, <3>2, RoomAfter, AddedKeeps
    <3> QED
      BY <1>1, <3>1, <3>3 DEF Moving
  <2>2. CASE oldStore[nextEntry].tag # "live"
    <3>1. store' = store
      BY <2>2 DEF MoveEntry
    <3>2. \A i \in LiveIn(oldStore) : i < nextEntry + 1 <=> i < nextEntry
      BY <1>5, <2>2 DEF LiveIn
    <3>3. KeysBelow(oldStore, nextEntry + 1) = KeysBelow(oldStore, nextEntry)
      BY <3>2 DEF KeysBelow
    <3> QED
      BY <1>1, <3>1, <3>3 DEF Moving
  <2> QED
    BY <2>1, <2>2
<1>7. Moving(n)'
  BY <1>1, <1>3, <1>4, <1>5, <1>6 DEF Moving
<1>8. removedCount' = Cardinality(GoneIn(store'))
  BY <1>1, <1>3, <1>6 DEF Moving
<1> QED
  BY <1>2, <1>3, <1>6, <1>7, <1>8 DEF TableInv

LEMMA EndOfMoveKeeps ==
  ASSUME TableInv, EndOfMove
  PROVE  TableInv'
<1>1. PICK n \in Sizes : Searched(store, n) /\ removedCount = Cardinality(GoneIn(store)) /\ Moving(n)
  BY DEF TableInv, EndOfMove
<1>2. members \subseteq Keys /\ IsFiniteSet(members) /\ entryCount = Cardinality(members)
  BY DEF TableInv
<1>3. PICK m \in Sizes : Stored(oldStore, m) /\ nextEntry \in 0..m
  BY <1>1 DEF Moving
<1>4. nextEntry = m /\ DOMAIN oldStore = 0..m - 1
  BY <1>3, SizeIs DEF EndOfMove, Stored
<1>5. KeysIn(store) = members
  <2>1. \A i \in LiveIn(oldStore) : i < m
    BY <1>4, SizeIs DEF LiveIn
  <2>2. KeysBelow(oldStore, m) = KeysIn(oldStore)
    BY <2>1 DEF KeysBelow, KeysIn
  <2> QED
    BY <1>1, <1>4, <2>2 DEF Moving
<1>6. removedCount = 0 /\ entryCount \in Nat /\ n \in Nat
  BY <1>1, <1>2, FS_EmptySet, FS_CardinalityType, SizeIs DEF Moving
<1>7. loop' = "none"
  BY DEF EndOfMove, LoopEnds
<1>8. CASE adding = NoKey
  <2>1. UNCHANGED <<store, entryCount, removedCount, members>>
    BY <1>8 DEF EndOfMove
  <2>2. entryCount + removedCount <= n - 1
    BY <1>1, <1>6, <1>8 DEF Moving
  <2>3. Whole(n)'
    BY <1>5, <2>1, <2>2 DEF Whole
  <2> QED
    BY <1>1, <1>2, <1>7, <2>1, <2>3 DEF TableInv
<1>9. CASE adding # NoKey
  <2>1. Add(adding) /\ adding \in Keys
    BY <1>1, <1>9 DEF EndOfMove, Moving
  <2>2. entryCount + removedCount <= n - 2
    BY <1>1, <1>6, <1>9 DEF Moving
  <2>3. /\ Searched(store', n) /\ removedCount' = Cardinality(GoneIn(store')) /\ KeysIn(store') = members'
        /\ members' = members \cup {adding} /\ IsFiniteSet(members') /\ entryCount' = Cardinality(members')
        /\ entryCount' + removedCount' <= n - 1
    BY <1>1, <1>2, <1>5, <2>1, <2>2, AddAdds
  <2>4. Whole(n)'
    BY <2>3 DEF Whole
  <2> QED
    BY <1>2, <1>7, <2>1, <2>3, <2>4 DEF TableInv
<1> QED
  BY <1>8, <1>9

LEMMA TableSteps ==
  ASSUME TableInv, [TableNext]_tableVars
  PROVE  TableInv'
<1>1. ASSUME NEW k \in Keys, OperateAdd(k) \/ AddChanges(k) \/ AddCrowds(k) PROVE TableInv'
  BY <1>1, AddKeeps, AddChangesKeeps
<1>2. ASSUME NEW k \in Keys, OperateRemove(k) PROVE TableInv'
  <2>1. PICK n \in Sizes : Searched(store, n)
    BY DEF TableInv
  <2>2. Has(store, k) /\ RawRemove(Found(store, k)) /\ loop = "none" /\ loop' = loop
    BY <1>2 DEF OperateRemove, AtRest, loopVars
  <2>3. Found(store, k) \in LiveIn(store)
    BY <2>1, <2>2, Search DEF Has, LiveIn, Searched, Stored
  <2> QED
    BY <2>2, <2>3, RemoveKeeps
<1>3. ASSUME NEW k \in Keys, RemoveChanges(k) PROVE TableInv'
  BY <1>3, RemoveChangesKeeps
<1>4. CASE MoveEntry
  BY <1>4, MoveKeeps
<1>5. CASE EndOfMove
  BY <1>5, EndOfMoveKeeps
<1>6. ASSUME loop # "move", loop' # "move", UNCHANGED <<store, entryCount, removedCount, members>> PROVE TableInv'
  BY <1>6 DEF TableInv, Whole
<1>7. CASE Enumerate \/ EndOfEnumeration
  BY <1>6, <1>7 DEF Enumerate, EndOfEnumeration, AtRest, LoopEnds
<1>8. CASE EnumerationChanges
  BY <1>8, EnumerationChangesKeeps
<1>9. ASSUME NEW remove \in BOOLEAN, NEW stop \in BOOLEAN, EnumerateEntry(remove, stop) PROVE TableInv'
  <2>1. loop = "enumerate" /\ loop' = "enumerate" /\ nextEntry \in DOMAIN store
    BY <1>9 DEF EnumerateEntry
  <2>2. CASE store[nextEntry].tag = "live" /\ remove
    <3>1. nextEntry \in LiveIn(store) /\ RawRemove(nextEntry)
      BY <1>9, <2>1, <2>2 DEF LiveIn, EnumerateEntry
    <3> QED
      BY <2>1, <3>1, RemoveKeeps
  <2>3. CASE ~(store[nextEntry].tag = "live" /\ remove)
    BY <1>6, <1>9, <2>1, <2>3 DEF EnumerateEntry
  <2> QED
    BY <2>2, <2>3
<1>10. CASE UNCHANGED tableVars
  BY <1>10 DEF tableVars, TableInv, Whole, Moving
<1> QED
  BY <1>1, <1>2, <1>3, <1>4, <1>5, <1>7, <1>8, <1>9, <1>10 DEF TableNext

LEMMA TableInvMeans == TableInv => TableIsMap
<1>1. SUFFICES ASSUME TableInv PROVE TableIsMap
  OBVIOUS
<1>2. PICK n \in Sizes : Searched(store, n) /\ removedCount = Cardinality(GoneIn(store))
                         /\ IF loop = "move" THEN Moving(n) ELSE Whole(n)
  BY <1>1 DEF TableInv
<1>3. members \subseteq Keys /\ IsFiniteSet(members) /\ entryCount = Cardinality(members)
  BY <1>1 DEF TableInv
<1>4. \E i \in DOMAIN store : store[i].tag = "free"
  BY <1>2 DEF Searched, HasFree
<1>5. ASSUME loop # "move"
      PROVE  /\ \A k \in Keys : Has(store, k) <=> k \in members
             /\ entryCount = Cardinality({i \in DOMAIN store : store[i].tag = "live"})
             /\ entryCount = Cardinality(members)
             /\ removedCount = RemovedIn(store)
  <2>1. KeysIn(store) = members
    BY <1>2, <1>5 DEF Whole
  <2>2. \A k \in Keys : Has(store, k) <=> k \in members
    BY <1>2, <2>1, HasIs
  <2>3. Cardinality(LiveIn(store)) = Cardinality(members)
    BY <1>2, <2>1, CountIs DEF Searched
  <2> QED
    BY <1>2, <1>3, <2>2, <2>3 DEF LiveIn, GoneIn, RemovedIn
<1>6. ASSUME loop = "move", nextEntry \in DOMAIN oldStore, oldStore[nextEntry].tag = "live"
      PROVE  store[Target(store, oldStore[nextEntry].key)].tag = "free"
  <2>1. Moving(n) /\ GoneIn(store) = {}
    BY <1>2, <1>6 DEF Moving
  <2>2. oldStore[nextEntry].key \in Keys /\ oldStore[nextEntry].key \notin KeysIn(store)
    BY <1>2, <1>3, <1>6, <2>1, MoveFinds
  <2> QED
    BY <1>2, <2>1, <2>2, TargetIs
<1> QED
  BY <1>4, <1>5, <1>6 DEF TableIsMap

\* Whatever is added to and removed from a table, and whenever it grows,
\* shrinks or cannot, each search ends, and with what is in the table.
THEOREM TableStaysMap == TableSpec => []TableIsMap
<1>1. TableInit => TableInv
  BY TableStarting DEF TableInit
<1>2. TableInv /\ [TableNext]_tableVars => TableInv'
  BY TableSteps
<1> QED
  BY <1>1, <1>2, TableInvMeans, PTL DEF TableSpec

-------------------------------------------------------------------------------
(***************************************************************************)
(* The buffers of jsmap and jsreduce, for arguments and answers of any     *)
(* length and for any first sizes.  The invariant that the theorems rest   *)
(* on is Sized: the code may think a buffer smaller than it is, after      *)
(* jsreduce_init has moved it, but never larger.                           *)
(***************************************************************************)
Sized ==
  /\ script.size <= script.cap
  /\ results.size = results.cap
  /\ WritesInside /\ RunsItsRow

BuffersInv == BuffersTypeOK /\ Sized /\ LosesOnlyRefused

\* script_buffer after a call has filled it: the script, a NUL, all inside.
Filled ==
  /\ script \in BlockType /\ script.size <= script.cap
  /\ bytes \in [1 .. script.cap -> {"row", "nul", "left"}]
  /\ end \in 0 .. script.cap /\ end < script.cap
  /\ extent \in Nat /\ extent <= script.cap
  /\ \A k \in 1 .. end : bytes[k] = "row"
  /\ bytes[end + 1] = "nul"

\* What a call writes to script_buffer fits the buffer, if there is room for
\* the n characters of its script and a NUL: it stays inside, and afterwards
\* the buffer holds the script and a NUL behind it.
LEMMA WriteFits ==
  ASSUME NEW b \in BlockType, b.size <= b.cap, NEW n \in Nat, n < b.cap,
         Write(b, n)
  PROVE  Filled'
  BY DEF Write, BlockType, Filled

\* The buffer that jsmap and jsreduce_add write to has room for what they
\* ask for.
LEMMA EnlargedFits ==
  ASSUME BuffersTypeOK, script.size <= script.cap, NEW need \in Nat
  PROVE  /\ Enlarged(need) \in BlockType
         /\ Enlarged(need).size <= Enlarged(need).cap
         /\ need <= Enlarged(need).cap
  BY ScriptBuffersAssumption DEF BuffersTypeOK, BlockType, Enlarged, Block, NewSize

LEMMA InitSized == BuffersInit => BuffersInv
  BY ScriptBuffersAssumption DEF BuffersInit, BuffersInv, BuffersTypeOK, Sized, WritesInside,
                                 RunsItsRow, LosesOnlyRefused, Block,
                                 BlockType, Unwritten

LEMMA NextSized == BuffersInv /\ [BuffersNext]_bufferVars => BuffersInv'
<1> SUFFICES ASSUME BuffersInv, [BuffersNext]_bufferVars PROVE BuffersInv'
  OBVIOUS
<1> USE ScriptBuffersAssumption
<1>1. CASE UNCHANGED bufferVars
  BY <1>1 DEF BuffersInv, BuffersTypeOK, Sized, WritesInside, RunsItsRow, LosesOnlyRefused,
              bufferVars
<1>2. CASE JsmapInit
  BY <1>2 DEF JsmapInit, Allocated, Block, Unwritten, BlockType, BuffersInv, BuffersTypeOK,
              Sized, WritesInside, RunsItsRow, LosesOnlyRefused
<1>3. CASE InitRefuses
  BY <1>3 DEF InitRefuses, buffer, BuffersInv, BuffersTypeOK, Sized, WritesInside,
              RunsItsRow, LosesOnlyRefused
<1>4. ASSUME NEW n \in ArgLengths, JsreduceInit(n) PROVE BuffersInv'
  <2> DEFINE b == [cap |-> IF Slack + n >= ScriptSize
                           THEN NewSize(Slack + n) ELSE ScriptSize,
                   size |-> ScriptSize]
  <2>1. b \in BlockType /\ b.size <= b.cap /\ n \in Nat /\ n < b.cap
    BY DEF BlockType, NewSize
  <2>2. Write(b, n)
    BY <1>4 DEF JsreduceInit
  <2> HIDE DEF b
  <2>3. Filled'
    BY <2>1, <2>2, WriteFits
  <2>4. /\ pc' = "run" /\ fn' = "jsreduce"
        /\ results' = Block(ResultSize) /\ answer' = 0 /\ returned' = 0
        /\ contexts' = contexts + 1 /\ refused' = refused /\ fn = "none"
    BY <1>4 DEF JsreduceInit, Allocated
  <2>5. QED
    BY <2>3, <2>4 DEF Filled, Block, BlockType, BuffersInv, BuffersTypeOK, Sized,
                      WritesInside, RunsItsRow, LosesOnlyRefused
<1>5. ASSUME NEW m \in ArgLengths, NEW n \in ArgLengths, Jsmap(m, n) PROVE BuffersInv'
  <2> DEFINE b == Enlarged(Slack + m + n)
             k == MapHead + m + 1 + n
  <2>1. m \in Nat /\ n \in Nat /\ Slack + m + n \in Nat /\ k \in Nat
        /\ k < Slack + m + n
    OBVIOUS
  <2>2. b \in BlockType /\ b.size <= b.cap /\ Slack + m + n <= b.cap
    BY <2>1, EnlargedFits DEF BuffersInv, Sized
  <2>3. k < b.cap
    BY <2>1, <2>2 DEF BlockType
  <2>4. Write(b, k)
    BY <1>5 DEF Jsmap
  <2> HIDE DEF b, k
  <2>5. Filled'
    BY <2>1, <2>2, <2>3, <2>4, WriteFits
  <2>6. pc' = "run" /\ UNCHANGED <<fn, results, answer, returned, contexts, refused>>
    BY <1>5 DEF Jsmap
  <2>7. QED
    BY <2>5, <2>6 DEF Filled, BuffersInv, BuffersTypeOK, Sized, WritesInside, RunsItsRow,
                      LosesOnlyRefused
<1>6. ASSUME NEW n \in ArgLengths, JsreduceAdd(n) PROVE BuffersInv'
  <2> DEFINE b == Enlarged(Slack + n)
             k == AddHead + n + 2
  <2>1. n \in Nat /\ Slack + n \in Nat /\ k \in Nat /\ k < Slack + n
    OBVIOUS
  <2>2. b \in BlockType /\ b.size <= b.cap /\ Slack + n <= b.cap
    BY <2>1, EnlargedFits DEF BuffersInv, Sized
  <2>3. k < b.cap
    BY <2>1, <2>2 DEF BlockType
  <2>4. Write(b, k)
    BY <1>6 DEF JsreduceAdd
  <2> HIDE DEF b, k
  <2>5. Filled'
    BY <2>1, <2>2, <2>3, <2>4, WriteFits
  <2>6. pc' = "run" /\ UNCHANGED <<fn, results, answer, returned, contexts, refused>>
    BY <1>6 DEF JsreduceAdd
  <2>7. QED
    BY <2>5, <2>6 DEF Filled, BuffersInv, BuffersTypeOK, Sized, WritesInside, RunsItsRow,
                      LosesOnlyRefused
<1>7. CASE RunJsreduce
  BY <1>7 DEF RunJsreduce, buffer, BuffersInv, BuffersTypeOK, Sized, WritesInside,
              RunsItsRow, LosesOnlyRefused
<1>8. ASSUME NEW a \in Answers, RunJsmap(a) \/ Jsreduce(a) PROVE BuffersInv'
  <2>1. /\ UNCHANGED <<fn, buffer, results, returned, contexts, refused>>
        /\ pc' = "copy" /\ answer' = a /\ a \in Nat
    BY <1>8 DEF RunJsmap, Jsreduce
  <2>2. QED
    BY <2>1 DEF buffer, BuffersInv, BuffersTypeOK, Sized, WritesInside, RunsItsRow,
                LosesOnlyRefused
<1>9. CASE Copy
  <2>1. /\ results' \in BlockType /\ results'.size = results'.cap
        /\ returned' \in Nat /\ returned' <= results'.cap
    BY <1>9 DEF Copy, Block, NewSize, BlockType, BuffersInv, BuffersTypeOK, Sized
  <2>2. QED
    BY <1>9, <2>1 DEF Copy, buffer, BuffersInv, BuffersTypeOK, Sized, WritesInside,
                      RunsItsRow, LosesOnlyRefused
<1>10. CASE Deinit
  BY <1>10 DEF Deinit, Block, Unwritten, BlockType, BuffersInv, BuffersTypeOK, Sized,
               WritesInside, RunsItsRow, LosesOnlyRefused
<1>11. QED
  BY <1>1, <1>2, <1>3, <1>4, <1>5, <1>6, <1>7, <1>8, <1>9, <1>10 DEF BuffersNext

LEMMA AlwaysSized == BuffersSpec => []BuffersInv
<1>1. QED
  BY InitSized, NextSized, PTL DEF BuffersSpec

\* The variables of the buffers have their types in every reachable state.
THEOREM BuffersTyped == BuffersSpec => []BuffersTypeOK
<1>1. BuffersInv => BuffersTypeOK
  BY DEF BuffersInv
<1>2. QED
  BY <1>1, AlwaysSized, PTL

\* No call of jsmap, jsreduce_init, jsreduce_add or jsreduce writes behind the
\* end of its buffer, whatever the lengths of arguments and answers.
THEOREM BuffersHold == BuffersSpec => []WritesInside
<1>1. BuffersInv => WritesInside
  BY DEF BuffersInv, Sized
<1>2. QED
  BY <1>1, AlwaysSized, PTL

\* What jsmap, jsreduce_init and jsreduce_add run is the script they have
\* written, for every sequence of calls and lengths.
THEOREM ScriptIsWhole == BuffersSpec => []RunsItsRow
<1>1. BuffersInv => RunsItsRow
  BY DEF BuffersInv, Sized
<1>2. QED
  BY <1>1, AlwaysSized, PTL

\* The memory of a query that was accepted is given back by its deinit: what
\* stays allocated belongs to queries that an init has refused.
THEOREM LosesNoAccepted == BuffersSpec => []LosesOnlyRefused
<1>1. BuffersInv => LosesOnlyRefused
  BY DEF BuffersInv
<1>2. QED
  BY <1>1, AlwaysSized, PTL
===============================================================================
