------------------------- MODULE PropertyTree_proofs --------------------------
(***************************************************************************)
(* The property tree, for any number of nodes and of chunks and any size   *)
(* of a chunk: getting a child and collecting leave every link with its    *)
(* counterpart, and every way to the root as it was, without the nodes     *)
(* that were swept.                                                        *)
(***************************************************************************)
EXTENDS PropertyTree, FiniteSetTheorems, NaturalsInduction, WellFoundedInduction, TLAPS

\* Trees whose labels are from a set.
TreesOf(labels) ==
  [label : [Nodes -> labels \cup {NoLabel}], up : [Nodes -> Nodes \cup {0}],
   kid : [Nodes -> Nodes \cup {0}], list : [Nodes -> Seq(PropChunks)],
   chunk : [PropChunks -> [KidSlots -> Nodes \cup {0}]], held : SUBSET PropChunks,
   roots : SUBSET Nodes, bare : SUBSET labels, fault : Failures \cup {"crash"}]

\* n is the only kid of p, or is in one of its chunks.
KidIn(t, p, n) ==
  \/ n = t.kid[p]
  \/ \E k \in DOMAIN t.list[p] : \E i \in KidSlots : t.chunk[t.list[p][k]][i] = n

\* The nodes that are loose have left their parents, and the chunks that
\* are spare have left their lists.
UpLinked(t, loose) == \A n \in Nodes \ loose : t.up[n] # 0 => KidIn(t, t.up[n], n)
KidLinked(t, loose) == \A p, n \in Nodes : KidIn(t, p, n) => t.up[n] = p /\ n \notin loose
Apart(t) ==
  \A p, q \in Nodes : \A k \in DOMAIN t.list[p], l \in DOMAIN t.list[q] :
    t.list[p][k] = t.list[q][l] => p = q /\ k = l
Holding(t, spare) ==
  /\ spare \subseteq t.held
  /\ \A p \in Nodes : \A k \in DOMAIN t.list[p] : t.list[p][k] \in t.held \ spare
  /\ \A c \in t.held \ spare : \E p \in Nodes : \E k \in DOMAIN t.list[p] : t.list[p][k] = c
Linked(t, loose, spare) ==
  /\ UpLinked(t, loose)
  /\ KidLinked(t, loose)
  /\ \A p \in Nodes : ChunksSound(t, p)
  /\ Apart(t)
  /\ Holding(t, spare)

\* What no link has to do with.
Kept(t, u) == u.label = t.label /\ u.roots = t.roots /\ u.bare = t.bare /\ u.fault = t.fault

LEMMA Smallest ==
  ASSUME NEW T, T \subseteq Nat, T # {}
  PROVE  Min(T) \in T /\ \A j \in T : Min(T) <= j
<1>1. PICK i \in T : \A j \in T : ~(<<j, i>> \in OpToRel(<, Nat))
  BY NatLessThanWellFounded, WFMin
<1>2. ASSUME NEW j \in T PROVE i <= j
  <2>1. i \in Nat /\ j \in Nat
    OBVIOUS
  <2>2. ~(j < i)
    <3>1. SUFFICES ASSUME j < i PROVE FALSE
      OBVIOUS
    <3>2. <<j, i>> \in Nat \X Nat /\ <<j, i>>[1] < <<j, i>>[2]
      BY <2>1, <3>1
    <3>3. <<j, i>> \in OpToRel(<, Nat)
      BY <3>2, Zenon DEF OpToRel
    <3> QED
      BY <1>1, <3>3
  <2> QED
    BY <2>1, <2>2
<1>3. \E x \in T : \A y \in T : x <= y
  BY <1>2
<1> QED
  BY <1>3, Zenon DEF Min

LEMMA ListTyped ==
  ASSUME NEW labels, NEW t \in TreesOf(labels), NEW p \in Nodes
  PROVE  /\ t.list[p] \in Seq(PropChunks)
         /\ DOMAIN t.list[p] = 1..Len(t.list[p])
         /\ Len(t.list[p]) \in Nat
         /\ \A k \in DOMAIN t.list[p] : t.list[p][k] \in PropChunks
<1>1. t.list[p] \in Seq(PropChunks)
  BY DEF TreesOf
<1> QED
  BY <1>1

LEMMA WithKidIs ==
  ASSUME NEW labels, NEW t \in TreesOf(labels), NEW c \in PropChunks, NEW i \in KidSlots,
         NEW n \in Nodes \cup {0}
  PROVE  /\ WithKid(t, <<c, i>>, n) \in TreesOf(labels)
         /\ Kept(t, WithKid(t, <<c, i>>, n)) /\ WithKid(t, <<c, i>>, n).up = t.up
         /\ WithKid(t, <<c, i>>, n).kid = t.kid /\ WithKid(t, <<c, i>>, n).list = t.list
         /\ WithKid(t, <<c, i>>, n).held = t.held
         /\ \A d \in PropChunks, j \in KidSlots :
              WithKid(t, <<c, i>>, n).chunk[d][j] = IF d = c /\ j = i THEN n ELSE t.chunk[d][j]
<1> DEFINE u == WithKid(t, <<c, i>>, n)
<1>1. u = [t EXCEPT !.chunk[c][i] = n]
  BY DEF WithKid
<1>2. u = [t EXCEPT !.chunk = [t.chunk EXCEPT ![c] = [t.chunk[c] EXCEPT ![i] = n]]]
  BY <1>1 DEF TreesOf
<1> HIDE DEF u
<1>3. [t.chunk EXCEPT ![c] = [t.chunk[c] EXCEPT ![i] = n]] \in [PropChunks -> [KidSlots -> Nodes \cup {0}]]
  BY DEF TreesOf
<1>4. u \in TreesOf(labels)
  BY <1>2, <1>3 DEF TreesOf
<1>5. u.label = t.label /\ u.up = t.up /\ u.kid = t.kid /\ u.list = t.list /\ u.held = t.held
      /\ u.roots = t.roots /\ u.bare = t.bare /\ u.fault = t.fault
  BY <1>2 DEF TreesOf
<1>6. ASSUME NEW d \in PropChunks, NEW j \in KidSlots
      PROVE  u.chunk[d][j] = IF d = c /\ j = i THEN n ELSE t.chunk[d][j]
  BY <1>2 DEF TreesOf
<1> QED
  BY <1>4, <1>5, <1>6 DEF u, Kept

\* The first place in the chunks of a node where one of kids is.
LEMMA FirstPlaceIs ==
  ASSUME NEW labels, NEW t \in TreesOf(labels), NEW p \in Nodes, NEW kids
  PROVE  \/ /\ FirstPlace(t, p, kids) = NoPlace
            /\ \A k \in DOMAIN t.list[p], i \in KidSlots : t.chunk[t.list[p][k]][i] \notin kids
         \/ \E k \in DOMAIN t.list[p], i \in KidSlots :
              /\ FirstPlace(t, p, kids) = <<t.list[p][k], i>>
              /\ t.chunk[t.list[p][k]][i] \in kids
              /\ \A l \in DOMAIN t.list[p], j \in KidSlots :
                   t.chunk[t.list[p][l]][j] \in kids => k < l \/ (k = l /\ i <= j)
<1> DEFINE having == {k \in DOMAIN t.list[p] : PlacesIn(t, t.list[p][k], kids) # {}}
           k == Min(having)
           i == Min(PlacesIn(t, t.list[p][k], kids))
<1>1. CASE having = {}
  <2>1. FirstPlace(t, p, kids) = NoPlace
    BY <1>1 DEF FirstPlace
  <2>2. ASSUME NEW l \in DOMAIN t.list[p], NEW j \in KidSlots PROVE t.chunk[t.list[p][l]][j] \notin kids
    BY <1>1 DEF PlacesIn
  <2> QED
    BY <2>1, <2>2
<1>2. CASE having # {}
  <2>1. FirstPlace(t, p, kids) = <<t.list[p][k], i>>
    BY <1>2 DEF FirstPlace
  <2>2. having \subseteq Nat
    BY ListTyped
  <2> HIDE DEF having
  <2>3. k \in having /\ \A l \in having : k <= l
    BY <1>2, <2>2, Smallest
  <2>4. k \in DOMAIN t.list[p] /\ PlacesIn(t, t.list[p][k], kids) # {}
    BY <2>3 DEF having
  <2>5. PlacesIn(t, t.list[p][k], kids) \subseteq Nat
    BY DEF PlacesIn, KidSlots
  <2>6. i \in PlacesIn(t, t.list[p][k], kids) /\ \A j \in PlacesIn(t, t.list[p][k], kids) : i <= j
    BY <2>4, <2>5, Smallest
  <2>7. i \in KidSlots /\ t.chunk[t.list[p][k]][i] \in kids
    BY <2>6 DEF PlacesIn
  <2> HIDE DEF k, i
  <2>8. ASSUME NEW l \in DOMAIN t.list[p], NEW j \in KidSlots, t.chunk[t.list[p][l]][j] \in kids
        PROVE  k < l \/ (k = l /\ i <= j)
    <3>1. l \in having
      BY <2>8 DEF having, PlacesIn
    <3>2. k <= l /\ k \in Nat /\ l \in Nat
      BY <2>2, <2>3, <3>1
    <3>3. CASE k = l
      BY <2>6, <2>8, <3>3 DEF PlacesIn
    <3> QED
      BY <3>2, <3>3
  <2>9. \A l \in DOMAIN t.list[p], j \in KidSlots :
          t.chunk[t.list[p][l]][j] \in kids => k < l \/ (k = l /\ i <= j)
    BY <2>8
  <2>10. k \in DOMAIN t.list[p] /\ i \in KidSlots
    BY <2>4, <2>7
  <2> QED
    BY <2>1, <2>7, <2>9, <2>10, Zenon
<1> QED
  BY <1>1, <1>2

LEMMA PlaceIsSome ==
  ASSUME NEW c \in PropChunks, NEW i PROVE <<c, i>> # NoPlace
BY DEF PropChunks, NoPlace

LEMMA FilledIs ==
  ASSUME NEW labels, NEW t \in TreesOf(labels), NEW c \in PropChunks
  PROVE  /\ Filled(t, c) \in 0..KidsPerChunk
         /\ \A j \in 1..Filled(t, c) : t.chunk[c][j] # 0
         /\ Filled(t, c) < KidsPerChunk => t.chunk[c][Filled(t, c) + 1] = 0
<1> DEFINE T == PlacesIn(t, c, {0}) \cup {KidsPerChunk + 1}
           m == Min(T)
<1>1. KidsPerChunk \in Nat
  BY TreeAssumption
<1>2. T \subseteq Nat /\ T # {} /\ T \subseteq 1..KidsPerChunk + 1
  BY <1>1 DEF PlacesIn, KidSlots
<1>3. m \in T /\ \A j \in T : m <= j
  <2> HIDE DEF T
  <2> QED
    BY <1>2, Smallest
<1>4. Filled(t, c) = m - 1
  BY DEF Filled
<1> HIDE DEF m
<1>5. ASSUME NEW j \in KidSlots, t.chunk[c][j] = 0 PROVE m <= j
  BY <1>3, <1>5 DEF PlacesIn
<1>6. m \in 1..KidsPerChunk + 1
  BY <1>2, <1>3
<1>7. m < KidsPerChunk + 1 => t.chunk[c][m] = 0
  BY <1>1, <1>3 DEF PlacesIn
<1> QED
  BY <1>1, <1>4, <1>5, <1>6, <1>7 DEF KidSlots

\* A node becomes a kid of parent, and nothing happens to the kids of others.
Alike(t, u, q) ==
  /\ u.kid[q] = t.kid[q] /\ u.list[q] = t.list[q]
  /\ \A k \in DOMAIN t.list[q] : u.chunk[t.list[q][k]] = t.chunk[t.list[q][k]]

LEMMA AlikeKids ==
  ASSUME NEW t, NEW u, NEW q, Alike(t, u, q)
  PROVE  /\ \A n : KidIn(u, q, n) <=> KidIn(t, q, n)
         /\ ChunksSound(t, q) => ChunksSound(u, q)
<1>1. u.kid[q] = t.kid[q] /\ u.list[q] = t.list[q]
  BY DEF Alike
<1>2. \A k \in DOMAIN t.list[q] : u.chunk[t.list[q][k]] = t.chunk[t.list[q][k]]
  BY DEF Alike
<1>3. \A n : KidIn(u, q, n) <=> KidIn(t, q, n)
  BY <1>1, <1>2 DEF KidIn
<1>4. ASSUME ChunksSound(t, q) PROVE ChunksSound(u, q)
  <2> DEFINE L == t.list[q]
  <2>1. /\ \A k, l \in DOMAIN L, i, j \in KidSlots :
            t.chunk[L[k]][i] = t.chunk[L[l]][j] => t.chunk[L[k]][i] = 0 \/ (k = l /\ i = j)
        /\ \A k \in DOMAIN L, i \in KidSlots : t.chunk[L[k]][i] = 0 =>
             k = Len(L) /\ i > 1 /\ \A j \in i..KidsPerChunk : t.chunk[L[k]][j] = 0
        /\ t.kid[q] # 0 => L = <<>>
    BY <1>4 DEF ChunksSound
  <2>2. \A k, l \in DOMAIN L, i, j \in KidSlots :
            u.chunk[L[k]][i] = u.chunk[L[l]][j] => u.chunk[L[k]][i] = 0 \/ (k = l /\ i = j)
    <3>1. ASSUME NEW k \in DOMAIN L, NEW l \in DOMAIN L, NEW i \in KidSlots, NEW j \in KidSlots,
                 u.chunk[L[k]][i] = u.chunk[L[l]][j]
          PROVE  u.chunk[L[k]][i] = 0 \/ (k = l /\ i = j)
      <4>1. u.chunk[L[k]] = t.chunk[L[k]] /\ u.chunk[L[l]] = t.chunk[L[l]]
        BY <1>2
      <4>2. t.chunk[L[k]][i] = t.chunk[L[l]][j]
        BY <3>1, <4>1
      <4> QED
        BY <2>1, <4>1, <4>2, SMTT(60)
    <3> QED
      BY <3>1
  <2>3. \A k \in DOMAIN L, i \in KidSlots : u.chunk[L[k]][i] = 0 =>
             k = Len(L) /\ i > 1 /\ \A j \in i..KidsPerChunk : u.chunk[L[k]][j] = 0
    BY <1>2, <2>1
  <2> QED
    BY <1>1, <2>1, <2>2, <2>3 DEF ChunksSound
<1> QED
  BY <1>3, <1>4

LEMMA Attached ==
  ASSUME NEW labels, NEW t \in TreesOf(labels), NEW u \in TreesOf(labels), NEW loose, NEW spare,
         Linked(t, loose, spare), NEW parent \in Nodes, NEW child \in loose, child \in Nodes,
         u.up = [t.up EXCEPT ![child] = parent],
         \A q \in Nodes : q # parent => Alike(t, u, q),
         \A n \in Nodes : KidIn(u, parent, n) <=> KidIn(t, parent, n) \/ n = child,
         ChunksSound(u, parent)
  PROVE  /\ UpLinked(u, loose \ {child}) /\ KidLinked(u, loose \ {child})
         /\ \A p \in Nodes : ChunksSound(u, p)
<1>1. UpLinked(t, loose) /\ KidLinked(t, loose) /\ \A p \in Nodes : ChunksSound(t, p)
  BY DEF Linked
<1>2. \A p, n \in Nodes : KidIn(t, p, n) => KidIn(u, p, n)
  BY AlikeKids
<1>3. \A p, n \in Nodes : p # parent /\ KidIn(u, p, n) => KidIn(t, p, n)
  BY AlikeKids
<1>4. t.up \in [Nodes -> Nodes \cup {0}]
  BY DEF TreesOf
<1>5. UpLinked(u, loose \ {child})
  BY <1>1, <1>2, <1>4 DEF UpLinked
<1>6. KidLinked(u, loose \ {child})
  BY <1>1, <1>3, <1>4 DEF KidLinked
<1>7. \A p \in Nodes : ChunksSound(u, p)
  BY <1>1, AlikeKids
<1> QED
  BY <1>5, <1>6, <1>7

LEMMA Lengthened ==
  ASSUME NEW labels, NEW t \in TreesOf(labels), NEW u \in TreesOf(labels), NEW spare,
         Apart(t), Holding(t, spare), NEW parent \in Nodes, NEW c \in PropChunks,
         c \notin t.held \/ c \in spare, u.held = t.held \cup {c},
         u.list = [t.list EXCEPT ![parent] = Append(t.list[parent], c)]
  PROVE  Apart(u) /\ Holding(u, spare \ {c})
<1>1. /\ \A p \in Nodes : p # parent => u.list[p] = t.list[p]
      /\ u.list[parent] = Append(t.list[parent], c)
  BY DEF TreesOf
<1>2. \A p \in Nodes : DOMAIN t.list[p] = 1..Len(t.list[p]) /\ Len(t.list[p]) \in Nat
  BY ListTyped
<1>3. /\ DOMAIN u.list[parent] = 1..Len(t.list[parent]) + 1
      /\ u.list[parent][Len(t.list[parent]) + 1] = c
      /\ \A k \in DOMAIN t.list[parent] : u.list[parent][k] = t.list[parent][k]
  BY <1>1, ListTyped
<1>4. \A p \in Nodes : \A k \in DOMAIN t.list[p] : t.list[p][k] # c
  BY DEF Holding
<1>5. \A p \in Nodes : \A k \in DOMAIN u.list[p] :
         \/ k \in DOMAIN t.list[p] /\ u.list[p][k] = t.list[p][k]
         \/ p = parent /\ k = Len(t.list[parent]) + 1 /\ u.list[p][k] = c
  BY <1>1, <1>2, <1>3
<1>6. Apart(u)
  BY <1>4, <1>5 DEF Apart
<1>7. \A p \in Nodes : \A k \in DOMAIN u.list[p] : u.list[p][k] \in u.held \ (spare \ {c})
  BY <1>5 DEF Holding
<1>8. \A p \in Nodes : \A k \in DOMAIN t.list[p] : k \in DOMAIN u.list[p] /\ u.list[p][k] = t.list[p][k]
  BY <1>1, <1>2, <1>3
<1>9. \E k \in DOMAIN u.list[parent] : u.list[parent][k] = c
  BY <1>2, <1>3
<1>10. ASSUME NEW d \in u.held \ (spare \ {c}) PROVE \E p \in Nodes : \E k \in DOMAIN u.list[p] : u.list[p][k] = d
  <2>1. CASE d = c
    BY <1>9, <2>1
  <2>2. CASE d # c
    BY <1>8, <2>2 DEF Holding
  <2> QED
    BY <2>1, <2>2
<1> QED
  BY <1>6, <1>7, <1>10 DEF Holding

\* What the four ways to make child a kid of parent have in common.
KidAttached(labels, t, u, loose, spare, parent, child, swept) ==
  /\ u \in TreesOf(labels) /\ Kept(t, u) /\ u.up = [t.up EXCEPT ![child] = parent] /\ t.held \subseteq u.held
  /\ \A q \in Nodes : q # parent => u.kid[q] = t.kid[q] /\ u.list[q] = t.list[q]
  /\ \A d \in spare : d # swept => u.chunk[d] = t.chunk[d]
  /\ \/ Linked(u, loose \ {child}, spare) /\ \A d \in spare : u.chunk[d] = t.chunk[d]
     \/ swept \in spare /\ Linked(u, loose \ {child}, spare \ {swept})
  /\ u.kid[parent] = 0 => u.list[parent] # <<>>
  /\ t.kid[parent] # 0 \/ t.list[parent] # <<>> => u.kid[parent] = 0

LEMMA OnlyKid ==
  ASSUME NEW labels, NEW t \in TreesOf(labels), NEW loose, NEW spare, Linked(t, loose, spare),
         NEW parent \in Nodes, NEW child \in loose, child \in Nodes, NEW swept,
         t.kid[parent] = 0, t.list[parent] = <<>>
  PROVE  KidAttached(labels, t, Inserted([t EXCEPT !.kid[parent] = child], parent, child).tree,
                     loose, spare, parent, child, swept)
<1> DEFINE u == Inserted([t EXCEPT !.kid[parent] = child], parent, child).tree
<1>1. u = [t EXCEPT !.kid = [t.kid EXCEPT ![parent] = child], !.up = [t.up EXCEPT ![child] = parent]]
  BY DEF Inserted, TreesOf
<1> HIDE DEF u
<1>2. u \in TreesOf(labels)
  BY <1>1 DEF TreesOf
<1>3. /\ Kept(t, u) /\ u.up = [t.up EXCEPT ![child] = parent] /\ u.kid = [t.kid EXCEPT ![parent] = child]
      /\ u.list = t.list /\ u.chunk = t.chunk /\ u.held = t.held
  BY <1>1 DEF Kept, TreesOf
<1>4. t.kid \in [Nodes -> Nodes \cup {0}] /\ child # 0
  BY DEF TreesOf, Nodes
<1>5. \A q \in Nodes : q # parent => Alike(t, u, q)
  BY <1>3, <1>4 DEF Alike
<1>6. \A n \in Nodes : KidIn(u, parent, n) <=> KidIn(t, parent, n) \/ n = child
  <2>1. DOMAIN t.list[parent] = {}
    OBVIOUS
  <2>2. ASSUME NEW n \in Nodes PROVE n # 0
    BY DEF Nodes
  <2> QED
    BY <1>3, <1>4, <2>1, <2>2 DEF KidIn
<1>7. ChunksSound(u, parent)
  BY <1>3 DEF ChunksSound
<1>8. UpLinked(u, loose \ {child}) /\ KidLinked(u, loose \ {child}) /\ \A p \in Nodes : ChunksSound(u, p)
  BY <1>2, <1>3, <1>5, <1>6, <1>7, Attached
<1>9. Apart(u) /\ Holding(u, spare)
  BY <1>3 DEF Linked, Apart, Holding
<1>10. Linked(u, loose \ {child}, spare)
  BY <1>8, <1>9 DEF Linked
<1>11. u.kid[parent] = child
  BY <1>3, <1>4
<1>12. \A q \in Nodes : q # parent => u.kid[q] = t.kid[q]
  BY <1>3, <1>4
<1> QED
  BY <1>2, <1>3, <1>4, <1>10, <1>11, <1>12 DEF KidAttached, u

LEMMA InGap ==
  ASSUME NEW labels, NEW t \in TreesOf(labels), NEW loose, NEW spare, Linked(t, loose, spare),
         NEW parent \in Nodes, NEW child \in loose, child \in Nodes, NEW swept,
         FirstPlace(t, parent, {0}) # NoPlace
  PROVE  KidAttached(labels, t, Inserted(WithKid(t, FirstPlace(t, parent, {0}), child), parent, child).tree,
                     loose, spare, parent, child, swept)
<1>1. PICK k \in DOMAIN t.list[parent], i \in KidSlots :
        /\ FirstPlace(t, parent, {0}) = <<t.list[parent][k], i>>
        /\ t.chunk[t.list[parent][k]][i] = 0
        /\ \A l \in DOMAIN t.list[parent], j \in KidSlots :
             t.chunk[t.list[parent][l]][j] \in {0} => k < l \/ (k = l /\ i <= j)
  BY FirstPlaceIs
<1> DEFINE c == t.list[parent][k]
           v == WithKid(t, <<c, i>>, child)
           u == Inserted(v, parent, child).tree
           L == t.list[parent]
<1>2. c \in PropChunks
  BY ListTyped
<1>3. /\ v \in TreesOf(labels) /\ Kept(t, v) /\ v.up = t.up /\ v.kid = t.kid /\ v.list = t.list /\ v.held = t.held
      /\ \A d \in PropChunks, j \in KidSlots : v.chunk[d][j] = IF d = c /\ j = i THEN child ELSE t.chunk[d][j]
  BY <1>2, WithKidIs
<1> HIDE DEF v
<1>4. u = [v EXCEPT !.up = [t.up EXCEPT ![child] = parent]]
  BY <1>3 DEF Inserted, TreesOf
<1> HIDE DEF u
<1>5. u \in TreesOf(labels)
  BY <1>3, <1>4 DEF TreesOf
<1>6. /\ Kept(t, u) /\ u.up = [t.up EXCEPT ![child] = parent] /\ u.kid = t.kid
      /\ u.list = t.list /\ u.chunk = v.chunk /\ u.held = t.held
  BY <1>3, <1>4 DEF Kept, TreesOf
<1>7. \A d \in PropChunks : d # c => u.chunk[d] = t.chunk[d]
  <2>1. t.chunk \in [PropChunks -> [KidSlots -> Nodes \cup {0}]] /\ v.chunk \in [PropChunks -> [KidSlots -> Nodes \cup {0}]]
    BY <1>3 DEF TreesOf
  <2> QED
    BY <1>3, <1>6, <2>1
<1>8. \A q \in Nodes : q # parent => \A l \in DOMAIN t.list[q] : t.list[q][l] # c /\ t.list[q][l] \in PropChunks
  BY ListTyped DEF Linked, Apart
<1>9. \A q \in Nodes : q # parent => Alike(t, u, q)
  BY <1>6, <1>7, <1>8 DEF Alike
<1>10. \A l \in DOMAIN L, j \in KidSlots :
         u.chunk[L[l]][j] = IF l = k /\ j = i THEN child ELSE t.chunk[L[l]][j]
  <2>1. \A l \in DOMAIN L : L[l] \in PropChunks /\ (L[l] = c <=> l = k)
    BY ListTyped DEF Linked, Apart
  <2> QED
    BY <1>3, <1>6, <2>1
<1>11. child # 0 /\ ~KidIn(t, parent, child) /\ ChunksSound(t, parent)
  BY DEF Nodes, Linked, KidLinked
<1>12. \A n \in Nodes : n # 0
  BY DEF Nodes
<1>13. \A n \in Nodes : KidIn(u, parent, n) <=> KidIn(t, parent, n) \/ n = child
  <2>1. ASSUME NEW n \in Nodes, KidIn(u, parent, n) PROVE KidIn(t, parent, n) \/ n = child
    BY <1>6, <1>10, <2>1 DEF KidIn
  <2>2. ASSUME NEW n \in Nodes, KidIn(t, parent, n) PROVE KidIn(u, parent, n)
    BY <1>1, <1>6, <1>10, <1>12, <2>2, SMTT(60) DEF KidIn
  <2>3. KidIn(u, parent, child)
    BY <1>6, <1>10 DEF KidIn
  <2> QED
    BY <2>1, <2>2, <2>3
<1>14. ChunksSound(u, parent)
  <2>1. /\ \A m, l \in DOMAIN L, g, j \in KidSlots :
            t.chunk[L[m]][g] = t.chunk[L[l]][j] => t.chunk[L[m]][g] = 0 \/ (m = l /\ g = j)
        /\ \A m \in DOMAIN L, g \in KidSlots : t.chunk[L[m]][g] = 0 =>
             m = Len(L) /\ g > 1 /\ \A j \in g..KidsPerChunk : t.chunk[L[m]][j] = 0
        /\ t.kid[parent] # 0 => L = <<>>
    BY <1>11 DEF ChunksSound
  <2>2. \A m \in DOMAIN L, j \in KidSlots : t.chunk[L[m]][j] # child
    BY <1>11 DEF KidIn
  <2>3. \A m, l \in DOMAIN L, g, j \in KidSlots :
            u.chunk[L[m]][g] = u.chunk[L[l]][j] => u.chunk[L[m]][g] = 0 \/ (m = l /\ g = j)
    BY <1>10, <2>1, <2>2, SMTT(60)
  <2>4. ASSUME NEW m \in DOMAIN L, NEW g \in KidSlots, u.chunk[L[m]][g] = 0
        PROVE  m = Len(L) /\ g > 1 /\ \A j \in g..KidsPerChunk : u.chunk[L[m]][j] = 0
    <3>1. t.chunk[L[m]][g] = 0 /\ ~(m = k /\ g = i)
      BY <1>10, <1>11, <2>4
    <3>2. m = Len(L) /\ g > 1 /\ \A j \in g..KidsPerChunk : t.chunk[L[m]][j] = 0
      BY <2>1, <3>1
    <3>3. k = Len(L)
      BY <1>1, <2>1
    <3>4. i < g
      BY <1>1, <3>1, <3>2, <3>3 DEF KidSlots
    <3>5. \A j \in g..KidsPerChunk : j \in KidSlots /\ j # i
      BY <3>4 DEF KidSlots
    <3> QED
      BY <1>10, <3>2, <3>5
  <2> QED
    BY <1>6, <2>1, <2>3, <2>4, SMTT(60) DEF ChunksSound
<1>15. UpLinked(u, loose \ {child}) /\ KidLinked(u, loose \ {child}) /\ \A p \in Nodes : ChunksSound(u, p)
  BY <1>5, <1>6, <1>9, <1>13, <1>14, Attached
<1>16. Apart(u) /\ Holding(u, spare)
  BY <1>6 DEF Linked, Apart, Holding
<1>17. Linked(u, loose \ {child}, spare)
  BY <1>15, <1>16 DEF Linked
<1>18. \A d \in spare : d # c /\ d \in PropChunks
  BY DEF Linked, Holding, TreesOf
<1>19. L # <<>> /\ t.kid[parent] = 0
  BY <1>11 DEF ChunksSound
<1> QED
  BY <1>1, <1>5, <1>6, <1>7, <1>17, <1>18, <1>19 DEF KidAttached, u, v

LEMMA NoGap ==
  ASSUME NEW labels, NEW t \in TreesOf(labels), NEW p \in Nodes, FirstPlace(t, p, {0}) = NoPlace
  PROVE  \A k \in DOMAIN t.list[p], i \in KidSlots : t.chunk[t.list[p][k]][i] # 0
<1>1. \A k \in DOMAIN t.list[p], i \in KidSlots : FirstPlace(t, p, {0}) # <<t.list[p][k], i>>
  BY PlaceIsSome, ListTyped
<1> QED
  BY <1>1, FirstPlaceIs

LEMMA ChunkAppended ==
  ASSUME NEW labels, NEW t \in TreesOf(labels), NEW loose, NEW spare, Linked(t, loose, spare),
         NEW parent \in Nodes, NEW child \in loose, child \in Nodes, NEW c \in spare,
         FirstPlace(t, parent, {0}) = NoPlace, \A i \in KidSlots : t.chunk[c][i] = 0,
         t.kid[parent] = 0
  PROVE  /\ KidAttached(labels, t, InsertInChunk(t, parent, child, c).tree, loose, spare, parent, child, c)
         /\ Linked(InsertInChunk(t, parent, child, c).tree, loose \ {child}, spare \ {c})
<1> DEFINE L == t.list[parent]
           s == [t EXCEPT !.list = [t.list EXCEPT ![parent] = Append(t.list[parent], c)]]
           v == WithKid(s, <<c, 1>>, child)
           u == InsertInChunk(t, parent, child, c).tree
<1>1. c \in PropChunks /\ 1 \in KidSlots /\ Apart(t) /\ Holding(t, spare)
  BY TreeAssumption DEF Linked, Holding, TreesOf, KidSlots
<1>2. /\ L \in Seq(PropChunks) /\ DOMAIN L = 1..Len(L) /\ Len(L) \in Nat
  BY ListTyped
<1>3. Append(L, c) \in Seq(PropChunks) /\ DOMAIN Append(L, c) = 1..Len(L) + 1 /\ Append(L, c)[Len(L) + 1] = c
      /\ \A k \in 1..Len(L) : Append(L, c)[k] = L[k]
  BY <1>1, <1>2
<1>4. s \in TreesOf(labels)
  BY <1>3 DEF TreesOf
<1>5. /\ Kept(t, s) /\ s.up = t.up /\ s.kid = t.kid /\ s.chunk = t.chunk /\ s.held = t.held
      /\ s.list = [t.list EXCEPT ![parent] = Append(t.list[parent], c)]
  BY DEF Kept, TreesOf
<1>6. s = [t EXCEPT !.list[parent] = Append(@, c)]
  BY DEF TreesOf
<1> HIDE DEF s
<1>7. /\ v \in TreesOf(labels) /\ Kept(s, v) /\ v.up = s.up /\ v.kid = s.kid /\ v.list = s.list /\ v.held = s.held
      /\ \A d \in PropChunks, j \in KidSlots : v.chunk[d][j] = IF d = c /\ j = 1 THEN child ELSE s.chunk[d][j]
  BY <1>1, <1>4, WithKidIs
<1>8. u = [v EXCEPT !.up = [t.up EXCEPT ![child] = parent]]
  <2>1. u = Inserted(v, parent, child).tree
    BY <1>6 DEF InsertInChunk
  <2> HIDE DEF v
  <2> QED
    BY <1>5, <1>7, <2>1 DEF Inserted, TreesOf
<1> HIDE DEF u, v
<1>9. u \in TreesOf(labels)
  BY <1>5, <1>7, <1>8 DEF TreesOf
<1>10. /\ Kept(t, u) /\ u.up = [t.up EXCEPT ![child] = parent] /\ u.kid = t.kid
       /\ u.list = s.list /\ u.chunk = v.chunk /\ u.held = t.held
  BY <1>5, <1>7, <1>8 DEF Kept, TreesOf
<1>11. \A d \in PropChunks : d # c => u.chunk[d] = t.chunk[d]
  <2>1. t.chunk \in [PropChunks -> [KidSlots -> Nodes \cup {0}]] /\ v.chunk \in [PropChunks -> [KidSlots -> Nodes \cup {0}]]
    BY <1>7 DEF TreesOf
  <2> QED
    BY <1>5, <1>7, <1>10, <2>1
<1>12. \A q \in Nodes : \A l \in DOMAIN t.list[q] : t.list[q][l] # c /\ t.list[q][l] \in PropChunks
  BY ListTyped DEF Linked, Holding
<1>13. \A q \in Nodes : q # parent => Alike(t, u, q)
  BY <1>5, <1>10, <1>11, <1>12 DEF Alike, TreesOf
<1>14. u.list[parent] = Append(L, c)
  BY <1>5, <1>10 DEF TreesOf
<1>15. /\ \A l \in 1..Len(L) : u.list[parent][l] = L[l] /\ \A j \in KidSlots : u.chunk[L[l]][j] = t.chunk[L[l]][j]
       /\ u.list[parent][Len(L) + 1] = c
       /\ \A j \in KidSlots : u.chunk[c][j] = IF j = 1 THEN child ELSE 0
  BY <1>1, <1>2, <1>3, <1>5, <1>7, <1>10, <1>11, <1>12, <1>14
<1>16. child # 0 /\ ~KidIn(t, parent, child) /\ ChunksSound(t, parent)
  BY DEF Nodes, Linked, KidLinked
<1>17. \A n \in Nodes : n # 0
  BY DEF Nodes
<1>18. DOMAIN u.list[parent] = 1..Len(L) + 1 /\ Len(u.list[parent]) = Len(L) + 1
  BY <1>2, <1>3, <1>14
<1>19. \A n \in Nodes : KidIn(u, parent, n) <=> KidIn(t, parent, n) \/ n = child
  <2>1. ASSUME NEW n \in Nodes, KidIn(u, parent, n) PROVE KidIn(t, parent, n) \/ n = child
    <3>1. CASE n = u.kid[parent]
      BY <1>10, <3>1 DEF KidIn
    <3>2. ASSUME NEW k \in DOMAIN u.list[parent], NEW i \in KidSlots, u.chunk[u.list[parent][k]][i] = n
          PROVE  KidIn(t, parent, n) \/ n = child
      <4>1. k \in 1..Len(L) \/ k = Len(L) + 1
        BY <1>2, <1>18
      <4>2. CASE k \in 1..Len(L)
        <5>1. k \in DOMAIN L /\ u.list[parent][k] = L[k] /\ u.chunk[L[k]][i] = t.chunk[L[k]][i]
          BY <1>2, <1>15, <4>2
        <5>2. t.chunk[L[k]][i] = n
          BY <3>2, <5>1
        <5> QED
          BY <5>1, <5>2 DEF KidIn
      <4>3. CASE k = Len(L) + 1
        BY <1>15, <1>17, <3>2, <4>3
      <4> QED
        BY <4>1, <4>2, <4>3
    <3> QED
      BY <2>1, <3>1, <3>2 DEF KidIn
  <2>2. ASSUME NEW n \in Nodes, KidIn(t, parent, n) PROVE KidIn(u, parent, n)
    <3>1. \A l \in DOMAIN L : l \in DOMAIN u.list[parent]
      BY <1>2, <1>18
    <3>2. CASE n = t.kid[parent]
      BY <1>10, <3>2 DEF KidIn
    <3>3. ASSUME NEW k \in DOMAIN L, NEW i \in KidSlots, t.chunk[L[k]][i] = n PROVE KidIn(u, parent, n)
      <4>1. u.list[parent][k] = L[k] /\ u.chunk[L[k]][i] = n
        BY <1>2, <1>15, <3>3
      <4> QED
        BY <3>1, <4>1 DEF KidIn
    <3> QED
      BY <2>2, <3>2, <3>3 DEF KidIn
  <2>3. KidIn(u, parent, child)
    <3>1. Len(L) + 1 \in DOMAIN u.list[parent]
      BY <1>2, <1>18
    <3> QED
      BY <1>1, <1>15, <3>1 DEF KidIn
  <2> QED
    BY <2>1, <2>2, <2>3
<1>20. ChunksSound(u, parent)
  <2> DEFINE N == u.list[parent]
  <2>1. /\ \A m, l \in DOMAIN L, g, j \in KidSlots :
            t.chunk[L[m]][g] = t.chunk[L[l]][j] => t.chunk[L[m]][g] = 0 \/ (m = l /\ g = j)
    BY <1>16 DEF ChunksSound
  <2>2. \A m \in DOMAIN L, j \in KidSlots : t.chunk[L[m]][j] # child /\ t.chunk[L[m]][j] # 0
    BY <1>16, NoGap, SMTT(60) DEF KidIn
  <2>3. \A k \in DOMAIN N : k \in DOMAIN L \/ k = Len(L) + 1
    BY <1>2, <1>18
  <2> DEFINE e == Len(L) + 1
  <2>6. \A k \in DOMAIN L, j \in KidSlots : u.chunk[N[k]][j] = t.chunk[L[k]][j]
    <3>1. ASSUME NEW k \in DOMAIN L, NEW j \in KidSlots PROVE u.chunk[N[k]][j] = t.chunk[L[k]][j]
      <4>1. k \in 1..Len(L)
        BY <1>2
      <4>2. N[k] = L[k] /\ u.chunk[L[k]][j] = t.chunk[L[k]][j]
        BY <1>15, <4>1
      <4> QED
        BY <4>2
    <3> QED
      BY <3>1
  <2>7. \A j \in KidSlots : u.chunk[N[e]][j] = IF j = 1 THEN child ELSE 0
    BY <1>15
  <2> HIDE DEF N, e
  <2>4. ASSUME NEW m \in DOMAIN N, NEW l \in DOMAIN N, NEW g \in KidSlots, NEW j \in KidSlots,
               u.chunk[N[m]][g] = u.chunk[N[l]][j]
        PROVE  u.chunk[N[m]][g] = 0 \/ (m = l /\ g = j)
    <3>1. CASE m \in DOMAIN L /\ l \in DOMAIN L
      BY <2>1, <2>4, <2>6, <3>1
    <3>2. CASE m = e \/ l = e
      BY <1>16, <2>2, <2>3, <2>4, <2>6, <2>7, <3>2, SMTT(60) DEF e
    <3> QED
      BY <2>3, <3>1, <3>2 DEF N, e
  <2>5. ASSUME NEW m \in DOMAIN N, NEW g \in KidSlots, u.chunk[N[m]][g] = 0
        PROVE  m = Len(N) /\ g > 1 /\ \A j \in g..KidsPerChunk : u.chunk[N[m]][j] = 0
    <3>1. m = e
      <4>1. m \notin DOMAIN L
        BY <2>2, <2>5, <2>6
      <4> QED
        BY <2>3, <4>1 DEF N, e
    <3>2. g # 1
      BY <1>16, <2>5, <2>7, <3>1
    <3>3. g \in Nat /\ g > 1 /\ \A j \in g..KidsPerChunk : j \in KidSlots /\ j # 1
      BY <3>2 DEF KidSlots
    <3>4. m = Len(N)
      BY <1>18, <3>1 DEF N, e
    <3> QED
      BY <2>7, <3>1, <3>3, <3>4
  <2> QED
    BY <1>10, <2>4, <2>5 DEF ChunksSound, N
<1>21. UpLinked(u, loose \ {child}) /\ KidLinked(u, loose \ {child}) /\ \A p \in Nodes : ChunksSound(u, p)
  BY <1>9, <1>10, <1>13, <1>19, <1>20, Attached
<1>22. Apart(u) /\ Holding(u, spare \ {c})
  <2>1. u.held = t.held \cup {c} /\ u.list = [t.list EXCEPT ![parent] = Append(t.list[parent], c)]
    BY <1>1, <1>5, <1>10 DEF Holding
  <2> QED
    BY <1>1, <1>9, <2>1, Lengthened
<1>23. Linked(u, loose \ {child}, spare \ {c})
  BY <1>21, <1>22 DEF Linked
<1>24. \A d \in spare : d \in PropChunks
  BY DEF Linked, Holding, TreesOf
<1>25. u.list[parent] # <<>>
  BY <1>2, <1>18
<1>26. \A q \in Nodes : q # parent => u.kid[q] = t.kid[q] /\ u.list[q] = t.list[q]
  BY <1>13 DEF Alike
<1> QED
  BY <1>9, <1>10, <1>11, <1>23, <1>24, <1>25, <1>26 DEF KidAttached, u

LEMMA ChunkOfTwo ==
  ASSUME NEW labels, NEW t \in TreesOf(labels), NEW loose, NEW spare, Linked(t, loose, spare),
         NEW parent \in Nodes, NEW child \in loose, child \in Nodes, NEW c \in spare,
         \A i \in KidSlots : t.chunk[c][i] = 0, t.kid[parent] # 0
  PROVE  /\ KidAttached(labels, t, InsertInChunk(t, parent, child, c).tree, loose, spare, parent, child, c)
         /\ Linked(InsertInChunk(t, parent, child, c).tree, loose \ {child}, spare \ {c})
<1> DEFINE s == [t EXCEPT !.list = [t.list EXCEPT ![parent] = <<c>>], !.kid = [t.kid EXCEPT ![parent] = 0]]
           only == t.kid[parent]
           w == WithKid(s, <<c, 1>>, only)
           v == WithKid(w, <<c, 2>>, child)
           u == InsertInChunk(t, parent, child, c).tree
<1>1. c \in PropChunks /\ 1 \in KidSlots /\ 2 \in KidSlots /\ Apart(t) /\ Holding(t, spare)
  BY TreeAssumption DEF Linked, Holding, TreesOf, KidSlots
<1>2. ChunksSound(t, parent) /\ t.list[parent] = <<>> /\ only \in Nodes
  BY DEF Linked, ChunksSound, TreesOf
<1>3. s \in TreesOf(labels)
  <2>1. <<c>> \in Seq(PropChunks)
    BY <1>1
  <2> QED
    BY <2>1 DEF TreesOf
<1>4. /\ Kept(t, s) /\ s.up = t.up /\ s.kid = [t.kid EXCEPT ![parent] = 0] /\ s.chunk = t.chunk /\ s.held = t.held
      /\ s.list = [t.list EXCEPT ![parent] = <<c>>]
  BY DEF Kept, TreesOf
<1>5. s = [t EXCEPT !.list[parent] = <<c>>, !.kid[parent] = 0]
  BY DEF TreesOf
<1> HIDE DEF s
<1>6. /\ w \in TreesOf(labels) /\ Kept(s, w) /\ w.up = s.up /\ w.kid = s.kid /\ w.list = s.list /\ w.held = s.held
      /\ \A d \in PropChunks, j \in KidSlots : w.chunk[d][j] = IF d = c /\ j = 1 THEN only ELSE s.chunk[d][j]
  BY <1>1, <1>2, <1>3, WithKidIs, SMTT(60)
<1> HIDE DEF w
<1>7. /\ v \in TreesOf(labels) /\ Kept(w, v) /\ v.up = w.up /\ v.kid = w.kid /\ v.list = w.list /\ v.held = w.held
      /\ \A d \in PropChunks, j \in KidSlots : v.chunk[d][j] = IF d = c /\ j = 2 THEN child ELSE w.chunk[d][j]
  BY <1>1, <1>6, WithKidIs
<1>8. u = [v EXCEPT !.up = [t.up EXCEPT ![child] = parent]]
  <2>1. u = Inserted(v, parent, child).tree
    BY <1>5 DEF InsertInChunk, w
  <2> HIDE DEF v
  <2> QED
    BY <1>4, <1>6, <1>7, <2>1 DEF Inserted, TreesOf
<1> HIDE DEF u, v
<1>9. u \in TreesOf(labels)
  BY <1>4, <1>6, <1>7, <1>8 DEF TreesOf
<1>10. /\ Kept(t, u) /\ u.up = [t.up EXCEPT ![child] = parent] /\ u.kid = [t.kid EXCEPT ![parent] = 0]
       /\ u.list = [t.list EXCEPT ![parent] = <<c>>] /\ u.chunk = v.chunk /\ u.held = t.held
  BY <1>4, <1>6, <1>7, <1>8 DEF Kept, TreesOf
<1>11. \A d \in PropChunks : d # c => u.chunk[d] = t.chunk[d]
  <2>1. t.chunk \in [PropChunks -> [KidSlots -> Nodes \cup {0}]] /\ v.chunk \in [PropChunks -> [KidSlots -> Nodes \cup {0}]]
    BY <1>7 DEF TreesOf
  <2> QED
    BY <1>4, <1>6, <1>7, <1>10, <2>1
<1>12. \A q \in Nodes : \A l \in DOMAIN t.list[q] : t.list[q][l] # c /\ t.list[q][l] \in PropChunks
  BY ListTyped DEF Linked, Holding
<1>13. \A q \in Nodes : q # parent => Alike(t, u, q)
  BY <1>10, <1>11, <1>12 DEF Alike, TreesOf
<1>14. u.list[parent] = <<c>> /\ u.kid[parent] = 0
  BY <1>10 DEF TreesOf
<1>15. \A j \in KidSlots : u.chunk[c][j] = IF j = 1 THEN only ELSE IF j = 2 THEN child ELSE 0
  BY <1>1, <1>4, <1>6, <1>7, <1>10
<1>16. child # 0 /\ ~KidIn(t, parent, child) /\ child # only
  BY DEF Nodes, Linked, KidLinked, KidIn
<1>17. \A n \in Nodes : n # 0
  BY DEF Nodes
<1>18. \A n \in Nodes : KidIn(u, parent, n) <=> KidIn(t, parent, n) \/ n = child
  <2>1. \A n \in Nodes : KidIn(t, parent, n) <=> n = only
    BY <1>2 DEF KidIn
  <2>2. \A n \in Nodes : KidIn(u, parent, n) <=> \E i \in KidSlots : u.chunk[c][i] = n
    <3>1. DOMAIN u.list[parent] = {1} /\ u.list[parent][1] = c
      BY <1>14
    <3> QED
      BY <1>14, <1>17, <3>1 DEF KidIn
  <2> QED
    BY <1>1, <1>15, <1>17, <2>1, <2>2
<1>19. ChunksSound(u, parent)
  <2>1. DOMAIN u.list[parent] = {1} /\ u.list[parent][1] = c /\ Len(u.list[parent]) = 1
    BY <1>14
  <2>2. \A g \in KidSlots : u.chunk[c][g] = 0 => g > 1 /\ \A j \in g..KidsPerChunk : u.chunk[c][j] = 0
    <3>1. ASSUME NEW g \in KidSlots, u.chunk[c][g] = 0 PROVE g \in Nat /\ g > 2
      BY <1>2, <1>15, <1>16, <1>17, <3>1 DEF KidSlots
    <3>2. ASSUME NEW g \in KidSlots, g > 2, NEW j \in g..KidsPerChunk PROVE j \in KidSlots /\ j # 1 /\ j # 2
      BY <3>2 DEF KidSlots
    <3> QED
      BY <1>15, <3>1, <3>2
  <2>3. \A g, j \in KidSlots : u.chunk[c][g] = u.chunk[c][j] /\ g # j => u.chunk[c][g] = 0
    BY <1>15, <1>16, <1>17, <1>2
  <2>4. \A m, l \in DOMAIN u.list[parent] : m = 1 /\ l = 1
    BY <2>1
  <2>5. \A m, l \in DOMAIN u.list[parent], g, j \in KidSlots :
            u.chunk[u.list[parent][m]][g] = u.chunk[u.list[parent][l]][j] => u.chunk[u.list[parent][m]][g] = 0 \/ (m = l /\ g = j)
    BY <2>1, <2>3, <2>4
  <2>6. \A m \in DOMAIN u.list[parent], g \in KidSlots : u.chunk[u.list[parent][m]][g] = 0 =>
             m = Len(u.list[parent]) /\ g > 1 /\ \A j \in g..KidsPerChunk : u.chunk[u.list[parent][m]][j] = 0
    BY <2>1, <2>2, <2>4
  <2> QED
    BY <1>14, <2>5, <2>6 DEF ChunksSound
<1>20. UpLinked(u, loose \ {child}) /\ KidLinked(u, loose \ {child}) /\ \A p \in Nodes : ChunksSound(u, p)
  BY <1>9, <1>10, <1>13, <1>18, <1>19, Attached
<1>21. Apart(u) /\ Holding(u, spare \ {c})
  <2>1. u.held = t.held \cup {c} /\ u.list = [t.list EXCEPT ![parent] = Append(t.list[parent], c)]
    BY <1>1, <1>2, <1>10 DEF Holding
  <2> QED
    BY <1>1, <1>9, <2>1, Lengthened
<1>22. Linked(u, loose \ {child}, spare \ {c})
  BY <1>20, <1>21 DEF Linked
<1>23. \A d \in spare : d \in PropChunks
  BY DEF Linked, Holding, TreesOf
<1>24. \A q \in Nodes : q # parent => u.kid[q] = t.kid[q] /\ u.list[q] = t.list[q]
  BY <1>13 DEF Alike
<1>25. u.list[parent] # <<>>
  BY <1>14
<1> QED
  BY <1>9, <1>10, <1>11, <1>14, <1>22, <1>23, <1>24, <1>25 DEF KidAttached, u

LEMMA NewChunkIs ==
  ASSUME NEW labels, NEW t \in TreesOf(labels), NEW loose, NEW spare, Linked(t, loose, spare), ~NoChunk(t)
  PROVE  LET c == FreeChunk(t)
             u == NewChunk(t, c)
         IN /\ c \in PropChunks \ t.held
            /\ u \in TreesOf(labels) /\ Kept(t, u) /\ u.up = t.up /\ u.kid = t.kid /\ u.list = t.list
            /\ \A d \in PropChunks : d # c => u.chunk[d] = t.chunk[d]
            /\ \A i \in KidSlots : u.chunk[c][i] = 0
            /\ Linked(u, loose, spare \cup {c})
            /\ \A p \in Nodes : FirstPlace(t, p, {0}) = NoPlace => FirstPlace(u, p, {0}) = NoPlace
<1> DEFINE c == FreeChunk(t)
           u == NewChunk(t, c)
<1>1. c \in PropChunks \ t.held
  <2>1. PropChunks \ t.held \subseteq Nat /\ t.held \subseteq PropChunks /\ t.held # PropChunks
    BY DEF NoChunk, TreesOf, PropChunks
  <2>2. PropChunks \ t.held # {}
    BY <2>1
  <2> QED
    BY <2>1, <2>2, Smallest DEF FreeChunk
<1> HIDE DEF c
<1>2. EmptyChunk \in [KidSlots -> Nodes \cup {0}] /\ \A i \in KidSlots : EmptyChunk[i] = 0
  BY DEF EmptyChunk
<1>3. /\ u \in TreesOf(labels) /\ Kept(t, u) /\ u.up = t.up /\ u.kid = t.kid /\ u.list = t.list
      /\ u.held = t.held \cup {c} /\ u.chunk = [t.chunk EXCEPT ![c] = EmptyChunk]
  BY <1>1, <1>2 DEF NewChunk, Kept, TreesOf
<1> HIDE DEF u
<1>4. \A d \in PropChunks : d # c => u.chunk[d] = t.chunk[d]
  BY <1>3 DEF TreesOf
<1>5. \A i \in KidSlots : u.chunk[c][i] = 0
  BY <1>1, <1>2, <1>3 DEF TreesOf
<1>6. \A p \in Nodes : \A k \in DOMAIN t.list[p] : t.list[p][k] # c /\ t.list[p][k] \in PropChunks
  BY <1>1, ListTyped DEF Linked, Holding
<1>7. \A p \in Nodes : Alike(t, u, p)
  BY <1>3, <1>4, <1>6 DEF Alike
<1>8. /\ \A p, n \in Nodes : KidIn(u, p, n) <=> KidIn(t, p, n)
      /\ \A p \in Nodes : ChunksSound(u, p)
  BY <1>7, AlikeKids DEF Linked
<1>9. UpLinked(u, loose) /\ KidLinked(u, loose)
  BY <1>3, <1>8 DEF Linked, UpLinked, KidLinked, TreesOf
<1>10. Apart(u) /\ Holding(u, spare \cup {c})
  BY <1>1, <1>3, <1>6 DEF Linked, Apart, Holding
<1>11. ASSUME NEW p \in Nodes, FirstPlace(t, p, {0}) = NoPlace PROVE FirstPlace(u, p, {0}) = NoPlace
  <2>1. \A k \in DOMAIN t.list[p], i \in KidSlots : t.chunk[t.list[p][k]][i] # 0
    BY <1>11, NoGap
  <2>2. \A k \in DOMAIN u.list[p], i \in KidSlots : u.chunk[u.list[p][k]][i] # 0
    BY <1>7, <2>1 DEF Alike
  <2>3. u.chunk \in [PropChunks -> [KidSlots -> Nodes \cup {0}]] /\ u \in TreesOf(labels)
    BY <1>3 DEF TreesOf
  <2>4. \/ FirstPlace(u, p, {0}) = NoPlace
        \/ \E k \in DOMAIN u.list[p], i \in KidSlots : u.chunk[u.list[p][k]][i] \in {0}
    BY <2>3, FirstPlaceIs
  <2> QED
    BY <2>2, <2>4
<1> QED
  BY <1>1, <1>3, <1>4, <1>5, <1>8, <1>9, <1>10, <1>11 DEF u, c, Linked

\* InsertPropertyTreeChild makes child a kid of parent, or changes nothing.
KidPut(labels, t, r, loose, spare, parent, child, swept) ==
  \/ r.ok = TRUE /\ KidAttached(labels, t, r.tree, loose, spare, parent, child, swept)
  \/ /\ r.ok = FALSE /\ r.tree = t /\ swept = 0
     /\ FirstPlace(t, parent, {0}) = NoPlace /\ ~(t.list[parent] = <<>> /\ t.kid[parent] = 0)

LEMMA KidInserted ==
  ASSUME NEW labels, NEW t \in TreesOf(labels), NEW loose, NEW spare, Linked(t, loose, spare),
         NEW parent \in Nodes, NEW child \in loose, child \in Nodes, NEW swept,
         swept # 0 /\ FirstPlace(t, parent, {0}) = NoPlace =>
           swept \in spare /\ \A i \in KidSlots : t.chunk[swept][i] = 0
  PROVE  KidPut(labels, t, InsertKid(t, parent, child, swept, FirstPlace(t, parent, {0})),
                loose, spare, parent, child, swept)
<1> DEFINE gap == FirstPlace(t, parent, {0})
           r == InsertKid(t, parent, child, swept, gap)
           none == t.list[parent] = <<>> /\ t.kid[parent] = 0
           c == FreeChunk(t)
<1> SUFFICES \/ r.ok = TRUE /\ KidAttached(labels, t, r.tree, loose, spare, parent, child, swept)
             \/ /\ r.ok = FALSE /\ r.tree = t /\ swept = 0
                /\ FirstPlace(t, parent, {0}) = NoPlace /\ ~(t.list[parent] = <<>> /\ t.kid[parent] = 0)
  <2>1. KidPut(labels, t, r, loose, spare, parent, child, swept) <=>
          \/ r.ok = TRUE /\ KidAttached(labels, t, r.tree, loose, spare, parent, child, swept)
          \/ /\ r.ok = FALSE /\ r.tree = t /\ swept = 0
             /\ FirstPlace(t, parent, {0}) = NoPlace /\ ~(t.list[parent] = <<>> /\ t.kid[parent] = 0)
    <3> HIDE DEF r
    <3> QED
      BY DEF KidPut
  <2> QED
    BY <2>1
<1>0. \A v, p, d : Inserted(v, p, d).ok = TRUE
  BY DEF Inserted
<1>00. \A v, p, d, e : InsertInChunk(v, p, d, e).ok = TRUE
  BY <1>0, Zenon, SMTT(60) DEF InsertInChunk
<1> HIDE DEF gap
<1>1. CASE none
  <2>1. r = Inserted([t EXCEPT !.kid[parent] = child], parent, child)
    BY <1>1 DEF InsertKid
  <2>2. r.ok = TRUE
    BY <1>0, <2>1
  <2>3. KidAttached(labels, t, Inserted([t EXCEPT !.kid[parent] = child], parent, child).tree,
                    loose, spare, parent, child, swept)
    BY <1>1, OnlyKid
  <2> HIDE DEF r
  <2>4. KidAttached(labels, t, r.tree, loose, spare, parent, child, swept)
    BY <2>1, <2>3
  <2> QED
    BY <2>2, <2>4 DEF r, gap
<1>2. CASE ~none /\ gap # NoPlace
  <2>1. r = Inserted(WithKid(t, gap, child), parent, child)
    BY <1>2 DEF InsertKid
  <2> QED
    BY <1>0, <1>2, <2>1, InGap DEF gap
<1>3. CASE ~none /\ gap = NoPlace /\ swept # 0
  <2>1. r = InsertInChunk(t, parent, child, swept)
    BY <1>3 DEF InsertKid
  <2>2. CASE t.kid[parent] = 0
    BY <1>00, <1>3, <2>1, <2>2, ChunkAppended DEF gap
  <2>3. CASE t.kid[parent] # 0
    BY <1>00, <1>3, <2>1, <2>3, ChunkOfTwo DEF gap
  <2> QED
    BY <2>2, <2>3
<1>4. CASE ~none /\ gap = NoPlace /\ swept = 0 /\ NoChunk(t)
  BY <1>4 DEF InsertKid, NotInserted, gap
<1>5. CASE ~none /\ gap = NoPlace /\ swept = 0 /\ ~NoChunk(t)
  <2> DEFINE v == NewChunk(t, c)
             u == InsertInChunk(v, parent, child, c).tree
  <2>1. r = InsertInChunk(NewChunk(t, c), parent, child, c)
    BY <1>5 DEF InsertKid
  <2>2. /\ c \in PropChunks \ t.held
        /\ v \in TreesOf(labels) /\ Kept(t, v) /\ v.up = t.up /\ v.kid = t.kid /\ v.list = t.list
        /\ \A d \in PropChunks : d # c => v.chunk[d] = t.chunk[d]
        /\ \A i \in KidSlots : v.chunk[c][i] = 0
        /\ Linked(v, loose, spare \cup {c})
        /\ FirstPlace(v, parent, {0}) = NoPlace
    BY <1>5, NewChunkIs DEF gap
  <2>20. t.held \subseteq v.held
    BY DEF NewChunk, TreesOf
  <2> HIDE DEF v, c
  <2>3. /\ KidAttached(labels, v, u, loose, spare \cup {c}, parent, child, c)
        /\ Linked(u, loose \ {child}, (spare \cup {c}) \ {c})
    <3>1. CASE v.kid[parent] = 0
      BY <2>2, <3>1, ChunkAppended
    <3>2. CASE v.kid[parent] # 0
      BY <2>2, <3>2, ChunkOfTwo
    <3> QED
      BY <3>1, <3>2
  <2> HIDE DEF u
  <2>4. spare \subseteq t.held /\ t.held \subseteq PropChunks
    BY DEF Linked, Holding, TreesOf
  <2>5. (spare \cup {c}) \ {c} = spare
    BY <2>2, <2>4
  <2>7. Linked(u, loose \ {child}, spare)
    BY <2>3, <2>5
  <2>8. Kept(t, u)
    BY <2>2, <2>3 DEF KidAttached, Kept
  <2>9. KidAttached(labels, t, u, loose, spare, parent, child, swept)
    BY <2>2, <2>20, <2>3, <2>4, <2>7, <2>8 DEF KidAttached
  <2>10. r.ok = TRUE
    BY <1>00, <2>1
  <2>11. r.tree = u
    BY <2>1 DEF u, v
  <2> HIDE DEF r
  <2>12. KidAttached(labels, t, r.tree, loose, spare, parent, child, swept)
    BY <2>9, <2>11
  <2> QED
    BY <2>10, <2>12 DEF r, gap
<1> QED
  BY <1>1, <1>2, <1>3, <1>4, <1>5 DEF gap

\* A node leaves the kids of parent.
LEMMA Detached ==
  ASSUME NEW labels, NEW t \in TreesOf(labels), NEW u \in TreesOf(labels), NEW loose, NEW spare,
         Linked(t, loose, spare), NEW parent \in Nodes, NEW child \in Nodes, t.up[child] = parent,
         u.up = t.up, \A q \in Nodes : q # parent => Alike(t, u, q),
         \A n \in Nodes : KidIn(u, parent, n) <=> KidIn(t, parent, n) /\ n # child,
         ChunksSound(u, parent)
  PROVE  /\ UpLinked(u, loose \cup {child}) /\ KidLinked(u, loose \cup {child})
         /\ \A p \in Nodes : ChunksSound(u, p)
<1>1. UpLinked(t, loose) /\ KidLinked(t, loose) /\ \A p \in Nodes : ChunksSound(t, p)
  BY DEF Linked
<1>2. t.up \in [Nodes -> Nodes \cup {0}]
  BY DEF TreesOf
<1>3. \A p, n \in Nodes : KidIn(u, p, n) <=> KidIn(t, p, n) /\ n # child
  <2>1. ASSUME NEW p \in Nodes, p # parent PROVE ~KidIn(t, p, child)
    BY <1>1, <2>1 DEF KidLinked
  <2> QED
    BY <2>1, AlikeKids
<1>4. UpLinked(u, loose \cup {child})
  BY <1>1, <1>2, <1>3 DEF UpLinked
<1>5. KidLinked(u, loose \cup {child})
  BY <1>1, <1>3 DEF KidLinked
<1>6. \A p \in Nodes : ChunksSound(u, p)
  BY <1>1, AlikeKids
<1> QED
  BY <1>4, <1>5, <1>6

LEMMA Shortened ==
  ASSUME NEW labels, NEW t \in TreesOf(labels), NEW u \in TreesOf(labels), NEW spare,
         Apart(t), Holding(t, spare), NEW parent \in Nodes, t.list[parent] # <<>>, u.held = t.held,
         u.list = [t.list EXCEPT ![parent] = Front(t.list[parent])]
  PROVE  LET c == Last(t.list[parent]) IN
         Apart(u) /\ Holding(u, spare \cup {c}) /\ c \in t.held \ spare
<1> DEFINE L == t.list[parent]
           c == Last(L)
<1>1. L \in Seq(PropChunks) /\ DOMAIN L = 1..Len(L) /\ Len(L) \in Nat /\ Len(L) > 0
  BY ListTyped
<1>2. /\ DOMAIN Front(L) = 1..Len(L) - 1 /\ \A k \in 1..Len(L) - 1 : Front(L)[k] = L[k]
      /\ c = L[Len(L)] /\ Len(L) \in DOMAIN L
  BY <1>1 DEF Front, Last
<1>3. /\ \A p \in Nodes : p # parent => u.list[p] = t.list[p]
      /\ u.list[parent] = Front(L)
  BY DEF TreesOf
<1>4. \A p \in Nodes : \A k \in DOMAIN u.list[p] :
        k \in DOMAIN t.list[p] /\ u.list[p][k] = t.list[p][k] /\ (p = parent => k # Len(L))
  BY <1>1, <1>2, <1>3
<1> HIDE DEF L, c
<1>5. Apart(u)
  BY <1>4 DEF Apart
<1>6. c \in t.held \ spare
  BY <1>2 DEF Holding, L
<1>7. \A p \in Nodes : \A k \in DOMAIN u.list[p] : u.list[p][k] # c
  <2>1. \A p \in Nodes : \A k \in DOMAIN t.list[p] : t.list[p][k] = c => p = parent /\ k = Len(L)
    BY <1>2 DEF Apart, L
  <2> QED
    BY <1>4, <2>1
<1>8. \A p \in Nodes : \A k \in DOMAIN u.list[p] : u.list[p][k] \in u.held \ (spare \cup {c})
  BY <1>4, <1>7 DEF Holding
<1>9. ASSUME NEW d \in u.held \ (spare \cup {c})
      PROVE  \E p \in Nodes : \E k \in DOMAIN u.list[p] : u.list[p][k] = d
  <2>0. PICK p \in Nodes : \E k \in DOMAIN t.list[p] : t.list[p][k] = d
    BY DEF Holding
  <2>1. PICK k \in DOMAIN t.list[p] : t.list[p][k] = d
    BY <2>0
  <2>2. ~(p = parent /\ k = Len(L))
    BY <1>2, <2>1 DEF L
  <2>3. k \in DOMAIN u.list[p] /\ u.list[p][k] = d
    BY <1>1, <1>2, <1>3, <2>1, <2>2 DEF L
  <2> QED
    BY <2>3
<1> QED
  BY <1>5, <1>6, <1>8, <1>9 DEF Holding, c, L

\* What the ways to take child out of the kids of parent have in common; c
\* is the chunk that has become empty, 0 if there is none.
KidDetached(labels, t, u, loose, spare, parent, child, c) ==
  /\ u \in TreesOf(labels) /\ Kept(t, u) /\ u.up = t.up
  /\ \A q \in Nodes : q # parent => Alike(t, u, q)
  /\ \A d \in spare : u.chunk[d] = t.chunk[d]
  /\ u.kid[parent] = 0
  /\ \/ /\ c = 0 /\ Linked(u, loose \cup {child}, spare)
        /\ u.list[parent] = <<>> \/ \E k \in DOMAIN u.list[parent], i \in KidSlots : u.chunk[u.list[parent][k]][i] = 0
     \/ /\ c \in t.held \ spare /\ Linked(u, loose \cup {child}, spare \cup {c})
        /\ \A i \in KidSlots : u.chunk[c][i] = 0

LEMMA OnlyKidRemoved ==
  ASSUME NEW labels, NEW t \in TreesOf(labels), NEW loose, NEW spare, Linked(t, loose, spare),
         NEW parent \in Nodes, NEW child \in Nodes, t.up[child] = parent, t.kid[parent] = child
  PROVE  KidDetached(labels, t, [t EXCEPT !.kid[parent] = 0], loose, spare, parent, child, 0)
<1> DEFINE u == [t EXCEPT !.kid[parent] = 0]
<1>1. /\ u \in TreesOf(labels) /\ Kept(t, u) /\ u.up = t.up /\ u.kid = [t.kid EXCEPT ![parent] = 0]
      /\ u.list = t.list /\ u.chunk = t.chunk /\ u.held = t.held
  BY DEF TreesOf, Kept
<1> HIDE DEF u
<1>2. u.kid[parent] = 0 /\ \A q \in Nodes : q # parent => Alike(t, u, q)
  BY <1>1 DEF Alike, TreesOf
<1>3. ChunksSound(t, parent) /\ child # 0 /\ \A n \in Nodes : n # 0
  BY DEF Linked, Nodes
<1>4. t.list[parent] = <<>>
  BY <1>3 DEF ChunksSound
<1>5. \A n \in Nodes : KidIn(u, parent, n) <=> KidIn(t, parent, n) /\ n # child
  <2>1. DOMAIN t.list[parent] = {}
    BY <1>4
  <2> QED
    BY <1>1, <1>2, <1>3, <2>1 DEF KidIn
<1>6. ChunksSound(u, parent)
  BY <1>1, <1>2, <1>3 DEF ChunksSound
<1>7. UpLinked(u, loose \cup {child}) /\ KidLinked(u, loose \cup {child}) /\ \A p \in Nodes : ChunksSound(u, p)
  <2>1. u \in TreesOf(labels) /\ u.up = t.up /\ \A q \in Nodes : q # parent => Alike(t, u, q)
    BY <1>1, <1>2
  <2> QED
    BY <1>5, <1>6, <2>1, Detached
<1>8. Apart(u) /\ Holding(u, spare)
  BY <1>1 DEF Linked, Apart, Holding
<1>9. Linked(u, loose \cup {child}, spare)
  BY <1>7, <1>8 DEF Linked
<1> QED
  BY <1>1, <1>2, <1>4, <1>9 DEF KidDetached, u

LEMMA RemovedFromChunk ==
  ASSUME NEW labels, NEW t \in TreesOf(labels), NEW loose, NEW spare, Linked(t, loose, spare),
         NEW parent \in Nodes, NEW child \in Nodes, t.up[child] = parent, t.kid[parent] # child,
         KidIn(t, parent, child)
  PROVE  LET r == RemoveFromChunk(t, parent, FirstPlace(t, parent, {child}), Last(t.list[parent]),
                                  Filled(t, Last(t.list[parent])))
         IN /\ KidDetached(labels, t, r.tree, loose, spare, parent, child, r.chunk)
            /\ FirstPlace(t, parent, {child}) # NoPlace
<1> DEFINE L == t.list[parent]
           end == Last(L)
           f == Filled(t, end)
           place == FirstPlace(t, parent, {child})
<1>1. PICK k \in DOMAIN L, i \in KidSlots : place = <<L[k], i>> /\ t.chunk[L[k]][i] = child
  <2>1. \E m \in DOMAIN L : \E j \in KidSlots : t.chunk[L[m]][j] = child
    BY DEF KidIn
  <2> QED
    BY <2>1, FirstPlaceIs
<1>2. L \in Seq(PropChunks) /\ DOMAIN L = 1..Len(L) /\ Len(L) \in Nat /\ \A l \in DOMAIN L : L[l] \in PropChunks
  BY ListTyped
<1>3. Len(L) \in DOMAIN L /\ end = L[Len(L)] /\ end \in PropChunks /\ L # <<>>
  BY <1>1, <1>2 DEF Last
<1>4. f \in 0..KidsPerChunk /\ (\A j \in 1..f : t.chunk[end][j] # 0)
      /\ (f < KidsPerChunk => t.chunk[end][f + 1] = 0)
  BY <1>3, FilledIs
<1> DEFINE X == t.chunk[end][f]
           w == WithKid(t, place, X)
           v == WithKid(w, <<end, f>>, 0)
           r == RemoveFromChunk(t, parent, place, end, f)
<1> HIDE DEF f, place, end
<1>5. ChunksSound(t, parent) /\ child # 0 /\ \A n \in Nodes : n # 0
  BY DEF Linked, Nodes
<1>6. /\ \A m, l \in DOMAIN L, g, j \in KidSlots :
            t.chunk[L[m]][g] = t.chunk[L[l]][j] => t.chunk[L[m]][g] = 0 \/ (m = l /\ g = j)
      /\ \A m \in DOMAIN L, g \in KidSlots : t.chunk[L[m]][g] = 0 =>
             m = Len(L) /\ g > 1 /\ \A j \in g..KidsPerChunk : t.chunk[L[m]][j] = 0
      /\ t.kid[parent] # 0 => L = <<>>
  BY <1>5 DEF ChunksSound
<1>60. \A m, l \in DOMAIN L, g, j \in KidSlots :
         t.chunk[L[m]][g] = t.chunk[L[l]][j] => t.chunk[L[m]][g] = 0 \/ (m = l /\ g = j)
  BY <1>6
<1>7. KidsPerChunk \in Nat /\ KidsPerChunk > 1 /\ KidSlots = 1..KidsPerChunk
  BY TreeAssumption DEF KidSlots
<1>8. f \in KidSlots
  <2>1. f # 0
    <3>1. SUFFICES ASSUME f = 0 PROVE FALSE
      OBVIOUS
    <3>2. t.chunk[end][1] = 0 /\ 1 \in KidSlots
      BY <1>4, <1>7, <3>1
    <3> QED
      BY <1>3, <1>6, <3>2
  <2> QED
    BY <1>4, <1>7, <2>1
<1>9. \A j \in KidSlots : t.chunk[end][j] = 0 <=> j > f
  <2>1. ASSUME NEW j \in KidSlots, j > f PROVE t.chunk[end][j] = 0
    <3>1. f + 1 \in KidSlots /\ t.chunk[end][f + 1] = 0 /\ j \in f + 1..KidsPerChunk
      BY <1>4, <1>7, <1>8, <2>1
    <3> QED
      BY <1>3, <1>6, <3>1
  <2>2. ASSUME NEW j \in KidSlots, ~(j > f) PROVE t.chunk[end][j] # 0
    BY <1>4, <1>7, <1>8, <2>2
  <2> QED
    BY <2>1, <2>2
<1>10. X \in Nodes
  <2>1. X \in Nodes \cup {0}
    BY <1>3, <1>8 DEF TreesOf
  <2>2. ~(f > f)
    BY <1>7, <1>8
  <2>3. X # 0
    BY <1>8, <1>9, <2>2
  <2> QED
    BY <2>1, <2>3
<1>11. /\ w \in TreesOf(labels) /\ Kept(t, w) /\ w.up = t.up /\ w.kid = t.kid /\ w.list = t.list /\ w.held = t.held
       /\ \A d \in PropChunks, j \in KidSlots : w.chunk[d][j] = IF d = L[k] /\ j = i THEN X ELSE t.chunk[d][j]
  <2>1. w = WithKid(t, <<L[k], i>>, X) /\ L[k] \in PropChunks /\ X \in Nodes \cup {0}
    BY <1>1, <1>2, <1>10
  <2> HIDE DEF w, X
  <2>2. L[k] \in PropChunks /\ i \in KidSlots /\ X \in Nodes \cup {0} /\ t \in TreesOf(labels)
    BY <1>2, <2>1
  <2> DEFINE c == L[k]
  <2>3. c \in PropChunks /\ w = WithKid(t, <<c, i>>, X)
    BY <2>1
  <2> HIDE DEF c
  <2>4. /\ w \in TreesOf(labels) /\ Kept(t, w) /\ w.up = t.up /\ w.kid = t.kid /\ w.list = t.list /\ w.held = t.held
        /\ \A d \in PropChunks, j \in KidSlots : w.chunk[d][j] = IF d = c /\ j = i THEN X ELSE t.chunk[d][j]
    BY <2>2, <2>3, WithKidIs
  <2> QED
    BY <2>4 DEF c
<1> HIDE DEF w
<1>12. /\ v \in TreesOf(labels) /\ Kept(t, v) /\ v.up = t.up /\ v.kid = t.kid /\ v.list = t.list /\ v.held = t.held
       /\ \A d \in PropChunks, j \in KidSlots : v.chunk[d][j] =
            IF d = end /\ j = f THEN 0 ELSE IF d = L[k] /\ j = i THEN X ELSE t.chunk[d][j]
  <2>1. /\ v \in TreesOf(labels) /\ Kept(w, v) /\ v.up = w.up /\ v.kid = w.kid /\ v.list = w.list /\ v.held = w.held
        /\ \A d \in PropChunks, j \in KidSlots : v.chunk[d][j] = IF d = end /\ j = f THEN 0 ELSE w.chunk[d][j]
    BY <1>3, <1>8, <1>11, WithKidIs
  <2> QED
    BY <1>11, <2>1 DEF Kept
<1>13. \A l, m \in DOMAIN L : L[l] = L[m] <=> l = m
  BY DEF Linked, Apart
<1>14. \A l \in DOMAIN L, j \in KidSlots : v.chunk[L[l]][j] =
            IF l = Len(L) /\ j = f THEN 0 ELSE IF l = k /\ j = i THEN X ELSE t.chunk[L[l]][j]
  <2>1. \A l \in DOMAIN L : L[l] \in PropChunks /\ (L[l] = end <=> l = Len(L)) /\ (L[l] = L[k] <=> l = k)
    BY <1>2, <1>3, <1>13
  <2> QED
    BY <1>12, <2>1
<1>15. r = IF f = 1 THEN [tree |-> [v EXCEPT !.list[parent] = Front(@)], chunk |-> end]
           ELSE [tree |-> v, chunk |-> 0]
  BY DEF RemoveFromChunk, v, w
<1> HIDE DEF v
<1>16. t.kid[parent] = 0
  BY <1>3, <1>6
<1>17. \A q \in Nodes : q # parent => \A l \in DOMAIN t.list[q] :
         v.chunk[t.list[q][l]] = t.chunk[t.list[q][l]]
  <2>1. ASSUME NEW q \in Nodes, q # parent, NEW l \in DOMAIN t.list[q]
        PROVE  t.list[q][l] \in PropChunks /\ t.list[q][l] # end /\ t.list[q][l] # L[k]
    BY <1>3, <2>1, ListTyped DEF Linked, Apart
  <2>2. ASSUME NEW d \in PropChunks, d # end, d # L[k] PROVE v.chunk[d] = t.chunk[d]
    <3>1. t.chunk \in [PropChunks -> [KidSlots -> Nodes \cup {0}]] /\ v.chunk \in [PropChunks -> [KidSlots -> Nodes \cup {0}]]
      BY <1>12 DEF TreesOf
    <3> QED
      BY <1>12, <2>2, <3>1
  <2> QED
    BY <2>1, <2>2
<1>18. \A d \in spare : v.chunk[d] = t.chunk[d]
  <2>1. ASSUME NEW d \in spare PROVE d \in PropChunks /\ d # end /\ d # L[k]
    BY <1>3 DEF Linked, Holding, TreesOf
  <2>2. t.chunk \in [PropChunks -> [KidSlots -> Nodes \cup {0}]] /\ v.chunk \in [PropChunks -> [KidSlots -> Nodes \cup {0}]]
    BY <1>12 DEF TreesOf
  <2> QED
    BY <1>12, <2>1, <2>2
<1>19. \A n \in Nodes : (\E l \in DOMAIN L : \E j \in KidSlots : v.chunk[L[l]][j] = n)
                        <=> KidIn(t, parent, n) /\ n # child
  <2>1. ASSUME NEW n \in Nodes, NEW l \in DOMAIN L, NEW j \in KidSlots, v.chunk[L[l]][j] = n
        PROVE  KidIn(t, parent, n) /\ n # child
    <3>1. CASE l = k /\ j = i
      <4>1. n = X /\ ~(k = Len(L) /\ i = f)
        BY <1>5, <1>14, <2>1, <3>1
      <4>2. t.chunk[L[Len(L)]][f] = n
        BY <1>3, <4>1
      <4>3. KidIn(t, parent, n)
        BY <1>3, <1>8, <4>2 DEF KidIn
      <4>4. n # child
        BY <1>1, <1>3, <1>5, <1>60, <1>8, <4>1, <4>2, SMTT(60)
      <4> QED
        BY <4>3, <4>4
    <3>2. CASE ~(l = k /\ j = i)
      <4>1. t.chunk[L[l]][j] = n
        BY <1>5, <1>14, <2>1, <3>2
      <4>2. n # child
        BY <1>1, <1>5, <1>6, <3>2, <4>1
      <4> QED
        BY <4>1, <4>2 DEF KidIn
    <3> QED
      BY <3>1, <3>2
  <2>2. ASSUME NEW n \in Nodes, KidIn(t, parent, n), n # child
        PROVE  \E l \in DOMAIN L : \E j \in KidSlots : v.chunk[L[l]][j] = n
    <3>1. PICK l \in DOMAIN L, j \in KidSlots : t.chunk[L[l]][j] = n
      BY <1>5, <1>16, <2>2 DEF KidIn
    <3>2. CASE l = Len(L) /\ j = f
      <4>1. n = X
        BY <1>3, <3>1, <3>2
      <4>2. ~(k = Len(L) /\ i = f)
        BY <1>1, <2>2, <3>1, <3>2
      <4>3. v.chunk[L[k]][i] = n
        BY <1>14, <4>1, <4>2
      <4> QED
        BY <4>3
    <3>3. CASE ~(l = Len(L) /\ j = f)
      <4>1. ~(l = k /\ j = i)
        BY <1>1, <2>2, <3>1
      <4> QED
        BY <1>14, <3>1, <3>3, <4>1
    <3> QED
      BY <3>2, <3>3
  <2> QED
    BY <2>1, <2>2
<1>20. \A m, l \in DOMAIN L, g, j \in KidSlots :
            v.chunk[L[m]][g] = v.chunk[L[l]][j] => v.chunk[L[m]][g] = 0 \/ (m = l /\ g = j)
  <2>1. ASSUME NEW m \in DOMAIN L, NEW l \in DOMAIN L, NEW g \in KidSlots, NEW j \in KidSlots,
               v.chunk[L[m]][g] = v.chunk[L[l]][j], ~(m = l /\ g = j), v.chunk[L[m]][g] # 0
        PROVE  FALSE
    <3>1. X = t.chunk[L[Len(L)]][f]
      BY <1>3
    <3>2. ~(m = Len(L) /\ g = f) /\ ~(l = Len(L) /\ j = f)
      BY <1>14, <2>1
    <3>3. CASE m = k /\ g = i
      <4>1. v.chunk[L[l]][j] = t.chunk[L[l]][j] /\ t.chunk[L[l]][j] = X
        BY <1>14, <2>1, <3>2, <3>3
      <4> QED
        BY <1>3, <1>5, <1>60, <1>8, <1>10, <3>1, <3>2, <4>1, SMTT(60)
    <3>4. CASE l = k /\ j = i
      <4>1. v.chunk[L[m]][g] = t.chunk[L[m]][g] /\ t.chunk[L[m]][g] = X
        BY <1>14, <2>1, <3>2, <3>4
      <4> QED
        BY <1>3, <1>5, <1>60, <1>8, <1>10, <3>1, <3>2, <4>1, SMTT(60)
    <3>5. CASE ~(m = k /\ g = i) /\ ~(l = k /\ j = i)
      <4>1. v.chunk[L[m]][g] = t.chunk[L[m]][g] /\ v.chunk[L[l]][j] = t.chunk[L[l]][j]
        BY <1>14, <3>2, <3>5
      <4>2. t.chunk[L[m]][g] = t.chunk[L[l]][j] /\ t.chunk[L[m]][g] # 0
        BY <2>1, <4>1
      <4>3. m = l /\ g = j
        BY <1>60, <4>2
      <4> QED
        BY <2>1, <4>3
    <3> QED
      BY <3>3, <3>4, <3>5
  <2> QED
    BY <2>1
<1>21. \A m \in DOMAIN L, g \in KidSlots : v.chunk[L[m]][g] = 0 <=> m = Len(L) /\ g >= f
  <2>1. ASSUME NEW m \in DOMAIN L, NEW g \in KidSlots PROVE t.chunk[L[m]][g] = 0 <=> m = Len(L) /\ g > f
    BY <1>3, <1>6, <1>9
  <2>2. X # 0 /\ ~(k = Len(L) /\ i > f)
    BY <1>1, <1>5, <1>10, <2>1
  <2>3. \A g \in KidSlots : g >= f <=> g > f \/ g = f
    BY <1>7, <1>8
  <2> QED
    BY <1>14, <2>1, <2>2, <2>3
<1>22. CASE f # 1
  <2>1. r.tree = v /\ r.chunk = 0
    BY <1>15, <1>22
  <2>2. \A q \in Nodes : q # parent => Alike(t, v, q)
    BY <1>12, <1>17 DEF Alike
  <2>3. \A n \in Nodes : KidIn(v, parent, n) <=> KidIn(t, parent, n) /\ n # child
    BY <1>5, <1>12, <1>16, <1>19, SMTT(60) DEF KidIn
  <2>4. ChunksSound(v, parent)
    <3>1. ASSUME NEW m \in DOMAIN L, NEW g \in KidSlots, v.chunk[L[m]][g] = 0
          PROVE  m = Len(L) /\ g > 1 /\ \A j \in g..KidsPerChunk : v.chunk[L[m]][j] = 0
      <4>1. m = Len(L) /\ g >= f
        BY <1>21, <3>1
      <4>2. g > 1 /\ \A j \in g..KidsPerChunk : j \in KidSlots /\ j >= f
        BY <1>7, <1>8, <1>22, <4>1
      <4> QED
        BY <1>21, <4>1, <4>2
    <3> QED
      BY <1>12, <1>16, <1>20, <3>1 DEF ChunksSound
  <2>5. UpLinked(v, loose \cup {child}) /\ KidLinked(v, loose \cup {child}) /\ \A p \in Nodes : ChunksSound(v, p)
    BY <1>12, <2>2, <2>3, <2>4, Detached
  <2>6. Apart(v) /\ Holding(v, spare)
    BY <1>12 DEF Linked, Apart, Holding
  <2>7. v.chunk[v.list[parent][Len(L)]][f] = 0 /\ Len(L) \in DOMAIN v.list[parent]
    BY <1>3, <1>8, <1>12, <1>14
  <2>8. \E l \in DOMAIN v.list[parent], j \in KidSlots : v.chunk[v.list[parent][l]][j] = 0
    BY <1>8, <2>7
  <2>9. Linked(v, loose \cup {child}, spare)
    BY <2>5, <2>6 DEF Linked
  <2>10. KidDetached(labels, t, v, loose, spare, parent, child, 0)
    BY <1>12, <1>16, <1>18, <2>2, <2>8, <2>9, Zenon DEF KidDetached
  <2> QED
    BY <1>1, <1>2, <2>1, <2>10, PlaceIsSome DEF r, place, f, end
<1>23. CASE f = 1
  <2> DEFINE u == [v EXCEPT !.list[parent] = Front(@)]
  <2>1. r.tree = u /\ r.chunk = end
    BY <1>15, <1>23
  <2>2. /\ Front(L) \in Seq(PropChunks) /\ DOMAIN Front(L) = 1..Len(L) - 1 /\ Len(Front(L)) = Len(L) - 1
        /\ \A l \in 1..Len(L) - 1 : Front(L)[l] = L[l]
    BY <1>2, <1>3 DEF Front
  <2>3. /\ u \in TreesOf(labels) /\ Kept(t, u) /\ u.up = t.up /\ u.kid = t.kid /\ u.chunk = v.chunk /\ u.held = t.held
        /\ u.list = [t.list EXCEPT ![parent] = Front(L)]
    BY <1>12, <2>2 DEF TreesOf, Kept
  <2> HIDE DEF u
  <2>4. u.list[parent] = Front(L) /\ \A q \in Nodes : q # parent => Alike(t, u, q)
    BY <1>17, <2>3 DEF Alike, TreesOf
  <2>5. \A l \in DOMAIN Front(L) : l \in DOMAIN L /\ l # Len(L) /\ Front(L)[l] = L[l]
    BY <1>2, <2>2
  <2>6. \A l \in DOMAIN L : l # Len(L) => l \in DOMAIN Front(L)
    BY <1>2, <2>2
  <2>7. \A l \in DOMAIN Front(L), j \in KidSlots : v.chunk[Front(L)[l]][j] # 0
    BY <1>21, <2>5
  <2>8. \A j \in KidSlots : v.chunk[end][j] = 0
    BY <1>3, <1>7, <1>21, <1>23
  <2>9. \A n \in Nodes : KidIn(u, parent, n) <=> KidIn(t, parent, n) /\ n # child
    <3>1. ASSUME NEW n \in Nodes
          PROVE  (\E l \in DOMAIN L : \E j \in KidSlots : v.chunk[L[l]][j] = n)
                 <=> (\E l \in DOMAIN Front(L) : \E j \in KidSlots : v.chunk[Front(L)[l]][j] = n)
      BY <1>3, <1>5, <2>5, <2>6, <2>8
    <3>2. ASSUME NEW n \in Nodes PROVE KidIn(u, parent, n) <=> KidIn(t, parent, n) /\ n # child
      <4>1. u.kid[parent] = 0 /\ t.kid[parent] = 0
        BY <1>16, <2>3
      <4>2. KidIn(u, parent, n) <=> n = 0 \/ (\E l \in DOMAIN Front(L) : \E j \in KidSlots : v.chunk[Front(L)[l]][j] = n)
        BY <2>3, <2>4, <4>1 DEF KidIn
      <4>3. KidIn(t, parent, n) <=> n = 0 \/ (\E l \in DOMAIN L : \E j \in KidSlots : t.chunk[L[l]][j] = n)
        BY <4>1 DEF KidIn
      <4>4. n # 0
        BY DEF Nodes
      <4> QED
        BY <1>19, <3>1, <4>2, <4>3, <4>4
    <3> QED
      BY <3>2
  <2>10. ChunksSound(u, parent)
    <3>1. \A m, l \in DOMAIN Front(L), g, j \in KidSlots :
            u.chunk[Front(L)[m]][g] = u.chunk[Front(L)[l]][j] => u.chunk[Front(L)[m]][g] = 0 \/ (m = l /\ g = j)
      BY <1>20, <2>3, <2>5
    <3> QED
      BY <1>16, <2>3, <2>4, <2>7, <3>1, SMTT(60) DEF ChunksSound
  <2>11. UpLinked(u, loose \cup {child}) /\ KidLinked(u, loose \cup {child}) /\ \A p \in Nodes : ChunksSound(u, p)
    BY <2>3, <2>4, <2>9, <2>10, Detached
  <2>12. Apart(u) /\ Holding(u, spare \cup {end}) /\ end \in t.held \ spare
    <3>1. Apart(t) /\ Holding(t, spare) /\ t.list[parent] # <<>>
      BY <1>3 DEF Linked
    <3>2. u \in TreesOf(labels) /\ u.held = t.held /\ u.list = [t.list EXCEPT ![parent] = Front(t.list[parent])]
      BY <2>3
    <3> QED
      <4>1. /\ Apart(u) /\ Holding(u, spare \cup {Last(t.list[parent])})
            /\ Last(t.list[parent]) \in t.held \ spare
        <5> HIDE DEF L
        <5> QED
          BY <3>1, <3>2, Shortened
      <4> QED
        BY <4>1 DEF end
  <2>13. Linked(u, loose \cup {child}, spare \cup {end})
    BY <2>11, <2>12 DEF Linked
  <2>14. u.kid[parent] = 0 /\ (\A d \in spare : u.chunk[d] = t.chunk[d]) /\ \A j \in KidSlots : u.chunk[end][j] = 0
    BY <1>16, <1>18, <2>3, <2>8
  <2>15. KidDetached(labels, t, u, loose, spare, parent, child, end)
    BY <2>3, <2>4, <2>12, <2>13, <2>14 DEF KidDetached
  <2> QED
    BY <1>1, <1>2, <2>1, <2>15, PlaceIsSome DEF r, place, f, end
<1> QED
  BY <1>22, <1>23

LEMMA KidRemoved ==
  ASSUME NEW labels, NEW t \in TreesOf(labels), NEW loose, NEW spare, Linked(t, loose, spare),
         NEW parent \in Nodes, NEW child \in Nodes, t.up[child] = parent, child \notin loose
  PROVE  LET r == RemoveKid(t, parent, child, FirstPlace(t, parent, {child})) IN
         KidDetached(labels, t, r.tree, loose, spare, parent, child, r.chunk)
<1>1. KidIn(t, parent, child)
  BY DEF Linked, UpLinked, Nodes
<1>2. CASE t.kid[parent] = child
  BY <1>2, OnlyKidRemoved DEF RemoveKid
<1>3. CASE t.kid[parent] # child
  <2>1. FirstPlace(t, parent, {child}) # NoPlace
    BY <1>1, <1>3, RemovedFromChunk
  <2>2. RemoveKid(t, parent, child, FirstPlace(t, parent, {child}))
        = RemoveFromChunk(t, parent, FirstPlace(t, parent, {child}), Last(t.list[parent]),
                          Filled(t, Last(t.list[parent])))
    BY <1>3, <2>1 DEF RemoveKid
  <2> QED
    BY <1>1, <1>3, <2>2, RemovedFromChunk
<1> QED
  BY <1>2, <1>3

\* The roots that a search finds are live, have no parent and are not alike.
Rooted(t) ==
  /\ \A r \in t.roots : t.label[r] # NoLabel /\ t.up[r] = 0
  /\ \A r, s \in t.roots : t.label[r] = t.label[s] => r = s

MadeRoot(labels, t, u, child) ==
  /\ u \in TreesOf(labels) /\ u.label = t.label /\ u.bare = t.bare /\ u.kid = t.kid
  /\ u.list = t.list /\ u.chunk = t.chunk /\ u.held = t.held
  /\ u.up = [t.up EXCEPT ![child] = 0] /\ Rooted(u) /\ u.roots \subseteq t.roots \cup {child}
  /\ u.fault = t.fault \/ u.fault = "crash"

LEMMA RootInserted ==
  ASSUME NEW labels, NEW t \in TreesOf(labels), Rooted(t), NEW child \in Nodes,
         t.label[child] # NoLabel
  PROVE  LET r == InsertRoot(t, child)
             u == Raised(r, child)
         IN /\ MadeRoot(labels, t, u, child)
            /\ r.ok => u = r.tree
            /\ ~r.ok => r.tree = t
            /\ r.ok \in BOOLEAN
<1> DEFINE r == InsertRoot(t, child)
           u == Raised(r, child)
<1>1. CASE t.fault = "hash"
  <2>1. r = [tree |-> t, ok |-> FALSE]
    BY <1>1 DEF InsertRoot, NotInserted
  <2>2. u = [t EXCEPT !.up[child] = 0]
    BY <2>1 DEF Raised
  <2>3. /\ u \in TreesOf(labels) /\ u.label = t.label /\ u.bare = t.bare /\ u.kid = t.kid
        /\ u.list = t.list /\ u.chunk = t.chunk /\ u.held = t.held /\ u.fault = t.fault
        /\ u.up = [t.up EXCEPT ![child] = 0] /\ u.roots = t.roots
    <3>1. [t.up EXCEPT ![child] = 0] \in [Nodes -> Nodes \cup {0}]
      BY DEF TreesOf
    <3>2. u = [t EXCEPT !.fault = t.fault, !.up = [t.up EXCEPT ![child] = 0]]
      BY <2>2 DEF TreesOf
    <3> HIDE DEF u
    <3> QED
      BY <3>1, <3>2 DEF TreesOf
  <2>4. r.ok = FALSE /\ r.tree = t
    BY <2>1
  <2> HIDE DEF u, r
  <2>5. Rooted(u)
    BY <2>3 DEF Rooted, TreesOf
  <2> QED
    BY <2>3, <2>4, <2>5 DEF u, r, MadeRoot
<1>2. CASE t.fault # "hash" /\ t.label[child] \in t.bare
  <2>1. r.tree = [[t EXCEPT !.fault = "crash"] EXCEPT !.up[child] = 0] /\ r.ok = TRUE
    BY <1>2 DEF InsertRoot, Inserted
  <2>2. u = r.tree
    BY <2>1 DEF Raised
  <2>3. u = [t EXCEPT !.fault = "crash", !.up = [t.up EXCEPT ![child] = 0]]
    BY <2>1, <2>2 DEF TreesOf
  <2> HIDE DEF u, r
  <2>4. /\ u \in TreesOf(labels) /\ u.label = t.label /\ u.bare = t.bare /\ u.kid = t.kid
        /\ u.list = t.list /\ u.chunk = t.chunk /\ u.held = t.held /\ u.fault = "crash"
        /\ u.up = [t.up EXCEPT ![child] = 0] /\ u.roots = t.roots
    <3>1. [t.up EXCEPT ![child] = 0] \in [Nodes -> Nodes \cup {0}]
      BY DEF TreesOf
    <3>2. u = [t EXCEPT !.fault = "crash", !.up = [t.up EXCEPT ![child] = 0]]
      BY <2>3 DEF TreesOf
    <3>3. "crash" \in Failures \cup {"crash"}
      OBVIOUS
    <3> HIDE DEF u
    <3>4. u \in TreesOf(labels)
      BY <3>1, <3>2, <3>3 DEF TreesOf
    <3> QED
      BY <3>1, <3>2, <3>4 DEF TreesOf
  <2>5. Rooted(u)
    BY <2>4 DEF Rooted, TreesOf
  <2> QED
    BY <2>1, <2>2, <2>4, <2>5 DEF u, r, MadeRoot
<1>3. CASE t.fault # "hash" /\ t.label[child] \notin t.bare
  <2> DEFINE v == IF \E q \in t.roots : t.label[q] = t.label[child] THEN t
                  ELSE [t EXCEPT !.roots = @ \cup {child}]
  <2>1. r = Inserted(v, 0, child)
    BY <1>3 DEF InsertRoot
  <2>2. v = [t EXCEPT !.roots = v.roots]
        /\ v.roots = (IF \E q \in t.roots : t.label[q] = t.label[child] THEN t.roots ELSE t.roots \cup {child})
    BY DEF TreesOf
  <2> HIDE DEF v
  <2>3. r.tree = [t EXCEPT !.roots = v.roots, !.up = [t.up EXCEPT ![child] = 0]] /\ r.ok = TRUE
    <3>1. r.tree = [v EXCEPT !.up[child] = 0] /\ r.ok = TRUE
      BY <2>1 DEF Inserted
    <3>2. v.up = t.up
      BY <2>2 DEF TreesOf
    <3> HIDE DEF r
    <3> QED
      BY <2>2, <3>1, <3>2 DEF TreesOf
  <2>4. u = r.tree
    BY <2>3 DEF Raised
  <2> HIDE DEF u, r
  <2>5. v.roots \subseteq Nodes /\ \A q \in v.roots : q \in t.roots \/ q = child
    BY <2>2 DEF TreesOf
  <2>6. /\ u \in TreesOf(labels) /\ u.label = t.label /\ u.bare = t.bare /\ u.kid = t.kid
        /\ u.list = t.list /\ u.chunk = t.chunk /\ u.held = t.held /\ u.fault = t.fault
        /\ u.up = [t.up EXCEPT ![child] = 0] /\ u.roots = v.roots
    <3>1. [t.up EXCEPT ![child] = 0] \in [Nodes -> Nodes \cup {0}]
      BY DEF TreesOf
    <3>2. u = [t EXCEPT !.roots = v.roots, !.up = [t.up EXCEPT ![child] = 0]]
      BY <2>3, <2>4
    <3> QED
      BY <2>5, <3>1, <3>2 DEF TreesOf
  <2>7. Rooted(u)
    <3>1. \A q \in v.roots : t.label[q] # NoLabel /\ u.up[q] = 0
      BY <2>5, <2>6 DEF Rooted, TreesOf
    <3>2. \A p, q \in v.roots : t.label[p] = t.label[q] => p = q
      BY <2>2 DEF Rooted
    <3> QED
      BY <2>6, <3>1, <3>2 DEF Rooted
  <2>8. u.roots \subseteq t.roots \cup {child}
    BY <2>5, <2>6
  <2> QED
    BY <2>3, <2>4, <2>6, <2>7, <2>8 DEF u, r, MadeRoot
<1> QED
  BY <1>1, <1>2, <1>3

\* What Reparent does to a kid that has left its old parent.
KidRaised(labels, t, u, loose, spare, parent, kid, c) ==
  /\ u \in TreesOf(labels) /\ u.label = t.label /\ u.bare = t.bare
  /\ u.up = [t.up EXCEPT ![kid] = parent] /\ t.held \subseteq u.held
  /\ u.fault = t.fault \/ u.fault = "crash"
  /\ \A q \in Nodes : q # parent => u.kid[q] = t.kid[q] /\ u.list[q] = t.list[q]
  /\ \A d \in spare : d # c => u.chunk[d] = t.chunk[d]
  /\ \/ Linked(u, loose \ {kid}, spare) /\ \A d \in spare : u.chunk[d] = t.chunk[d]
     \/ c \in spare /\ Linked(u, loose \ {kid}, spare \ {c})
  /\ Rooted(u) /\ u.roots \subseteq t.roots \cup {kid}
  /\ parent # 0 => /\ u.kid[parent] = 0 => u.list[parent] # <<>>
                   /\ t.kid[parent] # 0 \/ t.list[parent] # <<>> => u.kid[parent] = 0

LEMMA Relinked ==
  ASSUME NEW labels, NEW t \in TreesOf(labels), NEW u \in TreesOf(labels), NEW loose, NEW spare,
         Linked(t, loose, spare), NEW kid \in loose, kid \in Nodes,
         u.kid = t.kid, u.list = t.list, u.chunk = t.chunk, u.held = t.held,
         u.up = [t.up EXCEPT ![kid] = 0]
  PROVE  Linked(u, loose \ {kid}, spare)
<1>1. \A p, n \in Nodes : KidIn(u, p, n) <=> KidIn(t, p, n)
  BY DEF KidIn
<1>2. UpLinked(u, loose \ {kid})
  BY <1>1 DEF Linked, UpLinked, TreesOf
<1>3. KidLinked(u, loose \ {kid})
  BY <1>1 DEF Linked, KidLinked, TreesOf
<1>4. \A p \in Nodes : ChunksSound(u, p)
  BY DEF Linked, ChunksSound
<1>5. Apart(u) /\ Holding(u, spare)
  BY DEF Linked, Apart, Holding
<1> QED
  BY <1>2, <1>3, <1>4, <1>5 DEF Linked

LEMMA KidReparented ==
  ASSUME NEW labels, NEW t \in TreesOf(labels), NEW loose, NEW spare, Linked(t, loose, spare), Rooted(t),
         NEW parent \in Nodes \cup {0}, NEW kid \in loose, kid \in Nodes, t.up[kid] # 0, t.label[kid] # NoLabel,
         NEW c,
         parent # 0 /\ FirstPlace(t, parent, {0}) = NoPlace /\ (t.list[parent] # <<>> \/ t.kid[parent] # 0) =>
           c # 0,
         parent # 0 /\ c # 0 /\ FirstPlace(t, parent, {0}) = NoPlace =>
           c \in spare /\ \A i \in KidSlots : t.chunk[c][i] = 0
  PROVE  KidRaised(labels, t, Reparent(t, parent, kid, c), loose, spare, parent, kid, c)
<1> DEFINE r == InsertPropertyTreeChild(t, parent, kid, c)
           u == Reparent(t, parent, kid, c)
<1>1. u = Raised(r, kid)
  BY DEF Reparent
<1>2. CASE parent = 0
  <2>1. r = InsertRoot(t, kid)
    BY <1>2 DEF InsertPropertyTreeChild
  <2>2. /\ u \in TreesOf(labels) /\ u.label = t.label /\ u.bare = t.bare /\ u.kid = t.kid
        /\ u.list = t.list /\ u.chunk = t.chunk /\ u.held = t.held
        /\ u.up = [t.up EXCEPT ![kid] = 0] /\ Rooted(u) /\ (u.fault = t.fault \/ u.fault = "crash")
        /\ u.roots \subseteq t.roots \cup {kid}
    BY <1>1, <2>1, RootInserted, SMTT(60) DEF MadeRoot
  <2>3. Linked(u, loose \ {kid}, spare)
    BY <2>2, Relinked
  <2> QED
    BY <1>2, <2>2, <2>3 DEF KidRaised
<1>3. CASE parent # 0
  <2>1. parent \in Nodes
    BY <1>3
  <2>2. r = InsertKid(t, parent, kid, c, FirstPlace(t, parent, {0}))
    BY <1>3 DEF InsertPropertyTreeChild
  <2>3. r.ok = TRUE /\ KidAttached(labels, t, r.tree, loose, spare, parent, kid, c)
    <3> HIDE DEF r
    <3>1. c # 0 /\ FirstPlace(t, parent, {0}) = NoPlace =>
            c \in spare /\ \A i \in KidSlots : t.chunk[c][i] = 0
      BY <1>3
    <3>2. KidPut(labels, t, InsertKid(t, parent, kid, c, FirstPlace(t, parent, {0})), loose, spare, parent, kid, c)
      BY <2>1, <3>1, KidInserted
    <3> QED
      BY <1>3, <2>2, <3>2 DEF KidPut
  <2>4. u = r.tree
    BY <1>1, <2>3 DEF Raised
  <2> HIDE DEF u, r
  <2>5. Rooted(u)
    <3>1. kid \notin t.roots /\ u.roots = t.roots /\ u.label = t.label /\ u.up = [t.up EXCEPT ![kid] = parent]
      BY <2>3, <2>4 DEF Rooted, KidAttached, Kept
    <3> QED
      BY <3>1 DEF Rooted, TreesOf
  <2> QED
    BY <1>3, <2>3, <2>4, <2>5 DEF KidRaised, KidAttached, Kept, u
<1> QED
  BY <1>2, <1>3

\* What holds of 0 and of k whenever of k - 1 holds up to n.
LEMMA UpTo ==
  ASSUME NEW n \in Nat, NEW P, 0 \in P, \A k \in 1..n : k - 1 \in P => k \in P
  PROVE  0..n \subseteq P
<1> DEFINE T == {k \in 0..n : k \notin P}
<1>1. SUFFICES ASSUME T # {} PROVE FALSE
  OBVIOUS
<1>2. T \subseteq Nat
  OBVIOUS
<1>3. Min(T) \in T /\ \A k \in T : Min(T) <= k
  <2> HIDE DEF T
  <2> QED
    BY <1>1, <1>2, Smallest
<1> DEFINE m == Min(T)
<1>4. m \in 0..n /\ m \notin P
  BY <1>3
<1> HIDE DEF m
<1>5. m \in 1..n /\ m - 1 \in 0..n /\ ~(m <= m - 1)
  BY <1>4
<1>6. m - 1 \notin T
  BY <1>3, <1>5 DEF m
<1>7. m - 1 \in P
  BY <1>5, <1>6
<1> QED
  BY <1>4, <1>5, <1>7

\* A loop from 1 to n that keeps an invariant can be run to its end.
Keeps(n, D, J, s, g) ==
  /\ n \in Nat /\ s \in J[0] /\ g \in [D \X (1..n) -> D]
  /\ \A k \in 0..n : J[k] \subseteq D
  /\ \A k \in 1..n : \A x \in J[k - 1] : g[<<x, k>>] \in J[k]
RunOf(n, J, s, g, f) == f[0] = s /\ \A k \in 1..n : f[k] = g[<<f[k - 1], k>>] /\ f[k - 1] \in J[k - 1]

LEMMA LoopRuns ==
  ASSUME NEW n, NEW D, NEW J, NEW s, NEW g, Keeps(n, D, J, s, g)
  PROVE  \E f \in [0..n -> D] : RunOf(n, J, s, g, f)
<1>01. n \in Nat /\ s \in J[0] /\ g \in [D \X (1..n) -> D]
  BY DEF Keeps
<1>02. (\A k \in 0..n : J[k] \subseteq D) /\ \A k \in 1..n : \A x \in J[k - 1] : g[<<x, k>>] \in J[k]
  BY DEF Keeps
<1> USE <1>01, <1>02
<1> DEFINE Runs(m, f) == f[0] = s /\ (\A k \in 0..m : f[k] \in J[k]) /\ \A k \in 1..m : f[k] = g[<<f[k - 1], k>>]
           P == {m \in 0..n : \E f \in [0..m -> D] : Runs(m, f)}
<1>1. 0 \in P
  <2>1. s \in D
    OBVIOUS
  <2> DEFINE z == [i \in 0..0 |-> s]
  <2>2. z \in [0..0 -> D] /\ Runs(0, z)
    BY <2>1
  <2> HIDE DEF z, Runs
  <2>3. \E f \in [0..0 -> D] : Runs(0, f)
    BY <2>2
  <2> QED
    BY <2>3
<1>2. ASSUME NEW k \in 1..n, k - 1 \in P PROVE k \in P
  <2>1. PICK f \in [0..k - 1 -> D] : Runs(k - 1, f)
    BY <1>2
  <2> DEFINE x == g[<<f[k - 1], k>>]
             h == [i \in 0..k |-> IF i = k THEN x ELSE f[i]]
  <2>2. k \in Nat /\ k - 1 \in 0..k - 1 /\ k \notin 0..k - 1 /\ k - 1 \in Nat
    OBVIOUS
  <2>3. f[k - 1] \in J[k - 1] /\ x \in J[k]
    BY <2>1, <2>2
  <2>4. x \in D
    BY <2>3
  <2> HIDE DEF x
  <2>5. \A i \in 0..k : i = k \/ i \in 0..k - 1
    BY <2>2
  <2>6. h \in [0..k -> D]
    BY <2>4, <2>5
  <2>7. h[k] = x /\ \A i \in 0..k - 1 : h[i] = f[i]
    BY <2>2
  <2> HIDE DEF h
  <2>8. h[0] = s
    BY <2>1, <2>2, <2>7
  <2>9. \A i \in 0..k : h[i] \in J[i]
    BY <2>1, <2>3, <2>5, <2>7
  <2>10. ASSUME NEW i \in 1..k PROVE h[i] = g[<<h[i - 1], i>>]
    <3>1. i - 1 \in 0..k - 1
      OBVIOUS
    <3>2. CASE i = k
      BY <2>2, <2>7, <3>1, <3>2 DEF x
    <3>3. CASE i # k
      <4>1. i \in 1..k - 1 /\ i \in 0..k - 1
        BY <3>3
      <4> QED
        BY <2>1, <2>7, <3>1, <4>1
    <3> QED
      BY <3>2, <3>3
  <2>11. Runs(k, h)
    BY <2>8, <2>9, <2>10
  <2> QED
    BY <2>6, <2>11
<1> HIDE DEF P
<1>3. n \in P
  BY <1>1, <1>2, UpTo
<1>4. PICK f \in [0..n -> D] : Runs(n, f)
  BY <1>3 DEF P
<1>5. \A k \in 1..n : k - 1 \in 0..n
  OBVIOUS
<1> QED
  BY <1>4, <1>5 DEF RunOf

\* A tree in which the slots of c behind i hold no kids.
Masked(u, c, i) ==
  [u EXCEPT !.chunk = [u.chunk EXCEPT ![c] = [j \in KidSlots |-> IF j <= i THEN u.chunk[c][j] ELSE 0]]]

LEMMA MaskedIs ==
  ASSUME NEW labels, NEW u \in TreesOf(labels), NEW c \in PropChunks, NEW i \in Nat
  PROVE  LET v == Masked(u, c, i) IN
         /\ v \in TreesOf(labels) /\ Kept(u, v) /\ v.up = u.up /\ v.kid = u.kid /\ v.list = u.list /\ v.held = u.held
         /\ v = [u EXCEPT !.chunk = v.chunk]
         /\ \A d \in PropChunks : d # c => v.chunk[d] = u.chunk[d]
         /\ \A j \in KidSlots : v.chunk[c][j] = IF j <= i THEN u.chunk[c][j] ELSE 0
<1> DEFINE m == [j \in KidSlots |-> IF j <= i THEN u.chunk[c][j] ELSE 0]
           v == Masked(u, c, i)
<1>1. m \in [KidSlots -> Nodes \cup {0}]
  BY DEF TreesOf
<1>2. v = [u EXCEPT !.chunk = [u.chunk EXCEPT ![c] = m]]
  BY DEF Masked
<1> HIDE DEF v
<1>3. \A j \in KidSlots : m[j] = IF j <= i THEN u.chunk[c][j] ELSE 0
  OBVIOUS
<1> HIDE DEF m
<1>4. [u.chunk EXCEPT ![c] = m] \in [PropChunks -> [KidSlots -> Nodes \cup {0}]]
  BY <1>1 DEF TreesOf
<1>5. v \in TreesOf(labels)
  BY <1>2, <1>4 DEF TreesOf
<1>6. /\ Kept(u, v) /\ v.up = u.up /\ v.kid = u.kid /\ v.list = u.list /\ v.held = u.held
      /\ v.chunk = [u.chunk EXCEPT ![c] = m]
  BY <1>2 DEF TreesOf, Kept
<1>7. /\ \A d \in PropChunks : d # c => v.chunk[d] = u.chunk[d]
      /\ v.chunk[c] = m
  BY <1>6 DEF TreesOf
<1> QED
  BY <1>2, <1>3, <1>5, <1>6, <1>7 DEF v

\* Trees that differ in nothing but their fields being equal are equal.
LEMMA TreesEqual ==
  ASSUME NEW labels, NEW t \in TreesOf(labels), NEW u \in TreesOf(labels),
         Kept(t, u), t.up = u.up, t.kid = u.kid, t.list = u.list, t.held = u.held,
         \A d \in PropChunks : \A j \in KidSlots : t.chunk[d][j] = u.chunk[d][j]
  PROVE  t = u
<1>1. t.chunk = u.chunk
  <2>1. t.chunk \in [PropChunks -> [KidSlots -> Nodes \cup {0}]] /\ u.chunk \in [PropChunks -> [KidSlots -> Nodes \cup {0}]]
    BY DEF TreesOf
  <2>2. \A d \in PropChunks : t.chunk[d] = u.chunk[d]
    BY <2>1
  <2> QED
    BY <2>1, <2>2
<1> QED
  BY <1>1, SMTT(60) DEF TreesOf, Kept

\* The first gap is not behind the slot of c that has just been left.
LEMMA SameGap ==
  ASSUME NEW labels, NEW w \in TreesOf(labels), NEW c \in PropChunks, NEW i \in KidSlots,
         w.chunk[c][i] = 0, NEW p \in Nodes
  PROVE  /\ FirstPlace(Masked(w, c, i), p, {0}) = FirstPlace(w, p, {0})
         /\ FirstPlace(w, p, {0}) # NoPlace =>
              \E d \in PropChunks, e \in KidSlots :
                FirstPlace(w, p, {0}) = <<d, e>> /\ w.chunk[d][e] = 0 /\ (d = c => e <= i)
<1> DEFINE v == Masked(w, c, i)
           L == w.list[p]
<1>0. i \in Nat
  BY DEF KidSlots
<1>1. /\ v \in TreesOf(labels) /\ v.list = w.list
      /\ \A d \in PropChunks : d # c => v.chunk[d] = w.chunk[d]
      /\ \A j \in KidSlots : v.chunk[c][j] = IF j <= i THEN w.chunk[c][j] ELSE 0
  BY <1>0, MaskedIs
<1> HIDE DEF v
<1>2. DOMAIN L \subseteq Nat /\ \A k \in DOMAIN L : L[k] \in PropChunks
  BY ListTyped
<1>3. KidSlots \subseteq Nat
  BY DEF KidSlots
<1>4. \A k \in DOMAIN L, j \in KidSlots : w.chunk[L[k]][j] = 0 => v.chunk[L[k]][j] = 0
  BY <1>1, <1>2
<1>5. \A k \in DOMAIN L, j \in KidSlots : v.chunk[L[k]][j] = 0 =>
        w.chunk[L[k]][j] = 0 \/ (L[k] = c /\ j > i)
  BY <1>0, <1>1, <1>2, <1>3
<1>6. CASE \A k \in DOMAIN L, j \in KidSlots : w.chunk[L[k]][j] # 0
  <2>1. \A k \in DOMAIN L : L[k] # c
    BY <1>6
  <2>2. \A k \in DOMAIN L, j \in KidSlots : v.chunk[L[k]][j] # 0
    BY <1>5, <1>6, <2>1
  <2>3. FirstPlace(w, p, {0}) = NoPlace
    <3>1. \A k \in DOMAIN w.list[p], j \in KidSlots : w.chunk[w.list[p][k]][j] \notin {0}
      BY <1>6
    <3> QED
      BY <3>1, FirstPlaceIs
  <2>4. FirstPlace(v, p, {0}) = NoPlace
    <3>1. \A k \in DOMAIN v.list[p], j \in KidSlots : v.chunk[v.list[p][k]][j] \notin {0}
      BY <1>1, <2>2
    <3> QED
      BY <1>1, <3>1, FirstPlaceIs
  <2> QED
    BY <2>3, <2>4 DEF v
<1>7. CASE ~(\A k \in DOMAIN L, j \in KidSlots : w.chunk[L[k]][j] # 0)
  <2>1. PICK k \in DOMAIN w.list[p], j \in KidSlots :
          /\ FirstPlace(w, p, {0}) = <<w.list[p][k], j>>
          /\ w.chunk[w.list[p][k]][j] \in {0}
          /\ \A l \in DOMAIN w.list[p], h \in KidSlots :
               w.chunk[w.list[p][l]][h] \in {0} => k < l \/ (k = l /\ j <= h)
    BY <1>7, FirstPlaceIs
  <2>2. PICK m \in DOMAIN v.list[p], g \in KidSlots :
          /\ FirstPlace(v, p, {0}) = <<v.list[p][m], g>>
          /\ v.chunk[v.list[p][m]][g] \in {0}
          /\ \A l \in DOMAIN v.list[p], h \in KidSlots :
               v.chunk[v.list[p][l]][h] \in {0} => m < l \/ (m = l /\ g <= h)
    BY <1>1, <1>4, <1>7, FirstPlaceIs
  <2>3. v.list[p] = L /\ m \in DOMAIN L /\ k \in DOMAIN L
    BY <1>1
  <2>4. m < k \/ (m = k /\ g <= j)
    BY <1>4, <2>1, <2>2, <2>3
  <2>5. L[m] = c => g <= i
    <3>1. SUFFICES ASSUME L[m] = c PROVE g <= i
      OBVIOUS
    <3>2. v.chunk[L[m]][i] = 0
      BY <1>4, <2>3, <3>1
    <3>3. m < m \/ g <= i
      BY <2>2, <2>3, <3>2
    <3> QED
      BY <1>2, <2>3, <3>3
  <2>6. w.chunk[L[m]][g] = 0
    <3>1. ~(L[m] = c /\ g > i)
      BY <1>0, <1>3, <2>5
    <3> QED
      BY <1>5, <2>2, <2>3, <3>1
  <2>7. k < m \/ (k = m /\ j <= g)
    BY <2>1, <2>3, <2>6
  <2>8. k = m /\ j = g
    BY <1>2, <1>3, <2>3, <2>4, <2>7
  <2> QED
    BY <1>2, <2>1, <2>2, <2>3, <2>5, <2>6, <2>8 DEF v
<1> QED
  BY <1>6, <1>7

LEMMA MaskedBoth ==
  ASSUME NEW labels, NEW u \in TreesOf(labels), NEW v \in TreesOf(labels), NEW c \in PropChunks, NEW i \in Nat,
         Kept(u, v), v.up = u.up, v.kid = u.kid, v.list = u.list, v.held = u.held,
         \A d \in PropChunks, j \in KidSlots :
           v.chunk[d][j] = IF d = c /\ j > i THEN 0 ELSE u.chunk[d][j]
  PROVE  v = Masked(u, c, i)
<1> DEFINE m == Masked(u, c, i)
<1>1. /\ m \in TreesOf(labels) /\ Kept(u, m) /\ m.up = u.up /\ m.kid = u.kid /\ m.list = u.list /\ m.held = u.held
      /\ \A d \in PropChunks : d # c => m.chunk[d] = u.chunk[d]
      /\ \A j \in KidSlots : m.chunk[c][j] = IF j <= i THEN u.chunk[c][j] ELSE 0
  BY MaskedIs
<1> HIDE DEF m
<1>2. \A j \in KidSlots : j <= i <=> ~(j > i)
  BY DEF KidSlots
<1>3. \A d \in PropChunks, j \in KidSlots : v.chunk[d][j] = m.chunk[d][j]
  BY <1>1, <1>2
<1>4. v = m
  BY <1>1, <1>3, TreesEqual DEF Kept
<1> QED
  BY <1>4 DEF m

\* A tree that differs in the parent of k only.
MovedUnder(labels, t, u, p, k) ==
  /\ u \in TreesOf(labels) /\ Kept(t, u) /\ u.up = [t.up EXCEPT ![k] = p] /\ u.kid = t.kid
  /\ u.list = t.list /\ u.chunk = t.chunk /\ u.held = t.held

LEMMA InsertedIs ==
  ASSUME NEW labels, NEW t \in TreesOf(labels), NEW p \in Nodes \cup {0}, NEW k \in Nodes
  PROVE  MovedUnder(labels, t, Inserted(t, p, k).tree, p, k) /\ Inserted(t, p, k).ok = TRUE
<1> DEFINE u == Inserted(t, p, k).tree
<1>1. u = [t EXCEPT !.up = [t.up EXCEPT ![k] = p]] /\ Inserted(t, p, k).ok = TRUE
  BY DEF Inserted
<1>2. [t.up EXCEPT ![k] = p] \in [Nodes -> Nodes \cup {0}]
  BY DEF TreesOf
<1> HIDE DEF u
<1> QED
  BY <1>1, <1>2, ZenonT(60) DEF TreesOf, Kept, MovedUnder, u

LEMMA InsertInChunkIs ==
  ASSUME NEW labels, NEW t \in TreesOf(labels), NEW p \in Nodes, NEW k \in Nodes, NEW c \in PropChunks
  PROVE  LET u == InsertInChunk(t, p, k, c).tree IN
         /\ u \in TreesOf(labels) /\ Kept(t, u) /\ u.up = [t.up EXCEPT ![k] = p] /\ u.held = t.held
         /\ u.kid = [t.kid EXCEPT ![p] = 0]
         /\ u.list = [t.list EXCEPT ![p] = IF t.kid[p] = 0 THEN Append(t.list[p], c) ELSE <<c>>]
         /\ \A d \in PropChunks, j \in KidSlots :
              u.chunk[d][j] = IF d = c /\ t.kid[p] # 0 /\ j = 2 THEN k
                              ELSE IF d = c /\ j = 1 THEN (IF t.kid[p] = 0 THEN k ELSE t.kid[p])
                              ELSE t.chunk[d][j]
         /\ InsertInChunk(t, p, k, c).ok = TRUE
<1>1. 1 \in KidSlots /\ 2 \in KidSlots
  BY TreeAssumption DEF KidSlots
<1>2. t.list[p] \in Seq(PropChunks) /\ t.kid[p] \in Nodes \cup {0}
  BY DEF TreesOf
<1>3. Append(t.list[p], c) \in Seq(PropChunks) /\ <<c>> \in Seq(PropChunks)
  BY <1>2
<1>4. CASE t.kid[p] = 0
  <2> DEFINE s == [t EXCEPT !.list = [t.list EXCEPT ![p] = Append(t.list[p], c)]]
             v == WithKid(s, <<c, 1>>, k)
             u == InsertInChunk(t, p, k, c).tree
  <2>1. /\ s \in TreesOf(labels) /\ Kept(t, s) /\ s.up = t.up /\ s.kid = t.kid /\ s.chunk = t.chunk /\ s.held = t.held
        /\ s.list = [t.list EXCEPT ![p] = Append(t.list[p], c)]
    BY <1>3 DEF TreesOf, Kept
  <2>2. s = [t EXCEPT !.list[p] = Append(@, c)]
    BY DEF TreesOf
  <2> HIDE DEF s
  <2>3. /\ v \in TreesOf(labels) /\ Kept(s, v) /\ v.up = s.up /\ v.kid = s.kid /\ v.list = s.list /\ v.held = s.held
        /\ \A d \in PropChunks, j \in KidSlots : v.chunk[d][j] = IF d = c /\ j = 1 THEN k ELSE s.chunk[d][j]
    BY <1>1, <2>1, WithKidIs
  <2>4. InsertInChunk(t, p, k, c) = Inserted(v, p, k)
    BY <1>4, <2>2 DEF InsertInChunk
  <2> HIDE DEF v
  <2>5. /\ u \in TreesOf(labels) /\ Kept(v, u) /\ u.up = [v.up EXCEPT ![k] = p] /\ u.kid = v.kid
        /\ u.list = v.list /\ u.chunk = v.chunk /\ u.held = v.held /\ InsertInChunk(t, p, k, c).ok = TRUE
    <3>1. MovedUnder(labels, v, Inserted(v, p, k).tree, p, k) /\ Inserted(v, p, k).ok = TRUE
      BY <2>3, InsertedIs
    <3> QED
      BY <2>4, <3>1 DEF MovedUnder
  <2> HIDE DEF u
  <2>6. u.kid = [t.kid EXCEPT ![p] = 0]
    BY <1>4, <2>1, <2>3, <2>5 DEF TreesOf
  <2>7. u.list = [t.list EXCEPT ![p] = IF t.kid[p] = 0 THEN Append(t.list[p], c) ELSE <<c>>]
    BY <1>4, <2>1, <2>3, <2>5
  <2>8. \A d \in PropChunks, j \in KidSlots :
              u.chunk[d][j] = IF d = c /\ t.kid[p] # 0 /\ j = 2 THEN k
                              ELSE IF d = c /\ j = 1 THEN (IF t.kid[p] = 0 THEN k ELSE t.kid[p])
                              ELSE t.chunk[d][j]
    BY <1>4, <2>1, <2>3, <2>5
  <2>9. Kept(t, u) /\ u.up = [t.up EXCEPT ![k] = p] /\ u.held = t.held
    BY <2>1, <2>3, <2>5 DEF Kept
  <2> QED
    BY <2>5, <2>6, <2>7, <2>8, <2>9 DEF u
<1>5. CASE t.kid[p] # 0
  <2> DEFINE s == [t EXCEPT !.list = [t.list EXCEPT ![p] = <<c>>], !.kid = [t.kid EXCEPT ![p] = 0]]
             only == t.kid[p]
             w == WithKid(s, <<c, 1>>, only)
             v == WithKid(w, <<c, 2>>, k)
             u == InsertInChunk(t, p, k, c).tree
  <2>1. /\ s \in TreesOf(labels) /\ Kept(t, s) /\ s.up = t.up /\ s.kid = [t.kid EXCEPT ![p] = 0] /\ s.chunk = t.chunk
        /\ s.held = t.held /\ s.list = [t.list EXCEPT ![p] = <<c>>]
    BY <1>3 DEF TreesOf, Kept
  <2>2. s = [t EXCEPT !.list[p] = <<c>>, !.kid[p] = 0]
    BY DEF TreesOf
  <2> HIDE DEF s
  <2>3. /\ w \in TreesOf(labels) /\ Kept(s, w) /\ w.up = s.up /\ w.kid = s.kid /\ w.list = s.list /\ w.held = s.held
        /\ \A d \in PropChunks, j \in KidSlots : w.chunk[d][j] = IF d = c /\ j = 1 THEN only ELSE s.chunk[d][j]
    <3>1. only \in Nodes \cup {0}
      BY <1>2
    <3> HIDE DEF only
    <3> QED
      BY <1>1, <2>1, <3>1, WithKidIs
  <2>4. InsertInChunk(t, p, k, c) = Inserted(v, p, k)
    BY <1>5, <2>2 DEF InsertInChunk
  <2> HIDE DEF w
  <2>5. /\ v \in TreesOf(labels) /\ Kept(w, v) /\ v.up = w.up /\ v.kid = w.kid /\ v.list = w.list /\ v.held = w.held
        /\ \A d \in PropChunks, j \in KidSlots : v.chunk[d][j] = IF d = c /\ j = 2 THEN k ELSE w.chunk[d][j]
    BY <1>1, <2>3, WithKidIs
  <2> HIDE DEF v
  <2>6. /\ u \in TreesOf(labels) /\ Kept(v, u) /\ u.up = [v.up EXCEPT ![k] = p] /\ u.kid = v.kid
        /\ u.list = v.list /\ u.chunk = v.chunk /\ u.held = v.held /\ InsertInChunk(t, p, k, c).ok = TRUE
    <3>1. MovedUnder(labels, v, Inserted(v, p, k).tree, p, k) /\ Inserted(v, p, k).ok = TRUE
      BY <2>5, InsertedIs
    <3> QED
      BY <2>4, <3>1 DEF MovedUnder
  <2> HIDE DEF u
  <2>7. u.list = [t.list EXCEPT ![p] = IF t.kid[p] = 0 THEN Append(t.list[p], c) ELSE <<c>>]
    BY <1>5, <2>1, <2>3, <2>5, <2>6
  <2>8. \A d \in PropChunks, j \in KidSlots :
              u.chunk[d][j] = IF d = c /\ t.kid[p] # 0 /\ j = 2 THEN k
                              ELSE IF d = c /\ j = 1 THEN (IF t.kid[p] = 0 THEN k ELSE t.kid[p])
                              ELSE t.chunk[d][j]
    BY <1>5, <2>1, <2>3, <2>5, <2>6
  <2>9. Kept(t, u) /\ u.up = [t.up EXCEPT ![k] = p] /\ u.held = t.held /\ u.kid = [t.kid EXCEPT ![p] = 0]
    BY <2>1, <2>3, <2>5, <2>6 DEF Kept
  <2> QED
    BY <2>6, <2>7, <2>8, <2>9 DEF u
<1> QED
  BY <1>4, <1>5

\* Whether the slots of c behind i still hold kids, makes no difference to
\* where a kid goes.
LEMMA MaskedReparent ==
  ASSUME NEW labels, NEW w \in TreesOf(labels), NEW c \in PropChunks, NEW i \in KidSlots, w.chunk[c][i] = 0,
         NEW parent \in Nodes \cup {0}, NEW kid \in Nodes, Rooted(w), w.label[kid] # NoLabel,
         parent # 0 /\ w.kid[parent] # 0 => i > 1
  PROVE  LET u == Reparent(w, parent, kid, c) IN
         /\ u \in TreesOf(labels)
         /\ Reparent(Masked(w, c, i), parent, kid, c) = Masked(u, c, i)
         /\ \A j \in KidSlots : j > i => u.chunk[c][j] = w.chunk[c][j]
<1> DEFINE m == Masked(w, c, i)
           u == Reparent(w, parent, kid, c)
           v == Reparent(m, parent, kid, c)
<1>1. /\ m \in TreesOf(labels) /\ Kept(w, m) /\ m.up = w.up /\ m.kid = w.kid /\ m.list = w.list /\ m.held = w.held
      /\ \A d \in PropChunks, j \in KidSlots : m.chunk[d][j] = IF d = c /\ j > i THEN 0 ELSE w.chunk[d][j]
  <2>1. i \in Nat /\ \A j \in KidSlots : j <= i <=> ~(j > i)
    BY DEF KidSlots
  <2>2. /\ m \in TreesOf(labels) /\ Kept(w, m) /\ m.up = w.up /\ m.kid = w.kid /\ m.list = w.list /\ m.held = w.held
        /\ \A d \in PropChunks : d # c => m.chunk[d] = w.chunk[d]
        /\ \A j \in KidSlots : m.chunk[c][j] = IF j <= i THEN w.chunk[c][j] ELSE 0
    BY <2>1, MaskedIs
  <2> HIDE DEF m
  <2> QED
    BY <2>1, <2>2
<1>2. i \in Nat /\ i >= 1 /\ c # 0
  BY DEF KidSlots, PropChunks
<1>3. parent # 0 => /\ FirstPlace(m, parent, {0}) = FirstPlace(w, parent, {0})
                    /\ FirstPlace(w, parent, {0}) # NoPlace =>
                         \E d \in PropChunks, e \in KidSlots :
                           FirstPlace(w, parent, {0}) = <<d, e>> /\ w.chunk[d][e] = 0 /\ (d = c => e <= i)
  BY SameGap
<1> HIDE DEF m
<1>4. SUFFICES /\ u \in TreesOf(labels) /\ v \in TreesOf(labels)
               /\ Kept(u, v) /\ v.up = u.up /\ v.kid = u.kid /\ v.list = u.list /\ v.held = u.held
               /\ \A d \in PropChunks, j \in KidSlots :
                    v.chunk[d][j] = IF d = c /\ j > i THEN 0 ELSE u.chunk[d][j]
               /\ \A j \in KidSlots : j > i => u.chunk[c][j] = w.chunk[c][j]
  <2> HIDE DEF u, v
  <2>1. v = Masked(u, c, i)
    BY <1>2, <1>4, MaskedBoth
  <2> QED
    BY <1>4, <2>1 DEF u, v, m
<1>5. CASE parent = 0
  <2>1. u = Raised(InsertRoot(w, kid), kid) /\ v = Raised(InsertRoot(m, kid), kid)
    BY <1>5 DEF Reparent, InsertPropertyTreeChild
  <2>2. Rooted(m) /\ m.label[kid] # NoLabel
    BY <1>1 DEF Rooted, Kept
  <2>3. MadeRoot(labels, w, Raised(InsertRoot(w, kid), kid), kid)
    BY RootInserted
  <2>4. MadeRoot(labels, m, Raised(InsertRoot(m, kid), kid), kid)
    BY <1>1, <2>2, RootInserted
  <2>5. u.roots = v.roots /\ u.fault = v.fault
    <3>1. ASSUME NEW t \in TreesOf(labels)
          PROVE  /\ Raised(InsertRoot(t, kid), kid).roots =
                      (IF t.fault # "hash" /\ t.label[kid] \notin t.bare /\ ~(\E r \in t.roots : t.label[r] = t.label[kid])
                       THEN t.roots \cup {kid} ELSE t.roots)
                 /\ Raised(InsertRoot(t, kid), kid).fault =
                      (IF t.fault # "hash" /\ t.label[kid] \in t.bare THEN "crash" ELSE t.fault)
      <4>1. CASE t.fault = "hash"
        BY <4>1 DEF Raised, InsertRoot, NotInserted, TreesOf
      <4>2. CASE t.fault # "hash" /\ t.label[kid] \in t.bare
        BY <4>2 DEF Raised, InsertRoot, Inserted, TreesOf
      <4>3. CASE t.fault # "hash" /\ t.label[kid] \notin t.bare
        BY <4>3 DEF Raised, InsertRoot, Inserted, TreesOf
      <4> QED
        BY <4>1, <4>2, <4>3
    <3>2. m.roots = w.roots /\ m.fault = w.fault /\ m.label = w.label /\ m.bare = w.bare
      BY <1>1 DEF Kept
    <3> HIDE DEF u, v
    <3>3. v.roots = u.roots
      <4>1. v.roots = (IF m.fault # "hash" /\ m.label[kid] \notin m.bare /\ ~(\E r \in m.roots : m.label[r] = m.label[kid])
                       THEN m.roots \cup {kid} ELSE m.roots)
        BY <1>1, <2>1, <3>1
      <4>2. u.roots = (IF w.fault # "hash" /\ w.label[kid] \notin w.bare /\ ~(\E r \in w.roots : w.label[r] = w.label[kid])
                       THEN w.roots \cup {kid} ELSE w.roots)
        BY <2>1, <3>1
      <4> QED
        BY <3>2, <4>1, <4>2
    <3>4. v.fault = u.fault
      BY <1>1, <2>1, <3>1, <3>2
    <3> QED
      BY <3>3, <3>4
  <2> HIDE DEF u, v
  <2> QED
    BY <1>1, <2>1, <2>3, <2>4, <2>5 DEF Kept, MadeRoot
<1>6. CASE parent # 0
  <2>0. parent \in Nodes
    BY <1>6
  <2> DEFINE gap == FirstPlace(w, parent, {0})
             none == w.list[parent] = <<>> /\ w.kid[parent] = 0
  <2>1. /\ u = Raised(InsertKid(w, parent, kid, c, gap), kid)
        /\ v = Raised(InsertKid(m, parent, kid, c, gap), kid)
    BY <1>3, <1>6 DEF Reparent, InsertPropertyTreeChild
  <2> HIDE DEF gap
  <2>2. CASE none
    <3> DEFINE x == [w EXCEPT !.kid[parent] = kid]
               y == [m EXCEPT !.kid[parent] = kid]
    <3>1. InsertKid(w, parent, kid, c, gap) = Inserted(x, parent, kid)
          /\ InsertKid(m, parent, kid, c, gap) = Inserted(y, parent, kid)
      BY <1>1, <2>2 DEF InsertKid
    <3>2. x \in TreesOf(labels) /\ x.label = w.label /\ x.roots = w.roots /\ x.bare = w.bare /\ x.fault = w.fault
          /\ x.up = w.up /\ x.kid = [w.kid EXCEPT ![parent] = kid] /\ x.list = w.list
          /\ x.chunk = w.chunk /\ x.held = w.held
      BY DEF TreesOf
    <3>3. y \in TreesOf(labels) /\ y.label = m.label /\ y.roots = m.roots /\ y.bare = m.bare /\ y.fault = m.fault
          /\ y.up = m.up /\ y.kid = [m.kid EXCEPT ![parent] = kid] /\ y.list = m.list
          /\ y.chunk = m.chunk /\ y.held = m.held
      BY <1>1 DEF TreesOf
    <3> HIDE DEF x, y
    <3>4. MovedUnder(labels, x, Inserted(x, parent, kid).tree, parent, kid) /\ Inserted(x, parent, kid).ok = TRUE
      BY <3>2, InsertedIs
    <3>5. MovedUnder(labels, y, Inserted(y, parent, kid).tree, parent, kid) /\ Inserted(y, parent, kid).ok = TRUE
      BY <3>3, InsertedIs
    <3>6. u = Inserted(x, parent, kid).tree /\ v = Inserted(y, parent, kid).tree
      BY <2>1, <3>1, <3>4, <3>5 DEF Raised
    <3> HIDE DEF u, v
    <3> QED
      BY <1>1, <3>2, <3>3, <3>4, <3>5, <3>6 DEF Kept, MovedUnder
  <2>3. CASE ~none /\ gap # NoPlace
    <3>1. PICK d \in PropChunks, e \in KidSlots : gap = <<d, e>> /\ w.chunk[d][e] = 0 /\ (d = c => e <= i)
      BY <1>3, <1>6, <2>3 DEF gap
    <3> DEFINE x == WithKid(w, <<d, e>>, kid)
               y == WithKid(m, <<d, e>>, kid)
    <3>2. InsertKid(w, parent, kid, c, gap) = Inserted(x, parent, kid)
          /\ InsertKid(m, parent, kid, c, gap) = Inserted(y, parent, kid)
      BY <1>1, <2>3, <3>1 DEF InsertKid
    <3>3. /\ x \in TreesOf(labels) /\ Kept(w, x) /\ x.up = w.up /\ x.kid = w.kid /\ x.list = w.list /\ x.held = w.held
          /\ \A a \in PropChunks, j \in KidSlots : x.chunk[a][j] = IF a = d /\ j = e THEN kid ELSE w.chunk[a][j]
      BY WithKidIs
    <3>4. /\ y \in TreesOf(labels) /\ Kept(m, y) /\ y.up = m.up /\ y.kid = m.kid /\ y.list = m.list /\ y.held = m.held
          /\ \A a \in PropChunks, j \in KidSlots : y.chunk[a][j] = IF a = d /\ j = e THEN kid ELSE m.chunk[a][j]
      BY <1>1, WithKidIs
    <3> HIDE DEF x, y
    <3>5. MovedUnder(labels, x, Inserted(x, parent, kid).tree, parent, kid) /\ Inserted(x, parent, kid).ok = TRUE
      BY <3>3, InsertedIs
    <3>6. MovedUnder(labels, y, Inserted(y, parent, kid).tree, parent, kid) /\ Inserted(y, parent, kid).ok = TRUE
      BY <3>4, InsertedIs
    <3>7. u = Inserted(x, parent, kid).tree /\ v = Inserted(y, parent, kid).tree
      BY <2>1, <3>2, <3>5, <3>6 DEF Raised
    <3> HIDE DEF u, v
    <3>8. Kept(u, v) /\ v.up = u.up /\ v.kid = u.kid /\ v.list = u.list /\ v.held = u.held
      BY <1>1, <3>3, <3>4, <3>5, <3>6, <3>7 DEF Kept, MovedUnder
    <3>9. d = c => ~(e > i)
      BY <1>2, <3>1 DEF KidSlots
    <3>10. \A a \in PropChunks, j \in KidSlots : v.chunk[a][j] = IF a = c /\ j > i THEN 0 ELSE u.chunk[a][j]
      BY <1>1, <3>3, <3>4, <3>5, <3>6, <3>7, <3>9 DEF MovedUnder
    <3>11. \A j \in KidSlots : j > i => u.chunk[c][j] = w.chunk[c][j]
      BY <3>3, <3>5, <3>7, <3>9 DEF MovedUnder
    <3> QED
      BY <3>5, <3>6, <3>7, <3>8, <3>10, <3>11 DEF MovedUnder
  <2>4. CASE ~none /\ gap = NoPlace
    <3>1. InsertKid(w, parent, kid, c, gap) = InsertInChunk(w, parent, kid, c)
          /\ InsertKid(m, parent, kid, c, gap) = InsertInChunk(m, parent, kid, c)
      BY <1>1, <1>2, <2>4 DEF InsertKid
    <3> DEFINE x == InsertInChunk(w, parent, kid, c).tree
               y == InsertInChunk(m, parent, kid, c).tree
    <3>2. /\ x \in TreesOf(labels) /\ Kept(w, x) /\ x.up = [w.up EXCEPT ![kid] = parent] /\ x.held = w.held
          /\ x.kid = [w.kid EXCEPT ![parent] = 0]
          /\ x.list = [w.list EXCEPT ![parent] = IF w.kid[parent] = 0 THEN Append(w.list[parent], c) ELSE <<c>>]
          /\ \A d \in PropChunks, j \in KidSlots :
              x.chunk[d][j] = IF d = c /\ w.kid[parent] # 0 /\ j = 2 THEN kid
                              ELSE IF d = c /\ j = 1 THEN (IF w.kid[parent] = 0 THEN kid ELSE w.kid[parent])
                              ELSE w.chunk[d][j]
          /\ InsertInChunk(w, parent, kid, c).ok = TRUE
      BY <2>0, InsertInChunkIs
    <3>3. /\ y \in TreesOf(labels) /\ Kept(m, y) /\ y.up = [m.up EXCEPT ![kid] = parent] /\ y.held = m.held
          /\ y.kid = [m.kid EXCEPT ![parent] = 0]
          /\ y.list = [m.list EXCEPT ![parent] = IF m.kid[parent] = 0 THEN Append(m.list[parent], c) ELSE <<c>>]
          /\ \A d \in PropChunks, j \in KidSlots :
              y.chunk[d][j] = IF d = c /\ m.kid[parent] # 0 /\ j = 2 THEN kid
                              ELSE IF d = c /\ j = 1 THEN (IF m.kid[parent] = 0 THEN kid ELSE m.kid[parent])
                              ELSE m.chunk[d][j]
          /\ InsertInChunk(m, parent, kid, c).ok = TRUE
      BY <1>1, <2>0, InsertInChunkIs
    <3>4. u = x /\ v = y
      BY <2>1, <3>1, <3>2, <3>3 DEF Raised
    <3> HIDE DEF u, v, x, y
    <3>5. Kept(u, v) /\ v.up = u.up /\ v.kid = u.kid /\ v.list = u.list /\ v.held = u.held
      BY <1>1, <3>2, <3>3, <3>4 DEF Kept
    <3>6. \A j \in KidSlots : j > i => j # 1 /\ (w.kid[parent] # 0 => j # 2)
      BY <1>2, <1>6 DEF KidSlots
    <3>7. \A d \in PropChunks, j \in KidSlots : v.chunk[d][j] = IF d = c /\ j > i THEN 0 ELSE u.chunk[d][j]
      BY <1>1, <3>2, <3>3, <3>4, <3>6
    <3>8. \A j \in KidSlots : j > i => u.chunk[c][j] = w.chunk[c][j]
      BY <3>2, <3>4, <3>6
    <3> QED
      BY <3>2, <3>3, <3>4, <3>5, <3>7, <3>8
  <2> QED
    BY <2>2, <2>3, <2>4
<1> QED
  BY <1>5, <1>6

-----------------------------------------------------------------------------
(***************************************************************************)
(* A collection: the kids of a node that is swept move up to its parent,   *)
(* chunk by chunk.                                                         *)
(***************************************************************************)
\* The kids in the first i slots of a chunk.
FirstKids(t, c, i) == {t.chunk[c][j] : j \in {j \in KidSlots : j <= i}}

\* Chunk c has left its list, and its kids their parent.
Loaded(t, loose, spare, c) ==
  /\ c \in spare
  /\ \A j \in KidSlots : t.chunk[c][j] # 0 =>
       t.chunk[c][j] \in loose /\ t.up[t.chunk[c][j]] # 0 /\ t.label[t.chunk[c][j]] # NoLabel
  /\ \A j, l \in KidSlots : t.chunk[c][j] = t.chunk[c][l] => t.chunk[c][j] = 0 \/ j = l

\* The kids in the first i slots of chunk c, which is spare in t, have been
\* made kids of parent in u.
Moving(labels, t, u, loose, spare, parent, c, i) ==
  /\ u \in TreesOf(labels) /\ u.label = t.label /\ u.bare = t.bare
  /\ u.fault = t.fault \/ u.fault = "crash"
  /\ Rooted(u) /\ t.held \subseteq u.held /\ u.roots \subseteq t.roots \cup FirstKids(t, c, i)
  /\ \A m \in Nodes : u.up[m] = IF m \in FirstKids(t, c, i) THEN parent ELSE t.up[m]
  /\ \A q \in Nodes : q # parent => u.kid[q] = t.kid[q] /\ u.list[q] = t.list[q]
  /\ \A d \in spare : d # c => u.chunk[d] = t.chunk[d]
  /\ \A j \in KidSlots : j > i => u.chunk[c][j] = t.chunk[c][j]
  /\ \/ /\ Linked(Masked(u, c, i), loose \ FirstKids(t, c, i), spare)
        /\ \A j \in KidSlots : j <= i => u.chunk[c][j] = 0
     \/ Linked(Masked(u, c, i), loose \ FirstKids(t, c, i), spare \ {c})
  /\ parent # 0 =>
       /\ u.kid[parent] # 0 => i >= 1
       /\ i >= 1 /\ t.chunk[c][1] # 0 => u.kid[parent] # 0 \/ u.list[parent] # <<>>
       /\ i >= 2 /\ t.chunk[c][1] # 0 /\ t.chunk[c][2] # 0 => u.kid[parent] = 0

MaskOf(labels, u, v, c, i) ==
  /\ v \in TreesOf(labels) /\ Kept(u, v) /\ v.up = u.up /\ v.kid = u.kid /\ v.list = u.list /\ v.held = u.held
  /\ \A d \in PropChunks : d # c => v.chunk[d] = u.chunk[d]
  /\ \A j \in KidSlots : v.chunk[c][j] = IF j <= i THEN u.chunk[c][j] ELSE 0

LEMMA Masking ==
  ASSUME NEW labels, NEW u \in TreesOf(labels), NEW c \in PropChunks, NEW i \in Nat
  PROVE  MaskOf(labels, u, Masked(u, c, i), c, i)
BY MaskedIs DEF MaskOf

LEMMA MovingStarts ==
  ASSUME NEW labels, NEW t \in TreesOf(labels), NEW loose, NEW spare, Linked(t, loose, spare), Rooted(t),
         NEW parent \in Nodes \cup {0}, parent # 0 => t.kid[parent] = 0, NEW c \in spare, c \in PropChunks
  PROVE  Moving(labels, t, t, loose, spare, parent, c, 0)
<1> DEFINE v == Masked(t, c, 0)
<1>1. /\ v \in TreesOf(labels) /\ v.up = t.up /\ v.kid = t.kid /\ v.list = t.list /\ v.held = t.held
      /\ \A d \in PropChunks : d # c => v.chunk[d] = t.chunk[d]
  BY MaskedIs
<1> HIDE DEF v
<1>2. \A p \in Nodes : \A k \in DOMAIN t.list[p] : t.list[p][k] # c /\ t.list[p][k] \in PropChunks
  BY ListTyped DEF Linked, Holding
<1>3. \A p \in Nodes : Alike(t, v, p)
  BY <1>1, <1>2 DEF Alike
<1>4. /\ \A p, n \in Nodes : KidIn(v, p, n) <=> KidIn(t, p, n)
      /\ \A p \in Nodes : ChunksSound(v, p)
  BY <1>3, AlikeKids DEF Linked
<1>5. UpLinked(v, loose) /\ KidLinked(v, loose)
  BY <1>1, <1>4 DEF Linked, UpLinked, KidLinked, TreesOf
<1>6. Apart(v) /\ Holding(v, spare)
  BY <1>1 DEF Linked, Apart, Holding
<1>7. Linked(v, loose, spare)
  BY <1>4, <1>5, <1>6 DEF Linked
<1>8. FirstKids(t, c, 0) = {}
  BY DEF FirstKids, KidSlots
<1>9. \A j \in KidSlots : ~(j <= 0)
  BY DEF KidSlots
<1>10. loose \ FirstKids(t, c, 0) = loose
  BY <1>8
<1> QED
  BY <1>7, <1>8, <1>9, <1>10 DEF Moving, v

LEMMA FirstKidsGrow ==
  ASSUME NEW labels, NEW t \in TreesOf(labels), NEW c \in PropChunks, NEW i \in KidSlots
  PROVE  /\ FirstKids(t, c, i) = FirstKids(t, c, i - 1) \cup {t.chunk[c][i]}
         /\ \A loose : loose \ FirstKids(t, c, i) = (loose \ FirstKids(t, c, i - 1)) \ {t.chunk[c][i]}
<1>1. \A j \in KidSlots : j <= i <=> j <= i - 1 \/ j = i
  BY DEF KidSlots
<1>2. i <= i
  BY DEF KidSlots
<1>3. FirstKids(t, c, i) = FirstKids(t, c, i - 1) \cup {t.chunk[c][i]}
  BY <1>1, <1>2 DEF FirstKids
<1> QED
  BY <1>3

LEMMA SlotMoved ==
  ASSUME NEW labels, NEW t \in TreesOf(labels), NEW loose, NEW spare, NEW parent \in Nodes \cup {0},
         NEW c \in PropChunks, Loaded(t, loose, spare, c), Linked(t, loose, spare), NEW i \in KidSlots, NEW u,
         Moving(labels, t, u, loose, spare, parent, c, i - 1)
  PROVE  Moving(labels, t, ReparentSlot(u, parent, c, i), loose, spare, parent, c, i)
<1> DEFINE kid == u.chunk[c][i]
           before == FirstKids(t, c, i - 1)
           after == FirstKids(t, c, i)
           w == WithKid(u, <<c, i>>, 0)
           v == Masked(w, c, i)
           z == ReparentSlot(u, parent, c, i)
<1>1. i \in Nat /\ i - 1 \in Nat /\ i > i - 1 /\ i >= 1
  BY DEF KidSlots
<1>2. \A j \in KidSlots : j <= i <=> j <= i - 1 \/ j = i
  BY DEF KidSlots
<1>20. \A j \in KidSlots : (j > i => j > i - 1 /\ j # i) /\ (j <= i <=> ~(j > i)) /\ (j <= i - 1 <=> ~(j > i - 1))
  BY DEF KidSlots
<1>3. after = before \cup {kid} /\ loose \ after = (loose \ before) \ {kid} /\ kid = t.chunk[c][i]
  <2>1. u.chunk[c][i] = t.chunk[c][i]
    BY <1>1 DEF Moving
  <2> QED
    BY <2>1, FirstKidsGrow
<1>4. u \in TreesOf(labels) /\ Rooted(u) /\ u.label = t.label /\ u.bare = t.bare /\ (u.fault = t.fault \/ u.fault = "crash")
  BY DEF Moving
<1>5. /\ w \in TreesOf(labels) /\ Kept(u, w) /\ w.up = u.up /\ w.kid = u.kid /\ w.list = u.list /\ w.held = u.held
      /\ \A d \in PropChunks, j \in KidSlots : w.chunk[d][j] = IF d = c /\ j = i THEN 0 ELSE u.chunk[d][j]
  BY <1>4, WithKidIs
<1> HIDE DEF w
<1>6. v = Masked(u, c, i - 1)
  <2> DEFINE x == Masked(u, c, i - 1)
  <2>1. /\ v \in TreesOf(labels) /\ Kept(w, v) /\ v.up = w.up /\ v.kid = w.kid /\ v.list = w.list /\ v.held = w.held
        /\ \A d \in PropChunks : d # c => v.chunk[d] = w.chunk[d]
        /\ \A j \in KidSlots : v.chunk[c][j] = IF j <= i THEN w.chunk[c][j] ELSE 0
    <3>1. MaskOf(labels, w, v, c, i)
      BY <1>1, <1>5, Masking
    <3> HIDE DEF v
    <3> QED
      BY <3>1 DEF MaskOf
  <2>2. /\ x \in TreesOf(labels) /\ Kept(u, x) /\ x.up = u.up /\ x.kid = u.kid /\ x.list = u.list /\ x.held = u.held
        /\ \A d \in PropChunks : d # c => x.chunk[d] = u.chunk[d]
        /\ \A j \in KidSlots : x.chunk[c][j] = IF j <= i - 1 THEN u.chunk[c][j] ELSE 0
    <3>1. MaskOf(labels, u, x, c, i - 1)
      BY <1>1, <1>4, Masking
    <3> HIDE DEF x
    <3> QED
      BY <3>1 DEF MaskOf
  <2> HIDE DEF v, x
  <2>3. \A j \in KidSlots : v.chunk[c][j] = x.chunk[c][j]
    <3>1. ASSUME NEW j \in KidSlots PROVE v.chunk[c][j] = x.chunk[c][j]
      <4>1. w.chunk[c][j] = IF j = i THEN 0 ELSE u.chunk[c][j]
        BY <1>5
      <4>2. i <= i /\ ~(i <= i - 1)
        BY <1>1
      <4> QED
        BY <1>2, <2>1, <2>2, <4>1, <4>2
    <3> QED
      BY <3>1
  <2>4. \A d \in PropChunks : \A j \in KidSlots : v.chunk[d][j] = x.chunk[d][j]
    BY <1>5, <2>1, <2>2, <2>3
  <2>5. Kept(v, x) /\ v.up = x.up /\ v.kid = x.kid /\ v.list = x.list /\ v.held = x.held
    BY <1>5, <2>1, <2>2 DEF Kept
  <2> QED
    BY <2>1, <2>2, <2>4, <2>5, TreesEqual DEF x
<1>7. \/ /\ Linked(v, loose \ before, spare)
         /\ \A j \in KidSlots : j <= i - 1 => u.chunk[c][j] = 0
      \/ Linked(v, loose \ before, spare \ {c})
  BY <1>6 DEF Moving
<1>8. CASE kid = 0
  <2>1. z = u
    BY <1>8 DEF ReparentSlot
  <2>2. w = u
    <3>1. \A d \in PropChunks : \A j \in KidSlots : w.chunk[d][j] = u.chunk[d][j]
      BY <1>5, <1>8
    <3>2. Kept(w, u)
      BY <1>5 DEF Kept
    <3> QED
      BY <1>4, <1>5, <3>1, <3>2, TreesEqual
  <2>3. Masked(u, c, i) = v
    BY <2>2
  <2>4. \A m \in Nodes : m \in after <=> m \in before
    BY <1>3, <1>8 DEF Nodes
  <2>5. Moving(labels, t, u, loose, spare, parent, c, i)
    <3>1. loose \ after = loose \ before \/ 0 \in loose
      BY <1>3, <1>8
    <3>2. \A x \in TreesOf(labels) : \A s : Linked(x, loose \ before, s) => Linked(x, loose \ after, s)
      <4>1. \A m \in Nodes : m \in loose \ after <=> m \in loose \ before
        BY <1>3, <1>8 DEF Nodes
      <4>2. \A x \in TreesOf(labels) : UpLinked(x, loose \ before) => UpLinked(x, loose \ after)
        BY <4>1 DEF UpLinked
      <4>3. \A x \in TreesOf(labels) : KidLinked(x, loose \ before) => KidLinked(x, loose \ after)
        BY <4>1 DEF KidLinked
      <4> QED
        BY <4>2, <4>3 DEF Linked
    <3>3. v \in TreesOf(labels)
      BY <1>1, <1>5, MaskedIs
    <3> HIDE DEF v, before, after
    <3>4. \/ /\ Linked(v, loose \ after, spare)
             /\ \A j \in KidSlots : j <= i - 1 => u.chunk[c][j] = 0
          \/ Linked(v, loose \ after, spare \ {c})
      BY <1>7, <3>2, <3>3
    <3>5. \/ /\ Linked(Masked(u, c, i), loose \ FirstKids(t, c, i), spare)
             /\ \A j \in KidSlots : j <= i => u.chunk[c][j] = 0
          \/ Linked(Masked(u, c, i), loose \ FirstKids(t, c, i), spare \ {c})
      BY <1>2, <1>8, <2>3, <3>4 DEF after
    <3>6. \A m \in Nodes : u.up[m] = IF m \in FirstKids(t, c, i) THEN parent ELSE t.up[m]
      BY <2>4 DEF Moving, before, after
    <3>7. \A j \in KidSlots : j > i => u.chunk[c][j] = t.chunk[c][j]
      BY <1>20 DEF Moving
    <3>8. parent # 0 =>
           /\ u.kid[parent] # 0 => i >= 1
           /\ i >= 1 /\ t.chunk[c][1] # 0 => u.kid[parent] # 0 \/ u.list[parent] # <<>>
           /\ i >= 2 /\ t.chunk[c][1] # 0 /\ t.chunk[c][2] # 0 => u.kid[parent] = 0
      <4>1. i = 1 \/ i = 2 \/ (i - 1 >= 2 /\ i - 1 >= 1)
        BY <1>1
      <4>2. t.chunk[c][1] # 0 => i # 1
        BY <1>3, <1>8
      <4>3. t.chunk[c][2] # 0 => i # 2
        BY <1>3, <1>8
      <4>4. i = 2 => i - 1 >= 1
        OBVIOUS
      <4>5. parent # 0 =>
           /\ i - 1 >= 1 /\ t.chunk[c][1] # 0 => u.kid[parent] # 0 \/ u.list[parent] # <<>>
           /\ i - 1 >= 2 /\ t.chunk[c][1] # 0 /\ t.chunk[c][2] # 0 => u.kid[parent] = 0
        BY DEF Moving
      <4> QED
        BY <1>1, <4>1, <4>2, <4>3, <4>4, <4>5
    <3>9. /\ \A q \in Nodes : q # parent => u.kid[q] = t.kid[q] /\ u.list[q] = t.list[q]
          /\ \A d \in spare : d # c => u.chunk[d] = t.chunk[d]
          /\ t.held \subseteq u.held
      BY DEF Moving
    <3>10. u.roots \subseteq t.roots \cup FirstKids(t, c, i)
      BY <1>3 DEF Moving, before, after
    <3> QED
      BY <1>4, <3>10, <3>5, <3>6, <3>7, <3>8, <3>9 DEF Moving
  <2> QED
    BY <2>1, <2>5
<1>9. CASE kid # 0
  <2>1. kid \in Nodes /\ kid \in loose /\ t.up[kid] # 0 /\ t.label[kid] # NoLabel
    <3>1. t.chunk[c][i] \in Nodes \cup {0}
      BY DEF TreesOf
    <3> QED
      BY <1>3, <1>9, <3>1 DEF Loaded
  <2>2. kid \notin before
    <3>1. ASSUME NEW j \in KidSlots, j <= i - 1 PROVE t.chunk[c][j] # kid
      BY <1>1, <1>3, <1>9, <3>1 DEF Loaded
    <3> QED
      BY <3>1 DEF FirstKids
  <2>3. v.up[kid] # 0 /\ v.label[kid] # NoLabel /\ w.label[kid] # NoLabel /\ v.up = u.up /\ u.up[kid] = t.up[kid]
    <3>1. u.up[kid] = t.up[kid] /\ u.label = t.label
      BY <2>1, <2>2 DEF Moving
    <3>2. w.label = u.label /\ w.up = u.up
      BY <1>5 DEF Kept
    <3>3. v.label = w.label /\ v.up = w.up
      BY <1>1, <1>5, Masking DEF MaskOf, Kept
    <3> QED
      BY <2>1, <3>1, <3>2, <3>3
  <2>4. z = Reparent(w, parent, kid, c)
    BY <1>9 DEF ReparentSlot, w
  <2>5. /\ v \in TreesOf(labels) /\ Kept(w, v) /\ v.kid = u.kid /\ v.list = u.list /\ v.held = u.held
        /\ \A d \in PropChunks : d # c => v.chunk[d] = u.chunk[d]
        /\ \A j \in KidSlots : j >= i => v.chunk[c][j] = 0
        /\ \A j \in KidSlots : j <= i - 1 => v.chunk[c][j] = u.chunk[c][j]
    <3>1. MaskOf(labels, w, v, c, i)
      BY <1>1, <1>5, Masking
    <3>2. \A d \in PropChunks : d # c => w.chunk[d] = u.chunk[d]
      <4>1. w.chunk \in [PropChunks -> [KidSlots -> Nodes \cup {0}]] /\ u.chunk \in [PropChunks -> [KidSlots -> Nodes \cup {0}]]
        BY <1>4, <1>5 DEF TreesOf
      <4> QED
        BY <1>5, <4>1
    <3>3. ASSUME NEW j \in KidSlots, j >= i PROVE v.chunk[c][j] = 0
      <4>1. j = i \/ ~(j <= i)
        BY <1>1, <3>3 DEF KidSlots
      <4> QED
        BY <1>5, <3>1, <4>1 DEF MaskOf
    <3>4. ASSUME NEW j \in KidSlots, j <= i - 1 PROVE v.chunk[c][j] = u.chunk[c][j]
      <4>1. j # i /\ j <= i
        BY <1>1, <3>4 DEF KidSlots
      <4> QED
        BY <1>5, <3>1, <4>1 DEF MaskOf
    <3> QED
      BY <1>5, <3>1, <3>2, <3>3, <3>4 DEF MaskOf
  <2>6. Rooted(w) /\ Rooted(v)
    <3>1. w.label = u.label /\ w.up = u.up /\ w.roots = u.roots
      BY <1>5 DEF Kept
    <3>2. v.label = u.label /\ v.up = u.up /\ v.roots = u.roots
      BY <2>3, <2>5, <3>1 DEF Kept
    <3> QED
      BY <1>4, <3>1, <3>2 DEF Rooted
  <2>7. parent # 0 /\ w.kid[parent] # 0 => i > 1
    <3>1. parent # 0 /\ u.kid[parent] # 0 => i - 1 >= 1
      BY DEF Moving
    <3> QED
      BY <1>1, <1>5, <3>1
  <2>8. /\ z \in TreesOf(labels)
        /\ Reparent(v, parent, kid, c) = Masked(z, c, i)
        /\ \A j \in KidSlots : j > i => z.chunk[c][j] = w.chunk[c][j]
    <3>1. w.chunk[c][i] = 0
      BY <1>5
    <3> DEFINE k == kid
    <3>2. k \in Nodes /\ w.label[k] # NoLabel
      BY <2>1, <2>3
    <3> HIDE DEF k
    <3>3. /\ Reparent(w, parent, k, c) \in TreesOf(labels)
          /\ Reparent(Masked(w, c, i), parent, k, c) = Masked(Reparent(w, parent, k, c), c, i)
          /\ \A j \in KidSlots : j > i => Reparent(w, parent, k, c).chunk[c][j] = w.chunk[c][j]
      BY <1>5, <2>6, <2>7, <3>1, <3>2, MaskedReparent
    <3> QED
      BY <2>4, <3>3 DEF k
  <2>9. PICK S \in {spare, spare \ {c}} :
          Linked(v, loose \ before, S) /\ (S = spare => \A j \in KidSlots : j <= i - 1 => u.chunk[c][j] = 0)
    <3>1. CASE Linked(v, loose \ before, spare) /\ \A j \in KidSlots : j <= i - 1 => u.chunk[c][j] = 0
      BY <3>1
    <3>2. CASE Linked(v, loose \ before, spare \ {c})
      <4>1. spare \ {c} # spare
        BY DEF Loaded
      <4> QED
        BY <3>2, <4>1
    <3> QED
      BY <1>7, <3>1, <3>2
  <2>10. c \notin S => \E k \in DOMAIN v.list[parent] : parent # 0 /\ v.list[parent][k] = c
    <3>1. SUFFICES ASSUME c \notin S PROVE \E k \in DOMAIN v.list[parent] : parent # 0 /\ v.list[parent][k] = c
      OBVIOUS
    <3>2. c \in spare /\ spare \subseteq t.held /\ t.held \subseteq u.held
      BY DEF Loaded, Linked, Holding, Moving
    <3>3. c \in v.held \ S
      BY <2>5, <3>1, <3>2
    <3>4. PICK p \in Nodes : \E k \in DOMAIN v.list[p] : v.list[p][k] = c
      BY <2>9, <3>3 DEF Linked, Holding
    <3>5. p # parent => v.list[p] = t.list[p]
      BY <2>5 DEF Moving
    <3>6. \A k \in DOMAIN t.list[p] : t.list[p][k] # c
      BY <3>2 DEF Linked, Holding
    <3>7. p = parent
      BY <3>4, <3>5, <3>6
    <3> QED
      BY <3>4, <3>7 DEF Nodes
  <2>11. parent # 0 /\ FirstPlace(v, parent, {0}) = NoPlace => S = spare /\ \A j \in KidSlots : v.chunk[c][j] = 0
    <3>1. SUFFICES ASSUME parent # 0, FirstPlace(v, parent, {0}) = NoPlace
                   PROVE  S = spare /\ \A j \in KidSlots : v.chunk[c][j] = 0
      OBVIOUS
    <3>2. v.chunk[c][i] = 0
      BY <1>1, <2>5
    <3>3. S = spare
      <4>1. \A k \in DOMAIN v.list[parent], j \in KidSlots : v.chunk[v.list[parent][k]][j] # 0
        <5>1. parent \in Nodes
          BY <3>1
        <5> QED
          BY <2>5, <3>1, <5>1, NoGap
      <4>2. c \in S
        BY <2>10, <3>2, <4>1
      <4> QED
        BY <4>2
    <3>4. \A j \in KidSlots : j <= i - 1 \/ j >= i
      BY <1>1 DEF KidSlots
    <3>5. \A j \in KidSlots : j <= i - 1 => v.chunk[c][j] = 0
      BY <2>5, <2>9, <3>3
    <3> QED
      BY <2>5, <3>3, <3>4, <3>5
  <2>12. KidRaised(labels, v, Reparent(v, parent, kid, c), loose \ before, S, parent, kid, c)
    <3> DEFINE k == kid
               lo == loose \ before
    <3>1. k \in lo /\ k \in Nodes /\ v.up[k] # 0 /\ v.label[k] # NoLabel
      BY <2>1, <2>2, <2>3
    <3>2. Linked(v, lo, S) /\ c # 0 /\ Loaded(t, loose, spare, c)
      BY <2>9 DEF PropChunks
    <3>3. parent # 0 /\ c # 0 /\ FirstPlace(v, parent, {0}) = NoPlace => c \in S /\ \A j \in KidSlots : v.chunk[c][j] = 0
      BY <2>11 DEF Loaded
    <3>4. v \in TreesOf(labels) /\ Rooted(v)
      BY <2>5, <2>6
    <3> HIDE DEF k, lo, v
    <3>5. KidRaised(labels, v, Reparent(v, parent, k, c), lo, S, parent, k, c)
      BY <3>1, <3>2, <3>3, <3>4, KidReparented
    <3> QED
      BY <3>5 DEF k, lo, v
  <2> DEFINE x == Masked(z, c, i)
  <2>13. MaskOf(labels, z, x, c, i)
    BY <1>1, <2>8, Masking
  <2>14. KidRaised(labels, v, x, loose \ before, S, parent, kid, c)
    BY <2>8, <2>12
  <2>15. v.up = u.up /\ v.label = u.label /\ v.bare = u.bare /\ v.fault = u.fault /\ v.roots = u.roots
    BY <1>5, <2>3, <2>5 DEF Kept
  <2>16. c \in spare /\ spare \subseteq PropChunks
    BY DEF Loaded, Linked, Holding, TreesOf
  <2> HIDE DEF x, v, z, after, before, kid
  <2>17. /\ z \in TreesOf(labels) /\ z.label = t.label /\ z.bare = t.bare
         /\ z.fault = t.fault \/ z.fault = "crash"
    BY <1>4, <2>8, <2>13, <2>14, <2>15 DEF MaskOf, Kept, KidRaised
  <2>18. Rooted(z)
    <3>1. x.label = z.label /\ x.up = z.up /\ x.roots = z.roots /\ Rooted(x)
      BY <2>13, <2>14 DEF MaskOf, Kept, KidRaised
    <3> QED
      BY <3>1 DEF Rooted
  <2>19. t.held \subseteq z.held
    BY <2>5, <2>13, <2>14 DEF MaskOf, KidRaised, Moving
  <2>20. \A m \in Nodes : z.up[m] = IF m \in after THEN parent ELSE t.up[m]
    <3>1. z.up = [u.up EXCEPT ![kid] = parent]
      BY <2>13, <2>14, <2>15 DEF MaskOf, KidRaised
    <3>2. \A m \in Nodes : u.up[m] = IF m \in before THEN parent ELSE t.up[m]
      BY DEF Moving, before
    <3>3. u.up \in [Nodes -> Nodes \cup {0}]
      BY <1>4 DEF TreesOf
    <3> QED
      BY <1>3, <3>1, <3>2, <3>3
  <2>21. \A q \in Nodes : q # parent => z.kid[q] = t.kid[q] /\ z.list[q] = t.list[q]
    <3>1. \A q \in Nodes : q # parent => u.kid[q] = t.kid[q] /\ u.list[q] = t.list[q]
      BY DEF Moving
    <3> QED
      BY <2>5, <2>13, <2>14, <3>1 DEF MaskOf, KidRaised
  <2>22. \A d \in spare : d # c => z.chunk[d] = t.chunk[d]
    <3>1. \A d \in spare : d # c => u.chunk[d] = t.chunk[d]
      BY DEF Moving
    <3>2. \A d \in spare : d # c => x.chunk[d] = v.chunk[d]
      BY <2>14 DEF KidRaised
    <3>3. \A d \in spare : d # c => x.chunk[d] = z.chunk[d]
      BY <2>13, <2>16 DEF MaskOf
    <3>4. \A d \in spare : d # c => v.chunk[d] = u.chunk[d]
      BY <2>5, <2>16
    <3> QED
      BY <3>1, <3>2, <3>3, <3>4
  <2>23. \A j \in KidSlots : j > i => z.chunk[c][j] = t.chunk[c][j]
    <3>1. \A j \in KidSlots : j > i - 1 => u.chunk[c][j] = t.chunk[c][j]
      BY DEF Moving
    <3> QED
      BY <1>5, <1>20, <2>8, <3>1
  <2>24. \/ /\ Linked(x, loose \ after, spare)
            /\ \A j \in KidSlots : j <= i => z.chunk[c][j] = 0
         \/ Linked(x, loose \ after, spare \ {c})
    <3>1. (loose \ before) \ {kid} = loose \ after
      BY <1>3
    <3>2. CASE S = spare \ {c}
      <4>1. S \ {c} = S
        BY <3>2
      <4>2. Linked(x, (loose \ before) \ {kid}, S)
        BY <2>14, <4>1 DEF KidRaised
      <4> QED
        BY <3>1, <3>2, <4>2
    <3>3. CASE S = spare
      <4>1. CASE Linked(x, (loose \ before) \ {kid}, S \ {c})
        BY <3>1, <3>3, <4>1
      <4>2. CASE Linked(x, (loose \ before) \ {kid}, S) /\ \A d \in S : x.chunk[d] = v.chunk[d]
        <5>1. \A j \in KidSlots : j <= i => z.chunk[c][j] = v.chunk[c][j]
          BY <2>13, <2>16, <3>3, <4>2 DEF MaskOf
        <5>2. ASSUME NEW j \in KidSlots, j <= i PROVE v.chunk[c][j] = 0
          <6>1. j <= i - 1 \/ j >= i
            BY <1>1 DEF KidSlots
          <6> QED
            BY <2>5, <2>9, <3>3, <6>1
        <5> QED
          BY <3>1, <3>3, <4>2, <5>1, <5>2
      <4> QED
        BY <2>14, <4>1, <4>2 DEF KidRaised
    <3> QED
      BY <3>2, <3>3
  <2>25. parent # 0 =>
           /\ z.kid[parent] # 0 => i >= 1
           /\ i >= 1 /\ t.chunk[c][1] # 0 => z.kid[parent] # 0 \/ z.list[parent] # <<>>
           /\ i >= 2 /\ t.chunk[c][1] # 0 /\ t.chunk[c][2] # 0 => z.kid[parent] = 0
    <3>1. SUFFICES ASSUME parent # 0
                   PROVE  /\ z.kid[parent] # 0 \/ z.list[parent] # <<>>
                          /\ i >= 2 /\ t.chunk[c][1] # 0 /\ t.chunk[c][2] # 0 => z.kid[parent] = 0
      BY <1>1
    <3>2. /\ z.kid[parent] = 0 => z.list[parent] # <<>>
          /\ u.kid[parent] # 0 \/ u.list[parent] # <<>> => z.kid[parent] = 0
      BY <2>5, <2>13, <2>14, <3>1 DEF MaskOf, KidRaised
    <3>3. i >= 2 => i - 1 >= 1
      BY <1>1
    <3>4. i >= 2 /\ t.chunk[c][1] # 0 => u.kid[parent] # 0 \/ u.list[parent] # <<>>
      BY <3>1, <3>3 DEF Moving
    <3> QED
      BY <3>2, <3>4
  <2>26. z.roots \subseteq t.roots \cup after
    <3>1. x.roots = z.roots /\ x.roots \subseteq v.roots \cup {kid} /\ v.roots = u.roots
      BY <2>13, <2>14, <2>15 DEF MaskOf, Kept, KidRaised
    <3>2. u.roots \subseteq t.roots \cup before
      BY DEF Moving, before
    <3> QED
      BY <1>3, <3>1, <3>2
  <2> QED
    BY <2>26, <2>17, <2>18, <2>19, <2>20, <2>21, <2>22, <2>23, <2>24, <2>25 DEF Moving, x, z, after
<1> QED
  BY <1>8, <1>9

\* A chunk that stayed empty is freed, one that is in a list is not.
FreedOf(labels, t, u, loose, spare, c) ==
  /\ u \in TreesOf(labels) /\ Kept(t, u) /\ u.up = t.up /\ u.kid = t.kid /\ u.list = t.list /\ u.chunk = t.chunk
  /\ u.held \in {t.held, t.held \ {c}} /\ Linked(u, loose, spare)

LEMMA SpareFreed ==
  ASSUME NEW labels, NEW t \in TreesOf(labels), NEW loose, NEW spare, Linked(t, loose, spare),
         NEW c \in spare, t.chunk[c][1] = 0
  PROVE  FreedOf(labels, t, Freed(t, c), loose, spare \ {c}, c)
<1> DEFINE u == Freed(t, c)
<1>1. c \in PropChunks
  BY DEF Linked, Holding, TreesOf
<1>2. u = [t EXCEPT !.held = t.held \ {c}]
  BY <1>1 DEF Freed, PropChunks
<1>3. /\ u \in TreesOf(labels) /\ Kept(t, u) /\ u.up = t.up /\ u.kid = t.kid /\ u.list = t.list /\ u.chunk = t.chunk
      /\ u.held = t.held \ {c}
  <2> HIDE DEF u
  <2> QED
    BY <1>2 DEF TreesOf, Kept
<1> HIDE DEF u
<1>4. \A p, n \in Nodes : KidIn(u, p, n) <=> KidIn(t, p, n)
  BY <1>3 DEF KidIn
<1>5. UpLinked(u, loose) /\ KidLinked(u, loose)
  BY <1>3, <1>4 DEF Linked, UpLinked, KidLinked, TreesOf
<1>6. \A p \in Nodes : ChunksSound(u, p)
  BY <1>3 DEF Linked, ChunksSound
<1>7. Apart(u)
  BY <1>3 DEF Linked, Apart
<1>8. Holding(u, spare \ {c})
  BY <1>3 DEF Linked, Holding
<1> QED
  BY <1>3, <1>5, <1>6, <1>7, <1>8 DEF Linked, FreedOf, u

LEMMA ListedKept ==
  ASSUME NEW labels, NEW t \in TreesOf(labels), NEW loose, NEW spare, Linked(t, loose, spare),
         NEW c \in t.held \ spare
  PROVE  Freed(t, c) = t
<1>1. PICK p \in Nodes : \E k \in DOMAIN t.list[p] : t.list[p][k] = c
  BY DEF Linked, Holding
<1>2. PICK k \in DOMAIN t.list[p] : t.list[p][k] = c
  BY <1>1
<1>3. t.chunk[c][1] # 0
  <2>1. 1 \in KidSlots
    BY TreeAssumption DEF KidSlots
  <2>2. ChunksSound(t, p)
    BY DEF Linked
  <2>3. \A l \in DOMAIN t.list[p], i \in KidSlots : t.chunk[t.list[p][l]][i] = 0 => i > 1
    BY <2>2 DEF ChunksSound
  <2> QED
    BY <1>2, <2>1, <2>3
<1> QED
  BY <1>3 DEF Freed

AllKids(t, c) == {t.chunk[c][j] : j \in KidSlots}

\* The kids of chunk c have become kids of parent.
ChunkMoved(labels, t, u, loose, spare, parent, c) ==
  /\ u \in TreesOf(labels) /\ u.label = t.label /\ u.bare = t.bare
  /\ u.fault = t.fault \/ u.fault = "crash"
  /\ Rooted(u) /\ u.roots \subseteq t.roots \cup AllKids(t, c)
  /\ \A m \in Nodes : u.up[m] = IF m \in AllKids(t, c) THEN parent ELSE t.up[m]
  /\ \A q \in Nodes : q # parent => u.kid[q] = t.kid[q] /\ u.list[q] = t.list[q]
  /\ \A d \in spare : d # c => u.chunk[d] = t.chunk[d]
  /\ Linked(u, loose \ AllKids(t, c), spare \ {c})
  /\ parent # 0 /\ t.chunk[c][1] # 0 /\ t.chunk[c][2] # 0 => u.kid[parent] = 0

LEMMA AllMoved ==
  ASSUME NEW labels, NEW t \in TreesOf(labels), NEW loose, NEW spare, NEW parent \in Nodes \cup {0},
         NEW c \in PropChunks, Loaded(t, loose, spare, c), Linked(t, loose, spare), NEW u,
         Moving(labels, t, u, loose, spare, parent, c, KidsPerChunk)
  PROVE  ChunkMoved(labels, t, Freed(u, c), loose, spare, parent, c)
<1> DEFINE n == KidsPerChunk
<1>1. n \in Nat /\ n > 1 /\ n >= 1 /\ n >= 2 /\ KidSlots = 1..n /\ 1 \in KidSlots
  BY TreeAssumption DEF KidSlots
<1>2. FirstKids(t, c, n) = AllKids(t, c)
  <2>1. {j \in KidSlots : j <= n} = KidSlots
    BY <1>1
  <2> HIDE DEF n
  <2> QED
    BY <2>1 DEF FirstKids, AllKids
<1>3. u \in TreesOf(labels) /\ Masked(u, c, n) = u
  <2>1. u \in TreesOf(labels)
    BY DEF Moving
  <2>2. MaskOf(labels, u, Masked(u, c, n), c, n)
    <3> HIDE DEF n
    <3> QED
      BY <1>1, <2>1, Masking
  <2>3. \A j \in KidSlots : j <= n
    BY <1>1
  <2> HIDE DEF n
  <2> DEFINE v == Masked(u, c, n)
  <2> HIDE DEF v
  <2>4. /\ v \in TreesOf(labels) /\ Kept(u, v) /\ v.up = u.up /\ v.kid = u.kid /\ v.list = u.list /\ v.held = u.held
        /\ \A d \in PropChunks : d # c => v.chunk[d] = u.chunk[d]
        /\ \A j \in KidSlots : v.chunk[c][j] = u.chunk[c][j]
    BY <2>2, <2>3 DEF MaskOf, v
  <2>5. \A d \in PropChunks : \A j \in KidSlots : u.chunk[d][j] = v.chunk[d][j]
    BY <2>4
  <2>6. u = v
    BY <2>1, <2>4, <2>5, TreesEqual
  <2> QED
    BY <2>1, <2>6 DEF v
<1> HIDE DEF n
<1> DEFINE lo == loose \ AllKids(t, c)
<1>4. \/ Linked(u, lo, spare) /\ \A j \in KidSlots : j <= n => u.chunk[c][j] = 0
      \/ Linked(u, lo, spare \ {c})
  BY <1>2, <1>3 DEF Moving, n
<1>5. c \in spare /\ spare \subseteq t.held /\ t.held \subseteq u.held
  BY DEF Loaded, Linked, Holding, Moving
<1>6. FreedOf(labels, u, Freed(u, c), lo, spare \ {c}, c)
  <2>1. CASE Linked(u, lo, spare) /\ \A j \in KidSlots : j <= n => u.chunk[c][j] = 0
    <3>1. u.chunk[c][1] = 0
      BY <1>1, <2>1
    <3> HIDE DEF lo
    <3> QED
      BY <1>3, <1>5, <2>1, <3>1, SpareFreed
  <2>2. CASE Linked(u, lo, spare \ {c})
    <3>1. c \in u.held \ (spare \ {c})
      BY <1>5
    <3> HIDE DEF lo
    <3>2. Freed(u, c) = u
      BY <1>3, <2>2, <3>1, ListedKept
    <3>3. FreedOf(labels, u, u, lo, spare \ {c}, c)
      BY <1>3, <2>2 DEF FreedOf, Kept
    <3> QED
      BY <3>2, <3>3
  <2> QED
    BY <1>4, <2>1, <2>2
<1> DEFINE v == Freed(u, c)
<1> HIDE DEF v
<1>7. /\ v \in TreesOf(labels) /\ v.label = t.label /\ v.bare = t.bare
      /\ v.fault = t.fault \/ v.fault = "crash"
  BY <1>6 DEF v, FreedOf, Kept, Moving
<1>80. v.roots \subseteq t.roots \cup AllKids(t, c)
  <2>1. u.roots \subseteq t.roots \cup AllKids(t, c)
    BY <1>2 DEF Moving, n
  <2> QED
    BY <1>6, <2>1 DEF v, FreedOf, Kept
<1>8. Rooted(v)
  <2>1. v.label = u.label /\ v.up = u.up /\ v.roots = u.roots /\ Rooted(u)
    BY <1>6 DEF v, FreedOf, Kept, Moving
  <2> QED
    BY <2>1 DEF Rooted
<1>9. \A m \in Nodes : v.up[m] = IF m \in AllKids(t, c) THEN parent ELSE t.up[m]
  BY <1>2, <1>6 DEF v, FreedOf, Moving, n
<1>10. /\ \A q \in Nodes : q # parent => v.kid[q] = t.kid[q] /\ v.list[q] = t.list[q]
       /\ \A d \in spare : d # c => v.chunk[d] = t.chunk[d]
  BY <1>6 DEF v, FreedOf, Moving
<1>11. Linked(v, lo, spare \ {c})
  BY <1>6 DEF v, FreedOf
<1>12. parent # 0 /\ t.chunk[c][1] # 0 /\ t.chunk[c][2] # 0 => v.kid[parent] = 0
  BY <1>1, <1>6 DEF v, FreedOf, Moving, n
<1> QED
  BY <1>80, <1>7, <1>8, <1>9, <1>10, <1>11, <1>12 DEF ChunkMoved, v

LEMMA ChunkReparented ==
  ASSUME NEW labels, NEW t \in TreesOf(labels), NEW loose, NEW spare, NEW parent \in Nodes \cup {0},
         NEW c \in PropChunks, Loaded(t, loose, spare, c), Linked(t, loose, spare), Rooted(t),
         parent # 0 => t.kid[parent] = 0
  PROVE  ChunkMoved(labels, t, ReparentChunk(t, parent, c), loose, spare, parent, c)
<1> DEFINE n == KidsPerChunk
           D == TreesOf(labels)
           J == [i \in 0..n |-> {u \in D : Moving(labels, t, u, loose, spare, parent, c, i)}]
           g == [x \in D \X (1..n) |-> IF ReparentSlot(x[1], parent, c, x[2]) \in D
                                      THEN ReparentSlot(x[1], parent, c, x[2]) ELSE t]
           Runs(f) == f = [i \in 0..n |-> IF i = 0 THEN t ELSE ReparentSlot(f[i - 1], parent, c, i)]
           after == CHOOSE f : Runs(f)
<1>1. n \in Nat /\ KidSlots = 1..n
  BY TreeAssumption DEF KidSlots
<1>2. t \in J[0]
  <2>1. Moving(labels, t, t, loose, spare, parent, c, 0)
    BY MovingStarts DEF Loaded
  <2> QED
    BY <1>1, <2>1
<1>3. ASSUME NEW k \in 1..n, NEW x \in J[k - 1]
      PROVE  ReparentSlot(x, parent, c, k) \in J[k]
  <2>1. Moving(labels, t, x, loose, spare, parent, c, k - 1)
    BY <1>1
  <2>2. Moving(labels, t, ReparentSlot(x, parent, c, k), loose, spare, parent, c, k)
    BY <1>1, <2>1, SlotMoved
  <2>3. ReparentSlot(x, parent, c, k) \in D
    BY <2>2 DEF Moving
  <2> QED
    BY <1>1, <2>2, <2>3
<1>4. \A k \in 0..n : J[k] \subseteq D
  OBVIOUS
<1>5. ASSUME NEW k \in 1..n, NEW x \in J[k - 1] PROVE g[<<x, k>>] = ReparentSlot(x, parent, c, k)
  <2>1. k - 1 \in 0..n /\ k \in 0..n
    BY <1>1
  <2>2. ReparentSlot(x, parent, c, k) \in J[k] /\ J[k] \subseteq D /\ J[k - 1] \subseteq D
    BY <1>3, <1>4, <2>1
  <2> HIDE DEF J
  <2>3. ReparentSlot(x, parent, c, k) \in D /\ <<x, k>> \in D \X (1..n)
    BY <2>2
  <2> HIDE DEF D
  <2> QED
    BY <2>3
<1>6. g \in [D \X (1..n) -> D]
  OBVIOUS
<1> HIDE DEF n, J, g, D
<1>7. \A k \in 1..n : \A x \in J[k - 1] : g[<<x, k>>] \in J[k]
  BY <1>3, <1>5
<1>8. Keeps(n, D, J, t, g)
  BY <1>1, <1>2, <1>4, <1>6, <1>7 DEF Keeps
<1>80. \E f \in [0..n -> D] : RunOf(n, J, t, g, f)
  BY <1>8, LoopRuns
<1>81. PICK f \in [0..n -> D] : f[0] = t /\ \A k \in 1..n : f[k] = g[<<f[k - 1], k>>] /\ f[k - 1] \in J[k - 1]
  BY <1>80 DEF RunOf
<1>9. Runs(f)
  <2>1. \A i \in 0..n : i = 0 \/ i \in 1..n
    BY <1>1
  <2>2. \A i \in 1..n : f[i] = ReparentSlot(f[i - 1], parent, c, i)
    BY <1>5, <1>81
  <2> QED
    BY <1>81, <2>1, <2>2
<1>10. Runs(after)
  <2> HIDE DEF Runs
  <2> QED
    BY <1>9, Zenon
<1>11. after[0] = t /\ \A k \in 1..n : after[k] = ReparentSlot(after[k - 1], parent, c, k)
  <2> HIDE DEF after
  <2> QED
    BY <1>1, <1>10
<1>12. ReparentChunk(t, parent, c) = Freed(after[n], c)
  BY DEF ReparentChunk, n
<1> HIDE DEF after
<1>13. after[n] \in J[n]
  <2> DEFINE P == {k \in 0..n : after[k] \in J[k]}
  <2>1. 0 \in P
    BY <1>1, <1>2, <1>11
  <2>2. \A k \in 1..n : k - 1 \in P => k \in P
    BY <1>1, <1>3, <1>11
  <2> HIDE DEF P
  <2>3. 0..n \subseteq P
    BY <1>1, <2>1, <2>2, UpTo
  <2>4. n \in P
    BY <1>1, <2>3
  <2> QED
    BY <2>4 DEF P
<1>14. Moving(labels, t, after[n], loose, spare, parent, c, n)
  BY <1>1, <1>13 DEF J
<1> QED
  BY <1>12, <1>14, AllMoved DEF n

\* Chunks that have left the list of a node, full up to the last kid.
Stacked(t, loose, spare, chunks) ==
  /\ chunks \in Seq(PropChunks)
  /\ \A k \in DOMAIN chunks : chunks[k] \in spare
  /\ \A k, l \in DOMAIN chunks : chunks[k] = chunks[l] => k = l
  /\ \A k \in DOMAIN chunks, j \in KidSlots : t.chunk[chunks[k]][j] # 0 =>
       /\ t.chunk[chunks[k]][j] \in loose /\ t.up[t.chunk[chunks[k]][j]] # 0
       /\ t.label[t.chunk[chunks[k]][j]] # NoLabel
  /\ \A k, l \in DOMAIN chunks, i, j \in KidSlots :
       t.chunk[chunks[k]][i] = t.chunk[chunks[l]][j] => t.chunk[chunks[k]][i] = 0 \/ (k = l /\ i = j)
  /\ \A k \in DOMAIN chunks : k < Len(chunks) => t.chunk[chunks[k]][1] # 0 /\ t.chunk[chunks[k]][2] # 0

FirstChunks(chunks, k) == {chunks[l] : l \in {l \in DOMAIN chunks : l <= k}}
KidsOfFirst(t, chunks, k) == UNION {AllKids(t, c) : c \in FirstChunks(chunks, k)}

\* The kids in the first k of the chunks have become kids of parent.
Raising(labels, t, u, loose, spare, parent, chunks, k) ==
  /\ u \in TreesOf(labels) /\ u.label = t.label /\ u.bare = t.bare
  /\ u.fault = t.fault \/ u.fault = "crash"
  /\ Rooted(u) /\ u.roots \subseteq t.roots \cup KidsOfFirst(t, chunks, k)
  /\ \A m \in Nodes : u.up[m] = IF m \in KidsOfFirst(t, chunks, k) THEN parent ELSE t.up[m]
  /\ \A q \in Nodes : q # parent => u.kid[q] = t.kid[q] /\ u.list[q] = t.list[q]
  /\ \A d \in spare \ FirstChunks(chunks, k) : u.chunk[d] = t.chunk[d]
  /\ Linked(u, loose \ KidsOfFirst(t, chunks, k), spare \ FirstChunks(chunks, k))
  /\ parent # 0 /\ k < Len(chunks) => u.kid[parent] = 0

LEMMA FirstChunksGrow ==
  ASSUME NEW t, NEW chunks \in Seq(PropChunks), NEW k \in 1..Len(chunks)
  PROVE  /\ FirstChunks(chunks, k) = FirstChunks(chunks, k - 1) \cup {chunks[k]}
         /\ KidsOfFirst(t, chunks, k) = KidsOfFirst(t, chunks, k - 1) \cup AllKids(t, chunks[k])
<1>1. DOMAIN chunks = 1..Len(chunks) /\ Len(chunks) \in Nat
  OBVIOUS
<1>2. {l \in DOMAIN chunks : l <= k} = {l \in DOMAIN chunks : l <= k - 1} \cup {k}
  BY <1>1
<1>3. FirstChunks(chunks, k) = FirstChunks(chunks, k - 1) \cup {chunks[k]}
  BY <1>2 DEF FirstChunks
<1> QED
  BY <1>3 DEF KidsOfFirst

LEMMA NextChunkRaised ==
  ASSUME NEW labels, NEW t \in TreesOf(labels), NEW loose, NEW spare, spare \subseteq PropChunks,
         NEW parent \in Nodes \cup {0},
         NEW chunks \in Seq(PropChunks), Stacked(t, loose, spare, chunks), NEW k \in 1..Len(chunks), NEW u,
         Raising(labels, t, u, loose, spare, parent, chunks, k - 1)
  PROVE  Raising(labels, t, ReparentChunk(u, parent, chunks[k]), loose, spare, parent, chunks, k)
<1> DEFINE c == chunks[k]
           lo == loose \ KidsOfFirst(t, chunks, k - 1)
           sp == spare \ FirstChunks(chunks, k - 1)
           v == ReparentChunk(u, parent, c)
<1>1. DOMAIN chunks = 1..Len(chunks) /\ Len(chunks) \in Nat /\ k \in DOMAIN chunks /\ c \in PropChunks
  OBVIOUS
<1>2. /\ FirstChunks(chunks, k) = FirstChunks(chunks, k - 1) \cup {c}
      /\ KidsOfFirst(t, chunks, k) = KidsOfFirst(t, chunks, k - 1) \cup AllKids(t, c)
  BY FirstChunksGrow
<1>3. c \in sp
  <2>1. \A l \in DOMAIN chunks : l <= k - 1 => chunks[l] # c
    BY <1>1 DEF Stacked
  <2>2. c \notin FirstChunks(chunks, k - 1)
    BY <2>1 DEF FirstChunks
  <2> QED
    BY <1>1, <2>2 DEF Stacked
<1>4. u.chunk[c] = t.chunk[c] /\ AllKids(u, c) = AllKids(t, c)
  BY <1>3 DEF Raising, AllKids
<1>5. ASSUME NEW j \in KidSlots, t.chunk[c][j] # 0
      PROVE  t.chunk[c][j] \notin KidsOfFirst(t, chunks, k - 1) /\ t.chunk[c][j] \in lo
  <2>1. ASSUME NEW l \in DOMAIN chunks, l <= k - 1, NEW i \in KidSlots PROVE t.chunk[chunks[l]][i] # t.chunk[c][j]
    <3>1. l # k
      BY <1>1, <2>1
    <3> QED
      BY <1>1, <1>5, <3>1 DEF Stacked
  <2>2. t.chunk[c][j] \notin KidsOfFirst(t, chunks, k - 1)
    BY <2>1 DEF KidsOfFirst, FirstChunks, AllKids
  <2> QED
    BY <1>1, <1>5, <2>2 DEF Stacked
<1>6. Loaded(u, lo, sp, c)
  <2>1. ASSUME NEW j \in KidSlots, u.chunk[c][j] # 0
        PROVE  u.chunk[c][j] \in lo /\ u.up[u.chunk[c][j]] # 0 /\ u.label[u.chunk[c][j]] # NoLabel
    <3>1. t.chunk[c][j] # 0 /\ u.chunk[c][j] = t.chunk[c][j] /\ t.chunk[c][j] \in Nodes \cup {0}
      BY <1>4, <2>1 DEF TreesOf
    <3>2. u.up[t.chunk[c][j]] = t.up[t.chunk[c][j]] /\ u.label = t.label
      BY <1>5, <3>1 DEF Raising
    <3>3. t.up[t.chunk[c][j]] # 0 /\ t.label[t.chunk[c][j]] # NoLabel
      BY <1>1, <3>1 DEF Stacked
    <3> QED
      BY <1>5, <3>1, <3>2, <3>3
  <2>2. \A j, l \in KidSlots : t.chunk[c][j] = t.chunk[c][l] => t.chunk[c][j] = 0 \/ j = l
    BY <1>1 DEF Stacked
  <2> QED
    BY <1>3, <1>4, <2>1, <2>2 DEF Loaded
<1>7. u \in TreesOf(labels) /\ Linked(u, lo, sp) /\ Rooted(u)
  BY DEF Raising
<1>8. parent # 0 => u.kid[parent] = 0
  <2>1. k - 1 < Len(chunks)
    BY <1>1
  <2> QED
    BY <2>1 DEF Raising
<1>9. ChunkMoved(labels, u, v, lo, sp, parent, c)
  <2> HIDE DEF c, lo, sp
  <2> QED
    BY <1>1, <1>6, <1>7, <1>8, ChunkReparented
<1> HIDE DEF v, c
<1>10. /\ v \in TreesOf(labels) /\ v.label = t.label /\ v.bare = t.bare
       /\ v.fault = t.fault \/ v.fault = "crash"
       /\ Rooted(v)
  BY <1>9 DEF ChunkMoved, Raising
<1>11. v.roots \subseteq t.roots \cup KidsOfFirst(t, chunks, k)
  <2>1. v.roots \subseteq u.roots \cup AllKids(t, c)
    BY <1>4, <1>9 DEF ChunkMoved
  <2>2. u.roots \subseteq t.roots \cup KidsOfFirst(t, chunks, k - 1)
    BY DEF Raising
  <2> QED
    BY <1>2, <2>1, <2>2
<1>12. \A m \in Nodes : v.up[m] = IF m \in KidsOfFirst(t, chunks, k) THEN parent ELSE t.up[m]
  <2>1. \A m \in Nodes : v.up[m] = IF m \in AllKids(t, c) THEN parent ELSE u.up[m]
    BY <1>4, <1>9 DEF ChunkMoved
  <2>2. \A m \in Nodes : u.up[m] = IF m \in KidsOfFirst(t, chunks, k - 1) THEN parent ELSE t.up[m]
    BY DEF Raising
  <2> QED
    BY <1>2, <2>1, <2>2
<1>13. \A q \in Nodes : q # parent => v.kid[q] = t.kid[q] /\ v.list[q] = t.list[q]
  BY <1>9 DEF ChunkMoved, Raising
<1>14. \A d \in spare \ FirstChunks(chunks, k) : v.chunk[d] = t.chunk[d]
  <2>1. \A d \in sp : d # c => v.chunk[d] = u.chunk[d]
    BY <1>9 DEF ChunkMoved
  <2>2. \A d \in sp : u.chunk[d] = t.chunk[d]
    BY DEF Raising
  <2> QED
    BY <1>2, <2>1, <2>2
<1>15. Linked(v, loose \ KidsOfFirst(t, chunks, k), spare \ FirstChunks(chunks, k))
  <2>1. Linked(v, lo \ AllKids(t, c), sp \ {c})
    BY <1>4, <1>9 DEF ChunkMoved
  <2>2. lo \ AllKids(t, c) = loose \ KidsOfFirst(t, chunks, k) /\ sp \ {c} = spare \ FirstChunks(chunks, k)
    BY <1>2
  <2> HIDE DEF lo, sp
  <2> QED
    BY <2>1, <2>2
<1>16. parent # 0 /\ k < Len(chunks) => v.kid[parent] = 0
  <2>1. k < Len(chunks) => t.chunk[c][1] # 0 /\ t.chunk[c][2] # 0
    BY <1>1 DEF Stacked, c
  <2> QED
    BY <1>4, <1>9, <2>1 DEF ChunkMoved
<1> QED
  BY <1>10, <1>11, <1>12, <1>13, <1>14, <1>15, <1>16 DEF Raising, v, c

LEMMA ChunksRaised ==
  ASSUME NEW labels, NEW t \in TreesOf(labels), NEW loose, NEW spare, NEW parent \in Nodes \cup {0},
         NEW chunks \in Seq(PropChunks), Stacked(t, loose, spare, chunks), Linked(t, loose, spare), Rooted(t),
         parent # 0 => t.kid[parent] = 0
  PROVE  Raising(labels, t, RaiseChunks(t, parent, chunks), loose, spare, parent, chunks, Len(chunks))
<1> DEFINE n == Len(chunks)
           D == TreesOf(labels)
           J == [i \in 0..n |-> {u \in D : Raising(labels, t, u, loose, spare, parent, chunks, i)}]
           g == [x \in D \X (1..n) |-> IF ReparentChunk(x[1], parent, chunks[x[2]]) \in D
                                      THEN ReparentChunk(x[1], parent, chunks[x[2]]) ELSE t]
           Runs(f) == f = [k \in 0..n |-> IF k = 0 THEN t ELSE ReparentChunk(f[k - 1], parent, chunks[k])]
           after == CHOOSE f : Runs(f)
<1>1. n \in Nat /\ spare \subseteq PropChunks
  BY DEF Linked, Holding, TreesOf
<1>2. t \in J[0]
  <2>1. FirstChunks(chunks, 0) = {}
    <3>1. \A l \in DOMAIN chunks : ~(l <= 0)
      OBVIOUS
    <3> QED
      BY <3>1 DEF FirstChunks
  <2>2. KidsOfFirst(t, chunks, 0) = {}
    BY <2>1 DEF KidsOfFirst
  <2>3. loose \ {} = loose /\ spare \ {} = spare
    OBVIOUS
  <2>4. Raising(labels, t, t, loose, spare, parent, chunks, 0)
    BY <2>1, <2>2, <2>3 DEF Raising
  <2> QED
    BY <1>1, <2>4
<1>3. ASSUME NEW k \in 1..n, NEW x \in J[k - 1]
      PROVE  ReparentChunk(x, parent, chunks[k]) \in J[k]
  <2>1. Raising(labels, t, x, loose, spare, parent, chunks, k - 1)
    BY <1>1
  <2>2. Raising(labels, t, ReparentChunk(x, parent, chunks[k]), loose, spare, parent, chunks, k)
    BY <1>1, <2>1, NextChunkRaised
  <2>3. ReparentChunk(x, parent, chunks[k]) \in D
    BY <2>2 DEF Raising
  <2> QED
    BY <1>1, <2>2, <2>3
<1>4. \A k \in 0..n : J[k] \subseteq D
  OBVIOUS
<1>5. ASSUME NEW k \in 1..n, NEW x \in J[k - 1]
      PROVE  g[<<x, k>>] = ReparentChunk(x, parent, chunks[k])
  <2>1. k - 1 \in 0..n /\ k \in 0..n
    BY <1>1
  <2>2. ReparentChunk(x, parent, chunks[k]) \in J[k] /\ J[k] \subseteq D /\ J[k - 1] \subseteq D
    BY <1>3, <1>4, <2>1
  <2> HIDE DEF J
  <2>3. ReparentChunk(x, parent, chunks[k]) \in D /\ <<x, k>> \in D \X (1..n)
    BY <2>2
  <2> HIDE DEF D
  <2> QED
    BY <2>3
<1>6. g \in [D \X (1..n) -> D]
  OBVIOUS
<1> HIDE DEF n, J, g, D
<1>7. \A k \in 1..n : \A x \in J[k - 1] : g[<<x, k>>] \in J[k]
  BY <1>3, <1>5
<1>8. Keeps(n, D, J, t, g)
  BY <1>1, <1>2, <1>4, <1>6, <1>7 DEF Keeps
<1>80. \E f \in [0..n -> D] : RunOf(n, J, t, g, f)
  BY <1>8, LoopRuns
<1>81. PICK f \in [0..n -> D] : f[0] = t /\ \A k \in 1..n : f[k] = g[<<f[k - 1], k>>] /\ f[k - 1] \in J[k - 1]
  BY <1>80 DEF RunOf
<1>9. Runs(f)
  <2>1. \A i \in 0..n : i = 0 \/ i \in 1..n
    BY <1>1
  <2>2. \A i \in 1..n : f[i] = ReparentChunk(f[i - 1], parent, chunks[i])
    BY <1>5, <1>81
  <2> QED
    BY <1>81, <2>1, <2>2
<1>10. Runs(after)
  <2> HIDE DEF Runs
  <2> QED
    BY <1>9, Zenon
<1>11. after[0] = t /\ \A k \in 1..n : after[k] = ReparentChunk(after[k - 1], parent, chunks[k])
  <2> HIDE DEF after
  <2> QED
    BY <1>1, <1>10
<1>12. RaiseChunks(t, parent, chunks) = after[n]
  BY DEF RaiseChunks, n
<1> HIDE DEF after
<1>13. after[n] \in J[n]
  <2> DEFINE P == {k \in 0..n : after[k] \in J[k]}
  <2>1. 0 \in P
    BY <1>1, <1>2, <1>11
  <2>2. \A k \in 1..n : k - 1 \in P => k \in P
    BY <1>1, <1>3, <1>11
  <2> HIDE DEF P
  <2>3. 0..n \subseteq P
    BY <1>1, <2>1, <2>2, UpTo
  <2>4. n \in P
    BY <1>1, <2>3
  <2> QED
    BY <2>4 DEF P
<1>14. Raising(labels, t, after[n], loose, spare, parent, chunks, n)
  BY <1>1, <1>13 DEF J
<1> QED
  BY <1>12, <1>14 DEF n

\* Nothing hangs on a node that is on the free list.
Clean(t) == \A n \in Nodes : t.label[n] = NoLabel => t.up[n] = 0 /\ t.kid[n] = 0 /\ t.list[n] = <<>>
Healthy(t) == Linked(t, {}, {}) /\ Rooted(t) /\ Clean(t)

\* n has left the kids of its parent, and chunk c may have become empty.
TakenOut(labels, t, u, n, c) ==
  /\ u \in TreesOf(labels) /\ u.label = t.label /\ u.bare = t.bare /\ u.up = t.up
  /\ u.fault = t.fault \/ u.fault = "crash"
  /\ Rooted(u) /\ n \notin u.roots
  /\ \A q \in Nodes : q # t.up[n] => Alike(t, u, q)
  /\ t.up[n] # 0 => u.kid[t.up[n]] = 0
  /\ \/ /\ c = 0 /\ Linked(u, {n}, {})
        /\ \/ t.up[n] = 0 \/ u.list[t.up[n]] = <<>>
           \/ \E k \in DOMAIN u.list[t.up[n]], i \in KidSlots : u.chunk[u.list[t.up[n]][k]][i] = 0
     \/ c # 0 /\ c \in t.held /\ Linked(u, {n}, {c}) /\ \A i \in KidSlots : u.chunk[c][i] = 0

LEMMA NodeTakenOut ==
  ASSUME NEW labels, NEW t \in TreesOf(labels), Healthy(t), NEW n \in Nodes
  PROVE  TakenOut(labels, t, RemovePropertyTreeChild(t, n).tree, n, RemovePropertyTreeChild(t, n).chunk)
<1> DEFINE r == RemovePropertyTreeChild(t, n)
<1>1. Linked(t, {}, {}) /\ Rooted(t)
  BY DEF Healthy
<1>2. CASE t.up[n] # 0
  <2> DEFINE p == t.up[n]
             place == FirstPlace(t, p, {n})
  <2>1. p \in Nodes
    BY <1>2 DEF TreesOf
  <2>2. r = RemoveKid(t, p, n, place)
    BY <1>2 DEF RemovePropertyTreeChild
  <2>3. KidDetached(labels, t, r.tree, {}, {}, p, n, r.chunk)
    <3>1. n \notin {}
      OBVIOUS
    <3> DEFINE q == p
    <3>2. q \in Nodes /\ t.up[n] = q
      BY <2>1
    <3> HIDE DEF q
    <3>3. KidDetached(labels, t, RemoveKid(t, q, n, FirstPlace(t, q, {n})).tree, {}, {}, q, n,
                      RemoveKid(t, q, n, FirstPlace(t, q, {n})).chunk)
      BY <1>1, <3>1, <3>2, KidRemoved
    <3> QED
      BY <2>2, <3>2, <3>3
  <2> HIDE DEF r
  <2> DEFINE u == r.tree
             c == r.chunk
  <2> HIDE DEF u, c
  <2>4. u \in TreesOf(labels) /\ Kept(t, u) /\ u.up = t.up
    BY <2>3 DEF KidDetached, u
  <2>5. Rooted(u) /\ n \notin u.roots
    BY <1>1, <1>2, <2>4 DEF Rooted, Kept
  <2>6. /\ \A q \in Nodes : q # p => Alike(t, u, q)
        /\ u.kid[p] = 0
    BY <2>3 DEF KidDetached, u
  <2>7. \/ /\ c = 0 /\ Linked(u, {n}, {})
           /\ \/ u.list[p] = <<>>
              \/ \E k \in DOMAIN u.list[p], i \in KidSlots : u.chunk[u.list[p][k]][i] = 0
        \/ c \in t.held /\ Linked(u, {n}, {c}) /\ \A i \in KidSlots : u.chunk[c][i] = 0
    <3>1. {} \cup {n} = {n} /\ {} \cup {c} = {c} /\ t.held \ {} = t.held
      OBVIOUS
    <3>2. \/ /\ c = 0 /\ Linked(u, {} \cup {n}, {})
             /\ \/ u.list[p] = <<>>
                \/ \E k \in DOMAIN u.list[p], i \in KidSlots : u.chunk[u.list[p][k]][i] = 0
          \/ /\ c \in t.held \ {} /\ Linked(u, {} \cup {n}, {} \cup {c})
             /\ \A i \in KidSlots : u.chunk[c][i] = 0
      BY <2>3 DEF KidDetached, u, c
    <3> QED
      BY <3>1, <3>2
  <2>8. c \in t.held => c # 0
    BY DEF TreesOf, PropChunks
  <2> QED
    BY <2>4, <2>5, <2>6, <2>7, <2>8 DEF TakenOut, Kept, u, c, r
<1>3. CASE t.up[n] = 0
  <2>1. r.chunk = 0 /\ r.tree = [t EXCEPT !.roots = t.roots \ {n},
                                          !.fault = IF t.label[n] \in t.bare THEN "crash" ELSE t.fault]
    <3>1. r = [tree |-> [t EXCEPT !.roots = @ \ {n},
                                 !.fault = IF t.label[n] \in t.bare THEN "crash" ELSE @], chunk |-> 0]
      BY <1>3 DEF RemovePropertyTreeChild
    <3> HIDE DEF r
    <3> QED
      BY <3>1 DEF TreesOf
  <2> HIDE DEF r
  <2> DEFINE u == r.tree
             f == IF t.label[n] \in t.bare THEN "crash" ELSE t.fault
  <2>2. f \in Failures \cup {"crash"} /\ (f = t.fault \/ f = "crash") /\ t.roots \ {n} \in SUBSET Nodes
    BY DEF TreesOf
  <2>3. u = [t EXCEPT !.roots = t.roots \ {n}, !.fault = f]
    BY <2>1
  <2> HIDE DEF u, f
  <2>4. /\ u \in TreesOf(labels) /\ u.label = t.label /\ u.bare = t.bare /\ u.up = t.up
        /\ u.kid = t.kid /\ u.list = t.list /\ u.chunk = t.chunk /\ u.held = t.held
        /\ u.fault = t.fault \/ u.fault = "crash"
        /\ u.roots = t.roots \ {n}
    BY <2>2, <2>3 DEF TreesOf
  <2>5. Rooted(u) /\ n \notin u.roots
    BY <1>1, <2>4 DEF Rooted
  <2>6. \A q \in Nodes : Alike(t, u, q)
    BY <2>4 DEF Alike
  <2>7. Linked(u, {n}, {})
    <3>1. \A p, m \in Nodes : KidIn(u, p, m) <=> KidIn(t, p, m)
      BY <2>4 DEF KidIn
    <3>2. UpLinked(u, {n})
      BY <1>1, <2>4, <3>1 DEF Linked, UpLinked, TreesOf
    <3>3. KidLinked(u, {n})
      BY <1>1, <1>3, <2>4, <3>1 DEF Linked, KidLinked, Nodes
    <3>4. \A p \in Nodes : ChunksSound(u, p)
      BY <1>1, <2>4 DEF Linked, ChunksSound
    <3>5. Apart(u) /\ Holding(u, {})
      BY <1>1, <2>4 DEF Linked, Apart, Holding
    <3> QED
      BY <3>2, <3>3, <3>4, <3>5 DEF Linked
  <2> QED
    BY <1>3, <2>1, <2>4, <2>5, <2>6, <2>7 DEF TakenOut, u, r
<1> QED
  BY <1>2, <1>3

\* The kids of n, and the chunks of its list.
KidSet(t, n) == {m \in Nodes : KidIn(t, n, m)}
ListChunks(t, n) == {t.list[n][k] : k \in DOMAIN t.list[n]}

EmptiedNode(labels, t, u, n) ==
  /\ u \in TreesOf(labels) /\ Kept(t, u) /\ u.up = t.up /\ u.chunk = t.chunk /\ u.held = t.held
  /\ u.kid[n] = 0 /\ u.list[n] = <<>>
  /\ \A q \in Nodes : q # n => u.kid[q] = t.kid[q] /\ u.list[q] = t.list[q]

LEMMA KidsLetGo ==
  ASSUME NEW labels, NEW t \in TreesOf(labels), NEW n \in Nodes, NEW spare, Linked(t, {n}, spare), n \notin KidSet(t, n)
  PROVE  LET u == [t EXCEPT !.kid[n] = 0, !.list[n] = <<>>] IN
         /\ EmptiedNode(labels, t, u, n)
         /\ Linked(u, {n} \cup KidSet(t, n), spare \cup ListChunks(t, n))
<1> DEFINE u == [t EXCEPT !.kid[n] = 0, !.list[n] = <<>>]
<1>1. u = [t EXCEPT !.kid = [t.kid EXCEPT ![n] = 0], !.list = [t.list EXCEPT ![n] = <<>>]]
  BY DEF TreesOf
<1> HIDE DEF u
<1>2. <<>> \in Seq(PropChunks)
  OBVIOUS
<1>3. /\ u \in TreesOf(labels) /\ Kept(t, u) /\ u.up = t.up /\ u.chunk = t.chunk /\ u.held = t.held
      /\ u.kid = [t.kid EXCEPT ![n] = 0] /\ u.list = [t.list EXCEPT ![n] = <<>>]
  BY <1>1, <1>2 DEF TreesOf, Kept
<1>4. EmptiedNode(labels, t, u, n)
  BY <1>3 DEF EmptiedNode, TreesOf
<1>5. DOMAIN u.list[n] = {}
  BY <1>4 DEF EmptiedNode
<1>6. \A q \in Nodes : q # n => Alike(t, u, q)
  BY <1>4 DEF EmptiedNode, Alike
<1>7. \A q, m \in Nodes : KidIn(u, q, m) <=> KidIn(t, q, m) /\ q # n
  <2>1. ASSUME NEW m \in Nodes PROVE ~KidIn(u, n, m)
    BY <1>4, <1>5 DEF KidIn, EmptiedNode, Nodes
  <2> QED
    BY <1>6, <2>1, AlikeKids
<1>8. UpLinked(u, {n} \cup KidSet(t, n))
  <2>1. t.up \in [Nodes -> Nodes \cup {0}] /\ UpLinked(t, {n})
    BY DEF TreesOf, Linked
  <2> QED
    BY <1>3, <1>7, <2>1 DEF UpLinked, KidSet
<1>9. KidLinked(u, {n} \cup KidSet(t, n))
  BY <1>3, <1>7 DEF KidLinked, Linked, KidSet
<1>10. \A p \in Nodes : ChunksSound(u, p)
  <2>1. ChunksSound(u, n)
    BY <1>4, <1>5 DEF ChunksSound, EmptiedNode
  <2> QED
    BY <1>6, <2>1, AlikeKids DEF Linked
<1>11. Apart(u)
  <2>1. \A p \in Nodes : \A k \in DOMAIN u.list[p] : k \in DOMAIN t.list[p] /\ u.list[p][k] = t.list[p][k]
    BY <1>4, <1>5 DEF EmptiedNode
  <2> QED
    BY <2>1 DEF Linked, Apart
<1>12. Holding(u, spare \cup ListChunks(t, n))
  <2>1. spare \cup ListChunks(t, n) \subseteq u.held
    BY <1>3 DEF Linked, Holding, ListChunks
  <2>2. ASSUME NEW p \in Nodes, NEW k \in DOMAIN u.list[p]
        PROVE  u.list[p][k] \in u.held \ (spare \cup ListChunks(t, n))
    <3>1. p # n
      BY <1>5
    <3>2. k \in DOMAIN t.list[p] /\ u.list[p][k] = t.list[p][k]
      BY <1>4, <3>1 DEF EmptiedNode
    <3>3. \A l \in DOMAIN t.list[n] : t.list[n][l] # t.list[p][k]
      BY <3>1, <3>2 DEF Linked, Apart
    <3> QED
      BY <1>3, <3>2, <3>3 DEF Linked, Holding, ListChunks
  <2>3. ASSUME NEW c \in u.held \ (spare \cup ListChunks(t, n))
        PROVE  \E p \in Nodes : \E k \in DOMAIN u.list[p] : u.list[p][k] = c
    <3>1. PICK p \in Nodes : \E k \in DOMAIN t.list[p] : t.list[p][k] = c
      BY <1>3 DEF Linked, Holding
    <3>2. p # n
      BY <3>1 DEF ListChunks
    <3> QED
      BY <1>4, <3>1, <3>2 DEF EmptiedNode
  <2> QED
    BY <2>1, <2>2, <2>3 DEF Holding
<1> QED
  BY <1>4, <1>8, <1>9, <1>10, <1>11, <1>12 DEF Linked, u

\* n has left its parent and its kids, and chunk c, unless it is 0, is empty.
SpareOf(c) == IF c = 0 THEN {} ELSE {c}
Hanging(labels, t, x, n, c) ==
  /\ x \in TreesOf(labels) /\ x.label = t.label /\ x.bare = t.bare /\ x.up = t.up
  /\ x.fault = t.fault \/ x.fault = "crash"
  /\ Rooted(x) /\ n \notin x.roots
  /\ x.kid[n] = 0 /\ x.list[n] = <<>>
  /\ \A q \in Nodes : q # n /\ q # t.up[n] => x.kid[q] = t.kid[q] /\ x.list[q] = t.list[q]
  /\ \A k \in DOMAIN t.list[n] : x.chunk[t.list[n][k]] = t.chunk[t.list[n][k]]
  /\ t.up[n] # 0 => x.kid[t.up[n]] = 0
  /\ Linked(x, {n} \cup KidSet(t, n), SpareOf(c) \cup ListChunks(t, n))
  /\ c # 0 => c \notin ListChunks(t, n) /\ \A i \in KidSlots : x.chunk[c][i] = 0
  /\ c = 0 => \/ t.up[n] = 0 \/ x.list[t.up[n]] = <<>>
              \/ \E k \in DOMAIN x.list[t.up[n]], i \in KidSlots : x.chunk[x.list[t.up[n]][k]][i] = 0

LEMMA NodeHanging ==
  ASSUME NEW labels, NEW t \in TreesOf(labels), Healthy(t), NEW n \in Nodes, t.up[n] # n,
         NEW s, NEW c, TakenOut(labels, t, s, n, c)
  PROVE  Hanging(labels, t, [s EXCEPT !.kid[n] = 0, !.list[n] = <<>>], n, c)
<1> DEFINE x == [s EXCEPT !.kid[n] = 0, !.list[n] = <<>>]
           p == t.up[n]
<1>1. /\ s \in TreesOf(labels) /\ s.label = t.label /\ s.bare = t.bare /\ s.up = t.up
      /\ s.fault = t.fault \/ s.fault = "crash"
      /\ Rooted(s) /\ n \notin s.roots
      /\ \A q \in Nodes : q # p => Alike(t, s, q)
      /\ p # 0 => s.kid[p] = 0
  BY DEF TakenOut
<1>2. Alike(t, s, n) /\ s.list[n] = t.list[n]
  BY <1>1 DEF Alike
<1>3. KidSet(s, n) = KidSet(t, n) /\ ListChunks(s, n) = ListChunks(t, n)
  BY <1>2, AlikeKids DEF KidSet, ListChunks
<1>4. n \notin KidSet(t, n)
  BY DEF Healthy, Linked, KidLinked, KidSet
<1>5. Linked(s, {n}, SpareOf(c))
  BY DEF TakenOut, SpareOf
<1>6. /\ EmptiedNode(labels, s, x, n)
      /\ Linked(x, {n} \cup KidSet(t, n), SpareOf(c) \cup ListChunks(t, n))
  <2>1. LET u == [s EXCEPT !.kid[n] = 0, !.list[n] = <<>>] IN
         /\ EmptiedNode(labels, s, u, n)
         /\ Linked(u, {n} \cup KidSet(s, n), SpareOf(c) \cup ListChunks(s, n))
    BY <1>1, <1>3, <1>4, <1>5, KidsLetGo
  <2> QED
    BY <1>3, <2>1
<1> HIDE DEF x
<1>7. /\ x \in TreesOf(labels) /\ x.label = t.label /\ x.bare = t.bare /\ x.up = t.up /\ x.chunk = s.chunk
      /\ x.fault = t.fault \/ x.fault = "crash"
      /\ x.roots = s.roots /\ x.kid[n] = 0 /\ x.list[n] = <<>>
      /\ \A q \in Nodes : q # n => x.kid[q] = s.kid[q] /\ x.list[q] = s.list[q]
  BY <1>1, <1>6 DEF EmptiedNode, Kept
<1>8. Rooted(x)
  BY <1>1, <1>7 DEF Rooted
<1>9. /\ \A q \in Nodes : q # n /\ q # p => x.kid[q] = t.kid[q] /\ x.list[q] = t.list[q]
      /\ \A k \in DOMAIN t.list[n] : x.chunk[t.list[n][k]] = t.chunk[t.list[n][k]]
  BY <1>1, <1>2, <1>7 DEF Alike
<1>10. p \in Nodes \cup {0} /\ p # n
  BY DEF TreesOf
<1>11. p # 0 => x.kid[p] = 0 /\ x.list[p] = s.list[p]
  BY <1>1, <1>7, <1>10
<1>12. c # 0 => c \notin ListChunks(t, n) /\ \A i \in KidSlots : x.chunk[c][i] = 0
  <2>1. SUFFICES ASSUME c # 0 PROVE c \notin ListChunks(t, n) /\ \A i \in KidSlots : x.chunk[c][i] = 0
    OBVIOUS
  <2>2. Linked(s, {n}, {c}) /\ \A i \in KidSlots : s.chunk[c][i] = 0
    BY <2>1 DEF TakenOut
  <2>3. \A k \in DOMAIN s.list[n] : s.list[n][k] # c
    BY <2>2 DEF Linked, Holding
  <2> QED
    BY <1>2, <1>7, <2>2, <2>3 DEF ListChunks
<1>13. c = 0 => \/ p = 0 \/ x.list[p] = <<>>
                \/ \E k \in DOMAIN x.list[p], i \in KidSlots : x.chunk[x.list[p][k]][i] = 0
  <2>1. c = 0 => \/ p = 0 \/ s.list[p] = <<>>
                 \/ \E k \in DOMAIN s.list[p], i \in KidSlots : s.chunk[s.list[p][k]][i] = 0
    BY DEF TakenOut
  <2> HIDE DEF p
  <2> QED
    BY <1>7, <1>11, <2>1
<1> QED
  BY <1>1, <1>6, <1>7, <1>8, <1>9, <1>11, <1>12, <1>13 DEF Hanging, x

\* The kids of n are its parent's, and n has none.
Lifted(labels, t, u, n) ==
  /\ u \in TreesOf(labels) /\ u.label = t.label /\ u.bare = t.bare
  /\ u.fault = t.fault \/ u.fault = "crash"
  /\ Rooted(u) /\ n \notin u.roots
  /\ u.kid[n] = 0 /\ u.list[n] = <<>>
  /\ \A q \in Nodes : q # n /\ q # t.up[n] => u.kid[q] = t.kid[q] /\ u.list[q] = t.list[q]
  /\ \A m \in Nodes : u.up[m] = IF m \in KidSet(t, n) THEN t.up[n] ELSE t.up[m]
  /\ Linked(u, {n}, {})

LEMMA LoneLifted ==
  ASSUME NEW labels, NEW t \in TreesOf(labels), NEW n \in Nodes, NEW x, NEW c, Hanging(labels, t, x, n, c),
         t.kid[n] = 0, t.list[n] = <<>>
  PROVE  Lifted(labels, t, Freed(x, c), n)
<1>1. KidSet(t, n) = {} /\ ListChunks(t, n) = {}
  <2>1. DOMAIN t.list[n] = {}
    OBVIOUS
  <2> QED
    BY <2>1 DEF KidSet, KidIn, ListChunks, Nodes
<1>2. Linked(x, {n}, SpareOf(c)) /\ x \in TreesOf(labels)
  <2>1. {n} \cup {} = {n} /\ SpareOf(c) \cup {} = SpareOf(c)
    OBVIOUS
  <2> QED
    BY <1>1, <2>1 DEF Hanging
<1>3. Lifted(labels, t, x, n) \/ c # 0
  BY <1>1, <1>2 DEF Lifted, Hanging, SpareOf
<1>4. CASE c = 0
  BY <1>3, <1>4 DEF Freed
<1>5. CASE c # 0
  <2> DEFINE u == Freed(x, c)
  <2>1. FreedOf(labels, x, u, {n}, {}, c)
    <3>1. SpareOf(c) = {c} /\ {c} \ {c} = {} /\ 1 \in KidSlots
      BY <1>5, TreeAssumption DEF SpareOf, KidSlots
    <3>2. x.chunk[c][1] = 0
      BY <1>5, <3>1 DEF Hanging
    <3> QED
      BY <1>2, <3>1, <3>2, SpareFreed
  <2> HIDE DEF u
  <2>2. Rooted(u)
    BY <2>1 DEF FreedOf, Kept, Rooted, Hanging
  <2> QED
    BY <1>1, <2>1, <2>2 DEF FreedOf, Kept, Lifted, Hanging, u
<1> QED
  BY <1>4, <1>5

LEMMA KidLifted ==
  ASSUME NEW labels, NEW t \in TreesOf(labels), Healthy(t), NEW n \in Nodes, t.up[n] # n,
         NEW x, NEW c, Hanging(labels, t, x, n, c), t.kid[n] # 0, t.list[n] = <<>>
  PROVE  Lifted(labels, t, Freed(Reparent(x, t.up[n], t.kid[n], c), c), n)
<1> DEFINE p == t.up[n]
           kid == t.kid[n]
           y == Reparent(x, p, kid, c)
<1>1. p \in Nodes \cup {0} /\ kid \in Nodes /\ p # n
  BY DEF TreesOf
<1>2. KidSet(t, n) = {kid} /\ ListChunks(t, n) = {}
  <2>1. DOMAIN t.list[n] = {}
    OBVIOUS
  <2> QED
    BY <1>1, <2>1 DEF KidSet, KidIn, ListChunks
<1>3. t.up[kid] = n /\ t.label[kid] # NoLabel /\ kid # n
  <2>1. KidIn(t, n, kid)
    BY DEF KidIn
  <2>2. t.up[kid] = n
    BY <1>1, <2>1 DEF Healthy, Linked, KidLinked
  <2>3. n # 0
    BY DEF Nodes
  <2> QED
    BY <1>1, <2>2, <2>3 DEF Healthy, Clean
<1>4. Linked(x, {n, kid}, SpareOf(c)) /\ x \in TreesOf(labels) /\ Rooted(x)
  <2>1. {n} \cup {kid} = {n, kid} /\ SpareOf(c) \cup {} = SpareOf(c)
    OBVIOUS
  <2> HIDE DEF kid
  <2> QED
    BY <1>2, <2>1 DEF Hanging
<1>5. x.up[kid] # 0 /\ x.label[kid] # NoLabel /\ kid \in {n, kid}
  <2>1. n # 0
    BY DEF Nodes
  <2> QED
    BY <1>3, <2>1 DEF Hanging
<1>6. p # 0 /\ FirstPlace(x, p, {0}) = NoPlace /\ (x.list[p] # <<>> \/ x.kid[p] # 0) => c # 0
  <2>1. SUFFICES ASSUME p # 0, FirstPlace(x, p, {0}) = NoPlace, x.list[p] # <<>> \/ x.kid[p] # 0, c = 0 PROVE FALSE
    OBVIOUS
  <2>2. x.kid[p] = 0 /\ x.list[p] # <<>>
    BY <2>1 DEF Hanging
  <2>3. \E k \in DOMAIN x.list[p], i \in KidSlots : x.chunk[x.list[p][k]][i] = 0
    BY <2>1, <2>2 DEF Hanging
  <2>4. p \in Nodes
    BY <1>1, <2>1
  <2> HIDE DEF p
  <2> QED
    BY <1>4, <2>1, <2>3, <2>4, NoGap
<1>7. p # 0 /\ c # 0 /\ FirstPlace(x, p, {0}) = NoPlace =>
        c \in SpareOf(c) /\ \A i \in KidSlots : x.chunk[c][i] = 0
  BY DEF Hanging, SpareOf
<1>8. KidRaised(labels, x, y, {n, kid}, SpareOf(c), p, kid, c)
  <2> DEFINE lo == {n, kid}
  <2>1. kid \in lo /\ Linked(x, lo, SpareOf(c))
    BY <1>4
  <2> HIDE DEF p, kid, lo
  <2> QED
    BY <1>1, <1>4, <1>5, <1>6, <1>7, <2>1, KidReparented DEF lo
<1> HIDE DEF y
<1>9. {n, kid} \ {kid} = {n}
  BY <1>3
<1>10. FreedOf(labels, y, Freed(y, c), {n}, {}, c)
  <2>1. y \in TreesOf(labels) /\ x.held \subseteq y.held
    BY <1>8 DEF KidRaised
  <2>2. CASE c = 0
    <3>1. Linked(y, {n}, {})
      BY <1>8, <1>9, <2>2 DEF KidRaised, SpareOf
    <3>2. Freed(y, c) = y
      BY <2>2 DEF Freed
    <3> QED
      BY <2>1, <3>1, <3>2 DEF FreedOf, Kept
  <2>3. CASE c # 0 /\ Linked(y, {n}, {c}) /\ y.chunk[c] = x.chunk[c]
    <3>1. 1 \in KidSlots /\ {c} \ {c} = {}
      BY TreeAssumption DEF KidSlots
    <3>2. y.chunk[c][1] = 0
      BY <2>3, <3>1 DEF Hanging
    <3> QED
      BY <2>1, <2>3, <3>1, <3>2, SpareFreed
  <2>4. CASE c # 0 /\ Linked(y, {n}, {})
    <3>1. c \in x.held
      BY <1>4, <2>4 DEF Linked, Holding, SpareOf
    <3>2. Freed(y, c) = y
      BY <2>1, <2>4, <3>1, ListedKept
    <3> QED
      BY <2>1, <2>4, <3>2 DEF FreedOf, Kept
  <2>5. c # 0 => SpareOf(c) = {c} /\ SpareOf(c) \ {c} = {}
    BY DEF SpareOf
  <2> QED
    BY <1>8, <1>9, <2>2, <2>3, <2>4, <2>5 DEF KidRaised
<1> DEFINE z == Freed(y, c)
<1> HIDE DEF z
<1>11. /\ z \in TreesOf(labels) /\ z.label = t.label /\ z.bare = t.bare
       /\ z.fault = t.fault \/ z.fault = "crash"
  BY <1>8, <1>10 DEF z, FreedOf, Kept, KidRaised, Hanging
<1>12. Rooted(z) /\ n \notin z.roots
  <2>1. Rooted(z)
    BY <1>8, <1>10 DEF z, FreedOf, Kept, KidRaised, Rooted
  <2>2. n \notin z.roots
    BY <1>3, <1>8, <1>10 DEF z, FreedOf, Kept, KidRaised, Hanging
  <2> QED
    BY <2>1, <2>2
<1>13. \A q \in Nodes : q # p => z.kid[q] = x.kid[q] /\ z.list[q] = x.list[q]
  BY <1>8, <1>10 DEF z, FreedOf, KidRaised
<1>14. \A m \in Nodes : z.up[m] = IF m \in KidSet(t, n) THEN p ELSE t.up[m]
  <2>1. z.up = [x.up EXCEPT ![kid] = p] /\ x.up = t.up
    BY <1>8, <1>10 DEF z, FreedOf, KidRaised, Hanging
  <2>2. t.up \in [Nodes -> Nodes \cup {0}]
    BY DEF TreesOf
  <2> HIDE DEF p, kid
  <2> QED
    BY <1>2, <2>1, <2>2
<1>15. Linked(z, {n}, {})
  BY <1>10 DEF z, FreedOf
<1> QED
  BY <1>1, <1>11, <1>12, <1>13, <1>14, <1>15 DEF Lifted, Hanging, z, y

LEMMA ChunksLifted ==
  ASSUME NEW labels, NEW t \in TreesOf(labels), Healthy(t), NEW n \in Nodes, t.up[n] # n,
         NEW x, NEW c, Hanging(labels, t, x, n, c), t.list[n] # <<>>
  PROVE  Lifted(labels, t, Freed(RaiseChunks(x, t.up[n], t.list[n]), c), n)
<1> DEFINE p == t.up[n]
           L == t.list[n]
           lo == {n} \cup KidSet(t, n)
           sp == SpareOf(c) \cup ListChunks(t, n)
           y == RaiseChunks(x, p, L)
<1>1. /\ p \in Nodes \cup {0} /\ p # n /\ L \in Seq(PropChunks) /\ DOMAIN L = 1..Len(L) /\ Len(L) \in Nat
      /\ t.kid[n] = 0 /\ n # 0
  <2>1. ChunksSound(t, n)
    BY DEF Healthy, Linked
  <2>2. t.kid[n] = 0
    BY <2>1 DEF ChunksSound
  <2>3. p \in Nodes \cup {0}
    BY DEF TreesOf
  <2>5. n # 0
    BY DEF Nodes
  <2>4. L \in Seq(PropChunks) /\ DOMAIN L = 1..Len(L) /\ Len(L) \in Nat
    BY ListTyped
  <2> QED
    BY <2>2, <2>3, <2>4, <2>5
<1>2. /\ \A k, l \in DOMAIN L, i, j \in KidSlots :
            t.chunk[L[k]][i] = t.chunk[L[l]][j] => t.chunk[L[k]][i] = 0 \/ (k = l /\ i = j)
      /\ \A k \in DOMAIN L, i \in KidSlots : t.chunk[L[k]][i] = 0 =>
             k = Len(L) /\ i > 1 /\ \A j \in i..KidsPerChunk : t.chunk[L[k]][j] = 0
  BY DEF Healthy, Linked, ChunksSound
<1>3. \A k \in DOMAIN L : x.chunk[L[k]] = t.chunk[L[k]]
  BY DEF Hanging
<1>4. x \in TreesOf(labels) /\ Rooted(x) /\ Linked(x, lo, sp) /\ (p # 0 => x.kid[p] = 0) /\ x.up = t.up /\ x.label = t.label
  BY DEF Hanging
<1>5. ASSUME NEW m \in Nodes
      PROVE  m \in KidSet(t, n) <=> \E k \in DOMAIN L, i \in KidSlots : t.chunk[L[k]][i] = m
  BY <1>1 DEF KidSet, KidIn, Nodes
<1>6. Stacked(x, lo, sp, L)
  <2>1. \A k \in DOMAIN L : L[k] \in sp
    BY DEF ListChunks
  <2>2. \A k, l \in DOMAIN L : L[k] = L[l] => k = l
    BY DEF Healthy, Linked, Apart
  <2>3. ASSUME NEW k \in DOMAIN L, NEW j \in KidSlots, x.chunk[L[k]][j] # 0
        PROVE  /\ x.chunk[L[k]][j] \in lo /\ x.up[x.chunk[L[k]][j]] # 0
               /\ x.label[x.chunk[L[k]][j]] # NoLabel
    <3>1. t.chunk[L[k]][j] \in Nodes /\ t.chunk[L[k]][j] = x.chunk[L[k]][j]
      BY <1>1, <1>3, <2>3, ListTyped DEF TreesOf
    <3>2. t.chunk[L[k]][j] \in KidSet(t, n)
      BY <1>5, <3>1
    <3>3. t.up[t.chunk[L[k]][j]] = n
      BY <3>1, <3>2 DEF KidSet, Healthy, Linked, KidLinked
    <3>4. t.label[t.chunk[L[k]][j]] # NoLabel
      BY <1>1, <3>1, <3>3 DEF Healthy, Clean
    <3> QED
      BY <1>1, <1>4, <3>1, <3>2, <3>3, <3>4
  <2>4. \A k, l \in DOMAIN L, i, j \in KidSlots :
            x.chunk[L[k]][i] = x.chunk[L[l]][j] => x.chunk[L[k]][i] = 0 \/ (k = l /\ i = j)
    <3> HIDE DEF L
    <3>1. \A k, l \in DOMAIN L, i, j \in KidSlots :
            t.chunk[L[k]][i] = t.chunk[L[l]][j] => t.chunk[L[k]][i] = 0 \/ (k = l /\ i = j)
      BY <1>2
    <3> QED
      BY <1>3, <3>1
  <2>5. ASSUME NEW k \in DOMAIN L, k < Len(L) PROVE x.chunk[L[k]][1] # 0 /\ x.chunk[L[k]][2] # 0
    <3>1. 1 \in KidSlots /\ 2 \in KidSlots /\ k # Len(L)
      BY <1>1, <2>5, TreeAssumption DEF KidSlots
    <3> QED
      BY <1>2, <1>3, <3>1
  <2> HIDE DEF L, lo, sp
  <2> QED
    BY <1>1, <2>1, <2>2, <2>3, <2>4, <2>5 DEF Stacked
<1>7. Raising(labels, x, y, lo, sp, p, L, Len(L))
  <2> HIDE DEF L, lo, sp, p
  <2> QED
    BY <1>1, <1>4, <1>6, ChunksRaised
<1> HIDE DEF y
<1>8. FirstChunks(L, Len(L)) = ListChunks(t, n)
  <2>1. {l \in DOMAIN L : l <= Len(L)} = DOMAIN L
    BY <1>1
  <2> QED
    BY <2>1 DEF FirstChunks, ListChunks
<1>9. ASSUME NEW m \in Nodes PROVE m \in KidsOfFirst(x, L, Len(L)) <=> m \in KidSet(t, n)
  <2>1. m \in KidsOfFirst(x, L, Len(L)) <=> \E k \in DOMAIN L, i \in KidSlots : x.chunk[L[k]][i] = m
    BY <1>8 DEF KidsOfFirst, AllKids, ListChunks
  <2> QED
    BY <1>3, <1>5, <2>1
<1>10. n \notin KidSet(t, n)
  BY <1>1 DEF KidSet, Healthy, Linked, KidLinked
<1>11. Linked(y, {n}, SpareOf(c))
  <2>1. lo \ KidsOfFirst(x, L, Len(L)) = {n}
    <3>1. lo \subseteq Nodes
      BY DEF KidSet
    <3> QED
      BY <1>9, <1>10, <3>1
  <2>2. sp \ ListChunks(t, n) = SpareOf(c)
    BY DEF SpareOf, Hanging
  <2> HIDE DEF L, lo, sp, p
  <2> QED
    BY <1>7, <1>8, <2>1, <2>2 DEF Raising
<1>12. y \in TreesOf(labels)
  BY <1>7 DEF Raising
<1>13. FreedOf(labels, y, Freed(y, c), {n}, {}, c)
  <2>1. CASE c = 0
    <3>1. Freed(y, c) = y /\ SpareOf(c) = {}
      BY <2>1 DEF Freed, SpareOf
    <3> QED
      BY <1>11, <1>12, <3>1 DEF FreedOf, Kept
  <2>2. CASE c # 0
    <3>1. c \in sp \ ListChunks(t, n) /\ SpareOf(c) = {c} /\ {c} \ {c} = {}
      BY <2>2 DEF SpareOf, Hanging
    <3>2. y.chunk[c] = x.chunk[c]
      BY <1>7, <1>8, <3>1 DEF Raising
    <3>3. 1 \in KidSlots
      BY TreeAssumption DEF KidSlots
    <3>4. y.chunk[c][1] = 0
      BY <2>2, <3>2, <3>3 DEF Hanging
    <3> QED
      BY <1>11, <1>12, <3>1, <3>4, SpareFreed
  <2> QED
    BY <2>1, <2>2
<1> DEFINE z == Freed(y, c)
<1> HIDE DEF z
<1>14. /\ z \in TreesOf(labels) /\ z.label = t.label /\ z.bare = t.bare
       /\ z.fault = t.fault \/ z.fault = "crash"
  BY <1>7, <1>13 DEF z, FreedOf, Kept, Raising, Hanging
<1>15. Rooted(z) /\ n \notin z.roots
  <2>1. z.roots = y.roots /\ z.label = y.label /\ z.up = y.up /\ Rooted(y)
    BY <1>7, <1>13 DEF z, FreedOf, Kept, Raising
  <2>2. y.roots \subseteq x.roots \cup KidsOfFirst(x, L, Len(L))
    BY <1>7 DEF Raising
  <2>3. n \notin x.roots /\ n \notin KidsOfFirst(x, L, Len(L))
    BY <1>9, <1>10 DEF Hanging
  <2> QED
    BY <2>1, <2>2, <2>3 DEF Rooted
<1>16. \A q \in Nodes : q # p => z.kid[q] = x.kid[q] /\ z.list[q] = x.list[q]
  BY <1>7, <1>13 DEF z, FreedOf, Raising
<1>17. \A m \in Nodes : z.up[m] = IF m \in KidSet(t, n) THEN p ELSE t.up[m]
  <2>1. z.up = y.up /\ x.up = t.up
    BY <1>4, <1>13 DEF z, FreedOf
  <2>2. \A m \in Nodes : y.up[m] = IF m \in KidsOfFirst(x, L, Len(L)) THEN p ELSE x.up[m]
    BY <1>7 DEF Raising
  <2> HIDE DEF p, L
  <2> QED
    BY <1>9, <2>1, <2>2
<1>18. Linked(z, {n}, {})
  BY <1>13 DEF z, FreedOf
<1> QED
  BY <1>1, <1>14, <1>15, <1>16, <1>17, <1>18 DEF Lifted, Hanging, z, y

\* n is on the free list, and its kids are its parent's.
Swept(labels, t, u, n) ==
  /\ u \in TreesOf(labels) /\ u.label = [t.label EXCEPT ![n] = NoLabel] /\ u.bare = t.bare
  /\ u.fault = t.fault \/ u.fault = "crash"
  /\ \A m \in Nodes : u.up[m] = IF m = n THEN 0 ELSE IF t.up[m] = n THEN t.up[n] ELSE t.up[m]
  /\ Healthy(u)

LEMMA NodeSwept ==
  ASSUME NEW labels, NEW t \in TreesOf(labels), Healthy(t), NEW n \in Nodes, t.up[n] # n, t.label[n] # NoLabel
  PROVE  Swept(labels, t, SweepNode(t, n), n)
<1> DEFINE r == RemovePropertyTreeChild(t, n)
           x == [r.tree EXCEPT !.kid[n] = 0, !.list[n] = <<>>]
           y == Unlinked(r, n, t.kid[n], t.list[n])
           z == SweepNode(t, n)
           p == t.up[n]
<1>1. Hanging(labels, t, x, n, r.chunk)
  <2>1. TakenOut(labels, t, r.tree, n, r.chunk)
    BY NodeTakenOut
  <2> HIDE DEF r
  <2> QED
    BY <2>1, NodeHanging
<1>2. y = Freed(RaiseKids(x, n, t.kid[n], t.list[n], r.chunk), r.chunk)
  BY DEF Unlinked
<1>3. x.up = t.up
  BY <1>1 DEF Hanging
<1> HIDE DEF x
<1>4. Lifted(labels, t, y, n)
  <2> DEFINE c == r.chunk
  <2>1. Hanging(labels, t, x, n, c) /\ y = Freed(RaiseKids(x, n, t.kid[n], t.list[n], c), c)
    BY <1>1, <1>2
  <2> HIDE DEF c, y
  <2>2. CASE t.list[n] # <<>>
    <3>1. RaiseKids(x, n, t.kid[n], t.list[n], c) = RaiseChunks(x, t.up[n], t.list[n])
      BY <1>3, <2>2 DEF RaiseKids
    <3> QED
      BY <2>1, <2>2, <3>1, ChunksLifted
  <2>3. CASE t.list[n] = <<>> /\ t.kid[n] = 0
    <3>1. RaiseKids(x, n, t.kid[n], t.list[n], c) = x
      BY <2>3 DEF RaiseKids
    <3> QED
      BY <2>1, <2>3, <3>1, LoneLifted
  <2>4. CASE t.list[n] = <<>> /\ t.kid[n] # 0
    <3>1. RaiseKids(x, n, t.kid[n], t.list[n], c) = Reparent(x, t.up[n], t.kid[n], c)
      BY <1>3, <2>4 DEF RaiseKids
    <3> QED
      BY <2>1, <2>4, <3>1, KidLifted
  <2> QED
    BY <2>2, <2>3, <2>4
<1>5. z = [y EXCEPT !.label[n] = NoLabel, !.up[n] = 0]
  BY DEF SweepNode
<1> HIDE DEF y, z, r
<1>6. z = [y EXCEPT !.label = [y.label EXCEPT ![n] = NoLabel], !.up = [y.up EXCEPT ![n] = 0]]
  BY <1>4, <1>5 DEF Lifted, TreesOf
<1>7. /\ z \in TreesOf(labels) /\ z.label = [t.label EXCEPT ![n] = NoLabel] /\ z.up = [y.up EXCEPT ![n] = 0]
      /\ z.bare = t.bare /\ z.roots = y.roots /\ z.kid = y.kid /\ z.list = y.list /\ z.chunk = y.chunk
      /\ z.held = y.held /\ z.fault = y.fault
  <2>1. y.label = t.label /\ y.bare = t.bare /\ y \in TreesOf(labels)
    BY <1>4 DEF Lifted
  <2>2. [y.label EXCEPT ![n] = NoLabel] \in [Nodes -> labels \cup {NoLabel}]
    BY <2>1 DEF TreesOf
  <2>3. [y.up EXCEPT ![n] = 0] \in [Nodes -> Nodes \cup {0}]
    BY <2>1 DEF TreesOf
  <2> QED
    BY <1>6, <2>1, <2>2, <2>3 DEF TreesOf
<1>8. /\ y.kid[n] = 0 /\ y.list[n] = <<>> /\ Linked(y, {n}, {})
      /\ \A q \in Nodes : q # n /\ q # p => y.kid[q] = t.kid[q] /\ y.list[q] = t.list[q]
      /\ \A m \in Nodes : y.up[m] = IF m \in KidSet(t, n) THEN p ELSE t.up[m]
      /\ Rooted(y) /\ n \notin y.roots
      /\ y.up \in [Nodes -> Nodes \cup {0}] /\ t.label \in [Nodes -> labels \cup {NoLabel}]
  BY <1>4 DEF Lifted, TreesOf
<1>9. \A m \in Nodes : m \in KidSet(t, n) <=> t.up[m] = n
  BY DEF KidSet, Healthy, Linked, UpLinked, KidLinked, Nodes
<1>10. \A m \in Nodes : z.up[m] = IF m = n THEN 0 ELSE IF t.up[m] = n THEN t.up[n] ELSE t.up[m]
  BY <1>7, <1>8, <1>9
<1>11. Linked(z, {}, {})
  <2>1. \A q, m \in Nodes : KidIn(z, q, m) <=> KidIn(y, q, m)
    BY <1>7 DEF KidIn
  <2>2. UpLinked(z, {})
    <3>1. UpLinked(y, {n})
      BY <1>8 DEF Linked
    <3> QED
      BY <1>7, <1>8, <2>1, <3>1 DEF UpLinked
  <2>3. KidLinked(z, {})
    <3>1. KidLinked(y, {n})
      BY <1>8 DEF Linked
    <3> QED
      BY <1>7, <1>8, <2>1, <3>1 DEF KidLinked
  <2>4. \A q \in Nodes : ChunksSound(z, q)
    BY <1>7, <1>8, SMTT(60) DEF Linked, ChunksSound
  <2>5. Apart(z) /\ Holding(z, {})
    BY <1>7, <1>8 DEF Linked, Apart, Holding
  <2> QED
    BY <2>2, <2>3, <2>4, <2>5 DEF Linked
<1>12. Rooted(z)
  <2>1. y.label = t.label /\ y.roots \subseteq Nodes
    BY <1>4 DEF Lifted, TreesOf
  <2>2. \A q \in y.roots : q \in Nodes /\ q # n /\ z.label[q] = y.label[q] /\ z.up[q] = y.up[q]
    BY <1>7, <1>8, <2>1
  <2> QED
    BY <1>7, <1>8, <2>2 DEF Rooted
<1>13. Clean(z)
  <2>1. SUFFICES ASSUME NEW m \in Nodes, z.label[m] = NoLabel
                 PROVE  z.up[m] = 0 /\ z.kid[m] = 0 /\ z.list[m] = <<>>
    BY DEF Clean
  <2>2. CASE m = n
    BY <1>7, <1>8, <1>10, <2>2
  <2>3. CASE m # n
    <3>1. t.label[m] = NoLabel
      BY <1>7, <1>8, <2>1, <2>3
    <3>2. t.up[m] = 0 /\ t.kid[m] = 0 /\ t.list[m] = <<>>
      BY <3>1 DEF Healthy, Clean
    <3>3. m # p
      <4>1. p \in Nodes => KidIn(t, p, n)
        BY DEF Healthy, Linked, UpLinked, Nodes
      <4>2. \A q \in Nodes : t.kid[q] = 0 /\ t.list[q] = <<>> => ~KidIn(t, q, n)
        BY DEF KidIn, Nodes
      <4> QED
        BY <3>2, <4>1, <4>2
    <3>4. n # 0
      BY DEF Nodes
    <3> QED
      BY <1>7, <1>8, <1>10, <2>3, <3>2, <3>3, <3>4
  <2> QED
    BY <2>2, <2>3
<1> QED
  BY <1>4, <1>7, <1>10, <1>11, <1>12, <1>13 DEF Swept, Healthy, Lifted, z

-----------------------------------------------------------------------------
(***************************************************************************)
(* The ways to the root, which are finite, and the functions that the code *)
(* computes along them.                                                    *)
(***************************************************************************)
\* The way to the root is finite: there are ranks that fall on it.
Ranked(t, rank, max) ==
  /\ max \in Nat /\ rank \in [Nodes -> 0..max]
  /\ \A n \in Nodes : t.up[n] # 0 => rank[t.up[n]] < rank[n]
Rooting(t) == \E max \in Nat : \E rank \in [Nodes -> 0..max] : Ranked(t, rank, max)

\* What holds of 0 and of n whenever of its parent holds of all nodes of a
\* set that no way to the root leaves.
Upward(t, N) == N \subseteq Nodes /\ \A n \in N : t.up[n] \in N \cup {0}

LEMMA LineInduction ==
  ASSUME NEW t, t.up \in [Nodes -> Nodes \cup {0}], Rooting(t), NEW N, Upward(t, N),
         NEW P, 0 \in P, \A n \in N : t.up[n] \in P => n \in P
  PROVE  N \subseteq P
<1>1. PICK max \in Nat : \E rank \in [Nodes -> 0..max] : Ranked(t, rank, max)
  BY DEF Rooting
<1>2. PICK rank \in [Nodes -> 0..max] : Ranked(t, rank, max)
  BY <1>1
<1> DEFINE Q == {k \in 0..max + 1 : \A n \in N : rank[n] < k => n \in P}
<1>3. N \subseteq Nodes /\ \A n \in N : rank[n] \in 0..max /\ t.up[n] \in N \cup {0}
  BY <1>2 DEF Upward
<1>4. 0 \in Q
  <2>1. \A n \in N : ~(rank[n] < 0)
    BY <1>3
  <2> QED
    BY <2>1
<1>5. ASSUME NEW k \in 1..max + 1, k - 1 \in Q PROVE k \in Q
  <2>1. SUFFICES ASSUME NEW n \in N, rank[n] < k PROVE n \in P
    OBVIOUS
  <2>2. CASE t.up[n] = 0
    BY <2>2
  <2>3. CASE t.up[n] # 0
    <3>1. rank[t.up[n]] < rank[n] /\ t.up[n] \in N
      BY <1>2, <1>3, <2>3 DEF Ranked
    <3>2. rank[t.up[n]] < k - 1
      BY <1>3, <2>1, <3>1
    <3> QED
      BY <1>5, <3>1, <3>2
  <2> QED
    BY <2>2, <2>3
<1>6. max + 1 \in Q
  <2> HIDE DEF Q
  <2>1. max + 1 \in Nat /\ max + 1 \in 0..max + 1
    OBVIOUS
  <2>2. \A k \in 1..max + 1 : k - 1 \in Q => k \in Q
    BY <1>5
  <2>3. 0..max + 1 \subseteq Q
    BY <1>4, <2>1, <2>2, UpTo
  <2> QED
    BY <2>1, <2>3
<1>7. \A n \in N : rank[n] < max + 1
  BY <1>3
<1> QED
  BY <1>6, <1>7

\* A function can be defined along the ways to the root, and keeps an
\* invariant.
KeepsUp(t, N, D, J, s, g) ==
  /\ t.up \in [Nodes -> Nodes \cup {0}] /\ Rooting(t) /\ Upward(t, N)
  /\ s \in J[0] /\ g \in [D \X N -> D]
  /\ \A n \in N \cup {0} : J[n] \subseteq D
  /\ \A n \in N : \A x \in J[t.up[n]] : g[<<x, n>>] \in J[n]
RunUp(t, N, J, s, g, f) ==
  f[0] = s /\ \A n \in N : f[n] = g[<<f[t.up[n]], n>>] /\ f[t.up[n]] \in J[t.up[n]]

LEMMA LineRuns ==
  ASSUME NEW t, NEW N, NEW D, NEW J, NEW s, NEW g, KeepsUp(t, N, D, J, s, g)
  PROVE  \E f \in [N \cup {0} -> D] : RunUp(t, N, J, s, g, f)
<1>1. t.up \in [Nodes -> Nodes \cup {0}] /\ Rooting(t) /\ Upward(t, N) /\ s \in J[0] /\ g \in [D \X N -> D]
  BY DEF KeepsUp
<1>2. (\A n \in N \cup {0} : J[n] \subseteq D) /\ \A n \in N : \A x \in J[t.up[n]] : g[<<x, n>>] \in J[n]
  BY DEF KeepsUp
<1>3. PICK max \in Nat : \E rank \in [Nodes -> 0..max] : Ranked(t, rank, max)
  BY <1>1 DEF Rooting
<1>4. PICK rank \in [Nodes -> 0..max] : Ranked(t, rank, max)
  BY <1>3
<1>5. N \subseteq Nodes /\ 0 \notin N /\ \A n \in N : rank[n] \in 0..max /\ t.up[n] \in N \cup {0}
  BY <1>1, <1>4 DEF Upward, Nodes
<1> DEFINE Low(k) == {n \in N : rank[n] < k}
           Runs(k, f) == /\ f[0] = s /\ \A n \in Low(k) \cup {0} : f[n] \in J[n]
                         /\ \A n \in Low(k) : f[n] = g[<<f[t.up[n]], n>>]
           P == {k \in 0..max + 1 : \E f \in [N \cup {0} -> D] : Runs(k, f)}
<1>6. \A n \in N, k \in Nat : n \in Low(k) => t.up[n] \in Low(k) \cup {0}
  <2>1. ASSUME NEW n \in N, NEW k \in Nat, n \in Low(k), t.up[n] # 0 PROVE t.up[n] \in Low(k)
    <3>1. rank[t.up[n]] < rank[n] /\ t.up[n] \in N
      BY <1>4, <1>5, <2>1 DEF Ranked
    <3> QED
      BY <1>5, <2>1, <3>1
  <2> QED
    BY <2>1
<1>7. 0 \in P
  <2>1. s \in D /\ Low(0) = {}
    BY <1>1, <1>2, <1>5
  <2> DEFINE z == [n \in N \cup {0} |-> s]
  <2>2. z \in [N \cup {0} -> D] /\ z[0] = s
    BY <2>1
  <2> HIDE DEF z, Low
  <2>3. Runs(0, z)
    BY <1>1, <2>1, <2>2
  <2> HIDE DEF Runs
  <2>4. \E f \in [N \cup {0} -> D] : Runs(0, f)
    BY <2>2, <2>3
  <2> QED
    BY <2>4
<1>8. ASSUME NEW k \in 1..max + 1, k - 1 \in P PROVE k \in P
  <2>1. PICK f \in [N \cup {0} -> D] : Runs(k - 1, f)
    BY <1>8
  <2> DEFINE h == [n \in N \cup {0} |-> IF n \in Low(k) THEN g[<<f[t.up[n]], n>>] ELSE f[n]]
  <2>2. \A n \in Low(k) : n \in N /\ t.up[n] \in Low(k - 1) \cup {0}
    <3>1. ASSUME NEW n \in Low(k), t.up[n] # 0 PROVE t.up[n] \in Low(k - 1)
      <4>1. rank[t.up[n]] < rank[n] /\ t.up[n] \in N
        BY <1>4, <1>5, <3>1 DEF Ranked
      <4> QED
        BY <1>5, <3>1, <4>1
    <3> QED
      BY <3>1
  <2>3. \A n \in Low(k - 1) : n \in Low(k)
    BY <1>5
  <2>4. 0 \notin Low(k) /\ k - 1 \in Nat
    BY <1>5
  <2>5. \A n \in Low(k - 1) : t.up[n] \in Low(k - 1) \cup {0}
    BY <1>6, <2>4
  <2> HIDE DEF Low
  <2>6. \A n \in Low(k) : f[t.up[n]] \in J[t.up[n]] /\ g[<<f[t.up[n]], n>>] \in J[n]
    BY <1>2, <2>1, <2>2
  <2>7. h \in [N \cup {0} -> D]
    BY <1>2, <2>2, <2>6
  <2>8. h[0] = s
    BY <2>1, <2>4
  <2>9. \A n \in Low(k - 1) \cup {0} : h[n] = f[n]
    <3>1. \A n \in Low(k - 1) : n \in N \cup {0}
      BY <2>2, <2>3
    <3> QED
      BY <2>1, <2>2, <2>3, <2>4, <3>1
  <2>10. \A n \in Low(k) : h[n] = g[<<h[t.up[n]], n>>]
    BY <2>2, <2>9
  <2>11. \A n \in Low(k) : h[n] \in J[n]
    BY <2>2, <2>6
  <2>12. \A n \in Low(k) \cup {0} : h[n] \in J[n]
    BY <1>1, <2>8, <2>11
  <2> HIDE DEF h
  <2>13. Runs(k, h)
    BY <2>8, <2>10, <2>12
  <2> HIDE DEF Runs
  <2>14. \E e \in [N \cup {0} -> D] : Runs(k, e)
    BY <2>7, <2>13
  <2> QED
    BY <2>14
<1>9. PICK f \in [N \cup {0} -> D] : Runs(max + 1, f)
  <2> HIDE DEF P
  <2>1. max + 1 \in Nat /\ max + 1 \in 0..max + 1
    OBVIOUS
  <2>2. \A k \in 1..max + 1 : k - 1 \in P => k \in P
    BY <1>8
  <2>3. 0..max + 1 \subseteq P
    BY <1>7, <2>1, <2>2, UpTo
  <2>4. max + 1 \in P
    BY <2>1, <2>3
  <2> QED
    BY <2>4 DEF P
<1>10. Low(max + 1) = N
  BY <1>5
<1> HIDE DEF Low
<1>11. RunUp(t, N, J, s, g, f)
  BY <1>5, <1>9, <1>10 DEF RunUp
<1> QED
  BY <1>11

LEMMA AboveIs ==
  ASSUME NEW t, t.up \in [Nodes -> Nodes \cup {0}], Rooting(t)
  PROVE  /\ Above(t, 0) = {}
         /\ \A n \in Nodes : Above(t, n) = {n} \cup Above(t, t.up[n]) /\ Above(t, n) \subseteq Nodes
<1> DEFINE D == SUBSET Nodes
           J == [n \in Nodes \cup {0} |-> SUBSET Nodes]
           g == [x \in D \X Nodes |-> {x[2]} \cup x[1]]
           Runs(f) == f = [n \in Nodes \cup {0} |-> IF n = 0 THEN {} ELSE {n} \cup f[t.up[n]]]
           line == CHOOSE f : Runs(f)
<1>1. /\ {} \in J[0] /\ g \in [D \X Nodes -> D] /\ \A n \in Nodes \cup {0} : J[n] \subseteq D
      /\ \A n \in Nodes : \A x \in J[t.up[n]] : g[<<x, n>>] \in J[n] /\ g[<<x, n>>] = {n} \cup x
  OBVIOUS
<1>2. Upward(t, Nodes)
  BY DEF Upward
<1> HIDE DEF D, J, g
<1>3. KeepsUp(t, Nodes, D, J, {}, g)
  BY <1>1, <1>2 DEF KeepsUp
<1>4. \E f \in [Nodes \cup {0} -> D] : RunUp(t, Nodes, J, {}, g, f)
  BY <1>3, LineRuns
<1>5. PICK f \in [Nodes \cup {0} -> D] : RunUp(t, Nodes, J, {}, g, f)
  BY <1>4
<1>6. Runs(f)
  <2>1. f[0] = {} /\ \A n \in Nodes : f[n] = {n} \cup f[t.up[n]]
    BY <1>1, <1>5 DEF RunUp
  <2>2. 0 \notin Nodes
    BY DEF Nodes
  <2> QED
    BY <2>1, <2>2
<1>7. Runs(line)
  <2> HIDE DEF Runs
  <2> QED
    BY <1>6, Zenon
<1>8. \A n : Above(t, n) = line[n]
  BY DEF Above
<1>9. line[0] = {} /\ \A n \in Nodes : line[n] = {n} \cup line[t.up[n]]
  <2>1. 0 \notin Nodes
    BY DEF Nodes
  <2> HIDE DEF line
  <2> QED
    BY <1>7, <2>1
<1> HIDE DEF line
<1>10. \A n \in Nodes : line[n] \subseteq Nodes
  <2> DEFINE P == {0} \cup {n \in Nodes : line[n] \subseteq Nodes}
  <2>1. 0 \in P /\ \A n \in Nodes : t.up[n] \in P => n \in P
    BY <1>9
  <2> HIDE DEF P
  <2>2. Nodes \subseteq P
    BY <1>2, <2>1, LineInduction
  <2> QED
    BY <2>2 DEF P, Nodes
<1> QED
  BY <1>8, <1>9, <1>10

\* A line is closed under parents, has no cycle, and two of its nodes with
\* the same parent are the same.
LEMMA LineIs ==
  ASSUME NEW t, t.up \in [Nodes -> Nodes \cup {0}], Rooting(t), NEW n \in Nodes \cup {0}
  PROVE  /\ Above(t, n) \subseteq Nodes /\ Upward(t, Above(t, n))
         /\ \A m \in Above(t, n) : Above(t, m) \subseteq Above(t, n)
         /\ n \in Nodes => n \in Above(t, n) /\ n \notin Above(t, t.up[n]) /\ t.up[n] # n
         /\ \A m, k \in Above(t, n) : t.up[m] = t.up[k] => m = k
         /\ \A m \in Above(t, n) : n \in Above(t, m) => m = n
<1>1. /\ Above(t, 0) = {}
      /\ \A m \in Nodes : Above(t, m) = {m} \cup Above(t, t.up[m]) /\ Above(t, m) \subseteq Nodes
  BY AboveIs
<1>2. Upward(t, Nodes)
  BY DEF Upward
<1>3. PICK max \in Nat : \E rank \in [Nodes -> 0..max] : Ranked(t, rank, max)
  BY DEF Rooting
<1>4. PICK rank \in [Nodes -> 0..max] : Ranked(t, rank, max)
  BY <1>3
<1>5. 0 \notin Nodes
  BY DEF Nodes
<1> DEFINE Good(m) == /\ Upward(t, Above(t, m))
                      /\ \A k \in Above(t, m) : Above(t, k) \subseteq Above(t, m)
                      /\ \A k \in Above(t, m) : k # m => rank[k] < rank[m]
           P == {0} \cup {m \in Nodes : Good(m)}
<1>6. ASSUME NEW m \in Nodes, t.up[m] \in P PROVE m \in P
  <2> DEFINE p == t.up[m]
  <2>1. Above(t, m) = {m} \cup Above(t, p) /\ p \in Nodes \cup {0}
    BY <1>1
  <2>2. CASE p = 0
    <3>1. Above(t, m) = {m}
      BY <1>1, <2>1, <2>2
    <3> QED
      BY <2>2, <3>1 DEF Upward
  <2>3. CASE p # 0
    <3>1. p \in Nodes /\ Good(p)
      BY <1>5, <1>6, <2>3
    <3>2. Upward(t, Above(t, m))
      <4>1. p \in Above(t, p)
        BY <1>1, <3>1
      <4> QED
        BY <2>1, <3>1, <4>1 DEF Upward
    <3>3. \A k \in Above(t, m) : Above(t, k) \subseteq Above(t, m)
      BY <2>1, <3>1
    <3>4. ASSUME NEW k \in Above(t, m), k # m PROVE rank[k] < rank[m]
      <4>1. k \in Above(t, p) /\ k \in Nodes
        BY <1>1, <2>1, <3>4
      <4>2. rank[p] < rank[m]
        BY <1>4, <3>1, <1>5 DEF Ranked
      <4>3. rank[k] \in Int /\ rank[p] \in Int /\ rank[m] \in Int
        BY <3>1, <4>1
      <4>4. k = p \/ rank[k] < rank[p]
        BY <3>1, <4>1
      <4> QED
        BY <4>2, <4>3, <4>4
    <3> QED
      BY <3>2, <3>3, <3>4
  <2> QED
    BY <2>2, <2>3
<1>7. \A m \in Nodes : Good(m)
  <2>1. 0 \in P /\ \A m \in Nodes : t.up[m] \in P => m \in P
    BY <1>6
  <2> HIDE DEF P
  <2>2. Nodes \subseteq P
    BY <1>2, <2>1, LineInduction
  <2> HIDE DEF Good
  <2> QED
    BY <1>5, <2>2 DEF P
<1>8. ASSUME NEW m \in Nodes PROVE m \in Above(t, m) /\ m \notin Above(t, t.up[m]) /\ t.up[m] # m
  <2>1. m \in Above(t, m) /\ (t.up[m] = 0 => m \notin Above(t, t.up[m]) /\ t.up[m] # m)
    BY <1>1, <1>5
  <2>2. ASSUME t.up[m] # 0 PROVE m \notin Above(t, t.up[m]) /\ t.up[m] # m
    <3>1. rank[t.up[m]] < rank[m] /\ t.up[m] \in Nodes
      BY <1>4, <2>2 DEF Ranked
    <3>2. \A k \in Above(t, t.up[m]) : k # t.up[m] => rank[k] < rank[t.up[m]]
      BY <1>7, <3>1
    <3>3. rank[t.up[m]] \in Int /\ rank[m] \in Int
      BY <3>1
    <3> QED
      BY <3>1, <3>2, <3>3
  <2> QED
    BY <2>1, <2>2
<1>9. ASSUME NEW m \in Nodes, NEW k \in Above(t, m), m \in Above(t, k) PROVE k = m
  <2>1. k \in Nodes
    BY <1>1
  <2>2. (k # m => rank[k] < rank[m]) /\ (m # k => rank[m] < rank[k])
    BY <1>7, <1>9, <2>1
  <2>3. rank[k] \in Int /\ rank[m] \in Int
    BY <2>1
  <2> QED
    BY <2>2, <2>3
<1> DEFINE Q == {0} \cup {m \in Nodes : \A j, k \in Above(t, m) : t.up[j] = t.up[k] => j = k}
<1>10. ASSUME NEW m \in Nodes, t.up[m] \in Q PROVE m \in Q
  <2>1. Above(t, m) = {m} \cup Above(t, t.up[m]) /\ t.up[m] \in Nodes \cup {0}
    BY <1>1
  <2>2. \A j, k \in Above(t, t.up[m]) : t.up[j] = t.up[k] => j = k
    BY <1>1, <1>10
  <2>3. ASSUME NEW j \in Above(t, t.up[m]), t.up[j] = t.up[m] PROVE FALSE
    <3>1. t.up[m] \in Nodes
      BY <1>1, <2>1, <2>3
    <3>2. j \in Nodes
      BY <1>1, <2>3, <3>1
    <3>3. t.up[m] \in Above(t, j)
      <4>1. t.up[j] \in Nodes /\ t.up[j] \in Above(t, t.up[j])
        BY <1>8, <2>3, <3>1
      <4> QED
        BY <1>1, <2>3, <3>2, <4>1
    <3>4. j = t.up[m]
      BY <1>9, <2>3, <3>1, <3>3
    <3> QED
      BY <1>8, <2>3, <3>2, <3>4
  <2> QED
    BY <2>1, <2>2, <2>3
<1>11. \A m \in Nodes : \A j, k \in Above(t, m) : t.up[j] = t.up[k] => j = k
  <2>1. 0 \in Q /\ \A m \in Nodes : t.up[m] \in Q => m \in Q
    BY <1>10
  <2> HIDE DEF Q
  <2>2. Nodes \subseteq Q
    BY <1>2, <2>1, LineInduction
  <2> QED
    BY <1>5, <2>2 DEF Q
<1>12. CASE n = 0
  BY <1>1, <1>5, <1>12 DEF Upward
<1>13. CASE n \in Nodes
  BY <1>1, <1>7, <1>8, <1>9, <1>11, <1>13
<1> QED
  BY <1>12, <1>13

LEMMA SameLine ==
  ASSUME NEW t, t.up \in [Nodes -> Nodes \cup {0}], Rooting(t),
         NEW u, u.up \in [Nodes -> Nodes \cup {0}], Rooting(u),
         NEW n \in Nodes \cup {0}, \A m \in Above(t, n) : u.up[m] = t.up[m]
  PROVE  Above(u, n) = Above(t, n)
<1>1. /\ Above(t, 0) = {}
      /\ \A m \in Nodes : Above(t, m) = {m} \cup Above(t, t.up[m])
  BY AboveIs
<1>2. /\ Above(u, 0) = {}
      /\ \A m \in Nodes : Above(u, m) = {m} \cup Above(u, u.up[m])
  BY AboveIs
<1>3. Upward(t, Above(t, n)) /\ Above(t, n) \subseteq Nodes /\ (n \in Nodes => n \in Above(t, n))
  BY LineIs
<1> DEFINE P == {0} \cup {m \in Nodes : Above(u, m) = Above(t, m)}
<1>4. ASSUME NEW m \in Above(t, n), t.up[m] \in P PROVE m \in P
  <2>1. m \in Nodes /\ u.up[m] = t.up[m]
    BY <1>3
  <2>2. Above(u, t.up[m]) = Above(t, t.up[m])
    BY <1>1, <1>2, <1>4
  <2>3. Above(u, m) = {m} \cup Above(u, t.up[m]) /\ Above(t, m) = {m} \cup Above(t, t.up[m])
    BY <1>1, <1>2, <2>1
  <2> QED
    BY <2>1, <2>2, <2>3
<1>5. 0 \in P
  OBVIOUS
<1> HIDE DEF P
<1>6. Above(t, n) \subseteq P
  BY <1>3, <1>4, <1>5, LineInduction
<1>7. n \in P
  BY <1>3, <1>5, <1>6
<1> QED
  BY <1>1, <1>2, <1>7 DEF P

\* Without a node its kids hang on its parent.
Bypassed(t, u, n) ==
  \A m \in Nodes : u.up[m] = IF m = n THEN 0 ELSE IF t.up[m] = n THEN t.up[n] ELSE t.up[m]

LEMMA BypassedLines ==
  ASSUME NEW t, t.up \in [Nodes -> Nodes \cup {0}], Rooting(t),
         NEW u, u.up \in [Nodes -> Nodes \cup {0}], NEW n \in Nodes, Bypassed(t, u, n)
  PROVE  Rooting(u) /\ \A m \in Nodes : m # n => Above(u, m) = Above(t, m) \ {n}
<1>1. PICK max \in Nat : \E rank \in [Nodes -> 0..max] : Ranked(t, rank, max)
  BY DEF Rooting
<1>2. PICK rank \in [Nodes -> 0..max] : Ranked(t, rank, max)
  BY <1>1
<1>3. 0 \notin Nodes
  BY DEF Nodes
<1>4. ASSUME NEW m \in Nodes, u.up[m] # 0 PROVE rank[u.up[m]] < rank[m]
  <2>1. m # n
    BY <1>4 DEF Bypassed
  <2>2. CASE t.up[m] # n
    <3>1. u.up[m] = t.up[m]
      BY <2>1, <2>2 DEF Bypassed
    <3> QED
      BY <1>2, <1>4, <3>1 DEF Ranked
  <2>3. CASE t.up[m] = n
    <3>1. u.up[m] = t.up[n]
      BY <2>1, <2>3 DEF Bypassed
    <3>2. rank[t.up[n]] < rank[n] /\ rank[n] < rank[m]
      BY <1>2, <1>3, <1>4, <2>3, <3>1 DEF Ranked
    <3>3. rank[t.up[n]] \in Int /\ rank[n] \in Int /\ rank[m] \in Int
      BY <1>3, <1>4, <3>1
    <3> QED
      BY <3>1, <3>2, <3>3
  <2> QED
    BY <2>2, <2>3
<1>5. Ranked(u, rank, max)
  BY <1>4 DEF Ranked
<1>6. Rooting(u)
  BY <1>5 DEF Rooting
<1>7. /\ Above(t, 0) = {}
      /\ \A m \in Nodes : Above(t, m) = {m} \cup Above(t, t.up[m])
  BY AboveIs
<1>8. /\ Above(u, 0) = {}
      /\ \A m \in Nodes : Above(u, m) = {m} \cup Above(u, u.up[m])
  BY <1>6, AboveIs
<1>9. n \notin Above(t, t.up[n]) /\ t.up[n] # n
  BY LineIs
<1> DEFINE Same(m) == (m # n => Above(u, m) = Above(t, m) \ {n}) /\ (m = n => Above(u, t.up[n]) = Above(t, t.up[n]))
           P == {0} \cup {m \in Nodes : Same(m)}
<1>10. ASSUME NEW m \in Nodes, t.up[m] \in P PROVE m \in P
  <2> DEFINE p == t.up[m]
  <2>1. p \in Nodes \cup {0} /\ (p = 0 => Above(u, p) = Above(t, p)) /\ (p # 0 => Same(p))
    BY <1>7, <1>8, <1>10
  <2>2. CASE m = n
    <3>1. Above(u, p) = Above(t, p)
      BY <1>9, <2>1, <2>2
    <3> QED
      BY <2>2, <3>1
  <2>3. CASE m # n /\ p # n
    <3>1. u.up[m] = p
      BY <2>3 DEF Bypassed
    <3>2. Above(u, p) = Above(t, p) \ {n}
      BY <1>7, <1>8, <2>1, <2>3
    <3>3. Above(u, m) = Above(t, m) \ {n}
      <4>1. Above(u, m) = {m} \cup Above(u, p) /\ Above(t, m) = {m} \cup Above(t, p)
        BY <1>7, <1>8, <3>1
      <4> QED
        BY <2>3, <3>2, <4>1
    <3> QED
      BY <2>3, <3>3
  <2>4. CASE m # n /\ p = n
    <3>1. u.up[m] = t.up[n]
      BY <2>4 DEF Bypassed
    <3>2. Above(u, t.up[n]) = Above(t, t.up[n])
      BY <1>3, <2>1, <2>4
    <3>3. Above(u, m) = {m} \cup Above(t, t.up[n]) /\ Above(t, m) = {m} \cup ({n} \cup Above(t, t.up[n]))
      BY <1>7, <1>8, <2>4, <3>1, <3>2
    <3>4. Above(u, m) = Above(t, m) \ {n}
      BY <1>9, <2>4, <3>3
    <3> QED
      BY <2>4, <3>4
  <2> QED
    BY <2>2, <2>3, <2>4
<1>11. \A m \in Nodes : m # n => Above(u, m) = Above(t, m) \ {n}
  <2>1. 0 \in P /\ \A m \in Nodes : t.up[m] \in P => m \in P
    BY <1>10
  <2>2. Upward(t, Nodes)
    BY DEF Upward
  <2> HIDE DEF P
  <2>3. Nodes \subseteq P
    BY <2>1, <2>2, LineInduction
  <2> HIDE DEF Same
  <2>4. \A m \in Nodes : Same(m)
    BY <1>3, <2>3 DEF P
  <2> QED
    BY <2>4 DEF Same
<1> QED
  BY <1>6, <1>11

-----------------------------------------------------------------------------
(***************************************************************************)
(* What a call for a child and a collection leave.                         *)
(***************************************************************************)
\* A tree has got a node for label under parent, or has lost it for want of
\* memory; what was there is as before.
GrownBy(labels, t, u, parent, label) ==
  /\ u \in TreesOf(labels) /\ Healthy(u) /\ Rooting(u)
  /\ \A m \in Nodes : t.label[m] # NoLabel => u.label[m] = t.label[m] /\ u.up[m] = t.up[m]
  /\ \A m \in Nodes : t.label[m] = NoLabel /\ u.label[m] # NoLabel => u.label[m] = label /\ u.up[m] \in {0, parent}
ChildOf(u, n, parent, label) == n \in Nodes /\ u.label[n] = label /\ u.up[n] = parent

\* A node has been taken from the free list.
Taken(labels, t, u, n, label) ==
  /\ u \in TreesOf(labels) /\ u.label = [t.label EXCEPT ![n] = label]
  /\ u.up = t.up /\ u.kid = t.kid /\ u.list = t.list /\ u.chunk = t.chunk /\ u.held = t.held
  /\ u.roots = t.roots /\ u.bare = t.bare
  /\ n \in Nodes /\ t.label[n] = NoLabel

LEMMA NodeTaken ==
  ASSUME NEW labels, NEW t \in TreesOf(labels), Healthy(t), NEW label \in labels, LiveNodes(t) # Nodes
  PROVE  Taken(labels, t, NewNode(t, label), FreeNode(t), label)
<1> DEFINE n == FreeNode(t)
           u == NewNode(t, label)
<1>1. n \in Nodes /\ t.label[n] = NoLabel
  <2>1. Nodes \ LiveNodes(t) # {} /\ Nodes \ LiveNodes(t) \subseteq Nat
    BY DEF LiveNodes, Nodes
  <2>2. n \in Nodes \ LiveNodes(t)
    BY <2>1, Smallest DEF FreeNode
  <2> QED
    BY <2>2 DEF LiveNodes
<1>2. t.up[n] = 0 /\ t.kid[n] = 0 /\ t.list[n] = <<>>
  BY <1>1 DEF Healthy, Clean
<1> DEFINE fault == IF t.fault = "second node" THEN "node" ELSE t.fault
<1>3. u = [t EXCEPT !.label = [t.label EXCEPT ![n] = label], !.up = [t.up EXCEPT ![n] = 0],
                    !.kid = [t.kid EXCEPT ![n] = 0], !.list = [t.list EXCEPT ![n] = <<>>], !.fault = fault]
  BY DEF NewNode, TreesOf
<1> HIDE DEF n, u
<1>4. /\ [t.up EXCEPT ![n] = 0] = t.up /\ [t.kid EXCEPT ![n] = 0] = t.kid
      /\ [t.list EXCEPT ![n] = <<>>] = t.list
  BY <1>1, <1>2 DEF TreesOf
<1>5. u = [t EXCEPT !.label = [t.label EXCEPT ![n] = label], !.up = t.up,
                    !.kid = t.kid, !.list = t.list, !.fault = fault]
  BY <1>3, <1>4
<1>6. fault \in Failures \cup {"crash"}
  BY DEF TreesOf, Failures
<1> HIDE DEF fault
<1>7. [t.label EXCEPT ![n] = label] \in [Nodes -> labels \cup {NoLabel}]
  BY <1>1 DEF TreesOf
<1> QED
  BY <1>1, <1>5, <1>6, <1>7 DEF Taken, TreesOf, n, u

Ready(labels, t, u, n, parent, label) ==
  /\ Healthy(u) /\ GrownBy(labels, t, u, parent, label) /\ n \notin u.roots /\ u.up[n] = 0
  /\ Linked(u, {n}, {}) /\ \A m \in Nodes : u.up[m] # n

LEMMA TakenIs ==
  ASSUME NEW labels, NoLabel \notin labels, NEW t \in TreesOf(labels), Healthy(t), Rooting(t), NEW label \in labels,
         NEW u, NEW n, Taken(labels, t, u, n, label), NEW parent
  PROVE  Ready(labels, t, u, n, parent, label)
<1>1. /\ n \in Nodes /\ t.label[n] = NoLabel /\ u.label = [t.label EXCEPT ![n] = label]
      /\ u.up = t.up /\ u.kid = t.kid /\ u.list = t.list /\ u.chunk = t.chunk /\ u.held = t.held
      /\ u.roots = t.roots /\ u \in TreesOf(labels)
  BY DEF Taken
<1>2. t.up[n] = 0 /\ t.kid[n] = 0 /\ t.list[n] = <<>>
  BY <1>1 DEF Healthy, Clean
<1>3. \A q, m : KidIn(u, q, m) <=> KidIn(t, q, m)
  BY <1>1 DEF KidIn
<1>4. /\ UpLinked(t, {}) /\ KidLinked(t, {}) /\ (\A p \in Nodes : ChunksSound(t, p)) /\ Apart(t) /\ Holding(t, {})
      /\ Rooted(t) /\ Clean(t)
  BY DEF Healthy, Linked
<1>5. \A p \in Nodes : ChunksSound(u, p)
  BY <1>1, <1>4, SMTT(60) DEF ChunksSound
<1>6. Apart(u) /\ Holding(u, {})
  BY <1>1, <1>4 DEF Apart, Holding
<1>7. UpLinked(u, {}) /\ KidLinked(u, {}) /\ UpLinked(u, {n})
  BY <1>1, <1>3, <1>4 DEF UpLinked, KidLinked
<1>8. KidLinked(u, {n})
  <2>1. \A q, m \in Nodes : KidIn(u, q, m) => u.up[m] = q /\ m # n
    <3>1. \A q, m \in Nodes : KidIn(u, q, m) => u.up[m] = q /\ q # 0
      BY <1>7 DEF KidLinked, Nodes
    <3> QED
      BY <1>1, <1>2, <3>1
  <2> QED
    BY <2>1 DEF KidLinked
<1>9. n \notin u.roots
  BY <1>1, <1>4 DEF Rooted
<1>10. t.label \in [Nodes -> labels \cup {NoLabel}] /\ t.roots \subseteq Nodes
  BY DEF TreesOf
<1>11. \A m \in Nodes : u.label[m] = IF m = n THEN label ELSE t.label[m]
  BY <1>1, <1>10
<1>12. Rooted(u)
  <2>1. \A r \in t.roots : r # n /\ u.label[r] = t.label[r]
    BY <1>1, <1>9, <1>10, <1>11
  <2> QED
    BY <1>1, <1>4, <2>1 DEF Rooted
<1>13. Clean(u)
  BY <1>1, <1>4, <1>11 DEF Clean
<1>14. Healthy(u) /\ Linked(u, {n}, {})
  BY <1>5, <1>6, <1>7, <1>8, <1>12, <1>13 DEF Healthy, Linked
<1>15. Rooting(u)
  BY <1>1 DEF Rooting, Ranked
<1>16. \A m \in Nodes : t.label[m] # NoLabel => u.label[m] = t.label[m] /\ u.up[m] = t.up[m]
  BY <1>1, <1>11
<1>17. \A m \in Nodes : t.label[m] = NoLabel /\ u.label[m] # NoLabel => u.label[m] = label /\ u.up[m] \in {0, parent}
  <2>1. ASSUME NEW m \in Nodes, t.label[m] = NoLabel, u.label[m] # NoLabel PROVE m = n
    BY <1>11, <2>1
  <2> QED
    BY <1>1, <1>2, <1>11, <2>1
<1>18. ASSUME NEW m \in Nodes, u.up[m] = n PROVE FALSE
  <2>1. KidIn(t, n, m)
    BY <1>1, <1>4, <1>18 DEF UpLinked, Nodes
  <2>2. m # 0
    BY DEF Nodes
  <2> QED
    BY <1>2, <2>1, <2>2 DEF KidIn
<1> QED
  BY <1>1, <1>2, <1>9, <1>14, <1>15, <1>16, <1>17, <1>18 DEF GrownBy, Ready

LEMMA KidGrown ==
  ASSUME NEW labels, NoLabel \notin labels, NEW t \in TreesOf(labels), Healthy(t), Rooting(t), NEW label \in labels,
         NEW parent \in Nodes, t.label[parent] # NoLabel, LiveNodes(t) # Nodes
  PROVE  LET g == Grow(t, parent, label) IN
         GrownBy(labels, t, g.tree, parent, label) /\ (g.node = 0 \/ ChildOf(g.tree, g.node, parent, label))
<1> DEFINE n == FreeNode(t)
           v == NewNode(t, label)
           gap == FirstPlace(v, parent, {0})
           r == InsertKid(v, parent, n, 0, gap)
           g == Grow(t, parent, label)
<1>1. Taken(labels, t, v, n, label)
  BY NodeTaken
<1> HIDE DEF n, v
<1>2. /\ Healthy(v) /\ GrownBy(labels, t, v, parent, label) /\ n \notin v.roots /\ v.up[n] = 0
      /\ Linked(v, {n}, {}) /\ \A m \in Nodes : v.up[m] # n
  <2>1. Ready(labels, t, v, n, parent, label)
    BY <1>1, TakenIs
  <2> QED
    BY <2>1 DEF Ready
<1>3. v \in TreesOf(labels) /\ n \in Nodes /\ t.label[n] = NoLabel /\ v.label = [t.label EXCEPT ![n] = label]
      /\ v.up = t.up
  BY <1>1 DEF Taken
<1>4. \/ r.ok = TRUE /\ KidAttached(labels, v, r.tree, {n}, {}, parent, n, 0)
      \/ r.ok = FALSE /\ r.tree = v
  <2> DEFINE lo == {n}
             none == {}
  <2>1. n \in lo /\ Linked(v, lo, none)
    BY <1>2
  <2> HIDE DEF lo, none, r, gap
  <2>2. v \in TreesOf(labels) /\ n \in Nodes
    BY <1>3
  <2>3. KidPut(labels, v, InsertKid(v, parent, n, 0, FirstPlace(v, parent, {0})), lo, none, parent, n, 0)
    BY <2>1, <2>2, KidInserted
  <2> QED
    BY <2>3 DEF KidPut, r, gap, lo, none
<1>5. g = Grown(n, r)
  <2>1. parent # 0
    BY DEF Nodes
  <2> QED
    BY <2>1 DEF Grow, InsertPropertyTreeChild, n, v
<1> HIDE DEF g, r
<1>6. CASE r.ok = FALSE /\ r.tree = v
  <2>1. g.tree = v /\ g.node = 0
    BY <1>5, <1>6 DEF Grown
  <2> QED
    BY <1>2, <2>1 DEF g
<1>7. CASE r.ok = TRUE /\ KidAttached(labels, v, r.tree, {n}, {}, parent, n, 0)
  <2> DEFINE w == r.tree
  <2>1. g.tree = w /\ g.node = n
    BY <1>5, <1>7 DEF Grown
  <2>2. /\ w \in TreesOf(labels) /\ w.label = v.label /\ w.roots = v.roots /\ w.up = [v.up EXCEPT ![n] = parent]
        /\ \A q \in Nodes : q # parent => w.kid[q] = v.kid[q] /\ w.list[q] = v.list[q]
    BY <1>7 DEF KidAttached, Kept
  <2>3. Linked(w, {}, {})
    <3>1. {n} \ {n} = {}
      OBVIOUS
    <3> QED
      BY <1>7, <3>1 DEF KidAttached
  <2> HIDE DEF w
  <2>4. v.up \in [Nodes -> Nodes \cup {0}] /\ v.label \in [Nodes -> labels \cup {NoLabel}] /\ v.roots \subseteq Nodes
        /\ t.label \in [Nodes -> labels \cup {NoLabel}]
    BY <1>3 DEF TreesOf
  <2>5. \A m \in Nodes : w.up[m] = IF m = n THEN parent ELSE v.up[m]
    BY <2>2, <2>4
  <2>6. Rooted(v) /\ Clean(v)
    BY <1>2 DEF Healthy
  <2>7. Rooted(w)
    <3>1. \A x \in v.roots : w.up[x] = v.up[x]
      BY <1>2, <2>4, <2>5
    <3> QED
      BY <2>2, <2>6, <3>1 DEF Rooted
  <2>8. \A m \in Nodes : v.label[m] = IF m = n THEN label ELSE t.label[m]
    BY <1>3, <2>4
  <2>9. n # parent /\ v.label[parent] # NoLabel /\ v.label[n] # NoLabel
    BY <1>3, <2>8
  <2>10. Clean(w)
    <3>1. ASSUME NEW m \in Nodes, w.label[m] = NoLabel PROVE w.up[m] = 0 /\ w.kid[m] = 0 /\ w.list[m] = <<>>
      <4>1. m # n /\ m # parent /\ v.label[m] = NoLabel
        BY <2>2, <2>9, <3>1
      <4>2. w.up[m] = v.up[m] /\ w.kid[m] = v.kid[m] /\ w.list[m] = v.list[m]
        BY <2>2, <2>5, <4>1
      <4> QED
        BY <2>6, <4>1, <4>2 DEF Clean
    <3> QED
      BY <3>1 DEF Clean
  <2>11. Healthy(w)
    BY <2>3, <2>7, <2>10 DEF Healthy
  <2>12. Rooting(w)
    <3>1. PICK max \in Nat : \E rank \in [Nodes -> 0..max] : Ranked(t, rank, max)
      BY DEF Rooting
    <3>2. PICK rank \in [Nodes -> 0..max] : Ranked(t, rank, max)
      BY <3>1
    <3> DEFINE new == [m \in Nodes |-> IF m = n THEN rank[parent] + 1 ELSE rank[m]]
    <3>3. new \in [Nodes -> 0..max + 1] /\ max + 1 \in Nat
      OBVIOUS
    <3>4. ASSUME NEW m \in Nodes, w.up[m] # 0 PROVE new[w.up[m]] < new[m]
      <4>1. CASE m = n
        <5>1. w.up[m] = parent /\ new[parent] = rank[parent] /\ new[m] = rank[parent] + 1 /\ rank[parent] \in 0..max
          BY <2>5, <2>9, <4>1
        <5> QED
          BY <5>1
      <4>2. CASE m # n
        <5>1. w.up[m] = t.up[m] /\ t.up[m] \in Nodes /\ t.up[m] # n
          BY <1>2, <1>3, <2>4, <2>5, <3>4, <4>2
        <5>2. rank[t.up[m]] < rank[m]
          BY <3>2, <3>4, <5>1 DEF Ranked
        <5>3. new[t.up[m]] = rank[t.up[m]] /\ new[m] = rank[m]
          BY <4>2, <5>1
        <5> QED
          BY <5>1, <5>2, <5>3
      <4> QED
        BY <4>1, <4>2
    <3> HIDE DEF new
    <3>5. Ranked(w, new, max + 1)
      BY <3>3, <3>4 DEF Ranked
    <3> QED
      BY <3>3, <3>5 DEF Rooting
  <2>13. \A m \in Nodes : t.label[m] # NoLabel => w.label[m] = t.label[m] /\ w.up[m] = t.up[m]
    BY <1>3, <2>2, <2>5, <2>8
  <2>14. \A m \in Nodes : t.label[m] = NoLabel /\ w.label[m] # NoLabel => w.label[m] = label /\ w.up[m] \in {0, parent}
    <3>1. ASSUME NEW m \in Nodes, t.label[m] = NoLabel, w.label[m] # NoLabel PROVE m = n
      BY <2>2, <2>8, <3>1
    <3> QED
      BY <2>2, <2>5, <2>8, <3>1
  <2>15. GrownBy(labels, t, w, parent, label)
    BY <2>2, <2>11, <2>12, <2>13, <2>14 DEF GrownBy
  <2>16. ChildOf(w, n, parent, label)
    BY <1>3, <2>2, <2>5, <2>8 DEF ChildOf
  <2> QED
    BY <2>1, <2>15, <2>16 DEF g
<1> QED
  BY <1>4, <1>6, <1>7

LEMMA RootGrown ==
  ASSUME NEW labels, NoLabel \notin labels, NEW t \in TreesOf(labels), Healthy(t), Rooting(t), NEW label \in labels,
         LiveNodes(t) # Nodes
  PROVE  LET g == Grow(t, 0, label) IN
         GrownBy(labels, t, g.tree, 0, label) /\ (g.node = 0 \/ ChildOf(g.tree, g.node, 0, label))
<1> DEFINE n == FreeNode(t)
           v == NewNode(t, label)
           r == InsertRoot(v, n)
           u == Raised(r, n)
           g == Grow(t, 0, label)
<1>1. Taken(labels, t, v, n, label)
  BY NodeTaken
<1> HIDE DEF n, v
<1>2. Ready(labels, t, v, n, 0, label)
  BY <1>1, TakenIs
<1>3. /\ Healthy(v) /\ GrownBy(labels, t, v, 0, label) /\ v.up[n] = 0 /\ Rooting(v)
      /\ UpLinked(v, {}) /\ KidLinked(v, {}) /\ (\A p \in Nodes : ChunksSound(v, p)) /\ Apart(v) /\ Holding(v, {})
      /\ Rooted(v) /\ Clean(v)
  BY <1>2 DEF Ready, GrownBy, Healthy, Linked
<1>4. v \in TreesOf(labels) /\ n \in Nodes /\ t.label[n] = NoLabel /\ v.label = [t.label EXCEPT ![n] = label]
      /\ v.label[n] = label /\ v.label[n] # NoLabel
  BY <1>1 DEF Taken, TreesOf
<1>5. MadeRoot(labels, v, u, n) /\ (r.ok => u = r.tree) /\ (~r.ok => r.tree = v) /\ r.ok \in BOOLEAN
  BY <1>3, <1>4, RootInserted
<1>6. g = Grown(n, r)
  BY DEF Grow, InsertPropertyTreeChild, n, v
<1> HIDE DEF g, r, u
<1>7. CASE ~r.ok
  <2>1. g.tree = v /\ g.node = 0
    BY <1>5, <1>6, <1>7 DEF Grown
  <2> QED
    BY <1>3, <2>1 DEF g
<1>8. CASE r.ok
  <2>1. g.tree = u /\ g.node = n
    BY <1>5, <1>6, <1>8 DEF Grown
  <2>2. /\ u \in TreesOf(labels) /\ u.label = v.label /\ u.kid = v.kid
        /\ u.list = v.list /\ u.chunk = v.chunk /\ u.held = v.held
        /\ u.up = [v.up EXCEPT ![n] = 0] /\ Rooted(u)
    BY <1>5 DEF MadeRoot
  <2>3. u.up = v.up
    BY <1>3, <1>4, <2>2 DEF TreesOf
  <2>4. \A q, m : KidIn(u, q, m) <=> KidIn(v, q, m)
    BY <2>2 DEF KidIn
  <2>5. UpLinked(u, {}) /\ KidLinked(u, {})
    BY <1>3, <2>3, <2>4 DEF UpLinked, KidLinked
  <2>6. \A p \in Nodes : ChunksSound(u, p)
    BY <1>3, <2>2, SMTT(60) DEF ChunksSound
  <2>7. Apart(u) /\ Holding(u, {})
    BY <1>3, <2>2 DEF Apart, Holding
  <2>8. Clean(u)
    BY <1>3, <2>2, <2>3 DEF Clean
  <2>9. Healthy(u)
    BY <2>2, <2>5, <2>6, <2>7, <2>8 DEF Healthy, Linked
  <2>10. Rooting(u)
    BY <1>3, <2>3 DEF Rooting, Ranked
  <2>11. GrownBy(labels, t, u, 0, label)
    BY <1>3, <2>2, <2>3, <2>9, <2>10 DEF GrownBy
  <2>12. ChildOf(u, n, 0, label)
    BY <1>3, <1>4, <2>2, <2>3 DEF ChildOf
  <2> QED
    BY <2>1, <2>11, <2>12 DEF g
<1> QED
  BY <1>5, <1>7, <1>8

Got(labels, t, g, parent, label) ==
  GrownBy(labels, t, g.tree, parent, label) /\ (g.node = 0 \/ ChildOf(g.tree, g.node, parent, label))

LEMMA SameGot ==
  ASSUME NEW labels, NEW t \in TreesOf(labels), Healthy(t), Rooting(t), NEW parent, NEW label,
         NEW bare, bare \subseteq labels, NEW fault \in Failures \cup {"crash"}
  PROVE  GrownBy(labels, t, [t EXCEPT !.bare = bare, !.fault = fault], parent, label)
<1> DEFINE u == [t EXCEPT !.bare = bare, !.fault = fault]
<1>1. /\ u \in TreesOf(labels) /\ u.label = t.label /\ u.up = t.up /\ u.kid = t.kid /\ u.list = t.list
      /\ u.chunk = t.chunk /\ u.held = t.held /\ u.roots = t.roots
  BY DEF TreesOf
<1> HIDE DEF u
<1>2. /\ UpLinked(t, {}) /\ KidLinked(t, {}) /\ (\A p \in Nodes : ChunksSound(t, p)) /\ Apart(t) /\ Holding(t, {})
      /\ Rooted(t) /\ Clean(t)
  BY DEF Healthy, Linked
<1>3. \A q, m : KidIn(u, q, m) <=> KidIn(t, q, m)
  BY <1>1 DEF KidIn
<1>4. UpLinked(u, {}) /\ KidLinked(u, {})
  BY <1>1, <1>2, <1>3 DEF UpLinked, KidLinked
<1>5. \A p \in Nodes : ChunksSound(u, p)
  BY <1>1, <1>2, SMTT(60) DEF ChunksSound
<1>6. Apart(u) /\ Holding(u, {})
  BY <1>1, <1>2 DEF Apart, Holding
<1>7. Clean(u) /\ Rooted(u)
  BY <1>1, <1>2 DEF Clean, Rooted
<1>8. Healthy(u)
  BY <1>4, <1>5, <1>6, <1>7 DEF Healthy, Linked
<1>9. Rooting(u)
  BY <1>1 DEF Rooting, Ranked
<1> QED
  BY <1>1, <1>8, <1>9 DEF GrownBy, u

LEMMA MatchingIs ==
  ASSUME NEW labels, NoLabel \notin labels, NEW t \in TreesOf(labels), Healthy(t), NEW parent \in Nodes,
         NEW label \in labels
  PROVE  Matching(t, parent, label) = 0 \/ ChildOf(t, Matching(t, parent, label), parent, label)
<1> DEFINE kids == Labelled(t, label)
           place == FirstPlace(t, parent, kids)
<1>1. \A m \in Nodes : KidIn(t, parent, m) => t.up[m] = parent
  BY DEF Healthy, Linked, KidLinked
<1>2. t.kid[parent] \in Nodes \cup {0} /\ \A k \in kids : k \in Nodes /\ t.label[k] = label
  BY DEF TreesOf, Labelled
<1> HIDE DEF kids
<1>3. \/ place = NoPlace
      \/ \E k \in DOMAIN t.list[parent], i \in KidSlots :
           place = <<t.list[parent][k], i>> /\ t.chunk[t.list[parent][k]][i] \in kids
  BY FirstPlaceIs
<1> HIDE DEF place
<1>4. CASE t.kid[parent] # 0 /\ t.label[t.kid[parent]] = label
  <2>1. Matching(t, parent, label) = t.kid[parent]
    BY <1>4 DEF Matching
  <2>2. KidIn(t, parent, t.kid[parent])
    BY DEF KidIn
  <2> QED
    BY <1>1, <1>2, <1>4, <2>1, <2>2 DEF ChildOf
<1>5. CASE ~(t.kid[parent] # 0 /\ t.label[t.kid[parent]] = label)
  <2>1. Matching(t, parent, label) = IF place = NoPlace THEN 0 ELSE KidAt(t, place)
    BY <1>5 DEF Matching, place, kids
  <2>2. CASE place = NoPlace
    BY <2>1, <2>2
  <2>3. CASE place # NoPlace
    <3>1. PICK k \in DOMAIN t.list[parent], i \in KidSlots :
            place = <<t.list[parent][k], i>> /\ t.chunk[t.list[parent][k]][i] \in kids
      BY <1>3, <2>3
    <3>2. KidAt(t, place) = t.chunk[t.list[parent][k]][i]
      BY <3>1 DEF KidAt
    <3>3. KidIn(t, parent, KidAt(t, place)) /\ KidAt(t, place) \in kids
      BY <3>1, <3>2 DEF KidIn
    <3> QED
      BY <1>1, <1>2, <2>1, <2>3, <3>3 DEF ChildOf
  <2> QED
    BY <2>2, <2>3
<1> QED
  BY <1>4, <1>5

\* GetPropertyTreeChild.
LEMMA ChildGot ==
  ASSUME NEW labels, NoLabel \notin labels, NEW t \in TreesOf(labels), Healthy(t), Rooting(t), NEW label \in labels,
         NEW parent \in Nodes \cup {0}, parent # 0 => t.label[parent] # NoLabel
  PROVE  Got(labels, t, GetPropertyTreeChild(t, parent, label), parent, label)
<1> DEFINE g == GetPropertyTreeChild(t, parent, label)
<1>0. t.bare \subseteq labels /\ t.fault \in Failures \cup {"crash"}
  BY DEF TreesOf
<1>1. GrownBy(labels, t, t, parent, label)
  BY DEF GrownBy
<1>2. ~NoNode(t) => LiveNodes(t) # Nodes
  BY DEF NoNode
<1>3. CASE parent # 0
  <2> DEFINE kid == Matching(t, parent, label)
  <2>1. parent \in Nodes
    BY <1>3
  <2>2. kid = 0 \/ ChildOf(t, kid, parent, label)
    BY <2>1, MatchingIs
  <2>3. g = GetKid(t, parent, label, kid)
    BY <1>3 DEF GetPropertyTreeChild
  <2> HIDE DEF kid, g
  <2>4. CASE kid # 0
    <3>1. g.tree = t /\ g.node = kid
      BY <2>3, <2>4 DEF GetKid
    <3>2. Got(labels, t, g, parent, label)
      BY <1>1, <2>2, <2>4, <3>1 DEF Got
    <3> QED
      BY <3>2 DEF g
  <2>5. CASE kid = 0 /\ NoNode(t)
    <3>1. g.tree = t /\ g.node = 0
      BY <2>3, <2>5 DEF GetKid
    <3>2. Got(labels, t, g, parent, label)
      BY <1>1, <3>1 DEF Got
    <3> QED
      BY <3>2 DEF g
  <2>6. CASE kid = 0 /\ ~NoNode(t)
    <3>1. g = Grow(t, parent, label)
      BY <2>3, <2>6 DEF GetKid
    <3>2. Got(labels, t, g, parent, label)
      BY <1>2, <1>3, <2>1, <2>6, <3>1, KidGrown DEF Got
    <3> QED
      BY <3>2 DEF g
  <2> QED
    BY <2>4, <2>5, <2>6
<1>4. CASE parent = 0
  <2> DEFINE same == {n \in t.roots : t.label[n] = label}
             one == CHOOSE n \in same : TRUE
             crashed == [t EXCEPT !.fault = "crash"]
             noted == [t EXCEPT !.bare = t.bare \cup {label}]
  <2>1. g = GetRoot(t, label)
    BY <1>4 DEF GetPropertyTreeChild
  <2> HIDE DEF g
  <2>2. CASE label \in t.bare
    <3>1. g.tree = [t EXCEPT !.fault = "crash"] /\ g.node = 0
      BY <2>1, <2>2 DEF GetRoot
    <3> DEFINE fault == "crash"
    <3>2. fault \in Failures \cup {"crash"}
      OBVIOUS
    <3> HIDE DEF fault
    <3>3. GrownBy(labels, t, [t EXCEPT !.bare = t.bare, !.fault = fault], parent, label)
      BY <1>0, <3>2, SameGot
    <3>4. [t EXCEPT !.bare = t.bare, !.fault = fault] = g.tree
      BY <3>1 DEF fault, TreesOf
    <3>5. Got(labels, t, g, parent, label)
      BY <3>1, <3>3, <3>4 DEF Got
    <3> QED
      BY <3>5 DEF g
  <2>3. CASE label \notin t.bare /\ same # {}
    <3>1. g = [tree |-> t, node |-> one]
      BY <2>1, <2>3 DEF GetRoot
    <3>2. one \in same
      BY <2>3
    <3>3. one \in Nodes /\ t.label[one] = label /\ t.up[one] = 0
      BY <3>2 DEF Healthy, Rooted, TreesOf
    <3> HIDE DEF one
    <3>4. Got(labels, t, g, parent, label)
      BY <1>1, <1>4, <3>1, <3>3 DEF Got, ChildOf
    <3> QED
      BY <3>4 DEF g
  <2>4. CASE label \notin t.bare /\ same = {} /\ t.fault = "hash"
    <3>1. g.tree = t /\ g.node = 0
      BY <2>1, <2>4 DEF GetRoot
    <3>2. Got(labels, t, g, parent, label)
      BY <1>1, <3>1 DEF Got
    <3> QED
      BY <3>2 DEF g
  <2>5. CASE label \notin t.bare /\ same = {} /\ t.fault # "hash" /\ NoNode(t)
    <3>1. g.tree = [t EXCEPT !.bare = t.bare \cup {label}] /\ g.node = 0
      BY <2>1, <2>5 DEF GetRoot
    <3> DEFINE bare == t.bare \cup {label}
    <3>2. bare \subseteq labels
      BY <1>0
    <3> HIDE DEF bare
    <3>3. GrownBy(labels, t, [t EXCEPT !.bare = bare, !.fault = t.fault], parent, label)
      BY <1>0, <3>2, SameGot
    <3>4. [t EXCEPT !.bare = bare, !.fault = t.fault] = g.tree
      BY <3>1 DEF bare, TreesOf
    <3>5. Got(labels, t, g, parent, label)
      BY <3>1, <3>3, <3>4 DEF Got
    <3> QED
      BY <3>5 DEF g
  <2>6. CASE label \notin t.bare /\ same = {} /\ t.fault # "hash" /\ ~NoNode(t)
    <3>1. g = Grow(t, 0, label)
      BY <2>1, <2>6 DEF GetRoot
    <3>2. Got(labels, t, g, parent, label)
      BY <1>2, <1>4, <2>6, <3>1, RootGrown DEF Got
    <3> QED
      BY <3>2 DEF g
  <2> QED
    BY <2>2, <2>3, <2>4, <2>5, <2>6
<1> QED
  BY <1>3, <1>4

\* The nodes of gone have been swept from t.
SweptTo(labels, t, u, gone) ==
  /\ u \in TreesOf(labels) /\ Healthy(u) /\ Rooting(u)
  /\ \A m \in Nodes : u.label[m] = IF m \in gone THEN NoLabel ELSE t.label[m]
  /\ \A k \in LiveNodes(u) : Above(u, k) = Above(t, k) \cap LiveNodes(u)
  /\ \A m \in LiveNodes(u) : t.up[m] \in LiveNodes(u) \cup {0} => u.up[m] = t.up[m]

LEMMA NextSwept ==
  ASSUME NEW labels, NEW t \in TreesOf(labels), NEW gone, NEW u, SweptTo(labels, t, u, gone),
         NEW n \in Nodes, NEW marked
  PROVE  SweptTo(labels, t, SweepUnmarked(u, marked, n), gone \cup ({n} \ marked))
<1> DEFINE w == SweepUnmarked(u, marked, n)
<1>1. /\ u \in TreesOf(labels) /\ Healthy(u) /\ Rooting(u)
      /\ \A m \in Nodes : u.label[m] = IF m \in gone THEN NoLabel ELSE t.label[m]
      /\ \A k \in LiveNodes(u) : Above(u, k) = Above(t, k) \cap LiveNodes(u)
      /\ \A m \in LiveNodes(u) : t.up[m] \in LiveNodes(u) \cup {0} => u.up[m] = t.up[m]
  BY DEF SweptTo
<1>2. CASE u.label[n] = NoLabel \/ n \in marked
  <2>1. w = u
    BY <1>2 DEF SweepUnmarked
  <2> HIDE DEF w
  <2>2. \A m \in Nodes : u.label[m] = IF m \in gone \cup ({n} \ marked) THEN NoLabel ELSE t.label[m]
    BY <1>1, <1>2
  <2>3. SweptTo(labels, t, u, gone \cup ({n} \ marked))
    BY <1>1, <2>2 DEF SweptTo
  <2> QED
    BY <2>1, <2>3 DEF w
<1>3. CASE u.label[n] # NoLabel /\ n \notin marked
  <2>1. w = SweepNode(u, n)
    BY <1>3 DEF SweepUnmarked
  <2>2. u.up \in [Nodes -> Nodes \cup {0}] /\ u.label \in [Nodes -> labels \cup {NoLabel}] /\ 0 \notin Nodes
    BY <1>1 DEF TreesOf, Nodes
  <2>3. u.up[n] # n
    BY <1>1, <2>2, LineIs
  <2>4. Swept(labels, u, SweepNode(u, n), n)
    BY <1>1, <1>3, <2>3, NodeSwept
  <2> HIDE DEF w
  <2>5. /\ w \in TreesOf(labels) /\ w.label = [u.label EXCEPT ![n] = NoLabel] /\ Healthy(w)
        /\ Bypassed(u, w, n)
    BY <2>1, <2>4 DEF Swept, Bypassed
  <2>6. w.up \in [Nodes -> Nodes \cup {0}]
    BY <2>5 DEF TreesOf
  <2>7. Rooting(w) /\ \A m \in Nodes : m # n => Above(w, m) = Above(u, m) \ {n}
    BY <1>1, <2>2, <2>5, <2>6, BypassedLines
  <2>8. \A m \in Nodes : w.label[m] = IF m = n THEN NoLabel ELSE u.label[m]
    BY <2>2, <2>5
  <2>9. LiveNodes(w) = LiveNodes(u) \ {n}
    BY <2>8 DEF LiveNodes
  <2>10. \A m \in Nodes : w.label[m] = IF m \in gone \cup ({n} \ marked) THEN NoLabel ELSE t.label[m]
    BY <1>1, <1>3, <2>8
  <2>11. \A k \in LiveNodes(w) : Above(w, k) = Above(t, k) \cap LiveNodes(w)
    <3>1. LiveNodes(u) \subseteq Nodes
      BY DEF LiveNodes
    <3> QED
      BY <1>1, <2>7, <2>9, <3>1
  <2>12. ASSUME NEW m \in LiveNodes(w), t.up[m] \in LiveNodes(w) \cup {0} PROVE w.up[m] = t.up[m]
    <3>1. m \in LiveNodes(u) /\ m # n /\ m \in Nodes /\ t.up[m] # n
      BY <2>2, <2>9, <2>12 DEF LiveNodes
    <3>2. u.up[m] = t.up[m]
      BY <1>1, <2>9, <2>12, <3>1
    <3> QED
      BY <2>5, <3>1, <3>2 DEF Bypassed
  <2>13. SweptTo(labels, t, w, gone \cup ({n} \ marked))
    BY <2>5, <2>7, <2>10, <2>11, <2>12 DEF SweptTo
  <2> QED
    BY <2>13 DEF w
<1> QED
  BY <1>2, <1>3

LEMMA LiveLine ==
  ASSUME NEW labels, NEW t \in TreesOf(labels), Healthy(t), Rooting(t)
  PROVE  /\ \A m \in LiveNodes(t) : t.up[m] \in LiveNodes(t) \cup {0}
         /\ \A k \in LiveNodes(t) \cup {0} : Above(t, k) \subseteq LiveNodes(t)
<1>1. t.up \in [Nodes -> Nodes \cup {0}] /\ 0 \notin Nodes /\ LiveNodes(t) \subseteq Nodes
  BY DEF TreesOf, Nodes, LiveNodes
<1>2. \A m \in Nodes : Above(t, m) = {m} \cup Above(t, t.up[m])
  BY <1>1, AboveIs
<1>3. Above(t, 0) = {}
  BY <1>1, AboveIs
<1>4. ASSUME NEW m \in LiveNodes(t) PROVE t.up[m] \in LiveNodes(t) \cup {0}
  <2>1. SUFFICES ASSUME t.up[m] # 0 PROVE t.label[t.up[m]] # NoLabel
    BY <1>1 DEF LiveNodes
  <2>2. KidIn(t, t.up[m], m) /\ t.up[m] \in Nodes /\ m # 0
    BY <1>1, <2>1 DEF Healthy, Linked, UpLinked
  <2>3. \A q \in Nodes : t.kid[q] = 0 /\ t.list[q] = <<>> => ~KidIn(t, q, m)
    <3>1. ASSUME NEW q \in Nodes, t.kid[q] = 0, t.list[q] = <<>> PROVE ~KidIn(t, q, m)
      <4>1. m # t.kid[q] /\ DOMAIN t.list[q] = {}
        BY <2>2, <3>1
      <4> QED
        BY <4>1 DEF KidIn
    <3> QED
      BY <3>1
  <2> QED
    BY <2>2, <2>3 DEF Healthy, Clean
<1>5. Upward(t, LiveNodes(t))
  BY <1>1, <1>4 DEF Upward
<1> DEFINE P == {0} \cup {m \in Nodes : Above(t, m) \subseteq LiveNodes(t)}
<1>6. ASSUME NEW m \in LiveNodes(t), t.up[m] \in P PROVE m \in P
  BY <1>1, <1>2, <1>3, <1>6
<1>7. 0 \in P
  OBVIOUS
<1> HIDE DEF P
<1>8. LiveNodes(t) \subseteq P
  BY <1>1, <1>5, <1>6, <1>7, LineInduction
<1> QED
  BY <1>1, <1>3, <1>4, <1>8 DEF P

\* SweepScopeProperties.
LEMMA AllSwept ==
  ASSUME NEW labels, NEW t \in TreesOf(labels), Healthy(t), Rooting(t), NEW marked,
         NEW addresses \in [Nodes -> Nodes], \A m \in Nodes : \E j \in Nodes : addresses[j] = m
  PROVE  SweptTo(labels, t, SweepScopeProperties(t, marked, addresses), Nodes \ marked)
<1> DEFINE n == NumNodes
           D == TreesOf(labels)
           Gone(k) == {m \in Nodes \ marked : \E j \in 1..k : addresses[j] = m}
           J == [k \in 0..n |-> {u \in D : SweptTo(labels, t, u, Gone(k))}]
           g == [x \in D \X (1..n) |-> IF SweepUnmarked(x[1], marked, addresses[x[2]]) \in D
                                      THEN SweepUnmarked(x[1], marked, addresses[x[2]]) ELSE t]
           Runs(f) == f = [k \in 0..n |-> IF k = 0 THEN t ELSE SweepUnmarked(f[k - 1], marked, addresses[k])]
           after == CHOOSE f : Runs(f)
<1>1. n \in Nat /\ Nodes = 1..n
  BY TreeAssumption DEF Nodes
<1>0. n \in Nat
  BY <1>1
<1>2. t \in J[0]
  <2>1. Gone(0) = {}
    OBVIOUS
  <2>2. \A k \in LiveNodes(t) : Above(t, k) = Above(t, k) \cap LiveNodes(t)
    BY LiveLine
  <2>3. SweptTo(labels, t, t, Gone(0))
    BY <2>1, <2>2 DEF SweptTo
  <2> HIDE DEF Gone
  <2> QED
    BY <1>0, <2>3
<1>3. ASSUME NEW k \in 1..n, NEW x \in J[k - 1]
      PROVE  SweepUnmarked(x, marked, addresses[k]) \in J[k]
  <2>1. SweptTo(labels, t, x, Gone(k - 1))
    BY <1>1
  <2>2. addresses[k] \in Nodes
    BY <1>1
  <2>3. SweptTo(labels, t, SweepUnmarked(x, marked, addresses[k]), Gone(k - 1) \cup ({addresses[k]} \ marked))
    BY <2>1, <2>2, NextSwept
  <2>4. Gone(k - 1) \cup ({addresses[k]} \ marked) = Gone(k)
    <3>1. \A j \in 1..k : j \in 1..k - 1 \/ j = k
      BY <1>1
    <3>2. \A j \in 1..k - 1 : j \in 1..k
      BY <1>1
    <3>3. k \in 1..k
      BY <1>1
    <3> QED
      BY <2>2, <3>1, <3>2, <3>3
  <2>5. SweptTo(labels, t, SweepUnmarked(x, marked, addresses[k]), Gone(k))
    BY <2>3, <2>4
  <2>6. SweepUnmarked(x, marked, addresses[k]) \in D
    BY <2>5 DEF SweptTo
  <2> HIDE DEF Gone
  <2> QED
    BY <1>1, <2>5, <2>6
<1>4. \A k \in 0..n : J[k] \subseteq D
  OBVIOUS
<1>5. ASSUME NEW k \in 1..n, NEW x \in J[k - 1]
      PROVE  g[<<x, k>>] = SweepUnmarked(x, marked, addresses[k])
  <2>1. k - 1 \in 0..n /\ k \in 0..n
    BY <1>1
  <2>2. SweepUnmarked(x, marked, addresses[k]) \in J[k] /\ J[k] \subseteq D /\ J[k - 1] \subseteq D
    BY <1>3, <1>4, <2>1
  <2> HIDE DEF J
  <2>3. SweepUnmarked(x, marked, addresses[k]) \in D /\ <<x, k>> \in D \X (1..n)
    BY <2>2
  <2> HIDE DEF D
  <2> QED
    BY <2>3
<1>6. g \in [D \X (1..n) -> D]
  OBVIOUS
<1>60. J[n] \subseteq {u \in D : SweptTo(labels, t, u, Gone(n))}
  BY <1>1
<1>61. Gone(n) = Nodes \ marked
  BY <1>1
<1>62. SweepScopeProperties(t, marked, addresses) = after[n]
  BY DEF SweepScopeProperties
<1> HIDE DEF n, J, g, D, Gone
<1>7. \A k \in 1..n : \A x \in J[k - 1] : g[<<x, k>>] \in J[k]
  BY <1>3, <1>5
<1>8. Keeps(n, D, J, t, g)
  BY <1>1, <1>2, <1>4, <1>6, <1>7 DEF Keeps
<1>9. \E f \in [0..n -> D] : RunOf(n, J, t, g, f)
  BY <1>8, LoopRuns
<1>10. PICK f \in [0..n -> D] : f[0] = t /\ \A k \in 1..n : f[k] = g[<<f[k - 1], k>>] /\ f[k - 1] \in J[k - 1]
  BY <1>9 DEF RunOf
<1>11. Runs(f)
  <2>1. \A i \in 0..n : i = 0 \/ i \in 1..n
    BY <1>1
  <2>2. \A i \in 1..n : f[i] = SweepUnmarked(f[i - 1], marked, addresses[i])
    BY <1>5, <1>10
  <2> QED
    BY <1>10, <2>1, <2>2
<1>12. Runs(after)
  <2> HIDE DEF Runs
  <2> QED
    BY <1>11, Zenon
<1>13. after[0] = t /\ \A k \in 1..n : after[k] = SweepUnmarked(after[k - 1], marked, addresses[k])
  <2> HIDE DEF after
  <2> QED
    BY <1>0, <1>12
<1> HIDE DEF after
<1>14. after[n] \in J[n]
  <2> DEFINE P == {k \in 0..n : after[k] \in J[k]}
  <2>1. 0 \in P
    BY <1>1, <1>2, <1>13
  <2>2. \A k \in 1..n : k - 1 \in P => k \in P
    BY <1>0, <1>3, <1>13
  <2> HIDE DEF P
  <2>3. 0..n \subseteq P
    BY <1>1, <2>1, <2>2, UpTo
  <2>4. n \in P
    BY <1>1, <2>3
  <2> QED
    BY <2>4 DEF P
<1> QED
  BY <1>14, <1>60, <1>61, <1>62

LEMMA HealthyLinks ==
  ASSUME NEW labels, NEW t \in TreesOf(labels), Healthy(t), Rooting(t)
  PROVE  LinksSound(t)
<1> DEFINE live == LiveNodes(t)
<1>1. \A p \in Nodes : \A n \in Nodes : n \in KidsOf(t, p) <=> KidIn(t, p, n)
  <2>1. ASSUME NEW p \in Nodes, NEW n \in Nodes PROVE n \in KidsOf(t, p) <=> KidIn(t, p, n)
    <3>1. n # 0
      BY DEF Nodes
    <3>2. \A k \in DOMAIN t.list[p] : DOMAIN t.chunk[t.list[p][k]] = KidSlots
      BY ListTyped DEF TreesOf
    <3>3. n \in UNION {Range(t.chunk[c]) : c \in Range(t.list[p])} <=>
            \E k \in DOMAIN t.list[p] : \E i \in KidSlots : t.chunk[t.list[p][k]][i] = n
      BY <3>2 DEF Range
    <3> QED
      BY <3>1, <3>3 DEF KidsOf, KidIn
  <2> QED
    BY <2>1
<1>2. \A p \in Nodes : \A n \in KidsOf(t, p) : n \in Nodes
  <2>1. ASSUME NEW p \in Nodes, NEW n \in KidsOf(t, p) PROVE n \in Nodes \cup {0}
    <3>1. t.kid[p] \in Nodes \cup {0}
      BY DEF TreesOf
    <3>2. \A c \in PropChunks : \A x \in Range(t.chunk[c]) : x \in Nodes \cup {0}
      BY DEF TreesOf, Range
    <3>3. Range(t.list[p]) \subseteq PropChunks
      BY ListTyped DEF Range
    <3> QED
      BY <3>1, <3>2, <3>3 DEF KidsOf
  <2> QED
    BY <2>1 DEF KidsOf
<1>3. live \subseteq Nodes /\ 0 \notin Nodes
  BY DEF LiveNodes, Nodes
<1>4. \A n \in live : t.up[n] # 0 => t.up[n] \in live /\ n \in KidsOf(t, t.up[n])
  <2>1. ASSUME NEW n \in live, t.up[n] # 0 PROVE t.up[n] \in live /\ n \in KidsOf(t, t.up[n])
    <3>1. t.up[n] \in live
      BY <2>1, LiveLine
    <3>2. KidIn(t, t.up[n], n)
      BY <1>3, <2>1 DEF Healthy, Linked, UpLinked
    <3> QED
      BY <1>1, <1>3, <3>1, <3>2
  <2> QED
    BY <2>1
<1>5. \A p \in live : \A n \in KidsOf(t, p) : n \in live /\ t.up[n] = p
  <2>1. ASSUME NEW p \in live, NEW n \in KidsOf(t, p) PROVE n \in live /\ t.up[n] = p
    <3>1. n \in Nodes /\ p \in Nodes
      BY <1>2, <1>3
    <3>2. t.up[n] = p
      BY <1>1, <3>1 DEF Healthy, Linked, KidLinked
    <3>3. t.label[n] # NoLabel
      BY <1>3, <3>1, <3>2 DEF Healthy, Clean
    <3> QED
      BY <3>1, <3>2, <3>3 DEF LiveNodes
  <2> QED
    BY <2>1
<1>6. \A p \in live : ChunksSound(t, p)
  BY <1>3 DEF Healthy, Linked
<1>7. \A n \in t.roots : n \in live /\ t.up[n] = 0
  BY DEF Healthy, Rooted, LiveNodes, TreesOf
<1>8. \A m, n \in t.roots : t.label[m] = t.label[n] => m = n
  BY DEF Healthy, Rooted
<1>9. \A p \in Nodes : \A k \in DOMAIN t.list[p] : p \in live
  <2>1. ASSUME NEW p \in Nodes, NEW k \in DOMAIN t.list[p] PROVE t.label[p] # NoLabel
    <3>1. t.list[p] # <<>>
      OBVIOUS
    <3> QED
      BY <3>1 DEF Healthy, Clean
  <2> QED
    BY <2>1 DEF LiveNodes
<1>10. t.held = UNION {Range(t.list[p]) : p \in live}
  <2>1. Holding(t, {})
    BY DEF Healthy, Linked
  <2>2. \A c \in t.held : c \in UNION {Range(t.list[p]) : p \in live}
    <3>1. ASSUME NEW c \in t.held PROVE \E p \in live : c \in Range(t.list[p])
      <4>1. PICK p \in Nodes : \E k \in DOMAIN t.list[p] : t.list[p][k] = c
        BY <2>1 DEF Holding
      <4> QED
        BY <1>9, <4>1 DEF Range
    <3> QED
      BY <3>1
  <2>3. \A p \in live : Range(t.list[p]) \subseteq t.held
    BY <1>3, <2>1 DEF Holding, Range
  <2> QED
    BY <2>2, <2>3
<1>11. \A p, q \in live : \A k \in DOMAIN t.list[p], l \in DOMAIN t.list[q] :
         t.list[p][k] = t.list[q][l] => p = q /\ k = l
  BY <1>3 DEF Healthy, Linked, Apart
<1> QED
  BY <1>4, <1>5, <1>6, <1>7, <1>8, <1>10, <1>11 DEF LinksSound
=============================================================================
