---------------------------- MODULE PropertyTree ----------------------------
(***************************************************************************)
(* The tree of properties that all scopes of a runtime share (jsscope.c):  *)
(* a node is a property, and the way from it to the root is the list of    *)
(* properties of the scopes that end at it.  A tree is a record of         *)
(*   label   the property of each node, NoLabel on the free list          *)
(*   up      parent, 0 for none                                            *)
(*   kid     the only kid of a node that has no chunks, 0 for none         *)
(*   list    the chunks of a node, in order                                *)
(*   chunk   the kids in each chunk, 0 where there is none                 *)
(*   held    the chunks that are allocated                                 *)
(*   roots   the nodes in rt->propertyTreeHash                             *)
(*   bare    labels of entries of that table that never got their node     *)
(*   fault   the allocation that fails in the call under way               *)
(***************************************************************************)
EXTENDS Naturals, FiniteSetsExt, SequencesExt

CONSTANTS NumNodes, NumChunks, KidsPerChunk, NoLabel

ASSUME TreeAssumption == NumNodes \in Nat /\ NumChunks \in Nat /\ KidsPerChunk \in Nat /\ KidsPerChunk > 1

Nodes == 1..NumNodes
PropChunks == 1..NumChunks
KidSlots == 1..KidsPerChunk

\* The allocations that may fail.
Failures == {"none", "table", "vector", "slot", "node", "second node", "chunk", "hash"}

EmptyChunk == [i \in KidSlots |-> 0]

EmptyTree == [label |-> [n \in Nodes |-> NoLabel], up |-> [n \in Nodes |-> 0],
              kid |-> [n \in Nodes |-> 0], list |-> [n \in Nodes |-> <<>>],
              chunk |-> [c \in PropChunks |-> EmptyChunk],
              held |-> {}, roots |-> {}, bare |-> {}, fault |-> "none"]

LiveNodes(t) == {n \in Nodes : t.label[n] # NoLabel}

(* A node and all above it. *)
Above(t, node) ==
  LET line[n \in Nodes \cup {0}] == IF n = 0 THEN {} ELSE {n} \cup line[t.up[n]] IN line[node]

(* There is no gap among the kids of a node, where the code would stop.    *)
KidsOf(t, p) == ({t.kid[p]} \cup UNION {Range(t.chunk[c]) : c \in Range(t.list[p])}) \ {0}

(* The first place in the chunks of p, in their order, where one of kids   *)
(* is.                                                                     *)
NoPlace == <<0, 0>>
PlacesIn(t, c, kids) == {i \in KidSlots : t.chunk[c][i] \in kids}
FirstPlace(t, p, kids) ==
  LET having == {k \in DOMAIN t.list[p] : PlacesIn(t, t.list[p][k], kids) # {}} IN
  IF having = {} THEN NoPlace
  ELSE <<t.list[p][Min(having)], Min(PlacesIn(t, t.list[p][Min(having)], kids))>>
KidAt(t, place) == t.chunk[place[1]][place[2]]
Filled(t, c) == Min(PlacesIn(t, c, {0}) \cup {KidsPerChunk + 1}) - 1

Labelled(t, label) == {n \in Nodes : t.label[n] = label}
Matching(t, p, label) ==
  LET place == FirstPlace(t, p, Labelled(t, label)) IN
  IF t.kid[p] # 0 /\ t.label[t.kid[p]] = label THEN t.kid[p]
  ELSE IF place = NoPlace THEN 0 ELSE KidAt(t, place)

FreeNode(t) == Min(Nodes \ LiveNodes(t))
FreeChunk(t) == Min(PropChunks \ t.held)
NoNode(t) == t.fault = "node" \/ LiveNodes(t) = Nodes
NoChunk(t) == t.fault = "chunk" \/ t.held = PropChunks
WithKid(t, place, n) == [t EXCEPT !.chunk[place[1]][place[2]] = n]
FreedUnlooked(t, c) == IF c # 0 THEN [t EXCEPT !.held = @ \ {c}] ELSE t
Freed(t, c) == IF c # 0 /\ t.chunk[c][1] = 0 THEN [t EXCEPT !.held = @ \ {c}] ELSE t
-----------------------------------------------------------------------------
(* NewScopeProperty *)
NewNode(t, label) ==
  LET n == FreeNode(t) IN
  [t EXCEPT !.label[n] = label, !.up[n] = 0, !.kid[n] = 0, !.list[n] = <<>>,
            !.fault = IF @ = "second node" THEN "node" ELSE @]

Inserted(t, parent, child) == [tree |-> [t EXCEPT !.up[child] = parent], ok |-> TRUE]
NotInserted(t) == [tree |-> t, ok |-> FALSE]

(* A child whose label a root in the table has stays out of the table.     *)
InsertRoot(t, child) ==
  CASE t.fault = "hash" -> NotInserted(t)
    [] t.fault # "hash" /\ t.label[child] \in t.bare -> Inserted([t EXCEPT !.fault = "crash"], 0, child)
    [] OTHER -> Inserted(IF \E r \in t.roots : t.label[r] = t.label[child] THEN t
                         ELSE [t EXCEPT !.roots = @ \cup {child}], 0, child)

(* Chunk c comes to the end of the list, and a kid without a chunk into it.*)
InsertInChunk(t, parent, child, c) ==
  IF t.kid[parent] = 0
  THEN Inserted(WithKid([t EXCEPT !.list[parent] = Append(@, c)], <<c, 1>>, child), parent, child)
  ELSE Inserted(WithKid(WithKid([t EXCEPT !.list[parent] = <<c>>, !.kid[parent] = 0],
                                <<c, 1>>, t.kid[parent]), <<c, 2>>, child), parent, child)
NewChunk(t, c) == [t EXCEPT !.held = @ \cup {c}, !.chunk[c] = EmptyChunk]

(* A duplicate among kids is put among them.  A chunk that is passed is    *)
(* used before one is allocated.                                           *)
InsertKid(t, parent, child, swept, gap) ==
  LET none == t.list[parent] = <<>> /\ t.kid[parent] = 0 IN
  CASE none -> Inserted([t EXCEPT !.kid[parent] = child], parent, child)
    [] ~none /\ gap # NoPlace -> Inserted(WithKid(t, gap, child), parent, child)
    [] ~none /\ gap = NoPlace /\ swept # 0 -> InsertInChunk(t, parent, child, swept)
    [] ~none /\ gap = NoPlace /\ swept = 0 /\ NoChunk(t) -> NotInserted(t)
    [] OTHER -> InsertInChunk(NewChunk(t, FreeChunk(t)), parent, child, FreeChunk(t))

InsertPropertyTreeChild(t, parent, child, swept) ==
  IF parent = 0 THEN InsertRoot(t, child)
  ELSE InsertKid(t, parent, child, swept, FirstPlace(t, parent, {0}))

(* The last kid takes the place of the one that goes; a chunk that has     *)
(* become empty leaves the list and is handed to the caller.               *)
RemoveFromChunk(t, parent, place, end, i) ==
  LET moved == WithKid(WithKid(t, place, t.chunk[end][i]), <<end, i>>, 0) IN
  IF i = 1 THEN [tree |-> [moved EXCEPT !.list[parent] = Front(@)], chunk |-> end]
  ELSE [tree |-> moved, chunk |-> 0]

RemoveKid(t, parent, child, place) ==
  CASE t.kid[parent] = child -> [tree |-> [t EXCEPT !.kid[parent] = 0], chunk |-> 0]
    [] t.kid[parent] # child /\ place # NoPlace ->
         RemoveFromChunk(t, parent, place, Last(t.list[parent]), Filled(t, Last(t.list[parent])))
    [] OTHER -> [tree |-> t, chunk |-> 0]

RemovePropertyTreeChild(t, child) ==
  IF t.up[child] # 0 THEN RemoveKid(t, t.up[child], child, FirstPlace(t, t.up[child], {child}))
  ELSE [tree |-> [t EXCEPT !.roots = @ \ {child},
                           !.fault = IF t.label[child] \in t.bare THEN "crash" ELSE @], chunk |-> 0]

(* The child of parent with this label, node 0 if there is no memory for   *)
(* it.  The table of the roots keeps an entry that has been added when its *)
(* node could not be made, and the next comparison with it reads through a *)
(* null pointer: fault is "crash" then.  A node whose chunk could not be   *)
(* made is left without a parent.                                          *)
Grown(n, r) == [tree |-> r.tree, node |-> IF r.ok THEN n ELSE 0]
Grow(t, parent, label) ==
  Grown(FreeNode(t), InsertPropertyTreeChild(NewNode(t, label), parent, FreeNode(t), 0))

GetRoot(t, label) ==
  LET same == {n \in t.roots : t.label[n] = label} IN
  CASE label \in t.bare -> [tree |-> [t EXCEPT !.fault = "crash"], node |-> 0]
    [] label \notin t.bare /\ same # {} -> [tree |-> t, node |-> CHOOSE n \in same : TRUE]
    [] label \notin t.bare /\ same = {} /\ t.fault = "hash" -> [tree |-> t, node |-> 0]
    [] label \notin t.bare /\ same = {} /\ t.fault # "hash" /\ NoNode(t) ->
         [tree |-> [t EXCEPT !.bare = @ \cup {label}], node |-> 0]
    [] OTHER -> Grow(t, 0, label)

GetKid(t, parent, label, kid) ==
  CASE kid # 0 -> [tree |-> t, node |-> kid]
    [] kid = 0 /\ NoNode(t) -> [tree |-> t, node |-> 0]
    [] OTHER -> Grow(t, parent, label)

GetPropertyTreeChild(t, parent, label) ==
  IF parent = 0 THEN GetRoot(t, label) ELSE GetKid(t, parent, label, Matching(t, parent, label))
-----------------------------------------------------------------------------
(* A kid moves up to its grandparent; without room in the table of the     *)
(* roots it becomes a root outside of it.                                  *)
Raised(r, kid) == IF r.ok THEN r.tree ELSE [r.tree EXCEPT !.up[kid] = 0]
Reparent(t, parent, kid, chunk) == Raised(InsertPropertyTreeChild(t, parent, kid, chunk), kid)

(* Kids leave their chunk one by one, and the chunk may take them again as *)
(* the grandparent's; it is freed if it has not.                           *)
ReparentSlot(t, parent, c, i) ==
  IF t.chunk[c][i] = 0 THEN t ELSE Reparent(WithKid(t, <<c, i>>, 0), parent, t.chunk[c][i], c)
ReparentChunk(t, parent, c) ==
  LET after[i \in 0..KidsPerChunk] == IF i = 0 THEN t ELSE ReparentSlot(after[i - 1], parent, c, i)
  IN Freed(after[KidsPerChunk], c)

RaiseChunks(t, parent, chunks) ==
  LET after[k \in 0..Len(chunks)] == IF k = 0 THEN t ELSE ReparentChunk(after[k - 1], parent, chunks[k])
  IN after[Len(chunks)]

(* n is out of its parent's kids, and a chunk that was left may serve its  *)
(* own ones.                                                               *)
RaiseKids(t, n, kid, chunks, chunk) ==
  IF chunks # <<>> THEN RaiseChunks(t, t.up[n], chunks)
  ELSE IF kid = 0 THEN t ELSE Reparent(t, t.up[n], kid, chunk)

Unlinked(r, n, kid, chunks) ==
  Freed(RaiseKids([r.tree EXCEPT !.kid[n] = 0, !.list[n] = <<>>], n, kid, chunks, r.chunk), r.chunk)

SweepNode(t, n) ==
  [Unlinked(RemovePropertyTreeChild(t, n), n, t.kid[n], t.list[n]) EXCEPT !.label[n] = NoLabel, !.up[n] = 0]

(* The nodes lie in arenas and are swept by address.                       *)
SweepUnmarked(t, marked, n) == IF t.label[n] = NoLabel \/ n \in marked THEN t ELSE SweepNode(t, n)
SweepScopeProperties(t, marked, addresses) ==
  LET after[k \in 0..NumNodes] == IF k = 0 THEN t ELSE SweepUnmarked(after[k - 1], marked, addresses[k])
  IN after[NumNodes]
-----------------------------------------------------------------------------
(* Every node is found among its parent's kids once or is a root, and a    *)
(* chunk is in one list, full up to its last kid.                          *)
ChunksSound(t, p) ==
  LET chunks == t.list[p] IN
  /\ \A k, l \in DOMAIN chunks, i, j \in KidSlots :
       t.chunk[chunks[k]][i] = t.chunk[chunks[l]][j] => t.chunk[chunks[k]][i] = 0 \/ (k = l /\ i = j)
  /\ \A k \in DOMAIN chunks, i \in KidSlots : t.chunk[chunks[k]][i] = 0 =>
       k = Len(chunks) /\ i > 1 /\ \A j \in i..KidsPerChunk : t.chunk[chunks[k]][j] = 0
  /\ t.kid[p] # 0 => chunks = <<>>

LinksSound(t) ==
  LET live == LiveNodes(t) IN
  /\ \A n \in live : t.up[n] # 0 => t.up[n] \in live /\ n \in KidsOf(t, t.up[n])
  /\ \A p \in live : \A n \in KidsOf(t, p) : n \in live /\ t.up[n] = p
  /\ \A p \in live : ChunksSound(t, p)
  /\ \A n \in t.roots : n \in live /\ t.up[n] = 0
  /\ \A m, n \in t.roots : t.label[m] = t.label[n] => m = n
  /\ t.held = UNION {Range(t.list[p]) : p \in live}
  /\ \A p, q \in live : \A k \in DOMAIN t.list[p], l \in DOMAIN t.list[q] :
       t.list[p][k] = t.list[q][l] => p = q /\ k = l
=============================================================================
