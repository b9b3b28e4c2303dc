------------------------ MODULE ScopeProperties_proofs ------------------------
(***************************************************************************)
(* Any number of scopes on the property tree, for any ids, attributes and  *)
(* threshold of a table. The invariant is PropertiesInv: a scope Fits the  *)
(* tree between two calls, and Fits(t, s, H) says what is true of it       *)
(* within one, while the property of the id in H is about to be            *)
(* overwritten.  The second half relates a scope to the map it stands for: *)
(* its line Told from the root, the last property of each id it maps.      *)
(***************************************************************************)
EXTENDS ScopeProperties, PropertyTree_proofs

\* A formal parameter has an id of its own kind, and what has no slot of its
\* own has none.
GoodLabels == {l \in PropLabels : (l.attr = "formal" <=> l.id \in Hidden) /\ (Shared(l) => l.slot = NoSlot)}

FormalsFirst(t) ==
  \A n \in Nodes : t.label[n] # NoLabel /\ t.up[n] # 0 /\ t.label[n].id \in Hidden => t.label[t.up[n]].id \in Hidden

Grows(t) == t \in TreesOf(GoodLabels) /\ Healthy(t) /\ Rooting(t)
Usable(t) == Grows(t) /\ FormalsFirst(t)

LEMMA LabelIs ==
  /\ NoLabel \notin GoodLabels
  /\ \A l \in GoodLabels : /\ l \in PropLabels /\ l.id \in AllIds /\ (l.attr = "formal" <=> l.id \in Hidden)
                           /\ (Shared(l) => l.slot = NoSlot) /\ l.slot \in Nat \cup {NoSlot}
<1>1. \A l \in GoodLabels : l.id \in AllIds
  BY DEF GoodLabels, PropLabels
<1>2. \A l \in GoodLabels : l.slot \in Nat \cup {NoSlot}
  BY DEF GoodLabels, PropLabels
<1>3. NoLabel \notin GoodLabels
  BY PropertyAssumption DEF GoodLabels
<1>4. \A l \in GoodLabels : l \in PropLabels /\ (l.attr = "formal" <=> l.id \in Hidden) /\ (Shared(l) => l.slot = NoSlot)
  BY DEF GoodLabels
<1> QED
  BY <1>1, <1>2, <1>3, <1>4

LEMMA UsableIs ==
  ASSUME NEW t, Grows(t)
  PROVE  /\ t \in TreesOf(GoodLabels) /\ Healthy(t) /\ Rooting(t)
         /\ t.up \in [Nodes -> Nodes \cup {0}] /\ 0 \notin Nodes /\ LiveNodes(t) \subseteq Nodes
         /\ \A n \in LiveNodes(t) : n \in Nodes /\ t.label[n] # NoLabel /\ t.label[n] \in GoodLabels /\ t.label[n].id \in AllIds
<1>1. t \in TreesOf(GoodLabels) /\ Healthy(t) /\ Rooting(t)
  BY DEF Grows
<1>2. t.label \in [Nodes -> GoodLabels \cup {NoLabel}] /\ t.up \in [Nodes -> Nodes \cup {0}]
  BY <1>1 DEF TreesOf
<1>3. 0 \notin Nodes /\ LiveNodes(t) \subseteq Nodes
  BY DEF Nodes, LiveNodes
<1>4. \A n \in LiveNodes(t) : n \in Nodes /\ t.label[n] # NoLabel
  BY DEF LiveNodes
<1> QED
  BY <1>1, <1>2, <1>3, <1>4, LabelIs

LEMMA SearchLineIs ==
  ASSUME NEW t, t.up \in [Nodes -> Nodes \cup {0}], Rooting(t), NEW id
  PROVE  /\ SearchLine(t, 0, id) = 0
         /\ \A n \in Nodes : /\ SearchLine(t, n, id) = IF t.label[n].id = id THEN n ELSE SearchLine(t, t.up[n], id)
                             /\ SearchLine(t, n, id) \in Nodes \cup {0}
<1> DEFINE D == Nodes \cup {0}
           J == [n \in Nodes \cup {0} |-> D]
           g == [x \in D \X Nodes |-> IF t.label[x[2]].id = id THEN x[2] ELSE x[1]]
           Runs(f) == f = [n \in Nodes \cup {0} |-> IF n = 0 \/ t.label[n].id = id THEN n ELSE f[t.up[n]]]
           from == CHOOSE f : Runs(f)
<1>0. 0 \notin Nodes
  BY DEF Nodes
<1>1. /\ 0 \in J[0] /\ g \in [D \X Nodes -> D] /\ \A n \in Nodes \cup {0} : J[n] \subseteq D
      /\ \A n \in Nodes : \A x \in J[t.up[n]] :
           g[<<x, n>>] \in J[n] /\ g[<<x, n>>] = IF t.label[n].id = id THEN n ELSE x
  OBVIOUS
<1>10. \A n \in Nodes \cup {0} : J[n] = D
  OBVIOUS
<1>2. Upward(t, Nodes)
  BY DEF Upward
<1> HIDE DEF D, J, g
<1>3. KeepsUp(t, Nodes, D, J, 0, g)
  BY <1>1, <1>2 DEF KeepsUp
<1>4. \E f \in [Nodes \cup {0} -> D] : RunUp(t, Nodes, J, 0, g, f)
  BY <1>3, LineRuns
<1>5. PICK f \in [Nodes \cup {0} -> D] : RunUp(t, Nodes, J, 0, g, f)
  BY <1>4
<1>6. Runs(f)
  <2>1. f[0] = 0 /\ \A n \in Nodes : f[n] = IF t.label[n].id = id THEN n ELSE f[t.up[n]]
    BY <1>1, <1>5 DEF RunUp
  <2> QED
    BY <1>0, <2>1
<1>7. Runs(from)
  <2> HIDE DEF Runs
  <2> QED
    BY <1>6, Zenon
<1>8. \A n : SearchLine(t, n, id) = from[n]
  BY DEF SearchLine
<1>9. from[0] = 0 /\ \A n \in Nodes : from[n] = IF t.label[n].id = id THEN n ELSE from[t.up[n]]
  <2> HIDE DEF from
  <2> QED
    BY <1>0, <1>7
<1> HIDE DEF from
<1>11. \A n \in Nodes : from[n] \in Nodes \cup {0}
  <2> DEFINE P == {0} \cup {n \in Nodes : from[n] \in Nodes \cup {0}}
  <2>1. 0 \in P /\ \A n \in Nodes : t.up[n] \in P => n \in P
    BY <1>9
  <2> HIDE DEF P
  <2>2. Nodes \subseteq P
    BY <1>2, <2>1, LineInduction
  <2> QED
    BY <1>0, <2>2 DEF P
<1> QED
  BY <1>8, <1>9, <1>11

\* The search finds a node of the line with the id, if there is one.
Finds(t, n, id, r) ==
  \/ r = 0 /\ \A m \in Above(t, n) : t.label[m].id # id
  \/ r \in Above(t, n) /\ t.label[r].id = id

LEMMA LineSearched ==
  ASSUME NEW t, t.up \in [Nodes -> Nodes \cup {0}], Rooting(t), NEW id, NEW n \in Nodes \cup {0}
  PROVE  Finds(t, n, id, SearchLine(t, n, id))
<1>1. /\ SearchLine(t, 0, id) = 0
      /\ \A m \in Nodes : SearchLine(t, m, id) = IF t.label[m].id = id THEN m ELSE SearchLine(t, t.up[m], id)
  BY SearchLineIs
<1>2. Above(t, 0) = {} /\ \A m \in Nodes : Above(t, m) = {m} \cup Above(t, t.up[m])
  BY AboveIs
<1>3. Finds(t, 0, id, SearchLine(t, 0, id))
  BY <1>1, <1>2 DEF Finds
<1> DEFINE P == {0} \cup {m \in Nodes : Finds(t, m, id, SearchLine(t, m, id))}
<1>4. ASSUME NEW m \in Nodes, t.up[m] \in P PROVE m \in P
  <2>1. Finds(t, t.up[m], id, SearchLine(t, t.up[m], id))
    BY <1>3, <1>4
  <2>2. Finds(t, m, id, SearchLine(t, m, id))
    BY <1>1, <1>2, <2>1 DEF Finds
  <2> QED
    BY <2>2
<1>5. Upward(t, Nodes) /\ 0 \in P
  BY DEF Upward
<1> HIDE DEF P
<1>6. Nodes \subseteq P
  BY <1>4, <1>5, LineInduction
<1> QED
  BY <1>3, <1>6 DEF P

\* A search depends on the line only.
LEMMA SameSearch ==
  ASSUME NEW t, t.up \in [Nodes -> Nodes \cup {0}], Rooting(t),
         NEW u, u.up \in [Nodes -> Nodes \cup {0}], Rooting(u), NEW id,
         NEW n \in Nodes \cup {0}, \A m \in Above(t, n) : u.up[m] = t.up[m] /\ u.label[m] = t.label[m]
  PROVE  SearchLine(u, n, id) = SearchLine(t, n, id)
<1>1. /\ SearchLine(t, 0, id) = 0
      /\ \A m \in Nodes : SearchLine(t, m, id) = IF t.label[m].id = id THEN m ELSE SearchLine(t, t.up[m], id)
  BY SearchLineIs, ZenonT(30)
<1>2. /\ SearchLine(u, 0, id) = 0
      /\ \A m \in Nodes : SearchLine(u, m, id) = IF u.label[m].id = id THEN m ELSE SearchLine(u, u.up[m], id)
  BY SearchLineIs
<1>3. Upward(t, Above(t, n)) /\ Above(t, n) \subseteq Nodes /\ (n \in Nodes => n \in Above(t, n))
  BY LineIs
<1> DEFINE P == {0} \cup {m \in Nodes : SearchLine(u, m, id) = SearchLine(t, m, id)}
<1>4. ASSUME NEW m \in Above(t, n), t.up[m] \in P PROVE m \in P
  <2>1. m \in Nodes /\ u.up[m] = t.up[m] /\ u.label[m] = t.label[m]
    BY <1>3
  <2>2. SearchLine(u, t.up[m], id) = SearchLine(t, t.up[m], id)
    BY <1>1, <1>2, <1>4
  <2> QED
    BY <1>1, <1>2, <2>1, <2>2
<1>5. 0 \in P
  OBVIOUS
<1> HIDE DEF P
<1>6. Above(t, n) \subseteq P
  BY <1>3, <1>4, <1>5, LineInduction
<1>7. n \in P
  BY <1>3, <1>5, <1>6
<1> QED
  BY <1>1, <1>2, <1>7 DEF P

Scopes == [lastProp : Nodes \cup {0}, hashed : BOOLEAN, table : [AllIds -> Nodes \cup {0}], count : Int,
           middle : BOOLEAN, freeslot : Nat, nargs : Nat]

\* The table that CreateScopeTable makes finds what is on the line.
LEMMA TableMade ==
  ASSUME NEW t, t.up \in [Nodes -> Nodes \cup {0}], Rooting(t), NEW s \in Scopes
  PROVE  \E tab \in [AllIds -> Nodes \cup {0}] :
           /\ CreateScopeTable(t, s) = [s EXCEPT !.hashed = TRUE, !.table = tab]
           /\ \A id \in AllIds : Finds(t, s.lastProp, id, tab[id])
<1> DEFINE D == [AllIds -> Nodes \cup {0}]
           J == [n \in Nodes \cup {0} |-> {x \in D : \A id \in AllIds : Finds(t, n, id, x[id])}]
           g == [x \in D \X Nodes |-> FirstOr(x[1], t.label[x[2]], x[2])]
           z == InitMinimalScope.table
           Runs(f) == f = [n \in Nodes \cup {0} |-> IF n = 0 THEN z ELSE FirstOr(f[t.up[n]], t.label[n], n)]
           table == CHOOSE f : Runs(f)
<1>0. 0 \notin Nodes
  BY DEF Nodes
<1>00. Above(t, 0) = {} /\ \A m \in Nodes : Above(t, m) = {m} \cup Above(t, t.up[m])
  BY AboveIs
<1>1. z = [id \in AllIds |-> 0]
  BY DEF InitMinimalScope
<1>2. z \in J[0]
  <2>1. z \in D /\ \A id \in AllIds : Finds(t, 0, id, z[id])
    BY <1>00, <1>1 DEF Finds
  <2> QED
    BY <2>1
<1>3. ASSUME NEW x \in D, NEW n \in Nodes
      PROVE  /\ FirstOr(x, t.label[n], n) \in D
             /\ \A id \in AllIds : FirstOr(x, t.label[n], n)[id] =
                  IF id = t.label[n].id /\ x[id] = 0 THEN n ELSE x[id]
  BY DEF FirstOr
<1>4. ASSUME NEW n \in Nodes, NEW x \in J[t.up[n]] PROVE FirstOr(x, t.label[n], n) \in J[n]
  <2> DEFINE y == FirstOr(x, t.label[n], n)
  <2>1. x \in D /\ \A id \in AllIds : Finds(t, t.up[n], id, x[id])
    OBVIOUS
  <2>2. y \in D /\ \A id \in AllIds : y[id] = IF id = t.label[n].id /\ x[id] = 0 THEN n ELSE x[id]
    BY <1>3, <2>1
  <2> HIDE DEF y
  <2>3. ASSUME NEW id \in AllIds PROVE Finds(t, n, id, y[id])
    <3>1. Finds(t, t.up[n], id, x[id]) /\ n \in Above(t, n) /\ Above(t, n) = {n} \cup Above(t, t.up[n])
      BY <1>00, <2>1
    <3>2. CASE id = t.label[n].id /\ x[id] = 0
      <4>1. y[id] = n
        BY <2>2, <3>2
      <4> QED
        BY <3>1, <3>2, <4>1 DEF Finds
    <3>3. CASE ~(id = t.label[n].id /\ x[id] = 0)
      <4>1. y[id] = x[id]
        BY <2>2, <3>3
      <4>2. CASE x[id] = 0 /\ \A m \in Above(t, t.up[n]) : t.label[m].id # id
        BY <3>1, <3>3, <4>1, <4>2 DEF Finds
      <4>3. CASE x[id] \in Above(t, t.up[n]) /\ t.label[x[id]].id = id
        BY <3>1, <4>1, <4>3 DEF Finds
      <4> QED
        BY <3>1, <4>2, <4>3 DEF Finds
    <3> QED
      BY <3>2, <3>3
  <2>4. y \in J[n]
    BY <2>2, <2>3
  <2> QED
    BY <2>4 DEF y
<1>5. g \in [D \X Nodes -> D]
  BY <1>3
<1>6. \A n \in Nodes \cup {0} : J[n] \subseteq D
  OBVIOUS
<1>7. \A n \in Nodes, x \in D : g[<<x, n>>] = FirstOr(x, t.label[n], n)
  OBVIOUS
<1>8. \A n \in Nodes : \A x \in J[t.up[n]] : g[<<x, n>>] \in J[n]
  BY <1>4, <1>6, <1>7
<1>9. Upward(t, Nodes)
  BY DEF Upward
<1>90. \A n \in Nodes \cup {0} : \A x \in J[n] : x \in D /\ \A id \in AllIds : Finds(t, n, id, x[id])
  OBVIOUS
<1> HIDE DEF D, J, g, z
<1>10. KeepsUp(t, Nodes, D, J, z, g)
  BY <1>2, <1>5, <1>6, <1>8, <1>9 DEF KeepsUp
<1>11. \E f \in [Nodes \cup {0} -> D] : RunUp(t, Nodes, J, z, g, f)
  BY <1>10, LineRuns
<1>12. PICK f \in [Nodes \cup {0} -> D] : RunUp(t, Nodes, J, z, g, f)
  BY <1>11
<1>13. Runs(f)
  <2>1. f[0] = z /\ \A n \in Nodes : f[n] = FirstOr(f[t.up[n]], t.label[n], n)
    BY <1>7, <1>12 DEF RunUp
  <2> QED
    BY <1>0, <2>1
<1>14. Runs(table)
  <2> HIDE DEF Runs
  <2> QED
    BY <1>13, Zenon
<1>15. CreateScopeTable(t, s) = [s EXCEPT !.hashed = TRUE, !.table = table[s.lastProp]]
  BY DEF CreateScopeTable, z
<1>16. table[0] = z /\ \A n \in Nodes : table[n] = FirstOr(table[t.up[n]], t.label[n], n)
  <2> HIDE DEF table
  <2> QED
    BY <1>0, <1>14
<1> HIDE DEF table
<1>17. \A n \in Nodes \cup {0} : table[n] \in J[n]
  <2> DEFINE P == {n \in Nodes \cup {0} : table[n] \in J[n]}
  <2>1. 0 \in P /\ \A n \in Nodes : t.up[n] \in P => n \in P
    BY <1>2, <1>4, <1>16
  <2> HIDE DEF P
  <2>2. Nodes \subseteq P
    BY <1>9, <2>1, LineInduction
  <2> QED
    BY <2>1, <2>2 DEF P
<1>18. s.lastProp \in Nodes \cup {0}
  BY DEF Scopes
<1>19. table[s.lastProp] \in D /\ \A id \in AllIds : Finds(t, s.lastProp, id, table[s.lastProp][id])
  BY <1>17, <1>18, <1>90
<1> QED
  BY <1>15, <1>19 DEF D

\* The node that a scope ends at after it has left one.
Reached(t, s, n, r) ==
  /\ r \in Above(t, n) \cup {0}
  /\ r # 0 /\ s.middle => HasProperty(t, s, r)
  /\ ~s.middle => r = n
  /\ \A m \in Above(t, n) : m \in Above(t, r) \/ (s.middle /\ ~HasProperty(t, s, m))

LEMMA LastReached ==
  ASSUME NEW t, t.up \in [Nodes -> Nodes \cup {0}], Rooting(t), NEW s, NEW node \in Nodes \cup {0}
  PROVE  Reached(t, s, node, LastOf(t, s, node))
<1> DEFINE D == Nodes \cup {0}
           Stops(n) == ~s.middle \/ HasProperty(t, s, n)
           J == [n \in Nodes \cup {0} |-> D]
           g == [x \in D \X Nodes |-> IF Stops(x[2]) THEN x[2] ELSE x[1]]
           Runs(f) == f = [n \in Nodes \cup {0} |->
                            IF n = 0 \/ ~s.middle \/ HasProperty(t, s, n) THEN n ELSE f[t.up[n]]]
           from == CHOOSE f : Runs(f)
<1>0. 0 \notin Nodes
  BY DEF Nodes
<1>00. Above(t, 0) = {} /\ \A m \in Nodes : Above(t, m) = {m} \cup Above(t, t.up[m])
  BY AboveIs
<1> HIDE DEF Stops
<1>1. /\ 0 \in J[0] /\ g \in [D \X Nodes -> D] /\ \A n \in Nodes \cup {0} : J[n] \subseteq D
      /\ \A n \in Nodes : \A x \in J[t.up[n]] : g[<<x, n>>] \in J[n] /\ g[<<x, n>>] = IF Stops(n) THEN n ELSE x
  OBVIOUS
<1>2. Upward(t, Nodes)
  BY DEF Upward
<1> HIDE DEF D, J, g
<1>3. KeepsUp(t, Nodes, D, J, 0, g)
  BY <1>1, <1>2 DEF KeepsUp
<1>4. \E f \in [Nodes \cup {0} -> D] : RunUp(t, Nodes, J, 0, g, f)
  BY <1>3, LineRuns
<1>5. PICK f \in [Nodes \cup {0} -> D] : RunUp(t, Nodes, J, 0, g, f)
  BY <1>4
<1>6. Runs(f)
  <2>1. f[0] = 0 /\ \A n \in Nodes : f[n] = IF Stops(n) THEN n ELSE f[t.up[n]]
    BY <1>1, <1>5 DEF RunUp
  <2>2. \A n \in Nodes : f[n] = IF n = 0 \/ ~s.middle \/ HasProperty(t, s, n) THEN n ELSE f[t.up[n]]
    BY <1>0, <2>1 DEF Stops
  <2> QED
    BY <1>0, <2>1, <2>2
<1>7. Runs(from)
  <2> HIDE DEF Runs
  <2> QED
    BY <1>6, Zenon
<1>8. \A n : LastOf(t, s, n) = from[n]
  BY DEF LastOf
<1>9. from[0] = 0 /\ \A n \in Nodes : from[n] = IF Stops(n) THEN n ELSE from[t.up[n]]
  <2> HIDE DEF from
  <2>1. from[0] = 0 /\ \A n \in Nodes : from[n] = IF n = 0 \/ ~s.middle \/ HasProperty(t, s, n) THEN n ELSE from[t.up[n]]
    BY <1>0, <1>7
  <2> QED
    BY <1>0, <2>1 DEF Stops
<1> HIDE DEF from
<1>10. Reached(t, s, 0, from[0])
  BY <1>00, <1>9 DEF Reached
<1>11. \A n \in Nodes : Reached(t, s, n, from[n])
  <2> DEFINE P == {0} \cup {n \in Nodes : Reached(t, s, n, from[n])}
  <2>1. ASSUME NEW n \in Nodes, t.up[n] \in P PROVE n \in P
    <3>1. Reached(t, s, t.up[n], from[t.up[n]])
      BY <1>10, <2>1
    <3>2. CASE Stops(n)
      <4>1. from[n] = n
        BY <1>9, <3>2
      <4>2. Reached(t, s, n, n)
        BY <1>00, <3>2 DEF Reached, Stops
      <4> QED
        BY <4>1, <4>2
    <3>3. CASE ~Stops(n)
      <4>1. from[n] = from[t.up[n]] /\ s.middle /\ ~HasProperty(t, s, n)
        BY <1>9, <3>3 DEF Stops
      <4>2. Reached(t, s, n, from[n])
        BY <1>00, <3>1, <4>1 DEF Reached
      <4> QED
        BY <4>2
    <3> QED
      BY <3>2, <3>3
  <2>2. 0 \in P
    OBVIOUS
  <2> HIDE DEF P
  <2>3. Nodes \subseteq P
    BY <1>2, <2>1, <2>2, LineInduction
  <2> QED
    BY <1>0, <2>3 DEF P
<1> QED
  BY <1>8, <1>10, <1>11

\* Where a scope finds the ids.
MapOf(t, s) == [id \in AllIds |-> SearchScope(t, s, id)]
Owns(t, M, id) == M[id] # 0 /\ ~Shared(t.label[M[id]])
BoundIds(M, H) == {id \in AllIds \ H : M[id] # 0}

\* What is true of a scope that ends a line L and maps ids by M, while the
\* property of the id in H is about to be overwritten.
Mapping(t, L, M) == \A id \in AllIds : M[id] # 0 => M[id] \in L /\ t.label[M[id]].id = id
Unique(t, L) == \A m, n \in L : t.label[m].id = t.label[n].id => m = n \/ t.label[m].id \in Hidden
Covered(t, s, L, M, H) ==
  \A n \in L : ~s.middle \/ t.label[n].id \in Hidden \/ n = s.lastProp =>
                 M[t.label[n].id] # 0 \/ t.label[n].id \in H \cap Hidden
Counted(s, M, H) == s.count = Cardinality(BoundIds(M, H))
Slotted(t, s, M, H) ==
  /\ \A id \in AllIds \ H : Owns(t, M, id) => t.label[M[id]].slot \in Nat /\ t.label[M[id]].slot < s.freeslot
  /\ \A id, jd \in AllIds \ H : Owns(t, M, id) /\ Owns(t, M, jd) /\ t.label[M[id]].slot = t.label[M[jd]].slot => id = jd
Holds(t, s, L, M, H) ==
  Mapping(t, L, M) /\ Unique(t, L) /\ Covered(t, s, L, M, H) /\ Counted(s, M, H) /\ Slotted(t, s, M, H)

Fits(t, s, H) ==
  /\ s \in Scopes /\ s.lastProp \in LiveNodes(t) \cup {0} /\ (s.middle => s.hashed)
  /\ Holds(t, s, Above(t, s.lastProp), MapOf(t, s), H)

\* A tree that has only grown.
Grew(t, u) == \A m \in LiveNodes(t) : m \in LiveNodes(u) /\ u.label[m] = t.label[m] /\ u.up[m] = t.up[m]

LEMMA GrewLine ==
  ASSUME NEW t, Grows(t), NEW u, Grows(u), Grew(t, u), NEW n \in LiveNodes(t) \cup {0}
  PROVE  /\ Above(u, n) = Above(t, n) /\ Above(t, n) \subseteq LiveNodes(t)
         /\ \A m \in Above(t, n) : u.label[m] = t.label[m] /\ u.up[m] = t.up[m]
         /\ \A id : SearchLine(u, n, id) = SearchLine(t, n, id)
<1>1. /\ t \in TreesOf(GoodLabels) /\ Healthy(t) /\ Rooting(t) /\ t.up \in [Nodes -> Nodes \cup {0}]
      /\ LiveNodes(t) \subseteq Nodes
  BY UsableIs
<1>2. Rooting(u) /\ u.up \in [Nodes -> Nodes \cup {0}]
  BY UsableIs
<1>3. Above(t, n) \subseteq LiveNodes(t)
  BY <1>1, LiveLine
<1>4. \A m \in Above(t, n) : u.label[m] = t.label[m] /\ u.up[m] = t.up[m]
  BY <1>3 DEF Grew
<1>5. n \in Nodes \cup {0}
  BY <1>1
<1>6. Above(u, n) = Above(t, n)
  BY <1>1, <1>2, <1>4, <1>5, SameLine
<1>7. \A id : SearchLine(u, n, id) = SearchLine(t, n, id)
  BY <1>1, <1>2, <1>4, <1>5, SameSearch
<1> QED
  BY <1>3, <1>4, <1>6, <1>7

LEMMA HoldsAlike ==
  ASSUME NEW t, NEW u, NEW s, NEW L, NEW M, NEW H, Holds(t, s, L, M, H), \A m \in L : u.label[m] = t.label[m]
  PROVE  Holds(u, s, L, M, H)
<1>1. Mapping(t, L, M) /\ Unique(t, L) /\ Covered(t, s, L, M, H) /\ Counted(s, M, H) /\ Slotted(t, s, M, H)
  BY DEF Holds
<1>2. Mapping(u, L, M)
  BY <1>1 DEF Mapping
<1>3. Unique(u, L)
  BY <1>1 DEF Unique
<1>4. Covered(u, s, L, M, H)
  BY <1>1 DEF Covered
<1>5. \A id \in AllIds : M[id] # 0 => u.label[M[id]] = t.label[M[id]]
  BY <1>1 DEF Mapping
<1>6. \A id \in AllIds : Owns(u, M, id) => Owns(t, M, id) /\ u.label[M[id]] = t.label[M[id]]
  BY <1>5 DEF Owns
<1>7. Slotted(u, s, M, H)
  BY <1>1, <1>6 DEF Slotted
<1> QED
  BY <1>1, <1>2, <1>3, <1>4, <1>7 DEF Holds

LEMMA FitsGrown ==
  ASSUME NEW t, Grows(t), NEW u, Grows(u), Grew(t, u), NEW s, NEW H, Fits(t, s, H)
  PROVE  Fits(u, s, H) /\ MapOf(u, s) = MapOf(t, s) /\ Above(u, s.lastProp) = Above(t, s.lastProp)
<1>1. /\ s \in Scopes /\ s.lastProp \in LiveNodes(t) \cup {0} /\ (s.middle => s.hashed)
      /\ Holds(t, s, Above(t, s.lastProp), MapOf(t, s), H)
  BY DEF Fits
<1>2. /\ Above(u, s.lastProp) = Above(t, s.lastProp)
      /\ \A m \in Above(t, s.lastProp) : u.label[m] = t.label[m]
      /\ \A id : SearchLine(u, s.lastProp, id) = SearchLine(t, s.lastProp, id)
  BY <1>1, GrewLine
<1>3. MapOf(u, s) = MapOf(t, s)
  BY <1>2 DEF MapOf, SearchScope
<1>4. Holds(u, s, Above(t, s.lastProp), MapOf(t, s), H)
  BY <1>1, <1>2, HoldsAlike
<1>5. s.lastProp \in LiveNodes(u) \cup {0}
  BY <1>1 DEF Grew
<1> QED
  BY <1>1, <1>2, <1>3, <1>4, <1>5 DEF Fits

\* What GetPropertyTreeChild does for a usable tree.
Childed(t, g, parent, label) ==
  /\ Usable(g.tree) /\ Grew(t, g.tree)
  /\ \/ g.node = 0
     \/ /\ g.node \in LiveNodes(g.tree) /\ g.tree.label[g.node] = label /\ g.tree.up[g.node] = parent

LEMMA ChildFits ==
  ASSUME NEW t, Usable(t), NEW parent \in LiveNodes(t) \cup {0}, NEW label \in GoodLabels,
         label.id \in Hidden /\ parent # 0 => t.label[parent].id \in Hidden
  PROVE  Childed(t, GetPropertyTreeChild(t, parent, label), parent, label)
<1> DEFINE g == GetPropertyTreeChild(t, parent, label)
           u == g.tree
<1>1. /\ t \in TreesOf(GoodLabels) /\ Healthy(t) /\ Rooting(t) /\ LiveNodes(t) \subseteq Nodes /\ FormalsFirst(t)
      /\ \A n \in LiveNodes(t) : t.label[n] # NoLabel
  BY UsableIs DEF Usable
<1>2. NoLabel \notin GoodLabels
  BY LabelIs
<1>3. Got(GoodLabels, t, g, parent, label)
  BY <1>1, <1>2, ChildGot
<1> HIDE DEF g
<1>4. /\ GrownBy(GoodLabels, t, u, parent, label) /\ (g.node = 0 \/ ChildOf(u, g.node, parent, label))
  BY <1>3 DEF Got
<1>5. /\ u \in TreesOf(GoodLabels) /\ Healthy(u) /\ Rooting(u)
      /\ \A m \in Nodes : t.label[m] # NoLabel => u.label[m] = t.label[m] /\ u.up[m] = t.up[m]
      /\ \A m \in Nodes : t.label[m] = NoLabel /\ u.label[m] # NoLabel => u.label[m] = label /\ u.up[m] \in {0, parent}
  BY <1>4 DEF GrownBy
<1> HIDE DEF u
<1>6. Grew(t, u)
  BY <1>5 DEF Grew, LiveNodes
<1>7. FormalsFirst(u)
  <2>1. SUFFICES ASSUME NEW m \in Nodes, u.label[m] # NoLabel, u.up[m] # 0, u.label[m].id \in Hidden
                 PROVE  u.label[u.up[m]].id \in Hidden
    BY DEF FormalsFirst
  <2>2. CASE t.label[m] # NoLabel
    <3>1. u.label[m] = t.label[m] /\ u.up[m] = t.up[m] /\ m \in LiveNodes(t)
      BY <1>5, <2>2 DEF LiveNodes
    <3>2. t.up[m] \in LiveNodes(t)
      BY <1>1, <2>1, <3>1, LiveLine
    <3>3. t.label[t.up[m]].id \in Hidden
      BY <1>1, <2>1, <2>2, <3>1 DEF FormalsFirst
    <3>4. u.label[t.up[m]] = t.label[t.up[m]]
      BY <1>6, <3>2 DEF Grew
    <3> QED
      BY <3>1, <3>3, <3>4
  <2>3. CASE t.label[m] = NoLabel
    <3>1. u.label[m] = label /\ u.up[m] = parent
      BY <1>5, <2>1, <2>3
    <3>2. parent \in LiveNodes(t) /\ t.label[parent].id \in Hidden
      BY <2>1, <3>1
    <3>3. u.label[parent] = t.label[parent]
      BY <1>6, <3>2 DEF Grew
    <3> QED
      BY <3>1, <3>2, <3>3
  <2> QED
    BY <2>2, <2>3
<1>8. Usable(u)
  BY <1>5, <1>7 DEF Usable, Grows
<1>9. g.node = 0 \/ (g.node \in LiveNodes(u) /\ u.label[g.node] = label /\ u.up[g.node] = parent)
  BY <1>2, <1>4 DEF ChildOf, LiveNodes
<1> QED
  BY <1>6, <1>8, <1>9 DEF g, u, Childed

LEMMA MapIs ==
  ASSUME NEW t, t.up \in [Nodes -> Nodes \cup {0}], Rooting(t), NEW s \in Scopes
  PROVE  /\ MapOf(t, s) \in [AllIds -> Nodes \cup {0}]
         /\ s.hashed => MapOf(t, s) = s.table
         /\ ~s.hashed => \A id \in AllIds : MapOf(t, s)[id] = SearchLine(t, s.lastProp, id)
                                            /\ Finds(t, s.lastProp, id, MapOf(t, s)[id])
<1>1. s.lastProp \in Nodes \cup {0} /\ s.table \in [AllIds -> Nodes \cup {0}]
  BY DEF Scopes
<1>2. CASE s.hashed
  <2>1. \A id \in AllIds : MapOf(t, s)[id] = s.table[id]
    BY <1>2 DEF MapOf, SearchScope
  <2>2. MapOf(t, s) = [id \in AllIds |-> MapOf(t, s)[id]]
    BY DEF MapOf
  <2>3. MapOf(t, s) = s.table
    BY <1>1, <2>1, <2>2
  <2> QED
    BY <1>1, <1>2, <2>3
<1>3. CASE ~s.hashed
  <2>1. \A id \in AllIds : MapOf(t, s)[id] = SearchLine(t, s.lastProp, id)
    BY <1>3 DEF MapOf, SearchScope
  <2>2. \A id \in AllIds : Finds(t, s.lastProp, id, SearchLine(t, s.lastProp, id))
    BY <1>1, LineSearched
  <2>3. \A id \in AllIds : SearchLine(t, s.lastProp, id) \in Nodes \cup {0}
    BY <1>1, SearchLineIs
  <2>4. MapOf(t, s) = [id \in AllIds |-> MapOf(t, s)[id]]
    BY DEF MapOf
  <2>5. MapOf(t, s) \in [AllIds -> Nodes \cup {0}]
    BY <2>1, <2>3, <2>4
  <2> QED
    BY <1>3, <2>1, <2>2, <2>5
<1> QED
  BY <1>2, <1>3

\* Two maps that differ only in which duplicate of a formal parameter they
\* name hold the same.
LEMMA HoldsShifted ==
  ASSUME NEW t, NEW s, NEW u, NEW L, NEW M, NEW N, NEW H, Holds(t, s, L, M, H),
         \A n \in L : t.label[n].id \in AllIds /\ (t.label[n].id \in Hidden => Shared(t.label[n])),
         Mapping(t, L, N), \A id \in AllIds : M[id] = 0 <=> N[id] = 0,
         u.count = s.count, u.freeslot = s.freeslot, u.lastProp = s.lastProp, s.middle => u.middle
  PROVE  Holds(t, u, L, N, H)
<1>1. Mapping(t, L, M) /\ Unique(t, L) /\ Covered(t, s, L, M, H) /\ Counted(s, M, H) /\ Slotted(t, s, M, H)
  BY DEF Holds
<1>2. Covered(t, u, L, N, H)
  BY <1>1 DEF Covered
<1>3. BoundIds(N, H) = BoundIds(M, H)
  BY DEF BoundIds
<1>4. Counted(u, N, H)
  BY <1>1, <1>3 DEF Counted
<1>5. ASSUME NEW id \in AllIds, Owns(t, N, id) PROVE Owns(t, M, id) /\ M[id] = N[id]
  <2>1. N[id] # 0 /\ M[id] # 0 /\ N[id] \in L /\ M[id] \in L /\ t.label[N[id]].id = id /\ t.label[M[id]].id = id
    BY <1>1, <1>5 DEF Owns, Mapping
  <2>2. id \notin Hidden
    BY <1>5, <2>1 DEF Owns
  <2>3. M[id] = N[id]
    BY <1>1, <2>1, <2>2 DEF Unique
  <2> QED
    BY <1>5, <2>3 DEF Owns
<1>6. Slotted(t, u, N, H)
  <2>1. ASSUME NEW id \in AllIds \ H, Owns(t, N, id)
        PROVE  t.label[N[id]].slot \in Nat /\ t.label[N[id]].slot < u.freeslot
    BY <1>1, <1>5, <2>1 DEF Slotted
  <2>2. ASSUME NEW id \in AllIds \ H, NEW jd \in AllIds \ H, Owns(t, N, id), Owns(t, N, jd),
               t.label[N[id]].slot = t.label[N[jd]].slot
        PROVE  id = jd
    <3>1. Owns(t, M, id) /\ Owns(t, M, jd) /\ t.label[M[id]].slot = t.label[M[jd]].slot
      BY <1>5, <2>2
    <3> QED
      BY <1>1, <3>1 DEF Slotted
  <2> QED
    BY <2>1, <2>2 DEF Slotted
<1> QED
  BY <1>1, <1>2, <1>4, <1>6 DEF Holds

LEMMA LineLabels ==
  ASSUME NEW t, Grows(t), NEW n \in LiveNodes(t) \cup {0}
  PROVE  /\ Above(t, n) \subseteq LiveNodes(t) /\ 0 \notin Above(t, n) /\ Above(t, n) \subseteq Nodes
         /\ \A m \in Above(t, n) : t.label[m] \in GoodLabels /\ t.label[m].id \in AllIds
                                   /\ (t.label[m].id \in Hidden => Shared(t.label[m]))
<1>1. Above(t, n) \subseteq LiveNodes(t) /\ LiveNodes(t) \subseteq Nodes /\ 0 \notin Nodes
  BY UsableIs, LiveLine
<1>2. \A m \in Above(t, n) : t.label[m] \in GoodLabels
  BY <1>1, UsableIs
<1>3. \A m \in Above(t, n) : t.label[m].id \in AllIds /\ (t.label[m].id \in Hidden => Shared(t.label[m]))
  BY <1>2, LabelIs DEF Shared
<1> QED
  BY <1>1, <1>2, <1>3

Tabled(t, s, u, H) ==
  /\ Fits(t, u, H) /\ u.hashed = TRUE /\ u.lastProp = s.lastProp /\ u.count = s.count
  /\ u.middle = s.middle /\ u.freeslot = s.freeslot /\ u.nargs = s.nargs
  /\ \A id \in AllIds : (MapOf(t, u)[id] = 0 <=> MapOf(t, s)[id] = 0)
                        /\ (id \notin Hidden => MapOf(t, u)[id] = MapOf(t, s)[id])

LEMMA TableFits ==
  ASSUME NEW t, Grows(t), NEW s, NEW H, Fits(t, s, H), ~s.hashed
  PROVE  Tabled(t, s, CreateScopeTable(t, s), H)
<1> DEFINE u == CreateScopeTable(t, s)
           L == Above(t, s.lastProp)
           M == MapOf(t, s)
           N == MapOf(t, u)
<1>1. /\ s \in Scopes /\ s.lastProp \in LiveNodes(t) \cup {0} /\ (s.middle => s.hashed)
      /\ Holds(t, s, L, M, H)
  BY DEF Fits
<1>2. Rooting(t) /\ t.up \in [Nodes -> Nodes \cup {0}] /\ 0 \notin Nodes
  BY UsableIs
<1>3. PICK tab \in [AllIds -> Nodes \cup {0}] :
           /\ u = [s EXCEPT !.hashed = TRUE, !.table = tab]
           /\ \A id \in AllIds : Finds(t, s.lastProp, id, tab[id])
  BY <1>1, <1>2, TableMade
<1> HIDE DEF u
<1>4. /\ u \in Scopes /\ u.hashed = TRUE /\ u.lastProp = s.lastProp /\ u.count = s.count
      /\ u.middle = s.middle /\ u.freeslot = s.freeslot /\ u.nargs = s.nargs /\ u.table = tab
  BY <1>1, <1>3 DEF Scopes
<1>5. N = tab /\ \A id \in AllIds : Finds(t, s.lastProp, id, M[id])
  BY <1>1, <1>2, <1>4, MapIs
<1> HIDE DEF M, N
<1>6. \A m \in L : m # 0 /\ t.label[m].id \in AllIds /\ (t.label[m].id \in Hidden => Shared(t.label[m]))
  BY <1>1, LineLabels
<1>7. ASSUME NEW id \in AllIds PROVE (N[id] = 0 <=> M[id] = 0) /\ (N[id] # 0 => N[id] \in L /\ t.label[N[id]].id = id)
  <2>1. Finds(t, s.lastProp, id, N[id]) /\ Finds(t, s.lastProp, id, M[id])
    BY <1>3, <1>5
  <2> QED
    BY <1>6, <2>1 DEF Finds
<1>8. Mapping(t, L, N)
  BY <1>7 DEF Mapping
<1>9. Holds(t, u, L, N, H)
  BY <1>1, <1>4, <1>6, <1>7, <1>8, HoldsShifted
<1>10. Fits(t, u, H)
  BY <1>1, <1>4, <1>9 DEF Fits, N
<1>11. ASSUME NEW id \in AllIds, id \notin Hidden PROVE N[id] = M[id]
  <2>1. Mapping(t, L, M) /\ Unique(t, L)
    BY <1>1 DEF Holds
  <2>2. CASE N[id] = 0
    BY <1>7, <2>2
  <2>3. CASE N[id] # 0
    <3>1. M[id] # 0
      BY <1>7, <2>3
    <3>2. M[id] \in L /\ t.label[M[id]].id = id /\ N[id] \in L /\ t.label[N[id]].id = id
      BY <1>7, <2>1, <2>3, <3>1 DEF Mapping
    <3> QED
      BY <1>11, <2>1, <3>2 DEF Unique
  <2> QED
    BY <2>2, <2>3
<1> QED
  BY <1>4, <1>7, <1>10, <1>11 DEF u, M, N, Tabled

\* A label brings no slot that another property has.
Fresh(t, s, M, H, l) ==
  \/ Shared(l)
  \/ /\ l.slot \in Nat /\ l.slot < s.freeslot
     /\ \A jd \in AllIds \ H : Owns(t, M, jd) => t.label[M[jd]].slot # l.slot

\* A property is added, or one that was to be overwritten comes back.
Entering(t, s, u, L, M, N, H, id, n) ==
  /\ Holds(t, s, L, M, H) /\ H \subseteq {id} /\ (id \in H \/ M[id] = 0) /\ s.count \in Int
  /\ n # 0 /\ t.label[n].id = id /\ (id \in Hidden => \A m \in L \cup {n} : t.label[m].id = id => Shared(t.label[m]))
  /\ \A m \in L : m # 0 /\ t.label[m].id \in AllIds
  /\ \A jd \in AllIds : jd # id => N[jd] = M[jd]
  /\ N[id] \in L \cup {n} /\ t.label[N[id]].id = id /\ (id \notin Hidden => N[id] = n)
  /\ \A m \in L : t.label[m].id = id => m = n \/ id \in Hidden
  /\ Fresh(t, s, M, H, t.label[n])
  /\ u.count = s.count + 1 /\ u.freeslot = s.freeslot /\ u.lastProp \in {n, s.lastProp} /\ u.middle = s.middle

LEMMA HoldsEntered ==
  ASSUME NEW t, NEW s, NEW u, NEW L, NEW M, NEW N, NEW H, NEW id \in AllIds, NEW n,
         Entering(t, s, u, L, M, N, H, id, n)
  PROVE  Holds(t, u, L \cup {n}, N, {})
<1> USE DEF Entering
<1>1. Mapping(t, L, M) /\ Unique(t, L) /\ Covered(t, s, L, M, H) /\ Counted(s, M, H) /\ Slotted(t, s, M, H)
  BY DEF Holds
<1>0. N[id] # 0
  OBVIOUS
<1>2. Mapping(t, L \cup {n}, N)
  BY <1>1 DEF Mapping
<1>3. Unique(t, L \cup {n})
  BY <1>1 DEF Unique
<1>4. Covered(t, u, L \cup {n}, N, {})
  <2>1. SUFFICES ASSUME NEW m \in L \cup {n},
                        ~u.middle \/ t.label[m].id \in Hidden \/ m = u.lastProp
                 PROVE  N[t.label[m].id] # 0
    BY DEF Covered
  <2>2. CASE t.label[m].id = id
    BY <1>0, <2>2
  <2>3. CASE t.label[m].id # id
    <3>1. m \in L /\ m # n
      BY <2>3
    <3>2. M[t.label[m].id] # 0 \/ t.label[m].id \in H
      BY <1>1, <2>1, <3>1 DEF Covered
    <3> QED
      BY <2>3, <3>1, <3>2
  <2> QED
    BY <2>2, <2>3
<1>5. Counted(u, N, {})
  <2> DEFINE S == BoundIds(M, H)
             T == BoundIds(N, {})
  <2>1. T = S \cup {id} /\ id \notin S
    BY <1>0 DEF BoundIds
  <2>2. IsFiniteSet(S)
    <3>1. S \subseteq AllIds
      BY DEF BoundIds
    <3> QED
      BY <3>1, PropertyAssumption, FS_Subset
  <2> HIDE DEF S, T
  <2>3. Cardinality(T) = Cardinality(S) + 1
    BY <2>1, <2>2, FS_AddElement
  <2> QED
    BY <1>1, <2>3 DEF Counted, S, T
<1>6. \A jd \in AllIds : jd # id => (Owns(t, N, jd) <=> Owns(t, M, jd)) /\ N[jd] = M[jd]
  BY DEF Owns
<1>7. Owns(t, N, id) => /\ N[id] = n /\ t.label[n].slot \in Nat /\ t.label[n].slot < s.freeslot
                       /\ \A jd \in AllIds \ H : Owns(t, M, jd) => t.label[M[jd]].slot # t.label[n].slot
  <2>1. SUFFICES ASSUME Owns(t, N, id)
                 PROVE  /\ N[id] = n /\ t.label[n].slot \in Nat /\ t.label[n].slot < s.freeslot
                        /\ \A jd \in AllIds \ H : Owns(t, M, jd) => t.label[M[jd]].slot # t.label[n].slot
    OBVIOUS
  <2>2. ~Shared(t.label[N[id]])
    BY <2>1 DEF Owns
  <2>3. N[id] = n
    BY <2>2
  <2>4. ~Shared(t.label[n])
    BY <2>2, <2>3
  <2> QED
    BY <2>3, <2>4 DEF Fresh
<1>8. Slotted(t, u, N, {})
  <2>1. ASSUME NEW jd \in AllIds, Owns(t, N, jd)
        PROVE  t.label[N[jd]].slot \in Nat /\ t.label[N[jd]].slot < u.freeslot
    <3>1. CASE jd = id
      BY <1>7, <2>1, <3>1
    <3>2. CASE jd # id
      BY <1>1, <1>6, <2>1, <3>2 DEF Slotted
    <3> QED
      BY <3>1, <3>2
  <2>2. ASSUME NEW jd \in AllIds, NEW kd \in AllIds, Owns(t, N, jd), Owns(t, N, kd),
               t.label[N[jd]].slot = t.label[N[kd]].slot
        PROVE  jd = kd
    <3>1. CASE jd # id /\ kd # id
      BY <1>1, <1>6, <2>2, <3>1 DEF Slotted
    <3>2. CASE jd = id /\ kd # id
      BY <1>6, <1>7, <2>2, <3>2
    <3>3. CASE jd # id /\ kd = id
      BY <1>6, <1>7, <2>2, <3>3
    <3> QED
      BY <3>1, <3>2, <3>3
  <2> QED
    BY <2>1, <2>2 DEF Slotted
<1> QED
  BY <1>2, <1>3, <1>4, <1>5, <1>8 DEF Holds

Entered(s, id, n, last) == [Store(s, id, n) EXCEPT !.count = @ + 1, !.lastProp = last]

EntryOf(s, u, id, n, last) ==
  /\ u \in Scopes /\ u.count = s.count + 1 /\ u.lastProp = last /\ u.hashed = s.hashed
  /\ u.middle = s.middle /\ u.freeslot = s.freeslot /\ u.nargs = s.nargs
  /\ \A jd \in AllIds : s.hashed => u.table[jd] = IF jd = id THEN n ELSE s.table[jd]

LEMMA EnteredIs ==
  ASSUME NEW s \in Scopes, NEW id \in AllIds, NEW n \in Nodes \cup {0}, NEW last \in Nodes \cup {0}
  PROVE  EntryOf(s, Entered(s, id, n, last), id, n, last)
<1> DEFINE u == Entered(s, id, n, last)
<1>1. s.table \in [AllIds -> Nodes \cup {0}]
  BY DEF Scopes
<1> DEFINE c == s.count + 1
<1>10. c \in Int
  BY DEF Scopes
<1>2. CASE s.hashed
  <2>1. Store(s, id, n) = [s EXCEPT !.table = [s.table EXCEPT ![id] = n]]
    BY <1>2 DEF Store, Scopes
  <2>2. [s.table EXCEPT ![id] = n] \in [AllIds -> Nodes \cup {0}]
    BY <1>1
  <2>3. u = [s EXCEPT !.table = [s.table EXCEPT ![id] = n], !.count = c, !.lastProp = last]
    BY <2>1 DEF Entered, Scopes
  <2> HIDE DEF u, c
  <2>4. u \in Scopes
    BY <1>10, <2>2, <2>3 DEF Scopes
  <2>5. u.count = c /\ u.lastProp = last /\ u.freeslot = s.freeslot /\ u.nargs = s.nargs
    BY <2>3 DEF Scopes
  <2>6. u.hashed = s.hashed
    BY <2>3 DEF Scopes
  <2>7. u.middle = s.middle
    BY <2>3 DEF Scopes
  <2>8. u.table = [s.table EXCEPT ![id] = n]
    BY <2>3 DEF Scopes
  <2> QED
    BY <1>1, <1>2, <2>4, <2>5, <2>6, <2>7, <2>8 DEF u, c, EntryOf
<1>3. CASE ~s.hashed
  <2>1. u = [s EXCEPT !.count = c, !.lastProp = last]
    BY <1>3 DEF Entered, Store, Scopes
  <2> HIDE DEF u, c
  <2>2. u \in Scopes
    BY <1>10, <2>1 DEF Scopes
  <2>3. u.count = c /\ u.lastProp = last /\ u.freeslot = s.freeslot /\ u.nargs = s.nargs
    BY <2>1 DEF Scopes
  <2>4. u.hashed = s.hashed
    BY <2>1 DEF Scopes
  <2>5. u.middle = s.middle
    BY <2>1 DEF Scopes
  <2> QED
    BY <1>3, <2>2, <2>3, <2>4, <2>5 DEF u, c, EntryOf
<1> QED
  BY <1>2, <1>3

LEMMA EntryFits ==
  ASSUME NEW t, Grows(t), NEW s, NEW H, Fits(t, s, H), NEW n \in LiveNodes(t), NEW last,
         H \subseteq {t.label[n].id}, t.label[n].id \in H \/ MapOf(t, s)[t.label[n].id] = 0,
         \/ last = n /\ t.up[n] = s.lastProp
         \/ last = s.lastProp /\ n \in Above(t, s.lastProp),
         \A m \in Above(t, s.lastProp) : t.label[m].id = t.label[n].id => m = n \/ t.label[n].id \in Hidden,
         Fresh(t, s, MapOf(t, s), H, t.label[n])
  PROVE  Fits(t, Entered(s, t.label[n].id, n, last), {})
<1> DEFINE id == t.label[n].id
           u == Entered(s, id, n, last)
           L == Above(t, s.lastProp)
           M == MapOf(t, s)
           N == MapOf(t, u)
<1>1. /\ s \in Scopes /\ s.lastProp \in LiveNodes(t) \cup {0} /\ (s.middle => s.hashed)
      /\ Holds(t, s, L, M, H)
  BY DEF Fits
<1>2. Rooting(t) /\ t.up \in [Nodes -> Nodes \cup {0}] /\ 0 \notin Nodes /\ LiveNodes(t) \subseteq Nodes
      /\ n \in Nodes /\ id \in AllIds /\ t.label[n] \in GoodLabels
  BY UsableIs
<1>3. last \in Nodes \cup {0} /\ last \in LiveNodes(t) \cup {0} /\ n # 0
  BY <1>1, <1>2
<1>4. /\ u \in Scopes /\ u.count = s.count + 1 /\ u.lastProp = last /\ u.hashed = s.hashed
      /\ u.middle = s.middle /\ u.freeslot = s.freeslot
      /\ \A jd \in AllIds : s.hashed => u.table[jd] = IF jd = id THEN n ELSE s.table[jd]
  <2>1. EntryOf(s, Entered(s, id, n, last), id, n, last)
    BY <1>1, <1>2, <1>3, EnteredIs
  <2> QED
    BY <2>1 DEF EntryOf
<1>5. \A m \in L : m # 0 /\ t.label[m].id \in AllIds /\ (t.label[m].id \in Hidden => Shared(t.label[m]))
  BY <1>1, LineLabels
<1>6. Above(t, last) = L \cup {n}
  <2>1. Above(t, n) = {n} \cup Above(t, t.up[n])
    BY <1>2, AboveIs
  <2> QED
    BY <2>1
<1>7. id \in Hidden => \A m \in L \cup {n} : t.label[m].id = id => Shared(t.label[m])
  BY <1>2, <1>5, LabelIs DEF Shared
<1>8. s.count \in Int
  BY <1>1 DEF Scopes
<1>9. /\ u.hashed => N = u.table
      /\ ~u.hashed => \A jd \in AllIds : N[jd] = SearchLine(t, last, jd) /\ Finds(t, last, jd, N[jd])
  BY <1>2, <1>4, MapIs
<1>10. /\ s.hashed => M = s.table
       /\ ~s.hashed => \A jd \in AllIds : M[jd] = SearchLine(t, s.lastProp, jd) /\ Finds(t, s.lastProp, jd, M[jd])
  BY <1>1, <1>2, MapIs
<1> HIDE DEF u, M, N
<1>11. /\ \A jd \in AllIds : jd # id => N[jd] = M[jd]
       /\ N[id] \in L \cup {n} /\ t.label[N[id]].id = id /\ (id \notin Hidden => N[id] = n)
  <2>1. CASE s.hashed
    BY <1>2, <1>4, <1>9, <1>10, <2>1
  <2>2. CASE ~s.hashed /\ last = n /\ t.up[n] = s.lastProp
    <3>1. \A jd : SearchLine(t, n, jd) = IF id = jd THEN n ELSE SearchLine(t, s.lastProp, jd)
      BY <1>2, <2>2, SearchLineIs
    <3> QED
      BY <1>2, <1>4, <1>9, <1>10, <2>2, <3>1
  <2>3. CASE ~s.hashed /\ last = s.lastProp /\ n \in L
    <3>1. \A jd \in AllIds : N[jd] = M[jd]
      BY <1>4, <1>9, <1>10, <2>3
    <3>2. Finds(t, s.lastProp, id, M[id])
      BY <1>2, <1>10, <2>3
    <3>3. M[id] \in L /\ t.label[M[id]].id = id
      BY <2>3, <3>2 DEF Finds
    <3>4. id \notin Hidden => M[id] = n
      BY <3>3
    <3> QED
      BY <1>2, <3>1, <3>3, <3>4
  <2> QED
    BY <2>1, <2>2, <2>3
<1>12. Holds(t, u, L \cup {n}, N, {})
  <2> HIDE DEF id
  <2>1. Fresh(t, s, M, H, t.label[n]) /\ H \subseteq {id} /\ (id \in H \/ M[id] = 0) /\ t.label[n].id = id
        /\ \A m \in L : t.label[m].id = id => m = n \/ id \in Hidden
    BY DEF id, M
  <2>2. u.lastProp \in {n, s.lastProp}
    BY <1>4
  <2> HIDE DEF L
  <2>3. Entering(t, s, u, L, M, N, H, id, n)
    BY <1>1, <1>3, <1>4, <1>5, <1>7, <1>8, <1>11, <2>1, <2>2 DEF Entering
  <2> QED
    BY <1>2, <2>3, HoldsEntered
<1>13. Fits(t, u, {})
  BY <1>1, <1>3, <1>4, <1>6, <1>12 DEF Fits, N
<1> QED
  BY <1>13 DEF u

-----------------------------------------------------------------------------
(***************************************************************************)
(* AddScopeProperty, step by step.                                         *)
(***************************************************************************)
\* Of two nodes of a line one is above the other.
LEMMA LineChain ==
  ASSUME NEW t, t.up \in [Nodes -> Nodes \cup {0}], Rooting(t), NEW n \in Nodes \cup {0}
  PROVE  \A m, k \in Above(t, n) : m \in Above(t, k) \/ k \in Above(t, m)
<1>1. Above(t, 0) = {} /\ \A m \in Nodes : Above(t, m) = {m} \cup Above(t, t.up[m])
  BY AboveIs
<1> DEFINE P == {0} \cup {j \in Nodes : \A m, k \in Above(t, j) : m \in Above(t, k) \/ k \in Above(t, m)}
<1>2. ASSUME NEW j \in Nodes, t.up[j] \in P PROVE j \in P
  <2>1. \A m, k \in Above(t, t.up[j]) : m \in Above(t, k) \/ k \in Above(t, m)
    BY <1>1, <1>2
  <2>2. Above(t, j) = {j} \cup Above(t, t.up[j])
    BY <1>1
  <2>3. ASSUME NEW m \in Above(t, j), NEW k \in Above(t, j) PROVE m \in Above(t, k) \/ k \in Above(t, m)
    BY <2>1, <2>2, <2>3
  <2> QED
    BY <2>3
<1>3. 0 \in P /\ Upward(t, Nodes)
  BY DEF Upward
<1> HIDE DEF P
<1>4. Nodes \subseteq P
  BY <1>2, <1>3, LineInduction
<1> QED
  BY <1>1, <1>4 DEF P

\* Only formal parameters are above a formal parameter.
LEMMA HiddenAbove ==
  ASSUME NEW t, Usable(t), NEW n \in LiveNodes(t), t.label[n].id \in Hidden
  PROVE  \A m \in Above(t, n) : t.label[m].id \in Hidden
<1>1. /\ t \in TreesOf(GoodLabels) /\ Healthy(t) /\ Rooting(t) /\ t.up \in [Nodes -> Nodes \cup {0}]
      /\ 0 \notin Nodes /\ LiveNodes(t) \subseteq Nodes
      /\ \A m \in LiveNodes(t) : t.label[m] # NoLabel
  BY UsableIs DEF Usable
<1>2. Above(t, 0) = {} /\ \A m \in Nodes : Above(t, m) = {m} \cup Above(t, t.up[m])
  BY <1>1, AboveIs
<1>3. \A m \in LiveNodes(t) : t.up[m] \in LiveNodes(t) \cup {0}
  BY <1>1, LiveLine
<1> DEFINE P == {0} \cup {j \in Nodes : j \in LiveNodes(t) /\ t.label[j].id \in Hidden =>
                                          \A m \in Above(t, j) : t.label[m].id \in Hidden}
<1>4. ASSUME NEW j \in Nodes, t.up[j] \in P PROVE j \in P
  <2>1. SUFFICES ASSUME j \in LiveNodes(t), t.label[j].id \in Hidden
                 PROVE  \A m \in Above(t, j) : t.label[m].id \in Hidden
    OBVIOUS
  <2>2. Above(t, j) = {j} \cup Above(t, t.up[j])
    BY <1>2
  <2>3. CASE t.up[j] = 0
    BY <1>2, <2>1, <2>2, <2>3
  <2>4. CASE t.up[j] # 0
    <3>1. t.label[t.up[j]].id \in Hidden
      BY <1>1, <2>1, <2>4 DEF Usable, FormalsFirst
    <3>2. t.up[j] \in LiveNodes(t)
      BY <1>3, <2>1, <2>4
    <3> QED
      BY <1>1, <1>4, <2>1, <2>2, <3>1, <3>2
  <2> QED
    BY <2>3, <2>4
<1>5. 0 \in P /\ Upward(t, Nodes)
  BY <1>1 DEF Upward
<1> HIDE DEF P
<1>6. Nodes \subseteq P
  BY <1>1, <1>4, <1>5, LineInduction
<1>7. n \in Nodes
  BY <1>1
<1> QED
  BY <1>1, <1>6, <1>7 DEF P

\* A property of this id is about to be added, in the place of node over if
\* that is not 0.
Leaving(id, over) == IF over = 0 THEN {} ELSE {id}
Over(t, s, L, M, id, over) ==
  /\ over = 0 => M[id] = 0
  /\ over # 0 => /\ over \in LiveNodes(t) /\ t.label[over].id = id /\ Fresh(t, s, M, {id}, t.label[over])
                 /\ id \notin Hidden \/ s.hashed => M[id] = 0
                 /\ \A m \in L : t.label[m].id = id => over \in L /\ (m = over \/ id \in Hidden)
Named(t, s, M, H, label) ==
  /\ label \in PropLabels /\ (label.attr = "formal" <=> label.id \in Hidden)
  /\ Shared(label) \/ label.slot = NoSlot \/ Fresh(t, s, M, H, label)
  /\ label.id \in Hidden => \A id \in AllIds : M[id] # 0 => id \in Hidden
Open(t, s, label, over) ==
  /\ Usable(t) /\ Fits(t, s, Leaving(label.id, over))
  /\ Over(t, s, Above(t, s.lastProp), MapOf(t, s), label.id, over)
  /\ Named(t, s, MapOf(t, s), Leaving(label.id, over), label)

LEMMA OpenIs ==
  ASSUME NEW t, NEW s, NEW label, NEW over, Open(t, s, label, over)
  PROVE  /\ Usable(t) /\ Grows(t) /\ Fits(t, s, Leaving(label.id, over))
         /\ Over(t, s, Above(t, s.lastProp), MapOf(t, s), label.id, over)
         /\ Named(t, s, MapOf(t, s), Leaving(label.id, over), label)
         /\ s \in Scopes /\ s.lastProp \in LiveNodes(t) \cup {0} /\ label.id \in AllIds
         /\ Holds(t, s, Above(t, s.lastProp), MapOf(t, s), Leaving(label.id, over))
         /\ label.id \in Hidden /\ s.lastProp # 0 => t.label[s.lastProp].id \in Hidden
<1>1. /\ Usable(t) /\ Fits(t, s, Leaving(label.id, over))
      /\ Over(t, s, Above(t, s.lastProp), MapOf(t, s), label.id, over)
      /\ Named(t, s, MapOf(t, s), Leaving(label.id, over), label)
  BY DEF Open
<1>2. Grows(t) /\ s \in Scopes /\ s.lastProp \in LiveNodes(t) \cup {0}
      /\ Holds(t, s, Above(t, s.lastProp), MapOf(t, s), Leaving(label.id, over))
  BY <1>1 DEF Usable, Fits
<1>3. label.id \in AllIds
  BY <1>1 DEF Named, PropLabels
<1>4. ASSUME label.id \in Hidden, s.lastProp # 0 PROVE t.label[s.lastProp].id \in Hidden
  <2>1. s.lastProp \in LiveNodes(t) /\ s.lastProp \in Nodes /\ t.label[s.lastProp].id \in AllIds
    BY <1>2, <1>4, UsableIs
  <2>2. s.lastProp \in Above(t, s.lastProp)
    BY <1>2, <2>1, UsableIs, LineIs
  <2>3. MapOf(t, s)[t.label[s.lastProp].id] # 0 \/ t.label[s.lastProp].id \in Leaving(label.id, over) \cap Hidden
    BY <1>2, <2>2 DEF Holds, Covered
  <2> QED
    BY <1>1, <1>4, <2>1, <2>3 DEF Named
<1> QED
  BY <1>1, <1>2, <1>3, <1>4

LEMMA OpenGrown ==
  ASSUME NEW t, NEW u, Usable(u), Grew(t, u), NEW s, NEW label, NEW over, Open(t, s, label, over)
  PROVE  Open(u, s, label, over)
<1> DEFINE H == Leaving(label.id, over)
           L == Above(t, s.lastProp)
           M == MapOf(t, s)
<1>1. /\ Grows(t) /\ Fits(t, s, H) /\ Over(t, s, L, M, label.id, over) /\ Named(t, s, M, H, label)
      /\ s.lastProp \in LiveNodes(t) \cup {0} /\ Holds(t, s, L, M, H)
  BY OpenIs
<1>2. Grows(u)
  BY DEF Usable
<1>3. Fits(u, s, H) /\ MapOf(u, s) = M /\ Above(u, s.lastProp) = L
  BY <1>1, <1>2, FitsGrown
<1>4. \A m \in L : u.label[m] = t.label[m]
  BY <1>1, <1>2, GrewLine
<1> HIDE DEF L, M
<1>5. \A jd \in AllIds : M[jd] # 0 => u.label[M[jd]] = t.label[M[jd]]
  BY <1>1, <1>4 DEF Holds, Mapping
<1>6. \A K, l : Fresh(t, s, M, K, l) => Fresh(u, s, M, K, l)
  BY <1>5 DEF Fresh, Owns
<1>7. Named(u, s, M, H, label)
  BY <1>1, <1>6 DEF Named
<1>8. over # 0 => over \in LiveNodes(u) /\ u.label[over] = t.label[over]
  BY <1>1 DEF Over, Grew
<1>9. Over(u, s, L, M, label.id, over)
  BY <1>1, <1>4, <1>6, <1>8 DEF Over
<1> QED
  BY <1>3, <1>7, <1>9 DEF Open, L, M

\* The property that was to be overwritten is given up.
LEMMA GivenUp ==
  ASSUME NEW t, NEW s, NEW id \in AllIds, Fits(t, s, {id}), MapOf(t, s)[id] = 0,
         id \in Hidden => \A m \in Above(t, s.lastProp) : t.label[m].id # id
  PROVE  Fits(t, s, {})
<1> DEFINE L == Above(t, s.lastProp)
           M == MapOf(t, s)
<1>1. /\ s \in Scopes /\ s.lastProp \in LiveNodes(t) \cup {0} /\ (s.middle => s.hashed)
      /\ Mapping(t, L, M) /\ Unique(t, L) /\ Covered(t, s, L, M, {id}) /\ Counted(s, M, {id}) /\ Slotted(t, s, M, {id})
  BY DEF Fits, Holds
<1>2. M[id] = 0
  OBVIOUS
<1>3. id \in Hidden => \A m \in L : t.label[m].id # id
  OBVIOUS
<1> HIDE DEF L, M
<1>4. Covered(t, s, L, M, {})
  BY <1>1, <1>3 DEF Covered
<1>5. BoundIds(M, {}) = BoundIds(M, {id})
  BY <1>2 DEF BoundIds
<1>6. Counted(s, M, {})
  BY <1>1, <1>5 DEF Counted
<1>7. ~Owns(t, M, id)
  BY <1>2 DEF Owns
<1>8. Slotted(t, s, M, {})
  BY <1>1, <1>7 DEF Slotted
<1> QED
  BY <1>1, <1>4, <1>6, <1>8 DEF Fits, Holds, L, M

\* A scope whose line could only be forked half-way.
Ripped(t, s) == s \in Scopes /\ Torn(t, s)

\* A call has ended in the tree and the scope of r.
Ends(t, r) == Usable(r.tree) /\ Grew(t, r.tree) /\ (Fits(r.tree, r.scope, {}) \/ Ripped(r.tree, r.scope))

LEMMA SameGrew ==
  ASSUME NEW t
  PROVE  /\ Grew(t, t)
         /\ \A u, w : Grew(t, u) /\ Grew(u, w) => Grew(t, w)
  BY DEF Grew

LEMMA BackIs ==
  ASSUME NEW t, NEW s \in Scopes, NEW id, NEW n
  PROVE  /\ Back(t, s, id, n).tree = t /\ Back(t, s, id, n).scope = Entered(s, id, n, s.lastProp)
         /\ BackLast(t, s, id, n).tree = t /\ BackLast(t, s, id, n).scope = Entered(s, id, n, n)
<1>1. Back(t, s, id, n).tree = t /\ BackLast(t, s, id, n).tree = t
  BY DEF Back, BackLast
<1>2. [Store(s, id, n) EXCEPT !.count = @ + 1] = Entered(s, id, n, s.lastProp)
  <2>1. CASE s.hashed
    BY <2>1 DEF Store, Entered, Scopes
  <2>2. CASE ~s.hashed
    BY <2>2 DEF Store, Entered, Scopes
  <2> QED
    BY <2>1, <2>2
<1>3. [Store([s EXCEPT !.lastProp = n], id, n) EXCEPT !.count = @ + 1] = Entered(s, id, n, n)
  <2>1. CASE s.hashed
    BY <2>1 DEF Store, Entered, Scopes
  <2>2. CASE ~s.hashed
    BY <2>2 DEF Store, Entered, Scopes
  <2> QED
    BY <2>1, <2>2
<1> QED
  BY <1>1, <1>2, <1>3 DEF Back, BackLast

\* The property that was to be overwritten comes back as n.
LEMMA ComesBack ==
  ASSUME NEW t, NEW s, NEW label, NEW over, Open(t, s, label, over), over # 0,
         NEW n \in LiveNodes(t), t.label[n] = t.label[over], NEW last,
         \/ last = s.lastProp /\ n = over /\ n \in Above(t, s.lastProp)
         \/ last = n /\ t.up[n] = s.lastProp /\ over \notin Above(t, s.lastProp)
  PROVE  Fits(t, Entered(s, label.id, n, last), {})
<1> DEFINE L == Above(t, s.lastProp)
           M == MapOf(t, s)
           id == label.id
<1>1. /\ Grows(t) /\ Fits(t, s, Leaving(id, over)) /\ Over(t, s, L, M, id, over)
      /\ id \in AllIds /\ s.lastProp \in LiveNodes(t) \cup {0}
  BY OpenIs
<1>2. Leaving(id, over) = {id} /\ t.label[n].id = id
  BY <1>1 DEF Leaving, Over
<1>3. Fresh(t, s, M, {id}, t.label[n])
  BY <1>1 DEF Over
<1>4. \A m \in L : t.label[m].id = id => over \in L /\ (m = over \/ id \in Hidden)
  BY <1>1 DEF Over
<1>5. \A m \in L : t.label[m].id = id => m = n \/ id \in Hidden
  BY <1>4
<1>6. Fits(t, Entered(s, t.label[n].id, n, last), {})
  BY <1>1, <1>2, <1>3, <1>5, EntryFits
<1> QED
  BY <1>2, <1>6

LEMMA Overwriting ==
  ASSUME NEW t, NEW s, NEW label, NEW over, Open(t, s, label, over)
  PROVE  Ends(t, FailOverwrite(t, s, over))
<1> DEFINE L == Above(t, s.lastProp)
           M == MapOf(t, s)
           id == label.id
           r == FailOverwrite(t, s, over)
<1>1. /\ Usable(t) /\ Grows(t) /\ Fits(t, s, Leaving(id, over)) /\ Over(t, s, L, M, id, over)
      /\ id \in AllIds /\ s.lastProp \in LiveNodes(t) \cup {0} /\ s \in Scopes
      /\ (id \in Hidden /\ s.lastProp # 0 => t.label[s.lastProp].id \in Hidden)
  BY OpenIs
<1>2. CASE over = 0
  <2>1. r.tree = t /\ r.scope = s /\ Leaving(id, over) = {}
    BY <1>2 DEF FailOverwrite, Leaving
  <2> QED
    BY <1>1, <2>1, SameGrew DEF Ends
<1>3. CASE over # 0
  <2>1. over \in LiveNodes(t) /\ t.label[over].id = id /\ Leaving(id, over) = {id}
    BY <1>1, <1>3 DEF Over, Leaving
  <2>2. CASE over \in L
    <3>1. r = Back(t, s, id, over)
      BY <1>3, <2>1, <2>2 DEF FailOverwrite
    <3>2. r.tree = t /\ r.scope = Entered(s, id, over, s.lastProp)
      BY <1>1, <3>1, BackIs
    <3>3. Fits(t, Entered(s, id, over, s.lastProp), {})
      BY <1>3, <2>1, <2>2, ComesBack
    <3> QED
      BY <1>1, <3>2, <3>3, SameGrew DEF Ends
  <2>3. CASE over \notin L /\ t.up[over] = s.lastProp
    <3>1. r = BackLast(t, s, id, over)
      BY <1>3, <2>1, <2>3 DEF FailOverwrite
    <3>2. r.tree = t /\ r.scope = Entered(s, id, over, over)
      BY <1>1, <3>1, BackIs
    <3>3. Fits(t, Entered(s, id, over, over), {})
      BY <1>3, <2>1, <2>3, ComesBack
    <3> QED
      BY <1>1, <3>2, <3>3, SameGrew DEF Ends
  <2>4. CASE over \notin L /\ t.up[over] # s.lastProp
    <3> DEFINE g == GetPropertyTreeChild(t, s.lastProp, t.label[over])
    <3>1. r = BackForked(s, id, g)
      BY <1>3, <2>1, <2>4 DEF FailOverwrite
    <3>2. t.label[over] \in GoodLabels
      BY <1>1, <2>1, UsableIs
    <3>3. /\ Usable(g.tree) /\ Grew(t, g.tree)
          /\ \/ g.node = 0
             \/ g.node \in LiveNodes(g.tree) /\ g.tree.label[g.node] = t.label[over] /\ g.tree.up[g.node] = s.lastProp
      <4>1. t.label[over].id \in Hidden /\ s.lastProp # 0 => t.label[s.lastProp].id \in Hidden
        BY <1>1, <2>1
      <4> HIDE DEF g, L, M, id, r
      <4>2. Childed(t, GetPropertyTreeChild(t, s.lastProp, t.label[over]), s.lastProp, t.label[over])
        BY <1>1, <3>2, <4>1, ChildFits
      <4> QED
        BY <4>2 DEF Childed, g
    <3> HIDE DEF g
    <3>4. Grows(g.tree) /\ Above(g.tree, s.lastProp) = L
      BY <1>1, <3>3, GrewLine DEF Usable
    <3>5. CASE g.node = 0
      <4>1. r.tree = g.tree /\ r.scope = s
        BY <3>1, <3>5 DEF BackForked
      <4>2. \A m \in L : t.label[m].id # id
        BY <1>1, <1>3, <2>4 DEF Over
      <4>3. M[id] = 0
        <5>1. id \notin Hidden => M[id] = 0
          BY <1>1, <1>3 DEF Over
        <5>2. Mapping(t, L, M)
          BY <1>1 DEF Fits, Holds
        <5> QED
          BY <1>1, <4>2, <5>2 DEF Mapping
      <4>4. Fits(t, s, {})
        BY <1>1, <2>1, <4>2, <4>3, GivenUp
      <4>5. Fits(g.tree, s, {})
        BY <1>1, <3>3, <3>4, <4>4, FitsGrown
      <4> QED
        BY <3>3, <4>1, <4>5 DEF Ends
    <3>6. CASE g.node # 0
      <4>1. r = BackLast(g.tree, s, id, g.node)
        BY <3>1, <3>6 DEF BackForked
      <4>2. r.tree = g.tree /\ r.scope = Entered(s, id, g.node, g.node)
        BY <1>1, <4>1, BackIs
      <4>3. Open(g.tree, s, label, over) /\ g.tree.label[over] = t.label[over]
        BY <2>1, <3>3, OpenGrown DEF Grew
      <4>4. g.node \in LiveNodes(g.tree) /\ g.tree.label[g.node] = t.label[over] /\ g.tree.up[g.node] = s.lastProp
        BY <3>3, <3>6
      <4>5. Fits(g.tree, Entered(s, id, g.node, g.node), {})
        BY <1>3, <2>4, <3>4, <4>3, <4>4, ComesBack
      <4> QED
        BY <3>3, <4>2, <4>5 DEF Ends
    <3> QED
      BY <3>5, <3>6
  <2> QED
    BY <2>2, <2>3, <2>4
<1> QED
  BY <1>2, <1>3

\* An id that a torn scope maps to a node that is not on its line.
Astray(t, s, id) ==
  /\ s.hashed /\ s.table[id] \in LiveNodes(t) /\ t.label[s.table[id]].id = id
  /\ s.table[id] \notin Above(t, s.lastProp)

LEMMA AstrayTorn ==
  ASSUME NEW t, Grows(t), NEW s \in Scopes, NEW id \in AllIds, Astray(t, s, id)
  PROVE  Ripped(t, s)
<1>1. s.table[id] \in Range(s.table)
  BY DEF Scopes, Range
<1>2. s.table[id] # 0
  BY UsableIs DEF Astray
<1> QED
  BY <1>1, <1>2 DEF Astray, Ripped, Torn

LEMMA EntersAstray ==
  ASSUME NEW t, Grows(t), NEW s \in Scopes, NEW id \in AllIds, Astray(t, s, id),
         NEW n \in LiveNodes(t), t.label[n].id \in AllIds, t.label[n].id # id, NEW last,
         last = s.lastProp \/ (last = n /\ t.up[n] = s.lastProp)
  PROVE  Ripped(t, Entered(s, t.label[n].id, n, last))
<1> DEFINE jd == t.label[n].id
           u == Entered(s, jd, n, last)
<1>1. n \in Nodes /\ last \in Nodes \cup {0} /\ t.up \in [Nodes -> Nodes \cup {0}] /\ Rooting(t)
  BY UsableIs DEF Scopes
<1>2. EntryOf(s, Entered(s, jd, n, last), jd, n, last)
  BY <1>1, EnteredIs
<1>3. u \in Scopes /\ u.lastProp = last /\ u.hashed = s.hashed /\ u.table[id] = s.table[id]
  BY <1>2 DEF EntryOf, Astray
<1> HIDE DEF u
<1>4. Above(t, last) \subseteq Above(t, s.lastProp) \cup {n}
  BY <1>1, AboveIs
<1>5. s.table[id] \notin Above(t, last)
  BY <1>4 DEF Astray
<1>6. Astray(t, u, id)
  BY <1>3, <1>5 DEF Astray
<1>7. Ripped(t, u)
  BY <1>3, <1>6, AstrayTorn
<1> QED
  BY <1>7 DEF u

LEMMA AstrayGrown ==
  ASSUME NEW t, Grows(t), NEW u, Grows(u), Grew(t, u), NEW s \in Scopes, NEW id,
         s.lastProp \in LiveNodes(t) \cup {0}, Astray(t, s, id)
  PROVE  Astray(u, s, id)
<1>1. Above(u, s.lastProp) = Above(t, s.lastProp)
  BY GrewLine
<1> QED
  BY <1>1 DEF Astray, Grew

Wrecks(t, r) == Usable(r.tree) /\ Grew(t, r.tree) /\ Ripped(r.tree, r.scope)

LEMMA OverwritingAstray ==
  ASSUME NEW t, Usable(t), NEW s \in Scopes, s.lastProp \in LiveNodes(t) \cup {0}, NEW id \in AllIds,
         Astray(t, s, id), NEW over,
         over # 0 => over \in LiveNodes(t) /\ t.label[over].id # id,
         over # 0 /\ t.label[over].id \in Hidden /\ s.lastProp # 0 => t.label[s.lastProp].id \in Hidden
  PROVE  Wrecks(t, FailOverwrite(t, s, over))
<1> DEFINE L == Above(t, s.lastProp)
           r == FailOverwrite(t, s, over)
<1>1. Grows(t)
  BY DEF Usable
<1>2. CASE over = 0
  <2>1. r.tree = t /\ r.scope = s
    BY <1>2 DEF FailOverwrite
  <2>2. Ripped(t, s)
    BY <1>1, AstrayTorn
  <2> QED
    BY <1>1, <2>1, <2>2, SameGrew DEF Wrecks
<1>3. CASE over # 0
  <2>1. over \in LiveNodes(t) /\ t.label[over].id # id /\ t.label[over].id \in AllIds /\ t.label[over] \in GoodLabels
    BY <1>1, <1>3, UsableIs
  <2>2. CASE over \in L
    <3>1. r = Back(t, s, t.label[over].id, over)
      BY <1>3, <2>2 DEF FailOverwrite
    <3>2. r.tree = t /\ r.scope = Entered(s, t.label[over].id, over, s.lastProp)
      BY <3>1, BackIs
    <3>3. Ripped(t, Entered(s, t.label[over].id, over, s.lastProp))
      BY <1>1, <2>1, EntersAstray
    <3> QED
      BY <1>1, <3>2, <3>3, SameGrew DEF Wrecks
  <2>3. CASE over \notin L /\ t.up[over] = s.lastProp
    <3>1. r = BackLast(t, s, t.label[over].id, over)
      BY <1>3, <2>3 DEF FailOverwrite
    <3>2. r.tree = t /\ r.scope = Entered(s, t.label[over].id, over, over)
      BY <3>1, BackIs
    <3>3. Ripped(t, Entered(s, t.label[over].id, over, over))
      BY <1>1, <2>1, <2>3, EntersAstray
    <3> QED
      BY <1>1, <3>2, <3>3, SameGrew DEF Wrecks
  <2>4. CASE over \notin L /\ t.up[over] # s.lastProp
    <3> DEFINE g == GetPropertyTreeChild(t, s.lastProp, t.label[over])
               jd == t.label[over].id
    <3>1. r = BackForked(s, jd, g)
      BY <1>3, <2>4 DEF FailOverwrite
    <3>2. /\ Usable(g.tree) /\ Grew(t, g.tree)
          /\ \/ g.node = 0
             \/ g.node \in LiveNodes(g.tree) /\ g.tree.label[g.node] = t.label[over] /\ g.tree.up[g.node] = s.lastProp
      <4>1. t.label[over].id \in Hidden /\ s.lastProp # 0 => t.label[s.lastProp].id \in Hidden
        BY <1>3
      <4> HIDE DEF g, L, r
      <4>2. Childed(t, GetPropertyTreeChild(t, s.lastProp, t.label[over]), s.lastProp, t.label[over])
        BY <2>1, <4>1, ChildFits
      <4> QED
        BY <4>2 DEF Childed, g
    <3> HIDE DEF g
    <3>3. Grows(g.tree) /\ Astray(g.tree, s, id)
      BY <1>1, <3>2, AstrayGrown DEF Usable
    <3>4. CASE g.node = 0
      <4>1. r.tree = g.tree /\ r.scope = s
        BY <3>1, <3>4 DEF BackForked
      <4>2. Ripped(g.tree, s)
        BY <3>3, AstrayTorn
      <4> QED
        BY <3>2, <4>1, <4>2 DEF Wrecks
    <3>5. CASE g.node # 0
      <4>1. r = BackLast(g.tree, s, jd, g.node)
        BY <3>1, <3>5 DEF BackForked
      <4>2. r.tree = g.tree /\ r.scope = Entered(s, jd, g.node, g.node)
        BY <4>1, BackIs
      <4>3. g.node \in LiveNodes(g.tree) /\ g.tree.label[g.node].id = jd /\ g.tree.up[g.node] = s.lastProp
        BY <3>2, <3>5
      <4>4. jd \in AllIds /\ jd # id
        BY <2>1
      <4> HIDE DEF jd
      <4>5. Ripped(g.tree, Entered(s, g.tree.label[g.node].id, g.node, g.node))
        BY <3>3, <4>3, <4>4, EntersAstray
      <4> QED
        BY <3>2, <4>2, <4>3, <4>5 DEF Wrecks
    <3> QED
      BY <3>4, <3>5
  <2> QED
    BY <2>2, <2>3, <2>4
<1> QED
  BY <1>2, <1>3

\* A scope has got another slot.
LEMMA SlotTaken ==
  ASSUME NEW t, NEW s, NEW label, NEW over, Open(t, s, label, over), NEW u, u = [s EXCEPT !.freeslot = @ + 1]
  PROVE  /\ Open(t, u, label, over) /\ MapOf(t, u) = MapOf(t, s) /\ u.freeslot = s.freeslot + 1
         /\ u.middle = s.middle
<1> DEFINE H == Leaving(label.id, over)
           L == Above(t, s.lastProp)
           M == MapOf(t, s)
<1>1. /\ Usable(t) /\ Fits(t, s, H) /\ Over(t, s, L, M, label.id, over) /\ Named(t, s, M, H, label)
      /\ s \in Scopes /\ Holds(t, s, L, M, H) /\ s.lastProp \in LiveNodes(t) \cup {0} /\ (s.middle => s.hashed)
  BY OpenIs DEF Fits
<1> DEFINE f == s.freeslot + 1
<1>2. s.freeslot \in Nat /\ f \in Nat
  BY <1>1 DEF Scopes
<1>3. u = [s EXCEPT !.freeslot = f]
  OBVIOUS
<1> HIDE DEF f
<1>4. u \in Scopes
  BY <1>1, <1>2, <1>3 DEF Scopes
<1>5. u.lastProp = s.lastProp /\ u.table = s.table /\ u.count = s.count /\ u.freeslot = f
  BY <1>1, <1>3 DEF Scopes
<1>6. u.hashed = s.hashed
  BY <1>1, <1>3 DEF Scopes
<1>7. u.middle = s.middle
  BY <1>1, <1>3 DEF Scopes
<1>8. MapOf(t, u) = M
  BY <1>5, <1>6 DEF MapOf, SearchScope
<1>9. \A n \in Nat : n < s.freeslot => n < u.freeslot
  BY <1>2, <1>5 DEF f
<1> HIDE DEF L, M, H
<1>10. Holds(t, u, L, M, H)
  <2>1. Covered(t, u, L, M, H) /\ Counted(u, M, H)
    BY <1>1, <1>5, <1>7 DEF Holds, Covered, Counted
  <2>2. Slotted(t, u, M, H)
    BY <1>1, <1>9 DEF Holds, Slotted
  <2> QED
    BY <1>1, <2>1, <2>2 DEF Holds
<1>11. Fits(t, u, H)
  BY <1>1, <1>4, <1>5, <1>6, <1>7, <1>8, <1>10 DEF Fits, L
<1>12. \A K, l : Fresh(t, s, M, K, l) => Fresh(t, u, M, K, l)
  BY <1>9 DEF Fresh
<1>13. Over(t, u, L, M, label.id, over) /\ Named(t, u, M, H, label)
  BY <1>1, <1>6, <1>12 DEF Over, Named
<1> QED
  BY <1>1, <1>5, <1>7, <1>8, <1>11, <1>13 DEF Open, L, M, H, f

\* A label with another slot.
LEMMA OpenWith ==
  ASSUME NEW t, NEW s, NEW label, NEW over, Open(t, s, label, over), NEW x \in GoodLabels, x.id = label.id,
         Fresh(t, s, MapOf(t, s), Leaving(label.id, over), x)
  PROVE  Open(t, s, x, over)
<1>1. x \in PropLabels /\ (x.attr = "formal" <=> x.id \in Hidden)
  BY LabelIs
<1> QED
  BY <1>1 DEF Open, Named

LEMMA LabelWith ==
  ASSUME NEW label \in PropLabels, label.attr = "formal" <=> label.id \in Hidden, NEW k \in Nat \cup {NoSlot},
         Shared(label) => k = NoSlot
  PROVE  /\ [label EXCEPT !.slot = k] \in GoodLabels /\ [label EXCEPT !.slot = k].id = label.id
         /\ [label EXCEPT !.slot = k].slot = k /\ (Shared([label EXCEPT !.slot = k]) <=> Shared(label))
<1> DEFINE x == [label EXCEPT !.slot = k]
<1>1. x \in PropLabels
  BY DEF PropLabels
<1>2. x.id = label.id /\ x.attr = label.attr /\ x.slot = k
  BY DEF PropLabels
<1> HIDE DEF x
<1>3. x \in GoodLabels /\ (Shared(x) <=> Shared(label))
  BY <1>1, <1>2 DEF GoodLabels, Shared
<1> QED
  BY <1>2, <1>3 DEF x

Alloced(t, s, over, x) ==
  /\ Open(t, x.scope, x.label, over) /\ x.label \in GoodLabels /\ x.scope.middle = s.middle
  /\ Fresh(t, x.scope, MapOf(t, x.scope), Leaving(x.label.id, over), x.label)

LEMMA AllocIs ==
  ASSUME NEW t, NEW s, NEW label, NEW over, Open(t, s, label, over)
  PROVE  /\ AllocSlot(t, s, label).ok => Alloced(t, s, over, AllocSlot(t, s, label))
         /\ ~AllocSlot(t, s, label).ok => AllocSlot(t, s, label).scope = s
<1> DEFINE H == Leaving(label.id, over)
           M == MapOf(t, s)
           x == AllocSlot(t, s, label)
<1>1. /\ Named(t, s, M, H, label) /\ s \in Scopes /\ Holds(t, s, Above(t, s.lastProp), M, H)
  BY OpenIs
<1>2. /\ label \in PropLabels /\ (label.attr = "formal" <=> label.id \in Hidden)
      /\ Shared(label) \/ label.slot = NoSlot \/ Fresh(t, s, M, H, label)
  BY <1>1 DEF Named
<1>3. NoSlot \in Nat \cup {NoSlot} /\ s.freeslot \in Nat /\ s.freeslot # NoSlot
  BY <1>1 DEF Scopes, NoSlot
<1>4. CASE Shared(label)
  <2> DEFINE l == [label EXCEPT !.slot = NoSlot]
  <2>1. x.ok /\ x.scope = s /\ x.label = l
    BY <1>4 DEF AllocSlot
  <2>2. l \in GoodLabels /\ l.id = label.id /\ Shared(l)
    BY <1>2, <1>3, <1>4, LabelWith
  <2> HIDE DEF l, x
  <2>3. Fresh(t, s, M, H, l)
    BY <2>2 DEF Fresh
  <2>4. Open(t, s, l, over)
    BY <2>2, <2>3, OpenWith
  <2>5. Alloced(t, s, over, x)
    BY <2>1, <2>2, <2>3, <2>4 DEF Alloced
  <2> QED
    BY <2>1, <2>5 DEF x
<1>5. CASE ~Shared(label) /\ label.slot # NoSlot
  <2>1. x.ok /\ x.scope = s /\ x.label = label
    BY <1>5 DEF AllocSlot
  <2>2. label \in GoodLabels /\ Fresh(t, s, M, H, label)
    BY <1>2, <1>5 DEF GoodLabels
  <2> HIDE DEF x
  <2>3. Alloced(t, s, over, x)
    BY <2>1, <2>2 DEF Alloced
  <2> QED
    BY <2>1, <2>3 DEF x
<1>6. CASE ~Shared(label) /\ label.slot = NoSlot /\ t.fault = "slot"
  BY <1>6 DEF AllocSlot
<1>7. CASE ~Shared(label) /\ label.slot = NoSlot /\ t.fault # "slot"
  <2> DEFINE l == [label EXCEPT !.slot = s.freeslot]
             u == [s EXCEPT !.freeslot = @ + 1]
  <2>1. x.ok /\ x.scope = u /\ x.label = l
    BY <1>7 DEF AllocSlot
  <2>2. l \in GoodLabels /\ l.id = label.id /\ l.slot = s.freeslot
    BY <1>2, <1>3, <1>7, LabelWith
  <2>3. Open(t, u, label, over) /\ MapOf(t, u) = M /\ u.freeslot = s.freeslot + 1 /\ u.middle = s.middle
    BY SlotTaken
  <2> HIDE DEF l, u, x
  <2>4. Fresh(t, u, M, H, l)
    <3>1. \A jd \in AllIds \ H : Owns(t, M, jd) => t.label[M[jd]].slot \in Nat /\ t.label[M[jd]].slot < s.freeslot
      BY <1>1 DEF Holds, Slotted
    <3>2. \A k \in Nat : k < s.freeslot => k # s.freeslot
      BY <1>3
    <3>3. s.freeslot < u.freeslot
      BY <1>3, <2>3
    <3> QED
      BY <1>3, <2>2, <3>1, <3>2, <3>3 DEF Fresh
  <2>5. Open(t, u, l, over)
    BY <2>2, <2>3, <2>4, OpenWith
  <2>6. Alloced(t, s, over, x)
    BY <2>1, <2>2, <2>3, <2>4, <2>5 DEF Alloced
  <2> QED
    BY <2>1, <2>6 DEF x
<1> QED
  BY <1>4, <1>5, <1>6, <1>7

LEMMA MayMakeTable ==
  ASSUME NEW t, Grows(t), NEW s, Fits(t, s, {})
  PROVE  Fits(t, MakeTable(t, s), {})
<1>1. CASE ~s.hashed
  <2>1. Tabled(t, s, CreateScopeTable(t, s), {})
    BY <1>1, TableFits
  <2> QED
    BY <2>1 DEF MakeTable, Tabled
<1>2. CASE s.hashed
  BY <1>2 DEF MakeTable
<1> QED
  BY <1>1, <1>2

\* A property is added below the last one.
LEMMA NodeAppended ==
  ASSUME NEW t, NEW s, NEW label \in GoodLabels, NEW over, Open(t, s, label, over), ~s.middle,
         Fresh(t, s, MapOf(t, s), Leaving(label.id, over), label)
  PROVE  Ends(t, Appended(GetPropertyTreeChild(t, s.lastProp, label), s, label.id, over))
<1> DEFINE L == Above(t, s.lastProp)
           M == MapOf(t, s)
           id == label.id
           H == Leaving(id, over)
           g == GetPropertyTreeChild(t, s.lastProp, label)
           r == Appended(g, s, id, over)
<1>1. /\ Usable(t) /\ Grows(t) /\ Fits(t, s, H) /\ Over(t, s, L, M, id, over)
      /\ id \in AllIds /\ s.lastProp \in LiveNodes(t) \cup {0} /\ s \in Scopes /\ Holds(t, s, L, M, H)
      /\ (id \in Hidden /\ s.lastProp # 0 => t.label[s.lastProp].id \in Hidden)
  BY OpenIs
<1>2. /\ Usable(g.tree) /\ Grew(t, g.tree)
      /\ \/ g.node = 0
         \/ g.node \in LiveNodes(g.tree) /\ g.tree.label[g.node] = label /\ g.tree.up[g.node] = s.lastProp
  <2> HIDE DEF r, L, M, H, g
  <2>1. Childed(t, GetPropertyTreeChild(t, s.lastProp, label), s.lastProp, label)
    BY <1>1, ChildFits
  <2> QED
    BY <2>1 DEF Childed, g
<1> HIDE DEF g
<1>3. Grows(g.tree) /\ Open(g.tree, s, label, over)
  BY <1>2, OpenGrown DEF Usable
<1>4. CASE g.node = 0
  <2>1. r = FailOverwrite(g.tree, s, over)
    BY <1>4 DEF Appended
  <2>2. Ends(g.tree, FailOverwrite(g.tree, s, over))
    BY <1>3, Overwriting
  <2> HIDE DEF r
  <2>3. Ends(t, r)
    BY <1>2, <2>1, <2>2, SameGrew DEF Ends
  <2> QED
    BY <2>3 DEF r, g
<1>5. CASE g.node # 0
  <2> DEFINE n == g.node
             u == Entered(s, id, n, n)
  <2>1. r.tree = g.tree /\ r.scope = MakeTable(g.tree, u)
    BY <1>5 DEF Appended, Entered
  <2>2. n \in LiveNodes(g.tree) /\ g.tree.label[n] = label /\ g.tree.up[n] = s.lastProp
    BY <1>2, <1>5
  <2>3. /\ Fits(g.tree, s, H) /\ MapOf(g.tree, s) = M /\ Above(g.tree, s.lastProp) = L
    BY <1>1, <1>2, <1>3, FitsGrown
  <2>4. \A m \in L : g.tree.label[m] = t.label[m]
    BY <1>1, <1>2, <1>3, GrewLine
  <2>5. \A m \in L : t.label[m].id = id => id \in Hidden
    <3>1. SUFFICES ASSUME NEW m \in L, t.label[m].id = id, id \notin Hidden PROVE FALSE
      OBVIOUS
    <3>2. M[id] # 0 \/ id \in H \cap Hidden
      BY <1>1, <3>1 DEF Holds, Covered
    <3>3. M[id] = 0
      BY <1>1, <3>1 DEF Over
    <3> QED
      BY <3>1, <3>2, <3>3
  <2>6. H \subseteq {id} /\ (id \in H \/ M[id] = 0)
    BY <1>1 DEF Leaving, Over
  <2>7. Fresh(g.tree, s, M, H, label)
    <3>1. Fresh(t, s, M, H, label)
      OBVIOUS
    <3> HIDE DEF M, L, H
    <3>2. \A jd \in AllIds : M[jd] # 0 => g.tree.label[M[jd]] = t.label[M[jd]]
      BY <1>1, <2>4 DEF Holds, Mapping
    <3> QED
      BY <3>1, <3>2 DEF Fresh, Owns
  <2> HIDE DEF L, M, H, u, r, n
  <2>8. Fits(g.tree, Entered(s, g.tree.label[n].id, n, n), {})
    <3>1. H \subseteq {g.tree.label[n].id} /\ (g.tree.label[n].id \in H \/ MapOf(g.tree, s)[g.tree.label[n].id] = 0)
      BY <2>2, <2>3, <2>6
    <3>2. \A m \in Above(g.tree, s.lastProp) :
            g.tree.label[m].id = g.tree.label[n].id => m = n \/ g.tree.label[n].id \in Hidden
      BY <2>2, <2>3, <2>4, <2>5
    <3>3. Fresh(g.tree, s, MapOf(g.tree, s), H, g.tree.label[n])
      BY <2>2, <2>3, <2>7
    <3> QED
      BY <1>3, <2>2, <2>3, <3>1, <3>2, <3>3, EntryFits
  <2>9. Fits(g.tree, u, {})
    BY <2>2, <2>8 DEF u
  <2>10. Fits(g.tree, MakeTable(g.tree, u), {})
    BY <1>3, <2>9, MayMakeTable
  <2>11. Ends(t, r)
    BY <1>2, <2>1, <2>10 DEF Ends
  <2> QED
    BY <2>11 DEF r, g
<1> QED
  BY <1>4, <1>5

LEMMA NodeDefined ==
  ASSUME NEW t, NEW s, NEW label, NEW over, Open(t, s, label, over), ~s.middle
  PROVE  Ends(t, DefineNode(t, AllocSlot(t, s, label), over))
<1> DEFINE x == AllocSlot(t, s, label)
<1>1. /\ x.ok => Alloced(t, s, over, x)
      /\ ~x.ok => x.scope = s
  BY AllocIs
<1> HIDE DEF x
<1>2. CASE ~x.ok
  <2>1. DefineNode(t, x, over) = FailOverwrite(t, s, over)
    BY <1>1, <1>2 DEF DefineNode
  <2>2. Ends(t, FailOverwrite(t, s, over))
    BY Overwriting
  <2> QED
    BY <2>1, <2>2 DEF x
<1>3. CASE x.ok
  <2>1. DefineNode(t, x, over) = Appended(GetPropertyTreeChild(t, x.scope.lastProp, x.label), x.scope, x.label.id, over)
    BY <1>3 DEF DefineNode
  <2>2. /\ Open(t, x.scope, x.label, over) /\ x.label \in GoodLabels /\ ~x.scope.middle
        /\ Fresh(t, x.scope, MapOf(t, x.scope), Leaving(x.label.id, over), x.label)
    BY <1>1, <1>3 DEF Alloced
  <2>3. Ends(t, Appended(GetPropertyTreeChild(t, x.scope.lastProp, x.label), x.scope, x.label.id, over))
    BY <2>2, NodeAppended
  <2> QED
    BY <2>1, <2>3 DEF x
<1> QED
  BY <1>2, <1>3

-----------------------------------------------------------------------------
(***************************************************************************)
(* What a line tells of some ids, and what a map is without one of them.   *)
(***************************************************************************)
\* f goes along q and leaves out what has this id.
KeptBy(q, id, f) ==
  /\ f[0] = <<>> /\ Promise!Without(q, id) = f[Len(q)]
  /\ \A k \in 1..Len(q) : f[k] = IF q[k].id = id THEN f[k - 1] ELSE Append(f[k - 1], q[k])

LEMMA WithoutIs ==
  ASSUME NEW S, NEW q \in Seq(S), NEW id
  PROVE  \E f \in [0..Len(q) -> Seq(S)] : KeptBy(q, id, f)
<1> DEFINE N == Len(q)
           D == Seq(S)
           J == [k \in 0..N |-> D]
           g == [x \in D \X (1..N) |-> IF q[x[2]].id = id THEN x[1] ELSE Append(x[1], q[x[2]])]
           Runs(f) == f = [n \in 0..N |-> IF n = 0 THEN <<>> ELSE IF q[n].id = id THEN f[n - 1]
                                            ELSE Append(f[n - 1], q[n])]
           kept == CHOOSE f : Runs(f)
<1>1. N \in Nat /\ \A k \in 1..N : q[k] \in S
  OBVIOUS
<1>2. /\ <<>> \in J[0] /\ g \in [D \X (1..N) -> D] /\ \A k \in 0..N : J[k] = D
      /\ \A k \in 1..N : \A x \in D : g[<<x, k>>] = IF q[k].id = id THEN x ELSE Append(x, q[k])
  BY <1>1
<1>3. \A k \in 1..N : k - 1 \in 0..N
  BY <1>1
<1> HIDE DEF N, D, J, g
<1>4. Keeps(N, D, J, <<>>, g)
  BY <1>1, <1>2, <1>3 DEF Keeps
<1>5. \E f \in [0..N -> D] : RunOf(N, J, <<>>, g, f)
  BY <1>4, LoopRuns
<1>6. PICK f \in [0..N -> D] : RunOf(N, J, <<>>, g, f)
  BY <1>5
<1>7. f[0] = <<>> /\ \A k \in 1..N : f[k] = IF q[k].id = id THEN f[k - 1] ELSE Append(f[k - 1], q[k])
  BY <1>2, <1>3, <1>6 DEF RunOf
<1>8. Runs(f)
  <2>1. \A k \in 0..N : k = 0 \/ k \in 1..N
    BY <1>1
  <2> QED
    BY <1>7, <2>1
<1>9. Runs(kept)
  <2> HIDE DEF Runs
  <2> QED
    BY <1>8, Zenon
<1>10. Promise!Without(q, id) = kept[N]
  BY DEF Promise!Without, N
<1>11. kept \in [0..N -> D]
  <2> DEFINE P == {k \in 0..N : kept[k] \in D}
  <2>0. <<>> \in D
    BY DEF D
  <2>00. \A x \in D, k \in 1..N : Append(x, q[k]) \in D
    BY <1>1 DEF D
  <2> HIDE DEF kept
  <2>1. 0 \in P
    BY <1>1, <1>9, <2>0
  <2>2. ASSUME NEW k \in 1..N, k - 1 \in P PROVE k \in P
    <3>1. k \in 0..N /\ k # 0
      BY <1>1
    <3>2. kept[k] = IF q[k].id = id THEN kept[k - 1] ELSE Append(kept[k - 1], q[k])
      BY <1>9, <3>1
    <3> QED
      BY <2>00, <2>2, <3>1, <3>2
  <2> HIDE DEF P
  <2>3. \A k \in 0..N : k \in P
    BY <1>1, <2>1, <2>2, UpTo
  <2> QED
    BY <1>9, <2>3 DEF P
<1>12. kept[0] = <<>> /\ \A k \in 1..N : kept[k] = IF q[k].id = id THEN kept[k - 1] ELSE Append(kept[k - 1], q[k])
  <2> HIDE DEF kept
  <2>1. 0 \in 0..N /\ \A k \in 1..N : k \in 0..N /\ k # 0
    BY <1>1
  <2> QED
    BY <1>9, <2>1
<1> QED
  BY <1>10, <1>11, <1>12 DEF N, D, KeptBy

LeavesOut(S, id) ==
  /\ Promise!Without(<<>>, id) = <<>>
  /\ \A q \in Seq(S) : Promise!Without(q, id) \in Seq(S)
  /\ \A q \in Seq(S), p \in S :
       /\ p.id = id => Promise!Without(Append(q, p), id) = Promise!Without(q, id)
       /\ p.id # id => Promise!Without(Append(q, p), id) = Append(Promise!Without(q, id), p)

LEMMA WithoutAppend == \A S, id : LeavesOut(S, id)
<1> SUFFICES ASSUME NEW S, NEW id PROVE LeavesOut(S, id)
  OBVIOUS
<1>1. Promise!Without(<<>>, id) = <<>>
  <2>1. <<>> \in Seq(S) /\ Len(<<>>) = 0
    OBVIOUS
  <2>2. PICK f \in [0..Len(<<>>) -> Seq(S)] : KeptBy(<<>>, id, f)
    BY <2>1, WithoutIs
  <2> QED
    BY <2>1, <2>2 DEF KeptBy
<1>2. ASSUME NEW q \in Seq(S) PROVE Promise!Without(q, id) \in Seq(S)
  <2>1. PICK f \in [0..Len(q) -> Seq(S)] : KeptBy(q, id, f)
    BY WithoutIs
  <2>2. Len(q) \in 0..Len(q)
    OBVIOUS
  <2> QED
    BY <2>1, <2>2 DEF KeptBy
<1>3. ASSUME NEW q \in Seq(S), NEW p \in S
      PROVE  /\ p.id = id => Promise!Without(Append(q, p), id) = Promise!Without(q, id)
             /\ p.id # id => Promise!Without(Append(q, p), id) = Append(Promise!Without(q, id), p)
  <2> DEFINE N == Len(q)
             z == Append(q, p)
  <2>1. N \in Nat /\ z \in Seq(S) /\ Len(z) = N + 1 /\ z[N + 1] = p /\ \A k \in 1..N : z[k] = q[k]
    OBVIOUS
  <2>20. PICK f \in [0..Len(q) -> Seq(S)] : KeptBy(q, id, f)
    BY WithoutIs
  <2>2. /\ f[0] = <<>> /\ Promise!Without(q, id) = f[Len(q)]
        /\ \A k \in 1..Len(q) : f[k] = IF q[k].id = id THEN f[k - 1] ELSE Append(f[k - 1], q[k])
    BY <2>20 DEF KeptBy
  <2> HIDE DEF z
  <2>30. PICK h \in [0..Len(z) -> Seq(S)] : KeptBy(z, id, h)
    BY <2>1, WithoutIs
  <2>3. /\ h[0] = <<>> /\ Promise!Without(z, id) = h[Len(z)]
        /\ \A k \in 1..Len(z) : h[k] = IF z[k].id = id THEN h[k - 1] ELSE Append(h[k - 1], z[k])
    BY <2>30 DEF KeptBy
  <2>4. \A k \in 1..N : k \in 1..N + 1
    BY <2>1
  <2>5. N + 1 \in 1..N + 1 /\ (N + 1) - 1 = N /\ N \in 0..N
    BY <2>1
  <2> DEFINE P == {k \in Nat : h[k] = f[k]}
  <2>6. 0 \in P
    BY <2>2, <2>3
  <2> HIDE DEF N
  <2>7. ASSUME NEW k \in 1..N, k - 1 \in P PROVE k \in P
    <3>1. h[k] = IF q[k].id = id THEN h[k - 1] ELSE Append(h[k - 1], q[k])
      BY <2>1, <2>3, <2>4
    <3>2. f[k] = IF q[k].id = id THEN f[k - 1] ELSE Append(f[k - 1], q[k])
      BY <2>2 DEF N
    <3>3. h[k - 1] = f[k - 1] /\ k \in Nat
      BY <2>1, <2>7
    <3> QED
      BY <3>1, <3>2, <3>3
  <2> HIDE DEF P
  <2>8. N \in P
    BY <2>1, <2>5, <2>6, <2>7, UpTo
  <2>9. h[N] = f[N]
    BY <2>8 DEF P
  <2>10. h[N + 1] = IF p.id = id THEN h[N] ELSE Append(h[N], p)
    BY <2>1, <2>3, <2>5
  <2> QED
    BY <2>1, <2>2, <2>3, <2>9, <2>10 DEF N, z
<1> QED
  BY <1>1, <1>2, <1>3 DEF LeavesOut

Binds(S, id) ==
  /\ Promise!Bound(<<>>, id) = {}
  /\ \A q \in Seq(S), p \in S :
       /\ p.id = id => Promise!Bound(Append(q, p), id) = Promise!Bound(q, id) \cup {p}
       /\ p.id # id => Promise!Bound(Append(q, p), id) = Promise!Bound(q, id)

LEMMA BoundAppend == \A S, id : Binds(S, id)
<1> SUFFICES ASSUME NEW S, NEW id PROVE Binds(S, id)
  OBVIOUS
<1>1. Promise!Bound(<<>>, id) = {}
  BY DEF Promise!Bound
<1>2. ASSUME NEW q \in Seq(S), NEW p \in S
      PROVE  /\ p.id = id => Promise!Bound(Append(q, p), id) = Promise!Bound(q, id) \cup {p}
             /\ p.id # id => Promise!Bound(Append(q, p), id) = Promise!Bound(q, id)
  <2> DEFINE z == Append(q, p)
             N == Len(q)
  <2>1. N \in Nat /\ DOMAIN q = 1..N /\ DOMAIN z = 1..N + 1 /\ z[N + 1] = p /\ \A k \in 1..N : z[k] = q[k]
    OBVIOUS
  <2> HIDE DEF z, N
  <2>2. \A k \in 1..N + 1 : k = N + 1 \/ k \in 1..N
    BY <2>1
  <2>3. N + 1 \in 1..N + 1 /\ \A k \in 1..N : k \in 1..N + 1
    BY <2>1
  <2>4. ASSUME NEW x PROVE x \in Promise!Bound(z, id) <=> \E k \in 1..N + 1 : z[k].id = id /\ x = z[k]
    BY <2>1 DEF Promise!Bound
  <2>5. ASSUME NEW x PROVE x \in Promise!Bound(q, id) <=> \E k \in 1..N : q[k].id = id /\ x = q[k]
    BY <2>1 DEF Promise!Bound
  <2>6. ASSUME NEW x PROVE x \in Promise!Bound(z, id) <=> x \in Promise!Bound(q, id) \/ (p.id = id /\ x = p)
    BY <2>1, <2>2, <2>3, <2>4, <2>5
  <2> QED
    BY <2>6 DEF z
<1> QED
  BY <1>1, <1>2 DEF Binds

\* What a line tells of the ids in B: the last property with each of them.
Told(t, node, B) ==
  LET told[n \in Nodes \cup {0}] ==
        [C \in SUBSET AllIds |->
           IF n = 0 THEN <<>>
           ELSE IF t.label[n].id \in C THEN Append(told[t.up[n]][C \ {t.label[n].id}], PropertyOf(t, n))
           ELSE told[t.up[n]][C]]
  IN told[node][B]

PropertiesIn(t) == {PropertyOf(t, n) : n \in Nodes}

LEMMA ToldIs ==
  ASSUME NEW t, t.up \in [Nodes -> Nodes \cup {0}], Rooting(t)
  PROVE  /\ \A B \in SUBSET AllIds : Told(t, 0, B) = <<>>
         /\ \A n \in Nodes, B \in SUBSET AllIds :
              /\ t.label[n].id \in B =>
                   Told(t, n, B) = Append(Told(t, t.up[n], B \ {t.label[n].id}), PropertyOf(t, n))
              /\ t.label[n].id \notin B => Told(t, n, B) = Told(t, t.up[n], B)
         /\ \A n \in Nodes \cup {0}, B \in SUBSET AllIds : Told(t, n, B) \in Seq(PropertiesIn(t))
<1> DEFINE S == PropertiesIn(t)
           D == [SUBSET AllIds -> Seq(S)]
           J == [n \in Nodes \cup {0} |-> D]
           Next1(f, n) == [C \in SUBSET AllIds |->
                             IF t.label[n].id \in C THEN Append(f[C \ {t.label[n].id}], PropertyOf(t, n)) ELSE f[C]]
           g == [x \in D \X Nodes |-> Next1(x[1], x[2])]
           none == [C \in SUBSET AllIds |-> <<>>]
           Runs(f) == f = [n \in Nodes \cup {0} |->
                             [C \in SUBSET AllIds |->
                               IF n = 0 THEN <<>>
                               ELSE IF t.label[n].id \in C THEN Append(f[t.up[n]][C \ {t.label[n].id}], PropertyOf(t, n))
                               ELSE f[t.up[n]][C]]]
           told == CHOOSE f : Runs(f)
<1>0. 0 \notin Nodes
  BY DEF Nodes
<1>1. ASSUME NEW n \in Nodes, NEW f \in D PROVE Next1(f, n) \in D
  <2>1. PropertyOf(t, n) \in S
    BY DEF PropertiesIn
  <2>2. ASSUME NEW C \in SUBSET AllIds
        PROVE  (IF t.label[n].id \in C THEN Append(f[C \ {t.label[n].id}], PropertyOf(t, n)) ELSE f[C]) \in Seq(S)
    <3>1. f[C] \in Seq(S) /\ f[C \ {t.label[n].id}] \in Seq(S)
      OBVIOUS
    <3> HIDE DEF S
    <3> QED
      BY <2>1, <3>1
  <2> HIDE DEF S
  <2> QED
    BY <2>2
<1>2. none \in D
  BY DEF S
<1>3. Upward(t, Nodes)
  BY DEF Upward
<1>30. \A n \in Nodes \cup {0} : J[n] = D
  OBVIOUS
<1> HIDE DEF D, S
<1>31. \A n \in Nodes, f \in D : g[<<f, n>>] = Next1(f, n)
  OBVIOUS
<1> HIDE DEF Next1
<1>32. g \in [D \X Nodes -> D]
  BY <1>1
<1> HIDE DEF J, g, none
<1>33. \A n \in Nodes : \A x \in J[t.up[n]] : g[<<x, n>>] \in J[n]
  <2>1. ASSUME NEW n \in Nodes, NEW x \in J[t.up[n]] PROVE g[<<x, n>>] \in J[n]
    <3>1. J[n] = D /\ J[t.up[n]] = D
      BY <1>30
    <3>2. x \in D
      BY <3>1
    <3>3. g[<<x, n>>] = Next1(x, n)
      BY <1>31, <3>2
    <3> QED
      BY <1>1, <3>1, <3>2, <3>3
  <2> QED
    BY <2>1
<1>4. KeepsUp(t, Nodes, D, J, none, g)
  BY <1>2, <1>3, <1>30, <1>32, <1>33 DEF KeepsUp
<1>5. \E f \in [Nodes \cup {0} -> D] : RunUp(t, Nodes, J, none, g, f)
  BY <1>4, LineRuns
<1>6. PICK f \in [Nodes \cup {0} -> D] : RunUp(t, Nodes, J, none, g, f)
  BY <1>5
<1>7. f[0] = none /\ \A n \in Nodes : f[n] = Next1(f[t.up[n]], n)
  <2>1. f[0] = none /\ \A n \in Nodes : f[n] = g[<<f[t.up[n]], n>>]
    BY <1>6 DEF RunUp
  <2>2. \A n \in Nodes : t.up[n] \in Nodes \cup {0}
    OBVIOUS
  <2>3. \A n \in Nodes \cup {0} : f[n] \in D
    BY <1>6
  <2>4. \A n \in Nodes : f[t.up[n]] \in D
    BY <2>2, <2>3
  <2> QED
    BY <1>31, <2>1, <2>4
<1>8. Runs(f)
  <2> DEFINE R(n) == [C \in SUBSET AllIds |->
                       IF n = 0 THEN <<>>
                       ELSE IF t.label[n].id \in C THEN Append(f[t.up[n]][C \ {t.label[n].id}], PropertyOf(t, n))
                       ELSE f[t.up[n]][C]]
  <2>1. f[0] = R(0)
    BY <1>7, SMTT(30) DEF none
  <2>2. ASSUME NEW n \in Nodes PROVE f[n] = R(n)
    <3>1. n # 0 /\ f[n] = Next1(f[t.up[n]], n)
      BY <1>0, <1>7
    <3> QED
      BY <3>1 DEF Next1
  <2>3. f = [n \in Nodes \cup {0} |-> f[n]]
    BY <1>6
  <2> HIDE DEF R
  <2>4. \A n \in Nodes \cup {0} : f[n] = R(n)
    BY <2>1, <2>2
  <2>5. f = [n \in Nodes \cup {0} |-> R(n)]
    BY <2>3, <2>4, Zenon
  <2> QED
    BY <2>5 DEF R
<1>9. Runs(told)
  <2> HIDE DEF Runs
  <2> QED
    BY <1>8, Zenon
<1>10. \A n, B : Told(t, n, B) = told[n][B]
  BY DEF Told
<1>11. told[0] = none /\ \A n \in Nodes : told[n] = Next1(told[t.up[n]], n)
  <2> HIDE DEF told
  <2>1. told[0] = none
    BY <1>9 DEF none
  <2>2. ASSUME NEW n \in Nodes PROVE told[n] = Next1(told[t.up[n]], n)
    <3>1. n # 0
      BY <1>0
    <3>2. told[n] = [C \in SUBSET AllIds |->
                      IF n = 0 THEN <<>>
                      ELSE IF t.label[n].id \in C THEN Append(told[t.up[n]][C \ {t.label[n].id}], PropertyOf(t, n))
                      ELSE told[t.up[n]][C]]
      BY <1>9
    <3> QED
      BY <3>1, <3>2 DEF Next1
  <2> QED
    BY <2>1, <2>2
<1> HIDE DEF told, Runs
<1>12. \A n \in Nodes : told[n] \in D
  <2> DEFINE P == {0} \cup {n \in Nodes : told[n] \in D}
  <2>1. 0 \in P /\ \A n \in Nodes : t.up[n] \in P => n \in P
    <3>1. ASSUME NEW n \in Nodes, t.up[n] \in P PROVE told[n] \in D
      <4>1. told[t.up[n]] \in D
        BY <1>0, <1>2, <1>11, <3>1
      <4> QED
        BY <1>1, <1>11, <4>1
    <3> QED
      BY <3>1
  <2> HIDE DEF P
  <2>2. Nodes \subseteq P
    BY <1>3, <2>1, LineInduction
  <2> QED
    BY <1>0, <2>2 DEF P
<1>13. \A n \in Nodes \cup {0} : told[n] \in D
  BY <1>2, <1>11, <1>12
<1>14. \A B \in SUBSET AllIds : Told(t, 0, B) = <<>>
  BY <1>10, <1>11 DEF none
<1>15. ASSUME NEW n \in Nodes, NEW B \in SUBSET AllIds
       PROVE  /\ t.label[n].id \in B =>
                   Told(t, n, B) = Append(Told(t, t.up[n], B \ {t.label[n].id}), PropertyOf(t, n))
              /\ t.label[n].id \notin B => Told(t, n, B) = Told(t, t.up[n], B)
  <2>1. Told(t, n, B) = Next1(told[t.up[n]], n)[B]
    BY <1>10, <1>11
  <2>2. Told(t, t.up[n], B) = told[t.up[n]][B]
        /\ Told(t, t.up[n], B \ {t.label[n].id}) = told[t.up[n]][B \ {t.label[n].id}]
    BY <1>10
  <2> HIDE DEF PropertyOf
  <2> QED
    BY <2>1, <2>2 DEF Next1
<1>16. ASSUME NEW n \in Nodes \cup {0}, NEW B \in SUBSET AllIds PROVE Told(t, n, B) \in Seq(PropertiesIn(t))
  <2>1. told[n] \in [SUBSET AllIds -> Seq(PropertiesIn(t))]
    BY <1>13 DEF D, S
  <2>2. told[n][B] \in Seq(PropertiesIn(t))
    BY <2>1
  <2> QED
    BY <1>10, <2>2
<1> QED
  BY <1>14, <1>15, <1>16

LEMMA ToldOff ==
  ASSUME NEW t, t.up \in [Nodes -> Nodes \cup {0}], Rooting(t), NEW n \in Nodes, NEW B \in SUBSET AllIds,
         t.label[n].id \notin B
  PROVE  Told(t, n, B) = Told(t, t.up[n], B)
BY ToldIs

LEMMA ToldOn ==
  ASSUME NEW t, t.up \in [Nodes -> Nodes \cup {0}], Rooting(t), NEW n \in Nodes, NEW B \in SUBSET AllIds,
         t.label[n].id \in B
  PROVE  Told(t, n, B) = Append(Told(t, t.up[n], B \ {t.label[n].id}), PropertyOf(t, n))
BY ToldIs

\* To leave an id out afterwards is not to tell of it.
LEMMA ToldWithout ==
  ASSUME NEW t, t.up \in [Nodes -> Nodes \cup {0}], Rooting(t), NEW id,
         NEW n \in Nodes \cup {0}, NEW B \in SUBSET AllIds
  PROVE  Promise!Without(Told(t, n, B), id) = Told(t, n, B \ {id})
<1> DEFINE Same(m) == \A C \in SUBSET AllIds : Promise!Without(Told(t, m, C), id) = Told(t, m, C \ {id})
           P == {m \in Nodes \cup {0} : Same(m)}
<1>1. 0 \in P
  <2>1. ASSUME NEW C \in SUBSET AllIds PROVE Promise!Without(Told(t, 0, C), id) = Told(t, 0, C \ {id})
    <3>1. Told(t, 0, C) = <<>> /\ Told(t, 0, C \ {id}) = <<>>
      BY ToldIs
    <3> QED
      BY <3>1, WithoutAppend DEF LeavesOut
  <2> QED
    BY <2>1
<1>2. ASSUME NEW m \in Nodes, t.up[m] \in P PROVE m \in P
  <2> DEFINE jd == t.label[m].id
             p == PropertyOf(t, m)
             S == PropertiesIn(t)
  <2>0. Same(t.up[m]) /\ t.up[m] \in Nodes \cup {0}
    BY <1>2
  <2>1. ASSUME NEW C \in SUBSET AllIds PROVE Promise!Without(Told(t, m, C), id) = Told(t, m, C \ {id})
    <3>1. C \ {id} \in SUBSET AllIds /\ C \ {jd} \in SUBSET AllIds
      OBVIOUS
    <3>20. /\ jd \in C => Told(t, m, C) = Append(Told(t, t.up[m], C \ {jd}), p)
           /\ jd \notin C => Told(t, m, C) = Told(t, t.up[m], C)
      BY ToldIs
    <3>21. /\ jd \in C \ {id} => Told(t, m, C \ {id}) = Append(Told(t, t.up[m], (C \ {id}) \ {jd}), p)
           /\ jd \notin C \ {id} => Told(t, m, C \ {id}) = Told(t, t.up[m], C \ {id})
      BY <3>1, ToldIs
    <3>22. Told(t, t.up[m], C \ {jd}) \in Seq(S) /\ Told(t, t.up[m], C) \in Seq(S)
      BY <2>0, <3>1, ToldIs
    <3>3. p \in S /\ p.id = jd
      BY DEF PropertiesIn, PropertyOf, Property
    <3>4. /\ Promise!Without(Told(t, t.up[m], C \ {jd}), id) = Told(t, t.up[m], (C \ {jd}) \ {id})
          /\ Promise!Without(Told(t, t.up[m], C), id) = Told(t, t.up[m], C \ {id})
      BY <2>0, <3>1
    <3> HIDE DEF jd, p, S
    <3>5. CASE jd \notin C
      BY <3>20, <3>21, <3>22, <3>4, <3>5
    <3>6. CASE jd \in C
      <4>1. Promise!Without(Told(t, m, C), id) =
              IF p.id = id THEN Promise!Without(Told(t, t.up[m], C \ {jd}), id)
              ELSE Append(Promise!Without(Told(t, t.up[m], C \ {jd}), id), p)
        <5> DEFINE q == Told(t, t.up[m], C \ {jd})
        <5>1. q \in Seq(S) /\ p \in S
          BY <3>20, <3>21, <3>22, <3>3
        <5>2. Told(t, m, C) = Append(q, p)
          BY <3>20, <3>21, <3>22, <3>6
        <5> HIDE DEF q
        <5>30. LeavesOut(S, id)
          BY WithoutAppend
        <5>3. /\ p.id = id => Promise!Without(Append(q, p), id) = Promise!Without(q, id)
              /\ p.id # id => Promise!Without(Append(q, p), id) = Append(Promise!Without(q, id), p)
          BY <5>1, <5>30 DEF LeavesOut
        <5> QED
          BY <5>2, <5>3 DEF q
      <4>2. CASE jd = id
        <5>1. (C \ {jd}) \ {id} = C \ {id}
          BY <4>2
        <5> QED
          BY <3>20, <3>21, <3>22, <3>3, <3>4, <4>1, <4>2, <5>1
      <4>3. CASE jd # id
        <5>1. (C \ {jd}) \ {id} = (C \ {id}) \ {jd}
          OBVIOUS
        <5> QED
          BY <3>20, <3>21, <3>22, <3>3, <3>4, <3>6, <4>1, <4>3, <5>1
      <4> QED
        BY <4>2, <4>3
    <3> QED
      BY <3>5, <3>6
  <2> QED
    BY <2>1
<1>3. Upward(t, Nodes)
  BY DEF Upward
<1> HIDE DEF P
<1>4. Nodes \subseteq P
  BY <1>1, <1>2, <1>3, LineInduction
<1>5. n \in P
  BY <1>1, <1>4
<1> QED
  BY <1>5 DEF P

\* Two trees with the same line tell the same of the same ids.
LEMMA SameTold ==
  ASSUME NEW t, t.up \in [Nodes -> Nodes \cup {0}], Rooting(t),
         NEW u, u.up \in [Nodes -> Nodes \cup {0}], Rooting(u), NEW n \in Nodes \cup {0},
         \A m \in Above(t, n) : u.up[m] = t.up[m] /\ u.label[m] = t.label[m],
         NEW B \in SUBSET AllIds, NEW C \in SUBSET AllIds,
         \A m \in Above(t, n) : t.label[m].id \in B <=> t.label[m].id \in C
  PROVE  Told(u, n, C) = Told(t, n, B)
<1> DEFINE Agree(m, E, F) == \A k \in Above(t, m) : t.label[k].id \in E <=> t.label[k].id \in F
           Same(m) == \A E, F \in SUBSET AllIds : Agree(m, E, F) => Told(u, m, F) = Told(t, m, E)
           P == {0} \cup {m \in Above(t, n) : Same(m)}
<1>1. Same(0)
  BY ToldIs
<1>2. Upward(t, Above(t, n)) /\ Above(t, n) \subseteq Nodes /\ (n \in Nodes => n \in Above(t, n))
  BY LineIs
<1>3. ASSUME NEW m \in Above(t, n), t.up[m] \in P PROVE m \in P
  <2> DEFINE id == t.label[m].id
  <2>0. m \in Nodes /\ u.up[m] = t.up[m] /\ u.label[m] = t.label[m] /\ PropertyOf(u, m) = PropertyOf(t, m)
    BY <1>2 DEF PropertyOf
  <2>1. Same(t.up[m])
    BY <1>1, <1>3
  <2>2. Above(t, m) = {m} \cup Above(t, t.up[m])
    BY <2>0, AboveIs
  <2>3. ASSUME NEW E \in SUBSET AllIds, NEW F \in SUBSET AllIds, Agree(m, E, F) PROVE Told(u, m, F) = Told(t, m, E)
    <3>1. E \ {id} \in SUBSET AllIds /\ F \ {id} \in SUBSET AllIds
      OBVIOUS
    <3>2. (id \in E <=> id \in F) /\ Agree(t.up[m], E, F) /\ Agree(t.up[m], E \ {id}, F \ {id})
      BY <2>2, <2>3
    <3>3. Told(u, t.up[m], F) = Told(t, t.up[m], E) /\ Told(u, t.up[m], F \ {id}) = Told(t, t.up[m], E \ {id})
      BY <2>1, <3>1, <3>2
    <3>4. /\ id \in E => Told(t, m, E) = Append(Told(t, t.up[m], E \ {id}), PropertyOf(t, m))
          /\ id \notin E => Told(t, m, E) = Told(t, t.up[m], E)
      BY <2>0, ToldIs
    <3>50. /\ u.label[m].id \in F =>
                Told(u, m, F) = Append(Told(u, u.up[m], F \ {u.label[m].id}), PropertyOf(u, m))
           /\ u.label[m].id \notin F => Told(u, m, F) = Told(u, u.up[m], F)
      BY <2>0, ToldIs
    <3>5. /\ id \in F => Told(u, m, F) = Append(Told(u, t.up[m], F \ {id}), PropertyOf(t, m))
          /\ id \notin F => Told(u, m, F) = Told(u, t.up[m], F)
      BY <2>0, <3>50
    <3> QED
      BY <3>2, <3>3, <3>4, <3>5
  <2> QED
    BY <2>3
<1>4. 0 \in P
  OBVIOUS
<1> HIDE DEF P
<1>5. Above(t, n) \subseteq P
  BY <1>2, <1>3, <1>4, LineInduction
<1>6. n \in P
  BY <1>2, <1>4, <1>5
<1> QED
  BY <1>1, <1>6 DEF P

\* What is told of an id is the property the search finds.
ToldOf(t, n, B, id) ==
  /\ id \in B /\ SearchLine(t, n, id) # 0 =>
       Promise!Bound(Told(t, n, B), id) = {PropertyOf(t, SearchLine(t, n, id))}
  /\ id \notin B \/ SearchLine(t, n, id) = 0 => Promise!Bound(Told(t, n, B), id) = {}

LEMMA BoundTold ==
  ASSUME NEW t, t.up \in [Nodes -> Nodes \cup {0}], Rooting(t), NEW id,
         NEW n \in Nodes \cup {0}, NEW B \in SUBSET AllIds
  PROVE  ToldOf(t, n, B, id)
<1> DEFINE Same(m) == \A C \in SUBSET AllIds : ToldOf(t, m, C, id)
           P == {m \in Nodes \cup {0} : Same(m)}
           S == PropertiesIn(t)
<1>0. Binds(S, id)
  BY BoundAppend
<1>1. 0 \in P
  <2>1. ASSUME NEW C \in SUBSET AllIds PROVE ToldOf(t, 0, C, id)
    <3>1. Told(t, 0, C) = <<>> /\ SearchLine(t, 0, id) = 0
      BY ToldIs, SearchLineIs
    <3> QED
      BY <1>0, <3>1 DEF Binds, ToldOf
  <2> QED
    BY <2>1
<1>2. ASSUME NEW m \in Nodes, t.up[m] \in P PROVE m \in P
  <2> DEFINE jd == t.label[m].id
             p == PropertyOf(t, m)
             k == t.up[m]
  <2>0. Same(k) /\ k \in Nodes \cup {0} /\ m # 0
    BY <1>2 DEF Nodes
  <2>1. p \in S /\ p.id = jd
    BY DEF PropertiesIn, PropertyOf, Property
  <2>2. SearchLine(t, m, id) = IF jd = id THEN m ELSE SearchLine(t, k, id)
    BY SearchLineIs
  <2>3. ASSUME NEW C \in SUBSET AllIds PROVE ToldOf(t, m, C, id)
    <3>1. C \ {jd} \in SUBSET AllIds
      OBVIOUS
    <3>2. /\ jd \in C => Told(t, m, C) = Append(Told(t, k, C \ {jd}), p)
          /\ jd \notin C => Told(t, m, C) = Told(t, k, C)
      BY ToldIs
    <3>3. Told(t, k, C \ {jd}) \in Seq(S)
      BY <2>0, <3>1, ToldIs
    <3>4. ToldOf(t, k, C, id) /\ ToldOf(t, k, C \ {jd}, id)
      BY <2>0, <3>1
    <3> HIDE DEF jd, p, k, S
    <3>5. CASE jd \notin C
      BY <2>2, <3>2, <3>4, <3>5 DEF ToldOf
    <3>6. CASE jd \in C
      <4> DEFINE q == Told(t, k, C \ {jd})
      <4>1. Told(t, m, C) = Append(q, p) /\ q \in Seq(S)
        BY <3>2, <3>3, <3>6
      <4> HIDE DEF q
      <4>2. /\ p.id = id => Promise!Bound(Append(q, p), id) = Promise!Bound(q, id) \cup {p}
            /\ p.id # id => Promise!Bound(Append(q, p), id) = Promise!Bound(q, id)
        BY <1>0, <2>1, <4>1 DEF Binds
      <4>3. CASE jd = id
        <5>1. Promise!Bound(q, id) = {}
          BY <3>4, <4>3 DEF ToldOf, q
        <5>2. Promise!Bound(Told(t, m, C), id) = {p}
          BY <2>1, <4>1, <4>2, <4>3, <5>1
        <5>3. SearchLine(t, m, id) = m
          BY <2>2, <4>3
        <5> QED
          BY <2>0, <3>6, <4>3, <5>2, <5>3 DEF ToldOf, p
      <4>4. CASE jd # id
        <5>1. Promise!Bound(Told(t, m, C), id) = Promise!Bound(q, id)
          BY <2>1, <4>1, <4>2, <4>4
        <5> QED
          BY <2>2, <3>4, <4>4, <5>1 DEF ToldOf, q
      <4> QED
        BY <4>3, <4>4
    <3> QED
      BY <3>5, <3>6
  <2> QED
    BY <2>3
<1>3. Upward(t, Nodes)
  BY DEF Upward
<1> HIDE DEF P
<1>4. Nodes \subseteq P
  BY <1>1, <1>2, <1>3, LineInduction
<1>5. n \in P
  BY <1>1, <1>4
<1> QED
  BY <1>5 DEF P

\* What has the id is found at once or lies above what is found.
LEMMA SearchFirst ==
  ASSUME NEW t, t.up \in [Nodes -> Nodes \cup {0}], Rooting(t), NEW id, NEW n \in Nodes \cup {0}
  PROVE  \A m \in Above(t, n) : t.label[m].id = id =>
           SearchLine(t, n, id) \in Nodes /\ m \in Above(t, SearchLine(t, n, id))
<1> DEFINE Q(k) == \A m \in Above(t, k) : t.label[m].id = id =>
                     SearchLine(t, k, id) \in Nodes /\ m \in Above(t, SearchLine(t, k, id))
           P == {k \in Nodes \cup {0} : Q(k)}
<1>1. 0 \in P
  BY AboveIs
<1>2. ASSUME NEW k \in Nodes, t.up[k] \in P PROVE k \in P
  <2>1. SearchLine(t, k, id) = IF t.label[k].id = id THEN k ELSE SearchLine(t, t.up[k], id)
    BY SearchLineIs
  <2>2. Above(t, k) = {k} \cup Above(t, t.up[k])
    BY AboveIs
  <2>3. Q(t.up[k])
    BY <1>2
  <2>4. Q(k)
    BY <2>1, <2>2, <2>3
  <2> QED
    BY <2>4
<1>3. Upward(t, Nodes)
  BY DEF Upward
<1> HIDE DEF P
<1>4. Nodes \subseteq P
  BY <1>1, <1>2, <1>3, LineInduction
<1>5. n \in P
  BY <1>1, <1>4
<1> QED
  BY <1>5 DEF P

\* What is not asked for at the end of a line can be left off.
LEMMA ToldSkips ==
  ASSUME NEW t, t.up \in [Nodes -> Nodes \cup {0}], Rooting(t), NEW n \in Nodes \cup {0}, NEW r,
         r \in Above(t, n) \cup {0}, NEW B \in SUBSET AllIds,
         \A m \in Above(t, n) : m \in Above(t, r) \/ t.label[m].id \notin B
  PROVE  Told(t, n, B) = Told(t, r, B)
<1>1. /\ Above(t, n) \subseteq Nodes /\ Upward(t, Above(t, n)) /\ (n \in Nodes => n \in Above(t, n))
      /\ \A m \in Above(t, n) : n \in Above(t, m) => m = n
  BY LineIs
<1>2. /\ Above(t, 0) = {}
      /\ \A m \in Nodes : Above(t, m) = {m} \cup Above(t, t.up[m])
  BY AboveIs
<1>3. \A m, k \in Above(t, n) : m \in Above(t, k) \/ k \in Above(t, m)
  BY LineChain
<1> DEFINE P == {0} \cup {m \in Above(t, n) : m \in Above(t, r) \/ Told(t, m, B) = Told(t, r, B)}
<1>4. ASSUME NEW m \in Above(t, n), t.up[m] \in P PROVE m \in P
  <2>1. CASE m \in Above(t, r)
    BY <2>1
  <2>2. CASE m \notin Above(t, r)
    <3>1. m \in Nodes /\ t.label[m].id \notin B
      BY <1>1, <2>2
    <3>2. Told(t, m, B) = Told(t, t.up[m], B)
      BY <3>1, ToldIs
    <3>3. CASE r = 0
      BY <1>2, <1>4, <3>2, <3>3
    <3>4. CASE r # 0
      <4>1. r \in Above(t, n) /\ r \in Nodes
        BY <1>1, <3>4
      <4>2. r \in Above(t, m) /\ r # m
        BY <1>2, <1>3, <2>2, <3>1, <4>1
      <4>3. r \in Above(t, t.up[m])
        BY <1>2, <3>1, <4>2
      <4>4. t.up[m] # 0
        BY <1>2, <4>3
      <4>5. CASE t.up[m] \in Above(t, r)
        <5>1. \A k \in Above(t, r) : r \in Above(t, k) => k = r
          BY <4>1, LineIs
        <5>2. t.up[m] = r
          BY <4>3, <4>5, <5>1
        <5> QED
          BY <3>2, <5>2
      <4>6. CASE t.up[m] \notin Above(t, r)
        BY <1>4, <3>2, <4>4, <4>6
      <4> QED
        BY <4>5, <4>6
    <3> QED
      BY <3>3, <3>4
  <2> QED
    BY <2>1, <2>2
<1>5. 0 \in P
  OBVIOUS
<1> HIDE DEF P
<1>6. Above(t, n) \subseteq P
  BY <1>1, <1>4, <1>5, LineInduction
<1>7. CASE n = 0
  BY <1>2, <1>7
<1>8. CASE n # 0
  <2>1. n \in Nodes /\ n \in Above(t, n) /\ n \in P
    BY <1>1, <1>6, <1>8
  <2>2. CASE n \in Above(t, r)
    BY <1>1, <1>2, <2>2
  <2>3. CASE n \notin Above(t, r)
    BY <1>8, <2>1, <2>3 DEF P
  <2> QED
    BY <2>2, <2>3
<1> QED
  BY <1>7, <1>8

-----------------------------------------------------------------------------
(***************************************************************************)
(* The line of a scope that has deleted from the middle is forked.         *)
(***************************************************************************)
\* The tree, the scope and the node that the new line has come to.
ForkStates == [tree : TreesOf(GoodLabels), scope : Scopes, at : Nodes \cup {0}, ok : BOOLEAN]

Forkable(t, s) ==
  /\ Usable(t) /\ s \in Scopes /\ s.hashed /\ s.lastProp \in LiveNodes(t) \cup {0}
  /\ Mapping(t, Above(t, s.lastProp), s.table) /\ Unique(t, Above(t, s.lastProp))

\* The line up to n has been taken over without the nodes that have left the
\* scope, on itself as long as it was dense.
Carried(t, s, n, a) ==
  /\ \A k \in Above(a.tree, a.at) :
       \E m \in Above(t, n) : a.tree.label[k] = t.label[m] /\ s.table[t.label[m].id] # 0
  /\ Unique(a.tree, Above(a.tree, a.at))
Found(t, s, n, a, id) ==
  LET k == a.scope.table[id] IN
  k # 0 => /\ k \in LiveNodes(a.tree) /\ a.tree.label[k].id = id
           /\ id \notin Hidden => a.tree.label[k] = t.label[s.table[id]]
           /\ k \in Above(a.tree, a.at) \/ (k \in Above(t, s.lastProp) /\ k \notin Above(t, n))
Refound(t, s, n, a) == \A id \in AllIds : (a.scope.table[id] = 0 <=> s.table[id] = 0) /\ Found(t, s, n, a, id)
Straight(t, s, n, a) ==
  /\ a.scope = s /\ a.at \in Above(t, n) \cup {0}
  /\ \A m \in Above(t, n) : m \in Above(t, a.at) \/ s.table[t.label[m].id] = 0
Strays(t, s, a) == \E id \in AllIds : a.scope.table[id] # 0 /\ a.scope.table[id] \notin Above(t, s.lastProp)
Diverged(t, s, a) == a.at # 0 /\ a.at \notin Above(t, s.lastProp) /\ Strays(t, s, a)
Abandoned(s, a) == a.scope = s \/ \E id \in AllIds : s.table[id] # 0 /\ Astray(a.tree, a.scope, id)
SameBut(s, u) == /\ u.hashed = s.hashed /\ u.count = s.count /\ u.lastProp = s.lastProp
                 /\ u.middle = s.middle /\ u.freeslot = s.freeslot /\ u.nargs = s.nargs
Forking(t, s, n, a) ==
  /\ Usable(a.tree) /\ Grew(t, a.tree) /\ SameBut(s, a.scope) /\ a.at \in LiveNodes(a.tree) \cup {0}
  /\ a.ok => Carried(t, s, n, a) /\ Refound(t, s, n, a) /\ (Straight(t, s, n, a) \/ Diverged(t, s, a))
  /\ ~a.ok => Abandoned(s, a)

LEMMA ForkableIs ==
  ASSUME NEW t, NEW s, Forkable(t, s)
  PROVE  /\ Usable(t) /\ Grows(t) /\ s \in Scopes /\ s.hashed /\ s.lastProp \in LiveNodes(t) \cup {0}
         /\ t.up \in [Nodes -> Nodes \cup {0}] /\ Rooting(t) /\ 0 \notin Nodes /\ s.lastProp \in Nodes \cup {0}
         /\ Above(t, s.lastProp) \subseteq LiveNodes(t) /\ Above(t, s.lastProp) \subseteq Nodes
         /\ \A n \in Above(t, s.lastProp) :
              /\ t.up[n] \in Above(t, s.lastProp) \cup {0} /\ Above(t, n) = {n} \cup Above(t, t.up[n])
              /\ n \notin Above(t, t.up[n]) /\ Above(t, n) \subseteq Above(t, s.lastProp)
              /\ t.label[n].id \in AllIds /\ t.label[n] \in GoodLabels
         /\ s.table \in [AllIds -> Nodes \cup {0}]
         /\ \A id \in AllIds : s.table[id] # 0 => s.table[id] \in Above(t, s.lastProp) /\ t.label[s.table[id]].id = id
<1>1. /\ Usable(t) /\ Grows(t) /\ s \in Scopes /\ s.hashed /\ s.lastProp \in LiveNodes(t) \cup {0}
      /\ Mapping(t, Above(t, s.lastProp), s.table)
  BY DEF Forkable, Usable
<1>2. t.up \in [Nodes -> Nodes \cup {0}] /\ Rooting(t) /\ 0 \notin Nodes /\ s.lastProp \in Nodes \cup {0}
  BY <1>1, UsableIs
<1>3. /\ Above(t, s.lastProp) \subseteq LiveNodes(t) /\ Above(t, s.lastProp) \subseteq Nodes
      /\ \A n \in Above(t, s.lastProp) : t.label[n] \in GoodLabels /\ t.label[n].id \in AllIds
  BY <1>1, LineLabels
<1>4. \A n \in Nodes : Above(t, n) = {n} \cup Above(t, t.up[n])
  BY <1>2, AboveIs
<1>5. Upward(t, Above(t, s.lastProp)) /\ \A n \in Above(t, s.lastProp) : Above(t, n) \subseteq Above(t, s.lastProp)
  BY <1>2, LineIs
<1>6. \A n \in Nodes : n \notin Above(t, t.up[n])
  BY <1>2, LineIs
<1>7. s.table \in [AllIds -> Nodes \cup {0}]
  BY <1>1 DEF Scopes
<1> QED
  BY <1>1, <1>2, <1>3, <1>4, <1>5, <1>6, <1>7 DEF Upward, Mapping

\* The line of the fork leaves the old one for good.
LEMMA ForkLeaves ==
  ASSUME NEW t, NEW s, Forkable(t, s), NEW n \in Above(t, s.lastProp), s.table[t.label[n].id] # 0,
         NEW a \in ForkStates, Forking(t, s, t.up[n], a), a.ok, a.tree.up[n] # a.at,
         NEW u, Usable(u), Grew(a.tree, u), NEW k \in LiveNodes(u), u.up[k] = a.at,
         u.label[k] = a.tree.label[n]
  PROVE  k \notin Above(t, s.lastProp)
<1> DEFINE L == Above(t, s.lastProp)
           p == t.up[n]
<1>1. /\ Grows(t) /\ s.lastProp \in LiveNodes(t) \cup {0}
      /\ t.up \in [Nodes -> Nodes \cup {0}] /\ Rooting(t) /\ 0 \notin Nodes
      /\ L \subseteq LiveNodes(t) /\ L \subseteq Nodes
      /\ \A m \in L : /\ t.up[m] \in L \cup {0} /\ Above(t, m) = {m} \cup Above(t, t.up[m])
                      /\ m \notin Above(t, t.up[m]) /\ Above(t, m) \subseteq L
  BY ForkableIs
<1>2. Grew(t, a.tree) /\ (Straight(t, s, p, a) \/ Diverged(t, s, a))
  BY DEF Forking
<1>3. Grew(t, u)
  BY <1>2, SameGrew
<1>4. \A m \in L : u.label[m] = t.label[m] /\ u.up[m] = t.up[m] /\ a.tree.label[m] = t.label[m] /\ a.tree.up[m] = t.up[m]
  BY <1>1, <1>2, <1>3 DEF Grew
<1>5. SUFFICES ASSUME k \in L PROVE FALSE
  OBVIOUS
<1>6. t.up[k] = a.at /\ t.label[k] = t.label[n]
  BY <1>4, <1>5
<1>7. CASE Diverged(t, s, a)
  BY <1>1, <1>5, <1>6, <1>7 DEF Diverged
<1>8. CASE Straight(t, s, p, a)
  <2>1. a.at \in Above(t, p) \cup {0} /\ \A m \in Above(t, p) : m \in Above(t, a.at) \/ s.table[t.label[m].id] = 0
    BY <1>8 DEF Straight
  <2>2. k \notin Above(t, a.at) /\ Above(t, k) = {k} \cup Above(t, a.at)
    BY <1>1, <1>5, <1>6
  <2>3. k \notin Above(t, p)
    BY <1>6, <2>1, <2>2
  <2>4. k # n
    BY <1>4, <1>6
  <2>5. k \in Above(t, n) \/ n \in Above(t, k)
    <3>1. n \in Above(t, s.lastProp) /\ k \in Above(t, s.lastProp) /\ s.lastProp \in Nodes \cup {0}
      BY <1>5, ForkableIs
    <3> QED
      BY <1>1, <3>1, LineChain
  <2>6. n \in Above(t, a.at)
    BY <1>1, <2>2, <2>3, <2>4, <2>5
  <2>7. a.at \in Above(t, p) /\ a.at \in L /\ p \in L
    <3>1. a.at # 0
      BY <1>1, <2>6, AboveIs
    <3>2. Above(t, 0) = {}
      BY <1>1, AboveIs
    <3> QED
      BY <1>1, <2>1, <3>1, <3>2
  <2>8. Above(t, a.at) \subseteq Above(t, p)
    BY <1>1, <2>7, LineIs
  <2> QED
    BY <1>1, <2>6, <2>8
<1> QED
  BY <1>2, <1>7, <1>8

\* n is the next node of the line, and the fork has come to the one above it.
ForkAt(t, s, n, a) ==
  /\ Forkable(t, s) /\ n \in Above(t, s.lastProp) /\ a \in ForkStates /\ Forking(t, s, t.up[n], a)

LEMMA ForkAtIs ==
  ASSUME NEW t, NEW s, NEW n, NEW a, ForkAt(t, s, n, a)
  PROVE  /\ Usable(a.tree) /\ Grows(a.tree) /\ Grew(t, a.tree) /\ a.at \in LiveNodes(a.tree) \cup {0}
         /\ a.scope \in Scopes /\ a.scope.table \in [AllIds -> Nodes \cup {0}] /\ a.scope.hashed
         /\ n \in LiveNodes(t) /\ n \in Nodes /\ t.label[n].id \in AllIds
         /\ a.tree.label[n] = t.label[n] /\ a.tree.up[n] = t.up[n]
         /\ SearchScope(a.tree, s, a.tree.label[n].id) = s.table[t.label[n].id]
<1>1. /\ Forkable(t, s) /\ n \in Above(t, s.lastProp) /\ a \in ForkStates /\ Forking(t, s, t.up[n], a)
  BY DEF ForkAt
<1>2. Usable(a.tree) /\ Grew(t, a.tree) /\ SameBut(s, a.scope) /\ a.at \in LiveNodes(a.tree) \cup {0}
  BY <1>1 DEF Forking
<1>3. s.hashed /\ n \in LiveNodes(t) /\ n \in Nodes /\ t.label[n].id \in AllIds
  BY <1>1, ForkableIs
<1>4. a.scope \in Scopes /\ a.scope.table \in [AllIds -> Nodes \cup {0}]
  BY <1>1 DEF ForkStates, Scopes
<1>5. a.scope.hashed
  BY <1>2, <1>3 DEF SameBut
<1>6. a.tree.label[n] = t.label[n] /\ a.tree.up[n] = t.up[n]
  BY <1>2, <1>3 DEF Grew
<1>7. SearchScope(a.tree, s, a.tree.label[n].id) = s.table[t.label[n].id]
  BY <1>3, <1>6 DEF SearchScope
<1> QED
  BY <1>2, <1>3, <1>4, <1>5, <1>6, <1>7 DEF Usable

\* A node that has left the scope is passed.
LEMMA ForkPasses ==
  ASSUME NEW t, NEW s, NEW n, NEW a, ForkAt(t, s, n, a), a.ok, s.table[t.label[n].id] = 0
  PROVE  Forking(t, s, n, a)
<1>1. /\ Forkable(t, s) /\ n \in Above(t, s.lastProp) /\ a \in ForkStates /\ Forking(t, s, t.up[n], a)
  BY DEF ForkAt
<1>2. Carried(t, s, t.up[n], a) /\ Refound(t, s, t.up[n], a) /\ (Straight(t, s, t.up[n], a) \/ Diverged(t, s, a))
  BY <1>1 DEF Forking
<1>3. Above(t, n) = {n} \cup Above(t, t.up[n])
  BY <1>1, ForkableIs
<1>4. Carried(t, s, n, a)
  BY <1>2, <1>3 DEF Carried
<1>5. Refound(t, s, n, a)
  <2>1. SUFFICES ASSUME NEW id \in AllIds, a.scope.table[id] # 0
                 PROVE  Found(t, s, n, a, id)
    BY <1>2 DEF Refound, Found
  <2>2. Found(t, s, t.up[n], a, id) /\ s.table[id] # 0
    BY <1>2, <2>1 DEF Refound
  <2>3. a.scope.table[id] # n
    <3>1. a.tree.label[a.scope.table[id]].id = id
      BY <2>1, <2>2 DEF Found
    <3>2. a.tree.label[n] = t.label[n]
      BY ForkAtIs
    <3> QED
      BY <2>2, <3>1, <3>2
  <2> QED
    BY <1>3, <2>2, <2>3 DEF Found
<1>6. Straight(t, s, t.up[n], a) => Straight(t, s, n, a)
  BY <1>3 DEF Straight
<1> QED
  BY <1>1, <1>2, <1>4, <1>5, <1>6 DEF Forking

\* A node stays on the line.
LEMMA ForkGoesOn ==
  ASSUME NEW t, NEW s, NEW n, NEW a, ForkAt(t, s, n, a), a.ok, s.table[t.label[n].id] # 0,
         a.tree.up[n] = a.at, NEW b, b = [a EXCEPT !.at = n]
  PROVE  b \in ForkStates /\ Forking(t, s, n, b)
<1> DEFINE p == t.up[n]
<1>1. /\ Forkable(t, s) /\ n \in Above(t, s.lastProp) /\ a \in ForkStates /\ Forking(t, s, p, a)
  BY DEF ForkAt
<1>2. /\ Usable(a.tree) /\ Grows(a.tree) /\ Grew(t, a.tree)
      /\ n \in LiveNodes(t) /\ n \in Nodes /\ a.tree.label[n] = t.label[n] /\ a.at = p
  BY ForkAtIs
<1>3. Carried(t, s, p, a) /\ Refound(t, s, p, a) /\ (Straight(t, s, p, a) \/ Diverged(t, s, a)) /\ SameBut(s, a.scope)
  BY <1>1 DEF Forking
<1>4. b \in ForkStates /\ b.tree = a.tree /\ b.scope = a.scope /\ b.at = n /\ b.ok = a.ok
  BY <1>1, <1>2 DEF ForkStates
<1>5. /\ Grows(t) /\ Above(t, n) = {n} \cup Above(t, p) /\ p \in Above(t, s.lastProp) \cup {0}
      /\ Above(t, n) \subseteq Above(t, s.lastProp) /\ Above(t, s.lastProp) \subseteq LiveNodes(t)
  BY <1>1, ForkableIs
<1>6. Above(a.tree, n) = Above(t, n) /\ Above(a.tree, p) = Above(t, p)
  BY <1>2, <1>5, GrewLine
<1>7. a.scope = s
  <2>1. ~Diverged(t, s, a)
    BY <1>2, <1>5 DEF Diverged
  <2> QED
    BY <1>3, <2>1 DEF Straight
<1>8. Carried(t, s, n, b)
  <2>1. \A k \in Above(a.tree, n) : \E m \in Above(t, n) : a.tree.label[k] = t.label[m] /\ s.table[t.label[m].id] # 0
    <3>1. \A k \in Above(a.tree, p) : \E m \in Above(t, p) : a.tree.label[k] = t.label[m] /\ s.table[t.label[m].id] # 0
      BY <1>2, <1>3 DEF Carried
    <3> QED
      BY <1>2, <1>5, <1>6, <3>1
  <2>2. \A k \in Above(t, n) : a.tree.label[k] = t.label[k]
    BY <1>2, <1>5 DEF Grew
  <2>3. Unique(t, Above(t, s.lastProp))
    BY <1>1 DEF Forkable
  <2>4. Unique(a.tree, Above(a.tree, n))
    BY <1>5, <1>6, <2>2, <2>3 DEF Unique
  <2> QED
    BY <1>4, <2>1, <2>4 DEF Carried
<1>9. Refound(t, s, n, b)
  <2>1. SUFFICES ASSUME NEW id \in AllIds, a.scope.table[id] # 0
                 PROVE  Found(t, s, n, b, id)
    BY <1>3, <1>4 DEF Refound, Found
  <2>2. Found(t, s, p, a, id)
    BY <1>3, <2>1 DEF Refound
  <2>3. Above(a.tree, a.at) \subseteq Above(b.tree, b.at) /\ n \in Above(b.tree, b.at)
    BY <1>2, <1>4, <1>5, <1>6
  <2> QED
    BY <1>4, <1>5, <2>1, <2>2, <2>3, SMTT(30) DEF Found
<1>10. Straight(t, s, n, b)
  BY <1>4, <1>5, <1>7 DEF Straight
<1> QED
  BY <1>2, <1>3, <1>4, <1>8, <1>9, <1>10 DEF Forking, Grew

\* The child that a node is forked into.
LEMMA ForkChild ==
  ASSUME NEW t, NEW s, NEW n, NEW a, ForkAt(t, s, n, a), a.ok, s.table[t.label[n].id] # 0
  PROVE  Childed(a.tree, GetPropertyTreeChild(a.tree, a.at, a.tree.label[n]), a.at, a.tree.label[n])
<1>1. /\ Forkable(t, s) /\ n \in Above(t, s.lastProp) /\ a \in ForkStates /\ Forking(t, s, t.up[n], a)
  BY DEF ForkAt
<1>2. /\ Usable(a.tree) /\ Grows(a.tree) /\ Grew(t, a.tree) /\ a.at \in LiveNodes(a.tree) \cup {0}
      /\ n \in LiveNodes(t) /\ a.tree.label[n] = t.label[n]
  BY ForkAtIs
<1>3. Carried(t, s, t.up[n], a)
  BY <1>1 DEF Forking
<1>4. Usable(t) /\ Above(t, n) = {n} \cup Above(t, t.up[n]) /\ t.label[n] \in GoodLabels
  BY <1>1, ForkableIs
<1>5. ASSUME t.label[n].id \in Hidden, a.at # 0 PROVE a.tree.label[a.at].id \in Hidden
  <2>1. a.at \in Above(a.tree, a.at)
    BY <1>2, <1>5, UsableIs, LineIs
  <2>2. PICK m \in Above(t, t.up[n]) : a.tree.label[a.at] = t.label[m]
    BY <1>3, <2>1 DEF Carried
  <2>3. t.label[m].id \in Hidden
    BY <1>2, <1>4, <1>5, HiddenAbove
  <2> QED
    BY <2>2, <2>3
<1> QED
  BY <1>2, <1>4, <1>5, ChildFits

LEMMA ForkFails ==
  ASSUME NEW t, NEW s, NEW n, NEW a, ForkAt(t, s, n, a), a.ok,
         NEW u, Usable(u), Grew(a.tree, u), NEW b, b = [a EXCEPT !.tree = u, !.ok = FALSE]
  PROVE  b \in ForkStates /\ Forking(t, s, n, b)
<1>1. /\ Forkable(t, s) /\ n \in Above(t, s.lastProp) /\ a \in ForkStates /\ Forking(t, s, t.up[n], a)
  BY DEF ForkAt
<1>2. /\ Usable(a.tree) /\ Grows(a.tree) /\ Grew(t, a.tree) /\ a.scope.hashed /\ a.at \in LiveNodes(a.tree) \cup {0}
  BY ForkAtIs
<1>3. /\ Refound(t, s, t.up[n], a) /\ (Straight(t, s, t.up[n], a) \/ Diverged(t, s, a)) /\ SameBut(s, a.scope)
  BY <1>1 DEF Forking
<1>4. u \in TreesOf(GoodLabels)
  BY DEF Usable, Grows
<1>5. b \in ForkStates /\ b.tree = u /\ b.scope = a.scope /\ b.at = a.at /\ b.ok = FALSE
  BY <1>1, <1>4 DEF ForkStates
<1>6. Abandoned(s, b)
  <2>1. CASE Straight(t, s, t.up[n], a)
    BY <1>5, <2>1 DEF Straight, Abandoned
  <2>2. CASE Diverged(t, s, a)
    <3>1. PICK id \in AllIds : a.scope.table[id] # 0 /\ a.scope.table[id] \notin Above(t, s.lastProp)
      BY <2>2 DEF Diverged, Strays
    <3>2. s.table[id] # 0 /\ a.scope.table[id] \in LiveNodes(a.tree) /\ a.tree.label[a.scope.table[id]].id = id
      BY <1>3, <3>1 DEF Refound, Found
    <3>3. Above(u, s.lastProp) = Above(t, s.lastProp)
      <4>1. Grew(t, u) /\ Grows(u) /\ Grows(t) /\ s.lastProp \in LiveNodes(t) \cup {0}
        BY <1>1, <1>2, SameGrew, ForkableIs DEF Usable
      <4> QED
        BY <4>1, GrewLine
    <3>4. Astray(u, a.scope, id)
      BY <1>2, <1>3, <3>1, <3>2, <3>3 DEF Astray, SameBut, Grew
    <3> QED
      BY <1>5, <3>2, <3>4 DEF Abandoned
  <2> QED
    BY <1>3, <2>1, <2>2
<1>7. Grew(t, u) /\ a.at \in LiveNodes(u) \cup {0}
  BY <1>2, SameGrew DEF Grew
<1> QED
  BY <1>3, <1>5, <1>6, <1>7 DEF Forking

LEMMA ForkStores ==
  ASSUME NEW s \in Scopes, s.hashed, NEW id \in AllIds, NEW k \in Nodes
  PROVE  /\ Store(s, id, k) \in Scopes /\ SameBut(s, Store(s, id, k))
         /\ \A jd \in AllIds : Store(s, id, k).table[jd] = IF jd = id THEN k ELSE s.table[jd]
<1> DEFINE u == Store(s, id, k)
<1>1. s.table \in [AllIds -> Nodes \cup {0}]
  BY DEF Scopes
<1>2. u = [s EXCEPT !.table = [s.table EXCEPT ![id] = k]]
  BY DEF Store, Scopes
<1>3. [s.table EXCEPT ![id] = k] \in [AllIds -> Nodes \cup {0}]
  BY <1>1
<1> HIDE DEF u
<1>4. u \in Scopes
  BY <1>2, <1>3 DEF Scopes
<1>5. u.lastProp = s.lastProp /\ u.count = s.count /\ u.freeslot = s.freeslot /\ u.nargs = s.nargs
  BY <1>2 DEF Scopes
<1>6. u.hashed = s.hashed
  BY <1>2 DEF Scopes
<1>7. u.middle = s.middle
  BY <1>2 DEF Scopes
<1>8. u.table = [s.table EXCEPT ![id] = k]
  BY <1>2 DEF Scopes
<1>9. \A jd \in AllIds : u.table[jd] = IF jd = id THEN k ELSE s.table[jd]
  BY <1>1, <1>8
<1> QED
  BY <1>4, <1>5, <1>6, <1>7, <1>9 DEF SameBut, u

\* A node is forked.
LEMMA ForkForks ==
  ASSUME NEW t, NEW s, NEW n, NEW a, ForkAt(t, s, n, a), a.ok, s.table[t.label[n].id] # 0, a.tree.up[n] # a.at,
         NEW u, Usable(u), Grew(a.tree, u), NEW k \in LiveNodes(u), u.label[k] = a.tree.label[n], u.up[k] = a.at,
         NEW b, b = [tree |-> u, scope |-> Store(a.scope, t.label[n].id, k), at |-> k, ok |-> TRUE]
  PROVE  b \in ForkStates /\ Forking(t, s, n, b)
<1> DEFINE p == t.up[n]
           id == t.label[n].id
           L == Above(t, s.lastProp)
           A == Above(a.tree, a.at)
           B == Above(u, k)
<1>1. /\ Forkable(t, s) /\ n \in L /\ a \in ForkStates /\ Forking(t, s, p, a)
  BY DEF ForkAt
<1>2. /\ Usable(a.tree) /\ Grows(a.tree) /\ Grew(t, a.tree) /\ a.scope.hashed /\ a.at \in LiveNodes(a.tree) \cup {0}
      /\ a.scope \in Scopes /\ n \in LiveNodes(t) /\ n \in Nodes /\ id \in AllIds /\ a.tree.label[n] = t.label[n]
  BY ForkAtIs
<1>3. Carried(t, s, p, a) /\ Refound(t, s, p, a) /\ SameBut(s, a.scope)
  BY <1>1 DEF Forking
<1>4. /\ Above(t, n) = {n} \cup Above(t, p) /\ n \notin Above(t, p) /\ Above(t, n) \subseteq L
      /\ Grows(t) /\ L \subseteq LiveNodes(t)
  BY <1>1, ForkableIs
<1>5. Grows(u) /\ u \in TreesOf(GoodLabels) /\ Grew(t, u) /\ k \in Nodes /\ k # 0 /\ u.up \in [Nodes -> Nodes \cup {0}]
      /\ Rooting(u)
  BY <1>2, SameGrew, UsableIs DEF Usable, Grows
<1>6. b.tree = u /\ b.at = k /\ b.ok = TRUE
  OBVIOUS
<1>7. /\ b.scope \in Scopes /\ SameBut(a.scope, b.scope)
      /\ \A jd \in AllIds : b.scope.table[jd] = IF jd = id THEN k ELSE a.scope.table[jd]
  BY <1>2, <1>5, ForkStores
<1>8. b \in ForkStates
  BY <1>5, <1>7 DEF ForkStates
<1>9. k \notin L
  BY <1>1, <1>2, ForkLeaves
<1>10. B = {k} \cup A /\ (\A m \in A : u.label[m] = a.tree.label[m])
  <2>1. Above(u, a.at) = A /\ (\A m \in A : u.label[m] = a.tree.label[m])
    BY <1>2, <1>5, GrewLine
  <2>2. B = {k} \cup Above(u, u.up[k])
    BY <1>5, AboveIs
  <2> QED
    BY <2>1, <2>2
<1>11. k \notin A
  <2>1. k \notin Above(u, u.up[k])
    BY <1>5, LineIs
  <2>2. Above(u, a.at) = A
    BY <1>2, <1>5, GrewLine
  <2> QED
    BY <2>1, <2>2
<1> HIDE DEF p, id, L, A, B
<1>12. \A j \in A : \E m \in Above(t, p) : u.label[j] = t.label[m] /\ s.table[t.label[m].id] # 0
  BY <1>3, <1>10 DEF Carried, A
<1>13. \A j \in A : u.label[j].id = id => id \in Hidden
  <2>1. SUFFICES ASSUME NEW j \in A, u.label[j].id = id PROVE id \in Hidden
    OBVIOUS
  <2>2. PICK m \in Above(t, p) : u.label[j] = t.label[m]
    BY <1>12
  <2>3. m \in L /\ m # n /\ t.label[m].id = t.label[n].id
    BY <1>4, <2>1, <2>2 DEF id
  <2>4. Unique(t, L)
    BY <1>1 DEF Forkable, L
  <2> QED
    BY <1>1, <2>3, <2>4 DEF Unique, id
<1>14. Carried(t, s, n, b)
  <2>1. \A j \in B : \E m \in Above(t, n) : u.label[j] = t.label[m] /\ s.table[t.label[m].id] # 0
    BY <1>2, <1>4, <1>10, <1>12
  <2>2. Unique(u, B)
    <3>1. Unique(a.tree, A)
      BY <1>3 DEF Carried, A
    <3>2. SUFFICES ASSUME NEW i \in B, NEW j \in B, u.label[i].id = u.label[j].id, i # j PROVE u.label[i].id \in Hidden
      BY DEF Unique
    <3>3. u.label[k].id = id
      BY <1>2 DEF id
    <3>4. CASE i \in A /\ j \in A
      BY <1>10, <3>1, <3>2, <3>4 DEF Unique
    <3>5. CASE ~(i \in A /\ j \in A)
      BY <1>10, <1>13, <3>2, <3>3, <3>5
    <3> QED
      BY <3>4, <3>5
  <2> QED
    BY <1>6, <2>1, <2>2 DEF Carried, B
<1>15. Refound(t, s, n, b)
  <2>1. ASSUME NEW jd \in AllIds, jd # id PROVE (b.scope.table[jd] = 0 <=> s.table[jd] = 0) /\ Found(t, s, n, b, jd)
    <3>1. b.scope.table[jd] = a.scope.table[jd] /\ (a.scope.table[jd] = 0 <=> s.table[jd] = 0) /\ Found(t, s, p, a, jd)
      BY <1>3, <1>7, <2>1, SMTT(30) DEF Refound
    <3>2. SUFFICES ASSUME a.scope.table[jd] # 0 PROVE Found(t, s, n, b, jd)
      BY <3>1 DEF Found
    <3> DEFINE c == a.scope.table[jd]
    <3>3. /\ c \in LiveNodes(a.tree) /\ a.tree.label[c].id = jd
          /\ jd \notin Hidden => a.tree.label[c] = t.label[s.table[jd]]
          /\ c \in A \/ (c \in L /\ c \notin Above(t, p))
      BY <3>1, <3>2 DEF Found, A, L
    <3>4. c # n
      BY <1>2, <2>1, <3>3 DEF id
    <3>5. c \in LiveNodes(u) /\ u.label[c] = a.tree.label[c]
      BY <3>3 DEF Grew
    <3>6. c \in B \/ (c \in L /\ c \notin Above(t, n))
      BY <1>4, <1>10, <3>3, <3>4
    <3> HIDE DEF c
    <3>7. b.scope.table[jd] = c
      BY <3>1 DEF c
    <3> QED
      BY <1>6, <3>3, <3>5, <3>6, <3>7 DEF Found, B, L
  <2>2. b.scope.table[id] = k /\ k # 0 /\ s.table[id] # 0
    BY <1>2, <1>5, <1>7 DEF id
  <2>3. Found(t, s, n, b, id)
    <3>1. id \notin Hidden => s.table[id] = n
      <4>1. s.table[id] \in L /\ t.label[s.table[id]].id = id /\ Unique(t, L)
        BY <1>1, <1>2, <2>2, ForkableIs DEF L, Forkable
      <4> QED
        BY <1>1, <4>1 DEF Unique, id
    <3>2. u.label[k].id = id /\ (id \notin Hidden => u.label[k] = t.label[s.table[id]])
      BY <1>2, <3>1 DEF id
    <3>3. k \in B
      BY <1>10
    <3> QED
      BY <1>6, <2>2, <3>2, <3>3 DEF Found, B
  <2> QED
    BY <2>1, <2>2, <2>3 DEF Refound
<1>16. Diverged(t, s, b)
  BY <1>2, <1>5, <1>6, <1>7, <1>9 DEF Diverged, Strays, L
<1>17. SameBut(s, b.scope)
  BY <1>3, <1>7 DEF SameBut
<1> QED
  BY <1>5, <1>6, <1>8, <1>14, <1>15, <1>16, <1>17 DEF Forking

LEMMA ForkStep ==
  ASSUME NEW t, NEW s, NEW n, NEW a, ForkAt(t, s, n, a)
  PROVE  Fork(a, s, n) \in ForkStates /\ Forking(t, s, n, Fork(a, s, n))
<1>1. /\ a \in ForkStates /\ Forking(t, s, t.up[n], a)
  BY DEF ForkAt
<1>2. /\ Grew(t, a.tree) /\ a.tree.label[n] = t.label[n]
      /\ SearchScope(a.tree, s, a.tree.label[n].id) = s.table[t.label[n].id]
  BY ForkAtIs
<1>3. CASE ~a.ok
  <2>1. Fork(a, s, n) = a
    BY <1>3 DEF Fork
  <2>2. Forking(t, s, n, a)
    BY <1>1, <1>3 DEF Forking
  <2> QED
    BY <1>1, <2>1, <2>2
<1>4. CASE a.ok /\ s.table[t.label[n].id] = 0
  <2>1. Fork(a, s, n) = a
    BY <1>2, <1>4 DEF Fork
  <2>2. Forking(t, s, n, a)
    BY <1>4, ForkPasses
  <2> QED
    BY <1>1, <2>1, <2>2
<1>5. CASE a.ok /\ s.table[t.label[n].id] # 0
  <2> DEFINE label == a.tree.label[n]
             g == GetPropertyTreeChild(a.tree, a.at, a.tree.label[n])
  <2>1. Fork(a, s, n) = Forked(a, n, label, g)
    BY <1>2, <1>5 DEF Fork
  <2>2. Childed(a.tree, g, a.at, label)
    BY <1>5, ForkChild
  <2> HIDE DEF g
  <2>3. CASE a.tree.up[n] = a.at
    <3>1. Forked(a, n, label, g) = [a EXCEPT !.at = n]
      BY <2>3 DEF Forked
    <3> QED
      BY <1>5, <2>1, <2>3, <3>1, ForkGoesOn
  <2>4. CASE a.tree.up[n] # a.at /\ g.node # 0
    <3> DEFINE b == [tree |-> g.tree, scope |-> Store(a.scope, t.label[n].id, g.node), at |-> g.node, ok |-> TRUE]
    <3>1. Forked(a, n, label, g) = b
      BY <1>2, <2>4 DEF Forked
    <3>2. /\ Usable(g.tree) /\ Grew(a.tree, g.tree) /\ g.node \in LiveNodes(g.tree)
          /\ g.tree.label[g.node] = a.tree.label[n] /\ g.tree.up[g.node] = a.at
      BY <2>2, <2>4 DEF Childed
    <3>3. b \in ForkStates /\ Forking(t, s, n, b)
      BY <1>5, <2>4, <3>2, ForkForks
    <3> QED
      BY <2>1, <3>1, <3>3
  <2>5. CASE a.tree.up[n] # a.at /\ g.node = 0
    <3>1. Forked(a, n, label, g) = [a EXCEPT !.tree = g.tree, !.ok = FALSE]
      BY <2>5 DEF Forked
    <3>2. Usable(g.tree) /\ Grew(a.tree, g.tree)
      BY <2>2 DEF Childed
    <3> QED
      BY <1>5, <2>1, <3>1, <3>2, ForkFails
  <2> QED
    BY <2>3, <2>4, <2>5
<1> QED
  BY <1>3, <1>4, <1>5

LEMMA ForkStarts ==
  ASSUME NEW t, NEW s, Forkable(t, s), NEW a, a = [tree |-> t, scope |-> s, at |-> 0, ok |-> TRUE]
  PROVE  a \in ForkStates /\ Forking(t, s, 0, a)
<1>1. /\ Usable(t) /\ Grows(t) /\ s \in Scopes /\ t.up \in [Nodes -> Nodes \cup {0}] /\ Rooting(t)
      /\ \A id \in AllIds : s.table[id] # 0 => s.table[id] \in Above(t, s.lastProp) /\ t.label[s.table[id]].id = id
      /\ Above(t, s.lastProp) \subseteq LiveNodes(t)
  BY ForkableIs
<1>2. t \in TreesOf(GoodLabels)
  BY <1>1 DEF Grows
<1>3. a \in ForkStates
  BY <1>1, <1>2 DEF ForkStates
<1>4. Above(t, 0) = {}
  BY <1>1, AboveIs
<1>5. a.tree = t /\ a.scope = s /\ a.at = 0 /\ a.ok = TRUE
  OBVIOUS
<1>6. Carried(t, s, 0, a)
  BY <1>4, <1>5 DEF Carried, Unique
<1>7. Refound(t, s, 0, a)
  BY <1>1, <1>4, <1>5 DEF Refound, Found
<1>8. Straight(t, s, 0, a)
  BY <1>4, <1>5 DEF Straight
<1> QED
  BY <1>1, <1>3, <1>5, <1>6, <1>7, <1>8, SameGrew DEF Forking, SameBut

LEMMA ToldAlike ==
  ASSUME NEW t, t.up \in [Nodes -> Nodes \cup {0}], Rooting(t), NEW m \in Nodes,
         NEW u, u.up \in [Nodes -> Nodes \cup {0}], Rooting(u), NEW k \in Nodes, u.label[k] = t.label[m],
         NEW S \in SUBSET AllIds, \A C \in SUBSET S : Told(u, u.up[k], C) = Told(t, t.up[m], C)
  PROVE  \A B \in SUBSET S : Told(u, k, B) = Told(t, m, B)
<1> SUFFICES ASSUME NEW B \in SUBSET S PROVE Told(u, k, B) = Told(t, m, B)
  OBVIOUS
<1> DEFINE id == t.label[m].id
<1>1. PropertyOf(u, k) = PropertyOf(t, m)
  BY DEF PropertyOf
<1>2. B \in SUBSET AllIds /\ B \ {id} \in SUBSET S
  OBVIOUS
<1>3. CASE id \in B
  <2>1. Told(u, k, B) = Append(Told(u, u.up[k], B \ {id}), PropertyOf(u, k))
    BY <1>2, <1>3, ToldOn
  <2>2. Told(t, m, B) = Append(Told(t, t.up[m], B \ {id}), PropertyOf(t, m))
    BY <1>2, <1>3, ToldOn
  <2>3. Told(u, u.up[k], B \ {id}) = Told(t, t.up[m], B \ {id})
    BY <1>2
  <2> QED
    BY <1>1, <2>1, <2>2, <2>3
<1>4. CASE id \notin B
  <2>1. Told(u, k, B) = Told(u, u.up[k], B)
    BY <1>2, <1>4, ToldOff
  <2>2. Told(t, m, B) = Told(t, t.up[m], B)
    BY <1>2, <1>4, ToldOff
  <2> QED
    BY <2>1, <2>2
<1> QED
  BY <1>3, <1>4

LEMMA ToldGrown ==
  ASSUME NEW t, Grows(t), NEW u, Grows(u), Grew(t, u), NEW n \in LiveNodes(t) \cup {0}, NEW B \in SUBSET AllIds
  PROVE  Told(u, n, B) = Told(t, n, B)
<1>1. \A m \in Above(t, n) : u.label[m] = t.label[m] /\ u.up[m] = t.up[m]
  BY GrewLine
<1>2. /\ t.up \in [Nodes -> Nodes \cup {0}] /\ Rooting(t) /\ n \in Nodes \cup {0}
      /\ u.up \in [Nodes -> Nodes \cup {0}] /\ Rooting(u)
  BY UsableIs
<1> QED
  BY <1>1, <1>2, SameTold

Retold(t, s, n, a) ==
  a.ok => \A B \in SUBSET {id \in AllIds : s.table[id] # 0} : Told(a.tree, a.at, B) = Told(t, n, B)

LEMMA ForkRetells ==
  ASSUME NEW t, NEW s, NEW n, NEW a, ForkAt(t, s, n, a), Retold(t, s, t.up[n], a)
  PROVE  Retold(t, s, n, Fork(a, s, n))
<1> DEFINE S == {id \in AllIds : s.table[id] # 0}
<1>1. /\ Forkable(t, s) /\ n \in Above(t, s.lastProp) /\ a \in ForkStates /\ Forking(t, s, t.up[n], a)
  BY DEF ForkAt
<1>2. /\ Grows(a.tree) /\ Grew(t, a.tree) /\ a.tree.label[n] = t.label[n] /\ n \in Nodes /\ t.label[n].id \in AllIds
      /\ SearchScope(a.tree, s, a.tree.label[n].id) = s.table[t.label[n].id] /\ a.at \in LiveNodes(a.tree) \cup {0}
  BY ForkAtIs
<1>3. t.up \in [Nodes -> Nodes \cup {0}] /\ Rooting(t) /\ a.tree.up \in [Nodes -> Nodes \cup {0}] /\ Rooting(a.tree)
  BY <1>1, <1>2, ForkableIs, UsableIs
<1>4. a.ok => \A B \in SUBSET S : Told(a.tree, a.at, B) = Told(t, t.up[n], B)
  BY DEF Retold
<1>5. S \in SUBSET AllIds
  OBVIOUS
<1>6. CASE ~a.ok
  BY <1>6 DEF Fork, Retold
<1>7. CASE a.ok /\ s.table[t.label[n].id] = 0
  <2>1. Fork(a, s, n) = a
    BY <1>2, <1>7 DEF Fork
  <2>2. SUFFICES ASSUME NEW B \in SUBSET S PROVE Told(a.tree, a.at, B) = Told(t, n, B)
    BY <2>1 DEF Retold
  <2>3. t.label[n].id \notin B /\ B \in SUBSET AllIds
    BY <1>7
  <2>4. Told(t, n, B) = Told(t, t.up[n], B)
    BY <1>2, <1>3, <2>3, ToldOff
  <2> QED
    BY <1>4, <1>7, <2>4
<1>8. CASE a.ok /\ s.table[t.label[n].id] # 0
  <2> DEFINE label == a.tree.label[n]
             g == GetPropertyTreeChild(a.tree, a.at, a.tree.label[n])
  <2>1. Fork(a, s, n) = Forked(a, n, label, g)
    BY <1>2, <1>8 DEF Fork
  <2>2. Childed(a.tree, g, a.at, label)
    BY <1>8, ForkChild
  <2> HIDE DEF g
  <2>3. CASE a.tree.up[n] = a.at
    <3> DEFINE b == [a EXCEPT !.at = n]
    <3>1. Fork(a, s, n) = b
      BY <2>1, <2>3 DEF Forked
    <3>2. b.tree = a.tree /\ b.at = n
      BY <1>1 DEF ForkStates
    <3>3. \A B \in SUBSET S : Told(a.tree, n, B) = Told(t, n, B)
      <4> HIDE DEF S
      <4> QED
        BY <1>2, <1>3, <1>4, <1>5, <1>8, <2>3, ToldAlike
    <3> QED
      BY <3>1, <3>2, <3>3 DEF Retold
  <2>4. CASE a.tree.up[n] # a.at /\ g.node # 0
    <3> DEFINE b == [tree |-> g.tree, scope |-> Store(a.scope, t.label[n].id, g.node), at |-> g.node, ok |-> TRUE]
    <3>1. Fork(a, s, n) = b
      BY <1>2, <2>1, <2>4 DEF Forked
    <3>2. /\ Grows(g.tree) /\ Grew(a.tree, g.tree) /\ g.node \in LiveNodes(g.tree)
          /\ g.tree.label[g.node] = t.label[n] /\ g.tree.up[g.node] = a.at
      BY <1>2, <2>2, <2>4 DEF Childed, Usable
    <3>3. g.node \in Nodes /\ g.tree.up \in [Nodes -> Nodes \cup {0}] /\ Rooting(g.tree)
      BY <3>2, UsableIs
    <3>4. \A B \in SUBSET S : Told(g.tree, g.tree.up[g.node], B) = Told(t, t.up[n], B)
      <4>1. \A B \in SUBSET S : Told(g.tree, a.at, B) = Told(a.tree, a.at, B)
        BY <1>2, <1>5, <3>2, ToldGrown
      <4> QED
        BY <1>4, <1>8, <3>2, <4>1
    <3>5. \A B \in SUBSET S : Told(g.tree, g.node, B) = Told(t, n, B)
      <4> DEFINE w == g.tree
                 k == g.node
      <4>1. k \in Nodes /\ n \in Nodes /\ w.up \in [Nodes -> Nodes \cup {0}] /\ Rooting(w) /\ w.label[k] = t.label[n]
        BY <1>2, <3>2, <3>3
      <4>2. \A B \in SUBSET S : Told(w, w.up[k], B) = Told(t, t.up[n], B)
        BY <3>4
      <4> HIDE DEF S, w, k
      <4>3. \A B \in SUBSET S : Told(w, k, B) = Told(t, n, B)
        BY <1>3, <1>5, <4>1, <4>2, ToldAlike
      <4> QED
        BY <4>3 DEF w, k
    <3>6. b.tree = g.tree /\ b.at = g.node
      OBVIOUS
    <3> HIDE DEF b
    <3> QED
      BY <3>1, <3>5, <3>6 DEF Retold
  <2>5. CASE a.tree.up[n] # a.at /\ g.node = 0
    <3>1. Fork(a, s, n) = [a EXCEPT !.tree = g.tree, !.ok = FALSE]
      BY <2>1, <2>5 DEF Forked
    <3>2. Fork(a, s, n).ok = FALSE
      BY <1>1, <3>1 DEF ForkStates
    <3> QED
      BY <3>2 DEF Retold
  <2> QED
    BY <2>3, <2>4, <2>5
<1> QED
  BY <1>6, <1>7, <1>8

LEMMA ForkLineTells ==
  ASSUME NEW t, NEW s, Forkable(t, s), NEW start, start = [tree |-> t, scope |-> s, at |-> 0, ok |-> TRUE]
  PROVE  /\ ForkLine(start, t, s) \in ForkStates /\ Forking(t, s, s.lastProp, ForkLine(start, t, s))
         /\ Retold(t, s, s.lastProp, ForkLine(start, t, s))
<1> DEFINE D == ForkStates
           N == Above(t, s.lastProp)
           J == [n \in N \cup {0} |-> {a \in D : Forking(t, s, n, a) /\ Retold(t, s, n, a)}]
           g == [x \in D \X N |-> IF Fork(x[1], s, x[2]) \in D THEN Fork(x[1], s, x[2]) ELSE x[1]]
           Runs(f) == f = [n \in Above(t, s.lastProp) \cup {0} |-> IF n = 0 THEN start ELSE Fork(f[t.up[n]], s, n)]
           fork == CHOOSE f : Runs(f)
<1>1. /\ t.up \in [Nodes -> Nodes \cup {0}] /\ Rooting(t) /\ 0 \notin Nodes /\ s.lastProp \in Nodes \cup {0}
      /\ N \subseteq Nodes /\ \A n \in N : t.up[n] \in N \cup {0}
  BY ForkableIs
<1>2. Upward(t, N) /\ (s.lastProp \in Nodes => s.lastProp \in N)
  BY <1>1, LineIs
<1>3. start \in J[0]
  <2>1. start \in D /\ Forking(t, s, 0, start)
    BY ForkStarts
  <2>2. Retold(t, s, 0, start)
    BY DEF Retold
  <2> QED
    BY <2>1, <2>2
<1>4. g \in [D \X N -> D]
  OBVIOUS
<1>5. \A n \in N \cup {0} : J[n] \subseteq D
  OBVIOUS
<1>6. ASSUME NEW n \in N, NEW a \in J[t.up[n]]
      PROVE  g[<<a, n>>] = Fork(a, s, n) /\ g[<<a, n>>] \in J[n]
  <2>1. a \in D /\ Forking(t, s, t.up[n], a) /\ Retold(t, s, t.up[n], a)
    BY <1>1
  <2>2. ForkAt(t, s, n, a)
    BY <2>1 DEF ForkAt
  <2>3. Fork(a, s, n) \in D /\ Forking(t, s, n, Fork(a, s, n)) /\ Retold(t, s, n, Fork(a, s, n))
    BY <2>1, <2>2, ForkStep, ForkRetells
  <2>4. g[<<a, n>>] = Fork(a, s, n)
    BY <2>1, <2>3
  <2> QED
    BY <2>3, <2>4
<1>7. \A n \in N \cup {0} : \A a \in J[n] : a \in D /\ Forking(t, s, n, a) /\ Retold(t, s, n, a)
  OBVIOUS
<1> HIDE DEF D, J, g
<1>8. KeepsUp(t, N, D, J, start, g)
  BY <1>1, <1>2, <1>3, <1>4, <1>5, <1>6 DEF KeepsUp
<1>9. \E f \in [N \cup {0} -> D] : RunUp(t, N, J, start, g, f)
  BY <1>8, LineRuns
<1>10. PICK f \in [N \cup {0} -> D] : RunUp(t, N, J, start, g, f)
  BY <1>9
<1>11. Runs(f)
  <2>1. f[0] = start /\ \A n \in N : f[n] = Fork(f[t.up[n]], s, n)
    BY <1>6, <1>10 DEF RunUp
  <2>2. 0 \notin N
    BY <1>1
  <2> QED
    BY <2>1, <2>2
<1>12. Runs(fork)
  <2> HIDE DEF Runs
  <2> QED
    BY <1>11, Zenon
<1>13. ForkLine(start, t, s) = fork[s.lastProp]
  BY DEF ForkLine
<1>14. fork[0] = start /\ \A n \in N : fork[n] = Fork(fork[t.up[n]], s, n)
  <2> HIDE DEF fork
  <2>1. 0 \notin N
    BY <1>1
  <2> QED
    BY <1>12, <2>1
<1> HIDE DEF fork
<1>15. \A n \in N \cup {0} : fork[n] \in J[n]
  <2> DEFINE P == {n \in N \cup {0} : fork[n] \in J[n]}
  <2>1. 0 \in P /\ \A n \in N : t.up[n] \in P => n \in P
    BY <1>3, <1>6, <1>14
  <2> HIDE DEF P
  <2>2. N \subseteq P
    BY <1>1, <1>2, <2>1, LineInduction
  <2> QED
    BY <2>1, <2>2 DEF P
<1>16. s.lastProp \in N \cup {0}
  BY <1>1, <1>2
<1> QED
  BY <1>7, <1>13, <1>15, <1>16 DEF D

\* The fork has come to the last node, and the scope ends there.
LEMMA DenseIs ==
  ASSUME NEW t, NEW s, NEW label, NEW over, Open(t, s, label, over), s.hashed, Forkable(t, s),
         NEW a \in ForkStates, a.ok, Forking(t, s, s.lastProp, a),
         NEW u, u = [a.scope EXCEPT !.lastProp = a.at, !.middle = FALSE]
  PROVE  Open(a.tree, u, label, over) /\ u.middle = FALSE
<1> DEFINE H == Leaving(label.id, over)
           L == Above(t, s.lastProp)
           id == label.id
           M == s.table
           N == a.scope.table
           w == a.tree
           A == Above(w, a.at)
<1>1. /\ Usable(t) /\ Grows(t) /\ s \in Scopes /\ s.lastProp \in LiveNodes(t) \cup {0} /\ id \in AllIds
      /\ Fits(t, s, H) /\ Over(t, s, L, MapOf(t, s), id, over) /\ Named(t, s, MapOf(t, s), H, label)
  BY OpenIs
<1>2. /\ Usable(w) /\ Grows(w) /\ Grew(t, w) /\ SameBut(s, a.scope) /\ a.at \in LiveNodes(w) \cup {0}
      /\ Carried(t, s, s.lastProp, a) /\ Refound(t, s, s.lastProp, a)
  BY DEF Forking, Usable
<1>3. t.up \in [Nodes -> Nodes \cup {0}] /\ Rooting(t) /\ w.up \in [Nodes -> Nodes \cup {0}] /\ Rooting(w)
      /\ a.at \in Nodes \cup {0} /\ LiveNodes(w) \subseteq Nodes /\ 0 \notin Nodes
  BY <1>1, <1>2, UsableIs
<1>4. MapOf(t, s) = M
  BY <1>1, <1>3, MapIs
<1>5. a.scope \in Scopes /\ a.scope.hashed
  BY <1>2 DEF ForkStates, SameBut
<1>6. u \in Scopes
  BY <1>3, <1>5 DEF Scopes
<1>7. u.lastProp = a.at /\ u.count = s.count /\ u.freeslot = s.freeslot /\ u.table = N
  BY <1>2, <1>5 DEF Scopes, SameBut
<1>8. u.hashed
  BY <1>5 DEF Scopes
<1>9. u.middle = FALSE
  BY <1>5 DEF Scopes
<1>10. MapOf(w, u) = N
  BY <1>3, <1>6, <1>7, <1>8, MapIs, ZenonT(30)
<1>11. Mapping(t, L, M) /\ Unique(t, L) /\ Counted(s, M, H) /\ Slotted(t, s, M, H)
  BY <1>1, <1>4 DEF Fits, Holds
<1>12. \A k \in A : w.label[k].id \in AllIds /\ \E m \in L : w.label[k] = t.label[m] /\ M[t.label[m].id] # 0
  BY <1>2, LineLabels DEF Carried
<1>13. \A jd \in AllIds : /\ N[jd] = 0 <=> M[jd] = 0
                          /\ N[jd] # 0 => /\ N[jd] \in A /\ w.label[N[jd]].id = jd
                                          /\ jd \notin Hidden => w.label[N[jd]] = t.label[M[jd]]
  BY <1>2 DEF Refound, Found
<1>14. \A m \in A : w.label[m].id \in Hidden => Shared(w.label[m])
  BY <1>2, LineLabels
<1>141. Unique(w, A)
  BY <1>2 DEF Carried
<1> HIDE DEF H, L, M, N, w, A
<1>15. Mapping(w, A, N) /\ Unique(w, A)
  BY <1>13, <1>141 DEF Mapping
<1>16. Covered(w, u, A, N, H)
  BY <1>12, <1>13 DEF Covered
<1>17. Counted(u, N, H)
  <2>1. BoundIds(N, H) = BoundIds(M, H)
    BY <1>13 DEF BoundIds
  <2> QED
    BY <1>7, <1>11, <2>1 DEF Counted
<1>18. \A jd \in AllIds : Owns(w, N, jd) => Owns(t, M, jd) /\ w.label[N[jd]] = t.label[M[jd]]
  <2>1. SUFFICES ASSUME NEW jd \in AllIds, N[jd] # 0, ~Shared(w.label[N[jd]])
                 PROVE  Owns(t, M, jd) /\ w.label[N[jd]] = t.label[M[jd]]
    BY DEF Owns
  <2>2. N[jd] \in A /\ w.label[N[jd]].id = jd
    BY <1>13, <2>1
  <2>3. jd \notin Hidden
    BY <1>14, <2>1, <2>2
  <2> QED
    BY <1>13, <2>1, <2>3 DEF Owns
<1>19. Slotted(w, u, N, H)
  <2>1. ASSUME NEW jd \in AllIds \ H, Owns(w, N, jd)
        PROVE  w.label[N[jd]].slot \in Nat /\ w.label[N[jd]].slot < u.freeslot
    BY <1>7, <1>11, <1>18, <2>1 DEF Slotted
  <2>2. ASSUME NEW jd \in AllIds \ H, NEW kd \in AllIds \ H, Owns(w, N, jd), Owns(w, N, kd),
               w.label[N[jd]].slot = w.label[N[kd]].slot
        PROVE  jd = kd
    BY <1>11, <1>18, <2>2 DEF Slotted
  <2> QED
    BY <2>1, <2>2 DEF Slotted
<1>20. Fits(w, u, H)
  <2>1. Holds(w, u, A, N, H)
    BY <1>15, <1>16, <1>17, <1>19 DEF Holds
  <2>2. u.lastProp \in LiveNodes(w) \cup {0}
    BY <1>2, <1>7
  <2>3. ~u.middle
    BY <1>9
  <2> QED
    BY <1>6, <1>7, <1>10, <2>1, <2>2, <2>3 DEF Fits, A
<1>21. \A K, l : Fresh(t, s, M, K, l) => Fresh(w, u, N, K, l)
  BY <1>7, <1>18 DEF Fresh
<1>22. Over(w, u, A, N, id, over)
  <2>1. CASE over = 0
    BY <1>1, <1>4, <1>13, <2>1 DEF Over
  <2>2. CASE over # 0
    <3>1. /\ over \in LiveNodes(t) /\ t.label[over].id = id /\ Fresh(t, s, M, {id}, t.label[over]) /\ M[id] = 0
      BY <1>1, <1>4, <2>2 DEF Over
    <3>2. over \in LiveNodes(w) /\ w.label[over] = t.label[over]
      BY <1>2, <3>1 DEF Grew
    <3>3. N[id] = 0
      BY <1>1, <1>13, <3>1
    <3>4. \A m \in A : w.label[m].id # id
      BY <1>12, <3>1
    <3> QED
      BY <1>21, <2>2, <3>1, <3>2, <3>3, <3>4 DEF Over
  <2> QED
    BY <2>1, <2>2
<1>23. Named(w, u, N, H, label)
  BY <1>1, <1>4, <1>13, <1>21 DEF Named
<1>24. Open(w, u, label, over)
  BY <1>2, <1>7, <1>10, <1>20, <1>22, <1>23 DEF Open, H, A
<1> QED
  BY <1>9, <1>24 DEF w

\* A scope that has nothing is dense.
LEMMA EmptyDense ==
  ASSUME NEW t, NEW s, NEW label, NEW over, Open(t, s, label, over), s.middle, s.count = 0,
         NEW u, u = [s EXCEPT !.middle = FALSE]
  PROVE  Open(t, u, label, over) /\ u.middle = FALSE
<1> DEFINE H == Leaving(label.id, over)
           L == Above(t, s.lastProp)
           id == label.id
           M == MapOf(t, s)
<1>1. /\ Usable(t) /\ Grows(t) /\ s \in Scopes /\ s.lastProp \in LiveNodes(t) \cup {0} /\ id \in AllIds
      /\ Fits(t, s, H) /\ Over(t, s, L, M, id, over) /\ Named(t, s, M, H, label) /\ (s.middle => s.hashed)
  BY OpenIs DEF Fits
<1>2. u \in Scopes
  BY <1>1 DEF Scopes
<1>3. u.lastProp = s.lastProp /\ u.count = s.count /\ u.freeslot = s.freeslot /\ u.table = s.table
  BY <1>1 DEF Scopes
<1>4. u.hashed = s.hashed
  BY <1>1 DEF Scopes
<1>5. u.middle = FALSE
  BY <1>1 DEF Scopes
<1>6. MapOf(t, u) = M
  BY <1>3, <1>4 DEF MapOf, SearchScope
<1>7. Mapping(t, L, M) /\ Unique(t, L) /\ Covered(t, s, L, M, H) /\ Counted(s, M, H) /\ Slotted(t, s, M, H)
  BY <1>1 DEF Fits, Holds
<1>8. L \subseteq LiveNodes(t) /\ \A m \in L : t.label[m].id \in AllIds
  BY <1>1, LineLabels
<1>9. s.lastProp # 0 => s.lastProp \in L
  BY <1>1, UsableIs, LineIs
<1>90. s.lastProp = 0 => L = {}
  BY <1>1, UsableIs, AboveIs
<1>91. s.lastProp # 0 /\ t.label[s.lastProp].id \in Hidden => \A m \in L : t.label[m].id \in Hidden
  BY <1>1, HiddenAbove
<1>10. \A jd \in AllIds : M[jd] # 0 => jd \in H
  <2> HIDE DEF M, H
  <2>1. Cardinality(BoundIds(M, H)) = 0
    BY <1>7 DEF Counted
  <2>2. IsFiniteSet(BoundIds(M, H))
    <3>1. BoundIds(M, H) \subseteq AllIds
      BY DEF BoundIds
    <3> QED
      BY <3>1, PropertyAssumption, FS_Subset
  <2>3. BoundIds(M, H) = {}
    BY <2>1, <2>2, FS_EmptySet
  <2> QED
    BY <2>3 DEF BoundIds
<1>11. H \subseteq {id} /\ (id \in H /\ id \notin Hidden => M[id] = 0)
  BY <1>1 DEF Leaving, Over
<1> HIDE DEF H, L, M
<1>12. \A m \in L : t.label[m].id \in H \cap Hidden
  <2>1. SUFFICES ASSUME NEW m \in L PROVE t.label[m].id \in H \cap Hidden
    OBVIOUS
  <2>2. s.lastProp \in L /\ s.lastProp # 0
    BY <1>9, <1>90
  <2>3. M[t.label[s.lastProp].id] # 0 \/ t.label[s.lastProp].id \in H \cap Hidden
    BY <1>7, <2>2 DEF Covered
  <2>4. t.label[s.lastProp].id \in Hidden
    BY <1>8, <1>10, <1>11, <2>2, <2>3
  <2>5. t.label[m].id \in Hidden
    BY <1>91, <2>2, <2>4
  <2>6. M[t.label[m].id] # 0 \/ t.label[m].id \in H \cap Hidden
    BY <1>7, <2>5 DEF Covered
  <2> QED
    BY <1>8, <1>10, <2>5, <2>6
<1>13. Covered(t, u, L, M, H)
  BY <1>12 DEF Covered
<1>14. Counted(u, M, H) /\ Slotted(t, u, M, H)
  BY <1>3, <1>7 DEF Counted, Slotted
<1>15. Fits(t, u, H)
  BY <1>1, <1>2, <1>3, <1>5, <1>6, <1>7, <1>13, <1>14 DEF Fits, Holds, L
<1>16. \A K, l : Fresh(t, s, M, K, l) => Fresh(t, u, M, K, l)
  BY <1>3 DEF Fresh
<1>17. Over(t, u, L, M, id, over) /\ Named(t, u, M, H, label)
  BY <1>1, <1>4, <1>16 DEF Over, Named
<1> QED
  BY <1>1, <1>3, <1>5, <1>6, <1>15, <1>17 DEF Open, H, L

\* A line that has been forked half-way leaves the scope as it was, or torn.
TornBy(t, s, over) ==
  /\ Usable(t) /\ s \in Scopes /\ s.lastProp \in LiveNodes(t) \cup {0}
  /\ \E id \in AllIds : Astray(t, s, id) /\ (over # 0 => over \in LiveNodes(t) /\ t.label[over].id # id)
  /\ over # 0 /\ t.label[over].id \in Hidden /\ s.lastProp # 0 => t.label[s.lastProp].id \in Hidden
Squeezed(t, label, over, x) ==
  /\ Usable(x.tree) /\ Grew(t, x.tree)
  /\ x.ok => Open(x.tree, x.scope, label, over) /\ ~x.scope.middle
  /\ ~x.ok => Open(x.tree, x.scope, label, over) \/ TornBy(x.tree, x.scope, over)

LEMMA ForkLineSqueezed ==
  ASSUME NEW t, NEW s, NEW label, NEW over, Open(t, s, label, over), s.middle
  PROVE  Squeezed(t, label, over, Dense(ForkLine([tree |-> t, scope |-> s, at |-> 0, ok |-> TRUE], t, s)))
<1> DEFINE a == ForkLine([tree |-> t, scope |-> s, at |-> 0, ok |-> TRUE], t, s)
           L == Above(t, s.lastProp)
           id == label.id
<1>1. /\ Usable(t) /\ Grows(t) /\ s \in Scopes /\ s.lastProp \in LiveNodes(t) \cup {0} /\ id \in AllIds
      /\ Over(t, s, L, MapOf(t, s), id, over) /\ Holds(t, s, L, MapOf(t, s), Leaving(id, over))
      /\ (id \in Hidden /\ s.lastProp # 0 => t.label[s.lastProp].id \in Hidden)
  BY OpenIs
<1>2. s.hashed
  BY OpenIs DEF Fits
<1>3. MapOf(t, s) = s.table
  BY <1>1, <1>2, UsableIs, MapIs
<1>4. Forkable(t, s)
  BY <1>1, <1>2, <1>3 DEF Forkable, Holds
<1>5. a \in ForkStates /\ Forking(t, s, s.lastProp, a)
  BY <1>4, ForkLineTells
<1> HIDE DEF a
<1>6. Usable(a.tree) /\ Grew(t, a.tree) /\ SameBut(s, a.scope)
  BY <1>5 DEF Forking
<1>7. CASE a.ok
  <2> DEFINE u == [a.scope EXCEPT !.lastProp = a.at, !.middle = FALSE]
  <2>1. Dense(a).tree = a.tree /\ Dense(a).scope = u /\ Dense(a).ok
    BY <1>5, <1>7 DEF Dense, ForkStates, Scopes
  <2>2. Open(a.tree, u, label, over) /\ u.middle = FALSE
    BY <1>2, <1>4, <1>5, <1>7, DenseIs
  <2> HIDE DEF u
  <2>3. Squeezed(t, label, over, Dense(a))
    BY <1>6, <2>1, <2>2 DEF Squeezed
  <2> QED
    BY <2>3 DEF a
<1>8. CASE ~a.ok
  <2>1. Dense(a) = a
    BY <1>8 DEF Dense
  <2>2. Abandoned(s, a)
    BY <1>5, <1>8 DEF Forking
  <2>3. CASE a.scope = s
    <3>1. Open(a.tree, s, label, over)
      BY <1>6, OpenGrown
    <3>2. Squeezed(t, label, over, a)
      BY <1>6, <1>8, <2>3, <3>1 DEF Squeezed
    <3> QED
      BY <2>1, <3>2 DEF a
  <2>4. CASE \E jd \in AllIds : s.table[jd] # 0 /\ Astray(a.tree, a.scope, jd)
    <3>1. PICK jd \in AllIds : s.table[jd] # 0 /\ Astray(a.tree, a.scope, jd)
      BY <2>4
    <3>2. over # 0 => over \in LiveNodes(t) /\ t.label[over].id = id /\ id # jd
      BY <1>1, <1>2, <1>3, <3>1 DEF Over
    <3>3. over # 0 => over \in LiveNodes(a.tree) /\ a.tree.label[over].id = id
      BY <1>6, <3>2 DEF Grew
    <3>4. s.lastProp # 0 => s.lastProp \in LiveNodes(a.tree) /\ a.tree.label[s.lastProp] = t.label[s.lastProp]
      BY <1>1, <1>6 DEF Grew
    <3>5. a.scope \in Scopes /\ a.scope.lastProp = s.lastProp
      BY <1>5, <1>6 DEF ForkStates, SameBut
    <3>6. a.scope.lastProp \in LiveNodes(a.tree) \cup {0}
      BY <3>4, <3>5
    <3>7. over # 0 /\ a.tree.label[over].id \in Hidden /\ a.scope.lastProp # 0 => a.tree.label[a.scope.lastProp].id \in Hidden
      BY <1>1, <3>3, <3>4, <3>5
    <3>8. TornBy(a.tree, a.scope, over)
      BY <1>6, <3>1, <3>2, <3>3, <3>5, <3>6, <3>7 DEF TornBy
    <3>9. Squeezed(t, label, over, a)
      BY <1>6, <1>8, <3>8 DEF Squeezed
    <3> QED
      BY <2>1, <3>9 DEF a
  <2> QED
    BY <2>2, <2>3, <2>4 DEF Abandoned
<1> QED
  BY <1>7, <1>8

LEMMA SqueezeIs ==
  ASSUME NEW t, NEW s, NEW label, NEW over, Open(t, s, label, over)
  PROVE  Squeezed(t, label, over, Squeeze(t, s))
<1> DEFINE start == [tree |-> t, scope |-> s, at |-> 0, ok |-> TRUE]
           x == Squeeze(t, s)
<1>1. Usable(t) /\ s \in Scopes
  BY OpenIs
<1>2. CASE ~s.middle
  <2>1. x.tree = t /\ x.scope = s /\ x.ok = TRUE
    BY <1>2 DEF Squeeze
  <2> HIDE DEF x
  <2>2. Squeezed(t, label, over, x)
    BY <1>1, <1>2, <2>1, SameGrew DEF Squeezed
  <2> QED
    BY <2>2 DEF x
<1>3. CASE s.middle /\ s.count = 0
  <2> DEFINE u == [s EXCEPT !.middle = FALSE]
  <2>1. x.tree = t /\ x.scope = u /\ x.ok = TRUE
    BY <1>3 DEF Squeeze
  <2>2. Open(t, u, label, over) /\ u.middle = FALSE
    BY <1>3, EmptyDense
  <2> HIDE DEF x, u
  <2>3. Squeezed(t, label, over, x)
    BY <1>1, <2>1, <2>2, SameGrew DEF Squeezed
  <2> QED
    BY <2>3 DEF x
<1>4. CASE s.middle /\ s.count # 0 /\ t.fault = "vector"
  <2>1. x.tree = t /\ x.scope = s /\ x.ok = FALSE
    BY <1>4 DEF Squeeze
  <2> HIDE DEF x
  <2>2. Squeezed(t, label, over, x)
    BY <1>1, <2>1, SameGrew DEF Squeezed
  <2> QED
    BY <2>2 DEF x
<1>5. CASE s.middle /\ s.count # 0 /\ t.fault # "vector"
  <2>1. x = Dense(ForkLine(start, t, s))
    BY <1>5 DEF Squeeze
  <2>2. Squeezed(t, label, over, Dense(ForkLine(start, t, s)))
    BY <1>5, ForkLineSqueezed
  <2> QED
    BY <2>1, <2>2
<1> QED
  BY <1>2, <1>3, <1>4, <1>5

\* A definition leaves the tree as it has to be, and the scope too if its
\* line is not torn.
LEMMA DefineEnds ==
  ASSUME NEW t, NEW s, NEW label, NEW over, Open(t, s, label, over)
  PROVE  Ends(t, Define(t, s, label, over))
<1> DEFINE x == Squeeze(t, s)
<1>1. Squeezed(t, label, over, x)
  BY SqueezeIs
<1>2. Define(t, s, label, over) = DefineSlot(x, label, over)
  BY DEF Define
<1> HIDE DEF x
<1>3. Usable(x.tree) /\ Grew(t, x.tree)
  BY <1>1 DEF Squeezed
<1>4. \A r : Ends(x.tree, r) => Ends(t, r)
  BY <1>3, SameGrew DEF Ends
<1>5. CASE x.ok
  <2>1. DefineSlot(x, label, over) = DefineNode(x.tree, AllocSlot(x.tree, x.scope, label), over)
    BY <1>5 DEF DefineSlot
  <2>2. Open(x.tree, x.scope, label, over) /\ ~x.scope.middle
    BY <1>1, <1>5 DEF Squeezed
  <2>3. Ends(x.tree, DefineNode(x.tree, AllocSlot(x.tree, x.scope, label), over))
    BY <2>2, NodeDefined
  <2> QED
    BY <1>2, <1>4, <2>1, <2>3
<1>6. CASE ~x.ok
  <2>1. DefineSlot(x, label, over) = FailOverwrite(x.tree, x.scope, over)
    BY <1>6 DEF DefineSlot
  <2>2. CASE Open(x.tree, x.scope, label, over)
    <3>1. Ends(x.tree, FailOverwrite(x.tree, x.scope, over))
      BY <2>2, Overwriting
    <3> QED
      BY <1>2, <1>4, <2>1, <3>1
  <2>3. CASE TornBy(x.tree, x.scope, over)
    <3> DEFINE u == x.scope
               w == x.tree
    <3>1. /\ Usable(w) /\ u \in Scopes /\ u.lastProp \in LiveNodes(w) \cup {0}
          /\ over # 0 /\ w.label[over].id \in Hidden /\ u.lastProp # 0 => w.label[u.lastProp].id \in Hidden
      BY <2>3 DEF TornBy
    <3>2. PICK id \in AllIds : Astray(w, u, id) /\ (over # 0 => over \in LiveNodes(w) /\ w.label[over].id # id)
      BY <2>3 DEF TornBy
    <3>3. Wrecks(w, FailOverwrite(w, u, over))
      BY <3>1, <3>2, OverwritingAstray
    <3>4. Ends(w, FailOverwrite(w, u, over))
      BY <3>3 DEF Wrecks, Ends
    <3> QED
      BY <1>2, <1>4, <2>1, <3>4
  <2> QED
    BY <1>1, <1>6, <2>2, <2>3 DEF Squeezed
<1> QED
  BY <1>5, <1>6

-----------------------------------------------------------------------------
(***************************************************************************)
(* What a call that defines a property ends with.                          *)
(***************************************************************************)
\* A property leaves a scope.
Left(t, s, u, L, M, K, N, id) ==
  /\ Holds(t, s, L, M, {}) /\ id \in AllIds /\ M[id] # 0 /\ s.count \in Int /\ K \subseteq L
  /\ \A jd \in AllIds : jd # id => N[jd] = M[jd] /\ (M[jd] # 0 => M[jd] \in K)
  /\ N[id] # 0 => N[id] \in K /\ t.label[N[id]].id = id
  /\ Covered(t, u, K, N, {id}) /\ u.count = s.count - 1
  /\ \A jd \in AllIds : jd # id /\ Owns(t, M, jd) => t.label[M[jd]].slot < u.freeslot

LEMMA HoldsLeft ==
  ASSUME NEW t, NEW s, NEW u, NEW L, NEW M, NEW K, NEW N, NEW id, Left(t, s, u, L, M, K, N, id)
  PROVE  Holds(t, u, K, N, {id})
<1>1. /\ Holds(t, s, L, M, {}) /\ id \in AllIds /\ M[id] # 0 /\ s.count \in Int /\ K \subseteq L
      /\ \A jd \in AllIds : jd # id => N[jd] = M[jd] /\ (M[jd] # 0 => M[jd] \in K)
      /\ N[id] # 0 => N[id] \in K /\ t.label[N[id]].id = id
      /\ Covered(t, u, K, N, {id}) /\ u.count = s.count - 1
      /\ \A jd \in AllIds : jd # id /\ Owns(t, M, jd) => t.label[M[jd]].slot < u.freeslot
  BY DEF Left
<1>2. Mapping(t, L, M) /\ Unique(t, L) /\ Counted(s, M, {}) /\ Slotted(t, s, M, {})
  BY <1>1 DEF Holds
<1>3. Mapping(t, K, N)
  BY <1>1, <1>2 DEF Mapping
<1>4. Unique(t, K)
  BY <1>1, <1>2 DEF Unique
<1>5. Counted(u, N, {id})
  <2> DEFINE S == BoundIds(M, {})
             T == BoundIds(N, {id})
  <2>1. T = S \ {id} /\ id \in S
    BY <1>1 DEF BoundIds
  <2>2. IsFiniteSet(S)
    <3>1. S \subseteq AllIds
      BY DEF BoundIds
    <3> QED
      BY <3>1, PropertyAssumption, FS_Subset
  <2> HIDE DEF S, T
  <2>3. Cardinality(T) = Cardinality(S) - 1
    BY <2>1, <2>2, FS_RemoveElement
  <2> QED
    BY <1>1, <1>2, <2>3 DEF Counted, S, T
<1>6. \A jd \in AllIds \ {id} : Owns(t, N, jd) => Owns(t, M, jd) /\ N[jd] = M[jd]
  BY <1>1 DEF Owns
<1>7. Slotted(t, u, N, {id})
  <2>1. ASSUME NEW jd \in AllIds \ {id}, Owns(t, N, jd)
        PROVE  t.label[N[jd]].slot \in Nat /\ t.label[N[jd]].slot < u.freeslot
    BY <1>1, <1>2, <1>6, <2>1 DEF Slotted
  <2>2. ASSUME NEW jd \in AllIds \ {id}, NEW kd \in AllIds \ {id}, Owns(t, N, jd), Owns(t, N, kd),
               t.label[N[jd]].slot = t.label[N[kd]].slot
        PROVE  jd = kd
    BY <1>2, <1>6, <2>2 DEF Slotted
  <2> QED
    BY <2>1, <2>2 DEF Slotted
<1> QED
  BY <1>1, <1>3, <1>4, <1>5, <1>7 DEF Holds

\* The label of a property that has left is still fresh.
LEMMA FreshLeft ==
  ASSUME NEW t, NEW s, NEW u, NEW L, NEW M, NEW K, NEW N, NEW id, Left(t, s, u, L, M, K, N, id),
         u.freeslot = s.freeslot
  PROVE  Fresh(t, u, N, {id}, t.label[M[id]])
<1>1. /\ id \in AllIds /\ M[id] # 0 /\ Slotted(t, s, M, {})
      /\ \A jd \in AllIds : jd # id => N[jd] = M[jd]
  BY DEF Left, Holds
<1>2. CASE ~Shared(t.label[M[id]])
  <2>1. Owns(t, M, id)
    BY <1>1, <1>2 DEF Owns
  <2>2. \A jd \in AllIds \ {id} : Owns(t, N, jd) => Owns(t, M, jd) /\ N[jd] = M[jd]
    BY <1>1 DEF Owns
  <2>3. t.label[M[id]].slot \in Nat /\ t.label[M[id]].slot < s.freeslot
    BY <1>1, <2>1 DEF Slotted
  <2>4. \A jd \in AllIds \ {id} : Owns(t, M, jd) => t.label[M[jd]].slot # t.label[M[id]].slot
    BY <1>1, <2>1 DEF Slotted
  <2> QED
    BY <2>2, <2>3, <2>4 DEF Fresh
<1> QED
  BY <1>2 DEF Fresh

ShrunkOf(s, u, id) ==
  /\ u \in Scopes /\ u.count = s.count - 1 /\ u.lastProp = s.lastProp /\ u.hashed = s.hashed
  /\ u.middle = s.middle /\ u.freeslot = s.freeslot /\ u.nargs = s.nargs
  /\ \A jd \in AllIds : s.hashed => u.table[jd] = IF jd = id THEN 0 ELSE s.table[jd]

LEMMA ShrunkIs ==
  ASSUME NEW s \in Scopes, NEW id \in AllIds
  PROVE  ShrunkOf(s, Shrunk(s, id), id)
<1> DEFINE u == Shrunk(s, id)
           c == s.count - 1
<1>1. s.table \in [AllIds -> Nodes \cup {0}]
  BY DEF Scopes
<1>2. c \in Int
  BY DEF Scopes
<1>3. CASE s.hashed
  <2>1. Store(s, id, 0) = [s EXCEPT !.table = [s.table EXCEPT ![id] = 0]]
    BY <1>3 DEF Store, Scopes
  <2>2. [s.table EXCEPT ![id] = 0] \in [AllIds -> Nodes \cup {0}]
    BY <1>1
  <2>3. u = [s EXCEPT !.table = [s.table EXCEPT ![id] = 0], !.count = c]
    BY <2>1 DEF Shrunk, Scopes
  <2> HIDE DEF u, c
  <2>4. u \in Scopes
    BY <1>2, <2>2, <2>3 DEF Scopes
  <2>5. u.count = c /\ u.lastProp = s.lastProp /\ u.freeslot = s.freeslot /\ u.nargs = s.nargs
    BY <2>3 DEF Scopes
  <2>6. u.hashed = s.hashed
    BY <2>3 DEF Scopes
  <2>7. u.middle = s.middle
    BY <2>3 DEF Scopes
  <2>8. u.table = [s.table EXCEPT ![id] = 0]
    BY <2>3 DEF Scopes
  <2> QED
    BY <1>1, <1>3, <2>4, <2>5, <2>6, <2>7, <2>8 DEF u, c, ShrunkOf
<1>4. CASE ~s.hashed
  <2>1. u = [s EXCEPT !.count = c]
    BY <1>4 DEF Shrunk, Store, Scopes
  <2> HIDE DEF u, c
  <2>2. u \in Scopes
    BY <1>2, <2>1 DEF Scopes
  <2>3. u.count = c /\ u.lastProp = s.lastProp /\ u.freeslot = s.freeslot /\ u.nargs = s.nargs
    BY <2>1 DEF Scopes
  <2>4. u.hashed = s.hashed
    BY <2>1 DEF Scopes
  <2>5. u.middle = s.middle
    BY <2>1 DEF Scopes
  <2> QED
    BY <1>4, <2>2, <2>3, <2>4, <2>5 DEF u, c, ShrunkOf
<1> QED
  BY <1>3, <1>4

\* u is what is left of s without the property of this id.
Departed(t, s, u, id) ==
  /\ u \in Scopes /\ u.lastProp \in LiveNodes(t) \cup {0} /\ (u.middle => u.hashed)
  /\ Left(t, s, u, Above(t, s.lastProp), MapOf(t, s), Above(t, u.lastProp), MapOf(t, u), id)
  /\ id \notin Hidden \/ u.hashed => MapOf(t, u)[id] = 0

LEMMA DepartedFits ==
  ASSUME NEW t, NEW s, NEW u, NEW id, Departed(t, s, u, id)
  PROVE  Fits(t, u, {id})
<1>1. Holds(t, u, Above(t, u.lastProp), MapOf(t, u), {id})
  BY HoldsLeft DEF Departed
<1> QED
  BY <1>1 DEF Departed, Fits

\* What the three ways to leave have in common.
Leaver(t, s, u, id) ==
  /\ Grows(t) /\ Fits(t, s, {}) /\ id \in AllIds /\ MapOf(t, s)[id] # 0
  /\ u \in Scopes /\ u.count = s.count - 1
  /\ s.hashed => u.hashed
  /\ \A jd \in AllIds : s.hashed => u.table[jd] = IF jd = id THEN 0 ELSE s.table[jd]
  /\ \A jd \in AllIds : jd # id /\ Owns(t, MapOf(t, s), jd) => t.label[MapOf(t, s)[jd]].slot < u.freeslot

LEMMA LeaverIs ==
  ASSUME NEW t, NEW s, NEW u, NEW id, Leaver(t, s, u, id)
  PROVE  /\ s \in Scopes /\ s.lastProp \in LiveNodes(t) \cup {0} /\ s.lastProp \in Nodes \cup {0} /\ (s.middle => s.hashed)
         /\ Holds(t, s, Above(t, s.lastProp), MapOf(t, s), {})
         /\ t.up \in [Nodes -> Nodes \cup {0}] /\ Rooting(t) /\ 0 \notin Nodes /\ s.count \in Int
         /\ \A m \in Above(t, s.lastProp) : t.label[m].id \in AllIds /\ m # 0
         /\ MapOf(t, s) \in [AllIds -> Nodes \cup {0}] /\ (s.hashed => MapOf(t, s) = s.table)
         /\ u.hashed => MapOf(t, u) = u.table
<1>1. /\ Grows(t) /\ s \in Scopes /\ s.lastProp \in LiveNodes(t) \cup {0} /\ (s.middle => s.hashed) /\ u \in Scopes
      /\ Holds(t, s, Above(t, s.lastProp), MapOf(t, s), {})
  BY DEF Leaver, Fits
<1>2. t.up \in [Nodes -> Nodes \cup {0}] /\ Rooting(t) /\ 0 \notin Nodes /\ s.lastProp \in Nodes \cup {0} /\ s.count \in Int
  BY <1>1, UsableIs DEF Scopes
<1>3. \A m \in Above(t, s.lastProp) : t.label[m].id \in AllIds /\ m # 0
  BY <1>1, LineLabels
<1>4. MapOf(t, s) \in [AllIds -> Nodes \cup {0}] /\ (s.hashed => MapOf(t, s) = s.table)
  BY <1>1, <1>2, MapIs
<1>5. u.hashed => MapOf(t, u) = u.table
  BY <1>1, <1>2, MapIs
<1> QED
  BY <1>1, <1>2, <1>3, <1>4, <1>5

LEMMA DuplicateLeaves ==
  ASSUME NEW t, NEW s, NEW u, NEW id, Leaver(t, s, u, id), id \in Hidden,
         u.lastProp = s.lastProp, u.middle = s.middle, u.hashed = s.hashed
  PROVE  Departed(t, s, u, id)
<1> DEFINE L == Above(t, s.lastProp)
           M == MapOf(t, s)
           N == MapOf(t, u)
<1>1. /\ s.lastProp \in LiveNodes(t) \cup {0} /\ (s.middle => s.hashed) /\ Holds(t, s, L, M, {}) /\ s.count \in Int
      /\ (s.hashed => M = s.table) /\ (u.hashed => N = u.table) /\ \A m \in L : t.label[m].id \in AllIds
  BY LeaverIs
<1>2. /\ id \in AllIds /\ M[id] # 0 /\ u \in Scopes /\ u.count = s.count - 1
      /\ \A jd \in AllIds : s.hashed => u.table[jd] = IF jd = id THEN 0 ELSE s.table[jd]
      /\ \A jd \in AllIds : jd # id /\ Owns(t, M, jd) => t.label[M[jd]].slot < u.freeslot
  BY DEF Leaver
<1>3. ~s.hashed => N = M
  BY DEF MapOf, SearchScope
<1> HIDE DEF L, M, N
<1>4. \A jd \in AllIds : jd # id => N[jd] = M[jd]
  BY <1>1, <1>2, <1>3
<1>5. N[id] = 0 \/ N[id] = M[id]
  BY <1>1, <1>2, <1>3
<1>6. Mapping(t, L, M) /\ Covered(t, s, L, M, {})
  BY <1>1 DEF Holds
<1>7. Covered(t, u, L, N, {id})
  BY <1>1, <1>4, <1>6 DEF Covered
<1>8. Left(t, s, u, L, M, L, N, id)
  BY <1>1, <1>2, <1>4, <1>5, <1>6, <1>7 DEF Left, Mapping
<1>9. u.hashed => N[id] = 0
  BY <1>1, <1>2
<1> QED
  BY <1>1, <1>2, <1>8, <1>9 DEF Departed, L, M, N

LEMMA MiddleLeaves ==
  ASSUME NEW t, NEW s, NEW u, NEW id, Leaver(t, s, u, id), id \notin Hidden, s.hashed,
         u.lastProp = s.lastProp, u.middle = TRUE, MapOf(t, s)[id] # s.lastProp
  PROVE  Departed(t, s, u, id)
<1> DEFINE L == Above(t, s.lastProp)
           M == MapOf(t, s)
           N == MapOf(t, u)
<1>1. /\ s.lastProp \in LiveNodes(t) \cup {0} /\ Holds(t, s, L, M, {}) /\ s.count \in Int
      /\ M = s.table /\ (u.hashed => N = u.table) /\ \A m \in L : t.label[m].id \in AllIds
  BY LeaverIs
<1>2. /\ id \in AllIds /\ M[id] # 0 /\ u \in Scopes /\ u.count = s.count - 1 /\ u.hashed
      /\ \A jd \in AllIds : u.table[jd] = IF jd = id THEN 0 ELSE s.table[jd]
      /\ \A jd \in AllIds : jd # id /\ Owns(t, M, jd) => t.label[M[jd]].slot < u.freeslot
  BY DEF Leaver
<1>3. M[id] # s.lastProp
  OBVIOUS
<1> HIDE DEF L, M, N
<1>4. N[id] = 0 /\ \A jd \in AllIds : jd # id => N[jd] = M[jd]
  BY <1>1, <1>2
<1>5. Mapping(t, L, M) /\ Unique(t, L) /\ Covered(t, s, L, M, {})
  BY <1>1 DEF Holds
<1>6. M[id] \in L /\ t.label[M[id]].id = id
  BY <1>2, <1>5 DEF Mapping
<1>7. Covered(t, u, L, N, {id})
  <2>1. SUFFICES ASSUME NEW m \in L, t.label[m].id \in Hidden \/ m = u.lastProp
                 PROVE  N[t.label[m].id] # 0
    BY DEF Covered
  <2>2. M[t.label[m].id] # 0
    BY <1>5, <2>1 DEF Covered
  <2>3. t.label[m].id # id
    BY <1>3, <1>5, <1>6, <2>1 DEF Unique
  <2> QED
    BY <1>1, <1>4, <2>2, <2>3
<1>8. Left(t, s, u, L, M, L, N, id)
  BY <1>1, <1>2, <1>4, <1>5, <1>7 DEF Left, Mapping
<1> QED
  BY <1>1, <1>2, <1>4, <1>8 DEF Departed, L, M, N

LEMMA LastLeaves ==
  ASSUME NEW t, NEW s, NEW u, NEW id, Leaver(t, s, u, id), id \notin Hidden, MapOf(t, s)[id] = s.lastProp,
         u.middle = s.middle, u.hashed = s.hashed, NEW v, v.middle = s.middle,
         \A m \in Above(t, t.up[s.lastProp]) : s.middle => (HasProperty(t, v, m) <=> MapOf(t, s)[t.label[m].id] = m),
         Reached(t, v, t.up[s.lastProp], u.lastProp)
  PROVE  Departed(t, s, u, id)
<1> DEFINE L == Above(t, s.lastProp)
           M == MapOf(t, s)
           N == MapOf(t, u)
           n == s.lastProp
           p == t.up[n]
           r == u.lastProp
           K == Above(t, r)
<1>1. /\ n \in LiveNodes(t) \cup {0} /\ n \in Nodes \cup {0} /\ Holds(t, s, L, M, {}) /\ s.count \in Int /\ (s.middle => s.hashed)
      /\ (s.hashed => M = s.table) /\ (u.hashed => N = u.table) /\ \A m \in L : t.label[m].id \in AllIds /\ m # 0
      /\ t.up \in [Nodes -> Nodes \cup {0}] /\ Rooting(t) /\ 0 \notin Nodes
  BY LeaverIs
<1>2. /\ id \in AllIds /\ M[id] # 0 /\ u \in Scopes /\ u.count = s.count - 1
      /\ \A jd \in AllIds : s.hashed => u.table[jd] = IF jd = id THEN 0 ELSE s.table[jd]
      /\ \A jd \in AllIds : jd # id /\ Owns(t, M, jd) => t.label[M[jd]].slot < u.freeslot
      /\ Grows(t) /\ s \in Scopes
  BY DEF Leaver, Fits
<1>3. n # 0 /\ n \in Nodes /\ n \in LiveNodes(t)
  BY <1>1, <1>2
<1>4. L = {n} \cup Above(t, p) /\ n \notin Above(t, p) /\ p \in Nodes \cup {0} /\ Above(t, 0) = {}
  BY <1>1, <1>3, AboveIs, LineIs
<1>5. /\ r \in Above(t, p) \cup {0}
      /\ r # 0 /\ s.middle => M[t.label[r].id] = r
      /\ ~s.middle => r = p
      /\ \A m \in Above(t, p) : m \in K \/ (s.middle /\ M[t.label[m].id] # m)
  BY DEF Reached
<1>6. K \subseteq Above(t, p)
  <2>1. CASE r = 0
    BY <1>4, <2>1
  <2>2. CASE r # 0
    BY <1>1, <1>4, <1>5, <2>2, LineIs
  <2> QED
    BY <2>1, <2>2
<1>7. L \subseteq LiveNodes(t)
  BY <1>1, <1>2, LineLabels
<1>8. M[id] = n
  OBVIOUS
<1>9. ~s.hashed => N[id] = 0 /\ \A jd \in AllIds : jd # id => N[jd] = M[jd]
  <2>1. SUFFICES ASSUME ~s.hashed PROVE N[id] = 0 /\ \A jd \in AllIds : jd # id => N[jd] = M[jd]
    OBVIOUS
  <2>2. r = p
    BY <1>1, <1>5, <2>1
  <2>3. /\ \A jd \in AllIds : N[jd] = SearchLine(t, p, jd) /\ Finds(t, p, jd, N[jd])
    BY <1>1, <1>2, <2>1, <2>2, MapIs
  <2>4. \A jd \in AllIds : M[jd] = SearchLine(t, n, jd) /\ Finds(t, n, jd, M[jd])
    BY <1>1, <1>2, <2>1, MapIs
  <2>5. t.label[n].id = id
    BY <1>2, <1>3, <1>8, <2>4 DEF Finds
  <2>6. ASSUME NEW jd PROVE SearchLine(t, n, jd) = IF t.label[n].id = jd THEN n ELSE SearchLine(t, p, jd)
    <3>1. \A m \in Nodes : SearchLine(t, m, jd) = IF t.label[m].id = jd THEN m ELSE SearchLine(t, t.up[m], jd)
      BY <1>1, SearchLineIs
    <3> QED
      BY <1>3, <3>1
  <2>7. \A jd \in AllIds : jd # id => N[jd] = M[jd]
    BY <2>3, <2>4, <2>5, <2>6
  <2>8. N[id] = 0
    <3>1. Unique(t, L)
      BY <1>1 DEF Holds
    <3>2. \A m \in Above(t, p) : t.label[m].id # id
      BY <1>4, <2>5, <3>1 DEF Unique
    <3>3. Finds(t, p, id, N[id])
      BY <1>2, <2>3
    <3> QED
      BY <3>2, <3>3 DEF Finds
  <2> QED
    BY <2>7, <2>8
<1> HIDE DEF L, M, N, n, p, r, K
<1>10. N[id] = 0 /\ \A jd \in AllIds : jd # id => N[jd] = M[jd]
  BY <1>1, <1>2, <1>9
<1>11. Mapping(t, L, M) /\ Unique(t, L) /\ Covered(t, s, L, M, {})
  BY <1>1 DEF Holds
<1>12. t.label[n].id = id
  BY <1>2, <1>8, <1>11 DEF Mapping
<1>13. \A m \in Above(t, p) : t.label[m].id # id
  BY <1>4, <1>11, <1>12 DEF Unique
<1>14. ASSUME NEW jd \in AllIds, jd # id, M[jd] # 0 PROVE M[jd] \in K
  <2>1. M[jd] \in L /\ t.label[M[jd]].id = jd
    BY <1>11, <1>14 DEF Mapping
  <2>2. M[jd] \in Above(t, p)
    BY <1>4, <1>12, <1>14, <2>1
  <2> QED
    BY <1>5, <2>1, <2>2
<1>15. Covered(t, u, K, N, {id})
  <2>1. SUFFICES ASSUME NEW m \in K, ~u.middle \/ t.label[m].id \in Hidden \/ m = u.lastProp
                 PROVE  N[t.label[m].id] # 0
    BY DEF Covered
  <2>2. m \in L /\ t.label[m].id # id /\ t.label[m].id \in AllIds /\ m # 0
    BY <1>1, <1>4, <1>6, <1>13
  <2>3. M[t.label[m].id] # 0
    BY <1>5, <1>11, <2>1, <2>2 DEF Covered, r
  <2> QED
    BY <1>10, <2>2, <2>3
<1>16. Left(t, s, u, L, M, K, N, id)
  BY <1>1, <1>2, <1>4, <1>6, <1>10, <1>14, <1>15 DEF Left
<1>17. r \in LiveNodes(t) \cup {0}
  BY <1>4, <1>5, <1>7
<1> QED
  BY <1>1, <1>2, <1>10, <1>16, <1>17 DEF Departed, L, M, N, r, K

LEMMA SlotsKept ==
  ASSUME NEW t, NEW s, Fits(t, s, {}), NEW k, k = s.freeslot
  PROVE  \A jd \in AllIds : Owns(t, MapOf(t, s), jd) => t.label[MapOf(t, s)[jd]].slot < k
<1>1. Slotted(t, s, MapOf(t, s), {})
  BY DEF Fits, Holds
<1> QED
  BY <1>1 DEF Slotted

LEMMA LastRemoved ==
  ASSUME NEW s \in Scopes, NEW r \in Nodes \cup {0}, NEW u, u = [s EXCEPT !.lastProp = r]
  PROVE  /\ u \in Scopes /\ u.lastProp = r /\ u.count = s.count /\ u.table = s.table /\ u.hashed = s.hashed
         /\ u.middle = s.middle /\ u.freeslot = s.freeslot /\ u.nargs = s.nargs
<1>1. u \in Scopes
  BY DEF Scopes
<1>2. u.lastProp = r /\ u.count = s.count /\ u.table = s.table /\ u.freeslot = s.freeslot /\ u.nargs = s.nargs
  BY DEF Scopes
<1>3. u.hashed = s.hashed
  BY DEF Scopes
<1>4. u.middle = s.middle
  BY DEF Scopes
<1> QED
  BY <1>1, <1>2, <1>3, <1>4

LEMMA MiddleSet ==
  ASSUME NEW s \in Scopes, NEW u, u = SetMiddleDelete(s)
  PROVE  /\ u \in Scopes /\ u.lastProp = s.lastProp /\ u.count = s.count /\ u.table = s.table /\ u.hashed = s.hashed
         /\ u.middle = TRUE /\ u.freeslot = s.freeslot /\ u.nargs = s.nargs
<1>1. u \in Scopes
  BY DEF Scopes, SetMiddleDelete
<1>2. /\ u.lastProp = s.lastProp /\ u.count = s.count /\ u.table = s.table /\ u.freeslot = s.freeslot
      /\ u.nargs = s.nargs
  BY DEF Scopes, SetMiddleDelete
<1>3. u.hashed = s.hashed
  BY DEF Scopes, SetMiddleDelete
<1>4. u.middle = TRUE
  BY DEF Scopes, SetMiddleDelete
<1> QED
  BY <1>1, <1>2, <1>3, <1>4

\* The scope that a deletion from the middle starts from.
LEMMA TableFirst ==
  ASSUME NEW t, Grows(t), NEW s, Fits(t, s, {}), NEW id \in AllIds, id \notin Hidden,
         NEW v, v = IF s.hashed THEN s ELSE CreateScopeTable(t, s)
  PROVE  /\ Fits(t, v, {}) /\ v.hashed /\ v.lastProp = s.lastProp /\ v.count = s.count
         /\ v.middle = s.middle /\ v.freeslot = s.freeslot /\ v.nargs = s.nargs
         /\ MapOf(t, v)[id] = MapOf(t, s)[id]
         /\ \A jd \in AllIds : MapOf(t, v)[jd] = 0 <=> MapOf(t, s)[jd] = 0
<1>1. CASE s.hashed
  BY <1>1
<1>2. CASE ~s.hashed
  <2>1. Tabled(t, s, CreateScopeTable(t, s), {}) /\ v = CreateScopeTable(t, s)
    BY <1>2, TableFits
  <2> QED
    BY <2>1 DEF Tabled
<1> QED
  BY <1>1, <1>2

\* The property that is to be overwritten has left the scope.
LEMMA OverwrittenDeparts ==
  ASSUME NEW t, Usable(t), NEW s, Fits(t, s, {}), NEW id \in AllIds, NEW n, n # 0, MapOf(t, s)[id] = n,
         NEW duplicate \in BOOLEAN, duplicate <=> id \in Hidden
  PROVE  \E v : /\ Departed(t, v, Overwritten(t, s, n, duplicate), id)
                /\ Overwritten(t, s, n, duplicate).freeslot = v.freeslot
                /\ MapOf(t, v)[id] = n /\ \A jd \in AllIds : MapOf(t, v)[jd] = 0 <=> MapOf(t, s)[jd] = 0
                /\ v.lastProp = s.lastProp
                /\ duplicate => Overwritten(t, s, n, duplicate).lastProp = s.lastProp
                /\ Overwritten(t, s, n, duplicate).lastProp = s.lastProp \/ (v = s /\ n = s.lastProp)
<1> DEFINE M == MapOf(t, s)
           u == Overwritten(t, s, n, duplicate)
<1>1. /\ Grows(t) /\ s \in Scopes /\ (s.middle => s.hashed) /\ s.lastProp \in Nodes \cup {0} /\ 0 \notin Nodes
      /\ t.up \in [Nodes -> Nodes \cup {0}] /\ Rooting(t) /\ Mapping(t, Above(t, s.lastProp), M)
  BY UsableIs DEF Usable, Fits, Holds, Scopes
<1>2. t.label[n].id = id
  BY <1>1 DEF Mapping
<1>3. u = Shrunk(Gone(t, s, n, duplicate), id)
  BY <1>2 DEF Overwritten
<1>4. CASE duplicate
  <2>1. u = Shrunk(s, id)
    BY <1>3, <1>4 DEF Gone
  <2>2. ShrunkOf(s, u, id)
    BY <1>1, <2>1, ShrunkIs
  <2> HIDE DEF u
  <2>3. Leaver(t, s, u, id)
    BY <1>1, <2>2, SlotsKept DEF Leaver, ShrunkOf
  <2>4. Departed(t, s, u, id)
    BY <1>4, <2>2, <2>3, DuplicateLeaves DEF ShrunkOf
  <2> QED
    BY <1>4, <2>2, <2>4 DEF u, ShrunkOf
<1>5. CASE ~duplicate /\ n = s.lastProp
  <2> DEFINE r == LastOf(t, s, t.up[s.lastProp])
             w == [s EXCEPT !.lastProp = r]
  <2>1. u = Shrunk(w, id)
    BY <1>3, <1>5 DEF Gone, RemoveLastProp
  <2>2. t.up[s.lastProp] \in Nodes \cup {0}
    BY <1>1, <1>5
  <2>3. Reached(t, s, t.up[s.lastProp], r)
    BY <1>1, <2>2, LastReached
  <2>4. r \in Nodes \cup {0}
    <3>1. Above(t, t.up[s.lastProp]) \subseteq Nodes
      BY <1>1, <2>2, LineIs
    <3> QED
      BY <2>3, <3>1 DEF Reached
  <2> HIDE DEF r
  <2>5. /\ w \in Scopes /\ w.lastProp = r /\ w.count = s.count /\ w.table = s.table /\ w.hashed = s.hashed
        /\ w.middle = s.middle /\ w.freeslot = s.freeslot
    BY <1>1, <2>4, LastRemoved
  <2>6. ShrunkOf(w, u, id)
    BY <2>1, <2>5, ShrunkIs
  <2> HIDE DEF u, w
  <2>7. Leaver(t, s, u, id)
    BY <1>1, <2>5, <2>6, SlotsKept DEF Leaver, ShrunkOf
  <2>8. \A m \in Above(t, t.up[s.lastProp]) : HasProperty(t, s, m) <=> M[t.label[m].id] = m
    <3>1. ASSUME NEW m \in Above(t, t.up[s.lastProp]) PROVE HasProperty(t, s, m) <=> M[t.label[m].id] = m
      <4>1. m \in Above(t, s.lastProp)
        BY <1>1, <1>5, <3>1, AboveIs
      <4>2. t.label[m].id \in AllIds
        BY <2>7, <4>1, LeaverIs
      <4> QED
        BY <4>2 DEF HasProperty, MapOf
    <3> QED
      BY <3>1
  <2>9. Departed(t, s, u, id)
    <3>1. u.lastProp = r /\ u.middle = s.middle /\ u.hashed = s.hashed
      BY <2>5, <2>6 DEF ShrunkOf
    <3> QED
      BY <1>5, <2>3, <2>7, <2>8, <3>1, LastLeaves
  <2> QED
    BY <1>5, <2>5, <2>6, <2>9 DEF u, ShrunkOf
<1>6. CASE ~duplicate /\ n # s.lastProp
  <2> DEFINE v == IF s.hashed THEN s ELSE CreateScopeTable(t, s)
             w == SetMiddleDelete(v)
  <2>1. u = Shrunk(w, id)
    BY <1>1, <1>3, <1>6 DEF Gone
  <2>2. /\ Fits(t, v, {}) /\ v.hashed /\ v.lastProp = s.lastProp /\ v.count = s.count
        /\ v.middle = s.middle /\ v.freeslot = s.freeslot
        /\ MapOf(t, v)[id] = n
        /\ \A jd \in AllIds : MapOf(t, v)[jd] = 0 <=> MapOf(t, s)[jd] = 0
    BY <1>1, <1>6, TableFirst
  <2> HIDE DEF v
  <2>3. v \in Scopes
    BY <2>2 DEF Fits
  <2>4. /\ w \in Scopes /\ w.lastProp = v.lastProp /\ w.count = v.count /\ w.table = v.table /\ w.hashed = v.hashed
        /\ w.middle = TRUE /\ w.freeslot = v.freeslot
    BY <2>3, MiddleSet
  <2>5. ShrunkOf(w, u, id)
    BY <2>1, <2>4, ShrunkIs
  <2> HIDE DEF u, w
  <2>6. Leaver(t, v, u, id)
    BY <1>1, <2>2, <2>4, <2>5, SlotsKept DEF Leaver, ShrunkOf
  <2>7. Departed(t, v, u, id)
    BY <1>6, <2>2, <2>4, <2>5, <2>6, MiddleLeaves DEF ShrunkOf
  <2> QED
    BY <1>6, <2>2, <2>4, <2>5, <2>7 DEF u, ShrunkOf
<1> QED
  BY <1>4, <1>5, <1>6

\* What may be given for a property that a scope has as n, if n is not 0.
Given(t, M, label, n) ==
  /\ label \in PropLabels /\ (label.attr = "formal" <=> label.id \in Hidden) /\ M[label.id] = n
  /\ \/ Shared(label) \/ label.slot = NoSlot
     \/ n # 0 /\ ~Shared(t.label[n]) /\ label.slot = t.label[n].slot
  /\ label.id \in Hidden => \A id \in AllIds : M[id] # 0 => id \in Hidden

LEMMA OverwrittenOpen ==
  ASSUME NEW t, Usable(t), NEW s, Fits(t, s, {}), NEW label, NEW n, n # 0, Given(t, MapOf(t, s), label, n),
         NEW duplicate \in BOOLEAN, duplicate <=> label.id \in Hidden
  PROVE  Open(t, Overwritten(t, s, n, duplicate), label, n)
<1> DEFINE id == label.id
           u == Overwritten(t, s, n, duplicate)
           K == Above(t, u.lastProp)
           N == MapOf(t, u)
<1>1. /\ label \in PropLabels /\ (label.attr = "formal" <=> id \in Hidden) /\ id \in AllIds /\ MapOf(t, s)[id] = n
      /\ Shared(label) \/ label.slot = NoSlot \/ (~Shared(t.label[n]) /\ label.slot = t.label[n].slot)
      /\ id \in Hidden => \A jd \in AllIds : MapOf(t, s)[jd] # 0 => jd \in Hidden
  BY DEF Given, PropLabels
<1> DEFINE Leave(v) == /\ Departed(t, v, u, id) /\ u.freeslot = v.freeslot
                       /\ MapOf(t, v)[id] = n /\ (\A jd \in AllIds : MapOf(t, v)[jd] = 0 <=> MapOf(t, s)[jd] = 0)
                       /\ v.lastProp = s.lastProp /\ (duplicate => u.lastProp = s.lastProp)
<1>2. \E v : Leave(v)
  BY <1>1, OverwrittenDeparts
<1>3. PICK v : Leave(v)
  BY <1>2
<1> DEFINE L == Above(t, v.lastProp)
           M == MapOf(t, v)
<1> HIDE DEF u
<1>4. /\ Departed(t, v, u, id) /\ u.freeslot = v.freeslot /\ M[id] = n
      /\ (\A jd \in AllIds : M[jd] = 0 <=> MapOf(t, s)[jd] = 0) /\ (duplicate => u.lastProp = v.lastProp)
  BY <1>3
<1>5. Fits(t, u, {id})
  BY <1>4, DepartedFits
<1>6. Left(t, v, u, L, M, K, N, id) /\ (id \notin Hidden \/ u.hashed => N[id] = 0)
  BY <1>4 DEF Departed
<1>7. Fresh(t, u, N, {id}, t.label[n])
  BY <1>4, <1>6, FreshLeft
<1>8. /\ Mapping(t, L, M) /\ Unique(t, L) /\ K \subseteq L
      /\ \A jd \in AllIds : jd # id => N[jd] = M[jd]
  BY <1>6 DEF Left, Holds
<1>9. n \in L /\ t.label[n].id = id /\ L \subseteq LiveNodes(t)
  <2>1. v.lastProp \in LiveNodes(t) \cup {0}
    BY <1>3 DEF Fits
  <2> QED
    BY <1>1, <1>4, <1>8, <2>1, LineLabels DEF Mapping, Usable
<1>10. \A m \in K : t.label[m].id = id => n \in K /\ (m = n \/ id \in Hidden)
  <2>1. SUFFICES ASSUME NEW m \in K, t.label[m].id = id PROVE n \in K /\ (m = n \/ id \in Hidden)
    OBVIOUS
  <2>2. CASE id \in Hidden
    BY <1>4, <1>9, <2>2
  <2>3. CASE id \notin Hidden
    BY <1>8, <1>9, <2>1, <2>3 DEF Unique
  <2> QED
    BY <2>2, <2>3
<1> HIDE DEF K, N, L, M, id
<1>11. Over(t, u, K, N, id, n)
  BY <1>6, <1>7, <1>9, <1>10 DEF Over
<1>12. Fresh(t, u, N, {id}, label) \/ Shared(label) \/ label.slot = NoSlot
  BY <1>1, <1>7 DEF Fresh
<1>13. id \in Hidden => \A jd \in AllIds : N[jd] # 0 => jd \in Hidden
  BY <1>1, <1>4, <1>8
<1>14. Named(t, u, N, {id}, label)
  BY <1>1, <1>12, <1>13 DEF Named, id
<1>15. Leaving(id, n) = {id}
  BY DEF Leaving
<1> QED
  BY <1>5, <1>11, <1>14, <1>15 DEF Open, u, id, K, N

\* A property is added to a scope that has none of its id.
LEMMA AddedOpen ==
  ASSUME NEW t, Usable(t), NEW s, Fits(t, s, {}), NEW label, Given(t, MapOf(t, s), label, 0)
  PROVE  Open(t, s, label, 0)
<1> DEFINE M == MapOf(t, s)
<1>1. Leaving(label.id, 0) = {}
  BY DEF Leaving
<1>2. Over(t, s, Above(t, s.lastProp), M, label.id, 0)
  BY DEF Over, Given
<1>3. Named(t, s, M, {}, label)
  BY DEF Named, Given
<1> QED
  BY <1>1, <1>2, <1>3 DEF Open

LEMMA ReplacedEnds ==
  ASSUME NEW t, Usable(t), NEW s, Fits(t, s, {}), NEW label, NEW n, Given(t, MapOf(t, s), label, n),
         NEW duplicate \in BOOLEAN, n # 0 => (duplicate <=> label.id \in Hidden)
  PROVE  Ends(t, AddOrReplace(t, s, n, label, duplicate))
<1> DEFINE r == AddOrReplace(t, s, n, label, duplicate)
           w == IF n = 0 THEN s ELSE Overwritten(t, s, n, duplicate)
<1>1. (r.tree = t /\ r.scope = s) \/ r = Define(t, w, label, n)
  BY DEF AddOrReplace
<1>2. CASE r.tree = t /\ r.scope = s
  BY <1>2, SameGrew DEF Ends
<1>3. CASE r = Define(t, w, label, n)
  <2>1. Open(t, w, label, n)
    <3>1. CASE n = 0
      BY <3>1, AddedOpen
    <3>2. CASE n # 0
      BY <3>2, OverwrittenOpen
    <3> QED
      BY <3>1, <3>2
  <2>2. Ends(t, Define(t, w, label, n))
    BY <2>1, DefineEnds
  <2> QED
    BY <1>3, <2>2
<1> QED
  BY <1>1, <1>2, <1>3

\* A given label that has no slot takes the one of the property it is for.
LEMMA RelabelledGiven ==
  ASSUME NEW t, Grows(t), NEW s, NEW M, NEW given, NEW n, Given(t, M, given, n),
         n # 0 => n \in LiveNodes(t)
  PROVE  Given(t, M, Relabelled(t, s, n, given), n) /\ Relabelled(t, s, n, given).id = given.id
<1> DEFINE x == Relabelled(t, s, n, given)
<1>1. CASE n # 0 /\ ~Shared(given) /\ given.slot = NoSlot /\ ValidSlot(s, t.label[n])
  <2> DEFINE k == t.label[n].slot
  <2>1. x = [given EXCEPT !.slot = k]
    BY <1>1 DEF Relabelled
  <2>2. t.label[n] \in GoodLabels
    BY <1>1, UsableIs
  <2>3. k \in Nat \cup {NoSlot} /\ k # NoSlot /\ ~Shared(t.label[n])
    BY <1>1, <2>2, LabelIs DEF ValidSlot
  <2>4. given \in PropLabels /\ (given.attr = "formal" <=> given.id \in Hidden)
    BY DEF Given
  <2>5. x \in GoodLabels /\ x.id = given.id /\ x.slot = k
    BY <1>1, <2>1, <2>3, <2>4, LabelWith
  <2> HIDE DEF x, k
  <2>6. x \in PropLabels /\ (x.attr = "formal" <=> x.id \in Hidden)
    BY <2>5, LabelIs
  <2>7. Given(t, M, x, n)
    BY <1>1, <2>3, <2>5, <2>6 DEF Given, k
  <2> QED
    BY <2>5, <2>7 DEF x
<1>2. CASE ~(n # 0 /\ ~Shared(given) /\ given.slot = NoSlot /\ ValidSlot(s, t.label[n]))
  <2>1. x = given
    BY <1>2 DEF Relabelled
  <2> QED
    BY <2>1
<1> QED
  BY <1>1, <1>2

LEMMA AddEnds ==
  ASSUME NEW t, Usable(t), NEW s, Fits(t, s, {}), NEW given,
         Given(t, MapOf(t, s), given, MapOf(t, s)[given.id]),
         NEW duplicate \in BOOLEAN, MapOf(t, s)[given.id] # 0 => (duplicate <=> given.id \in Hidden)
  PROVE  Ends(t, AddScopeProperty(t, s, given, duplicate))
<1> DEFINE n == MapOf(t, s)[given.id]
           x == Relabelled(t, s, n, given)
<1>1. given.id \in AllIds
  BY DEF Given, PropLabels
<1>2. SearchScope(t, s, given.id) = n
  BY <1>1 DEF MapOf
<1>3. AddScopeProperty(t, s, given, duplicate) = AddOrReplace(t, s, n, x, duplicate)
  BY <1>2 DEF AddScopeProperty, AddOver
<1>4. n # 0 => n \in LiveNodes(t)
  <2>1. Mapping(t, Above(t, s.lastProp), MapOf(t, s)) /\ s.lastProp \in LiveNodes(t) \cup {0}
    BY DEF Fits, Holds
  <2> QED
    BY <1>1, <2>1, LineLabels DEF Mapping, Usable
<1>5. Grows(t)
  BY DEF Usable
<1> HIDE DEF n
<1>6. Given(t, MapOf(t, s), x, n) /\ x.id = given.id
  BY <1>4, <1>5, RelabelledGiven DEF n
<1>7. n # 0 => (duplicate <=> x.id \in Hidden)
  BY <1>6 DEF n
<1> HIDE DEF x
<1>8. Ends(t, AddOrReplace(t, s, n, x, duplicate))
  BY <1>6, <1>7, ReplacedEnds
<1> QED
  BY <1>3, <1>8 DEF x

-----------------------------------------------------------------------------
(***************************************************************************)
(* The other calls.                                                        *)
(***************************************************************************)
\* The last property gives way to a sibling of its id.
Moved(s, id, n) == [Store(s, id, n) EXCEPT !.lastProp = n]

MoveOf(s, u, id, n) ==
  /\ u \in Scopes /\ u.count = s.count /\ u.lastProp = n /\ u.hashed = s.hashed
  /\ u.middle = s.middle /\ u.freeslot = s.freeslot /\ u.nargs = s.nargs
  /\ \A jd \in AllIds : s.hashed => u.table[jd] = IF jd = id THEN n ELSE s.table[jd]

LEMMA MovedIs ==
  ASSUME NEW s \in Scopes, NEW id \in AllIds, NEW n \in Nodes
  PROVE  MoveOf(s, Moved(s, id, n), id, n)
<1> DEFINE u == Moved(s, id, n)
<1>1. s.table \in [AllIds -> Nodes \cup {0}]
  BY DEF Scopes
<1>2. CASE s.hashed
  <2>1. Store(s, id, n) = [s EXCEPT !.table = [s.table EXCEPT ![id] = n]]
    BY <1>2 DEF Store, Scopes
  <2>2. [s.table EXCEPT ![id] = n] \in [AllIds -> Nodes \cup {0}]
    BY <1>1
  <2>3. u = [s EXCEPT !.table = [s.table EXCEPT ![id] = n], !.lastProp = n]
    BY <2>1 DEF Moved, Scopes
  <2> HIDE DEF u
  <2>4. u \in Scopes
    BY <2>2, <2>3 DEF Scopes
  <2>5. u.count = s.count /\ u.lastProp = n /\ u.freeslot = s.freeslot /\ u.nargs = s.nargs
    BY <2>3 DEF Scopes
  <2>6. u.hashed = s.hashed
    BY <2>3 DEF Scopes
  <2>7. u.middle = s.middle
    BY <2>3 DEF Scopes
  <2>8. u.table = [s.table EXCEPT ![id] = n]
    BY <2>3 DEF Scopes
  <2> QED
    BY <1>1, <1>2, <2>4, <2>5, <2>6, <2>7, <2>8 DEF u, MoveOf
<1>3. CASE ~s.hashed
  <2>1. u = [s EXCEPT !.lastProp = n]
    BY <1>3 DEF Moved, Store, Scopes
  <2> HIDE DEF u
  <2>2. u \in Scopes
    BY <2>1 DEF Scopes
  <2>3. u.count = s.count /\ u.lastProp = n /\ u.freeslot = s.freeslot /\ u.nargs = s.nargs
    BY <2>1 DEF Scopes
  <2>4. u.hashed = s.hashed
    BY <2>1 DEF Scopes
  <2>5. u.middle = s.middle
    BY <2>1, SMTT(30) DEF Scopes
  <2> QED
    BY <1>3, <2>2, <2>3, <2>4, <2>5 DEF u, MoveOf
<1> QED
  BY <1>2, <1>3

LEMMA SiblingFits ==
  ASSUME NEW t, Grows(t), NEW s, Fits(t, s, {}), s.lastProp # 0, NEW id, id = t.label[s.lastProp].id, id \notin Hidden,
         NEW n \in LiveNodes(t), t.label[n].id = id, t.up[n] = t.up[s.lastProp],
         Fresh(t, s, MapOf(t, s), {id}, t.label[n])
  PROVE  Fits(t, Moved(s, id, n), {})
<1> DEFINE z == s.lastProp
           p == t.up[z]
           L == Above(t, z)
           K == Above(t, p)
           M == MapOf(t, s)
           u == Moved(s, id, n)
           N == MapOf(t, u)
           O == [M EXCEPT ![id] = 0]
           w == [middle |-> s.middle, lastProp |-> 0, count |-> s.count - 1, freeslot |-> s.freeslot]
<1>1. /\ s \in Scopes /\ z \in LiveNodes(t) \cup {0} /\ (s.middle => s.hashed) /\ Holds(t, s, L, M, {})
  BY DEF Fits
<1>2. /\ Rooting(t) /\ t.up \in [Nodes -> Nodes \cup {0}] /\ 0 \notin Nodes /\ LiveNodes(t) \subseteq Nodes
      /\ n \in Nodes /\ z \in Nodes /\ z \in LiveNodes(t) /\ id \in AllIds /\ n # 0 /\ s.count \in Int
  BY <1>1, UsableIs DEF Scopes
<1>3. /\ Above(t, z) = {z} \cup K /\ Above(t, n) = {n} \cup K /\ z \notin K /\ z \in L /\ n \notin K /\ p \in Nodes \cup {0}
  BY <1>2, AboveIs, LineIs
<1>4. \A m \in L : m # 0 /\ t.label[m].id \in AllIds
  BY <1>1, LineLabels
<1>5. MoveOf(s, u, id, n)
  BY <1>1, <1>2, MovedIs, SMTT(30)
<1>6. /\ u \in Scopes /\ u.count = s.count /\ u.lastProp = n /\ u.hashed = s.hashed /\ u.middle = s.middle
      /\ u.freeslot = s.freeslot /\ \A jd \in AllIds : s.hashed => u.table[jd] = IF jd = id THEN n ELSE s.table[jd]
  BY <1>5 DEF MoveOf
<1> HIDE DEF u
<1>70. M \in [AllIds -> Nodes \cup {0}]
  BY <1>1, <1>2, MapIs
<1>7. /\ u.hashed => N = u.table
      /\ ~u.hashed => \A jd \in AllIds : N[jd] = SearchLine(t, n, jd)
  BY <1>2, <1>6, MapIs
<1>8. /\ s.hashed => M = s.table
      /\ ~s.hashed => \A jd \in AllIds : M[jd] = SearchLine(t, z, jd)
  BY <1>1, <1>2, MapIs
<1>9. \A jd : /\ SearchLine(t, n, jd) = IF id = jd THEN n ELSE SearchLine(t, p, jd)
              /\ SearchLine(t, z, jd) = IF id = jd THEN z ELSE SearchLine(t, p, jd)
  <2>1. ASSUME NEW jd
        PROVE /\ SearchLine(t, n, jd) = IF id = jd THEN n ELSE SearchLine(t, p, jd)
              /\ SearchLine(t, z, jd) = IF id = jd THEN z ELSE SearchLine(t, p, jd)
    <3>1. \A m \in Nodes : SearchLine(t, m, jd) = IF t.label[m].id = jd THEN m ELSE SearchLine(t, t.up[m], jd)
      BY <1>2, SearchLineIs
    <3> QED
      BY <1>2, <3>1
  <2> QED
    BY <2>1
<1>10. Above(t, u.lastProp) = K \cup {n}
  BY <1>3, <1>6
<1>11. Fresh(t, s, M, {id}, t.label[n])
  OBVIOUS
<1>12. /\ O \in [AllIds -> Nodes \cup {0}] /\ O[id] = 0 /\ \A jd \in AllIds : jd # id => O[jd] = M[jd]
  BY <1>2, <1>70
<1>13. w.middle = s.middle /\ w.lastProp = 0 /\ w.count = s.count - 1 /\ w.freeslot = s.freeslot
  OBVIOUS
<1> HIDE DEF u, M, N, O, w
<1>14. N[id] = n /\ \A jd \in AllIds : jd # id => N[jd] = M[jd]
  <2>1. CASE s.hashed
    BY <1>2, <1>6, <1>7, <1>8, <2>1
  <2>2. CASE ~s.hashed
    BY <1>2, <1>6, <1>7, <1>8, <1>9, <2>2
  <2> QED
    BY <2>1, <2>2
<1> HIDE DEF K, L, p
<1>15. Mapping(t, L, M) /\ Unique(t, L) /\ Covered(t, s, L, M, {}) /\ Slotted(t, s, M, {})
  BY <1>1 DEF Holds
<1>16. M[id] = z
  <2>1. M[id] # 0
    BY <1>3, <1>15 DEF Covered
  <2>2. M[id] \in L /\ t.label[M[id]].id = id
    BY <1>2, <1>15, <2>1 DEF Mapping
  <2> QED
    BY <1>3, <1>15, <2>2 DEF Unique
<1>17. K \subseteq L /\ \A m \in K : t.label[m].id # id /\ m # 0
  <2>1. K \subseteq L
    BY <1>3 DEF L
  <2> QED
    BY <1>3, <1>4, <1>15, <2>1 DEF Unique
<1>18. Covered(t, w, K, O, {id})
  <2>1. SUFFICES ASSUME NEW m \in K, ~w.middle \/ t.label[m].id \in Hidden \/ m = w.lastProp
                 PROVE  O[t.label[m].id] # 0
    BY DEF Covered
  <2>2. m \in L /\ t.label[m].id \in AllIds /\ t.label[m].id # id /\ (~s.middle \/ t.label[m].id \in Hidden)
    BY <1>4, <1>13, <1>17, <2>1
  <2>3. M[t.label[m].id] # 0
    BY <1>15, <2>2 DEF Covered
  <2> QED
    BY <1>12, <2>2, <2>3
<1>19. \A jd \in AllIds : jd # id => O[jd] = M[jd] /\ (M[jd] # 0 => M[jd] \in K)
  <2>1. ASSUME NEW jd \in AllIds, jd # id, M[jd] # 0 PROVE M[jd] \in K
    <3>1. M[jd] \in L /\ t.label[M[jd]].id = jd
      BY <1>15, <2>1 DEF Mapping
    <3> QED
      BY <1>3, <2>1, <3>1 DEF L
  <2> QED
    BY <1>12, <2>1
<1>20. \A jd \in AllIds : jd # id /\ Owns(t, M, jd) => t.label[M[jd]].slot < w.freeslot
  BY <1>13, <1>15 DEF Slotted
<1>21. M[id] # 0
  BY <1>16, <1>2
<1>22. Left(t, s, w, L, M, K, O, id)
  BY <1>1, <1>2, <1>12, <1>13, <1>17, <1>18, <1>19, <1>20, <1>21 DEF Left
<1>23. Holds(t, w, K, O, {id})
  BY <1>22, HoldsLeft
<1>24. Fresh(t, w, O, {id}, t.label[n])
  <2>1. \A jd \in AllIds \ {id} : Owns(t, O, jd) => Owns(t, M, jd) /\ O[jd] = M[jd]
    BY <1>12 DEF Owns
  <2> QED
    BY <1>11, <1>13, <2>1 DEF Fresh
<1>25. Entering(t, w, u, K, O, N, {id}, id, n)
  <2>1. w.count \in Int /\ u.count = w.count + 1
    BY <1>2, <1>6, <1>13
  <2>2. \A jd \in AllIds : jd # id => N[jd] = O[jd]
    BY <1>12, <1>14
  <2>3. \A m \in K : m # 0 /\ t.label[m].id \in AllIds
    BY <1>4, <1>17
  <2> QED
    BY <1>2, <1>6, <1>13, <1>14, <1>17, <1>23, <1>24, <2>1, <2>2, <2>3 DEF Entering
<1>26. Holds(t, u, K \cup {n}, N, {})
  BY <1>2, <1>25, HoldsEntered
<1> QED
  BY <1>1, <1>6, <1>10, <1>26 DEF Fits, N, u

\* The next slot is taken.
LEMMA SlotTakenFits ==
  ASSUME NEW t, NEW s, Fits(t, s, {}), NEW u, u = [s EXCEPT !.freeslot = @ + 1]
  PROVE  /\ Fits(t, u, {}) /\ MapOf(t, u) = MapOf(t, s) /\ u.freeslot = s.freeslot + 1
         /\ u.lastProp = s.lastProp /\ s.freeslot \in Nat
<1> DEFINE L == Above(t, s.lastProp)
           M == MapOf(t, s)
           f == s.freeslot + 1
<1>1. /\ s \in Scopes /\ Holds(t, s, L, M, {}) /\ s.lastProp \in LiveNodes(t) \cup {0} /\ (s.middle => s.hashed)
  BY DEF Fits
<1>2. s.freeslot \in Nat /\ f \in Nat
  BY <1>1 DEF Scopes
<1>3. u = [s EXCEPT !.freeslot = f]
  OBVIOUS
<1> HIDE DEF f
<1>4. u \in Scopes
  BY <1>1, <1>2, <1>3 DEF Scopes
<1>5. u.lastProp = s.lastProp /\ u.table = s.table /\ u.count = s.count /\ u.freeslot = f
  BY <1>1, <1>3 DEF Scopes
<1>6. u.hashed = s.hashed
  BY <1>1, <1>3 DEF Scopes
<1>7. u.middle = s.middle
  BY <1>1, <1>3 DEF Scopes
<1>8. MapOf(t, u) = M
  BY <1>5, <1>6 DEF MapOf, SearchScope
<1>9. \A n \in Nat : n < s.freeslot => n < u.freeslot
  BY <1>2, <1>5 DEF f
<1> HIDE DEF L, M
<1>10. Holds(t, u, L, M, {})
  <2>1. Covered(t, u, L, M, {}) /\ Counted(u, M, {})
    BY <1>1, <1>5, <1>7 DEF Holds, Covered, Counted
  <2>2. Slotted(t, u, M, {})
    BY <1>1, <1>9 DEF Holds, Slotted
  <2> QED
    BY <1>1, <2>1, <2>2 DEF Holds
<1>11. Fits(t, u, {})
  BY <1>1, <1>4, <1>5, <1>6, <1>7, <1>8, <1>10 DEF Fits, L
<1> QED
  BY <1>2, <1>5, <1>8, <1>11 DEF M, f

\* What is mapped is on the line and found under its own id.
LEMMA MappedIs ==
  ASSUME NEW t, Grows(t), NEW s, Fits(t, s, {}), NEW n \in Mapped(t, s)
  PROVE  /\ n \in Above(t, s.lastProp) /\ n \in LiveNodes(t) /\ n \in Nodes /\ n # 0 /\ t.label[n] \in GoodLabels
         /\ t.label[n].id \in AllIds /\ MapOf(t, s)[t.label[n].id] = n
<1>1. PICK jd \in AllIds : n = SearchScope(t, s, jd) /\ n # 0
  BY DEF Mapped
<1>2. MapOf(t, s)[jd] = n
  BY <1>1 DEF MapOf
<1>3. s.lastProp \in LiveNodes(t) \cup {0} /\ Mapping(t, Above(t, s.lastProp), MapOf(t, s))
  BY DEF Fits, Holds
<1>4. n \in Above(t, s.lastProp) /\ t.label[n].id = jd
  BY <1>1, <1>2, <1>3 DEF Mapping
<1>5. n \in LiveNodes(t) /\ n \in Nodes /\ t.label[n] \in GoodLabels
  BY <1>3, <1>4, LineLabels
<1> QED
  BY <1>1, <1>2, <1>4, <1>5

\* A label with other attributes.
LEMMA OtherAttr ==
  ASSUME NEW label \in GoodLabels, label.attr # "formal", NEW attr \in PropAttrs,
         attr = "shared" => Shared(label), NEW x, x = [label EXCEPT !.attr = attr]
  PROVE  /\ x \in PropLabels /\ x.id = label.id /\ x.slot = label.slot /\ x.attr # "formal" /\ label.id \notin Hidden
         /\ x # label => ~Shared(x)
         /\ Shared(label) => label.slot = NoSlot
<1>1. label \in PropLabels /\ label.id \notin Hidden /\ (Shared(label) => label.slot = NoSlot) /\ attr # "formal"
  BY LabelIs, PropertyAssumption
<1>2. x \in PropLabels /\ x.id = label.id /\ x.slot = label.slot /\ x.attr = attr
  BY <1>1 DEF PropLabels
<1>3. Shared(x) => x = label
  <2>1. SUFFICES ASSUME Shared(x) PROVE x = label
    OBVIOUS
  <2>2. attr = "shared"
    BY <1>1, <1>2, <2>1 DEF Shared
  <2>3. label.attr = attr
    BY <2>2 DEF Shared
  <2> QED
    BY <1>1, <2>3 DEF PropLabels
<1> QED
  BY <1>1, <1>2, <1>3

Slotting(t, s, n, x) ==
  /\ Fits(t, x.scope, {}) /\ x.scope.lastProp = s.lastProp
  /\ x.ok => /\ x.label \in GoodLabels /\ x.label.id = t.label[n].id
             /\ Fresh(t, x.scope, MapOf(t, x.scope), {t.label[n].id}, x.label)

LEMMA LastChanged ==
  ASSUME NEW t, Usable(t), NEW s, Fits(t, s, {}), NEW n, n = s.lastProp, n \in Mapped(t, s),
         t.label[n].id \notin Hidden, NEW x, Slotting(t, s, n, x)
  PROVE  Ends(t, ChangeLast(t, n, x))
<1> DEFINE r == ChangeLast(t, n, x)
           id == t.label[n].id
           v == x.scope
           p == t.up[n]
           g == GetPropertyTreeChild(t, p, x.label)
<1>1. Grows(t) /\ n \in LiveNodes(t) /\ n \in Nodes /\ n # 0 /\ id \in AllIds
  BY MappedIs DEF Usable
<1>2. Fits(t, v, {}) /\ v.lastProp = n
  BY DEF Slotting
<1>3. CASE ~x.ok
  <2>1. r.tree = t /\ r.scope = v
    BY <1>3 DEF ChangeLast
  <2> QED
    BY <1>2, <2>1, SameGrew DEF Ends
<1>4. CASE x.ok
  <2>1. x.label \in GoodLabels /\ x.label.id = id /\ Fresh(t, v, MapOf(t, v), {id}, x.label)
    BY <1>4 DEF Slotting
  <2>2. p \in LiveNodes(t) \cup {0}
    BY <1>1, UsableIs, LiveLine
  <2>3. Childed(t, g, p, x.label)
    BY <2>1, <2>2, ChildFits
  <2>4. r = Sibling(v, x.label.id, g)
    BY <1>4 DEF ChangeLast
  <2> HIDE DEF g, v
  <2>5. Usable(g.tree) /\ Grew(t, g.tree) /\ r.tree = g.tree
    BY <2>3, <2>4 DEF Childed, Sibling
  <2>6. Grows(g.tree) /\ Fits(g.tree, v, {}) /\ MapOf(g.tree, v) = MapOf(t, v)
    BY <1>1, <1>2, <2>5, FitsGrown DEF Usable
  <2>7. CASE g.node = 0
    <3>1. r.scope = v
      BY <2>4, <2>7 DEF Sibling
    <3> HIDE DEF r
    <3> QED
      BY <2>5, <2>6, <3>1 DEF Ends, r
  <2>8. CASE g.node # 0
    <3> DEFINE u == g.tree
               m == g.node
    <3>1. m \in LiveNodes(u) /\ u.label[m] = x.label /\ u.up[m] = p
      BY <2>3, <2>8 DEF Childed
    <3>2. r.scope = Moved(v, id, m)
      BY <2>1, <2>4, <2>8 DEF Sibling, Moved
    <3>3. u.label[n] = t.label[n] /\ u.up[n] = p /\ n \in LiveNodes(u)
      BY <1>1, <2>5 DEF Grew
    <3>4. \A jd \in AllIds : MapOf(t, v)[jd] # 0 => u.label[MapOf(t, v)[jd]] = t.label[MapOf(t, v)[jd]]
      <4>1. v.lastProp \in LiveNodes(t) \cup {0} /\ Mapping(t, Above(t, v.lastProp), MapOf(t, v))
        BY <1>2 DEF Fits, Holds
      <4>2. Above(t, v.lastProp) \subseteq LiveNodes(t)
        BY <1>1, <4>1, LineLabels
      <4> QED
        BY <2>5, <4>1, <4>2 DEF Mapping, Grew
    <3>5. Fresh(u, v, MapOf(u, v), {id}, x.label)
      BY <2>1, <2>6, <3>4 DEF Fresh, Owns
    <3> HIDE DEF r, u, m
    <3>6. Fits(u, Moved(v, id, m), {})
      <4>1. v.lastProp # 0 /\ id = u.label[v.lastProp].id /\ u.label[m].id = id /\ u.up[m] = u.up[v.lastProp]
        BY <1>1, <1>2, <2>1, <3>1, <3>3
      <4>2. Fresh(u, v, MapOf(u, v), {id}, u.label[m])
        BY <3>1, <3>5
      <4>3. Grows(u) /\ Fits(u, v, {})
        BY <2>6 DEF u
      <4> HIDE DEF id
      <4>4. id \notin Hidden
        BY DEF id
      <4> QED
        BY <3>1, <4>1, <4>2, <4>3, <4>4, SiblingFits
    <3>7. Ends(t, r)
      BY <2>5, <3>2, <3>6 DEF Ends, u
    <3> QED
      BY <3>7 DEF r
  <2> QED
    BY <2>7, <2>8
<1> QED
  BY <1>3, <1>4

LEMMA ChangeEnds ==
  ASSUME NEW t, Usable(t), NEW s, Fits(t, s, {}), NEW n \in Mapped(t, s), t.label[n].attr # "formal",
         NEW attr \in PropAttrs, attr = "shared" => Shared(t.label[n])
  PROVE  Ends(t, ChangeScopePropertyAttrs(t, s, n, attr))
<1> DEFINE l == t.label[n]
           x == [l EXCEPT !.attr = attr]
           M == MapOf(t, s)
           id == l.id
           r == ChangeScopePropertyAttrs(t, s, n, attr)
<1>1. /\ Grows(t) /\ n \in LiveNodes(t) /\ n \in Nodes /\ n # 0 /\ l \in GoodLabels /\ id \in AllIds /\ M[id] = n
  BY MappedIs DEF Usable
<1>2. /\ x \in PropLabels /\ x.id = id /\ x.slot = l.slot /\ x.attr # "formal" /\ id \notin Hidden
      /\ x # l => ~Shared(x)
      /\ Shared(l) => l.slot = NoSlot
  BY <1>1, OtherAttr
<1>3. r = ChangeTo(t, s, n, x)
  BY DEF ChangeScopePropertyAttrs
<1> HIDE DEF x
<1>4. CASE x = l
  <2>1. r.tree = t /\ r.scope = s
    BY <1>3, <1>4 DEF ChangeTo
  <2> QED
    BY <2>1, SameGrew DEF Ends
<1>5. CASE x # l /\ n # s.lastProp
  <2>1. r = AddScopeProperty(t, s, x, FALSE)
    BY <1>3, <1>5 DEF ChangeTo
  <2>2. Given(t, M, x, M[x.id])
    <3>1. Shared(x) \/ x.slot = NoSlot \/ (n # 0 /\ ~Shared(t.label[n]) /\ x.slot = t.label[n].slot)
      BY <1>1, <1>2
    <3> QED
      BY <1>1, <1>2, <3>1 DEF Given
  <2>3. Ends(t, AddScopeProperty(t, s, x, FALSE))
    BY <1>2, <2>2, AddEnds
  <2> QED
    BY <2>1, <2>3
<1>6. CASE x # l /\ n = s.lastProp
  <2> DEFINE y == IF Shared(l) /\ ~Shared(x) THEN AllocSlot(t, s, x)
                  ELSE [scope |-> s, label |-> x, ok |-> TRUE]
  <2>1. r = ChangeLast(t, n, y)
    BY <1>3, <1>6 DEF ChangeTo
  <2>2. ~Shared(x)
    BY <1>2, <1>6
  <2>3. Slotted(t, s, M, {})
    BY DEF Fits, Holds
  <2>4. Slotting(t, s, n, y)
    <3>1. CASE Shared(l) /\ t.fault = "slot"
      <4>1. y.scope = s /\ ~y.ok
        BY <1>2, <2>2, <3>1 DEF AllocSlot
      <4> QED
        BY <4>1 DEF Slotting
    <3>2. CASE Shared(l) /\ t.fault # "slot"
      <4> DEFINE f == s.freeslot
                 w == [x EXCEPT !.slot = f]
                 u == [s EXCEPT !.freeslot = @ + 1]
      <4>1. y = [scope |-> u, label |-> w, ok |-> TRUE]
        BY <1>2, <2>2, <3>2 DEF AllocSlot
      <4>2. Fits(t, u, {}) /\ MapOf(t, u) = M /\ u.freeslot = f + 1 /\ u.lastProp = s.lastProp /\ f \in Nat
        BY SlotTakenFits
      <4>3. w \in GoodLabels /\ w.id = id /\ w.slot = f
        BY <1>2, <2>2, <4>2, LabelWith
      <4> HIDE DEF w, u, f, M
      <4>4. Fresh(t, u, M, {id}, w)
        <5>1. \A jd \in AllIds \ {id} : Owns(t, M, jd) => t.label[M[jd]].slot \in Nat /\ t.label[M[jd]].slot < f
          BY <2>3 DEF Slotted, f
        <5>2. \A k \in Nat : k < f => k # f
          BY <4>2
        <5>3. f < u.freeslot
          BY <4>2
        <5> QED
          BY <4>2, <4>3, <5>1, <5>2, <5>3 DEF Fresh
      <4> QED
        BY <4>1, <4>2, <4>3, <4>4 DEF Slotting
    <3>3. CASE ~Shared(l)
      <4>1. y = [scope |-> s, label |-> x, ok |-> TRUE]
        BY <3>3
      <4>2. Owns(t, M, id)
        BY <1>1, <3>3 DEF Owns
      <4>3. x.slot \in Nat /\ x.slot < s.freeslot
        BY <1>1, <1>2, <2>3, <4>2 DEF Slotted
      <4>4. \A jd \in AllIds \ {id} : Owns(t, M, jd) => t.label[M[jd]].slot # x.slot
        BY <1>1, <1>2, <2>3, <4>2 DEF Slotted
      <4>5. Fresh(t, s, M, {id}, x)
        BY <4>3, <4>4 DEF Fresh
      <4>6. x \in GoodLabels
        BY <1>2, <2>2 DEF GoodLabels
      <4> QED
        BY <1>2, <4>1, <4>5, <4>6 DEF Slotting
    <3> QED
      BY <3>1, <3>2, <3>3
  <2> HIDE DEF y, r
  <2>5. Ends(t, ChangeLast(t, n, y))
    BY <1>2, <1>6, <2>4, LastChanged
  <2> QED
    BY <2>1, <2>5 DEF r
<1> QED
  BY <1>4, <1>5, <1>6

\* The slot of the property that goes is free again if it was the last one.
SlotFreed(t, s, u, id) ==
  /\ u \in Scopes /\ u.count = s.count /\ u.lastProp = s.lastProp /\ u.hashed = s.hashed
  /\ u.middle = s.middle /\ u.table = s.table
  /\ \A jd \in AllIds : jd # id /\ Owns(t, MapOf(t, s), jd) => t.label[MapOf(t, s)[jd]].slot < u.freeslot

LEMMA FreeSlotIs ==
  ASSUME NEW t, Grows(t), NEW s, Fits(t, s, {}), NEW n \in Mapped(t, s)
  PROVE  SlotFreed(t, s, FreeSlot(s, t.label[n]), t.label[n].id)
<1> DEFINE l == t.label[n]
           id == l.id
           u == FreeSlot(s, l)
           M == MapOf(t, s)
<1>1. /\ n # 0 /\ l \in GoodLabels /\ id \in AllIds /\ M[id] = n
  BY MappedIs
<1>2. s \in Scopes /\ Slotted(t, s, M, {})
  BY DEF Fits, Holds
<1>3. CASE ~(ValidSlot(s, l) /\ s.freeslot = l.slot + 1)
  <2>1. u = s
    BY <1>3 DEF FreeSlot
  <2> QED
    BY <1>2, <2>1 DEF SlotFreed, Slotted
<1>4. CASE ValidSlot(s, l) /\ s.freeslot = l.slot + 1
  <2> DEFINE k == l.slot
  <2>1. k # NoSlot /\ k \in Nat \cup {NoSlot} /\ (Shared(l) => k = NoSlot)
    BY <1>1, <1>4, LabelIs DEF ValidSlot
  <2>2. k \in Nat /\ Owns(t, M, id) /\ s.freeslot = k + 1
    BY <1>1, <1>4, <2>1 DEF Owns
  <2>3. u = [s EXCEPT !.freeslot = k]
    BY <1>4 DEF FreeSlot
  <2>4. \A jd \in AllIds : jd # id /\ Owns(t, M, jd) =>
          t.label[M[jd]].slot \in Nat /\ t.label[M[jd]].slot < s.freeslot /\ t.label[M[jd]].slot # k
    BY <1>1, <1>2, <2>2 DEF Slotted
  <2> HIDE DEF u, k, M, id
  <2>5. u \in Scopes
    BY <1>2, <2>2, <2>3 DEF Scopes
  <2>6. u.count = s.count /\ u.lastProp = s.lastProp /\ u.table = s.table /\ u.freeslot = k
    BY <1>2, <2>3 DEF Scopes
  <2>7. u.hashed = s.hashed
    BY <1>2, <2>3 DEF Scopes
  <2>8. u.middle = s.middle
    BY <1>2, <2>3 DEF Scopes
  <2>9. \A j \in Nat : j < s.freeslot /\ j # k => j < k
    BY <2>2
  <2>10. \A jd \in AllIds : jd # id /\ Owns(t, M, jd) => t.label[M[jd]].slot < k
    BY <2>4, <2>9
  <2>11. SlotFreed(t, s, u, id)
    BY <2>5, <2>6, <2>7, <2>8, <2>10 DEF SlotFreed, M
  <2> QED
    BY <2>11 DEF u, id
<1> QED
  BY <1>3, <1>4

LEMMA LastDeleted ==
  ASSUME NEW t, Grows(t), NEW s, Fits(t, s, {}), NEW n \in Mapped(t, s), n = s.lastProp, NEW id, id = t.label[n].id,
         id \notin Hidden
  PROVE  Departed(t, s, RemoveScopeProperty(t, s, n), id)
<1> DEFINE f == FreeSlot(s, t.label[n])
           v == Shrunk(f, id)
           p == t.up[n]
           r == LastOf(t, v, p)
           u == [v EXCEPT !.lastProp = r]
           M == MapOf(t, s)
           L == Above(t, n)
<1>1. n \in LiveNodes(t) /\ n \in Nodes /\ n # 0 /\ id \in AllIds /\ M[id] = n
  BY MappedIs
<1>2. /\ s \in Scopes /\ (s.middle => s.hashed) /\ Unique(t, L)
  BY DEF Fits, Holds
<1>3. /\ t.up \in [Nodes -> Nodes \cup {0}] /\ Rooting(t) /\ 0 \notin Nodes
  BY UsableIs
<1>4. SlotFreed(t, s, f, id)
  BY FreeSlotIs
<1> HIDE DEF f
<1>5. ShrunkOf(f, v, id)
  BY <1>1, <1>4, ShrunkIs DEF SlotFreed
<1>6. RemoveScopeProperty(t, s, n) = RemoveLastProp(t, v)
  BY DEF RemoveScopeProperty, f
<1> HIDE DEF v
<1>7. /\ v \in Scopes /\ v.count = s.count - 1 /\ v.lastProp = n /\ v.hashed = s.hashed /\ v.middle = s.middle
      /\ v.freeslot = f.freeslot /\ \A jd \in AllIds : s.hashed => v.table[jd] = IF jd = id THEN 0 ELSE s.table[jd]
  BY <1>4, <1>5 DEF ShrunkOf, SlotFreed
<1>8. RemoveScopeProperty(t, s, n) = u
  BY <1>6, <1>7 DEF RemoveLastProp
<1>9. p \in Nodes \cup {0}
  BY <1>1, <1>3
<1>10. Reached(t, v, p, r)
  BY <1>3, <1>9, LastReached
<1>11. r \in Nodes \cup {0}
  <2>1. Above(t, p) \subseteq Nodes
    BY <1>3, <1>9, LineIs
  <2> QED
    BY <1>10, <2>1 DEF Reached
<1> HIDE DEF r
<1>12. /\ u \in Scopes /\ u.lastProp = r /\ u.count = v.count /\ u.table = v.table /\ u.hashed = v.hashed
       /\ u.middle = v.middle /\ u.freeslot = v.freeslot
  BY <1>7, <1>11, LastRemoved
<1> HIDE DEF u
<1>13. Leaver(t, s, u, id)
  BY <1>1, <1>4, <1>7, <1>12 DEF Leaver, SlotFreed
<1>14. \A m \in Above(t, p) : s.middle => (HasProperty(t, v, m) <=> M[t.label[m].id] = m)
  <2>1. SUFFICES ASSUME NEW m \in Above(t, p), s.middle PROVE HasProperty(t, v, m) <=> M[t.label[m].id] = m
    OBVIOUS
  <2>2. L = {n} \cup Above(t, p) /\ n \notin Above(t, p)
    BY <1>1, <1>3, AboveIs, LineIs
  <2>3. t.label[m].id # id
    BY <1>2, <2>1, <2>2 DEF Unique
  <2>4. t.label[m].id \in AllIds
    BY <1>13, <2>2, LeaverIs
  <2>5. s.hashed /\ M = s.table
    BY <1>2, <1>3, <2>1, MapIs
  <2>6. HasProperty(t, v, m) <=> v.table[t.label[m].id] = m
    BY <1>7, <2>5 DEF HasProperty, SearchScope
  <2> HIDE DEF M
  <2> QED
    BY <1>7, <2>3, <2>4, <2>5, <2>6
<1>15. Departed(t, s, u, id)
  <2>1. u.middle = s.middle /\ u.hashed = s.hashed /\ v.middle = s.middle
    BY <1>7, <1>12
  <2> QED
    BY <1>1, <1>10, <1>12, <1>13, <1>14, <2>1, LastLeaves
<1> QED
  BY <1>8, <1>15

LEMMA MiddleDeleted ==
  ASSUME NEW t, Grows(t), NEW s, Fits(t, s, {}), NEW n \in Mapped(t, s), n # s.lastProp, NEW id, id = t.label[n].id,
         id \notin Hidden
  PROVE  \E v : /\ Departed(t, v, RemoveScopeProperty(t, s, n), id)
                /\ v.lastProp = s.lastProp /\ RemoveScopeProperty(t, s, n).lastProp = s.lastProp
                /\ \A jd \in AllIds : MapOf(t, v)[jd] = 0 <=> MapOf(t, s)[jd] = 0
<1> DEFINE v == IF s.hashed THEN s ELSE CreateScopeTable(t, s)
           f == FreeSlot(v, t.label[n])
           w == Shrunk(f, id)
           u == SetMiddleDelete(w)
<1>1. id \in AllIds /\ n # 0 /\ MapOf(t, s)[id] = n
  BY MappedIs
<1>2. /\ Fits(t, v, {}) /\ v.hashed /\ v.lastProp = s.lastProp /\ MapOf(t, v)[id] = n
      /\ \A jd \in AllIds : MapOf(t, v)[jd] = 0 <=> MapOf(t, s)[jd] = 0
  BY <1>1, TableFirst
<1>3. RemoveScopeProperty(t, s, n) = u
  BY DEF RemoveScopeProperty
<1> HIDE DEF v
<1>4. n \in Mapped(t, v)
  BY <1>1, <1>2 DEF Mapped, MapOf
<1>5. SlotFreed(t, v, f, id)
  BY <1>2, <1>4, FreeSlotIs
<1> HIDE DEF f
<1>6. ShrunkOf(f, w, id)
  BY <1>1, <1>5, ShrunkIs DEF SlotFreed
<1> HIDE DEF w
<1>7. /\ w \in Scopes /\ w.count = v.count - 1 /\ w.lastProp = s.lastProp /\ w.hashed = v.hashed
      /\ w.freeslot = f.freeslot /\ \A jd \in AllIds : v.hashed => w.table[jd] = IF jd = id THEN 0 ELSE v.table[jd]
  BY <1>2, <1>5, <1>6 DEF ShrunkOf, SlotFreed
<1>8. /\ u \in Scopes /\ u.lastProp = w.lastProp /\ u.count = w.count /\ u.table = w.table /\ u.hashed = w.hashed
      /\ u.middle = TRUE /\ u.freeslot = w.freeslot
  BY <1>7, MiddleSet, ZenonT(30)
<1> HIDE DEF u
<1>9. Leaver(t, v, u, id)
  BY <1>1, <1>2, <1>5, <1>7, <1>8 DEF Leaver, SlotFreed
<1>10. Departed(t, v, u, id)
  BY <1>2, <1>7, <1>8, <1>9, MiddleLeaves
<1> QED
  BY <1>2, <1>3, <1>7, <1>8, <1>10

LEMMA RemoveFits ==
  ASSUME NEW t, Grows(t), NEW s, Fits(t, s, {}), NEW n \in Mapped(t, s), t.label[n].attr # "formal"
  PROVE  Fits(t, RemoveScopeProperty(t, s, n), {})
<1> DEFINE id == t.label[n].id
           u == RemoveScopeProperty(t, s, n)
<1>1. id \in AllIds /\ t.label[n] \in GoodLabels
  BY MappedIs
<1>2. id \notin Hidden
  BY <1>1, LabelIs
<1> HIDE DEF u
<1>3. \E v : Departed(t, v, u, id)
  <2>1. CASE n = s.lastProp
    BY <1>2, <2>1, LastDeleted DEF u
  <2>2. CASE n # s.lastProp
    BY <1>2, <2>2, MiddleDeleted DEF u
  <2> QED
    BY <2>1, <2>2
<1>4. PICK v : Departed(t, v, u, id)
  BY <1>3
<1>5. Fits(t, u, {id})
  BY <1>4, DepartedFits
<1>6. MapOf(t, u)[id] = 0
  BY <1>2, <1>4 DEF Departed
<1> HIDE DEF id
<1>7. Fits(t, u, {})
  BY <1>1, <1>2, <1>5, <1>6, GivenUp
<1> QED
  BY <1>7 DEF u

LEMMA DeleteEnds ==
  ASSUME Usable(propTree), NEW s, Fits(propTree, s, {}), NEW n \in Mapped(propTree, s), propTree.label[n].attr # "formal",
         NEW fault
  PROVE  Ends(propTree, Deleted(s, n, fault))
<1> DEFINE r == Deleted(s, n, fault)
<1>1. r.tree = propTree /\ (r.scope = s \/ r.scope = RemoveScopeProperty(propTree, s, n))
  BY DEF Deleted
<1>2. Fits(propTree, RemoveScopeProperty(propTree, s, n), {})
  BY RemoveFits DEF Usable
<1> HIDE DEF r
<1>3. Ends(propTree, r)
  BY <1>1, <1>2, SameGrew DEF Ends
<1> QED
  BY <1>3 DEF r

\* The number of parameters says nothing of the line.
LEMMA BumpedFits ==
  ASSUME NEW t, NEW s \in Scopes, NEW u, u = [s EXCEPT !.nargs = @ + 1]
  PROVE  /\ u \in Scopes
         /\ Fits(t, s, {}) => Fits(t, u, {})
         /\ Torn(t, s) => Torn(t, u)
<1> DEFINE k == s.nargs + 1
<1>1. k \in Nat
  BY DEF Scopes
<1>2. u = [s EXCEPT !.nargs = k]
  OBVIOUS
<1> HIDE DEF k
<1>3. u \in Scopes
  BY <1>1, <1>2 DEF Scopes
<1>4. u.lastProp = s.lastProp /\ u.table = s.table /\ u.count = s.count /\ u.freeslot = s.freeslot
  BY <1>2 DEF Scopes
<1>5. u.hashed = s.hashed
  BY <1>2 DEF Scopes
<1>6. u.middle = s.middle
  BY <1>2 DEF Scopes
<1>7. MapOf(t, u) = MapOf(t, s)
  BY <1>4, <1>5 DEF MapOf, SearchScope
<1>8. Fits(t, s, {}) => Fits(t, u, {})
  <2>1. SUFFICES ASSUME Fits(t, s, {}) PROVE Fits(t, u, {})
    OBVIOUS
  <2> DEFINE L == Above(t, s.lastProp)
             M == MapOf(t, s)
  <2>2. s.lastProp \in LiveNodes(t) \cup {0} /\ (s.middle => s.hashed) /\ Holds(t, s, L, M, {})
    BY <2>1 DEF Fits
  <2> HIDE DEF L, M
  <2>3. Holds(t, u, L, M, {})
    BY <1>4, <1>6, <2>2 DEF Holds, Covered, Counted, Slotted
  <2> QED
    BY <1>3, <1>4, <1>5, <1>6, <1>7, <2>2, <2>3 DEF Fits, L, M
<1>9. Torn(t, s) => Torn(t, u)
  BY <1>4, <1>5 DEF Torn
<1> QED
  BY <1>3, <1>8, <1>9

Result(r) == \E tree, sc, node : r = [tree |-> tree, scope |-> sc, node |-> node]

LEMMA ResultIs == \A tree, sc, node : Result([tree |-> tree, scope |-> sc, node |-> node])
  BY DEF Result

LEMMA AddResult ==
  ASSUME NEW t, NEW s, NEW label, NEW duplicate
  PROVE  Result(AddScopeProperty(t, s, label, duplicate))
<1>1. ASSUME NEW u, NEW v, NEW over PROVE Result(FailOverwrite(u, v, over))
  <2>1. \A id, n, w, z : Result(Back(z, w, id, n)) /\ Result(BackLast(z, w, id, n))
    BY ResultIs DEF Back, BackLast
  <2>2. \A id, g : Result(BackForked(v, id, g))
    BY <2>1, ResultIs DEF BackForked
  <2> QED
    BY <2>1, <2>2, ResultIs DEF FailOverwrite
<1>2. \A g, v, id, over : Result(Appended(g, v, id, over))
  BY <1>1, ResultIs DEF Appended
<1>3. \A u, x, over : Result(DefineNode(u, x, over))
  BY <1>1, <1>2 DEF DefineNode
<1>4. \A u, v, x, over : Result(Define(u, v, x, over))
  BY <1>1, <1>3 DEF Define, DefineSlot
<1>5. \A n, x : Result(AddOrReplace(t, s, n, x, duplicate))
  BY <1>4, ResultIs DEF AddOrReplace
<1> QED
  BY <1>5 DEF AddScopeProperty, AddOver

LEMMA BumpedEnds ==
  ASSUME NEW t, NEW r, Result(r), Ends(t, r)
  PROVE  Ends(t, Bumped(r))
<1>0. PICK tree, sc, node : r = [tree |-> tree, scope |-> sc, node |-> node]
  BY DEF Result
<1>1. CASE r.node = 0
  BY <1>1 DEF Bumped
<1>2. CASE r.node # 0
  <2> DEFINE u == [sc EXCEPT !.nargs = @ + 1]
  <2>1. Bumped(r) = [tree |-> tree, scope |-> u, node |-> node]
    BY <1>0, <1>2 DEF Bumped
  <2>2. sc \in Scopes /\ (Fits(tree, sc, {}) \/ Torn(tree, sc)) /\ Usable(tree) /\ Grew(t, tree)
    BY <1>0 DEF Ends, Ripped, Fits
  <2>3. u \in Scopes /\ (Fits(tree, u, {}) \/ Torn(tree, u))
    BY <2>2, BumpedFits
  <2> HIDE DEF u
  <2>4. Bumped(r).tree = tree /\ Bumped(r).scope = u
    BY <2>1
  <2> QED
    BY <2>2, <2>3, <2>4 DEF Ends, Ripped
<1> QED
  BY <1>1, <1>2

\* A scope that has nothing.
LEMMA EmptyFits ==
  ASSUME NEW t, Grows(t), NEW k \in Nat, NEW u, u = [InitMinimalScope EXCEPT !.nargs = k]
  PROVE  Fits(t, u, {})
<1> DEFINE z == [id \in AllIds |-> 0]
<1>1. /\ u.lastProp = 0 /\ u.table = z /\ u.count = 0 /\ u.freeslot = 0 /\ u.nargs = k
      /\ u.hashed = FALSE /\ u.middle = FALSE
  BY DEF InitMinimalScope
<1>2. u = [lastProp |-> 0, hashed |-> FALSE, table |-> z, count |-> 0, middle |-> FALSE, freeslot |-> 0, nargs |-> k]
  BY DEF InitMinimalScope
<1>3. z \in [AllIds -> Nodes \cup {0}]
  OBVIOUS
<1> HIDE DEF z
<1>4. u \in Scopes
  <2>1. \A h, m \in BOOLEAN : [lastProp |-> 0, hashed |-> h, table |-> z, count |-> 0, middle |-> m, freeslot |-> 0,
                             nargs |-> k] \in Scopes
    BY <1>3 DEF Scopes
  <2> QED
    BY <1>2, <2>1, Zenon
<1>5. t.up \in [Nodes -> Nodes \cup {0}] /\ Rooting(t)
  BY UsableIs
<1>6. Above(t, u.lastProp) = {}
  BY <1>1, <1>5, AboveIs
<1>7. \A id \in AllIds : MapOf(t, u)[id] = 0
  <2>1. \A id \in AllIds : Finds(t, u.lastProp, id, MapOf(t, u)[id])
    BY <1>1, <1>4, <1>5, MapIs
  <2> QED
    BY <1>6, <2>1 DEF Finds
<1> DEFINE M == MapOf(t, u)
<1> HIDE DEF M
<1>8. \A id \in AllIds : M[id] = 0
  BY <1>7 DEF M
<1>9. Mapping(t, {}, M) /\ Unique(t, {}) /\ Covered(t, u, {}, M, {})
  BY <1>8 DEF Mapping, Unique, Covered
<1>10. Counted(u, M, {})
  <2>1. BoundIds(M, {}) = {}
    BY <1>8 DEF BoundIds
  <2> QED
    BY <1>1, <2>1, FS_EmptySet DEF Counted
<1>11. Slotted(t, u, M, {})
  BY <1>8 DEF Slotted, Owns
<1> QED
  BY <1>1, <1>4, <1>6, <1>9, <1>10, <1>11 DEF Fits, Holds, M

\* Which allocation is to fail says nothing of the tree.
LEMMA FaultSet ==
  ASSUME NEW t, Usable(t), NEW fault \in Failures \cup {"crash"}, NEW u, u = [t EXCEPT !.fault = fault]
  PROVE  /\ Usable(u) /\ Grows(u) /\ Grew(t, u) /\ Grew(u, t)
         /\ u.label = t.label /\ u.up = t.up /\ LiveNodes(u) = LiveNodes(t)
<1>1. /\ t \in TreesOf(GoodLabels) /\ Healthy(t) /\ Rooting(t) /\ FormalsFirst(t)
  BY UsableIs DEF Usable
<1>2. t.bare \subseteq GoodLabels
  BY <1>1 DEF TreesOf
<1>3. GrownBy(GoodLabels, t, [t EXCEPT !.bare = t.bare, !.fault = fault], 0, 0)
  BY <1>1, <1>2, SameGot
<1>4. u = [t EXCEPT !.bare = t.bare, !.fault = fault]
  BY <1>1 DEF TreesOf
<1>5. u \in TreesOf(GoodLabels) /\ Healthy(u) /\ Rooting(u)
  BY <1>3, <1>4 DEF GrownBy
<1>6. u.label = t.label /\ u.up = t.up
  BY <1>1 DEF TreesOf
<1>7. LiveNodes(u) = LiveNodes(t) /\ FormalsFirst(u)
  BY <1>1, <1>6 DEF LiveNodes, FormalsFirst
<1> QED
  BY <1>5, <1>6, <1>7 DEF Usable, Grows, Grew

\* A longer tree shows no other duplicates.
LEMMA DuplicatesGrown ==
  ASSUME NEW t, Grows(t), NEW u, Grows(u), Grew(t, u), NEW s, s.lastProp \in LiveNodes(t) \cup {0},
         ~MapsFirstDuplicate(t, s)
  PROVE  ~MapsFirstDuplicate(u, s)
<1> DEFINE L == Above(t, s.lastProp)
<1>1. Above(u, s.lastProp) = L /\ L \subseteq LiveNodes(t) /\ \A m \in L : u.label[m] = t.label[m] /\ u.up[m] = t.up[m]
  BY GrewLine
<1>2. \A m \in L : Above(u, u.up[m]) = Above(t, t.up[m]) /\ \A n \in Above(t, t.up[m]) : u.label[n] = t.label[n]
  <2>1. ASSUME NEW m \in L
        PROVE Above(u, u.up[m]) = Above(t, t.up[m]) /\ \A n \in Above(t, t.up[m]) : u.label[n] = t.label[n]
    <3>1. t.up[m] \in LiveNodes(t) \cup {0} /\ u.up[m] = t.up[m]
      BY <1>1, UsableIs, LiveLine
    <3> QED
      BY <3>1, GrewLine
  <2> QED
    BY <2>1
<1> QED
  BY <1>1, <1>2 DEF MapsFirstDuplicate

-----------------------------------------------------------------------------
(***************************************************************************)
(* The steps of PropertiesNext keep the invariant.                         *)
(***************************************************************************)
\* Between two calls the tree can be used, every scope fits it, and no table
\* names the first of two duplicates.
ScopesFit ==
  \A i \in DOMAIN scope : Fits(propTree, scope[i], {}) /\ ~MapsFirstDuplicate(propTree, scope[i])
PropertiesInv ==
  /\ Usable(propTree) /\ ScopesFit
  /\ call.op = "collect" => LiveNodes(propTree) = MarkedNodes

LEMMA ReturnKeeps ==
  ASSUME Anomalies = {}, PropertiesInv, NEW op, op # "collect", NEW i \in DOMAIN scope, NEW p, NEW r,
         Ends(propTree, r), Returns(op, i, p, r)
  PROVE  PropertiesInv'
<1> DEFINE t == r.tree
           s == r.scope
           u == propTree'
<1>1. /\ t.fault # "crash" /\ ~Torn(t, s) /\ ~MapsFirstDuplicate(t, s)
  BY DEF Returns, Usual
<1>2. Usable(t) /\ Grew(propTree, t) /\ Fits(t, s, {})
  BY <1>1 DEF Ends, Ripped
<1>3. Grows(propTree) /\ Grows(t)
  BY <1>2 DEF Usable, PropertiesInv
<1>4. u = [t EXCEPT !.fault = "none"] /\ scope' = [scope EXCEPT ![i] = s] /\ call'.op = op
  BY DEF Returns
<1>5. "none" \in Failures \cup {"crash"}
  BY DEF Failures
<1> HIDE DEF t, s, u
<1>6. Usable(u) /\ Grows(u) /\ Grew(t, u)
  BY <1>2, <1>4, <1>5, FaultSet
<1>7. Grew(propTree, u)
  BY <1>2, <1>6, SameGrew
<1>8. Fits(u, s, {}) /\ ~MapsFirstDuplicate(u, s)
  <2>1. s.lastProp \in LiveNodes(t) \cup {0}
    BY <1>2 DEF Fits
  <2> QED
    BY <1>1, <1>2, <1>3, <1>6, <2>1, FitsGrown, DuplicatesGrown DEF t, s
<1>9. \A j \in DOMAIN scope : Fits(u, scope[j], {}) /\ ~MapsFirstDuplicate(u, scope[j])
  <2>1. ASSUME NEW j \in DOMAIN scope PROVE Fits(u, scope[j], {}) /\ ~MapsFirstDuplicate(u, scope[j])
    <3>1. Fits(propTree, scope[j], {}) /\ ~MapsFirstDuplicate(propTree, scope[j])
      BY DEF PropertiesInv, ScopesFit
    <3>2. scope[j].lastProp \in LiveNodes(propTree) \cup {0}
      BY <3>1 DEF Fits
    <3> QED
      BY <1>3, <1>6, <1>7, <3>1, <3>2, FitsGrown, DuplicatesGrown
  <2> QED
    BY <2>1
<1>10. DOMAIN scope' = DOMAIN scope /\ \A j \in DOMAIN scope : scope'[j] = IF j = i THEN s ELSE scope[j]
  BY <1>4
<1>11. \A j \in DOMAIN scope' : Fits(u, scope'[j], {}) /\ ~MapsFirstDuplicate(u, scope'[j])
  BY <1>8, <1>9, <1>10
<1>12. ScopesFit'
  BY <1>11 DEF ScopesFit, u
<1> QED
  BY <1>4, <1>6, <1>12 DEF PropertiesInv, u

LEMMA FaultyFits ==
  ASSUME PropertiesInv, NEW fault \in Faults, NEW i \in DOMAIN scope
  PROVE  /\ Usable(Faulty(fault)) /\ Fits(Faulty(fault), scope[i], {}) /\ scope[i] \in Scopes
         /\ MapOf(Faulty(fault), scope[i]) = MapOf(propTree, scope[i])
         /\ Faulty(fault).label = propTree.label
         /\ \A r : Ends(Faulty(fault), r) => Ends(propTree, r)
<1> DEFINE u == Faulty(fault)
<1>1. u = [propTree EXCEPT !.fault = fault] /\ fault \in Failures \cup {"crash"} /\ Usable(propTree)
  BY PropertyAssumption DEF Faulty, PropertiesInv
<1> HIDE DEF u
<1>2. Usable(u) /\ Grows(u) /\ Grew(propTree, u) /\ u.label = propTree.label
  BY <1>1, FaultSet
<1>3. Grows(propTree) /\ Fits(propTree, scope[i], {})
  BY <1>1 DEF Usable, PropertiesInv, ScopesFit
<1>4. Fits(u, scope[i], {}) /\ MapOf(u, scope[i]) = MapOf(propTree, scope[i])
  BY <1>2, <1>3, FitsGrown
<1>5. scope[i] \in Scopes
  BY <1>3 DEF Fits
<1>6. \A r : Ends(u, r) => Ends(propTree, r)
  BY <1>2, SameGrew DEF Ends
<1> QED
  BY <1>2, <1>4, <1>5, <1>6 DEF u

LEMMA AddPropertyKeeps ==
  ASSUME Anomalies = {}, PropertiesInv, NEW i \in DOMAIN scope, NEW id \in Ids, NEW attr \in PropAttrs, NEW fault \in Faults,
         AddProperty(i, id, attr, fault)
  PROVE  PropertiesInv'
<1> DEFINE t == Faulty(fault)
           s == scope[i]
           x == Label(id, attr, NoSlot, 0)
           r == AddScopeProperty(t, s, x, FALSE)
<1>1. Usable(t) /\ Fits(t, s, {}) /\ \A q : Ends(t, q) => Ends(propTree, q)
  BY FaultyFits
<1>2. x \in PropLabels /\ x.id = id /\ x.attr = attr /\ x.slot = NoSlot
  BY DEF Label, PropLabels, AllIds
<1>3. attr # "formal" /\ id \notin Hidden
  BY PropertyAssumption
<1> HIDE DEF t, s, x
<1>4. Given(t, MapOf(t, s), x, MapOf(t, s)[x.id])
  BY <1>2, <1>3 DEF Given
<1>5. Ends(t, r)
  BY <1>1, <1>2, <1>3, <1>4, AddEnds
<1>6. Returns("define", i, Property(id, attr, 0), r)
  BY DEF AddProperty, t, s, x
<1> HIDE DEF r
<1>7. Ends(propTree, r)
  BY <1>1, <1>5
<1>8. "define" # "collect"
  OBVIOUS
<1> QED
  BY <1>6, <1>7, <1>8, ReturnKeeps

LEMMA AddFormalKeeps ==
  ASSUME Anomalies = {}, PropertiesInv, NEW i \in DOMAIN scope, NEW id \in Hidden, NEW fault \in Faults,
         AddFormal(i, id, fault)
  PROVE  PropertiesInv'
<1> DEFINE t == Faulty(fault)
           s == scope[i]
           x == Label(id, "formal", NoSlot, s.nargs)
           duplicate == SearchScope(propTree, s, id) # 0
           r == AddScopeProperty(t, s, x, duplicate)
           M == MapOf(propTree, s)
<1>1. /\ Usable(t) /\ Fits(t, s, {}) /\ (\A q : Ends(t, q) => Ends(propTree, q)) /\ s \in Scopes /\ MapOf(t, s) = M
  BY FaultyFits
<1>2. id \in AllIds /\ s.nargs \in Nat /\ NoSlot \in Nat \cup {NoSlot}
  BY <1>1 DEF AllIds, Scopes
<1>3. x \in PropLabels /\ x.id = id /\ x.attr = "formal" /\ Shared(x)
  BY <1>2 DEF Label, PropLabels, Shared
<1>4. Grows(propTree) /\ Fits(propTree, s, {})
  BY DEF Usable, PropertiesInv, ScopesFit
<1>5. \A n \in Mapped(propTree, s) : propTree.label[n].id \in Hidden
  BY DEF AddFormal
<1>6. \A jd \in AllIds : M[jd] # 0 => jd \in Hidden
  <2>1. ASSUME NEW jd \in AllIds, M[jd] # 0 PROVE jd \in Hidden
    <3>1. M[jd] \in Mapped(propTree, s)
      BY <2>1 DEF Mapped, MapOf
    <3>2. Mapping(propTree, Above(propTree, s.lastProp), M)
      BY <1>4 DEF Fits, Holds
    <3> QED
      BY <1>5, <2>1, <3>1, <3>2 DEF Mapping
  <2> QED
    BY <2>1
<1>7. M[id] # 0 <=> duplicate
  BY <1>2 DEF MapOf
<1>8. duplicate \in BOOLEAN
  OBVIOUS
<1> HIDE DEF t, s, x, duplicate, M
<1>9. Given(t, MapOf(t, s), x, MapOf(t, s)[x.id])
  BY <1>1, <1>3, <1>6 DEF Given
<1>10. Ends(t, r)
  BY <1>1, <1>3, <1>7, <1>8, <1>9, AddEnds
<1>11. Ends(t, Bumped(r))
  BY <1>10, AddResult, BumpedEnds
<1>12. Returns("define", i, Property(id, "formal", s.nargs), Bumped(r))
  BY DEF AddFormal, t, s, x, duplicate
<1> HIDE DEF r
<1>13. Ends(propTree, Bumped(r))
  BY <1>1, <1>11
<1>14. "define" # "collect"
  OBVIOUS
<1> QED
  BY <1>12, <1>13, <1>14, ReturnKeeps

LEMMA ChangeKeeps ==
  ASSUME Anomalies = {}, PropertiesInv, NEW i \in DOMAIN scope, NEW n \in Mapped(propTree, scope[i]),
         propTree.label[n].attr # "formal", NEW attr \in PropAttrs, attr = "shared" => Shared(propTree.label[n]),
         NEW fault \in Faults, Change(i, n, attr, fault)
  PROVE  PropertiesInv'
<1> DEFINE t == Faulty(fault)
           s == scope[i]
           r == ChangeScopePropertyAttrs(t, s, n, attr)
           p == [PropertyOf(propTree, n) EXCEPT !.attr = attr]
<1>1. /\ Usable(t) /\ Fits(t, s, {}) /\ (\A q : Ends(t, q) => Ends(propTree, q)) /\ MapOf(t, s) = MapOf(propTree, s)
      /\ t.label = propTree.label
  BY FaultyFits
<1>2. n \in Mapped(t, s)
  <2>1. \A jd \in AllIds : SearchScope(t, s, jd) = SearchScope(propTree, s, jd)
    <3>1. \A jd \in AllIds : MapOf(t, s)[jd] = SearchScope(t, s, jd) /\ MapOf(propTree, s)[jd] = SearchScope(propTree, s, jd)
      BY DEF MapOf
    <3> QED
      BY <1>1, <3>1
  <2> HIDE DEF t
  <2> QED
    BY <2>1 DEF Mapped
<1>3. Returns("define", i, p, r)
  BY DEF Change
<1> HIDE DEF t, p
<1>4. Ends(t, r)
  BY <1>1, <1>2, ChangeEnds
<1> HIDE DEF r
<1>5. Ends(propTree, r)
  BY <1>1, <1>4
<1>6. "define" # "collect"
  OBVIOUS
<1> QED
  BY <1>3, <1>5, <1>6, ReturnKeeps

LEMMA DeleteKeeps ==
  ASSUME Anomalies = {}, PropertiesInv, NEW i \in DOMAIN scope, NEW n \in Mapped(propTree, scope[i]),
         propTree.label[n].attr # "formal", NEW fault \in Faults, Delete(i, n, fault)
  PROVE  PropertiesInv'
<1> DEFINE r == Deleted(scope[i], n, fault)
<1>1. Usable(propTree) /\ Fits(propTree, scope[i], {})
  BY DEF PropertiesInv, ScopesFit
<1>2. Ends(propTree, r)
  BY <1>1, DeleteEnds
<1>3. Returns("delete", i, PropertyOf(propTree, n), r)
  BY DEF Delete
<1> HIDE DEF r
<1>4. "delete" # "collect"
  OBVIOUS
<1> QED
  BY <1>2, <1>3, <1>4, ReturnKeeps

LEMMA ClearKeeps ==
  ASSUME Anomalies = {}, PropertiesInv, NEW i \in DOMAIN scope, Clear(i)
  PROVE  PropertiesInv'
<1> DEFINE u == Cleared(scope[i])
           r == [tree |-> propTree, scope |-> u, node |-> 1]
<1>1. Usable(propTree) /\ Grows(propTree) /\ scope[i] \in Scopes
  BY DEF PropertiesInv, ScopesFit, Fits, Usable
<1>2. scope[i].nargs \in Nat
  BY <1>1 DEF Scopes
<1>3. Fits(propTree, u, {})
  BY <1>1, <1>2, EmptyFits DEF Cleared
<1>4. Returns("clear", i, NoProperty, r)
  BY DEF Clear
<1> HIDE DEF u
<1>5. r.tree = propTree /\ r.scope = u
  OBVIOUS
<1> HIDE DEF r
<1>6. Ends(propTree, r)
  BY <1>1, <1>3, <1>5, SameGrew DEF Ends
<1>7. "clear" # "collect"
  OBVIOUS
<1> QED
  BY <1>4, <1>6, <1>7, ReturnKeeps

\* The last property of a scope is found under its id.
LEMMA LastMapped ==
  ASSUME NEW t, Grows(t), NEW s, Fits(t, s, {}), ~MapsFirstDuplicate(t, s), s.lastProp # 0
  PROVE  /\ MapOf(t, s)[t.label[s.lastProp].id] = s.lastProp /\ HasProperty(t, s, s.lastProp)
         /\ t.label[s.lastProp].id \in AllIds /\ s.lastProp \in Above(t, s.lastProp)
<1> DEFINE n == s.lastProp
           id == t.label[n].id
           L == Above(t, n)
           M == MapOf(t, s)
<1>1. /\ s \in Scopes /\ n \in LiveNodes(t) /\ n \in Nodes /\ id \in AllIds /\ Holds(t, s, L, M, {})
  BY UsableIs DEF Fits
<1>2. t.up \in [Nodes -> Nodes \cup {0}] /\ Rooting(t)
  BY UsableIs
<1>3. L = {n} \cup Above(t, t.up[n])
  BY <1>1, <1>2, AboveIs
<1>4. M[id] = n
  <2>1. CASE s.hashed
    <3>1. M = s.table
      BY <1>1, <1>2, <2>1, MapIs
    <3>2. M[id] # 0
      BY <1>1, <1>3 DEF Holds, Covered
    <3>3. M[id] \in L /\ t.label[M[id]].id = id
      BY <1>1, <3>2, SMTT(30) DEF Holds, Mapping
    <3>4. M[id] \notin Above(t, t.up[n])
      BY <1>3, <2>1, <3>1, <3>3 DEF MapsFirstDuplicate
    <3> QED
      BY <1>3, <3>3, <3>4
  <2>2. CASE ~s.hashed
    <3>1. M[id] = SearchLine(t, n, id)
      BY <1>1, <1>2, <2>2, MapIs
    <3>2. \A m \in Nodes : SearchLine(t, m, id) = IF t.label[m].id = id THEN m ELSE SearchLine(t, t.up[m], id)
      BY <1>2, SearchLineIs
    <3> QED
      BY <1>1, <3>1, <3>2
  <2> QED
    BY <2>1, <2>2
<1>5. HasProperty(t, s, n)
  BY <1>1, <1>4 DEF HasProperty, MapOf
<1> QED
  BY <1>1, <1>3, <1>4, <1>5

\* A tree that has lost what no scope needs.
SweptOff(t, u, marked) ==
  /\ Usable(t) /\ Grows(u)
  /\ \A m \in Nodes : u.label[m] = IF m \in marked THEN t.label[m] ELSE NoLabel
  /\ \A k \in LiveNodes(u) : Above(u, k) = Above(t, k) \cap LiveNodes(u)
  /\ \A m \in LiveNodes(u) : t.up[m] \in LiveNodes(u) \cup {0} => u.up[m] = t.up[m]
Marks(t, s, marked) ==
  \A n \in Above(t, s.lastProp) : n \in LiveNodes(t) /\ ((s.middle => HasProperty(t, s, n)) => n \in marked)

LEMMA SweptIs ==
  ASSUME NEW t, NEW u, NEW marked, SweptOff(t, u, marked)
  PROVE  /\ LiveNodes(u) = LiveNodes(t) \cap marked /\ \A m \in LiveNodes(u) : u.label[m] = t.label[m]
         /\ FormalsFirst(u)
<1>1. /\ Usable(t) /\ Grows(t) /\ Grows(u)
      /\ \A m \in Nodes : u.label[m] = IF m \in marked THEN t.label[m] ELSE NoLabel
      /\ \A k \in LiveNodes(u) : Above(u, k) = Above(t, k) \cap LiveNodes(u)
  BY DEF SweptOff, Usable
<1>2. LiveNodes(u) = LiveNodes(t) \cap marked /\ \A m \in LiveNodes(u) : u.label[m] = t.label[m]
  BY <1>1 DEF LiveNodes
<1>3. u.up \in [Nodes -> Nodes \cup {0}] /\ Rooting(u)
  BY <1>1, UsableIs
<1>4. ASSUME NEW n \in Nodes, u.label[n] # NoLabel, u.up[n] # 0, u.label[n].id \in Hidden
      PROVE  u.label[u.up[n]].id \in Hidden
  <2>1. n \in LiveNodes(u) /\ n \in LiveNodes(t) /\ t.label[n].id \in Hidden
    BY <1>2, <1>4 DEF LiveNodes
  <2>2. u.up[n] \in LiveNodes(u)
    BY <1>1, <1>4, <2>1, UsableIs, LiveLine
  <2>3. u.up[n] \in Above(u, n)
    <3>1. Above(u, n) = {n} \cup Above(u, u.up[n]) /\ u.up[n] \in Nodes
      BY <1>3, <1>4, AboveIs
    <3>2. u.up[n] \in Above(u, u.up[n])
      BY <1>3, <3>1, LineIs
    <3> QED
      BY <3>1, <3>2
  <2>4. \A m \in Above(t, n) : t.label[m].id \in Hidden
    BY <1>1, <2>1, HiddenAbove
  <2>5. u.up[n] \in Above(t, n)
    BY <1>1, <2>1, <2>3
  <2> QED
    BY <1>2, <2>2, <2>4, <2>5
<1> QED
  BY <1>2, <1>4 DEF FormalsFirst

\* A scope fits the tree that a collection has left, and its line marks the
\* same nodes.
LEMMA SweptFits ==
  ASSUME NEW t, NEW u, NEW marked, SweptOff(t, u, marked), NEW s, Fits(t, s, {}), ~MapsFirstDuplicate(t, s),
         Marks(t, s, marked)
  PROVE  /\ Fits(u, s, {}) /\ MapOf(u, s) = MapOf(t, s) /\ Above(u, s.lastProp) = Above(t, s.lastProp) \cap LiveNodes(u)
         /\ (~s.middle => Above(u, s.lastProp) = Above(t, s.lastProp))
<1> DEFINE L == Above(t, s.lastProp)
           K == Above(u, s.lastProp)
           M == MapOf(t, s)
           N == MapOf(u, s)
<1>1. /\ Grows(t) /\ Grows(u) /\ LiveNodes(u) = LiveNodes(t) \cap marked /\ \A m \in LiveNodes(u) : u.label[m] = t.label[m]
  BY SweptIs DEF SweptOff, Usable
<1>2. /\ t.up \in [Nodes -> Nodes \cup {0}] /\ Rooting(t) /\ u.up \in [Nodes -> Nodes \cup {0}] /\ Rooting(u) /\ 0 \notin Nodes
  BY <1>1, UsableIs
<1>3. /\ s \in Scopes /\ s.lastProp \in LiveNodes(t) \cup {0} /\ s.lastProp \in Nodes \cup {0} /\ (s.middle => s.hashed)
      /\ Holds(t, s, L, M, {})
  BY <1>1, UsableIs DEF Fits
<1>4. s.lastProp \in LiveNodes(u) \cup {0}
  <2>1. CASE s.lastProp = 0
    BY <2>1
  <2>2. CASE s.lastProp # 0
    <3>1. HasProperty(t, s, s.lastProp) /\ s.lastProp \in L
      BY <1>1, <2>2, LastMapped
    <3> QED
      BY <1>1, <1>3, <3>1 DEF Marks
  <2> QED
    BY <2>1, <2>2
<1>5. K = L \cap LiveNodes(u)
  <2>1. CASE s.lastProp = 0
    <3>1. K = {} /\ L = {}
      BY <1>2, <2>1, AboveIs
    <3> QED
      BY <3>1
  <2>2. CASE s.lastProp # 0
    BY <1>4, <2>2 DEF SweptOff
  <2> QED
    BY <2>1, <2>2
<1>6. ~s.middle => K = L
  BY <1>1, <1>5 DEF Marks
<1>7. N = M
  <2>1. CASE s.hashed
    BY <1>2, <1>3, <2>1, MapIs
  <2>2. CASE ~s.hashed
    <3>1. K = L /\ \A m \in L : m \in LiveNodes(u) /\ u.label[m] = t.label[m]
      BY <1>1, <1>3, <1>5, <1>6, <2>2
    <3>2. \A m \in L : u.up[m] = t.up[m]
      <4>1. \A m \in L : t.up[m] \in L \cup {0}
        BY <1>2, <1>3, LineIs DEF Upward
      <4> QED
        BY <3>1, <4>1 DEF SweptOff
    <3>3. ASSUME NEW id PROVE SearchLine(u, s.lastProp, id) = SearchLine(t, s.lastProp, id)
      BY <1>2, <1>3, <3>1, <3>2, SameSearch
    <3> QED
      BY <2>2, <3>3 DEF MapOf, SearchScope
  <2> QED
    BY <2>1, <2>2
<1> HIDE DEF N
<1>8. \A m \in K : u.label[m] = t.label[m] /\ m \in L
  BY <1>1, <1>5
<1>9. \A id \in AllIds : M[id] # 0 => M[id] \in K /\ t.label[M[id]].id = id
  <2>1. ASSUME NEW id \in AllIds, M[id] # 0 PROVE M[id] \in K /\ t.label[M[id]].id = id
    <3>1. M[id] \in L /\ t.label[M[id]].id = id
      BY <1>3, <2>1 DEF Holds, Mapping
    <3>2. HasProperty(t, s, M[id])
      BY <3>1 DEF HasProperty, MapOf
    <3> QED
      BY <1>1, <1>5, <3>1, <3>2 DEF Marks
  <2> QED
    BY <2>1
<1> HIDE DEF K, L, M
<1>10. Holds(t, s, K, M, {})
  <2>1. Mapping(t, L, M) /\ Unique(t, L) /\ Covered(t, s, L, M, {}) /\ Counted(s, M, {}) /\ Slotted(t, s, M, {})
    BY <1>3 DEF Holds
  <2>2. Mapping(t, K, M)
    BY <1>9 DEF Mapping
  <2>3. Unique(t, K) /\ Covered(t, s, K, M, {})
    BY <1>8, <2>1 DEF Unique, Covered
  <2> QED
    BY <2>1, <2>2, <2>3 DEF Holds
<1>11. Holds(u, s, K, M, {})
  BY <1>8, <1>10, HoldsAlike
<1> QED
  BY <1>3, <1>4, <1>5, <1>6, <1>7, <1>11 DEF Fits, K, L, M, N

LEMMA SweptDuplicates ==
  ASSUME NEW t, NEW u, NEW marked, SweptOff(t, u, marked), NEW s, Fits(u, s, {}), ~MapsFirstDuplicate(t, s),
         Above(u, s.lastProp) \subseteq Above(t, s.lastProp)
  PROVE  ~MapsFirstDuplicate(u, s)
<1>1. /\ Grows(t) /\ Grows(u) /\ \A m \in LiveNodes(u) : u.label[m] = t.label[m]
      /\ LiveNodes(u) \subseteq Nodes /\ t.up \in [Nodes -> Nodes \cup {0}] /\ Rooting(t)
      /\ u.up \in [Nodes -> Nodes \cup {0}] /\ Rooting(u)
  BY SweptIs, UsableIs DEF SweptOff, Usable
<1>2. SUFFICES ASSUME NEW m \in Above(u, s.lastProp), NEW n \in Above(u, u.up[m]), s.hashed,
                      u.label[m].id = u.label[n].id, s.table[u.label[n].id] = n
               PROVE  FALSE
  BY DEF MapsFirstDuplicate
<1>3. m \in LiveNodes(u) /\ m \in Nodes /\ m \in Above(t, s.lastProp)
  <2>1. s.lastProp \in LiveNodes(u) \cup {0}
    BY DEF Fits
  <2> QED
    BY <1>1, <2>1, LineLabels
<1>4. Above(u, m) = {m} \cup Above(u, u.up[m]) /\ m \notin Above(u, u.up[m]) /\ Above(u, m) \subseteq LiveNodes(u)
  BY <1>1, <1>3, AboveIs, LineIs, LineLabels
<1>5. Above(t, m) = {m} \cup Above(t, t.up[m])
  BY <1>1, <1>3, AboveIs
<1>6. n \in Above(t, t.up[m]) /\ n \in LiveNodes(u)
  BY <1>2, <1>3, <1>4, <1>5 DEF SweptOff
<1>7. t.label[m].id = t.label[n].id /\ s.table[t.label[n].id] = n
  BY <1>1, <1>2, <1>3, <1>6
<1> QED
  BY <1>2, <1>3, <1>6, <1>7 DEF MapsFirstDuplicate

-----------------------------------------------------------------------------
(***************************************************************************)
(* A collection, the initial states, and what the invariant says.          *)
(***************************************************************************)
\* What js_Mark reaches from a scope.
Marked(t, s) == {n \in Above(t, s.lastProp) : s.middle => HasProperty(t, s, n)}

LEMMA MarkedAlike ==
  ASSUME NEW t, Grows(t), NEW u, NEW s, Fits(t, s, {}), MapOf(u, s) = MapOf(t, s),
         Above(u, s.lastProp) \subseteq Above(t, s.lastProp), Marked(t, s) \subseteq Above(u, s.lastProp),
         \A m \in Above(u, s.lastProp) : u.label[m] = t.label[m]
  PROVE  Marked(u, s) = Marked(t, s)
<1>1. /\ t.up \in [Nodes -> Nodes \cup {0}] /\ Rooting(t)
      /\ \A n \in LiveNodes(t) : n \in Nodes /\ t.label[n].id \in AllIds
  BY UsableIs
<1>2. Above(t, s.lastProp) \subseteq LiveNodes(t)
  <2>1. s.lastProp \in LiveNodes(t) \cup {0}
    BY DEF Fits
  <2> QED
    BY <2>1, UsableIs, LiveLine
<1>3. ASSUME NEW n \in Above(u, s.lastProp) PROVE HasProperty(u, s, n) <=> HasProperty(t, s, n)
  <2>1. t.label[n].id \in AllIds /\ u.label[n] = t.label[n]
    BY <1>1, <1>2
  <2>2. \A id \in AllIds : SearchScope(u, s, id) = SearchScope(t, s, id)
    <3>1. \A id \in AllIds : MapOf(u, s)[id] = SearchScope(u, s, id) /\ MapOf(t, s)[id] = SearchScope(t, s, id)
      BY DEF MapOf
    <3> QED
      BY <3>1
  <2> QED
    BY <2>1, <2>2 DEF HasProperty
<1> QED
  BY <1>3 DEF Marked

\* Every address holds one node, so that a collection comes to all of them.
LEMMA AllAddresses ==
  ASSUME NEW addresses \in AddressOrders
  PROVE  addresses \in [Nodes -> Nodes] /\ \A m \in Nodes : \E j \in Nodes : addresses[j] = m
<1>1. NumNodes \in Nat /\ Nodes = 1..NumNodes
  BY TreeAssumption DEF Nodes
<1>2. \A k \in Nodes : NumNodes + 1 - k \in Nodes /\ NumNodes + 1 - (NumNodes + 1 - k) = k
  BY <1>1
<1>3. CASE addresses = [k \in Nodes |-> k]
  BY <1>3
<1>4. CASE addresses = [k \in Nodes |-> NumNodes + 1 - k]
  <2>1. addresses \in [Nodes -> Nodes]
    BY <1>2, <1>4
  <2>2. ASSUME NEW m \in Nodes PROVE \E j \in Nodes : addresses[j] = m
    <3>1. NumNodes + 1 - m \in Nodes /\ addresses[NumNodes + 1 - m] = m
      BY <1>2, <1>4
    <3> QED
      BY <3>1
  <2> QED
    BY <2>1, <2>2
<1> QED
  BY <1>3, <1>4 DEF AddressOrders

LEMMA SweepIs ==
  ASSUME NEW t, Usable(t), NEW marked, NEW addresses \in AddressOrders
  PROVE  SweptOff(t, SweepScopeProperties(t, marked, addresses), marked)
<1> DEFINE u == SweepScopeProperties(t, marked, addresses)
<1>1. t \in TreesOf(GoodLabels) /\ Healthy(t) /\ Rooting(t)
  BY UsableIs DEF Usable
<1>2. SweptTo(GoodLabels, t, u, Nodes \ marked)
  BY <1>1, AllAddresses, AllSwept
<1> HIDE DEF u
<1>3. Grows(u)
  BY <1>2 DEF SweptTo, Grows
<1>4. \A m \in Nodes : u.label[m] = IF m \in marked THEN t.label[m] ELSE NoLabel
  BY <1>2 DEF SweptTo
<1>5. SweptOff(t, u, marked)
  BY <1>2, <1>3, <1>4 DEF SweptTo, SweptOff
<1> QED
  BY <1>5 DEF u

\* A scope before a collection and after it.
LEMMA SweptScope ==
  ASSUME NEW t, NEW u, NEW marked, SweptOff(t, u, marked), NEW s, Fits(t, s, {}), ~MapsFirstDuplicate(t, s),
         Marked(t, s) \subseteq marked
  PROVE  Fits(u, s, {}) /\ ~MapsFirstDuplicate(u, s) /\ Marked(u, s) = Marked(t, s)
<1>1. /\ Grows(t) /\ LiveNodes(u) = LiveNodes(t) \cap marked /\ \A m \in LiveNodes(u) : u.label[m] = t.label[m]
  BY SweptIs DEF SweptOff, Usable
<1>2. Above(t, s.lastProp) \subseteq LiveNodes(t)
  <2>1. s.lastProp \in LiveNodes(t) \cup {0}
    BY DEF Fits
  <2> QED
    BY <1>1, <2>1, UsableIs, LiveLine
<1>3. Marks(t, s, marked)
  BY <1>2 DEF Marks, Marked
<1>4. /\ Fits(u, s, {}) /\ MapOf(u, s) = MapOf(t, s) /\ Above(u, s.lastProp) = Above(t, s.lastProp) \cap LiveNodes(u)
  BY <1>3, SweptFits
<1>5. Above(u, s.lastProp) \subseteq Above(t, s.lastProp)
  BY <1>4
<1>6. ~MapsFirstDuplicate(u, s)
  BY <1>4, <1>5, SweptDuplicates
<1>7. Marked(t, s) \subseteq Above(u, s.lastProp)
  BY <1>1, <1>2, <1>4 DEF Marked
<1>8. \A m \in Above(u, s.lastProp) : u.label[m] = t.label[m]
  BY <1>1, <1>4
<1>9. Marked(u, s) = Marked(t, s)
  BY <1>1, <1>4, <1>5, <1>7, <1>8, MarkedAlike
<1> QED
  BY <1>4, <1>6, <1>9

\* A scope whose tree only differs in what may fail.
LEMMA FaultedScope ==
  ASSUME NEW t, Usable(t), NEW fault \in Failures \cup {"crash"}, NEW u, u = [t EXCEPT !.fault = fault],
         NEW s, Fits(t, s, {}), ~MapsFirstDuplicate(t, s)
  PROVE  Fits(u, s, {}) /\ ~MapsFirstDuplicate(u, s) /\ Marked(u, s) = Marked(t, s)
<1>1. Grows(t) /\ Grows(u) /\ Grew(t, u) /\ u.label = t.label
  BY FaultSet DEF Usable
<1>2. Fits(u, s, {}) /\ MapOf(u, s) = MapOf(t, s) /\ Above(u, s.lastProp) = Above(t, s.lastProp)
  BY <1>1, FitsGrown
<1>3. ~MapsFirstDuplicate(u, s)
  <2>1. s.lastProp \in LiveNodes(t) \cup {0}
    BY DEF Fits
  <2> QED
    BY <1>1, <2>1, DuplicatesGrown
<1>4. Marked(t, s) \subseteq Above(u, s.lastProp)
  BY <1>2 DEF Marked
<1>5. Marked(u, s) = Marked(t, s)
  BY <1>1, <1>2, <1>4, MarkedAlike
<1> QED
  BY <1>2, <1>3, <1>5

LEMMA SweepKeeps ==
  ASSUME PropertiesInv, NEW addresses \in AddressOrders, NEW fault \in Faults, Sweep(addresses, fault)
  PROVE  PropertiesInv'
<1> DEFINE f == Faulty(fault)
           marked == MarkedNodes
           t == SweepScopeProperties(f, marked, addresses)
           u == propTree'
<1>1. /\ Usable(propTree) /\ f = [propTree EXCEPT !.fault = fault] /\ fault \in Failures \cup {"crash"}
      /\ "none" \in Failures \cup {"crash"}
  BY PropertyAssumption DEF PropertiesInv, Faulty, Failures
<1>2. u = [t EXCEPT !.fault = "none"] /\ scope' = scope
  BY DEF Sweep
<1> HIDE DEF f
<1>3. Usable(f) /\ LiveNodes(f) = LiveNodes(propTree)
  BY <1>1, FaultSet
<1>4. SweptOff(f, t, marked)
  BY <1>3, SweepIs
<1> HIDE DEF t, u
<1>5. \A i \in DOMAIN scope : /\ Fits(propTree, scope[i], {}) /\ ~MapsFirstDuplicate(propTree, scope[i])
                              /\ MarkLine(scope[i]) = Marked(propTree, scope[i])
                              /\ Marked(propTree, scope[i]) \subseteq marked
  BY DEF PropertiesInv, ScopesFit, MarkLine, Marked, MarkedNodes
<1>6. marked \subseteq LiveNodes(f)
  <2>1. ASSUME NEW i \in DOMAIN scope PROVE Above(propTree, scope[i].lastProp) \subseteq LiveNodes(propTree)
    <3>1. scope[i].lastProp \in LiveNodes(propTree) \cup {0} /\ Grows(propTree)
      BY <1>1, <1>5 DEF Fits, Usable
    <3> QED
      BY <3>1, UsableIs, LiveLine
  <2> QED
    BY <1>3, <2>1 DEF MarkedNodes, MarkLine
<1> HIDE DEF marked
<1>7. Usable(t) /\ LiveNodes(t) = marked
  <2>1. LiveNodes(t) = LiveNodes(f) \cap marked /\ FormalsFirst(t)
    BY <1>4, SweptIs
  <2>2. Grows(t)
    BY <1>4 DEF SweptOff
  <2> QED
    BY <1>6, <2>1, <2>2 DEF Usable
<1>8. Usable(u) /\ LiveNodes(u) = marked
  BY <1>1, <1>2, <1>7, FaultSet
<1>9. ASSUME NEW i \in DOMAIN scope
      PROVE  Fits(u, scope[i], {}) /\ ~MapsFirstDuplicate(u, scope[i]) /\ Marked(u, scope[i]) = MarkLine(scope[i])
  <2>1. Fits(f, scope[i], {}) /\ ~MapsFirstDuplicate(f, scope[i]) /\ Marked(f, scope[i]) = Marked(propTree, scope[i])
    BY <1>1, <1>5, FaultedScope
  <2>2. Fits(t, scope[i], {}) /\ ~MapsFirstDuplicate(t, scope[i]) /\ Marked(t, scope[i]) = Marked(f, scope[i])
    BY <1>4, <1>5, <2>1, SweptScope
  <2>3. Fits(u, scope[i], {}) /\ ~MapsFirstDuplicate(u, scope[i]) /\ Marked(u, scope[i]) = Marked(t, scope[i])
    BY <1>1, <1>2, <1>7, <2>2, FaultedScope
  <2> QED
    BY <1>5, <2>1, <2>2, <2>3
<1>10. ScopesFit'
  BY <1>2, <1>9 DEF ScopesFit, u
<1>11. MarkedNodes' = UNION {Marked(u, scope[i]) : i \in DOMAIN scope}
  BY <1>2 DEF MarkedNodes, MarkLine, Marked, u
<1>12. MarkedNodes' = marked
  BY <1>9, <1>11 DEF MarkedNodes, marked
<1>13. LiveNodes(propTree)' = MarkedNodes'
  BY <1>8, <1>12 DEF u
<1> QED
  BY <1>8, <1>10, <1>13 DEF PropertiesInv, u

LEMMA EmptyUsable == Usable(EmptyTree)
<1> DEFINE t == EmptyTree
<1>1. /\ t.label = [n \in Nodes |-> NoLabel] /\ t.up = [n \in Nodes |-> 0] /\ t.kid = [n \in Nodes |-> 0]
      /\ t.list = [n \in Nodes |-> <<>>] /\ t.chunk = [c \in PropChunks |-> EmptyChunk]
      /\ t.held = {} /\ t.roots = {} /\ t.bare = {} /\ t.fault = "none"
  BY DEF EmptyTree
<1>2. EmptyChunk \in [KidSlots -> Nodes \cup {0}]
  BY DEF EmptyChunk
<1>3. t \in TreesOf(GoodLabels)
  <2>1. <<>> \in Seq(PropChunks)
    OBVIOUS
  <2>2. "none" \in Failures \cup {"crash"}
    BY DEF Failures
  <2> QED
    BY <1>2, <2>1, <2>2 DEF TreesOf, EmptyTree
<1> HIDE DEF t
<1>4. \A p \in Nodes : t.label[p] = NoLabel /\ t.up[p] = 0 /\ t.kid[p] = 0 /\ t.list[p] = <<>> /\ DOMAIN t.list[p] = {}
  BY <1>1
<1>5. 0 \notin Nodes
  BY DEF Nodes
<1>6. UpLinked(t, {}) /\ KidLinked(t, {}) /\ Apart(t) /\ Holding(t, {})
  BY <1>1, <1>4, <1>5 DEF UpLinked, KidLinked, KidIn, Apart, Holding
<1>7. \A p \in Nodes : ChunksSound(t, p)
  BY <1>4 DEF ChunksSound
<1>8. Healthy(t)
  BY <1>1, <1>4, <1>6, <1>7 DEF Healthy, Linked, Rooted, Clean
<1>9. Rooting(t)
  <2> DEFINE rank == [n \in Nodes |-> 0]
  <2>1. rank \in [Nodes -> 0..0] /\ 0 \in Nat
    OBVIOUS
  <2>2. Ranked(t, rank, 0)
    BY <1>4, <2>1 DEF Ranked
  <2> QED
    BY <2>1, <2>2 DEF Rooting
<1>10. FormalsFirst(t)
  BY <1>4 DEF FormalsFirst
<1> QED
  BY <1>3, <1>8, <1>9, <1>10 DEF Usable, Grows, t

LEMMA InitKeeps ==
  ASSUME PropertiesInit
  PROVE  PropertiesInv
<1>1. PICK n \in Nat : NewScopes(n)
  BY DEF PropertiesInit
<1>2. propTree = EmptyTree /\ scope = [i \in 1..n |-> InitMinimalScope] /\ call.op = "none"
  BY <1>1 DEF NewScopes, NoCall
<1>3. Usable(propTree) /\ Grows(propTree)
  BY <1>2, EmptyUsable DEF Usable
<1>4. InitMinimalScope = [InitMinimalScope EXCEPT !.nargs = 0] /\ ~InitMinimalScope.hashed
  <2> DEFINE z == [id \in AllIds |-> 0]
             R(h, m) == [lastProp |-> 0, hashed |-> h, table |-> z, count |-> 0, middle |-> m, freeslot |-> 0,
                         nargs |-> 0]
  <2>1. InitMinimalScope = R(FALSE, FALSE)
    BY DEF InitMinimalScope
  <2>2. ~InitMinimalScope.hashed
    BY <2>1
  <2> HIDE DEF z
  <2>3. ASSUME NEW h, NEW m PROVE R(h, m) = [R(h, m) EXCEPT !.nargs = 0]
    BY Z3
  <2> HIDE DEF R
  <2> QED
    BY <2>1, <2>2, <2>3
<1>5. 0 \in Nat
  OBVIOUS
<1>6. Fits(propTree, InitMinimalScope, {})
  BY <1>3, <1>4, <1>5, EmptyFits
<1>7. ~MapsFirstDuplicate(propTree, InitMinimalScope)
  BY <1>4 DEF MapsFirstDuplicate
<1>8. ScopesFit
  BY <1>2, <1>6, <1>7 DEF ScopesFit
<1> QED
  BY <1>2, <1>3, <1>8 DEF PropertiesInv

LEMMA NextKeeps ==
  ASSUME Anomalies = {}, PropertiesInv, [PropertiesNext]_propVars
  PROVE  PropertiesInv'
<1>1. CASE UNCHANGED propVars
  BY <1>1 DEF propVars, PropertiesInv, ScopesFit, MarkedNodes, MarkLine
<1>2. ASSUME NEW i \in DOMAIN scope, NEW fault \in Faults, NEW id \in Ids, NEW attr \in PropAttrs,
             AddProperty(i, id, attr, fault)
      PROVE  PropertiesInv'
  BY <1>2, AddPropertyKeeps
<1>3. ASSUME NEW i \in DOMAIN scope, NEW fault \in Faults, NEW id \in Hidden, AddFormal(i, id, fault)
      PROVE  PropertiesInv'
  BY <1>3, AddFormalKeeps
<1>4. ASSUME NEW i \in DOMAIN scope, NEW fault \in Faults, NEW n \in Mapped(propTree, scope[i]),
             propTree.label[n].attr # "formal", NEW attr \in PropAttrs,
             attr = "shared" => Shared(propTree.label[n]), Change(i, n, attr, fault)
      PROVE  PropertiesInv'
  BY <1>4, ChangeKeeps
<1>5. ASSUME NEW i \in DOMAIN scope, NEW fault \in Faults, NEW n \in Mapped(propTree, scope[i]),
             propTree.label[n].attr # "formal", Delete(i, n, fault)
      PROVE  PropertiesInv'
  BY <1>5, DeleteKeeps
<1>6. ASSUME NEW i \in DOMAIN scope, Clear(i) PROVE PropertiesInv'
  BY <1>6, ClearKeeps
<1>7. ASSUME NEW addresses \in AddressOrders, NEW fault \in Faults, Sweep(addresses, fault) PROVE PropertiesInv'
  BY <1>7, SweepKeeps
<1>8. ASSUME NEW i \in DOMAIN scope, Operations(i) PROVE PropertiesInv'
  BY <1>2, <1>3, <1>4, <1>5, <1>6, <1>8 DEF Operations
<1>9. CASE PropertiesNext
  BY <1>7, <1>8, <1>9 DEF PropertiesNext
<1> QED
  BY <1>1, <1>9

LEMMA SameSize ==
  ASSUME NEW S, NEW T, IsFiniteSet(S), NEW f \in [S -> T], \A a, b \in S : f[a] = f[b] => a = b,
         \A c \in T : \E a \in S : f[a] = c
  PROVE  IsFiniteSet(T) /\ Cardinality(T) = Cardinality(S)
<1>1. f \in Injection(S, T)
  BY DEF Injection, IsInjective
<1>2. f \in Surjection(S, T)
  BY DEF Surjection
<1>3. ExistsBijection(S, T)
  BY <1>1, <1>2 DEF ExistsBijection, Bijection
<1> QED
  BY <1>3, FS_Bijection

\* A scope counts what it maps.
LEMMA MappedCounted ==
  ASSUME NEW t, Grows(t), NEW s, Fits(t, s, {})
  PROVE  IsFiniteSet(Mapped(t, s)) /\ s.count = Cardinality(Mapped(t, s))
<1> DEFINE M == MapOf(t, s)
           B == BoundIds(M, {})
           T == Mapped(t, s)
           f == [id \in B |-> M[id]]
<1>1. Mapping(t, Above(t, s.lastProp), M) /\ s.count = Cardinality(B)
  BY DEF Fits, Holds, Counted
<1>2. IsFiniteSet(AllIds) /\ B \subseteq AllIds
  BY PropertyAssumption DEF BoundIds
<1>3. IsFiniteSet(B)
  BY <1>2, FS_Subset
<1>4. \A id \in B : M[id] \in T /\ t.label[M[id]].id = id
  <2>1. ASSUME NEW id \in B PROVE M[id] \in T /\ t.label[M[id]].id = id
    <3>1. id \in AllIds /\ M[id] # 0 /\ M[id] = SearchScope(t, s, id)
      BY DEF BoundIds, MapOf
    <3> QED
      BY <1>1, <3>1 DEF Mapped, Mapping
  <2> QED
    BY <2>1
<1>5. ASSUME NEW n \in T PROVE t.label[n].id \in B /\ M[t.label[n].id] = n
  BY MappedIs DEF BoundIds
<1> HIDE DEF M, B, T
<1>6. f \in [B -> T] /\ (\A a, b \in B : f[a] = f[b] => a = b) /\ \A c \in T : \E a \in B : f[a] = c
  BY <1>4, <1>5
<1> HIDE DEF f
<1>7. IsFiniteSet(T) /\ Cardinality(T) = Cardinality(B)
  BY <1>3, <1>6, SameSize
<1> QED
  BY <1>1, <1>7 DEF B, T

\* What a scope maps has labels that differ in their ids, and in their slots
\* where they have one.
LEMMA OwnLabels ==
  ASSUME NEW t, Grows(t), NEW s, Fits(t, s, {}), NEW m \in Mapped(t, s), NEW n \in Mapped(t, s),
         ~Shared(t.label[m]), ~Shared(t.label[n])
  PROVE  ValidSlot(s, t.label[n]) /\ (t.label[m].slot = t.label[n].slot => m = n)
<1> DEFINE M == MapOf(t, s)
           p == t.label[m].id
           q == t.label[n].id
<1>1. p \in AllIds /\ q \in AllIds /\ M[p] = m /\ M[q] = n /\ m # 0 /\ n # 0
  BY MappedIs
<1>2. Slotted(t, s, M, {})
  BY DEF Fits, Holds
<1> HIDE DEF M, p, q
<1>3. Owns(t, M, p) /\ Owns(t, M, q)
  BY <1>1 DEF Owns
<1>4. t.label[n].slot \in Nat /\ t.label[n].slot < s.freeslot
  BY <1>1, <1>2, <1>3 DEF Slotted
<1>5. t.label[m].slot = t.label[n].slot => p = q
  BY <1>1, <1>2, <1>3 DEF Slotted
<1> QED
  BY <1>1, <1>4, <1>5 DEF ValidSlot, NoSlot

\* A line of which nothing was deleted from the middle leaves out no more
\* than earlier duplicates of a formal parameter.
LEMMA UnmappedFormal ==
  ASSUME NEW t, Grows(t), NEW s, Fits(t, s, {}), ~s.middle,
         NEW n \in Above(t, s.lastProp), n \notin Mapped(t, s)
  PROVE  t.label[n].attr = "formal"
<1> DEFINE L == Above(t, s.lastProp)
           M == MapOf(t, s)
           id == t.label[n].id
<1>1. s.lastProp \in LiveNodes(t) \cup {0} /\ Mapping(t, L, M) /\ Unique(t, L) /\ Covered(t, s, L, M, {})
  BY DEF Fits, Holds
<1>2. n \in LiveNodes(t) /\ t.label[n] \in GoodLabels /\ id \in AllIds
  <2>1. Above(t, s.lastProp) \subseteq LiveNodes(t)
    BY <1>1, UsableIs, LiveLine
  <2> QED
    BY <2>1, UsableIs
<1>3. M[id] # 0
  BY <1>1 DEF Covered
<1>4. M[id] \in L /\ t.label[M[id]].id = id
  BY <1>1, <1>2, <1>3 DEF Mapping
<1>5. M[id] \in Mapped(t, s)
  BY <1>2, <1>3 DEF Mapped, MapOf
<1>6. id \in Hidden
  BY <1>1, <1>4, <1>5 DEF Unique
<1> QED
  BY <1>2, <1>6, LabelIs

LEMMA ScopeIsSound ==
  ASSUME Grows(propTree), NEW s, Fits(propTree, s, {}), ~MapsFirstDuplicate(propTree, s)
  PROVE  ScopeSound(s, Above(propTree, s.lastProp), Mapped(propTree, s))
<1> DEFINE t == propTree
           L == Above(t, s.lastProp)
           T == Mapped(t, s)
           owners == {n \in T : ~Shared(t.label[n])}
           own == {t.label[n] : n \in owners}
<1>1. L \subseteq LiveNodes(t)
  <2>1. s.lastProp \in LiveNodes(t) \cup {0}
    BY DEF Fits
  <2> QED
    BY <2>1, UsableIs, LiveLine
<1>2. T \subseteq L
  BY MappedIs
<1>3. IsFiniteSet(T) /\ s.count = Cardinality(T)
  BY MappedCounted
<1>4. s.lastProp # 0 => s.lastProp \in T
  <2>1. SUFFICES ASSUME s.lastProp # 0 PROVE s.lastProp \in T
    OBVIOUS
  <2>2. HasProperty(t, s, s.lastProp) /\ t.label[s.lastProp].id \in AllIds
    BY <2>1, LastMapped
  <2> QED
    BY <2>1, <2>2 DEF HasProperty, Mapped
<1>5. s.middle => s.hashed
  BY DEF Fits
<1>6. ~s.middle => \A n \in L \ T : t.label[n].attr = "formal"
  BY UnmappedFormal
<1>7. \A m, n \in owners : ValidSlot(s, t.label[n]) /\ (t.label[m].slot = t.label[n].slot => m = n)
  BY OwnLabels
<1> HIDE DEF T, L
<1>8. \A l \in own : ValidSlot(s, l)
  BY <1>7
<1>9. IsFiniteSet(own)
  <2> DEFINE f == [n \in owners |-> t.label[n]]
  <2>1. IsFiniteSet(owners)
    BY <1>3, FS_Subset
  <2>2. f \in [owners -> own] /\ (\A a, b \in owners : f[a] = f[b] => a = b) /\ \A c \in own : \E a \in owners : f[a] = c
    BY <1>7
  <2> HIDE DEF f, own, owners
  <2> QED
    BY <2>1, <2>2, SameSize
<1>10. Cardinality({l.slot : l \in own}) = Cardinality(own)
  <2> DEFINE slots == {l.slot : l \in own}
             g == [l \in own |-> l.slot]
  <2>1. \A k, l \in own : k.slot = l.slot => k = l
    BY <1>7
  <2> HIDE DEF own
  <2>2. g \in [own -> slots] /\ (\A a, b \in own : g[a] = g[b] => a = b) /\ \A c \in slots : \E a \in own : g[a] = c
    BY <2>1
  <2> HIDE DEF slots, g
  <2>3. Cardinality(slots) = Cardinality(own)
    BY <1>9, <2>2, SameSize
  <2> QED
    BY <2>3 DEF slots
<1> HIDE DEF owners
<1> QED
  BY <1>1, <1>2, <1>3, <1>4, <1>5, <1>6, <1>8, <1>10 DEF ScopeSound, T, L, owners

LEMMA InvIsSound == PropertiesInv => TreeSound
<1> SUFFICES ASSUME PropertiesInv PROVE TreeSound
  OBVIOUS
<1>1. Grows(propTree)
  BY DEF PropertiesInv, Usable
<1>2. LinksSound(propTree)
  BY <1>1, UsableIs, HealthyLinks
<1>3. ASSUME NEW i \in DOMAIN scope
      PROVE  ScopeSound(scope[i], Above(propTree, scope[i].lastProp), Mapped(propTree, scope[i]))
  BY <1>1, ScopeIsSound DEF PropertiesInv, ScopesFit
<1> QED
  BY <1>2, <1>3 DEF TreeSound, PropertiesInv

\* What every state of the tree and of its scopes has, if the code goes on
\* from nothing that it gets wrong.
THEOREM PropertiesKept ==
  ASSUME Anomalies = {}
  PROVE  PropertiesSpec => []PropertiesInv
<1>1. PropertiesInit => PropertiesInv
  BY InitKeeps
<1>2. PropertiesInv /\ [PropertiesNext]_propVars => PropertiesInv'
  BY NextKeeps
<1> QED
  BY <1>1, <1>2, PTL DEF PropertiesSpec

\* The tree keeps its links through every call that may fail and every sweep,
\* a collection keeps the marked nodes and no other, and what a scope maps is
\* on its line, counted, and each in a slot of its own.
THEOREM TreeStaysSound ==
  ASSUME Anomalies = {}
  PROVE  PropertiesSpec => []TreeSound
<1>1. PropertiesSpec => []PropertiesInv
  BY PropertiesKept
<1>2. PropertiesInv => TreeSound
  BY InvIsSound
<1> QED
  BY <1>1, <1>2, PTL

-----------------------------------------------------------------------------
(***************************************************************************)
(* What a scope tells is what it lists.                                    *)
(***************************************************************************)
LEMMA ListedIs ==
  ASSUME NEW t, t.up \in [Nodes -> Nodes \cup {0}], Rooting(t), NEW s
  PROVE  /\ Listed(t, s, 0) = <<>>
         /\ \A n \in Nodes : /\ Seen(t, s, n) => Listed(t, s, n) = Append(Listed(t, s, t.up[n]), PropertyOf(t, n))
                             /\ ~Seen(t, s, n) => Listed(t, s, n) = Listed(t, s, t.up[n])
<1> DEFINE S == PropertiesIn(t)
           D == Seq(S)
           J == [n \in Nodes \cup {0} |-> D]
           Next1(x, n) == IF Seen(t, s, n) THEN Append(x, PropertyOf(t, n)) ELSE x
           g == [x \in D \X Nodes |-> Next1(x[1], x[2])]
           Runs(f) == f = [n \in Nodes \cup {0} |->
                             IF n = 0 THEN <<>>
                             ELSE IF Seen(t, s, n) THEN Append(f[t.up[n]], PropertyOf(t, n)) ELSE f[t.up[n]]]
           upTo == CHOOSE f : Runs(f)
<1>0. 0 \notin Nodes
  BY DEF Nodes
<1>1. ASSUME NEW n \in Nodes, NEW x \in D PROVE Next1(x, n) \in D
  <2>1. PropertyOf(t, n) \in S
    BY DEF PropertiesIn
  <2> HIDE DEF S
  <2> QED
    BY <2>1
<1>2. <<>> \in D
  OBVIOUS
<1>3. Upward(t, Nodes)
  BY DEF Upward
<1>30. \A n \in Nodes \cup {0} : J[n] = D
  OBVIOUS
<1> HIDE DEF D, S
<1>31. \A n \in Nodes, x \in D : g[<<x, n>>] = Next1(x, n)
  OBVIOUS
<1> HIDE DEF Next1
<1>32. g \in [D \X Nodes -> D]
  BY <1>1
<1> HIDE DEF J, g
<1>33. \A n \in Nodes : \A x \in J[t.up[n]] : g[<<x, n>>] \in J[n]
  <2>1. ASSUME NEW n \in Nodes, NEW x \in J[t.up[n]] PROVE g[<<x, n>>] \in J[n]
    <3>1. J[n] = D /\ J[t.up[n]] = D
      BY <1>30
    <3>2. x \in D
      BY <3>1
    <3>3. g[<<x, n>>] = Next1(x, n)
      BY <1>31, <3>2
    <3> QED
      BY <1>1, <3>1, <3>2, <3>3
  <2> QED
    BY <2>1
<1>4. KeepsUp(t, Nodes, D, J, <<>>, g)
  BY <1>2, <1>3, <1>30, <1>32, <1>33 DEF KeepsUp
<1>5. \E f \in [Nodes \cup {0} -> D] : RunUp(t, Nodes, J, <<>>, g, f)
  BY <1>4, LineRuns
<1>6. PICK f \in [Nodes \cup {0} -> D] : RunUp(t, Nodes, J, <<>>, g, f)
  BY <1>5
<1>7. f[0] = <<>> /\ \A n \in Nodes : f[n] = Next1(f[t.up[n]], n)
  <2>1. f[0] = <<>> /\ \A n \in Nodes : f[n] = g[<<f[t.up[n]], n>>]
    BY <1>6 DEF RunUp
  <2>2. \A n \in Nodes : t.up[n] \in Nodes \cup {0}
    OBVIOUS
  <2>3. \A n \in Nodes \cup {0} : f[n] \in D
    BY <1>6
  <2>4. \A n \in Nodes : f[t.up[n]] \in D
    BY <2>2, <2>3
  <2> QED
    BY <1>31, <2>1, <2>4
<1>8. Runs(f)
  BY <1>0, <1>6, <1>7 DEF Next1
<1>9. Runs(upTo)
  <2> HIDE DEF Runs
  <2> QED
    BY <1>8, Zenon
<1>10. \A n : Listed(t, s, n) = upTo[n]
  BY DEF Listed
<1>11. upTo[0] = <<>> /\ \A n \in Nodes : upTo[n] = Next1(upTo[t.up[n]], n)
  <2> HIDE DEF upTo
  <2> QED
    BY <1>0, <1>9 DEF Next1
<1> HIDE DEF upTo
<1> QED
  BY <1>10, <1>11 DEF Next1

\* Of duplicates a scope maps the last one on its line.
Latest(t, s) ==
  \A m \in Above(t, s.lastProp) : \A k \in Above(t, t.up[m]) :
    t.label[k].id = t.label[m].id => MapOf(t, s)[t.label[m].id] # k

LEMMA LatestIs ==
  ASSUME NEW t, Grows(t), NEW s, Fits(t, s, {}), ~MapsFirstDuplicate(t, s)
  PROVE  Latest(t, s)
<1>1. /\ t.up \in [Nodes -> Nodes \cup {0}] /\ Rooting(t) /\ s \in Scopes /\ s.lastProp \in LiveNodes(t) \cup {0}
      /\ s.lastProp \in Nodes \cup {0}
  BY UsableIs DEF Fits
<1>2. /\ Above(t, s.lastProp) \subseteq Nodes
      /\ \A m \in Above(t, s.lastProp) : t.label[m].id \in AllIds
  BY <1>1, LineLabels
<1> SUFFICES ASSUME NEW m \in Above(t, s.lastProp), NEW k \in Above(t, t.up[m]), t.label[k].id = t.label[m].id,
                    MapOf(t, s)[t.label[m].id] = k
             PROVE  FALSE
  BY DEF Latest
<1> DEFINE id == t.label[m].id
<1>3. m \in Nodes /\ id \in AllIds /\ Above(t, m) = {m} \cup Above(t, t.up[m]) /\ m \notin Above(t, t.up[m])
  BY <1>1, <1>2, AboveIs, LineIs
<1>4. CASE s.hashed
  <2>1. s.table[id] = k
    BY <1>1, <1>4, MapIs
  <2> QED
    BY <1>4, <2>1 DEF MapsFirstDuplicate
<1>5. CASE ~s.hashed
  <2>1. SearchLine(t, s.lastProp, id) = k
    BY <1>1, <1>3, <1>5, MapIs
  <2>2. k \in Nodes /\ m \in Above(t, k)
    BY <1>1, <2>1, SearchFirst
  <2>3. k \in Above(t, m)
    BY <1>3
  <2>4. k = m
    BY <1>1, <1>3, <2>2, <2>3, LineIs
  <2> QED
    BY <1>3, <2>4
<1> QED
  BY <1>4, <1>5

LEMMA LatestFirst ==
  ASSUME NEW t, Grows(t), NEW s, Fits(t, s, {}), Latest(t, s), NEW id \in AllIds, MapOf(t, s)[id] # 0
  PROVE  MapOf(t, s)[id] = SearchLine(t, s.lastProp, id)
<1>1. /\ t.up \in [Nodes -> Nodes \cup {0}] /\ Rooting(t) /\ s \in Scopes /\ s.lastProp \in LiveNodes(t) \cup {0}
      /\ s.lastProp \in Nodes \cup {0}
  BY UsableIs DEF Fits
<1> DEFINE k == MapOf(t, s)[id]
           r == SearchLine(t, s.lastProp, id)
<1>2. k \in Above(t, s.lastProp) /\ t.label[k].id = id
  BY DEF Fits, Holds, Mapping
<1>3. r \in Nodes /\ k \in Above(t, r)
  BY <1>1, <1>2, SearchFirst
<1>4. Finds(t, s.lastProp, id, r)
  BY <1>1, LineSearched
<1>5. r \in Above(t, s.lastProp) /\ t.label[r].id = id
  BY <1>2, <1>4 DEF Finds
<1>6. Above(t, r) = {r} \cup Above(t, t.up[r])
  BY <1>1, <1>3, AboveIs
<1>7. k \notin Above(t, t.up[r])
  BY <1>2, <1>5 DEF Latest
<1> QED
  BY <1>3, <1>6, <1>7

\* What a scope tells of the ids it maps is what it lists.
Contents(t, s, H) == Told(t, s.lastProp, BoundIds(MapOf(t, s), H))

LEMMA BoundAre == \A M, H : BoundIds(M, H) \in SUBSET AllIds
BY DEF BoundIds

LEMMA PropertiesTold ==
  ASSUME NEW t, Grows(t), NEW s, Fits(t, s, {}), Latest(t, s)
  PROVE  Properties(t, s) = Contents(t, s, {})
<1>1. /\ t.up \in [Nodes -> Nodes \cup {0}] /\ Rooting(t) /\ s \in Scopes /\ s.lastProp \in LiveNodes(t) \cup {0}
      /\ s.lastProp \in Nodes \cup {0} /\ 0 \notin Nodes
  BY UsableIs DEF Fits
<1> DEFINE L == Above(t, s.lastProp)
           M == MapOf(t, s)
           B(n) == {id \in AllIds : M[id] # 0 /\ M[id] \in Above(t, n)}
           P == {0} \cup {n \in L : Listed(t, s, n) = Told(t, n, B(n))}
<1>2. /\ L \subseteq Nodes /\ Upward(t, L) /\ (s.lastProp \in Nodes => s.lastProp \in L)
      /\ \A n \in L : Above(t, n) \subseteq L
  BY <1>1, LineIs
<1>3. \A n \in L : t.label[n] \in GoodLabels /\ t.label[n].id \in AllIds
  BY <1>1, LineLabels
<1>4. Above(t, 0) = {} /\ \A n \in Nodes : Above(t, n) = {n} \cup Above(t, t.up[n]) /\ n \notin Above(t, t.up[n])
  BY <1>1, AboveIs, LineIs
<1>5. Mapping(t, L, M) /\ Unique(t, L) /\ Covered(t, s, L, M, {})
  BY DEF Fits, Holds
<1>6. \A n : B(n) \in SUBSET AllIds
  OBVIOUS
<1>7. Listed(t, s, 0) = Told(t, 0, B(0))
  <2>1. Listed(t, s, 0) = <<>>
    BY <1>1, ListedIs
  <2>2. Told(t, 0, B(0)) = <<>>
    BY <1>1, <1>6, ToldIs
  <2> QED
    BY <2>1, <2>2
<1>8. ASSUME NEW n \in L, t.up[n] \in P PROVE n \in P
  <2> DEFINE id == t.label[n].id
             k == t.up[n]
  <2>1. Listed(t, s, k) = Told(t, k, B(k)) /\ n \in Nodes /\ n # 0
    BY <1>1, <1>2, <1>7, <1>8
  <2>2. id \in AllIds /\ t.label[n] \in GoodLabels
    BY <1>3
  <2>20. /\ HasProperty(t, s, n) <=> M[id] = n
         /\ \A jd \in AllIds : M[jd] # 0 => t.label[M[jd]].id = jd /\ M[jd] \in L
    BY <1>5, <2>2 DEF HasProperty, MapOf, Mapping
  <2>3. CASE M[id] = n
    <3>1. Seen(t, s, n)
      BY <2>20, <2>3 DEF Seen
    <3>2. Listed(t, s, n) = Append(Listed(t, s, k), PropertyOf(t, n))
      BY <1>1, <2>1, <3>1, ListedIs
    <3>3. id \in B(n) /\ B(n) \ {id} = B(k)
      <4>1. id \in B(n) /\ id \notin B(k)
        BY <1>4, <2>1, <2>2, <2>3
      <4>2. ASSUME NEW jd \in AllIds, jd # id PROVE jd \in B(n) <=> jd \in B(k)
        <5>1. M[jd] # 0 => M[jd] # n
          BY <2>20, <4>2
        <5> QED
          BY <1>4, <2>1, <5>1
      <4> QED
        BY <4>1, <4>2
    <3>4. Told(t, n, B(n)) = Append(Told(t, k, B(n) \ {id}), PropertyOf(t, n))
      BY <1>1, <1>6, <2>1, <3>3, ToldIs
    <3> QED
      BY <2>1, <3>2, <3>3, <3>4
  <2>4. CASE M[id] # n
    <3>1. ~Seen(t, s, n)
      <4> SUFFICES ASSUME Seen(t, s, n) PROVE FALSE
        OBVIOUS
      <4>1. ~s.middle /\ t.label[n].attr # "formal"
        BY <2>4, <2>20 DEF Seen
      <4>2. id \notin Hidden
        BY <2>2, <4>1, LabelIs
      <4>3. M[id] # 0
        BY <1>5, <4>1 DEF Covered
      <4>4. M[id] \in L /\ t.label[M[id]].id = id
        BY <2>2, <2>20, <4>3
      <4>5. M[id] = n
        BY <1>5, <4>2, <4>4 DEF Unique
      <4> QED
        BY <2>4, <4>5
    <3>2. Listed(t, s, n) = Listed(t, s, k)
      BY <1>1, <2>1, <3>1, ListedIs
    <3>3. id \notin B(n)
      <4> SUFFICES ASSUME id \in B(n) PROVE FALSE
        OBVIOUS
      <4>1. M[id] \in Above(t, k)
        BY <1>4, <2>1, <2>4
      <4>2. t.label[M[id]].id = id
        BY <2>2, <2>20
      <4> QED
        BY <4>1, <4>2 DEF Latest
    <3>4. B(n) = B(k)
      <4>1. ASSUME NEW jd \in AllIds PROVE jd \in B(n) <=> jd \in B(k)
        <5>1. M[jd] # 0 => M[jd] # n
          BY <2>4, <2>20
        <5> QED
          BY <1>4, <2>1, <5>1
      <4> QED
        BY <4>1
    <3>5. Told(t, n, B(n)) = Told(t, k, B(n))
      <4> DEFINE C == B(n)
      <4>1. C \in SUBSET AllIds /\ id \notin C
        BY <1>6, <3>3
      <4> HIDE DEF C
      <4>2. Told(t, n, C) = Told(t, k, C)
        BY <1>1, <2>1, <4>1, ToldOff
      <4> QED
        BY <4>2 DEF C
    <3> QED
      BY <2>1, <3>2, <3>4, <3>5
  <2> QED
    BY <2>3, <2>4
<1>9. 0 \in P
  OBVIOUS
<1> HIDE DEF P
<1>10. L \subseteq P
  BY <1>1, <1>2, <1>8, <1>9, LineInduction
<1>11. Listed(t, s, s.lastProp) = Told(t, s.lastProp, B(s.lastProp))
  BY <1>1, <1>2, <1>7, <1>10 DEF P
<1>12. B(s.lastProp) = BoundIds(M, {})
  BY <1>5 DEF BoundIds, Mapping
<1> QED
  BY <1>11, <1>12 DEF Properties, Contents

-----------------------------------------------------------------------------
(***************************************************************************)
(* What a scope tells after each step of AddScopeProperty.                 *)
(***************************************************************************)
LEMMA ContentsGrown ==
  ASSUME NEW t, Grows(t), NEW u, Grows(u), Grew(t, u), NEW s, NEW H, Fits(t, s, H), NEW B \in SUBSET AllIds
  PROVE  /\ Told(u, s.lastProp, B) = Told(t, s.lastProp, B)
         /\ MapOf(u, s) = MapOf(t, s)
         /\ \A G : Contents(u, s, G) = Contents(t, s, G)
<1>1. s.lastProp \in LiveNodes(t) \cup {0} /\ s.lastProp \in Nodes \cup {0}
  BY UsableIs DEF Fits
<1>2. \A m \in Above(t, s.lastProp) : u.label[m] = t.label[m] /\ u.up[m] = t.up[m]
  BY <1>1, GrewLine
<1>3. /\ t.up \in [Nodes -> Nodes \cup {0}] /\ Rooting(t) /\ u.up \in [Nodes -> Nodes \cup {0}] /\ Rooting(u)
  BY UsableIs
<1>4. \A C \in SUBSET AllIds : Told(u, s.lastProp, C) = Told(t, s.lastProp, C)
  BY <1>1, <1>2, <1>3, SameTold
<1>5. MapOf(u, s) = MapOf(t, s)
  BY FitsGrown
<1>6. \A G : Contents(u, s, G) = Contents(t, s, G)
  BY <1>4, <1>5, BoundAre DEF Contents
<1> QED
  BY <1>4, <1>5, <1>6

\* What s tells once the property of id has gone, which over was if it was
\* there: C without it; and over can come back where it is.
Recalls(t, s, id, over, C) ==
  /\ Contents(t, s, Leaving(id, over)) = Promise!Without(C, id)
  /\ over # 0 => /\ PropertyOf(t, over) \in Promise!Bound(C, id)
                 /\ over \in Above(t, s.lastProp) =>
                      Told(t, s.lastProp, BoundIds(MapOf(t, s), {id}) \cup {id}) = C

LEMMA RecallsGrown ==
  ASSUME NEW t, NEW u, Usable(u), Grew(t, u), NEW s, NEW label, NEW over, Open(t, s, label, over),
         NEW C, Recalls(t, s, label.id, over, C)
  PROVE  Recalls(u, s, label.id, over, C)
<1> DEFINE id == label.id
<1>1. /\ Grows(t) /\ Grows(u) /\ Fits(t, s, Leaving(id, over)) /\ id \in AllIds
      /\ Over(t, s, Above(t, s.lastProp), MapOf(t, s), id, over)
  BY OpenIs DEF Usable
<1> DEFINE B == BoundIds(MapOf(t, s), {id}) \cup {id}
<1>2. B \in SUBSET AllIds
  BY <1>1 DEF BoundIds
<1> HIDE DEF B
<1>3. /\ Told(u, s.lastProp, B) = Told(t, s.lastProp, B) /\ MapOf(u, s) = MapOf(t, s)
      /\ Contents(u, s, Leaving(id, over)) = Contents(t, s, Leaving(id, over))
  BY <1>1, <1>2, ContentsGrown
<1>4. Above(u, s.lastProp) = Above(t, s.lastProp)
  BY <1>1, FitsGrown
<1>5. over # 0 => PropertyOf(u, over) = PropertyOf(t, over)
  BY <1>1 DEF Over, Grew, PropertyOf
<1> QED
  BY <1>3, <1>4, <1>5 DEF Recalls, B

LEMMA EntryBinds ==
  ASSUME NEW t, t.up \in [Nodes -> Nodes \cup {0}], Rooting(t), NEW s \in Scopes, NEW n \in Nodes, NEW last, NEW H,
         NEW id \in AllIds, t.label[n].id = id, H \subseteq {id}, id \in H \/ MapOf(t, s)[id] = 0,
         \/ last = n /\ t.up[n] = s.lastProp
         \/ last = s.lastProp /\ n \in Above(t, s.lastProp)
  PROVE  BoundIds(MapOf(t, Entered(s, id, n, last)), {}) = BoundIds(MapOf(t, s), H) \cup {id}
<1> DEFINE u == Entered(s, id, n, last)
           M == MapOf(t, s)
           N == MapOf(t, u)
<1>1. last \in Nodes \cup {0} /\ s.lastProp \in Nodes \cup {0} /\ 0 \notin Nodes
  BY DEF Scopes, Nodes
<1>2. EntryOf(s, u, id, n, last)
  BY <1>1, EnteredIs
<1>3. /\ u \in Scopes /\ u.lastProp = last /\ u.hashed = s.hashed
      /\ \A jd \in AllIds : s.hashed => u.table[jd] = IF jd = id THEN n ELSE s.table[jd]
  BY <1>2 DEF EntryOf
<1>4. /\ u.hashed => N = u.table
      /\ ~u.hashed => \A jd \in AllIds : N[jd] = SearchLine(t, last, jd) /\ Finds(t, last, jd, N[jd])
  BY <1>3, MapIs
<1>5. /\ s.hashed => M = s.table
      /\ ~s.hashed => \A jd \in AllIds : M[jd] = SearchLine(t, s.lastProp, jd) /\ Finds(t, s.lastProp, jd, M[jd])
  BY MapIs
<1> HIDE DEF u, M, N
<1>6. N[id] # 0 /\ \A jd \in AllIds : jd # id => N[jd] = M[jd]
  <2>1. CASE s.hashed
    BY <1>1, <1>3, <1>4, <1>5, <2>1
  <2>2. CASE ~s.hashed /\ last = n /\ t.up[n] = s.lastProp
    <3>10. \A jd : SearchLine(t, n, jd) = IF t.label[n].id = jd THEN n ELSE SearchLine(t, t.up[n], jd)
      BY SearchLineIs
    <3>1. \A jd : SearchLine(t, n, jd) = IF id = jd THEN n ELSE SearchLine(t, s.lastProp, jd)
      BY <2>2, <3>10
    <3> QED
      BY <1>1, <1>3, <1>4, <1>5, <2>2, <3>1
  <2>3. CASE ~s.hashed /\ last = s.lastProp /\ n \in Above(t, s.lastProp)
    <3>1. \A jd \in AllIds : N[jd] = M[jd]
      BY <1>3, <1>4, <1>5, <2>3
    <3>2. Finds(t, s.lastProp, id, M[id]) /\ Above(t, s.lastProp) \subseteq Nodes
      BY <1>1, <1>5, <2>3, LineIs
    <3> QED
      BY <1>1, <2>3, <3>1, <3>2 DEF Finds
  <2> QED
    BY <2>1, <2>2, <2>3
<1>7. BoundIds(N, {}) = BoundIds(M, H) \cup {id}
  BY <1>6 DEF BoundIds, M
<1> QED
  BY <1>7 DEF u, M, N

\* A property that enters at the end of the line.
LEMMA EntersLast ==
  ASSUME NEW t, NEW s, NEW label, NEW over, Open(t, s, label, over), NEW C, Recalls(t, s, label.id, over, C),
         NEW n \in LiveNodes(t), t.label[n].id = label.id, t.up[n] = s.lastProp
  PROVE  Contents(t, Entered(s, label.id, n, n), {}) = Append(Promise!Without(C, label.id), PropertyOf(t, n))
<1> DEFINE id == label.id
           H == Leaving(id, over)
           M == MapOf(t, s)
           u == Entered(s, id, n, n)
           B == BoundIds(M, H)
<1>1. /\ Grows(t) /\ Over(t, s, Above(t, s.lastProp), M, id, over) /\ id \in AllIds /\ s \in Scopes
  BY OpenIs
<1>2. t.up \in [Nodes -> Nodes \cup {0}] /\ Rooting(t) /\ n \in Nodes
  BY <1>1, UsableIs
<1>3. H \subseteq {id} /\ (id \in H \/ M[id] = 0)
  BY <1>1 DEF Leaving, Over
<1>4. BoundIds(MapOf(t, u), {}) = B \cup {id}
  BY <1>1, <1>2, <1>3, EntryBinds
<1>5. u.lastProp = n
  <2>1. EntryOf(s, u, id, n, n)
    BY <1>1, <1>2, EnteredIs
  <2> QED
    BY <2>1 DEF EntryOf
<1>6. B \cup {id} \in SUBSET AllIds /\ id \notin B /\ (B \cup {id}) \ {id} = B
  BY <1>1, <1>3 DEF BoundIds
<1>7. Contents(t, s, H) = Told(t, s.lastProp, B)
  BY DEF Contents
<1> HIDE DEF u, B, M, H
<1>8. Told(t, n, B \cup {id}) = Append(Told(t, t.up[n], (B \cup {id}) \ {t.label[n].id}), PropertyOf(t, n))
  BY <1>2, <1>6, ToldOn
<1>9. Told(t, n, B \cup {id}) = Append(Told(t, s.lastProp, B), PropertyOf(t, n))
  BY <1>6, <1>8
<1>10. Contents(t, u, {}) = Told(t, n, B \cup {id})
  BY <1>4, <1>5 DEF Contents
<1>11. Told(t, s.lastProp, B) = Promise!Without(C, id)
  BY <1>7 DEF Recalls, H
<1> QED
  BY <1>9, <1>10, <1>11 DEF u

\* The property that was to be overwritten comes back, or not.
Spared(r, C, id) == r.node = 0 /\ Contents(r.tree, r.scope, {}) \in Promise!Kept(C, id)

LEMMA OverwritingSpares ==
  ASSUME NEW t, NEW s, NEW label, NEW over, Open(t, s, label, over), NEW C, Recalls(t, s, label.id, over, C)
  PROVE  Spared(FailOverwrite(t, s, over), C, label.id)
<1> DEFINE L == Above(t, s.lastProp)
           M == MapOf(t, s)
           id == label.id
           r == FailOverwrite(t, s, over)
<1>1. /\ Usable(t) /\ Grows(t) /\ Fits(t, s, Leaving(id, over)) /\ Over(t, s, L, M, id, over)
      /\ id \in AllIds /\ s.lastProp \in LiveNodes(t) \cup {0} /\ s \in Scopes
      /\ (id \in Hidden /\ s.lastProp # 0 => t.label[s.lastProp].id \in Hidden)
  BY OpenIs
<1>0. t.up \in [Nodes -> Nodes \cup {0}] /\ Rooting(t) /\ LiveNodes(t) \subseteq Nodes
  BY <1>1, UsableIs
<1>00. /\ C \in Promise!Kept(C, id) /\ Promise!Without(C, id) \in Promise!Kept(C, id)
       /\ \A p \in Promise!Bound(C, id) : Append(Promise!Without(C, id), p) \in Promise!Kept(C, id)
  BY DEF Promise!Kept
<1>2. CASE over = 0
  <2>1. r.tree = t /\ r.scope = s /\ r.node = 0 /\ Leaving(id, over) = {}
    BY <1>2 DEF FailOverwrite, Leaving
  <2>2. Contents(t, s, {}) = Promise!Without(C, id)
    BY <2>1 DEF Recalls
  <2> QED
    BY <1>00, <2>1, <2>2 DEF Spared
<1>3. CASE over # 0
  <2>1. over \in LiveNodes(t) /\ t.label[over].id = id /\ Leaving(id, over) = {id} /\ over \in Nodes
    BY <1>0, <1>1, <1>3 DEF Over, Leaving
  <2>10. PropertyOf(t, over) \in Promise!Bound(C, id) /\ Contents(t, s, {id}) = Promise!Without(C, id)
    BY <1>3, <2>1 DEF Recalls
  <2>2. CASE over \in L
    <3> DEFINE u == Entered(s, id, over, s.lastProp)
    <3>1. r = Back(t, s, id, over)
      BY <1>3, <2>1, <2>2 DEF FailOverwrite
    <3>2. r.tree = t /\ r.scope = u /\ r.node = 0
      BY <1>1, <3>1, BackIs DEF Back
    <3>3. BoundIds(MapOf(t, u), {}) = BoundIds(M, {id}) \cup {id}
      BY <1>0, <1>1, <2>1, <2>2, EntryBinds
    <3>4. u.lastProp = s.lastProp
      <4>1. EntryOf(s, u, id, over, s.lastProp)
        BY <1>0, <1>1, <2>1, EnteredIs
      <4> QED
        BY <4>1 DEF EntryOf
    <3> HIDE DEF u
    <3>5. Contents(t, u, {}) = C
      BY <1>3, <2>2, <3>3, <3>4 DEF Recalls, Contents
    <3> QED
      BY <1>00, <3>2, <3>5 DEF Spared
  <2>3. CASE over \notin L /\ t.up[over] = s.lastProp
    <3>1. r = BackLast(t, s, id, over)
      BY <1>3, <2>1, <2>3 DEF FailOverwrite
    <3>20. r.node = 0
      BY <3>1 DEF BackLast, Back
    <3>2. r.tree = t /\ r.scope = Entered(s, id, over, over) /\ r.node = 0
      BY <1>1, <3>1, <3>20, BackIs
    <3>3. Contents(t, Entered(s, id, over, over), {}) = Append(Promise!Without(C, id), PropertyOf(t, over))
      BY <2>1, <2>3, EntersLast
    <3> QED
      BY <1>00, <2>10, <3>2, <3>3 DEF Spared
  <2>4. CASE over \notin L /\ t.up[over] # s.lastProp
    <3> DEFINE g == GetPropertyTreeChild(t, s.lastProp, t.label[over])
    <3>1. r = BackForked(s, id, g)
      BY <1>3, <2>1, <2>4 DEF FailOverwrite
    <3>2. t.label[over] \in GoodLabels
      BY <1>1, <2>1, UsableIs
    <3>3. /\ Usable(g.tree) /\ Grew(t, g.tree)
          /\ \/ g.node = 0
             \/ g.node \in LiveNodes(g.tree) /\ g.tree.label[g.node] = t.label[over] /\ g.tree.up[g.node] = s.lastProp
      <4>1. t.label[over].id \in Hidden /\ s.lastProp # 0 => t.label[s.lastProp].id \in Hidden
        BY <1>1, <2>1
      <4> HIDE DEF g, L, M, id, r
      <4>2. Childed(t, GetPropertyTreeChild(t, s.lastProp, t.label[over]), s.lastProp, t.label[over])
        BY <1>1, <3>2, <4>1, ChildFits
      <4> QED
        BY <4>2 DEF Childed, g
    <3> HIDE DEF g
    <3>4. Grows(g.tree) /\ Open(g.tree, s, label, over) /\ Recalls(g.tree, s, id, over, C)
      BY <3>3, OpenGrown, RecallsGrown DEF Usable
    <3>5. CASE g.node = 0
      <4>1. r.tree = g.tree /\ r.scope = s /\ r.node = 0
        BY <3>1, <3>5 DEF BackForked
      <4>2. \A m \in L : t.label[m].id # id
        BY <1>1, <1>3, <2>4 DEF Over
      <4>3. M[id] = 0
        <5>1. id \notin Hidden => M[id] = 0
          BY <1>1, <1>3 DEF Over
        <5>2. Mapping(t, L, M)
          BY <1>1 DEF Fits, Holds
        <5> QED
          BY <1>1, <4>2, <5>2 DEF Mapping
      <4>4. MapOf(g.tree, s) = M
        BY <1>1, <3>3, <3>4, FitsGrown
      <4>5. BoundIds(MapOf(g.tree, s), {}) = BoundIds(MapOf(g.tree, s), {id})
        BY <4>3, <4>4 DEF BoundIds
      <4>6. Contents(g.tree, s, {}) = Promise!Without(C, id)
        BY <2>1, <3>4, <4>5 DEF Recalls, Contents
      <4> QED
        BY <1>00, <4>1, <4>6 DEF Spared
    <3>6. CASE g.node # 0
      <4>1. r = BackLast(g.tree, s, id, g.node)
        BY <3>1, <3>6 DEF BackForked
      <4>20. r.node = 0
        BY <4>1 DEF BackLast, Back
      <4>2. r.tree = g.tree /\ r.scope = Entered(s, id, g.node, g.node) /\ r.node = 0
        BY <1>1, <4>1, <4>20, BackIs
      <4>3. g.node \in LiveNodes(g.tree) /\ g.tree.label[g.node] = t.label[over] /\ g.tree.up[g.node] = s.lastProp
        BY <3>3, <3>6
      <4>4. Contents(g.tree, Entered(s, id, g.node, g.node), {}) =
              Append(Promise!Without(C, id), PropertyOf(g.tree, g.node))
        <5>1. g.tree.label[g.node].id = label.id
          BY <2>1, <4>3
        <5>2. Open(g.tree, s, label, over) /\ Recalls(g.tree, s, label.id, over, C)
          BY <3>4
        <5> HIDE DEF id, L, M, r
        <5>3. Contents(g.tree, Entered(s, label.id, g.node, g.node), {}) =
                Append(Promise!Without(C, label.id), PropertyOf(g.tree, g.node))
          BY <4>3, <5>1, <5>2, EntersLast, SMTT(30)
        <5> QED
          BY <5>3 DEF id
      <4>5. PropertyOf(g.tree, g.node) = PropertyOf(t, over)
        BY <4>3 DEF PropertyOf
      <4> QED
        BY <1>00, <2>10, <4>2, <4>4, <4>5 DEF Spared
    <3> QED
      BY <3>5, <3>6
  <2> QED
    BY <2>2, <2>3, <2>4
<1> QED
  BY <1>2, <1>3

\* What a label says of a property that can be seen.
Said(label) == Property(label.id, label.attr, label.index)

\* A call has kept what was there, or added p as the last one.
Answers(r, C, p) ==
  /\ r.node = 0 => Contents(r.tree, r.scope, {}) \in Promise!Kept(C, p.id)
  /\ r.node # 0 => Contents(r.tree, r.scope, {}) = Append(Promise!Without(C, p.id), p)
Tells(r, C, p) == Ripped(r.tree, r.scope) \/ Answers(r, C, p)

LEMMA SameContents ==
  ASSUME NEW t, NEW s, NEW u, u.lastProp = s.lastProp,
         \A id \in AllIds : MapOf(t, u)[id] = 0 <=> MapOf(t, s)[id] = 0
  PROVE  \A G : BoundIds(MapOf(t, u), G) = BoundIds(MapOf(t, s), G) /\ Contents(t, u, G) = Contents(t, s, G)
<1>1. \A G : BoundIds(MapOf(t, u), G) = BoundIds(MapOf(t, s), G)
  BY DEF BoundIds
<1> QED
  BY <1>1 DEF Contents

LEMMA ContentsTabled ==
  ASSUME NEW t, t.up \in [Nodes -> Nodes \cup {0}], Rooting(t), NEW s \in Scopes, ~s.hashed
  PROVE  /\ CreateScopeTable(t, s).lastProp = s.lastProp
         /\ \A id \in AllIds : MapOf(t, CreateScopeTable(t, s))[id] = 0 <=> MapOf(t, s)[id] = 0
         /\ \A G : Contents(t, CreateScopeTable(t, s), G) = Contents(t, s, G)
<1>1. PICK tab \in [AllIds -> Nodes \cup {0}] :
        /\ CreateScopeTable(t, s) = [s EXCEPT !.hashed = TRUE, !.table = tab]
        /\ \A id \in AllIds : Finds(t, s.lastProp, id, tab[id])
  BY TableMade
<1> DEFINE u == CreateScopeTable(t, s)
<1>2. u.lastProp = s.lastProp /\ u.hashed = TRUE /\ u.table = tab
  BY <1>1 DEF Scopes
<1>3. \A id \in AllIds : MapOf(t, u)[id] = tab[id]
  BY <1>2 DEF MapOf, SearchScope
<1>4. \A id \in AllIds : Finds(t, s.lastProp, id, MapOf(t, s)[id])
  BY MapIs
<1>5. 0 \notin Above(t, s.lastProp)
  <2>1. s.lastProp \in Nodes \cup {0}
    BY DEF Scopes
  <2>2. Above(t, s.lastProp) \subseteq Nodes
    BY <2>1, LineIs
  <2> QED
    BY <2>2 DEF Nodes
<1> HIDE DEF u
<1>6. \A id \in AllIds : MapOf(t, u)[id] = 0 <=> MapOf(t, s)[id] = 0
  BY <1>1, <1>3, <1>4, <1>5 DEF Finds
<1>7. \A G : Contents(t, u, G) = Contents(t, s, G)
  BY <1>2, <1>6, SameContents
<1> QED
  BY <1>2, <1>6, <1>7 DEF u

LEMMA AllocRecalls ==
  ASSUME NEW t, NEW s, NEW label, NEW over, Open(t, s, label, over), NEW C, Recalls(t, s, label.id, over, C)
  PROVE  /\ Recalls(t, AllocSlot(t, s, label).scope, label.id, over, C)
         /\ AllocSlot(t, s, label).ok => /\ AllocSlot(t, s, label).label.id = label.id
                                         /\ Said(AllocSlot(t, s, label).label) = Said(label)
<1> DEFINE x == AllocSlot(t, s, label)
<1>1. /\ label \in PropLabels /\ s \in Scopes
  BY OpenIs DEF Named
<1>2. \A k : Said([label EXCEPT !.slot = k]) = Said(label) /\ [label EXCEPT !.slot = k].id = label.id
  BY <1>1 DEF PropLabels, Said
<1>3. x.scope = s \/ x.scope = [s EXCEPT !.freeslot = @ + 1]
  BY DEF AllocSlot
<1>4. x.label = label \/ \E k : x.label = [label EXCEPT !.slot = k]
  BY DEF AllocSlot
<1> HIDE DEF x
<1>5. ASSUME NEW u, u = [s EXCEPT !.freeslot = @ + 1] PROVE Recalls(t, u, label.id, over, C)
  <2>1. u.lastProp = s.lastProp
    BY <1>1, <1>5 DEF Scopes
  <2>2. MapOf(t, u) = MapOf(t, s)
    BY <1>5, SlotTaken
  <2> QED
    BY <2>1, <2>2 DEF Recalls, Contents
<1>6. Recalls(t, x.scope, label.id, over, C)
  BY <1>3, <1>5
<1> QED
  BY <1>2, <1>4, <1>6 DEF x

LEMMA NodeAppendedTells ==
  ASSUME NEW t, NEW s, NEW label \in GoodLabels, NEW over, Open(t, s, label, over),
         NEW C, Recalls(t, s, label.id, over, C)
  PROVE  Answers(Appended(GetPropertyTreeChild(t, s.lastProp, label), s, label.id, over), C, Said(label))
<1> DEFINE id == label.id
           g == GetPropertyTreeChild(t, s.lastProp, label)
           r == Appended(g, s, id, over)
<1>1. /\ Usable(t) /\ id \in AllIds /\ s.lastProp \in LiveNodes(t) \cup {0} /\ s \in Scopes
      /\ (id \in Hidden /\ s.lastProp # 0 => t.label[s.lastProp].id \in Hidden)
  BY OpenIs
<1>2. /\ Usable(g.tree) /\ Grew(t, g.tree)
      /\ \/ g.node = 0
         \/ g.node \in LiveNodes(g.tree) /\ g.tree.label[g.node] = label /\ g.tree.up[g.node] = s.lastProp
  <2> HIDE DEF r, g
  <2>1. Childed(t, GetPropertyTreeChild(t, s.lastProp, label), s.lastProp, label)
    BY <1>1, ChildFits
  <2> QED
    BY <2>1 DEF Childed, g
<1> HIDE DEF g
<1>3. Grows(g.tree) /\ Open(g.tree, s, label, over) /\ Recalls(g.tree, s, label.id, over, C)
  BY <1>2, OpenGrown, RecallsGrown DEF Usable
<1>30. g.tree.up \in [Nodes -> Nodes \cup {0}] /\ Rooting(g.tree) /\ LiveNodes(g.tree) \subseteq Nodes /\ 0 \notin Nodes
  BY <1>3, UsableIs
<1>31. Said(label).id = id
  BY DEF Said, Property
<1>4. CASE g.node = 0
  <2>1. r = FailOverwrite(g.tree, s, over)
    BY <1>4 DEF Appended
  <2>2. Spared(FailOverwrite(g.tree, s, over), C, label.id)
    BY <1>3, OverwritingSpares
  <2> HIDE DEF r
  <2>3. Answers(r, C, Said(label))
    BY <1>31, <2>1, <2>2 DEF Spared, Answers
  <2> QED
    BY <2>3 DEF r, g
<1>5. CASE g.node # 0
  <2> DEFINE n == g.node
             u == Entered(s, id, n, n)
  <2>1. r.tree = g.tree /\ r.scope = MakeTable(g.tree, u) /\ r.node = n
    BY <1>5 DEF Appended, Entered
  <2>2. n \in LiveNodes(g.tree) /\ g.tree.label[n] = label /\ g.tree.up[n] = s.lastProp /\ n \in Nodes
    BY <1>2, <1>5, <1>30
  <2>3. PropertyOf(g.tree, n) = Said(label)
    BY <2>2 DEF PropertyOf, Said
  <2>4. u \in Scopes
    <3>1. EntryOf(s, u, id, n, n)
      BY <1>1, <2>2, EnteredIs
    <3> QED
      BY <3>1 DEF EntryOf
  <2> HIDE DEF r, u, n
  <2>5. Contents(g.tree, u, {}) = Append(Promise!Without(C, label.id), PropertyOf(g.tree, n))
    <3>1. g.tree.label[n].id = label.id
      BY <2>2
    <3> QED
      BY <1>3, <2>2, <3>1, EntersLast DEF u
  <2>6. Contents(g.tree, MakeTable(g.tree, u), {}) = Contents(g.tree, u, {})
    <3>1. CASE MakeTable(g.tree, u) = u
      BY <3>1
    <3>2. CASE ~u.hashed /\ MakeTable(g.tree, u) = CreateScopeTable(g.tree, u)
      BY <1>30, <2>4, <3>2, ContentsTabled
    <3> QED
      BY <3>1, <3>2 DEF MakeTable
  <2>7. Answers(r, C, Said(label))
    BY <1>5, <1>31, <2>1, <2>3, <2>5, <2>6 DEF Answers, n
  <2> QED
    BY <2>7 DEF r, g
<1> QED
  BY <1>4, <1>5

LEMMA NodeDefinedTells ==
  ASSUME NEW t, NEW s, NEW label, NEW over, Open(t, s, label, over), NEW C, Recalls(t, s, label.id, over, C)
  PROVE  Answers(DefineNode(t, AllocSlot(t, s, label), over), C, Said(label))
<1> DEFINE x == AllocSlot(t, s, label)
<1>1. /\ x.ok => Alloced(t, s, over, x)
      /\ ~x.ok => x.scope = s
      /\ Recalls(t, x.scope, label.id, over, C)
      /\ x.ok => x.label.id = label.id /\ Said(x.label) = Said(label)
  BY AllocIs, AllocRecalls
<1> HIDE DEF x
<1>2. CASE ~x.ok
  <2>1. DefineNode(t, x, over) = FailOverwrite(t, s, over)
    BY <1>1, <1>2 DEF DefineNode
  <2>2. Spared(FailOverwrite(t, s, over), C, label.id)
    BY OverwritingSpares
  <2>3. Said(label).id = label.id
    BY DEF Said, Property
  <2> QED
    BY <2>1, <2>2, <2>3 DEF x, Spared, Answers
<1>3. CASE x.ok
  <2>1. DefineNode(t, x, over) = Appended(GetPropertyTreeChild(t, x.scope.lastProp, x.label), x.scope, x.label.id, over)
    BY <1>3 DEF DefineNode
  <2>2. Open(t, x.scope, x.label, over) /\ x.label \in GoodLabels /\ Recalls(t, x.scope, x.label.id, over, C)
    BY <1>1, <1>3 DEF Alloced
  <2>3. Answers(Appended(GetPropertyTreeChild(t, x.scope.lastProp, x.label), x.scope, x.label.id, over), C, Said(x.label))
    BY <2>2, NodeAppendedTells
  <2> QED
    BY <1>1, <1>3, <2>1, <2>3 DEF x
<1> QED
  BY <1>2, <1>3

LEMMA DenseRecalls ==
  ASSUME NEW t, NEW s, NEW label, NEW over, Open(t, s, label, over), s.hashed, Forkable(t, s),
         NEW C, Recalls(t, s, label.id, over, C),
         NEW a \in ForkStates, a.ok, Forking(t, s, s.lastProp, a), Retold(t, s, s.lastProp, a),
         NEW u, u = [a.scope EXCEPT !.lastProp = a.at, !.middle = FALSE]
  PROVE  Recalls(a.tree, u, label.id, over, C)
<1> DEFINE H == Leaving(label.id, over)
           L == Above(t, s.lastProp)
           id == label.id
           M == s.table
           N == a.scope.table
           w == a.tree
           A == Above(w, a.at)
<1>1. /\ Usable(t) /\ s \in Scopes /\ Over(t, s, L, MapOf(t, s), id, over)
      /\ t.up \in [Nodes -> Nodes \cup {0}] /\ Rooting(t)
  BY OpenIs, ForkableIs
<1>2. /\ Grows(w) /\ Grew(t, w) /\ SameBut(s, a.scope) /\ a.at \in LiveNodes(w) \cup {0}
      /\ Carried(t, s, s.lastProp, a) /\ Refound(t, s, s.lastProp, a)
  BY DEF Forking, Usable
<1>3. w.up \in [Nodes -> Nodes \cup {0}] /\ Rooting(w) /\ a.at \in Nodes \cup {0}
  BY <1>2, UsableIs
<1>4. MapOf(t, s) = M
  BY <1>1, MapIs
<1>5. a.scope \in Scopes /\ a.scope.hashed
  BY <1>2 DEF ForkStates, SameBut
<1>6. u \in Scopes
  BY <1>3, <1>5 DEF Scopes
<1>7. u.lastProp = a.at /\ u.table = N
  BY <1>5 DEF Scopes
<1>8. u.hashed
  BY <1>5 DEF Scopes
<1>10. MapOf(w, u) = N
  BY <1>3, <1>6, <1>7, <1>8, MapIs
<1>11. \A jd \in AllIds : N[jd] = 0 <=> M[jd] = 0
  BY <1>2 DEF Refound
<1>12. \A G : BoundIds(MapOf(w, u), G) = BoundIds(MapOf(t, s), G)
  <2> HIDE DEF M, N
  <2> QED
    BY <1>4, <1>10, <1>11 DEF BoundIds
<1>13. \A G : BoundIds(MapOf(t, s), G) \in SUBSET {jd \in AllIds : s.table[jd] # 0}
  BY <1>4 DEF BoundIds
<1>14. \A G : Contents(w, u, G) = Contents(t, s, G)
  BY <1>7, <1>12, <1>13 DEF Retold, Contents
<1>15. CASE over = 0
  BY <1>14, <1>15 DEF Recalls
<1>16. CASE over # 0
  <2>1. over \in LiveNodes(t) /\ t.label[over].id = id /\ M[id] = 0
    BY <1>1, <1>4, <1>16 DEF Over
  <2>2. w.label[over] = t.label[over]
    BY <1>2, <2>1 DEF Grew
  <2>3. over \notin Above(w, u.lastProp)
    <3>1. SUFFICES ASSUME over \in A PROVE FALSE
      BY <1>7
    <3>2. PICK m \in L : w.label[over] = t.label[m] /\ M[t.label[m].id] # 0
      BY <1>2, <3>1 DEF Carried
    <3> QED
      BY <2>1, <2>2, <3>2
  <2>4. PropertyOf(w, over) = PropertyOf(t, over)
    BY <2>2 DEF PropertyOf
  <2> QED
    BY <1>14, <2>3, <2>4 DEF Recalls
<1> QED
  BY <1>15, <1>16

\* The line is as good as before for the property that is to be defined.
Poised(t, s, label, over, C) == Open(t, s, label, over) /\ Recalls(t, s, label.id, over, C)
Repoised(label, over, C, x) ==
  /\ x.ok => Poised(x.tree, x.scope, label, over, C)
  /\ ~x.ok => Poised(x.tree, x.scope, label, over, C) \/ TornBy(x.tree, x.scope, over)

LEMMA ForkLinePoised ==
  ASSUME NEW t, NEW s, NEW label, NEW over, NEW C, Poised(t, s, label, over, C), s.middle
  PROVE  Repoised(label, over, C, Dense(ForkLine([tree |-> t, scope |-> s, at |-> 0, ok |-> TRUE], t, s)))
<1> DEFINE a == ForkLine([tree |-> t, scope |-> s, at |-> 0, ok |-> TRUE], t, s)
           L == Above(t, s.lastProp)
           id == label.id
<1>0. Open(t, s, label, over) /\ Recalls(t, s, id, over, C)
  BY DEF Poised
<1>1. /\ Usable(t) /\ Grows(t) /\ s \in Scopes /\ s.lastProp \in LiveNodes(t) \cup {0} /\ id \in AllIds
      /\ Holds(t, s, L, MapOf(t, s), Leaving(id, over))
  BY <1>0, OpenIs
<1>2. s.hashed
  BY <1>0, OpenIs DEF Fits
<1>3. MapOf(t, s) = s.table
  BY <1>1, <1>2, UsableIs, MapIs
<1>4. Forkable(t, s)
  BY <1>1, <1>2, <1>3 DEF Forkable, Holds
<1>5. a \in ForkStates /\ Forking(t, s, s.lastProp, a) /\ Retold(t, s, s.lastProp, a)
  BY <1>4, ForkLineTells
<1>50. Squeezed(t, label, over, Dense(a))
  BY <1>0, ForkLineSqueezed
<1> HIDE DEF a
<1>6. Usable(a.tree) /\ Grew(t, a.tree) /\ SameBut(s, a.scope)
  BY <1>5 DEF Forking
<1>7. CASE a.ok
  <2> DEFINE u == [a.scope EXCEPT !.lastProp = a.at, !.middle = FALSE]
  <2>1. Dense(a).tree = a.tree /\ Dense(a).scope = u /\ Dense(a).ok
    BY <1>5, <1>7 DEF Dense, ForkStates, Scopes
  <2>2. Open(a.tree, u, label, over)
    BY <1>50, <2>1 DEF Squeezed
  <2>3. Recalls(a.tree, u, label.id, over, C)
    BY <1>0, <1>2, <1>4, <1>5, <1>7, DenseRecalls
  <2> HIDE DEF u
  <2>4. Repoised(label, over, C, Dense(a))
    BY <2>1, <2>2, <2>3 DEF Repoised, Poised
  <2> QED
    BY <2>4 DEF a
<1>8. CASE ~a.ok
  <2>1. Dense(a) = a
    BY <1>8 DEF Dense
  <2>2. Abandoned(s, a)
    BY <1>5, <1>8 DEF Forking
  <2>3. Open(a.tree, a.scope, label, over) \/ TornBy(a.tree, a.scope, over)
    BY <1>8, <1>50, <2>1 DEF Squeezed
  <2>4. CASE Open(a.tree, a.scope, label, over)
    <3>1. ~\E jd \in AllIds : Astray(a.tree, a.scope, jd)
      <4>1. /\ a.scope \in Scopes /\ Mapping(a.tree, Above(a.tree, a.scope.lastProp), MapOf(a.tree, a.scope))
            /\ a.tree.up \in [Nodes -> Nodes \cup {0}] /\ Rooting(a.tree)
        BY <1>6, <2>4, OpenIs, UsableIs DEF Holds, Usable
      <4>2. a.scope.hashed => MapOf(a.tree, a.scope) = a.scope.table
        BY <4>1, MapIs
      <4>3. LiveNodes(a.tree) \subseteq Nodes /\ 0 \notin Nodes
        BY <1>6, UsableIs DEF Usable
      <4> QED
        BY <4>1, <4>2, <4>3 DEF Astray, Mapping
    <3>2. a.scope = s
      BY <2>2, <3>1 DEF Abandoned
    <3>3. Recalls(a.tree, s, label.id, over, C)
      BY <1>0, <1>6, RecallsGrown
    <3>4. Repoised(label, over, C, Dense(a))
      BY <1>8, <2>1, <2>4, <3>2, <3>3 DEF Repoised, Poised
    <3> QED
      BY <3>4 DEF a
  <2>5. CASE TornBy(a.tree, a.scope, over)
    <3>4. Repoised(label, over, C, Dense(a))
      BY <1>8, <2>1, <2>5 DEF Repoised
    <3> QED
      BY <3>4 DEF a
  <2> QED
    BY <2>3, <2>4, <2>5
<1> QED
  BY <1>7, <1>8

LEMMA SqueezePoised ==
  ASSUME NEW t, NEW s, NEW label, NEW over, NEW C, Poised(t, s, label, over, C)
  PROVE  Repoised(label, over, C, Squeeze(t, s))
<1> DEFINE start == [tree |-> t, scope |-> s, at |-> 0, ok |-> TRUE]
           x == Squeeze(t, s)
<1>0. Open(t, s, label, over) /\ Recalls(t, s, label.id, over, C)
  BY DEF Poised
<1>1. Usable(t) /\ s \in Scopes /\ t.up \in [Nodes -> Nodes \cup {0}] /\ Rooting(t)
  BY <1>0, OpenIs, UsableIs
<1>2. CASE ~s.middle
  <2>1. x.tree = t /\ x.scope = s /\ x.ok = TRUE
    BY <1>2 DEF Squeeze
  <2> HIDE DEF x
  <2>2. Repoised(label, over, C, x)
    BY <2>1 DEF Repoised
  <2> QED
    BY <2>2 DEF x
<1>3. CASE s.middle /\ s.count = 0
  <2> DEFINE u == [s EXCEPT !.middle = FALSE]
  <2>1. x.tree = t /\ x.scope = u /\ x.ok = TRUE
    BY <1>3 DEF Squeeze
  <2>2. Open(t, u, label, over)
    BY <1>0, <1>3, EmptyDense
  <2>3. u.lastProp = s.lastProp /\ u.hashed = s.hashed /\ u.table = s.table
    BY <1>1 DEF Scopes
  <2> HIDE DEF x, u
  <2>4. MapOf(t, u) = MapOf(t, s)
    BY <2>3 DEF MapOf, SearchScope
  <2>5. Recalls(t, u, label.id, over, C)
    BY <1>0, <2>3, <2>4 DEF Recalls, Contents
  <2>6. Repoised(label, over, C, x)
    BY <2>1, <2>2, <2>5 DEF Repoised, Poised
  <2> QED
    BY <2>6 DEF x
<1>4. CASE s.middle /\ s.count # 0 /\ t.fault = "vector"
  <2>1. x.tree = t /\ x.scope = s /\ x.ok = FALSE
    BY <1>4 DEF Squeeze
  <2> HIDE DEF x
  <2>2. Repoised(label, over, C, x)
    BY <2>1 DEF Repoised
  <2> QED
    BY <2>2 DEF x
<1>5. CASE s.middle /\ s.count # 0 /\ t.fault # "vector"
  <2>1. x = Dense(ForkLine(start, t, s))
    BY <1>5 DEF Squeeze
  <2>2. Repoised(label, over, C, Dense(ForkLine(start, t, s)))
    BY <1>5, ForkLinePoised
  <2> QED
    BY <2>1, <2>2
<1> QED
  BY <1>2, <1>3, <1>4, <1>5

\* A definition appends the property, or keeps what there was.
LEMMA DefineTells ==
  ASSUME NEW t, NEW s, NEW label, NEW over, NEW C, Poised(t, s, label, over, C)
  PROVE  Tells(Define(t, s, label, over), C, Said(label))
<1> DEFINE x == Squeeze(t, s)
<1>1. Repoised(label, over, C, x)
  BY SqueezePoised
<1>2. Define(t, s, label, over) = DefineSlot(x, label, over)
  BY DEF Define
<1> HIDE DEF x
<1>3. Said(label).id = label.id
  BY DEF Said, Property
<1>5. CASE x.ok
  <2>1. DefineSlot(x, label, over) = DefineNode(x.tree, AllocSlot(x.tree, x.scope, label), over)
    BY <1>5 DEF DefineSlot
  <2>2. Open(x.tree, x.scope, label, over) /\ Recalls(x.tree, x.scope, label.id, over, C)
    BY <1>1, <1>5 DEF Repoised, Poised
  <2>3. Answers(DefineNode(x.tree, AllocSlot(x.tree, x.scope, label), over), C, Said(label))
    BY <2>2, NodeDefinedTells
  <2> QED
    BY <1>2, <2>1, <2>3 DEF Tells
<1>6. CASE ~x.ok
  <2>1. DefineSlot(x, label, over) = FailOverwrite(x.tree, x.scope, over)
    BY <1>6 DEF DefineSlot
  <2>2. CASE Poised(x.tree, x.scope, label, over, C)
    <3>1. Spared(FailOverwrite(x.tree, x.scope, over), C, label.id)
      BY <2>2, OverwritingSpares DEF Poised
    <3> QED
      BY <1>2, <1>3, <2>1, <3>1 DEF Spared, Answers, Tells
  <2>3. CASE TornBy(x.tree, x.scope, over)
    <3> DEFINE u == x.scope
               w == x.tree
    <3>1. /\ Usable(w) /\ u \in Scopes /\ u.lastProp \in LiveNodes(w) \cup {0}
          /\ over # 0 /\ w.label[over].id \in Hidden /\ u.lastProp # 0 => w.label[u.lastProp].id \in Hidden
      BY <2>3 DEF TornBy
    <3>2. PICK id \in AllIds : Astray(w, u, id) /\ (over # 0 => over \in LiveNodes(w) /\ w.label[over].id # id)
      BY <2>3 DEF TornBy
    <3>3. Wrecks(w, FailOverwrite(w, u, over))
      BY <3>1, <3>2, OverwritingAstray
    <3> QED
      BY <1>2, <2>1, <3>3 DEF Wrecks, Tells
  <2> QED
    BY <1>1, <1>6, <2>2, <2>3 DEF Repoised
<1> QED
  BY <1>5, <1>6

-----------------------------------------------------------------------------
(***************************************************************************)
(* What a call makes of what its scope has told.                           *)
(***************************************************************************)
\* How a property leaves s for u, in two steps if a table has to be made.
Departs(t, s, v, u, id) ==
  /\ Departed(t, v, u, id) /\ v.lastProp = s.lastProp
  /\ \A jd \in AllIds : MapOf(t, v)[jd] = 0 <=> MapOf(t, s)[jd] = 0
  /\ u.lastProp = s.lastProp \/ v = s

LEMMA DepartsIds ==
  ASSUME NEW t, NEW s, NEW v, NEW u, NEW id \in AllIds, Departs(t, s, v, u, id)
  PROVE  /\ BoundIds(MapOf(t, u), {id}) = BoundIds(MapOf(t, s), {}) \ {id}
         /\ BoundIds(MapOf(t, u), {id}) \cup {id} = BoundIds(MapOf(t, s), {})
<1> DEFINE M == MapOf(t, v)
           N == MapOf(t, u)
           O == MapOf(t, s)
<1>1. /\ M[id] # 0 /\ \A jd \in AllIds : jd # id => N[jd] = M[jd]
  BY DEF Departs, Departed, Left
<1>2. \A jd \in AllIds : M[jd] = 0 <=> O[jd] = 0
  BY DEF Departs
<1> HIDE DEF M, N, O
<1>3. BoundIds(N, {id}) = BoundIds(O, {}) \ {id} /\ id \in BoundIds(O, {})
  BY <1>1, <1>2 DEF BoundIds
<1> QED
  BY <1>3 DEF N, O

\* What is left is what there was without the property.
LEMMA DepartsTold ==
  ASSUME NEW t, Grows(t), NEW s, Fits(t, s, {}), Latest(t, s), NEW v, NEW u, NEW id \in AllIds, Departs(t, s, v, u, id)
  PROVE  Contents(t, u, {id}) = Promise!Without(Contents(t, s, {}), id)
<1> DEFINE B == BoundIds(MapOf(t, s), {})
           E == BoundIds(MapOf(t, u), {id})
           M == MapOf(t, s)
           L == Above(t, s.lastProp)
           r == u.lastProp
           K == Above(t, r)
<1>1. /\ t.up \in [Nodes -> Nodes \cup {0}] /\ Rooting(t) /\ s \in Scopes /\ s.lastProp \in LiveNodes(t) \cup {0}
      /\ s.lastProp \in Nodes \cup {0} /\ Mapping(t, L, M) /\ L \subseteq Nodes /\ 0 \notin Nodes
      /\ \A m \in L : t.label[m].id \in AllIds
  BY UsableIs, LineLabels DEF Fits, Holds, Scopes
<1>2. E = B \ {id} /\ B \in SUBSET AllIds /\ E \in SUBSET AllIds
  BY DepartsIds, BoundAre
<1>3. Promise!Without(Told(t, s.lastProp, B), id) = Told(t, s.lastProp, E)
  <2> HIDE DEF B, E
  <2>1. Promise!Without(Told(t, s.lastProp, B), id) = Told(t, s.lastProp, B \ {id})
    BY <1>1, <1>2, ToldWithout
  <2> QED
    BY <1>2, <2>1
<1>4. Told(t, r, E) = Told(t, s.lastProp, E)
  <2>1. CASE r = s.lastProp
    BY <2>1
  <2>2. CASE v = s
    <3>1. Left(t, s, u, L, M, K, MapOf(t, u), id) /\ r \in LiveNodes(t) \cup {0}
      BY <2>2 DEF Departs, Departed
    <3>2. /\ K \subseteq L /\ \A jd \in AllIds : jd # id => (M[jd] # 0 => M[jd] \in K)
      BY <3>1 DEF Left
    <3>3. r # 0 => r \in K
      BY <1>1, <3>1, UsableIs, LineIs
    <3>4. ASSUME NEW m \in L, m \notin K, t.label[m].id \in E PROVE FALSE
      <4> DEFINE jd == t.label[m].id
                 k == M[jd]
      <4>1. jd \in AllIds /\ jd # id /\ k # 0
        BY <1>1, <1>2, <3>4 DEF BoundIds
      <4>2. k \in K /\ k \in L /\ t.label[k].id = jd
        BY <1>1, <3>2, <4>1 DEF Mapping
      <4>3. Above(t, k) \subseteq K
        <5>1. r \in Nodes \cup {0}
          BY <1>1, <3>2, <3>3
        <5> QED
          BY <1>1, <4>2, <5>1, LineIs
      <4>4. k \in Above(t, m) \/ m \in Above(t, k)
        BY <1>1, <3>4, <4>2, LineChain
      <4>5. Above(t, m) = {m} \cup Above(t, t.up[m])
        BY <1>1, <3>4, AboveIs
      <4>6. k \in Above(t, t.up[m])
        BY <3>4, <4>2, <4>3, <4>4, <4>5
      <4> QED
        BY <3>4, <4>2, <4>6 DEF Latest
    <3>5. \A m \in L : m \in K \/ t.label[m].id \notin E
      BY <3>4
    <3> HIDE DEF E, K, L, M, r
    <3>6. r \in L \cup {0}
      BY <3>2, <3>3
    <3>7. Told(t, s.lastProp, E) = Told(t, r, E)
      BY <1>1, <1>2, <3>5, <3>6, ToldSkips DEF K, L
    <3> QED
      BY <3>7
  <2> QED
    BY <2>1, <2>2 DEF Departs
<1> QED
  BY <1>3, <1>4 DEF Contents

\* The property that a scope finds under an id is the one its contents have.
LEMMA FoundBound ==
  ASSUME NEW t, Grows(t), NEW s, Fits(t, s, {}), Latest(t, s), NEW id \in AllIds
  PROVE  /\ MapOf(t, s)[id] # 0 => Promise!Bound(Contents(t, s, {}), id) = {PropertyOf(t, MapOf(t, s)[id])}
         /\ MapOf(t, s)[id] = 0 => /\ Promise!Bound(Contents(t, s, {}), id) = {}
                                   /\ Promise!Without(Contents(t, s, {}), id) = Contents(t, s, {})
<1> DEFINE B == BoundIds(MapOf(t, s), {})
           n == MapOf(t, s)[id]
<1>1. /\ t.up \in [Nodes -> Nodes \cup {0}] /\ Rooting(t) /\ s.lastProp \in Nodes \cup {0} /\ 0 \notin Nodes
  BY UsableIs DEF Fits, Scopes
<1>2. B \in SUBSET AllIds
  BY BoundAre
<1>3. ToldOf(t, s.lastProp, B, id)
  BY <1>1, <1>2, BoundTold
<1>4. id \in B <=> n # 0
  BY DEF BoundIds
<1>5. Contents(t, s, {}) = Told(t, s.lastProp, B)
  BY DEF Contents
<1>6. n # 0 => n = SearchLine(t, s.lastProp, id)
  BY LatestFirst
<1> HIDE DEF B, n
<1>7. n # 0 => Promise!Bound(Contents(t, s, {}), id) = {PropertyOf(t, n)}
  BY <1>3, <1>4, <1>5, <1>6 DEF ToldOf
<1>8. n = 0 => Promise!Bound(Contents(t, s, {}), id) = {}
  BY <1>3, <1>4, <1>5 DEF ToldOf
<1>9. n = 0 => Promise!Without(Contents(t, s, {}), id) = Contents(t, s, {})
  <2>1. n = 0 => B \ {id} = B
    BY <1>4
  <2>2. Promise!Without(Told(t, s.lastProp, B), id) = Told(t, s.lastProp, B \ {id})
    BY <1>1, <1>2, ToldWithout
  <2> QED
    BY <1>5, <2>1, <2>2
<1> QED
  BY <1>7, <1>8, <1>9 DEF n

\* A property that is overwritten can still be told.
LEMMA OverwrittenPoised ==
  ASSUME NEW t, Usable(t), NEW s, Fits(t, s, {}), Latest(t, s), NEW label, NEW n, n # 0, Given(t, MapOf(t, s), label, n),
         NEW duplicate \in BOOLEAN, duplicate <=> label.id \in Hidden
  PROVE  Poised(t, Overwritten(t, s, n, duplicate), label, n, Contents(t, s, {}))
<1> DEFINE id == label.id
           u == Overwritten(t, s, n, duplicate)
           C == Contents(t, s, {})
<1>1. id \in AllIds /\ MapOf(t, s)[id] = n /\ Grows(t)
  BY DEF Given, PropLabels, Usable
<1>2. Open(t, u, label, n)
  BY OverwrittenOpen
<1>3. \E v : Departs(t, s, v, u, id) /\ (u.lastProp = s.lastProp \/ n = s.lastProp)
  <2>1. \E v : /\ Departed(t, v, u, id)
               /\ u.freeslot = v.freeslot
               /\ MapOf(t, v)[id] = n /\ \A jd \in AllIds : MapOf(t, v)[jd] = 0 <=> MapOf(t, s)[jd] = 0
               /\ v.lastProp = s.lastProp
               /\ duplicate => u.lastProp = s.lastProp
               /\ u.lastProp = s.lastProp \/ (v = s /\ n = s.lastProp)
    BY <1>1, OverwrittenDeparts
  <2> HIDE DEF u
  <2> QED
    BY <2>1 DEF Departs
<1> HIDE DEF u
<1>4. PICK v : Departs(t, s, v, u, id) /\ (u.lastProp = s.lastProp \/ n = s.lastProp)
  BY <1>3
<1>5. Contents(t, u, {id}) = Promise!Without(C, id)
  BY <1>1, <1>4, DepartsTold
<1>6. Promise!Bound(C, id) = {PropertyOf(t, n)}
  BY <1>1, FoundBound
<1>7. ASSUME n \in Above(t, u.lastProp) PROVE Told(t, u.lastProp, BoundIds(MapOf(t, u), {id}) \cup {id}) = C
  <2>1. BoundIds(MapOf(t, u), {id}) \cup {id} = BoundIds(MapOf(t, s), {})
    <3> HIDE DEF id
    <3>1. Departs(t, s, v, u, id) /\ id \in AllIds
      BY <1>1, <1>4
    <3> QED
      BY <3>1, DepartsIds
  <2>2. u.lastProp = s.lastProp
    <3>1. SUFFICES ASSUME n = s.lastProp PROVE u.lastProp = n
      BY <1>4
    <3>2. /\ t.up \in [Nodes -> Nodes \cup {0}] /\ Rooting(t) /\ LiveNodes(t) \subseteq Nodes /\ 0 \notin Nodes
          /\ u.lastProp \in LiveNodes(t) \cup {0} /\ s.lastProp \in LiveNodes(t) \cup {0}
      BY <1>1, <1>4, UsableIs DEF Departs, Departed, Fits
    <3>3. u.lastProp # 0
      BY <1>7, <3>2, AboveIs
    <3>4. u.lastProp \in Above(t, u.lastProp) /\ Above(t, u.lastProp) \subseteq Above(t, v.lastProp)
      BY <1>4, <3>2, <3>3, LineIs DEF Departs, Departed, Left
    <3>5. u.lastProp \in Above(t, n)
      BY <1>4, <3>1, <3>4 DEF Departs
    <3> QED
      BY <1>7, <3>1, <3>2, <3>3, <3>5, LineIs
  <2> QED
    BY <2>1, <2>2 DEF Contents
<1> HIDE DEF C, id
<1>8. Leaving(id, n) = {id}
  BY DEF Leaving
<1>9. Recalls(t, u, id, n, C)
  BY <1>5, <1>6, <1>7, <1>8 DEF Recalls
<1> QED
  BY <1>2, <1>9 DEF Poised, u, id, C

LEMMA AddedPoised ==
  ASSUME NEW t, Usable(t), NEW s, Fits(t, s, {}), Latest(t, s), NEW label, Given(t, MapOf(t, s), label, 0)
  PROVE  Poised(t, s, label, 0, Contents(t, s, {}))
<1>1. Open(t, s, label, 0)
  BY AddedOpen
<1>2. label.id \in AllIds /\ MapOf(t, s)[label.id] = 0 /\ Grows(t)
  BY DEF Given, PropLabels, Usable
<1>3. Promise!Without(Contents(t, s, {}), label.id) = Contents(t, s, {})
  BY <1>2, FoundBound
<1>4. Leaving(label.id, 0) = {}
  BY DEF Leaving
<1>5. Recalls(t, s, label.id, 0, Contents(t, s, {}))
  BY <1>3, <1>4 DEF Recalls
<1> QED
  BY <1>1, <1>5 DEF Poised

\* A deletion takes the property out and leaves the others in their order.
LEMMA RemoveTells ==
  ASSUME NEW t, Grows(t), NEW s, Fits(t, s, {}), Latest(t, s), NEW n \in Mapped(t, s), t.label[n].attr # "formal"
  PROVE  Contents(t, RemoveScopeProperty(t, s, n), {}) = Promise!Without(Contents(t, s, {}), t.label[n].id)
<1> DEFINE id == t.label[n].id
           u == RemoveScopeProperty(t, s, n)
<1>1. id \in AllIds /\ t.label[n] \in GoodLabels
  BY MappedIs
<1>2. id \notin Hidden
  BY <1>1, LabelIs
<1> HIDE DEF u
<1>3. \E v : Departs(t, s, v, u, id)
  <2>1. CASE n = s.lastProp
    <3>1. Departed(t, s, u, id)
      BY <1>2, <2>1, LastDeleted DEF u
    <3> QED
      BY <3>1 DEF Departs
  <2>2. CASE n # s.lastProp
    <3>1. \E v : /\ Departed(t, v, u, id)
                 /\ v.lastProp = s.lastProp /\ u.lastProp = s.lastProp
                 /\ \A jd \in AllIds : MapOf(t, v)[jd] = 0 <=> MapOf(t, s)[jd] = 0
      BY <1>2, <2>2, MiddleDeleted DEF u
    <3> QED
      BY <3>1 DEF Departs
  <2> QED
    BY <2>1, <2>2
<1>4. PICK v : Departs(t, s, v, u, id)
  BY <1>3
<1>5. Contents(t, u, {id}) = Promise!Without(Contents(t, s, {}), id)
  BY <1>1, <1>4, DepartsTold
<1>6. MapOf(t, u)[id] = 0
  BY <1>2, <1>4 DEF Departs, Departed
<1>7. BoundIds(MapOf(t, u), {}) = BoundIds(MapOf(t, u), {id})
  BY <1>6 DEF BoundIds
<1> QED
  BY <1>5, <1>7 DEF Contents, u

\* A call that defines p has ended as the promise says.
Meets(r, C, p) ==
  \/ Ripped(r.tree, r.scope)
  \/ /\ r.node # 0 => Contents(r.tree, r.scope, {}) = Promise!Defined(C, p)
     /\ r.node = 0 => Contents(r.tree, r.scope, {}) \in Promise!Kept(C, p.id)

LEMMA TellsMeets ==
  ASSUME NEW r, NEW C, NEW p, Tells(r, C, p), p \notin Promise!Bound(C, p.id)
  PROVE  Meets(r, C, p)
BY DEF Tells, Answers, Meets, Promise!Defined

\* A label that a new property of its id, which a scope has as n, can have.
Settled(t, s, n, label) ==
  /\ Shared(label) => label.slot = NoSlot
  /\ n # 0 /\ ~Shared(label) /\ label.slot = NoSlot => ~ValidSlot(s, t.label[n])

LEMMA OtherSaid ==
  ASSUME NEW t, Grows(t), NEW s, Fits(t, s, {}), NEW label, NEW n, n # 0, Given(t, MapOf(t, s), label, n),
         Settled(t, s, n, label), t.label[n] # label
  PROVE  Said(label) # PropertyOf(t, n)
<1> DEFINE M == MapOf(t, s)
           l == t.label[n]
           id == label.id
<1>1. /\ label \in PropLabels /\ M[id] = n /\ id \in AllIds
      /\ Shared(label) \/ label.slot = NoSlot \/ (~Shared(l) /\ label.slot = l.slot)
  BY DEF Given, PropLabels
<1>2. s.lastProp \in LiveNodes(t) \cup {0} /\ Mapping(t, Above(t, s.lastProp), M) /\ Slotted(t, s, M, {})
  BY DEF Fits, Holds
<1>3. l \in GoodLabels /\ l.id = id
  BY <1>1, <1>2, LineLabels DEF Mapping
<1>4. l \in PropLabels /\ (Shared(l) => l.slot = NoSlot)
  BY <1>3, LabelIs
<1>5. SUFFICES ASSUME Said(label) = PropertyOf(t, n) PROVE label = l
  OBVIOUS
<1>6. label.attr = l.attr /\ label.index = l.index
  BY <1>5 DEF Said, PropertyOf, Property
<1>7. Shared(label) <=> Shared(l)
  BY <1>6 DEF Shared
<1>8. label.slot = l.slot
  <2>1. CASE Shared(label)
    BY <1>4, <1>7, <2>1 DEF Settled
  <2>2. CASE ~Shared(label)
    <3>1. Owns(t, M, id)
      BY <1>1, <1>7, <2>2 DEF Owns
    <3>2. l.slot \in Nat /\ l.slot < s.freeslot
      BY <1>1, <1>2, <3>1 DEF Slotted
    <3>3. ValidSlot(s, l)
      BY <3>2 DEF ValidSlot, NoSlot
    <3> QED
      BY <1>1, <2>2, <3>3 DEF Settled
  <2> QED
    BY <2>1, <2>2
<1> HIDE DEF l, id
<1>9. label.id = l.id
  BY <1>3 DEF id
<1> QED
  BY <1>1, <1>4, <1>6, <1>8, <1>9 DEF PropLabels

LEMMA ReplacedMeets ==
  ASSUME NEW t, Usable(t), NEW s, Fits(t, s, {}), Latest(t, s), NEW label, NEW n, Given(t, MapOf(t, s), label, n),
         Settled(t, s, n, label),
         NEW duplicate \in BOOLEAN, n # 0 => (duplicate <=> label.id \in Hidden)
  PROVE  Meets(AddOrReplace(t, s, n, label, duplicate), Contents(t, s, {}), Said(label))
<1> DEFINE r == AddOrReplace(t, s, n, label, duplicate)
           w == IF n = 0 THEN s ELSE Overwritten(t, s, n, duplicate)
           C == Contents(t, s, {})
           p == Said(label)
<1>1. label.id \in AllIds /\ MapOf(t, s)[label.id] = n /\ Grows(t) /\ p.id = label.id
  BY DEF Given, PropLabels, Usable, Said, Property
<1>2. /\ n # 0 => Promise!Bound(C, p.id) = {PropertyOf(t, n)}
      /\ n = 0 => Promise!Bound(C, p.id) = {}
  BY <1>1, FoundBound
<1>3. CASE n # 0 /\ t.label[n] = label
  <2>1. r.tree = t /\ r.scope = s /\ r.node = n
    BY <1>3 DEF AddOrReplace
  <2>2. p = PropertyOf(t, n)
    BY <1>3 DEF Said, PropertyOf
  <2> HIDE DEF r, C, p
  <2>3. Promise!Defined(C, p) = C
    BY <1>2, <1>3, <2>2 DEF Promise!Defined
  <2>4. Meets(r, C, p)
    BY <1>3, <2>1, <2>3 DEF Meets, C
  <2> QED
    BY <2>4 DEF r, C, p
<1>4. CASE n # 0 /\ t.label[n] # label /\ n # s.lastProp /\ ~duplicate /\ ~s.hashed /\ t.fault = "table"
  <2>1. r.tree = t /\ r.scope = s /\ r.node = 0
    BY <1>4 DEF AddOrReplace
  <2> HIDE DEF r, C, p
  <2>2. Meets(r, C, p)
    BY <2>1 DEF Meets, C, Promise!Kept
  <2> QED
    BY <2>2 DEF r, C, p
<1>5. CASE /\ ~(n # 0 /\ t.label[n] = label)
           /\ ~(n # 0 /\ t.label[n] # label /\ n # s.lastProp /\ ~duplicate /\ ~s.hashed /\ t.fault = "table")
  <2>1. r = Define(t, w, label, n)
    BY <1>5 DEF AddOrReplace
  <2>2. Poised(t, w, label, n, C)
    <3>1. CASE n = 0
      BY <3>1, AddedPoised
    <3>2. CASE n # 0
      BY <3>2, OverwrittenPoised
    <3> QED
      BY <3>1, <3>2
  <2>3. Tells(Define(t, w, label, n), C, p)
    BY <2>2, DefineTells
  <2>4. p \notin Promise!Bound(C, p.id)
    <3>1. n # 0 => p # PropertyOf(t, n)
      BY <1>1, <1>5, OtherSaid
    <3> HIDE DEF p, C
    <3> QED
      BY <1>2, <3>1
  <2> QED
    BY <2>1, <2>3, <2>4, TellsMeets
<1> QED
  BY <1>3, <1>4, <1>5

LEMMA RelabelledSettled ==
  ASSUME NEW t, NEW s, NEW M, NEW given, NEW n, Given(t, M, given, n), Shared(given) => given.slot = NoSlot
  PROVE  /\ Settled(t, s, n, Relabelled(t, s, n, given))
         /\ Said(Relabelled(t, s, n, given)) = Said(given)
<1> DEFINE x == Relabelled(t, s, n, given)
<1>1. given \in PropLabels
  BY DEF Given
<1>2. CASE n # 0 /\ ~Shared(given) /\ given.slot = NoSlot /\ ValidSlot(s, t.label[n])
  <2> DEFINE k == t.label[n].slot
  <2>1. x = [given EXCEPT !.slot = k] /\ k # NoSlot
    BY <1>2 DEF Relabelled, ValidSlot
  <2>2. \A j : LET y == [given EXCEPT !.slot = j] IN
           y.slot = j /\ y.id = given.id /\ y.attr = given.attr /\ y.index = given.index
    BY <1>1 DEF PropLabels
  <2>3. x.slot # NoSlot /\ x.id = given.id /\ x.attr = given.attr /\ x.index = given.index
    BY <2>1, <2>2
  <2> HIDE DEF x
  <2>4. ~Shared(x)
    BY <1>2, <2>3 DEF Shared
  <2> QED
    BY <2>3, <2>4 DEF Settled, Said, x
<1>3. CASE ~(n # 0 /\ ~Shared(given) /\ given.slot = NoSlot /\ ValidSlot(s, t.label[n]))
  <2>1. x = given
    BY <1>3 DEF Relabelled
  <2> QED
    BY <1>3, <2>1 DEF Settled
<1> QED
  BY <1>2, <1>3

\* A property that is added becomes the last one, or is there already.
LEMMA AddMeets ==
  ASSUME NEW t, Usable(t), NEW s, Fits(t, s, {}), Latest(t, s), NEW given,
         Given(t, MapOf(t, s), given, MapOf(t, s)[given.id]), Shared(given) => given.slot = NoSlot,
         NEW duplicate \in BOOLEAN, MapOf(t, s)[given.id] # 0 => (duplicate <=> given.id \in Hidden)
  PROVE  Meets(AddScopeProperty(t, s, given, duplicate), Contents(t, s, {}), Said(given))
<1> DEFINE n == MapOf(t, s)[given.id]
           x == Relabelled(t, s, n, given)
<1>1. given.id \in AllIds
  BY DEF Given, PropLabels
<1>2. SearchScope(t, s, given.id) = n
  BY <1>1 DEF MapOf
<1>3. AddScopeProperty(t, s, given, duplicate) = AddOrReplace(t, s, n, x, duplicate)
  BY <1>2 DEF AddScopeProperty, AddOver
<1>4. n # 0 => n \in LiveNodes(t)
  <2>1. Mapping(t, Above(t, s.lastProp), MapOf(t, s)) /\ s.lastProp \in LiveNodes(t) \cup {0}
    BY DEF Fits, Holds
  <2> QED
    BY <1>1, <2>1, LineLabels DEF Mapping, Usable
<1>5. Grows(t)
  BY DEF Usable
<1> HIDE DEF n
<1>6. Given(t, MapOf(t, s), x, n) /\ x.id = given.id
  BY <1>4, <1>5, RelabelledGiven DEF n
<1>7. n # 0 => (duplicate <=> x.id \in Hidden)
  BY <1>6 DEF n
<1>8. Settled(t, s, n, x) /\ Said(x) = Said(given)
  BY RelabelledSettled DEF n
<1> HIDE DEF x
<1>9. Meets(AddOrReplace(t, s, n, x, duplicate), Contents(t, s, {}), Said(x))
  BY <1>6, <1>7, <1>8, ReplacedMeets
<1> QED
  BY <1>3, <1>8, <1>9 DEF x

\* The sibling that the last property gives way to is the last one.
LEMMA MovedTells ==
  ASSUME NEW t, Grows(t), NEW s, Fits(t, s, {}), s.lastProp # 0, NEW id, id = t.label[s.lastProp].id,
         MapOf(t, s)[id] # 0, NEW n \in LiveNodes(t), t.label[n].id = id, t.up[n] = t.up[s.lastProp]
  PROVE  Contents(t, Moved(s, id, n), {}) = Append(Promise!Without(Contents(t, s, {}), id), PropertyOf(t, n))
<1> DEFINE z == s.lastProp
           p == t.up[z]
           M == MapOf(t, s)
           u == Moved(s, id, n)
           N == MapOf(t, u)
           B == BoundIds(M, {})
<1>1. /\ s \in Scopes /\ z \in LiveNodes(t) /\ z \in Nodes /\ n \in Nodes /\ 0 \notin Nodes /\ t.label[z] \in GoodLabels
      /\ t.up \in [Nodes -> Nodes \cup {0}] /\ Rooting(t)
  BY UsableIs DEF Fits
<1>2. id \in AllIds
  BY <1>1, LabelIs
<1>3. MoveOf(s, u, id, n)
  BY <1>1, <1>2, MovedIs
<1> HIDE DEF u
<1>4. u \in Scopes /\ u.lastProp = n /\ u.hashed = s.hashed
      /\ \A jd \in AllIds : s.hashed => u.table[jd] = IF jd = id THEN n ELSE s.table[jd]
  BY <1>3 DEF MoveOf
<1>5. n # 0 /\ M[id] # 0
  BY <1>1
<1>6. \A jd \in AllIds : N[jd] = 0 <=> M[jd] = 0
  <2>1. CASE s.hashed
    <3>1. M = s.table /\ N = u.table
      BY <1>1, <1>4, <2>1, MapIs
    <3> HIDE DEF M, N
    <3> QED
      BY <1>4, <1>5, <2>1, <3>1
  <2>2. CASE ~s.hashed
    <3>1. \A jd \in AllIds : M[jd] = SearchLine(t, z, jd) /\ N[jd] = SearchLine(t, n, jd)
      BY <1>1, <1>4, <2>2, MapIs
    <3>2. \A jd : \A m \in Nodes : SearchLine(t, m, jd) = IF t.label[m].id = jd THEN m ELSE SearchLine(t, t.up[m], jd)
      BY <1>1, SearchLineIs
    <3>3. \A jd : /\ SearchLine(t, z, jd) = IF id = jd THEN z ELSE SearchLine(t, p, jd)
                  /\ SearchLine(t, n, jd) = IF id = jd THEN n ELSE SearchLine(t, p, jd)
      BY <1>1, <3>2
    <3> HIDE DEF M, N, z, p
    <3> QED
      BY <1>1, <3>1, <3>3 DEF z
  <2> QED
    BY <2>1, <2>2
<1>7. BoundIds(N, {}) = B
  <2> HIDE DEF M, N
  <2> QED
    BY <1>6 DEF BoundIds
<1>8. id \in B /\ B \in SUBSET AllIds /\ B \ {id} \in SUBSET AllIds /\ id \notin B \ {id}
  BY <1>2, <1>5 DEF BoundIds
<1> HIDE DEF B
<1>9. Contents(t, u, {}) = Append(Told(t, p, B \ {id}), PropertyOf(t, n))
  <2>1. Contents(t, u, {}) = Told(t, n, B)
    BY <1>4, <1>7 DEF Contents
  <2>2. Told(t, n, B) = Append(Told(t, t.up[n], B \ {id}), PropertyOf(t, n))
    BY <1>1, <1>8, ToldOn
  <2> QED
    BY <2>1, <2>2
<1>10. Promise!Without(Contents(t, s, {}), id) = Told(t, p, B \ {id})
  <2>1. Contents(t, s, {}) = Told(t, z, B)
    BY DEF Contents, B
  <2>2. Promise!Without(Told(t, z, B), id) = Told(t, z, B \ {id})
    BY <1>1, <1>8, ToldWithout
  <2>3. Told(t, z, B \ {id}) = Told(t, p, B \ {id})
    BY <1>1, <1>8, ToldOff
  <2> QED
    BY <2>1, <2>2, <2>3
<1> QED
  BY <1>9, <1>10 DEF u

\* A scope with a slot for the sibling of its last property.
SiblingReady(t, s, id, p, x) ==
  /\ Fits(t, x.scope, {}) /\ x.scope.lastProp = s.lastProp /\ MapOf(t, x.scope) = MapOf(t, s)
  /\ x.ok => x.label \in GoodLabels /\ x.label.id = id /\ Said(x.label) = p

LEMMA LastChangedTells ==
  ASSUME NEW t, Usable(t), NEW s, Fits(t, s, {}), NEW n, n = s.lastProp, n \in Mapped(t, s),
         NEW id, id = t.label[n].id, id \notin Hidden, NEW p, p.id = id, NEW x, SiblingReady(t, s, id, p, x)
  PROVE  Answers(ChangeLast(t, n, x), Contents(t, s, {}), p)
<1> DEFINE r == ChangeLast(t, n, x)
           v == x.scope
           up == t.up[n]
           g == GetPropertyTreeChild(t, up, x.label)
           C == Contents(t, s, {})
<1>1. Grows(t) /\ n \in LiveNodes(t) /\ n \in Nodes /\ n # 0 /\ id \in AllIds /\ MapOf(t, s)[id] = n
  BY MappedIs DEF Usable
<1>2. Fits(t, v, {}) /\ v.lastProp = n /\ MapOf(t, v) = MapOf(t, s)
  BY DEF SiblingReady
<1>3. Contents(t, v, {}) = C /\ C \in Promise!Kept(C, p.id)
  BY <1>2 DEF Contents, Promise!Kept
<1>4. CASE ~x.ok
  <2>1. r.tree = t /\ r.scope = v /\ r.node = 0
    BY <1>4 DEF ChangeLast
  <2> HIDE DEF r, C, v
  <2>2. Answers(r, C, p)
    BY <1>3, <2>1 DEF Answers
  <2> QED
    BY <2>2 DEF r, C
<1>5. CASE x.ok
  <2>1. x.label \in GoodLabels /\ x.label.id = id /\ Said(x.label) = p
    BY <1>5 DEF SiblingReady
  <2>2. up \in LiveNodes(t) \cup {0}
    BY <1>1, UsableIs, LiveLine
  <2>3. Childed(t, g, up, x.label)
    BY <2>1, <2>2, ChildFits
  <2>4. r = Sibling(v, x.label.id, g)
    BY <1>5 DEF ChangeLast
  <2> HIDE DEF g, v, C
  <2>5. Usable(g.tree) /\ Grew(t, g.tree) /\ r.tree = g.tree /\ r.node = g.node
    BY <2>3, <2>4 DEF Childed, Sibling
  <2>6. Grows(g.tree) /\ Fits(g.tree, v, {}) /\ MapOf(g.tree, v) = MapOf(t, v)
    BY <1>1, <1>2, <2>5, FitsGrown DEF Usable
  <2>7. Contents(g.tree, v, {}) = C
    <3>1. {} \in SUBSET AllIds
      OBVIOUS
    <3> QED
      BY <1>1, <1>2, <1>3, <2>5, <2>6, <3>1, ContentsGrown
  <2>8. CASE g.node = 0
    <3>1. r.scope = v
      BY <2>4, <2>8 DEF Sibling
    <3> HIDE DEF r
    <3>2. Answers(r, C, p)
      BY <1>3, <2>5, <2>7, <2>8, <3>1 DEF Answers
    <3> QED
      BY <3>2 DEF r, C
  <2>9. CASE g.node # 0
    <3> DEFINE u == g.tree
               m == g.node
    <3>1. m \in LiveNodes(u) /\ u.label[m] = x.label /\ u.up[m] = up
      BY <2>3, <2>9 DEF Childed
    <3>2. r.scope = Moved(v, id, m)
      BY <2>1, <2>4, <2>9 DEF Sibling, Moved
    <3>3. u.label[n] = t.label[n] /\ u.up[n] = up /\ n \in LiveNodes(u)
      BY <1>1, <2>5 DEF Grew
    <3> HIDE DEF r, u, m
    <3>4. Contents(u, Moved(v, id, m), {}) = Append(Promise!Without(Contents(u, v, {}), id), PropertyOf(u, m))
      <4>1. v.lastProp # 0 /\ id = u.label[v.lastProp].id /\ u.label[m].id = id /\ u.up[m] = u.up[v.lastProp]
        BY <1>1, <1>2, <2>1, <3>1, <3>3
      <4>2. Grows(u) /\ Fits(u, v, {}) /\ MapOf(u, v)[id] # 0
        BY <1>1, <1>2, <2>6 DEF u
      <4> QED
        BY <3>1, <4>1, <4>2, MovedTells
    <3>5. PropertyOf(u, m) = p
      BY <2>1, <3>1 DEF PropertyOf, Said
    <3>6. Answers(r, C, p)
      BY <2>5, <2>7, <2>9, <3>2, <3>4, <3>5 DEF Answers, u
    <3> QED
      BY <3>6 DEF r, C
  <2> QED
    BY <2>8, <2>9
<1> QED
  BY <1>4, <1>5

LEMMA SaidWith ==
  ASSUME NEW l \in PropLabels
  PROVE  /\ \A k : Said([l EXCEPT !.slot = k]) = Said(l)
         /\ \A attr : Said([l EXCEPT !.attr = attr]) = Property(l.id, attr, l.index)
BY DEF Said, PropLabels

LEMMA ChangeMeets ==
  ASSUME NEW t, Usable(t), NEW s, Fits(t, s, {}), Latest(t, s), NEW n \in Mapped(t, s), t.label[n].attr # "formal",
         NEW attr \in PropAttrs, attr = "shared" => Shared(t.label[n])
  PROVE  Meets(ChangeScopePropertyAttrs(t, s, n, attr), Contents(t, s, {}), [PropertyOf(t, n) EXCEPT !.attr = attr])
<1> DEFINE l == t.label[n]
           x == [l EXCEPT !.attr = attr]
           M == MapOf(t, s)
           id == l.id
           r == ChangeScopePropertyAttrs(t, s, n, attr)
           p == [PropertyOf(t, n) EXCEPT !.attr = attr]
           C == Contents(t, s, {})
<1>1. /\ Grows(t) /\ n \in LiveNodes(t) /\ n \in Nodes /\ n # 0 /\ l \in GoodLabels /\ id \in AllIds /\ M[id] = n
  BY MappedIs DEF Usable
<1>2. /\ x \in PropLabels /\ x.id = id /\ x.slot = l.slot /\ x.attr # "formal" /\ id \notin Hidden
      /\ x # l => ~Shared(x)
      /\ Shared(l) => l.slot = NoSlot
  BY <1>1, OtherAttr
<1>20. l \in PropLabels
  BY <1>1, LabelIs
<1>21. p = Property(id, attr, l.index)
  BY DEF PropertyOf, Property
<1>22. Said(x) = p /\ p.id = id
  BY <1>20, <1>21, SaidWith DEF Property
<1>23. x # l => attr # l.attr
  BY <1>20 DEF PropLabels
<1>24. Promise!Bound(C, id) = {PropertyOf(t, n)}
  BY <1>1, FoundBound
<1>25. x # l => p # PropertyOf(t, n)
  BY <1>21, <1>23 DEF PropertyOf, Property
<1>26. x # l => p \notin Promise!Bound(C, p.id)
  <2> HIDE DEF p, C, x
  <2> QED
    BY <1>22, <1>24, <1>25
<1>3. r = ChangeTo(t, s, n, x)
  BY DEF ChangeScopePropertyAttrs
<1>4. CASE x = l
  <2>1. r.tree = t /\ r.scope = s /\ r.node = n
    BY <1>3, <1>4 DEF ChangeTo
  <2>2. p = PropertyOf(t, n)
    <3>1. Said(l) = PropertyOf(t, n)
      BY DEF Said, PropertyOf
    <3> QED
      BY <1>4, <1>22, <3>1
  <2> HIDE DEF r, C, p
  <2>3. Promise!Defined(C, p) = C
    BY <1>22, <1>24, <2>2 DEF Promise!Defined
  <2>4. Meets(r, C, p)
    BY <1>1, <2>1, <2>3 DEF Meets, C
  <2> QED
    BY <2>4 DEF r, C, p
<1> HIDE DEF x, p
<1>5. CASE x # l /\ n # s.lastProp
  <2>1. r = AddScopeProperty(t, s, x, FALSE)
    BY <1>3, <1>5 DEF ChangeTo
  <2>2. Given(t, M, x, M[x.id])
    <3>1. Shared(x) \/ x.slot = NoSlot \/ (n # 0 /\ ~Shared(t.label[n]) /\ x.slot = t.label[n].slot)
      BY <1>1, <1>2
    <3> QED
      BY <1>1, <1>2, <3>1 DEF Given
  <2>3. Meets(AddScopeProperty(t, s, x, FALSE), C, Said(x))
    <3>1. Shared(x) => x.slot = NoSlot
      BY <1>2, <1>5
    <3> QED
      BY <1>2, <2>2, <3>1, AddMeets
  <2> QED
    BY <1>22, <2>1, <2>3 DEF p
<1>6. CASE x # l /\ n = s.lastProp
  <2> DEFINE y == IF Shared(l) /\ ~Shared(x) THEN AllocSlot(t, s, x)
                  ELSE [scope |-> s, label |-> x, ok |-> TRUE]
  <2>1. r = ChangeLast(t, n, y)
    BY <1>3, <1>6 DEF ChangeTo
  <2>2. ~Shared(x)
    BY <1>2, <1>6
  <2>4. SiblingReady(t, s, id, p, y)
    <3>1. CASE Shared(l) /\ t.fault = "slot"
      <4>1. y.scope = s /\ ~y.ok
        BY <1>2, <2>2, <3>1 DEF AllocSlot
      <4> QED
        BY <4>1 DEF SiblingReady
    <3>2. CASE Shared(l) /\ t.fault # "slot"
      <4> DEFINE f == s.freeslot
                 w == [x EXCEPT !.slot = f]
                 u == [s EXCEPT !.freeslot = @ + 1]
      <4>1. y = [scope |-> u, label |-> w, ok |-> TRUE]
        BY <1>2, <2>2, <3>2 DEF AllocSlot
      <4>2. Fits(t, u, {}) /\ MapOf(t, u) = M /\ u.lastProp = s.lastProp /\ f \in Nat
        BY SlotTakenFits
      <4>3. w \in GoodLabels /\ w.id = id /\ w.slot = f
        BY <1>2, <2>2, <4>2, LabelWith
      <4>4. Said(w) = p
        BY <1>2, <1>22, SaidWith
      <4> HIDE DEF w, u, f, M
      <4> QED
        BY <4>1, <4>2, <4>3, <4>4 DEF SiblingReady, M
    <3>3. CASE ~Shared(l)
      <4>1. y = [scope |-> s, label |-> x, ok |-> TRUE]
        BY <3>3
      <4>2. x \in GoodLabels
        BY <1>2, <2>2 DEF GoodLabels
      <4> QED
        BY <1>2, <1>22, <4>1, <4>2 DEF SiblingReady
    <3> QED
      BY <3>1, <3>2, <3>3
  <2> HIDE DEF y, r, C
  <2>5. Answers(ChangeLast(t, n, y), C, p)
    BY <1>2, <1>6, <1>22, <2>4, LastChangedTells DEF C
  <2>6. Meets(r, C, p)
    BY <1>6, <1>26, <2>1, <2>5, TellsMeets DEF Tells, C
  <2> QED
    BY <2>6 DEF r, C, p
<1> QED
  BY <1>4, <1>5, <1>6 DEF p

-----------------------------------------------------------------------------
(***************************************************************************)
(* Every step of PropertiesNext is one that the promise allows.            *)
(***************************************************************************)
LEMMA BumpedMeets ==
  ASSUME NEW t, NEW r, Result(r), Ends(t, r), NEW C, NEW p, Meets(r, C, p)
  PROVE  Meets(Bumped(r), C, p)
<1>0. PICK tree, sc, node : r = [tree |-> tree, scope |-> sc, node |-> node]
  BY DEF Result
<1>1. CASE r.node = 0
  BY <1>1 DEF Bumped
<1>2. CASE r.node # 0
  <2> DEFINE k == sc.nargs + 1
             u == [sc EXCEPT !.nargs = k]
  <2>1. Bumped(r) = [tree |-> tree, scope |-> u, node |-> node]
    BY <1>0, <1>2 DEF Bumped
  <2>2. sc \in Scopes
    BY <1>0 DEF Ends, Ripped, Fits
  <2>3. u \in Scopes /\ (Torn(tree, sc) => Torn(tree, u))
    BY <2>2, BumpedFits
  <2> HIDE DEF k
  <2>4. u.lastProp = sc.lastProp /\ u.table = sc.table
    BY <2>2 DEF Scopes
  <2>5. u.hashed = sc.hashed
    BY <2>2 DEF Scopes
  <2> HIDE DEF u
  <2>6. MapOf(tree, u) = MapOf(tree, sc)
    BY <2>4, <2>5 DEF MapOf, SearchScope
  <2>7. Contents(tree, u, {}) = Contents(tree, sc, {})
    BY <2>4, <2>6 DEF Contents
  <2>8. Bumped(r).tree = tree /\ Bumped(r).scope = u /\ Bumped(r).node = node
    BY <2>1
  <2>9. Bumped(r).tree = r.tree /\ Bumped(r).node = r.node /\ (Ripped(r.tree, r.scope) => Ripped(r.tree, u))
        /\ Contents(r.tree, u, {}) = Contents(r.tree, r.scope, {})
    BY <1>0, <2>3, <2>7, <2>8 DEF Ripped
  <2> QED
    BY <2>8, <2>9 DEF Meets
<1> QED
  BY <1>1, <1>2

\* What a call may make of what the scope has had.
MapsAre == maps = [j \in DOMAIN scope |-> Properties(propTree, scope[j])] /\ 0 \notin DOMAIN scope
MapsInv == PropertiesInv /\ MapsAre

LEMMA MapsTold ==
  ASSUME MapsInv, NEW i \in DOMAIN scope
  PROVE  /\ Usable(propTree) /\ Grows(propTree) /\ Fits(propTree, scope[i], {}) /\ Latest(propTree, scope[i])
         /\ maps[i] = Contents(propTree, scope[i], {}) /\ Properties(propTree, scope[i]) = maps[i]
<1>1. /\ Usable(propTree) /\ Grows(propTree) /\ Fits(propTree, scope[i], {}) /\ ~MapsFirstDuplicate(propTree, scope[i])
  BY DEF MapsInv, PropertiesInv, ScopesFit, Usable
<1>2. Latest(propTree, scope[i])
  BY <1>1, LatestIs
<1>3. Properties(propTree, scope[i]) = Contents(propTree, scope[i], {})
  BY <1>1, <1>2, PropertiesTold
<1>4. maps[i] = Properties(propTree, scope[i])
  BY DEF MapsInv, MapsAre
<1> QED
  BY <1>1, <1>2, <1>3, <1>4

\* A scope has the same properties in a tree that has grown.
LEMMA PropertiesGrown ==
  ASSUME NEW t, Grows(t), NEW u, Grows(u), Grew(t, u), NEW s, Fits(t, s, {}), ~MapsFirstDuplicate(t, s)
  PROVE  Properties(u, s) = Contents(t, s, {}) /\ Properties(t, s) = Contents(t, s, {})
<1>1. Fits(u, s, {})
  BY FitsGrown
<1>2. s.lastProp \in LiveNodes(t) \cup {0}
  BY DEF Fits
<1>3. ~MapsFirstDuplicate(u, s)
  BY <1>2, DuplicatesGrown
<1>4. Properties(u, s) = Contents(u, s, {}) /\ Properties(t, s) = Contents(t, s, {})
  BY <1>1, <1>3, LatestIs, PropertiesTold
<1>5. {} \in SUBSET AllIds
  OBVIOUS
<1>6. Contents(u, s, {}) = Contents(t, s, {})
  BY <1>5, ContentsGrown
<1> QED
  BY <1>4, <1>6

\* A call that returns in the tree and the scope of r takes a step of the
\* promise if what it has made of the scope is promised.
LEMMA ReturnTells ==
  ASSUME Anomalies = {}, MapsInv, NEW op, NEW i \in DOMAIN scope, NEW p, NEW r,
         Ends(propTree, r), Returns(op, i, p, r),
         Ripped(r.tree, r.scope) \/ Contents(r.tree, r.scope, {}) \in Promise!After(maps[i])
  PROVE  Promise!Next /\ MapsAre'
<1> DEFINE t == r.tree
           s == r.scope
           u == propTree'
           X == Contents(t, s, {})
<1>1. /\ t.fault # "crash" /\ ~Torn(t, s) /\ ~MapsFirstDuplicate(t, s)
  BY DEF Returns, Usual
<1>2. Usable(t) /\ Grew(propTree, t) /\ Fits(t, s, {}) /\ X \in Promise!After(maps[i])
  BY <1>1 DEF Ends, Ripped
<1>3. Grows(propTree) /\ Grows(t)
  BY <1>2 DEF Usable, PropertiesInv, MapsInv
<1>4. /\ u = [t EXCEPT !.fault = "none"] /\ scope' = [scope EXCEPT ![i] = s] /\ call'.scope = i
      /\ maps' = [j \in DOMAIN scope |-> Properties(t, IF j = i THEN s ELSE scope[j])]
  BY DEF Returns
<1>5. "none" \in Failures \cup {"crash"}
  BY DEF Failures
<1> HIDE DEF t, s, u, X
<1>6. Usable(u) /\ Grows(u) /\ Grew(t, u)
  BY <1>2, <1>4, <1>5, FaultSet
<1>7. Grew(propTree, u)
  BY <1>2, <1>6, SameGrew
<1>8. Properties(t, s) = X /\ Properties(u, s) = X
  BY <1>1, <1>2, <1>3, <1>6, PropertiesGrown DEF X
<1>9. \A j \in DOMAIN scope : Properties(t, scope[j]) = maps[j] /\ Properties(u, scope[j]) = maps[j]
  <2>1. ASSUME NEW j \in DOMAIN scope
        PROVE Properties(t, scope[j]) = maps[j] /\ Properties(u, scope[j]) = maps[j]
    <3>1. Fits(propTree, scope[j], {}) /\ ~MapsFirstDuplicate(propTree, scope[j])
      BY DEF MapsInv, PropertiesInv, ScopesFit
    <3>2. maps[j] = Contents(propTree, scope[j], {})
      BY MapsTold
    <3> QED
      BY <1>2, <1>3, <1>6, <1>7, <3>1, <3>2, PropertiesGrown
  <2> QED
    BY <2>1
<1>10. DOMAIN maps = DOMAIN scope /\ maps = [j \in DOMAIN scope |-> maps[j]] /\ 0 \notin DOMAIN scope
  BY DEF MapsInv, MapsAre
<1>11. maps' = [maps EXCEPT ![i] = X]
  <2>1. \A j \in DOMAIN scope : Properties(t, IF j = i THEN s ELSE scope[j]) = IF j = i THEN X ELSE maps[j]
    BY <1>8, <1>9
  <2>2. maps' = [j \in DOMAIN scope |-> IF j = i THEN X ELSE maps[j]]
    BY <1>4, <2>1
  <2> QED
    BY <1>10, <2>2
<1>12. Promise!Next
  <2>1. call'.scope # 0
    BY <1>4, <1>10
  <2> QED
    BY <1>2, <1>4, <1>11, <2>1 DEF Promise!Next
<1>13. DOMAIN scope' = DOMAIN scope /\ \A j \in DOMAIN scope : scope'[j] = IF j = i THEN s ELSE scope[j]
  BY <1>4
<1>14. maps' = [j \in DOMAIN scope' |-> Properties(u, scope'[j])]
  <2>1. \A j \in DOMAIN scope : Properties(u, scope'[j]) = Properties(t, IF j = i THEN s ELSE scope[j])
    BY <1>8, <1>9, <1>13
  <2> QED
    BY <1>4, <1>13, <2>1
<1> QED
  BY <1>10, <1>12, <1>13, <1>14 DEF MapsAre, u

\* What a call of each kind is promised to make of a map.
LEMMA AfterIs ==
  ASSUME NEW op, NEW i, NEW p, NEW r, Returns(op, i, p, r), NEW C
  PROVE  /\ op = "define" /\ r.node # 0 => Promise!After(C) = {Promise!Defined(C, p)}
         /\ op = "define" /\ r.node = 0 => Promise!After(C) = Promise!Kept(C, p.id)
         /\ op = "delete" /\ r.node # 0 => Promise!After(C) = {Promise!Without(C, p.id)}
         /\ op = "delete" /\ r.node = 0 => Promise!After(C) = {C}
         /\ op = "clear" => Promise!After(C) = {<<>>}
<1>1. call' = [op |-> op, scope |-> i, property |-> p, ok |-> r.node # 0]
  BY DEF Returns
<1>2. call'.op = op /\ call'.property = p /\ call'.ok = (r.node # 0)
  BY <1>1
<1>3. op = "define" /\ r.node # 0 => Promise!After(C) = {Promise!Defined(C, p)}
  BY <1>2 DEF Promise!After
<1>4. op = "define" /\ r.node = 0 => Promise!After(C) = Promise!Kept(C, p.id)
  BY <1>2 DEF Promise!After
<1>5. op = "delete" /\ r.node # 0 => Promise!After(C) = {Promise!Without(C, p.id)}
  BY <1>2 DEF Promise!After
<1>6. op = "delete" /\ r.node = 0 => Promise!After(C) = {C}
  BY <1>2 DEF Promise!After
<1>7. op = "clear" => Promise!After(C) = {<<>>}
  BY <1>2 DEF Promise!After
<1> QED
  BY <1>3, <1>4, <1>5, <1>6, <1>7

LEMMA MeetsAfter ==
  ASSUME NEW i, NEW p, NEW r, Returns("define", i, p, r), NEW C, Meets(r, C, p)
  PROVE  Ripped(r.tree, r.scope) \/ Contents(r.tree, r.scope, {}) \in Promise!After(C)
<1>1. /\ r.node # 0 => Promise!After(C) = {Promise!Defined(C, p)}
      /\ r.node = 0 => Promise!After(C) = Promise!Kept(C, p.id)
  BY AfterIs
<1> QED
  BY <1>1 DEF Meets

\* The tree in which a call finds its scope.
LEMMA FaultyTold ==
  ASSUME MapsInv, NEW fault \in Faults, NEW i \in DOMAIN scope
  PROVE  /\ PropertiesInv /\ Latest(Faulty(fault), scope[i])
         /\ maps[i] = Contents(Faulty(fault), scope[i], {})
<1> DEFINE u == Faulty(fault)
<1>1. u = [propTree EXCEPT !.fault = fault] /\ fault \in Failures \cup {"crash"} /\ PropertiesInv
  BY PropertyAssumption DEF Faulty, MapsInv
<1> HIDE DEF u
<1>2. /\ Usable(propTree) /\ Grows(propTree) /\ Fits(propTree, scope[i], {}) /\ maps[i] = Contents(propTree, scope[i], {})
      /\ ~MapsFirstDuplicate(propTree, scope[i])
  BY <1>1, MapsTold DEF PropertiesInv, ScopesFit
<1>3. Usable(u) /\ Grows(u) /\ Grew(propTree, u)
  BY <1>1, <1>2, FaultSet
<1>4. Fits(u, scope[i], {}) /\ ~MapsFirstDuplicate(u, scope[i])
  <2>1. scope[i].lastProp \in LiveNodes(propTree) \cup {0}
    BY <1>2 DEF Fits
  <2> QED
    BY <1>2, <1>3, <2>1, FitsGrown, DuplicatesGrown
<1>5. Latest(u, scope[i])
  BY <1>3, <1>4, LatestIs
<1>6. {} \in SUBSET AllIds
  OBVIOUS
<1>7. Contents(u, scope[i], {}) = Contents(propTree, scope[i], {})
  BY <1>2, <1>3, <1>6, ContentsGrown
<1> QED
  BY <1>1, <1>2, <1>5, <1>7 DEF u

LEMMA AddPropertyTells ==
  ASSUME Anomalies = {}, MapsInv, NEW i \in DOMAIN scope, NEW id \in Ids, NEW attr \in PropAttrs, NEW fault \in Faults,
         AddProperty(i, id, attr, fault)
  PROVE  Promise!Next /\ MapsAre'
<1> DEFINE t == Faulty(fault)
           s == scope[i]
           x == Label(id, attr, NoSlot, 0)
           r == AddScopeProperty(t, s, x, FALSE)
           p == Property(id, attr, 0)
<1>1. PropertiesInv /\ Latest(t, s) /\ maps[i] = Contents(t, s, {})
  BY FaultyTold
<1>2. Usable(t) /\ Fits(t, s, {}) /\ \A q : Ends(t, q) => Ends(propTree, q)
  BY <1>1, FaultyFits
<1>3. x \in PropLabels /\ x.id = id /\ x.attr = attr /\ x.slot = NoSlot
  BY DEF Label, PropLabels, AllIds
<1>4. Said(x) = p
  BY DEF Label, Said
<1>5. attr # "formal" /\ id \notin Hidden
  BY PropertyAssumption
<1>6. Returns("define", i, p, r)
  BY DEF AddProperty
<1> HIDE DEF t, s, x, p
<1>7. Given(t, MapOf(t, s), x, MapOf(t, s)[x.id])
  BY <1>3, <1>5 DEF Given
<1>8. Ends(t, r)
  BY <1>2, <1>3, <1>5, <1>7, AddEnds
<1>9. Meets(r, Contents(t, s, {}), Said(x))
  BY <1>1, <1>2, <1>3, <1>5, <1>7, AddMeets
<1> HIDE DEF r
<1>10. Ends(propTree, r) /\ Meets(r, maps[i], p)
  BY <1>1, <1>2, <1>4, <1>8, <1>9
<1>11. Ripped(r.tree, r.scope) \/ Contents(r.tree, r.scope, {}) \in Promise!After(maps[i])
  BY <1>6, <1>10, MeetsAfter
<1> QED
  BY <1>6, <1>10, <1>11, ReturnTells

LEMMA AddFormalTells ==
  ASSUME Anomalies = {}, MapsInv, NEW i \in DOMAIN scope, NEW id \in Hidden, NEW fault \in Faults,
         AddFormal(i, id, fault)
  PROVE  Promise!Next /\ MapsAre'
<1> DEFINE t == Faulty(fault)
           s == scope[i]
           x == Label(id, "formal", NoSlot, s.nargs)
           duplicate == SearchScope(propTree, s, id) # 0
           r == AddScopeProperty(t, s, x, duplicate)
           p == Property(id, "formal", s.nargs)
           M == MapOf(propTree, s)
<1>1. PropertiesInv /\ Latest(t, s) /\ maps[i] = Contents(t, s, {})
  BY FaultyTold
<1>2. /\ Usable(t) /\ Fits(t, s, {}) /\ (\A q : Ends(t, q) => Ends(propTree, q)) /\ s \in Scopes /\ MapOf(t, s) = M
  BY <1>1, FaultyFits
<1>3. id \in AllIds /\ s.nargs \in Nat /\ NoSlot \in Nat \cup {NoSlot}
  BY <1>2 DEF AllIds, Scopes
<1>4. x \in PropLabels /\ x.id = id /\ x.attr = "formal" /\ x.slot = NoSlot /\ Shared(x) /\ Said(x) = p
  BY <1>3 DEF Label, PropLabels, Shared, Said
<1>5. Grows(propTree) /\ Fits(propTree, s, {})
  BY <1>1 DEF Usable, PropertiesInv, ScopesFit
<1>6. \A n \in Mapped(propTree, s) : propTree.label[n].id \in Hidden
  BY DEF AddFormal
<1>7. \A jd \in AllIds : M[jd] # 0 => jd \in Hidden
  <2>1. ASSUME NEW jd \in AllIds, M[jd] # 0 PROVE jd \in Hidden
    <3>1. M[jd] \in Mapped(propTree, s)
      BY <2>1 DEF Mapped, MapOf
    <3>2. Mapping(propTree, Above(propTree, s.lastProp), M)
      BY <1>5 DEF Fits, Holds
    <3> QED
      BY <1>6, <2>1, <3>1, <3>2 DEF Mapping
  <2> QED
    BY <2>1
<1>8. M[id] # 0 <=> duplicate
  BY <1>3 DEF MapOf
<1>9. duplicate \in BOOLEAN
  OBVIOUS
<1>10. Returns("define", i, p, Bumped(r))
  BY DEF AddFormal
<1> HIDE DEF t, s, x, duplicate, M, p
<1>11. Given(t, MapOf(t, s), x, MapOf(t, s)[x.id])
  BY <1>2, <1>4, <1>7 DEF Given
<1>12. Ends(t, r)
  BY <1>2, <1>4, <1>8, <1>9, <1>11, AddEnds
<1>13. Meets(r, Contents(t, s, {}), Said(x))
  BY <1>1, <1>2, <1>4, <1>8, <1>9, <1>11, AddMeets
<1>14. Result(r)
  BY AddResult
<1> HIDE DEF r
<1>15. Meets(Bumped(r), maps[i], p) /\ Ends(t, Bumped(r))
  BY <1>1, <1>4, <1>12, <1>13, <1>14, BumpedMeets, BumpedEnds
<1>16. Ends(propTree, Bumped(r))
  BY <1>2, <1>15
<1>17. Ripped(Bumped(r).tree, Bumped(r).scope) \/ Contents(Bumped(r).tree, Bumped(r).scope, {}) \in Promise!After(maps[i])
  BY <1>10, <1>15, MeetsAfter
<1> QED
  BY <1>10, <1>16, <1>17, ReturnTells

LEMMA ChangeTells ==
  ASSUME Anomalies = {}, MapsInv, NEW i \in DOMAIN scope, NEW n \in Mapped(propTree, scope[i]),
         propTree.label[n].attr # "formal", NEW attr \in PropAttrs, attr = "shared" => Shared(propTree.label[n]),
         NEW fault \in Faults, Change(i, n, attr, fault)
  PROVE  Promise!Next /\ MapsAre'
<1> DEFINE t == Faulty(fault)
           s == scope[i]
           r == ChangeScopePropertyAttrs(t, s, n, attr)
           p == [PropertyOf(propTree, n) EXCEPT !.attr = attr]
<1>1. PropertiesInv /\ Latest(t, s) /\ maps[i] = Contents(t, s, {})
  BY FaultyTold
<1>2. /\ Usable(t) /\ Fits(t, s, {}) /\ (\A q : Ends(t, q) => Ends(propTree, q)) /\ MapOf(t, s) = MapOf(propTree, s)
      /\ t.label = propTree.label
  BY <1>1, FaultyFits
<1>3. n \in Mapped(t, s)
  <2>1. \A jd \in AllIds : SearchScope(t, s, jd) = SearchScope(propTree, s, jd)
    <3>1. \A jd \in AllIds : MapOf(t, s)[jd] = SearchScope(t, s, jd) /\ MapOf(propTree, s)[jd] = SearchScope(propTree, s, jd)
      BY DEF MapOf
    <3> QED
      BY <1>2, <3>1
  <2> HIDE DEF t
  <2> QED
    BY <2>1 DEF Mapped
<1>4. Returns("define", i, p, r)
  BY DEF Change
<1> HIDE DEF t
<1>5. PropertyOf(t, n) = PropertyOf(propTree, n)
  BY <1>2 DEF PropertyOf
<1>6. Ends(t, r)
  BY <1>2, <1>3, ChangeEnds
<1>7. Meets(r, Contents(t, s, {}), [PropertyOf(t, n) EXCEPT !.attr = attr])
  BY <1>1, <1>2, <1>3, ChangeMeets
<1> HIDE DEF r
<1>8. Ends(propTree, r) /\ Meets(r, maps[i], p)
  BY <1>1, <1>2, <1>5, <1>6, <1>7
<1> HIDE DEF p
<1>9. Ripped(r.tree, r.scope) \/ Contents(r.tree, r.scope, {}) \in Promise!After(maps[i])
  BY <1>4, <1>8, MeetsAfter
<1> QED
  BY <1>4, <1>8, <1>9, ReturnTells

LEMMA DeleteTells ==
  ASSUME Anomalies = {}, MapsInv, NEW i \in DOMAIN scope, NEW n \in Mapped(propTree, scope[i]),
         propTree.label[n].attr # "formal", NEW fault \in Faults, Delete(i, n, fault)
  PROVE  Promise!Next /\ MapsAre'
<1> DEFINE s == scope[i]
           r == Deleted(s, n, fault)
           p == PropertyOf(propTree, n)
           X == Contents(r.tree, r.scope, {})
<1>1. /\ Usable(propTree) /\ Grows(propTree) /\ Fits(propTree, s, {}) /\ Latest(propTree, s)
      /\ maps[i] = Contents(propTree, s, {})
  BY MapsTold
<1>2. Ends(propTree, r)
  BY <1>1, DeleteEnds
<1>3. Returns("delete", i, p, r)
  BY DEF Delete
<1>4. p.id = propTree.label[n].id
  BY DEF PropertyOf, Property
<1>5. n # 0
  BY DEF Mapped
<1>6. r.tree = propTree /\ (r.node = 0 => r.scope = s) /\ (r.node # 0 => r.scope = RemoveScopeProperty(propTree, s, n))
  BY <1>5 DEF Deleted
<1>7. Contents(propTree, RemoveScopeProperty(propTree, s, n), {}) = Promise!Without(maps[i], p.id)
  BY <1>1, <1>4, RemoveTells
<1> HIDE DEF r, s, p
<1>8. /\ r.node = 0 => X = maps[i]
      /\ r.node # 0 => X = Promise!Without(maps[i], p.id)
  BY <1>1, <1>6, <1>7
<1>9. /\ r.node # 0 => Promise!After(maps[i]) = {Promise!Without(maps[i], p.id)}
      /\ r.node = 0 => Promise!After(maps[i]) = {maps[i]}
  BY <1>3, AfterIs
<1>10. X \in Promise!After(maps[i])
  BY <1>8, <1>9
<1> QED
  BY <1>2, <1>3, <1>10, ReturnTells

LEMMA ClearTells ==
  ASSUME Anomalies = {}, MapsInv, NEW i \in DOMAIN scope, Clear(i)
  PROVE  Promise!Next /\ MapsAre'
<1> DEFINE u == Cleared(scope[i])
           r == [tree |-> propTree, scope |-> u, node |-> 1]
<1>1. Usable(propTree) /\ Grows(propTree) /\ scope[i] \in Scopes
  BY MapsTold DEF Fits
<1>2. scope[i].nargs \in Nat
  BY <1>1 DEF Scopes
<1>3. Fits(propTree, u, {})
  BY <1>1, <1>2, EmptyFits DEF Cleared
<1>4. Returns("clear", i, NoProperty, r)
  BY DEF Clear
<1>5. u.lastProp = 0
  BY DEF Cleared, InitMinimalScope
<1> HIDE DEF u
<1>6. r.tree = propTree /\ r.scope = u
  OBVIOUS
<1> HIDE DEF r
<1>7. Ends(propTree, r)
  BY <1>1, <1>3, <1>6, SameGrew DEF Ends
<1>8. Contents(r.tree, r.scope, {}) = <<>>
  <2>1. BoundIds(MapOf(propTree, u), {}) \in SUBSET AllIds
    BY BoundAre
  <2>2. Told(propTree, 0, BoundIds(MapOf(propTree, u), {})) = <<>>
    BY <1>1, <2>1, UsableIs, ToldIs
  <2> QED
    BY <1>5, <1>6, <2>2 DEF Contents
<1>9. Promise!After(maps[i]) = {<<>>}
  BY <1>4, AfterIs
<1>10. Contents(r.tree, r.scope, {}) \in Promise!After(maps[i])
  BY <1>8, <1>9
<1> QED
  BY <1>4, <1>7, <1>10, ReturnTells

\* A scope lists the same after a collection: the nodes that its line has
\* lost are nodes that it has not listed.
LEMMA SweptListed ==
  ASSUME NEW t, NEW u, NEW marked, SweptOff(t, u, marked), NEW s, Fits(t, s, {}), ~MapsFirstDuplicate(t, s),
         Marked(t, s) \subseteq marked
  PROVE  Properties(u, s) = Properties(t, s)
<1> DEFINE L == Above(t, s.lastProp)
           V == LiveNodes(u)
           P == {n \in Nodes \cup {0} : \A k \in V \cup {0} :
                   Above(u, k) = Above(t, n) \cap V => Listed(u, s, k) = Listed(t, s, n)}
<1>1. /\ Grows(t) /\ Grows(u) /\ V = LiveNodes(t) \cap marked /\ \A m \in V : u.label[m] = t.label[m]
  BY SweptIs DEF SweptOff, Usable
<1>2. /\ t.up \in [Nodes -> Nodes \cup {0}] /\ Rooting(t) /\ u.up \in [Nodes -> Nodes \cup {0}] /\ Rooting(u) /\ 0 \notin Nodes
      /\ \A n \in LiveNodes(t) : n \in Nodes /\ t.label[n].id \in AllIds
  BY <1>1, UsableIs
<1>3. /\ s.lastProp \in LiveNodes(t) \cup {0} /\ s.lastProp \in Nodes \cup {0}
      /\ L \subseteq LiveNodes(t) /\ Upward(t, L) /\ L \subseteq Nodes
      /\ s.lastProp \in L \cup {0}
  <2>1. s.lastProp \in LiveNodes(t) \cup {0} /\ s.lastProp \in Nodes \cup {0}
    BY <1>2 DEF Fits
  <2>2. L \subseteq LiveNodes(t)
    BY <1>1, <2>1, UsableIs, LiveLine
  <2>3. Upward(t, L) /\ L \subseteq Nodes
    BY <1>2, <2>1, LineIs
  <2>4. s.lastProp \in L \cup {0}
    BY <1>2, <2>1, LineIs
  <2> QED
    BY <2>1, <2>2, <2>3, <2>4
<1>4. Marks(t, s, marked)
  BY <1>3 DEF Marks, Marked
<1>5. /\ Fits(u, s, {}) /\ MapOf(u, s) = MapOf(t, s) /\ Above(u, s.lastProp) = L \cap V
  BY <1>4, SweptFits
<1>6. \A n \in L \cap V : Seen(u, s, n) <=> Seen(t, s, n)
  <2>1. ASSUME NEW n \in L \cap V PROVE Seen(u, s, n) <=> Seen(t, s, n)
    <3>1. t.label[n].id \in AllIds /\ u.label[n] = t.label[n]
      BY <1>1, <1>2, <1>3
    <3>2. \A id \in AllIds : SearchScope(u, s, id) = SearchScope(t, s, id)
      <4>1. \A id \in AllIds : MapOf(u, s)[id] = SearchScope(u, s, id) /\ MapOf(t, s)[id] = SearchScope(t, s, id)
        BY DEF MapOf
      <4> QED
        BY <1>5, <4>1
    <3> HIDE DEF V, L
    <3> QED
      BY <3>1, <3>2 DEF HasProperty, Seen
  <2> QED
    BY <2>1
<1>7. \A n \in L : n \in V \/ ~Seen(t, s, n)
  BY <1>1, <1>3, <1>4 DEF Marks, Seen
<1>8. /\ \A n \in Nodes : Above(t, n) = {n} \cup Above(t, t.up[n]) /\ n \notin Above(t, t.up[n])
      /\ \A n \in Nodes : Above(u, n) = {n} \cup Above(u, u.up[n]) /\ n \notin Above(u, u.up[n])
      /\ Above(t, 0) = {} /\ Above(u, 0) = {}
      /\ \A n \in V : Above(u, n) = Above(t, n) \cap V
  <2>1. \A n \in Nodes : n \notin Above(t, t.up[n]) /\ n \notin Above(u, u.up[n])
    BY <1>2, LineIs
  <2>2. \A n \in V : Above(u, n) = Above(t, n) \cap V
    BY DEF SweptOff
  <2> QED
    BY <1>2, <2>1, <2>2, AboveIs
<1>9. V \subseteq Nodes /\ \A k \in V : u.up[k] \in V \cup {0}
  BY <1>1, UsableIs, LiveLine
<1>10. \A k, n \in V : Above(u, k) = Above(u, n) => k = n
  <2>1. ASSUME NEW k \in V, NEW n \in V, Above(u, k) = Above(u, n) PROVE k = n
    <3>1. k \in Above(u, n) /\ n \in Above(u, k)
      BY <1>8, <1>9, <2>1
    <3> QED
      BY <1>2, <1>9, <3>1, LineIs
  <2> QED
    BY <2>1
<1> HIDE DEF L, V
<1>11. 0 \in P
  <2>1. ASSUME NEW k \in V \cup {0}, Above(u, k) = {} PROVE k = 0
    BY <1>8, <1>9, <2>1
  <2>2. Listed(u, s, 0) = <<>> /\ Listed(t, s, 0) = <<>>
    BY <1>2, ListedIs
  <2> QED
    BY <1>8, <2>1, <2>2
<1>12. ASSUME NEW n \in L, t.up[n] \in P PROVE n \in P
  <2>1. n \in Nodes
    BY <1>3
  <2>2. SUFFICES ASSUME NEW k \in V \cup {0}, Above(u, k) = Above(t, n) \cap V
                 PROVE  Listed(u, s, k) = Listed(t, s, n)
    BY <2>1
  <2>3. CASE n \notin V
    <3>1. Above(u, k) = Above(t, t.up[n]) \cap V
      BY <1>8, <2>1, <2>2, <2>3
    <3>2. Listed(u, s, k) = Listed(t, s, t.up[n])
      BY <1>12, <3>1
    <3>3. ~Seen(t, s, n)
      BY <1>7, <2>3
    <3>4. Listed(t, s, n) = Listed(t, s, t.up[n])
      BY <1>2, <2>1, <3>3, ListedIs, SMTT(30)
    <3> QED
      BY <3>2, <3>4
  <2>4. CASE n \in V
    <3>1. k = n
      <4>1. Above(u, k) = Above(u, n) /\ n \in Above(u, n)
        BY <1>8, <2>1, <2>2, <2>4
      <4>2. k # 0
        BY <1>8, <4>1
      <4> QED
        BY <1>10, <2>4, <4>1, <4>2
    <3>2. Above(u, u.up[n]) = Above(t, t.up[n]) \cap V
      <4>1. {n} \cup Above(u, u.up[n]) = ({n} \cup Above(t, t.up[n])) \cap V
        BY <1>8, <2>1, <2>4
      <4>2. n \notin Above(u, u.up[n]) /\ n \notin Above(t, t.up[n])
        BY <1>8, <2>1
      <4> QED
        BY <4>1, <4>2
    <3>3. Listed(u, s, u.up[n]) = Listed(t, s, t.up[n])
      BY <1>9, <1>12, <2>4, <3>2
    <3>4. PropertyOf(u, n) = PropertyOf(t, n)
      BY <1>1, <2>4 DEF PropertyOf
    <3>5. Seen(u, s, n) <=> Seen(t, s, n)
      BY <1>6, <2>4
    <3>6. /\ Seen(t, s, n) => Listed(t, s, n) = Append(Listed(t, s, t.up[n]), PropertyOf(t, n))
          /\ ~Seen(t, s, n) => Listed(t, s, n) = Listed(t, s, t.up[n])
      BY <1>2, <2>1, ListedIs
    <3>7. /\ Seen(u, s, n) => Listed(u, s, n) = Append(Listed(u, s, u.up[n]), PropertyOf(u, n))
          /\ ~Seen(u, s, n) => Listed(u, s, n) = Listed(u, s, u.up[n])
      BY <1>2, <2>1, ListedIs
    <3> QED
      BY <3>1, <3>3, <3>4, <3>5, <3>6, <3>7
  <2> QED
    BY <2>3, <2>4
<1> DEFINE Q == P
<1>13. 0 \in Q /\ \A n \in L : t.up[n] \in Q => n \in Q
  BY <1>11, <1>12
<1>14. \A n \in Q : \A k \in V \cup {0} : Above(u, k) = Above(t, n) \cap V => Listed(u, s, k) = Listed(t, s, n)
  OBVIOUS
<1> HIDE DEF Q
<1>15. L \subseteq Q
  BY <1>2, <1>3, <1>13, LineInduction
<1>16. s.lastProp \in Q /\ s.lastProp \in V \cup {0}
  BY <1>3, <1>5, <1>13, <1>15 DEF Fits, V
<1>17. Listed(u, s, s.lastProp) = Listed(t, s, s.lastProp)
  BY <1>5, <1>14, <1>16 DEF L
<1> QED
  BY <1>17 DEF Properties

LEMMA SweepTells ==
  ASSUME MapsInv, NEW addresses \in AddressOrders, NEW fault \in Faults, Sweep(addresses, fault)
  PROVE  Promise!Next /\ MapsAre'
<1> DEFINE f == Faulty(fault)
           marked == MarkedNodes
           t == SweepScopeProperties(f, marked, addresses)
           u == propTree'
<1>1. /\ PropertiesInv /\ Usable(propTree) /\ f = [propTree EXCEPT !.fault = fault] /\ fault \in Failures \cup {"crash"}
      /\ "none" \in Failures \cup {"crash"}
  BY PropertyAssumption DEF MapsInv, PropertiesInv, Faulty, Failures
<1>2. u = [t EXCEPT !.fault = "none"] /\ scope' = scope /\ call'.scope = 0
      /\ maps' = [j \in DOMAIN scope |-> Properties(t, scope[j])]
  BY DEF Sweep
<1> HIDE DEF f
<1>3. Usable(f) /\ Grows(propTree) /\ Grows(f) /\ Grew(propTree, f) /\ LiveNodes(f) = LiveNodes(propTree)
  BY <1>1, FaultSet DEF Usable
<1>4. SweptOff(f, t, marked)
  BY <1>3, SweepIs
<1> HIDE DEF t, u
<1>5. \A i \in DOMAIN scope : /\ Fits(propTree, scope[i], {}) /\ ~MapsFirstDuplicate(propTree, scope[i])
                              /\ Marked(propTree, scope[i]) \subseteq marked
  BY <1>1 DEF PropertiesInv, ScopesFit, MarkLine, Marked, MarkedNodes
<1>6. marked \subseteq LiveNodes(f)
  <2>1. ASSUME NEW i \in DOMAIN scope PROVE Above(propTree, scope[i].lastProp) \subseteq LiveNodes(propTree)
    <3>1. scope[i].lastProp \in LiveNodes(propTree) \cup {0}
      BY <1>5 DEF Fits
    <3> QED
      BY <1>3, <3>1, UsableIs, LiveLine
  <2> QED
    BY <1>3, <2>1 DEF MarkedNodes, MarkLine
<1> HIDE DEF marked
<1>7. Usable(t) /\ Grows(t)
  <2>1. LiveNodes(t) = LiveNodes(f) \cap marked /\ FormalsFirst(t)
    BY <1>4, SweptIs
  <2>2. Grows(t)
    BY <1>4 DEF SweptOff
  <2> QED
    BY <2>1, <2>2 DEF Usable
<1>8. Usable(u) /\ Grows(u) /\ Grew(t, u)
  BY <1>1, <1>2, <1>7, FaultSet
<1>9. ASSUME NEW i \in DOMAIN scope
      PROVE  Properties(t, scope[i]) = maps[i] /\ Properties(u, scope[i]) = maps[i]
  <2>1. Fits(f, scope[i], {}) /\ ~MapsFirstDuplicate(f, scope[i]) /\ Marked(f, scope[i]) = Marked(propTree, scope[i])
    BY <1>1, <1>5, FaultedScope
  <2>2. maps[i] = Contents(propTree, scope[i], {})
    BY MapsTold
  <2>3. Properties(f, scope[i]) = maps[i]
    BY <1>3, <1>5, <2>2, PropertiesGrown
  <2>4. Properties(t, scope[i]) = Properties(f, scope[i])
    BY <1>4, <1>5, <2>1, SweptListed
  <2>5. Fits(t, scope[i], {}) /\ ~MapsFirstDuplicate(t, scope[i])
    BY <1>4, <1>5, <2>1, SweptScope
  <2>6. Properties(u, scope[i]) = Properties(t, scope[i])
    BY <1>7, <1>8, <2>5, PropertiesGrown
  <2> QED
    BY <2>3, <2>4, <2>6
<1>10. maps = [j \in DOMAIN scope |-> maps[j]] /\ 0 \notin DOMAIN scope
  BY DEF MapsInv, MapsAre
<1>11. maps' = maps
  BY <1>2, <1>9, <1>10
<1>12. Promise!Next
  BY <1>2, <1>11 DEF Promise!Next
<1>13. maps' = [j \in DOMAIN scope |-> Properties(u, scope[j])]
  BY <1>9, <1>10, <1>11
<1> QED
  BY <1>2, <1>10, <1>12, <1>13 DEF MapsAre, u

LEMMA InitTells ==
  ASSUME PropertiesInit
  PROVE  MapsInv
<1>1. PICK n \in Nat : NewScopes(n)
  BY DEF PropertiesInit
<1>2. propTree = EmptyTree /\ scope = [i \in 1..n |-> InitMinimalScope] /\ maps = [i \in 1..n |-> <<>>]
  BY <1>1 DEF NewScopes
<1>3. PropertiesInv
  BY InitKeeps
<1>4. Grows(propTree)
  BY <1>3 DEF PropertiesInv, Usable
<1>5. InitMinimalScope.lastProp = 0
  BY DEF InitMinimalScope
<1>6. Properties(propTree, InitMinimalScope) = <<>>
  BY <1>4, <1>5, UsableIs, ListedIs DEF Properties
<1>7. DOMAIN scope = 1..n /\ \A i \in 1..n : scope[i] = InitMinimalScope
  BY <1>2
<1>8. maps = [j \in DOMAIN scope |-> Properties(propTree, scope[j])]
  BY <1>2, <1>6, <1>7
<1>9. 0 \notin DOMAIN scope
  BY <1>7
<1> QED
  BY <1>3, <1>8, <1>9 DEF MapsInv, MapsAre

LEMMA NextTells ==
  ASSUME Anomalies = {}, MapsInv, [PropertiesNext]_propVars
  PROVE  [Promise!Next]_<<maps, call>> /\ MapsInv'
<1>1. PropertiesInv'
  BY NextKeeps DEF MapsInv
<1>2. CASE UNCHANGED propVars
  <2>1. UNCHANGED <<maps, call>> /\ MapsAre'
    BY <1>2 DEF propVars, MapsInv, MapsAre
  <2> QED
    BY <1>1, <2>1 DEF MapsInv
<1>3. ASSUME NEW i \in DOMAIN scope, NEW fault \in Faults, NEW id \in Ids, NEW attr \in PropAttrs,
             AddProperty(i, id, attr, fault)
      PROVE  Promise!Next /\ MapsAre'
  BY <1>3, AddPropertyTells
<1>4. ASSUME NEW i \in DOMAIN scope, NEW fault \in Faults, NEW id \in Hidden, AddFormal(i, id, fault)
      PROVE  Promise!Next /\ MapsAre'
  BY <1>4, AddFormalTells
<1>5. ASSUME NEW i \in DOMAIN scope, NEW fault \in Faults, NEW n \in Mapped(propTree, scope[i]),
             propTree.label[n].attr # "formal", NEW attr \in PropAttrs,
             attr = "shared" => Shared(propTree.label[n]), Change(i, n, attr, fault)
      PROVE  Promise!Next /\ MapsAre'
  BY <1>5, ChangeTells
<1>6. ASSUME NEW i \in DOMAIN scope, NEW fault \in Faults, NEW n \in Mapped(propTree, scope[i]),
             propTree.label[n].attr # "formal", Delete(i, n, fault)
      PROVE  Promise!Next /\ MapsAre'
  BY <1>6, DeleteTells
<1>7. ASSUME NEW i \in DOMAIN scope, Clear(i) PROVE Promise!Next /\ MapsAre'
  BY <1>7, ClearTells
<1>8. ASSUME NEW addresses \in AddressOrders, NEW fault \in Faults, Sweep(addresses, fault)
      PROVE  Promise!Next /\ MapsAre'
  BY <1>8, SweepTells
<1>9. ASSUME NEW i \in DOMAIN scope, Operations(i) PROVE Promise!Next /\ MapsAre'
  BY <1>3, <1>4, <1>5, <1>6, <1>7, <1>9 DEF Operations
<1>10. CASE PropertiesNext
  <2>1. Promise!Next /\ MapsAre'
    BY <1>8, <1>9, <1>10 DEF PropertiesNext
  <2> QED
    BY <1>1, <2>1 DEF MapsInv
<1> QED
  BY <1>2, <1>10

\* Every call and every collection takes a step that the maps of scopes
\* promise: it defines, deletes or clears in the one scope it is called for,
\* in the order of its line, and whatever fails on the way, the others keep
\* what they have.
THEOREM ScopesStayMaps ==
  ASSUME Anomalies = {}
  PROVE  PropertiesSpec => ScopesAreMaps
<1>1. PropertiesInit => MapsInv
  BY InitTells
<1>2. MapsInv /\ [PropertiesNext]_propVars => MapsInv'
  BY NextTells
<1>3. MapsInv /\ [PropertiesNext]_propVars => [Promise!Next]_<<maps, call>>
  BY NextTells
<1> QED
  BY <1>1, <1>2, <1>3, PTL DEF PropertiesSpec, ScopesAreMaps, Promise!Spec
=============================================================================
