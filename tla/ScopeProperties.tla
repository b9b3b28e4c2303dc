--------------------------- MODULE ScopeProperties ---------------------------
(***************************************************************************)
(* The scopes that stand on the property tree: a scope ends at lastProp    *)
(* and maps ids either by its line in the tree or, once it has Threshold   *)
(* properties or one was deleted from the middle, by a table.  A property  *)
(* is its id, its attributes, the slot of its value and, for a formal      *)
(* parameter, which may be a duplicate of another one, its index.          *)
(*                                                                         *)
(* Left out: sealed scopes, aliases, watchpoints, and the size of a table. *)
(***************************************************************************)
EXTENDS Integers, PropertyTree

CONSTANTS Ids, Hidden,         \* ids of properties, and of formal parameters
          PropAttrs, Functions, Threshold,
          Faults, Anomalies, MaxCalls

VARIABLES propTree, scope, maps, call, calls

propVars == <<propTree, scope, maps, call, calls>>

NoSlot == -1
AllIds == Ids \cup Hidden
Label(id, attr, slot, index) == [id |-> id, attr |-> attr, slot |-> slot, index |-> index]
PropLabels == [id : AllIds, attr : PropAttrs \cup {"formal"}, slot : Nat \cup {NoSlot}, index : Nat]

ASSUME PropertyAssumption ==
  /\ IsFiniteSet(AllIds) /\ Ids \cap Hidden = {}
  /\ "formal" \notin PropAttrs /\ NoLabel \notin PropLabels
  /\ Faults \subseteq Failures

Shared(label) == label.attr \in {"shared", "formal"}
ValidSlot(s, label) == label.slot # NoSlot /\ label.slot < s.freeslot

InitMinimalScope == [lastProp |-> 0, hashed |-> FALSE, table |-> [id \in AllIds |-> 0], count |-> 0,
                     middle |-> FALSE, freeslot |-> 0, nargs |-> 0]
-----------------------------------------------------------------------------
(* The first node with this id on the way from a node to the root.         *)
SearchLine(t, node, id) ==
  LET from[n \in Nodes \cup {0}] == IF n = 0 \/ t.label[n].id = id THEN n ELSE from[t.up[n]] IN
  from[node]
SearchScope(t, s, id) == IF s.hashed THEN s.table[id] ELSE SearchLine(t, s.lastProp, id)

HasProperty(t, s, n) == SearchScope(t, s, t.label[n].id) = n

(* Nodes are stored from the last one to the first one.                    *)
FirstOr(table, label, n) == [table EXCEPT ![label.id] = IF @ = 0 THEN n ELSE @]
CreateScopeTable(t, s) ==
  LET table[n \in Nodes \cup {0}] == IF n = 0 THEN InitMinimalScope.table
                                     ELSE FirstOr(table[t.up[n]], t.label[n], n)
  IN [s EXCEPT !.hashed = TRUE, !.table = table[s.lastProp]]

Store(s, id, n) == IF s.hashed THEN [s EXCEPT !.table[id] = n] ELSE s

SetMiddleDeleteNowhere(s) == s
SetMiddleDelete(s) == [s EXCEPT !.middle = TRUE]

(* The first node of a line that the scope still has.                      *)
LastOf(t, s, node) ==
  LET from[n \in Nodes \cup {0}] ==
        IF n = 0 \/ ~s.middle \/ HasProperty(t, s, n) THEN n ELSE from[t.up[n]]
  IN from[node]
RemoveLastProp(t, s) == [s EXCEPT !.lastProp = LastOf(t, s, t.up[s.lastProp])]

(* After deletions from the middle the line is forked where a node is      *)
(* missing from the scope, from the root on, and ends up dense.            *)
Forked(a, n, label, g) ==
  CASE a.tree.up[n] = a.at -> [a EXCEPT !.at = n]
    [] a.tree.up[n] # a.at /\ g.node # 0 ->
         [tree |-> g.tree, scope |-> Store(a.scope, label.id, g.node), at |-> g.node, ok |-> TRUE]
    [] OTHER -> [a EXCEPT !.tree = g.tree, !.ok = FALSE]
Fork(a, s, n) ==
  IF ~a.ok \/ SearchScope(a.tree, s, a.tree.label[n].id) = 0 THEN a
  ELSE Forked(a, n, a.tree.label[n], GetPropertyTreeChild(a.tree, a.at, a.tree.label[n]))
ForkLine(start, t, s) ==
  LET fork[n \in Above(t, s.lastProp) \cup {0}] == IF n = 0 THEN start ELSE Fork(fork[t.up[n]], s, n)
  IN fork[s.lastProp]

Dense(a) == IF a.ok THEN [a EXCEPT !.scope.lastProp = a.at, !.scope.middle = FALSE] ELSE a
Squeeze(t, s) ==
  LET start == [tree |-> t, scope |-> s, at |-> 0, ok |-> TRUE] IN
  CASE ~s.middle -> start
    [] s.middle /\ s.count = 0 -> [start EXCEPT !.scope.middle = FALSE]
    [] s.middle /\ s.count # 0 /\ t.fault = "vector" -> [start EXCEPT !.ok = FALSE]
    [] OTHER -> Dense(ForkLine(start, t, s))

AllocSlot(t, s, label) ==
  IF Shared(label) THEN [scope |-> s, label |-> [label EXCEPT !.slot = NoSlot], ok |-> TRUE]
  ELSE IF label.slot # NoSlot THEN [scope |-> s, label |-> label, ok |-> TRUE]
  ELSE IF t.fault = "slot" THEN [scope |-> s, label |-> label, ok |-> FALSE]
  ELSE [scope |-> [s EXCEPT !.freeslot = @ + 1], label |-> [label EXCEPT !.slot = s.freeslot],
        ok |-> TRUE]
-----------------------------------------------------------------------------
(* A property that was to be overwritten comes back, as the last one if it *)
(* has left the line.                                                      *)
Back(t, s, id, n) == [tree |-> t, scope |-> [Store(s, id, n) EXCEPT !.count = @ + 1], node |-> 0]
BackLast(t, s, id, n) == Back(t, [s EXCEPT !.lastProp = n], id, n)
BackForked(s, id, g) ==
  IF g.node = 0 THEN [tree |-> g.tree, scope |-> s, node |-> 0] ELSE BackLast(g.tree, s, id, g.node)
FailOverwrite(t, s, over) ==
  IF over = 0 THEN [tree |-> t, scope |-> s, node |-> 0]
  ELSE IF over \in Above(t, s.lastProp) THEN Back(t, s, t.label[over].id, over)
  ELSE IF t.up[over] = s.lastProp THEN BackLast(t, s, t.label[over].id, over)
  ELSE BackForked(s, t.label[over].id, GetPropertyTreeChild(t, s.lastProp, t.label[over]))

(* The line, a slot and the node, in this order, each of which may fail.   *)
MakeTable(t, s) == IF ~s.hashed /\ s.count >= Threshold /\ t.fault # "table"
                   THEN CreateScopeTable(t, s) ELSE s
Appended(g, s, id, over) ==
  IF g.node = 0 THEN FailOverwrite(g.tree, s, over)
  ELSE [tree |-> g.tree, node |-> g.node,
        scope |-> MakeTable(g.tree, [Store(s, id, g.node) EXCEPT !.count = @ + 1, !.lastProp = g.node])]
DefineNode(t, slotted, over) ==
  IF ~slotted.ok THEN FailOverwrite(t, slotted.scope, over)
  ELSE Appended(GetPropertyTreeChild(t, slotted.scope.lastProp, slotted.label), slotted.scope,
                slotted.label.id, over)
DefineSlot(squeezed, label, over) ==
  IF ~squeezed.ok THEN FailOverwrite(squeezed.tree, squeezed.scope, over)
  ELSE DefineNode(squeezed.tree, AllocSlot(squeezed.tree, squeezed.scope, label), over)
Define(t, s, label, over) == DefineSlot(Squeeze(t, s), label, over)

(* The scope without the property that is overwritten: a duplicate formal  *)
(* leaves it on the line, the last property leaves the line at once.       *)
Gone(t, s, n, duplicate) ==
  IF duplicate THEN s ELSE IF n = s.lastProp THEN RemoveLastProp(t, s)
  ELSE SetMiddleDelete(IF s.hashed \/ s.middle THEN s ELSE CreateScopeTable(t, s))
Shrunk(s, id) == [Store(s, id, 0) EXCEPT !.count = @ - 1]
Overwritten(t, s, n, duplicate) == Shrunk(Gone(t, s, n, duplicate), t.label[n].id)

(* A property that has a slot already keeps it.                            *)
Relabelled(t, s, n, given) ==
  IF n # 0 /\ ~Shared(given) /\ given.slot = NoSlot /\ ValidSlot(s, t.label[n])
  THEN [given EXCEPT !.slot = t.label[n].slot] ELSE given
AddOrReplace(t, s, n, label, duplicate) ==
  CASE n # 0 /\ t.label[n] = label -> [tree |-> t, scope |-> s, node |-> n]
    [] n # 0 /\ t.label[n] # label /\ n # s.lastProp /\ ~duplicate /\ ~s.hashed /\ t.fault = "table" ->
         [tree |-> t, scope |-> s, node |-> 0]
    [] OTHER -> Define(t, IF n = 0 THEN s ELSE Overwritten(t, s, n, duplicate), label, n)
AddOver(t, s, n, given, duplicate) == AddOrReplace(t, s, n, Relabelled(t, s, n, given), duplicate)
AddScopeProperty(t, s, given, duplicate) ==
  AddOver(t, s, SearchScope(t, s, given.id), given, duplicate)

(* The last property is replaced by a sibling, any other one is added.     *)
Sibling(s, id, g) ==
  [tree |-> g.tree, node |-> g.node,
   scope |-> IF g.node = 0 THEN s ELSE [Store(s, id, g.node) EXCEPT !.lastProp = g.node]]
ChangeLast(t, n, slotted) ==
  IF ~slotted.ok THEN [tree |-> t, scope |-> slotted.scope, node |-> 0]
  ELSE Sibling(slotted.scope, slotted.label.id, GetPropertyTreeChild(t, t.up[n], slotted.label))
ChangeTo(t, s, n, label) ==
  IF label = t.label[n] THEN [tree |-> t, scope |-> s, node |-> n]
  ELSE IF n # s.lastProp THEN AddScopeProperty(t, s, label, FALSE)
  ELSE ChangeLast(t, n, IF Shared(t.label[n]) /\ ~Shared(label) THEN AllocSlot(t, s, label)
                        ELSE [scope |-> s, label |-> label, ok |-> TRUE])
ChangeScopePropertyAttrs(t, s, n, attr) == ChangeTo(t, s, n, [t.label[n] EXCEPT !.attr = attr])

FreeSlot(s, label) ==
  IF ValidSlot(s, label) /\ s.freeslot = label.slot + 1 THEN [s EXCEPT !.freeslot = label.slot] ELSE s
RemoveScopeProperty(t, s, n) ==
  IF n = s.lastProp THEN RemoveLastProp(t, Shrunk(FreeSlot(s, t.label[n]), t.label[n].id))
  ELSE SetMiddleDelete(Shrunk(FreeSlot(IF s.hashed THEN s ELSE CreateScopeTable(t, s), t.label[n]),
                              t.label[n].id))
-----------------------------------------------------------------------------
Property(id, attr, index) == [id |-> id, attr |-> attr, index |-> index]
PropertyOf(t, n) == Property(t.label[n].id, t.label[n].attr, t.label[n].index)
NoProperty == Property(0, "none", 0)

(* What a scope maps, in the order of its line.  Like js_Enumerate it only *)
(* looks a node up if one was deleted from the middle or it may have a     *)
(* duplicate.                                                              *)
Mapped(t, s) == {SearchScope(t, s, id) : id \in AllIds} \ {0}
Seen(t, s, n) == s.middle \/ t.label[n].attr = "formal" => HasProperty(t, s, n)
Listed(t, s, node) ==
  LET upTo[n \in Nodes \cup {0}] ==
        IF n = 0 THEN <<>>
        ELSE IF Seen(t, s, n) THEN Append(upTo[t.up[n]], PropertyOf(t, n)) ELSE upTo[t.up[n]]
  IN upTo[node]
Properties(t, s) == Listed(t, s, s.lastProp)

(* Two things go wrong in the code, and only behaviours whose Anomalies    *)
(* allow them go on from there: a scope whose line was forked half-way     *)
(* maps an id to a node that is not on its line, and a table that is made  *)
(* over duplicate formals maps the first one of them.                      *)
Torn(t, s) == s.hashed /\ ~(Range(s.table) \subseteq Above(t, s.lastProp) \cup {0})
MapsFirstDuplicate(t, s) ==
  /\ s.hashed
  /\ \E m \in Above(t, s.lastProp) : \E n \in Above(t, t.up[m]) :
       t.label[m].id = t.label[n].id /\ s.table[t.label[n].id] = n

Usual(t, s) == /\ t.fault # "crash"
               /\ "torn" \in Anomalies \/ ~Torn(t, s)
               /\ "duplicates" \in Anomalies \/ ~MapsFirstDuplicate(t, s)

Faulty(fault) == [propTree EXCEPT !.fault = fault]

(* The call op on scope i for property p has ended in the tree and the     *)
(* scope of r, with a node if it has succeeded.                            *)
Returns(op, i, p, r) ==
  /\ calls' = calls + 1
  /\ Usual(r.tree, r.scope)
  /\ propTree' = [r.tree EXCEPT !.fault = "none"]
  /\ scope' = [scope EXCEPT ![i] = r.scope]
  /\ maps' = [j \in DOMAIN scope |-> Properties(r.tree, IF j = i THEN r.scope ELSE scope[j])]
  /\ call' = [op |-> op, scope |-> i, property |-> p, ok |-> r.node # 0]

AddProperty(i, id, attr, fault) ==
  \E r \in {AddScopeProperty(Faulty(fault), scope[i], Label(id, attr, NoSlot, 0), FALSE)} :
    Returns("define", i, Property(id, attr, 0), r)

(* The parameters of a function come before any other property of it.      *)
Bumped(r) == IF r.node = 0 THEN r ELSE [r EXCEPT !.scope.nargs = @ + 1]
AddFormal(i, id, fault) ==
  /\ \A n \in Mapped(propTree, scope[i]) : propTree.label[n].id \in Hidden
  /\ \E r \in {Bumped(AddScopeProperty(Faulty(fault), scope[i],
                                       Label(id, "formal", NoSlot, scope[i].nargs),
                                       SearchScope(propTree, scope[i], id) # 0))} :
       Returns("define", i, Property(id, "formal", scope[i].nargs), r)

Change(i, n, attr, fault) ==
  \E r \in {ChangeScopePropertyAttrs(Faulty(fault), scope[i], n, attr)} :
    Returns("define", i, [PropertyOf(propTree, n) EXCEPT !.attr = attr], r)

Deleted(s, n, fault) ==
  IF ~s.hashed /\ n # s.lastProp /\ fault = "table" THEN [tree |-> propTree, scope |-> s, node |-> 0]
  ELSE [tree |-> propTree, scope |-> RemoveScopeProperty(propTree, s, n), node |-> n]
Delete(i, n, fault) ==
  \E r \in {Deleted(scope[i], n, fault)} : Returns("delete", i, PropertyOf(propTree, n), r)

Cleared(s) == [InitMinimalScope EXCEPT !.nargs = s.nargs]
Clear(i) == Returns("clear", i, NoProperty, [tree |-> propTree, scope |-> Cleared(scope[i]), node |-> 1])

(* js_Mark leaves out what was deleted from the middle of a line.          *)
MarkLine(s) == {n \in Above(propTree, s.lastProp) : s.middle => HasProperty(propTree, s, n)}
MarkedNodes == UNION {MarkLine(scope[i]) : i \in DOMAIN scope}

Sweep(addresses, fault) ==
  \E t \in {SweepScopeProperties(Faulty(fault), MarkedNodes, addresses)} :
    /\ t.fault # "crash"
    /\ propTree' = [t EXCEPT !.fault = "none"]
    /\ UNCHANGED <<scope, calls>>
    /\ maps' = [j \in DOMAIN scope |-> Properties(t, scope[j])]
    /\ call' = [op |-> "collect", scope |-> 0, property |-> NoProperty, ok |-> TRUE]

NoCall == [op |-> "none", scope |-> 0]

NewScopes(n) == /\ propTree = EmptyTree /\ scope = [i \in 1..n |-> InitMinimalScope] /\ calls = 0
                /\ maps = [i \in 1..n |-> <<>>] /\ call = NoCall
PropertiesInit == \E n \in Nat : NewScopes(n)

(* The scopes have got their properties one after the other, without a     *)
(* failure.                                                                *)
PutProperty(a, label) == AddScopeProperty(a.tree, a.scope, label, FALSE)
Fill(a, line) ==
  LET b == FoldLeft(PutProperty, [tree |-> a.tree, scope |-> InitMinimalScope, node |-> 0], line) IN
  [tree |-> b.tree, scopes |-> Append(a.scopes, b.scope)]
Load(lines) ==
  \E built \in {FoldLeft(Fill, [tree |-> EmptyTree, scopes |-> <<>>], lines)} :
    /\ propTree = built.tree /\ scope = built.scopes /\ calls = 0
    /\ maps = [i \in DOMAIN scope |-> Properties(propTree, scope[i])]
    /\ call = NoCall

AddressOrders == {[k \in Nodes |-> k], [k \in Nodes |-> NumNodes + 1 - k]}

Operations(i) ==
  \/ \E fault \in Faults :
       \/ \E id \in Ids, attr \in PropAttrs : AddProperty(i, id, attr, fault)
       \/ i \in Functions /\ \E id \in Hidden : AddFormal(i, id, fault)
       \/ \E n \in Mapped(propTree, scope[i]) : propTree.label[n].attr # "formal" /\
            \/ \E attr \in PropAttrs : /\ attr = "shared" => Shared(propTree.label[n])
                                   /\ Change(i, n, attr, fault)
            \/ Delete(i, n, fault)
  \/ Clear(i)

PropertiesNext ==
  \/ calls < MaxCalls /\ \E i \in DOMAIN scope : Operations(i)
  \/ \E addresses \in AddressOrders, fault \in Faults \cap {"none", "hash", "chunk"} :
       Sweep(addresses, fault)

PropertiesSpec == PropertiesInit /\ [][PropertiesNext]_propVars
-----------------------------------------------------------------------------
ScopeSound(s, line, mapped) ==
  LET own == {propTree.label[n] : n \in {n \in mapped : ~Shared(propTree.label[n])}} IN
  /\ line \subseteq LiveNodes(propTree)
  /\ mapped \subseteq line
  /\ s.count = Cardinality(mapped)
  /\ s.lastProp # 0 => s.lastProp \in mapped
  /\ s.middle => s.hashed
  /\ ~s.middle => \A n \in line \ mapped : propTree.label[n].attr = "formal"
  /\ \A l \in own : ValidSlot(s, l)
  /\ Cardinality({l.slot : l \in own}) = Cardinality(own)

(* Every link of the tree has its counterpart, a collection keeps what is  *)
(* marked and nothing else, and what a scope maps is on its line.          *)
TreeSound ==
  /\ LinksSound(propTree)
  /\ \A i \in DOMAIN scope :
       ScopeSound(scope[i], Above(propTree, scope[i].lastProp), Mapped(propTree, scope[i]))
  /\ call.op = "collect" => LiveNodes(propTree) = MarkedNodes

Promise == INSTANCE PropertyMaps

ScopesAreMaps == Promise!Spec

(* A name that a function has for two of its parameters means the last one *)
(* of them, also once the scope has got a table.                           *)
LastDuplicateMapped == \A i \in DOMAIN scope : ~MapsFirstDuplicate(propTree, scope[i])
=============================================================================
