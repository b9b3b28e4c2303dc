---------------------------- MODULE PropertyMaps ----------------------------
(***************************************************************************)
(* What the scopes of a runtime promise: each one is a map of its own that *)
(* keeps its properties in the order they were defined in, whatever other  *)
(* scopes do and whatever is collected.  call is the call that has just    *)
(* returned.                                                               *)
(***************************************************************************)
EXTENDS Integers, Sequences

VARIABLES maps, call

Without(map, id) ==
  LET kept[n \in 0..Len(map)] ==
        IF n = 0 THEN <<>> ELSE IF map[n].id = id THEN kept[n - 1] ELSE Append(kept[n - 1], map[n])
  IN kept[Len(map)]
Bound(map, id) == {map[k] : k \in {j \in DOMAIN map : map[j].id = id}}

(* A property that is defined again is the last one then, unless nothing   *)
(* about it changes.  A call that runs out of memory while it replaces a   *)
(* property leaves the old one in its place, as the last one or not at all.*)
Defined(map, p) == IF p \in Bound(map, p.id) THEN map ELSE Append(Without(map, p.id), p)
Kept(map, id) == {map, Without(map, id)} \cup {Append(Without(map, id), p) : p \in Bound(map, id)}

After(map) ==
  CASE call'.op = "define" -> IF call'.ok THEN {Defined(map, call'.property)}
                              ELSE Kept(map, call'.property.id)
    [] call'.op = "delete" -> {IF call'.ok THEN Without(map, call'.property.id) ELSE map}
    [] call'.op = "clear" -> {<<>>}

(* A call changes the map of its own scope, a collection is of none.       *)
Next == IF call'.scope = 0 THEN UNCHANGED maps
        ELSE \E map \in After(maps[call'.scope]) : maps' = [maps EXCEPT ![call'.scope] = map]

Spec == [][Next]_<<maps, call>>
=============================================================================
