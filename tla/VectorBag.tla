------------------------------ MODULE VectorBag ------------------------------
(***************************************************************************)
(* What isum and isumn promise: the sum of the sparse vectors in the rows  *)
(* of a group, index by index.  isumn divides it by its length, which is   *)
(* given here by its square, once: what a second reading of the same group *)
(* shows is not specified.                                                 *)
(***************************************************************************)
EXTENDS Fields, Integers, Functions

CONSTANTS
  Rows,         \* the values of the aggregated column
  numberOf,     \* the character an index shows for each character
  Atof,         \* the value of a field
  Unspecified   \* what is not a reply

VARIABLES
  open,    \* "isum" or "isumn" while an aggregation runs, else "none"
  vec,     \* the sum of the rows of the current group
  asked,   \* the group has been replied to
  reply    \* the last reply: indices, values and the square they are divided by

vars == <<open, vec, asked, reply>>

Zero == [w \in {} |-> 0]

\* The pairs of x from position p on that have an index.
Pairs(x, p) == {i \in PairStarts(x) : i >= p /\ RunLen(x, i) > 0}
IndexAt(x, i) == [k \in 1 .. RunLen(x, i) |-> numberOf[x[i + k - 1]]]
Values(x) == [i \in PairStarts(x) |-> Atof[Field(x, SecondOf(x, i))]]

At(v, w) == IF w \in DOMAIN v THEN v[w] ELSE 0

\* v and the vector in row x from position p on.
Plus(v, x, p) ==
  [w \in DOMAIN v \cup {IndexAt(x, i) : i \in Pairs(x, p)} |->
    At(v, w)
      + SumFunctionOnSet(Values(x), {i \in Pairs(x, p) : IndexAt(x, i) = w})]

Square(v) == SumFunction([w \in DOMAIN v |-> v[w] * v[w]])

Entries(v, unit) ==
  {<<w, v[w], IF unit THEN Square(v) ELSE 0>> : w \in DOMAIN v}

Init == open = "none" /\ vec = Zero /\ asked = FALSE /\ reply = {}

Open(f) == /\ open = "none"
           /\ open' = f
           /\ UNCHANGED <<vec, asked, reply>>

Clear == /\ open # "none"
         /\ vec' = Zero /\ asked' = FALSE
         /\ UNCHANGED <<open, reply>>

AddRow(x) == /\ open # "none" /\ ~asked
             /\ vec' = Plus(vec, x, 1)
             /\ UNCHANGED <<open, asked, reply>>

Read == /\ open # "none"
        /\ asked' = TRUE
        /\ \/ reply' = Entries(vec, open = "isumn")
           \/ asked /\ open = "isumn" /\ reply' = Unspecified
        /\ UNCHANGED <<open, vec>>

Close == /\ open # "none"
         /\ open' = "none" /\ vec' = Zero /\ asked' = FALSE
         /\ UNCHANGED reply

Next == \/ Open("isum") \/ Open("isumn")
        \/ Clear \/ Read \/ Close
        \/ \E x \in Rows : AddRow(x)

Spec == Init /\ [][Next]_vars
==============================================================================
