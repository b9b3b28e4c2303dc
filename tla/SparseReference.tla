---------------------------- MODULE SparseReference ----------------------------
(***************************************************************************)
(* What the functions of module SparseOps are to compute, from the fields  *)
(* of their arguments.                                                     *)
(***************************************************************************)
EXTENDS SparseOps, Functions

At(x, i) == Number[F!Field(x, i)]

\* A list: the values of its fields by rank.  A shorter one goes on with 0.
Item(x, k) ==
  IF \E i \in F!ReadFields(x) : F!FieldNo(x, i) = k
  THEN At(x, CHOOSE i \in F!ReadFields(x) : F!FieldNo(x, i) = k) ELSE 0
Ranks(x) == {F!FieldNo(x, i) : i \in F!ReadFields(x)}
Items(x) == {At(x, i) : i \in F!ReadFields(x)}

\* A sparse vector: the value at each index, 0 where it has none.
Indices(x) == {At(x, i) : i \in F!PairStarts(x)}
Element(x, k) ==
  IF k \in Indices(x)
  THEN At(x, F!SecondOf(x, CHOOSE i \in F!PairStarts(x) : At(x, i) = k)) ELSE 0

\* The order that the functions of indices expect.
Ordered(x, starts) == \A i, j \in starts : i < j => At(x, i) < At(x, j)
OrderedVectors == Ordered(x1, F!PairStarts(x1)) /\ Ordered(x2, F!PairStarts(x2))
OrderedLists == Ordered(x1, F!ReadFields(x1)) /\ Ordered(x2, F!ReadFields(x2))

\* The sums over the ranks or the indices that occur.
OverRanks(term(_, _)) ==
  SumFunction([k \in Ranks(x1) \cup Ranks(x2) |-> term(Item(x1, k), Item(x2, k))])
OverIndices(term(_, _)) ==
  SumFunction([k \in Indices(x1) \cup Indices(x2) |-> term(Element(x1, k), Element(x2, k))])

Product(u, v) == u * v
SquaredDifference(u, v) == (u - v) * (u - v)

\* dotf and doti return the dot product of their arguments.
DotProduct ==
  /\ pc = "done" /\ fn = "dotf" => dp = OverRanks(Product)
  /\ pc = "done" /\ fn = "doti" /\ OrderedVectors => dp = OverIndices(Product)

\* dist2f and dist2i return the square of their distance, which counts what
\* only one of them has.
SquaredDistance ==
  /\ pc = "done" /\ fn = "dist2f" => dp = OverRanks(SquaredDifference)
  /\ pc = "done" /\ fn = "dist2i" /\ OrderedVectors => dp = OverIndices(SquaredDifference)

\* jit returns the least index that both of its lists have, and 0 if there is
\* none, however far behind the end of one list the other has to be read.
LeastCommon ==
  pc = "done" /\ fn = "jit" /\ OrderedLists =>
    LET common == Items(x1) \cap Items(x2)
    IN  IF common = {} THEN dp = 0
        ELSE dp \in common /\ \A k \in common : dp <= k

\* The cursor of a sparse vector that has not ended stands at a value, behind
\* the index it belongs to, in every loop: indices and values are never
\* taken for each other, whatever is left out or empty in the argument.
BehindIndex(x, c) ==
  c.len > 0 => c.pos + 1 \in F!Starts(x) /\ F!FieldNo(x, c.pos + 1) % 2 = 0

InStep == pc # "idle" /\ fn \in Sparse => BehindIndex(x1, c1) /\ BehindIndex(x2, c2)
===============================================================================
