--------------------------- MODULE SparseOps_proofs ---------------------------
(***************************************************************************)
(* dotf, doti, dist2f, dist2i and jit on arguments of any length: the      *)
(* tokenizers hand out the fields that module Fields defines, one after    *)
(* the other; doti and dist2i never take an index for a value; jit finds   *)
(* the least common index of two ordered lists; and the merges return the  *)
(* sums over the ranks, or over the indices, of both arguments.            *)
(***************************************************************************)
EXTENDS SparseReference, UdfTokens_proofs, FiniteSetTheorems

-------------------------------------------------------------------------------
\* nextInt and nextDouble yield the field at the cursor and go to the next one
\* that is read.
LEMMA ReadStep ==
  ASSUME NEW S, NEW x \in Seq(S), NEW c, Stands(x, c), c.len > 0,
         NEW p, p = c.pos + 1, NEW d, d = After(x, c)
  PROVE  /\ NextNumber(x, c).tok = F!Field(x, p)
         /\ Stands(x, d)
         /\ d.len > 0 => d.pos + 1 > p
                         /\ \A q \in F!Starts(x) : q > p => q >= d.pos + 1
         /\ d.len = 0 => \A q \in F!ReadFields(x) : q <= p
BY FieldStep DEF After

-------------------------------------------------------------------------------
(* What is read is a number, also behind the end of an argument.           *)

LEMMA FieldNumber ==
  ASSUME NEW x \in Seq(Charset), NEW p \in F!Starts(x) PROVE At(x, p) \in Int
BY FieldChars, SparseOpsAssumption DEF At

LEMMA Reads ==
  ASSUME NEW x \in Seq(Charset), NEW c, Stands(x, c)
  PROVE  /\ Num(x, c) \in Int /\ Stands(x, After(x, c))
         /\ c.len > 0 => Num(x, c) = At(x, c.pos + 1)
<1>0. c.len \in Nat
  BY DEF Stands, Inside
<1>1. CASE c.len > 0
  <2>1. c.pos + 1 \in F!Starts(x)
    BY <1>1, ReadFieldsAre DEF Stands
  <2>2. NextNumber(x, c).tok = F!Field(x, c.pos + 1) /\ Stands(x, After(x, c))
    BY <1>1, ReadStep
  <2> QED
    BY <2>1, <2>2, FieldNumber DEF Num, At
<1>2. CASE c.len = 0
  <2>1. Num(x, c) = 0
    BY <1>2, ReadNothing, SparseOpsAssumption DEF Num
  <2> QED
    BY <1>2, <2>1, ReadNothing DEF After
<1> QED
  BY <1>0, <1>1, <1>2

LEMMA AddsNumbers ==
  ASSUME NEW f, NEW u \in Int, NEW v \in Int PROVE Term(f, u, v) \in Int /\ Alone(f, v) \in Int
BY DEF Term, Alone

(***************************************************************************)
(* The cursors stand at fields in every round of every loop.               *)
(***************************************************************************)
Standing == /\ x1 \in Seq(Charset) /\ x2 \in Seq(Charset)
            /\ Stands(x1, c1) /\ Stands(x2, c2)

Typed == TypeOK /\ Standing

LEMMA EmptyStands == <<>> \in Seq(Charset) /\ Stands(<<>>, Cursor(0, 0))
BY EmptySeq DEF Stands, Inside, Cursor

LEMMA TypedInit == Init => Typed
BY EmptyStands DEF Init, Typed, TypeOK, Standing, Functions, Stands

LEMMA ArgsAre == ASSUME NEW x \in Args PROVE x \in Seq(Charset)
BY SparseOpsAssumption

LEMMA TypedNext == Typed /\ [Next]_vars => Typed'
<1> SUFFICES ASSUME Typed, [Next]_vars PROVE Typed'
  OBVIOUS
<1> DEFINE d1 == After(x1, c1)
           d2 == After(x2, c2)
<1>1. /\ x1 \in Seq(Charset) /\ Stands(x1, c1) /\ Num(x1, c1) \in Int /\ Stands(x1, d1)
      /\ x2 \in Seq(Charset) /\ Stands(x2, c2) /\ Num(x2, c2) \in Int /\ Stands(x2, d2)
  BY Reads DEF Typed, Standing
<1>2. /\ Num(x1, d1) \in Int /\ Stands(x1, After(x1, d1))
      /\ Num(x2, d2) \in Int /\ Stands(x2, After(x2, d2))
  BY <1>1, Reads
<1>3. /\ Term(fn, Num(x1, c1), Num(x2, c2)) \in Int
      /\ Alone(fn, Num(x1, c1)) \in Int /\ Alone(fn, Num(x2, c2)) \in Int
  BY <1>1, AddsNumbers
<1>4. /\ pc \in {"idle", "main", "rest1", "rest2", "done"} /\ fn \in Functions
      /\ x1 \in Args \cup {<<>>} /\ x2 \in Args \cup {<<>>}
      /\ i1 \in Int /\ i2 \in Int /\ dp \in Int
  BY DEF Typed, TypeOK
<1>5. ASSUME pc' \in {"idle", "main", "rest1", "rest2", "done"}, fn' \in Functions,
             x1' \in Args \cup {<<>>}, x2' \in Args \cup {<<>>},
             i1' \in Int, i2' \in Int, dp' \in Int,
             Stands(x1', c1'), Stands(x2', c2')
      PROVE  Typed'
  <2>1. x1' \in Seq(Charset) /\ x2' \in Seq(Charset)
    BY <1>5, ArgsAre, EmptySeq
  <2> QED
    BY <1>5, <2>1 DEF Typed, TypeOK, Standing, Stands, Inside, F!ReadFields, After
<1> HIDE DEF d1, d2
<1>6. ASSUME NEW f \in Functions, NEW x \in Args, NEW y \in Args,
             CallDense(f, x, y) \/ CallSparse(f, x, y) \/ CallJit(x, y)
      PROVE  Typed'
  <2>1. Stands(x, Start(x)) /\ Stands(y, Start(y))
    BY ArgsAre, StandsFirst
  <2>2. /\ Num(x, Start(x)) \in Int /\ Stands(x, After(x, Start(x)))
        /\ Num(y, Start(y)) \in Int /\ Stands(y, After(y, Start(y)))
    BY <2>1, ArgsAre, Reads
  <2> QED
    BY <1>5, <1>6, <2>1, <2>2 DEF CallDense, CallSparse, CallJit, Functions
<1>7. CASE DenseStep \/ Match
  BY <1>1, <1>2, <1>3, <1>4, <1>5, <1>7 DEF DenseStep, Match, d1, d2
<1>8. CASE Behind1 \/ Behind2
  BY <1>1, <1>2, <1>3, <1>4, <1>5, <1>8 DEF Behind1, Behind2, d1, d2
<1>9. CASE JitSkip1 \/ JitSkip2 \/ JitFound \/ JitRest1 \/ JitRest2
  BY <1>1, <1>4, <1>5, <1>9 DEF JitSkip1, JitSkip2, JitFound, JitRest1, JitRest2, d1, d2
<1>10. CASE MainEnds \/ Rest1Ends \/ Rest2Ends
  BY <1>1, <1>4, <1>5, <1>10 DEF MainEnds, Rest1Ends, Rest2Ends
<1>11. CASE Rest1
  BY <1>1, <1>2, <1>3, <1>4, <1>5, <1>11 DEF Rest1, RestOf, d1
<1>12. CASE Rest2
  BY <1>1, <1>2, <1>3, <1>4, <1>5, <1>12 DEF Rest2, RestOf, d2
<1>13. CASE Return
  BY <1>4, <1>5, <1>13, EmptyStands DEF Return, Functions
<1>14. CASE UNCHANGED vars
  BY <1>1, <1>4, <1>5, <1>14 DEF vars
<1> QED
  BY <1>6, <1>7, <1>8, <1>9, <1>10, <1>11, <1>12, <1>13, <1>14 DEF Next, Continue, Functions

LEMMA TypedAlways == Spec => []Typed
BY TypedInit, TypedNext, PTL DEF Spec

(* Cursors stay inside their arguments and what is added up are numbers,   *)
(* in all loops of the five functions.                                     *)
THEOREM TypeCorrect == Spec => []TypeOK
<1>1. Typed => TypeOK
  BY DEF Typed
<1> QED
  BY <1>1, TypedAlways, PTL

-------------------------------------------------------------------------------
(* A number is read from a pair of fields: the one behind it has a rank of *)
(* the other parity.                                                       *)

IsValue(x, c) == c.len > 0 => F!FieldNo(x, c.pos + 1) % 2 = 0
IsIndex(x, c) == c.len > 0 => F!FieldNo(x, c.pos + 1) % 2 = 1

LEMMA Alternates ==
  ASSUME NEW x \in Seq(Charset), NEW c, Stands(x, c)
  PROVE  /\ IsValue(x, c) => IsIndex(x, After(x, c))
         /\ IsIndex(x, c) => IsValue(x, After(x, c))
<1> DEFINE d == After(x, c)
           p == c.pos + 1
<1>1. CASE c.len > 0
  <2>1. /\ Stands(x, d)
        /\ d.len > 0 => d.pos + 1 > p /\ \A q \in F!Starts(x) : q > p => q >= d.pos + 1
    BY <1>1, ReadStep
  <2>2. d.len > 0 => p \in F!Starts(x) /\ d.pos + 1 \in F!Starts(x)
    BY <1>1, <2>1, ReadFieldsAre DEF Stands
  <2> HIDE DEF d, p
  <2>3. ASSUME d.len > 0
        PROVE  /\ F!FieldNo(x, p) \in Nat
               /\ F!FieldNo(x, d.pos + 1) = F!FieldNo(x, p) + 1
    <3>1. PICK q : q = d.pos + 1
      OBVIOUS
    <3>2. p \in F!Starts(x) /\ q \in F!Starts(x) /\ p < q /\ \A j \in F!Starts(x) : j > p => j >= q
      BY <2>1, <2>2, <2>3, <3>1, ReadFieldsAre
    <3> QED
      BY <3>1, <3>2, NextFieldNo
  <2> QED
    BY <1>1, <2>3 DEF IsValue, IsIndex, d, p
<1>2. CASE ~(c.len > 0)
  <2>1. c.len = 0
    BY <1>2 DEF Stands, Inside
  <2> QED
    BY <1>2, <2>1, ReadNothing DEF After, IsValue, IsIndex
<1> QED
  BY <1>1, <1>2

\* The first field of an argument is an index.
LEMMA FirstIsIndex ==
  ASSUME NEW x \in Seq(Charset) PROVE IsIndex(x, Start(x))
<1>1. Len(x) \in Nat /\ Start(x).pos = 0 /\ Start(x).len = Len(x)
  BY LenProperties DEF Start, Cursor
<1>2. ASSUME Len(x) > 0 PROVE F!FieldNo(x, 1) = 1
  <2>1. {j \in F!Starts(x) : j <= 1} = {1}
    BY <1>1, <1>2 DEF F!Starts
  <2>2. F!FieldNo(x, 1) = F!Cardinality({1})
    BY <2>1 DEF F!FieldNo
  <2> QED
    BY <2>2, FieldCardinality, FS_Singleton
<1> QED
  BY <1>1, <1>2 DEF IsIndex

ValuesNext == pc # "idle" /\ fn \in Sparse => IsValue(x1, c1) /\ IsValue(x2, c2)

LEMMA ValuesNextStep == Typed /\ ValuesNext /\ [Next]_vars => ValuesNext'
<1> SUFFICES ASSUME Typed, ValuesNext, [Next]_vars, pc' # "idle", fn' \in Sparse
             PROVE  IsValue(x1', c1') /\ IsValue(x2', c2')
  BY DEF ValuesNext, IsValue
<1> DEFINE d1 == After(x1, c1)
           d2 == After(x2, c2)
<1>0. fn' # "jit" /\ fn' # "dotf" /\ fn' # "dist2f"
  BY DEF Sparse
<1>1. /\ x1 \in Seq(Charset) /\ Stands(x1, c1) /\ Stands(x1, d1)
      /\ x2 \in Seq(Charset) /\ Stands(x2, c2) /\ Stands(x2, d2)
  BY Reads DEF Typed, Standing
<1>2. /\ IsValue(x1, c1) => IsValue(x1, After(x1, d1))
      /\ IsValue(x2, c2) => IsValue(x2, After(x2, d2))
  BY <1>1, Alternates
<1> HIDE DEF d1, d2
<1>3. ASSUME NEW f \in Functions, NEW x \in Args, NEW y \in Args,
             CallDense(f, x, y) \/ CallSparse(f, x, y) \/ CallJit(x, y)
      PROVE  IsValue(x1', c1') /\ IsValue(x2', c2')
  <2>1. CallSparse(f, x, y)
    BY <1>0, <1>3 DEF CallDense, CallJit
  <2>2. IsValue(x, After(x, Start(x))) /\ IsValue(y, After(y, Start(y)))
    BY ArgsAre, StandsFirst, FirstIsIndex, Alternates
  <2> QED
    BY <2>1, <2>2 DEF CallSparse
<1>4. ASSUME pc # "idle", fn \in Sparse PROVE IsValue(x1, c1) /\ IsValue(x2, c2)
  BY <1>4 DEF ValuesNext
<1>5. CASE DenseStep \/ JitSkip1 \/ JitSkip2 \/ JitFound \/ JitRest1 \/ JitRest2
  BY <1>0, <1>5 DEF DenseStep, JitSkip1, JitSkip2, JitFound, JitRest1, JitRest2
<1>6. CASE Match \/ Behind1 \/ Behind2
  BY <1>2, <1>4, <1>6 DEF Match, Behind1, Behind2, d1, d2
<1>7. CASE MainEnds \/ Rest1Ends \/ Rest2Ends
  BY <1>4, <1>7 DEF MainEnds, Rest1Ends, Rest2Ends
<1>8. CASE Rest1
  BY <1>2, <1>4, <1>8 DEF Rest1, RestOf, Sparse, d1
<1>9. CASE Rest2
  BY <1>2, <1>4, <1>9 DEF Rest2, RestOf, Sparse, d2
<1>10. CASE Return
  BY <1>0, <1>10 DEF Return
<1>11. CASE UNCHANGED vars
  BY <1>4, <1>11 DEF vars
<1> QED
  BY <1>3, <1>5, <1>6, <1>7, <1>8, <1>9, <1>10, <1>11 DEF Next, Continue, Functions

(* doti and dist2i never take an index for a value or a value for an index *)
(* (fun_dot.c:99-118, fun_dist2.c:111-145), for arguments of any length.   *)
THEOREM StaysInStep == Spec => []InStep
<1>1. Init => ValuesNext
  BY DEF Init, ValuesNext
<1>2. Typed /\ ValuesNext => InStep
  BY ReadFieldsAre DEF Typed, Standing, Stands, ValuesNext, IsValue, InStep, BehindIndex
<1> QED
  BY <1>1, <1>2, TypedAlways, ValuesNextStep, PTL DEF Spec

-------------------------------------------------------------------------------
(* jit.                                                                    *)

\* The field at p was read last and gave the number i.
LastRead(x, c, i, p) ==
  /\ p \in F!ReadFields(x) /\ i = At(x, p)
  /\ c.len > 0 => c.pos + 1 > p
  /\ \A q \in F!ReadFields(x) : q > p => c.len > 0 /\ q >= c.pos + 1

Holds(x, c, i) ==
  \/ x = <<>> /\ i = 0 /\ c.len = 0
  \/ \E p \in F!ReadFields(x) : LastRead(x, c, i, p)

LEMMA ReadHolds ==
  ASSUME NEW x \in Seq(Charset), NEW c, Stands(x, c), c.len > 0
  PROVE  Holds(x, After(x, c), Num(x, c))
<1> DEFINE d == After(x, c)
<1>1. PICK p : p = c.pos + 1
  OBVIOUS
<1>2. p \in F!ReadFields(x) /\ Num(x, c) = At(x, p)
  BY <1>1, Reads DEF Stands
<1>3. /\ d.len > 0 => d.pos + 1 > p /\ \A q \in F!Starts(x) : q > p => q >= d.pos + 1
      /\ d.len = 0 => \A q \in F!ReadFields(x) : q <= p
      /\ Stands(x, d)
  BY <1>1, ReadStep
<1>4. d.len \in Nat
  BY <1>3 DEF Stands, Inside
<1> HIDE DEF d
<1>5. ASSUME NEW q \in F!ReadFields(x), q > p PROVE d.len > 0 /\ q >= d.pos + 1
  <2>1. q \in Nat /\ p \in Nat /\ q \in F!Starts(x)
    BY <1>2, ReadFieldsAre
  <2>2. d.len # 0
    BY <1>3, <1>5, <2>1
  <2> QED
    BY <1>3, <1>4, <1>5, <2>1, <2>2
<1>6. LastRead(x, d, Num(x, c), p)
  BY <1>2, <1>3, <1>5 DEF LastRead
<1> QED
  BY <1>2, <1>6 DEF Holds, d

LEMMA FirstHolds ==
  ASSUME NEW x \in Seq(Charset) PROVE Holds(x, After(x, Start(x)), Num(x, Start(x)))
<1>1. Len(x) \in Nat /\ Start(x).len = Len(x)
  BY LenProperties DEF Start, Cursor
<1>2. CASE Len(x) > 0
  BY <1>1, <1>2, StandsFirst, ReadHolds
<1>3. CASE Len(x) = 0
  <2>1. x = <<>>
    BY <1>3, EmptySeq
  <2>2. Num(x, Start(x)) = 0 /\ After(x, Start(x)) = Start(x)
    BY <1>1, <1>3, ReadNothing, SparseOpsAssumption DEF Num, After
  <2> QED
    BY <1>1, <1>3, <2>1, <2>2 DEF Holds
<1> QED
  BY <1>1, <1>2, <1>3

\* What an ordered list has above the number read last is not below the next.
LEMMA NothingBetween ==
  ASSUME NEW x \in Seq(Charset), NEW c, NEW i, Stands(x, c), Holds(x, c, i),
         Ordered(x, F!ReadFields(x)), NEW k \in Items(x), k > i
  PROVE  c.len > 0 /\ k >= At(x, c.pos + 1)
<1>1. PICK q \in F!ReadFields(x) : k = At(x, q)
  BY DEF Items
<1>2. x # <<>>
  BY <1>1, ReadFieldsAre, EmptySeq
<1>3. PICK p \in F!ReadFields(x) : LastRead(x, c, i, p)
  BY <1>2 DEF Holds
<1>4. /\ p \in Nat /\ q \in Nat /\ At(x, p) \in Int /\ At(x, q) \in Int
      /\ p \in F!Starts(x) /\ q \in F!Starts(x)
  BY FieldNumber, ReadFieldsAre
<1>5. q > p
  <2>1. SUFFICES ASSUME ~(q > p) PROVE FALSE
    OBVIOUS
  <2>2. q < p \/ q = p
    BY <1>4, <2>1
  <2>3. At(x, q) <= At(x, p)
    BY <1>4, <2>2 DEF Ordered
  <2> QED
    BY <1>1, <1>3, <1>4, <2>3 DEF LastRead
<1>6. c.len > 0 /\ q >= c.pos + 1
  BY <1>3, <1>5 DEF LastRead
<1>7. PICK n \in F!ReadFields(x) : n = c.pos + 1
  BY <1>6 DEF Stands
<1>8. n \in Nat /\ n \in F!Starts(x) /\ At(x, n) \in Int /\ (n < q \/ n = q)
  BY <1>4, <1>6, <1>7, FieldNumber, ReadFieldsAre
<1>9. At(x, n) <= At(x, q)
  BY <1>4, <1>8 DEF Ordered
<1> QED
  BY <1>1, <1>4, <1>6, <1>7, <1>8, <1>9

\* No index of an ordered list is below the first one.
LEMMA FirstIsLeast ==
  ASSUME NEW x \in Seq(Charset), Ordered(x, F!ReadFields(x)), NEW k \in Items(x)
  PROVE  k >= Num(x, Start(x))
<1>1. PICK q \in F!ReadFields(x) : k = At(x, q)
  BY DEF Items
<1>2. Len(x) \in Nat /\ q \in 1 .. Len(x)
  BY <1>1, ReadFieldsAre, LenProperties
<1>3. Start(x).len > 0 /\ Start(x).pos + 1 = 1 /\ Stands(x, Start(x))
  BY <1>2, StandsFirst DEF Start, Cursor
<1>4. Num(x, Start(x)) = At(x, 1) /\ 1 \in F!ReadFields(x)
  BY <1>3, Reads DEF Stands
<1>5. At(x, q) \in Int /\ At(x, 1) \in Int
  BY <1>4, FieldNumber, ReadFieldsAre
<1>6. 1 < q \/ 1 = q
  BY <1>2
<1>7. At(x, 1) <= At(x, q)
  BY <1>4, <1>5, <1>6 DEF Ordered
<1> QED
  BY <1>1, <1>4, <1>5, <1>7

\* The numbers read last, and no common index below either; and the result.
NoneBelow(x, y, i, j) == \A k \in Items(x) \cap Items(y) : k >= i /\ k >= j

Least(x, y, r) ==
  LET common == Items(x) \cap Items(y)
  IN  IF common = {} THEN r = 0 ELSE r \in common /\ \A k \in common : r <= k

LEMMA ItemsAre ==
  ASSUME NEW x \in Seq(Charset) PROVE Items(x) \subseteq Int /\ Items(<<>>) = {}
<1>1. Items(x) \subseteq Int
  BY FieldNumber, ReadFieldsAre DEF Items
<1>2. F!ReadFields(<<>>) = {}
  BY EmptySeq DEF F!ReadFields, F!Starts
<1> QED
  BY <1>1, <1>2 DEF Items

\* The number read last from a list is one of its, unless it has none.
LEMMA HeldIsItem ==
  ASSUME NEW x, NEW c, NEW i, Holds(x, c, i)
  PROVE  (x = <<>> /\ i = 0) \/ i \in Items(x)
BY DEF Holds, LastRead, Items

\* Two lists that meet do so at their least common index.
LEMMA Meet ==
  ASSUME NEW x \in Seq(Charset), NEW y \in Seq(Charset), NEW c, NEW d, NEW i \in Int,
         Holds(x, c, i), Holds(y, d, i), NoneBelow(x, y, i, i)
  PROVE  Least(x, y, i)
<1>1. Items(x) \subseteq Int /\ Items(<<>>) = {}
  BY ItemsAre
<1>2. CASE i \in Items(x) \cap Items(y)
  BY <1>1, <1>2 DEF Least, NoneBelow
<1>3. CASE i \notin Items(x) \cap Items(y)
  <2>1. i = 0 /\ Items(x) \cap Items(y) = {}
    BY <1>1, <1>3, HeldIsItem
  <2> QED
    BY <2>1 DEF Least
<1> QED
  BY <1>2, <1>3

\* A list that has been read to its end below the other has nothing in common
\* with it.
LEMMA Apart ==
  ASSUME NEW x \in Seq(Charset), NEW y, NEW c, NEW i \in Int, NEW j \in Int,
         Stands(x, c), Holds(x, c, i), Ordered(x, F!ReadFields(x)),
         \A k \in Items(x) \cap Items(y) : k >= i /\ k >= j,
         i < j, c.len = 0
  PROVE  Items(x) \cap Items(y) = {}
<1>1. ASSUME NEW k \in Items(x), k \in Items(y) PROVE FALSE
  <2>1. k \in Int /\ k >= j
    BY <1>1, ItemsAre
  <2>2. k > i
    BY <2>1
  <2>3. c.len > 0
    BY <2>2, NothingBetween
  <2> QED
    BY <2>3
<1> QED
  BY <1>1

\* A list that is behind may go on: nothing in common is passed over.
LEMMA Onward ==
  ASSUME NEW x \in Seq(Charset), NEW y, NEW c, NEW i \in Int, NEW j \in Int,
         Stands(x, c), Holds(x, c, i), Ordered(x, F!ReadFields(x)),
         \A k \in Items(x) \cap Items(y) : k >= i /\ k >= j,
         i < j, c.len > 0
  PROVE  \A k \in Items(x) \cap Items(y) : k >= Num(x, c)
<1> SUFFICES ASSUME NEW k \in Items(x), k \in Items(y) PROVE k >= Num(x, c)
  OBVIOUS
<1>1. k \in Int /\ k >= j
  BY ItemsAre
<1>2. k > i
  BY <1>1
<1> QED
  BY <1>2, NothingBetween, Reads

(***************************************************************************)
(* The invariant of jit: while it reads, it has passed over no common      *)
(* index; in "rest1" one of the lists has been read to its end, in "rest2" *)
(* the first, or the second without being behind.                          *)
(***************************************************************************)
Searching ==
  pc \in {"main", "rest1", "rest2"} =>
    /\ Holds(x1, c1, i1) /\ Holds(x2, c2, i2)
    /\ OrderedLists => NoneBelow(x1, x2, i1, i2)
    /\ pc = "rest1" => c1.len = 0 \/ c2.len = 0
    /\ pc = "rest2" => c1.len = 0 \/ (c2.len = 0 /\ i1 >= i2)

Found == pc = "done" /\ OrderedLists => Least(x1, x2, dp)

JitInv == fn = "jit" => Searching /\ Found

LEMMA JitInit == Init => JitInv
BY DEF Init, JitInv, Searching, Found

LEMMA JitCall ==
  ASSUME NEW x \in Args, NEW y \in Args, CallJit(x, y) PROVE JitInv'
<1> DEFINE i == Num(x, Start(x))
           j == Num(y, Start(y))
           c == After(x, Start(x))
           d == After(y, Start(y))
<1>1. x \in Seq(Charset) /\ y \in Seq(Charset)
  BY ArgsAre
<1>2. Holds(x, c, i) /\ Holds(y, d, j) /\ i \in Int /\ j \in Int
  BY <1>1, FirstHolds, StandsFirst, Reads
<1>3. ASSUME Ordered(x, F!ReadFields(x)), Ordered(y, F!ReadFields(y)) PROVE NoneBelow(x, y, i, j)
  BY <1>1, <1>3, FirstIsLeast DEF NoneBelow
<1>4. x1' = x /\ x2' = y /\ c1' = c /\ c2' = d /\ i1' = i /\ i2' = j
  BY DEF CallJit
<1>5. OrderedLists' => Ordered(x, F!ReadFields(x)) /\ Ordered(y, F!ReadFields(y))
  BY <1>4 DEF OrderedLists, Ordered, F!ReadFields, At
<1> HIDE DEF i, j, c, d
<1>6. CASE i = j
  <2>1. pc' = "done" /\ dp' = i
    BY <1>4, <1>6 DEF CallJit
  <2>2. OrderedLists' => Least(x, y, i)
    BY <1>1, <1>2, <1>3, <1>5, <1>6, Meet
  <2>3. Found'
    BY <1>4, <2>1, <2>2 DEF Found, Least, Items, F!ReadFields, At
  <2> QED
    BY <2>1, <2>3 DEF JitInv, Searching
<1>7. CASE i # j
  <2>1. pc' = "main"
    BY <1>4, <1>7 DEF CallJit
  <2>2. OrderedLists' => NoneBelow(x, y, i, j)
    BY <1>3, <1>5
  <2>3. Searching'
    BY <1>2, <1>4, <2>1, <2>2
       DEF Searching, Holds, LastRead, NoneBelow, Items, F!ReadFields, At
  <2> QED
    BY <2>1, <2>3 DEF JitInv, Found
<1> QED
  BY <1>6, <1>7

LEMMA JitNext == Typed /\ JitInv /\ [Next]_vars => JitInv'
<1> SUFFICES ASSUME Typed, JitInv, [Next]_vars PROVE JitInv'
  OBVIOUS
<1> USE DEF JitInv
<1>1. /\ x1 \in Seq(Charset) /\ Stands(x1, c1) /\ i1 \in Int /\ c1.len \in Nat
      /\ x2 \in Seq(Charset) /\ Stands(x2, c2) /\ i2 \in Int /\ c2.len \in Nat
  BY DEF Typed, TypeOK, Standing, Stands, Inside
<1>2. OrderedLists => Ordered(x1, F!ReadFields(x1)) /\ Ordered(x2, F!ReadFields(x2))
  BY DEF OrderedLists
<1>3. ASSUME UNCHANGED <<x1, x2>>
      PROVE  /\ OrderedLists' = OrderedLists
             /\ \A i, j : (NoneBelow(x1, x2, i, j) <=> \A k \in Items(x1') \cap Items(x2') : k >= i /\ k >= j)
  BY <1>3 DEF OrderedLists, Ordered, F!ReadFields, At, NoneBelow, Items
<1>4. ASSUME UNCHANGED <<x1, c1, i1>> PROVE Holds(x1', c1', i1') <=> Holds(x1, c1, i1)
  BY <1>4 DEF Holds, LastRead, F!ReadFields, At
<1>5. ASSUME UNCHANGED <<x2, c2, i2>> PROVE Holds(x2', c2', i2') <=> Holds(x2, c2, i2)
  BY <1>5 DEF Holds, LastRead, F!ReadFields, At
<1>6. CASE JitSkip1 \/ JitRest1
  <2> DEFINE i == Num(x1, c1)
             c == After(x1, c1)
  <2>1. /\ pc \in {"main", "rest1"} /\ pc' = pc /\ fn = "jit" /\ fn' = "jit"
        /\ UNCHANGED <<x1, x2, c2, i2>> /\ i1' = i /\ c1' = c
        /\ c1.len > 0 /\ i1 < i2 /\ Searching
    BY <1>6 DEF JitSkip1, JitRest1, Both
  <2>2. Holds(x1, c, i)
    BY <1>1, <2>1, ReadHolds
  <2>3. Holds(x1', c1', i1')
    BY <2>1, <2>2 DEF Holds, LastRead, F!ReadFields, At
  <2> HIDE DEF i, c
  <2>4. Holds(x2', c2', i2')
    BY <1>5, <2>1 DEF Searching
  <2>5. ASSUME OrderedLists PROVE NoneBelow(x1, x2, i, i2)
    <3>1. NoneBelow(x1, x2, i1, i2) /\ Ordered(x1, F!ReadFields(x1)) /\ Holds(x1, c1, i1)
      BY <1>2, <2>1, <2>5 DEF Searching
    <3>2. \A k \in Items(x1) \cap Items(x2) : k >= i
      BY <1>1, <2>1, <3>1, Onward DEF NoneBelow, i
    <3> QED
      BY <3>1, <3>2 DEF NoneBelow
  <2>6. OrderedLists' => NoneBelow(x1, x2, i1, i2)'
    BY <1>3, <2>1, <2>5 DEF NoneBelow, Items, F!ReadFields, At
  <2>7. pc = "rest1" => c2.len = 0
    BY <1>1, <2>1 DEF Searching
  <2>8. Searching'
    BY <2>1, <2>3, <2>4, <2>6, <2>7 DEF Searching
  <2> QED
    BY <2>1, <2>8 DEF Found
<1>7. CASE JitSkip2 \/ JitRest2
  <2> DEFINE i == Num(x2, c2)
             c == After(x2, c2)
  <2>1. /\ pc \in {"main", "rest2"} /\ pc' = pc /\ fn = "jit" /\ fn' = "jit"
        /\ UNCHANGED <<x1, x2, c1, i1>> /\ i2' = i /\ c2' = c
        /\ c2.len > 0 /\ i2 < i1 /\ Searching
    BY <1>1, <1>7 DEF JitSkip2, JitRest2, Both
  <2>2. Holds(x2, c, i)
    BY <1>1, <2>1, ReadHolds
  <2>3. Holds(x2', c2', i2')
    BY <2>1, <2>2 DEF Holds, LastRead, F!ReadFields, At
  <2> HIDE DEF i, c
  <2>4. Holds(x1', c1', i1')
    BY <1>4, <2>1 DEF Searching
  <2>5. ASSUME OrderedLists PROVE NoneBelow(x1, x2, i1, i)
    <3>1. NoneBelow(x1, x2, i1, i2) /\ Ordered(x2, F!ReadFields(x2)) /\ Holds(x2, c2, i2)
      BY <1>2, <2>1, <2>5 DEF Searching
    <3>2. \A k \in Items(x2) \cap Items(x1) : k >= i
      BY <1>1, <2>1, <3>1, Onward DEF NoneBelow, i
    <3> QED
      BY <3>1, <3>2 DEF NoneBelow
  <2>6. OrderedLists' => NoneBelow(x1, x2, i1, i2)'
    BY <1>3, <2>1, <2>5 DEF NoneBelow, Items, F!ReadFields, At
  <2>7. pc = "rest2" => c1.len = 0
    BY <1>1, <2>1 DEF Searching
  <2>8. Searching'
    BY <2>1, <2>3, <2>4, <2>6, <2>7 DEF Searching
  <2> QED
    BY <2>1, <2>8 DEF Found
<1>8. ASSUME pc \in {"main", "rest1", "rest2"}, fn = "jit",
             pc' = "done", UNCHANGED <<x1, x2>>,
             OrderedLists => Least(x1, x2, dp')
      PROVE  JitInv'
  BY <1>3, <1>8 DEF Searching, Found, Least, Items, F!ReadFields, At
<1>9. ASSUME i1 = i2, Searching, pc \in {"main", "rest1", "rest2"}, OrderedLists
      PROVE  Least(x1, x2, i1)
  BY <1>1, <1>9, Meet DEF Searching
<1>10. CASE JitFound
  BY <1>8, <1>9, <1>10 DEF JitFound
<1>11. CASE MainEnds
  BY <1>1, <1>3, <1>4, <1>5, <1>11
     DEF MainEnds, Both, Searching, Found, NoneBelow, Items, F!ReadFields, At
<1>12. CASE Rest1Ends
  BY <1>1, <1>3, <1>4, <1>5, <1>12
     DEF Rest1Ends, Searching, Found, NoneBelow, Items, F!ReadFields, At
<1>13. CASE Rest2Ends /\ fn = "jit"
  <2>1. /\ pc = "rest2" /\ pc' = "done" /\ UNCHANGED <<x1, x2>> /\ Searching
        /\ c2.len = 0 \/ i1 <= i2
        /\ dp' = IF i1 = i2 THEN i1 ELSE 0
    BY <1>13 DEF Rest2Ends
  <2>2. CASE i1 = i2
    BY <1>8, <1>9, <1>13, <2>1, <2>2
  <2>3. ASSUME i1 # i2, OrderedLists PROVE Items(x1) \cap Items(x2) = {}
    <3>1. /\ Holds(x1, c1, i1) /\ Holds(x2, c2, i2) /\ NoneBelow(x1, x2, i1, i2)
          /\ c1.len = 0 \/ (c2.len = 0 /\ i1 >= i2)
      BY <2>1, <2>3 DEF Searching
    <3>2. CASE i1 < i2
      BY <1>1, <1>2, <2>3, <3>1, <3>2, Apart DEF NoneBelow
    <3>3. CASE i2 < i1
      <4>1. c2.len = 0
        BY <1>1, <2>1, <3>3
      <4>2. \A k \in Items(x2) \cap Items(x1) : k >= i2 /\ k >= i1
        BY <3>1 DEF NoneBelow
      <4> QED
        BY <1>1, <1>2, <2>3, <3>1, <3>3, <4>1, <4>2, Apart
    <3> QED
      BY <1>1, <2>3, <3>2, <3>3
  <2>4. CASE i1 # i2
    <3>1. OrderedLists => Least(x1, x2, dp')
      BY <2>1, <2>3, <2>4 DEF Least
    <3> QED
      BY <1>8, <1>13, <2>1, <3>1
  <2> QED
    BY <2>2, <2>4
<1>14. CASE Rest2Ends /\ fn # "jit"
  BY <1>14 DEF Rest2Ends
<1>15. CASE DenseStep \/ Match \/ Behind1 \/ Behind2 \/ Rest1 \/ Rest2
  BY <1>15 DEF DenseStep, Match, Behind1, Behind2, Rest1, Rest2, Sparse
<1>16. CASE Return
  BY <1>16 DEF Return, Searching, Found
<1>17. ASSUME NEW f \in Functions, NEW x \in Args, NEW y \in Args,
              CallDense(f, x, y) \/ CallSparse(f, x, y)
       PROVE  JitInv'
  BY <1>17 DEF CallDense, CallSparse, Sparse
<1>18. CASE UNCHANGED vars
  BY <1>3, <1>4, <1>5, <1>18
     DEF vars, Searching, Found, Least, NoneBelow, Items, F!ReadFields, At
<1> QED
  BY <1>6, <1>7, <1>10, <1>11, <1>12, <1>13, <1>14, <1>15, <1>16, <1>17, <1>18, JitCall
     DEF Next, Continue

\* jit returns the least index that both of its lists have, and 0 if there is
\* none (fun_jit.c).
THEOREM FindsLeast == Spec => []LeastCommon
<1>1. JitInv => LeastCommon
  BY DEF JitInv, Found, Least, LeastCommon
<1> QED
  BY <1>1, JitInit, JitNext, TypedAlways, PTL DEF Spec

-------------------------------------------------------------------------------
(***************************************************************************)
(* dotf, dist2f, doti and dist2i are merges: a list is the vector of its   *)
(* values at their ranks, a sparse vector that of its values at their      *)
(* indices, in the order of the argument.                                  *)
(***************************************************************************)
Merges == {"dotf", "doti", "dist2f", "dist2i"}

\* Where the elements of x begin, the key of one and where its value begins.
Heads(f, x) == IF f \in Sparse THEN F!PairStarts(x) ELSE F!ReadFields(x)
Key(f, x, i) == IF f \in Sparse THEN At(x, i) ELSE F!FieldNo(x, i)
Place(f, x, i) == IF f \in Sparse THEN F!SecondOf(x, i) ELSE i

Keys(f, x) == {Key(f, x, i) : i \in Heads(f, x)}
ValueOf(f, x, k) ==
  IF \E i \in Heads(f, x) : Key(f, x, i) = k
  THEN At(x, Place(f, x, CHOOSE i \in Heads(f, x) : Key(f, x, i) = k)) ELSE 0

Rising(f, x) == f \in Sparse => Ordered(x, F!PairStarts(x))

\* What the elements add up to, and the keys of those behind the cursor.
Terms(f, x, y) ==
  [k \in Keys(f, x) \cup Keys(f, y) |-> Term(f, ValueOf(f, x, k), ValueOf(f, y, k))]
Left(f, x, c) == {i \in Heads(f, x) : c.len > 0 /\ Place(f, x, i) >= c.pos + 1}
Ahead(f, x, c) == {Key(f, x, i) : i \in Left(f, x, c)}

\* The cursor stands at the value of element h, whose index has been read.
AtHead(f, x, c, i, h) ==
  h \in Heads(f, x) /\ Place(f, x, h) = c.pos + 1 /\ (f \in Sparse => i = Key(f, x, h))
Placed(f, x, c, i) == c.len > 0 => \E h : AtHead(f, x, c, i, h)

\* What has been read of x comes before everything that has not of y.
Precedes(f, x, c, y, d) ==
  \A k \in Keys(f, x) \ Ahead(f, x, c), l \in Ahead(f, y, d) : k < l

LEMMA HeadsAre ==
  ASSUME NEW f \in Merges, NEW x \in Seq(Charset), NEW i \in Heads(f, x)
  PROVE  /\ i \in F!Starts(x) /\ i \in 1 .. Len(x) /\ i \in Nat
         /\ Place(f, x, i) \in F!Starts(x) /\ Place(f, x, i) \in Nat /\ Place(f, x, i) >= i
         /\ Key(f, x, i) \in Int /\ At(x, Place(f, x, i)) \in Int
<1>1. /\ i \in F!Starts(x) /\ i \in 1 .. Len(x) /\ i \in Nat
      /\ Place(f, x, i) \in F!Starts(x) /\ Place(f, x, i) \in Nat /\ Place(f, x, i) >= i
  BY PairsAre, ReadFieldsAre DEF Heads, Place
<1>2. F!FieldNo(x, i) \in Int
  <2>1. {j \in F!Starts(x) : j <= i} \in SUBSET (1 .. Len(x)) /\ Len(x) \in Nat
    BY ReadFieldsAre, LenProperties
  <2>2. IsFiniteSet({j \in F!Starts(x) : j <= i})
    <3>1. IsFiniteSet(1 .. Len(x))
      BY <2>1, FS_Interval
    <3> QED
      BY <2>1, <3>1, FS_Subset
  <2> QED
    BY <2>2, FS_CardinalityType, FieldCardinality DEF F!FieldNo
<1> QED
  BY <1>1, <1>2, FieldNumber DEF Key

\* The keys rise with the positions.
LEMMA LaterRank ==
  ASSUME NEW x \in Seq(Charset), NEW i \in F!Starts(x), NEW j \in F!Starts(x), i < j
  PROVE  F!FieldNo(x, i) < F!FieldNo(x, j)
<1> DEFINE T(n) == {k \in F!Starts(x) : k <= n}
<1>1. F!Starts(x) \subseteq 1 .. Len(x) /\ F!Starts(x) \subseteq Nat
  BY ReadFieldsAre
<1>2. \A n : IsFiniteSet(T(n))
  <2>1. IsFiniteSet(1 .. Len(x)) /\ \A n : T(n) \in SUBSET (1 .. Len(x))
    BY <1>1, LenProperties, FS_Interval
  <2> QED
    BY <2>1, FS_Subset
<1>3. T(i) \in SUBSET T(j) /\ T(i) # T(j)
  BY <1>1
<1> HIDE DEF T
<1>4. Cardinality(T(i)) < Cardinality(T(j))
  BY <1>2, <1>3, FS_Subset, FS_CardinalityType
<1> QED
  BY <1>4, FieldCardinality DEF F!FieldNo, T

LEMMA KeysRise ==
  ASSUME NEW f \in Merges, NEW x \in Seq(Charset), Rising(f, x),
         NEW i \in Heads(f, x), NEW j \in Heads(f, x), i < j
  PROVE  Key(f, x, i) < Key(f, x, j) /\ Place(f, x, i) < Place(f, x, j)
<1>1. CASE f \in Sparse
  <2>1. At(x, i) < At(x, j)
    BY <1>1 DEF Heads, Rising, Ordered
  <2>2. F!SecondOf(x, i) <= j /\ F!SecondOf(x, j) > j /\ F!SecondOf(x, i) \in Nat /\ j \in Nat
        /\ F!SecondOf(x, j) \in Nat
    <3>1. i \in F!PairStarts(x) /\ j \in F!PairStarts(x) /\ j \in F!Starts(x) /\ i \in Nat /\ j \in Nat
      BY <1>1, HeadsAre DEF Heads
    <3> QED
      BY <3>1, PairsAre
  <2> QED
    BY <1>1, <2>1, <2>2 DEF Key, Place
<1>2. CASE f \notin Sparse
  BY <1>2, HeadsAre, LaterRank DEF Key, Place
<1> QED
  BY <1>1, <1>2

\* So an element is known by its key.
LEMMA ValueIs ==
  ASSUME NEW f \in Merges, NEW x \in Seq(Charset), Rising(f, x), NEW h \in Heads(f, x)
  PROVE  ValueOf(f, x, Key(f, x, h)) = At(x, Place(f, x, h))
<1>1. ASSUME NEW i \in Heads(f, x), Key(f, x, i) = Key(f, x, h) PROVE i = h
  <2>1. i \in Nat /\ h \in Nat /\ Key(f, x, i) \in Int
    BY HeadsAre
  <2>2. ~(i < h) /\ ~(h < i)
    BY <1>1, <2>1, KeysRise
  <2> QED
    BY <2>1, <2>2
<1>2. (CHOOSE i \in Heads(f, x) : Key(f, x, i) = Key(f, x, h)) = h
  BY <1>1
<1> QED
  BY <1>2 DEF ValueOf

LEMMA ValueType ==
  ASSUME NEW f \in Merges, NEW x \in Seq(Charset), NEW k
  PROVE  /\ ValueOf(f, x, k) \in Int
         /\ k \notin Keys(f, x) => ValueOf(f, x, k) = 0
         /\ IsFiniteSet(Keys(f, x)) /\ Keys(f, x) \subseteq Int
<1>1. k \in Keys(f, x) => ValueOf(f, x, k) \in Int
  <2> SUFFICES ASSUME k \in Keys(f, x) PROVE ValueOf(f, x, k) \in Int
    OBVIOUS
  <2> DEFINE i == CHOOSE j \in Heads(f, x) : Key(f, x, j) = k
  <2>1. i \in Heads(f, x)
    BY DEF Keys
  <2>2. ValueOf(f, x, k) = At(x, Place(f, x, i))
    BY DEF ValueOf, Keys
  <2> HIDE DEF i
  <2>3. At(x, Place(f, x, i)) \in Int
    BY <2>1, HeadsAre
  <2> QED
    BY <2>2, <2>3
<1>2. k \notin Keys(f, x) => ValueOf(f, x, k) = 0
  BY Zenon DEF ValueOf, Keys
<1>3. IsFiniteSet(Keys(f, x)) /\ Keys(f, x) \subseteq Int
  <2>1. Heads(f, x) \in SUBSET (1 .. Len(x)) /\ IsFiniteSet(1 .. Len(x))
    BY HeadsAre, LenProperties, FS_Interval
  <2>2. IsFiniteSet(Heads(f, x))
    BY <2>1, FS_Subset
  <2> DEFINE g == [i \in Heads(f, x) |-> Key(f, x, i)]
  <2>3. g \in Surjection(Heads(f, x), Keys(f, x))
    BY DEF Surjection, Keys
  <2>4. IsFiniteSet(Keys(f, x))
    BY <2>2, <2>3, FS_Surjection
  <2> QED
    BY <2>4, HeadsAre DEF Keys
<1> QED
  BY <1>1, <1>2, <1>3

LEMMA TermsType ==
  ASSUME NEW f \in Merges, NEW x \in Seq(Charset), NEW y \in Seq(Charset)
  PROVE  /\ IsFiniteSet(Keys(f, x) \cup Keys(f, y))
         /\ DOMAIN Terms(f, x, y) = Keys(f, x) \cup Keys(f, y)
         /\ \A k \in Keys(f, x) \cup Keys(f, y) :
              /\ Terms(f, x, y)[k] = Term(f, ValueOf(f, x, k), ValueOf(f, y, k))
              /\ Terms(f, x, y)[k] \in Int
<1>1. \A k : ValueOf(f, x, k) \in Int /\ ValueOf(f, y, k) \in Int
  BY ValueType
<1>2. \A k : Term(f, ValueOf(f, x, k), ValueOf(f, y, k)) \in Int
  BY <1>1, AddsNumbers
<1>3. IsFiniteSet(Keys(f, x) \cup Keys(f, y))
  BY ValueType, FS_Union
<1> QED
  BY <1>2, <1>3 DEF Terms

-------------------------------------------------------------------------------
(* A round goes from an element to the next one.                           *)

Onto(f, x, c) == IF f \in Sparse THEN After(x, After(x, c)) ELSE After(x, c)

LEMMA NextRank ==
  ASSUME NEW x \in Seq(Charset), NEW c, Stands(x, c), c.len > 0, After(x, c).len > 0
  PROVE  F!FieldNo(x, After(x, c).pos + 1) = F!FieldNo(x, c.pos + 1) + 1
<1> DEFINE d == After(x, c)
           p == c.pos + 1
           q == d.pos + 1
<1>1. Stands(x, d) /\ q > p /\ \A k \in F!Starts(x) : k > p => k >= q
  BY ReadStep
<1>2. p \in F!Starts(x) /\ q \in F!Starts(x) /\ F!Starts(x) \subseteq Nat
  BY <1>1, ReadFieldsAre DEF Stands
<1> HIDE DEF p, q
<1>3. F!FieldNo(x, q) = F!FieldNo(x, p) + 1
  BY <1>1, <1>2, NextFieldNo
<1> QED
  BY <1>3 DEF p, q

LEMMA ListOnward ==
  ASSUME NEW f \in Merges, f \notin Sparse, NEW x \in Seq(Charset), NEW c, Stands(x, c), c.len > 0,
         NEW i, NEW h, AtHead(f, x, c, i, h), NEW d, d = Onto(f, x, c), NEW j
  PROVE  /\ Stands(x, d) /\ Num(x, c) = At(x, Place(f, x, h))
         /\ Placed(f, x, d, j)
         /\ d.len > 0 => /\ \A n \in Heads(f, x) : n > h => n >= d.pos + 1
                         /\ d.pos + 1 > h
         /\ d.len = 0 => \A n \in Heads(f, x) : n <= h
<1>1. h \in F!ReadFields(x) /\ h = c.pos + 1 /\ d = After(x, c)
  BY DEF AtHead, Heads, Place, Onto
<1>2. /\ Stands(x, d)
      /\ d.len > 0 => d.pos + 1 > h /\ \A q \in F!Starts(x) : q > h => q >= d.pos + 1
      /\ d.len = 0 => \A q \in F!ReadFields(x) : q <= h
  BY <1>1, ReadStep
<1>3. Num(x, c) = At(x, Place(f, x, h))
  BY <1>1, Reads DEF Place
<1>4. d.len > 0 => /\ d.pos \in Nat /\ d.pos + 1 \in F!ReadFields(x)
                   /\ d.pos + 1 \in F!Starts(x)
  BY <1>2, ReadFieldsAre DEF Stands, Inside
<1>5. Placed(f, x, d, j)
  BY <1>4 DEF Placed, AtHead, Heads, Place
<1> QED
  BY <1>2, <1>3, <1>4, <1>5, ReadFieldsAre DEF Heads

\* The next index, and behind it the value, of a sparse vector.
LEMMA NextPair ==
  ASSUME NEW f \in Sparse, NEW x \in Seq(Charset), NEW c, Stands(x, c), IsIndex(x, c),
         NEW d, d = After(x, c)
  PROVE  /\ Stands(x, d) /\ Placed(f, x, d, Num(x, c))
         /\ d.len > 0 => c.len > 0 /\ c.pos + 1 \in Heads(f, x) /\ F!SecondOf(x, c.pos + 1) = d.pos + 1
         /\ d.len = 0 /\ c.len > 0 => \A n \in Heads(f, x) : n < c.pos + 1
<1>1. CASE c.len > 0
  <2> DEFINE p == c.pos + 1
             r == NextNumber(x, c)
  <2>1. p = c.pos + 1 /\ F!FieldNo(x, p) % 2 = 1 /\ d = r.cur
    BY <1>1 DEF IsIndex, After
  <2> HIDE DEF p, r
  <2>2. r = NextNumber(x, c)
    BY DEF r
  <2>3. /\ Stands(x, d) /\ p \in Nat
        /\ d.len > 0 => p \in F!PairStarts(x) /\ F!SecondOf(x, p) = d.pos + 1
        /\ d.len = 0 => \A q \in F!PairStarts(x) : q < p
    BY <1>1, <2>1, <2>2, FirstOfPair
  <2>4. Num(x, c) = At(x, p)
    BY <1>1, <2>1, Reads
  <2>5. Placed(f, x, d, Num(x, c))
    BY <2>3, <2>4 DEF Placed, AtHead, Heads, Place, Key
  <2> QED
    BY <1>1, <2>1, <2>3, <2>5 DEF Heads
<1>2. CASE ~(c.len > 0)
  <2>1. c.len = 0
    BY <1>2 DEF Stands, Inside
  <2>2. d = c
    BY <2>1, ReadNothing DEF After
  <2> QED
    BY <1>2, <2>1, <2>2 DEF Placed
<1> QED
  BY <1>1, <1>2

LEMMA PairOnward ==
  ASSUME NEW f \in Sparse, NEW x \in Seq(Charset), NEW c, Stands(x, c), c.len > 0,
         NEW i, NEW h, AtHead(f, x, c, i, h), NEW d, d = Onto(f, x, c)
  PROVE  /\ Stands(x, d) /\ Num(x, c) = At(x, Place(f, x, h))
         /\ Placed(f, x, d, Num(x, After(x, c)))
         /\ d.len > 0 => /\ \A n \in Heads(f, x) : n > h => Place(f, x, n) >= d.pos + 1
                         /\ d.pos + 1 > Place(f, x, h)
         /\ d.len = 0 => \A n \in Heads(f, x) : n <= h
<1> DEFINE e == After(x, c)
           r == NextNumber(x, c)
<1>1. /\ h \in F!PairStarts(x) /\ F!SecondOf(x, h) = c.pos + 1 /\ d = After(x, e) /\ e = r.cur
      /\ Place(f, x, h) = c.pos + 1
  BY DEF AtHead, Heads, Place, Onto, After
<1>2. Num(x, c) = At(x, Place(f, x, h))
  BY <1>1, Reads
<1>3. r = NextNumber(x, c)
  OBVIOUS
<1> HIDE DEF e, r
<1>4. /\ Stands(x, e)
      /\ e.len > 0 => F!FieldNo(x, e.pos + 1) % 2 = 1 /\ e.pos + 1 > h
      /\ \A n \in F!PairStarts(x) : n > h => e.len > 0 /\ n >= e.pos + 1
  BY <1>1, <1>3, PastPair
<1>5. IsIndex(x, e)
  BY <1>4 DEF IsIndex
<1>6. /\ Stands(x, d) /\ Placed(f, x, d, Num(x, e))
      /\ d.len > 0 => e.len > 0 /\ e.pos + 1 \in Heads(f, x) /\ F!SecondOf(x, e.pos + 1) = d.pos + 1
      /\ d.len = 0 /\ e.len > 0 => \A n \in Heads(f, x) : n < e.pos + 1
  BY <1>1, <1>4, <1>5, NextPair
<1>7. \A n \in Heads(f, x) : n \in F!PairStarts(x) /\ n \in Nat /\ n \in F!Starts(x)
  BY PairsAre, ReadFieldsAre DEF Heads
<1>8. ASSUME d.len > 0, NEW n \in Heads(f, x), n > h PROVE Place(f, x, n) >= d.pos + 1
  <2>1. n >= e.pos + 1 /\ e.pos + 1 \in Heads(f, x) /\ F!SecondOf(x, e.pos + 1) = d.pos + 1
    BY <1>4, <1>6, <1>7, <1>8
  <2> DEFINE m == e.pos + 1
  <2>2. m \in F!PairStarts(x) /\ m \in Nat /\ n \in F!PairStarts(x) /\ n \in Nat /\ n >= m
        /\ n \in F!Starts(x) /\ F!SecondOf(x, m) = d.pos + 1
    BY <1>7, <2>1
  <2> HIDE DEF m
  <2>3. /\ F!SecondOf(x, n) = n + F!RunLen(x, n) + 1 /\ F!RunLen(x, n) \in Nat
        /\ \A j \in F!Starts(x) : j > m => j >= F!SecondOf(x, m)
    BY <2>2, PairsAre
  <2>4. CASE n = m
    BY <2>2, <2>3, <2>4 DEF Place
  <2>5. CASE n # m
    <3>1. n >= d.pos + 1
      BY <2>2, <2>3, <2>5
    <3>2. d.pos \in Nat
      BY <1>6 DEF Stands, Inside
    <3> QED
      BY <2>2, <2>3, <3>1, <3>2 DEF Place
  <2> QED
    BY <2>4, <2>5
<1>9. ASSUME d.len > 0 PROVE d.pos + 1 > Place(f, x, h)
  <2> DEFINE m == e.pos + 1
  <2>1. m \in F!PairStarts(x) /\ F!SecondOf(x, m) = d.pos + 1 /\ m > h /\ h \in F!PairStarts(x)
    BY <1>1, <1>4, <1>6, <1>7, <1>9
  <2> HIDE DEF m
  <2>2. /\ m \in F!Starts(x) /\ m \in Nat /\ F!SecondOf(x, m) = m + F!RunLen(x, m) + 1
        /\ F!RunLen(x, m) \in Nat /\ F!SecondOf(x, h) \in F!Starts(x)
        /\ \A j \in F!Starts(x) : j > h => j >= F!SecondOf(x, h)
    BY <2>1, PairsAre, ReadFieldsAre
  <2>3. F!SecondOf(x, h) \in Nat /\ d.pos \in Nat
    BY <1>6, <2>2, ReadFieldsAre DEF Stands, Inside
  <2> QED
    BY <1>1, <2>1, <2>2, <2>3
<1>10. ASSUME d.len = 0, NEW n \in Heads(f, x) PROVE n <= h
  <2>1. n \in Nat /\ h \in Nat /\ n \in F!PairStarts(x)
    BY <1>1, <1>7, PairsAre
  <2> SUFFICES ASSUME n > h PROVE FALSE
    BY <2>1
  <2>2. e.len > 0 /\ n >= e.pos + 1 /\ e.pos \in Nat
    BY <1>4, <2>1 DEF Stands, Inside
  <2> QED
    BY <1>6, <1>10, <2>1, <2>2
<1> QED
  BY <1>2, <1>6, <1>8, <1>9, <1>10 DEF e

LEMMA KeysAre ==
  ASSUME NEW f \in Merges, NEW x \in Seq(Charset), NEW c
  PROVE  /\ Ahead(f, x, c) \subseteq Keys(f, x)
         /\ c.len = 0 => Ahead(f, x, c) = {}
BY DEF Ahead, Left, Keys

\* From c to d: the element with key k is the first of those that are left, and
\* the others are left after it.
Moves(f, x, c, d, k) ==
  /\ Stands(x, d) /\ Num(x, c) = ValueOf(f, x, k)
  /\ k \in Keys(f, x) /\ k \in Ahead(f, x, c) /\ Ahead(f, x, d) = Ahead(f, x, c) \ {k}
  /\ \A l \in Ahead(f, x, c) : l \in Int /\ k \in Int /\ l >= k

LEMMA Advance ==
  ASSUME NEW f \in Merges, NEW x \in Seq(Charset), Rising(f, x),
         NEW c, Stands(x, c), c.len > 0, NEW i, NEW h, AtHead(f, x, c, i, h),
         NEW j, f \in Sparse => j = Num(x, After(x, c))
  PROVE  /\ Placed(f, x, Onto(f, x, c), j)
         /\ Moves(f, x, c, Onto(f, x, c), Key(f, x, h))
<1> DEFINE d == Onto(f, x, c)
           k == Key(f, x, h)
<1>0. d = Onto(f, x, c) /\ k = Key(f, x, h)
  OBVIOUS
<1> HIDE DEF d, k
<1>1. /\ Stands(x, d) /\ Num(x, c) = At(x, Place(f, x, h)) /\ Placed(f, x, d, j)
      /\ d.len > 0 => /\ \A n \in Heads(f, x) : n > h => Place(f, x, n) >= d.pos + 1
                      /\ d.pos + 1 > Place(f, x, h)
      /\ d.len = 0 => \A n \in Heads(f, x) : n <= h
  <2>1. CASE f \in Sparse
    BY <1>0, <2>1, PairOnward
  <2>2. CASE f \notin Sparse
    <3>1. \A n : Place(f, x, n) = n
      BY <2>2 DEF Place
    <3>2. /\ Stands(x, d) /\ Num(x, c) = At(x, Place(f, x, h)) /\ Placed(f, x, d, j)
          /\ d.len > 0 => /\ \A n \in Heads(f, x) : n > h => n >= d.pos + 1
                          /\ d.pos + 1 > h
          /\ d.len = 0 => \A n \in Heads(f, x) : n <= h
      BY <1>0, <2>2, ListOnward
    <3> QED
      BY <3>1, <3>2
  <2> QED
    BY <2>1, <2>2
<1>2. h \in Heads(f, x) /\ Place(f, x, h) = c.pos + 1
  BY DEF AtHead
<1>3. \A n \in Heads(f, x) : /\ n \in Nat /\ Place(f, x, n) \in Nat /\ Key(f, x, n) \in Int
                             /\ n < h => Key(f, x, n) < k /\ Place(f, x, n) < Place(f, x, h)
                             /\ n > h => Key(f, x, n) > k /\ Place(f, x, n) > Place(f, x, h)
  BY <1>0, <1>2, HeadsAre, KeysRise
<1>4. Left(f, x, c) = {n \in Heads(f, x) : n >= h}
  <2>1. \A n \in Heads(f, x) : Place(f, x, n) >= c.pos + 1 <=> n >= h
    BY <1>2, <1>3
  <2> QED
    BY <2>1 DEF Left
<1>5. Left(f, x, d) = {n \in Heads(f, x) : n > h}
  <2>0. d.len \in Nat /\ d.pos \in Nat
    BY <1>1 DEF Stands, Inside
  <2>1. \A n \in Heads(f, x) : d.len > 0 /\ Place(f, x, n) >= d.pos + 1 <=> n > h
    BY <1>1, <1>2, <1>3, <2>0
  <2> QED
    BY <2>1 DEF Left
<1>6. k \in Keys(f, x) /\ k \in Ahead(f, x, c) /\ k \in Int
  BY <1>0, <1>2, <1>3, <1>4 DEF Keys, Ahead
<1>7. \A l \in Ahead(f, x, c) : l \in Int /\ l >= k
  BY <1>0, <1>2, <1>3, <1>4 DEF Ahead
<1>8. Ahead(f, x, d) = Ahead(f, x, c) \ {k}
  <2>1. \A n \in Heads(f, x) : Key(f, x, n) # k <=> n # h
    BY <1>0, <1>2, <1>3
  <2>2. \A n \in Heads(f, x) : n > h <=> n >= h /\ n # h
    BY <1>2, <1>3
  <2>3. \A l : l \in Ahead(f, x, d) <=> \E n \in Heads(f, x) : n > h /\ l = Key(f, x, n)
    BY <1>5 DEF Ahead
  <2>4. \A l : l \in Ahead(f, x, c) <=> \E n \in Heads(f, x) : n >= h /\ l = Key(f, x, n)
    BY <1>4 DEF Ahead
  <2> QED
    BY <2>1, <2>2, <2>3, <2>4
<1>9. Num(x, c) = ValueOf(f, x, k)
  BY <1>0, <1>1, <1>2, ValueIs
<1> QED
  BY <1>1, <1>6, <1>7, <1>8, <1>9 DEF d, k, Moves

LEMMA FirstRank ==
  \A x \in Seq(Charset) : Start(x).len > 0 => F!FieldNo(x, Start(x).pos + 1) = 1
<1> SUFFICES ASSUME NEW x \in Seq(Charset), Len(x) > 0 PROVE F!FieldNo(x, 1) = 1
  BY DEF Start, Cursor
<1>1. {j \in F!Starts(x) : j <= 1} = {1}
  BY LenProperties DEF F!Starts
<1>2. F!FieldNo(x, 1) = F!Cardinality({1})
  BY <1>1 DEF F!FieldNo
<1> QED
  BY <1>2, FieldCardinality, FS_Singleton

\* All elements are left at the start.
LEMMA Begins ==
  ASSUME NEW f \in Merges, NEW x \in Seq(Charset), NEW i,
         f \in Sparse => i = Num(x, Start(x)),
         NEW d, d = IF f \in Sparse THEN After(x, Start(x)) ELSE Start(x)
  PROVE  Placed(f, x, d, i) /\ Ahead(f, x, d) = Keys(f, x)
<1> DEFINE c == Start(x)
<1>1. Stands(x, c) /\ IsIndex(x, c) /\ c.pos = 0 /\ c.len = Len(x) /\ Len(x) \in Nat
  BY StandsFirst, FirstIsIndex, LenProperties DEF Start, Cursor
<1>2. \A n \in Heads(f, x) : n \in Nat /\ n >= 1 /\ Len(x) > 0 /\ Place(f, x, n) >= n
                             /\ Place(f, x, n) \in Nat /\ n \in F!Starts(x)
  BY <1>1, HeadsAre
<1> HIDE DEF c
<1>3. CASE f \notin Sparse
  <2>1. d = c
    BY <1>3 DEF c
  <2>2. c.len > 0 => 1 \in F!ReadFields(x)
    BY <1>1 DEF Stands
  <2>3. Placed(f, x, d, i)
    BY <1>1, <1>3, <2>1, <2>2 DEF Placed, AtHead, Heads, Place
  <2>4. Left(f, x, d) = Heads(f, x)
    <3>1. \A n \in Heads(f, x) : c.len > 0 /\ Place(f, x, n) >= c.pos + 1
      BY <1>1, <1>2
    <3> QED
      BY <2>1, <3>1 DEF Left
  <2> QED
    BY <2>3, <2>4 DEF Ahead, Keys
<1>4. CASE f \in Sparse
  <2>1. d = After(x, c) /\ i = Num(x, c)
    BY <1>4 DEF c
  <2>2. /\ Stands(x, d) /\ Placed(f, x, d, Num(x, c))
        /\ d.len > 0 => c.len > 0 /\ c.pos + 1 \in Heads(f, x) /\ F!SecondOf(x, c.pos + 1) = d.pos + 1
        /\ d.len = 0 /\ c.len > 0 => \A n \in Heads(f, x) : n < c.pos + 1
    BY <1>1, <1>4, <2>1, NextPair
  <2>3. ASSUME NEW n \in Heads(f, x) PROVE d.len > 0 /\ Place(f, x, n) >= d.pos + 1
    <3>1. d.len > 0 /\ d.pos \in Nat
      <4>1. d.len \in Nat /\ d.pos \in Nat
        BY <2>2 DEF Stands, Inside
      <4> QED
        BY <1>1, <1>2, <2>2, <2>3, <4>1
    <3>2. 1 \in Heads(f, x) /\ F!SecondOf(x, 1) = d.pos + 1 /\ Place(f, x, 1) = d.pos + 1
      BY <1>1, <1>4, <2>2, <3>1 DEF Place
    <3>3. n = 1 \/ n > 1
      BY <1>2
    <3>4. n > 1 => n >= d.pos + 1
      <4>1. 1 \in F!PairStarts(x)
        BY <1>4, <3>2 DEF Heads
      <4>2. \A j \in F!Starts(x) : j > 1 => j >= F!SecondOf(x, 1)
        BY <4>1, PairsAre
      <4> QED
        BY <1>2, <3>2, <4>2
    <3> QED
      BY <1>2, <3>1, <3>2, <3>3, <3>4
  <2>4. Left(f, x, d) = Heads(f, x)
    BY <2>3 DEF Left
  <2> QED
    BY <2>1, <2>2, <2>4 DEF Ahead, Keys
<1> QED
  BY <1>3, <1>4

\* Then the element is read, and in x and y together the others are left.
Takes(f, x, c, d, y, e, n, k) ==
  /\ Precedes(f, x, d, y, n) /\ Precedes(f, y, n, x, d)
  /\ k \in Keys(f, x) /\ Num(x, c) = ValueOf(f, x, k)
  /\ k \in Ahead(f, x, c)
  /\ Ahead(f, x, d) \cup Ahead(f, y, n) = (Ahead(f, x, c) \cup Ahead(f, y, e)) \ {k}

\* A round with one argument alone: the other one has no such element.
LEMMA OneSide ==
  ASSUME NEW f, NEW x, NEW y, NEW c, NEW d, NEW k, NEW e, Moves(f, x, c, d, k),
         Precedes(f, x, c, y, e), Precedes(f, y, e, x, c), \A l \in Ahead(f, y, e) : k < l
  PROVE  Takes(f, x, c, d, y, e, e, k) /\ k \notin Keys(f, y)
<1>1. k \notin Keys(f, y) /\ k \notin Ahead(f, y, e)
  BY DEF Precedes, Moves
<1>2. Precedes(f, x, d, y, e) /\ Precedes(f, y, e, x, d)
  BY DEF Precedes, Moves
<1> QED
  BY <1>1, <1>2 DEF Moves, Takes

\* A round with both.
LEMMA BothSides ==
  ASSUME NEW f, NEW x, NEW y, NEW c, NEW d, NEW k, NEW e, NEW n,
         Moves(f, x, c, d, k), Moves(f, y, e, n, k),
         Precedes(f, x, c, y, e), Precedes(f, y, e, x, c)
  PROVE  Takes(f, x, c, d, y, e, n, k) /\ Num(y, e) = ValueOf(f, y, k)
<1>1. Precedes(f, x, d, y, n) /\ Precedes(f, y, n, x, d)
  BY DEF Precedes, Moves
<1> QED
  BY <1>1 DEF Moves, Takes

LEMMA OneMore ==
  ASSUME NEW f \in Merges, NEW x \in Seq(Charset), NEW y \in Seq(Charset),
         NEW R, R \subseteq Keys(f, x) \cup Keys(f, y), NEW k \in R
  PROVE  SumFunctionOnSet(Terms(f, x, y), (Keys(f, x) \cup Keys(f, y)) \ (R \ {k}))
           = SumFunctionOnSet(Terms(f, x, y), (Keys(f, x) \cup Keys(f, y)) \ R)
               + Term(f, ValueOf(f, x, k), ValueOf(f, y, k))
<1> DEFINE K == Keys(f, x) \cup Keys(f, y)
<1>0. R \subseteq K
  OBVIOUS
<1> DEFINE S == K \ (R \ {k})
           g == Terms(f, x, y)
<1>1. IsFiniteSet(K) /\ \A l \in K : g[l] \in Int /\ g[l] = Term(f, ValueOf(f, x, l), ValueOf(f, y, l))
  BY TermsType
<1>2. S \ {k} = K \ R /\ k \in S /\ IsFiniteSet(S) /\ IsFiniteSet(K \ R) /\ S \subseteq K
  BY <1>0, <1>1, FS_Subset
<1> HIDE DEF S, g
<1>3. SumFunctionOnSet(g, S) = g[k] + SumFunctionOnSet(g, S \ {k})
  BY <1>1, <1>2, SumTakesOut
<1>4. SumFunctionOnSet(g, K \ R) \in Int
  BY <1>1, <1>2, SumType
<1>5. SumFunctionOnSet(g, S) = g[k] + SumFunctionOnSet(g, K \ R)
  BY <1>2, <1>3, Zenon
<1>6. g[k] = Term(f, ValueOf(f, x, k), ValueOf(f, y, k)) /\ g[k] \in Int
  BY <1>0, <1>1
<1> QED
  BY <1>4, <1>5, <1>6 DEF S, g

\* The sum over what has been read of x and y.
Total(f, x, y, c, e) ==
  SumFunctionOnSet(Terms(f, x, y),
                   (Keys(f, x) \cup Keys(f, y)) \ (Ahead(f, x, c) \cup Ahead(f, y, e)))

LEMMA TakesSum ==
  ASSUME NEW f \in Merges, NEW x \in Seq(Charset), NEW y \in Seq(Charset),
         NEW c, NEW d, NEW e, NEW n, NEW k, Takes(f, x, c, d, y, e, n, k)
  PROVE  /\ Total(f, x, y, d, n)
              = Total(f, x, y, c, e) + Term(f, ValueOf(f, x, k), ValueOf(f, y, k))
         /\ Total(f, y, x, n, d)
              = Total(f, y, x, e, c) + Term(f, ValueOf(f, y, k), ValueOf(f, x, k))
<1> DEFINE R == Ahead(f, x, c) \cup Ahead(f, y, e)
<1>1. R \subseteq Keys(f, x) \cup Keys(f, y) /\ k \in R /\ R \subseteq Keys(f, y) \cup Keys(f, x)
  BY KeysAre DEF Takes
<1>2. /\ R = Ahead(f, x, c) \cup Ahead(f, y, e) /\ R = Ahead(f, y, e) \cup Ahead(f, x, c)
      /\ R \ {k} = Ahead(f, x, d) \cup Ahead(f, y, n)
      /\ R \ {k} = Ahead(f, y, n) \cup Ahead(f, x, d)
  BY DEF Takes
<1> HIDE DEF R
<1>3. SumFunctionOnSet(Terms(f, x, y), (Keys(f, x) \cup Keys(f, y)) \ (R \ {k}))
        = SumFunctionOnSet(Terms(f, x, y), (Keys(f, x) \cup Keys(f, y)) \ R)
            + Term(f, ValueOf(f, x, k), ValueOf(f, y, k))
  BY <1>1, OneMore
<1>4. SumFunctionOnSet(Terms(f, y, x), (Keys(f, y) \cup Keys(f, x)) \ (R \ {k}))
        = SumFunctionOnSet(Terms(f, y, x), (Keys(f, y) \cup Keys(f, x)) \ R)
            + Term(f, ValueOf(f, y, k), ValueOf(f, x, k))
  BY <1>1, OneMore
<1>5. Total(f, x, y, d, n) = Total(f, x, y, c, e) + Term(f, ValueOf(f, x, k), ValueOf(f, y, k))
  BY <1>2, <1>3, Zenon DEF Total
<1>6. Total(f, y, x, n, d) = Total(f, y, x, e, c) + Term(f, ValueOf(f, y, k), ValueOf(f, x, k))
  BY <1>2, <1>4, Zenon DEF Total
<1> QED
  BY <1>5, <1>6

LEMMA TermAlone ==
  ASSUME NEW f, NEW v \in Int
  PROVE  Term(f, v, 0) = Alone(f, v) /\ Term(f, 0, v) = Alone(f, v)
<1>1. v * 0 = 0 /\ 0 * v = 0 /\ v - 0 = v /\ 0 - v = -v /\ (-v) * (-v) = v * v
  OBVIOUS
<1> QED
  BY <1>1 DEF Term, Alone

\* Where either argument is used up, a product has nothing more to add.
LEMMA ProductsEnd ==
  ASSUME NEW f \in {"dotf", "doti"}, NEW x \in Seq(Charset), NEW y \in Seq(Charset), NEW c, NEW d,
         Precedes(f, x, c, y, d), Precedes(f, y, d, x, c), c.len = 0 \/ d.len = 0
  PROVE  Total(f, x, y, c, d) = SumFunctionOnSet(Terms(f, x, y), Keys(f, x) \cup Keys(f, y))
<1> DEFINE R == Ahead(f, x, c) \cup Ahead(f, y, d)
<1>1. f \in Merges
  BY DEF Merges
<1>2. /\ Ahead(f, x, c) = {} \/ Ahead(f, y, d) = {}
      /\ Ahead(f, x, c) \subseteq Keys(f, x) /\ Ahead(f, y, d) \subseteq Keys(f, y)
      /\ Keys(f, x) \subseteq Int /\ Keys(f, y) \subseteq Int
  BY <1>1, KeysAre, ValueType DEF Ahead, Left
<1>3. \A k \in R : k \notin Keys(f, x) \/ k \notin Keys(f, y)
  <2>1. \A k \in Keys(f, x) \cup Keys(f, y) : ~(k < k)
    BY <1>2
  <2> QED
    BY <1>2, <2>1 DEF Precedes
<1>4. R \subseteq Keys(f, x) \cup Keys(f, y)
  BY <1>2
<1>5. ASSUME NEW k \in R PROVE Terms(f, x, y)[k] = 0
  <2>1. ValueOf(f, x, k) \in Int /\ ValueOf(f, y, k) \in Int
        /\ (ValueOf(f, x, k) = 0 \/ ValueOf(f, y, k) = 0)
    BY <1>1, <1>3, ValueType
  <2>2. Terms(f, x, y)[k] = Term(f, ValueOf(f, x, k), ValueOf(f, y, k))
    BY <1>1, <1>4, TermsType
  <2>3. \A v : Alone(f, v) = 0
    BY DEF Alone
  <2> QED
    BY <2>1, <2>2, <2>3, TermAlone
<1> DEFINE K == Keys(f, x) \cup Keys(f, y)
<1>6. IsFiniteSet(K) /\ \A l \in K : Terms(f, x, y)[l] \in Int
  BY <1>1, TermsType
<1>7. \A l \in K \ (K \ R) : Terms(f, x, y)[l] = 0
  BY <1>5
<1>8. SumFunctionOnSet(Terms(f, x, y), K) = SumFunctionOnSet(Terms(f, x, y), K \ R)
  BY <1>6, <1>7, SumSkips
<1> QED
  BY <1>8 DEF Total

-------------------------------------------------------------------------------
(***************************************************************************)
(* Both cursors stand at elements; what one argument has given comes       *)
(* before what is left of the other; and dp is the sum over what has been  *)
(* read of either.                                                         *)
(***************************************************************************)
Merging ==
  /\ Placed(fn, x1, c1, i1) /\ Placed(fn, x2, c2, i2)
  /\ Precedes(fn, x1, c1, x2, c2) /\ Precedes(fn, x2, c2, x1, c1)
  /\ dp = Total(fn, x1, x2, c1, c2)

\* Lists are read in step.
Level == fn \notin Sparse /\ Both => F!FieldNo(x1, c1.pos + 1) = F!FieldNo(x2, c2.pos + 1)

Sorted == fn \in Merges /\ Rising(fn, x1) /\ Rising(fn, x2)

MergeInv ==
  Sorted =>
    /\ pc \in {"main", "rest1", "rest2"} => Merging
    /\ pc = "main" => Level
    /\ pc = "rest1" => ~Both
    /\ pc = "rest2" => c1.len = 0
    /\ pc = "done" =>
         dp = SumFunctionOnSet(Terms(fn, x1, x2), Keys(fn, x1) \cup Keys(fn, x2))

\* The element at a cursor, and the step to the next one.
LEMMA AtElement ==
  ASSUME NEW f \in Merges, NEW x \in Seq(Charset), Rising(f, x),
         NEW c, Stands(x, c), c.len > 0, NEW i, Placed(f, x, c, i)
  PROVE  \E h : AtHead(f, x, c, i, h) /\ Moves(f, x, c, Onto(f, x, c), Key(f, x, h))
<1>1. PICK h : AtHead(f, x, c, i, h)
  BY DEF Placed
<1> DEFINE j == Num(x, After(x, c))
<1>2. j = Num(x, After(x, c))
  OBVIOUS
<1> HIDE DEF j
<1>3. Moves(f, x, c, Onto(f, x, c), Key(f, x, h))
  BY <1>1, <1>2, Advance
<1> QED
  BY <1>1, <1>3

LEMMA FirstMoves ==
  ASSUME Typed, Sorted, Merging, c1.len > 0,
         c2.len = 0 \/ (fn \in Sparse /\ i1 < i2),
         dp' = dp + Alone(fn, Num(x1, c1)), c1' = Onto(fn, x1, c1),
         fn \in Sparse => i1' = Num(x1, After(x1, c1)),
         UNCHANGED <<fn, x1, x2, c2, i2>>
  PROVE  Merging'
<1>1. /\ x1 \in Seq(Charset) /\ x2 \in Seq(Charset) /\ Stands(x1, c1) /\ Stands(x2, c2)
      /\ fn \in Merges /\ Rising(fn, x1) /\ Rising(fn, x2) /\ i1 \in Int /\ i2 \in Int
      /\ c2.len \in Nat
  BY DEF Typed, TypeOK, Standing, Sorted, Stands, Inside
<1>2. /\ Placed(fn, x1, c1, i1) /\ Placed(fn, x2, c2, i2)
      /\ Precedes(fn, x1, c1, x2, c2) /\ Precedes(fn, x2, c2, x1, c1)
      /\ dp = Total(fn, x1, x2, c1, c2)
  BY DEF Merging
<1>3. PICK h : AtHead(fn, x1, c1, i1, h) /\ Moves(fn, x1, c1, Onto(fn, x1, c1), Key(fn, x1, h))
  BY <1>1, <1>2, AtElement
<1> DEFINE k == Key(fn, x1, h)
           d == Onto(fn, x1, c1)
<1>4. Placed(fn, x1, d, i1')
  BY <1>1, <1>3, Advance
<1>5. Moves(fn, x1, c1, d, k) /\ (fn \in Sparse => i1 = k) /\ c1' = d
  BY <1>3 DEF AtHead
<1> HIDE DEF k, d
<1>6. \A l \in Ahead(fn, x2, c2) : k < l
  <2>1. CASE c2.len = 0
    BY <1>1, <2>1, KeysAre
  <2>2. CASE c2.len > 0
    <3>1. PICK g : AtHead(fn, x2, c2, i2, g) /\ Moves(fn, x2, c2, Onto(fn, x2, c2), Key(fn, x2, g))
      BY <1>1, <1>2, <2>2, AtElement
    <3>2. i2 = Key(fn, x2, g) /\ k < i2
      BY <1>5, <2>2, <3>1 DEF AtHead
    <3>3. \A l \in Ahead(fn, x2, c2) : l \in Int /\ l >= i2
      BY <3>1, <3>2 DEF Moves
    <3>4. k \in Int
      BY <1>5 DEF Moves
    <3> QED
      BY <1>1, <3>2, <3>3, <3>4
  <2> QED
    BY <1>1, <2>1, <2>2
<1>7. Takes(fn, x1, c1, d, x2, c2, c2, k) /\ k \notin Keys(fn, x2)
  BY <1>2, <1>5, <1>6, OneSide
<1>8. dp' = Total(fn, x1, x2, d, c2)
  <2>1. Total(fn, x1, x2, d, c2)
          = Total(fn, x1, x2, c1, c2) + Term(fn, ValueOf(fn, x1, k), ValueOf(fn, x2, k))
    BY <1>1, <1>7, TakesSum
  <2>2. ValueOf(fn, x1, k) = Num(x1, c1) /\ ValueOf(fn, x1, k) \in Int /\ ValueOf(fn, x2, k) = 0
    BY <1>1, <1>7, ValueType DEF Takes
  <2>3. Term(fn, ValueOf(fn, x1, k), 0) = Alone(fn, ValueOf(fn, x1, k))
    BY <2>2, TermAlone
  <2> QED
    BY <1>2, <2>1, <2>2, <2>3
<1>9. Precedes(fn, x1, d, x2, c2) /\ Precedes(fn, x2, c2, x1, d)
  BY <1>7 DEF Takes
<1> QED
  BY <1>2, <1>4, <1>5, <1>8, <1>9 DEF Merging

LEMMA SecondMoves ==
  ASSUME Typed, Sorted, Merging, c2.len > 0,
         c1.len = 0 \/ (fn \in Sparse /\ i1 > i2),
         dp' = dp + Alone(fn, Num(x2, c2)), c2' = Onto(fn, x2, c2),
         fn \in Sparse => i2' = Num(x2, After(x2, c2)),
         UNCHANGED <<fn, x1, x2, c1, i1>>
  PROVE  Merging'
<1>1. /\ x1 \in Seq(Charset) /\ x2 \in Seq(Charset) /\ Stands(x1, c1) /\ Stands(x2, c2)
      /\ fn \in Merges /\ Rising(fn, x1) /\ Rising(fn, x2) /\ i1 \in Int /\ i2 \in Int
      /\ c1.len \in Nat
  BY DEF Typed, TypeOK, Standing, Sorted, Stands, Inside
<1>2. /\ Placed(fn, x1, c1, i1) /\ Placed(fn, x2, c2, i2)
      /\ Precedes(fn, x1, c1, x2, c2) /\ Precedes(fn, x2, c2, x1, c1)
      /\ dp = Total(fn, x1, x2, c1, c2)
  BY DEF Merging
<1>3. PICK h : AtHead(fn, x2, c2, i2, h) /\ Moves(fn, x2, c2, Onto(fn, x2, c2), Key(fn, x2, h))
  BY <1>1, <1>2, AtElement
<1> DEFINE k == Key(fn, x2, h)
           d == Onto(fn, x2, c2)
<1>4. Placed(fn, x2, d, i2')
  BY <1>1, <1>3, Advance
<1>5. Moves(fn, x2, c2, d, k) /\ (fn \in Sparse => i2 = k) /\ c2' = d
  BY <1>3 DEF AtHead
<1> HIDE DEF k, d
<1>6. \A l \in Ahead(fn, x1, c1) : k < l
  <2>1. CASE c1.len = 0
    BY <1>1, <2>1, KeysAre
  <2>2. CASE c1.len > 0
    <3>1. PICK g : AtHead(fn, x1, c1, i1, g) /\ Moves(fn, x1, c1, Onto(fn, x1, c1), Key(fn, x1, g))
      BY <1>1, <1>2, <2>2, AtElement
    <3>2. i1 = Key(fn, x1, g) /\ k < i1
      BY <1>1, <1>5, <2>2, <3>1 DEF AtHead
    <3>3. \A l \in Ahead(fn, x1, c1) : l \in Int /\ l >= i1
      BY <3>1, <3>2 DEF Moves
    <3>4. k \in Int
      BY <1>5 DEF Moves
    <3> QED
      BY <1>1, <3>2, <3>3, <3>4
  <2> QED
    BY <1>1, <2>1, <2>2
<1>7. Takes(fn, x2, c2, d, x1, c1, c1, k) /\ k \notin Keys(fn, x1)
  BY <1>2, <1>5, <1>6, OneSide
<1>8. dp' = Total(fn, x1, x2, c1, d)
  <2>1. Total(fn, x1, x2, c1, d)
          = Total(fn, x1, x2, c1, c2) + Term(fn, ValueOf(fn, x1, k), ValueOf(fn, x2, k))
    BY <1>1, <1>7, TakesSum
  <2>2. ValueOf(fn, x2, k) = Num(x2, c2) /\ ValueOf(fn, x2, k) \in Int /\ ValueOf(fn, x1, k) = 0
    BY <1>1, <1>7, ValueType DEF Takes
  <2>3. Term(fn, 0, ValueOf(fn, x2, k)) = Alone(fn, ValueOf(fn, x2, k))
    BY <2>2, TermAlone
  <2> QED
    BY <1>2, <2>1, <2>2, <2>3
<1>9. Precedes(fn, x1, c1, x2, d) /\ Precedes(fn, x2, d, x1, c1)
  BY <1>7 DEF Takes
<1> QED
  BY <1>2, <1>4, <1>5, <1>8, <1>9 DEF Merging

LEMMA BothMove ==
  ASSUME Typed, Sorted, Merging, Level, Both, fn \in Sparse => i1 = i2,
         dp' = dp + Term(fn, Num(x1, c1), Num(x2, c2)),
         c1' = Onto(fn, x1, c1), fn \in Sparse => i1' = Num(x1, After(x1, c1)),
         c2' = Onto(fn, x2, c2), fn \in Sparse => i2' = Num(x2, After(x2, c2)),
         UNCHANGED <<fn, x1, x2>>
  PROVE  Merging' /\ Level'
<1>1. /\ x1 \in Seq(Charset) /\ x2 \in Seq(Charset) /\ Stands(x1, c1) /\ Stands(x2, c2)
      /\ fn \in Merges /\ Rising(fn, x1) /\ Rising(fn, x2) /\ c1.len > 0 /\ c2.len > 0
  BY DEF Typed, Standing, Sorted, Both
<1>2. /\ Placed(fn, x1, c1, i1) /\ Placed(fn, x2, c2, i2)
      /\ Precedes(fn, x1, c1, x2, c2) /\ Precedes(fn, x2, c2, x1, c1)
      /\ dp = Total(fn, x1, x2, c1, c2)
  BY DEF Merging
<1>3. PICK h : AtHead(fn, x1, c1, i1, h) /\ Moves(fn, x1, c1, Onto(fn, x1, c1), Key(fn, x1, h))
  BY <1>1, <1>2, AtElement
<1>4. PICK g : AtHead(fn, x2, c2, i2, g) /\ Moves(fn, x2, c2, Onto(fn, x2, c2), Key(fn, x2, g))
  BY <1>1, <1>2, AtElement
<1>5. Placed(fn, x1, Onto(fn, x1, c1), i1')
  BY <1>1, <1>3, Advance
<1>6. Placed(fn, x2, Onto(fn, x2, c2), i2')
  BY <1>1, <1>4, Advance
<1>7. Key(fn, x1, h) = Key(fn, x2, g)
  <2>1. CASE fn \in Sparse
    BY <1>3, <1>4, <2>1 DEF AtHead
  <2>2. CASE fn \notin Sparse
    <3>1. h = c1.pos + 1 /\ g = c2.pos + 1
      BY <1>3, <1>4, <2>2 DEF AtHead, Place
    <3> QED
      BY <2>2, <3>1 DEF Key, Level
  <2> QED
    BY <2>1, <2>2
<1>8. fn \notin Sparse /\ Both' => F!FieldNo(x1, c1'.pos + 1) = F!FieldNo(x2, c2'.pos + 1)
  <2> SUFFICES ASSUME fn \notin Sparse, Both'
               PROVE  F!FieldNo(x1, c1'.pos + 1) = F!FieldNo(x2, c2'.pos + 1)
    OBVIOUS
  <2>1. c1' = After(x1, c1) /\ c2' = After(x2, c2) /\ c1'.len > 0 /\ c2'.len > 0
    BY DEF Both, Onto
  <2>2. F!FieldNo(x1, c1'.pos + 1) = F!FieldNo(x1, c1.pos + 1) + 1
    BY <1>1, <2>1, NextRank
  <2>3. F!FieldNo(x2, c2'.pos + 1) = F!FieldNo(x2, c2.pos + 1) + 1
    BY <1>1, <2>1, NextRank
  <2> QED
    BY <2>2, <2>3 DEF Level
<1> DEFINE k == Key(fn, x1, h)
           d == Onto(fn, x1, c1)
           n == Onto(fn, x2, c2)
<1>9. Moves(fn, x1, c1, d, k) /\ Moves(fn, x2, c2, n, k) /\ c1' = d /\ c2' = n
  BY <1>3, <1>4, <1>7
<1>10. Placed(fn, x1, d, i1') /\ Placed(fn, x2, n, i2')
  BY <1>5, <1>6
<1> HIDE DEF k, d, n
<1>11. Takes(fn, x1, c1, d, x2, c2, n, k) /\ Num(x2, c2) = ValueOf(fn, x2, k)
  BY <1>2, <1>9, BothSides
<1>12. dp' = Total(fn, x1, x2, d, n)
  <2>1. Total(fn, x1, x2, d, n)
          = Total(fn, x1, x2, c1, c2) + Term(fn, ValueOf(fn, x1, k), ValueOf(fn, x2, k))
    BY <1>1, <1>11, TakesSum
  <2>2. ValueOf(fn, x1, k) = Num(x1, c1)
    BY <1>11 DEF Takes
  <2> QED
    BY <1>2, <1>11, <2>1, <2>2
<1>13. Precedes(fn, x1, d, x2, n) /\ Precedes(fn, x2, n, x1, d)
  BY <1>11 DEF Takes
<1> QED
  BY <1>8, <1>9, <1>10, <1>12, <1>13 DEF Merging, Level

LEMMA CallMerges ==
  ASSUME NEW f \in Merges, NEW x \in Args, NEW y \in Args,
         fn' = f, x1' = x, x2' = y, dp' = 0, pc' = "main",
         c1' = IF f \in Sparse THEN After(x, Start(x)) ELSE Start(x),
         c2' = IF f \in Sparse THEN After(y, Start(y)) ELSE Start(y),
         f \in Sparse => i1' = Num(x, Start(x)) /\ i2' = Num(y, Start(y))
  PROVE  MergeInv'
<1>1. x \in Seq(Charset) /\ y \in Seq(Charset)
  BY ArgsAre
<1> DEFINE d == IF f \in Sparse THEN After(x, Start(x)) ELSE Start(x)
           e == IF f \in Sparse THEN After(y, Start(y)) ELSE Start(y)
<1>2. Placed(f, x, d, i1') /\ Ahead(f, x, d) = Keys(f, x)
  BY <1>1, Begins
<1>3. Placed(f, y, e, i2') /\ Ahead(f, y, e) = Keys(f, y)
  BY <1>1, Begins
<1>4. c1' = d /\ c2' = e
  OBVIOUS
<1>5. f \notin Sparse /\ d.len > 0 /\ e.len > 0 => F!FieldNo(x, d.pos + 1) = F!FieldNo(y, e.pos + 1)
  <2> SUFFICES ASSUME f \notin Sparse, d.len > 0, e.len > 0
               PROVE  F!FieldNo(x, d.pos + 1) = F!FieldNo(y, e.pos + 1)
    OBVIOUS
  <2>1. d = Start(x) /\ e = Start(y)
    OBVIOUS
  <2>2. \A z \in Seq(Charset) : Start(z).len > 0 => F!FieldNo(z, Start(z).pos + 1) = 1
    BY FirstRank
  <2> QED
    BY <1>1, <2>1, <2>2
<1> HIDE DEF d, e
<1>6. Precedes(f, x, d, y, e) /\ Precedes(f, y, e, x, d)
  BY <1>2, <1>3 DEF Precedes
<1>7. Total(f, x, y, d, e) = 0
  <2>1. (Keys(f, x) \cup Keys(f, y)) \ (Ahead(f, x, d) \cup Ahead(f, y, e)) = {}
    BY <1>2, <1>3
  <2> QED
    BY <2>1, SumOfNone DEF Total
<1>8. Merging'
  BY <1>2, <1>3, <1>4, <1>6, <1>7 DEF Merging
<1>9. Level'
  BY <1>4, <1>5 DEF Level, Both
<1> QED
  BY <1>8, <1>9 DEF MergeInv

LEMMA MergeInit == Init => MergeInv
BY DEF Init, MergeInv, Sorted, Merges

LEMMA MergeNext == Typed /\ MergeInv /\ [Next]_vars => MergeInv'
<1> SUFFICES ASSUME Typed, MergeInv, [Next]_vars PROVE MergeInv'
  OBVIOUS
<1>0. c1.len \in Nat /\ c2.len \in Nat /\ "jit" \notin Merges /\ "jit" \notin Sparse
      /\ Sparse = {"doti", "dist2i"}
  BY DEF Typed, TypeOK, Inside, Merges, Sparse
<1>1. ASSUME NEW f \in Functions, NEW x \in Args, NEW y \in Args,
             CallDense(f, x, y) \/ CallSparse(f, x, y) PROVE MergeInv'
  <2>1. CASE CallDense(f, x, y)
    BY <2>1, CallMerges DEF CallDense, Merges, Sparse
  <2>2. CASE CallSparse(f, x, y)
    BY <2>2, CallMerges DEF CallSparse, Merges, Sparse
  <2> QED
    BY <1>1, <2>1, <2>2
<1>2. ASSUME fn' = "jit" PROVE MergeInv'
  BY <1>0, <1>2 DEF MergeInv, Sorted
<1>3. ASSUME ~Sorted, UNCHANGED <<fn, x1, x2>> PROVE MergeInv'
  BY <1>3 DEF MergeInv, Sorted
<1>4. ASSUME Sorted, UNCHANGED <<fn, x1, x2>>, Continue, fn' # "jit" PROVE MergeInv'
  <2>1. pc \in {"main", "rest1", "rest2"} => Merging
    BY <1>4 DEF MergeInv
  <2>2. CASE DenseStep
    <3>1. Merging /\ Level /\ Both /\ fn \notin Sparse /\ pc' = "main"
      BY <1>0, <1>4, <2>2 DEF DenseStep, MergeInv
    <3>2. Merging' /\ Level'
      BY <1>4, <2>2, <3>1, BothMove DEF DenseStep, Onto
    <3> QED
      BY <3>1, <3>2 DEF MergeInv
  <2>3. CASE Match
    <3>1. Merging /\ Level /\ Both /\ fn \in Sparse /\ i1 = i2 /\ pc' = "main"
      BY <1>4, <2>3 DEF Match, MergeInv
    <3>2. Merging' /\ Level'
      BY <1>4, <2>3, <3>1, BothMove DEF Match, Onto
    <3> QED
      BY <3>1, <3>2 DEF MergeInv
  <2>4. CASE Behind1
    <3>1. Merging /\ c1.len > 0 /\ fn \in Sparse /\ i1 < i2 /\ pc' = "main"
      BY <1>4, <2>4 DEF Behind1, MergeInv, Both
    <3>2. Merging'
      BY <1>4, <2>4, <3>1, FirstMoves DEF Behind1, Onto
    <3> QED
      BY <1>4, <3>1, <3>2 DEF MergeInv, Level
  <2>5. CASE Behind2
    <3>1. Merging /\ c2.len > 0 /\ fn \in Sparse /\ i1 > i2 /\ pc' = "main"
      BY <1>4, <2>5 DEF Behind2, MergeInv, Both
    <3>2. Merging'
      BY <1>4, <2>5, <3>1, SecondMoves DEF Behind2, Onto
    <3> QED
      BY <1>4, <3>1, <3>2 DEF MergeInv, Level
  <2>6. CASE MainEnds
    <3>1. /\ Merging /\ ~Both /\ UNCHANGED <<fn, x1, x2, c1, c2, i1, i2, dp>>
          /\ pc' = IF fn \in {"dotf", "doti"} THEN "done" ELSE "rest1"
      BY <1>0, <1>4, <2>6 DEF MainEnds, MergeInv
    <3>2. CASE fn \in {"dotf", "doti"}
      <4>1. c1.len = 0 \/ c2.len = 0
        BY <1>0, <3>1 DEF Both
      <4>2. /\ x1 \in Seq(Charset) /\ x2 \in Seq(Charset)
            /\ Precedes(fn, x1, c1, x2, c2) /\ Precedes(fn, x2, c2, x1, c1)
            /\ dp = Total(fn, x1, x2, c1, c2)
        BY <1>4, <3>1 DEF Sorted, Typed, Standing, Merging
      <4>3. dp = SumFunctionOnSet(Terms(fn, x1, x2), Keys(fn, x1) \cup Keys(fn, x2))
        BY <3>2, <4>1, <4>2, ProductsEnd
      <4> QED
        BY <3>1, <3>2, <4>3 DEF MergeInv
    <3>3. CASE fn \notin {"dotf", "doti"}
      <4>1. pc' = "rest1" /\ Merging' /\ ~Both'
        BY <3>1, <3>3 DEF Merging, Both
      <4> QED
        BY <4>1 DEF MergeInv
    <3> QED
      BY <3>2, <3>3
  <2>7. CASE Rest1
    <3>1. /\ Merging /\ c1.len > 0 /\ c2.len = 0 /\ fn \in {"dist2f", "dist2i"} /\ pc' = "rest1"
          /\ UNCHANGED <<c2, i2>>
      BY <1>0, <1>4, <2>7 DEF Rest1, MergeInv, Both
    <3>2. c1' = Onto(fn, x1, c1) /\ (fn \in Sparse => i1' = Num(x1, After(x1, c1)))
          /\ dp' = dp + Alone(fn, Num(x1, c1))
      BY <1>0, <2>7, <3>1 DEF Rest1, RestOf, Onto
    <3>3. Merging'
      BY <1>4, <3>1, <3>2, FirstMoves
    <3> QED
      BY <3>1, <3>3 DEF MergeInv, Both
  <2>8. CASE Rest2
    <3>1. /\ Merging /\ c2.len > 0 /\ c1.len = 0 /\ fn \in {"dist2f", "dist2i"} /\ pc' = "rest2"
          /\ UNCHANGED <<c1, i1>>
      BY <1>4, <2>8 DEF Rest2, MergeInv
    <3>2. c2' = Onto(fn, x2, c2) /\ (fn \in Sparse => i2' = Num(x2, After(x2, c2)))
          /\ dp' = dp + Alone(fn, Num(x2, c2))
      BY <1>0, <2>8, <3>1 DEF Rest2, RestOf, Onto
    <3>3. Merging'
      BY <1>4, <3>1, <3>2, SecondMoves
    <3> QED
      BY <3>1, <3>3 DEF MergeInv
  <2>9. CASE Rest1Ends
    <3>1. /\ Merging /\ c1.len = 0 /\ pc' = "rest2" /\ UNCHANGED <<fn, x1, x2, c1, c2, i1, i2, dp>>
      BY <1>4, <2>9 DEF Rest1Ends, MergeInv
    <3>2. Merging' /\ c1'.len = 0
      BY <3>1 DEF Merging
    <3> QED
      BY <3>1, <3>2 DEF MergeInv
  <2>10. CASE Rest2Ends
    <3>1. /\ Merging /\ c1.len = 0 /\ c2.len = 0 /\ pc' = "done" /\ UNCHANGED <<fn, x1, x2, dp>>
      BY <1>4, <2>10 DEF Rest2Ends, MergeInv
    <3>2. (Keys(fn, x1) \cup Keys(fn, x2)) \ (Ahead(fn, x1, c1) \cup Ahead(fn, x2, c2))
            = Keys(fn, x1) \cup Keys(fn, x2)
      <4>1. Ahead(fn, x1, c1) = {} /\ Ahead(fn, x2, c2) = {}
        BY <3>1 DEF Ahead, Left
      <4> QED
        BY <4>1
    <3>3. dp = SumFunctionOnSet(Terms(fn, x1, x2), Keys(fn, x1) \cup Keys(fn, x2))
      BY <3>1, <3>2 DEF Merging, Total
    <3> QED
      BY <3>1, <3>3 DEF MergeInv
  <2>11. CASE JitSkip1 \/ JitSkip2 \/ JitFound \/ JitRest1 \/ JitRest2 \/ Return
    BY <1>4, <2>11 DEF JitSkip1, JitSkip2, JitFound, JitRest1, JitRest2, Return
  <2> QED
    BY <1>4, <2>2, <2>3, <2>4, <2>5, <2>6, <2>7, <2>8, <2>9, <2>10, <2>11 DEF Continue
<1>5. CASE UNCHANGED vars
  BY <1>5 DEF vars, MergeInv, Merging, Level, Sorted, Both
<1>6. ASSUME NEW x \in Args, NEW y \in Args, CallJit(x, y) PROVE MergeInv'
  BY <1>2, <1>6 DEF CallJit
<1>7. CASE Continue
  <2>1. fn' = "jit" \/ UNCHANGED <<fn, x1, x2>>
    BY <1>7 DEF Continue, DenseStep, Match, Behind1, Behind2, JitSkip1, JitSkip2, JitFound,
                MainEnds, Rest1, JitRest1, Rest1Ends, Rest2, JitRest2, Rest2Ends, Return
  <2> QED
    BY <1>2, <1>3, <1>4, <1>7, <2>1
<1> QED
  BY <1>1, <1>5, <1>6, <1>7 DEF Next

LEMMA MergeAlways == Spec => []MergeInv
BY MergeInit, MergeNext, TypedAlways, PTL DEF Spec

\* The reference of a list or of a sparse vector is that of the merge.
LEMMA ReferenceIs ==
  ASSUME MergeInv, pc = "done", Sorted
  PROVE  /\ fn \notin Sparse =>
              dp = SumFunction([k \in Ranks(x1) \cup Ranks(x2) |-> Term(fn, Item(x1, k), Item(x2, k))])
         /\ fn \in Sparse =>
              dp = SumFunction([k \in Indices(x1) \cup Indices(x2) |->
                                  Term(fn, Element(x1, k), Element(x2, k))])
<1>1. dp = SumFunctionOnSet(Terms(fn, x1, x2), Keys(fn, x1) \cup Keys(fn, x2))
  BY DEF MergeInv
<1>2. dp = SumFunction(Terms(fn, x1, x2))
  <2>1. DOMAIN Terms(fn, x1, x2) = Keys(fn, x1) \cup Keys(fn, x2)
    BY DEF Terms
  <2> QED
    BY <1>1, <2>1 DEF SumFunction
<1>3. ASSUME fn \notin Sparse
      PROVE  Terms(fn, x1, x2) = [k \in Ranks(x1) \cup Ranks(x2) |-> Term(fn, Item(x1, k), Item(x2, k))]
  <2>1. \A x : Heads(fn, x) = F!ReadFields(x) /\ Keys(fn, x) = Ranks(x)
    BY <1>3 DEF Heads, Key, Keys, Ranks
  <2>2. ASSUME NEW x, NEW k PROVE ValueOf(fn, x, k) = Item(x, k)
    <3>1. \A i : Key(fn, x, i) = F!FieldNo(x, i) /\ Place(fn, x, i) = i
      BY <1>3 DEF Key, Place
    <3>2. (CHOOSE i \in Heads(fn, x) : Key(fn, x, i) = k)
            = (CHOOSE i \in F!ReadFields(x) : F!FieldNo(x, i) = k)
      BY <2>1, <3>1
    <3>3. (\E i \in Heads(fn, x) : Key(fn, x, i) = k) <=> k \in Ranks(x)
      BY <2>1, <3>1 DEF Ranks
    <3> QED
      BY <2>1, <3>1, <3>2, <3>3 DEF ValueOf, Item
  <2> QED
    BY <2>1, <2>2 DEF Terms
<1>4. ASSUME fn \in Sparse
      PROVE  Terms(fn, x1, x2) = [k \in Indices(x1) \cup Indices(x2) |->
                                    Term(fn, Element(x1, k), Element(x2, k))]
  <2>1. \A x : Heads(fn, x) = F!PairStarts(x) /\ Keys(fn, x) = Indices(x)
    BY <1>4 DEF Heads, Key, Keys, Indices
  <2>2. ASSUME NEW x, NEW k PROVE ValueOf(fn, x, k) = Element(x, k)
    <3>1. \A i : Key(fn, x, i) = At(x, i) /\ Place(fn, x, i) = F!SecondOf(x, i)
      BY <1>4 DEF Key, Place
    <3>2. (CHOOSE i \in Heads(fn, x) : Key(fn, x, i) = k)
            = (CHOOSE i \in F!PairStarts(x) : At(x, i) = k)
      BY <2>1, <3>1
    <3>3. (\E i \in Heads(fn, x) : Key(fn, x, i) = k) <=> k \in Indices(x)
      BY <2>1, <3>1 DEF Indices
    <3> QED
      BY <3>1, <3>2, <3>3 DEF ValueOf, Element
  <2> QED
    BY <2>1, <2>2 DEF Terms
<1> QED
  BY <1>2, <1>3, <1>4

(* dotf (fun_dot.c:68-83) and doti (87-121) return the dot product of      *)
(* their arguments, of any length; doti of vectors whose indices rise.     *)
THEOREM ReturnsDotProduct == Spec => []DotProduct
<1>1. MergeInv => DotProduct
  <2> SUFFICES ASSUME MergeInv PROVE DotProduct
    OBVIOUS
  <2>1. ASSUME pc = "done", fn = "dotf" PROVE dp = OverRanks(Product)
    <3>1. Sorted /\ fn \notin Sparse
      BY <2>1 DEF Sorted, Merges, Sparse, Rising
    <3>2. \A u, v : Term(fn, u, v) = Product(u, v)
      BY <2>1 DEF Term, Product
    <3> QED
      BY <2>1, <3>1, <3>2, ReferenceIs DEF OverRanks
  <2>2. ASSUME pc = "done", fn = "doti", OrderedVectors PROVE dp = OverIndices(Product)
    <3>1. Sorted /\ fn \in Sparse
      BY <2>2 DEF Sorted, Merges, Sparse, Rising, OrderedVectors
    <3>2. \A u, v : Term(fn, u, v) = Product(u, v)
      BY <2>2 DEF Term, Product
    <3> QED
      BY <2>2, <3>1, <3>2, ReferenceIs DEF OverIndices
  <2> QED
    BY <2>1, <2>2 DEF DotProduct
<1> QED
  BY <1>1, MergeAlways, PTL

(* dist2f (fun_dist2.c:67-94) and dist2i (98-146) return the square of the *)
(* distance; what only one of the arguments has counts.                    *)
THEOREM ReturnsSquaredDistance == Spec => []SquaredDistance
<1>1. MergeInv => SquaredDistance
  <2> SUFFICES ASSUME MergeInv PROVE SquaredDistance
    OBVIOUS
  <2>1. ASSUME pc = "done", fn = "dist2f" PROVE dp = OverRanks(SquaredDifference)
    <3>1. Sorted /\ fn \notin Sparse
      BY <2>1 DEF Sorted, Merges, Sparse, Rising
    <3>2. \A u, v : Term(fn, u, v) = SquaredDifference(u, v)
      BY <2>1 DEF Term, SquaredDifference
    <3> QED
      BY <2>1, <3>1, <3>2, ReferenceIs DEF OverRanks
  <2>2. ASSUME pc = "done", fn = "dist2i", OrderedVectors PROVE dp = OverIndices(SquaredDifference)
    <3>1. Sorted /\ fn \in Sparse
      BY <2>2 DEF Sorted, Merges, Sparse, Rising, OrderedVectors
    <3>2. \A u, v : Term(fn, u, v) = SquaredDifference(u, v)
      BY <2>2 DEF Term, SquaredDifference
    <3> QED
      BY <2>2, <3>1, <3>2, ReferenceIs DEF OverIndices
  <2> QED
    BY <2>1, <2>2 DEF SquaredDistance
<1> QED
  BY <1>1, MergeAlways, PTL
===============================================================================
