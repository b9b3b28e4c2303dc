--------------------------- MODULE UdfTokens_proofs ---------------------------
(***************************************************************************)
(* What the tokenizers of libjoyo.c guarantee their callers, for every     *)
(* argument, every set of separators and every buffer size: where they     *)
(* read and write, and that a cursor which stands at a field hands out     *)
(* this field and moves to the next one.  The last part is about sums over *)
(* finite sets, which the functions that call the tokenizers come to.      *)
(***************************************************************************)
EXTENDS UdfTokens, Functions, SequenceTheorems, FiniteSetTheorems, WellFoundedInduction, TLAPS

\* The scanning loop looks at no more than the buffer holds and than is left.
LEMMA BoundType ==
  ASSUME NEW len \in Nat
  PROVE  /\ Bound(len) \in Nat
         /\ Bound(len) <= len /\ Bound(len) <= MaxTok
         /\ Bound(len) = 0 <=> len = 0
BY MaxTokAssumption DEF Bound

\* A non-empty set of numbers has a least one.
LEMMA NatMinimum ==
  ASSUME NEW T, T \subseteq Nat, T # {}
  PROVE  \E i \in T : \A j \in T : i <= j
<1>1. PICK i \in T : \A j \in T : ~(<<j, i>> \in OpToRel(<, Nat))
  BY NatLessThanWellFounded, WFMin
<1>2. ASSUME NEW j \in T
      PROVE  i <= j
  <2>1. i \in Nat /\ j \in Nat
    OBVIOUS
  <2>2. ~(j < i)
    <3>1. SUFFICES ASSUME j < i PROVE FALSE
      OBVIOUS
    <3>2. <<j, i>> \in Nat \X Nat /\ <<j, i>>[1] < <<j, i>>[2]
      BY <2>1, <3>1
    <3>3. <<j, i>> \in OpToRel(<, Nat)
      BY <3>2, Zenon DEF OpToRel
    <3> QED
      BY <1>1, <3>3
  <2> QED
    BY <2>1, <2>2
<1> QED
  BY <1>2

\* A non-empty set of stops has a first one: the one the loop ends at.
LEMMA FirstStopType ==
  ASSUME NEW x, NEW c, c.len \in Nat, Stops(x, c) # {}
  PROVE  FirstStop(x, c) \in Stops(x, c)
<1>1. Stops(x, c) \subseteq Nat
  BY BoundType DEF Stops
<1>2. \E i \in Stops(x, c) : \A j \in Stops(x, c) : i <= j
  BY <1>1, NatMinimum
<1> QED
  BY <1>2 DEF FirstStop

\* The first position from i on that is none of a token's.
Ends(x, i, e) ==
  /\ e \in i .. Len(x) + 1
  /\ \A k \in i .. e - 1 : x[k] \notin Sep
  /\ e = Len(x) + 1 \/ x[e] \in Sep

LEMMA EndExists ==
  ASSUME NEW S, NEW x \in Seq(S), NEW i \in 1 .. Len(x) PROVE \E e : Ends(x, i, e)
<1> DEFINE T == {e \in i .. Len(x) + 1 : e = Len(x) + 1 \/ x[e] \in Sep}
<1>1. Len(x) \in Nat
  BY LenProperties
<1>2. T \subseteq Nat /\ Len(x) + 1 \in T
  BY <1>1
<1>3. PICK e \in T : \A f \in T : e <= f
  BY <1>2, NatMinimum
<1>4. ASSUME NEW k \in i .. e - 1 PROVE x[k] \notin Sep
  <2>1. k \in i .. Len(x) + 1 /\ ~(e <= k)
    BY <1>1, <1>3, <1>4
  <2>2. k \notin T
    BY <1>3, <2>1
  <2> QED
    BY <2>1, <2>2
<1> QED
  BY <1>3, <1>4 DEF Ends

\* The loop of the tokenizers finds that position, if it comes so far.
LEMMA FirstStopIs ==
  ASSUME NEW S, NEW x \in Seq(S), NEW c, Inside(x, c), c.len > 0, c.pos + c.len = Len(x),
         NEW e, Ends(x, c.pos + 1, e)
  PROVE  IF Stops(x, c) # {}
         THEN FirstStop(x, c) = e - (c.pos + 1) /\ e <= Len(x) /\ e - (c.pos + 1) < MaxTok
         ELSE IF Bound(c.len) = MaxTok THEN e - (c.pos + 1) >= MaxTok
              ELSE e = Len(x) + 1 /\ Bound(c.len) = e - (c.pos + 1) /\ Bound(c.len) < MaxTok
<1>1. PICK a \in Nat, l \in Nat, n \in Nat : a = c.pos /\ l = c.len /\ n = Len(x)
  BY LenProperties DEF Inside
<1>2. /\ e \in a + 1 .. n + 1
      /\ \A k \in a + 1 .. e - 1 : x[k] \notin Sep
      /\ e = n + 1 \/ x[e] \in Sep
      /\ a + l = n /\ l > 0
  BY <1>1 DEF Ends
<1>3. PICK b \in Nat : /\ b = Bound(l) /\ b <= l /\ b <= MaxTok /\ b # 0
                       /\ b = MaxTok \/ b = l
                       /\ MaxTok \in Nat
  BY <1>1, <1>2, MaxTokAssumption DEF Bound
<1>4. Stops(x, c) = {i \in 0 .. b - 1 : x[a + i + 1] \in Sep}
  BY <1>1, <1>3 DEF Stops
<1>5. PICK m \in Nat : m = e - (a + 1) /\ e = a + m + 1
  BY <1>2
<1>6. \A i \in 0 .. b - 1 : i < m => x[a + i + 1] \notin Sep
  BY <1>2, <1>5
<1>7. CASE Stops(x, c) # {}
  <2>1. FirstStop(x, c) \in Stops(x, c)
    BY <1>1, <1>7, FirstStopType
  <2>2. PICK f \in 0 .. b - 1 : f = FirstStop(x, c) /\ x[a + f + 1] \in Sep
    BY <1>4, <2>1
  <2>3. f >= m
    <3>1. f < m => x[a + f + 1] \notin Sep
      BY <1>6, <2>2
    <3> QED
      BY <1>3, <1>5, <2>2, <3>1
  <2>4. m \in 0 .. b - 1 /\ e # n + 1
    BY <1>2, <1>3, <1>5, <2>2, <2>3
  <2>5. m \in Stops(x, c)
    BY <1>2, <1>4, <1>5, <2>4
  <2>6. f <= m
    <3>1. \E i \in Stops(x, c) : \A j \in Stops(x, c) : i <= j
      <4>1. Stops(x, c) \subseteq Nat
        BY <1>3, <1>4
      <4> QED
        BY <1>7, <4>1, NatMinimum
    <3> QED
      BY <2>2, <2>5, <3>1 DEF FirstStop
  <2>7. FirstStop(x, c) = m /\ e <= n /\ m < MaxTok
    BY <1>2, <1>3, <1>5, <2>2, <2>3, <2>4, <2>6
  <2> QED
    BY <1>1, <1>5, <1>7, <2>7
<1>8. CASE Stops(x, c) = {}
  <2>1. m >= b
    <3>1. SUFFICES ASSUME m < b PROVE FALSE
      BY <1>3, <1>5
    <3>2. m \in 0 .. b - 1 /\ e # n + 1
      BY <1>2, <1>3, <1>5, <3>1
    <3> QED
      BY <1>2, <1>4, <1>5, <1>8, <3>2
  <2>2. CASE b = MaxTok
    BY <1>1, <1>3, <1>5, <1>8, <2>1, <2>2
  <2>3. CASE b # MaxTok
    <3>1. e = n + 1 /\ b = m /\ b < MaxTok
      BY <1>2, <1>3, <1>5, <2>1, <2>3
    <3> QED
      BY <1>1, <1>3, <1>5, <1>8, <2>3, <3>1
  <2> QED
    BY <2>2, <2>3
<1> QED
  BY <1>7, <1>8

\* What the loop copies fits the buffer.
LEMMA CharsType ==
  ASSUME NEW S, NEW x \in Seq(S), NEW c, Inside(x, c), NEW i \in 0 .. c.len
  PROVE  Chars(x, c, i) \in Seq(S) /\ Len(Chars(x, c, i)) = i
<1>1. c.pos \in Nat /\ c.len \in Nat /\ c.pos + i <= Len(x)
  BY DEF Inside
<1>2. \A j \in (c.pos + 1) .. (c.pos + i) : x[j] \in S
  BY <1>1, ElementOfSeq, LenProperties
<1> QED
  BY <1>1, <1>2, SubSeqProperties DEF Chars

\* nextWord reads nothing past the end of the argument, writes no more than
\* MaxTok characters and a NUL into the caller's buffer, and each call leaves
\* fewer characters to read, which is what ends the loops of its callers.
THEOREM NextWordSafe ==
  ASSUME NEW S, NEW x \in Seq(S), NEW c, Inside(x, c)
  PROVE  /\ NextWord(x, c).tok \in Seq(S)
         /\ Len(NextWord(x, c).tok) <= MaxTok
         /\ Inside(x, NextWord(x, c).cur)
         /\ NextWord(x, c).avail \in BOOLEAN
         /\ NextWord(x, c).avail <=> c.len > 0
         /\ c.len > 0 => NextWord(x, c).cur.len < c.len
<1> USE MaxTokAssumption
<1>1. c.pos \in Nat /\ c.len \in Nat /\ c.pos + c.len <= Len(x) /\ Len(x) \in Nat
  BY LenProperties DEF Inside
<1>2. CASE Bound(c.len) = 0
  BY <1>1, <1>2, BoundType DEF NextWord, Inside
<1>3. CASE Bound(c.len) # 0 /\ Stops(x, c) # {}
  <2> DEFINE i == FirstStop(x, c)
  <2>1. i \in 0 .. (Bound(c.len) - 1)
    BY <1>1, <1>3, FirstStopType DEF Stops
  <2>2. i \in Nat /\ i < c.len /\ i < MaxTok
    BY <1>1, <2>1 DEF Bound
  <2>3. Chars(x, c, i) \in Seq(S) /\ Len(Chars(x, c, i)) = i
    BY <1>1, <2>2, CharsType
  <2>4. NextWord(x, c) = [avail |-> TRUE, tok |-> Chars(x, c, i),
                          cur |-> Cursor(c.pos + i + 1, c.len - (i + 1))]
    BY <1>3 DEF NextWord
  <2>5. Inside(x, Cursor(c.pos + i + 1, c.len - (i + 1)))
    BY <1>1, <2>2 DEF Inside, Cursor
  <2> HIDE DEF i
  <2> QED
    BY <1>1, <2>2, <2>3, <2>4, <2>5 DEF Cursor
<1>4. CASE Bound(c.len) # 0 /\ Stops(x, c) = {}
  <2> DEFINE b == Bound(c.len)
  <2>1. b \in Nat /\ b <= c.len /\ b <= MaxTok /\ b # 0 /\ c.len > 0
    BY <1>1, <1>4 DEF Bound
  <2>2. Chars(x, c, b) \in Seq(S) /\ Len(Chars(x, c, b)) = b
    BY <1>1, <2>1, CharsType
  <2>3. NextWord(x, c) = [avail |-> TRUE, tok |-> Chars(x, c, b),
                          cur |-> Cursor(c.pos + b, 0)]
    BY <1>4 DEF NextWord
  <2>4. Inside(x, Cursor(c.pos + b, 0))
    BY <1>1, <2>1 DEF Inside, Cursor
  <2> HIDE DEF b
  <2> QED
    BY <1>1, <2>1, <2>2, <2>3, <2>4 DEF Cursor
<1> QED
  BY <1>2, <1>3, <1>4

\* The same of nextInt and nextDouble, whose pointer stays behind when the
\* last number of an argument has been read.
THEOREM NextNumberSafe ==
  ASSUME NEW S, NEW x \in Seq(S), NEW c, Inside(x, c)
  PROVE  /\ NextNumber(x, c).tok \in Seq(S)
         /\ Len(NextNumber(x, c).tok) <= MaxTok
         /\ Inside(x, NextNumber(x, c).cur)
         /\ c.len > 0 => NextNumber(x, c).cur.len < c.len
<1>1. c.pos \in Nat /\ c.len \in Nat /\ c.pos + c.len <= Len(x) /\ Len(x) \in Nat
  BY LenProperties DEF Inside
<1>2. CASE Bound(c.len) # 0 /\ Stops(x, c) = {}
  <2>1. NextNumber(x, c) = [NextWord(x, c) EXCEPT !.cur = Cursor(c.pos, 0)]
    BY <1>2 DEF NextNumber
  <2>2. NextNumber(x, c).tok = NextWord(x, c).tok
        /\ NextNumber(x, c).cur = Cursor(c.pos, 0)
    BY <1>2, <2>1 DEF NextWord
  <2>3. Inside(x, Cursor(c.pos, 0))
    BY <1>1 DEF Inside, Cursor
  <2> QED
    BY <1>1, <2>2, <2>3, NextWordSafe DEF Cursor
<1>3. CASE ~(Bound(c.len) # 0 /\ Stops(x, c) = {})
  BY <1>3, NextWordSafe DEF NextNumber
<1> QED
  BY <1>2, <1>3

-------------------------------------------------------------------------------
(* The scan of a tokenizer and the fields.                                 *)

LEMMA FieldCardinality == ASSUME NEW T PROVE F!Cardinality(T) = Cardinality(T)
BY DEF F!Cardinality, Cardinality, F!IsFiniteSet, IsFiniteSet

LEMMA FieldLenIs ==
  ASSUME NEW S, NEW x \in Seq(S), NEW i \in 1 .. Len(x), NEW e, Ends(x, i, e)
  PROVE  F!RunLen(x, i) = e - i
<1> DEFINE T == {j \in i .. Len(x) : \A k \in i .. j : x[k] \notin Sep}
<1>1. Len(x) \in Nat /\ e \in i .. Len(x) + 1
  BY LenProperties DEF Ends
<1>2. T = i .. e - 1
  <2>1. ASSUME NEW j \in i .. Len(x), \A k \in i .. j : x[k] \notin Sep PROVE j \in i .. e - 1
    <3>1. ~(e \in i .. j)
      BY <1>1, <2>1 DEF Ends
    <3> QED
      BY <1>1, <3>1
  <2>2. ASSUME NEW j \in i .. e - 1 PROVE j \in i .. Len(x) /\ \A k \in i .. j : x[k] \notin Sep
    BY <1>1 DEF Ends
  <2> QED
    BY <2>1, <2>2
<1>3. F!RunLen(x, i) = F!Cardinality(T)
  BY Zenon DEF F!RunLen
<1> HIDE DEF T
<1>4. Cardinality(i .. e - 1) = IF i > e - 1 THEN 0 ELSE (e - 1) - i + 1
  BY <1>1, FS_Interval
<1>5. F!RunLen(x, i) = Cardinality(i .. e - 1)
  BY <1>2, <1>3, FieldCardinality
<1> QED
  BY <1>1, <1>4, <1>5

\* No field begins between a field and what ends it.
LEMMA NextStart ==
  ASSUME NEW S, NEW x \in Seq(S), NEW i \in 1 .. Len(x), NEW e, Ends(x, i, e),
         NEW j \in F!Starts(x), j > i
  PROVE  j >= e + 1
<1>1. /\ Len(x) \in Nat /\ e \in i .. Len(x) + 1 /\ j \in 1 .. Len(x)
      /\ j = 1 \/ x[j - 1] \in Sep
  BY LenProperties DEF Ends, F!Starts
<1>2. x[j - 1] \in Sep /\ j - 1 >= i
  BY <1>1
<1>3. j - 1 \notin i .. e - 1
  BY <1>2 DEF Ends
<1> QED
  BY <1>1, <1>2, <1>3

(***************************************************************************)
(* A cursor that has not come to an end stands where a field begins that   *)
(* the functions read.                                                     *)
(***************************************************************************)
Stands(x, c) ==
  /\ Inside(x, c)
  /\ c.len > 0 => c.pos + c.len = Len(x) /\ c.pos + 1 \in F!ReadFields(x)

LEMMA ReadFieldsAre ==
  ASSUME NEW S, NEW x \in Seq(S)
  PROVE  /\ F!ReadFields(x) \subseteq F!Starts(x) /\ F!Starts(x) \subseteq 1 .. Len(x)
         /\ 1 .. Len(x) \subseteq Nat
BY LenProperties DEF F!ReadFields, F!Starts

LEMMA StandsFirst ==
  ASSUME NEW S, NEW x \in Seq(S) PROVE Stands(x, Start(x))
<1>1. Len(x) \in Nat
  BY LenProperties
<1>2. Len(x) > 0 => 1 \in F!Starts(x)
  BY <1>1 DEF F!Starts
<1>3. Len(x) > 0 => 1 \in F!ReadFields(x)
  BY <1>1, <1>2 DEF F!ReadFields, F!Starts
<1> QED
  BY <1>1, <1>3 DEF Stands, Start, Cursor, Inside

\* All three tokenizers yield the field at the cursor and go to the next one
\* that is read.
LEMMA FieldStep ==
  ASSUME NEW S, NEW x \in Seq(S), NEW c, Stands(x, c), c.len > 0,
         NEW p, p = c.pos + 1,
         NEW y, y = NextNumber(x, c) \/ y = NextWord(x, c), NEW d, d = y.cur
  PROVE  /\ y.tok = F!Field(x, p)
         /\ Stands(x, d)
         /\ d.len > 0 => /\ d.pos + 1 > p
                         /\ \A q \in F!Starts(x) : q > p => q >= d.pos + 1
                         /\ d.pos = p + F!RunLen(x, p) /\ F!RunLen(x, p) < MaxTok
         /\ d.len = 0 => \A q \in F!ReadFields(x) : q <= p
<1>1. PICK n \in Nat, a \in Nat, l \in Nat : n = Len(x) /\ a = c.pos /\ l = c.len
  BY LenProperties DEF Stands, Inside
<1>2. /\ p \in F!ReadFields(x) /\ p \in F!Starts(x) /\ p \in 1 .. Len(x)
      /\ a + l = n /\ l > 0
  BY <1>1, ReadFieldsAre DEF Stands
<1>3. PICK e : Ends(x, p, e)
  BY <1>2, EndExists
<1>4. /\ e \in Nat /\ p <= e /\ e <= n + 1
      /\ \A k \in p .. e - 1 : x[k] \notin Sep
      /\ e = n + 1 \/ x[e] \in Sep
  BY <1>1, <1>2, <1>3 DEF Ends
<1>4a. p = a + 1 /\ e - p \in Nat
  BY <1>1, <1>2, <1>4
<1>4b. PICK r \in Nat : r = e - p
  BY <1>4a
<1>5. e = a + 1 + r
  BY <1>1, <1>4, <1>4a, <1>4b
<1>6. r <= l /\ p = a + 1
  BY <1>2, <1>4, <1>4a, <1>5
<1>7. F!RunLen(x, p) = r
  <2>1. F!RunLen(x, p) = e - p
    BY <1>2, <1>3, FieldLenIs
  <2> QED
    BY <1>1, <1>5, <1>6, <2>1
<1>8. PICK b \in Nat : b = Bound(c.len)
  BY <1>1, BoundType
<1>9. b # 0 /\ b <= l /\ b <= MaxTok /\ (b = l \/ b = MaxTok) /\ MaxTok \in Nat
  BY <1>1, <1>2, <1>8, MaxTokAssumption DEF Bound
<1>10. Stops(x, c) = {i \in 0 .. b - 1 : x[a + i + 1] \in Sep}
  BY <1>1, <1>8 DEF Stops
<1>11. \A i \in 0 .. r - 1 : x[a + i + 1] \notin Sep
  <2>1. ASSUME NEW i \in 0 .. r - 1 PROVE a + i + 1 \in p .. e - 1
    BY <1>4a, <1>5
  <2> QED
    BY <1>4, <2>1
<1>12. ASSUME NEW q \in F!Starts(x), q > p PROVE q \in Nat /\ q >= e + 1 /\ q <= n
  BY <1>1, <1>2, <1>3, <1>12, NextStart, ReadFieldsAre
<1>13. CASE r < b
  <2>1. r < MaxTok /\ e <= n /\ x[e] \in Sep /\ r < l
    BY <1>2, <1>4, <1>5, <1>9, <1>13
  <2>2. r \in Stops(x, c) /\ \A i \in Stops(x, c) : i \in Nat /\ r <= i
    <3>1. r \in 0 .. b - 1 /\ x[a + r + 1] \in Sep
      BY <1>5, <1>13, <2>1
    <3>2. ASSUME NEW i \in Stops(x, c) PROVE i \in Nat /\ r <= i
      <4>1. i \in 0 .. b - 1 /\ i \notin 0 .. r - 1
        BY <1>10, <1>11
      <4> QED
        BY <4>1
    <3> QED
      BY <1>10, <3>1, <3>2
  <2>3. FirstStop(x, c) = r
    <3>1. FirstStop(x, c) \in Stops(x, c) /\ \A i \in Stops(x, c) : FirstStop(x, c) <= i
      BY <2>2 DEF FirstStop
    <3>2. FirstStop(x, c) \in Nat /\ FirstStop(x, c) <= r /\ r <= FirstStop(x, c)
      BY <2>2, <3>1
    <3> QED
      BY <3>2
  <2>4. y = [avail |-> TRUE, tok |-> Chars(x, c, r),
             cur |-> Cursor(a + r + 1, l - (r + 1))]
    <3>1. Bound(c.len) # 0 /\ Stops(x, c) # {}
      BY <1>8, <1>9, <2>2
    <3>2. NextNumber(x, c) = NextWord(x, c)
      BY <3>1 DEF NextNumber
    <3> QED
      BY <1>1, <2>3, <3>1, <3>2 DEF NextWord
  <2>5. Chars(x, c, r) = F!Field(x, p)
    <3>1. F!Lower(r, MaxTok) = r
      BY <2>1 DEF F!Lower
    <3>2. p + r - 1 = a + r
      BY <1>6
    <3> QED
      BY <1>1, <1>6, <1>7, <3>1, <3>2 DEF Chars, F!Field
  <2>6. d = Cursor(a + r + 1, l - (r + 1))
    BY <2>4
  <2>7. d.pos = e /\ d.len = n - e /\ d.pos + 1 = e + 1
    BY <1>2, <1>5, <2>6 DEF Cursor
  <2>8. e < n => e + 1 \in F!ReadFields(x)
    <3>1. SUFFICES ASSUME e < n PROVE e + 1 \in F!ReadFields(x)
      OBVIOUS
    <3>2. e + 1 \in F!Starts(x)
      <4>1. e + 1 \in 1 .. Len(x) /\ (e + 1) - 1 = e
        BY <1>1, <1>4, <3>1
      <4> QED
        BY <2>1, <4>1 DEF F!Starts
    <3>3. ASSUME NEW j \in F!Starts(x), j < e + 1 PROVE F!RunLen(x, j) < MaxTok
      <4>1. j \in Nat /\ ~(j > p)
        BY <1>4, <1>12, <3>3, ReadFieldsAre
      <4>2. CASE j = p
        BY <1>7, <2>1, <4>2
      <4>3. CASE j < p
        BY <1>2, <4>3, <3>3 DEF F!ReadFields
      <4> QED
        BY <1>6, <4>1, <4>2, <4>3
    <3> QED
      BY <3>2, <3>3 DEF F!ReadFields
  <2>9. Stands(x, d)
    <3>1. d.pos \in Nat /\ d.len \in Nat /\ d.pos + d.len = Len(x)
      BY <1>1, <1>4, <2>1, <2>7
    <3>2. d.len > 0 => e < n
      BY <1>4, <2>7
    <3> QED
      BY <1>1, <2>7, <2>8, <3>1, <3>2 DEF Stands, Inside
  <2>10. d.pos + 1 > p /\ d.pos = p + F!RunLen(x, p) /\ F!RunLen(x, p) < MaxTok
    BY <1>4, <1>5, <1>6, <1>7, <2>1, <2>7
  <2>11. ASSUME NEW q \in F!Starts(x), q > p PROVE q >= d.pos + 1 /\ d.len # 0
    BY <1>4, <1>12, <2>7, <2>11
  <2>12. ASSUME d.len = 0, NEW q \in F!ReadFields(x) PROVE q <= p
    <3>1. q \in F!Starts(x) /\ q \in Nat
      BY ReadFieldsAre
    <3> QED
      BY <1>6, <2>11, <2>12, <3>1
  <2> QED
    BY <2>4, <2>5, <2>9, <2>10, <2>11, <2>12
<1>14. CASE r >= b
  <2>1. Stops(x, c) = {}
    <3>1. \A i \in 0 .. b - 1 : i \in 0 .. r - 1
      BY <1>14
    <3> QED
      BY <1>10, <1>11, <3>1
  <2>2. y.tok = Chars(x, c, b) /\ y.cur \in {Cursor(a, 0), Cursor(a + b, 0)}
    <3>1. Bound(c.len) # 0
      BY <1>8, <1>9
    <3>2. NextWord(x, c) = [avail |-> TRUE, tok |-> Chars(x, c, b), cur |-> Cursor(a + b, 0)]
      BY <1>1, <1>8, <2>1, <3>1 DEF NextWord
    <3>3. NextNumber(x, c) = [NextWord(x, c) EXCEPT !.cur = Cursor(c.pos, 0)]
      BY <2>1, <3>1 DEF NextNumber
    <3> QED
      BY <1>1, <3>2, <3>3
  <2>3. Chars(x, c, b) = F!Field(x, p)
    <3>1. F!Lower(r, MaxTok) = b
      BY <1>6, <1>9, <1>14 DEF F!Lower
    <3>2. p + b - 1 = a + b
      BY <1>6
    <3> QED
      BY <1>1, <1>6, <1>7, <3>1, <3>2 DEF Chars, F!Field
  <2>4. d.pos \in {a, a + b} /\ d.len = 0
    BY <2>2 DEF Cursor
  <2>5. Stands(x, d)
    <3>1. d.pos \in Nat /\ d.pos + 0 <= Len(x)
      BY <1>1, <1>2, <1>8, <1>9, <2>4
    <3> QED
      BY <2>4, <3>1 DEF Stands, Inside
  <2>6. ASSUME NEW q \in F!ReadFields(x) PROVE q <= p
    <3>1. q \in F!Starts(x) /\ q \in Nat
      BY ReadFieldsAre
    <3>2. SUFFICES ASSUME q > p PROVE FALSE
      BY <1>6, <3>1
    <3>3. r < MaxTok
      BY <1>2, <1>7, <3>2 DEF F!ReadFields
    <3>4. e = n + 1
      BY <1>2, <1>5, <1>6, <1>9, <1>14, <3>3
    <3> QED
      BY <1>12, <3>1, <3>2, <3>4
  <2> QED
    BY <2>2, <2>3, <2>4, <2>5, <2>6
<1> QED
  BY <1>13, <1>14

\* Behind the end of an argument they yield nothing.
LEMMA ReadNothing ==
  ASSUME NEW x, NEW c, c.len = 0, NEW y, y = NextNumber(x, c) \/ y = NextWord(x, c)
  PROVE  y.tok = <<>> /\ y.cur = c
<1>1. Bound(c.len) = 0
  BY MaxTokAssumption DEF Bound
<1>2. NextWord(x, c) = [avail |-> FALSE, tok |-> <<>>, cur |-> c]
  BY <1>1 DEF NextWord
<1>3. NextNumber(x, c) = NextWord(x, c)
  BY <1>1 DEF NextNumber
<1> QED
  BY <1>2, <1>3

\* A field has at most MaxTok characters, and none of them is a separator.
LEMMA FieldChars ==
  ASSUME NEW S, NEW x \in Seq(S), NEW p \in F!Starts(x)
  PROVE  \E m \in 0 .. MaxTok : F!Field(x, p) \in [1 .. m -> S \ Sep]
<1>1. p \in 1 .. Len(x) /\ Len(x) \in Nat /\ MaxTok \in Nat
  BY ReadFieldsAre, LenProperties, MaxTokAssumption
<1>2. PICK e : Ends(x, p, e)
  BY <1>1, EndExists
<1>3. /\ e \in p .. Len(x) + 1 /\ e - p \in Nat
      /\ \A k \in p .. e - 1 : x[k] \in S \ Sep
  <2>1. e \in p .. Len(x) + 1 /\ \A k \in p .. e - 1 : x[k] \notin Sep
    BY <1>2, Zenon DEF Ends
  <2>2. \A k \in p .. e - 1 : k \in 1 .. Len(x)
    BY <1>1, <2>1
  <2> QED
    BY <1>1, <2>1, <2>2, ElementOfSeq
<1>4. PICK m \in 0 .. MaxTok : m = F!Lower(F!RunLen(x, p), MaxTok) /\ m <= e - p
  <2>1. F!RunLen(x, p) = e - p
    BY <1>1, <1>2, FieldLenIs
  <2>2. F!Lower(e - p, MaxTok) \in 0 .. MaxTok /\ F!Lower(e - p, MaxTok) <= e - p
    BY <1>1, <1>3 DEF F!Lower
  <2> QED
    BY <2>1, <2>2
<1>5. F!Field(x, p) = SubSeq(x, p, p + m - 1)
  BY <1>4 DEF F!Field
<1>6. \A k \in p .. p + m - 1 : x[k] \in S \ Sep
  <2>1. \A k \in p .. p + m - 1 : k \in p .. e - 1
    BY <1>1, <1>3, <1>4
  <2> QED
    BY <1>3, <2>1
<1>7. p \in Int /\ p + m - 1 \in Int
  BY <1>1
<1>8. F!Field(x, p) \in Seq(S \ Sep) /\ Len(F!Field(x, p)) = m
  <2>1. SubSeq(x, p, p + m - 1) \in Seq(S \ Sep)
        /\ Len(SubSeq(x, p, p + m - 1)) = IF p <= p + m - 1 THEN (p + m - 1) - p + 1 ELSE 0
    BY <1>6, <1>7, SubSeqProperties
  <2>2. (IF p <= p + m - 1 THEN (p + m - 1) - p + 1 ELSE 0) = m
    BY <1>1
  <2> QED
    BY <1>5, <2>1, <2>2
<1>9. F!Field(x, p) \in [1 .. m -> S \ Sep]
  BY <1>8, LenProperties
<1> QED
  BY <1>9

\* The next field has the next number.
LEMMA NextFieldNo ==
  ASSUME NEW S, NEW x \in Seq(S), NEW p \in F!Starts(x), NEW q \in F!Starts(x), p < q,
         \A j \in F!Starts(x) : j > p => j >= q
  PROVE  F!FieldNo(x, p) \in Nat /\ F!FieldNo(x, q) = F!FieldNo(x, p) + 1
<1> DEFINE T == {j \in F!Starts(x) : j <= p}
<1>1. F!Starts(x) \subseteq 1 .. Len(x) /\ Len(x) \in Nat
  BY ReadFieldsAre, LenProperties
<1>2. IsFiniteSet(1 .. Len(x)) /\ T \in SUBSET (1 .. Len(x))
  BY <1>1, FS_Interval
<1>3. IsFiniteSet(T)
  BY <1>2, FS_Subset
<1>4. {j \in F!Starts(x) : j <= q} = T \cup {q} /\ q \notin T
  BY <1>1
<1> HIDE DEF T
<1>5. Cardinality(T) \in Nat /\ Cardinality(T \cup {q}) = Cardinality(T) + 1
  BY <1>3, <1>4, FS_AddElement, FS_CardinalityType
<1> QED
  BY <1>4, <1>5, FieldCardinality DEF F!FieldNo, T

-------------------------------------------------------------------------------
(* Pairs of fields.                                                        *)

LEMMA PairsAre ==
  ASSUME NEW S, NEW x \in Seq(S), NEW p \in F!PairStarts(x)
  PROVE  /\ p \in F!ReadFields(x) /\ p \in 1 .. Len(x) /\ p \in Nat
         /\ F!FieldNo(x, p) % 2 = 1
         /\ F!RunLen(x, p) \in Nat /\ F!RunLen(x, p) < MaxTok
         /\ F!SecondOf(x, p) = p + F!RunLen(x, p) + 1
         /\ F!SecondOf(x, p) \in F!ReadFields(x)
         /\ \A j \in F!Starts(x) : j > p => j >= F!SecondOf(x, p)
<1>1. /\ p \in F!Starts(x) /\ F!FieldNo(x, p) % 2 = 1 /\ p + F!RunLen(x, p) + 1 <= Len(x)
      /\ \A j \in F!Starts(x) : j <= p => F!RunLen(x, j) < MaxTok
  BY DEF F!PairStarts, F!Passed
<1>2. /\ Len(x) \in Nat /\ MaxTok \in Nat /\ F!Starts(x) \subseteq Nat
      /\ p \in 1 .. Len(x) /\ p \in Nat
  BY <1>1, ReadFieldsAre, LenProperties, MaxTokAssumption
<1>3. p \in F!ReadFields(x)
  BY <1>1, <1>2 DEF F!ReadFields
<1>4. PICK e : Ends(x, p, e)
  BY <1>2, EndExists
<1>5. e \in p .. Len(x) + 1 /\ F!RunLen(x, p) = e - p
  BY <1>2, <1>4, FieldLenIs DEF Ends
<1>6. F!SecondOf(x, p) = e + 1 /\ e \in p .. Len(x) - 1 /\ F!RunLen(x, p) \in Nat
  BY <1>1, <1>2, <1>5 DEF F!SecondOf
<1>7. \A j \in F!Starts(x) : j > p => j >= e + 1
  BY <1>2, <1>4, NextStart
<1>8. e + 1 \in F!Starts(x)
  <2>1. x[e] \in Sep
    BY <1>2, <1>4, <1>6 DEF Ends
  <2>2. e + 1 \in 1 .. Len(x) /\ (e + 1) - 1 = e
    BY <1>2, <1>6
  <2> QED
    BY <2>1, <2>2 DEF F!Starts
<1>9. \A j \in F!Starts(x) : j < e + 1 => F!RunLen(x, j) < MaxTok
  BY <1>1, <1>2, <1>6, <1>7
<1>10. e + 1 \in F!ReadFields(x)
  BY <1>8, <1>9 DEF F!ReadFields
<1> QED
  BY <1>1, <1>2, <1>3, <1>5, <1>6, <1>7, <1>10 DEF F!SecondOf

\* A tokenizer, at the first field of what may be a pair.
LEMMA FirstOfPair ==
  ASSUME NEW S, NEW x \in Seq(S), NEW c, Stands(x, c), c.len > 0,
         NEW p, p = c.pos + 1, F!FieldNo(x, p) % 2 = 1,
         NEW r, r = NextNumber(x, c) \/ r = NextWord(x, c), NEW d, d = r.cur
  PROVE  /\ Stands(x, d) /\ r.tok = F!Field(x, p) /\ p \in Nat
         /\ d.len > 0 => /\ p \in F!PairStarts(x) /\ d.pos = p + F!RunLen(x, p)
                         /\ F!SecondOf(x, p) = d.pos + 1
         /\ d.len = 0 => \A q \in F!PairStarts(x) : q < p
<1>1. /\ r.tok = F!Field(x, p) /\ Stands(x, d)
      /\ d.len > 0 => d.pos = p + F!RunLen(x, p) /\ F!RunLen(x, p) < MaxTok
      /\ d.len = 0 => \A q \in F!ReadFields(x) : q <= p
  BY FieldStep
<1>2. /\ p \in F!ReadFields(x) /\ p \in F!Starts(x) /\ p \in 1 .. Len(x) /\ Len(x) \in Nat
      /\ MaxTok \in Nat /\ F!Starts(x) \subseteq Nat
  BY ReadFieldsAre, LenProperties, MaxTokAssumption DEF Stands
<1>3. PICK n \in Nat : n = F!RunLen(x, p)
  <2>1. PICK e : Ends(x, p, e)
    BY <1>2, EndExists
  <2>2. F!RunLen(x, p) = e - p /\ e \in p .. Len(x) + 1
    BY <1>2, <2>1, FieldLenIs DEF Ends
  <2> QED
    BY <1>2, <2>2
<1>4. ASSUME d.len > 0
      PROVE  /\ p \in F!PairStarts(x) /\ d.pos = p + n /\ F!SecondOf(x, p) = d.pos + 1
  <2>1. d.pos = p + n /\ n < MaxTok /\ d.pos + 1 <= Len(x)
    <3>1. d.pos \in Nat /\ d.len \in Nat /\ d.pos + d.len = Len(x)
      BY <1>1, <1>4 DEF Stands, Inside
    <3> QED
      BY <1>1, <1>2, <1>3, <1>4, <3>1
  <2>2. F!Passed(x, p)
    BY <1>2, <1>3, <2>1 DEF F!Passed, F!ReadFields
  <2>3. p \in F!PairStarts(x)
    BY <1>2, <1>3, <2>1, <2>2 DEF F!PairStarts
  <2> QED
    BY <1>3, <2>1, <2>3 DEF F!SecondOf
<1>5. ASSUME d.len = 0, NEW q \in F!PairStarts(x) PROVE q < p
  <2>1. q \in F!ReadFields(x) /\ q \in Nat /\ F!SecondOf(x, q) \in F!ReadFields(x)
        /\ F!SecondOf(x, q) = q + F!RunLen(x, q) + 1 /\ F!RunLen(x, q) \in Nat
    BY PairsAre
  <2>2. F!SecondOf(x, q) <= p
    BY <1>1, <1>5, <2>1
  <2> QED
    BY <1>2, <2>1, <2>2
<1> QED
  BY <1>1, <1>2, <1>3, <1>4, <1>5

\* nextInt or nextDouble, at the second field of a pair.
LEMMA PastPair ==
  ASSUME NEW S, NEW x \in Seq(S), NEW c, Stands(x, c), c.len > 0,
         NEW p \in F!PairStarts(x), c.pos + 1 = F!SecondOf(x, p),
         NEW r, r = NextNumber(x, c), NEW d, d = r.cur
  PROVE  /\ r.tok = F!Field(x, F!SecondOf(x, p)) /\ Stands(x, d)
         /\ d.len > 0 => F!FieldNo(x, d.pos + 1) % 2 = 1 /\ d.pos + 1 > p
         /\ \A i \in F!PairStarts(x) : i > p => d.len > 0 /\ i >= d.pos + 1
<1> DEFINE q == c.pos + 1
<1>1. /\ r.tok = F!Field(x, q) /\ Stands(x, d)
      /\ d.len > 0 => d.pos + 1 > q /\ \A j \in F!Starts(x) : j > q => j >= d.pos + 1
      /\ d.len = 0 => \A j \in F!ReadFields(x) : j <= q
  BY FieldStep
<1>2. /\ p \in F!Starts(x) /\ q \in F!Starts(x) /\ F!Starts(x) \subseteq Nat /\ p < q
      /\ F!ReadFields(x) \subseteq F!Starts(x)
      /\ F!FieldNo(x, p) % 2 = 1 /\ \A j \in F!Starts(x) : j > p => j >= q
  BY PairsAre, ReadFieldsAre
<1> HIDE DEF q
<1>3. F!FieldNo(x, p) \in Nat /\ F!FieldNo(x, q) = F!FieldNo(x, p) + 1
  BY <1>2, NextFieldNo
<1>4. F!FieldNo(x, q) \in Nat /\ F!FieldNo(x, q) % 2 = 0
  BY <1>2, <1>3
<1>5. ASSUME d.len > 0 PROVE F!FieldNo(x, d.pos + 1) % 2 = 1 /\ d.pos + 1 > p
  <2>1. d.pos + 1 \in F!Starts(x) /\ d.pos + 1 \in Nat
    BY <1>1, <1>2, <1>5 DEF Stands
  <2> DEFINE s == d.pos + 1
  <2>2. s \in F!Starts(x) /\ s > q /\ \A j \in F!Starts(x) : j > q => j >= s
    BY <1>1, <1>5, <2>1
  <2>3. s > p
    BY <1>2, <2>2
  <2> HIDE DEF s
  <2>4. F!FieldNo(x, s) = F!FieldNo(x, q) + 1
    BY <1>2, <2>2, NextFieldNo
  <2>5. F!FieldNo(x, s) % 2 = 1
    BY <1>4, <2>4
  <2> QED
    BY <2>3, <2>5 DEF s
<1>6. ASSUME NEW i \in F!PairStarts(x), i > p PROVE d.len > 0 /\ i >= d.pos + 1
  <2>1. i \in F!ReadFields(x) /\ i \in F!Starts(x) /\ i \in Nat /\ F!FieldNo(x, i) % 2 = 1
    BY PairsAre, ReadFieldsAre
  <2>2. i >= q /\ i # q
    BY <1>2, <1>4, <1>6, <2>1
  <2>3. i > q
    BY <1>2, <2>1, <2>2
  <2>4. d.len \in Nat
    BY <1>1 DEF Stands, Inside
  <2> QED
    BY <1>1, <1>2, <2>1, <2>3, <2>4
<1> QED
  BY <1>1, <1>5, <1>6 DEF q

-------------------------------------------------------------------------------
(***************************************************************************)
(* Sums over finite sets.                                                  *)
(***************************************************************************)
Pick(s) == CHOOSE x \in s : TRUE

\* h adds up f over the sets in D, as SumFunctionOnSet does.
Adds(f, D, h) ==
  h = [s \in D |-> IF s = {} THEN 0 ELSE f[Pick(s)] + h[s \ {Pick(s)}]]

AddsUp(f, S) == CHOOSE h : Adds(f, SUBSET S, h)

LEMMA SumIsAddsUp ==
  ASSUME NEW f, NEW S PROVE SumFunctionOnSet(f, S) = AddsUp(f, S)[S]
BY Zenon DEF SumFunctionOnSet, FoldFunctionOnSet, MapThenFoldSet, AddsUp, Adds, Pick

\* A set of sets that has a finite one has one without a smaller one.
LEMMA SmallestSet ==
  ASSUME NEW B, B # {}, \A T \in B : IsFiniteSet(T)
  PROVE  \E T \in B : \A x \in T : T \ {x} \notin B
<1> DEFINE N == {Cardinality(T) : T \in B}
<1>1. N \subseteq Nat /\ N # {}
  BY FS_CardinalityType
<1>2. PICK n \in N : \A m \in N : n <= m
  BY <1>1, NatMinimum
<1>3. PICK T \in B : n = Cardinality(T)
  BY <1>2
<1>4. ASSUME NEW x \in T PROVE T \ {x} \notin B
  <2>1. Cardinality(T \ {x}) = n - 1 /\ n \in Nat
    BY <1>1, <1>3, <1>4, FS_RemoveElement
  <2>2. SUFFICES ASSUME T \ {x} \in B PROVE FALSE
    OBVIOUS
  <2> QED
    BY <1>2, <2>1, <2>2
<1> QED
  BY <1>3, <1>4

LEMMA AddsUpExists ==
  ASSUME NEW f, NEW S, IsFiniteSet(S)
  PROVE  Adds(f, SUBSET S, AddsUp(f, S))
<1> DEFINE Few(n) == {s \in SUBSET S : Cardinality(s) <= n}
           T == {n \in Nat : ~ \E h : Adds(f, Few(n), h)}
<1>1. \A s \in SUBSET S : IsFiniteSet(s) /\ Cardinality(s) \in Nat
                          /\ (Cardinality(s) = 0 <=> s = {})
  BY FS_Subset, FS_CardinalityType, FS_EmptySet
<1>2. T = {}
  <2>1. SUFFICES ASSUME T # {} PROVE FALSE
    OBVIOUS
  <2>2. PICK n \in T : \A m \in T : n <= m
    BY <2>1, NatMinimum
  <2>3. CASE n = 0
    <3> DEFINE h == [s \in {{}} |-> 0]
    <3>1. Few(0) = {{}}
      BY <1>1
    <3>2. Adds(f, Few(0), h)
      BY <3>1 DEF Adds
    <3> QED
      BY <2>2, <2>3, <3>2
  <2>4. CASE n # 0
    <3>1. n - 1 \in Nat /\ n - 1 \notin T
      <4>1. n \in Nat /\ n - 1 \in Nat /\ ~(n <= n - 1)
        BY <2>2, <2>4
      <4> HIDE DEF T
      <4> QED
        BY <2>2, <4>1
    <3>2. PICK g : Adds(f, Few(n - 1), g)
      BY <3>1
    <3> DEFINE h == [s \in Few(n) |-> IF s = {} THEN 0 ELSE f[Pick(s)] + g[s \ {Pick(s)}]]
    <3>3. ASSUME NEW s \in Few(n), s # {}
          PROVE  s \ {Pick(s)} \in Few(n) /\ g[s \ {Pick(s)}] = h[s \ {Pick(s)}]
      <4>1. Pick(s) \in s
        BY <3>3 DEF Pick
      <4>2. Cardinality(s \ {Pick(s)}) = Cardinality(s) - 1
        BY <1>1, <4>1, FS_RemoveElement
      <4> DEFINE r == s \ {Pick(s)}
      <4>3. r \in Few(n - 1) /\ r \in Few(n)
        BY <1>1, <3>1, <4>2
      <4> HIDE DEF r
      <4>4. g[r] = IF r = {} THEN 0 ELSE f[Pick(r)] + g[r \ {Pick(r)}]
        <5> HIDE DEF Few
        <5> QED
        BY <3>2, <4>3 DEF Adds
      <4>5. h[r] = IF r = {} THEN 0 ELSE f[Pick(r)] + g[r \ {Pick(r)}]
        BY <4>3
      <4> QED
        BY <4>3, <4>4, <4>5 DEF r
    <3>4. Adds(f, Few(n), h)
      <4> HIDE DEF Few
      <4> QED
        BY <3>3 DEF Adds
    <3> QED
      BY <2>2, <3>4
  <2> QED
    BY <2>3, <2>4
<1>3. Few(Cardinality(S)) = SUBSET S /\ Cardinality(S) \in Nat
  BY <1>1, FS_Subset, FS_CardinalityType
<1>4. \E h : Adds(f, SUBSET S, h)
  BY <1>2, <1>3
<1> QED
  BY <1>4 DEF AddsUp

\* The sum over a smaller set is what the sum over a larger one comes to on it.
LEMMA AddsUpPart ==
  ASSUME NEW f, NEW S, IsFiniteSet(S), NEW R \in SUBSET S
  PROVE  AddsUp(f, S)[R] = SumFunctionOnSet(f, R)
<1> DEFINE B == {T \in SUBSET R : AddsUp(f, S)[T] # AddsUp(f, R)[T]}
<1>1. IsFiniteSet(R) /\ \A T \in SUBSET R : IsFiniteSet(T)
  BY FS_Subset
<1>2. Adds(f, SUBSET S, AddsUp(f, S)) /\ Adds(f, SUBSET R, AddsUp(f, R))
  BY <1>1, AddsUpExists
<1>3. B = {}
  <2>1. SUFFICES ASSUME B # {} PROVE FALSE
    OBVIOUS
  <2>2. PICK T \in B : \A x \in T : T \ {x} \notin B
    BY <1>1, <2>1, SmallestSet
  <2>3. T \in SUBSET S /\ T \in SUBSET R /\ AddsUp(f, S)[T] # AddsUp(f, R)[T]
    OBVIOUS
  <2> HIDE DEF B
  <2>4. AddsUp(f, S)[T] = (IF T = {} THEN 0 ELSE f[Pick(T)] + AddsUp(f, S)[T \ {Pick(T)}])
    BY <1>2, <2>3 DEF Adds
  <2>5. AddsUp(f, R)[T] = (IF T = {} THEN 0 ELSE f[Pick(T)] + AddsUp(f, R)[T \ {Pick(T)}])
    BY <1>2, <2>3 DEF Adds
  <2>6. T # {} => Pick(T) \in T
    BY DEF Pick
  <2>7. T # {} => AddsUp(f, S)[T \ {Pick(T)}] = AddsUp(f, R)[T \ {Pick(T)}]
    BY <2>2, <2>3, <2>6 DEF B
  <2> QED
    BY <2>3, <2>4, <2>5, <2>7
<1> QED
  BY <1>3, SumIsAddsUp

LEMMA SumOfNone ==
  ASSUME NEW f PROVE SumFunctionOnSet(f, {}) = 0
<1>1. Adds(f, SUBSET {}, AddsUp(f, {}))
  BY AddsUpExists, FS_EmptySet
<1> QED
  BY <1>1, SumIsAddsUp DEF Adds

LEMMA SumPicks ==
  ASSUME NEW f, NEW S, IsFiniteSet(S), S # {}
  PROVE  SumFunctionOnSet(f, S) = f[Pick(S)] + SumFunctionOnSet(f, S \ {Pick(S)})
<1>1. Adds(f, SUBSET S, AddsUp(f, S))
  BY AddsUpExists
<1>2. SumFunctionOnSet(f, S) = f[Pick(S)] + AddsUp(f, S)[S \ {Pick(S)}]
  BY <1>1, SumIsAddsUp DEF Adds
<1> QED
  BY <1>2, AddsUpPart

LEMMA SumType ==
  ASSUME NEW f, NEW S, IsFiniteSet(S), \A x \in S : f[x] \in Int
  PROVE  SumFunctionOnSet(f, S) \in Int
<1> DEFINE B == {T \in SUBSET S : SumFunctionOnSet(f, T) \notin Int}
<1>1. \A T \in SUBSET S : IsFiniteSet(T)
  BY FS_Subset
<1>2. B = {}
  <2>1. SUFFICES ASSUME B # {} PROVE FALSE
    OBVIOUS
  <2>2. PICK T \in B : \A x \in T : T \ {x} \notin B
    BY <1>1, <2>1, SmallestSet
  <2>3. T \in SUBSET S /\ SumFunctionOnSet(f, T) \notin Int
    OBVIOUS
  <2>4. T # {}
    BY <2>3, SumOfNone
  <2>5. Pick(T) \in T
    BY <2>4 DEF Pick
  <2>6. SumFunctionOnSet(f, T \ {Pick(T)}) \in Int
    BY <2>2, <2>3, <2>5
  <2> HIDE DEF B
  <2>7. SumFunctionOnSet(f, T) = f[Pick(T)] + SumFunctionOnSet(f, T \ {Pick(T)})
    BY <1>1, <2>3, <2>4, SumPicks
  <2> QED
    BY <2>3, <2>5, <2>6, <2>7
<1> QED
  BY <1>2

\* A sum does not depend on the order: any element may be taken out.
LEMMA SumTakesOut ==
  ASSUME NEW f, NEW S, IsFiniteSet(S), \A x \in S : f[x] \in Int, NEW a \in S
  PROVE  SumFunctionOnSet(f, S) = f[a] + SumFunctionOnSet(f, S \ {a})
<1> DEFINE Sum(T) == SumFunctionOnSet(f, T)
           B == {T \in SUBSET S : \E x \in T : Sum(T) # f[x] + Sum(T \ {x})}
<1>1. \A T \in SUBSET S : IsFiniteSet(T) /\ Sum(T) \in Int
  BY FS_Subset, SumType
<1>2. B = {}
  <2>1. SUFFICES ASSUME B # {} PROVE FALSE
    OBVIOUS
  <2>2. PICK T \in B : \A x \in T : T \ {x} \notin B
    BY <1>1, <2>1, SmallestSet
  <2>3. PICK x \in T : Sum(T) # f[x] + Sum(T \ {x})
    BY <2>2
  <2> DEFINE p == Pick(T)
  <2>4. T \in SUBSET S /\ p \in T /\ x \in S /\ p \in S
    BY <2>2, <2>3 DEF Pick
  <2>5. Sum(T) = f[p] + Sum(T \ {p})
    BY <1>1, <2>4, SumPicks
  <2>6. p # x
    BY <2>3, <2>5
  <2>7. Sum(T \ {p}) = f[x] + Sum((T \ {p}) \ {x})
    BY <2>2, <2>4, <2>6
  <2>8. Sum(T \ {x}) = f[p] + Sum((T \ {x}) \ {p})
    BY <2>2, <2>4, <2>6
  <2>9. (T \ {p}) \ {x} = (T \ {x}) \ {p}
    OBVIOUS
  <2>10. Sum((T \ {x}) \ {p}) \in Int
    BY <1>1, <2>4
  <2> HIDE DEF Sum, B, p
  <2>11. f[p] \in Int /\ f[x] \in Int
    BY <2>4
  <2>12. Sum((T \ {p}) \ {x}) = Sum((T \ {x}) \ {p})
    BY <2>9
  <2>13. \A u, v, w \in Int : u + (v + w) = v + (u + w)
    OBVIOUS
  <2> QED
    BY <2>3, <2>5, <2>7, <2>8, <2>10, <2>11, <2>12, <2>13
<1> QED
  BY <1>2

\* Equal terms have equal sums.
LEMMA SumSame ==
  ASSUME NEW f, NEW g, NEW S, IsFiniteSet(S),
         \A x \in S : f[x] \in Int /\ f[x] = g[x]
  PROVE  SumFunctionOnSet(f, S) = SumFunctionOnSet(g, S)
<1> DEFINE B == {T \in SUBSET S : SumFunctionOnSet(f, T) # SumFunctionOnSet(g, T)}
<1>1. \A T \in SUBSET S : IsFiniteSet(T)
  BY FS_Subset
<1>2. B = {}
  <2>1. SUFFICES ASSUME B # {} PROVE FALSE
    OBVIOUS
  <2>2. PICK T \in B : \A x \in T : T \ {x} \notin B
    BY <1>1, <2>1, SmallestSet
  <2>3. T \in SUBSET S /\ SumFunctionOnSet(f, T) # SumFunctionOnSet(g, T)
    OBVIOUS
  <2>4. T # {}
    BY <2>3, SumOfNone
  <2>5. PICK x \in T : TRUE
    BY <2>4
  <2>6. SumFunctionOnSet(f, T \ {x}) = SumFunctionOnSet(g, T \ {x})
    BY <2>2, <2>3
  <2> HIDE DEF B
  <2>7. SumFunctionOnSet(f, T) = f[x] + SumFunctionOnSet(f, T \ {x})
    BY <1>1, <2>3, SumTakesOut
  <2>8. SumFunctionOnSet(g, T) = g[x] + SumFunctionOnSet(g, T \ {x})
    BY <1>1, <2>3, SumTakesOut
  <2>9. f[x] = g[x]
    BY <2>3
  <2> QED
    BY <2>3, <2>6, <2>7, <2>8, <2>9
<1> QED
  BY <1>2

\* Terms that are 0 add nothing.
LEMMA SumSkips ==
  ASSUME NEW f, NEW S, IsFiniteSet(S), NEW R \in SUBSET S,
         \A x \in S : f[x] \in Int, \A x \in S \ R : f[x] = 0
  PROVE  SumFunctionOnSet(f, S) = SumFunctionOnSet(f, R)
<1> DEFINE B == {T \in SUBSET S : R \subseteq T /\ SumFunctionOnSet(f, T) # SumFunctionOnSet(f, R)}
<1>1. \A T \in SUBSET S : IsFiniteSet(T) /\ SumFunctionOnSet(f, T) \in Int
  BY FS_Subset, SumType
<1>2. B = {}
  <2>1. SUFFICES ASSUME B # {} PROVE FALSE
    OBVIOUS
  <2>2. PICK T \in B : \A x \in T : T \ {x} \notin B
    BY <1>1, <2>1, SmallestSet
  <2>3. T \in SUBSET S /\ R \subseteq T /\ SumFunctionOnSet(f, T) # SumFunctionOnSet(f, R)
    OBVIOUS
  <2>4. PICK x \in T \ R : TRUE
    BY <2>3
  <2>5. SumFunctionOnSet(f, T \ {x}) = SumFunctionOnSet(f, R)
    BY <2>2, <2>3, <2>4
  <2> HIDE DEF B
  <2>6. SumFunctionOnSet(f, T) = f[x] + SumFunctionOnSet(f, T \ {x})
    BY <1>1, <2>3, <2>4, SumTakesOut
  <2>7. f[x] = 0 /\ SumFunctionOnSet(f, R) \in Int
    BY <1>1, <2>3, <2>4
  <2> QED
    BY <2>3, <2>5, <2>6, <2>7
<1> QED
  BY <1>2

\* A sum of natural numbers is one, and none is 0 unless all of them are.
LEMMA SumNat ==
  ASSUME NEW f, NEW S, IsFiniteSet(S), \A x \in S : f[x] \in Nat
  PROVE  SumFunctionOnSet(f, S) \in Nat
<1> DEFINE B == {T \in SUBSET S : SumFunctionOnSet(f, T) \notin Nat}
<1>1. \A T \in SUBSET S : IsFiniteSet(T)
  BY FS_Subset
<1>2. B = {}
  <2>1. SUFFICES ASSUME B # {} PROVE FALSE
    OBVIOUS
  <2>2. PICK T \in B : \A x \in T : T \ {x} \notin B
    BY <1>1, <2>1, SmallestSet
  <2>3. T \in SUBSET S /\ SumFunctionOnSet(f, T) \notin Nat
    OBVIOUS
  <2>4. T # {}
    BY <2>3, SumOfNone
  <2>5. PICK x \in T : TRUE
    BY <2>4
  <2>6. SumFunctionOnSet(f, T \ {x}) \in Nat
    BY <2>2, <2>3
  <2> HIDE DEF B
  <2>7. SumFunctionOnSet(f, T) = f[x] + SumFunctionOnSet(f, T \ {x})
    BY <1>1, <2>3, SumTakesOut
  <2> QED
    BY <2>3, <2>6, <2>7
<1> QED
  BY <1>2

LEMMA SumIsZero ==
  ASSUME NEW f, NEW S, IsFiniteSet(S), \A x \in S : f[x] \in Nat,
         SumFunctionOnSet(f, S) = 0
  PROVE  \A x \in S : f[x] = 0
<1> SUFFICES ASSUME NEW x \in S PROVE f[x] = 0
  OBVIOUS
<1>1. SumFunctionOnSet(f, S) = f[x] + SumFunctionOnSet(f, S \ {x})
  BY SumTakesOut
<1>2. IsFiniteSet(S \ {x})
  BY FS_RemoveElement
<1>3. SumFunctionOnSet(f, S \ {x}) \in Nat
  BY <1>2, SumNat
<1> QED
  BY <1>1, <1>3
===============================================================================
