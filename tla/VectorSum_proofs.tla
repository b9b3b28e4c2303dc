--------------------------- MODULE VectorSum_proofs ---------------------------
(***************************************************************************)
(* isum and isumn for every set of rows, every character set, every order  *)
(* of queries, clears, rows and readings: the values that are divided      *)
(* while the reply is written never need more room than has been measured, *)
(* the indices come out in the order of the trie, and every step is one of *)
(* module VectorBag, where the sum is defined without a scan and a trie.   *)
(***************************************************************************)
EXTENDS VectorSumRefinement, UdfTokens_proofs, FiniteSetTheorems

\* The characters an index shows, and the slots they go to.
Digits == {numberOf[a] : a \in Charset}

LEMMA Slots ==
  \A a, b \in Digits : /\ number2id[a] \in Nat
                       /\ number2id[a] = number2id[b] => a = b
BY VectorSumAssumption DEF Digits

-------------------------------------------------------------------------------
\* Prefixes agree character by character.
LEMMA PrefixChars ==
  ASSUME NEW S, NEW p \in Seq(S), NEW n \in 0 .. Len(p)
  PROVE  /\ Prefix(p, n) \in Seq(S) /\ Len(Prefix(p, n)) = n
         /\ \A i \in 1 .. n : Prefix(p, n)[i] = p[i]
<1>1. Len(p) \in Nat /\ \A i \in 1 .. n : p[i] \in S
  BY ElementOfSeq, LenProperties
<1> QED
  BY <1>1, SubSeqProperties DEF Prefix

LEMMA SameChars ==
  ASSUME NEW S, NEW p \in Seq(S), NEW q \in Seq(S), Len(p) = Len(q),
         \A i \in 1 .. Len(p) : p[i] = q[i]
  PROVE  p = q
BY LenProperties

LEMMA PrefixAgree ==
  ASSUME NEW S, NEW p \in Seq(S), NEW q \in Seq(S), NEW n \in Nat, n <= Len(p), n <= Len(q)
  PROVE  Prefix(p, n) = Prefix(q, n) <=> \A i \in 1 .. n : p[i] = q[i]
<1>1. Len(p) \in Nat /\ Len(q) \in Nat
  BY LenProperties
<1>2. /\ Prefix(p, n) \in Seq(S) /\ Len(Prefix(p, n)) = n
      /\ \A i \in 1 .. n : Prefix(p, n)[i] = p[i]
  BY <1>1, PrefixChars
<1>3. /\ Prefix(q, n) \in Seq(S) /\ Len(Prefix(q, n)) = n
      /\ \A i \in 1 .. n : Prefix(q, n)[i] = q[i]
  BY <1>1, PrefixChars
<1>4. ASSUME \A i \in 1 .. n : p[i] = q[i] PROVE Prefix(p, n) = Prefix(q, n)
  BY <1>2, <1>3, <1>4, SameChars
<1> QED
  BY <1>2, <1>3, <1>4

\* Two words differ first at character k, where p comes first or has ended.
Differ(p, q, k) ==
  /\ k \in 1 .. Len(p) + 1 /\ k <= Len(q)
  /\ \A i \in 1 .. k - 1 : p[i] = q[i]
  /\ k <= Len(p) => number2id[p[k]] < number2id[q[k]]

LEMMA BeforeDiffers ==
  ASSUME NEW p \in Seq(Digits), NEW q \in Seq(Digits)
  PROVE  Before(number2id, p, q) <=> \E k \in Nat : Differ(p, q, k)
<1>1. Len(p) \in Nat /\ Len(q) \in Nat
  BY LenProperties
<1>2. ASSUME Len(p) < Len(q)
      PROVE  Prefix(q, Len(p)) = p <=> Differ(p, q, Len(p) + 1)
  <2>1. /\ Prefix(q, Len(p)) \in Seq(Digits) /\ Len(Prefix(q, Len(p))) = Len(p)
        /\ \A i \in 1 .. Len(p) : Prefix(q, Len(p))[i] = q[i]
    BY <1>1, <1>2, PrefixChars
  <2>2. Prefix(q, Len(p)) = p <=> \A i \in 1 .. Len(p) : p[i] = q[i]
    <3>1. ASSUME \A i \in 1 .. Len(p) : p[i] = q[i] PROVE Prefix(q, Len(p)) = p
      BY <2>1, <3>1, SameChars
    <3> QED
      BY <2>1, <3>1
  <2> QED
    BY <1>1, <1>2, <2>2 DEF Differ
<1>3. ASSUME NEW k \in 1 .. Len(p), k <= Len(q)
      PROVE  Prefix(p, k - 1) = Prefix(q, k - 1) /\ number2id[p[k]] < number2id[q[k]] <=> Differ(p, q, k)
  <2>0. k - 1 \in Nat /\ k - 1 <= Len(p) /\ k - 1 <= Len(q)
    BY <1>1, <1>3
  <2> DEFINE n == k - 1
  <2> HIDE DEF n
  <2>1. Prefix(p, n) = Prefix(q, n) <=> \A i \in 1 .. n : p[i] = q[i]
    BY <2>0, PrefixAgree DEF n
  <2> QED
    BY <1>1, <1>3, <2>1 DEF Differ, n
<1>4. ASSUME NEW k \in Nat, Differ(p, q, k) PROVE Before(number2id, p, q)
  <2>1. CASE k = Len(p) + 1
    BY <1>1, <1>2, <1>4, <2>1 DEF Before, Differ
  <2>2. CASE k # Len(p) + 1
    <3>1. k \in 1 .. Len(p) /\ k <= Len(q)
      BY <1>1, <1>4, <2>2 DEF Differ
    <3> QED
      BY <1>3, <1>4, <3>1 DEF Before
  <2> QED
    BY <2>1, <2>2
<1>5. ASSUME Before(number2id, p, q) PROVE \E k \in Nat : Differ(p, q, k)
  BY <1>1, <1>2, <1>3, <1>5 DEF Before
<1> QED
  BY <1>4, <1>5

\* Before is a strict total order of the words.
LEMMA NotBeforeItself ==
  ASSUME NEW p \in Seq(Digits) PROVE ~Before(number2id, p, p)
<1>1. Len(p) \in Nat /\ \A k \in 1 .. Len(p) : number2id[p[k]] \in Nat
  BY LenProperties, ElementOfSeq, Slots
<1> QED
  BY <1>1, BeforeDiffers DEF Differ

LEMMA BeforeTransitive ==
  ASSUME NEW p \in Seq(Digits), NEW q \in Seq(Digits), NEW r \in Seq(Digits),
         Before(number2id, p, q), Before(number2id, q, r)
  PROVE  Before(number2id, p, r)
<1>1. PICK j \in Nat : Differ(p, q, j)
  BY BeforeDiffers
<1>2. PICK k \in Nat : Differ(q, r, k)
  BY BeforeDiffers
<1>3. /\ Len(p) \in Nat /\ Len(q) \in Nat /\ Len(r) \in Nat
      /\ \A i \in 1 .. Len(p) : number2id[p[i]] \in Nat
      /\ \A i \in 1 .. Len(q) : number2id[q[i]] \in Nat
      /\ \A i \in 1 .. Len(r) : number2id[r[i]] \in Nat
  BY LenProperties, ElementOfSeq, Slots
<1>4. CASE j < k
  <2>1. Differ(p, r, j)
    BY <1>1, <1>2, <1>3, <1>4 DEF Differ
  <2> QED
    BY <2>1, BeforeDiffers
<1>5. CASE j = k
  <2>1. Differ(p, r, j)
    BY <1>1, <1>2, <1>3, <1>5 DEF Differ
  <2> QED
    BY <2>1, BeforeDiffers
<1>6. CASE k < j
  <2>1. Differ(p, r, k)
    BY <1>1, <1>2, <1>3, <1>6 DEF Differ
  <2> QED
    BY <2>1, BeforeDiffers
<1> QED
  BY <1>4, <1>5, <1>6

LEMMA BeforeTotal ==
  ASSUME NEW p \in Seq(Digits), NEW q \in Seq(Digits), p # q
  PROVE  Before(number2id, p, q) \/ Before(number2id, q, p)
<1> DEFINE T == {k \in Nat \ {0} : k > Len(p) \/ k > Len(q) \/ p[k] # q[k]}
<1>1. Len(p) \in Nat /\ Len(q) \in Nat
  BY LenProperties
<1>2. Len(p) + 1 \in T
  BY <1>1
<1>3. PICK k \in T : \A j \in T : k <= j
  BY <1>2, NatMinimum
<1>4. k \in Nat \ {0} /\ \A i \in 1 .. k - 1 : i <= Len(p) /\ i <= Len(q) /\ p[i] = q[i]
  BY <1>1, <1>3
<1>5. k \in 1 .. Len(p) + 1 /\ k \in 1 .. Len(q) + 1
  BY <1>1, <1>3, <1>4
<1>6. k <= Len(p) \/ k <= Len(q)
  <2> SUFFICES ASSUME k = Len(p) + 1, k = Len(q) + 1 PROVE FALSE
    BY <1>1, <1>5
  <2> QED
    BY <1>1, <1>4, SameChars
<1>7. k <= Len(p) /\ k <= Len(q) =>
        number2id[p[k]] < number2id[q[k]] \/ number2id[q[k]] < number2id[p[k]]
  <2> SUFFICES ASSUME k <= Len(p), k <= Len(q)
               PROVE  number2id[p[k]] < number2id[q[k]] \/ number2id[q[k]] < number2id[p[k]]
    OBVIOUS
  <2>1. p[k] \in Digits /\ q[k] \in Digits /\ p[k] # q[k]
    BY <1>1, <1>3, <1>5, ElementOfSeq
  <2>2. /\ number2id[p[k]] \in Nat /\ number2id[q[k]] \in Nat
        /\ number2id[p[k]] # number2id[q[k]]
    BY <2>1, Slots
  <2> QED
    BY <2>2
<1> HIDE DEF T
<1>8. Differ(p, q, k) \/ Differ(q, p, k)
  BY <1>1, <1>4, <1>5, <1>6, <1>7 DEF Differ
<1> QED
  BY <1>4, <1>8, BeforeDiffers

\* The passes find a first index as long as there is one left.
LEMMA FirstIsFirst ==
  ASSUME NEW S, S \subseteq Seq(Digits), IsFiniteSet(S), S # {}
  PROVE  /\ First(number2id, S) \in S
         /\ \A q \in S \ {First(number2id, S)} : Before(number2id, First(number2id, S), q)
<1> DEFINE Less(p) == {q \in S : Before(number2id, q, p)}
           T == {Cardinality(Less(p)) : p \in S}
<1>1. \A p \in S : IsFiniteSet(Less(p)) /\ Cardinality(Less(p)) \in Nat
  BY FS_Subset, FS_CardinalityType
<1>2. T \subseteq Nat /\ T # {}
  BY <1>1
<1>3. \E n \in T : \A m \in T : n <= m
  BY <1>2, NatMinimum
<1>4. PICK p \in S : \A q \in S : Cardinality(Less(p)) <= Cardinality(Less(q))
  BY <1>3
<1>5. ASSUME NEW q \in S \ {p} PROVE Before(number2id, p, q)
  <2> SUFFICES ASSUME Before(number2id, q, p) PROVE FALSE
    BY BeforeTotal
  <2>1. Less(q) \subseteq Less(p)
    BY BeforeTransitive
  <2>2. q \in Less(p) /\ q \notin Less(q)
    BY NotBeforeItself
  <2>3. Less(q) \in SUBSET Less(p) /\ Less(q) # Less(p) /\ IsFiniteSet(Less(p))
    BY <1>1, <2>1, <2>2
  <2> HIDE DEF Less
  <2>4. Cardinality(Less(q)) < Cardinality(Less(p))
    BY <1>1, <2>3, FS_Subset
  <2> QED
    BY <1>1, <1>4, <2>4
<1>6. \E f \in S : \A q \in S \ {f} : Before(number2id, f, q)
  BY <1>5
<1> QED
  BY <1>6 DEF First
-------------------------------------------------------------------------------
(***************************************************************************)
(* TypeOK is not inductive: what an index is, that the trie is finite, and *)
(* that nothing is left to visit between two readings.                     *)
(***************************************************************************)
Shape ==
  /\ word \in Seq(Digits)
  /\ DOMAIN sum \subseteq Seq(Digits) /\ IsFiniteSet(DOMAIN sum)
  /\ pc \notin {"measure", "write"} => todo = {}

Typed == TypeOK /\ Shape

\* The token of a value, whose value is given, has no separator in it.
LEMMA TokenOfChars ==
  ASSUME NEW x \in Seq(Charset), NEW c, Inside(x, c)
  PROVE  LET t == NextNumber(x, c).tok IN
         Len(t) \in 0 .. MaxTok /\ t \in [1 .. Len(t) -> Charset \ Sep]
<1>1. c.pos \in Nat /\ c.len \in Nat /\ c.pos + c.len <= Len(x) /\ Len(x) \in Nat
  BY LenProperties DEF Inside
<1>2. Bound(c.len) \in Nat /\ Bound(c.len) <= c.len /\ Bound(c.len) <= MaxTok /\ MaxTok \in Nat
  BY <1>1, BoundType, MaxTokAssumption
<1>3. ASSUME NEW n \in 0 .. Bound(c.len), \A i \in 0 .. n - 1 : i \notin Stops(x, c)
      PROVE  Len(Chars(x, c, n)) = n /\ Chars(x, c, n) \in [1 .. n -> Charset \ Sep]
  <2>1. \A j \in (c.pos + 1) .. (c.pos + n) : x[j] \in Charset \ Sep
    <3> SUFFICES ASSUME NEW j \in (c.pos + 1) .. (c.pos + n) PROVE x[j] \in Charset \ Sep
      OBVIOUS
    <3>1. x[j] \in Charset
      BY <1>1, <1>2, ElementOfSeq
    <3>2. j - 1 - c.pos \in 0 .. n - 1 /\ c.pos + (j - 1 - c.pos) + 1 = j
      BY <1>1, <1>2
    <3>3. x[j] \notin Sep
      BY <1>2, <1>3, <3>2 DEF Stops
    <3> QED
      BY <3>1, <3>3
  <2>2. Chars(x, c, n) \in Seq(Charset \ Sep) /\ Len(Chars(x, c, n)) = n
    <3> DEFINE a == c.pos + 1
               b == c.pos + n
    <3>1. a \in Int /\ b \in Int /\ (IF a <= b THEN b - a + 1 ELSE 0) = n
      BY <1>1, <1>2
    <3>2. \A j \in a .. b : x[j] \in Charset \ Sep
      BY <2>1
    <3> HIDE DEF a, b
    <3>3. SubSeq(x, a, b) \in Seq(Charset \ Sep) /\ Len(SubSeq(x, a, b)) = n
      BY <3>1, <3>2, SubSeqProperties
    <3> QED
      BY <3>3 DEF Chars, a, b
  <2> QED
    BY <2>2, LenProperties
<1>4. CASE Bound(c.len) = 0
  <2>1. NextNumber(x, c).tok = <<>>
    BY <1>4 DEF NextNumber, NextWord
  <2>2. Len(<<>>) = 0 /\ <<>> \in Seq(Charset \ Sep)
    BY EmptySeq
  <2>3. <<>> \in [1 .. 0 -> Charset \ Sep]
    BY <2>2, LenProperties
  <2> QED
    BY <1>2, <2>1, <2>2, <2>3
<1>5. CASE Bound(c.len) # 0 /\ Stops(x, c) = {}
  <2>1. NextNumber(x, c).tok = Chars(x, c, Bound(c.len))
    BY <1>5 DEF NextNumber, NextWord
  <2> QED
    BY <1>2, <1>3, <1>5, <2>1
<1>6. CASE Bound(c.len) # 0 /\ Stops(x, c) # {}
  <2>1. NextNumber(x, c).tok = Chars(x, c, FirstStop(x, c))
    BY <1>6 DEF NextNumber, NextWord
  <2>2. Stops(x, c) \subseteq 0 .. Bound(c.len) - 1 /\ Stops(x, c) \subseteq Nat
    BY <1>2 DEF Stops
  <2>3. \E i \in Stops(x, c) : \A j \in Stops(x, c) : i <= j
    BY <1>6, <2>2, NatMinimum
  <2>4. FirstStop(x, c) \in Stops(x, c) /\ \A j \in Stops(x, c) : FirstStop(x, c) <= j
    BY <2>3 DEF FirstStop
  <2> DEFINE n == FirstStop(x, c)
  <2> HIDE DEF n
  <2>5. n \in 0 .. Bound(c.len) /\ \A i \in 0 .. n - 1 : i \notin Stops(x, c)
    BY <1>2, <2>2, <2>4 DEF n
  <2>6. Len(Chars(x, c, n)) = n /\ Chars(x, c, n) \in [1 .. n -> Charset \ Sep]
    BY <1>3, <2>5
  <2> QED
    BY <1>2, <2>1, <2>5, <2>6 DEF n
<1> QED
  BY <1>4, <1>5, <1>6

LEMMA RowType == Rows \cup {<<>>} \subseteq Seq(Charset)
BY EmptySeq, VectorSumAssumption

LEMMA IndexType ==
  ASSUME NEW t \in Seq(Charset) PROVE Index(t) \in Seq(Digits)
<1>1. Len(t) \in Nat /\ \A k \in 1 .. Len(t) : numberOf[t[k]] \in Digits
  BY LenProperties, ElementOfSeq DEF Digits
<1> QED
  BY <1>1, SeqDef DEF Index

LEMMA FetchIndexType ==
  ASSUME NEW x \in Rows \cup {<<>>}, NEW c, Inside(x, c), FetchIndex(x, c)
  PROVE  /\ pc' \in {"add", "idle"} /\ row' \in Rows \cup {<<>>}
         /\ Inside(row', cur') /\ word' \in Seq(Digits)
<1>1. x \in Seq(Charset)
  BY RowType
<1>2. Inside(x, NextWord(x, c).cur) /\ Index(NextWord(x, c).tok) \in Seq(Digits)
  BY <1>1, NextWordSafe, IndexType
<1>3. Inside(<<>>, Cursor(0, 0)) /\ <<>> \in Seq(Digits)
  BY EmptySeq DEF Inside, Cursor
<1> QED
  BY <1>2, <1>3 DEF FetchIndex

LEMMA VaAddType ==
  ASSUME Typed, NEW v \in Int, VaAdd(word, v)
  PROVE  /\ DOMAIN sum' = DOMAIN by'
         /\ sum' \in [DOMAIN sum' -> Int] /\ by' \in [DOMAIN by' -> Divisors]
         /\ DOMAIN sum' \subseteq Seq(Digits) /\ IsFiniteSet(DOMAIN sum')
<1>1. CASE word = <<>>
  BY <1>1 DEF VaAdd, Typed, TypeOK, Shape
<1>2. CASE word # <<>>
  <2>1. /\ sum' = [u \in DOMAIN sum \cup {word} |->
                     (IF u \in DOMAIN sum THEN sum[u] ELSE 0) + (IF u = word THEN v ELSE 0)]
        /\ by' = [u \in DOMAIN by \cup {word} |-> IF u \in DOMAIN by THEN by[u] ELSE 0]
    BY <1>2 DEF VaAdd
  <2>2. IsFiniteSet(DOMAIN sum \cup {word})
    BY FS_AddElement DEF Typed, Shape
  <2>3. 0 \in Divisors
    BY DEF Divisors
  <2> QED
    BY <2>1, <2>2, <2>3 DEF Typed, TypeOK, Shape
<1> QED
  BY <1>1, <1>2

\* What "%f" prints has a length, and dividing a value makes it no longer.
LEMMA WidthType ==
  ASSUME NEW n, NEW d PROVE ValueWidth(n, d) \in Nat
<1>1. Cardinality({k \in NewDigit : k <= Abs(n)}) \in Nat
  BY VectorSumAssumption, FS_Subset, FS_CardinalityType
<1> QED
  BY <1>1, VectorSumAssumption DEF ValueWidth, Width, Sign

LEMMA DividedIsNoLonger ==
  ASSUME NEW w PROVE ValueWidth(sum[w], DividedBy(w)) <= ValueWidth(sum[w], by[w])
<1>1. Cardinality({k \in NewDigit : k <= Abs(sum[w])}) \in Nat
  BY VectorSumAssumption, FS_Subset, FS_CardinalityType
<1>2. DividedBy(w) = 0 => by[w] = 0
  BY VectorSumAssumption DEF DividedBy
<1>3. Width(Abs(sum[w])) \in Nat /\ Width(Abs(sum[w])) >= 1
  BY <1>1 DEF Width
<1> QED
  BY <1>2, <1>3, VectorSumAssumption DEF ValueWidth, Sign

\* A longer value, or more before it, never makes the text shorter.
LEMMA GrowType ==
  ASSUME NEW n \in Nat, NEW w \in Seq(Digits), NEW v \in Nat
  PROVE  Grow(n, w, v) \in Nat /\ Grow(n, w, v) > n
BY LenProperties DEF Grow

LEMMA GrowMonotonic ==
  ASSUME NEW n \in Nat, NEW m \in Nat, n <= m, NEW w \in Seq(Digits),
         NEW v \in Nat, NEW u \in Nat, v <= u
  PROVE  Grow(n, w, v) <= Grow(m, w, u)
BY LenProperties DEF Grow

LEMMA TypedNext == Typed /\ [Next]_vars => Typed'
<1> SUFFICES ASSUME Typed, [Next]_vars PROVE Typed'
  OBVIOUS
<1> USE DEF context, input, output
<1>0. 0 \in Nat /\ DOMAIN NoVector = {} /\ IsFiniteSet({}) /\ NoVector \in [{} -> Int]
      /\ NoVector \in [{} -> Divisors]
  BY FS_EmptySet DEF NoVector
<1>1. ASSUME NEW f \in {"isum", "isumn"}, IsumInit(f) PROVE Typed'
  BY <1>0, <1>1 DEF IsumInit, VacInit, Typed, TypeOK, Shape
<1>2. CASE IsumInitFails
  BY <1>2 DEF IsumInitFails, Typed, TypeOK, Shape
<1>3. CASE IsumClear
  BY <1>0, <1>3 DEF IsumClear, VacInit, Typed, TypeOK, Shape
<1>4. CASE IsumDeinit
  BY <1>0, <1>4 DEF IsumDeinit, Typed, TypeOK, Shape
<1>5. ASSUME NEW x \in Rows, IsumAdd(x) PROVE Typed'
  <2>1. Inside(x, Start(x))
    BY RowType, LenProperties DEF Inside, Start, Cursor
  <2>2. FetchIndex(x, Start(x))
    BY <1>5 DEF IsumAdd
  <2>3. /\ pc' \in {"add", "idle"} /\ row' \in Rows \cup {<<>>}
        /\ Inside(row', cur') /\ word' \in Seq(Digits)
    BY <2>1, <2>2, FetchIndexType
  <2>4. pc = "idle" /\ UNCHANGED <<fn, context, output>>
    BY <1>5 DEF IsumAdd
  <2> QED
    BY <2>3, <2>4 DEF Typed, TypeOK, Shape
<1>6. CASE AddPair
  <2> DEFINE r == NextNumber(row, cur)
  <2>1. row \in Rows \cup {<<>>} /\ row \in Seq(Charset) /\ Inside(row, cur)
    BY RowType DEF Typed, TypeOK
  <2>2. Inside(row, r.cur)
    BY <2>1, NextNumberSafe
  <2>3. Atof[r.tok] \in Int
    BY <2>1, TokenOfChars, VectorSumAssumption
  <2>4. pc = "add" /\ VaAdd(word, Atof[r.tok]) /\ FetchIndex(row, r.cur)
        /\ UNCHANGED <<fn, normalize, len, size, todo, cap>>
    BY <1>6 DEF AddPair
  <2>5. /\ pc' \in {"add", "idle"} /\ row' \in Rows \cup {<<>>}
        /\ Inside(row', cur') /\ word' \in Seq(Digits)
    BY <2>1, <2>2, <2>4, FetchIndexType
  <2>6. /\ DOMAIN sum' = DOMAIN by'
        /\ sum' \in [DOMAIN sum' -> Int] /\ by' \in [DOMAIN by' -> Divisors]
        /\ DOMAIN sum' \subseteq Seq(Digits) /\ IsFiniteSet(DOMAIN sum')
    BY <2>3, <2>4, VaAddType
  <2> QED
    BY <2>4, <2>5, <2>6 DEF Typed, TypeOK, Shape
<1>7. CASE IsumStart
  BY <1>7 DEF IsumStart, Typed, TypeOK, Shape
<1>8. ASSUME NEW w \in todo, VacPrepare(w) PROVE Typed'
  <2>1. w \in Seq(Digits) /\ sum[w] \in Int
    BY DEF Typed, TypeOK, Shape
  <2>2. Grow(size, w, ValueWidth(sum[w], by[w])) \in Nat
    BY <2>1, WidthType, GrowType DEF Typed, TypeOK
  <2>3. \E q \in Nat : len' = [len EXCEPT !.sq = len.sq + q]
    <3>1. sum[w] * sum[w] \in Nat
      BY <2>1
    <3> QED
      BY <1>8, <3>1 DEF VacPrepare
  <2>4. len' \in [sq : Nat, stale : BOOLEAN]
    BY <2>3 DEF Typed, TypeOK
  <2> QED
    BY <1>8, <2>2, <2>4 DEF VacPrepare, Visit, Typed, TypeOK, Shape
<1>9. CASE Allocate
  BY <1>9 DEF Allocate, Typed, TypeOK, Shape
<1>10. ASSUME NEW w \in todo, VacWrite(w) PROVE Typed'
  <2>1. w \in Seq(Digits) /\ sum[w] \in Int /\ w \in DOMAIN by
    BY DEF Typed, TypeOK, Shape
  <2>2. Grow(size, w, ValueWidth(sum[w], DividedBy(w))) \in Nat
    BY <2>1, WidthType, GrowType DEF Typed, TypeOK
  <2>3. DividedBy(w) \in Divisors
    BY <2>1 DEF DividedBy, Divisors, Typed, TypeOK
  <2> QED
    BY <1>10, <2>2, <2>3 DEF VacWrite, Visit, Typed, TypeOK, Shape
<1>11. CASE IsumReturn
  BY <1>11 DEF IsumReturn, Typed, TypeOK, Shape
<1>12. CASE UNCHANGED vars
  BY <1>12 DEF vars, Typed, TypeOK, Shape
<1> QED
  BY <1>1, <1>2, <1>3, <1>4, <1>5, <1>6, <1>7, <1>8, <1>9, <1>10, <1>11, <1>12 DEF Next, Continue

LEMMA TypedInit == Init => Typed
<1> SUFFICES ASSUME Init PROVE Typed
  OBVIOUS
<1>1. DOMAIN NoVector = {} /\ IsFiniteSet({}) /\ NoVector \in [{} -> Int]
      /\ NoVector \in [{} -> Divisors]
  BY FS_EmptySet DEF NoVector
<1>2. Len(<<>>) = 0 /\ <<>> \in Seq(Digits)
  BY EmptySeq
<1>3. Inside(row, cur)
  BY <1>2 DEF Init, Inside, Cursor
<1>4. TypeOK
  BY <1>1, <1>3 DEF Init, TypeOK
<1> QED
  BY <1>1, <1>2, <1>4 DEF Init, Typed, Shape

LEMMA TypedAlways == Spec => []Typed
BY TypedInit, TypedNext, PTL DEF Spec

(* The state of the two aggregates is typed: cursors stay inside their row *)
(* and what is left to visit is in the trie.                               *)
THEOREM TypeCorrect == Spec => []TypeOK
<1>1. Typed => TypeOK
  BY DEF Typed
<1> QED
  BY <1>1, TypedAlways, PTL
-------------------------------------------------------------------------------
\* The nodes of the first k entries of plan, and the size after them.
Nodes(k) == {plan[j].node : j \in 1 .. k}
SizeAt(k) == IF k = 0 THEN 0 ELSE plan[k].size

Entry == [node : Seq(Digits), size : Nat]
Texts == Seq(Digits) \X Int \X Divisors

Needs(w) == ValueWidth(sum[w], by[w])

(***************************************************************************)
(* plan records the measuring pass: each node is the first of those that   *)
(* are left.  The writing pass goes over the same nodes.  Those ahead of   *)
(* it still need what has been measured for them, those behind have not    *)
(* got more.                                                               *)
(***************************************************************************)
Planned ==
  /\ plan \in Seq(Entry)
  /\ \A i \in 1 .. Len(plan) : /\ plan[i].node \in DOMAIN sum \ Nodes(i - 1)
                               /\ plan[i].node = First(number2id, DOMAIN sum \ Nodes(i - 1))
                               /\ SizeAt(i - 1) <= SizeAt(i)

Ahead(k) == \A i \in k + 1 .. Len(plan) :
              plan[i].size = Grow(SizeAt(i - 1), plan[i].node, Needs(plan[i].node))

Measuring == /\ Planned /\ Ahead(0)
             /\ todo = DOMAIN sum \ Nodes(Len(plan))
             /\ size = SizeAt(Len(plan))

Writing == /\ Planned /\ Ahead(Len(text))
           /\ DOMAIN sum \subseteq Nodes(Len(plan))
           /\ cap = SizeAt(Len(plan)) + 1
           /\ Len(text) \in 0 .. Len(plan)
           /\ todo = DOMAIN sum \ Nodes(Len(text))
           /\ size <= SizeAt(Len(text))
           /\ \A i \in 1 .. Len(text) : text[i][1] = plan[i].node

Passes == /\ text \in Seq(Texts)
          /\ pc # "write" => text = <<>>
          /\ pc = "measure" => Measuring
          /\ pc = "write" => Writing

LEMMA SizeAtType ==
  ASSUME Planned, NEW k \in 0 .. Len(plan) PROVE SizeAt(k) \in Nat
<1>1. CASE k = 0
  BY <1>1 DEF SizeAt
<1>2. CASE k # 0
  <2>1. k \in 1 .. Len(plan) /\ plan \in Seq(Entry)
    BY <1>2, LenProperties DEF Planned
  <2>2. plan[k] \in Entry
    BY <2>1, ElementOfSeq
  <2> QED
    BY <1>2, <2>2 DEF SizeAt, Entry
<1> QED
  BY <1>1, <1>2

\* What a pass has measured after all of the plan is what is left after less
\* of it, and more.
LEMMA SizesGrow ==
  ASSUME Planned, NEW k \in 0 .. Len(plan) PROVE SizeAt(k) <= SizeAt(Len(plan))
<1> DEFINE n == Len(plan)
           T == {i \in 0 .. n : SizeAt(n - i) <= SizeAt(n)}
<1>1. n \in Nat
  BY LenProperties DEF Planned
<1>2. \A i \in 0 .. n : SizeAt(i) \in Nat
  BY SizeAtType
<1>3. ASSUME NEW i \in T, i + 1 <= n PROVE i + 1 \in T
  <2>1. n - i \in 1 .. n /\ n - i - 1 \in 0 .. n /\ n - i \in 0 .. n
    BY <1>1, <1>3
  <2>2. SizeAt(n - i - 1) <= SizeAt(n - i)
    BY <2>1 DEF Planned
  <2>3. n - (i + 1) = n - i - 1
    BY <1>1, <1>3
  <2>4. SizeAt(n - i - 1) <= SizeAt(n)
    BY <1>1, <1>2, <1>3, <2>1, <2>2
  <2> QED
    BY <1>1, <1>3, <2>3, <2>4
<1>4. 0 \in T
  BY <1>1, <1>2
<1>5. \A i \in 0 .. n : i \in T
  <2> SUFFICES ASSUME {i \in 0 .. n : i \notin T} # {} PROVE FALSE
    OBVIOUS
  <2>1. {i \in 0 .. n : i \notin T} \subseteq Nat
    OBVIOUS
  <2>2. PICK i \in {j \in 0 .. n : j \notin T} : \A j \in {l \in 0 .. n : l \notin T} : i <= j
    BY <2>1, NatMinimum
  <2>3. i # 0 /\ i - 1 \in 0 .. n /\ i - 1 + 1 = i
    BY <1>4, <2>2
  <2>4. i - 1 \in T /\ (i - 1) + 1 <= n
    BY <1>1, <2>2, <2>3
  <2> HIDE DEF T
  <2>5. (i - 1) + 1 \in T
    BY <1>3, <2>4
  <2> QED
    BY <2>2, <2>3, <2>5
<1>6. n - k \in 0 .. n /\ n - (n - k) = k
  BY <1>1
<1> QED
  BY <1>5, <1>6

\* A step that leaves the trie and the plan as they are.
LEMMA PlanSame ==
  ASSUME UNCHANGED <<plan, sum>>
  PROVE  /\ Planned <=> Planned'
         /\ \A k : Nodes(k)' = Nodes(k) /\ SizeAt(k)' = SizeAt(k)
<1>1. \A k : Nodes(k)' = Nodes(k) /\ SizeAt(k)' = SizeAt(k)
  BY DEF Nodes, SizeAt
<1> QED
  BY <1>1 DEF Planned

\* The measuring pass visits the next node and writes it down.
LEMMA MeasureStep ==
  ASSUME Typed, Measuring, NEW w \in todo, VacPrepare(w) PROVE Measuring'
<1>0. PICK n \in Nat : n = Len(plan)
  BY LenProperties DEF Measuring, Planned
<1> DEFINE g == Grow(size, w, Needs(w))
           e == [node |-> w, size |-> g]
<1>1. /\ w = First(number2id, todo) /\ todo' = todo \ {w} /\ size' = g
      /\ plan' = Append(plan, e) /\ UNCHANGED <<sum, by>>
  BY DEF VacPrepare, Visit, Needs
<1>2. /\ plan \in Seq(Entry) /\ todo = DOMAIN sum \ Nodes(n) /\ size = SizeAt(n)
  BY <1>0 DEF Measuring, Planned
<1>3. w \in Seq(Digits) /\ size \in Nat /\ w \in DOMAIN sum /\ w \in DOMAIN by /\ sum[w] \in Int
  BY DEF Typed, TypeOK, Shape
<1>4. g \in Nat /\ g > size
  <2>1. Needs(w) \in Nat
    BY <1>3, WidthType DEF Needs
  <2> QED
    BY <1>3, <2>1, GrowType
<1>5. e \in Entry
  BY <1>3, <1>4 DEF Entry
<1>6. /\ plan' \in Seq(Entry) /\ Len(plan') = n + 1
      /\ \A i \in 1 .. n : plan'[i] = plan[i]
      /\ plan'[n + 1].node = w /\ plan'[n + 1].size = g
  BY <1>0, <1>1, <1>2, <1>5, AppendProperties
<1>7. \A k \in 0 .. n : Nodes(k)' = Nodes(k) /\ SizeAt(k)' = SizeAt(k)
  BY <1>0, <1>6 DEF Nodes, SizeAt
<1>8. SizeAt(n + 1)' = g /\ Nodes(n + 1)' = Nodes(n) \cup {w}
  <2>1. SizeAt(n + 1)' = g
    BY <1>0, <1>6 DEF SizeAt
  <2>2. 1 .. (n + 1) = 1 .. n \cup {n + 1}
    BY <1>0
  <2>3. Nodes(n + 1)' = Nodes(n) \cup {w}
    BY <1>6, <2>2 DEF Nodes
  <2> QED
    BY <2>1, <2>3
<1>9. \A v : Needs(v)' = Needs(v)
  BY <1>1 DEF Needs
<1>10. \A i \in 1 .. n :
         /\ plan[i].node \in DOMAIN sum \ Nodes(i - 1)
         /\ plan[i].node = First(number2id, DOMAIN sum \ Nodes(i - 1))
         /\ SizeAt(i - 1) <= SizeAt(i)
         /\ plan[i].size = Grow(SizeAt(i - 1), plan[i].node, Needs(plan[i].node))
  BY <1>0 DEF Measuring, Planned, Ahead
<1>11. Planned'
  <2>1. ASSUME NEW i \in 1 .. n + 1
        PROVE  /\ plan'[i].node \in DOMAIN sum \ Nodes(i - 1)'
               /\ plan'[i].node = First(number2id, DOMAIN sum \ Nodes(i - 1)')
               /\ SizeAt(i - 1)' <= SizeAt(i)'
    <3>1. CASE i \in 1 .. n
      <4>1. i - 1 \in 0 .. n /\ i \in 0 .. n /\ plan'[i] = plan[i]
        BY <1>0, <1>6, <3>1
      <4> QED
        BY <1>7, <1>10, <3>1, <4>1
    <3>2. CASE i = n + 1
      <4>1. i - 1 = n /\ n \in 0 .. n
        BY <1>0, <3>2
      <4>2. Nodes(n)' = Nodes(n) /\ SizeAt(n)' = size
        BY <1>2, <1>7, <4>1
      <4>3. SizeAt(n)' <= SizeAt(n + 1)'
        BY <1>3, <1>4, <1>8, <4>2
      <4> HIDE DEF g
      <4> QED
        BY <1>1, <1>2, <1>6, <3>2, <4>1, <4>2, <4>3
    <3> QED
      BY <1>0, <3>1, <3>2
  <2> QED
    BY <1>1, <1>6, <2>1 DEF Planned
<1>12. Ahead(0)'
  <2>1. ASSUME NEW i \in 1 .. n + 1
        PROVE  plan'[i].size = Grow(SizeAt(i - 1)', plan'[i].node, Needs(plan'[i].node))
    <3>1. CASE i \in 1 .. n
      <4>1. i - 1 \in 0 .. n /\ plan'[i] = plan[i]
        BY <1>0, <1>6, <3>1
      <4> QED
        BY <1>7, <1>10, <3>1, <4>1
    <3>2. CASE i = n + 1
      <4>1. i - 1 = n /\ n \in 0 .. n
        BY <1>0, <3>2
      <4>2. SizeAt(n)' = size
        BY <1>2, <1>7, <4>1
      <4> QED
        BY <1>6, <3>2, <4>1, <4>2
    <3> QED
      BY <1>0, <3>1, <3>2
  <2>2. 0 + 1 .. n + 1 = 1 .. n + 1
    OBVIOUS
  <2> QED
    BY <1>1, <1>6, <2>1, <2>2 DEF Ahead, Needs
<1>13. todo' = DOMAIN sum' \ Nodes(n + 1)' /\ size' = SizeAt(n + 1)'
  BY <1>1, <1>2, <1>8
<1> QED
  BY <1>6, <1>11, <1>12, <1>13 DEF Measuring, Nodes, SizeAt

\* The writing pass comes to the nodes in the order of the plan.
LEMMA NextPlanned ==
  ASSUME Typed, Writing, NEW w \in todo, Visit(w)
  PROVE  LET k == Len(text) IN
         /\ k \in Nat /\ k + 1 \in 1 .. Len(plan) /\ plan[k + 1].node = w
         /\ SizeAt(k) \in Nat /\ SizeAt(k + 1) = Grow(SizeAt(k), w, Needs(w))
         /\ todo' = DOMAIN sum \ Nodes(k + 1)
<1> DEFINE k == Len(text)
<1>1. /\ Len(plan) \in Nat /\ k \in 0 .. Len(plan)
      /\ DOMAIN sum \subseteq Nodes(Len(plan)) /\ todo = DOMAIN sum \ Nodes(k)
  BY LenProperties DEF Writing, Planned
<1>2. Planned /\ Ahead(k)
  BY DEF Writing
<1> HIDE DEF k
<1>3. k + 1 \in 1 .. Len(plan) /\ (k + 1) - 1 = k /\ k \in Nat /\ k + 1 \in k + 1 .. Len(plan)
  BY <1>1
<1>4. plan[k + 1].node = w
  BY <1>1, <1>2, <1>3 DEF Planned, Visit
<1>5. SizeAt(k + 1) = Grow(SizeAt(k), w, Needs(w))
  BY <1>2, <1>3, <1>4 DEF Ahead, SizeAt
<1>6. Nodes(k + 1) = Nodes(k) \cup {w}
  <2>1. 1 .. (k + 1) = 1 .. k \cup {k + 1}
    BY <1>3
  <2> QED
    BY <1>4, <2>1 DEF Nodes
<1>7. todo' = DOMAIN sum \ Nodes(k + 1)
  BY <1>1, <1>6 DEF Visit
<1>8. SizeAt(k) \in Nat
  BY <1>1, <1>2, SizeAtType
<1> QED
  BY <1>3, <1>4, <1>5, <1>7, <1>8 DEF k

LEMMA WriteStep ==
  ASSUME Typed, Writing, text \in Seq(Texts), NEW w \in todo, VacWrite(w)
  PROVE  Writing' /\ text' \in Seq(Texts)
<1>0. PICK k \in Nat : k = Len(text)
  BY LenProperties
<1>1. /\ Visit(w) /\ text' = Append(text, <<w, sum[w], DividedBy(w)>>)
      /\ by' = [by EXCEPT ![w] = DividedBy(w)]
      /\ size' = Grow(size, w, ValueWidth(sum[w], DividedBy(w)))
      /\ UNCHANGED <<sum, cap, plan>>
  BY DEF VacWrite
<1>2. /\ k + 1 \in 1 .. Len(plan) /\ plan[k + 1].node = w
      /\ SizeAt(k) \in Nat /\ SizeAt(k + 1) = Grow(SizeAt(k), w, Needs(w))
      /\ todo' = DOMAIN sum \ Nodes(k + 1)
  BY <1>0, <1>1, NextPlanned
<1>3. w \in Seq(Digits) /\ w \in DOMAIN sum /\ w \in DOMAIN by /\ sum[w] \in Int /\ size \in Nat
  BY DEF Typed, TypeOK, Shape
<1>4. <<w, sum[w], DividedBy(w)>> \in Texts
  <2>1. DividedBy(w) \in Divisors
    BY <1>3 DEF DividedBy, Divisors, Typed, TypeOK
  <2> QED
    BY <1>3, <2>1 DEF Texts
<1>5. /\ text' \in Seq(Texts) /\ Len(text') = k + 1
      /\ \A i \in 1 .. k : text'[i] = text[i]
      /\ text'[k + 1] = <<w, sum[w], DividedBy(w)>>
  BY <1>0, <1>1, <1>4, AppendProperties
<1>6. Planned' /\ \A j : Nodes(j)' = Nodes(j) /\ SizeAt(j)' = SizeAt(j)
  BY <1>1, PlanSame DEF Writing
<1>7. Ahead(k + 1)'
  <2> SUFFICES ASSUME NEW i \in k + 2 .. Len(plan)
               PROVE  plan[i].size = Grow(SizeAt(i - 1), plan[i].node, Needs(plan[i].node)')
    BY <1>1, <1>6 DEF Ahead
  <2>1. Len(plan) \in Nat
    BY LenProperties DEF Writing, Planned
  <2>2. i \in 1 .. Len(plan) /\ i \in k + 1 .. Len(plan) /\ k + 1 \in 1 .. i - 1
    BY <2>1
  <2>3. plan[i].node \notin Nodes(i - 1)
    BY <2>2 DEF Writing, Planned
  <2>4. plan[i].node # w
    BY <1>2, <2>2, <2>3 DEF Nodes
  <2>5. by'[plan[i].node] = by[plan[i].node]
    BY <1>1, <2>4 DEF Typed, TypeOK
  <2>6. Needs(plan[i].node)' = Needs(plan[i].node)
    BY <1>1, <2>5 DEF Needs
  <2> QED
    BY <1>0, <2>2, <2>6 DEF Writing, Ahead
<1>8. size' <= SizeAt(k + 1)
  <2>1. size <= SizeAt(k)
    BY <1>0 DEF Writing
  <2>2. ValueWidth(sum[w], DividedBy(w)) <= Needs(w)
    BY DividedIsNoLonger DEF Needs
  <2>3. ValueWidth(sum[w], DividedBy(w)) \in Nat /\ Needs(w) \in Nat
    BY WidthType DEF Needs
  <2>4. Grow(size, w, ValueWidth(sum[w], DividedBy(w))) <= Grow(SizeAt(k), w, Needs(w))
    BY <1>2, <1>3, <2>1, <2>2, <2>3, GrowMonotonic
  <2> QED
    BY <1>1, <1>2, <2>4
<1>9. \A i \in 1 .. k + 1 : text'[i][1] = plan'[i].node
  <2>1. \A i \in 1 .. k : text[i][1] = plan[i].node
    BY <1>0 DEF Writing
  <2> QED
    BY <1>1, <1>2, <1>5, <2>1
<1>10. /\ DOMAIN sum' \subseteq Nodes(Len(plan))' /\ cap' = SizeAt(Len(plan))' + 1
       /\ Len(text)' \in 0 .. Len(plan)'
  BY <1>1, <1>2, <1>5, <1>6 DEF Writing
<1>11. todo' = DOMAIN sum' \ Nodes(Len(text))' /\ size' <= SizeAt(Len(text))' /\ Ahead(Len(text))'
  BY <1>1, <1>2, <1>5, <1>6, <1>7, <1>8 DEF Nodes, SizeAt, Ahead, Needs
<1> QED
  BY <1>5, <1>6, <1>9, <1>10, <1>11 DEF Writing

\* Steps that touch neither pass.
LEMMA PassesIdle ==
  ASSUME Passes, pc \notin {"measure", "write"}, pc' \notin {"measure", "write"}, text' = text
  PROVE  Passes'
BY DEF Passes

LEMMA PassesNext == Typed /\ Passes /\ [Next]_vars => Passes'
<1> SUFFICES ASSUME Typed, Passes, [Next]_vars PROVE Passes'
  OBVIOUS
<1> USE DEF context, input, output
<1>1. CASE (\E f \in {"isum", "isumn"} : IsumInit(f)) \/ IsumInitFails \/ IsumClear \/ IsumDeinit
  BY <1>1, PassesIdle DEF IsumInit, IsumInitFails, IsumClear, IsumDeinit
<1>2. CASE \E x \in Rows : IsumAdd(x)
  BY <1>2, PassesIdle DEF IsumAdd, FetchIndex
<1>3. CASE AddPair
  BY <1>3, PassesIdle DEF AddPair, FetchIndex
<1>4. CASE IsumStart
  <2>1. /\ pc = "idle" /\ pc' = "measure" /\ plan' = <<>> /\ size' = 0 /\ todo' = DOMAIN sum'
        /\ text' = text
    BY <1>4 DEF IsumStart
  <2>2. plan' \in Seq(Entry) /\ Len(plan') = 0
    BY <2>1, EmptySeq
  <2>3. Nodes(0)' = {} /\ SizeAt(0)' = 0
    BY DEF Nodes, SizeAt
  <2>4. Planned' /\ Ahead(0)'
    BY <2>2 DEF Planned, Ahead
  <2>5. Measuring'
    BY <2>1, <2>2, <2>3, <2>4 DEF Measuring
  <2> QED
    BY <2>1, <2>5 DEF Passes
<1>5. ASSUME NEW w \in todo, VacPrepare(w) PROVE Passes'
  <2>1. pc = "measure" /\ pc' = pc /\ text' = text
    BY <1>5 DEF VacPrepare
  <2>2. Measuring'
    BY <1>5, <2>1, MeasureStep DEF Passes
  <2> QED
    BY <2>1, <2>2 DEF Passes
<1>6. ASSUME NEW w \in todo, VacWrite(w) PROVE Passes'
  <2>1. pc = "write" /\ pc' = pc
    BY <1>6 DEF VacWrite
  <2>2. Writing' /\ text' \in Seq(Texts)
    BY <1>6, <2>1, WriteStep DEF Passes
  <2> QED
    BY <2>1, <2>2 DEF Passes
<1>7. CASE Allocate
  <2>1. /\ pc = "measure" /\ pc' = "write" /\ todo = {} /\ cap' = size + 1
        /\ size' = 0 /\ todo' = DOMAIN sum'
        /\ UNCHANGED <<plan, text, sum, by>>
    BY <1>7 DEF Allocate
  <2>2. Measuring /\ text' = <<>> /\ Len(text') = 0 /\ text' \in Seq(Texts)
    BY <2>1, EmptySeq DEF Passes
  <2>3. /\ Planned' /\ Len(plan) \in Nat
        /\ \A k : Nodes(k)' = Nodes(k) /\ SizeAt(k)' = SizeAt(k)
    BY <2>1, <2>2, PlanSame, LenProperties DEF Measuring, Planned
  <2>4. Ahead(0)'
    BY <2>1, <2>2, <2>3 DEF Measuring, Ahead, Needs
  <2>5. DOMAIN sum' \subseteq Nodes(Len(plan))' /\ cap' = SizeAt(Len(plan))' + 1
    BY <2>1, <2>2, <2>3 DEF Measuring, Nodes, SizeAt
  <2>6. Nodes(0)' = {} /\ SizeAt(0)' = 0
    BY DEF Nodes, SizeAt
  <2>7. /\ todo' = DOMAIN sum' \ Nodes(Len(text))' /\ size' <= SizeAt(Len(text))'
        /\ Ahead(Len(text))'
    <3>1. Nodes(Len(text))' = {} /\ SizeAt(Len(text))' = 0
      BY <2>2 DEF Nodes, SizeAt
    <3>2. Ahead(Len(text))'
      BY <2>2, <2>4 DEF Ahead
    <3> QED
      BY <2>1, <3>1, <3>2
  <2>8. Writing'
    BY <2>1, <2>2, <2>3, <2>5, <2>7 DEF Writing
  <2> QED
    BY <2>1, <2>2, <2>8 DEF Passes
<1>8. CASE IsumReturn
  <2>1. pc' = "idle" /\ text' = <<>>
    BY <1>8 DEF IsumReturn
  <2> QED
    BY <2>1, EmptySeq DEF Passes
<1>9. CASE UNCHANGED vars
  <2>1. UNCHANGED <<pc, text, todo, size, cap, plan, sum, by>>
    BY <1>9 DEF vars
  <2>2. (Planned <=> Planned') /\ \A k : Nodes(k)' = Nodes(k) /\ SizeAt(k)' = SizeAt(k)
    BY <2>1, PlanSame
  <2>3. pc = "measure" => Measuring'
    BY <2>1, <2>2 DEF Passes, Measuring, Ahead, Needs, Nodes, SizeAt
  <2>4. pc = "write" => Writing'
    BY <2>1, <2>2 DEF Passes, Writing, Ahead, Needs, Nodes, SizeAt
  <2> QED
    BY <2>1, <2>3, <2>4 DEF Passes
<1> QED
  BY <1>1, <1>2, <1>3, <1>4, <1>5, <1>6, <1>7, <1>8, <1>9 DEF Next, Continue

LEMMA PassesInit == Init => Passes
BY EmptySeq DEF Init, Passes

(* vac_write stays inside the block that vac_prepare has measured, however *)
(* often the group has been read: dividing a value makes it no longer.     *)
THEOREM ReplyIsMeasured == Spec => []ReplyFits
<1>1. Typed /\ Passes => ReplyFits
  <2> SUFFICES ASSUME Typed, Passes, pc = "write" PROVE size + 1 <= cap
    BY DEF ReplyFits
  <2>1. /\ Planned /\ Len(text) \in 0 .. Len(plan) /\ cap = SizeAt(Len(plan)) + 1
        /\ size <= SizeAt(Len(text))
    BY DEF Passes, Writing
  <2>2. Len(plan) \in 0 .. Len(plan)
    BY <2>1, LenProperties DEF Planned
  <2>3. /\ SizeAt(Len(text)) <= SizeAt(Len(plan))
        /\ SizeAt(Len(text)) \in Nat /\ SizeAt(Len(plan)) \in Nat
    BY <2>1, <2>2, SizesGrow, SizeAtType
  <2>4. size \in Nat
    BY DEF Typed, TypeOK
  <2> QED
    BY <2>1, <2>3, <2>4
<1> QED
  BY <1>1, TypedAlways, PassesInit, PassesNext, PTL DEF Spec

(* Each index comes before those that follow it in the text in the order   *)
(* of the trie, because it was the first of those that were left: indices  *)
(* of as many digits come out in increasing order.                         *)
THEOREM ComesInOrder == Spec => []InOrder
<1>1. Typed /\ Passes => InOrder
  <2> SUFFICES ASSUME Typed, Passes, NEW i \in DOMAIN text, NEW j \in DOMAIN text, i < j,
                      Len(text[i][1]) = Len(text[j][1])
               PROVE  \E k \in 1 .. Len(text[i][1]) :
                        /\ Prefix(text[i][1], k - 1) = Prefix(text[j][1], k - 1)
                        /\ number2id[text[i][1][k]] < number2id[text[j][1][k]]
    BY DEF InOrder
  <2> DEFINE p == text[i][1]
             q == text[j][1]
             S == DOMAIN sum \ Nodes(i - 1)
  <2>1. i \in 1 .. Len(text) /\ j \in 1 .. Len(text)
    BY LenProperties DEF Passes
  <2>2. pc = "write"
    BY EmptySeq DEF Passes
  <2>3. /\ Len(plan) \in Nat /\ Len(text) \in 0 .. Len(plan) /\ Planned
        /\ p = plan[i].node /\ q = plan[j].node
    BY <2>1, <2>2, LenProperties DEF Passes, Writing, Planned
  <2>4. i \in 1 .. Len(plan) /\ j \in 1 .. Len(plan) /\ 1 .. (i - 1) \subseteq 1 .. (j - 1)
        /\ i \in 1 .. (j - 1)
    BY <2>1, <2>3
  <2>5. p \in S /\ p = First(number2id, S) /\ q \in DOMAIN sum \ Nodes(j - 1)
    BY <2>3, <2>4 DEF Planned
  <2>6. q \in S /\ q # p
    BY <2>3, <2>4, <2>5 DEF Nodes
  <2>7. S \subseteq Seq(Digits) /\ IsFiniteSet(S)
    BY FS_Subset DEF Typed, Shape
  <2> HIDE DEF p, q, S
  <2>8. Before(number2id, p, q)
    BY <2>5, <2>6, <2>7, FirstIsFirst
  <2>9. Len(p) = Len(q) /\ p \in Seq(Digits)
    BY <2>5, <2>7 DEF p, q
  <2>10. ~(Len(p) < Len(q))
    BY <2>9, LenProperties
  <2>11. \E k \in 1 .. Len(p) :
           Prefix(p, k - 1) = Prefix(q, k - 1) /\ number2id[p[k]] < number2id[q[k]]
    BY <2>8, <2>10 DEF Before
  <2> QED
    BY <2>11 DEF p, q
<1> QED
  BY <1>1, TypedAlways, PassesInit, PassesNext, PTL DEF Spec
-------------------------------------------------------------------------------
(***************************************************************************)
(* isum and isumn implement VectorBag.                                     *)
(***************************************************************************)
\* While a row is being added, the index of a pair is in the buffer and the
\* cursor stands at its value.
Adding ==
  pc = "add" =>
    LET p == cur.pos - Len(word) IN
    /\ fn # "none" /\ done.reads = 0
    /\ row \in Rows /\ cur.len > 0 /\ Stands(row, cur)
    /\ p \in Vectors!PairStarts(row) /\ word = Vectors!IndexAt(row, p)

Squares == [w \in DOMAIN sum |-> sum[w] * sum[w]]

\* In the first reading of a group C->len is cleared before it is added up,
\* and values are divided once, by the length of the whole sum.
FirstReading ==
  /\ ~len.stale
  /\ pc \in {"idle", "add"} => len.sq = 0
  /\ pc = "measure" => len.sq = SumFunctionOnSet(Squares, DOMAIN sum \ todo)
  /\ pc = "write" => len.sq = SumFunctionOnSet(Squares, DOMAIN sum)
  /\ \A w \in DOMAIN sum :
       by[w] = IF pc = "write" /\ normalize /\ w \notin todo THEN len.sq ELSE 0

\* In a later one nothing has been divided, or there is nothing to divide, or
\* C->len holds more than the length and every value it divides is inexact.
LaterReading ==
  \/ ~normalize /\ \A w \in DOMAIN sum : by[w] = 0
  \/ normalize /\ len.sq = 0 /\ \A w \in DOMAIN sum : sum[w] = 0 /\ by[w] = 0
  \/ /\ normalize /\ len.sq # 0 /\ DOMAIN sum # {}
     /\ pc \in {"measure", "write"} => len.stale
     /\ pc = "write" => \A w \in DOMAIN sum \ todo : by[w] = Inexact

Reading ==
  /\ done \in [queries : Nat, clears : Nat, rows : Nat, reads : Nat]
  /\ fn = "none" => pc = "idle" /\ sum = NoVector
  /\ fn # "none" => /\ normalize = (fn = "isumn")
                    /\ done.reads = 0 => FirstReading
                    /\ done.reads # 0 => LaterReading
  /\ pc = "write" => {text[i] : i \in DOMAIN text}
                       = {<<w, sum[w], by[w]>> : w \in DOMAIN sum \ todo}

\* Module VectorBag has fields of its own, which are the same.
LEMMA SameFields ==
  ASSUME NEW x
  PROVE  /\ Vectors!Starts(x) = F!Starts(x) /\ Vectors!PairStarts(x) = F!PairStarts(x)
         /\ \A i : /\ Vectors!RunLen(x, i) = F!RunLen(x, i)
                   /\ Vectors!Field(x, i) = F!Field(x, i)
                   /\ Vectors!SecondOf(x, i) = F!SecondOf(x, i)
<1>1. \A T : Vectors!Cardinality(T) = F!Cardinality(T)
  BY DEF F!Cardinality, Vectors!Cardinality, F!IsFiniteSet, Vectors!IsFiniteSet
<1>2. \A i : Vectors!RunLen(x, i) = F!RunLen(x, i)
  BY <1>1, Zenon DEF Vectors!RunLen, F!RunLen
<1>3. Vectors!Starts(x) = F!Starts(x)
  BY DEF Vectors!Starts, F!Starts
<1>4. \A i : Vectors!FieldNo(x, i) = F!FieldNo(x, i)
  BY <1>1, <1>3, Zenon DEF Vectors!FieldNo, F!FieldNo
<1>5. Vectors!PairStarts(x) = F!PairStarts(x)
  BY <1>2, <1>3, <1>4 DEF Vectors!PairStarts, F!PairStarts, Vectors!Passed, F!Passed
<1>6. \A i : Vectors!Field(x, i) = F!Field(x, i)
  BY <1>2 DEF Vectors!Field, F!Field, Vectors!Lower, F!Lower
<1> QED
  BY <1>2, <1>3, <1>5, <1>6 DEF Vectors!SecondOf, F!SecondOf

LEMMA SameVectors ==
  ASSUME NEW v, NEW x, NEW p
  PROVE  /\ Abstract!Plus(v, x, p) = Vectors!Plus(v, x, p)
         /\ Abstract!Square(v) = SumFunctionOnSet([w \in DOMAIN v |-> v[w] * v[w]], DOMAIN v)
<1>1. \A T : Vectors!Cardinality(T) = Abstract!Cardinality(T)
  BY DEF Abstract!Cardinality, Vectors!Cardinality, Abstract!IsFiniteSet, Vectors!IsFiniteSet
<1>2. \A i : Vectors!RunLen(x, i) = Abstract!RunLen(x, i)
  BY <1>1, Zenon DEF Vectors!RunLen, Abstract!RunLen
<1>3. Vectors!Starts(x) = Abstract!Starts(x)
  BY DEF Vectors!Starts, Abstract!Starts
<1>4. \A i : Vectors!FieldNo(x, i) = Abstract!FieldNo(x, i)
  BY <1>1, <1>3, Zenon DEF Vectors!FieldNo, Abstract!FieldNo
<1>5. Vectors!PairStarts(x) = Abstract!PairStarts(x)
  BY <1>2, <1>3, <1>4 DEF Vectors!PairStarts, Abstract!PairStarts, Vectors!Passed, Abstract!Passed
<1>6. \A i : Vectors!Field(x, i) = Abstract!Field(x, i)
  BY <1>2 DEF Vectors!Field, Abstract!Field, Vectors!Lower, Abstract!Lower
<1>7. Abstract!Pairs(x, p) = Vectors!Pairs(x, p)
  BY <1>2, <1>5 DEF Vectors!Pairs, Abstract!Pairs
<1>8. \A i : Vectors!IndexAt(x, i) = Abstract!IndexAt(x, i)
  BY <1>2, Zenon DEF Vectors!IndexAt, Abstract!IndexAt
<1>9. Vectors!Values(x) = Abstract!Values(x)
  BY <1>2, <1>5, <1>6 DEF Vectors!Values, Abstract!Values, Vectors!SecondOf, Abstract!SecondOf
<1>10. \A f, T : Vectors!SumFunctionOnSet(f, T) = Abstract!SumFunctionOnSet(f, T)
  BY Zenon DEF Vectors!SumFunctionOnSet, Abstract!SumFunctionOnSet, Vectors!FoldFunctionOnSet, Abstract!FoldFunctionOnSet, Vectors!MapThenFoldSet, Abstract!MapThenFoldSet
<1>11. \A w : Vectors!At(v, w) = Abstract!At(v, w)
  BY DEF Vectors!At, Abstract!At
<1>12. Abstract!Plus(v, x, p) = Vectors!Plus(v, x, p)
  <2> DEFINE A == DOMAIN v \cup {Abstract!IndexAt(x, i) : i \in Abstract!Pairs(x, p)}
             B == DOMAIN v \cup {Vectors!IndexAt(x, i) : i \in Vectors!Pairs(x, p)}
             S(w) == {i \in Abstract!Pairs(x, p) : Abstract!IndexAt(x, i) = w}
             T(w) == {i \in Vectors!Pairs(x, p) : Vectors!IndexAt(x, i) = w}
             a(w) == Abstract!At(v, w) + Abstract!SumFunctionOnSet(Abstract!Values(x), S(w))
             b(w) == Vectors!At(v, w) + Vectors!SumFunctionOnSet(Vectors!Values(x), T(w))
  <2>1. A = B
    BY <1>7, <1>8
  <2>2. \A w : S(w) = T(w)
    BY <1>7, <1>8
  <2>3. ASSUME NEW w PROVE a(w) = b(w)
    <3>1. S(w) = T(w)
      BY <2>2
    <3> HIDE DEF S, T
    <3>2. Abstract!SumFunctionOnSet(Abstract!Values(x), S(w))
            = Vectors!SumFunctionOnSet(Vectors!Values(x), T(w))
      BY <1>9, <1>10, <3>1, Zenon
    <3> QED
      BY <1>11, <3>2, Zenon
  <2>4. Abstract!Plus(v, x, p) = [w \in A |-> a(w)]
    BY Zenon DEF Abstract!Plus
  <2>5. Vectors!Plus(v, x, p) = [w \in B |-> b(w)]
    BY Zenon DEF Vectors!Plus
  <2> HIDE DEF A, B, a, b
  <2>6. [w \in A |-> a(w)] = [w \in B |-> b(w)]
    BY <2>1, <2>3
  <2> QED
    BY <2>4, <2>5, <2>6, Zenon
<1>13. Abstract!Square(v) = SumFunctionOnSet([w \in DOMAIN v |-> v[w] * v[w]], DOMAIN v)
  <2> DEFINE f == [w \in DOMAIN v |-> v[w] * v[w]]
  <2>1. Abstract!Square(v) = Abstract!SumFunctionOnSet(f, DOMAIN f)
    BY Zenon DEF Abstract!Square, Abstract!SumFunction
  <2>2. Abstract!SumFunctionOnSet(f, DOMAIN f) = SumFunctionOnSet(f, DOMAIN f)
    BY Zenon DEF SumFunctionOnSet, Abstract!SumFunctionOnSet, FoldFunctionOnSet, Abstract!FoldFunctionOnSet, MapThenFoldSet, Abstract!MapThenFoldSet
  <2>3. DOMAIN f = DOMAIN v
    OBVIOUS
  <2> QED
    BY <2>1, <2>2, <2>3
<1> QED
  BY <1>12, <1>13

-------------------------------------------------------------------------------
(* The scan of a row and its pairs.                                        *)

\* nextWord, at the first field of a pair.
LEMMA ReadIndex ==
  ASSUME NEW x \in Seq(Charset), NEW c, Stands(x, c), c.len > 0,
         NEW p, p = c.pos + 1, F!FieldNo(x, p) % 2 = 1,
         NEW r, r = NextWord(x, c), NEW d, d = r.cur
  PROVE  /\ Stands(x, d)
         /\ d.len > 0 => /\ p \in F!PairStarts(x) /\ p = d.pos - Len(r.tok)
                         /\ Index(r.tok) = Vectors!IndexAt(x, p)
         /\ d.len = 0 => \A q \in F!PairStarts(x) : q < p
<1>1. /\ r.tok = F!Field(x, p) /\ Stands(x, d) /\ p \in Nat
      /\ d.len > 0 => /\ p \in F!PairStarts(x) /\ d.pos = p + F!RunLen(x, p)
      /\ d.len = 0 => \A q \in F!PairStarts(x) : q < p
  BY FirstOfPair
<1>2. ASSUME d.len > 0
      PROVE  p = d.pos - Len(r.tok) /\ Index(r.tok) = Vectors!IndexAt(x, p)
  <2>1. /\ p \in 1 .. Len(x) /\ F!RunLen(x, p) \in Nat /\ F!RunLen(x, p) < MaxTok
        /\ F!SecondOf(x, p) = p + F!RunLen(x, p) + 1 /\ F!SecondOf(x, p) \in 1 .. Len(x)
    BY <1>1, <1>2, PairsAre, ReadFieldsAre
  <2>2. PICK n \in Nat : n = F!RunLen(x, p)
    BY <2>1
  <2>3. n < MaxTok /\ p + n < Len(x) /\ Len(x) \in Nat /\ d.pos = p + n
    BY <1>1, <1>2, <2>1, <2>2, LenProperties
  <2>4. r.tok = SubSeq(x, p, p + n - 1)
    BY <1>1, <2>2, <2>3 DEF F!Field, F!Lower
  <2>5. Len(r.tok) = n /\ \A k \in 1 .. n : r.tok[k] = x[p + k - 1]
    <3> DEFINE b == p + n - 1
    <3>1. p \in Int /\ b \in Int /\ \A k \in p .. b : k \in 1 .. Len(x)
      BY <2>1, <2>3
    <3>2. \A k \in p .. b : x[k] \in Charset
      BY <3>1, ElementOfSeq
    <3>3. (IF p <= b THEN b - p + 1 ELSE 0) = n /\ b - p + 1 = n
      <4>1. p \in Nat /\ n \in Nat
        BY <1>1
      <4> QED
        BY <4>1
    <3> HIDE DEF b
    <3>4. Len(SubSeq(x, p, b)) = n /\ \A k \in 1 .. n : SubSeq(x, p, b)[k] = x[p + k - 1]
      <4>1. /\ Len(SubSeq(x, p, b)) = IF p <= b THEN b - p + 1 ELSE 0
            /\ \A k \in 1 .. b - p + 1 : SubSeq(x, p, b)[k] = x[p + k - 1]
        BY <3>1, <3>2, SubSeqProperties
      <4> QED
        BY <3>3, <4>1
    <3> QED
      BY <2>4, <3>4 DEF b
  <2>6. Index(r.tok) = Vectors!IndexAt(x, p)
    <3>1. Vectors!RunLen(x, p) = n
      BY <2>2, SameFields
    <3>2. Index(r.tok) = [k \in 1 .. n |-> numberOf[r.tok[k]]]
      BY <2>5 DEF Index
    <3>3. Vectors!IndexAt(x, p) = [k \in 1 .. n |-> numberOf[x[p + k - 1]]]
      BY <3>1 DEF Vectors!IndexAt
    <3> QED
      BY <2>5, <3>2, <3>3
  <2> QED
    BY <1>1, <2>3, <2>5, <2>6
<1> QED
  BY <1>1, <1>2

-------------------------------------------------------------------------------
(* Adding up the pairs of a row.                                           *)

LEMMA ValuesAre ==
  ASSUME NEW x \in Seq(Charset)
  PROVE  \A i \in F!PairStarts(x) : /\ Vectors!Values(x)[i] = Atof[F!Field(x, F!SecondOf(x, i))]
                                    /\ Vectors!Values(x)[i] \in Int
<1> SUFFICES ASSUME NEW i \in F!PairStarts(x)
             PROVE  /\ Vectors!Values(x)[i] = Atof[F!Field(x, F!SecondOf(x, i))]
                    /\ Vectors!Values(x)[i] \in Int
  OBVIOUS
<1>1. F!SecondOf(x, i) \in F!Starts(x)
  BY PairsAre, ReadFieldsAre
<1>2. Atof[F!Field(x, F!SecondOf(x, i))] \in Int
  BY <1>1, FieldChars, VectorSumAssumption
<1>3. Vectors!Values(x)[i] = Atof[F!Field(x, F!SecondOf(x, i))]
  BY SameFields DEF Vectors!Values
<1> QED
  BY <1>2, <1>3

\* The pairs of x from p on whose index is w.
PairsOf(x, p, w) == {i \in Vectors!Pairs(x, p) : Vectors!IndexAt(x, i) = w}

LEMMA PairsFinite ==
  ASSUME NEW x \in Seq(Charset), NEW p
  PROVE  /\ Vectors!Pairs(x, p) \subseteq F!PairStarts(x)
         /\ \A w : IsFiniteSet(PairsOf(x, p, w)) /\ PairsOf(x, p, w) \subseteq F!PairStarts(x)
<1>1. Vectors!Pairs(x, p) \subseteq F!PairStarts(x)
  BY SameFields DEF Vectors!Pairs
<1>2. F!PairStarts(x) \subseteq 1 .. Len(x) /\ IsFiniteSet(1 .. Len(x))
  BY PairsAre, LenProperties, FS_Interval
<1>3. \A w : PairsOf(x, p, w) \subseteq F!PairStarts(x)
  BY <1>1 DEF PairsOf
<1> QED
  BY <1>1, <1>2, <1>3, FS_Subset

LEMMA PlusIs ==
  ASSUME NEW v, NEW x, NEW p
  PROVE  Vectors!Plus(v, x, p) =
           [w \in DOMAIN v \cup {Vectors!IndexAt(x, i) : i \in Vectors!Pairs(x, p)} |->
             (IF w \in DOMAIN v THEN v[w] ELSE 0)
               + SumFunctionOnSet(Vectors!Values(x), PairsOf(x, p, w))]
BY Zenon DEF Vectors!Plus, Vectors!At, PairsOf, SumFunctionOnSet, Vectors!SumFunctionOnSet,
             FoldFunctionOnSet, Vectors!FoldFunctionOnSet, MapThenFoldSet, Vectors!MapThenFoldSet

LEMMA PlusNone ==
  ASSUME NEW v, v \in [DOMAIN v -> Int], NEW x, NEW p, Vectors!Pairs(x, p) = {}
  PROVE  Vectors!Plus(v, x, p) = v
<1>1. \A w : SumFunctionOnSet(Vectors!Values(x), PairsOf(x, p, w)) = 0
  BY SumOfNone DEF PairsOf
<1>2. Vectors!Plus(v, x, p) = [w \in DOMAIN v |-> v[w]]
  <2>1. {Vectors!IndexAt(x, i) : i \in Vectors!Pairs(x, p)} = {}
    OBVIOUS
  <2> DEFINE sums(w) == SumFunctionOnSet(Vectors!Values(x), PairsOf(x, p, w))
  <2>2. Vectors!Plus(v, x, p) = [w \in DOMAIN v \cup {} |-> (IF w \in DOMAIN v THEN v[w] ELSE 0) + sums(w)]
    BY <2>1, PlusIs, Zenon
  <2>3. \A w : sums(w) = 0
    BY <1>1
  <2> HIDE DEF sums
  <2> QED
    BY <2>2, <2>3
<1> QED
  BY <1>2

LEMMA SamePairsPlus ==
  ASSUME NEW v, NEW x, NEW p, NEW q, Vectors!Pairs(x, p) = Vectors!Pairs(x, q)
  PROVE  Vectors!Plus(v, x, p) = Vectors!Plus(v, x, q)
BY Zenon DEF Vectors!Plus

\* The first pair is added like the others.
LEMMA PlusFirst ==
  ASSUME NEW x \in Seq(Charset), NEW v, v \in [DOMAIN v -> Int], NEW p, NEW n,
         p \in Vectors!Pairs(x, p), p \notin Vectors!Pairs(x, n),
         Vectors!Pairs(x, p) = Vectors!Pairs(x, n) \cup {p},
         NEW s, s = [w \in DOMAIN v \cup {Vectors!IndexAt(x, p)} |->
                      (IF w \in DOMAIN v THEN v[w] ELSE 0)
                        + (IF w = Vectors!IndexAt(x, p) THEN Vectors!Values(x)[p] ELSE 0)]
  PROVE  Vectors!Plus(v, x, p) = Vectors!Plus(s, x, n)
<1> DEFINE u == Vectors!IndexAt(x, p)
           a == Vectors!Values(x)[p]
<1> DEFINE total(q, w) == SumFunctionOnSet(Vectors!Values(x), PairsOf(x, q, w))
           D == DOMAIN v \cup {Vectors!IndexAt(x, i) : i \in Vectors!Pairs(x, p)}
           E == DOMAIN s \cup {Vectors!IndexAt(x, i) : i \in Vectors!Pairs(x, n)}
           f(w) == (IF w \in DOMAIN v THEN v[w] ELSE 0) + total(p, w)
           g(w) == (IF w \in DOMAIN s THEN s[w] ELSE 0) + total(n, w)
<1>1. D = E
  OBVIOUS
<1>2. /\ \A i \in F!PairStarts(x) : Vectors!Values(x)[i] \in Int
      /\ p \in F!PairStarts(x) /\ a \in Int
  BY ValuesAre, PairsFinite
<1>3. \A q, w : total(q, w) \in Int
  <2> SUFFICES ASSUME NEW q, NEW w PROVE total(q, w) \in Int
    OBVIOUS
  <2>1. IsFiniteSet(PairsOf(x, q, w)) /\ PairsOf(x, q, w) \subseteq F!PairStarts(x)
    BY PairsFinite
  <2> QED
    BY <1>2, <2>1, SumType
<1>4. ASSUME NEW w, w # u PROVE total(p, w) = total(n, w)
  <2>1. PairsOf(x, p, w) = PairsOf(x, n, w)
    BY <1>4 DEF PairsOf
  <2> QED
    BY <2>1
<1>5. total(p, u) = a + total(n, u)
  <2>1. PairsOf(x, p, u) \ {p} = PairsOf(x, n, u) /\ p \in PairsOf(x, p, u)
    BY DEF PairsOf
  <2>2. IsFiniteSet(PairsOf(x, p, u)) /\ PairsOf(x, p, u) \subseteq F!PairStarts(x)
    BY PairsFinite
  <2> QED
    BY <1>2, <2>1, <2>2, SumTakesOut
<1>6. Vectors!Plus(v, x, p) = [w \in D |-> f(w)] /\ Vectors!Plus(s, x, n) = [w \in E |-> g(w)]
  BY PlusIs, Zenon
<1> HIDE DEF total
<1>7. ASSUME NEW w \in D PROVE f(w) = g(w)
  <2>1. \A y \in DOMAIN v : v[y] \in Int
    OBVIOUS
  <2>2. total(p, w) \in Int /\ total(n, w) \in Int
    BY <1>3
  <2>3. CASE w = u
    BY <1>2, <1>5, <2>1, <2>2, <2>3
  <2>4. CASE w # u
    BY <1>4, <2>1, <2>2, <2>4
  <2> QED
    BY <2>3, <2>4
<1> HIDE DEF D, E, f, g
<1> QED
  BY <1>1, <1>6, <1>7

-------------------------------------------------------------------------------
(* What is left of the row is added from the index in the buffer on.       *)

LEMMA WordOfPair ==
  ASSUME NEW x, NEW p, Vectors!RunLen(x, p) \in Nat, NEW w, w = Vectors!IndexAt(x, p)
  PROVE  Len(w) = Vectors!RunLen(x, p) /\ (w = <<>> <=> Vectors!RunLen(x, p) = 0)
<1>1. w = [k \in 1 .. Vectors!RunLen(x, p) |-> numberOf[x[p + k - 1]]]
  BY DEF Vectors!IndexAt
<1>2. Len(w) = Vectors!RunLen(x, p)
  BY <1>1
<1>3. Len(<<>>) = 0
  OBVIOUS
<1>4. ASSUME Vectors!RunLen(x, p) = 0 PROVE w = <<>>
  BY <1>1, <1>4
<1> QED
  BY <1>2, <1>3, <1>4

\* The pairs behind the cursor are those of the state after FetchIndex.
LEMMA FetchIndexPairs ==
  ASSUME NEW x \in Seq(Charset), NEW c, Stands(x, c), FetchIndex(x, c),
         c.len > 0 => F!FieldNo(x, c.pos + 1) % 2 = 1,
         NEW q \in Nat, c.len > 0 => q <= c.pos + 1,
         \A i \in F!PairStarts(x) : i >= q => c.len > 0 /\ i >= c.pos + 1
  PROVE  \/ /\ pc' = "idle" /\ Vectors!Pairs(x, q) = {}
         \/ LET p == cur'.pos - Len(word') IN
            /\ pc' = "add" /\ row' = x /\ cur'.len > 0 /\ Stands(x, cur')
            /\ p \in F!PairStarts(x) /\ word' = Vectors!IndexAt(x, p)
            /\ Vectors!Pairs(x, q) = Vectors!Pairs(x, p)
<1> DEFINE r == NextWord(x, c)
           d == r.cur
<1>1. CASE c.len = 0
  <2>1. r.cur = c
    BY <1>1, ReadNothing
  <2>2. pc' = "idle"
    BY <1>1, <2>1 DEF FetchIndex
  <2>3. Vectors!Pairs(x, q) = {}
    <3>1. \A i \in F!PairStarts(x) : ~(i >= q)
      BY <1>1
    <3> QED
      BY <3>1, SameFields DEF Vectors!Pairs
  <2> QED
    BY <2>2, <2>3
<1>2. CASE c.len # 0
  <2>0. c.len \in Nat /\ c.len > 0
    BY <1>2 DEF Stands, Inside
  <2> DEFINE p == c.pos + 1
  <2>1. c.pos \in Nat /\ p \in Nat /\ q <= p /\ F!FieldNo(x, p) % 2 = 1
    BY <2>0 DEF Stands, Inside
  <2>2. \A i \in F!PairStarts(x) : i >= q => i >= p
    BY <2>0
  <2> HIDE DEF p
  <2>3. p = c.pos + 1
    BY DEF p
  <2> HIDE DEF r, d
  <2>4. r = NextWord(x, c) /\ d = r.cur
    BY DEF r, d
  <2>5. /\ Stands(x, d)
        /\ d.len > 0 => /\ p \in F!PairStarts(x) /\ p = d.pos - Len(r.tok)
                        /\ Index(r.tok) = Vectors!IndexAt(x, p)
        /\ d.len = 0 => \A i \in F!PairStarts(x) : i < p
    BY <2>0, <2>1, <2>3, <2>4, ReadIndex
  <2>6. F!PairStarts(x) \subseteq Nat
    BY PairsAre
  <2>7. CASE d.len > 0
    <3>1. pc' = "add" /\ row' = x /\ cur' = d /\ word' = Index(r.tok)
      BY <2>4, <2>7 DEF FetchIndex
    <3>2. Len(word') = Len(r.tok)
      <4>1. r.tok \in Seq(Charset)
        BY <2>4, NextWordSafe DEF Stands
      <4> QED
        BY <3>1, <4>1, LenProperties DEF Index
    <3>3. Vectors!Pairs(x, q) = Vectors!Pairs(x, p)
      <4>1. \A i \in F!PairStarts(x) : i >= q <=> i >= p
        BY <2>1, <2>2, <2>6
      <4> QED
        BY <4>1, SameFields DEF Vectors!Pairs
    <3> QED
      BY <2>5, <2>7, <3>1, <3>2, <3>3
  <2>8. CASE ~(d.len > 0)
    <3>1. pc' = "idle"
      BY <2>4, <2>8 DEF FetchIndex
    <3>2. d.len = 0
      BY <2>5, <2>8 DEF Stands, Inside
    <3>3. \A i \in F!PairStarts(x) : ~(i >= q)
      BY <2>1, <2>2, <2>5, <2>6, <3>2
    <3>4. Vectors!Pairs(x, q) = {}
      BY <3>3, SameFields DEF Vectors!Pairs
    <3> QED
      BY <3>1, <3>4
  <2> QED
    BY <2>7, <2>8
<1> QED
  BY <1>1, <1>2

\* A row is added from its first position on.
LEMMA IsumAddVector ==
  ASSUME Typed, NEW x \in Rows, IsumAdd(x)
  PROVE  Adding' /\ Vector' = Vectors!Plus(sum, x, 1)
<1>1. x \in Seq(Charset) /\ Len(x) \in Nat /\ fn' = fn /\ fn # "none" /\ sum' = sum
      /\ done.reads = 0 /\ done' = [done EXCEPT !.rows = @ + 1]
  BY RowType, LenProperties DEF IsumAdd, context
<1>2. Stands(x, Start(x)) /\ Start(x).pos = 0 /\ Start(x).len = Len(x)
  BY <1>1, StandsFirst DEF Start, Cursor
<1>3. ASSUME Len(x) > 0 PROVE F!FieldNo(x, 1) % 2 = 1
  <2>1. {j \in F!Starts(x) : j <= 1} = {1}
    BY <1>1, <1>3 DEF F!Starts
  <2>2. F!FieldNo(x, 1) = 1
    BY <2>1, FieldCardinality, FS_Singleton DEF F!FieldNo
  <2> QED
    BY <2>2
<1>4. \A i \in F!PairStarts(x) : Len(x) > 0 /\ i >= 1
  BY <1>1, PairsAre
<1>5. FetchIndex(x, Start(x))
  BY DEF IsumAdd
<1>6. \/ pc' = "idle" /\ Vectors!Pairs(x, 1) = {}
      \/ LET p == cur'.pos - Len(word') IN
         /\ pc' = "add" /\ row' = x /\ cur'.len > 0 /\ Stands(x, cur')
         /\ p \in F!PairStarts(x) /\ word' = Vectors!IndexAt(x, p)
         /\ Vectors!Pairs(x, 1) = Vectors!Pairs(x, p)
  BY <1>1, <1>2, <1>3, <1>4, <1>5, FetchIndexPairs
<1>7. sum \in [DOMAIN sum -> Int]
  BY DEF Typed, TypeOK
<1>8. CASE pc' = "idle"
  <2>1. Vectors!Pairs(x, 1) = {}
    BY <1>6, <1>8
  <2> QED
    BY <1>1, <1>7, <1>8, <2>1, PlusNone DEF Vector, Adding
<1>9. CASE pc' # "idle"
  <2> DEFINE p == cur'.pos - Len(word')
  <2>1. /\ pc' = "add" /\ row' = x /\ cur'.len > 0 /\ Stands(x, cur')
        /\ p \in F!PairStarts(x) /\ word' = Vectors!IndexAt(x, p)
        /\ Vectors!Pairs(x, 1) = Vectors!Pairs(x, p)
    BY <1>6, <1>9
  <2>2. done'.reads = 0
    BY <1>1
  <2>3. Adding'
    BY <1>1, <2>1, <2>2, SameFields DEF Adding
  <2>4. Vectors!Plus(sum, x, 1) = Vectors!Plus(sum, x, p)
    BY <2>1, SamePairsPlus
  <2> QED
    BY <1>1, <2>1, <2>3, <2>4 DEF Vector
<1> QED
  BY <1>8, <1>9

\* A pair that has been read is in the trie; the vector stays what it is.
LEMMA AddPairVector ==
  ASSUME Typed, Adding, AddPair
  PROVE  Adding' /\ Vector' = Vector
<1> DEFINE p == cur.pos - Len(word)
           r == NextNumber(row, cur)
           d == r.cur
           a == Vectors!Values(row)[p]
<1>1. /\ fn # "none" /\ done.reads = 0 /\ row \in Seq(Charset) /\ cur.len > 0
      /\ Stands(row, cur) /\ p \in F!PairStarts(row) /\ word = Vectors!IndexAt(row, p)
      /\ fn' = fn /\ done' = done /\ pc = "add" /\ row \in Rows
      /\ VaAdd(word, Atof[r.tok]) /\ FetchIndex(row, r.cur)
  BY RowType, SameFields DEF AddPair, Adding
<1>2. /\ p \in Nat /\ F!RunLen(row, p) \in Nat
      /\ F!SecondOf(row, p) = p + F!RunLen(row, p) + 1
      /\ Vectors!RunLen(row, p) = F!RunLen(row, p)
  BY <1>1, PairsAre, SameFields
<1>3. Len(word) = F!RunLen(row, p) /\ (word = <<>> <=> F!RunLen(row, p) = 0)
  BY <1>1, <1>2, WordOfPair
<1>4. cur.pos \in Nat /\ cur.pos + 1 = F!SecondOf(row, p)
  <2>1. cur.pos \in Nat
    BY <1>1 DEF Stands, Inside
  <2> QED
    BY <1>2, <1>3, <2>1
<1> HIDE DEF p, r, d
<1>5. /\ r.tok = F!Field(row, F!SecondOf(row, p)) /\ Stands(row, d)
      /\ d.len > 0 => F!FieldNo(row, d.pos + 1) % 2 = 1 /\ d.pos + 1 > p
      /\ \A i \in F!PairStarts(row) : i > p => d.len > 0 /\ i >= d.pos + 1
  BY <1>1, <1>4, PastPair DEF r, d
<1>6. a = Atof[r.tok] /\ a \in Int
  BY <1>1, <1>5, ValuesAre
<1>7. /\ d.pos \in Nat
      /\ \A i \in F!PairStarts(row) : i >= p + 1 => d.len > 0 /\ i >= d.pos + 1
      /\ d.len > 0 => p + 1 <= d.pos + 1
  <2>1. d.pos \in Nat
    BY <1>5 DEF Stands, Inside
  <2>2. F!PairStarts(row) \subseteq Nat
    BY <1>1, PairsAre
  <2> QED
    BY <1>2, <1>5, <2>1, <2>2
<1>8. \/ pc' = "idle" /\ Vectors!Pairs(row, p + 1) = {}
      \/ LET n == cur'.pos - Len(word') IN
         /\ pc' = "add" /\ row' = row /\ cur'.len > 0 /\ Stands(row, cur')
         /\ n \in F!PairStarts(row) /\ word' = Vectors!IndexAt(row, n)
         /\ Vectors!Pairs(row, p + 1) = Vectors!Pairs(row, n)
  <2>1. FetchIndex(row, d)
    BY <1>1 DEF r, d
  <2>2. p + 1 \in Nat
    BY <1>2
  <2> QED
    BY <1>1, <1>5, <1>7, <2>1, <2>2, FetchIndexPairs
<1>9. sum \in [DOMAIN sum -> Int] /\ sum' \in [DOMAIN sum' -> Int]
  BY <1>1, <1>6, VaAddType DEF Typed, TypeOK
<1>10. Vectors!Plus(sum, row, p) = Vectors!Plus(sum', row, p + 1)
  <2>1. F!PairStarts(row) \subseteq Nat /\ Vectors!PairStarts(row) = F!PairStarts(row)
    BY <1>1, PairsAre, SameFields
  <2>2. CASE word = <<>>
    <3>1. sum' = sum
      BY <1>1, <2>2 DEF VaAdd
    <3>2. Vectors!Pairs(row, p) = Vectors!Pairs(row, p + 1)
      <4>1. Vectors!RunLen(row, p) = 0
        BY <1>2, <1>3, <2>2
      <4> QED
        BY <1>2, <2>1, <4>1 DEF Vectors!Pairs
    <3> QED
      BY <3>1, <3>2, SamePairsPlus
  <2>3. CASE word # <<>>
    <3>1. sum' = [w \in DOMAIN sum \cup {word} |->
                   (IF w \in DOMAIN sum THEN sum[w] ELSE 0) + (IF w = word THEN a ELSE 0)]
      BY <1>1, <1>6, <2>3 DEF VaAdd
    <3>2. Vectors!RunLen(row, p) > 0
      BY <1>2, <1>3, <2>3
    <3>3. /\ p \in Vectors!Pairs(row, p) /\ p \notin Vectors!Pairs(row, p + 1)
          /\ Vectors!Pairs(row, p) = Vectors!Pairs(row, p + 1) \cup {p}
      BY <1>1, <1>2, <2>1, <3>2 DEF Vectors!Pairs
    <3> DEFINE s == sum'
    <3>5. s = [w \in DOMAIN sum \cup {Vectors!IndexAt(row, p)} |->
                (IF w \in DOMAIN sum THEN sum[w] ELSE 0)
                  + (IF w = Vectors!IndexAt(row, p) THEN Vectors!Values(row)[p] ELSE 0)]
      BY <1>1, <3>1 DEF a
    <3> HIDE DEF s
    <3> DEFINE n == p + 1
    <3>6. /\ row \in Seq(Charset) /\ sum \in [DOMAIN sum -> Int]
          /\ p \in Vectors!Pairs(row, p) /\ p \notin Vectors!Pairs(row, n)
          /\ Vectors!Pairs(row, p) = Vectors!Pairs(row, n) \cup {p}
      BY <1>1, <1>9, <3>3
    <3> HIDE DEF n
    <3>7. Vectors!Plus(sum, row, p) = Vectors!Plus(s, row, n)
      BY <3>5, <3>6, PlusFirst
    <3> QED
      BY <3>7 DEF s, n
  <2> QED
    BY <2>2, <2>3
<1>11. Vector = Vectors!Plus(sum, row, p)
  BY <1>1 DEF Vector, p
<1>12. CASE pc' = "idle"
  <2>1. Vectors!Pairs(row, p + 1) = {}
    BY <1>8, <1>12
  <2>2. Vectors!Plus(sum', row, p + 1) = sum'
    BY <1>9, <2>1, PlusNone
  <2>3. Vector' = sum'
    BY <1>12 DEF Vector
  <2> QED
    BY <1>10, <1>11, <1>12, <2>2, <2>3 DEF Adding
<1>13. CASE pc' # "idle"
  <2> DEFINE n == cur'.pos - Len(word')
  <2>1. /\ pc' = "add" /\ row' = row /\ cur'.len > 0 /\ Stands(row, cur')
        /\ n \in F!PairStarts(row) /\ word' = Vectors!IndexAt(row, n)
        /\ Vectors!Pairs(row, p + 1) = Vectors!Pairs(row, n)
    BY <1>8, <1>13
  <2>2. Adding'
    BY <1>1, <2>1, SameFields DEF Adding
  <2>3. Vectors!Plus(sum', row, p + 1) = Vectors!Plus(sum', row, n)
    BY <2>1, SamePairsPlus
  <2>4. Vector' = Vectors!Plus(sum', row, n)
    BY <2>1 DEF Vector
  <2> QED
    BY <1>10, <1>11, <2>2, <2>3, <2>4
<1> QED
  BY <1>12, <1>13

-------------------------------------------------------------------------------
(* Adding and Reading are invariants.                                      *)

LEMMA SquaresAre ==
  ASSUME Typed
  PROVE  \A w \in DOMAIN sum : /\ Squares[w] = sum[w] * sum[w] /\ Squares[w] \in Nat
                               /\ Squares[w] = 0 => sum[w] = 0
<1>1. \A a \in Int : a * a \in Nat /\ (a * a = 0 => a = 0)
  OBVIOUS
<1> QED
  BY <1>1 DEF Squares, Typed, TypeOK

\* vac_prepare puts one more square into C->len.
LEMMA MeasuresSquare ==
  ASSUME Typed, NEW w \in todo, NEW S, S = DOMAIN sum \ (todo \ {w})
  PROVE  SumFunctionOnSet(Squares, S)
           = SumFunctionOnSet(Squares, DOMAIN sum \ todo) + sum[w] * sum[w]
<1>1. /\ S \ {w} = DOMAIN sum \ todo /\ w \in S /\ S \subseteq DOMAIN sum
      /\ IsFiniteSet(S) /\ IsFiniteSet(DOMAIN sum \ todo)
  BY FS_Subset DEF Typed, TypeOK, Shape
<1>2. \A x \in S : Squares[x] \in Int
  BY <1>1, SquaresAre
<1>3. SumFunctionOnSet(Squares, S) = Squares[w] + SumFunctionOnSet(Squares, S \ {w})
  BY <1>1, <1>2, SumTakesOut
<1>4. SumFunctionOnSet(Squares, DOMAIN sum \ todo) \in Int
  BY <1>1, <1>2, SumType
<1>5. Squares[w] = sum[w] * sum[w] /\ Squares[w] \in Int
  BY <1>1, SquaresAre
<1>6. SumFunctionOnSet(Squares, S) = Squares[w] + SumFunctionOnSet(Squares, DOMAIN sum \ todo)
  BY <1>1, <1>3, Zenon
<1> QED
  BY <1>4, <1>5, <1>6

LEMMA ReadingNext == Typed /\ Passes /\ Adding /\ Reading /\ [Next]_vars => Reading'
<1> SUFFICES ASSUME Typed, Passes, Adding, Reading, [Next]_vars PROVE Reading'
  OBVIOUS
<1> USE DEF context, input, output
<1>0. /\ len.sq \in Nat /\ len \in [sq : Nat, stale : BOOLEAN]
      /\ DOMAIN sum = DOMAIN by /\ todo \subseteq DOMAIN sum
      /\ done \in [queries : Nat, clears : Nat, rows : Nat, reads : Nat]
      /\ DOMAIN NoVector = {} /\ normalize \in BOOLEAN
      /\ fn \in {"isum", "isumn", "none"} /\ Inexact # 0
  BY VectorSumAssumption DEF Typed, TypeOK, Reading, NoVector
<1>1. ASSUME NEW f \in {"isum", "isumn"}, IsumInit(f) PROVE Reading'
  BY <1>0, <1>1 DEF IsumInit, VacInit, Reading, FirstReading
<1>2. CASE IsumInitFails
  BY <1>2 DEF IsumInitFails, Reading
<1>3. CASE IsumClear
  <2>1. /\ pc = "idle" /\ pc' = "idle" /\ fn # "none" /\ fn' = fn
        /\ sum' = NoVector /\ len' = [sq |-> 0, stale |-> FALSE] /\ normalize' = (fn = "isumn")
        /\ done' = [done EXCEPT !.clears = @ + 1, !.rows = 0, !.reads = 0]
    BY <1>3 DEF IsumClear, VacInit
  <2>2. done' \in [queries : Nat, clears : Nat, rows : Nat, reads : Nat] /\ done'.reads = 0
    <3>1. done' = [done EXCEPT !.clears = done.clears + 1, !.rows = 0, !.reads = 0]
      BY <2>1
    <3>2. done' = [queries |-> done.queries, clears |-> done.clears + 1, rows |-> 0, reads |-> 0]
      BY <1>0, <3>1
    <3> QED
      BY <1>0, <3>2
  <2> QED
    BY <1>0, <2>1, <2>2 DEF Reading, FirstReading
<1>4. CASE IsumDeinit
  BY <1>4 DEF IsumDeinit, Reading
<1>5. ASSUME NEW x \in Rows, IsumAdd(x) PROVE Reading'
  <2>1. pc = "idle" /\ pc' \in {"idle", "add"} /\ fn # "none" /\ done.reads = 0
        /\ done' = [done EXCEPT !.rows = @ + 1] /\ UNCHANGED <<fn, context>>
    BY <1>5 DEF IsumAdd, FetchIndex
  <2>2. done' \in [queries : Nat, clears : Nat, rows : Nat, reads : Nat] /\ done'.reads = 0
    BY <1>0, <2>1
  <2> QED
    BY <2>1, <2>2 DEF Reading, FirstReading, Squares
<1>6. CASE AddPair
  <2>1. pc = "add" /\ pc' \in {"idle", "add"} /\ fn # "none" /\ done.reads = 0
        /\ UNCHANGED <<fn, normalize, len, done>>
    BY <1>6 DEF AddPair, FetchIndex, Adding
  <2>2. FirstReading /\ len.sq = 0 /\ ~len.stale /\ \A w \in DOMAIN sum : by[w] = 0
    BY <2>1 DEF Reading, FirstReading
  <2>3. \A w \in DOMAIN sum' : by'[w] = 0
    <3>1. PICK v : VaAdd(word, v)
      BY <1>6 DEF AddPair
    <3>2. CASE word = <<>>
      BY <2>2, <3>1, <3>2 DEF VaAdd
    <3>3. CASE word # <<>>
      BY <1>0, <2>2, <3>1, <3>3 DEF VaAdd
    <3> QED
      BY <3>2, <3>3
  <2> QED
    BY <1>0, <2>1, <2>2, <2>3 DEF Reading, FirstReading
<1>7. CASE IsumStart
  <2>1. /\ pc = "idle" /\ pc' = "measure" /\ fn # "none" /\ todo' = DOMAIN sum
        /\ len' = [len EXCEPT !.stale = @ \/ len.sq # 0]
        /\ UNCHANGED <<fn, normalize, sum, by, done>>
    BY <1>7 DEF IsumStart
  <2>2. len'.sq = len.sq /\ len'.stale = (len.stale \/ len.sq # 0)
    BY <1>0, <2>1
  <2>3. done.reads = 0 => FirstReading'
    <3>1. SumFunctionOnSet(Squares', {}) = 0 /\ DOMAIN sum' \ todo' = {}
      BY <2>1, SumOfNone
    <3> QED
      BY <2>1, <2>2, <3>1 DEF Reading, FirstReading
  <2>4. done.reads # 0 => LaterReading'
    BY <2>1, <2>2 DEF Reading, LaterReading
  <2> QED
    BY <2>1, <2>3, <2>4 DEF Reading
<1>8. ASSUME NEW w \in todo, VacPrepare(w) PROVE Reading'
  <2>1. /\ pc = "measure" /\ pc' = "measure" /\ fn # "none" /\ todo' = todo \ {w}
        /\ len' = [len EXCEPT !.sq = @ + sum[w] * sum[w]]
        /\ UNCHANGED <<fn, normalize, sum, by, done>>
    BY <1>8 DEF VacPrepare, Visit, Reading
  <2>2. len'.sq = len.sq + sum[w] * sum[w] /\ len'.stale = len.stale /\ Squares' = Squares
    BY <1>0, <2>1 DEF Squares
  <2>3. done.reads = 0 => FirstReading'
    <3> DEFINE S == DOMAIN sum \ (todo \ {w})
    <3>1. SumFunctionOnSet(Squares, S)
            = SumFunctionOnSet(Squares, DOMAIN sum \ todo) + sum[w] * sum[w]
      BY MeasuresSquare
    <3>2. DOMAIN sum' \ todo' = S
      BY <2>1
    <3> HIDE DEF S
    <3> QED
      BY <2>1, <2>2, <3>1, <3>2 DEF Reading, FirstReading
  <2>4. done.reads # 0 => LaterReading'
    <3>1. w \in DOMAIN sum /\ sum[w] * sum[w] \in Nat /\ (sum[w] = 0 => sum[w] * sum[w] = 0)
      BY <1>0, SquaresAre
    <3> DEFINE n == sum[w] * sum[w]
    <3> HIDE DEF n
    <3>2. n \in Nat /\ (sum[w] = 0 => n = 0) /\ len'.sq = len.sq + n
      BY <2>2, <3>1 DEF n
    <3> QED
      BY <1>0, <2>1, <2>2, <3>1, <3>2 DEF Reading, LaterReading
  <2> QED
    BY <2>1, <2>3, <2>4 DEF Reading
<1>9. CASE Allocate
  <2>1. /\ pc = "measure" /\ pc' = "write" /\ fn # "none" /\ todo = {} /\ todo' = DOMAIN sum
        /\ UNCHANGED <<fn, normalize, sum, by, len, done, text>>
    BY <1>9 DEF Allocate, Reading
  <2>2. {text'[i] : i \in DOMAIN text'} = {<<w, sum'[w], by'[w]>> : w \in DOMAIN sum' \ todo'}
    BY <2>1 DEF Passes
  <2>3. done.reads = 0 => FirstReading'
    <3>1. Squares' = Squares /\ DOMAIN sum \ todo = DOMAIN sum
      BY <2>1 DEF Squares
    <3> QED
      BY <2>1, <3>1 DEF Reading, FirstReading
  <2>4. done.reads # 0 => LaterReading'
    BY <2>1 DEF Reading, LaterReading
  <2> QED
    BY <2>1, <2>2, <2>3, <2>4 DEF Reading
<1>10. ASSUME NEW w \in todo, VacWrite(w) PROVE Reading'
  <2>1. /\ pc = "write" /\ pc' = "write" /\ fn # "none" /\ todo' = todo \ {w}
        /\ by' = [by EXCEPT ![w] = DividedBy(w)]
        /\ text' = Append(text, <<w, sum[w], DividedBy(w)>>)
        /\ UNCHANGED <<fn, normalize, sum, len, done>>
    BY <1>10 DEF VacWrite, Visit, Reading
  <2>2. /\ w \in DOMAIN sum /\ w \in DOMAIN by /\ by'[w] = DividedBy(w)
        /\ \A u \in DOMAIN sum : u # w => by'[u] = by[u]
        /\ DOMAIN sum' \ todo' = (DOMAIN sum \ todo) \cup {w} /\ w \notin DOMAIN sum \ todo
    BY <1>0, <2>1 DEF Typed, TypeOK
  <2>3. {text'[i] : i \in DOMAIN text'} = {<<u, sum'[u], by'[u]>> : u \in DOMAIN sum' \ todo'}
    <3>1. text \in Seq(Texts) /\ Len(text) \in Nat /\ DOMAIN text = 1 .. Len(text)
      BY LenProperties DEF Passes
    <3>2. {text'[i] : i \in DOMAIN text'}
            = {text[i] : i \in DOMAIN text} \cup {<<w, sum[w], DividedBy(w)>>}
      <4>1. /\ DOMAIN text' = 1 .. Len(text) + 1
            /\ \A i \in 1 .. Len(text) : text'[i] = text[i]
            /\ text'[Len(text) + 1] = <<w, sum[w], DividedBy(w)>>
        <5> DEFINE e == <<w, sum[w], DividedBy(w)>>
        <5>1. e \in Texts
          <6>1. by'[w] \in Divisors
            BY <1>10, <2>2, TypedNext DEF Typed, TypeOK
          <6> QED
            BY <2>2, <6>1 DEF Texts, Typed, TypeOK, Shape
        <5> HIDE DEF e
        <5>2. text' = Append(text, e)
          BY <2>1 DEF e
        <5> QED
          BY <3>1, <5>1, <5>2, AppendProperties, LenProperties DEF e
      <4>2. 1 .. Len(text) + 1 = (1 .. Len(text)) \cup {Len(text) + 1}
        BY <3>1
      <4> DEFINE e == <<w, sum[w], DividedBy(w)>>
      <4> HIDE DEF e
      <4> QED
        BY <3>1, <4>1, <4>2 DEF e
    <3>3. {<<u, sum'[u], by'[u]>> : u \in DOMAIN sum' \ todo'}
            = {<<u, sum[u], by[u]>> : u \in DOMAIN sum \ todo} \cup {<<w, sum[w], DividedBy(w)>>}
      BY <2>1, <2>2
    <3> QED
      BY <2>1, <3>2, <3>3 DEF Reading
  <2>4. done.reads = 0 => FirstReading'
    <3> SUFFICES ASSUME done.reads = 0 PROVE FirstReading'
      OBVIOUS
    <3>1. FirstReading
      BY <2>1 DEF Reading
    <3>2. by[w] = 0
      BY <1>10, <2>2, <3>1 DEF FirstReading
    <3>3. DividedBy(w) = IF normalize THEN len.sq ELSE 0
      BY <3>1, <3>2 DEF DividedBy, FirstReading
    <3>4. Squares' = Squares
      BY <2>1 DEF Squares
    <3> QED
      BY <2>1, <2>2, <3>1, <3>3, <3>4 DEF FirstReading
  <2>5. done.reads # 0 => LaterReading'
    <3> SUFFICES ASSUME done.reads # 0 PROVE LaterReading'
      OBVIOUS
    <3>1. LaterReading
      BY <2>1 DEF Reading
    <3> QED
      BY <2>1, <2>2, <3>1 DEF LaterReading, DividedBy
  <2> QED
    BY <2>1, <2>3, <2>4, <2>5 DEF Reading
<1>11. CASE IsumReturn
  <2>1. /\ pc = "write" /\ pc' = "idle" /\ fn # "none" /\ todo = {}
        /\ done' = [done EXCEPT !.reads = @ + 1]
        /\ UNCHANGED <<fn, normalize, sum, by, len>>
    BY <1>11 DEF IsumReturn, Reading
  <2>2. done' \in [queries : Nat, clears : Nat, rows : Nat, reads : Nat] /\ done'.reads # 0
    BY <1>0, <2>1
  <2>3. CASE done.reads = 0
    <3>1. /\ len.sq = SumFunctionOnSet(Squares, DOMAIN sum)
          /\ \A w \in DOMAIN sum : by[w] = IF normalize THEN len.sq ELSE 0
      BY <2>1, <2>3 DEF Reading, FirstReading
    <3>2. len.sq = 0 => \A w \in DOMAIN sum : sum[w] = 0
      <4>1. IsFiniteSet(DOMAIN sum) /\ \A w \in DOMAIN sum : Squares[w] \in Nat
        BY SquaresAre DEF Typed, Shape
      <4>2. len.sq = 0 => \A w \in DOMAIN sum : Squares[w] = 0
        BY <3>1, <4>1, SumIsZero
      <4> QED
        BY <4>2, SquaresAre
    <3>3. len.sq # 0 => DOMAIN sum # {}
      BY <3>1, SumOfNone
    <3>4. LaterReading'
      BY <2>1, <3>1, <3>2, <3>3 DEF LaterReading
    <3> QED
      BY <2>1, <2>2, <3>4 DEF Reading
  <2>4. CASE done.reads # 0
    <3>1. LaterReading'
      BY <2>1, <2>4 DEF Reading, LaterReading
    <3> QED
      BY <2>1, <2>2, <3>1 DEF Reading
  <2> QED
    BY <2>3, <2>4
<1>12. CASE UNCHANGED vars
  BY <1>12 DEF vars, Reading, FirstReading, LaterReading, Squares
<1> QED
  BY <1>1, <1>2, <1>3, <1>4, <1>5, <1>6, <1>7, <1>8, <1>9, <1>10, <1>11, <1>12
  DEF Next, Continue

LEMMA AddingNext == Typed /\ Adding /\ [Next]_vars => Adding'
<1> SUFFICES ASSUME Typed, Adding, [Next]_vars PROVE Adding'
  OBVIOUS
<1>1. ASSUME NEW f \in {"isum", "isumn"}, IsumInit(f) PROVE Adding'
  BY <1>1 DEF IsumInit, Adding
<1>2. CASE IsumInitFails
  BY <1>2 DEF IsumInitFails, Adding
<1>3. CASE IsumClear
  BY <1>3 DEF IsumClear, Adding
<1>4. CASE IsumDeinit
  BY <1>4 DEF IsumDeinit, Adding
<1>5. ASSUME NEW x \in Rows, IsumAdd(x) PROVE Adding'
  BY <1>5, IsumAddVector
<1>6. CASE AddPair
  BY <1>6, AddPairVector
<1>7. CASE IsumStart
  BY <1>7 DEF IsumStart, Adding
<1>8. ASSUME NEW w \in todo, VacPrepare(w) \/ VacWrite(w) PROVE Adding'
  BY <1>8 DEF VacPrepare, VacWrite, Adding
<1>9. CASE Allocate
  BY <1>9 DEF Allocate, Adding
<1>10. CASE IsumReturn
  BY <1>10 DEF IsumReturn, Adding
<1>11. CASE UNCHANGED vars
  BY <1>11, SameFields DEF vars, Adding
<1> QED
  BY <1>1, <1>2, <1>3, <1>4, <1>5, <1>6, <1>7, <1>8, <1>9, <1>10, <1>11 DEF Next, Continue

-------------------------------------------------------------------------------
(* The steps of the two aggregates are steps of VectorBag.                 *)

\* The last writing step leaves the sum in the reply: divided by its length the
\* first time, and later divided by nothing, or by no length at all.
LEMMA ReplyIs ==
  ASSUME Typed, Reading, fn # "none", todo = {}, pc = "write", reply' = text
  PROVE  \/ Reply' = Abstract!Entries(sum, fn = "isumn")
         \/ done.reads # 0 /\ fn = "isumn" /\ Reply' = Unspecified
<1> DEFINE Shown == {<<w, sum[w], by[w]>> : w \in DOMAIN sum}
<1>1. {text[i] : i \in DOMAIN text} = Shown
  BY DEF Reading
<1>2. /\ len.sq \in Nat /\ Inexact \notin Nat /\ normalize = (fn = "isumn")
      /\ IsFiniteSet(DOMAIN sum)
  BY VectorSumAssumption DEF Typed, TypeOK, Shape, Reading
<1>3. ASSUME \A w \in DOMAIN sum : by[w] \in Nat PROVE Reply' = Shown
  <2>1. \A i \in DOMAIN text : text[i] \in Shown
    BY <1>1
  <2>2. \A e \in Shown : e[3] # Inexact
    BY <1>2, <1>3
  <2> HIDE DEF Shown
  <2>3. \A i \in DOMAIN text : text[i][3] # Inexact
    BY <2>1, <2>2
  <2> QED
    BY <1>1, <2>3 DEF Reply
<1>4. Abstract!Square(sum) = SumFunctionOnSet(Squares, DOMAIN sum)
  BY SameVectors DEF Squares
<1>5. CASE done.reads = 0
  <2>1. /\ len.sq = SumFunctionOnSet(Squares, DOMAIN sum)
        /\ \A w \in DOMAIN sum : by[w] = IF normalize THEN len.sq ELSE 0
    BY <1>5 DEF Reading, FirstReading
  <2>2. Abstract!Entries(sum, fn = "isumn") = Shown
    BY <1>2, <1>4, <2>1 DEF Abstract!Entries
  <2> QED
    BY <1>2, <1>3, <2>1, <2>2
<1>6. CASE done.reads # 0
  <2>1. LaterReading
    BY <1>6 DEF Reading
  <2>2. CASE ~normalize /\ \A w \in DOMAIN sum : by[w] = 0
    <3>1. Abstract!Entries(sum, fn = "isumn") = Shown
      BY <1>2, <2>2 DEF Abstract!Entries
    <3> QED
      BY <1>3, <2>2, <3>1
  <2>3. CASE normalize /\ len.sq = 0 /\ \A w \in DOMAIN sum : sum[w] = 0 /\ by[w] = 0
    <3>1. \A w \in DOMAIN sum : Squares[w] = 0
      BY <2>3 DEF Squares
    <3>2. SumFunctionOnSet(Squares, DOMAIN sum) = SumFunctionOnSet(Squares, {})
      BY <1>2, <3>1, SumSkips
    <3>3. Abstract!Square(sum) = 0
      BY <1>4, <3>2, SumOfNone
    <3>4. Abstract!Entries(sum, fn = "isumn") = Shown
      BY <2>3, <3>3 DEF Abstract!Entries
    <3> QED
      BY <1>3, <2>3, <3>4
  <2>4. CASE normalize /\ DOMAIN sum # {} /\ \A w \in DOMAIN sum : by[w] = Inexact
    <3>1. PICK w \in DOMAIN sum : by[w] = Inexact
      BY <2>4
    <3>2. <<w, sum[w], by[w]>> \in Shown
      OBVIOUS
    <3> DEFINE e == <<w, sum[w], by[w]>>
    <3>3. e \in Shown /\ e[3] = Inexact
      BY <3>1
    <3> HIDE DEF e, Shown
    <3>4. PICK i \in DOMAIN text : text[i] = e
      BY <1>1, <3>3
    <3>5. Reply' = Unspecified
      BY <3>3, <3>4 DEF Reply
    <3> QED
      BY <1>2, <1>6, <2>4, <3>5
  <2> QED
    BY <2>1, <2>2, <2>3, <2>4 DEF LaterReading
<1> QED
  BY <1>2, <1>5, <1>6 DEF Reading

LEMMA StepMaps ==
  ASSUME Typed, Passes, Adding, Reading, [Next]_vars
  PROVE  [Abstract!Next]_(Abstract!vars)
<1> USE DEF context, input, output
<1>0. /\ NoVector = Abstract!Zero
      /\ done \in [queries : Nat, clears : Nat, rows : Nat, reads : Nat]
      /\ pc = "idle" => Vector = sum
  BY DEF NoVector, Abstract!Zero, Reading, Vector
<1> DEFINE Stutter == UNCHANGED <<fn, Vector, done.reads > 0 /\ fn # "none", Reply>>
<1>12. Stutter => UNCHANGED Abstract!vars
  BY DEF Abstract!vars
<1>1. ASSUME NEW f \in {"isum", "isumn"}, IsumInit(f) PROVE Abstract!Next
  <2>1. /\ fn = "none" /\ fn' = f /\ pc = "idle" /\ pc' = "idle" /\ sum' = NoVector
        /\ reply' = reply /\ done'.reads = 0
    BY <1>1 DEF IsumInit, VacInit
  <2>2. sum = NoVector
    BY <2>1 DEF Reading
  <2>3. Vector' = Vector /\ Reply' = Reply
    BY <2>1, <2>2 DEF Vector, Reply
  <2>4. Abstract!Open(f)
    BY <2>1, <2>3 DEF Abstract!Open
  <2> QED
    BY <2>4 DEF Abstract!Next
<1>2. CASE IsumInitFails
  <2>1. fn = "none" /\ UNCHANGED <<fn, pc, sum, row, cur, word, reply, done>>
    BY <1>2 DEF IsumInitFails
  <2> QED
    BY <1>12, <2>1 DEF Vector, Reply
<1>3. CASE IsumClear
  <2>1. /\ pc = "idle" /\ pc' = "idle" /\ fn # "none" /\ fn' = fn /\ sum' = NoVector
        /\ reply' = reply /\ done' = [done EXCEPT !.clears = done.clears + 1, !.rows = 0, !.reads = 0]
    BY <1>3 DEF IsumClear, VacInit
  <2>2. done'.reads = 0
    BY <1>0, <2>1
  <2>3. Abstract!Clear
    BY <1>0, <2>1, <2>2 DEF Abstract!Clear, Vector, Reply
  <2> QED
    BY <2>3 DEF Abstract!Next
<1>4. CASE IsumDeinit
  <2>1. /\ pc = "idle" /\ pc' = "idle" /\ fn # "none" /\ fn' = "none" /\ sum' = NoVector
        /\ reply' = reply
    BY <1>4 DEF IsumDeinit
  <2>2. Abstract!Close
    BY <1>0, <2>1 DEF Abstract!Close, Vector, Reply
  <2> QED
    BY <2>2 DEF Abstract!Next
<1>5. ASSUME NEW x \in Rows, IsumAdd(x) PROVE Abstract!Next
  <2>1. /\ pc = "idle" /\ fn # "none" /\ fn' = fn /\ done.reads = 0 /\ reply' = reply
        /\ done' = [done EXCEPT !.rows = done.rows + 1]
    BY <1>5 DEF IsumAdd
  <2>2. Vector' = Abstract!Plus(Vector, x, 1)
    BY <1>0, <1>5, <2>1, IsumAddVector, SameVectors
  <2>3. done'.reads = 0 /\ Reply' = Reply
    BY <1>0, <2>1 DEF Reply
  <2>4. Abstract!AddRow(x)
    BY <2>1, <2>2, <2>3 DEF Abstract!AddRow
  <2> QED
    BY <2>4 DEF Abstract!Next
<1>6. CASE AddPair
  <2>1. Vector' = Vector
    BY <1>6, AddPairVector
  <2>2. UNCHANGED <<fn, reply, done>>
    BY <1>6 DEF AddPair
  <2> QED
    BY <1>12, <2>1, <2>2 DEF Reply
<1>7. CASE IsumStart
  BY <1>12, <1>7 DEF IsumStart, Vector, Reply
<1>8. ASSUME NEW w \in todo, VacPrepare(w) \/ VacWrite(w) PROVE UNCHANGED Abstract!vars
  <2>1. pc \in {"measure", "write"} /\ pc' = pc /\ UNCHANGED <<fn, sum, reply, done>>
    BY <1>8 DEF VacPrepare, VacWrite
  <2>2. UNCHANGED <<Vector, Reply>>
    BY <2>1 DEF Vector, Reply
  <2> QED
    BY <1>12, <2>1, <2>2
<1>9. CASE Allocate
  BY <1>12, <1>9 DEF Allocate, Vector, Reply
<1>10. CASE IsumReturn
  <2>1. /\ pc = "write" /\ pc' = "idle" /\ todo = {} /\ reply' = text
        /\ fn # "none" /\ fn' = fn /\ sum' = sum
        /\ done' = [done EXCEPT !.reads = done.reads + 1]
    BY <1>10 DEF IsumReturn, Reading
  <2>2. \/ Reply' = Abstract!Entries(sum, fn = "isumn")
        \/ done.reads # 0 /\ fn = "isumn" /\ Reply' = Unspecified
    BY <2>1, ReplyIs
  <2>3. done'.reads > 0 /\ (done.reads # 0 => done.reads > 0)
    BY <1>0, <2>1
  <2>4. Vector = sum /\ Vector' = Vector
    BY <2>1 DEF Vector
  <2>5. Abstract!Read
    BY <2>1, <2>2, <2>3, <2>4 DEF Abstract!Read
  <2> QED
    BY <2>5 DEF Abstract!Next
<1>11. CASE UNCHANGED vars
  BY <1>12, <1>11 DEF vars, Vector, Reply
<1> QED
  BY <1>1, <1>2, <1>3, <1>4, <1>5, <1>6, <1>7, <1>8, <1>9, <1>10, <1>11 DEF Next, Continue

\* However the rows of a group are written, and cut into words by nextWord and
\* nextDouble, the first reply is the sum of the vectors in them, index by
\* index, and that of isumn is the sum divided by its length; an empty trie
\* follows every isum_clear.
THEOREM SumsAllVectors == Spec => SumsVectors
<1>1. Init => Adding /\ Reading /\ Abstract!Init
  <2> SUFFICES ASSUME Init PROVE Adding /\ Reading /\ Abstract!Init
    OBVIOUS
  <2>1. Reading /\ Adding
    BY DEF Init, Reading, Adding
  <2>2. Reply = {} /\ Vector = NoVector
    BY DEF Init, Reply, Vector
  <2> QED
    BY <2>1, <2>2 DEF Init, Abstract!Init, Abstract!Zero, NoVector
<1>2. Spec => [](Typed /\ Passes /\ Adding /\ Reading)
  BY <1>1, TypedInit, TypedNext, PassesInit, PassesNext, AddingNext, ReadingNext, PTL DEF Spec
<1>3. Typed /\ Passes /\ Adding /\ Reading /\ [Next]_vars => [Abstract!Next]_(Abstract!vars)
  BY StepMaps
<1> QED
  BY <1>1, <1>2, <1>3, PTL DEF Spec, SumsVectors, Abstract!Spec
===============================================================================
