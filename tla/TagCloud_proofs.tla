---------------------------- MODULE TagCloud_proofs ----------------------------
(***************************************************************************)
(* The tagcloud aggregate is typed, its heap is sound and it hides no word *)
(* from a reply, for every set of rows, every buffer size below the depth  *)
(* limit, every memory and any number of queries, clears and rows; the     *)
(* steps of add, clear and init on a trie keep it a pointer structure, for *)
(* every alphabet of child slots and every number of blocks.  The trie,    *)
(* the buffer and the cursor implement the bag of words of WordBag.        *)
(***************************************************************************)
EXTENDS TagCloudRefinement, UdfTokens_proofs, FiniteSetTheorems

LEMMA FreshType ==
  ASSUME NEW h, HasRoom(h)
  PROVE  Fresh(h) \in Blocks /\ Fresh(h) \notin h
BY DEF HasRoom, Fresh

LEMMA PrefixType ==
  ASSUME NEW S, NEW w \in Seq(S), NEW n \in 0 .. Len(w)
  PROVE  /\ Prefix(w, n) \in Seq(S)
         /\ Len(Prefix(w, n)) = n
         /\ \A i \in 1 .. n : Prefix(w, n)[i] = w[i]
<1>1. Len(w) \in Nat /\ \A i \in 1 .. n : w[i] \in S
  BY ElementOfSeq, LenProperties
<1> QED
  BY <1>1, SubSeqProperties DEF Prefix

\* The prefixes of a prefix are those of the word.
LEMMA PrefixOfPrefix ==
  ASSUME NEW S, NEW w \in Seq(S), NEW n \in 0 .. Len(w), NEW m \in 0 .. n
  PROVE  Prefix(Prefix(w, n), m) = Prefix(w, m)
<1> DEFINE p == Prefix(w, n)
<1>1. Len(w) \in Nat /\ m \in 0 .. Len(w)
  BY LenProperties
<1>2. p \in Seq(S) /\ Len(p) = n /\ \A i \in 1 .. n : p[i] = w[i]
  BY PrefixType
<1> HIDE DEF p
<1>3. /\ Prefix(p, m) \in Seq(S) /\ Len(Prefix(p, m)) = m
      /\ \A i \in 1 .. m : Prefix(p, m)[i] = p[i]
  BY <1>2, PrefixType
<1>4. /\ Prefix(w, m) \in Seq(S) /\ Len(Prefix(w, m)) = m
      /\ \A i \in 1 .. m : Prefix(w, m)[i] = w[i]
  BY <1>1, PrefixType
<1>5. \A i \in 1 .. m : Prefix(p, m)[i] = Prefix(w, m)[i]
  BY <1>1, <1>2, <1>3, <1>4
<1>6. Prefix(p, m) = Prefix(w, m)
  BY <1>3, <1>4, <1>5, SeqEqual
<1> QED
  BY <1>6 DEF p

LEMMA PrefixEnds ==
  ASSUME NEW S, NEW w \in Seq(S)
  PROVE  Prefix(w, 0) = <<>> /\ Prefix(w, Len(w)) = w
BY SubSeqEmpty, SubSeqFull DEF Prefix

LEMMA RootOnlyTrie ==
  ASSUME NEW b
  PROVE  /\ IsTrie(RootOnly(b))
         /\ BlocksOf(RootOnly(b)) = {b}
         /\ DOMAIN RootOnly(b) = {<<>>}
<1>1. Prefix(<<>>, 0) = <<>>
  BY SubSeqEmpty DEF Prefix
<1> QED
  BY <1>1 DEF IsTrie, RootOnly, BlocksOf

\* A level of tc_add or va_add whose parent is a node keeps the trie one.
LEMMA GraftTrie ==
  ASSUME NEW S, NEW t, IsTrie(t), DOMAIN t \subseteq Seq(S),
         NEW w \in Seq(S), NEW n \in 1 .. Len(w),
         NEW p, p = Prefix(w, n), p \notin DOMAIN t,
         Prefix(w, n - 1) \in DOMAIN t,
         NEW b, b \notin BlocksOf(t)
  PROVE  /\ IsTrie(Graft(t, p, b))
         /\ BlocksOf(Graft(t, p, b)) = BlocksOf(t) \cup {b}
<1> DEFINE g == Graft(t, p, b)
<1>1. DOMAIN g = DOMAIN t \cup {p}
  BY DEF Graft
<1>2. g[p] = b /\ \A q \in DOMAIN t : g[q] = t[q]
  BY DEF Graft
<1>3. BlocksOf(g) = BlocksOf(t) \cup {b}
  BY <1>1, <1>2 DEF BlocksOf
<1>4. Len(w) \in Nat /\ n \in 0 .. Len(w) /\ n - 1 \in 0 .. Len(w)
  BY LenProperties
<1>5. p \in Seq(S) /\ Len(p) = n
  BY <1>4, PrefixType
<1>6. Prefix(w, n - 1) \in Seq(S) /\ Len(Prefix(w, n - 1)) = n - 1
  BY <1>4, PrefixType
<1>7. \A m \in 0 .. n : Prefix(p, m) \in DOMAIN g
  <2>1. TAKE m \in 0 .. n
  <2>2. CASE m = n
    BY <1>1, <1>5, <2>2, PrefixEnds
  <2>3. CASE m # n
    <3>1. m \in 0 .. (n - 1) /\ m \in 0 .. Len(w)
      BY <1>4, <2>3
    <3>2. Prefix(p, m) = Prefix(w, m)
      BY <1>4, PrefixOfPrefix
    <3>3. Prefix(Prefix(w, n - 1), m) = Prefix(w, m)
      BY <1>4, <3>1, PrefixOfPrefix
    <3>4. Prefix(Prefix(w, n - 1), m) \in DOMAIN t
      BY <1>6, <3>1 DEF IsTrie
    <3> QED
      BY <1>1, <3>2, <3>3, <3>4
  <2> QED
    BY <2>2, <2>3
<1> HIDE DEF g
<1>8. IsTrie(g)
  <2>1. <<>> \in DOMAIN g
    BY <1>1 DEF IsTrie
  <2>2. \A q \in DOMAIN g : \A m \in 0 .. Len(q) : Prefix(q, m) \in DOMAIN g
    BY <1>1, <1>5, <1>7 DEF IsTrie
  <2>3. \A q, r \in DOMAIN g : g[q] = g[r] => q = r
    BY <1>1, <1>2 DEF IsTrie, BlocksOf
  <2> QED
    BY <2>1, <2>2, <2>3 DEF IsTrie
<1> QED
  BY <1>3, <1>8 DEF g
-------------------------------------------------------------------------------
Alphabet == Letters \cup {Other}

(***************************************************************************)
(* TypeOK is not inductive: what is a word, what the nodes are and where   *)
(* the walk of tc_add stands has to be known as well.                      *)
(***************************************************************************)
Shape ==
  /\ word \in Seq(Alphabet) /\ Len(word) <= MaxTok
  /\ DOMAIN blk \subseteq Seq(Alphabet)
  /\ \A p \in DOMAIN blk : Len(p) <= MaxTok
  /\ \A p \in DOMAIN count : count[p] > 0 => p # <<>>
  /\ ptr # Null => <<>> \in DOMAIN blk
  /\ pc = "add" => ptr # Null /\ Prefix(word, depth) \in DOMAIN blk
  /\ pc \notin {"measure", "write"} => todo = {}

Typed == TypeOK /\ Shape

\* The digits of a number can be counted.
LEMMA WidthType ==
  ASSUME NEW n \in Nat
  PROVE  /\ IsFiniteSet({k \in NewDigit : k <= n})
         /\ Width(n) \in Nat
<1> DEFINE D == {k \in NewDigit : k <= n}
<1>1. \A k \in NewDigit : k \in Nat
  BY TagCloudAssumption
<1>2. D \subseteq 0 .. n
  BY <1>1
<1>3. IsFiniteSet(0 .. n)
  BY FS_Interval
<1> HIDE DEF D
<1>4. IsFiniteSet(D)
  BY <1>2, <1>3, FS_Subset
<1>5. Cardinality(D) + 1 \in Nat
  BY <1>4, FS_CardinalityType
<1> QED
  BY <1>4, <1>5 DEF Width, D

LEMMA ShownType ==
  ASSUME NEW n \in Nat
  PROVE  /\ Shown(n) \in Nat
         /\ Shown(n) > 0 <=> n > 0
         /\ Shown(Shown(n)) = Shown(n)
BY TagCloudAssumption DEF Shown

LEMMA GrowType ==
  ASSUME NEW n \in Nat, NEW p \in Visible, TypeOK
  PROVE  Grow(n, p) \in Nat /\ Grow(n, p) > n
<1>1. Len(p) \in Nat /\ count[p] \in Nat
  BY DEF Visible, TypeOK
<1>2. Width(Shown(count[p])) \in Nat
  BY <1>1, ShownType, WidthType
<1> QED
  BY <1>1, <1>2 DEF Grow

\* What tagcloud_add finds in its buffer after a call of nextWord.
LEMMA FetchType ==
  ASSUME NEW x \in Seq(Charset), NEW c, Inside(x, c), Fetch(x, c)
  PROVE  /\ word' \in Seq(Alphabet) /\ Len(word') <= MaxTok
         /\ Inside(x, cur')
<1> DEFINE r == NextWord(x, c)
<1>1. /\ r.tok \in Seq(Charset) /\ Len(r.tok) <= MaxTok
      /\ Inside(x, r.cur)
  BY NextWordSafe
<1>2. word' = (IF r.avail THEN Word(r.tok) ELSE <<>>) /\ cur' = r.cur
  BY DEF Fetch
<1> HIDE DEF r
<1>3. Len(r.tok) \in Nat
  BY <1>1, LenProperties
<1>4. Word(r.tok) \in [1 .. Len(r.tok) -> Alphabet]
  BY DEF Word, LetterOf, Alphabet
<1>5. Word(r.tok) \in Seq(Alphabet)
  BY <1>3, <1>4, SeqDef
<1>6. Len(Word(r.tok)) = Len(r.tok)
  BY <1>3, <1>4, <1>5, LenProperties
<1>7. <<>> \in Seq(Alphabet) /\ Len(<<>>) = 0
  BY EmptySeq
<1> QED
  BY <1>1, <1>2, <1>5, <1>6, <1>7, MaxTokAssumption

\* The node that a level of tc_add goes to.
LEMMA LevelType ==
  ASSUME Typed, depth + 1 <= Len(word)
  PROVE  /\ depth + 1 \in 1 .. Len(word)
         /\ Prefix(word, depth + 1) \in Seq(Alphabet)
         /\ Len(Prefix(word, depth + 1)) = depth + 1
         /\ depth + 1 <= MaxTok
         /\ depth + 1 = Len(word) => Prefix(word, depth + 1) = word
<1>1. Len(word) \in Nat /\ depth \in Nat /\ word \in Seq(Alphabet)
  BY LenProperties DEF Typed, TypeOK, Shape
<1>2. depth + 1 \in 0 .. Len(word)
  BY <1>1
<1>3. Prefix(word, Len(word)) = word
  BY <1>1, PrefixEnds
<1> QED
  BY <1>1, <1>2, <1>3, PrefixType, MaxTokAssumption DEF Typed, Shape

LEMMA EmptyWord ==
  ASSUME NEW S
  PROVE  <<>> \in Seq(S) /\ Len(<<>>) = 0
BY EmptySeq

\* The end of a word's turn keeps the locals of tagcloud_add typed.
LEMMA NextOrReturnType ==
  ASSUME Typed, NextOrReturn, pc = "add"
  PROVE  /\ pc' \in {"idle", "add"} /\ depth' = 0
         /\ row' \in Rows \cup {<<>>} /\ Inside(row', cur')
         /\ word' \in Seq(Alphabet) /\ Len(word') <= MaxTok
         /\ Prefix(word', depth') = <<>>
<1>1. row \in Seq(Charset) /\ Inside(row, cur) /\ row \in Rows \cup {<<>>}
  BY EmptyWord, TagCloudAssumption DEF Typed, TypeOK
<1>2. CASE cur.len > 0
  <2>1. pc' = "add" /\ Fetch(row, cur) /\ row' = row /\ depth' = 0
    BY <1>2 DEF NextOrReturn
  <2>2. word' \in Seq(Alphabet) /\ Len(word') <= MaxTok /\ Inside(row, cur')
    BY <1>1, <2>1, FetchType
  <2>3. Prefix(word', 0) = <<>>
    BY <2>2, PrefixEnds
  <2> QED
    BY <1>1, <2>1, <2>2, <2>3
<1>3. CASE ~(cur.len > 0)
  <2>1. pc' = "idle" /\ NoInput /\ depth' = 0
    BY <1>3 DEF NextOrReturn
  <2>2. row' = <<>> /\ cur' = Cursor(0, 0) /\ word' = <<>>
    BY <2>1 DEF NoInput
  <2>3. Inside(<<>>, Cursor(0, 0))
    BY EmptyWord DEF Inside, Cursor
  <2>4. word' \in Seq(Alphabet) /\ Len(word') = 0
    BY <2>2, EmptyWord
  <2>5. Prefix(word', 0) = <<>>
    BY <2>4, PrefixEnds
  <2> QED
    BY <2>1, <2>2, <2>3, <2>4, <2>5, MaxTokAssumption
<1> QED
  BY <1>2, <1>3
-------------------------------------------------------------------------------
LEMMA TypedInit == Init => Typed
<1> SUFFICES ASSUME Init PROVE Typed
  OBVIOUS
<1>1. Inside(<<>>, Cursor(0, 0)) /\ <<>> \in Seq(Alphabet) /\ Len(<<>>) = 0
  BY EmptyWord DEF Inside, Cursor
<1>2. TypeOK
  BY <1>1 DEF Init, TypeOK, NoTrie, Visible
<1>3. Shape
  BY <1>1, MaxTokAssumption DEF Init, Shape, NoTrie
<1> QED
  BY <1>2, <1>3 DEF Typed

\* Putting a new root in place, as tagcloud_init and tagcloud_clear do.
LEMMA RootTyped ==
  ASSUME NEW b \in Blocks, blk' = RootOnly(b), count' = [p \in {<<>>} |-> 0]
  PROVE  /\ DOMAIN blk' = {<<>>} /\ DOMAIN count' = {<<>>}
         /\ blk' \in [DOMAIN blk' -> Blocks]
         /\ count' \in [DOMAIN count' -> Nat]
         /\ \A p \in DOMAIN count' : ~(count'[p] > 0)
         /\ DOMAIN blk' \subseteq Seq(Alphabet)
         /\ \A p \in DOMAIN blk' : Len(p) <= MaxTok
BY EmptyWord, MaxTokAssumption DEF RootOnly

\* A new node p with count k in the trie.
LEMMA GraftTyped ==
  ASSUME Typed, HasRoom(heap), NEW k \in Nat,
         NEW p \in Seq(Alphabet), Len(p) <= MaxTok, p # <<>>,
         blk' = Graft(blk, p, Fresh(heap)), count' = Graft(count, p, k),
         heap' = heap \cup {Fresh(heap)}
  PROVE  /\ DOMAIN blk' = DOMAIN blk \cup {p}
         /\ DOMAIN count' = DOMAIN blk'
         /\ blk' \in [DOMAIN blk' -> Blocks] /\ count' \in [DOMAIN count' -> Nat]
         /\ heap' \subseteq Blocks
         /\ DOMAIN blk' \subseteq Seq(Alphabet)
         /\ \A q \in DOMAIN blk' : Len(q) <= MaxTok
         /\ \A q \in DOMAIN count' : count'[q] > 0 => q # <<>>
<1>1. Fresh(heap) \in Blocks
  BY FreshType
<1>2. /\ DOMAIN blk = DOMAIN count
      /\ blk \in [DOMAIN blk -> Blocks] /\ count \in [DOMAIN count -> Nat]
      /\ heap \subseteq Blocks
      /\ DOMAIN blk \subseteq Seq(Alphabet)
      /\ \A q \in DOMAIN blk : Len(q) <= MaxTok
      /\ \A q \in DOMAIN count : count[q] > 0 => q # <<>>
  BY DEF Typed, TypeOK, Shape
<1>3. DOMAIN blk' = DOMAIN blk \cup {p} /\ DOMAIN count' = DOMAIN count \cup {p}
  BY DEF Graft
<1>4. /\ \A q \in DOMAIN blk' : blk'[q] \in Blocks
      /\ \A q \in DOMAIN count' : count'[q] \in Nat
      /\ \A q \in DOMAIN count : count'[q] = count[q]
  BY <1>1, <1>2 DEF Graft
<1>5. blk' \in [DOMAIN blk' -> Blocks] /\ count' \in [DOMAIN count' -> Nat]
  BY <1>4 DEF Graft
<1> QED
  BY <1>1, <1>2, <1>3, <1>4, <1>5

\* A visit of a pass changes no count from zero or to zero.
LEMMA VisitType ==
  ASSUME Typed, NEW p \in todo, Visit(p)
  PROVE  /\ count' \in [DOMAIN count -> Nat]
         /\ DOMAIN count' = DOMAIN count
         /\ \A q \in DOMAIN count : /\ count'[q] > 0 <=> count[q] > 0
                                    /\ Shown(count'[q]) = Shown(count[q])
         /\ Visible' = Visible
         /\ todo' \subseteq Visible
         /\ size' \in Nat /\ size' > size
<1>1. /\ count \in [DOMAIN count -> Nat] /\ size \in Nat
      /\ todo \subseteq Visible /\ p \in Visible /\ p \in DOMAIN count
  BY DEF Typed, TypeOK, Visible
<1>2. /\ todo' = todo \ {p} /\ size' = Grow(size, p)
      /\ count' = [count EXCEPT ![p] = Shown(@)]
  BY DEF Visit
<1>3. count[p] \in Nat
  BY <1>1
<1>4. /\ Shown(count[p]) \in Nat
      /\ Shown(count[p]) > 0 <=> count[p] > 0
      /\ Shown(Shown(count[p])) = Shown(count[p])
  BY <1>3, ShownType
<1>5. /\ count' \in [DOMAIN count -> Nat] /\ DOMAIN count' = DOMAIN count
      /\ \A q \in DOMAIN count : /\ count'[q] > 0 <=> count[q] > 0
                                 /\ Shown(count'[q]) = Shown(count[q])
  BY <1>1, <1>2, <1>4
<1>6. Visible' = Visible
  BY <1>5 DEF Visible
<1>7. size' \in Nat /\ size' > size
  BY <1>1, <1>2, GrowType DEF Typed
<1> QED
  BY <1>1, <1>2, <1>5, <1>6, <1>7
-------------------------------------------------------------------------------
LEMMA TypedNext == Typed /\ [Next]_vars => Typed'
<1> SUFFICES ASSUME Typed, [Next]_vars PROVE Typed'
  OBVIOUS
<1> USE DEF trie, input, output
<1>1. CASE TagcloudInit
  <2>1. PICK r \in Blocks : /\ blk' = RootOnly(r)
                            /\ ptr' \in Blocks /\ heap' = heap \cup {ptr', r}
    BY <1>1, FreshType DEF TagcloudInit
  <2>2. /\ DOMAIN blk' = {<<>>} /\ DOMAIN count' = {<<>>}
        /\ blk' \in [DOMAIN blk' -> Blocks]
        /\ count' \in [DOMAIN count' -> Nat]
        /\ \A p \in DOMAIN count' : ~(count'[p] > 0)
        /\ DOMAIN blk' \subseteq Seq(Alphabet)
        /\ \A p \in DOMAIN blk' : Len(p) <= MaxTok
    BY <1>1, <2>1, RootTyped DEF TagcloudInit
  <2>3. TypeOK'
    BY <1>1, <2>1, <2>2
       DEF TagcloudInit, Typed, TypeOK, Shape, Visible, Inside
  <2>4. Shape'
    BY <1>1, <2>1, <2>2 DEF TagcloudInit, Typed, Shape
  <2> QED
    BY <2>3, <2>4 DEF Typed
<1>2. CASE TagcloudInitFails
  BY <1>2 DEF TagcloudInitFails, Typed, TypeOK, Shape, Visible, Inside
<1>3. CASE TagcloudClear
  <2>1. PICK r \in Blocks : /\ blk' = RootOnly(r)
                            /\ heap' \subseteq heap \cup {r}
    BY <1>3, FreshType DEF TagcloudClear
  <2>2. /\ DOMAIN blk' = {<<>>} /\ DOMAIN count' = {<<>>}
        /\ blk' \in [DOMAIN blk' -> Blocks]
        /\ count' \in [DOMAIN count' -> Nat]
        /\ \A p \in DOMAIN count' : ~(count'[p] > 0)
        /\ DOMAIN blk' \subseteq Seq(Alphabet)
        /\ \A p \in DOMAIN blk' : Len(p) <= MaxTok
    BY <1>3, <2>1, RootTyped DEF TagcloudClear
  <2>3. TypeOK'
    BY <1>3, <2>1, <2>2
       DEF TagcloudClear, Typed, TypeOK, Shape, Visible, Inside
  <2>4. Shape'
    BY <1>3, <2>1, <2>2 DEF TagcloudClear, Typed, Shape
  <2> QED
    BY <2>3, <2>4 DEF Typed
<1>4. CASE \E x \in Rows : TagcloudAdd(x)
  <2>1. PICK x \in Rows : TagcloudAdd(x)
    BY <1>4
  <2>2. x \in Seq(Charset)
    BY TagCloudAssumption
  <2>3. Inside(x, Start(x))
    BY <2>2, LenProperties DEF Inside, Start, Cursor
  <2>4. word' \in Seq(Alphabet) /\ Len(word') <= MaxTok /\ Inside(x, cur')
    BY <2>1, <2>2, <2>3, FetchType DEF TagcloudAdd
  <2>5. Prefix(word', 0) = <<>>
    BY <2>4, PrefixEnds
  <2>6. TypeOK'
    BY <2>1, <2>4 DEF TagcloudAdd, Typed, TypeOK, Shape, Visible
  <2>7. Shape'
    BY <2>1, <2>4, <2>5 DEF TagcloudAdd, Typed, Shape
  <2> QED
    BY <2>6, <2>7 DEF Typed
<1>5. CASE TagcloudStart
  BY <1>5 DEF TagcloudStart, Typed, TypeOK, Shape, Visible, Inside
<1>6. CASE TagcloudDeinit
  <2>1. TypeOK'
    BY <1>6 DEF TagcloudDeinit, Typed, TypeOK, Shape, NoTrie, Visible, Inside
  <2>2. Shape'
    BY <1>6 DEF TagcloudDeinit, Typed, Shape, NoTrie
  <2> QED
    BY <2>1, <2>2 DEF Typed
<1>7. CASE SkipWord
  <2>1. NextOrReturn /\ pc = "add" /\ UNCHANGED <<ptr, trie, heap, output>>
    BY <1>7 DEF SkipWord
  <2>2. /\ pc' \in {"idle", "add"} /\ depth' = 0
        /\ row' \in Rows \cup {<<>>} /\ Inside(row', cur')
        /\ word' \in Seq(Alphabet) /\ Len(word') <= MaxTok
        /\ Prefix(word', depth') = <<>>
    BY <2>1, NextOrReturnType
  <2>3. TypeOK'
    BY <2>1, <2>2 DEF Typed, TypeOK, Shape, Visible
  <2>4. Shape'
    BY <2>1, <2>2 DEF Typed, Shape
  <2> QED
    BY <2>3, <2>4 DEF Typed
<1>8. CASE TcAddDescend
  <2> DEFINE p == Prefix(word, depth + 1)
  <2>1. pc = "add" /\ depth + 1 < Len(word) /\ depth' = depth + 1
        /\ UNCHANGED <<pc, ptr, row, cur, word, output>>
    BY <1>8 DEF TcAddDescend
  <2>2. Len(word) \in Nat /\ depth \in Nat
    BY LenProperties DEF Typed, TypeOK, Shape
  <2>3. CASE p \in DOMAIN blk
    <3>1. UNCHANGED <<trie, heap>>
      BY <1>8, <2>3 DEF TcAddDescend
    <3>2. TypeOK'
      BY <2>1, <2>2, <3>1 DEF Typed, TypeOK, Shape, Visible, Inside
    <3>3. Shape'
      BY <2>1, <2>3, <3>1 DEF Typed, Shape
    <3> QED
      BY <3>2, <3>3 DEF Typed
  <2>4. CASE p \notin DOMAIN blk
    <3>1. HasRoom(heap) /\ blk' = Graft(blk, p, Fresh(heap))
          /\ count' = Graft(count, p, 0) /\ heap' = heap \cup {Fresh(heap)}
      BY <1>8, <2>4 DEF TcAddDescend
    <3>2. p \in Seq(Alphabet) /\ Len(p) <= MaxTok /\ p # <<>>
      BY <2>1, <2>2, LevelType, EmptyWord
    <3> HIDE DEF p
    <3>3. /\ DOMAIN blk' = DOMAIN blk \cup {p}
          /\ DOMAIN count' = DOMAIN blk'
          /\ blk' \in [DOMAIN blk' -> Blocks] /\ count' \in [DOMAIN count' -> Nat]
          /\ heap' \subseteq Blocks
          /\ DOMAIN blk' \subseteq Seq(Alphabet)
          /\ \A q \in DOMAIN blk' : Len(q) <= MaxTok
          /\ \A q \in DOMAIN count' : count'[q] > 0 => q # <<>>
      BY <3>1, <3>2, GraftTyped
    <3>4. TypeOK'
      BY <2>1, <2>2, <3>3 DEF Typed, TypeOK, Shape, Inside
    <3>5. Shape'
      BY <2>1, <3>3 DEF Typed, Shape, p
    <3> QED
      BY <3>4, <3>5 DEF Typed
  <2> QED
    BY <2>3, <2>4
<1>9. CASE TcAddCount
  <2>1. NextOrReturn /\ pc = "add" /\ depth + 1 = Len(word)
        /\ UNCHANGED <<ptr, output>>
    BY <1>9 DEF TcAddCount
  <2>2. /\ pc' \in {"idle", "add"} /\ depth' = 0
        /\ row' \in Rows \cup {<<>>} /\ Inside(row', cur')
        /\ word' \in Seq(Alphabet) /\ Len(word') <= MaxTok
        /\ Prefix(word', depth') = <<>>
    BY <2>1, NextOrReturnType
  <2>3. word \in Seq(Alphabet) /\ Len(word) <= MaxTok /\ word # <<>>
    BY <2>1, EmptyWord DEF Typed, TypeOK, Shape
  <2>4. /\ DOMAIN blk' = DOMAIN blk \cup {word}
        /\ DOMAIN count' = DOMAIN blk'
        /\ blk' \in [DOMAIN blk' -> Blocks] /\ count' \in [DOMAIN count' -> Nat]
        /\ heap' \subseteq Blocks
        /\ DOMAIN blk' \subseteq Seq(Alphabet)
        /\ \A q \in DOMAIN blk' : Len(q) <= MaxTok
        /\ \A q \in DOMAIN count' : count'[q] > 0 => q # <<>>
    <3>1. CASE word \in DOMAIN blk
      <4>1. count' = [count EXCEPT ![word] = @ + 1] /\ UNCHANGED <<blk, heap>>
        BY <1>9, <3>1 DEF TcAddCount
      <4>2. count \in [DOMAIN blk -> Nat] /\ DOMAIN blk = DOMAIN blk \cup {word}
            /\ DOMAIN count = DOMAIN blk
        BY <3>1 DEF Typed, TypeOK
      <4>3. count' \in [DOMAIN blk -> Nat] /\ DOMAIN count' = DOMAIN blk
            /\ \A q \in DOMAIN blk : q # word => count'[q] = count[q]
        BY <3>1, <4>1, <4>2
      <4> QED
        BY <2>3, <4>1, <4>2, <4>3 DEF Typed, TypeOK, Shape
    <3>2. CASE word \notin DOMAIN blk
      <4>1. HasRoom(heap) /\ blk' = Graft(blk, word, Fresh(heap))
            /\ count' = Graft(count, word, 1) /\ heap' = heap \cup {Fresh(heap)}
        BY <1>9, <3>2 DEF TcAddCount
      <4> QED
        BY <2>3, <4>1, GraftTyped
    <3> QED
      BY <3>1, <3>2
  <2>5. TypeOK'
    BY <2>1, <2>2, <2>4 DEF Typed, TypeOK, Shape
  <2>6. Shape'
    BY <2>1, <2>2, <2>4 DEF Typed, Shape
  <2> QED
    BY <2>5, <2>6 DEF Typed
<1>10. CASE \E p \in todo : TccPrepare(p) \/ TccWrite(p)
  <2>1. PICK p \in todo : TccPrepare(p) \/ TccWrite(p)
    BY <1>10
  <2>2. /\ Visit(p) /\ pc \in {"measure", "write"}
        /\ UNCHANGED <<pc, ptr, blk, heap, input, out, cap>>
    BY <2>1 DEF TccPrepare, TccWrite
  <2>3. /\ count' \in [DOMAIN count -> Nat]
        /\ DOMAIN count' = DOMAIN count
        /\ \A q \in DOMAIN count : count'[q] > 0 <=> count[q] > 0
        /\ Visible' = Visible /\ todo' \subseteq Visible /\ size' \in Nat
    BY <2>2, VisitType
  <2>4. TypeOK'
    BY <2>2, <2>3 DEF Typed, TypeOK, Inside
  <2>5. Shape'
    BY <2>2, <2>3 DEF Typed, Shape
  <2> QED
    BY <2>4, <2>5 DEF Typed
<1>11. CASE Allocate
  <2>1. Fresh(heap) \in Blocks
    BY <1>11, FreshType DEF Allocate
  <2>2. TypeOK'
    BY <1>11, <2>1 DEF Allocate, Typed, TypeOK, Visible, Inside
  <2>3. Shape'
    BY <1>11 DEF Allocate, Typed, Shape
  <2> QED
    BY <2>2, <2>3 DEF Typed
<1>12. CASE TagcloudReturn
  BY <1>12 DEF TagcloudReturn, Typed, TypeOK, Shape, Visible, Inside
<1>13. CASE UNCHANGED vars
  BY <1>13 DEF vars, Typed, TypeOK, Shape, Visible, Inside
<1> QED
  BY <1>1, <1>2, <1>3, <1>4, <1>5, <1>6, <1>7, <1>8, <1>9, <1>10, <1>11,
     <1>12, <1>13 DEF Next, Continue

LEMMA TypedAlways == Spec => []Typed
BY TypedInit, TypedNext, PTL DEF Spec

\* The locals and the data of every call of the aggregate are typed: no cursor
\* leaves its argument, no count or size is negative, every pass visits nodes.
THEOREM TypeCorrect == Spec => []TypeOK
<1>1. Typed => TypeOK
  BY DEF Typed
<1> QED
  BY <1>1, TypedAlways, PTL

LEMMA TypedHides == Typed => NothingHidden
<1> SUFFICES ASSUME Typed, NEW p \in DOMAIN count, count[p] > 0
             PROVE  p \in Visible
  BY DEF NothingHidden
<1>1. p \in Seq(Alphabet) /\ Len(p) <= MaxTok /\ p # <<>>
  BY DEF Typed, TypeOK, Shape
<1>2. Len(p) \in Nat \ {0}
  BY <1>1, EmptySeq
<1> QED
  BY <1>1, <1>2, TagCloudAssumption, MaxTokAssumption DEF Visible

\* No counted word is hidden by the depth limit of tcc_prepare and tcc_write,
\* whatever the rows are, because nextWord cuts every word first.
THEOREM HidesNothing == Spec => []NothingHidden
BY TypedAlways, TypedHides, PTL
-------------------------------------------------------------------------------
\* A level of tc_add that allocates a node keeps every block owned once.
LEMMA GraftSound ==
  ASSUME Typed, HeapSound, pc = "add", depth + 1 <= Len(word),
         HasRoom(heap), NEW p, p = Prefix(word, depth + 1), p \notin DOMAIN blk,
         blk' = Graft(blk, p, Fresh(heap)), heap' = heap \cup {Fresh(heap)},
         UNCHANGED <<ptr, out>>
  PROVE  HeapSound'
<1> DEFINE b == Fresh(heap)
<1>1. b \notin heap
  BY FreshType
<1>2. depth + 1 \in 1 .. Len(word) /\ word \in Seq(Alphabet) /\ depth \in Nat
  BY LevelType DEF Typed, TypeOK, Shape
<1>3. /\ ptr # Null /\ Prefix(word, (depth + 1) - 1) \in DOMAIN blk
      /\ DOMAIN blk \subseteq Seq(Alphabet)
  BY <1>2 DEF Typed, Shape
<1>4. IsTrie(blk) /\ b \notin BlocksOf(blk)
  BY <1>1, <1>3 DEF HeapSound
<1> HIDE DEF b
<1>5. IsTrie(Graft(blk, p, b)) /\ BlocksOf(Graft(blk, p, b)) = BlocksOf(blk) \cup {b}
  BY <1>2, <1>3, <1>4, GraftTrie
<1>6. blk' = Graft(blk, p, b) /\ heap' = heap \cup {b}
  BY DEF b
<1> QED
  BY <1>1, <1>3, <1>5, <1>6 DEF HeapSound

LEMMA HeapSoundNext == Typed /\ HeapSound /\ [Next]_vars => HeapSound'
<1> SUFFICES ASSUME Typed, HeapSound, [Next]_vars PROVE HeapSound'
  OBVIOUS
<1> USE DEF trie, input, output
<1>1. CASE TagcloudInit
  <2> DEFINE c == Fresh(heap)
             r == Fresh(heap \cup {c})
  <2>1. /\ ptr' = c /\ blk' = RootOnly(r) /\ heap' = heap \cup {c, r}
        /\ out' = Null /\ HasRoom(heap) /\ HasRoom(heap \cup {c})
    BY <1>1 DEF TagcloudInit
  <2>2. c \in Blocks /\ r \in Blocks /\ r # c
    BY <2>1, FreshType
  <2> HIDE DEF c, r
  <2> QED
    BY <2>1, <2>2, RootOnlyTrie DEF HeapSound
<1>2. CASE TagcloudInitFails
  BY <1>2 DEF TagcloudInitFails, HeapSound
<1>3. CASE TagcloudClear
  <2> DEFINE kept == (heap \ BelowRoot(blk)) \ {out}
             r == Fresh(kept)
  <2>1. /\ HasRoom(kept) /\ blk' = RootOnly(r) /\ heap' = kept \cup {r}
        /\ out' = Null /\ ptr' = ptr /\ ptr # Null
    BY <1>3 DEF TagcloudClear
  <2>2. r \notin kept
    BY <2>1, FreshType
  <2>3. BelowRoot(blk) \subseteq BlocksOf(blk)
    BY DEF BelowRoot, BlocksOf
  <2>4. ptr \in kept
    BY <2>1, <2>3 DEF HeapSound
  <2> HIDE DEF kept, r
  <2> QED
    BY <2>1, <2>2, <2>4, RootOnlyTrie DEF HeapSound
<1>4. CASE \E x \in Rows : TagcloudAdd(x)
  BY <1>4 DEF TagcloudAdd, HeapSound
<1>5. CASE TagcloudStart
  BY <1>5 DEF TagcloudStart, HeapSound
<1>6. CASE TagcloudDeinit
  <2>1. BlocksOf(NoTrie) = {}
    BY DEF BlocksOf, NoTrie
  <2>2. /\ heap' = heap \ {ptr} /\ ptr' = Null /\ blk' = NoTrie /\ out' = out
        /\ ptr # Null
    BY <1>6 DEF TagcloudDeinit
  <2> QED
    BY <2>1, <2>2 DEF HeapSound
<1>7. CASE SkipWord
  BY <1>7 DEF SkipWord, HeapSound
<1>8. CASE TcAddDescend
  <2> DEFINE p == Prefix(word, depth + 1)
  <2>1. /\ pc = "add" /\ depth + 1 < Len(word) /\ UNCHANGED <<ptr, out>>
        /\ depth + 1 <= Len(word)
    BY <1>8, LenProperties DEF TcAddDescend, Typed, TypeOK, Shape
  <2>2. CASE p \in DOMAIN blk
    BY <1>8, <2>2 DEF TcAddDescend, HeapSound
  <2>3. CASE p \notin DOMAIN blk
    <3>1. HasRoom(heap) /\ blk' = Graft(blk, p, Fresh(heap))
          /\ heap' = heap \cup {Fresh(heap)}
      BY <1>8, <2>3 DEF TcAddDescend
    <3> QED
      BY <2>1, <2>3, <3>1, GraftSound
  <2> QED
    BY <2>2, <2>3
<1>9. CASE TcAddCount
  <2>1. /\ pc = "add" /\ depth + 1 = Len(word) /\ UNCHANGED <<ptr, out>>
        /\ depth + 1 <= Len(word)
    BY <1>9, LenProperties DEF TcAddCount, Typed, TypeOK, Shape
  <2>2. word = Prefix(word, depth + 1)
    BY <2>1, LevelType
  <2>3. CASE word \in DOMAIN blk
    BY <1>9, <2>3 DEF TcAddCount, HeapSound
  <2>4. CASE word \notin DOMAIN blk
    <3>1. HasRoom(heap) /\ blk' = Graft(blk, word, Fresh(heap))
          /\ heap' = heap \cup {Fresh(heap)}
      BY <1>9, <2>4 DEF TcAddCount
    <3> QED
      BY <2>1, <2>2, <2>4, <3>1, GraftSound
  <2> QED
    BY <2>3, <2>4
<1>10. CASE \E p \in todo : TccPrepare(p) \/ TccWrite(p)
  BY <1>10 DEF TccPrepare, TccWrite, HeapSound
<1>11. CASE Allocate
  <2>1. Fresh(heap) \notin heap
    BY <1>11, FreshType DEF Allocate
  <2>2. /\ out' = Fresh(heap) /\ heap' = heap \cup {Fresh(heap)}
        /\ UNCHANGED <<ptr, blk>>
    BY <1>11 DEF Allocate
  <2>3. ptr = Null => out' # ptr
    BY <1>11, <2>2, FreshType, TagCloudAssumption DEF Allocate
  <2> QED
    BY <2>1, <2>2, <2>3 DEF HeapSound
<1>12. CASE TagcloudReturn
  <2>1. heap' = heap \ {out} /\ out' = Null /\ UNCHANGED <<ptr, blk>>
        /\ pc = "write"
    BY <1>12 DEF TagcloudReturn
  <2> QED
    BY <2>1, TagCloudAssumption DEF HeapSound, Typed, TypeOK
<1>13. CASE UNCHANGED vars
  BY <1>13 DEF vars, HeapSound
<1> QED
  BY <1>1, <1>2, <1>3, <1>4, <1>5, <1>6, <1>7, <1>8, <1>9, <1>10, <1>11,
     <1>12, <1>13 DEF Next, Continue

\* Every block the context, the trie or the output leads to is allocated and
\* has one owner, between any two steps of any sequence of calls.
THEOREM HeapIsSound == Spec => []HeapSound
<1>1. Init => HeapSound
  BY DEF Init, HeapSound, NoTrie, BlocksOf
<1>2. QED
  BY <1>1, TypedAlways, HeapSoundNext, PTL DEF Spec
-------------------------------------------------------------------------------
(***************************************************************************)
(* What goes out of reach.  HeapSound does not say that the pointers of a  *)
(* query are empty outside of it, which makes that nothing is lost when    *)
(* the next query overwrites them.                                         *)
(***************************************************************************)
NothingStale ==
  /\ ptr = Null => DOMAIN blk = {}
  /\ pc # "write" => out = Null
  /\ done \in [queries : Nat, clears : Nat, rows : Nat]

LEMMA NothingStaleNext == Typed /\ NothingStale /\ [Next]_vars => NothingStale'
<1> SUFFICES ASSUME Typed, NothingStale, [Next]_vars PROVE NothingStale'
  OBVIOUS
<1> USE DEF NothingStale
<1>1. CASE TagcloudInit
  <2>1. ptr' = Fresh(heap) /\ HasRoom(heap) /\ out' = Null /\ pc' = "idle"
    BY <1>1 DEF TagcloudInit
  <2>2. ptr' # Null
    BY <2>1, TagCloudAssumption DEF HasRoom, Fresh
  <2>3. done' \in [queries : Nat, clears : Nat, rows : Nat]
    BY <1>1 DEF TagcloudInit
  <2>4. QED
    BY <2>1, <2>2, <2>3
<1>2. CASE TagcloudInitFails \/ TagcloudDeinit
  BY <1>2 DEF TagcloudInitFails, TagcloudDeinit, trie, output, NoTrie
<1>3. CASE TagcloudClear
  BY <1>3 DEF TagcloudClear
<1>4. ASSUME NEW x \in Rows, TagcloudAdd(x) PROVE NothingStale'
  BY <1>4 DEF TagcloudAdd, trie, output
<1>5. CASE TagcloudStart
  BY <1>5 DEF TagcloudStart, trie
<1>6. CASE SkipWord
  BY <1>6 DEF SkipWord, NextOrReturn, trie, output
<1>7. CASE TcAddDescend \/ TcAddCount
  <2>1. ptr # Null /\ pc = "add"
    BY <1>7 DEF Typed, Shape, TcAddDescend, TcAddCount
  <2>2. ptr' = ptr /\ out' = out /\ done' = done /\ pc' \in {"add", "idle"}
    BY <1>7 DEF TcAddDescend, TcAddCount, NextOrReturn, output
  <2>3. QED
    BY <2>1, <2>2
<1>8. ASSUME NEW p \in todo, TccPrepare(p) \/ TccWrite(p) PROVE NothingStale'
  BY <1>8 DEF TccPrepare, TccWrite
<1>9. CASE Allocate
  BY <1>9 DEF Allocate, trie
<1>10. CASE TagcloudReturn
  BY <1>10 DEF TagcloudReturn, trie
<1>11. CASE UNCHANGED vars
  BY <1>11 DEF vars
<1>12. QED
  BY <1>1, <1>2, <1>3, <1>4, <1>5, <1>6, <1>7, <1>8, <1>9, <1>10, <1>11
  DEF Next, Continue

\* The blocks that a step puts out of reach.
Lost == (heap' \ Reachable') \ (heap \ Reachable)

LEMMA LosesNothing ==
  ASSUME heap' = heap, blk' = blk, ptr' = ptr, out' = out
  PROVE  Lost = {}
  BY DEF Lost, Reachable, BlocksOf

LEMMA StepLoses ==
  ASSUME Typed, NothingStale, Next
  PROVE  Lost \subseteq (IF ptr' = Null THEN BlocksOf(blk)
                        ELSE IF done'.clears > done.clears THEN {blk[<<>>]} ELSE {})
<1>1. CASE TagcloudInit
  <2>1. BlocksOf(blk) = {} /\ ptr = Null /\ out = Null
    BY <1>1 DEF TagcloudInit, NothingStale, BlocksOf
  <2>2. PICK c, r : heap' = heap \cup {c, r} /\ ptr' = c /\ blk' = RootOnly(r)
    BY <1>1 DEF TagcloudInit
  <2>3. BlocksOf(blk') = {r} /\ c # Null
    <3>1. c \in Blocks
      BY <1>1, <2>2 DEF TagcloudInit, HasRoom, Fresh
    <3>2. QED
      BY <2>2, <3>1, TagCloudAssumption DEF BlocksOf, RootOnly
  <2>4. Reachable' = {r, c} \cup ({out'} \ {Null})
    BY <2>2, <2>3 DEF Reachable, BlocksOf
  <2>5. QED
    BY <2>1, <2>2, <2>4 DEF Lost, Reachable
<1>2. CASE TagcloudInitFails
  BY <1>2, LosesNothing DEF TagcloudInitFails, trie, output
<1>3. CASE TagcloudClear
  <2>1. out = Null /\ ptr # Null /\ ptr' = ptr /\ done'.clears > done.clears
    BY <1>3 DEF TagcloudClear, NothingStale
  <2>2. PICK r : /\ blk' = RootOnly(r)
                 /\ heap' = ((heap \ BelowRoot(blk)) \ {out}) \cup {r}
    BY <1>3 DEF TagcloudClear
  <2>3. r \in Reachable' /\ ptr \in Reachable'
    BY <2>1, <2>2 DEF Reachable, BlocksOf, RootOnly
  <2>4. BlocksOf(blk) \ BelowRoot(blk) \subseteq {blk[<<>>]}
    BY DEF BlocksOf, BelowRoot
  <2>5. QED
    BY <2>1, <2>2, <2>3, <2>4 DEF Lost, Reachable
<1>4. ASSUME NEW x \in Rows, TagcloudAdd(x) PROVE Lost = {}
  BY <1>4, LosesNothing DEF TagcloudAdd, trie, output
<1>5. CASE TagcloudStart
  BY <1>5, LosesNothing DEF TagcloudStart, trie
<1>6. CASE SkipWord
  BY <1>6, LosesNothing DEF SkipWord, trie, output
<1>7. CASE TcAddDescend \/ TcAddCount
  <2>1. ptr' = ptr /\ out' = out
    BY <1>7 DEF TcAddDescend, TcAddCount, output
  <2>2. CASE heap' = heap /\ blk' = blk
    BY <2>1, <2>2, LosesNothing
  <2>3. CASE ~(heap' = heap /\ blk' = blk)
    <3>1. PICK p, b : heap' = heap \cup {b} /\ blk' = Graft(blk, p, b)
                      /\ p \notin DOMAIN blk
      BY <1>7, <2>3 DEF TcAddDescend, TcAddCount, trie
    <3>2. BlocksOf(blk') = BlocksOf(blk) \cup {b}
      BY <3>1 DEF BlocksOf, Graft
    <3>3. QED
      BY <2>1, <3>1, <3>2 DEF Lost, Reachable, BlocksOf
  <2>4. QED
    BY <2>2, <2>3
<1>8. ASSUME NEW p \in todo, TccPrepare(p) \/ TccWrite(p) PROVE Lost = {}
  BY <1>8, LosesNothing DEF TccPrepare, TccWrite
<1>9. CASE Allocate
  <2>1. /\ out = Null /\ blk' = blk /\ ptr' = ptr
        /\ heap' = heap \cup {out'} /\ out' \in Blocks
    BY <1>9 DEF Allocate, NothingStale, trie, HasRoom, Fresh
  <2>2. Reachable' = Reachable \cup {out'}
    BY <2>1, TagCloudAssumption DEF Reachable, BlocksOf
  <2>3. QED
    BY <2>1, <2>2 DEF Lost
<1>10. CASE TagcloudReturn
  <2>1. blk' = blk /\ ptr' = ptr /\ heap' = heap \ {out} /\ out' = Null
    BY <1>10 DEF TagcloudReturn, trie
  <2>2. QED
    BY <2>1 DEF Lost, Reachable, BlocksOf
<1>11. CASE TagcloudDeinit
  <2>1. heap' = heap \ {ptr} /\ ptr' = Null /\ out = Null
    BY <1>11 DEF TagcloudDeinit, NothingStale
  <2>2. QED
    BY <2>1 DEF Lost, Reachable
<1>12. QED
  BY <1>1, <1>2, <1>3, <1>4, <1>5, <1>6, <1>7, <1>8, <1>9, <1>10, <1>11
  DEF Next, Continue

\* No step of a query loses track of a block, except for what the code really
\* leaves behind: the root that tcc_clear replaces, and the trie that
\* tagcloud_deinit does not walk.
THEOREM ForgetsOnlyRoot == Spec => LosesOnlyRoot
<1>1. Init => NothingStale
  BY DEF Init, NothingStale, NoTrie
<1>2. Typed /\ NothingStale /\ [Next]_vars
        => [(heap' \ Reachable') \ (heap \ Reachable)
              \subseteq (IF ptr' = Null THEN BlocksOf(blk)
                        ELSE IF done'.clears > done.clears THEN {blk[<<>>]} ELSE {})
           ]_vars
  BY StepLoses DEF Lost
<1>3. QED
  BY <1>1, <1>2, TypedAlways, NothingStaleNext, PTL DEF Spec, LosesOnlyRoot

-------------------------------------------------------------------------------
(***************************************************************************)
(* tcc_prepare and tcc_write agree: the block that is allocated between    *)
(* the two passes is exactly as long as the text written into it, for      *)
(* every trie and every order of its children.                             *)
(***************************************************************************)

\* The nodes of the first k entries of plan, and the size after them.
Nodes(k) == {plan[j].node : j \in 1 .. k}
SizeAt(k) == IF k = 0 THEN 0 ELSE plan[k].size

Entry == [node : Seq(Alphabet), size : Nat]

(***************************************************************************)
(* plan records the measuring pass.  It is what a pass over the same trie  *)
(* does again, because a visit changes neither which nodes are visible nor *)
(* the counts that are shown.                                              *)
(***************************************************************************)
Planned ==
  /\ plan \in Seq(Entry)
  /\ \A i \in 1 .. Len(plan) :
       /\ plan[i].node \in Visible \ Nodes(i - 1)
       /\ plan[i].node = First(letter2id, Visible \ Nodes(i - 1))
       /\ plan[i].size = Grow(SizeAt(i - 1), plan[i].node)
  /\ \A i, j \in 0 .. Len(plan) : i <= j => SizeAt(i) <= SizeAt(j)

Measuring == /\ Planned
             /\ todo = Visible \ Nodes(Len(plan))
             /\ size = SizeAt(Len(plan))

Writing == /\ Planned
           /\ Visible \subseteq Nodes(Len(plan))
           /\ cap = SizeAt(Len(plan)) + 1
           /\ Len(text) \in 0 .. Len(plan)
           /\ todo = Visible \ Nodes(Len(text))
           /\ size = SizeAt(Len(text))

Passes == /\ text \in Seq(Seq(Alphabet) \X Nat)
          /\ pc # "write" => text = <<>>
          /\ pc = "measure" => Measuring
          /\ pc = "write" => Writing

LEMMA VisibleType == Typed => Visible \subseteq Seq(Alphabet)
BY DEF Typed, TypeOK, Shape, Visible

LEMMA SizeAtType ==
  ASSUME Planned, NEW k \in 0 .. Len(plan)
  PROVE  SizeAt(k) \in Nat
<1>1. CASE k = 0
  BY <1>1 DEF SizeAt
<1>2. CASE k # 0
  <2>1. k \in 1 .. Len(plan) /\ plan \in Seq(Entry)
    BY <1>2, LenProperties DEF Planned
  <2>2. plan[k] \in Entry
    BY <2>1, ElementOfSeq
  <2> QED
    BY <1>2, <2>2 DEF SizeAt, Entry
<1> QED
  BY <1>1, <1>2

\* A step that changes neither the trie nor the plan keeps it valid.
LEMMA PlanSame ==
  ASSUME Planned, UNCHANGED <<plan, count>>
  PROVE  /\ Planned' /\ Visible' = Visible
         /\ \A k : Nodes(k)' = Nodes(k) /\ SizeAt(k)' = SizeAt(k)
<1>1. \A k : Nodes(k)' = Nodes(k) /\ SizeAt(k)' = SizeAt(k)
  BY DEF Nodes, SizeAt
<1>2. Visible' = Visible
  BY DEF Visible
<1>3. \A n, p : Grow(n, p)' = Grow(n, p)
  BY DEF Grow
<1>4. \A i : Grow(SizeAt(i - 1), plan[i].node)' = Grow(SizeAt(i - 1), plan[i].node)
  BY <1>1 DEF Grow
<1>5. \A i : First(letter2id, Visible \ Nodes(i - 1))' = First(letter2id, Visible \ Nodes(i - 1))
  BY <1>1, <1>2
<1> QED
  BY <1>1, <1>2, <1>4, <1>5 DEF Planned

\* A visit leaves the plan valid for the trie as it is afterwards.
LEMMA PlanKept ==
  ASSUME Typed, Planned, NEW p \in todo, Visit(p), plan' = plan
  PROVE  Planned'
<1>1. /\ Visible' = Visible
      /\ \A q \in Visible : Shown(count'[q]) = Shown(count[q])
  BY VisitType DEF Visible
<1>2. \A k : Nodes(k)' = Nodes(k) /\ SizeAt(k)' = SizeAt(k)
  BY DEF Nodes, SizeAt
<1>3. \A i \in 1 .. Len(plan) : /\ plan[i].node \in Visible
                                /\ plan[i].size = Grow(SizeAt(i - 1), plan[i].node)
  BY DEF Planned
<1>4. \A i \in 1 .. Len(plan) :
        Grow(SizeAt(i - 1), plan[i].node)' = Grow(SizeAt(i - 1), plan[i].node)
  BY <1>1, <1>2, <1>3 DEF Grow
<1>5. \A i \in 1 .. Len(plan)' :
         /\ plan[i].node' \in Visible' \ Nodes(i - 1)'
         /\ plan[i].node' = First(letter2id, Visible \ Nodes(i - 1))'
         /\ plan[i].size' = Grow(SizeAt(i - 1), plan[i].node)'
  BY <1>1, <1>2, <1>4 DEF Planned
<1> QED
  BY <1>2, <1>5 DEF Planned

\* The measuring pass visits the next node and writes it down.
LEMMA MeasureStep ==
  ASSUME Typed, Measuring, NEW p \in todo, TccPrepare(p)
  PROVE  Measuring'
<1>0. PICK n \in Nat : n = Len(plan)
  BY LenProperties DEF Measuring, Planned
<1> DEFINE e == [node |-> p, size |-> Grow(size, p)]
<1>1. Visit(p) /\ plan' = Append(plan, e)
  BY DEF TccPrepare
<1>2. plan \in Seq(Entry) /\ n \in Nat /\ Planned /\ size = SizeAt(n)
      /\ todo = Visible \ Nodes(n)
  BY <1>0 DEF Measuring, Planned
<1>3. p \in Visible /\ p \in Seq(Alphabet) /\ size \in Nat /\ TypeOK
  BY <1>2, VisibleType DEF Typed, TypeOK
<1>4. Grow(size, p) \in Nat /\ Grow(size, p) > size
  BY <1>3, GrowType
<1>5. e \in Entry
  BY <1>3, <1>4 DEF Entry
<1>6. /\ plan' \in Seq(Entry) /\ Len(plan') = n + 1
      /\ plan'[n + 1] = e /\ \A i \in 1 .. n : plan'[i] = plan[i]
  BY <1>0, <1>1, <1>2, <1>5
<1>7. /\ Visible' = Visible
      /\ \A q \in Visible : Shown(count'[q]) = Shown(count[q])
  BY <1>1, VisitType DEF Visible
<1>8. \A k \in 0 .. n : Nodes(k)' = Nodes(k) /\ SizeAt(k)' = SizeAt(k)
  BY <1>2, <1>6 DEF Nodes, SizeAt
<1>9. Nodes(n + 1)' = Nodes(n) \cup {p} /\ SizeAt(n + 1)' = Grow(size, p)
  <2>1. \A j \in 1 .. (n + 1) : j = n + 1 \/ j \in 1 .. n
    BY <1>2
  <2>2. plan'[n + 1].node = p /\ plan'[n + 1].size = Grow(size, p)
    BY <1>6
  <2>3. {plan'[j].node : j \in 1 .. (n + 1)} = {plan[j].node : j \in 1 .. n} \cup {p}
    BY <1>2, <1>6, <2>1, <2>2
  <2>4. Nodes(n + 1)' = Nodes(n) \cup {p}
    BY <2>3 DEF Nodes
  <2>5. SizeAt(n + 1)' = Grow(size, p)
    BY <1>2, <2>2 DEF SizeAt
  <2> QED
    BY <2>4, <2>5
<1>10. p = First(letter2id, todo) /\ todo' = todo \ {p} /\ size' = Grow(size, p)
  BY <1>1 DEF Visit
<1> HIDE DEF e
<1>11. \A i \in 1 .. n :
         /\ plan'[i].node \in Visible' \ Nodes(i - 1)'
         /\ plan'[i].node = First(letter2id, Visible \ Nodes(i - 1))'
         /\ plan'[i].size = Grow(SizeAt(i - 1), plan[i].node)'
  <2> TAKE i \in 1 .. n
  <2>1. i - 1 \in 0 .. n /\ plan'[i] = plan[i]
    BY <1>2, <1>6
  <2>2. /\ plan[i].node \in Visible \ Nodes(i - 1)
        /\ plan[i].node = First(letter2id, Visible \ Nodes(i - 1))
        /\ plan[i].size = Grow(SizeAt(i - 1), plan[i].node)
    BY <1>0, <1>2 DEF Planned
  <2>3. Nodes(i - 1)' = Nodes(i - 1) /\ SizeAt(i - 1)' = SizeAt(i - 1)
    BY <1>8, <2>1
  <2>4. Grow(SizeAt(i - 1), plan[i].node)' = Grow(SizeAt(i - 1), plan[i].node)
    BY <1>7, <2>1, <2>2, <2>3 DEF Grow
  <2> QED
    BY <1>7, <2>1, <2>2, <2>3, <2>4
<1>12. /\ plan'[n + 1].node \in Visible' \ Nodes(n)'
       /\ plan'[n + 1].node = First(letter2id, Visible \ Nodes(n))'
       /\ plan'[n + 1].size = Grow(SizeAt(n), plan[n + 1].node)'
  <2>1. plan'[n + 1].node = p /\ plan'[n + 1].size = Grow(size, p)
    BY <1>6 DEF e
  <2>2. n \in 0 .. n
    BY <1>2
  <2>3. Nodes(n)' = Nodes(n) /\ SizeAt(n)' = size
    BY <1>2, <1>8, <2>2
  <2>4. Grow(SizeAt(n), plan[n + 1].node)' = Grow(size, p)
    BY <1>3, <1>7, <2>1, <2>3 DEF Grow
  <2> QED
    BY <1>2, <1>7, <1>10, <2>1, <2>3, <2>4
<1>13. \A i, j \in 0 .. (n + 1) : i <= j => SizeAt(i)' <= SizeAt(j)'
  <2>1. \A i, j \in 0 .. n : i <= j => SizeAt(i) <= SizeAt(j)
    BY <1>0, <1>2 DEF Planned
  <2>2. \A i \in 0 .. n : SizeAt(i) \in Nat
    BY <1>0, <1>2, SizeAtType
  <2>3. \A i \in 0 .. n : SizeAt(i) <= size
    BY <1>2, <2>1
  <2>4. \A i \in 0 .. n : SizeAt(i)' = SizeAt(i) /\ SizeAt(i)' <= SizeAt(n + 1)'
    BY <1>3, <1>4, <1>8, <1>9, <2>2, <2>3
  <2>5. \A i \in 0 .. (n + 1) : i = n + 1 \/ i \in 0 .. n
    BY <1>2
  <2> QED
    BY <1>2, <1>4, <1>9, <2>1, <2>4, <2>5
<1>14. Planned'
  <2>1. \A i \in 1 .. (n + 1) : i = n + 1 \/ i \in 1 .. n
    BY <1>2
  <2>2. \A i \in 1 .. (n + 1) :
          /\ plan'[i].node \in Visible' \ Nodes(i - 1)'
          /\ plan'[i].node = First(letter2id, Visible \ Nodes(i - 1))'
          /\ plan'[i].size = Grow(SizeAt(i - 1), plan[i].node)'
    <3> TAKE i \in 1 .. (n + 1)
    <3>1. CASE i \in 1 .. n
      BY <1>11, <3>1
    <3>2. CASE i = n + 1
      <4>1. i - 1 = n
        BY <1>2, <3>2
      <4> QED
        BY <1>12, <3>2, <4>1
    <3> QED
      BY <2>1, <3>1, <3>2
  <2> QED
    BY <1>6, <1>13, <2>2 DEF Planned
<1>15. todo' = Visible' \ Nodes(n + 1)' /\ size' = SizeAt(n + 1)'
  BY <1>2, <1>7, <1>9, <1>10
<1> QED
  BY <1>6, <1>14, <1>15 DEF Measuring
-------------------------------------------------------------------------------
\* What is planned after k words is what the writing pass reaches next.
LEMMA NextPlanned ==
  ASSUME Typed, Writing, NEW p \in todo, Visit(p)
  PROVE  /\ Len(text) + 1 \in 1 .. Len(plan)
         /\ plan[Len(text) + 1].node = p
         /\ todo' = Visible \ Nodes(Len(text) + 1)
         /\ size' = SizeAt(Len(text) + 1)
<1> DEFINE k == Len(text)
<1>1. /\ Len(plan) \in Nat /\ k \in 0 .. Len(plan) /\ Planned
      /\ Visible \subseteq Nodes(Len(plan))
      /\ todo = Visible \ Nodes(k) /\ size = SizeAt(k)
  BY LenProperties DEF Writing, Planned
<1> HIDE DEF k
<1>2. k # Len(plan)
  BY <1>1
<1>3. k + 1 \in 1 .. Len(plan) /\ (k + 1) - 1 = k
  BY <1>1, <1>2
<1>4. /\ plan[k + 1].node = First(letter2id, todo)
      /\ plan[k + 1].size = Grow(size, plan[k + 1].node)
  BY <1>1, <1>3 DEF Planned
<1>5. p = First(letter2id, todo) /\ todo' = todo \ {p} /\ size' = Grow(size, p)
  BY DEF Visit
<1>6. SizeAt(k + 1) = plan[k + 1].size
  BY <1>1 DEF SizeAt
<1>7. Nodes(k + 1) = Nodes(k) \cup {p}
  <2>1. \A j \in 1 .. (k + 1) : j = k + 1 \/ j \in 1 .. k
    BY <1>1
  <2>2. plan[k + 1].node = p
    BY <1>4, <1>5
  <2> QED
    BY <1>1, <2>1, <2>2 DEF Nodes
<1>8. /\ k + 1 \in 1 .. Len(plan) /\ plan[k + 1].node = p
      /\ todo' = Visible \ Nodes(k + 1) /\ size' = SizeAt(k + 1)
  BY <1>1, <1>3, <1>4, <1>5, <1>6, <1>7
<1> QED
  BY <1>8 DEF k

LEMMA WriteStep ==
  ASSUME Typed, Writing, text \in Seq(Seq(Alphabet) \X Nat),
         NEW p \in todo, TccWrite(p)
  PROVE  Writing' /\ text' \in Seq(Seq(Alphabet) \X Nat)
<1>0. PICK k \in Nat : k = Len(text)
  BY LenProperties
<1>1. /\ Visit(p) /\ plan' = plan /\ cap' = cap
      /\ text' = Append(text, <<p, Shown(count[p])>>)
  BY DEF TccWrite
<1>2. /\ k + 1 \in 1 .. Len(plan)
      /\ todo' = Visible \ Nodes(k + 1) /\ size' = SizeAt(k + 1)
  BY <1>0, <1>1, NextPlanned
<1>3. Planned' /\ Visible' = Visible
  BY <1>1, PlanKept, VisitType DEF Writing
<1>4. \A j : Nodes(j)' = Nodes(j) /\ SizeAt(j)' = SizeAt(j)
  BY <1>1 DEF Nodes, SizeAt
<1>5. p \in Seq(Alphabet) /\ count[p] \in Nat
  BY VisibleType DEF Typed, TypeOK, Visible
<1>6. <<p, Shown(count[p])>> \in Seq(Alphabet) \X Nat
  BY <1>5, ShownType
<1>7. text' \in Seq(Seq(Alphabet) \X Nat) /\ Len(text') = k + 1
  BY <1>0, <1>1, <1>6
<1>8. /\ Visible' \subseteq Nodes(Len(plan))'
      /\ cap' = SizeAt(Len(plan))' + 1
      /\ Len(text)' \in 0 .. Len(plan)'
  BY <1>1, <1>2, <1>3, <1>4, <1>7 DEF Writing
<1>9. todo' = Visible' \ Nodes(Len(text))' /\ size' = SizeAt(Len(text))'
  BY <1>1, <1>2, <1>3, <1>7 DEF Nodes, SizeAt
<1> QED
  BY <1>3, <1>7, <1>8, <1>9 DEF Writing

\* Steps that touch neither pass.
LEMMA PassesIdle ==
  ASSUME Passes, pc \notin {"measure", "write"}, pc' \notin {"measure", "write"},
         text' = text
  PROVE  Passes'
BY DEF Passes

LEMMA PassesNext == Typed /\ Passes /\ [Next]_vars => Passes'
<1> SUFFICES ASSUME Typed, Passes, [Next]_vars PROVE Passes'
  OBVIOUS
<1> USE DEF trie, input, output
<1>1. CASE TagcloudInit \/ TagcloudInitFails \/ TagcloudClear \/ TagcloudDeinit
  BY <1>1, PassesIdle
     DEF TagcloudInit, TagcloudInitFails, TagcloudClear, TagcloudDeinit
<1>2. CASE \E x \in Rows : TagcloudAdd(x)
  BY <1>2, PassesIdle DEF TagcloudAdd
<1>3. CASE SkipWord \/ TcAddCount
  <2>1. pc = "add" /\ NextOrReturn /\ text' = text
    BY <1>3 DEF SkipWord, TcAddCount
  <2>2. pc' \in {"idle", "add"}
    BY <2>1, NextOrReturnType
  <2> QED
    BY <2>1, <2>2, PassesIdle
<1>4. CASE TcAddDescend
  BY <1>4, PassesIdle DEF TcAddDescend
<1>5. CASE TagcloudStart
  <2>1. /\ pc' = "measure" /\ plan' = <<>> /\ size' = 0 /\ todo' = Visible'
        /\ text' = text /\ pc = "idle"
    BY <1>5 DEF TagcloudStart, Visible
  <2>2. /\ plan' \in Seq(Entry) /\ Len(plan') = 0
    BY <2>1, EmptyWord
  <2>3. Nodes(0)' = {} /\ SizeAt(0)' = 0
    BY DEF Nodes, SizeAt
  <2>4. Planned'
    BY <2>2, <2>3 DEF Planned
  <2>5. todo' = Visible' \ Nodes(Len(plan))' /\ size' = SizeAt(Len(plan))'
    BY <2>1, <2>2, <2>3 DEF Nodes, SizeAt
  <2>6. Measuring'
    BY <2>4, <2>5 DEF Measuring
  <2> QED
    BY <2>1, <2>6 DEF Passes
<1>6. CASE \E p \in todo : TccPrepare(p)
  <2>1. PICK p \in todo : TccPrepare(p)
    BY <1>6
  <2>2. pc = "measure" /\ pc' = pc /\ text' = text
    BY <2>1 DEF TccPrepare
  <2>3. Measuring'
    BY <2>1, <2>2, MeasureStep DEF Passes
  <2> QED
    BY <2>2, <2>3 DEF Passes
<1>7. CASE \E p \in todo : TccWrite(p)
  <2>1. PICK p \in todo : TccWrite(p)
    BY <1>7
  <2>2. pc = "write" /\ pc' = pc
    BY <2>1 DEF TccWrite
  <2>3. Writing' /\ text' \in Seq(Seq(Alphabet) \X Nat)
    BY <2>1, <2>2, WriteStep DEF Passes
  <2> QED
    BY <2>2, <2>3 DEF Passes
<1>8. CASE Allocate
  <2>1. /\ pc = "measure" /\ pc' = "write" /\ todo = {} /\ cap' = size + 1
        /\ size' = 0 /\ todo' = Visible
        /\ UNCHANGED <<plan, text, blk, count>>
    BY <1>8 DEF Allocate
  <2>2. Measuring /\ text' = <<>> /\ Len(text') = 0
    BY <2>1, EmptyWord DEF Passes
  <2>3. Planned' /\ Visible' = Visible /\ Len(plan) \in Nat
    BY <2>1, <2>2, PlanSame, LenProperties DEF Measuring, Planned
  <2>4. /\ Visible' \subseteq Nodes(Len(plan))'
        /\ cap' = SizeAt(Len(plan))' + 1
    BY <2>1, <2>2, <2>3 DEF Measuring, Nodes, SizeAt
  <2>5. todo' = Visible' \ Nodes(Len(text))' /\ size' = SizeAt(Len(text))'
    BY <2>1, <2>2, <2>3 DEF Nodes, SizeAt
  <2>6. Writing'
    BY <2>1, <2>2, <2>3, <2>4, <2>5 DEF Writing
  <2> QED
    BY <2>1, <2>6 DEF Passes
<1>9. CASE TagcloudReturn
  <2>1. pc' = "idle" /\ text' = <<>>
    BY <1>9 DEF TagcloudReturn
  <2> QED
    BY <2>1, EmptyWord DEF Passes
<1>10. CASE UNCHANGED vars
  <2>1. UNCHANGED <<pc, text, todo, size, cap, plan, count>>
    BY <1>10 DEF vars
  <2>2. pc = "measure" => Measuring'
    <3> SUFFICES ASSUME Measuring PROVE Measuring'
      BY DEF Passes
    <3>1. Planned' /\ Visible' = Visible
      BY <2>1, PlanSame DEF Measuring
    <3> QED
      BY <2>1, <3>1 DEF Measuring, Nodes, SizeAt
  <2>3. pc = "write" => Writing'
    <3> SUFFICES ASSUME Writing PROVE Writing'
      BY DEF Passes
    <3>1. Planned' /\ Visible' = Visible
      BY <2>1, PlanSame DEF Writing
    <3> QED
      BY <2>1, <3>1 DEF Writing, Nodes, SizeAt
  <2> QED
    BY <2>1, <2>2, <2>3 DEF Passes
<1> QED
  BY <1>1, <1>2, <1>3, <1>4, <1>5, <1>6, <1>7, <1>8, <1>9, <1>10
     DEF Next, Continue

\* tcc_write stays inside the block that tcc_prepare has measured, and in the
\* end the length given to the server is the length of the text.
THEOREM ReplyIsMeasured == Spec => []ReplyFits
<1>1. Init => Passes
  BY EmptyWord DEF Init, Passes
<1>2. Typed /\ Passes => ReplyFits
  <2> SUFFICES ASSUME Typed, Passes, pc = "write"
               PROVE  size + 1 <= cap /\ (todo = {} => size + 1 = cap)
    BY DEF ReplyFits
  <2> DEFINE k == Len(text)
             n == Len(plan)
  <2>1. /\ Planned /\ n \in Nat /\ k \in 0 .. n /\ cap = SizeAt(n) + 1
        /\ size = SizeAt(k) /\ todo = Visible \ Nodes(k)
    BY LenProperties DEF Passes, Writing, Planned
  <2>2. SizeAt(k) <= SizeAt(n) /\ SizeAt(k) \in Nat /\ SizeAt(n) \in Nat
    <3>1. n \in 0 .. n /\ k <= n
      BY <2>1
    <3>2. SizeAt(k) <= SizeAt(n)
      BY <2>1, <3>1 DEF Planned
    <3> QED
      BY <2>1, <3>1, <3>2, SizeAtType
  <2>3. todo = {} => k = n
    <3> SUFFICES ASSUME k # n PROVE todo # {}
      OBVIOUS
    <3>1. k + 1 \in 1 .. n /\ (k + 1) - 1 = k
      BY <2>1
    <3>2. plan[k + 1].node \in Visible \ Nodes(k)
      BY <2>1, <3>1 DEF Planned
    <3> QED
      BY <2>1, <3>2
  <2> QED
    BY <2>1, <2>2, <2>3
<1> QED
  BY <1>1, <1>2, TypedAlways, PassesNext, PTL DEF Spec
-------------------------------------------------------------------------------
(***************************************************************************)
(* What tagcloud counts.  The words of a row behind a cursor are the one   *)
(* that nextWord reads there and those behind the cursor it leaves.        *)
(***************************************************************************)
LEMMA SameCardinality ==
  ASSUME NEW T
  PROVE  Words!Cardinality(T) = Cardinality(T) /\ Abstract!Cardinality(T) = Cardinality(T)
BY DEF Words!Cardinality, Abstract!Cardinality, Cardinality,
       Words!IsFiniteSet, Abstract!IsFiniteSet, IsFiniteSet

LEMMA RunLenIs ==
  ASSUME NEW S, NEW x \in Seq(S), NEW i \in 1 .. Len(x), NEW e, Ends(x, i, e)
  PROVE  Words!RunLen(x, i) = e - i
<1> DEFINE T == {j \in i .. Len(x) : \A k \in i .. j : x[k] \notin Sep}
<1>1. Len(x) \in Nat /\ e \in i .. Len(x) + 1
  BY LenProperties DEF Ends
<1>2. T = i .. e - 1
  <2>1. ASSUME NEW j \in i .. Len(x), \A k \in i .. j : x[k] \notin Sep PROVE j \in i .. e - 1
    <3>1. ~(e \in i .. j)
      BY <1>1, <2>1 DEF Ends
    <3> QED
      BY <1>1, <3>1
  <2>2. ASSUME NEW j \in i .. e - 1 PROVE j \in i .. Len(x) /\ \A k \in i .. j : x[k] \notin Sep
    BY <1>1 DEF Ends
  <2> QED
    BY <2>1, <2>2
<1>3. Words!RunLen(x, i) = Words!Cardinality(T)
  BY Zenon DEF Words!RunLen
<1> HIDE DEF T
<1>4. Cardinality(i .. e - 1) = IF i > e - 1 THEN 0 ELSE (e - 1) - i + 1
  BY <1>1, FS_Interval
<1>5. Words!RunLen(x, i) = Cardinality(i .. e - 1)
  BY <1>2, <1>3, SameCardinality
<1> QED
  BY <1>1, <1>4, <1>5

\* The runs that are read from a cursor on.
Behind(x, c) == IF c.len = 0 THEN {} ELSE Words!ReadRuns(x, c.pos + 1)

\* A cursor up to which everything has been read.
Reads(x, c) == Inside(x, c) /\ (c.len > 0 => c.pos + c.len = Len(x))

LEMMA BehindType ==
  ASSUME NEW S, NEW x \in Seq(S), NEW c, Inside(x, c)
  PROVE  /\ Behind(x, c) \subseteq c.pos + 1 .. Len(x)
         /\ IsFiniteSet(Behind(x, c))
<1>1. Len(x) \in Nat /\ c.pos \in Nat
  BY LenProperties DEF Inside
<1>2. Behind(x, c) \subseteq c.pos + 1 .. Len(x)
  BY <1>1 DEF Behind, Words!ReadRuns, Words!Runs
<1>3. IsFiniteSet(c.pos + 1 .. Len(x))
  BY <1>1, FS_Interval
<1> QED
  BY <1>2, <1>3, FS_Subset

\* Behind the end of a run that is not too long the same runs are read.
LEMMA RunsBehind ==
  ASSUME NEW S, NEW x \in Seq(S), NEW p \in 1 .. Len(x), NEW e, Ends(x, p, e),
         e <= Len(x), e - p < MaxTok
  PROVE  Words!ReadRuns(x, p) = (IF e = p THEN {} ELSE {p}) \cup Words!ReadRuns(x, e + 1)
<1> DEFINE R == Words!Runs(x, p)
           Q == Words!Runs(x, e + 1)
<1>1. /\ Len(x) \in Nat /\ p \in Nat /\ p >= 1 /\ e \in Nat /\ p <= e
      /\ x[e] \in Sep /\ \A k \in p .. e - 1 : x[k] \notin Sep
      /\ e <= Len(x)
  BY LenProperties DEF Ends
<1>2. Q \subseteq e + 1 .. Len(x)
  BY DEF Words!Runs
<1>3. ASSUME NEW j \in e + 1 .. Len(x) PROVE j \in R <=> j \in Q
  <2>1. j \in p .. Len(x) /\ j # p /\ (j = e + 1 => x[j - 1] \in Sep)
    BY <1>1
  <2> QED
    BY <2>1 DEF Words!Runs
<1>4. ASSUME NEW j \in p .. e PROVE j \in R <=> j = p /\ e # p
  <2>1. CASE j = e /\ e # p
    BY <1>1, <2>1 DEF Words!Runs
  <2>2. CASE j = e /\ e = p
    BY <1>1, <2>2 DEF Words!Runs
  <2>3. CASE j = p /\ j # e
    <3>1. x[p] \notin Sep /\ p \in p .. Len(x)
      BY <1>1, <2>3
    <3> QED
      BY <2>3, <3>1 DEF Words!Runs
  <2>4. CASE j # p /\ j # e
    <3>1. j - 1 \in p .. e - 1
      BY <1>1, <2>4
    <3>2. x[j - 1] \notin Sep
      BY <1>1, <3>1
    <3> QED
      BY <2>4, <3>2 DEF Words!Runs
  <2> QED
    BY <2>1, <2>2, <2>3, <2>4
<1>5. R \subseteq p .. Len(x)
  BY DEF Words!Runs
<1>6. R = (IF e = p THEN {} ELSE {p}) \cup Q
  <2>1. ASSUME NEW j \in R PROVE j \in (IF e = p THEN {} ELSE {p}) \cup Q
    <3>1. j \in p .. e \/ j \in e + 1 .. Len(x)
      BY <1>1, <1>5
    <3> QED
      BY <1>3, <1>4, <3>1
  <2>2. e # p => p \in R
    BY <1>1, <1>4
  <2>3. Q \subseteq R
    BY <1>2, <1>3
  <2> QED
    BY <2>1, <2>2, <2>3
<1>7. Words!RunLen(x, p) < MaxTok
  BY <1>1, RunLenIs
<1>8. \A k \in Q : p < k
  BY <1>1, <1>2
<1>9. /\ Words!ReadRuns(x, p) = {i \in R : \A k \in R : k < i => Words!RunLen(x, k) < MaxTok}
      /\ Words!ReadRuns(x, e + 1) = {i \in Q : \A k \in Q : k < i => Words!RunLen(x, k) < MaxTok}
  BY Zenon DEF Words!ReadRuns
<1> HIDE DEF R, Q
<1>10. ASSUME NEW i \in Q
       PROVE  (\A k \in R : k < i => Words!RunLen(x, k) < MaxTok)
                <=> (\A k \in Q : k < i => Words!RunLen(x, k) < MaxTok)
  BY <1>6, <1>7
<1>11. ASSUME NEW k \in R PROVE ~(k < p)
  <2>0. k = p \/ k \in Q
    BY <1>6
  <2>0a. k \in Q => k \in e + 1 .. Len(x)
    BY <1>2
  <2>1. k \in Nat /\ (k = p \/ k > e)
    BY <1>1, <2>0, <2>0a
  <2> QED
    BY <1>1, <2>1
<1> QED
  BY <1>6, <1>9, <1>10, <1>11

\* A run without an end in the buffer is the last one that is read.
LEMMA LastRun ==
  ASSUME NEW S, NEW x \in Seq(S), NEW p \in 1 .. Len(x), NEW e, Ends(x, p, e), e # p,
         e = Len(x) + 1 \/ e - p >= MaxTok
  PROVE  Words!ReadRuns(x, p) = {p}
<1> DEFINE R == Words!Runs(x, p)
<1>1. /\ Len(x) \in Nat /\ p \in Nat /\ e \in Nat /\ p < e /\ e <= Len(x) + 1
      /\ \A k \in p .. e - 1 : x[k] \notin Sep
  BY LenProperties DEF Ends
<1>2. p \in R /\ R \subseteq p .. Len(x)
  BY <1>1 DEF Words!Runs
<1>3. ASSUME NEW j \in R, j # p PROVE j > e
  <2>1. x[j - 1] \in Sep /\ j \in p .. Len(x)
    BY <1>3 DEF Words!Runs
  <2>2. j - 1 \notin p .. e - 1
    BY <1>1, <2>1
  <2> QED
    BY <1>1, <1>3, <2>1, <2>2
<1>4. Words!RunLen(x, p) = e - p
  BY RunLenIs
<1>5. Words!ReadRuns(x, p) = {i \in R : \A k \in R : k < i => Words!RunLen(x, k) < MaxTok}
  BY Zenon DEF Words!ReadRuns
<1> HIDE DEF R
<1>6. ASSUME NEW i \in R, \A k \in R : k < i => Words!RunLen(x, k) < MaxTok PROVE i = p
  <2>1. SUFFICES ASSUME i # p PROVE FALSE
    OBVIOUS
  <2>2. i > e /\ i \in p .. Len(x) /\ p < i
    BY <1>1, <1>2, <1>3, <2>1
  <2>3. e - p < MaxTok
    BY <1>2, <1>4, <1>6, <2>2
  <2> QED
    BY <1>1, <2>2, <2>3, MaxTokAssumption
<1>7. \A k \in R : ~(k < p)
  BY <1>1, <1>2
<1> QED
  BY <1>2, <1>5, <1>6, <1>7

LEMMA CharsAre ==
  ASSUME NEW S, NEW x \in Seq(S), NEW c, Inside(x, c), NEW i \in 0 .. c.len
  PROVE  /\ Chars(x, c, i) \in Seq(S) /\ Len(Chars(x, c, i)) = i
         /\ \A k \in 1 .. i : Chars(x, c, i)[k] = x[(c.pos + 1) + k - 1]
<1>1. c.pos \in Nat /\ c.len \in Nat /\ c.pos + i <= Len(x)
  BY DEF Inside
<1>2. \A j \in (c.pos + 1) .. (c.pos + i) : x[j] \in S
  BY <1>1, ElementOfSeq, LenProperties
<1> QED
  BY <1>1, <1>2, SubSeqProperties DEF Chars

\* The word of the characters that were read.
LEMMA WordIs ==
  ASSUME NEW S, NEW x \in Seq(S), NEW c, Inside(x, c), NEW b \in 0 .. c.len,
         b = Words!Lower(Words!RunLen(x, c.pos + 1), MaxTok)
  PROVE  LET tok == Chars(x, c, b)
         IN  /\ Word(tok) = Words!WordAt(x, c.pos + 1)
             /\ Word(tok) = <<>> <=> b = 0
<1> DEFINE tok == Chars(x, c, b)
           T == {LetterOf(tok[k]) : k \in 1 .. b}
           p == c.pos + 1
<1>1. Len(tok) = b /\ \A k \in 1 .. b : tok[k] = x[p + k - 1]
  BY CharsAre
<1>2. b \in Nat
  BY DEF Inside
<1> HIDE DEF tok, T
<1>3. Words!WordAt(x, p) = [k \in 1 .. b |-> Words!LetterOf(x[p + k - 1])]
  BY Zenon DEF Words!WordAt
<1>4. Word(tok) = [k \in 1 .. b |-> LetterOf(tok[k])]
  BY <1>1 DEF Word
<1> HIDE DEF p
<1>5. \A k \in 1 .. b : LetterOf(tok[k]) = Words!LetterOf(x[p + k - 1])
  BY <1>1 DEF LetterOf, Words!LetterOf
<1>6. Word(tok) = Words!WordAt(x, p)
  BY <1>3, <1>4, <1>5
<1>7. Word(tok) \in [1 .. b -> T]
  BY <1>4 DEF T
<1>8. Word(tok) \in Seq(T)
  BY <1>2, <1>7, SeqDef
<1>9. Len(Word(tok)) = b
  BY <1>2, <1>4, <1>8, LenProperties
<1> QED
  BY <1>6, <1>8, <1>9, EmptySeq DEF tok, p

\* nextWord reads the run at its cursor, as the word it stands for, or comes
\* past a separator.
LEMMA ReadWord ==
  ASSUME NEW S, NEW x \in Seq(S), NEW c, Reads(x, c), c.len > 0
  PROVE  LET r == NextWord(x, c)
             w == Word(r.tok)
         IN  /\ r.avail /\ Reads(x, r.cur)
             /\ r.cur.len # 0 => r.cur.pos >= c.pos + 1
             /\ w = <<>> => Behind(x, c) = Behind(x, r.cur)
             /\ w # <<>> => /\ Behind(x, c) = {c.pos + 1} \cup Behind(x, r.cur)
                            /\ Words!WordAt(x, c.pos + 1) = w
<1> DEFINE r == NextWord(x, c)
           w == Word(r.tok)
<1>1. PICK a \in Nat, l \in Nat, n \in Nat : a = c.pos /\ l = c.len /\ n = Len(x)
  BY LenProperties DEF Reads, Inside
<1>2. PICK p \in Nat : p = a + 1 /\ p = c.pos + 1 /\ p \in 1 .. Len(x) /\ p <= n /\ a + l = n
  BY <1>1 DEF Reads
<1>3. PICK e : Ends(x, p, e)
  BY <1>2, EndExists
<1>4. e \in Nat /\ p <= e /\ e <= n + 1
  BY <1>1, <1>2, <1>3 DEF Ends
<1>5. PICK m \in Nat : m = e - p /\ e = p + m /\ m = e - (c.pos + 1)
  BY <1>1, <1>2, <1>4
<1>5a. n - e = l - (m + 1) /\ (e <= n => m <= l)
  BY <1>2, <1>5
<1>6. /\ Inside(x, c) /\ c.len > 0 /\ c.pos + c.len = Len(x) /\ Ends(x, c.pos + 1, e)
      /\ Bound(c.len) # 0 /\ Bound(c.len) \in Nat /\ Bound(c.len) <= l /\ Bound(c.len) <= MaxTok
  BY <1>1, <1>2, <1>3, MaxTokAssumption DEF Reads, Bound
<1>7. r.avail /\ Inside(x, r.cur)
  BY <1>6, NextWordSafe
<1>8. Behind(x, c) = Words!ReadRuns(x, p)
  BY <1>2, <1>6 DEF Behind
<1>9. Words!RunLen(x, p) = m
  BY <1>2, <1>3, <1>5, RunLenIs
<1> HIDE DEF r, w
<1>10. CASE Stops(x, c) # {}
  <2>1. FirstStop(x, c) = m /\ e <= n /\ m < MaxTok
    BY <1>1, <1>2, <1>5, <1>6, <1>10, FirstStopIs
  <2>2. r.tok = Chars(x, c, m) /\ r.cur = Cursor(c.pos + m + 1, c.len - (m + 1))
    BY <1>6, <1>10, <2>1 DEF NextWord, r
  <2>3. r.cur.pos = e /\ r.cur.len = n - e
    <3>1. r.cur.pos = c.pos + m + 1 /\ r.cur.len = c.len - (m + 1)
      BY <2>2 DEF Cursor
    <3>2. c.pos + m + 1 = e
      BY <1>1, <1>2, <1>5
    <3> QED
      BY <1>1, <1>5a, <3>1, <3>2
  <2>4. Behind(x, r.cur) = Words!ReadRuns(x, e + 1)
    <3>1. CASE n - e = 0
      <4>1. Words!Runs(x, e + 1) = {}
        BY <1>1, <1>4, <3>1 DEF Words!Runs
      <4> QED
        BY <2>3, <3>1, <4>1 DEF Behind, Words!ReadRuns
    <3>2. CASE n - e # 0
      BY <2>3, <3>2 DEF Behind
    <3> QED
      BY <3>1, <3>2
  <2>5. Words!ReadRuns(x, p) = (IF e = p THEN {} ELSE {p}) \cup Words!ReadRuns(x, e + 1)
    <3>1. e <= Len(x) /\ e - p < MaxTok
      BY <1>1, <1>5, <2>1
    <3> QED
      BY <1>2, <1>3, <3>1, RunsBehind
  <2>6. m \in 0 .. c.len
    BY <1>1, <1>5a, <2>1
  <2>7. w = Words!WordAt(x, p) /\ (w = <<>> <=> m = 0)
    <3>1. m = Words!Lower(Words!RunLen(x, p), MaxTok)
      BY <1>9, <2>1 DEF Words!Lower
    <3> QED
      BY <1>2, <1>6, <2>2, <2>6, <3>1, WordIs DEF w
  <2>8. Reads(x, r.cur)
    BY <1>1, <1>4, <1>7, <2>3 DEF Reads
  <2>9. e = p <=> m = 0
    BY <1>2, <1>5
  <2>10. r.cur.pos >= c.pos + 1
    BY <1>2, <1>4, <2>3
  <2> QED
    BY <1>2, <1>7, <1>8, <2>4, <2>5, <2>7, <2>8, <2>9, <2>10 DEF r, w
<1>11. CASE Stops(x, c) = {}
  <2>1. PICK b \in Nat : b = Bound(c.len) /\ b # 0 /\ b <= l /\ b <= MaxTok
    BY <1>6
  <2>2. IF b = MaxTok THEN m >= MaxTok ELSE e = n + 1 /\ b = m /\ b < MaxTok
    BY <1>1, <1>2, <1>5, <1>6, <1>11, <2>1, FirstStopIs
  <2>3. r.tok = Chars(x, c, b) /\ r.cur = Cursor(c.pos + b, 0)
    BY <1>6, <1>11, <2>1 DEF NextWord, r
  <2>4. r.cur.len = 0 /\ Behind(x, r.cur) = {} /\ Reads(x, r.cur)
    BY <1>7, <2>3 DEF Cursor, Behind, Reads
  <2>5. Words!ReadRuns(x, p) = {p}
    <3>1. e # p /\ (e = Len(x) + 1 \/ e - p >= MaxTok)
      BY <1>1, <1>5, <2>1, <2>2, MaxTokAssumption
    <3> QED
      BY <1>2, <1>3, <3>1, LastRun
  <2>6. b \in 0 .. c.len
    BY <1>1, <2>1
  <2>7. w = Words!WordAt(x, p) /\ w # <<>>
    <3>1. b = Words!Lower(Words!RunLen(x, p), MaxTok)
      BY <1>5, <1>9, <2>1, <2>2, MaxTokAssumption DEF Words!Lower
    <3>2. Word(r.tok) = Words!WordAt(x, p) /\ (Word(r.tok) = <<>> <=> b = 0)
      BY <1>2, <1>6, <2>3, <2>6, <3>1, WordIs
    <3> QED
      BY <2>1, <3>2 DEF w
  <2> QED
    BY <1>2, <1>7, <1>8, <2>4, <2>5, <2>7 DEF r, w
<1> QED
  BY <1>10, <1>11
-------------------------------------------------------------------------------
(***************************************************************************)
(* Counting.  Words are counted one at a time, and cut to MaxShown each    *)
(* time; WordBag counts a row's words at once and cuts the sums.           *)
(***************************************************************************)
OneMore(bag, w) ==
  IF w = <<>> THEN bag
  ELSE [v \in DOMAIN bag \cup {w} |->
          IF v = w THEN Shown(Words!CountIn(bag, v) + 1) ELSE bag[v]]

\* bag with the runs R of x.
WithRuns(bag, x, R) ==
  [w \in DOMAIN bag \cup {Words!WordAt(x, i) : i \in R} |->
     Words!Lower(MaxShown, Words!CountIn(bag, w)
                             + Cardinality({i \in R : Words!WordAt(x, i) = w}))]

IsBag(bag) == bag \in [DOMAIN bag -> 1 .. MaxShown]

LEMMA CountInType ==
  ASSUME NEW bag, IsBag(bag), NEW w
  PROVE  Words!CountIn(bag, w) \in 0 .. MaxShown
BY TagCloudAssumption DEF IsBag, Words!CountIn

LEMMA OneMoreType ==
  ASSUME NEW bag, IsBag(bag), NEW w
  PROVE  IsBag(OneMore(bag, w))
<1>1. CASE w = <<>>
  BY <1>1 DEF OneMore
<1>2. CASE w # <<>>
  <2> DEFINE more == OneMore(bag, w)
  <2>1. more = [v \in DOMAIN bag \cup {w} |->
                  IF v = w THEN Shown(Words!CountIn(bag, v) + 1) ELSE bag[v]]
    BY <1>2, Zenon DEF OneMore
  <2>2. Shown(Words!CountIn(bag, w) + 1) \in 1 .. MaxShown
    BY CountInType, TagCloudAssumption DEF Shown
  <2>3. \A v \in DOMAIN bag : bag[v] \in 1 .. MaxShown
    BY DEF IsBag
  <2> HIDE DEF more
  <2>4. more \in [DOMAIN bag \cup {w} -> 1 .. MaxShown]
    BY <2>1, <2>2, <2>3
  <2> QED
    BY <2>1, <2>4 DEF IsBag, more
<1> QED
  BY <1>1, <1>2

LEMMA NoRuns ==
  ASSUME NEW bag, IsBag(bag), NEW x
  PROVE  WithRuns(bag, x, {}) = bag
<1>1. \A w : Cardinality({i \in {} : Words!WordAt(x, i) = w}) = 0
  <2>1. \A w : {i \in {} : Words!WordAt(x, i) = w} = {}
    OBVIOUS
  <2> QED
    BY <2>1, FS_EmptySet
<1>2. DOMAIN bag \cup {Words!WordAt(x, i) : i \in {}} = DOMAIN bag
  OBVIOUS
<1>3. \A w \in DOMAIN bag : Words!Lower(MaxShown, Words!CountIn(bag, w) + 0) = bag[w]
  BY TagCloudAssumption DEF IsBag, Words!Lower, Words!CountIn
<1>4. WithRuns(bag, x, {}) = [w \in DOMAIN bag |-> bag[w]]
  BY <1>1, <1>2, <1>3 DEF WithRuns
<1> QED
  BY <1>4 DEF IsBag

\* A word is counted before the others.
LEMMA CountFirst ==
  ASSUME NEW bag, IsBag(bag), NEW x, NEW R, IsFiniteSet(R), NEW p, p \notin R,
         NEW w, Words!WordAt(x, p) = w, w # <<>>
  PROVE  WithRuns(bag, x, {p} \cup R) = WithRuns(OneMore(bag, w), x, R)
<1> DEFINE more == OneMore(bag, w)
           At(T, v) == {i \in T : Words!WordAt(x, i) = v}
<1>1. more = [v \in DOMAIN bag \cup {w} |->
                IF v = w THEN Shown(Words!CountIn(bag, v) + 1) ELSE bag[v]]
  BY Zenon DEF OneMore
<1>2. IsBag(more)
  BY OneMoreType
<1> HIDE DEF more
<1>3. DOMAIN more = DOMAIN bag \cup {w}
  BY <1>1
<1>4. DOMAIN bag \cup {Words!WordAt(x, i) : i \in {p} \cup R}
        = DOMAIN more \cup {Words!WordAt(x, i) : i \in R}
  BY <1>3
<1>5. ASSUME NEW v
      PROVE  Words!Lower(MaxShown, Words!CountIn(bag, v) + Cardinality(At({p} \cup R, v)))
               = Words!Lower(MaxShown, Words!CountIn(more, v) + Cardinality(At(R, v)))
  <2>1. IsFiniteSet(At(R, v))
    BY FS_Subset
  <2>2. PICK n \in Nat : n = Cardinality(At(R, v))
    BY <2>1, FS_CardinalityType
  <2>3. PICK k \in 0 .. MaxShown : k = Words!CountIn(bag, v)
    BY CountInType
  <2>4. CASE v = w
    <3>1. At({p} \cup R, v) = At(R, v) \cup {p} /\ p \notin At(R, v)
      BY <2>4
    <3>2. Cardinality(At({p} \cup R, v)) = n + 1
      BY <2>1, <2>2, <3>1, FS_AddElement
    <3>3. Words!CountIn(more, v) = Shown(k + 1)
      BY <1>1, <1>3, <2>3, <2>4 DEF Words!CountIn
    <3> QED
      BY <2>2, <2>3, <3>2, <3>3, TagCloudAssumption DEF Words!Lower, Shown
  <2>5. CASE v # w
    <3>1. At({p} \cup R, v) = At(R, v)
      BY <2>5
    <3>2. Words!CountIn(more, v) = Words!CountIn(bag, v)
      BY <1>1, <1>3, <2>5 DEF Words!CountIn
    <3> QED
      BY <3>1, <3>2
  <2> QED
    BY <2>4, <2>5
<1>6. /\ WithRuns(bag, x, {p} \cup R)
           = [v \in DOMAIN bag \cup {Words!WordAt(x, i) : i \in {p} \cup R} |->
                Words!Lower(MaxShown, Words!CountIn(bag, v) + Cardinality(At({p} \cup R, v)))]
      /\ WithRuns(more, x, R)
           = [v \in DOMAIN more \cup {Words!WordAt(x, i) : i \in R} |->
                Words!Lower(MaxShown, Words!CountIn(more, v) + Cardinality(At(R, v)))]
  BY Zenon DEF WithRuns
<1> HIDE DEF At
<1> QED
  BY <1>4, <1>5, <1>6, Zenon DEF more

LEMMA WithRunsType ==
  ASSUME NEW bag, IsBag(bag), NEW x, NEW R, IsFiniteSet(R)
  PROVE  IsBag(WithRuns(bag, x, R))
<1> DEFINE W == {Words!WordAt(x, i) : i \in R}
           N(w) == Cardinality({i \in R : Words!WordAt(x, i) = w})
<1>1. \A w : N(w) \in Nat
  BY FS_Subset, FS_CardinalityType
<1>2. ASSUME NEW w \in W PROVE N(w) # 0
  <2>1. {i \in R : Words!WordAt(x, i) = w} # {}
    OBVIOUS
  <2>2. IsFiniteSet({i \in R : Words!WordAt(x, i) = w})
    BY FS_Subset
  <2> QED
    BY <2>1, <2>2, FS_EmptySet
<1>3. \A w \in DOMAIN bag : Words!CountIn(bag, w) # 0
  BY DEF IsBag, Words!CountIn
<1>4. \A w : Words!CountIn(bag, w) \in 0 .. MaxShown
  BY CountInType
<1>5. WithRuns(bag, x, R) = [w \in DOMAIN bag \cup W |->
                               Words!Lower(MaxShown, Words!CountIn(bag, w) + N(w))]
  BY Zenon DEF WithRuns
<1> HIDE DEF W, N
<1>6. \A w \in DOMAIN bag \cup W :
        Words!Lower(MaxShown, Words!CountIn(bag, w) + N(w)) \in 1 .. MaxShown
  <2> TAKE w \in DOMAIN bag \cup W
  <2>1. PICK k \in 0 .. MaxShown, n \in Nat : k = Words!CountIn(bag, w) /\ n = N(w)
    BY <1>1, <1>4
  <2>2. k # 0 \/ n # 0
    BY <1>2, <1>3, <2>1
  <2> QED
    BY <2>1, <2>2, TagCloudAssumption DEF Words!Lower
<1> QED
  BY <1>5, <1>6 DEF IsBag

\* The words of a row from a position on, as RowWords adds them.
LEMMA PlusIs ==
  ASSUME NEW bag, NEW x, NEW p
  PROVE  /\ Words!Plus(bag, x, p) = WithRuns(bag, x, Words!ReadRuns(x, p))
         /\ Abstract!Plus(bag, x, p) = WithRuns(bag, x, Words!ReadRuns(x, p))
<1>1. \A i : Abstract!RunLen(x, i) = Words!RunLen(x, i)
  BY SameCardinality DEF Abstract!RunLen, Words!RunLen
<1>2. Abstract!Runs(x, p) = Words!Runs(x, p)
  BY DEF Abstract!Runs, Words!Runs
<1>3. Abstract!ReadRuns(x, p) = Words!ReadRuns(x, p)
  BY <1>1, <1>2 DEF Abstract!ReadRuns, Words!ReadRuns
<1>4. \A ch : Abstract!LetterOf(ch) = Words!LetterOf(ch)
  BY DEF Abstract!LetterOf, Words!LetterOf
<1>5. \A a, b : Abstract!Lower(a, b) = Words!Lower(a, b)
  BY DEF Abstract!Lower, Words!Lower
<1>6. \A i : Abstract!WordAt(x, i) = Words!WordAt(x, i)
  BY <1>1, <1>4, <1>5 DEF Abstract!WordAt, Words!WordAt
<1>7. \A w : Abstract!CountIn(bag, w) = Words!CountIn(bag, w)
  BY DEF Abstract!CountIn, Words!CountIn
<1>8. Words!Plus(bag, x, p) = WithRuns(bag, x, Words!ReadRuns(x, p))
  BY SameCardinality DEF Words!Plus, WithRuns
<1>9. Abstract!Plus(bag, x, p) = WithRuns(bag, x, Abstract!ReadRuns(x, p))
  BY SameCardinality, <1>5, <1>6, <1>7 DEF Abstract!Plus, WithRuns
<1> QED
  BY <1>3, <1>8, <1>9

\* What a call of nextWord takes from the words behind the cursor it puts in
\* the buffer.
LEMMA FetchCounts ==
  ASSUME NEW x \in Seq(Charset), NEW c, Reads(x, c), Fetch(x, c), NEW bag, IsBag(bag)
  PROVE  /\ Reads(x, cur')
         /\ WithRuns(OneMore(bag, word'), x, Behind(x, cur')) = WithRuns(bag, x, Behind(x, c))
<1> DEFINE r == NextWord(x, c)
<1>1. word' = (IF r.avail THEN Word(r.tok) ELSE <<>>) /\ cur' = r.cur
  BY DEF Fetch
<1>2. c.len \in Nat /\ c.pos \in Nat
  BY DEF Reads, Inside
<1>3. CASE c.len = 0
  <2>1. ~r.avail /\ r.cur = c
    BY <1>3, MaxTokAssumption DEF NextWord, Bound
  <2> QED
    BY <1>1, <2>1 DEF OneMore
<1>4. CASE c.len > 0
  <2> DEFINE w == Word(r.tok)
  <2>1. /\ r.avail /\ Reads(x, r.cur)
        /\ r.cur.len # 0 => r.cur.pos >= c.pos + 1
        /\ w = <<>> => Behind(x, c) = Behind(x, r.cur)
        /\ w # <<>> => /\ Behind(x, c) = {c.pos + 1} \cup Behind(x, r.cur)
                       /\ Words!WordAt(x, c.pos + 1) = w
    BY <1>4, ReadWord
  <2> HIDE DEF r, w
  <2>2. word' = w /\ cur' = r.cur
    BY <1>1, <2>1 DEF w
  <2>3. CASE w = <<>>
    BY <2>1, <2>2, <2>3 DEF OneMore
  <2>4. CASE w # <<>>
    <3>1. IsFiniteSet(Behind(x, r.cur)) /\ Behind(x, r.cur) \subseteq r.cur.pos + 1 .. Len(x)
      BY <2>1, BehindType DEF Reads
    <3>2. c.pos + 1 \notin Behind(x, r.cur)
      <4>1. CASE r.cur.len = 0
        BY <4>1 DEF Behind
      <4>2. CASE r.cur.len # 0
        <5>1. r.cur.pos \in Nat /\ Len(x) \in Nat
          BY <2>1, LenProperties DEF Reads, Inside
        <5> QED
          BY <1>2, <2>1, <3>1, <4>2, <5>1
      <4> QED
        BY <4>1, <4>2
    <3> QED
      BY <2>1, <2>2, <2>4, <3>1, <3>2, CountFirst
  <2> QED
    BY <2>1, <2>2, <2>3, <2>4
<1> QED
  BY <1>2, <1>3, <1>4
-------------------------------------------------------------------------------
(***************************************************************************)
(* The trie implements the bag.  The mapping of TagCloudRefinement gives   *)
(* what WordBag promises only where the cursor of tagcloud_add has the     *)
(* rest of the row before it, and where the text holds the entries of the  *)
(* nodes that have been visited.                                           *)
(***************************************************************************)
Reading ==
  /\ pc # "add" => word = <<>> /\ cur.len = 0
  /\ Reads(row, cur)

Written ==
  /\ pc # "write" => text = <<>>
  /\ text \in Seq(Seq(Alphabet) \X Nat)
  /\ {text[i] : i \in DOMAIN text}
       = IF pc = "write" THEN {<<p, Shown(count[p])>> : p \in Visible \ todo} ELSE {}

Running == pc # "idle" => ptr # Null

Mapped == Typed /\ NothingStale /\ Running /\ Reading /\ Written

LEMMA AppendedAre ==
  ASSUME NEW S, NEW s \in Seq(S), NEW e \in S, NEW t, t = Append(s, e)
  PROVE  t \in Seq(S) /\ {t[i] : i \in DOMAIN t} = {s[i] : i \in DOMAIN s} \cup {e}
<1>1. /\ Len(s) \in Nat /\ DOMAIN s = 1 .. Len(s)
      /\ t \in Seq(S) /\ Len(t) = Len(s) + 1 /\ DOMAIN t = 1 .. Len(s) + 1
      /\ \A i \in 1 .. Len(s) : t[i] = s[i]
      /\ t[Len(s) + 1] = e
  BY AppendProperties, LenProperties
<1>2. 1 .. Len(s) + 1 = (1 .. Len(s)) \cup {Len(s) + 1}
  BY <1>1
<1> QED
  BY <1>1, <1>2

LEMMA RowType == Typed => row \in Seq(Charset)
BY EmptyWord, TagCloudAssumption DEF Typed, TypeOK

LEMMA CountedType == Typed => IsBag(Counted)
<1> SUFFICES ASSUME Typed PROVE IsBag(Counted)
  OBVIOUS
<1> DEFINE D == {q \in DOMAIN count : count[q] > 0}
<1>1. \A p \in D : Shown(count[p]) \in 1 .. MaxShown
  BY TagCloudAssumption DEF Typed, TypeOK, Shown
<1>2. Counted = [p \in D |-> Shown(count[p])]
  BY DEF Counted
<1> HIDE DEF D
<1> QED
  BY <1>1, <1>2 DEF IsBag

LEMMA BufferIs == Typed => WithBuffer = OneMore(Counted, word) /\ IsBag(WithBuffer)
<1> SUFFICES ASSUME Typed PROVE WithBuffer = OneMore(Counted, word) /\ IsBag(WithBuffer)
  OBVIOUS
<1>1. WithBuffer = OneMore(Counted, word)
  BY Zenon DEF WithBuffer, OneMore
<1> QED
  BY <1>1, CountedType, OneMoreType

LEMMA BagIs ==
  Typed => Bag = WithRuns(OneMore(Counted, word), row, Behind(row, cur)) /\ IsBag(Bag)
<1> SUFFICES ASSUME Typed
             PROVE  Bag = WithRuns(OneMore(Counted, word), row, Behind(row, cur)) /\ IsBag(Bag)
  OBVIOUS
<1> DEFINE B == WithBuffer
           R == Behind(row, cur)
<1>1. B = OneMore(Counted, word) /\ IsBag(B)
  BY BufferIs
<1>2. Bag = WithRuns(B, row, R)
  <2>1. CASE cur.len = 0
    <3>1. WithRuns(B, row, {}) = B
      BY <1>1, NoRuns
    <3> QED
      BY <2>1, <3>1 DEF Bag, Behind
  <2>2. CASE cur.len # 0
    BY <2>2, PlusIs DEF Bag, Behind
  <2> QED
    BY <2>1, <2>2
<1>3. IsFiniteSet(R)
  BY RowType, BehindType DEF Typed, TypeOK
<1> HIDE DEF B, R
<1>4. IsBag(WithRuns(B, row, R))
  BY <1>1, <1>3, WithRunsType
<1> QED
  BY <1>1, <1>2, <1>4 DEF R

LEMMA MappedInit == Init => Mapped
<1> SUFFICES ASSUME Init PROVE Mapped
  OBVIOUS
<1>1. Typed
  BY TypedInit
<1>2. NothingStale
  BY DEF Init, NothingStale, NoTrie
<1>3. Reading
  BY EmptyWord DEF Init, Reading, Reads, Inside, Cursor
<1>4. Written
  BY EmptyWord DEF Init, Written
<1>5. Running
  BY DEF Init, Running
<1> QED
  BY <1>1, <1>2, <1>3, <1>4, <1>5 DEF Mapped

LEMMA NextOrReturnReads ==
  ASSUME Typed, Reading, NextOrReturn
  PROVE  Reading'
<1>1. CASE cur.len > 0
  <2>1. pc' = "add" /\ row' = row /\ Fetch(row, cur)
    BY <1>1 DEF NextOrReturn
  <2>2. IsBag(Counted) /\ row \in Seq(Charset) /\ Reads(row, cur)
    BY CountedType, RowType DEF Reading
  <2>3. Reads(row, cur')
    BY <2>1, <2>2, FetchCounts
  <2> QED
    BY <2>1, <2>3 DEF Reading
<1>2. CASE ~(cur.len > 0)
  BY <1>2, EmptyWord DEF NextOrReturn, NoInput, Reading, Reads, Inside, Cursor
<1> QED
  BY <1>1, <1>2

LEMMA ReadingNext == Typed /\ Reading /\ [Next]_vars => Reading'
<1> SUFFICES ASSUME Typed, Reading, [Next]_vars PROVE Reading'
  OBVIOUS
<1> USE DEF input, trie, output
<1>1. ASSUME pc' = pc, UNCHANGED <<row, cur, word>> PROVE Reading'
  BY <1>1 DEF Reading, Reads, Inside
<1>2. ASSUME pc # "add", pc' # "add", UNCHANGED <<row, cur, word>> PROVE Reading'
  BY <1>2 DEF Reading, Reads, Inside
<1>3. CASE TagcloudInit \/ TagcloudInitFails \/ TagcloudClear \/ TagcloudDeinit
  <2>1. pc' = pc /\ UNCHANGED <<row, cur, word>>
    BY <1>3 DEF TagcloudInit, TagcloudInitFails, TagcloudClear, TagcloudDeinit
  <2> QED
    BY <1>1, <2>1
<1>4. ASSUME NEW x \in Rows, TagcloudAdd(x) PROVE Reading'
  <2>1. x \in Seq(Charset) /\ IsBag(Counted) /\ Len(x) \in Nat
    BY TagCloudAssumption, CountedType, LenProperties
  <2>2. Reads(x, Start(x))
    BY <2>1 DEF Reads, Inside, Start, Cursor
  <2>3. Fetch(x, Start(x)) /\ row' = x /\ pc' = "add"
    BY <1>4 DEF TagcloudAdd
  <2>4. Reads(x, cur')
    BY <2>1, <2>2, <2>3, FetchCounts
  <2> QED
    BY <2>3, <2>4 DEF Reading
<1>5. CASE SkipWord \/ TcAddCount
  BY <1>5, NextOrReturnReads DEF SkipWord, TcAddCount
<1>6. CASE TcAddDescend
  <2>1. pc' = pc /\ UNCHANGED <<row, cur, word>>
    BY <1>6 DEF TcAddDescend
  <2> QED
    BY <1>1, <2>1
<1>7. CASE TagcloudStart \/ Allocate \/ TagcloudReturn
  <2>1. pc # "add" /\ pc' # "add" /\ UNCHANGED <<row, cur, word>>
    BY <1>7 DEF TagcloudStart, Allocate, TagcloudReturn
  <2> QED
    BY <1>2, <2>1
<1>8. ASSUME NEW p \in todo, TccPrepare(p) \/ TccWrite(p) PROVE Reading'
  <2>1. pc' = pc /\ UNCHANGED <<row, cur, word>>
    BY <1>8 DEF TccPrepare, TccWrite
  <2> QED
    BY <1>1, <2>1
<1>9. CASE UNCHANGED vars
  BY <1>1, <1>9 DEF vars
<1> QED
  BY <1>3, <1>4, <1>5, <1>6, <1>7, <1>8, <1>9 DEF Next, Continue

LEMMA WrittenNext == Typed /\ Written /\ [Next]_vars => Written'
<1> SUFFICES ASSUME Typed, Written, [Next]_vars PROVE Written'
  OBVIOUS
<1> USE DEF trie, input, output
<1>1. ASSUME pc # "write", pc' # "write", text' = text PROVE Written'
  BY <1>1 DEF Written
<1>2. CASE TagcloudInit \/ TagcloudInitFails \/ TagcloudClear \/ TagcloudDeinit \/ TagcloudStart
  <2>1. pc # "write" /\ pc' # "write" /\ text' = text
    BY <1>2 DEF TagcloudInit, TagcloudInitFails, TagcloudClear, TagcloudDeinit, TagcloudStart
  <2> QED
    BY <1>1, <2>1
<1>3. ASSUME NEW x \in Rows, TagcloudAdd(x) PROVE Written'
  <2>1. pc # "write" /\ pc' # "write" /\ text' = text
    BY <1>3 DEF TagcloudAdd
  <2> QED
    BY <1>1, <2>1
<1>4. CASE SkipWord \/ TcAddDescend \/ TcAddCount
  <2>1. pc # "write" /\ pc' # "write" /\ text' = text
    BY <1>4 DEF SkipWord, TcAddDescend, TcAddCount, NextOrReturn
  <2> QED
    BY <1>1, <2>1
<1>5. ASSUME NEW p \in todo, TccPrepare(p) PROVE Written'
  <2>1. pc # "write" /\ pc' # "write" /\ text' = text
    BY <1>5 DEF TccPrepare
  <2> QED
    BY <1>1, <2>1
<1>6. ASSUME NEW p \in todo, TccWrite(p) PROVE Written'
  <2>1. /\ pc = "write" /\ pc' = "write" /\ Visit(p)
        /\ text' = Append(text, <<p, Shown(count[p])>>)
    BY <1>6 DEF TccWrite
  <2>2. /\ \A q \in DOMAIN count : Shown(count'[q]) = Shown(count[q])
        /\ Visible' = Visible /\ todo' = todo \ {p}
    BY <2>1, VisitType DEF Visit
  <2>3. p \in Visible /\ Visible \subseteq DOMAIN count /\ todo \subseteq Visible
    BY DEF Typed, TypeOK, Visible
  <2> DEFINE e == <<p, Shown(count[p])>>
             T == Seq(Alphabet) \X Nat
  <2>4. text \in Seq(T)
    BY DEF Written
  <2>5. e \in T
    BY <2>3, ShownType DEF Typed, TypeOK, Shape
  <2> HIDE DEF e, T
  <2>6. /\ text' \in Seq(T)
        /\ {text'[i] : i \in DOMAIN text'} = {text[i] : i \in DOMAIN text} \cup {e}
    <3>1. text' = Append(text, e)
      BY <2>1 DEF e
    <3> QED
      BY <2>4, <2>5, <3>1, AppendedAre
  <2>7. {<<q, Shown(count'[q])>> : q \in Visible \ todo'}
          = {<<q, Shown(count[q])>> : q \in Visible \ todo} \cup {e}
    BY <2>2, <2>3 DEF e
  <2> QED
    BY <2>1, <2>2, <2>6, <2>7 DEF Written, T
<1>7. CASE Allocate
  <2>1. pc = "measure" /\ pc' = "write" /\ text' = text /\ todo' = Visible /\ count' = count
    BY <1>7 DEF Allocate
  <2>2. Visible' \ todo' = {}
    BY <2>1 DEF Visible
  <2> QED
    BY <2>1, <2>2, EmptyWord DEF Written
<1>8. CASE TagcloudReturn
  BY <1>8, EmptyWord DEF TagcloudReturn, Written
<1>9. CASE UNCHANGED vars
  BY <1>9 DEF vars, Written, Visible
<1> QED
  BY <1>2, <1>3, <1>4, <1>5, <1>6, <1>7, <1>8, <1>9 DEF Next, Continue

LEMMA RunningNext == Running /\ [Next]_vars => Running'
BY DEF Running, Next, Continue, TagcloudInit, TagcloudInitFails, TagcloudClear, TagcloudAdd,
       TagcloudStart, TagcloudDeinit, SkipWord, TcAddDescend, TcAddCount, NextOrReturn,
       TccPrepare, TccWrite, Allocate, TagcloudReturn, output, vars

LEMMA MappedNext == Mapped /\ [Next]_vars => Mapped'
BY TypedNext, NothingStaleNext, RunningNext, ReadingNext, WrittenNext DEF Mapped

\* What both passes over the trie and new nodes leave of the words.
LEMMA SameCounted ==
  ASSUME NEW D, D = {q \in DOMAIN count : count[q] > 0},
         {q \in DOMAIN count' : count'[q] > 0} = D,
         \A q \in D : Shown(count'[q]) = Shown(count[q])
  PROVE  Counted' = Counted
BY DEF Counted

LEMMA OutsideOfRows == Reading /\ pc # "add" => Bag = Counted
BY DEF Reading, Bag, WithBuffer

\* The turn of a word ends: it has been counted, the next one comes into the
\* buffer.
LEMMA NextOrReturnBag ==
  ASSUME Typed, Typed', Reading, Reading', NextOrReturn, Counted' = OneMore(Counted, word)
  PROVE  Bag' = Bag
<1>1. /\ Bag = WithRuns(OneMore(Counted, word), row, Behind(row, cur))
      /\ IsBag(Counted) /\ IsBag(OneMore(Counted, word)) /\ row \in Seq(Charset)
  BY BagIs, CountedType, OneMoreType, RowType
<1>2. CASE cur.len > 0
  <2>1. pc' = "add" /\ row' = row /\ Fetch(row, cur)
    BY <1>2 DEF NextOrReturn
  <2>2. Reads(row, cur)
    BY DEF Reading
  <2>3. (Typed => Bag = WithRuns(OneMore(Counted, word), row, Behind(row, cur)))'
    BY BagIs, PTL
  <2>4. Bag' = WithRuns(OneMore(Counted', word'), row, Behind(row, cur'))
    BY <2>1, <2>3
  <2>5. WithRuns(OneMore(Counted', word'), row, Behind(row, cur'))
          = WithRuns(Counted', row, Behind(row, cur))
    BY <1>1, <2>1, <2>2, FetchCounts
  <2> QED
    BY <1>1, <2>4, <2>5
<1>3. CASE ~(cur.len > 0)
  <2>1. word' = <<>> /\ cur'.len = 0
    BY <1>3 DEF NextOrReturn, NoInput, Cursor
  <2>2. Bag' = Counted'
    BY <2>1 DEF Bag, WithBuffer
  <2>3. cur.len = 0
    BY <1>3 DEF Reading, Reads, Inside
  <2>4. Bag = OneMore(Counted, word)
    BY <1>1, <2>3, NoRuns DEF Behind
  <2> QED
    BY <2>2, <2>4
<1> QED
  BY <1>2, <1>3

\* tc_add counts the word that is in the buffer.
LEMMA CountsBuffer ==
  ASSUME Typed, TcAddCount
  PROVE  Counted' = OneMore(Counted, word)
<1> DEFINE D == {q \in DOMAIN count : count[q] > 0}
           E == {q \in DOMAIN count' : count'[q] > 0}
           n == IF word \in DOMAIN count THEN count[word] ELSE 0
<1>1. count \in [DOMAIN count -> Nat] /\ DOMAIN blk = DOMAIN count /\ n \in Nat
  BY DEF Typed, TypeOK
<1>2. word # <<>>
  BY EmptyWord DEF Typed, TypeOK, Shape, TcAddCount
<1>3. /\ DOMAIN count' = DOMAIN count \cup {word}
      /\ \A q \in DOMAIN count : q # word => count'[q] = count[q]
      /\ count'[word] = n + 1
  <2>1. CASE word \in DOMAIN blk
    BY <1>1, <2>1 DEF TcAddCount
  <2>2. CASE word \notin DOMAIN blk
    BY <1>1, <2>2 DEF TcAddCount, Graft
  <2> QED
    BY <2>1, <2>2
<1>4. Counted = [p \in D |-> Shown(count[p])] /\ Counted' = [p \in E |-> Shown(count'[p])]
  BY DEF Counted
<1>5. E = D \cup {word}
  BY <1>1, <1>3
<1>6. Shown(Words!CountIn(Counted, word) + 1) = Shown(n + 1)
  <2>1. Words!CountIn(Counted, word) = IF n > 0 THEN Shown(n) ELSE 0
    BY <1>1, <1>4 DEF Words!CountIn
  <2> QED
    BY <1>1, <2>1, TagCloudAssumption DEF Shown
<1>7. \A p \in D : p # word => Shown(count'[p]) = Counted[p]
  BY <1>3, <1>4
<1>8. OneMore(Counted, word)
        = [v \in D \cup {word} |->
             IF v = word THEN Shown(Words!CountIn(Counted, v) + 1) ELSE Counted[v]]
  BY <1>2, <1>4 DEF OneMore
<1> HIDE DEF D, E, n
<1> QED
  BY <1>3, <1>4, <1>5, <1>6, <1>7, <1>8

\* The text of a finished pass holds every word of the bag with its count.
LEMMA TextIsBag ==
  ASSUME Typed, Reading, Written, pc = "write", todo = {}
  PROVE  {text[i] : i \in DOMAIN text} = Abstract!Entries(Bag)
<1>1. Bag = Counted
  BY OutsideOfRows
<1>2. {q \in DOMAIN count : count[q] > 0} = Visible
  BY TypedHides DEF Visible, NothingHidden
<1>3. Counted = [p \in Visible |-> Shown(count[p])]
  BY <1>2 DEF Counted
<1>4. {text[i] : i \in DOMAIN text} = {<<p, Shown(count[p])>> : p \in Visible}
  BY DEF Written
<1>5. Abstract!Entries(Counted) = {<<p, Counted[p]>> : p \in DOMAIN Counted}
  BY DEF Abstract!Entries
<1> QED
  BY <1>1, <1>3, <1>4, <1>5

LEMMA StepMaps ==
  ASSUME Mapped, Mapped', [Next]_vars
  PROVE  [Abstract!Next]_(Abstract!vars)
<1> USE DEF trie, input, output
<1>0. /\ Typed /\ Typed' /\ Reading /\ Reading' /\ NothingStale /\ Running /\ Written
      /\ DOMAIN blk = DOMAIN count
  BY DEF Mapped, Typed, TypeOK
<1>1. ASSUME UNCHANGED <<ptr, reply>>, Bag' = Bag PROVE [Abstract!Next]_(Abstract!vars)
  BY <1>1 DEF Abstract!vars
<1>2. pc # "add" => Bag = Counted
  BY <1>0, OutsideOfRows
<1>3. pc' # "add" => Bag' = Counted'
  <2>1. (Reading /\ pc # "add" => Bag = Counted)'
    BY OutsideOfRows, PTL
  <2> QED
    BY <1>0, <2>1
<1>4. ASSUME \A q \in DOMAIN count' : ~(count'[q] > 0) PROVE Counted' = Abstract!NoWords
  BY <1>4 DEF Counted, Abstract!NoWords
<1>5. CASE TagcloudInit
  <2>1. /\ ptr = Null /\ ptr' # Null /\ pc = "idle" /\ pc' = "idle" /\ reply' = reply
        /\ \A q \in DOMAIN count' : ~(count'[q] > 0)
    BY <1>5, FreshType, TagCloudAssumption DEF TagcloudInit
  <2>2. Counted = Abstract!NoWords
    BY <1>0, <2>1 DEF NothingStale, Counted, Abstract!NoWords
  <2>3. Abstract!Open
    BY <1>2, <1>3, <1>4, <2>1, <2>2 DEF Abstract!Open
  <2> QED
    BY <2>3 DEF Abstract!Next
<1>6. CASE TagcloudClear
  <2>1. /\ ptr # Null /\ ptr' = ptr /\ pc' = "idle" /\ reply' = reply
        /\ \A q \in DOMAIN count' : ~(count'[q] > 0)
    BY <1>6 DEF TagcloudClear
  <2>2. Abstract!Clear
    BY <1>3, <1>4, <2>1 DEF Abstract!Clear
  <2> QED
    BY <2>2 DEF Abstract!Next
<1>7. CASE TagcloudDeinit
  <2>1. /\ ptr # Null /\ ptr' = Null /\ pc' = "idle" /\ reply' = reply
        /\ \A q \in DOMAIN count' : ~(count'[q] > 0)
    BY <1>7 DEF TagcloudDeinit, NoTrie
  <2>2. Abstract!Close
    BY <1>3, <1>4, <2>1 DEF Abstract!Close
  <2> QED
    BY <2>2 DEF Abstract!Next
<1>8. CASE TagcloudReturn
  <2>1. /\ pc = "write" /\ todo = {} /\ pc' = "idle" /\ reply' = text
        /\ ptr' = ptr /\ count' = count
    BY <1>8 DEF TagcloudReturn
  <2>2. ptr # Null /\ Bag' = Bag
    BY <1>0, <1>2, <1>3, <2>1 DEF Running, Counted
  <2>3. {reply'[i] : i \in DOMAIN reply'} = Abstract!Entries(Bag)
    BY <1>0, <2>1, TextIsBag
  <2>4. Abstract!Read
    BY <2>1, <2>2, <2>3 DEF Abstract!Read
  <2> QED
    BY <2>4 DEF Abstract!Next
<1>9. ASSUME NEW x \in Rows, TagcloudAdd(x) PROVE [Abstract!Next]_(Abstract!vars)
  <2>1. /\ pc = "idle" /\ ptr # Null /\ ptr' = ptr /\ reply' = reply /\ count' = count
        /\ row' = x /\ Fetch(x, Start(x))
    BY <1>9 DEF TagcloudAdd
  <2>2. x \in Seq(Charset) /\ IsBag(Counted) /\ Len(x) \in Nat
    BY <1>0, TagCloudAssumption, CountedType, LenProperties
  <2>3. Reads(x, Start(x))
    BY <2>2 DEF Reads, Inside, Start, Cursor
  <2>4. WithRuns(OneMore(Counted, word'), x, Behind(x, cur'))
          = WithRuns(Counted, x, Behind(x, Start(x)))
    BY <2>1, <2>2, <2>3, FetchCounts
  <2>5. (Typed => Bag = WithRuns(OneMore(Counted, word), row, Behind(row, cur)))'
    BY BagIs, PTL
  <2>6. Bag' = WithRuns(OneMore(Counted, word'), x, Behind(x, cur'))
    <3>1. Counted' = Counted
      BY <2>1 DEF Counted
    <3> QED
      BY <1>0, <2>1, <2>5, <3>1
  <2>7. Behind(x, Start(x)) = Words!ReadRuns(x, 1)
    <3>1. CASE Len(x) = 0
      <4>1. Words!Runs(x, 1) = {}
        BY <3>1 DEF Words!Runs
      <4> QED
        BY <3>1, <4>1 DEF Behind, Start, Cursor, Words!ReadRuns
    <3>2. CASE Len(x) # 0
      BY <3>2 DEF Behind, Start, Cursor
    <3> QED
      BY <3>1, <3>2
  <2>8. Bag' = Abstract!Plus(Bag, x, 1)
    BY <1>2, <2>1, <2>4, <2>6, <2>7, PlusIs
  <2>9. Abstract!AddRow(x)
    BY <2>1, <2>8 DEF Abstract!AddRow
  <2> QED
    BY <2>9 DEF Abstract!Next
<1>10. CASE SkipWord
  <2>1. NextOrReturn /\ word = <<>> /\ UNCHANGED <<ptr, reply, count>>
    BY <1>10 DEF SkipWord
  <2>2. Counted' = OneMore(Counted, word)
    BY <2>1 DEF Counted, OneMore
  <2> QED
    BY <1>0, <1>1, <2>1, <2>2, NextOrReturnBag
<1>11. CASE TcAddCount
  <2>1. NextOrReturn /\ UNCHANGED <<ptr, reply>>
    BY <1>11 DEF TcAddCount
  <2> QED
    BY <1>0, <1>1, <1>11, <2>1, CountsBuffer, NextOrReturnBag
<1>12. CASE TcAddDescend
  <2>1. UNCHANGED <<ptr, reply, row, cur, word>>
    BY <1>12 DEF TcAddDescend
  <2>2. Counted' = Counted
    <3> DEFINE p == Prefix(word, depth + 1)
    <3>1. CASE p \in DOMAIN blk
      BY <1>12, <3>1 DEF TcAddDescend, Counted
    <3>2. CASE p \notin DOMAIN blk
      <4>1. count' = Graft(count, p, 0) /\ p \notin DOMAIN count
        BY <1>0, <1>12, <3>2 DEF TcAddDescend
      <4>2. /\ {q \in DOMAIN count' : count'[q] > 0} = {q \in DOMAIN count : count[q] > 0}
            /\ \A q \in DOMAIN count : count'[q] = count[q]
        BY <4>1 DEF Graft
      <4> QED
        BY <4>2, SameCounted
    <3> QED
      BY <3>1, <3>2
  <2>3. Bag' = Bag
    BY <2>1, <2>2 DEF Bag, WithBuffer
  <2> QED
    BY <1>1, <2>1, <2>3
<1>13. ASSUME NEW p \in todo, TccPrepare(p) \/ TccWrite(p) PROVE [Abstract!Next]_(Abstract!vars)
  <2>1. Visit(p) /\ pc # "add" /\ pc' # "add" /\ UNCHANGED <<ptr, reply>>
    BY <1>13 DEF TccPrepare, TccWrite
  <2>2. /\ DOMAIN count' = DOMAIN count
        /\ \A q \in DOMAIN count : /\ count'[q] > 0 <=> count[q] > 0
                                   /\ Shown(count'[q]) = Shown(count[q])
    BY <1>0, <2>1, VisitType
  <2>3. Counted' = Counted
    <3>1. {q \in DOMAIN count' : count'[q] > 0} = {q \in DOMAIN count : count[q] > 0}
      BY <2>2
    <3> QED
      BY <2>2, <3>1, SameCounted
  <2> QED
    BY <1>1, <1>2, <1>3, <2>1, <2>3
<1>14. CASE TagcloudInitFails \/ TagcloudStart \/ Allocate \/ UNCHANGED vars
  <2>1. UNCHANGED <<ptr, reply, count, row, cur, word>>
    BY <1>14 DEF TagcloudInitFails, TagcloudStart, Allocate, vars
  <2>2. Bag' = Bag
    BY <2>1 DEF Bag, WithBuffer, Counted
  <2> QED
    BY <1>1, <2>1, <2>2
<1> QED
  BY <1>5, <1>6, <1>7, <1>8, <1>9, <1>10, <1>11, <1>12, <1>13, <1>14 DEF Next, Continue

\* For every alphabet, buffer size, set of rows and sequence of calls, the
\* trie of tagcloud.c is the bag of the words of its group: an add changes it
\* by the words of its row, cut and given up as nextWord does, and the reply
\* lists each of them once with its count.
THEOREM CountsEveryWord == Spec => CountsWords
<1>1. Init => Abstract!Init
  BY EmptyWord DEF Init, Abstract!Init, Bag, WithBuffer, Counted, Cursor, NoTrie, Abstract!NoWords
<1>2. Mapped /\ Mapped' /\ [Next]_vars => [Abstract!Next]_(Abstract!vars)
  BY StepMaps
<1> QED
  BY <1>1, <1>2, MappedInit, MappedNext, PTL DEF Spec, CountsWords, Abstract!Spec
===============================================================================
