------------------------------- MODULE VectorSum -------------------------------
(***************************************************************************)
(* The aggregates isum and isumn (fun_iops.c).  The rows of a group are    *)
(* sparse vectors written as fields, an index and its value in turn; they  *)
(* are added up in a trie over the characters of the indices.  isumn also  *)
(* divides the sum by its length, while the reply is being written.        *)
(*                                                                         *)
(* The trie has the shape and the memory management of the one in module   *)
(* TagCloud; here it is the function from the indices it holds to values.  *)
(* A double is an integer together with the square of the length it has    *)
(* been divided by (0 if it has not), and sqrt is never evaluated.         *)
(***************************************************************************)
EXTENDS UdfTokens, TrieOrder, Integers, FiniteSets

CONSTANTS
  numberOf,     \* the character that stands for each character in an index
  number2id,    \* the child slot of each such character, its own
  Atof,         \* the value of a token
  NewDigit,     \* the numbers that take a digit more (10, 100, ...)
  Frac,         \* the characters "%f" adds to an integer (7)
  Charset,      \* the characters of the aggregated column
  Rows,         \* its values
  Inexact,      \* a divisor that is not the square root of an integer
  MaxQueries, MaxClears, MaxRows, MaxReads   \* bounds of the instance

ASSUME VectorSumAssumption ==
  /\ Rows \subseteq Seq(Charset)
  /\ DOMAIN numberOf = Charset
  /\ \A a \in Charset : number2id[numberOf[a]] \in Nat
  /\ \A a, b \in Charset :
       number2id[numberOf[a]] = number2id[numberOf[b]] => numberOf[a] = numberOf[b]
  /\ \A n \in 0 .. MaxTok : \A t \in [1 .. n -> Charset \ Sep] : Atof[t] \in Int
  /\ IsFiniteSet(NewDigit) /\ NewDigit \subseteq Nat /\ Frac \in Nat
  /\ Inexact \notin Nat
  /\ MaxQueries \in Nat /\ MaxClears \in Nat
  /\ MaxRows \in Nat /\ MaxReads \in Nat

VARIABLES
  pc,         \* "idle", or what the running call does: "add", "measure", "write"
  fn,         \* the function of the running query: "isum" or "isumn", or "none"
  normalize,  \* C->normalize = 1
  sum,        \* the value at each index of the trie, before it is divided
  by,         \* the square of what it has been divided by
  len,        \* C->len: the sum of squares in it, and whether the root of an
              \*   earlier reading is in it too
  row, cur,   \* isum_add: the argument and the cursor into it
  word,       \*   the index in buffer
  size, todo, cap, text,   \* the passes over the trie, as in TagCloud, and
  plan,       \*   history: the indices measured, and size after each of them
  reply,      \* the last reply
  done        \* how many queries there have been, and clears, rows and reads

context == <<normalize, sum, by, len>>
input == <<row, cur, word>>
output == <<size, todo, cap, text, plan>>
vars == <<pc, fn, normalize, sum, by, len, row, cur, word,
          size, todo, cap, text, plan, reply, done>>

-------------------------------------------------------------------------------
NoVector == [w \in {} |-> 0]

Abs(n) == IF n < 0 THEN -n ELSE n
Width(n) == Cardinality({k \in NewDigit : k <= n}) + 1
Sign(n) == IF n < 0 THEN 1 ELSE 0

\* What "%f" prints for n, and for n divided by the length of a vector it is
\* an element of, which leaves nothing above 1.
ValueWidth(n, d) == Sign(n) + (IF d = 0 THEN Width(Abs(n)) ELSE 1) + Frac

\* vac_init: an empty trie, and C->len and C->normalize cleared.
VacInit == /\ sum' = NoVector /\ by' = NoVector
           /\ len' = [sq |-> 0, stale |-> FALSE]
           /\ size' = 0

Init ==
  /\ pc = "idle" /\ fn = "none" /\ normalize = FALSE
  /\ sum = NoVector /\ by = NoVector /\ len = [sq |-> 0, stale |-> FALSE]
  /\ row = <<>> /\ cur = Cursor(0, 0) /\ word = <<>>
  /\ size = 0 /\ todo = {} /\ cap = 0 /\ text = <<>> /\ plan = <<>>
  /\ reply = <<>>
  /\ done = [queries |-> 0, clears |-> 0, rows |-> 0, reads |-> 0]

\* isum_init and isumn_init with one string argument.
IsumInit(f) ==
  /\ pc = "idle" /\ fn = "none"
  /\ done.queries < MaxQueries
  /\ fn' = f
  /\ VacInit /\ normalize' = (f = "isumn")
  /\ done' = [queries |-> done.queries + 1, clears |-> 0, rows |-> 0, reads |-> 0]
  /\ UNCHANGED <<pc, input, todo, cap, text, plan, reply>>

\* isum_init or isumn_init refuses its arguments, or the context cannot be
\* allocated: initid->ptr is 0, and the server makes no further call.
IsumInitFails ==
  /\ pc = "idle" /\ fn = "none"
  /\ fn' = "none"
  /\ UNCHANGED <<pc, context, input, output, reply, done>>

\* Mutant of IsumClear: vac_init is all that isumn_clear does.
IsumClearForgetsNormalize ==
  /\ pc = "idle" /\ fn # "none"
  /\ done.clears < MaxClears
  /\ VacInit /\ normalize' = FALSE
  /\ done' = [done EXCEPT !.clears = @ + 1, !.rows = 0, !.reads = 0]
  /\ UNCHANGED <<pc, fn, input, todo, cap, text, plan, reply>>

\* isum_clear and isumn_clear: vac_clear, after which normalize is 0, and is
\* set again by isumn_clear.
IsumClear ==
  /\ pc = "idle" /\ fn # "none"
  /\ done.clears < MaxClears
  /\ VacInit /\ normalize' = (fn = "isumn")
  /\ done' = [done EXCEPT !.clears = @ + 1, !.rows = 0, !.reads = 0]
  /\ UNCHANGED <<pc, fn, input, todo, cap, text, plan, reply>>

\* isum_deinit and isumn_deinit.
IsumDeinit ==
  /\ pc = "idle" /\ fn # "none"
  /\ fn' = "none" /\ normalize' = FALSE
  /\ sum' = NoVector /\ by' = NoVector
  /\ UNCHANGED <<pc, len, input, output, reply, done>>

-------------------------------------------------------------------------------
Index(tok) == [k \in 1 .. Len(tok) |-> numberOf[tok[k]]]

\* nextWord puts the next index of x in the buffer.  If nothing is left of x
\* after it the loop ends, and an index without a value is dropped.
FetchIndex(x, c) ==
  LET r == NextWord(x, c)
  IN  IF r.cur.len > 0
      THEN pc' = "add" /\ row' = x /\ cur' = r.cur /\ word' = Index(r.tok)
      ELSE pc' = "idle" /\ row' = <<>> /\ cur' = Cursor(0, 0) /\ word' = <<>>

\* isum_add and isumn_add, up to the first test of the loop.  The server calls
\* them only before it has read the group.
IsumAdd(x) ==
  /\ pc = "idle" /\ fn # "none"
  /\ done.rows < MaxRows /\ done.reads = 0
  /\ FetchIndex(x, Start(x))
  /\ done' = [done EXCEPT !.rows = @ + 1]
  /\ UNCHANGED <<fn, context, output, reply>>

\* sum with v added at index w, a new node if there is none (va_add); an index
\* without characters is ignored.
VaAdd(w, v) ==
  IF w = <<>> THEN UNCHANGED <<sum, by>>
  ELSE /\ sum' = [u \in DOMAIN sum \cup {w} |->
                    (IF u \in DOMAIN sum THEN sum[u] ELSE 0)
                      + (IF u = w THEN v ELSE 0)]
       /\ by' = [u \in DOMAIN by \cup {w} |-> IF u \in DOMAIN by THEN by[u] ELSE 0]

\* Mutant of AddPair: the next index is looked for where the value is.
AddPairKeepsValue ==
  /\ pc = "add"
  /\ LET r == NextNumber(row, cur)
     IN  VaAdd(word, Atof[r.tok]) /\ FetchIndex(row, cur)
  /\ UNCHANGED <<fn, normalize, len, output, reply, done>>

\* One round of the loop: the value, va_add, and the next index.
AddPair ==
  /\ pc = "add"
  /\ LET r == NextNumber(row, cur)
     IN  VaAdd(word, Atof[r.tok]) /\ FetchIndex(row, r.cur)
  /\ UNCHANGED <<fn, normalize, len, output, reply, done>>

-------------------------------------------------------------------------------
\* An entry of the reply: the index, a ',' and the value, after a ';' unless it
\* is the first one.
Grow(n, w, width) == n + (IF n > 0 THEN 1 ELSE 0) + Len(w) + 1 + width

Visit(w) == /\ w \in todo /\ w = First(number2id, todo)
            /\ todo' = todo \ {w}

\* isum and isumn call vac_compute_output.  C->len is not reset: it holds the
\* root that an earlier reading of the group has left there.
IsumStart ==
  /\ pc = "idle" /\ fn # "none"
  /\ done.reads < MaxReads
  /\ pc' = "measure"
  /\ size' = 0 /\ todo' = DOMAIN sum /\ plan' = <<>>
  /\ len' = [len EXCEPT !.stale = @ \/ len.sq # 0]
  /\ UNCHANGED <<fn, normalize, sum, by, input, cap, text, reply, done>>

\* vac_prepare: the size of the entry, and the square of its value.
VacPrepare(w) ==
  /\ pc = "measure"
  /\ Visit(w)
  /\ size' = Grow(size, w, ValueWidth(sum[w], by[w]))
  /\ plan' = Append(plan, [node |-> w, size |-> Grow(size, w, ValueWidth(sum[w], by[w]))])
  /\ len' = [len EXCEPT !.sq = @ + sum[w] * sum[w]]
  /\ UNCHANGED <<pc, fn, normalize, sum, by, input, cap, text, reply, done>>

\* Mutant of Allocate: no byte for the NUL.
AllocateTight ==
  /\ pc = "measure" /\ todo = {}
  /\ pc' = "write"
  /\ cap' = size
  /\ size' = 0 /\ todo' = DOMAIN sum
  /\ UNCHANGED <<fn, context, input, text, plan, reply, done>>

\* The block for the text is allocated; C->len is the root of the squares.
Allocate ==
  /\ pc = "measure" /\ todo = {}
  /\ pc' = "write"
  /\ cap' = size + 1
  /\ size' = 0 /\ todo' = DOMAIN sum
  /\ UNCHANGED <<fn, context, input, text, plan, reply, done>>

\* The square of what a value is divided by after vac_write has seen it.
DividedBy(w) ==
  IF ~normalize \/ len.sq = 0 THEN by[w]
  ELSE IF len.stale \/ by[w] # 0 THEN Inexact ELSE len.sq

\* vac_write: the value in the node is divided, and then printed.
VacWrite(w) ==
  /\ pc = "write"
  /\ Visit(w)
  /\ by' = [by EXCEPT ![w] = DividedBy(w)]
  /\ size' = Grow(size, w, ValueWidth(sum[w], DividedBy(w)))
  /\ text' = Append(text, <<w, sum[w], DividedBy(w)>>)
  /\ UNCHANGED <<pc, fn, normalize, sum, len, input, cap, plan, reply, done>>

\* The text is copied to the server's buffer and its block is freed.
IsumReturn ==
  /\ pc = "write" /\ todo = {}
  /\ pc' = "idle"
  /\ reply' = text
  /\ cap' = 0 /\ text' = <<>> /\ plan' = <<>>
  /\ done' = [done EXCEPT !.reads = @ + 1]
  /\ UNCHANGED <<fn, context, input, size, todo>>

Continue ==
  \/ AddPair
  \/ \E w \in todo : VacPrepare(w) \/ VacWrite(w)
  \/ Allocate \/ IsumReturn

Next ==
  \/ \E f \in {"isum", "isumn"} : IsumInit(f)
  \/ IsumInitFails
  \/ IsumClear
  \/ \E x \in Rows : IsumAdd(x)
  \/ IsumStart
  \/ IsumDeinit
  \/ Continue

Spec == Init /\ [][Next]_vars /\ WF_vars(Continue)
-------------------------------------------------------------------------------
Divisors == Nat \cup {Inexact}

TypeOK ==
  /\ pc \in {"idle", "add", "measure", "write"}
  /\ fn \in {"isum", "isumn", "none"} /\ normalize \in BOOLEAN
  /\ DOMAIN sum = DOMAIN by
  /\ sum \in [DOMAIN sum -> Int] /\ by \in [DOMAIN by -> Divisors]
  /\ len \in [sq : Nat, stale : BOOLEAN]
  /\ row \in Rows \cup {<<>>} /\ Inside(row, cur)
  /\ size \in Nat /\ cap \in Nat /\ todo \subseteq DOMAIN sum

\* vac_write never needs more than vac_prepare has measured, although it
\* divides the values in between: no element exceeds the length of a vector.
ReplyFits == pc = "write" => size + 1 <= cap

\* Indices of as many digits come out in increasing order, which is the order
\* that doti, dist2i and jit expect of their arguments.
InOrder ==
  \A i, j \in DOMAIN text :
    /\ i < j
    /\ Len(text[i][1]) = Len(text[j][1])
    => \E k \in 1 .. Len(text[i][1]) :
         /\ Prefix(text[i][1], k - 1) = Prefix(text[j][1], k - 1)
         /\ number2id[text[i][1][k]] < number2id[text[j][1][k]]

===============================================================================
