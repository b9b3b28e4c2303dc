------------------------------- MODULE SparseOps -------------------------------
(***************************************************************************)
(* The functions of two arguments that read them in step: dotf and doti    *)
(* (fun_dot.c), dist2f and dist2i (fun_dist2.c), and jit (fun_jit.c).      *)
(* dotf and dist2f take lists of values, doti and dist2i sparse vectors -  *)
(* an index and its value in turn - and jit lists of indices.              *)
(*                                                                         *)
(* Nothing is kept between two calls.  A round of a loop is a step; pc     *)
(* names the loop, in the order of the source: "main" reads both           *)
(* arguments, "rest1" and "rest2" what is left of the first and of the     *)
(* second.  The arguments and the result stay until "done" is left.        *)
(***************************************************************************)
EXTENDS UdfTokens, Integers

CONSTANTS
  Charset,   \* the characters of the arguments
  Args,      \* the arguments
  Number     \* the number that atoi or atof reads in a token

ASSUME SparseOpsAssumption ==
  /\ Args \subseteq Seq(Charset)
  /\ \A n \in 0 .. MaxTok : \A t \in [1 .. n -> Charset \ Sep] : Number[t] \in Int
  /\ Number[<<>>] = 0

VARIABLES
  pc,
  fn,        \* the function called
  x1, x2,    \* its arguments
  c1, c2,    \* V1 and len1, V2 and len2
  i1, i2,    \* idx1, idx2
  dp         \* dp, or what jit returns

vars == <<pc, fn, x1, x2, c1, c2, i1, i2, dp>>

Functions == {"dotf", "doti", "dist2f", "dist2i", "jit"}
Sparse == {"doti", "dist2i"}

\* The number at the cursor, and the cursor behind it.
Num(x, c) == Number[NextNumber(x, c).tok]
After(x, c) == NextNumber(x, c).cur

\* What a pair of values, and a value without a counterpart, add to dp.
Term(f, u, v) == IF f \in {"dotf", "doti"} THEN u * v ELSE (u - v) * (u - v)
Alone(f, v) == IF f \in {"dotf", "doti"} THEN 0 ELSE v * v

Init ==
  /\ pc = "idle" /\ fn = "jit"
  /\ x1 = <<>> /\ x2 = <<>> /\ c1 = Cursor(0, 0) /\ c2 = Cursor(0, 0)
  /\ i1 = 0 /\ i2 = 0 /\ dp = 0

\* dotf and dist2f enter their loop at once.
CallDense(f, x, y) ==
  /\ pc = "idle" /\ f \in {"dotf", "dist2f"}
  /\ pc' = "main" /\ fn' = f
  /\ x1' = x /\ x2' = y /\ c1' = Start(x) /\ c2' = Start(y)
  /\ i1' = 0 /\ i2' = 0 /\ dp' = 0

\* doti and dist2i read the first index of each argument before, ...
CallSparse(f, x, y) ==
  /\ pc = "idle" /\ f \in Sparse
  /\ pc' = "main" /\ fn' = f
  /\ x1' = x /\ x2' = y /\ c1' = After(x, Start(x)) /\ c2' = After(y, Start(y))
  /\ i1' = Num(x, Start(x)) /\ i2' = Num(y, Start(y)) /\ dp' = 0

\* ... and so does jit, which returns it at once if it is the same.
CallJit(x, y) ==
  /\ pc = "idle"
  /\ fn' = "jit"
  /\ x1' = x /\ x2' = y /\ c1' = After(x, Start(x)) /\ c2' = After(y, Start(y))
  /\ i1' = Num(x, Start(x)) /\ i2' = Num(y, Start(y))
  /\ IF i1' = i2' THEN pc' = "done" /\ dp' = i1' ELSE pc' = "main" /\ dp' = 0

Both == c1.len > 0 /\ c2.len > 0

\* dotf, dist2f: the next value of each list.
DenseStep ==
  /\ pc = "main" /\ fn \in {"dotf", "dist2f"} /\ Both
  /\ dp' = dp + Term(fn, Num(x1, c1), Num(x2, c2))
  /\ c1' = After(x1, c1) /\ c2' = After(x2, c2)
  /\ UNCHANGED <<pc, fn, x1, x2, i1, i2>>

\* doti, dist2i: both vectors have the index; both go to their next one.
Match ==
  /\ pc = "main" /\ fn \in Sparse /\ Both /\ i1 = i2
  /\ dp' = dp + Term(fn, Num(x1, c1), Num(x2, c2))
  /\ i1' = Num(x1, After(x1, c1)) /\ c1' = After(x1, After(x1, c1))
  /\ i2' = Num(x2, After(x2, c2)) /\ c2' = After(x2, After(x2, c2))
  /\ UNCHANGED <<pc, fn, x1, x2>>

\* Mutant of Behind1: the value of the skipped index is taken for an index.
Behind1KeepsValue ==
  /\ pc = "main" /\ fn \in Sparse /\ Both /\ i1 < i2
  /\ dp' = dp + Alone(fn, Num(x1, c1))
  /\ i1' = Num(x1, c1) /\ c1' = After(x1, c1)
  /\ UNCHANGED <<pc, fn, x1, x2, c2, i2>>

\* doti, dist2i: the first vector is behind; it goes to its next index.
Behind1 ==
  /\ pc = "main" /\ fn \in Sparse /\ Both /\ i1 < i2
  /\ dp' = dp + Alone(fn, Num(x1, c1))
  /\ i1' = Num(x1, After(x1, c1)) /\ c1' = After(x1, After(x1, c1))
  /\ UNCHANGED <<pc, fn, x1, x2, c2, i2>>

\* doti, dist2i: the second one is.
Behind2 ==
  /\ pc = "main" /\ fn \in Sparse /\ Both /\ i1 > i2
  /\ dp' = dp + Alone(fn, Num(x2, c2))
  /\ i2' = Num(x2, After(x2, c2)) /\ c2' = After(x2, After(x2, c2))
  /\ UNCHANGED <<pc, fn, x1, x2, c1, i1>>

\* jit: the smaller of two different indices is given up for the next one.
JitSkip1 ==
  /\ pc = "main" /\ fn = "jit" /\ Both /\ i1 < i2
  /\ i1' = Num(x1, c1) /\ c1' = After(x1, c1)
  /\ UNCHANGED <<pc, fn, x1, x2, c2, i2, dp>>

JitSkip2 ==
  /\ pc = "main" /\ fn = "jit" /\ Both /\ i1 > i2
  /\ i2' = Num(x2, c2) /\ c2' = After(x2, c2)
  /\ UNCHANGED <<pc, fn, x1, x2, c1, i1, dp>>

\* jit: an index that both lists have is the result.
JitFound ==
  /\ pc = "main" /\ fn = "jit" /\ Both /\ i1 = i2
  /\ pc' = "done" /\ dp' = i1
  /\ UNCHANGED <<fn, x1, x2, c1, c2, i1, i2>>

\* Mutant of MainEnds: jit gives up with the shorter list.
MainEndsAtOnce ==
  /\ pc = "main" /\ ~Both
  /\ pc' = IF fn \in {"dotf", "doti", "jit"} THEN "done" ELSE "rest1"
  /\ UNCHANGED <<fn, x1, x2, c1, c2, i1, i2, dp>>

\* The main loop ends with either argument: dotf and doti return.
MainEnds ==
  /\ pc = "main" /\ ~Both
  /\ pc' = IF fn \in {"dotf", "doti"} THEN "done" ELSE "rest1"
  /\ UNCHANGED <<fn, x1, x2, c1, c2, i1, i2, dp>>

\* dist2f, dist2i: what is left of an argument, and for dist2i the index of
\* the next value.
RestOf(x, c) ==
  IF fn = "dist2i" THEN [cur |-> After(x, After(x, c)), idx |-> Num(x, After(x, c))]
  ELSE [cur |-> After(x, c), idx |-> 0]

\* Mutant of Rest1: an index is read before the value, as at the start.
Rest1SkipsValue ==
  /\ pc = "rest1" /\ fn \in {"dist2f", "dist2i"} /\ c1.len > 0
  /\ dp' = dp + Alone(fn, Num(x1, After(x1, c1)))
  /\ c1' = RestOf(x1, c1).cur /\ i1' = RestOf(x1, c1).idx
  /\ UNCHANGED <<pc, fn, x1, x2, c2, i2>>

Rest1 ==
  /\ pc = "rest1" /\ fn \in {"dist2f", "dist2i"} /\ c1.len > 0
  /\ dp' = dp + Alone(fn, Num(x1, c1))
  /\ c1' = RestOf(x1, c1).cur /\ i1' = RestOf(x1, c1).idx
  /\ UNCHANGED <<pc, fn, x1, x2, c2, i2>>

Rest2 ==
  /\ pc = "rest2" /\ fn \in {"dist2f", "dist2i"} /\ c2.len > 0
  /\ dp' = dp + Alone(fn, Num(x2, c2))
  /\ c2' = RestOf(x2, c2).cur /\ i2' = RestOf(x2, c2).idx
  /\ UNCHANGED <<pc, fn, x1, x2, c1, i1>>

\* jit: what is left of one list may still hold the index the other ended on.
JitRest1 ==
  /\ pc = "rest1" /\ fn = "jit" /\ c1.len > 0 /\ i1 < i2
  /\ i1' = Num(x1, c1) /\ c1' = After(x1, c1)
  /\ UNCHANGED <<pc, fn, x1, x2, c2, i2, dp>>

JitRest2 ==
  /\ pc = "rest2" /\ fn = "jit" /\ c2.len > 0 /\ i1 > i2
  /\ i2' = Num(x2, c2) /\ c2' = After(x2, c2)
  /\ UNCHANGED <<pc, fn, x1, x2, c1, i1, dp>>

Rest1Ends ==
  /\ pc = "rest1" /\ (c1.len = 0 \/ (fn = "jit" /\ i1 >= i2))
  /\ pc' = "rest2"
  /\ UNCHANGED <<fn, x1, x2, c1, c2, i1, i2, dp>>

Rest2Ends ==
  /\ pc = "rest2" /\ (c2.len = 0 \/ (fn = "jit" /\ i1 <= i2))
  /\ pc' = "done"
  /\ dp' = IF fn = "jit" THEN (IF i1 = i2 THEN i1 ELSE 0) ELSE dp
  /\ UNCHANGED <<fn, x1, x2, c1, c2, i1, i2>>

\* The server has the result.
Return ==
  /\ pc = "done"
  /\ pc' = "idle" /\ fn' = "jit"
  /\ x1' = <<>> /\ x2' = <<>> /\ c1' = Cursor(0, 0) /\ c2' = Cursor(0, 0)
  /\ i1' = 0 /\ i2' = 0 /\ dp' = 0

Continue ==
  \/ DenseStep \/ Match \/ Behind1 \/ Behind2
  \/ JitSkip1 \/ JitSkip2 \/ JitFound
  \/ MainEnds
  \/ Rest1 \/ JitRest1 \/ Rest1Ends
  \/ Rest2 \/ JitRest2 \/ Rest2Ends
  \/ Return

Next ==
  \/ \E f \in Functions, x, y \in Args :
       CallDense(f, x, y) \/ CallSparse(f, x, y)
  \/ \E x, y \in Args : CallJit(x, y)
  \/ Continue

Spec == Init /\ [][Next]_vars /\ WF_vars(Continue)
-------------------------------------------------------------------------------
TypeOK ==
  /\ pc \in {"idle", "main", "rest1", "rest2", "done"}
  /\ fn \in Functions
  /\ x1 \in Args \cup {<<>>} /\ x2 \in Args \cup {<<>>}
  /\ Inside(x1, c1) /\ Inside(x2, c2)
  /\ i1 \in Int /\ i2 \in Int /\ dp \in Int
===============================================================================
