-------------------------------- MODULE Fields --------------------------------
(***************************************************************************)
(* The fields of an argument, defined over its positions instead of by a   *)
(* scan: what lies between two separators.                                 *)
(***************************************************************************)
EXTENDS Naturals, Sequences, FiniteSets

CONSTANTS
  Sep,      \* the characters between fields
  MaxTok    \* a field is cut after so many characters

Lower(a, b) == IF a < b THEN a ELSE b

\* The number of characters from position i to the next separator.
RunLen(x, i) ==
  Cardinality({j \in i .. Len(x) : \A k \in i .. j : x[k] \notin Sep})

\* The positions where a field begins, and the rank of the one at i.
Starts(x) == {i \in 1 .. Len(x) : i = 1 \/ x[i - 1] \in Sep}
FieldNo(x, i) == Cardinality({j \in Starts(x) : j <= i})

\* The field at i, as it is read.
Field(x, i) == SubSeq(x, i, i + Lower(RunLen(x, i), MaxTok) - 1)

\* The fields that are read: nothing behind one that is cut.
ReadFields(x) ==
  {i \in Starts(x) : \A j \in Starts(x) : j < i => RunLen(x, j) < MaxTok}

\* No field up to i is cut: the reading gets past it.
Passed(x, i) == \A j \in Starts(x) : j <= i => RunLen(x, j) < MaxTok

\* The positions of the first fields of pairs: they have an odd rank, and a
\* character follows the separator behind them.
PairStarts(x) ==
  {i \in Starts(x) : /\ FieldNo(x, i) % 2 = 1
                     /\ Passed(x, i)
                     /\ i + RunLen(x, i) + 1 <= Len(x)}

\* The position of the second field of the pair at i.
SecondOf(x, i) == i + RunLen(x, i) + 1
===============================================================================
