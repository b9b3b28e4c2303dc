------------------------------- MODULE RowWords -------------------------------
(***************************************************************************)
(* The words of a row, defined over its positions instead of by a scan:    *)
(* a word is a run of characters other than separators.                    *)
(***************************************************************************)
EXTENDS Fields

CONSTANTS
  Letters,     \* the letters kept as they are; any other one becomes Other
  Other,
  MaxShown     \* counts are shown up to this number

\* The character a word shows for ch.
LetterOf(ch) == IF ch \in Letters THEN ch ELSE Other

\* The word that begins at position i.
WordAt(x, i) ==
  [k \in 1 .. Lower(RunLen(x, i), MaxTok) |-> LetterOf(x[i + k - 1])]

\* The positions of x from p on where a run of non-separators begins.
Runs(x, p) ==
  {i \in p .. Len(x) : x[i] \notin Sep /\ (i = p \/ x[i - 1] \in Sep)}

\* The runs that are read: nothing after a run of MaxTok characters is.
ReadRuns(x, p) ==
  {i \in Runs(x, p) : \A k \in Runs(x, p) : k < i => RunLen(x, k) < MaxTok}

\* A bag of words is a function from the words that occur to their counts.
NoWords == [w \in {} |-> 0]
CountIn(bag, w) == IF w \in DOMAIN bag THEN bag[w] ELSE 0

\* bag with the words of x from position p on, saturated.
Plus(bag, x, p) ==
  LET fresh == {WordAt(x, i) : i \in ReadRuns(x, p)}
  IN  [w \in DOMAIN bag \cup fresh |->
        Lower(MaxShown,
              CountIn(bag, w)
                + Cardinality({i \in ReadRuns(x, p) : WordAt(x, i) = w}))]

\* The reply for a bag: one entry for each word and its count.
Entries(bag) == {<<w, bag[w]>> : w \in DOMAIN bag}
===============================================================================
