------------------------------ MODULE MCVectorSum ------------------------------
(***************************************************************************)
(* Vectors over the digits 1 and 2 and a minus sign.                       *)
(***************************************************************************)
EXTENDS VectorSumRefinement

\* Rows with a repeated index, an index of two digits, one that is cut by
\* MaxTok = 3, a value that is cut and hides what follows, an index without a
\* value, an empty index and an empty value, a character that is no digit.
MCRows == {<<"1", ",", "2", ",", "1", "2", ",", "-", "1">>,
           <<"2", ",", "1", ",", "1", ",", "-", "2">>,
           <<"1", ",", "2", "1", "1", ",", "2", ",", "1">>,
           <<"1", "1", "2", ",", "1">>,
           <<"2", ",", ",", "1">>,
           <<",", "1", ",", "-", ",", "1">>}
MCnumberOf ==
  [ch \in Charset |-> IF ch \in {"1", "2"} THEN ch ELSE "."]
MCnumber2id == [ch \in {"1", "2", "."} |-> CASE ch = "1" -> 1
                                             [] ch = "2" -> 2
                                             [] ch = "." -> 10]
Tokens == UNION {[1 .. n -> Charset \ Sep] : n \in 0 .. MaxTok}
Digit(ch) == IF ch = "1" THEN 1 ELSE 2

\* The number of the leading digits of t.
Leading(t) ==
  LET n == CHOOSE k \in 0 .. Len(t) :
             /\ \A i \in 1 .. k : t[i] # "-"
             /\ k < Len(t) => t[k + 1] = "-"
  IN  IF n = 0 THEN 0
      ELSE IF n = 1 THEN Digit(t[1])
      ELSE IF n = 2 THEN 10 * Digit(t[1]) + Digit(t[2])
      ELSE 100 * Digit(t[1]) + 10 * Digit(t[2]) + Digit(t[3])
MCAtof == [t \in Tokens |->
             IF t # <<>> /\ t[1] = "-" THEN -Leading(Tail(t)) ELSE Leading(t)]
===============================================================================
