------------------------------ MODULE MCSparseOps ------------------------------
(***************************************************************************)
(* Every argument of up to 2 characters over two digits and a separator,   *)
(* and longer ones: vectors and lists in and out of order, odd and empty   *)
(* fields, a field that is cut by MaxTok = 2.                              *)
(***************************************************************************)
EXTENDS SparseReference

Digits == {"1", "2", "3"}
MCCharset == Digits \cup {","}
Short == UNION {[1 .. n -> {"1", "2", ","}] : n \in 0 .. 2}
Medium == {<<"1", ",", "2">>, <<"2", ",", "1">>, <<",", "1", ",">>,
           <<"1", "2", ",">>, <<"1", ",", ",">>}
Long == {<<"1", ",", "2", ",", "2", ",", "3">>,
         <<"1", ",", "3", ",", "3", ",", "2">>,
         <<"2", ",", "2", ",", "3", ",", "1">>,
         <<"3", ",", "1", ",", "1", ",", "2">>,
         <<"1", ",", "1", ",", "2">>,
         <<"1", ",", ",", "2", ",", "1">>,
         <<"1", ",", "2", ",", "3">>,
         <<"2", ",", "1", "2", ",", "3", ",", "1">>}
MCArgs == Short \cup Medium \cup Long
Value(ch) == CASE ch = "1" -> 1 [] ch = "2" -> 2 [] ch = "3" -> 3
MCNumber ==
  [t \in UNION {[1 .. n -> Digits] : n \in 0 .. 2} |->
    IF t = <<>> THEN 0
    ELSE IF Len(t) = 1 THEN Value(t[1]) ELSE 10 * Value(t[1]) + Value(t[2])]
===============================================================================
