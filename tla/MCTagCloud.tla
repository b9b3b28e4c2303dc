------------------------------ MODULE MCTagCloud ------------------------------
(***************************************************************************)
(* A small server process: columns over two letters and a separator.      *)
(***************************************************************************)
EXTENDS TagCloudRefinement

\* Rows with a word cut by MaxTok = 2 and one given up after it, empty words,
\* a trailing separator, a letter that is shown as Other, a shared prefix.
MCRows == {<<>>, <<"a">>, <<"a", ",", "a">>, <<"a", "B">>, <<",", "a", ",">>,
           <<"a", "a", "a", ",", "B">>, <<"B", ",", "a", "B", ",", "a">>}
MCBlocks == 1 .. 16
MCletter2id == [ch \in {"a", "_"} |-> IF ch = "a" THEN 0 ELSE 26]
===============================================================================
