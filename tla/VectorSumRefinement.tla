-------------------------- MODULE VectorSumRefinement --------------------------
(***************************************************************************)
(* isum and isumn implement VectorBag.  While a row is being added, the    *)
(* vector is the one in the trie and the rest of the row, from the index   *)
(* in the buffer on.                                                       *)
(***************************************************************************)
EXTENDS VectorSum

CONSTANT Unspecified

Vectors == INSTANCE VectorBag WITH open <- fn, vec <- sum, asked <- FALSE,
                                   reply <- {}

Vector == IF pc = "add" THEN Vectors!Plus(sum, row, cur.pos - Len(word)) ELSE sum

Reply ==
  IF \E i \in DOMAIN reply : reply[i][3] = Inexact THEN Unspecified
  ELSE {reply[i] : i \in DOMAIN reply}

Abstract == INSTANCE VectorBag WITH open <- fn, vec <- Vector,
                                    asked <- done.reads > 0 /\ fn # "none",
                                    reply <- Reply

\* The first reply for a group is the sum of the vectors in its rows, however
\* they are written, and that of isumn is the sum divided by its length: it has
\* unit length, after every clear.
SumsVectors == Abstract!Spec
===============================================================================
