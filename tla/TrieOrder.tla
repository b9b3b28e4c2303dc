------------------------------- MODULE TrieOrder -------------------------------
(***************************************************************************)
(* The order of the nodes of a trie.  A node is named by its path from the *)
(* root, a word; slot gives the child slot of each character.              *)
(***************************************************************************)
EXTENDS Naturals, Sequences

\* The first n characters of a word.
Prefix(w, n) == SubSeq(w, 1, n)

\* The order in which the recursive passes reach nodes: a node, then its
\* children by their slots.
Before(slot, p, q) ==
  \/ Len(p) < Len(q) /\ Prefix(q, Len(p)) = p
  \/ \E k \in 1 .. Len(p) :
       /\ k <= Len(q) /\ Prefix(p, k - 1) = Prefix(q, k - 1)
       /\ slot[p[k]] < slot[q[k]]

\* Mutant of First: the children are visited from the last slot to the first.
FirstReversed(slot, S) == CHOOSE p \in S : \A q \in S \ {p} : Before(slot, q, p)

First(slot, S) == CHOOSE p \in S : \A q \in S \ {p} : Before(slot, p, q)
================================================================================
