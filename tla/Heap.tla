--------------------------------- MODULE Heap ---------------------------------
(***************************************************************************)
(* The C heap as the aggregates use it, and the trie they build in it.     *)
(* A trie node is named by its path from the root, the sequence of child   *)
(* slots that leads to it; blk gives the block each node of the trie       *)
(* occupies, so that p is a node iff p \in DOMAIN blk.  Both tries of the  *)
(* library (TAGCLOUD, 27 children, and VECTORREGISTER, 11 children) have   *)
(* this shape and the same add, destroy and clear code.                    *)
(***************************************************************************)
EXTENDS TrieOrder

CONSTANT Blocks      \* the blocks malloc can return; bounds the memory

\* malloc: some block that is not in use (h is the set of those that are).
Fresh(h) == CHOOSE b \in Blocks : b \notin h

\* The model stops where the memory of the instance ends.
HasRoom(h) == \E b \in Blocks : b \notin h

BlocksOf(blk) == {blk[p] : p \in DOMAIN blk}

\* A trie of one node, as tcc_init and vac_init make it.
RootOnly(b) == [p \in {<<>>} |-> b]

\* blk after one level of tc_add or va_add: the missing child is allocated.
Graft(blk, p, b) ==
  [q \in DOMAIN blk \cup {p} |-> IF q \in DOMAIN blk THEN blk[q] ELSE b]

\* What tc_destroy and va_destroy free: every node below the root they are
\* given, and not that root itself.
BelowRoot(blk) == {blk[p] : p \in DOMAIN blk \ {<<>>}}

\* A pointer structure: a root, parents present, no node reached twice.
IsTrie(blk) ==
  /\ <<>> \in DOMAIN blk
  /\ \A p \in DOMAIN blk : \A n \in 0 .. Len(p) : Prefix(p, n) \in DOMAIN blk
  /\ \A p, q \in DOMAIN blk : blk[p] = blk[q] => p = q
===============================================================================
