-------------------------- MODULE TagCloudRefinement --------------------------
(***************************************************************************)
(* The trie of tagcloud implements the bag of words of WordBag.  While a   *)
(* row is being added the bag is the counts of the trie and the words of   *)
(* the row that tagcloud_add has still to count: the one in its buffer and *)
(* those from the cursor on.                                               *)
(***************************************************************************)
EXTENDS TagCloud

Words == INSTANCE RowWords

\* The words in the trie.
Counted == [p \in {q \in DOMAIN count : count[q] > 0} |-> Shown(count[p])]

\* ... and the word in the buffer.
WithBuffer ==
  IF word = <<>> THEN Counted
  ELSE [p \in DOMAIN Counted \cup {word} |->
          IF p = word THEN Shown(Words!CountIn(Counted, p) + 1) ELSE Counted[p]]

\* ... and those after the cursor.
Bag == IF cur.len = 0 THEN WithBuffer
                      ELSE Words!Plus(WithBuffer, row, cur.pos + 1)

Abstract == INSTANCE WordBag WITH open <- ptr # Null, bag <- Bag,
                                  reply <- {reply[i] : i \in DOMAIN reply}

\* tagcloud counts, for each group, exactly the words of the group's rows, and
\* replies with them: however the rows are cut into words and whatever earlier
\* groups left in the context.
CountsWords == Abstract!Spec
===============================================================================
