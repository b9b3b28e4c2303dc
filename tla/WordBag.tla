------------------------------- MODULE WordBag -------------------------------
(***************************************************************************)
(* What the tagcloud aggregate promises: for the rows of the current       *)
(* group, how often each word occurs, saturated at MaxShown.  No trie, no  *)
(* buffer and no cursor: a row is added in one step.                       *)
(***************************************************************************)
EXTENDS RowWords

CONSTANT Rows   \* the values of the aggregated column

VARIABLES
  open,    \* an aggregation is running
  bag,     \* the words of the current group
  reply    \* the last reply given, a set of words and counts

vars == <<open, bag, reply>>

Init == /\ open = FALSE
        /\ bag = NoWords
        /\ reply = {}

Open == /\ ~open
        /\ open' = TRUE
        /\ UNCHANGED <<bag, reply>>

Clear == /\ open
         /\ bag' = NoWords
         /\ UNCHANGED <<open, reply>>

AddRow(x) == /\ open
             /\ bag' = Plus(bag, x, 1)
             /\ UNCHANGED <<open, reply>>

Read == /\ open
        /\ reply' = Entries(bag)
        /\ UNCHANGED <<open, bag>>

Close == /\ open
         /\ open' = FALSE
         /\ bag' = NoWords
         /\ UNCHANGED reply

Next == \/ Open \/ Clear \/ Read \/ Close
        \/ \E x \in Rows : AddRow(x)

Spec == Init /\ [][Next]_vars
==============================================================================
