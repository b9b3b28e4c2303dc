------------------------------- MODULE TagCloud -------------------------------
(***************************************************************************)
(* The tagcloud aggregate (fun_tagcloud.c): the words of the rows of a     *)
(* group are counted in a trie, and the group's reply lists every word     *)
(* with its count.  The reply is built in two passes over the trie: one    *)
(* adds up the size, one writes into a block of exactly that size.         *)
(*                                                                         *)
(* The server's thread makes one call at a time.  tagcloud_init,           *)
(* tagcloud_clear and tagcloud_deinit are one step each; tagcloud_add      *)
(* takes a step for every level of the trie it walks, and tagcloud one     *)
(* for every word it measures and for every word it writes, so that the    *)
(* state between them is checked.                                          *)
(***************************************************************************)
EXTENDS UdfTokens, Heap, FiniteSets

CONSTANTS
  Letters,      \* 'a' .. 'z'
  Other,        \* '_', what letterOf makes of any other character
  letter2id,    \* the child slot of each letter and of Other
  MaxDepth,     \* no node is written at this depth or below (128)
  MaxShown,     \* counts are shown up to this number (100000000)
  NewDigit,     \* the numbers that take a digit more (10, 100, ...)
  Charset,      \* the characters of the aggregated column
  Rows,         \* its values
  Null,         \* the null pointer
  MaxQueries, MaxClears, MaxRows   \* bounds of the instance

ASSUME TagCloudAssumption ==
  /\ Rows \subseteq Seq(Charset)
  /\ MaxDepth \in Nat /\ MaxTok < MaxDepth
  /\ letter2id \in [Letters \cup {Other} -> Nat]
  /\ MaxShown \in Nat \ {0}
  /\ NewDigit \subseteq Nat
  /\ Null \notin Blocks
  /\ MaxQueries \in Nat /\ MaxClears \in Nat /\ MaxRows \in Nat

VARIABLES
  pc,       \* "idle", or what the running call does: "add", "measure", "write"
  ptr,      \* initid->ptr, the block of the TAGCLOUDCONTEXT
  blk,      \* C->root and its descendants
  count,    \* the count of each node
  heap,     \* the allocated blocks
  row, cur, \* tagcloud_add: the argument and the cursor into it
  word,     \*   buffer and wlen, or an empty word when avail is 0
  depth,    \* tc_add: how many letters of the word have been walked
  size,     \* C->size
  todo,     \* the nodes the running pass over the trie has still to visit
  out,      \* C->output, the block of the text
  cap,      \* how many bytes were allocated for it
  text,     \* what has been written: the words with their counts
  plan,     \* history: the words measured, and size after each of them
  reply,    \* the last reply given to the server
  done      \* how many queries, clears and rows there have been

trie == <<blk, count>>
input == <<row, cur, word, depth>>
output == <<size, todo, out, cap, text, plan>>
vars == <<pc, ptr, blk, count, heap, row, cur, word, depth,
          size, todo, out, cap, text, plan, reply, done>>

-------------------------------------------------------------------------------
\* The number of digits of n.
Width(n) == Cardinality({k \in NewDigit : k <= n}) + 1

LetterOf(ch) == IF ch \in Letters THEN ch ELSE Other

Word(tok) == [k \in 1 .. Len(tok) |-> LetterOf(tok[k])]

\* The count that is printed.
Shown(n) == IF n >= MaxShown THEN MaxShown ELSE n

\* The nodes both passes visit with a count to show.
Visible == {p \in DOMAIN count : /\ 0 < Len(p) /\ Len(p) < MaxDepth
                                 /\ count[p] > 0}

NoTrie == [p \in {} |-> 0]

Init ==
  /\ pc = "idle" /\ ptr = Null /\ heap = {}
  /\ blk = NoTrie /\ count = NoTrie
  /\ row = <<>> /\ cur = Cursor(0, 0) /\ word = <<>> /\ depth = 0
  /\ size = 0 /\ todo = {} /\ out = Null /\ cap = 0
  /\ text = <<>> /\ plan = <<>>
  /\ reply = <<>>
  /\ done = [queries |-> 0, clears |-> 0, rows |-> 0]

-------------------------------------------------------------------------------
\* tagcloud_init with one string argument: the context and an empty trie.
TagcloudInit ==
  /\ pc = "idle" /\ ptr = Null
  /\ done.queries < MaxQueries
  /\ HasRoom(heap) /\ HasRoom(heap \cup {Fresh(heap)})
  /\ LET c == Fresh(heap)
         r == Fresh(heap \cup {c})
     IN  /\ ptr' = c
         /\ blk' = RootOnly(r)
         /\ heap' = heap \cup {c, r}
  /\ count' = [p \in {<<>>} |-> 0]
  /\ size' = 0 /\ out' = Null
  /\ done' = [queries |-> done.queries + 1, clears |-> 0, rows |-> 0]
  /\ UNCHANGED <<pc, input, todo, cap, text, plan, reply>>

\* tagcloud_init refuses its arguments, or the context cannot be allocated:
\* initid->ptr is 0 and status 1, and the server makes no further call.
TagcloudInitFails ==
  /\ pc = "idle" /\ ptr = Null
  /\ ptr' = Null
  /\ UNCHANGED <<pc, trie, heap, input, output, reply, done>>

\* Mutant of TagcloudClear: tc_destroy is not called.
TagcloudClearDropsTrie ==
  /\ pc = "idle" /\ ptr # Null
  /\ done.clears < MaxClears
  /\ HasRoom(heap)
  /\ blk' = RootOnly(Fresh(heap)) /\ heap' = heap \cup {Fresh(heap)}
  /\ count' = [p \in {<<>>} |-> 0]
  /\ size' = 0 /\ out' = Null
  /\ done' = [done EXCEPT !.clears = @ + 1]
  /\ UNCHANGED <<pc, ptr, input, todo, cap, text, plan, reply>>

\* tagcloud_clear: the nodes below the root are freed, the output if there is
\* one, and then tcc_init puts a new root in place of the old one.
TagcloudClear ==
  /\ pc = "idle" /\ ptr # Null
  /\ done.clears < MaxClears
  /\ LET kept == (heap \ BelowRoot(blk)) \ {out}
     IN  /\ HasRoom(kept)
         /\ blk' = RootOnly(Fresh(kept))
         /\ heap' = kept \cup {Fresh(kept)}
  /\ count' = [p \in {<<>>} |-> 0]
  /\ size' = 0 /\ out' = Null
  /\ done' = [done EXCEPT !.clears = @ + 1]
  /\ UNCHANGED <<pc, ptr, input, todo, cap, text, plan, reply>>

\* nextWord on argument x: what tagcloud_add looks at next.
Fetch(x, c) ==
  LET r == NextWord(x, c)
  IN  /\ word' = IF r.avail THEN Word(r.tok) ELSE <<>>
      /\ cur' = r.cur

\* tagcloud_add, up to the first test of the loop.
TagcloudAdd(x) ==
  /\ pc = "idle" /\ ptr # Null
  /\ done.rows < MaxRows
  /\ pc' = "add"
  /\ row' = x /\ depth' = 0
  /\ Fetch(x, Start(x))
  /\ done' = [done EXCEPT !.rows = @ + 1]
  /\ UNCHANGED <<ptr, trie, heap, output, reply>>

\* The locals of tagcloud_add outside of a call.
NoInput == row' = <<>> /\ cur' = Cursor(0, 0) /\ word' = <<>>

\* Mutant of NextOrReturn: the word that ends the row is not added.
NextOrReturnForgetsLast ==
  /\ depth' = 0
  /\ IF cur.len > 0 /\ NextWord(row, cur).cur.len > 0
     THEN pc' = "add" /\ Fetch(row, cur) /\ UNCHANGED row
     ELSE pc' = "idle" /\ NoInput

\* The word has been added: the loop goes on while len > 0.
NextOrReturn ==
  /\ depth' = 0
  /\ IF cur.len > 0
     THEN pc' = "add" /\ Fetch(row, cur)
          /\ UNCHANGED row
     ELSE pc' = "idle" /\ NoInput

\* tc_add is given a word without letters, or there was no word: no effect.
SkipWord ==
  /\ pc = "add" /\ word = <<>>
  /\ NextOrReturn
  /\ UNCHANGED <<ptr, trie, heap, output, reply, done>>

\* One level of tc_add: the child for the next letter is allocated if it is
\* missing.  Above the last letter the walk goes on from that child ...
TcAddDescend ==
  /\ pc = "add" /\ depth + 1 < Len(word)
  /\ LET p == Prefix(word, depth + 1)
     IN  IF p \in DOMAIN blk
         THEN UNCHANGED <<trie, heap>>
         ELSE /\ HasRoom(heap)
              /\ blk' = Graft(blk, p, Fresh(heap))
              /\ count' = Graft(count, p, 0)
              /\ heap' = heap \cup {Fresh(heap)}
  /\ depth' = depth + 1
  /\ UNCHANGED <<pc, ptr, row, cur, word, output, reply, done>>

\* ... and at the last letter its count goes up.
TcAddCount ==
  /\ pc = "add" /\ depth + 1 = Len(word)
  /\ IF word \in DOMAIN blk
     THEN /\ count' = [count EXCEPT ![word] = @ + 1]
          /\ UNCHANGED <<blk, heap>>
     ELSE /\ HasRoom(heap)
          /\ blk' = Graft(blk, word, Fresh(heap))
          /\ count' = Graft(count, word, 1)
          /\ heap' = heap \cup {Fresh(heap)}
  /\ NextOrReturn
  /\ UNCHANGED <<ptr, output, reply, done>>

-------------------------------------------------------------------------------
\* A word in the reply: its letters, a ':' and the digits of its count, after
\* a ',' unless it is the first one.
Grow(n, p) == n + (IF n > 0 THEN 1 ELSE 0) + Len(p) + 1 + Width(Shown(count[p]))

\* A pass reaches the next node that has a count, and cuts it to MaxShown.
Visit(p) ==
  /\ p \in todo /\ p = First(letter2id, todo)
  /\ todo' = todo \ {p}
  /\ size' = Grow(size, p)
  /\ count' = [count EXCEPT ![p] = Shown(@)]

\* tagcloud calls tcc_compute_output: size starts from 0 and ...
TagcloudStart ==
  /\ pc = "idle" /\ ptr # Null
  /\ pc' = "measure"
  /\ size' = 0 /\ todo' = Visible /\ plan' = <<>>
  /\ UNCHANGED <<ptr, trie, heap, input, out, cap, text, reply, done>>

\* ... tcc_prepare adds up what the words will take.
TccPrepare(p) ==
  /\ pc = "measure"
  /\ Visit(p)
  /\ plan' = Append(plan, [node |-> p, size |-> Grow(size, p)])
  /\ UNCHANGED <<pc, ptr, blk, heap, input, out, cap, text, reply, done>>

\* Mutant of Allocate: no byte for the NUL.
AllocateTight ==
  /\ pc = "measure" /\ todo = {}
  /\ HasRoom(heap)
  /\ pc' = "write"
  /\ out' = Fresh(heap) /\ heap' = heap \cup {Fresh(heap)}
  /\ cap' = size
  /\ size' = 0 /\ todo' = Visible
  /\ UNCHANGED <<ptr, trie, input, text, plan, reply, done>>

\* As many bytes, and one for the final NUL, are allocated, and size starts
\* from 0 again for the second pass.
Allocate ==
  /\ pc = "measure" /\ todo = {}
  /\ HasRoom(heap)
  /\ pc' = "write"
  /\ out' = Fresh(heap) /\ heap' = heap \cup {Fresh(heap)}
  /\ cap' = size + 1
  /\ size' = 0 /\ todo' = Visible
  /\ UNCHANGED <<ptr, trie, input, text, plan, reply, done>>

\* tcc_write appends a word to the text.
TccWrite(p) ==
  /\ pc = "write"
  /\ Visit(p)
  /\ text' = Append(text, <<p, Shown(count[p])>>)
  /\ UNCHANGED <<pc, ptr, blk, heap, input, out, cap, plan, reply, done>>

\* Mutant of TagcloudReturn: the pointer to the freed text is kept.
TagcloudReturnKeepsOutput ==
  /\ pc = "write" /\ todo = {}
  /\ pc' = "idle"
  /\ reply' = text
  /\ heap' = heap \ {out}
  /\ cap' = 0 /\ text' = <<>> /\ plan' = <<>>
  /\ UNCHANGED <<ptr, trie, input, out, size, todo, done>>

\* The text is copied to the server's buffer and its block is freed.
TagcloudReturn ==
  /\ pc = "write" /\ todo = {}
  /\ pc' = "idle"
  /\ reply' = text
  /\ heap' = heap \ {out} /\ out' = Null
  /\ cap' = 0 /\ text' = <<>> /\ plan' = <<>>
  /\ UNCHANGED <<ptr, trie, input, size, todo, done>>

\* tagcloud_deinit frees the context and nothing else.
TagcloudDeinit ==
  /\ pc = "idle" /\ ptr # Null
  /\ heap' = heap \ {ptr}
  /\ ptr' = Null
  /\ blk' = NoTrie /\ count' = NoTrie
  /\ UNCHANGED <<pc, input, output, reply, done>>

\* The rest of a call that has begun.
Continue ==
  \/ SkipWord \/ TcAddDescend \/ TcAddCount
  \/ \E p \in todo : TccPrepare(p) \/ TccWrite(p)
  \/ Allocate \/ TagcloudReturn

Next ==
  \/ TagcloudInit \/ TagcloudInitFails
  \/ TagcloudClear
  \/ \E x \in Rows : TagcloudAdd(x)
  \/ TagcloudStart
  \/ TagcloudDeinit
  \/ Continue

\* A call that has begun runs on: it waits for nothing.
Spec == Init /\ [][Next]_vars /\ WF_vars(Continue)
-------------------------------------------------------------------------------
TypeOK ==
  /\ pc \in {"idle", "add", "measure", "write"}
  /\ ptr \in Blocks \cup {Null}
  /\ DOMAIN blk = DOMAIN count
  /\ blk \in [DOMAIN blk -> Blocks] /\ count \in [DOMAIN count -> Nat]
  /\ heap \subseteq Blocks
  /\ row \in Rows \cup {<<>>}
  /\ Inside(row, cur)
  /\ depth \in Nat /\ (depth = 0 \/ depth < Len(word))
  /\ size \in Nat /\ todo \subseteq Visible
  /\ out \in Blocks \cup {Null} /\ cap \in Nat

\* Every block a live pointer leads to is allocated, and by one pointer only:
\* no step of add, clear or output leaves a pointer to freed memory, gives
\* a block two owners or frees one twice.
HeapSound ==
  /\ ptr # Null => IsTrie(blk) /\ ptr \in heap
  /\ BlocksOf(blk) \subseteq heap /\ ptr \notin BlocksOf(blk)
  /\ out # Null => out \in heap /\ out # ptr /\ out \notin BlocksOf(blk)

\* The depth cut of tcc_prepare and tcc_write never hides a word that was
\* counted: nextWord stops long before MaxDepth letters.
NothingHidden == \A p \in DOMAIN count : count[p] > 0 => p \in Visible

\* tcc_write writes no more than tcc_prepare has measured, the final NUL
\* included, and in the end exactly as much: the length given to the server
\* is the length of the text.
ReplyFits == pc = "write" => /\ size + 1 <= cap
                             /\ todo = {} => size + 1 = cap

\* The blocks that a pointer leads to.
Reachable == BlocksOf(blk) \cup ({ptr, out} \ {Null})

\* What is allocated and out of reach is never given back.  While a query
\* runs, the only block that gets lost is the root, when tcc_clear replaces
\* it; the rest of the trie is lost when tagcloud_deinit frees the context.
LosesOnlyRoot ==
  [][(heap' \ Reachable') \ (heap \ Reachable)
       \subseteq (IF ptr' = Null THEN BlocksOf(blk)
                  ELSE IF done'.clears > done.clears THEN {blk[<<>>]} ELSE {})
    ]_vars

\* Every call returns: the loops over a row and over the trie come to an end.
CallReturns == (pc # "idle") ~> (pc = "idle")
===============================================================================
