------------------------------ MODULE Patterns ------------------------------
(***************************************************************************)
(* What a regular expression means: the ways it can match, the preferred   *)
(* one first.  expr is the expression whose text is source; a capture is   *)
(* None until its parentheses have matched, and again when a quantifier    *)
(* begins the next round around them.                                      *)
(***************************************************************************)
EXTENDS RegExp

VARIABLE expr

Chr(c) == [k |-> "chr", c |-> c]
Ref == [k |-> "ref"]
Empty == [k |-> "empty"]
Bol == [k |-> "bol"]
Group(k, e) == [k |-> k, e |-> e]
Times(e, q) == [k |-> "quant", e |-> e, q |-> q]
Pair(k, l, r) == [k |-> k, l |-> l, r |-> r]

Leaf == {"chr", "ref", "empty", "bol"}
Pairs == {"cat", "alt"}

Quantifier(min, max, greedy) ==
  [t |-> "quant", min |-> min, max |-> max, greedy |-> greedy,
   braces |-> <<min, max>> \notin {<<0, Unbounded>>, <<1, Unbounded>>, <<0, 1>>}]

(* How many parentheses capture in e, and how deep one is in quantifiers,  *)
(* of which one that is not greedy counts twice.                           *)
RECURSIVE Captures(_), Depth(_, _)
Captures(e) == CASE e.k \in Leaf -> 0
                 [] e.k \in Pairs -> Captures(e.l) + Captures(e.r)
                 [] e.k = "cap" -> 1 + Captures(e.e)
                 [] OTHER -> Captures(e.e)
Depth(e, d) == CASE e.k \in Leaf -> 0
                 [] e.k \in Pairs -> Max({Depth(e.l, d), Depth(e.r, d)})
                 [] e.k = "cap" -> Max({d, Depth(e.e, d)})
                 [] e.k = "quant" -> Depth(e.e, IF e.q.greedy THEN d + 1 ELSE d + 2)
                 [] OTHER -> Depth(e.e, d)

(* The text of e, as tokens.                                               *)
Opens == [k \in {"cap", "look", "nlook"} |->
            CASE k = "cap" -> "(" [] k = "look" -> "(?=" [] k = "nlook" -> "(?!"]
In(open, text) == <<[t |-> open]>> \o text \o <<[t |-> ")"]>>

Unquantified == {"look", "nlook", "empty", "bol", "quant"} \cup Pairs

RECURSIVE Text(_)
Part(e, kinds) == IF e.k \in kinds THEN In("(?:", Text(e)) ELSE Text(e)
Text(e) == CASE e.k = "chr" -> <<[t |-> "chr", c |-> e.c]>>
             [] e.k = "ref" -> <<[t |-> "ref", n |-> 0]>>
             [] e.k = "bol" -> <<[t |-> "^"]>>
             [] e.k = "empty" -> <<>>
             [] e.k = "quant" -> Part(e.e, Unquantified) \o <<e.q>>
             [] e.k = "cat" -> Part(e.l, {"alt"}) \o Part(e.r, {"alt"})
             [] e.k = "alt" -> Text(e.l) \o <<[t |-> "|"]>> \o Text(e.r)
             [] OTHER -> In(Opens[e.k], Text(e.e))
-----------------------------------------------------------------------------
(* The ways e matches from s, a place in the input and captures of which   *)
(* the first n are left of e.                                              *)
Literally(s, chars) ==
  LET to == s.cp + Len(chars) IN
  IF to <= Len(input) /\ SubSeq(input, s.cp + 1, to) = chars
  THEN <<[s EXCEPT !.cp = to]>> ELSE <<>>
Captured(s) == IF s.parens[1] = None THEN <<>> ELSE SubSeq(input, s.parens[1][1] + 1, s.parens[1][2])

RECURSIVE Ways(_, _, _), Rounds(_, _, _, _, _)
Each(ways, After(_)) == FlattenSeq([i \in DOMAIN ways |-> After(ways[i])])
Ways(e, n, s) ==
  CASE e.k = "chr" -> Literally(s, <<e.c>>)
    [] e.k = "ref" -> Literally(s, Captured(s))
    [] e.k = "empty" -> <<s>>
    [] e.k = "bol" -> IF s.cp = 0 THEN <<s>> ELSE <<>>
    [] e.k = "cap" -> Each(Ways(e.e, n + 1, s),
                           LAMBDA w : <<[w EXCEPT !.parens[n + 1] = <<s.cp, w.cp>>]>>)
    [] e.k = "look" -> LET ways == Ways(e.e, n, s) IN
                       IF ways = <<>> THEN <<>> ELSE <<[Head(ways) EXCEPT !.cp = s.cp]>>
    [] e.k = "nlook" -> IF Ways(e.e, n, s) = <<>> THEN <<s>> ELSE <<>>
    [] e.k = "cat" -> Each(Ways(e.l, n, s), LAMBDA w : Ways(e.r, n + Captures(e.l), w))
    [] e.k = "alt" -> Ways(e.l, n, s) \o Ways(e.r, n + Captures(e.l), s)
    [] e.k = "quant" -> Rounds(e, n, s, e.q.min, e.q.max)

(* No round that is not asked for matches the empty string.                *)
Rounds(e, n, s, min, max) ==
  LET inside == n + 1..n + Captures(e.e)
      fresh == [s EXCEPT !.parens = [i \in DOMAIN @ |-> IF i \in inside THEN None ELSE @[i]]]
      round == SelectSeq(Ways(e.e, n, fresh), LAMBDA w : min # 0 \/ w.cp # s.cp)
      more == Each(round, LAMBDA w : Rounds(e, n, w, Less(min), Less(max))) IN
  IF max = 0 THEN <<s>> ELSE IF min # 0 THEN more
  ELSE IF e.q.greedy THEN more \o <<s>> ELSE <<s>> \o more

Meaning ==
  LET ways == [from \in 0..Len(input) |->
                 Ways(expr, 0, [cp |-> from, parens |-> [i \in 1..Captures(expr) |-> None]])]
      matches == {from \in DOMAIN ways : ways[from] # <<>>}
      first == Head(ways[Min(matches)]) IN
  IF matches = {} THEN None ELSE [from |-> Min(matches), to |-> first.cp, parens |-> first.parens]
-----------------------------------------------------------------------------
Ends(result) == IF result = None THEN None ELSE <<result.from, result.to>>

(* A match ends where the expression says, at its first place and in its   *)
(* preferred way, through all the states that are saved, thrown away and   *)
(* gone back to; the captures are those of this way, unless one is in two  *)
(* quantifiers or in one that is not greedy (which do not clear them as    *)
(* they should); and the program fits the memory that the parser has       *)
(* counted for it (src/js/jsregexp.c:1913).  Two things are left out:      *)
(* executions that run out of memory, and those whose child ends with an   *)
(* earlier failure in result, see EmptyMatches.                            *)
MatchesAsMeant ==
  /\ ProgramFits
  /\ Finished /\ m.op # "ERROR" /\ ~m.stale =>
       /\ Ends(Result) = Ends(Meaning)
       /\ Depth(expr, 0) <= 1 => Result = Meaning

(* What the comments of the opcodes say (src/js/jsregexp.c:68 and 107): an *)
(* empty expression matches, wherever it is the child of a lookahead or a  *)
(* quantifier.                                                             *)
EmptyMatches == Finished /\ m.op # "ERROR" => Ends(Result) = Ends(Meaning)
=============================================================================
