------------------------------ MODULE UdfTokens ------------------------------
(***************************************************************************)
(* The three tokenizers of libjoyo.c.  Every UDF of the library reads its  *)
(* string arguments through them: nextWord for words, nextInt for indices  *)
(* and nextDouble for values.  A caller owns a cursor - the C pair of a    *)
(* pointer and the number of characters left - and a buffer of 64 bytes.   *)
(*                                                                         *)
(* An argument is a sequence of characters.  A token ends at a NUL, a ';'  *)
(* or a ',' (the set Sep), at the end of the argument, or after MaxTok     *)
(* characters (63 in the code, which leaves a byte for the final NUL).     *)
(***************************************************************************)
EXTENDS Naturals, Sequences

CONSTANTS
  Sep,     \* the characters that end a token
  MaxTok   \* the most characters one call copies into the caller's buffer

ASSUME MaxTokAssumption == MaxTok \in Nat \ {0}

\* A cursor: how far the pointer has moved, and the characters left (len).
Cursor(p, l) == [pos |-> p, len |-> l]

\* The cursor of a call that has read nothing of x yet.
Start(x) == Cursor(0, Len(x))

\* Mutant of Bound: one character too many for the buffer.
BoundOffByOne(len) == IF len < MaxTok + 1 THEN len ELSE MaxTok + 1

\* bound: how many characters the scanning loop may look at.
Bound(len) == IF len < MaxTok THEN len ELSE MaxTok

\* The offsets, from the cursor, at which the loop would stop at a separator.
Stops(x, c) == {i \in 0 .. (Bound(c.len) - 1) : x[c.pos + i + 1] \in Sep}

FirstStop(x, c) == CHOOSE i \in Stops(x, c) : \A j \in Stops(x, c) : i <= j

\* The i characters at the cursor, as the loop leaves them in the buffer.
Chars(x, c, i) == SubSeq(x, c.pos + 1, c.pos + i)

\* Mutants of NextWord: the separator is not counted in len, or it is not
\* stepped over at all.
NextWordLongLen(x, c) ==
  IF Bound(c.len) = 0
  THEN [avail |-> FALSE, tok |-> <<>>, cur |-> c]
  ELSE LET i == IF Stops(x, c) # {} THEN FirstStop(x, c) ELSE Bound(c.len)
       IN  [avail |-> TRUE, tok |-> Chars(x, c, i),
            cur |-> Cursor(c.pos + i + 1, c.len - i)]

NextWordKeepsSeparator(x, c) ==
  IF Bound(c.len) = 0
  THEN [avail |-> FALSE, tok |-> <<>>, cur |-> c]
  ELSE LET i == IF Stops(x, c) # {} THEN FirstStop(x, c) ELSE Bound(c.len)
       IN  [avail |-> TRUE, tok |-> Chars(x, c, i),
            cur |-> Cursor(c.pos + i, c.len - i)]

(***************************************************************************)
(* nextWord: avail is its return value, tok the buffer (wlen = Len(tok)).  *)
(* A word longer than MaxTok is cut, and whatever follows it in the        *)
(* argument is given up: the remaining length becomes 0.                   *)
(***************************************************************************)
NextWord(x, c) ==
  IF Bound(c.len) = 0
  THEN [avail |-> FALSE, tok |-> <<>>, cur |-> c]
  ELSE IF Stops(x, c) # {}
  THEN LET i == FirstStop(x, c)
       IN  [avail |-> TRUE, tok |-> Chars(x, c, i),
            cur |-> Cursor(c.pos + i + 1, c.len - (i + 1))]
  ELSE LET b == Bound(c.len)
       IN  [avail |-> TRUE, tok |-> Chars(x, c, b), cur |-> Cursor(c.pos + b, 0)]

(***************************************************************************)
(* nextInt and nextDouble: the buffer they pass to atoi and atof.  They    *)
(* scan like nextWord, but when no separator is found they clear len       *)
(* before they add it to the pointer, which therefore does not move.       *)
(***************************************************************************)
NextNumber(x, c) ==
  LET r == NextWord(x, c)
  IN  IF Bound(c.len) # 0 /\ Stops(x, c) = {}
      THEN [r EXCEPT !.cur = Cursor(c.pos, 0)]
      ELSE r

\* The fields of an argument, which the tokenizers hand out one by one.
F == INSTANCE Fields

\* The cursor stays inside the argument: nothing past its end can be read.
Inside(x, c) == /\ c.pos \in Nat
                /\ c.len \in Nat
                /\ c.pos + c.len <= Len(x)
==============================================================================
