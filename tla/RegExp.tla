-------------------------------- MODULE RegExp --------------------------------
(***************************************************************************)
(* Regular expressions (src/js/jsregexp.c): the operator-precedence parser *)
(* with its estimate of the program's length, the emitter, and the machine *)
(* that runs the program with a stack of the open terms and a stack of     *)
(* copies of it to go back to.  Characters and quantifiers are tokens, a   *)
(* program is a sequence of instructions instead of bytes; of the simple   *)
(* opcodes, ^, literals and back-references are here, and no classes.      *)
(***************************************************************************)
EXTENDS Integers, SequencesExt

CONSTANTS Inputs,    \* strings a regular expression is executed on
          MaxBacks,  \* bound: the states there is memory for to go back to
          None

Unbounded == -1   \* (uintN)-1

VARIABLES source,
          regexp, \* JSRegExp
          input,
          start,  \* where MatchRegExp tries to match
          m       \* the machine, see Machine

vars == <<source, regexp, input, start, m>>
-------------------------------------------------------------------------------
(* ParseRegExp.  A node's next is the rest of its sequence; s.length is    *)
(* the progLength so far.                                                  *)
Node(op) == [op |-> op]
Opening == {"LPAREN", "LPARENNON", "ASSERT", "ASSERT_NOT"}
OpenOf == [t \in {"(", "(?:", "(?=", "(?!"} |->
             CASE t = "(" -> "LPAREN" [] t = "(?:" -> "LPARENNON"
               [] t = "(?=" -> "ASSERT" [] t = "(?!" -> "ASSERT_NOT"]

AtEnd(s) == s.at > Len(source)
Token(s) == source[s.at]
Is(s, kinds) == ~AtEnd(s) /\ Token(s).t \in kinds
Advance(s) == [s EXCEPT !.at = @ + 1]
Longer(s, n) == [s EXCEPT !.length = @ + n]
PushOperand(s, ts) == [s EXCEPT !.operands = Append(@, ts)]
PushOperator(s, op, paren) ==
  [s EXCEPT !.operators = Append(@, [op |-> op, paren |-> paren])]

ProcessOp(s) ==
  LET n == Len(s.operands)
      left == s.operands[n - 1]
      right == s.operands[n]
      prereq == left[1].op = "FLAT" /\ right[1].op = "FLAT"
      alt == [op |-> IF prereq THEN "ALTPREREQ" ELSE "ALT", kid |-> left, kid2 |-> right]
      rest == [s EXCEPT !.operands = SubSeq(@, 1, n - 2), !.operators = Front(@)]
  IN IF Last(s.operators).op = "CONCAT" THEN PushOperand(rest, left \o right)
     ELSE PushOperand(Longer(rest, IF prereq THEN 13 ELSE 7), <<alt>>)

(* ParseQuantifier on the last operand.                                    *)
ParseQuantifier(s) ==
  IF ~Is(s, {"quant"}) THEN s
  ELSE LET q == Token(s)
           node == [op |-> "QUANT", kid |-> Last(s.operands), q |-> q] IN
       Longer(Advance([s EXCEPT !.operands = Append(Front(@), <<node>>)]),
              IF q.braces THEN 6 ELSE 4)

ParseTerm(s) ==
  LET t == Token(s) IN
  CASE t.t = "^" -> Longer(PushOperand(Advance(s), <<Node("BOL")>>), 1)
    [] t.t = "chr" -> ParseQuantifier(Longer(PushOperand(Advance(s),
                        <<[op |-> "FLAT", chars |-> <<t.c>>, at |-> s.at]>>), 3))
    [] t.t = "ref" -> ParseQuantifier(Longer(PushOperand(Advance(s),
                        <<[op |-> "BACKREF", paren |-> t.n]>>), 2))

(* The operators down to the open parenthesis, and that one.               *)
RECURSIVE CloseParen(_)
CloseParen(s) ==
  LET open == Last(s.operators)
      closed == [s EXCEPT !.operators = Front(@)]
      node == [op |-> open.op, paren |-> open.paren, kid |-> Last(s.operands)] IN
  IF open.op \notin Opening THEN CloseParen(ProcessOp(s))
  ELSE ParseQuantifier(IF open.op = "LPARENNON" THEN closed
                       ELSE [closed EXCEPT !.operands = Append(Front(@), <<node>>)])

RECURSIVE ProcessConcats(_), ProcessAll(_)
ProcessConcats(s) ==
  IF s.operators = <<>> \/ Last(s.operators).op # "CONCAT" THEN s
  ELSE ProcessConcats(ProcessOp(s))
ProcessAll(s) == IF s.operators = <<>> THEN s ELSE ProcessAll(ProcessOp(s))

RECURSIVE Operand(_), Operator(_)
Operand(s) ==
  IF Is(s, DOMAIN OpenOf)
  THEN LET op == OpenOf[Token(s).t]
           counted == IF op = "LPAREN" THEN [Longer(s, 4) EXCEPT !.parens = @ + 1]
                      ELSE IF op = "LPARENNON" THEN s ELSE Longer(s, 4)
       IN Operand(PushOperator(Advance(counted), op, s.parens))
  ELSE IF AtEnd(s) /\ Len(s.operators) < Len(s.operands) THEN Operator(s)
  ELSE IF AtEnd(s) \/ Is(s, {")", "|"})
  THEN Operator(PushOperand(s, <<Node("EMPTY")>>))
  ELSE Operator(ParseTerm(s))

Operator(s) ==
  IF AtEnd(s) THEN ProcessAll(s)
  ELSE IF Is(s, {"|"})
  THEN Operand(PushOperator(ProcessConcats(Advance(s)), "ALT", s.parens))
  ELSE IF Is(s, {")"}) THEN Operator(CloseParen(Advance(s)))
  ELSE Operand(PushOperator(s, "CONCAT", s.parens))

Nothing == [at |-> 1, operands |-> <<>>, operators |-> <<>>, parens |-> 0, length |-> 0]
Parsed == IF source = <<>> THEN PushOperand(Nothing, <<Node("EMPTY")>>) ELSE Operand(Nothing)
-------------------------------------------------------------------------------
(* EmitREBytecode: ts as instructions from address a.                      *)
Adjoins(n, k) == n.op = "FLAT" /\ k.op = "FLAT" /\ n.at + Len(n.chars) = k.at

RECURSIVE Coalesced(_)
Coalesced(ts) ==
  IF Len(ts) > 1 /\ Adjoins(ts[1], ts[2])
  THEN Coalesced(<<[ts[1] EXCEPT !.chars = @ \o ts[2].chars]>> \o SubSeq(ts, 3, Len(ts)))
  ELSE ts

Enclosed(open, body, close) == <<open>> \o body \o <<Node(close)>>

PrereqChars(n) == IF n.op = "ALT" THEN {} ELSE {n.kid[1].chars[1], n.kid2[1].chars[1]}

RECURSIVE Emit(_, _)
EmitOne(n, a) ==
  LET body == Emit(n.kid, a + 1)
      end == a + 2 + Len(body)
      other == Emit(n.kid2, end) IN
  CASE n.op = "EMPTY" -> <<>>
    [] n.op \in {"BOL", "FLAT", "BACKREF"} -> <<n>>
    [] n.op = "LPAREN" -> <<[op |-> "LPAREN", paren |-> n.paren]>> \o body
                          \o <<[op |-> "RPAREN", paren |-> n.paren]>>
    [] n.op = "ASSERT" -> Enclosed([op |-> n.op, next |-> end], body, "ASSERTTEST")
    [] n.op = "ASSERT_NOT" -> Enclosed([op |-> n.op, next |-> end], body, "ASSERTNOTTEST")
    [] n.op = "QUANT" ->
         Enclosed([op |-> IF n.q.greedy THEN "QUANT" ELSE "MINIMALQUANT",
                   min |-> n.q.min, max |-> n.q.max, next |-> end], body, "ENDCHILD")
    [] OTHER ->
         LET jump == <<[op |-> "JUMP", next |-> end + Len(other) + 1]>> IN
         Enclosed([op |-> n.op, next |-> end, chars |-> PrereqChars(n)],
                  body \o jump \o other, "ENDALT")

Emit(ts, a) ==
  IF ts = <<>> THEN <<>>
  ELSE LET joined == Coalesced(ts)
           code == EmitOne(Head(joined), a) IN
       code \o Emit(Tail(joined), a + Len(code))

(* The bytes of an instruction.                                            *)
Short(i) == <<i.min, i.max>> \in {<<0, Unbounded>>, <<1, Unbounded>>, <<0, 1>>}
Bytes(i) == CASE i.op = "FLAT" -> IF Len(i.chars) = 1 THEN 2 ELSE 3
              [] i.op \in {"LPAREN", "RPAREN", "BACKREF"} -> 2
              [] i.op \in {"ALT", "JUMP", "ASSERT", "ASSERT_NOT"} -> 3
              [] i.op = "ALTPREREQ" -> 9
              [] i.op \in {"QUANT", "MINIMALQUANT"} -> IF Short(i) THEN 3 ELSE 5
              [] OTHER -> 1
ProgramBytes == FoldLeft(LAMBDA n, i : n + Bytes(i), 0, regexp.program)
-------------------------------------------------------------------------------
(* ExecuteREBytecode.  m.op is the opcode at m.pc, or what a state has     *)
(* asked to continue with there.  m.stale is a history: a child has ended  *)
(* while result was still that of an earlier failure.                      *)
Unset == [index |-> -1, length |-> 0]
Machine(parens, cp) ==
  [op |-> "BEGIN", pc |-> 1, cp |-> cp, result |-> FALSE,
   parens |-> [i \in 1..parens |-> Unset], parenSoFar |-> 0,
   states |-> <<>>, backs |-> <<>>, stale |-> FALSE]

Simple == {"BOL", "FLAT", "BACKREF"}
Tests == {"ASSERTTEST", "ASSERTNOTTEST"}
Code(pc) == regexp.program[pc]
Op(pc) == Code(pc).op
Instr == Code(m.pc)
First == Code(m.pc + 1)   \* of the child of Instr

Stays == UNCHANGED <<source, regexp, input, start>>
At(ops) == m.op \in ops /\ Stays

(* SimpleMatch: how far it takes cp, None if it does not match.            *)
Literal(i) ==
  LET cap == m.parens[i.paren + 1] IN
  CASE i.op = "FLAT" -> i.chars
    [] i.op = "BACKREF" /\ cap.index # -1 -> SubSeq(input, cap.index + 1, cap.index + cap.length)
    [] OTHER -> <<>>

SimpleMatch(i, cp) ==
  LET to == cp + Len(Literal(i)) IN
  IF i.op = "BOL" THEN IF cp = 0 THEN cp ELSE None
  ELSE IF to <= Len(input) /\ SubSeq(input, cp + 1, to) = Literal(i) THEN to ELSE None

(* The state stack and the registers.                                      *)
State(fields) ==
  fields @@ [min |-> 0, max |-> 0, index |-> m.cp, continue |-> m.pc,
             parenSoFar |-> m.parenSoFar, backs |-> Len(m.backs)]
Push(n, state) == [n EXCEPT !.states = Append(@, state)]
PopState(n) == [n EXCEPT !.states = Front(@)]
Top == Last(m.states)

Do(n, op, pc) == [n EXCEPT !.pc = pc, !.op = op]
Go(n, pc) == [Do(n, Op(pc), pc) EXCEPT !.stale = @ \/ (Op(pc) \in Tests /\ ~n.result)]
With(n, cp) == [n EXCEPT !.cp = cp, !.result = TRUE]
Fail(n) == [n EXCEPT !.op = "FAIL", !.result = FALSE]

(* PushBackTrackState, to go on with op at pc and cp; what the parentheses *)
(* from and to enclose is saved and cleared.                               *)
Clear(parens, from, to) ==
  [i \in DOMAIN parens |-> IF i \in from + 1..to THEN [parens[i] EXCEPT !.index = -1]
                           ELSE parens[i]]
PushBack(n, op, pc, from, to) ==
  LET back == [op |-> op, pc |-> pc, cp |-> m.cp, states |-> n.states, from |-> from,
               parens |-> SubSeq(n.parens, from + 1, to)] IN
  [n EXCEPT !.backs = Append(@, back), !.parens = Clear(@, from, to)]
BackTrack(n, op, pc) == PushBack(n, op, pc, 0, 0)

(* A first opcode that is simple is tried from here on.                    *)
Begin ==
  LET hits == {cp \in m.cp..Len(input) : SimpleMatch(Instr, cp) # None} IN
  /\ m.op = "BEGIN" /\ UNCHANGED <<source, regexp, input>>
  /\ IF Instr.op \notin Simple THEN m' = Go(m, m.pc) /\ UNCHANGED start
     ELSE IF hits = {} THEN start' = Len(input) /\ m' = Fail(m)
     ELSE /\ start' = Min(hits)
          /\ m' = Go(With(m, SimpleMatch(Instr, start')), m.pc + 1)

SimpleOp ==
  LET cp == SimpleMatch(Instr, m.cp) IN
  /\ At(Simple)
  /\ m' = IF cp = None THEN Fail(m) ELSE Go(With(m, cp), m.pc + 1)

Alt ==
  LET pushed == Push(m, State(<<>>))
      cp == SimpleMatch(First, m.cp)
      other(n) == BackTrack(n, Op(Instr.next), Instr.next) IN
  /\ At({"ALT", "ALTPREREQ"})
  /\ m' = IF m.op = "ALTPREREQ" /\ (m.cp = Len(input) \/ input[m.cp + 1] \notin Instr.chars)
          THEN Fail(m)
          ELSE IF First.op \notin Simple THEN Go(other(pushed), m.pc + 1)
          ELSE IF cp = None THEN Go(pushed, Instr.next)
          ELSE Go(other(With(pushed, cp)), m.pc + 2)

EndAlt ==
  /\ At({"JUMP", "ENDALT"})
  /\ m' = Go(PopState(m), IF m.op = "JUMP" THEN Instr.next ELSE m.pc + 1)

LParen ==
  LET i == Instr.paren + 1 IN
  /\ At({"LPAREN"})
  /\ m' = Go([m EXCEPT !.parens[i] = [index |-> m.cp, length |-> 0],
                       !.parenSoFar = IF i > @ THEN i ELSE @], m.pc + 1)

RParen ==
  LET i == Instr.paren + 1
      index == IF m.cp < m.parens[i].index THEN -1 ELSE m.parens[i].index IN
  /\ At({"RPAREN"})
  /\ m' = Go([m EXCEPT !.parens[i] = [index |-> index, length |-> m.cp - index]], m.pc + 1)

(* A lookahead is left through the state it puts on the back-track stack,  *)
(* or by what follows its child; both drop what that has put there.        *)
Lookahead ==
  LET test == IF m.op = "ASSERT" THEN "ASSERTTEST" ELSE "ASSERTNOTTEST"
      matches == SimpleMatch(First, m.cp) # None
      fails == First.op \in Simple /\ IF m.op = "ASSERT" THEN ~matches
                                      ELSE matches /\ Op(m.pc + 2) = test IN
  /\ At({"ASSERT", "ASSERT_NOT"})
  /\ m' = IF fails THEN Fail(m)
          ELSE Go(BackTrack(Push(m, State(<<>>)), test, Instr.next - 1), m.pc + 1)

LookaheadEndsKeepsBacks ==
  LET left == [PopState(m) EXCEPT !.cp = Top.index] IN
  /\ At(Tests)
  /\ m' = IF m.result = (m.op = "ASSERTTEST") THEN Go(With(left, Top.index), m.pc + 1)
          ELSE Fail(left)

LookaheadEnds ==
  LET left == [PopState(m) EXCEPT !.cp = Top.index, !.backs = SubSeq(@, 1, Top.backs)] IN
  /\ At(Tests)
  /\ m' = IF m.result = (m.op = "ASSERTTEST") THEN Go(With(left, Top.index), m.pc + 1)
          ELSE Fail(left)

(* A quantifier matches a child that begins with a simple opcode as far as *)
(* that opcode.                                                            *)
Begun(n, cp) == IF First.op \in Simple THEN With(n, cp) ELSE n
Child == IF First.op \in Simple THEN m.pc + 2 ELSE m.pc + 1
ChildFrom == IF First.op \in Simple THEN SimpleMatch(First, m.cp) ELSE m.cp
Bounds == [min |-> Instr.min, max |-> Instr.max]

Quant ==
  LET skipped == Go(With(m, m.cp), Instr.next)
      pushed == Push(Begun(m, ChildFrom), State(Bounds)) IN
  /\ At({"QUANT"})
  /\ m' = IF Instr.max = 0 THEN skipped
          ELSE IF ChildFrom = None THEN IF Instr.min = 0 THEN skipped ELSE Fail(m)
          ELSE IF Instr.min = 0 THEN Go(BackTrack(pushed, "REPEAT", m.pc), Child)
          ELSE Go(pushed, Child)

EndChild ==
  LET op == IF Op(Top.continue) = "QUANT" THEN "REPEAT" ELSE "MINIMALREPEAT" IN
  /\ At({"ENDCHILD"})
  /\ m' = Do([m EXCEPT !.stale = @ \/ ~m.result], op, Top.continue)

Less(n) == IF n > 0 THEN n - 1 ELSE n   \* 0 stays 0, and Unbounded what it is
LoopsNowhere == Top.min = 0 /\ m.cp = Top.index
Left == PopState(m)
Rest == [Top EXCEPT !.min = Less(@), !.max = Less(Top.max), !.index = m.cp]

Repeat ==
  LET done == Go(With(Left, m.cp), Instr.next)
      pushed == Push(Begun(Left, ChildFrom), Rest)
      again == IF Rest.min # 0 THEN pushed
               ELSE PushBack(pushed, "REPEAT", m.pc, Top.parenSoFar, m.parenSoFar) IN
  /\ At({"REPEAT"})
  /\ m' = IF ~m.result THEN IF Top.min = 0 THEN done ELSE Fail(Left)
          ELSE IF LoopsNowhere THEN Fail(Left)
          ELSE IF Rest.max = 0 THEN done
          ELSE IF ChildFrom = None THEN IF Rest.min = 0 THEN done ELSE Fail(Left)
          ELSE IF Op(Child) = "ENDCHILD" THEN Do(again, "REPEAT", m.pc)
          ELSE Go([again EXCEPT !.parenSoFar = Top.parenSoFar], Child)

MinimalQuant ==
  LET pushed == Push(m, State(Bounds)) IN
  /\ At({"MINIMALQUANT"})
  /\ m' = IF Instr.min # 0 THEN Go(pushed, m.pc + 1)
          ELSE Go(PopState(BackTrack(pushed, "MINIMALREPEAT", m.pc)), Instr.next)

MinimalRepeat ==
  LET child(state) ==
        Go(Push([Left EXCEPT !.parens = Clear(@, Top.parenSoFar, m.parenSoFar)], state), m.pc + 1)
      pushed == Push(Left, [Rest EXCEPT !.parenSoFar = m.parenSoFar]) IN
  /\ At({"MINIMALREPEAT"})
  /\ m' = IF ~m.result
          THEN IF Top.max # 0 THEN child([Top EXCEPT !.index = m.cp]) ELSE Fail(Left)
          ELSE IF LoopsNowhere THEN Fail(Left)
          ELSE IF Rest.min # 0 THEN child(Rest)
          ELSE Go(PopState(BackTrack(pushed, "MINIMALREPEAT", m.pc)), Instr.next)

(* The match has failed: there is something to go back to ...              *)
Restored(parens, b) ==
  [i \in DOMAIN parens |-> IF i \in b.from + 1..b.from + Len(b.parens) THEN b.parens[i - b.from]
                           ELSE parens[i]]

GoBack ==
  LET b == Last(m.backs)
      outer == Last(b.states).parenSoFar
      n == [m EXCEPT !.backs = Front(@), !.cp = b.cp, !.states = b.states] IN
  /\ At({"FAIL"}) /\ m.backs # <<>>
  /\ m' = Do(IF b.parens # <<>>
             THEN [n EXCEPT !.parens = Restored(@, b), !.parenSoFar = b.from + Len(b.parens)]
             ELSE [n EXCEPT !.parens = Clear(@, outer, m.parenSoFar), !.parenSoFar = outer],
             b.op, b.pc)

(* ... or MatchRegExp goes on to the next place of the input.              *)
MatchAgain ==
  /\ m.op = "FAIL" /\ m.backs = <<>> /\ start < Len(input)
  /\ start' = start + 1
  /\ m' = [Machine(Len(m.parens), start + 1) EXCEPT !.stale = m.stale]
  /\ UNCHANGED <<source, regexp, input>>

(* PushBackTrackState finds no memory.                                     *)
Crowded == Len(m.backs) > MaxBacks
NoMemory == Crowded /\ m.op # "ERROR" /\ m' = [m EXCEPT !.op = "ERROR"] /\ Stays

Execute ==
  /\ m # None
  /\ \/ NoMemory
     \/ /\ ~Crowded
        /\ \/ Begin \/ SimpleOp \/ Alt \/ EndAlt \/ LParen \/ RParen \/ Lookahead \/ LookaheadEnds
           \/ Quant \/ EndChild \/ Repeat \/ MinimalQuant \/ MinimalRepeat \/ GoBack \/ MatchAgain
-------------------------------------------------------------------------------
(* js_NewRegExp and js_ExecuteRegExp.                                      *)
NewRegExp ==
  /\ regexp = None
  /\ regexp' = LET parsed == Parsed IN
               [program |-> Append(Emit(parsed.operands[1], 1), Node("END")),
                parens |-> parsed.parens, length |-> parsed.length]
  /\ UNCHANGED <<source, input, start, m>>

ExecuteRegExp(str) ==
  /\ regexp # None /\ input = None
  /\ input' = str
  /\ m' = Machine(regexp.parens, 0)
  /\ UNCHANGED <<source, regexp, start>>

Next == NewRegExp \/ Execute \/ \E str \in Inputs : ExecuteRegExp(str)

NoRegExp == regexp = None /\ input = None /\ start = 0 /\ m = None
-------------------------------------------------------------------------------
Finished == m # None /\ \/ m.op \in {"END", "ERROR"}
                        \/ m.op = "FAIL" /\ m.backs = <<>> /\ start = Len(input)

(* What js_ExecuteRegExp returns: the extents of the match and of each     *)
(* parenthesis.                                                            *)
Extent(cap) == IF cap.index = -1 THEN None ELSE <<cap.index, cap.index + cap.length>>
Result == IF m.op # "END" THEN None
          ELSE [from |-> start, to |-> m.cp,
                parens |-> [i \in DOMAIN m.parens |-> Extent(m.parens[i])]]

(* The program fits the bytes that js_NewRegExp allocates for it.          *)
ProgramFits == regexp # None => ProgramBytes <= regexp.length + 1
===============================================================================
