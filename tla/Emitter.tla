------------------------------- MODULE Emitter -------------------------------
(***************************************************************************)
(* Code for statements (js_EmitTree, src/js/jsemit.c): the stack of the    *)
(* statements being emitted, jumps that are patched when their target is   *)
(* known, what a jump out of statements does on its way, and try notes.    *)
(* An instruction takes one place, without a source note; the expressions  *)
(* of a statement are asked for by an identity.                            *)
(***************************************************************************)
EXTENDS Integers, SequencesExt

Nothing == [kind |-> "nothing"]
Unlabelled == ""

Loops == {"while", "do", "for", "forin"}
Trying == {"try", "finally", "subroutine"}
MaybeScope == Trying \cup {"block", "catch"}

(* code, the statements around its end with the innermost last, the        *)
(* compile-time depth of the stack, and heavy for TCF_FUN_HEAVYWEIGHT.     *)
Generator(heavy) ==
  [code |-> <<>>, stmts |-> <<>>, notes |-> <<>>, depth |-> 0, heavy |-> heavy]
-------------------------------------------------------------------------------
Effect == [op \in {"PUSH", "COND", "FORNAME", "EXCEPTION", "DUP", "GETLOCAL"} |-> 1]
          @@ [op \in {"SETRVAL", "RETURN", "IFEQ", "IFNE", "POP", "THROW", "THROWING",
                      "SETLOCALPOP", "LEAVEWITH", "ENDITER"} |-> -1]
          @@ [op \in {"POP2"} |-> -2]

Offset(cg) == Len(cg.code) + 1

Emit1(cg, op, arg) ==
  [cg EXCEPT !.code = Append(@, [op |-> op, arg |-> arg]),
             !.depth = IF op \in DOMAIN Effect THEN @ + Effect[op] ELSE @]

AtDepth(cg, depth) == [cg EXCEPT !.depth = depth]

BackPatch(cg, jumps, target, op) ==
  [cg EXCEPT !.code = [i \in DOMAIN @ |->
                         IF i \in jumps THEN [op |-> op, arg |-> target] ELSE @[i]]]

(* CHECK_AND_SET_JUMP_OFFSET_AT: a jump forwards to the end of the code.   *)
Land(cg, jump) == [cg EXCEPT !.code[jump].arg = Offset(cg)]

(* js_PushStatement; depth is that of a block, if it has a scope.  In a    *)
(* try statement breaks are the GOSUBS, continues the GUARDJUMP.           *)
Push(cg, type, label, scope) ==
  [cg EXCEPT !.stmts = Append(@,
     [type |-> type, label |-> label, scope |-> scope, depth |-> cg.depth,
      update |-> Offset(cg), breaks |-> {}, continues |-> {}])]

Top(cg) == Last(cg.stmts)
SetTop(cg, field, value) == [cg EXCEPT !.stmts[Len(cg.stmts)][field] = value]

Pop(cg) ==
  LET top == Top(cg)
      patched == IF top.type \in Trying THEN cg
                 ELSE BackPatch(BackPatch(cg, top.breaks, Offset(cg), "GOTO"),
                                top.continues, top.update, "GOTO")
  IN [patched EXCEPT !.stmts = Front(@)]

(* EmitBackPatchOp onto the breaks or the continues of statement n.        *)
Jump(cg, n, field) ==
  [Emit1(cg, "BACKPATCH", 0) EXCEPT !.stmts[n][field] = @ \cup {Offset(cg)}]

NewTryNote(cg, start, end, catchStart) ==
  [cg EXCEPT !.notes = Append(@, [start |-> start, length |-> end - start,
                                  catchStart |-> catchStart])]
-------------------------------------------------------------------------------
LeaveStatementKeepsPair(cg, n) ==
  LET type == cg.stmts[n].type
      left == CASE type = "finally" -> Jump(cg, n, "breaks")
                [] type = "with" -> Emit1(cg, "LEAVEWITH", 0)
                [] type = "forin" -> Emit1(cg, "ENDITER", 0)
                [] OTHER -> cg
  IN IF cg.stmts[n].scope THEN Emit1(left, "LEAVEBLOCK", 1) ELSE left

LeaveStatement(cg, n) ==
  LET type == cg.stmts[n].type
      left == CASE type = "finally" -> Jump(cg, n, "breaks")
                [] type = "with" -> Emit1(cg, "LEAVEWITH", 0)
                [] type = "forin" -> Emit1(cg, "ENDITER", 0)
                [] type = "subroutine" -> Emit1(cg, "POP2", 0)
                [] OTHER -> cg
  IN IF cg.stmts[n].scope THEN Emit1(left, "LEAVEBLOCK", 1) ELSE left

(* EmitNonLocalJumpFixup: the statements from the innermost one out to but *)
(* not including number to are left, at the same compile-time depth.       *)
EmitNonLocalJumpFixup(cg, to) ==
  LET stmts == Len(cg.stmts)
      left == FoldLeft(LAMBDA c, n : LeaveStatement(c, stmts + 1 - n), cg,
                       [n \in 1..stmts - to |-> n])
  IN AtDepth(left, cg.depth)

EmitGoto(cg, to, field) == Jump(EmitNonLocalJumpFixup(cg, to), to, field)

Innermost(S) == CHOOSE n \in S : \A k \in S : k <= n
Target(cg, Is(_)) == Innermost({n \in DOMAIN cg.stmts : Is(cg.stmts[n])})
LabelOf(cg, label) == Target(cg, LAMBDA stmt : stmt.type = "label" /\ stmt.label = label)

EmitBreak(cg, label) ==
  EmitGoto(cg, IF label = Unlabelled THEN Target(cg, LAMBDA stmt : stmt.type \in Loops)
               ELSE LabelOf(cg, label), "breaks")

(* With a label, the loop that is found last on the way to it.             *)
EmitContinue(cg, label) ==
  LET loops == {n \in DOMAIN cg.stmts : cg.stmts[n].type \in Loops}
      behind == {n \in loops : n > LabelOf(cg, label)} IN
  EmitGoto(cg, IF label = Unlabelled THEN Innermost(loops)
               ELSE CHOOSE n \in behind : \A k \in behind : n <= k, "continues")

EmitReturn(cg, id) ==
  LET value == Emit1(cg, "PUSH", id)
      split == \E n \in DOMAIN cg.stmts :
                 \/ cg.stmts[n].type = "finally"
                 \/ cg.heavy /\ cg.stmts[n].type \in MaybeScope
  IN IF split
     THEN Emit1(EmitNonLocalJumpFixup(Emit1(value, "SETRVAL", 0), 0), "RETRVAL", 0)
     ELSE Emit1(value, "RETURN", 0)

(* The variable of the innermost catch clause, a slot of the stack.        *)
EmitThrow(cg) ==
  LET block == Target(cg, LAMBDA stmt : stmt.type = "catch") IN
  Emit1(Emit1(cg, "GETLOCAL", cg.stmts[block].depth), "THROW", 0)
-------------------------------------------------------------------------------
(* Where a continue goes: from here to the update or the condition, also   *)
(* for the labels that are next to the loop.                               *)
SetUpdate(cg) ==
  LET loop == Len(cg.stmts)
      labels == {n \in 1..loop - 1 : \A k \in n..loop - 1 : cg.stmts[k].type = "label"}
  IN [cg EXCEPT !.stmts = [n \in DOMAIN @ |->
        IF n \in labels \cup {loop} THEN [@[n] EXCEPT !.update = Offset(cg)] ELSE @[n]]]

RECURSIVE Emit(_, _)

EmitWhile(cg, s) ==
  LET top == Offset(cg)
      test == Emit1(Push(cg, "while", Unlabelled, FALSE), "COND", s.id)
      body == Emit(Emit1(test, "IFEQ", 0), s.body)
  IN Pop(Land(Emit1(body, "GOTO", top), Offset(test)))

EmitDo(cg, s) ==
  LET nop == Emit1(cg, "NOP", 0)
      body == Emit(Push(nop, "do", Unlabelled, FALSE), s.body)
  IN Pop(Emit1(Emit1(SetUpdate(body), "COND", s.id), "IFNE", Offset(nop)))

EmitFor(cg, s) ==
  LET nop == Emit1(Push(cg, "for", Unlabelled, FALSE), "NOP", 0)
      top == Offset(nop)
      test == Emit1(SetTop(nop, "update", top), "COND", s.id)
      body == Emit(Emit1(test, "IFEQ", 0), s.body)
      update == Emit1(SetUpdate(body), "CALL", s.next)
  IN Pop(Land(Emit1(update, "GOTO", top), Offset(test)))

EmitForIn(cg, s) ==
  LET object == Emit1(Push(cg, "forin", Unlabelled, FALSE), "PUSH", 0)
      iter == Emit1(object, "FORIN", 0)
      top == Offset(iter)
      test == Emit1(SetTop(iter, "update", top), "FORNAME", s.id)
      body == Emit(Emit1(test, "IFEQ", 0), s.body)
  IN Emit1(Pop(Land(Emit1(body, "GOTO", top), Offset(test))), "ENDITER", 0)

EmitWith(cg, s) ==
  LET object == Emit1(cg, "PUSH", 0)
      inside == Emit1(Push(object, "with", Unlabelled, FALSE), "ENTERWITH", 0)
  IN Pop(Emit1(Emit(inside, s.body), "LEAVEWITH", 0))

EmitLabel(cg, s) ==
  Pop(Emit(Push(Emit1(cg, "NOP", 0), "label", s.label, FALSE), s.body))

EmitBlock(cg, s) == Pop(Emit(Emit(Push(cg, "block", Unlabelled, FALSE), s.first), s.second))
-------------------------------------------------------------------------------
(* A catch clause in the scope of its variable.                            *)
ScopeDepths(stmts) == LET blocks == SelectSeq(stmts, LAMBDA stmt : stmt.scope) IN
                      [n \in DOMAIN blocks |-> blocks[n].depth]
Enter(cg, depth) == Emit1(AtDepth(cg, depth), "ENTERBLOCK", ScopeDepths(cg.stmts))
Bind(cg, guard, slot) ==
  Emit1(IF guard = 0 THEN cg ELSE Emit1(cg, "DUP", 0), "SETLOCALPOP", slot)
Skip(cg, try) == [Emit1(cg, "IFEQ", 0) EXCEPT !.stmts[try].continues = {Offset(cg)}]
Guarded(cg, guard, try) ==
  IF guard = 0 THEN cg ELSE Emit1(Skip(Emit1(cg, "COND", guard), try), "POP", 0)
EndCatch(body) == Pop(AtDepth(Emit1(body, "LEAVEBLOCK", 1), body.depth - 1))

EmitCatch(cg, c) ==
  LET entered == Enter(Push(cg, "catch", Unlabelled, TRUE), cg.depth + 1)
      bound == Bind(Emit1(entered, "EXCEPTION", 0), c.guard, cg.depth)
  IN EndCatch(Emit(Guarded(bound, c.guard, Len(cg.stmts)), c.body))

(* acc: the generator, and the jumps to the end of the statement.          *)
Leave(acc, finally) ==
  LET gosub == IF finally THEN Jump(acc.cg, Len(acc.cg.stmts), "breaks") ELSE acc.cg
  IN [cg |-> Emit1(gosub, "BACKPATCH", 0), jumps |-> acc.jumps \cup {Offset(gosub)}]

LandGuard(cg, depth) ==
  AtDepth(FoldSet(LAMBDA j, c : Land(c, j), cg, Top(cg).continues), depth + 1)

EmitClause(acc, c, depth, finally) ==
  LET guarded == LandGuard(acc.cg, depth)
      rethrown == Emit1(Emit1(guarded, "THROWING", 0), "LEAVEBLOCK", 1)
      begun == IF Top(acc.cg).continues = {}
               THEN AtDepth(Emit1(acc.cg, "SETSP", depth), depth) ELSE rethrown
  IN Leave([acc EXCEPT !.cg = EmitCatch(begun, c)], finally)

(* The finally clause, behind a handler that calls it for an exception.    *)
EmitFinally(cg, s, depth) ==
  LET handler == Jump(Emit1(cg, "SETSP", depth), Len(cg.stmts), "breaks")
      called == BackPatch(handler, Top(handler).breaks, Offset(handler), "GOSUB")
      inside == SetTop(AtDepth(called, depth + 2), "type", "subroutine")
      body == Emit(Emit1(inside, "FINALLY", 0), s.finally)
  IN AtDepth(Emit1(body, "RETSUB", 0), depth)

Rethrow(cg, s, depth) ==
  IF s.catches # <<>> /\ Last(s.catches).guard # 0
  THEN Emit1(LandGuard(cg, depth), "THROW", 0) ELSE cg
EndTry(cg, s, depth) ==
  Emit1(Pop(IF s.finally # Nothing THEN EmitFinally(cg, s, depth) ELSE cg), "NOP", 0)
LandLeaves(cg, jumps) == BackPatch(cg, jumps, Offset(cg), "GOTO")

(* The catch clauses serve what starts at the try and ends at end, the     *)
(* handler of the finally clause also what is thrown in them.              *)
Note(cg, clause, start, end) == IF clause THEN NewTryNote(cg, start, end, end) ELSE cg
Finish(cg, jumps, s, depth, start, end) ==
  Note(Note(LandLeaves(EndTry(cg, s, depth), jumps), s.catches # <<>>, start, end),
       s.finally # Nothing, start, Offset(cg))

Catches(acc, s, depth) ==
  FoldLeft(LAMBDA a, c : EmitClause(a, c, depth, s.finally # Nothing), acc, s.catches)
Handlers(acc, s, depth, start, end) ==
  Finish(Rethrow(acc.cg, s, depth), acc.jumps, s, depth, start, end)
AfterTry(acc, s, depth, start) ==
  Handlers(Catches(acc, s, depth), s, depth, start, Offset(acc.cg))
TryBody(try, s, depth) ==
  AfterTry(Leave([cg |-> Emit(try, s.body), jumps |-> {}], s.finally # Nothing), s, depth, Offset(try))
EmitTry(cg, s) ==
  LET type == IF s.finally = Nothing THEN "try" ELSE "finally" IN
  TryBody(Emit1(Push(cg, type, Unlabelled, FALSE), "TRY", 0), s, cg.depth)
-------------------------------------------------------------------------------
Emit(cg, s) ==
  CASE s.kind = "nothing" -> cg
    [] s.kind = "call" -> Emit1(cg, "CALL", s.id)
    [] s.kind = "block" -> EmitBlock(cg, s)
    [] s.kind = "label" -> EmitLabel(cg, s)
    [] s.kind = "while" -> EmitWhile(cg, s)
    [] s.kind = "do" -> EmitDo(cg, s)
    [] s.kind = "for" -> EmitFor(cg, s)
    [] s.kind = "forin" -> EmitForIn(cg, s)
    [] s.kind = "with" -> EmitWith(cg, s)
    [] s.kind = "try" -> EmitTry(cg, s)
    [] s.kind = "break" -> EmitBreak(cg, s.label)
    [] s.kind = "continue" -> EmitContinue(cg, s.label)
    [] s.kind = "return" -> EmitReturn(cg, s.id)
    [] s.kind = "throw" -> EmitThrow(cg)

(* The script of a function whose body is s.                               *)
Script(s, heavy) ==
  LET cg == Emit1(Emit(Generator(heavy), s), "STOP", 0)
  IN [code |-> cg.code, trynotes |-> cg.notes]
===============================================================================
