----------------------------- MODULE Interpreter -----------------------------
(***************************************************************************)
(* A frame running its script (js_Interpret, src/js/jsinterp.c): stack,    *)
(* pending exception, return value, the scope chain with the with objects  *)
(* and the cloned blocks of the frame, the blocks that are not cloned.     *)
(* What an expression does is not fixed: it may be true or false or throw. *)
(***************************************************************************)
EXTENDS Emitter

CONSTANTS MaxEvents,  \* bound: expressions that are evaluated
          None

Undefined == 0
Hole == <<"hole", 0>>

VARIABLES script,
          pc,          \* None when the frame is left
          stack,
          exception,   \* cx->exception while cx->throwing, else None
          rval,        \* fp->rval
          scopeChain,  \* of this frame, the innermost object last
          blockChain,
          popBlocks,   \* JSFRAME_POP_BLOCKS
          trace,       \* history: what was evaluated where, and said
          outcome      \* history: what the caller gets

vars == <<script, pc, stack, exception, rval, scopeChain, blockChain, popBlocks, trace, outcome>>

Load(s) ==
  /\ script = s
  /\ pc = 1 /\ stack = <<>> /\ exception = None /\ rval = Undefined
  /\ scopeChain = <<>> /\ blockChain = <<>> /\ popBlocks = FALSE
  /\ trace = <<>> /\ outcome = None
-------------------------------------------------------------------------------
Running == pc # None
Instruction == script.code[pc]
At(op) == Running /\ Instruction.op = op
Arg == Instruction.arg

Top1 == stack[Len(stack)]
Popped(n) == SubSeq(stack, 1, Len(stack) - n)
Value(v) == <<"value", v>>
Block(depth) == [kind |-> "block", depth |-> depth]

Step(at, st) == pc' = at /\ stack' = st
Chains == <<scopeChain, blockChain, popBlocks>>

(* SCRIPT_FIND_CATCH_START: the first note around pc, its handler or none. *)
Handler == LET around == {n \in DOMAIN script.trynotes :
                            LET note == script.trynotes[n] IN
                            pc - note.start \in 0..note.length - 1}
           IN IF around = {} THEN None
              ELSE script.trynotes[CHOOSE n \in around : \A k \in around : n <= k].catchStart

(* The label out: with e pending, st on the stack.                         *)
Raise(e, st) == /\ exception' = e
                /\ stack' = st
                /\ pc' = Handler
                /\ outcome' = IF Handler = None THEN <<"throw", e>> ELSE None
                /\ UNCHANGED <<script, rval, Chains>>

(* What a call or a condition finds around it, the innermost object last.  *)
Scope == [n \in 1..Len(scopeChain) + Len(blockChain) |->
            IF n <= Len(scopeChain) THEN scopeChain[n].kind ELSE "block"]

Evaluate(said) ==
  /\ Len(trace) < MaxEvents
  /\ trace' = Append(trace, [at |-> Arg, said |-> said, scope |-> Scope])

Call == /\ At("CALL") /\ Evaluate("yes") /\ Step(pc + 1, stack)
        /\ UNCHANGED <<script, exception, rval, Chains, outcome>>

Test == /\ At("COND") \/ At("FORNAME")
        /\ \E said \in {"yes", "no"} :
             Evaluate(said) /\ Step(pc + 1, Append(stack, <<"test", said>>))
        /\ UNCHANGED <<script, exception, rval, Chains, outcome>>

Throws == /\ At("CALL") \/ At("COND") \/ At("FORNAME")
          /\ Evaluate("throw") /\ Raise(Len(trace) + 1, stack)
-------------------------------------------------------------------------------
Nop == /\ At("NOP") \/ At("TRY") \/ At("FINALLY")
       /\ Step(pc + 1, stack)
       /\ UNCHANGED <<script, exception, rval, Chains, trace, outcome>>

Goto == /\ At("GOTO") /\ Step(Arg, stack)
        /\ UNCHANGED <<script, exception, rval, Chains, trace, outcome>>

Branch == /\ At("IFEQ") \/ At("IFNE")
          /\ LET jumps == (Top1[2] = "yes") = (Instruction.op = "IFNE")
             IN Step(IF jumps THEN Arg ELSE pc + 1, Popped(1))
          /\ UNCHANGED <<script, exception, rval, Chains, trace, outcome>>

(* Instructions that do nothing but to the stack.                          *)
OnStack == /\ \/ At("PUSH") /\ Step(pc + 1, Append(stack, Value(Arg)))
              \/ At("POP") /\ Step(pc + 1, Popped(1))
              \/ At("POP2") /\ Step(pc + 1, Popped(2))
              \/ At("DUP") /\ Step(pc + 1, Append(stack, Top1))
              \/ At("FORIN") /\ Step(pc + 1, Append(Popped(1), <<"iter", 0>>))
              \/ At("ENDITER") /\ Step(pc + 1, Popped(1))
              \/ At("GETLOCAL") /\ Step(pc + 1, Append(stack, stack[Arg + 1]))
              \/ At("SETLOCALPOP") /\ Step(pc + 1, [Popped(1) EXCEPT ![Arg + 1] = Top1])
           /\ UNCHANGED <<script, exception, rval, Chains, trace, outcome>>

SetRval == /\ At("SETRVAL") /\ Step(pc + 1, Popped(1))
           /\ rval' = Top1[2]
           /\ UNCHANGED <<script, exception, Chains, trace, outcome>>

Return == /\ At("RETURN") \/ At("RETRVAL") \/ At("STOP")
          /\ rval' = IF Instruction.op = "RETURN" THEN Top1[2] ELSE rval
          /\ outcome' = <<"return", rval'>>
          /\ pc' = None
          /\ UNCHANGED <<script, stack, exception, Chains, trace>>

(* js_GetScopeChain clones the blocks there are onto the scope chain; the  *)
(* frame puts blocks there at once from then on.                           *)
EnterWith == /\ At("ENTERWITH")
             /\ scopeChain' = scopeChain
                  \o [n \in DOMAIN blockChain |-> Block(blockChain[n])]
                  \o <<[kind |-> "with", depth |-> Len(stack) - 1]>>
             /\ blockChain' = <<>>
             /\ popBlocks' = (popBlocks \/ blockChain # <<>>)
             /\ Step(pc + 1, Append(Popped(1), <<"with", 0>>))
             /\ UNCHANGED <<script, exception, rval, trace, outcome>>

LeaveWith == /\ At("LEAVEWITH")
             /\ scopeChain' = Front(scopeChain)
             /\ Step(pc + 1, Popped(1))
             /\ UNCHANGED <<script, exception, rval, blockChain, popBlocks, trace, outcome>>

EnterBlock == /\ At("ENTERBLOCK")
              /\ IF popBlocks
                 THEN scopeChain' = Append(scopeChain, Block(Last(Arg))) /\ UNCHANGED blockChain
                 ELSE blockChain' = Arg /\ UNCHANGED scopeChain
              /\ Step(pc + 1, Append(stack, Value(Undefined)))
              /\ UNCHANGED <<script, exception, rval, popBlocks, trace, outcome>>

LeaveBlock == /\ At("LEAVEBLOCK")
              /\ IF blockChain = <<>>
                 THEN scopeChain' = Front(scopeChain) /\ UNCHANGED blockChain
                 ELSE blockChain' = Front(blockChain) /\ UNCHANGED scopeChain
              /\ Step(pc + 1, Popped(Arg))
              /\ UNCHANGED <<script, exception, rval, popBlocks, trace, outcome>>

(* The blocks and objects from depth on are left with the stack.           *)
SetSp == /\ At("SETSP")
         /\ blockChain' = SelectSeq(blockChain, LAMBDA depth : depth + 1 <= Arg)
         /\ scopeChain' = SelectSeq(scopeChain, LAMBDA object : object.depth < Arg)
         /\ Step(pc + 1, SubSeq(stack, 1, Arg))
         /\ UNCHANGED <<script, exception, rval, popBlocks, trace, outcome>>

Gosub == /\ At("GOSUB")
         /\ Step(Arg, stack \o <<IF exception = None THEN Hole ELSE Value(exception),
                                 <<"pc", pc + 1>>>>)
         /\ exception' = None
         /\ UNCHANGED <<script, rval, Chains, trace, outcome>>

RetsubReturns == /\ At("RETSUB") /\ stack[Len(stack) - 1] = Hole
                 /\ Step(Top1[2], Popped(2))
                 /\ UNCHANGED <<script, exception, rval, Chains, trace, outcome>>

RetsubThrows == LET pending == stack[Len(stack) - 1] IN
                /\ At("RETSUB") /\ pending # Hole
                /\ Raise(pending[2], Popped(2)) /\ UNCHANGED trace

Exception == /\ At("EXCEPTION")
             /\ Step(pc + 1, Append(stack, Value(exception)))
             /\ exception' = None
             /\ UNCHANGED <<script, rval, Chains, trace, outcome>>

Throwing == /\ At("THROWING")
            /\ exception' = Top1[2]
            /\ Step(pc + 1, Popped(1))
            /\ UNCHANGED <<script, rval, Chains, trace, outcome>>

Throw == At("THROW") /\ Raise(Top1[2], Popped(1)) /\ UNCHANGED trace

Next == \/ Call \/ Test \/ Throws \/ Nop \/ Goto \/ Branch \/ OnStack \/ SetRval \/ Return
        \/ EnterWith \/ LeaveWith \/ EnterBlock \/ LeaveBlock
        \/ SetSp \/ Gosub \/ RetsubReturns \/ RetsubThrows \/ Exception \/ Throwing \/ Throw

(* No expression may be evaluated any more, or the frame is left.          *)
Stopped == \/ ~Running
           \/ Len(trace) = MaxEvents /\ (At("CALL") \/ At("COND") \/ At("FORNAME"))
-------------------------------------------------------------------------------
(* The assertions of js_Interpret on the instruction that comes next.      *)
Asserted ==
  CASE At("LEAVEWITH") -> Top1 = <<"with", 0>> /\ Last(scopeChain).kind = "with"
    [] At("ENDITER") \/ At("FORNAME") -> Top1 = <<"iter", 0>>
    [] At("ENTERBLOCK") -> /\ Last(Arg) = Len(stack)
                           /\ popBlocks => blockChain = <<>>
                           /\ ~popBlocks /\ blockChain # <<>> => Front(Arg) = blockChain
    [] At("LEAVEBLOCK") -> /\ Len(stack) >= Arg
                           /\ blockChain = <<>> => Last(scopeChain).kind = "block"
                           /\ Len(stack) - Arg = IF blockChain = <<>> THEN Last(scopeChain).depth
                                                 ELSE Last(blockChain)
    [] At("SETSP") -> /\ Len(stack) >= Arg
                      /\ \A n \in DOMAIN blockChain : blockChain[n] + 1 <= Arg => blockChain[n] < Arg
    [] At("RETSUB") -> Len(stack) >= 2 /\ Top1[1] = "pc"
    [] At("EXCEPTION") -> exception # None
    [] At("SETRVAL") \/ At("RETURN") \/ At("RETRVAL") \/ At("THROWING") \/ At("THROW") -> exception = None
    [] At("STOP") -> stack = <<>> /\ exception = None
    [] OTHER -> TRUE
===============================================================================
