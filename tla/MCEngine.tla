------------------------------- MODULE MCEngine -------------------------------
(***************************************************************************)
(* Parts of libjoyo and its engine that keep no state in common, each      *)
(* explored by itself: part says which one a behaviour is of, and the      *)
(* variables of the others stay as they are.                               *)
(***************************************************************************)
EXTENDS GCMarking, GCHeap, LocalRoots, Strings, DoubleHash, ScriptBuffers,
        ScopeProperties

CONSTANTS MaxSlots, Parts

VARIABLES part,
          source, regexp, input, start, m, expr,
          code, at, operands, exception, rval, scopeChain, blockChain, popBlocks,
          trace, outcome, tree

Pattern == INSTANCE Patterns WITH Inputs <- {<<"a", "a", "b">>, <<"a", "b">>}, MaxBacks <- 12

Code == INSTANCE Statements WITH script <- code, pc <- at, stack <- operands, MaxEvents <- 6

patternVars == <<source, regexp, input, start, m, expr>>
codeVars == <<code, at, operands, exception, rval, scopeChain, blockChain, popBlocks,
              trace, outcome, tree>>
engineVars == <<part, vars, gcHeapVars, rootsVars, stringsVars, tableVars, bufferVars, patternVars,
                codeVars, propVars>>
-------------------------------------------------------------------------------
(* The graphs of four objects and a string, flat or with a base, that have *)
(* MaxSlots slots between them.                                            *)
SlotsOf(n) == {s \in [1..n -> 1..5] : IsInjective(s)}
Shapes == {n \in [Objects -> 0..2] : n[1] + n[2] + n[3] + n[4] <= MaxSlots}
MCGraphs == UNION {{<<s1, s2, s3, s4, base, <<>>>> :
                      s1 \in SlotsOf(n[1]), s2 \in SlotsOf(n[2]), s3 \in SlotsOf(n[3]),
                      s4 \in SlotsOf(n[4]), base \in {<<>>, <<6>>}} : n \in Shapes}

(* The arenas of the heap, which no other part has, and which the code     *)
(* never puts in an order.                                                 *)
BlocksAlike == Permutations(Blocks)
MCLiterals == {<<"a", "b">>}
MCHash == <<2, 4, 6, 18, 20>>
MCArena == <<1, 1, 1, 2, 2, 2>>
MCPage == <<1, 2, 2, 1, 1, 1>>
MCChunk == <<1, 1, 1, 1, 1, 2>>

GeneratorsYield ==
  /\ inFinally = generators
  /\ generators = {} => ~lastContext

NothingToMark ==
  /\ kids = <<<<>>, <<>>, <<>>, <<>>, <<>>, <<>>>>
  /\ generators = {} /\ inFinally = {} /\ lastContext = FALSE /\ room = 0

(* Expressions: a group or a quantifier around a leaf or two, another one  *)
(* around it, and something behind it.                                     *)
Quantifiers == {Pattern!Quantifier(0, -1, TRUE), Pattern!Quantifier(0, -1, FALSE),
                Pattern!Quantifier(2, 3, FALSE), Pattern!Quantifier(0, 2, TRUE)}
Around(es) == {Pattern!Group(k, e) : k \in {"cap", "look", "nlook"}, e \in es}
              \cup {Pattern!Times(e, q) : q \in Quantifiers, e \in es}
Joined(ls, rs) == {Pattern!Pair(k, l, r) : k \in {"cat", "alt"}, l \in ls, r \in rs}

Letters == {Pattern!Chr("a"), Pattern!Chr("b")}
Small == Letters \cup {Pattern!Empty, Pattern!Bol} \cup Joined(Letters, Letters \cup {Pattern!Empty})
Captures == {Pattern!Group("cap", e) : e \in Small}
Expressions == LET once == Around(Small)
                   behind == Joined(once, {Pattern!Chr("b")}) IN
               once \cup Around(once) \cup behind \cup Around(Joined(Around(Letters), Letters))
               \cup Joined(Captures, {Pattern!Ref})

(* Functions whose body is a labelled loop around three statements that    *)
(* stand in one another: the innermost one is a call or a way out, the     *)
(* outermost one leaves something on the stack.                            *)
Ask(id) == [kind |-> "call", id |-> id]
Seq2(a, b) == [kind |-> "block", first |-> a, second |-> b]
Loop(k, id, b) == [kind |-> k, id |-> id, next |-> id + 1, body |-> b]
With(b) == [kind |-> "with", body |-> b]
Try(b, catches, f) == [kind |-> "try", body |-> b, catches |-> catches, finally |-> f]
Clause(guard, b) == [guard |-> guard, body |-> b]
Rethrow == [kind |-> "throw"]

Exits == {[kind |-> "return", id |-> 2]}
         \cup {[kind |-> k, label |-> l] : k \in {"break", "continue"}, l \in {"", "L"}}

Stacking(id, bodies) ==
  UNION {{Loop("forin", id, b), Try(b, <<>>, Ask(id)), Try(Ask(id), <<>>, b)} : b \in bodies}

Compound(id, bodies) ==
  Stacking(id, bodies)
  \cup UNION {{Loop("while", id, b), Loop("do", id, b), Loop("for", id, b), With(b),
               Try(b, <<Clause(0, Ask(id))>>, Code!Nothing),
               Try(Ask(id), <<Clause(0, b)>>, Code!Nothing),
               Try(Ask(id), <<Clause(id + 1, b), Clause(0, Ask(id + 2))>>, Code!Nothing),
               Try(Ask(id), <<Clause(id + 1, b), Clause(id + 2, Rethrow)>>, Ask(id + 3))} :
                 b \in bodies}

Trees ==
  LET inner == Compound(10, Exits \cup {Ask(1)})
               \cup {Try(Ask(10), <<Clause(0, b)>>, Ask(11)) : b \in {Rethrow, With(Rethrow)}}
      nested == Compound(20, inner)
      bodies == inner \cup nested \cup Stacking(30, nested)
  IN {Seq2([kind |-> "label", label |-> "L", body |-> Loop("for", 40, Seq2(b, Ask(42)))], Ask(43)) :
        b \in bodies}

(* Scopes that share a part of their lines and hang in chunks where they   *)
(* differ, or have nothing yet, as those of long histories.                *)
OwnLabel(id) == Label(id, "own", NoSlot, 0)
SharedLabel(id) == Label(id, "shared", NoSlot, 0)
TwoScopes == <<<<>>, <<>>>>
Families ==
  IF MaxCalls > 2 THEN {TwoScopes}
  ELSE {TwoScopes,
        << <<OwnLabel(1), OwnLabel(2), OwnLabel(3)>>,
           <<OwnLabel(1), OwnLabel(2), SharedLabel(3)>>,
           <<OwnLabel(1), SharedLabel(2)>> >>,
        << <<SharedLabel(3), OwnLabel(1), OwnLabel(2)>>,
           <<SharedLabel(3), OwnLabel(1), SharedLabel(2)>>,
           <<SharedLabel(3), SharedLabel(2)>> >>}

EngineInit ==
  /\ part \in Parts
  /\ IF part = "marking" THEN HeapToMark /\ GeneratorsYield ELSE NothingToMark
  /\ MarkingStarts
  /\ HeapInit /\ RootsInit /\ StringsInit /\ BuffersInit
  /\ IF part = "table" THEN TableInit ELSE TableStarts(MinSize)
  /\ expr \in IF part = "regexp" THEN Expressions ELSE {Pattern!Empty}
  /\ source = Pattern!Text(expr) /\ Pattern!NoRegExp
  /\ tree \in IF part = "statements" THEN Trees ELSE {Ask(1)}
  /\ \E heavy \in IF part = "statements" THEN BOOLEAN ELSE {FALSE} :
       Code!Load(Code!Script(tree, heavy))
  /\ IF part = "properties" THEN \E lines \in Families : Load(lines) ELSE NewScopes(0)
-------------------------------------------------------------------------------
(* A collection that has come to its sweep, one that has taken the base of *)
(* a string, a history of strings that is as long as the bound, a match    *)
(* that is found or has failed, a function that has returned or evaluates  *)
(* no more.                                                                *)
Done == /\ \/ part = "marking" /\ phase = "sweep"
           \/ part = "heap" /\ ~Intact
           \/ part = "strings" /\ ops = MaxOps
           \/ part = "regexp" /\ Pattern!Finished
           \/ part = "statements" /\ Code!Stopped
        /\ UNCHANGED engineVars

EngineNext ==
  /\ UNCHANGED part
  /\ \/ part = "marking" /\ Next
        /\ UNCHANGED <<gcHeapVars, rootsVars, stringsVars, tableVars, bufferVars, patternVars, codeVars, propVars>>
     \/ part = "heap" /\ HeapNext
        /\ UNCHANGED <<vars, rootsVars, stringsVars, tableVars, bufferVars, patternVars, codeVars, propVars>>
     \/ part = "roots" /\ RootsNext
        /\ UNCHANGED <<vars, gcHeapVars, stringsVars, tableVars, bufferVars, patternVars, codeVars, propVars>>
     \/ part = "strings" /\ StringsNext
        /\ UNCHANGED <<vars, gcHeapVars, rootsVars, tableVars, bufferVars, patternVars, codeVars, propVars>>
     \/ part = "table" /\ TableNext
        /\ UNCHANGED <<vars, gcHeapVars, rootsVars, stringsVars, bufferVars, patternVars, codeVars, propVars>>
     \/ part = "buffers" /\ BuffersNext
        /\ UNCHANGED <<vars, gcHeapVars, rootsVars, stringsVars, tableVars, patternVars, codeVars, propVars>>
     \/ part = "regexp" /\ Pattern!Next /\ UNCHANGED expr
        /\ UNCHANGED <<vars, gcHeapVars, rootsVars, stringsVars, tableVars, bufferVars, codeVars, propVars>>
     \/ part = "statements" /\ Code!Next /\ UNCHANGED tree
        /\ UNCHANGED <<vars, gcHeapVars, rootsVars, stringsVars, tableVars, bufferVars, patternVars, propVars>>
     \/ part = "properties" /\ PropertiesNext
        /\ UNCHANGED <<vars, gcHeapVars, rootsVars, stringsVars, tableVars, bufferVars, patternVars, codeVars>>
     \/ Done

EngineSpec == EngineInit /\ [][EngineNext]_engineVars
-------------------------------------------------------------------------------
MatchesAsMeant == part = "regexp" => Pattern!MatchesAsMeant
RunsAsWritten == part = "statements" => Code!RunsAsWritten
EmptyMatches == Pattern!EmptyMatches
===============================================================================
