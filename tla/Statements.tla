------------------------------ MODULE Statements ------------------------------
(***************************************************************************)
(* What statements mean: the completion of a statement, normal or by       *)
(* break, continue, return or an exception, from what its expressions      *)
(* said, one after the other, as trace has it.                             *)
(***************************************************************************)
EXTENDS Interpreter

VARIABLE tree   \* the statement that script was made from

(* A completion: how, at which event the next statement goes on, and       *)
(* whether a return was given up on the way by a finally clause.           *)
Normal(at, lost) == [type |-> "normal", at |-> at, val |-> Undefined, to |-> Unlabelled, lost |-> lost]
As(type, o) == [o EXCEPT !.type = type]

(* What the expression id says in scope; more, if it was not asked yet.    *)
Asked(o, id, env) ==
  IF o.at > Len(trace) THEN As("more", o)
  ELSE LET event == trace[o.at] IN
       IF event.at # id \/ event.scope # env.scope THEN As("wrong", o)
       ELSE IF event.said = "throw" THEN [As("throw", o) EXCEPT !.at = @ + 1, !.val = o.at]
       ELSE [o EXCEPT !.at = @ + 1]
IsNormal(o) == o.type = "normal"
No(o) == trace[o.at - 1].said = "no"

Inside(env, kind) == [env EXCEPT !.scope = Append(@, kind), !.labels = {}]
Plain(env) == [env EXCEPT !.labels = {}]

RECURSIVE Run(_, _, _), Loop(_, _, _), Round(_, _, _), Caught(_, _, _, _)

Loop(s, o, env) ==
  LET test == Asked(o, s.id, env) IN
  IF ~IsNormal(test) \/ No(test) THEN test ELSE Round(s, test, env)

Round(s, o, env) ==
  LET b == Run(s.body, o, Plain(env)) IN
  IF IsNormal(b) \/ (b.type = "continue" /\ b.to \in env.labels \cup {Unlabelled})
  THEN LET again == Normal(b.at, b.lost)
           update == Asked(again, s.next, env)
       IN IF s.kind # "for" THEN Loop(s, again, env)
          ELSE IF IsNormal(update) THEN Loop(s, update, env) ELSE update
  ELSE IF b.type = "break" /\ b.to = Unlabelled THEN Normal(b.at, b.lost) ELSE b

(* The exception of o at catch clause k and the ones behind it.            *)
Caught(s, k, o, env) ==
  LET inside == [Inside(env, "block") EXCEPT !.thrown = o.val]
      begun == Normal(o.at, o.lost)
      guard == IF s.catches[k].guard = 0 THEN begun ELSE Asked(begun, s.catches[k].guard, inside)
  IN IF k > Len(s.catches) THEN o
     ELSE IF ~IsNormal(guard) THEN guard
     ELSE IF s.catches[k].guard # 0 /\ No(guard)
          THEN Caught(s, k + 1, [o EXCEPT !.at = guard.at], env)
     ELSE Run(s.catches[k].body, guard, inside)

Try(s, o, env) ==
  LET tried == Run(s.body, o, Plain(env))
      c == IF tried.type = "throw" THEN Caught(s, 1, tried, env) ELSE tried
      f == Run(s.finally, Normal(c.at, c.lost), Plain(env))
  IN IF s.finally = Nothing \/ c.type \in {"more", "wrong"} THEN c
     ELSE IF IsNormal(f) THEN [c EXCEPT !.at = f.at, !.lost = f.lost]
     ELSE [f EXCEPT !.lost = @ \/ (c.type = "return" /\ f.type # "return")]

Run(s, o, env) ==
  CASE s.kind = "nothing" -> o
    [] s.kind = "call" -> Asked(o, s.id, env)
    [] s.kind = "block" -> LET first == Run(s.first, o, Plain(env)) IN
                           IF IsNormal(first) THEN Run(s.second, first, Plain(env)) ELSE first
    [] s.kind = "label" -> LET b == Run(s.body, o, [env EXCEPT !.labels = @ \cup {s.label}]) IN
                           IF b.type = "break" /\ b.to = s.label THEN Normal(b.at, b.lost) ELSE b
    [] s.kind = "do" -> Round(s, o, env)
    [] s.kind \in {"while", "for", "forin"} -> Loop(s, o, env)
    [] s.kind = "with" -> Run(s.body, o, Inside(env, "with"))
    [] s.kind = "try" -> Try(s, o, env)
    [] s.kind \in {"break", "continue"} -> [As(s.kind, o) EXCEPT !.to = s.label]
    [] s.kind = "return" -> [As("return", o) EXCEPT !.val = s.id, !.lost = FALSE]
    [] s.kind = "throw" -> [As("throw", o) EXCEPT !.val = env.thrown]

Meant == Run(tree, Normal(1, FALSE), [scope |-> <<>>, labels |-> {}, thrown |-> None])

(* The code of a function does what its statements say: it evaluates the   *)
(* expressions in their order and in their scope, with a stack as every    *)
(* instruction expects it, and ends as they do.  The value is not compared *)
(* when a finally clause has given a return up: fp->rval keeps it.         *)
RunsAsWritten ==
  /\ Asserted
  /\ Running /\ Stopped => Meant.type = "more"
  /\ ~Running => /\ Meant.at = Len(trace) + 1
                 /\ IF Meant.type = "throw" THEN outcome = <<"throw", Meant.val>>
                    ELSE /\ Meant.type \in {"normal", "return"}
                         /\ outcome[1] = "return"
                         /\ Meant.lost \/ outcome[2] = Meant.val
===============================================================================
