------------------------------ MODULE PyProgram ------------------------------
(***************************************************************************)
(* What Python does with a function body given as a sequence of nodes and  *)
(* tokens (see Cfg): the order in which it evaluates things, independent   *)
(* of any graph.  An event is something a program can observe:             *)
(*   int, str, print        a simple statement                             *)
(*   test                   the condition of an if or while                *)
(*   iter, hasnext, next    of a for loop                                  *)
(*   ctx, getexit, enter, exit  of a with statement                        *)
(*   value                  the operand of return                          *)
(*   done                   the function returns, at being the return      *)
(*                          statement or 0                                 *)
(* why tells where an exit is going, and from which return statement.      *)
(***************************************************************************)
EXTENDS Integers, Sequences, FiniteSetsExt

Event(op, p) == [op |-> op, at |-> p, why |-> "fall", ret |-> 0]
Done(p) == Event("done", p)

\* The else and end tokens of the statement at p.
Closing(source, token, p) == CHOOSE q \in DOMAIN source : source[q] = [op |-> token, of |-> p]
ElseOf(source, p) == Closing(source, "else", p)
EndOf(source, p) == Closing(source, "end", p)
HasToken(source, token, p) == \E q \in DOMAIN source : source[q] = [op |-> token, of |-> p]

With == {"with", "withas"}

\* Statements around the node at p, and the loop that break and continue in it mean.
Around(source, ops, p) ==
  {o \in 1..(p - 1) : source[o].op \in ops /\ HasToken(source, "end", o) /\ EndOf(source, o) > p}
LoopOf(source, p) ==
  Max({o \in Around(source, {"while", "for"}, p) : ElseOf(source, o) > p})

\* Repeating a loop: the first event.
Again(source, o) == Event(IF source[o].op = "while" THEN "test" ELSE "hasnext", o)

\* Control reaches position p, or leaves the node at p.
RECURSIVE Reach(_, _), Leave(_, _, _, _)
Reach(source, p) ==
  IF p > Len(source) THEN Done(0)
  ELSE LET op == source[p].op
           of == source[p].of
       IN  CASE op \in {"int", "str", "print"} -> Event(op, p)
             [] op \in {"if", "while"} -> Event("test", p)
             [] op = "for" -> Event("iter", p)
             [] op \in With -> Event("ctx", p)
             [] op = "return" -> Event("value", p)
             [] op \in {"break", "continue"} -> Leave(source, p, op, 0)
             [] op = "else" -> IF source[of].op = "if" THEN Reach(source, EndOf(source, of) + 1)
                               ELSE Again(source, of)
             [] op = "end" -> IF source[of].op \in With THEN Event("exit", of)
                              ELSE Reach(source, p + 1)

Leave(source, p, why, ret) ==
  LET loop == IF why = "return" THEN 0 ELSE LoopOf(source, p)
      withs == {w \in Around(source, With, p) : w > loop}
  IN  IF withs # {} THEN [op |-> "exit", at |-> Max(withs), why |-> why, ret |-> ret]
      ELSE CASE why = "return" -> Done(ret)
             [] why = "break" -> Reach(source, EndOf(source, loop) + 1)
             [] why = "continue" -> Again(source, loop)

\* The event after e, if a condition or the question for a next element is answered b.
After(source, e, b) ==
  CASE e.op \in {"int", "str", "print", "next", "enter"} -> Reach(source, e.at + 1)
    [] e.op \in {"test", "hasnext"} ->
         IF ~b THEN Reach(source, ElseOf(source, e.at) + 1)
         ELSE IF e.op = "test" THEN Reach(source, e.at + 1) ELSE Event("next", e.at)
    [] e.op = "iter" -> Event("hasnext", e.at)
    [] e.op = "ctx" -> Event("getexit", e.at)
    [] e.op = "getexit" -> Event("enter", e.at)
    [] e.op = "value" -> Leave(source, e.at, "return", e.at)
    [] e.op = "exit" -> IF e.why = "fall" THEN Reach(source, EndOf(source, e.at) + 1)
                        ELSE Leave(source, e.at, e.why, e.ret)
==============================================================================
