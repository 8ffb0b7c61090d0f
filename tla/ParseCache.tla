----------------------------- MODULE ParseCache -----------------------------
(***************************************************************************)
(* caching_parse of codegen/parser.cpp (CacheFile) with what parse_ast.py  *)
(* writes and the processes read from the cache (Parser), and the scopes   *)
(* of the tree they get (Scoping).                                         *)
(***************************************************************************)
EXTENDS CacheFile, Parser

S_ == INSTANCE Scoping
P_ == INSTANCE PyScopes

TypeIsModule(tree) == TypeOf(tree) = "Module"

-----------------------------------------------------------------------------
(***************************************************************************)
(* The tree of Pyston that stands for a tree of CPython.                   *)
(***************************************************************************)
Placeless == {"alias", "arguments", "keyword", "Module", "Index", "Slice"}
RECURSIVE Meant(_), MeantField(_, _)
Meant(n) ==
  LET extra == IF TypeOf(n) \in Placeless THEN [lineno |-> I(-1), col_offset |-> I(-1)]
               ELSE IF TypeOf(n) = "Num" THEN [num_type |-> I(IF Field(n, "n")[1] = "int" THEN 16 ELSE 32)]
               ELSE <<>>
  IN IF n = None THEN NULL
     ELSE IF TypeOf(n) \in Operators THEN I(Enum(TypeOf(n)))
     ELSE Node(TypeOf(n), [k \in DOMAIN n[3] |-> MeantField(k, Field(n, k))] @@ extra)
MeantField(k, v) ==
  CASE v = None /\ k \in {"vararg", "asname"} -> S(<<>>)
    [] v[1] = "list" -> L([i \in DOMAIN v[2] |-> IF v[2][i][1] = "str" THEN v[2][i] ELSE Meant(v[2][i])])
    [] v[1] \in {"node", "null"} /\ ~(v = None /\ k \in {"vararg", "asname"}) -> Meant(v)
    [] OTHER -> v

(***************************************************************************)
(* Scoping decides for every name that a function or class body uses       *)
(* whether it is global, local or of an enclosing function as Python does, *)
(* and knows which names enclosing functions must keep for it.  No         *)
(* function or class of a module that has neither a for loop around it nor *)
(* a global statement of its own fails the assertion of analyzeSubtree;    *)
(* ScopesFound, without these two exceptions, is what the assertion says.  *)
(***************************************************************************)
BlocksAround(path) ==
  LET at == SelectSeq([i \in 1..(Len(path) - 1) |-> SubSeq(path, 1, i)],
                      LAMBDA q : P_!IsBlock(AtPath(source, q)))
  IN [i \in DOMAIN at |-> AtPath(source, at[i])]
PathsAround(path) ==
  SelectSeq([i \in 1..(Len(path) - 1) |-> SubSeq(path, 1, i)],
            LAMBDA q : P_!IsBlock(AtPath(source, q)))

ScopeRight(usages, u) ==
  /\ ~u.aborts
  /\ \A name \in P_!Uses(AtPath(source, u.path)) :
       LET kind == P_!Kind(BlocksAround(u.path), AtPath(source, u.path), name)
       IN /\ S_!refersToGlobal(usages, u, name) = (kind[1] = "global")
          /\ S_!refersToClosure(usages, u, name) = (kind[1] = "closure")
          /\ kind[1] = "closure" =>
               S_!saveInClosure(usages, CHOOSE v \in usages : v.path = PathsAround(u.path)[kind[2]], name)

InLoop(module, path) ==
  \E i \in 1..(Len(path) - 1) : TypeOf(AtPath(module, SubSeq(path, 1, i))) = "For"

ScopesRight ==
  \A p \in Procs : proc[p].pc = "done" =>
    \A path \in S_!Subtrees(proc[p].tree) :
      LET usages == S_!analyzeSubtree(proc[p].tree, path)
      IN /\ \/ S_!Found(proc[p].tree, path)
            \/ InLoop(proc[p].tree, path)
            \/ FlattenAborts(proc[p].tree)
         /\ \A u \in usages : ScopeRight(usages, u)

(***************************************************************************)
(* The assertion of analyzeSubtree: flatten finds the function or class    *)
(* whose names are asked for among the statements of the module.           *)
(***************************************************************************)
ScopesFound ==
  \A p \in Procs : proc[p].pc = "done" =>
    \A path \in S_!Subtrees(proc[p].tree) : S_!Found(proc[p].tree, path)

-----------------------------------------------------------------------------
(***************************************************************************)
(* The sources for model checking.                                         *)
(***************************************************************************)
x == <<120>>
y == <<121, 121>>
Load(line, id) == Name(line, id, "Load")
Store(line, id) == Name(line, id, "Store")
NoArgs == arguments(<<>>, <<>>, None, None)
Sets(line, id) == Simple("Assign", line, [targets |-> L(<<Store(line, id)>>), value |-> Num(line, I(-1))])
Gets(line, id) == Simple("Expr", line, [value |-> Load(line, id)])
Pass(line) == Simple("Pass", line, <<>>)
Global(line, id) == Simple("Global", line, [names |-> L(<<S(id)>>)])

-----------------------------------------------------------------------------
\* Every type of node that the parser knows, with its optional parts present and absent.
Half == <<63, 224, 0, 0, 0, 0, 0, 0>>
Lists(e) == {L(<<>>), L(<<e>>), L(<<e, Num(7, I(300))>>)}
Slices == {Node("Index", [value |-> Num(8, I(0))])} \cup
  {Node("Slice", [lower |-> l, upper |-> u, step |-> s]) :
     l \in {None, Num(8, I(1))}, u \in {None, Num(8, I(2))}, s \in {None, Num(8, I(3))}}
Expressions ==
  LET e == Load(2, x)
  IN {Num(1, I(70000)), Num(1, <<"float", Half>>), Simple("Str", 1, [s |-> S(y)]),
      Simple("Attribute", 1, [value |-> e, attr |-> S(y), ctx |-> Ctx("Load")]),
      Simple("BinOp", 1, [left |-> e, op |-> Ctx("FloorDiv"), right |-> Num(2, I(5))]),
      Simple("BoolOp", 1, [op |-> Ctx("Or"), values |-> L(<<e, e>>)]),
      Simple("UnaryOp", 1, [op |-> Ctx("Not"), operand |-> e]),
      Simple("Compare", 1, [left |-> e, ops |-> L(<<Ctx("Lt"), Ctx("IsNot")>>),
                            comparators |-> L(<<Load(2, y), Num(2, I(9))>>)])}
     \cup {Simple("Call", 1, [func |-> e, args |-> a, starargs |-> s, kwargs |-> k,
                              keywords |-> L(<<keyword(y, Num(3, I(4)))>>)]) :
             a \in Lists(e), s \in {None, Load(3, x)}, k \in {None, Load(4, y)}}
     \cup {Simple(t, 1, [elts |-> es, ctx |-> Ctx("Load")]) : t \in {"List", "Tuple"}, es \in Lists(e)}
     \cup {Simple("Dict", 1, [keys |-> es, values |-> es]) : es \in Lists(e)}
     \cup {Simple("Subscript", 1, [value |-> e, slice |-> sl, ctx |-> Ctx("Load")]) : sl \in Slices}

Statements ==
  LET bodies == {L(<<Pass(6)>>), L(<<Simple("Break", 6, <<>>), Simple("Continue", 7, <<>>)>>)}
      elses == {L(<<>>), L(<<Pass(8)>>)}
      test == Load(5, y)
  IN {Simple("Expr", 1, [value |-> e]) : e \in Expressions}
     \cup {Simple("Return", 1, [value |-> v]) : v \in {None, test}}
     \cup {Simple("Print", 1, [dest |-> d, values |-> vs, nl |-> <<"bool", nl>>]) :
             d \in {None, test}, vs \in Lists(test), nl \in BOOLEAN}
     \cup {Simple("Import", 1, [names |-> L(<<alias(x, None), alias(x, S(y))>>)]),
           Simple("Global", 1, [names |-> L(<<S(x), S(y)>>)])}
     \cup {Simple(t, 1, [test |-> test, body |-> b, orelse |-> e]) : t \in {"If", "While"}, b \in bodies, e \in elses}
     \cup {Simple("For", 1, [iter |-> test, target |-> Store(5, x), body |-> b, orelse |-> e]) : b \in bodies, e \in elses}
     \cup {Simple("With", 1, [context_expr |-> test, optional_vars |-> v, body |-> b]) :
             v \in {None, Store(5, x)}, b \in bodies}
     \cup {Def(1, y, arguments(<<Name(5, x, "Param"), Name(5, y, "Param")>>, ds, va, None), <<Pass(6)>>, <<test>>) :
             ds \in {<<>>, <<Num(5, I(2))>>}, va \in {None, S(<<97>>)}}
     \cup {Class(1, y, <<test>>, <<Pass(6)>>)}

-----------------------------------------------------------------------------
\* Functions and classes nested in each other, with every use of one name at every level.
Uses(line) ==
  {<<Gets(line, x)>>, <<Sets(line, x)>>, <<Pass(line)>>,
   <<Global(line, x), Sets(line, x)>>, <<Global(line, x), Gets(line, x)>>,
   <<Simple("Import", line, [names |-> L(<<alias(y, S(x))>>)])>>,
   <<Simple("For", line, [iter |-> Load(line, y), target |-> Store(line, x),
                          body |-> L(<<Gets(line, y)>>), orelse |-> L(<<>>)])>>}
Scopes(line, bodies) ==
  {Def(line, <<102>>, NoArgs, b, <<>>) : b \in bodies}
  \cup {Class(line, <<67>>, <<>>, b) : b \in bodies}
Takes(line, bodies) ==
  {Def(line, y, arguments(<<Name(line, x, "Param")>>, <<>>, None, None), b, <<>>) : b \in bodies}
Innermost == Scopes(30, {b \in Uses(31) : Len(b) = 1})
Middle == Scopes(20, Uses(21) \cup {u \o <<n>> : u \in Uses(21), n \in Innermost})
Nested == Scopes(10, {u \o <<n>> : u \in Uses(11), n \in Scopes(20, Uses(21))})
  \cup Takes(10, {<<n>> : n \in Middle})
  \cup {Def(10, y, NoArgs, <<Sets(11, x), n>>, <<>>) : n \in Middle}

-----------------------------------------------------------------------------
\* Several functions and classes, in the statements of the module as well.
If(line, body, orelse) == Simple("If", line, [test |-> Load(line, y), body |-> L(body), orelse |-> L(orelse)])
While(line, body, orelse) == Simple("While", line, [test |-> Load(line, y), body |-> L(body), orelse |-> L(orelse)])
For(line, body, orelse) ==
  Simple("For", line, [iter |-> Load(line, y), target |-> Store(line, x), body |-> L(body), orelse |-> L(orelse)])
With(line, body) ==
  Simple("With", line, [context_expr |-> Load(line, y), optional_vars |-> Store(line, x), body |-> L(body)])
Around(line, body, orelse) ==
  {<<If(line, body, orelse)>>, <<While(line, body, orelse)>>, <<For(line, body, orelse)>>,
   <<With(line, body)>> \o orelse, <<If(line, <<For(line + 1, body, <<>>)>>, orelse)>>,
   <<For(line, <<If(line + 1, body, <<>>)>>, orelse)>>, body \o orelse}
Several == UNION {Around(1, <<d>>, <<c>>) : d \in Scopes(10, Uses(11)),
                                            c \in Scopes(20, {<<Gets(21, x)>>, <<Sets(21, x)>>})}

OneStatement == {Module(<<s>>) : s \in Statements}
RacedPrograms == {Module(<<Pass(1)>>), Module(<<Gets(2, x)>>), SyntaxError}
SeveralScopes == {Module(body) : body \in Several}
GlobalScopes == {Module(<<Global(1, x), d>>) : d \in Scopes(10, Uses(11))}
AllPrograms == OneStatement \cup RacedPrograms \cup SeveralScopes \cup GlobalScopes \cup {Module(<<s>>) : s \in Nested}
=============================================================================
