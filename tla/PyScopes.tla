------------------------------ MODULE PyScopes ------------------------------
(***************************************************************************)
(* The scope of a name according to Python's reference manual, section     *)
(* "Naming and binding", for a tree of CPython (see Parser): a name that   *)
(* a block binds is local to it unless the block declares it global; any   *)
(* other name belongs to the nearest function block around that binds it,  *)
(* and is global if there is none or if a function block on the way        *)
(* declares it global.  Class blocks do not count for the blocks in them.  *)
(***************************************************************************)
EXTENDS Ast

IsBlock(n) == TypeOf(n) \in {"ClassDef", "FunctionDef"}

\* The statements and expressions that run when a block runs, nested blocks excluded.
RECURSIVE Within(_)
Within(n) == {n} \cup IF IsBlock(n) THEN {} ELSE UNION {Within(Children(n)[i]) : i \in DOMAIN Children(n)}
Own(block) == UNION {Within(Field(block, "body")[2][i]) : i \in DOMAIN Field(block, "body")[2]}
Params(block) ==
  IF TypeOf(block) = "ClassDef" THEN {}
  ELSE UNION {Within(Field(Field(block, "args"), "args")[2][i]) :
                i \in DOMAIN Field(Field(block, "args"), "args")[2]}

IdsIn(nodes, ctxs) ==
  {Field(n, "id")[2] : n \in {m \in nodes : TypeOf(m) = "Name" /\ TypeOf(Field(m, "ctx")) \in ctxs}}
AsName(a) == IF Field(a, "asname") = NULL THEN Field(a, "name")[2] ELSE Field(a, "asname")[2]

Declared(block) ==
  UNION {ToSet([i \in DOMAIN Field(n, "names")[2] |-> Field(n, "names")[2][i][2]]) :
           n \in {m \in Own(block) : TypeOf(m) = "Global"}}
Binds(block) ==
  IdsIn(Own(block) \cup Params(block), {"Store", "Param"})
  \cup {Field(n, "name")[2] : n \in {m \in Own(block) : IsBlock(m)}}
  \cup {AsName(n) : n \in {m \in Own(block) : TypeOf(m) = "alias"}}
Uses(block) == IdsIn(Own(block), {"Load"}) \cup Binds(block)

\* blocks: the blocks around, outermost first.  The position of the one a name
\* that is free in them belongs to, 0 for global.
RECURSIVE Owner(_, _)
Owner(blocks, name) ==
  IF blocks = <<>> THEN 0
  ELSE LET b == blocks[Len(blocks)]
       IN IF TypeOf(b) = "ClassDef" THEN Owner(Front(blocks), name)
          ELSE IF name \in Declared(b) THEN 0
          ELSE IF name \in Binds(b) THEN Len(blocks)
          ELSE Owner(Front(blocks), name)

\* "local", "global", or the position of the block around that owns the name.
Kind(blocks, block, name) ==
  CASE name \in Declared(block) -> <<"global">>
    [] name \notin Declared(block) /\ name \in Binds(block) -> <<"local">>
    [] OTHER -> LET o == Owner(blocks, name) IN IF o = 0 THEN <<"global">> ELSE <<"closure", o>>
=============================================================================
