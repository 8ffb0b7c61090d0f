--------------------------------- MODULE Cfg ---------------------------------
(***************************************************************************)
(* CFGVisitor and computeCFG (core/cfg.cpp): a function body becomes a     *)
(* graph of basic blocks.  The visitor walks a tree by recursion; here the *)
(* tree arrives as the sequence source of its nodes, each compound one     *)
(* followed by its body, an "else" token, its orelse and an "end" token    *)
(* (with has no else), and the stack open holds the locals of the visit    *)
(* functions under way.  The program is whatever sequence the steps build. *)
(*                                                                         *)
(* Blocks are numbered in the order they are created; cfg.blocks is the    *)
(* vector of placed blocks, which gives them their idx.  The program has   *)
(* one variable x.  Conditions, iterators, context managers and returned   *)
(* values are opaque.                                                      *)
(***************************************************************************)
EXTENDS Integers, Sequences, SequencesExt, FiniteSets

CONSTANT
  Families   \* which node kinds may be combined, and how many: [kinds, max]

VARIABLES
  family,    \* the member of Families the program is from
  source,    \* nodes visited so far, each [op, of], of being what a token closes
  cfg,       \* body, preds and succs of every block, and the vector blocks
  curblock,  \* where statements go, NULL in dead code
  loops,     \* continue_dest and break_dest of the loops around
  returns,   \* where return jumps to inside with statements
  open       \* locals of the visit functions under way

visitVars == <<family, source, cfg, curblock, loops, returns, open>>

NULL == 0
Simple == {"int", "str", "print"}   \* x = 1, x = 's', print x
With == {"with", "withas"}           \* with c: and with c as x:
Compound == {"if", "while", "for"} \cup With
Kinds == Simple \cup Compound \cup {"return", "break", "continue"}
Nodes == Cardinality({p \in DOMAIN source : source[p].op \in Kinds})

-----------------------------------------------------------------------------
(* Statements of the blocks.  A name is <<what, node>>: the visitor's own    *)
(* variables carry the address of the node they belong to.                  *)

X == <<"x", 0>>
RTNVAL == <<"#rtnval", 0>>
Iter(p) == <<"#iter", p>>
CtxMgr(p) == <<"#ctxmgr", p>>
Exit(p) == <<"#exit", p>>

Stmt(op, p, loads, stores, type) ==
  [op |-> op, at |-> p, loads |-> loads, stores |-> stores, type |-> type]

\* Nodes that become a statement of the current block as they are.
Statement(op, p) ==
  CASE op = "int"   -> Stmt("int", p, {}, {X}, "INT")
    [] op = "str"   -> Stmt("str", p, {}, {X}, "STR")
    [] op = "print" -> Stmt("print", p, {X}, {}, "NONE")

ExitCall(p) == Stmt("exit", p, {Exit(p)}, {}, "NONE")
HasNext(p) == Stmt("hasnext", p, {Iter(p)}, {}, "NONE")

\* Jumps for which connectTo is told allow_backedge, and the others.
Jump == Stmt("jump", NULL, {}, {}, "FORWARD")
BackJump == Stmt("jump", NULL, {}, {}, "ANY")

-----------------------------------------------------------------------------
(* CFG and CFGBlock.                                                        *)

NoBlocks == [body |-> <<>>, preds |-> <<>>, succs |-> <<>>, blocks |-> <<>>]
Latest(g) == Len(g.body)

addDeferredBlock(g) ==
  [g EXCEPT !.body = Append(@, <<>>), !.preds = Append(@, <<>>), !.succs = Append(@, <<>>)]
placeBlock(g, b) == [g EXCEPT !.blocks = Append(@, b)]
addBlock(g) == placeBlock(addDeferredBlock(g), Latest(g) + 1)
push_back(g, b, s) == IF b = NULL THEN g ELSE [g EXCEPT !.body[b] = Append(@, s)]
connectTo(g, b, c) == [g EXCEPT !.succs[b] = Append(@, c), !.preds[c] = Append(@, b)]

\* A jump at the end of block b, if the code up to there is not dead.
jumpTo(g, b, j, c) == IF b = NULL THEN g ELSE connectTo(push_back(g, b, j), b, c)

idx(g, b) == IF \E i \in DOMAIN g.blocks : g.blocks[i] = b
             THEN CHOOSE i \in DOMAIN g.blocks : g.blocks[i] = b
             ELSE 0

-----------------------------------------------------------------------------
VisitInit ==
  /\ family \in Families
  /\ source = <<>>
  /\ cfg = addBlock(NoBlocks)
  /\ curblock = 1
  /\ loops = <<>> /\ returns = <<>> /\ open = <<>>

Top == Last(open)
Skipping == open # <<>> /\ Top.op = "skip"
Here == Len(source) + 1

\* The next node is a statement.  Nothing in a statement that is skipped is
\* looked at, so it is left empty.
Node(op) ==
  /\ op \in family.kinds
  /\ Nodes < family.max
  /\ ~Skipping
  /\ source' = Append(source, [op |-> op, of |-> NULL])
  /\ UNCHANGED family

\* The next token ends a part of the innermost statement of kind op.
Token(token, op, else) ==
  /\ open # <<>>
  /\ Top.op = op
  /\ Top.else = else
  /\ source' = Append(source, [op |-> token, of |-> Top.at])
  /\ UNCHANGED family

Opened(locals) == open' = Append(open, locals)
InElse(locals) == open' = Append(Front(open), locals)
Closed == open' = Front(open)

\* visit_assign, visit_expr, visit_pass, visit_print and the others like them.
VisitSimple ==
  \E op \in Simple :
    /\ Node(op)
    /\ cfg' = push_back(cfg, curblock, Statement(op, Here))
    /\ UNCHANGED <<curblock, loops, returns, open>>

\* doReturn, with the destinations rets of the with statements around.
DoReturn(g, rets, b, op, p, loads) ==
  IF rets # <<>>
  THEN jumpTo(push_back(g, b, Stmt(op, p, loads, {RTNVAL}, "UNKNOWN")), b, Jump, Last(rets))
  ELSE push_back(g, b, Stmt("return", p, loads, {}, "NONE"))

\* visit_return.  In dead code inside with, doReturn uses a null curblock; programs
\* with such code are left out.
VisitReturn ==
  /\ Node("return")
  /\ curblock # NULL \/ returns = <<>>
  /\ cfg' = DoReturn(cfg, returns, curblock, "value", Here, {})
  /\ curblock' = NULL
  /\ UNCHANGED <<loops, returns, open>>

VisitBreak ==
  /\ loops # <<>>
  /\ Node("break")
  /\ cfg' = jumpTo(cfg, curblock, BackJump, Last(loops).break_dest)
  /\ curblock' = NULL
  /\ UNCHANGED <<loops, returns, open>>

VisitContinue ==
  /\ loops # <<>>
  /\ Node("continue")
  /\ cfg' = jumpTo(cfg, curblock, BackJump, Last(loops).continue_dest)
  /\ curblock' = NULL
  /\ UNCHANGED <<loops, returns, open>>

\* if (!curblock) return true.
VisitDead ==
  /\ curblock = NULL
  /\ \E op \in Compound \ With :
       /\ Node(op)
       /\ Opened([op |-> "skip", at |-> Here, else |-> FALSE])
  /\ UNCHANGED <<cfg, curblock, loops, returns>>

VisitDeadEnd ==
  /\ Token("end", "skip", FALSE)
  /\ Closed
  /\ UNCHANGED <<cfg, curblock, loops, returns>>

VisitIf ==
  /\ curblock # NULL
  /\ Node("if")
  /\ LET exit == Latest(cfg) + 1
         iftrue == exit + 1
         g == push_back(cfg, curblock, Stmt("test", Here, {}, {}, "NONE"))
     IN  /\ cfg' = connectTo(addBlock(addDeferredBlock(g)), curblock, iftrue)
         /\ curblock' = iftrue
         /\ Opened([op |-> "if", at |-> Here, else |-> FALSE,
                    exit |-> exit, starting_block |-> curblock])
  /\ UNCHANGED <<loops, returns>>

VisitIfElse ==
  /\ Token("else", "if", FALSE)
  /\ LET iffalse == Latest(cfg) + 1
         g == addBlock(jumpTo(cfg, curblock, Jump, Top.exit))
     IN  /\ cfg' = connectTo(g, Top.starting_block, iffalse)
         /\ curblock' = iffalse
  /\ InElse([Top EXCEPT !.else = TRUE])
  /\ UNCHANGED <<loops, returns>>

VisitIfEnd ==
  /\ Token("end", "if", TRUE)
  /\ LET g == jumpTo(cfg, curblock, Jump, Top.exit)
     IN  IF g.preds[Top.exit] = <<>>
         THEN /\ cfg' = g
              /\ curblock' = NULL
         ELSE /\ cfg' = placeBlock(g, Top.exit)
              /\ curblock' = Top.exit
  /\ Closed
  /\ UNCHANGED <<loops, returns>>

VisitWhile ==
  /\ curblock # NULL
  /\ Node("while")
  /\ LET test == Latest(cfg) + 1
         end == test + 1
         body == test + 2
         g1 == jumpTo(addBlock(cfg), curblock, Jump, test)
         g2 == push_back(g1, test, Stmt("test", Here, {}, {}, "NONE"))
     IN  /\ cfg' = connectTo(addBlock(addDeferredBlock(g2)), test, body)
         /\ curblock' = body
         /\ loops' = Append(loops, [continue_dest |-> test, break_dest |-> end])
         /\ Opened([op |-> "while", at |-> Here, else |-> FALSE, test |-> test, end |-> end])
  /\ UNCHANGED returns

VisitWhileElse ==
  /\ Token("else", "while", FALSE)
  /\ LET orelse == Latest(cfg) + 1
         g == jumpTo(cfg, curblock, BackJump, Top.test)
     IN  /\ cfg' = connectTo(addBlock(g), Top.test, orelse)
         /\ curblock' = orelse
  /\ loops' = Front(loops)
  /\ InElse([Top EXCEPT !.else = TRUE])
  /\ UNCHANGED returns

\* The end of while and of for.  It is placed even if nothing leads there, because
\* the orelse leaves the function and there is no break: computeCFG then aborts.
VisitLoopEnd ==
  /\ \E op \in {"while", "for"} : Token("end", op, TRUE)
  /\ LET g == jumpTo(cfg, curblock, Jump, Top.end)
     IN  cfg' = placeBlock(g, Top.end)
  /\ curblock' = Top.end
  /\ Closed
  /\ UNCHANGED <<loops, returns>>

VisitFor ==
  /\ curblock # NULL
  /\ Node("for")
  /\ LET test == Latest(cfg) + 1
         test_true == test + 1
         test_false == test + 2
         loop == test + 3
         end == test + 4
         else == test + 5
         g1 == push_back(cfg, curblock, Stmt("iter", Here, {}, {Iter(Here)}, "UNKNOWN"))
         g2 == jumpTo(addBlock(g1), curblock, Jump, test)
         g3 == push_back(g2, test, HasNext(Here))
         g4 == connectTo(connectTo(addBlock(addBlock(g3)), test, test_true), test, test_false)
         g5 == addDeferredBlock(addDeferredBlock(addBlock(g4)))
         g6 == jumpTo(jumpTo(g5, test_true, Jump, loop), test_false, Jump, else)
     IN  /\ cfg' = push_back(g6, loop, Stmt("next", Here, {Iter(Here)}, {X}, "UNKNOWN"))
         /\ curblock' = loop
         /\ loops' = Append(loops, [continue_dest |-> test, break_dest |-> end])
         /\ Opened([op |-> "for", at |-> Here, else |-> FALSE,
                    loop |-> loop, end |-> end, else_block |-> else])
  /\ UNCHANGED returns

VisitForElse ==
  /\ Token("else", "for", FALSE)
  /\ LET end_true == Latest(cfg) + 1
         end_false == end_true + 1
         g1 == addBlock(addBlock(push_back(cfg, curblock, HasNext(Top.at))))
         g2 == connectTo(connectTo(g1, curblock, end_true), curblock, end_false)
         g3 == jumpTo(g2, end_true, BackJump, Top.loop)
         g4 == jumpTo(g3, end_false, Jump, Top.else_block)
     IN  cfg' = placeBlock(IF curblock = NULL THEN cfg ELSE g4, Top.else_block)
  /\ curblock' = Top.else_block
  /\ loops' = Front(loops)
  /\ InElse([Top EXCEPT !.else = TRUE])
  /\ UNCHANGED returns

\* Inside with, continue, break and return jump to blocks of its own, which call
\* __exit__ on the way.
VisitWith(op) ==
  /\ Node(op)
  /\ LET p == Here
         g1 == push_back(cfg, curblock, Stmt("ctx", p, {}, {CtxMgr(p)}, "UNKNOWN"))
         g2 == push_back(g1, curblock, Stmt("getexit", p, {CtxMgr(p)}, {Exit(p)}, "UNKNOWN"))
         g3 == push_back(g2, curblock,
                 IF op = "withas" THEN Stmt("enter", p, {CtxMgr(p)}, {X}, "UNKNOWN")
                 ELSE Stmt("enter", p, {CtxMgr(p)}, {}, "NONE"))
         dest == Latest(cfg) + 1
     IN  IF loops # <<>>
         THEN /\ cfg' = addDeferredBlock(addDeferredBlock(addDeferredBlock(g3)))
              /\ loops' = Append(loops, [continue_dest |-> dest, break_dest |-> dest + 1])
              /\ returns' = Append(returns, dest + 2)
              /\ Opened([op |-> "with", at |-> p, else |-> FALSE, in_loop |-> TRUE])
         ELSE /\ cfg' = addDeferredBlock(g3)
              /\ returns' = Append(returns, dest)
              /\ Opened([op |-> "with", at |-> p, else |-> FALSE, in_loop |-> FALSE])
              /\ UNCHANGED loops
  /\ UNCHANGED curblock

\* Mutant: without the call of __exit__.
NoExitOnTheWay(g, p, b, c) ==
  IF g.preds[b] = <<>> THEN g ELSE jumpTo(placeBlock(g, b), b, BackJump, c)
\* Block b, if anything jumps to it, calls __exit__ and goes on to c.
ExitOnTheWay(g, p, b, c) ==
  IF g.preds[b] = <<>> THEN g
  ELSE jumpTo(placeBlock(push_back(g, b, ExitCall(p)), b), b, BackJump, c)

VisitWithEnd ==
  /\ Token("end", "with", FALSE)
  /\ LET p == Top.at
         inner == Last(loops)
         outer == Last(Front(loops))
         return_dest == Last(returns)
         g1 == push_back(cfg, curblock, ExitCall(p))
         g2 == ExitOnTheWay(g1, p, inner.continue_dest, outer.continue_dest)
         g3 == ExitOnTheWay(g2, p, inner.break_dest, outer.break_dest)
         g4 == IF Top.in_loop THEN g3 ELSE g1
         g5 == push_back(placeBlock(g4, return_dest), return_dest, ExitCall(p))
     IN  /\ cfg' = IF g4.preds[return_dest] = <<>> THEN g4
                   ELSE DoReturn(g5, Front(returns), return_dest, "rtnval", NULL, {RTNVAL})
         /\ loops' = IF Top.in_loop THEN Front(loops) ELSE loops
         /\ returns' = Front(returns)
  /\ Closed
  /\ UNCHANGED curblock

VisitNext ==
  \/ VisitSimple \/ VisitReturn \/ VisitBreak \/ VisitContinue
  \/ VisitDead \/ VisitDeadEnd
  \/ VisitIf \/ VisitIfElse \/ VisitIfEnd
  \/ VisitWhile \/ VisitWhileElse \/ VisitFor \/ VisitForElse \/ VisitLoopEnd
  \/ (\E op \in With : VisitWith(op)) \/ VisitWithEnd

\* The fake return at the end of every function.
Finished(g) == push_back(g, curblock, Stmt("return", NULL, {}, {}, "NONE"))

\* What computeCFG and connectTo check of a graph.  (Block 0 of the code is the
\* first of g.blocks.)
ForwardJumps(g) ==
  \A b \in Range(g.blocks) :
    g.body[b] # <<>> /\ Last(g.body[b]).op = "jump" /\ Last(g.body[b]).type = "FORWARD"
      => \A c \in Range(g.succs[b]) : idx(g, c) > idx(g, b)
EntryHasNoPredecessor(g) == g.preds[g.blocks[1]] = <<>>
NoCriticalEdge(g) ==
  \A b \in Range(g.blocks) :
    Len(g.succs[b]) >= 2 => \A c \in Range(g.succs[b]) : Len(g.preds[c]) < 2
PreviousPredecessor(g) ==
  \A i \in DOMAIN g.blocks \ {1} :
    LET preds == g.preds[g.blocks[i]] IN preds # <<>> /\ idx(g, preds[1]) < i
==============================================================================
