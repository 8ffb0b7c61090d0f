----------------------------- MODULE CompiledRun -----------------------------
(***************************************************************************)
(* A function is turned into a graph (Cfg), analysed and compiled          *)
(* (Analyses, IRGen), and then run, next to what Python does with its      *)
(* source (PyProgram).  A value is <<type, at>>: the class of an object    *)
(* and the node that made it.  The compiled code has a value for exactly   *)
(* the names in the symbol table of its block; what a phi or a missing     *)
(* name brings is UndefValue.                                              *)
(***************************************************************************)
EXTENDS IRGen, TLC

Py == INSTANCE PyProgram

VARIABLES
  stage,    \* "visit", "compile", "run", then "done", "raised" or "undefined";
            \* "aborted" once an assertion of the compiler has failed
  code,     \* starts and ends of the blocks, from emitBBs
  at,       \* block and index of the statement to run
  regs,     \* values of the names in the symbol table
  flags,    \* values of the !is_defined flags
  python,   \* Python's next event
  pyX       \* Python's value of x, or Undefined

vars == <<visitVars, stage, code, at, regs, flags, python, pyX>>
runVars == <<at, regs, flags, python, pyX>>

Undefined == <<"UNDEF", 0>>
UndefValue == <<"UNDEF", 0>>
NoCode == [starts |-> EmptyMap, ends |-> EmptyMap]
Nowhere == [block |-> NULL, i |-> 0]

Init ==
  /\ VisitInit
  /\ stage = "visit"
  /\ code = NoCode
  /\ at = Nowhere
  /\ regs = EmptyMap /\ flags = EmptyMap
  /\ python = Py!Done(0)
  /\ pyX = Undefined

Visit ==
  /\ stage = "visit"
  /\ VisitNext
  /\ UNCHANGED <<stage, code, runVars>>

\* What computeCFG has checked when it returns the graph.
GraphOK(g) == /\ ForwardJumps(g)
              /\ EntryHasNoPredecessor(g)
              /\ NoCriticalEdge(g)
              /\ PreviousPredecessor(g)

\* The end of computeCFG.
Finish ==
  /\ stage = "visit"
  /\ open = <<>>
  /\ cfg' = Finished(cfg)
  /\ curblock' = NULL
  /\ stage' = IF GraphOK(Finished(cfg)) THEN "compile" ELSE "aborted"
  /\ UNCHANGED <<family, source, loops, returns, open, code, runVars>>

\* compileFunction, for a call that just entered the function.
CompileFunction ==
  /\ stage = "compile"
  /\ code' = emitBBs(cfg)
  /\ IF Compiles(cfg, code')
     THEN /\ stage' = "run"
          /\ at' = [block |-> cfg.blocks[1], i |-> 1]
          /\ python' = Py!Reach(source, 1)
     ELSE /\ stage' = "aborted"
          /\ UNCHANGED <<at, python>>
  /\ UNCHANGED <<visitVars, regs, flags, pyX>>

-----------------------------------------------------------------------------
(* The compiled code.                                                       *)

Now == cfg.body[at.block][at.i]

\* assertNameDefined for a name that has no value or whose flag is not set.
Raises(n) == n \notin DOMAIN regs \/ (n \in DOMAIN flags /\ ~flags[n])
Value(n) == IF n \in DOMAIN regs THEN regs[n] ELSE UndefValue

\* Values after statement s, and the flags its loads leave.
Computed(s) == IF s.op = "rtnval" THEN regs[RTNVAL] ELSE <<s.type, s.at>>
Assigned(s) == [n \in s.stores |-> Computed(s)] @@ regs
Checked(s) == Restrict(flags, DOMAIN flags \ s.loads)

\* What block c finds when it is entered from b, where the names have values v.
Entered(b, c, v) ==
  [n \in DOMAIN code.starts[c].table |-> IF n \in DOMAIN v THEN v[n] ELSE UndefValue]
FlagsOf(b, c) == [n \in code.starts[c].flags |-> n \notin code.ends[b].missing]

GoTo(c) ==
  /\ at' = [block |-> c, i |-> 1]
  /\ regs' = Entered(at.block, c, regs)
  /\ flags' = FlagsOf(at.block, c)

\* Python sees x assigned, read, or neither.
PyStep(b) ==
  /\ python' = Py!After(source, python, b)
  /\ pyX' = CASE python.op = "int" -> <<"INT", python.at>>
              [] python.op = "str" -> <<"STR", python.at>>
              [] python.op = "next" \/ (python.op = "enter" /\ source[python.at].op = "withas")
                   -> <<"UNKNOWN", python.at>>
              [] OTHER -> pyX

Running(ops) ==
  /\ stage = "run"
  /\ Now.op \in ops
  /\ \A n \in Now.loads : ~Raises(n) /\ Value(n) # UndefValue
  /\ UNCHANGED <<visitVars, code>>

RunJump ==
  /\ Running({"jump"})
  /\ GoTo(cfg.succs[at.block][1])
  /\ UNCHANGED <<stage, python, pyX>>

RunBranch ==
  /\ Running({"test", "hasnext"})
  /\ \E b \in BOOLEAN :
       /\ GoTo(cfg.succs[at.block][IF b THEN 1 ELSE 2])
       /\ PyStep(b)
  /\ UNCHANGED stage

RunStmt ==
  /\ Running(Simple \cup {"iter", "next", "ctx", "getexit", "enter", "exit", "value"})
  /\ regs' = Assigned(Now)
  /\ flags' = Checked(Now)
  /\ at' = [at EXCEPT !.i = @ + 1]
  /\ PyStep(TRUE)
  /\ UNCHANGED stage

\* #rtnval = #rtnval, between two with statements.
RunRtnval ==
  /\ Running({"rtnval"})
  /\ regs' = Assigned(Now)
  /\ flags' = Checked(Now)
  /\ at' = [at EXCEPT !.i = @ + 1]
  /\ UNCHANGED <<stage, python, pyX>>

\* The returned value: of #rtnval, of the statement itself, or None.  regs keeps it.
RunReturn ==
  /\ Running({"return"})
  /\ stage' = "done"
  /\ regs' = IF Now.loads # {} THEN Restrict(regs, {RTNVAL})
             ELSE RTNVAL :> <<"UNKNOWN", Now.at>>
  /\ IF Now.at # NULL THEN PyStep(TRUE) ELSE UNCHANGED <<python, pyX>>
  /\ UNCHANGED <<at, flags>>

\* A load that raises NameError, and one of an undefined value without a check.
RunBadLoad ==
  /\ stage = "run"
  /\ \E n \in Now.loads :
       /\ Raises(n) \/ Value(n) = UndefValue
       /\ stage' = IF Raises(n) THEN "raised" ELSE "undefined"
  /\ UNCHANGED <<visitVars, code, runVars>>

Next == \/ Visit \/ Finish \/ CompileFunction
        \/ RunJump \/ RunBranch \/ RunStmt \/ RunRtnval \/ RunReturn \/ RunBadLoad

Spec == Init /\ [][Next]_vars

-----------------------------------------------------------------------------
\* No assertion of the compiler fails, those of computeCFG, connectTo, endBlock,
\* getEndingSymbolTable and emitBBs included.  It does not hold of every function.
IRAssertionsHold == stage # "aborted"

\* The end of a loop is placed, but nothing leads there: its else part leaves the
\* function, and there is no break.
LoopEndUnreached == \E b \in Range(cfg.blocks) \ {cfg.blocks[1]} : cfg.preds[b] = <<>>

\* The functions that make the compiler abort, of all bodies that are enumerated, are
\* those with one of three marks: the end of a loop that nothing leads to (computeCFG),
\* a block that reads and then stores a name that may be undefined, and a name that is
\* surely undefined where it is read on one path and has a value on another.  For all
\* others the graph has no critical edge and every block comes after its first
\* predecessor; all predecessors of a block agree on the names, the flags and the types
\* they provide, although each decides on its own from the analyses; every value can be
\* converted to the type expected of it, and nothing is left over.
AbortsOnlyAsMarked ==
  stage = "aborted" => \/ LoopEndUnreached
                       \/ StoresAfterRead(cfg, Definedness(cfg))
                       \/ UndefInTheWay(cfg, StartingTypes(cfg))

\* Compiled code does what Python does, in the same order: every statement it is
\* about to run is Python's next event, in particular each __exit__ on the way out of
\* with statements by break, continue and return; and it returns when Python does,
\* the value of the same return statement.
RunsAsWritten ==
  /\ stage = "run" /\ Now.op \notin {"jump", "rtnval", "return"} =>
       Now.op = python.op /\ Now.at = python.at
  /\ stage = "done" => python.op = "done" /\ regs[RTNVAL][2] = python.at

\* A read of x finds the value that was assigned last, and raises only if there is
\* none: no variable is dropped while it is needed, and phis bring the value of the
\* path that was taken.
ReadsLastValue ==
  /\ stage = "run" /\ Now.op = "print" /\ pyX # Undefined => ~Raises(X) /\ regs[X] = pyX
  /\ stage = "raised" => python.op = "print" /\ pyX = Undefined

\* A value has the type the symbol table gives it when a block is entered: code
\* specialised for the type is applied to no other value.
TypesSound ==
  stage = "run" /\ at.i = 1 =>
    \A n \in DOMAIN regs :
      LET type == code.starts[at.block].table[n]
      IN  regs[n] = UndefValue \/ type \in {"UNKNOWN", regs[n][1]}

------------------------------------------------------------------------------
(***************************************************************************)
(* The programs that TLC enumerates.                                       *)
(***************************************************************************)
\* Control flow alone; definedness with loops and with statements; types.
Control == [kinds |-> Kinds \ (Simple \cup {"withas"}), max |-> 4]
Defining == [kinds |-> {"int", "print", "if", "for", "withas", "break"}, max |-> 4]
Typed == [kinds |-> {"int", "str", "print", "if", "while"}, max |-> 4]
AllFamilies == {Control, Defining, Typed}
==============================================================================
