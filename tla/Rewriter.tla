------------------------------- MODULE Rewriter -------------------------------
(***************************************************************************)
(* The first rewriter, src/asm_writing/rewriter.cpp: the calls of a slow   *)
(* path on its Rewriter and RewriterVars, as functions from a rewriter to  *)
(* the rewriter after the call, whose field v is the RewriterVar returned. *)
(*                                                                         *)
(* Registers are named by their argnums: -3, -2 and -1 are R11, R10 and    *)
(* RAX, 0 to 5 the argument registers, and higher ones are arguments on    *)
(* the stack.  An offset is the name of a field of a box or an index; one  *)
(* cell of the stack is 8 bytes.                                           *)
(*                                                                         *)
(* A slow path that gives up sets its rewrite_args to NULL, and so does    *)
(* every caller of it: on is FALSE from then on and nothing is emitted.    *)
(* The assertions the rewriter makes are collected in ok.                  *)
(***************************************************************************)
EXTENDS Integers, Sequences, TLC

MAX_ARGS == 16
ArgRegs == 6
Registers == -3..(ArgRegs - 1)

\* RewriterVar(): not a variable of any rewriter.
NoVar == [argnum |-> -100, version |-> -100]

\* Rewriter::Rewriter, for a call with n arguments that matter; on is FALSE where
\* createRewriter finds no ICInfo.  out, rtn, called and raised belong to the slow path:
\* its out_rtn, what it has found, the functions it has run, and the error it ended with.
NewRewriter(on, n) ==
  [on |-> on, num_orig_args |-> n, code |-> <<>>, v |-> NoVar,
   versions |-> [i \in -3..MAX_ARGS - 1 |-> i + 5], next_version |-> MAX_ARGS + 5,
   pushes |-> <<>>, max_pushes |-> 0, alloca_cells |-> 0, changed_something |-> FALSE,
   deps |-> {}, ok |-> TRUE, out |-> NoVar, rtn |-> "NULL", called |-> <<>>, raised |-> {}]

GiveUp(w) == [w EXCEPT !.on = FALSE]
Returning(w, b) == [w EXCEPT !.rtn = b]

Emit(w, instruction) == [w EXCEPT !.code = Append(@, instruction)]
Check(w, assertion) == [w EXCEPT !.ok = @ /\ assertion]

Valid(w, var) == var.version > 0 /\ w.versions[var.argnum] = var.version
ArgsValid(w) == \A i \in 0..w.num_orig_args - 1 : w.versions[i] = i + 5

mutate(w, argnum) ==
  [w EXCEPT !.next_version = @ + 1, !.versions[argnum] = w.next_version + 1,
            !.v = [argnum |-> argnum, version |-> w.next_version + 1]]

\* Cells between the stack pointer at the entry of the slot and the one here.
Depth(w) == Len(w.pushes) + w.alloca_cells

getAttr(w, var, offset, dest) ==
  IF ~ w.on THEN w
  ELSE mutate(Emit(Check(w, Valid(w, var)),
                   [op |-> "load", from |-> var.argnum, at |-> offset, to |-> dest]), dest)

\* The arrays of arguments a slow path builds are not user visible.
setAttr(w, var, offset, val) ==
  IF ~ w.on THEN w
  ELSE Emit(Check(w, Valid(w, var) /\ Valid(w, val)),
            [op |-> "store", from |-> val.argnum, base |-> var.argnum, at |-> offset])

move(w, var, dest) ==
  IF ~ w.on THEN w
  ELSE IF dest = var.argnum THEN [Check(w, Valid(w, var)) EXCEPT !.v = var]
  ELSE mutate(Emit(Check(w, Valid(w, var) /\ dest < ArgRegs),
                   IF var.argnum >= ArgRegs
                     THEN [op |-> "peek", cell |-> var.argnum - ArgRegs + Depth(w), to |-> dest]
                     ELSE [op |-> "mov", from |-> var.argnum, to |-> dest]), dest)

\* A guard jumps, if it fails, as many bytes before the end of the slot as there are
\* cells to drop: the slot ends with one-byte pops (finishAssembly).
\* Mutant: the cells pushed since the entry of the slot stay.
GuardKeepsPushes(w, instruction, var) ==
  IF ~ w.on THEN w
  ELSE Emit(Check(w, ~ w.changed_something /\ Valid(w, var) /\ ArgsValid(w)),
            instruction @@ [drop |-> 0])
Guard(w, instruction, var) ==
  IF ~ w.on THEN w
  ELSE Emit(Check(w, ~ w.changed_something /\ Valid(w, var) /\ ArgsValid(w)),
            instruction @@ [drop |-> Depth(w)])

addGuard(w, var, val) == Guard(w, [op |-> "guard", reg |-> var.argnum, val |-> val], var)

addAttrGuard(w, var, offset, val) ==
  Guard(w, [op |-> "attrguard", reg |-> var.argnum, at |-> offset, val |-> val], var)

isInReg(var) == var.argnum < ArgRegs

Max2(a, b) == IF a >= b THEN a ELSE b

push(w, var) ==
  IF ~ w.on THEN w
  ELSE [Emit(Check(w, Valid(w, var) /\ isInReg(var)), [op |-> "push", from |-> var.argnum])
          EXCEPT !.pushes = Append(@, var.version),
                 !.max_pushes = Max2(@, Len(w.pushes) + 1)]

pop(w, argnum) ==
  IF ~ w.on THEN w
  ELSE LET version == w.pushes[Len(w.pushes)] IN
       [Emit(w, [op |-> "pop", to |-> argnum])
          EXCEPT !.pushes = SubSeq(@, 1, Len(@) - 1), !.versions[argnum] = version,
                 !.v = [argnum |-> argnum, version |-> version]]

cmp(w, var, val, neg, dest) ==
  IF ~ w.on THEN w
  ELSE mutate(Emit(Check(w, Valid(w, var)),
                   [op |-> "cmp", reg |-> var.argnum, with |-> val.argnum, neg |-> neg,
                    to |-> dest]), dest)

toBool(w, var, dest) ==
  IF ~ w.on THEN w
  ELSE mutate(Emit(Check(w, Valid(w, var)), [op |-> "test", reg |-> var.argnum, to |-> dest]),
              dest)

\* A negative number of cells gives them back.
alloca_(w, cells, dest) ==
  IF ~ w.on THEN w
  ELSE mutate([Emit(w, [op |-> "alloca", cells |-> cells, to |-> dest])
                 EXCEPT !.alloca_cells = @ + cells], dest)

loadConst(w, argnum, val) ==
  IF ~ w.on THEN w
  ELSE mutate(Emit(w, [op |-> "const", val |-> val, to |-> argnum]), argnum)

\* The stack is aligned with a push of RDI, popped after the call.  Every register is
\* a new version afterwards, RAX last.
call(w, func) ==
  IF ~ w.on THEN w
  ELSE mutate([Emit(w, [op |-> "call", func |-> func, pad |-> Depth(w) % 2 = 1])
                 EXCEPT !.changed_something = TRUE,
                        !.versions = [i \in DOMAIN @ |-> IF i \in Registers
                                                           THEN w.next_version + i + 4 ELSE @[i]],
                        !.next_version = @ + 9], -1)

addDependenceOn(w, dep) == IF ~ w.on THEN w ELSE [w EXCEPT !.deps = @ \cup {dep}]

\* Rewriter::commit and finishAssembly: the code of the slot, ended by max_pushes pops.
Assembled(w) == [code |-> w.code, pops |-> w.max_pushes]
CommitCheck(w) == IF ~ w.on THEN w ELSE Check(w, w.pushes = <<>> /\ w.alloca_cells = 0)
===============================================================================
