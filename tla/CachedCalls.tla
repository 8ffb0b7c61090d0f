----------------------------- MODULE CachedCalls -----------------------------
(***************************************************************************)
(* One patchpoint of a call or an operator, while the program it belongs   *)
(* to sets attributes and its functions are recompiled.                    *)
(*                                                                         *)
(* The slow path fills a slot with the code it has written (CallSites);    *)
(* the code is run here, instruction by instruction, over registers, stack *)
(* and heap, and has to do for every later call what the slow path would.  *)
(* How a slot is chosen among several, and what a nested call through the  *)
(* same patchpoint does to it, is in InlineCache: one slot is enough here. *)
(* Between the writing of the code and its commit the functions that were  *)
(* called run, and may do whatever the program does.                       *)
(***************************************************************************)
EXTENDS CallSites, FiniteSets

CONSTANTS
  Programs,     \* the programs to check: see Program
  MaxEffort,      \* bound: effort of a version
  MaxRecompiled   \* bound: versions that are recompiled

\* A program: the boxes it starts with, the site it has, the operands that reach the
\* site, and the attributes it sets, as <<box, name, value>>.
Program(boxes, site, calls, writes) ==
  [boxes |-> boxes, site |-> site, calls |-> calls, writes |-> writes]

VARIABLES
  program,    \* the one that runs
  slot,       \* the filled slot, if there is one
  pending,    \* the rewrites whose functions are still running: at most one
  answer      \* what the last call did

vars == <<program, heap, versions, slot, pending, answer>>

Site == program.site
NoVersions == [cf \in {} |-> 0]

Init ==
  /\ program \in Programs
  /\ heap = program.boxes
  /\ versions = NoVersions
  /\ slot = {}
  /\ pending = {}
  /\ answer = [called |-> <<>>, raised |-> {}, result |-> <<"none">>]

------------------------------------------------------------------------------
(***************************************************************************)
(* Running the code of a slot.  Values are addresses of boxes and hidden   *)
(* classes, attribute lists, arrays of arguments, cells of the stack, and  *)
(* plain numbers and flags.                                                *)
(***************************************************************************)
Junk == <<"junk", "junk">>
Unbox(val) == IF val[1] = "box" THEN val[2] ELSE "junk"

\* What the operands of a call look like to the code: registers and, for callattr,
\* the stack.  The last cell of the sequence is the top of the stack.
RegistersFor(args) ==
  [r \in Registers |->
     LET at == {i \in 1..Min2(4, Len(args)) : Argnums(Site)[i] = r}
     IN  IF at # {} THEN Box(args[CHOOSE i \in at : TRUE])
         ELSE IF Site.kind = "runtimeCall" /\ r = 5 /\ Len(args) > 4
           THEN <<"array", SubSeq(args, 5, Len(args))>>
         ELSE <<"operand", r>>]

StackFor(args) ==
  <<<<"caller">>>> \o
  (IF Site.kind = "callattr"
     THEN (IF Len(args) > 4 THEN <<<<"array", SubSeq(args, 5, Len(args))>>>> ELSE <<>>)
            \o (IF Len(args) >= 4 THEN <<Box(args[4])>> ELSE <<>>)
     ELSE <<>>)

BoxField(b, at) ==
  CASE at = "cls" -> Box(Cls(b))
    [] at = "hcls" /\ heap[Cls(b)].hasattrs -> HiddenClass(b)
    [] at = "attrs" /\ heap[Cls(b)].hasattrs -> <<"list", b>>
    [] at = "func" /\ Cls(b) = "instancemethod" -> Box(heap[b].func)
    [] at = "obj" /\ Cls(b) = "instancemethod" -> Box(heap[b].obj)
    [] at = "n" /\ Cls(b) = "int" -> <<"int", heap[b].n>>
    [] at = "b" /\ Cls(b) = "bool" -> <<"flag", heap[b].b>>
    [] OTHER -> Junk

Load(m, address, at) ==
  CASE address[1] = "box" -> BoxField(address[2], at)
    [] address[1] = "list" /\ at \in DOMAIN heap[address[2]].attrs -> Box(heap[address[2]].attrs[at])
    [] address[1] = "array" /\ at + 1 \in DOMAIN address[2] -> Box(address[2][at + 1])
    [] address[1] = "cell" /\ address[2] - at \in DOMAIN m.stack -> m.stack[address[2] - at]
    [] OTHER -> Junk

Top(m) == m.stack[Len(m.stack)]
Drop(m, n) == [m EXCEPT !.stack = SubSeq(@, 1, Len(@) - n)]
SetReg(m, r, val) == [m EXCEPT !.reg[r] = val]

\* Every register the callee may use is lost, but for the one pushed for alignment.
AfterCall(m, i, result) ==
  [m EXCEPT !.reg = [r \in Registers |-> IF r = -1 THEN result
                                         ELSE IF r = 0 /\ i.pad THEN m.reg[0] ELSE Junk]]

CalleeArgs(m, cf) ==
  [j \in DOMAIN cf[2] |-> Unbox(IF j <= 3 THEN m.reg[j - 1] ELSE Load(m, m.reg[3], j - 4))]

CallInstruction(m, i) ==
  CASE i.func = <<"boxBool">> -> AfterCall(m, i, Box(boxBool(m.reg[0] = <<"flag", TRUE>>)))
    [] i.func = <<"makeHCBox">> -> AfterCall(m, i, Box(Fresh(Unbox(m.reg[1]))))
    [] i.func = <<"assertInitNone">> ->
         IF m.reg[0] = Box("None") THEN AfterCall(m, i, Junk)
         ELSE [m EXCEPT !.raised = {"TypeError"}]
    [] Len(i.func) = 2 ->
         LET args == CalleeArgs(m, i.func[1])
         IN  AfterCall([m EXCEPT !.called = Append(@, CalledWith(i.func[1], i.func[2], args))],
                       i, Box(Result(i.func[1][1], args)))

\* A failed guard runs the pops at the end of the slot.
Guarded(m, i, val, pops) ==
  IF val = i.val THEN m
  ELSE [Drop(m, Min2(i.drop, pops)) EXCEPT !.missed = TRUE]

Execute(m, i, pops) ==
  CASE i.op = "load" -> SetReg(m, i.to, Load(m, m.reg[i.from], i.at))
    [] i.op = "store" -> [m EXCEPT !.stack[m.reg[i.base][2] - i.at] = m.reg[i.from]]
    [] i.op = "mov" -> SetReg(m, i.to, m.reg[i.from])
    [] i.op = "peek" -> SetReg(m, i.to, m.stack[Len(m.stack) - i.cell])
    [] i.op = "guard" -> Guarded(m, i, m.reg[i.reg], pops)
    [] i.op = "attrguard" -> Guarded(m, i, Load(m, m.reg[i.reg], i.at), pops)
    [] i.op = "push" -> [m EXCEPT !.stack = Append(@, m.reg[i.from])]
    [] i.op = "pop" -> SetReg(Drop(m, 1), i.to, Top(m))
    [] i.op = "cmp" -> SetReg(m, i.to, <<"flag", (m.reg[i.reg] = m.reg[i.with]) # i.neg>>)
    [] i.op = "test" -> SetReg(m, i.to, <<"flag", m.reg[i.reg] # <<"int", 0>>>>)
    [] i.op = "alloca" ->
         LET moved == IF i.cells < 0 THEN Drop(m, - i.cells)
                      ELSE [m EXCEPT !.stack = @ \o [k \in 1..i.cells |-> Junk]]
         IN  SetReg(moved, i.to, <<"cell", Len(moved.stack)>>)
    [] i.op = "const" -> SetReg(m, i.to, i.val)
    [] i.op = "call" -> CallInstruction(m, i)

RECURSIVE RunFrom(_, _, _)
RunFrom(m, s, at) ==
  IF at > Len(s.code) \/ m.missed \/ m.raised # {} THEN m
  ELSE RunFrom(Execute(m, s.code[at], s.pops), s, at + 1)

RunSlot(s, args) ==
  RunFrom([reg |-> RegistersFor(args), stack |-> StackFor(args), missed |-> FALSE,
           called |-> <<>>, raised |-> {}], s, 1)

------------------------------------------------------------------------------
(***************************************************************************)
(* What a call does: the functions it runs, and how it ends.               *)
(***************************************************************************)
NoResult == <<"none">>
AssertionFailed == "assertion failed"

\* An assertion of the rewriter that fails ends the process like an error.
AnswerOf(w) ==
  [called |-> w.called, raised |-> w.raised \cup IF w.ok THEN {} ELSE {AssertionFailed},
   result |-> IF ~ w.ok \/ w.raised # {} \/ Site.kind = "setitem" THEN NoResult
              ELSE IF Site.kind = "nonzero" THEN <<"flag", w.rtn = "True">>
              ELSE IF Site.kind = "unboxedLen" THEN <<"int", heap[w.rtn].n>>
              ELSE Box(w.rtn)]
SlowAnswer(args) == AnswerOf(Slow(Site, args))

SlotAnswer(s, args) ==
  LET m == RunSlot(s, args) IN
  [called |-> m.called, raised |-> m.raised,
   result |-> IF m.raised # {} \/ Site.kind = "setitem" THEN NoResult ELSE m.reg[-1]]

Hits(s, args) == ~ RunSlot(s, args).missed

\* The versions of Python functions that a call has run.
Entered(called) ==
  {cf \in {resolveCLFunc(called[k].func, called[k].args) : k \in DOMAIN called} : heap[cf[1]].source}

Running == answer.raised = {}

CachedCall(args) ==
  \E s \in slot :
    /\ Hits(s, args)
    /\ answer' = SlotAnswer(s, args)
    /\ UNCHANGED <<heap, versions, slot, pending>>

SlowCall(args) ==
  /\ \A s \in slot : ~ Hits(s, args)
  /\ \E w \in {Slow(Site, args)} :
       /\ answer' = AnswerOf(w)
       /\ pending' = IF w.on /\ w.ok THEN {Assembled(w) @@ [deps |-> w.deps, for |-> {args}]} ELSE {}
  /\ UNCHANGED <<heap, versions, slot>>

\* ICSlotRewrite::commit, unless an invalidation came between: then the rewrite is
\* not pending any more.
Commit ==
  \E p \in pending :
    /\ slot' = {p}
    /\ pending' = {}
    /\ UNCHANGED <<heap, versions, answer>>

\* ICInvalidator::invalidateAll
\* Mutant: only the code that is in the slot is invalidated.
InvalidateSlotOnly(s, deps) == {r \in s : pending # {} \/ deps \cap r.deps = {}}
InvalidateAll(s, deps) == {r \in s : deps \cap r.deps = {}}

\* HCBox::setattr: a new name is appended to the hidden class.  for remembers the call
\* that code was written for, until something is set.
SetAttr(b, a, val) ==
  /\ heap' = [heap EXCEPT ![b] =
       IF HasAttr(b, a) THEN [@ EXCEPT !.attrs[GetOffset(heap[b].hcls, a)] = val]
       ELSE [@ EXCEPT !.hcls = Append(@, a), !.attrs = Append(@, val)]]
  /\ LET hook == Cls(b) = "type" /\ a \in {"__getattr__", "__getattribute__"}
         left(s) == {[r EXCEPT !.for = {}] :
                       r \in InvalidateAll(s, IF hook THEN {<<"attrs", b>>} ELSE {})}
     IN  slot' = left(slot) /\ pending' = left(pending)
  /\ UNCHANGED <<versions, answer>>

\* reoptCompiledFuncInternal, called by the version itself when it has been entered often
\* enough: the version is replaced, its callsites are invalidated.
Recompile(cf) ==
  /\ Effort(cf) < MaxEffort
  /\ Cardinality(DOMAIN versions \cup {cf}) <= MaxRecompiled
  /\ versions' = (cf :> Effort(cf) + 1) @@ versions
  /\ slot' = InvalidateAll(slot, {<<"cf", cf>>})
  /\ pending' = InvalidateAll(pending, {<<"cf", cf>>})
  /\ UNCHANGED <<heap, answer>>

Next ==
  /\ Running
  /\ UNCHANGED program
  /\ \/ pending = {} /\ \E args \in program.calls : CachedCall(args) \/ SlowCall(args)
     \/ Commit
     \/ \E write \in program.writes : SetAttr(write[1], write[2], write[3])
     \/ \E cf \in Entered(answer.called) : Recompile(cf)

Spec == Init /\ [][Next]_vars

------------------------------------------------------------------------------
(***************************************************************************)
(* Properties.                                                             *)
(***************************************************************************)
\* The guards of a slot pass for the call it was written for, as long as nothing was
\* set since: a slot is not wasted on code that always misses.
ServesItsCall == \A s \in slot : \A args \in s.for : Hits(s, args)

\* Whatever operands reach a patchpoint, and whatever was set or recompiled since its
\* slot was filled, code that passes its guards runs the functions that the slow path
\* would run now, in the same order, with the same arguments, in versions that fit
\* them and are current, and ends with the same result or error; and it serves at least
\* the call it was written for.  The result alone may differ where the slow path returns
\* NULL without an error: runtimeCall of an object that cannot be called commits code
\* that leaves the object's class in RAX.
Agrees(fast, slow) ==
  IF slow.result = Box(NULL) THEN fast.called = slow.called /\ fast.raised = slow.raised
  ELSE fast = slow
CachedCallAgrees ==
  /\ ServesItsCall
  /\ \A s \in slot : \A args \in program.calls :
       Hits(s, args) => Agrees(SlotAnswer(s, args), SlowAnswer(args))

\* A guard that fails leaves the stack as the code found it, however many cells it had
\* pushed or reserved, and every argument where the next slot or the slow path expects it.
MissRestoresCall ==
  \A s \in slot : \A args \in program.calls :
    LET m == RunSlot(s, args) IN
    m.missed => /\ m.stack = StackFor(args)
                /\ \A r \in 0..NumOrigArgs(Site, Len(args)) - 1 :
                     r \in Registers => m.reg[r] = RegistersFor(args)[r]

\* Python's meaning of the operation, for the operands given.
Py == INSTANCE PyCalls WITH
  ClassOf <- Cls, Has <- LAMBDA b, a : heap[Cls(b)].hasattrs /\ HasAttr(b, a), Get <- Attr,
  Instantiated <- Fresh, IsUserClass <- isUserDefined, Runs <- Result,
  Method <- LAMBDA im : <<heap[im].func, heap[im].obj>>,
  True <- "True", False <- "False", None <- "None", NotImplemented <- "NotImplemented",
  Number <- Truth, Default <- LAMBDA c, k : heap[c].default[k]

Reflected == [Lt |-> "__gt__", LtE |-> "__ge__", Gt |-> "__lt__", GtE |-> "__le__",
              Eq |-> "__eq__", NotEq |-> "__ne__", Add |-> "__radd__"]

PyMeaning(args) ==
  LET obj == args[1]
      rest == Tail(args)
      method(name) == Py!CallAttr(obj, name, rest, TRUE)
  IN
  CASE Site.kind = "callattr" -> Py!CallAttr(obj, Site.name, rest, Site.clsonly)
    [] Site.kind = "runtimeCall" -> Py!Call(obj, rest)
    [] Site.kind = "binop" ->
         Py!Operator(obj, OpNames[Site.op], args[2], Reflected[Site.op], Py!Error(<<>>))
    [] Site.kind = "compare" ->
         IF Site.op \in {"Is", "IsNot"}
           THEN Py!Meaning(<<>>, boxBool((obj = args[2]) = (Site.op = "Is")))
           ELSE Py!Operator(obj, OpNames[Site.op], args[2], Reflected[Site.op],
                            Py!Meaning(<<>>, DefaultCompare(Site.op, obj, args[2])))
    [] Site.kind = "unaryop" -> method(OpNames[Site.op])
    [] Site.kind = "getitem" -> method("__getitem__")
    [] Site.kind = "setitem" -> method("__setitem__")
    [] Site.kind = "unboxedLen" -> Py!Conversion(obj, <<"__len__">>, "int", Py!Error(<<>>))
    [] Site.kind = "nonzero" -> Py!Truth(obj)
    [] Site.kind = "str" ->
         IF Cls(obj) = "str" THEN Py!Meaning(<<>>, obj)
         ELSE Py!Conversion(obj, <<"__str__", "__repr__">>, "str", Py!DefaultFor(obj, "str"))
    [] Site.kind = "repr" -> Py!Conversion(obj, <<"__repr__">>, "str", Py!DefaultFor(obj, "str"))
    [] Site.kind = "hash" -> Py!Conversion(obj, <<"__hash__">>, "int", Py!DefaultFor(obj, "int"))
    [] Site.kind = "getGlobal" ->
         IF HasAttr(obj, Site.name) THEN Py!Meaning(<<>>, Attr(obj, Site.name))
         ELSE IF Site.name = "__builtins__" THEN Py!Meaning(<<>>, "builtins")
         ELSE IF HasAttr("builtins", Site.name) THEN Py!Meaning(<<>>, Attr("builtins", Site.name))
         ELSE Py!Error(<<>>)

\* Where the slow paths are not Python's: an object that cannot be called, the truth of
\* an object that has a length or is of a built-in class, and orders, which the right
\* operand is asked for by the negated instead of the reflected name.
Uncallable(args) ==
  /\ Site.kind = "runtimeCall"
  /\ Cls(args[1]) \notin {"function", "instancemethod"} /\ ~ HasAttr(Cls(args[1]), "__call__")
TruthUnasked(args) ==
  /\ Site.kind = "nonzero" /\ Cls(args[1]) \notin {"int", "bool", "float"}
  /\ ~ HasAttr(Cls(args[1]), "__nonzero__")
  /\ HasAttr(Cls(args[1]), "__len__") \/ ~ isUserDefined(Cls(args[1]))
Negated == [Lt |-> "__ge__", LtE |-> "__gt__", Gt |-> "__le__", GtE |-> "__lt__"]
Order == Site.kind = "compare" /\ Site.op \in DOMAIN Negated

PystonMeaning(args) ==
  IF Uncallable(args) THEN Py!Meaning(<<>>, NULL)
  ELSE IF TruthUnasked(args)
    THEN IF isUserDefined(Cls(args[1])) THEN Py!Meaning(<<>>, "True") ELSE Py!Error(<<>>)
  ELSE IF Order
    THEN Py!Operator(args[1], OpNames[Site.op], args[2], Negated[Site.op],
                     Py!Meaning(<<>>, DefaultCompare(Site.op, args[1], args[2])))
  ELSE PyMeaning(args)

\* What a slow path did, and what the operation means.
DidAsMeant(w, meaning) ==
  /\ [k \in DOMAIN w.called |-> <<w.called[k].func, w.called[k].args>>] = meaning.called
  /\ (w.raised # {}) = meaning.raised
  /\ ~ meaning.raised => w.rtn = meaning.result

\* A slow path breaks an assertion of the rewriter only when a class is called whose
\* __new__ or __init__ is not a function: any other uses no variable whose register has
\* been overwritten, adds no guard after an effect or with an argument gone, and commits
\* with the stack as it found it (rewriter.cpp).
MadeByNoFunction(args) ==
  /\ Site.kind = "runtimeCall" /\ Cls(args[1]) = "type"
  /\ \E name \in {"__new__", "__init__"} :
       HasAttr(args[1], name) /\ Cls(Attr(args[1], name)) # "function"
AbortsOnlyInConstructors ==
  \A args \in program.calls : Slow(Site, args).ok \/ MadeByNoFunction(args)

\* No call ends in a failed assertion of the rewriter ("too late to add a guard!").  It
\* does not hold of the classes that AbortsOnlyInConstructors excepts.
RewriterAssertionsHold == AssertionFailed \notin answer.raised
==============================================================================
