------------------------------ MODULE CallSites ------------------------------
(***************************************************************************)
(* The entry points of src/runtime/objmodel.cpp that compiled code calls   *)
(* through patchpoints, each with the rewriter it makes, and the operators *)
(* that have no patchpoint.  A site is the operation and what is constant  *)
(* in it (a name, an operator); operands are the boxes it is applied to.   *)
(***************************************************************************)
EXTENDS CallPaths

Orig(argnum) == [argnum |-> argnum, version |-> argnum + 5]
Min2(a, b) == IF a <= b THEN a ELSE b

\* The end of an entry point: the result is in RAX, and the rewriter commits.
Finish(w) == CommitCheck(MoveOut(w, -1))

\* The first operand is in RDI, the others start at argnum n.
Operands(n) == RewriteArgs(Orig(0), <<Orig(n), Orig(n + 1), Orig(n + 2), Orig(n + 3)>>, FALSE, FALSE)

(***************************************************************************)
(* Most sites ask for a method of the first operand.  Here is what they do *)
(* before callattrInternal, with which name and scope they call it, and,   *)
(* under the name of the entry point, what each does with its result r.    *)
(***************************************************************************)
\* An object that cannot be called gives NULL and no error, and the slot is committed.
runtimeCall(r) == IF r.rtn = NULL THEN CommitCheck(r) ELSE Finish(r)

callattr(r) == IF r.rtn = NULL THEN Raise(r, "AttributeError") ELSE Finish(r)

------------------------------------------------------------------------------
(***************************************************************************)
(* Operators.                                                              *)
(***************************************************************************)
OpNames ==
  [Add |-> "__add__", BitAnd |-> "__and__", BitOr |-> "__or__", BitXor |-> "__xor__",
   Div |-> "__div__", Eq |-> "__eq__", FloorDiv |-> "__floordiv__", LShift |-> "__lshift__",
   Lt |-> "__lt__", LtE |-> "__le__", Gt |-> "__gt__", GtE |-> "__ge__",
   Invert |-> "__invert__", Mod |-> "__mod__", Mult |-> "__mul__", Not |-> "__nonzero__",
   NotEq |-> "__ne__", Pow |-> "__pow__", RShift |-> "__rshift__", Sub |-> "__sub__",
   UAdd |-> "__pos__", USub |-> "__neg__"]
getOpName(op) == OpNames[op]

\* Comparisons: the negation for the orders, themselves for the others.
ReverseOpNames ==
  [Lt |-> "__ge__", LtE |-> "__gt__", Gt |-> "__le__", GtE |-> "__lt__",
   NotEq |-> "__ne__", Eq |-> "__eq__", Add |-> "__radd__", Sub |-> "__rsub__",
   Mult |-> "__rmul__"]
getReverseOpName(op) == ReverseOpNames[op]

CanPatchpoint(lhs, rhs) == ~ isUserDefined(Cls(lhs)) /\ ~ isUserDefined(Cls(rhs))

Reversed(w, op, lhs, rhs) ==
  IF w.raised = {} /\ HasAttr(Cls(rhs), getReverseOpName(op))
    THEN runtimeCallInternal(GiveUp(w), NoArgs, Attr(Cls(rhs), getReverseOpName(op)), <<rhs, lhs>>)
    ELSE Returning(GiveUp(w), "NotImplemented")

GuardBoth(w, lhs, rhs) == GuardCls(GuardCls(w, Orig(0), lhs), Orig(1), rhs)

Answered(left) == left.rtn \notin {NULL, "NotImplemented"}
OrUnsupported(right) == IF right.rtn = "NotImplemented" THEN Raise(right, "TypeError") ELSE right

binop(left, op, lhs, rhs) ==
  IF left.raised # {} THEN left
  ELSE IF Answered(left) THEN Finish(left)
  ELSE OrUnsupported(Reversed(left, op, lhs, rhs))

boxBool(b) == IF b THEN "True" ELSE "False"

\* The order of objects without comparison methods: numbers first, then by class;
\* within a class by address.
Rank(b, other) == IF Cls(b) = Cls(other) THEN heap[b].address
                  ELSE IF Cls(b) \in {"int", "float"} THEN 0 ELSE heap[Cls(b)].address

DefaultCompare(op, lhs, rhs) ==
  LET l == Rank(lhs, rhs)
      r == Rank(rhs, lhs)
  IN  boxBool(CASE op = "Eq" -> lhs = rhs [] op = "NotEq" -> lhs # rhs
                [] op = "Gt" -> l > r [] op = "GtE" -> l >= r
                [] op = "Lt" -> l < r [] op = "LtE" -> l <= r)

compareIs(w, neg, lhs, rhs) ==
  LET r == call(cmp(w, Orig(0), Orig(1), neg, 0), <<"boxBool">>)
  IN  [Returning(r, boxBool((lhs = rhs) # neg)) EXCEPT !.out = r.v]

OrDefault(right, op, lhs, rhs) ==
  IF right.raised # {} \/ right.rtn # "NotImplemented" THEN right
  ELSE Returning(right, DefaultCompare(op, lhs, rhs))

compareInternal(left, op, lhs, rhs) ==
  IF left.raised # {} THEN left
  ELSE IF Answered(left) THEN IF CanPatchpoint(lhs, rhs) THEN left ELSE GiveUp(left)
  ELSE OrDefault(Reversed(left, op, lhs, rhs), op, lhs, rhs)

compare(left, op, lhs, rhs) == Finish(compareInternal(left, op, lhs, rhs))

unaryop(w, site, args) ==
  IF HasAttr(Cls(args[1]), getOpName(site.op))
    THEN CallClsAttr(w, args[1], getOpName(site.op), <<>>) ELSE Raise(w, "no such operator")

------------------------------------------------------------------------------
(***************************************************************************)
(* Items, lengths, truth and conversions.                                  *)
(***************************************************************************)
getitem(r) == IF r.rtn = NULL THEN Raise(r, "TypeError") ELSE Finish(r)

\* Nothing is returned: RAX is whatever the code leaves there.
setitem(r) == IF r.rtn = NULL THEN Raise(r, "TypeError") ELSE CommitCheck(r)

\* The result of a special method, which must be of class c.
OfClass(r, c) ==
  IF r.raised # {} THEN r
  ELSE IF r.rtn = NULL \/ Cls(r.rtn) # c THEN Raise(r, "TypeError") ELSE r

\* The class of the boxed length is checked by the slow path only.
Unboxed(r) == IF r.raised # {} THEN r ELSE CommitCheck(getAttr(r, r.out, "n", -1))
unboxedLen(r) == Unboxed(OfClass(r, "int"))

Truth(b) == IF Cls(b) = "bool" THEN heap[b].b ELSE heap[b].n # 0

TruthOf(r) ==
  IF r.raised # {} THEN r
  ELSE IF Cls(r.rtn) \in {"bool", "int"} THEN Returning(r, boxBool(Truth(r.rtn)))
  ELSE Raise(r, "TypeError")

nonzero(w, args) ==
  LET obj == args[1]
      guarded == GuardCls(w, Orig(0), obj)
      n == getAttr(guarded, Orig(0), "n", 1)
  IN  CASE Cls(obj) = "bool" ->
             Returning(CommitCheck(getAttr(guarded, Orig(0), "b", -1)), boxBool(Truth(obj)))
        [] Cls(obj) = "int" -> Returning(CommitCheck(toBool(n, n.v, -1)), boxBool(Truth(obj)))
        [] Cls(obj) = "float" -> Returning(GiveUp(guarded), boxBool(Truth(obj)))
        [] OTHER ->
             IF ~ HasAttr(Cls(obj), "__nonzero__")
               THEN IF isUserDefined(Cls(obj)) THEN Returning(GiveUp(w), "True")
                    ELSE Raise(w, "no __nonzero__")
             ELSE TruthOf(CallClsAttr(w, obj, "__nonzero__", <<>>))

\* str(), repr() and hash(): the first of the methods that the class has, whose result
\* must be of class c; instances of user-defined classes have a default.
Converted(w, obj, methods, c) ==
  LET has == SelectSeq(methods, LAMBDA m : HasAttr(Cls(obj), m))
  IN  IF has = <<>>
        THEN IF isUserDefined(Cls(obj)) THEN Returning(GiveUp(w), heap[Cls(obj)].default[c])
             ELSE Raise(w, "no conversion")
      ELSE OfClass(CallClsAttr(w, obj, Head(has), <<>>), c)

ConversionMethods(kind) == CASE kind = "str" -> <<"__str__", "__repr__">>
                             [] kind = "repr" -> <<"__repr__">>
                             [] kind = "hash" -> <<"__hash__">>
Convert(w, kind, obj) ==
  IF kind = "str" /\ Cls(obj) = "str" THEN Returning(GiveUp(w), obj)
  ELSE Converted(w, obj, ConversionMethods(kind), IF kind = "hash" THEN "int" ELSE "str")

\* The module's attributes, then __builtins__ and the attributes of that module.  The builtins are
\* loaded into argnum 3, which is not one of the three arguments.
getGlobal(w, site, args) ==
  LET mine == HcboxGetattr(w, Orig(0), args[1], site.name, -1)
      itself == loadConst(mine, -1, Box("builtins"))
      builtins == loadConst(mine, 3, Box("builtins"))
      theirs == HcboxGetattr(builtins, builtins.v, "builtins", site.name, -1)
  IN  IF mine.rtn # NULL THEN CommitCheck(mine)
      ELSE IF site.name = "__builtins__" THEN CommitCheck(Returning(itself, "builtins"))
      ELSE IF theirs.rtn # NULL THEN CommitCheck(theirs)
      ELSE Raise(theirs, "NameError")

------------------------------------------------------------------------------
\* The arguments of the entry point, by argnum.
Argnums(site) ==
  CASE site.kind = "callattr" -> <<0, 4, 5, 6>>
    [] site.kind = "runtimeCall" -> <<0, 2, 3, 4>>
    [] OTHER -> <<0, 1, 2>>

\* How many of them createRewriter is told of.
NumOrigArgs(site, n) ==
  CASE site.kind = "callattr" -> 4 + Min2(4, n - 1)
    [] site.kind = "runtimeCall" -> 2 + Min2(4, n - 1)
    [] site.kind \in {"binop", "compare", "setitem", "getGlobal"} -> 3
    [] site.kind = "getitem" -> 2
    [] OTHER -> 1

HasPatchpoint(site) == site.kind \notin {"str", "repr", "hash", "unaryop"}

AsksForMethod(site) ==
  \/ site.kind \in {"callattr", "binop", "getitem", "setitem", "unboxedLen"}
  \/ site.kind = "compare" /\ site.op \notin {"Is", "IsNot"}

MethodName(site) ==
  CASE site.kind = "callattr" -> site.name
    [] site.kind \in {"binop", "compare"} -> getOpName(site.op)
    [] site.kind = "getitem" -> "__getitem__"
    [] site.kind = "setitem" -> "__setitem__"
    [] site.kind = "unboxedLen" -> "__len__"

Scope(site) == IF site.kind = "callattr" /\ ~ site.clsonly THEN {"cls", "inst"} ELSE {"cls"}

\* Comparisons find out only later whether they can be rewritten.
BeforeMethod(w, site, args) ==
  CASE site.kind = "binop" /\ ~ CanPatchpoint(args[1], args[2]) -> GiveUp(w)
    [] site.kind = "binop" /\ CanPatchpoint(args[1], args[2]) -> GuardBoth(w, args[1], args[2])
    [] site.kind = "compare" -> GuardBoth(w, args[1], args[2])
    [] OTHER -> w

AskForMethod(w, site, args) ==
  callattrInternal(BeforeMethod(w, site, args), Operands(IF site.kind = "callattr" THEN 4 ELSE 1),
                   args[1], MethodName(site), Scope(site), Tail(args))

AfterMethod(r, site, args) ==
  CASE site.kind = "callattr" -> callattr(r)
    [] site.kind = "binop" -> binop(r, site.op, args[1], args[2])
    [] site.kind = "compare" -> compare(r, site.op, args[1], args[2])
    [] site.kind = "getitem" -> getitem(r)
    [] site.kind = "setitem" -> setitem(r)
    [] site.kind = "unboxedLen" -> unboxedLen(r)

WithoutMethod(w, site, args) ==
  CASE site.kind = "runtimeCall" ->
         runtimeCall(runtimeCallInternal(w, Operands(2), args[1], Tail(args)))
    [] site.kind = "compare" -> Finish(compareIs(w, site.op = "IsNot", args[1], args[2]))
    [] site.kind = "unaryop" -> unaryop(w, site, args)
    [] site.kind = "nonzero" -> nonzero(w, args)
    [] site.kind \in {"str", "repr", "hash"} -> Convert(w, site.kind, args[1])
    [] site.kind = "getGlobal" -> getGlobal(w, site, args)

Slow(site, args) ==
  LET w == NewRewriter(HasPatchpoint(site), NumOrigArgs(site, Len(args))) IN
  IF AsksForMethod(site) THEN AfterMethod(AskForMethod(w, site, args), site, args)
  ELSE WithoutMethod(w, site, args)
==============================================================================
