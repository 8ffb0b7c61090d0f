------------------------------ MODULE CallPaths ------------------------------
(***************************************************************************)
(* The slow paths of calls and operators in src/runtime/objmodel.cpp:      *)
(* callattr, runtimeCall, binop, compare, getitem, setitem, len, nonzero   *)
(* and getGlobal, which rewrite their patchpoint, and str, repr, hash and  *)
(* unaryop, which do not.                                                  *)
(*                                                                         *)
(* A slow path finds out what to call, and writes the code that finds the  *)
(* same with guards instead of lookups.  Both happen in the same C++       *)
(* statements, and here in the same operators: each takes the rewriter w   *)
(* and returns it with the code emitted (Rewriter) and, in rtn, called and *)
(* raised, what the slow path did.  raiseExc() exits the process.          *)
(***************************************************************************)
EXTENDS Rewriter, Functions

VARIABLES
  heap,       \* box -> its fields
  versions    \* <<function, classes of the arguments>>, if recompiled -> its effort

NULL == "NULL"

Cls(b) == heap[b].cls
HasAttr(b, a) == a \in Range(heap[b].hcls)
GetOffset(h, a) == CHOOSE i \in 1..Len(h) : h[i] = a
Attr(b, a) == heap[b].attrs[GetOffset(heap[b].hcls, a)]
isUserDefined(c) == heap[c].hasattrs /\ c \notin {"function", "type"} /\ ~ heap[c].constant

\* Addresses in the code: of a box, and of a hidden class.
Box(b) == <<"box", b>>
HiddenClass(b) == <<"hcls", heap[b].hcls>>

\* The box that the allocation of an instance of c returns.
Fresh(c) == heap[c].fresh

Raise(w, error) == [GiveUp(w) EXCEPT !.raised = @ \cup {error}, !.rtn = NULL]

\* CallRewriteArgs; the fourth variable holds the array of the arguments after three.
RewriteArgs(obj, vars, func_guarded, args_guarded) ==
  [obj |-> obj, args |-> vars, func_guarded |-> func_guarded, args_guarded |-> args_guarded]
NoArgs == RewriteArgs(NoVar, <<NoVar, NoVar, NoVar, NoVar>>, FALSE, FALSE)
Held(w, argnum) == [argnum |-> argnum, version |-> w.versions[argnum]]
\* out_rtn, the variable that holds the result of a call.
MoveOut(w, dest) == move(w, w.out, dest)
AsOut(w) == [w EXCEPT !.out = w.v]

------------------------------------------------------------------------------
(***************************************************************************)
(* Functions.  A version is specialised on the classes of its arguments; a *)
(* version of effort 0 is interpreted.  Bodies are abstracted to what they *)
(* return.  Functions are called with as many arguments as they take.      *)
(***************************************************************************)
\* The signature of a version that is compiled for a call: the classes of its arguments,
\* which no version with another signature fits.  A built-in function has one version
\* for any classes, which is never recompiled: it goes by all these names.
resolveCLFunc(f, args) == <<f, [i \in DOMAIN args |-> Cls(args[i])]>>
Effort(cf) == IF cf \in DOMAIN versions THEN versions[cf] ELSE heap[cf[1]].initialEffort

Result(f, args) ==
  CASE heap[f].returns = "its first argument" -> args[1]
    [] heap[f].returns = "an instance" -> Fresh(args[1])
    [] OTHER -> heap[f].returns

CalledWith(cf, effort, args) ==
  [func |-> cf[1], effort |-> effort, args |-> args,
   fits |-> cf[2] = [i \in DOMAIN args |-> Cls(args[i])]]

callCompiledFunc(w, cf, args) ==
  [w EXCEPT !.called = Append(@, CalledWith(cf, Effort(cf), args)),
            !.rtn = Result(cf[1], args)]

------------------------------------------------------------------------------
(***************************************************************************)
(* Attributes, with the first rewriter.                                    *)
(***************************************************************************)
\* HCBox::getattr
HcboxGetattr(w, var, b, attr, dest) ==
  LET guarded == addAttrGuard(w, var, "hcls", HiddenClass(b)) IN
  IF ~ HasAttr(b, attr) THEN Returning(guarded, NULL)
  ELSE LET list == getAttr(guarded, var, "attrs", dest)
           val == getAttr(list, list.v, GetOffset(heap[b].hcls, attr), dest)
       IN  Returning(addDependenceOn(val, <<"attrs", Cls(b)>>), Attr(b, attr))

RECURSIVE runtimeCallInternal(_, _, _, _), callattrInternal(_, _, _, _, _, _)

\* getclsattr_internal and a call of what it found: a function gets bound.
CallClsAttr(w, b, attr, args) ==
  LET val == Attr(Cls(b), attr) IN
  runtimeCallInternal(GiveUp(w), NoArgs, val,
                      IF Cls(val) = "function" THEN <<b>> \o args ELSE args)

\* getattr_internal(obj, attr, check_cls = false, allow_custom = false)
InstanceAttr(w, var, b, attr, dest) ==
  IF heap[Cls(b)].hasattrs THEN HcboxGetattr(w, var, b, attr, dest) ELSE Returning(w, NULL)

OrGetattrHook(found, b) ==
  IF found.rtn = NULL /\ HasAttr(Cls(b), "__getattr__")
    THEN CallClsAttr(found, b, "__getattr__", <<"str">>) ELSE found

\* getattr_internal(obj, attr, check_cls = false, allow_custom = true): the hooks of the
\* class are not guarded, the slot depends on the class instead.
getattr_internal(w, var, b, attr, dest) ==
  IF HasAttr(Cls(b), "__getattribute__") THEN CallClsAttr(w, b, "__getattribute__", <<"str">>)
  ELSE OrGetattrHook(InstanceAttr(addDependenceOn(w, <<"attrs", Cls(b)>>), var, b, attr, dest), b)

------------------------------------------------------------------------------
(***************************************************************************)
(* Guards on the classes of the arguments.                                 *)
(***************************************************************************)
GuardCls(w, var, b) == addAttrGuard(w, var, "cls", Box(Cls(b)))

RECURSIVE GuardRest(_, _, _, _, _)
GuardRest(w, array, args, i, dest) ==
  IF i > Len(args) THEN w
  ELSE LET arg == getAttr(w, array, i - 4, dest)
       IN  GuardRest(GuardCls(arg, arg.v, args[i]), array, args, i + 1, dest)

\* The classes of arguments i to n, each in a register.
RECURSIVE GuardArgs(_, _, _, _, _)
GuardArgs(w, ra, args, i, n) ==
  IF i > n \/ i > Len(args) THEN w
  ELSE GuardArgs(GuardCls(w, ra.args[i], args[i]), ra, args, i + 1, n)

\* In callattrInternal the third argument and the array may be on the stack.
GuardMoved(moved, arg) == GuardCls(moved, moved.v, arg)
GuardThird(w, ra, args, dest) ==
  IF Len(args) <= 2 THEN w ELSE GuardMoved(move(w, ra.args[3], dest), args[3])
GuardArray(moved, args) == GuardRest(moved, moved.v, args, 4, -2)
GuardOthers(w, ra, args) == IF Len(args) <= 3 THEN w ELSE GuardArray(move(w, ra.args[4], -3), args)

\* Mutant: through a register that holds an argument.
callattrGuardsInArg2(w, ra, args) ==
  GuardOthers(GuardThird(GuardArgs(w, ra, args, 1, 2), ra, args, 2), ra, args)
callattrGuards(w, ra, args) ==
  GuardOthers(GuardThird(GuardArgs(w, ra, args, 1, 2), ra, args, -2), ra, args)

runtimeCallGuards(w, ra, args) == GuardRest(GuardArgs(w, ra, args, 1, 3), ra.args[4], args, 4, -1)

------------------------------------------------------------------------------
(***************************************************************************)
(* callattrInternal.                                                       *)
(***************************************************************************)
NotCallable(w) == IF w.rtn = NULL THEN Raise(w, "TypeError") ELSE w

CallInstAttr(w, ra, args) ==
  LET func == w.rtn
      kept == IF Cls(func) = "function" THEN w ELSE GiveUp(w)
      guarded == addGuard(push(kept, w.v), w.v, Box(func))
  IN  NotCallable(pop(runtimeCallInternal(guarded,
                        [ra EXCEPT !.func_guarded = TRUE, !.args_guarded = TRUE], func, args), 0))

\* The arguments after the first two move to a new array on the stack, the receiver
\* takes the place of the first.
RECURSIVE CopyArgs(_, _, _, _, _)
CopyArgs(w, array, new_args, n, i) ==
  IF i = n THEN w
  ELSE LET from == IF isInReg(array) THEN [w EXCEPT !.v = array] ELSE move(w, array, -2)
           arg == getAttr(from, from.v, i, -2)
       IN  CopyArgs(setAttr(arg, new_args, i + 1, arg.v), array, new_args, n, i + 1)

CallRemunged(w, ra, r_clsattr, func, obj, args) ==
  LET cells == Len(args) - 2
      new == alloca_(w, cells, -3)
      saved == push(new, r_clsattr)
      arg3 == IF isInReg(ra.args[3]) THEN [saved EXCEPT !.v = ra.args[3]]
              ELSE move(saved, ra.args[3], -2)
      copied == CopyArgs(setAttr(arg3, new.v, 0, arg3.v), ra.args[4], new.v, Len(args) - 3, 0)
      called == runtimeCallInternal(copied,
                  RewriteArgs(r_clsattr, <<ra.obj, ra.args[1], ra.args[2], new.v>>, TRUE, TRUE),
                  func, <<obj>> \o args)
  IN  alloca_(pop(called, 0), - cells, 0)

CallFound(got, ra, obj, args) ==
  LET func == got.rtn
      moved == move(got, got.v, -1)
      guarded == addGuard(moved, moved.v, Box(func))
  IN  CASE func = NULL -> got
        [] func # NULL /\ Cls(func) # "function" ->
             NotCallable(runtimeCallInternal(GiveUp(moved), NoArgs, func, args))
        [] func # NULL /\ Cls(func) = "function" /\ Len(args) <= 2 ->
             pop(runtimeCallInternal(push(guarded, moved.v),
                   RewriteArgs(moved.v, <<ra.obj, ra.args[1], ra.args[2], NoVar>>, TRUE, TRUE),
                   func, <<obj>> \o args), 0)
        [] OTHER -> CallRemunged(guarded, ra, moved.v, func, obj, args)

CallClassAttr(w, ra, obj, attr, args) ==
  LET r_cls == getAttr(w, ra.obj, "cls", -1)
  IN  CallFound(InstanceAttr(r_cls, r_cls.v, Cls(obj), attr, -1), ra, obj, args)

\* inst: what the instance, or a hook of its class, gave for the name.
CallAttr(inst, ra, obj, attr, args) ==
  IF inst.raised # {} THEN inst
  ELSE IF inst.rtn # NULL THEN CallInstAttr(inst, ra, args)
  ELSE CallClassAttr(inst, ra, obj, attr, args)

callattrInternal(w, ra, obj, attr, scope, args) ==
  LET start == IF ra.obj.argnum = -1 THEN move(w, ra.obj, -3) ELSE [w EXCEPT !.v = ra.obj]
      here == [ra EXCEPT !.obj = start.v]
      guarded == IF ra.args_guarded THEN start ELSE callattrGuards(start, here, args)
  IN  CallAttr(IF "inst" \in scope THEN getattr_internal(guarded, here.obj, obj, attr, -1)
               ELSE Returning(guarded, NULL), here, obj, attr, args)

------------------------------------------------------------------------------
(***************************************************************************)
(* typeCallInternal: the arguments are the class and those of the call.    *)
(***************************************************************************)
\* From argument i on; what comes after the first three is an array.
RECURSIVE PushArgs(_, _, _, _), PopArgs(_, _, _)
PushArgs(w, ra, i, n) ==
  IF i > n \/ i > 4 THEN w ELSE PushArgs(push(w, ra.args[i]), ra, i + 1, n)
PopArgs(w, i, n) ==
  IF i < 1 THEN w ELSE PopArgs(IF i <= n THEN pop(w, i - 1) ELSE w, i - 1, n)

\* The new object: r_made, the variable that holds it, is v.
MakeByNew(w, ra, r_new, func, args) ==
  MoveOut(pop(runtimeCallInternal(push(w, r_new), RewriteArgs(r_new, ra.args, TRUE, TRUE),
                                  func, args), 0), -1)

MakeHCBox(w, ra, cls) ==
  Returning(call(loadConst(move(w, ra.args[1], 1), 0, Box("user_flavor")), <<"makeHCBox">>),
            Fresh(cls))

assertInitNone(w, made) == IF w.rtn # "None" THEN Raise(w, "TypeError") ELSE Returning(w, made)

CallInit(w, r_made, init, made, args) ==
  LET saved == push(push(w, r_made), Held(w, -2))
      called == runtimeCallInternal(saved,
                  RewriteArgs(Held(w, -2), <<r_made, Held(w, 1), Held(w, 2), Held(w, 3)>>,
                              TRUE, TRUE), init, <<made>> \o Tail(args))
      asserted == call(MoveOut(called, 0), <<"assertInitNone">>)
  IN  assertInitNone(AsOut(pop(pop(asserted, 0), -1)), made)

EndTypeCall(made, new, init, args) ==
  LET args_popped == PopArgs(made, 4, Len(args))
      popped == IF init = NULL THEN args_popped ELSE pop(args_popped, -2)
  IN  IF made.raised # {} THEN made
      ELSE IF Cls(made.rtn) # args[1] THEN Raise(made, "allowed but unsupported")
      ELSE IF init # NULL THEN CallInit(popped, made.v, init, made.rtn, args)
      ELSE IF new = NULL /\ Len(args) # 1 THEN Raise(made, "TypeError")
      ELSE [popped EXCEPT !.out = made.v]

WithInit(got, r_new, new, ra, args) ==
  LET init == got.rtn
      ready == IF init = NULL THEN got ELSE push(addGuard(got, got.v, Box(init)), got.v)
      saved == PushArgs(ready, ra, 1, Len(args))
  IN  EndTypeCall(IF new # NULL THEN MakeByNew(saved, ra, r_new, new, args)
                  ELSE MakeHCBox(saved, ra, args[1]), new, init, args)

WithNew(got, ra, args) ==
  LET new == got.rtn
      r_new == move(got, got.v, -2)
      guarded == IF new = NULL THEN got ELSE addGuard(r_new, r_new.v, Box(new))
  IN  IF new = NULL /\ ~ isUserDefined(args[1]) THEN Raise(got, "TypeError")
      ELSE WithInit(InstanceAttr(guarded, ra.args[1], args[1], "__init__", -1),
                    r_new.v, new, ra, args)

typeCallInternal(w, ra, args) ==
  LET guarded == addGuard(w, ra.args[1], Box(args[1])) IN
  IF Cls(args[1]) # "type" THEN Raise(guarded, "TypeError")
  ELSE WithNew(InstanceAttr(guarded, ra.args[1], args[1], "__new__", -2), ra, args)

------------------------------------------------------------------------------
(***************************************************************************)
(* runtimeCallInternal.                                                    *)
(***************************************************************************)
RECURSIVE MoveArgs(_, _, _, _)
MoveArgs(w, ra, i, n) ==
  IF i > n \/ i > 4 THEN w ELSE MoveArgs(move(w, ra.args[i], i - 1), ra, i + 1, n)

CallFunction(w, ra, func, args) ==
  LET cf == resolveCLFunc(func, args)
      kept == IF heap[func].is_vararg \/ Effort(cf) = 0 THEN GiveUp(w) ELSE w
      guarded == IF ra.func_guarded THEN kept ELSE addGuard(kept, ra.obj, Box(func))
      placed == MoveArgs(addDependenceOn(guarded, <<"cf", cf>>), ra, 1, Len(args))
      called == call(placed, <<cf, Effort(cf)>>)
  IN  callCompiledFunc(AsOut(MoveOut(AsOut(called), -1)), cf, args)

CallMethod(w, ra, im, args) ==
  LET func == heap[im].func
      self == heap[im].obj
      guarded == IF ra.func_guarded THEN w ELSE addAttrGuard(w, ra.obj, "func", Box(func))
      r_self == getAttr(guarded, ra.obj, "obj", 0)
      called == runtimeCallInternal(r_self,
                  RewriteArgs(NoVar, <<r_self.v, ra.args[1], ra.args[2], NoVar>>, TRUE, TRUE),
                  func, <<self>> \o args)
  IN  IF Len(args) > 2 THEN runtimeCallInternal(GiveUp(guarded), NoArgs, func, <<self>> \o args)
      ELSE AsOut(MoveOut(called, -1))

runtimeCallInternal(w, ra, obj, args) ==
  LET guarded == IF ra.args_guarded THEN w ELSE runtimeCallGuards(w, ra, args) IN
  CASE w.raised # {} -> w
    [] w.raised = {} /\ obj = "type.__call__" -> typeCallInternal(guarded, ra, args)
    [] w.raised = {} /\ obj # "type.__call__" /\ Cls(obj) = "function" ->
         CallFunction(guarded, ra, obj, args)
    [] w.raised = {} /\ Cls(obj) = "instancemethod" -> CallMethod(guarded, ra, obj, args)
    [] OTHER -> callattrInternal(w, ra, obj, "__call__", {"cls"}, args)
==============================================================================
