--------------------------- MODULE Rewriter2Clients ---------------------------
(***************************************************************************)
(* The clients of the rewriter, as the calls they make: HCBox::getattr,    *)
(* HCBox::setattr and getclsattr_internal of src/runtime/objmodel.cpp.     *)
(* getattr finds the attribute in the object, or in its class (with or     *)
(* without a hidden class of the object to guard on); setattr replaces an  *)
(* attribute, adds the first one, or adds another one.                     *)
(***************************************************************************)
EXTENDS Rewriter2

Guard(var) == [op |-> "guard", on |-> var]
DoneGuarding == [op |-> "doneGuarding"]
Get(new, var, field, kill, dest) ==
  [op |-> "get", new |-> new, on |-> var, field |-> field, kill |-> kill, dest |-> dest]
Set(var, val) == [op |-> "set", on |-> var, val |-> val]
Imm(new, c, dest) == [op |-> "const", new |-> new, const |-> c, pointer |-> FALSE, dest |-> dest]
Pointer(new, c) == [op |-> "const", new |-> new, const |-> c, pointer |-> TRUE, dest |-> AnyReg]
CallFunc(new, func, args) == [op |-> "call", new |-> new, func |-> func, args |-> args]
DoneUsing(var) == [op |-> "doneUsing", on |-> var]
Commit == [op |-> "commit"]
CommitReturning(var) == [op |-> "commitReturning", on |-> var]

GetInstanceAttr ==
  <<Guard("obj"), DoneGuarding, Get("attrs", "obj", "attrs", TRUE, AnyReg),
    Get("rtn", "attrs", "attr", TRUE, "RAX"), CommitReturning("rtn")>>

GetClassAttr ==
  <<Get("cls", "obj", "cls", FALSE, AnyReg), Guard("cls"), DoneGuarding,
    Get("attrs", "cls", "attrs", TRUE, AnyReg), Get("val", "attrs", "attr", TRUE, ForArg[2]),
    CallFunc("rtn", "handleClsAttr", <<"obj", "val">>), CommitReturning("rtn")>>

ReplaceAttr ==
  <<Guard("obj"), DoneGuarding, Get("hattrs", "obj", "attrs", TRUE, AnyReg),
    Set("hattrs", "attrval"), DoneUsing("hattrs"), Commit>>

AddToArray == <<Set("array", "attrval"), Set("obj", "array"), Pointer("hcls", "hcls"),
                Set("obj", "hcls"), DoneUsing("obj"), Commit>>

AddFirstAttr ==
  <<Guard("obj"), DoneGuarding, Imm("size", "new_size", ForArg[1]),
    CallFunc("array", "rt_alloc", <<"size">>),
    Imm("flavor", "kind_id", AnyReg), Set("array", "flavor")>> \o AddToArray

AddAttr ==
  <<Guard("obj"), DoneGuarding, Get("old", "obj", "attrs", FALSE, ForArg[1]),
    Imm("size", "new_size", ForArg[2]),
    CallFunc("array", "rt_realloc", <<"old", "size">>)>> \o AddToArray

GetattrClients == {GetInstanceAttr, GetClassAttr, <<Guard("obj")>> \o GetClassAttr}
SetattrClients == {ReplaceAttr, AddFirstAttr, AddAttr}

------------------------------------------------------------------------------
(***************************************************************************)
(* The registers and live-outs that TLC checks these clients with.         *)
(***************************************************************************)
ScratchWords == <<"S0", "S8", "S16", "S24", "S32", "S40", "S48", "S56">>
XMMRegs == <<"XMM0", "XMM1">>
LiveRegs == {"RAX", "RCX", "RDX", "RSI", "RDI", "R10", "XMM0"}

\* As many as there are words of scratch space.
Eight == <<"RDI", "RDX", "RAX", "RCX", "RSI", "R8", "R9", "R10">>

\* All orders of up to three of them, and two of all that can be saved: the order of
\* the live-outs is that of an unordered set.
AllOrders == {s \in BoundedSeq(LiveRegs, 3) : IsInjective(s)}
             \cup {Eight, Tail(SelectSeq(Eight, LAMBDA r : r # "RAX"))}

\* The registers that setattr takes its object and its value from come before the
\* registers that these may have been reloaded into.
ArgsRestoredFirst ==
  LET Later(reg, earlier) ==
        \A i, j \in 1..Len(rw.live_outs) :
          (rw.live_outs[i].reg = reg /\ j < i) =>
            rw.live_outs[j].reg \in Range(CalleeSaves) \cup earlier
  IN  Later("RDI", {}) /\ Later("RDX", {"RDI"})

\* Which assertions of the rewriter can fail, for all its clients and all orders of the
\* live-outs: only those of commit() while it restores the live-outs of an order in which
\* an argument comes late.  There is always a register or scratch space to allocate,
\* nothing is spilled while guards are being added, arguments are where they can be
\* passed and nothing that a call clobbers is still in use.
AbortsOnlyRestoring ==
  AssertionsHold \/ (loop.op = "restore" /\ ~ ArgsRestoredFirst)
===============================================================================
