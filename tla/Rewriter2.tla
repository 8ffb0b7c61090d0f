------------------------------ MODULE Rewriter2 ------------------------------
(***************************************************************************)
(* The code getattr and setattr write into their slots, and the allocation *)
(* of its registers: src/asm_writing/rewriter2.{h,cpp}, with its clients   *)
(* HCBox::getattr, HCBox::setattr and getclsattr_internal of               *)
(* src/runtime/objmodel.cpp.                                               *)
(*                                                                         *)
(* Every instruction is executed as it is emitted, on a machine that holds *)
(* symbolic values: mach is what a run of the slot that passes all guards  *)
(* would see.  A location is a register, a word of scratch space or (for   *)
(* small constants) no place at all.  A RewriterVar2 is a number; uses and *)
(* val are indexed by it, and val is the value the client means by it.     *)
(* vars_by_location and the variables' own locations are one relation: at. *)
(* A loop of the code is a sequence of steps, one for each of its turns.   *)
(* The clients are in Rewriter2Clients.                                    *)
(***************************************************************************)
EXTENDS Integers, SequencesExt

CONSTANTS
  XMMs,           \* the XMM registers, in order
  Scratch,        \* the words of the patchpoint's scratch space, in order
  LiveOutOrders,  \* the lists of live-out registers that a call clobbers
  BigPointers,    \* do addresses of hidden classes need more than 32 bits?
  GetClients,     \* the sequences of calls that getattr and setattr make
  SetClients

allocatable_regs == <<"RAX", "RCX", "RBX", "RDX", "RDI", "RSI", "R8", "R9", "R10", "R11",
                      "R12", "R13", "R14", "R15">>
CalleeSaves == <<"RBX", "R12", "R13", "R14", "R15">>
caller_save_registers ==
  <<"RAX", "RCX", "RDX", "RSI", "RDI", "R8", "R9", "R10", "R11">> \o XMMs
ForArg == <<"RDI", "RSI", "RDX", "RCX", "R8", "R9">>
AnyReg == "any"
\* What a function may overwrite, by the calling convention.
CallClobbers == (Range(allocatable_regs) \ Range(CalleeSaves)) \cup Range(XMMs)
Places == Range(allocatable_regs) \cup Range(XMMs) \cup Range(Scratch)

(***************************************************************************)
(* The calls a client makes.  on, val and args are its RewriterVarUsage2   *)
(* objects, new the one it gets.                                           *)
(***************************************************************************)
Names == {"obj", "attrval", "attrs", "cls", "val", "rtn", "hattrs", "array", "hcls", "size",
          "flavor", "old"}
Consts == {"new_size", "kind_id", "hcls"}
Dests == {AnyReg, "RAX"} \cup Range(ForArg)

ClientCalls ==
  [op : {"guard", "doneUsing", "commitReturning"}, on : Names]
  \cup [op : {"doneGuarding", "commit"}]
  \cup [op : {"get"}, new : Names, on : Names, field : STRING, kill : BOOLEAN, dest : Dests]
  \cup [op : {"set"}, on : Names, val : Names]
  \cup [op : {"const"}, new : Names, const : Consts, pointer : BOOLEAN, dest : Dests]
  \cup [op : {"call"}, new : Names, func : STRING, args : {a \in Seq(Names) : Len(a) <= Len(ForArg)}]

\* What a call gives up: the client may not use it any more.
Consumed(c) ==
  CASE c.op \in {"doneUsing", "commitReturning"} -> {c.on}
    [] c.op = "get" -> IF c.kill THEN {c.on} ELSE {}
    [] c.op = "set" -> {c.val}
    [] c.op = "call" -> Range(c.args)
    [] OTHER -> {}
Used(c) == Consumed(c) \cup (IF c.op \in {"guard", "get", "set"} THEN {c.on} ELSE {})

\* A client gives up nothing before its last guard.
GuardsFirst(calls) ==
  \A k \in 1..Len(calls) :
    (\A j \in 1..(k - 1) : calls[j].op # "doneGuarding") =>
      calls[k].op # "doneUsing" /\ ~ (calls[k].op = "get" /\ calls[k].kill)

\* It commits once, at its end.
Commits == {"commit", "commitReturning"}
CommitsLast(calls) == \A k \in 1..Len(calls) : calls[k].op \in Commits <=> k = Len(calls)

ASSUME Rewriter2Assumption ==
  /\ BigPointers \subseteq BOOLEAN
  /\ XMMs \in Seq(STRING) /\ Scratch \in Seq(STRING)
  /\ Range(XMMs) \cap Range(Scratch) = {}
  /\ (Range(XMMs) \cup Range(Scratch)) \cap (Range(allocatable_regs) \cup Consts \cup {AnyReg}) = {}
  /\ \A s \in LiveOutOrders : s \in Seq(CallClobbers)
  /\ \A client \in GetClients \cup SetClients :
       client \in Seq(ClientCalls) /\ GuardsFirst(client) /\ CommitsLast(client)

VARIABLES
  rw,       \* the Rewriter2 and the machine
  usage,    \* the client's RewriterVarUsage2 objects: name -> variable, 0 for none
  todo,     \* the calls the client has yet to make
  loop      \* the loop the rewriter is in, and what is left of it

vars == <<rw, usage, todo, loop>>

\* Values: what a register held on entry, a constant, a load, the result of a call.
Entry(l) == <<"entry", l>>
Junk == <<"junk">>
Const(c) == <<"const", c>>
Load(v, field) == v \o <<"->", field>>
Result(func, vals) == FoldLeft(LAMBDA acc, v : acc \o v, <<func>>, vals)

Idle == [at |-> <<>>, n |-> 0, uses |-> <<>>, val |-> <<>>, mach |-> [l \in Places |-> Entry(l)],
         args |-> <<>>, live_outs |-> <<>>, guarding |-> FALSE,
         out |-> "RAX", asserts |-> TRUE, right |-> TRUE]
NoUsage == [x \in Names |-> 0]
Loop(op, rest) == [op |-> op, rest |-> rest]
NoLoop == Loop("none", <<>>)

Init == rw = Idle /\ usage = NoUsage /\ todo = <<>> /\ loop = NoLoop

------------------------------------------------------------------------------
(***************************************************************************)
(* Bookkeeping.  Each operator stands for a method of the class: it takes  *)
(* the state s of the rewriter to the next one, and leaves the register it *)
(* returns in s.out.  asserts is FALSE once an assertion has failed.       *)
(***************************************************************************)
Where(s, v) == {l \in DOMAIN s.at : s.at[l] = v}
Free(s, locations) == {i \in 1..Len(locations) : locations[i] \notin DOMAIN s.at}
FirstFree(s, locations) == locations[Min(Free(s, locations))]
Check(s, condition) == [s EXCEPT !.asserts = @ /\ condition]
Mov(s, src, dst) == [s EXCEPT !.mach[dst] = s.mach[src]]

AddLocationToVar(s, v, l) ==
  [Check(s, l \notin DOMAIN s.at) EXCEPT
     !.at = [m \in DOMAIN @ \cup {l} |-> IF m = l THEN v ELSE @[m]]]
RemoveLocationFromVar(s, l) == [s EXCEPT !.at = Restrict(@, DOMAIN @ \ {l})]

Extended(f, n, x) == [v \in 1..(n + 1) |-> IF v > n THEN x ELSE f[v]]
CreateNewVar(s, l, value) ==
  AddLocationToVar([s EXCEPT !.n = @ + 1, !.uses = Extended(@, s.n, 1), !.val = Extended(@, s.n, value)],
                   s.n + 1, l)

DecUse(s, v) ==
  LET t == [s EXCEPT !.uses[v] = @ - 1]
  IN  IF t.uses[v] = 0 THEN [t EXCEPT !.at = Restrict(@, DOMAIN @ \ Where(t, v))] ELSE t

\* A callee-save register if one is free, else scratch space; XMM registers always
\* go to scratch space.
SpillTo(reg) == (IF reg \in Range(XMMs) THEN <<>> ELSE CalleeSaves) \o Scratch
SpillRegister(s, reg) ==
  LET t == Check(s, /\ ~ s.guarding /\ Free(s, SpillTo(reg)) # {}
                    /\ reg \in Range(XMMs) => Where(s, s.at[reg]) = {reg})
      l == FirstFree(s, SpillTo(reg))
  IN  IF ~ t.asserts THEN t
      ELSE RemoveLocationFromVar(AddLocationToVar(Mov(t, reg, l), t.at[reg], l), reg)

AllocReg(s, dest) ==
  LET t == IF dest \in DOMAIN s.at THEN SpillRegister(s, dest)
           ELSE Check(s, dest # AnyReg \/ Free(s, allocatable_regs) # {})
  IN  IF ~ t.asserts THEN t
      ELSE [t EXCEPT !.out = IF dest = AnyReg THEN FirstFree(s, allocatable_regs) ELSE dest]

\* getInReg and getInXMMReg.  VariablesPlaced says that there is at most one register
\* to choose from.
GetInReg(s, v, dest) ==
  LET bank == IF dest \in Range(XMMs) THEN Range(XMMs) ELSE Range(allocatable_regs)
      where == Where(s, v)
      regs == where \cap bank
      reg == CHOOSE r \in regs : TRUE
      word == CHOOSE l \in where : TRUE
      t == AllocReg(s, dest)
  IN  IF where = {} \/ ~ where \subseteq Places THEN Check(s, FALSE)
      ELSE IF dest \in regs THEN [s EXCEPT !.out = dest]
      ELSE IF regs # {} /\ dest = AnyReg THEN [s EXCEPT !.out = reg]
      ELSE IF regs # {} THEN [AddLocationToVar(Mov(s, reg, dest), v, dest) EXCEPT !.out = dest]
      ELSE IF where # {word} \/ word \notin Range(Scratch) THEN Check(s, FALSE)
      ELSE IF ~ t.asserts THEN t
      ELSE AddLocationToVar(Mov(t, word, t.out), v, t.out)

\* The machine did what the client meant: operand reg holds the value of v.
Operand(s, reg, v) == [s EXCEPT !.right = @ /\ s.mach[reg] = s.val[v]]

------------------------------------------------------------------------------
(***************************************************************************)
(* The operations of the interface.  big says of a constant that it does   *)
(* not fit into an instruction.                                            *)
(***************************************************************************)
\* Mutant: the constant goes to RAX, whatever is there.
AddAttrGuardInRAX(s, v, big) ==
  LET t == GetInReg(Check(s, s.guarding), v, AnyReg)
      u == Operand(t, t.out, v)
  IN  IF big /\ u.asserts THEN [u EXCEPT !.mach["RAX"] = Const("hcls")] ELSE u
AddAttrGuard(s, v, big) ==
  LET t == GetInReg(Check(s, s.guarding), v, AnyReg)
      u == IF big THEN AllocReg(Operand(t, t.out, v), AnyReg) ELSE Operand(t, t.out, v)
  IN  IF big /\ u.asserts THEN [u EXCEPT !.mach[u.out] = Const("hcls")] ELSE u

GetAttr(s, v, field, kill, dest) ==
  LET t == GetInReg(s, v, AnyReg)
      this == t.out
      u == AllocReg(IF kill THEN DecUse(Operand(t, this, v), v) ELSE Operand(t, this, v), dest)
  IN  IF ~ u.asserts THEN u
      ELSE [CreateNewVar(u, u.out, Load(s.val[v], field)) EXCEPT
              !.mach[u.out] = Load(u.mach[this], field)]

IsImmediate(s, v) == \E l \in Where(s, v) : l \notin Places

SetAttr(s, v, w) ==
  LET t == GetInReg(Check(s, ~ s.guarding), v, AnyReg)
      u == GetInReg(t, w, AnyReg)
  IN  IF IsImmediate(t, w) THEN DecUse(Operand(t, t.out, v), w)
      ELSE DecUse(Operand(Operand(Check(u, t.out # u.out), t.out, v), u.out, w), w)

LoadConst(s, c, big, dest) ==
  LET t == AllocReg(s, dest) IN
  IF ~ big THEN CreateNewVar(s, c, Const(c))
  ELSE IF ~ t.asserts THEN t
  ELSE [CreateNewVar(t, t.out, Const(c)) EXCEPT !.mach[t.out] = Const(c)]

\* Argument i of a call is brought to its register, and is done with.
PassArg(s, i, v) ==
  LET l == ForArg[i]
      t == AllocReg(Check(s, IsImmediate(s, v)), l)
      u == IF l \in Where(s, v) THEN s
           ELSE IF ~ t.asserts THEN t
           ELSE [AddLocationToVar(t, v, l) EXCEPT !.mach[l] = t.val[v]]
  IN  IF u.asserts THEN DecUse(Operand(u, l, v), v) ELSE u

\* What is in a register that the call clobbers is saved, unless it is elsewhere too.
\* The location of a constant is an error here.
SaveRegister(s, reg) ==
  LET where == Where(s, s.at[reg])
      t == Check(s, where \subseteq Places)
  IN  IF reg \notin DOMAIN s.at THEN s
      ELSE IF where \ CallClobbers # {} THEN RemoveLocationFromVar(t, reg)
      ELSE SpillRegister(t, reg)

\* What a build with assertions checks before the call.
NothingClobbered(s) == DOMAIN s.at \subseteq Places \ CallClobbers

CallFunction(s, func, vals) ==
  LET t == [s EXCEPT !.mach = [l \in Places |-> IF l \in CallClobbers THEN Junk ELSE @[l]]]
  IN  [CreateNewVar(t, "RAX", Result(func, vals)) EXCEPT !.mach["RAX"] = Result(func, vals)]

\* A live-out is brought back to its register.
Restore(s, liveOut) ==
  LET t == GetInReg(Check(s, liveOut.reg \notin DOMAIN s.at), liveOut.var, liveOut.reg)
      u == IF liveOut.reg \in Where(s, liveOut.var) THEN s ELSE t
  IN  IF u.asserts THEN DecUse(u, liveOut.var) ELSE u

------------------------------------------------------------------------------
(***************************************************************************)
(* createRewriter: the arguments are in their registers, and each live-out *)
(* register is a variable that is in use until commit.  processStackmap    *)
(* makes live-outs of all callee-save registers; the return register of a  *)
(* getattr is none.  getArg adds a use.                                    *)
(***************************************************************************)
ArgVars(n) ==
  [Idle EXCEPT !.at = [l \in {ForArg[i] : i \in 1..n} |-> CHOOSE i \in 1..n : ForArg[i] = l],
     !.n = n, !.uses = [i \in 1..n |-> 1], !.val = [i \in 1..n |-> Entry(ForArg[i])],
     !.args = [i \in 1..n |-> i], !.guarding = TRUE]

\* Mutants: a live-out that is an argument as well does not add a use; the register
\* of a live-out is not taken.
AddLiveOutUntracked(s, reg) ==
  LET t == CreateNewVar(s, "untracked", Entry(reg))
  IN  [RemoveLocationFromVar(t, "untracked") EXCEPT
         !.live_outs = Append(@, [reg |-> reg, var |-> t.n])]
AddLiveOutOnce(s, reg) ==
  LET t == IF reg \in DOMAIN s.at THEN s ELSE CreateNewVar(s, reg, Entry(reg))
  IN  [t EXCEPT !.live_outs = Append(@, [reg |-> reg, var |-> t.at[reg]])]
AddLiveOut(s, reg) ==
  LET t == IF reg \in DOMAIN s.at THEN [s EXCEPT !.uses[s.at[reg]] = @ + 1]
           ELSE CreateNewVar(s, reg, Entry(reg))
  IN  [t EXCEPT !.live_outs = Append(@, [reg |-> reg, var |-> t.at[reg]])]

Start(n, args, client, liveOuts) ==
  /\ todo = <<>> /\ loop = NoLoop
  /\ rw' = ArgVars(n)
  /\ usage' = args
  /\ todo' = client
  /\ loop' = Loop("liveOuts", CalleeSaves \o liveOuts)
StartGetattr(client, liveOuts) ==
  "RAX" \notin Range(liveOuts) /\ Start(2, [NoUsage EXCEPT !["obj"] = 1], client, liveOuts)
StartSetattr(client, liveOuts) ==
  Start(3, [NoUsage EXCEPT !["obj"] = 1, !["attrval"] = 3], client, liveOuts)

\* One turn of a loop, and its end.
Turn(op) ==
  /\ loop.op = op /\ loop.rest # <<>> /\ rw.asserts
  /\ loop' = Loop(op, Tail(loop.rest))
  /\ UNCHANGED <<usage, todo>>
Ends(op) == loop.op = op /\ loop.rest = <<>> /\ rw.asserts

LiveOutTurn == Turn("liveOuts") /\ rw' = AddLiveOut(rw, Head(loop.rest))
GetArgs ==
  /\ Ends("liveOuts")
  /\ rw' = [rw EXCEPT !.uses = [v \in 1..rw.n |-> IF v \in Range(usage) THEN @[v] + 1 ELSE @[v]]]
  /\ loop' = NoLoop
  /\ UNCHANGED <<usage, todo>>

------------------------------------------------------------------------------
\* The client's next call is an op; its variables are valid.
Call == Head(todo)
On == usage[Call.on]
Calls(op) == loop = NoLoop /\ todo # <<>> /\ rw.asserts /\ Call.op = op
Valid == \A x \in Used(Call) : usage[x] # 0

\* The call takes the rewriter to s, or into a loop.
Answers(s) ==
  /\ rw' = s
  /\ usage' = [x \in Names |-> IF "new" \in DOMAIN Call /\ x = Call.new THEN s.n
                               ELSE IF x \in Consumed(Call) THEN 0 ELSE usage[x]]
  /\ todo' = Tail(todo)
  /\ loop' = NoLoop
Performs(s) == Answers(IF Valid THEN s ELSE Check(rw, FALSE))
Enters(s, op, rest) ==
  /\ rw' = IF Valid THEN s ELSE Check(rw, FALSE)
  /\ loop' = Loop(op, rest)
  /\ UNCHANGED <<usage, todo>>

ClientGuards(big) == Calls("guard") /\ Performs(AddAttrGuard(rw, On, big))
ClientGets == Calls("get") /\ Performs(GetAttr(rw, On, Call.field, Call.kill, Call.dest))
ClientSets == Calls("set") /\ Performs(SetAttr(rw, On, usage[Call.val]))
ClientLoads(big) ==
  Calls("const") /\ (big => Call.pointer) /\ Performs(LoadConst(rw, Call.const, big, Call.dest))
ClientIsDoneUsing == Calls("doneUsing") /\ Performs(DecUse(rw, On))

\* setDoneGuarding.  Only now may the state the slot was entered with be changed.
ClientIsDoneGuarding ==
  Calls("doneGuarding") /\ Enters([Check(rw, rw.guarding) EXCEPT !.guarding = FALSE], "args", rw.args)
FreeArg == Turn("args") /\ rw' = DecUse(rw, Head(loop.rest))
ArgsFreed == Ends("args") /\ Answers([rw EXCEPT !.args = <<>>])

\* call: R11 is for the address of the function.
ClientCallsFunc ==
  /\ Calls("call")
  /\ Enters(AllocReg(Check(rw, ~ rw.guarding), "R11"), "pass", [i \in 1..Len(Call.args) |-> i])
PassOne == Turn("pass") /\ LET i == Head(loop.rest) IN rw' = PassArg(rw, i, usage[Call.args[i]])
ArgsPassed ==
  Ends("pass") /\ loop' = Loop("save", caller_save_registers) /\ UNCHANGED <<rw, usage, todo>>
SaveOne == Turn("save") /\ rw' = SaveRegister(rw, Head(loop.rest))
FunctionReturns ==
  /\ Ends("save")
  /\ Answers(CallFunction(Check(rw, NothingClobbered(rw)), Call.func,
                          [i \in 1..Len(Call.args) |-> rw.val[usage[Call.args[i]]]]))

\* commit and commitReturning.
ClientCommits == Calls("commit") /\ Enters(Check(rw, ~ rw.guarding), "restore", rw.live_outs)
ClientCommitsReturning ==
  LET s == Operand(Check(rw, ~ rw.guarding /\ "RAX" \in Where(rw, On)), "RAX", On)
  IN  Calls("commitReturning") /\ Enters(DecUse(s, On), "restore", rw.live_outs)
RestoreOne == Turn("restore") /\ rw' = Restore(rw, Head(loop.rest))
AllRestored == Ends("restore") /\ Answers(Check(rw, rw.at = <<>>))

\* The lookup fails, or the class has a hook: nothing is committed.
Drop ==
  /\ todo # <<>> /\ rw.guarding /\ loop = NoLoop
  /\ rw' = Idle /\ usage' = NoUsage /\ todo' = <<>> /\ UNCHANGED loop

\* An assertion has failed, and the process is gone.
Aborted == ~ rw.asserts /\ UNCHANGED vars

Next ==
  \/ \E liveOuts \in LiveOutOrders :
       \/ \E client \in GetClients : StartGetattr(client, liveOuts)
       \/ \E client \in SetClients : StartSetattr(client, liveOuts)
  \/ LiveOutTurn \/ GetArgs
  \/ \E big \in BigPointers : ClientGuards(big) \/ ClientLoads(big)
  \/ ClientGets \/ ClientSets \/ ClientIsDoneUsing
  \/ ClientIsDoneGuarding \/ FreeArg \/ ArgsFreed
  \/ ClientCallsFunc \/ PassOne \/ ArgsPassed \/ SaveOne \/ FunctionReturns
  \/ ClientCommits \/ ClientCommitsReturning \/ RestoreOne \/ AllRestored
  \/ Drop \/ Aborted

Spec == Init /\ [][Next]_vars

------------------------------------------------------------------------------
(***************************************************************************)
(* Properties.                                                             *)
(***************************************************************************)

\* No assertion of the rewriter has failed.  It does not hold of every order in which
\* the live-outs can come: commit() asserts that the register of each one it restores
\* is free, and another live-out may have been reloaded into it.
AssertionsHold == rw.asserts

\* Locations belong to variables that are in use, and a variable that is in use is
\* somewhere.  Until commit at most one of its locations is a register, so that it does
\* not matter which one getInReg finds first.
VariablesPlaced ==
  /\ \A l \in DOMAIN rw.at : rw.at[l] \in 1..rw.n
  /\ \A v \in 1..rw.n :
       /\ rw.uses[v] > 0 <=> Where(rw, v) # {}
       /\ loop.op # "restore" =>
            \A l, m \in Where(rw, v) \cap Range(allocatable_regs) : l = m

\* The code acts on the objects the slow path acted on: no load, store, guard, call or
\* return has met another value than the client meant.
OperandsRight == rw.right

\* The rewriter knows where its values are: whatever has been moved, reloaded or
\* spilled, each location holds the value of the variable it is recorded for, and
\* every instruction acts on the value the client meant, unless the process has aborted.
LocationsHoldValues ==
  AssertionsHold =>
    /\ VariablesPlaced
    /\ \A l \in DOMAIN rw.at \cap Places : rw.mach[l] = rw.val[rw.at[l]]
    /\ OperandsRight

\* A guard that fails leaves by the slot's end, to the next slot or the slow path:
\* until the last guard, arguments and live-outs are where they were on entry.
GuardsMayFail ==
  rw.guarding =>
    \A l \in {rw.live_outs[i].reg : i \in 1..Len(rw.live_outs)}
               \cup {ForArg[i] : i \in 1..Len(rw.args)} : rw.mach[l] = Entry(l)

\* Committed code ends with every live-out register as it was on entry.
LiveOutsRestored ==
  todo = <<>> =>
    \A i \in 1..Len(rw.live_outs) : rw.mach[rw.live_outs[i].reg] = Entry(rw.live_outs[i].reg)

\* However control leaves a slot, by a guard or at its end, the registers that the
\* code around it relies on are as they were on entry, unless writing the slot has
\* aborted the process.
RegistersKept == AssertionsHold => GuardsMayFail /\ LiveOutsRestored
==============================================================================
