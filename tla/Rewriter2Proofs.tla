--------------------------- MODULE Rewriter2Proofs ---------------------------
(***************************************************************************)
(* Proofs about Rewriter2, for any clients, any live-outs, any number of   *)
(* XMM registers and any scratch space: as long as no assertion of the     *)
(* rewriter fails, its locations hold the values they are recorded for,    *)
(* and the registers that the code around a slot relies on are kept.       *)
(***************************************************************************)
EXTENDS Rewriter2, SequenceTheorems, WellFoundedInduction, TLAPS

Regs == Range(allocatable_regs)
Callees == Range(CalleeSaves)
Registers == Regs \cup Range(XMMs)

(***************************************************************************)
(* The inductive invariant.                                                *)
(***************************************************************************)
\* A state of the rewriter is a record of eleven fields.
Shape(s) ==
  /\ s = [at |-> s.at, n |-> s.n, uses |-> s.uses, val |-> s.val, mach |-> s.mach,
          args |-> s.args, live_outs |-> s.live_outs, guarding |-> s.guarding,
          out |-> s.out, asserts |-> s.asserts, right |-> s.right]
  /\ s.guarding \in BOOLEAN /\ s.asserts \in BOOLEAN /\ s.right \in BOOLEAN

\* Variables, their uses and values are numbered without gaps.
Numbered(s) ==
  /\ s.n \in Nat
  /\ DOMAIN s.val = 1..s.n /\ DOMAIN s.uses = 1..s.n /\ DOMAIN s.mach = Places
  /\ \A v \in 1..s.n : s.uses[v] \in Int

\* Locations belong to variables in use, which are somewhere.
Placed(s) ==
  /\ DOMAIN s.at \subseteq Places \cup Consts
  /\ \A l \in DOMAIN s.at : s.at[l] \in 1..s.n /\ s.uses[s.at[l]] > 0
  /\ \A v \in 1..s.n : s.uses[v] > 0 => \E l \in DOMAIN s.at : s.at[l] = v

\* Each place holds the value of its variable, and so did all operands.
Holds(s) ==
  /\ \A l \in DOMAIN s.at : l \in Places => s.mach[l] = s.val[s.at[l]]
  /\ s.right

\* A constant has one use and is nowhere else.
ConstsApart(s) ==
  \A l \in DOMAIN s.at : l \notin Places =>
    /\ s.uses[s.at[l]] = 1
    /\ \A m \in DOMAIN s.at : s.at[m] = s.at[l] => m = l

OneReg(s) == \A l, m \in DOMAIN s.at : l \in Regs /\ m \in Regs /\ s.at[l] = s.at[m] => l = m

Good(s) == Shape(s) /\ Numbered(s) /\ Placed(s) /\ Holds(s) /\ ConstsApart(s)

\* A live-out's variable has the value its register had on entry.
LiveOutsKnown(s) ==
  /\ s.live_outs \in Seq([reg : Registers, var : Nat])
  /\ \A i \in 1..Len(s.live_outs) :
       /\ s.live_outs[i].var \in 1..s.n
       /\ s.val[s.live_outs[i].var] = Entry(s.live_outs[i].reg)
ArgsKnown(s) == s.args \in Seq(Nat) /\ \A i \in 1..Len(s.args) : s.args[i] \in 1..s.n

\* Until the last guard, live-outs and arguments are still recorded where they were.
Guarded(s) ==
  s.guarding =>
    /\ \A i \in 1..Len(s.live_outs) :
         LET r == s.live_outs[i].reg IN r \in DOMAIN s.at /\ s.val[s.at[r]] = Entry(r)
    /\ Len(s.args) <= Len(ForArg)
    /\ \A i \in 1..Len(s.args) : ForArg[i] \in DOMAIN s.at /\ s.val[s.at[ForArg[i]]] = Entry(ForArg[i])

\* The variables the client or the rewriter may be done with.
Owned(v) == (\E x \in Names : usage[x] = v) \/ (\E i \in 1..Len(rw.args) : rw.args[i] = v)

\* No callee-save register is free before commit.
CalleesTaken == \A r \in Callees : r \in DOMAIN rw.at /\ ~ Owned(rw.at[r])

InLiveOuts ==
  /\ rw.guarding /\ loop.rest \in Seq(Registers)
  /\ \A l \in Places : rw.mach[l] = Entry(l)
  /\ DOMAIN rw.at \subseteq Places
  /\ \A v \in 1..rw.n : rw.uses[v] > 0
  /\ \A r \in Callees : /\ r \in DOMAIN rw.at => ~ Owned(rw.at[r])
                        /\ r \in DOMAIN rw.at \/ r \in Range(loop.rest)
InArgs ==
  /\ ~ rw.guarding /\ todo # <<>> /\ Call.op = "doneGuarding"
  /\ loop.rest \in Seq(Nat)
  /\ \A i \in 1..Len(loop.rest) : \E j \in 1..Len(rw.args) : rw.args[j] = loop.rest[i]
  /\ CalleesTaken
InCall ==
  /\ ~ rw.guarding /\ todo # <<>> /\ Call.op = "call"
  /\ \A i \in 1..Len(Call.args) : usage[Call.args[i]] \in 1..rw.n
  /\ CalleesTaken
InPass == InCall /\ loop.rest \in Seq(1..Len(Call.args))
InSave ==
  /\ InCall /\ loop.rest \in Seq(CallClobbers)
  /\ \A l \in DOMAIN rw.at : l \in CallClobbers => l \in Range(loop.rest)
InRestore ==
  /\ ~ rw.guarding /\ todo # <<>> /\ Call.op \in Commits
  /\ loop.rest \in Seq([reg : Registers, var : Nat])
  /\ \A i \in 1..Len(loop.rest) :
       /\ loop.rest[i].var \in 1..rw.n
       /\ rw.val[loop.rest[i].var] = Entry(loop.rest[i].reg)
  /\ \A i \in 1..Len(rw.live_outs) :
       \/ \E j \in 1..Len(loop.rest) : loop.rest[j] = rw.live_outs[i]
       \/ rw.mach[rw.live_outs[i].reg] = Entry(rw.live_outs[i].reg)

\* Between two calls.
InClient ==
  /\ todo # <<>> => CalleesTaken
  /\ todo = <<>> => LiveOutsRestored

ByLoop ==
  \/ loop.op = "none" /\ InClient
  \/ loop.op = "liveOuts" /\ InLiveOuts
  \/ loop.op = "args" /\ InArgs
  \/ loop.op = "pass" /\ InPass
  \/ loop.op = "save" /\ InSave
  \/ loop.op = "restore" /\ InRestore

Client ==
  /\ todo \in Seq(ClientCalls) /\ CommitsLast(todo)
  /\ rw.guarding => GuardsFirst(todo)
  /\ usage \in [Names -> 0..rw.n]

IInv ==
  rw.asserts =>
    /\ Good(rw) /\ LiveOutsKnown(rw) /\ ArgsKnown(rw) /\ Guarded(rw)
    /\ loop = Loop(loop.op, loop.rest)
    /\ loop.op # "restore" => OneReg(rw)
    /\ Client
    /\ ByLoop
------------------------------------------------------------------------------
(***************************************************************************)
(* Registers and other sequences.                                          *)
(***************************************************************************)
\* A set of numbers that is not empty has a least one, which Min gives.
LEMMA MinIsIn ==
  ASSUME NEW T \in SUBSET Nat, T # {}
  PROVE  Min(T) \in T
  <1>1. \E R : /\ IsWellFoundedOn(R, Nat)
               /\ \A x, y \in Nat : y < x => <<y, x>> \in R
    <2>1. \A x, y \in Nat : y < x => <<y, x>> \in OpToRel(<, Nat)
      BY DEF OpToRel
    <2> QED BY <2>1, NatLessThanWellFounded, Zenon
  <1>2. PICK R : /\ IsWellFoundedOn(R, Nat)
                 /\ \A x, y \in Nat : y < x => <<y, x>> \in R
    BY <1>1, Zenon
  <1>3. PICK m \in T : \A k \in T : <<k, m>> \notin R
    BY <1>2, WFMin, Zenon
  <1>4. \A k \in T : ~ (k < m)
    BY <1>2, <1>3
  <1>5. \A k \in T : m <= k
    BY <1>4
  <1> QED BY <1>3, <1>5 DEF Min

LEMMA RangeConcat ==
  ASSUME NEW S, NEW a \in Seq(S), NEW b \in Seq(S)
  PROVE  Range(a \o b) = Range(a) \cup Range(b)
  <1>1. \A i \in 1..Len(b) : i + Len(a) \in 1..Len(a \o b) /\ b[i] = (a \o b)[i + Len(a)]
    OBVIOUS
  <1>2. \A i \in 1..Len(a) : i \in 1..Len(a \o b) /\ a[i] = (a \o b)[i]
    OBVIOUS
  <1>3. \A i \in 1..Len(a \o b) : i \in 1..Len(a) \/ i - Len(a) \in 1..Len(b)
    OBVIOUS
  <1>4. \A i \in 1..Len(a \o b) : ~ (i \in 1..Len(a)) => (a \o b)[i] = b[i - Len(a)]
    OBVIOUS
  <1>5. DOMAIN a = 1..Len(a) /\ DOMAIN b = 1..Len(b) /\ DOMAIN (a \o b) = 1..Len(a \o b)
    OBVIOUS
  <1>6. ASSUME NEW x \in Range(a \o b) PROVE x \in Range(a) \cup Range(b)
    <2>1. PICK i \in 1..Len(a \o b) : x = (a \o b)[i]
      BY <1>5 DEF Range
    <2> QED BY <2>1, <1>2, <1>3, <1>4, <1>5 DEF Range
  <1>7. ASSUME NEW x \in Range(a) PROVE x \in Range(a \o b)
    BY <1>2, <1>5 DEF Range
  <1>8. ASSUME NEW x \in Range(b) PROVE x \in Range(a \o b)
    BY <1>1, <1>5 DEF Range
  <1> QED BY <1>6, <1>7, <1>8

LEMMA RangeHeadTail ==
  ASSUME NEW S, NEW a \in Seq(S), a # <<>>
  PROVE  /\ Head(a) \in S /\ Head(a) = a[1] /\ 1 \in 1..Len(a) /\ Tail(a) \in Seq(S)
         /\ Len(Tail(a)) = Len(a) - 1
         /\ \A i \in 1..Len(Tail(a)) : i + 1 \in 1..Len(a) /\ Tail(a)[i] = a[i + 1]
         /\ Range(a) = {Head(a)} \cup Range(Tail(a))
  <1>1. /\ Head(a) \in S /\ Head(a) = a[1] /\ 1 \in 1..Len(a) /\ Tail(a) \in Seq(S)
        /\ Len(Tail(a)) = Len(a) - 1
        /\ \A i \in 1..Len(Tail(a)) : i + 1 \in 1..Len(a) /\ Tail(a)[i] = a[i + 1]
    OBVIOUS
  <1>2. ASSUME NEW i \in 1..Len(a), i # 1 PROVE i - 1 \in 1..Len(Tail(a)) /\ Tail(a)[i - 1] = a[i]
    BY <1>1, <1>2
  <1>3. DOMAIN a = 1..Len(a) /\ DOMAIN Tail(a) = 1..Len(Tail(a))
    BY <1>1
  <1>4. ASSUME NEW x \in Range(a), x # Head(a) PROVE x \in Range(Tail(a))
    <2>1. PICK i \in 1..Len(a) : x = a[i]
      BY <1>3 DEF Range
    <2>2. i # 1
      BY <2>1, <1>1, <1>4
    <2> QED BY <2>1, <2>2, <1>2, <1>3 DEF Range
  <1>5. ASSUME NEW x \in Range(Tail(a)) PROVE x \in Range(a)
    BY <1>1, <1>3 DEF Range
  <1>6. Head(a) \in Range(a)
    BY <1>1, <1>3 DEF Range
  <1> QED BY <1>1, <1>4, <1>5, <1>6

LEMMA RegNames ==
  /\ Regs = {"RAX", "RCX", "RBX", "RDX", "RDI", "RSI", "R8", "R9", "R10", "R11",
             "R12", "R13", "R14", "R15"}
  /\ Callees = {"RBX", "R12", "R13", "R14", "R15"}
  /\ Range(ForArg) = {"RDI", "RSI", "RDX", "RCX", "R8", "R9"}
  <1>1. Regs = {"RAX", "RCX", "RBX", "RDX", "RDI", "RSI", "R8", "R9", "R10", "R11",
             "R12", "R13", "R14", "R15"}
    BY DEF Regs, Range, allocatable_regs
  <1>2. Callees = {"RBX", "R12", "R13", "R14", "R15"}
    BY DEF Callees, Range, CalleeSaves
  <1>3. Range(ForArg) = {"RDI", "RSI", "RDX", "RCX", "R8", "R9"}
    BY DEF Range, ForArg
  <1> QED BY <1>1, <1>2, <1>3

------------------------------------------------------------------------------
(***************************************************************************)
(* What the assignments of the bookkeeping leave alone.                    *)
(***************************************************************************)
Frame(s, t) == t.args = s.args /\ t.live_outs = s.live_outs /\ t.guarding = s.guarding
SameVars(s, t) == Frame(s, t) /\ t.n = s.n /\ t.uses = s.uses /\ t.val = s.val

LEMMA CheckDoes ==
  ASSUME NEW s, Shape(s), NEW c \in BOOLEAN
  PROVE  LET t == Check(s, c) IN
         /\ Shape(t) /\ SameVars(s, t) /\ t.at = s.at /\ t.mach = s.mach /\ t.out = s.out
         /\ t.right = s.right /\ t.asserts = (s.asserts /\ c)
  BY DEF Check, Shape, SameVars, Frame

LEMMA OutDoes ==
  ASSUME NEW s, Shape(s), NEW r
  PROVE  LET t == [s EXCEPT !.out = r] IN
         /\ Shape(t) /\ SameVars(s, t) /\ t.at = s.at /\ t.mach = s.mach /\ t.out = r
         /\ t.right = s.right /\ t.asserts = s.asserts
  BY DEF Shape, SameVars, Frame

LEMMA MachDoes ==
  ASSUME NEW s, Shape(s), NEW l, NEW x
  PROVE  LET t == [s EXCEPT !.mach[l] = x] IN
         /\ Shape(t) /\ SameVars(s, t) /\ t.at = s.at /\ t.mach = [s.mach EXCEPT ![l] = x]
         /\ t.out = s.out /\ t.right = s.right /\ t.asserts = s.asserts
  BY DEF Shape, SameVars, Frame

WithMach(s, l, x) == [s EXCEPT !.mach[l] = x]
LEMMA WithMachDoes ==
  ASSUME NEW s, Shape(s), NEW l, NEW x
  PROVE  LET t == WithMach(s, l, x) IN
         /\ Shape(t) /\ SameVars(s, t) /\ t.at = s.at /\ t.mach = [s.mach EXCEPT ![l] = x]
         /\ t.out = s.out /\ t.right = s.right /\ t.asserts = s.asserts
  BY MachDoes DEF WithMach

\* The same, for a reader that need not know what was written.
Wrote(s, t, l, x) ==
  /\ DOMAIN t.mach = DOMAIN s.mach
  /\ \A m \in DOMAIN s.mach : t.mach[m] = IF m = l THEN x ELSE s.mach[m]
LEMMA WithMachWrites ==
  ASSUME NEW s, Shape(s), NEW l, NEW x
  PROVE  LET t == WithMach(s, l, x) IN
         /\ Shape(t) /\ SameVars(s, t) /\ t.at = s.at /\ Wrote(s, t, l, x)
         /\ t.out = s.out /\ t.right = s.right /\ t.asserts = s.asserts
  BY MachDoes DEF WithMach, Wrote

LEMMA AtDoes ==
  ASSUME NEW s, Shape(s), NEW f
  PROVE  LET t == [s EXCEPT !.at = f] IN
         /\ Shape(t) /\ SameVars(s, t) /\ t.at = f /\ t.mach = s.mach
         /\ t.out = s.out /\ t.right = s.right /\ t.asserts = s.asserts
  BY DEF Shape, SameVars, Frame

LEMMA AddLocationDoes ==
  ASSUME NEW s, Shape(s), NEW v, NEW l
  PROVE  LET t == AddLocationToVar(s, v, l) IN
         /\ Shape(t) /\ SameVars(s, t) /\ t.mach = s.mach /\ t.out = s.out /\ t.right = s.right
         /\ DOMAIN t.at = DOMAIN s.at \cup {l} /\ t.at[l] = v
         /\ \A m \in DOMAIN s.at : m # l => t.at[m] = s.at[m]
         /\ t.asserts = (s.asserts /\ l \notin DOMAIN s.at)
  <1> DEFINE c == l \notin DOMAIN s.at
             u == Check(s, c)
             f == [m \in DOMAIN u.at \cup {l} |-> IF m = l THEN v ELSE u.at[m]]
  <1>1. AddLocationToVar(s, v, l) = [u EXCEPT !.at = f]
    BY DEF AddLocationToVar
  <1>2. /\ Shape(u) /\ SameVars(s, u) /\ u.at = s.at /\ u.mach = s.mach /\ u.out = s.out
        /\ u.right = s.right /\ u.asserts = (s.asserts /\ c)
    BY CheckDoes
  <1> HIDE DEF u, f
  <1> QED BY <1>1, <1>2, AtDoes DEF f, SameVars, Frame

LEMMA RemoveLocationDoes ==
  ASSUME NEW s, Shape(s), NEW l
  PROVE  LET t == RemoveLocationFromVar(s, l) IN
         /\ Shape(t) /\ SameVars(s, t) /\ t.mach = s.mach /\ t.out = s.out /\ t.right = s.right
         /\ DOMAIN t.at = DOMAIN s.at \ {l}
         /\ \A m \in DOMAIN t.at : t.at[m] = s.at[m]
         /\ t.asserts = s.asserts
  BY AtDoes DEF RemoveLocationFromVar, Restrict

LEMMA OperandDoes ==
  ASSUME NEW s, Shape(s), NEW r, NEW v
  PROVE  LET t == Operand(s, r, v) IN
         /\ Shape(t) /\ SameVars(s, t) /\ t.at = s.at /\ t.mach = s.mach /\ t.out = s.out
         /\ t.asserts = s.asserts /\ t.right = (s.right /\ s.mach[r] = s.val[v])
  BY DEF Operand, Shape, SameVars, Frame

LEMMA OperandHits ==
  ASSUME NEW s, Shape(s), NEW r, NEW v, s.mach[r] = s.val[v]
  PROVE  LET t == Operand(s, r, v) IN
         /\ Shape(t) /\ SameVars(s, t) /\ t.at = s.at /\ t.mach = s.mach /\ t.out = s.out
         /\ t.asserts = s.asserts /\ t.right = s.right
  BY DEF Operand, Shape, SameVars, Frame

WithVars(s, n, uses, val) == [s EXCEPT !.n = n, !.uses = uses, !.val = val]
LEMMA WithVarsDoes ==
  ASSUME NEW s, Shape(s), NEW n, NEW uses, NEW val
  PROVE  LET t == WithVars(s, n, uses, val) IN
         /\ Shape(t) /\ Frame(s, t) /\ t.at = s.at /\ t.mach = s.mach /\ t.out = s.out
         /\ t.right = s.right /\ t.asserts = s.asserts
         /\ t.n = n /\ t.uses = uses /\ t.val = val
  <1> DEFINE a == [s EXCEPT !.n = n]
             b == [a EXCEPT !.uses = uses]
             c == [b EXCEPT !.val = val]
  <1>1. WithVars(s, n, uses, val) = c
    BY DEF WithVars
  <1>2. /\ Shape(a) /\ Frame(s, a) /\ a.at = s.at /\ a.mach = s.mach /\ a.out = s.out
        /\ a.right = s.right /\ a.asserts = s.asserts /\ a.n = n
    BY DEF Shape, Frame
  <1> HIDE DEF a
  <1>3. /\ Shape(b) /\ Frame(a, b) /\ b.at = a.at /\ b.mach = a.mach /\ b.out = a.out
        /\ b.right = a.right /\ b.asserts = a.asserts /\ b.n = a.n /\ b.uses = uses
    BY <1>2 DEF Shape, Frame
  <1> HIDE DEF b
  <1>4. /\ Shape(c) /\ Frame(b, c) /\ c.at = b.at /\ c.mach = b.mach /\ c.out = b.out
        /\ c.right = b.right /\ c.asserts = b.asserts /\ c.n = b.n /\ c.uses = b.uses /\ c.val = val
    BY <1>3 DEF Shape, Frame
  <1> HIDE DEF c
  <1> QED BY <1>1, <1>2, <1>3, <1>4 DEF Frame

\* A variable is added, with one use.
LEMMA CreateNewVarDoes ==
  ASSUME NEW s, Shape(s), Numbered(s), NEW l, NEW x
  PROVE  LET t == CreateNewVar(s, l, x) IN
         /\ Shape(t) /\ Frame(s, t) /\ Numbered(t)
         /\ t.mach = s.mach /\ t.out = s.out /\ t.right = s.right
         /\ t.n = s.n + 1
         /\ t.uses[t.n] = 1 /\ \A v \in 1..s.n : t.uses[v] = s.uses[v]
         /\ t.val[t.n] = x /\ \A v \in 1..s.n : t.val[v] = s.val[v]
         /\ DOMAIN t.at = DOMAIN s.at \cup {l} /\ t.at[l] = t.n
         /\ \A m \in DOMAIN s.at : m # l => t.at[m] = s.at[m]
         /\ t.asserts = (s.asserts /\ l \notin DOMAIN s.at)
  <1> DEFINE n == s.n + 1
             f == Extended(s.uses, s.n, 1)
             g == Extended(s.val, s.n, x)
             u == WithVars(s, n, f, g)
  <1>1. CreateNewVar(s, l, x) = AddLocationToVar(u, s.n + 1, l)
    BY DEF CreateNewVar, WithVars
  <1> HIDE DEF n, f, g
  <1>2. /\ Shape(u) /\ Frame(s, u) /\ u.at = s.at /\ u.mach = s.mach /\ u.out = s.out
        /\ u.right = s.right /\ u.asserts = s.asserts /\ u.n = n /\ u.uses = f /\ u.val = g
    BY WithVarsDoes
  <1> HIDE DEF u
  <1>3. /\ DOMAIN u.uses = 1..u.n /\ DOMAIN u.val = 1..u.n
        /\ u.uses[u.n] = 1 /\ u.val[u.n] = x
        /\ \A v \in 1..s.n : u.uses[v] = s.uses[v] /\ u.val[v] = s.val[v]
    BY <1>2 DEF n, f, g, Extended, Numbered
  <1>4. Numbered(u)
    <2>1. \A v \in 1..u.n : v \in 1..s.n \/ v = u.n
      BY <1>2 DEF n, Numbered
    <2>2. u.n \in Nat /\ DOMAIN u.mach = Places
      BY <1>2 DEF n, Numbered
    <2>3. \A v \in 1..u.n : u.uses[v] \in Int
      BY <2>1, <1>3 DEF Numbered
    <2> QED BY <2>2, <2>3, <1>3 DEF Numbered
  <1> QED BY <1>1, <1>2, <1>3, <1>4, AddLocationDoes DEF n, Numbered, Frame, SameVars

\* A use is given up; with the last one go the locations.
LEMMA DecUseDoes ==
  ASSUME NEW s, Shape(s), Numbered(s), NEW v \in 1..s.n
  PROVE  LET t == DecUse(s, v) IN
         /\ Shape(t) /\ Frame(s, t) /\ Numbered(t)
         /\ t.n = s.n /\ t.val = s.val /\ t.mach = s.mach /\ t.out = s.out
         /\ t.right = s.right /\ t.asserts = s.asserts
         /\ t.uses[v] = s.uses[v] - 1
         /\ \A w \in 1..s.n : w # v => t.uses[w] = s.uses[w]
         /\ \A l \in DOMAIN t.at : l \in DOMAIN s.at /\ t.at[l] = s.at[l]
         /\ \A l \in DOMAIN s.at : l \in DOMAIN t.at <=> ~ (s.uses[v] = 1 /\ s.at[l] = v)
  <1> DEFINE u == [s EXCEPT !.uses[v] = @ - 1]
  <1>1. /\ Shape(u) /\ Frame(s, u) /\ u.at = s.at /\ u.n = s.n /\ u.val = s.val /\ u.mach = s.mach
        /\ u.out = s.out /\ u.right = s.right /\ u.asserts = s.asserts
        /\ u.uses = [s.uses EXCEPT ![v] = s.uses[v] - 1]
    BY DEF Shape, Frame
  <1>2. DecUse(s, v) = IF u.uses[v] = 0 THEN [u EXCEPT !.at = Restrict(u.at, DOMAIN u.at \ Where(u, v))] ELSE u
    BY DEF DecUse
  <1> HIDE DEF u
  <1>3. /\ u.uses[v] = s.uses[v] - 1 /\ Numbered(u)
        /\ \A w \in 1..s.n : w # v => u.uses[w] = s.uses[w]
    BY <1>1 DEF Numbered
  <1>4. s.uses[v] \in Int
    BY DEF Numbered
  <1>5. CASE s.uses[v] = 1
    <2>1. DecUse(s, v) = [u EXCEPT !.at = Restrict(u.at, DOMAIN u.at \ Where(u, v))]
      BY <1>2, <1>3, <1>5
    <2>2. DOMAIN DecUse(s, v).at = {l \in DOMAIN s.at : s.at[l] # v}
      BY <2>1, <1>1, AtDoes DEF Restrict, Where
    <2>3. \A l \in DOMAIN s.at : s.at[l] # v => DecUse(s, v).at[l] = s.at[l]
      BY <2>1, <1>1, AtDoes DEF Restrict, Where
    <2>4. LET t == DecUse(s, v) IN
          /\ Shape(t) /\ SameVars(u, t) /\ t.mach = u.mach
          /\ t.out = u.out /\ t.right = u.right /\ t.asserts = u.asserts
      BY <2>1, <1>1, AtDoes
    <2> QED BY <1>1, <1>3, <1>5, <2>2, <2>3, <2>4 DEF SameVars, Frame, Numbered
  <1>6. CASE s.uses[v] # 1
    <2>1. DecUse(s, v) = u
      BY <1>2, <1>3, <1>4, <1>6
    <2> QED BY <1>1, <1>3, <1>6, <2>1
  <1> QED BY <1>5, <1>6

------------------------------------------------------------------------------
(***************************************************************************)
(* The bookkeeping keeps the rewriter good.  From s to t variables of V    *)
(* may lose locations, and unless guards are still to come the locations L *)
(* may be given up.                                                        *)
(***************************************************************************)
Kept(s, t, V, L) ==
  /\ Frame(s, t) /\ s.n <= t.n
  /\ \A v \in 1..s.n : t.val[v] = s.val[v]
  /\ \A m \in DOMAIN s.at : s.at[m] \in V \/ (m \in L /\ ~ s.guarding)
                            \/ (m \in DOMAIN t.at /\ t.at[m] = s.at[m])

LEMMA KeptTrans ==
  ASSUME NEW s, NEW t, NEW u, NEW V, NEW W, NEW L, NEW M,
         Good(s), Good(t), u.n \in Nat, Kept(s, t, V, L), Kept(t, u, W, M)
  PROVE  Kept(s, u, V \cup W, L \cup M)
  <1>1. s.n \in Nat /\ t.n \in Nat /\ \A m \in DOMAIN s.at : s.at[m] \in 1..s.n
    BY DEF Good, Numbered, Placed
  <1>2. Frame(s, u) /\ s.n <= u.n
    BY <1>1 DEF Kept, Frame
  <1>3. \A v \in 1..s.n : u.val[v] = s.val[v]
    BY <1>1 DEF Kept
  <1>4. t.guarding = s.guarding
    BY DEF Kept, Frame
  <1> QED BY <1>2, <1>3, <1>4 DEF Kept

LEMMA GoodSame ==
  ASSUME NEW s, NEW t, Good(s), Shape(t), SameVars(s, t), t.at = s.at, t.mach = s.mach, t.right
  PROVE  Good(t) /\ Kept(s, t, {}, {}) /\ (OneReg(s) => OneReg(t))
  <1>1. s.n \in Nat
    BY DEF Good, Numbered
  <1>2. Kept(s, t, {}, {})
    BY <1>1 DEF Kept, SameVars
  <1>3. Numbered(t)
    BY DEF Good, Numbered, SameVars
  <1>4. Placed(t)
    BY DEF Good, Placed, SameVars
  <1>5. Holds(t) /\ ConstsApart(t)
    BY DEF Good, Holds, ConstsApart, SameVars
  <1> QED BY <1>2, <1>3, <1>4, <1>5 DEF Good, OneReg

\* Only places that are free are written to.
LEMMA GoodMach ==
  ASSUME NEW s, NEW t, Good(s), Shape(t), SameVars(s, t), t.at = s.at, t.right = s.right,
         NEW l, NEW x, t.mach = [s.mach EXCEPT ![l] = x],
         l \notin DOMAIN s.at \/ x = s.val[s.at[l]]
  PROVE  Good(t) /\ Kept(s, t, {}, {}) /\ (OneReg(s) => OneReg(t))
  <1>1. s.n \in Nat
    BY DEF Good, Numbered
  <1>2. Kept(s, t, {}, {})
    BY <1>1 DEF Kept, SameVars
  <1>3. Numbered(t)
    BY DEF Good, Numbered, SameVars
  <1>4. Placed(t)
    BY DEF Good, Placed, SameVars
  <1>5. Holds(t)
    BY DEF Good, Holds, SameVars, Numbered
  <1>6. ConstsApart(t)
    BY DEF Good, ConstsApart, SameVars
  <1> QED BY <1>2, <1>3, <1>4, <1>5, <1>6 DEF Good, OneReg

\* DecUse takes a constant that has been brought to a register from both.
GoodBut(s, v) ==
  /\ Shape(s) /\ Numbered(s) /\ Placed(s) /\ Holds(s)
  /\ \A l \in DOMAIN s.at : l \notin Places =>
       /\ s.uses[s.at[l]] = 1
       /\ s.at[l] # v => \A m \in DOMAIN s.at : s.at[m] = s.at[l] => m = l

LEMMA GoodIsGoodBut ==
  ASSUME NEW s, Good(s), NEW v
  PROVE  GoodBut(s, v)
  BY DEF Good, GoodBut, ConstsApart

\* A variable gets another place, which holds its value.
LEMMA GoodAdd ==
  ASSUME NEW s, Good(s), NEW v \in 1..s.n, NEW l \in Places, l \notin DOMAIN s.at, s.uses[v] > 0,
         NEW t, Shape(t), SameVars(s, t), t.at = AddLocationToVar(s, v, l).at, t.right = s.right,
         DOMAIN t.mach = Places, t.mach[l] = s.val[v], \A m \in Places : m # l => t.mach[m] = s.mach[m]
  PROVE  /\ GoodBut(t, v) /\ Kept(s, t, {}, {})
         /\ (\A m \in DOMAIN s.at : s.at[m] = v => m \in Places) => Good(t)
         /\ OneReg(s) /\ (l \notin Regs \/ \A m \in DOMAIN s.at : s.at[m] = v => m \notin Regs) => OneReg(t)
  <1>1. /\ DOMAIN t.at = DOMAIN s.at \cup {l} /\ t.at[l] = v
        /\ \A m \in DOMAIN s.at : m # l => t.at[m] = s.at[m]
    BY AddLocationDoes DEF Good
  <1>2. s.n \in Nat
    BY DEF Good, Numbered
  <1>3. Kept(s, t, {}, {})
    BY <1>1, <1>2 DEF Kept, SameVars
  <1>4. Numbered(t)
    BY <1>1 DEF Good, Numbered, SameVars
  <1>5. \A m \in DOMAIN s.at : t.at[m] = s.at[m]
    BY <1>1
  <1>6. Placed(t)
    <2>1. DOMAIN t.at \subseteq Places \cup Consts
      BY <1>1 DEF Good, Placed
    <2>2. \A m \in DOMAIN t.at : t.at[m] \in 1..t.n /\ t.uses[t.at[m]] > 0
      BY <1>1, <1>5 DEF Good, Placed, SameVars
    <2>3. \A w \in 1..t.n : t.uses[w] > 0 => \E m \in DOMAIN t.at : t.at[m] = w
      BY <1>1, <1>5 DEF Good, Placed, SameVars
    <2> QED BY <2>1, <2>2, <2>3 DEF Placed
  <1>7. Holds(t)
    BY <1>1, <1>5 DEF Good, Holds, SameVars
  <1>8. \A m \in DOMAIN t.at : m \notin Places =>
          /\ t.uses[t.at[m]] = 1
          /\ t.at[m] # v => \A k \in DOMAIN t.at : t.at[k] = t.at[m] => k = m
    BY <1>1, <1>5 DEF Good, ConstsApart, SameVars
  <1>9. (\A m \in DOMAIN s.at : s.at[m] = v => m \in Places) => ConstsApart(t)
    BY <1>1, <1>5, <1>8 DEF ConstsApart
  <1>10. OneReg(s) /\ (l \notin Regs \/ \A m \in DOMAIN s.at : s.at[m] = v => m \notin Regs) => OneReg(t)
    BY <1>1, <1>5 DEF OneReg
  <1> QED BY <1>3, <1>4, <1>6, <1>7, <1>8, <1>9, <1>10 DEF Good, GoodBut

\* A variable that is elsewhere too loses a place.
LEMMA GoodRemove ==
  ASSUME NEW s, Good(s), NEW l, NEW k \in DOMAIN s.at, l \in DOMAIN s.at, l # k, s.at[k] = s.at[l]
  PROVE  LET t == RemoveLocationFromVar(s, l) IN
         Good(t) /\ (~ s.guarding => Kept(s, t, {}, {l})) /\ (OneReg(s) => OneReg(t))
  <1> DEFINE t == RemoveLocationFromVar(s, l)
  <1>1. /\ Shape(t) /\ SameVars(s, t) /\ t.mach = s.mach /\ t.out = s.out /\ t.right = s.right
        /\ DOMAIN t.at = DOMAIN s.at \ {l}
        /\ \A m \in DOMAIN t.at : t.at[m] = s.at[m]
    BY RemoveLocationDoes DEF Good
  <1> HIDE DEF t
  <1>2. s.n \in Nat
    BY DEF Good, Numbered
  <1>3. (~ s.guarding => Kept(s, t, {}, {l})) /\ (OneReg(s) => OneReg(t))
    BY <1>1, <1>2 DEF Kept, SameVars, OneReg
  <1>4. Numbered(t)
    BY <1>1 DEF Good, Numbered, SameVars
  <1>5. Placed(t)
    <2>1. DOMAIN t.at \subseteq Places \cup Consts
      BY <1>1 DEF Good, Placed
    <2>2. \A m \in DOMAIN t.at : t.at[m] \in 1..t.n /\ t.uses[t.at[m]] > 0
      BY <1>1 DEF Good, Placed, SameVars
    <2>3. \A w \in 1..t.n : t.uses[w] > 0 => \E m \in DOMAIN t.at : t.at[m] = w
      BY <1>1 DEF Good, Placed, SameVars
    <2> QED BY <2>1, <2>2, <2>3 DEF Placed
  <1>6. Holds(t)
    BY <1>1 DEF Good, Holds, SameVars
  <1>7. ConstsApart(t)
    BY <1>1 DEF Good, ConstsApart, SameVars
  <1> QED BY <1>1, <1>3, <1>4, <1>5, <1>6, <1>7 DEF t, Good

\* A new variable is in a place that was free, and holds its value, or is a constant.
LEMMA GoodCreate ==
  ASSUME NEW s, Good(s), NEW l, NEW x, l \notin DOMAIN s.at, NEW t,
         Shape(t), SameVars(CreateNewVar(s, l, x), t), t.at = CreateNewVar(s, l, x).at, t.right = s.right,
         \/ l \in Places /\ Wrote(s, t, l, x)
         \/ l \in Consts /\ t.mach = s.mach
  PROVE  /\ Good(t) /\ Kept(s, t, {}, {}) /\ (OneReg(s) => OneReg(t))
         /\ t.n = s.n + 1 /\ DOMAIN t.at = DOMAIN s.at \cup {l} /\ t.at[l] = t.n
  <1> USE DEF Wrote
  <1> DEFINE u == CreateNewVar(s, l, x)
  <1>1. /\ Shape(u) /\ Frame(s, u) /\ Numbered(u)
        /\ u.n = s.n + 1
        /\ u.uses[u.n] = 1 /\ \A v \in 1..s.n : u.uses[v] = s.uses[v]
        /\ u.val[u.n] = x /\ \A v \in 1..s.n : u.val[v] = s.val[v]
        /\ DOMAIN u.at = DOMAIN s.at \cup {l} /\ u.at[l] = u.n
        /\ \A m \in DOMAIN s.at : m # l => u.at[m] = s.at[m]
        /\ u.mach = s.mach
    BY CreateNewVarDoes DEF Good
  <1>2. SameVars(u, t) /\ t.at = u.at
    OBVIOUS
  <1> HIDE DEF u
  <1>3. s.n \in Nat /\ \A m \in DOMAIN s.at : s.at[m] \in 1..s.n /\ t.at[m] = s.at[m]
    BY <1>1, <1>2 DEF Good, Numbered, Placed
  <1>4. Numbered(t)
    BY <1>1, <1>2 DEF Good, Numbered, SameVars
  <1>5. Kept(s, t, {}, {})
    BY <1>1, <1>2, <1>3 DEF Kept, SameVars, Frame
  <1>6. OneReg(s) => OneReg(t)
    BY <1>1, <1>2, <1>3 DEF OneReg
  <1>7. Placed(t)
    <2>1. DOMAIN t.at \subseteq Places \cup Consts
      BY <1>1, <1>2 DEF Good, Placed
    <2>2. \A m \in DOMAIN t.at : t.at[m] \in 1..t.n /\ t.uses[t.at[m]] > 0
      BY <1>1, <1>2, <1>3 DEF Good, Placed, SameVars
    <2>3. ASSUME NEW w \in 1..t.n, t.uses[w] > 0 PROVE \E m \in DOMAIN t.at : t.at[m] = w
      <3>1. w = t.n \/ w \in 1..s.n
        BY <1>1, <1>2, <1>3 DEF SameVars
      <3> QED BY <3>1, <2>3, <1>1, <1>2, <1>3 DEF Good, Placed, SameVars
    <2> QED BY <2>1, <2>2, <2>3 DEF Placed
  <1>8. Holds(t)
    <2>1. \A m \in Places : m # l => t.mach[m] = s.mach[m]
      BY DEF Good, Numbered
    <2>2. ASSUME NEW m \in DOMAIN s.at, m \in Places PROVE t.mach[m] = t.val[t.at[m]]
      <3>1. t.val[t.at[m]] = s.val[s.at[m]] /\ m # l
        BY <1>1, <1>2, <1>3, <2>2 DEF SameVars
      <3> QED BY <3>1, <2>1, <2>2 DEF Good, Holds
    <2>3. l \in Places => t.mach[l] = t.val[t.at[l]]
      <3>1. l \in Places => l \in DOMAIN s.mach /\ l \notin Consts
        BY Rewriter2Assumption, RegNames DEF Good, Numbered, Places, Consts, Regs
      <3> QED BY <3>1, <1>1, <1>2 DEF SameVars
    <2> QED BY <2>2, <2>3, <1>1, <1>2 DEF Good, Holds
  <1>9. ConstsApart(t)
    BY <1>1, <1>2, <1>3 DEF Good, ConstsApart, SameVars
  <1> QED BY <1>1, <1>2, <1>4, <1>5, <1>6, <1>7, <1>8, <1>9 DEF Good, SameVars

\* A use is given up.
LEMMA GoodDecUse ==
  ASSUME NEW s, NEW v \in 1..s.n, GoodBut(s, v)
  PROVE  LET t == DecUse(s, v) IN
         /\ Good(t) /\ Kept(s, t, {v}, {}) /\ (OneReg(s) => OneReg(t))
         /\ t.n = s.n /\ t.mach = s.mach /\ t.asserts = s.asserts /\ t.out = s.out
         /\ \A l \in DOMAIN t.at : l \in DOMAIN s.at
  <1> DEFINE t == DecUse(s, v)
  <1>1. /\ Shape(t) /\ Frame(s, t) /\ Numbered(t)
        /\ t.n = s.n /\ t.val = s.val /\ t.mach = s.mach /\ t.out = s.out
        /\ t.right = s.right /\ t.asserts = s.asserts
        /\ t.uses[v] = s.uses[v] - 1
        /\ \A w \in 1..s.n : w # v => t.uses[w] = s.uses[w]
        /\ \A l \in DOMAIN t.at : l \in DOMAIN s.at /\ t.at[l] = s.at[l]
        /\ \A l \in DOMAIN s.at : l \in DOMAIN t.at <=> ~ (s.uses[v] = 1 /\ s.at[l] = v)
    BY DecUseDoes DEF GoodBut
  <1> HIDE DEF t
  <1>2. /\ s.n \in Nat /\ s.uses[v] \in Int
        /\ \A l \in DOMAIN s.at : s.at[l] \in 1..s.n /\ s.uses[s.at[l]] > 0
    BY DEF GoodBut, Numbered, Placed
  <1>3. Kept(s, t, {v}, {})
    BY <1>1, <1>2 DEF Kept
  <1>4. OneReg(s) => OneReg(t)
    BY <1>1 DEF OneReg
  <1>5. Placed(t)
    <2>1. DOMAIN t.at \subseteq Places \cup Consts
      BY <1>1 DEF GoodBut, Placed
    <2>2. ASSUME NEW m \in DOMAIN t.at PROVE t.at[m] \in 1..t.n /\ t.uses[t.at[m]] > 0
      <3>1. CASE t.at[m] = v
        BY <3>1, <1>1, <1>2, <2>2
      <3>2. CASE t.at[m] # v
        BY <3>2, <1>1, <1>2, <2>2
      <3> QED BY <3>1, <3>2
    <2>3. ASSUME NEW w \in 1..t.n, t.uses[w] > 0 PROVE \E m \in DOMAIN t.at : t.at[m] = w
      <3>1. s.uses[w] > 0 /\ ~ (s.uses[v] = 1 /\ w = v)
        BY <1>1, <1>2, <2>3
      <3>2. PICK m \in DOMAIN s.at : s.at[m] = w
        BY <3>1, <2>3, <1>1 DEF GoodBut, Placed
      <3> QED BY <3>1, <3>2, <1>1
    <2> QED BY <2>1, <2>2, <2>3 DEF Placed
  <1>6. Holds(t)
    BY <1>1 DEF GoodBut, Holds
  <1>7. ConstsApart(t)
    <2> SUFFICES ASSUME NEW l \in DOMAIN t.at, l \notin Places
                 PROVE  t.uses[t.at[l]] = 1 /\ \A m \in DOMAIN t.at : t.at[m] = t.at[l] => m = l
      BY DEF ConstsApart
    <2>1. l \in DOMAIN s.at /\ t.at[l] = s.at[l] /\ s.uses[s.at[l]] = 1
      BY <1>1 DEF GoodBut
    <2>2. s.at[l] # v
      BY <2>1, <1>1
    <2> QED BY <2>1, <2>2, <1>1, <1>2 DEF GoodBut
  <1> QED BY <1>1, <1>3, <1>4, <1>5, <1>6, <1>7 DEF t, Good

------------------------------------------------------------------------------
(***************************************************************************)
(* Allocation.                                                             *)
(***************************************************************************)
LEMMA PlaceFacts ==
  /\ Regs \subseteq Places /\ Range(XMMs) \subseteq Places /\ Range(Scratch) \subseteq Places
  /\ Callees \subseteq Regs /\ Range(ForArg) \subseteq Regs \ Callees /\ "RAX" \in Regs \ Callees /\ "R11" \in Regs \ Callees
  /\ Regs \cap Range(Scratch) = {} /\ Regs \cap Range(XMMs) = {} /\ Range(XMMs) \cap Range(Scratch) = {}
  /\ AnyReg \notin Places /\ AnyReg \notin Consts /\ Places \cap Consts = {}
  /\ CallClobbers = (Regs \ Callees) \cup Range(XMMs)
  /\ Places = Regs \cup Range(XMMs) \cup Range(Scratch)
  BY Rewriter2Assumption, RegNames DEF Places, Consts, AnyReg, Regs, Callees, CallClobbers

LEMMA SpillToFacts ==
  ASSUME NEW reg
  PROVE  /\ SpillTo(reg) \in Seq(Callees \cup Range(Scratch))
         /\ reg \in Range(XMMs) => SpillTo(reg) \in Seq(Range(Scratch))
  <1>1. CalleeSaves \in Seq(Callees)
    BY RegNames DEF CalleeSaves
  <1>2. Scratch \in Seq(Range(Scratch))
    BY Rewriter2Assumption DEF Range
  <1>3. <<>> \o Scratch = Scratch
    BY <1>2
  <1>4. Scratch \in Seq(Callees \cup Range(Scratch)) /\ CalleeSaves \in Seq(Callees \cup Range(Scratch))
    BY <1>1, <1>2
  <1>5. CalleeSaves \o Scratch \in Seq(Callees \cup Range(Scratch))
    BY <1>4
  <1> QED BY <1>2, <1>3, <1>4, <1>5 DEF SpillTo

LEMMA FirstFreeIsFree ==
  ASSUME NEW s, NEW S, NEW locations \in Seq(S), Free(s, locations) # {}
  PROVE  FirstFree(s, locations) \in S /\ FirstFree(s, locations) \notin DOMAIN s.at
  <1>1. Free(s, locations) \in SUBSET Nat
    BY DEF Free
  <1>2. Min(Free(s, locations)) \in Free(s, locations)
    BY <1>1, MinIsIn
  <1>3. PICK i \in 1..Len(locations) : i = Min(Free(s, locations)) /\ locations[i] \notin DOMAIN s.at
    BY <1>2 DEF Free
  <1> QED BY <1>3 DEF FirstFree

\* What was in reg is in l, which was free.
LEMMA SpillDoes ==
  ASSUME NEW s, Good(s), NEW reg \in DOMAIN s.at, reg \in Regs \cup Range(XMMs), SpillRegister(s, reg).asserts
  PROVE  LET t == SpillRegister(s, reg) IN
         /\ s.asserts /\ ~ s.guarding /\ Good(t) /\ Kept(s, t, {}, {reg}) /\ (OneReg(s) => OneReg(t))
         /\ t.n = s.n
         /\ \E l \in Callees \cup Range(Scratch) :
              /\ l \notin DOMAIN s.at /\ DOMAIN t.at = (DOMAIN s.at \ {reg}) \cup {l}
              /\ \A m \in Places : m # l => t.mach[m] = s.mach[m]
  <1> DEFINE c == /\ ~ s.guarding /\ Free(s, SpillTo(reg)) # {}
                  /\ reg \in Range(XMMs) => Where(s, s.at[reg]) = {reg}
             t == Check(s, c)
             l == FirstFree(s, SpillTo(reg))
             m == Mov(t, reg, l)
             a == AddLocationToVar(m, t.at[reg], l)
             r == RemoveLocationFromVar(a, reg)
  <1>0. reg \in Places
    BY PlaceFacts
  <1>1. /\ Shape(t) /\ SameVars(s, t) /\ t.at = s.at /\ t.mach = s.mach
        /\ t.right = s.right /\ t.asserts = (s.asserts /\ c)
    BY CheckDoes DEF Good
  <1>2. SpillRegister(s, reg) = IF ~ t.asserts THEN t ELSE r
    BY DEF SpillRegister
  <1> HIDE DEF r, t
  <1>3. t.asserts /\ s.asserts /\ c
    BY <1>1, <1>2
  <1>4. /\ l \in Callees \cup Range(Scratch) /\ l \notin DOMAIN s.at /\ l \in Places /\ l # reg
        /\ reg \in Range(XMMs) => l \in Range(Scratch)
    <2>1. l \in Callees \cup Range(Scratch) /\ l \notin DOMAIN s.at
      BY <1>3, SpillToFacts, FirstFreeIsFree
    <2>2. reg \in Range(XMMs) => l \in Range(Scratch)
      BY <1>3, SpillToFacts, FirstFreeIsFree
    <2> QED BY <2>1, <2>2, PlaceFacts
  <1> HIDE DEF l, c
  <1>5. Good(t) /\ Kept(s, t, {}, {}) /\ (OneReg(s) => OneReg(t))
    BY <1>1, GoodSame DEF Good, Holds
  <1>6. /\ Shape(m) /\ SameVars(t, m) /\ m.at = t.at /\ m.mach = [t.mach EXCEPT ![l] = t.mach[reg]]
        /\ m.right = t.right
    BY <1>1, MachDoes DEF Mov
  <1> HIDE DEF m
  <1>7. Good(m) /\ Kept(t, m, {}, {}) /\ (OneReg(t) => OneReg(m))
    BY <1>1, <1>4, <1>5, <1>6, GoodMach
  <1>8. /\ m.at = s.at /\ SameVars(s, m) /\ m.mach[l] = m.val[t.at[reg]]
        /\ \A k \in Places : k # l => m.mach[k] = s.mach[k]
    BY <1>0, <1>1, <1>4, <1>6 DEF Good, Holds, Numbered, SameVars, Frame
  <1>9. t.at[reg] \in 1..m.n /\ m.uses[t.at[reg]] > 0
    BY <1>7, <1>8, <1>1 DEF Good, Placed
  <1>10. \A k \in DOMAIN s.at : s.at[k] = s.at[reg] => k \in Places
    BY <1>0 DEF Good, ConstsApart
  <1>11. /\ Shape(a) /\ SameVars(m, a) /\ a.mach = m.mach
         /\ DOMAIN a.at = DOMAIN s.at \cup {l} /\ a.at[l] = s.at[reg]
         /\ \A k \in DOMAIN s.at : a.at[k] = s.at[k]
    BY <1>1, <1>4, <1>6, <1>8, AddLocationDoes
  <1>12. Good(a) /\ Kept(m, a, {}, {})
    <2>1. a.right = m.right /\ a.at = AddLocationToVar(m, t.at[reg], l).at
      BY <1>1, <1>4, <1>6, <1>8, AddLocationDoes
    <2>2. DOMAIN a.mach = Places /\ a.mach[l] = m.val[t.at[reg]]
      BY <1>7, <1>8, <1>11 DEF Good, Numbered
    <2>3. m.at[reg] = t.at[reg] /\ \A k \in DOMAIN m.at : m.at[k] = t.at[reg] => k \in Places
      BY <1>1, <1>8, <1>10
    <2>4. l \notin DOMAIN m.at
      BY <1>4, <1>8
    <2> HIDE DEF a
    <2> QED BY <1>4, <1>7, <1>9, <1>11, <2>1, <2>2, <2>3, <2>4, GoodAdd
  <1> HIDE DEF a
  <1>13. /\ Shape(r) /\ SameVars(a, r) /\ r.mach = a.mach
         /\ DOMAIN r.at = DOMAIN a.at \ {reg}
         /\ \A k \in DOMAIN r.at : r.at[k] = a.at[k]
    BY <1>11, RemoveLocationDoes DEF r
  <1>14. Good(r)
    BY <1>4, <1>11, <1>12, GoodRemove DEF r
  <1>15. SameVars(s, r)
    BY <1>8, <1>11, <1>13 DEF SameVars, Frame
  <1>16. ~ s.guarding
    BY <1>3 DEF c
  <1>17. Kept(s, r, {}, {reg})
    <2>1. s.n \in Nat
      BY DEF Good, Numbered
    <2> QED BY <2>1, <1>15, <1>16, <1>11, <1>13 DEF Kept, SameVars
  <1>18. OneReg(s) => OneReg(r)
    <2>1. l \in Regs => reg \in Regs
      <3>1. l \in Regs => l \notin Range(Scratch)
        BY PlaceFacts
      <3>2. reg \in Range(XMMs) => l \in Range(Scratch)
        BY <1>4
      <3> QED BY <3>1, <3>2
    <2>2. ASSUME OneReg(s), NEW i \in DOMAIN r.at, NEW j \in DOMAIN r.at, i \in Regs, j \in Regs, r.at[i] = r.at[j]
          PROVE  i = j
      <3>1. \A k \in DOMAIN r.at :
              \/ k = l /\ r.at[k] = s.at[reg]
              \/ k \in DOMAIN s.at /\ k # reg /\ r.at[k] = s.at[k]
        <4> SUFFICES ASSUME NEW k \in DOMAIN r.at
                     PROVE  (k = l /\ r.at[k] = s.at[reg]) \/ (k \in DOMAIN s.at /\ k # reg /\ r.at[k] = s.at[k])
          OBVIOUS
        <4>1. k \in DOMAIN a.at /\ k # reg /\ r.at[k] = a.at[k]
          BY <1>13
        <4>2. CASE k = l
          BY <4>1, <4>2, <1>11
        <4>3. CASE k \in DOMAIN s.at
          BY <4>1, <4>3, <1>11
        <4> QED BY <4>1, <4>2, <4>3, <1>11
      <3> QED BY <2>1, <2>2, <3>1 DEF OneReg
    <2> QED BY <2>2 DEF OneReg
  <1>19. SpillRegister(s, reg) = r
    BY <1>2, <1>3
  <1>20. DOMAIN r.at = (DOMAIN s.at \ {reg}) \cup {l} /\ \A k \in Places : k # l => r.mach[k] = s.mach[k]
    BY <1>4, <1>8, <1>11, <1>13
  <1> QED BY <1>3, <1>4, <1>14, <1>15, <1>16, <1>17, <1>18, <1>19, <1>20 DEF SameVars

LEMMA KeptMore ==
  ASSUME NEW s, NEW t, NEW V, NEW L, NEW W, NEW M, Kept(s, t, V, L), V \subseteq W, L \subseteq M
  PROVE  Kept(s, t, W, M)
  BY DEF Kept

LEMMA AllocFree ==
  ASSUME NEW s, Good(s), NEW dest \in Places \cup {AnyReg}, dest \notin DOMAIN s.at, AllocReg(s, dest).asserts
  PROVE  LET t == AllocReg(s, dest) IN
         /\ s.asserts /\ Shape(t) /\ SameVars(s, t) /\ t.at = s.at /\ t.mach = s.mach /\ t.right = s.right
         /\ t.out \in Places /\ t.out \notin DOMAIN s.at
         /\ IF dest = AnyReg THEN t.out \in Regs ELSE t.out = dest
  <1> DEFINE c == dest # AnyReg \/ Free(s, allocatable_regs) # {}
             u == Check(s, c)
             r == IF dest = AnyReg THEN FirstFree(s, allocatable_regs) ELSE dest
             t == [u EXCEPT !.out = r]
  <1>1. AllocReg(s, dest) = IF ~ u.asserts THEN u ELSE t
    BY DEF AllocReg
  <1>2. /\ Shape(u) /\ SameVars(s, u) /\ u.at = s.at /\ u.mach = s.mach
        /\ u.right = s.right /\ u.asserts = (s.asserts /\ c)
    BY CheckDoes DEF Good
  <1> HIDE DEF u
  <1>3. u.asserts /\ s.asserts /\ c
    BY <1>1, <1>2
  <1>4. allocatable_regs \in Seq(Regs)
    BY RegNames DEF allocatable_regs
  <1>5. dest = AnyReg => r \in Regs /\ r \notin DOMAIN s.at
    BY <1>3, <1>4, FirstFreeIsFree
  <1> HIDE DEF r, c
  <1>6. Shape(t) /\ SameVars(u, t) /\ t.at = u.at /\ t.mach = u.mach /\ t.out = r /\ t.right = u.right
    BY <1>2, OutDoes
  <1> HIDE DEF t
  <1>7. dest # AnyReg => r = dest
    BY DEF r
  <1>8. r \in Places /\ r \notin DOMAIN s.at
    BY <1>5, <1>7, PlaceFacts
  <1> QED BY <1>1, <1>2, <1>3, <1>5, <1>6, <1>7, <1>8 DEF SameVars, Frame

\* The register that allocReg returns is free, perhaps because it has been spilled.
LEMMA AllocDoes ==
  ASSUME NEW s, Good(s), NEW dest \in Regs \cup {AnyReg}, AllocReg(s, dest).asserts
  PROVE  LET t == AllocReg(s, dest) IN
         /\ s.asserts /\ Good(t) /\ Kept(s, t, {}, {dest}) /\ (OneReg(s) => OneReg(t))
         /\ t.n = s.n
         /\ t.out \in Regs /\ t.out \notin DOMAIN t.at /\ (dest # AnyReg => t.out = dest)
         /\ Callees \subseteq DOMAIN s.at => \A m \in Regs : t.mach[m] = s.mach[m]
         /\ \A l \in DOMAIN t.at : l \in DOMAIN s.at \/ l \in Callees \/ l \in Range(Scratch)
  <1>1. CASE dest \notin DOMAIN s.at
    <2> DEFINE t == AllocReg(s, dest)
    <2>1. /\ s.asserts /\ Shape(t) /\ SameVars(s, t) /\ t.at = s.at /\ t.mach = s.mach /\ t.right = s.right
          /\ t.out \in Places /\ t.out \notin DOMAIN s.at
          /\ IF dest = AnyReg THEN t.out \in Regs ELSE t.out = dest
      BY <1>1, AllocFree, PlaceFacts
    <2> HIDE DEF t
    <2>2. Good(t) /\ Kept(s, t, {}, {}) /\ (OneReg(s) => OneReg(t))
      BY <2>1, GoodSame DEF Good, Holds
    <2>3. Kept(s, t, {}, {dest})
      BY <2>2, KeptMore
    <2> QED BY <2>1, <2>2, <2>3, <1>1 DEF t, SameVars
  <1>2. CASE dest \in DOMAIN s.at
    <2> DEFINE u == SpillRegister(s, dest)
               t == [u EXCEPT !.out = dest]
    <2>1. dest # AnyReg /\ dest \in Regs
      BY <1>2, PlaceFacts DEF Good, Placed
    <2>2. AllocReg(s, dest) = IF ~ u.asserts THEN u ELSE t
      BY <1>2, <2>1 DEF AllocReg
    <2>3. u.asserts
      BY <2>2
    <2>4. /\ s.asserts /\ Good(u) /\ Kept(s, u, {}, {dest}) /\ (OneReg(s) => OneReg(u)) /\ u.n = s.n
          /\ \E l \in Callees \cup Range(Scratch) :
               /\ l \notin DOMAIN s.at /\ DOMAIN u.at = (DOMAIN s.at \ {dest}) \cup {l}
               /\ \A m \in Places : m # l => u.mach[m] = s.mach[m]
      BY <2>3, <2>1, <1>2, SpillDoes
    <2> HIDE DEF u
    <2>5. /\ Shape(t) /\ SameVars(u, t) /\ t.at = u.at /\ t.mach = u.mach /\ t.out = dest /\ t.right = u.right
      BY <2>4, OutDoes DEF Good
    <2> HIDE DEF t
    <2>6. Good(t) /\ Kept(u, t, {}, {}) /\ (OneReg(u) => OneReg(t))
      BY <2>4, <2>5, GoodSame DEF Good, Holds
    <2>7. Kept(s, t, {}, {dest})
      <3>1. t.n \in Nat /\ {} \cup {} = {} /\ {dest} \cup {} = {dest}
        BY <2>6 DEF Good, Numbered
      <3>2. Kept(s, t, {} \cup {}, {dest} \cup {})
        BY <3>1, <2>4, <2>6, KeptTrans
      <3> QED BY <3>1, <3>2
    <2>8. PICK l \in Callees \cup Range(Scratch) :
               /\ l \notin DOMAIN s.at /\ DOMAIN u.at = (DOMAIN s.at \ {dest}) \cup {l}
               /\ \A m \in Places : m # l => u.mach[m] = s.mach[m]
      BY <2>4
    <2>9. Callees \subseteq DOMAIN s.at => \A m \in Regs : t.mach[m] = s.mach[m]
      BY <2>5, <2>8, PlaceFacts
    <2>10. dest \notin DOMAIN t.at
      BY <2>5, <2>8, <2>1, <1>2
    <2>11. \A k \in DOMAIN t.at : k \in DOMAIN s.at \/ k \in Callees \/ k \in Range(Scratch)
      BY <2>5, <2>8
    <2> QED BY <2>1, <2>2, <2>3, <2>4, <2>5, <2>6, <2>7, <2>9, <2>10, <2>11 DEF SameVars
  <1> QED BY <1>1, <1>2

\* The value of a variable is copied to a free place.
LEMMA CopyDoes ==
  ASSUME NEW s, Good(s), NEW src \in DOMAIN s.at, src \in Places, NEW dst \in Places, dst \notin DOMAIN s.at,
         NEW v, v = s.at[src]
  PROVE  LET t == AddLocationToVar(Mov(s, src, dst), v, dst) IN
         /\ Good(t) /\ Kept(s, t, {}, {}) /\ t.n = s.n /\ t.asserts = s.asserts /\ t.out = s.out
         /\ DOMAIN t.at = DOMAIN s.at \cup {dst} /\ t.at[dst] = v
         /\ \A m \in Places : m # dst => t.mach[m] = s.mach[m]
         /\ OneReg(s) /\ (dst \notin Regs \/ \A m \in DOMAIN s.at : s.at[m] = v => m \notin Regs) => OneReg(t)
  <1> DEFINE m == Mov(s, src, dst)
             t == AddLocationToVar(m, v, dst)
  <1>1. /\ Shape(m) /\ SameVars(s, m) /\ m.at = s.at /\ m.mach = [s.mach EXCEPT ![dst] = s.mach[src]]
        /\ m.right = s.right /\ m.asserts = s.asserts /\ m.out = s.out
    BY MachDoes DEF Mov, Good
  <1> HIDE DEF m
  <1>2. Good(m) /\ Kept(s, m, {}, {}) /\ (OneReg(s) => OneReg(m))
    BY <1>1, GoodMach
  <1>3. m.mach[dst] = m.val[v] /\ \A k \in Places : k # dst => m.mach[k] = s.mach[k]
    BY <1>1 DEF Good, Holds, Numbered, SameVars
  <1>4. v \in 1..m.n /\ m.uses[v] > 0 /\ \A k \in DOMAIN s.at : s.at[k] = v => k \in Places
    BY <1>1 DEF Good, Placed, ConstsApart, SameVars
  <1>5. /\ Shape(t) /\ SameVars(m, t) /\ t.mach = m.mach /\ t.out = m.out
        /\ DOMAIN t.at = DOMAIN s.at \cup {dst} /\ t.at[dst] = v /\ t.asserts = (m.asserts /\ dst \notin DOMAIN m.at)
    BY <1>1, AddLocationDoes
  <1>6. /\ Good(t) /\ Kept(m, t, {}, {})
        /\ OneReg(m) /\ (dst \notin Regs \/ \A k \in DOMAIN s.at : s.at[k] = v => k \notin Regs) => OneReg(t)
    <2>1. t.right = m.right /\ t.at = AddLocationToVar(m, v, dst).at
      BY <1>1, AddLocationDoes
    <2>2. DOMAIN t.mach = Places /\ t.mach[dst] = m.val[v]
      BY <1>2, <1>3, <1>5 DEF Good, Numbered
    <2> HIDE DEF t
    <2> QED BY <1>1, <1>2, <1>3, <1>4, <1>5, <2>1, <2>2, GoodAdd
  <1> HIDE DEF t
  <1>7. Kept(s, t, {}, {})
    <2>1. t.n \in Nat /\ {} \cup {} = {}
      BY <1>6 DEF Good, Numbered
    <2>2. Kept(s, t, {} \cup {}, {} \cup {})
      BY <2>1, <1>2, <1>6, KeptTrans
    <2> QED BY <2>1, <2>2
  <1>8. t.asserts = s.asserts
    BY <1>1, <1>5 DEF Good, Shape
  <1> QED BY <1>1, <1>2, <1>3, <1>5, <1>6, <1>7, <1>8 DEF m, t, SameVars

\* getInReg copies if it must, and returns a place that is recorded for the variable.
LEMMA GetInRegDoes ==
  ASSUME NEW s, Good(s), NEW v, NEW dest \in Regs \cup Range(XMMs) \cup {AnyReg}, dest \notin DOMAIN s.at,
         GetInReg(s, v, dest).asserts
  PROVE  LET t == GetInReg(s, v, dest) IN
         /\ s.asserts /\ Good(t) /\ Kept(s, t, {}, {}) /\ t.n = s.n
         /\ t.out \in DOMAIN t.at /\ t.at[t.out] = v
         /\ IF dest = AnyReg THEN t.out \in Regs /\ (OneReg(s) => OneReg(t)) ELSE t.out = dest
         /\ \A m \in Places : m # t.out \/ m \in DOMAIN s.at => t.mach[m] = s.mach[m]
         /\ \A l \in DOMAIN s.at : s.at[l] = v => l \in Places
  <1> DEFINE bank == IF dest \in Range(XMMs) THEN Range(XMMs) ELSE Regs
             where == Where(s, v)
             regs == where \cap bank
             reg == CHOOSE r \in regs : TRUE
             word == CHOOSE l \in where : TRUE
             t == AllocReg(s, dest)
             copied == [AddLocationToVar(Mov(s, reg, dest), v, dest) EXCEPT !.out = dest]
             loaded == AddLocationToVar(Mov(t, word, t.out), v, t.out)
             g == GetInReg(s, v, dest)
  <1>1. g = IF where = {} \/ ~ where \subseteq Places THEN Check(s, FALSE)
            ELSE IF dest \in regs THEN [s EXCEPT !.out = dest]
            ELSE IF regs # {} /\ dest = AnyReg THEN [s EXCEPT !.out = reg]
            ELSE IF regs # {} THEN copied
            ELSE IF where # {word} \/ word \notin Range(Scratch) THEN Check(s, FALSE)
            ELSE IF ~ t.asserts THEN t
            ELSE loaded
    BY DEF GetInReg, Regs
  <1>2. ~ Check(s, FALSE).asserts
    BY CheckDoes DEF Good
  <1>3. \A l : l \in where <=> l \in DOMAIN s.at /\ s.at[l] = v
    BY DEF Where
  <1>4. dest \notin regs
    BY <1>3
  <1>5. dest \in Places \cup {AnyReg} /\ bank \subseteq Places
    BY PlaceFacts
  <1>6. regs # {} => reg \in regs
    OBVIOUS
  <1>7. where # {} => word \in where
    OBVIOUS
  <1>8. AnyReg \notin Range(XMMs) /\ AnyReg \notin Regs
    BY PlaceFacts
  <1>0. g.asserts
    OBVIOUS
  <1> HIDE DEF where, bank, regs, reg, word, copied, loaded, g, t
  <1>9. where # {} /\ where \subseteq Places
    BY <1>0, <1>1, <1>2
  <1>10. CASE regs # {} /\ dest = AnyReg
    <2>1. g = [s EXCEPT !.out = reg]
      BY <1>1, <1>4, <1>9, <1>10
    <2>2. /\ Shape(g) /\ SameVars(s, g) /\ g.at = s.at /\ g.mach = s.mach /\ g.out = reg
          /\ g.right = s.right /\ g.asserts = s.asserts
      BY <2>1, OutDoes DEF Good
    <2>3. Good(g) /\ Kept(s, g, {}, {}) /\ (OneReg(s) => OneReg(g))
      BY <2>2, GoodSame DEF Good, Holds
    <2>4. reg \in where /\ reg \in Regs
      BY <1>6, <1>8, <1>10 DEF regs, bank
    <2> QED BY <2>2, <2>3, <2>4, <1>3, <1>9, <1>10 DEF SameVars, g
  <1>11. CASE regs # {} /\ dest # AnyReg
    <2> DEFINE c == AddLocationToVar(Mov(s, reg, dest), v, dest)
    <2>1. g = [c EXCEPT !.out = dest]
      BY <1>1, <1>4, <1>9, <1>11 DEF copied
    <2>2. reg \in where /\ reg \in Places
      BY <1>6, <1>9, <1>11 DEF regs
    <2>3. /\ Good(c) /\ Kept(s, c, {}, {}) /\ c.n = s.n /\ c.asserts = s.asserts
          /\ DOMAIN c.at = DOMAIN s.at \cup {dest} /\ c.at[dest] = v
          /\ \A m \in Places : m # dest => c.mach[m] = s.mach[m]
      BY <2>2, <1>3, <1>5, <1>11, CopyDoes
    <2> HIDE DEF c
    <2>4. /\ Shape(g) /\ SameVars(c, g) /\ g.at = c.at /\ g.mach = c.mach /\ g.out = dest
          /\ g.right = c.right /\ g.asserts = c.asserts
      BY <2>1, <2>3, OutDoes DEF Good
    <2>7. g.right
      BY <2>3, <2>4 DEF Good, Holds
    <2>5. Good(g) /\ Kept(c, g, {}, {})
      BY <2>3, <2>4, <2>7, GoodSame
    <2>6. Kept(s, g, {}, {})
      <3>1. g.n \in Nat /\ {} \cup {} = {}
        BY <2>5 DEF Good, Numbered
      <3>2. Kept(s, g, {} \cup {}, {} \cup {})
        BY <3>1, <2>3, <2>5, KeptTrans
      <3> QED BY <3>1, <3>2
    <2> QED BY <2>3, <2>4, <2>5, <2>6, <1>3, <1>9, <1>11 DEF SameVars, g
  <1>12. CASE regs = {}
    <2>1. where = {word} /\ word \in Range(Scratch) /\ t.asserts /\ g = loaded
      BY <1>0, <1>1, <1>2, <1>4, <1>9, <1>12
    <2>2. /\ s.asserts /\ Shape(t) /\ SameVars(s, t) /\ t.at = s.at /\ t.mach = s.mach /\ t.right = s.right
          /\ t.out \in Places /\ t.out \notin DOMAIN s.at
          /\ IF dest = AnyReg THEN t.out \in Regs ELSE t.out = dest
      BY <2>1, <1>5, AllocFree DEF t
    <2>3. Good(t) /\ Kept(s, t, {}, {}) /\ (OneReg(s) => OneReg(t))
      BY <2>2, GoodSame DEF Good, Holds
    <2>4. word \in DOMAIN t.at /\ word \in Places /\ v = t.at[word]
      BY <2>1, <2>2, <1>3, <1>9
    <2>5. /\ Good(g) /\ Kept(t, g, {}, {}) /\ g.n = t.n /\ g.out = t.out
          /\ DOMAIN g.at = DOMAIN t.at \cup {t.out} /\ g.at[t.out] = v
          /\ \A m \in Places : m # t.out => g.mach[m] = t.mach[m]
          /\ OneReg(t) /\ (t.out \notin Regs \/ \A m \in DOMAIN t.at : t.at[m] = v => m \notin Regs) => OneReg(g)
      BY <2>1, <2>2, <2>3, <2>4, CopyDoes DEF loaded
    <2>6. Kept(s, g, {}, {})
      <3>1. g.n \in Nat /\ {} \cup {} = {}
        BY <2>5 DEF Good, Numbered
      <3>2. Kept(s, g, {} \cup {}, {} \cup {})
        BY <3>1, <2>3, <2>5, KeptTrans
      <3> QED BY <3>1, <3>2
    <2>7. \A m \in DOMAIN t.at : t.at[m] = v => m \notin Regs
      BY <2>1, <2>2, <1>3, PlaceFacts
    <2>8. dest = AnyReg /\ OneReg(s) => OneReg(g)
      BY <2>3, <2>5, <2>7
    <2>9. \A l \in DOMAIN s.at : s.at[l] = v => l \in Places
      BY <1>3, <1>9
    <2>10. g.n = s.n
      BY <2>2, <2>5 DEF SameVars
    <2>11. \A m \in Places : m # g.out \/ m \in DOMAIN s.at => g.mach[m] = s.mach[m]
      BY <2>2, <2>5
    <2>12. g.out \in DOMAIN g.at /\ g.at[g.out] = v
      BY <2>5
    <2> QED BY <2>2, <2>5, <2>6, <2>8, <2>9, <2>10, <2>11, <2>12 DEF g
  <1> QED BY <1>10, <1>11, <1>12

------------------------------------------------------------------------------
(***************************************************************************)
(* The operations of the interface.                                        *)
(***************************************************************************)
Sound(s, t, V, L) == Good(t) /\ Kept(s, t, V, L) /\ (OneReg(s) => OneReg(t))

LEMMA SoundTrans ==
  ASSUME NEW s, Good(s), NEW t, NEW u, NEW V, NEW L, NEW W, NEW M, Sound(s, t, V, L), Sound(t, u, W, M)
  PROVE  Sound(s, u, V \cup W, L \cup M)
  <1>1. u.n \in Nat
    BY DEF Sound, Good, Numbered
  <1> QED BY <1>1, KeptTrans DEF Sound

LEMMA SoundThen ==
  ASSUME NEW s, Good(s), NEW t, NEW u, NEW V, NEW L, Sound(s, t, {}, {}), Sound(t, u, V, L)
  PROVE  Sound(s, u, V, L)
  <1>1. {} \cup V = V /\ {} \cup L = L
    OBVIOUS
  <1> QED BY <1>1, SoundTrans

LEMMA ThenSound ==
  ASSUME NEW s, Good(s), NEW t, NEW u, NEW V, NEW L, Sound(s, t, V, L), Sound(t, u, {}, {})
  PROVE  Sound(s, u, V, L)
  <1>1. V \cup {} = V /\ L \cup {} = L
    OBVIOUS
  <1> QED BY <1>1, SoundTrans

LEMMA SoundCheck ==
  ASSUME NEW s, Good(s), NEW c \in BOOLEAN
  PROVE  LET t == Check(s, c) IN
         /\ Sound(s, t, {}, {}) /\ t.n = s.n /\ t.at = s.at /\ t.mach = s.mach /\ t.out = s.out /\ t.uses = s.uses
         /\ t.val = s.val /\ t.guarding = s.guarding
         /\ t.asserts => s.asserts /\ c
  <1>1. LET t == Check(s, c) IN
         /\ Shape(t) /\ SameVars(s, t) /\ t.at = s.at /\ t.mach = s.mach /\ t.out = s.out
         /\ t.right = s.right /\ t.asserts = (s.asserts /\ c)
    BY CheckDoes DEF Good
  <1>2. Check(s, c).right
    BY <1>1 DEF Good, Holds
  <1> QED BY <1>1, <1>2, GoodSame DEF Sound, SameVars, Frame

LEMMA SoundOperand ==
  ASSUME NEW s, Good(s), NEW r \in DOMAIN s.at, r \in Places, NEW v, v = s.at[r]
  PROVE  LET t == Operand(s, r, v) IN
         /\ Sound(s, t, {}, {}) /\ t.n = s.n /\ t.at = s.at /\ t.mach = s.mach /\ t.out = s.out /\ t.uses = s.uses
         /\ t.asserts = s.asserts
  <1>1. LET t == Operand(s, r, v) IN
         /\ Shape(t) /\ SameVars(s, t) /\ t.at = s.at /\ t.mach = s.mach /\ t.out = s.out
         /\ t.asserts = s.asserts /\ t.right = (s.right /\ s.mach[r] = s.val[v])
    BY OperandDoes DEF Good
  <1>2. Operand(s, r, v).right
    BY <1>1 DEF Good, Holds
  <1> QED BY <1>1, <1>2, GoodSame DEF Sound, SameVars

LEMMA SoundDecUse ==
  ASSUME NEW s, Good(s), NEW v \in 1..s.n
  PROVE  LET t == DecUse(s, v) IN
         /\ Sound(s, t, {v}, {}) /\ t.n = s.n /\ t.mach = s.mach /\ t.asserts = s.asserts /\ t.out = s.out
         /\ \A l \in DOMAIN t.at : l \in DOMAIN s.at
  BY GoodIsGoodBut, GoodDecUse DEF Sound

LEMMA SoundGetInReg ==
  ASSUME NEW s, Good(s), NEW v, GetInReg(s, v, AnyReg).asserts
  PROVE  LET t == GetInReg(s, v, AnyReg) IN
         /\ s.asserts /\ Sound(s, t, {}, {}) /\ t.n = s.n
         /\ t.out \in DOMAIN t.at /\ t.out \in Regs /\ t.out \in Places /\ t.at[t.out] = v /\ v \in 1..s.n
         /\ \A l \in DOMAIN s.at : s.at[l] = v => l \in Places
  <1>1. AnyReg \notin DOMAIN s.at
    BY PlaceFacts DEF Good, Placed
  <1> DEFINE t == GetInReg(s, v, AnyReg)
  <1>2. /\ s.asserts /\ Good(t) /\ Kept(s, t, {}, {}) /\ t.n = s.n
        /\ t.out \in DOMAIN t.at /\ t.at[t.out] = v
        /\ t.out \in Regs /\ (OneReg(s) => OneReg(t))
        /\ \A l \in DOMAIN s.at : s.at[l] = v => l \in Places
    BY <1>1, GetInRegDoes
  <1> HIDE DEF t
  <1>3. t.out \in Places /\ v \in 1..s.n
    BY <1>2, PlaceFacts DEF Good, Placed
  <1> QED BY <1>2, <1>3 DEF t, Sound

\* An assertion that has failed stays failed.
LEMMA SpillStops ==
  ASSUME NEW s, Shape(s), NEW reg
  PROVE  Shape(SpillRegister(s, reg)) /\ (SpillRegister(s, reg).asserts => s.asserts)
  <1> DEFINE c == /\ ~ s.guarding /\ Free(s, SpillTo(reg)) # {}
                  /\ reg \in Range(XMMs) => Where(s, s.at[reg]) = {reg}
             t == Check(s, c)
             l == FirstFree(s, SpillTo(reg))
             m == Mov(t, reg, l)
             a == AddLocationToVar(m, t.at[reg], l)
             r == RemoveLocationFromVar(a, reg)
  <1>1. SpillRegister(s, reg) = IF ~ t.asserts THEN t ELSE r
    BY DEF SpillRegister
  <1>2. Shape(t) /\ t.asserts = (s.asserts /\ c)
    BY CheckDoes
  <1> HIDE DEF t, c, l
  <1>3. Shape(m) /\ m.asserts = t.asserts
    BY <1>2, MachDoes DEF Mov
  <1> HIDE DEF m
  <1>4. Shape(a) /\ (a.asserts => m.asserts)
    BY <1>3, AddLocationDoes
  <1> HIDE DEF a
  <1>5. Shape(r) /\ r.asserts = a.asserts
    BY <1>4, RemoveLocationDoes
  <1> HIDE DEF r
  <1> QED BY <1>1, <1>2, <1>3, <1>4, <1>5

LEMMA AllocStops ==
  ASSUME NEW s, Shape(s), NEW dest
  PROVE  Shape(AllocReg(s, dest)) /\ (AllocReg(s, dest).asserts => s.asserts)
  <1> DEFINE c == dest # AnyReg \/ Free(s, allocatable_regs) # {}
             t == IF dest \in DOMAIN s.at THEN SpillRegister(s, dest) ELSE Check(s, c)
             r == IF dest = AnyReg THEN FirstFree(s, allocatable_regs) ELSE dest
             u == [t EXCEPT !.out = r]
  <1>1. AllocReg(s, dest) = IF ~ t.asserts THEN t ELSE u
    BY DEF AllocReg
  <1>2. Shape(Check(s, c)) /\ (Check(s, c).asserts => s.asserts)
    BY CheckDoes
  <1>3. Shape(t) /\ (t.asserts => s.asserts)
    BY <1>2, SpillStops
  <1> HIDE DEF t, r
  <1>4. Shape(u) /\ u.asserts = t.asserts
    BY <1>3, OutDoes
  <1> HIDE DEF u
  <1> QED BY <1>1, <1>3, <1>4

LEMMA GetInRegStops ==
  ASSUME NEW s, Shape(s), NEW v, NEW dest
  PROVE  Shape(GetInReg(s, v, dest)) /\ (GetInReg(s, v, dest).asserts => s.asserts)
  <1> DEFINE bank == IF dest \in Range(XMMs) THEN Range(XMMs) ELSE Range(allocatable_regs)
             where == Where(s, v)
             regs == where \cap bank
             reg == CHOOSE r \in regs : TRUE
             word == CHOOSE l \in where : TRUE
             t == AllocReg(s, dest)
             m == Mov(s, reg, dest)
             a == AddLocationToVar(m, v, dest)
             copied == [a EXCEPT !.out = dest]
             n == Mov(t, word, t.out)
             loaded == AddLocationToVar(n, v, t.out)
             here == [s EXCEPT !.out = dest]
             there == [s EXCEPT !.out = reg]
  <1>1. GetInReg(s, v, dest) =
            IF where = {} \/ ~ where \subseteq Places THEN Check(s, FALSE)
            ELSE IF dest \in regs THEN here
            ELSE IF regs # {} /\ dest = AnyReg THEN there
            ELSE IF regs # {} THEN copied
            ELSE IF where # {word} \/ word \notin Range(Scratch) THEN Check(s, FALSE)
            ELSE IF ~ t.asserts THEN t
            ELSE loaded
    BY DEF GetInReg
  <1> HIDE DEF where, bank, regs, reg, word
  <1>2. Shape(Check(s, FALSE)) /\ ~ Check(s, FALSE).asserts
    BY CheckDoes
  <1>3. Shape(here) /\ here.asserts = s.asserts /\ Shape(there) /\ there.asserts = s.asserts
    BY OutDoes
  <1> HIDE DEF here, there
  <1>4. Shape(m) /\ m.asserts = s.asserts
    BY MachDoes DEF Mov
  <1> HIDE DEF m
  <1>5. Shape(a) /\ (a.asserts => s.asserts)
    BY <1>4, AddLocationDoes
  <1> HIDE DEF a
  <1>6. Shape(copied) /\ copied.asserts = a.asserts
    BY <1>5, OutDoes
  <1> HIDE DEF copied
  <1>7. Shape(t) /\ (t.asserts => s.asserts)
    BY AllocStops
  <1> HIDE DEF t
  <1>8. Shape(n) /\ n.asserts = t.asserts
    BY <1>7, MachDoes DEF Mov
  <1> HIDE DEF n
  <1>9. Shape(loaded) /\ (loaded.asserts => n.asserts)
    BY <1>8, AddLocationDoes
  <1> HIDE DEF loaded
  <1> QED BY <1>1, <1>2, <1>3, <1>5, <1>6, <1>7, <1>8, <1>9

LEMMA DecUseStops ==
  ASSUME NEW s, Shape(s), NEW v
  PROVE  Shape(DecUse(s, v)) /\ DecUse(s, v).asserts = s.asserts
  <1> DEFINE u == [s EXCEPT !.uses[v] = @ - 1]
             t == [u EXCEPT !.at = Restrict(u.at, DOMAIN u.at \ Where(u, v))]
  <1>1. DecUse(s, v) = IF u.uses[v] = 0 THEN t ELSE u
    BY DEF DecUse
  <1>2. Shape(u) /\ u.asserts = s.asserts
    BY DEF Shape
  <1> HIDE DEF u
  <1>3. Shape(t) /\ t.asserts = u.asserts
    BY <1>2, AtDoes
  <1> HIDE DEF t
  <1> QED BY <1>1, <1>2, <1>3

LEMMA AddAttrGuardSound ==
  ASSUME NEW s, Good(s), NEW v, NEW big \in BOOLEAN, AddAttrGuard(s, v, big).asserts
  PROVE  LET t == AddAttrGuard(s, v, big) IN s.asserts /\ Sound(s, t, {}, {}) /\ t.n = s.n
  <1> DEFINE c == Check(s, s.guarding)
             t == GetInReg(c, v, AnyReg)
             o == Operand(t, t.out, v)
             a == AllocReg(o, AnyReg)
             w == [a EXCEPT !.mach[a.out] = Const("hcls")]
             g == AddAttrGuard(s, v, big)
  <1>1. g = IF big THEN IF a.asserts THEN w ELSE a ELSE o
    BY DEF AddAttrGuard
  <1>2. s.guarding \in BOOLEAN /\ Shape(s)
    BY DEF Good, Shape
  <1>3. Sound(s, c, {}, {}) /\ c.n = s.n /\ (c.asserts => s.asserts)
    BY <1>2, SoundCheck
  <1>4. g.asserts
    OBVIOUS
  <1> HIDE DEF c, g
  <1>5. Good(c) /\ Shape(c)
    BY <1>3 DEF Sound, Good
  <1>6. Shape(t)
    BY <1>5, GetInRegStops
  <1>7. t.asserts => /\ c.asserts /\ Sound(c, t, {}, {}) /\ t.n = c.n
                     /\ t.out \in DOMAIN t.at /\ t.out \in Places /\ t.at[t.out] = v
    BY <1>5, SoundGetInReg
  <1> HIDE DEF t
  <1>8. Shape(o) /\ o.asserts = t.asserts
    BY <1>6, OperandDoes
  <1>9. t.asserts => Sound(t, o, {}, {}) /\ o.n = t.n
    BY <1>7, SoundOperand DEF Sound
  <1> HIDE DEF o
  <1>10. a.asserts => o.asserts
    BY <1>8, AllocStops
  <1>11. t.asserts
    BY <1>1, <1>4, <1>8, <1>10
  <1>12. Sound(s, o, {}, {}) /\ o.n = s.n /\ Good(o) /\ s.asserts
    <2>1. Sound(s, t, {}, {})
      BY <1>3, <1>7, <1>11, ThenSound
    <2> QED BY <2>1, <1>3, <1>7, <1>9, <1>11, ThenSound DEF Sound
  <1>13. CASE ~ big
    BY <1>1, <1>12, <1>13 DEF g
  <1>14. CASE big
    <2>1. a.asserts /\ g = w
      BY <1>1, <1>4, <1>14
    <2>2. AnyReg \notin DOMAIN o.at
      BY <1>12, PlaceFacts DEF Good, Placed
    <2>3. /\ Shape(a) /\ SameVars(o, a) /\ a.at = o.at /\ a.mach = o.mach /\ a.right = o.right
          /\ a.out \notin DOMAIN o.at
      BY <1>12, <2>1, <2>2, AllocFree
    <2>4. Sound(o, a, {}, {}) /\ a.n = o.n
      <3>1. a.right
        BY <2>3, <1>12 DEF Good, Holds
      <3> QED BY <1>12, <2>3, <3>1, GoodSame DEF Sound, SameVars
    <2> HIDE DEF a
    <2>5. Good(a)
      BY <2>4 DEF Sound
    <2>6. /\ Shape(w) /\ SameVars(a, w) /\ w.at = a.at /\ w.mach = [a.mach EXCEPT ![a.out] = Const("hcls")]
          /\ w.right = a.right
      BY <2>3, MachDoes
    <2> HIDE DEF w
    <2>7. Sound(a, w, {}, {}) /\ w.n = a.n
      BY <2>3, <2>5, <2>6, GoodMach DEF Sound, SameVars
    <2>8. Sound(s, w, {}, {})
      BY <1>12, <2>4, <2>7, ThenSound
    <2> QED BY <1>12, <2>1, <2>4, <2>7, <2>8 DEF g
  <1> QED BY <1>13, <1>14

\* The register of the variable may be given up before it is loaded from, since what
\* is spilled after that goes to scratch space.
LEMMA GetAttrSound ==
  ASSUME NEW s, Good(s), NEW v, NEW field, NEW kill \in BOOLEAN, NEW dest \in Regs \cup {AnyReg},
         \A r \in Callees : r \in DOMAIN s.at /\ s.at[r] # v,
         GetAttr(s, v, field, kill, dest).asserts,
         NEW V, V = IF kill THEN {v} ELSE {}
  PROVE  LET t == GetAttr(s, v, field, kill, dest) IN
         s.asserts /\ Sound(s, t, V, {dest}) /\ t.n = s.n + 1
  <1> DEFINE x == Load(s.val[v], field)
             t == GetInReg(s, v, AnyReg)
             o == Operand(t, t.out, v)
             d == IF kill THEN DecUse(o, v) ELSE o
             u == AllocReg(d, dest)
             n == CreateNewVar(u, u.out, x)
             w == [n EXCEPT !.mach[u.out] = Load(u.mach[t.out], field)]
             g == GetAttr(s, v, field, kill, dest)
  <1>1. g = IF ~ u.asserts THEN u ELSE w
    BY DEF GetAttr
  <1>2. g.asserts
    OBVIOUS
  <1>3. Shape(s)
    BY DEF Good
  <1>4. Shape(t)
    BY <1>3, GetInRegStops
  <1>5. t.asserts => /\ s.asserts /\ Sound(s, t, {}, {}) /\ t.n = s.n
                     /\ t.out \in DOMAIN t.at /\ t.out \in Regs /\ t.out \in Places /\ t.at[t.out] = v /\ v \in 1..s.n
    BY SoundGetInReg
  <1> HIDE DEF t, x, g
  <1>6. Shape(o) /\ o.asserts = t.asserts
    BY <1>4, OperandDoes
  <1>7. t.asserts => Sound(t, o, {}, {}) /\ o.n = t.n /\ o.mach = t.mach
    BY <1>5, SoundOperand DEF Sound
  <1> HIDE DEF o
  <1>8. Shape(d) /\ d.asserts = o.asserts
    BY <1>6, DecUseStops
  <1>9. u.asserts => d.asserts
    BY <1>8, AllocStops
  <1>10. u.asserts /\ t.asserts /\ g = w
    BY <1>1, <1>2, <1>6, <1>8, <1>9
  <1>11. Sound(s, o, {}, {}) /\ Good(o) /\ o.n = s.n
    BY <1>5, <1>7, <1>10, ThenSound DEF Sound
  <1>12. Sound(o, d, V, {}) /\ d.n = o.n /\ d.mach = o.mach
    <2>1. CASE kill
      BY <2>1, <1>5, <1>10, <1>11, SoundDecUse
    <2>2. CASE ~ kill
      <3>1. SameVars(o, o)
        BY DEF SameVars, Frame
      <3>2. o.right
        BY <1>11 DEF Good, Holds
      <3> QED BY <2>2, <3>1, <3>2, <1>6, <1>11, GoodSame DEF Sound
    <2> QED BY <2>1, <2>2
  <1>13. Sound(s, d, V, {}) /\ Good(d)
    BY <1>11, <1>12, SoundThen DEF Sound
  <1> HIDE DEF d
  <1>14. Callees \subseteq DOMAIN d.at
    <2>1. \A r \in Callees : s.at[r] \notin V
      OBVIOUS
    <2> QED BY <2>1, <1>13 DEF Sound, Kept
  <1>15. /\ Good(u) /\ Kept(d, u, {}, {dest}) /\ (OneReg(d) => OneReg(u)) /\ u.n = d.n
         /\ u.out \in Regs /\ u.out \notin DOMAIN u.at
         /\ \A m \in Regs : u.mach[m] = d.mach[m]
    BY <1>10, <1>13, <1>14, AllocDoes
  <1>16. Sound(s, u, V, {dest})
    <2>1. Sound(d, u, {}, {dest}) /\ V \cup {} = V /\ {} \cup {dest} = {dest}
      BY <1>15 DEF Sound
    <2> QED BY <2>1, <1>13, SoundTrans
  <1>17. Load(u.mach[t.out], field) = x
    <2>1. t.mach[t.out] = t.val[v] /\ t.val[v] = s.val[v]
      BY <1>5, <1>10 DEF Sound, Good, Holds, Kept
    <2>2. u.mach[t.out] = t.mach[t.out]
      BY <1>5, <1>7, <1>10, <1>12, <1>15
    <2> QED BY <2>1, <2>2 DEF x
  <1> HIDE DEF u
  <1>18. Shape(n) /\ n.mach = u.mach /\ n.right = u.right
    BY <1>15, CreateNewVarDoes DEF Good
  <1>19. /\ Shape(w) /\ SameVars(n, w) /\ w.at = n.at /\ Wrote(n, w, u.out, x)
         /\ w.right = n.right
    <2>1. w = WithMach(n, u.out, x)
      BY <1>17 DEF WithMach
    <2> HIDE DEF w, n
    <2> QED BY <1>18, <2>1, WithMachWrites
  <1>20. Sound(u, w, {}, {}) /\ w.n = u.n + 1
    <2>1. u.out \in Places /\ u.out \notin DOMAIN u.at /\ w.right = u.right /\ Wrote(u, w, u.out, x)
      BY <1>15, <1>18, <1>19, PlaceFacts DEF Wrote
    <2> HIDE DEF w
    <2> QED BY <1>15, <1>19, <2>1, GoodCreate DEF Sound
  <1> HIDE DEF w
  <1>21. Sound(s, w, V, {dest}) /\ w.n = s.n + 1
    BY <1>11, <1>12, <1>15, <1>16, <1>20, ThenSound
  <1> QED BY <1>5, <1>10, <1>21 DEF g

LEMMA SetAttrSound ==
  ASSUME NEW s, Good(s), NEW v, NEW w \in 1..s.n, SetAttr(s, v, w).asserts
  PROVE  LET t == SetAttr(s, v, w) IN s.asserts /\ Sound(s, t, {w}, {}) /\ t.n = s.n
  <1> DEFINE c == Check(s, ~ s.guarding)
             t == GetInReg(c, v, AnyReg)
             o == Operand(t, t.out, v)
             u == GetInReg(t, w, AnyReg)
             k == Check(u, t.out # u.out)
             p == Operand(k, t.out, v)
             q == Operand(p, u.out, w)
             g == SetAttr(s, v, w)
  <1>1. g = IF IsImmediate(t, w) THEN DecUse(o, w) ELSE DecUse(q, w)
    BY DEF SetAttr
  <1>2. s.guarding \in BOOLEAN /\ Shape(s) /\ g.asserts
    BY DEF Good, Shape
  <1>3. Sound(s, c, {}, {}) /\ c.n = s.n /\ (c.asserts => s.asserts)
    BY <1>2, SoundCheck
  <1> HIDE DEF c, g
  <1>4. Good(c) /\ Shape(c)
    BY <1>3 DEF Sound, Good
  <1>5. Shape(t)
    BY <1>4, GetInRegStops
  <1>6. t.asserts => /\ c.asserts /\ Sound(c, t, {}, {}) /\ t.n = c.n
                     /\ t.out \in DOMAIN t.at /\ t.out \in Places /\ t.at[t.out] = v
    BY <1>4, SoundGetInReg
  <1> HIDE DEF t
  <1>7. t.asserts => Sound(s, t, {}, {}) /\ Good(t) /\ t.n = s.n /\ s.asserts
    BY <1>3, <1>6, ThenSound DEF Sound
  <1>8. CASE IsImmediate(t, w)
    <2>1. Shape(o) /\ o.asserts = t.asserts
      BY <1>5, OperandDoes
    <2>2. g = DecUse(o, w) /\ t.asserts
      BY <1>1, <1>2, <1>8, <2>1, DecUseStops
    <2>3. Sound(t, o, {}, {}) /\ o.n = t.n
      BY <1>6, <1>7, <2>2, SoundOperand
    <2> HIDE DEF o
    <2>4. Sound(s, o, {}, {}) /\ Good(o) /\ o.n = s.n
      BY <1>7, <2>2, <2>3, ThenSound DEF Sound
    <2>5. Sound(o, g, {w}, {}) /\ g.n = o.n
      BY <2>2, <2>4, SoundDecUse
    <2> QED BY <1>7, <2>2, <2>4, <2>5, SoundThen DEF g
  <1>9. CASE ~ IsImmediate(t, w)
    <2>1. Shape(u) /\ (u.asserts => t.asserts)
      BY <1>5, GetInRegStops
    <2>2. u.asserts /\ Good(t) => /\ Sound(t, u, {}, {}) /\ u.n = t.n
                        /\ u.out \in DOMAIN u.at /\ u.out \in Places /\ u.at[u.out] = w
      BY SoundGetInReg
    <2> HIDE DEF u
    <2>3. Shape(k) /\ (k.asserts => u.asserts)
      BY <2>1, CheckDoes
    <2>4. u.asserts => Sound(u, k, {}, {}) /\ k.n = u.n /\ k.at = u.at
      BY <1>7, <2>1, <2>2, SoundCheck DEF Sound
    <2> HIDE DEF k
    <2>5. Shape(p) /\ p.asserts = k.asserts
      BY <2>3, OperandDoes
    <2> HIDE DEF p
    <2>6. Shape(q) /\ q.asserts = p.asserts
      BY <2>5, OperandDoes
    <2> HIDE DEF q
    <2>7. g = DecUse(q, w) /\ q.asserts /\ u.asserts /\ t.asserts
      BY <1>1, <1>2, <1>9, <2>1, <2>3, <2>5, <2>6, DecUseStops
    <2>8. Sound(s, k, {}, {}) /\ Good(k) /\ k.n = s.n /\ k.at = u.at
      <3>1. Sound(s, u, {}, {})
        BY <1>7, <2>2, <2>7, ThenSound
      <3> QED BY <3>1, <1>7, <2>2, <2>4, <2>7, ThenSound DEF Sound
    <2>9. t.out \in DOMAIN k.at /\ k.at[t.out] = v /\ t.out \in Places
      BY <1>6, <1>7, <2>2, <2>7, <2>8 DEF Sound, Kept
    <2>10. Sound(k, p, {}, {}) /\ p.n = k.n /\ p.at = k.at
      BY <2>8, <2>9, SoundOperand DEF p
    <2>11. Sound(s, p, {}, {}) /\ Good(p) /\ p.n = s.n
      BY <2>8, <2>10, ThenSound DEF Sound
    <2>12. Sound(p, q, {}, {}) /\ q.n = p.n
      BY <1>7, <2>2, <2>7, <2>8, <2>10, <2>11, SoundOperand DEF q
    <2>13. Sound(s, q, {}, {}) /\ Good(q) /\ q.n = s.n
      BY <2>11, <2>12, ThenSound DEF Sound
    <2>14. Sound(q, g, {w}, {}) /\ g.n = q.n
      BY <2>7, <2>13, SoundDecUse
    <2> QED BY <1>7, <2>7, <2>13, <2>14, SoundThen DEF g
  <1> QED BY <1>8, <1>9

LEMMA SetAttrAsserts ==
  ASSUME NEW s, Shape(s), NEW v, NEW w, SetAttr(s, v, w).asserts
  PROVE  ~ s.guarding
  <1> DEFINE c == Check(s, ~ s.guarding)
             t == GetInReg(c, v, AnyReg)
             o == Operand(t, t.out, v)
             u == GetInReg(t, w, AnyReg)
             k == Check(u, t.out # u.out)
             p == Operand(k, t.out, v)
             q == Operand(p, u.out, w)
             g == SetAttr(s, v, w)
  <1>1. g = IF IsImmediate(t, w) THEN DecUse(o, w) ELSE DecUse(q, w)
    BY DEF SetAttr
  <1>2. Shape(c) /\ (c.asserts => ~ s.guarding)
    BY CheckDoes DEF Shape
  <1>3. g.asserts
    OBVIOUS
  <1> HIDE DEF c, g
  <1>4. Shape(t) /\ (t.asserts => c.asserts)
    BY <1>2, GetInRegStops
  <1> HIDE DEF t
  <1>5. Shape(o) /\ o.asserts = t.asserts
    BY <1>4, OperandDoes
  <1> HIDE DEF o
  <1>6. Shape(u) /\ (u.asserts => t.asserts)
    BY <1>4, GetInRegStops
  <1> HIDE DEF u
  <1>7. Shape(k) /\ (k.asserts => u.asserts)
    BY <1>6, CheckDoes
  <1> HIDE DEF k
  <1>8. Shape(p) /\ p.asserts = k.asserts
    BY <1>7, OperandDoes
  <1> HIDE DEF p
  <1>9. Shape(q) /\ q.asserts = p.asserts
    BY <1>8, OperandDoes
  <1> HIDE DEF q
  <1>10. DecUse(o, w).asserts = o.asserts /\ DecUse(q, w).asserts = q.asserts
    BY <1>5, <1>9, DecUseStops
  <1> QED BY <1>1, <1>2, <1>3, <1>4, <1>5, <1>6, <1>7, <1>8, <1>9, <1>10

\* A constant that is no place.
LEMMA GoodCreateConst ==
  ASSUME NEW s, Good(s), NEW c \in Consts, NEW x, c \notin DOMAIN s.at
  PROVE  LET i == CreateNewVar(s, c, x) IN Sound(s, i, {}, {}) /\ i.n = s.n + 1
  <1> DEFINE i == CreateNewVar(s, c, x)
  <1>1. Shape(i) /\ i.mach = s.mach /\ i.right = s.right
    BY CreateNewVarDoes DEF Good
  <1>2. SameVars(CreateNewVar(s, c, x), i)
    BY DEF SameVars, Frame
  <1>3. Good(i) /\ Kept(s, i, {}, {}) /\ (OneReg(s) => OneReg(i)) /\ i.n = s.n + 1
    BY <1>1, <1>2, GoodCreate
  <1> QED BY <1>3 DEF Sound

LEMMA LoadConstSound ==
  ASSUME NEW s, Good(s), NEW c, c \in Consts, NEW big \in BOOLEAN, NEW dest \in Regs \cup {AnyReg},
         LoadConst(s, c, big, dest).asserts
  PROVE  LET t == LoadConst(s, c, big, dest) IN
         s.asserts /\ Sound(s, t, {}, {dest}) /\ t.n = s.n + 1
  <1> DEFINE i == CreateNewVar(s, c, Const(c))
             t == AllocReg(s, dest)
             n == CreateNewVar(t, t.out, Const(c))
             w == [n EXCEPT !.mach[t.out] = Const(c)]
             g == LoadConst(s, c, big, dest)
  <1>1. g = IF ~ big THEN i ELSE IF ~ t.asserts THEN t ELSE w
    BY DEF LoadConst
  <1>2. g.asserts /\ Shape(s) /\ Numbered(s)
    BY DEF Good
  <1>3. CASE ~ big
    <2>1. /\ Shape(i) /\ i.mach = s.mach /\ i.right = s.right
          /\ i.asserts = (s.asserts /\ c \notin DOMAIN s.at)
      BY <1>2, CreateNewVarDoes
    <2>2. g = i /\ s.asserts /\ c \notin DOMAIN s.at
      BY <1>1, <1>2, <1>3, <2>1
    <2>4. Sound(s, i, {}, {}) /\ i.n = s.n + 1
      BY <2>2, GoodCreateConst
    <2>5. Sound(s, i, {}, {dest})
      BY <2>4, KeptMore DEF Sound
    <2> QED BY <2>2, <2>4, <2>5
  <1>4. CASE big
    <2>1. t.asserts /\ g = w
      BY <1>1, <1>2, <1>4
    <2>2. /\ s.asserts /\ Sound(s, t, {}, {dest}) /\ Good(t) /\ t.n = s.n
          /\ t.out \in Places /\ t.out \notin DOMAIN t.at
      BY <2>1, AllocDoes, PlaceFacts DEF Sound
    <2> HIDE DEF t, g
    <2>3. Shape(n) /\ n.mach = t.mach /\ n.right = t.right
      BY <2>2, CreateNewVarDoes DEF Good
    <2>4. /\ Shape(w) /\ SameVars(n, w) /\ w.at = n.at /\ Wrote(t, w, t.out, Const(c))
          /\ w.right = t.right
      BY <2>3, MachDoes DEF Wrote
    <2>5. Sound(t, w, {}, {}) /\ w.n = t.n + 1
      <3> HIDE DEF w
      <3> QED BY <2>2, <2>4, GoodCreate DEF Sound
    <2> HIDE DEF w
    <2>6. Sound(s, w, {}, {dest}) /\ w.n = s.n + 1
      BY <2>2, <2>5, ThenSound
    <2> QED BY <2>1, <2>2, <2>6 DEF g
  <1> QED BY <1>3, <1>4

LEMMA ForArgIsReg ==
  ASSUME NEW i \in 1..Len(ForArg)
  PROVE  ForArg[i] \in Range(ForArg) /\ ForArg[i] \in Regs \ Callees /\ ForArg[i] \in Places
  <1>1. ForArg[i] \in Range(ForArg)
    BY DEF ForArg, Range
  <1> QED BY <1>1, PlaceFacts

LEMMA PassArgSound ==
  ASSUME NEW s, Good(s), NEW i \in 1..Len(ForArg), NEW v, v \in 1..s.n, PassArg(s, i, v).asserts
  PROVE  LET t == PassArg(s, i, v) IN
         s.asserts /\ Sound(s, t, {v}, {ForArg[i]}) /\ t.n = s.n
  <1> DEFINE l == ForArg[i]
             c == Check(s, IsImmediate(s, v))
             t == AllocReg(c, l)
             b == AddLocationToVar(t, v, l)
             value == t.val[v]
             added == [b EXCEPT !.mach[l] = value]
             u == IF l \in Where(s, v) THEN s ELSE IF ~ t.asserts THEN t ELSE added
             o == Operand(u, l, v)
             g == PassArg(s, i, v)
  <1>1. g = IF u.asserts THEN DecUse(o, v) ELSE u
    BY DEF PassArg
  <1>2. u.asserts /\ g = DecUse(o, v)
    BY <1>1
  <1>3. l \in Regs /\ l \in Places /\ Shape(s)
    BY ForArgIsReg DEF Good
  <1> HIDE DEF l
  <1>4. CASE l \in Where(s, v)
    <2>1. u = s
      BY <1>4
    <2>2. l \in DOMAIN s.at /\ v = s.at[l]
      BY <1>4 DEF Where
    <2> HIDE DEF u, g
    <2>3. Sound(s, o, {}, {}) /\ o.n = s.n
      BY <1>3, <2>1, <2>2, SoundOperand
    <2> HIDE DEF o
    <2>4. Sound(o, g, {v}, {}) /\ g.n = o.n
      BY <1>2, <2>3, SoundDecUse DEF Sound
    <2>5. Sound(s, g, {v}, {})
      BY <2>3, <2>4, SoundThen
    <2>6. Sound(s, g, {v}, {l})
      BY <2>5, KeptMore DEF Sound
    <2> QED BY <1>2, <2>1, <2>3, <2>4, <2>6 DEF g, l
  <1>5. CASE l \notin Where(s, v)
    <2>1. /\ Sound(s, c, {}, {}) /\ c.n = s.n /\ c.at = s.at /\ c.uses = s.uses
          /\ c.asserts => s.asserts /\ IsImmediate(s, v)
      <3>1. IsImmediate(s, v) \in BOOLEAN
        BY DEF IsImmediate
      <3> QED BY <3>1, SoundCheck
    <2> HIDE DEF c
    <2>2. Good(c) /\ Shape(c)
      BY <2>1 DEF Sound, Good
    <2>3. t.asserts => c.asserts /\ Sound(c, t, {}, {l}) /\ t.n = c.n /\ l \notin DOMAIN t.at
      BY <1>3, <2>2, PlaceFacts, AllocDoes DEF Sound
    <2>4. Shape(t)
      BY <2>2, AllocStops
    <2>5. t.asserts /\ u = added
      BY <1>2, <1>5
    <2> HIDE DEF t, u
    <2>6. Sound(s, t, {}, {l}) /\ Good(t) /\ t.n = s.n /\ s.asserts /\ IsImmediate(s, v)
      BY <2>1, <2>3, <2>5, SoundThen DEF Sound
    <2>7. PICK k \in DOMAIN s.at : k \notin Places /\ s.at[k] = v
      BY <2>6 DEF IsImmediate, Where
    <2>8. k \in DOMAIN t.at /\ t.at[k] = v
      BY <1>3, <2>6, <2>7 DEF Sound, Kept
    <2>9. t.uses[v] = 1 /\ \A m \in DOMAIN t.at : t.at[m] = v => m = k
      BY <2>6, <2>7, <2>8 DEF Good, ConstsApart
    <2>10. /\ Shape(b) /\ SameVars(t, b) /\ b.mach = t.mach /\ b.right = t.right
      BY <2>4, AddLocationDoes
    <2> HIDE DEF b, value
    <2>11. /\ Shape(added) /\ SameVars(b, added) /\ added.at = b.at /\ Wrote(b, added, l, value)
           /\ added.right = b.right
      <3>1. added = WithMach(b, l, value)
        BY DEF WithMach
      <3> HIDE DEF added
      <3> QED BY <3>1, <2>10, WithMachWrites
    <2>12. /\ SameVars(t, added) /\ added.right = t.right /\ DOMAIN added.mach = Places /\ added.mach[l] = t.val[v]
           /\ \A m \in Places : m # l => added.mach[m] = t.mach[m]
      BY <1>3, <2>6, <2>10, <2>11 DEF value, SameVars, Frame, Good, Numbered, Wrote
    <2>13. GoodBut(added, v) /\ Kept(t, added, {}, {}) /\ (OneReg(t) => OneReg(added))
      <3>1. \A m \in DOMAIN t.at : t.at[m] = v => m \notin Regs
        BY <2>7, <2>9, PlaceFacts
      <3>2. l \notin DOMAIN t.at /\ v \in 1..t.n /\ t.uses[v] > 0
        BY <2>3, <2>5, <2>6, <2>9
      <3>3. added.at = AddLocationToVar(t, v, l).at
        BY <2>11 DEF b
      <3> HIDE DEF added
      <3> QED BY <1>3, <2>6, <2>11, <2>12, <3>1, <3>2, <3>3, GoodAdd
    <2>14. added.at[l] = v /\ l \in DOMAIN added.at
      BY <2>4, <2>11, AddLocationDoes DEF b
    <2> HIDE DEF added
    <2>16. added.right /\ added.mach[l] = added.val[v]
      BY <2>12, <2>13 DEF GoodBut, Holds, SameVars
    <2>15. /\ Shape(o) /\ SameVars(added, o) /\ o.at = added.at /\ o.mach = added.mach
           /\ o.right = added.right
      <3>1. Shape(added) /\ added.mach[l] = added.val[v]
        BY <2>11, <2>16
      <3>2. o = Operand(added, l, v)
        BY <2>5
      <3> HIDE DEF o
      <3> QED BY <3>1, <3>2, OperandHits
    <2>17. GoodBut(o, v) /\ (OneReg(added) => OneReg(o)) /\ o.n = added.n
      <3>1. o.right /\ o.n = added.n /\ o.uses = added.uses /\ o.val = added.val
        BY <2>15, <2>16 DEF SameVars
      <3> HIDE DEF o
      <3>2. Numbered(o) /\ Placed(o)
        BY <2>13, <2>15, <3>1 DEF GoodBut, Numbered, Placed
      <3>3. Holds(o)
        BY <2>13, <2>15, <3>1 DEF GoodBut, Holds
      <3> QED BY <2>13, <2>15, <3>1, <3>2, <3>3 DEF GoodBut, OneReg
    <2>18. v \in 1..o.n
      BY <2>6, <2>12, <2>17 DEF SameVars
    <2> HIDE DEF o, g
    <2>19. Good(g) /\ Kept(o, g, {v}, {}) /\ (OneReg(o) => OneReg(g)) /\ g.n = o.n
      BY <1>2, <2>17, <2>18, GoodDecUse
    <2>20. Kept(t, g, {v}, {})
      <3>1. t.n \in Nat /\ Frame(t, g) /\ g.n = t.n
        BY <2>6, <2>12, <2>15, <2>19 DEF Good, Numbered, Kept, Frame, SameVars
      <3>2. \A w \in 1..t.n : g.val[w] = t.val[w]
        BY <2>12, <2>15, <2>19 DEF Kept, SameVars
      <3>3. \A m \in DOMAIN t.at : m \in DOMAIN o.at /\ o.at[m] = t.at[m]
        BY <2>13, <2>15 DEF Kept
      <3>4. \A m \in DOMAIN t.at : t.at[m] \in {v} \/ (m \in DOMAIN g.at /\ g.at[m] = t.at[m])
        BY <3>3, <2>19 DEF Kept
      <3> QED BY <3>1, <3>2, <3>4 DEF Kept
    <2>21. Sound(t, g, {v}, {})
      BY <2>13, <2>17, <2>19, <2>20 DEF Sound
    <2>22. Sound(s, g, {v}, {l})
      <3>1. {} \cup {v} = {v} /\ {l} \cup {} = {l}
        OBVIOUS
      <3> QED BY <3>1, <2>6, <2>21, SoundTrans
    <2>23. g.n = s.n
      BY <2>6, <2>12, <2>17, <2>19 DEF SameVars
    <2> QED BY <2>6, <2>22, <2>23 DEF g, l
  <1> QED BY <1>4, <1>5

LEMMA SoundSelf ==
  ASSUME NEW s, Good(s)
  PROVE  Sound(s, s, {}, {})
  <1>1. Shape(s) /\ SameVars(s, s) /\ s.right
    BY DEF Good, Holds, SameVars, Frame
  <1> QED BY <1>1, GoodSame DEF Sound

LEMMA SaveRegisterSound ==
  ASSUME NEW s, Good(s), ~ s.guarding, NEW reg \in CallClobbers, SaveRegister(s, reg).asserts
  PROVE  LET t == SaveRegister(s, reg) IN
         /\ s.asserts /\ Sound(s, t, {}, {reg}) /\ t.n = s.n
         /\ reg \notin DOMAIN t.at
         /\ \A l \in DOMAIN t.at : l \in DOMAIN s.at \/ l \notin CallClobbers
  <1> DEFINE where == Where(s, s.at[reg])
             t == Check(s, where \subseteq Places)
             g == SaveRegister(s, reg)
  <1>1. g = IF reg \notin DOMAIN s.at THEN s
            ELSE IF where \ CallClobbers # {} THEN RemoveLocationFromVar(t, reg)
            ELSE SpillRegister(t, reg)
    BY DEF SaveRegister
  <1>2. g.asserts
    OBVIOUS
  <1>3. /\ Sound(s, t, {}, {}) /\ t.n = s.n /\ t.at = s.at /\ t.guarding = s.guarding
        /\ t.asserts => s.asserts
    <2>1. (where \subseteq Places) \in BOOLEAN
      OBVIOUS
    <2> QED BY <2>1, SoundCheck
  <1>4. \A l : l \in where <=> l \in DOMAIN s.at /\ s.at[l] = s.at[reg]
    BY DEF Where
  <1> HIDE DEF where, t, g
  <1>5. Good(t) /\ Shape(t)
    BY <1>3 DEF Sound, Good
  <1>6. CASE reg \notin DOMAIN s.at
    <2>1. g = s
      BY <1>1, <1>6
    <2>2. Sound(s, s, {}, {reg})
      BY SoundSelf, KeptMore DEF Sound
    <2> QED BY <1>2, <1>6, <2>1, <2>2 DEF g
  <1>7. CASE reg \in DOMAIN s.at /\ where \ CallClobbers # {}
    <2>1. g = RemoveLocationFromVar(t, reg)
      BY <1>1, <1>7
    <2>2. PICK k \in where : k \notin CallClobbers
      BY <1>7
    <2>3. k \in DOMAIN t.at /\ k # reg /\ t.at[k] = t.at[reg] /\ reg \in DOMAIN t.at /\ ~ t.guarding
      BY <1>3, <1>4, <1>7, <2>2
    <2>4. Good(g) /\ Kept(t, g, {}, {reg}) /\ (OneReg(t) => OneReg(g))
      BY <1>5, <2>1, <2>3, GoodRemove
    <2>5. g.n = t.n /\ g.asserts = t.asserts /\ DOMAIN g.at = DOMAIN t.at \ {reg}
      BY <1>5, <2>1, RemoveLocationDoes DEF SameVars
    <2>6. Sound(s, g, {}, {reg})
      BY <1>3, <2>4, SoundThen DEF Sound
    <2> QED BY <1>2, <1>3, <2>5, <2>6 DEF g
  <1>8. CASE reg \in DOMAIN s.at /\ where \ CallClobbers = {}
    <2>1. g = SpillRegister(t, reg)
      BY <1>1, <1>8
    <2>2. reg \in DOMAIN t.at /\ reg \in Regs \cup Range(XMMs)
      BY <1>3, <1>8, PlaceFacts
    <2>3. /\ t.asserts /\ Good(g) /\ Kept(t, g, {}, {reg}) /\ (OneReg(t) => OneReg(g)) /\ g.n = t.n
          /\ \E l \in Callees \cup Range(Scratch) :
               l \notin DOMAIN t.at /\ DOMAIN g.at = (DOMAIN t.at \ {reg}) \cup {l}
      BY <1>2, <1>5, <2>1, <2>2, SpillDoes
    <2>4. Sound(s, g, {}, {reg})
      BY <1>3, <2>3, SoundThen DEF Sound
    <2>5. \A l \in Callees \cup Range(Scratch) : l \notin CallClobbers
      BY PlaceFacts
    <2> QED BY <1>3, <2>3, <2>4, <2>5 DEF g
  <1> QED BY <1>6, <1>7, <1>8

LEMMA AllMachDoes ==
  ASSUME NEW s, Shape(s), NEW f
  PROVE  LET t == [s EXCEPT !.mach = f] IN
         /\ Shape(t) /\ SameVars(s, t) /\ t.at = s.at /\ t.mach = f /\ t.right = s.right
         /\ t.asserts = s.asserts
  BY DEF Shape, SameVars, Frame

LEMMA CallFunctionSound ==
  ASSUME NEW s, Good(s), NEW func, NEW vals, \A l \in DOMAIN s.at : l \notin CallClobbers,
         CallFunction(s, func, vals).asserts
  PROVE  LET t == CallFunction(s, func, vals) IN s.asserts /\ Sound(s, t, {}, {}) /\ t.n = s.n + 1
  <1> DEFINE x == Result(func, vals)
             f == [l \in Places |-> IF l \in CallClobbers THEN Junk ELSE s.mach[l]]
             t == [s EXCEPT !.mach = f]
             rax == "RAX"
             n == CreateNewVar(t, rax, x)
             w == WithMach(n, rax, x)
             g == CallFunction(s, func, vals)
  <1>1. g = w
    BY DEF CallFunction, WithMach
  <1>2. Shape(s) /\ Numbered(s) /\ s.right /\ g.asserts
    BY DEF Good, Holds
  <1> HIDE DEF x, g
  <1>12. rax \in Places /\ rax \in CallClobbers
    BY PlaceFacts
  <1> HIDE DEF rax
  <1>3. DOMAIN f = Places /\ \A l \in Places : l \notin CallClobbers => f[l] = s.mach[l]
    OBVIOUS
  <1> HIDE DEF f
  <1>4. /\ Shape(t) /\ SameVars(s, t) /\ t.at = s.at /\ t.mach = f /\ t.right = s.right
        /\ t.asserts = s.asserts
    BY <1>2, AllMachDoes
  <1> HIDE DEF t
  <1>5. Good(t) /\ Kept(s, t, {}, {}) /\ (OneReg(s) => OneReg(t)) /\ t.n = s.n
    <2>1. t.n = s.n /\ t.uses = s.uses /\ t.val = s.val /\ Frame(s, t)
      BY <1>4 DEF SameVars
    <2>2. Numbered(t)
      BY <1>2, <1>3, <1>4, <2>1 DEF Numbered
    <2>3. Placed(t) /\ ConstsApart(t)
      BY <1>4, <2>1 DEF Good, Placed, ConstsApart
    <2>4. Holds(t)
      BY <1>2, <1>3, <1>4, <2>1 DEF Good, Holds
    <2>5. Kept(s, t, {}, {})
      BY <1>2, <1>4, <2>1 DEF Kept, Numbered
    <2> QED BY <1>4, <2>1, <2>2, <2>3, <2>4, <2>5 DEF Good, OneReg
  <1>6. rax \in Places /\ rax \notin DOMAIN t.at
    BY <1>4, <1>12
  <1>13. Shape(t) /\ Numbered(t)
    BY <1>5 DEF Good
  <1>7. Shape(n) /\ n.mach = t.mach /\ n.right = t.right /\ (n.asserts => t.asserts)
    <2>1. n.asserts = (t.asserts /\ rax \notin DOMAIN t.at)
      BY <1>13, CreateNewVarDoes
    <2>2. Shape(n) /\ n.mach = t.mach /\ n.right = t.right
      BY <1>13, CreateNewVarDoes
    <2> QED BY <2>1, <2>2
  <1> HIDE DEF n
  <1>8. /\ Shape(w) /\ SameVars(n, w) /\ w.at = n.at /\ Wrote(n, w, rax, x)
        /\ w.right = n.right /\ w.asserts = n.asserts
    BY <1>7, WithMachWrites
  <1>9. Wrote(t, w, rax, x)
    BY <1>7, <1>8 DEF Wrote
  <1> HIDE DEF w
  <1>10. Good(w) /\ Kept(t, w, {}, {}) /\ (OneReg(t) => OneReg(w)) /\ w.n = t.n + 1
    BY <1>5, <1>6, <1>7, <1>8, <1>9, GoodCreate DEF n
  <1>11. Sound(s, w, {}, {})
    BY <1>5, <1>10, SoundThen DEF Sound
  <1> QED BY <1>1, <1>2, <1>4, <1>5, <1>7, <1>8, <1>10, <1>11 DEF g

\* Here a variable may come to be in two registers, and OneReg is given up.
LEMMA RestoreSound ==
  ASSUME NEW s, Good(s), NEW liveOut, liveOut.reg \in Registers, liveOut.var \in 1..s.n,
         s.val[liveOut.var] = Entry(liveOut.reg), Restore(s, liveOut).asserts
  PROVE  LET t == Restore(s, liveOut) IN
         /\ s.asserts /\ Good(t) /\ Kept(s, t, {liveOut.var}, {}) /\ t.n = s.n
         /\ t.mach[liveOut.reg] = Entry(liveOut.reg)
         /\ \A l \in Places : l # liveOut.reg => t.mach[l] = s.mach[l]
  <1> DEFINE reg == liveOut.reg
             v == liveOut.var
             c == Check(s, reg \notin DOMAIN s.at)
             t == GetInReg(c, v, reg)
             u == IF reg \in Where(s, v) THEN s ELSE t
             g == Restore(s, liveOut)
  <1>1. g = IF u.asserts THEN DecUse(u, v) ELSE u
    BY DEF Restore
  <1>2. u.asserts /\ g = DecUse(u, v)
    BY <1>1
  <1>3. reg \in Regs \cup Range(XMMs) /\ reg \in Places /\ v \in 1..s.n /\ s.val[v] = Entry(reg)
    BY PlaceFacts DEF Registers
  <1> SUFFICES /\ s.asserts /\ Good(g) /\ Kept(s, g, {v}, {}) /\ g.n = s.n
               /\ g.mach[reg] = Entry(reg) /\ \A l \in Places : l # reg => g.mach[l] = s.mach[l]
    OBVIOUS
  <1> HIDE DEF reg, v, g
  <1>4. CASE reg \in Where(s, v)
    <2>1. u = s
      BY <1>4
    <2>2. reg \in DOMAIN s.at /\ s.at[reg] = v
      BY <1>4 DEF Where
    <2>3. s.mach[reg] = Entry(reg)
      BY <1>3, <2>2 DEF Good, Holds
    <2> HIDE DEF u
    <2>4. Good(g) /\ Kept(s, g, {v}, {}) /\ g.n = s.n /\ g.mach = s.mach
      BY <1>2, <1>3, <2>1, SoundDecUse DEF Sound
    <2> QED BY <1>2, <2>1, <2>3, <2>4
  <1>5. CASE reg \notin Where(s, v)
    <2>1. u = t /\ t.asserts
      BY <1>2, <1>5
    <2>2. /\ Sound(s, c, {}, {}) /\ c.n = s.n /\ c.at = s.at /\ c.mach = s.mach /\ c.val = s.val
          /\ c.asserts => s.asserts /\ reg \notin DOMAIN s.at
      BY SoundCheck
    <2> HIDE DEF c, u
    <2>3. Good(c) /\ Shape(c)
      BY <2>2 DEF Sound, Good
    <2>4. c.asserts
      BY <2>1, <2>3, GetInRegStops
    <2>5. reg # AnyReg
      BY <1>3, PlaceFacts
    <2>6. /\ Good(t) /\ Kept(c, t, {}, {}) /\ t.n = c.n
          /\ t.out = reg /\ reg \in DOMAIN t.at /\ t.at[reg] = v
          /\ \A m \in Places : m # reg => t.mach[m] = c.mach[m]
      BY <1>3, <2>1, <2>2, <2>3, <2>4, <2>5, GetInRegDoes
    <2> HIDE DEF t
    <2>7. t.mach[reg] = Entry(reg)
      BY <1>3, <2>2, <2>6 DEF Good, Holds, Kept
    <2>8. Good(g) /\ Kept(t, g, {v}, {}) /\ g.n = t.n /\ g.mach = t.mach
      BY <1>2, <1>3, <2>1, <2>2, <2>6, SoundDecUse DEF Sound
    <2>9. Kept(s, g, {v}, {})
      <3>1. g.n \in Nat /\ t.n \in Nat /\ {} \cup {} = {} /\ {} \cup {v} = {v}
        BY <2>6, <2>8 DEF Good, Numbered
      <3>2. Kept(s, t, {}, {})
        BY <2>2, <2>3, <2>6, <3>1, KeptTrans DEF Sound
      <3> QED BY <2>6, <2>8, <3>1, <3>2, KeptTrans
    <2> QED BY <2>2, <2>4, <2>6, <2>7, <2>8, <2>9
  <1> QED BY <1>4, <1>5

------------------------------------------------------------------------------
(***************************************************************************)
(* The client's calls.                                                     *)
(***************************************************************************)
LEMMA CallFields ==
  ASSUME NEW c \in ClientCalls
  PROVE  /\ c.op \in {"guard", "doneUsing", "commitReturning"} => c.on \in Names
         /\ c.op = "get" => c.on \in Names /\ c.kill \in BOOLEAN /\ c.dest \in Dests
         /\ c.op = "set" => c.on \in Names /\ c.val \in Names
         /\ c.op = "const" => c.const \in Consts /\ c.dest \in Dests
         /\ c.op = "call" => c.args \in Seq(Names) /\ Len(c.args) <= Len(ForArg)
         /\ "new" \in DOMAIN c => c.op \in {"get", "const", "call"}
  <1>1. CASE c \in [op : {"guard", "doneUsing", "commitReturning"}, on : Names]
    BY <1>1
  <1>2. CASE c \in [op : {"doneGuarding", "commit"}]
    BY <1>2
  <1>3. CASE c \in [op : {"get"}, new : Names, on : Names, field : STRING, kill : BOOLEAN, dest : Dests]
    BY <1>3
  <1>4. CASE c \in [op : {"set"}, on : Names, val : Names]
    BY <1>4
  <1>5. CASE c \in [op : {"const"}, new : Names, const : Consts, pointer : BOOLEAN, dest : Dests]
    BY <1>5
  <1>6. CASE c \in [op : {"call"}, new : Names, func : STRING,
                    args : {a \in Seq(Names) : Len(a) <= Len(ForArg)}]
    <2>1. c.op = "call" /\ c.args \in {a \in Seq(Names) : Len(a) <= Len(ForArg)}
      BY <1>6
    <2> QED BY <2>1
  <1> QED BY <1>1, <1>2, <1>3, <1>4, <1>5, <1>6 DEF ClientCalls

LEMMA DestsAreRegs == Dests \subseteq (Regs \ Callees) \cup {AnyReg}
  BY PlaceFacts DEF Dests

LEMMA ClientTail ==
  ASSUME Client, todo # <<>>
  PROVE  /\ Call \in ClientCalls /\ Tail(todo) \in Seq(ClientCalls) /\ CommitsLast(Tail(todo))
         /\ Tail(todo) = <<>> <=> Call.op \in Commits
         /\ rw.guarding => /\ Call.op # "doneUsing" /\ ~ (Call.op = "get" /\ Call.kill)
                           /\ Call.op # "doneGuarding" => GuardsFirst(Tail(todo))
  <1>1. todo \in Seq(ClientCalls) /\ CommitsLast(todo) /\ (rw.guarding => GuardsFirst(todo))
    BY DEF Client
  <1>2. /\ Call \in ClientCalls /\ Call = todo[1] /\ 1 \in 1..Len(todo)
        /\ Tail(todo) \in Seq(ClientCalls) /\ Len(Tail(todo)) = Len(todo) - 1
        /\ \A i \in 1..Len(Tail(todo)) : i + 1 \in 1..Len(todo) /\ Tail(todo)[i] = todo[i + 1]
    BY <1>1, RangeHeadTail DEF Call
  <1> DEFINE rest == Tail(todo)
  <1>3. Len(todo) \in Nat /\ Len(rest) \in Nat /\ (rest = <<>> <=> Len(rest) = 0)
    BY <1>1, <1>2, LenProperties, EmptySeq
  <1>8. Len(rest) = Len(todo) - 1 /\ \A i \in 1..Len(rest) : i + 1 \in 1..Len(todo) /\ rest[i] = todo[i + 1]
    BY <1>2
  <1> HIDE DEF rest
  <1>4. CommitsLast(rest)
    <2> SUFFICES ASSUME NEW k \in 1..Len(rest) PROVE rest[k].op \in Commits <=> k = Len(rest)
      BY DEF CommitsLast
    <2>1. k + 1 \in 1..Len(todo) /\ rest[k] = todo[k + 1]
      BY <1>8
    <2>2. todo[k + 1].op \in Commits <=> k + 1 = Len(todo)
      BY <1>1, <2>1 DEF CommitsLast
    <2> QED BY <1>3, <1>8, <2>1, <2>2
  <1>5. rest = <<>> <=> Call.op \in Commits
    <2>1. todo[1].op \in Commits <=> 1 = Len(todo)
      BY <1>1, <1>2 DEF CommitsLast
    <2> QED BY <1>2, <1>3, <1>8, <2>1
  <1>6. ASSUME rw.guarding PROVE Call.op # "doneUsing" /\ ~ (Call.op = "get" /\ Call.kill)
    <2>1. \A j \in 1..(1 - 1) : todo[j].op # "doneGuarding"
      OBVIOUS
    <2> QED BY <1>1, <1>2, <1>6, <2>1 DEF GuardsFirst
  <1>7. ASSUME rw.guarding, Call.op # "doneGuarding" PROVE GuardsFirst(rest)
    <2> SUFFICES ASSUME NEW k \in 1..Len(rest), \A j \in 1..(k - 1) : rest[j].op # "doneGuarding"
                 PROVE  rest[k].op # "doneUsing" /\ ~ (rest[k].op = "get" /\ rest[k].kill)
      BY DEF GuardsFirst
    <2>1. k + 1 \in 1..Len(todo) /\ rest[k] = todo[k + 1]
      BY <1>2 DEF rest
    <2>2. ASSUME NEW j \in 1..(k + 1 - 1) PROVE todo[j].op # "doneGuarding"
      <3>1. CASE j = 1
        BY <1>2, <1>7, <3>1
      <3>2. CASE j # 1
        <4>1. j - 1 \in 1..(k - 1) /\ j - 1 \in 1..Len(rest)
          BY <1>3, <3>2
        <4>2. rest[j - 1] = todo[j - 1 + 1] /\ j - 1 + 1 = j
          BY <4>1, <1>2 DEF rest
        <4> QED BY <4>1, <4>2
      <3> QED BY <3>1, <3>2
    <2> QED BY <1>1, <1>7, <2>1, <2>2 DEF GuardsFirst
  <1> QED BY <1>2, <1>4, <1>5, <1>6, <1>7 DEF rest

------------------------------------------------------------------------------
(***************************************************************************)
(* What an answer to the client keeps of the invariant.                    *)
(***************************************************************************)
LEMMA KnownKept ==
  ASSUME NEW s, Good(s), NEW t, Good(t), NEW V, NEW L, Kept(s, t, V, L), LiveOutsKnown(s), ArgsKnown(s)
  PROVE  LiveOutsKnown(t) /\ ArgsKnown(t)
  <1>1. /\ t.live_outs = s.live_outs /\ t.args = s.args /\ s.n \in Nat /\ t.n \in Nat /\ s.n <= t.n
        /\ \A v \in 1..s.n : t.val[v] = s.val[v] /\ v \in 1..t.n
    BY DEF Good, Numbered, Kept, Frame
  <1>2. LiveOutsKnown(t)
    BY <1>1 DEF LiveOutsKnown
  <1>3. ArgsKnown(t)
    BY <1>1 DEF ArgsKnown
  <1> QED BY <1>2, <1>3

LEMMA GuardedKept ==
  ASSUME NEW s, Good(s), NEW t, NEW V, NEW L, Kept(s, t, V, L), Guarded(s), s.guarding => V = {}
  PROVE  Guarded(t)
  <1>1. t.live_outs = s.live_outs /\ t.args = s.args /\ t.guarding = s.guarding
    BY DEF Kept, Frame
  <1>2. ASSUME s.guarding, NEW r \in DOMAIN s.at PROVE r \in DOMAIN t.at /\ t.val[t.at[r]] = s.val[s.at[r]]
    <2>1. s.at[r] \in 1..s.n
      BY DEF Good, Placed
    <2>2. r \in DOMAIN t.at /\ t.at[r] = s.at[r]
      BY <1>2 DEF Kept
    <2> QED BY <2>1, <2>2 DEF Kept
  <1> SUFFICES ASSUME s.guarding PROVE Guarded(t)
    BY <1>1 DEF Guarded
  <1>3. ASSUME NEW i \in 1..Len(s.live_outs)
        PROVE  LET r == s.live_outs[i].reg IN r \in DOMAIN t.at /\ t.val[t.at[r]] = Entry(r)
    <2> DEFINE r == s.live_outs[i].reg
    <2>1. r \in DOMAIN s.at /\ s.val[s.at[r]] = Entry(r)
      BY DEF Guarded
    <2> HIDE DEF r
    <2>2. r \in DOMAIN t.at /\ t.val[t.at[r]] = Entry(r)
      BY <1>2, <2>1
    <2> QED BY <2>2 DEF r
  <1>4. ASSUME NEW i \in 1..Len(s.args)
        PROVE  ForArg[i] \in DOMAIN t.at /\ t.val[t.at[ForArg[i]]] = Entry(ForArg[i])
    <2> DEFINE r == ForArg[i]
    <2>1. r \in DOMAIN s.at /\ s.val[s.at[r]] = Entry(r)
      BY DEF Guarded
    <2> HIDE DEF r
    <2>2. r \in DOMAIN t.at /\ t.val[t.at[r]] = Entry(r)
      BY <1>2, <2>1
    <2> QED BY <2>2 DEF r
  <1>5. Len(s.args) <= Len(ForArg)
    BY DEF Guarded
  <1> QED BY <1>1, <1>3, <1>4, <1>5 DEF Guarded

LEMMA UsageAfter ==
  ASSUME Client, NEW s, rw.n \in Nat, s.n \in Nat, rw.n <= s.n, Answers(s)
  PROVE  /\ usage' \in [Names -> 0..s.n]
         /\ \A x \in Names : \/ usage'[x] = usage[x] \/ usage'[x] = 0
                             \/ "new" \in DOMAIN Call /\ usage'[x] = s.n
  <1> DEFINE value(x) == IF "new" \in DOMAIN Call /\ x = Call.new THEN s.n
                         ELSE IF x \in Consumed(Call) THEN 0 ELSE usage[x]
  <1>1. usage' = [x \in Names |-> value(x)]
    BY DEF Answers
  <1>2. \A x \in Names : usage[x] \in 0..s.n
    BY DEF Client
  <1>3. \A x \in Names : value(x) \in 0..s.n
    BY <1>2
  <1>4. \A x \in Names : \/ value(x) = usage[x] \/ value(x) = 0
                         \/ "new" \in DOMAIN Call /\ value(x) = s.n
    OBVIOUS
  <1> HIDE DEF value
  <1> QED BY <1>1, <1>3, <1>4

LEMMA TakenKept ==
  ASSUME Client, CalleesTaken, Good(rw), NEW s, Good(s), NEW V, NEW L, Kept(rw, s, V, L), Answers(s),
         \A v \in V : Owned(v), L \cap Callees = {}, "new" \in DOMAIN Call => s.n = rw.n + 1
  PROVE  CalleesTaken'
  <1>1. rw' = s /\ rw.n \in Nat /\ s.n \in Nat /\ rw.n <= s.n /\ s.args = rw.args
    BY DEF Answers, Good, Numbered, Kept, Frame
  <1> SUFFICES ASSUME NEW r \in Callees
               PROVE  /\ r \in DOMAIN s.at
                      /\ \A x \in Names : usage'[x] # s.at[r]
                      /\ \A i \in 1..Len(s.args) : s.args[i] # s.at[r]
    BY <1>1 DEF CalleesTaken, Owned
  <1>2. r \in DOMAIN rw.at /\ ~ Owned(rw.at[r])
    BY DEF CalleesTaken
  <1>3. rw.at[r] \in 1..rw.n /\ rw.at[r] \notin V /\ r \notin L
    BY <1>2 DEF Good, Placed
  <1>4. r \in DOMAIN s.at /\ s.at[r] = rw.at[r]
    BY <1>2, <1>3 DEF Kept
  <1>5. \A x \in Names : usage[x] # rw.at[r]
    BY <1>2 DEF Owned
  <1>6. \A i \in 1..Len(rw.args) : rw.args[i] # rw.at[r]
    BY <1>2 DEF Owned
  <1>7. \A x \in Names : \/ usage'[x] = usage[x] \/ usage'[x] = 0
                         \/ "new" \in DOMAIN Call /\ usage'[x] = s.n
    BY <1>1, UsageAfter
  <1>8. \A x \in Names : usage'[x] # s.at[r]
    BY <1>1, <1>3, <1>4, <1>5, <1>7
  <1> QED BY <1>1, <1>4, <1>6, <1>8

LEMMA AnswersKeep ==
  ASSUME Good(rw), LiveOutsKnown(rw), ArgsKnown(rw), Guarded(rw), OneReg(rw), Client, CalleesTaken,
         todo # <<>>, Call.op \notin Commits, Call.op # "doneGuarding",
         NEW s, NEW V, NEW L, Sound(rw, s, V, L), Answers(s),
         \A v \in V : Owned(v), rw.guarding => V = {}, L \cap Callees = {},
         "new" \in DOMAIN Call => s.n = rw.n + 1
  PROVE  IInv'
  <1>1. Good(s) /\ Kept(rw, s, V, L) /\ OneReg(s)
    BY DEF Sound
  <1>2. rw' = s /\ todo' = Tail(todo) /\ loop' = NoLoop
    BY DEF Answers
  <1>3. LiveOutsKnown(s) /\ ArgsKnown(s) /\ Guarded(s)
    BY <1>1, KnownKept, GuardedKept
  <1>4. CalleesTaken'
    BY <1>1, TakenKept
  <1>5. rw.n \in Nat /\ s.n \in Nat /\ rw.n <= s.n /\ s.guarding = rw.guarding
    BY <1>1 DEF Good, Numbered, Kept, Frame
  <1>6. Client'
    <2>1. usage' \in [Names -> 0..s.n]
      BY <1>5, UsageAfter
    <2>2. Tail(todo) \in Seq(ClientCalls) /\ CommitsLast(Tail(todo)) /\ (s.guarding => GuardsFirst(Tail(todo)))
      BY <1>5, ClientTail
    <2> QED BY <1>2, <2>1, <2>2 DEF Client
  <1>7. ByLoop'
    <2>1. todo' # <<>>
      BY <1>2, ClientTail
    <2>2. loop'.op = "none"
      BY <1>2 DEF NoLoop, Loop
    <2> QED BY <1>4, <2>1, <2>2 DEF ByLoop, InClient
  <1>8. loop' = Loop(loop'.op, loop'.rest)
    BY <1>2 DEF NoLoop, Loop
  <1> QED BY <1>1, <1>2, <1>3, <1>6, <1>7, <1>8 DEF IInv

------------------------------------------------------------------------------
(***************************************************************************)
(* Calls that are answered at once.                                        *)
(***************************************************************************)
LEMMA UsedNames ==
  ASSUME NEW c \in ClientCalls
  PROVE  /\ c.op \in {"guard", "get", "set", "doneUsing", "commitReturning"} => c.on \in Used(c) /\ c.on \in Names
         /\ c.op = "set" => c.val \in Used(c)
         /\ c.op = "call" => \A i \in 1..Len(c.args) : c.args[i] \in Used(c) /\ c.args[i] \in Names
  <1>1. CASE c.op \in {"guard", "get", "set"}
    <2>1. c.on \in Used(c) /\ c.on \in Names
      BY <1>1, CallFields DEF Used
    <2>2. c.op = "set" => Consumed(c) = {c.val}
      BY DEF Consumed
    <2>3. c.op = "set" => c.val \in Used(c)
      BY <2>2 DEF Used
    <2> QED BY <1>1, <2>1, <2>3
  <1>2. CASE c.op \in {"doneUsing", "commitReturning"}
    <2>1. Consumed(c) = {c.on}
      BY <1>2 DEF Consumed
    <2> QED BY <1>2, <2>1, CallFields DEF Used
  <1>3. CASE c.op = "call"
    <2>1. Consumed(c) = Range(c.args)
      BY <1>3 DEF Consumed
    <2>2. c.args \in Seq(Names) /\ DOMAIN c.args = 1..Len(c.args)
      BY <1>3, CallFields, LenProperties
    <2>3. \A i \in 1..Len(c.args) : c.args[i] \in Range(c.args) /\ c.args[i] \in Names
      BY <2>2, ElementOfSeq DEF Range
    <2> QED BY <1>3, <2>1, <2>3 DEF Used
  <1> QED BY <1>1, <1>2, <1>3

LEMMA ClientFacts ==
  ASSUME IInv, NEW op, Calls(op)
  PROVE  /\ Good(rw) /\ Shape(rw) /\ rw.n \in Nat
         /\ LiveOutsKnown(rw) /\ ArgsKnown(rw) /\ Guarded(rw) /\ OneReg(rw)
         /\ Client /\ CalleesTaken /\ todo # <<>> /\ Call \in ClientCalls /\ Call.op = op /\ rw.asserts
  <1>1. loop.op = "none" /\ todo # <<>> /\ Call.op = op /\ rw.asserts
    BY DEF Calls, NoLoop, Loop
  <1>2. /\ Good(rw) /\ LiveOutsKnown(rw) /\ ArgsKnown(rw) /\ Guarded(rw) /\ Client /\ ByLoop /\ OneReg(rw)
    BY <1>1 DEF IInv
  <1>3. CalleesTaken
    BY <1>1, <1>2 DEF ByLoop, InClient
  <1>4. Call \in ClientCalls
    BY <1>1, <1>2, ClientTail
  <1> QED BY <1>1, <1>2, <1>3, <1>4 DEF Good, Numbered

LEMMA NamesOwned ==
  ASSUME Client, rw.n \in Nat, NEW x \in Names, usage[x] # 0
  PROVE  usage[x] \in 1..rw.n /\ Owned(usage[x])
  <1>1. usage[x] \in 0..rw.n
    BY DEF Client
  <1>2. Owned(usage[x])
    BY DEF Owned
  <1> QED BY <1>1, <1>2

\* A call with an invalid variable, or one that fails an assertion, needs no answer.
LEMMA PerformsWhat ==
  ASSUME Shape(rw), NEW s, Performs(s)
  PROVE  IInv' \/ (Valid /\ Answers(s) /\ s.asserts)
  <1>1. ASSUME ~ Valid PROVE IInv'
    <2>1. rw' = Check(rw, FALSE)
      BY <1>1 DEF Performs, Answers
    <2>2. ~ rw'.asserts
      BY <2>1, CheckDoes
    <2> QED BY <2>2 DEF IInv
  <1>2. ASSUME Valid, ~ s.asserts PROVE IInv'
    <2>1. rw' = s
      BY <1>2 DEF Performs, Answers
    <2> QED BY <1>2, <2>1 DEF IInv
  <1>3. Valid => Answers(s)
    BY DEF Performs
  <1> QED BY <1>1, <1>2, <1>3

LEMMA ClientGuardsKeeps ==
  ASSUME IInv, NEW big \in BOOLEAN, ClientGuards(big)
  PROVE  IInv'
  <1> DEFINE s == AddAttrGuard(rw, On, big)
  <1>1. Calls("guard") /\ Performs(s)
    BY DEF ClientGuards
  <1>2. /\ Good(rw) /\ Shape(rw) /\ rw.n \in Nat
        /\ LiveOutsKnown(rw) /\ ArgsKnown(rw) /\ Guarded(rw) /\ OneReg(rw)
        /\ Client /\ CalleesTaken /\ todo # <<>> /\ Call \in ClientCalls /\ Call.op = "guard"
    BY <1>1, ClientFacts
  <1> SUFFICES ASSUME Answers(s), s.asserts PROVE IInv'
    BY <1>1, <1>2, PerformsWhat
  <1>3. Sound(rw, s, {}, {})
    BY <1>2, AddAttrGuardSound
  <1>4. Call.op \notin Commits /\ "new" \notin DOMAIN Call
    BY <1>2, CallFields DEF Commits
  <1> HIDE DEF s
  <1> QED BY <1>2, <1>3, <1>4, AnswersKeep

LEMMA ClientGetsKeeps ==
  ASSUME IInv, ClientGets
  PROVE  IInv'
  <1> DEFINE field == Call.field
             kill == Call.kill
             dest == Call.dest
             s == GetAttr(rw, On, field, kill, dest)
             V == IF kill THEN {On} ELSE {}
             L == {dest}
  <1>1. Calls("get") /\ Performs(s)
    BY DEF ClientGets
  <1>2. /\ Good(rw) /\ Shape(rw) /\ rw.n \in Nat
        /\ LiveOutsKnown(rw) /\ ArgsKnown(rw) /\ Guarded(rw) /\ OneReg(rw)
        /\ Client /\ CalleesTaken /\ todo # <<>> /\ Call \in ClientCalls /\ Call.op = "get"
    BY <1>1, ClientFacts
  <1> SUFFICES ASSUME Valid, Answers(s), s.asserts PROVE IInv'
    BY <1>1, <1>2, PerformsWhat
  <1>3. Owned(On)
    <2>1. Call.on \in Names /\ usage[Call.on] # 0
      BY <1>2, UsedNames DEF Valid
    <2> QED BY <2>1, <1>2, NamesOwned DEF On
  <1>4. kill \in BOOLEAN /\ dest \in Regs \cup {AnyReg} /\ dest \notin Callees
    BY <1>2, CallFields, DestsAreRegs, PlaceFacts
  <1>5. \A r \in Callees : r \in DOMAIN rw.at /\ rw.at[r] # On
    BY <1>2, <1>3 DEF CalleesTaken
  <1>6. Sound(rw, s, V, L) /\ s.n = rw.n + 1
    <2> HIDE DEF field, kill, dest
    <2> QED BY <1>2, <1>4, <1>5, GetAttrSound
  <1>7. Call.op \notin Commits /\ Call.op # "doneGuarding"
    BY <1>2 DEF Commits
  <1>8. rw.guarding => V = {}
    BY <1>2, ClientTail
  <1>9. (\A v \in V : Owned(v)) /\ L \cap Callees = {}
    BY <1>3, <1>4
  <1> HIDE DEF s, V, L
  <1> QED BY <1>2, <1>6, <1>7, <1>8, <1>9, AnswersKeep

LEMMA ClientSetsKeeps ==
  ASSUME IInv, ClientSets
  PROVE  IInv'
  <1> DEFINE w == usage[Call.val]
             s == SetAttr(rw, On, w)
             V == {w}
  <1>1. Calls("set") /\ Performs(s)
    BY DEF ClientSets
  <1>2. /\ Good(rw) /\ Shape(rw) /\ rw.n \in Nat
        /\ LiveOutsKnown(rw) /\ ArgsKnown(rw) /\ Guarded(rw) /\ OneReg(rw)
        /\ Client /\ CalleesTaken /\ todo # <<>> /\ Call \in ClientCalls /\ Call.op = "set"
    BY <1>1, ClientFacts
  <1> SUFFICES ASSUME Valid, Answers(s), s.asserts PROVE IInv'
    BY <1>1, <1>2, PerformsWhat
  <1>3. Owned(w) /\ w \in 1..rw.n
    <2>1. Call.val \in Names /\ usage[Call.val] # 0
      BY <1>2, UsedNames, CallFields DEF Valid
    <2> QED BY <2>1, <1>2, NamesOwned
  <1>4. Sound(rw, s, V, {})
    <2> HIDE DEF w
    <2> QED BY <1>2, <1>3, SetAttrSound
  <1>5. ~ rw.guarding
    BY <1>2, SetAttrAsserts
  <1>6. Call.op \notin Commits /\ "new" \notin DOMAIN Call
    BY <1>2, CallFields DEF Commits
  <1> HIDE DEF s, w
  <1>7. \A v \in V : Owned(v)
    BY <1>3
  <1> HIDE DEF V
  <1> QED BY <1>2, <1>4, <1>5, <1>6, <1>7, AnswersKeep

LEMMA ClientLoadsKeeps ==
  ASSUME IInv, NEW big \in BOOLEAN, ClientLoads(big)
  PROVE  IInv'
  <1> DEFINE const == Call.const
             dest == Call.dest
             s == LoadConst(rw, const, big, dest)
             L == {dest}
  <1>1. Calls("const") /\ Performs(s)
    BY DEF ClientLoads
  <1>2. /\ Good(rw) /\ Shape(rw) /\ rw.n \in Nat
        /\ LiveOutsKnown(rw) /\ ArgsKnown(rw) /\ Guarded(rw) /\ OneReg(rw)
        /\ Client /\ CalleesTaken /\ todo # <<>> /\ Call \in ClientCalls /\ Call.op = "const"
    BY <1>1, ClientFacts
  <1> SUFFICES ASSUME Answers(s), s.asserts PROVE IInv'
    BY <1>1, <1>2, PerformsWhat
  <1>3. const \in Consts /\ dest \in Regs \cup {AnyReg} /\ dest \notin Callees
    BY <1>2, CallFields, DestsAreRegs, PlaceFacts
  <1>4. Sound(rw, s, {}, L) /\ s.n = rw.n + 1
    <2> HIDE DEF const, dest
    <2> QED BY <1>2, <1>3, LoadConstSound
  <1>5. Call.op \notin Commits /\ Call.op # "doneGuarding" /\ L \cap Callees = {}
    BY <1>2, <1>3 DEF Commits
  <1> HIDE DEF s, L
  <1> QED BY <1>2, <1>4, <1>5, AnswersKeep

LEMMA ClientIsDoneUsingKeeps ==
  ASSUME IInv, ClientIsDoneUsing
  PROVE  IInv'
  <1> DEFINE s == DecUse(rw, On)
             V == {On}
  <1>1. Calls("doneUsing") /\ Performs(s)
    BY DEF ClientIsDoneUsing
  <1>2. /\ Good(rw) /\ Shape(rw) /\ rw.n \in Nat
        /\ LiveOutsKnown(rw) /\ ArgsKnown(rw) /\ Guarded(rw) /\ OneReg(rw)
        /\ Client /\ CalleesTaken /\ todo # <<>> /\ Call \in ClientCalls /\ Call.op = "doneUsing"
    BY <1>1, ClientFacts
  <1> SUFFICES ASSUME Valid, Answers(s), s.asserts PROVE IInv'
    BY <1>1, <1>2, PerformsWhat
  <1>3. Owned(On) /\ On \in 1..rw.n
    <2>1. Call.on \in Names /\ usage[Call.on] # 0
      BY <1>2, UsedNames DEF Valid
    <2> QED BY <2>1, <1>2, NamesOwned DEF On
  <1>4. Sound(rw, s, V, {})
    BY <1>2, <1>3, SoundDecUse
  <1>5. Call.op \notin Commits /\ "new" \notin DOMAIN Call
    BY <1>2, CallFields DEF Commits
  <1>6. ~ rw.guarding
    BY <1>2, ClientTail
  <1>7. \A v \in V : Owned(v)
    BY <1>3
  <1> HIDE DEF s, V
  <1> QED BY <1>2, <1>4, <1>5, <1>6, <1>7, AnswersKeep

------------------------------------------------------------------------------
(***************************************************************************)
(* Loops: setDoneGuarding and call.                                        *)
(***************************************************************************)
LEMMA EntersWhat ==
  ASSUME Shape(rw), NEW s, NEW op, NEW rest, Enters(s, op, rest)
  PROVE  \/ IInv'
         \/ /\ Valid /\ s.asserts /\ rw' = s /\ usage' = usage /\ todo' = todo
            /\ loop' = Loop(op, rest)
  <1>1. ASSUME ~ Valid PROVE IInv'
    <2>1. rw' = Check(rw, FALSE)
      BY <1>1 DEF Enters
    <2>2. ~ rw'.asserts
      BY <2>1, CheckDoes
    <2> QED BY <2>2 DEF IInv
  <1>2. ASSUME Valid, ~ s.asserts PROVE IInv'
    <2>1. rw' = s
      BY <1>2 DEF Enters
    <2> QED BY <1>2, <2>1 DEF IInv
  <1>3. Valid => rw' = s
    BY DEF Enters
  <1>4. usage' = usage /\ todo' = todo /\ loop' = Loop(op, rest)
    BY DEF Enters
  <1> QED BY <1>1, <1>2, <1>3, <1>4

LEMMA LoopDoes ==
  ASSUME NEW op, NEW rest
  PROVE  /\ Loop(op, rest).op = op /\ Loop(op, rest).rest = rest
         /\ Loop(op, rest) = Loop(Loop(op, rest).op, Loop(op, rest).rest)
  BY DEF Loop

LEMMA TurnWhat ==
  ASSUME IInv, NEW op, Turn(op)
  PROVE  /\ rw.asserts /\ loop.op = op /\ loop.rest # <<>> /\ usage' = usage /\ todo' = todo
         /\ loop'.op = op /\ loop'.rest = Tail(loop.rest) /\ loop' = Loop(loop'.op, loop'.rest)
         /\ Good(rw) /\ Shape(rw) /\ rw.n \in Nat
         /\ LiveOutsKnown(rw) /\ ArgsKnown(rw) /\ Guarded(rw) /\ (op # "restore" => OneReg(rw))
         /\ Client /\ ByLoop
  <1>1. /\ rw.asserts /\ loop.op = op /\ loop.rest # <<>> /\ usage' = usage /\ todo' = todo
        /\ loop' = Loop(op, Tail(loop.rest))
    BY DEF Turn
  <1>2. loop'.op = op /\ loop'.rest = Tail(loop.rest) /\ loop' = Loop(loop'.op, loop'.rest)
    BY <1>1, LoopDoes
  <1>3. /\ Good(rw) /\ LiveOutsKnown(rw) /\ ArgsKnown(rw) /\ Guarded(rw) /\ Client /\ ByLoop
        /\ op # "restore" => OneReg(rw)
    BY <1>1 DEF IInv
  <1> QED BY <1>1, <1>2, <1>3 DEF Good, Numbered

LEMMA EndsWhat ==
  ASSUME IInv, NEW op, Ends(op)
  PROVE  /\ rw.asserts /\ loop.op = op /\ loop.rest = <<>>
         /\ Good(rw) /\ Shape(rw) /\ rw.n \in Nat
         /\ LiveOutsKnown(rw) /\ ArgsKnown(rw) /\ Guarded(rw) /\ (op # "restore" => OneReg(rw))
         /\ Client /\ ByLoop
  <1>1. rw.asserts /\ loop.op = op /\ loop.rest = <<>>
    BY DEF Ends
  <1>3. /\ Good(rw) /\ LiveOutsKnown(rw) /\ ArgsKnown(rw) /\ Guarded(rw) /\ Client /\ ByLoop
        /\ op # "restore" => OneReg(rw)
    BY <1>1 DEF IInv
  <1> QED BY <1>1, <1>3 DEF Good, Numbered

\* Whatever the rewriter does for the client keeps what its loops rely on.
LEMMA LoopKeeps ==
  ASSUME Good(rw), LiveOutsKnown(rw), ArgsKnown(rw), Guarded(rw), OneReg(rw), Client, CalleesTaken,
         NEW s, NEW V, NEW L, Sound(rw, s, V, L), rw' = s, usage' = usage, todo' = todo,
         \A v \in V : Owned(v), rw.guarding => V = {}, L \cap Callees = {}
  PROVE  /\ Good(s) /\ LiveOutsKnown(s) /\ ArgsKnown(s) /\ Guarded(s) /\ OneReg(s)
         /\ Client' /\ CalleesTaken' /\ s.n \in Nat /\ rw.n <= s.n
         /\ s.args = rw.args /\ s.live_outs = rw.live_outs /\ s.guarding = rw.guarding
  <1>1. Good(s) /\ Kept(rw, s, V, L) /\ OneReg(s)
    BY DEF Sound
  <1>2. LiveOutsKnown(s) /\ ArgsKnown(s) /\ Guarded(s)
    BY <1>1, KnownKept, GuardedKept
  <1>3. /\ rw.n \in Nat /\ s.n \in Nat /\ rw.n <= s.n
        /\ s.args = rw.args /\ s.live_outs = rw.live_outs /\ s.guarding = rw.guarding
    BY <1>1 DEF Good, Numbered, Kept, Frame
  <1>4. Client'
    <2>1. usage \in [Names -> 0..s.n]
      <3>1. usage \in [Names -> 0..rw.n] /\ \A v \in 0..rw.n : v \in 0..s.n
        BY <1>3 DEF Client
      <3> QED BY <3>1
    <2> QED BY <1>3, <2>1 DEF Client
  <1>5. CalleesTaken'
    <2> SUFFICES ASSUME NEW r \in Callees
                 PROVE  /\ r \in DOMAIN s.at
                        /\ \A x \in Names : usage[x] # s.at[r]
                        /\ \A i \in 1..Len(s.args) : s.args[i] # s.at[r]
      BY DEF CalleesTaken, Owned
    <2>1. r \in DOMAIN rw.at /\ ~ Owned(rw.at[r])
      BY DEF CalleesTaken
    <2>2. r \in DOMAIN s.at /\ s.at[r] = rw.at[r]
      BY <1>1, <2>1 DEF Kept
    <2> QED BY <1>3, <2>1, <2>2 DEF Owned
  <1> QED BY <1>1, <1>2, <1>3, <1>4, <1>5

LEMMA GoodElse ==
  ASSUME NEW s, Good(s), NEW t, Shape(t), t.at = s.at, t.n = s.n, t.uses = s.uses, t.val = s.val,
         t.mach = s.mach, t.right = s.right
  PROVE  Good(t) /\ (OneReg(s) => OneReg(t))
  <1>1. Numbered(t) /\ Placed(t)
    BY DEF Good, Numbered, Placed
  <1>2. Holds(t) /\ ConstsApart(t)
    BY DEF Good, Holds, ConstsApart
  <1> QED BY <1>1, <1>2 DEF Good, OneReg

LEMMA GuardingDoes ==
  ASSUME NEW s, Shape(s), NEW b \in BOOLEAN
  PROVE  LET t == [s EXCEPT !.guarding = b] IN
         /\ Shape(t) /\ t.at = s.at /\ t.n = s.n /\ t.uses = s.uses /\ t.val = s.val /\ t.mach = s.mach
         /\ t.right = s.right /\ t.args = s.args /\ t.live_outs = s.live_outs /\ t.guarding = b
         /\ t.asserts = s.asserts
  <1> DEFINE t == [s EXCEPT !.guarding = b]
  <1>1. Shape(t)
    BY DEF Shape
  <1>2. t.guarding = b
    BY DEF Shape
  <1>3. /\ t.at = s.at /\ t.n = s.n /\ t.uses = s.uses /\ t.val = s.val /\ t.mach = s.mach
        /\ t.right = s.right /\ t.args = s.args /\ t.live_outs = s.live_outs
        /\ t.asserts = s.asserts
    BY DEF Shape
  <1> QED BY <1>1, <1>2, <1>3

LEMMA ArgsDoes ==
  ASSUME NEW s, Shape(s), NEW a
  PROVE  LET t == [s EXCEPT !.args = a] IN
         /\ Shape(t) /\ t.at = s.at /\ t.n = s.n /\ t.uses = s.uses /\ t.val = s.val /\ t.mach = s.mach
         /\ t.right = s.right /\ t.args = a /\ t.live_outs = s.live_outs /\ t.guarding = s.guarding
         /\ t.asserts = s.asserts
  BY DEF Shape

LEMMA ClientIsDoneGuardingKeeps ==
  ASSUME IInv, ClientIsDoneGuarding
  PROVE  IInv'
  <1> DEFINE c == Check(rw, rw.guarding)
             s == [c EXCEPT !.guarding = FALSE]
  <1>1. Calls("doneGuarding") /\ Enters(s, "args", rw.args)
    BY DEF ClientIsDoneGuarding
  <1>2. /\ Good(rw) /\ Shape(rw) /\ rw.n \in Nat /\ rw.right
        /\ LiveOutsKnown(rw) /\ ArgsKnown(rw) /\ OneReg(rw)
        /\ Client /\ CalleesTaken /\ todo # <<>> /\ Call.op = "doneGuarding"
    BY <1>1, ClientFacts DEF Good, Holds
  <1>3. /\ Shape(c) /\ SameVars(rw, c) /\ c.at = rw.at /\ c.mach = rw.mach /\ c.right = rw.right
    <2>1. rw.guarding \in BOOLEAN
      BY <1>2 DEF Shape
    <2> QED BY <1>2, <2>1, CheckDoes
  <1> HIDE DEF c
  <1>4. /\ Shape(s) /\ s.at = c.at /\ s.n = c.n /\ s.uses = c.uses /\ s.val = c.val /\ s.mach = c.mach
        /\ s.right = c.right /\ s.args = c.args /\ s.live_outs = c.live_outs /\ ~ s.guarding
    BY <1>3, GuardingDoes
  <1> HIDE DEF s
  <1> SUFFICES ASSUME rw' = s, usage' = usage, todo' = todo, loop' = Loop("args", rw.args) PROVE IInv'
    BY <1>1, <1>2, EntersWhat
  <1>5. /\ s.at = rw.at /\ s.n = rw.n /\ s.uses = rw.uses /\ s.val = rw.val /\ s.mach = rw.mach
        /\ s.right = rw.right /\ s.args = rw.args /\ s.live_outs = rw.live_outs
    BY <1>3, <1>4 DEF SameVars, Frame
  <1>6. Good(s) /\ OneReg(s)
    BY <1>2, <1>4, <1>5, GoodElse
  <1>7. LiveOutsKnown(s) /\ ArgsKnown(s) /\ Guarded(s)
    BY <1>2, <1>4, <1>5 DEF LiveOutsKnown, ArgsKnown, Guarded
  <1>8. Client'
    BY <1>2, <1>4, <1>5 DEF Client
  <1>9. CalleesTaken'
    BY <1>2, <1>5 DEF CalleesTaken, Owned
  <1>10. loop'.op = "args" /\ loop'.rest = rw.args /\ loop' = Loop(loop'.op, loop'.rest)
    BY LoopDoes
  <1>11. InArgs'
    <2>1. Call' = Call
      BY DEF Call
    <2>2. rw.args \in Seq(Nat)
      BY <1>2 DEF ArgsKnown
    <2> QED BY <1>2, <1>4, <1>5, <1>9, <1>10, <2>1, <2>2 DEF InArgs
  <1>12. ByLoop'
    BY <1>10, <1>11 DEF ByLoop
  <1> QED BY <1>6, <1>7, <1>8, <1>10, <1>12 DEF IInv

LEMMA FreeArgKeeps ==
  ASSUME IInv, FreeArg
  PROVE  IInv'
  <1> DEFINE v == Head(loop.rest)
             s == DecUse(rw, v)
             V == {v}
  <1>1. Turn("args") /\ rw' = s
    BY DEF FreeArg
  <1>2. /\ loop.op = "args" /\ loop.rest # <<>> /\ usage' = usage /\ todo' = todo
        /\ loop'.op = "args" /\ loop'.rest = Tail(loop.rest) /\ loop' = Loop(loop'.op, loop'.rest)
        /\ Good(rw) /\ LiveOutsKnown(rw) /\ ArgsKnown(rw) /\ Guarded(rw) /\ OneReg(rw)
        /\ Client /\ ByLoop
    BY <1>1, TurnWhat
  <1>3. InArgs
    BY <1>2 DEF ByLoop
  <1>4. /\ ~ rw.guarding /\ todo # <<>> /\ Call.op = "doneGuarding" /\ loop.rest \in Seq(Nat)
        /\ \A i \in 1..Len(loop.rest) : \E j \in 1..Len(rw.args) : rw.args[j] = loop.rest[i]
        /\ CalleesTaken
    BY <1>3 DEF InArgs
  <1>5. /\ v = loop.rest[1] /\ 1 \in 1..Len(loop.rest) /\ Tail(loop.rest) \in Seq(Nat)
        /\ \A i \in 1..Len(Tail(loop.rest)) : i + 1 \in 1..Len(loop.rest) /\ Tail(loop.rest)[i] = loop.rest[i + 1]
    BY <1>2, <1>4, RangeHeadTail
  <1>6. v \in 1..rw.n /\ Owned(v)
    BY <1>2, <1>4, <1>5 DEF ArgsKnown, Owned
  <1> HIDE DEF v
  <1>7. Sound(rw, s, V, {}) /\ (\A w \in V : Owned(w))
    BY <1>2, <1>6, SoundDecUse
  <1> HIDE DEF s, V
  <1>8. /\ Good(s) /\ LiveOutsKnown(s) /\ ArgsKnown(s) /\ Guarded(s) /\ OneReg(s)
        /\ Client' /\ CalleesTaken' /\ s.args = rw.args /\ s.guarding = rw.guarding
    BY <1>1, <1>2, <1>4, <1>7, LoopKeeps
  <1>9. InArgs'
    <2>1. Call' = Call
      BY <1>2 DEF Call
    <2>2. \A i \in 1..Len(Tail(loop.rest)) : \E j \in 1..Len(rw.args) : rw.args[j] = Tail(loop.rest)[i]
      BY <1>4, <1>5
    <2> QED BY <1>1, <1>2, <1>4, <1>5, <1>8, <2>1, <2>2 DEF InArgs
  <1>10. ByLoop'
    BY <1>2, <1>9 DEF ByLoop
  <1> QED BY <1>1, <1>2, <1>8, <1>10 DEF IInv

LEMMA ArgsFreedKeeps ==
  ASSUME IInv, ArgsFreed
  PROVE  IInv'
  <1> DEFINE s == [rw EXCEPT !.args = <<>>]
  <1>1. Ends("args") /\ Answers(s)
    BY DEF ArgsFreed
  <1>2. /\ loop.op = "args"
        /\ Good(rw) /\ Shape(rw) /\ rw.n \in Nat /\ LiveOutsKnown(rw) /\ ArgsKnown(rw) /\ Guarded(rw) /\ OneReg(rw)
        /\ Client /\ ByLoop
    BY <1>1, EndsWhat
  <1>3. ~ rw.guarding /\ todo # <<>> /\ Call.op = "doneGuarding" /\ CalleesTaken
    BY <1>2 DEF ByLoop, InArgs
  <1>4. /\ Shape(s) /\ s.at = rw.at /\ s.n = rw.n /\ s.uses = rw.uses /\ s.val = rw.val /\ s.mach = rw.mach
        /\ s.right = rw.right /\ s.args = <<>> /\ s.live_outs = rw.live_outs /\ s.guarding = rw.guarding
    <2>1. Shape(rw)
      BY <1>2
    <2> QED BY <2>1, ArgsDoes
  <1> HIDE DEF s
  <1>5. Good(s) /\ OneReg(s)
    BY <1>2, <1>4, GoodElse
  <1>6. LiveOutsKnown(s) /\ Guarded(s)
    BY <1>2, <1>3, <1>4 DEF LiveOutsKnown, Guarded
  <1>7. ArgsKnown(s)
    BY <1>4 DEF ArgsKnown
  <1>8. rw' = s /\ todo' = Tail(todo) /\ loop' = NoLoop
    BY <1>1 DEF Answers
  <1>9. /\ Call \in ClientCalls /\ Tail(todo) \in Seq(ClientCalls) /\ CommitsLast(Tail(todo))
        /\ Tail(todo) # <<>> /\ "new" \notin DOMAIN Call
    BY <1>2, <1>3, ClientTail, CallFields DEF Commits
  <1>10. usage' \in [Names -> 0..s.n] /\ \A x \in Names : usage'[x] = usage[x] \/ usage'[x] = 0
    BY <1>1, <1>2, <1>4, <1>9, UsageAfter
  <1>11. Client'
    BY <1>3, <1>4, <1>8, <1>9, <1>10 DEF Client
  <1>12. CalleesTaken'
    <2> SUFFICES ASSUME NEW r \in Callees
                 PROVE  /\ r \in DOMAIN s.at
                        /\ \A x \in Names : usage'[x] # s.at[r]
                        /\ \A i \in 1..Len(s.args) : s.args[i] # s.at[r]
      BY <1>8 DEF CalleesTaken, Owned
    <2>1. r \in DOMAIN rw.at /\ ~ Owned(rw.at[r]) /\ rw.at[r] \in 1..rw.n
      BY <1>2, <1>3 DEF CalleesTaken, Good, Placed
    <2>2. \A x \in Names : usage[x] # rw.at[r]
      BY <2>1 DEF Owned
    <2> QED BY <1>2, <1>4, <1>10, <2>1, <2>2
  <1>13. loop'.op = "none" /\ loop' = Loop(loop'.op, loop'.rest)
    BY <1>8 DEF NoLoop, Loop
  <1>14. ByLoop'
    BY <1>8, <1>9, <1>12, <1>13 DEF ByLoop, InClient
  <1> QED BY <1>5, <1>6, <1>7, <1>8, <1>11, <1>13, <1>14 DEF IInv

LEMMA CallerSaves ==
  caller_save_registers \in Seq(CallClobbers) /\ Range(caller_save_registers) = CallClobbers
  <1> DEFINE regs == <<"RAX", "RCX", "RDX", "RSI", "RDI", "R8", "R9", "R10", "R11">>
             S == CallClobbers
  <1>1. Regs \ Callees = {"RAX", "RCX", "RDX", "RSI", "RDI", "R8", "R9", "R10", "R11"}
    BY RegNames
  <1>2. Range(regs) = {"RAX", "RCX", "RDX", "RSI", "RDI", "R8", "R9", "R10", "R11"}
    BY DEF Range
  <1>3. S = (Regs \ Callees) \cup Range(XMMs)
    BY PlaceFacts
  <1>4. regs \in Seq(S)
    BY <1>1, <1>3
  <1>5. XMMs \in Seq(S)
    <2>1. XMMs \in Seq(STRING)
      BY Rewriter2Assumption
    <2>2. DOMAIN XMMs = 1..Len(XMMs) /\ Len(XMMs) \in Nat
      BY <2>1
    <2>3. \A i \in 1..Len(XMMs) : XMMs[i] \in S
      BY <2>2, <1>3 DEF Range
    <2> QED BY <2>1, <2>2, <2>3, SeqDef
  <1>6. caller_save_registers = regs \o XMMs
    BY DEF caller_save_registers
  <1> HIDE DEF regs, S
  <1>7. Range(regs \o XMMs) = Range(regs) \cup Range(XMMs)
    BY <1>4, <1>5, RangeConcat
  <1>8. regs \o XMMs \in Seq(S)
    BY <1>4, <1>5
  <1> QED BY <1>1, <1>2, <1>3, <1>6, <1>7, <1>8 DEF S

LEMMA InCallKept ==
  ASSUME Good(rw), LiveOutsKnown(rw), ArgsKnown(rw), Guarded(rw), OneReg(rw), Client, InCall,
         NEW s, NEW V, NEW L, Sound(rw, s, V, L), rw' = s, usage' = usage, todo' = todo,
         \A v \in V : Owned(v), L \cap Callees = {}
  PROVE  /\ Good(s) /\ LiveOutsKnown(s) /\ ArgsKnown(s) /\ Guarded(s) /\ OneReg(s)
         /\ Client' /\ InCall' /\ Call' = Call
  <1>1. /\ ~ rw.guarding /\ todo # <<>> /\ Call.op = "call" /\ CalleesTaken
        /\ \A i \in 1..Len(Call.args) : usage[Call.args[i]] \in 1..rw.n
    BY DEF InCall
  <1>2. /\ Good(s) /\ LiveOutsKnown(s) /\ ArgsKnown(s) /\ Guarded(s) /\ OneReg(s)
        /\ Client' /\ CalleesTaken' /\ s.guarding = rw.guarding /\ rw.n <= s.n /\ s.n \in Nat /\ rw.n \in Nat
    BY <1>1, LoopKeeps DEF Good, Numbered
  <1>3. Call' = Call
    BY DEF Call
  <1>4. \A v \in 1..rw.n : v \in 1..s.n
    BY <1>2
  <1>5. InCall'
    BY <1>1, <1>2, <1>3, <1>4 DEF InCall
  <1> QED BY <1>2, <1>3, <1>5

LEMMA ClientCallsFuncKeeps ==
  ASSUME IInv, ClientCallsFunc
  PROVE  IInv'
  <1> DEFINE c == Check(rw, ~ rw.guarding)
             r == "R11"
             s == AllocReg(c, r)
             rest == [i \in 1..Len(Call.args) |-> i]
             L == {r}
  <1>1. Calls("call") /\ Enters(s, "pass", rest)
    BY DEF ClientCallsFunc
  <1>2. /\ Good(rw) /\ Shape(rw) /\ rw.n \in Nat
        /\ LiveOutsKnown(rw) /\ ArgsKnown(rw) /\ Guarded(rw) /\ OneReg(rw)
        /\ Client /\ CalleesTaken /\ todo # <<>> /\ Call \in ClientCalls /\ Call.op = "call"
    BY <1>1, ClientFacts
  <1>3. r \in Regs /\ r \notin Callees /\ r # AnyReg
    BY PlaceFacts
  <1> SUFFICES ASSUME Valid, s.asserts, rw' = s, usage' = usage, todo' = todo, loop' = Loop("pass", rest)
               PROVE  IInv'
    BY <1>1, <1>2, EntersWhat
  <1>4. /\ Sound(rw, c, {}, {}) /\ Good(c) /\ Shape(c)
        /\ c.asserts => ~ rw.guarding
    <2>1. (~ rw.guarding) \in BOOLEAN
      OBVIOUS
    <2> QED BY <1>2, <2>1, SoundCheck DEF Sound, Good
  <1> HIDE DEF c, r
  <1>5. c.asserts /\ Sound(c, s, {}, L)
    BY <1>3, <1>4, AllocDoes DEF Sound
  <1>6. Sound(rw, s, {}, L) /\ ~ rw.guarding /\ L \cap Callees = {}
    BY <1>2, <1>3, <1>4, <1>5, SoundThen
  <1>7. InCall
    <2>1. ASSUME NEW i \in 1..Len(Call.args) PROVE usage[Call.args[i]] \in 1..rw.n
      <3>1. Call.args[i] \in Names /\ usage[Call.args[i]] # 0
        BY <1>2, UsedNames DEF Valid
      <3> QED BY <1>2, <3>1, NamesOwned
    <2> QED BY <1>2, <1>6, <2>1 DEF InCall
  <1> HIDE DEF s, L
  <1>8. /\ Good(s) /\ LiveOutsKnown(s) /\ ArgsKnown(s) /\ Guarded(s) /\ OneReg(s)
        /\ Client' /\ InCall' /\ Call' = Call
    BY <1>2, <1>6, <1>7, InCallKept
  <1>9. loop'.op = "pass" /\ loop'.rest = rest /\ loop' = Loop(loop'.op, loop'.rest)
    BY LoopDoes
  <1>10. rest \in Seq(1..Len(Call.args))
    <2>1. Len(Call.args) \in Nat
      BY <1>2, CallFields, LenProperties
    <2> QED BY <2>1, SeqDef
  <1> HIDE DEF rest
  <1>11. InPass'
    BY <1>8, <1>9, <1>10 DEF InPass
  <1>12. ByLoop'
    BY <1>9, <1>11 DEF ByLoop
  <1> QED BY <1>8, <1>9, <1>12 DEF IInv

LEMMA PassOneKeeps ==
  ASSUME IInv, PassOne
  PROVE  IInv'
  <1> DEFINE i == Head(loop.rest)
             v == usage[Call.args[i]]
             s == PassArg(rw, i, v)
             L == {ForArg[i]}
             V == {v}
  <1>1. Turn("pass") /\ rw' = s
    BY DEF PassOne
  <1>2. /\ loop.op = "pass" /\ loop.rest # <<>> /\ usage' = usage /\ todo' = todo
        /\ loop'.op = "pass" /\ loop'.rest = Tail(loop.rest) /\ loop' = Loop(loop'.op, loop'.rest)
        /\ Good(rw) /\ LiveOutsKnown(rw) /\ ArgsKnown(rw) /\ Guarded(rw) /\ OneReg(rw)
        /\ Client /\ ByLoop
    BY <1>1, TurnWhat
  <1>3. InCall /\ loop.rest \in Seq(1..Len(Call.args))
    BY <1>2 DEF ByLoop, InPass
  <1>4. i \in 1..Len(Call.args) /\ Tail(loop.rest) \in Seq(1..Len(Call.args))
    BY <1>2, <1>3, RangeHeadTail
  <1>5. Call.op = "call" /\ v \in 1..rw.n /\ Call \in ClientCalls
    BY <1>2, <1>3, <1>4, ClientTail DEF InCall
  <1>6. i \in 1..Len(ForArg) /\ Owned(v)
    <2>1. Call.args \in Seq(Names) /\ Len(Call.args) <= Len(ForArg) /\ Len(Call.args) \in Nat /\ Call.args[i] \in Names
      BY <1>4, <1>5, CallFields, LenProperties, ElementOfSeq
    <2>2. Len(ForArg) \in Nat
      BY DEF ForArg
    <2>3. Owned(v)
      BY <2>1 DEF Owned
    <2> HIDE DEF i
    <2> QED BY <1>4, <2>1, <2>2, <2>3
  <1> SUFFICES ASSUME s.asserts PROVE IInv'
    BY <1>1 DEF IInv
  <1>7. L \cap Callees = {} /\ \A w \in V : Owned(w)
    BY <1>6, ForArgIsReg
  <1> HIDE DEF i, v
  <1>8. Sound(rw, s, V, L)
    BY <1>2, <1>5, <1>6, PassArgSound
  <1> HIDE DEF s, L, V
  <1>9. /\ Good(s) /\ LiveOutsKnown(s) /\ ArgsKnown(s) /\ Guarded(s) /\ OneReg(s)
        /\ Client' /\ InCall' /\ Call' = Call
    BY <1>1, <1>2, <1>3, <1>7, <1>8, InCallKept
  <1>10. InPass'
    BY <1>2, <1>4, <1>9 DEF InPass
  <1>11. ByLoop'
    BY <1>2, <1>10 DEF ByLoop
  <1> QED BY <1>1, <1>2, <1>9, <1>11 DEF IInv

LEMMA ArgsPassedKeeps ==
  ASSUME IInv, ArgsPassed
  PROVE  IInv'
  <1>1. Ends("pass") /\ loop' = Loop("save", caller_save_registers) /\ rw' = rw /\ usage' = usage /\ todo' = todo
    BY DEF ArgsPassed
  <1>2. /\ loop.op = "pass"
        /\ Good(rw) /\ LiveOutsKnown(rw) /\ ArgsKnown(rw) /\ Guarded(rw) /\ OneReg(rw)
        /\ Client /\ ByLoop
    BY <1>1, EndsWhat
  <1>3. InCall
    BY <1>2 DEF ByLoop, InPass
  <1>4. Client' /\ InCall'
    BY <1>1, <1>2, <1>3 DEF Client, InCall, Call, CalleesTaken, Owned
  <1>5. loop'.op = "save" /\ loop'.rest = caller_save_registers /\ loop' = Loop(loop'.op, loop'.rest)
    BY <1>1, LoopDoes
  <1>6. InSave'
    BY <1>1, <1>4, <1>5, CallerSaves DEF InSave
  <1>7. ByLoop'
    BY <1>5, <1>6 DEF ByLoop
  <1> QED BY <1>1, <1>2, <1>4, <1>5, <1>7 DEF IInv

LEMMA SaveOneKeeps ==
  ASSUME IInv, SaveOne
  PROVE  IInv'
  <1> DEFINE reg == Head(loop.rest)
             s == SaveRegister(rw, reg)
             L == {reg}
  <1>1. Turn("save") /\ rw' = s
    BY DEF SaveOne
  <1>2. /\ loop.op = "save" /\ loop.rest # <<>> /\ usage' = usage /\ todo' = todo
        /\ loop'.op = "save" /\ loop'.rest = Tail(loop.rest) /\ loop' = Loop(loop'.op, loop'.rest)
        /\ Good(rw) /\ LiveOutsKnown(rw) /\ ArgsKnown(rw) /\ Guarded(rw) /\ OneReg(rw)
        /\ Client /\ ByLoop
    BY <1>1, TurnWhat
  <1>3. /\ InCall /\ loop.rest \in Seq(CallClobbers)
        /\ \A l \in DOMAIN rw.at : l \in CallClobbers => l \in Range(loop.rest)
    BY <1>2 DEF ByLoop, InSave
  <1>4. /\ reg \in CallClobbers /\ Tail(loop.rest) \in Seq(CallClobbers)
        /\ Range(loop.rest) = {reg} \cup Range(Tail(loop.rest))
    BY <1>2, <1>3, RangeHeadTail
  <1>5. ~ rw.guarding
    BY <1>3 DEF InCall
  <1> SUFFICES ASSUME s.asserts PROVE IInv'
    BY <1>1 DEF IInv
  <1> HIDE DEF reg
  <1>6. /\ Sound(rw, s, {}, L) /\ reg \notin DOMAIN s.at
        /\ \A l \in DOMAIN s.at : l \in DOMAIN rw.at \/ l \notin CallClobbers
    BY <1>2, <1>4, <1>5, SaveRegisterSound
  <1>7. L \cap Callees = {}
    BY <1>4, PlaceFacts
  <1> HIDE DEF s, L
  <1>8. /\ Good(s) /\ LiveOutsKnown(s) /\ ArgsKnown(s) /\ Guarded(s) /\ OneReg(s)
        /\ Client' /\ InCall' /\ Call' = Call
    BY <1>1, <1>2, <1>3, <1>6, <1>7, InCallKept
  <1>9. InSave'
    <2>1. \A l \in DOMAIN s.at : l \in CallClobbers => l \in Range(Tail(loop.rest))
      BY <1>3, <1>4, <1>6
    <2> QED BY <1>1, <1>2, <1>4, <1>8, <2>1 DEF InSave
  <1>10. ByLoop'
    BY <1>2, <1>9 DEF ByLoop
  <1> QED BY <1>1, <1>2, <1>8, <1>10 DEF IInv

LEMMA FunctionReturnsKeeps ==
  ASSUME IInv, FunctionReturns
  PROVE  IInv'
  <1> DEFINE func == Call.func
             vals == [i \in 1..Len(Call.args) |-> rw.val[usage[Call.args[i]]]]
             b == NothingClobbered(rw)
             c == Check(rw, b)
             s == CallFunction(c, func, vals)
  <1>1. Ends("save") /\ Answers(s)
    BY DEF FunctionReturns
  <1>2. /\ loop.op = "save" /\ loop.rest = <<>>
        /\ Good(rw) /\ LiveOutsKnown(rw) /\ ArgsKnown(rw) /\ Guarded(rw) /\ OneReg(rw)
        /\ Client /\ ByLoop
    BY <1>1, EndsWhat
  <1>3. InCall /\ \A l \in DOMAIN rw.at : l \in CallClobbers => l \in Range(loop.rest)
    BY <1>2 DEF ByLoop, InSave
  <1>4. \A l \in DOMAIN rw.at : l \notin CallClobbers
    <2>1. Range(<<>>) = {}
      BY DEF Range
    <2> QED BY <1>2, <1>3, <2>1
  <1>5. todo # <<>> /\ Call.op = "call" /\ CalleesTaken /\ Call.op \notin Commits /\ Call.op # "doneGuarding"
    BY <1>3 DEF InCall, Commits
  <1> SUFFICES ASSUME s.asserts PROVE IInv'
    BY <1>1 DEF IInv, Answers
  <1> HIDE DEF func, vals
  <1>7. Sound(rw, c, {}, {}) /\ Good(c) /\ c.n = rw.n /\ c.at = rw.at
    <2>1. b \in BOOLEAN
      BY DEF NothingClobbered
    <2> QED BY <1>2, <2>1, SoundCheck DEF Sound
  <1> HIDE DEF c
  <1>8. Sound(c, s, {}, {}) /\ s.n = c.n + 1
    BY <1>4, <1>7, CallFunctionSound
  <1>6. Sound(rw, s, {}, {}) /\ s.n = rw.n + 1
    BY <1>2, <1>7, <1>8, SoundThen
  <1> HIDE DEF s
  <1> QED BY <1>1, <1>2, <1>5, <1>6, AnswersKeep

------------------------------------------------------------------------------
(***************************************************************************)
(* commit.                                                                 *)
(***************************************************************************)
LEMMA EnterRestore ==
  ASSUME Good(rw), LiveOutsKnown(rw), ArgsKnown(rw), Guarded(rw), OneReg(rw), Client, CalleesTaken,
         ~ rw.guarding, todo # <<>>, Call.op \in Commits,
         NEW s, NEW V, Sound(rw, s, V, {}), rw' = s, usage' = usage, todo' = todo,
         \A v \in V : Owned(v), loop' = Loop("restore", rw.live_outs)
  PROVE  IInv'
  <1>1. /\ Good(s) /\ LiveOutsKnown(s) /\ ArgsKnown(s) /\ Guarded(s) /\ Client'
        /\ s.live_outs = rw.live_outs /\ s.guarding = rw.guarding
    BY LoopKeeps
  <1>2. loop'.op = "restore" /\ loop'.rest = rw.live_outs /\ loop' = Loop(loop'.op, loop'.rest)
    BY LoopDoes
  <1>3. Call' = Call
    BY DEF Call
  <1>4. InRestore'
    <2>1. /\ s.live_outs \in Seq([reg : Registers, var : Nat])
          /\ \A i \in 1..Len(s.live_outs) :
               s.live_outs[i].var \in 1..s.n /\ s.val[s.live_outs[i].var] = Entry(s.live_outs[i].reg)
      BY <1>1 DEF LiveOutsKnown
    <2>2. \A i \in 1..Len(s.live_outs) : \E j \in 1..Len(s.live_outs) : s.live_outs[j] = s.live_outs[i]
      OBVIOUS
    <2> QED BY <1>1, <1>2, <1>3, <2>1, <2>2 DEF InRestore
  <1>5. ByLoop'
    BY <1>2, <1>4 DEF ByLoop
  <1> QED BY <1>1, <1>2, <1>5 DEF IInv

LEMMA ClientCommitsKeeps ==
  ASSUME IInv, ClientCommits
  PROVE  IInv'
  <1> DEFINE s == Check(rw, ~ rw.guarding)
  <1>1. Calls("commit") /\ Enters(s, "restore", rw.live_outs)
    BY DEF ClientCommits
  <1>2. /\ Good(rw) /\ Shape(rw)
        /\ LiveOutsKnown(rw) /\ ArgsKnown(rw) /\ Guarded(rw) /\ OneReg(rw)
        /\ Client /\ CalleesTaken /\ todo # <<>> /\ Call.op \in Commits
    BY <1>1, ClientFacts DEF Commits
  <1>3. Sound(rw, s, {}, {}) /\ (s.asserts => ~ rw.guarding)
    <2>1. (~ rw.guarding) \in BOOLEAN
      OBVIOUS
    <2> QED BY <1>2, <2>1, SoundCheck
  <1> HIDE DEF s
  <1> SUFFICES ASSUME s.asserts, rw' = s, usage' = usage, todo' = todo, loop' = Loop("restore", rw.live_outs)
               PROVE  IInv'
    BY <1>1, <1>2, EntersWhat
  <1> QED BY <1>2, <1>3, EnterRestore

LEMMA ClientCommitsReturningKeeps ==
  ASSUME IInv, ClientCommitsReturning
  PROVE  IInv'
  <1> DEFINE b == ~ rw.guarding /\ "RAX" \in Where(rw, On)
             c == Check(rw, b)
             rax == "RAX"
             o == Operand(c, rax, On)
             s == DecUse(o, On)
             V == {On}
  <1>1. Calls("commitReturning") /\ Enters(s, "restore", rw.live_outs)
    BY DEF ClientCommitsReturning
  <1>2. /\ Good(rw) /\ Shape(rw) /\ rw.n \in Nat
        /\ LiveOutsKnown(rw) /\ ArgsKnown(rw) /\ Guarded(rw) /\ OneReg(rw)
        /\ Client /\ CalleesTaken /\ todo # <<>> /\ Call \in ClientCalls /\ Call.op = "commitReturning"
    BY <1>1, ClientFacts
  <1>3. /\ Sound(rw, c, {}, {}) /\ Good(c) /\ Shape(c) /\ c.n = rw.n /\ c.at = rw.at
        /\ c.asserts => b
    <2>1. b \in BOOLEAN
      OBVIOUS
    <2> HIDE DEF b
    <2> QED BY <1>2, <2>1, SoundCheck DEF Sound, Good
  <1>4. b => ~ rw.guarding /\ rax \in DOMAIN rw.at /\ rw.at[rax] = On /\ rax \in Places
    BY PlaceFacts DEF Where
  <1> HIDE DEF b, c, rax
  <1>5. Shape(o) /\ o.asserts = c.asserts
    BY <1>3, OperandDoes
  <1>6. s.asserts = o.asserts
    BY <1>5, DecUseStops
  <1> SUFFICES ASSUME Valid, s.asserts, rw' = s, usage' = usage, todo' = todo,
                      loop' = Loop("restore", rw.live_outs)
               PROVE  IInv'
    BY <1>1, <1>2, EntersWhat
  <1>7. b
    BY <1>3, <1>5, <1>6
  <1>8. Sound(c, o, {}, {}) /\ o.n = c.n
    BY <1>3, <1>4, <1>7, SoundOperand
  <1> HIDE DEF o
  <1>9. Sound(rw, o, {}, {}) /\ Good(o) /\ o.n = rw.n
    BY <1>2, <1>3, <1>8, SoundThen DEF Sound
  <1>10. Owned(On) /\ On \in 1..rw.n
    <2>1. Call.on \in Names /\ usage[Call.on] # 0
      BY <1>2, UsedNames DEF Valid
    <2> QED BY <2>1, <1>2, NamesOwned DEF On
  <1>11. Sound(o, s, V, {})
    BY <1>9, <1>10, SoundDecUse
  <1>12. \A v \in V : Owned(v)
    BY <1>10
  <1> HIDE DEF s, V
  <1>13. Sound(rw, s, V, {})
    BY <1>2, <1>9, <1>11, SoundThen
  <1>14. Call.op \in Commits /\ ~ rw.guarding
    BY <1>2, <1>4, <1>7 DEF Commits
  <1> QED BY <1>2, <1>12, <1>13, <1>14, EnterRestore

LEMMA RestoreOneKeeps ==
  ASSUME IInv, RestoreOne
  PROVE  IInv'
  <1> DEFINE liveOut == Head(loop.rest)
             s == Restore(rw, liveOut)
             rest == Tail(loop.rest)
  <1>1. Turn("restore") /\ rw' = s
    BY DEF RestoreOne
  <1>2. /\ loop.op = "restore" /\ loop.rest # <<>> /\ usage' = usage /\ todo' = todo
        /\ loop'.op = "restore" /\ loop'.rest = rest /\ loop' = Loop(loop'.op, loop'.rest)
        /\ Good(rw) /\ LiveOutsKnown(rw) /\ ArgsKnown(rw) /\ Guarded(rw) /\ rw.n \in Nat
        /\ Client /\ ByLoop
    BY <1>1, TurnWhat
  <1>3. InRestore
    BY <1>2 DEF ByLoop
  <1>4. /\ ~ rw.guarding /\ todo # <<>> /\ Call.op \in Commits
        /\ loop.rest \in Seq([reg : Registers, var : Nat])
        /\ \A i \in 1..Len(loop.rest) :
             loop.rest[i].var \in 1..rw.n /\ rw.val[loop.rest[i].var] = Entry(loop.rest[i].reg)
        /\ \A i \in 1..Len(rw.live_outs) :
             \/ \E j \in 1..Len(loop.rest) : loop.rest[j] = rw.live_outs[i]
             \/ rw.mach[rw.live_outs[i].reg] = Entry(rw.live_outs[i].reg)
    BY <1>3 DEF InRestore
  <1>5. /\ liveOut \in [reg : Registers, var : Nat] /\ liveOut = loop.rest[1] /\ 1 \in 1..Len(loop.rest)
        /\ rest \in Seq([reg : Registers, var : Nat]) /\ Len(rest) = Len(loop.rest) - 1
        /\ \A i \in 1..Len(rest) : i + 1 \in 1..Len(loop.rest) /\ rest[i] = loop.rest[i + 1]
    BY <1>2, <1>4, RangeHeadTail
  <1>6. liveOut.reg \in Registers /\ liveOut.var \in 1..rw.n /\ rw.val[liveOut.var] = Entry(liveOut.reg)
    BY <1>4, <1>5
  <1> SUFFICES ASSUME s.asserts PROVE IInv'
    BY <1>1 DEF IInv
  <1> HIDE DEF liveOut, rest
  <1>7. /\ Good(s) /\ Kept(rw, s, {liveOut.var}, {}) /\ s.n = rw.n
        /\ s.mach[liveOut.reg] = Entry(liveOut.reg)
        /\ \A l \in Places : l # liveOut.reg => s.mach[l] = rw.mach[l]
    BY <1>2, <1>6, RestoreSound
  <1> HIDE DEF s
  <1>8. LiveOutsKnown(s) /\ ArgsKnown(s)
    BY <1>2, <1>7, KnownKept
  <1>9. s.guarding = rw.guarding /\ s.live_outs = rw.live_outs /\ \A v \in 1..rw.n : s.val[v] = rw.val[v]
    BY <1>7 DEF Kept, Frame
  <1>10. Guarded(s)
    BY <1>4, <1>9 DEF Guarded
  <1>11. Client'
    BY <1>1, <1>2, <1>7, <1>9 DEF Client
  <1>12. \A i \in 1..Len(rest) : rest[i].var \in 1..s.n /\ s.val[rest[i].var] = Entry(rest[i].reg)
    <2> SUFFICES ASSUME NEW i \in 1..Len(rest)
                 PROVE  rest[i].var \in 1..s.n /\ s.val[rest[i].var] = Entry(rest[i].reg)
      OBVIOUS
    <2> DEFINE lo == rest[i]
    <2>1. i + 1 \in 1..Len(loop.rest) /\ lo = loop.rest[i + 1]
      BY <1>5
    <2>2. lo.var \in 1..rw.n /\ rw.val[lo.var] = Entry(lo.reg)
      BY <1>4, <2>1
    <2> HIDE DEF lo
    <2>3. lo.var \in 1..s.n /\ s.val[lo.var] = Entry(lo.reg)
      BY <1>7, <1>9, <2>2
    <2> QED BY <2>3 DEF lo
  <1>13. ASSUME NEW i \in 1..Len(rw.live_outs)
         PROVE  \/ \E j \in 1..Len(rest) : rest[j] = rw.live_outs[i]
                \/ s.mach[rw.live_outs[i].reg] = Entry(rw.live_outs[i].reg)
    <2> DEFINE lo == rw.live_outs[i]
    <2>1. lo.reg \in Places
      <3>1. lo \in [reg : Registers, var : Nat]
        BY <1>2, ElementOfSeq DEF LiveOutsKnown
      <3> QED BY <3>1, PlaceFacts DEF Registers
    <2>2. \/ \E j \in 1..Len(loop.rest) : loop.rest[j] = lo
          \/ rw.mach[lo.reg] = Entry(lo.reg)
      BY <1>4
    <2> HIDE DEF lo
    <2>3. CASE rw.mach[lo.reg] = Entry(lo.reg)
      <3>1. s.mach[lo.reg] = Entry(lo.reg)
        BY <1>7, <2>1, <2>3
      <3> QED BY <3>1 DEF lo
    <2>4. CASE \E j \in 1..Len(loop.rest) : loop.rest[j] = lo
      <3>1. PICK j \in 1..Len(loop.rest) : loop.rest[j] = lo
        BY <2>4
      <3>2. CASE j = 1
        BY <1>5, <1>7, <3>1, <3>2 DEF lo
      <3>3. CASE j # 1
        <4>1. j - 1 \in 1..Len(rest) /\ Len(loop.rest) \in Nat
          BY <1>4, <1>5, <3>3
        <4>2. rest[j - 1] = loop.rest[j - 1 + 1] /\ j - 1 + 1 = j
          BY <1>5, <4>1
        <4> QED BY <3>1, <4>1, <4>2 DEF lo
      <3> QED BY <3>2, <3>3
    <2> QED BY <2>2, <2>3, <2>4
  <1>14. Call' = Call
    BY <1>2 DEF Call
  <1>15. InRestore'
    BY <1>1, <1>2, <1>4, <1>5, <1>9, <1>12, <1>13, <1>14 DEF InRestore
  <1>16. ByLoop'
    BY <1>2, <1>15 DEF ByLoop
  <1> QED BY <1>1, <1>2, <1>7, <1>8, <1>10, <1>11, <1>16 DEF IInv

LEMMA AllRestoredKeeps ==
  ASSUME IInv, AllRestored
  PROVE  IInv'
  <1> DEFINE b == rw.at = <<>>
             s == Check(rw, b)
  <1>1. Ends("restore") /\ Answers(s)
    BY DEF AllRestored
  <1>2. /\ loop.op = "restore" /\ loop.rest = <<>>
        /\ Good(rw) /\ Shape(rw) /\ rw.n \in Nat /\ LiveOutsKnown(rw) /\ ArgsKnown(rw) /\ Guarded(rw)
        /\ Client /\ ByLoop
    BY <1>1, EndsWhat
  <1>3. /\ ~ rw.guarding /\ todo # <<>> /\ Call.op \in Commits
        /\ \A i \in 1..Len(rw.live_outs) :
             \/ \E j \in 1..Len(loop.rest) : loop.rest[j] = rw.live_outs[i]
             \/ rw.mach[rw.live_outs[i].reg] = Entry(rw.live_outs[i].reg)
    BY <1>2 DEF ByLoop, InRestore
  <1>4. b \in BOOLEAN /\ (b => DOMAIN rw.at = {})
    OBVIOUS
  <1> HIDE DEF b
  <1>5. /\ Sound(rw, s, {}, {}) /\ s.n = rw.n /\ s.at = rw.at /\ s.mach = rw.mach /\ s.guarding = rw.guarding
        /\ s.asserts => b
    BY <1>2, <1>4, SoundCheck
  <1> SUFFICES ASSUME s.asserts PROVE IInv'
    BY <1>1 DEF IInv, Answers
  <1> HIDE DEF s
  <1>6. Good(s) /\ Kept(rw, s, {}, {}) /\ s.live_outs = rw.live_outs
    BY <1>5 DEF Sound, Kept, Frame
  <1>7. LiveOutsKnown(s) /\ ArgsKnown(s) /\ Guarded(s)
    BY <1>2, <1>6, KnownKept, GuardedKept
  <1>8. OneReg(s)
    BY <1>4, <1>5 DEF OneReg
  <1>9. rw' = s /\ todo' = Tail(todo) /\ loop' = NoLoop
    BY <1>1 DEF Answers
  <1>10. Tail(todo) \in Seq(ClientCalls) /\ CommitsLast(Tail(todo)) /\ Tail(todo) = <<>>
    BY <1>2, <1>3, ClientTail
  <1>11. usage' \in [Names -> 0..s.n]
    BY <1>1, <1>2, <1>5, UsageAfter
  <1>12. Client'
    BY <1>3, <1>5, <1>9, <1>10, <1>11 DEF Client
  <1>13. LiveOutsRestored'
    <2>1. \A i \in 1..Len(s.live_outs) : s.mach[s.live_outs[i].reg] = Entry(s.live_outs[i].reg)
      <3>1. ~ \E j \in 1..Len(loop.rest) : TRUE
        BY <1>2
      <3> QED BY <1>3, <1>5, <1>6, <3>1
    <2> QED BY <1>9, <2>1 DEF LiveOutsRestored
  <1>14. loop'.op = "none" /\ loop' = Loop(loop'.op, loop'.rest)
    BY <1>9 DEF NoLoop, Loop
  <1>15. ByLoop'
    BY <1>9, <1>10, <1>13, <1>14 DEF ByLoop, InClient
  <1> QED BY <1>6, <1>7, <1>8, <1>9, <1>12, <1>14, <1>15 DEF IInv

------------------------------------------------------------------------------
(***************************************************************************)
(* createRewriter.                                                         *)
(***************************************************************************)
LEMMA LiveOutsDoes ==
  ASSUME NEW s, Shape(s), NEW a
  PROVE  LET t == [s EXCEPT !.live_outs = a] IN
         /\ Shape(t) /\ t.at = s.at /\ t.n = s.n /\ t.uses = s.uses /\ t.val = s.val /\ t.mach = s.mach
         /\ t.right = s.right /\ t.args = s.args /\ t.live_outs = a /\ t.guarding = s.guarding
         /\ t.asserts = s.asserts
  BY DEF Shape

LEMMA UsesDoes ==
  ASSUME NEW s, Shape(s), NEW f
  PROVE  LET t == [s EXCEPT !.uses = f] IN
         /\ Shape(t) /\ t.at = s.at /\ t.n = s.n /\ t.uses = f /\ t.val = s.val /\ t.mach = s.mach
         /\ t.right = s.right /\ t.args = s.args /\ t.live_outs = s.live_outs /\ t.guarding = s.guarding
         /\ t.asserts = s.asserts
  BY DEF Shape

\* More uses, while everything is in a place.
LEMMA MoreUsesGood ==
  ASSUME NEW s, Good(s), DOMAIN s.at \subseteq Places, \A v \in 1..s.n : s.uses[v] > 0,
         NEW f, DOMAIN f = 1..s.n, \A v \in 1..s.n : f[v] \in {s.uses[v], s.uses[v] + 1},
         NEW t, Shape(t), t.at = s.at, t.n = s.n, t.uses = f, t.val = s.val, t.mach = s.mach, t.right = s.right
  PROVE  Good(t) /\ (OneReg(s) => OneReg(t)) /\ \A v \in 1..t.n : t.uses[v] > 0
  <1>1. \A v \in 1..s.n : s.uses[v] \in Int
    BY DEF Good, Numbered
  <1>2. \A v \in 1..s.n : f[v] \in Int /\ f[v] > 0
    BY <1>1
  <1>3. Numbered(t)
    BY <1>2 DEF Good, Numbered
  <1>4. Placed(t)
    BY <1>2 DEF Good, Placed
  <1>5. Holds(t)
    BY DEF Good, Holds
  <1>6. ConstsApart(t)
    BY DEF ConstsApart
  <1> QED BY <1>2, <1>3, <1>4, <1>5, <1>6 DEF Good, OneReg

\* What there is once a register has its variable.
LEMMA LiveOutVar ==
  ASSUME NEW s, Good(s), OneReg(s), DOMAIN s.at \subseteq Places, \A v \in 1..s.n : s.uses[v] > 0,
         NEW reg \in Places, s.mach[reg] = Entry(reg)
  PROVE  LET t == IF reg \in DOMAIN s.at THEN [s EXCEPT !.uses[s.at[reg]] = @ + 1]
                  ELSE CreateNewVar(s, reg, Entry(reg))
         IN  /\ Good(t) /\ OneReg(t) /\ Frame(s, t) /\ t.mach = s.mach /\ s.n <= t.n
             /\ DOMAIN t.at = DOMAIN s.at \cup {reg}
             /\ \A m \in DOMAIN s.at : t.at[m] = s.at[m]
             /\ \A v \in 1..s.n : t.val[v] = s.val[v]
             /\ \A v \in 1..t.n : t.uses[v] > 0
             /\ t.at[reg] \in 1..t.n /\ t.val[t.at[reg]] = Entry(reg)
             /\ reg \notin DOMAIN s.at => t.at[reg] \notin 1..s.n
  <1> DEFINE old == [s EXCEPT !.uses[s.at[reg]] = @ + 1]
             new == CreateNewVar(s, reg, Entry(reg))
             g == IF reg \in DOMAIN s.at THEN old ELSE new
  <1> SUFFICES /\ Good(g) /\ OneReg(g) /\ Frame(s, g) /\ g.mach = s.mach /\ s.n <= g.n
               /\ DOMAIN g.at = DOMAIN s.at \cup {reg}
               /\ \A m \in DOMAIN s.at : g.at[m] = s.at[m]
               /\ \A v \in 1..s.n : g.val[v] = s.val[v]
               /\ \A v \in 1..g.n : g.uses[v] > 0
               /\ g.at[reg] \in 1..g.n /\ g.val[g.at[reg]] = Entry(reg)
               /\ reg \notin DOMAIN s.at => g.at[reg] \notin 1..s.n
    OBVIOUS
  <1>1. Shape(s) /\ Numbered(s) /\ Placed(s) /\ s.n \in Nat
    BY DEF Good, Numbered
  <1> HIDE DEF old, new
  <1>2. CASE reg \in DOMAIN s.at
    <2> DEFINE v == s.at[reg]
               f == [s.uses EXCEPT ![v] = s.uses[v] + 1]
               t == [s EXCEPT !.uses = f]
    <2>1. g = t
      <3>1. old = t
        BY <1>1 DEF Shape, old
      <3> QED BY <1>2, <3>1
    <2>2. v \in 1..s.n /\ s.val[v] = Entry(reg)
      BY <1>2 DEF Good, Placed, Holds
    <2>3. DOMAIN f = 1..s.n /\ \A w \in 1..s.n : f[w] \in {s.uses[w], s.uses[w] + 1}
      BY <1>1 DEF Numbered
    <2> HIDE DEF f, v
    <2>4. /\ Shape(t) /\ t.at = s.at /\ t.n = s.n /\ t.uses = f /\ t.val = s.val /\ t.mach = s.mach
          /\ t.right = s.right /\ Frame(s, t)
      BY <1>1, UsesDoes DEF Frame
    <2> HIDE DEF t
    <2>5. Good(t) /\ OneReg(t) /\ \A w \in 1..t.n : t.uses[w] > 0
      BY <2>3, <2>4, MoreUsesGood
    <2>6. DOMAIN t.at = DOMAIN s.at \cup {reg} /\ t.at[reg] = v
      BY <1>2, <2>4 DEF v
    <2>7. s.n <= t.n
      BY <1>1, <2>4
    <2> HIDE DEF g
    <2> QED BY <1>2, <2>1, <2>2, <2>4, <2>5, <2>6, <2>7
  <1>3. CASE reg \notin DOMAIN s.at
    <2> DEFINE x == Entry(reg)
               t == CreateNewVar(s, reg, x)
    <2> HIDE DEF x
    <2>1. /\ Shape(t) /\ Frame(s, t) /\ Numbered(t)
          /\ t.mach = s.mach /\ t.right = s.right
          /\ t.n = s.n + 1
          /\ t.uses[t.n] = 1 /\ \A v \in 1..s.n : t.uses[v] = s.uses[v]
          /\ t.val[t.n] = x /\ \A v \in 1..s.n : t.val[v] = s.val[v]
          /\ DOMAIN t.at = DOMAIN s.at \cup {reg} /\ t.at[reg] = t.n
          /\ \A m \in DOMAIN s.at : m # reg => t.at[m] = s.at[m]
      BY <1>1, CreateNewVarDoes
    <2>2. SameVars(CreateNewVar(s, reg, x), t)
      BY DEF SameVars, Frame
    <2>3. Wrote(s, t, reg, x)
      BY <2>1 DEF Wrote, x
    <2>4. Good(t) /\ OneReg(t)
      BY <1>3, <2>1, <2>2, <2>3, GoodCreate
    <2>8. g = t
      BY <1>3 DEF new, x
    <2> HIDE DEF t, g
    <2>5. \A v \in 1..t.n : t.uses[v] > 0
      <3>1. \A v \in 1..t.n : v = t.n \/ v \in 1..s.n
        BY <1>1, <2>1
      <3> QED BY <2>1, <3>1
    <2>6. \A m \in DOMAIN s.at : t.at[m] = s.at[m]
      BY <1>3, <2>1
    <2>7. t.at[reg] \in 1..t.n /\ t.at[reg] \notin 1..s.n /\ t.val[t.at[reg]] = x /\ s.n <= t.n
      BY <1>1, <2>1
    <2> QED BY <1>3, <2>1, <2>4, <2>5, <2>6, <2>7, <2>8 DEF x
  <1> QED BY <1>2, <1>3

LEMMA LiveOutTurnKeeps ==
  ASSUME IInv, LiveOutTurn
  PROVE  IInv'
  <1> DEFINE reg == Head(loop.rest)
             t == IF reg \in DOMAIN rw.at THEN [rw EXCEPT !.uses[rw.at[reg]] = @ + 1]
                  ELSE CreateNewVar(rw, reg, Entry(reg))
             e == [reg |-> reg, var |-> t.at[reg]]
             los == Append(t.live_outs, e)
             s == [t EXCEPT !.live_outs = los]
             old == rw.live_outs
  <1>1. Turn("liveOuts") /\ rw' = s
    BY DEF LiveOutTurn, AddLiveOut
  <1>2. /\ loop.op = "liveOuts" /\ loop.rest # <<>> /\ usage' = usage /\ todo' = todo
        /\ loop'.op = "liveOuts" /\ loop'.rest = Tail(loop.rest) /\ loop' = Loop(loop'.op, loop'.rest)
        /\ Good(rw) /\ rw.n \in Nat /\ LiveOutsKnown(rw) /\ ArgsKnown(rw) /\ Guarded(rw) /\ OneReg(rw)
        /\ Client /\ ByLoop
    BY <1>1, TurnWhat
  <1>3. /\ rw.guarding /\ loop.rest \in Seq(Registers)
        /\ \A l \in Places : rw.mach[l] = Entry(l)
        /\ DOMAIN rw.at \subseteq Places
        /\ \A v \in 1..rw.n : rw.uses[v] > 0
        /\ \A r \in Callees : /\ r \in DOMAIN rw.at => ~ Owned(rw.at[r])
                              /\ r \in DOMAIN rw.at \/ r \in Range(loop.rest)
    BY <1>2 DEF ByLoop, InLiveOuts
  <1>4. /\ reg \in Registers /\ Tail(loop.rest) \in Seq(Registers)
        /\ Range(loop.rest) = {reg} \cup Range(Tail(loop.rest))
    BY <1>2, <1>3, RangeHeadTail
  <1>5. reg \in Places /\ rw.mach[reg] = Entry(reg)
    BY <1>3, <1>4, PlaceFacts DEF Registers
  <1> HIDE DEF reg
  <1>6. /\ Good(t) /\ OneReg(t) /\ Frame(rw, t) /\ t.mach = rw.mach /\ rw.n <= t.n
        /\ DOMAIN t.at = DOMAIN rw.at \cup {reg}
        /\ \A m \in DOMAIN rw.at : t.at[m] = rw.at[m]
        /\ \A v \in 1..rw.n : t.val[v] = rw.val[v]
        /\ \A v \in 1..t.n : t.uses[v] > 0
        /\ t.at[reg] \in 1..t.n /\ t.val[t.at[reg]] = Entry(reg)
        /\ reg \notin DOMAIN rw.at => t.at[reg] \notin 1..rw.n
    BY <1>2, <1>3, <1>5, LiveOutVar
  <1> HIDE DEF t
  <1>7. Shape(t) /\ t.n \in Nat /\ \A v \in 1..rw.n : v \in 1..t.n
    BY <1>2, <1>6 DEF Good, Numbered
  <1>8. /\ Shape(s) /\ s.at = t.at /\ s.n = t.n /\ s.uses = t.uses /\ s.val = t.val /\ s.mach = t.mach
        /\ s.right = t.right /\ s.args = t.args /\ s.live_outs = los /\ s.guarding = t.guarding
    <2> HIDE DEF los
    <2> QED BY <1>7, LiveOutsDoes
  <1> HIDE DEF s
  <1>9. Good(s) /\ OneReg(s)
    BY <1>6, <1>8, GoodElse
  <1>10. s.args = rw.args /\ t.live_outs = old /\ s.guarding = rw.guarding
    BY <1>6, <1>8 DEF Frame
  <1>11. e \in [reg : Registers, var : Nat] /\ e.reg = reg /\ e.var = t.at[reg]
    BY <1>4, <1>6, <1>7
  <1> HIDE DEF e
  <1>12. old \in Seq([reg : Registers, var : Nat])
    BY <1>2 DEF LiveOutsKnown
  <1>13. /\ los \in Seq([reg : Registers, var : Nat]) /\ Len(los) = Len(old) + 1 /\ Len(old) \in Nat
         /\ \A i \in 1..Len(los) : \/ i \in 1..Len(old) /\ los[i] = old[i]
                                   \/ los[i] = e
    BY <1>10, <1>11, <1>12, AppendProperties
  <1> HIDE DEF los, old
  <1>14. LiveOutsKnown(s)
    <2>1. ASSUME NEW i \in 1..Len(los) PROVE los[i].var \in 1..s.n /\ s.val[los[i].var] = Entry(los[i].reg)
      <3>1. CASE los[i] = e
        BY <1>6, <1>8, <1>11, <3>1
      <3>2. CASE i \in 1..Len(old) /\ los[i] = old[i]
        <4>1. old[i].var \in 1..rw.n /\ rw.val[old[i].var] = Entry(old[i].reg)
          BY <1>2, <3>2 DEF LiveOutsKnown, old
        <4> QED BY <1>6, <1>7, <1>8, <3>2, <4>1
      <3> QED BY <1>13, <3>1, <3>2
    <2> QED BY <1>8, <1>13, <2>1 DEF LiveOutsKnown
  <1>15. ArgsKnown(s)
    BY <1>2, <1>7, <1>8, <1>10 DEF ArgsKnown
  <1>16. ASSUME NEW r \in DOMAIN rw.at PROVE r \in DOMAIN s.at /\ s.val[s.at[r]] = rw.val[rw.at[r]]
    <2>1. rw.at[r] \in 1..rw.n
      BY <1>2 DEF Good, Placed
    <2> QED BY <1>6, <1>8, <2>1
  <1>17. Guarded(s)
    <2>1. ASSUME NEW i \in 1..Len(los)
          PROVE  LET r == los[i].reg IN r \in DOMAIN s.at /\ s.val[s.at[r]] = Entry(r)
      <3>1. CASE los[i] = e
        BY <1>6, <1>8, <1>11, <3>1
      <3>2. CASE i \in 1..Len(old) /\ los[i] = old[i]
        <4> DEFINE r == old[i].reg
        <4>1. r \in DOMAIN rw.at /\ rw.val[rw.at[r]] = Entry(r)
          BY <1>2, <1>3, <3>2 DEF Guarded, old
        <4> HIDE DEF r
        <4>2. r \in DOMAIN s.at /\ s.val[s.at[r]] = Entry(r)
          BY <1>16, <4>1
        <4> QED BY <3>2, <4>2 DEF r
      <3> QED BY <1>13, <3>1, <3>2
    <2>2. ASSUME NEW i \in 1..Len(rw.args)
          PROVE  ForArg[i] \in DOMAIN s.at /\ s.val[s.at[ForArg[i]]] = Entry(ForArg[i])
      <3> DEFINE r == ForArg[i]
      <3>1. r \in DOMAIN rw.at /\ rw.val[rw.at[r]] = Entry(r)
        BY <1>2, <1>3 DEF Guarded
      <3> HIDE DEF r
      <3>2. r \in DOMAIN s.at /\ s.val[s.at[r]] = Entry(r)
        BY <1>16, <3>1
      <3> QED BY <3>2 DEF r
    <2>3. Len(rw.args) <= Len(ForArg)
      BY <1>2, <1>3 DEF Guarded
    <2> QED BY <1>8, <1>10, <2>1, <2>2, <2>3 DEF Guarded
  <1>18. Client'
    <2>1. usage \in [Names -> 0..rw.n] /\ \A v \in 0..rw.n : v \in 0..s.n
      BY <1>2, <1>6, <1>7, <1>8 DEF Client
    <2>2. usage \in [Names -> 0..s.n]
      BY <2>1
    <2> QED BY <1>1, <1>2, <1>10, <2>2 DEF Client
  <1>19. InLiveOuts'
    <2>1. \A l \in Places : s.mach[l] = Entry(l)
      BY <1>3, <1>6, <1>8
    <2>2. DOMAIN s.at \subseteq Places
      BY <1>3, <1>5, <1>6, <1>8
    <2>3. ASSUME NEW r \in Callees
          PROVE  /\ r \in DOMAIN s.at => /\ \A x \in Names : usage[x] # s.at[r]
                                         /\ \A i \in 1..Len(s.args) : s.args[i] # s.at[r]
                 /\ r \in DOMAIN s.at \/ r \in Range(Tail(loop.rest))
      <3>1. r \in DOMAIN s.at \/ r \in Range(Tail(loop.rest))
        BY <1>3, <1>4, <1>6, <1>8
      <3>2. CASE r \in DOMAIN rw.at
        BY <1>3, <1>6, <1>8, <1>10, <3>1, <3>2 DEF Owned
      <3>3. CASE r \notin DOMAIN rw.at /\ r \in DOMAIN s.at
        <4>1. s.at[r] \in 1..s.n /\ s.at[r] \notin 1..rw.n
          BY <1>6, <1>8, <3>3
        <4>2. \A x \in Names : usage[x] \in 0..rw.n
          BY <1>2 DEF Client
        <4>3. \A i \in 1..Len(s.args) : s.args[i] \in 1..rw.n
          BY <1>2, <1>10 DEF ArgsKnown
        <4>4. s.at[r] \notin 0..rw.n
          BY <1>2, <1>7, <1>8, <4>1
        <4> QED BY <3>1, <4>1, <4>2, <4>3, <4>4
      <3> QED BY <3>1, <3>2, <3>3
    <2>4. \A v \in 1..s.n : s.uses[v] > 0
      BY <1>6, <1>8
    <2> QED BY <1>1, <1>2, <1>3, <1>4, <1>10, <2>1, <2>2, <2>3, <2>4 DEF InLiveOuts, Owned
  <1>20. ByLoop'
    BY <1>2, <1>19 DEF ByLoop
  <1> QED BY <1>1, <1>2, <1>9, <1>14, <1>15, <1>17, <1>18, <1>20 DEF IInv

LEMMA GetArgsKeeps ==
  ASSUME IInv, GetArgs
  PROVE  IInv'
  <1> DEFINE f == [v \in 1..rw.n |-> IF v \in Range(usage) THEN rw.uses[v] + 1 ELSE rw.uses[v]]
             s == [rw EXCEPT !.uses = f]
  <1>1. Ends("liveOuts") /\ rw' = s /\ loop' = NoLoop /\ usage' = usage /\ todo' = todo
    BY DEF GetArgs
  <1>2. /\ loop.op = "liveOuts" /\ loop.rest = <<>>
        /\ Good(rw) /\ Shape(rw) /\ rw.n \in Nat /\ LiveOutsKnown(rw) /\ ArgsKnown(rw) /\ Guarded(rw) /\ OneReg(rw)
        /\ Client /\ ByLoop
    BY <1>1, EndsWhat
  <1>3. /\ \A l \in Places : rw.mach[l] = Entry(l)
        /\ DOMAIN rw.at \subseteq Places
        /\ \A v \in 1..rw.n : rw.uses[v] > 0
        /\ \A r \in Callees : /\ r \in DOMAIN rw.at => ~ Owned(rw.at[r])
                              /\ r \in DOMAIN rw.at \/ r \in Range(loop.rest)
    BY <1>2 DEF ByLoop, InLiveOuts
  <1>4. DOMAIN f = 1..rw.n /\ \A v \in 1..rw.n : f[v] \in {rw.uses[v], rw.uses[v] + 1}
    OBVIOUS
  <1> HIDE DEF f
  <1>5. /\ Shape(s) /\ s.at = rw.at /\ s.n = rw.n /\ s.uses = f /\ s.val = rw.val /\ s.mach = rw.mach
        /\ s.right = rw.right /\ s.args = rw.args /\ s.live_outs = rw.live_outs /\ s.guarding = rw.guarding
    <2>1. Shape(rw)
      BY <1>2
    <2> QED BY <2>1, UsesDoes
  <1> HIDE DEF s
  <1>6. Good(s) /\ OneReg(s)
    BY <1>2, <1>3, <1>4, <1>5, MoreUsesGood
  <1>7. LiveOutsKnown(s) /\ ArgsKnown(s)
    BY <1>2, <1>5 DEF LiveOutsKnown, ArgsKnown
  <1>8. Guarded(s)
    BY <1>2, <1>5 DEF Guarded
  <1>9. Client'
    BY <1>1, <1>2, <1>5 DEF Client
  <1>10. CalleesTaken'
    <2>1. Range(<<>>) = {}
      BY DEF Range
    <2>2. \A r \in Callees : r \in DOMAIN rw.at /\ ~ Owned(rw.at[r])
      BY <1>2, <1>3, <2>1
    <2> QED BY <1>1, <1>5, <2>2 DEF CalleesTaken, Owned
  <1>11. LiveOutsRestored'
    <2>1. ASSUME NEW i \in 1..Len(s.live_outs) PROVE s.mach[s.live_outs[i].reg] = Entry(s.live_outs[i].reg)
      <3>1. s.live_outs[i] \in [reg : Registers, var : Nat]
        BY <1>7, ElementOfSeq DEF LiveOutsKnown
      <3>2. s.live_outs[i].reg \in Places
        BY <3>1, PlaceFacts DEF Registers
      <3> QED BY <1>3, <1>5, <3>2
    <2> QED BY <1>1, <2>1 DEF LiveOutsRestored
  <1>12. loop'.op = "none" /\ loop' = Loop(loop'.op, loop'.rest)
    BY <1>1 DEF NoLoop, Loop
  <1>13. ByLoop'
    BY <1>10, <1>11, <1>12 DEF ByLoop, InClient
  <1> QED BY <1>1, <1>6, <1>7, <1>8, <1>9, <1>12, <1>13 DEF IInv

LEMMA IdleIs ==
  /\ Shape(Idle) /\ Idle.at = <<>> /\ Idle.n = 0 /\ Idle.uses = <<>> /\ Idle.val = <<>>
  /\ Idle.mach = [l \in Places |-> Entry(l)] /\ Idle.args = <<>> /\ Idle.live_outs = <<>>
  /\ ~ Idle.guarding /\ Idle.asserts /\ Idle.right
  BY DEF Idle, Shape

LEMMA ArgVarsAre ==
  ASSUME NEW n
  PROVE  LET t == ArgVars(n) IN
         /\ Shape(t) /\ t.n = n /\ t.guarding /\ t.right /\ t.live_outs = <<>>
         /\ t.at = [l \in {ForArg[i] : i \in 1..n} |-> CHOOSE i \in 1..n : ForArg[i] = l]
         /\ t.uses = [i \in 1..n |-> 1] /\ t.val = [i \in 1..n |-> Entry(ForArg[i])]
         /\ t.args = [i \in 1..n |-> i] /\ t.mach = [l \in Places |-> Entry(l)]
  <1> DEFINE at == [l \in {ForArg[i] : i \in 1..n} |-> CHOOSE i \in 1..n : ForArg[i] = l]
             uses == [i \in 1..n |-> 1]
             val == [i \in 1..n |-> Entry(ForArg[i])]
             args == [i \in 1..n |-> i]
             mach == [l \in Places |-> Entry(l)]
             a == [Idle EXCEPT !.at = at]
             b == WithVars(a, n, uses, val)
             c == [b EXCEPT !.args = args]
             d == [c EXCEPT !.guarding = TRUE]
             t == ArgVars(n)
  <1>1. t = [Idle EXCEPT !.at = at, !.n = n, !.uses = uses, !.val = val, !.args = args, !.guarding = TRUE]
    BY DEF ArgVars
  <1>2. Shape(Idle) /\ Idle.mach = mach /\ Idle.live_outs = <<>> /\ Idle.right
    BY IdleIs
  <1> HIDE DEF at, uses, val, args, mach, t
  <1>3. t = d
    BY <1>1 DEF WithVars
  <1>4. Shape(a) /\ a.at = at /\ a.mach = Idle.mach /\ a.live_outs = Idle.live_outs /\ a.right = Idle.right
    BY <1>2, AtDoes DEF SameVars, Frame
  <1> HIDE DEF a
  <1>5. /\ Shape(b) /\ b.at = a.at /\ b.mach = a.mach /\ b.live_outs = a.live_outs /\ b.right = a.right
        /\ b.n = n /\ b.uses = uses /\ b.val = val
    BY <1>4, WithVarsDoes DEF Frame
  <1> HIDE DEF b
  <1>6. /\ Shape(c) /\ c.at = b.at /\ c.n = b.n /\ c.uses = b.uses /\ c.val = b.val /\ c.mach = b.mach
        /\ c.right = b.right /\ c.args = args /\ c.live_outs = b.live_outs
    BY <1>5, ArgsDoes
  <1> HIDE DEF c
  <1>7. /\ Shape(d) /\ d.at = c.at /\ d.n = c.n /\ d.uses = c.uses /\ d.val = c.val /\ d.mach = c.mach
        /\ d.right = c.right /\ d.args = c.args /\ d.live_outs = c.live_outs /\ d.guarding = TRUE
    BY <1>6, GuardingDoes
  <1> HIDE DEF d
  <1>8. /\ Shape(t) /\ t.n = n /\ t.guarding /\ t.right /\ t.live_outs = <<>>
        /\ t.at = at /\ t.uses = uses /\ t.val = val /\ t.args = args /\ t.mach = mach
    BY <1>2, <1>3, <1>4, <1>5, <1>6, <1>7
  <1> QED BY <1>8 DEF t, at, uses, val, args, mach

LEMMA ForArgApart == \A i, j \in 1..Len(ForArg) : ForArg[i] = ForArg[j] => i = j
  BY DEF ForArg

LEMMA ArgVarsGood ==
  ASSUME NEW n \in 0..Len(ForArg)
  PROVE  LET t == ArgVars(n) IN
         /\ Good(t) /\ OneReg(t) /\ LiveOutsKnown(t) /\ ArgsKnown(t) /\ Guarded(t)
         /\ t.n = n /\ t.guarding /\ DOMAIN t.at = {ForArg[i] : i \in 1..n}
         /\ \A v \in 1..t.n : t.uses[v] > 0
         /\ \A l \in Places : t.mach[l] = Entry(l)
  <1> DEFINE t == ArgVars(n)
  <1>1. /\ Shape(t) /\ t.n = n /\ t.guarding /\ t.right /\ t.live_outs = <<>>
        /\ t.at = [l \in {ForArg[i] : i \in 1..n} |-> CHOOSE i \in 1..n : ForArg[i] = l]
        /\ t.uses = [i \in 1..n |-> 1] /\ t.val = [i \in 1..n |-> Entry(ForArg[i])]
        /\ t.args = [i \in 1..n |-> i] /\ t.mach = [l \in Places |-> Entry(l)]
    BY ArgVarsAre
  <1> HIDE DEF t
  <1>2. Len(ForArg) \in Nat /\ n \in Nat /\ \A i \in 1..n : i \in 1..Len(ForArg)
    BY DEF ForArg
  <1>3. DOMAIN t.at = {ForArg[i] : i \in 1..n} /\ DOMAIN t.uses = 1..n /\ DOMAIN t.val = 1..n /\ DOMAIN t.mach = Places
    BY <1>1
  <1>4. \A i \in 1..n : ForArg[i] \in DOMAIN t.at /\ ForArg[i] \in Places
    BY <1>2, <1>3, ForArgIsReg
  <1>5. \A v \in 1..n : t.uses[v] = 1 /\ t.val[v] = Entry(ForArg[v]) /\ t.args[v] = v
    BY <1>1
  <1>6. \A l \in Places : t.mach[l] = Entry(l)
    BY <1>1
  <1>7. ASSUME NEW l \in DOMAIN t.at PROVE t.at[l] \in 1..n /\ ForArg[t.at[l]] = l
    <2>1. PICK i \in 1..n : ForArg[i] = l
      BY <1>3
    <2>2. t.at[l] = CHOOSE k \in 1..n : ForArg[k] = l
      BY <1>1, <1>3
    <2> QED BY <2>1, <2>2
  <1>8. ASSUME NEW i \in 1..n PROVE t.at[ForArg[i]] = i
    <2>1. t.at[ForArg[i]] \in 1..n /\ ForArg[t.at[ForArg[i]]] = ForArg[i]
      BY <1>4, <1>7
    <2> QED BY <1>2, <2>1, ForArgApart
  <1>9. Numbered(t)
    BY <1>1, <1>2, <1>3, <1>5 DEF Numbered
  <1>10. Placed(t)
    <2>1. DOMAIN t.at \subseteq Places
      BY <1>3, <1>4
    <2>2. ASSUME NEW l \in DOMAIN t.at PROVE t.at[l] \in 1..t.n /\ t.uses[t.at[l]] > 0
      <3>1. t.at[l] \in 1..n
        BY <1>7
      <3>2. t.uses[t.at[l]] = 1 /\ t.n = n
        BY <3>1, <1>1, <1>5
      <3> QED BY <3>1, <3>2
    <2>3. \A v \in 1..t.n : \E l \in DOMAIN t.at : t.at[l] = v
      BY <1>1, <1>4, <1>8
    <2> QED BY <2>1, <2>2, <2>3 DEF Placed
  <1>11. Holds(t)
    <2>1. ASSUME NEW l \in DOMAIN t.at, l \in Places PROVE t.mach[l] = t.val[t.at[l]]
      <3>1. t.at[l] \in 1..n /\ ForArg[t.at[l]] = l
        BY <1>7
      <3>2. t.val[t.at[l]] = Entry(l)
        BY <3>1, <1>5
      <3> QED BY <3>2, <2>1, <1>6
    <2>2. t.right
      BY <1>1
    <2> QED BY <2>1, <2>2 DEF Holds
  <1>12. ConstsApart(t)
    BY <1>3, <1>4 DEF ConstsApart
  <1>13. OneReg(t)
    BY <1>7 DEF OneReg
  <1>14. LiveOutsKnown(t)
    BY <1>1 DEF LiveOutsKnown
  <1>15. t.args \in Seq(1..n) /\ t.args \in Seq(Nat) /\ Len(t.args) = n
    BY <1>1, <1>2, SeqDef
  <1>16. ArgsKnown(t)
    BY <1>1, <1>5, <1>15 DEF ArgsKnown
  <1>17. Guarded(t)
    BY <1>1, <1>2, <1>4, <1>5, <1>8, <1>15 DEF Guarded
  <1> QED BY <1>1, <1>3, <1>5, <1>6, <1>9, <1>10, <1>11, <1>12, <1>13, <1>14, <1>16, <1>17 DEF Good, t

LEMMA StartKeeps ==
  ASSUME NEW n \in 0..Len(ForArg), NEW args \in [Names -> 0..n], NEW client \in GetClients \cup SetClients,
         NEW liveOuts \in LiveOutOrders, Start(n, args, client, liveOuts)
  PROVE  IInv'
  <1> DEFINE s == ArgVars(n)
             rest == CalleeSaves \o liveOuts
  <1>1. /\ Good(s) /\ OneReg(s) /\ LiveOutsKnown(s) /\ ArgsKnown(s) /\ Guarded(s)
        /\ s.n = n /\ s.guarding /\ DOMAIN s.at = {ForArg[i] : i \in 1..n}
        /\ \A v \in 1..s.n : s.uses[v] > 0
        /\ \A l \in Places : s.mach[l] = Entry(l)
    BY ArgVarsGood
  <1>2. rw' = s /\ usage' = args /\ todo' = client /\ loop' = Loop("liveOuts", rest)
    BY DEF Start
  <1> HIDE DEF s
  <1>3. /\ CalleeSaves \in Seq(Registers) /\ liveOuts \in Seq(Registers)
    <2>1. CalleeSaves \in Seq(Callees)
      BY DEF CalleeSaves, Callees, Range
    <2>2. liveOuts \in Seq(CallClobbers)
      BY Rewriter2Assumption
    <2>3. Callees \subseteq Registers /\ CallClobbers \subseteq Registers
      BY PlaceFacts DEF Registers
    <2> HIDE DEF rest
    <2> QED BY <2>1, <2>2, <2>3, SeqMonotonic
  <1>4. rest \in Seq(Registers) /\ Range(rest) = Callees \cup Range(liveOuts)
    BY <1>3, RangeConcat DEF Callees
  <1> HIDE DEF rest
  <1>5. Client'
    <2>1. client \in Seq(ClientCalls) /\ GuardsFirst(client) /\ CommitsLast(client)
      BY Rewriter2Assumption
    <2> QED BY <1>1, <1>2, <2>1 DEF Client
  <1>6. loop'.op = "liveOuts" /\ loop'.rest = rest /\ loop' = Loop(loop'.op, loop'.rest)
    BY <1>2, LoopDoes
  <1>7. DOMAIN s.at \subseteq Places /\ DOMAIN s.at \cap Callees = {}
    <2>1. \A i \in 1..n : i \in 1..Len(ForArg)
      BY DEF ForArg
    <2>2. \A i \in 1..n : ForArg[i] \in Places /\ ForArg[i] \notin Callees
      BY <2>1, ForArgIsReg
    <2> QED BY <1>1, <2>2
  <1>8. InLiveOuts'
    BY <1>1, <1>2, <1>4, <1>6, <1>7 DEF InLiveOuts
  <1>9. ByLoop'
    BY <1>6, <1>8 DEF ByLoop
  <1> QED BY <1>1, <1>2, <1>5, <1>6, <1>9 DEF IInv

LEMMA IdleGood ==
  /\ Good(Idle) /\ OneReg(Idle) /\ LiveOutsKnown(Idle) /\ ArgsKnown(Idle) /\ Guarded(Idle)
  <1> DEFINE s == Idle
  <1>1. /\ Shape(s) /\ s.at = <<>> /\ s.n = 0 /\ s.uses = <<>> /\ s.val = <<>>
        /\ s.mach = [l \in Places |-> Entry(l)] /\ s.args = <<>> /\ s.live_outs = <<>>
        /\ ~ s.guarding /\ s.asserts /\ s.right
    BY IdleIs
  <1> HIDE DEF s
  <1>2. DOMAIN s.at = {} /\ 1..s.n = {} /\ DOMAIN s.uses = {} /\ DOMAIN s.val = {}
    BY <1>1
  <1>3. Numbered(s)
    BY <1>1, <1>2 DEF Numbered
  <1>4. Placed(s) /\ Holds(s) /\ ConstsApart(s) /\ OneReg(s)
    BY <1>1, <1>2 DEF Placed, Holds, ConstsApart, OneReg
  <1>5. LiveOutsKnown(s) /\ ArgsKnown(s)
    BY <1>1 DEF LiveOutsKnown, ArgsKnown
  <1>6. Guarded(s)
    BY <1>1 DEF Guarded
  <1> QED BY <1>1, <1>3, <1>4, <1>5, <1>6 DEF Good, s

LEMMA NothingToDo ==
  /\ <<>> \in Seq(ClientCalls) /\ CommitsLast(<<>>) /\ GuardsFirst(<<>>)
  /\ NoUsage \in [Names -> 0..Idle.n] /\ Idle.live_outs = <<>>
  <1>1. Idle.n = 0 /\ Idle.live_outs = <<>>
    BY IdleIs
  <1> QED BY <1>1 DEF CommitsLast, GuardsFirst, NoUsage

LEMMA DropKeeps ==
  ASSUME Drop
  PROVE  IInv'
  <1>1. rw' = Idle /\ usage' = NoUsage /\ todo' = <<>> /\ loop' = NoLoop
    BY DEF Drop
  <1>2. Client'
    BY <1>1, NothingToDo DEF Client
  <1>3. LiveOutsRestored'
    BY <1>1, NothingToDo DEF LiveOutsRestored
  <1>4. loop'.op = "none" /\ loop' = Loop(loop'.op, loop'.rest)
    BY <1>1 DEF NoLoop, Loop
  <1>5. ByLoop'
    BY <1>1, <1>3, <1>4 DEF ByLoop, InClient
  <1> QED BY <1>1, <1>2, <1>4, <1>5, IdleGood DEF IInv

LEMMA InitHolds ==
  ASSUME Init
  PROVE  IInv
  <1>1. rw = Idle /\ usage = NoUsage /\ todo = <<>> /\ loop = NoLoop
    BY DEF Init
  <1>2. Client
    BY <1>1, NothingToDo DEF Client
  <1>3. LiveOutsRestored
    BY <1>1, NothingToDo DEF LiveOutsRestored
  <1>4. loop.op = "none" /\ loop = Loop(loop.op, loop.rest)
    BY <1>1 DEF NoLoop, Loop
  <1>5. ByLoop
    BY <1>1, <1>3, <1>4 DEF ByLoop, InClient
  <1> QED BY <1>1, <1>2, <1>4, <1>5, IdleGood DEF IInv

------------------------------------------------------------------------------
(***************************************************************************)
(* The theorems.                                                           *)
(***************************************************************************)
Updated(f, x, y) == [f EXCEPT ![x] = y]
LEMMA UpdatedIs ==
  ASSUME NEW S, NEW T, NEW f \in [S -> T], NEW x, NEW y \in T
  PROVE  Updated(f, x, y) \in [S -> T]
  BY DEF Updated

LEMMA NextKeeps ==
  ASSUME IInv, Next
  PROVE  IInv'
  <1>1. ASSUME NEW liveOuts \in LiveOutOrders, NEW client \in GetClients, StartGetattr(client, liveOuts)
        PROVE  IInv'
    <2> DEFINE args == [NoUsage EXCEPT !["obj"] = 1]
    <2>1. Start(2, args, client, liveOuts)
      BY <1>1 DEF StartGetattr
    <2>2. args \in [Names -> 0..2]
      <3>1. NoUsage \in [Names -> 0..2] /\ 1 \in 0..2
        BY DEF NoUsage
      <3>2. args = Updated(NoUsage, "obj", 1)
        BY DEF Updated
      <3> QED BY <3>1, <3>2, UpdatedIs
    <2>3. 2 \in 0..Len(ForArg)
      BY DEF ForArg
    <2> HIDE DEF args
    <2> QED BY <2>1, <2>2, <2>3, StartKeeps
  <1>2. ASSUME NEW liveOuts \in LiveOutOrders, NEW client \in SetClients, StartSetattr(client, liveOuts)
        PROVE  IInv'
    <2> DEFINE args == [NoUsage EXCEPT !["obj"] = 1, !["attrval"] = 3]
    <2>1. Start(3, args, client, liveOuts)
      BY <1>2 DEF StartSetattr
    <2>2. args \in [Names -> 0..3]
      <3> DEFINE one == Updated(NoUsage, "obj", 1)
      <3>1. NoUsage \in [Names -> 0..3] /\ 1 \in 0..3 /\ 3 \in 0..3
        BY DEF NoUsage
      <3>2. args = Updated(one, "attrval", 3)
        BY DEF Updated
      <3>3. one \in [Names -> 0..3]
        BY <3>1, UpdatedIs
      <3> HIDE DEF one, args
      <3> QED BY <3>1, <3>2, <3>3, UpdatedIs
    <2>3. 3 \in 0..Len(ForArg)
      BY DEF ForArg
    <2> HIDE DEF args
    <2> QED BY <2>1, <2>2, <2>3, StartKeeps
  <1>3. ASSUME NEW big \in BigPointers, ClientGuards(big) \/ ClientLoads(big)
        PROVE  IInv'
    <2>1. big \in BOOLEAN
      BY Rewriter2Assumption
    <2> QED BY <1>3, <2>1, ClientGuardsKeeps, ClientLoadsKeeps
  <1>4. ASSUME LiveOutTurn \/ GetArgs \/ ClientGets \/ ClientSets \/ ClientIsDoneUsing
        PROVE  IInv'
    BY <1>4, LiveOutTurnKeeps, GetArgsKeeps, ClientGetsKeeps, ClientSetsKeeps, ClientIsDoneUsingKeeps
  <1>5. ASSUME ClientIsDoneGuarding \/ FreeArg \/ ArgsFreed
        PROVE  IInv'
    BY <1>5, ClientIsDoneGuardingKeeps, FreeArgKeeps, ArgsFreedKeeps
  <1>6. ASSUME ClientCallsFunc \/ PassOne \/ ArgsPassed \/ SaveOne \/ FunctionReturns
        PROVE  IInv'
    BY <1>6, ClientCallsFuncKeeps, PassOneKeeps, ArgsPassedKeeps, SaveOneKeeps, FunctionReturnsKeeps
  <1>7. ASSUME ClientCommits \/ ClientCommitsReturning \/ RestoreOne \/ AllRestored \/ Drop
        PROVE  IInv'
    BY <1>7, ClientCommitsKeeps, ClientCommitsReturningKeeps, RestoreOneKeeps, AllRestoredKeeps, DropKeeps
  <1>8. ASSUME Aborted PROVE IInv'
    BY <1>8 DEF Aborted, IInv, vars
  <1> QED BY <1>1, <1>2, <1>3, <1>4, <1>5, <1>6, <1>7, <1>8 DEF Next

LEMMA StutterKeeps ==
  ASSUME IInv, UNCHANGED vars
  PROVE  IInv'
  <1>1. rw' = rw /\ usage' = usage /\ todo' = todo /\ loop' = loop
    BY DEF vars
  <1>2. Client => Client'
    BY <1>1 DEF Client
  <1>3. CalleesTaken => CalleesTaken'
    BY <1>1 DEF CalleesTaken, Owned
  <1>4. InClient => InClient'
    BY <1>1, <1>3 DEF InClient, LiveOutsRestored
  <1>5. InLiveOuts => InLiveOuts'
    BY <1>1 DEF InLiveOuts, Owned
  <1>6. Call' = Call
    BY <1>1 DEF Call
  <1>7. (InArgs => InArgs') /\ (InCall => InCall')
    BY <1>1, <1>3, <1>6 DEF InArgs, InCall
  <1>8. (InPass => InPass') /\ (InSave => InSave')
    BY <1>1, <1>6, <1>7 DEF InPass, InSave
  <1>9. InRestore => InRestore'
    BY <1>1, <1>6 DEF InRestore
  <1>10. ByLoop => ByLoop'
    BY <1>1, <1>4, <1>5, <1>7, <1>8, <1>9 DEF ByLoop
  <1> QED BY <1>1, <1>2, <1>10 DEF IInv

\* The invariant above holds throughout.
THEOREM BookkeepingSound == Spec => []IInv
  <1>1. Init => IInv
    BY InitHolds
  <1>2. IInv /\ [Next]_vars => IInv'
    BY NextKeeps, StutterKeeps
  <1> QED BY <1>1, <1>2, PTL DEF Spec

\* For any clients and any live-outs: as long as no assertion of the rewriter has
\* failed, the places it records for a variable hold the value the client means by
\* it, each variable in use is somewhere, and every load, store, guard, call and
\* return has acted on the values the client meant.
THEOREM ValuesAreWhereRecorded == Spec => []LocationsHoldValues
  <1>1. IInv => LocationsHoldValues
    <2> SUFFICES ASSUME IInv, rw.asserts PROVE LocationsHoldValues
      BY DEF AssertionsHold, LocationsHoldValues
    <2>1. Good(rw) /\ (loop.op # "restore" => OneReg(rw))
      BY DEF IInv
    <2>2. /\ \A l \in DOMAIN rw.at : rw.at[l] \in 1..rw.n /\ rw.uses[rw.at[l]] > 0
          /\ \A v \in 1..rw.n : rw.uses[v] > 0 => \E l \in DOMAIN rw.at : rw.at[l] = v
          /\ \A l \in DOMAIN rw.at : l \in Places => rw.mach[l] = rw.val[rw.at[l]]
          /\ rw.right
      BY <2>1 DEF Good, Placed, Holds
    <2>3. \A v \in 1..rw.n : rw.uses[v] > 0 <=> Where(rw, v) # {}
      BY <2>2 DEF Where
    <2>4. ASSUME NEW v \in 1..rw.n, loop.op # "restore",
                 NEW l \in Where(rw, v) \cap Range(allocatable_regs),
                 NEW m \in Where(rw, v) \cap Range(allocatable_regs)
          PROVE  l = m
      <3>1. l \in DOMAIN rw.at /\ m \in DOMAIN rw.at /\ rw.at[l] = rw.at[m] /\ l \in Regs /\ m \in Regs
        BY DEF Where, Regs
      <3> QED BY <2>1, <2>4, <3>1 DEF OneReg
    <2>5. VariablesPlaced
      BY <2>2, <2>3, <2>4 DEF VariablesPlaced
    <2> QED BY <2>2, <2>5 DEF LocationsHoldValues, OperandsRight
  <1> QED BY <1>1, BookkeepingSound, PTL

\* For any clients and any live-outs: as long as no assertion of the rewriter has
\* failed, a guard that fails leaves arguments and live-outs as they were on entry,
\* and committed code ends with every live-out register as it was on entry.
THEOREM SlotKeepsRegisters == Spec => []RegistersKept
  <1>1. IInv => RegistersKept
    <2> SUFFICES ASSUME IInv, rw.asserts PROVE RegistersKept
      BY DEF AssertionsHold, RegistersKept
    <2>1. Good(rw) /\ LiveOutsKnown(rw) /\ Guarded(rw) /\ ByLoop
      BY DEF IInv
    <2>2. \A i \in 1..Len(rw.live_outs) : rw.live_outs[i].reg \in Places
      <3>1. ASSUME NEW i \in 1..Len(rw.live_outs) PROVE rw.live_outs[i] \in [reg : Registers, var : Nat]
        BY <2>1, ElementOfSeq DEF LiveOutsKnown
      <3>2. Registers \subseteq Places
        BY PlaceFacts DEF Registers
      <3> QED BY <3>1, <3>2
    <2>3. ASSUME NEW l \in DOMAIN rw.at, l \in Places, rw.val[rw.at[l]] = Entry(l) PROVE rw.mach[l] = Entry(l)
      BY <2>1, <2>3 DEF Good, Holds
    <2>4. ASSUME rw.guarding,
                 NEW l \in {rw.live_outs[i].reg : i \in 1..Len(rw.live_outs)} \cup {ForArg[i] : i \in 1..Len(rw.args)}
          PROVE  rw.mach[l] = Entry(l)
      <3>1. CASE \E i \in 1..Len(rw.live_outs) : l = rw.live_outs[i].reg
        <4>1. l \in DOMAIN rw.at /\ rw.val[rw.at[l]] = Entry(l) /\ l \in Places
          BY <2>1, <2>2, <2>4, <3>1 DEF Guarded
        <4> QED BY <2>3, <4>1
      <3>2. CASE \E i \in 1..Len(rw.args) : l = ForArg[i]
        <4>1. PICK i \in 1..Len(rw.args) : l = ForArg[i]
          BY <3>2
        <4>2. i \in 1..Len(ForArg)
          <5>1. Len(rw.args) <= Len(ForArg) /\ Len(rw.args) \in Nat
            <6>1. rw.args \in Seq(Nat)
              BY DEF IInv, ArgsKnown
            <6> QED BY <2>1, <2>4, <6>1 DEF Guarded
          <5>2. Len(ForArg) \in Nat
            BY DEF ForArg
          <5> QED BY <5>1, <5>2
        <4>3. l \in DOMAIN rw.at /\ rw.val[rw.at[l]] = Entry(l) /\ l \in Places
          BY <2>1, <2>4, <4>1, <4>2, ForArgIsReg DEF Guarded
        <4> QED BY <2>3, <4>3
      <3> QED BY <2>4, <3>1, <3>2
    <2>5. GuardsMayFail
      BY <2>4 DEF GuardsMayFail
    <2>6. LiveOutsRestored
      <3>1. ASSUME todo = <<>> PROVE InClient \/ InLiveOuts
        BY <2>1, <3>1 DEF ByLoop, InArgs, InPass, InSave, InCall, InRestore
      <3>2. CASE todo = <<>> /\ InClient
        BY <3>2 DEF InClient
      <3>3. CASE todo = <<>> /\ InLiveOuts
        BY <2>2, <3>3 DEF InLiveOuts, LiveOutsRestored
      <3>4. CASE todo # <<>>
        BY <3>4 DEF LiveOutsRestored
      <3> QED BY <3>1, <3>2, <3>3, <3>4
    <2> QED BY <2>5, <2>6 DEF RegistersKept
  <1> QED BY <1>1, BookkeepingSound, PTL
==============================================================================
