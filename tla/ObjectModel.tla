----------------------------- MODULE ObjectModel -----------------------------
(***************************************************************************)
(* Attributes of Python objects: hidden classes, attribute lists and the   *)
(* code that getattr and setattr commit to the slots of their patchpoints  *)
(* (src/runtime/objmodel.cpp, core/types.h).                               *)
(*                                                                         *)
(* A HiddenClass maps names to offsets in the attribute list.  The root is *)
(* shared by all boxes, and a child is found by the name it adds, so a     *)
(* hidden class is determined by the names on its path from the root: it   *)
(* is the sequence of those names, and offsets are positions in it.        *)
(*                                                                         *)
(* The name is a constant of a patchpoint, so patchpoints are called by    *)
(* it: getattr has one slot, setattr two.  Code that is still interpreted  *)
(* accesses attributes without a patchpoint.  Both patchpoints             *)
(* use Rewriter2, whose decision path is always 0: a full patchpoint has   *)
(* its first slot overwritten (InlineCache!PickEntryForRewrite).  Nothing  *)
(* runs Python between the lookup and the commit, so a rewrite is one step *)
(* here; InlineCache covers the slow paths for which it is not.            *)
(***************************************************************************)
EXTENDS Naturals, Sequences, Functions

CONSTANTS
  Objs,         \* instances
  Classes,      \* user-defined classes
  TypeCls,      \* the class of classes, built in
  InstanceOf,   \* instance -> class
  Programs,     \* the programs to check: see Program
  Funcs,        \* the values that are functions
  MaxAttrs,     \* bound: attributes of an instance
  ClassNames,   \* the names createClass gives a class, in order
  ClassValue    \* their value

\* What a program may do with attributes: the names its interpreted code reads and
\* writes, those its compiled getattrs and setattrs have patchpoints for, and the
\* values it stores.
Program(reads, writes, getSites, setSites, values) ==
  [reads |-> reads, writes |-> writes, getSites |-> getSites, setSites |-> setSites,
   values |-> values]

Names == UNION {p.reads \cup p.writes \cup p.getSites \cup p.setSites : p \in Programs}
Values == UNION {p.values : p \in Programs}

ASSUME ObjectModelAssumption ==
  /\ InstanceOf \in [Objs -> Classes]
  /\ TypeCls \notin Objs \cup Classes
  /\ Objs \cap Classes = {}
  /\ Names \subseteq STRING
  /\ Funcs \subseteq Values
  /\ MaxAttrs \in Nat
  /\ ClassNames \in Seq(STRING) /\ IsInjective(ClassNames)
  /\ ClassValue \notin Funcs

VARIABLES
  program,      \* the one that runs
  hcls,         \* HCBox::hcls
  attr_list,    \* HCBox::attr_list
  getSlot,      \* name -> the slot of the getattr patchpoint
  dependents,   \* class -> dependent_icgetattrs: getattr patchpoints
  setSlots,     \* name -> the filled slots of the setattr patchpoint
  adding,       \* an attribute whose list is being allocated: at most one
  answer        \* the last access: what was asked, and what it returned or raised

caches == <<getSlot, dependents, setSlots>>
vars == <<program, hcls, attr_list, caches, adding, answer>>

GetSites == program.getSites
SetSites == program.setSites

HCBoxes == Objs \cup Classes \cup {TypeCls}
Cls == [b \in HCBoxes |-> IF b \in Objs THEN InstanceOf[b] ELSE TypeCls]
Hooks == {"__getattribute__", "__getattr__"}

NoSlot == [op |-> "none"]

Asked(b, a, got) == [kind |-> "get", box |-> b, attr |-> a, got |-> got]

Init ==
  /\ program \in Programs
  /\ hcls = [b \in HCBoxes |-> IF b \in Objs THEN <<>> ELSE ClassNames]
  /\ attr_list = [b \in HCBoxes |->
                    IF b \in Objs THEN <<>> ELSE [i \in 1..Len(ClassNames) |-> ClassValue]]
  /\ getSlot = [a \in GetSites |-> NoSlot]
  /\ dependents = [c \in Classes \cup {TypeCls} |-> {}]
  /\ setSlots = [a \in SetSites |-> <<>>]
  /\ adding = {}
  /\ answer = [kind |-> "done"]

------------------------------------------------------------------------------
(***************************************************************************)
(* Lookup.                                                                 *)
(***************************************************************************)
HasAttr(b, a) == a \in Range(hcls[b])

\* HiddenClass::getOffset of a name that is there.
GetOffset(h, a) == CHOOSE i \in 1..Len(h) : h[i] = a

HcboxGetattr(b, a) == attr_list[b][GetOffset(hcls[b], a)]

HandleClsAttr(b, v) ==
  IF v \in Funcs THEN [kind |-> "method", self |-> b, of |-> v]
                 ELSE [kind |-> "value", of |-> v]

HookCall(b, hook, a) ==
  [kind |-> "hook", self |-> b, via |-> HcboxGetattr(Cls[b], hook), of |-> a]

\* Where getattr_internal(obj, attr, check_cls = 1, allow_custom = true) finds it.
Source(b, a) ==
  IF HasAttr(Cls[b], "__getattribute__") THEN "__getattribute__"
  ELSE IF HasAttr(b, a) THEN "inst"
  ELSE IF HasAttr(Cls[b], "__getattr__") THEN "__getattr__"
  ELSE IF HasAttr(Cls[b], a) THEN "cls" ELSE "none"

GetattrInternal(b, a) ==
  LET source == Source(b, a) IN
  CASE source \in Hooks  -> HookCall(b, source, a)
    [] source = "inst"   -> [kind |-> "value", of |-> HcboxGetattr(b, a)]
    [] source = "cls"    -> HandleClsAttr(b, HcboxGetattr(Cls[b], a))
    [] source = "none"   -> [kind |-> "AttributeError"]

------------------------------------------------------------------------------
(***************************************************************************)
(* The getattr patchpoint.                                                 *)
(***************************************************************************)
GetHits(b, a) ==
  LET s == getSlot[a] IN
  /\ s.op # "none"
  /\ hcls[b] = s.hcls
  /\ s.op = "cls" => hcls[Cls[b]] = s.clsHcls

SlotAnswer(b, a) ==
  LET s == getSlot[a] IN
  IF s.op = "inst" THEN [kind |-> "value", of |-> attr_list[b][s.offset]]
                   ELSE HandleClsAttr(b, attr_list[Cls[b]][s.offset])

\* The code the slow path writes for what it has found.
GetRewrite(b, a) ==
  IF Source(b, a) = "inst"
    THEN [op |-> "inst", hcls |-> hcls[b], offset |-> GetOffset(hcls[b], a)]
    ELSE [op |-> "cls", hcls |-> hcls[b], clsHcls |-> hcls[Cls[b]],
          offset |-> GetOffset(hcls[Cls[b]], a)]

CachedGet(b, a) ==
  /\ adding = {}
  /\ GetHits(b, a)
  /\ answer' = Asked(b, a, SlotAnswer(b, a))
  /\ UNCHANGED <<hcls, attr_list, caches, adding>>

\* getattr(): a found attribute is committed, a hook's answer or an
\* AttributeError is not.  The new code depends on the class of this object.  ic
\* says whether the call comes from a patchpoint; interpreted code has none.
SlowGet(b, a, ic) ==
  /\ adding = {}
  /\ ic => ~ GetHits(b, a)
  /\ answer' = Asked(b, a, GetattrInternal(b, a))
  /\ IF ic /\ Source(b, a) \in {"inst", "cls"}
       THEN /\ getSlot' = [getSlot EXCEPT ![a] = GetRewrite(b, a)]
            /\ dependents' = [dependents EXCEPT ![Cls[b]] = @ \cup {a}]
       ELSE UNCHANGED <<getSlot, dependents>>
  /\ UNCHANGED <<hcls, attr_list, setSlots, adding>>

------------------------------------------------------------------------------
(***************************************************************************)
(* The setattr patchpoint.                                                 *)
(***************************************************************************)
\* Mutant: the guard compares the number of attributes.
SetHitsBySize(b, a, i) == Len(setSlots[a][i].hcls) = Len(hcls[b])
SetHits(b, a, i) == setSlots[a][i].hcls = hcls[b]
SetMisses(b, a) == \A i \in 1..Len(setSlots[a]) : ~ SetHits(b, a, i)

\* Commit to the setattr patchpoint: its two slots in turn, then the first again.
CommitSet(a, code) ==
  setSlots' = [setSlots EXCEPT ![a] =
                 IF Len(@) < 2 THEN Append(@, code) ELSE [@ EXCEPT ![1] = code]]

\* dependent_icgetattrs.invalidateAll() of class c.
\* Mutant: forgotten.
InvalidateNothing(c) == UNCHANGED <<getSlot, dependents>>
InvalidateAll(c) ==
  /\ getSlot' = [a \in GetSites |-> IF a \in dependents[c] THEN NoSlot ELSE getSlot[a]]
  /\ dependents' = [dependents EXCEPT ![c] = {}]

\* The new list is being allocated: rt_alloc and rt_realloc may collect.
\* Mutant: the new hidden class is set before the allocation.
BeginAddHclsFirst(b, a, v, patch) ==
  /\ adding' = {[obj |-> b, attr |-> a, val |-> v,
                 newHcls |-> Append(hcls[b], a), patch |-> patch]}
  /\ hcls' = [hcls EXCEPT ![b] = Append(hcls[b], a)]
  /\ UNCHANGED <<attr_list, setSlots, answer>>

BeginAdd(b, a, v, patch) ==
  /\ adding' = {[obj |-> b, attr |-> a, val |-> v,
                 newHcls |-> Append(hcls[b], a), patch |-> patch]}
  /\ UNCHANGED <<hcls, attr_list, setSlots, answer>>

\* HCBox::setattr, for an attribute that is there: the code it commits stores at
\* the offset.  A hook set on a class invalidates first and commits nothing.
SlowSet(b, a, v, ic) ==
  LET invalidates == a \in Hooks /\ Cls[b] = TypeCls
      rewrites == ic /\ ~ invalidates IN
  /\ adding = {}
  /\ ic => SetMisses(b, a)
  /\ IF invalidates THEN InvalidateAll(b) ELSE UNCHANGED <<getSlot, dependents>>
  /\ IF HasAttr(b, a)
       THEN /\ attr_list' = [attr_list EXCEPT ![b][GetOffset(hcls[b], a)] = v]
            /\ answer' = [kind |-> "done"]
            /\ IF rewrites
                 THEN CommitSet(a, [op |-> "replace", hcls |-> hcls[b],
                                    offset |-> GetOffset(hcls[b], a)])
                 ELSE UNCHANGED setSlots
            /\ UNCHANGED <<hcls, adding>>
       ELSE BeginAdd(b, a, v, rewrites)

CachedSet(b, a, v) ==
  /\ adding = {}
  /\ \E i \in 1..Len(setSlots[a]) :
       /\ SetHits(b, a, i)
       /\ IF setSlots[a][i].op = "replace"
            THEN /\ attr_list' = [attr_list EXCEPT ![b][setSlots[a][i].offset] = v]
                 /\ answer' = [kind |-> "done"]
                 /\ UNCHANGED <<hcls, adding, setSlots>>
            ELSE BeginAdd(b, a, v, FALSE)
  /\ UNCHANGED <<getSlot, dependents>>

\* The allocation is back.  The list grows by the value, the hidden class
\* follows, and the slow path commits.
FinishAdd ==
  \E add \in adding :
    /\ attr_list' = [attr_list EXCEPT ![add.obj] = Append(@, add.val)]
    /\ hcls' = [hcls EXCEPT ![add.obj] = add.newHcls]
    /\ IF add.patch THEN CommitSet(add.attr, [op |-> "add", hcls |-> hcls[add.obj]])
                    ELSE UNCHANGED setSlots
    /\ adding' = {}
    /\ answer' = [kind |-> "done"]
    /\ UNCHANGED <<getSlot, dependents>>

\* setattr() on a class that is not user-defined.
SetRefused ==
  /\ adding = {}
  /\ answer' = [kind |-> "TypeError"]
  /\ UNCHANGED <<hcls, attr_list, caches, adding>>

WithinBound(b, a) == b \in Objs => HasAttr(b, a) \/ Len(hcls[b]) < MaxAttrs

Next ==
  /\ UNCHANGED program
  /\ \/ \E b \in HCBoxes, a \in program.reads : SlowGet(b, a, FALSE)
     \/ \E b \in HCBoxes, a \in GetSites : CachedGet(b, a) \/ SlowGet(b, a, TRUE)
     \/ \E b \in Objs \cup Classes, v \in program.values :
          \/ \E a \in program.writes : WithinBound(b, a) /\ SlowSet(b, a, v, FALSE)
          \/ \E a \in SetSites : WithinBound(b, a) /\ (CachedSet(b, a, v) \/ SlowSet(b, a, v, TRUE))
     \/ FinishAdd
     \/ SetRefused

Spec == Init /\ [][Next]_vars

------------------------------------------------------------------------------
(***************************************************************************)
(* Properties.                                                             *)
(***************************************************************************)

\* Whatever object reaches a getattr patchpoint and passes the guards of its slot,
\* the slot gives it the answer the slow path would give: hooks added to a class
\* after the slot was filled, and objects other than the one that filled it,
\* included.
CachedGetAgrees ==
  \A b \in HCBoxes, a \in GetSites : GetHits(b, a) => SlotAnswer(b, a) = GetattrInternal(b, a)

\* A collection started by the allocation of an attribute list (hcBoxGCHandler
\* visits as many entries as the hidden class has names) finds every one of them
\* in the list.
CollectorSeesAllAttrs ==
  adding # {} => \A b \in HCBoxes : Len(attr_list[b]) >= Len(hcls[b])

\* Hidden classes, attribute lists and the code in the slots implement plain
\* dictionaries: every answer, cached or not, is the one PyAttributes gives.
Dictionary(b) == [a \in Range(hcls[b]) |-> HcboxGetattr(b, a)]

Abs == INSTANCE PyAttributes WITH
  Boxes <- HCBoxes, ClassOf <- Cls, Settable <- Objs \cup Classes,
  dict <- [b \in HCBoxes |-> Dictionary(b)]

RefinesPyAttributes == Abs!Spec
==============================================================================
