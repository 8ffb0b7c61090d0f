-------------------------- MODULE ObjectModelProofs --------------------------
(***************************************************************************)
(* Proofs about ObjectModel, for every program, every number of objects    *)
(* and classes and every bound.                                            *)
(***************************************************************************)
EXTENDS ObjectModel, SequenceTheorems, TLAPS

(***************************************************************************)
(* The inductive invariant.  A hidden class and its attribute list have    *)
(* the same length, except that nothing says so between BeginAdd and       *)
(* FinishAdd: there the invariant keeps what the allocation was begun for. *)
(***************************************************************************)
AllNames == Names \cup Range(ClassNames)
SetCodes == [op : {"replace"}, hcls : Seq(AllNames), offset : Nat]
              \cup [op : {"add"}, hcls : Seq(AllNames)]
Adds == [obj : Objs \cup Classes, attr : Names, val : Values,
         newHcls : Seq(AllNames), patch : BOOLEAN]

TypeOK ==
  /\ program \in Programs
  /\ hcls \in [HCBoxes -> Seq(AllNames)]
  /\ attr_list \in [HCBoxes -> Seq(Values \cup {ClassValue})]
  /\ getSlot = [a \in GetSites |-> getSlot[a]]
  /\ dependents \in [Classes \cup {TypeCls} -> SUBSET Names]
  /\ setSlots \in [SetSites -> Seq(SetCodes)]
  /\ adding \subseteq Adds

\* A hidden class has no name twice, and its attribute list has an entry for each.
\* Classes keep the names createClass gave them; instances have what the program set.
BoxOK(b) ==
  /\ Len(attr_list[b]) = Len(hcls[b])
  /\ IsInjective(hcls[b])
  /\ b \in Objs => Range(hcls[b]) \subseteq Names
  /\ b \notin Objs => Range(ClassNames) \subseteq Range(hcls[b])

BoxesOK == \A b \in HCBoxes : BoxOK(b)

\* The code in a slot of a getattr patchpoint says where a name is in the hidden
\* classes it compares with; that of the class has no hook.
GetCodeOK(a, s) ==
  \/ s = NoSlot
  \/ /\ s.op = "inst" /\ a \in Range(s.hcls) /\ s.offset = GetOffset(s.hcls, a)
  \/ /\ s.op = "cls" /\ a \notin Range(s.hcls) /\ a \in Range(s.clsHcls)
     /\ s.offset = GetOffset(s.clsHcls, a) /\ Hooks \cap Range(s.clsHcls) = {}

\* That of a setattr patchpoint adds a name only to a hidden class without it.
SetCodeOK(a, c) ==
  \/ c.op = "replace" /\ a \in Range(c.hcls) /\ c.offset = GetOffset(c.hcls, a)
  \/ c.op = "add" /\ a \notin Range(c.hcls)

CodeOK ==
  /\ \A a \in GetSites : GetCodeOK(a, getSlot[a])
  /\ \A a \in SetSites : \A i \in 1..Len(setSlots[a]) : SetCodeOK(a, setSlots[a][i])

AddOK(add) ==
  /\ adding = {add}
  /\ add.newHcls = Append(hcls[add.obj], add.attr)
  /\ add.attr \notin Range(hcls[add.obj])
  /\ add.patch => add.attr \in SetSites

AddingOK == \A add \in adding : AddOK(add)

AttrInv == TypeOK /\ BoxesOK /\ CodeOK /\ AddingOK

------------------------------------------------------------------------------
\* getOffset finds a name where it is.
LEMMA OffsetIs ==
  ASSUME NEW h \in Seq(AllNames), NEW a \in Range(h)
  PROVE  GetOffset(h, a) \in 1..Len(h) /\ h[GetOffset(h, a)] = a
  <1>1. \E i \in 1..Len(h) : h[i] = a
    BY DEF Range
  <1> QED BY <1>1 DEF GetOffset

\* It is the only place.
LEMMA OffsetUnique ==
  ASSUME NEW h \in Seq(AllNames), IsInjective(h), NEW i \in 1..Len(h), NEW a, h[i] = a
  PROVE  GetOffset(h, a) = i
  <1>1. a \in Range(h)
    BY DEF Range
  <1>2. GetOffset(h, a) \in 1..Len(h) /\ h[GetOffset(h, a)] = a
    BY <1>1, OffsetIs
  <1> QED BY <1>2 DEF IsInjective

\* What a hidden class is like when a new name has been added.
LEMMA AddedName ==
  ASSUME NEW h \in Seq(AllNames), NEW a \in AllNames, a \notin Range(h), IsInjective(h)
  PROVE  /\ Append(h, a) \in Seq(AllNames) /\ Len(Append(h, a)) = Len(h) + 1
         /\ IsInjective(Append(h, a)) /\ Range(Append(h, a)) = Range(h) \cup {a}
         /\ GetOffset(Append(h, a), a) = Len(h) + 1
         /\ \A n \in Range(h) : GetOffset(Append(h, a), n) = GetOffset(h, n)
  <1>1. PICK g : g = Append(h, a)
    OBVIOUS
  <1>2. /\ g \in Seq(AllNames) /\ Len(g) = Len(h) + 1 /\ g[Len(h) + 1] = a /\ Len(h) \in Nat
        /\ \A i \in 1..Len(h) : g[i] = h[i]
    <2>1. Append(h, a) \in Seq(AllNames) /\ Len(Append(h, a)) = Len(h) + 1 /\ Len(h) \in Nat
      OBVIOUS
    <2>2. Append(h, a)[Len(h) + 1] = a
      OBVIOUS
    <2>3. \A i \in 1..Len(h) : Append(h, a)[i] = h[i]
      OBVIOUS
    <2> QED BY <1>1, <2>1, <2>2, <2>3
  <1>3. DOMAIN g = 1..(Len(h) + 1) /\ DOMAIN h = 1..Len(h)
    BY <1>2
  <1>4. \A i \in 1..Len(h) : h[i] # a
    BY <1>3 DEF Range
  <1>0. \A i \in 1..(Len(h) + 1) : i \in 1..Len(h) \/ i = Len(h) + 1
    BY <1>2
  <1>5. IsInjective(g)
    <2>1. \A i, j \in 1..Len(h) : h[i] = h[j] => i = j
      BY <1>3 DEF IsInjective
    <2>2. \A i, j \in 1..(Len(h) + 1) : g[i] = g[j] => i = j
      BY <1>2, <1>4, <1>0, <2>1
    <2> QED BY <2>2, <1>3 DEF IsInjective
  <1>6. Range(g) = Range(h) \cup {a}
    <2>1. Range(g) \subseteq Range(h) \cup {a}
      BY <1>2, <1>3, <1>0 DEF Range
    <2>2. a \in Range(g)
      <3>1. Len(h) + 1 \in DOMAIN g
        BY <1>2, <1>3
      <3> QED BY <1>2, <3>1 DEF Range
    <2>3. Range(h) \subseteq Range(g)
      <3> SUFFICES ASSUME NEW i \in 1..Len(h) PROVE h[i] \in Range(g)
        BY <1>3 DEF Range
      <3>1. i \in DOMAIN g /\ g[i] = h[i]
        BY <1>2, <1>3
      <3> QED BY <3>1 DEF Range
    <2> QED BY <2>1, <2>2, <2>3
  <1>7. GetOffset(g, a) = Len(h) + 1
    <2>1. Len(h) + 1 \in 1..Len(g)
      BY <1>2
    <2> QED BY <1>2, <1>5, <2>1, OffsetUnique
  <1>8. ASSUME NEW n \in Range(h) PROVE GetOffset(g, n) = GetOffset(h, n)
    <2>1. PICK i : i = GetOffset(h, n)
      OBVIOUS
    <2>2. i \in 1..Len(h) /\ h[i] = n
      BY <2>1, <1>8, OffsetIs
    <2>3. i \in 1..Len(g) /\ g[i] = n
      BY <2>2, <1>2
    <2> QED BY <2>1, <2>3, <1>2, <1>5, OffsetUnique
  <1> QED BY <1>1, <1>2, <1>5, <1>6, <1>7, <1>8

\* The names and values a program uses.
LEMMA ProgramNames ==
  ASSUME program \in Programs
  PROVE  /\ program.reads \subseteq Names /\ program.writes \subseteq Names
         /\ GetSites \subseteq Names /\ SetSites \subseteq Names /\ program.values \subseteq Values
  BY DEF Names, Values, GetSites, SetSites

\* Only instances have a class of their own.
LEMMA ClsIs ==
  ASSUME ObjectModelAssumption
  PROVE  /\ \A b \in Objs : Cls[b] = InstanceOf[b] /\ Cls[b] \in Classes
         /\ \A b \in Classes \cup {TypeCls} : Cls[b] = TypeCls /\ b \notin Objs
         /\ \A b \in HCBoxes : Cls[b] \in Classes \cup {TypeCls} /\ Cls[b] \in HCBoxes
         /\ \A b \in HCBoxes : Cls[b] = TypeCls <=> b \notin Objs
  BY DEF ObjectModelAssumption, Cls, HCBoxes

------------------------------------------------------------------------------
\* The new objects have no attributes, the classes those createClass gave them.
LEMMA InitInv ==
  ASSUME ObjectModelAssumption, Init
  PROVE  AttrInv
  <1>1. ClassNames \in Seq(AllNames) /\ IsInjective(ClassNames)
    BY DEF ObjectModelAssumption, AllNames, Range
  <1>2. <<>> \in Seq(AllNames) /\ Len(<<>>) = 0 /\ IsInjective(<<>>) /\ Range(<<>>) = {}
    BY DEF IsInjective, Range
  <1>3. PICK vs : vs = [i \in 1..Len(ClassNames) |-> ClassValue]
    OBVIOUS
  <1>4. /\ vs \in Seq(Values \cup {ClassValue}) /\ Len(vs) = Len(ClassNames)
        /\ <<>> \in Seq(Values \cup {ClassValue})
    <2>1. Len(ClassNames) \in Nat
      BY <1>1
    <2> QED BY <1>3, <2>1
  <1>5. \A b \in HCBoxes : /\ b \in Objs => hcls[b] = <<>> /\ attr_list[b] = <<>>
                           /\ b \notin Objs => hcls[b] = ClassNames /\ attr_list[b] = vs
    BY <1>3 DEF Init
  <1>6. hcls = [b \in HCBoxes |-> hcls[b]] /\ attr_list = [b \in HCBoxes |-> attr_list[b]]
    BY DEF Init
  <1>7. TypeOK
    <2>1. \A b \in HCBoxes : /\ hcls[b] \in Seq(AllNames)
                             /\ attr_list[b] \in Seq(Values \cup {ClassValue})
      BY <1>1, <1>2, <1>4, <1>5
    <2>2. hcls \in [HCBoxes -> Seq(AllNames)]
      BY <1>6, <2>1
    <2>3. attr_list \in [HCBoxes -> Seq(Values \cup {ClassValue})]
      BY <1>6, <2>1
    <2>4. /\ dependents \in [Classes \cup {TypeCls} -> SUBSET Names]
          /\ program \in Programs /\ adding \subseteq Adds
          /\ getSlot = [a \in GetSites |-> getSlot[a]]
      BY DEF Init
    <2>5. setSlots \in [SetSites -> Seq(SetCodes)]
      BY DEF Init
    <2> QED BY <2>2, <2>3, <2>4, <2>5 DEF TypeOK
  <1>8. BoxesOK
    <2> SUFFICES ASSUME NEW b \in HCBoxes PROVE BoxOK(b)
      BY DEF BoxesOK
    <2>1. CASE b \in Objs
      BY <2>1, <1>2, <1>5 DEF BoxOK
    <2>2. CASE b \notin Objs
      BY <2>2, <1>1, <1>4, <1>5 DEF BoxOK
    <2> QED BY <2>1, <2>2
  <1>9. CodeOK /\ AddingOK
    BY DEF Init, CodeOK, AddingOK, GetCodeOK
  <1> QED BY <1>7, <1>8, <1>9 DEF AttrInv

(***************************************************************************)
(* What a step does to the boxes and to the setattr patchpoints, and what  *)
(* it does to the getattr patchpoints, are told apart: BoxPart is the      *)
(* part of the invariant about the first, GetPart about the second.        *)
(***************************************************************************)
BoxPart ==
  /\ hcls \in [HCBoxes -> Seq(AllNames)]
  /\ attr_list \in [HCBoxes -> Seq(Values \cup {ClassValue})]
  /\ setSlots \in [SetSites -> Seq(SetCodes)]
  /\ adding \subseteq Adds
  /\ \A a \in SetSites : \A i \in 1..Len(setSlots[a]) : SetCodeOK(a, setSlots[a][i])
  /\ BoxesOK /\ AddingOK
GetPart ==
  /\ getSlot = [a \in GetSites |-> getSlot[a]]
  /\ dependents \in [Classes \cup {TypeCls} -> SUBSET Names]
  /\ \A a \in GetSites : GetCodeOK(a, getSlot[a])

\* The invariant is its two parts,
LEMMA PartsOfInv == AttrInv <=> program \in Programs /\ BoxPart /\ GetPart
  BY DEF AttrInv, TypeOK, CodeOK, BoxPart, GetPart

\* also after a step.
LEMMA PartsOfInvNext == AttrInv' <=> program' \in Programs /\ BoxPart' /\ GetPart'
  BY DEF AttrInv, TypeOK, CodeOK, BoxPart, GetPart

\* A step that changes neither the boxes nor the setattr patchpoints.
LEMMA SameBoxes ==
  ASSUME BoxPart, UNCHANGED <<program, hcls, attr_list, setSlots, adding>>
  PROVE  BoxPart'
  <1>1. BoxesOK'
    BY DEF BoxPart, BoxesOK, BoxOK
  <1>2. AddingOK'
    BY DEF BoxPart, AddingOK, AddOK, SetSites
  <1> QED BY <1>1, <1>2 DEF BoxPart, SetSites

\* A step that changes no getattr patchpoint.
LEMMA SameGets ==
  ASSUME GetPart, UNCHANGED <<program, getSlot, dependents>>
  PROVE  GetPart'
  BY DEF GetPart, GetSites

\* The code getattr commits.
LEMMA RewriteOK ==
  ASSUME ObjectModelAssumption, BoxPart, NEW b \in HCBoxes, NEW a \in Names,
         Source(b, a) \in {"inst", "cls"}
  PROVE  GetCodeOK(a, GetRewrite(b, a))
  <1>1. CASE Source(b, a) = "inst"
    <2>1. a \in Range(hcls[b])
      BY <1>1 DEF Source, HasAttr
    <2> QED BY <1>1, <2>1 DEF GetRewrite, GetCodeOK
  <1>2. CASE Source(b, a) = "cls"
    <2>1. /\ a \notin Range(hcls[b]) /\ a \in Range(hcls[Cls[b]])
          /\ "__getattribute__" \notin Range(hcls[Cls[b]]) /\ "__getattr__" \notin Range(hcls[Cls[b]])
      BY <1>2 DEF Source, HasAttr
    <2>2. Hooks \cap Range(hcls[Cls[b]]) = {}
      BY <2>1 DEF Hooks
    <2> QED BY <1>2, <2>1, <2>2 DEF GetRewrite, GetCodeOK
  <1> QED BY <1>1, <1>2

\* Reading changes nothing but the slot of its patchpoint.
LEMMA GetKeepsInv ==
  ASSUME ObjectModelAssumption, AttrInv, UNCHANGED program, NEW b \in HCBoxes, NEW a \in Names,
         NEW ic \in BOOLEAN, ic => a \in GetSites, (ic /\ CachedGet(b, a)) \/ SlowGet(b, a, ic)
  PROVE  AttrInv'
  <1>1. program \in Programs /\ BoxPart /\ GetPart
    BY PartsOfInv
  <1>2. BoxPart'
    BY <1>1, SameBoxes DEF CachedGet, SlowGet, caches
  <1>3. GetPart'
    <2>1. CASE UNCHANGED <<getSlot, dependents>>
      BY <2>1, <1>1, SameGets
    <2>2. CASE SlowGet(b, a, ic) /\ ic /\ Source(b, a) \in {"inst", "cls"}
      <3>1. PICK s : s = GetRewrite(b, a)
        OBVIOUS
      <3>2. a \in GetSites /\ GetCodeOK(a, s) /\ UNCHANGED GetSites
        BY <2>2, <3>1, <1>1, RewriteOK DEF GetSites
      <3>3. /\ getSlot' = [getSlot EXCEPT ![a] = s]
            /\ dependents' = [dependents EXCEPT ![Cls[b]] = @ \cup {a}]
        BY <2>2, <3>1 DEF SlowGet
      <3>4. getSlot' = [c \in GetSites' |-> getSlot'[c]]
        BY <3>2, <3>3, <1>1 DEF GetPart
      <3>5. \A c \in GetSites' : GetCodeOK(c, getSlot'[c])
        BY <3>2, <3>3, <1>1 DEF GetPart
      <3>6. dependents' \in [Classes \cup {TypeCls} -> SUBSET Names]
        BY <3>3, <1>1 DEF GetPart
      <3> QED BY <3>4, <3>5, <3>6 DEF GetPart
    <2> QED BY <2>1, <2>2 DEF CachedGet, SlowGet, caches
  <1> QED BY <1>1, <1>2, <1>3, PartsOfInvNext

\* The code in the slots of the setattr patchpoints.
SetCodeSlotsOK ==
  /\ setSlots \in [SetSites -> Seq(SetCodes)]
  /\ \A a \in SetSites : \A i \in 1..Len(setSlots[a]) : SetCodeOK(a, setSlots[a][i])

\* The slots of a setattr patchpoint after a commit.
LEMMA CommittedSlots ==
  ASSUME NEW old \in Seq(SetCodes), NEW code \in SetCodes
  PROVE  LET new == IF Len(old) < 2 THEN Append(old, code) ELSE [old EXCEPT ![1] = code]
         IN  /\ new \in Seq(SetCodes)
             /\ \A i \in 1..Len(new) : new[i] = code \/ (i \in 1..Len(old) /\ new[i] = old[i])
  <1>1. CASE Len(old) < 2
    <2>1. PICK new : new = Append(old, code)
      OBVIOUS
    <2>2. new \in Seq(SetCodes) /\ Len(new) = Len(old) + 1 /\ new[Len(old) + 1] = code
      BY <2>1, AppendProperties
    <2>3. \A i \in 1..Len(old) : new[i] = old[i]
      BY <2>1, AppendProperties
    <2>4. \A i \in 1..Len(new) : i \in 1..Len(old) \/ i = Len(old) + 1
      BY <2>2
    <2> QED BY <1>1, <2>1, <2>2, <2>3, <2>4
  <1>2. CASE ~ (Len(old) < 2)
    <2>1. PICK new : new = [old EXCEPT ![1] = code]
      OBVIOUS
    <2>2. 1 \in 1..Len(old)
      BY <1>2
    <2>3. new \in Seq(SetCodes) /\ Len(new) = Len(old)
      BY <2>1, <2>2, ExceptSeq
    <2>4. \A i \in 1..Len(old) : new[i] = IF i = 1 THEN code ELSE old[i]
      BY <2>1
    <2> QED BY <1>2, <2>1, <2>3, <2>4
  <1> QED BY <1>1, <1>2

\* The slow path of setattr commits code that fits the box it was written for.
LEMMA CommitSetOK ==
  ASSUME SetCodeSlotsOK, UNCHANGED program, NEW a \in SetSites, NEW code \in SetCodes,
         SetCodeOK(a, code), CommitSet(a, code)
  PROVE  SetCodeSlotsOK'
  <1>1. PICK old : old = setSlots[a] /\ old \in Seq(SetCodes)
    BY DEF SetCodeSlotsOK
  <1>2. PICK new : new = IF Len(old) < 2 THEN Append(old, code) ELSE [old EXCEPT ![1] = code]
    OBVIOUS
  <1>3. /\ new \in Seq(SetCodes)
        /\ \A i \in 1..Len(new) : new[i] = code \/ (i \in 1..Len(old) /\ new[i] = old[i])
    BY <1>1, <1>2, CommittedSlots
  <1>4. setSlots' = [setSlots EXCEPT ![a] = new] /\ SetSites' = SetSites
    BY <1>1, <1>2 DEF CommitSet, SetSites
  <1>5. setSlots' \in [SetSites -> Seq(SetCodes)] /\ setSlots'[a] = new
    BY <1>3, <1>4 DEF SetCodeSlotsOK
  <1>6. \A c \in SetSites : c # a => setSlots'[c] = setSlots[c]
    BY <1>4 DEF SetCodeSlotsOK
  <1>7. \A i \in 1..Len(new) : SetCodeOK(a, new[i])
    BY <1>1, <1>3 DEF SetCodeSlotsOK
  <1> QED BY <1>4, <1>5, <1>6, <1>7 DEF SetCodeSlotsOK

\* The value of an attribute is replaced.
LEMMA ReplaceKeepsBoxes ==
  ASSUME BoxPart, UNCHANGED <<program, hcls, adding>>, SetCodeSlotsOK',
         NEW b \in HCBoxes, NEW v \in Values, NEW o \in 1..Len(hcls[b]),
         attr_list' = [attr_list EXCEPT ![b][o] = v]
  PROVE  BoxPart'
  <1>1. PICK new : new = [attr_list[b] EXCEPT ![o] = v]
    OBVIOUS
  <1>2. attr_list[b] \in Seq(Values \cup {ClassValue}) /\ o \in 1..Len(attr_list[b])
    BY DEF BoxPart, BoxesOK, BoxOK
  <1>3. new \in Seq(Values \cup {ClassValue}) /\ Len(new) = Len(attr_list[b])
    BY <1>1, <1>2, ExceptSeq
  <1>4. attr_list' = [attr_list EXCEPT ![b] = new]
    BY <1>1 DEF BoxPart
  <1>5. /\ attr_list' \in [HCBoxes -> Seq(Values \cup {ClassValue})]
        /\ \A c \in HCBoxes : Len(attr_list'[c]) = Len(attr_list[c])
    BY <1>3, <1>4 DEF BoxPart
  <1>6. BoxesOK'
    BY <1>5 DEF BoxPart, BoxesOK, BoxOK
  <1>7. AddingOK'
    BY DEF BoxPart, AddingOK, AddOK, SetSites
  <1> QED BY <1>5, <1>6, <1>7 DEF BoxPart, SetCodeSlotsOK

\* The addition of an attribute begins.
LEMMA BeginAddKeepsBoxes ==
  ASSUME ObjectModelAssumption, BoxPart, UNCHANGED program, NEW b \in Objs \cup Classes,
         NEW a \in Names, NEW v \in Values, NEW patch \in BOOLEAN, patch => a \in SetSites,
         a \notin Range(hcls[b]), BeginAdd(b, a, v, patch)
  PROVE  BoxPart'
  <1>1. PICK add : add = [obj |-> b, attr |-> a, val |-> v,
                          newHcls |-> Append(hcls[b], a), patch |-> patch]
    OBVIOUS
  <1>2. adding' = {add} /\ UNCHANGED <<hcls, attr_list, setSlots>>
    BY <1>1 DEF BeginAdd
  <1>3. Append(hcls[b], a) \in Seq(AllNames)
    <2>1. hcls[b] \in Seq(AllNames) /\ a \in AllNames
      BY DEF BoxPart, HCBoxes, AllNames
    <2> QED BY <2>1, AppendProperties
  <1>4. /\ add \in Adds /\ add.obj = b /\ add.attr = a /\ add.newHcls = Append(hcls[b], a)
        /\ add.patch = patch
    BY <1>1, <1>3 DEF Adds
  <1>5. AddingOK'
    BY <1>2, <1>4 DEF AddingOK, AddOK, SetSites
  <1>6. BoxesOK'
    BY <1>2 DEF BoxPart, BoxesOK, BoxOK
  <1> QED BY <1>2, <1>4, <1>5, <1>6 DEF BoxPart, SetSites

\* The addition ends: the list and the hidden class have grown by one.
LEMMA FinishAddKeepsBoxes ==
  ASSUME ObjectModelAssumption, BoxPart, UNCHANGED program, FinishAdd
  PROVE  BoxPart'
  <1>1. PICK add \in adding :
          /\ attr_list' = [attr_list EXCEPT ![add.obj] = Append(@, add.val)]
          /\ hcls' = [hcls EXCEPT ![add.obj] = add.newHcls]
          /\ IF add.patch THEN CommitSet(add.attr, [op |-> "add", hcls |-> hcls[add.obj]])
                          ELSE UNCHANGED setSlots
          /\ adding' = {}
    BY DEF FinishAdd
  <1>2. PICK b, a, v : b = add.obj /\ a = add.attr /\ v = add.val
    OBVIOUS
  <1>3. /\ b \in Objs \cup Classes /\ b \in HCBoxes /\ a \in Names /\ a \in AllNames /\ v \in Values
        /\ AddOK(add)
    BY <1>2 DEF BoxPart, Adds, AddingOK, HCBoxes, AllNames
  <1>4. PICK h, l : h = hcls[b] /\ l = attr_list[b]
    OBVIOUS
  <1>5. /\ h \in Seq(AllNames) /\ l \in Seq(Values \cup {ClassValue}) /\ a \notin Range(h)
        /\ IsInjective(h) /\ Len(l) = Len(h) /\ add.newHcls = Append(h, a)
    BY <1>2, <1>3, <1>4 DEF BoxPart, AddOK, BoxesOK, BoxOK
  <1>6. PICK hh, ll : hh = Append(h, a) /\ ll = Append(l, v)
    OBVIOUS
  <1>7. /\ hh \in Seq(AllNames) /\ Len(hh) = Len(h) + 1 /\ IsInjective(hh)
        /\ Range(hh) = Range(h) \cup {a}
    BY <1>3, <1>5, <1>6, AddedName
  <1>8. ll \in Seq(Values \cup {ClassValue}) /\ Len(ll) = Len(l) + 1
    BY <1>3, <1>5, <1>6, AppendProperties
  <1>9. attr_list' = [attr_list EXCEPT ![b] = ll] /\ hcls' = [hcls EXCEPT ![b] = hh]
    BY <1>1, <1>2, <1>4, <1>5, <1>6 DEF BoxPart
  <1>10. /\ hcls' \in [HCBoxes -> Seq(AllNames)]
         /\ attr_list' \in [HCBoxes -> Seq(Values \cup {ClassValue})]
    BY <1>7, <1>8, <1>9 DEF BoxPart
  <1>11. BoxesOK'
    <2> SUFFICES ASSUME NEW c \in HCBoxes PROVE BoxOK(c)'
      BY DEF BoxesOK
    <2>0. BoxOK(c)
      BY DEF BoxPart, BoxesOK
    <2>1. CASE c = b
      <3>1. hcls'[c] = hh /\ attr_list'[c] = ll
        BY <2>1, <1>3, <1>9 DEF BoxPart
      <3>2. Len(ll) = Len(hh)
        BY <1>5, <1>7, <1>8
      <3> QED BY <2>0, <2>1, <3>1, <3>2, <1>3, <1>4, <1>7 DEF BoxOK
    <2>2. CASE c # b
      <3>1. hcls'[c] = hcls[c] /\ attr_list'[c] = attr_list[c]
        BY <2>2, <1>9 DEF BoxPart
      <3> QED BY <2>0, <3>1 DEF BoxOK
    <2> QED BY <2>1, <2>2
  <1>12. SetCodeSlotsOK'
    <2>1. SetCodeSlotsOK
      BY DEF BoxPart, SetCodeSlotsOK
    <2>2. CASE ~ add.patch
      BY <2>1, <2>2, <1>1 DEF SetCodeSlotsOK, SetSites
    <2>3. CASE add.patch
      <3>1. PICK code : code = [op |-> "add", hcls |-> h]
        OBVIOUS
      <3>2. code \in SetCodes /\ code.op = "add" /\ code.hcls = h
        BY <3>1, <1>5 DEF SetCodes
      <3>3. SetCodeOK(a, code)
        BY <3>2, <1>5 DEF SetCodeOK
      <3>4. a \in SetSites /\ CommitSet(a, code)
        BY <2>3, <1>1, <1>2, <1>3, <1>4, <3>1 DEF AddOK
      <3> QED BY <2>1, <3>2, <3>3, <3>4, CommitSetOK
    <2> QED BY <2>2, <2>3
  <1>13. AddingOK' /\ adding' \subseteq Adds
    BY <1>1 DEF AddingOK
  <1> QED BY <1>10, <1>11, <1>12, <1>13 DEF BoxPart, SetCodeSlotsOK

\* Invalidated slots are empty.
LEMMA InvalidateKeepsGets ==
  ASSUME GetPart, UNCHANGED program, NEW c, InvalidateAll(c)
  PROVE  GetPart'
  <1>1. UNCHANGED GetSites
    BY DEF GetSites
  <1>2. \A a \in GetSites : getSlot'[a] = NoSlot \/ getSlot'[a] = getSlot[a]
    BY DEF InvalidateAll
  <1>3. getSlot' = [a \in GetSites' |-> getSlot'[a]]
    BY <1>1 DEF InvalidateAll
  <1>4. dependents' \in [Classes \cup {TypeCls} -> SUBSET Names]
    BY DEF InvalidateAll, GetPart
  <1>5. \A a \in GetSites' : GetCodeOK(a, getSlot'[a])
    BY <1>1, <1>2 DEF GetPart, GetCodeOK
  <1> QED BY <1>3, <1>4, <1>5 DEF GetPart

\* The offset of a name is in the list.
LEMMA OffsetInList ==
  ASSUME BoxPart, NEW b \in HCBoxes, NEW a \in Range(hcls[b])
  PROVE  GetOffset(hcls[b], a) \in 1..Len(hcls[b]) /\ GetOffset(hcls[b], a) \in Nat
  <1>1. hcls[b] \in Seq(AllNames)
    BY DEF BoxPart
  <1>2. GetOffset(hcls[b], a) \in 1..Len(hcls[b])
    BY <1>1, OffsetIs
  <1> QED BY <1>1, <1>2

\* The slow path of setattr.
LEMMA SlowSetKeepsInv ==
  ASSUME ObjectModelAssumption, AttrInv, UNCHANGED program, NEW b \in Objs \cup Classes,
         NEW a \in Names, NEW v \in Values, NEW ic \in BOOLEAN, ic => a \in SetSites,
         SlowSet(b, a, v, ic)
  PROVE  AttrInv'
  <1>1. program \in Programs /\ BoxPart /\ GetPart /\ b \in HCBoxes
    BY PartsOfInv DEF HCBoxes
  <1>2. GetPart'
    BY <1>1, SameGets, InvalidateKeepsGets DEF SlowSet
  <1>3. PICK rewrites \in BOOLEAN :
          /\ rewrites => ic
          /\ HasAttr(b, a) =>
               /\ attr_list' = [attr_list EXCEPT ![b][GetOffset(hcls[b], a)] = v]
               /\ rewrites => CommitSet(a, [op |-> "replace", hcls |-> hcls[b],
                                            offset |-> GetOffset(hcls[b], a)])
               /\ ~ rewrites => UNCHANGED setSlots
               /\ UNCHANGED <<hcls, adding>>
          /\ ~ HasAttr(b, a) => BeginAdd(b, a, v, rewrites)
    BY DEF SlowSet
  <1>4. CASE HasAttr(b, a)
    <2>1. a \in Range(hcls[b])
      BY <1>4 DEF HasAttr
    <2>2. PICK o : o = GetOffset(hcls[b], a)
      OBVIOUS
    <2>3. o \in 1..Len(hcls[b]) /\ o \in Nat
      BY <2>1, <2>2, <1>1, OffsetInList
    <2>4. SetCodeSlotsOK
      BY <1>1 DEF BoxPart, SetCodeSlotsOK
    <2>5. SetCodeSlotsOK'
      <3>1. CASE ~ rewrites
        BY <1>3, <1>4, <2>4, <3>1 DEF SetCodeSlotsOK, SetSites
      <3>2. CASE rewrites
        <4>1. PICK code : code = [op |-> "replace", hcls |-> hcls[b], offset |-> o]
          OBVIOUS
        <4>2. /\ code \in SetCodes /\ code.op = "replace" /\ code.hcls = hcls[b] /\ code.offset = o
          BY <4>1, <2>3, <1>1 DEF SetCodes, BoxPart
        <4>3. SetCodeOK(a, code)
          BY <4>2, <2>1, <2>2 DEF SetCodeOK
        <4>4. CommitSet(a, code) /\ a \in SetSites
          BY <1>3, <1>4, <3>2, <4>1, <2>2
        <4> QED BY <2>4, <4>2, <4>3, <4>4, CommitSetOK
      <3> QED BY <3>1, <3>2
    <2>6. BoxPart'
      BY <1>1, <1>3, <1>4, <2>2, <2>3, <2>5, ReplaceKeepsBoxes
    <2> QED BY <2>6, <1>1, <1>2, PartsOfInvNext
  <1>5. CASE ~ HasAttr(b, a)
    <2>1. a \notin Range(hcls[b]) /\ (rewrites => a \in SetSites) /\ BeginAdd(b, a, v, rewrites)
      BY <1>3, <1>5 DEF HasAttr
    <2>2. BoxPart'
      BY <1>1, <2>1, BeginAddKeepsBoxes, ZenonT(60)
    <2> QED BY <2>2, <1>1, <1>2, PartsOfInvNext
  <1> QED BY <1>4, <1>5

\* The code of a slot of setattr.
LEMMA CachedSetKeepsInv ==
  ASSUME ObjectModelAssumption, AttrInv, UNCHANGED program, NEW b \in Objs \cup Classes,
         NEW a \in SetSites, NEW v \in Values, CachedSet(b, a, v)
  PROVE  AttrInv'
  <1>1. program \in Programs /\ BoxPart /\ GetPart /\ b \in HCBoxes
    BY PartsOfInv DEF HCBoxes
  <1>2. GetPart'
    BY <1>1, SameGets DEF CachedSet
  <1>0. PICK i \in 1..Len(setSlots[a]) :
          /\ SetHits(b, a, i)
          /\ IF setSlots[a][i].op = "replace"
               THEN /\ attr_list' = [attr_list EXCEPT ![b][setSlots[a][i].offset] = v]
                    /\ UNCHANGED <<hcls, adding, setSlots>>
               ELSE BeginAdd(b, a, v, FALSE)
    BY DEF CachedSet
  <1>3. PICK code :
          /\ code = setSlots[a][i]
          /\ SetHits(b, a, i)
          /\ code.op = "replace" => /\ attr_list' = [attr_list EXCEPT ![b][code.offset] = v]
                                    /\ UNCHANGED <<hcls, adding, setSlots>>
          /\ code.op # "replace" => BeginAdd(b, a, v, FALSE)
    BY <1>0
  <1>4. SetCodeOK(a, code) /\ code.hcls = hcls[b] /\ a \in Names
    <2>1. \A c \in SetSites : \A k \in 1..Len(setSlots[c]) : SetCodeOK(c, setSlots[c][k])
      BY <1>1 DEF BoxPart
    <2>2. code.hcls = hcls[b]
      BY <1>3 DEF SetHits
    <2>3. a \in Names
      BY <1>1, ProgramNames
    <2> QED BY <1>3, <2>1, <2>2, <2>3
  <1>5. CASE code.op = "replace"
    <2>0. /\ attr_list' = [attr_list EXCEPT ![b][code.offset] = v]
          /\ UNCHANGED <<hcls, adding, setSlots>>
      BY <1>3, <1>5
    <2>1. a \in Range(hcls[b]) /\ code.offset = GetOffset(hcls[b], a)
      BY <1>4, <1>5 DEF SetCodeOK
    <2>2. code.offset \in 1..Len(hcls[b])
      BY <1>1, <2>1, OffsetInList
    <2>3. SetCodeSlotsOK'
      BY <1>1, <2>0 DEF BoxPart, SetCodeSlotsOK, SetSites
    <2>4. PICK o : o = code.offset
      OBVIOUS
    <2>5. BoxPart'
      BY <1>1, <2>0, <2>2, <2>3, <2>4, ReplaceKeepsBoxes
    <2> QED BY <2>5, <1>1, <1>2, PartsOfInvNext
  <1>6. CASE code.op # "replace"
    <2>1. a \notin Range(hcls[b])
      BY <1>4, <1>6 DEF SetCodeOK
    <2>2. BeginAdd(b, a, v, FALSE)
      BY <1>3, <1>6
    <2>3. BoxPart'
      BY <1>1, <1>4, <2>1, <2>2, BeginAddKeepsBoxes
    <2> QED BY <2>3, <1>1, <1>2, PartsOfInvNext
  <1> QED BY <1>5, <1>6

\* The realloc of an attribute list has returned: the new attribute is stored.
LEMMA FinishAddKeepsInv ==
  ASSUME ObjectModelAssumption, AttrInv, UNCHANGED program, FinishAdd
  PROVE  AttrInv'
  <1>1. program \in Programs /\ BoxPart /\ GetPart
    BY PartsOfInv
  <1>2. BoxPart'
    BY <1>1, FinishAddKeepsBoxes
  <1>3. GetPart'
    BY <1>1, SameGets DEF FinishAdd
  <1> QED BY <1>1, <1>2, <1>3, PartsOfInvNext

\* A refused assignment, and a step that changes nothing.
LEMMA RefusedKeepsInv ==
  ASSUME AttrInv, UNCHANGED <<program, hcls, attr_list, caches, adding>>
  PROVE  AttrInv'
  <1>1. program \in Programs /\ BoxPart /\ GetPart
    BY PartsOfInv
  <1>2. BoxPart' /\ GetPart'
    BY <1>1, SameBoxes, SameGets DEF caches
  <1> QED BY <1>1, <1>2, PartsOfInvNext

(***************************************************************************)
(* What a step is: the names and boxes it is about.                        *)
(***************************************************************************)
GetStep(b, a, ic) ==
  /\ b \in HCBoxes /\ a \in Names /\ ic \in BOOLEAN /\ (ic => a \in GetSites)
  /\ (ic /\ CachedGet(b, a)) \/ SlowGet(b, a, ic)
SlowSetStep(b, a, v, ic) ==
  /\ b \in Objs \cup Classes /\ a \in Names /\ v \in Values /\ ic \in BOOLEAN
  /\ ic => a \in SetSites
  /\ SlowSet(b, a, v, ic)
CachedSetStep(b, a, v) ==
  b \in Objs \cup Classes /\ a \in SetSites /\ v \in Values /\ CachedSet(b, a, v)

\* The steps of Next, told apart by what runs.
LEMMA StepIs ==
  ASSUME program \in Programs, Next
  PROVE  /\ UNCHANGED program
         /\ \/ \E b, a, ic : GetStep(b, a, ic)
            \/ \E b, a, v, ic : SlowSetStep(b, a, v, ic)
            \/ \E b, a, v : CachedSetStep(b, a, v)
            \/ FinishAdd
            \/ SetRefused
  <1>0. UNCHANGED program
    BY DEF Next
  <1>1. ASSUME NEW b \in HCBoxes, NEW a \in program.reads, SlowGet(b, a, FALSE)
        PROVE  GetStep(b, a, FALSE)
    BY <1>1, ProgramNames DEF GetStep
  <1>2. ASSUME NEW b \in HCBoxes, NEW a \in GetSites, CachedGet(b, a) \/ SlowGet(b, a, TRUE)
        PROVE  GetStep(b, a, TRUE)
    BY <1>2, ProgramNames DEF GetStep
  <1>3. ASSUME NEW b \in Objs \cup Classes, NEW a \in program.writes, NEW v \in program.values,
               SlowSet(b, a, v, FALSE)
        PROVE  SlowSetStep(b, a, v, FALSE)
    BY <1>3, ProgramNames DEF SlowSetStep
  <1>4. ASSUME NEW b \in Objs \cup Classes, NEW a \in SetSites, NEW v \in program.values,
               SlowSet(b, a, v, TRUE)
        PROVE  SlowSetStep(b, a, v, TRUE)
    BY <1>4, ProgramNames DEF SlowSetStep
  <1>5. ASSUME NEW b \in Objs \cup Classes, NEW a \in SetSites, NEW v \in program.values,
               CachedSet(b, a, v)
        PROVE  CachedSetStep(b, a, v)
    BY <1>5, ProgramNames DEF CachedSetStep
  <1>6. \/ \E b \in HCBoxes, a \in program.reads : SlowGet(b, a, FALSE)
        \/ \E b \in HCBoxes, a \in GetSites : CachedGet(b, a) \/ SlowGet(b, a, TRUE)
        \/ \E b \in Objs \cup Classes, v \in program.values :
             \/ \E a \in program.writes : SlowSet(b, a, v, FALSE)
             \/ \E a \in SetSites : CachedSet(b, a, v) \/ SlowSet(b, a, v, TRUE)
        \/ FinishAdd
        \/ SetRefused
    BY DEF Next
  <1> QED BY <1>0, <1>1, <1>2, <1>3, <1>4, <1>5, <1>6

\* Every step keeps the invariant.
LEMMA NextKeepsInv ==
  ASSUME ObjectModelAssumption, AttrInv, [Next]_vars
  PROVE  AttrInv'
  <1>1. program \in Programs
    BY DEF AttrInv, TypeOK
  <1>2. CASE UNCHANGED vars
    BY <1>2, RefusedKeepsInv DEF vars
  <1>3. CASE Next
    <2>1. UNCHANGED program
      BY <1>1, <1>3, StepIs
    <2>2. ASSUME NEW b, NEW a, NEW ic, GetStep(b, a, ic) PROVE AttrInv'
      BY <2>1, <2>2, GetKeepsInv DEF GetStep
    <2>3. ASSUME NEW b, NEW a, NEW v, NEW ic, SlowSetStep(b, a, v, ic) PROVE AttrInv'
      <3>1. b \in Objs \cup Classes
        BY <2>3 DEF SlowSetStep
      <3>2. /\ a \in Names /\ v \in Values /\ ic \in BOOLEAN
            /\ ic => a \in SetSites
            /\ SlowSet(b, a, v, ic)
        BY <2>3 DEF SlowSetStep
      <3> QED BY <2>1, <3>1, <3>2, SlowSetKeepsInv
    <2>4. ASSUME NEW b, NEW a, NEW v, CachedSetStep(b, a, v) PROVE AttrInv'
      BY <2>1, <2>4, CachedSetKeepsInv DEF CachedSetStep
    <2>5. CASE FinishAdd
      BY <2>1, <2>5, FinishAddKeepsInv
    <2>6. CASE SetRefused
      BY <2>1, <2>6, RefusedKeepsInv DEF SetRefused
    <2> QED BY <1>1, <1>3, <2>2, <2>3, <2>4, <2>5, <2>6, StepIs
  <1> QED BY <1>2, <1>3

\* The invariant holds in every state.
LEMMA AttrInvHolds == Spec => []AttrInv
  <1>1. Init => AttrInv
    BY ObjectModelAssumption, InitInv
  <1>2. AttrInv /\ [Next]_vars => AttrInv'
    BY ObjectModelAssumption, NextKeepsInv
  <1> QED BY <1>1, <1>2, PTL DEF Spec

\* A collection that the allocation of an attribute list starts finds every attribute
\* of every object in its list, whatever slow paths and slots have added before: the
\* hidden class follows the list, never the other way round.
THEOREM CollectorFindsAttrs == Spec => []CollectorSeesAllAttrs
  <1>1. AttrInv => CollectorSeesAllAttrs
    <2> SUFFICES ASSUME AttrInv, NEW b \in HCBoxes PROVE Len(attr_list[b]) >= Len(hcls[b])
      BY DEF CollectorSeesAllAttrs
    <2>1. Len(attr_list[b]) = Len(hcls[b]) /\ Len(hcls[b]) \in Nat
      BY DEF AttrInv, BoxesOK, BoxOK, TypeOK
    <2> QED BY <2>1
  <1> QED BY <1>1, AttrInvHolds, PTL

------------------------------------------------------------------------------
(***************************************************************************)
(* When cached code answers as the slow path does.  A slot that reads the  *)
(* attribute of an instance compares nothing with its class; the code is   *)
(* right because the class that could get a hook lists the patchpoint as a *)
(* dependent.  That takes hidden classes that tell the classes of boxes    *)
(* apart: all instances are of one class, and the program leaves a name    *)
(* that createClass gives to classes alone.  Without hooks any number of   *)
(* classes will do.                                                        *)
(***************************************************************************)
Own == Range(ClassNames) \ Names
OneClass == Own # {} /\ \A o, p \in Objs : InstanceOf[o] = InstanceOf[p]
NoHooks == Hooks \cap AllNames = {}
OfClass(h) == Own \subseteq Range(h)

\* The class of a box that can pass the guard of an instance slot has no
\* __getattribute__, and invalidates the patchpoint when it gets one.
InstSlotOK(a, s, b) ==
  s.op = "inst" /\ (b \in Objs <=> ~ OfClass(s.hcls)) =>
    /\ "__getattribute__" \notin Range(hcls[Cls[b]])
    /\ a \in dependents[Cls[b]]
InstSlotsOK == \A a \in GetSites, b \in HCBoxes : InstSlotOK(a, getSlot[a], b)

\* No slot sets a hook on a class.
HookSlotsOK == \A a \in SetSites : a \in Hooks =>
                 \A i \in 1..Len(setSlots[a]) : ~ OfClass(setSlots[a][i].hcls)

\* While a hook is being added to a class nothing depends on the class.
HookAddsOK == \A add \in adding : add.attr \in Hooks /\ add.obj \in Classes =>
                dependents[add.obj] = {} /\ ~ add.patch

HookInv == InstSlotsOK /\ HookSlotsOK /\ HookAddsOK

\* Hidden classes tell instances from classes.
LEMMA KindIs ==
  ASSUME ObjectModelAssumption, OneClass, AttrInv, NEW b \in HCBoxes
  PROVE  b \in Objs <=> ~ OfClass(hcls[b])
  <1>1. BoxOK(b)
    BY DEF AttrInv, BoxesOK
  <1>2. CASE b \in Objs
    BY <1>1, <1>2 DEF BoxOK, OfClass, Own, OneClass
  <1>3. CASE b \notin Objs
    BY <1>1, <1>3 DEF BoxOK, OfClass, Own
  <1> QED BY <1>2, <1>3

\* With one class, boxes of one kind have one class.
LEMMA SameKindSameCls ==
  ASSUME ObjectModelAssumption, OneClass, NEW b \in HCBoxes, NEW c \in HCBoxes,
         b \in Objs <=> c \in Objs
  PROVE  Cls[b] = Cls[c]
  <1>1. CASE b \in Objs
    BY <1>1, ClsIs DEF OneClass
  <1>2. CASE b \notin Objs
    BY <1>2, ClsIs
  <1> QED BY <1>1, <1>2

\* At the start no slot is filled.
LEMMA InitHooks ==
  ASSUME Init
  PROVE  HookInv
  <1>1. \A a \in GetSites : getSlot[a].op # "inst"
    BY DEF Init, NoSlot
  <1>2. InstSlotsOK
    BY <1>1 DEF InstSlotsOK, InstSlotOK
  <1>3. HookSlotsOK
    BY DEF Init, HookSlotsOK
  <1>4. HookAddsOK
    BY DEF Init, HookAddsOK
  <1> QED BY <1>2, <1>3, <1>4 DEF HookInv

\* Steps that change neither the boxes nor the caches.
LEMMA SameHooks ==
  ASSUME HookInv, UNCHANGED <<program, hcls, caches, adding>>
  PROVE  HookInv'
  <1>1. UNCHANGED <<getSlot, dependents, setSlots, GetSites, SetSites>>
    BY DEF caches, GetSites, SetSites
  <1>2. InstSlotsOK'
    BY <1>1 DEF HookInv, InstSlotsOK, InstSlotOK
  <1>3. HookSlotsOK' /\ HookAddsOK'
    BY <1>1 DEF HookInv, HookSlotsOK, HookAddsOK
  <1> QED BY <1>2, <1>3 DEF HookInv

\* The slot that getattr fills depends on the class of every object that fits it.
LEMMA GetKeepsHooks ==
  ASSUME ObjectModelAssumption, OneClass, AttrInv, HookInv, UNCHANGED program,
         NEW b \in HCBoxes, NEW a \in GetSites, SlowGet(b, a, TRUE), Source(b, a) \in {"inst", "cls"}
  PROVE  HookInv'
  <1>1. PICK s : s = GetRewrite(b, a)
    OBVIOUS
  <1>2. /\ getSlot' = [getSlot EXCEPT ![a] = s]
        /\ dependents' = [dependents EXCEPT ![Cls[b]] = @ \cup {a}]
        /\ UNCHANGED <<hcls, setSlots, adding, GetSites, SetSites>> /\ adding = {}
    BY <1>1 DEF SlowGet, GetSites, SetSites
  <1>3. /\ \A c \in GetSites : getSlot'[c] = IF c = a THEN s ELSE getSlot[c]
        /\ \A c \in Classes \cup {TypeCls} :
             dependents'[c] = IF c = Cls[b] THEN dependents[c] \cup {a} ELSE dependents[c]
    BY <1>2 DEF AttrInv, TypeOK
  <1>4. \A c \in HCBoxes : Cls[c] \in Classes \cup {TypeCls}
    BY ClsIs
  <1>5. InstSlotsOK'
    <2> SUFFICES ASSUME NEW c \in GetSites, NEW d \in HCBoxes
                 PROVE  InstSlotOK(c, getSlot[c], d)'
      BY <1>2 DEF InstSlotsOK
    <2>1. CASE c # a
      <3>1. InstSlotOK(c, getSlot[c], d)
        BY DEF HookInv, InstSlotsOK
      <3> QED BY <2>1, <3>1, <1>2, <1>3, <1>4 DEF InstSlotOK
    <2>2. CASE c = a
      <3> SUFFICES ASSUME s.op = "inst", d \in Objs <=> ~ OfClass(s.hcls)
                   PROVE  /\ "__getattribute__" \notin Range(hcls[Cls[d]])
                          /\ a \in dependents'[Cls[d]]
        BY <2>2, <1>2, <1>3 DEF InstSlotOK
      <3>1. Source(b, a) = "inst" /\ s.hcls = hcls[b]
        BY <1>1 DEF GetRewrite
      <3>2. "__getattribute__" \notin Range(hcls[Cls[b]])
        BY <3>1 DEF Source, HasAttr
      <3>3. b \in Objs <=> d \in Objs
        BY <3>1, KindIs
      <3>4. Cls[b] = Cls[d]
        BY <3>3, SameKindSameCls
      <3> QED BY <3>2, <3>4, <1>3, <1>4
    <2> QED BY <2>1, <2>2
  <1>6. HookSlotsOK' /\ HookAddsOK'
    BY <1>2 DEF HookInv, HookSlotsOK, HookAddsOK
  <1> QED BY <1>5, <1>6 DEF HookInv

\* A commit to a setattr patchpoint.
LEMMA CommitKeepsHookSlots ==
  ASSUME AttrInv, HookSlotsOK, UNCHANGED program, NEW a \in SetSites, NEW code \in SetCodes,
         a \in Hooks => ~ OfClass(code.hcls), CommitSet(a, code)
  PROVE  HookSlotsOK'
  <1>1. PICK old : old = setSlots[a] /\ old \in Seq(SetCodes)
    BY DEF AttrInv, TypeOK
  <1>2. PICK new : new = IF Len(old) < 2 THEN Append(old, code) ELSE [old EXCEPT ![1] = code]
    OBVIOUS
  <1>3. \A i \in 1..Len(new) : new[i] = code \/ (i \in 1..Len(old) /\ new[i] = old[i])
    BY <1>1, <1>2, CommittedSlots
  <1>4. setSlots' = [setSlots EXCEPT ![a] = new] /\ SetSites' = SetSites
    BY <1>1, <1>2 DEF CommitSet, SetSites
  <1>5. setSlots'[a] = new /\ \A c \in SetSites : c # a => setSlots'[c] = setSlots[c]
    BY <1>4 DEF AttrInv, TypeOK
  <1>6. a \in Hooks => \A i \in 1..Len(new) : ~ OfClass(new[i].hcls)
    BY <1>1, <1>3 DEF HookSlotsOK
  <1> QED BY <1>4, <1>5, <1>6 DEF HookSlotsOK

\* Invalidation empties the slots of the patchpoints that depend on the class.
LEMMA InvalidateKeepsSlots ==
  ASSUME ObjectModelAssumption, AttrInv, InstSlotsOK, UNCHANGED <<program, hcls>>,
         NEW c \in Classes, InvalidateAll(c)
  PROVE  InstSlotsOK' /\ dependents'[c] = {}
  <1>1. /\ \A a \in GetSites : getSlot'[a] = IF a \in dependents[c] THEN NoSlot ELSE getSlot[a]
        /\ \A d \in Classes \cup {TypeCls} :
             dependents'[d] = IF d = c THEN {} ELSE dependents[d]
        /\ UNCHANGED GetSites
    BY DEF InvalidateAll, AttrInv, TypeOK, GetSites
  <1>2. NoSlot.op # "inst"
    BY DEF NoSlot
  <1> SUFFICES ASSUME NEW a \in GetSites, NEW b \in HCBoxes
               PROVE  InstSlotOK(a, getSlot[a], b)'
    BY <1>1 DEF InstSlotsOK
  <1>3. InstSlotOK(a, getSlot[a], b) /\ Cls[b] \in Classes \cup {TypeCls}
    BY ClsIs DEF InstSlotsOK
  <1>4. CASE a \in dependents[c]
    BY <1>1, <1>2, <1>4 DEF InstSlotOK
  <1>5. CASE a \notin dependents[c]
    BY <1>1, <1>3, <1>5 DEF InstSlotOK
  <1> QED BY <1>4, <1>5

\* The slow path of setattr: a hook set on a class invalidates and commits nothing.
LEMMA SlowSetKeepsHooks ==
  ASSUME ObjectModelAssumption, OneClass, AttrInv, HookInv, UNCHANGED program,
         NEW b \in Objs \cup Classes, NEW a \in Names, NEW v \in Values, NEW ic \in BOOLEAN,
         ic => a \in SetSites, SlowSet(b, a, v, ic)
  PROVE  HookInv'
  <1>0. b \in HCBoxes /\ (b \notin Objs => b \in Classes) /\ (Cls[b] = TypeCls <=> b \notin Objs)
    BY ClsIs DEF HCBoxes
  <1>1. PICK invalidates \in BOOLEAN : invalidates <=> a \in Hooks /\ b \notin Objs
    OBVIOUS
  <1>2. PICK rewrites \in BOOLEAN : rewrites <=> ic /\ ~ invalidates
    OBVIOUS
  <1>3. /\ invalidates => InvalidateAll(b)
        /\ ~ invalidates => UNCHANGED <<getSlot, dependents>>
        /\ HasAttr(b, a) =>
             /\ rewrites => CommitSet(a, [op |-> "replace", hcls |-> hcls[b],
                                          offset |-> GetOffset(hcls[b], a)])
             /\ ~ rewrites => UNCHANGED setSlots
             /\ UNCHANGED <<hcls, adding>>
        /\ ~ HasAttr(b, a) => BeginAdd(b, a, v, rewrites)
        /\ adding = {}
    BY <1>0, <1>1, <1>2 DEF SlowSet
  <1>4. UNCHANGED <<hcls, GetSites, SetSites>>
    BY <1>3 DEF BeginAdd, GetSites, SetSites
  <1>5. InstSlotsOK' /\ (invalidates => dependents'[b] = {})
    <2>1. CASE invalidates
      BY <2>1, <1>0, <1>1, <1>3, <1>4, InvalidateKeepsSlots DEF HookInv
    <2>2. CASE ~ invalidates
      BY <2>2, <1>3, <1>4 DEF HookInv, InstSlotsOK, InstSlotOK
    <2> QED BY <2>1, <2>2
  <1>6. HookSlotsOK'
    <2>1. CASE HasAttr(b, a) /\ rewrites
      <3>1. PICK o : o = GetOffset(hcls[b], a)
        OBVIOUS
      <3>2. PICK code : code = [op |-> "replace", hcls |-> hcls[b], offset |-> o]
        OBVIOUS
      <3>3. o \in Nat /\ hcls[b] \in Seq(AllNames)
        BY <3>1, <2>1, <1>0, OffsetInList, PartsOfInv DEF HasAttr, BoxPart
      <3>4. code \in SetCodes /\ code.hcls = hcls[b]
        BY <3>2, <3>3 DEF SetCodes
      <3>5. CommitSet(a, code) /\ a \in SetSites
        BY <2>1, <3>1, <3>2, <1>2, <1>3
      <3>6. a \in Hooks => ~ OfClass(code.hcls)
        BY <2>1, <3>4, <1>0, <1>1, <1>2, KindIs
      <3> QED BY <3>4, <3>5, <3>6, CommitKeepsHookSlots DEF HookInv
    <2>2. CASE ~ (HasAttr(b, a) /\ rewrites)
      <3>1. UNCHANGED setSlots
        BY <2>2, <1>3 DEF BeginAdd
      <3> QED BY <3>1, <1>4 DEF HookInv, HookSlotsOK
    <2> QED BY <2>1, <2>2
  <1>7. HookAddsOK'
    <2>1. CASE HasAttr(b, a)
      BY <2>1, <1>3 DEF HookAddsOK
    <2>2. CASE ~ HasAttr(b, a)
      <3>1. PICK add : add = [obj |-> b, attr |-> a, val |-> v,
                              newHcls |-> Append(hcls[b], a), patch |-> rewrites]
        OBVIOUS
      <3>2. add.obj = b /\ add.attr = a /\ add.patch = rewrites
        BY <3>1
      <3>3. adding' = {add}
        BY <2>2, <3>1, <1>3 DEF BeginAdd
      <3>4. a \in Hooks /\ b \in Classes => invalidates /\ ~ rewrites
        <4>1. b \in Classes => b \notin Objs
          BY ClsIs
        <4> QED BY <4>1, <1>1, <1>2
      <3> QED BY <3>2, <3>3, <3>4, <1>5 DEF HookAddsOK
    <2> QED BY <2>1, <2>2
  <1> QED BY <1>5, <1>6, <1>7 DEF HookInv

\* A slot of setattr: it never sets a hook on a class, so nothing need be invalidated.
LEMMA CachedSetKeepsHooks ==
  ASSUME ObjectModelAssumption, OneClass, AttrInv, HookInv, UNCHANGED program,
         NEW b \in Objs \cup Classes, NEW a \in SetSites, NEW v \in Values, CachedSet(b, a, v)
  PROVE  HookInv'
  <1>0. b \in HCBoxes
    BY DEF HCBoxes
  <1>1. PICK i \in 1..Len(setSlots[a]) :
          /\ SetHits(b, a, i)
          /\ \/ UNCHANGED <<hcls, adding, setSlots>>
             \/ BeginAdd(b, a, v, FALSE)
    BY DEF CachedSet
  <1>2. UNCHANGED <<hcls, setSlots, getSlot, dependents, GetSites, SetSites>> /\ adding = {}
    BY <1>1 DEF BeginAdd, CachedSet, GetSites, SetSites
  <1>3. InstSlotsOK'
    BY <1>2 DEF HookInv, InstSlotsOK, InstSlotOK
  <1>4. HookSlotsOK'
    BY <1>2 DEF HookInv, HookSlotsOK
  <1>5. HookAddsOK'
    <2>1. CASE UNCHANGED adding
      BY <2>1, <1>2 DEF HookAddsOK
    <2>2. CASE BeginAdd(b, a, v, FALSE)
      <3>1. PICK add : add = [obj |-> b, attr |-> a, val |-> v,
                              newHcls |-> Append(hcls[b], a), patch |-> FALSE]
        OBVIOUS
      <3>2. add.obj = b /\ add.attr = a
        BY <3>1
      <3>3. adding' = {add}
        BY <2>2, <3>1 DEF BeginAdd
      <3>4. a \in Hooks => ~ OfClass(hcls[b])
        BY <1>1 DEF HookInv, HookSlotsOK, SetHits
      <3>5. a \in Hooks => b \notin Classes
        BY <3>4, <1>0, KindIs, ClsIs
      <3> QED BY <3>2, <3>3, <3>5 DEF HookAddsOK
    <2> QED BY <1>1, <2>1, <2>2
  <1> QED BY <1>3, <1>4, <1>5 DEF HookInv

\* The addition ends: a class that gets a hook has no dependents.
LEMMA FinishAddKeepsHooks ==
  ASSUME ObjectModelAssumption, OneClass, AttrInv, HookInv, UNCHANGED program, FinishAdd
  PROVE  HookInv'
  <1>1. PICK add \in adding :
          /\ hcls' = [hcls EXCEPT ![add.obj] = add.newHcls]
          /\ IF add.patch THEN CommitSet(add.attr, [op |-> "add", hcls |-> hcls[add.obj]])
                          ELSE UNCHANGED setSlots
          /\ adding' = {} /\ UNCHANGED <<getSlot, dependents>>
    BY DEF FinishAdd
  <1>2. PICK b, a : b = add.obj /\ a = add.attr
    OBVIOUS
  <1>3. /\ b \in Objs \cup Classes /\ b \in HCBoxes /\ a \in AllNames /\ AddOK(add)
        /\ add.patch \in BOOLEAN
    BY <1>2 DEF AttrInv, TypeOK, AddingOK, Adds, HCBoxes, AllNames
  <1>4. /\ hcls[b] \in Seq(AllNames) /\ IsInjective(hcls[b]) /\ a \notin Range(hcls[b])
        /\ add.newHcls = Append(hcls[b], a)
    BY <1>2, <1>3 DEF AttrInv, TypeOK, BoxesOK, BoxOK, AddOK
  <1>5. Range(add.newHcls) = Range(hcls[b]) \cup {a}
    BY <1>3, <1>4, AddedName
  <1>6. \A c \in HCBoxes : hcls'[c] = IF c = b THEN add.newHcls ELSE hcls[c]
    BY <1>1, <1>2 DEF AttrInv, TypeOK
  <1>7. \A c \in HCBoxes : Range(hcls'[c]) \subseteq Range(hcls[c]) \cup (IF c = b THEN {a} ELSE {})
    BY <1>5, <1>6
  <1>8. UNCHANGED <<GetSites, SetSites>>
    BY DEF GetSites, SetSites
  <1>9. a \in Hooks /\ b \in Classes => dependents[b] = {}
    BY <1>1, <1>2 DEF HookInv, HookAddsOK
  <1>10. InstSlotsOK'
    <2> SUFFICES ASSUME NEW c \in GetSites, NEW d \in HCBoxes
                 PROVE  InstSlotOK(c, getSlot[c], d)'
      BY <1>8 DEF InstSlotsOK
    <2>1. InstSlotOK(c, getSlot[c], d) /\ Cls[d] \in HCBoxes
      BY ClsIs DEF HookInv, InstSlotsOK
    <2> SUFFICES ASSUME getSlot[c].op = "inst", d \in Objs <=> ~ OfClass(getSlot[c].hcls)
                 PROVE  /\ "__getattribute__" \notin Range(hcls'[Cls[d]])
                        /\ c \in dependents[Cls[d]]
      BY <1>1 DEF InstSlotOK
    <2>2. "__getattribute__" \notin Range(hcls[Cls[d]]) /\ c \in dependents[Cls[d]]
      BY <2>1 DEF InstSlotOK
    <2>3. ~ (Cls[d] = b /\ a = "__getattribute__")
      <3> SUFFICES ASSUME Cls[d] = b, a = "__getattribute__" PROVE FALSE
        OBVIOUS
      <3>1. b \in Classes
        BY <1>3, ClsIs
      <3> QED BY <3>1, <2>2, <1>9 DEF Hooks
    <2> QED BY <2>1, <2>2, <2>3, <1>7
  <1>11. HookSlotsOK'
    <2>1. CASE ~ add.patch
      BY <2>1, <1>1, <1>8 DEF HookInv, HookSlotsOK
    <2>2. CASE add.patch
      <3>1. PICK code : code = [op |-> "add", hcls |-> hcls[b]]
        OBVIOUS
      <3>2. code \in SetCodes /\ code.hcls = hcls[b]
        BY <3>1, <1>4 DEF SetCodes
      <3>3. a \in SetSites /\ CommitSet(a, code)
        BY <2>2, <3>1, <1>1, <1>2, <1>3 DEF AddOK
      <3>4. a \in Hooks => b \in Objs
        BY <2>2, <1>1, <1>2, <1>3 DEF HookInv, HookAddsOK
      <3>5. a \in Hooks => ~ OfClass(code.hcls)
        BY <3>2, <3>4, <1>3, KindIs
      <3> QED BY <3>2, <3>3, <3>5, CommitKeepsHookSlots DEF HookInv
    <2> QED BY <2>1, <2>2
  <1>12. HookAddsOK'
    BY <1>1 DEF HookAddsOK
  <1> QED BY <1>10, <1>11, <1>12 DEF HookInv

\* Every step keeps what the slots assume of hooks.
LEMMA NextKeepsHooks ==
  ASSUME ObjectModelAssumption, OneClass, AttrInv, HookInv, [Next]_vars
  PROVE  HookInv'
  <1>1. program \in Programs
    BY DEF AttrInv, TypeOK
  <1>2. CASE UNCHANGED vars
    BY <1>2, SameHooks DEF vars
  <1>3. CASE Next
    <2>1. UNCHANGED program
      BY <1>1, <1>3, StepIs
    <2>2. ASSUME NEW b, NEW a, NEW ic, GetStep(b, a, ic) PROVE HookInv'
      <3>1. b \in HCBoxes /\ ic \in BOOLEAN
        BY <2>2 DEF GetStep
      <3>2. CASE SlowGet(b, a, ic) /\ ic /\ Source(b, a) \in {"inst", "cls"}
        <4>1. a \in GetSites /\ SlowGet(b, a, TRUE)
          BY <2>2, <3>1, <3>2 DEF GetStep
        <4> QED BY <2>1, <3>1, <3>2, <4>1, GetKeepsHooks
      <3>3. CASE ~ (SlowGet(b, a, ic) /\ ic /\ Source(b, a) \in {"inst", "cls"})
        <4>1. UNCHANGED <<hcls, getSlot, dependents, setSlots, adding>>
          BY <2>2, <3>3 DEF GetStep, CachedGet, SlowGet, caches
        <4> QED BY <2>1, <4>1, SameHooks DEF caches
      <3> QED BY <3>2, <3>3
    <2>3. ASSUME NEW b, NEW a, NEW v, NEW ic, SlowSetStep(b, a, v, ic) PROVE HookInv'
      <3>1. b \in Objs \cup Classes
        BY <2>3 DEF SlowSetStep
      <3>2. /\ a \in Names /\ v \in Values /\ ic \in BOOLEAN
            /\ ic => a \in SetSites
            /\ SlowSet(b, a, v, ic)
        BY <2>3 DEF SlowSetStep
      <3> QED BY <2>1, <3>1, <3>2, SlowSetKeepsHooks
    <2>4. ASSUME NEW b, NEW a, NEW v, CachedSetStep(b, a, v) PROVE HookInv'
      BY <2>1, <2>4, CachedSetKeepsHooks DEF CachedSetStep
    <2>5. CASE FinishAdd
      BY <2>1, <2>5, FinishAddKeepsHooks
    <2>6. CASE SetRefused
      BY <2>1, <2>6, SameHooks DEF SetRefused
    <2> QED BY <1>1, <1>3, <2>2, <2>3, <2>4, <2>5, <2>6, StepIs
  <1> QED BY <1>2, <1>3

\* A slot whose guards a box passes gives the answer of the slow path.
LEMMA SlotsAgree ==
  ASSUME ObjectModelAssumption, AttrInv, NoHooks \/ (OneClass /\ HookInv)
  PROVE  CachedGetAgrees
  <1> SUFFICES ASSUME NEW b \in HCBoxes, NEW a \in GetSites, GetHits(b, a)
               PROVE  SlotAnswer(b, a) = GetattrInternal(b, a)
    BY DEF CachedGetAgrees
  <1>1. PICK s : s = getSlot[a]
    OBVIOUS
  <1>2. s.op # "none" /\ hcls[b] = s.hcls /\ (s.op = "cls" => hcls[Cls[b]] = s.clsHcls)
    BY <1>1 DEF GetHits
  <1>3. GetCodeOK(a, s) /\ s # NoSlot
    BY <1>1, <1>2 DEF AttrInv, CodeOK, NoSlot
  <1>4. CASE s.op = "inst"
    <2>1. a \in Range(hcls[b]) /\ s.offset = GetOffset(hcls[b], a)
      BY <1>2, <1>3, <1>4 DEF GetCodeOK
    <2>2. "__getattribute__" \notin Range(hcls[Cls[b]])
      <3>1. CASE NoHooks
        <4>1. hcls[Cls[b]] \in Seq(AllNames)
          BY ClsIs DEF AttrInv, TypeOK
        <4>2. Range(hcls[Cls[b]]) \subseteq AllNames
          BY <4>1 DEF Range
        <4> QED BY <3>1, <4>2 DEF NoHooks, Hooks
      <3>2. CASE OneClass /\ HookInv
        <4>1. b \in Objs <=> ~ OfClass(s.hcls)
          BY <3>2, <1>2, KindIs
        <4>2. InstSlotOK(a, s, b)
          BY <3>2, <1>1 DEF HookInv, InstSlotsOK
        <4> QED BY <4>1, <4>2, <1>4 DEF InstSlotOK
      <3> QED BY <3>1, <3>2
    <2>3. Source(b, a) = "inst"
      BY <2>1, <2>2 DEF Source, HasAttr
    <2>4. GetattrInternal(b, a) = [kind |-> "value", of |-> attr_list[b][s.offset]]
      BY <2>1, <2>3 DEF GetattrInternal, HcboxGetattr, Hooks
    <2> QED BY <2>4, <1>1, <1>4 DEF SlotAnswer
  <1>5. CASE s.op = "cls"
    <2>1. /\ a \notin Range(hcls[b]) /\ a \in Range(hcls[Cls[b]])
          /\ s.offset = GetOffset(hcls[Cls[b]], a) /\ Hooks \cap Range(hcls[Cls[b]]) = {}
      BY <1>2, <1>3, <1>5 DEF GetCodeOK
    <2>2. Source(b, a) = "cls"
      BY <2>1 DEF Source, HasAttr, Hooks
    <2>3. GetattrInternal(b, a) = HandleClsAttr(b, attr_list[Cls[b]][s.offset])
      BY <2>1, <2>2 DEF GetattrInternal, HcboxGetattr, Hooks
    <2> QED BY <2>3, <1>1, <1>5 DEF SlotAnswer
  <1> QED BY <1>3, <1>4, <1>5 DEF GetCodeOK

\* Whatever object passes the guards of a getattr slot, the slot gives the answer of the
\* slow path, if the program sets no hooks, or if all instances are of one class and the
\* program does not set one of the names that createClass sets: hooks set on the class
\* later, through slow paths or slots, included.  (An instance of a second class can
\* take the slot past its own hooks, see InstSlotOK.)
THEOREM CachedGetsAgree ==
  ASSUME NoHooks \/ OneClass
  PROVE  Spec => []CachedGetAgrees
  <1>1. CASE NoHooks
    <2>1. AttrInv => CachedGetAgrees
      BY <1>1, ObjectModelAssumption, SlotsAgree
    <2> QED BY <2>1, AttrInvHolds, PTL
  <1>2. CASE OneClass
    <2>1. Init => HookInv
      BY InitHooks
    <2>2. AttrInv /\ HookInv /\ [Next]_vars => HookInv'
      BY <1>2, ObjectModelAssumption, NextKeepsHooks
    <2>3. AttrInv /\ HookInv => CachedGetAgrees
      BY <1>2, ObjectModelAssumption, SlotsAgree
    <2> QED BY <2>1, <2>2, <2>3, AttrInvHolds, PTL DEF Spec
  <1> QED BY <1>1, <1>2

------------------------------------------------------------------------------
(***************************************************************************)
(* Refinement: hidden classes, attribute lists and caches implement plain  *)
(* dictionaries.  Beginning to add an attribute is a stuttering step; the  *)
(* attribute is set when the hidden class is.                              *)
(***************************************************************************)
LEMMA LookupIs ==
  ASSUME ObjectModelAssumption, NEW b \in HCBoxes, NEW a
  PROVE  Abs!Lookup(b, a) = GetattrInternal(b, a)
  <1>1. PICK c : c = Cls[b] /\ c \in HCBoxes
    BY ClsIs
  <1>2. ASSUME NEW d \in HCBoxes, NEW n
        PROVE  /\ Abs!Has(d, n) <=> HasAttr(d, n)
               /\ HasAttr(d, n) => [e \in HCBoxes |-> Dictionary(e)][d][n] = HcboxGetattr(d, n)
    BY DEF Abs!Has, HasAttr, Dictionary
  <1>3. \A hook : HasAttr(c, hook) => Abs!Hook(b, hook, a) = HookCall(b, hook, a)
    BY <1>1, <1>2 DEF Abs!Hook, HookCall
  <1>4. CASE Source(b, a) = "__getattribute__"
    <2>1. HasAttr(c, "__getattribute__")
      BY <1>1, <1>4 DEF Source
    <2>2. Abs!Lookup(b, a) = Abs!Hook(b, "__getattribute__", a)
      BY <1>1, <1>2, <2>1 DEF Abs!Lookup
    <2> QED BY <1>3, <1>4, <2>1, <2>2 DEF GetattrInternal, Hooks
  <1>5. CASE Source(b, a) = "inst"
    <2>1. ~ HasAttr(c, "__getattribute__") /\ HasAttr(b, a)
      BY <1>1, <1>5 DEF Source
    <2>2. Abs!Lookup(b, a) = [kind |-> "value", of |-> HcboxGetattr(b, a)]
      BY <1>1, <1>2, <2>1 DEF Abs!Lookup
    <2> QED BY <1>5, <2>2 DEF GetattrInternal, Hooks
  <1>6. CASE Source(b, a) = "__getattr__"
    <2>1. ~ HasAttr(c, "__getattribute__") /\ ~ HasAttr(b, a) /\ HasAttr(c, "__getattr__")
      BY <1>1, <1>6 DEF Source
    <2>2. Abs!Lookup(b, a) = Abs!Hook(b, "__getattr__", a)
      BY <1>1, <1>2, <2>1 DEF Abs!Lookup
    <2> QED BY <1>3, <1>6, <2>1, <2>2 DEF GetattrInternal, Hooks
  <1>7. CASE Source(b, a) = "cls"
    <2>1. /\ ~ HasAttr(c, "__getattribute__") /\ ~ HasAttr(b, a) /\ ~ HasAttr(c, "__getattr__")
          /\ HasAttr(c, a)
      BY <1>1, <1>7 DEF Source
    <2>2. Abs!Lookup(b, a) = HandleClsAttr(b, HcboxGetattr(c, a))
      BY <1>1, <1>2, <2>1 DEF Abs!Lookup, HandleClsAttr
    <2> QED BY <1>1, <1>7, <2>2 DEF GetattrInternal, Hooks
  <1>8. CASE Source(b, a) = "none"
    <2>1. /\ ~ HasAttr(c, "__getattribute__") /\ ~ HasAttr(b, a) /\ ~ HasAttr(c, "__getattr__")
          /\ ~ HasAttr(c, a)
      BY <1>1, <1>8 DEF Source
    <2>2. Abs!Lookup(b, a) = [kind |-> "AttributeError"]
      BY <1>1, <1>2, <2>1 DEF Abs!Lookup
    <2> QED BY <1>8, <2>2 DEF GetattrInternal, Hooks
  <1> QED BY <1>4, <1>5, <1>6, <1>7, <1>8 DEF Source

\* Reading, from a slot or not, is Get.
LEMMA GetRefines ==
  ASSUME ObjectModelAssumption, CachedGetAgrees, NEW b, NEW a, NEW ic, GetStep(b, a, ic)
  PROVE  Abs!Next
  <1>1. b \in HCBoxes /\ a \in Names /\ (ic => a \in GetSites)
    BY DEF GetStep
  <1>2. answer' = Asked(b, a, GetattrInternal(b, a)) /\ UNCHANGED <<hcls, attr_list>>
    <2>1. CASE ic /\ CachedGet(b, a)
      BY <1>1, <2>1 DEF CachedGet, CachedGetAgrees
    <2>2. CASE SlowGet(b, a, ic)
      BY <2>2 DEF SlowGet
    <2> QED BY <2>1, <2>2 DEF GetStep
  <1>3. [c \in HCBoxes |-> Dictionary(c)]' = [c \in HCBoxes |-> Dictionary(c)]
    BY <1>2 DEF Dictionary, HcboxGetattr
  <1>4. Abs!Get(b, a)
    BY <1>1, <1>2, <1>3, LookupIs DEF Abs!Get, Asked
  <1> QED BY <1>1, <1>4 DEF Abs!Next

\* What changes the dictionary of one box is Set.
LEMMA SetRefines ==
  ASSUME NEW b \in Objs \cup Classes, NEW a \in Names, NEW v \in Values,
         \A c \in HCBoxes : c # b => Dictionary(c)' = Dictionary(c),
         Dictionary(b)' = [n \in Range(hcls[b]) \cup {a} |->
                             IF n = a THEN v ELSE HcboxGetattr(b, n)],
         answer' = [kind |-> "done"]
  PROVE  Abs!Next
  <1>1. b \in HCBoxes
    BY DEF HCBoxes
  <1>2. PICK d : d = [c \in HCBoxes |-> Dictionary(c)]
    OBVIOUS
  <1>3. DOMAIN d[b] = Range(hcls[b]) /\ \A n \in Range(hcls[b]) : d[b][n] = HcboxGetattr(b, n)
    BY <1>1, <1>2 DEF Dictionary
  <1>4. PICK new : new = [n \in DOMAIN d[b] \cup {a} |-> IF n = a THEN v ELSE d[b][n]]
    OBVIOUS
  <1>5. Dictionary(b)' = new
    BY <1>3, <1>4
  <1>6. [c \in HCBoxes |-> Dictionary(c)]' = [d EXCEPT ![b] = new]
    BY <1>1, <1>2, <1>5
  <1>7. Abs!Set(b, a, v)
    BY <1>2, <1>4, <1>6 DEF Abs!Set
  <1> QED BY <1>7 DEF Abs!Next

\* A value is replaced at its offset.
LEMMA ReplaceRefines ==
  ASSUME AttrInv, NEW b \in Objs \cup Classes, NEW a \in Names, NEW v \in Values,
         a \in Range(hcls[b]), UNCHANGED hcls, answer' = [kind |-> "done"],
         NEW o, o = GetOffset(hcls[b], a), attr_list' = [attr_list EXCEPT ![b][o] = v]
  PROVE  Abs!Next
  <1>1. b \in HCBoxes /\ hcls[b] \in Seq(AllNames) /\ Len(attr_list[b]) = Len(hcls[b])
    BY DEF HCBoxes, AttrInv, TypeOK, BoxesOK, BoxOK
  <1>2. o \in 1..Len(attr_list[b]) /\ hcls[b][o] = a
    BY <1>1, OffsetIs
  <1>3. /\ \A c \in HCBoxes : c # b => attr_list'[c] = attr_list[c]
        /\ \A k \in 1..Len(attr_list[b]) : attr_list'[b][k] = IF k = o THEN v ELSE attr_list[b][k]
    BY <1>1, <1>2 DEF AttrInv, TypeOK
  <1>4. \A c \in HCBoxes : c # b => Dictionary(c)' = Dictionary(c)
    BY <1>3 DEF Dictionary, HcboxGetattr
  <1>5. \A n \in Range(hcls[b]) : HcboxGetattr(b, n)' = IF n = a THEN v ELSE HcboxGetattr(b, n)
    <2> SUFFICES ASSUME NEW n \in Range(hcls[b])
                 PROVE  attr_list'[b][GetOffset(hcls[b], n)]
                          = IF n = a THEN v ELSE attr_list[b][GetOffset(hcls[b], n)]
      BY DEF HcboxGetattr
    <2>1. PICK k : k = GetOffset(hcls[b], n)
      OBVIOUS
    <2>2. k \in 1..Len(attr_list[b]) /\ hcls[b][k] = n
      BY <1>1, <2>1, OffsetIs
    <2> QED BY <1>2, <1>3, <2>1, <2>2
  <1>6. Dictionary(b)' = [n \in Range(hcls[b]) \cup {a} |->
                            IF n = a THEN v ELSE HcboxGetattr(b, n)]
    BY <1>5 DEF Dictionary
  <1> QED BY <1>4, <1>6, SetRefines

\* The name and its value are there when the hidden class is set.
LEMMA FinishAddRefines ==
  ASSUME AttrInv, FinishAdd
  PROVE  Abs!Next
  <1>1. PICK add \in adding :
          /\ attr_list' = [attr_list EXCEPT ![add.obj] = Append(@, add.val)]
          /\ hcls' = [hcls EXCEPT ![add.obj] = add.newHcls]
          /\ answer' = [kind |-> "done"]
    BY DEF FinishAdd
  <1>2. PICK b, a, v : b = add.obj /\ a = add.attr /\ v = add.val
    OBVIOUS
  <1>3. /\ b \in Objs \cup Classes /\ b \in HCBoxes /\ a \in Names /\ a \in AllNames /\ v \in Values
        /\ AddOK(add)
    BY <1>2 DEF AttrInv, TypeOK, Adds, AddingOK, HCBoxes, AllNames
  <1>4. PICK h, l : h = hcls[b] /\ l = attr_list[b]
    OBVIOUS
  <1>5. /\ h \in Seq(AllNames) /\ l \in Seq(Values \cup {ClassValue}) /\ a \notin Range(h)
        /\ IsInjective(h) /\ Len(l) = Len(h) /\ add.newHcls = Append(h, a)
    BY <1>2, <1>3, <1>4 DEF AttrInv, TypeOK, AddOK, BoxesOK, BoxOK
  <1>6. PICK hh, ll : hh = Append(h, a) /\ ll = Append(l, v)
    OBVIOUS
  <1>7. /\ Range(hh) = Range(h) \cup {a} /\ GetOffset(hh, a) = Len(h) + 1
        /\ \A n \in Range(h) : GetOffset(hh, n) = GetOffset(h, n)
    BY <1>3, <1>5, <1>6, AddedName
  <1>8. ll[Len(l) + 1] = v /\ \A k \in 1..Len(l) : ll[k] = l[k]
    BY <1>3, <1>5, <1>6, AppendProperties
  <1>9. attr_list' = [attr_list EXCEPT ![b] = ll] /\ hcls' = [hcls EXCEPT ![b] = hh]
    BY <1>1, <1>2, <1>3, <1>4, <1>5, <1>6 DEF AttrInv, TypeOK
  <1>10. /\ hcls'[b] = hh /\ attr_list'[b] = ll
         /\ \A c \in HCBoxes : c # b => hcls'[c] = hcls[c] /\ attr_list'[c] = attr_list[c]
    BY <1>3, <1>9 DEF AttrInv, TypeOK
  <1>11. \A c \in HCBoxes : c # b => Dictionary(c)' = Dictionary(c)
    BY <1>10 DEF Dictionary, HcboxGetattr
  <1>12. ASSUME NEW n \in Range(hh)
         PROVE  ll[GetOffset(hh, n)] = IF n = a THEN v ELSE l[GetOffset(h, n)]
    <2>1. CASE n = a
      BY <2>1, <1>5, <1>7, <1>8
    <2>2. CASE n # a
      <3>1. n \in Range(h)
        BY <2>2, <1>7, <1>12
      <3>2. GetOffset(h, n) \in 1..Len(l)
        BY <3>1, <1>5, OffsetIs
      <3> QED BY <2>2, <3>1, <3>2, <1>7, <1>8
    <2> QED BY <2>1, <2>2
  <1>13. Dictionary(b)' = [n \in Range(hh) |-> ll[GetOffset(hh, n)]]
    BY <1>10 DEF Dictionary, HcboxGetattr
  <1>14. Dictionary(b)' = [n \in Range(hcls[b]) \cup {a} |->
                             IF n = a THEN v ELSE HcboxGetattr(b, n)]
    BY <1>4, <1>7, <1>12, <1>13 DEF HcboxGetattr
  <1> QED BY <1>1, <1>3, <1>11, <1>14, SetRefines

\* The dictionaries and the answer are as they were.
LEMMA Stutters ==
  ASSUME UNCHANGED <<hcls, attr_list, answer>>
  PROVE  UNCHANGED Abs!vars
  BY DEF Abs!vars, Dictionary, HcboxGetattr

\* Every step is a step on dictionaries, or none.
LEMMA NextRefines ==
  ASSUME ObjectModelAssumption, AttrInv, CachedGetAgrees, [Next]_vars
  PROVE  [Abs!Next]_(Abs!vars)
  <1>1. program \in Programs
    BY DEF AttrInv, TypeOK
  <1>2. CASE UNCHANGED vars
    BY <1>2, Stutters DEF vars
  <1>3. CASE Next
    <2>1. ASSUME NEW b, NEW a, NEW ic, GetStep(b, a, ic) PROVE Abs!Next
      BY <2>1, GetRefines
    <2>2. ASSUME NEW b, NEW a, NEW v, NEW ic, SlowSetStep(b, a, v, ic)
          PROVE  Abs!Next \/ UNCHANGED Abs!vars
      <3>1. b \in Objs \cup Classes /\ a \in Names /\ v \in Values
        BY <2>2 DEF SlowSetStep
      <3>2. PICK o : o = GetOffset(hcls[b], a)
        OBVIOUS
      <3>3. CASE a \in Range(hcls[b])
        <4>1. /\ attr_list' = [attr_list EXCEPT ![b][o] = v]
              /\ UNCHANGED hcls /\ answer' = [kind |-> "done"]
          BY <2>2, <3>2, <3>3 DEF SlowSetStep, SlowSet, HasAttr
        <4> QED BY <3>1, <3>2, <3>3, <4>1, ReplaceRefines
      <3>4. CASE a \notin Range(hcls[b])
        <4>1. UNCHANGED <<hcls, attr_list, answer>>
          BY <2>2, <3>4 DEF SlowSetStep, SlowSet, HasAttr, BeginAdd
        <4> QED BY <4>1, Stutters
      <3> QED BY <3>3, <3>4
    <2>3. ASSUME NEW b, NEW a, NEW v, CachedSetStep(b, a, v)
          PROVE  Abs!Next \/ UNCHANGED Abs!vars
      <3>1. b \in Objs \cup Classes /\ a \in SetSites /\ a \in Names /\ v \in Values
        BY <2>3, <1>1, ProgramNames DEF CachedSetStep
      <3>2. PICK i \in 1..Len(setSlots[a]) :
              /\ setSlots[a][i].hcls = hcls[b]
              /\ IF setSlots[a][i].op = "replace"
                   THEN /\ attr_list' = [attr_list EXCEPT ![b][setSlots[a][i].offset] = v]
                        /\ UNCHANGED hcls /\ answer' = [kind |-> "done"]
                   ELSE UNCHANGED <<hcls, attr_list, answer>>
        BY <2>3 DEF CachedSetStep, CachedSet, SetHits, BeginAdd
      <3>3. SetCodeOK(a, setSlots[a][i])
        BY <3>1 DEF AttrInv, CodeOK
      <3>4. CASE setSlots[a][i].op = "replace"
        <4>1. PICK o : o = setSlots[a][i].offset
          OBVIOUS
        <4>2. a \in Range(hcls[b]) /\ o = GetOffset(hcls[b], a)
          BY <3>2, <3>3, <3>4, <4>1 DEF SetCodeOK
        <4>3. /\ attr_list' = [attr_list EXCEPT ![b][o] = v]
              /\ UNCHANGED hcls /\ answer' = [kind |-> "done"]
          BY <3>2, <3>4, <4>1
        <4> QED BY <3>1, <4>2, <4>3, ReplaceRefines
      <3>5. CASE setSlots[a][i].op # "replace"
        BY <3>2, <3>5, Stutters
      <3> QED BY <3>4, <3>5
    <2>4. CASE FinishAdd
      BY <2>4, FinishAddRefines
    <2>5. CASE SetRefused
      <3>1. [c \in HCBoxes |-> Dictionary(c)]' = [c \in HCBoxes |-> Dictionary(c)]
        BY <2>5 DEF SetRefused, Dictionary, HcboxGetattr
      <3>2. Abs!SetRefused
        BY <2>5, <3>1 DEF SetRefused, Abs!SetRefused
      <3> QED BY <3>2 DEF Abs!Next
    <2> QED BY <1>1, <1>3, <2>1, <2>2, <2>3, <2>4, <2>5, StepIs
  <1> QED BY <1>2, <1>3

\* Under the same conditions hidden classes, attribute lists and slots implement plain
\* dictionaries: every access, cached or not, is an access of PyAttributes with the
\* same answer, and nothing else ever changes a dictionary.
THEOREM ImplementsDictionaries ==
  ASSUME NoHooks \/ OneClass
  PROVE  Spec => RefinesPyAttributes
  <1>1. AttrInv /\ CachedGetAgrees /\ [Next]_vars => [Abs!Next]_(Abs!vars)
    BY ObjectModelAssumption, NextRefines
  <1>2. Spec => []CachedGetAgrees
    BY CachedGetsAgree
  <1>3. Spec => [][Abs!Next]_(Abs!vars)
    BY <1>1, <1>2, AttrInvHolds, PTL DEF Spec
  <1> QED BY <1>3 DEF RefinesPyAttributes, Abs!Spec

=============================================================================
