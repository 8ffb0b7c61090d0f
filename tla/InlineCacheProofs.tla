-------------------------- MODULE InlineCacheProofs --------------------------
(***************************************************************************)
(* Proofs about InlineCache for any number of patchpoints, slots and       *)
(* invalidators, any nesting depth and any width of int.                   *)
(***************************************************************************)
EXTENDS InlineCache, SequenceTheorems, TLAPS

(***************************************************************************)
(* The inductive invariant.                                                *)
(***************************************************************************)

\* A rewrite never holds a version from the future.
RecordedVersions ==
  \A k \in 1..Len(stack) : \A d \in stack[k].deps : d[2] <= version[d[1]]

\* Code that can be entered is up to date and known to what it relies on.
CodeRegistered ==
  \A s \in SlotIds : Live(s) =>
    \A d \in slots[s].relies : /\ version[d[1]] = d[2]
                               /\ s \in dependents[d[1]]

\* ICInfo's records about a slot agree with the bytes in it.
RecordsMatch ==
  \A s \in SlotIds :
    /\ slots[s].is_patched <=> slots[s].entry # "init"
    /\ slots[s].is_patched => slots[s].path = slots[s].decision_path

\* A call made from a slot left code of its own decision path there.
CallsMatch ==
  \A k \in 1..Len(stack) : stack[k].kind = "call" =>
    /\ <<stack[k].ic, stack[k].idx>> \in SlotIds
    /\ slots[<<stack[k].ic, stack[k].idx>>].is_patched
    /\ slots[<<stack[k].ic, stack[k].idx>>].decision_path = stack[k].path

\* Slots are filled from the left.
FilledInOrder ==
  \A ic \in ICs : \A i, j \in 1..NumSlots[ic] :
    (i < j /\ slots[<<ic, j>>].is_patched) => slots[<<ic, i>>].is_patched

\* Only slots that were once filled are known to an invalidator.
DependentsPatched ==
  \A inv \in Invalidators : \A s \in dependents[inv] : slots[s].is_patched

\* A patchpoint is untouched, and nothing runs in it, until it is registered.
Untouched ==
  \A s \in SlotIds : s[1] \notin registered => slots[s] = EmptySlot

FramesRegistered ==
  \A k \in 1..Len(stack) : stack[k].ic \in registered

IInv == /\ TypeOK
        /\ RecordedVersions
        /\ CodeRegistered
        /\ RecordsMatch
        /\ DependentsPatched
        /\ CallsMatch
        /\ FilledInOrder
        /\ Untouched
        /\ FramesRegistered

------------------------------------------------------------------------------
(***************************************************************************)
(* Facts about the operators.                                              *)
(***************************************************************************)

\* Reading a version into an int can only make it smaller: an old version never
\* turns into a newer one.
LEMMA ToIntBelow ==
  ASSUME NEW v \in Nat
  PROVE  ToInt(v) <= v
<1>1. \A a, b \in Nat : b > 0 => a % b <= a
  BY Z3
<1>2. v + INT_MAX + 1 \in Nat /\ 2 * (INT_MAX + 1) \in Nat /\ 2 * (INT_MAX + 1) > 0
  BY ICAssumption
<1>3. (v + INT_MAX + 1) % (2 * (INT_MAX + 1)) <= v + INT_MAX + 1
  BY <1>1, <1>2
<1>4. (v + INT_MAX + 1) % (2 * (INT_MAX + 1)) \in Int
  BY <1>2
<1> QED
  BY <1>3, <1>4, ICAssumption DEF ToInt

\* Popping keeps everything below the top.
LEMMA PopFacts ==
  ASSUME stack \in Seq(Frame), stack # <<>>
  PROVE  /\ Pop \in Seq(Frame)
         /\ Len(stack) \in Nat /\ Len(stack) > 0
         /\ Len(Pop) = Len(stack) - 1
         /\ \A k \in 1..Len(Pop) : k \in 1..Len(stack) /\ Pop[k] = stack[k]
         /\ Len(stack) \in 1..Len(stack)
         /\ Top \in Frame
<1>1. Len(stack) \in Nat /\ Len(stack) > 0
  BY EmptySeq
<1>2. PICK n \in Nat : n = Len(stack) - 1
  BY <1>1
<1>3. n \in 0..Len(stack) /\ Len(stack) = n + 1
  BY <1>1, <1>2
<1>4. /\ SubSeq(stack, 1, n) \in Seq(Frame)
      /\ Len(SubSeq(stack, 1, n)) = n
      /\ \A k \in 1..n : SubSeq(stack, 1, n)[k] = stack[k]
  BY <1>3
<1>5. Pop = SubSeq(stack, 1, n)
  BY <1>2 DEF Pop
<1>6. \A k \in 1..Len(stack) : stack[k] \in Frame
  BY ElementOfSeq
<1> QED
  BY <1>1, <1>3, <1>4, <1>5, <1>6 DEF Top

\* Pushing keeps everything and adds a top.
LEMMA PushFacts ==
  ASSUME stack \in Seq(Frame), NEW f \in Frame
  PROVE  /\ Append(stack, f) \in Seq(Frame)
         /\ Len(stack) \in Nat
         /\ Len(Append(stack, f)) = Len(stack) + 1
         /\ \A k \in 1..(Len(stack) + 1) :
              Append(stack, f)[k] = IF k = Len(stack) + 1 THEN f ELSE stack[k]
  BY AppendProperties

\* Replacing the top leaves the rest.
LEMMA ReplaceTopFacts ==
  ASSUME stack \in Seq(Frame), stack # <<>>, NEW f \in Frame
  PROVE  /\ [stack EXCEPT ![Len(stack)] = f] \in Seq(Frame)
         /\ Len([stack EXCEPT ![Len(stack)] = f]) = Len(stack)
         /\ \A k \in 1..Len(stack) :
              [stack EXCEPT ![Len(stack)] = f][k] =
                 IF k = Len(stack) THEN f ELSE stack[k]
<1>1. Len(stack) \in 1..Len(stack)
  BY PopFacts
<1> QED
  BY <1>1, ExceptSeq

\* Slot identifiers are pairs of a patchpoint and an index in range.
LEMMA SlotIdFacts ==
  ASSUME NEW ic \in ICs, NEW i
  PROVE  <<ic, i>> \in SlotIds <=> i \in 1..NumSlots[ic]
  BY ICAssumption DEF SlotIds

\* pickEntryForRewrite only returns slots of the patchpoint, and one that is in
\* use only if its code has the same decision path; if it returns an unused slot,
\* all slots before it are in use.
LEMMA PickFacts ==
  ASSUME TypeOK, NEW ic \in ICs, NEW path \in Nat,
         NEW i \in PickEntryForRewrite(ic, path)
  PROVE  /\ i \in 1..NumSlots[ic]
         /\ <<ic, i>> \in SlotIds
         /\ slots[<<ic, i>>].is_patched => slots[<<ic, i>>].decision_path = path
         /\ \A j \in 1..NumSlots[ic] :
              j < i /\ ~ slots[<<ic, i>>].is_patched => slots[<<ic, j>>].is_patched
<1> DEFINE U == {j \in 1..NumSlots[ic] : ~ slots[<<ic, j>>].is_patched}
           C == {j \in 1..NumSlots[ic] : slots[<<ic, j>>].decision_path = path}
<1>0. NumSlots[ic] \in Nat
  BY ICAssumption
<1>1. CASE U # {}
  <2>1. i \in First(U)
    BY <1>1 DEF PickEntryForRewrite
  <2>2. i \in U /\ \A j \in U : i <= j
    BY <2>1 DEF First
  <2> QED
    BY <2>2, <1>0, SlotIdFacts
<1>2. CASE U = {}
  <2>1. i \in First(C)
    BY <1>2 DEF PickEntryForRewrite
  <2>2. i \in C
    BY <2>1 DEF First
  <2> QED
    BY <2>2, <1>2, <1>0, SlotIdFacts
<1> QED
  BY <1>1, <1>2

------------------------------------------------------------------------------
(***************************************************************************)
(* The four ways the stack changes, one lemma each: what the invariant     *)
(* says about frames survives when nothing else changes.                   *)
(***************************************************************************)
FramesOK == /\ stack \in Seq(Frame)
            /\ RecordedVersions
            /\ CallsMatch
            /\ FramesRegistered

\* The end of a slow path or of a slot's call leaves the frames below it as they were.
LEMMA PopKeepsFrames ==
  ASSUME IInv, stack # <<>>, stack' = Pop, UNCHANGED <<slots, version, registered>>
  PROVE  FramesOK'
<1>1. stack \in Seq(Frame)
  BY DEF IInv, TypeOK
<1>2. /\ stack' \in Seq(Frame)
      /\ \A k \in 1..Len(stack') : k \in 1..Len(stack) /\ stack'[k] = stack[k]
  BY <1>1, PopFacts
<1> QED
  BY <1>2 DEF FramesOK, IInv, RecordedVersions, CallsMatch, FramesRegistered

\* A new slow path or a new call out of a slot only has to be right itself.
LEMMA PushKeepsFrames ==
  ASSUME IInv, NEW f \in Frame, stack' = Append(stack, f),
         UNCHANGED <<slots, version, registered>>,
         \A d \in f.deps : d[2] <= version[d[1]],
         f.ic \in registered,
         f.kind = "call" => /\ <<f.ic, f.idx>> \in SlotIds
                            /\ slots[<<f.ic, f.idx>>].is_patched
                            /\ slots[<<f.ic, f.idx>>].decision_path = f.path
  PROVE  FramesOK'
<1>1. stack \in Seq(Frame)
  BY DEF IInv, TypeOK
<1>2. /\ stack' \in Seq(Frame)
      /\ Len(stack) \in Nat
      /\ Len(stack') = Len(stack) + 1
      /\ \A k \in 1..Len(stack') :
            stack'[k] = IF k = Len(stack) + 1 THEN f ELSE stack[k]
  BY <1>1, PushFacts
<1>3. \A k \in 1..Len(stack') : stack'[k] = f \/ (k \in 1..Len(stack) /\ stack'[k] = stack[k])
  BY <1>2
<1>4. RecordedVersions' /\ FramesRegistered'
  BY <1>3 DEF IInv, RecordedVersions, FramesRegistered
<1>5. CallsMatch'
  BY <1>3 DEF IInv, CallsMatch
<1> QED
  BY <1>2, <1>4, <1>5 DEF FramesOK

\* A rewrite collects another decision or dependency.
LEMMA ReplaceKeepsFrames ==
  ASSUME IInv, Rewriting, NEW f \in Frame,
         stack' = [stack EXCEPT ![Len(stack)] = f],
         UNCHANGED <<slots, version, registered>>,
         \A d \in f.deps : d[2] <= version[d[1]],
         f.kind = "rewrite",
         f.ic \in registered
  PROVE  FramesOK'
<1>1. stack \in Seq(Frame) /\ stack # <<>>
  BY DEF IInv, TypeOK, Rewriting
<1>2. /\ stack' \in Seq(Frame)
      /\ Len(stack') = Len(stack)
      /\ \A k \in 1..Len(stack) :
            stack'[k] = IF k = Len(stack) THEN f ELSE stack[k]
  BY <1>1, ReplaceTopFacts
<1>3. \A k \in 1..Len(stack') : stack'[k] = f \/ (k \in 1..Len(stack) /\ stack'[k] = stack[k])
  BY <1>2
<1>4. RecordedVersions' /\ FramesRegistered'
  BY <1>3 DEF IInv, RecordedVersions, FramesRegistered
<1>5. CallsMatch'
  BY <1>3 DEF IInv, CallsMatch
<1> QED
  BY <1>2, <1>4, <1>5 DEF FramesOK

------------------------------------------------------------------------------
\* An empty table of patchpoints satisfies the invariant.
LEMMA InitIInv == Init => IInv
<1> SUFFICES ASSUME Init PROVE IInv
  OBVIOUS
<1> USE DEF Init, EmptySlot, Slot
<1>1. \A s \in SlotIds : slots[s] = EmptySlot
  OBVIOUS
<1>2. TypeOK
  BY DEF TypeOK
<1>3. RecordedVersions /\ CallsMatch /\ FramesRegistered
  BY DEF RecordedVersions, CallsMatch, FramesRegistered
<1>4. CodeRegistered /\ RecordsMatch /\ Untouched /\ DependentsPatched
  BY <1>1 DEF CodeRegistered, RecordsMatch, Untouched, Live, DependentsPatched
<1>5. FilledInOrder
  BY <1>1, SlotIdFacts DEF FilledInOrder
<1> QED
  BY <1>2, <1>3, <1>4, <1>5 DEF IInv

\* Registering a patchpoint does not change any slot: its slots are still empty.
LEMMA RegisterKeepsSlots ==
  ASSUME IInv, NEW ic \in ICs, RegisterCompiledPatchpoint(ic)
  PROVE  slots' = slots
<1>1. slots \in [SlotIds -> Slot]
  BY DEF IInv, TypeOK
<1>2. \A s \in SlotIds : s[1] = ic => slots[s] = EmptySlot
  BY DEF IInv, Untouched, RegisterCompiledPatchpoint
<1> QED
  BY <1>1, <1>2 DEF RegisterCompiledPatchpoint

\* The parts of the invariant that only mention slots, versions and dependents.
SlotsOK == /\ CodeRegistered
           /\ DependentsPatched
           /\ RecordsMatch
           /\ FilledInOrder
           /\ Untouched

\* Steps that leave slots, registrations and invalidators alone keep what is said of
\* slots.
LEMMA SameSlots ==
  ASSUME IInv, UNCHANGED <<slots, version, dependents>>, registered \subseteq registered'
  PROVE  SlotsOK'
<1>1. slots' = slots /\ version' = version /\ dependents' = dependents
  OBVIOUS
<1>2. CodeRegistered'
  BY <1>1 DEF IInv, CodeRegistered, Live
<1>3. RecordsMatch' /\ FilledInOrder' /\ DependentsPatched'
  BY <1>1 DEF IInv, RecordsMatch, FilledInOrder, DependentsPatched
<1>4. Untouched'
  BY <1>1 DEF IInv, Untouched
<1> QED
  BY <1>2, <1>3, <1>4 DEF SlotsOK

\* What passes the comparison of ICSlotRewrite::commit is up to date, although the
\* version was read into an int: recorded versions are not from the future.
LEMMA CommittedCurrent ==
  ASSUME IInv, Rewriting, StillValid(Top.deps)
  PROVE  \A d \in Top.deps : version[d[1]] = d[2]
<1> SUFFICES ASSUME NEW d \in Top.deps PROVE version[d[1]] = d[2]
  OBVIOUS
<1>1. stack \in Seq(Frame) /\ stack # <<>> /\ Top \in Frame
  BY PopFacts DEF IInv, TypeOK, Rewriting
<1>2. d[1] \in Invalidators /\ d[2] \in Nat /\ version[d[1]] \in Nat
  BY <1>1 DEF IInv, TypeOK, Frame
<1>3. d[2] <= version[d[1]]
  BY <1>1, PopFacts DEF IInv, RecordedVersions, Top
<1>4. ToInt(d[2]) = version[d[1]]
  BY DEF StillValid
<1>5. version[d[1]] <= d[2]
  BY <1>2, <1>4, ToIntBelow
<1> QED BY <1>2, <1>3, <1>5

\* ICSlotRewrite::commit preserves the invariant: the versions it compared are the
\* present ones, and the slot it overwrites had no code or code of the same path.
LEMMA CommitIInv ==
  ASSUME IInv, Commit
  PROVE  IInv'
<1> DEFINE f == Top
<1>1. /\ stack \in Seq(Frame) /\ stack # <<>>
      /\ f \in Frame /\ f.kind = "rewrite"
      /\ f.ic \in ICs /\ f.path \in Nat
      /\ f.deps \in SUBSET (Invalidators \X Nat)
  BY PopFacts DEF IInv, TypeOK, Commit, Rewriting, Frame
<1>2. PICK i \in PickEntryForRewrite(f.ic, f.path), lay \in LayoutsOf(f.ic) :
       /\ slots' = [slots EXCEPT ![<<f.ic, i>>] =
                      [is_patched |-> TRUE, decision_path |-> f.path,
                       entry |-> "code", path |-> f.path, layout |-> lay, relies |-> f.deps]]
       /\ dependents' = [inv \in Invalidators |->
                           IF \E d \in f.deps : d[1] = inv
                           THEN dependents[inv] \cup {<<f.ic, i>>}
                           ELSE dependents[inv]]
  BY DEF Commit
<1> DEFINE t == <<f.ic, i>>
           new == [is_patched |-> TRUE, decision_path |-> f.path,
                   entry |-> "code", path |-> f.path, layout |-> lay, relies |-> f.deps]
<1>3. /\ i \in 1..NumSlots[f.ic]
      /\ t \in SlotIds
      /\ slots[t].is_patched => slots[t].decision_path = f.path
      /\ \A j \in 1..NumSlots[f.ic] :
           j < i /\ ~ slots[t].is_patched => slots[<<f.ic, j>>].is_patched
  BY <1>1, PickFacts DEF IInv
<1>4. new \in Slot
  <2>1. lay \in Layouts \cup {NoLayout}
    BY <1>2 DEF LayoutsOf
  <2> QED BY <2>1, <1>1 DEF Slot
<1>5. slots \in [SlotIds -> Slot] /\ slots' = [slots EXCEPT ![t] = new]
  BY <1>2 DEF IInv, TypeOK
<1>6. slots' \in [SlotIds -> Slot]
      /\ \A s \in SlotIds : slots'[s] = IF s = t THEN new ELSE slots[s]
  BY <1>3, <1>4, <1>5
<1>7. dependents' \in [Invalidators -> SUBSET SlotIds]
  BY <1>2, <1>3 DEF IInv, TypeOK
<1>8. /\ stack' = Pop /\ version' = version /\ registered' = registered
      /\ stack' \in Seq(Frame)
      /\ \A k \in 1..Len(stack') : k \in 1..Len(stack) /\ stack'[k] = stack[k]
  BY <1>1, PopFacts DEF Commit
<1>9. TypeOK'
  BY <1>6, <1>7, <1>8 DEF TypeOK, IInv
<1>10. RecordedVersions'
  BY <1>8 DEF IInv, RecordedVersions
<1>11. CodeRegistered'
  <2>1. \A d \in f.deps : version[d[1]] = d[2]
    BY CommittedCurrent DEF Commit
  <2>2. \A d \in f.deps : d[1] \in Invalidators /\ t \in dependents'[d[1]]
    BY <1>1, <1>2
  <2>3. \A inv \in Invalidators : dependents[inv] \subseteq dependents'[inv]
    BY <1>2
  <2>4. ASSUME NEW s \in SlotIds, slots'[s].entry = "code", NEW d \in slots'[s].relies
        PROVE  version'[d[1]] = d[2] /\ s \in dependents'[d[1]]
    <3>1. CASE s = t
      BY <3>1, <2>1, <2>2, <2>4, <1>6, <1>8
    <3>2. CASE s # t
      <4>1. slots'[s] = slots[s] /\ slots[s] \in Slot
        BY <3>2, <1>5, <1>6
      <4>2. d[1] \in Invalidators
        BY <4>1, <2>4 DEF Slot
      <4>3. version[d[1]] = d[2] /\ s \in dependents[d[1]]
        BY <4>1, <2>4 DEF IInv, CodeRegistered, Live
      <4> QED
        BY <4>2, <4>3, <2>3, <1>8
    <3> QED
      BY <3>1, <3>2
  <2> QED
    BY <2>4 DEF CodeRegistered, Live
<1>12. RecordsMatch'
  BY <1>6 DEF IInv, RecordsMatch
<1>13. CallsMatch'
  <2>1. new.is_patched /\ new.decision_path = f.path
    OBVIOUS
  <2>2. ASSUME NEW s \in SlotIds, slots[s].is_patched
        PROVE  slots'[s].is_patched /\ slots'[s].decision_path = slots[s].decision_path
    BY <2>1, <2>2, <1>3, <1>6
  <2> QED BY <2>2, <1>8 DEF IInv, CallsMatch
<1>14. FilledInOrder'
  <2> SUFFICES ASSUME NEW ic \in ICs, NEW j \in 1..NumSlots[ic], NEW k \in 1..NumSlots[ic],
                      j < k, slots'[<<ic, k>>].is_patched
               PROVE  slots'[<<ic, j>>].is_patched
    BY DEF FilledInOrder
  <2>1. <<ic, j>> \in SlotIds /\ <<ic, k>> \in SlotIds
    BY SlotIdFacts
  <2>2. slots[<<ic, k>>].is_patched => slots[<<ic, j>>].is_patched
    BY DEF IInv, FilledInOrder
  <2>3. CASE <<ic, k>> = t
    BY <2>1, <2>2, <2>3, <1>3, <1>6
  <2>4. CASE <<ic, k>> # t
    BY <2>1, <2>2, <2>4, <1>6
  <2> QED
    BY <2>3, <2>4
<1>15. FramesRegistered'
  BY <1>8 DEF IInv, FramesRegistered
<1>17. DependentsPatched'
  BY <1>2, <1>3, <1>6 DEF IInv, TypeOK, DependentsPatched
<1>16. Untouched'
  <2>1. f.ic \in registered
    BY <1>1, PopFacts DEF IInv, FramesRegistered, Top
  <2> QED
    BY <2>1, <1>6, <1>8 DEF IInv, Untouched
<1> QED
  BY <1>9, <1>10, <1>11, <1>12, <1>13, <1>14, <1>15, <1>16, <1>17 DEF IInv

\* ICInvalidator::invalidateAll preserves the invariant: every slot whose code relies
\* on the invalidator is among its dependents, so it is cleared.
LEMMA InvalidateAllIInv ==
  ASSUME IInv, NEW inv \in Invalidators, InvalidateAll(inv)
  PROVE  IInv'
<1>1. /\ slots \in [SlotIds -> Slot]
      /\ version \in [Invalidators -> Nat]
      /\ dependents \in [Invalidators -> SUBSET SlotIds]
  BY DEF IInv, TypeOK
<1>2. /\ version' = [version EXCEPT ![inv] = version[inv] + 1]
      /\ slots' = [s \in SlotIds |-> IF s \in dependents[inv] THEN Clear(s) ELSE slots[s]]
      /\ dependents' = [dependents EXCEPT ![inv] = {}]
      /\ registered' = registered /\ stack' = stack
  BY DEF InvalidateAll
<1>3. /\ version' \in [Invalidators -> Nat]
      /\ \A v \in Invalidators : version'[v] = IF v = inv THEN version[v] + 1 ELSE version[v]
      /\ dependents' \in [Invalidators -> SUBSET SlotIds]
      /\ \A v \in Invalidators : v # inv => dependents'[v] = dependents[v]
  BY <1>1, <1>2
<1>4. \A s \in SlotIds :
        /\ slots'[s] \in Slot
        /\ slots'[s].is_patched = slots[s].is_patched
        /\ slots'[s].decision_path = slots[s].decision_path
        /\ slots'[s].path = slots[s].path
        /\ slots'[s].relies = slots[s].relies
        /\ slots'[s].entry = IF s \in dependents[inv] THEN "cleared" ELSE slots[s].entry
  BY <1>1, <1>2 DEF Clear, Slot
<1>5. TypeOK'
  <2>1. slots' \in [SlotIds -> Slot]
    BY <1>2, <1>4
  <2> QED
    BY <2>1, <1>2, <1>3 DEF IInv, TypeOK
<1>6. RecordedVersions'
  <2> SUFFICES ASSUME NEW k \in 1..Len(stack), NEW d \in stack[k].deps
               PROVE  d[2] <= version'[d[1]]
    BY <1>2 DEF RecordedVersions
  <2>1. stack[k] \in Frame
    BY ElementOfSeq DEF IInv, TypeOK
  <2>2. d[1] \in Invalidators /\ d[2] \in Nat /\ version[d[1]] \in Nat
    BY <2>1, <1>1 DEF Frame
  <2>3. d[2] <= version[d[1]]
    BY DEF IInv, RecordedVersions
  <2> QED
    BY <2>2, <2>3, <1>3
<1>7. CodeRegistered'
  <2> SUFFICES ASSUME NEW s \in SlotIds, slots'[s].entry = "code", NEW d \in slots'[s].relies
               PROVE  version'[d[1]] = d[2] /\ s \in dependents'[d[1]]
    BY DEF CodeRegistered, Live
  <2>1. s \notin dependents[inv] /\ slots[s].entry = "code" /\ d \in slots[s].relies
    BY <1>4
  <2>2. d[1] \in Invalidators
    BY <1>1, <2>1 DEF Slot
  <2>3. version[d[1]] = d[2] /\ s \in dependents[d[1]]
    BY <2>1 DEF IInv, CodeRegistered, Live
  <2>4. d[1] # inv
    BY <2>1, <2>3
  <2> QED
    BY <2>2, <2>3, <2>4, <1>3
<1>8. RecordsMatch'
  <2> SUFFICES ASSUME NEW s \in SlotIds
               PROVE  /\ slots'[s].is_patched <=> slots'[s].entry # "init"
                      /\ slots'[s].is_patched => slots'[s].path = slots'[s].decision_path
    BY DEF RecordsMatch
  <2>1. /\ slots[s].is_patched <=> slots[s].entry # "init"
        /\ slots[s].is_patched => slots[s].path = slots[s].decision_path
    BY DEF IInv, RecordsMatch
  <2>2. s \in dependents[inv] => slots[s].is_patched
    BY DEF IInv, DependentsPatched
  <2> QED
    BY <2>1, <2>2, <1>4
<1>9. CallsMatch' /\ FramesRegistered'
  BY <1>2, <1>4 DEF IInv, CallsMatch, FramesRegistered
<1>10. FilledInOrder'
  <2> SUFFICES ASSUME NEW ic \in ICs, NEW j \in 1..NumSlots[ic], NEW k \in 1..NumSlots[ic],
                      j < k, slots'[<<ic, k>>].is_patched
               PROVE  slots'[<<ic, j>>].is_patched
    BY DEF FilledInOrder
  <2>1. <<ic, j>> \in SlotIds /\ <<ic, k>> \in SlotIds
    BY SlotIdFacts
  <2>2. slots[<<ic, k>>].is_patched => slots[<<ic, j>>].is_patched
    BY DEF IInv, FilledInOrder
  <2> QED
    BY <2>1, <2>2, <1>4
<1>11. Untouched'
  <2> SUFFICES ASSUME NEW s \in SlotIds, s[1] \notin registered
               PROVE  slots'[s] = EmptySlot
    BY <1>2 DEF Untouched
  <2>1. slots[s] = EmptySlot
    BY DEF IInv, Untouched
  <2>2. s \notin dependents[inv]
    BY <2>1 DEF IInv, DependentsPatched, EmptySlot
  <2> QED
    BY <2>1, <2>2, <1>2
<1>12. DependentsPatched'
  BY <1>1, <1>3, <1>4, <1>2 DEF IInv, DependentsPatched
<1> QED
  BY <1>5, <1>6, <1>7, <1>8, <1>9, <1>10, <1>11, <1>12 DEF IInv

\* Every step preserves the invariant; the steps other than Commit and
\* InvalidateAll only move frames, or register an untouched patchpoint.
LEMMA NextIInv == IInv /\ [Next]_vars => IInv'
<1> SUFFICES ASSUME IInv, [Next]_vars PROVE IInv'
  OBVIOUS
<1>0. TypeOK
  BY DEF IInv
<1>a. ASSUME FramesOK', UNCHANGED <<slots, version, dependents>>,
             registered \subseteq registered', registered' \subseteq ICs
      PROVE  IInv'
  <2>1. SlotsOK'
    BY <1>a, SameSlots
  <2>2. TypeOK'
    BY <1>a, <1>0 DEF TypeOK, FramesOK
  <2> QED
    BY <1>a, <2>1, <2>2 DEF IInv, SlotsOK, FramesOK
<1>1. ASSUME NEW ic \in ICs, RegisterCompiledPatchpoint(ic) PROVE IInv'
  <2>1. slots' = slots
    BY <1>1, RegisterKeepsSlots
  <2>2. /\ stack' = stack /\ version' = version /\ dependents' = dependents
        /\ registered' = registered \cup {ic}
    BY <1>1 DEF RegisterCompiledPatchpoint
  <2>3. RecordedVersions' /\ CallsMatch'
    BY <2>1, <2>2 DEF IInv, RecordedVersions, CallsMatch
  <2>4. FramesRegistered' /\ stack' \in Seq(Frame)
    BY <2>2, <1>0 DEF IInv, FramesRegistered, TypeOK
  <2> QED
    BY <1>a, <2>1, <2>2, <2>3, <2>4, <1>0 DEF FramesOK, TypeOK
<1>2. ASSUME NEW ic \in ICs, StartRewrite(ic) PROVE IInv'
  <2> DEFINE f == Rewrite(ic, IF ic \in Rewriter2ICs THEN 0 ELSE 1, {})
  <2>1. f \in Frame /\ f.deps = {} /\ f.kind = "rewrite" /\ f.ic = ic
    BY DEF Rewrite, Frame
  <2>2. /\ stack' = Append(stack, f) /\ ic \in registered
        /\ UNCHANGED <<registered, slots, version, dependents>>
    BY <1>2 DEF StartRewrite
  <2>3. FramesOK'
    BY <2>1, <2>2, PushKeepsFrames
  <2> QED
    BY <1>a, <2>2, <2>3, <1>0 DEF TypeOK
<1>3. ASSUME NEW ic \in ICs, NEW i \in 1..NumSlots[ic], EnterSlot(ic, i) PROVE IInv'
  <2> DEFINE s == <<ic, i>>
             f == SlotCall(ic, i, slots[s].path, slots[s].layout)
  <2>1. s \in SlotIds
    BY SlotIdFacts
  <2>2. slots[s] \in Slot /\ slots[s].entry = "code"
    BY <1>3, <1>0, <2>1 DEF EnterSlot, Live, TypeOK
  <2>3. slots[s].is_patched /\ slots[s].decision_path = slots[s].path
    BY <2>1, <2>2 DEF IInv, RecordsMatch
  <2>4. i \in Nat /\ slots[s].path \in Nat /\ slots[s].layout \in Layouts \cup {NoLayout}
    BY <2>2, ICAssumption DEF Slot
  <2>5. /\ f \in Frame /\ f.deps = {} /\ f.kind = "call"
        /\ f.ic = ic /\ f.idx = i /\ f.path = slots[s].path
    BY <2>4 DEF SlotCall, Frame
  <2>6. /\ stack' = Append(stack, f) /\ ic \in registered
        /\ UNCHANGED <<registered, slots, version, dependents>>
    BY <1>3 DEF EnterSlot
  <2>7. FramesOK'
    BY <2>1, <2>3, <2>5, <2>6, PushKeepsFrames
  <2> QED
    BY <1>a, <2>6, <2>7, <1>0 DEF TypeOK
<1>4. ASSUME NEW way \in {0, 1}, AddDecision(way) PROVE IInv'
  <2> DEFINE f == [Top EXCEPT !.path = 2 * @ + way]
  <2>1. /\ Rewriting /\ stack # <<>> /\ stack \in Seq(Frame)
        /\ stack' = [stack EXCEPT ![Len(stack)] = f]
        /\ UNCHANGED <<registered, slots, version, dependents>>
    BY <1>4, <1>0 DEF AddDecision, Rewriting, TypeOK, Top
  <2>2. Top \in Frame /\ Top.kind = "rewrite" /\ Len(stack) \in 1..Len(stack)
    BY <2>1, PopFacts DEF Rewriting
  <2>3. /\ f \in Frame /\ f.kind = "rewrite"
        /\ f.deps = Top.deps /\ f.ic = Top.ic
    BY <2>2 DEF Frame
  <2>4. \A d \in Top.deps : d[2] <= version[d[1]]
    BY <2>2 DEF IInv, RecordedVersions, Top
  <2>5. Top.ic \in registered
    BY <2>2 DEF IInv, FramesRegistered, Top
  <2>6. FramesOK'
    BY <2>1, <2>3, <2>4, <2>5, ReplaceKeepsFrames
  <2> QED
    BY <1>a, <2>1, <2>6, <1>0 DEF TypeOK
<1>5. ASSUME NEW inv \in Invalidators, AddDependenceOn(inv) PROVE IInv'
  <2> DEFINE f == [Top EXCEPT !.deps = @ \cup {<<inv, version[inv]>>}]
  <2>1. /\ Rewriting /\ stack # <<>> /\ stack \in Seq(Frame)
        /\ stack' = [stack EXCEPT ![Len(stack)] = f]
        /\ UNCHANGED <<registered, slots, version, dependents>>
    BY <1>5, <1>0 DEF AddDependenceOn, Rewriting, TypeOK, Top
  <2>2. Top \in Frame /\ Top.kind = "rewrite" /\ Len(stack) \in 1..Len(stack)
    BY <2>1, PopFacts DEF Rewriting
  <2>3. version[inv] \in Nat
    BY <1>0 DEF TypeOK
  <2>4. /\ f \in Frame /\ f.kind = "rewrite"
        /\ f.deps = Top.deps \cup {<<inv, version[inv]>>} /\ f.ic = Top.ic
    BY <2>2, <2>3 DEF Frame
  <2>5. \A d \in Top.deps : d[2] <= version[d[1]]
    BY <2>2 DEF IInv, RecordedVersions, Top
  <2>6. \A d \in f.deps : d[2] <= version[d[1]]
    BY <2>3, <2>4, <2>5
  <2>7. Top.ic \in registered
    BY <2>2 DEF IInv, FramesRegistered, Top
  <2>8. FramesOK'
    BY <2>1, <2>4, <2>6, <2>7, ReplaceKeepsFrames
  <2> QED
    BY <1>a, <2>1, <2>8, <1>0 DEF TypeOK
<1>6. CASE CommitRefused \/ DropRewrite \/ ReturnToSlot
  <2>1. /\ stack # <<>> /\ stack' = Pop
        /\ UNCHANGED <<registered, slots, version, dependents>>
    BY <1>6 DEF CommitRefused, DropRewrite, ReturnToSlot, Rewriting
  <2>2. FramesOK'
    BY <2>1, PopKeepsFrames
  <2> QED
    BY <1>a, <2>1, <2>2, <1>0 DEF TypeOK
<1>7. CASE UNCHANGED vars
  <2>1. /\ stack' = stack
        /\ UNCHANGED <<registered, slots, version, dependents>>
    BY <1>7 DEF vars
  <2>2. FramesOK'
    BY <2>1, <1>0 DEF FramesOK, IInv, TypeOK, RecordedVersions, CallsMatch, FramesRegistered
  <2> QED
    BY <1>a, <2>1, <2>2, <1>0 DEF TypeOK
<1> QED
  BY <1>1, <1>2, <1>3, <1>4, <1>5, <1>6, <1>7, CommitIInv, InvalidateAllIInv DEF Next

------------------------------------------------------------------------------
\* The inductive invariant holds in every reachable state.
THEOREM InductiveInvariant == Spec => []IInv
  BY InitIInv, NextIInv, PTL DEF Spec

\* Whatever slow paths, slots and invalidations do, ICInfo's slots, the invalidators
\* and the stack keep the shapes icinfo.h gives them.
THEOREM TypeCorrect == Spec => []TypeOK
<1>1. IInv => TypeOK
  BY DEF IInv
<1> QED
  BY <1>1, InductiveInvariant, PTL

\* No slot ever runs code built on an outdated version: ICSlotRewrite::commit's
\* comparison, made after everything that could run in between, and
\* ICInvalidator::invalidateAll's clearing of the dependents are enough together,
\* even though commit() reads the recorded version into an int.
THEOREM NeverStale == Spec => []NoStaleCode
<1>1. IInv => NoStaleCode
  BY DEF IInv, CodeRegistered, NoStaleCode
<1> QED
  BY <1>1, InductiveInvariant, PTL

\* A call that returns into a slot finds code of the decision path it left, because a
\* slot keeps its path for ever once it has been filled: however many layouts a path
\* has, pickEntryForRewrite never mixes two paths in one slot.
THEOREM SafeReturn == Spec => []ReturnsToSameDecisions
<1>1. IInv => ReturnsToSameDecisions
  BY DEF IInv, CallsMatch, RecordsMatch, ReturnsToSameDecisions
<1> QED
  BY <1>1, InductiveInvariant, PTL

\* Every slot with code can be reached from the start of its patchpoint.
THEOREM CodeReachable == Spec => []NoCodeSkipped
<1>1. IInv => NoCodeSkipped
  <2> SUFFICES ASSUME IInv, NEW ic \in ICs, NEW i \in 1..NumSlots[ic], Live(<<ic, i>>),
                      NEW j \in 1..(i - 1)
               PROVE  slots[<<ic, j>>].entry # "init"
    BY DEF NoCodeSkipped, Reaches
  <2>1. j \in 1..NumSlots[ic] /\ j < i
    BY ICAssumption
  <2>2. <<ic, i>> \in SlotIds /\ <<ic, j>> \in SlotIds
    BY <2>1, SlotIdFacts
  <2>3. slots[<<ic, i>>].is_patched
    BY <2>2 DEF IInv, RecordsMatch, Live
  <2>4. slots[<<ic, j>>].is_patched
    BY <2>1, <2>3 DEF IInv, FilledInOrder
  <2> QED
    BY <2>2, <2>4 DEF IInv, RecordsMatch
<1> QED
  BY <1>1, InductiveInvariant, PTL

------------------------------------------------------------------------------
(***************************************************************************)
(* The refinement of CodeCache.                                            *)
(***************************************************************************)
AbsCached == [s \in {t \in SlotIds : Live(t)} |-> On(slots[s].relies)]
AbsActivity == [k \in 1..Len(stack) |-> AbsFrame(stack[k])]

\* The frames of CodeCache, and the one that f stands for when the versions are ver.
AbsFrames == [kind : {"build", "use"}, on : SUBSET Invalidators, dead : BOOLEAN]
FrameAt(f, ver) ==
  IF f.kind = "rewrite"
    THEN [kind |-> "build", on |-> On(f.deps), dead |-> \E d \in f.deps : ver[d[1]] # d[2]]
    ELSE [kind |-> "use", on |-> {}, dead |-> FALSE]

\* Every frame stands for one of them.
LEMMA FrameAtIs ==
  ASSUME NEW f \in Frame, NEW ver
  PROVE  /\ FrameAt(f, ver) \in AbsFrames
         /\ f.kind = "rewrite" =>
              /\ FrameAt(f, ver).kind = "build" /\ FrameAt(f, ver).on = On(f.deps)
              /\ FrameAt(f, ver).dead <=> \E d \in f.deps : ver[d[1]] # d[2]
         /\ f.kind = "call" => FrameAt(f, ver) = Abs!User
<1>1. f.deps \in SUBSET (Invalidators \X Nat) /\ f.kind \in {"rewrite", "call"}
  BY DEF Frame
<1>2. On(f.deps) \in SUBSET Invalidators
  BY <1>1 DEF On
<1>3. CASE f.kind = "rewrite"
  BY <1>2, <1>3 DEF FrameAt, AbsFrames
<1>4. CASE f.kind = "call"
  BY <1>4 DEF FrameAt, AbsFrames, Abs!User
<1> QED BY <1>1, <1>3, <1>4

\* A stack as CodeCache sees it.
LEMMA FramesAt ==
  ASSUME NEW st \in Seq(Frame), NEW ver, NEW a, a = [k \in 1..Len(st) |-> FrameAt(st[k], ver)]
  PROVE  /\ a \in Seq(AbsFrames) /\ Len(a) = Len(st) /\ Len(st) \in Nat
         /\ \A k \in 1..Len(st) : a[k] = FrameAt(st[k], ver)
<1>1. \A k \in 1..Len(st) : FrameAt(st[k], ver) \in AbsFrames
  BY FrameAtIs, ElementOfSeq
<1>2. Len(st) \in Nat
  OBVIOUS
<1> QED BY <1>1, <1>2

\* The present stack.
LEMMA AbsActivityIs ==
  ASSUME stack \in Seq(Frame)
  PROVE  /\ AbsActivity \in Seq(AbsFrames)
         /\ Len(AbsActivity) = Len(stack) /\ Len(stack) \in Nat
         /\ \A k \in 1..Len(stack) : AbsActivity[k] = FrameAt(stack[k], version)
<1>1. AbsActivity = [k \in 1..Len(stack) |-> FrameAt(stack[k], version)]
  BY DEF AbsActivity, AbsFrame, FrameAt
<1> QED BY <1>1, FramesAt

\* The same after a step.
LEMMA AbsActivityNext ==
  ASSUME stack' \in Seq(Frame)
  PROVE  /\ AbsActivity' \in Seq(AbsFrames)
         /\ Len(AbsActivity') = Len(stack') /\ Len(stack') \in Nat
         /\ \A k \in 1..Len(stack') : AbsActivity'[k] = FrameAt(stack'[k], version')
<1>1. AbsActivity' = [k \in 1..Len(stack') |-> FrameAt(stack'[k], version')]
  BY DEF AbsActivity, AbsFrame, FrameAt
<1> QED BY <1>1, FramesAt

\* Slots stay, and so does what is cached.
LEMMA SameCode ==
  ASSUME UNCHANGED slots
  PROVE  AbsCached' = AbsCached
  BY DEF AbsCached, Live

\* A frame is pushed.
LEMMA PushRefines ==
  ASSUME stack \in Seq(Frame), NEW f \in Frame, stack' = Append(stack, f), UNCHANGED version
  PROVE  AbsActivity' = Append(AbsActivity, FrameAt(f, version))
<1>1. PICK a, b, g, n : a = AbsActivity /\ b = AbsActivity' /\ g = FrameAt(f, version) /\ n = Len(stack)
  OBVIOUS
<1>2. /\ stack' \in Seq(Frame) /\ n \in Nat /\ Len(stack') = n + 1
      /\ \A k \in 1..(n + 1) : stack'[k] = IF k = n + 1 THEN f ELSE stack[k]
  BY <1>1, PushFacts
<1>3. a \in Seq(AbsFrames) /\ Len(a) = n /\ g \in AbsFrames
      /\ \A k \in 1..n : a[k] = FrameAt(stack[k], version)
  BY <1>1, AbsActivityIs, FrameAtIs
<1>4. b \in Seq(AbsFrames) /\ Len(b) = n + 1
      /\ \A k \in 1..(n + 1) : b[k] = FrameAt(stack'[k], version)
  BY <1>1, <1>2, AbsActivityNext
<1>5. ASSUME NEW k \in 1..(n + 1) PROVE b[k] = IF k = n + 1 THEN g ELSE a[k]
  <2>1. CASE k = n + 1
    BY <2>1, <1>1, <1>2, <1>4
  <2>2. CASE k # n + 1
    <3>1. k \in 1..n /\ stack'[k] = stack[k]
      BY <2>2, <1>2
    <3> QED BY <3>1, <2>2, <1>3, <1>4
  <2> QED BY <2>1, <2>2
<1>6. /\ Append(a, g) \in Seq(AbsFrames) /\ Len(Append(a, g)) = n + 1
      /\ \A k \in 1..(n + 1) : Append(a, g)[k] = IF k = n + 1 THEN g ELSE a[k]
  BY <1>2, <1>3, AppendProperties
<1>7. b = Append(a, g)
  BY <1>2, <1>4, <1>5, <1>6, SeqEqual
<1> QED BY <1>1, <1>7

\* The topmost frame is popped.
LEMMA PopRefines ==
  ASSUME stack \in Seq(Frame), stack # <<>>, stack' = Pop, UNCHANGED version
  PROVE  AbsActivity' = SubSeq(AbsActivity, 1, Len(AbsActivity) - 1)
<1>1. PICK a, b, n : a = AbsActivity /\ b = AbsActivity' /\ n = Len(stack) - 1
  OBVIOUS
<1>2. /\ stack' \in Seq(Frame) /\ n \in Nat /\ Len(stack') = n /\ Len(stack) = n + 1
      /\ \A k \in 1..n : stack'[k] = stack[k]
  BY <1>1, PopFacts
<1>3. a \in Seq(AbsFrames) /\ Len(a) = n + 1
      /\ \A k \in 1..(n + 1) : a[k] = FrameAt(stack[k], version)
  BY <1>1, <1>2, AbsActivityIs
<1>4. b \in Seq(AbsFrames) /\ Len(b) = n
      /\ \A k \in 1..n : b[k] = FrameAt(stack'[k], version)
  BY <1>1, <1>2, AbsActivityNext
<1>5. \A k \in 1..n : k \in 1..(n + 1) /\ b[k] = a[k]
  BY <1>2, <1>3, <1>4
<1>6. PICK c : c = SubSeq(a, 1, n)
  OBVIOUS
<1>7. c \in Seq(AbsFrames) /\ Len(c) = n /\ \A k \in 1..n : c[k] = a[k]
  BY <1>2, <1>3, <1>6
<1>8. b = c
  BY <1>4, <1>5, <1>7, SeqEqual
<1>9. Len(a) - 1 = n
  BY <1>2, <1>3
<1> QED BY <1>1, <1>6, <1>8, <1>9

\* The topmost frame is replaced.
LEMMA ReplaceRefines ==
  ASSUME stack \in Seq(Frame), stack # <<>>, NEW f \in Frame,
         stack' = [stack EXCEPT ![Len(stack)] = f], UNCHANGED version
  PROVE  AbsActivity' = [AbsActivity EXCEPT ![Len(AbsActivity)] = FrameAt(f, version)]
<1>1. PICK a, b, g, n : a = AbsActivity /\ b = AbsActivity' /\ g = FrameAt(f, version) /\ n = Len(stack)
  OBVIOUS
<1>2. /\ stack' \in Seq(Frame) /\ Len(stack') = n /\ n \in Nat /\ n \in 1..n
      /\ \A k \in 1..n : stack'[k] = IF k = n THEN f ELSE stack[k]
  BY <1>1, ReplaceTopFacts, PopFacts
<1>3. a \in Seq(AbsFrames) /\ Len(a) = n /\ g \in AbsFrames
      /\ \A k \in 1..n : a[k] = FrameAt(stack[k], version)
  BY <1>1, AbsActivityIs, FrameAtIs
<1>4. b \in Seq(AbsFrames) /\ Len(b) = n
      /\ \A k \in 1..n : b[k] = FrameAt(stack'[k], version)
  BY <1>1, <1>2, AbsActivityNext
<1>5. \A k \in 1..n : b[k] = IF k = n THEN g ELSE a[k]
  BY <1>1, <1>2, <1>3, <1>4
<1>6. PICK c : c = [a EXCEPT ![n] = g]
  OBVIOUS
<1>7. /\ c \in Seq(AbsFrames) /\ Len(c) = n
      /\ \A k \in 1..n : c[k] = IF k = n THEN g ELSE a[k]
  BY <1>2, <1>3, <1>6, ExceptSeq
<1>8. b = c
  BY <1>4, <1>5, <1>7, SeqEqual
<1> QED BY <1>1, <1>3, <1>6, <1>8

\* The actions of CodeCache, with the names used here.
LEMMA AbsIs ==
  /\ AbsActivity' = Append(AbsActivity, Abs!Builder({}, FALSE)) /\ AbsCached' = AbsCached => Abs!Begin
  /\ AbsActivity' = Append(AbsActivity, Abs!User) /\ AbsCached' = AbsCached
       => \A s \in DOMAIN AbsCached : Abs!Use(s)
  /\ AbsActivity' = AbsActivity /\ AbsCached' = AbsCached => UNCHANGED Abs!vars
<1>1. AbsActivity' = Append(AbsActivity, Abs!Builder({}, FALSE)) /\ AbsCached' = AbsCached => Abs!Begin
  BY DEF Abs!Begin, AbsActivity, AbsCached
<1>2. ASSUME AbsActivity' = Append(AbsActivity, Abs!User) /\ AbsCached' = AbsCached,
             NEW s \in DOMAIN AbsCached
      PROVE  Abs!Use(s)
  BY <1>2 DEF Abs!Use, AbsActivity, AbsCached
<1>3. AbsActivity' = AbsActivity /\ AbsCached' = AbsCached => UNCHANGED Abs!vars
  BY DEF Abs!vars, AbsActivity, AbsCached
<1> QED BY <1>1, <1>2, <1>3

\* The topmost frame, as CodeCache sees it.
LEMMA AbsTopIs ==
  ASSUME stack \in Seq(Frame), stack # <<>>
  PROVE  /\ AbsActivity # <<>> /\ Abs!Top = FrameAt(Top, version)
         /\ Abs!Building <=> Rewriting
         /\ Abs!Pop = SubSeq(AbsActivity, 1, Len(AbsActivity) - 1)
<1>1. PICK a, n : a = AbsActivity /\ n = Len(stack)
  OBVIOUS
<1>2. n \in 1..n /\ Top = stack[n] /\ Top \in Frame /\ n \in Nat
  BY <1>1, PopFacts DEF Top
<1>3. Len(a) = n /\ a[n] = FrameAt(stack[n], version) /\ a \in Seq(AbsFrames)
  BY <1>1, <1>2, AbsActivityIs
<1>4. a # <<>>
  BY <1>2, <1>3
<1>5. Abs!Top = a[Len(a)]
  BY <1>1 DEF Abs!Top, AbsActivity
<1>6. Abs!Building <=> a # <<>> /\ Abs!Top.kind = "build"
  BY <1>1 DEF Abs!Building, AbsActivity
<1>7. Top.kind = "rewrite" <=> FrameAt(Top, version).kind = "build"
  BY DEF FrameAt
<1>8. Abs!Pop = SubSeq(a, 1, Len(a) - 1)
  BY <1>1 DEF Abs!Pop, AbsActivity
<1> QED BY <1>1, <1>2, <1>3, <1>4, <1>5, <1>6, <1>7, <1>8 DEF Rewriting

\* A slow path that ends without a slot, or the call of a slot that returns.
LEMMA EndRefines ==
  ASSUME IInv, CommitRefused \/ DropRewrite \/ ReturnToSlot
  PROVE  Abs!GiveUp \/ Abs!Finish
<1>1. /\ stack \in Seq(Frame) /\ stack # <<>> /\ stack' = Pop
      /\ UNCHANGED <<slots, version>>
      /\ Rewriting \/ Top.kind = "call"
  BY DEF IInv, TypeOK, CommitRefused, DropRewrite, ReturnToSlot, Rewriting
<1>2. AbsActivity' = Abs!Pop /\ AbsCached' = AbsCached
  BY <1>1, PopRefines, AbsTopIs, SameCode
<1>3. CASE Rewriting
  BY <1>1, <1>2, <1>3, AbsTopIs DEF Abs!GiveUp, AbsActivity, AbsCached
<1>4. CASE Top.kind = "call"
  <2>1. Top \in Frame
    BY <1>1, PopFacts
  <2>2. Abs!Top.kind = "use"
    BY <1>1, <1>4, <2>1, FrameAtIs, AbsTopIs DEF Abs!User
  <2> QED BY <1>1, <1>2, <2>2, AbsTopIs DEF Abs!Finish, AbsActivity, AbsCached
<1> QED BY <1>1, <1>3, <1>4

\* Another decision changes nothing for CodeCache.
LEMMA AddDecisionRefines ==
  ASSUME IInv, NEW way \in {0, 1}, AddDecision(way)
  PROVE  UNCHANGED Abs!vars
<1>1. stack \in Seq(Frame) /\ stack # <<>> /\ Top \in Frame /\ UNCHANGED <<slots, version>>
      /\ Len(stack) \in 1..Len(stack)
  BY PopFacts DEF IInv, TypeOK, AddDecision, Rewriting
<1>2. PICK f : f = [Top EXCEPT !.path = 2 * @ + way]
  OBVIOUS
<1>3. f \in Frame /\ f.kind = Top.kind /\ f.deps = Top.deps
  <2>1. PICK t : t = Top
    OBVIOUS
  <2>2. t \in Frame /\ 2 * t.path + way \in Nat /\ f = [t EXCEPT !.path = 2 * t.path + way]
    BY <1>1, <1>2, <2>1 DEF Frame
  <2>3. f \in Frame /\ f.kind = t.kind /\ f.deps = t.deps
    BY <2>2 DEF Frame
  <2> QED BY <2>1, <2>3
<1>4. stack' = [stack EXCEPT ![Len(stack)] = f]
  BY <1>2 DEF AddDecision, Top
<1>5. FrameAt(f, version) = FrameAt(Top, version)
  BY <1>3 DEF FrameAt
<1>6. PICK a, n : a = AbsActivity /\ n = Len(AbsActivity)
  OBVIOUS
<1>7. a \in Seq(AbsFrames) /\ n \in 1..Len(a) /\ a[n] = FrameAt(Top, version)
  BY <1>1, <1>6, AbsActivityIs DEF Top
<1>8. AbsActivity' = [a EXCEPT ![n] = a[n]]
  BY <1>1, <1>3, <1>4, <1>5, <1>6, <1>7, ReplaceRefines
<1>9. [a EXCEPT ![n] = a[n]] = a
  BY <1>7
<1> QED BY <1>1, <1>6, <1>8, <1>9, AbsIs, SameCode

\* A dependence on the present version of an invalidator.
LEMMA AddDependenceRefines ==
  ASSUME IInv, NEW inv \in Invalidators, AddDependenceOn(inv)
  PROVE  Abs!Rely(inv)
<1>1. /\ stack \in Seq(Frame) /\ stack # <<>> /\ Top \in Frame /\ UNCHANGED <<slots, version>>
      /\ Len(stack) \in 1..Len(stack) /\ Rewriting /\ Top.kind = "rewrite"
      /\ version[inv] \in Nat
  BY PopFacts DEF IInv, TypeOK, AddDependenceOn, Rewriting
<1>2. PICK f : f = [Top EXCEPT !.deps = @ \cup {<<inv, version[inv]>>}]
  OBVIOUS
<1>3. f \in Frame /\ f.kind = "rewrite" /\ f.deps = Top.deps \cup {<<inv, version[inv]>>}
  <2>1. PICK t, D : t = Top /\ D = Top.deps \cup {<<inv, version[inv]>>}
    OBVIOUS
  <2>2. /\ t \in Frame /\ t.kind = "rewrite" /\ D \in SUBSET (Invalidators \X Nat)
        /\ f = [t EXCEPT !.deps = D]
    BY <1>1, <1>2, <2>1 DEF Frame
  <2>3. f \in Frame /\ f.kind = "rewrite" /\ f.deps = D
    BY <2>2 DEF Frame
  <2> QED BY <2>1, <2>3
<1>4. stack' = [stack EXCEPT ![Len(stack)] = f]
  BY <1>2 DEF AddDependenceOn, Top
<1>5. PICK a, n, g, h : /\ a = AbsActivity /\ n = Len(AbsActivity)
                        /\ g = FrameAt(f, version) /\ h = FrameAt(Top, version)
  OBVIOUS
<1>6. a \in Seq(AbsFrames) /\ n \in 1..Len(a) /\ a[n] = h
  BY <1>1, <1>5, AbsActivityIs DEF Top
<1>7. /\ h \in AbsFrames /\ h.kind = "build" /\ h.on = On(Top.deps)
      /\ h.dead <=> \E d \in Top.deps : version[d[1]] # d[2]
  BY <1>1, <1>5, FrameAtIs
<1>8. /\ g \in AbsFrames /\ g.kind = "build" /\ g.on = On(f.deps)
      /\ g.dead <=> \E d \in f.deps : version[d[1]] # d[2]
  BY <1>3, <1>5, FrameAtIs
<1>9. g.on = h.on \cup {inv}
  <2>1. \A d \in f.deps : d \in Top.deps \/ d[1] = inv
    BY <1>3
  <2>2. <<inv, version[inv]>> \in f.deps /\ <<inv, version[inv]>>[1] = inv /\ Top.deps \subseteq f.deps
    BY <1>3
  <2>3. On(f.deps) \subseteq On(Top.deps) \cup {inv}
    BY <2>1 DEF On
  <2>4. On(Top.deps) \cup {inv} \subseteq On(f.deps)
    BY <2>2 DEF On
  <2> QED BY <2>3, <2>4, <1>7, <1>8
<1>10. g.dead = h.dead
  <2>1. g.dead <=> h.dead
    BY <1>3, <1>7, <1>8
  <2> QED BY <2>1, <1>7, <1>8 DEF AbsFrames
<1>11. g = [h EXCEPT !.on = @ \cup {inv}]
  BY <1>7, <1>8, <1>9, <1>10 DEF AbsFrames
<1>12. AbsActivity' = [a EXCEPT ![n] = g]
  BY <1>1, <1>3, <1>4, <1>5, ReplaceRefines
<1>13. AbsActivity' = [a EXCEPT ![n].on = @ \cup {inv}]
  BY <1>6, <1>11, <1>12
<1>14. AbsCached' = AbsCached
  BY <1>1, SameCode
<1>15. Abs!Building
  BY <1>1, AbsTopIs
<1> QED BY <1>5, <1>13, <1>14, <1>15 DEF Abs!Rely, AbsActivity, AbsCached

\* ICSlotRewrite::commit publishes code whose assumptions all still hold.
LEMMA CommitRefines ==
  ASSUME IInv, Commit
  PROVE  \E s \in SlotIds : Abs!Publish(s)
<1>1. /\ stack \in Seq(Frame) /\ stack # <<>> /\ Top \in Frame /\ Rewriting
      /\ Top.kind = "rewrite" /\ stack' = Pop /\ UNCHANGED version
      /\ Top.ic \in ICs /\ Top.path \in Nat
      /\ slots \in [SlotIds -> Slot] /\ StillValid(Top.deps)
  BY PopFacts DEF IInv, TypeOK, Commit, Rewriting, Frame
<1>2. PICK i \in PickEntryForRewrite(Top.ic, Top.path), lay \in LayoutsOf(Top.ic) :
        slots' = [slots EXCEPT ![<<Top.ic, i>>] =
                    [is_patched |-> TRUE, decision_path |-> Top.path,
                     entry |-> "code", path |-> Top.path, layout |-> lay, relies |-> Top.deps]]
  BY DEF Commit
<1>3. PICK t, new : /\ t = <<Top.ic, i>>
                    /\ new = [is_patched |-> TRUE, decision_path |-> Top.path,
                              entry |-> "code", path |-> Top.path, layout |-> lay, relies |-> Top.deps]
  OBVIOUS
<1>4. t \in SlotIds
  BY <1>1, <1>3, PickFacts DEF IInv
<1>5. \A s \in SlotIds : slots'[s] = IF s = t THEN new ELSE slots[s]
  BY <1>1, <1>2, <1>3, <1>4
<1>6. new.entry = "code" /\ new.relies = Top.deps
  BY <1>3
<1>7. PICK L, M, O : /\ L = {s \in SlotIds : slots[s].entry = "code"}
                     /\ M = {s \in SlotIds : slots'[s].entry = "code"}
                     /\ O = On(Top.deps)
  OBVIOUS
<1>8. M = L \cup {t}
  BY <1>4, <1>5, <1>6, <1>7
<1>9. AbsCached = [s \in L |-> On(slots[s].relies)]
  BY <1>7 DEF AbsCached, Live
<1>10. AbsCached' = [s \in M |-> On(slots'[s].relies)]
  BY <1>7 DEF AbsCached, Live, On
<1>11. ASSUME NEW s \in M PROVE On(slots'[s].relies) = IF s = t THEN O ELSE AbsCached[s]
  <2>1. s \in SlotIds
    BY <1>7
  <2>2. CASE s = t
    BY <2>1, <2>2, <1>5, <1>6, <1>7
  <2>3. CASE s # t
    <3>1. s \in L /\ slots'[s] = slots[s]
      BY <2>1, <2>3, <1>5, <1>8
    <3> QED BY <3>1, <2>3, <1>9
  <2> QED BY <2>2, <2>3
<1>12. DOMAIN AbsCached = L
  BY <1>9
<1>13. AbsCached' = [s \in DOMAIN AbsCached \cup {t} |-> IF s = t THEN O ELSE AbsCached[s]]
  <2>1. PICK c : c = AbsCached
    OBVIOUS
  <2>2. [s \in M |-> On(slots'[s].relies)] = [s \in M |-> IF s = t THEN O ELSE c[s]]
    BY <1>11, <2>1
  <2> QED BY <2>1, <2>2, <1>8, <1>10, <1>12
<1>14. Abs!Top.on = O /\ ~ Abs!Top.dead
  <2>1. \A d \in Top.deps : version[d[1]] = d[2]
    BY <1>1, CommittedCurrent
  <2>2. FrameAt(Top, version).on = O /\ ~ FrameAt(Top, version).dead
    BY <2>1, <1>1, <1>7, FrameAtIs
  <2> QED BY <2>2, <1>1, AbsTopIs
<1>15. Abs!Building /\ AbsActivity' = Abs!Pop
  BY <1>1, PopRefines, AbsTopIs
<1>16. Abs!Publish(t)
  BY <1>13, <1>14, <1>15 DEF Abs!Publish, AbsActivity, AbsCached
<1> QED BY <1>4, <1>16

\* ICInvalidator::invalidateAll removes all code that relies on it, and dooms every
\* rewrite that recorded an earlier version.
LEMMA InvalidateRefines ==
  ASSUME IInv, NEW inv \in Invalidators, InvalidateAll(inv)
  PROVE  Abs!Break(inv)
<1>1. /\ slots \in [SlotIds -> Slot] /\ version \in [Invalidators -> Nat]
      /\ stack \in Seq(Frame) /\ stack' = stack
      /\ version' = [version EXCEPT ![inv] = version[inv] + 1]
      /\ slots' = [s \in SlotIds |-> IF s \in dependents[inv] THEN Clear(s) ELSE slots[s]]
  BY DEF IInv, TypeOK, InvalidateAll
<1>2. \A s \in SlotIds :
        /\ slots'[s].relies = slots[s].relies
        /\ slots'[s].entry = "code" <=> s \notin dependents[inv] /\ slots[s].entry = "code"
  BY <1>1 DEF Clear, Slot
<1>3. PICK L, M, c : /\ L = {s \in SlotIds : slots[s].entry = "code"}
                     /\ M = {s \in SlotIds : slots'[s].entry = "code"}
                     /\ c = AbsCached
  OBVIOUS
<1>4. M \subseteq L
  BY <1>2, <1>3
<1>5. c = [s \in L |-> On(slots[s].relies)]
  BY <1>3 DEF AbsCached, Live
<1>6. AbsCached' = [s \in M |-> On(slots'[s].relies)]
  BY <1>3 DEF AbsCached, Live, On
<1>7. \A s \in M : c[s] = On(slots'[s].relies)
  BY <1>2, <1>3, <1>4, <1>5
<1>8. AbsCached' = Abs!Restrict(c, M)
  BY <1>6, <1>7 DEF Abs!Restrict
<1>9. ASSUME NEW s \in M PROVE s \in DOMAIN c /\ inv \notin c[s]
  <2>1. s \in L /\ s \in SlotIds /\ s \notin dependents[inv] /\ slots[s].entry = "code"
    BY <1>2, <1>3, <1>4
  <2>2. \A d \in slots[s].relies : s \in dependents[d[1]]
    BY <2>1 DEF IInv, CodeRegistered, Live
  <2>3. inv \notin On(slots[s].relies)
    BY <2>1, <2>2 DEF On
  <2> QED BY <2>1, <2>3, <1>5
<1>10. \E keep \in SUBSET {s \in DOMAIN c : inv \notin c[s]} : AbsCached' = Abs!Restrict(c, keep)
  BY <1>8, <1>9
<1>11. PICK a, b, n : a = AbsActivity /\ b = AbsActivity' /\ n = Len(stack)
  OBVIOUS
<1>12. /\ a \in Seq(AbsFrames) /\ Len(a) = n /\ n \in Nat
       /\ \A k \in 1..n : a[k] = FrameAt(stack[k], version)
  BY <1>1, <1>11, AbsActivityIs
<1>13. /\ b \in Seq(AbsFrames) /\ Len(b) = n
       /\ \A k \in 1..n : b[k] = FrameAt(stack[k], version')
  BY <1>1, <1>11, AbsActivityNext
<1>14. ASSUME NEW k \in 1..n PROVE b[k] = [a[k] EXCEPT !.dead = @ \/ inv \in a[k].on]
  <2>1. PICK f, g, h : f = stack[k] /\ g = a[k] /\ h = b[k]
    OBVIOUS
  <2>2. f \in Frame /\ g = FrameAt(f, version) /\ h = FrameAt(f, version')
    BY <2>1, <1>1, <1>11, <1>12, <1>13, ElementOfSeq
  <2>3. g \in AbsFrames /\ h \in AbsFrames
    BY <2>2, FrameAtIs
  <2>4. h.kind = g.kind /\ h.on = g.on
    BY <2>2 DEF FrameAt
  <2>5. h.dead <=> (g.dead \/ inv \in g.on)
    <3>1. CASE f.kind = "call"
      BY <3>1, <2>2, FrameAtIs DEF Abs!User
    <3>2. CASE f.kind = "rewrite"
      <4>1. \A d \in f.deps : d[1] \in Invalidators /\ d[2] \in Nat /\ d[2] <= version[d[1]]
        BY <2>1, <2>2, <1>11 DEF IInv, RecordedVersions, Frame
      <4>2. \A d \in f.deps : version'[d[1]] # d[2] <=> (version[d[1]] # d[2] \/ d[1] = inv)
        BY <4>1, <1>1
      <4>3. /\ h.dead <=> \E d \in f.deps : version'[d[1]] # d[2]
            /\ g.dead <=> \E d \in f.deps : version[d[1]] # d[2]
            /\ g.on = On(f.deps)
        BY <2>2, <3>2, FrameAtIs
      <4>4. inv \in g.on <=> \E d \in f.deps : d[1] = inv
        BY <4>3 DEF On
      <4> QED BY <4>2, <4>3, <4>4
    <3> QED BY <2>2, <3>1, <3>2 DEF Frame
  <2>6. h.dead = (g.dead \/ inv \in g.on)
    BY <2>3, <2>5 DEF AbsFrames
  <2>7. h = [g EXCEPT !.dead = @ \/ inv \in g.on]
    BY <2>3, <2>4, <2>6 DEF AbsFrames
  <2> QED BY <2>1, <2>7
<1>15. b = [k \in DOMAIN a |-> [a[k] EXCEPT !.dead = @ \/ inv \in a[k].on]]
  BY <1>12, <1>13, <1>14
<1> QED BY <1>3, <1>10, <1>11, <1>15 DEF Abs!Break, AbsActivity, AbsCached

\* Every step of the inline caches is a step of CodeCache, or none.
LEMMA NextRefines ==
  ASSUME IInv, [Next]_vars
  PROVE  [Abs!Next]_(Abs!vars)
<1>1. stack \in Seq(Frame) /\ slots \in [SlotIds -> Slot]
  BY DEF IInv, TypeOK
<1>2. ASSUME UNCHANGED <<slots, version, stack>> PROVE UNCHANGED Abs!vars
  BY <1>2 DEF Abs!vars, AbsFrame, Live
<1>3. ASSUME NEW ic \in ICs, RegisterCompiledPatchpoint(ic) PROVE UNCHANGED Abs!vars
  BY <1>2, <1>3, RegisterKeepsSlots DEF RegisterCompiledPatchpoint
<1>4. ASSUME NEW ic \in ICs, StartRewrite(ic) PROVE Abs!Begin
  <2>1. PICK f : f = Rewrite(ic, IF ic \in Rewriter2ICs THEN 0 ELSE 1, {})
    OBVIOUS
  <2>2. f \in Frame /\ f.kind = "rewrite" /\ f.deps = {}
    BY <2>1 DEF Rewrite, Frame
  <2>3. FrameAt(f, version) = Abs!Builder({}, FALSE)
    BY <2>2 DEF FrameAt, On, Abs!Builder
  <2>4. stack' = Append(stack, f) /\ UNCHANGED <<slots, version>>
    BY <1>4, <2>1 DEF StartRewrite
  <2> QED BY <1>1, <2>2, <2>3, <2>4, PushRefines, SameCode, AbsIs
<1>5. ASSUME NEW ic \in ICs, NEW i \in 1..NumSlots[ic], EnterSlot(ic, i)
      PROVE  \E s \in SlotIds : Abs!Use(s)
  <2>1. PICK s, f : s = <<ic, i>> /\ f = SlotCall(ic, i, slots[<<ic, i>>].path, slots[<<ic, i>>].layout)
    OBVIOUS
  <2>2. s \in SlotIds /\ Live(s) /\ slots[s] \in Slot /\ i \in Nat
    BY <1>1, <1>5, <2>1, SlotIdFacts, ICAssumption DEF EnterSlot
  <2>3. f \in Frame /\ f.kind = "call"
    BY <2>1, <2>2 DEF SlotCall, Frame, Slot
  <2>4. s \in DOMAIN AbsCached
    BY <2>2 DEF AbsCached
  <2>5. stack' = Append(stack, f) /\ UNCHANGED <<slots, version>>
    BY <1>5, <2>1 DEF EnterSlot
  <2>6. AbsActivity' = Append(AbsActivity, Abs!User) /\ AbsCached' = AbsCached
    BY <1>1, <2>3, <2>5, FrameAtIs, PushRefines, SameCode
  <2> QED BY <2>2, <2>4, <2>6, AbsIs
<1>6. CASE Next
  <2>1. CASE \E ic \in ICs : \/ RegisterCompiledPatchpoint(ic) \/ StartRewrite(ic)
                             \/ \E i \in 1..NumSlots[ic] : EnterSlot(ic, i)
    BY <2>1, <1>3, <1>4, <1>5 DEF Abs!Next
  <2>2. CASE \E way \in {0, 1} : AddDecision(way)
    BY <2>2, AddDecisionRefines
  <2>3. CASE \E inv \in Invalidators : AddDependenceOn(inv) \/ InvalidateAll(inv)
    BY <2>3, AddDependenceRefines, InvalidateRefines DEF Abs!Next
  <2>4. CASE Commit
    BY <2>4, CommitRefines DEF Abs!Next
  <2>5. CASE CommitRefused \/ DropRewrite \/ ReturnToSlot
    BY <2>5, EndRefines DEF Abs!Next
  <2> QED BY <1>6, <2>1, <2>2, <2>3, <2>4, <2>5 DEF Next
<1>7. CASE UNCHANGED vars
  BY <1>2, <1>7 DEF vars
<1> QED BY <1>6, <1>7

\* Versions, dependents and cleared entries implement CodeCache: once an invalidator
\* fires, nothing built on it can be entered or committed, for any patchpoints and any
\* nesting of slow paths and slot calls.
THEOREM ImplementsCodeCache == Spec => RefinesCodeCache
<1>1. Init => Abs!Init
  <2> SUFFICES ASSUME Init PROVE Abs!Init
    OBVIOUS
  <2>1. {t \in SlotIds : Live(t)} = {} /\ Len(stack) = 0
    BY DEF Init, Live, EmptySlot
  <2>2. [k \in 1..Len(stack) |-> AbsFrame(stack[k])] = <<>>
    BY <2>1
  <2>3. [s \in {t \in SlotIds : Live(t)} |-> On(slots[s].relies)] = [s \in {} |-> {}]
    BY <2>1
  <2> QED BY <2>2, <2>3 DEF Abs!Init
<1>2. IInv /\ [Next]_vars => [Abs!Next]_(Abs!vars)
  BY NextRefines
<1>3. Spec => Abs!Init /\ [][Abs!Next]_(Abs!vars)
  BY <1>1, <1>2, InductiveInvariant, PTL DEF Spec
<1> QED BY <1>3 DEF RefinesCodeCache, Abs!Spec

=============================================================================
