----------------------------- MODULE InlineCache -----------------------------
(***************************************************************************)
(* Inline caches: src/asm_writing/icinfo.{h,cpp} and the way rewriter.cpp  *)
(* and rewriter2.cpp drive them.                                           *)
(*                                                                         *)
(* A patchpoint (IC) in compiled code is a row of slots followed by a call *)
(* of a slow path.  The slow path may build a piece of code specialised to *)
(* what it has just seen (an ICSlotRewrite) and commit it to a slot.  The  *)
(* process is single-threaded, but both a slow path and the code of a slot *)
(* can run Python again before they are done: pending rewrites and calls   *)
(* made from inside slots therefore form one stack, and everything below   *)
(* the top of it can find the caches changed when control comes back.      *)
(*                                                                         *)
(* An ICInvalidator (one per class: dependent_icgetattrs, one per compiled *)
(* function: dependent_callsites) counts its invalidations and knows the   *)
(* slots that rely on it.                                                  *)
(***************************************************************************)
EXTENDS Integers, Sequences, FiniteSets, Functions

CONSTANTS
  ICs,              \* patchpoints
  NumSlots,         \* ic -> number of its slots
  Rewriter2ICs,     \* the patchpoints whose slow path uses Rewriter2
  Invalidators,
  INT_MAX,          \* largest C++ int: commit() reads a version into an int
  MaxVersion,       \* bound: invalidations of one invalidator
  MaxDepth,         \* bound: nesting of slow paths and slot calls
  MaxPath,          \* bound: decision paths
  Layouts,          \* the layouts the code of one decision path can have
  NoLayout,         \* that of bytes no call returns into
  MaxDependencies   \* bound: dependencies of one rewrite

ASSUME ICAssumption ==
  /\ NumSlots \in [ICs -> Nat \ {0}]
  /\ Rewriter2ICs \subseteq ICs
  /\ INT_MAX \in Nat
  /\ MaxVersion \in Nat /\ MaxDepth \in Nat /\ MaxPath \in Nat
  /\ NoLayout \notin Layouts
  /\ MaxDependencies \in Nat

VARIABLES
  registered,   \* the patchpoints in ics_by_return_addr
  slots,        \* what every slot holds, and what ICInfo records about it
  version,      \* ICInvalidator::cur_version
  dependents,   \* ICInvalidator::dependents
  stack         \* pending rewrites and calls out of slots, innermost last

vars == <<registered, slots, version, dependents, stack>>

SlotIds == UNION { {<<ic, i>> : i \in 1..NumSlots[ic]} : ic \in ICs }

(***************************************************************************)
(* The state of one slot.  is_patched and decision_path are ICInfo's own   *)
(* records.  The rest are the bytes of the slot: what its first instruction*)
(* does ("init": jump over all slots to the slow path, "code": run the     *)
(* committed code, "cleared": jump to the next slot); the decision path of *)
(* the code that fills it and which of the layouts of that path it has,    *)
(* which together fix where the calls in it return to; and the versions of *)
(* the invalidators it was built on.                                       *)
(*                                                                         *)
(* One decision path has several layouts: only the lookup of an attribute  *)
(* in an object and the test for a plain function record a decision, not   *)
(* where the attribute came from, what a type call ends in, or the width   *)
(* of a guard's immediate.                                                 *)
(***************************************************************************)
\* Nothing ever returns into code of Rewriter2.
LayoutsOf(ic) == IF ic \in Rewriter2ICs THEN {NoLayout} ELSE Layouts

Slot == [is_patched : BOOLEAN, decision_path : Nat,
         entry : {"init", "code", "cleared"}, path : Nat, layout : Layouts \cup {NoLayout},
         relies : SUBSET (Invalidators \X Nat)]

EmptySlot == [is_patched |-> FALSE, decision_path |-> 0,
              entry |-> "init", path |-> 0, layout |-> NoLayout, relies |-> {}]

\* A pending ICSlotRewrite, and a call made by the code of a slot.
Rewrite(ic, path, deps) ==
  [kind |-> "rewrite", ic |-> ic, idx |-> 0, path |-> path, layout |-> NoLayout,
   deps |-> deps]
SlotCall(ic, i, path, layout) ==
  [kind |-> "call", ic |-> ic, idx |-> i, path |-> path, layout |-> layout,
   deps |-> {}]

Frame == [kind : {"rewrite", "call"}, ic : ICs, idx : Nat, path : Nat,
          layout : Layouts \cup {NoLayout}, deps : SUBSET (Invalidators \X Nat)]

Top == stack[Len(stack)]
Pop == SubSeq(stack, 1, Len(stack) - 1)
Rewriting == stack # <<>> /\ Top.kind = "rewrite"

\* What is left of an int64_t v assigned to an int.
ToInt(v) == ((v + INT_MAX + 1) % (2 * (INT_MAX + 1))) - (INT_MAX + 1)

Live(s) == slots[s].entry = "code"

Init ==
  /\ registered = {}
  /\ slots = [s \in SlotIds |-> EmptySlot]
  /\ version = [inv \in Invalidators |-> 0]
  /\ dependents = [inv \in Invalidators |-> {}]
  /\ stack = <<>>

(***************************************************************************)
(* The patchpoint of freshly compiled code gets an ICInfo.                 *)
(***************************************************************************)
RegisterCompiledPatchpoint(ic) ==
  /\ ic \notin registered
  /\ registered' = registered \cup {ic}
  /\ slots' = [s \in SlotIds |-> IF s[1] = ic THEN EmptySlot ELSE slots[s]]
  /\ UNCHANGED <<version, dependents, stack>>

(***************************************************************************)
(* A slow path runs and getICInfo finds its patchpoint.  Rewriter starts   *)
(* its decision path at 1; Rewriter2 always commits with path 0.           *)
(***************************************************************************)
StartRewrite(ic) ==
  /\ ic \in registered
  /\ Len(stack) < MaxDepth
  /\ stack' = Append(stack, Rewrite(ic, IF ic \in Rewriter2ICs THEN 0 ELSE 1, {}))
  /\ UNCHANGED <<registered, slots, version, dependents>>

AddDecision(way) ==
  /\ Rewriting
  /\ Top.ic \notin Rewriter2ICs
  /\ 2 * Top.path + way <= MaxPath
  /\ stack' = [stack EXCEPT ![Len(stack)].path = 2 * @ + way]
  /\ UNCHANGED <<registered, slots, version, dependents>>

AddDependenceOn(inv) ==
  /\ Rewriting
  /\ Cardinality(Top.deps) < MaxDependencies
  /\ stack' = [stack EXCEPT ![Len(stack)].deps = @ \cup {<<inv, version[inv]>>}]
  /\ UNCHANGED <<registered, slots, version, dependents>>

\* Mutants: the check dropped; the loop left at the first dependency that matches.
StillValidUnchecked(deps) == TRUE
StillValidAny(deps) == deps = {} \/ \E d \in deps : ToInt(d[2]) = version[d[1]]

StillValid(deps) == \A d \in deps : ToInt(d[2]) = version[d[1]]

(***************************************************************************)
(* The slot pickEntryForRewrite returns, as a set that is empty for NULL:  *)
(* the first unpatched slot, else the first slot of the same decision path.*)
(***************************************************************************)
First(S) == {i \in S : \A j \in S : i <= j}

PickEntryForRewrite(ic, path) ==
  LET unpatched == {i \in 1..NumSlots[ic] : ~ slots[<<ic, i>>].is_patched}
      compatible == {i \in 1..NumSlots[ic] : slots[<<ic, i>>].decision_path = path}
  IN  IF unpatched # {} THEN First(unpatched) ELSE First(compatible)

(***************************************************************************)
(* ICSlotRewrite::commit, once a slot has been found, and the end of the   *)
(* slow path: the slot is added to the dependents of every dependency, and *)
(* the buffer is copied over the whole slot.  What the slow path has met   *)
(* besides its decisions settles the layout of the code.                   *)
(***************************************************************************)
Commit ==
  /\ Rewriting
  /\ StillValid(Top.deps)
  /\ \E i \in PickEntryForRewrite(Top.ic, Top.path), layout \in LayoutsOf(Top.ic) :
       /\ slots' = [slots EXCEPT ![<<Top.ic, i>>] =
                      [is_patched |-> TRUE, decision_path |-> Top.path,
                       entry |-> "code", path |-> Top.path, layout |-> layout,
                       relies |-> Top.deps]]
       /\ dependents' = [inv \in Invalidators |->
                           IF \E d \in Top.deps : d[1] = inv
                           THEN dependents[inv] \cup {<<Top.ic, i>>}
                           ELSE dependents[inv]]
  /\ stack' = Pop
  /\ UNCHANGED <<registered, version>>

(***************************************************************************)
(* The slow path ends without a new slot: commit() finds a dependency that *)
(* was updated or no compatible slot, or the rewriter was dropped.         *)
(***************************************************************************)
CommitRefused ==
  /\ Rewriting
  /\ ~ StillValid(Top.deps) \/ PickEntryForRewrite(Top.ic, Top.path) = {}
  /\ stack' = Pop
  /\ UNCHANGED <<registered, slots, version, dependents>>

DropRewrite ==
  /\ Rewriting
  /\ stack' = Pop
  /\ UNCHANGED <<registered, slots, version, dependents>>

(***************************************************************************)
(* Execution reaches slot i of a patchpoint: every slot before it jumped   *)
(* to the next one, because it is cleared or because its guards failed.    *)
(***************************************************************************)
Reaches(ic, i) == \A j \in 1..(i - 1) : slots[<<ic, j>>].entry # "init"

\* Its guards pass and it calls into Python.  Code written by Rewriter2 does
\* not: Rewriter2::call asserts !can_call_into_python.
EnterSlot(ic, i) ==
  /\ ic \in registered \ Rewriter2ICs
  /\ Live(<<ic, i>>)
  /\ Reaches(ic, i)
  /\ Len(stack) < MaxDepth
  /\ stack' = Append(stack, SlotCall(ic, i, slots[<<ic, i>>].path,
                                     slots[<<ic, i>>].layout))
  /\ UNCHANGED <<registered, slots, version, dependents>>

\* The call returns, to the instruction after it.
ReturnToSlot ==
  /\ stack # <<>> /\ Top.kind = "call"
  /\ stack' = Pop
  /\ UNCHANGED <<registered, slots, version, dependents>>

(***************************************************************************)
(* ICInvalidator::invalidateAll: a class gets a __getattr__, or a compiled *)
(* function is replaced.  ICInfo::clear only rewrites the entry of a slot; *)
(* it leaves is_patched, decision_path and the rest of the bytes alone.    *)
(***************************************************************************)
\* Mutants: the slot is handed back as unpatched; the jump of
\* registerCompiledPatchpoint is written instead of one to the next slot.
ClearUnpatches(s) == [slots[s] EXCEPT !.entry = "cleared", !.is_patched = FALSE]
ClearToSlowPath(s) == [slots[s] EXCEPT !.entry = "init"]
Clear(s) == [slots[s] EXCEPT !.entry = "cleared"]

InvalidateAll(inv) ==
  /\ version[inv] < MaxVersion
  /\ version' = [version EXCEPT ![inv] = @ + 1]
  /\ slots' = [s \in SlotIds |-> IF s \in dependents[inv] THEN Clear(s) ELSE slots[s]]
  /\ dependents' = [dependents EXCEPT ![inv] = {}]
  /\ UNCHANGED <<registered, stack>>

Next ==
  \/ \E ic \in ICs : \/ RegisterCompiledPatchpoint(ic)
                     \/ StartRewrite(ic)
                     \/ \E i \in 1..NumSlots[ic] : EnterSlot(ic, i)
  \/ \E way \in {0, 1} : AddDecision(way)
  \/ \E inv \in Invalidators : AddDependenceOn(inv) \/ InvalidateAll(inv)
  \/ Commit
  \/ CommitRefused
  \/ DropRewrite
  \/ ReturnToSlot

Spec == Init /\ [][Next]_vars

------------------------------------------------------------------------------
(***************************************************************************)
(* Properties.                                                             *)
(***************************************************************************)

\* The variables keep the shapes the code gives them.
TypeOK ==
  /\ registered \subseteq ICs
  /\ slots \in [SlotIds -> Slot]
  /\ version \in [Invalidators -> Nat]
  /\ dependents \in [Invalidators -> SUBSET SlotIds]
  /\ stack \in Seq(Frame)

\* Code that can be entered was built on the present version of everything it
\* relies on: whatever ran between addDependenceOn and commit, and whatever has
\* been invalidated, overwritten or cleared since, no slot runs outdated code.
NoStaleCode ==
  \A s \in SlotIds : Live(s) => \A d \in slots[s].relies : version[d[1]] = d[2]

\* A call out of a slot comes back to code of the decision path it left, although
\* the slot may have been cleared, reused or both while the call ran: this is what
\* pickEntryForRewrite compares decision paths for.  It does not say that the bytes
\* at the return address are those the call left, see ReturnsToSameLayout.
ReturnsToSameDecisions ==
  \A k \in 1..Len(stack) : stack[k].kind = "call" =>
     slots[<<stack[k].ic, stack[k].idx>>].path = stack[k].path

\* The call comes back to the layout it left, so that its return address is again
\* the end of a call.  The code keeps this as far as a decision path fixes the layout
\* (one member of Layouts); it does not for the paths that have several.
ReturnsToSameLayout ==
  /\ ReturnsToSameDecisions
  /\ \A k \in 1..Len(stack) : stack[k].kind = "call" =>
       slots[<<stack[k].ic, stack[k].idx>>].layout = stack[k].layout

\* No slot with code hides behind a slot whose initial jump skips the whole row
\* (registerCompiledPatchpoint's jump goes to the slow path, clear()'s only to the
\* next slot).
NoCodeSkipped ==
  \A ic \in ICs : \A i \in 1..NumSlots[ic] : Live(<<ic, i>>) => Reaches(ic, i)

(***************************************************************************)
(* The refinement: a slot is cached while its entry runs its code, and a   *)
(* pending rewrite is dead once a version it recorded has moved on.        *)
(***************************************************************************)
On(deps) == {d[1] : d \in deps}

AbsFrame(f) ==
  IF f.kind = "rewrite"
    THEN [kind |-> "build", on |-> On(f.deps),
          dead |-> \E d \in f.deps : version[d[1]] # d[2]]
    ELSE [kind |-> "use", on |-> {}, dead |-> FALSE]

Abs == INSTANCE CodeCache WITH
  Slots <- SlotIds,
  Assumptions <- Invalidators,
  cached <- [s \in {t \in SlotIds : Live(t)} |-> On(slots[s].relies)],
  activity <- [k \in 1..Len(stack) |-> AbsFrame(stack[k])]

\* Versions, dependents and cleared entries implement CodeCache: once an
\* invalidator fires, nothing built on it can be entered or committed, under any
\* nesting of slow paths and slot calls.
RefinesCodeCache == Abs!Spec
==============================================================================
