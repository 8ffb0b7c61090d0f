------------------------------- MODULE Tiering -------------------------------
(***************************************************************************)
(* The compilation tiers: src/codegen/irgen/hooks.cpp, the counters that   *)
(* src/codegen/irgen.cpp puts at function entries and loop backedges, and  *)
(* the cached calls of runtimeCall (src/runtime/objmodel.cpp).             *)
(*                                                                         *)
(* A Python function (CLFunction) has one compiled version per signature.  *)
(* A version that is entered often is replaced by one of the next effort   *)
(* level; one that loops often is left, in the middle of a call, for an    *)
(* OSR version.  Calls are cached in the slots of patchpoints, and a slot  *)
(* holds the address of one version: replacing the version must reach      *)
(* every slot, including those that are only filled when a call that is    *)
(* still running returns.                                                  *)
(*                                                                         *)
(* The slots are those of CodeCache, which InlineCache implements: what    *)
(* code relies on here is "this version is current", and                   *)
(* dependent_callsites.invalidateAll() is Break.                           *)
(***************************************************************************)
EXTENDS Naturals, Sequences, FiniteSets, SequencesExt

CONSTANTS
  CLFunctions,        \* Python functions (of one argument, with one loop)
  Classes,            \* classes of the argument
  Sites,              \* patchpoints of calls
  NumSlots,           \* slots of a patchpoint
  BoundCalls,         \* may calls go through instancemethod objects? {FALSE} or BOOLEAN
  EnableInterpreter, ForceOptimize, EnableReopt, EnableOSR,   \* the options
  ReoptThresholds,    \* effort -> REOPT_THRESHOLDS[effort]
  OSRThresholds,      \* effort -> OSR_THRESHOLD
  MaxDepth,           \* bound: nesting of calls
  MaxOSR              \* bound: OSR versions of versions that are not OSR versions themselves

INTERPRETED == 0
MINIMAL == 1
MODERATE == 2
MAXIMAL == 3

Efforts == INTERPRETED..MAXIMAL

ASSUME TieringAssumption ==
  /\ NumSlots \in Nat /\ MaxDepth \in Nat /\ MaxOSR \in Nat
  /\ BoundCalls \subseteq BOOLEAN
  /\ {EnableInterpreter, ForceOptimize, EnableReopt, EnableOSR} \subseteq BOOLEAN
  /\ ReoptThresholds \in [Efforts \ {MAXIMAL} -> Nat]
  /\ OSRThresholds \in [Efforts \ {MAXIMAL} -> Nat]

Slots == Sites \X (1..NumSlots)
NoSite == "no IC"     \* a caller without inline caches (the interpreter, C++ code)
NoParent == 0

VARIABLES
  cfs,            \* every CompiledFunction ever made; its index is its name
  versions,       \* CLFunction::versions
  osr_versions,   \* CLFunction::osr_versions: left version -> OSR version
  calls,          \* the activations, innermost last
  target,         \* what the code of a slot compares and calls
  cached, activity  \* the state of the inline caches, see CodeCache

vars == <<cfs, versions, osr_versions, calls, target, cached, activity>>
cacheVars == <<cached, activity>>

Cache == INSTANCE CodeCache WITH Assumptions <- Nat

(***************************************************************************)
(* A compiled version.  parent is the version whose backedge an OSR        *)
(* version continues: every compile creates an OSREntryDescriptor of its   *)
(* own, so the descriptor is named after the version.  The counters stop   *)
(* one above their threshold; only "more than the threshold" is observed.  *)
(***************************************************************************)
NewCF(f, cls, effort, parent) ==
  [f |-> f, sig |-> cls, effort |-> effort, parent |-> parent,
   times_called |-> 0, edgecount |-> 0]

IsInterpreted(v) == cfs[v].effort = INTERPRETED
CountUpTo(n, threshold) == IF n > threshold THEN n ELSE n + 1

\* initialEffort()
InitialEffort == IF ForceOptimize THEN MAXIMAL
                 ELSE IF EnableInterpreter THEN INTERPRETED ELSE MINIMAL

\* The positions of the versions that resolveCLFunc accepts, those whose argument
\* type is cls, and the first of these versions.
Fitting(f, cls) == {i \in 1..Len(versions[f]) : cfs[versions[f][i]].sig = cls}
FirstFitting(f, cls) == versions[f][Min(Fitting(f, cls))]

(***************************************************************************)
(* An activation: what was called and from where, the version resolveCLFunc*)
(* (or the slot) chose, the version running now, how far it is, and        *)
(* whether a rewriter waits for its end or the call came out of a slot.    *)
(***************************************************************************)
Call(callee, site, cf, pc, via) ==
  [callee |-> callee, site |-> site, chosen |-> cf, cf |-> cf, pc |-> pc, via |-> via]

Top == calls[Len(calls)]
InPython == calls # <<>> => Top.pc = "running"

Callees == [f : CLFunctions, cls : Classes, bound : BoundCalls]

Init ==
  /\ cfs = <<>>
  /\ versions = [f \in CLFunctions |-> <<>>]
  /\ osr_versions = [f \in CLFunctions |-> <<>>]
  /\ calls = <<>>
  /\ target = [s \in Slots |-> <<>>]
  /\ Cache!Init

(***************************************************************************)
(* The guards of a slot.  For a plain function the function object and the *)
(* class of the argument are compared.  For an instancemethod only its     *)
(* func is: runtimeCallInternal calls itself with args_guarded set, and    *)
(* nothing is compared with the class of the receiver, im->obj.            *)
(***************************************************************************)
\* Mutant: the class of the argument is not compared.
GuardsPassAnyClass(s, callee) ==
  target[s].callee.f = callee.f /\ target[s].callee.bound = callee.bound
GuardsPass(s, callee) ==
  /\ target[s].callee.f = callee.f
  /\ target[s].callee.bound = callee.bound
  /\ callee.bound \/ target[s].callee.cls = callee.cls

\* A call from running code to callee misses the slots of its site, if it has any.
Misses(site, callee) ==
  site = NoSite \/ \A s \in DOMAIN cached : s[1] = site => ~ GuardsPass(s, callee)

(***************************************************************************)
(* runtimeCall up to resolveCLFunc: the version that fits is found, or     *)
(* compiled and pushed to the back.  A rewriter exists if the caller's     *)
(* return address has an IC.                                               *)
(***************************************************************************)
RuntimeCall(site, callee) ==
  /\ InPython
  /\ Len(calls) < MaxDepth
  /\ Misses(site, callee)
  /\ LET found == Fitting(callee.f, callee.cls) # {}
         cf == IF found THEN FirstFitting(callee.f, callee.cls) ELSE Len(cfs) + 1
     IN  /\ IF found THEN UNCHANGED <<cfs, versions>>
            ELSE /\ cfs' = Append(cfs, NewCF(callee.f, callee.cls, InitialEffort, NoParent))
                 /\ versions' = [versions EXCEPT ![callee.f] = Append(@, cf)]
         /\ calls' = Append(calls, Call(callee, site, cf, "resolved",
                                 IF site = NoSite THEN "plain" ELSE "rewriter"))
  /\ IF site = NoSite THEN UNCHANGED cacheVars ELSE Cache!Begin
  /\ UNCHANGED <<osr_versions, target>>

\* runtimeCallInternal between resolveCLFunc and callCompiledFunc: no rewrite for
\* an interpreted version, a dependence on dependent_callsites for another one.
PrepareCall ==
  /\ calls # <<>> /\ Top.pc = "resolved"
  /\ \/ /\ Top.via = "plain"
        /\ calls' = [calls EXCEPT ![Len(calls)].pc = "entry"]
        /\ UNCHANGED cacheVars
     \/ /\ Top.via = "rewriter" /\ IsInterpreted(Top.cf)
        /\ calls' = [calls EXCEPT ![Len(calls)].pc = "entry",
                                  ![Len(calls)].via = "plain"]
        /\ Cache!GiveUp
     \/ /\ Top.via = "rewriter" /\ ~ IsInterpreted(Top.cf)
        /\ calls' = [calls EXCEPT ![Len(calls)].pc = "entry"]
        /\ Cache!Rely(Top.cf)
  /\ UNCHANGED <<cfs, versions, osr_versions, target>>

\* A call whose guards pass jumps to the version the slot was built for.
CachedCall(s, callee) ==
  /\ InPython
  /\ Len(calls) < MaxDepth
  /\ s \in DOMAIN cached
  /\ GuardsPass(s, callee)
  /\ calls' = Append(calls, Call(callee, s[1], target[s].cf, "entry", "slot"))
  /\ Cache!Use(s)
  /\ UNCHANGED <<cfs, versions, osr_versions, target>>

(***************************************************************************)
(* The pre_entry block of a version: count the call, and above the         *)
(* threshold let reoptCompiledFunc make the next version and jump to it.   *)
(***************************************************************************)
\* Mutant: the last tier is left out.
CountsBelowModerate(v) == EnableReopt /\ cfs[v].effort < MODERATE
Counts(v) == EnableReopt /\ cfs[v].effort < MAXIMAL

EnterBody ==
  /\ calls # <<>> /\ Top.pc = "entry"
  /\ LET v == Top.cf
         called == cfs[v].times_called + 1
     IN  /\ Counts(v) => called <= ReoptThresholds[cfs[v].effort]
         /\ cfs' = IF Counts(v) THEN [cfs EXCEPT ![v].times_called = called] ELSE cfs
  /\ calls' = [calls EXCEPT ![Len(calls)].pc = "running"]
  /\ UNCHANGED <<versions, osr_versions, target, cached, activity>>

\* _doReopt's loop, once it has found v: erase, compile (which pushes to the
\* back), then invalidate the call sites.
\* Mutant: the call sites are not invalidated.
InvalidateNoCallsites(v) == UNCHANGED cacheVars
Replace(seq, v, new) ==
  Append(RemoveAt(seq, Min({i \in 1..Len(seq) : seq[i] = v})), new)
InvalidateCallsites(v) == Cache!Break(v)

Reopt ==
  /\ calls # <<>> /\ Top.pc = "entry"
  /\ LET v == Top.cf
         f == cfs[v].f
         effort == cfs[v].effort
     IN  /\ Counts(v)
         /\ cfs[v].times_called + 1 > ReoptThresholds[effort]
         /\ v \in Range(versions[f])      \* or "Couldn't find a version to reopt!"
         /\ cfs' = Append([cfs EXCEPT ![v].times_called =
                                         CountUpTo(@, ReoptThresholds[effort])],
                          NewCF(f, cfs[v].sig, effort + 1, NoParent))
         /\ versions' = [versions EXCEPT ![f] = Replace(@, v, Len(cfs) + 1)]
         /\ calls' = [calls EXCEPT ![Len(calls)].cf = Len(cfs) + 1]
         /\ InvalidateCallsites(v)
  /\ UNCHANGED <<osr_versions, target>>

(***************************************************************************)
(* A backedge of a version below the top effort counts itself, and above   *)
(* the threshold leaves for the OSR version, which compilePartialFunc      *)
(* makes once.  The OSR version has backedges (and counters) of its own.   *)
(***************************************************************************)
\* Mutant: an OSR version is always of the first compiled tier.
OSREffortMinimal(effort) == MINIMAL
OSREffort(effort) == IF effort = INTERPRETED THEN MINIMAL ELSE MAXIMAL

Backedge ==
  /\ EnableOSR
  /\ calls # <<>> /\ Top.pc = "running"
  /\ LET v == Top.cf
         f == cfs[v].f
         effort == cfs[v].effort
         edges == CountUpTo(cfs[v].edgecount, OSRThresholds[effort])
         counted == [cfs EXCEPT ![v].edgecount = edges]
     IN  /\ effort < MAXIMAL
         /\ \/ /\ edges <= OSRThresholds[effort]
               /\ cfs' = counted
               /\ UNCHANGED <<osr_versions, calls>>
            \/ /\ edges > OSRThresholds[effort]
               /\ v \in DOMAIN osr_versions[f]
               /\ cfs' = counted
               /\ calls' = [calls EXCEPT ![Len(calls)].cf = osr_versions[f][v]]
               /\ UNCHANGED osr_versions
            \/ /\ edges > OSRThresholds[effort]
               /\ v \notin DOMAIN osr_versions[f]
               /\ cfs[v].parent = NoParent => Cardinality(DOMAIN osr_versions[f]) < MaxOSR
               /\ cfs' = Append(counted, NewCF(f, cfs[v].sig, OSREffort(effort), v))
               /\ osr_versions' = [osr_versions EXCEPT ![f] =
                    [w \in DOMAIN @ \cup {v} |-> IF w = v THEN Len(cfs) + 1 ELSE @[w]]]
               /\ calls' = [calls EXCEPT ![Len(calls)].cf = Len(cfs) + 1]
  /\ UNCHANGED <<versions, target, cached, activity>>

(***************************************************************************)
(* The activation ends.  A pending rewrite is committed, or not: commit()  *)
(* refuses it, or the call raised an exception and the rewriter is gone.   *)
(* The committed code calls the version resolved before the call, whatever *)
(* the activation was running in the end.                                  *)
(***************************************************************************)
Commit ==
  /\ calls # <<>> /\ Top.pc = "running" /\ Top.via = "rewriter"
  /\ \E s \in Slots :
       /\ s[1] = Top.site
       /\ Cache!Publish(s)
       /\ target' = [target EXCEPT ![s] = [callee |-> Top.callee, cf |-> Top.chosen]]
  /\ calls' = Front(calls)
  /\ UNCHANGED <<cfs, versions, osr_versions>>

NoCommit ==
  /\ calls # <<>> /\ Top.pc = "running" /\ Top.via = "rewriter"
  /\ Cache!GiveUp
  /\ calls' = Front(calls)
  /\ UNCHANGED <<cfs, versions, osr_versions, target>>

Return ==
  /\ calls # <<>> /\ Top.pc = "running" /\ Top.via # "rewriter"
  /\ IF Top.via = "slot" THEN Cache!Finish ELSE UNCHANGED cacheVars
  /\ calls' = Front(calls)
  /\ UNCHANGED <<cfs, versions, osr_versions, target>>

Next ==
  \/ \E callee \in Callees : \/ \E site \in Sites \cup {NoSite} : RuntimeCall(site, callee)
                             \/ \E s \in Slots : CachedCall(s, callee)
  \/ PrepareCall
  \/ EnterBody
  \/ Reopt
  \/ Backedge
  \/ Commit
  \/ NoCommit
  \/ Return

Spec == Init /\ [][Next]_vars

\* The process runs: something always happens next (deadlock freedom is checked).
FairSpec == Spec /\ WF_vars(Next)

------------------------------------------------------------------------------
(***************************************************************************)
(* Properties.                                                             *)
(***************************************************************************)
\* The code of every slot calls a compiled version that resolveCLFunc would still
\* choose, although a slot is filled only when the call that built it returns, and
\* that call, or one nested in it, may have replaced the version meanwhile.
CachedCallsActive ==
  \A s \in DOMAIN cached : /\ target[s].cf \in Range(versions[target[s].callee.f])
                           /\ ~ IsInterpreted(target[s].cf)

\* Nobody enters a version that has been replaced, through a slot or otherwise, and
\* no slot is left that would: its entry counter is above the threshold, so it would
\* ask for another recompilation and _doReopt would find nothing to replace
\* ("Couldn't find a version to reopt! Probably reopt'd already?").
EntersActiveVersion ==
  /\ CachedCallsActive
  /\ \A k \in 1..Len(calls) : calls[k].pc \in {"resolved", "entry"} =>
       calls[k].cf \in Range(versions[calls[k].callee.f])

\* The versions of a function have different signatures, however calls,
\* recompilations and recursion interleave, so that which one a call gets never
\* depends on their order (recompilation moves a version to the back).
OneVersionPerSignature ==
  \A f \in CLFunctions : \A i, j \in 1..Len(versions[f]) :
     cfs[versions[f][i]].sig = cfs[versions[f][j]].sig => i = j

\* A running call executes a version compiled for the class of its argument, the
\* only one there is: the comparisons in a slot, or resolveCLFunc, make sure that
\* it fits.
RunsFittingVersion ==
  /\ OneVersionPerSignature
  /\ \A k \in 1..Len(calls) : cfs[calls[k].cf].sig = calls[k].callee.cls

\* Nothing moves to a lower tier: neither a running activation, nor the version
\* that the next call with the same signature will get.
ActiveEffort(f, cls) ==
  IF Fitting(f, cls) = {} THEN INTERPRETED ELSE cfs[FirstFitting(f, cls)].effort
TiersOnlyRise ==
  [][/\ \A k \in 1..Len(calls) : k <= Len(calls') =>
          cfs'[calls'[k].cf].effort >= cfs[calls[k].cf].effort
     /\ \A f \in CLFunctions, cls \in Classes :
          ActiveEffort(f, cls)' >= ActiveEffort(f, cls)]_vars

\* A function that keeps being called with the same class ends up in the top tier.
CallOf(f, cls) == Len(calls') > Len(calls) /\ calls'[Len(calls')].callee.f = f
                                          /\ calls'[Len(calls')].callee.cls = cls
HotCallsReachTopTier ==
  \A f \in CLFunctions, cls \in Classes :
    ([]<><<CallOf(f, cls)>>_vars) => <>(ActiveEffort(f, cls) = MAXIMAL)

-----------------------------------------------------------------------------
\* Thresholds for model checking: small enough for every version to be replaced and
\* every loop to be left, with calls and iterations below the threshold as well.
LowReoptThresholds == [e \in Efforts \ {MAXIMAL} |-> IF e = MINIMAL THEN 0 ELSE 1]
LowOSRThresholds == [e \in Efforts \ {MAXIMAL} |-> IF e = INTERPRETED THEN 1 ELSE 0]
==============================================================================
