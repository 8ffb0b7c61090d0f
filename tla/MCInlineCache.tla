---------------------------- MODULE MCInlineCache ----------------------------
(***************************************************************************)
(* A call patchpoint with two slots (Rewriter) and an attribute patchpoint *)
(* with one (Rewriter2), on one invalidator.  A layout restricts no step   *)
(* and the properties of the run do not mention it, so one stands for all; *)
(* ReturnsToSameLayout fails as soon as there are two.                     *)
(***************************************************************************)
EXTENDS InlineCache, TLC

CONSTANTS callsite, attrsite, i1, l1

MCNumSlots == callsite :> 2 @@ attrsite :> 1
==============================================================================
