------------------------------ MODULE CodeCache ------------------------------
(***************************************************************************)
(* What an inline cache promises, without saying how.                      *)
(*                                                                         *)
(* A fixed set of places (Slots) can each hold one piece of specialised    *)
(* code.  A piece of code is correct only while some assumptions hold      *)
(* (Assumptions: "this class has no __getattr__", "this version of the     *)
(* callee is the current one").  Code is built by one activity and used by *)
(* others, and activities nest: building or using code can run the program *)
(* again before it is finished, so they form a stack.                      *)
(*                                                                         *)
(* The promise: from the moment an assumption is broken, no code that      *)
(* relies on it can be entered, and no code that was being built on it can *)
(* ever be published.  There are no version numbers and no lists of        *)
(* dependents here; InlineCache implements this module with them.          *)
(***************************************************************************)
EXTENDS Naturals, Sequences, Functions

CONSTANTS Slots,        \* the places that can hold code
          Assumptions   \* what code can rely on

VARIABLES cached,       \* slot -> the assumptions its code relies on
          activity      \* the stack of builders and users, innermost last

vars == <<cached, activity>>

Builder(on, dead) == [kind |-> "build", on |-> on, dead |-> dead]
User == [kind |-> "use", on |-> {}, dead |-> FALSE]

Top == activity[Len(activity)]
Pop == SubSeq(activity, 1, Len(activity) - 1)
Building == activity # <<>> /\ Top.kind = "build"

Init == /\ cached = [s \in {} |-> {}]
        /\ activity = <<>>

\* Somebody starts to build a piece of code.
Begin == /\ activity' = Append(activity, Builder({}, FALSE))
         /\ UNCHANGED cached

\* The code being built comes to rely on a (which holds right now).
Rely(a) ==
  /\ Building
  /\ activity' = [activity EXCEPT ![Len(activity)].on = @ \cup {a}]
  /\ UNCHANGED cached

\* The builder publishes its code into s, replacing what was there.
Publish(s) ==
  /\ Building
  /\ ~ Top.dead
  /\ cached' = [t \in DOMAIN cached \cup {s} |->
                  IF t = s THEN Top.on ELSE cached[t]]
  /\ activity' = Pop

\* The builder stops without publishing.
GiveUp == /\ Building
          /\ activity' = Pop
          /\ UNCHANGED cached

\* Only cached code can be entered.
Use(s) == /\ s \in DOMAIN cached
          /\ activity' = Append(activity, User)
          /\ UNCHANGED cached

Finish == /\ activity # <<>> /\ Top.kind = "use"
          /\ activity' = Pop
          /\ UNCHANGED cached

\* a is broken: the code that relies on it is gone (an implementation may drop
\* other code too), and whatever is being built on it is doomed.
Break(a) ==
  /\ \E keep \in SUBSET {s \in DOMAIN cached : a \notin cached[s]} :
        cached' = Restrict(cached, keep)
  /\ activity' = [k \in DOMAIN activity |->
                    [activity[k] EXCEPT !.dead = @ \/ a \in activity[k].on]]

Next == \/ Begin \/ GiveUp \/ Finish
        \/ \E a \in Assumptions : Rely(a) \/ Break(a)
        \/ \E s \in Slots : Publish(s) \/ Use(s)

Spec == Init /\ [][Next]_vars
==============================================================================
