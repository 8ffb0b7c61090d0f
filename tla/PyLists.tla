------------------------------ MODULE PyLists ------------------------------
(* Python's lists: a list is a sequence, a call on it is one step, and an     *)
(* index or a slice means what the language reference says.  Two things are   *)
(* the implementation's: it may stop at a slice assignment it does not        *)
(* support, and at an insertion before the end of an empty list.              *)
EXTENDS Integers, Sequences, FiniteSets

CONSTANTS Lists, Values, Indices, SliceArgs, None

VARIABLES
  vals,    \* list -> sequence of its values
  iter,    \* the iterator of a for loop
  result   \* what the last call returned or raised
vars == <<vals, iter, result>>

Nothing == <<"none", "none">>
Elem(v) == <<"elem", v>>
ListOf(l) == <<"list", l>>

Init ==
  /\ vals = [l \in {} |-> <<>>]
  /\ iter = None
  /\ result = Nothing

-----------------------------------------------------------------------------
(* Indices and slices. *)

Clamp(n, low, high) == IF n < low THEN low ELSE IF n > high THEN high ELSE n
FromEnd(n, size) == IF n < 0 THEN n + size ELSE n
Index(n, size) == FromEnd(n, size) + 1
InRange(n, size) == FromEnd(n, size) \in 0..size - 1

Step(slice) == IF slice.step = None THEN 1 ELSE slice.step[2]
Lowest(slice) == IF Step(slice) > 0 THEN 0 ELSE -1
Highest(slice, size) == IF Step(slice) > 0 THEN size ELSE size - 1
End(n, default, slice, size) ==
  IF n = None THEN default ELSE Clamp(FromEnd(n[2], size), Lowest(slice), Highest(slice, size))
Start(slice, size) ==
  End(slice.start, IF Step(slice) > 0 THEN 0 ELSE size - 1, slice, size)
Stop(slice, size) ==
  End(slice.stop, IF Step(slice) > 0 THEN size ELSE -1, slice, size)

\* The items at start, start + step, start + 2 step ... before stop.
Sliced(s, slice) ==
  LET start == Start(slice, Len(s)) stop == Stop(slice, Len(s)) step == Step(slice)
      taken == {k \in 0..Len(s) - 1 : IF step > 0 THEN start + k * step < stop ELSE start + k * step > stop}
  IN  [k \in 1..Cardinality(taken) |-> s[start + (k - 1) * step + 1]]
Replaced(s, slice, t) ==
  LET start == Start(slice, Len(s)) stop == Stop(slice, Len(s))
  IN  SubSeq(s, 1, start) \o t \o SubSeq(s, (IF stop < start THEN start ELSE stop) + 1, Len(s))

Repeated(s, n) == [k \in 1..Len(s) * (IF n < 0 THEN 0 ELSE n) |-> s[((k - 1) % Len(s)) + 1]]
Inserted(s, n, v) ==
  LET at == Clamp(FromEnd(n, Len(s)), 0, Len(s)) IN SubSeq(s, 1, at) \o <<v>> \o SubSeq(s, at + 1, Len(s))
Removed(s, i) == SubSeq(s, 1, i - 1) \o SubSeq(s, i + 1, Len(s))

\* Only a part of the list, given from left to right, is replaced.
Supported(slice, size) ==
  /\ Step(slice) = 1
  /\ Start(slice, size) < size
  /\ slice.stop = None \/ Start(slice, size) <= FromEnd(slice.stop[2], size)

-----------------------------------------------------------------------------
Running == result = Nothing
Live == DOMAIN vals

Return(r) == Running /\ result' = r /\ UNCHANGED iter
Raise(e) == Running /\ result' = <<"raised", e>> /\ UNCHANGED <<vals, iter>>
New(l, s) ==
  /\ l \notin Live
  /\ vals' = [k \in Live \cup {l} |-> IF k = l THEN s ELSE vals[k]]
  /\ Return(ListOf(l))
Becomes(l, s, r) == vals' = [vals EXCEPT ![l] = s] /\ Return(r)
Reads(r) == UNCHANGED vals /\ Return(r)

AppendItem(l, v) == Becomes(l, Append(vals[l], v), Nothing)
Stops == Running /\ result' = <<"aborted", "assertion">> /\ UNCHANGED <<vals, iter>>
Insert(l, n, v) ==
  IF vals[l] = <<>> /\ n < 0 THEN Stops ELSE Becomes(l, Inserted(vals[l], n, v), Nothing)
Length(l) == Reads(<<"int", Len(vals[l])>>)
Nonempty(l) == Reads(<<"bool", vals[l] # <<>>>>)
Item(l, n, read) ==  \* l[n], l.pop(n)
  IF ~ InRange(n, Len(vals[l])) THEN Raise("IndexError")
  ELSE LET i == Index(n, Len(vals[l]))
       IN  Becomes(l, IF read THEN vals[l] ELSE Removed(vals[l], i), Elem(vals[l][i]))
SetItem(l, n, v) ==
  IF ~ InRange(n, Len(vals[l])) THEN Raise("IndexError")
  ELSE Becomes(l, [vals[l] EXCEPT ![Index(n, Len(vals[l]))] = v], Nothing)
Slice(new, l, slice) == IF Step(slice) = 0 THEN Raise("ValueError") ELSE New(new, Sliced(vals[l], slice))
Repeat(new, l, n) == New(new, Repeated(vals[l], n))
SetSlice(l, slice, v) ==
  IF Step(slice) = 0 THEN Raise("ValueError")
  ELSE \/ Supported(slice, Len(vals[l])) /\ Becomes(l, Replaced(vals[l], slice, vals[v]), Nothing)
       \/ ~ Supported(slice, Len(vals[l])) /\ Stops

Iterate(l) == Running /\ iter = None /\ iter' = [l |-> l, pos |-> 0] /\ UNCHANGED <<vals, result>>
NextItem ==
  /\ Running /\ iter # None /\ UNCHANGED vals
  /\ IF iter.pos < Len(vals[iter.l])
     THEN iter' = [iter EXCEPT !.pos = @ + 1] /\ result' = Elem(vals[iter.l][iter.pos + 1])
     ELSE iter' = None /\ result' = Nothing

Next ==
  \/ \E l \in Lists : New(l, <<>>)
  \/ \E new \in Lists, l \in Live : New(new, vals[l])
  \/ \E l \in Live, v \in Values : AppendItem(l, v)
  \/ \E l \in Live, n \in Indices, v \in Values : Insert(l, n, v)
  \/ \E l \in Live : Item(l, -1, FALSE)
  \/ \E l \in Live, n \in Indices, read \in BOOLEAN : Item(l, n, read)
  \/ \E l \in Live : Length(l) \/ Nonempty(l)
  \/ \E l \in Live, n \in Indices, v \in Values : SetItem(l, n, v)
  \/ \E l \in Live, slice \in SliceArgs, v \in Live : SetSlice(l, slice, v)
  \/ \E new \in Lists, l \in Live, slice \in SliceArgs : Slice(new, l, slice)
  \/ \E new \in Lists, l \in Live, n \in Indices : Repeat(new, l, n)
  \/ \E l \in Live : Iterate(l)
  \/ NextItem
  \/ result[1] \notin {"none", "raised", "aborted"} /\ result' = Nothing /\ UNCHANGED <<vals, iter>>
  \/ \E l \in Live : vals' = [k \in Live \ {l} |-> vals[k]] /\ Return(Nothing)

Spec == Init /\ [][Next]_vars
=============================================================================
