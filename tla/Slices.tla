-------------------------------- MODULE Slices --------------------------------
(* Slices (runtime/util.cpp) and the items of the immutable sequences,        *)
(* tuple.cpp and str.cpp.  An optional integer is <<"int", n>> or None.       *)
EXTENDS Integers, Sequences

CONSTANTS
  CIntBits,  \* of a C int, narrower than an i64
  None

IsInt(n) == n # None

\* int cur = start, and cur += step.
Trunc(n) == ((n + 2^(CIntBits - 1)) % 2^CIntBits) - 2^(CIntBits - 1)

Bound(n, size) == IF n < 0 THEN size + n ELSE n

\* A slice step of 0 raises before the rest is used.
StepOf(slice) == IF IsInt(slice.step) THEN slice.step[2] ELSE 1

\* Without the clamping of a start that is too far to the left.
parseSliceUnclamped(slice, size) ==
  [start |-> IF IsInt(slice.start) THEN Bound(slice.start[2], size) ELSE 0,
   stop |-> IF IsInt(slice.stop) THEN Bound(slice.stop[2], size) ELSE size,
   step |-> StepOf(slice)]
parseSlice(slice, size) ==
  LET istep == StepOf(slice)
      istart == IF IsInt(slice.start) THEN Bound(slice.start[2], size)
                ELSE IF istep > 0 THEN 0 ELSE size - 1
      istop == IF IsInt(slice.stop) THEN Bound(slice.stop[2], size)
               ELSE IF istep > 0 THEN size ELSE -1
  IN [start |-> IF istep > 0 THEN (IF istart < 0 THEN 0 ELSE istart)
                ELSE (IF istart >= size THEN size - 1 ELSE istart),
      stop |-> IF istep > 0 THEN (IF istop > size THEN size ELSE istop)
               ELSE (IF istop < 0 THEN -1 ELSE istop),
      step |-> istep]

\* The loop of _listSlice and _strSlice: cur after k turns, whether it goes on,
\* and how many turns it takes.
Cur(p, k) == Trunc(p.start + k * p.step)
Continues(p, k) == \/ p.step > 0 /\ Cur(p, k) < p.stop
                   \/ p.step < 0 /\ Cur(p, k) > p.stop
Turns(p) == CHOOSE k \in 0..2^CIntBits : ~ Continues(p, k) /\ \A j \in 0..k - 1 : Continues(p, j)

\* Bound: the loop over the indices of a sequence of this size stays within a C int.
NoWrap(p, size) == Trunc(p.start) = p.start /\ \A n \in 0..size - 1 : Trunc(n + p.step) = n + p.step

\* The assertions of _listSlice.
SliceAsserts(p, size) ==
  /\ p.step # 0
  /\ IF p.step > 0 THEN 0 <= p.start /\ p.stop <= size ELSE p.start < size /\ -1 <= p.stop

-----------------------------------------------------------------------------
(* Strings, as sequences of characters, and tuples, as sequences of boxes.    *)

Raises(e) == <<"raised", e>>
Aborts == <<"aborted", "assertion">>
Value(v) == <<"value", v>>

strGetitem(s, n) ==
  LET i == Bound(n, Len(s)) IN IF i < 0 \/ i >= Len(s) THEN Raises("IndexError") ELSE Value(<<s[i + 1]>>)
\* The assertions of _strSlice compare with an unsigned size: no negative number is below it.
StrSliceAsserts(p, size) ==
  /\ p.step # 0
  /\ IF p.step > 0 THEN 0 <= p.start /\ p.stop \in 0..size ELSE p.start \in 0..size - 1 /\ -1 <= p.stop
strSlice(s, slice) ==
  LET p == parseSlice(slice, Len(s))
  IN IF StepOf(slice) = 0 THEN Raises("ValueError")
     ELSE IF ~ StrSliceAsserts(p, Len(s)) THEN Aborts
     ELSE Value([k \in 1..Turns(p) |-> s[Cur(p, k - 1) + 1]])
strAdd(s, t) == Value(s \o t)
strMul(s, n) == IF n < 0 THEN Aborts ELSE Value([k \in 1..Len(s) * n |-> s[((k - 1) % Len(s)) + 1]])
strEq(s, t) == Value(s = t)
strJoin(s, parts) ==  \* parts are the strings that str() makes of the elements of a list
  LET joined[i \in 0..Len(parts)] ==
        IF i = 0 THEN <<>> ELSE IF i = 1 THEN parts[1] ELSE joined[i - 1] \o s \o parts[i]
  IN Value(joined[Len(parts)])

\* A negative index is subtracted from the size, and so is never in range.
tupleGetitem(t, n) ==
  LET i == IF n < 0 THEN Len(t) - n ELSE n
  IN IF i < 0 \/ i >= Len(t) THEN Raises("IndexError") ELSE Value(t[i + 1])

Min2(m, n) == IF m <= n THEN m ELSE n
=============================================================================
