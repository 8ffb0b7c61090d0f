---------------------------- MODULE TieringProofs ----------------------------
(***************************************************************************)
(* Tiers, for any functions, classes, patchpoints, options, thresholds and *)
(* depth of recursion: nobody enters a version that has been replaced, a   *)
(* call runs a version that fits its argument, and nothing moves to a      *)
(* lower tier.                                                             *)
(***************************************************************************)
EXTENDS Tiering, SequenceTheorems, TLAPS

CFType == [f : CLFunctions, sig : Classes, effort : Efforts, parent : Nat,
           times_called : Nat, edgecount : Nat]
CallType == [callee : Callees, site : Sites \cup {NoSite}, chosen : Nat, cf : Nat,
             pc : {"resolved", "entry", "running"}, via : {"plain", "rewriter", "slot"}]
ActivityType == [kind : {"build", "use"}, on : SUBSET Nat, dead : BOOLEAN]

CacheType ==
  /\ target = [s \in Slots |-> target[s]]
  /\ cached = [s \in DOMAIN cached |-> cached[s]]
  /\ DOMAIN cached \subseteq Slots
TypeOK ==
  /\ cfs \in Seq(CFType)
  /\ versions \in [CLFunctions -> Seq(Nat)]
  /\ osr_versions = [f \in CLFunctions |-> osr_versions[f]]
  /\ calls \in Seq(CallType)
  /\ CacheType
  /\ activity \in Seq(ActivityType)

\* v is a compiled version of f.
VersionOf(v, f) == v \in 1..Len(cfs) /\ cfs[v].f = f
ActiveOf(v, f) == v \in Range(versions[f])

VersionsOK ==
  /\ \A f \in CLFunctions : \A i \in 1..Len(versions[f]) : VersionOf(versions[f][i], f)
  /\ OneVersionPerSignature

\* An OSR version continues a version of the same function and signature, and is not
\* of a lower tier.
OSRVersionsOK ==
  \A f \in CLFunctions : \A v \in DOMAIN osr_versions[f] :
    LET w == osr_versions[f][v] IN
    /\ VersionOf(v, f) /\ VersionOf(w, f)
    /\ cfs[w].sig = cfs[v].sig /\ cfs[w].effort >= cfs[v].effort

\* Only the innermost call can be about to enter its version, which is active then.
CallsOK ==
  \A k \in 1..Len(calls) :
    LET c == calls[k] IN
    /\ VersionOf(c.cf, c.callee.f) /\ VersionOf(c.chosen, c.callee.f)
    /\ c.pc # "running" => k = Len(calls) /\ ActiveOf(c.cf, c.callee.f)
    /\ c.pc = "resolved" => c.chosen = c.cf /\ c.via # "slot"

\* The code of a slot relies on the version it calls.
SlotsOK ==
  \A s \in DOMAIN cached :
    /\ target[s] \in [callee : Callees, cf : Nat]
    /\ VersionOf(target[s].cf, target[s].callee.f)
    /\ ActiveOf(target[s].cf, target[s].callee.f)
    /\ ~ IsInterpreted(target[s].cf)
    /\ target[s].cf \in cached[s]

\* at[k] is the number of builders and users among the calls up to the k-th: the
\* activity of call k, if it is one.
Waits(c) == IF c.via = "plain" THEN 0 ELSE 1
Placed(cs, n, at) ==
  /\ at \in [0..Len(cs) -> Nat]
  /\ at[0] = 0 /\ at[Len(cs)] = n
  /\ \A k \in 1..Len(cs) : at[k] = at[k - 1] + Waits(cs[k])
  /\ \A j, k \in 0..Len(cs) : j <= k => at[j] <= at[k]

\* The rewriter of a call relies on the version the call resolved to, and is doomed
\* if that is not active any more.
RewriterOK(c, a) ==
  c.via = "rewriter" /\ c.pc # "resolved" =>
    /\ c.chosen \in a.on
    /\ ~ IsInterpreted(c.chosen)
    /\ a.dead \/ ActiveOf(c.chosen, c.callee.f)
RewritersOK(at) == \A k \in 1..Len(calls) : RewriterOK(calls[k], activity[at[k]])
ActivityOK ==
  \E at : Placed(calls, Len(activity), at) /\ RewritersOK(at)

TierInv == TypeOK /\ VersionsOK /\ OSRVersionsOK /\ CallsOK /\ SlotsOK /\ ActivityOK

\* Without bound methods, versions fit the classes of arguments.
FitOK ==
  /\ \A k \in 1..Len(calls) :
       /\ cfs[calls[k].cf].sig = calls[k].callee.cls
       /\ cfs[calls[k].chosen].sig = calls[k].callee.cls
  /\ \A s \in DOMAIN cached : cfs[target[s].cf].sig = target[s].callee.cls

------------------------------------------------------------------------------
(***************************************************************************)
(* Operators on sequences and versions.                                    *)
(***************************************************************************)
\* The least of one number is that number.
LEMMA MinOfOne ==
  ASSUME NEW i \in Nat
  PROVE  Min({i}) = i
  <1>1. i \in {i} /\ \A y \in {i} : i <= y
    OBVIOUS
  <1>2. Min({i}) \in {i}
    BY <1>1, Zenon DEF Min
  <1> QED BY <1>2

\* Erasing an entry that occurs once and appending a new one.
OnlyAt(seq, v, i) == \A j \in 1..Len(seq) : seq[j] = v <=> j = i

\* A version that is recompiled leaves its place in the list and its successor is last.
LEMMA ReplaceEntry ==
  ASSUME NEW seq \in Seq(Nat), NEW i \in 1..Len(seq), NEW v, OnlyAt(seq, v, i), NEW new \in Nat
  PROVE  /\ Replace(seq, v, new) \in Seq(Nat)
         /\ Len(Replace(seq, v, new)) = Len(seq)
         /\ Replace(seq, v, new)[Len(seq)] = new
         /\ \A k \in 1..(Len(seq) - 1) :
              Replace(seq, v, new)[k] = IF k < i THEN seq[k] ELSE seq[k + 1]
  <1> DEFINE S == {j \in 1..Len(seq) : seq[j] = v}
             left == SubSeq(seq, 1, i - 1)
             right == SubSeq(seq, i + 1, Len(seq))
             rest == left \o right
  <1>1. S = {i}
    BY DEF OnlyAt
  <1>2. Min(S) = i
    BY <1>1, MinOfOne
  <1>3. /\ left \in Seq(Nat) /\ Len(left) = i - 1 /\ \A k \in 1..(i - 1) : left[k] = seq[k]
    <2>1. \A k \in 1..(i - 1) : seq[k] \in Nat
      OBVIOUS
    <2>2. 1 \in Int /\ i - 1 \in Int
      OBVIOUS
    <2> QED BY <2>1, <2>2, SubSeqProperties
  <1>4. /\ right \in Seq(Nat) /\ Len(right) = Len(seq) - i
        /\ \A k \in 1..(Len(seq) - i) : right[k] = seq[i + k]
    <2>1. \A k \in (i + 1)..Len(seq) : seq[k] \in Nat
      OBVIOUS
    <2>2. i + 1 \in Int /\ Len(seq) \in Int
      OBVIOUS
    <2> QED BY <2>1, <2>2, SubSeqProperties, SMTT(30)
  <1>5. Replace(seq, v, new) = Append(rest, new)
    BY <1>2 DEF Replace, RemoveAt
  <1> HIDE DEF left, right
  <1>6. /\ rest \in Seq(Nat) /\ Len(rest) = Len(seq) - 1
        /\ \A k \in 1..(Len(seq) - 1) : rest[k] = IF k < i THEN left[k] ELSE right[k - (i - 1)]
    <2>1. /\ rest \in Seq(Nat) /\ Len(rest) = Len(left) + Len(right)
          /\ \A k \in 1..(Len(left) + Len(right)) :
               rest[k] = IF k <= Len(left) THEN left[k] ELSE right[k - Len(left)]
      BY <1>3, <1>4, ConcatProperties
    <2>2. Len(left) + Len(right) = Len(seq) - 1
      BY <1>3, <1>4
    <2>3. \A k \in 1..(Len(seq) - 1) : k <= i - 1 <=> k < i
      OBVIOUS
    <2> HIDE DEF rest
    <2> QED BY <2>1, <2>2, <2>3, <1>3
  <1> HIDE DEF rest
  <1>7. \A k \in 1..(Len(seq) - 1) : rest[k] = IF k < i THEN seq[k] ELSE seq[k + 1]
    <2> SUFFICES ASSUME NEW k \in 1..(Len(seq) - 1)
                 PROVE  rest[k] = IF k < i THEN seq[k] ELSE seq[k + 1]
      OBVIOUS
    <2>1. CASE k < i
      <3>1. k \in 1..(i - 1)
        BY <2>1
      <3> QED BY <3>1, <2>1, <1>3, <1>6
    <2>2. CASE ~ (k < i)
      <3>1. k - (i - 1) \in 1..(Len(seq) - i) /\ i + (k - (i - 1)) = k + 1
        BY <2>2
      <3> QED BY <3>1, <2>2, <1>4, <1>6
    <2> QED BY <2>1, <2>2
  <1>8. /\ Append(rest, new) \in Seq(Nat) /\ Len(Append(rest, new)) = Len(seq)
        /\ Append(rest, new)[Len(seq)] = new
        /\ \A k \in 1..(Len(seq) - 1) : Append(rest, new)[k] = rest[k]
    BY <1>6
  <1> QED BY <1>5, <1>7, <1>8

\* Compiled functions only come to more, and keep function, signature and effort.
Grown(old, new) ==
  /\ Len(old) <= Len(new)
  /\ \A v \in 1..Len(old) : /\ new[v].f = old[v].f /\ new[v].sig = old[v].sig
                            /\ new[v].effort = old[v].effort

\* Compiling a version adds it behind the others,
LEMMA GrownByOne ==
  ASSUME NEW old \in Seq(CFType), NEW mid \in Seq(CFType), Len(mid) = Len(old),
         Grown(old, mid), NEW cf \in CFType
  PROVE  /\ Append(mid, cf) \in Seq(CFType)
         /\ Grown(old, Append(mid, cf))
         /\ Len(Append(mid, cf)) = Len(old) + 1
         /\ Append(mid, cf)[Len(old) + 1] = cf
  BY DEF Grown

\* a call changes only a counter of a version,
LEMMA GrownByCall ==
  ASSUME NEW old \in Seq(CFType), NEW v \in 1..Len(old), NEW n \in Nat
  PROVE  /\ [old EXCEPT ![v].times_called = n] \in Seq(CFType)
         /\ Len([old EXCEPT ![v].times_called = n]) = Len(old)
         /\ Grown(old, [old EXCEPT ![v].times_called = n])
  <1> DEFINE cf == [old[v] EXCEPT !.times_called = n]
  <1>1. cf \in CFType /\ cf.f = old[v].f /\ cf.sig = old[v].sig /\ cf.effort = old[v].effort
    <2>1. old[v] \in CFType
      BY ElementOfSeq
    <2> QED BY <2>1 DEF CFType
  <1> HIDE DEF cf
  <1> DEFINE new == [old EXCEPT ![v] = cf]
  <1>2. /\ new \in Seq(CFType) /\ Len(new) = Len(old)
        /\ \A j \in 1..Len(old) : new[j] = IF j = v THEN cf ELSE old[j]
    BY <1>1, ExceptSeq
  <1>3. Grown(old, new)
    BY <1>1, <1>2 DEF Grown
  <1> QED BY <1>2, <1>3 DEF cf

\* and so does a backedge.
LEMMA GrownByEdge ==
  ASSUME NEW old \in Seq(CFType), NEW v \in 1..Len(old), NEW n \in Nat
  PROVE  /\ [old EXCEPT ![v].edgecount = n] \in Seq(CFType)
         /\ Len([old EXCEPT ![v].edgecount = n]) = Len(old)
         /\ Grown(old, [old EXCEPT ![v].edgecount = n])
  <1> DEFINE cf == [old[v] EXCEPT !.edgecount = n]
  <1>1. cf \in CFType /\ cf.f = old[v].f /\ cf.sig = old[v].sig /\ cf.effort = old[v].effort
    <2>1. old[v] \in CFType
      BY ElementOfSeq
    <2> QED BY <2>1 DEF CFType
  <1> HIDE DEF cf
  <1> DEFINE new == [old EXCEPT ![v] = cf]
  <1>2. /\ new \in Seq(CFType) /\ Len(new) = Len(old)
        /\ \A j \in 1..Len(old) : new[j] = IF j = v THEN cf ELSE old[j]
    BY <1>1, ExceptSeq
  <1>3. Grown(old, new)
    BY <1>1, <1>2 DEF Grown
  <1> QED BY <1>2, <1>3 DEF cf

\* The activity of a rewriter's call exists, and is not the one of the innermost call.
LEMMA PlacedAt ==
  ASSUME NEW cs \in Seq(CallType), NEW n \in Nat, NEW at, Placed(cs, n, at),
         NEW k \in 1..Len(cs), cs[k].via = "rewriter"
  PROVE  /\ at[k] \in 1..n
         /\ k < Len(cs) => at[k] \in 1..(n - Waits(cs[Len(cs)]))
  <1> DEFINE m == Len(cs)
  <1>1. m \in Nat /\ k \in 0..m /\ k - 1 \in 0..m /\ m \in 0..m /\ m \in 1..m /\ m - 1 \in 0..m
    OBVIOUS
  <1>2. /\ at \in [0..m -> Nat] /\ at[m] = n
        /\ at[k] = at[k - 1] + Waits(cs[k]) /\ at[m] = at[m - 1] + Waits(cs[m])
        /\ at[k] <= at[m] /\ (k < m => at[k] <= at[m - 1])
    <2>1. k <= m /\ (k < m => k <= m - 1)
      BY <1>1
    <2> QED BY <2>1, <1>1 DEF Placed
  <1>3. Waits(cs[k]) = 1 /\ Waits(cs[m]) \in Nat
    BY DEF Waits
  <1>4. at[k] \in Nat /\ at[k - 1] \in Nat /\ at[m - 1] \in Nat
    BY <1>1, <1>2
  <1> HIDE DEF m
  <1>5. at[k] \in 1..n /\ (k < m => at[k] \in 1..(n - Waits(cs[m])))
    BY <1>2, <1>3, <1>4
  <1> QED BY <1>5 DEF m

\* A call is pushed.
LEMMA PushPlaced ==
  ASSUME NEW cs \in Seq(CallType), NEW c \in CallType, NEW n \in Nat,
         NEW at, Placed(cs, n, at)
  PROVE  \E new :
           /\ Placed(Append(cs, c), n + Waits(c), new)
           /\ \A k \in 0..Len(cs) : new[k] = at[k]
  <1> DEFINE m == Len(cs)
             new == [k \in 0..(m + 1) |-> IF k = m + 1 THEN n + Waits(c) ELSE at[k]]
             css == Append(cs, c)
  <1>1. /\ Len(css) = m + 1 /\ css[m + 1] = c
        /\ \A k \in 1..m : css[k] = cs[k]
    OBVIOUS
  <1>2. m \in Nat /\ Waits(c) \in {0, 1} /\ \A k \in 1..m : Waits(cs[k]) \in {0, 1}
    BY DEF Waits
  <1> HIDE DEF css, m
  <1>3. /\ at[0] = 0 /\ at[m] = n /\ at \in [0..m -> Nat]
        /\ \A k \in 1..m : at[k] = at[k - 1] + Waits(cs[k])
        /\ \A j, k \in 0..m : j <= k => at[j] <= at[k]
    BY DEF Placed, m
  <1>4. new \in [0..(m + 1) -> Nat]
    BY <1>2, <1>3
  <1>5. \A k \in 0..m : new[k] = at[k]
    BY <1>2
  <1>6. new[m + 1] = n + Waits(c)
    BY <1>2
  <1> HIDE DEF new
  <1>7. \A k \in 1..(m + 1) : new[k] = new[k - 1] + Waits(css[k])
    <2> SUFFICES ASSUME NEW k \in 1..(m + 1) PROVE new[k] = new[k - 1] + Waits(css[k])
      OBVIOUS
    <2>1. CASE k = m + 1
      <3>1. k - 1 = m /\ m \in 0..m
        BY <2>1, <1>2
      <3> QED BY <3>1, <2>1, <1>1, <1>3, <1>5, <1>6
    <2>2. CASE k # m + 1
      <3>1. k \in 1..m /\ k \in 0..m /\ k - 1 \in 0..m
        BY <2>2, <1>2
      <3> QED BY <3>1, <1>1, <1>3, <1>5
    <2> QED BY <2>1, <2>2
  <1>8. \A j, k \in 0..(m + 1) : j <= k => new[j] <= new[k]
    <2> SUFFICES ASSUME NEW j \in 0..(m + 1), NEW k \in 0..(m + 1), j <= k
                 PROVE  new[j] <= new[k]
      OBVIOUS
    <2>1. CASE k = m + 1
      <3>1. j = m + 1 \/ (j \in 0..m /\ m \in 0..m /\ j <= m)
        BY <2>1, <1>2
      <3> QED BY <3>1, <2>1, <1>2, <1>3, <1>4, <1>5, <1>6
    <2>2. CASE k # m + 1
      <3>1. k \in 0..m /\ j \in 0..m
        BY <2>2, <1>2
      <3> QED BY <3>1, <1>3, <1>5
    <2> QED BY <2>1, <2>2
  <1>9. new[0] = 0
    BY <1>2, <1>3, <1>5
  <1>10. Placed(css, n + Waits(c), new)
    BY <1>1, <1>4, <1>6, <1>7, <1>8, <1>9 DEF Placed
  <1> QED BY <1>1, <1>4, <1>5, <1>10 DEF css, m

\* A call returns.
LEMMA PopPlaced ==
  ASSUME NEW cs \in Seq(CallType), cs # <<>>, NEW n \in Nat,
         NEW at, Placed(cs, n, at)
  PROVE  /\ Front(cs) \in Seq(CallType)
         /\ Len(Front(cs)) = Len(cs) - 1
         /\ \A k \in 1..(Len(cs) - 1) : Front(cs)[k] = cs[k]
         /\ \E new :
              /\ Placed(Front(cs), n - Waits(cs[Len(cs)]), new)
              /\ \A k \in 0..(Len(cs) - 1) : new[k] = at[k]
  <1> DEFINE m == Len(cs) - 1
             new == [k \in 0..m |-> at[k]]
             css == Front(cs)
  <1>1. m \in Nat /\ Len(cs) = m + 1 /\ cs[m + 1] = cs[Len(cs)]
    BY EmptySeq
  <1>2. /\ css \in Seq(CallType) /\ Len(css) = m
        /\ \A k \in 1..m : css[k] = cs[k]
    <2>1. \A k \in 1..(Len(cs) - 1) : cs[k] \in CallType
      BY ElementOfSeq
    <2>2. 1 \in Int /\ Len(cs) - 1 \in Int
      OBVIOUS
    <2> QED BY <2>1, <2>2, <1>1, SubSeqProperties DEF Front
  <1> HIDE DEF css, m
  <1>3. /\ at[0] = 0 /\ at[m + 1] = n
        /\ at \in [0..(m + 1) -> Nat]
        /\ \A k \in 1..(m + 1) : at[k] = at[k - 1] + Waits(cs[k])
        /\ \A j, k \in 0..(m + 1) : j <= k => at[j] <= at[k]
    BY <1>1 DEF Placed
  <1>4. /\ \A k \in 0..m : k \in 0..(m + 1)
        /\ \A k \in 1..m : k \in 1..(m + 1) /\ k \in 0..m /\ k - 1 \in 0..m
        /\ 0 \in 0..m /\ m \in 0..m /\ m + 1 \in 1..(m + 1) /\ (m + 1) - 1 = m
    BY <1>1
  <1>5. new \in [0..m -> Nat] /\ \A k \in 0..m : new[k] = at[k]
    BY <1>3, <1>4
  <1> HIDE DEF new
  <1>6. \A k \in 0..m : at[k] \in Nat
    BY <1>3, <1>4
  <1>7. at[m] = n - Waits(cs[Len(cs)])
    <2>1. at[m + 1] = at[m] + Waits(cs[m + 1])
      BY <1>3, <1>4
    <2>2. Waits(cs[m + 1]) \in Nat /\ at[m] \in Nat
      BY <1>4, <1>6 DEF Waits
    <2> QED BY <2>1, <2>2, <1>1, <1>3
  <1>8. Placed(css, n - Waits(cs[Len(cs)]), new)
    BY <1>2, <1>3, <1>4, <1>5, <1>7 DEF Placed
  <1> QED BY <1>1, <1>2, <1>5, <1>8 DEF css, m

\* The innermost call changes.
TopSet(cs, c, css) ==
  /\ css \in Seq(CallType) /\ Len(css) = Len(cs)
  /\ \A j \in 1..Len(cs) : css[j] = IF j = Len(cs) THEN c ELSE cs[j]

\* A change of the topmost activation moves no pending rewrite below it.
LEMMA TopPlaced ==
  ASSUME NEW cs \in Seq(CallType), cs # <<>>, NEW c \in CallType, NEW n \in Nat,
         NEW at, Placed(cs, n, at), NEW css, TopSet(cs, c, css)
  PROVE  \E new :
           /\ Placed(css, (n - Waits(cs[Len(cs)])) + Waits(c), new)
           /\ \A k \in 0..(Len(cs) - 1) : new[k] = at[k]
  <1>1. /\ Front(cs) \in Seq(CallType) /\ Len(Front(cs)) = Len(cs) - 1
        /\ \A k \in 1..(Len(cs) - 1) : Front(cs)[k] = cs[k]
    BY PopPlaced
  <1>2. PICK mid :
           /\ Placed(Front(cs), n - Waits(cs[Len(cs)]), mid)
           /\ \A k \in 0..(Len(cs) - 1) : mid[k] = at[k]
    BY PopPlaced
  <1>3. Len(cs) \in Nat /\ Len(cs) >= 1
    BY EmptySeq
  <1>4. css = Append(Front(cs), c)
    <2>1. css \in Seq(CallType) /\ Len(css) = Len(cs)
          /\ \A j \in 1..Len(cs) : css[j] = IF j = Len(cs) THEN c ELSE cs[j]
      BY DEF TopSet
    <2>2. /\ Append(Front(cs), c) \in Seq(CallType)
          /\ Len(Append(Front(cs), c)) = Len(cs)
          /\ \A j \in 1..(Len(cs) - 1) : Append(Front(cs), c)[j] = cs[j]
          /\ Append(Front(cs), c)[Len(cs)] = c
      BY <1>1, <1>3, AppendProperties
    <2>3. \A j \in 1..Len(cs) : j = Len(cs) \/ j \in 1..(Len(cs) - 1)
      BY <1>3
    <2>4. \A j \in 1..Len(cs) : css[j] = Append(Front(cs), c)[j]
      BY <2>1, <2>2, <2>3, Zenon
    <2> QED BY <2>1, <2>2, <2>4, SeqEqual
  <1>5. n - Waits(cs[Len(cs)]) \in Nat
    <2>1. Len(Front(cs)) \in 0..Len(Front(cs))
      BY <1>1, <1>3
    <2>2. mid[Len(Front(cs))] = n - Waits(cs[Len(cs)])
      BY <1>2, Zenon DEF Placed
    <2>3. mid \in [0..Len(Front(cs)) -> Nat]
      BY <1>2, Zenon DEF Placed
    <2> QED BY <2>1, <2>2, <2>3
  <1>6. PICK new :
           /\ Placed(css, (n - Waits(cs[Len(cs)])) + Waits(c), new)
           /\ \A k \in 0..Len(Front(cs)) : new[k] = mid[k]
    <2>1. \E new :
            /\ Placed(Append(Front(cs), c), (n - Waits(cs[Len(cs)])) + Waits(c), new)
            /\ \A k \in 0..Len(Front(cs)) : new[k] = mid[k]
      <3>1. PICK r, w : r = Front(cs) /\ w = n - Waits(cs[Len(cs)])
        OBVIOUS
      <3>2. r \in Seq(CallType) /\ w \in Nat /\ Placed(r, w, mid)
        BY <3>1, <1>1, <1>2, <1>5
      <3>3. \E new : /\ Placed(Append(r, c), w + Waits(c), new)
                     /\ \A k \in 0..Len(r) : new[k] = mid[k]
        BY <3>2, PushPlaced
      <3> QED BY <3>1, <3>3
    <2> QED BY <2>1, <1>4
  <1>7. \A k \in 0..(Len(cs) - 1) : new[k] = at[k]
    BY <1>1, <1>2, <1>6, Zenon
  <1> QED BY <1>6, <1>7, Zenon

------------------------------------------------------------------------------
(***************************************************************************)
(* What steps have in common.  cfs grows, and what was active still is.    *)
(***************************************************************************)
StillActive == \A f \in CLFunctions, v \in Nat : ActiveOf(v, f) => ActiveOf(v, f)'

\* A version keeps function, signature and tier.
LEMMA VersionKept ==
  ASSUME cfs \in Seq(CFType), cfs' \in Seq(CFType), Grown(cfs, cfs'),
         NEW v, NEW f, VersionOf(v, f)
  PROVE  /\ VersionOf(v, f)'
         /\ cfs'[v].sig = cfs[v].sig /\ cfs'[v].effort = cfs[v].effort
         /\ IsInterpreted(v)' <=> IsInterpreted(v)
  BY DEF Grown, VersionOf, IsInterpreted

\* A pending rewrite stays on an active version if no version is replaced.
LEMMA RewriterKept ==
  ASSUME cfs \in Seq(CFType), cfs' \in Seq(CFType), Grown(cfs, cfs'), StillActive,
         NEW c \in CallType, VersionOf(c.chosen, c.callee.f), NEW a, RewriterOK(c, a)
  PROVE  RewriterOK(c, a)'
  <1>1. c.callee.f \in CLFunctions /\ c.chosen \in Nat
    BY DEF CallType, Callees
  <1> SUFFICES ASSUME c.via = "rewriter", c.pc # "resolved"
               PROVE  /\ c.chosen \in a.on
                      /\ ~ IsInterpreted(c.chosen)'
                      /\ a.dead \/ ActiveOf(c.chosen, c.callee.f)'
    BY DEF RewriterOK
  <1>2. c.chosen \in a.on /\ ~ IsInterpreted(c.chosen) /\ (a.dead \/ ActiveOf(c.chosen, c.callee.f))
    BY DEF RewriterOK
  <1>3. ~ IsInterpreted(c.chosen)'
    BY <1>2, VersionKept, Zenon
  <1> QED BY <1>1, <1>2, <1>3 DEF StillActive

\* Slots stay on active versions if no version is replaced.
LEMMA SlotsKept ==
  ASSUME TierInv, cfs' \in Seq(CFType), Grown(cfs, cfs'), StillActive,
         UNCHANGED <<target, cached>>
  PROVE  SlotsOK' /\ CacheType'
  <1>1. CacheType'
    BY DEF TierInv, TypeOK, CacheType
  <1> SUFFICES ASSUME NEW s \in DOMAIN cached, NEW t, t = target[s]
               PROVE  /\ t \in [callee : Callees, cf : Nat]
                      /\ VersionOf(t.cf, t.callee.f)'
                      /\ ActiveOf(t.cf, t.callee.f)'
                      /\ ~ IsInterpreted(t.cf)'
                      /\ t.cf \in cached[s]
    BY <1>1 DEF SlotsOK
  <1>2. /\ t \in [callee : Callees, cf : Nat]
        /\ VersionOf(t.cf, t.callee.f) /\ ActiveOf(t.cf, t.callee.f)
        /\ ~ IsInterpreted(t.cf) /\ t.cf \in cached[s]
    BY DEF TierInv, SlotsOK
  <1>3. t.callee.f \in CLFunctions /\ t.cf \in Nat
    BY <1>2 DEF Callees
  <1>4. cfs \in Seq(CFType)
    BY DEF TierInv, TypeOK
  <1>5. VersionOf(t.cf, t.callee.f)' /\ ~ IsInterpreted(t.cf)'
    BY <1>2, <1>4, VersionKept, Zenon
  <1> QED BY <1>2, <1>3, <1>5 DEF StillActive

\* OSR versions stay those of the loop and version they were compiled for.
LEMMA OSRKept ==
  ASSUME TierInv, cfs' \in Seq(CFType), Grown(cfs, cfs'), UNCHANGED osr_versions
  PROVE  OSRVersionsOK'
  <1> SUFFICES ASSUME NEW f \in CLFunctions, NEW v \in DOMAIN osr_versions[f],
                      NEW w, w = osr_versions[f][v]
               PROVE  /\ VersionOf(v, f)' /\ VersionOf(w, f)'
                      /\ cfs'[w].sig = cfs'[v].sig /\ cfs'[w].effort >= cfs'[v].effort
    BY DEF OSRVersionsOK
  <1>1. /\ VersionOf(v, f) /\ VersionOf(w, f)
        /\ cfs[w].sig = cfs[v].sig /\ cfs[w].effort >= cfs[v].effort
    BY DEF TierInv, OSRVersionsOK
  <1>2. cfs \in Seq(CFType)
    BY DEF TierInv, TypeOK
  <1>3. /\ VersionOf(v, f)' /\ cfs'[v].sig = cfs[v].sig /\ cfs'[v].effort = cfs[v].effort
        /\ VersionOf(w, f)' /\ cfs'[w].sig = cfs[w].sig /\ cfs'[w].effort = cfs[w].effort
    BY <1>1, <1>2, VersionKept
  <1> QED BY <1>1, <1>3

\* What a step makes of a call that is still there, and of an active version.
Carried ==
  \A k \in 1..Len(calls) : k <= Len(calls') =>
    /\ calls'[k].callee = calls[k].callee /\ calls'[k].chosen = calls[k].chosen
    /\ cfs'[calls'[k].cf].sig = cfs[calls[k].cf].sig
    /\ cfs'[calls'[k].cf].effort >= cfs[calls[k].cf].effort
Succeeded ==
  \A f \in CLFunctions, v \in Nat : ActiveOf(v, f) =>
    \E w \in Nat : /\ ActiveOf(w, f)' /\ cfs'[w].sig = cfs[v].sig
                   /\ cfs'[w].effort >= cfs[v].effort
StepOK == Grown(cfs, cfs') /\ Carried /\ Succeeded

\* An active version is a compiled one.
LEMMA ActiveIsVersion ==
  ASSUME TierInv, NEW f \in CLFunctions, NEW v, ActiveOf(v, f)
  PROVE  VersionOf(v, f) /\ cfs[v] \in CFType
  <1>1. cfs \in Seq(CFType) /\ versions[f] \in Seq(Nat)
    BY DEF TierInv, TypeOK
  <1>2. PICK i \in 1..Len(versions[f]) : v = versions[f][i]
    BY <1>1 DEF ActiveOf, Range
  <1>3. VersionOf(v, f)
    BY <1>2 DEF TierInv, VersionsOK
  <1> QED BY <1>1, <1>3, ElementOfSeq DEF VersionOf

\* A version that stays active is its own successor.
LEMMA SucceededBySelf ==
  ASSUME TierInv, cfs' \in Seq(CFType), Grown(cfs, cfs'), NEW f \in CLFunctions, NEW v \in Nat,
         ActiveOf(v, f), ActiveOf(v, f)'
  PROVE  \E w \in Nat : /\ ActiveOf(w, f)' /\ cfs'[w].sig = cfs[v].sig
                        /\ cfs'[w].effort >= cfs[v].effort
  <1>1. VersionOf(v, f) /\ cfs[v] \in CFType /\ cfs \in Seq(CFType)
    BY ActiveIsVersion DEF TierInv, TypeOK
  <1>2. cfs'[v].sig = cfs[v].sig /\ cfs'[v].effort = cfs[v].effort
    BY <1>1, VersionKept
  <1>3. cfs[v].effort >= cfs[v].effort
    BY <1>1 DEF CFType, Efforts, INTERPRETED, MAXIMAL
  <1> QED BY <1>2, <1>3

\* A step that keeps the activations and replaces no version.
LEMMA SameStepOK ==
  ASSUME TierInv, cfs' \in Seq(CFType), Grown(cfs, cfs'), StillActive,
         \A k \in 1..Len(calls) : k <= Len(calls') =>
            /\ calls'[k].callee = calls[k].callee /\ calls'[k].chosen = calls[k].chosen
            /\ calls'[k].cf = calls[k].cf
  PROVE  StepOK
  <1>1. cfs \in Seq(CFType)
    BY DEF TierInv, TypeOK
  <1>2. Succeeded
    BY SucceededBySelf DEF Succeeded, StillActive
  <1>3. Carried
    <2> SUFFICES ASSUME NEW k \in 1..Len(calls), k <= Len(calls'), NEW v, v = calls[k].cf
                 PROVE  /\ cfs'[v].sig = cfs[v].sig
                        /\ cfs'[v].effort >= cfs[v].effort
      BY DEF Carried
    <2>1. PICK f : VersionOf(v, f)
      BY DEF TierInv, CallsOK
    <2>2. cfs'[v].sig = cfs[v].sig /\ cfs'[v].effort = cfs[v].effort
      BY <2>1, <1>1, VersionKept
    <2>3. cfs[v] \in CFType
      BY <2>1, <1>1, ElementOfSeq DEF VersionOf
    <2>4. cfs[v].effort >= cfs[v].effort
      BY <2>3, SMTT(30) DEF CFType, Efforts, INTERPRETED, MAXIMAL
    <2> QED BY <2>2, <2>4
  <1> QED BY <1>2, <1>3 DEF StepOK

\* A call of version c.cf is pushed, with its builder or user if it is one.
LEMMA PushKeepsInv ==
  ASSUME TierInv, cfs' \in Seq(CFType), Grown(cfs, cfs'), StillActive,
         versions' \in [CLFunctions -> Seq(Nat)], VersionsOK',
         NEW c \in CallType, calls' = Append(calls, c), InPython,
         c.chosen = c.cf, VersionOf(c.cf, c.callee.f)', ActiveOf(c.cf, c.callee.f)',
         c.pc = "resolved" \/ (c.pc = "entry" /\ c.via = "slot"),
         c.pc = "resolved" => c.via # "slot",
         NEW a \in ActivityType,
         c.via = "plain" => activity' = activity,
         c.via # "plain" => activity' = Append(activity, a),
         UNCHANGED <<osr_versions, target, cached>>
  PROVE  TierInv' /\ StepOK
  <1>1. SlotsOK' /\ CacheType' /\ OSRVersionsOK'
    BY SlotsKept, OSRKept
  <1>2. PICK cs, acts : cs = calls /\ acts = activity
    OBVIOUS
  <1>3. cs \in Seq(CallType) /\ acts \in Seq(ActivityType) /\ cfs \in Seq(CFType)
    BY <1>2 DEF TierInv, TypeOK
  <1>4. /\ calls' = Append(cs, c)
        /\ c.via = "plain" => activity' = acts
        /\ c.via # "plain" => activity' = Append(acts, a)
    BY <1>2
  <1>5. PICK at : /\ Placed(cs, Len(acts), at)
                  /\ \A k \in 1..Len(cs) : RewriterOK(cs[k], acts[at[k]])
    BY <1>2 DEF TierInv, ActivityOK, RewritersOK
  <1>6. \A k \in 1..Len(cs) :
          /\ cs[k] \in CallType
          /\ VersionOf(cs[k].cf, cs[k].callee.f) /\ VersionOf(cs[k].chosen, cs[k].callee.f)
          /\ cs[k].pc = "running"
    <2> SUFFICES ASSUME NEW k \in 1..Len(cs)
                 PROVE  /\ cs[k] \in CallType
                        /\ VersionOf(cs[k].cf, cs[k].callee.f) /\ VersionOf(cs[k].chosen, cs[k].callee.f)
                        /\ cs[k].pc = "running"
      OBVIOUS
    <2>1. /\ cs[k] \in CallType
          /\ VersionOf(cs[k].cf, cs[k].callee.f) /\ VersionOf(cs[k].chosen, cs[k].callee.f)
          /\ cs[k].pc # "running" => k = Len(cs)
      BY <1>2, <1>3 DEF TierInv, CallsOK
    <2>2. cs[Len(cs)].pc = "running"
      BY <1>2, <1>3 DEF InPython, Top
    <2> QED BY <2>1, <2>2
  <1>7. /\ Len(calls') = Len(cs) + 1 /\ calls' \in Seq(CallType)
        /\ calls'[Len(cs) + 1] = c /\ \A k \in 1..Len(cs) : calls'[k] = cs[k]
    BY <1>3, <1>4
  <1>8. /\ activity' \in Seq(ActivityType) /\ Len(activity') = Len(acts) + Waits(c)
        /\ \A j \in 1..Len(acts) : activity'[j] = acts[j]
    <2>1. CASE c.via = "plain"
      BY <2>1, <1>3, <1>4 DEF Waits
    <2>2. CASE c.via # "plain"
      <3>1. activity' = Append(acts, a) /\ Waits(c) = 1
        BY <2>2, <1>4 DEF Waits
      <3> QED BY <3>1, <1>3, AppendProperties
    <2> QED BY <2>1, <2>2
  <1>9. \A k \in 1..Len(calls') : k = Len(cs) + 1 \/ k \in 1..Len(cs)
    BY <1>3, <1>7
  <1>10. \A k \in 1..Len(cs) : \A d : d = cs[k] =>
           VersionOf(d.cf, d.callee.f)' /\ VersionOf(d.chosen, d.callee.f)' /\ d.pc = "running"
    BY <1>3, <1>6, VersionKept
  <1>11. CallsOK'
    <2> SUFFICES ASSUME NEW k \in 1..Len(calls'), NEW d, d = calls'[k]
                 PROVE  /\ VersionOf(d.cf, d.callee.f)' /\ VersionOf(d.chosen, d.callee.f)'
                        /\ d.pc # "running" => k = Len(calls') /\ ActiveOf(d.cf, d.callee.f)'
                        /\ d.pc = "resolved" => d.chosen = d.cf /\ d.via # "slot"
      BY DEF CallsOK
    <2>1. CASE k = Len(cs) + 1
      BY <2>1, <1>7
    <2>2. CASE k \in 1..Len(cs)
      BY <2>2, <1>7, <1>10
    <2> QED BY <2>1, <2>2, <1>9
  <1>12. PICK new : Placed(calls', Len(activity'), new) /\ \A k \in 0..Len(cs) : new[k] = at[k]
    <2>1. Len(acts) \in Nat
      BY <1>3
    <2>2. \E new : /\ Placed(Append(cs, c), Len(acts) + Waits(c), new)
                   /\ \A k \in 0..Len(cs) : new[k] = at[k]
      BY <2>1, <1>3, <1>5, PushPlaced
    <2> QED BY <2>2, <1>4, <1>8
  <1>13. RewritersOK(new)'
    <2> SUFFICES ASSUME NEW k \in 1..Len(calls'), NEW d, NEW b, d = calls'[k], b = activity'[new[k]]
                 PROVE  RewriterOK(d, b)'
      BY DEF RewritersOK
    <2>1. CASE k = Len(cs) + 1
      BY <2>1, <1>7 DEF RewriterOK
    <2>2. CASE k \in 1..Len(cs) /\ d.via # "rewriter"
      BY <2>2 DEF RewriterOK
    <2>3. CASE k \in 1..Len(cs) /\ d.via = "rewriter"
      <3>1. d = cs[k] /\ d \in CallType /\ VersionOf(d.chosen, d.callee.f)
        BY <2>3, <1>6, <1>7
      <3>2. at[k] \in 1..Len(acts)
        BY <2>3, <3>1, <1>3, <1>5, PlacedAt
      <3>3. b = acts[at[k]]
        <4>1. k \in 0..Len(cs)
          BY <2>3
        <4>2. new[k] = at[k]
          BY <4>1, <1>12
        <4> QED BY <4>2, <3>2, <1>8
      <3>4. RewriterOK(d, b)
        BY <2>3, <3>1, <3>3, <1>5
      <3> QED BY <3>1, <3>4, <1>3, RewriterKept, Zenon
    <2> QED BY <2>1, <2>2, <2>3, <1>9
  <1>14. ActivityOK'
    BY <1>12, <1>13 DEF ActivityOK
  <1>15. TypeOK'
    <2>1. osr_versions' = [f \in CLFunctions |-> osr_versions'[f]]
      BY DEF TierInv, TypeOK
    <2> QED BY <1>1, <1>7, <1>8, <2>1 DEF TypeOK
  <1>16. StepOK
    <2>1. \A k \in 1..Len(calls) : calls'[k] = calls[k]
      BY <1>2, <1>7
    <2> QED BY <2>1, SameStepOK
  <1> QED BY <1>1, <1>11, <1>14, <1>15, <1>16 DEF TierInv

\* The stack of builders and users is popped.
LEMMA PopActivity ==
  ASSUME NEW acts \in Seq(ActivityType), acts # <<>>, NEW less,
         less = SubSeq(acts, 1, Len(acts) - 1)
  PROVE  /\ less \in Seq(ActivityType) /\ Len(less) = Len(acts) - 1
         /\ \A j \in 1..(Len(acts) - 1) : less[j] = acts[j]
  <1>1. Len(acts) \in Nat /\ Len(acts) >= 1 /\ 1 \in Int /\ Len(acts) - 1 \in Int
    BY EmptySeq
  <1>2. \A j \in 1..(Len(acts) - 1) : acts[j] \in ActivityType
    BY ElementOfSeq
  <1>3. /\ less \in Seq(ActivityType)
        /\ Len(less) = IF 1 <= Len(acts) - 1 THEN (Len(acts) - 1) - 1 + 1 ELSE 0
        /\ \A j \in 1..((Len(acts) - 1) - 1 + 1) : less[j] = acts[1 + j - 1]
    BY <1>1, <1>2, SubSeqProperties
  <1>4. \A n \in Nat : n >= 1 =>
          /\ n - 1 = IF 1 <= n - 1 THEN (n - 1) - 1 + 1 ELSE 0
          /\ (n - 1) - 1 + 1 = n - 1
          /\ \A j \in 1..(n - 1) : 1 + j - 1 = j
    OBVIOUS
  <1> QED BY <1>1, <1>3, <1>4

\* The innermost call ends, with its builder or user if it is one.
LEMMA PopKeepsInv ==
  ASSUME TierInv, UNCHANGED <<cfs, versions, osr_versions>>, SlotsOK', CacheType',
         calls # <<>>, Top.pc = "running", calls' = Front(calls),
         Top.via = "plain" => activity' = activity,
         Top.via # "plain" => activity # <<>> /\ activity' = Cache!Pop
  PROVE  TierInv' /\ StepOK
  <1>1. PICK cs, acts, t : cs = calls /\ acts = activity /\ t = Top
    OBVIOUS
  <1>2. /\ cs \in Seq(CallType) /\ acts \in Seq(ActivityType) /\ cfs \in Seq(CFType)
        /\ cs # <<>> /\ t = cs[Len(cs)] /\ calls' = Front(cs) /\ t.pc = "running"
    BY <1>1 DEF TierInv, TypeOK, Top
  <1>3. Len(cs) \in Nat /\ Len(cs) >= 1 /\ Len(acts) \in Nat
    BY <1>2, EmptySeq
  <1>4. PICK at : /\ Placed(cs, Len(acts), at)
                  /\ \A k \in 1..Len(cs) : RewriterOK(cs[k], acts[at[k]])
    BY <1>1 DEF TierInv, ActivityOK, RewritersOK
  <1>5. /\ calls' \in Seq(CallType) /\ Len(calls') = Len(cs) - 1
        /\ \A k \in 1..(Len(cs) - 1) : calls'[k] = cs[k]
    BY <1>2, <1>3, <1>4, PopPlaced
  <1>6. PICK new : /\ Placed(calls', Len(acts) - Waits(t), new)
                   /\ \A k \in 0..(Len(cs) - 1) : new[k] = at[k]
    BY <1>2, <1>3, <1>4, PopPlaced
  <1>7. /\ activity' \in Seq(ActivityType) /\ Len(activity') = Len(acts) - Waits(t)
        /\ \A j \in 1..(Len(acts) - Waits(t)) : activity'[j] = acts[j]
    <2>1. CASE t.via = "plain"
      <3>1. activity' = acts /\ Waits(t) = 0
        BY <2>1, <1>1 DEF Waits
      <3> QED BY <3>1, <1>2, <1>3
    <2>2. CASE t.via # "plain"
      <3>1. activity' = SubSeq(acts, 1, Len(acts) - 1) /\ Waits(t) = 1 /\ acts # <<>>
        BY <2>2, <1>1 DEF Waits, Cache!Pop
      <3> QED BY <3>1, <1>2, PopActivity
    <2> QED BY <2>1, <2>2
  <1>8. CallsOK'
    <2> SUFFICES ASSUME NEW k \in 1..Len(calls'), NEW d, d = calls'[k]
                 PROVE  /\ VersionOf(d.cf, d.callee.f)' /\ VersionOf(d.chosen, d.callee.f)'
                        /\ d.pc # "running" => k = Len(calls') /\ ActiveOf(d.cf, d.callee.f)'
                        /\ d.pc = "resolved" => d.chosen = d.cf /\ d.via # "slot"
      BY DEF CallsOK
    <2>1. k \in 1..Len(cs) /\ k # Len(cs) /\ d = cs[k]
      BY <1>3, <1>5
    <2>2. /\ VersionOf(d.cf, d.callee.f) /\ VersionOf(d.chosen, d.callee.f)
          /\ d.pc # "running" => k = Len(cs)
          /\ d.pc = "resolved" => d.chosen = d.cf /\ d.via # "slot"
      BY <2>1, <1>1 DEF TierInv, CallsOK
    <2> QED BY <2>1, <2>2 DEF VersionOf
  <1>9. RewritersOK(new)'
    <2> SUFFICES ASSUME NEW k \in 1..Len(calls'), NEW d, NEW b, d = calls'[k], b = activity'[new[k]]
                 PROVE  RewriterOK(d, b)'
      BY DEF RewritersOK
    <2>1. CASE d.via # "rewriter"
      BY <2>1 DEF RewriterOK
    <2>2. CASE d.via = "rewriter"
      <3>1. k \in 1..Len(cs) /\ k \in 0..(Len(cs) - 1) /\ k < Len(cs) /\ d = cs[k]
        BY <1>3, <1>5
      <3>2. at[k] \in 1..(Len(acts) - Waits(t))
        BY <2>2, <3>1, <1>2, <1>3, <1>4, PlacedAt
      <3>3. b = acts[at[k]]
        BY <3>1, <3>2, <1>6, <1>7
      <3>4. RewriterOK(d, b)
        BY <3>1, <3>3, <1>4
      <3> QED BY <3>4 DEF RewriterOK, IsInterpreted, ActiveOf
    <2> QED BY <2>1, <2>2
  <1>10. ActivityOK'
    BY <1>6, <1>7, <1>9 DEF ActivityOK
  <1>11. TypeOK'
    BY <1>5, <1>7 DEF TierInv, TypeOK
  <1>12. VersionsOK' /\ OSRVersionsOK'
    BY DEF TierInv, VersionsOK, OSRVersionsOK, OneVersionPerSignature, VersionOf
  <1>13. StepOK
    <2>1. \A k \in 1..Len(calls) : k <= Len(calls') => calls'[k] = calls[k]
      BY <1>1, <1>3, <1>5
    <2>2. cfs' \in Seq(CFType) /\ Grown(cfs, cfs') /\ StillActive
      BY <1>2 DEF Grown, StillActive, ActiveOf
    <2> QED BY <2>1, <2>2, SameStepOK
  <1> QED BY <1>8, <1>10, <1>11, <1>12, <1>13 DEF TierInv

\* The innermost call, t, becomes c; the activities below stay useful to their calls.
LEMMA TopKeepsInv ==
  ASSUME TierInv, cfs' \in Seq(CFType), Grown(cfs, cfs'),
         versions' \in [CLFunctions -> Seq(Nat)], VersionsOK',
         osr_versions' = [f \in CLFunctions |-> osr_versions'[f]], OSRVersionsOK',
         SlotsOK', CacheType',
         calls # <<>>, NEW t, t = Top, NEW c \in CallType,
         TopSet(calls, c, calls'),
         VersionOf(c.cf, c.callee.f)', VersionOf(c.chosen, c.callee.f)',
         c.pc # "resolved", c.pc = "entry" => ActiveOf(c.cf, c.callee.f)',
         activity' \in Seq(ActivityType),
         Len(activity') = (Len(activity) - Waits(t)) + Waits(c),
         \A d \in CallType, j \in 1..(Len(activity) - Waits(t)) : \A a, b :
           (/\ a = activity[j] /\ b = activity'[j] /\ VersionOf(d.chosen, d.callee.f)
            /\ RewriterOK(d, a)) => RewriterOK(d, b)',
         \A b : b = activity'[Len(activity')] => RewriterOK(c, b)'
  PROVE  TierInv'
  <1>1. PICK cs, acts : cs = calls /\ acts = activity
    OBVIOUS
  <1>2. /\ cs \in Seq(CallType) /\ acts \in Seq(ActivityType) /\ cfs \in Seq(CFType)
        /\ cs # <<>> /\ t = cs[Len(cs)] /\ TopSet(cs, c, calls')
    BY <1>1 DEF TierInv, TypeOK, Top
  <1>3. Len(cs) \in Nat /\ Len(cs) \in 1..Len(cs) /\ Len(acts) \in Nat
    BY <1>2, EmptySeq
  <1>4. PICK at : /\ Placed(cs, Len(acts), at)
                  /\ \A k \in 1..Len(cs) : RewriterOK(cs[k], acts[at[k]])
    BY <1>1 DEF TierInv, ActivityOK, RewritersOK
  <1>5. /\ calls' \in Seq(CallType) /\ Len(calls') = Len(cs)
        /\ \A k \in 1..Len(cs) : calls'[k] = IF k = Len(cs) THEN c ELSE cs[k]
    BY <1>2 DEF TopSet
  <1>6. PICK new : /\ Placed(calls', (Len(acts) - Waits(t)) + Waits(c), new)
                   /\ \A k \in 0..(Len(cs) - 1) : new[k] = at[k]
    BY <1>2, <1>3, <1>4, TopPlaced
  <1>7. Placed(calls', Len(activity'), new)
    BY <1>1, <1>6
  <1>8. \A k \in 1..Len(cs) :
          /\ cs[k] \in CallType
          /\ VersionOf(cs[k].cf, cs[k].callee.f) /\ VersionOf(cs[k].chosen, cs[k].callee.f)
          /\ cs[k].pc # "running" => k = Len(cs)
    BY <1>1, <1>2, ElementOfSeq DEF TierInv, CallsOK
  <1>9. CallsOK'
    <2> SUFFICES ASSUME NEW k \in 1..Len(calls'), NEW d, d = calls'[k]
                 PROVE  /\ VersionOf(d.cf, d.callee.f)' /\ VersionOf(d.chosen, d.callee.f)'
                        /\ d.pc # "running" => k = Len(calls') /\ ActiveOf(d.cf, d.callee.f)'
                        /\ d.pc = "resolved" => d.chosen = d.cf /\ d.via # "slot"
      BY DEF CallsOK
    <2>1. CASE k = Len(cs)
      <3>1. d = c /\ k = Len(calls') /\ c.pc \in {"resolved", "entry", "running"}
        BY <2>1, <1>3, <1>5 DEF CallType
      <3> QED BY <3>1
    <2>2. CASE k # Len(cs)
      <3>1. d = cs[k] /\ k \in 1..Len(cs)
        BY <2>2, <1>5
      <3>2. VersionOf(d.cf, d.callee.f) /\ VersionOf(d.chosen, d.callee.f) /\ d.pc = "running"
        BY <2>2, <3>1, <1>8
      <3>3. VersionOf(d.cf, d.callee.f)' /\ VersionOf(d.chosen, d.callee.f)'
        BY <3>2, <1>2, VersionKept
      <3> QED BY <3>2, <3>3
    <2> QED BY <2>1, <2>2
  <1>10. RewritersOK(new)'
    <2> SUFFICES ASSUME NEW k \in 1..Len(calls'), NEW d, NEW b, d = calls'[k], b = activity'[new[k]]
                 PROVE  RewriterOK(d, b)'
      BY DEF RewritersOK
    <2>1. CASE k = Len(cs)
      <3>1. d = c
        BY <2>1, <1>3, <1>5
      <3>2. new[k] = Len(activity')
        BY <2>1, <1>5, <1>7 DEF Placed
      <3> QED BY <3>1, <3>2
    <2>2. CASE k # Len(cs) /\ d.via # "rewriter"
      BY <2>2 DEF RewriterOK
    <2>3. CASE k # Len(cs) /\ d.via = "rewriter"
      <3>1. k \in 1..Len(cs) /\ k \in 0..(Len(cs) - 1) /\ k < Len(cs) /\ d = cs[k]
        BY <2>3, <1>3, <1>5
      <3>2. at[k] \in 1..(Len(acts) - Waits(t))
        BY <2>3, <3>1, <1>2, <1>3, <1>4, PlacedAt
      <3>3. b = activity'[at[k]]
        BY <3>1, <1>6
      <3>4. d \in CallType /\ VersionOf(d.chosen, d.callee.f) /\ RewriterOK(d, acts[at[k]])
        BY <3>1, <1>4, <1>8
      <3> QED BY <3>2, <3>3, <3>4, <1>1
    <2> QED BY <2>1, <2>2, <2>3
  <1>11. ActivityOK'
    BY <1>7, <1>10 DEF ActivityOK
  <1>12. TypeOK'
    BY <1>5 DEF TypeOK
  <1> QED BY <1>9, <1>11, <1>12 DEF TierInv

\* A step that moves the topmost activation to a version of the same signature and no
\* lower tier.
LEMMA TopCarried ==
  ASSUME TierInv, cfs' \in Seq(CFType), Grown(cfs, cfs'), calls # <<>>, NEW t, t = Top, NEW c,
         TopSet(calls, c, calls'), c.callee = t.callee, c.chosen = t.chosen,
         cfs'[c.cf].sig = cfs[t.cf].sig, cfs'[c.cf].effort >= cfs[t.cf].effort
  PROVE  Carried
  <1>1. cfs \in Seq(CFType) /\ calls \in Seq(CallType)
    BY DEF TierInv, TypeOK
  <1> SUFFICES ASSUME NEW k \in 1..Len(calls)
               PROVE  /\ calls'[k].callee = calls[k].callee /\ calls'[k].chosen = calls[k].chosen
                      /\ cfs'[calls'[k].cf].sig = cfs[calls[k].cf].sig
                      /\ cfs'[calls'[k].cf].effort >= cfs[calls[k].cf].effort
    BY DEF Carried
  <1>2. CASE k = Len(calls)
    <2>1. calls'[k] = c /\ calls[k] = t
      BY <1>2 DEF TopSet, Top
    <2> QED BY <2>1
  <1>3. CASE k # Len(calls)
    <2>1. calls'[k] = calls[k]
      BY <1>3 DEF TopSet
    <2>2. PICK v, f : v = calls[k].cf /\ VersionOf(v, f)
      BY DEF TierInv, CallsOK
    <2>3. cfs'[v].sig = cfs[v].sig /\ cfs'[v].effort = cfs[v].effort
      BY <2>2, <1>1, VersionKept
    <2>4. cfs[v] \in CFType
      BY <2>2, <1>1, ElementOfSeq DEF VersionOf
    <2>5. cfs[v].effort >= cfs[v].effort
      BY <2>4 DEF CFType, Efforts, INTERPRETED, MAXIMAL
    <2> QED BY <2>1, <2>2, <2>3, <2>5
  <1> QED BY <1>2, <1>3

\* The innermost call keeps its version.
LEMMA SameTopStepOK ==
  ASSUME TierInv, cfs' \in Seq(CFType), Grown(cfs, cfs'), StillActive, calls # <<>>,
         NEW t, t = Top, NEW c, TopSet(calls, c, calls'),
         c.callee = t.callee, c.chosen = t.chosen, c.cf = t.cf
  PROVE  StepOK
  <1>1. \A k \in 1..Len(calls) : /\ calls'[k].callee = calls[k].callee
                                 /\ calls'[k].chosen = calls[k].chosen
                                 /\ calls'[k].cf = calls[k].cf
    <2> SUFFICES ASSUME NEW k \in 1..Len(calls)
                 PROVE  /\ calls'[k].callee = calls[k].callee
                        /\ calls'[k].chosen = calls[k].chosen
                        /\ calls'[k].cf = calls[k].cf
      OBVIOUS
    <2>1. CASE k = Len(calls)
      BY <2>1 DEF TopSet, Top
    <2>2. CASE k # Len(calls)
      BY <2>2 DEF TopSet
    <2> QED BY <2>1, <2>2
  <1> QED BY <1>1, SameStepOK

\* Setting fields of the innermost call.
LEMMA ExceptTop ==
  ASSUME NEW cs \in Seq(CallType), cs # <<>>, NEW c \in CallType
  PROVE  TopSet(cs, c, [cs EXCEPT ![Len(cs)] = c])
  <1>1. Len(cs) \in 1..Len(cs)
    BY EmptySeq
  <1> QED BY <1>1, ExceptSeq DEF TopSet

\* The topmost activation.
LEMMA TopIsCall ==
  ASSUME NEW cs \in Seq(CallType), cs # <<>>
  PROVE  Len(cs) \in 1..Len(cs) /\ cs[Len(cs)] \in CallType
  <1>1. Len(cs) \in 1..Len(cs)
    BY EmptySeq
  <1> QED BY <1>1, ElementOfSeq

WithPc(cs, pc) == [cs EXCEPT ![Len(cs)].pc = pc]
WithPlainEntry(cs) == [cs EXCEPT ![Len(cs)].pc = "entry", ![Len(cs)].via = "plain"]
WithCf(cs, v) == [cs EXCEPT ![Len(cs)].cf = v]

\* The topmost activation after a step of its program counter,
LEMMA SetTopPc ==
  ASSUME NEW cs \in Seq(CallType), cs # <<>>, NEW pc \in {"entry", "running"},
         NEW t, t = cs[Len(cs)], NEW css, css = WithPc(cs, pc)
  PROVE  \E c \in CallType :
           /\ TopSet(cs, c, css)
           /\ c.pc = pc /\ c.callee = t.callee /\ c.cf = t.cf
           /\ c.chosen = t.chosen /\ c.via = t.via
  <1> DEFINE c == [cs[Len(cs)] EXCEPT !.pc = pc]
  <1>1. cs[Len(cs)] \in CallType
    BY TopIsCall
  <1>2. /\ c \in CallType /\ c.pc = pc /\ c.callee = t.callee /\ c.cf = t.cf
        /\ c.chosen = t.chosen /\ c.via = t.via
    BY <1>1 DEF CallType
  <1> HIDE DEF c
  <1>3. TopSet(cs, c, [cs EXCEPT ![Len(cs)] = c])
    BY <1>2, ExceptTop
  <1>4. css = [cs EXCEPT ![Len(cs)] = c]
    BY DEF c, WithPc
  <1> QED BY <1>2, <1>3, <1>4

\* after it was entered by an ordinary call,
LEMMA SetTopPlain ==
  ASSUME NEW cs \in Seq(CallType), cs # <<>>, NEW t, t = cs[Len(cs)], NEW css,
         css = WithPlainEntry(cs)
  PROVE  \E c \in CallType :
           /\ TopSet(cs, c, css)
           /\ c.pc = "entry" /\ c.callee = t.callee /\ c.cf = t.cf
           /\ c.chosen = t.chosen /\ c.via = "plain"
  <1> DEFINE c == [cs[Len(cs)] EXCEPT !.pc = "entry", !.via = "plain"]
  <1>1. cs[Len(cs)] \in CallType /\ Len(cs) \in 1..Len(cs) /\ cs \in [1..Len(cs) -> CallType]
    BY TopIsCall, LenProperties
  <1>2. /\ c \in CallType /\ c.pc = "entry" /\ c.callee = t.callee /\ c.cf = t.cf
        /\ c.chosen = t.chosen /\ c.via = "plain"
    BY <1>1 DEF CallType
  <1>3. css = [cs EXCEPT ![Len(cs)] = c]
    BY <1>1 DEF WithPlainEntry
  <1> HIDE DEF c
  <1>4. TopSet(cs, c, [cs EXCEPT ![Len(cs)] = c])
    BY <1>2, ExceptTop
  <1> QED BY <1>2, <1>3, <1>4

\* and after it moved to another version.
LEMMA SetTopCf ==
  ASSUME NEW cs \in Seq(CallType), cs # <<>>, NEW v \in Nat, NEW t, t = cs[Len(cs)],
         NEW css, css = WithCf(cs, v)
  PROVE  \E c \in CallType :
           /\ TopSet(cs, c, css)
           /\ c.pc = t.pc /\ c.callee = t.callee /\ c.cf = v
           /\ c.chosen = t.chosen /\ c.via = t.via
  <1> DEFINE c == [cs[Len(cs)] EXCEPT !.cf = v]
  <1>1. cs[Len(cs)] \in CallType
    BY TopIsCall
  <1>2. /\ c \in CallType /\ c.pc = t.pc /\ c.callee = t.callee /\ c.cf = v
        /\ c.chosen = t.chosen /\ c.via = t.via
    BY <1>1 DEF CallType
  <1> HIDE DEF c
  <1>3. TopSet(cs, c, [cs EXCEPT ![Len(cs)] = c])
    BY <1>2, ExceptTop
  <1>4. css = [cs EXCEPT ![Len(cs)] = c]
    BY DEF c, WithCf
  <1> QED BY <1>2, <1>3, <1>4

\* A step that leaves the lists of versions alone.
LEMMA VersionsKept ==
  ASSUME TierInv, cfs' \in Seq(CFType), Grown(cfs, cfs'), UNCHANGED versions
  PROVE  VersionsOK' /\ StillActive /\ versions' \in [CLFunctions -> Seq(Nat)]
  <1>1. versions' \in [CLFunctions -> Seq(Nat)] /\ StillActive
    BY DEF TierInv, TypeOK, StillActive, ActiveOf
  <1>2. cfs \in Seq(CFType)
    BY DEF TierInv, TypeOK
  <1>3. \A f \in CLFunctions : \A i \in 1..Len(versions[f]) :
          VersionOf(versions[f][i], f)
    BY DEF TierInv, VersionsOK
  <1>4. \A f \in CLFunctions : \A i \in 1..Len(versions[f]) :
          \A v : v = versions[f][i] => VersionOf(v, f)' /\ cfs'[v].sig = cfs[v].sig
    BY <1>2, <1>3, VersionKept
  <1>5. \A f \in CLFunctions : \A i \in 1..Len(versions'[f]) :
          VersionOf(versions[f][i], f)'
    BY <1>4 DEF VersionOf
  <1>6. OneVersionPerSignature'
    BY <1>4 DEF TierInv, VersionsOK, OneVersionPerSignature
  <1> QED BY <1>1, <1>5, <1>6 DEF VersionsOK, VersionOf

\* What the innermost call and its activity are like.
LEMMA TopFacts ==
  ASSUME TierInv, calls # <<>>, NEW t, t = Top
  PROVE  /\ t \in CallType /\ t.callee.f \in CLFunctions
         /\ VersionOf(t.cf, t.callee.f) /\ VersionOf(t.chosen, t.callee.f)
         /\ cfs[t.cf] \in CFType
         /\ t.pc # "running" => ActiveOf(t.cf, t.callee.f)
         /\ t.pc = "resolved" => t.chosen = t.cf /\ t.via # "slot"
         /\ RewriterOK(t, activity[Len(activity)])
         /\ Len(activity) \in Nat /\ Len(activity) - Waits(t) \in Nat
  <1>1. calls \in Seq(CallType) /\ cfs \in Seq(CFType) /\ activity \in Seq(ActivityType)
    BY DEF TierInv, TypeOK
  <1>2. Len(calls) \in 1..Len(calls) /\ t \in CallType /\ t = calls[Len(calls)]
    BY <1>1, TopIsCall DEF Top
  <1>3. t.callee.f \in CLFunctions
    BY <1>2 DEF CallType, Callees
  <1>4. /\ VersionOf(t.cf, t.callee.f) /\ VersionOf(t.chosen, t.callee.f)
        /\ t.pc # "running" => ActiveOf(t.cf, t.callee.f)
        /\ t.pc = "resolved" => t.chosen = t.cf /\ t.via # "slot"
    BY <1>2 DEF TierInv, CallsOK
  <1>5. cfs[t.cf] \in CFType
    BY <1>1, <1>4, ElementOfSeq DEF VersionOf
  <1>6. PICK at : /\ Placed(calls, Len(activity), at)
                  /\ \A k \in 1..Len(calls) : RewriterOK(calls[k], activity[at[k]])
    BY DEF TierInv, ActivityOK, RewritersOK
  <1>7. at[Len(calls)] = Len(activity)
    BY <1>6 DEF Placed
  <1>8. Len(activity) - Waits(t) \in Nat
    <2>1. PICK n : n = Len(calls)
      OBVIOUS
    <2>2. at \in [0..n -> Nat] /\ at[n] = at[n - 1] + Waits(t) /\ n - 1 \in 0..n /\ n \in 0..n
      BY <2>1, <1>2, <1>6 DEF Placed
    <2>3. at[n - 1] \in Nat /\ at[n] = Len(activity) /\ Waits(t) \in Nat
      BY <2>1, <2>2, <1>7 DEF Waits
    <2> QED BY <2>2, <2>3
  <1>9. Len(activity) \in Nat
    BY <1>1
  <1> QED BY <1>2, <1>3, <1>4, <1>5, <1>6, <1>7, <1>8, <1>9

\* A version counts its call and its body begins.
LEMMA EnterBodyKeepsInv ==
  ASSUME TieringAssumption, TierInv, EnterBody
  PROVE  TierInv' /\ StepOK
  <1>1. PICK t, cs, v : t = Top /\ cs = calls /\ v = t.cf
    OBVIOUS
  <1>2. calls # <<>> /\ t.pc = "entry" /\ cs \in Seq(CallType) /\ t = cs[Len(cs)] /\ cs # <<>>
    BY <1>1 DEF EnterBody, TierInv, TypeOK, Top
  <1>3. /\ t \in CallType /\ t.callee.f \in CLFunctions
        /\ VersionOf(t.cf, t.callee.f) /\ VersionOf(t.chosen, t.callee.f)
        /\ cfs[v] \in CFType /\ ActiveOf(t.cf, t.callee.f)
        /\ RewriterOK(t, activity[Len(activity)])
        /\ Len(activity) \in Nat /\ Len(activity) - Waits(t) \in Nat
    BY <1>1, <1>2, TopFacts
  <1>4. cfs \in Seq(CFType) /\ v \in 1..Len(cfs)
    BY <1>1, <1>3 DEF TierInv, TypeOK, VersionOf
  <1>5. cfs' \in Seq(CFType) /\ Grown(cfs, cfs')
    <2>1. PICK old, n : old = cfs /\ n = cfs[v].times_called + 1
      OBVIOUS
    <2>2. n \in Nat
      BY <2>1, <1>3 DEF CFType
    <2>3. cfs' = old \/ cfs' = [old EXCEPT ![v].times_called = n]
      BY <2>1, <1>1 DEF EnterBody
    <2>4. /\ [old EXCEPT ![v].times_called = n] \in Seq(CFType)
          /\ Grown(old, [old EXCEPT ![v].times_called = n])
      BY <2>1, <2>2, <1>4, GrownByCall
    <2>5. Grown(old, old)
      BY <2>1, <1>4 DEF Grown
    <2> QED BY <2>1, <2>3, <2>4, <2>5, <1>4
  <1>6. UNCHANGED <<versions, osr_versions, target, cached, activity>>
    BY DEF EnterBody
  <1>7. /\ VersionsOK' /\ StillActive /\ versions' \in [CLFunctions -> Seq(Nat)]
        /\ SlotsOK' /\ CacheType' /\ OSRVersionsOK'
    BY <1>5, <1>6, VersionsKept, SlotsKept, OSRKept
  <1>8. PICK c \in CallType :
           /\ TopSet(cs, c, calls') /\ c.pc = "running" /\ c.callee = t.callee
           /\ c.cf = t.cf /\ c.chosen = t.chosen /\ c.via = t.via
    <2>1. calls' = WithPc(cs, "running")
      BY <1>1 DEF EnterBody, WithPc
    <2> QED BY <2>1, <1>2, SetTopPc
  <1>9. /\ VersionOf(c.cf, c.callee.f)' /\ VersionOf(c.chosen, c.callee.f)'
    BY <1>3, <1>4, <1>5, <1>8, VersionKept
  <1>10. \A d \in CallType, j \in 1..(Len(activity) - Waits(t)) : \A a, b :
           (/\ a = activity[j] /\ b = activity'[j] /\ VersionOf(d.chosen, d.callee.f)
            /\ RewriterOK(d, a)) => RewriterOK(d, b)'
    BY <1>4, <1>5, <1>6, <1>7, RewriterKept
  <1>11. \A b : b = activity'[Len(activity')] => RewriterOK(c, b)'
    <2>1. PICK b : b = activity[Len(activity)]
      OBVIOUS
    <2>2. RewriterOK(c, b)
      BY <2>1, <1>2, <1>3, <1>8 DEF RewriterOK
    <2>3. VersionOf(c.chosen, c.callee.f)
      BY <1>3, <1>8
    <2>4. RewriterOK(c, b)'
      BY <2>2, <2>3, <1>4, <1>5, <1>7, RewriterKept
    <2> QED BY <2>1, <2>4, <1>6
  <1>12. /\ activity' \in Seq(ActivityType)
         /\ Len(activity') = (Len(activity) - Waits(t)) + Waits(c)
         /\ osr_versions' = [f \in CLFunctions |-> osr_versions'[f]]
    <2>1. Waits(c) = Waits(t) /\ Waits(t) \in Nat
      BY <1>8 DEF Waits
    <2> QED BY <2>1, <1>3, <1>6 DEF TierInv, TypeOK
  <1>13. TopSet(calls, c, calls')
    BY <1>1, <1>8
  <1>14. StepOK
    BY <1>1, <1>2, <1>5, <1>7, <1>8, <1>13, SameTopStepOK
  <1>15. TierInv'
    BY <1>1, <1>2, <1>5, <1>7, <1>8, <1>9, <1>10, <1>11, <1>12, <1>13, TopKeepsInv
  <1> QED BY <1>14, <1>15

\* The builder on top relies on one more version.
WithOn(acts, v) == [acts EXCEPT ![Len(acts)].on = @ \cup {v}]

\* The topmost pending rewrite relies on one version more.
LEMMA RelyActivity ==
  ASSUME NEW acts \in Seq(ActivityType), acts # <<>>, NEW v \in Nat, NEW more,
         more = WithOn(acts, v)
  PROVE  /\ more \in Seq(ActivityType) /\ Len(more) = Len(acts)
         /\ \A j \in 1..(Len(acts) - 1) : more[j] = acts[j]
         /\ v \in more[Len(acts)].on
  <1> DEFINE a == [acts[Len(acts)] EXCEPT !.on = @ \cup {v}]
  <1>1. Len(acts) \in 1..Len(acts)
    BY EmptySeq
  <1>2. acts[Len(acts)] \in ActivityType
    BY <1>1, ElementOfSeq
  <1>3. a \in ActivityType /\ v \in a.on
    BY <1>2 DEF ActivityType
  <1>4. more = [acts EXCEPT ![Len(acts)] = a]
    BY DEF WithOn
  <1> HIDE DEF a
  <1>5. /\ more \in Seq(ActivityType) /\ Len(more) = Len(acts)
        /\ \A j \in 1..Len(acts) : more[j] = IF j = Len(acts) THEN a ELSE acts[j]
    BY <1>1, <1>3, <1>4, ExceptSeq
  <1> QED BY <1>1, <1>3, <1>5

\* runtimeCall has chosen a version and registers the dependence of its rewrite on it.
LEMMA PrepareCallKeepsInv ==
  ASSUME TierInv, PrepareCall
  PROVE  TierInv' /\ StepOK
  <1>1. PICK t, cs : t = Top /\ cs = calls
    OBVIOUS
  <1>2. calls # <<>> /\ t.pc = "resolved" /\ cs \in Seq(CallType) /\ t = cs[Len(cs)] /\ cs # <<>>
    BY <1>1 DEF PrepareCall, TierInv, TypeOK, Top
  <1>3. /\ t \in CallType /\ t.callee.f \in CLFunctions
        /\ VersionOf(t.cf, t.callee.f) /\ t.chosen = t.cf
        /\ ActiveOf(t.cf, t.callee.f)
        /\ Len(activity) \in Nat /\ Len(activity) - Waits(t) \in Nat
    BY <1>1, <1>2, TopFacts
  <1>4. UNCHANGED <<cfs, versions, osr_versions, target>> /\ cfs' \in Seq(CFType) /\ Grown(cfs, cfs')
    BY DEF PrepareCall, TierInv, TypeOK, Grown
  <1>5. cached' = cached
    BY DEF PrepareCall, Cache!GiveUp, Cache!Rely, cacheVars
  <1>6. /\ VersionsOK' /\ StillActive /\ versions' \in [CLFunctions -> Seq(Nat)]
        /\ SlotsOK' /\ CacheType' /\ OSRVersionsOK'
    BY <1>4, <1>5, VersionsKept, SlotsKept, OSRKept
  <1>7. cfs \in Seq(CFType) /\ activity \in Seq(ActivityType)
        /\ osr_versions' = [f \in CLFunctions |-> osr_versions'[f]]
    BY <1>4 DEF TierInv, TypeOK
  <1>8. ASSUME NEW c \in CallType, TopSet(cs, c, calls'),
               c.pc = "entry", c.callee = t.callee, c.cf = t.cf, c.chosen = t.chosen,
               activity' \in Seq(ActivityType),
               Len(activity') = (Len(activity) - Waits(t)) + Waits(c),
               \A j \in 1..(Len(activity) - Waits(t)) : activity'[j] = activity[j],
               \A b : b = activity'[Len(activity')] => RewriterOK(c, b)
        PROVE  TierInv' /\ StepOK
    <2>1. VersionOf(c.cf, c.callee.f)' /\ VersionOf(c.chosen, c.callee.f)'
      BY <1>3, <1>4, <1>7, <1>8, VersionKept
    <2>2. ActiveOf(c.cf, c.callee.f)'
      BY <1>3, <1>4, <1>8 DEF ActiveOf
    <2>3. \A d \in CallType, j \in 1..(Len(activity) - Waits(t)) : \A a, b :
             (/\ a = activity[j] /\ b = activity'[j] /\ VersionOf(d.chosen, d.callee.f)
              /\ RewriterOK(d, a)) => RewriterOK(d, b)'
      BY <1>4, <1>6, <1>7, <1>8, RewriterKept
    <2>4. \A b : b = activity'[Len(activity')] => RewriterOK(c, b)'
      BY <1>4, <1>8 DEF RewriterOK, IsInterpreted, ActiveOf
    <2>5. TopSet(calls, c, calls') /\ c.pc # "resolved"
      BY <1>1, <1>8
    <2>6. TierInv'
      BY <1>1, <1>2, <1>4, <1>6, <1>7, <1>8, <2>1, <2>2, <2>3, <2>4, <2>5, TopKeepsInv
    <2>7. StepOK
      BY <1>1, <1>2, <1>4, <1>6, <1>8, <2>5, SameTopStepOK
    <2> QED BY <2>6, <2>7
  <1>9. CASE t.via = "plain"
    <2>1. calls' = WithPc(cs, "entry") /\ activity' = activity
      BY <1>1, <1>9 DEF PrepareCall, WithPc, cacheVars
    <2>2. PICK c \in CallType :
           /\ TopSet(cs, c, calls') /\ c.pc = "entry" /\ c.callee = t.callee
           /\ c.cf = t.cf /\ c.chosen = t.chosen /\ c.via = t.via
      BY <2>1, <1>2, SetTopPc
    <2>3. Waits(t) = 0 /\ Waits(c) = 0
      BY <2>2, <1>9 DEF Waits
    <2>4. \A b : RewriterOK(c, b)
      BY <2>2, <1>9 DEF RewriterOK
    <2> QED BY <2>1, <2>2, <2>3, <2>4, <1>3, <1>7, <1>8
  <1>10. CASE t.via = "rewriter" /\ IsInterpreted(t.cf)
    <2>1. calls' = WithPlainEntry(cs) /\ activity # <<>>
          /\ activity' = SubSeq(activity, 1, Len(activity) - 1)
      BY <1>1, <1>10 DEF PrepareCall, WithPlainEntry, Cache!GiveUp, Cache!Building, Cache!Pop
    <2>2. PICK c \in CallType :
           /\ TopSet(cs, c, calls') /\ c.pc = "entry" /\ c.callee = t.callee
           /\ c.cf = t.cf /\ c.chosen = t.chosen /\ c.via = "plain"
      BY <2>1, <1>2, SetTopPlain
    <2>3. Waits(t) = 1 /\ Waits(c) = 0
      BY <2>2, <1>10 DEF Waits
    <2>4. \A b : RewriterOK(c, b)
      BY <2>2 DEF RewriterOK
    <2>5. /\ activity' \in Seq(ActivityType) /\ Len(activity') = Len(activity) - 1
          /\ \A j \in 1..(Len(activity) - 1) : activity'[j] = activity[j]
      BY <2>1, <1>7, PopActivity
    <2> QED BY <2>2, <2>3, <2>4, <2>5, <1>3, <1>8
  <1>11. CASE t.via = "rewriter" /\ ~ IsInterpreted(t.cf)
    <2>1. calls' = WithPc(cs, "entry") /\ activity # <<>>
          /\ activity' = WithOn(activity, t.cf)
      BY <1>1, <1>11 DEF PrepareCall, WithPc, WithOn, Cache!Rely, Cache!Building
    <2>2. PICK c \in CallType :
           /\ TopSet(cs, c, calls') /\ c.pc = "entry" /\ c.callee = t.callee
           /\ c.cf = t.cf /\ c.chosen = t.chosen /\ c.via = t.via
      BY <2>1, <1>2, SetTopPc
    <2>3. Waits(t) = 1 /\ Waits(c) = 1 /\ t.cf \in Nat
      BY <2>2, <1>3, <1>11 DEF Waits, CallType
    <2>4. /\ activity' \in Seq(ActivityType) /\ Len(activity') = Len(activity)
          /\ \A j \in 1..(Len(activity) - 1) : activity'[j] = activity[j]
          /\ t.cf \in activity'[Len(activity)].on
      BY <2>1, <2>3, <1>7, RelyActivity
    <2>5. \A b : b = activity'[Len(activity')] => RewriterOK(c, b)
      BY <2>2, <2>4, <1>3, <1>11 DEF RewriterOK
    <2>6. Len(activity') = (Len(activity) - Waits(t)) + Waits(c)
      BY <2>3, <2>4, <1>3
    <2> QED BY <2>2, <2>3, <2>4, <2>5, <2>6, <1>8
  <1> QED BY <1>1, <1>9, <1>10, <1>11 DEF PrepareCall

\* An activation returns, or its rewrite is given up.
LEMMA ReturnKeepsInv ==
  ASSUME TierInv, NoCommit \/ Return
  PROVE  TierInv' /\ StepOK
  <1>1. /\ calls # <<>> /\ Top.pc = "running" /\ calls' = Front(calls)
        /\ UNCHANGED <<cfs, versions, osr_versions, target>>
    BY DEF NoCommit, Return
  <1>2. UNCHANGED cached
    BY DEF NoCommit, Return, Cache!GiveUp, Cache!Finish, cacheVars
  <1>3. SlotsOK' /\ CacheType'
    BY <1>1, <1>2 DEF TierInv, TypeOK, CacheType, SlotsOK, VersionOf, ActiveOf, IsInterpreted
  <1>4. Top.via = "plain" => activity' = activity
    BY DEF NoCommit, Return, cacheVars
  <1>5. Top.via # "plain" => activity # <<>> /\ activity' = Cache!Pop
    <2>1. calls \in Seq(CallType)
      BY DEF TierInv, TypeOK
    <2>2. Top.via \in {"plain", "rewriter", "slot"}
      BY <1>1, <2>1, TopIsCall DEF Top, CallType
    <2> QED BY <2>2 DEF NoCommit, Return, Cache!GiveUp, Cache!Finish, Cache!Building
  <1> QED BY <1>1, <1>3, <1>4, <1>5, PopKeepsInv

\* An activation returns and the slow path commits the slot.
LEMMA CommitKeepsInv ==
  ASSUME TierInv, Commit
  PROVE  TierInv' /\ StepOK
  <1>1. PICK t, a : t = Top /\ a = activity[Len(activity)]
    OBVIOUS
  <1>2. PICK s \in Slots :
          /\ Cache!Publish(s)
          /\ target' = [target EXCEPT ![s] = [callee |-> t.callee, cf |-> t.chosen]]
    BY <1>1 DEF Commit
  <1>3. /\ calls # <<>> /\ Top.pc = "running" /\ calls' = Front(calls) /\ t.via = "rewriter"
        /\ UNCHANGED <<cfs, versions, osr_versions>> /\ t.pc # "resolved"
    BY <1>1 DEF Commit
  <1>4. /\ activity # <<>> /\ activity' = Cache!Pop /\ ~ a.dead
        /\ cached' = [r \in DOMAIN cached \cup {s} |-> IF r = s THEN a.on ELSE cached[r]]
    BY <1>1, <1>2 DEF Cache!Publish, Cache!Building, Cache!Top
  <1>5. /\ t \in CallType /\ VersionOf(t.chosen, t.callee.f) /\ RewriterOK(t, a)
    BY <1>1, <1>3, TopFacts
  <1>6. /\ t.chosen \in a.on /\ ~ IsInterpreted(t.chosen) /\ ActiveOf(t.chosen, t.callee.f)
    BY <1>3, <1>4, <1>5 DEF RewriterOK
  <1>7. PICK new : /\ new = [callee |-> t.callee, cf |-> t.chosen]
                   /\ new \in [callee : Callees, cf : Nat]
                   /\ new.callee = t.callee /\ new.cf = t.chosen
    <2>1. t.callee \in Callees /\ t.chosen \in Nat
      BY <1>5 DEF CallType
    <2>2. \E new : new = [callee |-> t.callee, cf |-> t.chosen]
      OBVIOUS
    <2> QED BY <2>1, <2>2
  <1>8. /\ target = [r \in Slots |-> target[r]] /\ DOMAIN cached \subseteq Slots
    BY DEF TierInv, TypeOK, CacheType
  <1>9. /\ target' = [r \in Slots |-> target'[r]]
        /\ \A r \in Slots : target'[r] = IF r = s THEN new ELSE target[r]
    BY <1>2, <1>7, <1>8
  <1>10. /\ cached' = [r \in DOMAIN cached' |-> cached'[r]]
         /\ DOMAIN cached' = DOMAIN cached \cup {s}
         /\ \A r \in DOMAIN cached' : cached'[r] = IF r = s THEN a.on ELSE cached[r]
    BY <1>4
  <1>11. CacheType'
    BY <1>2, <1>8, <1>9, <1>10 DEF CacheType
  <1>12. SlotsOK'
    <2> SUFFICES ASSUME NEW r \in DOMAIN cached', NEW g, g = target'[r]
                 PROVE  /\ g \in [callee : Callees, cf : Nat]
                        /\ VersionOf(g.cf, g.callee.f)'
                        /\ ActiveOf(g.cf, g.callee.f)'
                        /\ ~ IsInterpreted(g.cf)'
                        /\ g.cf \in cached'[r]
      BY DEF SlotsOK
    <2>1. /\ g \in [callee : Callees, cf : Nat]
          /\ VersionOf(g.cf, g.callee.f) /\ ActiveOf(g.cf, g.callee.f)
          /\ ~ IsInterpreted(g.cf) /\ g.cf \in cached'[r]
      <3>1. CASE r = s
        BY <3>1, <1>5, <1>6, <1>7, <1>9, <1>10
      <3>2. CASE r # s
        <4>1. r \in DOMAIN cached /\ g = target[r] /\ cached'[r] = cached[r]
          BY <3>2, <1>8, <1>9, <1>10
        <4> QED BY <4>1 DEF TierInv, SlotsOK
      <3> QED BY <3>1, <3>2
    <2> QED BY <2>1, <1>3 DEF VersionOf, ActiveOf, IsInterpreted
  <1> QED BY <1>1, <1>3, <1>4, <1>11, <1>12, PopKeepsInv

\* The version that fits is the only one.
LEMMA FirstFittingIs ==
  ASSUME OneVersionPerSignature, NEW f \in CLFunctions, NEW cls, NEW i \in Fitting(f, cls)
  PROVE  /\ FirstFitting(f, cls) = versions[f][i]
         /\ i \in 1..Len(versions[f]) /\ cfs[versions[f][i]].sig = cls
  <1>1. i \in 1..Len(versions[f]) /\ cfs[versions[f][i]].sig = cls
    BY DEF Fitting
  <1>2. Fitting(f, cls) = {i}
    BY DEF Fitting, OneVersionPerSignature
  <1>3. Min({i}) = i
    BY <1>1, MinOfOne
  <1> QED BY <1>1, <1>2, <1>3 DEF FirstFitting

\* A new version.
LEMMA NewCFType ==
  ASSUME NEW f \in CLFunctions, NEW cls \in Classes, NEW effort \in Efforts, NEW parent \in Nat
  PROVE  /\ NewCF(f, cls, effort, parent) \in CFType
         /\ NewCF(f, cls, effort, parent).f = f
         /\ NewCF(f, cls, effort, parent).sig = cls
         /\ NewCF(f, cls, effort, parent).effort = effort
  BY DEF NewCF, CFType

\* versions[f] becomes seq, whose last entry is the new version: its signature is that
\* of no other entry, and the others were there before, each at most once.
Drawn(seq, from, old) ==
  \A k \in 1..(Len(seq) - 1) :
    /\ from[k] \in 1..Len(old) /\ seq[k] = old[from[k]]
    /\ \A j \in 1..(Len(seq) - 1) : from[j] = from[k] => j = k

\* The versions of a function when one is added at the end of what is left of the list.
LEMMA NewVersionsOK ==
  ASSUME TierInv, cfs' \in Seq(CFType), Grown(cfs, cfs'),
         NEW f \in CLFunctions, NEW seq \in Seq(Nat), Len(seq) >= 1,
         versions'[f] = seq, \A g \in CLFunctions : g # f => versions'[g] = versions[g],
         VersionOf(seq[Len(seq)], f)',
         NEW from, Drawn(seq, from, versions[f]),
         \A k \in 1..(Len(seq) - 1) : cfs[seq[k]].sig # cfs'[seq[Len(seq)]].sig
  PROVE  VersionsOK'
  <1>1. cfs \in Seq(CFType) /\ versions \in [CLFunctions -> Seq(Nat)]
    BY DEF TierInv, TypeOK
  <1>2. /\ versions'[f] = seq
        /\ \A g \in CLFunctions : g # f => versions'[g] = versions[g]
    OBVIOUS
  <1>3. \A g \in CLFunctions : \A i \in 1..Len(versions[g]) : \A v : v = versions[g][i] =>
          VersionOf(v, g)' /\ cfs'[v].sig = cfs[v].sig
    BY <1>1, VersionKept DEF TierInv, VersionsOK
  <1>4. Len(seq) \in Nat /\ \A k \in 1..Len(seq) : k = Len(seq) \/ k \in 1..(Len(seq) - 1)
    OBVIOUS
  <1>5. \A k \in 1..(Len(seq) - 1) : /\ VersionOf(seq[k], f)'
                                     /\ cfs'[seq[k]].sig = cfs[seq[k]].sig
    <2> SUFFICES ASSUME NEW k \in 1..(Len(seq) - 1)
                 PROVE  VersionOf(seq[k], f)' /\ cfs'[seq[k]].sig = cfs[seq[k]].sig
      OBVIOUS
    <2>1. from[k] \in 1..Len(versions[f]) /\ seq[k] = versions[f][from[k]]
      BY DEF Drawn
    <2>2. \A v : v = versions[f][from[k]] => VersionOf(v, f)' /\ cfs'[v].sig = cfs[v].sig
      BY <2>1, <1>3, Zenon
    <2> QED BY <2>1, <2>2, Zenon
  <1>6. \A k \in 1..Len(seq) : VersionOf(seq[k], f)'
    BY <1>4, <1>5
  <1>7. \A i, j \in 1..Len(seq) : cfs'[seq[i]].sig = cfs'[seq[j]].sig => i = j
    <2> SUFFICES ASSUME NEW i \in 1..Len(seq), NEW j \in 1..Len(seq),
                        cfs'[seq[i]].sig = cfs'[seq[j]].sig
                 PROVE  i = j
      OBVIOUS
    <2>1. CASE i \in 1..(Len(seq) - 1) /\ j \in 1..(Len(seq) - 1)
      <3>1. cfs[seq[i]].sig = cfs[seq[j]].sig
        BY <2>1, <1>5
      <3>2. /\ from[i] \in 1..Len(versions[f]) /\ seq[i] = versions[f][from[i]]
            /\ from[j] \in 1..Len(versions[f]) /\ seq[j] = versions[f][from[j]]
        BY <2>1 DEF Drawn
      <3>3. from[i] = from[j]
        <4>1. \A k, n \in 1..Len(versions[f]) :
                cfs[versions[f][k]].sig = cfs[versions[f][n]].sig => k = n
          BY DEF TierInv, VersionsOK, OneVersionPerSignature
        <4>2. cfs[versions[f][from[i]]].sig = cfs[versions[f][from[j]]].sig
          BY <3>1, <3>2
        <4> QED BY <3>2, <4>1, <4>2, Zenon
      <3> QED BY <2>1, <3>3 DEF Drawn
    <2>2. CASE i \in 1..(Len(seq) - 1) /\ j = Len(seq)
      BY <2>2, <1>5
    <2>3. CASE j \in 1..(Len(seq) - 1) /\ i = Len(seq)
      BY <2>3, <1>5
    <2> QED BY <2>1, <2>2, <2>3, <1>4
  <1>8. ASSUME NEW g \in CLFunctions
        PROVE  /\ \A i \in 1..Len(versions'[g]) : VersionOf(versions[g][i], g)'
               /\ \A i, j \in 1..Len(versions'[g]) :
                    cfs'[versions'[g][i]].sig = cfs'[versions'[g][j]].sig => i = j
    <2>1. CASE g = f
      <3>1. \A i \in 1..Len(seq) : seq[i] \in 1..Len(cfs') /\ cfs'[seq[i]].f = f
        BY <1>6 DEF VersionOf
      <3>2. versions'[g] = seq
        BY <2>1, <1>2
      <3> QED BY <2>1, <3>1, <3>2, <1>7, SMTT(30) DEF VersionOf
    <2>2. CASE g # f
      <3>1. \A i, j \in 1..Len(versions[g]) :
              cfs[versions[g][i]].sig = cfs[versions[g][j]].sig => i = j
        BY DEF TierInv, VersionsOK, OneVersionPerSignature
      <3>2. \A i \in 1..Len(versions[g]) : cfs'[versions[g][i]].sig = cfs[versions[g][i]].sig
        BY <1>3
      <3>3. \A i \in 1..Len(versions[g]) : versions[g][i] \in 1..Len(cfs') /\ cfs'[versions[g][i]].f = g
        BY <1>3 DEF VersionOf
      <3>4. versions'[g] = versions[g]
        BY <2>2, <1>2
      <3> QED BY <3>1, <3>2, <3>3, <3>4 DEF VersionOf
    <2> QED BY <2>1, <2>2
  <1> QED BY <1>2, <1>8 DEF VersionsOK, OneVersionPerSignature

\* A version for a signature that had none.
LEMMA FirstVersionKeeps ==
  ASSUME TierInv, TieringAssumption, NEW f \in CLFunctions, NEW cls \in Classes,
         Fitting(f, cls) = {}, NEW new, new = Len(cfs) + 1,
         cfs' = Append(cfs, NewCF(f, cls, InitialEffort, NoParent)),
         versions' = [versions EXCEPT ![f] = Append(@, new)]
  PROVE  /\ cfs' \in Seq(CFType) /\ Grown(cfs, cfs') /\ StillActive
         /\ versions' \in [CLFunctions -> Seq(Nat)] /\ VersionsOK'
         /\ VersionOf(new, f)' /\ ActiveOf(new, f)' /\ cfs'[new].sig = cls
  <1>1. cfs \in Seq(CFType) /\ versions \in [CLFunctions -> Seq(Nat)] /\ new \in Nat
    BY DEF TierInv, TypeOK
  <1>2. PICK cf \in CFType : /\ cf = NewCF(f, cls, InitialEffort, NoParent)
                             /\ cf.f = f /\ cf.sig = cls
    <2>1. InitialEffort \in Efforts /\ NoParent \in Nat
      BY DEF InitialEffort, Efforts, NoParent, INTERPRETED, MINIMAL, MAXIMAL
    <2> QED BY <2>1, NewCFType
  <1>3. Grown(cfs, cfs)
    BY <1>1 DEF Grown
  <1>4. /\ cfs' \in Seq(CFType) /\ Grown(cfs, cfs') /\ Len(cfs') = new /\ cfs'[new] = cf
    BY <1>1, <1>2, <1>3, GrownByOne
  <1>5. VersionOf(new, f)' /\ cfs'[new].sig = cls
    BY <1>1, <1>2, <1>4 DEF VersionOf
  <1>6. PICK old, seq : old = versions[f] /\ seq = Append(old, new)
    OBVIOUS
  <1>7. /\ old \in Seq(Nat) /\ seq \in Seq(Nat) /\ Len(seq) = Len(old) + 1 /\ seq[Len(seq)] = new
        /\ \A k \in 1..Len(old) : seq[k] = old[k]
        /\ Len(old) \in Nat
    BY <1>1, <1>6, AppendProperties
  <1>8. /\ versions' \in [CLFunctions -> Seq(Nat)] /\ versions'[f] = seq
        /\ \A g \in CLFunctions : g # f => versions'[g] = versions[g]
    BY <1>1, <1>6, <1>7
  <1>9. \A k \in 1..Len(old) : cfs[old[k]].sig # cls
    BY <1>6 DEF Fitting
  <1>10. PICK from : from = [k \in 1..Len(old) |-> k]
    OBVIOUS
  <1>11. /\ Drawn(seq, from, versions[f])
         /\ \A k \in 1..(Len(seq) - 1) : cfs[seq[k]].sig # cfs'[seq[Len(seq)]].sig
    <2>1. Len(seq) - 1 = Len(old) /\ \A k \in 1..Len(old) : from[k] = k
      BY <1>7, <1>10
    <2>2. Drawn(seq, from, old)
      BY <2>1, <1>7 DEF Drawn
    <2>3. \A k \in 1..(Len(seq) - 1) : cfs[seq[k]].sig # cfs'[seq[Len(seq)]].sig
      BY <2>1, <1>5, <1>7, <1>9
    <2> QED BY <2>2, <2>3, <1>6
  <1>12. VersionsOK'
    <2>1. Len(seq) >= 1 /\ VersionOf(seq[Len(seq)], f)'
      BY <1>5, <1>7
    <2> QED BY <2>1, <1>4, <1>7, <1>8, <1>11, NewVersionsOK, ZenonT(60)
  <1>13. StillActive /\ ActiveOf(new, f)'
    <2>1. DOMAIN old = 1..Len(old) /\ DOMAIN seq = 1..Len(seq)
      BY <1>7
    <2>2. \A v : v \in Range(old) => v \in Range(seq)
      BY <2>1, <1>7 DEF Range
    <2>3. new \in Range(seq)
      BY <2>1, <1>7 DEF Range
    <2> QED BY <2>2, <2>3, <1>6, <1>8 DEF StillActive, ActiveOf
  <1> QED BY <1>4, <1>5, <1>8, <1>12, <1>13

\* runtimeCall without a slot: resolveCLFunc finds a version or compiles one.
LEMMA RuntimeCallKeepsInv ==
  ASSUME TieringAssumption, TierInv, NEW site \in Sites \cup {NoSite}, NEW callee \in Callees,
         RuntimeCall(site, callee)
  PROVE  TierInv' /\ StepOK
  <1>1. PICK f, cls : f = callee.f /\ cls = callee.cls
    OBVIOUS
  <1>2. f \in CLFunctions /\ cls \in Classes
    BY <1>1 DEF Callees
  <1>3. PICK cf : /\ Fitting(f, cls) # {} => /\ cf = FirstFitting(f, cls)
                                             /\ UNCHANGED <<cfs, versions>>
                  /\ Fitting(f, cls) = {} =>
                       /\ cf = Len(cfs) + 1
                       /\ cfs' = Append(cfs, NewCF(f, cls, InitialEffort, NoParent))
                       /\ versions' = [versions EXCEPT ![f] = Append(@, cf)]
                  /\ calls' = Append(calls, Call(callee, site, cf, "resolved",
                                      IF site = NoSite THEN "plain" ELSE "rewriter"))
    BY <1>1 DEF RuntimeCall
  <1>4. /\ cfs' \in Seq(CFType) /\ Grown(cfs, cfs') /\ StillActive
        /\ versions' \in [CLFunctions -> Seq(Nat)] /\ VersionsOK'
        /\ VersionOf(cf, f)' /\ ActiveOf(cf, f)'
    <2>1. CASE Fitting(f, cls) = {}
      BY <2>1, <1>2, <1>3, FirstVersionKeeps
    <2>2. CASE Fitting(f, cls) # {}
      <3>1. cfs' \in Seq(CFType) /\ Grown(cfs, cfs') /\ UNCHANGED <<cfs, versions>>
        BY <2>2, <1>3 DEF TierInv, TypeOK, Grown
      <3>2. VersionsOK' /\ StillActive /\ versions' \in [CLFunctions -> Seq(Nat)]
        BY <3>1, VersionsKept
      <3>3. PICK i : i \in Fitting(f, cls)
        BY <2>2
      <3>4. OneVersionPerSignature
        BY DEF TierInv, VersionsOK
      <3>5. i \in 1..Len(versions[f]) /\ cf = versions[f][i]
        BY <2>2, <3>3, <3>4, <1>2, <1>3, FirstFittingIs
      <3>6. VersionOf(cf, f)
        BY <3>5, <1>2 DEF TierInv, VersionsOK
      <3>7. ActiveOf(cf, f)
        BY <3>5, <1>2 DEF ActiveOf, Range, TierInv, TypeOK
      <3> QED BY <3>1, <3>2, <3>6, <3>7 DEF VersionOf, ActiveOf
    <2> QED BY <2>1, <2>2
  <1>5. PICK c : c = Call(callee, site, cf, "resolved",
                          IF site = NoSite THEN "plain" ELSE "rewriter")
    OBVIOUS
  <1>6. /\ c \in CallType /\ c.callee = callee /\ c.cf = cf /\ c.chosen = cf
        /\ c.pc = "resolved" /\ c.via = IF site = NoSite THEN "plain" ELSE "rewriter"
    <2>1. cf \in Nat
      BY <1>4 DEF VersionOf
    <2> QED BY <2>1, <1>5 DEF Call, CallType
  <1>7. PICK a : a = Cache!Builder({}, FALSE)
    OBVIOUS
  <1>8. a \in ActivityType
    BY <1>7 DEF Cache!Builder, ActivityType
  <1>9. /\ c.via = "plain" => activity' = activity
        /\ c.via # "plain" => activity' = Append(activity, a)
        /\ UNCHANGED <<osr_versions, target, cached>>
    BY <1>6, <1>7 DEF RuntimeCall, cacheVars, Cache!Begin
  <1>10. InPython /\ calls' = Append(calls, c)
    BY <1>3, <1>5 DEF RuntimeCall
  <1>11. /\ VersionOf(c.cf, c.callee.f)' /\ ActiveOf(c.cf, c.callee.f)'
    BY <1>1, <1>4, <1>6
  <1>12. c.via # "slot"
    BY <1>6
  <1> QED BY <1>4, <1>6, <1>8, <1>9, <1>10, <1>11, <1>12, PushKeepsInv

\* A call through a slot.
LEMMA CachedCallKeepsInv ==
  ASSUME TierInv, NEW s \in Slots, NEW callee \in Callees, CachedCall(s, callee)
  PROVE  TierInv' /\ StepOK
  <1>1. PICK t, c, a : /\ t = target[s] /\ a = Cache!User
                       /\ c = Call(callee, s[1], t.cf, "entry", "slot")
    OBVIOUS
  <1>2. /\ calls' = Append(calls, c) /\ activity' = Append(activity, a) /\ InPython
        /\ UNCHANGED <<cfs, versions, osr_versions, target, cached>>
        /\ s \in DOMAIN cached /\ t.callee.f = callee.f
    BY <1>1 DEF CachedCall, Cache!Use, GuardsPass
  <1>3. cfs' \in Seq(CFType) /\ Grown(cfs, cfs')
    BY <1>2 DEF TierInv, TypeOK, Grown
  <1>4. VersionsOK' /\ StillActive /\ versions' \in [CLFunctions -> Seq(Nat)]
    BY <1>2, <1>3, VersionsKept
  <1>5. /\ t.cf \in Nat /\ VersionOf(t.cf, callee.f) /\ ActiveOf(t.cf, callee.f)
    BY <1>1, <1>2 DEF TierInv, SlotsOK
  <1>6. /\ c \in CallType /\ c.callee = callee /\ c.cf = t.cf /\ c.chosen = t.cf
        /\ c.pc = "entry" /\ c.via = "slot"
    <2>1. s[1] \in Sites
      BY DEF Slots
    <2> QED BY <2>1, <1>1, <1>5 DEF Call, CallType
  <1>7. a \in ActivityType
    BY <1>1 DEF Cache!User, ActivityType
  <1>8. VersionOf(c.cf, c.callee.f)' /\ ActiveOf(c.cf, c.callee.f)'
    BY <1>2, <1>5, <1>6 DEF VersionOf, ActiveOf
  <1> QED BY <1>2, <1>3, <1>4, <1>6, <1>7, <1>8, PushKeepsInv

\* Counters stay numbers.
LEMMA CountUpToNat ==
  ASSUME NEW n \in Nat, NEW threshold \in Nat
  PROVE  CountUpTo(n, threshold) \in Nat
  BY DEF CountUpTo

\* A loop counts its backedge and may leave for an OSR version.
LEMMA BackedgeKeepsInv ==
  ASSUME TieringAssumption, TierInv, Backedge
  PROVE  TierInv' /\ StepOK
  <1>1. PICK t, cs, v, old, osrs : /\ t = Top /\ cs = calls /\ v = t.cf
                                   /\ old = cfs /\ osrs = osr_versions
    OBVIOUS
  <1>2. /\ calls # <<>> /\ t.pc = "running" /\ cs \in Seq(CallType) /\ t = cs[Len(cs)] /\ cs # <<>>
        /\ UNCHANGED <<versions, target, cached, activity>>
    BY <1>1 DEF Backedge, TierInv, TypeOK, Top
  <1>3. /\ t \in CallType /\ t.callee.f \in CLFunctions
        /\ VersionOf(v, t.callee.f) /\ VersionOf(t.chosen, t.callee.f)
        /\ old[v] \in CFType
        /\ RewriterOK(t, activity[Len(activity)])
        /\ Len(activity) \in Nat /\ Len(activity) - Waits(t) \in Nat
    BY <1>1, <1>2, TopFacts
  <1>4. old \in Seq(CFType) /\ v \in 1..Len(old) /\ old[v].f = t.callee.f
    BY <1>1, <1>3 DEF TierInv, TypeOK, VersionOf
  <1>5. PICK f, effort : f = old[v].f /\ effort = old[v].effort
    OBVIOUS
  <1>6. /\ f = t.callee.f /\ f \in CLFunctions /\ effort \in Efforts /\ effort < MAXIMAL
        /\ old[v].sig \in Classes
    BY <1>1, <1>3, <1>4, <1>5 DEF Backedge, CFType
  <1>7. PICK n \in Nat : n = CountUpTo(old[v].edgecount, OSRThresholds[effort])
    <2>1. effort \in Efforts \ {MAXIMAL}
      BY <1>6 DEF Efforts, MAXIMAL, INTERPRETED
    <2>2. OSRThresholds[effort] \in Nat /\ old[v].edgecount \in Nat
      BY <2>1, <1>3 DEF TieringAssumption, CFType
    <2> QED BY <2>2, CountUpToNat
  <1>8. PICK counted : counted = [old EXCEPT ![v].edgecount = n]
    OBVIOUS
  <1>9. counted \in Seq(CFType) /\ Len(counted) = Len(old) /\ Grown(old, counted)
    BY <1>4, <1>8, GrownByEdge
  <1>10. \/ cfs' = counted /\ calls' = cs /\ osr_versions' = osrs
         \/ /\ v \in DOMAIN osrs[f] /\ cfs' = counted /\ osr_versions' = osrs
            /\ calls' = WithCf(cs, osrs[f][v])
         \/ /\ v \notin DOMAIN osrs[f]
            /\ cfs' = Append(counted, NewCF(f, old[v].sig, OSREffort(effort), v))
            /\ osr_versions' = [osrs EXCEPT ![f] =
                  [w \in DOMAIN @ \cup {v} |-> IF w = v THEN Len(old) + 1 ELSE @[w]]]
            /\ calls' = WithCf(cs, Len(old) + 1)
    BY <1>1, <1>5, <1>7, <1>8 DEF Backedge, WithCf
  <1>11. ASSUME NEW c \in CallType, TopSet(cs, c, calls'), c.pc = "running",
                c.callee = t.callee, c.chosen = t.chosen, c.via = t.via,
                VersionOf(c.cf, f)', cfs' \in Seq(CFType), Grown(cfs, cfs'),
                cfs'[c.cf].sig = old[v].sig, cfs'[c.cf].effort >= effort,
                OSRVersionsOK', osr_versions' = [g \in CLFunctions |-> osr_versions'[g]]
         PROVE  TierInv' /\ StepOK
    <2>1. /\ VersionsOK' /\ StillActive /\ versions' \in [CLFunctions -> Seq(Nat)]
          /\ SlotsOK' /\ CacheType'
      BY <1>2, <1>11, VersionsKept, SlotsKept
    <2>2. VersionOf(c.cf, c.callee.f)' /\ VersionOf(c.chosen, c.callee.f)'
      BY <1>1, <1>3, <1>4, <1>6, <1>11, VersionKept
    <2>3. \A d \in CallType, j \in 1..(Len(activity) - Waits(t)) : \A a, b :
             (/\ a = activity[j] /\ b = activity'[j] /\ VersionOf(d.chosen, d.callee.f)
              /\ RewriterOK(d, a)) => RewriterOK(d, b)'
      BY <1>1, <1>2, <1>4, <1>11, <2>1, RewriterKept
    <2>4. \A b : b = activity'[Len(activity')] => RewriterOK(c, b)'
      <3>1. PICK b : b = activity[Len(activity)]
        OBVIOUS
      <3>2. RewriterOK(c, b)
        BY <3>1, <1>2, <1>3, <1>11 DEF RewriterOK
      <3>3. VersionOf(c.chosen, c.callee.f)
        BY <1>3, <1>11
      <3>4. RewriterOK(c, b)'
        BY <3>2, <3>3, <1>1, <1>4, <1>11, <2>1, RewriterKept
      <3> QED BY <3>1, <3>4, <1>2
    <2>5. /\ activity' \in Seq(ActivityType)
          /\ Len(activity') = (Len(activity) - Waits(t)) + Waits(c)
      <3>1. Waits(c) = Waits(t) /\ Waits(t) \in Nat
        BY <1>11 DEF Waits
      <3> QED BY <3>1, <1>2, <1>3, SMTT(30) DEF TierInv, TypeOK
    <2>6. TopSet(calls, c, calls')
      BY <1>1, <1>11
    <2>7. TierInv'
      BY <1>1, <1>2, <1>11, <2>1, <2>2, <2>3, <2>4, <2>5, <2>6, TopKeepsInv
    <2>8. Carried
      <3>1. cfs'[c.cf].sig = cfs[t.cf].sig /\ cfs'[c.cf].effort >= cfs[t.cf].effort
        BY <1>1, <1>5, <1>11
      <3> QED BY <3>1, <1>1, <1>2, <1>11, <2>6, TopCarried
    <2>9. Succeeded
      BY <1>11, <2>1, SucceededBySelf DEF Succeeded, StillActive
    <2> QED BY <1>11, <2>7, <2>8, <2>9 DEF StepOK
  <1>12. osrs = [g \in CLFunctions |-> osrs[g]]
    BY <1>1 DEF TierInv, TypeOK
  <1>13. CASE cfs' = counted /\ calls' = cs /\ osr_versions' = osrs
    <2>1. cfs' \in Seq(CFType) /\ Grown(cfs, cfs')
      BY <1>1, <1>9, <1>13
    <2>2. OSRVersionsOK'
      BY <2>1, <1>1, <1>13, OSRKept
    <2>3. TopSet(cs, t, calls')
      BY <1>2, <1>13, TopIsCall DEF TopSet
    <2>4. VersionOf(t.cf, f)' /\ cfs'[t.cf].sig = old[v].sig /\ cfs'[t.cf].effort >= effort
      <3>1. VersionOf(t.cf, f)' /\ cfs'[t.cf].sig = old[v].sig /\ cfs'[t.cf].effort = effort
        BY <2>1, <1>1, <1>3, <1>4, <1>5, <1>6, VersionKept
      <3>2. effort >= effort
        BY <1>6 DEF Efforts, INTERPRETED, MAXIMAL
      <3> QED BY <3>1, <3>2
    <2> QED BY <2>1, <2>2, <2>3, <2>4, <1>2, <1>3, <1>11, <1>12, <1>13
  <1>14. CASE /\ v \in DOMAIN osrs[f] /\ cfs' = counted /\ osr_versions' = osrs
              /\ calls' = WithCf(cs, osrs[f][v])
    <2>1. cfs' \in Seq(CFType) /\ Grown(cfs, cfs')
      BY <1>1, <1>9, <1>14
    <2>2. OSRVersionsOK'
      BY <2>1, <1>1, <1>14, OSRKept
    <2>3. PICK w : w = osrs[f][v]
      OBVIOUS
    <2>4. /\ VersionOf(w, f) /\ w \in Nat
          /\ old[w].sig = old[v].sig /\ old[w].effort >= effort
      BY <2>3, <1>1, <1>5, <1>6, <1>14 DEF TierInv, OSRVersionsOK, VersionOf
    <2>5. PICK c \in CallType :
             /\ TopSet(cs, c, calls') /\ c.pc = t.pc /\ c.callee = t.callee /\ c.cf = w
             /\ c.chosen = t.chosen /\ c.via = t.via
      <3>1. calls' = WithCf(cs, w)
        BY <2>3, <1>14
      <3> QED BY <3>1, <2>4, <1>2, SetTopCf
    <2>6. VersionOf(w, f)' /\ cfs'[w].sig = old[w].sig /\ cfs'[w].effort = old[w].effort
      BY <2>1, <2>4, <1>1, <1>4, VersionKept
    <2>7. VersionOf(c.cf, f)' /\ cfs'[c.cf].sig = old[v].sig /\ cfs'[c.cf].effort >= effort
      BY <2>4, <2>5, <2>6
    <2> QED BY <2>1, <2>2, <2>5, <2>7, <1>2, <1>11, <1>12, <1>14
  <1>15. CASE /\ v \notin DOMAIN osrs[f]
              /\ cfs' = Append(counted, NewCF(f, old[v].sig, OSREffort(effort), v))
              /\ osr_versions' = [osrs EXCEPT ![f] =
                  [w \in DOMAIN @ \cup {v} |-> IF w = v THEN Len(old) + 1 ELSE @[w]]]
              /\ calls' = WithCf(cs, Len(old) + 1)
    <2>1. PICK new, cf : new = Len(old) + 1 /\ cf = NewCF(f, old[v].sig, OSREffort(effort), v)
      OBVIOUS
    <2>2. OSREffort(effort) \in Efforts /\ OSREffort(effort) >= effort
      BY <1>6 DEF OSREffort, Efforts, INTERPRETED, MINIMAL, MAXIMAL
    <2>3. /\ cf \in CFType /\ cf.f = f /\ cf.sig = old[v].sig /\ cf.effort >= effort
      BY <2>1, <2>2, <1>4, <1>6, NewCFType
    <2>4. /\ cfs' \in Seq(CFType) /\ Grown(cfs, cfs') /\ Len(cfs') = new /\ cfs'[new] = cf
      BY <2>1, <2>3, <1>1, <1>4, <1>9, <1>15, GrownByOne
    <2>5. new \in Nat /\ new \in 1..new
      BY <2>1, <1>4
    <2>6. VersionOf(new, f)'
      BY <2>3, <2>4, <2>5 DEF VersionOf
    <2>7. VersionOf(v, f)' /\ cfs'[v].sig = old[v].sig /\ cfs'[v].effort = effort
      BY <2>4, <1>1, <1>3, <1>4, <1>5, <1>6, VersionKept
    <2>8. /\ osr_versions' = [g \in CLFunctions |-> osr_versions'[g]]
          /\ \A g \in CLFunctions : g # f => osr_versions'[g] = osrs[g]
          /\ DOMAIN osr_versions'[f] = DOMAIN osrs[f] \cup {v}
          /\ \A w \in DOMAIN osrs[f] \cup {v} :
               osr_versions'[f][w] = IF w = v THEN new ELSE osrs[f][w]
      BY <2>1, <1>6, <1>12, <1>15
    <2>9. \A g \in CLFunctions : \A u, w : (u \in DOMAIN osrs[g] /\ w = osrs[g][u]) =>
            /\ VersionOf(u, g)' /\ VersionOf(w, g)'
            /\ cfs'[w].sig = cfs'[u].sig /\ cfs'[w].effort >= cfs'[u].effort
      <3> SUFFICES ASSUME NEW g \in CLFunctions, NEW u, NEW w, u \in DOMAIN osrs[g], w = osrs[g][u]
                   PROVE  /\ VersionOf(u, g)' /\ VersionOf(w, g)'
                          /\ cfs'[w].sig = cfs'[u].sig /\ cfs'[w].effort >= cfs'[u].effort
        OBVIOUS
      <3>1. /\ VersionOf(u, g) /\ VersionOf(w, g)
            /\ cfs[w].sig = cfs[u].sig /\ cfs[w].effort >= cfs[u].effort
        BY <1>1 DEF TierInv, OSRVersionsOK
      <3>2. /\ VersionOf(u, g)' /\ cfs'[u].sig = cfs[u].sig /\ cfs'[u].effort = cfs[u].effort
            /\ VersionOf(w, g)' /\ cfs'[w].sig = cfs[w].sig /\ cfs'[w].effort = cfs[w].effort
        BY <3>1, <2>4, <1>1, <1>4, VersionKept
      <3> QED BY <3>1, <3>2
    <2>10. OSRVersionsOK'
      <3> SUFFICES ASSUME NEW g \in CLFunctions, NEW u \in DOMAIN osr_versions'[g],
                          NEW w, w = osr_versions'[g][u]
                   PROVE  /\ VersionOf(u, g)' /\ VersionOf(w, g)'
                          /\ cfs'[w].sig = cfs'[u].sig /\ cfs'[w].effort >= cfs'[u].effort
        BY DEF OSRVersionsOK
      <3>1. CASE g = f /\ u = v
        BY <3>1, <2>3, <2>4, <2>6, <2>7, <2>8
      <3>2. CASE g # f \/ u # v
        BY <3>2, <2>8, <2>9
      <3> QED BY <3>1, <3>2
    <2>11. PICK c \in CallType :
             /\ TopSet(cs, c, calls') /\ c.pc = t.pc /\ c.callee = t.callee /\ c.cf = new
             /\ c.chosen = t.chosen /\ c.via = t.via
      <3>1. calls' = WithCf(cs, new)
        BY <2>1, <1>15
      <3>2. new \in Nat /\ cs \in Seq(CallType) /\ cs # <<>> /\ t = cs[Len(cs)]
        BY <2>5, <1>2
      <3> QED BY <3>1, <3>2, SetTopCf, SMTT(30)
    <2>12. VersionOf(c.cf, f)' /\ cfs'[c.cf].sig = old[v].sig /\ cfs'[c.cf].effort >= effort
      BY <2>3, <2>4, <2>6, <2>11
    <2> QED BY <2>4, <2>8, <2>10, <2>11, <2>12, <1>2, <1>11
  <1> QED BY <1>10, <1>13, <1>14, <1>15

\* Whatever is being built on v is doomed.
Doomed(acts, v) ==
  [k \in DOMAIN acts |-> [acts[k] EXCEPT !.dead = @ \/ v \in acts[k].on]]

\* The rewrites that rely on a version can no longer be committed.
LEMMA DoomActivity ==
  ASSUME NEW acts \in Seq(ActivityType), NEW v
  PROVE  /\ Doomed(acts, v) \in Seq(ActivityType) /\ Len(Doomed(acts, v)) = Len(acts)
         /\ \A k \in 1..Len(acts) :
              /\ Doomed(acts, v)[k].on = acts[k].on
              /\ Doomed(acts, v)[k].dead <=> (acts[k].dead \/ v \in acts[k].on)
  <1>1. DOMAIN acts = 1..Len(acts) /\ Len(acts) \in Nat
    OBVIOUS
  <1>2. ASSUME NEW a \in ActivityType, NEW b, b = [a EXCEPT !.dead = @ \/ v \in a.on]
        PROVE  b \in ActivityType /\ b.on = a.on /\ (b.dead <=> (a.dead \/ v \in a.on))
    <2>1. PICK dead \in BOOLEAN : dead <=> (a.dead \/ v \in a.on)
      BY Zenon
    <2>2. a.dead \in BOOLEAN
      BY DEF ActivityType
    <2>3. (a.dead \/ v \in a.on) = dead
      BY <2>1, Zenon
    <2>4. b = [a EXCEPT !.dead = dead]
      BY <1>2, <2>3
    <2>5. b \in ActivityType /\ b.on = a.on /\ b.dead = dead
      BY <2>4 DEF ActivityType
    <2> QED BY <2>1, <2>5, Zenon
  <1>3. \A k \in 1..Len(acts) : acts[k] \in ActivityType
    BY ElementOfSeq
  <1>4. \A k \in 1..Len(acts) :
          /\ Doomed(acts, v)[k] \in ActivityType
          /\ Doomed(acts, v)[k].on = acts[k].on
          /\ Doomed(acts, v)[k].dead <=> (acts[k].dead \/ v \in acts[k].on)
    <2> SUFFICES ASSUME NEW k \in 1..Len(acts)
                 PROVE  /\ Doomed(acts, v)[k] \in ActivityType
                        /\ Doomed(acts, v)[k].on = acts[k].on
                        /\ Doomed(acts, v)[k].dead <=> (acts[k].dead \/ v \in acts[k].on)
      OBVIOUS
    <2>1. Doomed(acts, v)[k] = [acts[k] EXCEPT !.dead = @ \/ v \in acts[k].on]
      BY <1>1 DEF Doomed
    <2> QED BY <2>1, <1>2, <1>3, Zenon
  <1>5. Doomed(acts, v) = [k \in 1..Len(acts) |-> Doomed(acts, v)[k]]
    BY <1>1 DEF Doomed
  <1>6. Doomed(acts, v) \in [1..Len(acts) -> ActivityType]
    BY <1>4, <1>5, Zenon
  <1>7. Doomed(acts, v) \in Seq(ActivityType) /\ Len(Doomed(acts, v)) = Len(acts)
    BY <1>1, <1>6
  <1> QED BY <1>4, <1>7, Zenon

\* Recompilation: the new version takes the place of v, and only v stops being active.
LEMMA ReoptVersions ==
  ASSUME TieringAssumption, TierInv, Reopt
  PROVE  \A v, new, f : (v = Top.cf /\ new = Len(cfs) + 1 /\ f = Top.callee.f) =>
         /\ cfs' \in Seq(CFType) /\ Grown(cfs, cfs') /\ new \in Nat
         /\ VersionOf(new, f)' /\ ActiveOf(new, f)'
         /\ cfs'[new].sig = cfs[v].sig /\ cfs'[new].effort > cfs[v].effort
         /\ \A g \in CLFunctions, w \in Nat : ActiveOf(w, g) /\ w # v => ActiveOf(w, g)'
         /\ versions' \in [CLFunctions -> Seq(Nat)] /\ VersionsOK'
  <1> TAKE v, new, f
  <1>0. HAVE v = Top.cf /\ new = Len(cfs) + 1 /\ f = Top.callee.f
  <1>1. PICK t, old, vers : /\ t = Top /\ old = cfs /\ vers = versions
                            /\ v = t.cf /\ new = Len(old) + 1 /\ f = t.callee.f
    BY <1>0
  <1>2. calls # <<>> /\ t.pc = "entry"
    BY <1>1 DEF Reopt
  <1>3. /\ t.callee.f \in CLFunctions /\ VersionOf(v, f) /\ old[v] \in CFType /\ f \in CLFunctions
    BY <1>1, <1>2, TopFacts
  <1>4. /\ old \in Seq(CFType) /\ v \in 1..Len(old) /\ old[v].f = f
        /\ vers \in [CLFunctions -> Seq(Nat)] /\ new \in Nat
    BY <1>1, <1>3 DEF TierInv, TypeOK, VersionOf
  <1>5. PICK effort, sig : effort = old[v].effort /\ sig = old[v].sig
    OBVIOUS
  <1>6. /\ effort \in Efforts /\ effort < MAXIMAL /\ sig \in Classes
    BY <1>1, <1>3, <1>5 DEF Reopt, Counts, CFType
  <1>7. PICK n \in Nat : n = CountUpTo(old[v].times_called, ReoptThresholds[effort])
    <2>1. effort \in Efforts \ {MAXIMAL}
      BY <1>6 DEF Efforts, MAXIMAL, INTERPRETED
    <2>2. ReoptThresholds[effort] \in Nat /\ old[v].times_called \in Nat
      BY <2>1, <1>3 DEF TieringAssumption, CFType
    <2> QED BY <2>2, CountUpToNat
  <1>8. PICK mid : mid = [old EXCEPT ![v].times_called = n]
    OBVIOUS
  <1>9. /\ cfs' = Append(mid, NewCF(f, sig, effort + 1, NoParent))
        /\ versions' = [vers EXCEPT ![f] = Replace(@, v, new)]
        /\ v \in Range(vers[f])
    BY <1>1, <1>4, <1>5, <1>7, <1>8 DEF Reopt
  <1>10. mid \in Seq(CFType) /\ Len(mid) = Len(old) /\ Grown(old, mid)
    <2>1. /\ [old EXCEPT ![v].times_called = n] \in Seq(CFType)
          /\ Len([old EXCEPT ![v].times_called = n]) = Len(old)
          /\ Grown(old, [old EXCEPT ![v].times_called = n])
      <3>1. old \in Seq(CFType) /\ v \in 1..Len(old) /\ n \in Nat
        BY <1>4
      <3> QED BY <3>1, GrownByCall
    <2> QED BY <2>1, <1>8
  <1>11. PICK cf \in CFType : /\ cf = NewCF(f, sig, effort + 1, NoParent)
                              /\ cf.f = f /\ cf.sig = sig /\ cf.effort = effort + 1
    <2>1. effort + 1 \in Efforts /\ NoParent \in Nat
      BY <1>6 DEF Efforts, NoParent, INTERPRETED, MAXIMAL
    <2> QED BY <2>1, <1>3, <1>6, NewCFType
  <1>12. cfs' \in Seq(CFType) /\ Grown(old, cfs') /\ Len(cfs') = new /\ cfs'[new] = cf
    BY <1>1, <1>4, <1>9, <1>10, <1>11, GrownByOne
  <1>13. VersionOf(new, f)' /\ cfs'[new].sig = sig /\ cfs'[new].effort > effort
    <2>1. new \in 1..Len(cfs')
      BY <1>1, <1>4, <1>12
    <2>2. effort + 1 > effort
      BY <1>6 DEF Efforts, INTERPRETED, MAXIMAL
    <2> QED BY <2>1, <2>2, <1>11, <1>12 DEF VersionOf
  <1>14. PICK os, seq : os = vers[f] /\ seq = Replace(os, v, new)
    OBVIOUS
  <1>15. os \in Seq(Nat) /\ Len(os) \in Nat /\ DOMAIN os = 1..Len(os)
    BY <1>3, <1>4, <1>14
  <1>16. PICK i \in 1..Len(os) : os[i] = v
    BY <1>9, <1>14, <1>15 DEF Range
  <1>17. \A j, k \in 1..Len(os) : old[os[j]].sig = old[os[k]].sig => j = k
    BY <1>1, <1>3, <1>14, SMTT(30) DEF TierInv, VersionsOK, OneVersionPerSignature
  <1>18. \A j \in 1..Len(os) : os[j] = v => j = i
    BY <1>16, <1>17
  <1>19. /\ seq \in Seq(Nat) /\ Len(seq) = Len(os) /\ seq[Len(seq)] = new
         /\ \A k \in 1..(Len(os) - 1) : seq[k] = IF k < i THEN os[k] ELSE os[k + 1]
    <2>1. /\ Replace(os, v, new) \in Seq(Nat)
          /\ Len(Replace(os, v, new)) = Len(os)
          /\ Replace(os, v, new)[Len(os)] = new
          /\ \A k \in 1..(Len(os) - 1) : Replace(os, v, new)[k] = IF k < i THEN os[k] ELSE os[k + 1]
      <3>1. os \in Seq(Nat) /\ new \in Nat /\ i \in 1..Len(os) /\ OnlyAt(os, v, i)
        BY <1>4, <1>15, <1>16, <1>18 DEF OnlyAt
      <3> QED BY <3>1, ReplaceEntry
    <2> QED BY <2>1, <1>14
  <1>20. /\ versions' \in [CLFunctions -> Seq(Nat)] /\ versions'[f] = seq
         /\ \A g \in CLFunctions : g # f => versions'[g] = versions[g]
    BY <1>1, <1>3, <1>4, <1>9, <1>14, <1>19
  <1>21. PICK from : from = [k \in 1..(Len(os) - 1) |-> IF k < i THEN k ELSE k + 1]
    OBVIOUS
  <1>22. \A k \in 1..(Len(os) - 1) : /\ from[k] = (IF k < i THEN k ELSE k + 1)
                                     /\ from[k] \in 1..Len(os) /\ from[k] # i
                                     /\ seq[k] = os[from[k]]
    BY <1>15, <1>16, <1>19, <1>21, SMTT(30)
  <1>23. \A j, k \in 1..(Len(os) - 1) : from[j] = from[k] => j = k
    BY <1>15, <1>16, <1>22
  <1>24. Drawn(seq, from, versions[f])
    <2>1. Drawn(seq, from, os)
      BY <1>19, <1>22, <1>23 DEF Drawn
    <2> QED BY <2>1, <1>1, <1>14
  <1>25. \A k \in 1..(Len(seq) - 1) : cfs[seq[k]].sig # cfs'[seq[Len(seq)]].sig
    <2>1. \A k \in 1..(Len(os) - 1) : old[os[from[k]]].sig # sig
      BY <1>5, <1>16, <1>17, <1>22
    <2>2. \A k \in 1..(Len(os) - 1) : old[seq[k]].sig # sig
      BY <2>1, <1>22
    <2>3. cfs'[seq[Len(seq)]].sig = sig
      BY <1>13, <1>19
    <2> QED BY <2>2, <2>3, <1>1, <1>19
  <1>26. VersionsOK'
    <2>1. Len(seq) >= 1 /\ VersionOf(seq[Len(seq)], f)'
      BY <1>13, <1>15, <1>16, <1>19
    <2>2. Grown(cfs, cfs')
      BY <1>1, <1>12
    <2> QED BY <2>1, <2>2, <1>3, <1>12, <1>19, <1>20, <1>24, <1>25, NewVersionsOK
  <1>27. /\ DOMAIN seq = 1..Len(os) /\ Len(os) \in 1..Len(os)
    BY <1>15, <1>16, <1>19
  <1>28. ActiveOf(new, f)'
    BY <1>19, <1>20, <1>27 DEF ActiveOf, Range
  <1>29. ASSUME NEW g \in CLFunctions, NEW w \in Nat, ActiveOf(w, g), w # v
         PROVE  ActiveOf(w, g)'
    <2>1. CASE g # f
      BY <2>1, <1>20, <1>29 DEF ActiveOf
    <2>2. CASE g = f
      <3>1. PICK j \in 1..Len(os) : os[j] = w
        BY <2>2, <1>1, <1>14, <1>15, <1>29 DEF ActiveOf, Range
      <3>2. PICK k \in 1..(Len(os) - 1) : j = IF k < i THEN k ELSE k + 1
        <4>1. j # i
          BY <3>1, <1>16, <1>29
        <4>2. CASE j < i
          <5>1. j \in 1..(Len(os) - 1)
            BY <4>2, <1>15, <1>16
          <5> QED BY <5>1, <4>2
        <4>3. CASE ~ (j < i)
          <5>1. j - 1 \in 1..(Len(os) - 1) /\ ~ (j - 1 < i) /\ (j - 1) + 1 = j
            BY <4>1, <4>3, <1>15, <1>16
          <5> QED BY <5>1
        <4> QED BY <4>2, <4>3
      <3>3. seq[k] = w /\ k \in DOMAIN seq
        BY <3>1, <3>2, <1>15, <1>19, <1>27
      <3>4. w \in Range(seq)
        BY <3>3 DEF Range
      <3> QED BY <2>2, <3>4, <1>20 DEF ActiveOf
    <2> QED BY <2>1, <2>2
  <1> QED BY <1>1, <1>4, <1>5, <1>12, <1>13, <1>20, <1>26, <1>28, <1>29

\* reoptCompiledFuncInternal replaces a version, clears its slots and calls the new one.
LEMMA ReoptKeepsInv ==
  ASSUME TieringAssumption, TierInv, Reopt
  PROVE  TierInv' /\ StepOK
  <1>1. PICK t, cs, acts, v, new, f :
           /\ t = Top /\ cs = calls /\ acts = activity
           /\ v = Top.cf /\ new = Len(cfs) + 1 /\ f = Top.callee.f
    OBVIOUS
  <1>2. /\ calls # <<>> /\ t.pc = "entry" /\ cs \in Seq(CallType) /\ t = cs[Len(cs)] /\ cs # <<>>
        /\ UNCHANGED <<osr_versions, target>> /\ acts \in Seq(ActivityType)
        /\ cfs \in Seq(CFType)
    BY <1>1 DEF Reopt, TierInv, TypeOK, Top
  <1>3. /\ t \in CallType /\ t.callee.f \in CLFunctions
        /\ VersionOf(t.cf, t.callee.f) /\ VersionOf(t.chosen, t.callee.f)
        /\ RewriterOK(t, acts[Len(acts)])
        /\ Len(acts) \in Nat /\ Len(acts) - Waits(t) \in Nat
    BY <1>1, <1>2, TopFacts
  <1>4. /\ cfs' \in Seq(CFType) /\ Grown(cfs, cfs') /\ new \in Nat
        /\ VersionOf(new, f)' /\ ActiveOf(new, f)'
        /\ cfs'[new].sig = cfs[v].sig /\ cfs'[new].effort > cfs[v].effort
        /\ \A g \in CLFunctions, w \in Nat : ActiveOf(w, g) /\ w # v => ActiveOf(w, g)'
        /\ versions' \in [CLFunctions -> Seq(Nat)] /\ VersionsOK'
    BY <1>1, ReoptVersions
  <1>5. PICK keep \in SUBSET {s \in DOMAIN cached : v \notin cached[s]} :
          cached' = [s \in keep |-> cached[s]]
    BY <1>1 DEF Reopt, InvalidateCallsites, Cache!Break, Restrict, Cache!Restrict
  <1>6. activity' = Doomed(acts, v)
    BY <1>1 DEF Reopt, InvalidateCallsites, Cache!Break, Doomed
  <1>7. /\ activity' \in Seq(ActivityType) /\ Len(activity') = Len(acts)
        /\ \A k \in 1..Len(acts) :
              /\ activity'[k].on = acts[k].on
              /\ activity'[k].dead <=> (acts[k].dead \/ v \in acts[k].on)
    BY <1>2, <1>6, DoomActivity
  <1>8. calls' = WithCf(cs, new)
    BY <1>1 DEF Reopt, WithCf
  <1>9. PICK c \in CallType :
           /\ TopSet(cs, c, calls') /\ c.pc = t.pc /\ c.callee = t.callee /\ c.cf = new
           /\ c.chosen = t.chosen /\ c.via = t.via
    <2>1. new \in Nat /\ cs \in Seq(CallType) /\ cs # <<>> /\ t = cs[Len(cs)]
      BY <1>2, <1>4
    <2> QED BY <2>1, <1>8, SetTopCf
  <1>10. CacheType'
    <2>1. target' = [s \in Slots |-> target'[s]] /\ DOMAIN cached \subseteq Slots
      BY <1>2 DEF TierInv, TypeOK, CacheType
    <2>2. cached' = [s \in DOMAIN cached' |-> cached'[s]] /\ DOMAIN cached' \subseteq DOMAIN cached
      BY <1>5
    <2> QED BY <2>1, <2>2 DEF CacheType
  <1>11. SlotsOK'
    <2> SUFFICES ASSUME NEW s \in DOMAIN cached', NEW g, g = target'[s]
                 PROVE  /\ g \in [callee : Callees, cf : Nat]
                        /\ VersionOf(g.cf, g.callee.f)'
                        /\ ActiveOf(g.cf, g.callee.f)'
                        /\ ~ IsInterpreted(g.cf)'
                        /\ g.cf \in cached'[s]
      BY DEF SlotsOK
    <2>1. s \in DOMAIN cached /\ g = target[s] /\ v \notin cached[s] /\ cached'[s] = cached[s]
      BY <1>2, <1>5
    <2>2. /\ g \in [callee : Callees, cf : Nat]
          /\ VersionOf(g.cf, g.callee.f) /\ ActiveOf(g.cf, g.callee.f)
          /\ ~ IsInterpreted(g.cf) /\ g.cf \in cached[s]
      BY <2>1 DEF TierInv, SlotsOK
    <2>3. g.cf # v /\ g.cf \in Nat /\ g.callee.f \in CLFunctions
      BY <2>1, <2>2 DEF Callees
    <2>4. VersionOf(g.cf, g.callee.f)' /\ ~ IsInterpreted(g.cf)'
      BY <2>2, <1>2, <1>4, VersionKept, Zenon
    <2> QED BY <2>1, <2>2, <2>3, <2>4, <1>4
  <1>12. ASSUME NEW d \in CallType, NEW j \in 1..Len(acts), NEW a, NEW b, a = acts[j], b = activity'[j],
                VersionOf(d.chosen, d.callee.f), RewriterOK(d, a)
         PROVE  RewriterOK(d, b)'
    <2>1. d.chosen \in Nat /\ d.callee.f \in CLFunctions
      BY DEF CallType, Callees
    <2>2. b.on = a.on /\ (b.dead <=> (a.dead \/ v \in a.on))
      BY <1>7, <1>12
    <2> SUFFICES ASSUME d.via = "rewriter", d.pc # "resolved"
                 PROVE  /\ d.chosen \in b.on
                        /\ ~ IsInterpreted(d.chosen)'
                        /\ b.dead \/ ActiveOf(d.chosen, d.callee.f)'
      BY DEF RewriterOK
    <2>3. d.chosen \in a.on /\ ~ IsInterpreted(d.chosen) /\ (a.dead \/ ActiveOf(d.chosen, d.callee.f))
      BY <1>12 DEF RewriterOK
    <2>4. ~ IsInterpreted(d.chosen)'
      BY <2>3, <1>2, <1>4, <1>12, VersionKept, Zenon
    <2>5. b.dead \/ ActiveOf(d.chosen, d.callee.f)'
      <3>1. CASE d.chosen = v
        BY <3>1, <2>2, <2>3
      <3>2. CASE d.chosen # v
        BY <3>2, <2>1, <2>2, <2>3, <1>4
      <3> QED BY <3>1, <3>2
    <2> QED BY <2>2, <2>3, <2>4, <2>5
  <1>13. \A d \in CallType, j \in 1..(Len(activity) - Waits(t)) : \A a, b :
           (/\ a = activity[j] /\ b = activity'[j] /\ VersionOf(d.chosen, d.callee.f)
            /\ RewriterOK(d, a)) => RewriterOK(d, b)'
    <2>1. \A j \in 1..(Len(acts) - Waits(t)) : j \in 1..Len(acts)
      BY <1>3 DEF Waits
    <2> QED BY <2>1, <1>1, <1>12
  <1>14. \A b : b = activity'[Len(activity')] => RewriterOK(c, b)'
    <2>1. CASE c.via # "rewriter"
      BY <2>1 DEF RewriterOK
    <2>2. CASE c.via = "rewriter"
      <3>1. PICK a, n : n = Len(acts) /\ a = acts[n]
        OBVIOUS
      <3>2. n \in 1..Len(acts)
        <4>1. Waits(t) = 1
          BY <2>2, <1>9 DEF Waits
        <4> QED BY <3>1, <4>1, <1>3
      <3>3. RewriterOK(c, a)
        BY <3>1, <1>2, <1>3, <1>9 DEF RewriterOK
      <3>4. VersionOf(c.chosen, c.callee.f)
        BY <1>3, <1>9
      <3> QED BY <3>1, <3>2, <3>3, <3>4, <1>7, <1>12
    <2> QED BY <2>1, <2>2
  <1>15. /\ Len(activity') = (Len(activity) - Waits(t)) + Waits(c)
    <2>1. Waits(c) = Waits(t) /\ Waits(t) \in Nat
      BY <1>9 DEF Waits
    <2> QED BY <2>1, <1>1, <1>3, <1>7
  <1>16. VersionOf(c.cf, c.callee.f)' /\ VersionOf(c.chosen, c.callee.f)' /\ ActiveOf(c.cf, c.callee.f)'
    <2>1. VersionOf(t.chosen, t.callee.f)'
      BY <1>2, <1>3, <1>4, VersionKept
    <2> QED BY <2>1, <1>1, <1>4, <1>9
  <1>17. OSRVersionsOK' /\ osr_versions' = [g \in CLFunctions |-> osr_versions'[g]]
    BY <1>2, <1>4, OSRKept DEF TierInv, TypeOK
  <1>18. TopSet(calls, c, calls') /\ c.pc # "resolved"
    BY <1>1, <1>2, <1>9
  <1>19. TierInv'
    BY <1>1, <1>2, <1>4, <1>7, <1>10, <1>11, <1>13, <1>14, <1>15, <1>16, <1>17, <1>18, TopKeepsInv
  <1>20. cfs'[new].effort >= cfs[v].effort
    <2>1. cfs[v] \in CFType /\ cfs'[new] \in CFType
      BY <1>1, <1>2, <1>3, <1>4, ElementOfSeq DEF VersionOf
    <2>2. cfs[v].effort \in Int /\ cfs'[new].effort \in Int
      BY <2>1 DEF CFType, Efforts, INTERPRETED, MAXIMAL
    <2> QED BY <2>2, <1>4
  <1>21. Carried
    BY <1>1, <1>2, <1>4, <1>9, <1>18, <1>20, TopCarried
  <1>22. Succeeded
    <2> SUFFICES ASSUME NEW g \in CLFunctions, NEW u \in Nat, ActiveOf(u, g)
                 PROVE  \E w \in Nat : /\ ActiveOf(w, g)' /\ cfs'[w].sig = cfs[u].sig
                                       /\ cfs'[w].effort >= cfs[u].effort
      BY DEF Succeeded
    <2>1. CASE u # v
      BY <2>1, <1>4, SucceededBySelf
    <2>2. CASE u = v
      <3>1. g = f
        BY <2>2, <1>1, <1>3, ActiveIsVersion DEF VersionOf
      <3> QED BY <2>2, <3>1, <1>4, <1>20
    <2> QED BY <2>1, <2>2
  <1> QED BY <1>4, <1>19, <1>21, <1>22 DEF StepOK

\* At the start nothing is compiled.
LEMMA InitInv == Init => TierInv
  <1> SUFFICES ASSUME Init PROVE TierInv
    OBVIOUS
  <1>1. /\ cfs = <<>> /\ calls = <<>> /\ activity = <<>> /\ Len(calls) = 0 /\ Len(activity) = 0
        /\ DOMAIN cached = {} /\ versions = [f \in CLFunctions |-> <<>>]
    BY DEF Init, Cache!Init
  <1>2. TypeOK
    BY DEF Init, Cache!Init, TypeOK, CacheType
  <1>3. \A f \in CLFunctions : Len(versions[f]) = 0
    BY <1>1
  <1>4. VersionsOK
    BY <1>3 DEF VersionsOK, OneVersionPerSignature
  <1>5. OSRVersionsOK
    BY DEF Init, OSRVersionsOK
  <1>6. CallsOK /\ SlotsOK
    BY <1>1 DEF CallsOK, SlotsOK
  <1>7. ActivityOK
    <2>1. PICK at : at = [k \in 0..0 |-> 0]
      OBVIOUS
    <2>2. at \in [0..0 -> Nat] /\ at[0] = 0
      BY <2>1
    <2>3. Placed(calls, Len(activity), at) /\ RewritersOK(at)
      BY <2>2, <1>1 DEF Placed, RewritersOK
    <2> QED BY <2>3 DEF ActivityOK
  <1> QED BY <1>2, <1>4, <1>5, <1>6, <1>7 DEF TierInv

\* Nothing changes.
LEMMA StutterKeepsInv ==
  ASSUME TierInv, UNCHANGED vars
  PROVE  TierInv' /\ StepOK
  <1>1. UNCHANGED <<cfs, versions, osr_versions, calls, target, cached, activity>>
    BY DEF vars
  <1>2. cfs' \in Seq(CFType) /\ Grown(cfs, cfs')
    BY <1>1 DEF TierInv, TypeOK, Grown
  <1>3. VersionsOK' /\ SlotsOK' /\ OSRVersionsOK'
    BY <1>1, <1>2, VersionsKept, SlotsKept, OSRKept
  <1>4. TypeOK'
    BY <1>1 DEF TierInv, TypeOK, CacheType
  <1>5. CallsOK'
    BY <1>1 DEF TierInv, CallsOK, VersionOf, ActiveOf
  <1>6. ActivityOK'
    <2>1. PICK at : Placed(calls, Len(activity), at) /\ RewritersOK(at)
      BY DEF TierInv, ActivityOK
    <2>2. RewritersOK(at)'
      BY <2>1, <1>1 DEF RewritersOK, RewriterOK, IsInterpreted, ActiveOf
    <2> QED BY <2>1, <2>2, <1>1 DEF ActivityOK
  <1>7. StepOK
    BY <1>1, <1>2, SameStepOK DEF StillActive, ActiveOf
  <1> QED BY <1>3, <1>4, <1>5, <1>6, <1>7 DEF TierInv

\* Every step keeps the invariant, and is one that StepOK describes.
LEMMA NextKeepsInv ==
  ASSUME TierInv, [Next]_vars
  PROVE  TierInv' /\ StepOK
  BY TieringAssumption, RuntimeCallKeepsInv, CachedCallKeepsInv, PrepareCallKeepsInv,
     EnterBodyKeepsInv, ReoptKeepsInv, BackedgeKeepsInv, CommitKeepsInv, ReturnKeepsInv,
     StutterKeepsInv DEF Next

\* The invariant holds in every state.
LEMMA TierInvHolds == Spec => []TierInv
  BY InitInv, NextKeepsInv, PTL DEF Spec

------------------------------------------------------------------------------
\* Nobody enters a version that has been replaced, and no slot is left that would,
\* for any options, thresholds and recursion, with bound methods or without: _doReopt
\* always finds the version it is asked to replace.
THEOREM OnlyActiveVersionsEntered == Spec => []EntersActiveVersion
  <1>1. TierInv => EntersActiveVersion
    <2> SUFFICES ASSUME TierInv PROVE EntersActiveVersion
      OBVIOUS
    <2>1. CachedCallsActive
      BY DEF TierInv, SlotsOK, CachedCallsActive, ActiveOf
    <2>2. \A k \in 1..Len(calls) : calls[k].pc \in {"resolved", "entry"} =>
            calls[k].cf \in Range(versions[calls[k].callee.f])
      BY DEF TierInv, CallsOK, ActiveOf
    <2> QED BY <2>1, <2>2 DEF EntersActiveVersion
  <1> QED BY <1>1, TierInvHolds, PTL

\* A step never lowers the tier of a running activation or of the version the next
\* call with a signature gets: a recompiled version has the next effort, an OSR version
\* not less than the one it continues.
THEOREM TiersNeverFall == Spec => TiersOnlyRise
  <1> DEFINE Rise ==
        /\ \A k \in 1..Len(calls) : k <= Len(calls') =>
             cfs'[calls'[k].cf].effort >= cfs[calls[k].cf].effort
        /\ \A f \in CLFunctions, cls \in Classes :
             ActiveEffort(f, cls)' >= ActiveEffort(f, cls)
  <1>1. ASSUME TierInv, TierInv', [Next]_vars
        PROVE  Rise
    <2>1. StepOK
      BY <1>1, NextKeepsInv
    <2>2. \A k \in 1..Len(calls) : k <= Len(calls') =>
             cfs'[calls'[k].cf].effort >= cfs[calls[k].cf].effort
      BY <2>1 DEF StepOK, Carried
    <2>3. ASSUME NEW f \in CLFunctions, NEW cls \in Classes
          PROVE  ActiveEffort(f, cls)' >= ActiveEffort(f, cls)
      <3>0. ASSUME OneVersionPerSignature', NEW i \in Fitting(f, cls)'
            PROVE  ActiveEffort(f, cls)' = cfs'[versions'[f][i]].effort
        <4>1. i \in 1..Len(versions'[f])
          BY DEF Fitting
        <4>2. Fitting(f, cls)' = {i}
          BY <3>0 DEF Fitting, OneVersionPerSignature
        <4>3. Min({i}) = i
          BY <4>1, MinOfOne
        <4> QED BY <4>2, <4>3 DEF ActiveEffort, FirstFitting
      <3>1. /\ OneVersionPerSignature /\ OneVersionPerSignature'
            /\ versions \in [CLFunctions -> Seq(Nat)] /\ versions' \in [CLFunctions -> Seq(Nat)]
            /\ cfs \in Seq(CFType) /\ cfs' \in Seq(CFType)
        BY <1>1 DEF TierInv, TypeOK, VersionsOK
      <3>2. CASE Fitting(f, cls) = {}
        <4>1. ActiveEffort(f, cls) = 0
          BY <3>2 DEF ActiveEffort, INTERPRETED
        <4>2. CASE Fitting(f, cls)' = {}
          <5>1. ActiveEffort(f, cls)' = 0
            BY <4>2 DEF ActiveEffort, INTERPRETED
          <5> QED BY <4>1, <5>1
        <4>3. CASE Fitting(f, cls)' # {}
          <5>1. PICK i : i \in Fitting(f, cls)'
            BY <4>3
          <5>2. ActiveEffort(f, cls)' = cfs'[versions'[f][i]].effort
            BY <5>1, <3>0, <3>1
          <5>3. i \in 1..Len(versions'[f])
            BY <5>1 DEF Fitting
          <5>4. versions'[f][i] \in 1..Len(cfs')
            BY <5>3, <1>1 DEF TierInv, VersionsOK, VersionOf
          <5>5. cfs'[versions'[f][i]] \in CFType
            BY <5>4, <3>1, ElementOfSeq
          <5>6. cfs'[versions'[f][i]].effort >= 0
            BY <5>5 DEF CFType, Efforts, INTERPRETED, MAXIMAL
          <5> QED BY <4>1, <5>2, <5>6
        <4> QED BY <4>2, <4>3
      <3>3. CASE Fitting(f, cls) # {}
        <4>1. PICK i : i \in Fitting(f, cls)
          BY <3>3
        <4>2. PICK v : v = versions[f][i]
          OBVIOUS
        <4>3. /\ i \in 1..Len(versions[f]) /\ cfs[v].sig = cls
              /\ ActiveEffort(f, cls) = cfs[v].effort
          BY <4>1, <4>2, <3>1, FirstFittingIs DEF ActiveEffort
        <4>4. ActiveOf(v, f) /\ v \in Nat
          BY <4>2, <4>3, <3>1 DEF ActiveOf, Range
        <4>5. PICK w \in Nat : /\ ActiveOf(w, f)' /\ cfs'[w].sig = cfs[v].sig
                               /\ cfs'[w].effort >= cfs[v].effort
          BY <4>4, <2>1 DEF StepOK, Succeeded
        <4>6. PICK j \in 1..Len(versions'[f]) : versions'[f][j] = w
          BY <4>5, <3>1 DEF ActiveOf, Range
        <4>7. j \in Fitting(f, cls)'
          BY <4>3, <4>5, <4>6 DEF Fitting
        <4>8. ActiveEffort(f, cls)' = cfs'[w].effort
          BY <4>6, <4>7, <3>0, <3>1
        <4> QED BY <4>3, <4>5, <4>8
      <3> QED BY <3>2, <3>3
    <2> QED BY <2>2, <2>3
  <1>2. Spec => [][Rise]_vars
    BY <1>1, TierInvHolds, PTL DEF Spec
  <1> QED BY <1>2 DEF TiersOnlyRise

------------------------------------------------------------------------------
\* No call goes through an instancemethod.
NoBoundCalls == TRUE \notin BoundCalls

\* At the start nothing runs.
LEMMA InitFits == Init => FitOK
  BY DEF Init, Cache!Init, FitOK

\* What fits goes on to fit: versions keep their signatures, and activations move only to
\* versions of the same one.
LEMMA OldFits ==
  ASSUME TierInv, FitOK, cfs' \in Seq(CFType), StepOK
  PROVE  /\ \A k \in 1..Len(calls) : k <= Len(calls') =>
              /\ cfs'[calls'[k].cf].sig = calls'[k].callee.cls
              /\ cfs'[calls'[k].chosen].sig = calls'[k].callee.cls
         /\ \A s \in DOMAIN cached : cfs'[target[s].cf].sig = target[s].callee.cls
         /\ calls # <<>> => cfs'[Top.chosen].sig = Top.callee.cls
  <1>1. cfs \in Seq(CFType) /\ calls \in Seq(CallType) /\ Grown(cfs, cfs') /\ Carried
    BY DEF TierInv, TypeOK, StepOK
  <1>2. \A k \in 1..Len(calls) : cfs'[calls[k].chosen].sig = calls[k].callee.cls
    <2> SUFFICES ASSUME NEW k \in 1..Len(calls)
                 PROVE  cfs'[calls[k].chosen].sig = calls[k].callee.cls
      OBVIOUS
    <2>1. PICK v, f : v = calls[k].chosen /\ VersionOf(v, f)
      BY DEF TierInv, CallsOK
    <2>2. cfs'[v].sig = cfs[v].sig
      BY <2>1, <1>1, VersionKept
    <2> QED BY <2>1, <2>2 DEF FitOK
  <1>3. \A k \in 1..Len(calls) : k <= Len(calls') =>
              /\ cfs'[calls'[k].cf].sig = calls'[k].callee.cls
              /\ cfs'[calls'[k].chosen].sig = calls'[k].callee.cls
    BY <1>1, <1>2 DEF Carried, FitOK
  <1>4. \A s \in DOMAIN cached : cfs'[target[s].cf].sig = target[s].callee.cls
    <2> SUFFICES ASSUME NEW s \in DOMAIN cached
                 PROVE  cfs'[target[s].cf].sig = target[s].callee.cls
      OBVIOUS
    <2>1. PICK v, f : v = target[s].cf /\ VersionOf(v, f)
      BY DEF TierInv, SlotsOK
    <2>2. cfs'[v].sig = cfs[v].sig
      BY <2>1, <1>1, VersionKept
    <2> QED BY <2>1, <2>2 DEF FitOK
  <1>5. calls # <<>> => cfs'[Top.chosen].sig = Top.callee.cls
    BY <1>1, <1>2, TopIsCall DEF Top
  <1> QED BY <1>3, <1>4, <1>5

\* A call that was pushed fits, and the slots are the old ones.
LEMMA PushFits ==
  ASSUME TierInv, FitOK, TierInv', StepOK, NEW c \in CallType, calls' = Append(calls, c),
         cfs'[c.cf].sig = c.callee.cls, c.chosen = c.cf, UNCHANGED <<target, cached>>
  PROVE  FitOK'
  <1>1. calls \in Seq(CallType) /\ cfs' \in Seq(CFType)
    BY DEF TierInv, TypeOK
  <1>2. /\ Len(calls') = Len(calls) + 1 /\ calls'[Len(calls) + 1] = c /\ Len(calls) \in Nat
    BY <1>1
  <1>3. \A k \in 1..Len(calls') : k = Len(calls) + 1 \/ (k \in 1..Len(calls) /\ k <= Len(calls'))
    BY <1>2
  <1>4. \A k \in 1..Len(calls') : /\ cfs'[calls'[k].cf].sig = calls'[k].callee.cls
                                  /\ cfs'[calls'[k].chosen].sig = calls'[k].callee.cls
    BY <1>1, <1>2, <1>3, OldFits
  <1>5. \A s \in DOMAIN cached' : cfs'[target'[s].cf].sig = target'[s].callee.cls
    BY <1>1, OldFits
  <1> QED BY <1>4, <1>5 DEF FitOK

\* No call was pushed, and the slots have not come to more.
LEMMA NoPushFits ==
  ASSUME TierInv, FitOK, TierInv', StepOK, Len(calls') <= Len(calls),
         DOMAIN cached' \subseteq DOMAIN cached, UNCHANGED target
  PROVE  FitOK'
  <1>1. cfs' \in Seq(CFType) /\ Len(calls) \in Nat /\ Len(calls') \in Nat
    BY DEF TierInv, TypeOK
  <1>2. \A k \in 1..Len(calls') : k \in 1..Len(calls) /\ k <= Len(calls')
    BY <1>1
  <1>3. \A k \in 1..Len(calls') : /\ cfs'[calls'[k].cf].sig = calls'[k].callee.cls
                                  /\ cfs'[calls'[k].chosen].sig = calls'[k].callee.cls
    BY <1>1, <1>2, OldFits
  <1>4. \A s \in DOMAIN cached' : cfs'[target'[s].cf].sig = target'[s].callee.cls
    BY <1>1, OldFits
  <1> QED BY <1>3, <1>4 DEF FitOK

\* resolveCLFunc chooses a version by the class of the argument.
LEMMA RuntimeCallFits ==
  ASSUME TieringAssumption, TierInv, FitOK, NEW site \in Sites \cup {NoSite},
         NEW callee \in Callees, RuntimeCall(site, callee)
  PROVE  FitOK'
  <1>1. PICK f, cls : f = callee.f /\ cls = callee.cls
    OBVIOUS
  <1>2. f \in CLFunctions /\ cls \in Classes
    BY <1>1 DEF Callees
  <1>3. PICK cf : /\ Fitting(f, cls) # {} => /\ cf = FirstFitting(f, cls)
                                             /\ UNCHANGED <<cfs, versions>>
                  /\ Fitting(f, cls) = {} =>
                       /\ cf = Len(cfs) + 1
                       /\ cfs' = Append(cfs, NewCF(f, cls, InitialEffort, NoParent))
                       /\ versions' = [versions EXCEPT ![f] = Append(@, cf)]
                  /\ calls' = Append(calls, Call(callee, site, cf, "resolved",
                                      IF site = NoSite THEN "plain" ELSE "rewriter"))
    BY <1>1 DEF RuntimeCall
  <1>4. cf \in Nat /\ cfs'[cf].sig = cls
    <2>1. CASE Fitting(f, cls) = {}
      <3>1. Len(cfs) \in Nat /\ cf = Len(cfs) + 1
        BY <2>1, <1>3 DEF TierInv, TypeOK
      <3>2. cfs'[cf] = NewCF(f, cls, InitialEffort, NoParent)
        BY <2>1, <3>1, <1>3 DEF TierInv, TypeOK
      <3> QED BY <3>1, <3>2 DEF NewCF
    <2>2. CASE Fitting(f, cls) # {}
      <3>1. PICK i : i \in Fitting(f, cls)
        BY <2>2
      <3>2. OneVersionPerSignature /\ versions[f] \in Seq(Nat)
        BY <1>2 DEF TierInv, VersionsOK, TypeOK
      <3>3. i \in 1..Len(versions[f]) /\ cf = versions[f][i] /\ cfs[cf].sig = cls
        BY <2>2, <3>1, <3>2, <1>2, <1>3, FirstFittingIs
      <3> QED BY <2>2, <3>2, <3>3, <1>3
    <2> QED BY <2>1, <2>2
  <1>5. PICK c : c = Call(callee, site, cf, "resolved",
                          IF site = NoSite THEN "plain" ELSE "rewriter")
    OBVIOUS
  <1>6. c \in CallType /\ c.callee = callee /\ c.cf = cf /\ c.chosen = cf
    BY <1>4, <1>5 DEF Call, CallType
  <1>7. calls' = Append(calls, c) /\ UNCHANGED <<target, cached>>
    BY <1>3, <1>5 DEF RuntimeCall, cacheVars, Cache!Begin
  <1>8. TierInv' /\ StepOK
    BY RuntimeCallKeepsInv
  <1>9. cfs'[c.cf].sig = c.callee.cls
    BY <1>1, <1>4, <1>6
  <1> QED BY <1>6, <1>7, <1>8, <1>9, PushFits

\* The guards of a slot compare the class of the argument, if the call is not bound.
LEMMA CachedCallFits ==
  ASSUME TieringAssumption, NoBoundCalls, TierInv, FitOK, NEW s \in Slots, NEW callee \in Callees,
         CachedCall(s, callee)
  PROVE  FitOK'
  <1>1. PICK t, c : t = target[s] /\ c = Call(callee, s[1], t.cf, "entry", "slot")
    OBVIOUS
  <1>2. ~ callee.bound
    <2>1. callee.bound \in BoundCalls /\ callee.bound \in BOOLEAN
      BY DEF Callees, TieringAssumption
    <2> QED BY <2>1 DEF NoBoundCalls
  <1>3. /\ calls' = Append(calls, c) /\ UNCHANGED <<cfs, target, cached>>
        /\ s \in DOMAIN cached /\ t.callee.cls = callee.cls
    BY <1>1, <1>2 DEF CachedCall, Cache!Use, GuardsPass
  <1>4. t.cf \in Nat /\ cfs[t.cf].sig = callee.cls
    BY <1>1, <1>3 DEF TierInv, SlotsOK, FitOK
  <1>5. c \in CallType /\ c.callee = callee /\ c.cf = t.cf /\ c.chosen = t.cf
    <2>1. s[1] \in Sites
      BY DEF Slots
    <2> QED BY <2>1, <1>1, <1>4 DEF Call, CallType
  <1>6. TierInv' /\ StepOK
    BY CachedCallKeepsInv
  <1>7. cfs'[c.cf].sig = c.callee.cls
    BY <1>3, <1>4, <1>5
  <1> QED BY <1>3, <1>5, <1>6, <1>7, PushFits

\* The slot a commit fills calls the version resolved for the class it compares with.
LEMMA CommitFits ==
  ASSUME TierInv, FitOK, Commit
  PROVE  FitOK'
  <1>1. PICK t : t = Top
    OBVIOUS
  <1>2. PICK s \in Slots :
          /\ Cache!Publish(s)
          /\ target' = [target EXCEPT ![s] = [callee |-> t.callee, cf |-> t.chosen]]
    BY <1>1 DEF Commit
  <1>3. PICK new : /\ new = [callee |-> t.callee, cf |-> t.chosen]
                   /\ new.callee = t.callee /\ new.cf = t.chosen
    <2>1. \E new : new = [callee |-> t.callee, cf |-> t.chosen]
      OBVIOUS
    <2> QED BY <2>1
  <1>4. /\ calls # <<>> /\ calls' = Front(calls) /\ DOMAIN cached' = DOMAIN cached \cup {s}
    BY <1>2 DEF Commit, Cache!Publish
  <1>5. TierInv' /\ StepOK
    BY CommitKeepsInv
  <1>6. calls \in Seq(CallType) /\ cfs' \in Seq(CFType) /\ DOMAIN cached \subseteq Slots
    BY <1>5 DEF TierInv, TypeOK, CacheType
  <1>7. target = [r \in Slots |-> target[r]]
    BY DEF TierInv, TypeOK, CacheType
  <1>8. \A r \in Slots : target'[r] = IF r = s THEN new ELSE target[r]
    BY <1>2, <1>3, <1>7
  <1>9. \A k \in 1..Len(calls') : k \in 1..Len(calls) /\ k <= Len(calls')
    BY <1>4, <1>6 DEF Front
  <1>10. \A k \in 1..Len(calls') : /\ cfs'[calls'[k].cf].sig = calls'[k].callee.cls
                                   /\ cfs'[calls'[k].chosen].sig = calls'[k].callee.cls
    BY <1>5, <1>6, <1>9, OldFits
  <1>11. /\ \A r \in DOMAIN cached : cfs'[target[r].cf].sig = target[r].callee.cls
         /\ cfs'[new.cf].sig = new.callee.cls
    BY <1>1, <1>3, <1>4, <1>5, <1>6, OldFits
  <1>12. \A r \in DOMAIN cached' : cfs'[target'[r].cf].sig = target'[r].callee.cls
    BY <1>4, <1>6, <1>8, <1>11
  <1> QED BY <1>10, <1>12 DEF FitOK

\* The other steps push no call and fill no slot.
LEMMA OtherStepsPushNothing ==
  ASSUME TierInv,
         PrepareCall \/ EnterBody \/ Reopt \/ Backedge \/ NoCommit \/ Return \/ UNCHANGED vars
  PROVE  /\ Len(calls') <= Len(calls) /\ DOMAIN cached' \subseteq DOMAIN cached
         /\ UNCHANGED target
  <1>1. calls \in Seq(CallType) /\ Len(calls) \in Nat
    BY DEF TierInv, TypeOK
  <1>2. CASE PrepareCall \/ EnterBody
    BY <1>1, <1>2 DEF PrepareCall, EnterBody, cacheVars, Cache!GiveUp, Cache!Rely
  <1>3. CASE Reopt
    <2>1. PICK v : Cache!Break(v)
      BY <1>3 DEF Reopt, InvalidateCallsites
    <2>2. DOMAIN cached' \subseteq DOMAIN cached
      <3>1. PICK keep \in SUBSET {s \in DOMAIN cached : v \notin cached[s]} :
              cached' = Cache!Restrict(cached, keep)
        BY <2>1 DEF Cache!Break
      <3> QED BY <3>1 DEF Cache!Restrict
    <2> QED BY <1>1, <1>3, <2>2 DEF Reopt
  <1>4. CASE Backedge
    <2>1. UNCHANGED <<target, cached>>
      BY <1>4 DEF Backedge
    <2>2. \/ calls' = calls
          \/ \E n : calls' = [calls EXCEPT ![Len(calls)].cf = n]
      BY <1>4, Zenon DEF Backedge
    <2>3. Len(calls') = Len(calls)
      BY <1>1, <2>2
    <2> QED BY <1>1, <2>1, <2>3
  <1>5. CASE NoCommit \/ Return
    BY <1>1, <1>5, EmptySeq DEF NoCommit, Return, cacheVars, Cache!GiveUp, Cache!Finish, Front
  <1>6. CASE UNCHANGED vars
    BY <1>1, <1>6 DEF vars
  <1> QED BY <1>2, <1>3, <1>4, <1>5, <1>6

\* Every step keeps activations and slots on versions that fit.
LEMMA NextFits ==
  ASSUME NoBoundCalls, TierInv, FitOK, [Next]_vars
  PROVE  FitOK'
  <1>1. TierInv' /\ StepOK
    BY NextKeepsInv
  <1>2. ASSUME NEW callee \in Callees, NEW site \in Sites \cup {NoSite}, RuntimeCall(site, callee)
        PROVE  FitOK'
    BY <1>2, TieringAssumption, RuntimeCallFits
  <1>3. ASSUME NEW callee \in Callees, NEW s \in Slots, CachedCall(s, callee)
        PROVE  FitOK'
    BY <1>3, TieringAssumption, CachedCallFits
  <1>4. ASSUME \/ PrepareCall \/ EnterBody \/ Reopt \/ Backedge \/ NoCommit \/ Return
               \/ UNCHANGED vars
        PROVE  FitOK'
    BY <1>1, <1>4, OtherStepsPushNothing, NoPushFits
  <1> QED BY <1>2, <1>3, <1>4, CommitFits DEF Next

\* If no call goes through an instancemethod, every activation runs a version compiled
\* for the class of its argument, in the middle of a call too, and that version is the
\* only one of its signature: the class a slot compares is the class its version was
\* resolved for.  (For an instancemethod no class is compared, see GuardsPass.)
THEOREM OnlyFittingVersionsRun ==
  ASSUME NoBoundCalls
  PROVE  Spec => []RunsFittingVersion
  <1>1. Init => FitOK
    BY InitFits
  <1>2. TierInv /\ FitOK /\ [Next]_vars => FitOK'
    BY NextFits
  <1>3. TierInv /\ FitOK => RunsFittingVersion
    BY DEF TierInv, VersionsOK, FitOK, RunsFittingVersion
  <1> QED BY <1>1, <1>2, <1>3, TierInvHolds, PTL DEF Spec

=============================================================================
