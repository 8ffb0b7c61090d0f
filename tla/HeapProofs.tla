----------------------------- MODULE HeapProofs ------------------------------
(***************************************************************************)
(* Proofs about Heap and SmallHeap, for every layout of blocks and pages,  *)
(* every number of blocks and of objects.                                  *)
(***************************************************************************)
EXTENDS Heap, SequenceTheorems, WellFoundedInduction, TLAPS

(***************************************************************************)
(* The least number principle, from the well-foundedness of < on Nat.  It  *)
(* stands for induction below.                                             *)
(***************************************************************************)
\* A well-founded relation that has the pairs of <.
LEMMA LessIsWellFounded ==
  \E R : /\ IsWellFoundedOn(R, Nat)
         /\ \A x, y \in Nat : y < x => <<y, x>> \in R
  <1>1. \A x, y \in Nat : y < x => <<y, x>> \in OpToRel(<, Nat)
    BY DEF OpToRel
  <1> QED BY <1>1, NatLessThanWellFounded, Zenon

\* A set of numbers that is not empty has a least one.
LEMMA LeastNat ==
  ASSUME NEW T \in SUBSET Nat, T # {}
  PROVE  \E m \in T : \A k \in T : m <= k
  <1>1. PICK R : /\ IsWellFoundedOn(R, Nat)
                 /\ \A x, y \in Nat : y < x => <<y, x>> \in R
    BY LessIsWellFounded, Zenon
  <1>2. PICK m \in T : \A k \in T : <<k, m>> \notin R
    BY <1>1, WFMin, Zenon
  <1>3. \A k \in T : ~ (k < m)
    BY <1>1, <1>2
  <1> QED BY <1>2, <1>3

\* Min is that number.
LEMMA MinIsLeast ==
  ASSUME NEW T \in SUBSET Nat, T # {}
  PROVE  Min(T) \in T /\ \A k \in T : Min(T) <= k
  BY LeastNat DEF Min

\* Of two numbers, one of which may be negative.
LEMMA MinOfTwo ==
  ASSUME NEW x \in Int, NEW y \in Int
  PROVE  Min({x, y}) = IF x <= y THEN x ELSE y
  <1>1. \E m \in {x, y} : \A k \in {x, y} : m <= k
    OBVIOUS
  <1>2. Min({x, y}) \in {x, y} /\ \A k \in {x, y} : Min({x, y}) <= k
    BY <1>1 DEF Min
  <1> QED BY <1>2

\* A set of numbers with an upper bound has a greatest one.
LEMMA MaxIsGreatest ==
  ASSUME NEW T \in SUBSET Nat, T # {}, NEW bound \in Nat, \A k \in T : k <= bound
  PROVE  Max(T) \in T /\ \A k \in T : Max(T) >= k
  <1> DEFINE D == {d \in Nat : bound - d \in T}
  <1>1. \A k \in T : bound - k \in D
    OBVIOUS
  <1>2. PICK d \in D : \A e \in D : d <= e
    <2>1. D # {} /\ D \in SUBSET Nat
      BY <1>1
    <2> QED BY <2>1, LeastNat
  <1>3. bound - d \in T /\ \A k \in T : bound - d >= k
    BY <1>1, <1>2
  <1> QED BY <1>3 DEF Max

------------------------------------------------------------------------------
(***************************************************************************)
(* The list of large objects.  l holds the objects of L: its pointers      *)
(* agree in both directions, and the objects can be ranked so that each    *)
(* one comes after the one its prev pointer refers to, so following prev   *)
(* pointers ends, at the head.                                             *)
(***************************************************************************)
Ranked(l, L, rank) ==
  \A a \in L : rank[a] \in Nat /\ (l.prev[a] # HEAD => rank[l.prev[a]] < rank[a])

Linked(l, L) ==
  /\ l.head # NULL => l.head \in L /\ l.prev[l.head] = HEAD
  /\ \A a \in L :
       /\ l.next[a] # NULL => l.next[a] \in L /\ l.prev[l.next[a]] = a
       /\ l.prev[a] = HEAD => l.head = a
       /\ l.prev[a] # HEAD => l.prev[a] \in L /\ l.next[l.prev[a]] = a

ListOK(l, L) == L \subseteq Addresses /\ Linked(l, L) /\ \E rank : Ranked(l, L, rank)

\* An object put in front.
LEMMA PushFrontOK ==
  ASSUME HeapAssumption, NEW l, NEW L, ListOK(l, L), l.next = [a \in Addresses |-> l.next[a]],
         NEW obj \in Addresses \ L
  PROVE  ListOK(PushFront(l, obj), L \cup {obj})
  <1>0. NULL \notin Addresses /\ HEAD \notin Addresses /\ L \subseteq Addresses /\ NULL # HEAD
    BY DEF HeapAssumption, ListOK, NULL, HEAD
  <1>1. PICK m : m = PushFront(l, obj)
    OBVIOUS
  <1>2. /\ m.head = obj
        /\ \A a \in Addresses : m.next[a] = IF a = obj THEN l.head ELSE l.next[a]
        /\ \A a \in Addresses : m.prev[a] = IF a = obj THEN HEAD
                                            ELSE IF a = l.head THEN obj ELSE l.prev[a]
    BY <1>1 DEF PushFront
  <1>3. Linked(m, L \cup {obj})
    BY <1>0, <1>2 DEF ListOK, Linked
  <1>4. \E rank : Ranked(m, L \cup {obj}, rank)
    <2>1. PICK rank : Ranked(l, L, rank)
      BY DEF ListOK
    <2> DEFINE new == [a \in L \cup {obj} |-> IF a = obj THEN 0 ELSE rank[a] + 1]
    <2>2. Ranked(m, L \cup {obj}, new)
      BY <1>0, <1>2, <2>1 DEF ListOK, Linked, Ranked
    <2> QED BY <2>2
  <1> QED BY <1>0, <1>1, <1>3, <1>4 DEF ListOK

\* An object taken out.
LEMMA UnlinkOK ==
  ASSUME HeapAssumption, NEW l, NEW L, ListOK(l, L), NEW obj \in L
  PROVE  ListOK(Unlink(l, obj), L \ {obj})
  <1>0. NULL \notin Addresses /\ HEAD \notin Addresses /\ L \subseteq Addresses /\ NULL # HEAD
    BY DEF HeapAssumption, ListOK, NULL, HEAD
  <1>1. PICK m : m = Unlink(l, obj)
    OBVIOUS
  <1>2. /\ m.head = IF l.prev[obj] = HEAD THEN l.next[obj] ELSE l.head
        /\ \A a \in Addresses : m.next[a] = IF a = l.prev[obj] THEN l.next[obj] ELSE l.next[a]
        /\ \A a \in Addresses : m.prev[a] = IF a = l.next[obj] THEN l.prev[obj] ELSE l.prev[a]
    BY <1>1 DEF Unlink
  <1>3. PICK rank : Ranked(l, L, rank)
    BY DEF ListOK
  <1>4. l.prev[obj] # obj /\ l.next[obj] # obj
    BY <1>0, <1>3 DEF ListOK, Linked, Ranked
  <1>5. Linked(m, L \ {obj})
    BY <1>0, <1>2, <1>4 DEF ListOK, Linked
  <1>6. Ranked(m, L \ {obj}, rank)
    BY <1>0, <1>2, <1>3, <1>4 DEF ListOK, Linked, Ranked
  <1> QED BY <1>0, <1>1, <1>5, <1>6 DEF ListOK

\* To take it out once more changes nothing.
LEMMA UnlinkTwice ==
  ASSUME HeapAssumption, NEW l, NEW L, ListOK(l, L), NEW obj \in L
  PROVE  Unlink(Unlink(l, obj), obj) = Unlink(l, obj)
  <1>0. NULL \notin Addresses /\ HEAD \notin Addresses /\ L \subseteq Addresses /\ NULL # HEAD
    BY DEF HeapAssumption, ListOK, NULL, HEAD
  <1>1. PICK rank : Ranked(l, L, rank)
    BY DEF ListOK
  <1>2. l.prev[obj] # obj /\ l.next[obj] # obj
    BY <1>0, <1>1 DEF ListOK, Linked, Ranked
  <1>3. PICK m : m = Unlink(l, obj)
    OBVIOUS
  <1>4. /\ m.head = IF l.prev[obj] = HEAD THEN l.next[obj] ELSE l.head
        /\ m.next = [a \in Addresses |-> IF a = l.prev[obj] THEN l.next[obj] ELSE l.next[a]]
        /\ m.prev = [a \in Addresses |-> IF a = l.next[obj] THEN l.prev[obj] ELSE l.prev[a]]
        /\ m = [head |-> m.head, next |-> m.next, prev |-> m.prev]
    BY <1>3 DEF Unlink
  <1>5. m.prev[obj] = l.prev[obj] /\ m.next[obj] = l.next[obj]
    BY <1>0, <1>2, <1>4
  <1>6. /\ (IF m.prev[obj] = HEAD THEN m.next[obj] ELSE m.head) = m.head
        /\ [a \in Addresses |-> IF a = m.prev[obj] THEN m.next[obj] ELSE m.next[a]] = m.next
        /\ [a \in Addresses |-> IF a = m.next[obj] THEN m.prev[obj] ELSE m.prev[a]] = m.prev
    BY <1>4, <1>5
  <1>7. Unlink(m, obj) = m
    BY <1>4, <1>6 DEF Unlink
  <1> QED BY <1>3, <1>7

\* Following next pointers from the head meets the objects of L, and no others.
LEMMA ListReaches ==
  ASSUME HeapAssumption, NEW L, ListOK(links, L)
  PROVE  ListFrom(links.head) = L
  <1>0. L \subseteq Addresses
    BY DEF ListOK
  <1>1. ListFrom(links.head) \subseteq L
    BY <1>0 DEF ListFrom, ListOK, Linked
  <1>2. ASSUME NEW a \in L, NEW S \in SUBSET Addresses,
               links.head # NULL => links.head \in S,
               \A b \in S : links.next[b] # NULL => links.next[b] \in S
        PROVE  a \in S
    <2>1. PICK rank : Ranked(links, L, rank)
      BY DEF ListOK
    <2> DEFINE T == {rank[b] : b \in L \ S}
    <2> SUFFICES ASSUME a \notin S PROVE FALSE
      OBVIOUS
    <2>2. T \in SUBSET Nat /\ T # {}
      BY <2>1 DEF Ranked
    <2>3. PICK t \in T : \A k \in T : t <= k
      BY <2>2, LeastNat
    <2>4. PICK b \in L \ S : rank[b] = t
      BY <2>3
    <2>5. \A c \in L \ S : rank[b] <= rank[c]
      BY <2>3, <2>4
    <2>6. b # NULL
      BY <1>0 DEF HeapAssumption
    <2>7. CASE links.prev[b] = HEAD
      <3>1. links.head = b
        BY <2>7 DEF ListOK, Linked
      <3> QED BY <3>1, <2>6, <1>2
    <2>8. CASE links.prev[b] # HEAD
      <3>1. PICK c \in L : c = links.prev[b] /\ links.next[c] = b
        BY <2>8 DEF ListOK, Linked
      <3>2. rank[c] < rank[b] /\ rank[c] \in Nat /\ rank[b] \in Nat
        BY <2>1, <2>8, <3>1 DEF Ranked
      <3>3. c \in S
        BY <2>5, <3>2
      <3> QED BY <3>1, <3>3, <2>6, <1>2
    <2> QED BY <2>7, <2>8
  <1>3. L \subseteq ListFrom(links.head)
    BY <1>0, <1>2 DEF ListFrom
  <1> QED BY <1>1, <1>3

------------------------------------------------------------------------------
(***************************************************************************)
(* The arrays.                                                             *)
(***************************************************************************)
Kinds == {"elements", "attrs"}
ArrayType == [kind : Kinds, n : Nat, kept : Int, large : BOOLEAN, size : Nat]

LargeInv ==
  /\ arrays \in [InUse -> ArrayType] /\ InUse \subseteq Addresses
  /\ links.next = [a \in Addresses |-> links.next[a]]
  /\ ListOK(links, LargeObjs)
  /\ cur # NULL => cur \in LargeObjs

\* An array of n entries has room for n entries and a header, and no more than one
\* entry more.
LEMMA BytesOf ==
  ASSUME HeapAssumption, NEW n \in Nat
  PROVE  /\ Bytes(n) \in Nat
         /\ \A x \in Nat : Bytes(n) <= x => (x \div WORD) - 1 >= n
         /\ \A m \in Nat : n <= m => Bytes(n) <= Bytes(m)
  <1>1. WORD \in Nat /\ WORD > 0
    BY DEF HeapAssumption
  <1>2. Bytes(n) \in Nat /\ Bytes(n) = WORD * (n + 1)
    BY <1>1 DEF Bytes
  <1>3. ASSUME NEW x \in Nat, Bytes(n) <= x PROVE (x \div WORD) - 1 >= n
    <2>1. PICK q \in Nat : q = x \div WORD /\ x < WORD * q + WORD
      BY <1>1
    <2>2. WORD * (n + 1) < WORD * (q + 1)
      BY <1>1, <1>2, <1>3, <2>1
    <2>3. n + 1 < q + 1
      BY <1>1, <2>1, <2>2
    <2> QED BY <2>1, <2>3
  <1>4. ASSUME NEW m \in Nat, n <= m PROVE Bytes(n) <= Bytes(m)
    BY <1>1, <1>4 DEF Bytes
  <1> QED BY <1>2, <1>3, <1>4

\* The size class of what is not large.
LEMMA SizeClassFits ==
  ASSUME SmallHeapAssumption, NEW bytes \in Nat, ~ Large(bytes)
  PROVE  SizeClass(bytes) \in Nat /\ SizeClass(bytes) >= bytes
  <1>1. Sizes \in SUBSET Nat /\ Sizes # {} /\ BLOCK_SIZE \in Nat /\ \A s \in Sizes : s <= BLOCK_SIZE
    BY DEF SmallHeapAssumption
  <1>2. PICK max \in Sizes : max = Max(Sizes) /\ max >= bytes
    <2>1. Max(Sizes) \in Sizes
      BY <1>1, MaxIsGreatest
    <2>2. Max(Sizes) \in Nat
      BY <1>1, <2>1
    <2> QED BY <2>1, <2>2 DEF Large
  <1>3. PICK T : T = {s \in Sizes : s >= bytes}
    OBVIOUS
  <1>4. T \in SUBSET Nat /\ T # {}
    BY <1>1, <1>2, <1>3
  <1>5. Min(T) \in T
    BY <1>4, MinIsLeast
  <1> QED BY <1>1, <1>3, <1>5 DEF SizeClass

\* The pages of a large object hold it.
LEMMA CapacityFits ==
  ASSUME HeapAssumption, NEW bytes \in Nat
  PROVE  Capacity(bytes) \in Nat /\ Capacity(bytes) >= bytes
  <1>1. PAGE_SIZE \in Nat /\ LARGE_HEADER \in Nat /\ PAGE_SIZE > 0
    BY DEF HeapAssumption
  <1>2. PICK t \in Nat : t = bytes + LARGE_HEADER
    BY <1>1
  <1>3. PICK q \in Nat : q = (t + PAGE_SIZE - 1) \div PAGE_SIZE /\ t + PAGE_SIZE - 1 < PAGE_SIZE * q + PAGE_SIZE
    BY <1>1
  <1>4. RoundUp(t) = PAGE_SIZE * q /\ PAGE_SIZE * q \in Nat
    BY <1>1, <1>3 DEF RoundUp
  <1> QED BY <1>1, <1>2, <1>3, <1>4 DEF Capacity, MmapSize

\* What alloc makes.
LEMMA ArrayIs ==
  ASSUME SmallHeapAssumption, HeapAssumption, NEW kind \in Kinds, NEW n \in Nat, NEW kept \in Int
  PROVE  /\ Array(kind, n, kept) \in ArrayType
         /\ Array(kind, n, kept).kind = kind /\ Array(kind, n, kept).n = n
         /\ Array(kind, n, kept).kept = kept
         /\ Array(kind, n, kept).large => Large(Bytes(n)) /\ Array(kind, n, kept).size = Bytes(n)
         /\ ~ Array(kind, n, kept).large => Array(kind, n, kept).size >= Bytes(n)
  <1>1. Bytes(n) \in Nat
    BY BytesOf
  <1>2. PICK large \in BOOLEAN, size1 \in Nat :
          /\ large <=> Large(Bytes(n))
          /\ size1 = IF large THEN Bytes(n) ELSE SizeClass(Bytes(n))
          /\ large => size1 = Bytes(n)
          /\ ~ large => size1 >= Bytes(n)
    <2>1. CASE Large(Bytes(n))
      BY <1>1, <2>1
    <2>2. CASE ~ Large(Bytes(n))
      BY <1>1, <2>2, SizeClassFits
    <2> QED BY <2>1, <2>2
  <1>3. Array(kind, n, kept) = [kind |-> kind, n |-> n, kept |-> kept, large |-> large, size |-> size1]
    BY <1>2 DEF Array, Large
  <1> QED BY <1>2, <1>3 DEF ArrayType

\* The first size of an array is a number of entries,
LEMMA InitialIs ==
  ASSUME HeapAssumption, NEW kind \in DOMAIN Initial
  PROVE  kind \in Kinds /\ Initial[kind] \in Nat
  BY DEF Initial, Kinds, HeapAssumption

\* and so is the next.
LEMMA GrownIs ==
  ASSUME NEW kind, NEW n \in Nat
  PROVE  Grown(kind, n) \in Nat /\ Grown(kind, n) >= n
  BY DEF Grown

------------------------------------------------------------------------------
\* A new array at a free address.
LEMMA LinkNewOK ==
  ASSUME HeapAssumption, LargeInv, NEW b \in Addresses \ InUse, NEW new \in ArrayType
  PROVE  /\ ListOK(LinkNew(links, b, new), LargeObjs \cup (IF new.large THEN {b} ELSE {}))
         /\ LinkNew(links, b, new).next = [a \in Addresses |-> LinkNew(links, b, new).next[a]]
  <1>1. b \notin LargeObjs /\ links.next = [a \in Addresses |-> links.next[a]] /\ ListOK(links, LargeObjs)
    BY DEF LargeInv, LargeObjs
  <1>2. CASE new.large
    <2>1. ListOK(PushFront(links, b), LargeObjs \cup {b})
      BY <1>1, PushFrontOK
    <2>2. PushFront(links, b).next = [a \in Addresses |-> PushFront(links, b).next[a]]
      BY <1>1 DEF PushFront
    <2> QED BY <1>2, <2>1, <2>2 DEF LinkNew
  <1>3. CASE ~ new.large
    BY <1>1, <1>3 DEF LinkNew
  <1> QED BY <1>2, <1>3

\* An array that goes away.
LEMMA UnlinkOldOK ==
  ASSUME HeapAssumption, NEW l, NEW L, ListOK(l, L), NEW a, NEW arr \in ArrayType,
         a \in L <=> arr.large, l.next = [c \in Addresses |-> l.next[c]]
  PROVE  /\ ListOK(UnlinkOld(l, a, arr), L \ {a})
         /\ UnlinkOld(l, a, arr).next = [c \in Addresses |-> UnlinkOld(l, a, arr).next[c]]
  <1>1. CASE arr.large
    <2>1. ListOK(Unlink(l, a), L \ {a})
      BY <1>1, UnlinkOK
    <2>2. Unlink(l, a).next = [c \in Addresses |-> Unlink(l, a).next[c]]
      BY DEF Unlink
    <2> QED BY <1>1, <2>1, <2>2 DEF UnlinkOld
  <1>2. CASE ~ arr.large
    <2>1. L \ {a} = L
      BY <1>2
    <2> QED BY <1>2, <2>1 DEF UnlinkOld
  <1> QED BY <1>1, <1>2

\* alloc: a new array, first in the list if it is large.
LEMMA AllocKeepsInv ==
  ASSUME SmallHeapAssumption, HeapAssumption, LargeInv, NEW a, NEW kind \in DOMAIN Initial,
         Alloc(a, kind)
  PROVE  LargeInv'
  <1>1. PICK new : new = Array(kind, Initial[kind], Initial[kind])
    OBVIOUS
  <1>2. new \in ArrayType
    BY <1>1, InitialIs, ArrayIs
  <1>3. /\ a \in Addresses \ InUse /\ cur = NULL /\ cur' = NULL
        /\ arrays' = [c \in InUse \cup {a} |-> IF c = a THEN new ELSE arrays[c]]
        /\ links' = LinkNew(links, a, new)
    BY <1>1 DEF Alloc
  <1>4. arrays' \in [InUse' -> ArrayType] /\ InUse' = InUse \cup {a}
    BY <1>2, <1>3 DEF LargeInv, InUse
  <1>5. LargeObjs' = LargeObjs \cup (IF new.large THEN {a} ELSE {})
    BY <1>2, <1>3, <1>4 DEF LargeObjs
  <1>6. ListOK(links', LargeObjs') /\ links'.next = [c \in Addresses |-> links'.next[c]]
    BY <1>2, <1>3, <1>5, LinkNewOK
  <1> QED BY <1>3, <1>4, <1>6 DEF LargeInv

\* realloc of an array that stays where it is.
LEMMA InPlaceKeepsInv ==
  ASSUME HeapAssumption, LargeInv, NEW a \in InUse, NEW n \in Nat, ReallocInPlace(a, n)
  PROVE  LargeInv'
  <1>1. PICK old, k, new : /\ old = arrays[a] /\ k = Filled(old.kept, old.n, n)
                           /\ new = [old EXCEPT !.n = n, !.kept = k]
    OBVIOUS
  <1>2. /\ old \in ArrayType
        /\ arrays' = [arrays EXCEPT ![a] = new] /\ UNCHANGED <<links, cur>>
    BY <1>1 DEF ReallocInPlace, LargeInv
  <1>3. new \in ArrayType /\ new.large = old.large
    <2>1. k \in Int
      BY <1>1, <1>2 DEF ArrayType, Filled
    <2> QED BY <1>1, <1>2, <2>1 DEF ArrayType
  <1>4. arrays' \in [InUse' -> ArrayType] /\ InUse' = InUse
    BY <1>2, <1>3 DEF LargeInv, InUse
  <1>5. \A c \in InUse : arrays'[c].large = arrays[c].large
    BY <1>1, <1>2, <1>3 DEF LargeInv
  <1>6. LargeObjs' = LargeObjs
    BY <1>4, <1>5 DEF LargeObjs
  <1> QED BY <1>2, <1>4, <1>6 DEF LargeInv, ListOK, Linked, Ranked

\* How many entries survive a copy.
LEMMA CopiedIs ==
  ASSUME HeapAssumption, NEW arr \in ArrayType, NEW n \in Nat
  PROVE  /\ Filled(Copied(arr, Bytes(n)), arr.n, n) \in Int
         /\ arr.kept = arr.n /\ Bytes(arr.n) <= arr.size /\ arr.n <= n
              => Filled(Copied(arr, Bytes(n)), arr.n, n) = n
  <1>1. Bytes(n) \in Nat /\ arr.size \in Nat /\ arr.n \in Nat /\ arr.kept \in Int /\ WORD \in Nat /\ WORD > 0
    BY BytesOf DEF ArrayType, HeapAssumption
  <1>2. PICK x \in Nat : x = Min({Bytes(n), arr.size}) /\ (x = Bytes(n) \/ x = arr.size)
    <2>1. Min({Bytes(n), arr.size}) = IF Bytes(n) <= arr.size THEN Bytes(n) ELSE arr.size
      BY <1>1, MinOfTwo
    <2> QED BY <1>1, <2>1
  <1>3. PICK y \in Int : y = (x \div WORD) - 1
    BY <1>1, <1>2
  <1>4. Copied(arr, Bytes(n)) = IF arr.kept <= y THEN arr.kept ELSE y
    BY <1>1, <1>2, <1>3, MinOfTwo DEF Copied
  <1>5. ASSUME arr.kept = arr.n, Bytes(arr.n) <= arr.size, arr.n <= n
        PROVE  Copied(arr, Bytes(n)) = arr.n
    <2>1. Bytes(arr.n) <= x
      BY <1>1, <1>2, <1>5, BytesOf
    <2>2. y >= arr.n
      BY <1>1, <1>3, <2>1, BytesOf
    <2> QED BY <1>1, <1>4, <1>5, <2>2
  <1> QED BY <1>1, <1>3, <1>4, <1>5 DEF Filled

\* realloc of an array that is copied: one object is linked in, the other unlinked.
LEMMA MovesKeepsInv ==
  ASSUME SmallHeapAssumption, HeapAssumption, LargeInv, NEW a \in InUse, NEW b, NEW n \in Nat,
         ReallocMoves(a, b, n)
  PROVE  LargeInv'
  <1>1. PICK old, new : /\ old = arrays[a]
                        /\ new = Array(old.kind, n, Filled(Copied(old, Bytes(n)), old.n, n))
    OBVIOUS
  <1>2. old \in ArrayType /\ old.kind \in Kinds
    BY <1>1 DEF LargeInv, ArrayType
  <1>3. new \in ArrayType
    BY <1>1, <1>2, CopiedIs, ArrayIs
  <1>4. /\ b \in Addresses \ InUse /\ cur' = NULL
        /\ arrays' = [c \in (InUse \ {a}) \cup {b} |-> IF c = b THEN new ELSE arrays[c]]
        /\ links' = UnlinkOld(LinkNew(links, b, new), a, old)
    BY <1>1 DEF ReallocMoves
  <1>5. arrays' \in [InUse' -> ArrayType] /\ InUse' = (InUse \ {a}) \cup {b}
    BY <1>3, <1>4 DEF LargeInv, InUse
  <1>6. PICK l, L : l = LinkNew(links, b, new) /\ L = LargeObjs \cup (IF new.large THEN {b} ELSE {})
    OBVIOUS
  <1>7. ListOK(l, L) /\ l.next = [c \in Addresses |-> l.next[c]]
    BY <1>3, <1>4, <1>6, LinkNewOK
  <1>8. a \in L <=> old.large
    BY <1>1, <1>4, <1>6 DEF LargeObjs
  <1>9. LargeObjs' = L \ {a}
    BY <1>3, <1>4, <1>5, <1>6 DEF LargeObjs
  <1>10. ListOK(links', LargeObjs') /\ links'.next = [c \in Addresses |-> links'.next[c]]
    <2>1. /\ ListOK(UnlinkOld(l, a, old), L \ {a})
          /\ UnlinkOld(l, a, old).next = [c \in Addresses |-> UnlinkOld(l, a, old).next[c]]
      BY <1>2, <1>7, <1>8, UnlinkOldOK
    <2> QED BY <2>1, <1>4, <1>6, <1>9
  <1> QED BY <1>4, <1>5, <1>10 DEF LargeInv

\* free: the object is unlinked.
LEMMA FreeKeepsInv ==
  ASSUME HeapAssumption, LargeInv, NEW a, Free(a)
  PROVE  LargeInv'
  <1>1. PICK old : old = arrays[a]
    OBVIOUS
  <1>2. /\ a \in InUse /\ cur' = NULL /\ arrays' = [c \in InUse \ {a} |-> arrays[c]]
        /\ links' = UnlinkOld(links, a, old) /\ old \in ArrayType
    BY <1>1 DEF Free, Restrict, LargeInv
  <1>3. arrays' \in [InUse' -> ArrayType] /\ InUse' = InUse \ {a}
    BY <1>2 DEF LargeInv, InUse
  <1>4. LargeObjs' = LargeObjs \ {a}
    BY <1>2, <1>3 DEF LargeObjs
  <1>5. a \in LargeObjs <=> old.large
    BY <1>1, <1>2 DEF LargeObjs
  <1>6. ListOK(links', LargeObjs') /\ links'.next = [c \in Addresses |-> links'.next[c]]
    BY <1>2, <1>4, <1>5, UnlinkOldOK DEF LargeInv
  <1> QED BY <1>2, <1>3, <1>6 DEF LargeInv

\* The blocks have been swept: the large objects are all there.
LEMMA StartSweepKeepsInv ==
  ASSUME HeapAssumption, LargeInv, NEW live \in SUBSET InUse, StartSweep(live)
  PROVE  LargeInv'
  <1>1. /\ arrays' = [c \in live \cup LargeObjs |-> arrays[c]] /\ UNCHANGED links /\ cur' = links.head
    BY DEF StartSweep, Restrict
  <1>2. LargeObjs \subseteq InUse
    BY DEF LargeObjs
  <1>3. arrays' \in [InUse' -> ArrayType] /\ InUse' = live \cup LargeObjs
    BY <1>1, <1>2 DEF LargeInv, InUse
  <1>4. LargeObjs' = LargeObjs
    BY <1>1, <1>2, <1>3 DEF LargeObjs
  <1>5. links.head # NULL => links.head \in LargeObjs
    BY DEF LargeInv, ListOK, Linked
  <1>6. ListOK(links, LargeObjs)' /\ InUse' \subseteq Addresses
    BY <1>1, <1>2, <1>3, <1>4 DEF LargeInv, ListOK, Linked, Ranked
  <1> QED BY <1>1, <1>3, <1>4, <1>5, <1>6 DEF LargeInv

\* One object of the list is swept; the position moves on before it is freed.
LEMMA SweepStepKeepsInv ==
  ASSUME HeapAssumption, LargeInv, SweepStep
  PROVE  LargeInv'
  <1>1. cur \in LargeObjs /\ cur' = links.next[cur] /\ cur \in InUse /\ ListOK(links, LargeObjs)
    BY DEF SweepStep, LargeInv, LargeObjs
  <1>2. cur' # NULL => cur' \in LargeObjs /\ cur' # cur
    <2>1. PICK rank : Ranked(links, LargeObjs, rank)
      BY <1>1 DEF ListOK
    <2>2. cur' # NULL => cur' \in LargeObjs /\ links.prev[cur'] = cur
      BY <1>1 DEF ListOK, Linked
    <2>3. cur # HEAD
      BY <1>1 DEF LargeInv, HeapAssumption
    <2> QED BY <2>1, <2>2, <2>3, <1>1 DEF Ranked
  <1>3. CASE cur \in marked
    <2>1. UNCHANGED <<arrays, links>>
      BY <1>3 DEF SweepStep
    <2>2. LargeObjs' = LargeObjs /\ InUse' = InUse
      BY <2>1 DEF LargeObjs, InUse
    <2> QED BY <2>1, <2>2, <1>2 DEF LargeInv, ListOK, Linked, Ranked
  <1>4. CASE cur \notin marked
    <2>1. /\ arrays' = [c \in InUse \ {cur} |-> arrays[c]] /\ links' = Unlink(Unlink(links, cur), cur)
      BY <1>4 DEF SweepStep, Restrict
    <2>2. links' = Unlink(links, cur)
      BY <2>1, <1>1, UnlinkTwice
    <2>3. arrays' \in [InUse' -> ArrayType] /\ InUse' = InUse \ {cur}
      BY <2>1 DEF LargeInv, InUse
    <2>4. LargeObjs' = LargeObjs \ {cur}
      BY <2>1, <2>3 DEF LargeObjs
    <2>5. ListOK(links', LargeObjs')
      BY <2>2, <2>4, <1>1, UnlinkOK
    <2>6. links'.next = [c \in Addresses |-> links'.next[c]]
      BY <2>2 DEF Unlink
    <2> QED BY <2>3, <2>4, <2>5, <2>6, <1>2 DEF LargeInv
  <1> QED BY <1>3, <1>4

\* Which step of the arrays a step is.
GrowStep(a, n) ==
  /\ a \in InUse /\ n = Grown(arrays[a].kind, arrays[a].n) /\ n <= MaxEntries(arrays[a].kind)
  /\ ReallocInPlace(a, n) \/ \E b \in Addresses : ReallocMoves(a, b, n)

\* The steps of Next that change large objects.
LEMMA LargeStepIs ==
  ASSUME Next
  PROVE  \/ UNCHANGED largeVars
         \/ \E a \in Addresses, kind \in DOMAIN Initial : Alloc(a, kind)
         \/ \E a \in InUse : \E n : GrowStep(a, n)
         \/ \E a \in InUse : Free(a)
         \/ \E live \in SUBSET InUse : StartSweep(live)
         \/ SweepStep
  BY DEF Next, LargeNext, GrowStep

\* Every step keeps the invariant.
LEMMA LargeNextKeepsInv ==
  ASSUME SmallHeapAssumption, HeapAssumption, LargeInv, [Next]_vars
  PROVE  LargeInv'
  <1>1. CASE UNCHANGED largeVars
    <2>1. UNCHANGED <<arrays, links, cur, InUse, LargeObjs>>
      BY <1>1 DEF largeVars, InUse, LargeObjs
    <2> QED BY <2>1 DEF LargeInv, ListOK, Linked, Ranked
  <1>2. ASSUME NEW a \in InUse, NEW n, GrowStep(a, n) PROVE LargeInv'
    <2>1. n \in Nat
      BY <1>2, GrownIs DEF GrowStep, LargeInv, ArrayType
    <2> QED BY <1>2, <2>1, InPlaceKeepsInv, MovesKeepsInv DEF GrowStep
  <1>3. CASE Next
    BY <1>1, <1>2, <1>3, LargeStepIs, AllocKeepsInv, FreeKeepsInv, StartSweepKeepsInv, SweepStepKeepsInv
  <1>4. UNCHANGED vars => UNCHANGED largeVars
    BY DEF vars
  <1> QED BY <1>1, <1>3, <1>4

\* At the start the list is empty.
LEMMA LargeInitInv ==
  ASSUME HeapAssumption, Init
  PROVE  LargeInv
  BY DEF Init, LargeInit, LargeInv, InUse, LargeObjs, ListOK, Linked, Ranked, NULL, HEAD

\* The invariant holds in every state.
LEMMA LargeInvHolds == Spec => []LargeInv
  <1>1. Init => LargeInv
    BY HeapAssumption, LargeInitInv
  <1>2. LargeInv /\ [Next]_vars => LargeInv'
    BY SmallHeapAssumption, HeapAssumption, LargeNextKeepsInv
  <1> QED BY <1>1, <1>2, PTL DEF Spec

\* The doubly linked list holds the large objects that exist and nothing else, with
\* pointers that agree in both directions, between any two operations and in the middle
\* of freeUnmarked, which unlinks an object twice and goes on from where it pointed.
THEOREM ListIsLargeObjs == Spec => []ListHoldsLargeObjs
  <1>1. LargeInv => ListHoldsLargeObjs
    <2> SUFFICES ASSUME LargeInv PROVE ListHoldsLargeObjs
      OBVIOUS
    <2>1. ListOK(links, LargeObjs)
      BY DEF LargeInv
    <2>2. ListFrom(links.head) = LargeObjs
      BY <2>1, HeapAssumption, ListReaches
    <2>3. NULL \notin LargeObjs
      BY HeapAssumption DEF LargeInv, LargeObjs, HeapAssumption
    <2> QED BY <2>1, <2>2, <2>3 DEF ListHoldsLargeObjs, ListOK, Linked
  <1> QED BY <1>1, LargeInvHolds, PTL

------------------------------------------------------------------------------
(***************************************************************************)
(* What realloc keeps.  A large object that is left where it is keeps the  *)
(* recorded size it had, and the next move copies no more than that: the   *)
(* contents are safe if an array that is large always moves when it grows. *)
(* Entries are the sizes an array goes through.                            *)
(***************************************************************************)
Entries(kind) ==
  {n \in Nat : \A S \in SUBSET Nat :
     Initial[kind] \in S /\ (\A m \in S : Grown(kind, m) \in S) => n \in S}

LargeArraysMove ==
  \A kind \in Kinds : \A n \in Entries(kind) :
    Large(Bytes(n)) /\ Grown(kind, n) <= MaxEntries(kind)
      => Capacity(Bytes(n)) < Bytes(Grown(kind, n))

ContentOK(arr) ==
  /\ arr.kept = arr.n /\ arr.n \in Entries(arr.kind)
  /\ arr.large => Large(Bytes(arr.n)) /\ arr.size = Bytes(arr.n)
  /\ ~ arr.large => arr.size >= Bytes(arr.n)

ContentsOK == \A a \in InUse : ContentOK(arrays[a])

\* A new array, or one that has been copied.
LEMMA NewContentOK ==
  ASSUME SmallHeapAssumption, HeapAssumption, NEW kind \in Kinds, NEW n \in Entries(kind)
  PROVE  ContentOK(Array(kind, n, n))
  <1>1. n \in Nat /\ n \in Int
    BY DEF Entries
  <1> QED BY <1>1, ArrayIs DEF ContentOK

\* Both ways to grow lead from an array that can exist to one that can.
LEMMA EntriesClosed ==
  ASSUME HeapAssumption, NEW kind \in Kinds
  PROVE  /\ Initial[kind] \in Entries(kind)
         /\ \A n \in Entries(kind) : Grown(kind, n) \in Entries(kind)
  <1>1. kind \in DOMAIN Initial
    BY DEF Initial, Kinds
  <1>2. Initial[kind] \in Nat
    BY <1>1, InitialIs
  <1>3. \A n \in Nat : Grown(kind, n) \in Nat
    BY GrownIs
  <1> QED BY <1>2, <1>3 DEF Entries

\* An array that grows keeps its contents and has room for more.
LEMMA GrowKeepsContents ==
  ASSUME SmallHeapAssumption, HeapAssumption, LargeArraysMove, LargeInv, ContentsOK,
         NEW a \in InUse, NEW n, GrowStep(a, n)
  PROVE  ContentsOK'
  <1>1. PICK old, kind : old = arrays[a] /\ kind = old.kind
    OBVIOUS
  <1>2. old \in ArrayType /\ kind \in Kinds /\ old.n \in Nat /\ old.size \in Nat /\ old.large \in BOOLEAN
    BY <1>1 DEF LargeInv, ArrayType
  <1>3. ContentOK(old)
    BY <1>1 DEF ContentsOK
  <1>4. /\ n = Grown(kind, old.n) /\ n <= MaxEntries(kind) /\ n \in Nat /\ old.n <= n
        /\ n \in Entries(kind) /\ old.n \in Entries(kind)
    BY <1>1, <1>2, <1>3, GrownIs, EntriesClosed DEF GrowStep, ContentOK
  <1>5. Bytes(n) \in Nat /\ Bytes(old.n) \in Nat
    BY <1>2, <1>4, BytesOf
  <1>6. CASE ReallocInPlace(a, n)
    <2>1. ~ old.large /\ old.size >= Bytes(n)
      <3>1. Fits(old, Bytes(n))
        BY <1>1, <1>6 DEF ReallocInPlace
      <3>2. CASE old.large
        <4>1. Capacity(Bytes(old.n)) >= Bytes(n) /\ Large(Bytes(old.n))
          BY <1>3, <3>1, <3>2 DEF Fits, ContentOK
        <4>2. Capacity(Bytes(old.n)) < Bytes(n)
          BY <1>2, <1>4, <4>1 DEF LargeArraysMove
        <4>3. Capacity(Bytes(old.n)) \in Nat
          BY <1>5, CapacityFits
        <4> QED BY <1>5, <4>1, <4>2, <4>3
      <3>3. CASE ~ old.large
        BY <3>1, <3>3 DEF Fits
      <3> QED BY <3>2, <3>3
    <2>2. PICK k, new : k = Filled(old.kept, old.n, n) /\ new = [old EXCEPT !.n = n, !.kept = k]
      OBVIOUS
    <2>3. k = n
      BY <1>3, <2>2 DEF Filled, ContentOK
    <2>4. new.n = n /\ new.kept = n /\ new.large = old.large /\ new.size = old.size /\ new.kind = kind
      BY <1>1, <1>2, <2>2, <2>3 DEF ArrayType
    <2>5. ContentOK(new)
      BY <1>4, <2>1, <2>4 DEF ContentOK
    <2>6. arrays' = [arrays EXCEPT ![a] = new] /\ InUse' = InUse
      BY <1>1, <1>6, <2>2 DEF ReallocInPlace, LargeInv, InUse
    <2>7. \A c \in InUse : arrays'[c] = IF c = a THEN new ELSE arrays[c]
      BY <2>6 DEF LargeInv
    <2> QED BY <2>5, <2>6, <2>7 DEF ContentsOK
  <1>7. ASSUME NEW b \in Addresses, ReallocMoves(a, b, n) PROVE ContentsOK'
    <2>1. PICK k, new : /\ k = Filled(Copied(old, Bytes(n)), old.n, n)
                        /\ new = Array(kind, n, k)
      OBVIOUS
    <2>2. Bytes(old.n) <= old.size
      BY <1>2, <1>3, <1>5 DEF ContentOK
    <2>3. k = n
      BY <1>2, <1>3, <1>4, <2>1, <2>2, CopiedIs DEF ContentOK
    <2>4. ContentOK(new)
      BY <1>2, <1>4, <2>1, <2>3, NewContentOK
    <2>5. arrays' = [c \in (InUse \ {a}) \cup {b} |-> IF c = b THEN new ELSE arrays[c]]
      BY <1>1, <1>7, <2>1 DEF ReallocMoves
    <2> QED BY <2>4, <2>5 DEF ContentsOK, InUse
  <1> QED BY <1>6, <1>7 DEF GrowStep

\* Every step keeps the contents of arrays.
LEMMA NextKeepsContents ==
  ASSUME SmallHeapAssumption, HeapAssumption, LargeArraysMove, LargeInv, ContentsOK, [Next]_vars
  PROVE  ContentsOK'
  <1>1. CASE UNCHANGED largeVars
    BY <1>1 DEF largeVars, ContentsOK, InUse
  <1>2. ASSUME NEW a \in Addresses, NEW kind \in DOMAIN Initial, Alloc(a, kind) PROVE ContentsOK'
    <2>1. PICK new : new = Array(kind, Initial[kind], Initial[kind])
      OBVIOUS
    <2>2. ContentOK(new)
      BY <2>1, InitialIs, EntriesClosed, NewContentOK
    <2>3. arrays' = [c \in InUse \cup {a} |-> IF c = a THEN new ELSE arrays[c]]
      BY <1>2, <2>1 DEF Alloc
    <2> QED BY <2>2, <2>3 DEF ContentsOK, InUse
  <1>3. ASSUME NEW keep \in SUBSET InUse, arrays' = Restrict(arrays, keep) PROVE ContentsOK'
    BY <1>3 DEF ContentsOK, InUse, Restrict
  <1>4. ASSUME NEW a \in InUse, Free(a) PROVE ContentsOK'
    BY <1>3, <1>4 DEF Free
  <1>5. ASSUME NEW live \in SUBSET InUse, StartSweep(live) PROVE ContentsOK'
    BY <1>3, <1>5 DEF StartSweep, LargeObjs
  <1>6. CASE SweepStep
    <2>1. CASE UNCHANGED arrays
      BY <2>1 DEF ContentsOK, InUse
    <2>2. CASE arrays' = Restrict(arrays, InUse \ {cur})
      BY <2>2, <1>3
    <2> QED BY <1>6, <2>1, <2>2 DEF SweepStep
  <1>7. ASSUME NEW a \in InUse, NEW n, GrowStep(a, n) PROVE ContentsOK'
    BY <1>7, GrowKeepsContents
  <1>8. CASE Next
    BY <1>1, <1>2, <1>4, <1>5, <1>6, <1>7, <1>8, LargeStepIs
  <1>9. UNCHANGED vars => UNCHANGED largeVars
    BY DEF vars
  <1> QED BY <1>1, <1>8, <1>9

\* An array keeps what was stored in it when it grows, and has room for all of it, if no
\* array grows while it is large and stays where it is.  Doubling from eight entries of
\* eight bytes in pages of 4096 never does; attributes, which grow one by one, do not
\* while they are small.
THEOREM GrowthKeepsContents ==
  ASSUME LargeArraysMove
  PROVE  Spec => []ReallocKeepsContents
  <1>1. Init => ContentsOK
    BY DEF Init, LargeInit, ContentsOK, InUse
  <1>2. LargeInv /\ ContentsOK /\ [Next]_vars => ContentsOK'
    BY SmallHeapAssumption, HeapAssumption, NextKeepsContents
  <1>3. LargeInv /\ ContentsOK => ReallocKeepsContents
    <2> SUFFICES ASSUME LargeInv, ContentsOK, NEW a \in InUse
                 PROVE  /\ arrays[a].kept = arrays[a].n
                        /\ Bytes(arrays[a].n) <= IF arrays[a].large
                              THEN MmapSize(arrays[a].size) - LARGE_HEADER ELSE arrays[a].size
      BY DEF ReallocKeepsContents
    <2>1. PICK arr : arr = arrays[a]
      OBVIOUS
    <2>2. ContentOK(arr) /\ arr \in ArrayType
      BY <2>1 DEF ContentsOK, LargeInv
    <2>3. arr.n \in Nat /\ arr.size \in Nat /\ Bytes(arr.n) \in Nat
      BY <2>2, HeapAssumption, BytesOf DEF ArrayType
    <2>4. arr.large => Bytes(arr.n) <= MmapSize(arr.size) - LARGE_HEADER
      BY <2>2, <2>3, HeapAssumption, CapacityFits DEF Capacity, ContentOK
    <2> QED BY <2>1, <2>2, <2>3, <2>4 DEF ContentOK
  <1> QED BY <1>1, <1>2, <1>3, LargeInvHolds, PTL DEF Spec

------------------------------------------------------------------------------
(***************************************************************************)
(* Blocks and their chains.                                                *)
(***************************************************************************)
\* A chain has each block of a set once, and no other.
Lists(s, S) ==
  /\ s \in Seq(Nat)
  /\ \A i \in 1..Len(s), j \in 1..Len(s) : s[i] = s[j] => i = j
  /\ \A i \in 1..Len(s) : s[i] \in S
  /\ \A x \in S : \E i \in 1..Len(s) : s[i] = x

\* The words of Functions for the same.
LEMMA ListsIs ==
  ASSUME NEW s, NEW S, Lists(s, S)
  PROVE  IsInjective(s) /\ Range(s) = S
  <1>1. DOMAIN s = 1..Len(s)
    BY DEF Lists
  <1>2. IsInjective(s)
    BY <1>1 DEF Lists, IsInjective
  <1>3. Range(s) = S
    BY <1>1 DEF Lists, Range
  <1> QED BY <1>2, <1>3

\* Two chains, one after the other.
LEMMA ConcatLists ==
  ASSUME NEW s, NEW S, NEW t, NEW T, Lists(s, S), Lists(t, T), S \cap T = {}
  PROVE  Lists(s \o t, S \cup T)
  <1>1. PICK m, n : m = Len(s) /\ n = Len(t)
    OBVIOUS
  <1>2. s \in Seq(Nat) /\ t \in Seq(Nat) /\ m \in Nat /\ n \in Nat
    BY <1>1 DEF Lists
  <1>3. PICK u : u = s \o t
    OBVIOUS
  <1>4. /\ u \in Seq(Nat) /\ Len(u) = m + n
        /\ \A i \in 1..(m + n) : u[i] = IF i <= m THEN s[i] ELSE t[i - m]
    BY <1>1, <1>2, <1>3, ConcatProperties
  <1>5. ASSUME NEW i \in 1..(m + n), i <= m PROVE i \in 1..m /\ u[i] = s[i] /\ u[i] \in S
    <2>1. i \in 1..m /\ u[i] = s[i]
      BY <1>5, <1>2, <1>4
    <2> QED BY <2>1, <1>1 DEF Lists
  <1>6. ASSUME NEW i \in 1..(m + n), ~ (i <= m)
        PROVE  i - m \in 1..n /\ u[i] = t[i - m] /\ u[i] \in T
    <2>1. i - m \in 1..n /\ u[i] = t[i - m]
      BY <1>6, <1>2, <1>4
    <2>2. t[i - m] \in T
      BY <2>1, <1>1 DEF Lists
    <2> QED BY <2>1, <2>2
  <1>7. ASSUME NEW i \in 1..(m + n), NEW j \in 1..(m + n), u[i] = u[j] PROVE i = j
    <2>1. CASE i <= m /\ j <= m
      BY <2>1, <1>5, <1>7, <1>1 DEF Lists
    <2>2. CASE ~ (i <= m) /\ ~ (j <= m)
      <3>1. PICK k, l : k = i - m /\ l = j - m
        OBVIOUS
      <3>2. k \in 1..Len(t) /\ l \in 1..Len(t) /\ t[k] = t[l]
        BY <2>2, <3>1, <1>1, <1>6, <1>7
      <3>3. k = l
        BY <3>2 DEF Lists
      <3> QED BY <3>1, <3>3, <1>2
    <2>3. CASE i <= m /\ ~ (j <= m)
      BY <2>3, <1>5, <1>6, <1>7
    <2>4. CASE ~ (i <= m) /\ j <= m
      BY <2>4, <1>5, <1>6, <1>7
    <2> QED BY <2>1, <2>2, <2>3, <2>4
  <1>8. ASSUME NEW x \in S PROVE \E i \in 1..(m + n) : u[i] = x
    <2>1. PICK i \in 1..m : s[i] = x
      BY <1>1 DEF Lists
    <2>2. i \in 1..(m + n) /\ i <= m
      BY <1>2
    <2> QED BY <2>1, <2>2, <1>5
  <1>9. ASSUME NEW x \in T PROVE \E i \in 1..(m + n) : u[i] = x
    <2>1. PICK k \in 1..n : t[k] = x
      BY <1>1 DEF Lists
    <2>2. PICK i : i = m + k
      OBVIOUS
    <2>3. i \in 1..(m + n) /\ ~ (i <= m) /\ i - m = k
      BY <1>2, <2>2
    <2>4. u[i] = x
      BY <2>1, <2>3, <1>6
    <2> QED BY <2>3, <2>4
  <1>10. \A i \in 1..(m + n) : u[i] \in S \cup T
    BY <1>5, <1>6
  <1> QED BY <1>3, <1>4, <1>7, <1>8, <1>9, <1>10 DEF Lists

\* A chain r of n blocks, the k-th of which is the one at place at[k] of the chain s;
\* each place of P is taken once.
PickedAt(r, n, s, P, at) ==
  /\ r \in Seq(Nat) /\ n \in Nat /\ Len(r) = n /\ P \subseteq 1..Len(s)
  /\ \A k \in 1..n : at[k] \in P /\ r[k] = s[at[k]]
  /\ \A k \in 1..n, l \in 1..n : at[k] = at[l] => k = l
  /\ \A i \in P : \E k \in 1..n : at[k] = i

\* It has the blocks of those places.
LEMMA PickedLists ==
  ASSUME NEW s, NEW S, NEW r, NEW n, NEW P, NEW at, Lists(s, S), PickedAt(r, n, s, P, at)
  PROVE  Lists(r, {s[i] : i \in P})
  <1>1. ASSUME NEW k \in 1..n, NEW l \in 1..n, r[k] = r[l] PROVE k = l
    <2>1. PICK x, y : x = at[k] /\ y = at[l]
      OBVIOUS
    <2>2. x \in 1..Len(s) /\ y \in 1..Len(s) /\ s[x] = s[y]
      BY <1>1, <2>1 DEF PickedAt
    <2>3. x = y
      BY <2>2 DEF Lists
    <2> QED BY <2>1, <2>3 DEF PickedAt
  <1>2. PICK Q : Q = {s[i] : i \in P}
    OBVIOUS
  <1>3. \A k \in 1..n : r[k] \in Q
    BY <1>2 DEF PickedAt
  <1>4. ASSUME NEW x \in Q PROVE \E k \in 1..n : r[k] = x
    <2>1. PICK i \in P : x = s[i]
      BY <1>2
    <2>2. PICK k \in 1..n : at[k] = i
      BY DEF PickedAt
    <2> QED BY <2>1, <2>2 DEF PickedAt
  <1>5. r \in Seq(Nat) /\ Len(r) = n
    BY DEF PickedAt
  <1>6. Lists(r, Q)
    BY <1>1, <1>3, <1>4, <1>5 DEF Lists
  <1> QED BY <1>2, <1>6

\* The first n blocks of a chain, in reverse.
Reversed(s, n) == [k \in 1..n |-> s[n + 1 - k]]

\* They are the blocks of the first n places.
LEMMA ReversedLists ==
  ASSUME NEW s, NEW S, Lists(s, S), NEW n \in 0..Len(s)
  PROVE  Lists(Reversed(s, n), {s[i] : i \in 1..n})
  <1>1. s \in Seq(Nat) /\ Len(s) \in Nat /\ n \in Nat /\ 1..n \subseteq 1..Len(s)
    BY DEF Lists
  <1>2. PICK at : at = [k \in 1..n |-> n + 1 - k]
    OBVIOUS
  <1>3. \A k \in 1..n : at[k] = n + 1 - k /\ at[k] \in 1..n
    BY <1>1, <1>2
  <1>4. PICK r : r = Reversed(s, n)
    OBVIOUS
  <1>5. \A k \in 1..n : r[k] = s[at[k]]
    BY <1>3, <1>4 DEF Reversed
  <1>6. \A k \in 1..n : s[at[k]] \in Nat
    BY <1>1, <1>3
  <1>7. r = [k \in 1..n |-> s[at[k]]]
    BY <1>3, <1>4 DEF Reversed
  <1>8. r \in Seq(Nat) /\ Len(r) = n
    BY <1>1, <1>6, <1>7
  <1>9. \A k \in 1..n, l \in 1..n : at[k] = at[l] => k = l
    BY <1>1, <1>3
  <1>10. ASSUME NEW i \in 1..n PROVE \E k \in 1..n : at[k] = i
    <2>1. n + 1 - i \in 1..n /\ n + 1 - (n + 1 - i) = i
      BY <1>1
    <2> QED BY <2>1, <1>3
  <1>11. PickedAt(r, n, s, 1..n, at)
    BY <1>1, <1>3, <1>5, <1>8, <1>9, <1>10 DEF PickedAt
  <1> QED BY <1>4, <1>11, PickedLists

\* The rest of the chain has the blocks of the other places.
LEMMA RestLists ==
  ASSUME NEW s, NEW S, Lists(s, S), NEW n \in 0..Len(s)
  PROVE  Lists(SubSeq(s, n + 1, Len(s)), {s[i] : i \in (n + 1)..Len(s)})
  <1>1. PICK m : m = Len(s)
    OBVIOUS
  <1>2. s \in Seq(Nat) /\ m \in Nat /\ n \in Nat /\ n <= m /\ m - n \in Nat
    BY <1>1 DEF Lists
  <1>3. PICK r : r = SubSeq(s, n + 1, m)
    OBVIOUS
  <1>4. \A i \in (n + 1)..m : s[i] \in Nat /\ i \in 1..m
    BY <1>1, <1>2
  <1>5. /\ r \in Seq(Nat)
        /\ Len(r) = IF n + 1 <= m THEN m - (n + 1) + 1 ELSE 0
        /\ \A i \in 1..(m - (n + 1) + 1) : r[i] = s[n + 1 + i - 1]
    BY <1>2, <1>3, <1>4, SubSeqProperties
  <1>6. Len(r) = m - n
    BY <1>2, <1>5
  <1>7. PICK at : at = [k \in 1..(m - n) |-> n + k]
    OBVIOUS
  <1>8. \A k \in 1..(m - n) : at[k] = n + k /\ at[k] \in (n + 1)..m
    BY <1>2, <1>7
  <1>9. \A k \in 1..(m - n) : r[k] = s[at[k]]
    <2> SUFFICES ASSUME NEW k \in 1..(m - n) PROVE r[k] = s[at[k]]
      OBVIOUS
    <2>1. k \in 1..(m - (n + 1) + 1) /\ n + 1 + k - 1 = n + k
      BY <1>2
    <2> QED BY <2>1, <1>5, <1>8
  <1>10. \A k \in 1..(m - n), l \in 1..(m - n) : at[k] = at[l] => k = l
    BY <1>2, <1>8
  <1>11. ASSUME NEW i \in (n + 1)..m PROVE \E k \in 1..(m - n) : at[k] = i
    <2>1. i - n \in 1..(m - n) /\ n + (i - n) = i
      BY <1>2
    <2> QED BY <2>1, <1>8
  <1>12. PickedAt(r, m - n, s, (n + 1)..m, at)
    BY <1>1, <1>2, <1>4, <1>5, <1>6, <1>8, <1>9, <1>10, <1>11 DEF PickedAt
  <1> QED BY <1>1, <1>3, <1>12, PickedLists

\* The two chains have every block once.
ChainsOK ==
  /\ Lists(heads, Range(heads)) /\ Lists(full_heads, Range(full_heads))
  /\ Range(heads) \cap Range(full_heads) = {}
  /\ Range(heads) \cup Range(full_heads) = Blocks

SmallInv ==
  /\ size \in Sizes
  /\ isfree \in Seq(SUBSET InitialFree)
  /\ ChainsOK

\* allocSmall finds the first block with a free object, or the end of the chain.
LEMMA FullPrefixIs ==
  ASSUME heads \in Seq(Nat)
  PROVE  FullPrefix \in 0..Len(heads)
  <1>1. PICK m : m = Len(heads)
    OBVIOUS
  <1>2. m \in Nat
    BY <1>1
  <1> DEFINE T == {n \in 0..m : n = m \/ isfree[heads[n + 1]] # {}}
  <1>3. m \in T /\ T \in SUBSET Nat
    BY <1>2
  <1>4. PICK n \in T : \A k \in T : n <= k
    BY <1>3, LeastNat
  <1>5. ASSUME NEW k \in 1..n PROVE isfree[heads[k]] = {}
    <2>1. PICK j : j = k - 1
      OBVIOUS
    <2>2. n \in 0..m /\ j \in 0..m /\ j < n /\ j # m /\ j + 1 = k
      BY <1>2, <2>1
    <2>3. j \notin T
      BY <1>2, <1>4, <2>2
    <2> QED BY <2>2, <2>3
  <1>6. \E l \in 0..Len(heads) : /\ \A k \in 1..l : isfree[heads[k]] = {}
                                 /\ l = Len(heads) \/ isfree[heads[l + 1]] # {}
    BY <1>1, <1>4, <1>5
  <1> QED BY <1>6 DEF FullPrefix

\* The blocks searched and the ones behind them.
LEMMA SplitChain ==
  ASSUME NEW s, NEW S, Lists(s, S), NEW n \in 0..Len(s)
  PROVE  /\ {s[i] : i \in 1..n} \cap {s[i] : i \in (n + 1)..Len(s)} = {}
         /\ {s[i] : i \in 1..n} \cup {s[i] : i \in (n + 1)..Len(s)} = S
  <1>1. PICK m : m = Len(s)
    OBVIOUS
  <1>2. m \in Nat /\ n \in 0..m
    BY <1>1 DEF Lists
  <1>3. PICK A, B : A = {s[i] : i \in 1..n} /\ B = {s[i] : i \in (n + 1)..m}
    OBVIOUS
  <1>4. ASSUME NEW i \in 1..n, NEW j \in (n + 1)..m PROVE s[i] # s[j]
    <2>1. i \in 1..m /\ j \in 1..m /\ i # j
      BY <1>2
    <2> QED BY <2>1, <1>1 DEF Lists
  <1>5. A \cap B = {}
    BY <1>3, <1>4
  <1>6. ASSUME NEW i \in 1..m PROVE s[i] \in A \cup B
    <2>1. i \in 1..n \/ i \in (n + 1)..m
      BY <1>2
    <2> QED BY <2>1, <1>3
  <1>7. S \subseteq A \cup B
    BY <1>1, <1>6 DEF Lists
  <1>8. \A i \in 1..m : s[i] \in S
    BY <1>1 DEF Lists
  <1>9. A \cup B \subseteq S
    <2>1. 1..n \subseteq 1..m /\ (n + 1)..m \subseteq 1..m
      BY <1>2
    <2> QED BY <2>1, <1>3, <1>8
  <1> QED BY <1>1, <1>3, <1>5, <1>7, <1>9

\* What the two chains are after a step.
LEMMA ChainsAre ==
  ASSUME NEW H, NEW F, Lists(heads', H), Lists(full_heads', F), H \cap F = {},
         H \cup F = Blocks'
  PROVE  ChainsOK'
  <1>1. Range(heads') = H /\ Range(full_heads') = F
    BY ListsIs
  <1> QED BY <1>1 DEF ChainsOK

\* The bitmaps after an allocation from block b.
LEMMA TakeFirstIs ==
  ASSUME SmallInv, NEW b \in 1..(Len(isfree) + 1), NEW free \in SUBSET InitialFree,
         TakeFirst(b, free), size' = size
  PROVE  isfree' \in Seq(SUBSET InitialFree') /\ Blocks' = Blocks \cup {b}
  <1>1. PICK m, I : m = Len(isfree) /\ I = InitialFree
    OBVIOUS
  <1>2. isfree \in Seq(SUBSET I) /\ m \in Nat /\ Blocks = 1..m
    BY <1>1 DEF SmallInv, Blocks
  <1>3. InitialFree' = I
    BY <1>1 DEF InitialFree, MinObjIndex, NumObjects, AtomsPerObj
  <1>4. PICK n : n = IF b = m + 1 THEN m + 1 ELSE m
    OBVIOUS
  <1>5. n \in Nat /\ Blocks \cup {b} = 1..n
    BY <1>1, <1>2, <1>4
  <1>6. PICK g : g = isfree'
    OBVIOUS
  <1>7. PICK x : x = free \ {Min(free)}
    OBVIOUS
  <1>8. g = [c \in 1..n |-> IF c = b THEN x ELSE isfree[c]]
    BY <1>5, <1>6, <1>7 DEF TakeFirst
  <1>9. x \in SUBSET I /\ \A c \in 1..n : c = b \/ isfree[c] \in SUBSET I
    <2>1. ASSUME NEW c \in 1..n, c # b PROVE isfree[c] \in SUBSET I
      <3>1. c \in 1..m
        BY <2>1, <1>2, <1>5
      <3> QED BY <3>1, <1>1, <1>2
    <2> QED BY <2>1, <1>1, <1>7
  <1>10. g \in [1..n -> SUBSET I]
    BY <1>8, <1>9
  <1>11. g \in Seq(SUBSET I) /\ DOMAIN g = 1..n
    BY <1>5, <1>10
  <1> QED BY <1>3, <1>5, <1>6, <1>11 DEF Blocks

\* What the invariant says of the blocks.
LEMMA PartsOfSmallInv ==
  ASSUME SmallInv
  PROVE  /\ Lists(heads, Range(heads)) /\ Lists(full_heads, Range(full_heads))
         /\ heads \in Seq(Nat) /\ Len(heads) \in Nat
         /\ Len(isfree) \in Nat /\ Blocks = 1..Len(isfree)
         /\ Range(heads) \subseteq Blocks /\ Range(full_heads) \subseteq Blocks
  BY DEF SmallInv, ChainsOK, Lists, Blocks

\* The blocks that allocSmall moves to the chain of full blocks.
LEMMA MovedLists ==
  ASSUME SmallInv, NEW n \in 0..Len(heads)
  PROVE  Lists(Moved(n), {heads[i] : i \in 1..n} \cup Range(full_heads))
  <1>1. PICK H, F, A : H = Range(heads) /\ F = Range(full_heads) /\ A = {heads[i] : i \in 1..n}
    OBVIOUS
  <1>2. Lists(heads, H) /\ Lists(full_heads, F) /\ H \cap F = {}
    BY <1>1 DEF SmallInv, ChainsOK
  <1>3. Lists(Reversed(heads, n), A)
    BY <1>1, <1>2, ReversedLists
  <1>4. A \subseteq H
    BY <1>1, <1>2, SplitChain
  <1>5. Lists(Reversed(heads, n) \o full_heads, A \cup F)
    BY <1>2, <1>3, <1>4, ConcatLists
  <1> QED BY <1>1, <1>5 DEF Moved, Reversed

\* allocSmall finds a block with a free object; the ones in front of it are moved.
LEMMA AllocFromChainKeepsInv ==
  ASSUME SmallInv, AllocFromChain
  PROVE  SmallInv'
  <1>1. PICK n, m : n = FullPrefix /\ m = Len(heads)
    OBVIOUS
  <1>2. n \in 0..m /\ m \in Nat /\ n < m
    BY <1>1, FullPrefixIs, PartsOfSmallInv DEF AllocFromChain
  <1>3. PICK A, B, H, F : /\ A = {heads[i] : i \in 1..n}
                          /\ B = {heads[i] : i \in (n + 1)..m}
                          /\ H = Range(heads) /\ F = Range(full_heads)
    OBVIOUS
  <1>4. A \cap B = {} /\ A \cup B = H
    BY <1>1, <1>2, <1>3, SplitChain, PartsOfSmallInv
  <1>5. H \cap F = {} /\ H \cup F = Blocks
    BY <1>3 DEF SmallInv, ChainsOK
  <1>6. Lists(heads', B)
    BY <1>1, <1>2, <1>3, RestLists, PartsOfSmallInv DEF AllocFromChain
  <1>7. Lists(full_heads', A \cup F)
    BY <1>1, <1>2, <1>3, MovedLists DEF AllocFromChain
  <1>8. PICK b : b = heads[n + 1]
    OBVIOUS
  <1>9. n + 1 \in (n + 1)..m
    BY <1>2
  <1>10. b \in B /\ b \in Blocks
    BY <1>3, <1>4, <1>5, <1>8, <1>9
  <1>11. b \in 1..Len(isfree) /\ b \in 1..(Len(isfree) + 1) /\ isfree[b] \in SUBSET InitialFree
    BY <1>10, PartsOfSmallInv DEF SmallInv
  <1>12. TakeFirst(b, isfree[b]) /\ size' = size
    BY <1>1, <1>8 DEF AllocFromChain
  <1>13. isfree' \in Seq(SUBSET InitialFree') /\ Blocks' = Blocks \cup {b}
    BY <1>11, <1>12, TakeFirstIs
  <1>14. ChainsOK'
    BY <1>4, <1>5, <1>6, <1>7, <1>10, <1>13, ChainsAre
  <1> QED BY <1>12, <1>13, <1>14 DEF SmallInv

\* allocSmall finds none: all blocks become one chain behind a new one.
LEMMA AllocFromNewBlockKeepsInv ==
  ASSUME SmallInv, AllocFromNewBlock
  PROVE  SmallInv'
  <1>1. PICK b, H, F, m : /\ b = Len(isfree) + 1 /\ m = Len(heads)
                          /\ H = Range(heads) /\ F = Range(full_heads)
    OBVIOUS
  <1>2. b \in Nat /\ b \notin Blocks /\ b \in 1..(Len(isfree) + 1) /\ m \in Nat
    BY <1>1, PartsOfSmallInv
  <1>3. H \cap F = {} /\ H \cup F = Blocks /\ Lists(heads, H)
    BY <1>1 DEF SmallInv, ChainsOK
  <1>4. {heads[i] : i \in 1..m} = H
    <2>1. DOMAIN heads = 1..m
      BY <1>1, PartsOfSmallInv
    <2> QED BY <2>1, <1>1 DEF Range
  <1>5. Lists(Moved(m), H \cup F)
    <2>1. m \in 0..Len(heads)
      BY <1>1, <1>2
    <2> QED BY <2>1, <1>1, <1>4, MovedLists
  <1>6. Lists(<<b>>, {b})
    BY <1>2 DEF Lists
  <1>7. Lists(<<b>> \o Moved(m), {b} \cup (H \cup F))
    BY <1>2, <1>3, <1>5, <1>6, ConcatLists
  <1>8. heads' = <<b>> \o Moved(m) /\ full_heads' = <<>> /\ TakeFirst(b, InitialFree) /\ size' = size
    BY <1>1 DEF AllocFromNewBlock, Splice
  <1>9. Lists(full_heads', {})
    BY <1>8 DEF Lists
  <1>10. isfree' \in Seq(SUBSET InitialFree') /\ Blocks' = Blocks \cup {b}
    BY <1>2, <1>8, TakeFirstIs
  <1>11. ChainsOK'
    <2>1. Lists(heads', {b} \cup (H \cup F)) /\ ({b} \cup (H \cup F)) \cup {} = Blocks'
      BY <1>3, <1>7, <1>8, <1>10
    <2> QED BY <2>1, <1>9, ChainsAre
  <1> QED BY <1>8, <1>10, <1>11 DEF SmallInv

\* Objects of blocks are freed, the chains stay.
LEMMA FreesKeepInv ==
  ASSUME SmallInv, UNCHANGED <<size, heads, full_heads>>,
         NEW f, isfree' = f, f \in [Blocks -> SUBSET InitialFree]
  PROVE  SmallInv'
  <1>1. InitialFree' = InitialFree
    BY DEF InitialFree, MinObjIndex, NumObjects, AtomsPerObj
  <1>2. PICK m : m = Len(isfree)
    OBVIOUS
  <1>3. m \in Nat /\ Blocks = 1..m
    BY <1>2, PartsOfSmallInv
  <1>4. f \in Seq(SUBSET InitialFree) /\ DOMAIN f = 1..m
    BY <1>3
  <1>5. Blocks' = Blocks
    BY <1>3, <1>4 DEF Blocks
  <1>6. ChainsOK'
    BY <1>5 DEF SmallInv, ChainsOK
  <1> QED BY <1>1, <1>4, <1>6 DEF SmallInv

\* Every step of a bucket keeps the invariant.
LEMMA SmallNextKeepsInv ==
  ASSUME SmallInv, SmallNext
  PROVE  SmallInv'
  <1>1. isfree \in [Blocks -> SUBSET InitialFree]
    BY DEF SmallInv, Blocks
  <1>2. ASSUME NEW obj \in Allocated, FreeSmall(obj) PROVE SmallInv'
    <2>1. PICK b \in Blocks, a \in InitialFree : obj = <<b, a>>
      BY DEF Allocated
    <2>2. isfree' \in [Blocks -> SUBSET InitialFree]
      BY <1>1, <1>2, <2>1 DEF FreeSmall
    <2> QED BY <1>2, <2>2, FreesKeepInv DEF FreeSmall
  <1>3. ASSUME NEW live \in SUBSET Allocated, FreeUnmarked(live) PROVE SmallInv'
    <2>1. isfree' \in [Blocks -> SUBSET InitialFree]
      BY <1>1, <1>3 DEF FreeUnmarked
    <2> QED BY <1>3, <2>1, FreesKeepInv DEF FreeUnmarked
  <1> QED BY <1>2, <1>3, AllocFromChainKeepsInv, AllocFromNewBlockKeepsInv DEF SmallNext

\* The invariant holds in every state.
LEMMA SmallInvHolds == Spec => []SmallInv
  <1>1. Init => SmallInv
    BY DEF Init, SmallInit, SmallInv, ChainsOK, Lists, Range, Blocks
  <1>2. SmallInv /\ UNCHANGED smallVars => SmallInv'
    <2> SUFFICES ASSUME SmallInv, UNCHANGED smallVars PROVE SmallInv'
      OBVIOUS
    <2>1. isfree' \in [Blocks -> SUBSET InitialFree]
      BY DEF SmallInv, Blocks, smallVars
    <2> QED BY <2>1, FreesKeepInv DEF smallVars
  <1>3. SmallInv /\ [Next]_vars => SmallInv'
    BY <1>2, SmallNextKeepsInv DEF Next, vars
  <1> QED BY <1>1, <1>3, PTL DEF Spec

\* However allocations, frees and collections follow each other, every block is in
\* one of the two chains of its bucket, once.
THEOREM EveryBlockChained == Spec => []EveryBlockInOneChain
  <1>1. SmallInv => EveryBlockInOneChain
    <2> SUFFICES ASSUME SmallInv PROVE EveryBlockInOneChain
      OBVIOUS
    <2>1. Lists(heads \o full_heads, Blocks)
      <3>1. Lists(heads \o full_heads, Range(heads) \cup Range(full_heads))
        BY ConcatLists DEF SmallInv, ChainsOK
      <3> QED BY <3>1 DEF SmallInv, ChainsOK
    <2> QED BY <2>1, ListsIs DEF EveryBlockInOneChain
  <1> QED BY <1>1, SmallInvHolds, PTL

------------------------------------------------------------------------------
(***************************************************************************)
(* The layout of a block.                                                  *)
(***************************************************************************)
\* Multiplication, as far as the layout needs it.
LEMMA TimesMonotonic ==
  ASSUME NEW i \in Nat, NEW j \in Nat, NEW k \in Nat, i <= j
  PROVE  i * k <= j * k
  OBVIOUS

\* One factor grows by one.
LEMMA TimesNext ==
  ASSUME NEW i \in Nat, NEW k \in Nat
  PROVE  (i + 1) * k = i * k + k
  OBVIOUS

\* Three factors.
LEMMA TimesAssociative ==
  ASSUME NEW i \in Nat, NEW j \in Nat, NEW k \in Nat
  PROVE  (i * j) * k = i * (j * k)
  OBVIOUS

\* Quotient and remainder.
LEMMA Division ==
  ASSUME NEW n \in Nat, NEW d \in Nat, d > 0
  PROVE  n \div d \in Nat /\ (n \div d) * d <= n /\ n < (n \div d) * d + d
  OBVIOUS

\* The place of object i of a block.
LEMMA ObjectAt ==
  ASSUME size \in Sizes
  PROVE  /\ size \in Nat /\ size > 0 /\ AtomsPerObj \in Nat
         /\ MinObjIndex \in Nat /\ NumObjects \in Nat
         /\ \A i \in Nat : (i * AtomsPerObj) * ATOM_SIZE = i * size
  <1>1. size \in Nat /\ size > 0 /\ ATOM_SIZE \in Nat /\ ATOM_SIZE > 0 /\ size % ATOM_SIZE = 0
        /\ BLOCK_SIZE \in Nat /\ BLOCK_HEADER_SIZE \in Nat
    BY SmallHeapAssumption
  <1>2. AtomsPerObj \in Nat /\ AtomsPerObj * ATOM_SIZE = size
    BY <1>1 DEF AtomsPerObj
  <1>3. MinObjIndex \in Nat /\ NumObjects \in Nat
    <2>1. BLOCK_HEADER_SIZE + size - 1 \in Nat
      BY <1>1
    <2> QED BY <2>1, <1>1, Division DEF MinObjIndex, NumObjects
  <1> QED BY <1>1, <1>2, <1>3, TimesAssociative

\* Objects that lie one after the other.
LEMMA ObjectsApart ==
  ASSUME NEW sz \in Nat, NEW i \in Nat, NEW j \in Nat, i < j
  PROVE  i * sz + sz <= j * sz
  <1>1. (i + 1) * sz <= j * sz
    BY TimesMonotonic
  <1> QED BY <1>1, TimesNext

\* Objects lie between the header and the end of a block and do not overlap.
LEMMA ObjectsFitHolds ==
  ASSUME size \in Sizes
  PROVE  ObjectsFit
  <1>1. PICK sz, lo, hi, ap : /\ sz = size /\ lo = MinObjIndex /\ hi = NumObjects
                              /\ ap = AtomsPerObj
    OBVIOUS
  <1>2. /\ sz \in Nat /\ sz > 0 /\ lo \in Nat /\ hi \in Nat /\ ap \in Nat
        /\ \A i \in Nat : (i * ap) * ATOM_SIZE = i * sz
        /\ BLOCK_SIZE \in Nat /\ BLOCK_HEADER_SIZE \in Nat /\ ATOM_SIZE \in Nat
    BY <1>1, ObjectAt, SmallHeapAssumption
  <1>3. BLOCK_HEADER_SIZE <= lo * sz
    <2>1. PICK h : h = BLOCK_HEADER_SIZE + sz - 1
      OBVIOUS
    <2>2. h \in Nat /\ lo = h \div sz
      BY <1>1, <1>2, <2>1 DEF MinObjIndex
    <2>3. h < lo * sz + sz /\ lo * sz \in Nat
      BY <1>2, <2>2, Division
    <2> QED BY <1>2, <2>1, <2>3
  <1>4. hi * sz <= BLOCK_SIZE
    BY <1>1, <1>2, Division DEF NumObjects
  <1>5. ASSUME NEW i \in lo..(hi - 1)
        PROVE  /\ (i * ap) * ATOM_SIZE >= BLOCK_HEADER_SIZE
               /\ (i * ap) * ATOM_SIZE + size <= BLOCK_SIZE
    <2>1. i \in Nat /\ lo <= i /\ i < hi
      BY <1>2
    <2>2. lo * sz <= i * sz /\ i * sz + sz <= hi * sz /\ i * sz \in Nat /\ lo * sz \in Nat /\ hi * sz \in Nat
      BY <2>1, <1>2, TimesMonotonic, ObjectsApart
    <2>3. (i * ap) * ATOM_SIZE = i * sz
      BY <1>2, <2>1
    <2> QED BY <1>1, <1>2, <1>3, <1>4, <2>2, <2>3
  <1>6. ASSUME NEW i \in lo..(hi - 1), NEW j \in lo..(hi - 1), i * ap < j * ap
        PROVE  (i * ap) * ATOM_SIZE + size <= (j * ap) * ATOM_SIZE
    <2>1. i \in Nat /\ j \in Nat
      BY <1>2
    <2>2. i < j
      <3>1. j <= i => j * ap <= i * ap
        BY <2>1, <1>2, TimesMonotonic
      <3> QED BY <3>1, <2>1, <1>2, <1>6
    <2>3. i * sz + sz <= j * sz
      BY <1>2, <2>1, <2>2, ObjectsApart
    <2> QED BY <1>1, <1>2, <2>1, <2>3
  <1>7. InitialFree = {i * ap : i \in lo..(hi - 1)}
    BY <1>1 DEF InitialFree
  <1> QED BY <1>5, <1>6, <1>7 DEF ObjectsFit

\* The object of a pointer is the only one it can lie in.
LEMMA OneObjectAt ==
  ASSUME NEW sz \in Nat, NEW i \in Nat, NEW o \in Nat, NEW offset \in Nat,
         o * sz <= offset, offset < o * sz + sz
  PROVE  i = o <=> (i * sz <= offset /\ offset < i * sz + sz)
  <1>1. i * sz \in Nat /\ o * sz \in Nat
    OBVIOUS
  <1>2. i < o => i * sz + sz <= o * sz
    BY ObjectsApart
  <1>3. o < i => o * sz + sz <= i * sz
    BY ObjectsApart
  <1> QED BY <1>1, <1>2, <1>3

\* What the collector finds for a word that points into block b.
LEMMA InteriorPointer ==
  ASSUME size \in Sizes, NEW b, NEW offset \in Nat
  PROVE  GetAllocationFromInteriorPointer(b, offset) =
           {a \in InitialFree \ isfree[b] :
              a * ATOM_SIZE <= offset /\ offset < a * ATOM_SIZE + size}
  <1>1. PICK sz, lo, hi, ap, o : /\ sz = size /\ lo = MinObjIndex /\ hi = NumObjects
                                 /\ ap = AtomsPerObj /\ o = offset \div size
    OBVIOUS
  <1>2. /\ sz \in Nat /\ sz > 0 /\ lo \in Nat /\ hi \in Nat /\ ap \in Nat
        /\ \A i \in Nat : (i * ap) * ATOM_SIZE = i * sz
    BY <1>1, ObjectAt
  <1>3. o \in Nat /\ o * sz <= offset /\ offset < o * sz + sz
    BY <1>1, <1>2, Division
  <1>4. InitialFree = {i * ap : i \in lo..(hi - 1)}
    BY <1>1 DEF InitialFree
  <1>5. PICK X, Y : /\ X = GetAllocationFromInteriorPointer(b, offset)
                    /\ Y = {a \in InitialFree \ isfree[b] :
                              a * ATOM_SIZE <= offset /\ offset < a * ATOM_SIZE + size}
    OBVIOUS
  <1>6. X = {a \in {o * ap} : o \in lo..(hi - 1) /\ a \notin isfree[b]}
    BY <1>1, <1>5 DEF GetAllocationFromInteriorPointer
  <1>7. \A i \in lo..(hi - 1) : /\ i \in Nat /\ (i * ap) * ATOM_SIZE = i * sz
                                /\ i = o <=> (i * sz <= offset /\ offset < i * sz + sz)
    BY <1>2, <1>3, OneObjectAt
  <1>8. X \subseteq Y
    BY <1>1, <1>4, <1>5, <1>6, <1>7
  <1>9. Y \subseteq X
    <2> SUFFICES ASSUME NEW a \in Y PROVE a \in X
      OBVIOUS
    <2>1. PICK i \in lo..(hi - 1) : a = i * ap
      BY <1>4, <1>5
    <2>2. i = o
      BY <1>1, <1>5, <1>7, <2>1
    <2> QED BY <1>5, <1>6, <2>1, <2>2
  <1> QED BY <1>5, <1>8, <1>9

\* For every layout of blocks: a pointer anywhere into an object in use leads to its
\* start, any other pointer into a block to nothing, and no two objects overlap.
THEOREM InteriorPointersFound == Spec => []InteriorPointersFindObjects
  <1>1. SmallInv => InteriorPointersFindObjects
    <2> SUFFICES ASSUME SmallInv PROVE InteriorPointersFindObjects
      OBVIOUS
    <2>1. size \in Sizes /\ BLOCK_SIZE \in Nat
      BY SmallHeapAssumption DEF SmallInv
    <2>2. \A offset \in {8 * k : k \in 0..(BLOCK_SIZE \div 8 - 1)} : offset \in Nat
      BY <2>1
    <2> QED BY <2>1, <2>2, ObjectsFitHolds, InteriorPointer DEF InteriorPointersFindObjects
  <1> QED BY <1>1, SmallInvHolds, PTL

=============================================================================
