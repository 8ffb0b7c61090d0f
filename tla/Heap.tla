-------------------------------- MODULE Heap ---------------------------------
(***************************************************************************)
(* The heap: the small allocations of SmallHeap, and growing arrays and    *)
(* large objects (Heap::alloc, allocLarge, realloc, free and the second    *)
(* half of freeUnmarked in src/gc/heap.{h,cpp}).                           *)
(*                                                                         *)
(* The clients are the two arrays of the runtime that grow in place of the *)
(* same pointer: the elements of a list and the attributes of an object    *)
(* (a header and n pointers each).  Up to the largest of sizes[] they live *)
(* in a block of the size class above; larger ones get pages of their own, *)
(* on a doubly linked list.  Sizes are the real ones, in bytes.            *)
(***************************************************************************)
EXTENDS SmallHeap, Integers, TLC

CONSTANTS
  Addresses,        \* bound: objects that exist at the same time
  PAGE_SIZE, LARGE_HEADER, WORD,
  InitialCapacity,  \* INITIAL_CAPACITY of BoxedList::ensure
  MaxElements,      \* bound: entries of the elements of a list
  MaxAttrs          \* bound: entries of the attributes of an object

NULL == "NULL"
HEAD == "large_head"   \* as the place a prev pointer refers to

\* Addresses are compared with each other and with NULL only.
AddressSymmetry == Permutations(Addresses)

ASSUME HeapAssumption ==
  /\ {PAGE_SIZE, LARGE_HEADER, WORD, InitialCapacity, MaxElements, MaxAttrs} \subseteq Nat
  /\ PAGE_SIZE > LARGE_HEADER /\ WORD > 0
  /\ NULL \notin Addresses /\ HEAD \notin Addresses

VARIABLES
  arrays,   \* address -> the array there
  links,    \* large_head, LargeObj::next and the place LargeObj::prev points to
  cur,      \* freeUnmarked's position in the list, NULL when it does not run
  marked    \* what the collection that runs has marked

largeVars == <<arrays, links, cur, marked>>
vars == <<smallVars, largeVars>>

Bytes(n) == WORD * n + WORD

Large(bytes) == bytes > Max(Sizes)
SizeClass(bytes) == Min({s \in Sizes : s >= bytes})

RoundUp(bytes) == ((bytes + PAGE_SIZE - 1) \div PAGE_SIZE) * PAGE_SIZE
MmapSize(obj_size) == RoundUp(obj_size + LARGE_HEADER)
Capacity(obj_size) == MmapSize(obj_size) - LARGE_HEADER

(***************************************************************************)
(* An array of n entries.  size is what the heap recorded: the size class, *)
(* or LargeObj::obj_size.  kept is the number of leading entries that hold *)
(* what the program stored.  The elements of a list double, from the       *)
(* initial capacity; the attributes of an object grow one by one.          *)
(***************************************************************************)
Initial == [elements |-> InitialCapacity, attrs |-> 1]
Grown(kind, n) == IF kind = "elements" THEN 2 * n ELSE n + 1
MaxEntries(kind) == IF kind = "elements" THEN MaxElements ELSE MaxAttrs

Array(kind, n, kept) ==
  [kind |-> kind, n |-> n, kept |-> kept, large |-> Large(Bytes(n)),
   size |-> IF Large(Bytes(n)) THEN Bytes(n) ELSE SizeClass(Bytes(n))]

InUse == DOMAIN arrays
LargeObjs == {a \in InUse : arrays[a].large}

LargeInit ==
  /\ arrays = <<>>
  /\ links = [head |-> NULL, next |-> [a \in Addresses |-> NULL],
                             prev |-> [a \in Addresses |-> NULL]]
  /\ cur = NULL
  /\ marked = {}

\* allocLarge puts the new object first.
PushFront(l, obj) ==
  [head |-> obj,
   next |-> [l.next EXCEPT ![obj] = l.head],
   prev |-> [a \in Addresses |-> IF a = obj THEN HEAD
                                 ELSE IF a = l.head THEN obj ELSE l.prev[a]]]

\* *obj->prev = obj->next; if (obj->next) obj->next->prev = obj->prev.
\* Mutant: the back pointer of the next object is left alone.
UnlinkForward(l, obj) ==
  [l EXCEPT !.head = IF l.prev[obj] = HEAD THEN l.next[obj] ELSE @,
            !.next = [a \in Addresses |-> IF a = l.prev[obj] THEN l.next[obj] ELSE @[a]]]
Unlink(l, obj) ==
  [head |-> IF l.prev[obj] = HEAD THEN l.next[obj] ELSE l.head,
   next |-> [a \in Addresses |-> IF a = l.prev[obj] THEN l.next[obj] ELSE l.next[a]],
   prev |-> [a \in Addresses |-> IF a = l.next[obj] THEN l.prev[obj] ELSE l.prev[a]]]

LinkNew(l, obj, arr) == IF arr.large THEN PushFront(l, obj) ELSE l
UnlinkOld(l, obj, arr) == IF arr.large THEN Unlink(l, obj) ELSE l

\* alloc, and the program fills the array.
Alloc(a, kind) ==
  LET new == Array(kind, Initial[kind], Initial[kind]) IN
  /\ cur = NULL
  /\ a \in Addresses \ InUse
  /\ new.n <= MaxEntries(kind)
  /\ arrays' = [c \in InUse \cup {a} |-> IF c = a THEN new ELSE arrays[c]]
  /\ links' = LinkNew(links, a, new)
  /\ UNCHANGED <<cur, marked>>

(***************************************************************************)
(* realloc to n entries, and the program fills the new ones.  What fits    *)
(* well enough stays where it is, with the recorded size it had; otherwise *)
(* the smaller of the new and the recorded size is copied to a new object, *)
(* and the old one is freed.                                               *)
(***************************************************************************)
Fits(arr, bytes) ==
  LET room == IF arr.large THEN Capacity(arr.size) ELSE arr.size
  IN  room >= bytes /\ room < bytes * 2

\* How many leading entries of arr survive the copy.
\* Mutant: one entry less, as if the header were not part of the copy.
CopiedWithoutHeader(arr, bytes) ==
  Min({arr.kept, (Min({bytes, arr.size - WORD}) \div WORD) - 1})
Copied(arr, bytes) == Min({arr.kept, (Min({bytes, arr.size}) \div WORD) - 1})

\* The new entries are filled; what was lost before stays lost.
Filled(kept, from, n) == IF kept = from THEN n ELSE kept

ReallocInPlace(a, n) ==
  /\ cur = NULL
  /\ Fits(arrays[a], Bytes(n))
  /\ arrays' = [arrays EXCEPT ![a].n = n, ![a].kept = Filled(@, arrays[a].n, n)]
  /\ UNCHANGED <<links, cur, marked>>

ReallocMoves(a, b, n) ==
  LET new == Array(arrays[a].kind, n, Filled(Copied(arrays[a], Bytes(n)), arrays[a].n, n)) IN
  /\ cur = NULL
  /\ ~ Fits(arrays[a], Bytes(n))
  /\ b \in Addresses \ InUse
  /\ arrays' = [c \in (InUse \ {a}) \cup {b} |-> IF c = b THEN new ELSE arrays[c]]
  /\ links' = UnlinkOld(LinkNew(links, b, new), a, arrays[a])
  /\ UNCHANGED <<cur, marked>>

\* Heap::free.
Free(a) ==
  /\ cur = NULL
  /\ a \in InUse
  /\ arrays' = Restrict(arrays, InUse \ {a})
  /\ links' = UnlinkOld(links, a, arrays[a])
  /\ UNCHANGED <<cur, marked>>

(***************************************************************************)
(* freeUnmarked: the blocks first, then the list, one object per step.  An *)
(* object that is freed is unlinked in the loop and again by _freeLargeObj.*)
(***************************************************************************)
StartSweep(live) ==
  /\ cur = NULL
  /\ arrays' = Restrict(arrays, live \cup LargeObjs)
  /\ cur' = links.head
  /\ marked' = IF links.head = NULL THEN {} ELSE live
  /\ UNCHANGED links

SweepStep ==
  /\ cur # NULL
  /\ cur' = links.next[cur]
  /\ marked' = IF links.next[cur] = NULL THEN {} ELSE marked \ {cur}
  /\ IF cur \in marked THEN UNCHANGED <<arrays, links>>
     ELSE /\ links' = Unlink(Unlink(links, cur), cur)
          /\ arrays' = Restrict(arrays, InUse \ {cur})

LargeNext ==
  \/ \E a \in Addresses, kind \in DOMAIN Initial : Alloc(a, kind)
  \/ \E a \in InUse :
       LET n == Grown(arrays[a].kind, arrays[a].n) IN
       /\ n <= MaxEntries(arrays[a].kind)
       /\ ReallocInPlace(a, n) \/ \E b \in Addresses : ReallocMoves(a, b, n)
  \/ \E a \in InUse : Free(a)
  \/ \E live \in SUBSET InUse : StartSweep(live)
  \/ SweepStep

Init == SmallInit /\ LargeInit

\* Bound: blocks and large objects share no state, so their interleavings are left
\* out.  Arrays are explored beside an empty bucket of the largest size.
Next ==
  \/ InUse = {} /\ SmallNext /\ UNCHANGED largeVars
  \/ size = Max(Sizes) /\ isfree = <<>> /\ LargeNext /\ UNCHANGED smallVars

Spec == Init /\ [][Next]_vars

------------------------------------------------------------------------------
(***************************************************************************)
(* Properties.                                                             *)
(***************************************************************************)

\* The objects from obj to the end of the list: those in every set that has obj and,
\* with an object, the next one.
ListFrom(obj) ==
  {a \in Addresses : \A S \in SUBSET Addresses :
     /\ obj # NULL => obj \in S
     /\ \A b \in S : links.next[b] # NULL => links.next[b] \in S
     => a \in S}

\* The doubly linked list holds the large objects that exist and nothing else, and
\* its pointers agree in both directions, between any two operations and in the
\* middle of a sweep: nothing leaks, and no pointer refers to unmapped pages.
ListHoldsLargeObjs ==
  /\ ListFrom(links.head) = LargeObjs
  /\ \A a \in LargeObjs :
       /\ links.prev[a] = HEAD <=> links.head = a
       /\ links.prev[a] # HEAD => links.prev[a] \in LargeObjs /\ links.next[links.prev[a]] = a

\* An array keeps what was stored in it when it grows, and its pages or its size
\* class have room for all of it: hcBoxGCHandler and listGCHandler visit all of its
\* entries, and the visitor asserts of each that it points to an object.
ReallocKeepsContents ==
  \A a \in InUse :
    /\ arrays[a].kept = arrays[a].n
    /\ Bytes(arrays[a].n) <=
         IF arrays[a].large THEN MmapSize(arrays[a].size) - LARGE_HEADER ELSE arrays[a].size
==============================================================================
