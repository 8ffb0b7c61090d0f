------------------------------ MODULE SmallHeap ------------------------------
(***************************************************************************)
(* Small allocations: src/gc/heap.{h,cpp}.                                 *)
(*                                                                         *)
(* One bucket of Heap: blocks of BLOCK_SIZE bytes cut into objects of one  *)
(* size, a bitmap per block with one bit per atom, and two chains.  heads  *)
(* is searched by allocSmall, which moves the blocks it finds full to      *)
(* full_heads; when heads runs out a new block is made, in front of all    *)
(* the blocks of full_heads.  Only blocks in a chain are swept.            *)
(*                                                                         *)
(* Blocks are numbered in the order the arena hands them out.  The prev    *)
(* pointers of blocks are left out: nothing but an assertion reads them.   *)
(***************************************************************************)
EXTENDS Naturals, Sequences, Functions, FiniteSetsExt

CONSTANTS
  BLOCK_SIZE, ATOM_SIZE, BLOCK_HEADER_SIZE,
  Sizes,            \* sizes[]
  MaxBlocks,        \* bound: blocks of a bucket of large objects
  MaxFreeing        \* bound: objects per block up to which frees and several blocks
                    \* are explored

ASSUME SmallHeapAssumption ==
  /\ {BLOCK_SIZE, ATOM_SIZE, BLOCK_HEADER_SIZE, MaxBlocks, MaxFreeing} \subseteq Nat
  /\ ATOM_SIZE > 0
  /\ Sizes \subseteq Nat /\ Sizes # {} /\ IsFiniteSet(Sizes)
  /\ \A s \in Sizes : s % ATOM_SIZE = 0 /\ s > 0 /\ s <= BLOCK_SIZE

VARIABLES
  size,         \* Block::size of the bucket
  heads,        \* heads[bucket]
  full_heads,   \* full_heads[bucket]
  isfree        \* block -> the atoms whose bit is set

smallVars == <<size, heads, full_heads, isfree>>

------------------------------------------------------------------------------
(***************************************************************************)
(* The layout of a block.                                                  *)
(***************************************************************************)
MinObjIndex == (BLOCK_HEADER_SIZE + size - 1) \div size
NumObjects == BLOCK_SIZE \div size
AtomsPerObj == size \div ATOM_SIZE

\* The atoms of the objects that alloc_block marks as free.
InitialFree == {i * AtomsPerObj : i \in MinObjIndex..(NumObjects - 1)}

Blocks == DOMAIN isfree
Allocated == UNION {{<<b, a>> : a \in InitialFree \ isfree[b]} : b \in Blocks}

\* getAllocationFromInteriorPointer for byte offset of block b: the atom where the
\* object starts, as a set that is empty for NULL.
\* Mutant: the index of the object is used as the index of its bit.
InteriorByIndex(b, offset) ==
  LET obj == offset \div size
  IN  {a \in {obj * AtomsPerObj} : obj \in MinObjIndex..(NumObjects - 1) /\ obj \notin isfree[b]}
GetAllocationFromInteriorPointer(b, offset) ==
  LET obj == offset \div size
  IN  {a \in {obj * AtomsPerObj} : obj \in MinObjIndex..(NumObjects - 1) /\ a \notin isfree[b]}

------------------------------------------------------------------------------
SmallInit ==
  /\ size \in Sizes
  /\ heads = <<>>
  /\ full_heads = <<>>
  /\ isfree = <<>>

(***************************************************************************)
(* allocSmall.  The blocks in front of the first one with a free object    *)
(* are moved one by one to the front of full_heads.                        *)
(***************************************************************************)
FullPrefix == CHOOSE n \in 0..Len(heads) :
                /\ \A k \in 1..n : isfree[heads[k]] = {}
                /\ n = Len(heads) \/ isfree[heads[n + 1]] # {}

Moved(n) == [k \in 1..n |-> heads[n + 1 - k]] \o full_heads

\* The object of the lowest bit is handed out.
TakeFirst(b, free) ==
  isfree' = [c \in Blocks \cup {b} |-> IF c = b THEN free \ {Min(free)} ELSE isfree[c]]

AllocFromChain ==
  /\ FullPrefix < Len(heads)
  /\ heads' = SubSeq(heads, FullPrefix + 1, Len(heads))
  /\ full_heads' = Moved(FullPrefix)
  /\ TakeFirst(heads[FullPrefix + 1], isfree[heads[FullPrefix + 1]])
  /\ UNCHANGED size

\* Mutant: the chain of full blocks is dropped.
SpliceDrops(new) == heads' = <<new>> /\ full_heads' = <<>>
Splice(new) == heads' = <<new>> \o Moved(Len(heads)) /\ full_heads' = <<>>

AllocFromNewBlock ==
  /\ FullPrefix = Len(heads)
  /\ Len(isfree) < IF NumObjects <= MaxFreeing THEN MaxBlocks ELSE 1
  /\ Splice(Len(isfree) + 1)
  /\ TakeFirst(Len(isfree) + 1, InitialFree)
  /\ UNCHANGED size

\* Heap::free, through _freeFrom (which asserts that the object is not free): rt_free,
\* or realloc, which has copied the object to another bucket.
FreeSmall(obj) ==
  /\ obj \in Allocated
  /\ isfree' = [isfree EXCEPT ![obj[1]] = @ \cup {obj[2]}]
  /\ UNCHANGED <<size, heads, full_heads>>

\* freeUnmarked, by way of freeChain on both chains.
FreeUnmarked(marked) ==
  /\ isfree' = [b \in Blocks |->
                  IF b \in Range(heads) \cup Range(full_heads)
                    THEN {a \in InitialFree : <<b, a>> \notin marked}
                    ELSE isfree[b]]
  /\ UNCHANGED <<size, heads, full_heads>>

SmallNext ==
  \/ AllocFromChain
  \/ AllocFromNewBlock
  \/ NumObjects <= MaxFreeing /\ \/ \E obj \in Allocated : FreeSmall(obj)
                                 \/ \E marked \in SUBSET Allocated : FreeUnmarked(marked)

------------------------------------------------------------------------------
(***************************************************************************)
(* Properties.                                                             *)
(***************************************************************************)

\* However allocations, frees and collections follow each other, every block is in
\* exactly one of the two chains, once: none is lost to the sweep, and none is
\* visited twice.
EveryBlockInOneChain ==
  LET all == heads \o full_heads
  IN  IsInjective(all) /\ Range(all) = Blocks

\* Two objects of a block do not overlap, and none overlaps the header or the end.
ObjectsFit ==
  /\ \A a \in InitialFree : a * ATOM_SIZE >= BLOCK_HEADER_SIZE
                            /\ a * ATOM_SIZE + size <= BLOCK_SIZE
  /\ \A a, b \in InitialFree : a < b => a * ATOM_SIZE + size <= b * ATOM_SIZE

\* The collector's view of a word agrees with the allocator's: a pointer anywhere
\* into an object that is in use leads to the start of that object, and any other
\* pointer into a block (the header, free objects, the rest at the end) to nothing.
InteriorPointersFindObjects ==
  /\ ObjectsFit
  /\ \A b \in Blocks, offset \in {8 * k : k \in 0..(BLOCK_SIZE \div 8 - 1)} :
       GetAllocationFromInteriorPointer(b, offset) =
         {a \in InitialFree \ isfree[b] :
            a * ATOM_SIZE <= offset /\ offset < a * ATOM_SIZE + size}
==============================================================================
