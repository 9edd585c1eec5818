------------------------------- MODULE OsalHeap -------------------------------
(***************************************************************************)
(* The heap behind osal_mem_alloc, osal_msg_allocate and osal_memdup in    *)
(* soc/phy6252/osal.rs: an arena the firmware describes, handed out from   *)
(* its low end and reused through a list of freed blocks that are split    *)
(* but never joined.  Sizes and addresses are 32-bit numbers; the model    *)
(* keeps their width, because a request near the top of the range is       *)
(* rounded by saturating arithmetic.  The order of the free list, which    *)
(* decides which of several fitting blocks is split, is left open.         *)
(***************************************************************************)
EXTENDS Integers

CONSTANTS
  WordMax,   \* 2^32 - 1, the largest address and size
  HeapBase,  \* the words at EMU_HEAP_BASE and EMU_HEAP_SIZE
  HeapSize,
  Requests   \* bound: the sizes the firmware asks for, in bytes

ASSUME WordAssumption == WordMax \in Nat /\ WordMax % 4 = 3 /\ WordMax > 8
ASSUME HeapAssumption ==
  /\ HeapBase \in 1..WordMax
  /\ HeapSize \in 1..WordMax
  /\ HeapBase + HeapSize <= WordMax
ASSUME RequestsAssumption == Requests \subseteq 0..WordMax

Word == 0..WordMax
MsgHdr == 8

SaturatingAdd(a, b) == IF a + b > WordMax THEN WordMax ELSE a + b

\* align4: saturating_add(3), then the two low bits cleared.
Align4(n) == 4 * (SaturatingAdd(n, 3) \div 4)

HeapStart == Align4(HeapBase)
HeapEnd == HeapBase + HeapSize

VARIABLES
  heapNext,  \* HostOsal.heap_next: the arena is handed out below it
  allocs,    \* HostOsal.allocs, each block with the bytes its owner counts on
  free       \* HostOsal.free

heapVars == <<heapNext, allocs, free>>

Block == [ptr : Word, size : Word]
Owned == [ptr : Word, size : Word, need : Nat]

TypeOK ==
  /\ heapNext \in Word
  /\ allocs \subseteq Owned
  /\ free \subseteq Block

Init ==
  /\ heapNext = HeapStart
  /\ allocs = {}
  /\ free = {}

-----------------------------------------------------------------------------
Own(ptr, size, need) == [ptr |-> ptr, size |-> size, need |-> need]

\* Faulty variant: the remainder keeps the size of the whole block.
RemainderTooLong(block, size) ==
  IF block.size > size THEN {[ptr |-> block.ptr + size, size |-> block.size]} ELSE {}

\* Faulty variant: the remainder is forgotten.
RemainderLost(block, size) == {}

\* What is left of a freed block after "size" bytes at its low end are used.
Remainder(block, size) ==
  IF block.size > size
    THEN {[ptr |-> block.ptr + size, size |-> block.size - size]}
    ELSE {}

FitsIn(size) == {b \in free : b.size >= size}

\* A freed block that is large enough is used before the arena grows.
ReuseBlock(size, need) ==
  \E b \in FitsIn(size) :
    /\ free' = (free \ {b}) \cup Remainder(b, size)
    /\ allocs' = allocs \cup {Own(b.ptr, size, need)}
    /\ UNCHANGED heapNext

GrowArena(size, need) ==
  /\ FitsIn(size) = {}
  /\ heapNext + size <= HeapEnd
  /\ heapNext' = heapNext + size
  /\ allocs' = allocs \cup {Own(heapNext, size, need)}
  /\ UNCHANGED free

\* alloc_block; a request of zero bytes, or one that nothing can hold,
\* returns 0 and changes nothing.
AllocBlock(requested, need) ==
  /\ requested # 0
  /\ \/ ReuseBlock(Align4(requested), need)
     \/ GrowArena(Align4(requested), need)

MemAlloc(n) == AllocBlock(n, n)

\* Faulty variant: the header is added without saturation.
MsgAllocWrapping(len) == AllocBlock((len + MsgHdr) % (WordMax + 1), len + MsgHdr)

\* osal_msg_allocate asks for the header as well.
MsgAlloc(len) == AllocBlock(SaturatingAdd(len, MsgHdr), len + MsgHdr)

\* free_block; an unknown address is refused and a null one ignored.
FreeBlock(ptr) ==
  \E b \in allocs :
    /\ b.ptr = ptr
    /\ allocs' = allocs \ {b}
    /\ free' = free \cup {[ptr |-> b.ptr, size |-> b.size]}
    /\ UNCHANGED heapNext

\* A system reset of the chip starts over with a new HostOsal.
Reset ==
  /\ heapNext' = HeapStart
  /\ allocs' = {}
  /\ free' = {}

Next ==
  \/ Reset
  \/ \E n \in Requests : MemAlloc(n) \/ MsgAlloc(n)
  \/ \E b \in allocs : FreeBlock(b.ptr)

Spec == Init /\ [][Next]_heapVars

-----------------------------------------------------------------------------
(* Properties. *)

Apart(b, c) == b.ptr + b.size <= c.ptr \/ c.ptr + c.size <= b.ptr

\* No two owners share a byte, and no owner shares one with the free list:
\* whatever is allocated, split, freed and reused, in whatever order.
BlocksApart ==
  /\ \A b, c \in allocs : b # c => Apart(b, c)
  /\ \A b, c \in free : b # c => Apart(b, c)
  /\ \A b \in allocs, c \in free : Apart(b, c)

\* Every block is aligned, is not empty and lies in the part of the arena
\* that has been handed out, which never passes the arena's end.
BlocksInArena ==
  /\ heapNext % 4 = 0
  /\ heapNext = HeapStart \/ heapNext \in HeapStart..HeapEnd
  /\ \A b \in allocs \cup free :
       /\ b.ptr % 4 = 0 /\ b.size % 4 = 0
       /\ b.size > 0
       /\ HeapStart <= b.ptr /\ b.ptr + b.size <= heapNext

\* The owner of a block was given at least the bytes it counts on, also when
\* the rounding of its request saturated.
RequestHonoured == \A b \in allocs : b.need <= b.size

\* Nothing leaks: every handed-out byte belongs to a block, so it can be
\* allocated again once its owner frees it.
ArenaCovered ==
  \A a \in HeapStart .. (heapNext - 1) :
    \E b \in allocs \cup free : b.ptr <= a /\ a < b.ptr + b.size
=============================================================================
