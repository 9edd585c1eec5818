------------------------------ MODULE BufferViews ------------------------------
(***************************************************************************)
(* The buffer manager of soc/phy6252/bm_rom.rs on the heap of OsalHeap.    *)
(* A layer of the stack gets a buffer, moves its pointer forward and back  *)
(* as it strips and adds headers, and frees it by the pointer it has then. *)
(* The emulator knows the block of a pointer from a table that every move  *)
(* adds to and every free clears of its block; a pointer that is not in    *)
(* the table is taken for a block of its own.  The table belongs to the    *)
(* thread, not to a chip, and a reset does not clear it.                   *)
(*                                                                         *)
(* The firmware keeps the contract of the SDK: a pointer stays on a byte   *)
(* of its block, and a buffer goes back through osal_bm_free.              *)
(***************************************************************************)
EXTENDS OsalHeap

CONSTANT Adjustments  \* bound: the sizes by which a header is moved

ASSUME AdjustmentsAssumption == Adjustments \subseteq Int

VARIABLES
  views,    \* BASE_BY_VIEW: the block of each pointer that was moved
  buffers,  \* the pointer that the firmware holds into each of its buffers
  stale     \* history: a reset has left entries of the boot before it

bufVars == <<heapNext, allocs, free, views, buffers, stale>>

Empty == [v \in {} |-> 0]

\* f without the pointers of "gone".
Without(f, gone) == [v \in DOMAIN f \ gone |-> f[v]]

BaseOf(ptr) == IF ptr \in DOMAIN views THEN views[ptr] ELSE ptr

IsBlock(ptr) == \E b \in allocs : b.ptr = ptr
InBlock(ptr, base) == \E b \in allocs : b.ptr = base /\ ptr \in b.ptr .. b.ptr + b.size - 1

BufInit == Init /\ views = Empty /\ buffers = Empty /\ stale = FALSE

-----------------------------------------------------------------------------
\* The entries hci_bm_alloc, LL_rx_bm_alloc, LL_tx_bm_alloc and osal_bm_alloc
\* all go on as osal_mem_alloc.
BmAlloc(n) ==
  /\ MemAlloc(n)
  /\ LET new == {b.ptr : b \in allocs' \ allocs}
     IN  buffers' = [p \in DOMAIN buffers \cup new |-> IF p \in new THEN p ELSE buffers[p]]
  /\ UNCHANGED <<views, stale>>

\* Faulty variant: the pointer before the move counts as the block.
MoveFromLast(base, ptr, adjusted) ==
  views' = [v \in DOMAIN views \cup {ptr, adjusted} |->
              IF v \in {ptr, adjusted} THEN ptr ELSE views[v]]

\* The table learns both ends of a move.
Move(base, ptr, adjusted) ==
  views' = [v \in DOMAIN views \cup {ptr, adjusted} |->
              IF v \in {ptr, adjusted} THEN base ELSE views[v]]

\* A positive size makes room for a header, a negative one strips it.
AdjustHeader(buffer, size) ==
  LET ptr == buffers[buffer]
      adjusted == ptr - size
  IN  /\ InBlock(adjusted, buffer)
      /\ Move(BaseOf(ptr), ptr, adjusted)
      /\ buffers' = [buffers EXCEPT ![buffer] = adjusted]
      /\ UNCHANGED <<heapVars, stale>>

\* All pointers into the block are forgotten.
Forget(ptr, base) == views' = Without(views, {v \in DOMAIN views : views[v] = base})

\* osal_bm_free goes on as osal_mem_free, which refuses what is not a block.
BmFree(buffer) ==
  LET base == BaseOf(buffers[buffer])
  IN  /\ Forget(buffers[buffer], base)
      /\ \/ FreeBlock(base)
         \/ ~IsBlock(base) /\ UNCHANGED heapVars
      /\ buffers' = Without(buffers, {buffer})
      /\ UNCHANGED stale

\* A message, which has no views.
MessageStep ==
  /\ \/ \E n \in Requests : MsgAlloc(n)
     \/ \E b \in allocs : b.ptr \notin DOMAIN buffers /\ FreeBlock(b.ptr)
  /\ UNCHANGED <<views, buffers, stale>>

BufReset ==
  /\ Reset
  /\ buffers' = Empty
  /\ stale' = (stale \/ DOMAIN views # {})
  /\ UNCHANGED views

\* What such entries do to the buffers of the next boot is not followed.
LeftStale == stale /\ UNCHANGED bufVars

BufSteps ==
  \/ BufReset
  \/ MessageStep
  \/ \E n \in Requests : BmAlloc(n)
  \/ \E buffer \in DOMAIN buffers :
       BmFree(buffer) \/ \E size \in Adjustments : AdjustHeader(buffer, size)

BufNext == LeftStale \/ (~stale /\ BufSteps)

BufSpec == BufInit /\ [][BufNext]_bufVars

-----------------------------------------------------------------------------
(* Properties. *)

\* However its pointer was moved, and whatever was allocated in the place of
\* other buffers, a buffer is freed as itself: its pointer leads to its own
\* block, and the block is still there.  After a reset with entries left the
\* table says nothing about the new blocks.
FreesOwnBlock ==
  ~stale => \A buffer \in DOMAIN buffers :
              IsBlock(buffer) /\ BaseOf(buffers[buffer]) = buffer
=============================================================================
