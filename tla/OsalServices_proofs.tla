-------------------------- MODULE OsalServices_proofs --------------------------
(***************************************************************************)
(* Theorems about the services of the OSAL beside its kernel and timers:   *)
(* the heap is sound for every arena and word width; the buffers are a     *)
(* client of the heap and are freed as themselves; the links of the        *)
(* message queues are always lists and serve them as queues; a callback    *)
(* is never made before its time.                                          *)
(***************************************************************************)
EXTENDS BufferViews, MsgQueue, CbTimers, ProofLemmas, SequenceTheorems

-----------------------------------------------------------------------------
(* The arithmetic of rounding. *)

\* Rounding yields a multiple of four that fits a word; it is at least the
\* request unless the request is so large that no arena can hold the result.
LEMMA Align4Lemma ==
  ASSUME NEW n \in Word
  PROVE  /\ Align4(n) \in Word
         /\ Align4(n) % 4 = 0
         /\ n > 0 => Align4(n) > 0
         /\ n <= Align4(n) \/ Align4(n) = WordMax - 3
<1> DEFINE q == WordMax \div 4
<1>1. /\ WordMax \in Nat /\ WordMax > 8
      /\ n \in Nat /\ n <= WordMax
      /\ q \in Nat /\ WordMax = 4 * q + 3
  BY WordAssumption DEF Word
<1> HIDE DEF q
<1>2. CASE n + 3 > WordMax
  <2>1. Align4(n) = 4 * q
    BY <1>1, <1>2 DEF Align4, SaturatingAdd
  <2> QED BY <1>1, <1>2, <2>1 DEF Word
<1>3. CASE n + 3 <= WordMax
  <2> DEFINE k == (n + 3) \div 4
  <2>1. k \in Nat /\ n <= 4 * k /\ 4 * k <= n + 3
    BY <1>1
  <2>2. Align4(n) = 4 * k
    BY <1>1, <1>3 DEF Align4, SaturatingAdd
  <2> HIDE DEF k
  <2>3. 4 * k \in Word /\ (4 * k) % 4 = 0
    BY <1>1, <1>3, <2>1 DEF Word
  <2> QED BY <1>1, <2>1, <2>2, <2>3
<1> QED BY <1>1, <1>2, <1>3

\* A request rounded for an owner that counts on "need" bytes.
Rounded(size, need) ==
  /\ size \in Word /\ size % 4 = 0 /\ size > 0
  /\ need \in Nat
  /\ need <= size \/ size = WordMax - 3

LEMMA MemAllocRounded ==
  ASSUME NEW n \in Word, n # 0
  PROVE  Rounded(Align4(n), n)
BY Align4Lemma DEF Rounded, Word

LEMMA MsgAllocRounded ==
  ASSUME NEW len \in Word
  PROVE  Rounded(Align4(SaturatingAdd(len, MsgHdr)), len + MsgHdr)
<1> DEFINE n == SaturatingAdd(len, MsgHdr)
<1>1. WordMax \in Nat /\ WordMax % 4 = 3 /\ WordMax > 8
  BY WordAssumption
<1>2. n \in Word /\ n > 0 /\ (n = len + MsgHdr \/ n = WordMax)
  BY <1>1 DEF SaturatingAdd, Word, MsgHdr
<1>3. len + MsgHdr \in Nat
  BY DEF Word, MsgHdr
<1> HIDE DEF n
<1>4. /\ Align4(n) \in Word /\ Align4(n) % 4 = 0 /\ Align4(n) > 0
      /\ n <= Align4(n) \/ Align4(n) = WordMax - 3
  BY <1>2, Align4Lemma
<1>5. len + MsgHdr <= Align4(n) \/ Align4(n) = WordMax - 3
  BY <1>1, <1>2, <1>4 DEF Word
<1> QED BY <1>3, <1>4, <1>5 DEF Rounded, n

LEMMA ArenaLemma ==
  /\ HeapStart \in Word /\ HeapStart % 4 = 0 /\ HeapStart >= 4
  /\ HeapEnd \in Nat /\ HeapEnd <= WordMax
<1>1. HeapBase \in Word /\ HeapBase > 0
  BY HeapAssumption, WordAssumption DEF Word
<1>2. HeapStart \in Word /\ HeapStart % 4 = 0 /\ HeapStart > 0
  BY <1>1, Align4Lemma DEF HeapStart
<1>3. HeapStart >= 4
  BY <1>2 DEF Word
<1>4. HeapEnd \in Nat /\ HeapEnd <= WordMax
  BY HeapAssumption, WordAssumption DEF HeapEnd
<1> QED BY <1>2, <1>3, <1>4

-----------------------------------------------------------------------------
(***************************************************************************)
(* The inductive invariant is the conjunction of the checked properties:   *)
(* RequestHonoured needs BlocksInArena, which bounds the largest block and *)
(* so rules out a saturated request; the others need each other where a    *)
(* block is split.                                                         *)
(***************************************************************************)
IInv ==
  /\ TypeOK
  /\ BlocksApart
  /\ BlocksInArena
  /\ RequestHonoured
  /\ ArenaCovered

LEMMA InitEstablishes == Init => IInv
<1> SUFFICES ASSUME Init PROVE IInv
  OBVIOUS
<1>1. TypeOK /\ BlocksInArena
  BY ArenaLemma DEF Init, TypeOK, BlocksInArena
<1>2. BlocksApart /\ RequestHonoured
  BY DEF Init, BlocksApart, RequestHonoured
<1>3. ArenaCovered
  BY ArenaLemma DEF Init, ArenaCovered, Word
<1> QED BY <1>1, <1>2, <1>3 DEF IInv

\* In the arena, no block is as large as a saturated request.
LEMMA NoGiantBlock ==
  ASSUME IInv, NEW b \in allocs \cup free
  PROVE  b.size < WordMax - 3
<1>1. /\ b.ptr \in Word /\ b.size \in Word
      /\ b.size > 0 /\ HeapStart <= b.ptr /\ b.ptr + b.size <= heapNext
  BY DEF IInv, TypeOK, BlocksInArena, Owned, Block
<1>2. heapNext \in Word /\ (heapNext = HeapStart \/ heapNext \in HeapStart..HeapEnd)
  BY DEF IInv, TypeOK, BlocksInArena
<1> QED BY <1>1, <1>2, ArenaLemma, WordAssumption DEF Word

\* What the invariant says of a single block.
LEMMA BlockFacts ==
  ASSUME IInv, NEW b \in allocs \cup free
  PROVE  /\ b.ptr \in Word /\ b.ptr % 4 = 0
         /\ b.size \in Word /\ b.size % 4 = 0 /\ b.size > 0
         /\ HeapStart <= b.ptr /\ b.ptr + b.size <= heapNext
BY DEF IInv, TypeOK, BlocksInArena, Owned, Block

LEMMA GrowPreserves ==
  ASSUME IInv, NEW size, NEW need, Rounded(size, need), GrowArena(size, need)
  PROVE  IInv'
<1> DEFINE new == Own(heapNext, size, need)
<1>1. /\ size \in Word /\ size % 4 = 0 /\ size > 0
      /\ need \in Nat
      /\ need <= size \/ size = WordMax - 3
  BY DEF Rounded
<1>2. /\ heapNext \in Word /\ heapNext % 4 = 0 /\ HeapStart <= heapNext
      /\ heapNext + size <= HeapEnd /\ heapNext' = heapNext + size
      /\ allocs' = allocs \cup {new} /\ free' = free
  BY ArenaLemma DEF IInv, TypeOK, BlocksInArena, GrowArena, Word
<1>3. new.ptr = heapNext /\ new.size = size /\ new.need = need /\ new \in Owned
  BY <1>1, <1>2 DEF Own, Owned
<1> HIDE DEF new
<1>4. heapNext' \in Word /\ heapNext' % 4 = 0 /\ heapNext' \in HeapStart..HeapEnd
  BY <1>1, <1>2, ArenaLemma, WordAssumption DEF Word
<1>5. TypeOK'
  BY <1>2, <1>3, <1>4 DEF IInv, TypeOK
<1>6. BlocksInArena'
  <2> SUFFICES ASSUME NEW b \in allocs' \cup free'
               PROVE  /\ b.ptr % 4 = 0 /\ b.size % 4 = 0
                      /\ b.size > 0
                      /\ HeapStart <= b.ptr /\ b.ptr + b.size <= heapNext'
    BY <1>4 DEF BlocksInArena
  <2>1. CASE b = new
    BY <2>1, <1>1, <1>2, <1>3
  <2>2. CASE b \in allocs \cup free
    BY <2>2, <1>1, <1>2, BlockFacts DEF Word
  <2> QED BY <2>1, <2>2, <1>2
<1>7. \A b \in allocs \cup free : Apart(b, new) /\ Apart(new, b)
  BY <1>3, BlockFacts DEF Apart
<1>8. BlocksApart'
  BY <1>2, <1>7 DEF IInv, BlocksApart
<1>9. RequestHonoured'
  <2>1. size < WordMax - 3
    BY <1>1, <1>2, ArenaLemma, WordAssumption DEF Word
  <2>2. need <= size
    BY <1>1, <2>1 DEF Word
  <2> QED BY <2>2, <1>2, <1>3 DEF IInv, RequestHonoured
<1>10. ArenaCovered'
  <2> SUFFICES ASSUME NEW a \in HeapStart .. (heapNext' - 1)
               PROVE  \E b \in allocs' \cup free' : b.ptr <= a /\ a < b.ptr + b.size
    BY DEF ArenaCovered
  <2>1. CASE a < heapNext
    <3>1. a \in HeapStart .. (heapNext - 1)
      BY <2>1, <1>2, ArenaLemma DEF Word
    <3> QED BY <3>1, <1>2 DEF IInv, ArenaCovered
  <2>2. CASE a >= heapNext
    <3>1. new.ptr <= a /\ a < new.ptr + new.size
      BY <2>2, <1>1, <1>2, <1>3, ArenaLemma DEF Word
    <3> QED BY <3>1, <1>2
  <2> QED BY <2>1, <2>2, <1>2, ArenaLemma DEF Word
<1> QED BY <1>5, <1>6, <1>8, <1>9, <1>10 DEF IInv

\* The low end of the freed block goes to the new owner and the rest, if
\* any, back to the list.
LEMMA ReusePreserves ==
  ASSUME IInv, NEW size, NEW need, Rounded(size, need),
         NEW b \in FitsIn(size),
         free' = (free \ {b}) \cup Remainder(b, size),
         allocs' = allocs \cup {Own(b.ptr, size, need)},
         UNCHANGED heapNext
  PROVE  IInv'
<1> DEFINE new == Own(b.ptr, size, need)
           rest == [ptr |-> b.ptr + size, size |-> b.size - size]
<1>1. /\ size \in Word /\ size % 4 = 0 /\ size > 0
      /\ need \in Nat
      /\ need <= size \/ size = WordMax - 3
  BY DEF Rounded
<1>2. /\ b \in free /\ b.size >= size
      /\ b.ptr \in Word /\ b.ptr % 4 = 0
      /\ b.size \in Word /\ b.size % 4 = 0
      /\ HeapStart <= b.ptr /\ b.ptr + b.size <= heapNext
  BY BlockFacts DEF FitsIn
<1>3. new.ptr = b.ptr /\ new.size = size /\ new.need = need /\ new \in Owned
  BY <1>1, <1>2 DEF Own, Owned
<1>4. heapNext \in Word /\ heapNext % 4 = 0 /\ (heapNext = HeapStart \/ heapNext \in HeapStart..HeapEnd)
  BY DEF IInv, TypeOK, BlocksInArena
<1>5. ASSUME b.size > size
      PROVE  /\ rest \in Block
             /\ rest.ptr = b.ptr + size /\ rest.size = b.size - size
             /\ rest.ptr % 4 = 0 /\ rest.size % 4 = 0 /\ rest.size > 0
  <2>1. rest.ptr = b.ptr + size /\ rest.size = b.size - size
    OBVIOUS
  <2>2. b.ptr + size < heapNext /\ b.ptr + size \in Word
    <3>1. /\ size \in Int /\ b.ptr \in Int /\ b.size \in Int /\ heapNext \in Int
          /\ size > 0 /\ b.ptr >= 0 /\ heapNext <= WordMax /\ WordMax \in Int
      BY <1>1, <1>2, <1>4, WordAssumption DEF Word
    <3>2. size < b.size /\ b.ptr + b.size <= heapNext
      BY <1>2, <1>5
    <3>3. b.ptr + size < heapNext /\ b.ptr + size <= WordMax /\ b.ptr + size >= 0
      BY <3>1, <3>2
    <3> QED BY <3>1, <3>3 DEF Word
  <2>3. b.size - size \in Word /\ b.size - size > 0
    <3>1. /\ size \in Int /\ b.size \in Int /\ WordMax \in Int
          /\ size > 0 /\ b.size <= WordMax
      BY <1>1, <1>2, WordAssumption DEF Word
    <3>2. size < b.size
      BY <1>2, <1>5
    <3>3. b.size - size <= WordMax /\ b.size - size > 0
      BY <3>1, <3>2
    <3> QED BY <3>1, <3>3 DEF Word
  <2>4. (b.ptr + size) % 4 = 0
    <3>1. size \in Int /\ b.ptr \in Int /\ size % 4 = 0 /\ b.ptr % 4 = 0
      BY <1>1, <1>2 DEF Word
    <3> QED BY <3>1
  <2>5. (b.size - size) % 4 = 0
    <3>1. size \in Int /\ b.size \in Int /\ size % 4 = 0 /\ b.size % 4 = 0
      BY <1>1, <1>2 DEF Word
    <3> QED BY <3>1
  <2> QED BY <2>1, <2>2, <2>3, <2>4, <2>5 DEF Block
<1>6. Remainder(b, size) = IF b.size > size THEN {rest} ELSE {}
  BY DEF Remainder
<1> HIDE DEF new, rest
<1>7. allocs' = allocs \cup {new} /\ heapNext' = heapNext
  BY DEF new
<1>8. \A c \in free' : (c \in free /\ c # b) \/ (c = rest /\ b.size > size)
  BY <1>6
<1>9. TypeOK'
  BY <1>3, <1>5, <1>7, <1>8 DEF IInv, TypeOK
<1>10. BlocksInArena'
  <2> SUFFICES ASSUME NEW c \in allocs' \cup free'
               PROVE  /\ c.ptr % 4 = 0 /\ c.size % 4 = 0
                      /\ c.size > 0
                      /\ HeapStart <= c.ptr /\ c.ptr + c.size <= heapNext
    BY <1>4, <1>7 DEF BlocksInArena
  <2>1. CASE c = new
    BY <2>1, <1>1, <1>2, <1>3, <1>4 DEF Word
  <2>2. CASE c = rest /\ b.size > size
    BY <2>2, <1>1, <1>2, <1>4, <1>5, ArenaLemma DEF Word
  <2>3. CASE c \in allocs \cup free
    BY <2>3, BlockFacts
  <2> QED BY <2>1, <2>2, <2>3, <1>7, <1>8
<1>11. \A c \in allocs \cup (free \ {b}) :
         /\ Apart(c, b)
         /\ Apart(c, new) /\ Apart(new, c)
         /\ b.size > size => Apart(c, rest) /\ Apart(rest, c)
  <2> SUFFICES ASSUME NEW c \in allocs \cup (free \ {b})
               PROVE  /\ Apart(c, b)
                      /\ Apart(c, new) /\ Apart(new, c)
                      /\ b.size > size => Apart(c, rest) /\ Apart(rest, c)
    OBVIOUS
  <2>1. Apart(c, b)
    BY <1>2 DEF IInv, BlocksApart, Apart
  <2>2. c.ptr \in Word /\ c.size \in Word /\ c.size > 0
    BY BlockFacts
  <2>3. Apart(c, new) /\ Apart(new, c)
    BY <2>1, <2>2, <1>1, <1>2, <1>3 DEF Apart, Word
  <2>4. ASSUME b.size > size PROVE Apart(c, rest) /\ Apart(rest, c)
    BY <2>1, <2>2, <2>4, <1>1, <1>2, <1>5 DEF Apart, Word
  <2> QED BY <2>1, <2>3, <2>4
<1>12. b.size > size => Apart(new, rest) /\ Apart(rest, new)
  BY <1>1, <1>2, <1>3, <1>5 DEF Apart, Word
<1>13. BlocksApart'
  BY <1>7, <1>8, <1>11, <1>12 DEF IInv, BlocksApart
<1>14. RequestHonoured'
  <2>1. size < WordMax - 3
    BY <1>1, <1>2, NoGiantBlock, WordAssumption DEF Word
  <2>2. need <= size
    BY <1>1, <2>1, WordAssumption DEF Word
  <2> QED BY <2>2, <1>3, <1>7 DEF IInv, RequestHonoured
<1>15. ArenaCovered'
  <2> SUFFICES ASSUME NEW a \in HeapStart .. (heapNext - 1)
               PROVE  \E c \in allocs' \cup free' : c.ptr <= a /\ a < c.ptr + c.size
    BY <1>7 DEF ArenaCovered
  <2>1. PICK c \in allocs \cup free : c.ptr <= a /\ a < c.ptr + c.size
    BY DEF IInv, ArenaCovered
  <2>2. CASE c # b
    BY <2>1, <2>2, <1>7
  <2>3. CASE c = b /\ a < b.ptr + size
    BY <2>1, <2>3, <1>3, <1>7
  <2>4. CASE c = b /\ a >= b.ptr + size
    <3>1. a \in Int
      BY ArenaLemma, <1>4 DEF Word
    <3>2. b.size > size
      BY <2>1, <2>4, <3>1, <1>1, <1>2 DEF Word
    <3>3. rest \in free' /\ rest.ptr <= a /\ a < rest.ptr + rest.size
      BY <3>1, <3>2, <2>1, <2>4, <1>1, <1>2, <1>5, <1>6 DEF Word
    <3> QED BY <3>3
  <2>5. a < b.ptr + size \/ a >= b.ptr + size
    BY ArenaLemma, <1>1, <1>2, <1>4 DEF Word
  <2> QED BY <2>2, <2>3, <2>4, <2>5
<1> QED BY <1>9, <1>10, <1>13, <1>14, <1>15 DEF IInv

LEMMA AllocPreserves ==
  ASSUME IInv, NEW requested, NEW need,
         Rounded(Align4(requested), need), AllocBlock(requested, need)
  PROVE  IInv'
<1>1. CASE GrowArena(Align4(requested), need)
  BY <1>1, GrowPreserves
<1>2. CASE ReuseBlock(Align4(requested), need)
  <2> DEFINE size == Align4(requested)
  <2> HIDE DEF size
  <2>1. Rounded(size, need) /\ ReuseBlock(size, need)
    BY <1>2 DEF size
  <2> QED BY <2>1, ReusePreserves DEF ReuseBlock
<1> QED BY <1>1, <1>2 DEF AllocBlock

LEMMA FreePreserves ==
  ASSUME IInv, NEW ptr, FreeBlock(ptr)
  PROVE  IInv'
<1>1. PICK b \in allocs :
        /\ b.ptr = ptr
        /\ allocs' = allocs \ {b}
        /\ free' = free \cup {[ptr |-> b.ptr, size |-> b.size]}
        /\ UNCHANGED heapNext
  BY DEF FreeBlock
<1> DEFINE freed == [ptr |-> b.ptr, size |-> b.size]
<1>2. freed \in Block /\ freed.ptr = b.ptr /\ freed.size = b.size
  BY BlockFacts DEF Block
<1> HIDE DEF freed
<1>3. free' = free \cup {freed} /\ allocs' = allocs \ {b} /\ heapNext' = heapNext
  BY <1>1 DEF freed
<1>4. TypeOK' /\ BlocksInArena' /\ RequestHonoured'
  BY <1>2, <1>3, BlockFacts DEF IInv, TypeOK, BlocksInArena, RequestHonoured
<1>5. BlocksApart'
  <2>1. \A c \in allocs' \cup free : Apart(c, freed) /\ Apart(freed, c)
    BY <1>2, <1>3 DEF IInv, BlocksApart, Apart
  <2> QED BY <2>1, <1>3 DEF IInv, BlocksApart
<1>6. ArenaCovered'
  BY <1>2, <1>3 DEF IInv, ArenaCovered
<1> QED BY <1>4, <1>5, <1>6 DEF IInv

LEMMA StepPreserves == IInv /\ [Next]_heapVars => IInv'
<1> SUFFICES ASSUME IInv, [Next]_heapVars PROVE IInv'
  OBVIOUS
<1>1. ASSUME NEW n \in Requests, MemAlloc(n)
      PROVE  IInv'
  <2>1. n \in Word /\ n # 0
    BY <1>1, RequestsAssumption DEF MemAlloc, AllocBlock, Word
  <2> QED BY <2>1, <1>1, MemAllocRounded, AllocPreserves DEF MemAlloc
<1>2. ASSUME NEW n \in Requests, MsgAlloc(n)
      PROVE  IInv'
  <2>1. n \in Word
    BY RequestsAssumption DEF Word
  <2> QED BY <2>1, <1>2, MsgAllocRounded, AllocPreserves DEF MsgAlloc
<1>3. CASE \E b \in allocs : FreeBlock(b.ptr)
  BY <1>3, FreePreserves
<1>4. CASE Reset
  <2>1. heapNext' = HeapStart /\ allocs' = {} /\ free' = {}
    BY <1>4 DEF Reset
  <2>2. TypeOK' /\ BlocksInArena'
    BY <2>1, ArenaLemma DEF TypeOK, BlocksInArena
  <2>3. BlocksApart' /\ RequestHonoured'
    BY <2>1 DEF BlocksApart, RequestHonoured
  <2>4. ArenaCovered'
    BY <2>1, ArenaLemma DEF ArenaCovered, Word
  <2> QED BY <2>2, <2>3, <2>4 DEF IInv
<1>5. CASE UNCHANGED heapVars
  BY <1>5 DEF heapVars, IInv, TypeOK, BlocksApart, BlocksInArena, RequestHonoured, ArenaCovered
<1> QED BY <1>1, <1>2, <1>3, <1>4, <1>5 DEF Next

\* IInv holds in every reachable state of every arena.
THEOREM Inductive == Spec => []IInv
BY InitEstablishes, StepPreserves, PTL DEF Spec

\* The heap's variables keep their types: no address or size outgrows a word.
THEOREM TypeCorrect == Spec => []TypeOK
<1>1. IInv => TypeOK
  BY DEF IInv
<1> QED BY <1>1, Inductive, PTL

\* No two owners, and no owner and the free list, ever share a byte.
THEOREM NoSharedByte == Spec => []BlocksApart
<1>1. IInv => BlocksApart
  BY DEF IInv
<1> QED BY <1>1, Inductive, PTL

\* Blocks stay aligned and inside the arena.
THEOREM InsideArena == Spec => []BlocksInArena
<1>1. IInv => BlocksInArena
  BY DEF IInv
<1> QED BY <1>1, Inductive, PTL

\* An owner has the bytes it asked for, whatever the size of the request.
THEOREM Honoured == Spec => []RequestHonoured
<1>1. IInv => RequestHonoured
  BY DEF IInv
<1> QED BY <1>1, Inductive, PTL

\* No byte of the arena leaks.
THEOREM NothingLeaks == Spec => []ArenaCovered
<1>1. IInv => ArenaCovered
  BY DEF IInv
<1> QED BY <1>1, Inductive, PTL

-----------------------------------------------------------------------------
(* Buffers: every behaviour of the buffers is a behaviour of the heap, so     *)
(* what is shown of the heap above holds under the buffers as well.           *)

\* A step of the buffers is a step of the heap, or leaves it alone.
LEMMA BufStepIsHeapStep == [BufNext]_bufVars => [Next]_heapVars
<1> SUFFICES ASSUME [BufNext]_bufVars PROVE [Next]_heapVars
  OBVIOUS
<1>1. CASE BufReset
  BY <1>1 DEF BufReset, Next
<1>2. CASE MessageStep
  BY <1>2 DEF MessageStep, Next
<1>3. ASSUME NEW n \in Requests, BmAlloc(n) PROVE Next
  BY <1>3 DEF BmAlloc, Next
<1>4. ASSUME NEW buffer \in DOMAIN buffers, BmFree(buffer) PROVE [Next]_heapVars
  <2>1. CASE UNCHANGED heapVars
    BY <2>1
  <2>2. CASE FreeBlock(BaseOf(buffers[buffer]))
    BY <2>2 DEF FreeBlock, Next
  <2> QED BY <1>4, <2>1, <2>2 DEF BmFree
<1>5. ASSUME NEW buffer \in DOMAIN buffers, NEW size \in Adjustments, AdjustHeader(buffer, size)
      PROVE  UNCHANGED heapVars
  BY <1>5 DEF AdjustHeader
<1>6. CASE LeftStale \/ UNCHANGED bufVars
  BY <1>6 DEF LeftStale, bufVars, heapVars
<1> QED BY <1>1, <1>2, <1>3, <1>4, <1>5, <1>6 DEF BufNext, BufSteps

\* The buffer manager uses the heap of OsalHeap: it implements its specification.
THEOREM BuffersUseTheHeap == BufSpec => Spec
<1>1. BufInit => Init
  BY DEF BufInit
<1> QED BY <1>1, BufStepIsHeapStep, PTL DEF BufSpec, Spec

-----------------------------------------------------------------------------
\* Every entry leads into the block of a buffer, from a byte of it, and the
\* pointer that a buffer has is in the table or was never moved.
ViewsRight ==
  /\ \A v \in DOMAIN views : views[v] \in DOMAIN buffers /\ InBlock(v, views[v])
  /\ \A buffer \in DOMAIN buffers :
       /\ InBlock(buffers[buffer], buffer)
       /\ buffers[buffer] \in DOMAIN views \/ buffers[buffer] = buffer

BufInv == IInv /\ (~stale => ViewsRight)

\* Blocks are apart, so a byte is in one block only.
LEMMA OneBlock ==
  ASSUME IInv, NEW ptr, NEW x, NEW y, InBlock(ptr, x), InBlock(ptr, y)
  PROVE  x = y
<1>1. PICK b \in allocs : b.ptr = x /\ ptr \in b.ptr .. b.ptr + b.size - 1
  BY DEF InBlock
<1>2. PICK c \in allocs : c.ptr = y /\ ptr \in c.ptr .. c.ptr + c.size - 1
  BY DEF InBlock
<1>3. b.ptr \in Int /\ b.size \in Int /\ c.ptr \in Int /\ c.size \in Int
  BY BlockFacts DEF Word
<1>4. ~Apart(b, c)
  BY <1>1, <1>2, <1>3 DEF Apart
<1> QED BY <1>1, <1>2, <1>4 DEF IInv, BlocksApart

LEMMA OnePointer ==
  ASSUME IInv, NEW b \in allocs, NEW c \in allocs, b.ptr = c.ptr
  PROVE  b = c
<1>1. /\ b.ptr \in Int /\ b.size \in Int /\ c.size \in Int
      /\ b.size > 0 /\ c.size > 0
  BY BlockFacts DEF Word
<1>2. ~Apart(b, c)
  BY <1>1 DEF Apart
<1> QED BY <1>2 DEF IInv, BlocksApart

LEMMA OwnBlock ==
  ASSUME IInv, ViewsRight, NEW buffer \in DOMAIN buffers
  PROVE  IsBlock(buffer) /\ BaseOf(buffers[buffer]) = buffer
<1>1. IsBlock(buffer)
  BY DEF ViewsRight, InBlock, IsBlock
<1>2. CASE buffers[buffer] \in DOMAIN views
  <2>1. InBlock(buffers[buffer], views[buffers[buffer]]) /\ InBlock(buffers[buffer], buffer)
    BY <1>2 DEF ViewsRight
  <2> QED BY <1>1, <1>2, <2>1, OneBlock DEF BaseOf
<1>3. CASE buffers[buffer] \notin DOMAIN views
  BY <1>1, <1>3 DEF ViewsRight, BaseOf
<1> QED BY <1>2, <1>3

\* What has happened to the blocks when a new one has been handed out.
LEMMA AllocAdds ==
  ASSUME NEW requested, NEW need, AllocBlock(requested, need)
  PROVE  allocs \subseteq allocs'
BY DEF AllocBlock, ReuseBlock, GrowArena

LEMMA InBlockKept ==
  ASSUME NEW ptr, NEW base, InBlock(ptr, base), allocs \subseteq allocs'
  PROVE  InBlock(ptr, base)'
BY DEF InBlock

LEMMA AllocKeepsViews ==
  ASSUME BufInv, ~stale, IInv', NEW n, BmAlloc(n)
  PROVE  ViewsRight'
<1>1. allocs \subseteq allocs'
  BY AllocAdds DEF BmAlloc, MemAlloc
<1> DEFINE new == {b.ptr : b \in allocs' \ allocs}
<1>2. /\ views' = views
      /\ buffers' = [p \in DOMAIN buffers \cup new |-> IF p \in new THEN p ELSE buffers[p]]
  BY DEF BmAlloc
<1>3. ASSUME NEW p \in new PROVE InBlock(p, p)'
  <2>1. PICK b \in allocs' : b.ptr = p
    BY <1>3
  <2>2. b.ptr \in Int /\ b.size \in Int /\ b.size > 0
    BY DEF IInv, TypeOK, BlocksInArena, Owned, Word
  <2>3. p \in b.ptr .. b.ptr + b.size - 1
    BY <2>1, <2>2
  <2> QED BY <2>1, <2>3 DEF InBlock
<1> HIDE DEF new
<1>4. ViewsRight
  BY DEF BufInv
<1>5. \A v \in DOMAIN views' : views'[v] \in DOMAIN buffers' /\ InBlock(v, views[v])'
  BY <1>1, <1>2, <1>4, InBlockKept DEF ViewsRight
<1>6. ASSUME NEW p \in DOMAIN buffers'
      PROVE  /\ InBlock(buffers[p], p)'
             /\ buffers'[p] \in DOMAIN views' \/ buffers'[p] = p
  <2>1. CASE p \in new
    <3>1. buffers'[p] = p
      BY <2>1, <1>2
    <3>2. InBlock(p, p)'
      BY <2>1, <1>3
    <3> QED BY <3>1, <3>2 DEF InBlock
  <2>2. CASE p \notin new
    <3>1. p \in DOMAIN buffers /\ buffers'[p] = buffers[p]
      BY <2>2, <1>2, <1>6
    <3>2. InBlock(buffers[p], p) /\ (buffers[p] \in DOMAIN views \/ buffers[p] = p)
      BY <3>1, <1>4 DEF ViewsRight
    <3>3. \E b \in allocs' : b.ptr = p /\ buffers'[p] \in b.ptr .. b.ptr + b.size - 1
      BY <3>1, <3>2, <1>1 DEF InBlock
    <3> QED BY <3>1, <3>2, <3>3, <1>2 DEF InBlock
  <2> QED BY <2>1, <2>2
<1> QED BY <1>5, <1>6 DEF ViewsRight

LEMMA AdjustKeepsViews ==
  ASSUME BufInv, ~stale, NEW buffer \in DOMAIN buffers, NEW size, AdjustHeader(buffer, size)
  PROVE  ViewsRight'
<1> DEFINE ptr == buffers[buffer]
           adjusted == ptr - size
<1>1. BaseOf(ptr) = buffer
  BY OwnBlock DEF BufInv
<1>2. /\ InBlock(adjusted, buffer)
      /\ allocs' = allocs
      /\ buffers' = [buffers EXCEPT ![buffer] = adjusted]
      /\ views' = [v \in DOMAIN views \cup {ptr, adjusted} |->
                     IF v \in {ptr, adjusted} THEN buffer ELSE views[v]]
  BY <1>1 DEF AdjustHeader, Move, heapVars
<1>3. ViewsRight /\ InBlock(ptr, buffer)
  BY DEF BufInv, ViewsRight
<1> HIDE DEF ptr, adjusted
<1>4. \A p, base : InBlock(p, base) => InBlock(p, base)'
  BY <1>2 DEF InBlock
<1>5. ASSUME NEW v \in DOMAIN views'
      PROVE  views'[v] \in DOMAIN buffers' /\ InBlock(v, views[v])'
  <2>1. CASE v \in {ptr, adjusted}
    <3>1. views'[v] = buffer /\ InBlock(v, buffer)
      BY <2>1, <1>2, <1>3
    <3> QED BY <3>1, <1>2 DEF InBlock
  <2>2. CASE v \notin {ptr, adjusted}
    <3>1. v \in DOMAIN views /\ views'[v] = views[v]
      BY <2>2, <1>2, <1>5
    <3>2. views[v] \in DOMAIN buffers /\ InBlock(v, views[v])
      BY <3>1, <1>3 DEF ViewsRight
    <3> QED BY <3>1, <3>2, <1>2 DEF InBlock
  <2> QED BY <2>1, <2>2
<1>6. ASSUME NEW b \in DOMAIN buffers'
      PROVE  /\ InBlock(buffers[b], b)'
             /\ buffers'[b] \in DOMAIN views' \/ buffers'[b] = b
  <2>1. CASE b = buffer
    <3>1. buffers'[b] = adjusted /\ adjusted \in DOMAIN views'
      BY <2>1, <1>2
    <3> QED BY <3>1, <2>1, <1>2 DEF InBlock
  <2>2. CASE b # buffer
    <3>1. b \in DOMAIN buffers /\ buffers'[b] = buffers[b] /\ DOMAIN views \subseteq DOMAIN views'
      BY <2>2, <1>2, <1>6
    <3>2. InBlock(buffers[b], b) /\ (buffers[b] \in DOMAIN views \/ buffers[b] = b)
      BY <3>1, <1>3 DEF ViewsRight
    <3> QED BY <3>1, <3>2, <1>2 DEF InBlock
  <2> QED BY <2>1, <2>2
<1> QED BY <1>5, <1>6 DEF ViewsRight

\* A block goes: what leads to another block still does.
LEMMA OthersKept ==
  ASSUME NEW ptr, NEW base, NEW gone, InBlock(ptr, base), base # gone, FreeBlock(gone)
  PROVE  InBlock(ptr, base)'
BY DEF FreeBlock, InBlock

LEMMA FreeKeepsViews ==
  ASSUME BufInv, ~stale, NEW buffer \in DOMAIN buffers, BmFree(buffer)
  PROVE  ViewsRight'
<1>1. BaseOf(buffers[buffer]) = buffer /\ IsBlock(buffer) /\ ViewsRight
  BY OwnBlock DEF BufInv
<1>2. /\ FreeBlock(buffer)
      /\ buffers' = Without(buffers, {buffer})
      /\ views' = Without(views, {v \in DOMAIN views : views[v] = buffer})
  BY <1>1 DEF BmFree, Forget
<1>3. /\ \A b \in DOMAIN buffers' : b \in DOMAIN buffers /\ b # buffer /\ buffers'[b] = buffers[b]
      /\ \A b \in DOMAIN buffers : b # buffer => b \in DOMAIN buffers'
      /\ \A v \in DOMAIN views' : v \in DOMAIN views /\ views[v] # buffer /\ views'[v] = views[v]
      /\ \A v \in DOMAIN views : views[v] # buffer => v \in DOMAIN views'
  BY <1>2 DEF Without
<1>4. ASSUME NEW v \in DOMAIN views'
      PROVE  views'[v] \in DOMAIN buffers' /\ InBlock(v, views[v])'
  <2>1. v \in DOMAIN views /\ views[v] # buffer /\ views'[v] = views[v]
    BY <1>3
  <2>2. views[v] \in DOMAIN buffers /\ InBlock(v, views[v])
    BY <2>1, <1>1 DEF ViewsRight
  <2>3. \E b \in allocs' : b.ptr = views[v] /\ v \in b.ptr .. b.ptr + b.size - 1
    BY <2>1, <2>2, <1>2 DEF FreeBlock, InBlock
  <2> QED BY <2>1, <2>2, <2>3, <1>3 DEF InBlock
<1>5. ASSUME NEW b \in DOMAIN buffers'
      PROVE  /\ InBlock(buffers[b], b)'
             /\ buffers'[b] \in DOMAIN views' \/ buffers'[b] = b
  <2>1. b \in DOMAIN buffers /\ b # buffer /\ buffers'[b] = buffers[b]
    BY <1>3
  <2>2. InBlock(buffers[b], b) /\ (buffers[b] \in DOMAIN views \/ buffers[b] = b)
    BY <2>1, <1>1 DEF ViewsRight
  <2>3. \E c \in allocs' : c.ptr = b /\ buffers'[b] \in c.ptr .. c.ptr + c.size - 1
    BY <2>1, <2>2, <1>2 DEF FreeBlock, InBlock
  <2>4. buffers[b] \in DOMAIN views => views[buffers[b]] = b
    <3> SUFFICES ASSUME buffers[b] \in DOMAIN views PROVE views[buffers[b]] = b
      OBVIOUS
    <3>1. InBlock(buffers[b], views[buffers[b]])
      BY <1>1 DEF ViewsRight
    <3> QED BY <3>1, <2>2, OneBlock DEF BufInv
  <2>5. buffers'[b] \in DOMAIN views' \/ buffers'[b] = b
    BY <2>1, <2>2, <2>4, <1>3
  <2> QED BY <2>3, <2>5 DEF InBlock
<1> QED BY <1>4, <1>5 DEF ViewsRight

\* A message is not a buffer, and no entry leads to it.
LEMMA MessageKeepsViews ==
  ASSUME BufInv, ~stale, MessageStep
  PROVE  ViewsRight'
<1>1. ViewsRight /\ views' = views /\ buffers' = buffers
  BY DEF BufInv, MessageStep
<1>2. \A p : \A base \in DOMAIN buffers : InBlock(p, base) => InBlock(p, base)'
  <2>1. ASSUME NEW n \in Requests, MsgAlloc(n)
        PROVE  allocs \subseteq allocs'
    BY <2>1, AllocAdds DEF MsgAlloc
  <2>2. ASSUME NEW b \in allocs, b.ptr \notin DOMAIN buffers, FreeBlock(b.ptr),
               NEW p, NEW base \in DOMAIN buffers, InBlock(p, base)
        PROVE  InBlock(p, base)'
    BY <2>2, OthersKept
  <2>3. CASE allocs \subseteq allocs'
    BY <2>3, InBlockKept
  <2> QED BY <2>1, <2>2, <2>3 DEF MessageStep
<1>3. \A v \in DOMAIN views' : views'[v] \in DOMAIN buffers' /\ InBlock(v, views[v])'
  <2> SUFFICES ASSUME NEW v \in DOMAIN views PROVE views[v] \in DOMAIN buffers /\ InBlock(v, views[v])'
    BY <1>1
  <2>1. views[v] \in DOMAIN buffers /\ InBlock(v, views[v])
    BY <1>1 DEF ViewsRight
  <2>2. \E b \in allocs' : b.ptr = views[v] /\ v \in b.ptr .. b.ptr + b.size - 1
    BY <2>1, <1>2 DEF InBlock
  <2> QED BY <2>1, <2>2, <1>1 DEF InBlock
<1>4. ASSUME NEW b \in DOMAIN buffers'
      PROVE  /\ InBlock(buffers[b], b)'
             /\ buffers'[b] \in DOMAIN views' \/ buffers'[b] = b
  <2>1. InBlock(buffers[b], b) /\ (buffers[b] \in DOMAIN views \/ buffers[b] = b)
    BY <1>1 DEF ViewsRight
  <2>2. \E c \in allocs' : c.ptr = b /\ buffers[b] \in c.ptr .. c.ptr + c.size - 1
    BY <2>1, <1>1, <1>2 DEF InBlock
  <2> QED BY <2>1, <2>2, <1>1 DEF InBlock
<1> QED BY <1>3, <1>4 DEF ViewsRight

LEMMA BufStepPreserves == BufInv /\ [BufNext]_bufVars => BufInv'
<1> SUFFICES ASSUME BufInv, [BufNext]_bufVars PROVE BufInv'
  OBVIOUS
<1>1. IInv'
  BY BufStepIsHeapStep, StepPreserves DEF BufInv
<1>2. CASE UNCHANGED bufVars
  BY <1>1, <1>2 DEF bufVars, BufInv, ViewsRight, InBlock
<1>3. CASE LeftStale
  BY <1>1, <1>3 DEF LeftStale, bufVars, BufInv
<1>4. CASE ~stale /\ BufSteps
  <2>1. CASE BufReset
    BY <2>1, <1>1 DEF BufReset, BufInv, ViewsRight, Empty
  <2>2. CASE MessageStep
    BY <2>2, <1>1, <1>4, MessageKeepsViews DEF BufInv
  <2>3. ASSUME NEW n \in Requests, BmAlloc(n) PROVE BufInv'
    BY <2>3, <1>1, <1>4, AllocKeepsViews DEF BufInv
  <2>4. ASSUME NEW buffer \in DOMAIN buffers, BmFree(buffer) PROVE BufInv'
    BY <2>4, <1>1, <1>4, FreeKeepsViews DEF BufInv
  <2>5. ASSUME NEW buffer \in DOMAIN buffers, NEW size \in Adjustments, AdjustHeader(buffer, size)
        PROVE  BufInv'
    BY <2>5, <1>1, <1>4, AdjustKeepsViews DEF BufInv
  <2> QED BY <1>4, <2>1, <2>2, <2>3, <2>4, <2>5 DEF BufSteps
<1> QED BY <1>2, <1>3, <1>4 DEF BufNext

\* A buffer is freed as itself, for every arena, every request and every way
\* of moving its pointer within it.
THEOREM BuffersFreedAsThemselves == BufSpec => []FreesOwnBlock
<1>1. BufInit => BufInv
  BY InitEstablishes DEF BufInit, BufInv, ViewsRight, Empty
<1>2. BufInv => FreesOwnBlock
  BY OwnBlock DEF BufInv, FreesOwnBlock
<1> QED BY <1>1, <1>2, BufStepPreserves, PTL DEF BufSpec

-----------------------------------------------------------------------------
(* The inductive invariant: there are lists of messages, one for each queue,  *)
(* without a message in common and without repetitions, that the links lead   *)
(* along.                                                                     *)

\* Entry i of a list, or null behind its end.
At(list, i) == IF i \in 1 .. Len(list) THEN list[i] ELSE Null

Linked(s, h, n) ==
  \A q \in Queues :
    /\ h[q] = At(s[q], 1)
    /\ \A i \in 1 .. Len(s[q]) : n[s[q][i]] = At(s[q], i + 1)

Disjoint(s) ==
  \A p, q \in Queues : \A i \in 1 .. Len(s[p]), j \in 1 .. Len(s[q]) :
    s[p][i] = s[q][j] => p = q /\ i = j

Represents(s, h, n) ==
  /\ s \in [Queues -> Seq(Messages)]
  /\ h \in [Queues -> Link] /\ n \in [Messages -> Link]
  /\ Linked(s, h, n)
  /\ Disjoint(s)

Lists == [q \in Queues |-> Contents(q)]

QueueInv == Represents(Lists, head, next)

-----------------------------------------------------------------------------
(* What the walk of the host finds. *)

LEMMA AtIn ==
  ASSUME NEW list \in Seq(Messages), NEW i
  PROVE  /\ At(list, i) \in Link
         /\ At(list, i) # Null <=> i \in 1 .. Len(list)
BY NullAssumption DEF At, Link

\* A list without repetitions is not longer than there are messages.
LEMMA ListBound ==
  ASSUME NEW s, NEW h, NEW n, Represents(s, h, n), NEW q \in Queues
  PROVE  /\ s[q] \in Seq(Messages) /\ Len(s[q]) \in Nat /\ Cardinality(Messages) \in Nat
         /\ Len(s[q]) <= Cardinality(Messages)
<1>1. s[q] \in Seq(Messages) /\ Len(s[q]) \in Nat
  BY DEF Represents
<1>2. s[q] \in Injection(1 .. Len(s[q]), Messages)
  BY <1>1 DEF Represents, Disjoint, Injection, IsInjective
<1>3. Cardinality(1 .. Len(s[q])) = Len(s[q])
  BY <1>1, FS_Interval
<1>4. Cardinality(1 .. Len(s[q])) <= Cardinality(Messages)
  BY <1>2, MessagesAssumption, FS_Injection
<1>5. Cardinality(Messages) \in Nat
  BY MessagesAssumption, FS_CardinalityType
<1> QED BY <1>1, <1>3, <1>4, <1>5

\* The walk goes along the list, and stays on the null pointer behind its end.
LEMMA WalkAlong ==
  ASSUME NEW s, Represents(s, head, next), NEW q \in Queues
  PROVE  \A k \in 0 .. Cardinality(Messages) : Follow(q)[k] = At(s[q], k + 1)
<1> DEFINE N == Cardinality(Messages)
           f == [k \in 0 .. N |-> At(s[q], k + 1)]
           walk == Follow(q)
           found == {k \in Nat : k <= N => walk[k] = At(s[q], k + 1)}
<1>1. N \in Nat /\ s[q] \in Seq(Messages) /\ Len(s[q]) \in Nat
  BY ListBound
<1>2. \A k \in 0 .. N : k # 0 => At(s[q], k + 1) = After(At(s[q], k))
  BY <1>1, NullAssumption DEF Represents, Linked, At, After
<1>3. f = [k \in 0 .. N |-> IF k = 0 THEN head[q] ELSE After(f[k - 1])]
  <2>1. \A k \in 0 .. N : f[k] = IF k = 0 THEN head[q] ELSE After(f[k - 1])
    BY <1>1, <1>2 DEF Represents, Linked
  <2> QED BY <2>1
<1>4. Follow(q) = CHOOSE g : g = [k \in 0 .. N |-> IF k = 0 THEN head[q] ELSE After(g[k - 1])]
  BY DEF Follow
<1> HIDE DEF f, N
<1>5. walk = [k \in 0 .. N |-> IF k = 0 THEN head[q] ELSE After(walk[k - 1])]
  BY <1>3, <1>4
<1> HIDE DEF walk
<1>6. 0 \in found
  BY <1>1, <1>5 DEF Represents, Linked
<1>7. \A k \in 0 .. N - 1 : k \in found => k + 1 \in found
  BY SMTT(30), <1>1, <1>2, <1>5
<1>8. 0 .. N \subseteq found
  <2> HIDE DEF found
  <2> QED BY <1>1, <1>6, <1>7, InductionOverSet
<1> QED BY <1>1, <1>8 DEF walk, N

LEMMA ContentsAre ==
  ASSUME NEW s, Represents(s, head, next), NEW q \in Queues
  PROVE  /\ Contents(q) = s[q] /\ Length(q) = Len(s[q])
         /\ Follow(q)[Cardinality(Messages)] = Null
<1> DEFINE N == Cardinality(Messages)
           walk == Follow(q)
<1>1. s[q] \in Seq(Messages) /\ Len(s[q]) \in Nat /\ N \in Nat /\ Len(s[q]) <= N
  BY ListBound
<1>2. \A k \in 0 .. N : walk[k] = At(s[q], k + 1)
  BY WalkAlong
<1>3. Length(q) = Cardinality({k \in 0 .. N : walk[k] # Null})
  BY DEF Length
<1>4. Contents(q) = [i \in 1 .. Length(q) |-> walk[i - 1]]
  BY DEF Contents
<1> HIDE DEF walk, N
<1>5. {k \in 0 .. N : walk[k] # Null} = 0 .. Len(s[q]) - 1
  BY SMTT(30), <1>1, <1>2, NullAssumption DEF At
<1>6. Length(q) = Len(s[q])
  <2>1. Cardinality(0 .. Len(s[q]) - 1) = Len(s[q])
    BY SMTT(30), <1>1, FS_Interval
  <2> QED BY <1>3, <1>5, <2>1
<1>7. Contents(q) = s[q]
  <2>1. \A i \in 1 .. Len(s[q]) : walk[i - 1] = s[q][i]
    BY <1>1, <1>2 DEF At
  <2>2. s[q] = [i \in 1 .. Len(s[q]) |-> s[q][i]]
    BY <1>1
  <2> QED BY <1>4, <1>6, <2>1, <2>2
<1>8. walk[N] = Null
  BY <1>1, <1>2 DEF At
<1> QED BY <1>6, <1>7, <1>8 DEF walk, N

\* The links lead along one family of lists only.
LEMMA OneReading ==
  ASSUME NEW s, NEW t, NEW h, NEW n, Represents(s, h, n), Represents(t, h, n)
  PROVE  s = t
<1> SUFFICES ASSUME NEW q \in Queues PROVE s[q] = t[q]
  BY DEF Represents
<1> DEFINE N == Cardinality(Messages)
           a == s[q]
           b == t[q]
           same == {k \in Nat : At(a, k + 1) = At(b, k + 1)}
<1>1. /\ a \in Seq(Messages) /\ b \in Seq(Messages) /\ N \in Nat
      /\ Len(a) \in Nat /\ Len(b) \in Nat /\ Len(a) <= N /\ Len(b) <= N
  BY ListBound
<1>2. /\ At(a, 1) = At(b, 1)
      /\ \A i \in 1 .. Len(a) : n[a[i]] = At(a, i + 1)
      /\ \A i \in 1 .. Len(b) : n[b[i]] = At(b, i + 1)
  BY DEF Represents, Linked
<1> HIDE DEF a, b, N
<1>3. 0 \in same /\ \A k \in 0 .. N - 1 : k \in same => k + 1 \in same
  BY <1>1, <1>2, NullAssumption DEF At
<1>4. 0 .. N \subseteq same
  <2> HIDE DEF same
  <2> QED BY <1>1, <1>3, InductionOverSet
<1>5. \A i \in 1 .. N + 1 : At(a, i) = At(b, i)
  <2> SUFFICES ASSUME NEW i \in 1 .. N + 1 PROVE At(a, i) = At(b, i)
    OBVIOUS
  <2>1. i - 1 \in 0 .. N
    BY <1>1
  <2>2. At(a, (i - 1) + 1) = At(b, (i - 1) + 1)
    BY <1>4, <2>1
  <2>3. (i - 1) + 1 = i
    OBVIOUS
  <2> QED BY <2>2, <2>3
<1>6. \A i \in 1 .. N + 1 : i <= Len(a) <=> i <= Len(b)
  BY <1>1, <1>5, NullAssumption DEF At
<1>7. Len(a) = Len(b)
  <2>1. ~(Len(a) < Len(b))
    BY <1>1, <1>6
  <2>2. ~(Len(b) < Len(a))
    BY <1>1, <1>6
  <2> QED BY <1>1, <2>1, <2>2
<1>8. \A i \in 1 .. Len(a) : a[i] = b[i]
  BY <1>1, <1>5, <1>7 DEF At
<1>9. a = b
  BY <1>1, <1>7, <1>8, SeqEqual
<1> QED BY <1>9 DEF a, b

-----------------------------------------------------------------------------
(* What the calls do to the lists. *)

\* Entry i taken out of a list.
Skipping(list, i) ==
  [k \in 1 .. Len(list) - 1 |-> IF k < i THEN list[k] ELSE list[k + 1]]

LEMMA WithoutEntry ==
  ASSUME NEW list \in Seq(Messages), NEW i \in 1 .. Len(list)
  PROVE  /\ Skipping(list, i) \in Seq(Messages) /\ Len(Skipping(list, i)) = Len(list) - 1
         /\ \A k \in 1 .. Len(list) - 1 :
              Skipping(list, i)[k] = IF k < i THEN list[k] ELSE list[k + 1]
         /\ Skipping(list, i) = SubSeq(list, 1, i - 1) \o SubSeq(list, i + 1, Len(list))
<1> DEFINE a == SubSeq(list, 1, i - 1)
           b == SubSeq(list, i + 1, Len(list))
           w == Skipping(list, i)
           c == a \o b
<1>1. /\ a \in Seq(Messages) /\ Len(a) = i - 1 /\ \A k \in 1 .. i - 1 : a[k] = list[k]
      /\ b \in Seq(Messages) /\ Len(b) = Len(list) - i
      /\ \A k \in 1 .. Len(list) - i : b[k] = list[i + k]
      /\ Len(list) \in Nat
  OBVIOUS
<1>2. /\ w \in Seq(Messages) /\ Len(w) = Len(list) - 1
      /\ \A k \in 1 .. Len(list) - 1 : w[k] = IF k < i THEN list[k] ELSE list[k + 1]
  BY DEF Skipping
<1> HIDE DEF a, b, w
<1>3. /\ c \in Seq(Messages) /\ Len(c) = Len(a) + Len(b)
      /\ \A k \in 1 .. Len(a) + Len(b) : c[k] = IF k <= Len(a) THEN a[k] ELSE b[k - Len(a)]
  BY <1>1, ConcatProperties
<1>4. ASSUME NEW k \in 1 .. Len(list) - 1 PROVE c[k] = w[k]
  <2>1. k <= i - 1 \/ k - (i - 1) \in 1 .. Len(list) - i
    BY <1>1
  <2>2. c[k] = IF k <= i - 1 THEN a[k] ELSE b[k - (i - 1)]
    BY <1>1, <1>3
  <2>3. CASE k <= i - 1
    BY <1>1, <1>2, <2>2, <2>3
  <2>4. CASE ~(k <= i - 1)
    <3>1. PICK d \in 1 .. Len(list) - i : d = k - (i - 1)
      BY <1>1, <2>1, <2>4
    <3>2. b[d] = list[i + d]
      BY <1>1
    <3>3. i + d = k + 1
      BY <1>1, <3>1
    <3> QED BY <1>1, <1>2, <2>2, <2>4, <3>1, <3>2, <3>3
  <2> QED BY <2>3, <2>4
<1> HIDE DEF c
<1>5. Len(c) = Len(w)
  BY <1>1, <1>2, <1>3
<1>6. c = w
  BY <1>2, <1>3, <1>4, <1>5, SeqEqual
<1> QED BY <1>2, <1>6 DEF a, b, c, w

Outside(s, m) == \A q \in Queues : \A i \in 1 .. Len(s[q]) : s[q][i] # m

\* The header of a message outside the queues does not matter.
LEMMA HeaderChange ==
  ASSUME NEW s, NEW h, NEW n, Represents(s, h, n), NEW m \in Messages, Outside(s, m),
         NEW link \in Link
  PROVE  Represents(s, h, [n EXCEPT ![m] = link])
<1> DEFINE n2 == [n EXCEPT ![m] = link]
<1>1. n2 \in [Messages -> Link] /\ \A x \in Messages \ {m} : n2[x] = n[x]
  BY DEF Represents
<1>2. ASSUME NEW q \in Queues, NEW i \in 1 .. Len(s[q]) PROVE n2[s[q][i]] = n[s[q][i]]
  <2>1. s[q][i] \in Messages \ {m}
    BY DEF Represents, Outside
  <2> QED BY <1>1, <2>1
<1> HIDE DEF n2
<1>3. Represents(s, h, n2)
  BY <1>1, <1>2 DEF Represents, Linked
<1> QED BY <1>3 DEF n2

\* Another list for one queue, of messages that no other queue holds.
Relinked(s, h, n, q, new, h2, n2) ==
  /\ h2 \in [Queues -> Link] /\ n2 \in [Messages -> Link]
  /\ h2[q] = At(new, 1)
  /\ \A p \in Queues \ {q} : h2[p] = h[p]
  /\ \A p \in Queues \ {q} : \A i \in 1 .. Len(s[p]) : n2[s[p][i]] = n[s[p][i]]
  /\ \A i \in 1 .. Len(new) : n2[new[i]] = At(new, i + 1)
  /\ \A i, j \in 1 .. Len(new) : new[i] = new[j] => i = j
  /\ \A p \in Queues \ {q} : \A i \in 1 .. Len(s[p]), j \in 1 .. Len(new) : s[p][i] # new[j]

LEMMA ListChange ==
  ASSUME NEW s, NEW h, NEW n, Represents(s, h, n), NEW q \in Queues, NEW new \in Seq(Messages),
         NEW h2, NEW n2, Relinked(s, h, n, q, new, h2, n2)
  PROVE  Represents([s EXCEPT ![q] = new], h2, n2)
<1> DEFINE t == [s EXCEPT ![q] = new]
<1>1. /\ t \in [Queues -> Seq(Messages)] /\ t[q] = new
      /\ \A p \in Queues \ {q} : t[p] = s[p]
  BY DEF Represents
<1> HIDE DEF t
<1>2. Linked(t, h2, n2)
  <2> SUFFICES ASSUME NEW p \in Queues
               PROVE  /\ h2[p] = At(t[p], 1)
                      /\ \A i \in 1 .. Len(t[p]) : n2[t[p][i]] = At(t[p], i + 1)
    BY DEF Linked
  <2>1. CASE p = q
    BY <1>1, <2>1 DEF Relinked
  <2>2. CASE p # q
    BY <1>1, <2>2 DEF Represents, Linked, Relinked
  <2> QED BY <2>1, <2>2
<1>3. Disjoint(t)
  <2> SUFFICES ASSUME NEW p \in Queues, NEW r \in Queues, NEW i \in 1 .. Len(t[p]),
                      NEW j \in 1 .. Len(t[r]), t[p][i] = t[r][j]
               PROVE  p = r /\ i = j
    BY DEF Disjoint
  <2>1. CASE p = q /\ r = q
    BY <1>1, <2>1 DEF Relinked
  <2>2. CASE p = q /\ r # q
    BY <1>1, <2>2 DEF Relinked
  <2>3. CASE p # q /\ r = q
    BY <1>1, <2>3 DEF Relinked
  <2>4. CASE p # q /\ r # q
    <3>1. t[p] = s[p] /\ t[r] = s[r]
      BY <1>1, <2>4
    <3>2. i \in 1 .. Len(s[p]) /\ j \in 1 .. Len(s[r]) /\ s[p][i] = s[r][j]
      BY <3>1
    <3> QED BY <3>2 DEF Represents, Disjoint
  <2> QED BY <2>1, <2>2, <2>3, <2>4
<1>4. Represents(t, h2, n2)
  BY <1>1, <1>2, <1>3 DEF Represents, Relinked
<1> QED BY <1>4 DEF t

\* What is known of the list of a queue.
LEMMA ListFacts ==
  ASSUME NEW s, NEW h, NEW n, Represents(s, h, n), NEW q \in Queues
  PROVE  /\ s[q] \in Seq(Messages) /\ Len(s[q]) \in Nat
         /\ \A i \in 1 .. Len(s[q]) : s[q][i] \in Messages
         /\ h \in [Queues -> Link] /\ n \in [Messages -> Link]
         /\ h[q] = At(s[q], 1)
         /\ \A i \in 1 .. Len(s[q]) : n[s[q][i]] = At(s[q], i + 1)
         /\ \A i, j \in 1 .. Len(s[q]) : s[q][i] = s[q][j] => i = j
         /\ \A p \in Queues \ {q} : \A i \in 1 .. Len(s[p]), j \in 1 .. Len(s[q]) :
              s[p][i] # s[q][j] /\ s[p][i] \in Messages
<1>1. s[q] \in Seq(Messages) /\ \A p \in Queues : s[p] \in Seq(Messages)
  BY DEF Represents
<1>2. \A p \in Queues : \A i \in 1 .. Len(s[p]) : s[p][i] \in Messages
  BY <1>1
<1>3. Len(s[q]) \in Nat
  BY <1>1
<1> QED BY <1>1, <1>2, <1>3 DEF Represents, Linked, Disjoint

\* A message at the end.
LEMMA AppendRepresents ==
  ASSUME NEW s, NEW h, NEW n, Represents(s, h, n), NEW q \in Queues, NEW m \in Messages,
         Outside(s, m), NEW h2, NEW n2 \in [Messages -> Link], n2[m] = Null,
         \/ /\ Len(s[q]) = 0
            /\ h2 = [h EXCEPT ![q] = m] /\ \A x \in Messages \ {m} : n2[x] = n[x]
         \/ /\ Len(s[q]) > 0
            /\ h2 = h /\ n2[s[q][Len(s[q])]] = m
            /\ \A x \in Messages \ {m, s[q][Len(s[q])]} : n2[x] = n[x]
  PROVE  Represents([s EXCEPT ![q] = Append(@, m)], h2, n2)
<1> DEFINE old == s[q]
           L == Len(old)
           new == Append(old, m)
<1>1. /\ old \in Seq(Messages) /\ L \in Nat /\ \A i \in 1 .. L : old[i] \in Messages
      /\ h \in [Queues -> Link] /\ h[q] = At(old, 1)
      /\ \A i \in 1 .. L : n[old[i]] = At(old, i + 1)
      /\ \A i, j \in 1 .. L : old[i] = old[j] => i = j
      /\ \A p \in Queues \ {q} : \A i \in 1 .. Len(s[p]), j \in 1 .. L : s[p][i] # old[j]
  BY ListFacts
<1>2. \A p \in Queues : \A i \in 1 .. Len(s[p]) : s[p][i] \in Messages /\ s[p][i] # m
  BY DEF Outside, Represents
<1>3. /\ new \in Seq(Messages) /\ Len(new) = L + 1 /\ new[L + 1] = m
      /\ \A i \in 1 .. L : new[i] = old[i]
  BY <1>1, AppendProperties
<1>4. \/ /\ L = 0 /\ h2 = [h EXCEPT ![q] = m] /\ \A x \in Messages \ {m} : n2[x] = n[x]
      \/ /\ L > 0 /\ h2 = h /\ n2[old[L]] = m
         /\ \A x \in Messages \ {m, old[L]} : n2[x] = n[x]
  OBVIOUS
<1>5. \A i \in 1 .. L : old[i] # m
  BY <1>2
<1> HIDE DEF old, new
<1>6. h2 \in [Queues -> Link] /\ h2[q] = At(new, 1) /\ \A p \in Queues \ {q} : h2[p] = h[p]
  <2>1. CASE L = 0
    BY <1>1, <1>3, <1>4, <2>1 DEF At, Link
  <2>2. CASE L > 0
    <3>1. At(new, 1) = new[1] /\ At(old, 1) = old[1] /\ new[1] = old[1]
      BY <1>1, <1>3, <2>2 DEF At
    <3>2. h2 = h
      BY <1>4, <2>2
    <3> QED BY <1>1, <3>1, <3>2
  <2> QED BY <1>1, <2>1, <2>2
<1>7. \A p \in Queues \ {q} : \A i \in 1 .. Len(s[p]) : n2[s[p][i]] = n[s[p][i]]
  <2>1. CASE L = 0
    BY <1>2, <1>4, <2>1
  <2>2. CASE L > 0
    BY <1>1, <1>2, <1>4, <2>2
  <2> QED BY <1>1, <2>1, <2>2
<1>8. ASSUME NEW i \in 1 .. L + 1 PROVE n2[new[i]] = At(new, i + 1)
  <2>1. CASE i = L + 1
    BY <1>1, <1>3, <2>1 DEF At
  <2>2. CASE i = L
    BY <1>1, <1>3, <1>4, <2>2 DEF At
  <2>3. CASE i < L
    <3>1. old[i] \in Messages /\ old[i] # m /\ old[i] # old[L] /\ L > 0
      BY <1>1, <1>5, <2>3
    <3>2. n2[old[i]] = n[old[i]]
      BY <1>4, <3>1
    <3>3. n[old[i]] = old[i + 1]
      BY <1>1, <2>3 DEF At
    <3> QED BY <1>1, <1>3, <2>3, <3>2, <3>3 DEF At
  <2> QED BY <1>1, <2>1, <2>2, <2>3
<1>9. ASSUME NEW i \in 1 .. L + 1, NEW j \in 1 .. L + 1, new[i] = new[j] PROVE i = j
  <2>1. i \in 1 .. L \/ i = L + 1
    BY <1>1
  <2>2. j \in 1 .. L \/ j = L + 1
    BY <1>1
  <2> QED BY <1>1, <1>3, <1>5, <1>9, <2>1, <2>2
<1>10. ASSUME NEW p \in Queues \ {q}, NEW i \in 1 .. Len(s[p]), NEW j \in 1 .. L + 1
       PROVE  s[p][i] # new[j]
  <2>1. j \in 1 .. L \/ j = L + 1
    BY <1>1
  <2> QED BY <1>1, <1>2, <1>3, <2>1
<1>11. /\ \A i \in 1 .. Len(new) : n2[new[i]] = At(new, i + 1)
       /\ \A i, j \in 1 .. Len(new) : new[i] = new[j] => i = j
       /\ \A p \in Queues \ {q} : \A i \in 1 .. Len(s[p]), j \in 1 .. Len(new) :
            s[p][i] # new[j]
  BY <1>3, <1>8, <1>9, <1>10
<1>12. Relinked(s, h, n, q, new, h2, n2)
  BY <1>6, <1>7, <1>11 DEF Relinked
<1>13. Represents([s EXCEPT ![q] = new], h2, n2)
  BY <1>3, <1>12, ListChange
<1> QED BY <1>13 DEF new, old

\* A message in front.
LEMMA PushRepresents ==
  ASSUME NEW s, NEW h, NEW n, Represents(s, h, n), NEW q \in Queues, NEW m \in Messages,
         Outside(s, m), NEW h2, h2 = [h EXCEPT ![q] = m], NEW n2, n2 = [n EXCEPT ![m] = h[q]]
  PROVE  Represents([s EXCEPT ![q] = <<m>> \o @], h2, n2)
<1> DEFINE old == s[q]
           new == <<m>> \o old
<1>1. /\ old \in Seq(Messages) /\ Len(old) \in Nat /\ \A i \in 1 .. Len(old) : old[i] \in Messages
      /\ h \in [Queues -> Link] /\ n \in [Messages -> Link] /\ h[q] = At(old, 1)
      /\ \A i \in 1 .. Len(old) : n[old[i]] = At(old, i + 1)
      /\ \A i, j \in 1 .. Len(old) : old[i] = old[j] => i = j
      /\ \A p \in Queues \ {q} : \A i \in 1 .. Len(s[p]), j \in 1 .. Len(old) : s[p][i] # old[j]
  BY ListFacts
<1>2. \A p \in Queues : \A i \in 1 .. Len(s[p]) : s[p][i] \in Messages /\ s[p][i] # m
  BY DEF Outside, Represents
<1>3. /\ new \in Seq(Messages) /\ Len(new) = Len(old) + 1 /\ new[1] = m
      /\ \A i \in 1 .. Len(old) : new[i + 1] = old[i]
  <2>1. <<m>> \in Seq(Messages) /\ Len(<<m>>) = 1 /\ <<m>>[1] = m
    OBVIOUS
  <2>2. /\ new \in Seq(Messages) /\ Len(new) = 1 + Len(old)
        /\ \A i \in 1 .. 1 + Len(old) : new[i] = IF i <= 1 THEN <<m>>[i] ELSE old[i - 1]
    BY <1>1, <2>1, ConcatProperties
  <2> HIDE DEF new
  <2>3. ASSUME NEW i \in 1 .. Len(old) PROVE new[i + 1] = old[i]
    BY <1>1, <2>2
  <2> QED BY <1>1, <2>1, <2>2, <2>3
<1>4. \A i \in 1 .. Len(old) : old[i] # m
  BY <1>2
<1> HIDE DEF old, new
<1>5. /\ h2 \in [Queues -> Link] /\ h2[q] = m /\ \A p \in Queues \ {q} : h2[p] = h[p]
      /\ n2 \in [Messages -> Link] /\ n2[m] = h[q] /\ \A x \in Messages \ {m} : n2[x] = n[x]
  BY <1>1 DEF Link
<1>6. h2[q] = At(new, 1)
  BY <1>1, <1>3, <1>5 DEF At
<1>7. \A p \in Queues \ {q} : \A i \in 1 .. Len(s[p]) : n2[s[p][i]] = n[s[p][i]]
  BY <1>2, <1>5
<1>8. ASSUME NEW i \in 1 .. Len(new) PROVE i = 1 \/ (i - 1 \in 1 .. Len(old) /\ new[i] = old[i - 1])
  <2>1. CASE i > 1
    <3>1. i - 1 \in 1 .. Len(old) /\ (i - 1) + 1 = i
      BY <1>1, <1>3, <2>1
    <3>2. new[(i - 1) + 1] = old[i - 1]
      BY <1>3, <3>1
    <3> QED BY <3>1, <3>2
  <2> QED BY <1>1, <1>3, <2>1
<1>9. ASSUME NEW i \in 1 .. Len(new) PROVE n2[new[i]] = At(new, i + 1)
  <2>1. CASE i = 1
    BY <1>1, <1>3, <1>5, <2>1 DEF At
  <2>2. CASE i # 1
    <3>1. i - 1 \in 1 .. Len(old) /\ new[i] = old[i - 1] /\ old[i - 1] \in Messages \ {m}
      BY <1>1, <1>4, <1>8, <2>2
    <3>2. n2[new[i]] = At(old, (i - 1) + 1)
      BY <1>1, <1>5, <3>1
    <3>3. (i - 1) + 1 = i
      OBVIOUS
    <3>4. At(old, i) = At(new, i + 1)
      BY <1>1, <1>3, <3>1 DEF At
    <3> QED BY <3>2, <3>3, <3>4
  <2> QED BY <2>1, <2>2
<1>10. ASSUME NEW i \in 1 .. Len(new), NEW j \in 1 .. Len(new), new[i] = new[j] PROVE i = j
  <2>1. CASE i = 1
    BY <1>3, <1>4, <1>8, <1>10, <2>1
  <2>2. CASE i # 1 /\ j = 1
    BY <1>3, <1>4, <1>8, <1>10, <2>2
  <2>3. CASE i # 1 /\ j # 1
    <3>1. i - 1 \in 1 .. Len(old) /\ new[i] = old[i - 1]
      BY <1>8, <2>3
    <3>2. j - 1 \in 1 .. Len(old) /\ new[j] = old[j - 1]
      BY <1>8, <2>3
    <3>3. i - 1 = j - 1
      BY <1>1, <1>10, <3>1, <3>2
    <3> QED BY <1>1, <1>3, <3>3
  <2> QED BY <2>1, <2>2, <2>3
<1>11. ASSUME NEW p \in Queues \ {q}, NEW i \in 1 .. Len(s[p]), NEW j \in 1 .. Len(new)
       PROVE  s[p][i] # new[j]
  <2>1. CASE j = 1
    BY <1>2, <1>3, <2>1
  <2>2. CASE j # 1
    BY <1>1, <1>8, <2>2
  <2> QED BY <2>1, <2>2
<1>12. Relinked(s, h, n, q, new, h2, n2)
  BY <1>5, <1>6, <1>7, <1>9, <1>10, <1>11 DEF Relinked
<1>13. Represents([s EXCEPT ![q] = new], h2, n2)
  BY <1>3, <1>12, ListChange
<1> QED BY <1>13 DEF new, old

\* A message taken out, of the front or from behind another one.
LEMMA RemoveRepresents ==
  ASSUME NEW s, NEW h, NEW n, Represents(s, h, n), NEW q \in Queues, NEW i \in 1 .. Len(s[q]),
         NEW h2, NEW n2 \in [Messages -> Link],
         \/ /\ i = 1 /\ h2 = [h EXCEPT ![q] = n[s[q][1]]]
            /\ \A x \in Messages \ {s[q][1]} : n2[x] = n[x]
         \/ /\ i > 1 /\ h2 = h /\ n2[s[q][i - 1]] = n[s[q][i]]
            /\ \A x \in Messages \ {s[q][i - 1], s[q][i]} : n2[x] = n[x]
  PROVE  Represents([s EXCEPT ![q] = Skipping(@, i)], h2, n2)
<1> DEFINE old == s[q]
           new == Skipping(old, i)
<1>1. /\ old \in Seq(Messages) /\ Len(old) \in Nat /\ \A k \in 1 .. Len(old) : old[k] \in Messages
      /\ h \in [Queues -> Link] /\ n \in [Messages -> Link] /\ h[q] = At(old, 1)
      /\ \A k \in 1 .. Len(old) : n[old[k]] = At(old, k + 1)
      /\ \A k, j \in 1 .. Len(old) : old[k] = old[j] => k = j
      /\ \A p \in Queues \ {q} : \A k \in 1 .. Len(s[p]), j \in 1 .. Len(old) :
           s[p][k] # old[j] /\ s[p][k] \in Messages
  BY ListFacts
<1>2. /\ new \in Seq(Messages) /\ Len(new) = Len(old) - 1
      /\ \A k \in 1 .. Len(old) - 1 : new[k] = IF k < i THEN old[k] ELSE old[k + 1]
  BY <1>1, WithoutEntry
<1>3. i \in 1 .. Len(old)
  OBVIOUS
<1>4. \/ /\ i = 1 /\ h2 = [h EXCEPT ![q] = n[old[1]]]
         /\ \A x \in Messages \ {old[1]} : n2[x] = n[x]
      \/ /\ i > 1 /\ h2 = h /\ n2[old[i - 1]] = n[old[i]]
         /\ \A x \in Messages \ {old[i - 1], old[i]} : n2[x] = n[x]
  OBVIOUS
<1> HIDE DEF old, new
<1> DEFINE from(k) == IF k < i THEN k ELSE k + 1
<1>5. /\ \A k \in 1 .. Len(new) : from(k) \in 1 .. Len(old) /\ from(k) # i /\ new[k] = old[from(k)]
      /\ \A k, j \in 1 .. Len(new) : from(k) = from(j) => k = j
  BY <1>1, <1>2, <1>3
<1>6. h2 \in [Queues -> Link] /\ h2[q] = At(new, 1) /\ \A p \in Queues \ {q} : h2[p] = h[p]
  <2>1. CASE i = 1
    <3>1. h2[q] = n[old[1]] /\ n[old[1]] = At(old, 2) /\ n[old[1]] \in Link
      BY <1>1, <1>3, <1>4, <2>1
    <3>2. At(new, 1) = At(old, 2)
      BY <1>1, <1>2, <1>3, <2>1 DEF At
    <3> QED BY <1>1, <1>4, <2>1, <3>1, <3>2
  <2>2. CASE i > 1
    <3>1. At(new, 1) = At(old, 1)
      BY <1>1, <1>2, <1>3, <2>2 DEF At
    <3> QED BY <1>1, <1>4, <2>2, <3>1
  <2> QED BY <1>1, <1>3, <2>1, <2>2
<1>7. ASSUME NEW p \in Queues \ {q}, NEW k \in 1 .. Len(s[p]) PROVE n2[s[p][k]] = n[s[p][k]]
  <2>1. s[p][k] \in Messages /\ s[p][k] # old[i] /\ (i > 1 => s[p][k] # old[i - 1])
    BY <1>1, <1>3
  <2> QED BY <1>4, <2>1
<1>8. ASSUME NEW k \in 1 .. Len(new) PROVE n2[new[k]] = At(new, k + 1)
  <2>1. /\ from(k) \in 1 .. Len(old) /\ from(k) # i /\ new[k] = old[from(k)]
        /\ old[from(k)] \in Messages /\ old[from(k)] # old[i]
    BY <1>1, <1>3, <1>5
  <2>2. n[old[from(k)]] = At(old, from(k) + 1)
    BY <1>1, <2>1
  <2>3. CASE k < i - 1
    <3>1. i > 1 /\ old[k] # old[i - 1] /\ from(k) = k
      BY <1>1, <1>3, <2>1, <2>3
    <3>2. n2[new[k]] = At(old, k + 1)
      BY <1>4, <2>1, <2>2, <3>1
    <3> QED BY <1>1, <1>2, <1>3, <2>3, <3>2 DEF At
  <2>4. CASE k = i - 1
    <3>1. i > 1 /\ from(k) = k /\ n2[old[k]] = n[old[i]] /\ n[old[i]] = At(old, i + 1)
      BY <1>1, <1>3, <1>4, <2>4
    <3>2. At(new, i) = At(old, i + 1)
      <4>1. CASE i = Len(old)
        BY <1>1, <1>2, <4>1 DEF At
      <4>2. CASE i < Len(old)
        <5>1. i \in 1 .. Len(old) - 1 /\ i + 1 \in 1 .. Len(old)
          BY <1>1, <1>3, <4>2
        <5> QED BY <1>1, <1>2, <5>1 DEF At
      <4> QED BY <1>1, <1>3, <4>1, <4>2
    <3>3. k + 1 = i
      BY <1>3, <2>4
    <3> QED BY <2>1, <3>1, <3>2, <3>3
  <2>5. CASE k >= i
    <3>1. from(k) = k + 1 /\ (i > 1 => old[k + 1] # old[i - 1])
      BY <1>1, <1>3, <2>1, <2>5
    <3>2. n2[new[k]] = At(old, k + 2)
      BY <1>4, <2>1, <2>2, <3>1
    <3>3. At(new, k + 1) = At(old, k + 2)
      <4>1. CASE k + 1 = Len(old)
        BY <1>1, <1>2, <4>1 DEF At
      <4>2. CASE k + 1 < Len(old)
        <5>1. k + 1 \in 1 .. Len(old) - 1 /\ k + 2 \in 1 .. Len(old) /\ (k + 1) + 1 = k + 2 /\ ~(k + 1 < i)
          BY <1>1, <1>3, <2>5, <4>2
        <5>2. new[k + 1] = old[k + 2]
          BY <1>2, <5>1
        <5> QED BY <1>1, <1>2, <5>1, <5>2 DEF At
      <4> QED BY <1>1, <1>2, <4>1, <4>2
    <3> QED BY <3>2, <3>3
  <2> QED BY <1>1, <1>2, <1>3, <2>3, <2>4, <2>5
<1>9. ASSUME NEW k \in 1 .. Len(new), NEW j \in 1 .. Len(new), new[k] = new[j] PROVE k = j
  <2>1. /\ from(k) \in 1 .. Len(old) /\ new[k] = old[from(k)]
        /\ from(j) \in 1 .. Len(old) /\ new[j] = old[from(j)]
    BY <1>5
  <2>2. PICK a \in 1 .. Len(old), b \in 1 .. Len(old) : a = from(k) /\ b = from(j)
    BY <2>1
  <2>3. old[a] = old[b]
    <3> HIDE DEF from
    <3> QED BY <1>9, <2>1, <2>2
  <2>4. from(k) = from(j)
    <3> HIDE DEF from
    <3> QED BY <1>1, <2>2, <2>3
  <2> QED BY <1>5, <2>4
<1>10. ASSUME NEW p \in Queues \ {q}, NEW k \in 1 .. Len(s[p]), NEW j \in 1 .. Len(new)
       PROVE  s[p][k] # new[j]
  <2>1. from(j) \in 1 .. Len(old) /\ new[j] = old[from(j)]
    BY <1>5
  <2> HIDE DEF from
  <2> QED BY <1>1, <2>1
<1>11. Relinked(s, h, n, q, new, h2, n2)
  BY <1>6, <1>7, <1>8, <1>9, <1>10 DEF Relinked
<1>12. Represents([s EXCEPT ![q] = new], h2, n2)
  BY <1>2, <1>11, ListChange
<1> QED BY <1>12 DEF new, old

-----------------------------------------------------------------------------
(* The steps. *)

\* The abstract step, or none, that a step of the links stands for.
Serves(s, t) == t = s \/ t \in MessageQueues!Left(s)

LEMMA MembersAre ==
  ASSUME NEW s, Represents(s, head, next)
  PROVE  /\ \A q \in Queues : Members(q) = {s[q][i] : i \in 1 .. Len(s[q])}
         /\ \A m : InNoQueue(m) <=> Outside(s, m)
<1>1. \A q \in Queues : Contents(q) = s[q] /\ DOMAIN s[q] = 1 .. Len(s[q])
  BY ContentsAre DEF Represents
<1>2. \A q \in Queues : Members(q) = {s[q][i] : i \in 1 .. Len(s[q])}
  BY <1>1 DEF Members, Range
<1> QED BY <1>2 DEF InNoQueue, Outside

LEMMA FreeIs ==
  ASSUME NEW s \in [Queues -> Seq(Messages)], NEW m \in Messages, Outside(s, m)
  PROVE  m \in MessageQueues!Free(s)
<1> SUFFICES ASSUME NEW q \in Queues, m \in MessageQueues!Range(s[q]) PROVE FALSE
  BY DEF MessageQueues!Free
<1>1. DOMAIN s[q] = 1 .. Len(s[q])
  OBVIOUS
<1> QED BY <1>1 DEF MessageQueues!Range, Outside

LEMMA LeftIs ==
  ASSUME NEW s, NEW q \in Queues, NEW t,
         \/ t \in MessageQueues!AddLast(s, q) \/ t \in MessageQueues!AddFirst(s, q)
         \/ t \in MessageQueues!TakeOne(s, q)
  PROVE  t \in MessageQueues!Left(s)
BY DEF MessageQueues!Left

LEMMA EnqueueStep ==
  ASSUME NEW s, Represents(s, head, next), NEW q \in Queues, NEW m \in Messages, Enqueue(q, m)
  PROVE  \E t : Represents(t, head', next') /\ Serves(s, t)
<1>1. /\ Outside(s, m) /\ Contents(q) = s[q] /\ Length(q) = Len(s[q]) /\ s[q] \in Seq(Messages)
      /\ Len(s[q]) \in Nat /\ head[q] = At(s[q], 1) /\ next \in [Messages -> Link]
      /\ head \in [Queues -> Link] /\ \A i \in 1 .. Len(s[q]) : s[q][i] \in Messages \ {m}
  BY MembersAre, ContentsAre, ListFacts DEF Enqueue, Outside
<1>2. CASE ~(Length(q) <= MaxWalk)
  <2>1. next' = [next EXCEPT ![m] = Null] /\ head' = head
    BY <1>2 DEF Enqueue
  <2> QED BY <1>1, <2>1, HeaderChange DEF Serves, Link
<1>3. CASE Length(q) <= MaxWalk
  <2> DEFINE t == [s EXCEPT ![q] = Append(@, m)]
  <2>1. LinkLast(q, m)
    BY <1>3 DEF Enqueue
  <2>2. /\ next' \in [Messages -> Link] /\ next'[m] = Null
        /\ \/ /\ Len(s[q]) = 0
              /\ head' = [head EXCEPT ![q] = m] /\ \A x \in Messages \ {m} : next'[x] = next[x]
           \/ /\ Len(s[q]) > 0
              /\ head' = head /\ next'[s[q][Len(s[q])]] = m
              /\ \A x \in Messages \ {m, s[q][Len(s[q])]} : next'[x] = next[x]
    <3>1. CASE head[q] = Null
      <4>1. head' = [head EXCEPT ![q] = m] /\ next' = [next EXCEPT ![m] = Null]
        BY <2>1, <3>1 DEF LinkLast
      <4>2. Len(s[q]) = 0
        BY <1>1, <3>1, NullAssumption DEF At
      <4> QED BY <1>1, <4>1, <4>2 DEF Link
    <3>2. CASE head[q] # Null
      <4>1. head' = head /\ next' = [next EXCEPT ![m] = Null, ![s[q][Len(s[q])]] = m]
        BY <1>1, <2>1, <3>2 DEF LinkLast
      <4>2. Len(s[q]) > 0 /\ s[q][Len(s[q])] \in Messages \ {m}
        BY <1>1, <3>2 DEF At
      <4> QED BY <1>1, <4>1, <4>2 DEF Link
    <3> QED BY <3>1, <3>2
  <2>3. Represents(t, head', next')
    BY <1>1, <2>2, AppendRepresents
  <2>4. t \in MessageQueues!Left(s)
    <3>1. m \in MessageQueues!Free(s)
      BY <1>1, FreeIs DEF Represents
    <3>2. t \in MessageQueues!AddLast(s, q)
      BY <3>1, Zenon DEF MessageQueues!AddLast
    <3> QED BY <3>2, LeftIs
  <2> QED BY <2>3, <2>4 DEF Serves
<1> QED BY <1>2, <1>3

LEMMA PushStep ==
  ASSUME NEW s, Represents(s, head, next), NEW q \in Queues, NEW m \in Messages, Push(q, m)
  PROVE  \E t : Represents(t, head', next') /\ Serves(s, t)
<1> DEFINE t == [s EXCEPT ![q] = <<m>> \o @]
<1>1. Outside(s, m)
  BY MembersAre DEF Push
<1>2. Represents(t, head', next')
  BY <1>1, PushRepresents DEF Push
<1>3. t \in MessageQueues!Left(s)
  <2>1. m \in MessageQueues!Free(s)
    BY <1>1, FreeIs DEF Represents
  <2>2. t \in MessageQueues!AddFirst(s, q)
    BY <2>1, Zenon DEF MessageQueues!AddFirst
  <2> QED BY <2>2, LeftIs
<1> QED BY <1>2, <1>3 DEF Serves

LEMMA RemoveServes ==
  ASSUME NEW s \in [Queues -> Seq(Messages)], NEW q \in Queues, NEW i \in 1 .. Len(s[q])
  PROVE  Serves(s, [s EXCEPT ![q] = Skipping(@, i)])
<1> DEFINE list == s[q]
<1>1. list \in Seq(Messages) /\ i \in 1 .. Len(list) /\ DOMAIN list = 1 .. Len(list)
  OBVIOUS
<1>2. Skipping(list, i) = SubSeq(list, 1, i - 1) \o SubSeq(list, i + 1, Len(list))
  <2> HIDE DEF list
  <2> QED BY <1>1, WithoutEntry
<1>3. Skipping(list, i) = MessageQueues!RemoveAt(list, i)
  BY <1>2, Zenon DEF MessageQueues!RemoveAt
<1>4. [s EXCEPT ![q] = Skipping(@, i)] \in MessageQueues!TakeOne(s, q)
  BY <1>1, <1>3, Zenon DEF MessageQueues!TakeOne
<1> QED BY <1>4, LeftIs DEF Serves

LEMMA DequeueStep ==
  ASSUME NEW s, Represents(s, head, next), NEW q \in Queues, Dequeue(q)
  PROVE  \E t : Represents(t, head', next') /\ Serves(s, t)
<1>1. /\ s[q] \in Seq(Messages) /\ Len(s[q]) \in Nat /\ next \in [Messages -> Link]
      /\ head[q] = At(s[q], 1) /\ s \in [Queues -> Seq(Messages)]
  BY ListFacts DEF Represents
<1>2. 1 \in 1 .. Len(s[q]) /\ head[q] = s[q][1] /\ s[q][1] \in Messages
  BY <1>1 DEF Dequeue, At
<1>3. /\ head' = [head EXCEPT ![q] = next[s[q][1]]] /\ next' = [next EXCEPT ![s[q][1]] = Null]
  BY <1>2 DEF Dequeue
<1>4. next' \in [Messages -> Link] /\ \A x \in Messages \ {s[q][1]} : next'[x] = next[x]
  BY <1>1, <1>2, <1>3 DEF Link
<1>5. Represents([s EXCEPT ![q] = Skipping(@, 1)], head', next')
  BY <1>2, <1>3, <1>4, RemoveRepresents
<1> QED BY <1>1, <1>2, <1>5, RemoveServes

LEMMA ExtractStep ==
  ASSUME NEW s, Represents(s, head, next), NEW q \in Queues, NEW m \in Messages,
         NEW before \in Link, Extract(q, m, before)
  PROVE  \E t : Represents(t, head', next') /\ Serves(s, t)
<1>1. /\ s[q] \in Seq(Messages) /\ Len(s[q]) \in Nat /\ next \in [Messages -> Link]
      /\ head[q] = At(s[q], 1) /\ s \in [Queues -> Seq(Messages)]
      /\ \A i \in 1 .. Len(s[q]) : next[s[q][i]] = At(s[q], i + 1) /\ s[q][i] \in Messages
      /\ \A i, j \in 1 .. Len(s[q]) : s[q][i] = s[q][j] => i = j
      /\ Members(q) = {s[q][i] : i \in 1 .. Len(s[q])}
  BY ListFacts, MembersAre DEF Represents
<1>2. PICK i \in 1 .. Len(s[q]) : s[q][i] = m
  BY <1>1 DEF Extract
<1>3. CASE head[q] = m
  <2>1. i = 1
    BY <1>1, <1>2, <1>3, NullAssumption DEF At
  <2>2. head' = [head EXCEPT ![q] = next[s[q][1]]] /\ next' = [next EXCEPT ![s[q][1]] = Null]
    BY <1>2, <1>3, <2>1 DEF Extract
  <2>3. next' \in [Messages -> Link] /\ \A x \in Messages \ {s[q][1]} : next'[x] = next[x]
    BY <1>1, <1>2, <2>1, <2>2 DEF Link
  <2>4. Represents([s EXCEPT ![q] = Skipping(@, i)], head', next')
    BY <1>2, <2>1, <2>2, <2>3, RemoveRepresents
  <2> QED BY <1>1, <1>2, <2>4, RemoveServes
<1>4. CASE head[q] # m
  <2>1. /\ before \in Members(q) /\ next[before] = m /\ head' = head
        /\ next' = [next EXCEPT ![before] = next[m], ![m] = Null]
    BY <1>4 DEF Extract
  <2>2. PICK j \in 1 .. Len(s[q]) : s[q][j] = before
    BY <1>1, <2>1
  <2>3. i = j + 1
    <3>1. At(s[q], j + 1) = m
      BY <1>1, <2>1, <2>2
    <3>2. j + 1 \in 1 .. Len(s[q]) /\ s[q][j + 1] = m
      BY <3>1, NullAssumption DEF At
    <3> QED BY <1>1, <1>2, <3>2
  <2>4. i > 1 /\ j = i - 1
    BY <2>2, <2>3
  <2>5. /\ s[q][i - 1] = before /\ s[q][i] = m /\ before # m
        /\ before \in Messages /\ next[m] \in Link
    BY <1>1, <1>2, <2>2, <2>4
  <2>6. /\ next' \in [Messages -> Link] /\ next'[before] = next[m]
        /\ \A x \in Messages \ {before, m} : next'[x] = next[x]
    BY <1>1, <2>1, <2>5 DEF Link
  <2>7. Represents([s EXCEPT ![q] = Skipping(@, i)], head', next')
    <3>1. /\ i > 1 /\ head' = head /\ next'[s[q][i - 1]] = next[s[q][i]]
          /\ \A x \in Messages \ {s[q][i - 1], s[q][i]} : next'[x] = next[x]
      BY <2>1, <2>4, <2>5, <2>6
    <3>2. next' \in [Messages -> Link] /\ i \in 1 .. Len(s[q])
      BY <1>2, <2>6
    <3> HIDE <1>1, <1>2, <2>1, <2>5, <2>6
    <3> QED BY <3>1, <3>2, RemoveRepresents
  <2> QED BY <1>1, <1>2, <2>7, RemoveServes
<1> QED BY <1>3, <1>4

LEMMA RecycleStep ==
  ASSUME NEW s, Represents(s, head, next), NEW m \in Messages, Recycle(m)
  PROVE  \E t : Represents(t, head', next') /\ Serves(s, t)
<1>1. Outside(s, m)
  BY MembersAre DEF Recycle
<1>2. PICK link \in Stray : next' = [next EXCEPT ![m] = link] /\ head' = head
  BY DEF Recycle
<1>3. link \in Link
  BY NullAssumption DEF Link
<1> QED BY <1>1, <1>2, <1>3, HeaderChange DEF Serves

\* Every step of the links leaves lists, which the calls of the firmware explain.
LEMMA QueueStep ==
  ASSUME NEW s, Represents(s, head, next), [QueueNext]_queueVars
  PROVE  \E t : Represents(t, head', next') /\ Serves(s, t)
<1>1. CASE UNCHANGED queueVars
  BY <1>1 DEF queueVars, Serves
<1>2. ASSUME NEW q \in Queues, Dequeue(q)
      PROVE  \E t : Represents(t, head', next') /\ Serves(s, t)
  BY <1>2, DequeueStep
<1>3. ASSUME NEW q \in Queues, NEW m \in Messages,
             \/ Enqueue(q, m) \/ EnqueueMax(q, m, 0) \/ EnqueueMax(q, m, Limit)
      PROVE  \E t : Represents(t, head', next') /\ Serves(s, t)
  BY <1>3, EnqueueStep DEF EnqueueMax
<1>4. ASSUME NEW q \in Queues, NEW m \in Messages, Push(q, m)
      PROVE  \E t : Represents(t, head', next') /\ Serves(s, t)
  BY <1>4, PushStep
<1>5. ASSUME NEW q \in Queues, NEW m \in Messages, NEW before \in Link, Extract(q, m, before)
      PROVE  \E t : Represents(t, head', next') /\ Serves(s, t)
  BY <1>5, ExtractStep
<1>6. ASSUME NEW m \in Messages, Recycle(m)
      PROVE  \E t : Represents(t, head', next') /\ Serves(s, t)
  BY <1>6, RecycleStep
<1> QED BY <1>1, <1>2, <1>3, <1>4, <1>5, <1>6 DEF QueueNext

LEMMA OwnReading ==
  ASSUME NEW s, Represents(s, head, next)
  PROVE  s = Lists
BY ContentsAre DEF Represents, Lists

\* In every reachable state the links of each queue lead along a list.
THEOREM QueuesAreLists == QueueSpec => []QueueInv
<1>1. QueueInit => \E s : Represents(s, head, next)
  <2> SUFFICES ASSUME QueueInit PROVE Represents([q \in Queues |-> <<>>], head, next)
    OBVIOUS
  <2> DEFINE none == [q \in Queues |-> <<>>]
  <2>1. none \in [Queues -> Seq(Messages)] /\ \A q \in Queues : none[q] = <<>>
    OBVIOUS
  <2>2. /\ head \in [Queues -> Link] /\ \A q \in Queues : head[q] = Null
        /\ next \in [Messages -> Link]
    BY NullAssumption DEF QueueInit, Link
  <2> HIDE DEF none
  <2>3. Linked(none, head, next) /\ Disjoint(none)
    BY <2>1, <2>2 DEF Linked, Disjoint, At
  <2>4. Represents(none, head, next)
    BY <2>1, <2>2, <2>3 DEF Represents
  <2> QED BY <2>4 DEF none
<1>2. (\E s : Represents(s, head, next)) => QueueInv
  BY OwnReading DEF QueueInv
<1>3. QueueInv /\ [QueueNext]_queueVars => (\E s : Represents(s, head, next))'
  BY QueueStep DEF QueueInv
<1> QED BY <1>1, <1>2, <1>3, PTL DEF QueueSpec

\* Every list ends, and no message is in two lists or twice in one, however the
\* queues share their links and whatever a recycled header holds.
THEOREM ListsTheorem == QueueSpec => []ListsSound
<1>1. QueueInv => ListsSound
  <2> SUFFICES ASSUME QueueInv PROVE ListsSound
    OBVIOUS
  <2>1. /\ \A q \in Queues : Contents(q) = Lists[q] /\ Length(q) = Len(Lists[q])
                             /\ Follow(q)[Cardinality(Messages)] = Null
        /\ \A q \in Queues : Members(q) = {Lists[q][i] : i \in 1 .. Len(Lists[q])}
    BY ContentsAre, MembersAre DEF QueueInv
  <2>2. Disjoint(Lists)
    BY DEF QueueInv, Represents
  <2> QED BY <2>1, <2>2 DEF ListsSound, Disjoint
<1> QED BY <1>1, QueuesAreLists, PTL

\* The linked lists in guest memory implement the queues that the firmware is
\* promised: every call is one call on the queues, or leaves them as they are.
THEOREM QueuesRefine == QueueSpec => ImplementsQueues
<1>1. QueueInit => MessageQueues!Init
  <2> SUFFICES ASSUME QueueInit PROVE \A q \in Queues : Contents(q) = <<>>
    BY DEF MessageQueues!Init
  <2> DEFINE none == [q \in Queues |-> <<>>]
  <2>1. none \in [Queues -> Seq(Messages)] /\ \A q \in Queues : none[q] = <<>>
    OBVIOUS
  <2>2. /\ head \in [Queues -> Link] /\ \A q \in Queues : head[q] = Null
        /\ next \in [Messages -> Link]
    BY NullAssumption DEF QueueInit, Link
  <2> HIDE DEF none
  <2>3. Linked(none, head, next) /\ Disjoint(none)
    BY <2>1, <2>2 DEF Linked, Disjoint, At
  <2>4. Represents(none, head, next)
    BY <2>1, <2>2, <2>3 DEF Represents
  <2> QED BY <2>1, <2>4, ContentsAre
<1>2. QueueInv /\ QueueInv' /\ [QueueNext]_queueVars => Lists' = Lists \/ Lists' \in MessageQueues!Left(Lists)
  <2> SUFFICES ASSUME QueueInv, QueueInv', [QueueNext]_queueVars
               PROVE  Serves(Lists, Lists')
    BY DEF Serves
  <2>1. PICK t : Represents(t, head', next') /\ Serves(Lists, t)
    BY QueueStep DEF QueueInv
  <2>2. t = Lists'
    BY <2>1, OneReading DEF QueueInv
  <2> QED BY <2>1, <2>2
<1>3. (Lists' = Lists \/ Lists' \in MessageQueues!Left(Lists)) => [MessageQueues!Next]_Lists
  BY DEF MessageQueues!Next, Lists
<1>4. [MessageQueues!Next]_Lists <=> [MessageQueues!Next]_([q \in Queues |-> Contents(q)])
  BY DEF Lists
<1> QED BY <1>1, <1>2, <1>3, <1>4, QueuesAreLists, PTL
         DEF QueueSpec, ImplementsQueues, MessageQueues!Spec

-----------------------------------------------------------------------------
(* Callback timers.  The invariant behind NeverEarly relates the deadline, a  *)
(* point on the clock that wraps, to the milliseconds that are left to wait:  *)
(* they agree for the timers of the boot that runs, and those of a boot that  *)
(* is over are never taken for its own.                                       *)

CbTyped ==
  /\ timers \in Seq(CbTimer)
  /\ clock \in [Chips -> Clock]
  /\ mode \in [Chips -> Modes]
  /\ current \in [Chips -> CbTimer \cup {NoTimer}]
  /\ \A c \in Chips : mode[c] = "callback" => current[c] \in CbTimer
  /\ boot \in [Chips -> 0..MaxBoots]

Timely ==
  \A c \in Chips : \A i \in 1 .. Len(timers) :
    timers[i].owner = Me(c) /\ timers[i].wait > 0 =>
      timers[i].deadline = WrappingAdd(clock[c], timers[i].wait)

OnlyBootsSoFar ==
  \A i \in 1 .. Len(timers) : timers[i].owner.boot <= boot[timers[i].owner.chip]

CbInv == CbTyped /\ Timely /\ OnlyBootsSoFar /\ NeverEarly

-----------------------------------------------------------------------------
(* The clock. *)

LEMMA CbClockFacts ==
  /\ ClockSize \in Nat \ {0} /\ HalfClock \in Nat \ {0} /\ ClockSize = 2 * HalfClock
  /\ MaxTimeout \in 0 .. HalfClock
  /\ MaxBoots \in Nat
BY ClockAssumption, MaxTimeoutAssumption, MaxBootsAssumption DEF HalfClock

LEMMA CbMod ==
  ASSUME NEW n \in Int
  PROVE  /\ n % ClockSize \in Clock
         /\ n \in Clock => n % ClockSize = n
         /\ n < 0 /\ n >= -ClockSize => n % ClockSize = n + ClockSize
         /\ n >= ClockSize /\ n < 2 * ClockSize => n % ClockSize = n - ClockSize
BY CbClockFacts DEF Clock

LEMMA CbAdd ==
  ASSUME NEW a \in Clock, NEW n \in 0 .. HalfClock
  PROVE  /\ WrappingAdd(a, n) \in Clock
         /\ WrappingAdd(a, n) = IF a + n < ClockSize THEN a + n ELSE (a + n) - ClockSize
<1> DEFINE e == a + n
<1>1. /\ e \in Int /\ e < 2 * ClockSize
      /\ e < ClockSize => e \in Clock
      /\ e >= ClockSize \/ e < ClockSize
  BY CbClockFacts DEF Clock
<1> HIDE DEF e
<1>2. e % ClockSize \in Clock
  BY <1>1, CbMod
<1>3. e < ClockSize => e % ClockSize = e
  BY <1>1, CbMod
<1>4. e >= ClockSize => e % ClockSize = e - ClockSize
  BY <1>1, CbMod
<1> QED BY <1>1, <1>2, <1>3, <1>4 DEF e, WrappingAdd

LEMMA CbSub ==
  ASSUME NEW a \in Clock, NEW b \in Clock
  PROVE  WrappingSub(a, b) = IF a >= b THEN a - b ELSE a - b + ClockSize
<1> DEFINE e == a - b
<1>1. /\ e \in Int /\ e >= -ClockSize /\ e < ClockSize
      /\ e >= 0 => e \in Clock
      /\ a >= b <=> e >= 0
      /\ e >= 0 \/ e < 0
  BY CbClockFacts DEF Clock
<1> HIDE DEF e
<1>2. e >= 0 => e % ClockSize = e
  BY <1>1, CbMod
<1>3. e < 0 => e % ClockSize = e + ClockSize
  BY <1>1, CbMod
<1> QED BY <1>1, <1>2, <1>3 DEF e, WrappingSub

\* A deadline that lies ahead by no more than half of the clock is not reached.
LEMMA AheadIsNotReached ==
  ASSUME NEW a \in Clock, NEW n \in 1 .. HalfClock
  PROVE  ~Reached(a, WrappingAdd(a, n))
<1> DEFINE d == WrappingAdd(a, n)
<1>1. d \in Clock /\ d = IF a + n < ClockSize THEN a + n ELSE (a + n) - ClockSize
  BY CbClockFacts, CbAdd
<1> HIDE DEF d
<1>2. WrappingSub(a, d) = IF a >= d THEN a - d ELSE a - d + ClockSize
  BY <1>1, CbSub
<1>3. WrappingSub(a, d) = ClockSize - n
  BY <1>1, <1>2, CbClockFacts DEF Clock
<1> QED BY <1>3, CbClockFacts DEF d, Reached

\* A millisecond later the same deadline lies ahead by one less.
LEMMA TickKeepsDeadline ==
  ASSUME NEW a \in Clock, NEW n \in 1 .. HalfClock
  PROVE  WrappingAdd(WrappingAdd(a, 1), n - 1) = WrappingAdd(a, n)
<1> DEFINE b == WrappingAdd(a, 1)
<1>1. b \in Clock /\ b = IF a + 1 < ClockSize THEN a + 1 ELSE (a + 1) - ClockSize
  BY CbClockFacts, CbAdd
<1> HIDE DEF b
<1>2. WrappingAdd(b, n - 1) = IF b + (n - 1) < ClockSize THEN b + (n - 1) ELSE (b + (n - 1)) - ClockSize
  BY <1>1, CbClockFacts, CbAdd
<1>3. WrappingAdd(a, n) = IF a + n < ClockSize THEN a + n ELSE (a + n) - ClockSize
  BY CbClockFacts, CbAdd
<1> QED BY <1>1, <1>2, <1>3, CbClockFacts DEF b, Clock

-----------------------------------------------------------------------------
(* The steps. *)

LEMMA WaitChanged ==
  ASSUME NEW x \in CbTimer, NEW w \in 0 .. MaxTimeout, NEW y, y = [x EXCEPT !.wait = w]
  PROVE  y \in CbTimer /\ y.owner = x.owner /\ y.deadline = x.deadline /\ y.wait = w
BY DEF CbTimer

\* Timers that are all taken from the ones there were keep their deadlines.
LEMMA FewerTimers ==
  ASSUME CbInv, timers' \in Seq(CbTimer), UNCHANGED <<clock, boot>>,
         \A i \in 1 .. Len(timers') : \E j \in 1 .. Len(timers) : timers'[i] = timers[j]
  PROVE  Timely' /\ OnlyBootsSoFar'
<1>1. Timely'
  BY DEF CbInv, Timely, Me
<1>2. OnlyBootsSoFar'
  BY DEF CbInv, OnlyBootsSoFar
<1> QED BY <1>1, <1>2

LEMMA StartKeepsTime ==
  ASSUME CbInv, NEW c \in Chips, NEW timeout \in 0 .. MaxTimeout, Start(c, timeout)
  PROVE  CbInv'
<1> DEFINE id == Min(FreeIds)
           e == Entry(c, id, timeout)
<1>1. id \in Ids
  <2>1. FreeIds \in SUBSET Nat /\ FreeIds # {}
    BY MaxTimersAssumption DEF Start, FreeIds, Ids
  <2>2. \E n \in FreeIds : \A k \in FreeIds : n <= k
    BY <2>1, LeastElement
  <2>3. id \in FreeIds
    BY <2>2 DEF Min
  <2> HIDE DEF id
  <2> QED BY <2>3 DEF FreeIds
<1>2. timers' = Append(timers, e) /\ timers \in Seq(CbTimer)
  BY DEF Start, CbInv, CbTyped
<1> HIDE DEF id
<1>3. clock[c] \in Clock /\ boot[c] \in 0 .. MaxBoots /\ timeout \in 0 .. HalfClock
  BY CbClockFacts DEF CbInv, CbTyped
<1>4. WrappingAdd(clock[c], timeout) \in Clock
  BY <1>3, CbAdd
<1>5. /\ e \in CbTimer /\ e.owner = Me(c) /\ e.wait = timeout
      /\ e.deadline = WrappingAdd(clock[c], timeout)
      /\ Me(c).chip = c /\ Me(c).boot = boot[c]
  BY <1>1, <1>3, <1>4 DEF Entry, CbTimer, Owner, Me
<1> HIDE DEF e
<1>6. /\ timers' \in Seq(CbTimer)
      /\ \A i \in 1 .. Len(timers') :
           timers'[i] = e \/ (i \in 1 .. Len(timers) /\ timers'[i] = timers[i])
  BY <1>2, <1>5, AppendProperties
<1>7. CbTyped' /\ NeverEarly'
  BY <1>6 DEF CbInv, CbTyped, NeverEarly, Start, Me
<1>8. Timely'
  <2> SUFFICES ASSUME NEW d \in Chips, NEW i \in 1 .. Len(timers'),
                      timers'[i].owner = Me(d)', timers'[i].wait > 0
               PROVE  timers'[i].deadline = WrappingAdd(clock'[d], timers'[i].wait)
    BY DEF Timely
  <2>1. clock' = clock /\ Me(d)' = Me(d) /\ Me(d).chip = d
    BY DEF Start, Me
  <2> QED BY <1>5, <1>6, <2>1 DEF CbInv, Timely
<1>9. OnlyBootsSoFar'
  <2>1. boot' = boot
    BY DEF Start
  <2> QED BY <1>3, <1>5, <1>6, <2>1 DEF CbInv, CbTyped, OnlyBootsSoFar
<1> QED BY <1>7, <1>8, <1>9 DEF CbInv

LEMMA StopKeepsTime ==
  ASSUME CbInv, NEW c \in Chips, NEW id \in Ids, Stop(c, id)
  PROVE  CbInv'
<1> DEFINE those == {x \in CbTimer : x.id # id}
<1>1. timers \in Seq(CbTimer) /\ timers' = Selected(timers, those)
  BY DEF CbInv, CbTyped, Stop
<1> HIDE DEF those
<1>2. /\ timers' \in Seq(CbTimer)
      /\ \A i \in 1 .. Len(timers') : \E j \in 1 .. Len(timers) : timers'[i] = timers[j]
  BY <1>1, SelectedKept
<1>3. Timely' /\ OnlyBootsSoFar'
  BY <1>2, FewerTimers DEF Stop
<1>4. CbTyped' /\ NeverEarly'
  BY <1>2 DEF CbInv, CbTyped, NeverEarly, Stop, Me
<1> QED BY <1>3, <1>4 DEF CbInv

\* An update sets the deadline on the clock of the chip that calls it: this is
\* where a chip must have the table for itself.
Alone == \A c, d \in Chips : c = d

LEMMA UpdateKeepsTime ==
  ASSUME CbInv, Alone, NEW c \in Chips, NEW id \in Ids, NEW timeout \in 0 .. MaxTimeout,
         Update(c, id, timeout)
  PROVE  CbInv'
<1> DEFINE at == WrappingAdd(clock[c], timeout)
<1>1. timers \in Seq(CbTimer) /\ at \in Clock
  BY CbClockFacts, CbAdd DEF CbInv, CbTyped
<1>2. timers' = [i \in DOMAIN timers |->
                   IF timers[i].id = id
                     THEN [timers[i] EXCEPT !.deadline = at, !.wait = timeout] ELSE timers[i]]
  BY DEF Update
<1> HIDE DEF at
<1>3. ASSUME NEW i \in 1 .. Len(timers)
      PROVE  /\ timers'[i] \in CbTimer /\ timers'[i].owner = timers[i].owner
             /\ \/ timers'[i].deadline = at /\ timers'[i].wait = timeout
                \/ timers'[i] = timers[i]
  <2>1. timers[i] \in CbTimer
    BY <1>1
  <2>2. CASE timers[i].id = id
    <3> DEFINE y == timers'[i]
               x == timers[i]
    <3>1. y = [x EXCEPT !.deadline = at, !.wait = timeout] /\ x \in CbTimer
      <4>1. i \in DOMAIN timers
        BY <1>1
      <4> QED BY <1>2, <2>1, <2>2, <4>1, Zenon
    <3> HIDE DEF x, y
    <3>2. y \in CbTimer /\ y.owner = x.owner /\ y.deadline = at /\ y.wait = timeout
      BY <1>1, <3>1 DEF CbTimer
    <3> QED BY <3>2 DEF x, y
  <2>3. CASE timers[i].id # id
    <3>1. i \in DOMAIN timers
      BY <1>1
    <3>2. timers'[i] = timers[i]
      BY <1>2, <2>3, <3>1, Zenon
    <3> QED BY <2>1, <3>2
  <2> QED BY <2>2, <2>3
<1>4. timers' \in Seq(CbTimer) /\ Len(timers') = Len(timers)
  <2> DEFINE new(i) == IF timers[i].id = id
                         THEN [timers[i] EXCEPT !.deadline = at, !.wait = timeout] ELSE timers[i]
  <2>1. timers' = [i \in DOMAIN timers |-> new(i)]
    BY <1>2
  <2> HIDE DEF new
  <2>2. DOMAIN timers = 1 .. Len(timers) /\ Len(timers) \in Nat
    BY <1>1
  <2>3. timers' \in [1 .. Len(timers) -> CbTimer]
    BY <1>3, <2>1, <2>2
  <2> QED BY <2>2, <2>3
<1>5. CbTyped' /\ NeverEarly'
  BY <1>4 DEF CbInv, CbTyped, NeverEarly, Update, Me
<1>6. Timely'
  <2> SUFFICES ASSUME NEW d \in Chips, NEW i \in 1 .. Len(timers),
                      timers'[i].owner = Me(d)', timers'[i].wait > 0
               PROVE  timers'[i].deadline = WrappingAdd(clock'[d], timers'[i].wait)
    BY <1>4 DEF Timely
  <2>1. clock' = clock /\ Me(d)' = Me(d) /\ d = c
    BY DEF Update, Me, Alone
  <2> QED BY <1>3, <2>1 DEF CbInv, Timely, at
<1>7. OnlyBootsSoFar'
  BY <1>3, <1>4 DEF CbInv, OnlyBootsSoFar, Update
<1> QED BY <1>5, <1>6, <1>7 DEF CbInv

LEMMA DispatchKeepsTime ==
  ASSUME CbInv, NEW c \in Chips, DispatchDue(c)
  PROVE  CbInv'
<1> DEFINE first == Min(Due(c))
<1>1. first \in Due(c)
  <2>1. Due(c) \in SUBSET Nat /\ Due(c) # {}
    BY DEF CbInv, CbTyped, DispatchDue, Due
  <2>2. \E n \in Due(c) : \A k \in Due(c) : n <= k
    BY <2>1, LeastElement
  <2> QED BY <2>2 DEF Min
<1>2. /\ timers' = RemoveAt(timers, first) /\ timers \in Seq(CbTimer)
      /\ current' = [current EXCEPT ![c] = timers[first]]
      /\ mode' = [mode EXCEPT ![c] = "callback"]
      /\ clock' = clock /\ boot' = boot
  BY DEF DispatchDue, CbInv, CbTyped
<1> HIDE DEF first
<1>3. first \in 1 .. Len(timers) /\ Reached(clock[c], timers[first].deadline)
  BY <1>1, <1>2 DEF Due
<1>4. /\ timers' \in Seq(CbTimer)
      /\ \A i \in 1 .. Len(timers') : \E j \in 1 .. Len(timers) : timers'[i] = timers[j]
  <2>1. /\ timers' \in Seq(CbTimer) /\ Len(timers') = Len(timers) - 1
        /\ \A j \in 1 .. (Len(timers) - 1) :
             timers'[j] = IF j < first THEN timers[j] ELSE timers[j + 1]
    BY ZenonT(30), <1>2, <1>3, EntryLeaves DEF RemoveAt
  <2>2. ASSUME NEW i \in 1 .. Len(timers')
        PROVE  \E j \in 1 .. Len(timers) : timers'[i] = timers[j]
    <3>1. Len(timers) \in Nat /\ i \in 1 .. Len(timers) /\ i + 1 \in 1 .. Len(timers)
      BY <1>2, <2>1
    <3> QED BY <2>1, <3>1
  <2> QED BY <2>1, <2>2
<1>5. Timely' /\ OnlyBootsSoFar'
  BY <1>2, <1>4, FewerTimers
<1>6. timers[first] \in CbTimer
  BY <1>2, <1>3
<1>7. timers[first].owner = Me(c) => timers[first].wait = 0
  <2> SUFFICES ASSUME timers[first].owner = Me(c), timers[first].wait > 0 PROVE FALSE
    BY <1>6 DEF CbTimer
  <2>1. timers[first].deadline = WrappingAdd(clock[c], timers[first].wait)
    BY <1>3 DEF CbInv, Timely
  <2>2. timers[first].wait \in 1 .. HalfClock /\ clock[c] \in Clock
    BY <1>6, CbClockFacts DEF CbTimer, CbInv, CbTyped
  <2> QED BY <1>3, <2>1, <2>2, AheadIsNotReached
<1>8. CbTyped'
  BY <1>2, <1>4, <1>6 DEF CbInv, CbTyped, Modes
<1>9. NeverEarly'
  BY <1>2, <1>7 DEF CbInv, CbTyped, NeverEarly, Me
<1> QED BY <1>5, <1>8, <1>9 DEF CbInv

LEMMA TickKeepsTime ==
  ASSUME CbInv, NEW c \in Chips, Tick(c)
  PROVE  CbInv'
<1>1. /\ timers \in Seq(CbTimer) /\ clock \in [Chips -> Clock]
      /\ clock' = [clock EXCEPT ![c] = WrappingAdd(clock[c], 1)]
      /\ timers' = [i \in DOMAIN timers |->
                      IF timers[i].owner = Me(c) /\ timers[i].wait > 0
                        THEN [timers[i] EXCEPT !.wait = timers[i].wait - 1] ELSE timers[i]]
      /\ mode' = mode /\ current' = current /\ boot' = boot
  BY DEF CbInv, CbTyped, Tick
<1>2. WrappingAdd(clock[c], 1) \in Clock
  BY <1>1, CbClockFacts, CbAdd
<1>3. ASSUME NEW i \in 1 .. Len(timers)
      PROVE  /\ timers[i] \in CbTimer /\ timers'[i] \in CbTimer
             /\ timers'[i].owner = timers[i].owner /\ timers'[i].deadline = timers[i].deadline
             /\ timers'[i].wait = IF timers[i].owner = Me(c) /\ timers[i].wait > 0
                                    THEN timers[i].wait - 1 ELSE timers[i].wait
  <2>1. timers[i] \in CbTimer
    BY <1>1
  <2>2. CASE timers[i].owner = Me(c) /\ timers[i].wait > 0
    <3> DEFINE y == timers'[i]
               x == timers[i]
               w == timers[i].wait - 1
    <3>1. y = [x EXCEPT !.wait = w] /\ x \in CbTimer
      BY <1>1, <2>1, <2>2
    <3>2. w \in 0 .. MaxTimeout
      BY <2>1, <2>2, CbClockFacts DEF CbTimer
    <3> HIDE DEF x, y, w
    <3>3. y \in CbTimer /\ y.owner = x.owner /\ y.deadline = x.deadline /\ y.wait = w
      BY <3>1, <3>2, WaitChanged
    <3> QED BY <2>1, <2>2, <3>3 DEF x, y, w
  <2>3. CASE ~(timers[i].owner = Me(c) /\ timers[i].wait > 0)
    BY <1>1, <2>1, <2>3
  <2> QED BY <2>2, <2>3
<1>4. timers' \in Seq(CbTimer) /\ Len(timers') = Len(timers)
  <2> DEFINE new(i) == IF timers[i].owner = Me(c) /\ timers[i].wait > 0
                         THEN [timers[i] EXCEPT !.wait = timers[i].wait - 1] ELSE timers[i]
  <2>1. timers' = [i \in DOMAIN timers |-> new(i)]
    BY <1>1
  <2> HIDE DEF new
  <2>2. DOMAIN timers = 1 .. Len(timers) /\ Len(timers) \in Nat
    BY <1>1
  <2>3. timers' \in [1 .. Len(timers) -> CbTimer]
    BY <1>3, <2>1, <2>2
  <2> QED BY <2>2, <2>3
<1>5. CbTyped' /\ NeverEarly'
  BY <1>1, <1>2, <1>4 DEF CbInv, CbTyped, NeverEarly, Me
<1>6. Timely'
  <2> SUFFICES ASSUME NEW d \in Chips, NEW i \in 1 .. Len(timers),
                      timers'[i].owner = Me(d)', timers'[i].wait > 0
               PROVE  timers'[i].deadline = WrappingAdd(clock'[d], timers'[i].wait)
    BY <1>4 DEF Timely
  <2>1. Me(d)' = Me(d) /\ Me(d).chip = d /\ Me(c).chip = c
    BY <1>1 DEF Me
  <2>2. CASE d = c
    <3>1. timers[i].owner = Me(c) /\ timers[i].wait > 0 /\ timers'[i].wait = timers[i].wait - 1
      BY <1>3, <2>1, <2>2 DEF CbTimer
    <3>2. timers[i].deadline = WrappingAdd(clock[c], timers[i].wait)
      BY <3>1 DEF CbInv, Timely
    <3>3. timers[i].wait \in 1 .. HalfClock /\ clock[c] \in Clock
      <4>1. timers[i].wait \in 0 .. MaxTimeout
        BY <1>3 DEF CbTimer
      <4>2. clock[c] \in Clock
        BY <1>1
      <4> QED BY <3>1, <4>1, <4>2, CbClockFacts
    <3>4. WrappingAdd(WrappingAdd(clock[c], 1), timers[i].wait - 1)
            = WrappingAdd(clock[c], timers[i].wait)
      BY <3>3, TickKeepsDeadline
    <3> QED BY <1>1, <1>3, <2>2, <3>1, <3>2, <3>4
  <2>3. CASE d # c
    <3>1. timers[i].owner = Me(d) /\ timers[i].owner # Me(c)
      BY <1>3, <2>1, <2>3
    <3>2. timers'[i].wait = timers[i].wait /\ clock'[d] = clock[d]
      BY <1>1, <1>3, <2>3, <3>1
    <3> QED BY <1>3, <3>1, <3>2 DEF CbInv, Timely
  <2> QED BY <2>2, <2>3
<1>7. OnlyBootsSoFar'
  BY <1>1, <1>3, <1>4 DEF CbInv, OnlyBootsSoFar
<1> QED BY <1>5, <1>6, <1>7 DEF CbInv

LEMMA CbResetKeepsTime ==
  ASSUME CbInv, NEW c \in Chips, CbReset(c)
  PROVE  CbInv'
<1>1. PICK at \in {0, clock[c]} : clock' = [clock EXCEPT ![c] = at]
  BY DEF CbReset
<1>2. /\ boot' = [boot EXCEPT ![c] = boot[c] + 1] /\ boot[c] < MaxBoots
      /\ boot \in [Chips -> 0 .. MaxBoots]
      /\ timers' = timers /\ mode' = [mode EXCEPT ![c] = "task"]
      /\ current' = [current EXCEPT ![c] = NoTimer]
      /\ timers \in Seq(CbTimer) /\ clock \in [Chips -> Clock]
  BY DEF CbReset, CbInv, CbTyped
<1>3. at \in Clock
  BY <1>1, <1>2, CbClockFacts DEF Clock
<1>4. CbTyped'
  BY <1>1, <1>2, <1>3, CbClockFacts DEF CbInv, CbTyped, Modes
<1>5. NeverEarly'
  BY <1>2 DEF CbInv, CbTyped, NeverEarly, Me
<1>6. \A i \in 1 .. Len(timers) : timers[i] \in CbTimer /\ timers[i].owner.chip \in Chips
                                  /\ timers[i].owner.boot \in Nat
  <2> TAKE i \in 1 .. Len(timers)
  <2>1. timers[i] \in CbTimer
    BY <1>2
  <2>2. timers[i].owner \in [chip : Chips, boot : 0 .. MaxBoots]
    BY <2>1 DEF CbTimer, Owner
  <2> QED BY <2>1, <2>2, CbClockFacts
<1>7. Timely'
  <2> SUFFICES ASSUME NEW d \in Chips, NEW i \in 1 .. Len(timers),
                      timers[i].owner = Me(d)', timers[i].wait > 0
               PROVE  timers[i].deadline = WrappingAdd(clock'[d], timers[i].wait)
    BY <1>2 DEF Timely
  <2>1. timers[i].owner.chip = d /\ timers[i].owner.boot = boot'[d]
    BY DEF Me
  <2>2. timers[i].owner.boot <= boot[d]
    BY <2>1 DEF CbInv, OnlyBootsSoFar
  <2>3. d # c
    BY <1>2, <2>1, <2>2
  <2>4. Me(d)' = Me(d) /\ clock'[d] = clock[d]
    BY <1>1, <1>2, <2>3 DEF Me
  <2> QED BY <2>4 DEF CbInv, Timely
<1>8. OnlyBootsSoFar'
  BY <1>2, <1>6 DEF CbInv, OnlyBootsSoFar
<1> QED BY <1>4, <1>5, <1>7, <1>8 DEF CbInv

LEMMA CpuKeepsTime ==
  ASSUME CbInv, NEW c \in Chips, Return(c) \/ RunTask(c) \/ Idle(c)
  PROVE  CbInv'
<1>1. /\ UNCHANGED <<timers, clock, boot>>
      /\ current' = current \/ current' = [current EXCEPT ![c] = NoTimer]
      /\ \E m \in Modes \ {"callback"} : mode' = [mode EXCEPT ![c] = m]
  BY DEF Return, RunTask, Idle, Modes
<1>2. CbTyped' /\ NeverEarly'
  BY <1>1 DEF CbInv, CbTyped, NeverEarly, Me
<1>3. Timely' /\ OnlyBootsSoFar'
  BY <1>1 DEF CbInv, Timely, OnlyBootsSoFar, Me
<1> QED BY <1>2, <1>3 DEF CbInv

LEMMA CbStepKeepsTime == CbInv /\ Alone /\ [CbNext]_cbVars => CbInv'
<1> SUFFICES ASSUME CbInv, Alone, [CbNext]_cbVars PROVE CbInv'
  OBVIOUS
<1>1. CASE UNCHANGED cbVars
  BY <1>1 DEF cbVars, CbInv, CbTyped, Timely, OnlyBootsSoFar, NeverEarly, Me
<1>2. ASSUME NEW c \in Chips, NEW timeout \in 0 .. MaxTimeout, Start(c, timeout)
      PROVE  CbInv'
  BY <1>2, StartKeepsTime
<1>3. ASSUME NEW c \in Chips, NEW timeout \in 0 .. MaxTimeout, NEW id \in Ids,
             Update(c, id, timeout)
      PROVE  CbInv'
  BY <1>3, UpdateKeepsTime
<1>4. ASSUME NEW c \in Chips, NEW id \in Ids, Stop(c, id)
      PROVE  CbInv'
  BY <1>4, StopKeepsTime
<1>5. ASSUME NEW c \in Chips,
             DispatchDue(c) \/ Return(c) \/ RunTask(c) \/ Idle(c) \/ Tick(c) \/ CbReset(c)
      PROVE  CbInv'
  BY <1>5, DispatchKeepsTime, CpuKeepsTime, TickKeepsTime, CbResetKeepsTime
<1> QED BY <1>1, <1>2, <1>3, <1>4, <1>5 DEF CbNext

\* No callback of a chip that has the table for itself runs before its timeout
\* has passed: for every clock that wraps, number of timers, of updates and of
\* boots.
THEOREM CallbacksNeverEarly ==
  ASSUME Alone
  PROVE  CbSpec => []NeverEarly
<1>1. CbInit => CbInv
  <2> SUFFICES ASSUME CbInit PROVE CbInv
    OBVIOUS
  <2>1. timers \in Seq(CbTimer) /\ Len(timers) = 0
    BY EmptySeq DEF CbInit
  <2>2. 0 \in Clock /\ 0 \in 0 .. MaxBoots
    BY CbClockFacts DEF Clock
  <2>3. CbTyped
    BY <2>1, <2>2 DEF CbInit, CbTyped, Modes
  <2> QED BY <2>1, <2>3 DEF CbInit, CbInv, Timely, OnlyBootsSoFar, NeverEarly
<1>2. CbInv /\ [CbNext]_cbVars => CbInv'
  BY CbStepKeepsTime
<1>3. CbInv => NeverEarly
  BY DEF CbInv
<1> QED BY <1>1, <1>2, <1>3, PTL DEF CbSpec
=============================================================================
