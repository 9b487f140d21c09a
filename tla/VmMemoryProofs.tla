--------------------------- MODULE VmMemoryProofs ---------------------------
(***************************************************************************)
(* The heap of VmMemory is sound in every reachable state, for all sizes   *)
(* of memory, of blocks and of programs, and whatever the code blocks hold.*)
(***************************************************************************)
EXTENDS VmMemory, VmLemmas

(* The inductive invariant.  The size is at least that of a block, so that *)
(* doubling it makes progress; the roots are numbers because they become   *)
(* the contents of blocks.                                                 *)
MemoryInv ==
  /\ HeapInv(heap, {<<>>}) /\ BytesFreeIsExact(heap)
  /\ heap.end \in Nat /\ MinBlockSize <= heap.end /\ heap.end <= MaxMemory
  /\ roots \in SUBSET Nat
  /\ status \in Statuses /\ fault \in Faults

LEMMA MemoryInvInit == Init => MemoryInv
<1> SUFFICES ASSUME Init PROVE MemoryInv
  OBVIOUS
<1>1. HeapInv(heap, {<<>>}) /\ BytesFreeIsExact(heap)
      /\ heap.end = InitialMemory
  BY VmMemoryAssumption, CreatedInv DEF Init
<1>2. roots \in SUBSET Nat /\ status \in Statuses /\ fault \in Faults
  BY DEF Init, Statuses, Faults
<1> QED BY <1>1, <1>2, VmMemoryAssumption DEF MemoryInv

LEMMA AllocateStep ==
  ASSUME MemoryInv, NEW size \in Nat, size >= 8,
         NEW contents, ContentsType(contents, {<<>>}),
         Allocate(size, contents)
  PROVE  MemoryInv'
<1>1. CASE CanAllocate(heap, size)
  <2> DEFINE a == FirstFit(heap, size)
  <2>1. /\ HeapInv(AllocateBlock(heap, size, contents), {<<>>})
        /\ BytesFreeIsExact(AllocateBlock(heap, size, contents))
        /\ AllocateBlock(heap, size, contents).end = heap.end
        /\ a \in FreeAddrs(heap)
    BY <1>1, AllocateInv, AllocateBytes DEF MemoryInv, Allocates
  <2>2. a \in Nat
    BY <2>1 DEF MemoryInv, HeapInv, HeapType, FreeAddrs
  <2>3. /\ heap' = AllocateBlock(heap, size, contents)
        /\ roots' = roots \cup {a + 8} /\ UNCHANGED <<status, fault>>
    BY <1>1 DEF Allocate, DataAddress, HeaderSize
  <2> HIDE DEF a
  <2> QED BY <2>1, <2>2, <2>3 DEF MemoryInv
<1>2. CASE ~CanAllocate(heap, size)
  BY <1>2 DEF Allocate, MemoryInv, Statuses
<1> QED BY <1>1, <1>2

LEMMA CollectStep ==
  ASSUME MemoryInv, Collect
  PROVE  MemoryInv'
<1>1. heap' \in Collections(heap, roots)
  BY DEF Collect
<1>2. PICK Q : /\ heap' = Sweep(heap, Marked(heap, Q))
               /\ Marked(heap, Q) \in SUBSET InUse(heap)
  BY <1>1, CollectionFacts
<1>3. HeapInv(heap', {<<>>}) /\ BytesFreeIsExact(heap')
      /\ heap'.end = heap.end
  BY <1>2, SweepInv, SweepBytes DEF MemoryInv
<1>4. roots' = roots /\ status' = status /\ fault' \in Faults
  BY DEF Collect, Faults
<1> QED BY <1>3, <1>4 DEF MemoryInv

LEMMA FaultsAreFaults == CollectionFaults(heap, roots) \subseteq Faults
BY DEF CollectionFaults, Faults

LEMMA IncreaseStep ==
  ASSUME MemoryInv, IncreaseSize
  PROVE  MemoryInv'
<1> DEFINE s == NextSize(heap.end)
<1>1. heap.end < MaxMemory => s \in Nat /\ heap.end < s /\ s <= MaxMemory
  BY MaxMemoryAssumption DEF NextSize, MemoryInv, MinBlockSize
<1>2. CASE /\ heap.end < MaxMemory /\ ~GrowthTooSmall(heap, s)
           /\ heap' = GrowTo(heap, s) /\ status' = "ok"
           /\ UNCHANGED <<roots, fault>>
  <2> HIDE DEF s
  <2>1. HeapInv(heap', {<<>>}) /\ BytesFreeIsExact(heap') /\ heap'.end = s
    BY <1>1, <1>2, GrowInv, GrowBytes DEF MemoryInv
  <2>2. s \in Nat /\ MinBlockSize <= s /\ s <= MaxMemory
    BY <1>1, <1>2 DEF MemoryInv, MinBlockSize
  <2>3. status' \in Statuses /\ fault' = fault /\ roots' = roots
    BY <1>2 DEF Statuses
  <2> QED BY <2>1, <2>2, <2>3 DEF MemoryInv
<1>3. CASE UNCHANGED <<heap, roots, fault>> /\ status' \in Statuses
  BY <1>3 DEF MemoryInv
<1>4. heap.end >= MaxMemory \/ heap.end < MaxMemory
  BY MaxMemoryAssumption DEF MemoryInv
<1> QED
  <2> HIDE DEF s
  <2> QED BY <1>2, <1>3, <1>4 DEF IncreaseSize, Statuses, s

LEMMA ReserveStep ==
  ASSUME MemoryInv, NEW size \in ProgramSizes, Reserve(size)
  PROVE  MemoryInv'
<1>1. PICK r \in ReserveResults(heap, size) :
             heap' = r.heap /\ status' = r.status
  BY DEF Reserve
<1>2. size \in Nat /\ HeapInv(heap, {<<>>}) /\ heap.end <= MaxMemory
  BY VmMemoryAssumption DEF MemoryInv
<1>3. /\ HeapInv(heap', {<<>>}) /\ BytesFreeIsExact(heap')
      /\ heap.end <= heap'.end /\ heap'.end <= MaxMemory
      /\ status' \in Statuses
  BY <1>1, <1>2, ReserveFacts DEF MemoryInv, Statuses
<1>4. heap'.end \in Nat /\ MinBlockSize <= heap'.end
  BY <1>3 DEF MemoryInv, HeapInv, HeapType, MinBlockSize
<1>5. roots' = roots /\ fault' = fault
  BY DEF Reserve
<1> QED BY <1>3, <1>4, <1>5 DEF MemoryInv

LEMMA StateSizeFacts ==
  ASSUME NEW cs \in 0 .. MaxFrames, NEW es \in 0 .. MaxAddresses
  PROVE  16 * cs + 8 * es + 16 \in Nat /\ 16 * cs + 8 * es + 16 >= 8
<1>1. cs \in Nat /\ es \in Nat
  BY VmMemoryAssumption
<1> QED BY <1>1

LEMMA MemoryInvNext == MemoryInv /\ [Next]_vars => MemoryInv'
<1> SUFFICES ASSUME MemoryInv, [Next]_vars PROVE MemoryInv'
  OBVIOUS
<1>1. ASSUME NEW size \in CodeSizes, NEW refs \in Contents,
             AllocateCodeBlock(size, refs)
      PROVE  MemoryInv'
  <2> DEFINE c == CodeContents(size, refs, <<>>)
  <2>1. /\ size \in Nat /\ size >= 1
        /\ AlignTo8(size) \in Nat /\ AlignTo8(size) >= 8
        /\ AlignTo8(size) - size \in Nat
    BY VmMemoryAssumption DEF AlignTo8
  <2>2. refs \in SUBSET Nat
    BY DEF Contents, MemoryInv
  <2>3. ContentsType(c, {<<>>})
    BY <2>1, <2>2 DEF ContentsType, CodeContents
  <2> HIDE DEF c
  <2>4. Allocate(AlignTo8(size), c)
    BY <1>1 DEF AllocateCodeBlock, CodeBlockSize, c
  <2> QED BY <2>1, <2>3, <2>4, AllocateStep
<1>2. ASSUME NEW cs \in 0 .. MaxFrames, NEW es \in 0 .. MaxAddresses,
             NEW refs \in Contents, AllocateStateBlock(cs, es, refs)
      PROVE  MemoryInv'
  <2> DEFINE c == StateContents(refs, <<>>)
             size == 16 * cs + 8 * es + 16
  <2>1. size \in Nat /\ size >= 8
    BY StateSizeFacts
  <2>2. refs \in SUBSET Nat
    BY DEF Contents, MemoryInv
  <2>3. ContentsType(c, {<<>>})
    BY <2>2 DEF ContentsType, StateContents
  <2>4. Allocate(size, c)
    BY <1>2 DEF AllocateStateBlock, StateBlockSize
  <2> HIDE DEF c, size
  <2> QED BY <2>1, <2>3, <2>4, AllocateStep
<1>3. ASSUME NEW r \in roots, DropRoot(r) PROVE MemoryInv'
  BY <1>3 DEF DropRoot, MemoryInv
<1>4. ASSUME NEW r \in roots, LoadOperand(r) \/ RestoreRoots(r) PROVE MemoryInv'
  <2>1. r - HeaderSize \in InUse(heap)
    BY <1>4 DEF LoadOperand, RestoreRoots, IsCodeAddress
  <2>2. r - HeaderSize \in DOMAIN heap.blocks
    BY <2>1 DEF InUse
  <2>3. heap.blocks[r - HeaderSize] \in BlockRecord({<<>>})
    BY <2>2 DEF MemoryInv, HeapInv, HeapType
  <2>4. heap.blocks[r - HeaderSize].refs \in SUBSET Nat
    BY <2>3 DEF BlockRecord
  <2>5. roots' \in SUBSET Nat
    BY <1>4, <2>4 DEF LoadOperand, RestoreRoots, MemoryInv
  <2> QED BY <1>4, <2>5 DEF LoadOperand, RestoreRoots, MemoryInv
<1>5. ASSUME Collect PROVE MemoryInv'
  BY <1>5, CollectStep
<1>6. ASSUME CollectFaults PROVE MemoryInv'
  BY <1>6, FaultsAreFaults DEF CollectFaults, MemoryInv
<1>7. ASSUME ReserveFaults PROVE MemoryInv'
  BY <1>7 DEF ReserveFaults, MemoryInv, Faults
<1>8. ASSUME IncreaseSize PROVE MemoryInv'
  BY <1>8, IncreaseStep
<1>9. ASSUME IncreaseFaults PROVE MemoryInv'
  BY <1>9 DEF IncreaseFaults, MemoryInv, Faults
<1>10. ASSUME NEW size \in ProgramSizes, Reserve(size) PROVE MemoryInv'
  BY <1>10, ReserveStep
<1>11. CASE UNCHANGED vars
  BY <1>11 DEF vars, MemoryInv
<1> QED BY <1>1, <1>2, <1>3, <1>4, <1>5, <1>6, <1>7, <1>8, <1>9, <1>10, <1>11
    DEF Next

LEMMA MemoryInvariance == Spec => []MemoryInv
BY MemoryInvInit, MemoryInvNext, PTL DEF Spec

(* Every variable keeps its type: no block size, link or counter of the heap
   ever leaves the natural numbers, and the memory stays within its limits. *)
THEOREM TypeTheorem == Spec => []TypeOK
<1>1. MemoryInv => TypeOK
  BY MaxMemoryAssumption
  DEF MemoryInv, HeapInv, TypeOK, MinBlockSize
<1> QED BY <1>1, MemoryInvariance, PTL

(* In every reachable state the blocks tile the heap: a walk through the
   block headers, the collector's or nextHeapBlockInVmm's, never leaves it. *)
THEOREM TilingTheorem == Spec => []HeapTiled
<1>1. MemoryInv => HeapTiled
  BY DEF MemoryInv, HeapInv, HeapIsSound, HeapTiled
<1> QED BY <1>1, MemoryInvariance, PTL

(* The links that allocation, growth and collection patch always run through
   all free blocks in address order. *)
THEOREM FreeListTheorem == Spec => []FreeListSorted
<1>1. MemoryInv => FreeListSorted
  BY DEF MemoryInv, HeapInv, HeapIsSound, FreeListSorted
<1> QED BY <1>1, MemoryInvariance, PTL

(* Two free blocks are never adjacent: no free memory is lost to
   fragmentation at a block boundary. *)
THEOREM CoalescingTheorem == Spec => []FreeBlocksApart
<1>1. MemoryInv => FreeBlocksApart
  BY DEF MemoryInv, HeapInv, HeapIsSound, FreeBlocksApart
<1> QED BY <1>1, MemoryInvariance, PTL

(* No routine makes a block without room for a free-list link, which the
   collector may later have to write into it. *)
THEOREM LinkRoomTheorem == Spec => []BlocksHoldLink
<1>1. MemoryInv => BlocksHoldLink
  BY DEF MemoryInv, HeapInv, HeapIsSound, BlocksHoldLink
<1> QED BY <1>1, MemoryInvariance, PTL

(* memory->bytesFree, which every routine updates by increments of its own,
   never drifts from the sum over the free list that it caches. *)
THEOREM BytesTheorem == Spec => []BytesFreeExact
<1>1. MemoryInv => BytesFreeExact
  BY DEF MemoryInv, BytesFreeExact
<1> QED BY <1>1, MemoryInvariance, PTL

-----------------------------------------------------------------------------
(***************************************************************************)
(* Reachability.  As long as no code block holds the address of a state    *)
(* block, no block in use refers to freed memory, garbage included, which  *)
(* the collector may come upon; so the marks are all that is reachable.    *)
(***************************************************************************)
ClosedInv ==
  /\ HeadersOf(heap, roots) \subseteq InUse(heap)
  /\ \A a \in InUse(heap) :
       /\ HeadersOf(heap, heap.blocks[a].refs) \subseteq InUse(heap)
       /\ heap.blocks[a].kind = "code" =>
            \A b \in HeadersOf(heap, heap.blocks[a].refs) :
              heap.blocks[b].kind = "code"

LiveInv == IsLive(heap, roots) /\ CodeIsClosed(heap, roots)

LEMMA ClosedIsLive == ClosedInv => LiveInv
BY ReachableFacts DEF ClosedInv, LiveInv, IsLive, CodeIsClosed

(* What an action does to the heap, for the proofs that follow: it makes a *)
(* block of addresses among the roots ...                                  *)
Makes(n) ==
  /\ n \notin InUse(heap) /\ InUse(heap') = InUse(heap) \cup {n}
  /\ heap'.start = heap.start
  /\ \A a \in InUse(heap) : heap'.blocks[a] = heap.blocks[a]
  /\ heap'.blocks[n].refs \subseteq roots
  /\ \/ CodeRefersToState
     \/ heap'.blocks[n].kind # "code"
     \/ \A r \in heap'.blocks[n].refs : IsCodeAddress(r)
  /\ roots' = roots \cup {DataAddress(n)}

(* ... or keeps what is marked, and what follows from whatever it keeps ... *)
Reclaims ==
  /\ InUse(heap') \subseteq InUse(heap)
  /\ \A a \in InUse(heap') : Visits(heap, a) \subseteq InUse(heap')
  /\ heap'.start = heap.start
  /\ \A a \in InUse(heap') : heap'.blocks[a] = heap.blocks[a]
  /\ Marked(heap, roots) \subseteq InUse(heap')
  /\ roots' = roots

(* ... or starts anew, for a client without roots ...                      *)
Restarts ==
  /\ roots = {} /\ roots' = {}
  /\ InUse(heap') = {} \/ KeepsInUse(heap, heap')

(* ... or changes the roots, to addresses that are reachable.              *)
Accesses ==
  /\ heap' = heap
  /\ \A r \in roots' : \/ r \in roots
                      \/ \E q \in roots : /\ q - HeaderSize \in InUse(heap)
                                          /\ r \in heap.blocks[q - HeaderSize].refs

LEMMA AllocateMakes ==
  ASSUME MemoryInv, NEW size \in Nat, size >= 8,
         NEW contents, ContentsType(contents, {<<>>}),
         contents.refs \subseteq roots,
         \/ CodeRefersToState \/ contents.kind # "code"
         \/ \A r \in contents.refs : IsCodeAddress(r),
         Allocate(size, contents)
  PROVE  (\E n : Makes(n)) \/ Accesses
<1>1. CASE CanAllocate(heap, size)
  <2> DEFINE n == FirstFit(heap, size)
             g == AllocateBlock(heap, size, contents)
  <2>1. Allocates(heap, g, n, size, contents)
    BY <1>1, AllocateInv DEF MemoryInv
  <2>2. heap' = g /\ roots' = roots \cup {DataAddress(n)}
    BY <1>1 DEF Allocate
  <2>3. n \notin InUse(heap)
    BY <2>1 DEF Allocates
  <2> HIDE DEF n, g
  <2>4. Makes(n)
    BY <2>1, <2>2, <2>3 DEF Makes, Allocates
  <2> QED BY <2>4
<1>2. CASE ~CanAllocate(heap, size)
  BY <1>2 DEF Allocate, Accesses
<1> QED BY <1>1, <1>2

LEMMA CollectReclaims ==
  ASSUME MemoryInv, Collect
  PROVE  Reclaims
<1>1. heap' \in Collections(heap, roots) /\ roots' = roots
  BY DEF Collect
<1>2. PICK Q : /\ heap' = Sweep(heap, Marked(heap, Q))
               /\ Marked(heap, Q) \in SUBSET InUse(heap)
               /\ Marked(heap, roots) \subseteq Marked(heap, Q)
               /\ IsMarkClosed(heap, Q, Marked(heap, Q))
  BY <1>1, CollectionFacts
<1> DEFINE kept == Marked(heap, Q)
<1>3. \A a \in kept : Visits(heap, a) \subseteq kept
  BY <1>2 DEF IsMarkClosed
<1> HIDE DEF kept
<1>4. /\ InUse(heap') = kept /\ heap'.start = heap.start
      /\ \A a \in kept : heap'.blocks[a] = heap.blocks[a]
  <2>1. kept \subseteq InUse(heap) /\ heap' = Sweep(heap, kept)
    BY <1>2 DEF kept
  <2> QED BY <2>1, SweptBlocks DEF MemoryInv
<1>5. kept \subseteq InUse(heap) /\ Marked(heap, roots) \subseteq kept
  BY <1>2 DEF kept
<1> QED BY <1>1, <1>3, <1>4, <1>5 DEF Reclaims

LEMMA KeepingReclaims ==
  ASSUME KeepsInUse(heap, heap'), roots' = roots
  PROVE  Reclaims
<1>1. Marked(heap, roots) \subseteq InUse(heap)
  BY MarkedFacts
<1>2. \A a \in InUse(heap) : Visits(heap, a) \subseteq InUse(heap)
  BY DEF Visits
<1> QED BY <1>1, <1>2 DEF Reclaims, KeepsInUse

LEMMA ReserveRestarts ==
  ASSUME MemoryInv, NEW size \in ProgramSizes, Reserve(size)
  PROVE  Restarts
<1>1. roots = {} /\ roots' = {}
  BY DEF Reserve
<1>2. PICK r \in ReserveResults(heap, size) : heap' = r.heap
  BY DEF Reserve
<1>3. size \in Nat /\ HeapInv(heap, {<<>>}) /\ heap.end <= MaxMemory
  BY VmMemoryAssumption DEF MemoryInv
<1>4. InUse(r.heap) = {} \/ KeepsInUse(heap, r.heap)
  BY <1>3, ReserveFacts
<1> QED BY <1>1, <1>2, <1>4 DEF Restarts

(* Every step is one of the four. *)
LEMMA StepKinds ==
  ASSUME MemoryInv, Next
  PROVE  (\E n : Makes(n)) \/ Reclaims \/ Restarts \/ Accesses
<1>1. ASSUME NEW size \in CodeSizes, NEW refs \in Contents,
             AllocateCodeBlock(size, refs)
      PROVE  (\E n : Makes(n)) \/ Accesses
  <2> DEFINE c == CodeContents(size, refs, <<>>)
  <2>1. /\ size \in Nat /\ size >= 1
        /\ AlignTo8(size) \in Nat /\ AlignTo8(size) >= 8
        /\ AlignTo8(size) - size \in Nat
    BY VmMemoryAssumption DEF AlignTo8
  <2>2. refs \in SUBSET Nat /\ refs \subseteq roots
    BY DEF Contents, MemoryInv
  <2>3. ContentsType(c, {<<>>}) /\ c.refs = refs
    BY <2>1, <2>2 DEF ContentsType, CodeContents
  <2>4. CodeRefersToState \/ \A r \in c.refs : IsCodeAddress(r)
    BY <1>1, <2>3 DEF AllocateCodeBlock
  <2>5. Allocate(AlignTo8(size), c)
    BY <1>1 DEF AllocateCodeBlock, CodeBlockSize
  <2> HIDE DEF c
  <2> QED BY <2>1, <2>2, <2>3, <2>4, <2>5, AllocateMakes
<1>2. ASSUME NEW cs \in 0 .. MaxFrames, NEW es \in 0 .. MaxAddresses,
             NEW refs \in Contents, AllocateStateBlock(cs, es, refs)
      PROVE  (\E n : Makes(n)) \/ Accesses
  <2> DEFINE c == StateContents(refs, <<>>)
             size == 16 * cs + 8 * es + 16
  <2>1. size \in Nat /\ size >= 8
    BY StateSizeFacts
  <2>2. refs \in SUBSET Nat /\ refs \subseteq roots
    BY DEF Contents, MemoryInv
  <2>3. ContentsType(c, {<<>>}) /\ c.refs = refs /\ c.kind # "code"
    BY <2>2 DEF ContentsType, StateContents
  <2>4. Allocate(size, c)
    BY <1>2 DEF AllocateStateBlock, StateBlockSize
  <2> HIDE DEF c, size
  <2> QED BY <2>1, <2>2, <2>3, <2>4, AllocateMakes
<1>3. ASSUME NEW r \in roots, DropRoot(r) PROVE Accesses
  BY <1>3 DEF DropRoot, Accesses
<1>4. ASSUME NEW r \in roots, LoadOperand(r) \/ RestoreRoots(r) PROVE Accesses
  BY <1>4 DEF LoadOperand, RestoreRoots, IsCodeAddress, Accesses
<1>5. ASSUME Collect PROVE Reclaims
  BY <1>5, CollectReclaims
<1>6. ASSUME CollectFaults \/ IncreaseFaults \/ ReserveFaults PROVE Accesses
  BY <1>6 DEF CollectFaults, IncreaseFaults, ReserveFaults, Accesses
<1>7. ASSUME IncreaseSize PROVE Reclaims \/ Accesses
  <2> DEFINE s == NextSize(heap.end)
  <2>1. heap.end < MaxMemory => s \in Nat /\ heap.end < s
    BY MaxMemoryAssumption DEF NextSize, MemoryInv, MinBlockSize
  <2>2. CASE /\ heap.end < MaxMemory /\ ~GrowthTooSmall(heap, s)
             /\ heap' = GrowTo(heap, s) /\ roots' = roots
    <3> HIDE DEF s
    <3>1. KeepsInUse(heap, heap')
      BY <2>1, <2>2, GrowInv DEF MemoryInv
    <3> QED BY <2>2, <3>1, KeepingReclaims
  <2>3. CASE heap' = heap /\ roots' = roots
    BY <2>3 DEF Accesses
  <2>4. heap.end >= MaxMemory \/ heap.end < MaxMemory
    BY MaxMemoryAssumption DEF MemoryInv
  <2> HIDE DEF s
  <2> QED BY <1>7, <2>2, <2>3, <2>4 DEF IncreaseSize, s
<1>8. ASSUME NEW size \in ProgramSizes, Reserve(size) PROVE Restarts
  BY <1>8, ReserveRestarts
<1> QED BY <1>1, <1>2, <1>3, <1>4, <1>5, <1>6, <1>7, <1>8 DEF Next

(* An address the client holds, or finds in a block it holds, is reachable. *)
LEMMA HeldIsReachable ==
  ASSUME MemoryInv, LiveInv
  PROVE  /\ HeadersOf(heap, roots) \subseteq Reachable(heap, roots)
         /\ \A q \in roots : q - HeaderSize \in InUse(heap)
              => q - HeaderSize \in Reachable(heap, roots)
         /\ \A a \in Reachable(heap, roots) :
              HeadersOf(heap, heap.blocks[a].refs) \subseteq Reachable(heap, roots)
<1>1. HeadersOf(heap, roots) \subseteq Reachable(heap, roots)
  BY ReachableFacts DEF LiveInv, IsLive, IsReachClosed
<1>2. ASSUME NEW q \in roots, q - HeaderSize \in InUse(heap)
      PROVE  q - HeaderSize \in Reachable(heap, roots)
  <2>1. q - HeaderSize \in DOMAIN heap.blocks
    BY <1>2 DEF InUse
  <2>2. heap.start <= q - HeaderSize /\ heap.start \in Nat
    BY <2>1, BlockFacts DEF MemoryInv
  <2>3. q \in Nat /\ heap.start <= q
    BY <2>2 DEF MemoryInv, HeaderSize
  <2> QED BY <1>1, <2>3 DEF HeadersOf
<1>3. ASSUME NEW a \in Reachable(heap, roots)
      PROVE  HeadersOf(heap, heap.blocks[a].refs) \subseteq Reachable(heap, roots)
  <2>1. HeadersOf(heap, heap.blocks[a].refs) \subseteq InUse(heap)
    BY DEF LiveInv, IsLive
  <2> QED BY <2>1, ReachableFacts DEF IsReachClosed
<1> QED BY <1>1, <1>2, <1>3

LEMMA MakesKeepsClosed ==
  ASSUME ~CodeRefersToState, MemoryInv, ClosedInv, NEW n, n \in Nat, Makes(n)
  PROVE  ClosedInv'
<1> DEFINE held == heap'.blocks[n].refs
<1>1. /\ heap'.start = heap.start /\ InUse(heap') = InUse(heap) \cup {n}
      /\ n \notin InUse(heap)
      /\ \A a \in InUse(heap) : heap'.blocks[a] = heap.blocks[a]
  BY DEF Makes
<1>2. HeadersOf(heap', held) \subseteq InUse(heap)
  <2>1. HeadersOf(heap', held) \subseteq HeadersOf(heap, roots)
    BY <1>1 DEF Makes, HeadersOf
  <2> QED BY <2>1 DEF ClosedInv
<1>3. HeadersOf(heap', roots') \subseteq InUse(heap')
  <2>1. HeadersOf(heap', roots') \subseteq HeadersOf(heap, roots) \cup {n}
    BY <1>1 DEF Makes, HeadersOf, DataAddress, HeaderSize
  <2> QED BY <1>1, <2>1 DEF ClosedInv
<1>4. ASSUME heap'.blocks[n].kind = "code", NEW b \in HeadersOf(heap', held)
      PROVE  heap'.blocks[b].kind = "code"
  <2>1. \A r \in held : heap.blocks[r - HeaderSize].kind = "code"
    BY <1>4 DEF Makes, IsCodeAddress
  <2>2. PICK r \in held : b = r - HeaderSize
    BY DEF HeadersOf
  <2> QED BY <1>1, <1>2, <2>1, <2>2
<1>5. ASSUME NEW a \in InUse(heap)
      PROVE  /\ HeadersOf(heap', heap'.blocks[a].refs) \subseteq InUse(heap)
             /\ heap'.blocks[a].kind = "code" =>
                  \A b \in HeadersOf(heap', heap'.blocks[a].refs) :
                    heap'.blocks[b].kind = "code"
  <2>1. /\ heap'.blocks[a] = heap.blocks[a]
        /\ HeadersOf(heap', heap'.blocks[a].refs)
             = HeadersOf(heap, heap.blocks[a].refs)
    BY <1>1 DEF HeadersOf
  <2> QED BY <1>1, <2>1 DEF ClosedInv
<1> HIDE DEF held
<1> QED BY <1>1, <1>2, <1>3, <1>4, <1>5 DEF ClosedInv, held

LEMMA ReclaimsKeepsClosed ==
  ASSUME ClosedInv, Reclaims
  PROVE  ClosedInv'
<1>1. /\ InUse(heap') \subseteq InUse(heap)
      /\ heap'.start = heap.start /\ roots' = roots
      /\ \A a \in InUse(heap') : heap'.blocks[a] = heap.blocks[a]
  BY DEF Reclaims
<1>2. HeadersOf(heap', roots') \subseteq InUse(heap')
  <2>1. HeadersOf(heap', roots') = HeadersOf(heap, roots)
    BY <1>1 DEF HeadersOf
  <2>2. HeadersOf(heap, roots) \subseteq Marked(heap, roots)
    BY MarkedFacts DEF IsMarkClosed, ClosedInv
  <2> QED BY <2>1, <2>2 DEF Reclaims
<1>3. ASSUME NEW a \in InUse(heap')
      PROVE  /\ HeadersOf(heap', heap'.blocks[a].refs) \subseteq InUse(heap')
             /\ heap'.blocks[a].kind = "code" =>
                  \A b \in HeadersOf(heap', heap'.blocks[a].refs) :
                    heap'.blocks[b].kind = "code"
  <2> DEFINE T == HeadersOf(heap, heap.blocks[a].refs)
  <2>1. heap'.blocks[a] = heap.blocks[a] /\ a \in InUse(heap)
        /\ HeadersOf(heap', heap'.blocks[a].refs) = T
    BY <1>1 DEF HeadersOf
  <2>2. T \subseteq InUse(heap)
        /\ (heap.blocks[a].kind = "code" =>
              \A b \in T : heap.blocks[b].kind = "code")
    BY <2>1 DEF ClosedInv
  <2>3. T \subseteq Visits(heap, a)
    BY <2>2 DEF Visits
  <2>4. T \subseteq InUse(heap')
    BY <2>3 DEF Reclaims
  <2> HIDE DEF T
  <2> QED BY <1>1, <2>1, <2>2, <2>4
<1> QED BY <1>2, <1>3 DEF ClosedInv

LEMMA RestartsKeepsClosed ==
  ASSUME ClosedInv, Restarts
  PROVE  ClosedInv'
<1>1. HeadersOf(heap', roots') = {}
  BY DEF Restarts, HeadersOf
<1>2. CASE InUse(heap') = {}
  BY <1>1, <1>2 DEF ClosedInv
<1>3. CASE KeepsInUse(heap, heap')
  BY <1>3, KeepingReclaims, ReclaimsKeepsClosed DEF Restarts
<1> QED BY <1>2, <1>3 DEF Restarts

(* Whatever the step, what was reachable before it is still in use after. *)
LEMMA StepsKeepReachable ==
  ASSUME LiveInv,
         (\E n : Makes(n)) \/ Reclaims \/ Restarts \/ Accesses
  PROVE  \A a \in Reachable(heap, roots) :
           a \in InUse(heap') /\ heap'.blocks[a] = heap.blocks[a]
<1>1. Reachable(heap, roots) \subseteq InUse(heap)
  BY ReachableFacts
<1>2. CASE \E n : Makes(n)
  BY <1>1, <1>2 DEF Makes
<1>3. CASE Reclaims
  <2>1. Reachable(heap, roots) \subseteq Marked(heap, roots)
    BY ReachableIsMarked DEF LiveInv
  <2> QED BY <1>3, <2>1 DEF Reclaims
<1>4. CASE Restarts
  <2>1. HeadersOf(heap, roots) = {}
    BY <1>4 DEF Restarts, HeadersOf
  <2>2. IsReachClosed(heap, roots, {})
    BY <2>1 DEF IsReachClosed
  <2>3. Reachable(heap, roots) = {}
    BY <2>2, ReachableFacts
  <2> QED BY <2>3
<1>5. CASE Accesses
  BY <1>1, <1>5 DEF Accesses
<1> QED BY <1>2, <1>3, <1>4, <1>5

LEMMA ClosedInvNext ==
  ASSUME ~CodeRefersToState
  PROVE  MemoryInv /\ MemoryInv' /\ ClosedInv /\ [Next]_vars => ClosedInv'
<1> SUFFICES ASSUME MemoryInv, MemoryInv', ClosedInv, [Next]_vars
             PROVE  ClosedInv'
  OBVIOUS
<1>1. CASE UNCHANGED vars
  BY <1>1 DEF vars, ClosedInv
<1>2. CASE \E n : Makes(n)
  <2>1. PICK n : Makes(n)
    BY <1>2
  <2>2. n \in Nat
    <3>1. n \in DOMAIN heap'.blocks
      BY <2>1 DEF Makes, InUse
    <3> QED BY <3>1 DEF MemoryInv, HeapInv, HeapType
  <2> QED BY <2>1, <2>2, MakesKeepsClosed
<1>3. CASE Reclaims
  BY <1>3, ReclaimsKeepsClosed
<1>4. CASE Restarts
  BY <1>4, RestartsKeepsClosed
<1>5. CASE Accesses
  <2>1. HeadersOf(heap, roots') \subseteq InUse(heap)
    <3> SUFFICES ASSUME NEW r \in roots', r >= heap.start
                 PROVE  r - HeaderSize \in InUse(heap)
      BY DEF HeadersOf
    <3>1. CASE r \in roots
      BY <3>1 DEF HeadersOf, ClosedInv
    <3>2. ASSUME NEW q \in roots, q - HeaderSize \in InUse(heap),
                 r \in heap.blocks[q - HeaderSize].refs
          PROVE  r - HeaderSize \in InUse(heap)
      <4>1. r - HeaderSize \in HeadersOf(heap, heap.blocks[q - HeaderSize].refs)
        BY <3>2 DEF HeadersOf
      <4> QED BY <3>2, <4>1 DEF ClosedInv
    <3> QED BY <1>5, <3>1, <3>2 DEF Accesses
  <2> QED BY <1>5, <2>1 DEF ClosedInv, Accesses
<1> QED BY <1>1, <1>2, <1>3, <1>4, <1>5, StepKinds

LEMMA ClosedInvariance ==
  ASSUME ~CodeRefersToState
  PROVE  Spec => []ClosedInv
<1>1. Init => ClosedInv
  <2> SUFFICES ASSUME Init PROVE ClosedInv
    OBVIOUS
  <2>1. InUse(heap) = {} /\ HeadersOf(heap, roots) = {}
    BY VmMemoryAssumption, CreatedInv DEF Init, HeadersOf
  <2> QED BY <2>1 DEF ClosedInv
<1>2. MemoryInv /\ MemoryInv' /\ ClosedInv /\ [Next]_vars => ClosedInv'
  BY ClosedInvNext
<1> QED BY <1>1, <1>2, MemoryInvariance, PTL DEF Spec

(* Until a step is undefined, no address on the stacks or in a block that can
   be reached from them is the address of freed memory, as long as no code
   block holds the address of a state block: the collector frees only what
   nothing refers to, and allocation hands out no block twice. *)
THEOREM NoDanglingTheorem ==
  ASSUME ~CodeRefersToState
  PROVE  Spec => []NoDanglingAddress
<1>1. ClosedInv => NoDanglingAddress
  BY ClosedIsLive DEF LiveInv, IsLive, NoDanglingAddress
<1> QED BY <1>1, ClosedInvariance, PTL

(* Under the same assumption no call that the code defines frees or alters a
   block that can be reached: allocation, growth and collection leave its
   contents alone, whatever garbage the collector keeps in addition. *)
THEOREM KeepsReachableTheorem ==
  ASSUME ~CodeRefersToState
  PROVE  Spec => KeepsReachable
<1>1. MemoryInv /\ ClosedInv /\ [Next]_vars
        => [fault' = "none" =>
              \A a \in Reachable(heap, roots) :
                a \in InUse(heap') /\ heap'.blocks[a] = heap.blocks[a]]_vars
  BY ClosedIsLive, StepKinds, StepsKeepReachable
<1> QED BY <1>1, MemoryInvariance, ClosedInvariance, PTL DEF Spec, KeepsReachable

(* Under the same assumption the collector never reads a block header where
   no block begins, on account of an address in a block: not even when the
   slack of a block leads it to garbage that an earlier collection kept. *)
THEOREM StaysInBlocksTheorem ==
  ASSUME ~CodeRefersToState
  PROVE  Spec => []CollectorStaysInBlocks
<1>1. Init => CollectorStaysInBlocks
  BY DEF Init, CollectorStaysInBlocks
<1>2. ASSUME MemoryInv, ClosedInv, NEW R \in CollectorRoots(heap, roots)
      PROVE  ~VisitsStrayAddress(heap, R)
  <2>1. InUse(heap) \subseteq DOMAIN heap.blocks
    BY DEF InUse
  <2>2. R \subseteq roots \cup {DataAddress(a) : a \in CodeBlocks(heap)}
    BY <1>2 DEF CollectorRoots
  <2>3. HeadersOf(heap, R) \subseteq InUse(heap)
    <3> SUFFICES ASSUME NEW r \in R, r >= heap.start
                 PROVE  r - HeaderSize \in InUse(heap)
      BY DEF HeadersOf
    <3>1. CASE r \in roots
      BY <1>2, <3>1 DEF HeadersOf, ClosedInv
    <3>2. ASSUME NEW a \in CodeBlocks(heap), r = DataAddress(a)
          PROVE  r - HeaderSize \in InUse(heap)
      <4>1. a \in InUse(heap) /\ a \in DOMAIN heap.blocks
        BY <2>1 DEF CodeBlocks
      <4>2. a \in Nat
        BY <1>2, <4>1, BlockFacts DEF MemoryInv
      <4>3. r - HeaderSize = a
        BY <3>2, <4>2 DEF DataAddress, HeaderSize
      <4> QED BY <4>1, <4>3
    <3> QED BY <2>2, <3>1, <3>2
  <2>4. \A a \in Marked(heap, R) :
          HeadersOf(heap, heap.blocks[a].refs) \subseteq InUse(heap)
    BY <1>2, MarkedFacts DEF ClosedInv
  <2> QED BY <2>1, <2>3, <2>4 DEF VisitsStrayAddress
<1>3. ASSUME MemoryInv, ClosedInv, CollectFaults
      PROVE  fault' # "strayAddress"
  BY <1>2, <1>3 DEF CollectFaults, CollectionFaults
<1>4. MemoryInv /\ ClosedInv /\ CollectorStaysInBlocks /\ [Next]_vars
        => CollectorStaysInBlocks'
  <2> SUFFICES ASSUME MemoryInv, ClosedInv, CollectorStaysInBlocks, [Next]_vars
               PROVE  CollectorStaysInBlocks'
    OBVIOUS
  <2>1. CASE UNCHANGED vars
    BY <2>1 DEF vars, CollectorStaysInBlocks
  <2>2. CASE CollectFaults
    BY <1>3, <2>2 DEF CollectorStaysInBlocks
  <2>3. CASE Next /\ ~CollectFaults
    BY <2>3 DEF Next, AllocateCodeBlock, AllocateStateBlock, Allocate, DropRoot,
       LoadOperand, RestoreRoots, Collect, IncreaseSize, IncreaseFaults,
       Reserve, ReserveFaults, CollectorStaysInBlocks
  <2> QED BY <2>1, <2>2, <2>3
<1> QED BY <1>1, <1>4, MemoryInvariance, ClosedInvariance, PTL DEF Spec

-----------------------------------------------------------------------------
(***************************************************************************)
(* The memory implements the store.                                        *)
(***************************************************************************)
Objects == [a \in InUse(heap) |-> heap.blocks[a]]

(* What the store calls reachable is what HeapOps calls so. *)
LEMMA ReachableAgree ==
  ASSUME MemoryInv
  PROVE  Store!ReachableFrom(Objects, roots) = Reachable(heap, roots)
<1>1. DOMAIN Objects = InUse(heap)
      /\ \A a \in InUse(heap) : Objects[a] = heap.blocks[a]
  BY DEF Objects
<1>2. ASSUME NEW R \in SUBSET Nat
      PROVE  Store!Named(Objects, R) = HeadersOf(heap, R) \cap InUse(heap)
  <2>1. ASSUME NEW a \in InUse(heap), a + 8 \in R
        PROVE  a \in HeadersOf(heap, R)
    <3>1. a \in DOMAIN heap.blocks
      BY DEF InUse
    <3>2. a \in Nat /\ heap.start \in Nat /\ heap.start <= a
      BY <3>1, BlockFacts DEF MemoryInv
    <3>3. a + 8 >= heap.start /\ a = (a + 8) - HeaderSize
      BY <3>2 DEF HeaderSize
    <3> QED BY <2>1, <3>3 DEF HeadersOf
  <2>2. ASSUME NEW a \in HeadersOf(heap, R)
        PROVE  a + 8 \in R
    <3>1. PICK r \in R : a = r - 8
      BY DEF HeadersOf, HeaderSize
    <3>2. r \in Nat
      OBVIOUS
    <3> QED BY <3>1, <3>2
  <2> QED BY <1>1, <2>1, <2>2 DEF Store!Named, Store!ObjectHeader
<1>3. ASSUME NEW a \in InUse(heap)
      PROVE  heap.blocks[a].refs \in SUBSET Nat
  <2>1. a \in DOMAIN heap.blocks
    BY DEF InUse
  <2>2. heap.blocks[a] \in BlockRecord({<<>>})
    BY <2>1, BlockFacts DEF MemoryInv
  <2> QED BY <2>2 DEF BlockRecord
<1>4. ASSUME NEW S \in SUBSET InUse(heap)
      PROVE  Store!ReachClosed(Objects, roots, S) <=> IsReachClosed(heap, roots, S)
  <2>1. \A a \in S : Store!Named(Objects, Objects[a].refs)
                       = HeadersOf(heap, heap.blocks[a].refs) \cap InUse(heap)
    BY <1>1, <1>2, <1>3
  <2>2. Store!Named(Objects, roots) = HeadersOf(heap, roots) \cap InUse(heap)
    BY <1>2 DEF MemoryInv
  <2> QED BY <2>1, <2>2 DEF Store!ReachClosed, IsReachClosed
<1> DEFINE X == Reachable(heap, roots)
           Y == Store!ReachableFrom(Objects, roots)
<1>5. Y = {a \in InUse(heap) : \A S \in SUBSET InUse(heap) :
                                  Store!ReachClosed(Objects, roots, S) => a \in S}
  BY <1>1 DEF Store!ReachableFrom
<1>6. X \in SUBSET InUse(heap) /\ IsReachClosed(heap, roots, X)
  BY ReachableFacts
<1>7. \A S \in SUBSET InUse(heap) : IsReachClosed(heap, roots, S) => X \subseteq S
  BY ReachableFacts
<1> HIDE DEF X, Y
<1>8. X = Y
  BY <1>4, <1>5, <1>6, <1>7
<1> QED BY <1>8 DEF X, Y

LEMMA MakesStores ==
  ASSUME MemoryInv, MemoryInv', NEW n, Makes(n)
  PROVE  Store!Store
<1>1. /\ DOMAIN Objects = InUse(heap) /\ DOMAIN Objects' = InUse(heap')
      /\ \A a \in InUse(heap) : Objects[a] = heap.blocks[a]
      /\ \A a \in InUse(heap') : Objects'[a] = heap'.blocks[a]
  BY DEF Objects
<1>2. n \in InUse(heap') /\ n \notin InUse(heap)
      /\ InUse(heap') = InUse(heap) \cup {n}
  BY DEF Makes
<1>3. n \in DOMAIN heap'.blocks /\ InUse(heap') \subseteq DOMAIN heap'.blocks
  BY <1>2 DEF InUse
<1>4. HeapInv(heap', {<<>>}) /\ heap'.end <= MaxMemory /\ heap'.end \in Nat
  BY DEF MemoryInv
<1>5. n + 8 + heap'.blocks[n].size <= MaxMemory
  <2>1. /\ n \in Nat /\ heap'.blocks[n].size \in Nat
        /\ BlockEnd(heap', n) = n + 8 + heap'.blocks[n].size
        /\ BlockEnd(heap', n) <= heap'.end
    BY <1>3, <1>4, BlockFacts
  <2> QED BY <1>4, <2>1, MaxMemoryAssumption
<1>6. ASSUME NEW b \in InUse(heap)
      PROVE  Objects'[b] = Objects[b] /\ ~Store!Overlap(Objects', n, b)
  <2>1. b \in DOMAIN heap'.blocks /\ b # n /\ b \in InUse(heap')
    BY <1>2, <1>3
  <2>2. Objects'[b] = Objects[b]
    BY <1>1, <2>1 DEF Makes
  <2>3. /\ n \in Nat /\ b \in Nat
        /\ heap'.blocks[n].size \in Nat /\ heap'.blocks[b].size \in Nat
        /\ BlockEnd(heap', n) = n + 8 + heap'.blocks[n].size
        /\ BlockEnd(heap', b) = b + 8 + heap'.blocks[b].size
        /\ n < b => BlockEnd(heap', n) <= b
        /\ b < n => BlockEnd(heap', b) <= n
    BY <1>3, <1>4, <2>1, BlockFacts
  <2>4. ~(n < b + 8 + heap'.blocks[b].size /\ b < n + 8 + heap'.blocks[n].size)
    BY <2>1, <2>3
  <2> QED BY <1>1, <1>2, <2>1, <2>2, <2>4 DEF Store!Overlap, Store!ObjectHeader
<1>7. Objects'[n].refs \subseteq roots /\ roots' = roots \cup {n + 8}
  BY <1>1, <1>2 DEF Makes, DataAddress, HeaderSize
<1>8. n \in DOMAIN Objects' \ DOMAIN Objects
      /\ DOMAIN Objects' = DOMAIN Objects \cup {n}
      /\ n + 8 + Objects'[n].size <= MaxMemory
  BY <1>1, <1>2, <1>5
<1> HIDE DEF Objects
<1> QED BY <1>1, <1>6, <1>7, <1>8 DEF Store!Store, Store!ObjectHeader, Objects

(* Until a step is undefined, the memory is the store of vmmem.h: a new block
   lies where no block in use is, within the maximum size, and every other
   step leaves alone what can be reached; again as long as no code refers to
   a state block. *)
THEOREM StoreTheorem ==
  ASSUME ~CodeRefersToState
  PROVE  Spec => ImplementsObjectStore
<1>1. Init => Store!Init
  <2> SUFFICES ASSUME Init PROVE Store!Init
    OBVIOUS
  <2>1. InUse(heap) = {}
    BY VmMemoryAssumption, CreatedInv DEF Init
  <2> QED BY <2>1 DEF Init, Store!Init
<1>2. /\ MemoryInv /\ MemoryInv' /\ LiveInv /\ [Next]_vars
      => [Store!Next]_(Store!vars)
  <2> SUFFICES ASSUME MemoryInv, MemoryInv', LiveInv, [Next]_vars, ~UNCHANGED vars
               PROVE  Store!Next
    BY DEF vars, Store!vars
  <2>0. fault = "none"
    BY DEF Next, AllocateCodeBlock, AllocateStateBlock, DropRoot, LoadOperand,
       RestoreRoots, Collect, CollectFaults, IncreaseSize, IncreaseFaults,
       Reserve, ReserveFaults
  <2> SUFFICES ASSUME fault' = "none"
               PROVE  Store!Store \/ Store!Reclaim \/ Store!Access
    BY <2>0 DEF Store!Next
  <2>1. /\ DOMAIN Objects = InUse(heap) /\ DOMAIN Objects' = InUse(heap')
        /\ \A a \in InUse(heap) : Objects[a] = heap.blocks[a]
        /\ \A a \in InUse(heap') : Objects'[a] = heap'.blocks[a]
    BY DEF Objects
  <2>3. CASE \E n : Makes(n)
    BY <2>3, MakesStores
  <2>4. CASE Reclaims \/ Restarts
    <3>1. /\ InUse(heap') \subseteq InUse(heap)
          /\ \A a \in InUse(heap') : heap'.blocks[a] = heap.blocks[a]
          /\ roots' = roots
      BY <2>4 DEF Reclaims, Restarts, KeepsInUse
    <3>2. Reachable(heap, roots) \subseteq InUse(heap')
      BY <2>4, StepsKeepReachable
    <3>3. Store!ReachableFrom(Objects, roots) \subseteq DOMAIN Objects'
      BY <2>1, <3>2, ReachableAgree
    <3>4. DOMAIN Objects' \subseteq DOMAIN Objects
          /\ \A a \in DOMAIN Objects' : Objects'[a] = Objects[a]
      BY <2>1, <3>1
    <3>5. Store!Reclaim
      BY <3>1, <3>3, <3>4 DEF Store!Reclaim, Objects
    <3> QED BY <3>5
  <2>5. CASE Accesses
    <3>1. roots' \subseteq roots \cup
            UNION {Objects[a].refs : a \in Reachable(heap, roots)}
      <4> SUFFICES ASSUME NEW r \in roots', r \notin roots
                   PROVE  \E a \in Reachable(heap, roots) : r \in Objects[a].refs
        OBVIOUS
      <4>1. PICK q \in roots : /\ q - HeaderSize \in InUse(heap)
                               /\ r \in heap.blocks[q - HeaderSize].refs
        BY <2>5 DEF Accesses
      <4> QED BY <4>1, <2>1, HeldIsReachable
    <3>2. Store!Access
      <4>1. Objects' = Objects
        BY <2>5 DEF Accesses, Objects
      <4> QED BY <3>1, <4>1, ReachableAgree DEF Store!Access, Objects
    <3> QED BY <3>2
  <2> QED BY <2>3, <2>4, <2>5, StepKinds
<1>3. ClosedInv => LiveInv
  BY ClosedIsLive
<1> QED BY <1>1, <1>2, <1>3, MemoryInvariance, ClosedInvariance, PTL
        DEF Spec, Store!Spec, ImplementsObjectStore
=============================================================================
