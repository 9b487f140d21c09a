------------------------------ MODULE VmMemory -----------------------------
(***************************************************************************)
(* The memory of the virtual machine, src/src/vmmem.c, driven by an        *)
(* arbitrary client that respects what vm.c respects: it fills the blocks  *)
(* it allocates with addresses it holds, keeps addresses on its stacks     *)
(* (roots), forgets them, and reads the operands of code it can reach.     *)
(* One action is one call of the public interface.                         *)
(***************************************************************************)
EXTENDS HeapOps

CONSTANTS
  InitialMemory,       \* initialSize of createVmMemory, in bytes
  ProgramSizes,        \* the sizes reserveVmMemoryForProgram is asked for
  CodeSizes,           \* the sizes allocateVmmCodeBlock is asked for
  MaxFrames,           \* bound on the call stack entries in a state block
  MaxAddresses,        \* bound on the address stack entries in a state block
  MaxRefs,             \* bound on the heap addresses put into one block
  CodeRefersToState    \* a code block may hold the address of a state block

ASSUME VmMemoryAssumption ==
  /\ InitialMemory \in Nat
  /\ MinBlockSize <= InitialMemory /\ InitialMemory <= MaxMemory
  /\ ProgramSizes \subseteq Nat
  /\ CodeSizes \subseteq Nat \ {0}
  /\ MaxFrames \in Nat /\ MaxAddresses \in Nat /\ MaxRefs \in Nat
  /\ CodeRefersToState \in BOOLEAN

VARIABLES
  heap,     \* the memory, see HeapOps
  roots,    \* the heap addresses on the call and address stacks
  status,   \* memory->statusCode
  fault     \* the undefined step the code took, or "none"

vars == <<heap, roots, status, fault>>

Statuses == {"ok", "notEnoughMemory", "heapInUse", "maxSizeExceeded",
             "sizeIncreaseFailed"}

Faults == {"none", "pastEndBlock", "strayAddress", "misalignedWalk",
           "marksContents", "bogusFreeList", "blockPastEnd"}

Init ==
  /\ heap = CreatedHeap(InitialMemory)
  /\ roots = {}
  /\ status = "ok"
  /\ fault = "none"

-----------------------------------------------------------------------------
(***************************************************************************)
(* Allocation.  A failed call leaves the heap alone and sets the status; a *)
(* successful one does not clear it.                                       *)
(***************************************************************************)
Allocate(size, contents) ==
  IF CanAllocate(heap, size)
  THEN /\ heap' = AllocateBlock(heap, size, contents)
       /\ roots' = roots \cup {DataAddress(FirstFit(heap, size))}
       /\ UNCHANGED <<status, fault>>
  ELSE /\ status' = "notEnoughMemory"
       /\ UNCHANGED <<heap, roots, fault>>

IsCodeAddress(r) == r - HeaderSize \in InUse(heap)
                    /\ heap.blocks[r - HeaderSize].kind = "code"

AllocateCodeBlock(size, refs) ==
  /\ fault = "none"
  /\ CodeRefersToState \/ \A r \in refs : IsCodeAddress(r)
  /\ Allocate(CodeBlockSize(size), CodeContents(size, refs, <<>>))

AllocateStateBlock(callStackSize, addressStackSize, refs) ==
  /\ fault = "none"
  /\ Cardinality(refs) <= callStackSize + addressStackSize
  /\ Allocate(StateBlockSize(callStackSize, addressStackSize),
              StateContents(refs, <<>>))

-----------------------------------------------------------------------------
(* The client: POP, PUSH from a code block, RESTORE of a state block. *)

DropRoot(r) ==
  /\ fault = "none"
  /\ roots' = roots \ {r}
  /\ UNCHANGED <<heap, status, fault>>

LoadOperand(r) ==
  /\ fault = "none"
  /\ IsCodeAddress(r)
  /\ \E s \in heap.blocks[r - HeaderSize].refs : roots' = roots \cup {s}
  /\ UNCHANGED <<heap, status, fault>>

RestoreRoots(r) ==
  /\ fault = "none"
  /\ r - HeaderSize \in InUse(heap)
  /\ heap.blocks[r - HeaderSize].kind = "state"
  /\ roots' = heap.blocks[r - HeaderSize].refs
  /\ UNCHANGED <<heap, status, fault>>

-----------------------------------------------------------------------------
(***************************************************************************)
(* collectUnreachableVmmBlocks.  firstHeapBlockInVmm returns the end of    *)
(* memory when the heap is empty.                                          *)
(***************************************************************************)
Collect ==
  /\ fault = "none"
  /\ heap' \in Collections(heap, roots)
  /\ fault' = IF FreeListIsBogus(heap') THEN "bogusFreeList" ELSE "none"
  /\ UNCHANGED <<roots, status>>

(* From an undefined step on nothing is said of the memory: the model stops. *)
CollectFaults ==
  /\ fault = "none"
  /\ fault' \in CollectionFaults(heap, roots)
  /\ UNCHANGED <<heap, roots, status>>

-----------------------------------------------------------------------------
(***************************************************************************)
(* increaseVmmSize.  realloc may fail at any time.                         *)
(***************************************************************************)
IncreaseSize ==
  /\ fault = "none"
  /\ IF heap.end >= MaxMemory
     THEN /\ status' = "maxSizeExceeded"
          /\ UNCHANGED <<heap, fault>>
     ELSE \/ /\ ~FreeListIsBogus(heap)
             /\ ~GrowthTooSmall(heap, NextSize(heap.end))
             /\ heap' = GrowTo(heap, NextSize(heap.end))
             /\ status' = "ok"
             /\ UNCHANGED fault
          \/ /\ status' = "sizeIncreaseFailed"
             /\ UNCHANGED <<heap, fault>>
  /\ UNCHANGED roots

IncreaseFaults ==
  /\ fault = "none"
  /\ heap.end < MaxMemory
  /\ \/ /\ FreeListIsBogus(heap)
        /\ fault' = "bogusFreeList"
     \/ /\ ~FreeListIsBogus(heap)
        /\ GrowthTooSmall(heap, NextSize(heap.end))
        /\ fault' = "blockPastEnd"
  /\ UNCHANGED <<heap, roots, status>>

(* reserveVmMemoryForProgram, for a client that has no block yet.  It reads
   the first block header, which an empty heap does not have. *)
Reserve(size) ==
  /\ fault = "none"
  /\ roots = {} /\ ~HeapIsEmpty(heap)
  /\ \E r \in ReserveResults(heap, size) :
       heap' = r.heap /\ status' = r.status
  /\ UNCHANGED <<roots, fault>>

ReserveFaults ==
  /\ fault = "none"
  /\ roots = {} /\ HeapIsEmpty(heap)
  /\ fault' = "pastEndBlock"
  /\ UNCHANGED <<heap, roots, status>>

-----------------------------------------------------------------------------
(* What the client may put into a block: addresses it holds. *)
Contents == {refs \in SUBSET roots : Cardinality(refs) <= MaxRefs}

Next ==
  \/ \E size \in CodeSizes, refs \in Contents : AllocateCodeBlock(size, refs)
  \/ \E cs \in 0 .. MaxFrames, es \in 0 .. MaxAddresses, refs \in Contents :
       AllocateStateBlock(cs, es, refs)
  \/ \E r \in roots : DropRoot(r) \/ LoadOperand(r) \/ RestoreRoots(r)
  \/ Collect
  \/ CollectFaults
  \/ IncreaseSize
  \/ IncreaseFaults
  \/ \E size \in ProgramSizes : Reserve(size)
  \/ ReserveFaults

Spec == Init /\ [][Next]_vars

-----------------------------------------------------------------------------
(* Properties *)

(* The type of every variable; that bytesFree is a natural number is part of
   BytesFreeExact. *)
TypeOK ==
  /\ HeapType(heap, {<<>>})
  /\ heap.end \in MinBlockSize .. MaxMemory
  /\ roots \subseteq Nat
  /\ status \in Statuses /\ fault \in Faults

(* splitFreeBlock, increaseVmmSize and the collector never make a block that
   is too small for the free-list link the collector writes into it. *)
BlocksHoldLink == RoomForLink(heap)

(* nextHeapBlockInVmm walks the whole heap and nothing but it: after any
   sequence of calls the blocks lie end to end, without gap or overlap. *)
HeapTiled == BlocksTile(heap)

(* The free list that splitFreeBlock, increaseVmmSize and the collector
   patch link by link is the list of all free blocks in address order. *)
FreeListSorted == FreeListIsSorted(heap)

(* Free space is always coalesced, whichever of the three writes it. *)
FreeBlocksApart == FreeBlocksAreApart(heap)

(* memory->bytesFree, updated by increments, stays the sum over the list;
   findFreeBlockWithSize refuses a request on the counter alone. *)
BytesFreeExact == BytesFreeIsExact(heap)

(* The store the memory implements: objects are the blocks in use. *)
Store == INSTANCE ObjectStore WITH
           MemoryLimit <- MaxMemory,
           objects <- [a \in InUse(heap) |-> heap.blocks[a]],
           lost <- fault # "none"

(* vmmem.h promises blocks that belong to the caller alone, and a collector
   that takes only what nothing reaches: until the memory takes a step the
   code leaves undefined, every one of its steps is one of ObjectStore. *)
ImplementsObjectStore == Store!Spec

(* No call frees or alters a block the client can reach, up to the first
   undefined step: a collection may keep more than it has to, never less. *)
KeepsReachable ==
  [][fault' = "none" =>
       \A a \in Reachable(heap, roots) :
         a \in InUse(heap') /\ heap'.blocks[a] = heap.blocks[a]]_vars

(* Nothing on the stacks or in a reachable block refers to freed memory, as
   long as no step was undefined. *)
NoDanglingAddress ==
  fault = "none" =>
    /\ HeadersOf(heap, roots) \subseteq InUse(heap)
    /\ \A a \in Reachable(heap, roots) :
         HeadersOf(heap, heap.blocks[a].refs) \subseteq InUse(heap)

(* The collector follows the addresses of garbage, too, when the slack of a
   block leads there.  What an earlier collection kept of it refers to nothing
   that was freed: wherever the collector is led by the addresses the client
   put into blocks, it finds a block. *)
CollectorStaysInBlocks == fault # "strayAddress"

(* createVmMemory and reserveVmMemoryForProgram hold 16 for the smallest
   block; increaseVmmSize never writes a smaller one, over the end. *)
GrowthHoldsABlock == fault # "blockPastEnd"
=============================================================================
