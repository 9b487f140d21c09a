------------------------------ MODULE HeapOps ------------------------------
(***************************************************************************)
(* The heap of the Unlambda virtual machine (src/src/vmmem.c) as a value,  *)
(* and what each allocator and collector routine makes of it.              *)
(*                                                                         *)
(* A heap h is a record                                                    *)
(*   end        size of the memory in bytes (memory->end - memory->bytes)  *)
(*   start      first byte after the program area (memory->heapStart)      *)
(*   firstFree  address of the first free block (memory->firstFree)        *)
(*   bytesFree  the counter memory->bytesFree                              *)
(*   blocks     header address |-> block, for every block of the heap      *)
(* and a block is a record of its type, of the bytes after its header, of  *)
(* the free-list link (free blocks), and of its contents: refs is the set  *)
(* of addresses the collector reads in it (PUSH operands of a code block,  *)
(* saved blocks and addresses of a state block), data is what the virtual  *)
(* machine stores there, and slack the number of its bytes that the        *)
(* allocation did not ask for and nobody writes.                           *)
(*                                                                         *)
(* The marks of the collector are set and cleared inside one call of       *)
(* collectUnreachableVmmBlocks; here they are the set Marked.              *)
(***************************************************************************)
EXTENDS Integers, FiniteSetsExt

CONSTANT MaxMemory      \* memory->maxSize, in bytes

ASSUME MaxMemoryAssumption == MaxMemory \in Nat

HeaderSize   == 8       \* sizeof(HeapBlock)
MinBlockSize == 16      \* MIN_FREE_BLOCK_SIZE: a header and a free-list link

(* How often one memory can double: a bound of the model (64 in the code). *)
MaxDoublings == 12

AlignTo8(n) == ((n + 7) \div 8) * 8

FreeBlock(size, next) ==
  [kind |-> "free", size |-> size, slack |-> 0, next |-> next,
   refs |-> {}, data |-> <<>>]

FreeAddrs(h)   == {a \in DOMAIN h.blocks : h.blocks[a].kind = "free"}
InUse(h)       == {a \in DOMAIN h.blocks : h.blocks[a].kind # "free"}
BlockEnd(h, a) == a + HeaderSize + h.blocks[a].size

HeapIsEmpty(h) == h.start = h.end

(* createVmMemory: one free block covers the memory, no program area. *)
CreatedHeap(size) ==
  [end |-> size, start |-> 0, firstFree |-> 0,
   bytesFree |-> size - HeaderSize,
   blocks |-> [a \in {0} |-> FreeBlock(size - HeaderSize, 0)]]

(***************************************************************************)
(* firstFreeBlockInVmm takes firstFree = 0 for "no free block" only when   *)
(* there is a program area; without one it returns the block at address 0, *)
(* which need not be free.                                                 *)
(***************************************************************************)
FreeListIsBogus(h) == h.start = 0 /\ h.firstFree = 0 /\ 0 \notin FreeAddrs(h)

-----------------------------------------------------------------------------
(* Allocation *)

(***************************************************************************)
(* findFreeBlockWithSize walks the free list, which the invariants of      *)
(* VmMemory show to be the free blocks in address order, and takes the     *)
(* first block that is large enough; bytesFree is tested before the walk.  *)
(***************************************************************************)
Fits(h, size) == {a \in FreeAddrs(h) : h.blocks[a].size >= size}

CanAllocate(h, size) == size <= h.bytesFree /\ Fits(h, size) # {}

FirstFit(h, size) == Min(Fits(h, size))

(* Mutants: the remainder always becomes a block; it needs a header but no
   room for its link. *)
AlwaysSplitsMut(h, a, size) == FALSE
TakesWholeBlockMut(h, a, size) == h.blocks[a].size - size < HeaderSize

TakesWholeBlock(h, a, size) == h.blocks[a].size - size < MinBlockSize

(* Mutant: the predecessor keeps its link. *)
LinksToMut(h, a) == {}

(* The free blocks whose link is a: prevFree of the walk, or none. *)
LinksTo(h, a) == {b \in FreeAddrs(h) : a # 0 /\ h.blocks[b].next = a}

(* prev->next = succ, or firstFree = succ when there is no prev. *)
Relink(h, a, succ) ==
  [h EXCEPT !.firstFree = IF LinksTo(h, a) = {} THEN succ ELSE @,
            !.blocks = [b \in DOMAIN h.blocks |->
                          IF b \in LinksTo(h, a)
                          THEN [h.blocks[b] EXCEPT !.next = succ]
                          ELSE h.blocks[b]]]

(* A free block becomes a block in use with the given contents. *)
Filled(size, slack, contents) ==
  [kind |-> contents.kind, size |-> size, slack |-> slack, next |-> 0,
   refs |-> contents.refs, data |-> contents.data]

(* splitFreeBlock, the remainder is too small to be a block. *)
TakeWhole(h, a, size, contents) ==
  LET old == h.blocks[a]
      rel == Relink(h, a, old.next)
  IN  [rel EXCEPT
         !.bytesFree = @ - old.size,
         !.blocks[a] = Filled(old.size, old.size - size + contents.slack,
                              contents)]

(* splitFreeBlock, the remainder becomes a free block in its place. *)
Split(h, a, size, contents) ==
  LET old  == h.blocks[a]
      rest == a + HeaderSize + size
      rel  == Relink(h, a, rest)
  IN  [rel EXCEPT
         !.bytesFree = @ - (size + HeaderSize),
         !.blocks = [b \in DOMAIN h.blocks \cup {rest} |->
                       IF b = a
                       THEN Filled(size, contents.slack, contents)
                       ELSE IF b = rest
                       THEN FreeBlock(old.size - size - HeaderSize, old.next)
                       ELSE rel.blocks[b]]]

(* allocateBlock, when CanAllocate(h, size). *)
AllocateBlock(h, size, contents) ==
  LET a == FirstFit(h, size)
  IN  IF TakesWholeBlock(h, a, size)
      THEN TakeWhole(h, a, size, contents)
      ELSE Split(h, a, size, contents)

(* The address the callers keep: the first byte after the header. *)
DataAddress(a) == a + HeaderSize

(* allocateVmmCodeBlock rounds the size up; allocateVmmStateBlock computes it. *)
CodeBlockSize(size) == AlignTo8(size)
StateBlockSize(callStackSize, addressStackSize) ==
  16 * callStackSize + 8 * addressStackSize + 16

CodeContents(size, refs, data) ==
  [kind |-> "code", slack |-> AlignTo8(size) - size, refs |-> refs,
   data |-> data]
StateContents(refs, data) ==
  [kind |-> "state", slack |-> 0, refs |-> refs, data |-> data]

-----------------------------------------------------------------------------
(* Growth *)

(* The size after one call of increaseVmmSize on a memory of n bytes. *)
NextSize(n) == IF 2 * n > MaxMemory THEN MaxMemory ELSE 2 * n

(* The sizes that repeated calls give a memory of n bytes. *)
LaterSizes(n) ==
  {s \in n .. MaxMemory :
     s = MaxMemory \/ \E k \in 0 .. MaxDoublings : s = n * 2^k}

(* Mutant: the new memory never extends the last free block. *)
EndsFreeMut(h) == FALSE

(* The last free block ends at the end of memory, so that it can grow. *)
EndsFree(h) == \E a \in FreeAddrs(h) : BlockEnd(h, a) = h.end

(* Mutant: the header of the new free block is not accounted for. *)
GrownBytesMut(h, size) == size - h.end

(* What increaseVmmSize adds to bytesFree. *)
GrownBytes(h, size) ==
  IF EndsFree(h) THEN size - h.end ELSE size - h.end - HeaderSize

(***************************************************************************)
(* increaseVmmSize, from h.end to size.  The code extends the last free    *)
(* block when memory ends with it, and otherwise writes a free block at    *)
(* the old end and links it after the last one (next = 0), or makes it     *)
(* the first.  A second call always finds memory to end with a free block, *)
(* so that a loop of calls is one GrowTo the last size.                    *)
(***************************************************************************)
GrowTo(h, size) ==
  IF EndsFree(h)
  THEN [h EXCEPT
          !.end = size,
          !.bytesFree = @ + GrownBytes(h, size),
          !.blocks = [a \in DOMAIN h.blocks |->
                        IF a \in FreeAddrs(h) /\ BlockEnd(h, a) = h.end
                        THEN [h.blocks[a] EXCEPT !.size = @ + (size - h.end)]
                        ELSE h.blocks[a]]]
  ELSE [h EXCEPT
          !.end = size,
          !.bytesFree = @ + GrownBytes(h, size),
          !.firstFree = IF FreeAddrs(h) = {} THEN h.end ELSE @,
          !.blocks = [a \in DOMAIN h.blocks \cup {h.end} |->
                        IF a = h.end
                        THEN FreeBlock(size - h.end - HeaderSize, 0)
                        ELSE IF a \in FreeAddrs(h) /\ h.blocks[a].next = 0
                        THEN [h.blocks[a] EXCEPT !.next = h.end]
                        ELSE h.blocks[a]]]

(***************************************************************************)
(* The new free block of GrowTo needs MinBlockSize bytes; nothing in the   *)
(* code checks that the growth, which maxSize may cut short, provides them.*)
(***************************************************************************)
GrowthTooSmall(h, size) == ~EndsFree(h) /\ size - h.end < MinBlockSize

-----------------------------------------------------------------------------
(* The program area *)

(* reserveVmMemoryForProgram refuses unless one free block is the heap. *)
HeapIsOneFreeBlock(h) ==
  /\ h.start \in FreeAddrs(h)
  /\ h.blocks[h.start].size = h.end - h.start - HeaderSize

(* The heap after size bytes (a multiple of 8) went to the program. *)
ProgramReserved(h, size) ==
  IF h.end - size >= MinBlockSize
  THEN [end |-> h.end, start |-> size, firstFree |-> size,
        bytesFree |-> h.end - size - HeaderSize,
        blocks |-> [a \in {size} |-> FreeBlock(h.end - size - HeaderSize, 0)]]
  ELSE [end |-> h.end, start |-> h.end, firstFree |-> 0, bytesFree |-> 0,
        blocks |-> [a \in {} |-> FreeBlock(0, 0)]]

(* The loop of increaseVmmSize calls, when it has come to size s. *)
Grown(h, s) == IF s = h.end THEN h ELSE GrowTo(h, s)

(***************************************************************************)
(* reserveVmMemoryForProgram, the heap and the status it may end with.  The*)
(* loop that grows the memory may stop in the middle, when realloc fails or*)
(* the maximum is reached, and does not give back what it got.             *)
(***************************************************************************)
ReserveResults(h, size) ==
  LET need   == AlignTo8(size)
      enough == {s \in LaterSizes(h.end) : s >= need}
      short  == {s \in LaterSizes(h.end) : s < need /\ s < MaxMemory}
  IN  IF ~HeapIsOneFreeBlock(h)
      THEN {[heap |-> h, status |-> "heapInUse"]}
      ELSE (IF enough # {}
            THEN {[heap |-> ProgramReserved(Grown(h, Min(enough)), need),
                   status |-> "ok"]}
            ELSE {[heap |-> Grown(h, MaxMemory),
                   status |-> "notEnoughMemory"]})
           \cup {[heap |-> Grown(h, s), status |-> "sizeIncreaseFailed"] :
                   s \in short}

-----------------------------------------------------------------------------
(* Garbage collection *)

(* The headers of the addresses in R that lie in the heap. *)
HeadersOf(h, R) == {r - HeaderSize : r \in {x \in R : x >= h.start}}

(* Mutants: the collector does not look into state blocks, or into code. *)
VisitsMut(h, a) ==
  {b \in HeadersOf(h, h.blocks[a].refs) :
     b \in InUse(h) /\ h.blocks[a].kind = "code"}
VisitsNoCodeMut(h, a) ==
  {b \in HeadersOf(h, h.blocks[a].refs) :
     b \in InUse(h) /\ h.blocks[a].kind = "state"}

(***************************************************************************)
(* The blocks that visiting block a leads to.  visitVmStateBlock visits    *)
(* every saved address; visitCodeBlock visits a PUSH operand only if it is *)
(* the address of a code block, and reports any other as an error.         *)
(***************************************************************************)
Visits(h, a) ==
  LET targets == HeadersOf(h, h.blocks[a].refs)
  IN  IF h.blocks[a].kind = "code"
      THEN {b \in targets : b \in InUse(h) /\ h.blocks[b].kind = "code"}
      ELSE targets \cap InUse(h)

(* What follows from the call and address stacks under visitBlock. *)
IsMarkClosed(h, roots, S) ==
  /\ HeadersOf(h, roots) \cap InUse(h) \subseteq S
  /\ \A a \in S : Visits(h, a) \subseteq S

(* The blocks with a mark when the marking ends: the least such set. *)
Marked(h, roots) ==
  LET closed == {S \in SUBSET InUse(h) : IsMarkClosed(h, roots, S)}
  IN  {a \in InUse(h) : \A S \in closed : a \in S}

(***************************************************************************)
(* visitBlock reads a block header wherever an address leads it: when no   *)
(* block begins there, what it does next is undefined.                     *)
(***************************************************************************)
VisitsStrayAddress(h, roots) ==
  \/ ~(HeadersOf(h, roots) \subseteq DOMAIN h.blocks)
  \/ \E a \in Marked(h, roots) :
       ~(HeadersOf(h, h.blocks[a].refs) \subseteq DOMAIN h.blocks)

(***************************************************************************)
(* visitCodeBlock walks a block to its last byte, so that what happens to  *)
(* lie in the slack is decoded, too.  An instruction that extends over the *)
(* end fails assert(p == end).  A whole PUSH marks whatever its operand    *)
(* leads to: other code blocks, directly or through the remains of a block *)
(* in free memory; or, because any byte with the right two bits passes for *)
(* a block type, the contents of a block in use, which are altered.        *)
(***************************************************************************)
PushSize == 9    \* instructionSize(PUSH_INSTRUCTION)

CodeBlocks(h) == {a \in InUse(h) : h.blocks[a].kind = "code"}

CodeWithSlack(h, S, n) == {a \in S \cap CodeBlocks(h) : h.blocks[a].slack >= n}

(* The addresses that the collector may start from: the roots, and whatever
   code blocks the slack of a marked one leads to. *)
CollectorRoots(h, roots) ==
  {roots \cup {DataAddress(a) : a \in stale} :
     stale \in IF CodeWithSlack(h, Marked(h, roots), PushSize) = {}
               THEN {{}}
               ELSE SUBSET CodeBlocks(h)}

(* The undefined steps and failed assertions of a collection. *)
CollectionFaults(h, roots) ==
  IF HeapIsEmpty(h)
  THEN {"pastEndBlock"}
  ELSE {f \in {"strayAddress", "misalignedWalk", "marksContents"} :
          \/ /\ f = "strayAddress"
             /\ \E R \in CollectorRoots(h, roots) : VisitsStrayAddress(h, R)
          \/ /\ f = "misalignedWalk"
             /\ CodeWithSlack(h, Marked(h, roots), 1) # {}
          \/ /\ f = "marksContents"
             /\ CodeWithSlack(h, Marked(h, roots), PushSize) # {}}

(***************************************************************************)
(* collectUnmarkedBlocks: a run of blocks that are not kept becomes one    *)
(* free block, and the free list is rebuilt in address order.              *)
(***************************************************************************)
RunStarts(h, kept) ==
  LET dead == DOMAIN h.blocks \ kept
  IN  {a \in dead : \A b \in dead : BlockEnd(h, b) # a}

RunEnd(h, kept, a) == Min({b \in kept : b > a} \cup {h.end})

(* Mutant: the header of the run is counted as free space. *)
RunSizeMut(h, kept, a) == RunEnd(h, kept, a) - a

RunSize(h, kept, a) == RunEnd(h, kept, a) - a - HeaderSize

NextRun(h, kept, a) ==
  LET later == {b \in RunStarts(h, kept) : b > a}
  IN  IF later = {} THEN 0 ELSE Min(later)

Sweep(h, kept) ==
  LET starts == RunStarts(h, kept)
  IN  [h EXCEPT
         !.firstFree = IF starts = {} THEN 0 ELSE Min(starts),
         !.bytesFree = SumFunction([a \in starts |-> RunSize(h, kept, a)]),
         !.blocks = [a \in kept \cup starts |->
                       IF a \in kept
                       THEN h.blocks[a]
                       ELSE FreeBlock(RunSize(h, kept, a),
                                      NextRun(h, kept, a))]]

(* The heaps a collection that takes no undefined step may leave. *)
Collections(h, roots) ==
  IF HeapIsEmpty(h) THEN {}
  ELSE {Sweep(h, Marked(h, R)) :
          R \in {Q \in CollectorRoots(h, roots) : ~VisitsStrayAddress(h, Q)}}

(***************************************************************************)
(* What is reachable from R follows every address a block holds: the sets  *)
(* of blocks closed under that, and their intersection.                    *)
(***************************************************************************)
Reachable(h, R) ==
  LET closed == {S \in SUBSET InUse(h) :
                   /\ HeadersOf(h, R) \cap InUse(h) \subseteq S
                   /\ \A a \in S :
                        HeadersOf(h, h.blocks[a].refs) \cap InUse(h) \subseteq S}
  IN  {a \in InUse(h) : \A S \in closed : a \in S}

-----------------------------------------------------------------------------
(***************************************************************************)
(* What a heap is, when its blocks store members of Data ...               *)
(***************************************************************************)
BlockRecord(Data) ==
  [kind : {"free", "code", "state"}, size : Nat, slack : Nat, next : Nat,
   refs : SUBSET Nat, data : Data]

HeapType(h, Data) ==
  /\ h = [end |-> h.end, start |-> h.start, firstFree |-> h.firstFree,
          bytesFree |-> h.bytesFree, blocks |-> h.blocks]
  /\ h.end \in Nat /\ h.start \in Nat /\ h.firstFree \in Nat
  /\ DOMAIN h.blocks \subseteq Nat
  /\ h.blocks \in [DOMAIN h.blocks -> BlockRecord(Data)]

(***************************************************************************)
(* ... and what makes it sound.                                            *)
(***************************************************************************)

(* The blocks lie end to end from the start of the heap to the end.        *)
BlocksTile(h) ==
  /\ h.start <= h.end
  /\ h.start < h.end => h.start \in DOMAIN h.blocks
  /\ \A a \in DOMAIN h.blocks :
       /\ h.start <= a /\ BlockEnd(h, a) <= h.end
       /\ BlockEnd(h, a) < h.end => BlockEnd(h, a) \in DOMAIN h.blocks
       /\ \A b \in DOMAIN h.blocks : a < b => BlockEnd(h, a) <= b

(* y is the least element of S above x, or 0 when there is none. *)
IsSuccessor(S, x, y) ==
  \/ y \in S /\ x < y /\ \A z \in S : x < z => y <= z
  \/ y = 0 /\ \A z \in S : z <= x

(* firstFree and the links run through all free blocks in address order.   *)
FreeListIsSorted(h) ==
  /\ IsSuccessor(FreeAddrs(h), -1, h.firstFree)
  /\ \A a \in FreeAddrs(h) : IsSuccessor(FreeAddrs(h), a, h.blocks[a].next)

(* No free block is followed by another: free space is never fragmented    *)
(* at a block boundary.                                                    *)
FreeBlocksAreApart(h) ==
  \A a \in FreeAddrs(h) : BlockEnd(h, a) \notin FreeAddrs(h)

(* The counter equals the bytes of the free blocks. *)
BytesFreeIsExact(h) ==
  h.bytesFree = SumFunction([a \in FreeAddrs(h) |-> h.blocks[a].size])

(* Any block can become a free one: it has room for the free-list link. *)
RoomForLink(h) ==
  \A a \in DOMAIN h.blocks : h.blocks[a].size >= MinBlockSize - HeaderSize

HeapIsSound(h) ==
  /\ BlocksTile(h) /\ FreeListIsSorted(h)
  /\ FreeBlocksAreApart(h) /\ RoomForLink(h)
=============================================================================
