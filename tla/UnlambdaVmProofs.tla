-------------------------- MODULE UnlambdaVmProofs -------------------------
(***************************************************************************)
(* The virtual machine keeps its memory and its stacks sound, whatever the *)
(* program and whatever fails; and a machine whose program makes no        *)
(* continuations of saved states loses nothing that it can still reach.    *)
(***************************************************************************)
EXTENDS UnlambdaVm, VmLemmas

-----------------------------------------------------------------------------
(* The inductive invariant *)

(* What the machine stores in its blocks. *)
BuiltOps ==
  {"PUSH", "POP", "SWAP", "DUP", "PCALL", "RET", "MKS1", "MKS2", "RESTORE"}
Instruction == [op : BuiltOps, arg : Nat]

CodeData  == UNION {[offsets -> Instruction] : offsets \in SUBSET Nat}
StateData == [calls : Seq(Nat), addresses : Seq(Nat)]
VmData    == {<<>>} \cup CodeData \cup StateData

(* The memory. *)
HeapOk(h) ==
  /\ HeapInv(h, VmData)
  /\ MinBlockSize <= h.end /\ h.end <= MaxMemory

(* The call stack consists of frames, and so does its memory: there is room
   for the return address wherever there was room for the block. *)
CallsOk(s) ==
  /\ SoundStack(s, Nat) /\ s.max = CallStackBytes /\ s.status = "ok"
  /\ Len(s.items) % 2 = 0 /\ s.end % 16 = 0

AddressesOk(s) ==
  SoundStack(s, Nat) /\ s.max = AddressStackBytes /\ s.status = "ok"

(* A saved state fits into stacks of so many bytes. *)
SavedFits(saved, callBytes, addressBytes) ==
  /\ saved \in StateData
  /\ Len(saved.calls) % 2 = 0
  /\ Bytes(saved.calls) <= callBytes
  /\ Bytes(saved.addresses) <= addressBytes

BlockOk(b, callBytes, addressBytes) ==
  /\ b.kind = "code" => b.data \in CodeData
  /\ b.kind = "state" => SavedFits(b.data, callBytes, addressBytes)

BlocksOk(h, callBytes, addressBytes) ==
  \A b \in InUse(h) : BlockOk(h.blocks[b], callBytes, addressBytes)

VmInv ==
  /\ HeapOk(heap) /\ CallsOk(callStack) /\ AddressesOk(addressStack)
  /\ BlocksOk(heap, callStack.end, addressStack.end)
  /\ pc \in Nat /\ returned \in {0, -1} /\ failing.arg \in Nat
  /\ PutBackHasRoom

-----------------------------------------------------------------------------
(* Arithmetic *)

(* The bytes of a stack of frames, taken modulo 2^32, are bytes of frames. *)
LEMMA ModuloOf16 ==
  ASSUME NEW u \in Nat \ {0}, u % 16 = 0, NEW n \in Nat
  PROVE  ((16 * n) % u) % 16 = 0
<1> DEFINE a == 16 * n
           k == a \div u
           r == a % u
           z == u * k
<1>1. a \in Nat
  OBVIOUS
<1>2. k \in Nat /\ r \in Nat /\ a = z + r
  <2> HIDE DEF a
  <2> QED BY <1>1, DivisionFacts
<1>3. PICK q \in Nat : u = 16 * q
  BY QuotientBy16
<1>4. PICK p \in Nat : z = 16 * p
  <2>1. z = 16 * (q * k) /\ q * k \in Nat
    BY <1>2, <1>3
  <2> QED BY <2>1
<1>5. a = 16 * n
  OBVIOUS
<1> HIDE DEF a, k, r, z
<1>6. r = 16 * (n - p) /\ n - p \in Nat
  BY <1>1, <1>2, <1>4, <1>5
<1>7. r % 16 = 0
  BY <1>6, MultipleOf16
<1> QED BY <1>7 DEF r, a

(* Sizes that the memory grows to. *)
LEMMA LaterSizeFacts ==
  ASSUME NEW n \in Nat, MinBlockSize <= n, n <= MaxMemory,
         NEW s \in LaterSizes(n)
  PROVE  /\ s \in Nat /\ n <= s /\ s <= MaxMemory
         /\ s > n => NextSize(n) <= s
         /\ s > n /\ s < MaxMemory => n + MinBlockSize <= s
<1>1. MaxMemory \in Nat /\ s \in Nat /\ n <= s /\ s <= MaxMemory /\ 16 <= n
  BY MaxMemoryAssumption DEF LaterSizes, MinBlockSize
<1>2. CASE s = MaxMemory
  BY <1>1, <1>2 DEF NextSize
<1>3. CASE s # MaxMemory /\ s > n
  <2>1. PICK k \in 0 .. 12 : s = n * 2^k
    BY <1>3 DEF LaterSizes, MaxDoublings
  <2>2. k # 0
    <3>1. SUFFICES ASSUME k = 0 PROVE FALSE
      OBVIOUS
    <3>2. 2^k = 1
      BY <3>1, PowerOfTwo
    <3> QED BY <1>1, <1>3, <2>1, <3>2
  <2>3. PICK j \in Nat \ {0} : 2^k = 2 * j
    BY <2>2, PowerOfTwo
  <2>4. s = (2 * n) * j
    BY <2>1, <2>3
  <2>5. (2 * n) * j >= 2 * n
    OBVIOUS
  <2>6. s >= 2 * n
    BY <2>4, <2>5
  <2> QED BY <1>1, <2>6 DEF NextSize, MinBlockSize
<1> QED BY <1>1, <1>2, <1>3

-----------------------------------------------------------------------------
(* Allocation *)

(* A growth from h to s has room for the header and the link of its block. *)
CanGrow(h, s) ==
  /\ s \in Nat /\ h.end <= s /\ s <= MaxMemory
  /\ s = h.end \/ ~GrowthTooSmall(h, s)

LEMMA GrowthFacts ==
  ASSUME NEW h, HeapOk(h), NEW s \in LaterSizes(h.end),
         \/ s = h.end
         \/ s > h.end /\ s < MaxMemory
         \/ s > h.end /\ ~GrowthTooSmall(h, NextSize(h.end))
  PROVE  CanGrow(h, s)
<1>1. h.end \in Nat /\ MinBlockSize <= h.end /\ h.end <= MaxMemory
  BY DEF HeapOk, HeapInv, HeapType
<1>2. /\ s \in Nat /\ h.end <= s /\ s <= MaxMemory
      /\ s > h.end => NextSize(h.end) <= s
      /\ s > h.end /\ s < MaxMemory => h.end + MinBlockSize <= s
  BY <1>1, LaterSizeFacts
<1>3. NextSize(h.end) \in Nat
  BY <1>1, MaxMemoryAssumption DEF NextSize
<1> QED BY <1>1, <1>2, <1>3 DEF CanGrow, GrowthTooSmall, MinBlockSize

(* The loop of allocateCodeBlock and allocateVmStateBlock. *)
LEMMA GrowingFacts ==
  ASSUME NEW h, HeapOk(h), NEW size, NEW contents,
         NEW r \in GrowingResults(h, size, contents), r.fault = "none"
  PROVE  \E s : /\ CanGrow(h, s)
               /\ \/ /\ r = Allocated(Grown(h, s), size, contents)
                     /\ CanAllocate(Grown(h, s), size)
                  \/ /\ r = NotAllocated(Grown(h, s), "none")
                     /\ s = MaxMemory \/ AllocationFails
<1> DEFINE sizes  == {s \in LaterSizes(h.end) : s > h.end}
           enough == {s \in sizes : CanAllocate(GrowTo(h, s), size)}
<1>1. /\ h.end \in Nat /\ MinBlockSize <= h.end /\ h.end <= MaxMemory
      /\ MaxMemory \in Nat
  BY MaxMemoryAssumption DEF HeapOk, HeapInv, HeapType
<1>2. \/ r = NotAllocated(h, "blockPastEnd")
      \/ /\ sizes = {} \/ ~GrowthTooSmall(h, NextSize(h.end))
         /\ enough # {}
         /\ r = Allocated(GrowTo(h, Min(enough)), size, contents)
      \/ /\ sizes = {} \/ ~GrowthTooSmall(h, NextSize(h.end))
         /\ r = NotAllocated(Grown(h, MaxMemory), "none")
      \/ /\ AllocationFails
         /\ \E s \in LaterSizes(h.end) :
              s < MaxMemory /\ r = NotAllocated(Grown(h, s), "none")
  BY Zenon DEF GrowingResults, sizes, enough
<1>3. r # NotAllocated(h, "blockPastEnd")
  BY DEF NotAllocated
<1>4. CASE /\ sizes = {} \/ ~GrowthTooSmall(h, NextSize(h.end))
           /\ enough # {}
           /\ r = Allocated(GrowTo(h, Min(enough)), size, contents)
  <2> DEFINE s == Min(enough)
  <2>1. s \in enough
    <3>1. enough \in SUBSET Nat
      BY <1>1, LaterSizeFacts
    <3> HIDE DEF enough
    <3> QED BY <1>4, <3>1, MinIsLeast
  <2>2. /\ s \in LaterSizes(h.end) /\ s > h.end /\ sizes # {}
        /\ CanAllocate(GrowTo(h, s), size)
    BY <2>1
  <2>3. s # h.end
    <3> HIDE DEF s
    <3> QED BY <1>1, <2>2
  <2>4. r = Allocated(GrowTo(h, s), size, contents)
    BY <1>4
  <2> HIDE DEF s, enough, sizes
  <2>5. CanGrow(h, s)
    BY <1>4, <2>2, GrowthFacts
  <2>6. Grown(h, s) = GrowTo(h, s)
    BY <2>3 DEF Grown
  <2> QED BY <2>2, <2>4, <2>5, <2>6
<1>5. CASE /\ sizes = {} \/ ~GrowthTooSmall(h, NextSize(h.end))
           /\ r = NotAllocated(Grown(h, MaxMemory), "none")
  <2>1. MaxMemory \in LaterSizes(h.end)
    BY <1>1 DEF LaterSizes
  <2>2. MaxMemory = h.end \/ MaxMemory > h.end
    BY <1>1
  <2>3. MaxMemory > h.end => ~GrowthTooSmall(h, NextSize(h.end))
    BY <1>5, <2>1
  <2>4. CanGrow(h, MaxMemory)
    BY <2>1, <2>2, <2>3, GrowthFacts
  <2> QED BY <1>5, <2>4
<1>6. CASE /\ AllocationFails
           /\ \E s \in LaterSizes(h.end) :
                s < MaxMemory /\ r = NotAllocated(Grown(h, s), "none")
  <2>1. PICK s \in LaterSizes(h.end) :
          s < MaxMemory /\ r = NotAllocated(Grown(h, s), "none")
    BY <1>6
  <2>2. s = h.end \/ s > h.end
    BY <1>1, LaterSizeFacts
  <2>3. CanGrow(h, s)
    BY <2>1, <2>2, GrowthFacts
  <2> QED BY <1>6, <2>1, <2>3
<1> HIDE DEF sizes, enough
<1> QED BY <1>2, <1>3, <1>4, <1>5, <1>6

(* Where an allocation takes place: in the memory as it is, in one that was
   collected, or in one that grew after that. *)
LEMMA AllocationCases ==
  ASSUME NEW size, NEW contents, NEW r \in AllocationResults(size, contents)
  PROVE  \/ r = Allocated(heap, size, contents) /\ CanAllocate(heap, size)
         \/ \E f \in CollectionFaults(heap, Roots) : r = NotAllocated(heap, f)
         \/ \E h \in Collections(heap, Roots) :
              \/ r = Allocated(h, size, contents) /\ CanAllocate(h, size)
              \/ /\ r \in GrowingResults(h, size, contents)
                 /\ ~CanAllocate(h, size)
<1>1. CASE CanAllocate(heap, size)
  BY <1>1 DEF AllocationResults
<1>2. CASE ~CanAllocate(heap, size)
  <2>1. \/ r \in {NotAllocated(heap, f) : f \in CollectionFaults(heap, Roots)}
        \/ \E h \in Collected :
             r \in IF CanAllocate(h, size)
                  THEN {Allocated(h, size, contents)}
                  ELSE GrowingResults(h, size, contents)
    BY <1>2, Zenon DEF AllocationResults
  <2>2. CASE r \in {NotAllocated(heap, f) : f \in CollectionFaults(heap, Roots)}
    BY <2>2, Zenon
  <2>3. ASSUME NEW h \in Collected,
               r \in IF CanAllocate(h, size)
                    THEN {Allocated(h, size, contents)}
                    ELSE GrowingResults(h, size, contents)
        PROVE  \/ r = Allocated(h, size, contents) /\ CanAllocate(h, size)
               \/ /\ r \in GrowingResults(h, size, contents)
                  /\ ~CanAllocate(h, size)
    BY <2>3
  <2> QED BY <2>1, <2>2, <2>3, Zenon DEF Collected
<1> QED BY <1>1, <1>2

(* How an allocation may be undefined: never for want of a stack's room. *)
LEMMA FaultsOfAllocation ==
  ASSUME NEW size, NEW contents, NEW r \in AllocationResults(size, contents)
  PROVE  r.fault # "noRoomToPutBack"
<1>1. \A f \in CollectionFaults(heap, Roots) : f # "noRoomToPutBack"
  BY DEF CollectionFaults
<1>2. ASSUME NEW h, NEW what, what # "noRoomToPutBack",
             r = Allocated(h, size, contents) \/ r = NotAllocated(h, what)
      PROVE  r.fault # "noRoomToPutBack"
  BY <1>2 DEF Allocated, NotAllocated
<1>3. ASSUME NEW h, r \in GrowingResults(h, size, contents)
      PROVE  r.fault # "noRoomToPutBack"
  <2>1. \E m : \/ r = Allocated(m, size, contents)
              \/ r = NotAllocated(m, "none")
              \/ r = NotAllocated(m, "blockPastEnd")
    BY <1>3, Zenon DEF GrowingResults
  <2>2. "none" # "noRoomToPutBack" /\ "blockPastEnd" # "noRoomToPutBack"
    OBVIOUS
  <2> QED BY <1>2, <2>1, <2>2, Zenon
<1>4. ASSUME NEW h, r = Allocated(h, size, contents)
      PROVE  r.fault # "noRoomToPutBack"
  BY <1>4 DEF Allocated
<1>5. CASE \E f \in CollectionFaults(heap, Roots) : r = NotAllocated(heap, f)
  <2>1. PICK f \in CollectionFaults(heap, Roots) : r = NotAllocated(heap, f)
    BY <1>5
  <2> QED BY <1>1, <1>2, <2>1
<1>6. CASE r = Allocated(heap, size, contents)
  BY <1>4, <1>6
<1>7. CASE \E h \in Collections(heap, Roots) :
             \/ r = Allocated(h, size, contents) /\ CanAllocate(h, size)
             \/ r \in GrowingResults(h, size, contents) /\ ~CanAllocate(h, size)
  BY <1>3, <1>4, <1>7, Zenon
<1> QED BY <1>5, <1>6, <1>7, AllocationCases, Zenon

(* What is in use in g is in use in h, and everything in K still is. *)
KeepsOf(h, g, K) ==
  /\ g.start = h.start
  /\ K \subseteq InUse(g) /\ InUse(g) \subseteq InUse(h)
  /\ \A b \in InUse(g) : g.blocks[b] = h.blocks[b]

(* What g has in use refers to nothing that was in use in h and is not in g. *)
KeepsVisited(h, g) == \A b \in InUse(g) : Visits(h, b) \subseteq InUse(g)

(* A collection keeps more than what is marked from the roots only where the
   slack of a marked block has room for a whole PUSH. *)
KeepsOnlyMarked(g) ==
  CodeWithSlack(heap, Marked(heap, Roots), PushSize) = {}
  => InUse(g) = Marked(heap, Roots)

(***************************************************************************)
(* What an allocation comes to: a memory g that kept what the collector    *)
(* marks, and in it the block; or g without it, when there is no more      *)
(* memory or the system gives none.                                        *)
(***************************************************************************)
AllocatesFrom(g, r, size, contents) ==
  /\ KeepsOf(heap, g, Marked(heap, Roots)) /\ KeepsVisited(heap, g)
  /\ HeapOk(g) /\ heap.end <= g.end
  /\ HeapOk(r.heap) /\ r.heap.end = g.end
  /\ \/ /\ r.block = NoBlock /\ r.heap = g
        /\ KeepsOnlyMarked(g)
        /\ g.end = MaxMemory \/ AllocationFails
     \/ r.block \in Nat /\ Allocates(g, r.heap, r.block, size, contents)

LEMMA AllocatedFacts ==
  ASSUME NEW h, HeapOk(h), NEW size \in Nat, size >= 8,
         CanAllocate(h, size), NEW contents, ContentsType(contents, VmData)
  PROVE  LET r == Allocated(h, size, contents)
         IN  /\ HeapOk(r.heap) /\ r.heap.end = h.end
             /\ r.block \in Nat /\ Allocates(h, r.heap, r.block, size, contents)
<1> DEFINE r == Allocated(h, size, contents)
<1>1. <<>> \in VmData
  BY DEF VmData
<1>2. HeapInv(h, VmData) /\ MinBlockSize <= h.end /\ h.end <= MaxMemory
  BY DEF HeapOk
<1>3. /\ HeapInv(AllocateBlock(h, size, contents), VmData)
      /\ AllocateBlock(h, size, contents).end = h.end
      /\ Allocates(h, AllocateBlock(h, size, contents), FirstFit(h, size),
                   size, contents)
  BY <1>1, <1>2, AllocateInv
<1>4. r.heap = AllocateBlock(h, size, contents) /\ r.block = FirstFit(h, size)
  BY DEF Allocated
<1> HIDE DEF r
<1>5. r.block \in Nat
  BY <1>2, <1>3, <1>4 DEF Allocates, FreeAddrs, HeapInv, HeapType
<1>6. HeapOk(r.heap)
  BY <1>2, <1>3, <1>4 DEF HeapOk
<1> QED BY <1>3, <1>4, <1>5, <1>6 DEF r

LEMMA AllocationFacts ==
  ASSUME HeapOk(heap), NEW size \in Nat, size >= 8,
         NEW contents, ContentsType(contents, VmData),
         NEW r \in AllocationResults(size, contents), r.fault = "none"
  PROVE  \E g : AllocatesFrom(g, r, size, contents)
<1> DEFINE K == Marked(heap, Roots)
<1>1. K \subseteq InUse(heap)
  BY MarkedFacts
<1>2. heap.end \in Nat /\ <<>> \in VmData /\ HeapInv(heap, VmData)
  BY DEF HeapOk, HeapInv, HeapType, VmData
<1>3. CASE r = Allocated(heap, size, contents) /\ CanAllocate(heap, size)
  <2>1. KeepsOf(heap, heap, K) /\ KeepsVisited(heap, heap)
    BY <1>1 DEF KeepsOf, KeepsVisited, Visits
  <2> QED BY <1>2, <1>3, <2>1, AllocatedFacts DEF AllocatesFrom
<1>4. ASSUME NEW c \in Collections(heap, Roots),
             \/ r = Allocated(c, size, contents) /\ CanAllocate(c, size)
             \/ r \in GrowingResults(c, size, contents) /\ ~CanAllocate(c, size)
      PROVE  \E g : AllocatesFrom(g, r, size, contents)
  <2>1. PICK Q \in CollectorRoots(heap, Roots) :
               /\ c = Sweep(heap, Marked(heap, Q))
               /\ Marked(heap, Q) \in SUBSET InUse(heap)
               /\ K \subseteq Marked(heap, Q)
               /\ IsMarkClosed(heap, Q, Marked(heap, Q))
    BY CollectionFacts
  <2> DEFINE L == Marked(heap, Q)
  <2>2. /\ L \subseteq InUse(heap) /\ K \subseteq L
        /\ \A b \in L : Visits(heap, b) \subseteq L
        /\ CodeWithSlack(heap, K, PushSize) = {} => L = K
    BY <2>1, CollectorRootsExact DEF IsMarkClosed
  <2>3. /\ HeapInv(c, VmData) /\ c.end = heap.end /\ c.start = heap.start
        /\ InUse(c) = L /\ \A b \in L : c.blocks[b] = heap.blocks[b]
    <3>1. c = Sweep(heap, L)
      BY <2>1
    <3> HIDE DEF K, L
    <3> QED BY <1>2, <2>2, <3>1, SweptBlocks, SweepInv
  <2> HIDE DEF L
  <2>4. HeapOk(c) /\ KeepsOf(heap, c, K) /\ KeepsVisited(heap, c)
        /\ KeepsOnlyMarked(c)
    BY <2>2, <2>3 DEF HeapOk, KeepsOf, KeepsVisited, KeepsOnlyMarked
  <2>5. CASE r = Allocated(c, size, contents) /\ CanAllocate(c, size)
    BY <1>2, <2>3, <2>4, <2>5, AllocatedFacts DEF AllocatesFrom
  <2>6. CASE r \in GrowingResults(c, size, contents) /\ ~CanAllocate(c, size)
    <3>2. PICK s : /\ CanGrow(c, s)
                   /\ \/ /\ r = Allocated(Grown(c, s), size, contents)
                         /\ CanAllocate(Grown(c, s), size)
                      \/ /\ r = NotAllocated(Grown(c, s), "none")
                         /\ s = MaxMemory \/ AllocationFails
      BY <2>4, <2>6, GrowingFacts
    <3> DEFINE g == Grown(c, s)
    <3>3. HeapInv(g, VmData) /\ g.end = s /\ KeepsInUse(c, g)
      BY <1>2, <2>3, <3>2, GrownFacts DEF CanGrow
    <3> HIDE DEF g
    <3>4. HeapOk(g) /\ heap.end <= g.end
      <4>1. c.end <= s /\ s <= MaxMemory /\ s \in Nat
        BY <3>2 DEF CanGrow
      <4>2. MinBlockSize <= heap.end
        BY DEF HeapOk
      <4> QED BY <1>2, <2>3, <3>3, <4>1, <4>2 DEF HeapOk, MinBlockSize
    <3>5. KeepsOf(heap, g, K) /\ KeepsVisited(heap, g) /\ KeepsOnlyMarked(g)
      BY <2>4, <3>3 DEF KeepsOf, KeepsInUse, KeepsVisited, KeepsOnlyMarked
    <3>6. CASE r = Allocated(g, size, contents) /\ CanAllocate(g, size)
      BY <3>4, <3>5, <3>6, AllocatedFacts DEF AllocatesFrom
    <3>7. CASE r = NotAllocated(g, "none") /\ (s = MaxMemory \/ AllocationFails)
      <4>1. r.heap = g /\ r.block = NoBlock
        BY <3>7 DEF NotAllocated
      <4> QED BY <3>3, <3>4, <3>5, <3>7, <4>1 DEF AllocatesFrom
    <3> QED BY <3>2, <3>6, <3>7 DEF g
  <2> QED BY <1>4, <2>5, <2>6
<1>5. ~\E f \in CollectionFaults(heap, Roots) : r = NotAllocated(heap, f)
  <2>1. "none" \notin CollectionFaults(heap, Roots)
    BY DEF CollectionFaults
  <2> QED BY <2>1 DEF NotAllocated
<1> QED BY <1>3, <1>4, <1>5, AllocationCases

-----------------------------------------------------------------------------
(* What keeps the parts of the invariant *)

LEMMA StackLimits ==
  /\ CallStackBytes \in Nat /\ AddressStackBytes \in Nat
  /\ CallStackBytes % 16 = 0
<1>1. CallStackBytes % 16 = 0
  BY UnlambdaVmAssumption, ModuloOf16 DEF CallStackBytes
<1>2. 16 * MaxCallStackSize \in Nat /\ 8 * MaxAddressStackSize \in Nat
  BY UnlambdaVmAssumption
<1> QED BY <1>1, <1>2, UnlambdaVmAssumption DEF CallStackBytes, AddressStackBytes

LEMMA AddressesFollow ==
  ASSUME NEW s, AddressesOk(s), NEW r, Follows(s, r, Nat)
  PROVE  /\ AddressesOk(StackDone(r))
         /\ StackOk(r) => AddressesOk(r)
         /\ s.end <= r.end /\ StackDone(r).end = r.end
<1>1. SoundStack(r, Nat) /\ r.max = s.max /\ s.end <= r.end
  BY DEF Follows
<1>2. /\ SoundStack(StackDone(r), Nat) /\ StackDone(r).max = r.max
      /\ StackDone(r).end = r.end /\ StackDone(r).status = "ok"
  <2>1. "ok" \in StackStatuses
    BY DEF StackStatuses
  <2> QED BY <1>1, <2>1, StatusFacts DEF Follows
<1> QED BY <1>1, <1>2 DEF AddressesOk, StackOk

LEMMA CallsFollow ==
  ASSUME NEW s, CallsOk(s), NEW r, Follows(s, r, Nat), Len(r.items) % 2 = 0
  PROVE  /\ CallsOk(StackDone(r))
         /\ StackOk(r) => CallsOk(r)
         /\ s.end <= r.end /\ StackDone(r).end = r.end
<1>1. SoundStack(r, Nat) /\ r.max = s.max /\ s.end <= r.end
  BY DEF Follows
<1>2. /\ SoundStack(StackDone(r), Nat) /\ StackDone(r).max = r.max
      /\ StackDone(r).end = r.end /\ StackDone(r).status = "ok"
      /\ StackDone(r).items = r.items
  <2>1. "ok" \in StackStatuses
    BY DEF StackStatuses
  <2> QED BY <1>1, <2>1, StatusFacts DEF Follows
<1>3. r.end % 16 = 0
  BY StackLimits, FramesGrow DEF Follows, CallsOk
<1> QED BY <1>1, <1>2, <1>3 DEF CallsOk, StackOk

(* Where memory grows, what fitted still fits. *)
LEMMA BlocksLater ==
  ASSUME NEW h, NEW g, NEW K, KeepsOf(h, g, K),
         NEW c \in Nat, NEW a \in Nat, BlocksOk(h, c, a),
         NEW d \in Nat, NEW e \in Nat, c <= d, a <= e
  PROVE  BlocksOk(g, d, e)
<1>1. SUFFICES ASSUME NEW b \in InUse(g) PROVE BlockOk(g.blocks[b], d, e)
  BY DEF BlocksOk
<1>2. BlockOk(g.blocks[b], c, a)
  BY DEF BlocksOk, KeepsOf
<1>3. ASSUME NEW saved, SavedFits(saved, c, a) PROVE SavedFits(saved, d, e)
  <2>1. Bytes(saved.calls) \in Nat /\ Bytes(saved.addresses) \in Nat
    BY <1>3 DEF SavedFits, StateData, Bytes, WordSize
  <2>2. Bytes(saved.calls) <= c /\ Bytes(saved.addresses) <= a
    BY <1>3 DEF SavedFits
  <2>3. Bytes(saved.calls) <= d /\ Bytes(saved.addresses) <= e
    BY <2>1, <2>2
  <2> QED BY <1>3, <2>3 DEF SavedFits
<1> QED BY <1>2, <1>3 DEF BlockOk

LEMMA KeepsItself == \A h : KeepsOf(h, h, {})
BY DEF KeepsOf

LEMMA BlocksAllocated ==
  ASSUME NEW g, NEW c, NEW a, BlocksOk(g, c, a),
         NEW f, NEW b, NEW size, NEW contents, Allocates(g, f, b, size, contents),
         contents.kind = "code" => contents.data \in CodeData,
         contents.kind = "state" => SavedFits(contents.data, c, a)
  PROVE  BlocksOk(f, c, a)
BY DEF BlocksOk, BlockOk, Allocates

LEMMA ReplaceFacts ==
  ASSUME AddressesOk(addressStack), NEW n \in Nat \ {0}, n <= AddressCount,
         NEW a \in Nat, Replaces(n, a)
  PROVE  /\ AddressesOk(addressStack')
         /\ addressStack'.end = addressStack.end /\ fault' = fault
         /\ addressStack'.items =
              SubSeq(addressStack.items, 1, AddressCount - n) \o <<a>>
<1> DEFINE s == addressStack
           r == PushStack(PopStack(s, n), <<a>>, FALSE)
           q == SubSeq(s.items, 1, Len(s.items) - n) \o <<a>>
<1>1. SoundStack(s, Nat) /\ HasWords(s, n) /\ FALSE \in BOOLEAN
  BY DEF AddressesOk, HasWords, AddressCount
<1>2. SoundStack(r, Nat) /\ r.max = s.max /\ r.end = s.end /\ Done(r, q)
  BY <1>1, PutBackFacts
<1>3. s' = StackDone(r) /\ fault' = IF StackOk(r) THEN fault ELSE "noRoomToPutBack"
  BY DEF Replaces
<1>4. s.max = AddressStackBytes /\ q = SubSeq(s.items, 1, AddressCount - n) \o <<a>>
  BY DEF AddressesOk, AddressCount
<1> HIDE DEF r, q
<1>5. /\ SoundStack(s', Nat) /\ s'.max = r.max /\ s'.end = r.end
      /\ s'.items = r.items /\ s'.status = "ok"
  <2>1. "ok" \in StackStatuses
    BY DEF StackStatuses
  <2> QED BY <1>2, <1>3, <2>1, StatusFacts DEF Follows
<1> QED BY <1>2, <1>3, <1>4, <1>5 DEF AddressesOk, Done, StackOk

(* What is read from the stacks is an address. *)
LEMMA ArgumentFacts ==
  ASSUME AddressesOk(addressStack)
  PROVE  /\ AddressCount \in Nat /\ addressStack.items \in Seq(Nat)
         /\ \A d \in Nat : d < AddressCount => Argument(d) \in Nat
<1>1. addressStack.items \in Seq(Nat)
  BY DEF AddressesOk, SoundStack
<1>2. AddressCount \in Nat
  BY <1>1 DEF AddressCount
<1>3. ASSUME NEW d \in Nat, d < AddressCount
      PROVE  Argument(d) \in Nat
  <2>1. AddressCount - d \in 1 .. Len(addressStack.items)
    BY <1>2, <1>3 DEF AddressCount
  <2> QED BY <1>1, <2>1, ElementOfSeq DEF Argument
<1> QED BY <1>1, <1>2, <1>3

LEMMA AfterFacts ==
  ASSUME VmInv, NEW n \in Nat
  PROVE  After(n) \in Nat
BY DEF VmInv, After, ProgramStart

-----------------------------------------------------------------------------
(* The steps that leave the memory alone *)

LEMMA StacksOnly ==
  ASSUME VmInv, heap' = heap,
         CallsOk(callStack'), callStack.end <= callStack'.end,
         AddressesOk(addressStack'), addressStack.end <= addressStack'.end,
         pc' \in Nat, returned' \in {0, -1}, failing'.arg \in Nat,
         fault' # "noRoomToPutBack"
  PROVE  VmInv'
<1>1. /\ callStack.end \in Nat /\ addressStack.end \in Nat
      /\ callStack'.end \in Nat /\ addressStack'.end \in Nat
  BY DEF VmInv, CallsOk, AddressesOk, SoundStack
<1>2. BlocksOk(heap, callStack'.end, addressStack'.end)
  BY <1>1, KeepsItself, BlocksLater DEF VmInv
<1> QED BY <1>2 DEF VmInv, PutBackHasRoom

LEMMA CompletesFacts ==
  ASSUME NEW n \in Nat, Completes(n)
  PROVE  pc' \in Nat /\ returned' \in {0, -1} /\ failing'.arg \in Nat
BY DEF Completes, None, Op

LEMMA FailsFacts ==
  ASSUME VmInv, NEW i, i.arg \in Nat, NEW e, Fails(i, e)
  PROVE  pc' \in Nat /\ returned' \in {0, -1} /\ failing'.arg \in Nat
BY DEF Fails, VmInv

LEMMA FailsEarlyInv ==
  ASSUME VmInv, NEW i, i.arg \in Nat, NEW e, FailsEarly(i, e)
  PROVE  VmInv'
BY FailsFacts DEF FailsEarly, VmInv, PutBackHasRoom

LEMMA BreaksInv ==
  ASSUME VmInv, NEW what, what # "noRoomToPutBack", Breaks(what)
  PROVE  VmInv'
BY DEF Breaks, VmInv, PutBackHasRoom

(* The instruction is done, and the address stack became r. *)
LEMMA AddressesBecome ==
  ASSUME VmInv, NEW r, Follows(addressStack, r, Nat), r.status = "ok",
         addressStack' = r, NEW n \in Nat, Completes(After(n)),
         UNCHANGED <<heap, callStack, fault>>
  PROVE  VmInv'
<1>1. AddressesOk(addressStack') /\ addressStack.end <= addressStack'.end
  <2>1. AddressesOk(addressStack) /\ StackOk(r)
    BY DEF VmInv, StackOk
  <2>2. AddressesOk(r) /\ addressStack.end <= r.end
    BY <2>1, AddressesFollow
  <2>3. addressStack' = r
    OBVIOUS
  <2> QED BY <2>2, <2>3, Zenon
<1>2. pc' \in Nat /\ returned' \in {0, -1} /\ failing'.arg \in Nat
  BY AfterFacts, CompletesFacts
<1>3. CallsOk(callStack') /\ callStack.end <= callStack'.end
  BY DEF VmInv, CallsOk, SoundStack
<1> QED BY <1>1, <1>2, <1>3, StacksOnly DEF VmInv, PutBackHasRoom

LEMMA OneWord == \A x \in Nat : <<x>> \in Seq(Nat)
OBVIOUS

LEMMA PushInv ==
  ASSUME VmInv, NEW i, i.arg \in Nat, Push(i)
  PROVE  VmInv'
<1>1. CASE \E e : FailsEarly(i, e)
  BY <1>1, FailsEarlyInv
<1>2. ASSUME NEW mem \in Mem,
             StackOk(PushStack(addressStack, <<i.arg>>, mem)),
             addressStack' = PushStack(addressStack, <<i.arg>>, mem),
             Completes(After(9)), UNCHANGED <<heap, callStack, fault>>
      PROVE  VmInv'
  <2> DEFINE r == PushStack(addressStack, <<i.arg>>, mem)
  <2>1. Follows(addressStack, r, Nat)
    <3> DEFINE one == <<i.arg>>
    <3>1. one \in Seq(Nat) /\ mem \in BOOLEAN /\ SoundStack(addressStack, Nat)
      BY OneWord DEF Mem, VmInv, AddressesOk
    <3> HIDE DEF one
    <3>2. Follows(addressStack, PushStack(addressStack, one, mem), Nat)
      BY <3>1, PushFacts
    <3> QED BY <3>2 DEF one
  <2> HIDE DEF r
  <2>2. r.status = "ok" /\ addressStack' = r
    BY <1>2 DEF r, StackOk
  <2> QED BY <1>2, <2>1, <2>2, AddressesBecome
<1> QED BY <1>1, <1>2 DEF Push

LEMMA PopInv ==
  ASSUME VmInv, NEW i, i.arg \in Nat, Pop(i)
  PROVE  VmInv'
<1>1. CASE AddressCount = 0
  BY <1>1, FailsEarlyInv DEF Pop
<1>2. CASE AddressCount # 0
  <2> DEFINE r == PopStack(addressStack, 1)
  <2>1. SoundStack(addressStack, Nat) /\ HasWords(addressStack, 1)
    BY <1>2, ArgumentFacts DEF VmInv, AddressesOk, HasWords, AddressCount
  <2>2. Follows(addressStack, r, Nat) /\ r.status = "ok"
    BY <2>1, PopFacts DEF Done
  <2>3. /\ addressStack' = r /\ Completes(After(1))
        /\ UNCHANGED <<heap, callStack, fault>>
    BY <1>2 DEF Pop
  <2> HIDE DEF r
  <2> QED BY <2>2, <2>3, AddressesBecome
<1> QED BY <1>1, <1>2

LEMMA SwapInv ==
  ASSUME VmInv, NEW i, i.arg \in Nat, Swap(i)
  PROVE  VmInv'
<1>1. PICK mem \in Mem :
        LET r == SwapStackTop(addressStack, 1, mem)
        IN  \/ /\ StackOk(r) /\ addressStack' = r /\ Completes(After(1))
               /\ UNCHANGED <<heap, callStack, fault>>
            \/ \E e : FailsEarly(i, e)
            \/ Breaks("swapAssertion")
  BY Zenon DEF Swap
<1> DEFINE r == SwapStackTop(addressStack, 1, mem)
<1>2. Follows(addressStack, r, Nat)
  BY SwapFacts DEF VmInv, AddressesOk, Mem
<1> HIDE DEF r
<1> QED BY <1>1, <1>2, AddressesBecome, FailsEarlyInv, BreaksInv DEF r, StackOk

LEMMA DupInv ==
  ASSUME VmInv, NEW i, i.arg \in Nat, Dup(i)
  PROVE  VmInv'
<1>1. PICK mem \in Mem :
        LET r == DupStackTop(addressStack, 1, mem)
        IN  \/ /\ StackOk(r) /\ addressStack' = r /\ Completes(After(1))
               /\ UNCHANGED <<heap, callStack, fault>>
            \/ \E e : FailsEarly(i, e)
  BY Zenon DEF Dup
<1> DEFINE r == DupStackTop(addressStack, 1, mem)
<1>2. Follows(addressStack, r, Nat)
  BY DupFacts DEF VmInv, AddressesOk, Mem
<1> HIDE DEF r
<1> QED BY <1>1, <1>2, AddressesBecome, FailsEarlyInv DEF r, StackOk

(* A call stack that is left alone. *)
LEMMA CallsStay ==
  ASSUME CallsOk(callStack), callStack' = callStack
  PROVE  CallsOk(callStack') /\ callStack.end <= callStack'.end
BY DEF CallsOk, SoundStack

(* An address stack that is left alone. *)
LEMMA AddressesStay ==
  ASSUME AddressesOk(addressStack), addressStack' = addressStack
  PROVE  AddressesOk(addressStack') /\ addressStack.end <= addressStack'.end
BY DEF AddressesOk, SoundStack

LEMMA PopLength ==
  ASSUME NEW s, SoundStack(s, Nat)
  PROVE  /\ Follows(s, PopStack(s, 1), Nat)
         /\ IF 1 <= Len(s.items)
            THEN /\ PopStack(s, 1).status = "ok"
                 /\ Len(PopStack(s, 1).items) = Len(s.items) - 1
            ELSE /\ PopStack(s, 1).status # "ok"
                 /\ Len(PopStack(s, 1).items) = Len(s.items)
<1>1. 1 \in Nat
  OBVIOUS
<1>2. /\ Follows(s, PopStack(s, 1), Nat)
      /\ IF HasWords(s, 1)
         THEN Done(PopStack(s, 1), SubSeq(s.items, 1, Len(s.items) - 1))
         ELSE Refused(s, PopStack(s, 1))
  BY <1>1, PopFacts
<1>3. HasWords(s, 1) => Len(SubSeq(s.items, 1, Len(s.items) - 1)) = Len(s.items) - 1
  BY <1>1, PartsOfStack
<1> QED BY <1>2, <1>3 DEF HasWords, Done, Refused

LEMMA PopKeepsEnd ==
  ASSUME NEW s, SoundStack(s, Nat)
  PROVE  PopStack(s, 1).end = s.end
BY DEF PopStack, StackFailed, SoundStack

LEMMA PopsAddress ==
  ASSUME AddressesOk(addressStack), 1 <= AddressCount,
         addressStack' = PopStack(addressStack, 1)
  PROVE  AddressesOk(addressStack') /\ addressStack.end <= addressStack'.end
<1> DEFINE r == PopStack(addressStack, 1)
<1>1. Follows(addressStack, r, Nat) /\ StackOk(r)
  BY PopLength DEF AddressesOk, AddressCount, StackOk
<1>2. addressStack' = r
  OBVIOUS
<1> HIDE DEF r
<1>3. AddressesOk(r) /\ addressStack.end <= r.end
  BY <1>1, AddressesFollow
<1> QED BY <1>2, <1>3, Zenon

(* An instruction fails, after it put a back in the place of n addresses. *)
LEMMA PutsBackInv ==
  ASSUME VmInv, NEW i, i.arg \in Nat, NEW e, Fails(i, e),
         NEW n \in Nat \ {0}, n <= AddressCount, NEW a \in Nat,
         Replaces(n, a), heap' = heap,
         CallsOk(callStack'), callStack.end <= callStack'.end
  PROVE  VmInv'
<1>1. /\ AddressesOk(addressStack) /\ addressStack.end \in Nat
      /\ fault # "noRoomToPutBack"
  BY DEF VmInv, AddressesOk, SoundStack, PutBackHasRoom
<1>2. /\ AddressesOk(addressStack')
      /\ addressStack'.end = addressStack.end /\ fault' = fault
  BY <1>1, ReplaceFacts
<1>3. pc' \in Nat /\ returned' \in {0, -1} /\ failing'.arg \in Nat
  BY FailsFacts
<1> QED BY <1>1, <1>2, <1>3, StacksOnly

(* The items with a frame on top: the block a, and where it returns to. *)
WithFrame(items, a, b) == (items \o <<a>>) \o <<b>>

PushWord(s, a, mem) == PushStack(s, <<a>>, mem)

(* The call stack grows by frames, so that the second push of PCALL never
   needs memory when the first has succeeded. *)
LEMMA SecondPush ==
  ASSUME NEW s, CallsOk(s), NEW a \in Nat, NEW b \in Nat,
         NEW m \in BOOLEAN, NEW n \in BOOLEAN,
         NEW first, first = PushWord(s, a, m), StackOk(first),
         NEW second, second = PushWord(first, b, n)
  PROVE  /\ CallsOk(second) /\ s.end <= second.end
         /\ second.items = WithFrame(s.items, a, b)
<1> DEFINE one == <<a>>
           two == <<b>>
           l   == Len(s.items)
<1>1. one \in Seq(Nat) /\ two \in Seq(Nat) /\ Len(one) = 1 /\ Len(two) = 1
  OBVIOUS
<1>2. first = PushStack(s, one, m) /\ second = PushStack(first, two, n)
  BY DEF PushWord
<1>3. SoundStack(s, Nat) /\ s.max = CallStackBytes /\ s.end \in Nat
  BY DEF CallsOk, SoundStack
<1>4. l \in Nat /\ l % 2 = 0 /\ s.items \in Seq(Nat)
  BY <1>3 DEF CallsOk, SoundStack
<1> DEFINE base == s.items
<1>0. base = s.items /\ l = Len(base)
  OBVIOUS
<1> HIDE DEF one, two, l, base
<1>5. Follows(s, first, Nat) /\ Done(first, s.items \o one)
  <2>1. /\ Follows(s, first, Nat)
        /\ Done(first, s.items \o one) \/ Refused(s, first)
    BY <1>1, <1>2, <1>3, PushFacts
  <2> QED BY <2>1 DEF StackOk, Refused
<1>6. Len(s.items \o one) = l + 1 /\ s.items \o one \in Seq(Nat)
  <2>1. base \in Seq(Nat) /\ Len(base) = l
    BY <1>0, <1>4
  <2>2. /\ base \o one \in Seq(Nat)
        /\ Len(base \o one) = Len(base) + Len(one)
    BY <1>1, <2>1, ConcatProperties
  <2> QED BY <1>0, <1>1, <2>1, <2>2
<1>7. SoundStack(first, Nat) /\ first.max = s.max /\ s.end <= first.end
  BY <1>5 DEF Follows
<1>8. first.end \in Nat /\ first.end % 16 = 0
  <2>1. s.end % 16 = 0 /\ s.max % 16 = 0
    BY <1>3, StackLimits DEF CallsOk
  <2> QED BY <1>3, <1>4, <1>5, <1>7, <2>1, FramesGrow DEF Follows, SoundStack, l
<1>9. StackSize(first) + Bytes(two) <= first.end
  <2>1. Len(first.items) = l + 1
    BY <1>5, <1>6, Zenon DEF Done
  <2>2. StackSize(first) = 8 * (l + 1)
    BY <1>7, <2>1, StackSizeNat
  <2>3. 8 * (l + 1) <= first.end
    BY <1>7, <2>2 DEF SoundStack
  <2>4. Bytes(two) = 8
    BY <1>1 DEF Bytes, WordSize
  <2>5. 8 * (l + 1) + 8 <= first.end
    BY <1>4, <1>8, <2>3, RoomInFrame
  <2> QED BY <2>2, <2>4, <2>5
<1>10. /\ SoundStack(second, Nat) /\ second.max = first.max
       /\ Done(second, first.items \o two) /\ second.end = first.end
  BY <1>1, <1>2, <1>7, <1>9, RoomForPush DEF Follows
<1>11. Len((s.items \o one) \o two) = (l + 1) + 1
  <2> DEFINE all == s.items \o one
  <2>1. all \in Seq(Nat) /\ Len(all) = l + 1
    BY <1>6
  <2> HIDE DEF all
  <2>2. Len(all \o two) = Len(all) + Len(two)
    BY <1>1, <2>1, ConcatProperties
  <2> QED BY <1>1, <2>1, <2>2 DEF all
<1>12. second.items = (s.items \o one) \o two /\ second.status = "ok"
  BY <1>5, <1>10 DEF Done
<1>13. Len(second.items) % 2 = 0
  <2>1. Len(second.items) = (l + 1) + 1
    BY <1>11, <1>12, Zenon
  <2>2. ((l + 1) + 1) % 2 = 0
    BY <1>4, EvenSteps
  <2> QED BY <2>1, <2>2, Zenon
<1>14. CallsOk(second) /\ s.end <= second.end
  BY <1>3, <1>7, <1>8, <1>10, <1>12, <1>13 DEF CallsOk
<1>15. second.items = WithFrame(s.items, a, b)
  BY <1>12, Zenon DEF WithFrame, one, two
<1> QED BY <1>14, <1>15

LEMMA PCallInv ==
  ASSUME VmInv, NEW i, i.arg \in Nat, PCall(i)
  PROVE  VmInv'
<1>1. /\ CallsOk(callStack) /\ AddressesOk(addressStack)
      /\ fault # "noRoomToPutBack"
  BY DEF VmInv, PutBackHasRoom
<1>2. CASE AddressCount = 0
  BY <1>2, FailsEarlyInv DEF PCall
<1>3. CASE AddressCount # 0
  <2> DEFINE a == Argument(0)
  <2>1. a \in Nat /\ 1 <= AddressCount /\ 1 \in Nat \ {0}
    BY <1>1, <1>3, ArgumentFacts
  <2> HIDE DEF a
  <2>2. CASE a >= heap.end
    <3>1. /\ Replaces(1, a) /\ Fails(i, "illegalAddress")
          /\ UNCHANGED <<heap, callStack>>
      BY <1>3, <2>2 DEF PCall, a
    <3> QED BY <1>1, <2>1, <3>1, CallsStay, PutsBackInv
  <2>3. CASE ~(a >= heap.end)
    <3>1. PICK m \in Mem, n \in Mem :
            LET first  == PushStack(callStack, <<a>>, m)
                second == PushStack(first, <<After(1)>>, n)
            IN  IF StackOk(first) /\ StackOk(second)
                THEN /\ callStack' = second
                     /\ addressStack' = PopStack(addressStack, 1)
                     /\ Completes(a)
                     /\ UNCHANGED <<heap, fault>>
                ELSE /\ callStack' = StackDone(first)
                     /\ Replaces(1, a)
                     /\ Fails(i, "callStackOverflow")
                     /\ UNCHANGED heap
      BY <1>3, <2>3, Zenon DEF PCall, a
    <3> DEFINE first  == PushStack(callStack, <<a>>, m)
               second == PushStack(first, <<After(1)>>, n)
    <3>2. m \in BOOLEAN /\ n \in BOOLEAN /\ After(1) \in Nat
      BY AfterFacts DEF Mem
    <3>3. ASSUME StackOk(first)
          PROVE  CallsOk(second) /\ callStack.end <= second.end
      <4> DEFINE next == After(1)
      <4>1. first = PushWord(callStack, a, m)
            /\ second = PushWord(first, next, n) /\ next \in Nat
        BY <3>2 DEF PushWord
      <4> HIDE DEF first, second, next
      <4> QED BY <1>1, <2>1, <3>2, <3>3, <4>1, SecondPush
    <3>4. /\ Follows(callStack, first, Nat)
          /\ ~StackOk(first) => Len(first.items) % 2 = 0
      <4> DEFINE one == <<a>>
      <4>1. one \in Seq(Nat) /\ SoundStack(callStack, Nat)
        BY <1>1, <2>1, OneWord DEF CallsOk
      <4>2. first = PushStack(callStack, one, m)
        OBVIOUS
      <4> HIDE DEF first, one
      <4>3. /\ Follows(callStack, first, Nat)
            /\ Done(first, callStack.items \o one) \/ Refused(callStack, first)
        BY <3>2, <4>1, <4>2, PushFacts
      <4> QED BY <1>1, <4>3 DEF Done, Refused, StackOk, CallsOk
    <3> HIDE DEF first, second
    <3>5. CASE StackOk(first) /\ StackOk(second)
      <4>1. /\ callStack' = second
            /\ addressStack' = PopStack(addressStack, 1)
            /\ Completes(a) /\ UNCHANGED <<heap, fault>>
        BY <3>1, <3>5, Zenon DEF first, second
      <4>2. CallsOk(callStack') /\ callStack.end <= callStack'.end
        BY <3>3, <3>5, <4>1, Zenon
      <4>3. AddressesOk(addressStack') /\ addressStack.end <= addressStack'.end
        BY <1>1, <2>1, <4>1, PopsAddress
      <4>4. pc' \in Nat /\ returned' \in {0, -1} /\ failing'.arg \in Nat
        BY <2>1, <4>1, CompletesFacts
      <4> QED BY <1>1, <4>1, <4>2, <4>3, <4>4, StacksOnly
    <3>6. CASE ~(StackOk(first) /\ StackOk(second))
      <4>1. /\ callStack' = StackDone(first) /\ Replaces(1, a)
            /\ Fails(i, "callStackOverflow") /\ heap' = heap
        BY <3>1, <3>6, Zenon DEF first, second
      <4>2. ~StackOk(first)
        BY <3>3, <3>6 DEF CallsOk, StackOk
      <4>3. /\ CallsOk(StackDone(first)) /\ callStack.end <= first.end
            /\ StackDone(first).end = first.end
        BY <1>1, <3>4, <4>2, CallsFollow
      <4>4. CallsOk(callStack') /\ callStack.end <= callStack'.end
        BY <4>1, <4>3, Zenon
      <4> QED BY <2>1, <4>1, <4>4, PutsBackInv
    <3> QED BY <3>5, <3>6
  <2> QED BY <2>2, <2>3
<1> QED BY <1>2, <1>3

LEMMA ReturnInv ==
  ASSUME VmInv, NEW i, i.arg \in Nat, Return(i)
  PROVE  VmInv'
<1> DEFINE first  == PopStack(callStack, 1)
           second == PopStack(first, 1)
           l      == Len(callStack.items)
<1>1. /\ CallsOk(callStack) /\ AddressesOk(addressStack)
      /\ fault # "noRoomToPutBack" /\ SoundStack(callStack, Nat)
  BY DEF VmInv, PutBackHasRoom, CallsOk
<1>2. l \in Nat /\ l % 2 = 0 /\ callStack.items \in Seq(Nat)
  BY <1>1 DEF CallsOk, SoundStack
<1>3. IF StackOk(first) /\ StackOk(second)
      THEN /\ callStack' = second
           /\ Completes(callStack.items[l])
           /\ UNCHANGED <<heap, addressStack, fault>>
      ELSE /\ callStack' = StackDone(first)
           /\ Fails(i, "callStackUnderflow")
           /\ UNCHANGED <<heap, addressStack, fault>>
  BY Zenon DEF Return, first, second, l
<1>4. /\ Follows(callStack, first, Nat)
      /\ IF 1 <= l
         THEN first.status = "ok" /\ Len(first.items) = l - 1
         ELSE first.status # "ok" /\ Len(first.items) = l
  BY <1>1, PopLength DEF l
<1> HIDE DEF first
<1>5. /\ Follows(first, second, Nat)
      /\ IF 1 <= Len(first.items)
         THEN second.status = "ok" /\ Len(second.items) = Len(first.items) - 1
         ELSE second.status # "ok"
  BY <1>4, PopLength DEF Follows
<1> HIDE DEF second, l
<1>6. CASE StackOk(first) /\ StackOk(second)
  <2>1. /\ callStack' = second /\ Completes(callStack.items[l])
        /\ UNCHANGED <<heap, addressStack, fault>>
    BY <1>3, <1>6
  <2>2. 2 <= l /\ Len(second.items) = l - 2
    BY <1>2, <1>4, <1>5, <1>6 DEF StackOk
  <2>3. CallsOk(second) /\ callStack.end <= second.end
    <3>1. /\ SoundStack(second, Nat) /\ second.max = first.max
          /\ first.end <= second.end
      BY <1>5 DEF Follows
    <3>2. /\ SoundStack(first, Nat) /\ first.max = callStack.max
          /\ callStack.end <= first.end
      BY <1>4 DEF Follows
    <3>3. first.end = callStack.end /\ second.end = first.end
      BY <1>1, PopKeepsEnd, <3>2 DEF first, second
    <3>4. Len(second.items) % 2 = 0
      BY <1>2, <2>2, EvenSteps
    <3> QED BY <1>1, <1>6, <3>1, <3>2, <3>3, <3>4 DEF CallsOk, StackOk, SoundStack
  <2>4. callStack.items[l] \in Nat
    BY <1>2, <2>2, ElementOfSeq DEF l
  <2>5. pc' \in Nat /\ returned' \in {0, -1} /\ failing'.arg \in Nat
    BY <2>1, <2>4, CompletesFacts
  <2> QED BY <1>1, <2>1, <2>3, <2>5, AddressesStay, StacksOnly
<1>7. CASE ~(StackOk(first) /\ StackOk(second))
  <2>1. /\ callStack' = StackDone(first) /\ Fails(i, "callStackUnderflow")
        /\ UNCHANGED <<heap, addressStack, fault>>
    BY <1>3, <1>7
  <2>2. l = 0
    BY <1>2, <1>4, <1>5, <1>7 DEF StackOk
  <2>3. Len(first.items) % 2 = 0
    <3>1. Len(first.items) = l
      BY <1>4, <2>2
    <3> QED BY <1>2, <3>1, Zenon
  <2>4. /\ CallsOk(StackDone(first)) /\ callStack.end <= first.end
        /\ StackDone(first).end = first.end
    BY <1>1, <1>4, <2>3, CallsFollow
  <2>5. CallsOk(callStack') /\ callStack.end <= callStack'.end
    BY <2>1, <2>4, Zenon
  <2>6. pc' \in Nat /\ returned' \in {0, -1} /\ failing'.arg \in Nat
    BY <2>1, FailsFacts
  <2> QED BY <1>1, <2>1, <2>5, <2>6, AddressesStay, StacksOnly
<1> QED BY <1>6, <1>7

-----------------------------------------------------------------------------
(* The steps that allocate *)

LEMMA OperandFacts ==
  /\ \A op \in BuiltOps : Op(op) \in Instruction
  /\ \A x \in Nat : PushOf(x) \in Instruction
  /\ OpOf("RESTORE", 1) \in Instruction
BY DEF BuiltOps, Instruction, Op, PushOf, OpOf

(* What the instructions write into a block is code. *)
LEMMA CodeFacts ==
  ASSUME NEW x \in Nat, NEW y \in Nat
  PROVE  /\ MkkCode(x) \in CodeData /\ Mks0Code(x) \in CodeData
         /\ Mks1Code(x, y) \in CodeData /\ Mks2Code(x, y) \in CodeData
         /\ MkdCode(x) \in CodeData /\ MkcCode(x) \in CodeData
<1>1. ASSUME NEW offsets \in SUBSET Nat, NEW code \in [offsets -> Instruction]
      PROVE  code \in CodeData
  BY DEF CodeData, Instruction
<1>2. /\ Op("PCALL") \in Instruction /\ Op("POP") \in Instruction
      /\ Op("RET") \in Instruction /\ Op("MKS1") \in Instruction
      /\ Op("MKS2") \in Instruction /\ Op("DUP") \in Instruction
      /\ Op("SWAP") \in Instruction /\ OpOf("RESTORE", 1) \in Instruction
      /\ PushOf(x) \in Instruction /\ PushOf(y) \in Instruction
  BY OperandFacts DEF BuiltOps
<1>3. MkkCode(x) \in CodeData
  <2>1. MkkCode(x) \in [{0, 1, 2, 11} -> Instruction]
    BY <1>2 DEF MkkCode
  <2>2. {0, 1, 2, 11} \in SUBSET Nat
    OBVIOUS
  <2> QED BY <1>1, <2>1, <2>2, Zenon
<1>4. Mks0Code(x) \in CodeData
  <2>1. Mks0Code(x) \in [{0, 1, 10, 11} -> Instruction]
    BY <1>2 DEF Mks0Code
  <2>2. {0, 1, 10, 11} \in SUBSET Nat
    OBVIOUS
  <2> QED BY <1>1, <2>1, <2>2, Zenon
<1>5. Mks1Code(x, y) \in CodeData
  <2>1. Mks1Code(x, y) \in [{0, 1, 2, 11, 12, 13, 22, 23, 24} -> Instruction]
    BY <1>2 DEF Mks1Code
  <2>2. {0, 1, 2, 11, 12, 13, 22, 23, 24} \in SUBSET Nat
    OBVIOUS
  <2> QED BY <1>1, <2>1, <2>2, Zenon
<1>6. Mks2Code(x, y) \in CodeData
  <2>1. Mks2Code(x, y) \in [{0, 9, 18, 19} -> Instruction]
    BY <1>2 DEF Mks2Code
  <2>2. {0, 9, 18, 19} \in SUBSET Nat
    OBVIOUS
  <2> QED BY <1>1, <2>1, <2>2, Zenon
<1>7. MkdCode(x) \in CodeData
  <2>1. MkdCode(x) \in [{0, 9, 10, 11, 12, 13, 14} -> Instruction]
    BY <1>2 DEF MkdCode
  <2>2. {0, 9, 10, 11, 12, 13, 14} \in SUBSET Nat
    OBVIOUS
  <2> QED BY <1>1, <2>1, <2>2, Zenon
<1>8. MkcCode(x) \in CodeData
  <2>1. MkcCode(x) \in [{0, 1, 10, 12} -> Instruction]
    BY <1>2 DEF MkcCode
  <2>2. {0, 1, 10, 12} \in SUBSET Nat
    OBVIOUS
  <2> QED BY <1>1, <2>1, <2>2, Zenon
<1> QED BY <1>3, <1>4, <1>5, <1>6, <1>7, <1>8

(* Every builder has its arguments, and room for the code it writes. *)
LEMMA ArityFacts ==
  ASSUME NEW op \in DOMAIN Arity
  PROVE  /\ op \in {"MKK", "MKS0", "MKS1", "MKS2", "MKD", "MKC"}
         /\ Arity[op] \in {1, 2} /\ CodeBytes[op] \in 12 .. 25
         /\ op \in {"MKS1", "MKS2"} => Arity[op] = 2
BY DEF Arity, CodeBytes

LEMMA BuiltFacts ==
  ASSUME AddressesOk(addressStack), NEW op \in DOMAIN Arity,
         Arity[op] <= AddressCount
  PROVE  LET arguments == {Argument(d) : d \in 0 .. Arity[op] - 1}
             size      == CodeBytes[op]
             contents  == CodeContents(size, arguments, BuiltCode(op))
         IN  /\ arguments \subseteq Nat /\ BuiltCode(op) \in CodeData
             /\ CodeBlockSize(size) \in Nat /\ CodeBlockSize(size) >= 8
             /\ ContentsType(contents, VmData)
             /\ contents.kind = "code" /\ contents.data = BuiltCode(op)
             /\ contents.refs = arguments
<1> DEFINE arguments == {Argument(d) : d \in 0 .. Arity[op] - 1}
           size      == CodeBytes[op]
           contents  == CodeContents(size, arguments, BuiltCode(op))
<1>1. \A d \in 0 .. Arity[op] - 1 : Argument(d) \in Nat
  BY ArgumentFacts, ArityFacts
<1>2. Argument(0) \in Nat
  BY <1>1, ArityFacts
<1>3. op \in {"MKS1", "MKS2"} => Argument(1) \in Nat
  BY <1>1, ArityFacts
<1>4. BuiltCode(op) \in CodeData
  <2>1. CASE op \in {"MKK", "MKS0", "MKD", "MKC"}
    BY <1>2, <2>1, CodeFacts DEF BuiltCode
  <2>2. CASE op \in {"MKS1", "MKS2"}
    BY <1>2, <1>3, <2>2, CodeFacts DEF BuiltCode
  <2> QED BY <2>1, <2>2, ArityFacts
<1>5. size \in 12 .. 25
  BY ArityFacts
<1>6. /\ CodeBlockSize(size) \in Nat /\ CodeBlockSize(size) >= 8
      /\ AlignTo8(size) - size \in Nat
  BY <1>5 DEF CodeBlockSize, AlignTo8
<1>7. arguments \subseteq Nat
  BY <1>1
<1> HIDE DEF arguments, size
<1>8. ContentsType(contents, VmData)
  BY <1>4, <1>6, <1>7 DEF ContentsType, CodeContents, VmData
<1>9. /\ contents.kind = "code" /\ contents.data = BuiltCode(op)
      /\ contents.refs = arguments
  BY DEF CodeContents
<1> QED BY <1>4, <1>6, <1>7, <1>8, <1>9 DEF arguments, size

(***************************************************************************)
(* The invariant where an allocation of these contents gave r from g, and  *)
(* the stacks are sound.                                                   *)
(***************************************************************************)
LEMMA AllocatedInv ==
  ASSUME VmInv, NEW g, NEW r, NEW size, NEW contents,
         AllocatesFrom(g, r, size, contents), heap' = r.heap,
         r.block # NoBlock /\ contents.kind = "code" =>
           contents.data \in CodeData,
         r.block # NoBlock /\ contents.kind = "state" =>
           SavedFits(contents.data, callStack.end, addressStack.end),
         CallsOk(callStack'), callStack.end <= callStack'.end,
         AddressesOk(addressStack'), addressStack.end <= addressStack'.end,
         pc' \in Nat, returned' \in {0, -1}, failing'.arg \in Nat,
         fault' # "noRoomToPutBack"
  PROVE  VmInv'
<1>1. /\ callStack.end \in Nat /\ addressStack.end \in Nat
      /\ callStack'.end \in Nat /\ addressStack'.end \in Nat
  BY DEF VmInv, CallsOk, AddressesOk, SoundStack
<1>2. BlocksOk(g, callStack.end, addressStack.end)
  BY <1>1, BlocksLater DEF AllocatesFrom, VmInv
<1>3. BlocksOk(r.heap, callStack.end, addressStack.end)
  <2>1. CASE r.block = NoBlock
    BY <1>2, <2>1 DEF AllocatesFrom, NoBlock
  <2>2. CASE r.block # NoBlock
    <3>1. Allocates(g, r.heap, r.block, size, contents)
      BY <2>2 DEF AllocatesFrom
    <3> QED BY <1>2, <2>2, <3>1, BlocksAllocated
  <2> QED BY <2>1, <2>2
<1>4. BlocksOk(r.heap, callStack'.end, addressStack'.end)
  BY <1>1, <1>3, KeepsItself, BlocksLater
<1>5. HeapOk(r.heap)
  BY DEF AllocatesFrom
<1> QED BY <1>4, <1>5 DEF VmInv, PutBackHasRoom

LEMMA BuildInv ==
  ASSUME VmInv, NEW i, i.arg \in Nat, Build(i)
  PROVE  VmInv'
<1>1. /\ CallsOk(callStack) /\ AddressesOk(addressStack) /\ HeapOk(heap)
      /\ fault # "noRoomToPutBack" /\ i.op \in DOMAIN Arity
  BY DEF VmInv, PutBackHasRoom, Build
<1> DEFINE n         == Arity[i.op]
           arguments == {Argument(d) : d \in 0 .. n - 1}
           size      == CodeBytes[i.op]
           contents  == CodeContents(size, arguments, BuiltCode(i.op))
<1>2. n \in Nat \ {0} /\ AddressCount \in Nat
  BY <1>1, ArityFacts, ArgumentFacts
<1>3. CASE AddressCount < n
  <2>1. FailsEarly(i, "addressStackUnderflow")
    BY <1>3 DEF Build
  <2> QED BY <2>1, FailsEarlyInv
<1>4. CASE ~(AddressCount < n)
  <2>1. PICK r \in AllocationResults(CodeBlockSize(size), contents) :
          IF r.fault # "none" THEN Breaks(r.fault)
          ELSE /\ heap' = r.heap
               /\ UNCHANGED callStack
               /\ IF r.block = NoBlock
                  THEN /\ Fails(i, "outOfMemory")
                       /\ UNCHANGED <<addressStack, fault>>
                  ELSE /\ Replaces(n, DataAddress(r.block))
                       /\ Completes(After(1))
    BY <1>4, Zenon DEF Build, n, arguments, size, contents
  <2>2. n <= AddressCount
    BY <1>2, <1>4
  <2>3. /\ CodeBlockSize(size) \in Nat /\ CodeBlockSize(size) >= 8
        /\ ContentsType(contents, VmData)
        /\ contents.kind = "code" /\ contents.data \in CodeData
    BY <1>1, <2>2, BuiltFacts
  <2> HIDE DEF contents, size, n
  <2>4. CASE r.fault # "none"
    <3>1. Breaks(r.fault)
      BY <2>1, <2>4
    <3> QED BY <3>1, FaultsOfAllocation, BreaksInv
  <2>5. CASE r.fault = "none"
    <3>1. PICK g : AllocatesFrom(g, r, CodeBlockSize(size), contents)
      BY <1>1, <2>3, <2>5, AllocationFacts
    <3>2. CallsOk(callStack') /\ callStack.end <= callStack'.end
      BY <1>1, <2>1, <2>5, CallsStay
    <3>3. heap' = r.heap
      BY <2>1, <2>5
    <3>4. CASE r.block = NoBlock
      <4>1. Fails(i, "outOfMemory") /\ UNCHANGED <<addressStack, fault>>
        BY <2>1, <2>5, <3>4
      <4>2. pc' \in Nat /\ returned' \in {0, -1} /\ failing'.arg \in Nat
        BY <4>1, FailsFacts
      <4>3. AddressesOk(addressStack') /\ addressStack.end <= addressStack'.end
        BY <1>1, <4>1, AddressesStay
      <4> QED BY <1>1, <2>3, <3>1, <3>2, <3>3, <4>1, <4>2, <4>3, AllocatedInv
    <3>5. CASE r.block # NoBlock
      <4>1. Replaces(n, DataAddress(r.block)) /\ Completes(After(1))
        BY <2>1, <2>5, <3>5
      <4>2. r.block \in Nat
        BY <3>1, <3>5 DEF AllocatesFrom
      <4>3. DataAddress(r.block) \in Nat
        BY <4>2 DEF DataAddress, HeaderSize
      <4>4. /\ AddressesOk(addressStack')
            /\ addressStack'.end = addressStack.end /\ fault' = fault
        BY <1>1, <1>2, <2>2, <4>1, <4>3, ReplaceFacts
      <4>5. addressStack.end <= addressStack'.end
        BY <1>1, <4>4 DEF AddressesOk, SoundStack
      <4>6. pc' \in Nat /\ returned' \in {0, -1} /\ failing'.arg \in Nat
        BY <4>1, AfterFacts, CompletesFacts
      <4> QED BY <1>1, <2>3, <3>1, <3>2, <3>3, <4>4, <4>5, <4>6, AllocatedInv
    <3> QED BY <3>4, <3>5
  <2> QED BY <2>4, <2>5
<1> QED BY <1>3, <1>4

LEMMA RootFacts ==
  ASSUME NEW items \in Seq(Nat)
  PROVE  CallRoots(items) \subseteq Nat /\ Range(items) \subseteq Nat
<1>1. \A k \in DOMAIN items : items[k] \in Nat
  BY ElementOfSeq
<1> QED BY <1>1 DEF CallRoots, Range

(* What SAVE stores is a state that fits into the stacks it comes from. *)
LEMMA SavedFacts ==
  ASSUME CallsOk(callStack), AddressesOk(addressStack),
         NEW n \in Nat, n <= AddressCount
  PROVE  LET calls     == callStack.items
             addresses == SubSeq(addressStack.items, 1, AddressCount - n)
             saved     == [calls |-> calls, addresses |-> addresses]
             contents  == StateContents(CallRoots(calls) \cup Range(addresses),
                                        saved)
             size      == StateBlockSize(Len(calls) \div 2, Len(addresses))
         IN  /\ SavedFits(saved, callStack.end, addressStack.end)
             /\ contents.kind = "state" /\ contents.data = saved
             /\ contents.refs = CallRoots(calls) \cup Range(addresses)
             /\ ContentsType(contents, VmData)
             /\ size \in Nat /\ size >= 8
<1> DEFINE calls     == callStack.items
           addresses == SubSeq(addressStack.items, 1, AddressCount - n)
           saved     == [calls |-> calls, addresses |-> addresses]
           refs      == CallRoots(calls) \cup Range(addresses)
           contents  == StateContents(refs, saved)
           size      == StateBlockSize(Len(calls) \div 2, Len(addresses))
<1>1. /\ calls \in Seq(Nat) /\ Len(calls) % 2 = 0
      /\ SoundStack(addressStack, Nat) /\ SoundStack(callStack, Nat)
  BY DEF CallsOk, AddressesOk, SoundStack
<1>2. addresses \in Seq(Nat) /\ Len(addresses) = Len(addressStack.items) - n
  <2>1. HasWords(addressStack, n) /\ AddressCount = Len(addressStack.items)
    BY DEF HasWords, AddressCount
  <2>2. LET rest == SubSeq(addressStack.items, 1, Len(addressStack.items) - n)
        IN  rest \in Seq(Nat) /\ Len(rest) = Len(addressStack.items) - n
    <3> DEFINE s == addressStack
    <3>1. SoundStack(s, Nat) /\ HasWords(s, n)
      BY <1>1, <2>1
    <3> HIDE DEF s
    <3>2. LET rest == SubSeq(s.items, 1, Len(s.items) - n)
          IN  rest \in Seq(Nat) /\ Len(rest) = Len(s.items) - n
      BY <3>1, PartsOfStack
    <3> QED BY <3>2 DEF s
  <2> QED BY <2>1, <2>2
<1>3. Bytes(calls) <= callStack.end
  BY <1>1 DEF SoundStack, StackSize
<1>4. Bytes(addresses) <= addressStack.end
  <2>1. StackSize(addressStack) = 8 * Len(addressStack.items)
    BY <1>1, StackSizeNat
  <2>2. Bytes(addresses) = 8 * Len(addresses)
    BY DEF Bytes, WordSize
  <2>3. /\ StackSize(addressStack) <= addressStack.end
        /\ addressStack.end \in Nat /\ Len(addressStack.items) \in Nat
    BY <1>1 DEF SoundStack
  <2> HIDE DEF addresses
  <2> QED BY <1>2, <2>1, <2>2, <2>3
<1>5. refs \subseteq Nat
  BY <1>1, <1>2, RootFacts
<1>6. size \in Nat /\ size >= 8
  <2>1. Len(calls) \in Nat /\ Len(addresses) \in Nat
    BY <1>1, <1>2
  <2>2. \A l \in Nat : l \div 2 \in Nat
    OBVIOUS
  <2> HIDE DEF calls, addresses
  <2> QED BY <2>1, <2>2 DEF StateBlockSize
<1> HIDE DEF calls, addresses, refs
<1>7. SavedFits(saved, callStack.end, addressStack.end)
  BY <1>1, <1>2, <1>3, <1>4 DEF SavedFits, StateData
<1>8. saved \in VmData
  BY <1>7 DEF SavedFits, VmData
<1> HIDE DEF saved
<1>9. /\ contents.kind = "state" /\ contents.data = saved
      /\ contents.refs = refs /\ ContentsType(contents, VmData)
  BY <1>5, <1>8 DEF StateContents, ContentsType
<1> HIDE DEF contents, size
<1> QED BY <1>6, <1>7, <1>9 DEF contents, size, saved, refs, calls, addresses

LEMMA SaveInv ==
  ASSUME VmInv, NEW i, i.arg \in Nat, Save(i)
  PROVE  VmInv'
<1> DEFINE calls     == callStack.items
           addresses == SubSeq(addressStack.items, 1, AddressCount - i.arg)
           size      == StateBlockSize(Len(calls) \div 2, Len(addresses))
           saved     == [calls |-> calls, addresses |-> addresses]
           contents  == StateContents(CallRoots(calls) \cup Range(addresses),
                                      saved)
<1>1. /\ CallsOk(callStack) /\ AddressesOk(addressStack) /\ HeapOk(heap)
      /\ fault # "noRoomToPutBack" /\ SoundStack(addressStack, Nat)
  BY DEF VmInv, PutBackHasRoom, AddressesOk
<1>2. CASE \E e : FailsEarly(i, e)
  BY <1>2, FailsEarlyInv
<1>3. ASSUME ~(AddressCount < i.arg),
             NEW r \in AllocationResults(size, contents), NEW mem \in Mem,
             LET pushed == PushStack(addressStack, <<DataAddress(r.block)>>, mem)
             IN  IF r.fault # "none" THEN Breaks(r.fault)
                 ELSE IF r.block = NoBlock
                 THEN /\ heap' = r.heap
                      /\ Fails(i, "outOfMemory")
                      /\ UNCHANGED <<callStack, addressStack, fault>>
                 ELSE IF ~StackOk(pushed) THEN Breaks("saveAssertion")
                 ELSE /\ heap' = r.heap
                      /\ addressStack' = pushed
                      /\ Completes(After(2))
                      /\ UNCHANGED <<callStack, fault>>
      PROVE  VmInv'
  <2> DEFINE pushed == PushStack(addressStack, <<DataAddress(r.block)>>, mem)
  <2>1. i.arg <= AddressCount
    BY <1>1, <1>3, ArgumentFacts
  <2>2. /\ SavedFits(saved, callStack.end, addressStack.end)
        /\ contents.kind = "state" /\ contents.data = saved
        /\ ContentsType(contents, VmData)
        /\ size \in Nat /\ size >= 8
    BY <1>1, <2>1, SavedFacts
  <2> HIDE DEF contents, size, saved
  <2>3. CASE r.fault # "none"
    <3>1. Breaks(r.fault)
      BY <1>3, <2>3
    <3> QED BY <3>1, FaultsOfAllocation, BreaksInv
  <2>4. CASE r.fault = "none" /\ r.block = NoBlock
    <3>1. /\ heap' = r.heap /\ Fails(i, "outOfMemory")
          /\ UNCHANGED <<callStack, addressStack, fault>>
      BY <1>3, <2>4
    <3>2. PICK g : AllocatesFrom(g, r, size, contents)
      BY <1>1, <2>2, <2>4, AllocationFacts
    <3>3. pc' \in Nat /\ returned' \in {0, -1} /\ failing'.arg \in Nat
      BY <3>1, FailsFacts
    <3>4. CallsOk(callStack') /\ callStack.end <= callStack'.end
      BY <1>1, <3>1, CallsStay
    <3>5. AddressesOk(addressStack') /\ addressStack.end <= addressStack'.end
      BY <1>1, <3>1, AddressesStay
    <3> QED BY <1>1, <2>2, <2>4, <3>1, <3>2, <3>3, <3>4, <3>5, AllocatedInv
  <2>5. CASE r.fault = "none" /\ r.block # NoBlock /\ ~StackOk(pushed)
    <3>1. Breaks("saveAssertion")
      BY <1>3, <2>5
    <3> QED BY <3>1, BreaksInv
  <2>6. CASE r.fault = "none" /\ r.block # NoBlock /\ StackOk(pushed)
    <3>1. /\ heap' = r.heap /\ addressStack' = pushed
          /\ Completes(After(2)) /\ UNCHANGED <<callStack, fault>>
      BY <1>3, <2>6
    <3>2. PICK g : AllocatesFrom(g, r, size, contents)
      BY <1>1, <2>2, <2>6, AllocationFacts
    <3>3. DataAddress(r.block) \in Nat
      BY <2>6, <3>2 DEF AllocatesFrom, DataAddress, HeaderSize
    <3>4. Follows(addressStack, pushed, Nat)
      <4> DEFINE one == <<DataAddress(r.block)>>
      <4>1. one \in Seq(Nat) /\ mem \in BOOLEAN
        BY <3>3, OneWord DEF Mem
      <4> HIDE DEF one
      <4>2. Follows(addressStack, PushStack(addressStack, one, mem), Nat)
        BY <1>1, <4>1, PushFacts
      <4> QED BY <4>2 DEF one
    <3> HIDE DEF pushed
    <3>5. AddressesOk(pushed) /\ addressStack.end <= pushed.end
      BY <1>1, <2>6, <3>4, AddressesFollow
    <3>6. AddressesOk(addressStack') /\ addressStack.end <= addressStack'.end
      BY <3>1, <3>5, Zenon
    <3>7. CallsOk(callStack') /\ callStack.end <= callStack'.end
      BY <1>1, <3>1, CallsStay
    <3>8. pc' \in Nat /\ returned' \in {0, -1} /\ failing'.arg \in Nat
      BY <3>1, AfterFacts, CompletesFacts
    <3> QED BY <1>1, <2>2, <3>1, <3>2, <3>6, <3>7, <3>8, AllocatedInv
  <2> HIDE DEF pushed
  <2> QED BY <2>3, <2>4, <2>5, <2>6
<1>4. \/ \E e : FailsEarly(i, e)
      \/ /\ ~(AddressCount < i.arg)
         /\ \E r \in AllocationResults(size, contents), mem \in Mem :
              LET pushed == PushStack(addressStack, <<DataAddress(r.block)>>,
                                      mem)
              IN  IF r.fault # "none" THEN Breaks(r.fault)
                  ELSE IF r.block = NoBlock
                  THEN /\ heap' = r.heap
                       /\ Fails(i, "outOfMemory")
                       /\ UNCHANGED <<callStack, addressStack, fault>>
                  ELSE IF ~StackOk(pushed) THEN Breaks("saveAssertion")
                  ELSE /\ heap' = r.heap
                       /\ addressStack' = pushed
                       /\ Completes(After(2))
                       /\ UNCHANGED <<callStack, fault>>
  BY Zenon DEF Save, calls, addresses, size, contents, saved
<1> HIDE DEF size, contents
<1> QED BY <1>2, <1>3, <1>4

-----------------------------------------------------------------------------
(* RESTORE *)

(* What it restores is a state that fits, and goes back into the stacks
   without memory. *)
LEMMA RestoredFacts ==
  ASSUME VmInv, 0 < AddressCount, IsState(Argument(0)),
         NEW n \in Nat, HasWords(PopStack(addressStack, 1), n),
         NEW m1 \in BOOLEAN, NEW m2 \in BOOLEAN, NEW m3 \in BOOLEAN
  PROVE  LET saved     == heap.blocks[Argument(0) - HeaderSize].data
             popped    == PopStack(addressStack, 1)
             calls     == SetStack(callStack, saved.calls, m1)
             addresses == SetStack(popped, saved.addresses, m2)
             top       == TopItems(popped, n)
             all       == PushStack(addresses, top, m3)
         IN  /\ StackOk(calls) /\ calls.items = saved.calls
             /\ CallsOk(calls) /\ callStack.end <= calls.end
             /\ StackOk(addresses) /\ addresses.items = saved.addresses
             /\ AddressesOk(addresses) /\ addressStack.end <= addresses.end
             /\ StackOk(all) =>
                  /\ AddressesOk(all) /\ addressStack.end <= all.end
                  /\ all.items = saved.addresses \o top
             /\ top \in Seq(Nat) /\ Len(top) = n
<1> DEFINE saved     == heap.blocks[Argument(0) - HeaderSize].data
           popped    == PopStack(addressStack, 1)
           calls     == SetStack(callStack, saved.calls, m1)
           addresses == SetStack(popped, saved.addresses, m2)
           top       == TopItems(popped, n)
           all       == PushStack(addresses, top, m3)
<1>1. SavedFits(saved, callStack.end, addressStack.end)
  BY DEF VmInv, BlocksOk, BlockOk, IsState
<1>2. /\ CallsOk(callStack) /\ AddressesOk(addressStack)
      /\ SoundStack(callStack, Nat) /\ SoundStack(addressStack, Nat)
      /\ addressStack.end \in Nat
  BY DEF VmInv, CallsOk, AddressesOk, SoundStack
<1>3. /\ SoundStack(popped, Nat) /\ popped.end = addressStack.end
      /\ AddressesOk(popped)
  <2>1. 1 <= AddressCount
    BY <1>2, ArgumentFacts
  <2>2. Follows(addressStack, popped, Nat) /\ StackOk(popped)
    BY <1>2, <2>1, PopLength DEF AddressCount, StackOk
  <2>3. popped.end = addressStack.end
    BY <1>2, PopKeepsEnd
  <2> HIDE DEF popped
  <2> QED BY <1>2, <2>2, <2>3, AddressesFollow DEF Follows
<1>4. HasWords(popped, n)
  OBVIOUS
<1>5. saved \in StateData
  BY <1>1 DEF SavedFits
<1>6. saved.calls \in Seq(Nat) /\ saved.addresses \in Seq(Nat)
  BY <1>5 DEF StateData
<1>7. /\ Bytes(saved.calls) <= callStack.end /\ Len(saved.calls) % 2 = 0
      /\ Bytes(saved.addresses) <= addressStack.end
  BY <1>1 DEF SavedFits
<1> HIDE DEF saved, popped
<1>8. /\ Follows(callStack, calls, Nat) /\ Done(calls, saved.calls)
      /\ calls.end = callStack.end
  BY <1>2, <1>6, <1>7, RoomToSet
<1>9. /\ Follows(popped, addresses, Nat) /\ Done(addresses, saved.addresses)
      /\ addresses.end = popped.end
  BY <1>3, <1>6, <1>7, RoomToSet
<1> HIDE DEF calls, addresses
<1>10. CallsOk(calls) /\ callStack.end <= calls.end /\ StackOk(calls)
  <2>1. Len(calls.items) % 2 = 0 /\ StackOk(calls)
    BY <1>7, <1>8 DEF Done, StackOk
  <2> QED BY <1>2, <1>8, <2>1, CallsFollow
<1>11. /\ AddressesOk(addresses) /\ addressStack.end <= addresses.end
       /\ StackOk(addresses)
  <2>1. StackOk(addresses)
    BY <1>9 DEF Done, StackOk
  <2> QED BY <1>2, <1>3, <1>9, <2>1, AddressesFollow
<1>12. top \in Seq(Nat) /\ Len(top) = n
  BY <1>3, <1>4, PartsOfStack
<1> HIDE DEF top
<1>13. /\ Follows(addresses, all, Nat)
       /\ Done(all, addresses.items \o top) \/ Refused(addresses, all)
  BY <1>9, <1>12, PushFacts DEF Follows
<1> HIDE DEF all
<1>14. ASSUME StackOk(all)
       PROVE  /\ AddressesOk(all) /\ addressStack.end <= all.end
              /\ all.items = saved.addresses \o top
  <2>1. AddressesOk(all) /\ addresses.end <= all.end /\ all.end \in Nat
    BY <1>11, <1>13, <1>14, AddressesFollow DEF Follows, SoundStack
  <2>2. all.items = saved.addresses \o top
    BY <1>9, <1>13, <1>14 DEF Done, Refused, StackOk
  <2> QED BY <1>2, <1>3, <1>9, <2>1, <2>2
<1>15. calls.items = saved.calls /\ addresses.items = saved.addresses
  BY <1>8, <1>9 DEF Done
<1> QED
  BY <1>10, <1>11, <1>12, <1>14, <1>15 DEF saved, popped, calls, addresses,
                                           top, all

(* The address stack is one that RESTORE leaves, and the instruction is done
   or has failed. *)
LEMMA RestoreBecomes ==
  ASSUME VmInv, NEW i, i.arg \in Nat, heap' = heap, fault' = fault,
         Completes(After(2)) \/ \E e : Fails(i, e),
         NEW calls, CallsOk(calls), callStack.end <= calls.end,
         callStack' = calls,
         NEW r, AddressesOk(r), addressStack.end <= r.end, addressStack' = r
  PROVE  VmInv'
<1>1. fault # "noRoomToPutBack"
  BY DEF VmInv, PutBackHasRoom
<1>2. pc' \in Nat /\ returned' \in {0, -1} /\ failing'.arg \in Nat
  BY AfterFacts, CompletesFacts, FailsFacts
<1>3. CallsOk(callStack') /\ callStack.end <= callStack'.end
  BY Zenon
<1>4. AddressesOk(addressStack') /\ addressStack.end <= addressStack'.end
  BY Zenon
<1> QED BY <1>1, <1>2, <1>3, <1>4, StacksOnly

(* The ways in which RESTORE ends, once there is an address to restore. *)
LEMMA RestoreCases ==
  ASSUME NEW i, Restore(i), AddressCount # 0
  PROVE  LET a      == Argument(0)
             popped == PopStack(addressStack, 1)
             saved  == heap.blocks[a - HeaderSize].data
         IN  \/ /\ \E e : e # "outOfMemory" /\ Fails(i, e)
                /\ Replaces(1, a) /\ UNCHANGED <<heap, callStack>>
             \/ /\ Fails(i, "fatal") /\ AllocationFails /\ i.arg > 0
                /\ addressStack' = popped /\ UNCHANGED <<heap, callStack, fault>>
             \/ /\ IsState(a) /\ HasWords(popped, i.arg)
                /\ ~(Bytes(saved.addresses) + WordSize * i.arg
                       > addressStack.max)
                /\ \E mems \in [1 .. 3 -> Mem] :
                     RestoresStacks(i, saved, popped, mems)
<1>1. CASE ~IsState(Argument(0))
  <2>1. RefusesState(i, Argument(0))
    BY <1>1 DEF Restore
  <2>2. \/ Fails(i, "illegalAddress") \/ Fails(i, "fatal")
    BY <2>1, Zenon DEF RefusesState
  <2>3. \E e : e # "outOfMemory" /\ Fails(i, e)
    BY <2>2
  <2>4. Replaces(1, Argument(0)) /\ UNCHANGED <<heap, callStack>>
    BY <2>1, Zenon DEF RefusesState
  <2> QED BY <2>3, <2>4, Zenon
<1>2. CASE IsState(Argument(0))
  <2>1. /\ "addressStackUnderflow" # "outOfMemory"
        /\ "addressStackOverflow" # "outOfMemory"
    OBVIOUS
  <2> QED BY <1>2, <2>1, Zenon DEF Restore, PutsStateBack
<1> QED BY <1>1, <1>2

LEMMA RestoreInv ==
  ASSUME VmInv, NEW i, i.arg \in Nat, Restore(i)
  PROVE  VmInv'
<1>1. CASE AddressCount = 0
  <2>1. FailsEarly(i, "addressStackUnderflow")
    BY <1>1 DEF Restore
  <2> QED BY <2>1, FailsEarlyInv
<1>2. CASE AddressCount # 0
  <2> DEFINE a      == Argument(0)
             popped == PopStack(addressStack, 1)
             saved  == heap.blocks[a - HeaderSize].data
  <2>1. /\ CallsOk(callStack) /\ AddressesOk(addressStack)
        /\ callStack.end \in Nat /\ AddressCount \in Nat /\ a \in Nat
    BY <1>2, ArgumentFacts DEF VmInv, CallsOk, SoundStack
  <2>2. 1 <= AddressCount /\ 1 \in Nat \ {0}
    BY <1>2, <2>1
  <2>3. AddressesOk(popped) /\ addressStack.end <= popped.end
    <3>1. Follows(addressStack, popped, Nat) /\ StackOk(popped)
      BY <2>1, <2>2, PopLength DEF AddressesOk, AddressCount, StackOk
    <3> HIDE DEF popped
    <3> QED BY <2>1, <3>1, AddressesFollow
  <2>4. CASE /\ \E e : Fails(i, e)
             /\ Replaces(1, a) /\ UNCHANGED <<heap, callStack>>
    <3>1. CallsOk(callStack') /\ callStack.end <= callStack'.end
      BY <2>1, <2>4, CallsStay
    <3> QED BY <2>1, <2>2, <2>4, <3>1, PutsBackInv
  <2>5. CASE /\ Fails(i, "fatal")
             /\ addressStack' = popped /\ UNCHANGED <<heap, callStack, fault>>
    <3> HIDE DEF popped
    <3>1. callStack.end <= callStack.end
      BY <2>1
    <3> QED BY <2>1, <2>3, <2>5, <3>1, RestoreBecomes
  <2>6. ASSUME IsState(a), HasWords(popped, i.arg),
               NEW mems \in [1 .. 3 -> Mem],
               RestoresStacks(i, saved, popped, mems)
        PROVE  VmInv'
    <3> DEFINE calls     == SetStack(callStack, saved.calls, mems[1])
               addresses == SetStack(popped, saved.addresses, mems[2])
               all       == PushStack(addresses, TopItems(popped, i.arg), mems[3])
    <3>1. \A k \in 1 .. 3 : mems[k] \in BOOLEAN
      BY DEF Mem
    <3>2. mems[1] \in BOOLEAN /\ mems[2] \in BOOLEAN /\ mems[3] \in BOOLEAN
      BY <3>1
    <3>3. /\ StackOk(calls) /\ CallsOk(calls) /\ callStack.end <= calls.end
          /\ StackOk(addresses) /\ AddressesOk(addresses)
          /\ addressStack.end <= addresses.end
          /\ StackOk(all) => AddressesOk(all) /\ addressStack.end <= all.end
      <4> DEFINE m1 == mems[1]
                 m2 == mems[2]
                 m3 == mems[3]
      <4>1. m1 \in BOOLEAN /\ m2 \in BOOLEAN /\ m3 \in BOOLEAN
        BY <3>2
      <4>2. calls = SetStack(callStack, saved.calls, m1)
            /\ addresses = SetStack(popped, saved.addresses, m2)
            /\ all = PushStack(addresses, TopItems(popped, i.arg), m3)
        OBVIOUS
      <4>3. 0 < AddressCount /\ IsState(a) /\ HasWords(popped, i.arg)
        BY <2>1, <2>2, <2>6
      <4> HIDE DEF m1, m2, m3, calls, addresses, all
      <4> QED BY <4>1, <4>2, <4>3, RestoredFacts
    <3>4. /\ UNCHANGED <<heap, fault>>
          /\ IF ~StackOk(calls)
             THEN /\ Fails(i, "fatal")
                  /\ addressStack' = popped /\ UNCHANGED callStack
             ELSE /\ callStack' = calls
                  /\ IF ~StackOk(addresses)
                     THEN Fails(i, "fatal") /\ addressStack' = popped
                     ELSE IF ~StackOk(all)
                     THEN /\ Fails(i, "addressStackOverflow")
                          /\ addressStack' = addresses
                     ELSE Completes(After(2)) /\ addressStack' = all
      BY <2>6, Zenon DEF RestoresStacks, calls, addresses, all
    <3> HIDE DEF calls, addresses, all
    <3>5. /\ heap' = heap /\ fault' = fault /\ callStack' = calls
          /\ \/ Fails(i, "addressStackOverflow") /\ addressStack' = addresses
             \/ /\ Completes(After(2)) /\ addressStack' = all /\ StackOk(all)
      BY <3>3, <3>4
    <3>6. CASE Fails(i, "addressStackOverflow") /\ addressStack' = addresses
      BY <3>3, <3>5, <3>6, RestoreBecomes
    <3>7. CASE Completes(After(2)) /\ addressStack' = all /\ StackOk(all)
      BY <3>3, <3>5, <3>7, RestoreBecomes
    <3> QED BY <3>5, <3>6, <3>7
  <2> HIDE DEF popped, saved
  <2> QED BY <1>2, <2>4, <2>5, <2>6, RestoreCases DEF a, popped, saved
<1> QED BY <1>1, <1>2

-----------------------------------------------------------------------------
(* The other steps *)

LEMMA OtherInv ==
  ASSUME VmInv, NEW i, i.arg \in Nat, PutChar(i) \/ Stop(i) \/ Illegal(i)
  PROVE  VmInv'
<1>1. CASE PutChar(i)
  <2>1. pc' \in Nat /\ returned' \in {0, -1} /\ failing'.arg \in Nat
    BY <1>1, AfterFacts, CompletesFacts DEF PutChar
  <2> QED BY <1>1, <2>1 DEF PutChar, VmInv, PutBackHasRoom
<1>2. CASE Stop(i)
  BY <1>2 DEF Stop, VmInv, PutBackHasRoom
<1>3. CASE Illegal(i)
  BY <1>3, FailsEarlyInv DEF Illegal
<1> QED BY <1>1, <1>2, <1>3

LEMMA InstructionFacts ==
  ASSUME VmInv, NEW i \in InstructionsAt(pc)
  PROVE  i.arg \in Nat
<1>1. CASE InProgram(pc)
  BY <1>1, UnlambdaVmAssumption DEF InstructionsAt, VmInv
<1>2. CASE ~InProgram(pc)
  <2>1. PICK b \in InUse(heap) :
          \/ heap.blocks[b].kind = "code" /\ i \in CodeAt(b, pc)
          \/ i \in GuardAt(b, pc)
    BY <1>2 DEF InstructionsAt
  <2>2. CASE heap.blocks[b].kind = "code" /\ i \in CodeAt(b, pc)
    <3>1. heap.blocks[b].data \in CodeData
      BY <2>2 DEF VmInv, BlocksOk, BlockOk
    <3>2. i \in Instruction
      BY <2>2, <3>1 DEF CodeAt, CodeData
    <3> QED BY <3>2 DEF Instruction
  <2>3. CASE i \in GuardAt(b, pc)
    BY <2>3 DEF GuardAt, Op
  <2> QED BY <2>1, <2>2, <2>3
<1> QED BY <1>1, <1>2

LEMMA StepInv ==
  ASSUME VmInv, Step
  PROVE  VmInv'
<1>1. \/ FailsEarly(None, "fatal") \/ Breaks("executesData")
      \/ \E i \in InstructionsAt(pc) :
           \/ Push(i) \/ Pop(i) \/ Swap(i) \/ Dup(i)
           \/ PCall(i) \/ Return(i)
           \/ Build(i) \/ Save(i) \/ Restore(i)
           \/ PutChar(i) \/ Stop(i) \/ Illegal(i)
  BY Zenon DEF Step
<1>2. CASE FailsEarly(None, "fatal")
  <2>1. None.arg \in Nat
    BY DEF None, Op
  <2> QED BY <1>2, <2>1, FailsEarlyInv
<1>3. CASE Breaks("executesData")
  BY <1>3, BreaksInv
<1>4. ASSUME NEW i \in InstructionsAt(pc),
             \/ Push(i) \/ Pop(i) \/ Swap(i) \/ Dup(i)
             \/ PCall(i) \/ Return(i)
             \/ Build(i) \/ Save(i) \/ Restore(i)
             \/ PutChar(i) \/ Stop(i) \/ Illegal(i)
      PROVE  VmInv'
  <2>1. i.arg \in Nat
    BY InstructionFacts
  <2> QED BY <1>4, <2>1, PushInv, PopInv, SwapInv, DupInv, PCallInv, ReturnInv,
             BuildInv, SaveInv, RestoreInv, OtherInv
<1> QED BY <1>1, <1>2, <1>3, <1>4

(* What the loader makes of the memory: nothing is in use in it afterwards,
   or nothing changed in what is. *)
LEMMA ReservedHeap ==
  ASSUME VmInv, NEW size \in Nat, NEW r \in ReserveResults(heap, size)
  PROVE  /\ HeapOk(r.heap)
         /\ BlocksOk(r.heap, callStack.end, addressStack.end)
<1>1. /\ HeapInv(heap, VmData) /\ <<>> \in VmData /\ heap.end \in Nat
      /\ heap.end <= MaxMemory /\ MinBlockSize <= heap.end
      /\ BlocksOk(heap, callStack.end, addressStack.end)
  BY DEF VmInv, HeapOk, VmData, HeapInv, HeapType
<1>2. /\ HeapInv(r.heap, VmData)
      /\ heap.end <= r.heap.end /\ r.heap.end <= MaxMemory
      /\ InUse(r.heap) = {} \/ KeepsInUse(heap, r.heap)
  BY <1>1, ReserveFacts
<1>3. r.heap.end \in Nat /\ MaxMemory \in Nat
  BY <1>2, MaxMemoryAssumption DEF HeapInv, HeapType
<1> QED BY <1>1, <1>2, <1>3 DEF HeapOk, BlocksOk, KeepsInUse, MinBlockSize

LEMMA LoadInv ==
  ASSUME VmInv, NEW size \in ProgramSizes,
         ReserveProgramArea(size) \/ LoadProgram(size)
  PROVE  VmInv'
<1>1. size \in Nat
  BY UnlambdaVmAssumption
<1>2. /\ heap' = heap \/ \E r \in ReserveResults(heap, size) : heap' = r.heap
      /\ returned' \in {0, -1}
      /\ UNCHANGED <<callStack, addressStack, pc, failing, fault>>
  <2>1. CASE ReserveProgramArea(size)
    BY <2>1 DEF ReserveProgramArea, VmInv
  <2>2. CASE LoadProgram(size)
    BY <2>2 DEF LoadProgram, LoadRefused
  <2> QED BY <2>1, <2>2
<1>3. /\ HeapOk(heap') /\ BlocksOk(heap', callStack.end, addressStack.end)
  BY <1>1, <1>2, ReservedHeap DEF VmInv
<1> QED BY <1>2, <1>3 DEF VmInv, PutBackHasRoom

LEMMA CreatedStackFacts ==
  ASSUME NEW initial \in Nat, NEW max \in Nat, CanCreateStack(initial, max)
  PROVE  /\ SoundStack(CreatedStack(initial, max), Nat)
         /\ CreatedStack(initial, max).end = initial
         /\ CreatedStack(initial, max).max = max
         /\ CreatedStack(initial, max).status = "ok"
         /\ CreatedStack(initial, max).items = <<>>
BY DEF CreatedStack, CanCreateStack, SoundStack, StackSize, Bytes, WordSize,
       StackStatuses

LEMMA InitInv == Init => VmInv
<1> SUFFICES ASSUME Init PROVE VmInv
  OBVIOUS
<1>1. HeapOk(heap) /\ InUse(heap) = {}
  <2>1. /\ heap = CreatedHeap(InitialMemory) /\ InitialMemory \in Nat
        /\ MinBlockSize <= InitialMemory /\ InitialMemory <= MaxMemory
        /\ <<>> \in VmData
    BY UnlambdaVmAssumption DEF Init, VmData
  <2>2. /\ HeapInv(heap, VmData) /\ heap.end = InitialMemory
        /\ InUse(heap) = {}
    BY <2>1, CreatedInv
  <2> QED BY <2>1, <2>2 DEF HeapOk
<1> DEFINE m(max) == Min({InitialStackSize, max})
<1>2. \A max \in Nat : m(max) \in Nat
  <2>1. TAKE max \in Nat
  <2> DEFINE S == {InitialStackSize, max}
  <2>2. S \in SUBSET Nat /\ S # {}
    BY UnlambdaVmAssumption
  <2> HIDE DEF S
  <2>3. Min(S) \in S
    BY <2>2, MinIsLeast
  <2> QED BY <2>2, <2>3 DEF S
<1> DEFINE c == (16 * m(MaxCallStackSize)) % UInt32
           a == (8 * m(MaxAddressStackSize)) % UInt32
<1>3. /\ callStack = CreatedStack(c, CallStackBytes)
      /\ addressStack = CreatedStack(a, AddressStackBytes)
      /\ CanCreateStack(callStack.end, CallStackBytes)
      /\ CanCreateStack(addressStack.end, AddressStackBytes)
  BY DEF Init, CreatedVmStack
<1>4. m(MaxCallStackSize) \in Nat /\ m(MaxAddressStackSize) \in Nat
  BY <1>2, UnlambdaVmAssumption
<1> HIDE DEF m
<1>5. c \in Nat /\ a \in Nat /\ c % 16 = 0
  BY <1>4, UnlambdaVmAssumption, ModuloOf16
<1> HIDE DEF c, a
<1>6. callStack.end = c /\ addressStack.end = a
  BY <1>3 DEF CreatedStack
<1>7. CallsOk(callStack)
  <2>1. /\ SoundStack(callStack, Nat) /\ callStack.end = c
        /\ callStack.max = CallStackBytes /\ callStack.status = "ok"
        /\ callStack.items = <<>>
    BY <1>3, <1>5, <1>6, StackLimits, CreatedStackFacts
  <2> QED BY <1>5, <2>1 DEF CallsOk
<1>8. AddressesOk(addressStack)
  <2>1. /\ SoundStack(addressStack, Nat) /\ addressStack.end = a
        /\ addressStack.max = AddressStackBytes /\ addressStack.status = "ok"
    BY <1>3, <1>5, <1>6, StackLimits, CreatedStackFacts
  <2> QED BY <2>1 DEF AddressesOk
<1>9. pc \in Nat /\ returned \in {0, -1} /\ failing.arg \in Nat
      /\ fault # "noRoomToPutBack"
  BY DEF Init, ProgramStart, None, Op
<1> QED BY <1>1, <1>7, <1>8, <1>9 DEF VmInv, BlocksOk, PutBackHasRoom

LEMMA NextInv == VmInv /\ [Next]_vars => VmInv'
<1>1. ASSUME VmInv, NEW size \in ProgramSizes,
             ReserveProgramArea(size) \/ LoadProgram(size)
      PROVE  VmInv'
  BY <1>1, LoadInv
<1>2. ASSUME VmInv, Step PROVE VmInv'
  BY <1>2, StepInv
<1>3. ASSUME VmInv, StepNotReady PROVE VmInv'
  BY <1>3 DEF StepNotReady, VmInv, PutBackHasRoom
<1>4. ASSUME VmInv, UNCHANGED vars PROVE VmInv'
  BY <1>4 DEF vars, VmInv, PutBackHasRoom
<1> QED BY <1>1, <1>2, <1>3, <1>4 DEF Next

LEMMA VmSoundness == Spec => []VmInv
BY InitInv, NextInv, PTL DEF Spec

-----------------------------------------------------------------------------
(* The stacks stay within their memory and the heap keeps its structure,
   whatever the program is and whatever instruction fails in whatever way. *)
THEOREM TypeTheorem == Spec => []TypeOK
<1>1. ASSUME NEW s, SoundStack(s, Nat), s.status = "ok",
             NEW bytes, s.max = bytes
      PROVE  StackType(s, bytes)
  BY <1>1 DEF SoundStack, StackType
<1>2. VmInv => TypeOK
  BY <1>1 DEF VmInv, HeapOk, HeapInv, CallsOk, AddressesOk, TypeOK
<1> QED BY <1>2, VmSoundness, PTL

(* PCALL, RET and RESTORE move two entries of the call stack or none: a block
   never takes the place of a return address, there or in a saved state. *)
THEOREM CallFramesTheorem == Spec => []CallStackInFrames
<1>1. VmInv => CallStackInFrames
  BY DEF VmInv, CallsOk, BlocksOk, BlockOk, SavedFits, CallStackInFrames
<1> QED BY <1>1, VmSoundness, PTL

(* What SAVE stored fits into the stacks at any later time: setStack cannot
   fail in RESTORE, after the address of the state has been popped. *)
THEOREM SavedStacksTheorem == Spec => []SavedStacksFit
<1>1. VmInv => SavedStacksFit
  BY DEF VmInv, BlocksOk, BlockOk, SavedFits, SavedStacksFit
<1> QED BY <1>1, VmSoundness, PTL

(* The assertions of PCALL, the MK instructions and RESTORE: an address that
   was just popped can be pushed again without memory. *)
THEOREM PutBackTheorem == Spec => []PutBackHasRoom
<1>1. VmInv => PutBackHasRoom
  BY DEF VmInv
<1> QED BY <1>1, VmSoundness, PTL

-----------------------------------------------------------------------------
(***************************************************************************)
(* Programs without continuations                                          *)
(*                                                                         *)
(* The code of a continuation holds the address of a saved state, which    *)
(* the collector does not visit (the run continuation shows it).  A        *)
(* program that makes none, and that pushes addresses of its own or such   *)
(* as no memory can have, loses nothing: everything in use refers only to  *)
(* what is in use, and the code that runs or is returned to is where the   *)
(* frames of the call stack say.                                           *)
(***************************************************************************)
PlainProgram ==
  \A i \in Instructions :
    /\ i.op # "MKC"
    /\ i.op = "PUSH" => \/ i.arg = ProgramStart
                        \/ i.arg >= MaxMemory + HeaderSize

(* Such a program pushes addresses of its own only. *)
OwnAddresses ==
  \A i \in Instructions : i.op = "PUSH" => i.arg = ProgramStart

Outside(a) ==
  a >= MaxMemory + HeaderSize /\ \E i \in Instructions : i.op = "PUSH" /\ i.arg = a

(* The address of the program, of a block in use, or of nothing. *)
LiveAt(h, a) == a < h.start \/ a - HeaderSize \in InUse(h) \/ Outside(a)

(* An instruction starts at a in the code that d is the address of. *)
InCode(h, d, a) ==
  /\ d - HeaderSize \in InUse(h) /\ h.blocks[d - HeaderSize].kind = "code"
  /\ a - d \in DOMAIN h.blocks[d - HeaderSize].data

(* The return address of a frame lies in the program, or in the block that
   the frame below called. *)
ReturnsTo(h, calls, k) ==
  calls[k] < h.start \/ (k >= 4 /\ InCode(h, calls[k - 3], calls[k]))

FramesOk(h, calls) ==
  \A k \in DOMAIN calls :
    IF k % 2 = 1 THEN LiveAt(h, calls[k]) ELSE ReturnsTo(h, calls, k)

AddressesLive(h, items) == \A a \in Range(items) : LiveAt(h, a)

(* Code that the machine built: it runs from its first byte to a RET without
   leaving the block, and pushes what the collector finds in it. *)
IsPlainCode(b) ==
  /\ 0 \in DOMAIN b.data
  /\ \A n \in DOMAIN b.data :
       /\ n < b.size
       /\ b.data[n].op \in BuiltOps \ {"RESTORE"}
       /\ b.data[n].op = "PUSH" =>
            b.data[n].arg \in b.refs /\ n + 9 \in DOMAIN b.data
       /\ b.data[n].op \notin {"PUSH", "RET"} => n + 1 \in DOMAIN b.data

(* ... and what it pushes is code. *)
CodeLive(h, b) ==
  \A a \in b.refs :
    /\ LiveAt(h, a)
    /\ a - HeaderSize \in InUse(h) => h.blocks[a - HeaderSize].kind = "code"

StateLive(h, b) ==
  /\ b.refs = CallRoots(b.data.calls) \cup Range(b.data.addresses)
  /\ FramesOk(h, b.data.calls) /\ AddressesLive(h, b.data.addresses)

PlainBlock(h, b) ==
  /\ b.kind = "code" => IsPlainCode(b) /\ CodeLive(h, b)
  /\ b.kind = "state" => StateLive(h, b)

PlainBlocks(h) == \A b \in InUse(h) : PlainBlock(h, h.blocks[b])

(* The pc is in the program or in the block of the top frame; a saved state
   that was called has no code, and the pc never moves from its first byte. *)
AtPc(h, calls, p) ==
  \/ p < h.start
  \/ /\ Len(calls) >= 2
     /\ LET d == calls[Len(calls) - 1]
        IN  \/ InCode(h, d, p)
            \/ /\ p = d /\ d - HeaderSize \in InUse(h)
               /\ h.blocks[d - HeaderSize].kind = "state"

PlainState(h, calls, addresses, p) ==
  /\ PlainBlocks(h) /\ FramesOk(h, calls) /\ AddressesLive(h, addresses)
  /\ AtPc(h, calls, p)

(* Before a program is loaded. *)
Fresh ==
  /\ callStack.items = <<>> /\ addressStack.items = <<>>
  /\ InUse(heap) = {} /\ pc = 0 /\ failing = None

Running ==
  /\ heap.start > 0
  /\ PlainState(heap, callStack.items, addressStack.items, pc)
  /\ failing \in Instructions \cup {None} \/ ~InProgram(pc)

PlainInv == IF state = "noProgram" THEN Fresh ELSE Running

-----------------------------------------------------------------------------
(* What keeps the parts of that invariant *)

(* Memory g keeps of h what the addresses in R refer to; what else it has in
   use lies where no block in use was. *)
Keeps(h, g, R) ==
  /\ g.start = h.start
  /\ \A b \in InUse(h) \cap InUse(g) : g.blocks[b] = h.blocks[b]
  /\ \A a \in R : a - HeaderSize \in InUse(h) => a - HeaderSize \in InUse(g)
  /\ \A b \in InUse(g) \ InUse(h) : h.start <= b /\ b < MaxMemory

LEMMA LiveKept ==
  ASSUME NEW h, NEW g, NEW R, Keeps(h, g, R), NEW a \in R, LiveAt(h, a)
  PROVE  LiveAt(g, a)
BY DEF Keeps, LiveAt

LEMMA InCodeKept ==
  ASSUME NEW h, NEW g, NEW R, Keeps(h, g, R), NEW d \in R, NEW a,
         InCode(h, d, a)
  PROVE  InCode(g, d, a)
<1>1. d - HeaderSize \in InUse(h) /\ d - HeaderSize \in InUse(g)
  BY DEF Keeps, InCode
<1>2. g.blocks[d - HeaderSize] = h.blocks[d - HeaderSize]
  BY <1>1 DEF Keeps
<1> QED BY <1>1, <1>2 DEF InCode

LEMMA OddBefore ==
  ASSUME NEW k \in Nat, k >= 4, k % 2 # 1
  PROVE  (k - 3) \in Nat /\ (k - 3) % 2 = 1 /\ 1 <= k - 3
OBVIOUS

LEMMA FramesKept ==
  ASSUME NEW h, NEW g, NEW calls \in Seq(Nat), Keeps(h, g, CallRoots(calls)),
         FramesOk(h, calls)
  PROVE  FramesOk(g, calls)
<1>1. g.start = h.start
  BY DEF Keeps
<1>2. ASSUME NEW k \in DOMAIN calls, k % 2 = 1
      PROVE  calls[k] \in CallRoots(calls)
  BY <1>2 DEF CallRoots
<1>3. ASSUME NEW k \in DOMAIN calls, k % 2 = 1
      PROVE  LiveAt(g, calls[k])
  <2>1. LiveAt(h, calls[k])
    BY <1>3 DEF FramesOk
  <2> QED BY <1>2, <1>3, <2>1, LiveKept
<1>4. ASSUME NEW k \in DOMAIN calls, k % 2 # 1
      PROVE  ReturnsTo(g, calls, k)
  <2>1. ReturnsTo(h, calls, k)
    BY <1>4 DEF FramesOk
  <2>2. CASE calls[k] < h.start
    BY <1>1, <2>2 DEF ReturnsTo
  <2>3. CASE k >= 4 /\ InCode(h, calls[k - 3], calls[k])
    <3>1. DOMAIN calls = 1 .. Len(calls) /\ Len(calls) \in Nat
      OBVIOUS
    <3>2. k - 3 \in DOMAIN calls /\ (k - 3) % 2 = 1
      <4>1. k \in Nat /\ k <= Len(calls) /\ k >= 4 /\ k % 2 # 1
        BY <1>4, <2>3, <3>1
      <4>2. (k - 3) \in Nat /\ (k - 3) % 2 = 1 /\ 1 <= k - 3
        BY <4>1, OddBefore
      <4> QED BY <3>1, <4>1, <4>2
    <3>3. calls[k - 3] \in CallRoots(calls)
      BY <1>2, <3>2
    <3> QED BY <2>3, <3>3, InCodeKept DEF ReturnsTo
  <2> QED BY <2>1, <2>2, <2>3 DEF ReturnsTo
<1> QED BY <1>3, <1>4 DEF FramesOk

LEMMA AddressesKept ==
  ASSUME NEW h, NEW g, NEW items, Keeps(h, g, Range(items)),
         AddressesLive(h, items)
  PROVE  AddressesLive(g, items)
BY LiveKept DEF AddressesLive

LEMMA AtPcKept ==
  ASSUME NEW h, NEW g, NEW calls \in Seq(Nat), Len(calls) % 2 = 0,
         Keeps(h, g, CallRoots(calls)), NEW p, AtPc(h, calls, p)
  PROVE  AtPc(g, calls, p)
<1>1. g.start = h.start
  BY DEF Keeps
<1>2. CASE p < h.start
  BY <1>1, <1>2 DEF AtPc
<1>3. CASE ~(p < h.start)
  <2> DEFINE d == calls[Len(calls) - 1]
  <2>1. Len(calls) >= 2 /\ Len(calls) \in Nat
    BY <1>3 DEF AtPc
  <2>2. \A l \in Nat : l >= 2 /\ l % 2 = 0 => (l - 1) % 2 = 1 /\ l - 1 \in 1 .. l
    OBVIOUS
  <2>3. d \in CallRoots(calls)
    <3>1. Len(calls) - 1 \in DOMAIN calls /\ (Len(calls) - 1) % 2 = 1
      BY <2>1, <2>2
    <3> QED BY <3>1 DEF CallRoots
  <2>4. InCode(h, d, p) \/ /\ p = d /\ d - HeaderSize \in InUse(h)
                           /\ h.blocks[d - HeaderSize].kind = "state"
    BY <1>3 DEF AtPc
  <2> HIDE DEF d
  <2>5. CASE InCode(h, d, p)
    BY <2>1, <2>3, <2>5, InCodeKept DEF AtPc, d
  <2>6. CASE /\ p = d /\ d - HeaderSize \in InUse(h)
             /\ h.blocks[d - HeaderSize].kind = "state"
    <3>1. d - HeaderSize \in InUse(g)
      BY <2>3, <2>6 DEF Keeps
    <3>2. g.blocks[d - HeaderSize] = h.blocks[d - HeaderSize]
      BY <2>6, <3>1 DEF Keeps
    <3> QED BY <2>1, <2>6, <3>1, <3>2 DEF AtPc, d
  <2> QED BY <2>4, <2>5, <2>6
<1> QED BY <1>2, <1>3

(* The headers that the addresses of blocks in use have. *)
LEMMA HeaderFacts ==
  ASSUME NEW h, HeapOk(h), NEW b \in InUse(h)
  PROVE  /\ b \in Nat /\ h.start \in Nat /\ h.end \in Nat
         /\ h.start <= b /\ b + 16 <= h.end /\ b < MaxMemory
         /\ h.blocks[b] \in BlockRecord(VmData)
<1>1. HeapInv(h, VmData) /\ h.end <= MaxMemory /\ b \in DOMAIN h.blocks
  BY DEF HeapOk, InUse
<1>2. /\ b \in Nat /\ h.end \in Nat /\ h.start \in Nat
      /\ BlockEnd(h, b) \in Nat
      /\ h.start <= b /\ BlockEnd(h, b) <= h.end /\ b + 16 <= BlockEnd(h, b)
      /\ h.blocks[b] \in BlockRecord(VmData)
  BY <1>1, BlockFacts
<1> QED BY <1>1, <1>2, MaxMemoryAssumption

(* A block that is in use in both keeps what is said of it. *)
LEMMA BlockKept ==
  ASSUME NEW h, HeapOk(h), NEW g, NEW b \in InUse(h) \cap InUse(g),
         BlockOk(h.blocks[b], callStack.end, addressStack.end),
         PlainBlock(h, h.blocks[b]), Keeps(h, g, h.blocks[b].refs)
  PROVE  PlainBlock(g, g.blocks[b])
<1> DEFINE x == h.blocks[b]
<1>1. g.blocks[b] = x /\ g.start = h.start
  BY DEF Keeps
<1>2. x \in BlockRecord(VmData) /\ h.start \in Nat
  BY HeaderFacts
<1>3. x.refs \subseteq Nat
  BY <1>2 DEF BlockRecord
<1> HIDE DEF x
<1>4. CASE x.kind = "code"
  <2>1. IsPlainCode(x) /\ CodeLive(h, x)
    BY <1>4 DEF PlainBlock, x
  <2>2. ASSUME NEW a \in x.refs
        PROVE  LiveAt(g, a)
    BY <2>1, LiveKept DEF CodeLive, x
  <2>3. ASSUME NEW a \in x.refs, a - HeaderSize \in InUse(g)
        PROVE  g.blocks[a - HeaderSize].kind = "code"
    <3>1. a - HeaderSize \in InUse(h)
      <4>1. SUFFICES ASSUME a - HeaderSize \notin InUse(h) PROVE FALSE
        OBVIOUS
      <4>2. h.start <= a - HeaderSize /\ a - HeaderSize < MaxMemory
        BY <2>3, <4>1 DEF Keeps
      <4>3. LiveAt(h, a) /\ a \in Nat
        BY <1>3, <2>1 DEF CodeLive
      <4> QED BY <1>2, <4>1, <4>2, <4>3, MaxMemoryAssumption
              DEF LiveAt, Outside, HeaderSize
    <3>2. h.blocks[a - HeaderSize].kind = "code"
      BY <2>1, <3>1 DEF CodeLive
    <3>3. g.blocks[a - HeaderSize] = h.blocks[a - HeaderSize]
      BY <2>3, <3>1 DEF Keeps
    <3> QED BY <3>2, <3>3
  <2>4. CodeLive(g, x)
    BY <2>2, <2>3 DEF CodeLive
  <2> QED BY <1>1, <1>4, <2>1, <2>4 DEF PlainBlock
<1>5. CASE x.kind = "state"
  <2>1. StateLive(h, x) /\ x.data \in StateData
    BY <1>5 DEF PlainBlock, BlockOk, SavedFits, x
  <2> DEFINE calls == x.data.calls
             items == x.data.addresses
  <2>2. /\ x.refs = CallRoots(calls) \cup Range(items)
        /\ FramesOk(h, calls) /\ AddressesLive(h, items)
        /\ calls \in Seq(Nat)
    BY <2>1 DEF StateLive, StateData
  <2> HIDE DEF calls, items
  <2>3. Keeps(h, g, CallRoots(calls)) /\ Keeps(h, g, Range(items))
    <3>1. Keeps(h, g, x.refs)
      BY DEF x
    <3> QED BY <2>2, <3>1 DEF Keeps
  <2>4. FramesOk(g, calls) /\ AddressesLive(g, items)
    BY <2>2, <2>3, FramesKept, AddressesKept
  <2>5. StateLive(g, x)
    BY <2>2, <2>4 DEF StateLive, calls, items
  <2> QED BY <1>1, <1>5, <2>5 DEF PlainBlock
<1> QED BY <1>1, <1>4, <1>5 DEF PlainBlock

(***************************************************************************)
(* The collector: what is marked keeps everything it refers to, because    *)
(* all the code it visits refers to code.                                  *)
(***************************************************************************)
LEMMA MarkedKeeps ==
  ASSUME NEW h, HeapOk(h), NEW g, NEW R, KeepsOf(h, g, Marked(h, R)),
         KeepsVisited(h, g), R \subseteq Nat, PlainBlocks(h)
  PROVE  /\ InUse(g) \subseteq InUse(h) /\ Keeps(h, g, R)
         /\ \A b \in InUse(g) : Keeps(h, g, h.blocks[b].refs)
<1>1. /\ g.start = h.start /\ InUse(g) \subseteq InUse(h)
      /\ \A b \in InUse(g) : g.blocks[b] = h.blocks[b]
  BY DEF KeepsOf
<1>2. ASSUME NEW Q, \A a \in Q : a - HeaderSize \in InUse(h)
                                 => a - HeaderSize \in InUse(g)
      PROVE  Keeps(h, g, Q)
  BY <1>1, <1>2 DEF Keeps
<1>3. /\ HeadersOf(h, R) \cap InUse(h) \subseteq InUse(g)
      /\ \A b \in InUse(g) : Visits(h, b) \subseteq InUse(g)
  BY MarkedFacts DEF IsMarkClosed, KeepsOf, KeepsVisited
<1>4. ASSUME NEW Q, Q \subseteq Nat, NEW a \in Q, a - HeaderSize \in InUse(h)
      PROVE  a - HeaderSize \in HeadersOf(h, Q)
  <2>1. h.start <= a - HeaderSize /\ h.start \in Nat /\ a \in Nat
    BY <1>4, HeaderFacts
  <2>2. a >= h.start
    BY <2>1 DEF HeaderSize
  <2> QED BY <2>2 DEF HeadersOf
<1>5. Keeps(h, g, R)
  BY <1>2, <1>3, <1>4
<1>6. ASSUME NEW b \in InUse(g)
      PROVE  Keeps(h, g, h.blocks[b].refs)
  <2> DEFINE x == h.blocks[b]
  <2>1. b \in InUse(h) /\ x.refs \subseteq Nat
        /\ x.kind \in {"free", "code", "state"}
    <3>1. x \in BlockRecord(VmData)
      BY <1>1, HeaderFacts
    <3> QED BY <1>1, <3>1 DEF BlockRecord
  <2>2. PlainBlock(h, x)
    BY <2>1 DEF PlainBlocks
  <2> SUFFICES ASSUME NEW a \in x.refs, a - HeaderSize \in InUse(h)
               PROVE  a - HeaderSize \in InUse(g)
    BY <1>2
  <2>3. a - HeaderSize \in HeadersOf(h, x.refs)
    BY <1>4, <2>1
  <2>4. x.kind = "code" => h.blocks[a - HeaderSize].kind = "code"
    BY <2>2 DEF PlainBlock, CodeLive
  <2>5. a - HeaderSize \in Visits(h, b)
    BY <2>3, <2>4 DEF Visits
  <2> QED BY <1>3, <2>5
<1> QED BY <1>1, <1>5, <1>6

-----------------------------------------------------------------------------
(* A collection keeps what the machine uses. *)
LEMMA CollectedPlain ==
  ASSUME VmInv, NEW p,
         PlainState(heap, callStack.items, addressStack.items, p),
         NEW g, KeepsOf(heap, g, Marked(heap, Roots)), KeepsVisited(heap, g)
  PROVE  PlainState(g, callStack.items, addressStack.items, p)
<1> DEFINE calls == callStack.items
           items == addressStack.items
<1>1. /\ calls \in Seq(Nat) /\ items \in Seq(Nat) /\ Len(calls) % 2 = 0
      /\ HeapOk(heap) /\ BlocksOk(heap, callStack.end, addressStack.end)
  BY DEF VmInv, CallsOk, AddressesOk, SoundStack
<1>2. /\ PlainBlocks(heap) /\ FramesOk(heap, calls)
      /\ AddressesLive(heap, items) /\ AtPc(heap, calls, p)
  BY DEF PlainState
<1>3. Roots = CallRoots(calls) \cup Range(items) /\ Roots \subseteq Nat
  BY <1>1, RootFacts DEF Roots
<1>4. /\ g.start = heap.start
      /\ \A b \in InUse(g) : g.blocks[b] = heap.blocks[b]
  BY DEF KeepsOf
<1> HIDE DEF calls, items
<1>5. /\ InUse(g) \subseteq InUse(heap) /\ Keeps(heap, g, Roots)
      /\ \A b \in InUse(g) : Keeps(heap, g, heap.blocks[b].refs)
  BY <1>1, <1>2, <1>3, <1>4, MarkedKeeps
<1>6. Keeps(heap, g, CallRoots(calls)) /\ Keeps(heap, g, Range(items))
  BY <1>3, <1>5 DEF Keeps
<1>7. PlainBlocks(g)
  <2>1. SUFFICES ASSUME NEW b \in InUse(g) PROVE PlainBlock(g, g.blocks[b])
    BY DEF PlainBlocks
  <2>2. b \in InUse(heap) \cap InUse(g)
    BY <1>5
  <2>3. /\ BlockOk(heap.blocks[b], callStack.end, addressStack.end)
        /\ PlainBlock(heap, heap.blocks[b])
        /\ Keeps(heap, g, heap.blocks[b].refs)
    BY <1>1, <1>2, <1>5, <2>2 DEF BlocksOk, PlainBlocks
  <2> QED BY <1>1, <2>2, <2>3, BlockKept
<1>8. FramesOk(g, calls) /\ AddressesLive(g, items) /\ AtPc(g, calls, p)
  BY <1>1, <1>2, <1>6, FramesKept, AddressesKept, AtPcKept
<1> QED BY <1>7, <1>8 DEF PlainState, calls, items

LEMMA AllocatedKeeps ==
  ASSUME NEW g, HeapOk(g), NEW f, NEW n, NEW size, NEW contents,
         Allocates(g, f, n, size, contents)
  PROVE  /\ n \in Nat /\ g.start <= n /\ n < MaxMemory
         /\ \A R : Keeps(g, f, R)
<1>3. /\ f.start = g.start /\ n \in FreeAddrs(g)
      /\ InUse(f) = InUse(g) \cup {n}
      /\ \A b \in InUse(g) : f.blocks[b] = g.blocks[b]
  BY DEF Allocates
<1>4. n \in Nat /\ g.start <= n /\ n < MaxMemory
  <2>1. HeapInv(g, VmData) /\ g.end <= MaxMemory /\ n \in DOMAIN g.blocks
    BY <1>3 DEF HeapOk, FreeAddrs
  <2>2. /\ n \in Nat /\ g.end \in Nat /\ BlockEnd(g, n) \in Nat
        /\ g.start <= n /\ BlockEnd(g, n) <= g.end /\ n + 16 <= BlockEnd(g, n)
    BY <2>1, BlockFacts
  <2> QED BY <2>1, <2>2, MaxMemoryAssumption
<1>5. ASSUME NEW R PROVE Keeps(g, f, R)
  BY <1>3, <1>4 DEF Keeps
<1> QED BY <1>4, <1>5

(* So does an allocation, when the new block refers to what is in use. *)
LEMMA AllocatedPlain ==
  ASSUME CallsOk(callStack), NEW g, HeapOk(g),
         BlocksOk(g, callStack.end, addressStack.end), NEW p,
         PlainState(g, callStack.items, addressStack.items, p),
         NEW f, NEW n, NEW size, NEW contents,
         Allocates(g, f, n, size, contents), PlainBlock(f, f.blocks[n])
  PROVE  /\ PlainState(f, callStack.items, addressStack.items, p)
         /\ LiveAt(f, DataAddress(n)) /\ f.start = g.start
<1> DEFINE calls == callStack.items
           items == addressStack.items
<1>1. calls \in Seq(Nat) /\ Len(calls) % 2 = 0
  BY DEF CallsOk, SoundStack
<1>2. /\ PlainBlocks(g) /\ FramesOk(g, calls)
      /\ AddressesLive(g, items) /\ AtPc(g, calls, p)
  BY DEF PlainState
<1> HIDE DEF calls, items
<1>3. /\ f.start = g.start /\ n \in FreeAddrs(g)
      /\ InUse(f) = InUse(g) \cup {n}
      /\ \A b \in InUse(g) : f.blocks[b] = g.blocks[b]
  BY DEF Allocates
<1>4. n \in Nat /\ g.start <= n /\ \A R : Keeps(g, f, R)
  BY AllocatedKeeps
<1>5. ASSUME NEW R PROVE Keeps(g, f, R)
  BY <1>4
<1>6. ASSUME NEW b \in InUse(g)
      PROVE  PlainBlock(f, f.blocks[b])
  <2>1. b \in InUse(g) \cap InUse(f) /\ Keeps(g, f, g.blocks[b].refs)
    BY <1>3, <1>5
  <2>2. /\ BlockOk(g.blocks[b], callStack.end, addressStack.end)
        /\ PlainBlock(g, g.blocks[b])
    BY <1>2 DEF BlocksOk, PlainBlocks
  <2> QED BY <2>1, <2>2, BlockKept
<1>7. PlainBlocks(f)
  BY <1>3, <1>6 DEF PlainBlocks
<1>8. FramesOk(f, calls) /\ AddressesLive(f, items) /\ AtPc(f, calls, p)
  BY <1>1, <1>2, <1>5, FramesKept, AddressesKept, AtPcKept
<1>9. LiveAt(f, DataAddress(n))
  BY <1>3, <1>4 DEF LiveAt, DataAddress, HeaderSize
<1> QED BY <1>3, <1>7, <1>8, <1>9 DEF PlainState, calls, items

(***************************************************************************)
(* The code that the machine builds, but for continuations, pushes its     *)
(* arguments and runs to its RET.                                          *)
(***************************************************************************)
LEMMA PlainCodeFacts ==
  ASSUME NEW b, NEW x \in b.refs, NEW y \in b.refs, b.size \in Nat
  PROVE  /\ b.data = MkkCode(x)     /\ b.size >= 12 => IsPlainCode(b)
         /\ b.data = Mks0Code(x)    /\ b.size >= 12 => IsPlainCode(b)
         /\ b.data = Mks1Code(x, y) /\ b.size >= 25 => IsPlainCode(b)
         /\ b.data = Mks2Code(x, y) /\ b.size >= 20 => IsPlainCode(b)
         /\ b.data = MkdCode(x)     /\ b.size >= 15 => IsPlainCode(b)
<1>1. ASSUME b.data = MkkCode(x), b.size >= 12 PROVE IsPlainCode(b)
  BY <1>1 DEF IsPlainCode, MkkCode, BuiltOps, Op, PushOf, OpOf
<1>2. ASSUME b.data = Mks0Code(x), b.size >= 12 PROVE IsPlainCode(b)
  BY <1>2 DEF IsPlainCode, Mks0Code, BuiltOps, Op, PushOf, OpOf
<1>3. ASSUME b.data = Mks1Code(x, y), b.size >= 25 PROVE IsPlainCode(b)
  BY <1>3 DEF IsPlainCode, Mks1Code, BuiltOps, Op, PushOf, OpOf
<1>4. ASSUME b.data = Mks2Code(x, y), b.size >= 20 PROVE IsPlainCode(b)
  BY <1>4 DEF IsPlainCode, Mks2Code, BuiltOps, Op, PushOf, OpOf
<1>5. ASSUME b.data = MkdCode(x), b.size >= 15 PROVE IsPlainCode(b)
  BY <1>5 DEF IsPlainCode, MkdCode, BuiltOps, Op, PushOf, OpOf
<1> QED BY <1>1, <1>2, <1>3, <1>4, <1>5

LEMMA BuiltPlain ==
  ASSUME NEW op \in DOMAIN Arity, op # "MKC", NEW b,
         b.data = BuiltCode(op), b.size \in Nat,
         b.refs = {Argument(d) : d \in 0 .. Arity[op] - 1},
         CodeBlockSize(CodeBytes[op]) <= b.size
  PROVE  IsPlainCode(b)
<1>1. Argument(0) \in b.refs /\ (Arity[op] = 2 => Argument(1) \in b.refs)
  BY ArityFacts
<1>2. CodeBytes[op] <= b.size
  <2>1. CodeBytes[op] \in 12 .. 25
    BY ArityFacts
  <2>2. CodeBytes[op] <= CodeBlockSize(CodeBytes[op])
        /\ CodeBlockSize(CodeBytes[op]) \in Nat
    BY <2>1 DEF CodeBlockSize, AlignTo8
  <2> QED BY <2>1, <2>2
<1>3. CASE op = "MKK"
  BY <1>1, <1>2, <1>3, PlainCodeFacts DEF BuiltCode, CodeBytes
<1>4. CASE op = "MKS0"
  BY <1>1, <1>2, <1>4, PlainCodeFacts DEF BuiltCode, CodeBytes
<1>5. CASE op = "MKS1"
  BY <1>1, <1>2, <1>5, ArityFacts, PlainCodeFacts DEF BuiltCode, CodeBytes
<1>6. CASE op = "MKS2"
  BY <1>1, <1>2, <1>6, ArityFacts, PlainCodeFacts DEF BuiltCode, CodeBytes
<1>7. CASE op = "MKD"
  BY <1>1, <1>2, <1>7, PlainCodeFacts DEF BuiltCode, CodeBytes
<1> QED BY <1>3, <1>4, <1>5, <1>6, <1>7, ArityFacts

-----------------------------------------------------------------------------
(* The pc stays in the program, or in the block of the top frame. *)
OnPath(p) ==
  \/ p < heap.start
  \/ /\ Len(callStack.items) >= 2
     /\ InCode(heap, callStack.items[Len(callStack.items) - 1], p)

LEMMA BlocksAreApart ==
  ASSUME NEW h, NEW Data, HeapInv(h, Data), NEW x \in Int,
         NEW b \in DOMAIN h.blocks, b <= x, x < BlockEnd(h, b),
         NEW c \in DOMAIN h.blocks, c <= x, x < BlockEnd(h, c)
  PROVE  b = c
<1>1. b \in Nat /\ BlockEnd(h, b) \in Nat /\ (b < c => BlockEnd(h, b) <= c)
  BY BlockFacts
<1>2. c \in Nat /\ BlockEnd(h, c) \in Nat /\ (c < b => BlockEnd(h, c) <= b)
  BY BlockFacts
<1> QED BY <1>1, <1>2

(* The block that an instruction lies in, and what is plain about it. *)
LEMMA CodeBlockFacts ==
  ASSUME VmInv, PlainBlocks(heap), NEW b \in InUse(heap),
         heap.blocks[b].kind = "code",
         NEW a \in Nat, a - DataAddress(b) \in DOMAIN heap.blocks[b].data
  PROVE  /\ b \in DOMAIN heap.blocks /\ b \in Nat
         /\ b <= a /\ a < BlockEnd(heap, b)
         /\ IsPlainCode(heap.blocks[b]) /\ CodeLive(heap, heap.blocks[b])
<1>1. HeapInv(heap, VmData) /\ b \in DOMAIN heap.blocks
  BY DEF VmInv, HeapOk, InUse
<1>2. /\ b \in Nat /\ heap.blocks[b].size \in Nat
      /\ BlockEnd(heap, b) = b + 8 + heap.blocks[b].size
  BY <1>1, BlockFacts
<1>3. IsPlainCode(heap.blocks[b]) /\ CodeLive(heap, heap.blocks[b])
  BY DEF PlainBlocks, PlainBlock
<1>4. heap.blocks[b].data \in CodeData
  BY DEF VmInv, BlocksOk, BlockOk
<1>5. DOMAIN heap.blocks[b].data \subseteq Nat
  BY <1>4 DEF CodeData
<1>6. a - (b + 8) \in Nat /\ a - (b + 8) < heap.blocks[b].size
  BY <1>3, <1>5 DEF IsPlainCode, DataAddress, HeaderSize
<1> QED BY <1>1, <1>2, <1>3, <1>6

LEMMA InCodeOf ==
  ASSUME NEW h, NEW d, NEW b \in InUse(h), d - HeaderSize = b,
         h.blocks[b].kind = "code", NEW a, NEW m \in DOMAIN h.blocks[b].data,
         a - d = m
  PROVE  InCode(h, d, a)
BY DEF InCode

(* What a plain program executes. *)
LEMMA InstructionPlain ==
  ASSUME VmInv, PlainProgram, Running, NEW i \in InstructionsAt(pc),
         i.op # "PANIC"
  PROVE  /\ i.op # "MKC"
         /\ i.op = "PUSH" => LiveAt(heap, i.arg) /\ OnPath(After(9))
         /\ i.op \notin {"PUSH", "RET"} => OnPath(After(1))
         /\ i.op \notin BuiltOps \ {"RESTORE"} => InProgram(pc)
<1>1. /\ pc \in Nat /\ HeapInv(heap, VmData) /\ heap.start \in Nat
      /\ heap.start > 0 /\ PlainBlocks(heap) /\ AtPc(heap, callStack.items, pc)
      /\ failing \in Instructions \cup {None} \/ ~InProgram(pc)
  BY DEF VmInv, Running, PlainState, HeapOk, HeapInv, HeapType
<1>2. CASE InProgram(pc)
  <2>1. i \in Instructions
    BY <1>1, <1>2 DEF InstructionsAt
  <2>2. \A n \in Nat : OnPath(After(n))
    BY <1>1, <1>2 DEF OnPath, After, ProgramStart
  <2>3. i.op = "PUSH" => LiveAt(heap, i.arg)
    BY <1>1, <2>1 DEF PlainProgram, LiveAt, Outside, ProgramStart
  <2> QED BY <1>2, <2>1, <2>2, <2>3 DEF PlainProgram
<1>3. CASE ~InProgram(pc)
  <2> DEFINE d == callStack.items[Len(callStack.items) - 1]
  <2>1. PICK b \in InUse(heap) :
          heap.blocks[b].kind = "code" /\ i \in CodeAt(b, pc)
    <3>1. ASSUME NEW b PROVE i \notin GuardAt(b, pc)
      BY DEF GuardAt, Op
    <3> QED BY <1>3, <3>1 DEF InstructionsAt
  <2> DEFINE x == heap.blocks[b]
             n == pc - DataAddress(b)
  <2>2. n \in DOMAIN x.data /\ i = x.data[n]
    BY <2>1 DEF CodeAt
  <2>3. /\ b \in DOMAIN heap.blocks /\ b \in Nat
        /\ b <= pc /\ pc < BlockEnd(heap, b)
        /\ IsPlainCode(x) /\ CodeLive(heap, x)
    BY <1>1, <2>1, <2>2, CodeBlockFacts
  <2>4. Len(callStack.items) >= 2 /\ d \in Nat
    <3>1. Len(callStack.items) >= 2 /\ callStack.items \in Seq(Nat)
      BY <1>1, <1>3 DEF AtPc, InProgram, VmInv, CallsOk, SoundStack
    <3>2. Len(callStack.items) - 1 \in 1 .. Len(callStack.items)
      BY <3>1
    <3> QED BY <3>1, <3>2, ElementOfSeq
  <2>5. InCode(heap, d, pc) \/ /\ pc = d /\ d - HeaderSize \in InUse(heap)
                               /\ heap.blocks[d - HeaderSize].kind = "state"
    BY <1>1, <1>3 DEF AtPc, InProgram
  <2> HIDE DEF d
  <2>6. d - HeaderSize = b
    <3>1. CASE InCode(heap, d, pc)
      <4>1. /\ d - HeaderSize \in InUse(heap)
            /\ heap.blocks[d - HeaderSize].kind = "code"
            /\ pc - d \in DOMAIN heap.blocks[d - HeaderSize].data
        BY <3>1 DEF InCode
      <4>2. pc - DataAddress(d - HeaderSize) = pc - d
        BY <1>1, <2>4 DEF DataAddress, HeaderSize
      <4>3. /\ d - HeaderSize \in DOMAIN heap.blocks /\ d - HeaderSize <= pc
            /\ pc < BlockEnd(heap, d - HeaderSize)
        <5> DEFINE c == d - HeaderSize
        <5>1. /\ c \in InUse(heap) /\ heap.blocks[c].kind = "code"
              /\ pc - DataAddress(c) \in DOMAIN heap.blocks[c].data
          BY <4>1, <4>2
        <5> HIDE DEF c
        <5>2. c \in DOMAIN heap.blocks /\ c <= pc /\ pc < BlockEnd(heap, c)
          BY <1>1, <5>1, CodeBlockFacts
        <5> QED BY <5>2 DEF c
      <4> QED BY <1>1, <2>3, <4>3, BlocksAreApart
    <3>2. CASE pc = d /\ d - HeaderSize \in InUse(heap)
      <4>1. d - HeaderSize \in DOMAIN heap.blocks
        BY <3>2 DEF InUse
      <4>2. /\ d - HeaderSize \in Nat
            /\ d - HeaderSize + 16 <= BlockEnd(heap, d - HeaderSize)
            /\ BlockEnd(heap, d - HeaderSize) \in Nat
        BY <1>1, <4>1, BlockFacts
      <4>3. d - HeaderSize <= pc /\ pc < BlockEnd(heap, d - HeaderSize)
        BY <2>4, <3>2, <4>2 DEF HeaderSize
      <4> QED BY <1>1, <2>3, <4>1, <4>3, BlocksAreApart
    <3> QED BY <2>5, <3>1, <3>2
  <2>7. n = pc - d /\ \A k \in Nat : (pc + k) - d = n + k
    BY <1>1, <2>3, <2>4, <2>6 DEF DataAddress, HeaderSize
  <2>8. ASSUME NEW k \in Nat, n + k \in DOMAIN x.data
        PROVE  OnPath(After(k))
    <3>1. After(k) = pc + k
      BY <1>3 DEF After
    <3>2. (pc + k) - d = n + k
      BY <2>7
    <3>3. InCode(heap, d, pc + k)
      BY <2>1, <2>6, <2>8, <3>2, InCodeOf, Zenon
    <3> QED BY <2>4, <3>1, <3>3 DEF OnPath, d
  <2>9. /\ i.op \in BuiltOps \ {"RESTORE"}
        /\ i.op = "PUSH" => i.arg \in x.refs /\ n + 9 \in DOMAIN x.data
        /\ i.op \notin {"PUSH", "RET"} => n + 1 \in DOMAIN x.data
    BY <2>2, <2>3 DEF IsPlainCode
  <2>10. i.op = "PUSH" => LiveAt(heap, i.arg)
    BY <2>3, <2>9 DEF CodeLive
  <2>11. i.op # "MKC"
    BY <2>9 DEF BuiltOps
  <2> HIDE DEF n, x
  <2> QED BY <2>8, <2>9, <2>10, <2>11
<1> QED BY <1>2, <1>3

-----------------------------------------------------------------------------
(* The words of a stack *)

LEMMA PartRanges ==
  ASSUME NEW s, SoundStack(s, Nat), NEW k \in Nat, HasWords(s, k)
  PROVE  /\ Range(SubSeq(s.items, 1, Len(s.items) - k)) \subseteq Range(s.items)
         /\ Range(TopItems(s, k)) \subseteq Range(s.items)
<1> DEFINE rest == SubSeq(s.items, 1, Len(s.items) - k)
           top  == TopItems(s, k)
           l    == Len(s.items)
<1>1. /\ rest \in Seq(Nat) /\ Len(rest) = l - k
      /\ \A i \in 1 .. l - k : rest[i] = s.items[i]
      /\ top \in Seq(Nat) /\ Len(top) = k
      /\ \A i \in 1 .. k : top[i] = s.items[(l - k) + i]
  BY PartsOfStack
<1>2. l \in Nat /\ k <= l /\ DOMAIN s.items = 1 .. l
  BY DEF SoundStack, HasWords
<1> HIDE DEF rest, top, l
<1>3. DOMAIN rest = 1 .. l - k /\ DOMAIN top = 1 .. k
  BY <1>1
<1>4. ASSUME NEW i \in DOMAIN rest PROVE rest[i] \in Range(s.items)
  <2>1. i \in DOMAIN s.items /\ rest[i] = s.items[i]
    BY <1>1, <1>2, <1>3
  <2> QED BY <2>1 DEF Range
<1>5. ASSUME NEW i \in DOMAIN top PROVE top[i] \in Range(s.items)
  <2> DEFINE j == (l - k) + i
  <2>1. i \in 1 .. k
    BY <1>3, <1>5
  <2>2. j \in 1 .. l
    BY <1>2, <2>1
  <2>3. top[i] = s.items[j]
    BY <1>1, <2>1
  <2> HIDE DEF j
  <2> QED BY <1>2, <2>2, <2>3 DEF Range
<1> QED BY <1>4, <1>5 DEF Range, rest, top

LEMMA ConcatRange ==
  ASSUME NEW p \in Seq(Nat), NEW q \in Seq(Nat)
  PROVE  Range(p \o q) \subseteq Range(p) \cup Range(q)
<1> DEFINE l == Len(p)
           m == Len(q)
<1>1. /\ p \o q \in Seq(Nat) /\ Len(p \o q) = l + m
      /\ \A i \in 1 .. l + m : (p \o q)[i] = IF i <= l THEN p[i] ELSE q[i - l]
  BY ConcatProperties
<1>2. /\ l \in Nat /\ m \in Nat /\ DOMAIN p = 1 .. l /\ DOMAIN q = 1 .. m
      /\ DOMAIN (p \o q) = 1 .. l + m
  BY <1>1
<1> DEFINE t == p \o q
<1> HIDE DEF t, l, m
<1>3. ASSUME NEW i \in DOMAIN t PROVE t[i] \in Range(p) \cup Range(q)
  <2>1. i \in 1 .. l + m
    BY <1>2, <1>3 DEF t
  <2>2. CASE i <= l
    <3>1. i \in DOMAIN p /\ t[i] = p[i]
      BY <1>1, <1>2, <2>1, <2>2 DEF t
    <3> QED BY <3>1 DEF Range
  <2>3. CASE ~(i <= l)
    <3>1. i - l \in DOMAIN q /\ t[i] = q[i - l]
      BY <1>1, <1>2, <2>1, <2>3 DEF t
    <3> QED BY <3>1 DEF Range
  <2> QED BY <2>2, <2>3
<1> QED BY <1>3 DEF Range, t

LEMMA WordRange == \A x \in Nat : <<x>> \in Seq(Nat) /\ Range(<<x>>) = {x}
BY DEF Range

LEMMA SwapRange ==
  ASSUME NEW s, SoundStack(s, Nat), HasWords(s, 2)
  PROVE  Range(Swapped(s, 1)) \subseteq Range(s.items)
<1> DEFINE l == Len(s.items)
<1>1. l \in Nat /\ 2 <= l /\ DOMAIN s.items = 1 .. l
  BY DEF SoundStack, HasWords
<1>2. DOMAIN Swapped(s, 1) = 1 .. l
  BY DEF Swapped
<1>3. ASSUME NEW i \in 1 .. l
      PROVE  \E k \in 1 .. l : Swapped(s, 1)[i] = s.items[k]
  <2>1. Swapped(s, 1)[i] = IF i > l - 1 THEN s.items[i - 1]
                           ELSE IF i > l - 2 * 1 THEN s.items[i + 1]
                           ELSE s.items[i]
    BY DEF Swapped
  <2> HIDE DEF l
  <2>2. CASE i > l - 1
    <3>1. i - 1 \in 1 .. l
      BY <1>1, <2>2
    <3> QED BY <2>1, <2>2, <3>1
  <2>3. CASE ~(i > l - 1)
    <3>1. i + 1 \in 1 .. l
      BY <1>1, <2>3
    <3> QED BY <2>1, <2>3, <3>1
  <2> QED BY <2>2, <2>3
<1> QED BY <1>1, <1>2, <1>3 DEF Range

LEMMA DupRange ==
  ASSUME NEW s, SoundStack(s, Nat), HasWords(s, 1)
  PROVE  Range(Duplicated(s, 1)) \subseteq Range(s.items)
<1> DEFINE l == Len(s.items)
<1>1. l \in Nat /\ 1 <= l /\ DOMAIN s.items = 1 .. l
  BY DEF SoundStack, HasWords
<1>2. DOMAIN Duplicated(s, 1) = 1 .. l + 1
  BY DEF Duplicated
<1>3. ASSUME NEW i \in 1 .. l + 1
      PROVE  \E k \in 1 .. l : Duplicated(s, 1)[i] = s.items[k]
  <2>1. Duplicated(s, 1)[i] = IF i > l THEN s.items[i - 1] ELSE s.items[i]
    BY DEF Duplicated
  <2> HIDE DEF l
  <2>2. CASE i > l
    <3>1. i - 1 \in 1 .. l
      BY <1>1, <2>2
    <3> QED BY <2>1, <2>2, <3>1
  <2>3. CASE ~(i > l)
    <3>1. i \in 1 .. l
      BY <1>1, <2>3
    <3> QED BY <2>1, <2>3, <3>1
  <2> QED BY <2>2, <2>3
<1> QED BY <1>1, <1>2, <1>3 DEF Range

(* What was popped and is pushed again is what was there. *)
LEMMA LastWord ==
  ASSUME NEW s, SoundStack(s, Nat), HasWords(s, 1)
  PROVE  /\ s.items[Len(s.items)] \in Nat
         /\ SubSeq(s.items, 1, Len(s.items) - 1) \o <<s.items[Len(s.items)]>>
              = s.items
<1> DEFINE q    == s.items
           l    == Len(q)
           rest == SubSeq(q, 1, l - 1)
           one  == <<q[l]>>
<1>1. q \in Seq(Nat) /\ l \in Nat /\ 1 <= l
  BY DEF SoundStack, HasWords
<1>2. q[l] \in Nat
  BY <1>1, ElementOfSeq
<1>3. /\ rest \in Seq(Nat) /\ Len(rest) = l - 1
      /\ \A i \in 1 .. l - 1 : rest[i] = q[i]
  BY PartsOfStack
<1>4. one \in Seq(Nat) /\ Len(one) = 1 /\ one[1] = q[l]
  BY <1>2
<1>5. l = Len(q)
  OBVIOUS
<1> HIDE DEF rest, one, q, l
<1>6. rest \o one = q
  <2> DEFINE t == rest \o one
  <2>1. l \in Nat /\ (l - 1) + 1 = l
    BY <1>1
  <2>2. Consists(Nat, t, rest, l - 1, one, 1)
    BY <1>3, <1>4, ConcatConsists
  <2> HIDE DEF t
  <2>3. /\ t \in Seq(Nat) /\ Len(t) = (l - 1) + 1
        /\ \A i \in 1 .. (l - 1) + 1 : i <= l - 1 => t[i] = rest[i]
        /\ \A i \in 1 .. (l - 1) + 1 : i > l - 1 => t[i] = one[i - (l - 1)]
    BY <2>2 DEF Consists
  <2>4. Len(t) = l
    BY <2>1, <2>3
  <2>5. ASSUME NEW i \in 1 .. l PROVE t[i] = q[i]
    <3>1. i \in 1 .. (l - 1) + 1
      BY <1>1, <2>1
    <3>2. CASE i <= l - 1
      <4>1. i \in 1 .. l - 1
        BY <1>1, <2>1, <3>2
      <4> QED BY <1>3, <2>3, <3>1, <3>2, <4>1
    <3>3. CASE ~(i <= l - 1)
      <4>1. i = l /\ i - (l - 1) = 1
        BY <1>1, <2>1, <3>3
      <4>2. i > l - 1
        BY <1>1, <2>1, <3>3
      <4>3. t[i] = one[i - (l - 1)]
        BY <2>3, <3>1, <4>2
      <4>4. t[i] = one[1]
        BY <4>1, <4>3, Zenon
      <4> QED BY <1>4, <4>1, <4>4, Zenon
    <3> QED BY <3>2, <3>3
  <2>6. q \in [1 .. l -> Nat] /\ t \in [1 .. l -> Nat]
    <3>1. q \in [1 .. Len(q) -> Nat] /\ t \in [1 .. Len(t) -> Nat]
      BY <1>1, <2>3, LenProperties
    <3> QED BY <1>5, <2>4, <3>1, Zenon
  <2>7. t = q
    <3>1. t = [i \in 1 .. l |-> t[i]] /\ q = [i \in 1 .. l |-> q[i]]
      BY <2>6
    <3>2. [i \in 1 .. l |-> t[i]] = [i \in 1 .. l |-> q[i]]
      BY <2>5
    <3> QED BY <3>1, <3>2, Zenon
  <2> QED BY <2>7 DEF t
<1> QED BY <1>2, <1>6 DEF rest, one, q, l

LEMMA PutBackSame ==
  ASSUME AddressesOk(addressStack), 0 < AddressCount, Replaces(1, Argument(0))
  PROVE  addressStack'.items = addressStack.items
<1> DEFINE s == addressStack
<1>1. /\ SoundStack(s, Nat) /\ HasWords(s, 1) /\ AddressCount = Len(s.items)
      /\ 1 \in Nat \ {0} /\ 1 <= AddressCount
  BY ArgumentFacts DEF AddressesOk, HasWords, AddressCount
<1>2. Argument(0) = s.items[Len(s.items)]
  BY <1>1 DEF Argument
<1>3. Argument(0) \in Nat
  BY <1>1, ArgumentFacts
<1>4. s'.items = SubSeq(s.items, 1, AddressCount - 1) \o <<Argument(0)>>
  BY <1>1, <1>3, ReplaceFacts
<1> HIDE DEF s
<1>5. SubSeq(s.items, 1, Len(s.items) - 1) \o <<s.items[Len(s.items)]>> = s.items
  BY <1>1, LastWord
<1>6. s'.items = s.items
  BY <1>1, <1>2, <1>4, <1>5, Zenon
<1> QED BY <1>6 DEF s

-----------------------------------------------------------------------------
(* The frames of the call stack *)

(* both is calls, of which there are l, with a frame on top. *)
HasFrame(both, calls, l, a, b) ==
  /\ both \in Seq(Nat) /\ Len(both) = l + 2
  /\ \A k \in 1 .. l : both[k] = calls[k]
  /\ both[l + 1] = a /\ both[l + 2] = b

LEMMA TwoPushed ==
  ASSUME NEW calls \in Seq(Nat), NEW a \in Nat, NEW b \in Nat
  PROVE  HasFrame(WithFrame(calls, a, b), calls, Len(calls), a, b)
<1> DEFINE l   == Len(calls)
           one == <<a>>
           two == <<b>>
           both == WithFrame(calls, a, b)
           p   == calls \o one
<1>1. /\ l \in Nat /\ one \in Seq(Nat) /\ Len(one) = 1 /\ one[1] = a
      /\ two \in Seq(Nat) /\ Len(two) = 1 /\ two[1] = b
  OBVIOUS
<1>2. l = Len(calls) /\ both = p \o two
  BY Zenon DEF WithFrame
<1>3. Consists(Nat, p, calls, l, one, 1)
  <2> HIDE DEF one, l
  <2> QED BY <1>1, <1>2, ConcatConsists
<1> HIDE DEF one, two, both, p, l
<1>4. /\ p \in Seq(Nat) /\ Len(p) = l + 1
      /\ \A k \in 1 .. l : p[k] = calls[k]
      /\ p[l + 1] = a
  <2>1. /\ p \in Seq(Nat) /\ Len(p) = l + 1
        /\ \A k \in 1 .. l + 1 : k <= l => p[k] = calls[k]
        /\ \A k \in 1 .. l + 1 : k > l => p[k] = one[k - l]
    BY <1>3 DEF Consists
  <2>2. l + 1 \in 1 .. l + 1 /\ l + 1 > l /\ (l + 1) - l = 1
    BY <1>1
  <2>3. p[l + 1] = one[(l + 1) - l]
    BY <2>1, <2>2
  <2>4. p[l + 1] = a
    BY <1>1, <2>2, <2>3, Zenon
  <2>5. \A k \in 1 .. l : p[k] = calls[k]
    BY <1>1, <2>1
  <2> QED BY <2>1, <2>4, <2>5
<1>5. Consists(Nat, both, p, l + 1, two, 1)
  BY <1>1, <1>2, <1>4, ConcatConsists
<1>6. /\ both \in Seq(Nat) /\ Len(both) = (l + 1) + 1
      /\ \A k \in 1 .. (l + 1) + 1 : k <= l + 1 => both[k] = p[k]
      /\ \A k \in 1 .. (l + 1) + 1 : k > l + 1 => both[k] = two[k - (l + 1)]
  BY <1>5 DEF Consists
<1>7. /\ (l + 1) + 1 = l + 2 /\ l + 2 \in 1 .. (l + 1) + 1
      /\ l + 2 > l + 1 /\ (l + 2) - (l + 1) = 1
      /\ l + 1 \in 1 .. (l + 1) + 1 /\ l + 1 <= l + 1
  BY <1>1
<1>8. both[l + 2] = b
  <2>1. both[l + 2] = two[(l + 2) - (l + 1)]
    BY <1>6, <1>7
  <2> QED BY <1>1, <1>7, <2>1, Zenon
<1>9. both[l + 1] = a
  <2>1. both[l + 1] = p[l + 1]
    BY <1>6, <1>7
  <2> QED BY <1>4, <2>1, Zenon
<1>10. ASSUME NEW k \in 1 .. l PROVE both[k] = calls[k]
  <2>1. k \in 1 .. (l + 1) + 1 /\ k <= l + 1
    BY <1>1
  <2> QED BY <1>4, <1>6, <2>1
<1>11. Len(both) = l + 2
  BY <1>6, <1>7
<1> QED BY <1>6, <1>8, <1>9, <1>10, <1>11 DEF HasFrame, l, both

LEMMA EvenIndices ==
  ASSUME NEW l \in Nat, l % 2 = 0
  PROVE  /\ (l + 1) % 2 = 1 /\ (l + 2) % 2 # 1
         /\ l >= 2 => l >= 4 \/ l = 2
         /\ l # 0 => l >= 2
OBVIOUS

(* A call: the block a, and the address b to return to. *)
LEMMA FramePushed ==
  ASSUME NEW h, NEW calls \in Seq(Nat), Len(calls) % 2 = 0, FramesOk(h, calls),
         NEW a \in Nat, LiveAt(h, a), NEW b \in Nat,
         \/ b < h.start
         \/ Len(calls) >= 2 /\ InCode(h, calls[Len(calls) - 1], b),
         NEW both, both = WithFrame(calls, a, b)
  PROVE  /\ FramesOk(h, both) /\ both \in Seq(Nat)
         /\ Len(both) >= 2 /\ both[Len(both) - 1] = a
<1> DEFINE l == Len(calls)
<1>0. l % 2 = 0
  OBVIOUS
<1>1. l \in Nat /\ l % 2 = 0 /\ DOMAIN calls = 1 .. l
  <2>1. l \in Nat /\ DOMAIN calls = 1 .. l
    <3>1. calls \in Seq(Nat)
      OBVIOUS
    <3> QED BY ONLY <3>1
  <2> QED BY <1>0, <2>1
<1>2. /\ both \in Seq(Nat) /\ Len(both) = l + 2
      /\ \A k \in 1 .. l : both[k] = calls[k]
      /\ both[l + 1] = a /\ both[l + 2] = b
  <2>1. HasFrame(both, calls, l, a, b)
    BY TwoPushed
  <2> QED BY <2>1 DEF HasFrame
<1>3. \/ b < h.start
      \/ l >= 2 /\ InCode(h, calls[l - 1], b)
  OBVIOUS
<1> HIDE DEF l
<1>4. DOMAIN both = 1 .. l + 2
  BY <1>2
<1>5. ASSUME NEW k \in 1 .. l + 2, k % 2 = 1
      PROVE  LiveAt(h, both[k])
  <2>1. CASE k \in 1 .. l
    <3>1. LiveAt(h, calls[k])
      BY <1>1, <1>5, <2>1 DEF FramesOk
    <3> QED BY <1>2, <2>1, <3>1
  <2>2. CASE k \notin 1 .. l
    <3>1. k = l + 1
      <4>1. k = l + 1 \/ k = l + 2
        BY <1>1, <2>2
      <4> QED BY <1>1, <1>5, <4>1, EvenIndices
    <3> QED BY <1>2, <3>1
  <2> QED BY <2>1, <2>2
<1>6. ASSUME NEW k \in 1 .. l + 2, k % 2 # 1
      PROVE  ReturnsTo(h, both, k)
  <2>1. CASE k \in 1 .. l
    <3>1. ReturnsTo(h, calls, k) /\ both[k] = calls[k]
      BY <1>1, <1>2, <1>6, <2>1 DEF FramesOk
    <3>2. k >= 4 => both[k - 3] = calls[k - 3]
      <4>1. k >= 4 => k - 3 \in 1 .. l
        BY <1>1, <2>1
      <4> QED BY <1>2, <4>1
    <3> QED BY <3>1, <3>2 DEF ReturnsTo
  <2>2. CASE k \notin 1 .. l
    <3>1. k = l + 2
      <4>1. k = l + 1 \/ k = l + 2
        BY <1>1, <2>2
      <4> QED BY <1>1, <1>6, <4>1, EvenIndices
    <3>2. CASE b < h.start
      BY <1>2, <3>1, <3>2 DEF ReturnsTo
    <3>3. CASE l >= 2 /\ InCode(h, calls[l - 1], b)
      <4>1. k >= 4 /\ k - 3 = l - 1 /\ l - 1 \in 1 .. l
        BY <1>1, <3>1, <3>3
      <4>2. both[k - 3] = calls[l - 1]
        BY <1>2, <4>1
      <4>3. InCode(h, both[k - 3], both[k])
        BY <1>2, <3>1, <3>3, <4>2
      <4> QED BY <4>1, <4>3 DEF ReturnsTo
    <3> QED BY <1>3, <3>2, <3>3
  <2> QED BY <2>1, <2>2
<1>7. FramesOk(h, both)
  BY <1>4, <1>5, <1>6 DEF FramesOk
<1>8. Len(both) >= 2 /\ both[Len(both) - 1] = a
  <2>1. l + 2 >= 2 /\ (l + 2) - 1 = l + 1
    BY <1>1
  <2> QED BY <1>2, <2>1, Zenon
<1> QED BY <1>2, <1>7, <1>8

(* A return: what is left is frames, and the address lies where they say. *)
LEMMA FramePopped ==
  ASSUME NEW h, NEW calls \in Seq(Nat), Len(calls) % 2 = 0, FramesOk(h, calls),
         Len(calls) >= 2,
         NEW rest \in Seq(Nat), Len(rest) = Len(calls) - 2,
         \A k \in 1 .. Len(calls) - 2 : rest[k] = calls[k]
  PROVE  FramesOk(h, rest) /\ AtPc(h, rest, calls[Len(calls)])
<1> DEFINE l == Len(calls)
<1>1. /\ l \in Nat /\ l % 2 = 0 /\ DOMAIN calls = 1 .. l /\ l >= 2
      /\ Len(rest) = l - 2 /\ DOMAIN rest = 1 .. l - 2
      /\ \A k \in 1 .. l - 2 : rest[k] = calls[k]
  OBVIOUS
<1> HIDE DEF l
<1>2. ASSUME NEW k \in 1 .. l - 2
      PROVE  IF k % 2 = 1 THEN LiveAt(h, rest[k]) ELSE ReturnsTo(h, rest, k)
  <2>1. rest[k] = calls[k] /\ k \in DOMAIN calls
    BY <1>1
  <2>2. k >= 4 => rest[k - 3] = calls[k - 3]
    <3>1. k >= 4 => k - 3 \in 1 .. l - 2
      BY <1>1
    <3> QED BY <1>1, <3>1
  <2>3. IF k % 2 = 1 THEN LiveAt(h, calls[k]) ELSE ReturnsTo(h, calls, k)
    BY <2>1 DEF FramesOk
  <2>4. ReturnsTo(h, calls, k) => ReturnsTo(h, rest, k)
    BY <2>1, <2>2 DEF ReturnsTo
  <2> QED BY <2>1, <2>3, <2>4
<1>3. FramesOk(h, rest)
  BY <1>1, <1>2 DEF FramesOk
<1>4. ReturnsTo(h, calls, l)
  <2>1. l \in DOMAIN calls /\ l % 2 # 1
    BY <1>1
  <2> QED BY <2>1 DEF FramesOk
<1>5. AtPc(h, rest, calls[l])
  <2>1. CASE calls[l] < h.start
    BY <2>1 DEF AtPc
  <2>2. CASE l >= 4 /\ InCode(h, calls[l - 3], calls[l])
    <3>1. Len(rest) >= 2 /\ Len(rest) - 1 = l - 3 /\ l - 3 \in 1 .. l - 2
      BY <1>1, <2>2
    <3>2. rest[Len(rest) - 1] = calls[l - 3]
      BY <1>1, <3>1
    <3> QED BY <2>2, <3>1, <3>2 DEF AtPc
  <2> QED BY <1>4, <2>1, <2>2 DEF ReturnsTo
<1> QED BY <1>3, <1>5 DEF l

-----------------------------------------------------------------------------
(***************************************************************************)
(* What a step of the machine comes to                                     *)
(***************************************************************************)
Stays ==
  /\ pc' = pc /\ callStack'.items = callStack.items
  /\ addressStack'.items = addressStack.items

(* The instruction is refused, and nothing happens. *)
Refuses ==
  /\ Stays /\ heap' = heap
  /\ status' # "outOfMemory" \/ UNCHANGED <<state, status, returned>>

(* The memory has been collected, is as large as it gets, and has no room. *)
GivesUp ==
  /\ Stays /\ KeepsOf(heap, heap', Marked(heap, Roots))
  /\ KeepsVisited(heap, heap') /\ KeepsOnlyMarked(heap')
  /\ heap'.end = MaxMemory \/ AllocationFails

(* It is executed, or fails for lack of memory after it has begun. *)
Proceeds ==
  /\ returned' = 0 \/ AllocationFails
  /\ heap'.start = heap.start
  /\ PlainProgram /\ Running
     => PlainState(heap', callStack'.items, addressStack'.items, pc')

Outcome == Refuses \/ GivesUp \/ Proceeds

LEMMA EarlyOutcome ==
  ASSUME NEW i, NEW e, e # "outOfMemory", FailsEarly(i, e)
  PROVE  Outcome
BY DEF FailsEarly, Fails, Refuses, Stays, Outcome

LEMMA BreaksOutcome == ASSUME NEW what, Breaks(what) PROVE Outcome
BY DEF Breaks, Refuses, Stays, Outcome

(* What the steps have to show that leave the memory alone. *)
LEMMA MovesOutcome ==
  ASSUME heap' = heap, returned' = 0 \/ AllocationFails,
         PlainProgram /\ Running
         => /\ FramesOk(heap, callStack'.items)
            /\ AddressesLive(heap, addressStack'.items)
            /\ AtPc(heap, callStack'.items, pc')
  PROVE  Outcome
BY DEF Proceeds, Outcome, PlainState, Running

LEMMA AddressesOutcome ==
  ASSUME heap' = heap, callStack' = callStack, Completes(After(1)),
         PlainProgram /\ Running => OnPath(After(1)),
         NEW q, addressStack'.items = q,
         \A a \in Range(q) : a \in Range(addressStack.items)
  PROVE  Outcome
<1>1. PlainProgram /\ Running
      => /\ FramesOk(heap, callStack'.items)
         /\ AddressesLive(heap, addressStack'.items)
         /\ AtPc(heap, callStack'.items, pc')
  <2> SUFFICES ASSUME PlainProgram, Running
               PROVE  /\ FramesOk(heap, callStack'.items)
                      /\ AddressesLive(heap, addressStack'.items)
                      /\ AtPc(heap, callStack'.items, pc')
    OBVIOUS
  <2>1. FramesOk(heap, callStack.items) /\ AddressesLive(heap, addressStack.items)
    BY DEF Running, PlainState
  <2>2. AddressesLive(heap, q)
    BY <2>1 DEF AddressesLive
  <2>3. AtPc(heap, callStack.items, pc')
    BY DEF Completes, OnPath, AtPc
  <2> QED BY <2>1, <2>2, <2>3
<1>2. returned' = 0
  BY DEF Completes
<1> QED BY <1>1, <1>2, MovesOutcome

-----------------------------------------------------------------------------
(* The instructions that only use the stacks *)

LEMMA PathFacts ==
  ASSUME VmInv, NEW i \in InstructionsAt(pc), i.op # "PANIC"
  PROVE  /\ i.op \notin {"PUSH", "RET"} /\ PlainProgram /\ Running
            => OnPath(After(1))
         /\ i.op \notin BuiltOps \ {"RESTORE"} /\ PlainProgram /\ Running
            => pc < heap.start
BY InstructionPlain DEF InProgram

LEMMA PushOutcome ==
  ASSUME VmInv, NEW i \in InstructionsAt(pc), Push(i)
  PROVE  Outcome
<1>1. ASSUME NEW e \in {"illegalAddress", "addressStackOverflow"},
             FailsEarly(i, e)
      PROVE  Outcome
  BY <1>1, EarlyOutcome
<1>2. ASSUME NEW mem \in Mem,
             StackOk(PushStack(addressStack, <<i.arg>>, mem)),
             addressStack' = PushStack(addressStack, <<i.arg>>, mem),
             Completes(After(9)), UNCHANGED <<heap, callStack, fault>>
      PROVE  Outcome
  <2> DEFINE one == <<i.arg>>
             s   == addressStack
             r   == PushStack(s, one, mem)
  <2>1. one \in Seq(Nat) /\ mem \in BOOLEAN /\ SoundStack(s, Nat)
        /\ Range(one) = {i.arg} /\ s.items \in Seq(Nat)
    BY InstructionFacts, WordRange DEF Mem, VmInv, AddressesOk, SoundStack
  <2> HIDE DEF one
  <2>2. Done(r, s.items \o one)
    <3>1. Done(r, s.items \o one) \/ Refused(s, r)
      BY <2>1, PushFacts
    <3> QED BY <1>2, <3>1 DEF Refused, StackOk, one
  <2>3. s'.items = s.items \o one
    BY <1>2, <2>2 DEF Done, one
  <2> HIDE DEF s
  <2>4. Range(s.items \o one) \subseteq Range(s.items) \cup {i.arg}
    BY <2>1, ConcatRange
  <2>5. ASSUME PlainProgram, Running
        PROVE  /\ FramesOk(heap, callStack'.items)
               /\ AddressesLive(heap, addressStack'.items)
               /\ AtPc(heap, callStack'.items, pc')
    <3>1. i.op = "PUSH"
      BY DEF Push
    <3>2. LiveAt(heap, i.arg) /\ OnPath(After(9))
      BY <2>5, <3>1, InstructionPlain
    <3>3. /\ FramesOk(heap, callStack.items)
          /\ AddressesLive(heap, addressStack.items)
      BY <2>5 DEF Running, PlainState
    <3>4. AddressesLive(heap, s.items \o one)
      BY <2>4, <3>2, <3>3 DEF AddressesLive, s
    <3>5. AtPc(heap, callStack.items, pc')
      BY <1>2, <3>2 DEF Completes, OnPath, AtPc
    <3> QED BY <1>2, <2>3, <3>3, <3>4, <3>5 DEF s
  <2>6. heap' = heap /\ returned' = 0
    BY <1>2 DEF Completes
  <2> QED BY <2>5, <2>6, MovesOutcome
<1> QED BY <1>1, <1>2 DEF Push

LEMMA PopOutcome ==
  ASSUME VmInv, NEW i \in InstructionsAt(pc), Pop(i)
  PROVE  Outcome
<1>1. CASE AddressCount = 0
  BY <1>1, EarlyOutcome DEF Pop
<1>2. CASE AddressCount # 0
  <2> DEFINE r == PopStack(addressStack, 1)
             q == SubSeq(addressStack.items, 1, Len(addressStack.items) - 1)
  <2>1. SoundStack(addressStack, Nat) /\ HasWords(addressStack, 1)
    BY <1>2, ArgumentFacts DEF VmInv, AddressesOk, HasWords, AddressCount
  <2>2. Done(r, q) /\ Range(q) \subseteq Range(addressStack.items)
    BY <2>1, PopFacts, PartRanges
  <2>3. /\ addressStack' = r /\ Completes(After(1))
        /\ UNCHANGED <<heap, callStack, fault>>
    BY <1>2 DEF Pop
  <2> HIDE DEF r, q
  <2>4. addressStack'.items = q
    BY <2>2, <2>3 DEF Done
  <2>5. PlainProgram /\ Running => OnPath(After(1))
    BY PathFacts DEF Pop
  <2> QED BY <2>2, <2>3, <2>4, <2>5, AddressesOutcome
<1> QED BY <1>1, <1>2

LEMMA SwapOutcome ==
  ASSUME VmInv, NEW i \in InstructionsAt(pc), Swap(i)
  PROVE  Outcome
<1>1. PICK mem \in Mem :
        LET r == SwapStackTop(addressStack, 1, mem)
        IN  \/ /\ StackOk(r) /\ addressStack' = r /\ Completes(After(1))
               /\ UNCHANGED <<heap, callStack, fault>>
            \/ FailsEarly(i, "addressStackUnderflow")
            \/ Breaks("swapAssertion")
  BY Zenon DEF Swap
<1> DEFINE r == SwapStackTop(addressStack, 1, mem)
           q == Swapped(addressStack, 1)
<1>2. SoundStack(addressStack, Nat) /\ mem \in BOOLEAN
  BY DEF VmInv, AddressesOk, Mem
<1>3. Refused(addressStack, r) \/ (HasWords(addressStack, 2) /\ Done(r, q))
  <2>1. 2 * 1 = 2
    OBVIOUS
  <2>2. Refused(addressStack, r)
        \/ (HasWords(addressStack, 2 * 1) /\ Done(r, q))
    BY <1>2, SwapFacts
  <2> QED BY <2>1, <2>2
<1> HIDE DEF r
<1>4. CASE StackOk(r) /\ addressStack' = r /\ Completes(After(1))
           /\ UNCHANGED <<heap, callStack, fault>>
  <2>1. HasWords(addressStack, 2) /\ r.items = q
    BY <1>3, <1>4 DEF Refused, Done, StackOk
  <2>2. Range(q) \subseteq Range(addressStack.items)
    BY <1>2, <2>1, SwapRange
  <2> HIDE DEF q
  <2>3. PlainProgram /\ Running => OnPath(After(1))
    BY PathFacts DEF Swap
  <2>4. addressStack'.items = q
    BY <1>4, <2>1
  <2> QED BY <1>4, <2>2, <2>3, <2>4, AddressesOutcome
<1> QED BY <1>1, <1>4, EarlyOutcome, BreaksOutcome DEF r

LEMMA DupOutcome ==
  ASSUME VmInv, NEW i \in InstructionsAt(pc), Dup(i)
  PROVE  Outcome
<1>1. PICK mem \in Mem :
        LET r == DupStackTop(addressStack, 1, mem)
        IN  \/ /\ StackOk(r) /\ addressStack' = r /\ Completes(After(1))
               /\ UNCHANGED <<heap, callStack, fault>>
            \/ FailsEarly(i, "addressStackUnderflow")
            \/ FailsEarly(i, "addressStackOverflow")
            \/ FailsEarly(i, "fatal")
  BY Zenon DEF Dup
<1> DEFINE r == DupStackTop(addressStack, 1, mem)
           q == Duplicated(addressStack, 1)
<1>2. SoundStack(addressStack, Nat) /\ mem \in BOOLEAN
  BY DEF VmInv, AddressesOk, Mem
<1>3. Refused(addressStack, r) \/ (HasWords(addressStack, 1) /\ Done(r, q))
  BY <1>2, DupFacts
<1> HIDE DEF r
<1>4. CASE StackOk(r) /\ addressStack' = r /\ Completes(After(1))
           /\ UNCHANGED <<heap, callStack, fault>>
  <2>1. HasWords(addressStack, 1) /\ r.items = q
    BY <1>3, <1>4 DEF Refused, Done, StackOk
  <2>2. Range(q) \subseteq Range(addressStack.items)
    BY <1>2, <2>1, DupRange
  <2> HIDE DEF q
  <2>3. PlainProgram /\ Running => OnPath(After(1))
    BY PathFacts DEF Dup
  <2>4. addressStack'.items = q
    BY <1>4, <2>1
  <2> QED BY <1>4, <2>2, <2>3, <2>4, AddressesOutcome
<1> QED BY <1>1, <1>4, EarlyOutcome DEF r

-----------------------------------------------------------------------------
(* PCALL and RET *)

(* An instruction that fails and leaves the stacks as they are. *)
LEMMA FailsOutcome ==
  ASSUME NEW i, NEW e, e # "outOfMemory", Fails(i, e), heap' = heap,
         callStack'.items = callStack.items,
         addressStack'.items = addressStack.items
  PROVE  Outcome
BY DEF Fails, Refuses, Stays, Outcome

(* The block that is called is in use, or lies in the program. *)
LEMMA CalledPlain ==
  ASSUME VmInv, PlainProgram, Running, 0 < AddressCount,
         ~(Argument(0) >= heap.end),
         NEW both \in Seq(Nat), Len(both) >= 2,
         both[Len(both) - 1] = Argument(0)
  PROVE  LiveAt(heap, Argument(0)) /\ AtPc(heap, both, Argument(0))
<1> DEFINE a == Argument(0)
<1>1. /\ heap.end \in Nat /\ heap.end <= MaxMemory /\ MaxMemory \in Nat
      /\ a \in Nat /\ HeapOk(heap)
  BY ArgumentFacts, MaxMemoryAssumption
     DEF VmInv, HeapOk, HeapInv, HeapType
<1>2. LiveAt(heap, a)
  <2>1. addressStack.items \in Seq(Nat) /\ AddressCount \in Nat
    BY ArgumentFacts DEF VmInv
  <2>2. AddressCount - 0 \in DOMAIN addressStack.items
    BY <2>1 DEF AddressCount
  <2>3. a \in Range(addressStack.items)
    BY <2>2 DEF Range, Argument
  <2> QED BY <2>3 DEF Running, PlainState, AddressesLive
<1>3. ~Outside(a)
  BY <1>1 DEF Outside, HeaderSize
<1> HIDE DEF a
<1>4. CASE a < heap.start
  BY <1>2, <1>4 DEF AtPc, a
<1>5. CASE a - HeaderSize \in InUse(heap)
  <2> DEFINE b == heap.blocks[a - HeaderSize]
  <2>1. b \in BlockRecord(VmData)
    BY <1>1, <1>5, HeaderFacts
  <2>2. b.kind # "free"
    BY <1>5 DEF InUse
  <2>3. b.kind \in {"code", "state"}
    BY <2>1, <2>2 DEF BlockRecord
  <2>4. CASE b.kind = "code"
    <3>1. 0 \in DOMAIN b.data
      BY <1>5, <2>4
         DEF Running, PlainState, PlainBlocks, PlainBlock, IsPlainCode
    <3>2. a - a = 0
      BY <1>1
    <3>3. InCode(heap, a, a)
      BY <1>5, <2>4, <3>1, <3>2 DEF InCode
    <3> QED BY <1>2, <3>3 DEF AtPc, a
  <2>5. CASE b.kind = "state"
    BY <1>2, <1>5, <2>5 DEF AtPc, a
  <2> QED BY <2>3, <2>4, <2>5
<1> QED BY <1>2, <1>3, <1>4, <1>5 DEF LiveAt, a

LEMMA PCallOutcome ==
  ASSUME VmInv, NEW i \in InstructionsAt(pc), PCall(i)
  PROVE  Outcome
<1>1. /\ CallsOk(callStack) /\ AddressesOk(addressStack)
      /\ SoundStack(addressStack, Nat) /\ SoundStack(callStack, Nat)
  BY DEF VmInv, CallsOk, AddressesOk
<1>2. CASE AddressCount = 0
  BY <1>2, EarlyOutcome DEF PCall
<1>3. CASE AddressCount # 0
  <2> DEFINE a == Argument(0)
  <2>1. a \in Nat /\ 0 < AddressCount /\ HasWords(addressStack, 1)
    BY <1>1, <1>3, ArgumentFacts DEF HasWords, AddressCount
  <2> HIDE DEF a
  <2>2. CASE a >= heap.end
    <3>1. /\ Replaces(1, a) /\ Fails(i, "illegalAddress")
          /\ UNCHANGED <<heap, callStack>>
      BY <1>3, <2>2 DEF PCall, a
    <3>2. addressStack'.items = addressStack.items
      BY <1>1, <2>1, <3>1, PutBackSame DEF a
    <3> QED BY <3>1, <3>2, FailsOutcome
  <2>3. CASE ~(a >= heap.end)
    <3>1. PICK m \in Mem, n \in Mem :
            LET first  == PushStack(callStack, <<a>>, m)
                second == PushStack(first, <<After(1)>>, n)
            IN  IF StackOk(first) /\ StackOk(second)
                THEN /\ callStack' = second
                     /\ addressStack' = PopStack(addressStack, 1)
                     /\ Completes(a)
                     /\ UNCHANGED <<heap, fault>>
                ELSE /\ callStack' = StackDone(first)
                     /\ Replaces(1, a)
                     /\ Fails(i, "callStackOverflow")
                     /\ UNCHANGED heap
      BY <1>3, <2>3, Zenon DEF PCall, a
    <3> DEFINE first  == PushStack(callStack, <<a>>, m)
               second == PushStack(first, <<After(1)>>, n)
               next   == After(1)
    <3>2. m \in BOOLEAN /\ n \in BOOLEAN /\ next \in Nat
      BY AfterFacts DEF Mem
    <3>3. ASSUME StackOk(first)
          PROVE  /\ CallsOk(second)
                 /\ second.items = WithFrame(callStack.items, a, next)
      <4> DEFINE s == callStack
      <4>1. first = PushWord(s, a, m) /\ CallsOk(s)
            /\ second = PushWord(first, next, n)
        BY <1>1 DEF PushWord
      <4> HIDE DEF first, second, next, s
      <4>2. /\ CallsOk(second) /\ s.end <= second.end
            /\ second.items = WithFrame(s.items, a, next)
        BY <2>1, <3>2, <3>3, <4>1, SecondPush
      <4> QED BY <4>2 DEF s
    <3>4. /\ Follows(callStack, first, Nat)
          /\ ~StackOk(first) => first.items = callStack.items
      <4> DEFINE one == <<a>>
      <4>1. one \in Seq(Nat)
        BY <2>1, OneWord
      <4>2. first = PushStack(callStack, one, m)
        OBVIOUS
      <4> HIDE DEF first, one
      <4>3. /\ Follows(callStack, first, Nat)
            /\ Done(first, callStack.items \o one) \/ Refused(callStack, first)
        BY <1>1, <3>2, <4>1, <4>2, PushFacts
      <4> QED BY <4>3 DEF Done, Refused, StackOk
    <3> HIDE DEF first, second, next
    <3>5. CASE StackOk(first) /\ StackOk(second)
      <4>1. /\ callStack' = second
            /\ addressStack' = PopStack(addressStack, 1)
            /\ Completes(a) /\ UNCHANGED <<heap, fault>>
        BY <3>1, <3>5, Zenon DEF first, second
      <4> DEFINE rest == SubSeq(addressStack.items, 1,
                                Len(addressStack.items) - 1)
                 both == WithFrame(callStack.items, a, next)
      <4>2. addressStack'.items = rest
            /\ Range(rest) \subseteq Range(addressStack.items)
        BY <1>1, <2>1, <4>1, PopFacts, PartRanges DEF Done
      <4>3. callStack'.items = both
        BY <3>3, <3>5, <4>1
      <4>4. both = WithFrame(callStack.items, a, next)
        OBVIOUS
      <4> HIDE DEF rest, both
      <4>5. ASSUME PlainProgram, Running
            PROVE  /\ FramesOk(heap, both) /\ AddressesLive(heap, rest)
                   /\ AtPc(heap, both, a)
        <5>1. /\ FramesOk(heap, callStack.items)
              /\ AddressesLive(heap, addressStack.items)
              /\ callStack.items \in Seq(Nat) /\ Len(callStack.items) % 2 = 0
          BY <1>1, <4>5 DEF Running, PlainState, CallsOk, SoundStack
        <5>2. OnPath(next)
          BY <4>5, PathFacts DEF PCall, next
        <5>3. LiveAt(heap, a)
          <6> DEFINE some == <<a>> \o <<a>>
          <6>1. some \in Seq(Nat) /\ Len(some) >= 2 /\ some[Len(some) - 1] = a
            BY <2>1
          <6> HIDE DEF some
          <6> QED BY <2>1, <2>3, <4>5, <6>1, CalledPlain DEF a
        <5>4. /\ FramesOk(heap, both) /\ both \in Seq(Nat)
              /\ Len(both) >= 2 /\ both[Len(both) - 1] = a
          <6> DEFINE calls == callStack.items
          <6>1. /\ calls \in Seq(Nat) /\ Len(calls) % 2 = 0
                /\ FramesOk(heap, calls)
                /\ both = WithFrame(calls, a, next)
            BY <4>4, <5>1
          <6>2. \/ next < heap.start
                \/ Len(calls) >= 2 /\ InCode(heap, calls[Len(calls) - 1], next)
            BY <5>2 DEF OnPath
          <6> HIDE DEF calls
          <6> QED BY <2>1, <3>2, <5>3, <6>1, <6>2, FramePushed
        <5>5. AtPc(heap, both, a)
          BY <2>1, <2>3, <4>5, <5>4, CalledPlain DEF a
        <5>6. AddressesLive(heap, rest)
          BY <4>2, <5>1 DEF AddressesLive
        <5> QED BY <5>4, <5>5, <5>6
      <4>6. heap' = heap /\ returned' = 0 /\ pc' = a
        BY <4>1 DEF Completes
      <4> QED BY <4>2, <4>3, <4>5, <4>6, MovesOutcome
    <3>6. CASE ~(StackOk(first) /\ StackOk(second))
      <4>1. /\ callStack' = StackDone(first) /\ Replaces(1, a)
            /\ Fails(i, "callStackOverflow") /\ heap' = heap
        BY <3>1, <3>6, Zenon DEF first, second
      <4>2. ~StackOk(first)
        BY <3>3, <3>6 DEF CallsOk, StackOk
      <4>3. StackDone(first).items = first.items
        BY <3>4, StatusFacts DEF Follows, StackStatuses
      <4>4. callStack'.items = callStack.items
        BY <3>4, <4>1, <4>2, <4>3, Zenon
      <4>5. addressStack'.items = addressStack.items
        BY <1>1, <2>1, <4>1, PutBackSame DEF a
      <4> QED BY <4>1, <4>4, <4>5, FailsOutcome
    <3> QED BY <3>5, <3>6
  <2> QED BY <2>2, <2>3
<1> QED BY <1>2, <1>3

LEMMA ReturnOutcome ==
  ASSUME VmInv, NEW i \in InstructionsAt(pc), Return(i)
  PROVE  Outcome
<1> DEFINE first  == PopStack(callStack, 1)
           second == PopStack(first, 1)
           calls  == callStack.items
           l      == Len(calls)
<1>1. /\ SoundStack(callStack, Nat) /\ l % 2 = 0 /\ l \in Nat
      /\ calls \in Seq(Nat)
  BY DEF VmInv, CallsOk, SoundStack
<1>2. IF StackOk(first) /\ StackOk(second)
      THEN /\ callStack' = second
           /\ Completes(callStack.items[l])
           /\ UNCHANGED <<heap, addressStack, fault>>
      ELSE /\ callStack' = StackDone(first)
           /\ Fails(i, "callStackUnderflow")
           /\ UNCHANGED <<heap, addressStack, fault>>
  BY Zenon DEF Return
<1>3. CASE l = 0
  <2>1. ~HasWords(callStack, 1)
    BY <1>1, <1>3 DEF HasWords
  <2>2. Refused(callStack, first) /\ Follows(callStack, first, Nat)
    BY <1>1, <2>1, PopFacts
  <2> HIDE DEF first, second
  <2>3. callStack' = StackDone(first) /\ Fails(i, "callStackUnderflow")
        /\ UNCHANGED <<heap, addressStack, fault>>
    BY <1>2, <2>2 DEF Refused, StackOk
  <2>4. StackDone(first).items = first.items
    BY <2>2, StatusFacts DEF Follows, StackStatuses
  <2>5. callStack'.items = callStack.items
    BY <2>2, <2>3, <2>4, Zenon DEF Refused
  <2> QED BY <2>3, <2>5, FailsOutcome
<1>4. CASE l # 0
  <2>1. l >= 2
    BY <1>1, <1>4, EvenIndices
  <2> DEFINE one == SubSeq(calls, 1, l - 1)
  <2>2. /\ HasWords(callStack, 1) /\ Done(first, one)
        /\ Follows(callStack, first, Nat)
    <3>1. HasWords(callStack, 1)
      BY <1>1, <2>1 DEF HasWords
    <3> QED BY <1>1, <3>1, PopFacts
  <2>3. /\ one \in Seq(Nat) /\ Len(one) = l - 1
        /\ \A k \in 1 .. l - 1 : one[k] = calls[k]
    BY <1>1, <2>2, PartsOfStack
  <2>4. first.items = one
    BY <2>2 DEF Done
  <2>0. SoundStack(first, Nat)
    BY <2>2 DEF Follows
  <2> DEFINE rest == SubSeq(first.items, 1, Len(first.items) - 1)
  <2> HIDE DEF first, one, l
  <2>5. HasWords(first, 1)
    BY <1>1, <2>1, <2>3, <2>4 DEF HasWords
  <2>6. Done(second, rest)
    BY <2>0, <2>5, PopFacts
  <2>7. /\ rest \in Seq(Nat) /\ Len(rest) = Len(first.items) - 1
        /\ \A k \in 1 .. Len(first.items) - 1 : rest[k] = first.items[k]
    BY <2>0, <2>5, PartsOfStack
  <2> HIDE DEF rest, second
  <2>8. /\ Len(rest) = l - 2
        /\ \A k \in 1 .. l - 2 : rest[k] = calls[k]
    <3>1. Len(first.items) - 1 = l - 2 /\ Len(rest) = l - 2
      BY <1>1, <2>3, <2>4, <2>7
    <3>2. \A k \in 1 .. l - 2 : k \in 1 .. l - 1
      BY <1>1
    <3>3. ASSUME NEW k \in 1 .. l - 2 PROVE rest[k] = calls[k]
      BY <2>3, <2>4, <2>7, <3>1, <3>2
    <3> QED BY <3>1, <3>3
  <2>9. /\ callStack' = second /\ Completes(calls[l])
        /\ UNCHANGED <<heap, addressStack, fault>>
    BY <1>2, <2>2, <2>6 DEF StackOk, Done
  <2>10. callStack'.items = rest
    BY <2>6, <2>9 DEF Done
  <2>11. ASSUME PlainProgram, Running
         PROVE  FramesOk(heap, rest) /\ AtPc(heap, rest, calls[l])
                /\ AddressesLive(heap, addressStack.items)
    <3>1. FramesOk(heap, calls) /\ AddressesLive(heap, addressStack.items)
      BY <2>11 DEF Running, PlainState
    <3>2. FramesOk(heap, rest) /\ AtPc(heap, rest, calls[Len(calls)])
      BY <1>1, <2>1, <2>7, <2>8, <3>1, FramePopped DEF l
    <3> QED BY <3>1, <3>2 DEF l
  <2>12. heap' = heap /\ returned' = 0 /\ pc' = calls[l]
         /\ addressStack' = addressStack
    BY <2>9 DEF Completes
  <2> QED BY <2>10, <2>11, <2>12, MovesOutcome
<1> QED BY <1>3, <1>4

-----------------------------------------------------------------------------
(* The instructions that allocate *)

LEMMA GivesUpOutcome ==
  ASSUME NEW g, NEW r, NEW size, NEW contents,
         AllocatesFrom(g, r, size, contents), r.block = NoBlock,
         heap' = r.heap, NEW i, NEW e, Fails(i, e),
         UNCHANGED <<callStack, addressStack>>
  PROVE  Outcome
BY DEF AllocatesFrom, NoBlock, Fails, GivesUp, Stays, Outcome

LEMMA AllocationPlain ==
  ASSUME VmInv, NEW p, PlainState(heap, callStack.items, addressStack.items, p),
         NEW g, NEW r, NEW size, NEW contents,
         AllocatesFrom(g, r, size, contents), r.block # NoBlock
  PROVE  /\ Allocates(g, r.heap, r.block, size, contents) /\ r.block \in Nat
         /\ HeapOk(g) /\ BlocksOk(g, callStack.end, addressStack.end)
         /\ PlainState(g, callStack.items, addressStack.items, p)
         /\ InUse(g) \subseteq InUse(heap)
         /\ \A b \in InUse(g) : g.blocks[b] = heap.blocks[b]
         /\ \A R : Keeps(g, r.heap, R)
<1>1. /\ Allocates(g, r.heap, r.block, size, contents) /\ r.block \in Nat
      /\ HeapOk(g) /\ KeepsOf(heap, g, Marked(heap, Roots))
      /\ KeepsVisited(heap, g)
  BY DEF AllocatesFrom
<1>2. BlocksOk(g, callStack.end, addressStack.end)
  <2>1. /\ callStack.end \in Nat /\ addressStack.end \in Nat
        /\ BlocksOk(heap, callStack.end, addressStack.end)
    BY DEF VmInv, CallsOk, AddressesOk, SoundStack
  <2>2. callStack.end <= callStack.end /\ addressStack.end <= addressStack.end
    BY <2>1
  <2> QED BY <1>1, <2>1, <2>2, BlocksLater
<1>3. PlainState(g, callStack.items, addressStack.items, p)
  BY <1>1, CollectedPlain
<1>4. \A R : Keeps(g, r.heap, R)
  BY <1>1, AllocatedKeeps
<1> QED BY <1>1, <1>2, <1>3, <1>4 DEF KeepsOf

LEMMA BuiltBlock ==
  ASSUME VmInv, NEW p, PlainState(heap, callStack.items, addressStack.items, p),
         NEW op \in DOMAIN Arity, op # "MKC", Arity[op] <= AddressCount,
         \A d \in 0 .. Arity[op] - 1 : ~IsState(Argument(d)),
         NEW g, NEW r, NEW arguments, NEW contents,
         arguments = {Argument(d) : d \in 0 .. Arity[op] - 1},
         contents = CodeContents(CodeBytes[op], arguments, BuiltCode(op)),
         AllocatesFrom(g, r, CodeBlockSize(CodeBytes[op]), contents),
         r.block # NoBlock
  PROVE  PlainBlock(r.heap, r.heap.blocks[r.block])
<1> DEFINE size == CodeBlockSize(CodeBytes[op])
           f == r.heap
           n == r.block
           b == f.blocks[n]
<1>1. /\ Allocates(g, f, n, size, contents) /\ n \in Nat
      /\ PlainState(g, callStack.items, addressStack.items, p)
      /\ InUse(g) \subseteq InUse(heap)
      /\ \A c \in InUse(g) : g.blocks[c] = heap.blocks[c]
      /\ \A R : Keeps(g, f, R)
  BY AllocationPlain
<1>2. /\ contents.kind = "code" /\ contents.data = BuiltCode(op)
      /\ contents.refs = arguments
  BY DEF CodeContents
<1>3. /\ b.kind = "code" /\ b.data = BuiltCode(op) /\ b.refs = arguments
      /\ size <= b.size /\ InUse(f) = InUse(g) \cup {n}
      /\ \A c \in InUse(g) : f.blocks[c] = g.blocks[c]
  BY <1>1, <1>2 DEF Allocates
<1>4. b.size \in Nat
  <2>1. HeapOk(f) /\ n \in InUse(f)
    BY <1>3 DEF AllocatesFrom
  <2>2. b \in BlockRecord(VmData)
    BY <2>1, HeaderFacts
  <2> QED BY <2>2 DEF BlockRecord
<1> HIDE DEF b, f, n
<1>5. IsPlainCode(b)
  BY <1>3, <1>4, BuiltPlain
<1>6. ASSUME NEW a \in arguments
      PROVE  /\ LiveAt(f, a)
             /\ a - HeaderSize \in InUse(f)
                => f.blocks[a - HeaderSize].kind = "code"
  <2>1. PICK d \in 0 .. Arity[op] - 1 : a = Argument(d)
    OBVIOUS
  <2>2. addressStack.items \in Seq(Nat) /\ AddressCount \in Nat
    BY ArgumentFacts DEF VmInv
  <2>3. d \in Nat /\ d < AddressCount
    BY <2>1, <2>2, ArityFacts
  <2>4. AddressCount - d \in DOMAIN addressStack.items
    BY <2>2, <2>3 DEF AddressCount
  <2>5. a \in Range(addressStack.items)
    BY <2>1, <2>4 DEF Range, Argument
  <2>6. LiveAt(g, a)
    BY <1>1, <2>5 DEF PlainState, AddressesLive
  <2>7. LiveAt(f, a)
    BY <1>1, <2>5, <2>6, LiveKept
  <2>8. CASE a - HeaderSize \in InUse(g)
    <3> DEFINE c == a - HeaderSize
    <3>1. c \in InUse(heap) /\ f.blocks[c] = heap.blocks[c]
      BY <1>1, <1>3, <2>8
    <3>2. heap.blocks[c].kind # "state"
      BY <2>1, <3>1 DEF IsState
    <3>3. heap.blocks[c].kind \in {"code", "state"}
      <4>1. heap.blocks[c] \in BlockRecord(VmData)
        BY <3>1, HeaderFacts DEF VmInv
      <4> QED BY <3>1, <4>1 DEF BlockRecord, InUse
    <3> QED BY <2>7, <3>1, <3>2, <3>3
  <2>9. CASE a - HeaderSize = n
    BY <1>3, <2>7, <2>9 DEF b
  <2> QED BY <1>3, <2>7, <2>8, <2>9
<1>7. CodeLive(f, b)
  BY <1>3, <1>6 DEF CodeLive
<1> QED BY <1>3, <1>5, <1>7 DEF PlainBlock, b, f, n

LEMMA BuildOutcome ==
  ASSUME VmInv, NEW i \in InstructionsAt(pc), WellTyped(i), Build(i)
  PROVE  Outcome
<1>1. /\ CallsOk(callStack) /\ AddressesOk(addressStack) /\ HeapOk(heap)
      /\ i.op \in DOMAIN Arity
  BY DEF VmInv, Build
<1> DEFINE n         == Arity[i.op]
           arguments == {Argument(d) : d \in 0 .. n - 1}
           size      == CodeBlockSize(CodeBytes[i.op])
           contents  == CodeContents(CodeBytes[i.op], arguments,
                                     BuiltCode(i.op))
<1>2. n \in Nat \ {0} /\ AddressCount \in Nat
  BY <1>1, ArityFacts, ArgumentFacts
<1>3. CASE AddressCount < n
  <2>1. FailsEarly(i, "addressStackUnderflow")
    BY <1>3 DEF Build
  <2> QED BY <2>1, EarlyOutcome
<1>4. CASE ~(AddressCount < n)
  <2>1. PICK r \in AllocationResults(size, contents) :
          IF r.fault # "none" THEN Breaks(r.fault)
          ELSE /\ heap' = r.heap
               /\ UNCHANGED callStack
               /\ IF r.block = NoBlock
                  THEN /\ Fails(i, "outOfMemory")
                       /\ UNCHANGED <<addressStack, fault>>
                  ELSE /\ Replaces(n, DataAddress(r.block))
                       /\ Completes(After(1))
    BY <1>4, Zenon DEF Build, n, arguments, size, contents
  <2>2. n <= AddressCount
    BY <1>2, <1>4
  <2>3. /\ size \in Nat /\ size >= 8 /\ ContentsType(contents, VmData)
    BY <1>1, <2>2, BuiltFacts
  <2>4. /\ arguments = {Argument(d) : d \in 0 .. Arity[i.op] - 1}
        /\ contents = CodeContents(CodeBytes[i.op], arguments, BuiltCode(i.op))
        /\ size = CodeBlockSize(CodeBytes[i.op])
    OBVIOUS
  <2> HIDE DEF contents, size, arguments
  <2>5. CASE r.fault # "none"
    BY <2>1, <2>5, BreaksOutcome
  <2>6. CASE r.fault = "none"
    <3>1. PICK g : AllocatesFrom(g, r, size, contents)
      BY <1>1, <2>3, <2>6, AllocationFacts
    <3>2. heap' = r.heap /\ callStack' = callStack
      BY <2>1, <2>6
    <3>3. CASE r.block = NoBlock
      <4>1. Fails(i, "outOfMemory") /\ addressStack' = addressStack
        BY <2>1, <2>6, <3>3
      <4> QED BY <3>1, <3>2, <3>3, <4>1, GivesUpOutcome
    <3>4. CASE r.block # NoBlock
      <4> DEFINE a    == DataAddress(r.block)
                 rest == SubSeq(addressStack.items, 1, AddressCount - n)
                 one  == <<a>>
      <4>1. Replaces(n, a) /\ Completes(After(1))
        BY <2>1, <2>6, <3>4
      <4>2. r.block \in Nat /\ a \in Nat
        BY <3>1, <3>4 DEF AllocatesFrom, DataAddress, HeaderSize
      <4>3. addressStack'.items = rest \o one
        BY <1>1, <1>2, <2>2, <4>1, <4>2, ReplaceFacts
      <4>4. one \in Seq(Nat) /\ Range(one) = {a}
        BY <4>2, WordRange
      <4>5. /\ rest \in Seq(Nat)
            /\ Range(rest) \subseteq Range(addressStack.items)
        <5>1. /\ SoundStack(addressStack, Nat) /\ HasWords(addressStack, n)
              /\ n \in Nat /\ AddressCount = Len(addressStack.items)
          BY <1>1, <1>2, <2>2 DEF AddressesOk, HasWords, AddressCount
        <5> HIDE DEF n
        <5>2. /\ SubSeq(addressStack.items, 1, Len(addressStack.items) - n)
                   \in Seq(Nat)
              /\ Range(SubSeq(addressStack.items, 1,
                              Len(addressStack.items) - n))
                   \subseteq Range(addressStack.items)
          BY <5>1, PartsOfStack, PartRanges
        <5> QED BY <5>1, <5>2
      <4> HIDE DEF a, rest, one
      <4>6. Range(rest \o one) \subseteq Range(addressStack.items) \cup {a}
        <5>1. Range(rest \o one) \subseteq Range(rest) \cup Range(one)
          BY <4>4, <4>5, ConcatRange
        <5> QED BY <4>4, <4>5, <5>1
      <4>7. ASSUME PlainProgram, Running
            PROVE  PlainState(r.heap, callStack.items, rest \o one, After(1))
        <5>1. OnPath(After(1)) /\ i.op # "MKC"
          BY <1>1, <4>7, PathFacts, InstructionPlain DEF Arity
        <5>2. PlainState(heap, callStack.items, addressStack.items, After(1))
          BY <4>7, <5>1 DEF Running, PlainState, OnPath, AtPc
        <5>3. /\ Allocates(g, r.heap, r.block, size, contents) /\ HeapOk(g)
              /\ BlocksOk(g, callStack.end, addressStack.end)
              /\ PlainState(g, callStack.items, addressStack.items, After(1))
          BY <3>1, <3>4, <5>2, AllocationPlain
        <5>4. \A d \in 0 .. Arity[i.op] - 1 : ~IsState(Argument(d))
          BY <1>1, <1>2, <2>2, <5>1 DEF WellTyped
        <5>5. PlainBlock(r.heap, r.heap.blocks[r.block])
          BY <1>1, <2>2, <2>4, <3>1, <3>4, <5>1, <5>2, <5>4, BuiltBlock
        <5>6. /\ PlainState(r.heap, callStack.items, addressStack.items,
                            After(1))
              /\ LiveAt(r.heap, a)
          BY <1>1, <5>3, <5>5, AllocatedPlain DEF a
        <5>7. AddressesLive(r.heap, rest \o one)
          BY <4>6, <5>6 DEF PlainState, AddressesLive
        <5> QED BY <5>6, <5>7 DEF PlainState
      <4>8. returned' = 0 /\ pc' = After(1)
        BY <4>1 DEF Completes
      <4>9. r.heap.start = heap.start
        BY <3>1, <3>4 DEF AllocatesFrom, Allocates, KeepsOf
      <4> QED BY <3>2, <4>3, <4>7, <4>8, <4>9 DEF Proceeds, Outcome
    <3> QED BY <3>3, <3>4
  <2> QED BY <2>5, <2>6
<1> QED BY <1>3, <1>4

-----------------------------------------------------------------------------
(* SAVE and RESTORE *)

LEMMA SavedBlock ==
  ASSUME VmInv, NEW p, PlainState(heap, callStack.items, addressStack.items, p),
         NEW calls, calls = callStack.items,
         NEW addresses, Range(addresses) \subseteq Range(addressStack.items),
         NEW g, NEW r, NEW size, NEW contents,
         contents = StateContents(CallRoots(calls) \cup Range(addresses),
                                  [calls |-> calls, addresses |-> addresses]),
         AllocatesFrom(g, r, size, contents), r.block # NoBlock
  PROVE  PlainBlock(r.heap, r.heap.blocks[r.block])
<1> DEFINE f == r.heap
           n == r.block
           b == f.blocks[n]
<1>1. /\ Allocates(g, f, n, size, contents)
      /\ PlainState(g, callStack.items, addressStack.items, p)
      /\ \A R : Keeps(g, f, R)
  BY AllocationPlain
<1>2. /\ contents.kind = "state"
      /\ contents.data = [calls |-> calls, addresses |-> addresses]
      /\ contents.refs = CallRoots(calls) \cup Range(addresses)
  BY DEF StateContents
<1>3. /\ b.kind = "state"
      /\ b.data = [calls |-> calls, addresses |-> addresses]
      /\ b.refs = CallRoots(calls) \cup Range(addresses)
  BY <1>1, <1>2 DEF Allocates
<1>4. calls \in Seq(Nat)
  BY DEF VmInv, CallsOk, SoundStack
<1> HIDE DEF b, f, n
<1>5. FramesOk(f, calls)
  <2>1. FramesOk(g, calls)
    BY <1>1 DEF PlainState
  <2> QED BY <1>1, <1>4, <2>1, FramesKept
<1>6. AddressesLive(f, addresses)
  <2>1. AddressesLive(g, addresses)
    BY <1>1 DEF PlainState, AddressesLive
  <2> QED BY <1>1, <2>1, AddressesKept
<1>7. b.data.calls = calls /\ b.data.addresses = addresses
  BY <1>3
<1>8. StateLive(f, b)
  BY <1>3, <1>5, <1>6, <1>7 DEF StateLive
<1> QED BY <1>3, <1>8 DEF PlainBlock, b, f, n

LEMMA SaveOutcome ==
  ASSUME VmInv, NEW i \in InstructionsAt(pc), Save(i)
  PROVE  Outcome
<1> DEFINE calls     == callStack.items
           addresses == SubSeq(addressStack.items, 1, AddressCount - i.arg)
           size      == StateBlockSize(Len(calls) \div 2, Len(addresses))
           saved     == [calls |-> calls, addresses |-> addresses]
           contents  == StateContents(CallRoots(calls) \cup Range(addresses),
                                      saved)
<1>1. /\ CallsOk(callStack) /\ AddressesOk(addressStack) /\ HeapOk(heap)
      /\ SoundStack(addressStack, Nat) /\ i.arg \in Nat
      /\ AddressCount = Len(addressStack.items)
  BY InstructionFacts DEF VmInv, AddressesOk, AddressCount
<1>2. CASE \/ FailsEarly(i, "addressStackUnderflow")
           \/ FailsEarly(i, "addressStackOverflow")
  BY <1>2, EarlyOutcome
<1>3. ASSUME ~(AddressCount < i.arg),
             NEW r \in AllocationResults(size, contents), NEW mem \in Mem,
             LET pushed == PushStack(addressStack, <<DataAddress(r.block)>>, mem)
             IN  IF r.fault # "none" THEN Breaks(r.fault)
                 ELSE IF r.block = NoBlock
                 THEN /\ heap' = r.heap
                      /\ Fails(i, "outOfMemory")
                      /\ UNCHANGED <<callStack, addressStack, fault>>
                 ELSE IF ~StackOk(pushed) THEN Breaks("saveAssertion")
                 ELSE /\ heap' = r.heap
                      /\ addressStack' = pushed
                      /\ Completes(After(2))
                      /\ UNCHANGED <<callStack, fault>>
      PROVE  Outcome
  <2> DEFINE pushed == PushStack(addressStack, <<DataAddress(r.block)>>, mem)
  <2>1. i.arg <= AddressCount /\ HasWords(addressStack, i.arg)
    BY <1>1, <1>3, ArgumentFacts DEF HasWords
  <2>2. /\ ContentsType(contents, VmData)
        /\ size \in Nat /\ size >= 8
    BY <1>1, <2>1, SavedFacts
  <2>3. Range(addresses) \subseteq Range(addressStack.items)
    BY <1>1, <2>1, PartRanges
  <2>4. /\ calls = callStack.items
        /\ contents = StateContents(CallRoots(calls) \cup Range(addresses),
                                    [calls |-> calls, addresses |-> addresses])
    OBVIOUS
  <2> HIDE DEF contents, size, saved, calls, addresses
  <2>5. CASE r.fault # "none"
    <3>1. Breaks(r.fault)
      BY <1>3, <2>5
    <3> QED BY <3>1, BreaksOutcome
  <2>6. CASE r.fault = "none" /\ r.block = NoBlock
    <3>1. /\ heap' = r.heap /\ Fails(i, "outOfMemory")
          /\ UNCHANGED <<callStack, addressStack>>
      BY <1>3, <2>6
    <3>2. PICK g : AllocatesFrom(g, r, size, contents)
      BY <1>1, <1>3, <2>2, <2>6, AllocationFacts
    <3> QED BY <2>6, <3>1, <3>2, GivesUpOutcome
  <2>7. CASE r.fault = "none" /\ r.block # NoBlock /\ ~StackOk(pushed)
    <3>1. Breaks("saveAssertion")
      BY <1>3, <2>7
    <3> QED BY <3>1, BreaksOutcome
  <2>8. CASE r.fault = "none" /\ r.block # NoBlock /\ StackOk(pushed)
    <3> DEFINE a   == DataAddress(r.block)
               one == <<a>>
               all == addressStack.items \o one
    <3>1. /\ heap' = r.heap /\ addressStack' = pushed
          /\ Completes(After(2)) /\ callStack' = callStack
      BY <1>3, <2>8
    <3>2. PICK g : AllocatesFrom(g, r, size, contents)
      BY <1>1, <1>3, <2>2, <2>8, AllocationFacts
    <3>3. a \in Nat
      BY <2>8, <3>2 DEF AllocatesFrom, DataAddress, HeaderSize
    <3>4. one \in Seq(Nat) /\ Range(one) = {a} /\ mem \in BOOLEAN
      BY <3>3, WordRange DEF Mem
    <3>5. pushed = PushStack(addressStack, one, mem)
      OBVIOUS
    <3> HIDE DEF a, one, pushed
    <3>6. addressStack'.items = all
      <4>1. Done(pushed, all) \/ Refused(addressStack, pushed)
        BY <1>1, <3>4, <3>5, PushFacts
      <4> QED BY <2>8, <3>1, <4>1 DEF Done, Refused, StackOk
    <3>7. Range(all) \subseteq Range(addressStack.items) \cup {a}
      <4>1. addressStack.items \in Seq(Nat)
        BY <1>1 DEF SoundStack
      <4> QED BY <3>4, <4>1, ConcatRange
    <3> HIDE DEF all
    <3>8. ASSUME PlainProgram, Running
          PROVE  PlainState(r.heap, callStack.items, all, After(2))
      <4>1. pc < heap.start
        BY <3>8, PathFacts DEF Save, BuiltOps
      <4>2. After(2) < heap.start
        BY <4>1 DEF After, InProgram, ProgramStart, VmInv, HeapOk, HeapInv, HeapType
      <4>3. PlainState(heap, callStack.items, addressStack.items, After(2))
        BY <3>8, <4>2 DEF Running, PlainState, AtPc
      <4>4. /\ Allocates(g, r.heap, r.block, size, contents) /\ HeapOk(g)
            /\ BlocksOk(g, callStack.end, addressStack.end)
            /\ PlainState(g, callStack.items, addressStack.items, After(2))
        BY <2>8, <3>2, <4>3, AllocationPlain
      <4>5. PlainBlock(r.heap, r.heap.blocks[r.block])
        BY <2>3, <2>4, <2>8, <3>2, <4>3, SavedBlock
      <4>6. /\ PlainState(r.heap, callStack.items, addressStack.items, After(2))
            /\ LiveAt(r.heap, a)
        BY <1>1, <4>4, <4>5, AllocatedPlain DEF a
      <4>7. AddressesLive(r.heap, all)
        BY <3>7, <4>6 DEF PlainState, AddressesLive
      <4> QED BY <4>6, <4>7 DEF PlainState
    <3>9. returned' = 0 /\ pc' = After(2)
      BY <3>1 DEF Completes
    <3>10. r.heap.start = heap.start
      BY <2>8, <3>2 DEF AllocatesFrom, Allocates, KeepsOf
    <3> QED BY <3>1, <3>6, <3>8, <3>9, <3>10 DEF Proceeds, Outcome
  <2> HIDE DEF pushed
  <2> QED BY <2>5, <2>6, <2>7, <2>8
<1>4. \/ FailsEarly(i, "addressStackUnderflow")
      \/ FailsEarly(i, "addressStackOverflow")
      \/ /\ ~(AddressCount < i.arg)
         /\ \E r \in AllocationResults(size, contents), mem \in Mem :
              LET pushed == PushStack(addressStack, <<DataAddress(r.block)>>,
                                      mem)
              IN  IF r.fault # "none" THEN Breaks(r.fault)
                  ELSE IF r.block = NoBlock
                  THEN /\ heap' = r.heap
                       /\ Fails(i, "outOfMemory")
                       /\ UNCHANGED <<callStack, addressStack, fault>>
                  ELSE IF ~StackOk(pushed) THEN Breaks("saveAssertion")
                  ELSE /\ heap' = r.heap
                       /\ addressStack' = pushed
                       /\ Completes(After(2))
                       /\ UNCHANGED <<callStack, fault>>
  BY Zenon DEF Save, calls, addresses, size, contents, saved
<1> HIDE DEF size, contents
<1> QED BY <1>2, <1>3, <1>4

-----------------------------------------------------------------------------
LEMMA RestoreOutcome ==
  ASSUME VmInv, NEW i \in InstructionsAt(pc), Restore(i)
  PROVE  Outcome
<1>1. CASE AddressCount = 0
  <2>1. FailsEarly(i, "addressStackUnderflow")
    BY <1>1 DEF Restore
  <2> QED BY <2>1, EarlyOutcome
<1>2. CASE AddressCount # 0
  <2> DEFINE a      == Argument(0)
             popped == PopStack(addressStack, 1)
             block  == heap.blocks[a - HeaderSize]
             saved  == block.data
  <2>1. /\ AddressesOk(addressStack) /\ SoundStack(addressStack, Nat)
        /\ AddressCount \in Nat /\ 0 < AddressCount /\ i.arg \in Nat
        /\ HasWords(addressStack, 1)
    BY <1>2, ArgumentFacts, InstructionFacts
       DEF VmInv, AddressesOk, HasWords, AddressCount
  <2>2. /\ SoundStack(popped, Nat)
        /\ Range(popped.items) \subseteq Range(addressStack.items)
    BY <2>1, PopFacts, PartRanges DEF Follows, Done
  <2>3. CASE /\ \E e : e # "outOfMemory" /\ Fails(i, e)
             /\ Replaces(1, a) /\ UNCHANGED <<heap, callStack>>
    <3>1. addressStack'.items = addressStack.items
      BY <2>1, <2>3, PutBackSame
    <3> QED BY <2>3, <3>1, FailsOutcome
  <2> HIDE DEF popped
  <2>4. CASE /\ Fails(i, "fatal") /\ AllocationFails
             /\ addressStack' = popped /\ UNCHANGED <<heap, callStack, fault>>
    <3>1. ASSUME PlainProgram, Running
          PROVE  /\ FramesOk(heap, callStack.items)
                 /\ AddressesLive(heap, popped.items)
                 /\ AtPc(heap, callStack.items, pc)
      BY <2>2, <3>1 DEF Running, PlainState, AddressesLive
    <3>2. pc' = pc
      BY <2>4 DEF Fails
    <3> QED BY <2>4, <3>1, <3>2, MovesOutcome
  <2>5. ASSUME IsState(a), HasWords(popped, i.arg),
               ~(Bytes(saved.addresses) + WordSize * i.arg > addressStack.max),
               NEW mems \in [1 .. 3 -> Mem],
               RestoresStacks(i, saved, popped, mems)
        PROVE  Outcome
    <3> DEFINE top       == TopItems(popped, i.arg)
               calls     == SetStack(callStack, saved.calls, mems[1])
               addresses == SetStack(popped, saved.addresses, mems[2])
               all       == PushStack(addresses, top, mems[3])
    <3>1. \A k \in 1 .. 3 : mems[k] \in Mem
      OBVIOUS
    <3>2. /\ mems[1] \in BOOLEAN /\ mems[2] \in BOOLEAN /\ mems[3] \in BOOLEAN
          /\ mems[3] = TRUE \/ AllocationFails
      <4>1. mems[1] \in Mem /\ mems[2] \in Mem /\ mems[3] \in Mem
        BY <3>1
      <4>2. ASSUME NEW m \in Mem
            PROVE  m \in BOOLEAN /\ (m = TRUE \/ AllocationFails)
        BY <4>2, UnlambdaVmAssumption DEF Mem
      <4> QED BY <4>1, <4>2
    <3>3. /\ StackOk(calls) /\ calls.items = saved.calls
          /\ StackOk(addresses) /\ addresses.items = saved.addresses
          /\ AddressesOk(addresses)
          /\ StackOk(all) => all.items = saved.addresses \o top
          /\ top \in Seq(Nat) /\ Len(top) = i.arg
      <4> DEFINE m1 == mems[1]
                 m2 == mems[2]
                 m3 == mems[3]
      <4>1. m1 \in BOOLEAN /\ m2 \in BOOLEAN /\ m3 \in BOOLEAN
        BY <3>2
      <4>2. calls = SetStack(callStack, saved.calls, m1)
            /\ addresses = SetStack(popped, saved.addresses, m2)
            /\ all = PushStack(addresses, top, m3)
        OBVIOUS
      <4>3. 0 < AddressCount /\ IsState(a) /\ HasWords(popped, i.arg)
        BY <2>1, <2>5
      <4> HIDE DEF m1, m2, m3, calls, addresses, all
      <4> QED BY <2>1, <4>1, <4>2, <4>3, RestoredFacts DEF popped
    <3>4. Range(top) \subseteq Range(popped.items)
      BY <2>1, <2>2, <2>5, PartRanges
    <3>5. saved.addresses \in Seq(Nat)
      <4>1. BlockOk(block, callStack.end, addressStack.end)
            /\ block.kind = "state"
        BY <2>5 DEF VmInv, BlocksOk, IsState
      <4> QED BY <4>1 DEF BlockOk, SavedFits, StateData
    <3>6. /\ UNCHANGED <<heap, fault>>
          /\ IF ~StackOk(calls)
             THEN /\ Fails(i, "fatal")
                  /\ addressStack' = popped /\ UNCHANGED callStack
             ELSE /\ callStack' = calls
                  /\ IF ~StackOk(addresses)
                     THEN Fails(i, "fatal") /\ addressStack' = popped
                     ELSE IF ~StackOk(all)
                     THEN /\ Fails(i, "addressStackOverflow")
                          /\ addressStack' = addresses
                     ELSE Completes(After(2)) /\ addressStack' = all
      BY <2>5, Zenon DEF RestoresStacks, calls, addresses, all
    <3> HIDE DEF top
    <3>7. StackOk(all) \/ AllocationFails
      <4>1. SoundStack(addresses, Nat) /\ addresses.max = addressStack.max
        BY <2>1, <3>3 DEF AddressesOk
      <4>2. StackSize(addresses) + Bytes(top) <= addresses.max
        <5>1. StackSize(addresses) = Bytes(saved.addresses)
          BY <3>3 DEF StackSize
        <5>2. Bytes(top) = WordSize * i.arg
          BY <3>3 DEF Bytes
        <5>3. Bytes(saved.addresses) \in Nat /\ WordSize * i.arg \in Nat
          <6>1. Len(saved.addresses) \in Nat
            BY <3>5
          <6>2. \A n \in Nat : 8 * n \in Nat
            OBVIOUS
          <6>3. 8 * Len(saved.addresses) \in Nat /\ 8 * i.arg \in Nat
            BY <2>1, <6>1, <6>2
          <6> QED BY <6>3, Zenon DEF Bytes, WordSize
        <5>4. addresses.max \in Nat
          BY <4>1 DEF SoundStack
        <5> QED BY <2>5, <4>1, <5>1, <5>2, <5>3, <5>4
      <4> HIDE DEF addresses
      <4>3. Done(PushStack(addresses, top, TRUE), addresses.items \o top)
        BY <3>3, <4>1, <4>2, MemoryForPush
      <4>4. CASE mems[3] = TRUE
        BY <4>3, <4>4 DEF Done, StackOk
      <4> QED BY <3>2, <4>4
    <3> HIDE DEF calls, addresses, all
    <3>8. /\ heap' = heap /\ callStack' = calls
          /\ \/ /\ Fails(i, "addressStackOverflow") /\ addressStack' = addresses
                /\ AllocationFails
             \/ /\ Completes(After(2)) /\ addressStack' = all /\ StackOk(all)
      BY <3>3, <3>6, <3>7
    <3>9. ASSUME PlainProgram, Running
          PROVE  /\ FramesOk(heap, saved.calls)
                 /\ AddressesLive(heap, saved.addresses)
                 /\ AddressesLive(heap, saved.addresses \o top)
                 /\ AtPc(heap, saved.calls, pc)
                 /\ AtPc(heap, saved.calls, After(2))
      <4>1. block.kind = "state" /\ PlainBlock(heap, block)
        BY <2>5, <3>9 DEF IsState, Running, PlainState, PlainBlocks
      <4>2. FramesOk(heap, saved.calls) /\ AddressesLive(heap, saved.addresses)
        BY <4>1 DEF PlainBlock, StateLive
      <4>3. pc < heap.start
        BY <3>9, PathFacts DEF Restore, BuiltOps
      <4>4. After(2) < heap.start
        BY <4>3 DEF After, InProgram, ProgramStart, VmInv, HeapOk, HeapInv, HeapType
      <4>5. AddressesLive(heap, addressStack.items)
        BY <3>9 DEF Running, PlainState
      <4> HIDE DEF saved
      <4>6. Range(saved.addresses \o top)
              \subseteq Range(saved.addresses) \cup Range(top)
        BY <3>3, <3>5, ConcatRange
      <4>7. AddressesLive(heap, saved.addresses \o top)
        BY <2>2, <3>4, <4>2, <4>5, <4>6 DEF AddressesLive
      <4> QED BY <4>2, <4>3, <4>4, <4>7 DEF AtPc
    <3> HIDE DEF saved
    <3>10. CASE /\ Fails(i, "addressStackOverflow") /\ addressStack' = addresses
                /\ AllocationFails
      <4>1. /\ pc' = pc /\ callStack'.items = saved.calls
            /\ addressStack'.items = saved.addresses
        BY <3>3, <3>8, <3>10 DEF Fails
      <4> QED BY <3>8, <3>9, <3>10, <4>1, MovesOutcome
    <3>11. CASE Completes(After(2)) /\ addressStack' = all /\ StackOk(all)
      <4>1. /\ pc' = After(2) /\ callStack'.items = saved.calls
            /\ addressStack'.items = saved.addresses \o top
            /\ returned' = 0
        BY <3>3, <3>8, <3>11 DEF Completes
      <4> QED BY <3>8, <3>9, <4>1, MovesOutcome
    <3> QED BY <3>8, <3>10, <3>11
  <2> HIDE DEF saved, block
  <2> QED BY <1>2, <2>3, <2>4, <2>5, RestoreCases DEF a, popped, saved, block
<1> QED BY <1>1, <1>2

-----------------------------------------------------------------------------
(* The other instructions, and the step *)

LEMMA OtherOutcome ==
  ASSUME VmInv, NEW i \in InstructionsAt(pc), PutChar(i) \/ Stop(i) \/ Illegal(i)
  PROVE  Outcome
<1>1. CASE PutChar(i)
  <2>1. ASSUME PlainProgram, Running
        PROVE  PlainState(heap, callStack.items, addressStack.items, After(2))
    <3>1. pc < heap.start
      BY <1>1, <2>1, PathFacts DEF PutChar, BuiltOps
    <3>2. After(2) < heap.start
      BY <3>1 DEF After, InProgram, ProgramStart, VmInv, HeapOk, HeapInv, HeapType
    <3> QED BY <2>1, <3>2 DEF Running, PlainState, AtPc
  <2>2. /\ UNCHANGED <<heap, callStack, addressStack>> /\ returned' = 0
        /\ pc' = After(2)
    BY <1>1 DEF PutChar, Completes
  <2> QED BY <2>1, <2>2 DEF Proceeds, Outcome
<1>2. CASE Stop(i)
  BY <1>2 DEF Stop, Refuses, Stays, Outcome
<1>3. CASE Illegal(i)
  BY <1>3, EarlyOutcome DEF Illegal
<1> QED BY <1>1, <1>2, <1>3

LEMMA StepCases ==
  ASSUME Step
  PROVE  /\ fault = "none" /\ state = "ready"
         /\ \/ FailsEarly(None, "fatal") \/ Breaks("executesData")
            \/ \E i \in InstructionsAt(pc) :
                 /\ WellTyped(i)
                 /\ \/ Push(i) \/ Pop(i) \/ Swap(i) \/ Dup(i)
                    \/ PCall(i) \/ Return(i)
                    \/ Build(i) \/ Save(i) \/ Restore(i)
                    \/ PutChar(i) \/ Stop(i) \/ Illegal(i)
BY Zenon DEF Step

LEMMA StepOutcome == ASSUME VmInv, Step PROVE Outcome
<1>1. CASE FailsEarly(None, "fatal")
  BY <1>1, EarlyOutcome
<1>2. CASE Breaks("executesData")
  BY <1>2, BreaksOutcome
<1>3. ASSUME NEW i \in InstructionsAt(pc), WellTyped(i),
             \/ Push(i) \/ Pop(i) \/ Swap(i) \/ Dup(i)
             \/ PCall(i) \/ Return(i)
             \/ Build(i) \/ Save(i) \/ Restore(i)
             \/ PutChar(i) \/ Stop(i) \/ Illegal(i)
      PROVE  Outcome
  BY <1>3, PushOutcome, PopOutcome, SwapOutcome, DupOutcome, PCallOutcome,
     ReturnOutcome, BuildOutcome, SaveOutcome, RestoreOutcome, OtherOutcome
<1> QED BY <1>1, <1>2, <1>3, StepCases

-----------------------------------------------------------------------------
(* How an instruction ends. *)
Ends(i) ==
  \/ \E next : Completes(next)
  \/ \E e : Fails(i, e)
  \/ \E what : Breaks(what)
  \/ Stop(i)

LEMMA StepEnds ==
  ASSUME Step
  PROVE  \E i \in InstructionsAt(pc) \cup {None} : Ends(i)
<1>1. CASE FailsEarly(None, "fatal")
  BY <1>1 DEF FailsEarly, Ends
<1>2. CASE Breaks("executesData")
  BY <1>2 DEF Ends
<1>3. ASSUME NEW i \in InstructionsAt(pc),
             \/ Push(i) \/ Pop(i) \/ Swap(i) \/ Dup(i)
             \/ PCall(i) \/ Return(i)
             \/ Build(i) \/ Save(i) \/ Restore(i)
             \/ PutChar(i) \/ Stop(i) \/ Illegal(i)
      PROVE  Ends(i)
  <2>1. Push(i) => Ends(i)
    BY Zenon DEF Push, FailsEarly, Ends
  <2>2. Pop(i) => Ends(i)
    BY Zenon DEF Pop, FailsEarly, Ends
  <2>3. Swap(i) => Ends(i)
    BY Zenon DEF Swap, FailsEarly, Ends
  <2>4. Dup(i) => Ends(i)
    BY Zenon DEF Dup, FailsEarly, Ends
  <2>5. PCall(i) => Ends(i)
    BY Zenon DEF PCall, FailsEarly, Ends
  <2>6. Return(i) => Ends(i)
    BY Zenon DEF Return, FailsEarly, Ends
  <2>7. Build(i) => Ends(i)
    BY Zenon DEF Build, FailsEarly, Ends
  <2>8. Save(i) => Ends(i)
    BY Zenon DEF Save, FailsEarly, Ends
  <2>9. Restore(i) => Ends(i)
    <3>1. RefusesState(i, Argument(0)) => Ends(i)
      BY Zenon DEF RefusesState, Ends
    <3>2. \A saved, popped, mems :
            RestoresStacks(i, saved, popped, mems) => Ends(i)
      BY Zenon DEF RestoresStacks, Ends
    <3>3. \A e : Fails(i, e) => Ends(i)
      BY Zenon DEF Ends
    <3> QED BY <3>1, <3>2, <3>3, Zenon DEF Restore, FailsEarly
  <2>10. PutChar(i) \/ Stop(i) \/ Illegal(i) => Ends(i)
    BY Zenon DEF PutChar, Illegal, FailsEarly, Ends
  <2> QED BY <1>3, <2>1, <2>2, <2>3, <2>4, <2>5, <2>6, <2>7, <2>8, <2>9, <2>10
<1> QED BY <1>1, <1>2, <1>3, StepCases

LEMMA EndsFacts ==
  ASSUME NEW i, Ends(i), state = "ready"
  PROVE  /\ state' # "noProgram"
         /\ \/ failing' = None
            \/ pc' = pc /\ failing' \in {i, failing}
<1>1. ASSUME NEW next, Completes(next)
      PROVE  state' # "noProgram" /\ failing' = None
  BY <1>1 DEF Completes
<1>2. ASSUME NEW e, Fails(i, e)
      PROVE  state' # "noProgram" /\ pc' = pc /\ failing' = i
  BY <1>2 DEF Fails
<1>3. ASSUME NEW what, Breaks(what)
      PROVE  state' # "noProgram" /\ pc' = pc /\ failing' = failing
  BY <1>3 DEF Breaks
<1>4. CASE Stop(i)
  BY <1>4 DEF Stop
<1> QED BY <1>1, <1>2, <1>3, <1>4 DEF Ends

(* A step of a machine that runs a plain program. *)
LEMMA StepRunning ==
  ASSUME VmInv, PlainProgram, Running, Step
  PROVE  Running' /\ state' # "noProgram"
<1>1. Outcome /\ state = "ready"
  BY StepOutcome, StepCases
<1>2. /\ heap'.start = heap.start
      /\ PlainState(heap', callStack'.items, addressStack'.items, pc')
  <2>1. PlainState(heap, callStack.items, addressStack.items, pc)
    BY DEF Running
  <2>2. CASE Refuses
    BY <2>1, <2>2 DEF Refuses, Stays
  <2>3. CASE GivesUp
    <3>1. /\ KeepsOf(heap, heap', Marked(heap, Roots))
          /\ KeepsVisited(heap, heap')
          /\ pc' = pc /\ callStack'.items = callStack.items
          /\ addressStack'.items = addressStack.items
      BY <2>3 DEF GivesUp, Stays
    <3>2. PlainState(heap', callStack.items, addressStack.items, pc)
      BY <2>1, <3>1, CollectedPlain
    <3> QED BY <3>1, <3>2 DEF KeepsOf
  <2>4. CASE Proceeds
    BY <2>4 DEF Proceeds
  <2> QED BY <1>1, <2>2, <2>3, <2>4 DEF Outcome
<1>3. PICK i \in InstructionsAt(pc) \cup {None} : Ends(i)
  BY StepEnds
<1>4. /\ state' # "noProgram"
      /\ failing' = None \/ (pc' = pc /\ failing' \in {i, failing})
  BY <1>1, <1>3, EndsFacts
<1>5. failing' \in Instructions \cup {None} \/ ~(pc' < heap'.start)
  <2>1. CASE failing' = None
    BY <2>1
  <2>2. CASE pc' = pc /\ failing' \in {i, failing} /\ pc < heap.start
    <3>1. failing \in Instructions \cup {None}
      BY <2>2 DEF Running, InProgram
    <3>2. i \in Instructions \cup {None}
      BY <2>2, <3>1 DEF InstructionsAt, InProgram
    <3> QED BY <2>2, <3>1, <3>2
  <2> QED BY <1>2, <1>4, <2>1, <2>2
<1> QED BY <1>2, <1>4, <1>5 DEF Running, InProgram

-----------------------------------------------------------------------------
(* Loading *)

LEMMA ReservedPlain ==
  ASSUME VmInv, InUse(heap) = {}, NEW size \in Nat \ {0},
         NEW r \in ReserveResults(heap, size)
  PROVE  /\ InUse(r.heap) = {}
         /\ r.status = "ok" => r.heap.start > 0
<1>1. /\ HeapInv(heap, VmData) /\ <<>> \in VmData
      /\ heap.end <= MaxMemory /\ MinBlockSize <= heap.end
  BY DEF VmInv, HeapOk, VmData
<1>2. \/ /\ r.status = "ok" /\ InUse(r.heap) = {}
         /\ r.heap.start \in {AlignTo8(size), r.heap.end}
      \/ /\ r.status \in {"heapInUse", "notEnoughMemory", "sizeIncreaseFailed"}
         /\ KeepsInUse(heap, r.heap)
  BY <1>1, ReserveFacts
<1>3. HeapOk(r.heap)
  BY ReservedHeap
<1>4. r.heap.end \in Nat /\ r.heap.end >= 16
  BY <1>3 DEF HeapOk, HeapInv, HeapType, MinBlockSize
<1>5. AlignTo8(size) > 0
  BY DEF AlignTo8
<1> QED BY <1>2, <1>4, <1>5 DEF KeepsInUse

LEMMA LoadPlain ==
  ASSUME VmInv, PlainInv, NEW size \in ProgramSizes,
         ReserveProgramArea(size) \/ LoadProgram(size)
  PROVE  PlainInv'
<1>1. size \in Nat \ {0}
  BY UnlambdaVmAssumption
<1>2. CASE state # "noProgram"
  <2>1. UNCHANGED <<heap, callStack, addressStack, pc, state, failing>>
    BY <1>2 DEF ReserveProgramArea, LoadProgram, LoadRefused
  <2> QED BY <1>2, <2>1 DEF PlainInv, Running, InProgram
<1>3. CASE state = "noProgram"
  <2>1. Fresh
    BY <1>3 DEF PlainInv
  <2>2. \/ heap' = heap
        \/ \E r \in ReserveResults(heap, size) : heap' = r.heap
    BY DEF ReserveProgramArea, LoadProgram
  <2>3. InUse(heap') = {}
    BY <1>1, <2>1, <2>2, ReservedPlain DEF Fresh
  <2>4. UNCHANGED <<callStack, addressStack, pc, failing>>
    BY DEF ReserveProgramArea, LoadProgram
  <2>5. CASE state' = "noProgram"
    BY <2>1, <2>3, <2>4, <2>5 DEF Fresh, PlainInv
  <2>6. CASE state' # "noProgram"
    <3>1. heap'.start > 0
      <4>1. heap.start \in Nat
        BY DEF VmInv, HeapOk, HeapInv, HeapType
      <4>2. CASE heap.start # 0
        BY <1>3, <2>6, <4>1, <4>2 DEF ReserveProgramArea, LoadProgram, LoadRefused
      <4>3. CASE heap.start = 0
        <5>1. PICK r \in ReserveResults(heap, size) :
                heap' = r.heap /\ r.status = "ok"
          BY <1>3, <2>6, <4>3 DEF ReserveProgramArea, LoadProgram, LoadRefused
        <5> QED BY <1>1, <2>1, <5>1, ReservedPlain DEF Fresh
      <4> QED BY <4>2, <4>3
    <3>2. /\ callStack'.items = <<>> /\ addressStack'.items = <<>>
          /\ pc' = 0 /\ failing' = None
      BY <2>1, <2>4 DEF Fresh
    <3>3. DOMAIN <<>> = {} /\ Range(<<>>) = {}
      BY DEF Range
    <3>4. FramesOk(heap', <<>>) /\ AddressesLive(heap', <<>>)
      BY <3>3 DEF FramesOk, AddressesLive
    <3>5. PlainBlocks(heap')
      BY <2>3 DEF PlainBlocks
    <3>6. PlainState(heap', <<>>, <<>>, 0)
      BY <3>1, <3>4, <3>5 DEF PlainState, AtPc
    <3> QED BY <2>6, <3>1, <3>2, <3>6 DEF PlainInv, Running
  <2> QED BY <2>5, <2>6
<1> QED BY <1>2, <1>3

LEMMA InitPlain == Init => PlainInv
<1> SUFFICES ASSUME Init PROVE PlainInv
  OBVIOUS
<1>1. /\ heap = CreatedHeap(InitialMemory) /\ InitialMemory \in Nat
      /\ MinBlockSize <= InitialMemory /\ <<>> \in VmData
  BY UnlambdaVmAssumption DEF Init, VmData
<1>2. InUse(heap) = {}
  BY <1>1, CreatedInv
<1> QED BY <1>2 DEF Init, PlainInv, Fresh, CreatedVmStack, CreatedStack,
                    ProgramStart

LEMMA NextPlain ==
  ASSUME PlainProgram
  PROVE  VmInv /\ PlainInv /\ [Next]_vars => PlainInv'
<1> SUFFICES ASSUME VmInv, PlainInv, [Next]_vars PROVE PlainInv'
  OBVIOUS
<1>1. ASSUME NEW size \in ProgramSizes,
             ReserveProgramArea(size) \/ LoadProgram(size)
      PROVE  PlainInv'
  BY <1>1, LoadPlain
<1>2. CASE Step
  BY <1>2, StepCases, StepRunning DEF PlainInv
<1>3. CASE StepNotReady
  BY <1>3 DEF StepNotReady, PlainInv, Fresh, Running, InProgram
<1>4. CASE UNCHANGED vars
  BY <1>4 DEF vars, PlainInv, Fresh, Running, InProgram
<1> QED BY <1>1, <1>2, <1>3, <1>4 DEF Next

LEMMA PlainSoundness ==
  ASSUME PlainProgram
  PROVE  Spec => [](VmInv /\ PlainInv)
<1>1. Init => VmInv /\ PlainInv
  BY InitInv, InitPlain
<1>2. VmInv /\ PlainInv /\ [Next]_vars => (VmInv /\ PlainInv)'
  BY NextInv, NextPlain
<1> QED BY <1>1, <1>2, PTL DEF Spec

-----------------------------------------------------------------------------
(* What follows from the invariant *)

LEMMA RootsAre ==
  ASSUME VmInv
  PROVE  /\ callStack.items \in Seq(Nat) /\ addressStack.items \in Seq(Nat)
         /\ Roots \subseteq Nat /\ HeapOk(heap)
<1>1. callStack.items \in Seq(Nat) /\ addressStack.items \in Seq(Nat)
      /\ HeapOk(heap)
  BY DEF VmInv, CallsOk, AddressesOk, SoundStack
<1> QED BY <1>1, RootFacts DEF Roots

(* An address that a frame, an address stack or a block holds. *)
LEMMA RootsLive ==
  ASSUME NEW h, NEW calls, NEW items, FramesOk(h, calls),
         AddressesLive(h, items),
         NEW a \in CallRoots(calls) \cup Range(items)
  PROVE  LiveAt(h, a)
BY DEF FramesOk, CallRoots, AddressesLive

LEMMA RefsLive ==
  ASSUME VmInv, PlainBlocks(heap), NEW b \in InUse(heap),
         NEW a \in heap.blocks[b].refs
  PROVE  LiveAt(heap, a)
<1> DEFINE x == heap.blocks[b]
<1>1. x.kind \in {"code", "state"} /\ PlainBlock(heap, x)
  <2>1. x \in BlockRecord(VmData)
    BY HeaderFacts DEF VmInv
  <2> QED BY <2>1 DEF BlockRecord, InUse, PlainBlocks
<1>2. CASE x.kind = "code"
  BY <1>1, <1>2 DEF PlainBlock, CodeLive
<1>3. CASE x.kind = "state"
  <2>1. StateLive(heap, x)
    BY <1>1, <1>3 DEF PlainBlock
  <2> QED BY <2>1, RootsLive DEF StateLive
<1> QED BY <1>1, <1>2, <1>3

LEMMA LiveHeaders ==
  ASSUME NEW h, h.start \in Nat, OwnAddresses, MaxMemory \in Nat,
         NEW R, R \subseteq Nat, \A a \in R : LiveAt(h, a)
  PROVE  HeadersOf(h, R) \subseteq InUse(h)
<1> SUFFICES ASSUME NEW a \in R, a >= h.start PROVE a - HeaderSize \in InUse(h)
  BY DEF HeadersOf
<1>1. ~Outside(a)
  BY DEF Outside, OwnAddresses, ProgramStart, HeaderSize
<1> QED BY <1>1 DEF LiveAt

LEMMA PlainIsDangling ==
  ASSUME OwnAddresses, VmInv, PlainInv
  PROVE  NoDanglingReference
<1>1. /\ Roots \subseteq Nat /\ heap.start \in Nat /\ MaxMemory \in Nat
      /\ HeapOk(heap)
  BY RootsAre, MaxMemoryAssumption DEF HeapOk, HeapInv, HeapType
<1>2. Reachable(heap, Roots) \subseteq InUse(heap)
  BY ReachableFacts
<1>3. CASE state = "noProgram"
  <2>1. Fresh
    BY <1>3 DEF PlainInv
  <2>2. Roots = {} /\ InUse(heap) = {}
    BY <2>1 DEF Fresh, Roots, CallRoots, Range
  <2>3. HeadersOf(heap, Roots) = {}
    BY <2>2 DEF HeadersOf
  <2> QED BY <1>2, <2>2, <2>3 DEF NoDanglingReference
<1>4. CASE state # "noProgram"
  <2>1. PlainState(heap, callStack.items, addressStack.items, pc)
    BY <1>4 DEF PlainInv, Running
  <2>2. \A a \in Roots : LiveAt(heap, a)
    BY <2>1, RootsLive DEF PlainState, Roots
  <2>3. HeadersOf(heap, Roots) \subseteq InUse(heap)
    BY <1>1, <2>2, LiveHeaders
  <2>4. ASSUME NEW b \in InUse(heap)
        PROVE  HeadersOf(heap, heap.blocks[b].refs) \subseteq InUse(heap)
    <3> DEFINE R == heap.blocks[b].refs
    <3>1. heap.blocks[b] \in BlockRecord(VmData)
      BY <1>1, HeaderFacts
    <3>2. R \subseteq Nat
      BY <3>1 DEF BlockRecord
    <3>3. \A a \in R : LiveAt(heap, a)
      BY <2>1, RefsLive DEF PlainState
    <3> HIDE DEF R
    <3>4. HeadersOf(heap, R) \subseteq InUse(heap)
      BY <1>1, <3>2, <3>3, LiveHeaders
    <3> QED BY <3>4 DEF R
  <2> QED BY <1>2, <2>3, <2>4 DEF NoDanglingReference
<1> QED BY <1>3, <1>4

LEMMA InCodeIsInstruction ==
  ASSUME NEW d \in Nat, NEW a \in Nat, InCode(heap, d, a)
  PROVE  IsInstruction(a)
<1> DEFINE b == d - HeaderSize
<1>1. b \in InUse(heap) /\ heap.blocks[b].kind = "code"
      /\ a - d \in DOMAIN heap.blocks[b].data
  BY DEF InCode
<1>2. a - DataAddress(b) = a - d
  BY DEF DataAddress, HeaderSize
<1> HIDE DEF b
<1>3. CodeAt(b, a) # {}
  BY <1>1, <1>2 DEF CodeAt
<1> QED BY <1>1, <1>3 DEF IsInstruction

LEMMA FramesReturn ==
  ASSUME NEW calls \in Seq(Nat), FramesOk(heap, calls),
         NEW a \in ReturnAddresses(calls)
  PROVE  IsInstruction(a)
<1>1. PICK k \in DOMAIN calls : k % 2 = 0 /\ a = calls[k]
  BY DEF ReturnAddresses
<1>2. ReturnsTo(heap, calls, k)
  BY <1>1 DEF FramesOk
<1>3. CASE calls[k] < heap.start
  BY <1>1, <1>3 DEF IsInstruction, InProgram
<1>4. CASE k >= 4 /\ InCode(heap, calls[k - 3], calls[k])
  <2>1. DOMAIN calls = 1 .. Len(calls) /\ Len(calls) \in Nat
    OBVIOUS
  <2>2. k \in 1 .. Len(calls) /\ k - 3 \in 1 .. Len(calls)
    BY <1>1, <1>4, <2>1
  <2>3. calls[k - 3] \in Nat /\ calls[k] \in Nat
    BY <2>2, ElementOfSeq
  <2> QED BY <1>1, <1>4, <2>3, InCodeIsInstruction
<1> QED BY <1>2, <1>3, <1>4 DEF ReturnsTo

LEMMA PlainReturns ==
  ASSUME VmInv, PlainInv
  PROVE  ReturnsIntoLiveCode
<1>1. /\ callStack.items \in Seq(Nat) /\ pc \in Nat
      /\ Reachable(heap, Roots) \subseteq InUse(heap)
  BY RootsAre, ReachableFacts DEF VmInv
<1>2. CASE state = "noProgram"
  <2>1. ReturnAddresses(callStack.items) = {} /\ InUse(heap) = {}
    BY <1>2 DEF PlainInv, Fresh, ReturnAddresses
  <2>2. SavedStates = {}
    BY <1>1, <2>1 DEF SavedStates
  <2> QED BY <1>2, <2>1, <2>2 DEF ReturnsIntoLiveCode
<1>3. CASE state # "noProgram"
  <2>1. /\ PlainBlocks(heap) /\ FramesOk(heap, callStack.items)
        /\ AtPc(heap, callStack.items, pc)
    BY <1>3 DEF PlainInv, Running, PlainState
  <2>2. \A a \in ReturnAddresses(callStack.items) : IsInstruction(a)
    BY <1>1, <2>1, FramesReturn
  <2>3. ASSUME NEW saved \in SavedStates
        PROVE  \A a \in ReturnAddresses(saved.calls) : IsInstruction(a)
    <3>1. PICK b \in InUse(heap) :
            heap.blocks[b].kind = "state" /\ saved = heap.blocks[b].data
      BY <1>1 DEF SavedStates
    <3>2. FramesOk(heap, saved.calls)
      BY <2>1, <3>1 DEF PlainBlocks, PlainBlock, StateLive
    <3>3. saved \in StateData
      BY <3>1 DEF VmInv, BlocksOk, BlockOk, SavedFits
    <3>4. saved.calls \in Seq(Nat)
      BY <3>3 DEF StateData
    <3> QED BY <3>2, <3>4, FramesReturn
  <2>4. IsInstruction(pc) \/ pc - HeaderSize \in InUse(heap)
    <3> DEFINE l == Len(callStack.items)
               d == callStack.items[l - 1]
    <3>1. CASE pc < heap.start
      BY <3>1 DEF IsInstruction, InProgram
    <3>2. CASE l >= 2 /\ InCode(heap, d, pc)
      <4>1. l - 1 \in 1 .. l
        BY <1>1, <3>2
      <4>2. d \in Nat
        BY <1>1, <4>1, ElementOfSeq
      <4> QED BY <1>1, <3>2, <4>2, InCodeIsInstruction
    <3>3. CASE pc = d /\ d - HeaderSize \in InUse(heap)
      BY <3>3
    <3> QED BY <2>1, <3>1, <3>2, <3>3 DEF AtPc
  <2> QED BY <2>2, <2>3, <2>4 DEF ReturnsIntoLiveCode
<1> QED BY <1>2, <1>3

(* A plain heap refers to nothing that the collector does not visit. *)
LEMMA PlainReachable ==
  ASSUME NEW h, HeapOk(h), NEW R, PlainBlocks(h)
  PROVE  Reachable(h, R) \subseteq Marked(h, R)
<1> DEFINE X == Marked(h, R)
<1>1. X \subseteq InUse(h) /\ IsMarkClosed(h, R, X)
  BY MarkedFacts
<1> HIDE DEF X
<1>2. ASSUME NEW a \in X
      PROVE  HeadersOf(h, h.blocks[a].refs) \cap InUse(h) \subseteq X
  <2>1. Visits(h, a) \subseteq X
    BY <1>1 DEF IsMarkClosed
  <2>2. ASSUME NEW c \in HeadersOf(h, h.blocks[a].refs) \cap InUse(h),
               h.blocks[a].kind = "code"
        PROVE  h.blocks[c].kind = "code"
    <3>1. CodeLive(h, h.blocks[a])
      BY <1>1, <2>2 DEF PlainBlocks, PlainBlock
    <3>2. PICK r \in h.blocks[a].refs : c = r - HeaderSize
      BY DEF HeadersOf
    <3> QED BY <2>2, <3>1, <3>2 DEF CodeLive
  <2>3. HeadersOf(h, h.blocks[a].refs) \cap InUse(h) \subseteq Visits(h, a)
    BY <2>2 DEF Visits
  <2> QED BY <2>1, <2>3
<1>3. IsReachClosed(h, R, X)
  BY <1>1, <1>2 DEF IsMarkClosed, IsReachClosed
<1>4. Reachable(h, R) \subseteq X
  BY <1>1, <1>3, ReachableFacts
<1> QED BY <1>4 DEF X

(* What is marked is still reachable in a memory that keeps it. *)
LEMMA MarkedStaysReachable ==
  ASSUME NEW h, NEW g, NEW R, KeepsOf(h, g, Marked(h, R))
  PROVE  Marked(h, R) \subseteq Reachable(g, R)
<1> DEFINE K == Marked(h, R)
           X == Reachable(g, R) \cap K
<1>1. K \subseteq InUse(h) /\ IsMarkClosed(h, R, K)
  BY MarkedFacts
<1>2. IsReachClosed(g, R, Reachable(g, R))
  BY ReachableFacts
<1>3. /\ g.start = h.start /\ K \subseteq InUse(g)
      /\ \A b \in K : g.blocks[b] = h.blocks[b]
  BY DEF KeepsOf
<1>4. \A Q : HeadersOf(g, Q) = HeadersOf(h, Q)
  BY <1>3 DEF HeadersOf
<1> HIDE DEF K
<1>5. HeadersOf(h, R) \cap InUse(h) \subseteq X
  BY <1>1, <1>2, <1>3, <1>4 DEF IsMarkClosed, IsReachClosed
<1>6. ASSUME NEW a \in X PROVE Visits(h, a) \subseteq X
  <2>1. Visits(h, a) \subseteq K
    BY <1>1 DEF IsMarkClosed
  <2>2. Visits(h, a) \subseteq HeadersOf(h, h.blocks[a].refs)
    BY DEF Visits
  <2>3. HeadersOf(h, h.blocks[a].refs) = HeadersOf(g, g.blocks[a].refs)
    BY <1>3, <1>4
  <2> QED BY <1>2, <1>3, <2>1, <2>2, <2>3 DEF IsReachClosed
<1>7. IsMarkClosed(h, R, X) /\ X \in SUBSET InUse(h)
  BY <1>1, <1>5, <1>6 DEF IsMarkClosed
<1>8. K \subseteq X
  BY <1>7, MarkedFacts DEF K
<1> QED BY <1>8 DEF K

-----------------------------------------------------------------------------
(***************************************************************************)
(* What holds of programs without continuations                            *)
(***************************************************************************)

(* The collector visits only the block of a frame, and never a return
   address.  Still every return address, on the call stack and in every saved
   state, lies in code that is in use, and so does the pc. *)
THEOREM ReturnsTheorem ==
  ASSUME PlainProgram
  PROVE  Spec => []ReturnsIntoLiveCode
<1>1. VmInv /\ PlainInv => ReturnsIntoLiveCode
  BY PlainReturns
<1> QED BY <1>1, PlainSoundness, PTL

(* Whatever executeMkkInstruction and the others collect in the middle of an
   instruction, no address that the machine holds or can reach points to a
   free block. *)
THEOREM NoDanglingReferenceTheorem ==
  ASSUME PlainProgram, OwnAddresses
  PROVE  Spec => []NoDanglingReference
<1>1. VmInv /\ PlainInv => NoDanglingReference
  BY PlainIsDangling
<1> QED BY <1>1, PlainSoundness, PTL

LEMMA StepFailure ==
  ASSUME ~AllocationFails, PlainProgram, VmInv, PlainInv, Step, returned' = -1
  PROVE  /\ Stays
         /\ \A b \in Reachable(heap, Roots) :
              b \in InUse(heap') /\ heap'.blocks[b] = heap.blocks[b]
<1>1. Outcome /\ state = "ready"
  BY StepOutcome, StepCases
<1>2. Reachable(heap, Roots) \subseteq InUse(heap)
  BY ReachableFacts
<1>3. CASE Refuses
  BY <1>2, <1>3 DEF Refuses
<1>4. CASE GivesUp
  <2>1. HeapOk(heap) /\ PlainBlocks(heap)
    BY <1>1, RootsAre DEF PlainInv, Running, PlainState
  <2>2. Reachable(heap, Roots) \subseteq Marked(heap, Roots)
    BY <2>1, PlainReachable
  <2> QED BY <1>4, <2>2 DEF GivesUp, KeepsOf
<1>5. ~Proceeds
  BY DEF Proceeds
<1> QED BY <1>1, <1>3, <1>4, <1>5 DEF Outcome

(* An instruction that fails leaves the pc and both stacks as they were, and
   of the memory everything that can be reached: it can be executed again. *)
THEOREM FailureTheorem ==
  ASSUME PlainProgram, ~AllocationFails
  PROVE  Spec => FailureChangesNothing
<1> DEFINE Unchanged ==
      /\ pc' = pc
      /\ callStack'.items = callStack.items
      /\ addressStack'.items = addressStack.items
      /\ \A b \in Reachable(heap, Roots) :
           b \in InUse(heap') /\ heap'.blocks[b] = heap.blocks[b]
<1>1. VmInv /\ PlainInv /\ [Next]_vars
      => [state = "ready" /\ returned' = -1 => Unchanged]_vars
  <2> SUFFICES ASSUME VmInv, PlainInv, Next, state = "ready", returned' = -1
               PROVE  Unchanged
    OBVIOUS
  <2>1. ASSUME NEW size \in ProgramSizes, LoadProgram(size)
        PROVE  Unchanged
    <3>1. UNCHANGED <<heap, callStack, addressStack, pc>>
      BY <2>1 DEF LoadProgram
    <3> QED BY <3>1, ReachableFacts
  <2>2. CASE Step
    BY <2>2, StepFailure DEF Stays
  <2> QED BY <2>1, <2>2 DEF Next, ReserveProgramArea, StepNotReady
<1> QED BY <1>1, PlainSoundness, PTL DEF Spec, FailureChangesNothing

-----------------------------------------------------------------------------
(* Running out of memory *)

(* The status outlives the instruction that failed, so what it says must go
   on being true until another one sets it. *)
LEMMA GivesUpReal ==
  ASSUME GivesUp, ~AllocationFails
  PROVE  OutOfMemoryIsReal'
<1> DEFINE K == Marked(heap, Roots)
           X == Reachable(heap', Roots')
<1>1. Roots' = Roots
  BY DEF GivesUp, Stays, Roots
<1>2. KeepsOf(heap, heap', K) /\ KeepsOnlyMarked(heap') /\ heap'.end = MaxMemory
  BY DEF GivesUp
<1>3. K \subseteq X /\ X \subseteq InUse(heap')
  BY <1>1, <1>2, MarkedStaysReachable, ReachableFacts
<1>4. \A b \in InUse(heap') : heap'.blocks[b] = heap.blocks[b]
  BY DEF GivesUp, KeepsOf
<1>5. CASE CodeWithSlack(heap, K, PushSize) = {}
  <2>1. InUse(heap') \subseteq X
    BY <1>2, <1>3, <1>5 DEF KeepsOnlyMarked
  <2> QED BY <1>2, <2>1 DEF OutOfMemoryIsReal
<1>6. ASSUME NEW a \in CodeWithSlack(heap, K, PushSize)
      PROVE  OutOfMemoryIsReal'
  <2> HIDE DEF K, X
  <2>1. /\ a \in X /\ a \in InUse(heap')
        /\ heap'.blocks[a].kind = "code" /\ heap'.blocks[a].slack >= PushSize
    BY <1>3, <1>4, <1>6 DEF CodeWithSlack, CodeBlocks
  <2>2. a \in CodeWithSlack(heap', X, PushSize)
    BY <2>1 DEF CodeWithSlack, CodeBlocks
  <2> QED BY <1>2, <2>2 DEF OutOfMemoryIsReal, X
<1> QED BY <1>5, <1>6

LEMMA OutOfMemorySteps ==
  ASSUME ~AllocationFails
  PROVE  VmInv /\ OutOfMemoryIsReal /\ [Next]_vars => OutOfMemoryIsReal'
<1> SUFFICES ASSUME VmInv, OutOfMemoryIsReal, [Next]_vars
             PROVE  OutOfMemoryIsReal'
  OBVIOUS
<1>1. ASSUME UNCHANGED <<heap, callStack, addressStack>>,
             UNCHANGED <<state, returned, status>>
      PROVE  OutOfMemoryIsReal'
  <2>1. Roots' = Roots
    BY <1>1 DEF Roots
  <2> QED BY <1>1, <2>1 DEF OutOfMemoryIsReal
<1>2. ASSUME NEW size \in ProgramSizes, ReserveProgramArea(size)
      PROVE  OutOfMemoryIsReal'
  BY <1>2 DEF ReserveProgramArea, OutOfMemoryIsReal
<1>3. ASSUME NEW size \in ProgramSizes, LoadProgram(size)
      PROVE  OutOfMemoryIsReal'
  BY <1>3 DEF LoadProgram, LoadRefused, OutOfMemoryIsReal
<1>4. CASE Step
  <2>1. Outcome
    BY <1>4, StepOutcome
  <2>2. CASE Refuses
    <3>1. Roots' = Roots /\ heap' = heap
      BY <2>2 DEF Refuses, Stays, Roots
    <3>2. status' # "outOfMemory" \/ UNCHANGED <<state, status, returned>>
      BY <2>2 DEF Refuses
    <3> QED BY <3>1, <3>2 DEF OutOfMemoryIsReal
  <2>3. CASE GivesUp
    BY <2>3, GivesUpReal
  <2>4. CASE Proceeds
    BY <2>4 DEF Proceeds, OutOfMemoryIsReal
  <2> QED BY <2>1, <2>2, <2>3, <2>4 DEF Outcome
<1>5. CASE StepNotReady
  BY <1>5 DEF StepNotReady, OutOfMemoryIsReal
<1>6. CASE UNCHANGED vars
  BY <1>1, <1>6 DEF vars
<1> QED BY <1>2, <1>3, <1>4, <1>5, <1>6 DEF Next

(* allocateCodeBlock and allocateVmStateBlock give up only when the memory is
   as large as it may become and holds nothing but what can be reached, or
   when a block in use has room for a whole PUSH in its slack, for then the
   collector may have kept garbage. *)
THEOREM OutOfMemoryTheorem ==
  ASSUME ~AllocationFails
  PROVE  Spec => []OutOfMemoryIsReal
<1>1. Init => OutOfMemoryIsReal
  BY DEF Init, OutOfMemoryIsReal
<1>2. VmInv /\ OutOfMemoryIsReal /\ [Next]_vars => OutOfMemoryIsReal'
  BY OutOfMemorySteps
<1> QED BY <1>1, <1>2, VmSoundness, PTL DEF Spec
=============================================================================
