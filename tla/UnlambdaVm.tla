----------------------------- MODULE UnlambdaVm ----------------------------
(***************************************************************************)
(* The Unlambda virtual machine, src/src/vm.c: its two stacks, its memory  *)
(* and the instructions stepVm executes.  One action is one instruction    *)
(* with everything it calls: stack growth, allocation, collection, growth  *)
(* of the memory, and what it undoes when one of them fails.               *)
(*                                                                         *)
(* The program is arbitrary.  Its area is one address, ProgramStart, where *)
(* any instruction of Instructions may be found; an instruction that fails *)
(* is found there again.  Functions that the machine builds are exact:     *)
(* the data of a code block is its instructions by offset, and the pc in   *)
(* one is a byte address.                                                  *)
(***************************************************************************)
EXTENDS HeapOps, StackOps, Functions

CONSTANTS
  InitialMemory,        \* initialMemorySize of createUnlambdaVM, in bytes
  ProgramSizes,         \* sizes of the programs that may be loaded
  MaxCallStackSize,     \* maxCallStackSize of createUnlambdaVM, in frames
  MaxAddressStackSize,  \* maxAddressStackSize of createUnlambdaVM
  InitialStackSize,     \* initialCallStackSize and initialAddressStackSize
  UInt32,               \* the stack sizes are computed modulo this (2^32)
  Instructions,         \* what the program may consist of
  AllocationFails       \* malloc and realloc may find no memory

ASSUME UnlambdaVmAssumption ==
  /\ InitialMemory \in Nat
  /\ MinBlockSize <= InitialMemory /\ InitialMemory <= MaxMemory
  /\ ProgramSizes \subseteq Nat \ {0}
  /\ MaxCallStackSize \in Nat /\ MaxAddressStackSize \in Nat
  /\ InitialStackSize \in Nat \ {0}
  /\ UInt32 \in Nat \ {0} /\ UInt32 % 16 = 0
  /\ \A i \in Instructions : i.arg \in Nat
  /\ AllocationFails \in BOOLEAN

VARIABLES
  heap,          \* vm->memory, see HeapOps
  callStack,     \* vm->callStack: block called and return address, in turn
  addressStack,  \* vm->addressStack
  pc,            \* vm->pc
  state,         \* vm->state
  status,        \* vm->statusCode
  returned,      \* what the last call of stepVm or of the loader returned
  failing,       \* the instruction at the pc, when its last execution failed
  fault          \* the undefined step or failed assertion, or "none"

vars == <<heap, callStack, addressStack, pc, state, status, returned, failing,
          fault>>

ProgramStart == 0

(* An instruction with its operand (0 when it has none). *)
Op(op)        == [op |-> op, arg |-> 0]
OpOf(op, arg) == [op |-> op, arg |-> arg]
None          == Op("none")

CallStackBytes    == (16 * MaxCallStackSize) % UInt32
AddressStackBytes == (8 * MaxAddressStackSize) % UInt32

CreatedVmStack(entry, maxEntries, bytes) ==
  CreatedStack((entry * Min({InitialStackSize, maxEntries})) % UInt32, bytes)

(* createUnlambdaVM, when createStack accepts the sizes. *)
Init ==
  /\ heap = CreatedHeap(InitialMemory)
  /\ callStack = CreatedVmStack(16, MaxCallStackSize, CallStackBytes)
  /\ addressStack = CreatedVmStack(8, MaxAddressStackSize, AddressStackBytes)
  /\ CanCreateStack(callStack.end, CallStackBytes)
  /\ CanCreateStack(addressStack.end, AddressStackBytes)
  /\ pc = ProgramStart
  /\ state = "noProgram"
  /\ status = "ok" /\ returned = 0
  /\ failing = None
  /\ fault = "none"

-----------------------------------------------------------------------------
(* Loading *)

(* The caller may configure the program area before, as the image loader
   does: reserveVmMemoryForProgram on getVmMemory(vm). *)
ReserveProgramArea(size) ==
  /\ fault = "none" /\ state = "noProgram" /\ heap.start = 0
  /\ \E r \in ReserveResults(heap, size) :
       /\ r.status = "sizeIncreaseFailed" => AllocationFails
       /\ heap' = r.heap
  /\ UNCHANGED <<callStack, addressStack, pc, state, status, returned,
                 failing, fault>>

LoadRefused(error) ==
  status' = error /\ returned' = -1 /\ UNCHANGED state

(* loadVmProgramFromMemory *)
LoadProgram(size) ==
  /\ fault = "none"
  /\ UNCHANGED <<callStack, addressStack, pc, failing, fault>>
  /\ IF state # "noProgram"
     THEN LoadRefused("programAlreadyLoaded") /\ UNCHANGED heap
     ELSE IF heap.start # 0 /\ size > heap.start
     THEN LoadRefused("illegalArgument") /\ UNCHANGED heap
     ELSE \E r \in IF heap.start = 0 THEN ReserveResults(heap, size)
                   ELSE {[heap |-> heap, status |-> "ok"]} :
            /\ heap' = r.heap
            /\ \/ /\ r.status = "ok"
                  /\ state' = "ready" /\ returned' = 0 /\ UNCHANGED status
               \/ /\ r.status = "notEnoughMemory"
                  /\ LoadRefused("outOfMemory")
               \/ /\ r.status = "sizeIncreaseFailed" /\ AllocationFails
                  /\ LoadRefused("fatal")

-----------------------------------------------------------------------------
(* What the instructions share *)

Mem == IF AllocationFails THEN BOOLEAN ELSE {TRUE}

InProgram(a) == a < heap.start

(* The address n bytes after the pc; all of the program is ProgramStart. *)
After(n) == IF InProgram(pc) THEN ProgramStart ELSE pc + n

AddressCount == Len(addressStack.items)

(* readFromAddressStackTop, when there are so many addresses. *)
Argument(depth) == addressStack.items[AddressCount - depth]

(* The instruction is executed: the pc moves on, the status is left alone. *)
Completes(next) ==
  /\ pc' = next
  /\ returned' = 0
  /\ failing' = None
  /\ UNCHANGED <<state, status>>

(* It is not: the status says why, and the pc stays. *)
Fails(i, error) ==
  /\ status' = error
  /\ returned' = -1
  /\ failing' = i
  /\ UNCHANGED <<pc, state>>

FailsEarly(i, error) ==
  Fails(i, error) /\ UNCHANGED <<heap, callStack, addressStack, fault>>

(* The behaviour ends: a failed assertion, or an undefined step. *)
Breaks(what) ==
  /\ fault' = what
  /\ UNCHANGED <<heap, callStack, addressStack, pc, state, status, returned,
                 failing>>

(***************************************************************************)
(* assert(!pushToAddressStack(vm, a)) after n addresses were popped: there *)
(* is room without a growth.                                               *)
(***************************************************************************)
Replaces(n, a) ==
  LET r == PushStack(PopStack(addressStack, n), <<a>>, FALSE)
  IN  /\ addressStack' = StackDone(r)
      /\ fault' = IF StackOk(r) THEN fault ELSE "noRoomToPutBack"

-----------------------------------------------------------------------------
(* The instructions that only use the stacks *)

(* The operand of the program's last instruction may be cut off by the end
   of memory when nothing follows the program. *)
Push(i) ==
  /\ i.op = "PUSH"
  /\ \/ /\ HeapIsEmpty(heap)
        /\ FailsEarly(i, "illegalAddress")
     \/ \E mem \in Mem :
          LET r == PushStack(addressStack, <<i.arg>>, mem)
          IN  IF StackOk(r)
              THEN /\ addressStack' = r
                   /\ Completes(After(9))
                   /\ UNCHANGED <<heap, callStack, fault>>
              ELSE FailsEarly(i, "addressStackOverflow")

Pop(i) ==
  /\ i.op = "POP"
  /\ IF AddressCount = 0
     THEN FailsEarly(i, "addressStackUnderflow")
     ELSE /\ addressStack' = PopStack(addressStack, 1)
          /\ Completes(After(1))
          /\ UNCHANGED <<heap, callStack, fault>>

Swap(i) ==
  /\ i.op = "SWAP"
  /\ \E mem \in Mem :
       LET r == SwapStackTop(addressStack, 1, mem)
       IN  CASE StackOk(r) ->
                  /\ addressStack' = r
                  /\ Completes(After(1))
                  /\ UNCHANGED <<heap, callStack, fault>>
             [] r.status = "underflow" ->
                  FailsEarly(i, "addressStackUnderflow")
             [] OTHER -> Breaks("swapAssertion")

Dup(i) ==
  /\ i.op = "DUP"
  /\ \E mem \in Mem :
       LET r == DupStackTop(addressStack, 1, mem)
       IN  CASE StackOk(r) ->
                  /\ addressStack' = r
                  /\ Completes(After(1))
                  /\ UNCHANGED <<heap, callStack, fault>>
             [] r.status = "underflow" ->
                  FailsEarly(i, "addressStackUnderflow")
             [] r.status = "overflow" ->
                  FailsEarly(i, "addressStackOverflow")
             [] OTHER -> FailsEarly(i, "fatal")

(***************************************************************************)
(* PCALL pushes the block and then the return address.  When the second    *)
(* push fails, the first is not undone.                                    *)
(***************************************************************************)
PCall(i) ==
  /\ i.op = "PCALL"
  /\ IF AddressCount = 0
     THEN FailsEarly(i, "addressStackUnderflow")
     ELSE IF Argument(0) >= heap.end
     THEN /\ Replaces(1, Argument(0))
          /\ Fails(i, "illegalAddress")
          /\ UNCHANGED <<heap, callStack>>
     ELSE \E mem1, mem2 \in Mem :
            LET first  == PushStack(callStack, <<Argument(0)>>, mem1)
                second == PushStack(first, <<After(1)>>, mem2)
            IN  IF StackOk(first) /\ StackOk(second)
                THEN /\ callStack' = second
                     /\ addressStack' = PopStack(addressStack, 1)
                     /\ Completes(Argument(0))
                     /\ UNCHANGED <<heap, fault>>
                ELSE /\ callStack' = StackDone(first)
                     /\ Replaces(1, Argument(0))
                     /\ Fails(i, "callStackOverflow")
                     /\ UNCHANGED heap

(* RET pops the return address and then the block; a return address without
   a block is lost. *)
Return(i) ==
  /\ i.op = "RET"
  /\ LET first  == PopStack(callStack, 1)
         second == PopStack(first, 1)
     IN  IF StackOk(first) /\ StackOk(second)
         THEN /\ callStack' = second
              /\ Completes(callStack.items[Len(callStack.items)])
              /\ UNCHANGED <<heap, addressStack, fault>>
         ELSE /\ callStack' = StackDone(first)
              /\ Fails(i, "callStackUnderflow")
              /\ UNCHANGED <<heap, addressStack, fault>>

-----------------------------------------------------------------------------
(* Allocation *)

(* What the collector starts from: of the call stack, every other entry. *)
CallRoots(items) == {items[k] : k \in {j \in DOMAIN items : j % 2 = 1}}

(* Mutants: the call stack is not visited; the argument was popped. *)
RootsNoCallsMut == Range(addressStack.items)
RootsPoppedMut ==
  CallRoots(callStack.items)
  \cup Range(SubSeq(addressStack.items, 1, AddressCount - 1))

Roots == CallRoots(callStack.items) \cup Range(addressStack.items)

(* Mutant: memory grows without a collection before. *)
CollectedMut == {heap}

(* The memory after collectUnreachableVmmBlocks: more than one is possible
   only when the slack of a marked block has room for a whole PUSH. *)
Collected == Collections(heap, Roots)

NoBlock == -1

Allocated(h, size, contents) ==
  [heap |-> AllocateBlock(h, size, contents), block |-> FirstFit(h, size),
   fault |-> "none"]

NotAllocated(h, what) == [heap |-> h, block |-> NoBlock, fault |-> what]

(***************************************************************************)
(* allocateCodeBlock and allocateVmStateBlock on memory h, after the       *)
(* collection: grow and try again until there is room, realloc fails, or   *)
(* the maximum is reached.                                                 *)
(***************************************************************************)
GrowingResults(h, size, contents) ==
  LET sizes  == {s \in LaterSizes(h.end) : s > h.end}
      enough == {s \in sizes : CanAllocate(GrowTo(h, s), size)}
      short  == {s \in LaterSizes(h.end) :
                   s < MaxMemory /\ \A e \in enough : s < e}
  IN  (IF sizes # {} /\ GrowthTooSmall(h, NextSize(h.end))
       THEN {NotAllocated(h, "blockPastEnd")}
       ELSE IF enough # {}
       THEN {Allocated(GrowTo(h, Min(enough)), size, contents)}
       ELSE {NotAllocated(Grown(h, MaxMemory), "none")})
      \cup {NotAllocated(Grown(h, s), "none") :
              s \in IF AllocationFails THEN short ELSE {}}

AllocationResults(size, contents) ==
  IF CanAllocate(heap, size)
  THEN {Allocated(heap, size, contents)}
  ELSE {NotAllocated(heap, f) : f \in CollectionFaults(heap, Roots)}
       \cup UNION {IF CanAllocate(h, size)
                   THEN {Allocated(h, size, contents)}
                   ELSE GrowingResults(h, size, contents) : h \in Collected}

-----------------------------------------------------------------------------
(***************************************************************************)
(* The instructions that build a function: the arguments it takes from the *)
(* address stack, the bytes it asks for, and the code it writes, by        *)
(* offset.  The arguments stay on the stack until the block is there.      *)
(***************************************************************************)
Arity == [MKK |-> 1, MKS0 |-> 1, MKS1 |-> 2, MKS2 |-> 2, MKD |-> 1, MKC |-> 1]

CodeBytes ==
  [MKK |-> 12, MKS0 |-> 12, MKS1 |-> 25, MKS2 |-> 20, MKD |-> 15, MKC |-> 13]

PushOf(a) == OpOf("PUSH", a)

MkkCode(x) ==
  [n \in {0, 1, 2, 11} |->
     CASE n = 0 -> Op("PCALL") [] n = 1 -> Op("POP") [] n = 2 -> PushOf(x)
       [] n = 11 -> Op("RET")]

Mks0Code(x) ==
  [n \in {0, 1, 10, 11} |->
     CASE n = 0 -> Op("PCALL") [] n = 1 -> PushOf(x) [] n = 10 -> Op("MKS1")
       [] n = 11 -> Op("RET")]

Mks1Code(u, v) ==
  [n \in {0, 1, 2, 11, 12, 13, 22, 23, 24} |->
     CASE n = 0 -> Op("PCALL") [] n = 1 -> Op("DUP") [] n = 2 -> PushOf(v)
       [] n = 11 -> Op("MKS2") [] n = 12 -> Op("SWAP") [] n = 13 -> PushOf(u)
       [] n \in {22, 23} -> Op("PCALL") [] n = 24 -> Op("RET")]

Mks2Code(u, v) ==
  [n \in {0, 9, 18, 19} |->
     CASE n = 0 -> PushOf(v) [] n = 9 -> PushOf(u) [] n = 18 -> Op("PCALL")
       [] n = 19 -> Op("RET")]

MkdCode(x) ==
  [n \in {0, 9, 10, 11, 12, 13, 14} |->
     CASE n = 0 -> PushOf(x) [] n \in {9, 11, 13} -> Op("PCALL")
       [] n \in {10, 12} -> Op("SWAP") [] n = 14 -> Op("RET")]

MkcCode(x) ==
  [n \in {0, 1, 10, 12} |->
     CASE n = 0 -> Op("PCALL") [] n = 1 -> PushOf(x)
       [] n = 10 -> OpOf("RESTORE", 1) [] n = 12 -> Op("RET")]

BuiltCode(op) ==
  CASE op = "MKK"  -> MkkCode(Argument(0))
    [] op = "MKS0" -> Mks0Code(Argument(0))
    [] op = "MKS1" -> Mks1Code(Argument(0), Argument(1))
    [] op = "MKS2" -> Mks2Code(Argument(0), Argument(1))
    [] op = "MKD"  -> MkdCode(Argument(0))
    [] op = "MKC"  -> MkcCode(Argument(0))

Build(i) ==
  /\ i.op \in DOMAIN Arity
  /\ IF AddressCount < Arity[i.op]
     THEN FailsEarly(i, "addressStackUnderflow")
     ELSE LET arguments == {Argument(d) : d \in 0 .. Arity[i.op] - 1}
              size      == CodeBytes[i.op]
              contents  == CodeContents(size, arguments, BuiltCode(i.op))
          IN  \E r \in AllocationResults(CodeBlockSize(size), contents) :
                IF r.fault # "none" THEN Breaks(r.fault)
                ELSE /\ heap' = r.heap
                     /\ UNCHANGED callStack
                     /\ IF r.block = NoBlock
                        THEN /\ Fails(i, "outOfMemory")
                             /\ UNCHANGED <<addressStack, fault>>
                        ELSE /\ Replaces(Arity[i.op], DataAddress(r.block))
                             /\ Completes(After(1))

-----------------------------------------------------------------------------
(* SAVE and RESTORE *)

Save(i) ==
  /\ i.op = "SAVE"
  /\ IF AddressCount < i.arg
     THEN FailsEarly(i, "addressStackUnderflow")
     ELSE IF StackSize(addressStack) = addressStack.max
     THEN FailsEarly(i, "addressStackOverflow")
     ELSE LET calls     == callStack.items
              addresses == SubSeq(addressStack.items, 1, AddressCount - i.arg)
              size      == StateBlockSize(Len(calls) \div 2, Len(addresses))
              contents  == StateContents(CallRoots(calls) \cup Range(addresses),
                                         [calls |-> calls,
                                          addresses |-> addresses])
          IN  \E r \in AllocationResults(size, contents), mem \in Mem :
                LET pushed == PushStack(addressStack, <<DataAddress(r.block)>>,
                                        mem)
                IN  IF r.fault # "none" THEN Breaks(r.fault)
                    ELSE IF r.block = NoBlock
                    THEN /\ heap' = r.heap
                         /\ Fails(i, "outOfMemory")
                         /\ UNCHANGED <<callStack, addressStack, fault>>
                    ELSE IF ~StackOk(pushed) THEN Breaks("saveAssertion")
                    ELSE /\ heap' = r.heap
                         /\ addressStack' = pushed
                         /\ Completes(After(2))
                         /\ UNCHANGED <<callStack, fault>>

(* The block that a is the address of, when it is a saved state. *)
IsState(a) == /\ a - HeaderSize \in InUse(heap)
              /\ heap.blocks[a - HeaderSize].kind = "state"

(***************************************************************************)
(* How RESTORE refuses the address a it popped, and puts it back.  Of the  *)
(* program only the last word before the heap, read as a header, could say *)
(* anything; it is taken not to be the header of a saved state.            *)
(***************************************************************************)
RefusesState(i, a) ==
  /\ \/ /\ a - HeaderSize >= heap.end \/ InProgram(a)
        /\ Fails(i, "illegalAddress")
     \/ /\ a - HeaderSize < heap.end
        /\ Fails(i, "fatal")
  /\ Replaces(1, a)
  /\ UNCHANGED <<heap, callStack>>

(* setStack on both stacks, then the saved top on the address stack. *)
RestoresStacks(i, saved, popped, mems) ==
  LET calls     == SetStack(callStack, saved.calls, mems[1])
      addresses == SetStack(popped, saved.addresses, mems[2])
      top       == TopItems(popped, i.arg)
      all       == PushStack(addresses, top, mems[3])
  IN  /\ IF ~StackOk(calls)
         THEN /\ Fails(i, "fatal")
              /\ addressStack' = popped /\ UNCHANGED callStack
         ELSE /\ callStack' = calls
              /\ IF ~StackOk(addresses)
                 THEN Fails(i, "fatal") /\ addressStack' = popped
                 ELSE IF ~StackOk(all)
                 THEN /\ Fails(i, "addressStackOverflow")
                      /\ addressStack' = addresses
                 ELSE Completes(After(2)) /\ addressStack' = all
      /\ UNCHANGED <<heap, fault>>

(* Mutant: the state's address is not put back when there is no room. *)
PutsStateBackMut(a) ==
  /\ addressStack' = PopStack(addressStack, 1)
  /\ UNCHANGED fault

PutsStateBack(a) == Replaces(1, a)

Restore(i) ==
  /\ i.op = "RESTORE"
  /\ IF AddressCount = 0
     THEN FailsEarly(i, "addressStackUnderflow")
     ELSE LET a      == Argument(0)
              popped == PopStack(addressStack, 1)
              saved  == heap.blocks[a - HeaderSize].data
          IN  IF ~IsState(a)
              THEN RefusesState(i, a)
              ELSE IF ~HasWords(popped, i.arg)
              THEN /\ Fails(i, "addressStackUnderflow")
                   /\ PutsStateBack(a)
                   /\ UNCHANGED <<heap, callStack>>
              ELSE \/ /\ AllocationFails /\ i.arg > 0
                      /\ Fails(i, "fatal")
                      /\ addressStack' = popped
                      /\ UNCHANGED <<heap, callStack, fault>>
                   \/ IF Bytes(saved.addresses) + WordSize * i.arg
                         > addressStack.max
                      THEN /\ Fails(i, "addressStackOverflow")
                           /\ PutsStateBack(a)
                           /\ UNCHANGED <<heap, callStack>>
                      ELSE \E mems \in [1 .. 3 -> Mem] :
                             RestoresStacks(i, saved, popped, mems)

-----------------------------------------------------------------------------
(* The other instructions, and stepVm *)

PutChar(i) ==
  /\ i.op = "PRINT"
  /\ Completes(After(2))
  /\ UNCHANGED <<heap, callStack, addressStack, fault>>

Stop(i) ==
  /\ \/ i.op = "HALT"  /\ state' = "halted" /\ status' = "halted"
     \/ i.op = "PANIC" /\ state' = "panic"  /\ status' = "panic"
  /\ returned' = -1
  /\ UNCHANGED <<heap, callStack, addressStack, pc, failing, fault>>

Illegal(i) == i.op = "ILLEGAL" /\ FailsEarly(i, "illegalInstruction")

(* The instructions that start in code block b, by address. *)
CodeAt(b, a) ==
  {heap.blocks[b].data[n] : n \in {a - DataAddress(b)} \cap
                                   DOMAIN heap.blocks[b].data}

(* A state block begins with eight PANIC instructions, for a program that
   calls it. *)
GuardSize == 8

GuardAt(b, a) ==
  {Op("PANIC") : n \in {a - DataAddress(b)} \cap (0 .. GuardSize - 1)}

(* The instruction at the pc: none where there is no code. *)
InstructionsAt(a) ==
  IF InProgram(a)
  THEN IF failing = None THEN Instructions ELSE {failing}
  ELSE UNION {IF heap.blocks[b].kind = "code" THEN CodeAt(b, a)
              ELSE GuardAt(b, a) : b \in InUse(heap)}

(***************************************************************************)
(* What is assumed of the program: it makes functions of functions, and    *)
(* continuations of saved states.  So do the functions it makes: what they *)
(* are applied to, and what the functions they call return, comes from it. *)
(***************************************************************************)
WellTyped(i) ==
  i.op \in DOMAIN Arity /\ AddressCount >= Arity[i.op]
  => \A d \in 0 .. Arity[i.op] - 1 : IsState(Argument(d)) <=> i.op = "MKC"

Step ==
  /\ fault = "none" /\ state = "ready"
  /\ IF pc >= heap.end
     THEN FailsEarly(None, "fatal")
     ELSE IF InstructionsAt(pc) = {}
     THEN Breaks("executesData")
     ELSE \E i \in InstructionsAt(pc) :
            /\ WellTyped(i)
            /\ \/ Push(i) \/ Pop(i) \/ Swap(i) \/ Dup(i)
               \/ PCall(i) \/ Return(i)
               \/ Build(i) \/ Save(i) \/ Restore(i)
               \/ PutChar(i) \/ Stop(i) \/ Illegal(i)

(* stepVm when the machine does not run. *)
StepNotReady ==
  /\ fault = "none" /\ state # "ready"
  /\ status' = state
  /\ returned' = -1
  /\ UNCHANGED <<heap, callStack, addressStack, pc, state, failing, fault>>

Next ==
  \/ \E size \in ProgramSizes : ReserveProgramArea(size) \/ LoadProgram(size)
  \/ Step
  \/ StepNotReady

Spec == Init /\ [][Next]_vars

-----------------------------------------------------------------------------
(* Properties *)

StackType(s, bytes) ==
  /\ s = [items |-> s.items, end |-> s.end, max |-> bytes, status |-> "ok"]
  /\ s.items \in Seq(Nat)
  /\ StackSize(s) <= s.end /\ s.end <= bytes

(* The stacks stay within their memory and the heap keeps its structure,
   whatever instruction fails in whatever way. *)
TypeOK ==
  /\ HeapIsSound(heap)
  /\ StackType(callStack, CallStackBytes)
  /\ StackType(addressStack, AddressStackBytes)
  /\ pc \in Nat
  /\ returned \in {0, -1}

(* The comment before executeMkkInstruction: the collector that runs in the
   middle of an instruction leaves nothing the machine holds pointing to a
   free block. *)
NoDanglingReference ==
  /\ HeadersOf(heap, Roots) \subseteq InUse(heap)
  /\ \A b \in Reachable(heap, Roots) :
       HeadersOf(heap, heap.blocks[b].refs) \subseteq InUse(heap)

(* An instruction of a live code block, or of the program. *)
IsInstruction(a) ==
  \/ InProgram(a)
  \/ \E b \in InUse(heap) :
       heap.blocks[b].kind = "code" /\ CodeAt(b, a) # {}

ReturnAddresses(calls) ==
  {calls[k] : k \in {j \in DOMAIN calls : j % 2 = 0}}

SavedStates == {heap.blocks[b].data :
                  b \in {c \in Reachable(heap, Roots) :
                           heap.blocks[c].kind = "state"}}

(* The collector visits only the block of a call frame.  Still the code that
   every return address lies in survives, on the call stack and in every
   saved state that can be restored, and so does the code being executed. *)
ReturnsIntoLiveCode ==
  /\ \A a \in ReturnAddresses(callStack.items) : IsInstruction(a)
  /\ \A saved \in SavedStates :
       \A a \in ReturnAddresses(saved.calls) : IsInstruction(a)
  /\ state = "noProgram" \/ IsInstruction(pc)
     \/ pc - HeaderSize \in InUse(heap)

(* PCALL, RET and RESTORE move two entries or none, although each entry is
   moved by a call of its own that may fail: a block never takes the place
   of a return address. *)
CallStackInFrames ==
  /\ Len(callStack.items) % 2 = 0
  /\ \A b \in InUse(heap) :
       heap.blocks[b].kind = "state"
       => Len(heap.blocks[b].data.calls) % 2 = 0

(* An instruction that fails can be executed again: what it popped it puts
   back, and the memory it collected was garbage. *)
FailureChangesNothing ==
  [][state = "ready" /\ returned' = -1 =>
       /\ pc' = pc
       /\ callStack'.items = callStack.items
       /\ addressStack'.items = addressStack.items
       /\ \A b \in Reachable(heap, Roots) :
            b \in InUse(heap') /\ heap'.blocks[b] = heap.blocks[b]]_vars

(* Whatever was saved fits into the stacks as they are now: once RESTORE has
   popped the address, setStack cannot fail and lose the state. *)
SavedStacksFit ==
  \A b \in InUse(heap) :
    heap.blocks[b].kind = "state" =>
      /\ Bytes(heap.blocks[b].data.calls) <= callStack.end
      /\ Bytes(heap.blocks[b].data.addresses) <= addressStack.end

(* The machine gives up for lack of memory only at the maximum size, with
   nothing in the heap that could be collected; unless a block it uses has
   room for a whole PUSH in its slack, which may keep anything. *)
OutOfMemoryIsReal ==
  state = "ready" /\ returned = -1 /\ status = "outOfMemory" =>
    /\ heap.end = MaxMemory
    /\ \/ InUse(heap) \subseteq Reachable(heap, Roots)
       \/ CodeWithSlack(heap, Reachable(heap, Roots), PushSize) # {}

(* The comments at the assertions of PCALL, the MK instructions and RESTORE:
   an address that was just popped can be pushed again. *)
PutBackHasRoom == fault # "noRoomToPutBack"
=============================================================================
