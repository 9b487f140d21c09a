------------------------------ MODULE Debugger -----------------------------
(***************************************************************************)
(* The debugger (src/src/debug.c) and the virtual machine it is attached   *)
(* to, down to what the debugger reads and writes of the machine: the PC,  *)
(* the bytes of the memory and the two stacks.  Of the instructions, those *)
(* that move the PC are here, with PUSH and POP to feed them; the others,  *)
(* and what they do to the heap, are the subject of UnlambdaVm.            *)
(***************************************************************************)
EXTENDS DebugCommands, BreakpointOps, StackOps

CONSTANTS
  MemoryBase,         \* where the memory of the machine begins
  Memory,             \* its bytes, once the program is loaded
  HeapStart,          \* where its heap begins, behind the program
  Start,              \* the start address of the program
  MaxPersistent,      \* maxBreakpoints of createDebugger
  MaxTemporary,       \* MAX_TEMP_BREAKPOINTS
  InitialStack,       \* the words each stack has to begin with
  MaxCallFrames,      \* the limits of the stacks, as createUnlambdaVM
  MaxAddresses        \*   is given them

ASSUME DebuggerAssumption ==
  /\ Memory \in Seq(0 .. 255) /\ Memory # <<>>
  /\ MaxWord <= 255
  /\ MemoryBase \in Nat /\ MemoryBase + Len(Memory) <= MaxWord
  /\ HeapStart \in 0 .. Len(Memory)
  /\ Start \in 0 .. Len(Memory) - 1
  /\ MaxPersistent \in Nat \ {0} /\ MaxTemporary \in Nat \ {0}
  /\ MaxCallFrames \in Nat \ {0} /\ MaxAddresses \in Nat \ {0}
  /\ InitialStack \in Nat /\ InitialStack % 2 = 0
  /\ CanCreateStack(WordSize * InitialStack, 16 * MaxCallFrames)
  /\ CanCreateStack(WordSize * InitialStack, 8 * MaxAddresses)

VARIABLES
  vm,      \* pc, state, memory, calls, addresses, status, failed
  dbg,     \* persistent, temporary, breakOnNext, status
  crash    \* undefined behaviour the process has run into, or "none"

machine == <<vm, dbg, crash>>

PANIC == 0
PUSH == 1
POP == 2
PCALL == 5
RET == 6
HALT == 16

(* instructionSize; every byte that is no opcode counts for one. *)
InstructionSize(byte) ==
  CASE byte = PUSH -> 9 [] byte \in 13 .. 15 -> 2 [] OTHER -> 1

-----------------------------------------------------------------------------
(* Addresses *)

AddressSpace == MaxWord + 1
Pointer(a) == (MemoryBase + a) % AddressSpace
MemoryEnd == MemoryBase + Len(Memory)

(* isValidVmmAddress forgets the addresses whose pointer wraps around,
   ptrToVmmAddress does not. *)
IsValidVmmAddress(a) == Pointer(a) < MemoryEnd
HasPointer(a) == MemoryBase <= Pointer(a) /\ Pointer(a) < MemoryEnd

WordPlus(a, n) == (a + n) % AddressSpace

ByteAt(a) == vm.memory[a]

(* The word that PUSH reads from the 8 bytes behind it, in little-endian
   order.  A word of the model has 8 bits at most, so that the first byte is
   all there is of it. *)
WordAt(a) == ByteAt(a) % AddressSpace

-----------------------------------------------------------------------------
(***************************************************************************)
(* stepVm.  A failed step returns nonzero and sets the status, of which    *)
(* only the panic and the halt are told apart here; a step that succeeds   *)
(* leaves it alone.                                                        *)
(***************************************************************************)
(* Mutant: stepVm returns 0 once the machine has stopped. *)
StepFailsMut(v, status) ==
  [v EXCEPT !.failed = v.state = "ready", !.status = status]

StepFails(v, status) == [v EXCEPT !.failed = TRUE, !.status = status]

Moves(v, pc) == [v EXCEPT !.pc = pc, !.failed = FALSE]

Fetches(opcode) ==
  vm.state = "ready" /\ HasPointer(vm.pc) /\ ByteAt(vm.pc) = opcode

StepsTo(v) == vm' = v /\ UNCHANGED dbg

Push ==
  /\ Fetches(PUSH)
  /\ UNCHANGED crash
  /\ IF vm.pc + 9 > Len(Memory) THEN StepsTo(StepFails(vm, "error"))
     ELSE \E mem \in BOOLEAN :
            LET r == PushStack(vm.addresses, <<WordAt(vm.pc + 1)>>, mem)
                v == [vm EXCEPT !.addresses = r]
            IN  StepsTo(IF StackOk(r) THEN Moves(v, vm.pc + 9)
                        ELSE StepFails(v, "error"))

Pop ==
  /\ Fetches(POP)
  /\ UNCHANGED crash
  /\ LET r == PopStack(vm.addresses, 1)
         v == [vm EXCEPT !.addresses = r]
     IN  StepsTo(IF StackOk(r) THEN Moves(v, vm.pc + 1)
                 ELSE StepFails(v, "error"))

(* PCALL puts the target back on the address stack when it fails; the
   assertion around that is counted on to hold. *)
PutsBack(popped, target, calls) ==
  \E mem \in BOOLEAN :
    LET r == PushStack(popped, <<target>>, mem)
    IN  /\ StepsTo(StepFails([vm EXCEPT !.addresses = r, !.calls = calls],
                             "error"))
        /\ crash' = IF StackOk(r) THEN crash ELSE "assertion"

PCall ==
  /\ Fetches(PCALL)
  /\ LET popped == PopStack(vm.addresses, 1)
         target == Last(vm.addresses.items)
     IN  IF ~StackOk(popped)
         THEN /\ StepsTo(StepFails([vm EXCEPT !.addresses = popped], "error"))
              /\ UNCHANGED crash
         ELSE IF ~IsValidVmmAddress(target)
         THEN PutsBack(popped, target, vm.calls)
         ELSE \E mem1, mem2 \in BOOLEAN :
                LET block  == PushStack(vm.calls, <<target>>, mem1)
                    return == PushStack(block, <<WordPlus(vm.pc, 1)>>, mem2)
                    calls  == IF StackOk(block) THEN return ELSE block
                IN  IF StackOk(calls)
                    THEN /\ StepsTo(Moves([vm EXCEPT !.addresses = popped,
                                                     !.calls = calls],
                                          target))
                         /\ UNCHANGED crash
                    ELSE PutsBack(popped, target, calls)

(* RET loses the return address when there is no block below it. *)
Return ==
  /\ Fetches(RET)
  /\ UNCHANGED crash
  /\ LET target == PopStack(vm.calls, 1)
         block  == PopStack(target, 1)
         calls  == IF StackOk(target) THEN block ELSE target
         v      == [vm EXCEPT !.calls = calls]
     IN  StepsTo(IF StackOk(calls) THEN Moves(v, Last(vm.calls.items))
                 ELSE StepFails(v, "error"))

Halt ==
  /\ Fetches(HALT)
  /\ StepsTo(StepFails([vm EXCEPT !.state = "halted"], "halted"))
  /\ UNCHANGED crash

Panic ==
  /\ Fetches(PANIC)
  /\ StepsTo(StepFails([vm EXCEPT !.state = "panic"], "panic"))
  /\ UNCHANGED crash

IllegalInstruction ==
  /\ vm.state = "ready" /\ HasPointer(vm.pc) /\ ByteAt(vm.pc) > HALT
  /\ StepsTo(StepFails(vm, "error"))
  /\ UNCHANGED crash

IllegalPC ==
  /\ vm.state = "ready" /\ ~HasPointer(vm.pc)
  /\ StepsTo(StepFails(vm, "error"))
  /\ UNCHANGED crash

(* A machine that has stopped says so again. *)
Stopped ==
  /\ vm.state # "ready"
  /\ StepsTo(StepFails(vm, vm.state))
  /\ UNCHANGED crash

StepVm ==
  \/ Push \/ Pop \/ PCall \/ Return \/ Halt \/ Panic
  \/ IllegalInstruction \/ IllegalPC \/ Stopped

-----------------------------------------------------------------------------
(* createDebugger, attached to a machine that is ready to run; the symbols
   are those that the program brought along. *)

DebuggerStatuses == {"ok", "illegalArgument", "invalidCommand",
                     "executionError", "resume", "quit"}

LoadedVm ==
  [pc |-> Start, state |-> "ready",
   memory |-> [a \in 0 .. Len(Memory) - 1 |-> Memory[a + 1]],
   calls |-> CreatedStack(WordSize * InitialStack, 16 * MaxCallFrames),
   addresses |-> CreatedStack(WordSize * InitialStack, 8 * MaxAddresses),
   status |-> "ok", failed |-> FALSE]

CreatedDebugger ==
  [persistent |-> CreatedBreakpointList(MaxPersistent),
   temporary |-> CreatedBreakpointList(MaxTemporary),
   breakOnNext |-> FALSE, status |-> "ok"]

DebuggerInit ==
  /\ vm = LoadedVm
  /\ dbg = CreatedDebugger
  /\ crash = "none"

(* shouldBreakExecution: what it returns, and what it leaves of the lists.
   A list is asked only if what comes before it did not answer yes. *)
HitsPersistent == IsAtBreakpoint(dbg.persistent, vm.pc)
HitsTemporary == IsAtBreakpoint(dbg.temporary, vm.pc)

ShouldBreakExecution == dbg.breakOnNext \/ HitsPersistent \/ HitsTemporary

AfterBreakCheck ==
  IF dbg.breakOnNext THEN dbg
  ELSE IF HitsPersistent
  THEN [dbg EXCEPT !.persistent = CheckBreakpoint(@, vm.pc)]
  ELSE [dbg EXCEPT !.persistent = CheckBreakpoint(@, vm.pc),
                   !.temporary = CheckBreakpoint(@, vm.pc)]

-----------------------------------------------------------------------------
(***************************************************************************)
(* executeDebugCommand: one action per command.  It returned nonzero, and  *)
(* the status message was shown, exactly when the status is not "ok"; that *)
(* is so for a command that resumes or quits as well, where the status is  *)
(* what the main loop acts on.                                             *)
(***************************************************************************)
Reports(status) == dbg' = [dbg EXCEPT !.status = status]

(* A command that changes nothing but the status. *)
Answers(status) == Reports(status) /\ UNCHANGED <<vm, crash>>

FrameCount(s) == Len(s.items) \div 2

Malformed(cmd) ==
  /\ cmd.word = "parseError"
  /\ Answers("illegalArgument")

DisassembleOrDump(cmd) ==
  /\ cmd.word \in {"l", "d"}
  /\ Answers(IF HasPointer(cmd.args[1]) THEN "ok" ELSE "invalidCommand")

WriteBytes(cmd) ==
  /\ cmd.word = "w"
  /\ LET address == cmd.args[1]
         bytes   == Tail(cmd.args)
     IN  IF ~HasPointer(address) \/ address + Len(bytes) > Len(Memory)
         THEN Answers("invalidCommand")
         ELSE /\ vm' = [vm EXCEPT !.memory =
                          [a \in DOMAIN @ |->
                             IF a \in address .. address + Len(bytes) - 1
                             THEN bytes[a - address + 1] ELSE @[a]]]
              /\ Reports("ok")
              /\ UNCHANGED crash

DumpStack(cmd) ==
  \/ /\ cmd.word = "as"
     /\ Answers(IF cmd.args[1] < Len(vm.addresses.items)
                THEN "ok" ELSE "invalidCommand")
  \/ /\ cmd.word = "cs"
     /\ Answers(IF cmd.args[1] < FrameCount(vm.calls)
                THEN "ok" ELSE "invalidCommand")

(* The index in its items of the word at a depth of a stack. *)
AtDepth(s, depth) == Len(s.items) - depth

ModifyAddressStack(cmd) ==
  /\ cmd.word = "was"
  /\ LET depth == cmd.args[1]
     IN  IF depth >= Len(vm.addresses.items) THEN Answers("invalidCommand")
         ELSE /\ vm' = [vm EXCEPT !.addresses.items =
                          [@ EXCEPT ![AtDepth(vm.addresses, depth)] =
                             cmd.args[2]]]
              /\ Reports("ok")
              /\ UNCHANGED crash

PushAddressStack(cmd) ==
  /\ cmd.word = "pas"
  /\ \E mem \in BOOLEAN :
       LET r == PushStack(vm.addresses, <<cmd.args[1]>>, mem)
       IN  /\ vm' = [vm EXCEPT !.addresses = r]
           /\ Reports(IF StackOk(r) THEN "ok" ELSE "executionError")
           /\ UNCHANGED crash

PopAddressStack(cmd) ==
  /\ cmd.word = "ppas"
  /\ LET r == PopStack(vm.addresses, 1)
     IN  /\ vm' = [vm EXCEPT !.addresses = r]
         /\ Reports(IF StackOk(r) THEN "ok" ELSE "executionError")
         /\ UNCHANGED crash

ModifyCallStack(cmd) ==
  /\ cmd.word = "wcs"
  /\ LET depth == cmd.args[1]
         return == AtDepth(vm.calls, 2 * depth)
     IN  IF depth >= FrameCount(vm.calls) THEN Answers("invalidCommand")
         ELSE /\ vm' = [vm EXCEPT !.calls.items =
                          [@ EXCEPT ![return - 1] = cmd.args[2],
                                    ![return] = cmd.args[3]]]
              /\ Reports("ok")
              /\ UNCHANGED crash

(* Two pushes; the first stays when the second fails. *)
PushCallStack(cmd) ==
  /\ cmd.word = "pcs"
  /\ \E mem1, mem2 \in BOOLEAN :
       LET block  == PushStack(vm.calls, <<cmd.args[1]>>, mem1)
           return == PushStack(block, <<cmd.args[2]>>, mem2)
           r      == IF StackOk(block) THEN return ELSE block
       IN  /\ vm' = [vm EXCEPT !.calls = r]
           /\ Reports(IF StackOk(r) THEN "ok" ELSE "executionError")
           /\ UNCHANGED crash

(* Two pops; the first is undone, in an assertion, when the second fails. *)
PopCallStack(cmd) ==
  /\ cmd.word = "ppcs"
  /\ LET return == PopStack(vm.calls, 1)
         block  == PopStack(return, 1)
     IN  IF StackOk(return) /\ ~StackOk(block)
         THEN \E mem \in BOOLEAN :
                LET r == PushStack(block, TopItems(vm.calls, 1), mem)
                IN  /\ vm' = [vm EXCEPT !.calls = r]
                    /\ Reports("executionError")
                    /\ crash' = IF StackOk(r) THEN crash ELSE "assertion"
         ELSE LET r == IF StackOk(return) THEN block ELSE return
              IN  /\ vm' = [vm EXCEPT !.calls = r]
                  /\ Reports(IF StackOk(r) THEN "ok" ELSE "executionError")
                  /\ UNCHANGED crash

AddPersistent(cmd) ==
  /\ cmd.word = "ba"
  /\ \E mem \in BOOLEAN :
       LET r == AddBreakpoint(dbg.persistent, cmd.args[1], mem)
       IN  dbg' = [dbg EXCEPT !.persistent = r,
                     !.status = IF r.status = "ok" THEN "ok"
                                ELSE "executionError"]
  /\ UNCHANGED <<vm, crash>>

RemovePersistent(cmd) ==
  /\ cmd.word = "bd"
  /\ dbg' = [dbg EXCEPT !.persistent = RemoveBreakpoint(@, cmd.args[1]),
                        !.status = "ok"]
  /\ UNCHANGED <<vm, crash>>

(* r, with setVmPC. *)
RunProgram(cmd) ==
  /\ cmd.word = "r"
  /\ IF ~IsValidVmmAddress(cmd.args[1]) THEN Answers("invalidCommand")
     ELSE /\ vm' = [vm EXCEPT !.pc = cmd.args[1], !.status = "ok"]
          /\ dbg' = [dbg EXCEPT !.breakOnNext = FALSE, !.status = "resume"]
          /\ UNCHANGED crash

(* The debugger with a temporary breakpoint at an address. *)
WithTemporary(a, mem) ==
  [dbg EXCEPT !.temporary = AddBreakpoint(@, a, mem)]

RunUntilReturn(cmd) ==
  /\ cmd.word = "rr"
  /\ IF vm.calls.items = <<>> THEN Answers("executionError")
     ELSE /\ \E mem \in BOOLEAN :
               LET d == WithTemporary(Last(vm.calls.items), mem)
               IN  dbg' = IF d.temporary.status = "ok"
                          THEN [d EXCEPT !.breakOnNext = FALSE,
                                         !.status = "resume"]
                          ELSE [d EXCEPT !.status = "executionError"]
          /\ UNCHANGED <<vm, crash>>

SingleStepInto(cmd) ==
  /\ cmd.word = "s"
  /\ dbg' = [dbg EXCEPT !.breakOnNext = TRUE, !.status = "resume"]
  /\ UNCHANGED <<vm, crash>>

(* ss reads the instruction at a PC that may have no pointer, and resumes
   whether or not the breakpoint was added. *)
SingleStepOver(cmd) ==
  /\ cmd.word = "ss"
  /\ UNCHANGED vm
  /\ IF ~IsValidVmmAddress(vm.pc)
     THEN Reports("executionError") /\ UNCHANGED crash
     ELSE IF ~HasPointer(vm.pc)
     THEN crash' = "nullPointer" /\ UNCHANGED dbg
     ELSE LET next == WordPlus(vm.pc, InstructionSize(ByteAt(vm.pc)))
          IN  \E mem \in BOOLEAN :
                LET d == IF IsValidVmmAddress(next)
                         THEN WithTemporary(next, mem) ELSE dbg
                IN  /\ dbg' = [d EXCEPT !.breakOnNext = FALSE,
                                        !.status = "resume"]
                    /\ UNCHANGED crash

-----------------------------------------------------------------------------
(***************************************************************************)
(* hd walks the heap from the place of its first block to the header that  *)
(* names no block in memory, and checks nothing it reads.  A heap without  *)
(* room for a block has no header, and w may have written over the others: *)
(* the walk then reads bytes behind the memory, and there is no telling    *)
(* what comes of that.                                                     *)
(***************************************************************************)
HeapHeaderSize == 8

(* What performHeapDump reads of a block: the header, and the link of a free
   block or the sizes in a state block. *)
BytesRead(p) ==
  CASE ByteAt(p + 7) % 4 = 0 -> HeapHeaderSize + 8
    [] ByteAt(p + 7) % 4 = 2 -> HeapHeaderSize + 16
    [] OTHER -> HeapHeaderSize

(* nextHeapBlockInVmm, where the size has 7 bytes: a block of 256 bytes or
   more ends behind the memory. *)
NextBlock(p) ==
  IF \A i \in 1 .. 6 : ByteAt(p + i) = 0
  THEN p + HeapHeaderSize + ByteAt(p) ELSE Len(Memory)

HeapDumpStrays ==
  LET straysFrom[p \in 0 .. Len(Memory)] ==
        \/ p + HeapHeaderSize > Len(Memory)
        \/ p + BytesRead(p) > Len(Memory)
        \/ NextBlock(p) < Len(Memory) /\ straysFrom[NextBlock(p)]
  IN  straysFrom[HeapStart]

(* Whether the file can be opened is up to the file system. *)
HeapDump(cmd) ==
  /\ cmd.word = "hd"
  /\ \/ Answers("ok")
     \/ cmd.args # <<>> /\ Answers("executionError")
     \/ HeapDumpStrays /\ crash' = "strayHeader" /\ UNCHANGED <<vm, dbg>>

-----------------------------------------------------------------------------

QuitVm(cmd) == cmd.word = "q" /\ Answers("quit")

ListOrHelp(cmd) == cmd.word \in {"b", "h", "sym"} /\ Answers("ok")

ExecuteDebugCommand(cmd) ==
  \/ Malformed(cmd) \/ DisassembleOrDump(cmd) \/ WriteBytes(cmd)
  \/ DumpStack(cmd) \/ ModifyAddressStack(cmd) \/ PushAddressStack(cmd)
  \/ PopAddressStack(cmd) \/ ModifyCallStack(cmd) \/ PushCallStack(cmd)
  \/ PopCallStack(cmd) \/ AddPersistent(cmd) \/ RemovePersistent(cmd)
  \/ RunProgram(cmd) \/ RunUntilReturn(cmd) \/ SingleStepInto(cmd)
  \/ SingleStepOver(cmd) \/ HeapDump(cmd) \/ QuitVm(cmd) \/ ListOrHelp(cmd)
=============================================================================
