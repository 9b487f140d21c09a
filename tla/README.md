# Verification of the Unlambda virtual machine

This directory holds TLA+ models of the program in `src/`: a virtual machine
for Unlambda in C, with an assembler, a program image format and a debugger.
The program is single-threaded. What makes it hard is its memory: the machine
builds functions at run time as code blocks on a heap that shares one address
space with the program, reclaims them with a mark/sweep collector that has to
decode the code it finds, and grows the memory when the collector does not
help. A wrong link, size or missed mark surfaces many instructions later as
execution of overwritten code.

## The system

| Component | Source | State | Operations |
|---|---|---|---|
| VM memory | `vmmem.c` | bytes, program area, block headers, free list, `bytesFree`, status | create, reserve for program, allocate code or state block, collect, grow |
| Stacks | `stack.c` | bytes in use, allocated size, maximum, status | push, pop, read top, swap, dup, clear, set |
| Virtual machine | `vm.c` | pc, call stack, address stack, memory, symbols, status | load program, step; 17 instructions |
| Debugger | `debug.c`, `brkpt.c`, `dbgcmd.c` | breakpoints, transient breakpoint list, mode, resume state | parse and execute commands, decide whether to break |
| Main program | `unl.c` | options, the loop | step, break, read a command, run it, report |
| Symbol table | `symtab.c` | hash chains, address-sorted index, status | add, find by name, find by address, clear, rehash |
| Assembler | `asm.c`, `unlasm.c` | lines, symbols, output bytes | split, parse, two passes, encode |
| Images | `vm_image.c` | file cursor | save and load program with symbols |
| Byte array | `array.c` | bytes, size, capacity | append, insert, remove, fill, find |
| Helpers | `argparse.c`, `logging.c`, `fileio.c`, `vm_instructions.c` | none that lasts | scanning, logging, reading, tables |

How they interact: `stepVm` decodes one instruction at the pc and calls the
stacks and the memory. An instruction that builds a function asks the memory
for a block; when there is none, the machine collects (the roots are the
machine's two stacks), tries again, and grows the memory until the request
succeeds or the maximum is reached. `SAVE` copies both stacks into a state block and `RESTORE`
copies them back. The main loop asks the debugger before every step whether
to stop. The image loader and the assembler fill the program area and the
symbol table.

What is hard here, and tested by no unit test of the repository:
long sequences of allocations, collections and growths; sizes at the edge of
a block; collections in the middle of an instruction, when some operand is on
no stack; decoding bytes that nobody wrote; failures of `malloc` and `realloc` between
two steps of one instruction; state that the debugger keeps from one stop to
the next; two indexes of the same symbols; two passes of the assembler that
must agree on every size; an image that is half written. `PROJECT.json` lists
each hazard at its line.

## Modules

`HeapOps` is the memory as a value: the record of block headers, free list and
counter, and one pure operator per routine of `vmmem.c`. Block contents are
abstracted to the addresses the collector reads in them (`refs`), to what the
machine stores there (`data`), and to the number of padding bytes nobody
writes (`slack`). Marks live only inside one collection and appear as the set
`Marked`; the sweep is stated by its result (`Sweep`: each maximal run of
unmarked blocks becomes one free block, links in address order).

`VmMemory` is the memory with the client it has in `vm.c`: one action per call
of the public interface. The client keeps addresses on its stacks (`roots`),
fills blocks with addresses it holds, loads operands of code it can reach and
restores saved stacks. Steps that are undefined in C (`fault`) stop the
behaviour: reading a block header past the end of memory, following an address
that is no block, decoding over the end of a block, marking the contents of
one, taking a block in use for a free one, writing a free block over the end of
memory.

The padding of a code block is decoded by the collector like code. What its
bytes may do is split in three (`CollectorRoots`, `CollectionFaults`). If the
last of them begin an instruction that extends over the end of the block, the
assertion behind the walk fails. If a whole `PUSH` fits, its stale operand may
be the address of any code block in use, or lead to one by way of the remains of
a block in free memory: the collector then keeps that block and all it refers
to (`Collections` has one result for each set of blocks that is kept). Or it may
point to the contents of a block in use, which pass for the header of a code block if two
bits of a byte say so; the collector sets its mark there and walks on with
a size it finds there. That is the fault `marksContents`, after which nothing
can be said.

`ObjectStore` is what the memory promises, without headers, sizes, lists or
marks: objects do not overlap, stay where they are and keep their contents as
long as the client can reach them, until the memory takes a step that is
undefined. `VmMemory` implements it under the mapping of `objects` to the
blocks in use.

`StackOps` is a stack as a value, one operator per routine of `stack.c`. A
stack is its words, the bytes allocated, the maximum and the status; an
argument says whether `malloc` and `realloc` find memory, so that every failure
path is one more result. `VmStack` is one stack under any sequence of calls,
and `BoundedStack` what `stack.h` promises of it: all of an operation or
nothing, and never more than the maximum. A step of `BoundedStack` fixes which
call is made and with what, so that a call cannot pass for another that has the
same result.

`UnlambdaVm` composes the two: `vm.c` with both its stacks and its memory. One
action is one instruction with everything it calls, in the order of the code:
stack growth, allocation, collection from the machine's real roots, growth of
memory, and what a failure puts back. The functions the machine builds (`MKK`
to `MKC`) are exact instruction by instruction, so that executing them is
executing what `vm.c` wrote, and so are the `PANIC` instructions that guard a
state block. A collection is that of `HeapOps`, stale operands and its faults
included. Two things are abstracted:

- The program is arbitrary. Its area is one address, where any instruction of
  the constant `Instructions` may be found; its literals are addresses of the
  program or outside memory. An instruction that failed is found again
  (`failing`), as the pc still points to it.
- The program is well typed (`WellTyped`): it builds functions of functions
  and continuations of saved states, and so do the functions it builds. Otherwise the code block built would hold
  what `KeepsReachable` shows the collector to lose.

`fault` again holds the first undefined step or failed assertion:
`noRoomToPutBack`, `saveAssertion`, `swapAssertion`, `executesData`, and the
faults of the memory.

`SymbolOps` is the symbol table as a value: the chains of the hash table in
their order, the list by address with the slots allocated for it, and one
operator per routine of `symtab.c`, down to the binary search and its
encoding of a miss. Names are model values with a hash code, so that names
collide, and stop or start to collide when the table grows. Each of the four allocations
of `addSymbolToTable` may fail. The one for the copy of the name is not
checked: without memory the addition succeeds with a symbol that has no name
(`NoName`), and the next search or rehash that comes to it reads a null pointer
(`nullName`), after which nothing is called. `SymbolTable` is one table under
any sequence of calls, and `SymbolDirectory` what is promised of it: a set of
symbols, of which some may have lost their names. Debugger, assembler and image loader use the same operators.

`ArrayOps` is the growing array and `BreakpointOps` a list of breakpoints, with
the cursor that makes a check cheap. `DebugCommands` is the parser of the
debugger from the words of a line on: defaults, the order in which errors are
found, symbols with displacements. `Debugger` has one action per command and
one per instruction that moves the pc, over the stacks of `StackOps`; a
memory whose base lies near the top of the address space shows what wraps
around. `MainLoop` puts it into two hosts: the main loop of `unl.c` with its
switches and a user at the prompt, or any other program that calls `debug.h` in any
order. The symbol table of the program is a parameter of it, any table whose chains
are sound; `MCMainLoop` makes one with `AddSymbol`. `crash` holds the first assertion that fails or pointer that is not one. The
heap dump walks the bytes of the memory from `HeapStart`, as
`performHeapDump` does; where it reads behind the memory, it may crash.

`AsmSyntax` is the parser of one line of assembly, from tokens to an
`AssemblyLine`. `ImageOps` is the file of an image: what a write leaves of an
older file, and what a load makes of any file. `Assembler` is `unlasm.c`, one
action per line parsed, per line generated and per write of the image, with
memory or a write failing and the program killed at any point, and then the
machine that loads the file. The memory for the message of an error may fail
as well, which is how the second pass comes to overlook the error
(`GenerationFails`; `messageLost` remembers it for the properties).

`DataLemmas` and `VmLemmas` hold the lemmas about the operators,
`VmMemoryProofs`, `VmStackProofs`, `UnlambdaVmProofs`, `SymbolTableProofs`,
`MainLoopProofs` and `AssemblerProofs` the theorems about the components.

## Runs

| Run | Question | Bounds and why they suffice |
|---|---|---|
| `blocks` | Do blocks, free list and counter stay consistent? | 32 to 96 bytes, two growths (the second cut short), three block sizes of which one leaves a remainder of 8 bytes, programs that leave most or nothing of the memory to the heap |
| `reach` | Does the collector keep what is reachable and go nowhere else, whatever garbage the padding makes it keep? | 32 to 56 bytes, so up to three blocks at once; state blocks with up to two addresses, cycles through them; padding of 4, 5 and more than 9 bytes, a stale operand may keep any code blocks |
| `continuation` | `vmmem.h`: the collector finds all reachable blocks | violated in 64 bytes |
| `growth` | `vmmem.c`: 16 is the smallest block | violated by growth from 32 to 40 bytes |
| `stack` | Does a stack keep within its allocation and its promise? | a stack of at most five words that starts with one, so that growth doubles, is cut off, and fails; calls move up to three words of two kinds |
| `setstack` | `stack.h`: `setStack` is the same as clear and push | violated on a stack of four words |
| `functions` | Do collections in the middle of instructions keep everything, and can every saved state be restored? | 16 bytes of program and at most 72 of heap: up to three functions or two states, so every allocation soon needs a collection, a growth, or both; two call frames, three addresses |
| `failures` | What remains of the machine when anything fails? | `malloc` and `realloc` may fail in every step; 16 to 64 bytes of program, three frames (growth to one, two, and three: the last cut off), two addresses |
| `symbols` | Do both indexes of a symbol table agree, and does it promise what a set of symbols does? | three names, two with one hash code and a third that meets them in some sizes; tables of one, two and three buckets, so two rehashes and one addition past the last; three addresses; three symbols in a list that starts with one slot, doubles, and is cut off |
| `debugger` | Is a breakpoint ever missed, does the debugger keep the machine whole, does the main loop end as its switches say? | a program of 12 bytes with a call, a return and a halt, and a heap of one free block whose header can be overwritten; three commands out of 34 lines, every command and every kind of error among them; three breakpoints, one transient; two frames, two addresses; words of 8 bits |
| `images` | Do two passes agree, is a saved image loaded as it was, and what does an interrupted save leave? | 17 sources of up to 10 lines, with forward and backward labels, each kind of parse error, blank lines and a newline at the end; programs of up to 16 bytes; over no image, a damaged one, or one with two symbols; memories that the program fits in or not; two loads |
| `push` | `unlasm.c`: the address counter advances by the bytes of each instruction | violated by a `PUSH` |

All runs but those of the stack say `CHECK_DEADLOCK FALSE`: a fault, a halt, a
null pointer that is read, or an error ends a behaviour, as it ends the program.

Fairness is assumed where the code is a loop that waits for nothing: of the
main loop's head and of its step (`Check`, `Step`; weak fairness suffices, as
nothing but the loop itself disables them), and of the assembler as a whole. The
user at the prompt is under no fairness, so that `FailuresHandledAsAsked` ends
at the prompt, and `BatchRunEnds` is about the switches under which there is
no prompt. The program of the run `debugger` ends; that any program does is
no property of the code. Memory and stacks run under clients that promise
nothing, and have no liveness property.

The properties of `UnlambdaVm` are about what no single routine decides:
`NoDanglingReference` and `ReturnsIntoLiveCode` need the order of pop, allocate
and push in each instruction, and the fact that the block of a frame is always
the block its return address lies in, although the collector visits only
every other word. `OutOfMemoryIsReal` is about the loop that collects, grows
and tries again: it ends only when the memory has its maximum size and a
collection has left nothing that nothing refers to, or when some block in
use has padding that can hold a `PUSH` and so keep anything. `CallStackInFrames` holds although `PCALL` does not undo its
first push when the second fails: a stack grows by doubling from whole frames,
so that the second push never needs memory. `SavedStacksFit` is why `RESTORE`
can use `setStack` after it popped the address of the state: allocations never
shrink (`AllocationNeverShrinks`), and what was saved was once on the stack.

`BreakpointNeverMissed` is about a cursor: `isAtBreakpoint` never looks before
the index where its last search ended, so every insertion, removal and jump
has to leave an index that no later check needs to go back from; checks are
skipped when the other list hits or an `s` command broke, and still the index
agrees with the last pc (`BreakpointListsSound`). The address of the last check is
left out, because there the answer depends on whether the list has changed since: if
not, the breakpoint is found again (`brkpt_tests.cpp:350` and `354` expect that); if
so, the index has moved behind it, and a program that comes back to that
address with no check in between runs past the breakpoint there.
`CrashOnlyInTwoWays` says that the assertions about words put back
hold, for any stack that the commands can make, that `ss` alone reads
through an address that wraps around, and that the heap dump leaves the memory only
where the bytes it takes for headers lead it: in a heap that is empty, or after `w` has
written over one. That is a fact about the parser, every command and every instruction
between them; whether the heap is one is a fact about the bytes
(`HeapDumpStrays`).

`IndexesAgree` depends on the second search that `addSymbolToTable` makes after
a rehash. It stands inside an `assert`: compiled with `NDEBUG` it disappears
(the mutant `LinkBeforeMut`), and a link goes into the wrong bucket. A link
whose name could not be copied is in the bucket of the name it should have.

`LoadAllOrNothing` is what is left of an interrupted save: the header
announces the new size, the bytes behind it may be the old program's, but a
machine that becomes ready has as many as announced and starts among them.
`ImageRoundTrip` holds over any older file although nothing truncates it: a
load that asks for the symbols gets all of them, at their addresses and with
their names, but for names of which no copy could be made. A load that does not
ask leaves the table as it is, which holds the first symbols of the image if an earlier load
failed on one of them.

`CodeAtItsAddress` is limited to what precedes the first `PUSH`, which loses its
operand (see below), and the first error whose message was lost; without these
limits the generator still never gets beyond the address of a line.

## Disagreements between code and documentation

Each of these is a run that TLC finds violated; `PROJECT.json` quotes the lines.

- `continuation`: `vmmem.h` says the collector finds all reachable blocks. A
  `PUSH` operand that names a state block is reported and not followed, so the
  saved state of a continuation is collected unless it is also on a stack.
- `growth`: growth by less than 16 bytes writes a block over the end: for a
  growth of 8, the link of a free block of no bytes.
- `setstack`: `setStack` asks for room on top of what is on the stack, and
  overflows for contents that fit.
- `push`: `writeBytecode` tests the pointer to its error message instead of the
  message, and never writes the operand of a `PUSH`. The first pass counts it,
  so every label behind a `PUSH` is off by 8. The properties of the passing run
  `images` that depend on it are limited to what precedes the first `PUSH`.

Others are steps of the models without a run of their own:

- `vmmem.c:344` says that without a program area `firstFree == 0` means that
  the block at 0 is free; when it is in use the list starts there all the same
  (`FreeListIsBogus`).
- `firstHeapBlockInVmm` is never NULL, against `vmmem.h:186`; with an empty
  heap the collector, another reservation and the heap dump read a header past the end (`pastEndBlock`,
  `HeapDumpStrays`).
- `assert(p == end)`, `vmmem.c:549`, fails on padding that looks like an
  instruction with an operand (`misalignedWalk`). A stale `PUSH` operand that
  points into a block sets a mark among its contents (`marksContents`).
- `vmmem.h:274-278` says that the collector transforms all blocks that it has not
  found reachable into free blocks; one that a stale operand leads to is kept
  (`Collections`).
- The copy of a symbol's name is not checked (`symtab.c:262`); an addition
  without memory for it succeeds (`NameCopied`).
- `vmmem.h:103` and `vm.h:40` say that the status is 0 after a success; a
  successful allocation, step or load does not reset it (`Completes`,
  `Allocate`).
- `pushStack` reports a failed allocation as an overflow, although `stack.h:183`
  has an error for it (`PushStack`).
- The comment at `vm.c:1216` says the push of `SAVE` succeeds; it may need a
  `realloc` that fails (`saveAssertion`). `vm.c:869` asserts that `SWAP` fails
  only by underflow; it may fail to get a buffer (`swapAssertion`).
- `vm.h:17` says the call stack holds `maxCallStackSize` entries; its size in
  bytes is computed in 32 bits and wraps around (`CallStackBytes`).
- The main loop never clears `enterDebugger` once it is set: after a failure,
  or with the switch to start in the debugger, it prompts after every
  instruction, and `r` runs one (`Check`). The breakpoints of `--breakpoint` are
  parsed and never used.
- A line that cannot be parsed leaves the debugger's status as it was: after
  `s` or `r` it resumes the program (`TypeCommand`). The end of the input is a
  blank line without end (`TypeNothing`).
- Nothing in the program calls `clearDebuggerTransientBreakpoints`: the
  breakpoints of `rr` and `ss` stay, and once their list is full `ss` resumes
  without one (`SingleStepOver`).
- `dbgcmd.c:604` compares a character code with a digit and rejects the
  largest numbers that fit (`NumberError`).
- `splitLines` fails its assertion on a blank line between others, and runs
  past the text when it ends with a newline (`RunsPastEnd`).
- A line in error is reported and left out, and the assembly succeeds
  (`LineInError`). An error of the second pass is reported with the line behind
  it, which may not exist, and is not noticed at all when there is no memory
  for its message: bytes are missing, and the assembly succeeds (`GenerationFails`). A source for whose lines there is
  no memory is taken for an empty one (`SourceIsEmpty`).
- A load that fails among the symbols leaves them in the machine's table, so
  that another try fails on the first of them (`TablesAfter`).

## Proofs

### The memory

`VmLemmas` proves, for every heap value and every size, that each operator
of `HeapOps` makes a sound heap of a sound heap. Soundness (`HeapIsSound`) is
the inductive invariant: the blocks tile the heap, the free list is the set of
free blocks in address order, no two free blocks are adjacent, and every block
has room for a link. No part is inductive alone. Tiling needs the room for a
link, because a sweep turns any block into a free one and a walk must make
progress; the order of the free list needs tiling, because a remainder takes
the place of its block in the list; adjacency needs both. The argument about
the sweep rests on `PredecessorExists` (a block other than the first follows
another), which needs the well-foundedness of the naturals. The same module
proves that the counter of free bytes remains the sum over the free list
(`AllocateBytes`, `GrowBytes`, `SweepBytes`), over the lemmas on sums of
`DataLemmas`, and what the least fixed points `Reachable` and `Marked` are
(`ReachableFacts`, `MarkedFacts`): what is marked is reachable, and where no
code refers to a state, what is reachable is marked (`ReachableIsMarked`).

`VmMemoryProofs` lifts these lemmas to the specification (`MemoryInvariance`)
for every value of its constants, including clients that break the discipline
of `vm.c`, and derives `TypeTheorem`, `TilingTheorem`, `FreeListTheorem`,
`CoalescingTheorem`, `LinkRoomTheorem` and `BytesTheorem`. The assumptions are those on the
constants: sizes are natural numbers, requests are not empty, and the initial
memory holds a block and is within the maximum.

That the memory loses nothing (`NoDanglingTheorem`, `KeepsReachableTheorem`),
that the collector reads no header where no block begins
(`StaysInBlocksTheorem`), and that the memory implements `ObjectStore`
(`StoreTheorem`) holds under one more
assumption, `~CodeRefersToState`: no code block holds the address of a state
block. It cannot be dropped; the run `continuation` refutes the first two without it.
All four speak of behaviours up to the first undefined step (`fault`): once the
collector has set a mark among the contents of a block, the code promises nothing.
The invariant is `ClosedInv`: everything that the roots or any block in use refer
to is in use, and a code block refers to code. It speaks of all blocks in use and
not only of those that can be reached, because a stale operand may make the collector
visit garbage that an earlier collection kept, and that must not refer to
what that collection freed. It does not, because the collector keeps what it visits
together with all that this refers to (`Reclaims`). And it speaks of more than the roots because a
client may load any operand it can reach, so that today's roots say nothing of
tomorrow's. For what can be reached it gives `LiveInv` (`ClosedIsLive`). `StepKinds`
reduces the actions to the four things a call can do: make a block, reclaim,
access, start over.

### The stacks

`VmLemmas` has a lemma for each routine of `stack.c` that says what it makes of a sound
stack (`PushFacts` to `SetFacts`): the words it should have, or the same stack
with a status. `VmStackProofs` concludes for every size, every kind of word and
every sequence of calls that a stack stays within its allocation
(`AllocationTheorem`), that the allocation never shrinks (`NoShrinkTheorem`)
and that it implements `BoundedStack` (`RefinementTheorem`). The invariant
is that the contents are within the allocation and that within the maximum. It
is inductive because `increaseStackSize` chooses the least of a set of sizes
that contains the maximum, so that the result covers the request and is within
the maximum (`IncreasedEndFacts`); how often it doubles does not matter. The
assumptions are those under which `createStack` does not return NULL.

### The machine

`UnlambdaVmProofs` is about `UnlambdaVm` for every program, size of memory
and size of stacks. It has two invariants.

`VmInv` holds whatever the program does and whatever fails (`VmSoundness`). Besides
the soundness of memory and stacks it says that the call stack, every saved
call stack, and the bytes allocated for the call stack come in frames of two
words, and that a saved state fits into the stacks as they are allocated. The
frames in the allocation are the point: `PCALL` pushes twice, and
after a first push that succeeds the second could fail, were there an odd
number of words. Stacks grow by doubling a number of frames, or up to the
maximum, which is a number of frames because `createUnlambdaVM` computes it
modulo 2^32 from a multiple of 16 (the assumption `UInt32 % 16 = 0`). From
`VmInv` follow `TypeTheorem`, `CallFramesTheorem`, `SavedStacksTheorem` and
`PutBackTheorem` without any assumption on the program.

`PlainInv` is about programs that make no continuations (`PlainProgram`: no
`MKC` among the instructions, and literals that are the program's or
outside memory). It holds before a program is loaded because the heap is
empty, and from then on it says that

- every address on a stack or in a block in use is the program's, a
  block's in use, or outside memory (garbage that was kept is in use, and this holds
  of it as well);
- what a code block in use refers to is no state, and its code starts at its
  first byte, stays in the block up to a `RET`, and pushes only what the block
  refers to;
- a return address lies in the program or in the code block that the frame
  below has called, and the pc in the program, in the code of the topmost
  frame's block, or at its start; and likewise in every saved state.

The last is why a collector that visits only the block of a frame loses no code that will be
returned to: the block a return address lies in is visited as
the block of the frame below. The proof goes by what an instruction can come
to (`Outcome`): it is refused and nothing happens (`Refuses`), there is no
memory and only garbage is gone, though not all of it if stale operands led to some
(`GivesUp`), or it proceeds (`Proceeds`); a lemma
per instruction shows that it comes to one of these (`PushOutcome` to
`OtherOutcome`, together `StepOutcome`). `PlainSoundness` concludes that both
invariants hold, and from them `ReturnsTheorem`; `NoDanglingReferenceTheorem`,
for which literals must be the program's (an address outside memory is
dangling by definition); and `FailureTheorem`. `PlainProgram` cannot
be dropped from these either: the state that a continuation refers to is
collected when it is on no stack.

`OutOfMemoryTheorem` needs no assumption on the program. Its invariant
(`OutOfMemoryIsReal` itself, with `VmInv`) is that what the status says stays true: after an
instruction that ran out of memory, the memory is as large as it may be, and it
holds nothing unreachable unless a block in use has padding with room for a `PUSH`;
so until another instruction is executed. That padding cannot be left out: with it,
the last collection may have kept garbage. `FailureTheorem` and
`OutOfMemoryTheorem` assume that `malloc` and `realloc` find memory
(`~AllocationFails`); otherwise the first is false (`RESTORE` pops the
address of a state and loses it when no buffer can be allocated), and the second has no content.

### The symbol table

`SymbolTableProofs` proves the four properties of the symbol table, for every set
of names, every hash function, every list of bucket counts, every size and every sequence of
calls. What the operators of `SymbolOps` do to a sound table is in `DataLemmas`, for the
assembler and the image loader use them too.

The invariant `SoundTable` of the list by address says that it is sorted, has no
address twice, never outgrows its slots, and has at least one slot: the list
grows by doubling, and without the last fact a doubled list could still have no room
(`AddressListTheorem`). That an insertion keeps the order rests on
`NumBelowFacts`: in a sorted list there is a place below which every address is
smaller and above which none is. `SearchTheorem` shows that the loop of
`findSymbolByAddress` finds that place: its range always holds it
(`SearchFacts`), by induction on the length of the range, which is why the
recursion it is modelled by has a solution at all (`SearchExists`).

The invariant `TableInv` adds the hash table (`TwoIndexes`): the number of buckets is one of
the sizes of a table, every link is in the bucket of its name (or, if no copy of it
could be made, of the one it should have), no name is in
a chain twice, and the chains hold the symbols of the list, those without a name
included. An addition keeps it
because the new link goes behind the last link of its chain, which is where a
search for a name that is not there ends (`FindFacts`, `LinkedFacts`), and
because that search is made again after a rehash: with the link found
before, a symbol would follow a link of another bucket. A rehash
keeps it because it takes every link once (`LinksInOrderFacts`: no link is in two
buckets, for its name has one hash code) and puts it in front of a chain that
has no link of that name (`FilledFacts`). `IndexesTheorem` follows, and
`DirectoryTheorem`: each action is a step of `SymbolDirectory`, where `symbols` is
the set of the symbols in the list. An addition whose `strdup` fails is an addition of
the same address without a name there as well. A refusal has the same reason on both sides
(`RefusalFacts`: names by the chains, addresses by the list, and the limit
because a list without duplicates is as long as its set is large), and the five
searches by address end at the highest symbol below, or the lowest above
(`LookUpFacts`).

The assumptions are those on the constants: hash codes and addresses are natural numbers, there is
a bucket count, none is zero, the list is created with at least one slot,
and `NULL` is no symbol.

### The debugger and the main loop

`MainLoopProofs` first is about the operators of `BreakpointOps`, for lists of any
length. `BreakpointListsStaySound`: creation makes a sound list, and adding (with
and without memory), removing, checking and clearing keep it sound. Soundness is
three things that need each other: the breakpoints ascend; their bytes are within
the allocation and that within the maximum; and the index separates those at most
`lastPC` from those at least `lastPC` (`CandidateSound`). The index is sound
only in an ascending list, and an element is put at the right place only because
the search for it sees an ascending list. `NoBreakpointMissed` concludes that a check
that starts at the index answers what a search of the whole list would. It
excludes `lastPC`: there the answer depends on whether the list has changed since
the last check, as each change moves the index behind that address. Asked twice
without a change, `isAtBreakpoint` answers the same twice; after one, it no longer
finds the breakpoint there.

Then it is about `MainLoop`, for every program, base of the memory, symbol table, set of
command lines, sizes of stacks and lists, and number of commands. The inductive
invariant `IInv` (`AlwaysOk`) says that

- the machine is sound (`VmOk`): its pc and all words on its stacks are words,
  its memory holds bytes, and its call stack consists of frames of two words, in
  its contents, its allocation and its maximum;
- the debugger is (`DbgOk`): both lists are sound and hold words;
- the process runs, or has stopped at a null pointer with the pc where the code
  read it, or in a heap dump with the memory as the dump found it.

From it follow `TypeTheorem`, `BreakpointNeverMissedTheorem`,
`BreakpointListsSoundTheorem`, `CallStackInFramesTheorem` and `CrashTheorem`. The
properties need each other: a `ppcs` that fails puts a word back in an assertion, and
the assertion holds only because whole frames are allocated, so that `crash` is never
`"assertion"`; and the frames stay whole only because `pcs` and `PCALL` push both
words or none, which is a fact about the allocation (`FramePushFacts`, shared
with `UnlambdaVmProofs`). That every argument of a command that reaches the
machine is a word is a fact about the parser (`ParsedCommandIsOk`): a number below the
largest multiple of ten, an address of a symbol that is found in a chain of
the table and wraps around with its displacement, or the pc. That a pointer to
the memory belongs to one address only (`PointerFacts`) uses that the memory ends
below the top of the address space. These are the assumptions on the constants:
the memory holds bytes and ends within the address space, and its heap starts
within it or at its end; the stacks are such as
`createStack` accepts, and are created with whole frames; the lines are those that the scanner can make; the
chains of the symbol table are sound and hold symbols with addresses that are words.

### The assembler

`AssemblerProofs` is about `Assembler` for every set of sources, names and older
files, every size of memory and arrays, and every number of loads. Parsing,
splitting, writing and loading are functions of the state; what each makes of its
arguments is a lemma about values, and the inductive invariant (`InvHolds`) is about
the order in which the program calls them. It has five parts:

- `TypeInv`: the arrays keep within their memory, every line parsed is of the type
  `AssemblyLine` (an operand of `SAVE` is a byte, one of `PUSH` a number or
  a symbol), every byte generated is a byte, and the two indexes of the symbol table
  match. The last is what makes an operand that names a label resolve to an
  address.
- `FileInv`: how much of the image is in the file in each phase. A file that
  begins with a header has one whose start lies within its program, whoever
  wrote it; while the program is written the header is this assembly's, and
  while the symbols are, all of the program and the first `next` symbols.
- `LoaderInv`: a machine that is ready has taken its program and its start from
  the file as it is, and while the image is that of an assembly that succeeded,
  its table holds copies of a beginning of the assembler's symbols, and of all of
  them when the load that made it ready wanted symbols. A copy may lack the name.
- `AddressInv`: a line is at the address where the line before it ends, and
  the generator has written as many bytes as the lines behind it take, until it
  meets a `PUSH` or loses the message of an error; from there on at most as many.
- `SplitInv`: the lines are those of the text, and as many as were counted, or the
  assertion has failed and the text has a blank line or ends with a newline. Lines
  found behind the text count as blank ones.

`TypeTheorem` follows from the first and `CodeAtItsAddressTheorem` from the fourth.
`SplitLosesNoLineTheorem` is about a loop that looks at every character
but the one behind a newline. That as many lines are found as were counted means that it has missed no newline but
possibly the last (`AllSeen`, by counting); so a line, which lies between two that
it saw, holds one item at most (`LineKept`), and what the lines hold is
what the text holds, by induction on the number of lines (`NoLineLost`). It uses
that tokens with no newline between them are one item of the text
(`SourcesAssumption`).
`LoadAllOrNothingTheorem` needs `FileInv`, because a load
does not look where the start is: it is within the program only because
`saveVmProgramImage` refuses to write any other header, and the first write, which is of the
header alone, replaces the older one as a whole. That the older file was
written by the same function is the one assumption about it
(`AssemblerAssumption`); its programs and symbols are arbitrary, and so are
files that are no image. `ImageRoundTripTheorem` needs `FileInv` and
`LoaderInv`. The symbols are saved in the order of their addresses, so that
a table that holds the first of them puts the next one behind the last, or has it
already and the load fails (`SymbolRead`), which keeps it a beginning of the list; a load that succeeds has read as many as there are.
This holds for every list of bucket counts, as the table is rehashed on the way, and memory
may run out at any symbol.

### What they rest on, and what is not proved

`DataLemmas` holds what these need of the naturals: least and greatest elements,
from their well-foundedness, sums over finite sets, division, and that a definition by
recursion on a measure has a solution (`RecursionExists`). The last one opens the
searches, folds and concatenations of the model to proof, each as a function of
its own; induction over what they do is by the least counterexample. It also says what the
routines of `array.c` and `symtab.c` make of a sound array and a sound table.

Every invariant and every action property of the passing runs is proved, some under
the assumptions named above, and so are the three refinements. Only model-checked
are the liveness properties (`FailuresHandledAsAsked`, `BatchRunEnds`,
`AssemblyEnds`): they rest on fairness, which is out of the provers' reach.

## Plan

1. Done: the memory with its abstract specification and proofs, the stacks with
   theirs, the machine that composes both with proofs of its invariants; the
   symbol table with its abstract specification; debugger and main loop;
   assembler and images. Proofs of all properties of the symbol table, its
   refinement included, and of all invariants of the main loop and of the
   assembler.
2. The collector as a loop: depth-first marking and the sweep cursor, shown to
   implement `Marked` and `Sweep`.

## Not modelled

Logging, message texts and formatted output; the values of characters that `PRINT` writes; `unlcc.c`, which holds no code;
addresses at or above 2^56, which the 56-bit size field of a block header
could not represent and which no memory reaches; stack sizes whose sum wraps around 2^64. Memory doubles
at most `MaxDoublings` times in one reservation, a stack at most
`StackDoublings` times in one call, an array `ArrayDoublings` times. In `UnlambdaVm` the modulus of the 32-bit
stack sizes is the constant `UInt32`. `RESTORE` of a program address is
refused: the model does not read the program's bytes as a block header.

Of the debugger: what commands print, lines as characters (a word is scanned as
a whole), memory that runs out while a line is parsed, and the instructions
that touch the heap, which `UnlambdaVm` has; words have the bits of `MaxWord`,
at most 8, so that a word takes one byte of a `PUSH` and the other seven
are zero. At most `MaxCommands` lines are typed. Of the assembler: characters
within a token, symbol assignments (never called), and message texts; what `splitLines`
finds behind a text that it runs past, when it then counts as many lines as it expects, is taken for
blanks (`LinesBehind`); a
header or a symbol is written and read as a whole, a program byte by byte; names are
shorter than the 248 bytes that the length byte of a symbol has room for. A load
is tried at most `MaxLoads` times. `argparse.c`
and `logging.c` are not modelled, nor the start-up of `unl.c`, except for the
machines and settings it leads to.
