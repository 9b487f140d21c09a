----------------------------- MODULE Assembler -----------------------------
(***************************************************************************)
(* The assembler (src/src/unlasm.c): it splits its source into lines,      *)
(* parses them one by one, generates the bytecode, and writes the program  *)
(* image with one write after the other.  It may be killed at any point;   *)
(* memory and writes may fail.  Once it has ended, the virtual machine     *)
(* loads what the file holds then.                                         *)
(***************************************************************************)
EXTENDS AsmSyntax, ArrayOps, ImageOps

CONSTANTS
  Newline,       \* what separates the lines of a text
  Sources,       \* the texts of the sources
  OldImages,     \* what the executable may have been before
  MaxLines,      \* the bytes of the array of lines (0xFFFFFFFF)
  MaxProgram,    \* the bytes of the program (0xFFFFFFFF)
  MaxSymbols,    \* the symbols of the assembler and of the machine
  MemorySizes,   \* the sizes to which the memory of the machine may grow
  MaxLoads       \* how often a load is tried: a bound of the model

(* A text is a sequence of newlines and of the tokens between them.  If the
   executable was an image, saveVmProgramImage wrote it, which refuses one
   whose start lies outside of its program. *)
ASSUME AssemblerAssumption ==
  /\ MaxLines \in Nat /\ MaxProgram \in Nat /\ MaxSymbols \in Nat
  /\ MaxLoads \in Nat /\ MemorySizes \subseteq Nat
  /\ Newline \notin Seq(Token)
  /\ Sources \subseteq Seq(Seq(Token) \cup {Newline})
  /\ \A image \in OldImages :
       /\ image \in Seq(Cell)
       /\ image # <<>> /\ image[1].kind = "header" =>
            image[1].start < image[1].size

(* All the tokens between two newlines are one item of the text. *)
ASSUME SourcesAssumption ==
  \A source \in Sources : \A i \in 2 .. Len(source) :
    Newline \in {source[i - 1], source[i]}

VARIABLES
  text,          \* the source: newlines, and the tokens between them
  phase,         \* what the assembler is about to do, or how it ended
  lines,         \* what splitLines made of the text
  next,          \* the lines or symbols dealt with in this phase
  address,
  asmLines,
  symtab,
  numErrors,
  bytecode,
  startAddress,
  messageLost,   \* whether an error went unnoticed: history, no code has it
  status,        \* what assembleVmCode returns
  file,          \* the executable
  vm             \* the machine that loads it

parser == <<lines, address, asmLines, symtab, numErrors>>
generator == <<bytecode, startAddress, messageLost>>
vars == <<text, phase, next, parser, generator, status, file, vm>>

(* How the assembler ends: with its status, or killed, or by an assertion or
   a pointer that leads nowhere. *)
Ends == {"done", "killed", "assertion", "badPointer"}

Init ==
  /\ text \in Sources
  /\ phase = "read" /\ next = 0 /\ status = 0
  /\ lines = <<>> /\ address = 0 /\ numErrors = 0
  /\ asmLines = CreatedArray(8, MaxLines)
  /\ symtab = CreatedTable(MaxSymbols)
  /\ bytecode = CreatedArray(1, MaxProgram) /\ startAddress = 0
  /\ messageLost = FALSE
  /\ file \in OldImages
  /\ vm = [state |-> "noProgram", pc |-> 0, program |-> <<>>,
           symtab |-> CreatedTable(MaxSymbols), wanted |-> FALSE,
           loads |-> 0, result |-> "none"]

EndsWith(end, s) == phase' = end /\ status' = s

Crashes == phase' = "badPointer" /\ UNCHANGED <<next, status>>

-----------------------------------------------------------------------------
(***************************************************************************)
(* readSourceFile and splitLines.  The loop of splitLines steps over a     *)
(* newline twice, so that the character behind it is never looked at: not  *)
(* when it is a newline itself, and not when it is the end of the text.    *)
(***************************************************************************)
ReadFails ==
  /\ phase = "read"
  /\ EndsWith("done", -1)
  /\ UNCHANGED <<text, next, parser, generator, file, vm>>

(* An array of lines that cannot be allocated is taken for an empty source. *)
SourceIsEmpty ==
  /\ phase = "read"
  /\ EndsWith("done", 0)
  /\ UNCHANGED <<text, next, parser, generator, file, vm>>

(* Mutant: the last line needs a newline to count. *)
NumLinesMut == Cardinality({i \in DOMAIN text : text[i] = Newline})

NumLines ==
  Cardinality({i \in DOMAIN text : text[i] = Newline})
  + IF Last(text) = Newline THEN 0 ELSE 1

(* Where the newlines are that the loop sees. *)
IsTerminator ==
  LET seen[i \in 0 .. Len(text)] ==
        i > 0 /\ text[i] = Newline /\ ~seen[i - 1]
  IN  seen

Terminators == {i \in DOMAIN text : IsTerminator[i]}

(* The loop runs past the end of the text. *)
RunsPastEnd == Len(text) \in Terminators

(* Where the lines end: at those newlines, and behind the text. *)
LineEnds ==
  Terminators \cup (IF RunsPastEnd THEN {} ELSE {Len(text) + 1})

LineEnd(n) ==
  IF n = 0 THEN 0
  ELSE CHOOSE e \in LineEnds : Cardinality({i \in LineEnds : i <= e}) = n

SplitLines ==
  [n \in 1 .. Cardinality(LineEnds) |->
     SubSeq(text, LineEnd(n - 1) + 1, LineEnd(n) - 1)]

(* What lies behind the text decides how a loop that has run past it ends: it
   may take as many lines from there as are missing.  The first of them is the
   end of the text, a blank; the others are taken for blanks, too. *)
LinesBehind == [n \in 1 .. NumLines - Len(SplitLines) |-> <<>>]

Split ==
  /\ phase = "read" /\ text # <<>>
  /\ \/ /\ Len(SplitLines) = NumLines \/ RunsPastEnd
        /\ phase' = "parse" /\ lines' = SplitLines \o LinesBehind
     \/ /\ Len(SplitLines) # NumLines \/ RunsPastEnd
        /\ phase' = "assertion" /\ lines' = SplitLines
  /\ UNCHANGED <<text, next, address, asmLines, symtab, numErrors, generator,
                 status, file, vm>>

(* The tokens of a line; a newline that was stepped over is a blank. *)
TokensOf(line) ==
  FlattenSeq([i \in DOMAIN line |-> IF line[i] = Newline THEN <<>>
                                    ELSE line[i]])

-----------------------------------------------------------------------------
(* parseAsmFile, one line a step.  A line in error is counted and left out,
   and the assembly goes on. *)

AssemblyLineAt(i) == ParseAssemblyLine(TokensOf(lines[i]), address, i)

LineInError ==
  /\ phase = "parse" /\ next < Len(lines)
  /\ AssemblyLineAt(next + 1) = AsmError
  /\ numErrors' = numErrors + 1
  /\ next' = next + 1
  /\ UNCHANGED <<text, phase, lines, address, asmLines, symtab, generator,
                 status, file, vm>>

(* A label that the symbol table refuses is an error, and its line is kept. *)
AddsLabel(asml) ==
  \E mem \in {{}, Allocations \ {"name"}, Allocations} :
    symtab' = AddSymbol(symtab, asml.labelName, address, mem)

(* Mutant: the byte behind an opcode does not count. *)
SizeOfMut(asml) == IF asml.type = "instruction" THEN 1 ELSE 0

SizeOf(asml) ==
  IF asml.type = "instruction" THEN InstructionSize(asml.opcode) ELSE 0

LineParsed ==
  /\ phase = "parse" /\ next < Len(lines)
  /\ LET asml == AssemblyLineAt(next + 1)
     IN  /\ asml # AsmError
         /\ address' = address + SizeOf(asml)
         /\ \E mem \in BOOLEAN :
              asmLines' = AppendToArray(asmLines, <<asml>>, mem)
         /\ IF asml.type = "label" THEN AddsLabel(asml)
            ELSE UNCHANGED symtab
         /\ numErrors' = numErrors
              + (IF asml.type = "label" /\ symtab'.status # "ok" THEN 1 ELSE 0)
              + (IF ArrayOk(asmLines') THEN 0 ELSE 1)
  /\ IF symtab'.status = "nullName" THEN Crashes
     ELSE IF ArrayOk(asmLines')
     THEN next' = next + 1 /\ UNCHANGED <<phase, status>>
     ELSE EndsWith("done", -1) /\ UNCHANGED next
  /\ UNCHANGED <<text, lines, generator, file, vm>>

(* A line, the error in it, or an array or table to put it in, is used all the
   same when there was no memory for it. *)
LineNotAllocated ==
  /\ phase = "parse" /\ next < Len(lines)
  /\ Crashes
  /\ UNCHANGED <<text, parser, generator, file, vm>>

AllParsed ==
  /\ phase = "parse" /\ next = Len(lines)
  /\ phase' = "generate" /\ next' = 0
  /\ UNCHANGED <<text, parser, generator, status, file, vm>>

-----------------------------------------------------------------------------
(***************************************************************************)
(* generateBytecode.  An error is reported with the line behind the one it *)
(* is in, for which there may be no pointer.  It is known by its message:  *)
(* when there is no memory for that, the loop goes on to the next line.    *)
(***************************************************************************)
Passes == next' = next + 1 /\ UNCHANGED <<phase, status>>

GenerationFails(asml) ==
  \/ EndsWith("done", -1) /\ UNCHANGED <<next, messageLost>>
  \/ asml.line = Len(lines) /\ Crashes /\ UNCHANGED messageLost
  \/ Passes /\ messageLost' = TRUE

Generated == Passes /\ UNCHANGED messageLost

(* The search for the symbol of an operand reads a name that is not there. *)
MeetsNull(value) ==
  value.type = "symbol" /\ SearchMeetsNull(symtab, value.name)

(* writeBytecode returns before it writes the operand of PUSH, since it tests
   whether there is room for a message instead of whether there is one. *)
OperandBytes(asml) ==
  IF asml.opcode \in TakesByte THEN <<asml.operand.value>> ELSE <<>>

HasRoomFor(asml) == MaxProgram - ArraySize(bytecode) >= SizeOf(asml)

WriteBytecode(asml) ==
  \E mem1, mem2 \in BOOLEAN :
    LET opcode  == AppendToArray(bytecode, <<Opcodes[asml.opcode]>>, mem1)
        operand == AppendToArray(opcode, OperandBytes(asml), mem2)
    IN  IF ~HasRoomFor(asml) THEN GenerationFails(asml) /\ UNCHANGED bytecode
        ELSE IF ~ArrayOk(opcode)
        THEN GenerationFails(asml) /\ bytecode' = opcode
        ELSE /\ bytecode' = operand
             /\ IF MeetsNull(asml.operand) THEN Crashes /\ UNCHANGED messageLost
                ELSE IF /\ ArrayOk(operand)
                        /\ asml.opcode = "PUSH" => Resolves(asml.operand, symtab)
                THEN Generated ELSE GenerationFails(asml)

LineAt(i) == asmLines.items[i]

GenerateInstruction ==
  /\ phase = "generate" /\ next < Len(asmLines.items)
  /\ LineAt(next + 1).type = "instruction"
  /\ WriteBytecode(LineAt(next + 1))
  /\ UNCHANGED <<text, parser, startAddress, file, vm>>

(* .start; the address is 0 when its symbol is unknown. *)
HandleDirective ==
  /\ phase = "generate" /\ next < Len(asmLines.items)
  /\ LET asml == LineAt(next + 1)
     IN  /\ asml.type = "directive"
         /\ IF MeetsNull(asml.operand)
            THEN Crashes /\ UNCHANGED <<startAddress, messageLost>>
            ELSE IF Resolves(asml.operand, symtab)
            THEN /\ startAddress' = Resolved(asml.operand, symtab)
                 /\ Generated
            ELSE startAddress' = 0 /\ GenerationFails(asml)
  /\ UNCHANGED <<text, parser, bytecode, file, vm>>

(* Mutant: the loop does not get past a label. *)
SkipLineMut ==
  /\ phase = "generate" /\ next < Len(asmLines.items)
  /\ LineAt(next + 1).type = "empty"
  /\ Passes
  /\ UNCHANGED <<text, parser, generator, file, vm>>

SkipLine ==
  /\ phase = "generate" /\ next < Len(asmLines.items)
  /\ LineAt(next + 1).type \in {"empty", "label"}
  /\ Passes
  /\ UNCHANGED <<text, parser, generator, file, vm>>

-----------------------------------------------------------------------------
(* saveVmProgramImage, one write a step; the file is as it was until its
   header is written. *)

OpenImage ==
  /\ phase = "generate" /\ next = Len(asmLines.items)
  /\ \/ EndsWith("done", -1) \* it lies outside, or the file cannot be opened
     \/ /\ startAddress < ArraySize(bytecode)
        /\ phase' = "header" /\ UNCHANGED status
  /\ next' = 0
  /\ UNCHANGED <<text, parser, generator, file, vm>>

Writes(position, cells) == file' = Written(file, position, cells)

WriteHeader ==
  /\ phase = "header"
  /\ Writes(0, <<HeaderCell(ArraySize(bytecode), Len(symtab.list),
                            startAddress)>>)
  /\ phase' = "program"
  /\ UNCHANGED <<text, next, parser, generator, status, vm>>

ProgramImage == ProgramCells(bytecode.items)

WriteProgram ==
  /\ phase = "program"
  /\ \E n \in 0 .. Len(ProgramImage) :
       /\ Writes(1, SubSeq(ProgramImage, 1, n))
       /\ IF n = Len(ProgramImage) THEN phase' = "symbols" /\ UNCHANGED status
          ELSE EndsWith("done", -1)
  /\ UNCHANGED <<text, next, parser, generator, vm>>

(* The length of a name is taken before the symbol is written. *)
WriteSymbol ==
  /\ phase = "symbols" /\ next < Len(symtab.list)
  /\ symtab.list[next + 1].name # NoName
  /\ Writes(1 + Len(ProgramImage) + next,
            <<SymbolCell(symtab.list[next + 1])>>)
  /\ next' = next + 1
  /\ UNCHANGED <<text, phase, parser, generator, status, vm>>

SymbolHasNoName ==
  /\ phase = "symbols" /\ next < Len(symtab.list)
  /\ symtab.list[next + 1].name = NoName
  /\ Crashes
  /\ UNCHANGED <<text, parser, generator, file, vm>>

WriteFails ==
  /\ \/ phase = "header"
     \/ /\ phase = "symbols" /\ next < Len(symtab.list)
        /\ symtab.list[next + 1].name # NoName
  /\ EndsWith("done", -1)
  /\ UNCHANGED <<text, next, parser, generator, file, vm>>

ImageComplete ==
  /\ phase = "symbols" /\ next = Len(symtab.list)
  /\ EndsWith("done", 0)
  /\ UNCHANGED <<text, next, parser, generator, file, vm>>

Kill ==
  /\ phase \notin Ends
  /\ phase' = "killed"
  /\ UNCHANGED <<text, next, parser, generator, status, file, vm>>

-----------------------------------------------------------------------------
(* loadProgramIntoVm, by a machine that has no program yet; a load that
   failed may be tried again, unless what it did is undefined. *)
Load ==
  /\ phase \in Ends
  /\ vm.state = "noProgram" /\ vm.loads < MaxLoads
  /\ \E memory \in MemorySizes, wantSymbols \in BOOLEAN :
       \E l \in ImageLoads(file, memory, vm.symtab, wantSymbols) :
         vm' = [state |-> IF l.result = "ok" THEN "ready"
                          ELSE IF l.result = "undefined" THEN "undefined"
                          ELSE "noProgram",
                pc |-> IF l.result = "ok" /\ l.start < memory
                       THEN l.start ELSE vm.pc,
                program |-> l.program, symtab |-> l.symtab,
                wanted |-> wantSymbols, loads |-> vm.loads + 1,
                result |-> IF l.result = "ok" /\ l.start >= memory
                           THEN "formatError" ELSE l.result]
  /\ UNCHANGED <<text, phase, next, parser, generator, status, file>>

Assemble ==
  \/ ReadFails \/ SourceIsEmpty \/ Split
  \/ LineInError \/ LineParsed \/ LineNotAllocated \/ AllParsed
  \/ GenerateInstruction \/ HandleDirective \/ SkipLine
  \/ OpenImage \/ WriteHeader \/ WriteProgram \/ WriteSymbol
  \/ SymbolHasNoName \/ WriteFails \/ ImageComplete

Next == Assemble \/ Kill \/ Load

(* The assembler is a sequential program that waits for nothing. *)
Spec == Init /\ [][Next]_vars /\ WF_vars(Assemble)

-----------------------------------------------------------------------------
(* Properties *)

(* The types, and that what the two arrays hold is within the memory that
   was allocated for it. *)
TypeOK ==
  /\ phase \in {"read", "parse", "generate", "header", "program", "symbols"}
               \cup Ends
  /\ next \in Nat /\ status \in {0, -1} /\ numErrors \in Nat
  /\ address \in Nat /\ startAddress \in 0 .. MaxValue
  /\ asmLines.items \in Seq(AssemblyLine)
  /\ bytecode.items \in Seq(0 .. 255)
  /\ asmLines.status \in ArrayStatuses /\ ArraySound(asmLines)
  /\ bytecode.status \in ArrayStatuses /\ ArraySound(bytecode)
  /\ symtab.status \in TableStatuses
  /\ messageLost \in BOOLEAN
  /\ vm.state \in {"noProgram", "ready", "undefined"} /\ vm.loads \in 0 .. MaxLoads
  /\ vm.result \in ImageResults \cup {"none"}

HasBlankLine ==
  \E i \in 1 .. Len(text) - 1 : text[i] = Newline /\ text[i + 1] = Newline

(* The items of a text, or the lines, that hold a token. *)
NotBlank(items) ==
  FlattenSeq([i \in DOMAIN items |->
                IF items[i] \in {<<>>, Newline} THEN <<>> ELSE <<items[i]>>])

(* splitLines, with its double step over a newline, gives up (or runs past
   its buffer) only on a text with a blank line or a newline at its end, and
   otherwise loses no line and puts them in order. *)
SplitLosesNoLine ==
  /\ phase = "assertion" => HasBlankLine \/ Last(text) = Newline
  /\ phase \notin {"read", "assertion"} /\ lines # <<>> =>
       NotBlank([i \in DOMAIN lines |-> TokensOf(lines[i])]) = NotBlank(text)

PushFree(n) ==
  \A i \in 1 .. n :
    LineAt(i).type = "instruction" => LineAt(i).opcode # "PUSH"

(* Two passes compute the same addresses: the generator reaches a line, and
   with it the label there, at the address that the parser gave it, as long
   as it met no PUSH and lost no message; and never beyond that address. *)
CodeAtItsAddress ==
  phase = "generate" /\ next < Len(asmLines.items) =>
    LET expected == LineAt(next + 1).address
    IN  /\ ArraySize(bytecode) <= expected
        /\ PushFree(next) /\ ~messageLost => ArraySize(bytecode) = expected

(* unlasm.c: "Advance address counter by number of bytes in this
   instruction": the same, whatever the instructions are. *)
AddressesCountBytes ==
  phase = "generate" /\ next < Len(asmLines.items) /\ ~messageLost =>
    LineAt(next + 1).address = ArraySize(bytecode)

IsSaved == phase = "done" /\ status = 0 /\ bytecode.items # <<>>

(* A symbol that went through a file: there may be no memory for its name. *)
IsCopyOf(symbol, original) ==
  /\ symbol.address = original.address
  /\ symbol.name \in {original.name, NoName}

(* The image of an assembly that succeeded, over whatever the file was
   before, is loaded with the program, the start and all the symbols that went
   into it; if the load wants none, the machine may have the first of them,
   those that an earlier load got before it failed. *)
ImageRoundTrip ==
  IsSaved /\ vm.state = "ready" =>
    /\ vm.program = ProgramImage /\ vm.pc = startAddress
    /\ Len(vm.symtab.list) <= Len(symtab.list)
    /\ vm.wanted => Len(vm.symtab.list) = Len(symtab.list)
    /\ \A i \in DOMAIN vm.symtab.list :
         IsCopyOf(vm.symtab.list[i], symtab.list[i])

(* Whatever an assembly that failed or was killed has left in the file, and
   however many loads of it have failed, a machine is ready only with as
   many bytes as the header announces, and with its PC among them. *)
LoadAllOrNothing ==
  vm.state = "ready" =>
    /\ Len(vm.program) = file[1].size
    /\ vm.pc < Len(vm.program)

(* Every assembly comes to an end. *)
AssemblyEnds == <>(phase \in Ends)
=============================================================================
