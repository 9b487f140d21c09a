----------------------------- MODULE AsmSyntax -----------------------------
(***************************************************************************)
(* A line of assembly language, and what parseAssemblyLine makes of it     *)
(* (src/src/asm.c).                                                        *)
(*                                                                         *)
(* A line is the sequence of its tokens, each a record with a kind:        *)
(*   "word"       a name, with its text in upper case                      *)
(*   "digits"     a number, with its value                                 *)
(*   "char"       a well-formed character literal, with its code           *)
(*   "directive"  a dot and the name behind it                             *)
(*   "mark"       anything else, with its text, comments included          *)
(* An AssemblyLine is a record of its type, its address, the number of the *)
(* line, and what its type calls for.  What a parse error says and where it*)
(* points are left out.                                                    *)
(***************************************************************************)
EXTENDS SymbolOps

CONSTANT MaxValue    \* the largest 64-bit number

ASSUME AsmSyntaxAssumption == MaxValue \in Nat /\ MaxValue >= 255

TokenWord(text)      == [kind |-> "word", text |-> text]
TokenDigits(n)       == [kind |-> "digits", value |-> n]
TokenChar(code)      == [kind |-> "char", value |-> code]
TokenDirective(text) == [kind |-> "directive", text |-> text]
TokenMark(text)      == [kind |-> "mark", text |-> text]
Comment              == TokenMark("#")

(* The tokens of a source.  Any word may turn out to name a symbol. *)
Token ==
  [kind : {"word"}, text : Name]
  \cup [kind : {"directive", "mark"}, text : STRING]
  \cup [kind : {"digits"}, value : Nat]
  \cup [kind : {"char"}, value : 0 .. 255]

(* findOpcode, over the names of the instructions, and instructionSize. *)
Opcodes ==
  [PANIC |-> 0, PUSH |-> 1, POP |-> 2, SWAP |-> 3, DUP |-> 4, PCALL |-> 5,
   RET |-> 6, MKK |-> 7, MKS0 |-> 8, MKS1 |-> 9, MKS2 |-> 10, MKD |-> 11,
   MKC |-> 12, SAVE |-> 13, RESTORE |-> 14, PRINT |-> 15, HALT |-> 16]

TakesByte == {"SAVE", "RESTORE", "PRINT"}

InstructionSize(name) ==
  IF name = "PUSH" THEN 9 ELSE IF name \in TakesByte THEN 2 ELSE 1

-----------------------------------------------------------------------------
(* Operands *)

EmptyValue == [type |-> "none"]
UInt64Value(n) == [type |-> "uint64", value |-> n]
SymbolAndOffset(name, offset) ==
  [type |-> "symbol", name |-> name, offset |-> offset]

(* An operand and the place behind it, or no operand at all. *)
Parsed(value, next) == [value |-> value, next |-> next]
Malformed == Parsed([type |-> "malformed"], 0)

KindAt(line, i) == IF i <= Len(line) THEN line[i].kind ELSE "end"

(* The rest of a line is a comment, or nothing (checkForComment). *)
EndsAt(line, i) == i > Len(line) \/ line[i] = Comment

HasUInt64(line, i) == KindAt(line, i) = "digits" /\ line[i].value <= MaxValue

UInt64Operand(line, i, max) ==
  IF HasUInt64(line, i) /\ line[i].value <= max
  THEN Parsed(UInt64Value(line[i].value), i + 1)
  ELSE Malformed

CharacterOperand(line, i) ==
  IF KindAt(line, i) = "char" THEN Parsed(UInt64Value(line[i].value), i + 1)
  ELSE Malformed

(* parseAddress: a number, or a symbol with an offset that may be missing. *)
SymbolOperand(line, i) ==
  LET name == line[i].text
      offset == line[i + 2].value
  IN  IF EndsAt(line, i + 1) THEN Parsed(SymbolAndOffset(name, 0), i + 1)
      ELSE IF ~HasUInt64(line, i + 2) THEN Malformed
      ELSE IF line[i + 1] = TokenMark("+")
      THEN Parsed(SymbolAndOffset(name, offset), i + 3)
      ELSE IF line[i + 1] = TokenMark("-")
      THEN Parsed(SymbolAndOffset(name, -offset), i + 3)
      ELSE Malformed

AddressOperand(line, i) ==
  CASE KindAt(line, i) = "digits" -> UInt64Operand(line, i, MaxValue)
    [] KindAt(line, i) = "word"   -> SymbolOperand(line, i)
    [] OTHER                      -> Malformed

(* resolveAsmValueToAddress, which wraps around. *)
Resolves(value, t) ==
  \/ value.type = "uint64"
  \/ value.type = "symbol" /\ FindSymbol(t, value.name) # NoSymbol

Resolved(value, t) ==
  IF value.type = "uint64" THEN value.value
  ELSE (FindSymbol(t, value.name).address + value.offset) % (MaxValue + 1)

-----------------------------------------------------------------------------
(* Lines *)

EmptyLine(address, number) ==
  [type |-> "empty", address |-> address, line |-> number]

InstructionLine(opcode, operand, address, number) ==
  [type |-> "instruction", opcode |-> opcode, operand |-> operand,
   address |-> address, line |-> number]

DirectiveLine(operand, address, number) ==
  [type |-> "directive", operand |-> operand, address |-> address,
   line |-> number]

LabelLine(labelName, address, number) ==
  [type |-> "label", labelName |-> labelName, address |-> address,
   line |-> number]

AsmError == [type |-> "parseError"]

(* A line ends behind its operand. *)
IsComplete(line, operand) ==
  operand # Malformed /\ EndsAt(line, operand.next)

OperandOf(line, name) ==
  IF name = "PUSH" THEN AddressOperand(line, 2)
  ELSE IF name \in {"SAVE", "RESTORE"} THEN UInt64Operand(line, 2, 255)
  ELSE IF name = "PRINT" THEN CharacterOperand(line, 2)
  ELSE Parsed(EmptyValue, 2)

ParseInstruction(line, address, number) ==
  LET name == line[1].text
      operand == OperandOf(line, name)
  IN  IF IsComplete(line, operand)
      THEN InstructionLine(name, operand.value, address, number)
      ELSE AsmError

ParseDirective(line, address, number) ==
  LET operand == AddressOperand(line, 2)
  IN  IF line[1].text = "START" /\ IsComplete(line, operand)
      THEN DirectiveLine(operand.value, address, number)
      ELSE AsmError

ParseLabel(line, address, number) ==
  IF EndsAt(line, 3) THEN LabelLine(line[1].text, address, number)
  ELSE AsmError

(* parseAssemblyLine; the name of an instruction cannot be a label. *)
ParseAssemblyLine(line, address, number) ==
  CASE EndsAt(line, 1) -> EmptyLine(address, number)
    [] KindAt(line, 1) = "directive" -> ParseDirective(line, address, number)
    [] KindAt(line, 1) = "word" /\ line[1].text \in DOMAIN Opcodes ->
         ParseInstruction(line, address, number)
    [] KindAt(line, 1) = "word" /\ line[1].text \notin DOMAIN Opcodes
       /\ Len(line) > 1 /\ line[2] = TokenMark(":") ->
         ParseLabel(line, address, number)
    [] OTHER -> AsmError

(* What a parsed line may be. *)
ByteValue == [type : {"uint64"}, value : 0 .. 255]
AddressValue ==
  [type : {"uint64"}, value : 0 .. MaxValue]
  \cup [type : {"symbol"}, name : Name, offset : -MaxValue .. MaxValue]

Operation(opcodes, operands) ==
  [type : {"instruction"}, opcode : opcodes, operand : operands,
   address : Nat, line : Nat]

AssemblyLine ==
  [type : {"empty"}, address : Nat, line : Nat]
  \cup Operation({"PUSH"}, AddressValue)
  \cup Operation(TakesByte, ByteValue)
  \cup Operation(DOMAIN Opcodes \ ({"PUSH"} \cup TakesByte), {EmptyValue})
  \cup [type : {"directive"}, operand : AddressValue, address : Nat,
         line : Nat]
  \cup [type : {"label"}, labelName : Name, address : Nat, line : Nat]
=============================================================================
