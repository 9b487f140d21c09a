--------------------------- MODULE DebugCommands ---------------------------
(***************************************************************************)
(* What the debugger makes of a command line (src/src/dbgcmd.c).           *)
(*                                                                         *)
(* A line is a sequence: the word of a command and the arguments behind it,*)
(* each a record whose kind says how the scanner sees it:                  *)
(*   "number"  digits, with their value                                    *)
(*   "symbol"  a name, with the displacement behind it (0 if there is none)*)
(*   "other"   anything else                                               *)
(* A command is a record of the word and its arguments, all numbers but for*)
(* the name of sym.                                                        *)
(***************************************************************************)
EXTENDS SymbolOps

CONSTANTS
  MaxWord,     \* the largest 64-bit number
  MaxUInt32,   \* the largest 32-bit number
  MaxBytes     \* the most bytes one w command writes (65536)

ASSUME DebugCommandsAssumption ==
  /\ MaxWord \in Nat \ {0} /\ MaxUInt32 \in 0 .. MaxWord
  /\ MaxBytes \in Nat \ {0}

Number(n) == [kind |-> "number", value |-> n]
SymbolWord(name, displacement) ==
  [kind |-> "symbol", name |-> name, displacement |-> displacement]
Other == [kind |-> "other"]

ArgumentWords ==
  [kind : {"number"}, value : Nat] \cup {Other}
    \cup [kind : {"symbol"}, name : Name, displacement : Int]

(* What the parser fills in for an argument that is missing. *)
PC == -1
Required == -2

(* The arguments of each command, with their types and defaults; those of w,
   hd and sym follow rules of their own. *)
Argument(type, default) == [type |-> type, default |-> default]

NoArguments == {"ppas", "ppcs", "b", "rr", "s", "ss", "q", "h"}

ListArguments == <<Argument("address", PC), Argument("uint32", 10)>>
DumpArguments == <<Argument("address", Required), Argument("uint32", 256)>>
PlaceArguments == <<Argument("address", PC)>>

StackArguments(word) ==
  CASE word \in {"as", "cs"} -> <<Argument("uint64", 0),
                                 Argument("uint64", 16)>>
    [] word = "was" -> <<Argument("uint64", Required),
                         Argument("address", Required)>>
    [] word = "pas" -> <<Argument("address", Required)>>
    [] word = "wcs" -> <<Argument("uint64", Required),
                         Argument("address", Required),
                         Argument("address", Required)>>
    [] word = "pcs" -> <<Argument("address", Required),
                         Argument("address", Required)>>

ArgumentsOf(word) ==
  CASE word = "l" -> ListArguments
    [] word = "d" -> DumpArguments
    [] word \in {"ba", "bd", "r"} -> PlaceArguments
    [] word \in NoArguments -> <<>>
    [] OTHER -> StackArguments(word)

CommandNames ==
  NoArguments \cup {"l", "d", "w", "as", "was", "pas", "cs", "wcs", "pcs",
                    "ba", "bd", "r", "hd", "sym"}

Command(word, args) == [word |-> word, args |-> args]
ParseError(code) == Command("parseError", <<code>>)

-----------------------------------------------------------------------------
(* One argument: its error, or "ok" and its value. *)

(* parseNextUInt64 takes the last digit's character code for its value, so
   that it rejects the largest numbers that would fit. *)
NumberError(n, max) ==
  IF n >= 10 * (MaxWord \div 10) \/ n > max THEN "invalidArgument" ELSE "ok"

SymbolAddress(t, word) ==
  (FindSymbol(t, word.name).address + word.displacement) % (MaxWord + 1)

Distance(displacement) ==
  IF displacement < 0 THEN -displacement ELSE displacement

AddressError(t, word) ==
  CASE word.kind = "number" -> NumberError(word.value, MaxWord)
    [] word.kind = "other"  -> "syntaxError"
    [] word.kind = "symbol" ->
         IF FindSymbol(t, word.name) = NoSymbol THEN "invalidArgument"
         ELSE NumberError(Distance(word.displacement), MaxWord)

Limit(type) ==
  CASE type = "uint64" -> MaxWord [] type = "uint32" -> MaxUInt32
    [] type = "byte" -> 255

ArgumentError(t, type, word) ==
  IF type = "address" THEN AddressError(t, word)
  ELSE IF word.kind = "number" THEN NumberError(word.value, Limit(type))
  ELSE "invalidArgument"

ArgumentValue(t, word) ==
  IF word.kind = "symbol" THEN SymbolAddress(t, word) ELSE word.value

-----------------------------------------------------------------------------
(* A whole line *)

(* The first argument that is missing or wrong decides the error, one too
   many is looked for last. *)
ErrorAt(t, spec, words, i) ==
  IF i <= Len(words) THEN ArgumentError(t, spec[i].type, words[i])
  ELSE IF spec[i].default = Required THEN "missingArgument" ELSE "ok"

ValueAt(t, pc, spec, words, i) ==
  IF i <= Len(words) THEN ArgumentValue(t, words[i])
  ELSE IF spec[i].default = PC THEN pc ELSE spec[i].default

ParseArguments(t, pc, word, words) ==
  LET spec == ArgumentsOf(word)
      wrong == {i \in DOMAIN spec : ErrorAt(t, spec, words, i) # "ok"}
  IN  IF wrong # {} THEN ParseError(ErrorAt(t, spec, words, Min(wrong)))
      ELSE IF Len(words) > Len(spec) THEN ParseError("syntaxError")
      ELSE Command(word, [i \in DOMAIN spec |->
                            ValueAt(t, pc, spec, words, i)])

(* w takes bytes up to the end of the line. *)
ParseWriteBytes(t, words) ==
  LET wrong == {i \in DOMAIN words :
                  ArgumentError(t, IF i = 1 THEN "address" ELSE "byte",
                                words[i]) # "ok"}
      first == Min(wrong)
  IN  IF words = <<>> THEN ParseError("missingArgument")
      ELSE IF 1 \in wrong THEN ParseError(AddressError(t, words[1]))
      ELSE IF Len(words) > MaxBytes + 1
              /\ (wrong = {} \/ first > MaxBytes + 2)
      THEN ParseError("invalidArgument")
      ELSE IF wrong # {}
      THEN ParseError(ArgumentError(t, "byte", words[first]))
      ELSE IF Len(words) = 1 THEN ParseError("missingArgument")
      ELSE Command("w", [i \in DOMAIN words |-> ArgumentValue(t, words[i])])

(* hd takes any word for the name of a file. *)
ParseHeapDump(words) ==
  IF Len(words) > 1 THEN ParseError("syntaxError") ELSE Command("hd", words)

ParseLookupSymbol(words) ==
  IF words = <<>> THEN ParseError("missingArgument")
  ELSE IF words[1].kind # "symbol" \/ words[1].displacement # 0
  THEN ParseError("invalidArgument")
  ELSE IF Len(words) > 1 THEN ParseError("syntaxError")
  ELSE Command("sym", <<words[1].name>>)

(* parseDebugCommand, for a line that is not blank. *)
ParseDebugCommand(t, pc, line) ==
  LET word == line[1]
      words == Tail(line)
  IN  CASE word = "w"   -> ParseWriteBytes(t, words)
        [] word = "hd"  -> ParseHeapDump(words)
        [] word = "sym" -> ParseLookupSymbol(words)
        [] word \in CommandNames \ {"w", "hd", "sym"} ->
             ParseArguments(t, pc, word, words)
        [] OTHER -> ParseError("unknownCommand")
=============================================================================
