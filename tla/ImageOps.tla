------------------------------ MODULE ImageOps -----------------------------
(***************************************************************************)
(* The file of a program image (src/src/vm_image.c), as the sequence of    *)
(* what one write puts in it or one read takes out:                        *)
(*   a header of 24 bytes, one cell: its size, its symbols, its start      *)
(*   a cell for each byte of the program                                   *)
(*   a cell for each symbol                                                *)
(* A write may fall short within the program, never within a header or a   *)
(* symbol: a bound of the model.                                           *)
(***************************************************************************)
EXTENDS SymbolOps

HeaderCell(size, numSymbols, start) ==
  [kind |-> "header", size |-> size, numSymbols |-> numSymbols,
   start |-> start]
ByteCell(b) == [kind |-> "byte", value |-> b]
SymbolCell(s) == [kind |-> "symbol", symbol |-> s]

Cell ==
  [kind : {"header"}, size : Nat, numSymbols : Nat, start : Nat]
  \cup [kind : {"byte"}, value : 0 .. 255]
  \cup [kind : {"symbol"}, symbol : [name : Name, address : Nat]]

ProgramCells(program) == [i \in DOMAIN program |-> ByteCell(program[i])]

(* The file after cells were written at a position.  It is opened without
   O_TRUNC: what was behind them stays.  In the mutant it is opened with
   O_APPEND. *)
WrittenMut(file, position, cells) == file \o cells
Written(file, position, cells) ==
  SubSeq(file, 1, position) \o cells
  \o SubSeq(file, position + Len(cells) + 1, Len(file))

(* What a read of n cells takes; one that comes short is an error.  In the
   mutant it is not. *)
ReadIsShortMut(file, position, n) == position >= Len(file) /\ n > 0
ReadIsShort(file, position, n) == position + n > Len(file)
Cells(file, position, n) ==
  SubSeq(file, position + 1, Min({position + n, Len(file)}))

-----------------------------------------------------------------------------
(***************************************************************************)
(* loadSymbolsFromFile and loadVmProgramImage.  A load l is a record of its*)
(* result and what the machine has of the image: the program read so far   *)
(* and the symbols, which both stay when the load fails.  Its result is     *)
(* "undefined" if a name is read through a null pointer.                   *)
(***************************************************************************)
ImageResults ==
  {"ok", "ioError", "formatError", "outOfMemory", "undefined"}

Loaded(result, program, symtab, start) ==
  [result |-> result, program |-> program, symtab |-> symtab,
   start |-> start]

(* The symbols that a cell may be read as: anything may come of bytes that
   were not written as a symbol. *)
SymbolsReadAs(cell) ==
  IF cell.kind = "symbol" THEN {cell.symbol}
  ELSE {Symbol(name, 0) : name \in Name}

(* What the table t may become when one more symbol is read. *)
TablesRead(t, file, position) ==
  IF t.status # "ok" \/ ReadIsShort(file, position, 1) THEN {t}
  ELSE {AddSymbol(t, s.name, s.address, mem) :
          s \in SymbolsReadAs(file[position + 1]),
          mem \in {{}, Allocations \ {"name"}, Allocations}}

(* What the table may be once the n symbols at a position were read. *)
TablesAfter(file, position, n, symtab) ==
  LET tables[i \in 0 .. n] ==
        IF i = 0 THEN {[symtab EXCEPT !.status = "ok"]}
        ELSE UNION {TablesRead(t, file, position + i - 1) : t \in tables[i - 1]}
  IN  tables[n]

SymbolLoads(file, position, n, program, symtab, start) ==
  {Loaded(IF t.status = "nullName" THEN "undefined"
          ELSE IF t.status # "ok" THEN "formatError"
          ELSE IF ReadIsShort(file, position, n) THEN "ioError" ELSE "ok",
          program, t, start) :
     t \in TablesAfter(file, position, n, symtab)}

AlignTo8(size) == 8 * ((size + 7) \div 8)

(* The loads that are possible of a file into a machine whose memory grows to
   so many bytes and has these symbols. *)
ImageLoads(file, memory, symtab, wantSymbols) ==
  LET header == file[1]
      program == Cells(file, 1, header.size)
      failed(result) == {Loaded(result, <<>>, symtab, 0)}
  IN  IF ReadIsShort(file, 0, 1) THEN failed("ioError")
      ELSE IF header.kind # "header" THEN failed("formatError")
      ELSE IF AlignTo8(header.size) > memory THEN failed("outOfMemory")
      ELSE IF ReadIsShort(file, 1, header.size)
      THEN {Loaded("ioError", program, symtab, 0)}
      ELSE IF wantSymbols
      THEN SymbolLoads(file, 1 + header.size, header.numSymbols, program,
                       symtab, header.start)
      ELSE {Loaded("ok", program, symtab, header.start)}
=============================================================================
