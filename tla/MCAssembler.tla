---------------------------- MODULE MCAssembler ----------------------------
(* Assembler for TLC: a few sources, with and without labels, PUSH, errors,
   blank lines and a newline at the end, and files from before to overwrite. *)
EXTENDS Assembler

W(name) == TokenWord(name)
Instruction(name) == <<W(name)>>
Push(tokens) == <<W("PUSH")>> \o tokens
Label(name) == <<W(name), TokenMark(":")>>
StartAt(token) == <<TokenDirective("START"), token>>
Character(code) == <<W("PRINT"), TokenChar(code), Comment>>

(* Lines with a newline between them. *)
Joined(texts) ==
  [i \in 1 .. 2 * Len(texts) - 1 |->
     IF i % 2 = 0 THEN Newline ELSE texts[(i + 1) \div 2]]

Hello == <<StartAt(W("main")), Label("f"), Character(72), Label("main"),
           <<W("SAVE"), TokenDigits(1)>>, Instruction("HALT")>>
Calling == <<Label("main"), Push(<<W("f")>>), Instruction("PCALL"),
             Label("f"), Instruction("RET")>>
Offsets == <<Label("f"), Push(<<W("f"), TokenMark("+"), TokenDigits(1)>>),
             Push(<<W("f"), TokenMark("-"), TokenDigits(1)>>),
             Push(<<TokenDigits(7)>>), Instruction("RET")>>
Unknown == <<Instruction("RET"), Push(<<W("main")>>)>>
Errors == <<<<W("SAVE"), TokenDigits(256)>>, <<W("MAIN")>>,
            <<TokenDirective("END")>>, <<W("PRINT"), TokenMark("'")>>,
            <<W("RET"), TokenMark("!")>>, Push(<<TokenDigits(300)>>),
            Push(<<W("f"), TokenMark("?")>>), <<W("PCALL"), TokenMark(":")>>,
            Instruction("HALT")>>
Labels == <<Label("f"), Label("main"), Instruction("RET"), Label("f"),
            <<W("main"), TokenMark(":"), TokenMark("!")>>, Label("main")>>
Outside == <<StartAt(TokenDigits(2)), Instruction("RET")>>
Undefined == <<Instruction("RET"), StartAt(W("main"))>>
TooManyLines == [i \in 1 .. 10 |-> Instruction("POP")]
TooManyBytes == [i \in 1 .. 5 |-> IF i = 5 THEN Push(<<TokenDigits(0)>>)
                                  ELSE Character(0)]

Texts ==
  {Joined(t) : t \in {Hello, Calling, Offsets, Unknown, Errors, Labels,
                      Outside, Undefined, TooManyLines, TooManyBytes}}
  \cup {<<>>, <<Newline>>,
        Joined(Calling) \o <<Newline>>,
        <<Instruction("RET"), Newline, Newline, Instruction("HALT")>>,
        <<Instruction("RET"), Newline, Newline, <<Comment>>, Newline>>,
        <<Instruction("RET"), Newline, Newline>>,
        <<Newline, Instruction("RET"), Newline, <<>>, Newline, Label("f")>>}

OldProgram == <<HeaderCell(3, 1, 2), ByteCell(2), ByteCell(6), ByteCell(16),
                SymbolCell(Symbol("main", 0)), SymbolCell(Symbol("f", 2))>>

OldFiles == {<<>>, <<ByteCell(0)>>, OldProgram}

(* The words of the sources. *)
Words == {"main", "f", "MAIN", "PUSH", "POP", "PCALL", "RET", "SAVE", "PRINT",
          "HALT"}

Codes == [n \in Name |-> IF n = "main" THEN 1 ELSE 2]
Sizes == <<1, 2>>
=============================================================================
