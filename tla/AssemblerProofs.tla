-------------------------- MODULE AssemblerProofs --------------------------
(***************************************************************************)
(* Theorems about the assembler and the images it writes.                  *)
(*                                                                         *)
(* The inductive invariant has five parts:                                 *)
(*   TypeInv     the types, with sound arrays and a sound symbol table     *)
(*   SplitInv    what the lines are, and the text that has them            *)
(*   AddressInv  the addresses of the lines, and the bytes behind them     *)
(*   FileInv     how much of the image is in the file, in each phase       *)
(*   LoaderInv   what a machine that is ready has taken from the file      *)
(* The parser, splitLines, the writes and the loads are functions of the   *)
(* state; what they make comes first, as lemmas about values.              *)
(***************************************************************************)
EXTENDS Assembler, DataLemmas

-----------------------------------------------------------------------------
(* The parser *)

(* What the tokens of a line carry. *)
LEMMA TokenFacts ==
  ASSUME NEW line \in Seq(Token), NEW i \in Nat \ {0}
  PROVE  /\ KindAt(line, i) = "word" =>
              i \in 1 .. Len(line) /\ line[i].text \in Name
         /\ KindAt(line, i) = "digits" =>
              i \in 1 .. Len(line) /\ line[i].value \in Nat
         /\ KindAt(line, i) = "char" =>
              i \in 1 .. Len(line) /\ line[i].value \in 0 .. 255
<1>1. CASE i \in 1 .. Len(line)
  <2>1. line[i] \in Token /\ KindAt(line, i) = line[i].kind
    BY <1>1 DEF KindAt
  <2> QED BY <1>1, <2>1 DEF Token
<1>2. CASE i \notin 1 .. Len(line)
  <2>1. ~(i <= Len(line))
    BY <1>2
  <2> QED BY <2>1 DEF KindAt
<1> QED BY <1>1, <1>2

(* An operand of values in V, and where the line goes on. *)
IsOperand(operand, V) ==
  operand # Malformed => operand.value \in V

(* Each kind of operand, and with it the instruction that is complete. *)
LEMMA UInt64Facts ==
  ASSUME NEW line \in Seq(Token), NEW i \in Nat \ {0},
         NEW max \in 0 .. MaxValue
  PROVE  IsOperand(UInt64Operand(line, i, max),
                   [type : {"uint64"}, value : 0 .. max])
<1> USE AsmSyntaxAssumption
<1>1. CASE HasUInt64(line, i) /\ line[i].value <= max
  <2>1. line[i].value \in Nat
    BY <1>1, TokenFacts DEF HasUInt64
  <2> QED BY <1>1, <2>1 DEF UInt64Operand, IsOperand, Parsed, UInt64Value
<1> QED BY <1>1 DEF UInt64Operand, IsOperand

LEMMA CharacterFacts ==
  ASSUME NEW line \in Seq(Token), NEW i \in Nat \ {0}
  PROVE  IsOperand(CharacterOperand(line, i), ByteValue)
BY TokenFacts DEF CharacterOperand, IsOperand, Parsed, UInt64Value, ByteValue

LEMMA AddressFacts ==
  ASSUME NEW line \in Seq(Token), NEW i \in Nat \ {0}
  PROVE  IsOperand(AddressOperand(line, i), AddressValue)
<1> USE AsmSyntaxAssumption
<1>1. CASE KindAt(line, i) = "digits"
  <2>1. AddressOperand(line, i) = UInt64Operand(line, i, MaxValue)
    BY <1>1 DEF AddressOperand
  <2> QED BY <2>1, UInt64Facts DEF IsOperand, AddressValue
<1>2. CASE KindAt(line, i) = "word"
  <2> DEFINE name == line[i].text
             offset == line[i + 2].value
  <2>1. AddressOperand(line, i) = SymbolOperand(line, i)
    BY <1>2 DEF AddressOperand
  <2>2. name \in Name
    BY <1>2, TokenFacts
  <2>3. HasUInt64(line, i + 2) => offset \in 0 .. MaxValue
    BY TokenFacts DEF HasUInt64
  <2>4. SymbolOperand(line, i) \in {Malformed}
          \cup {Parsed(SymbolAndOffset(name, n), i + 1) : n \in {0}}
          \cup {Parsed(SymbolAndOffset(name, n), i + 3) :
                  n \in -MaxValue .. MaxValue}
    <3> HIDE DEF name
    <3>1. CASE EndsAt(line, i + 1)
      BY <3>1 DEF SymbolOperand, name
    <3>2. CASE ~EndsAt(line, i + 1) /\ ~HasUInt64(line, i + 2)
      BY <3>2 DEF SymbolOperand
    <3>3. CASE ~EndsAt(line, i + 1) /\ HasUInt64(line, i + 2)
      <4>1. /\ offset \in -MaxValue .. MaxValue
            /\ -offset \in -MaxValue .. MaxValue
        BY <2>3, <3>3
      <4> HIDE DEF offset
      <4> QED BY <3>3, <4>1 DEF SymbolOperand, name, offset
    <3> QED BY <3>1, <3>2, <3>3
  <2>5. \A n \in -MaxValue .. MaxValue :
          SymbolAndOffset(name, n) \in AddressValue
    BY <2>2 DEF SymbolAndOffset, AddressValue
  <2> HIDE DEF name, offset
  <2> QED BY <2>1, <2>4, <2>5 DEF IsOperand, Parsed
<1>3. CASE KindAt(line, i) \notin {"digits", "word"}
  BY <1>3 DEF AddressOperand, IsOperand
<1> QED BY <1>1, <1>2, <1>3

LEMMA CompleteInstruction ==
  ASSUME NEW line \in Seq(Token), NEW name \in DOMAIN Opcodes,
         NEW at \in Nat, NEW number \in Nat,
         IsComplete(line, OperandOf(line, name))
  PROVE  InstructionLine(name, OperandOf(line, name).value, at, number)
           \in AssemblyLine
<1> USE AsmSyntaxAssumption
<1> DEFINE operand == OperandOf(line, name)
<1>1. operand # Malformed
  BY DEF IsComplete
<1>2. CASE name = "PUSH"
  <2>1. operand.value \in AddressValue
    BY <1>1, <1>2, AddressFacts DEF OperandOf, IsOperand
  <2> HIDE DEF operand
  <2> QED BY <1>2, <2>1 DEF InstructionLine, AssemblyLine, Operation, operand
<1>3. CASE name \in TakesByte
  <2>1. operand.value \in ByteValue
    <3>1. CASE name = "PRINT"
      BY <1>1, <3>1, CharacterFacts DEF OperandOf, IsOperand
    <3>2. CASE name \in {"SAVE", "RESTORE"}
      <4>1. operand = UInt64Operand(line, 2, 255)
        BY <3>2 DEF OperandOf
      <4>2. 255 \in 0 .. MaxValue
        OBVIOUS
      <4>3. 2 \in Nat \ {0}
        OBVIOUS
      <4>4. \A max \in 0 .. MaxValue :
              IsOperand(UInt64Operand(line, 2, max),
                        [type : {"uint64"}, value : 0 .. max])
        BY <4>3, UInt64Facts, Zenon
      <4>5. IsOperand(UInt64Operand(line, 2, 255), ByteValue)
        BY <4>2, <4>4, Zenon DEF ByteValue
      <4> QED BY <1>1, <4>1, <4>5 DEF IsOperand
    <3> QED BY <1>3, <3>1, <3>2 DEF TakesByte
  <2> HIDE DEF operand
  <2> QED BY <1>3, <2>1 DEF InstructionLine, AssemblyLine, Operation, operand
<1>4. CASE name # "PUSH" /\ name \notin TakesByte
  <2>1. operand.value = EmptyValue
    BY <1>4 DEF OperandOf, Parsed, TakesByte
  <2> HIDE DEF operand
  <2> QED BY <1>4, <2>1 DEF InstructionLine, AssemblyLine, Operation, operand
<1> QED BY <1>2, <1>3, <1>4

(* A line that is not in error has the type of its syntax, and the address
   and number that it was parsed with. *)
LEMMA ParsedLine ==
  ASSUME NEW line \in Seq(Token), NEW at \in Nat, NEW number \in Nat
  PROVE  LET asml == ParseAssemblyLine(line, at, number)
         IN  asml # AsmError =>
               asml \in AssemblyLine /\ asml.address = at
               /\ asml.line = number
<1> DEFINE asml == ParseAssemblyLine(line, at, number)
           Good == asml \in AssemblyLine /\ asml.address = at
                   /\ asml.line = number
<1> SUFFICES ASSUME asml # AsmError PROVE Good
  OBVIOUS
<1>1. CASE EndsAt(line, 1)
  <2>1. KindAt(line, 1) \notin {"directive", "word"}
    BY <1>1 DEF EndsAt, KindAt, Comment, TokenMark
  <2>2. asml = EmptyLine(at, number)
    BY <1>1, <2>1 DEF ParseAssemblyLine
  <2> HIDE DEF asml
  <2> QED BY <2>2 DEF EmptyLine, AssemblyLine
<1>2. CASE ~EndsAt(line, 1) /\ KindAt(line, 1) = "directive"
  <2> DEFINE operand == AddressOperand(line, 2)
  <2>1. asml = ParseDirective(line, at, number)
    BY <1>2 DEF ParseAssemblyLine
  <2>2. /\ IsComplete(line, operand)
        /\ asml = DirectiveLine(operand.value, at, number)
    BY <2>1 DEF ParseDirective
  <2>3. operand.value \in AddressValue
    BY <2>2, AddressFacts DEF IsComplete, IsOperand
  <2> HIDE DEF asml, operand
  <2> QED BY <2>2, <2>3 DEF DirectiveLine, AssemblyLine
<1>3. CASE ~EndsAt(line, 1) /\ KindAt(line, 1) = "word"
           /\ line[1].text \in DOMAIN Opcodes
  <2> DEFINE name == line[1].text
             operand == OperandOf(line, name)
  <2>1. asml = ParseInstruction(line, at, number)
    BY <1>3 DEF ParseAssemblyLine
  <2>2. /\ IsComplete(line, operand)
        /\ asml = InstructionLine(name, operand.value, at, number)
    BY <2>1 DEF ParseInstruction
  <2> HIDE DEF asml, name
  <2>3. asml \in AssemblyLine
    BY <1>3, <2>2, CompleteInstruction DEF name
  <2> HIDE DEF operand
  <2> QED BY <2>2, <2>3 DEF InstructionLine
<1>4. CASE /\ ~EndsAt(line, 1) /\ KindAt(line, 1) = "word"
           /\ line[1].text \notin DOMAIN Opcodes
  <2>1. asml = ParseLabel(line, at, number)
    BY <1>4 DEF ParseAssemblyLine
  <2>2. asml = LabelLine(line[1].text, at, number)
    BY <2>1 DEF ParseLabel
  <2>3. line[1].text \in Name
    BY <1>4, TokenFacts
  <2> HIDE DEF asml
  <2> QED BY <2>2, <2>3 DEF LabelLine, AssemblyLine
<1>5. CASE ~EndsAt(line, 1) /\ KindAt(line, 1) \notin {"directive", "word"}
  BY <1>5 DEF ParseAssemblyLine
<1> QED BY <1>1, <1>2, <1>3, <1>4, <1>5

-----------------------------------------------------------------------------
(* The lines of a text *)

Text == Seq(Seq(Token) \cup {Newline})

(* A line has tokens only: newlines in it count as blanks. *)
LEMMA TokensFacts ==
  ASSUME NEW line \in Text
  PROVE  TokensOf(line) \in Seq(Token)
<1> DEFINE seqs == [i \in DOMAIN line |-> IF line[i] = Newline THEN <<>>
                                          ELSE line[i]]
<1>1. Len(line) \in Nat /\ DOMAIN line = 1 .. Len(line)
  BY DEF Text
<1>2. ASSUME NEW i \in 1 .. Len(line)
      PROVE  seqs[i] \in Seq(Token)
  <2>1. line[i] \in Seq(Token) \cup {Newline}
    BY DEF Text
  <2>2. <<>> \in Seq(Token)
    OBVIOUS
  <2> QED BY <1>1, <2>1, <2>2
<1>3. seqs = [i \in 1 .. Len(line) |-> seqs[i]]
  BY <1>1
<1> HIDE DEF seqs
<1>4. seqs \in Seq(Seq(Token))
  BY <1>1, <1>2, <1>3, SeqDef
<1> QED BY <1>4, FlattenType DEF TokensOf, seqs

(* The n-th end of a line is there, so that CHOOSE finds it and the lines lie
   within the text. *)
LEMMA SubsetOfInterval ==
  ASSUME NEW m \in Nat, NEW S \in SUBSET (1 .. m)
  PROVE  IsFiniteSet(S) /\ Cardinality(S) \in Nat
<1>1. IsFiniteSet(1 .. m)
  BY FS_Interval
<1>2. IsFiniteSet(S)
  BY <1>1, FS_Subset
<1> QED BY <1>2, FS_CardinalityType

(* Among n numbers there is one up to which there are 1, 2, ... or n. *)
LEMMA PlaceExists ==
  ASSUME NEW m \in Nat, NEW S \in SUBSET (1 .. m),
         NEW n \in 1 .. Cardinality(S)
  PROVE  \E e \in S : Cardinality({i \in S : i <= e}) = n
<1> DEFINE Below(e) == {i \in S : i <= e}
           N(e) == Cardinality(Below(e))
           Far == {e \in Nat : N(e) >= n}
<1>0. \A i \in S : i \in Nat /\ 1 <= i /\ i <= m
  OBVIOUS
<1>1. IsFiniteSet(S) /\ Cardinality(S) \in Nat
  BY SubsetOfInterval
<1>2. \A e \in Nat : IsFiniteSet(Below(e)) /\ N(e) \in Nat
  BY <1>1, FS_Subset, FS_CardinalityType
<1>3. Below(m) = S /\ Below(0) = {}
  <2>1. \A i \in S : i <= m /\ ~(i <= 0)
    BY <1>0
  <2> QED BY <2>1
<1>4. m \in Far /\ 0 \notin Far
  BY <1>1, <1>3, FS_EmptySet
<1>5. PICK e \in Far : \A x \in Far : e <= x
  <2>1. Far \in SUBSET Nat /\ Far # {}
    BY <1>4
  <2> HIDE DEF Far
  <2> QED BY <2>1, LeastExists
<1>6. e \in Nat /\ e # 0 /\ N(e) >= n /\ e - 1 \in Nat /\ ~(e <= e - 1)
  BY <1>4, <1>5
<1>7. ~(N(e - 1) >= n)
  BY <1>5, <1>6
<1>8. e \in S
  <2> SUFFICES ASSUME e \notin S PROVE FALSE
    OBVIOUS
  <2>1. Below(e) = Below(e - 1)
    <3>1. \A i \in S : i <= e <=> i <= e - 1
      BY <1>0, <1>6
    <3> QED BY <3>1
  <2> QED BY <1>6, <1>7, <2>1
<1>9. Below(e) = Below(e - 1) \cup {e} /\ e \notin Below(e - 1)
  <2>1. \A i \in S : i <= e <=> i <= e - 1 \/ i = e
    BY <1>0, <1>6
  <2> QED BY <1>6, <1>8, <2>1
<1> HIDE DEF Below
<1>10. N(e) = N(e - 1) + 1
  BY <1>2, <1>6, <1>9, FS_AddElement
<1>11. N(e) = n
  BY <1>2, <1>6, <1>7, <1>10
<1> QED BY <1>8, <1>11 DEF Below

(* splitLines makes lines of the text. *)
LEMMA SplitFacts ==
  ASSUME text \in Text
  PROVE  SplitLines \in Seq(Text)
<1> DEFINE m == Len(text) + 1
           n == Cardinality(LineEnds)
<1>1. m \in Nat /\ LineEnds \in SUBSET (1 .. m)
  BY DEF Text, LineEnds, Terminators
<1>2. n \in Nat
  BY <1>1, SubsetOfInterval
<1>3. ASSUME NEW i \in 0 .. n
      PROVE  LineEnd(i) \in 0 .. m
  <2>1. CASE i = 0
    BY <1>1, <2>1 DEF LineEnd
  <2>2. CASE i # 0
    <3>1. i \in 1 .. n
      BY <1>2, <2>2
    <3> HIDE DEF m, n
    <3>2. \E e \in LineEnds : Cardinality({j \in LineEnds : j <= e}) = i
      BY <1>1, <3>1, PlaceExists DEF n
    <3>3. LineEnd(i) \in LineEnds
      BY <2>2, <3>2, Zenon DEF LineEnd
    <3>4. \A e \in 1 .. m : e \in 0 .. m
      BY <1>1
    <3> QED BY <1>1, <3>3, <3>4
  <2> QED BY <2>1, <2>2
<1>4. ASSUME NEW i \in 1 .. n
      PROVE  SubSeq(text, LineEnd(i - 1) + 1, LineEnd(i) - 1) \in Text
  <2>1. i - 1 \in 0 .. n /\ i \in 0 .. n
    BY <1>2
  <2>2. LineEnd(i - 1) \in 0 .. m /\ LineEnd(i) \in 0 .. m
    BY <1>3, <2>1
  <2>3. \A a \in 1 .. Len(text) + 2, b \in -1 .. Len(text) :
          SubSeq(text, a, b) \in Text
    BY DEF Text
  <2> QED BY <1>1, <2>2, <2>3
<1>5. SplitLines = [i \in 1 .. n |-> SplitLines[i]]
      /\ \A i \in 1 .. n : SplitLines[i] \in Text
  BY <1>4 DEF SplitLines
<1> HIDE DEF n
<1> QED BY <1>2, <1>5, SeqDef

-----------------------------------------------------------------------------
(***************************************************************************)
(* No line is lost.  The loop of splitLines sees every newline but one that*)
(* follows another that it saw: a line may begin with that one, and has no *)
(* more than one item.                                                     *)
(***************************************************************************)

(* The place of each of n numbers in their order. *)
UpTo(S, e) == {i \in S : i <= e}

LEMMA UpToGrows ==
  ASSUME NEW m \in Nat, NEW S \in SUBSET (1 .. m), NEW a \in Nat, NEW b \in S,
         a < b
  PROVE  Cardinality(UpTo(S, a)) < Cardinality(UpTo(S, b))
<1>1. \A i \in S : i \in Nat
  OBVIOUS
<1>2. /\ UpTo(S, a) \subseteq UpTo(S, b)
      /\ b \in UpTo(S, b) /\ b \notin UpTo(S, a)
  <2>1. b \in Nat /\ b <= b /\ ~(b <= a)
    BY <1>1
  <2>2. \A i \in S : i <= a => i <= b
    BY <1>1, <2>1
  <2> QED BY <2>1, <2>2 DEF UpTo
<1>3. UpTo(S, a) \in SUBSET (1 .. m) /\ UpTo(S, b) \in SUBSET (1 .. m)
  BY DEF UpTo
<1>4. IsFiniteSet(UpTo(S, b)) /\ Cardinality(UpTo(S, b)) \in Nat
      /\ Cardinality(UpTo(S, a)) \in Nat
  BY <1>3, SubsetOfInterval
<1>5. /\ Cardinality(UpTo(S, a)) <= Cardinality(UpTo(S, b))
      /\ Cardinality(UpTo(S, b)) = Cardinality(UpTo(S, a)) =>
           UpTo(S, b) = UpTo(S, a)
  BY <1>2, <1>4, FS_Subset
<1> QED BY <1>2, <1>4, <1>5

(* The lines end at the places of LineEnds in their order. *)
LEMMA LineEndFacts ==
  ASSUME text \in Text
  PROVE  LET n == Cardinality(LineEnds)
         IN  /\ n \in Nat /\ LineEnd(0) = 0
             /\ \A i \in 1 .. n :
                  /\ LineEnd(i) \in LineEnds /\ LineEnd(i - 1) \in Nat
                  /\ LineEnd(i - 1) < LineEnd(i)
                  /\ \A e \in LineEnds :
                       ~(LineEnd(i - 1) < e /\ e < LineEnd(i))
             /\ \A e \in LineEnds : e <= LineEnd(n)
<1> DEFINE m == Len(text) + 1
           n == Cardinality(LineEnds)
           C(e) == Cardinality(UpTo(LineEnds, e))
<1>1. m \in Nat /\ LineEnds \in SUBSET (1 .. m)
  BY DEF Text, LineEnds, Terminators
<1>2. n \in Nat /\ IsFiniteSet(LineEnds)
  BY <1>1, SubsetOfInterval
<1>3. \A e \in LineEnds : e \in Nat /\ 1 <= e
  BY <1>1
<1> HIDE DEF m, n
<1>4. ASSUME NEW i \in 1 .. n
      PROVE  LineEnd(i) \in LineEnds /\ C(LineEnd(i)) = i
  <2>1. \E e \in LineEnds : Cardinality({j \in LineEnds : j <= e}) = i
    BY <1>1, PlaceExists DEF n
  <2>2. LineEnd(i) = CHOOSE e \in LineEnds :
                        Cardinality({j \in LineEnds : j <= e}) = i
    <3>1. i # 0
      BY <1>2
    <3> QED BY <3>1 DEF LineEnd
  <2>3. LineEnd(i) \in LineEnds
        /\ Cardinality({j \in LineEnds : j <= LineEnd(i)}) = i
    BY <2>1, <2>2, Zenon
  <2> QED BY <2>3 DEF UpTo
<1>5. LineEnd(0) = 0 /\ C(0) = 0
  <2>1. UpTo(LineEnds, 0) = {}
    BY <1>3 DEF UpTo
  <2> QED BY <2>1, FS_EmptySet DEF LineEnd
<1>6. ASSUME NEW i \in 0 .. n
      PROVE  LineEnd(i) \in Nat /\ C(LineEnd(i)) = i
  <2>1. i = 0 \/ i \in 1 .. n
    BY <1>2
  <2> QED BY <1>3, <1>4, <1>5, <2>1
<1>7. ASSUME NEW e \in LineEnds
      PROVE  /\ C(e) \in Nat /\ C(e) <= n
             /\ \A a \in Nat : a < e => C(a) < C(e)
  <2>1. UpTo(LineEnds, e) \in SUBSET LineEnds
    BY DEF UpTo
  <2>2. C(e) \in Nat /\ C(e) <= n
    BY <1>2, <2>1, FS_Subset, FS_CardinalityType DEF n
  <2> QED BY <1>1, <2>2, UpToGrows
<1> HIDE DEF C
<1>8. ASSUME NEW i \in 1 .. n
      PROVE  /\ LineEnd(i) \in LineEnds /\ LineEnd(i - 1) \in Nat
             /\ LineEnd(i - 1) < LineEnd(i)
             /\ \A e \in LineEnds : ~(LineEnd(i - 1) < e /\ e < LineEnd(i))
  <2> DEFINE a == LineEnd(i - 1)
             b == LineEnd(i)
  <2>1. i - 1 \in 0 .. n /\ i \in 0 .. n /\ i \in Nat
    BY <1>2
  <2>2. /\ b \in LineEnds /\ a \in Nat /\ b \in Nat
        /\ C(a) = i - 1 /\ C(b) = i
    BY <1>4, <1>6, <2>1
  <2> HIDE DEF a, b
  <2>3. a < b
    <3>1. CASE b < a
      <4>1. a \in LineEnds
        <5>1. a # 0
          BY <2>2, <3>1
        <5>2. i - 1 # 0
          BY <1>5, <5>1 DEF a
        <5>3. i - 1 \in 1 .. n
          BY <2>1, <5>2
        <5> QED BY <1>4, <5>3 DEF a
      <4>2. C(b) < C(a)
        BY <1>7, <2>2, <3>1, <4>1
      <4> QED BY <2>1, <2>2, <4>2
    <3>2. CASE b = a
      BY <2>1, <2>2, <3>2
    <3> QED BY <2>2, <3>1, <3>2
  <2>4. ASSUME NEW e \in LineEnds, a < e, e < b
        PROVE  FALSE
    <3>1. C(a) < C(e) /\ C(e) < C(b) /\ C(e) \in Nat
      BY <1>3, <1>7, <2>2, <2>4
    <3> QED BY <2>1, <2>2, <3>1
  <2> QED BY <2>2, <2>3, <2>4 DEF a, b
<1>9. ASSUME NEW e \in LineEnds
      PROVE  e <= LineEnd(n)
  <2>1. n \in 0 .. n
    BY <1>2
  <2>2. LineEnd(n) \in Nat /\ C(LineEnd(n)) = n
    BY <1>6, <2>1
  <2>3. CASE LineEnd(n) < e
    BY <1>2, <1>7, <2>2, <2>3
  <2> QED BY <1>3, <2>2, <2>3
<1> QED BY <1>2, <1>5, <1>8, <1>9 DEF n

(* The newlines that the loop sees: those that do not follow one of them. *)
TerminatorStep(i, g) == i > 0 /\ text[i] = Newline /\ ~g[i - 1]

AreTerminators(g) == g = [i \in 0 .. Len(text) |-> TerminatorStep(i, g)]

LEMMA TerminatorsExist ==
  ASSUME text \in Text
  PROVE  \E g : AreTerminators(g)
<1> DEFINE S == 0 .. Len(text)
           V == BOOLEAN
           m == [i \in S |-> i]
           F == [i \in S |-> [g \in [S -> V] |-> TerminatorStep(i, g)]]
<1>1. Len(text) \in Nat
  BY DEF Text
<1>2. \A i \in S : i \in Nat /\ m[i] = i
  BY <1>1
<1>3. m \in [S -> Nat]
  BY <1>2
<1>4. ASSUME NEW i \in S, NEW g \in [S -> V]
      PROVE  TerminatorStep(i, g) \in V
  BY DEF TerminatorStep
<1>5. F \in [S -> [[S -> V] -> V]]
  BY <1>4
<1>6. IsLocal(S, m, V, F)
  <2> SUFFICES ASSUME NEW i \in S, NEW g \in [S -> V], NEW h \in [S -> V],
                      \A y \in S : m[y] < m[i] => g[y] = h[y]
               PROVE  F[i][g] = F[i][h]
    BY DEF IsLocal
  <2>1. TerminatorStep(i, g) <=> TerminatorStep(i, h)
    <3>1. CASE i = 0
      BY <3>1 DEF TerminatorStep
    <3>2. CASE i # 0
      <4>1. i - 1 \in S /\ m[i - 1] < m[i]
        <5>1. i \in Nat /\ i - 1 \in S
          BY <1>1, <1>2, <3>2
        <5> HIDE DEF m, S
        <5> QED BY <1>2, <5>1
      <4>2. g[i - 1] = h[i - 1]
        <5> HIDE DEF m, S, V
        <5> QED BY <4>1
      <4> QED BY <4>2 DEF TerminatorStep
    <3> QED BY <3>1, <3>2
  <2>2. TerminatorStep(i, g) = TerminatorStep(i, h)
    BY <1>4, <2>1
  <2> QED BY <2>2
<1> HIDE DEF m
<1>7. PICK g \in [S -> V] : \A i \in S : g[i] = F[i][g]
  <2>1. V # {}
    OBVIOUS
  <2> HIDE DEF S, F, V
  <2>2. IsRecursion(S, m, V, F)
    BY <1>3, <1>5, <1>6, <2>1 DEF IsRecursion
  <2> QED BY <2>2, RecursionExists
<1>8. \A i \in S : g[i] = TerminatorStep(i, g)
  BY <1>7
<1>9. g = [i \in S |-> TerminatorStep(i, g)]
  BY <1>7, <1>8
<1> QED BY <1>9 DEF AreTerminators

LEMMA TerminatorFacts ==
  ASSUME text \in Text, NEW i \in 1 .. Len(text)
  PROVE  i \in Terminators <=> text[i] = Newline /\ i - 1 \notin Terminators
<1> DEFINE g == CHOOSE h : AreTerminators(h)
<1>1. AreTerminators(g)
  BY TerminatorsExist
<1>2. IsTerminator = g
  BY Zenon DEF IsTerminator, AreTerminators, TerminatorStep
<1> HIDE DEF g
<1>3. \A j \in 0 .. Len(text) :
        IsTerminator[j] = TerminatorStep(j, IsTerminator)
  BY <1>1, <1>2 DEF AreTerminators
<1>4. Len(text) \in Nat /\ DOMAIN text = 1 .. Len(text)
  BY DEF Text
<1>5. IsTerminator[i] <=> text[i] = Newline /\ ~IsTerminator[i - 1]
  <2>1. i \in 0 .. Len(text) /\ i > 0
    BY <1>4
  <2> QED BY <1>3, <2>1 DEF TerminatorStep
<1>6. i - 1 \in Terminators <=> IsTerminator[i - 1]
  <2>1. CASE i = 1
    <3>1. 0 \in 0 .. Len(text) /\ ~(0 > 0) /\ 0 \notin DOMAIN text /\ i - 1 = 0
      BY <1>4, <2>1
    <3>2. ~IsTerminator[0]
      BY <1>3, <3>1 DEF TerminatorStep
    <3> QED BY <3>1, <3>2 DEF Terminators
  <2>2. CASE i # 1
    <3>1. i - 1 \in DOMAIN text
      BY <1>4, <2>2
    <3> QED BY <3>1 DEF Terminators
  <2> QED BY <2>1, <2>2
<1> QED BY <1>4, <1>5, <1>6 DEF Terminators

(* As many lines are counted as there are newlines, and one more if the text
   does not end with one. *)
Newlines == {i \in DOMAIN text : text[i] = Newline}

LEMMA CountFacts ==
  ASSUME text \in Text, text # <<>>
  PROVE  LET l == Len(text)
         IN  /\ l \in Nat \ {0} /\ Last(text) = text[l]
             /\ Terminators \subseteq Newlines
             /\ IsFiniteSet(Newlines) /\ Cardinality(Newlines) \in Nat
             /\ IsFiniteSet(Terminators) /\ Cardinality(Terminators) \in Nat
             /\ NumLines = Cardinality(Newlines)
                           + IF text[l] = Newline THEN 0 ELSE 1
             /\ Cardinality(LineEnds) = Cardinality(Terminators)
                           + IF l \in Terminators THEN 0 ELSE 1
<1> DEFINE l == Len(text)
<1>1. l \in Nat \ {0} /\ DOMAIN text = 1 .. l
  BY DEF Text
<1>2. Last(text) = text[l]
  BY DEF Last
<1>3. Terminators \subseteq Newlines
  BY <1>1, TerminatorFacts DEF Terminators, Newlines
<1>4. Newlines \in SUBSET (1 .. l) /\ Terminators \in SUBSET (1 .. l)
  BY <1>1, <1>3 DEF Newlines
<1> HIDE DEF l
<1>5. /\ IsFiniteSet(Newlines) /\ Cardinality(Newlines) \in Nat
      /\ IsFiniteSet(Terminators) /\ Cardinality(Terminators) \in Nat
  BY <1>1, <1>4, SubsetOfInterval
<1>6. NumLines = Cardinality(Newlines) + IF text[l] = Newline THEN 0 ELSE 1
  BY <1>2 DEF NumLines, Newlines
<1>7. Cardinality(LineEnds) = Cardinality(Terminators)
                              + IF l \in Terminators THEN 0 ELSE 1
  <2>1. CASE l \in Terminators
    <3>1. LineEnds = Terminators
      BY <2>1 DEF LineEnds, RunsPastEnd, l
    <3> QED BY <1>5, <2>1, <3>1
  <2>2. CASE l \notin Terminators
    <3>1. LineEnds = Terminators \cup {l + 1}
      BY <2>2 DEF LineEnds, RunsPastEnd, l
    <3>2. l + 1 \notin Terminators
      BY <1>1, <1>4
    <3>3. Cardinality(LineEnds) = Cardinality(Terminators) + 1
      BY <1>5, <3>1, <3>2, FS_AddElement
    <3> QED BY <2>2, <3>3
  <2> QED BY <2>1, <2>2
<1> QED BY <1>1, <1>2, <1>3, <1>5, <1>6, <1>7 DEF l

(* A text without a blank line has the lines that were counted. *)
LEMMA NoneLeftOver ==
  ASSUME text \in Text, text # <<>>, ~HasBlankLine, Last(text) # Newline
  PROVE  Cardinality(LineEnds) = NumLines /\ ~RunsPastEnd
<1> DEFINE l == Len(text)
<1>1. /\ l \in Nat \ {0} /\ Last(text) = text[l]
      /\ Terminators \subseteq Newlines /\ DOMAIN text = 1 .. l
  BY CountFacts DEF Text
<1>2. ASSUME NEW i \in Newlines
      PROVE  i \in Terminators
  <2>1. i \in 1 .. l /\ text[i] = Newline
    BY <1>1 DEF Newlines
  <2>2. i - 1 \notin Newlines
    <3> SUFFICES ASSUME i - 1 \in Newlines PROVE FALSE
      OBVIOUS
    <3>1. i - 1 \in 1 .. l /\ text[i - 1] = Newline
      BY <1>1 DEF Newlines
    <3>2. i - 1 \in 1 .. l - 1 /\ (i - 1) + 1 = i
      BY <1>1, <2>1, <3>1
    <3> QED BY <2>1, <3>1, <3>2 DEF HasBlankLine
  <2> QED BY <1>1, <2>1, <2>2, TerminatorFacts
<1>3. Terminators = Newlines /\ l \notin Terminators
  BY <1>1, <1>2 DEF Newlines
<1> QED BY <1>1, <1>3, CountFacts DEF RunsPastEnd

(* What is not blank, as far as the i-th item. *)
Kept(items, k, T) ==
  /\ k \in [0 .. Len(items) -> Seq(T)] /\ k[0] = <<>>
  /\ \A i \in 1 .. Len(items) :
       k[i] = IF items[i] \in {<<>>, Newline} THEN k[i - 1]
              ELSE k[i - 1] \o <<items[i]>>
  /\ NotBlank(items) = k[Len(items)]

LEMMA NotBlankFacts ==
  ASSUME NEW T, NEW items \in Seq(T)
  PROVE  \E k : Kept(items, k, T)
<1> DEFINE l == Len(items)
           seqs == [i \in 1 .. l |->
                     IF items[i] \in {<<>>, Newline} THEN <<>>
                     ELSE <<items[i]>>]
<1>1. l \in Nat /\ DOMAIN items = 1 .. l
  OBVIOUS
<1>2. seqs \in Seq(Seq(T)) /\ Len(seqs) = l
  <2>1. \A i \in 1 .. l : items[i] \in T
    OBVIOUS
  <2>2. <<>> \in Seq(T) /\ \A x \in T : <<x>> \in Seq(T)
    OBVIOUS
  <2>3. seqs \in [1 .. l -> Seq(T)]
    BY <2>1, <2>2
  <2> HIDE DEF seqs, l
  <2> QED BY <1>1, <2>3, SeqDef
<1>3. NotBlank(items) = FlattenSeq(seqs)
  BY <1>1 DEF NotBlank
<1>4. CASE l = 0
  <2> DEFINE k == [i \in 0 .. 0 |-> <<>>]
  <2>1. k \in [0 .. l -> Seq(T)] /\ k[0] = <<>> /\ k[l] = <<>>
    BY <1>4
  <2>2. NotBlank(items) = <<>>
    <3> HIDE DEF seqs
    <3>1. seqs = <<>>
      BY <1>2, <1>4
    <3> QED BY <1>3, <3>1 DEF FlattenSeq
  <2>3. \A i \in 1 .. l : FALSE
    BY <1>4
  <2> HIDE DEF k
  <2> QED BY <2>1, <2>2, <2>3 DEF Kept
<1>5. CASE l # 0
  <2>1. PICK g : IsFlattening(seqs, g) /\ FlattenSeq(seqs) = g[l]
    <3> HIDE DEF seqs, l
    <3> QED BY <1>2, <1>5, FlattenIsFlattening
  <2> DEFINE k == [i \in 0 .. l |-> IF i = 0 THEN <<>> ELSE g[i]]
  <2>2. \A i \in 1 .. l : g[i] \in Seq(T)
    <3> HIDE DEF seqs, l
    <3> QED BY <1>2, <2>1, FlatteningType
  <2>3. /\ \A i \in 0 .. l : i # 0 => i \in 1 .. l
        /\ \A i \in 1 .. l : i \in 0 .. l /\ i # 0 /\ i - 1 \in 0 .. l
    BY <1>1
  <2>4. 0 \in 0 .. l /\ l \in 0 .. l
    BY <1>1
  <2>5. /\ k \in [0 .. l -> Seq(T)] /\ k[0] = <<>> /\ k[l] = g[l]
        /\ \A i \in 1 .. l : k[i] = g[i]
    <3> HIDE DEF l
    <3>1. <<>> \in Seq(T)
      OBVIOUS
    <3> QED BY <1>5, <2>2, <2>3, <2>4, <3>1
  <2> HIDE DEF k
  <2>6. ASSUME NEW i \in 1 .. l
        PROVE  k[i] = IF items[i] \in {<<>>, Newline} THEN k[i - 1]
                      ELSE k[i - 1] \o <<items[i]>>
    <3> HIDE DEF l
    <3>1. k[i - 1] \in Seq(T) /\ items[i] \in T
      BY <2>3, <2>5 DEF l
    <3>2. k[i] = k[i - 1] \o seqs[i]
      <4>1. g[i] = FlattenStep(seqs, i, g)
        <5> HIDE DEF seqs
        <5> QED BY <1>2, <2>1 DEF IsFlattening
      <4>2. CASE i = 1
        <5>1. k[i - 1] = <<>>
          BY <2>5, <4>2
        <5>2. k[i] = seqs[i] /\ seqs[i] \in Seq(T)
          <6> HIDE DEF seqs
          <6> QED BY <1>2, <2>5, <4>1, <4>2 DEF FlattenStep
        <5> HIDE DEF seqs
        <5> QED BY <5>1, <5>2
      <4>3. CASE i # 1
        <5>1. i - 1 \in 1 .. l
          BY <1>1, <4>3
        <5> HIDE DEF seqs
        <5> QED BY <2>5, <4>1, <4>3, <5>1 DEF FlattenStep
      <4> QED BY <4>2, <4>3
    <3>3. k[i - 1] \o <<>> = k[i - 1]
      BY <3>1
    <3>4. seqs[i] = IF items[i] \in {<<>>, Newline} THEN <<>> ELSE <<items[i]>>
      OBVIOUS
    <3> HIDE DEF seqs
    <3> QED BY <3>2, <3>3, <3>4
  <2> HIDE DEF seqs
  <2> QED BY <1>3, <2>1, <2>5, <2>6 DEF Kept
<1> QED BY <1>4, <1>5

LEMMA TwoItems ==
  ASSUME NEW S, NEW s \in Seq(S), Len(s) = 2
  PROVE  s = <<s[1], s[2]>>
OBVIOUS

LEMMA ConcatFacts ==
  ASSUME NEW S, NEW s \in Seq(S), NEW t \in Seq(S)
  PROVE  /\ s \o t \in Seq(S) /\ Len(s \o t) = Len(s) + Len(t)
         /\ \A i \in 1 .. Len(s) : (s \o t)[i] = s[i]
         /\ \A i \in Len(s) + 1 .. Len(s) + Len(t) :
              (s \o t)[i] = t[i - Len(s)]
OBVIOUS

(* A line of at most one item, and a newline that was stepped over. *)
LEMMA ShortLines ==
  /\ TokensOf(<<>>) = <<>>
  /\ TokensOf(<<Newline>>) = <<>>
  /\ \A item \in Seq(Token) :
       TokensOf(<<item>>) = item /\ TokensOf(<<Newline, item>>) = item
<1>1. TokensOf(<<>>) = <<>>
  <2> DEFINE seqs == [i \in DOMAIN <<>> |-> IF <<>>[i] = Newline THEN <<>>
                                            ELSE <<>>[i]]
  <2>1. seqs = <<>>
    OBVIOUS
  <2>2. FlattenSeq(<<>>) = <<>>
    BY DEF FlattenSeq
  <2> QED BY <2>1, <2>2, Zenon DEF TokensOf
<1>2. ASSUME NEW item, NEW tokens \in Seq(Token),
             tokens = IF item = Newline THEN <<>> ELSE item
      PROVE  TokensOf(<<item>>) = tokens
  <2> DEFINE line == <<item>>
             seqs == [i \in DOMAIN line |-> IF line[i] = Newline THEN <<>>
                                            ELSE line[i]]
             one == <<tokens>>
  <2>1. seqs = one
    BY <1>2
  <2>2. one \in Seq(Seq(Token)) /\ Len(one) = 1 /\ one[1] = tokens
    OBVIOUS
  <2>3. FlattenSeq(one) = tokens
    <3> HIDE DEF one
    <3>0. Len(one) # 0
      BY <2>2
    <3>1. PICK g : IsFlattening(one, g) /\ FlattenSeq(one) = g[Len(one)]
      BY ONLY <2>2, <3>0, FlattenIsFlattening
    <3>2. g[1] = one[1]
      BY <2>2, <3>1 DEF IsFlattening, FlattenStep
    <3> QED BY <2>2, <3>1, <3>2
  <2> HIDE DEF one
  <2> QED BY <2>1, <2>3 DEF TokensOf
<1>3. Newline \notin Seq(Token) /\ <<>> \in Seq(Token)
  BY AssemblerAssumption
<1>4. TokensOf(<<Newline>>) = <<>>
  BY <1>2, <1>3
<1>5. ASSUME NEW item \in Seq(Token)
      PROVE  TokensOf(<<item>>) = item /\ TokensOf(<<Newline, item>>) = item
  <2>1. item # Newline
    BY <1>3
  <2>2. TokensOf(<<item>>) = item
    BY <1>2, <2>1
  <2> DEFINE line == <<Newline, item>>
             seqs == [i \in DOMAIN line |-> IF line[i] = Newline THEN <<>>
                                            ELSE line[i]]
             two == <<<<>>, item>>
  <2>3. seqs = two
    BY <2>1
  <2>4. /\ two \in Seq(Seq(Token)) /\ Len(two) = 2
        /\ two[1] = <<>> /\ two[2] = item
    BY <1>3
  <2>5. FlattenSeq(two) = item
    <3> HIDE DEF two
    <3>0. Len(two) # 0
      BY <2>4
    <3>1. PICK g : IsFlattening(two, g) /\ FlattenSeq(two) = g[Len(two)]
      BY ONLY <2>4, <3>0, FlattenIsFlattening
    <3>2. g[1] = two[1] /\ g[2] = g[1] \o two[2]
      BY <2>4, <3>1 DEF IsFlattening, FlattenStep
    <3>3. \A t \in Seq(Token) : <<>> \o t = t
      OBVIOUS
    <3> QED BY <2>4, <3>1, <3>2, <3>3
  <2> HIDE DEF two
  <2> QED BY <2>2, <2>3, <2>5 DEF TokensOf
<1> QED BY <1>1, <1>4, <1>5

(* What splitLines and the parser see between two newlines. *)
LEMMA LineKept ==
  ASSUME text \in Text, text # <<>>,
         \A i \in 2 .. Len(text) : Newline \in {text[i - 1], text[i]},
         NEW h, Kept(text, h, Seq(Token) \cup {Newline}),
         NEW a \in Nat, NEW b \in LineEnds, a < b,
         \A e \in LineEnds : ~(a < e /\ e < b),
         NEW tokens, tokens = TokensOf(SubSeq(text, a + 1, b - 1))
  PROVE  /\ tokens \in Seq(Token)
         /\ h[IF b <= Len(text) THEN b ELSE Len(text)]
              = IF tokens = <<>> THEN h[a] ELSE h[a] \o <<tokens>>
<1> DEFINE l == Len(text)
           H(e) == h[IF e <= l THEN e ELSE l]
           line == SubSeq(text, a + 1, b - 1)
<1>1. /\ l \in Nat \ {0} /\ DOMAIN text = 1 .. l
      /\ \A i \in 1 .. l : text[i] \in Seq(Token) \cup {Newline}
  BY DEF Text
<1>2. b \in 1 .. l + 1 /\ b \in Nat
      /\ \A e \in 1 .. l + 1 : e \in LineEnds <=>
           e \in Terminators \/ (e = l + 1 /\ l \notin Terminators)
  BY <1>1 DEF LineEnds, RunsPastEnd, Terminators
<1>3. /\ h[0] = <<>>
      /\ \A i \in 1 .. l :
           h[i] = IF text[i] \in {<<>>, Newline} THEN h[i - 1]
                  ELSE h[i - 1] \o <<text[i]>>
  BY DEF Kept
<1>4. ASSUME NEW i \in 1 .. l, a < i, i < b
      PROVE  i \notin Terminators /\ (text[i] = Newline => i = a + 1)
  <2>1. i \notin Terminators
    BY <1>1, <1>2, <1>4
  <2> SUFFICES ASSUME text[i] = Newline, i # a + 1 PROVE FALSE
    BY <2>1
  <2>2. i - 1 \in Terminators
    BY <2>1, TerminatorFacts
  <2>3. i - 1 \in Nat /\ a < i - 1 /\ i - 1 < b
    BY <1>1, <1>2, <1>4
  <2>4. i - 1 \in LineEnds
    BY <2>2 DEF LineEnds
  <2> QED BY <2>3, <2>4
(* The end of the line adds nothing. *)
<1>5. H(b) = h[b - 1]
  <2>1. CASE b <= l
    <3>1. b \in 1 .. l /\ b # l + 1
      BY <1>1, <1>2, <2>1
    <3>2. b \in Terminators
      BY <1>2, <3>1
    <3>3. text[b] = Newline
      BY <3>1, <3>2, TerminatorFacts
    <3>4. h[b] = h[b - 1]
      BY <1>3, <3>1, <3>3
    <3> QED BY <2>1, <3>4
  <2>2. CASE ~(b <= l)
    <3>1. b - 1 = l
      BY <1>1, <1>2, <2>2
    <3> QED BY <2>2, <3>1
  <2> QED BY <2>1, <2>2
<1>6. CASE b = a + 1
  <2>1. line = <<>> /\ b - 1 = a
    BY <1>1, <1>2, <1>6
  <2>2. tokens = <<>>
    BY <2>1, ShortLines
  <2>3. <<>> \in Seq(Token)
    OBVIOUS
  <2> HIDE DEF line
  <2> QED BY <1>5, <2>1, <2>2, <2>3
<1>7. CASE b = a + 2
  <2> DEFINE item == text[a + 1]
  <2>1. a + 1 \in 1 .. l /\ b - 1 = a + 1 /\ (a + 1) - 1 = a
    BY <1>1, <1>2, <1>7
  <2>2. line = <<item>>
    <3>1. line = SubSeq(text, a + 1, a + 1)
      BY <2>1
    <3> QED BY <2>1, <3>1, OneItem DEF Text
  <2>3. H(b) = IF item \in {<<>>, Newline} THEN h[a] ELSE h[a] \o <<item>>
    BY <1>3, <1>5, <2>1
  <2>4. item \in Seq(Token) \cup {Newline}
    BY <1>1, <2>1
  <2> HIDE DEF item, line, H
  <2>5. CASE item = Newline
    <3>1. line = <<Newline>>
      BY <2>2, <2>5
    <3>2. tokens = <<>>
      BY <3>1, ShortLines DEF line
    <3>3. <<>> \in Seq(Token)
      OBVIOUS
    <3> QED BY <2>3, <2>5, <3>2, <3>3 DEF H
  <2>6. CASE item # Newline
    <3>1. item \in Seq(Token)
      BY <2>4, <2>6
    <3>2. tokens = item
      BY <2>2, <3>1, ShortLines DEF line
    <3> QED BY <2>3, <2>6, <3>1, <3>2 DEF H
  <2> QED BY <2>5, <2>6
<1>8. CASE b = a + 3
  <2> DEFINE item == text[a + 2]
  <2>1. /\ a + 1 \in 1 .. l /\ a + 2 \in 1 .. l /\ a + 2 \in 2 .. l
        /\ b - 1 = a + 2 /\ (a + 2) - 1 = a + 1 /\ (a + 1) - 1 = a
        /\ a < a + 2 /\ a + 2 < b /\ a + 2 # a + 1
    BY <1>1, <1>2, <1>8
  <2>2. item # Newline
    BY <1>4, <2>1
  <2>3. text[a + 1] = Newline
    BY <2>1, <2>2
  <2>4. item \in Seq(Token)
    BY <1>1, <2>1, <2>2
  <2>5. line = <<Newline, item>>
    <3>1. line = SubSeq(text, a + 1, a + 2)
      BY <2>1
    <3> DEFINE two == SubSeq(text, a + 1, a + 2)
    <3>2. /\ two \in Seq(Seq(Token) \cup {Newline}) /\ Len(two) = 2
          /\ two[1] = text[a + 1] /\ two[2] = text[a + 2]
      BY <2>1 DEF Text
    <3>3. two = <<two[1], two[2]>>
      <4> HIDE DEF two
      <4> QED BY <3>2, TwoItems
    <3> HIDE DEF two, line
    <3> QED BY <2>3, <3>1, <3>2, <3>3 DEF two
  <2>6. H(b) = IF item \in {<<>>, Newline} THEN h[a] ELSE h[a] \o <<item>>
    <3>1. h[a + 1] = h[a]
      BY <1>3, <2>1, <2>3
    <3> QED BY <1>3, <1>5, <2>1, <3>1
  <2> HIDE DEF item, line, H
  <2>7. tokens = item
    BY <2>4, <2>5, ShortLines DEF line
  <2> QED BY <2>2, <2>4, <2>6, <2>7 DEF H
<1>9. CASE b > a + 3
  <2>1. /\ a + 2 \in 1 .. l /\ a + 3 \in 1 .. l /\ a + 3 \in 2 .. l
        /\ a < a + 2 /\ a + 2 < b /\ a < a + 3 /\ a + 3 < b
        /\ (a + 3) - 1 = a + 2 /\ a + 2 # a + 1 /\ a + 3 # a + 1
    <3>1. l \in Nat /\ a \in Nat /\ b \in Nat /\ b <= l + 1
      BY <1>1, <1>2
    <3> HIDE DEF l
    <3> QED BY <1>9, <3>1
  <2>2. text[a + 2] # Newline /\ text[a + 3] # Newline
    BY <1>4, <2>1
  <2>3. Newline \in {text[(a + 3) - 1], text[a + 3]}
    BY <2>1
  <2> QED BY <2>1, <2>2, <2>3
<1>10. b = a + 1 \/ b = a + 2 \/ b = a + 3 \/ b > a + 3
  BY <1>2
<1> QED BY <1>6, <1>7, <1>8, <1>9, <1>10

(* All the lines together, and as many blanks as there may be behind them. *)
AllLines == SplitLines \o LinesBehind

LEMMA AllLinesFacts ==
  ASSUME text \in Text
  PROVE  LET n == Cardinality(LineEnds)
         IN  /\ AllLines \in Seq(Text) /\ n \in Nat /\ n <= Len(AllLines)
             /\ \A i \in 1 .. n : AllLines[i] =
                  SubSeq(text, LineEnd(i - 1) + 1, LineEnd(i) - 1)
             /\ \A i \in n + 1 .. Len(AllLines) : AllLines[i] = <<>>
<1> DEFINE n == Cardinality(LineEnds)
           m == NumLines - Len(SplitLines)
           front == SplitLines
           back == LinesBehind
<1>1. n \in Nat
  BY LineEndFacts
<1>2. /\ front \in Seq(Text) /\ Len(front) = n
      /\ \A i \in 1 .. n : front[i] =
           SubSeq(text, LineEnd(i - 1) + 1, LineEnd(i) - 1)
  <2>1. front \in Seq(Text)
    BY SplitFacts
  <2>2. /\ DOMAIN front = 1 .. n
        /\ \A i \in 1 .. n : front[i] =
             SubSeq(text, LineEnd(i - 1) + 1, LineEnd(i) - 1)
    BY DEF SplitLines
  <2> HIDE DEF front, n
  <2>3. Len(front) = n
    BY <1>1, <2>1, <2>2
  <2> QED BY <2>1, <2>2, <2>3 DEF n
<1>3. back \in Seq(Text) /\ \A i \in 1 .. Len(back) : back[i] = <<>>
  <2>1. <<>> \in Text
    BY DEF Text
  <2>2. back = [i \in 1 .. m |-> <<>>]
    BY DEF LinesBehind
  <2>3. PICK k \in Nat : 1 .. m = 1 .. k
    <3>1. NumLines \in Int
      <4>1. text \in Text
        OBVIOUS
      <4>2. {i \in DOMAIN text : text[i] = Newline} \in SUBSET (1 .. Len(text))
            /\ Len(text) \in Nat
        BY DEF Text
      <4>3. Cardinality({i \in DOMAIN text : text[i] = Newline}) \in Nat
        BY <4>2, SubsetOfInterval
      <4> QED BY <4>3 DEF NumLines
    <3>2. m \in Int
      BY <1>1, <1>2, <3>1
    <3> HIDE DEF m
    <3>3. CASE m >= 0
      <4>1. m \in Nat
        BY <3>2, <3>3
      <4> QED BY <4>1
    <3>4. CASE m < 0
      <4>1. 1 .. m = 1 .. 0
        BY <3>2, <3>4
      <4> QED BY <4>1
    <3> QED BY <3>2, <3>3, <3>4
  <2> HIDE DEF m, back
  <2>4. back = [i \in 1 .. k |-> <<>>]
    BY <2>2, <2>3
  <2>5. back \in Seq(Text) /\ Len(back) = k
    BY <2>1, <2>4, SeqDef
  <2> QED BY <2>4, <2>5
<1> HIDE DEF n, front, back
<1>4. /\ front \o back \in Seq(Text) /\ Len(front \o back) = n + Len(back)
      /\ Len(back) \in Nat
      /\ \A i \in 1 .. n : (front \o back)[i] = front[i]
      /\ \A i \in n + 1 .. n + Len(back) : (front \o back)[i] = back[i - n]
  <2>1. Len(back) \in Nat
    BY <1>3
  <2> QED BY ONLY <1>2, <1>3, <2>1, ConcatFacts
<1>5. \A i \in n + 1 .. n + Len(back) : i - n \in 1 .. Len(back)
  BY <1>1, <1>4
<1>6. n <= n + Len(back)
  BY <1>1, <1>4
<1> QED BY <1>1, <1>2, <1>3, <1>4, <1>5, <1>6 DEF AllLines, n, front, back

LEMMA NoLineLost ==
  ASSUME text \in Text, text # <<>>,
         \A i \in 2 .. Len(text) : Newline \in {text[i - 1], text[i]}
  PROVE  NotBlank([i \in DOMAIN AllLines |-> TokensOf(AllLines[i])])
           = NotBlank(text)
<1> DEFINE l == Len(text)
           n == Cardinality(LineEnds)
           total == Len(AllLines)
           all == [i \in DOMAIN AllLines |-> TokensOf(AllLines[i])]
           At(e) == IF e <= l THEN e ELSE l
<1>1. l \in Nat \ {0}
  BY DEF Text
<1>2. /\ n \in Nat /\ LineEnd(0) = 0
      /\ \A i \in 1 .. n :
           /\ LineEnd(i) \in LineEnds /\ LineEnd(i - 1) \in Nat
           /\ LineEnd(i - 1) < LineEnd(i)
           /\ \A e \in LineEnds : ~(LineEnd(i - 1) < e /\ e < LineEnd(i))
      /\ \A e \in LineEnds : e <= LineEnd(n)
  BY LineEndFacts
<1>3. /\ AllLines \in Seq(Text) /\ DOMAIN AllLines = 1 .. total
      /\ total \in Nat /\ n <= total
      /\ \A i \in 1 .. n : AllLines[i] =
           SubSeq(text, LineEnd(i - 1) + 1, LineEnd(i) - 1)
      /\ \A i \in n + 1 .. total : AllLines[i] = <<>>
  BY AllLinesFacts
<1> HIDE DEF total
<1>4. all \in Seq(Seq(Token)) /\ Len(all) = total
      /\ \A i \in 1 .. total : all[i] = TokensOf(AllLines[i])
  <2>1. \A i \in 1 .. total : AllLines[i] \in Text
    BY <1>3 DEF total
  <2>2. \A i \in 1 .. total : TokensOf(AllLines[i]) \in Seq(Token)
    BY <2>1, TokensFacts
  <2>3. all = [i \in 1 .. total |-> all[i]]
        /\ \A i \in 1 .. total : all[i] = TokensOf(AllLines[i])
    BY <1>3
  <2> HIDE DEF all
  <2> QED BY <1>3, <2>2, <2>3, SeqDef
<1>5. PICK h : Kept(text, h, Seq(Token) \cup {Newline})
  BY NotBlankFacts DEF Text
<1> HIDE DEF all, n
<1>6. PICK k : Kept(all, k, Seq(Token))
  BY <1>4, NotBlankFacts
<1>7. /\ NotBlank(text) = h[l] /\ h[0] = <<>>
      /\ NotBlank(all) = k[total] /\ k[0] = <<>>
      /\ \A i \in 1 .. total :
           k[i] = IF all[i] \in {<<>>, Newline} THEN k[i - 1]
                  ELSE k[i - 1] \o <<all[i]>>
  BY <1>4, <1>5, <1>6 DEF Kept
<1> DEFINE Bad == {i \in 0 .. n : k[i] # h[At(LineEnd(i))]}
<1>8. Bad = {}
  <2> SUFFICES ASSUME Bad # {} PROVE FALSE
    OBVIOUS
  <2>1. Bad \in SUBSET Nat
    OBVIOUS
  <2>2. PICK m \in Bad : \A i \in Bad : m <= i
    <3> HIDE DEF Bad
    <3> QED BY <2>1, LeastExists
  <2>3. m \in 0 .. n /\ k[m] # h[At(LineEnd(m))]
    OBVIOUS
  <2>4. m # 0
    BY <1>1, <1>2, <1>7, <2>3
  <2>5. m \in 1 .. n /\ m - 1 \in 0 .. n /\ ~(m <= m - 1)
        /\ m \in 1 .. total
    BY <1>2, <1>3, <2>3, <2>4
  <2> DEFINE a == LineEnd(m - 1)
             b == LineEnd(m)
  <2>6. k[m - 1] = h[At(a)]
    BY <2>2, <2>5
  <2> HIDE DEF Bad
  <2>7. /\ a \in Nat /\ b \in LineEnds /\ a < b
        /\ \A e \in LineEnds : ~(a < e /\ e < b)
    BY <1>2, <2>5
  <2>8. all[m] = TokensOf(SubSeq(text, a + 1, b - 1))
    BY <1>3, <1>4, <2>5
  <2> HIDE DEF a, b
  <2>9. /\ all[m] \in Seq(Token)
        /\ h[At(b)] = IF all[m] = <<>> THEN h[a] ELSE h[a] \o <<all[m]>>
    BY <1>5, <2>7, <2>8, LineKept
  <2>10. At(a) = a
    <3>1. b <= l + 1 /\ b \in Nat
      BY <1>1, <2>7 DEF LineEnds, Terminators, Text
    <3> QED BY <1>1, <2>7, <3>1
  <2>11. all[m] # Newline
    BY <2>9, AssemblerAssumption
  <2>12. k[m] = h[At(b)]
    <3> HIDE DEF At
    <3> QED BY <1>7, <2>5, <2>6, <2>9, <2>10, <2>11
  <2> QED BY <2>3, <2>12 DEF b
<1>9. At(LineEnd(n)) = l
  <2>1. \E e \in LineEnds : e \in {l, l + 1}
    <3>1. CASE RunsPastEnd
      BY <3>1 DEF LineEnds, RunsPastEnd
    <3>2. CASE ~RunsPastEnd
      BY <3>2 DEF LineEnds
    <3> QED BY <3>1, <3>2
  <2>2. n # 0 => LineEnd(n) \in LineEnds
    BY <1>2
  <2>3. LineEnds \subseteq 1 .. l + 1
    BY <1>1 DEF LineEnds, Terminators, Text
  <2>4. l <= LineEnd(n) /\ LineEnd(n) \in Nat
    <3>1. \A e \in LineEnds : e \in Nat
      BY <2>3
    <3>2. LineEnd(n) \in Nat
      BY <1>2, <2>2, <3>1
    <3> QED BY <1>1, <1>2, <2>1, <3>1, <3>2
  <2> QED BY <1>1, <2>4
<1>10. n \in 0 .. n
  BY <1>2
<1>11. k[n] = h[l]
  BY <1>8, <1>9, <1>10
(* The blanks add nothing. *)
<1> DEFINE Worse == {i \in n .. total : k[i] # h[l]}
<1>12. Worse = {}
  <2> SUFFICES ASSUME Worse # {} PROVE FALSE
    OBVIOUS
  <2>1. Worse \in SUBSET Nat
    BY <1>2, <1>3
  <2>2. PICK m \in Worse : \A i \in Worse : m <= i
    <3> HIDE DEF Worse
    <3> QED BY <2>1, LeastExists
  <2>3. m \in n .. total /\ k[m] # h[l]
    OBVIOUS
  <2>4. m # n
    BY <1>11, <2>3
  <2>5. /\ m \in n + 1 .. total /\ m - 1 \in n .. total /\ m \in 1 .. total
        /\ ~(m <= m - 1)
    BY <1>2, <1>3, <2>3, <2>4
  <2>6. k[m - 1] = h[l]
    BY <2>2, <2>5
  <2>7. all[m] = <<>>
    BY <1>3, <1>4, <2>5, ShortLines
  <2>8. k[m] = k[m - 1]
    BY <1>7, <2>5, <2>7
  <2> QED BY <2>3, <2>6, <2>8
<1>13. total \in n .. total
  BY <1>2, <1>3
<1>14. k[total] = h[l]
  BY <1>12, <1>13
<1> QED BY <1>7, <1>14 DEF all

-----------------------------------------------------------------------------
(* What a load makes of a file.  g[i] is the set of tables after i symbols. *)

TablesStep(file0, position, symtab0, i, g) ==
  IF i = 0 THEN {[symtab0 EXCEPT !.status = "ok"]}
  ELSE UNION {TablesRead(t, file0, position + i - 1) : t \in g[i - 1]}

AreTables(file0, position, n, symtab0, g) ==
  g = [i \in 0 .. n |-> TablesStep(file0, position, symtab0, i, g)]

(* The sets of tables are well-defined, by the least number for which they
   are not. *)
LEMMA TablesExist ==
  ASSUME NEW file0, NEW position, NEW symtab0, NEW n \in Nat
  PROVE  \E g : AreTables(file0, position, n, symtab0, g)
<1> DEFINE Step(i, g) == TablesStep(file0, position, symtab0, i, g)
           Bad == {k \in Nat : ~\E g : g = [i \in 0 .. k |-> Step(i, g)]}
<1>1. Bad = {}
  <2> SUFFICES ASSUME Bad # {} PROVE FALSE
    OBVIOUS
  <2>1. Bad \in SUBSET Nat
    OBVIOUS
  <2>2. PICK m \in Bad : \A k \in Bad : m <= k
    <3> HIDE DEF Bad
    <3> QED BY <2>1, LeastExists
  <2>3. m \in Nat
    OBVIOUS
  <2>4. CASE m = 0
    <3> DEFINE g == [i \in 0 .. 0 |-> {[symtab0 EXCEPT !.status = "ok"]}]
    <3>1. \A i \in 0 .. 0 : g[i] = Step(i, g)
      BY DEF TablesStep
    <3>2. g = [i \in 0 .. 0 |-> Step(i, g)]
      BY <3>1
    <3> HIDE DEF g, Step
    <3> QED BY <2>2, <2>4, <3>2
  <2>5. CASE m # 0
    <3>1. m - 1 \in Nat /\ ~(m <= m - 1)
      BY <2>3, <2>5
    <3>2. PICK h : h = [i \in 0 .. m - 1 |-> Step(i, h)]
      <4> HIDE DEF Step
      <4> QED BY <2>2, <3>1
    <3> DEFINE g == [i \in 0 .. m |->
                      IF i = m THEN Step(m, h) ELSE h[i]]
    <3>3. ASSUME NEW i \in 0 .. m
          PROVE  g[i] = Step(i, g)
      <4>1. CASE i = m
        <5>1. m - 1 \in 0 .. m /\ m - 1 # m
          BY <2>3, <3>1
        <5>2. g[m - 1] = h[m - 1]
          BY <5>1
        <5>3. Step(m, g) = Step(m, h)
          <6> HIDE DEF g
          <6> QED BY <2>5, <5>2 DEF TablesStep
        <5>4. g[m] = Step(m, h)
          <6> HIDE DEF Step
          <6> QED BY <2>3
        <5> QED BY <4>1, <5>3, <5>4
      <4>2. CASE i # m
        <5>1. i \in 0 .. m - 1
          BY <2>3, <4>2
        <5>2. g[i] = h[i] /\ h[i] = Step(i, h)
          <6> HIDE DEF Step
          <6> QED BY <3>2, <4>2, <5>1
        <5>3. i # 0 => i - 1 \in 0 .. m /\ i - 1 # m
          BY <2>3, <5>1
        <5>4. i # 0 => g[i - 1] = h[i - 1]
          <6> HIDE DEF Step
          <6> QED BY <5>3
        <5>5. Step(i, g) = Step(i, h)
          <6> HIDE DEF g
          <6> QED BY <5>4 DEF TablesStep
        <5> QED BY <5>2, <5>5
      <4> QED BY <4>1, <4>2
    <3>4. g = [i \in 0 .. m |-> Step(i, g)]
      <4> HIDE DEF Step
      <4>1. g = [i \in 0 .. m |-> g[i]]
        OBVIOUS
      <4> HIDE DEF g
      <4> QED BY <3>3, <4>1
    <3> HIDE DEF g, Step
    <3> QED BY <2>2, <3>4
  <2> QED BY <2>4, <2>5
<1> HIDE DEF Step
<1>2. \E g : g = [i \in 0 .. n |-> Step(i, g)]
  BY <1>1
<1> QED BY <1>2 DEF AreTables, Step

LeadTo(file0, position, n, symtab0, g) ==
  /\ TablesAfter(file0, position, n, symtab0) = g[n]
  /\ g[0] = {[symtab0 EXCEPT !.status = "ok"]}
  /\ \A i \in 1 .. n :
       g[i] = UNION {TablesRead(t, file0, position + i - 1) : t \in g[i - 1]}

LEMMA TablesAfterFacts ==
  ASSUME NEW file0, NEW position, NEW symtab0, NEW n \in Nat
  PROVE  \E g : LeadTo(file0, position, n, symtab0, g)
<1> DEFINE g == CHOOSE h : AreTables(file0, position, n, symtab0, h)
<1>1. AreTables(file0, position, n, symtab0, g)
  BY TablesExist
<1>2. TablesAfter(file0, position, n, symtab0) = g[n]
  BY Zenon DEF TablesAfter, AreTables, TablesStep
<1> HIDE DEF g
<1>3. \A i \in 0 .. n : g[i] = TablesStep(file0, position, symtab0, i, g)
  BY <1>1 DEF AreTables
<1>4. g[0] = {[symtab0 EXCEPT !.status = "ok"]}
  <2>1. 0 \in 0 .. n
    OBVIOUS
  <2> QED BY <1>3, <2>1, Zenon DEF TablesStep
<1>5. \A i \in 1 .. n :
        g[i] = UNION {TablesRead(t, file0, position + i - 1) : t \in g[i - 1]}
  <2>1. \A i \in 1 .. n : i \in 0 .. n /\ i # 0
    OBVIOUS
  <2> QED BY <1>3, <2>1, Zenon DEF TablesStep
<1>6. LeadTo(file0, position, n, symtab0, g)
  BY <1>2, <1>4, <1>5 DEF LeadTo
<1> QED BY <1>6

ReadStops(t, file0, position) ==
  t.status # "ok" \/ ReadIsShort(file0, position, 1)

LEMMA OneRead ==
  ASSUME NEW file0, NEW position, NEW t,
         NEW u \in TablesRead(t, file0, position)
  PROVE  IF ReadStops(t, file0, position) THEN u = t
         ELSE \E s \in SymbolsReadAs(file0[position + 1]) : \E mem :
                u = AddSymbol(t, s.name, s.address, mem)
<1> DEFINE Mems == {{}, Allocations \ {"name"}, Allocations}
           Read == SymbolsReadAs(file0[position + 1])
           Table(s, mem) == AddSymbol(t, s.name, s.address, mem)
           stops == ReadStops(t, file0, position)
<1>1. u \in IF stops THEN {t} ELSE {Table(s, mem) : s \in Read, mem \in Mems}
  BY DEF TablesRead, ReadStops
<1> HIDE DEF Mems, Read, Table, stops
<1>2. CASE stops
  BY <1>1, <1>2 DEF stops
<1>3. CASE ~stops
  <2>1. \E s \in Read : \E mem \in Mems : u = Table(s, mem)
    BY <1>1, <1>3
  <2> QED BY <1>3, <2>1, Zenon DEF Read, Table, stops
<1> QED BY <1>2, <1>3

(* Every cell reads as symbols with a name and an address, and the table
   stays sound whatever is read. *)
LEMMA TablesReadFacts ==
  ASSUME NEW file0 \in Seq(Cell), NEW position \in Nat, NEW t, TwoIndexes(t),
         NEW u \in TablesRead(t, file0, position)
  PROVE  TwoIndexes(u)
<1>1. CASE u = t
  BY <1>1
<1>2. CASE u # t
  <2>1. /\ ~ReadStops(t, file0, position)
        /\ \E s \in SymbolsReadAs(file0[position + 1]) : \E mem :
             u = AddSymbol(t, s.name, s.address, mem)
    BY <1>2, OneRead
  <2>2. ~(position + 1 > Len(file0))
    BY <2>1 DEF ReadIsShort, ReadStops
  <2>3. file0[position + 1] \in Cell
    BY <2>2
  <2>4. \A s \in SymbolsReadAs(file0[position + 1]) :
          s.name \in Name /\ s.address \in Nat
    BY <2>3 DEF SymbolsReadAs, Cell, Symbol
  <2> QED BY <2>1, <2>4, AddFacts
<1> QED BY <1>1, <1>2

(* So do the tables after any number of symbols. *)
LEMMA TablesAreSound ==
  ASSUME NEW file0 \in Seq(Cell), NEW position \in Nat, NEW n \in Nat,
         NEW symtab0, TwoIndexes(symtab0),
         NEW t \in TablesAfter(file0, position, n, symtab0)
  PROVE  TwoIndexes(t)
<1>0. PICK g : LeadTo(file0, position, n, symtab0, g)
  BY TablesAfterFacts
<1>1. /\ TablesAfter(file0, position, n, symtab0) = g[n]
      /\ g[0] = {[symtab0 EXCEPT !.status = "ok"]}
      /\ \A i \in 1 .. n :
           g[i] = UNION {TablesRead(u, file0, position + i - 1) :
                           u \in g[i - 1]}
  BY <1>0 DEF LeadTo
<1> DEFINE Bad == {i \in 0 .. n : \E u \in g[i] : ~TwoIndexes(u)}
<1>2. Bad = {}
  <2> SUFFICES ASSUME Bad # {} PROVE FALSE
    OBVIOUS
  <2>1. Bad \in SUBSET Nat
    OBVIOUS
  <2>2. PICK m \in Bad : \A i \in Bad : m <= i
    <3> HIDE DEF Bad
    <3> QED BY <2>1, LeastExists
  <2>3. PICK u \in g[m] : ~TwoIndexes(u)
    OBVIOUS
  <2>4. m # 0
    <3>1. TwoIndexes(TableFailed(symtab0, "ok"))
      BY FailedKeepsTwoIndexes
    <3> QED BY <1>1, <2>3, <3>1 DEF TableFailed
  <2>5. m \in 1 .. n /\ m - 1 \in 0 .. n /\ ~(m <= m - 1)
        /\ position + m - 1 \in Nat
    BY <2>4
  <2>6. PICK v \in g[m - 1] : u \in TablesRead(v, file0, position + m - 1)
    BY <1>1, <2>3, <2>5
  <2>7. TwoIndexes(v)
    BY <2>2, <2>5, <2>6
  <2> QED BY <2>3, <2>5, <2>6, <2>7, TablesReadFacts
<1> QED BY <1>1, <1>2

LEMMA AlignedIsNotLess ==
  ASSUME NEW size \in Nat
  PROVE  AlignTo8(size) \in Nat /\ size <= AlignTo8(size)
BY DEF AlignTo8

(* A load that succeeds has all of the program, and the start of the header. *)
IsWhole(file0, memory, l) ==
  /\ file0 # <<>> /\ file0[1].kind = "header"
  /\ file0[1].size <= memory /\ 1 + file0[1].size <= Len(file0)
  /\ l.program = SubSeq(file0, 2, 1 + file0[1].size)
  /\ l.start = file0[1].start

(* It leaves the symbols as they were, or as they are after all were read. *)
HasRead(file0, symtab0, l) ==
  \/ l.symtab = symtab0
  \/ /\ file0 # <<>> /\ file0[1].kind = "header"
     /\ l.symtab \in TablesAfter(file0, 1 + file0[1].size,
                                 file0[1].numSymbols, symtab0)

(* It has all of them when it wanted them and succeeded. *)
HasReadAll(file0, symtab0, l) ==
  /\ l.symtab.status = "ok"
  /\ l.symtab \in TablesAfter(file0, 1 + file0[1].size,
                              file0[1].numSymbols, symtab0)

(* A read of the program that is not short has all of it. *)
LEMMA CellsFacts ==
  ASSUME NEW file0 \in Seq(Cell), NEW n \in Nat, Len(file0) >= 1
  PROVE  /\ Cells(file0, 1, n) \in Seq(Cell)
         /\ ~ReadIsShort(file0, 1, n) =>
              /\ 1 + n <= Len(file0)
              /\ Cells(file0, 1, n) = SubSeq(file0, 2, 1 + n)
<1> DEFINE S == {1 + n, Len(file0)}
           last == Min(S)
<1>1. S \in SUBSET Nat /\ S # {}
  OBVIOUS
<1>2. last \in S /\ \A x \in S : last <= x
  <2> HIDE DEF S
  <2> QED BY <1>1, MinIsLeast
<1>3. Cells(file0, 1, n) = SubSeq(file0, 2, last)
  BY DEF Cells
<1> HIDE DEF last
<1>4. last \in Nat /\ last <= Len(file0)
  BY <1>2
<1>5. SubSeq(file0, 2, last) \in Seq(Cell)
  BY <1>4
<1>6. ASSUME ~ReadIsShort(file0, 1, n)
      PROVE  1 + n <= Len(file0) /\ last = 1 + n
  BY <1>2, <1>6 DEF ReadIsShort
<1> QED BY <1>3, <1>5, <1>6

(* What comes of a load of any file into any sound table. *)
LEMMA LoadFacts ==
  ASSUME NEW file0 \in Seq(Cell), NEW memory \in Nat, NEW symtab0,
         TwoIndexes(symtab0), NEW wantSymbols \in BOOLEAN,
         NEW l \in ImageLoads(file0, memory, symtab0, wantSymbols)
  PROVE  /\ l.result \in ImageResults /\ l.program \in Seq(Cell)
         /\ l.start \in Nat /\ TwoIndexes(l.symtab)
         /\ l.result = "ok" => IsWhole(file0, memory, l)
         /\ HasRead(file0, symtab0, l)
         /\ l.result = "ok" /\ wantSymbols => HasReadAll(file0, symtab0, l)
<1> DEFINE header == file0[1]
           program == Cells(file0, 1, header.size)
           Good == /\ l.result \in ImageResults /\ l.program \in Seq(Cell)
                   /\ l.start \in Nat /\ TwoIndexes(l.symtab)
                   /\ l.result = "ok" => IsWhole(file0, memory, l)
                   /\ HasRead(file0, symtab0, l)
                   /\ l.result = "ok" /\ wantSymbols =>
                        HasReadAll(file0, symtab0, l)
<1>0. <<>> \in Seq(Cell)
  OBVIOUS
<1>1. ASSUME NEW result \in ImageResults \ {"ok"},
             l = Loaded(result, <<>>, symtab0, 0)
      PROVE  Good
  BY <1>0, <1>1 DEF Loaded, HasRead
<1>2. CASE ReadIsShort(file0, 0, 1)
  <2>1. l = Loaded("ioError", <<>>, symtab0, 0)
    BY <1>2, Zenon DEF ImageLoads
  <2> QED BY <1>1, <2>1 DEF ImageResults
<1>3. CASE ~ReadIsShort(file0, 0, 1) /\ header.kind # "header"
  <2>1. l = Loaded("formatError", <<>>, symtab0, 0)
    BY <1>3, Zenon DEF ImageLoads
  <2> QED BY <1>1, <2>1 DEF ImageResults
<1>4. CASE /\ ~ReadIsShort(file0, 0, 1) /\ header.kind = "header"
           /\ AlignTo8(header.size) > memory
  <2>1. l = Loaded("outOfMemory", <<>>, symtab0, 0)
    BY <1>4, Zenon DEF ImageLoads
  <2> QED BY <1>1, <2>1 DEF ImageResults
<1>5. CASE /\ ~ReadIsShort(file0, 0, 1) /\ header.kind = "header"
           /\ ~(AlignTo8(header.size) > memory)
  <2>1. Len(file0) \in Nat /\ Len(file0) >= 1
    BY <1>5 DEF ReadIsShort
  <2>2. header \in Cell /\ file0 # <<>>
    BY <2>1
  <2>3. header.size \in Nat /\ header.numSymbols \in Nat
        /\ header.start \in Nat
    BY <1>5, <2>2 DEF Cell
  <2>4. header.size <= memory
    <3>1. AlignTo8(header.size) \in Nat /\ header.size <= AlignTo8(header.size)
      BY <2>3, AlignedIsNotLess
    <3> QED BY <1>5, <2>3, <3>1
  <2>5. /\ program \in Seq(Cell)
        /\ ~ReadIsShort(file0, 1, header.size) =>
             /\ 1 + header.size <= Len(file0)
             /\ program = SubSeq(file0, 2, 1 + header.size)
    <3> HIDE DEF header
    <3> QED BY <2>1, <2>3, CellsFacts
  <2> HIDE DEF program
  <2>6. CASE ReadIsShort(file0, 1, header.size)
    <3>1. l = Loaded("ioError", program, symtab0, 0)
      BY <1>5, <2>6, Zenon DEF ImageLoads, program
    <3> QED BY <2>5, <3>1 DEF Loaded, HasRead, ImageResults
  <2>7. CASE ~ReadIsShort(file0, 1, header.size) /\ ~wantSymbols
    <3>1. l = Loaded("ok", program, symtab0, header.start)
      BY <1>5, <2>7, Zenon DEF ImageLoads, program
    <3> QED BY <1>5, <2>2, <2>3, <2>4, <2>5, <2>7, <3>1
            DEF Loaded, HasRead, ImageResults, IsWhole
  <2>8. CASE ~ReadIsShort(file0, 1, header.size) /\ wantSymbols
    <3>1. l \in SymbolLoads(file0, 1 + header.size, header.numSymbols,
                            program, symtab0, header.start)
      BY <1>5, <2>8, Zenon DEF ImageLoads, program
    <3>2. PICK t \in TablesAfter(file0, 1 + header.size, header.numSymbols,
                                 symtab0),
               result \in ImageResults :
                 /\ l = Loaded(result, program, t, header.start)
                 /\ result = "ok" => t.status = "ok"
      BY <3>1 DEF SymbolLoads, ImageResults
    <3>3. TwoIndexes(t)
      <4>1. 1 + header.size \in Nat
        BY <2>3
      <4> HIDE DEF header
      <4> QED BY <2>3, <4>1, TablesAreSound
    <3> QED BY <1>5, <2>2, <2>3, <2>4, <2>5, <2>8, <3>2, <3>3
            DEF Loaded, HasRead, HasReadAll, IsWhole
  <2> QED BY <2>6, <2>7, <2>8
<1> QED BY <1>2, <1>3, <1>4, <1>5

-----------------------------------------------------------------------------
(***************************************************************************)
(* The types.  They are an invariant because the parser makes lines of the *)
(* type of their syntax, the arrays stay sound, and the two indexes of the *)
(* table match, so that a symbol that is found has an address.             *)
(***************************************************************************)
Phases ==
  {"read", "parse", "generate", "header", "program", "symbols"} \cup Ends

ControlTypes == phase \in Phases /\ next \in Nat /\ status \in {0, -1}

ParserTypes ==
  /\ text \in Text /\ lines \in Seq(Text)
  /\ address \in Nat /\ numErrors \in Nat
  /\ IsArray(asmLines, AssemblyLine, 8)
  /\ TwoIndexes(symtab) /\ symtab.status \in TableStatuses

GeneratorTypes ==
  /\ IsArray(bytecode, 0 .. 255, 1) /\ startAddress \in 0 .. MaxValue
  /\ messageLost \in BOOLEAN

TypeInv == ControlTypes /\ ParserTypes /\ GeneratorTypes

LEMMA CreatedArrayFacts ==
  ASSUME NEW T, NEW w \in Nat, NEW max \in Nat
  PROVE  IsArray(CreatedArray(w, max), T, w)
<1>1. <<>> \in Seq(T) /\ w * 0 = 0 /\ Len(<<>>) = 0
  OBVIOUS
<1> QED BY <1>1 DEF IsArray, CreatedArray, ArraySound, ArraySize, ArrayStatuses

LEMMA InitTypes == Init => TypeInv
<1> USE AssemblerAssumption, AsmSyntaxAssumption
<1> SUFFICES ASSUME Init PROVE TypeInv
  OBVIOUS
<1>1. ControlTypes
  BY DEF Init, ControlTypes, Phases
<1>2. IsArray(CreatedArray(8, MaxLines), AssemblyLine, 8)
      /\ IsArray(CreatedArray(1, MaxProgram), 0 .. 255, 1)
  BY CreatedArrayFacts
<1>3. TwoIndexes(CreatedTable(MaxSymbols))
      /\ CreatedTable(MaxSymbols).status = "ok"
  BY CreatedHasTwoIndexes DEF CreatedTable
<1>4. ParserTypes
  BY <1>2, <1>3 DEF Init, ParserTypes, Text, TableStatuses
<1>5. GeneratorTypes
  <2>1. /\ bytecode = CreatedArray(1, MaxProgram)
        /\ startAddress = 0 /\ messageLost = FALSE
    BY DEF Init
  <2>2. startAddress \in 0 .. MaxValue
    BY <2>1
  <2>3. messageLost \in BOOLEAN
    BY <2>1, Zenon
  <2> QED BY <1>2, <2>1, <2>2, <2>3, Zenon DEF GeneratorTypes
<1> QED BY <1>1, <1>4, <1>5 DEF TypeInv

(* The control of the assembler stays in its phases. *)
LEMMA ControlStep ==
  ParserTypes /\ ControlTypes /\ [Next]_vars => ControlTypes'
<1> SUFFICES ASSUME ParserTypes, ControlTypes, [Next]_vars PROVE ControlTypes'
  OBVIOUS
<1> USE DEF ControlTypes, Phases, Ends, EndsWith, Crashes
<1>1. CASE ReadFails \/ SourceIsEmpty \/ Split
  BY <1>1 DEF ReadFails, SourceIsEmpty, Split
<1>2. CASE LineInError \/ LineParsed \/ LineNotAllocated \/ AllParsed
  BY <1>2 DEF LineInError, LineParsed, LineNotAllocated, AllParsed
<1>3. CASE GenerateInstruction
  BY <1>3 DEF GenerateInstruction, WriteBytecode, GenerationFails, Generated, Passes
<1>4. CASE HandleDirective \/ SkipLine
  BY <1>4 DEF HandleDirective, SkipLine, GenerationFails, Generated, Passes
<1>5. CASE OpenImage \/ WriteHeader \/ WriteProgram
  BY <1>5 DEF OpenImage, WriteHeader, WriteProgram
<1>6. CASE WriteSymbol \/ SymbolHasNoName \/ WriteFails
  BY <1>6 DEF WriteSymbol, SymbolHasNoName, WriteFails
<1>7. CASE ImageComplete \/ Kill \/ Load
  BY <1>7 DEF ImageComplete, Kill, Load
<1>8. CASE UNCHANGED vars
  BY <1>8 DEF vars
<1> QED BY <1>1, <1>2, <1>3, <1>4, <1>5, <1>6, <1>7, <1>8 DEF Next, Assemble

(* What the parser has is changed by three actions. *)
LEMMA ParserSteps ==
  [Next]_vars => Split \/ LineInError \/ LineParsed
                 \/ UNCHANGED <<text, parser>>
<1> SUFFICES ASSUME [Next]_vars, ~(Split \/ LineInError \/ LineParsed)
             PROVE  UNCHANGED <<text, parser>>
  OBVIOUS
<1>1. CASE ReadFails \/ SourceIsEmpty \/ LineNotAllocated \/ AllParsed
  BY <1>1 DEF ReadFails, SourceIsEmpty, LineNotAllocated, AllParsed
<1>2. CASE GenerateInstruction \/ HandleDirective \/ SkipLine
  BY <1>2 DEF GenerateInstruction, HandleDirective, SkipLine
<1>3. CASE OpenImage \/ WriteHeader \/ WriteProgram \/ WriteSymbol
  BY <1>3 DEF OpenImage, WriteHeader, WriteProgram, WriteSymbol
<1>4. CASE SymbolHasNoName \/ WriteFails \/ ImageComplete \/ Kill \/ Load
  BY <1>4 DEF SymbolHasNoName, WriteFails, ImageComplete, Kill, Load
<1>5. CASE UNCHANGED vars
  BY <1>5 DEF vars
<1> QED BY <1>1, <1>2, <1>3, <1>4, <1>5 DEF Next, Assemble

(* What the generator has, by two. *)
LEMMA GeneratorSteps ==
  [Next]_vars => GenerateInstruction \/ HandleDirective \/ UNCHANGED generator
<1> SUFFICES ASSUME [Next]_vars, ~(GenerateInstruction \/ HandleDirective)
             PROVE  UNCHANGED generator
  OBVIOUS
<1>1. CASE ReadFails \/ SourceIsEmpty \/ LineNotAllocated \/ AllParsed
  BY <1>1 DEF ReadFails, SourceIsEmpty, LineNotAllocated, AllParsed
<1>2. CASE Split \/ LineInError \/ LineParsed \/ SkipLine
  BY <1>2 DEF Split, LineInError, LineParsed, SkipLine
<1>3. CASE OpenImage \/ WriteHeader \/ WriteProgram \/ WriteSymbol
  BY <1>3 DEF OpenImage, WriteHeader, WriteProgram, WriteSymbol
<1>4. CASE SymbolHasNoName \/ WriteFails \/ ImageComplete \/ Kill \/ Load
  BY <1>4 DEF SymbolHasNoName, WriteFails, ImageComplete, Kill, Load
<1>5. CASE UNCHANGED vars
  BY <1>5 DEF vars
<1> QED BY <1>1, <1>2, <1>3, <1>4, <1>5 DEF Next, Assemble

(* The machine, by Load, which changes nothing else. *)
LEMMA LoaderSteps ==
  [Next]_vars => Load \/ UNCHANGED vm
<1> SUFFICES ASSUME [Next]_vars, ~Load PROVE UNCHANGED vm
  OBVIOUS
<1>1. CASE ReadFails \/ SourceIsEmpty \/ LineNotAllocated \/ AllParsed
  BY <1>1 DEF ReadFails, SourceIsEmpty, LineNotAllocated, AllParsed
<1>2. CASE Split \/ LineInError \/ LineParsed
  BY <1>2 DEF Split, LineInError, LineParsed
<1>3. CASE GenerateInstruction \/ HandleDirective \/ SkipLine
  BY <1>3 DEF GenerateInstruction, HandleDirective, SkipLine
<1>4. CASE OpenImage \/ WriteHeader \/ WriteProgram \/ WriteSymbol
  BY <1>4 DEF OpenImage, WriteHeader, WriteProgram, WriteSymbol
<1>5. CASE \/ SymbolHasNoName \/ WriteFails \/ ImageComplete \/ Kill
           \/ UNCHANGED vars
  BY <1>5 DEF SymbolHasNoName, WriteFails, ImageComplete, Kill, vars
<1> QED BY <1>1, <1>2, <1>3, <1>4, <1>5 DEF Next, Assemble

(* A line that is parsed. *)
LEMMA AssemblyLineFacts ==
  ASSUME ParserTypes, next \in Nat, next < Len(lines),
         NEW asml, asml = AssemblyLineAt(next + 1), asml # AsmError
  PROVE  /\ asml \in AssemblyLine /\ asml.address = address
         /\ asml.line = next + 1
<1>1. lines \in Seq(Text) /\ address \in Nat
  BY DEF ParserTypes
<1>2. next + 1 \in 1 .. Len(lines) /\ next + 1 \in Nat
  BY <1>1
<1>3. TokensOf(lines[next + 1]) \in Seq(Token)
  BY <1>1, <1>2, TokensFacts
<1> QED BY <1>1, <1>2, <1>3, ParsedLine DEF AssemblyLineAt

(* The bytes of a line. *)
LEMMA SizeFacts ==
  ASSUME NEW asml
  PROVE  SizeOf(asml) \in Nat
BY DEF SizeOf, InstructionSize

(* Lines, addresses and symbols keep their types. *)
LEMMA ParserStep ==
  ParserTypes /\ ControlTypes /\ [Next]_vars => ParserTypes'
<1> SUFFICES ASSUME ParserTypes, ControlTypes, [Next]_vars PROVE ParserTypes'
  OBVIOUS
<1>1. CASE Split
  <2>1. lines' \in Seq(Text)
    <3>1. SplitLines \in Seq(Text) /\ AllLines \in Seq(Text)
      BY SplitFacts, AllLinesFacts DEF ParserTypes
    <3>2. lines' \in {SplitLines, AllLines}
      BY <1>1 DEF Split, AllLines
    <3> QED BY <3>1, <3>2
  <2> QED BY <1>1, <2>1 DEF ParserTypes, Split
<1>2. CASE LineInError
  BY <1>2 DEF ParserTypes, LineInError
<1>3. CASE LineParsed
  <2> DEFINE asml == AssemblyLineAt(next + 1)
  <2>1. /\ asml \in AssemblyLine /\ next < Len(lines)
    BY <1>3, AssemblyLineFacts DEF LineParsed, ControlTypes
  <2> HIDE DEF asml
  <2>2. address' \in Nat
    <3>1. SizeOf(asml) \in Nat /\ address \in Nat
          /\ address' = address + SizeOf(asml)
      BY <1>3, SizeFacts DEF LineParsed, ParserTypes, asml
    <3> QED BY <3>1
  <2>3. IsArray(asmLines', AssemblyLine, 8)
    <3>1. PICK mem \in BOOLEAN :
            asmLines' = AppendToArray(asmLines, <<asml>>, mem)
      BY <1>3 DEF LineParsed, asml
    <3>2. <<asml>> \in Seq(AssemblyLine) /\ 8 \in Nat \ {0}
      BY <2>1
    <3>3. IsArray(asmLines, AssemblyLine, 8)
      BY DEF ParserTypes
    <3> QED BY <3>1, <3>2, <3>3, AppendFacts
  <2>4. TwoIndexes(symtab') /\ symtab'.status \in TableStatuses
    <3>1. CASE asml.type # "label"
      BY <1>3, <3>1 DEF LineParsed, ParserTypes, asml
    <3>2. CASE asml.type = "label"
      <4>1. PICK mem :
              symtab' = AddSymbol(symtab, asml.labelName, address, mem)
        BY <1>3, <3>2 DEF LineParsed, AddsLabel, asml
      <4>2. asml.labelName \in Name
        BY <2>1, <3>2 DEF AssemblyLine, Operation
      <4>3. address \in Nat /\ TwoIndexes(symtab)
        BY DEF ParserTypes
      <4>4. Refusal(symtab, asml.labelName, address) \in TableStatuses
        BY DEF Refusal, TableStatuses
      <4> QED BY <4>1, <4>2, <4>3, <4>4, AddFacts DEF TableStatuses
    <3> QED BY <3>1, <3>2
  <2>5. numErrors' \in Nat
    BY <1>3 DEF LineParsed, ParserTypes
  <2> QED BY <1>3, <2>2, <2>3, <2>4, <2>5 DEF LineParsed, ParserTypes
<1>4. CASE UNCHANGED <<text, parser>>
  BY <1>4 DEF ParserTypes, parser
<1> QED BY <1>1, <1>2, <1>3, <1>4, ParserSteps

(* Every opcode is a byte. *)
LEMMA OpcodeFacts ==
  ASSUME NEW name \in DOMAIN Opcodes
  PROVE  Opcodes[name] \in 0 .. 16
BY DEF Opcodes

(* What an instruction puts into the bytecode. *)
LEMMA InstructionFacts ==
  ASSUME NEW asml \in AssemblyLine, asml.type = "instruction"
  PROVE  /\ <<Opcodes[asml.opcode]>> \in Seq(0 .. 255)
         /\ OperandBytes(asml) \in Seq(0 .. 255)
<1>1. /\ asml.opcode \in DOMAIN Opcodes
      /\ asml.opcode \in TakesByte => asml.operand.value \in 0 .. 255
  BY DEF AssemblyLine, Operation, TakesByte, ByteValue, Opcodes
<1>2. Opcodes[asml.opcode] \in 0 .. 255
  <2>1. Opcodes[asml.opcode] \in 0 .. 16
    BY <1>1, OpcodeFacts, Zenon
  <2> QED BY <2>1
<1>3. OperandBytes(asml) \in Seq(0 .. 255)
  <2>1. CASE asml.opcode \in TakesByte
    <3> DEFINE value == asml.operand.value
    <3>1. value \in 0 .. 255 /\ OperandBytes(asml) = <<value>>
      BY <1>1, <2>1 DEF OperandBytes
    <3> HIDE DEF value
    <3> QED BY <3>1
  <2>2. CASE asml.opcode \notin TakesByte
    BY <2>2 DEF OperandBytes
  <2> QED BY <2>1, <2>2
<1> QED BY <1>2, <1>3

(* An operand that resolves has a 64-bit address. *)
LEMMA ResolvedFacts ==
  ASSUME NEW t, TwoIndexes(t), NEW value \in AddressValue, Resolves(value, t)
  PROVE  Resolved(value, t) \in 0 .. MaxValue
<1> USE AsmSyntaxAssumption
<1>1. CASE value.type = "uint64"
  BY <1>1 DEF AddressValue, Resolved
<1>2. CASE value.type # "uint64"
  <2> DEFINE link == FindSymbol(t, value.name)
             sum == link.address + value.offset
  <2>1. /\ value.name \in Name /\ value.offset \in Int
        /\ link # NoSymbol
    BY <1>2 DEF AddressValue, Resolves
  <2>2. Hashed(t) /\ SymbolsIn(t.list) = Elements(t.chains)
        /\ t.list \in Seq(Entries)
    BY DEF TwoIndexes, SoundTable, SoundList
  <2>3. link \in SymbolsIn(t.list)
    <3> HIDE DEF link
    <3>1. LET S == {x \in Elements(t.chains) : x.name = value.name}
          IN  link \in IF S = {} THEN {NoSymbol} ELSE S
      BY <2>1, <2>2, FindFacts DEF link
    <3> QED BY <2>1, <2>2, <3>1
  <2>4. link.address \in Nat
    <3> HIDE DEF link
    <3>1. PICK i \in 1 .. Len(t.list) : link = t.list[i]
      BY <2>2, <2>3 DEF SymbolsIn
    <3> QED BY <2>2, <3>1, AddressesAreNat
  <2>5. Resolved(value, t) = sum % (MaxValue + 1)
    BY <1>2 DEF Resolved
  <2>6. sum \in Int /\ MaxValue + 1 \in Nat \ {0}
    BY <2>1, <2>4
  <2> HIDE DEF sum
  <2>7. sum % (MaxValue + 1) \in 0 .. (MaxValue + 1) - 1
    BY <2>6
  <2> QED BY <2>5, <2>7
<1> QED BY <1>1, <1>2

(* The bytecode after an instruction: with both parts of it, with the first,
   or as it was. *)
LEMMA BytecodeFacts ==
  ASSUME GeneratorTypes, NEW asml \in AssemblyLine,
         asml.type = "instruction", WriteBytecode(asml)
  PROVE  IsArray(bytecode', 0 .. 255, 1)
<1>1. PICK mem1 \in BOOLEAN, mem2 \in BOOLEAN :
        LET opcode  == AppendToArray(bytecode, <<Opcodes[asml.opcode]>>, mem1)
            operand == AppendToArray(opcode, OperandBytes(asml), mem2)
        IN  bytecode' \in {bytecode, opcode, operand}
  BY DEF WriteBytecode
<1> DEFINE opcode  == AppendToArray(bytecode, <<Opcodes[asml.opcode]>>, mem1)
           operand == AppendToArray(opcode, OperandBytes(asml), mem2)
<1>2. IsArray(bytecode, 0 .. 255, 1) /\ 1 \in Nat \ {0}
  BY DEF GeneratorTypes
<1>3. IsArray(opcode, 0 .. 255, 1)
  BY <1>2, InstructionFacts, AppendFacts
<1> HIDE DEF opcode
<1>4. IsArray(operand, 0 .. 255, 1)
  BY <1>2, <1>3, InstructionFacts, AppendFacts
<1> HIDE DEF operand
<1> QED BY <1>1, <1>2, <1>3, <1>4 DEF opcode, operand

(* The generator meets parsed lines only. *)
LEMMA LineFacts ==
  ASSUME ParserTypes, next \in Nat, next < Len(asmLines.items)
  PROVE  LineAt(next + 1) \in AssemblyLine
<1>1. asmLines.items \in Seq(AssemblyLine)
  BY DEF ParserTypes, IsArray
<1>2. next + 1 \in 1 .. Len(asmLines.items)
  BY <1>1
<1> QED BY <1>1, <1>2 DEF LineAt

(* The bytecode and the start keep their types. *)
LEMMA GeneratorStep ==
  ParserTypes /\ GeneratorTypes /\ ControlTypes /\ [Next]_vars
    => GeneratorTypes'
<1> SUFFICES ASSUME ParserTypes, GeneratorTypes, ControlTypes, [Next]_vars
             PROVE  GeneratorTypes'
  OBVIOUS
<1> DEFINE asml == LineAt(next + 1)
<1>1. CASE GenerateInstruction
  <2>1. asml \in AssemblyLine /\ asml.type = "instruction"
        /\ WriteBytecode(asml) /\ startAddress' = startAddress
        /\ messageLost' \in {messageLost, TRUE}
    BY <1>1, LineFacts DEF GenerateInstruction, ControlTypes, WriteBytecode,
                           GenerationFails, Generated
  <2>2. IsArray(bytecode', 0 .. 255, 1)
    BY <2>1, BytecodeFacts
  <2> QED BY <2>1, <2>2 DEF GeneratorTypes
<1>2. CASE HandleDirective
  <2>1. asml \in AssemblyLine /\ asml.type = "directive"
        /\ bytecode' = bytecode /\ messageLost' \in {messageLost, TRUE}
    BY <1>2, LineFacts DEF HandleDirective, ControlTypes, GenerationFails,
                           Generated
  <2>2. asml.operand \in AddressValue
    BY <2>1 DEF AssemblyLine, Operation
  <2>3. \/ /\ Resolves(asml.operand, symtab)
           /\ startAddress' = Resolved(asml.operand, symtab)
        \/ startAddress' \in {0, startAddress}
    BY <1>2 DEF HandleDirective
  <2>4. startAddress' \in 0 .. MaxValue
    <3>1. 0 \in 0 .. MaxValue
      BY AsmSyntaxAssumption
    <3> QED BY <2>2, <2>3, <3>1, ResolvedFacts DEF ParserTypes, GeneratorTypes
  <2> QED BY <2>1, <2>4 DEF GeneratorTypes
<1>3. CASE UNCHANGED generator
  BY <1>3 DEF GeneratorTypes, generator
<1> QED BY <1>1, <1>2, <1>3, GeneratorSteps

(* The first part of the invariant. *)
LEMMA TypeStep == TypeInv /\ [Next]_vars => TypeInv'
BY ControlStep, ParserStep, GeneratorStep DEF TypeInv

-----------------------------------------------------------------------------
(***************************************************************************)
(* The file.  While the image is written, what was written so far is in    *)
(* place, and in the end all of it is, whatever the file was before.       *)
(***************************************************************************)
HeaderSound ==
  file # <<>> /\ file[1].kind = "header" => file[1].start < file[1].size

StartsInside == startAddress < ArraySize(bytecode)

HasHeader ==
  /\ file # <<>>
  /\ file[1] = HeaderCell(ArraySize(bytecode), Len(symtab.list), startAddress)

HasProgram ==
  /\ 1 + Len(bytecode.items) <= Len(file)
  /\ \A i \in 1 .. Len(bytecode.items) :
       file[1 + i] = ByteCell(bytecode.items[i])

HasSymbols(n) ==
  /\ 1 + Len(bytecode.items) + n <= Len(file)
  /\ \A i \in 1 .. n :
       file[1 + Len(bytecode.items) + i] = SymbolCell(symtab.list[i])

HasImage == HasHeader /\ HasProgram /\ HasSymbols(Len(symtab.list))

FileInv ==
  /\ file \in Seq(Cell) /\ HeaderSound
  /\ phase = "read" => bytecode.items = <<>>
  /\ phase \in {"header", "program", "symbols"} => StartsInside
  /\ phase \in {"header", "program"} => next = 0
  /\ phase \in {"program", "symbols"} => HasHeader
  /\ phase = "symbols" =>
       /\ HasProgram /\ HasSymbols(next) /\ next <= Len(symtab.list)
  /\ IsSaved => StartsInside /\ HasImage

(* A write keeps what lies before it and puts its cells in place. *)
LEMMA WrittenFacts ==
  ASSUME NEW T, NEW old \in Seq(T), NEW position \in 0 .. Len(old),
         NEW cells \in Seq(T), NEW new, new = Written(old, position, cells)
  PROVE  /\ new \in Seq(T)
         /\ position + Len(cells) <= Len(new)
         /\ \A i \in 1 .. position : new[i] = old[i]
         /\ \A i \in 1 .. Len(cells) : new[position + i] = cells[i]
<1> DEFINE n == Len(cells)
           front == SubSeq(old, 1, position)
           back == SubSeq(old, position + n + 1, Len(old))
<1>1. n \in Nat /\ Len(old) \in Nat /\ position \in Nat
      /\ position <= Len(old)
  OBVIOUS
<1>2. /\ front \in Seq(T) /\ Len(front) = position
      /\ \A i \in 1 .. position : front[i] = old[i]
  BY <1>1
<1>3. back \in Seq(T)
  BY <1>1
<1>4. new = (front \o cells) \o back
  BY DEF Written
<1> HIDE DEF front, back
<1>5. /\ front \o cells \in Seq(T) /\ Len(front \o cells) = position + n
      /\ \A i \in 1 .. position : (front \o cells)[i] = front[i]
      /\ \A i \in 1 .. n : (front \o cells)[position + i] = cells[i]
  BY <1>1, <1>2
<1> DEFINE most == front \o cells
<1> HIDE DEF n
<1>6. /\ most \in Seq(T) /\ Len(most) = position + n
      /\ \A i \in 1 .. position : most[i] = old[i]
      /\ \A i \in 1 .. n : most[position + i] = cells[i]
  BY <1>2, <1>5
<1> HIDE DEF most
<1>7. new \in Seq(T) /\ Len(new) = position + n + Len(back)
      /\ Len(back) \in Nat
  BY <1>1, <1>3, <1>4, <1>6 DEF most
<1>8. \A i \in 1 .. position + n : new[i] = most[i]
  BY <1>3, <1>4, <1>6 DEF most
<1>9. \A i \in 1 .. position : new[i] = old[i]
  BY <1>1, <1>6, <1>8
<1>10. \A i \in 1 .. n : new[position + i] = cells[i]
  BY <1>1, <1>6, <1>8
<1>11. position + n <= Len(new)
  BY <1>1, <1>7
<1> QED BY <1>7, <1>9, <1>10, <1>11 DEF n

(* Before the image is opened the file is not touched, and no such step ends
   with a saved program. *)
EarlyStep ==
  \/ ReadFails \/ SourceIsEmpty \/ Split
  \/ LineInError \/ LineParsed \/ LineNotAllocated \/ AllParsed
  \/ GenerateInstruction \/ HandleDirective \/ SkipLine

LEMMA EarlySteps ==
  ASSUME FileInv, EarlyStep
  PROVE  /\ file' = file
         /\ phase' \notin {"read", "header", "program", "symbols"}
         /\ ~IsSaved'
<1> DEFINE Goal == /\ file' = file
                   /\ phase' \notin {"read", "header", "program", "symbols"}
                   /\ ~IsSaved'
<1> USE DEF IsSaved, EndsWith, Crashes
<1>1. CASE ReadFails \/ Split
  BY <1>1 DEF ReadFails, Split
<1>2. CASE SourceIsEmpty
  BY <1>2 DEF SourceIsEmpty, generator, FileInv
<1>3. CASE LineInError \/ LineNotAllocated \/ AllParsed
  BY <1>3 DEF LineInError, LineNotAllocated, AllParsed
<1>4. CASE LineParsed
  BY <1>4 DEF LineParsed
<1>5. CASE GenerateInstruction
  BY <1>5 DEF GenerateInstruction, WriteBytecode, GenerationFails, Generated, Passes
<1>6. CASE HandleDirective \/ SkipLine
  BY <1>6 DEF HandleDirective, SkipLine, GenerationFails, Generated, Passes
<1> QED BY <1>1, <1>2, <1>3, <1>4, <1>5, <1>6 DEF EarlyStep

(* What the file has of the image depends on these variables only. *)
LEMMA FileFrame ==
  ASSUME UNCHANGED <<file, bytecode, startAddress, symtab>>
  PROVE  /\ HeaderSound' <=> HeaderSound
         /\ StartsInside' <=> StartsInside
         /\ HasHeader' <=> HasHeader
         /\ HasProgram' <=> HasProgram
         /\ \A n : HasSymbols(n)' <=> HasSymbols(n)
         /\ HasImage' <=> HasImage
BY DEF HeaderSound, StartsInside, HasHeader, HasProgram, HasSymbols, HasImage

(* The sizes of the parts of the image. *)
LEMMA ImageSizes ==
  ASSUME ParserTypes, GeneratorTypes
  PROVE  /\ bytecode.items \in Seq(0 .. 255)
         /\ Len(bytecode.items) \in Nat
         /\ ArraySize(bytecode) = Len(bytecode.items)
         /\ symtab.list \in Seq(Entries) /\ Len(symtab.list) \in Nat
         /\ ProgramImage \in Seq(Cell)
         /\ Len(ProgramImage) = Len(bytecode.items)
         /\ \A i \in 1 .. Len(bytecode.items) :
              ProgramImage[i] = ByteCell(bytecode.items[i])
<1>1. bytecode.items \in Seq(0 .. 255) /\ bytecode.width = 1
  BY DEF GeneratorTypes, IsArray
<1>2. Len(bytecode.items) \in Nat
      /\ DOMAIN bytecode.items = 1 .. Len(bytecode.items)
      /\ \A i \in 1 .. Len(bytecode.items) : bytecode.items[i] \in 0 .. 255
  <2> DEFINE items == bytecode.items
             Bytes == 0 .. 255
  <2>1. items \in Seq(Bytes)
    BY <1>1
  <2> HIDE DEF items, Bytes
  <2>2. Len(items) \in Nat /\ DOMAIN items = 1 .. Len(items)
        /\ \A i \in 1 .. Len(items) : items[i] \in Bytes
    BY <2>1
  <2> QED BY <2>2 DEF items, Bytes
<1>3. ArraySize(bytecode) = Len(bytecode.items)
  BY <1>1, <1>2 DEF ArraySize
<1>4. symtab.list \in Seq(Entries)
  BY DEF ParserTypes, TwoIndexes, SoundTable, SoundList
<1>5. ProgramImage
        = [i \in 1 .. Len(bytecode.items) |-> ByteCell(bytecode.items[i])]
  BY <1>2 DEF ProgramImage, ProgramCells
<1>6. \A i \in 1 .. Len(bytecode.items) : ByteCell(bytecode.items[i]) \in Cell
  BY <1>2 DEF ByteCell, Cell
<1>7. ProgramImage \in Seq(Cell) /\ Len(ProgramImage) = Len(bytecode.items)
      /\ \A i \in 1 .. Len(bytecode.items) :
           ProgramImage[i] = ByteCell(bytecode.items[i])
  <2> DEFINE n == Len(bytecode.items)
             f == [i \in 1 .. n |-> ByteCell(bytecode.items[i])]
  <2>1. \A i \in 1 .. n : f[i] = ByteCell(bytecode.items[i]) /\ f[i] \in Cell
    BY <1>6
  <2>2. f \in Seq(Cell) /\ Len(f) = n
    <3>1. n \in Nat /\ f = [i \in 1 .. n |-> f[i]]
      BY <1>2
    <3> HIDE DEF f, n
    <3> QED BY <2>1, <3>1, SeqDef
  <2> HIDE DEF f, n
  <2> QED BY <1>5, <2>1, <2>2 DEF f, n
<1> QED BY <1>1, <1>2, <1>3, <1>4, <1>7

(* The second part, one lemma for each action that opens or writes. *)
LEMMA OpenStep ==
  ASSUME FileInv, OpenImage
  PROVE  FileInv'
<1>1. UNCHANGED <<file, bytecode, startAddress, symtab>> /\ next' = 0
  BY DEF OpenImage, parser, generator
<1>2. \/ phase' = "done" /\ status' = -1
      \/ phase' = "header" /\ StartsInside
  BY DEF OpenImage, EndsWith, StartsInside
<1> QED BY <1>1, <1>2, FileFrame DEF FileInv, IsSaved

(* A write of one cell. *)
LEMMA CellWritten ==
  ASSUME file \in Seq(Cell), NEW position \in 0 .. Len(file),
         NEW cell \in Cell,
         Writes(position, <<cell>>)
  PROVE  /\ file' \in Seq(Cell) /\ position + 1 <= Len(file')
         /\ file'[position + 1] = cell
         /\ \A i \in 1 .. position : file'[i] = file[i]
<1> DEFINE cells == <<cell>>
<1>1. cells \in Seq(Cell) /\ Len(cells) = 1 /\ cells[1] = cell
  OBVIOUS
<1>2. file' = Written(file, position, cells)
  BY DEF Writes
<1> HIDE DEF cells
<1>3. /\ file' \in Seq(Cell) /\ position + Len(cells) <= Len(file')
      /\ \A i \in 1 .. position : file'[i] = file[i]
      /\ \A i \in 1 .. Len(cells) : file'[position + i] = cells[i]
  <2>1. cells \in Seq(Cell)
    BY <1>1
  <2> QED BY <1>2, <2>1, WrittenFacts
<1> QED BY <1>1, <1>3

LEMMA HeaderStep ==
  ASSUME ParserTypes, GeneratorTypes, FileInv, WriteHeader
  PROVE  FileInv'
<1> DEFINE cell == HeaderCell(ArraySize(bytecode), Len(symtab.list),
                              startAddress)
<1>1. /\ UNCHANGED <<bytecode, startAddress, symtab, next>>
      /\ phase' = "program" /\ next = 0 /\ StartsInside
      /\ file \in Seq(Cell) /\ Writes(0, <<cell>>)
  BY DEF WriteHeader, parser, generator, FileInv
<1>2. /\ ArraySize(bytecode) \in Nat /\ Len(symtab.list) \in Nat
      /\ startAddress \in Nat
  BY ImageSizes DEF GeneratorTypes
<1>3. cell \in Cell /\ cell.start < cell.size
  BY <1>1, <1>2 DEF HeaderCell, Cell, StartsInside
<1>4. cell = HeaderCell(ArraySize(bytecode), Len(symtab.list), startAddress)'
  BY <1>1
<1> HIDE DEF cell
<1>5. PICK p \in 0 .. Len(file) : p = 0
  BY <1>1
<1>6. file' \in Seq(Cell) /\ p + 1 <= Len(file') /\ file'[p + 1] = cell
  <2>1. Writes(p, <<cell>>) /\ p \in 0 .. Len(file)
    BY <1>1, <1>5
  <2> QED BY <1>1, <1>3, <2>1, CellWritten
<1>7. file' # <<>> /\ file'[1] = cell
  BY <1>5, <1>6
<1>8. HeaderSound' /\ HasHeader'
  BY <1>3, <1>4, <1>7 DEF HeaderSound, HasHeader
<1> QED BY <1>1, <1>6, <1>8 DEF FileInv, IsSaved, StartsInside

(* What the header says of the image survives any write behind it. *)
LEMMA HeaderStays ==
  ASSUME file \in Seq(Cell), file' \in Seq(Cell), HasHeader, HeaderSound,
         UNCHANGED <<bytecode, startAddress, symtab>>,
         Len(file') >= 1, file'[1] = file[1]
  PROVE  HasHeader' /\ HeaderSound'
<1>1. file' # <<>>
  OBVIOUS
<1> QED BY <1>1 DEF HasHeader, HeaderSound

LEMMA ProgramStep ==
  ASSUME ParserTypes, GeneratorTypes, FileInv, WriteProgram
  PROVE  FileInv'
<1> DEFINE l == Len(bytecode.items)
<1>1. /\ UNCHANGED <<bytecode, startAddress, symtab, next>>
      /\ next = 0 /\ StartsInside /\ file \in Seq(Cell)
      /\ HasHeader /\ HeaderSound
  BY DEF WriteProgram, parser, generator, FileInv
<1>2. /\ ProgramImage \in Seq(Cell) /\ Len(ProgramImage) = l /\ l \in Nat
      /\ Len(symtab.list) \in Nat
      /\ \A i \in 1 .. l : ProgramImage[i] = ByteCell(bytecode.items[i])
  BY ImageSizes
<1>3. PICK n \in 0 .. Len(ProgramImage) :
        /\ Writes(1, SubSeq(ProgramImage, 1, n))
        /\ IF n = Len(ProgramImage) THEN phase' = "symbols" /\ UNCHANGED status
           ELSE EndsWith("done", -1)
  BY DEF WriteProgram
<1> DEFINE cells == SubSeq(ProgramImage, 1, n)
<1> HIDE DEF l
<1>4. /\ cells \in Seq(Cell) /\ Len(cells) = n
      /\ \A i \in 1 .. n : cells[i] = ProgramImage[i]
  BY <1>2
<1>5. PICK p \in 0 .. Len(file) : p = 1
  <2>1. Len(file) \in Nat /\ Len(file) >= 1
    BY <1>1 DEF HasHeader
  <2> QED BY <2>1
<1>6. file' = Written(file, p, cells) /\ p \in 0 .. Len(file)
  BY <1>3, <1>5 DEF Writes
<1> HIDE DEF cells
<1>7. /\ file' \in Seq(Cell) /\ p + Len(cells) <= Len(file')
      /\ \A i \in 1 .. p : file'[i] = file[i]
      /\ \A i \in 1 .. Len(cells) : file'[p + i] = cells[i]
  <2>1. cells \in Seq(Cell)
    BY <1>4
  <2> QED BY <1>1, <1>6, <2>1, WrittenFacts
<1>8. /\ 1 + n <= Len(file') /\ file'[1] = file[1]
      /\ \A i \in 1 .. n : file'[1 + i] = ProgramImage[i]
  BY <1>4, <1>5, <1>7
<1>9. HasHeader' /\ HeaderSound'
  <2>1. Len(file') >= 1
    BY <1>7, <1>8
  <2> QED BY <1>1, <1>7, <1>8, <2>1, HeaderStays
<1>10. CASE n = Len(ProgramImage)
  <2>1. HasProgram' /\ HasSymbols(0)'
    BY <1>1, <1>2, <1>8, <1>10 DEF HasProgram, HasSymbols, l
  <2> QED BY <1>1, <1>2, <1>3, <1>7, <1>9, <1>10, <2>1
          DEF FileInv, IsSaved, StartsInside
<1>11. CASE n # Len(ProgramImage)
  BY <1>1, <1>3, <1>7, <1>9, <1>11 DEF FileInv, IsSaved, StartsInside, EndsWith
<1> QED BY <1>10, <1>11

LEMMA SymbolStep ==
  ASSUME ParserTypes, GeneratorTypes, ControlTypes, FileInv, WriteSymbol
  PROVE  FileInv'
<1> DEFINE l == Len(bytecode.items)
           p == 1 + l + next
           cell == SymbolCell(symtab.list[next + 1])
<1>1. /\ UNCHANGED <<bytecode, startAddress, symtab, phase>>
      /\ phase = "symbols" /\ next' = next + 1 /\ next < Len(symtab.list)
      /\ StartsInside /\ file \in Seq(Cell) /\ HasHeader /\ HeaderSound
      /\ HasProgram /\ HasSymbols(next) /\ next \in Nat
  BY DEF WriteSymbol, parser, generator, FileInv, ControlTypes
<1>2. /\ Len(ProgramImage) = l /\ l \in Nat /\ Len(symtab.list) \in Nat
      /\ symtab.list \in Seq(Entries)
  BY ImageSizes
<1>3. cell \in Cell
  <2>1. next + 1 \in 1 .. Len(symtab.list)
    BY <1>1, <1>2
  <2>2. symtab.list[next + 1] \in Entries
        /\ symtab.list[next + 1].name # NoName
    BY <1>2, <2>1 DEF WriteSymbol
  <2>3. symtab.list[next + 1] \in [name : Name, address : Nat]
    BY <2>2 DEF Entries
  <2> QED BY <2>3 DEF SymbolCell, Cell
<1>4. Writes(p, <<cell>>)
  BY <1>2 DEF WriteSymbol
<1>5. p \in 0 .. Len(file) /\ p \in Nat
  BY <1>1, <1>2 DEF HasSymbols
<1>6. cell = SymbolCell(symtab'.list[next + 1])
  BY <1>1
<1> HIDE DEF cell
<1>7. /\ file' \in Seq(Cell) /\ p + 1 <= Len(file') /\ file'[p + 1] = cell
      /\ \A i \in 1 .. p : file'[i] = file[i]
  <2> HIDE DEF p
  <2> QED BY <1>1, <1>3, <1>4, <1>5, CellWritten
<1> HIDE DEF l
<1>8. HasHeader' /\ HeaderSound'
  <2>1. Len(file') >= 1 /\ file'[1] = file[1]
    BY <1>1, <1>2, <1>7
  <2> QED BY <1>1, <1>7, <2>1, HeaderStays
<1>9. HasProgram'
  <2>1. 1 + l <= Len(file')
    BY <1>1, <1>2, <1>7
  <2>2. ASSUME NEW i \in 1 .. l
        PROVE  file'[1 + i] = ByteCell(bytecode.items[i])
    <3>1. 1 + i \in 1 .. p
      BY <1>1, <1>2
    <3>2. file'[1 + i] = file[1 + i]
      <4> HIDE DEF p
      <4> QED BY <1>7, <3>1
    <3> QED BY <1>1, <3>2 DEF HasProgram, l
  <2> QED BY <1>1, <2>1, <2>2 DEF HasProgram, l
<1>10. HasSymbols(next)'
  <2>1. 1 + l + (next + 1) <= Len(file')
    BY <1>1, <1>2, <1>7
  <2>2. ASSUME NEW i \in 1 .. next + 1
        PROVE  file'[1 + l + i] = SymbolCell(symtab'.list[i])
    <3>1. CASE i = next + 1
      <4>1. 1 + l + i = p + 1
        BY <1>1, <1>2, <3>1
      <4> HIDE DEF p
      <4> QED BY <1>6, <1>7, <3>1, <4>1
    <3>2. CASE i # next + 1
      <4>1. i \in 1 .. next /\ 1 + l + i \in 1 .. p
        BY <1>1, <1>2, <3>2
      <4>2. file'[1 + l + i] = file[1 + l + i]
        <5> HIDE DEF p
        <5> QED BY <1>7, <4>1
      <4>3. file[1 + l + i] = SymbolCell(symtab.list[i])
        BY <1>1, <4>1 DEF HasSymbols, l
      <4> QED BY <1>1, <4>2, <4>3
    <3> QED BY <3>1, <3>2
  <2>3. bytecode'.items = bytecode.items /\ next' = next + 1
    BY <1>1
  <2> QED BY <2>1, <2>2, <2>3 DEF HasSymbols, l
<1>11. next' <= Len(symtab'.list)
  BY <1>1, <1>2
<1>12. ~IsSaved' /\ StartsInside'
  BY <1>1 DEF IsSaved, StartsInside
<1> QED BY <1>1, <1>7, <1>8, <1>9, <1>10, <1>11, <1>12 DEF FileInv

(* The second part, whatever the step. *)
LEMMA FileStep ==
  ASSUME TypeInv, FileInv, [Next]_vars
  PROVE  FileInv'
<1>0. ParserTypes /\ GeneratorTypes /\ ControlTypes
  BY DEF TypeInv
<1>1. CASE EarlyStep
  <2>1. /\ file' = file /\ ~IsSaved'
        /\ phase' \notin {"read", "header", "program", "symbols"}
    BY <1>1, EarlySteps
  <2> QED BY <2>1 DEF FileInv, HeaderSound
<1>2. CASE WriteFails \/ SymbolHasNoName
  <2>1. /\ file' = file
        /\ \/ phase' = "done" /\ status' = -1
           \/ phase' = "badPointer"
    BY <1>2 DEF WriteFails, SymbolHasNoName, EndsWith, Crashes
  <2> QED BY <2>1 DEF FileInv, HeaderSound, IsSaved
<1>3. CASE Kill
  <2>1. file' = file /\ phase' = "killed"
    BY <1>3 DEF Kill
  <2> QED BY <2>1 DEF FileInv, HeaderSound, IsSaved
<1>4. CASE ImageComplete
  <2>1. /\ UNCHANGED <<file, bytecode, startAddress, symtab>>
        /\ phase' = "done" /\ phase = "symbols" /\ next = Len(symtab.list)
    BY <1>4 DEF ImageComplete, EndsWith, parser, generator
  <2>2. StartsInside /\ HasImage
    BY <2>1 DEF FileInv, HasImage
  <2>3. StartsInside' /\ HasImage' /\ HeaderSound'
    BY <2>1, <2>2, FileFrame DEF FileInv
  <2> QED BY <2>1, <2>3 DEF FileInv
<1>5. CASE Load \/ UNCHANGED vars
  <2>1. UNCHANGED <<phase, next, status, file, bytecode, startAddress, symtab>>
    BY <1>5 DEF Load, vars, parser, generator
  <2>2. /\ HeaderSound' <=> HeaderSound
        /\ StartsInside' <=> StartsInside
        /\ HasHeader' <=> HasHeader
        /\ HasProgram' <=> HasProgram
        /\ HasSymbols(next)' <=> HasSymbols(next)
        /\ HasImage' <=> HasImage
        /\ IsSaved' <=> IsSaved
    BY <2>1 DEF HeaderSound, StartsInside, HasHeader, HasProgram, HasSymbols,
                HasImage, IsSaved
  <2> QED BY <2>1, <2>2 DEF FileInv
<1> QED BY <1>0, <1>1, <1>2, <1>3, <1>4, <1>5, OpenStep, HeaderStep,
           ProgramStep, SymbolStep DEF Next, Assemble, EarlyStep

-----------------------------------------------------------------------------
(***************************************************************************)
(* The machine that loads the file.  A load that succeeds takes what the   *)
(* header says, and the header is sound whoever wrote it.                  *)
(***************************************************************************)
LoaderTypes ==
  /\ vm \in [state : {"noProgram", "ready", "undefined"}, pc : Nat,
             program : Seq(Cell), symtab : {vm.symtab}, wanted : BOOLEAN,
             loads : 0 .. MaxLoads, result : ImageResults \cup {"none"}]
  /\ TwoIndexes(vm.symtab)

HasLoaded ==
  /\ file # <<>> /\ file[1].kind = "header"
  /\ file[1].size \in Nat /\ 1 + file[1].size <= Len(file)
  /\ vm.program = SubSeq(file, 2, 1 + file[1].size)
  /\ vm.pc = file[1].start

IsBeginning(list, all) ==
  /\ Len(list) <= Len(all)
  /\ \A i \in 1 .. Len(list) : IsCopyOf(list[i], all[i])

LoaderInv ==
  /\ LoaderTypes
  /\ vm.state = "ready" => phase \in Ends /\ HasLoaded
  /\ phase \notin Ends => vm.symtab.list = <<>>
  /\ IsSaved => IsBeginning(vm.symtab.list, symtab.list)
  /\ IsSaved /\ vm.state = "ready" /\ vm.wanted =>
       Len(vm.symtab.list) = Len(symtab.list)

(* Once the assembler has ended only the machine goes on. *)
LEMMA EndsStay ==
  ASSUME phase \in Ends, [Next]_vars
  PROVE  UNCHANGED <<text, phase, next, parser, generator, status, file>>
<1> USE DEF Ends
<1>1. CASE ReadFails \/ SourceIsEmpty \/ Split
  BY <1>1 DEF ReadFails, SourceIsEmpty, Split
<1>2. CASE LineInError \/ LineParsed \/ LineNotAllocated \/ AllParsed
  BY <1>2 DEF LineInError, LineParsed, LineNotAllocated, AllParsed
<1>3. CASE GenerateInstruction \/ HandleDirective \/ SkipLine \/ OpenImage
  BY <1>3 DEF GenerateInstruction, HandleDirective, SkipLine, OpenImage
<1>4. CASE \/ WriteHeader \/ WriteProgram \/ WriteSymbol \/ SymbolHasNoName
           \/ WriteFails
  BY <1>4 DEF WriteHeader, WriteProgram, WriteSymbol, SymbolHasNoName,
              WriteFails
<1>5. CASE ImageComplete \/ Kill \/ Load \/ UNCHANGED vars
  BY <1>5 DEF ImageComplete, Kill, Load, vars
<1> QED BY <1>1, <1>2, <1>3, <1>4, <1>5 DEF Next, Assemble

(* A load of a file with a sound header takes its program and its start, and
   the start lies inside the program and the memory. *)
LEMMA LoadFromSound ==
  ASSUME FileInv, NEW memory \in Nat, NEW symtab0, TwoIndexes(symtab0),
         NEW wantSymbols \in BOOLEAN,
         NEW l \in ImageLoads(file, memory, symtab0, wantSymbols),
         l.result = "ok"
  PROVE  /\ file # <<>> /\ file[1].kind = "header"
         /\ file[1].size \in Nat /\ 1 + file[1].size <= Len(file)
         /\ l.program = SubSeq(file, 2, 1 + file[1].size)
         /\ l.start = file[1].start /\ l.start < memory
         /\ l.start \in Nat /\ l.start < file[1].size
<1>1. IsWhole(file, memory, l) /\ l.start \in Nat
  BY LoadFacts DEF FileInv
<1>2. file[1] \in Cell
  BY <1>1 DEF IsWhole, FileInv
<1>3. file[1].size \in Nat /\ file[1].start \in Nat
  BY <1>1, <1>2 DEF IsWhole, Cell
<1>4. file[1].start < file[1].size
  BY <1>1 DEF IsWhole, FileInv, HeaderSound
<1> QED BY <1>1, <1>3, <1>4 DEF IsWhole

(* The invariant holds at first. *)
LEMMA InitFile == Init => FileInv
<1> SUFFICES ASSUME Init PROVE FileInv
  OBVIOUS
<1>1. file \in Seq(Cell) /\ HeaderSound
  BY AssemblerAssumption DEF Init, HeaderSound
<1>2. phase = "read" /\ bytecode.items = <<>>
  BY DEF Init, CreatedArray
<1> QED BY <1>1, <1>2 DEF FileInv, IsSaved

LEMMA InitLoader == Init => LoaderInv
<1> SUFFICES ASSUME Init PROVE LoaderInv
  OBVIOUS
<1> USE AssemblerAssumption
<1>1. /\ vm = [state |-> "noProgram", pc |-> 0, program |-> <<>>,
               symtab |-> CreatedTable(MaxSymbols), wanted |-> FALSE,
               loads |-> 0, result |-> "none"]
      /\ phase = "read"
  BY DEF Init
<1>2. TwoIndexes(vm.symtab) /\ vm.symtab.list = <<>>
  BY <1>1, CreatedHasTwoIndexes DEF CreatedTable
<1>3. LoaderTypes
  <2>1. <<>> \in Seq(Cell) /\ 0 \in 0 .. MaxLoads
    OBVIOUS
  <2> QED BY <1>1, <1>2, <2>1 DEF LoaderTypes
<1> QED BY <1>1, <1>2, <1>3 DEF LoaderInv, IsSaved, Ends

-----------------------------------------------------------------------------
(***************************************************************************)
(* The symbols that a load of a complete image reads.  They come in the    *)
(* order of their addresses, so that a table with the first of them gets   *)
(* the next one behind the last, or refuses one it has already.            *)
(***************************************************************************)

(* The list after an addition. *)
LEMMA AddedList ==
  ASSUME NEW t, TwoIndexes(t), NEW name \in Name, NEW a \in Nat, NEW mem,
         NEW u, u = AddSymbol(t, name, a, mem)
  PROVE  \/ u.list = t.list /\ u.status # "ok"
         \/ /\ Refusal(t, name, a) = "ok"
            /\ u.list = Inserted(t.list, NumBelow(t.list, a),
                                 Symbol(NameCopied(name, mem), a))
<1> DEFINE r == Rehashed(t, mem)
           s == Symbol(NameCopied(name, mem), a)
           new == Inserted(r.list, NumBelow(r.list, a), s)
           chains == Linked(r, LinkBefore(t, r, name), name, s)
           added == [r EXCEPT
                       !.list = new, !.allocated = ListSlots(t),
                       !.chains = chains, !.status = "ok"]
           why == Refusal(t, name, a)
           null == \/ SearchMeetsNull(t, name)
                   \/ why = "ok" /\ RehashMeetsNull(t, mem)
<1>1. CASE null
  <2>1. u = TableFailed(t, "nullName")
    BY <1>1, Zenon DEF AddSymbol
  <2> HIDE DEF null
  <2> QED BY <2>1, FailedKeepsTwoIndexes
<1>2. CASE ~null /\ why # "ok"
  <2>1. u = TableFailed(t, why)
    BY <1>2, Zenon DEF AddSymbol
  <2> HIDE DEF why, null
  <2> QED BY <1>2, <2>1, FailedKeepsTwoIndexes
<1>3. CASE ~null /\ why = "ok"
  <2>1. TwoIndexes(r) /\ r.list = t.list
    BY <1>3, RehashedFacts
  <2>2. u \in {TableFailed(r, "noMemory"), added}
    BY <1>3, Zenon DEF AddSymbol
  <2>3. CASE u = TableFailed(r, "noMemory")
    <3> HIDE DEF r
    <3>1. u.list = r.list /\ u.status = "noMemory"
      BY <2>1, <2>3, FailedKeepsTwoIndexes
    <3> QED BY <2>1, <3>1
  <2>4. CASE u = added
    <3>1. r \in [chains : {r.chains}, size : {r.size}, list : {r.list},
                 allocated : {r.allocated}, max : {r.max},
                 status : {r.status}]
      BY <2>1 DEF TwoIndexes, SoundTable
    <3> HIDE DEF r, s, new, chains
    <3>2. added \in [chains : {chains}, size : {r.size}, list : {new},
                     allocated : {ListSlots(t)}, max : {r.max},
                     status : {"ok"}]
      BY <3>1
    <3> HIDE DEF added
    <3>3. u.list = new
      BY <2>4, <3>2
    <3> QED BY <1>3, <2>1, <3>3 DEF new, s
  <2> QED BY <2>2, <2>3, <2>4
<1> QED BY <1>1, <1>2, <1>3

(* t has the first of the symbols, at least i of them if nothing went
   wrong. *)
HasFirst(t, all, i) ==
  IsBeginning(t.list, all) /\ (t.status = "ok" => Len(t.list) >= i)

(* The next symbol goes behind the ones before it. *)
LEMMA NextIsLast ==
  ASSUME NEW all, SoundList(all), NEW i \in 1 .. Len(all),
         NEW list, SoundList(list), Len(list) = i - 1, IsBeginning(list, all),
         NEW s, IsCopyOf(s, all[i])
  PROVE  LET new == Inserted(list, NumBelow(list, s.address), s)
         IN  Len(new) = i /\ IsBeginning(new, all)
<1> DEFINE a == s.address
           n == NumBelow(list, a)
           new == Inserted(list, n, s)
<1>1. all \in Seq(Entries) /\ Len(all) \in Nat /\ DOMAIN all = 1 .. Len(all)
      /\ i \in Nat /\ list \in Seq(Entries)
  BY DEF SoundList
<1>2. a = all[i].address /\ a \in Nat
  BY <1>1, AddressesAreNat DEF IsCopyOf
<1>3. \A j \in 1 .. i - 1 : IsCopyOf(list[j], all[j])
  BY DEF IsBeginning
<1>4. n \in 0 .. i - 1 /\ \A j \in n + 1 .. i - 1 : a <= list[j].address
  <2>1. /\ n \in 0 .. Len(list)
        /\ \A j \in n + 1 .. Len(list) : a <= list[j].address
    BY <1>1, <1>2, NumBelowFacts
  <2> QED BY <2>1
<1> HIDE DEF n, a
<1>5. n = i - 1
  <2> SUFFICES ASSUME n # i - 1 PROVE FALSE
    OBVIOUS
  <2>1. /\ i - 1 \in n + 1 .. i - 1 /\ i - 1 \in 1 .. i - 1
        /\ i - 1 \in DOMAIN all /\ i \in DOMAIN all /\ i - 1 < i
    BY <1>1, <1>4
  <2>2. all[i - 1].address < a
    BY <1>2, <2>1 DEF SoundList, ListSorted
  <2>3. a <= all[i - 1].address
    BY <1>3, <1>4, <2>1 DEF IsCopyOf
  <2>4. all[i - 1].address \in Nat
    BY <1>1, <2>1, AddressesAreNat
  <2> QED BY <1>2, <2>2, <2>3, <2>4
<1>6. /\ new = [j \in 1 .. i |-> IF j <= i - 1 THEN list[j]
                                 ELSE IF j = i THEN s ELSE list[j - 1]]
  <2>1. (i - 1) + 1 = i
    BY <1>1
  <2> QED BY <1>5, <2>1 DEF Inserted
<1> HIDE DEF new
<1>7. Len(new) = i
  BY <1>1, <1>6
<1>8. ASSUME NEW j \in 1 .. i PROVE IsCopyOf(new[j], all[j])
  <2>1. CASE j = i
    <3>1. ~(j <= i - 1)
      BY <1>1, <2>1
    <3>2. new[j] = s
      BY <1>6, <2>1, <3>1
    <3> QED BY <2>1, <3>2
  <2>2. CASE j # i
    <3>1. j \in 1 .. i - 1 /\ j <= i - 1
      BY <1>1, <2>2
    <3>2. new[j] = list[j]
      BY <1>6, <3>1
    <3> QED BY <1>3, <3>1, <3>2
  <2> QED BY <2>1, <2>2
<1> QED BY <1>1, <1>7, <1>8 DEF IsBeginning, new, n, a

(* One more addition, and one more read. *)
LEMMA SymbolAdded ==
  ASSUME NEW all, SoundList(all), NEW i \in 1 .. Len(all),
         all[i].name \in Name,
         NEW t, TwoIndexes(t), HasFirst(t, all, i - 1), t.status = "ok",
         NEW mem,
         NEW u, u = AddSymbol(t, all[i].name, all[i].address, mem)
  PROVE  HasFirst(u, all, i)
<1> DEFINE s == Symbol(NameCopied(all[i].name, mem), all[i].address)
           k == Len(t.list)
<1>1. all \in Seq(Entries) /\ Len(all) \in Nat /\ i \in Nat
  BY DEF SoundList
<1>2. IsBeginning(t.list, all) /\ k >= i - 1
  BY DEF HasFirst
<1>3. SoundList(t.list) /\ k \in Nat
  BY DEF TwoIndexes, SoundTable, SoundList
<1>4. all[i].address \in Nat
  BY <1>1, AddressesAreNat
<1>5. IsCopyOf(s, all[i]) /\ s.address = all[i].address
  BY DEF IsCopyOf, Symbol, NameCopied
<1> HIDE DEF s, k
<1>6. CASE u.list = t.list /\ u.status # "ok"
  BY <1>2, <1>6 DEF HasFirst
<1>7. CASE /\ Refusal(t, all[i].name, all[i].address) = "ok"
           /\ u.list = Inserted(t.list, NumBelow(t.list, all[i].address), s)
  <2>1. ~IsAddressIn(t.list, all[i].address)
    BY <1>7 DEF Refusal
  <2>2. k = i - 1
    <3> SUFFICES ASSUME i \in 1 .. k PROVE FALSE
      BY <1>1, <1>2, <1>3
    <3>1. IsCopyOf(t.list[i], all[i])
      BY <1>2 DEF IsBeginning, k
    <3> QED BY <2>1, <3>1 DEF IsAddressIn, IsCopyOf, k
  <2>3. Len(u.list) = i /\ IsBeginning(u.list, all)
    BY <1>2, <1>3, <1>5, <1>7, <2>2, NextIsLast DEF k
  <2> QED BY <1>1, <2>3 DEF HasFirst
<1> QED BY <1>4, <1>6, <1>7, AddedList DEF s

(* The file has these symbols from a position on. *)
HoldsSymbols(file0, position, all) ==
  /\ position + Len(all) <= Len(file0)
  /\ \A i \in 1 .. Len(all) : file0[position + i] = SymbolCell(all[i])

LEMMA SymbolRead ==
  ASSUME NEW file0 \in Seq(Cell), NEW position \in Nat,
         NEW all, SoundList(all), HoldsSymbols(file0, position, all),
         NEW i \in 1 .. Len(all),
         NEW t, TwoIndexes(t), HasFirst(t, all, i - 1),
         NEW p \in Nat, p + 1 = position + i,
         NEW u \in TablesRead(t, file0, p)
  PROVE  HasFirst(u, all, i)
<1>1. Len(all) \in Nat /\ Len(file0) \in Nat /\ i \in Nat
  BY DEF SoundList
<1>2. p + 1 = position + i /\ ~(p + 1 > Len(file0))
  BY <1>1 DEF HoldsSymbols
<1>3. ~ReadIsShort(file0, p, 1)
  BY <1>2 DEF ReadIsShort
<1>4. CASE t.status # "ok"
  <2>1. u = t
    BY <1>4 DEF TablesRead
  <2> QED BY <1>4, <2>1 DEF HasFirst
<1>5. CASE t.status = "ok"
  <2> DEFINE cell == file0[p + 1]
  <2>0. PICK s \in SymbolsReadAs(cell) :
          \E mem : u = AddSymbol(t, s.name, s.address, mem)
    <3>1. ~ReadStops(t, file0, p)
      BY <1>3, <1>5 DEF ReadStops
    <3> QED BY <3>1, OneRead
  <2>1. PICK mem : u = AddSymbol(t, s.name, s.address, mem)
    BY <2>0
  <2>2. cell = SymbolCell(all[i]) /\ cell \in Cell
    BY <1>1, <1>2 DEF HoldsSymbols
  <2> HIDE DEF cell
  <2>3. SymbolsReadAs(cell) = {all[i]}
    BY <2>2 DEF SymbolsReadAs, SymbolCell
  <2>4. u = AddSymbol(t, all[i].name, all[i].address, mem)
    BY <2>0, <2>1, <2>3
  <2>5. all[i].name \in Name
    BY <2>2 DEF SymbolCell, Cell
  <2> QED BY <1>5, <2>4, <2>5, SymbolAdded
<1> QED BY <1>4, <1>5

(* All of them. *)
LEMMA SymbolsRead ==
  ASSUME NEW file0 \in Seq(Cell), NEW position \in Nat,
         NEW all, SoundList(all), HoldsSymbols(file0, position, all),
         NEW symtab0, TwoIndexes(symtab0), IsBeginning(symtab0.list, all),
         NEW t \in TablesAfter(file0, position, Len(all), symtab0)
  PROVE  HasFirst(t, all, Len(all))
<1> DEFINE n == Len(all)
<1>1. n \in Nat
  BY DEF SoundList
<1> HIDE DEF n
<1>2. PICK g : LeadTo(file0, position, n, symtab0, g)
  BY <1>1, TablesAfterFacts
<1>3. /\ TablesAfter(file0, position, n, symtab0) = g[n]
      /\ g[0] = {[symtab0 EXCEPT !.status = "ok"]}
      /\ \A i \in 1 .. n :
           g[i] = UNION {TablesRead(u, file0, position + i - 1) :
                           u \in g[i - 1]}
  BY <1>2 DEF LeadTo
<1> DEFINE Good(u, i) == TwoIndexes(u) /\ HasFirst(u, all, i)
           Bad == {i \in 0 .. n : \E u \in g[i] : ~Good(u, i)}
<1>4. Bad = {}
  <2> SUFFICES ASSUME Bad # {} PROVE FALSE
    OBVIOUS
  <2>1. Bad \in SUBSET Nat
    OBVIOUS
  <2>2. PICK m \in Bad : \A i \in Bad : m <= i
    <3> HIDE DEF Bad
    <3> QED BY <2>1, LeastExists
  <2>3. PICK u \in g[m] : ~Good(u, m)
    OBVIOUS
  <2>4. m # 0
    <3> SUFFICES ASSUME m = 0 PROVE FALSE
      OBVIOUS
    <3>1. u = TableFailed(symtab0, "ok")
      BY <1>3, <2>3 DEF TableFailed
    <3>2. TwoIndexes(u) /\ u.list = symtab0.list
      BY <3>1, FailedKeepsTwoIndexes
    <3>3. Len(u.list) \in Nat
      BY <3>2 DEF TwoIndexes, SoundTable, SoundList
    <3>4. HasFirst(u, all, 0)
      BY <3>2, <3>3 DEF HasFirst
    <3> QED BY <2>3, <3>2, <3>4
  <2>5. m \in 1 .. n /\ m - 1 \in 0 .. n /\ ~(m <= m - 1)
        /\ position + m - 1 \in Nat
    <3>1. m \in 0 .. n
      OBVIOUS
    <3> HIDE DEF Bad
    <3> QED BY <1>1, <2>4, <3>1 DEF n
  <2>6. PICK v \in g[m - 1] : u \in TablesRead(v, file0, position + m - 1)
    BY <1>3, <2>3, <2>5
  <2>7. TwoIndexes(v) /\ HasFirst(v, all, m - 1)
    BY <2>2, <2>5, <2>6
  <2>8. TwoIndexes(u)
    BY <2>5, <2>6, <2>7, TablesReadFacts
  <2>9. HasFirst(u, all, m)
    <3>1. PICK p \in Nat : p = position + m - 1
      BY <2>5
    <3>2. p + 1 = position + m /\ u \in TablesRead(v, file0, p)
      BY <2>5, <2>6, <3>1
    <3> QED BY <2>5, <2>7, <3>2, SymbolRead DEF n
  <2> QED BY <2>3, <2>8, <2>9
<1>5. HasFirst(t, all, n)
  <2>1. t \in g[n] /\ n \in 0 .. n
    BY <1>1, <1>3 DEF n
  <2> QED BY <1>4, <2>1
<1> QED BY <1>5 DEF n

(* What a load of the complete image, whole or broken off, leaves of the
   symbols. *)
LEMMA LoadPrefix ==
  ASSUME ParserTypes, GeneratorTypes, FileInv, IsSaved,
         NEW memory \in Nat, NEW symtab0, TwoIndexes(symtab0),
         IsBeginning(symtab0.list, symtab.list), NEW wantSymbols \in BOOLEAN,
         NEW l \in ImageLoads(file, memory, symtab0, wantSymbols)
  PROVE  /\ IsBeginning(l.symtab.list, symtab.list)
         /\ l.result = "ok" /\ wantSymbols =>
              Len(l.symtab.list) = Len(symtab.list)
<1> DEFINE size == Len(bytecode.items)
           all == symtab.list
<1>1. HasHeader /\ HasSymbols(Len(all)) /\ file \in Seq(Cell)
  BY DEF FileInv, HasImage
<1>2. size \in Nat /\ ArraySize(bytecode) = size
  BY ImageSizes
<1>3. SoundList(all)
  BY DEF ParserTypes, TwoIndexes, SoundTable
<1>4. file[1].size = size /\ file[1].numSymbols = Len(all)
  BY <1>1, <1>2 DEF HasHeader, HeaderCell
<1>5. HoldsSymbols(file, 1 + size, all)
  BY <1>1 DEF HasSymbols, HoldsSymbols
<1>6. ASSUME l.symtab \in TablesAfter(file, 1 + file[1].size,
                                     file[1].numSymbols, symtab0)
      PROVE  HasFirst(l.symtab, all, Len(all))
  <2>1. l.symtab \in TablesAfter(file, 1 + size, Len(all), symtab0)
    BY <1>4, <1>6
  <2>2. 1 + size \in Nat
    BY <1>2
  <2> HIDE DEF size, all
  <2>3. IsBeginning(symtab0.list, all)
    BY DEF all
  <2> QED BY <1>1, <1>3, <1>5, <2>1, <2>2, <2>3, SymbolsRead
<1>7. HasRead(file, symtab0, l) /\ TwoIndexes(l.symtab)
      /\ (l.result = "ok" /\ wantSymbols => HasReadAll(file, symtab0, l))
  BY <1>1, LoadFacts
<1> HIDE DEF all
<1>8. IsBeginning(l.symtab.list, all)
  BY <1>6, <1>7 DEF HasRead, HasFirst, all
<1>9. ASSUME l.result = "ok", wantSymbols
      PROVE  Len(l.symtab.list) = Len(all)
  <2>1. HasFirst(l.symtab, all, Len(all)) /\ l.symtab.status = "ok"
    BY <1>6, <1>7, <1>9 DEF HasReadAll
  <2>2. Len(l.symtab.list) \in Nat /\ Len(all) \in Nat
    BY <1>3, <1>7 DEF TwoIndexes, SoundTable, SoundList
  <2> QED BY <2>1, <2>2 DEF HasFirst, IsBeginning
<1> QED BY <1>8, <1>9 DEF all

(* A step of Load. *)
LEMMA LoadStep ==
  ASSUME TypeInv, FileInv, LoaderInv, Load
  PROVE  LoaderInv'
<1> USE AssemblerAssumption
<1>1. /\ UNCHANGED <<phase, status, file, bytecode, startAddress, symtab>>
      /\ phase \in Ends /\ vm.state = "noProgram" /\ vm.loads < MaxLoads
      /\ IsSaved' <=> IsSaved
  BY DEF Load, generator, parser, IsSaved
<1>2. PICK memory \in MemorySizes, wantSymbols \in BOOLEAN :
        \E l \in ImageLoads(file, memory, vm.symtab, wantSymbols) :
          vm' = [state |-> IF l.result = "ok" THEN "ready"
                           ELSE IF l.result = "undefined" THEN "undefined"
                           ELSE "noProgram",
                 pc |-> IF l.result = "ok" /\ l.start < memory
                        THEN l.start ELSE vm.pc,
                 program |-> l.program, symtab |-> l.symtab,
                 wanted |-> wantSymbols, loads |-> vm.loads + 1,
                 result |-> IF l.result = "ok" /\ l.start >= memory
                            THEN "formatError" ELSE l.result]
  BY DEF Load
<1>3. PICK l \in ImageLoads(file, memory, vm.symtab, wantSymbols) :
        vm' = [state |-> IF l.result = "ok" THEN "ready"
                         ELSE IF l.result = "undefined" THEN "undefined"
                         ELSE "noProgram",
               pc |-> IF l.result = "ok" /\ l.start < memory
                      THEN l.start ELSE vm.pc,
               program |-> l.program, symtab |-> l.symtab,
               wanted |-> wantSymbols, loads |-> vm.loads + 1,
               result |-> IF l.result = "ok" /\ l.start >= memory
                          THEN "formatError" ELSE l.result]
  BY <1>2
<1>4. memory \in Nat /\ TwoIndexes(vm.symtab) /\ file \in Seq(Cell)
      /\ vm.pc \in Nat /\ vm.loads \in 0 .. MaxLoads
  BY DEF LoaderInv, LoaderTypes, FileInv
<1>5. /\ l.result \in ImageResults /\ l.program \in Seq(Cell)
      /\ l.start \in Nat /\ TwoIndexes(l.symtab)
  BY <1>4, LoadFacts
<1>6. LoaderTypes'
  <2>1. vm.loads + 1 \in 0 .. MaxLoads
    BY <1>1, <1>4
  <2>2. "formatError" \in ImageResults
    BY DEF ImageResults
  <2> QED BY <1>3, <1>4, <1>5, <2>1, <2>2 DEF LoaderTypes
<1>7. vm'.state = "ready" => phase' \in Ends /\ HasLoaded'
  <2> SUFFICES ASSUME l.result = "ok" PROVE phase' \in Ends /\ HasLoaded'
    BY <1>3
  <2>1. /\ file # <<>> /\ file[1].kind = "header"
        /\ file[1].size \in Nat /\ 1 + file[1].size <= Len(file)
        /\ l.program = SubSeq(file, 2, 1 + file[1].size)
        /\ l.start = file[1].start /\ l.start < memory
    BY <1>4, LoadFromSound
  <2>2. vm'.program = l.program /\ vm'.pc = l.start
    BY <1>3, <2>1
  <2> QED BY <1>1, <2>1, <2>2 DEF HasLoaded
<1>8. ASSUME IsSaved'
      PROVE  /\ IsBeginning(vm'.symtab.list, symtab'.list)
             /\ vm'.state = "ready" /\ vm'.wanted =>
                  Len(vm'.symtab.list) = Len(symtab'.list)
  <2>1. IsSaved /\ IsBeginning(vm.symtab.list, symtab.list)
    BY <1>1, <1>8 DEF LoaderInv
  <2>2. /\ IsBeginning(l.symtab.list, symtab.list)
        /\ l.result = "ok" /\ wantSymbols =>
             Len(l.symtab.list) = Len(symtab.list)
    BY <1>4, <2>1, LoadPrefix DEF TypeInv
  <2>3. /\ vm'.symtab = l.symtab /\ vm'.wanted = wantSymbols
        /\ vm'.state = "ready" => l.result = "ok"
    BY <1>3
  <2> QED BY <1>1, <2>2, <2>3
<1>9. phase' \in Ends
  BY <1>1
<1> QED BY <1>6, <1>7, <1>8, <1>9 DEF LoaderInv

(* The third part, whatever the step. *)
LEMMA LoaderStep ==
  ASSUME TypeInv, FileInv, LoaderInv, [Next]_vars
  PROVE  LoaderInv'
<1>1. CASE Load
  BY <1>1, LoadStep
<1>2. CASE ~Load
  <2>1. vm' = vm
    BY <1>2, LoaderSteps
  <2>2. LoaderTypes'
    BY <2>1 DEF LoaderInv, LoaderTypes
  <2>3. CASE phase \in Ends
    <3>1. UNCHANGED <<phase, status, file, bytecode, symtab>>
      BY <2>3, EndsStay DEF generator, parser
    <3> QED BY <2>1, <2>2, <3>1 DEF LoaderInv, HasLoaded, IsSaved
  <2>4. CASE phase \notin Ends
    <3>1. vm.state # "ready" /\ vm.symtab.list = <<>>
      BY <2>4 DEF LoaderInv
    <3>2. IsBeginning(<<>>, symtab'.list)
      <4>1. symtab'.list \in Seq(Entries)
        BY TypeStep DEF TypeInv, ParserTypes, TwoIndexes, SoundTable, SoundList
      <4>2. Len(symtab'.list) \in Nat
        BY <4>1
      <4> QED BY <4>2 DEF IsBeginning
    <3> QED BY <2>1, <2>2, <3>1, <3>2 DEF LoaderInv
  <2> QED BY <2>3, <2>4
<1> QED BY <1>1, <1>2

-----------------------------------------------------------------------------
(***************************************************************************)
(* The addresses.  The parser gives each line the address at which the one *)
(* before it ends.  The generator has written no more bytes than the lines *)
(* behind it take, and as many until it meets a PUSH or loses a message.   *)
(***************************************************************************)
AddressAfter(n) ==
  IF n = 0 THEN 0 ELSE LineAt(n).address + SizeOf(LineAt(n))

Consecutive ==
  \A i \in 1 .. Len(asmLines.items) : LineAt(i).address = AddressAfter(i - 1)

AddressInv ==
  /\ Consecutive
  /\ phase \in {"read", "parse"} =>
       /\ address = AddressAfter(Len(asmLines.items))
       /\ bytecode.items = <<>>
  /\ phase = "generate" =>
       /\ next <= Len(asmLines.items)
       /\ ArraySize(bytecode) <= AddressAfter(next)
       /\ PushFree(next) /\ ~messageLost =>
            ArraySize(bytecode) = AddressAfter(next)

(* The addresses depend on the lines only. *)
LEMMA AddressFrame ==
  ASSUME UNCHANGED asmLines
  PROVE  /\ Consecutive' <=> Consecutive
         /\ \A n : (AddressAfter(n))' = AddressAfter(n)
         /\ \A n : PushFree(n)' <=> PushFree(n)
         /\ \A n : LineAt(n)' = LineAt(n)
BY DEF Consecutive, AddressAfter, PushFree, LineAt

LEMMA InitAddress == Init => AddressInv
<1> SUFFICES ASSUME Init PROVE AddressInv
  OBVIOUS
<1>1. /\ phase = "read" /\ address = 0 /\ asmLines.items = <<>>
      /\ bytecode.items = <<>>
  BY DEF Init, CreatedArray
<1> QED BY <1>1 DEF AddressInv, Consecutive, AddressAfter

(* What an append that succeeds makes of an array. *)
LEMMA Appended ==
  ASSUME NEW T, NEW w \in Nat \ {0}, NEW a, IsArray(a, T, w),
         NEW seq \in Seq(T), NEW mem \in BOOLEAN,
         NEW r, r = AppendToArray(a, seq, mem)
  PROVE  /\ IsArray(r, T, w)
         /\ ArrayOk(r) => r.items = a.items \o seq
         /\ seq # <<>> /\ ~ArrayOk(r) => r.items = a.items
<1>1. /\ IsArray(r, T, w)
      /\ seq = <<>> => r = a
      /\ seq # <<>> =>
           r.items = IF ArrayOk(r) THEN a.items \o seq ELSE a.items
  BY AppendFacts
<1>2. a.items \in Seq(T)
  BY DEF IsArray
<1>3. seq = <<>> => a.items \o seq = a.items
  <2> DEFINE items == a.items
  <2> HIDE DEF items
  <2>1. items \in Seq(T) => items \o <<>> = items
    OBVIOUS
  <2> QED BY <1>2, <2>1 DEF items
<1> QED BY <1>1, <1>3

LEMMA BytesAppended ==
  ASSUME NEW T, NEW a, IsArray(a, T, 1), NEW seq \in Seq(T),
         NEW mem \in BOOLEAN,
         NEW r, r = AppendToArray(a, seq, mem), ArrayOk(r)
  PROVE  IsArray(r, T, 1) /\ Len(r.items) = Len(a.items) + Len(seq)
<1>1. PICK w \in Nat \ {0} : w = 1
  OBVIOUS
<1>2. IsArray(a, T, w)
  BY <1>1
<1>3. IsArray(r, T, w) /\ r.items = a.items \o seq
  BY <1>2, Appended
<1>4. a.items \in Seq(T)
  BY <1>2 DEF IsArray
<1> DEFINE items == a.items
           new == r.items
<1>5. items \in Seq(T) /\ new = items \o seq
  BY <1>3, <1>4
<1> HIDE DEF items, new
<1>6. Len(new) = Len(items) + Len(seq)
  BY <1>5
<1> QED BY <1>1, <1>3, <1>6 DEF items, new

LEMMA AtMostAppended ==
  ASSUME NEW T, NEW a, IsArray(a, T, 1), NEW seq \in Seq(T),
         NEW mem \in BOOLEAN,
         NEW r, r = AppendToArray(a, seq, mem)
  PROVE  IsArray(r, T, 1) /\ Len(r.items) <= Len(a.items) + Len(seq)
<1>1. PICK w \in Nat \ {0} : w = 1
  OBVIOUS
<1>2. IsArray(a, T, w)
  BY <1>1
<1>3. /\ IsArray(r, T, w)
      /\ seq = <<>> => r = a
      /\ seq # <<>> =>
           r.items = IF ArrayOk(r) THEN a.items \o seq ELSE a.items
  BY <1>2, AppendFacts
<1>4. a.items \in Seq(T) /\ r.items \in {a.items \o seq, a.items}
  <2>1. a.items \in Seq(T)
    BY <1>2 DEF IsArray
  <2>2. CASE seq = <<>>
    BY <1>3, <2>1, <2>2
  <2>3. CASE seq # <<>>
    BY <1>3, <2>1, <2>3
  <2> QED BY <2>1, <2>2, <2>3
<1> DEFINE items == a.items
           new == r.items
<1>5. items \in Seq(T) /\ new \in {items \o seq, items}
  BY <1>4
<1> HIDE DEF items, new
<1>6. Len(new) <= Len(items) + Len(seq)
  BY <1>5
<1> QED BY <1>1, <1>3, <1>6 DEF items, new

(* One more line behind the parser. *)
LEMMA LineParsedStep ==
  ASSUME TypeInv, AddressInv, LineParsed
  PROVE  AddressInv'
<1> DEFINE asml == AssemblyLineAt(next + 1)
           items == asmLines.items
<1>1. /\ phase = "parse" /\ next \in Nat /\ next < Len(lines)
      /\ asml # AsmError /\ address' = address + SizeOf(asml)
      /\ bytecode' = bytecode
  BY DEF LineParsed, TypeInv, ControlTypes, generator
<1>2. asml \in AssemblyLine /\ asml.address = address
  BY <1>1, AssemblyLineFacts DEF TypeInv
<1>3. PICK mem \in BOOLEAN : asmLines' = AppendToArray(asmLines, <<asml>>, mem)
  BY DEF LineParsed
<1>4. /\ address = AddressAfter(Len(items)) /\ bytecode.items = <<>>
      /\ Consecutive
  BY <1>1 DEF AddressInv
<1>5. \/ phase' = "parse" /\ ArrayOk(asmLines')
      \/ phase' \in {"done", "badPointer"}
  <2> HIDE DEF asml
  <2> QED BY <1>1 DEF LineParsed, EndsWith, Crashes
<1> HIDE DEF asml
<1>6. items \in Seq(AssemblyLine) /\ Len(items) \in Nat
  BY DEF TypeInv, ParserTypes, IsArray
<1>7. asmLines'.items = IF ArrayOk(asmLines') THEN Append(items, asml)
                        ELSE items
  <2> DEFINE one == <<asml>>
  <2>1. one \in Seq(AssemblyLine) /\ one # <<>>
    BY <1>2
  <2>2. items \o one = Append(items, asml)
    BY <1>2, <1>6
  <2>3. IsArray(asmLines, AssemblyLine, 8)
    BY DEF TypeInv, ParserTypes
  <2>4. PICK w \in Nat \ {0} : w = 8
    OBVIOUS
  <2>5. asmLines' = AppendToArray(asmLines, one, mem)
    BY <1>3
  <2> HIDE DEF one
  <2>6. IsArray(asmLines, AssemblyLine, w)
    BY <2>3, <2>4
  <2>7. /\ ArrayOk(asmLines') => asmLines'.items = items \o one
        /\ ~ArrayOk(asmLines') => asmLines'.items = items
    BY <2>1, <2>5, <2>6, Appended
  <2> QED BY <2>2, <2>7
<1>8. CASE asmLines'.items = items
  <2>1. Consecutive'
    BY <1>4, <1>8 DEF Consecutive, LineAt, AddressAfter
  <2>2. CASE phase' \in {"done", "badPointer"}
    BY <2>1, <2>2 DEF AddressInv
  <2>3. CASE ArrayOk(asmLines')
    <3>1. Append(items, asml) # items
      BY <1>2, <1>6
    <3> QED BY <1>7, <1>8, <2>3, <3>1
  <2> QED BY <1>5, <2>2, <2>3
<1>9. CASE asmLines'.items = Append(items, asml)
  <2> DEFINE new == asmLines'.items
  <2>0. PICK l \in Nat : l = Len(items)
    BY <1>6
  <2>1. /\ Len(new) = l + 1 /\ new[l + 1] = asml
        /\ \A i \in 1 .. l : new[i] = items[i]
    BY <1>2, <1>6, <1>9, <2>0
  <2>2. \A i \in 1 .. l : LineAt(i)' = LineAt(i)
    BY <2>1 DEF LineAt
  <2>3. LineAt(l + 1)' = asml
    BY <2>1 DEF LineAt
  <2>4. \A i \in 0 .. l : (AddressAfter(i))' = AddressAfter(i)
    BY <1>6, <2>2 DEF AddressAfter
  <2>5. Consecutive'
    <3> SUFFICES ASSUME NEW i \in 1 .. l + 1
                 PROVE  LineAt(i)'.address = (AddressAfter(i - 1))'
      BY <2>1 DEF Consecutive
    <3>1. i - 1 \in 0 .. l
      BY <1>6
    <3>2. CASE i = l + 1
      <4>1. i - 1 = l
        BY <1>6, <3>2
      <4> QED BY <1>2, <1>4, <2>0, <2>3, <2>4, <3>1, <3>2, <4>1
    <3>3. CASE i # l + 1
      <4>1. i \in 1 .. l
        BY <1>6, <3>3
      <4> QED BY <1>4, <2>0, <2>2, <2>4, <3>1, <4>1 DEF Consecutive
    <3> QED BY <3>2, <3>3
  <2>6. (AddressAfter(l + 1))' = address'
    <3>1. l + 1 # 0
      BY <1>6
    <3> QED BY <1>1, <1>2, <2>3, <3>1 DEF AddressAfter, asml
  <2>7. address' = (AddressAfter(Len(asmLines.items)))'
    BY <2>1, <2>6
  <2> QED BY <1>1, <1>4, <1>5, <2>5, <2>7 DEF AddressInv
<1> QED BY <1>7, <1>8, <1>9

(* An instruction puts no more bytes into the bytecode than the parser
   counted. *)
LEMMA AtMostWritten ==
  ASSUME GeneratorTypes, NEW asml \in AssemblyLine,
         asml.type = "instruction", WriteBytecode(asml)
  PROVE  Len(bytecode'.items) <= Len(bytecode.items) + SizeOf(asml)
<1> DEFINE first == <<Opcodes[asml.opcode]>>
           second == OperandBytes(asml)
<1>1. PICK mem1 \in BOOLEAN, mem2 \in BOOLEAN :
        LET opcode  == AppendToArray(bytecode, first, mem1)
            operand == AppendToArray(opcode, second, mem2)
        IN  bytecode' \in {bytecode, opcode, operand}
  BY DEF WriteBytecode
<1> DEFINE opcode  == AppendToArray(bytecode, first, mem1)
           operand == AppendToArray(opcode, second, mem2)
<1>2. bytecode' \in {bytecode, opcode, operand}
  BY <1>1
<1>3. IsArray(bytecode, 0 .. 255, 1)
  BY DEF GeneratorTypes
<1>4. first \in Seq(0 .. 255) /\ Len(first) = 1 /\ second \in Seq(0 .. 255)
  BY InstructionFacts
<1>5. Len(second) = (IF asml.opcode \in TakesByte THEN 1 ELSE 0)
  BY DEF OperandBytes
<1>6. 1 + Len(second) <= SizeOf(asml) /\ SizeOf(asml) \in Nat
      /\ Len(second) \in Nat
  BY <1>5 DEF SizeOf, InstructionSize, TakesByte
<1> HIDE DEF first, second
<1> HIDE DEF opcode, operand
<1> DEFINE Bytes == 0 .. 255
<1>7. IsArray(bytecode, Bytes, 1) /\ first \in Seq(Bytes)
      /\ second \in Seq(Bytes)
  BY <1>3, <1>4
<1> HIDE DEF Bytes
<1>8. IsArray(opcode, Bytes, 1)
      /\ Len(opcode.items) <= Len(bytecode.items) + Len(first)
  BY <1>7, AtMostAppended DEF opcode
<1>9. IsArray(operand, Bytes, 1)
      /\ Len(operand.items) <= Len(opcode.items) + Len(second)
  BY <1>7, <1>8, AtMostAppended DEF operand
<1>10. Len(bytecode.items) \in Nat /\ Len(opcode.items) \in Nat
       /\ Len(operand.items) \in Nat
  <2>1. \A a : IsArray(a, Bytes, 1) => Len(a.items) \in Nat
    BY DEF IsArray
  <2> QED BY <1>7, <1>8, <1>9, <2>1
<1>11. \A x, y, z, n, m \in Nat :
         y <= x + 1 /\ z <= y + n /\ 1 + n <= m =>
           x <= x + m /\ y <= x + m /\ z <= x + m
  OBVIOUS
<1> QED BY <1>2, <1>4, <1>6, <1>8, <1>9, <1>10, <1>11

(* One other than PUSH puts as many there, unless a message is lost. *)
LEMMA BytesWritten ==
  ASSUME GeneratorTypes, NEW asml \in AssemblyLine,
         asml.type = "instruction", asml.opcode # "PUSH",
         WriteBytecode(asml), phase' = "generate", ~messageLost'
  PROVE  Len(bytecode'.items) = Len(bytecode.items) + SizeOf(asml)
         /\ next' = next + 1
<1> DEFINE first == <<Opcodes[asml.opcode]>>
           second == OperandBytes(asml)
<1>1. PICK mem1 \in BOOLEAN, mem2 \in BOOLEAN :
        LET opcode  == AppendToArray(bytecode, first, mem1)
            operand == AppendToArray(opcode, second, mem2)
        IN  /\ ArrayOk(opcode) /\ ArrayOk(operand) /\ bytecode' = operand
            /\ next' = next + 1
  BY DEF WriteBytecode, GenerationFails, EndsWith, Generated,
         Passes, Crashes
<1> DEFINE opcode  == AppendToArray(bytecode, first, mem1)
           operand == AppendToArray(opcode, second, mem2)
<1>2. /\ ArrayOk(opcode) /\ ArrayOk(operand) /\ bytecode' = operand
      /\ next' = next + 1
  BY <1>1
<1>3. IsArray(bytecode, 0 .. 255, 1) /\ 1 \in Nat \ {0}
  BY DEF GeneratorTypes
<1>4. first \in Seq(0 .. 255) /\ first # <<>> /\ Len(first) = 1
      /\ second \in Seq(0 .. 255)
  BY InstructionFacts
<1>5. Len(second) = (IF asml.opcode \in TakesByte THEN 1 ELSE 0)
      /\ (second = <<>> <=> asml.opcode \notin TakesByte)
  BY DEF OperandBytes
<1>6. SizeOf(asml) = 1 + Len(second)
  BY <1>5 DEF SizeOf, InstructionSize
<1> HIDE DEF first, second
<1> HIDE DEF opcode, operand
<1> DEFINE Bytes == 0 .. 255
<1>7. /\ IsArray(bytecode, Bytes, 1)
      /\ first \in Seq(Bytes) /\ second \in Seq(Bytes)
  BY <1>3, <1>4
<1> HIDE DEF Bytes
<1>8. IsArray(opcode, Bytes, 1)
      /\ Len(opcode.items) = Len(bytecode.items) + Len(first)
  <2>1. opcode = AppendToArray(bytecode, first, mem1)
    BY DEF opcode
  <2> QED BY <1>2, <1>7, <2>1, BytesAppended
<1>9. Len(operand.items) = Len(opcode.items) + Len(second)
  <2>1. operand = AppendToArray(opcode, second, mem2)
    BY DEF operand
  <2>2. ArrayOk(operand)
    BY <1>2
  <2>3. IsArray(opcode, Bytes, 1)
    BY <1>8
  <2>4. second \in Seq(Bytes)
    BY <1>7
  <2> QED BY <2>1, <2>2, <2>3, <2>4, BytesAppended
<1>10. Len(second) \in Nat /\ Len(bytecode.items) \in Nat /\ Len(first) = 1
  BY <1>4, <1>7 DEF IsArray
<1>11. Len(operand.items) = Len(bytecode.items) + SizeOf(asml)
  <2>1. \A x, y \in Nat : (x + 1) + y = x + (1 + y)
    OBVIOUS
  <2>2. Len(operand.items) = (Len(bytecode.items) + 1) + Len(second)
    BY <1>8, <1>9, <1>10
  <2> QED BY <1>6, <1>10, <2>1, <2>2
<1> QED BY <1>2, <1>11

(* One more line behind the generator. *)
LEMMA OneMoreLine ==
  ASSUME TypeInv, AddressInv, phase = "generate",
         next < Len(asmLines.items),
         UNCHANGED asmLines, phase' = "generate", next' = next + 1,
         GeneratorTypes', messageLost' \in {messageLost, TRUE},
         Len(bytecode'.items) <= Len(bytecode.items) + SizeOf(LineAt(next + 1)),
         PushFree(next + 1) /\ ~messageLost' =>
           Len(bytecode'.items)
             = Len(bytecode.items) + SizeOf(LineAt(next + 1))
  PROVE  AddressInv'
<1> DEFINE asml == LineAt(next + 1)
<1>1. /\ next \in Nat /\ Len(asmLines.items) \in Nat
      /\ asmLines.items \in Seq(AssemblyLine)
      /\ next + 1 \in 1 .. Len(asmLines.items)
  BY DEF TypeInv, ControlTypes, ParserTypes, IsArray
<1>2. /\ ArraySize(bytecode) = Len(bytecode.items)
      /\ ArraySize(bytecode') = Len(bytecode'.items)
  <2>1. bytecode.items \in Seq(0 .. 255) /\ bytecode'.items \in Seq(0 .. 255)
        /\ bytecode.width = 1 /\ bytecode'.width = 1
    BY DEF TypeInv, GeneratorTypes, IsArray
  <2> DEFINE Bytes == 0 .. 255
  <2>2. bytecode.items \in Seq(Bytes) /\ bytecode'.items \in Seq(Bytes)
    BY <2>1
  <2> HIDE DEF Bytes
  <2>3. Len(bytecode.items) \in Nat /\ Len(bytecode'.items) \in Nat
    BY <2>2
  <2> QED BY <2>1, <2>3 DEF ArraySize
<1>3. /\ Consecutive /\ ArraySize(bytecode) <= AddressAfter(next)
      /\ PushFree(next) /\ ~messageLost =>
           ArraySize(bytecode) = AddressAfter(next)
  BY DEF AddressInv
<1>4. asml.address = AddressAfter(next)
  <2>1. (next + 1) - 1 = next
    BY <1>1
  <2> QED BY <1>1, <1>3, <2>1 DEF Consecutive
<1>5. AddressAfter(next + 1) = AddressAfter(next) + SizeOf(asml)
  BY <1>1, <1>4 DEF AddressAfter
<1>6. AddressAfter(next) \in Nat /\ SizeOf(asml) \in Nat
      /\ Len(bytecode.items) \in Nat /\ Len(bytecode'.items) \in Nat
  <2>1. asml \in AssemblyLine
    BY <1>1 DEF LineAt
  <2>2. asml.address \in Nat
    <3> HIDE DEF asml
    <3> QED BY <2>1 DEF AssemblyLine, Operation
  <2>3. bytecode.items \in Seq(0 .. 255) /\ bytecode'.items \in Seq(0 .. 255)
    BY DEF TypeInv, GeneratorTypes, IsArray
  <2> DEFINE Bytes == 0 .. 255
  <2>4. bytecode.items \in Seq(Bytes) /\ bytecode'.items \in Seq(Bytes)
    BY <2>3
  <2> HIDE DEF Bytes
  <2>5. Len(bytecode.items) \in Nat /\ Len(bytecode'.items) \in Nat
    BY <2>4
  <2> QED BY <1>4, <2>2, <2>5, SizeFacts
<1>7. ArraySize(bytecode') <= AddressAfter(next + 1)
  <2> HIDE DEF asml
  <2> QED BY <1>2, <1>3, <1>5, <1>6 DEF asml
<1>8. PushFree(next + 1) /\ ~messageLost' =>
        ArraySize(bytecode') = AddressAfter(next + 1)
  <2> SUFFICES ASSUME PushFree(next + 1), ~messageLost'
               PROVE  ArraySize(bytecode') = AddressAfter(next + 1)
    OBVIOUS
  <2>0. messageLost' = messageLost \/ messageLost' = TRUE
    OBVIOUS
  <2>1. PushFree(next) /\ ~messageLost
    <3>1. \A i \in 1 .. next : i \in 1 .. next + 1
      BY <1>1
    <3>2. PushFree(next)
      BY <3>1, Zenon DEF PushFree
    <3>3. ~messageLost
      BY <2>0
    <3> QED BY <3>2, <3>3
  <2> QED BY <1>2, <1>3, <1>5, <2>1
<1>9. next' <= Len(asmLines'.items)
  BY <1>1
<1>10. /\ Consecutive' /\ ArraySize(bytecode)' <= (AddressAfter(next))'
       /\ (PushFree(next) /\ ~messageLost)' =>
             ArraySize(bytecode)' = (AddressAfter(next))'
  BY <1>3, <1>7, <1>8, AddressFrame
<1> QED BY <1>9, <1>10 DEF AddressInv

(* The fourth part. *)
LEMMA AddressStep ==
  ASSUME TypeInv, AddressInv, [Next]_vars
  PROVE  AddressInv'
<1> USE DEF Ends, EndsWith, Crashes
<1>0. GeneratorTypes /\ ParserTypes /\ ControlTypes /\ GeneratorTypes'
  BY TypeStep DEF TypeInv
<1>1. CASE LineParsed
  BY <1>1, LineParsedStep
<1>2. CASE Split \/ LineInError \/ LineNotAllocated
  <2>1. /\ UNCHANGED <<asmLines, address, bytecode>>
        /\ phase \in {"read", "parse"} /\ phase' # "generate"
    BY <1>2 DEF Split, LineInError, LineNotAllocated, generator, parser
  <2> QED BY <2>1, AddressFrame DEF AddressInv
<1>3. CASE AllParsed
  <2>1. /\ UNCHANGED <<asmLines, address, bytecode>>
        /\ phase = "parse" /\ phase' = "generate" /\ next' = 0
    BY <1>3 DEF AllParsed, generator, parser
  <2>2. ArraySize(bytecode) = 0 /\ AddressAfter(0) = 0
    BY <1>0, <2>1 DEF ArraySize, AddressAfter, GeneratorTypes, IsArray,
                      AddressInv
  <2>3. 0 <= Len(asmLines.items)
    BY <1>0 DEF ParserTypes, IsArray
  <2> QED BY <2>1, <2>2, <2>3, AddressFrame DEF AddressInv
<1>4. CASE GenerateInstruction
  <2> DEFINE asml == LineAt(next + 1)
  <2>1. /\ phase = "generate" /\ next < Len(asmLines.items)
        /\ asml.type = "instruction" /\ WriteBytecode(asml)
        /\ UNCHANGED asmLines /\ phase' \in {"generate"} \cup Ends
        /\ messageLost' \in {messageLost, TRUE}
    BY <1>4 DEF GenerateInstruction, WriteBytecode, GenerationFails,
                Generated, Passes, parser
  <2>2. asml \in AssemblyLine /\ next \in Nat
    BY <1>0, <2>1, LineFacts DEF ControlTypes
  <2>3. CASE phase' = "generate"
    <3>1. next' = next + 1
      BY <2>1, <2>3 DEF WriteBytecode, GenerationFails, Generated, Passes
    <3>2. ASSUME PushFree(next + 1), ~messageLost'
          PROVE  Len(bytecode'.items) = Len(bytecode.items) + SizeOf(asml)
      <4>1. next + 1 \in 1 .. next + 1
        BY <2>2
      <4>2. asml.opcode # "PUSH"
        BY <2>1, <3>2, <4>1 DEF PushFree
      <4> HIDE DEF asml
      <4> QED BY <1>0, <2>1, <2>2, <2>3, <3>2, <4>2, BytesWritten
    <3>3. Len(bytecode'.items) <= Len(bytecode.items) + SizeOf(asml)
      <4> HIDE DEF asml
      <4> QED BY <1>0, <2>1, <2>2, AtMostWritten
    <3> QED BY <1>0, <2>1, <2>3, <3>1, <3>2, <3>3, OneMoreLine
  <2>4. CASE phase' # "generate"
    BY <2>1, <2>4, AddressFrame DEF AddressInv
  <2> QED BY <2>3, <2>4
<1>5. CASE HandleDirective \/ SkipLine
  <2> DEFINE asml == LineAt(next + 1)
  <2>1. /\ phase = "generate" /\ next < Len(asmLines.items)
        /\ asml.type # "instruction" /\ UNCHANGED <<asmLines, bytecode>>
        /\ messageLost' \in {messageLost, TRUE}
        /\ \/ phase' = "generate" /\ next' = next + 1
           \/ phase' \in Ends
    BY <1>5 DEF HandleDirective, SkipLine, GenerationFails, Generated, Passes, parser,
                generator
  <2>2. CASE phase' = "generate"
    <3>1. SizeOf(asml) = 0 /\ Len(bytecode.items) \in Nat
      BY <1>0, <2>1, ImageSizes DEF SizeOf
    <3>2. next' = next + 1
      BY <2>1, <2>2
    <3>3. Len(bytecode'.items) = Len(bytecode.items) + SizeOf(asml)
      BY <2>1, <3>1
    <3>4. Len(bytecode'.items) <= Len(bytecode.items) + SizeOf(asml)
      BY <2>1, <3>1
    <3> HIDE DEF asml
    <3> QED BY <1>0, <2>1, <2>2, <3>2, <3>3, <3>4, OneMoreLine DEF asml
  <2>3. CASE phase' \in Ends
    BY <2>1, <2>3, AddressFrame DEF AddressInv
  <2> QED BY <2>1, <2>2, <2>3
<1>6. CASE \/ ReadFails \/ SourceIsEmpty \/ OpenImage \/ WriteHeader
           \/ WriteProgram \/ WriteSymbol \/ SymbolHasNoName \/ WriteFails
           \/ ImageComplete \/ Kill
  <2>1. UNCHANGED asmLines /\ phase' \notin {"read", "parse", "generate"}
    BY <1>6 DEF ReadFails, SourceIsEmpty, OpenImage, WriteHeader, WriteProgram,
                WriteSymbol, SymbolHasNoName, WriteFails, ImageComplete, Kill,
                parser
  <2> QED BY <2>1, AddressFrame DEF AddressInv
<1>7. CASE Load \/ UNCHANGED vars
  <2>1. UNCHANGED <<phase, next, address, asmLines, bytecode, messageLost>>
    BY <1>7 DEF Load, vars, parser, generator
  <2> QED BY <2>1, AddressFrame DEF AddressInv
<1> QED BY <1>1, <1>2, <1>3, <1>4, <1>5, <1>6, <1>7 DEF Next, Assemble

-----------------------------------------------------------------------------
(***************************************************************************)
(* The lines.  Only splitLines touches them, and the text never changes.   *)
(***************************************************************************)
(* Between two newlines is one item, which may hold many tokens. *)
OneItemEach == \A i \in 2 .. Len(text) : Newline \in {text[i - 1], text[i]}

LinesAreThere == text # <<>> /\ lines = AllLines

SplitInv ==
  /\ OneItemEach
  /\ phase = "read" => lines = <<>>
  /\ phase = "assertion" => HasBlankLine \/ Last(text) = Newline
  /\ phase # "assertion" /\ lines # <<>> => LinesAreThere

(* What is said of the text and the lines depends on them only. *)
LEMMA LinesFrame ==
  ASSUME UNCHANGED <<text, lines>>
  PROVE  /\ OneItemEach' <=> OneItemEach
         /\ HasBlankLine' <=> HasBlankLine
         /\ Last(text)' = Last(text)
         /\ LinesAreThere' <=> LinesAreThere
BY DEF OneItemEach, HasBlankLine, LinesAreThere, AllLines, LinesBehind,
       SplitLines, LineEnd, LineEnds, NumLines, Terminators, IsTerminator,
       RunsPastEnd, Last

LEMMA InitSplit == Init => SplitInv
<1> SUFFICES ASSUME Init PROVE SplitInv
  OBVIOUS
<1>1. text \in Sources /\ phase = "read" /\ lines = <<>>
  BY DEF Init
<1> QED BY <1>1, SourcesAssumption DEF SplitInv, OneItemEach

LEMMA SplitStep ==
  ASSUME TypeInv, SplitInv, [Next]_vars
  PROVE  SplitInv'
<1> USE DEF EndsWith, Crashes
<1>0. text \in Text
  BY DEF TypeInv, ParserTypes
<1>1. CASE Split
  <2>1. /\ text # <<>> /\ text' = text
        /\ phase' \in {"parse", "assertion"}
        /\ phase' = "parse" => lines' = AllLines
        /\ phase' = "assertion" => RunsPastEnd \/ Len(SplitLines) # NumLines
    BY <1>1 DEF Split, AllLines
  <2>2. Len(SplitLines) = Cardinality(LineEnds)
    <3>1. Cardinality(LineEnds) \in Nat
      BY <1>0, LineEndFacts
    <3> QED BY <3>1 DEF SplitLines
  <2>3. phase' = "assertion" => HasBlankLine \/ Last(text) = Newline
    BY <1>0, <2>1, <2>2, NoneLeftOver
  <2>4. /\ OneItemEach' <=> OneItemEach
        /\ HasBlankLine' <=> HasBlankLine
        /\ Last(text)' = Last(text)
    BY <2>1 DEF OneItemEach, HasBlankLine, Last
  <2>5. SplitLines' = SplitLines /\ NumLines' = NumLines
    BY <2>1 DEF SplitLines, LineEnd, LineEnds, NumLines, Terminators,
                IsTerminator, RunsPastEnd, Last
  <2>6. AllLines' = AllLines
    BY <2>5 DEF AllLines, LinesBehind
  <2> QED BY <2>1, <2>3, <2>4, <2>6 DEF SplitInv, LinesAreThere
<1>2. ASSUME UNCHANGED <<text, lines>>, phase' = "read" => phase = "read",
             phase' = "assertion" <=> phase = "assertion"
      PROVE  SplitInv'
  BY <1>2, LinesFrame DEF SplitInv
<1>3. CASE \/ ReadFails \/ SourceIsEmpty \/ LineInError \/ LineParsed
           \/ LineNotAllocated \/ AllParsed
  BY <1>2, <1>3 DEF ReadFails, SourceIsEmpty, LineInError, LineParsed,
                    LineNotAllocated, AllParsed, parser
<1>4. CASE GenerateInstruction \/ HandleDirective \/ SkipLine
  BY <1>2, <1>4 DEF GenerateInstruction, WriteBytecode, GenerationFails,
                    Generated, Passes, HandleDirective, SkipLine, parser
<1>5. CASE \/ OpenImage \/ WriteHeader \/ WriteProgram \/ WriteSymbol
           \/ SymbolHasNoName \/ WriteFails \/ ImageComplete
  BY <1>2, <1>5 DEF OpenImage, WriteHeader, WriteProgram, WriteSymbol,
                    SymbolHasNoName, WriteFails, ImageComplete, parser
<1>6. CASE Kill \/ Load \/ UNCHANGED vars
  BY <1>2, <1>6 DEF Kill, Load, vars, parser, Ends
<1> QED BY <1>1, <1>3, <1>4, <1>5, <1>6 DEF Next, Assemble

-----------------------------------------------------------------------------
(***************************************************************************)
(* The theorems                                                            *)
(***************************************************************************)
Inv == TypeInv /\ SplitInv /\ AddressInv /\ FileInv /\ LoaderInv

(* The invariant is inductive. *)
LEMMA InvHolds == Spec => []Inv
<1>1. Init => Inv
  BY InitTypes, InitSplit, InitAddress, InitFile, InitLoader DEF Inv
<1>2. Inv /\ [Next]_vars => Inv'
  BY TypeStep, SplitStep, AddressStep, FileStep, LoaderStep DEF Inv
<1> QED BY <1>1, <1>2, PTL DEF Spec

(* Whatever the source: the parser makes only lines of the type of their
   syntax, what the two arrays hold is within the memory that was allocated
   for it, and the machine stays well-typed whatever it loads. *)
THEOREM TypeTheorem == Spec => []TypeOK
<1>1. Inv => TypeOK
  <2> SUFFICES ASSUME Inv PROVE TypeOK
    OBVIOUS
  <2>1. /\ phase \in Phases /\ next \in Nat /\ status \in {0, -1}
        /\ numErrors \in Nat /\ address \in Nat
        /\ startAddress \in 0 .. MaxValue /\ symtab.status \in TableStatuses
        /\ messageLost \in BOOLEAN
    BY DEF Inv, TypeInv, ControlTypes, ParserTypes, GeneratorTypes
  <2>2. /\ asmLines.items \in Seq(AssemblyLine)
        /\ asmLines.status \in ArrayStatuses /\ ArraySound(asmLines)
    BY DEF Inv, TypeInv, ParserTypes, IsArray
  <2>3. /\ bytecode.items \in Seq(0 .. 255)
        /\ bytecode.status \in ArrayStatuses /\ ArraySound(bytecode)
    BY DEF Inv, TypeInv, GeneratorTypes, IsArray
  <2>4. /\ vm.state \in {"noProgram", "ready", "undefined"} /\ vm.loads \in 0 .. MaxLoads
        /\ vm.result \in ImageResults \cup {"none"}
    BY DEF Inv, LoaderInv, LoaderTypes
  <2> QED BY <2>1, <2>2, <2>3, <2>4 DEF TypeOK, Phases
<1> QED BY <1>1, InvHolds, PTL

(* A text that splitLines gives up on has a blank line or ends with a
   newline; of any other it makes lines that hold all of its items, each in a
   line of its own and in their order. *)
THEOREM SplitLosesNoLineTheorem == Spec => []SplitLosesNoLine
<1>1. Inv => SplitLosesNoLine
  <2> SUFFICES ASSUME Inv PROVE SplitLosesNoLine
    OBVIOUS
  <2>1. text \in Text /\ SplitInv
    BY DEF Inv, TypeInv, ParserTypes
  <2>2. ASSUME phase \notin {"read", "assertion"}, lines # <<>>
        PROVE  NotBlank([i \in DOMAIN lines |-> TokensOf(lines[i])])
                 = NotBlank(text)
    <3>1. LinesAreThere /\ OneItemEach
      BY <2>1, <2>2 DEF SplitInv
    <3> QED BY <2>1, <3>1, NoLineLost DEF LinesAreThere, OneItemEach
  <2> QED BY <2>1, <2>2 DEF SplitLosesNoLine, SplitInv
<1> QED BY <1>1, InvHolds, PTL

(* The generator reaches no line beyond the address that the parser gave it,
   and every line at that address up to the first PUSH and the first message
   of an error that is lost, whatever the labels, directives and errors were
   and whatever else found no memory. *)
THEOREM CodeAtItsAddressTheorem == Spec => []CodeAtItsAddress
<1>1. Inv => CodeAtItsAddress
  <2> SUFFICES ASSUME Inv, phase = "generate", next < Len(asmLines.items)
               PROVE  /\ ArraySize(bytecode) <= LineAt(next + 1).address
                      /\ PushFree(next) /\ ~messageLost =>
                           ArraySize(bytecode) = LineAt(next + 1).address
    BY DEF CodeAtItsAddress
  <2>1. /\ Consecutive /\ ArraySize(bytecode) <= AddressAfter(next)
        /\ PushFree(next) /\ ~messageLost =>
             ArraySize(bytecode) = AddressAfter(next)
    BY DEF Inv, AddressInv
  <2>2. next + 1 \in 1 .. Len(asmLines.items) /\ (next + 1) - 1 = next
    BY DEF Inv, TypeInv, ControlTypes, ParserTypes, IsArray
  <2> QED BY <2>1, <2>2 DEF Consecutive
<1> QED BY <1>1, InvHolds, PTL

(* A machine that is ready has the program that the header announces, whole,
   and a PC inside of it, whatever interrupted assembly left in the file,
   over whatever image it was, and whatever loads of it have failed. *)
THEOREM LoadAllOrNothingTheorem == Spec => []LoadAllOrNothing
<1>1. Inv => LoadAllOrNothing
  <2> SUFFICES ASSUME Inv, vm.state = "ready"
               PROVE  /\ Len(vm.program) = file[1].size
                      /\ vm.pc < Len(vm.program)
    BY DEF LoadAllOrNothing
  <2>1. HasLoaded /\ HeaderSound /\ file \in Seq(Cell)
    BY DEF Inv, LoaderInv, FileInv
  <2>2. Len(vm.program) = file[1].size
    <3> DEFINE size == file[1].size
    <3>1. size \in Nat /\ 1 + size <= Len(file)
          /\ vm.program = SubSeq(file, 2, 1 + size)
      BY <2>1 DEF HasLoaded
    <3> HIDE DEF size
    <3> QED BY <2>1, <3>1 DEF size
  <2>3. vm.pc < file[1].size
    BY <2>1 DEF HasLoaded, HeaderSound
  <2> QED BY <2>2, <2>3
<1> QED BY <1>1, InvHolds, PTL

(* What loadVmProgramImage makes of the image of an assembly that succeeded
   is what went into it, whatever the file was before and whatever finds no
   memory: the program, the start and all the symbols at their addresses, but
   for names of which no copy could be made.  A load that wants no symbols may
   leave the first of them that an earlier one read before it failed. *)
THEOREM ImageRoundTripTheorem == Spec => []ImageRoundTrip
<1>1. Inv => ImageRoundTrip
  <2> SUFFICES ASSUME Inv, IsSaved, vm.state = "ready"
               PROVE  /\ vm.program = ProgramImage /\ vm.pc = startAddress
                      /\ Len(vm.symtab.list) <= Len(symtab.list)
                      /\ vm.wanted => Len(vm.symtab.list) = Len(symtab.list)
                      /\ \A i \in DOMAIN vm.symtab.list :
                           IsCopyOf(vm.symtab.list[i], symtab.list[i])
    BY DEF ImageRoundTrip
  <2> DEFINE size == Len(bytecode.items)
  <2>1. HasLoaded /\ HasHeader /\ HasProgram /\ file \in Seq(Cell)
    BY DEF Inv, LoaderInv, FileInv, HasImage
  <2>2. /\ size \in Nat /\ ArraySize(bytecode) = size
        /\ ProgramImage \in Seq(Cell) /\ Len(ProgramImage) = size
        /\ \A i \in 1 .. size : ProgramImage[i] = ByteCell(bytecode.items[i])
    BY ImageSizes DEF Inv, TypeInv
  <2>3. file[1].size = size /\ file[1].start = startAddress
    BY <2>1, <2>2 DEF HasHeader, HeaderCell
  <2>4. vm.program = ProgramImage
    <3>1. /\ vm.program = SubSeq(file, 2, 1 + size)
          /\ 1 + size <= Len(file)
      BY <2>1, <2>3 DEF HasLoaded
    <3>2. \A i \in 1 .. size : file[1 + i] = ByteCell(bytecode.items[i])
      BY <2>1 DEF HasProgram
    <3> HIDE DEF size
    <3> DEFINE program == SubSeq(file, 2, 1 + size)
               image == ProgramImage
    <3>3. /\ program \in Seq(Cell) /\ Len(program) = size
          /\ \A i \in 1 .. size : program[i] = file[1 + i]
      BY <2>1, <2>2, <3>1
    <3>4. /\ image \in Seq(Cell) /\ Len(image) = size
          /\ \A i \in 1 .. size : image[i] = file[1 + i]
      BY <2>2, <3>2
    <3> HIDE DEF program, image
    <3>5. program = image
      BY <3>3, <3>4
    <3> QED BY <3>1, <3>5 DEF program, image
  <2>5. vm.pc = startAddress
    BY <2>1, <2>3 DEF HasLoaded
  <2>6. /\ IsBeginning(vm.symtab.list, symtab.list)
        /\ vm.wanted => Len(vm.symtab.list) = Len(symtab.list)
    BY DEF Inv, LoaderInv
  <2>7. DOMAIN vm.symtab.list = 1 .. Len(vm.symtab.list)
    BY DEF Inv, LoaderInv, LoaderTypes, TwoIndexes, SoundTable, SoundList
  <2> QED BY <2>4, <2>5, <2>6, <2>7 DEF IsBeginning
<1> QED BY <1>1, InvHolds, PTL
=============================================================================
