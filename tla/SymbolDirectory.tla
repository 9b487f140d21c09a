-------------------------- MODULE SymbolDirectory --------------------------
(***************************************************************************)
(* What a symbol table is: a set of symbols in which no name and no address*)
(* occurs twice.  An addition does all of its work or none, and a search   *)
(* says what is in the set; but an addition may lose the name of the       *)
(* symbol, and then a call that is given a name may be undefined.          *)
(***************************************************************************)
EXTENDS Integers, Sequences, FiniteSets

CONSTANTS
  Names, Addresses,
  Limit,            \* the most symbols
  Null              \* no symbol, or no name

VARIABLES
  symbols,          \* the symbols that were added
  call,             \* the last call: routine and arguments
  answer,           \* what it returned
  undefined         \* it read a name where there is none

avars == <<symbols, call, answer, undefined>>

NamesIn(S) == {s.name : s \in S}
AddressesIn(S) == {s.address : s \in S}

AInit == symbols = {} /\ call.routine = "createSymbolTable" /\ answer = Null
         /\ ~undefined

Calls(routine, arguments) ==
  call' = [routine |-> routine, arguments |-> arguments]

(* A call that is defined, after none that was not. *)
Called(routine, arguments) ==
  Calls(routine, arguments) /\ ~undefined /\ ~undefined'

(* Memory may run out in any addition that could have succeeded, or only for
   the copy of the name, which is not reported. *)
AAdd(name, address) ==
  /\ Called("addSymbolToTable", <<name, address>>)
  /\ LET known == name \in NamesIn(symbols)
         taken == address \in AddressesIn(symbols)
         full == Cardinality(symbols) = Limit
     IN  \/ known /\ answer' = "symbolExists" /\ UNCHANGED symbols
         \/ ~known /\ taken /\ answer' = "addressTaken" /\ UNCHANGED symbols
         \/ /\ ~known /\ ~taken /\ full
            /\ answer' = "full" /\ UNCHANGED symbols
         \/ /\ ~known /\ ~taken /\ ~full
            /\ \/ answer' = "noMemory" /\ UNCHANGED symbols
               \/ /\ \E copy \in {name, Null} :
                       symbols' = symbols \cup
                                    {[name |-> copy, address |-> address]}
                  /\ answer' = "ok"

AClear ==
  Called("clearSymbolTable", <<>>) /\ symbols' = {} /\ answer' = Null

(* The answer is the one symbol of a set that has at most one. *)
Answers(S) == answer' \in IF S = {} THEN {Null} ELSE S

(* The symbols of S with no other of S above, or below. *)
Highest(S) == {s \in S : \A r \in S : r.address <= s.address}
Lowest(S) == {s \in S : \A r \in S : s.address <= r.address}

AFind(name) ==
  /\ Called("findSymbol", <<name>>)
  /\ Answers({s \in symbols : s.name = name})
  /\ UNCHANGED symbols

ALookUp(a) ==
  /\ \/ /\ Called("getSymbolAtAddress", <<a>>)
        /\ Answers({s \in symbols : s.address = a})
     \/ /\ Called("getSymbolBeforeAddress", <<a>>)
        /\ Answers(Highest({s \in symbols : s.address < a}))
     \/ /\ Called("getSymbolAtOrBeforeAddress", <<a>>)
        /\ Answers(Highest({s \in symbols : s.address <= a}))
     \/ /\ Called("getSymbolAfterAddress", <<a>>)
        /\ Answers(Lowest({s \in symbols : s.address > a}))
     \/ /\ Called("getSymbolAtOrAfterAddress", <<a>>)
        /\ Answers(Lowest({s \in symbols : s.address >= a}))
  /\ UNCHANGED symbols

(* The iterator runs through all symbols by ascending address. *)
AIterate ==
  /\ Called("startOfSymbolTable", <<>>)
  /\ {answer'[i] : i \in DOMAIN answer'} = symbols
  /\ \A i, j \in DOMAIN answer' :
       i < j => answer'[i].address < answer'[j].address
  /\ UNCHANGED symbols

(* A call that is given a name, while some symbol has none. *)
AUndefined ==
  /\ Null \in NamesIn(symbols) /\ ~undefined
  /\ \E name \in Names :
       \/ Calls("findSymbol", <<name>>)
       \/ \E a \in Addresses : Calls("addSymbolToTable", <<name, a>>)
  /\ undefined' /\ UNCHANGED symbols

ANext ==
  \/ \E name \in Names, a \in Addresses : AAdd(name, a)
  \/ \E name \in Names : AFind(name)
  \/ \E a \in Addresses : ALookUp(a)
  \/ AClear \/ AIterate \/ AUndefined

ASpec == AInit /\ [][ANext]_avars
=============================================================================
