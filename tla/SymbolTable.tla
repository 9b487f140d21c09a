----------------------------- MODULE SymbolTable ---------------------------
(***************************************************************************)
(* One symbol table, src/src/symtab.c, under any sequence of calls.        *)
(***************************************************************************)
EXTENDS SymbolOps

CONSTANTS
  Address,      \* the addresses that symbols are given
  MaxSymbols    \* maxSize of createSymbolTable

ASSUME SymbolTableAssumption ==
  Address \subseteq Nat /\ MaxSymbols \in Nat

VARIABLES
  table,
  call,     \* the routine called last and its arguments
  answer    \* the symbol it returned, or the status of an addition

vars == <<table, call, answer>>

Call(routine, arguments) == [routine |-> routine, arguments |-> arguments]

Init ==
  /\ table = CreatedTable(MaxSymbols)
  /\ call = Call("createSymbolTable", <<>>)
  /\ answer = NoSymbol

(* Once a null pointer was read, nothing is known of what follows. *)
Defined == table.status # "nullName"

Add(name, address) ==
  /\ Defined
  /\ \E mem \in SUBSET Allocations :
       table' = AddSymbol(table, name, address, mem)
  /\ call' = Call("addSymbolToTable", <<name, address>>)
  /\ answer' = table'.status

Clear ==
  /\ Defined
  /\ table' = ClearTable(table)
  /\ call' = Call("clearSymbolTable", <<>>)
  /\ answer' = NoSymbol

Find(name) ==
  /\ Defined
  /\ call' = Call("findSymbol", <<name>>)
  /\ answer' = FindSymbol(table, name)
  /\ table' = IF SearchMeetsNull(table, name)
              THEN TableFailed(table, "nullName") ELSE table

LookUp(a) ==
  /\ Defined
  /\ \/ /\ call' = Call("getSymbolAtAddress", <<a>>)
        /\ answer' = SymbolAt(table, a)
     \/ /\ call' = Call("getSymbolBeforeAddress", <<a>>)
        /\ answer' = SymbolBefore(table, a)
     \/ /\ call' = Call("getSymbolAtOrBeforeAddress", <<a>>)
        /\ answer' = SymbolAtOrBefore(table, a)
     \/ /\ call' = Call("getSymbolAfterAddress", <<a>>)
        /\ answer' = SymbolAfter(table, a)
     \/ /\ call' = Call("getSymbolAtOrAfterAddress", <<a>>)
        /\ answer' = SymbolAtOrAfter(table, a)
  /\ UNCHANGED table

(* startOfSymbolTable and nextSymbolInTable up to the end. *)
Iterate ==
  /\ Defined
  /\ call' = Call("startOfSymbolTable", <<>>)
  /\ answer' = table.list
  /\ UNCHANGED table

Next ==
  \/ \E name \in Name, a \in Address : Add(name, a)
  \/ \E name \in Name : Find(name)
  \/ \E a \in Address : LookUp(a)
  \/ Clear \/ Iterate

Spec == Init /\ [][Next]_vars

-----------------------------------------------------------------------------
(* Properties *)

(* The hash table and the list by address are two indexes of the same
   symbols, however often the buckets are rehashed and whichever of the four
   allocations of an addition fails; one that loses the name of a symbol
   leaves it in both, without a name. *)
IndexesAgree == ChainsSound(table) /\ IndexesMatch(table)

(* insertIntoAddressList keeps the list in the order its search relies on,
   and within the memory that malloc or realloc gave, which
   increaseAddressListSize does not always enlarge. *)
AddressListSound ==
  /\ table.list \in Seq([name : Name \cup {NoName}, address : Address])
  /\ ListSorted(table.list)
  /\ Len(table.list) <= table.allocated /\ Len(table.list) <= MaxSymbols

(* The binary search of findSymbolByAddress ends at the address, or where
   it would have to be inserted. *)
SearchFinds ==
  \A a \in Address :
    BinarySearch(table.list, a) =
      LET n == NumBelow(table.list, a)
      IN  IF IsAddressIn(table.list, a) THEN n ELSE -n - 1

(* Every call does what is said of a set of symbols: what was added is found
   by its name and by its address, and nothing else is.  An addition that
   finds no memory for the name says it succeeded and adds a symbol that has
   none; as long as that is in the table, a call that is given a name may be
   undefined, and no other is. *)
Directory == INSTANCE SymbolDirectory WITH
               Names <- Name, Addresses <- Address, Limit <- MaxSymbols,
               Null <- NoSymbol, symbols <- SymbolsIn(table.list),
               undefined <- table.status = "nullName"

ImplementsDirectory == Directory!ASpec
=============================================================================
