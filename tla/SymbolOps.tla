----------------------------- MODULE SymbolOps -----------------------------
(***************************************************************************)
(* The symbol table (src/src/symtab.c) as a value: a hash table by name    *)
(* and a list by address that hold the same symbols.                       *)
(*                                                                         *)
(* A table t is a record                                                   *)
(*   chains     bucket |-> the symbols linked from it, in order            *)
(*   size       which of BucketSizes the hash table has                    *)
(*   list       the symbols in the order of their addresses                *)
(*   allocated  the slots of the list (endOfSymbols - symbols)             *)
(*   max        the most symbols it may hold                               *)
(*   status     the outcome of the last addition                           *)
(*                                                                         *)
(* The list of the code points into the links of the chains; a link never  *)
(* moves, so a symbol stands for the link that holds it.                   *)
(***************************************************************************)
EXTENDS Integers, SequencesExt

CONSTANTS
  Name,             \* what a symbol may be called
  HashCodes,        \* name |-> its hash code
  BucketSizes,      \* HASH_TABLE_NUM_BUCKETS
  InitialListSize,  \* INITIAL_LIST_SIZE
  NoSymbol          \* NULL, for a symbol or for its name

ASSUME SymbolOpsAssumption ==
  /\ HashCodes \in [Name -> Nat]
  /\ BucketSizes \in Seq(Nat \ {0}) /\ BucketSizes # <<>>
  /\ InitialListSize \in Nat \ {0}
  /\ NoSymbol \notin [name : Name \cup {NoSymbol}, address : Nat]
  /\ NoSymbol \notin Name

(* A table with the status "nullName" is one in which a name was read through
   a null pointer: what happens then is undefined. *)
TableStatuses ==
  {"ok", "symbolExists", "addressTaken", "full", "noMemory", "nullName"}

(* The allocations of addSymbolToTable; its argument mem is the set of those
   that find memory.  It looks at all but that of the copy of the name. *)
Allocations == {"buckets", "link", "name", "list"}

NoName == NoSymbol

Symbol(name, address) == [name |-> name, address |-> address]

HashName(name) == HashCodes[name]

NumBuckets(t) == BucketSizes[t.size]
BucketOf(t, name) == HashName(name) % NumBuckets(t)
ChainOf(t, name) == t.chains[BucketOf(t, name)]

CreatedTable(max) ==
  [chains |-> [b \in 0 .. BucketSizes[1] - 1 |-> <<>>], size |-> 1,
   list |-> <<>>, allocated |-> InitialListSize, max |-> max,
   status |-> "ok"]

TableFailed(t, error) == [t EXCEPT !.status = error]

-----------------------------------------------------------------------------
(* Finding a symbol *)

(* Where findSymbolByName stops in the chain of a name: at the symbol of that
   name, or at the end of the chain; NoSymbol if the bucket is empty. *)
LinkFound(t, name) ==
  LET chain == ChainOf(t, name)
      at == SelectInSeq(chain, LAMBDA s : s.name = name)
  IN  IF at # 0 THEN chain[at]
      ELSE IF chain = <<>> THEN NoSymbol ELSE Last(chain)

FindSymbol(t, name) ==
  LET link == LinkFound(t, name)
  IN  IF link # NoSymbol /\ link.name = name THEN link ELSE NoSymbol

(* findSymbolByName compares a name with that of every link it passes. *)
SearchMeetsNull(t, name) ==
  LET chain == ChainOf(t, name)
  IN  \E i \in DOMAIN chain :
        /\ chain[i].name = NoName
        /\ \A j \in 1 .. i - 1 : chain[j].name # name

(* The loop of findSymbolByAddress over the list, with <<i, j>> for what is
   left to search: the index of the address, counted from 0, or -i - 1 for the
   index i where it would go.  In the mutant the search loses the entry below
   the one it looked at. *)
Ranges(list) == (0 .. Len(list)) \X (0 .. Len(list))

BinarySearchMut(list, target) ==
  LET search[r \in Ranges(list)] ==
        LET k == (r[1] + r[2]) \div 2
        IN  IF r[1] >= r[2] THEN -r[1] - 1
            ELSE IF list[k + 1].address < target THEN search[<<k + 1, r[2]>>]
            ELSE IF target < list[k + 1].address
                 THEN search[<<r[1], IF k > r[1] THEN k - 1 ELSE k>>]
            ELSE k
  IN  search[<<0, Len(list)>>]

BinarySearch(list, target) ==
  LET search[r \in Ranges(list)] ==
        LET k == (r[1] + r[2]) \div 2
        IN  IF r[1] >= r[2] THEN -r[1] - 1
            ELSE IF list[k + 1].address < target THEN search[<<k + 1, r[2]>>]
            ELSE IF target < list[k + 1].address THEN search[<<r[1], k>>]
            ELSE k
  IN  search[<<0, Len(list)>>]

(* What the search is for: how many symbols lie below an address. *)
NumBelow(list, target) ==
  CHOOSE n \in 0 .. Len(list) :
    /\ \A i \in 1 .. n : list[i].address < target
    /\ \A i \in n + 1 .. Len(list) : target <= list[i].address

IsAddressIn(list, target) ==
  \E i \in 1 .. Len(list) : list[i].address = target

Slot(t, i) == IF i \in 1 .. Len(t.list) THEN t.list[i] ELSE NoSymbol

SymbolAt(t, address) ==
  LET i == BinarySearch(t.list, address)
  IN  IF i >= 0 THEN Slot(t, i + 1) ELSE NoSymbol

SymbolBefore(t, address) ==
  LET i == BinarySearch(t.list, address)
  IN  Slot(t, IF i < 0 THEN -i - 1 ELSE i)

(* Mutant: the index is taken from the other kind of result. *)
SymbolAtOrBeforeMut(t, address) ==
  LET i == BinarySearch(t.list, address)
  IN  Slot(t, IF i >= 0 THEN i + 1 ELSE -i)

SymbolAtOrBefore(t, address) ==
  LET i == BinarySearch(t.list, address)
  IN  Slot(t, IF i >= 0 THEN i + 1 ELSE -i - 1)

SymbolAfter(t, address) ==
  LET i == BinarySearch(t.list, address)
  IN  Slot(t, IF i < 0 THEN -i ELSE i + 2)

SymbolAtOrAfter(t, address) ==
  LET i == BinarySearch(t.list, address)
  IN  Slot(t, IF i >= 0 THEN i + 1 ELSE -i)

-----------------------------------------------------------------------------
(* Adding a symbol *)

(* increaseSymbolTableBuckets puts the links, bucket after bucket, in front
   of the new chains; it gives up silently at the largest size. *)
LinksInOrder(t) ==
  FlattenSeq([i \in 1 .. NumBuckets(t) |-> t.chains[i - 1]])

PutLinkIntoBucket(chains, n, link) ==
  [chains EXCEPT ![HashName(link.name) % n] = <<link>> \o @]

WithMoreBuckets(t, mem) ==
  IF t.size = Len(BucketSizes) \/ "buckets" \notin mem THEN t
  ELSE LET n == BucketSizes[t.size + 1]
       IN  [t EXCEPT !.size = @ + 1,
                     !.chains = FoldLeft(
                       LAMBDA chains, link : PutLinkIntoBucket(chains, n, link),
                       [b \in 0 .. n - 1 |-> <<>>], LinksInOrder(t))]

(* The load with one more symbol would exceed MAX_LOAD. *)
ExceedsLoad(t) == Len(t.list) + 1 > NumBuckets(t)

Rehashed(t, mem) == IF ExceedsLoad(t) THEN WithMoreBuckets(t, mem) ELSE t

(* A rehash reads the names of all links. *)
RehashMeetsNull(t, mem) ==
  /\ ExceedsLoad(t) /\ t.size # Len(BucketSizes) /\ "buckets" \in mem
  /\ \E b \in DOMAIN t.chains : \E i \in DOMAIN t.chains[b] :
       t.chains[b][i].name = NoName

(* increaseAddressListSize.  In the mutant the list is left alone when twice
   its size would exceed the maximum. *)
ListSlotsMut(t) ==
  IF Len(t.list) = t.allocated /\ 2 * t.allocated <= t.max
  THEN 2 * t.allocated ELSE t.allocated

ListSlots(t) ==
  IF Len(t.list) = t.allocated /\ t.allocated < t.max
  THEN IF 2 * t.allocated > t.max THEN t.max ELSE 2 * t.allocated
  ELSE t.allocated

(* insertIntoAddressList moves the symbols from index n on up by one. *)
Inserted(list, n, symbol) ==
  [i \in 1 .. Len(list) + 1 |->
     IF i <= n THEN list[i]
     ELSE IF i = n + 1 THEN symbol ELSE list[i - 1]]

(* The link that the new one goes behind: addSymbolToTable looks for the name
   again when the buckets have changed.  The mutant is the code compiled with
   NDEBUG, which drops the second search with the assert it stands in. *)
LinkBeforeMut(t, r, name) == LinkFound(t, name)
LinkBefore(t, r, name) == LinkFound(r, name)

(* The chains with the symbol of a name behind p; whatever was behind p is
   lost. *)
Linked(t, p, name, symbol) ==
  IF p = NoSymbol
  THEN [t.chains EXCEPT ![BucketOf(t, name)] = <<symbol>>]
  ELSE [b \in DOMAIN t.chains |->
          LET at == SelectInSeq(t.chains[b], LAMBDA s : s = p)
          IN  IF at = 0 THEN t.chains[b]
              ELSE Append(SubSeq(t.chains[b], 1, at), symbol)]

(* What stops addSymbolToTable before it changes anything. *)
Refusal(t, name, address) ==
  IF FindSymbol(t, name) # NoSymbol THEN "symbolExists"
  ELSE IF IsAddressIn(t.list, address) THEN "addressTaken"
  ELSE IF Len(t.list) >= t.max THEN "full"
  ELSE "ok"

(* The copy of the name is used whether there was memory for it or not. *)
NameCopied(name, mem) == IF "name" \in mem THEN name ELSE NoName

AddSymbol(t, name, address, mem) ==
  LET r == Rehashed(t, mem)
      symbol == Symbol(NameCopied(name, mem), address)
      growsList == ListSlots(t) # t.allocated
  IN  IF SearchMeetsNull(t, name) THEN TableFailed(t, "nullName")
      ELSE IF Refusal(t, name, address) # "ok"
      THEN TableFailed(t, Refusal(t, name, address))
      ELSE IF RehashMeetsNull(t, mem) THEN TableFailed(t, "nullName")
      ELSE IF "link" \notin mem \/ (growsList /\ "list" \notin mem)
      THEN TableFailed(r, "noMemory")
      ELSE [r EXCEPT
              !.list = Inserted(@, NumBelow(@, address), symbol),
              !.allocated = ListSlots(t),
              !.chains = Linked(r, LinkBefore(t, r, name), name, symbol),
              !.status = "ok"]

(* clearSymbolTable keeps the buckets, the slots of the list and the status. *)
ClearTable(t) ==
  [t EXCEPT !.chains = [b \in DOMAIN @ |-> <<>>], !.list = <<>>]

-----------------------------------------------------------------------------
(* The two indexes hold the same symbols: every chain has only names that
   hash to its bucket, no name twice, and no more than one symbol without a
   name; and the list has the symbols of the chains. *)
SymbolsIn(seq) == {seq[i] : i \in DOMAIN seq}

ChainsSound(t) ==
  /\ DOMAIN t.chains = 0 .. NumBuckets(t) - 1
  /\ \A b \in DOMAIN t.chains :
       /\ \A i, j \in DOMAIN t.chains[b] :
            t.chains[b][i].name = t.chains[b][j].name => i = j
       /\ \A i \in DOMAIN t.chains[b] :
            t.chains[b][i].name # NoName =>
              HashName(t.chains[b][i].name) % NumBuckets(t) = b

ListSorted(list) ==
  \A i, j \in DOMAIN list : i < j => list[i].address < list[j].address

IndexesMatch(t) ==
  SymbolsIn(t.list) = UNION {SymbolsIn(t.chains[b]) : b \in DOMAIN t.chains}
=============================================================================
