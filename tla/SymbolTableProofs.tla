------------------------- MODULE SymbolTableProofs -------------------------
(***************************************************************************)
(* The list by address of symtab.c stays sorted, without duplicates, and   *)
(* within its slots; its search finds what is there; the hash table holds  *)
(* the same symbols, each in its bucket; and the table implements the      *)
(* SymbolDirectory: for every number of symbols and sequence of calls.     *)
(***************************************************************************)
EXTENDS SymbolTable, DataLemmas

-----------------------------------------------------------------------------
(* The inductive invariant: the two indexes match, and the table is as large
   and has such addresses as the calls allow. *)
TableInv ==
  /\ TwoIndexes(table) /\ table.max = MaxSymbols
  /\ \A s \in SymbolsIn(table.list) : s.address \in Address

(* The two indexes are sound and match, whatever calls are made and whichever
   of their allocations fail: a symbol whose name could not be copied is in
   both, without a name. *)
THEOREM TwoIndexesInvariance == Spec => []TableInv
<1>1. Init => TableInv
  <2> SUFFICES ASSUME table = CreatedTable(MaxSymbols) PROVE TableInv
    BY DEF Init
  <2>1. TwoIndexes(table)
    BY CreatedHasTwoIndexes, SymbolTableAssumption
  <2>2. table.max = MaxSymbols /\ SymbolsIn(table.list) = {}
    BY DEF CreatedTable, SymbolsIn
  <2> QED BY <2>1, <2>2 DEF TableInv
<1>2. TableInv /\ [Next]_vars => TableInv'
  <2> SUFFICES ASSUME TableInv, [Next]_vars PROVE TableInv'
    OBVIOUS
  <2>0. TwoIndexes(table) /\ SoundTable(table)
    BY DEF TableInv, TwoIndexes
  <2>1. ASSUME NEW name \in Name, NEW a \in Address, Add(name, a)
        PROVE  TableInv'
    <3>1. PICK mem : table' = AddSymbol(table, name, a, mem)
      BY <2>1 DEF Add
    <3>2. TwoIndexes(table') /\ table'.max = table.max
      BY <2>0, <3>1, SymbolTableAssumption, AddFacts
    <3> DEFINE s == Symbol(NameCopied(name, mem), a)
    <3>3. AddsNothing(table, table') \/ Adds(table, table', s)
      BY <2>0, <3>1, SymbolTableAssumption, AddFacts
    <3>4. SymbolsIn(table'.list) \subseteq SymbolsIn(table.list) \cup {s}
      BY <3>3 DEF AddsNothing, Adds
    <3> QED BY <3>2, <3>4 DEF TableInv, Symbol
  <2>2. CASE Clear
    BY <2>0, <2>2, ClearKeepsTwoIndexes, ClearedTableIsSound DEF Clear, TableInv
  <2>3. CASE UNCHANGED table
    BY <2>3 DEF TableInv
  <2>4. CASE table' = TableFailed(table, "nullName")
    BY <2>0, <2>4, FailedKeepsTwoIndexes, OthersKeepTableSound DEF TableInv
  <2>5. \/ \E name \in Name, a \in Address : Add(name, a)
        \/ Clear \/ UNCHANGED table
        \/ table' = TableFailed(table, "nullName")
    BY DEF Next, Find, LookUp, Iterate, vars
  <2> QED BY <2>1, <2>2, <2>3, <2>4, <2>5
<1> QED BY <1>1, <1>2, PTL DEF Spec

(* insertIntoAddressList keeps the symbols in strictly ascending order of
   their addresses and never writes past the slots of the list, although
   increaseAddressListSize may leave it as it was. *)
THEOREM AddressListTheorem == Spec => []AddressListSound
<1>1. TableInv => AddressListSound
  <2> SUFFICES ASSUME TableInv PROVE AddressListSound
    OBVIOUS
  <2>1. /\ table.list \in Seq(Entries) /\ ListSorted(table.list)
        /\ Len(table.list) <= table.allocated /\ Len(table.list) <= MaxSymbols
    BY DEF TableInv, TwoIndexes, SoundTable, SoundList
  <2>2. ASSUME NEW i \in 1 .. Len(table.list)
        PROVE  table.list[i] \in [name : Name \cup {NoName}, address : Address]
    <3>1. table.list[i] \in Entries /\ table.list[i] \in SymbolsIn(table.list)
      BY <2>1 DEF SymbolsIn
    <3> QED BY <3>1 DEF TableInv, Entries
  <2>3. table.list \in Seq([name : Name \cup {NoName}, address : Address])
    <3> DEFINE S == [name : Name \cup {NoName}, address : Address]
    <3>1. Len(table.list) \in Nat
          /\ table.list = [i \in 1 .. Len(table.list) |-> table.list[i]]
      BY <2>1
    <3>2. \A i \in 1 .. Len(table.list) : table.list[i] \in S
      BY <2>2
    <3> HIDE DEF S
    <3>3. table.list \in Seq(S)
      BY <3>1, <3>2, SeqDef
    <3> QED BY <3>3 DEF S
  <2> QED BY <2>1, <2>3 DEF AddressListSound
<1> QED BY <1>1, TwoIndexesInvariance, PTL

(* findSymbolByAddress, whose loop halves the range that is left, ends at the
   address or at the place where it belongs, for lists of any length. *)
THEOREM SearchTheorem == Spec => []SearchFinds
<1>1. TableInv => SearchFinds
  BY SearchFacts, SymbolTableAssumption
     DEF TableInv, TwoIndexes, SoundTable, SearchFinds
<1> QED BY <1>1, TwoIndexesInvariance, PTL

(* Every link of symtab.c that has a name is in the bucket of that name, no
   name is in the chains twice, and they hold the symbols of the list by
   address: across rehashes, clears, and the failures of any of the four
   allocations of an addition, until a name is read where there is none. *)
THEOREM IndexesTheorem == Spec => []IndexesAgree
<1>1. TableInv => IndexesAgree
  <2> SUFFICES ASSUME TwoIndexes(table) PROVE IndexesAgree
    BY DEF TableInv
  <2> DEFINE n == NumBuckets(table)
  <2>1. Chained(table.chains, n) /\ SymbolsIn(table.list) = Elements(table.chains)
    BY DEF TwoIndexes, Hashed
  <2> HIDE DEF n
  <2>2. /\ DOMAIN table.chains = 0 .. n - 1
        /\ \A b \in 0 .. n - 1 :
             DOMAIN table.chains[b] = 1 .. Len(table.chains[b])
    BY <2>1 DEF Chained
  <2>3. ChainsSound(table)
    <3> DEFINE chains == table.chains
    <3> SUFFICES ASSUME NEW b \in 0 .. n - 1
                 PROVE  /\ \A i, j \in DOMAIN chains[b] :
                             chains[b][i].name = chains[b][j].name => i = j
                        /\ \A i \in DOMAIN chains[b] :
                             chains[b][i].name # NoName =>
                               HashName(chains[b][i].name) % n = b
      BY <2>2, Zenon DEF ChainsSound, n
    <3>1. \A i \in 1 .. Len(chains[b]) :
            chains[b][i].name # NoName => HashName(chains[b][i].name) % n = b
      BY <2>1 DEF Chained, InBucket, Bucket
    <3>2. \A i, j \in 1 .. Len(chains[b]) :
            chains[b][i].name = chains[b][j].name => i = j
      BY <2>1 DEF Chained, Distinct
    <3> QED BY <2>2, <3>1, <3>2
  <2>4. IndexesMatch(table)
    BY <2>1 DEF IndexesMatch, Elements
  <2> QED BY <2>3, <2>4 DEF IndexesAgree
<1> QED BY <1>1, TwoIndexesInvariance, PTL

-----------------------------------------------------------------------------
(***************************************************************************)
(* The table implements the directory.                                     *)
(***************************************************************************)

(* There are as many symbols as places in the list. *)
LEMMA NumberOfSymbols ==
  ASSUME NEW list, SoundList(list)
  PROVE  Cardinality(SymbolsIn(list)) = Len(list)
<1> DEFINE l == Len(list)
           S == SymbolsIn(list)
<1>1. l \in Nat /\ DOMAIN list = 1 .. l /\ list \in [1 .. l -> S]
  BY DEF SoundList, SymbolsIn
<1>2. \A i, j \in 1 .. l : list[i] = list[j] => i = j
  <2> SUFFICES ASSUME NEW i \in 1 .. l, NEW j \in 1 .. l, list[i] = list[j],
                      i < j
               PROVE  FALSE
    BY <1>1
  <2>1. list[i].address \in Nat
    BY AddressesAreNat DEF SoundList
  <2>2. list[i].address < list[j].address
    BY <1>1 DEF SoundList, ListSorted
  <2> QED BY <2>1, <2>2
<1>3. \A x \in S : \E i \in 1 .. l : list[i] = x
  BY <1>1 DEF SymbolsIn
<1>4. ExistsBijection(1 .. l, S)
  <2> HIDE DEF S, l
  <2>1. list \in Bijection(1 .. l, S)
    BY <1>1, <1>2, <1>3 DEF Bijection, Injection, Surjection, IsInjective
  <2> QED BY <2>1 DEF ExistsBijection
<1> HIDE DEF S
<1> QED BY <1>1, <1>4, FS_CountingElements DEF S

(* In a sorted list the k-th symbol is the highest of the first k ones, and
   the next the lowest of the others. *)
OneOf(S) == IF S = {} THEN {NoSymbol} ELSE S

LEMMA HighestIsLast ==
  ASSUME NEW t, SoundList(t.list), NEW k \in 0 .. Len(t.list),
         NEW S \in SUBSET SymbolsIn(t.list),
         \A i \in 1 .. Len(t.list) : t.list[i] \in S <=> i <= k
  PROVE  Slot(t, k) \in OneOf(Directory!Highest(S))
<1> DEFINE list == t.list
           l == Len(list)
<1>1. l \in Nat /\ DOMAIN list = 1 .. l /\ k \in 0 .. l
      /\ \A i \in 1 .. l : list[i] \in S <=> i <= k
  BY DEF SoundList
<1>2. \A x \in S : \E i \in 1 .. l : list[i] = x /\ i <= k
  BY <1>1 DEF SymbolsIn
<1>3. CASE k = 0
  <2>1. S = {}
    BY <1>1, <1>2, <1>3
  <2>2. Slot(t, k) = NoSymbol
    BY <1>3 DEF Slot
  <2> QED BY <2>1, <2>2 DEF OneOf, Directory!Highest
<1>4. CASE k # 0
  <2>1. k \in 1 .. l /\ list[k] \in S /\ Slot(t, k) = list[k]
    BY <1>1, <1>4 DEF Slot
  <2>2. ASSUME NEW x \in S
        PROVE  x.address <= list[k].address
    <3>1. PICK i \in 1 .. l : list[i] = x /\ i <= k
      BY <1>2
    <3>2. list[i].address \in Nat /\ list[k].address \in Nat
      BY <2>1, AddressesAreNat DEF SoundList
    <3>3. i < k => list[i].address < list[k].address
      BY <1>1, <2>1 DEF SoundList, ListSorted
    <3> QED BY <1>1, <3>1, <3>2, <3>3
  <2>3. Slot(t, k) \in Directory!Highest(S)
    BY <2>1, <2>2 DEF Directory!Highest
  <2> QED BY <2>3 DEF OneOf
<1> QED BY <1>3, <1>4

LEMMA LowestIsNext ==
  ASSUME NEW t, SoundList(t.list), NEW k \in 0 .. Len(t.list),
         NEW S \in SUBSET SymbolsIn(t.list),
         \A i \in 1 .. Len(t.list) : t.list[i] \in S <=> i > k
  PROVE  Slot(t, k + 1) \in OneOf(Directory!Lowest(S))
<1> DEFINE list == t.list
           l == Len(list)
<1>1. l \in Nat /\ DOMAIN list = 1 .. l /\ k \in 0 .. l
      /\ \A i \in 1 .. l : list[i] \in S <=> i > k
  BY DEF SoundList
<1>2. \A x \in S : \E i \in 1 .. l : list[i] = x /\ i > k
  BY <1>1 DEF SymbolsIn
<1>3. CASE k = l
  <2>1. S = {}
    BY <1>1, <1>2, <1>3
  <2>2. Slot(t, k + 1) = NoSymbol
    BY <1>1, <1>3 DEF Slot
  <2> QED BY <2>1, <2>2 DEF OneOf, Directory!Lowest
<1>4. CASE k # l
  <2>1. /\ k + 1 \in 1 .. l /\ list[k + 1] \in S
        /\ Slot(t, k + 1) = list[k + 1]
    BY <1>1, <1>4 DEF Slot
  <2>2. ASSUME NEW x \in S
        PROVE  list[k + 1].address <= x.address
    <3>1. PICK i \in 1 .. l : list[i] = x /\ i > k
      BY <1>2
    <3>2. list[i].address \in Nat /\ list[k + 1].address \in Nat
      BY <2>1, AddressesAreNat DEF SoundList
    <3>3. k + 1 < i => list[k + 1].address < list[i].address
      BY <1>1, <2>1 DEF SoundList, ListSorted
    <3> QED BY <1>1, <3>1, <3>2, <3>3
  <2>3. Slot(t, k + 1) \in Directory!Lowest(S)
    BY <2>1, <2>2 DEF Directory!Lowest
  <2> QED BY <2>3 DEF OneOf
<1> QED BY <1>3, <1>4

(* Which places of the list lie below an address, and which above. *)
LEMMA PlacesFacts ==
  ASSUME NEW list, SoundList(list), NEW a \in Nat
  PROVE  LET n == NumBelow(list, a)
             m == IF IsAddressIn(list, a) THEN n + 1 ELSE n
         IN  /\ n \in 0 .. Len(list) /\ m \in 0 .. Len(list)
             /\ \A i \in 1 .. Len(list) :
                  /\ list[i].address < a <=> i <= n
                  /\ list[i].address >= a <=> i > n
                  /\ list[i].address <= a <=> i <= m
                  /\ list[i].address > a <=> i > m
                  /\ list[i].address = a <=> i = n + 1 /\ IsAddressIn(list, a)
<1> DEFINE n == NumBelow(list, a)
           found == IsAddressIn(list, a)
           m == IF found THEN n + 1 ELSE n
           l == Len(list)
<1>1. /\ n \in 0 .. l
      /\ \A i \in 1 .. n : list[i].address < a
      /\ \A i \in n + 1 .. l : a <= list[i].address
  BY NumBelowFacts
<1>2. found <=> n + 1 \in 1 .. l /\ list[n + 1].address = a
  BY AddressAtItsPlace
<1>3. l \in Nat /\ a \in Nat /\ list \in Seq(Entries) /\ DOMAIN list = 1 .. l
  BY DEF SoundList
<1>4. \A i \in 1 .. l : list[i].address = a => found
  BY DEF IsAddressIn
<1>5. \A i, j \in 1 .. l : i < j => list[i].address < list[j].address
  BY <1>3 DEF SoundList, ListSorted
<1>6. \A i \in 1 .. l : list[i].address \in Nat
  BY <1>3, AddressesAreNat
<1> HIDE DEF n, found, l
<1>7. m \in 0 .. l
  BY <1>1, <1>2, <1>3
<1> SUFFICES ASSUME NEW i \in 1 .. l
             PROVE  /\ list[i].address < a <=> i <= n
                    /\ list[i].address >= a <=> i > n
                    /\ list[i].address <= a <=> i <= m
                    /\ list[i].address > a <=> i > m
                    /\ list[i].address = a <=> i = n + 1 /\ found
  BY <1>1, <1>7 DEF n, found, l
<1> DEFINE b == list[i].address
<1>8. b \in Nat /\ n \in Nat /\ i \in Nat /\ a \in Nat
  BY <1>1, <1>3, <1>6
<1>9. CASE i <= n
  <2>1. b < a
    BY <1>1, <1>8, <1>9
  <2> HIDE DEF b
  <2> QED BY <1>8, <1>9, <2>1 DEF b
<1>10. CASE i = n + 1
  <2>1. a <= b /\ (found <=> b = a)
    BY <1>1, <1>2, <1>3, <1>10
  <2> HIDE DEF b
  <2> QED BY <1>8, <1>10, <2>1 DEF b
<1>11. CASE i > n + 1
  <2>1. n + 1 \in 1 .. l /\ n + 1 \in n + 1 .. l
    BY <1>1, <1>3, <1>8, <1>11
  <2>2. a <= list[n + 1].address /\ list[n + 1].address < b
        /\ list[n + 1].address \in Nat
    BY <1>1, <1>5, <1>6, <1>11, <2>1
  <2> HIDE DEF b
  <2> QED BY <1>8, <1>11, <2>2 DEF b
<1> QED BY <1>8, <1>9, <1>10, <1>11

(* The searches by address, by their places. *)
LEMMA SearchPlaces ==
  ASSUME NEW t, SoundList(t.list), NEW a \in Nat
  PROVE  LET n == NumBelow(t.list, a)
             found == IsAddressIn(t.list, a)
             m == IF found THEN n + 1 ELSE n
         IN  /\ SymbolAt(t, a) = IF found THEN Slot(t, n + 1) ELSE NoSymbol
             /\ SymbolBefore(t, a) = Slot(t, n)
             /\ SymbolAtOrBefore(t, a) = Slot(t, m)
             /\ SymbolAfter(t, a) = Slot(t, m + 1)
             /\ SymbolAtOrAfter(t, a) = Slot(t, n + 1)
<1> DEFINE n == NumBelow(t.list, a)
           found == IsAddressIn(t.list, a)
           i == BinarySearch(t.list, a)
<1>1. n \in Nat
  <2>1. Len(t.list) \in Nat
    BY DEF SoundList
  <2> QED BY <2>1, NumBelowFacts
<1>2. i = IF found THEN n ELSE -n - 1
  BY SearchFacts
<1>3. /\ SymbolAt(t, a) = IF i >= 0 THEN Slot(t, i + 1) ELSE NoSymbol
      /\ SymbolBefore(t, a) = Slot(t, IF i < 0 THEN -i - 1 ELSE i)
      /\ SymbolAtOrBefore(t, a) = Slot(t, IF i >= 0 THEN i + 1 ELSE -i - 1)
      /\ SymbolAfter(t, a) = Slot(t, IF i < 0 THEN -i ELSE i + 2)
      /\ SymbolAtOrAfter(t, a) = Slot(t, IF i >= 0 THEN i + 1 ELSE -i)
  BY DEF SymbolAt, SymbolBefore, SymbolAtOrBefore, SymbolAfter, SymbolAtOrAfter
<1> HIDE DEF n, found, i
<1>4. CASE found
  <2>1. i = n /\ i >= 0 /\ ~(i < 0) /\ i + 2 = (n + 1) + 1
    BY <1>1, <1>2, <1>4
  <2> QED BY <1>3, <1>4, <2>1 DEF n, found
<1>5. CASE ~found
  <2>1. ~(i >= 0) /\ i < 0 /\ -i - 1 = n /\ -i = n + 1
    BY <1>1, <1>2, <1>5
  <2> QED BY <1>3, <1>5, <2>1 DEF n, found
<1> QED BY <1>4, <1>5

LEMMA LookUpFacts ==
  ASSUME NEW t, SoundList(t.list), NEW a \in Nat
  PROVE  LET S == SymbolsIn(t.list)
         IN  /\ SymbolAt(t, a) \in OneOf({s \in S : s.address = a})
             /\ SymbolBefore(t, a)
                  \in OneOf(Directory!Highest({s \in S : s.address < a}))
             /\ SymbolAtOrBefore(t, a)
                  \in OneOf(Directory!Highest({s \in S : s.address <= a}))
             /\ SymbolAfter(t, a)
                  \in OneOf(Directory!Lowest({s \in S : s.address > a}))
             /\ SymbolAtOrAfter(t, a)
                  \in OneOf(Directory!Lowest({s \in S : s.address >= a}))
<1> DEFINE S == SymbolsIn(t.list)
           l == Len(t.list)
           n == NumBelow(t.list, a)
           found == IsAddressIn(t.list, a)
           m == IF found THEN n + 1 ELSE n
           at == {s \in S : s.address = a}
           below == {s \in S : s.address < a}
           atOrBelow == {s \in S : s.address <= a}
           above == {s \in S : s.address > a}
           atOrAbove == {s \in S : s.address >= a}
<1>1. /\ SymbolAt(t, a) = IF found THEN Slot(t, n + 1) ELSE NoSymbol
      /\ SymbolBefore(t, a) = Slot(t, n)
      /\ SymbolAtOrBefore(t, a) = Slot(t, m)
      /\ SymbolAfter(t, a) = Slot(t, m + 1)
      /\ SymbolAtOrAfter(t, a) = Slot(t, n + 1)
  BY SearchPlaces
<1>2. /\ n \in 0 .. l /\ m \in 0 .. l
      /\ \A i \in 1 .. l :
           /\ t.list[i].address < a <=> i <= n
           /\ t.list[i].address >= a <=> i > n
           /\ t.list[i].address <= a <=> i <= m
           /\ t.list[i].address > a <=> i > m
           /\ t.list[i].address = a <=> i = n + 1 /\ found
  BY PlacesFacts
<1>3. l \in Nat /\ DOMAIN t.list = 1 .. l
  BY DEF SoundList
<1>4. \A i \in 1 .. l : t.list[i] \in S
  BY <1>3 DEF SymbolsIn
<1>5. \A i \in 1 .. l : /\ t.list[i] \in below <=> i <= n
                        /\ t.list[i] \in atOrBelow <=> i <= m
                        /\ t.list[i] \in above <=> i > m
                        /\ t.list[i] \in atOrAbove <=> i > n
                        /\ t.list[i] \in at <=> i = n + 1 /\ found
  <2> HIDE DEF S, n, m, l, found
  <2> QED BY <1>2, <1>4
<1>6. found <=> n + 1 \in 1 .. l /\ t.list[n + 1].address = a
  BY AddressAtItsPlace
<1>7. /\ below \in SUBSET SymbolsIn(t.list)
      /\ atOrBelow \in SUBSET SymbolsIn(t.list)
      /\ above \in SUBSET SymbolsIn(t.list)
      /\ atOrAbove \in SUBSET SymbolsIn(t.list)
  OBVIOUS
<1>8. \A s \in at : found
  <2> SUFFICES ASSUME NEW s \in at PROVE found
    OBVIOUS
  <2>1. PICK i \in 1 .. l : t.list[i] = s
    BY <1>3 DEF SymbolsIn
  <2> QED BY <2>1 DEF IsAddressIn
<1> HIDE DEF S, n, m, found, at, below, atOrBelow, above, atOrAbove, l
<1>9. SymbolAt(t, a) \in OneOf(at)
  <2>1. CASE found
    <3>1. n + 1 \in 1 .. l /\ Slot(t, n + 1) = t.list[n + 1]
      BY <1>6, <2>1 DEF Slot, l
    <3>2. t.list[n + 1] \in at
      BY <1>5, <2>1, <3>1
    <3> QED BY <1>1, <2>1, <3>1, <3>2 DEF OneOf
  <2>2. CASE ~found
    BY <1>1, <1>8, <2>2 DEF OneOf
  <2> QED BY <2>1, <2>2
<1>10. Slot(t, n) \in OneOf(Directory!Highest(below))
  BY <1>2, <1>5, <1>7, HighestIsLast DEF l
<1>11. Slot(t, m) \in OneOf(Directory!Highest(atOrBelow))
  BY <1>2, <1>5, <1>7, HighestIsLast DEF l
<1>12. Slot(t, m + 1) \in OneOf(Directory!Lowest(above))
  BY <1>2, <1>5, <1>7, LowestIsNext DEF l
<1>13. Slot(t, n + 1) \in OneOf(Directory!Lowest(atOrAbove))
  BY <1>2, <1>5, <1>7, LowestIsNext DEF l
<1> QED BY <1>1, <1>9, <1>10, <1>11, <1>12, <1>13
        DEF at, below, atOrBelow, above, atOrAbove, S

(* Why an addition is refused, in terms of the set of symbols. *)
LEMMA RefusalFacts ==
  ASSUME NEW t, TwoIndexes(t), t.max = MaxSymbols,
         NEW name \in Name, NEW a \in Address
  PROVE  LET S == SymbolsIn(t.list)
             known == name \in Directory!NamesIn(S)
             taken == a \in Directory!AddressesIn(S)
             full == Cardinality(S) = MaxSymbols
         IN  Refusal(t, name, a) = IF known THEN "symbolExists"
                                   ELSE IF taken THEN "addressTaken"
                                   ELSE IF full THEN "full" ELSE "ok"
<1> DEFINE S == SymbolsIn(t.list)
<1>1. /\ Hashed(t) /\ S = Elements(t.chains) /\ SoundList(t.list)
      /\ Len(t.list) <= MaxSymbols /\ t.max = MaxSymbols
  BY DEF TwoIndexes, SoundTable
<1>2. name \in Directory!NamesIn(S) <=> FindSymbol(t, name) # NoSymbol
  BY <1>1, FindFacts DEF Directory!NamesIn
<1>3. a \in Directory!AddressesIn(S) <=> IsAddressIn(t.list, a)
  <2>1. DOMAIN t.list = 1 .. Len(t.list)
    BY <1>1 DEF SoundList
  <2> QED BY <2>1 DEF Directory!AddressesIn, IsAddressIn, SymbolsIn
<1>4. Cardinality(S) = MaxSymbols <=> Len(t.list) >= t.max
  <2>1. Cardinality(S) = Len(t.list)
    BY <1>1, NumberOfSymbols
  <2>2. Len(t.list) \in Nat /\ MaxSymbols \in Nat
    BY <1>1, SymbolTableAssumption DEF SoundList
  <2> HIDE DEF S
  <2> QED BY <1>1, <2>1, <2>2
<1> HIDE DEF S
<1> QED BY <1>2, <1>3, <1>4, Zenon DEF Refusal, S

LEMMA AddRefines ==
  ASSUME TableInv, NEW name \in Name, NEW a \in Address, Add(name, a)
  PROVE  Directory!AAdd(name, a) \/ Directory!AUndefined
<1> DEFINE S == SymbolsIn(table.list)
           known == name \in Directory!NamesIn(S)
           taken == a \in Directory!AddressesIn(S)
           full == Cardinality(S) = MaxSymbols
           why == Refusal(table, name, a)
<1>1. PICK mem : table' = AddSymbol(table, name, a, mem)
  BY DEF Add
<1>2. /\ call' = Call("addSymbolToTable", <<name, a>>)
      /\ answer' = table'.status /\ table.status # "nullName"
  BY DEF Add, Defined
<1>3. why = IF known THEN "symbolExists" ELSE IF taken THEN "addressTaken"
            ELSE IF full THEN "full" ELSE "ok"
  BY RefusalFacts DEF TableInv
<1>4. \/ /\ AddsNothing(table, table') /\ table'.status = "nullName"
         /\ HasName(S, NoName)
      \/ why # "ok" /\ AddsNothing(table, table') /\ table'.status = why
      \/ why = "ok" /\ AddsNothing(table, table') /\ table'.status = "noMemory"
      \/ /\ why = "ok" /\ table'.status = "ok"
         /\ Adds(table, table', Symbol(NameCopied(name, mem), a))
  BY <1>1, SymbolTableAssumption, AddFacts DEF TableInv
<1>5. Directory!Calls("addSymbolToTable", <<name, a>>)
  BY <1>2 DEF Directory!Calls, Call
<1>11. CASE table'.status = "nullName"
  <2>1. AddsNothing(table, table') /\ HasName(S, NoName)
    BY <1>3, <1>4, <1>11
  <2>2. NoSymbol \in Directory!NamesIn(S) /\ S' = S
    BY <2>1 DEF HasName, Directory!NamesIn, AddsNothing, NoName
  <2> HIDE DEF S
  <2>3. Directory!AUndefined
    BY <1>2, <1>5, <1>11, <2>2 DEF Directory!AUndefined, S
  <2> QED BY <2>3
<1> SUFFICES ASSUME table'.status # "nullName"
             PROVE  Directory!AAdd(name, a)
  BY <1>11
<1>12. Directory!Called("addSymbolToTable", <<name, a>>)
  BY <1>2, <1>5 DEF Directory!Called
<1>6. full <=> Directory!Cardinality(S) = MaxSymbols
  BY Zenon DEF Cardinality, Directory!Cardinality
<1> HIDE DEF S, known, taken, full, why
<1>7. CASE known
  <2>1. why = "symbolExists" /\ why # "ok"
    BY <1>3, <1>7
  <2>2. answer' = "symbolExists" /\ S' = S
    BY <1>2, <1>4, <2>1 DEF AddsNothing, S
  <2> QED BY <1>12, <1>7, <2>2 DEF Directory!AAdd, known, S
<1>8. CASE ~known /\ taken
  <2>1. why = "addressTaken" /\ why # "ok"
    BY <1>3, <1>8
  <2>2. answer' = "addressTaken" /\ S' = S
    BY <1>2, <1>4, <2>1 DEF AddsNothing, S
  <2> QED BY <1>12, <1>8, <2>2 DEF Directory!AAdd, known, taken, S
<1>9. CASE ~known /\ ~taken /\ full
  <2>1. why = "full" /\ why # "ok"
    BY <1>3, <1>9
  <2>2. answer' = "full" /\ S' = S
    BY <1>2, <1>4, <2>1 DEF AddsNothing, S
  <2> QED BY <1>12, <1>9, <1>6, <2>2 DEF Directory!AAdd, known, taken, S
<1>10. CASE ~known /\ ~taken /\ ~full
  <2>1. why = "ok"
    BY <1>3, <1>10
  <2>2. \/ answer' = "noMemory" /\ S' = S
        \/ /\ answer' = "ok"
           /\ \E copy \in {name, NoSymbol} :
                S' = S \cup {[name |-> copy, address |-> a]}
    BY <1>2, <1>4, <2>1
       DEF AddsNothing, Adds, Symbol, NameCopied, NoName, S
  <2> QED BY <1>12, <1>10, <1>6, <2>2 DEF Directory!AAdd, known, taken, S
<1> QED BY <1>7, <1>8, <1>9, <1>10

LEMMA LookUpRefines ==
  ASSUME TableInv, NEW a \in Address, LookUp(a)
  PROVE  Directory!ALookUp(a)
<1> DEFINE S == SymbolsIn(table.list)
<1>1. SoundList(table.list)
  BY DEF TableInv, TwoIndexes, SoundTable
<1>2. /\ SymbolAt(table, a) \in OneOf({s \in S : s.address = a})
      /\ SymbolBefore(table, a)
           \in OneOf(Directory!Highest({s \in S : s.address < a}))
      /\ SymbolAtOrBefore(table, a)
           \in OneOf(Directory!Highest({s \in S : s.address <= a}))
      /\ SymbolAfter(table, a)
           \in OneOf(Directory!Lowest({s \in S : s.address > a}))
      /\ SymbolAtOrAfter(table, a)
           \in OneOf(Directory!Lowest({s \in S : s.address >= a}))
  BY <1>1, LookUpFacts, SymbolTableAssumption
<1>3. table' = table /\ S' = S /\ table.status # "nullName"
  BY DEF LookUp, Defined
<1>4. \A T : Directory!Answers(T) <=> answer' \in OneOf(T)
  BY DEF Directory!Answers, OneOf
<1> HIDE DEF S
<1>5. \/ /\ Directory!Called("getSymbolAtAddress", <<a>>)
         /\ Directory!Answers({s \in S : s.address = a})
      \/ /\ Directory!Called("getSymbolBeforeAddress", <<a>>)
         /\ Directory!Answers(Directory!Highest({s \in S : s.address < a}))
      \/ /\ Directory!Called("getSymbolAtOrBeforeAddress", <<a>>)
         /\ Directory!Answers(Directory!Highest({s \in S : s.address <= a}))
      \/ /\ Directory!Called("getSymbolAfterAddress", <<a>>)
         /\ Directory!Answers(Directory!Lowest({s \in S : s.address > a}))
      \/ /\ Directory!Called("getSymbolAtOrAfterAddress", <<a>>)
         /\ Directory!Answers(Directory!Lowest({s \in S : s.address >= a}))
  <2>1. CASE /\ call' = Call("getSymbolAtAddress", <<a>>)
             /\ answer' = SymbolAt(table, a)
    BY <1>2, <1>3, <1>4, <2>1, Zenon
       DEF Directory!Called, Directory!Calls, Call
  <2>2. CASE /\ call' = Call("getSymbolBeforeAddress", <<a>>)
             /\ answer' = SymbolBefore(table, a)
    BY <1>2, <1>3, <1>4, <2>2, Zenon
       DEF Directory!Called, Directory!Calls, Call
  <2>3. CASE /\ call' = Call("getSymbolAtOrBeforeAddress", <<a>>)
             /\ answer' = SymbolAtOrBefore(table, a)
    BY <1>2, <1>3, <1>4, <2>3, Zenon
       DEF Directory!Called, Directory!Calls, Call
  <2>4. CASE /\ call' = Call("getSymbolAfterAddress", <<a>>)
             /\ answer' = SymbolAfter(table, a)
    BY <1>2, <1>3, <1>4, <2>4, Zenon
       DEF Directory!Called, Directory!Calls, Call
  <2>5. CASE /\ call' = Call("getSymbolAtOrAfterAddress", <<a>>)
             /\ answer' = SymbolAtOrAfter(table, a)
    BY <1>2, <1>3, <1>4, <2>5, Zenon
       DEF Directory!Called, Directory!Calls, Call
  <2> QED BY <2>1, <2>2, <2>3, <2>4, <2>5 DEF LookUp
<1> QED BY <1>3, <1>5, Zenon DEF Directory!ALookUp, S

LEMMA FindRefines ==
  ASSUME TableInv, NEW name \in Name, Find(name)
  PROVE  Directory!AFind(name) \/ Directory!AUndefined
<1> DEFINE S == SymbolsIn(table.list)
<1>1. Hashed(table) /\ S = Elements(table.chains)
  BY DEF TableInv, TwoIndexes
<1>2. FindSymbol(table, name) \in OneOf({s \in S : s.name = name})
  BY <1>1, FindFacts DEF OneOf
<1>3. /\ call' = Call("findSymbol", <<name>>) /\ table.status # "nullName"
      /\ answer' = FindSymbol(table, name)
  BY DEF Find, Defined
<1>4. Directory!Calls("findSymbol", <<name>>)
  BY <1>3 DEF Directory!Calls, Call
<1>5. CASE SearchMeetsNull(table, name)
  <2>1. table' = TableFailed(table, "nullName")
    BY <1>5 DEF Find
  <2>2. table'.status = "nullName" /\ S' = S
    BY <2>1, FailedKeepsTwoIndexes DEF TableInv
  <2>3. NoSymbol \in Directory!NamesIn(S)
    <3>1. PICK i \in DOMAIN ChainOf(table, name) :
            ChainOf(table, name)[i].name = NoName
      BY <1>5 DEF SearchMeetsNull
    <3>2. /\ ChainOf(table, name) = table.chains[BucketOf(table, name)]
          /\ BucketOf(table, name) \in DOMAIN table.chains
      BY <1>1, HashedFacts DEF Chained
    <3>3. ChainOf(table, name)[i] \in S
      BY <1>1, <3>1, <3>2 DEF Elements, SymbolsIn
    <3> QED BY <3>1, <3>3 DEF Directory!NamesIn, NoName
  <2> HIDE DEF S
  <2>4. Directory!AUndefined
    BY <1>3, <1>4, <2>2, <2>3 DEF Directory!AUndefined, S
  <2> QED BY <2>4
<1>6. CASE ~SearchMeetsNull(table, name)
  <2>1. table' = table /\ S' = S
    BY <1>6 DEF Find
  <2> HIDE DEF S
  <2>2. Directory!Answers({s \in S : s.name = name})
    BY <1>2, <1>3, Zenon DEF Directory!Answers, OneOf
  <2>3. Directory!Called("findSymbol", <<name>>)
    BY <1>3, <1>4, <2>1 DEF Directory!Called
  <2>4. Directory!AFind(name)
    BY <2>1, <2>2, <2>3, Zenon DEF Directory!AFind, S
  <2> QED BY <2>4
<1> QED BY <1>5, <1>6

(* Every call of symtab.c does what is said of a set of symbols: an addition
   is refused for the reason it gives and else adds the symbol to both
   indexes or to none, a search finds what is in the set and nothing else,
   and the iterator runs through it by ascending address.  The one exception
   is an addition that finds no memory for the name: it succeeds with a
   symbol that has none, and only while that is there a call that is given a
   name may be undefined. *)
THEOREM DirectoryTheorem == Spec => ImplementsDirectory
<1>1. Init => Directory!AInit
  <2>1. SymbolsIn(<<>>) = {}
    BY DEF SymbolsIn
  <2> QED BY <2>1 DEF Init, Directory!AInit, CreatedTable, Call
<1>2. TableInv /\ TableInv' /\ [Next]_vars
        => [Directory!ANext]_(Directory!avars)
  <2> SUFFICES ASSUME TableInv, [Next]_vars
               PROVE  [Directory!ANext]_(Directory!avars)
    OBVIOUS
  <2>1. ASSUME NEW name \in Name, NEW a \in Address, Add(name, a)
        PROVE  Directory!ANext
    BY <2>1, AddRefines DEF Directory!ANext
  <2>2. CASE Clear
    <3>1. /\ table' = ClearTable(table) /\ table.status # "nullName"
          /\ call' = Call("clearSymbolTable", <<>>) /\ answer' = NoSymbol
      BY <2>2 DEF Clear, Defined
    <3>2. SymbolsIn(table'.list) = {} /\ table'.status = table.status
      BY <3>1, ClearKeepsTwoIndexes
         DEF TableInv, TwoIndexes, SoundTable, ClearTable
    <3>3. Directory!AClear
      BY <3>1, <3>2
         DEF Directory!AClear, Directory!Called, Directory!Calls, Call
    <3> QED BY <3>3 DEF Directory!ANext
  <2>3. ASSUME NEW name \in Name, Find(name)
        PROVE  Directory!ANext
    BY <2>3, FindRefines DEF Directory!ANext
  <2>4. ASSUME NEW a \in Address, LookUp(a)
        PROVE  Directory!ANext
    BY <2>4, LookUpRefines DEF Directory!ANext
  <2>5. CASE Iterate
    <3>1. ListSorted(table.list)
      BY DEF TableInv, TwoIndexes, SoundTable, SoundList
    <3>2. Directory!AIterate
      BY <2>5, <3>1
         DEF Iterate, Defined, Directory!AIterate, Directory!Called,
             Directory!Calls, Call, SymbolsIn, ListSorted
    <3> QED BY <3>2 DEF Directory!ANext
  <2>6. CASE UNCHANGED vars
    BY <2>6 DEF vars, Directory!avars
  <2> QED BY <2>1, <2>2, <2>3, <2>4, <2>5, <2>6 DEF Next
<1> QED BY <1>1, <1>2, TwoIndexesInvariance, PTL
        DEF Spec, ImplementsDirectory, Directory!ASpec
=============================================================================
