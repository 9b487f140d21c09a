------------------------------ MODULE VmLemmas -----------------------------
(***************************************************************************)
(* Each routine of HeapOps makes a sound heap of a sound heap, counts its  *)
(* free bytes exactly, and leaves alone what is in use; the collector marks*)
(* what is reachable.  And what the routines of stack.c make of a stack    *)
(* that is within its allocation.                                          *)
(***************************************************************************)
EXTENDS HeapOps, StackOps, DataLemmas

-----------------------------------------------------------------------------
(* The inductive invariant of a heap. *)
HeapInv(h, Data) == HeapType(h, Data) /\ HeapIsSound(h)

(* What the invariant says of one block, in the form the proofs use. *)
LEMMA BlockFacts ==
  ASSUME NEW h, NEW Data, HeapInv(h, Data), NEW a \in DOMAIN h.blocks
  PROVE  /\ a \in Nat /\ h.end \in Nat /\ h.start \in Nat
         /\ h.blocks[a] \in BlockRecord(Data)
         /\ h.blocks[a].size \in Nat /\ h.blocks[a].size >= 8
         /\ BlockEnd(h, a) \in Nat
         /\ BlockEnd(h, a) = a + 8 + h.blocks[a].size
         /\ h.start <= a /\ BlockEnd(h, a) <= h.end
         /\ a + 16 <= BlockEnd(h, a)
         /\ BlockEnd(h, a) < h.end => BlockEnd(h, a) \in DOMAIN h.blocks
         /\ \A b \in DOMAIN h.blocks : a < b => BlockEnd(h, a) <= b
BY DEF HeapInv, HeapType, HeapIsSound, BlocksTile, RoomForLink, BlockEnd,
       BlockRecord, HeaderSize, MinBlockSize

(* A block other than the first follows another. *)
LEMMA PredecessorExists ==
  ASSUME NEW h, NEW Data, HeapInv(h, Data),
         NEW b \in DOMAIN h.blocks, NEW a \in DOMAIN h.blocks, a < b
  PROVE  \E p \in DOMAIN h.blocks : a <= p /\ p < b /\ BlockEnd(h, p) = b
<1> DEFINE below == {x \in DOMAIN h.blocks : x < b}
<1>1. below \in SUBSET Nat /\ a \in below /\ b \in Nat
  BY BlockFacts
<1>2. \A x \in below : x <= b
  BY <1>1
<1>3. PICK p \in below : \A x \in below : x <= p
  <2> HIDE DEF below
  <2> QED BY <1>1, <1>2, GreatestExists
<1>4. p \in DOMAIN h.blocks /\ p < b /\ a <= p
  BY <1>1, <1>3
<1>5. BlockEnd(h, p) <= b /\ p + 16 <= BlockEnd(h, p)
  BY <1>4, BlockFacts
<1>6. CASE BlockEnd(h, p) < b
  <2>1. BlockEnd(h, p) < h.end
    BY <1>6, <1>4, BlockFacts
  <2>2. BlockEnd(h, p) \in below
    BY <2>1, <1>6, <1>4, BlockFacts
  <2>3. BlockEnd(h, p) <= p
    BY <2>2, <1>3
  <2> QED BY <2>3, <1>5, <1>4, BlockFacts
<1> QED BY <1>4, <1>5, <1>6, BlockFacts

(***************************************************************************)
(* The collector's sweep.  kept is any set of blocks in use.               *)
(***************************************************************************)
LEMMA RunEndFacts ==
  ASSUME NEW h, NEW Data, HeapInv(h, Data),
         NEW kept, kept \subseteq InUse(h), NEW a \in RunStarts(h, kept)
  PROVE  /\ a \in DOMAIN h.blocks /\ a \notin kept
         /\ RunEnd(h, kept, a) \in Nat /\ a + 16 <= RunEnd(h, kept, a)
         /\ RunEnd(h, kept, a) <= h.end
         /\ RunEnd(h, kept, a) < h.end => RunEnd(h, kept, a) \in kept
         /\ \A b \in kept : a < b => RunEnd(h, kept, a) <= b
         /\ RunSize(h, kept, a) = RunEnd(h, kept, a) - a - 8
<1> DEFINE T == {b \in kept : b > a} \cup {h.end}
<1>1. a \in DOMAIN h.blocks /\ a \notin kept /\ kept \subseteq DOMAIN h.blocks
  BY DEF RunStarts, InUse
<1>2. T \in SUBSET Nat /\ T # {}
  BY <1>1, BlockFacts
<1>3. RunEnd(h, kept, a) = Min(T)
  BY DEF RunEnd
<1>4. Min(T) \in T /\ \A x \in T : Min(T) <= x
  <2> HIDE DEF T
  <2> QED BY <1>2, MinIsLeast
<1>5. \A x \in T : a + 16 <= x
  BY <1>1, BlockFacts
<1>6. RunSize(h, kept, a) = RunEnd(h, kept, a) - a - 8
  BY DEF RunSize, HeaderSize
<1>7. Min(T) \in Nat /\ a + 16 <= Min(T) /\ Min(T) <= h.end
  BY <1>2, <1>4, <1>5
<1>8. Min(T) < h.end => Min(T) \in kept
  BY <1>4, <1>1, BlockFacts
<1>9. \A b \in kept : a < b => Min(T) <= b
  BY <1>4
<1> QED
  <2> HIDE DEF T
  <2> QED BY <1>1, <1>3, <1>6, <1>7, <1>8, <1>9

LEMMA FreeBlockFacts ==
  ASSUME NEW Data, <<>> \in Data, NEW size \in Nat, NEW next \in Nat
  PROVE  /\ FreeBlock(size, next) \in BlockRecord(Data)
         /\ FreeBlock(size, next).kind = "free"
         /\ FreeBlock(size, next).size = size
         /\ FreeBlock(size, next).next = next
BY DEF FreeBlock, BlockRecord

(* The blocks of a swept heap. *)
LEMMA SweptBlocks ==
  ASSUME NEW h, NEW Data, <<>> \in Data, HeapInv(h, Data),
         NEW kept, kept \subseteq InUse(h), NEW g, g = Sweep(h, kept)
  PROVE  /\ HeapType(g, Data)
         /\ g.start = h.start /\ g.end = h.end
         /\ DOMAIN g.blocks = kept \cup RunStarts(h, kept)
         /\ kept \subseteq DOMAIN h.blocks
         /\ \A a \in kept : g.blocks[a] = h.blocks[a]
         /\ \A a \in RunStarts(h, kept) :
              g.blocks[a] = FreeBlock(RunSize(h, kept, a), NextRun(h, kept, a))
         /\ FreeAddrs(g) = RunStarts(h, kept)
         /\ \A a \in RunStarts(h, kept) : NextRun(h, kept, a) \in Nat
         /\ g.firstFree = IF RunStarts(h, kept) = {} THEN 0
                          ELSE Min(RunStarts(h, kept))
         /\ InUse(g) = kept
         /\ \A a \in RunStarts(h, kept) :
              g.blocks[a].size = RunSize(h, kept, a)
<1> DEFINE starts == RunStarts(h, kept)
           bf == SumFunction([a \in starts |-> RunSize(h, kept, a)])
           first == IF starts = {} THEN 0 ELSE Min(starts)
           bs == [a \in kept \cup starts |->
                    IF a \in kept THEN h.blocks[a]
                    ELSE FreeBlock(RunSize(h, kept, a), NextRun(h, kept, a))]
<1>1. h = [end |-> h.end, start |-> h.start, firstFree |-> h.firstFree,
           bytesFree |-> h.bytesFree, blocks |-> h.blocks]
  BY DEF HeapInv, HeapType
<1>2. g = [h EXCEPT !.firstFree = first, !.bytesFree = bf, !.blocks = bs]
  BY DEF Sweep
<1>3. /\ g = [end |-> h.end, start |-> h.start, firstFree |-> first,
              bytesFree |-> bf, blocks |-> bs]
  <2> HIDE DEF first, bf, bs
  <2> QED BY <1>1, <1>2
<1>4. /\ g.end = h.end /\ g.start = h.start /\ g.firstFree = first
      /\ g.bytesFree = bf /\ g.blocks = bs
  <2> HIDE DEF first, bf, bs
  <2> QED BY <1>3
<1>5. kept \subseteq DOMAIN h.blocks /\ starts \subseteq DOMAIN h.blocks
      /\ starts \cap kept = {} /\ DOMAIN h.blocks \subseteq Nat
  BY DEF InUse, RunStarts, HeapInv, HeapType
<1>6. \A a \in kept : bs[a] = h.blocks[a] /\ bs[a] \in BlockRecord(Data)
                       /\ bs[a].kind # "free"
  BY <1>5, BlockFacts DEF InUse
<1>7. \A a \in starts :
         bs[a] = FreeBlock(RunSize(h, kept, a), NextRun(h, kept, a))
  BY <1>5
<1>8. ASSUME NEW a \in starts
      PROVE  /\ NextRun(h, kept, a) \in Nat
             /\ bs[a] \in BlockRecord(Data) /\ bs[a].kind = "free"
             /\ bs[a].size = RunSize(h, kept, a)
  <2>1. RunSize(h, kept, a) \in Nat
    BY RunEndFacts, <1>5
  <2> DEFINE later == {b \in starts : b > a}
  <2>2. NextRun(h, kept, a) = IF later = {} THEN 0 ELSE Min(later)
    BY DEF NextRun
  <2>3. later # {} => Min(later) \in later
    <3>1. later \in SUBSET Nat
      BY <1>5
    <3> HIDE DEF later
    <3> QED BY <3>1, MinIsLeast
  <2>4. NextRun(h, kept, a) \in Nat
    BY <2>2, <2>3, <1>5
  <2>5. bs[a] = FreeBlock(RunSize(h, kept, a), NextRun(h, kept, a))
    BY <1>7
  <2> HIDE DEF bs
  <2> QED BY <2>1, <2>4, <2>5, FreeBlockFacts
<1>9. first \in Nat
  <2>1. starts # {} => Min(starts) \in starts
    <3> HIDE DEF starts
    <3> QED BY <1>5, MinIsLeast
  <2> QED BY <2>1, <1>5
<1>10. bs \in [kept \cup starts -> BlockRecord(Data)] /\ DOMAIN bs = kept \cup starts
  BY <1>6, <1>8
<1>11. HeapType(g, Data)
  <2>1. h.end \in Nat /\ h.start \in Nat
    BY DEF HeapInv, HeapType
  <2> HIDE DEF first, bf, bs, starts
  <2> QED BY <2>1, <1>3, <1>4, <1>5, <1>9, <1>10 DEF HeapType
<1>12. FreeAddrs(g) = starts /\ InUse(g) = kept
  <2> HIDE DEF bs, starts
  <2> QED BY <1>4, <1>5, <1>6, <1>8, <1>10 DEF FreeAddrs, InUse
<1>13. \A a \in starts : g.blocks[a].size = RunSize(h, kept, a)
  <2> HIDE DEF bs, starts
  <2> QED BY <1>4, <1>8
<1> QED
  <2>1. DOMAIN g.blocks = kept \cup starts
    BY <1>4, <1>10
  <2>2. \A a \in kept : g.blocks[a] = h.blocks[a]
    BY <1>4, <1>6
  <2>3. \A a \in starts :
          g.blocks[a] = FreeBlock(RunSize(h, kept, a), NextRun(h, kept, a))
    BY <1>4, <1>7
  <2> QED BY <2>1, <2>2, <2>3, <1>4, <1>5, <1>8, <1>11, <1>12, <1>13

LEMMA SweptBytes ==
  ASSUME NEW h, NEW Data, HeapInv(h, Data), NEW kept
  PROVE  Sweep(h, kept).bytesFree =
           SumFunction([a \in RunStarts(h, kept) |-> RunSize(h, kept, a)])
<1> DEFINE starts == RunStarts(h, kept)
           bf == SumFunction([a \in starts |-> RunSize(h, kept, a)])
           first == IF starts = {} THEN 0 ELSE Min(starts)
           bs == [a \in kept \cup starts |->
                    IF a \in kept THEN h.blocks[a]
                    ELSE FreeBlock(RunSize(h, kept, a), NextRun(h, kept, a))]
<1>1. h = [end |-> h.end, start |-> h.start, firstFree |-> h.firstFree,
           bytesFree |-> h.bytesFree, blocks |-> h.blocks]
  BY DEF HeapInv, HeapType
<1>2. Sweep(h, kept) =
        [h EXCEPT !.firstFree = first, !.bytesFree = bf, !.blocks = bs]
  BY DEF Sweep
<1> HIDE DEF first, bf, bs
<1>3. Sweep(h, kept).bytesFree = bf
  BY <1>1, <1>2
<1> QED BY <1>3 DEF bf

(* The sweep merges runs of garbage into free blocks and leaves a sound heap. *)
LEMMA SweepInv ==
  ASSUME NEW h, NEW Data, <<>> \in Data, HeapInv(h, Data),
         NEW kept, kept \subseteq InUse(h)
  PROVE  HeapInv(Sweep(h, kept), Data) /\ Sweep(h, kept).end = h.end
<1> DEFINE g == Sweep(h, kept)
           starts == RunStarts(h, kept)
           D == DOMAIN h.blocks
<1>1. /\ HeapType(g, Data)
      /\ g.start = h.start /\ g.end = h.end
      /\ DOMAIN g.blocks = kept \cup starts
      /\ kept \subseteq D
      /\ \A a \in kept : g.blocks[a] = h.blocks[a]
      /\ \A a \in starts :
            g.blocks[a] = FreeBlock(RunSize(h, kept, a), NextRun(h, kept, a))
      /\ FreeAddrs(g) = starts
      /\ \A a \in starts : NextRun(h, kept, a) \in Nat
      /\ g.firstFree = IF starts = {} THEN 0 ELSE Min(starts)
  <2>1. g = Sweep(h, kept)
    OBVIOUS
  <2> HIDE DEF g
  <2> QED BY <2>1, SweptBlocks
<1>2. starts \subseteq D /\ starts \cap kept = {} /\ D \in SUBSET Nat
  BY DEF RunStarts, HeapInv, HeapType
<1>3. \A a \in kept : BlockEnd(g, a) = BlockEnd(h, a)
  BY <1>1 DEF BlockEnd
<1>4. \A a \in starts :
         /\ BlockEnd(g, a) = RunEnd(h, kept, a)
         /\ g.blocks[a].size = RunSize(h, kept, a) /\ g.blocks[a].size >= 8
         /\ g.blocks[a].next = NextRun(h, kept, a)
  <2> SUFFICES ASSUME NEW a \in starts
               PROVE  /\ BlockEnd(g, a) = RunEnd(h, kept, a)
                      /\ g.blocks[a].size = RunSize(h, kept, a)
                      /\ g.blocks[a].size >= 8
                      /\ g.blocks[a].next = NextRun(h, kept, a)
    OBVIOUS
  <2>1. /\ RunEnd(h, kept, a) \in Nat /\ a + 16 <= RunEnd(h, kept, a)
        /\ RunSize(h, kept, a) = RunEnd(h, kept, a) - a - 8
    BY RunEndFacts
  <2>2. a \in Nat /\ RunSize(h, kept, a) \in Nat
    BY <2>1, <1>2
  <2>3. g.blocks[a] = FreeBlock(RunSize(h, kept, a), NextRun(h, kept, a))
        /\ NextRun(h, kept, a) \in Nat
    BY <1>1
  <2>4. g.blocks[a].size = RunSize(h, kept, a)
        /\ g.blocks[a].next = NextRun(h, kept, a)
    <3> HIDE DEF g
    <3> QED BY <2>2, <2>3, FreeBlockFacts
  <2>5. BlockEnd(g, a) = a + 8 + RunSize(h, kept, a)
    BY <2>4 DEF BlockEnd, HeaderSize
  <2> HIDE DEF g
  <2> QED BY <2>1, <2>2, <2>4, <2>5
<1>5. ASSUME NEW a \in D, a \notin kept, a \notin starts
      PROVE  \E p \in D : p \notin kept /\ BlockEnd(h, p) = a
  BY <1>5 DEF RunStarts
<1>6. RoomForLink(g)
  BY <1>1, <1>2, <1>4, BlockFacts DEF RoomForLink, HeaderSize, MinBlockSize
<1>7. BlocksTile(g)
  <2>1. h.start <= h.end
    BY DEF HeapInv, HeapIsSound, BlocksTile
  <2>2. h.start < h.end => h.start \in kept \cup starts
    <3> SUFFICES ASSUME h.start < h.end, h.start \notin kept,
                        h.start \notin starts
                 PROVE  FALSE
      OBVIOUS
    <3>1. h.start \in D
      BY DEF HeapInv, HeapIsSound, BlocksTile
    <3>2. PICK p \in D : BlockEnd(h, p) = h.start
      BY <3>1, <1>5
    <3> QED BY <3>2, BlockFacts
  <2>3. ASSUME NEW a \in kept \cup starts
        PROVE  /\ h.start <= a /\ BlockEnd(g, a) <= h.end
               /\ BlockEnd(g, a) < h.end => BlockEnd(g, a) \in kept \cup starts
    <3>1. CASE a \in starts
      BY <3>1, <1>2, <1>4, RunEndFacts, BlockFacts
    <3>2. CASE a \in kept
      <4>1. /\ h.start <= a /\ BlockEnd(h, a) <= h.end
            /\ BlockEnd(h, a) < h.end => BlockEnd(h, a) \in D
        BY <3>2, <1>1, BlockFacts
      <4>2. ASSUME BlockEnd(h, a) \in D, BlockEnd(h, a) \notin kept,
                   BlockEnd(h, a) \notin starts
            PROVE  FALSE
        <5>1. PICK p \in D : p \notin kept /\ BlockEnd(h, p) = BlockEnd(h, a)
          BY <4>2, <1>5
        <5>2. p # a /\ a \in D
          BY <5>1, <3>2, <1>1
        <5>3. CASE p < a
          BY <5>1, <5>2, <5>3, BlockFacts
        <5>4. CASE a < p
          BY <5>1, <5>2, <5>4, BlockFacts
        <5> QED BY <5>2, <5>3, <5>4, <1>2
      <4> QED BY <4>1, <4>2, <3>2, <1>3
    <3> QED BY <3>1, <3>2
  <2>4. ASSUME NEW a \in kept \cup starts, NEW b \in kept \cup starts, a < b
        PROVE  BlockEnd(g, a) <= b
    <3>1. a \in D /\ b \in D
      BY <1>1, <1>2
    <3>2. CASE a \in kept
      BY <3>1, <3>2, <2>4, <1>3, BlockFacts
    <3>3. CASE a \in starts /\ b \in kept
      BY <3>3, <2>4, <1>4, RunEndFacts
    <3>4. CASE a \in starts /\ b \in starts
      <4>1. PICK p \in D : a <= p /\ p < b /\ BlockEnd(h, p) = b
        BY <3>1, <2>4, PredecessorExists
      <4>2. p \in kept
        BY <4>1, <3>4 DEF RunStarts
      <4>3. a < p
        BY <4>1, <4>2, <3>4, <1>2
      <4>4. RunEnd(h, kept, a) <= p
        BY <4>2, <4>3, <3>4, RunEndFacts
      <4> QED BY <4>4, <4>1, <3>4, <3>1, <1>2, <1>4, RunEndFacts
    <3> QED BY <3>2, <3>3, <3>4
  <2> QED BY <2>1, <2>2, <2>3, <2>4, <1>1 DEF BlocksTile
<1>8. FreeBlocksAreApart(g)
  <2> SUFFICES ASSUME NEW a \in starts PROVE RunEnd(h, kept, a) \notin starts
    BY <1>1, <1>4 DEF FreeBlocksAreApart
  <2>1. ASSUME NEW b \in starts
        PROVE  b < h.end
    <3>1. b \in D
      BY <1>2
    <3> QED BY <3>1, BlockFacts
  <2> QED BY <2>1, <1>2, RunEndFacts
<1>9. FreeListIsSorted(g)
  <2>1. IsSuccessor(starts, -1, g.firstFree)
    <3>1. CASE starts = {}
      BY <3>1, <1>1 DEF IsSuccessor
    <3>2. CASE starts # {}
      <4>1. Min(starts) \in starts /\ \A x \in starts : Min(starts) <= x
        <5> HIDE DEF starts
        <5> QED BY <3>2, <1>2, MinIsLeast
      <4> QED BY <4>1, <3>2, <1>1, <1>2 DEF IsSuccessor
    <3> QED BY <3>1, <3>2
  <2>2. ASSUME NEW a \in starts
        PROVE  IsSuccessor(starts, a, g.blocks[a].next)
    <3> DEFINE later == {b \in starts : b > a}
    <3>1. g.blocks[a].next = IF later = {} THEN 0 ELSE Min(later)
      BY <1>4 DEF NextRun
    <3>2. CASE later = {}
      BY <3>1, <3>2, <1>2 DEF IsSuccessor
    <3>3. CASE later # {}
      <4>1. later \in SUBSET Nat
        BY <1>2
      <4>2. Min(later) \in later /\ \A x \in later : Min(later) <= x
        <5> HIDE DEF later
        <5> QED BY <3>3, <4>1, MinIsLeast
      <4> QED BY <4>1, <4>2, <3>1, <3>3, <1>2 DEF IsSuccessor
    <3> QED BY <3>2, <3>3
  <2> QED BY <2>1, <2>2, <1>1 DEF FreeListIsSorted
<1> QED BY <1>1, <1>6, <1>7, <1>8, <1>9 DEF HeapInv, HeapIsSound

(***************************************************************************)
(* The free list, when a block leaves it or another takes its place.       *)
(***************************************************************************)
IsBetween(F, x, a) == x < a /\ \A z \in F : x < z => a <= z

LEMMA LinkIsPredecessor ==
  ASSUME NEW F \in SUBSET Nat, NEW a \in F, NEW b \in F, NEW n,
         IsSuccessor(F, b, n)
  PROVE  a # 0 /\ n = a <=> IsBetween(F, b, a)
<1>1. a \in Nat /\ b \in Nat /\ \A z \in F : z \in Nat
  OBVIOUS
<1>2. CASE n \in F /\ b < n /\ \A z \in F : b < z => n <= z
  <2>1. ASSUME a # 0, n = a PROVE IsBetween(F, b, a)
    BY <2>1, <1>2 DEF IsBetween
  <2>2. ASSUME IsBetween(F, b, a) PROVE a # 0 /\ n = a
    <3>1. b < a /\ a <= n /\ n <= a
      BY <2>2, <1>2 DEF IsBetween
    <3> QED BY <3>1, <1>1, <1>2
  <2> QED BY <2>1, <2>2
<1>3. CASE n = 0 /\ \A z \in F : z <= b
  BY <1>1, <1>3 DEF IsBetween
<1> QED BY <1>2, <1>3 DEF IsSuccessor

LEMMA SuccessorOfPredecessor ==
  ASSUME NEW F \in SUBSET Nat, NEW a \in F, NEW x \in Int, IsBetween(F, x, a),
         NEW y, IsSuccessor(F, a, y)
  PROVE  IsSuccessor(F \ {a}, x, y)
<1>1. a \in Nat /\ x < a /\ \A z \in F : z \in Nat /\ (x < z => a <= z)
  BY DEF IsBetween
<1>2. CASE y \in F /\ a < y /\ \A z \in F : a < z => y <= z
  <2>1. y \in F \ {a} /\ x < y
    BY <1>1, <1>2
  <2>2. ASSUME NEW z \in F \ {a}, x < z PROVE y <= z
    <3>1. a <= z /\ z # a
      BY <2>2, <1>1
    <3> QED BY <3>1, <1>1, <1>2
  <2> QED BY <2>1, <2>2 DEF IsSuccessor
<1>3. CASE y = 0 /\ \A z \in F : z <= a
  <2>1. ASSUME NEW z \in F \ {a} PROVE z <= x
    BY <1>1, <1>3
  <2> QED BY <2>1, <1>3 DEF IsSuccessor
<1> QED BY <1>2, <1>3 DEF IsSuccessor

LEMMA SuccessorElsewhere ==
  ASSUME NEW F \in SUBSET Nat, NEW a \in F, NEW x \in Int, x # a,
         ~IsBetween(F, x, a), NEW y, IsSuccessor(F, x, y)
  PROVE  IsSuccessor(F \ {a}, x, y)
BY DEF IsSuccessor, IsBetween

(* r takes the place of a: what precedes a, what a preceded, the others. *)
Replaced(F, a, r) == (F \ {a}) \cup {r}

LEMMA ReplacedElements ==
  ASSUME NEW F \in SUBSET Nat, NEW a \in F, NEW r \in Nat
  PROVE  /\ \A z \in Replaced(F, a, r) : z \in Nat /\ (z \in F \/ z = r)
         /\ \A z \in F : z \in Nat /\ (z # a => z \in Replaced(F, a, r))
         /\ r \in Replaced(F, a, r) /\ a \in Nat
BY DEF Replaced

LEMMA ReplacedLink ==
  ASSUME NEW F \in SUBSET Nat, NEW a \in F, NEW r \in Nat, a < r,
         \A z \in F : a < z => r < z, NEW y, IsSuccessor(F, a, y)
  PROVE  IsSuccessor(Replaced(F, a, r), r, y)
<1>1. CASE y \in F /\ a < y /\ \A z \in F : a < z => y <= z
  <2>1. y \in Replaced(F, a, r) /\ r < y
    BY <1>1, ReplacedElements
  <2>2. \A z \in Replaced(F, a, r) : r < z => y <= z
    BY <1>1, ReplacedElements
  <2> QED BY <2>1, <2>2 DEF IsSuccessor
<1>2. CASE y = 0 /\ \A z \in F : z <= a
  <2>1. \A z \in Replaced(F, a, r) : z <= r
    BY <1>2, ReplacedElements
  <2> QED BY <2>1, <1>2 DEF IsSuccessor
<1> QED BY <1>1, <1>2 DEF IsSuccessor

LEMMA ReplacedBefore ==
  ASSUME NEW F \in SUBSET Nat, NEW a \in F, NEW r \in Nat, a < r,
         \A z \in F : a < z => r < z,
         NEW x \in F \cup {-1}, IsBetween(F, x, a)
  PROVE  IsSuccessor(Replaced(F, a, r), x, r)
<1>1. a \in Nat /\ x \in Int /\ x < a /\ \A z \in F : x < z => a <= z
  BY DEF IsBetween
<1>2. \A z \in Replaced(F, a, r) : x < z => r <= z
  <2> SUFFICES ASSUME NEW z \in Replaced(F, a, r), x < z, z # r
               PROVE  r <= z
    BY ReplacedElements
  <2>1. z \in F /\ z # a /\ z \in Nat
    BY DEF Replaced
  <2> QED BY <2>1, <1>1
<1> QED BY <1>1, <1>2, ReplacedElements DEF IsSuccessor

LEMMA ReplacedElsewhere ==
  ASSUME NEW F \in SUBSET Nat, NEW a \in F, NEW r \in Nat, a < r,
         \A z \in F : a < z => r < z,
         NEW x \in F \cup {-1}, NEW v, x # a, ~IsBetween(F, x, a),
         IsSuccessor(F, x, v)
  PROVE  IsSuccessor(Replaced(F, a, r), x, v)
<1>1. a \in Nat /\ r \in Nat /\ \A z \in F : z \in Nat
  OBVIOUS
<1>2. CASE v \in F /\ x < v /\ \A z \in F : x < z => v <= z
  <2>1. v # a
    BY <1>2 DEF IsBetween
  <2>2. ~(x < r /\ r < v)
    <3> SUFFICES ASSUME x < r, r < v PROVE FALSE
      OBVIOUS
    <3>1. ~(x < a)
      BY <1>1, <1>2
    <3>2. a < x /\ x \in F
      BY <3>1, <1>1
    <3> QED BY <3>2, <1>1
  <2>3. \A z \in Replaced(F, a, r) : x < z => v <= z
    BY <1>1, <1>2, <2>2, ReplacedElements
  <2> QED BY <1>2, <2>1, <2>3, ReplacedElements DEF IsSuccessor
<1>3. CASE v = 0 /\ \A z \in F : z <= x
  <2>1. a < x /\ x \in F
    BY <1>1, <1>3
  <2>2. \A z \in Replaced(F, a, r) : z <= x
    BY <1>1, <1>3, <2>1, ReplacedElements
  <2> QED BY <1>3, <2>2 DEF IsSuccessor
<1> QED BY <1>2, <1>3 DEF IsSuccessor

(* The block whose link is a is the one before it. *)
LEMMA LinksToFacts ==
  ASSUME NEW h, NEW Data, HeapInv(h, Data), NEW a \in FreeAddrs(h)
  PROVE  /\ LinksTo(h, a) = {b \in FreeAddrs(h) : IsBetween(FreeAddrs(h), b, a)}
         /\ LinksTo(h, a) = {} <=> IsBetween(FreeAddrs(h), -1, a)
<1> DEFINE F == FreeAddrs(h)
<1>1. F \in SUBSET Nat /\ a \in F
  BY DEF HeapInv, HeapType, FreeAddrs
<1>2. \A b \in F : IsSuccessor(F, b, h.blocks[b].next)
  BY DEF HeapInv, HeapIsSound, FreeListIsSorted
<1>3. ASSUME NEW b \in F
      PROVE  a # 0 /\ h.blocks[b].next = a <=> IsBetween(F, b, a)
  <2>1. IsSuccessor(F, b, h.blocks[b].next)
    BY <1>2
  <2> HIDE DEF F
  <2> QED BY <2>1, <1>1, LinkIsPredecessor
<1>4. LinksTo(h, a) = {b \in F : IsBetween(F, b, a)}
  BY <1>3 DEF LinksTo
<1>5. ASSUME \A b \in F : ~IsBetween(F, b, a)
      PROVE  IsBetween(F, -1, a)
  <2> DEFINE below == {b \in F : b < a}
  <2>1. CASE below = {}
    <3>1. \A b \in F : a <= b
      BY <2>1, <1>1
    <3> QED BY <3>1, <1>1 DEF IsBetween
  <2>2. CASE below # {}
    <3>1. below \in SUBSET Nat /\ a \in Nat /\ \A b \in below : b <= a
      BY <1>1
    <3>2. PICK b \in below : \A z \in below : z <= b
      <4> HIDE DEF below
      <4> QED BY <2>2, <3>1, GreatestExists
    <3>3. IsBetween(F, b, a)
      BY <3>2, <1>1 DEF IsBetween
    <3> QED BY <3>3, <3>2, <1>5
  <2> QED BY <2>1, <2>2
<1>6. ASSUME IsBetween(F, -1, a), NEW b \in F, IsBetween(F, b, a)
      PROVE  FALSE
  BY <1>6, <1>1 DEF IsBetween
<1> QED BY <1>4, <1>5, <1>6

(***************************************************************************)
(* Allocation.  rel is the heap after the free list lost or replaced a.    *)
(***************************************************************************)
LEMMA RelinkFacts ==
  ASSUME NEW h, NEW Data, HeapInv(h, Data), NEW a \in FreeAddrs(h),
         NEW succ \in Nat, NEW rel, rel = Relink(h, a, succ)
  PROVE  /\ rel = [end |-> h.end, start |-> h.start,
                   firstFree |-> IF LinksTo(h, a) = {} THEN succ
                                 ELSE h.firstFree,
                   bytesFree |-> h.bytesFree, blocks |-> rel.blocks]
         /\ rel.blocks \in [DOMAIN h.blocks -> BlockRecord(Data)]
         /\ \A b \in DOMAIN h.blocks :
              /\ rel.blocks[b].kind = h.blocks[b].kind
              /\ rel.blocks[b].size = h.blocks[b].size
              /\ rel.blocks[b].next = IF b \in LinksTo(h, a) THEN succ
                                      ELSE h.blocks[b].next
              /\ b \notin FreeAddrs(h) => rel.blocks[b] = h.blocks[b]
<1> DEFINE first == IF LinksTo(h, a) = {} THEN succ ELSE h.firstFree
           bs == [b \in DOMAIN h.blocks |->
                    IF b \in LinksTo(h, a)
                    THEN [h.blocks[b] EXCEPT !.next = succ]
                    ELSE h.blocks[b]]
<1>1. h = [end |-> h.end, start |-> h.start, firstFree |-> h.firstFree,
           bytesFree |-> h.bytesFree, blocks |-> h.blocks]
  BY DEF HeapInv, HeapType
<1>2. rel = [h EXCEPT !.firstFree = first, !.blocks = bs]
  BY DEF Relink
<1>3. rel = [end |-> h.end, start |-> h.start, firstFree |-> first,
             bytesFree |-> h.bytesFree, blocks |-> bs]
  <2> HIDE DEF first, bs
  <2> QED BY <1>1, <1>2
<1>4. ASSUME NEW b \in DOMAIN h.blocks
      PROVE  /\ bs[b] \in BlockRecord(Data)
             /\ bs[b].kind = h.blocks[b].kind
             /\ bs[b].size = h.blocks[b].size
             /\ bs[b].next = IF b \in LinksTo(h, a) THEN succ
                             ELSE h.blocks[b].next
             /\ b \notin LinksTo(h, a) => bs[b] = h.blocks[b]
  <2>1. h.blocks[b] \in BlockRecord(Data)
    BY DEF HeapInv, HeapType
  <2>2. bs[b] = IF b \in LinksTo(h, a) THEN [h.blocks[b] EXCEPT !.next = succ]
                ELSE h.blocks[b]
    OBVIOUS
  <2> HIDE DEF bs
  <2> QED BY <2>1, <2>2 DEF BlockRecord
<1>5. rel.blocks = bs
  <2> HIDE DEF first, bs
  <2> QED BY <1>3
<1>6. bs \in [DOMAIN h.blocks -> BlockRecord(Data)]
  BY <1>4
<1>7. LinksTo(h, a) \subseteq FreeAddrs(h)
  BY DEF LinksTo
<1> QED
  <2> HIDE DEF bs
  <2> QED BY <1>3, <1>4, <1>5, <1>6, <1>7

(* A block in use may be given these contents. *)
ContentsType(contents, Data) ==
  /\ contents.kind \in {"code", "state"} /\ contents.slack \in Nat
  /\ contents.refs \in SUBSET Nat /\ contents.data \in Data

LEMMA FilledFacts ==
  ASSUME NEW Data, NEW contents, ContentsType(contents, Data),
         NEW size \in Nat, NEW slack \in Nat
  PROVE  /\ Filled(size, slack, contents) \in BlockRecord(Data)
         /\ Filled(size, slack, contents).kind # "free"
         /\ Filled(size, slack, contents).size = size
         /\ Filled(size, slack, contents).kind = contents.kind
         /\ Filled(size, slack, contents).refs = contents.refs
         /\ Filled(size, slack, contents).data = contents.data
BY DEF ContentsType, Filled, BlockRecord

(***************************************************************************)
(* What an allocation makes of h: block a with the contents, and nothing   *)
(* else that is in use.                                                    *)
(***************************************************************************)
Allocates(h, g, a, size, contents) ==
  /\ g.start = h.start /\ a \in FreeAddrs(h)
  /\ InUse(g) = InUse(h) \cup {a}
  /\ \A b \in InUse(h) : b # a /\ g.blocks[b] = h.blocks[b]
  /\ size <= g.blocks[a].size
  /\ g.blocks[a].kind = contents.kind /\ g.blocks[a].refs = contents.refs
  /\ g.blocks[a].data = contents.data

LEMMA TakeWholeInv ==
  ASSUME NEW h, NEW Data, HeapInv(h, Data), NEW a \in FreeAddrs(h),
         NEW size \in Nat, size <= h.blocks[a].size,
         NEW contents, ContentsType(contents, Data)
  PROVE  /\ HeapInv(TakeWhole(h, a, size, contents), Data)
         /\ TakeWhole(h, a, size, contents).end = h.end
         /\ Allocates(h, TakeWhole(h, a, size, contents), a, size, contents)
         /\ FreeAddrs(TakeWhole(h, a, size, contents)) = FreeAddrs(h) \ {a}
         /\ \A b \in FreeAddrs(h) \ {a} :
              TakeWhole(h, a, size, contents).blocks[b].size = h.blocks[b].size
         /\ TakeWhole(h, a, size, contents).bytesFree =
              h.bytesFree - h.blocks[a].size
<1> DEFINE old == h.blocks[a]
           rel == Relink(h, a, old.next)
           g == TakeWhole(h, a, size, contents)
           new == Filled(old.size, old.size - size + contents.slack, contents)
           F == FreeAddrs(h)
           D == DOMAIN h.blocks
<1>1. /\ a \in D /\ a \in Nat /\ old.kind = "free" /\ D \in SUBSET Nat
      /\ old.size \in Nat /\ old.next \in Nat
      /\ \A b \in D : h.blocks[b].size \in Nat
  BY DEF FreeAddrs, HeapInv, HeapType, BlockRecord
<1>2. /\ rel.end = h.end /\ rel.start = h.start
      /\ rel.firstFree = IF LinksTo(h, a) = {} THEN old.next ELSE h.firstFree
      /\ rel = [end |-> rel.end, start |-> rel.start,
                firstFree |-> rel.firstFree, bytesFree |-> rel.bytesFree,
                blocks |-> rel.blocks]
      /\ rel.blocks \in [D -> BlockRecord(Data)]
      /\ \A b \in D : /\ rel.blocks[b].kind = h.blocks[b].kind
                      /\ rel.blocks[b].size = h.blocks[b].size
                      /\ rel.blocks[b].next = IF b \in LinksTo(h, a)
                                              THEN old.next
                                              ELSE h.blocks[b].next
                      /\ b \notin F => rel.blocks[b] = h.blocks[b]
      /\ rel.bytesFree = h.bytesFree
  <2> HIDE DEF rel, old
  <2>1. rel = Relink(h, a, old.next)
    BY DEF rel
  <2> QED BY <2>1, <1>1, RelinkFacts
<1>3. /\ new \in BlockRecord(Data) /\ new.kind # "free" /\ new.size = old.size
      /\ new.kind = contents.kind /\ new.refs = contents.refs
      /\ new.data = contents.data
  <2>1. contents.slack \in Nat
    BY DEF ContentsType
  <2>2. old.size - size + contents.slack \in Nat
    BY <1>1, <2>1
  <2> HIDE DEF old
  <2> QED BY <1>1, <2>2, FilledFacts
<1>4. g = [rel EXCEPT !.bytesFree = @ - old.size, !.blocks[a] = new]
  BY DEF TakeWhole
<1>5. /\ g = [end |-> h.end, start |-> h.start, firstFree |-> rel.firstFree,
              bytesFree |-> rel.bytesFree - old.size,
              blocks |-> [rel.blocks EXCEPT ![a] = new]]
  <2> HIDE DEF rel, new, old, g
  <2> QED BY <1>2, <1>4
<1>6. /\ g.end = h.end /\ g.start = h.start /\ g.firstFree = rel.firstFree
      /\ g.bytesFree = rel.bytesFree - old.size
      /\ g.blocks = [rel.blocks EXCEPT ![a] = new]
  <2> HIDE DEF rel, new, old, g
  <2> QED BY <1>5
<1>7. /\ g.blocks \in [D -> BlockRecord(Data)] /\ g.blocks[a] = new
      /\ \A b \in D \ {a} : g.blocks[b] = rel.blocks[b]
  <2> HIDE DEF rel, new, old, g
  <2> QED BY <1>1, <1>2, <1>3, <1>6
<1>8. \A b \in D : g.blocks[b].size = h.blocks[b].size
  <2> HIDE DEF rel, new, g
  <2> QED BY <1>2, <1>3, <1>7
<1>9. FreeAddrs(g) = F \ {a}
  <2> HIDE DEF rel, new, g
  <2> QED BY <1>1, <1>2, <1>3, <1>7 DEF FreeAddrs
<1>10. \A b \in D : BlockEnd(g, b) = BlockEnd(h, b)
  <2> HIDE DEF g
  <2> QED BY <1>8 DEF BlockEnd
<1>11. DOMAIN g.blocks = D
  <2> HIDE DEF g
  <2> QED BY <1>7
<1>12. HeapType(g, Data)
  <2>1. rel.firstFree \in Nat /\ h.end \in Nat /\ h.start \in Nat
    BY <1>1, <1>2 DEF HeapInv, HeapType
  <2> HIDE DEF g, rel, old, new
  <2> QED BY <1>1, <1>5, <1>6, <1>7, <1>11, <2>1 DEF HeapType
<1>13. BlocksTile(g)
  <2> HIDE DEF g
  <2> QED BY <1>6, <1>10, <1>11 DEF BlocksTile, HeapInv, HeapIsSound
<1>14. FreeBlocksAreApart(g) /\ RoomForLink(g)
  <2>1. F \subseteq D
    BY DEF FreeAddrs
  <2> HIDE DEF g
  <2> QED BY <1>8, <1>9, <1>10, <1>11, <2>1
      DEF FreeBlocksAreApart, RoomForLink, HeapInv, HeapIsSound
<1>15. FreeListIsSorted(g)
  <2>1. F \in SUBSET Nat /\ F \subseteq D
    BY <1>1 DEF FreeAddrs
  <2>2. /\ IsSuccessor(F, -1, h.firstFree)
        /\ \A b \in F : IsSuccessor(F, b, h.blocks[b].next)
    BY DEF HeapInv, HeapIsSound, FreeListIsSorted
  <2>3. /\ LinksTo(h, a) = {b \in F : IsBetween(F, b, a)}
        /\ LinksTo(h, a) = {} <=> IsBetween(F, -1, a)
    BY LinksToFacts
  <2>4. IsSuccessor(F, a, old.next)
    BY <2>2
  <2>5. IsSuccessor(F \ {a}, -1, rel.firstFree)
    <3> HIDE DEF rel, old, F, g
    <3> QED BY <1>1, <1>2, <2>1, <2>2, <2>3, <2>4, SuccessorOfPredecessor,
               SuccessorElsewhere DEF F
  <2>6. ASSUME NEW b \in F \ {a}
        PROVE  IsSuccessor(F \ {a}, b, g.blocks[b].next)
    <3>1. b \in D /\ b \in Int /\ a \in F
      BY <2>1
    <3>2. g.blocks[b].next = IF b \in LinksTo(h, a) THEN old.next
                             ELSE h.blocks[b].next
      <4> HIDE DEF rel, old, g
      <4> QED BY <3>1, <1>2, <1>7
    <3>3. IsSuccessor(F, b, h.blocks[b].next)
      BY <2>2
    <3> HIDE DEF rel, old, F, g
    <3> QED BY <3>1, <3>2, <3>3, <2>1, <2>3, <2>4, SuccessorOfPredecessor,
               SuccessorElsewhere
  <2> HIDE DEF g
  <2> QED BY <2>5, <2>6, <1>6, <1>9 DEF FreeListIsSorted
<1>16. Allocates(h, g, a, size, contents)
  <2>1. InUse(g) = InUse(h) \cup {a}
    <3> HIDE DEF g, rel, new
    <3> QED BY <1>1, <1>2, <1>3, <1>7, <1>11 DEF InUse
  <2>2. \A b \in InUse(h) : b # a /\ g.blocks[b] = h.blocks[b]
    <3> HIDE DEF g, rel, new
    <3> QED BY <1>1, <1>2, <1>7 DEF InUse, FreeAddrs
  <2> HIDE DEF g, new
  <2> QED BY <2>1, <2>2, <1>3, <1>6, <1>7 DEF Allocates
<1>17. \A b \in F \ {a} : g.blocks[b].size = h.blocks[b].size
  <2> HIDE DEF g
  <2> QED BY <1>8 DEF FreeAddrs
<1> QED BY <1>2, <1>6, <1>9, <1>12, <1>13, <1>14, <1>15, <1>16, <1>17
    DEF HeapInv, HeapIsSound

LEMMA SplitInv ==
  ASSUME NEW h, NEW Data, <<>> \in Data, HeapInv(h, Data),
         NEW a \in FreeAddrs(h),
         NEW size \in Nat, size >= 8, size + 16 <= h.blocks[a].size,
         NEW contents, ContentsType(contents, Data)
  PROVE  /\ HeapInv(Split(h, a, size, contents), Data)
         /\ Split(h, a, size, contents).end = h.end
         /\ Allocates(h, Split(h, a, size, contents), a, size, contents)
         /\ FreeAddrs(Split(h, a, size, contents)) =
              (FreeAddrs(h) \ {a}) \cup {a + 8 + size}
         /\ a + 8 + size \notin FreeAddrs(h)
         /\ \A b \in FreeAddrs(h) \ {a} :
              Split(h, a, size, contents).blocks[b].size = h.blocks[b].size
         /\ Split(h, a, size, contents).blocks[a + 8 + size].size =
              h.blocks[a].size - size - 8
         /\ Split(h, a, size, contents).bytesFree = h.bytesFree - (size + 8)
<1> DEFINE old == h.blocks[a]
           rest == a + 8 + size
           rel == Relink(h, a, rest)
           g == Split(h, a, size, contents)
           new == Filled(size, contents.slack, contents)
           left == FreeBlock(old.size - size - 8, old.next)
           F == FreeAddrs(h)
           D == DOMAIN h.blocks
           bs == [b \in D \cup {rest} |->
                    IF b = a THEN new ELSE IF b = rest THEN left
                    ELSE rel.blocks[b]]
<1>1. /\ a \in D /\ a \in Nat /\ old.kind = "free" /\ D \in SUBSET Nat
      /\ old.size \in Nat /\ old.next \in Nat /\ rest \in Nat /\ a < rest
      /\ \A b \in D : h.blocks[b].size \in Nat
  BY DEF FreeAddrs, HeapInv, HeapType, BlockRecord
<1>2. /\ rel.end = h.end /\ rel.start = h.start
      /\ rel.firstFree = IF LinksTo(h, a) = {} THEN rest ELSE h.firstFree
      /\ rel = [end |-> rel.end, start |-> rel.start,
                firstFree |-> rel.firstFree, bytesFree |-> rel.bytesFree,
                blocks |-> rel.blocks]
      /\ rel.blocks \in [D -> BlockRecord(Data)]
      /\ \A b \in D : /\ rel.blocks[b].kind = h.blocks[b].kind
                      /\ rel.blocks[b].size = h.blocks[b].size
                      /\ rel.blocks[b].next = IF b \in LinksTo(h, a) THEN rest
                                              ELSE h.blocks[b].next
                      /\ b \notin F => rel.blocks[b] = h.blocks[b]
      /\ rel.bytesFree = h.bytesFree
  <2> HIDE DEF rel, rest
  <2>1. rel = Relink(h, a, rest)
    BY DEF rel
  <2> QED BY <2>1, <1>1, RelinkFacts
<1>3. /\ new \in BlockRecord(Data) /\ new.kind # "free" /\ new.size = size
      /\ new.kind = contents.kind /\ new.refs = contents.refs
      /\ new.data = contents.data
  <2>1. contents.slack \in Nat
    BY DEF ContentsType
  <2> QED BY <2>1, FilledFacts
<1>4. /\ left \in BlockRecord(Data) /\ left.kind = "free"
      /\ left.size = old.size - size - 8 /\ left.next = old.next
  <2>1. old.size - size - 8 \in Nat /\ old.next \in Nat
    BY <1>1
  <2> DEFINE n == old.size - size - 8
             nx == old.next
  <2> HIDE DEF old, n, nx
  <2>2. /\ FreeBlock(n, nx) \in BlockRecord(Data)
        /\ FreeBlock(n, nx).kind = "free"
        /\ FreeBlock(n, nx).size = n /\ FreeBlock(n, nx).next = nx
    BY <2>1, FreeBlockFacts DEF n, nx
  <2> QED BY <2>2 DEF n, nx
<1>5. g = [rel EXCEPT !.bytesFree = @ - (size + 8), !.blocks = bs]
  BY DEF Split, HeaderSize
<1>6. g = [end |-> h.end, start |-> h.start, firstFree |-> rel.firstFree,
           bytesFree |-> rel.bytesFree - (size + 8), blocks |-> bs]
  <2> HIDE DEF rel, bs, g
  <2> QED BY <1>2, <1>5
<1>7. /\ g.end = h.end /\ g.start = h.start /\ g.firstFree = rel.firstFree
      /\ g.bytesFree = rel.bytesFree - (size + 8) /\ g.blocks = bs
  <2> HIDE DEF rel, bs, g
  <2> QED BY <1>6
<1>8. rest \notin D /\ BlockEnd(h, a) = a + 8 + old.size
      /\ rest + 16 <= BlockEnd(h, a) /\ \A b \in D : a < b => rest < b
  <2>1. /\ BlockEnd(h, a) = a + 8 + old.size
        /\ \A b \in D : a < b => BlockEnd(h, a) <= b
    BY <1>1, BlockFacts
  <2>2. rest + 16 <= BlockEnd(h, a) /\ BlockEnd(h, a) \in Nat
    BY <2>1, <1>1
  <2>3. \A b \in D : b \in Nat
    BY <1>1
  <2>4. \A b \in D : a < b => rest < b
    <3> HIDE DEF rest
    <3> QED BY <2>1, <2>2, <2>3, <1>1
  <2>5. rest \notin D
    <3> HIDE DEF rest
    <3> QED BY <2>4, <1>1
  <2> QED BY <2>1, <2>2, <2>4, <2>5
<1>9. /\ DOMAIN g.blocks = D \cup {rest}
      /\ g.blocks[a] = new /\ g.blocks[rest] = left
      /\ \A b \in D \ {a} : g.blocks[b] = rel.blocks[b]
  <2> HIDE DEF rel, new, left, old, g
  <2> QED BY <1>1, <1>7, <1>8
<1>10. g.blocks \in [D \cup {rest} -> BlockRecord(Data)]
  <2>1. \A b \in D \cup {rest} : g.blocks[b] \in BlockRecord(Data)
    <3> HIDE DEF rel, new, left, old, g, rest
    <3>1. TAKE b \in D \cup {rest}
    <3>2. CASE b = a \/ b = rest
      BY <1>3, <1>4, <1>9, <3>2
    <3>3. CASE b \in D \ {a}
      BY <1>2, <1>9, <3>3
    <3> QED BY <3>1, <3>2, <3>3
  <2> HIDE DEF rel, new, left, old, g
  <2> QED BY <2>1, <1>7
<1>11. FreeAddrs(g) = (F \ {a}) \cup {rest}
  <2> HIDE DEF rel, new, left, old, g, rest
  <2> QED BY <1>1, <1>2, <1>3, <1>4, <1>8, <1>9 DEF FreeAddrs
<1>12. HeapType(g, Data)
  <2>1. rel.firstFree \in Nat /\ h.end \in Nat /\ h.start \in Nat
    BY <1>1, <1>2 DEF HeapInv, HeapType
  <2> HIDE DEF g, rel, old, new, left, rest, bs
  <2> QED BY <1>1, <1>6, <1>7, <1>9, <1>10, <2>1 DEF HeapType
<1>13. /\ BlockEnd(g, a) = rest /\ BlockEnd(g, rest) = BlockEnd(h, a)
       /\ \A b \in D \ {a} : BlockEnd(g, b) = BlockEnd(h, b)
       /\ \A b \in D \ {a} : g.blocks[b].size = h.blocks[b].size
  <2>1. g.blocks[a].size = size /\ g.blocks[rest].size = old.size - size - 8
    BY <1>3, <1>4, <1>9
  <2>2. \A b \in D \ {a} : g.blocks[b].size = h.blocks[b].size
    <3> HIDE DEF rel, g
    <3> QED BY <1>2, <1>9
  <2>3. BlockEnd(g, a) = rest /\ BlockEnd(g, rest) = BlockEnd(h, a)
    <3>1. /\ BlockEnd(g, a) = a + 8 + size
          /\ BlockEnd(g, rest) = rest + 8 + (old.size - size - 8)
          /\ BlockEnd(h, a) = a + 8 + old.size
      <4> HIDE DEF g, old, rest
      <4> QED BY <2>1 DEF BlockEnd, HeaderSize, old
    <3>2. rest = a + 8 + size /\ a \in Nat /\ old.size \in Nat
      BY <1>1
    <3> HIDE DEF g, old, rest
    <3> QED BY <3>1, <3>2
  <2>4. \A b \in D \ {a} : BlockEnd(g, b) = BlockEnd(h, b)
    <3> HIDE DEF g
    <3> QED BY <2>2 DEF BlockEnd
  <2> QED BY <2>2, <2>3, <2>4
<1>14. BlocksTile(g)
  <2>1. /\ h.start <= h.end /\ (h.start < h.end => h.start \in D)
    BY DEF HeapInv, HeapIsSound, BlocksTile
  <2>2. /\ h.start \in Nat /\ h.end \in Nat /\ BlockEnd(h, a) \in Nat
        /\ h.start <= a /\ BlockEnd(h, a) <= h.end
        /\ BlockEnd(h, a) < h.end => BlockEnd(h, a) \in D
        /\ \A c \in D : a < c => BlockEnd(h, a) <= c
    BY <1>1, BlockFacts
  <2>3. ASSUME NEW b \in D \ {a}
        PROVE  /\ b \in Nat /\ BlockEnd(h, b) \in Nat
               /\ h.start <= b /\ BlockEnd(h, b) <= h.end
               /\ BlockEnd(h, b) < h.end => BlockEnd(h, b) \in D
               /\ \A c \in D : b < c => BlockEnd(h, b) <= c
    BY BlockFacts
  <2>4. ASSUME NEW b \in D \cup {rest}
        PROVE  /\ h.start <= b /\ BlockEnd(g, b) <= h.end
               /\ BlockEnd(g, b) < h.end => BlockEnd(g, b) \in D \cup {rest}
    <3> HIDE DEF g, old, rest, D
    <3>1. CASE b = a
      BY <3>1, <1>8, <1>13, <1>1, <2>2
    <3>2. CASE b = rest
      BY <3>2, <1>8, <1>13, <1>1, <2>2
    <3>3. CASE b \in D \ {a}
      BY <3>3, <1>13, <2>3
    <3> QED BY <3>1, <3>2, <3>3
  <2>5. ASSUME NEW b \in D \cup {rest}, NEW c \in D \cup {rest}, b < c
        PROVE  BlockEnd(g, b) <= c
    <3> HIDE DEF g, old, rest, D
    <3>1. CASE b = a
      BY <3>1, <2>5, <1>8, <1>13, <1>1
    <3>2. CASE b = rest
      BY <3>2, <2>5, <1>8, <1>13, <1>1, <2>2
    <3>3. CASE b \in D \ {a} /\ c \in D
      BY <3>3, <2>5, <1>13, <2>3
    <3>4. CASE b \in D \ {a} /\ c = rest
      <4>1. b < a
        BY <3>4, <2>5, <1>8, <1>1, <2>3
      <4>2. BlockEnd(h, b) <= a
        BY <4>1, <3>4, <1>1, <2>3
      <4> QED BY <4>2, <3>4, <1>1, <1>13, <2>3
    <3> QED BY <3>1, <3>2, <3>3, <3>4
  <2> HIDE DEF g, rest
  <2> QED BY <2>1, <2>4, <2>5, <1>7, <1>9 DEF BlocksTile
<1>15. RoomForLink(g)
  <2>1. ASSUME NEW b \in D \cup {rest}
        PROVE  g.blocks[b].size >= 8
    <3>1. CASE b = a
      BY <3>1, <1>3, <1>9
    <3>2. CASE b = rest
      BY <3>2, <1>1, <1>4, <1>9
    <3>3. CASE b \in D \ {a}
      BY <3>3, <1>13, BlockFacts
    <3> QED BY <3>1, <3>2, <3>3
  <2> HIDE DEF g, rest
  <2> QED BY <2>1, <1>9 DEF RoomForLink, HeaderSize, MinBlockSize
<1>16. FreeBlocksAreApart(g)
  <2>1. \A b \in F : BlockEnd(h, b) \notin F
    BY DEF HeapInv, HeapIsSound, FreeBlocksAreApart
  <2>2. BlockEnd(h, a) \notin F /\ a \in F /\ F \subseteq D
    BY <2>1 DEF FreeAddrs
  <2>3. \A b \in D \ {a} : BlockEnd(h, b) # rest
    <3> SUFFICES ASSUME NEW b \in D \ {a} PROVE BlockEnd(h, b) # rest
      OBVIOUS
    <3>1. CASE b < a
      <4>1. BlockEnd(h, b) <= a /\ BlockEnd(h, b) \in Nat
        BY <3>1, <1>1, BlockFacts
      <4> QED BY <4>1, <1>1
    <3>2. CASE a < b
      <4>1. rest < b /\ b + 16 <= BlockEnd(h, b) /\ BlockEnd(h, b) \in Nat
            /\ b \in Nat
        BY <3>2, <1>8, BlockFacts
      <4> HIDE DEF rest
      <4> QED BY <4>1, <1>1
    <3>3. b \in Nat /\ a \in Nat /\ b # a
      BY <1>1
    <3> QED BY <3>1, <3>2, <3>3
  <2>4. BlockEnd(h, a) # rest /\ BlockEnd(h, a) # a
    BY <1>8, <1>1
  <2>5. ASSUME NEW b \in (F \ {a}) \cup {rest}
        PROVE  BlockEnd(g, b) \notin (F \ {a}) \cup {rest}
    <3> HIDE DEF g, rest, F, D
    <3>1. CASE b = rest
      BY <3>1, <1>13, <2>2, <2>4
    <3>2. CASE b \in F \ {a}
      BY <3>2, <1>13, <2>1, <2>2, <2>3
    <3> QED BY <3>1, <3>2
  <2> HIDE DEF g, rest
  <2> QED BY <2>5, <1>11 DEF FreeBlocksAreApart
<1>17. FreeListIsSorted(g)
  <2>1. F \in SUBSET Nat /\ F \subseteq D /\ a \in F
    BY <1>1 DEF FreeAddrs
  <2>2. /\ IsSuccessor(F, -1, h.firstFree)
        /\ \A b \in F : IsSuccessor(F, b, h.blocks[b].next)
    BY DEF HeapInv, HeapIsSound, FreeListIsSorted
  <2>3. /\ LinksTo(h, a) = {b \in F : IsBetween(F, b, a)}
        /\ LinksTo(h, a) = {} <=> IsBetween(F, -1, a)
    BY LinksToFacts
  <2> DEFINE G == Replaced(F, a, rest)
  <2>4. /\ IsSuccessor(G, rest, old.next)
        /\ \A x \in F \cup {-1} : IsBetween(F, x, a) => IsSuccessor(G, x, rest)
        /\ \A x \in F \cup {-1} : \A v :
             x # a /\ ~IsBetween(F, x, a) /\ IsSuccessor(F, x, v)
               => IsSuccessor(G, x, v)
    <3>1. /\ rest \in Nat /\ a < rest /\ F \in SUBSET Nat /\ a \in F
          /\ \A z \in F : a < z => rest < z
      BY <1>1, <1>8, <2>1
    <3> DEFINE nx == old.next
    <3>2. IsSuccessor(F, a, nx)
      BY <2>1, <2>2
    <3> HIDE DEF old, F, rest, nx
    <3>3. IsSuccessor(G, rest, nx)
      BY <3>1, <3>2, ReplacedLink
    <3>4. ASSUME NEW x \in F \cup {-1}, IsBetween(F, x, a)
          PROVE  IsSuccessor(G, x, rest)
      BY <3>1, <3>4, ReplacedBefore
    <3>5. ASSUME NEW x \in F \cup {-1}, NEW v, x # a, ~IsBetween(F, x, a),
                 IsSuccessor(F, x, v)
          PROVE  IsSuccessor(G, x, v)
      BY <3>1, <3>5, ReplacedElsewhere
    <3> QED BY <3>3, <3>4, <3>5 DEF nx
  <2>5. IsSuccessor(G, -1, rel.firstFree)
    <3>1. -1 # a
      BY <1>1
    <3> HIDE DEF rel, old, F, g, rest, G
    <3> QED BY <3>1, <1>2, <2>2, <2>3, <2>4 DEF F
  <2>6. ASSUME NEW b \in (F \ {a}) \cup {rest}
        PROVE  IsSuccessor(G, b, g.blocks[b].next)
    <3>1. CASE b = rest
      BY <3>1, <2>4, <1>4, <1>9
    <3>2. CASE b \in F \ {a}
      <4>1. g.blocks[b].next = IF b \in LinksTo(h, a) THEN rest
                               ELSE h.blocks[b].next
        <5> HIDE DEF rel, old, g, rest
        <5> QED BY <3>2, <2>1, <1>2, <1>9
      <4>2. IsSuccessor(F, b, h.blocks[b].next)
        BY <3>2, <2>2
      <4> HIDE DEF rel, old, F, g, rest, G
      <4> QED BY <3>2, <4>1, <4>2, <2>3, <2>4
    <3> QED BY <3>1, <3>2
  <2>7. FreeAddrs(g) = G
    BY <1>11 DEF Replaced
  <2>8. \A b \in G : IsSuccessor(G, b, g.blocks[b].next)
    BY <2>6 DEF Replaced
  <2> HIDE DEF g, rest, G
  <2> QED BY <2>5, <2>7, <2>8, <1>7 DEF FreeListIsSorted
<1>18. Allocates(h, g, a, size, contents)
  <2>1. InUse(g) = InUse(h) \cup {a}
    <3> HIDE DEF g, rel, new, left, rest
    <3> QED BY <1>1, <1>2, <1>3, <1>4, <1>8, <1>9 DEF InUse
  <2>2. \A b \in InUse(h) : b # a /\ g.blocks[b] = h.blocks[b]
    <3> HIDE DEF g, rel, new
    <3> QED BY <1>1, <1>2, <1>9 DEF InUse, FreeAddrs
  <2> HIDE DEF g, new, bs
  <2> QED BY <2>1, <2>2, <1>3, <1>7, <1>9 DEF Allocates
<1>19. /\ \A b \in F \ {a} : g.blocks[b].size = h.blocks[b].size
       /\ g.blocks[rest].size = old.size - size - 8 /\ rest \notin F
  <2>1. F \subseteq D
    BY DEF FreeAddrs
  <2> HIDE DEF g, rest, left, old
  <2> QED BY <2>1, <1>4, <1>8, <1>9, <1>13
<1> QED BY <1>2, <1>7, <1>11, <1>12, <1>14, <1>15, <1>16, <1>17, <1>18, <1>19
    DEF HeapInv, HeapIsSound

(* allocateBlock keeps a sound heap sound. *)
LEMMA AllocateInv ==
  ASSUME NEW h, NEW Data, <<>> \in Data, HeapInv(h, Data),
         NEW size \in Nat, size >= 8, CanAllocate(h, size),
         NEW contents, ContentsType(contents, Data)
  PROVE  /\ HeapInv(AllocateBlock(h, size, contents), Data)
         /\ AllocateBlock(h, size, contents).end = h.end
         /\ Allocates(h, AllocateBlock(h, size, contents), FirstFit(h, size),
                      size, contents)
<1> DEFINE a == FirstFit(h, size)
<1>1. Fits(h, size) \in SUBSET Nat /\ Fits(h, size) # {}
  BY DEF Fits, FreeAddrs, CanAllocate, HeapInv, HeapType
<1>2. a \in Fits(h, size)
  BY <1>1, MinIsLeast DEF FirstFit
<1>3. /\ a \in FreeAddrs(h) /\ size <= h.blocks[a].size
      /\ a \in DOMAIN h.blocks
  BY <1>2 DEF Fits, FreeAddrs
<1>4. h.blocks[a].size \in Nat
  BY <1>3, BlockFacts
<1> HIDE DEF a
<1>5. CASE TakesWholeBlock(h, a, size)
  BY <1>3, <1>5, TakeWholeInv DEF AllocateBlock, a
<1>6. CASE ~TakesWholeBlock(h, a, size)
  <2>1. size + 16 <= h.blocks[a].size
    BY <1>3, <1>4, <1>6 DEF TakesWholeBlock, MinBlockSize
  <2> QED BY <1>3, <1>6, <2>1, SplitInv DEF AllocateBlock, a
<1> QED BY <1>3, <1>5, <1>6 DEF a

(***************************************************************************)
(* Growth.                                                                 *)
(***************************************************************************)
LEMMA AppendedSuccessor ==
  ASSUME NEW F \in SUBSET Nat, NEW r \in Nat, \A z \in F : z < r
  PROVE  /\ IsSuccessor(F \cup {r}, r, 0)
         /\ \A y : IsSuccessor(F, -1, y) =>
              IsSuccessor(F \cup {r}, -1, IF F = {} THEN r ELSE y)
         /\ \A x \in F : \A y : IsSuccessor(F, x, y) =>
              IsSuccessor(F \cup {r}, x, IF y = 0 THEN r ELSE y)
<1>1. IsSuccessor(F \cup {r}, r, 0)
  BY DEF IsSuccessor
<1>2. ASSUME NEW y, IsSuccessor(F, -1, y)
      PROVE  IsSuccessor(F \cup {r}, -1, IF F = {} THEN r ELSE y)
  <2>1. CASE F = {}
    BY <2>1 DEF IsSuccessor
  <2>2. CASE F # {}
    <3>1. ~\A z \in F : z <= -1
      <4>1. PICK z \in F : TRUE
        BY <2>2
      <4>2. ~(z <= -1)
        OBVIOUS
      <4> QED BY <4>2
    <3>2. y \in F /\ \A z \in F : y <= z
      BY <1>2, <3>1 DEF IsSuccessor
    <3> QED BY <2>2, <3>2 DEF IsSuccessor
  <2> QED BY <2>1, <2>2
<1>3. ASSUME NEW x \in F, NEW y, IsSuccessor(F, x, y)
      PROVE  IsSuccessor(F \cup {r}, x, IF y = 0 THEN r ELSE y)
  <2>1. CASE y \in F /\ x < y /\ \A z \in F : x < z => y <= z
    <3>1. y # 0
      BY <2>1
    <3> QED BY <2>1, <3>1 DEF IsSuccessor
  <2>2. CASE y = 0 /\ \A z \in F : z <= x
    BY <2>2 DEF IsSuccessor
  <2> QED BY <1>3, <2>1, <2>2 DEF IsSuccessor
<1> QED BY <1>1, <1>2, <1>3

(* What growth makes of h: nothing of what is in use. *)
KeepsInUse(h, g) ==
  /\ g.start = h.start /\ InUse(g) = InUse(h)
  /\ \A b \in InUse(h) : g.blocks[b] = h.blocks[b]

(* increaseVmmSize extends the free block at the end of memory ... *)
LEMMA ExtendLastInv ==
  ASSUME NEW h, NEW Data, HeapInv(h, Data), EndsFree(h),
         NEW size \in Nat, h.end < size
  PROVE  /\ HeapInv(GrowTo(h, size), Data) /\ GrowTo(h, size).end = size
         /\ KeepsInUse(h, GrowTo(h, size))
         /\ \E e \in FreeAddrs(h) :
              /\ FreeAddrs(GrowTo(h, size)) = FreeAddrs(h)
              /\ GrowTo(h, size).blocks[e].size =
                   h.blocks[e].size + (size - h.end)
              /\ \A b \in FreeAddrs(h) \ {e} :
                   GrowTo(h, size).blocks[b].size = h.blocks[b].size
<1> DEFINE D == DOMAIN h.blocks
           F == FreeAddrs(h)
           g == GrowTo(h, size)
           more == h.bytesFree + GrownBytes(h, size)
           bs == [b \in D |->
                    IF b \in F /\ BlockEnd(h, b) = h.end
                    THEN [h.blocks[b] EXCEPT !.size = @ + (size - h.end)]
                    ELSE h.blocks[b]]
<1>1. h = [end |-> h.end, start |-> h.start, firstFree |-> h.firstFree,
           bytesFree |-> h.bytesFree, blocks |-> h.blocks]
  BY DEF HeapInv, HeapType
<1>2. g = [h EXCEPT !.end = size, !.bytesFree = more, !.blocks = bs]
  BY DEF GrowTo
<1>3. g = [end |-> size, start |-> h.start, firstFree |-> h.firstFree,
           bytesFree |-> more, blocks |-> bs]
  <2> HIDE DEF g, more, bs
  <2> QED BY <1>1, <1>2
<1>4. /\ g.end = size /\ g.start = h.start /\ g.firstFree = h.firstFree
      /\ g.bytesFree = more /\ g.blocks = bs
  <2> HIDE DEF g, more, bs
  <2> QED BY <1>3
<1>5. PICK e \in F : BlockEnd(h, e) = h.end
  BY DEF EndsFree
<1>6. e \in D /\ F \subseteq D /\ D \in SUBSET Nat /\ h.end \in Nat
  BY <1>5 DEF FreeAddrs, HeapInv, HeapType
<1>7. ASSUME NEW b \in D, b # e
      PROVE  BlockEnd(h, b) < h.end /\ b < e /\ BlockEnd(h, b) <= e
  <2>1. ~(e < b)
    BY <1>5, <1>6, BlockFacts
  <2>2. b < e /\ e < h.end
    BY <2>1, <1>5, <1>6, <1>7, BlockFacts
  <2> QED BY <2>2, <1>6, BlockFacts
<1>8. /\ bs[e] = [h.blocks[e] EXCEPT !.size = @ + (size - h.end)]
      /\ \A b \in D \ {e} : bs[b] = h.blocks[b]
  BY <1>5, <1>6, <1>7
<1>9. /\ bs[e] \in BlockRecord(Data) /\ bs[e].kind = h.blocks[e].kind
      /\ bs[e].size = h.blocks[e].size + (size - h.end)
      /\ bs[e].next = h.blocks[e].next
  <2>1. h.blocks[e] \in BlockRecord(Data) /\ h.blocks[e].size \in Nat
    BY <1>6, BlockFacts
  <2>2. h.blocks[e].size + (size - h.end) \in Nat
    BY <2>1, <1>6
  <2> HIDE DEF bs
  <2> QED BY <2>1, <2>2, <1>8 DEF BlockRecord
<1>10. /\ bs \in [D -> BlockRecord(Data)]
       /\ \A b \in D : /\ bs[b].kind = h.blocks[b].kind
                       /\ bs[b].next = h.blocks[b].next
  <2>1. \A b \in D : /\ bs[b] \in BlockRecord(Data)
                     /\ bs[b].kind = h.blocks[b].kind
                     /\ bs[b].next = h.blocks[b].next
    <3>1. \A b \in D : h.blocks[b] \in BlockRecord(Data)
      BY BlockFacts
    <3> HIDE DEF bs
    <3> QED BY <3>1, <1>8, <1>9
  <2> QED BY <2>1
<1>11. /\ BlockEnd(g, e) = size
       /\ \A b \in D \ {e} : BlockEnd(g, b) = BlockEnd(h, b)
  <2>1. BlockEnd(h, e) = e + 8 + h.blocks[e].size /\ h.blocks[e].size \in Nat
    BY <1>6, BlockFacts
  <2>2. BlockEnd(g, e) = e + 8 + (h.blocks[e].size + (size - h.end))
    <3> HIDE DEF bs, g
    <3> QED BY <1>4, <1>9 DEF BlockEnd, HeaderSize
  <2>3. \A b \in D \ {e} : BlockEnd(g, b) = BlockEnd(h, b)
    <3> HIDE DEF bs, g
    <3> QED BY <1>4, <1>8 DEF BlockEnd
  <2> HIDE DEF g
  <2> QED BY <2>1, <2>2, <2>3, <1>5, <1>6
<1>12. DOMAIN g.blocks = D /\ FreeAddrs(g) = F
  <2>1. DOMAIN g.blocks = D
    BY <1>4
  <2> HIDE DEF bs, g
  <2> QED BY <2>1, <1>4, <1>10 DEF FreeAddrs
<1>13. HeapType(g, Data)
  <2>1. h.start \in Nat /\ h.firstFree \in Nat
    BY DEF HeapInv, HeapType
  <2> HIDE DEF g, more, bs
  <2> QED BY <2>1, <1>3, <1>4, <1>6, <1>10, <1>12 DEF HeapType
<1>14. BlocksTile(g)
  <2>1. h.start <= h.end /\ h.start \in Nat /\ h.start <= e /\ e < h.end
    BY <1>5, <1>6, BlockFacts
  <2>2. h.start \in D
    BY <2>1, <1>6 DEF HeapInv, HeapIsSound, BlocksTile
  <2>3. ASSUME NEW b \in D
        PROVE  /\ h.start <= b /\ BlockEnd(g, b) <= size
               /\ BlockEnd(g, b) < size => BlockEnd(g, b) \in D
               /\ \A c \in D : b < c => BlockEnd(g, b) <= c
    <3>1. CASE b = e
      <4>1. \A c \in D : ~(e < c)
        BY <1>6, <1>7
      <4> HIDE DEF g
      <4> QED BY <3>1, <4>1, <2>1, <1>11
    <3>2. CASE b # e
      <4>1. /\ h.start <= b /\ BlockEnd(h, b) < h.end /\ BlockEnd(h, b) \in D
            /\ \A c \in D : b < c => BlockEnd(h, b) <= c
            /\ BlockEnd(h, b) \in Nat
        BY <3>2, <1>7, BlockFacts
      <4> HIDE DEF g
      <4> QED BY <3>2, <4>1, <1>6, <1>11
    <3> QED BY <3>1, <3>2
  <2> HIDE DEF g
  <2> QED BY <2>1, <2>2, <2>3, <1>4, <1>6, <1>12 DEF BlocksTile
<1>15. RoomForLink(g)
  <2>1. ASSUME NEW b \in D PROVE g.blocks[b].size >= 8
    <3>1. h.blocks[b].size \in Nat /\ h.blocks[b].size >= 8
      BY BlockFacts
    <3>2. CASE b = e
      <4> HIDE DEF g, bs
      <4> QED BY <3>1, <3>2, <1>4, <1>6, <1>9
    <3>3. CASE b # e
      <4> HIDE DEF g, bs
      <4> QED BY <3>1, <3>3, <1>4, <1>8
    <3> QED BY <3>2, <3>3
  <2> HIDE DEF g
  <2> QED BY <2>1, <1>12 DEF RoomForLink, HeaderSize, MinBlockSize
<1>16. FreeBlocksAreApart(g)
  <2>1. \A b \in F : BlockEnd(h, b) \notin F
    BY DEF HeapInv, HeapIsSound, FreeBlocksAreApart
  <2>2. size \notin D
    <3> SUFFICES ASSUME size \in D PROVE FALSE
      OBVIOUS
    <3> QED BY <1>6, BlockFacts
  <2> HIDE DEF g
  <2> QED BY <2>1, <2>2, <1>6, <1>11, <1>12 DEF FreeBlocksAreApart
<1>17. FreeListIsSorted(g)
  <2>1. \A b \in F : g.blocks[b].next = h.blocks[b].next
    <3> HIDE DEF g, bs
    <3> QED BY <1>4, <1>6, <1>10
  <2> HIDE DEF g
  <2> QED BY <2>1, <1>4, <1>12 DEF FreeListIsSorted, HeapInv, HeapIsSound
<1>18. KeepsInUse(h, g)
  <2>1. InUse(g) = InUse(h)
    <3> HIDE DEF g, bs
    <3> QED BY <1>4, <1>10, <1>12 DEF InUse
  <2>2. \A b \in InUse(h) : b \in D \ {e}
    BY <1>5 DEF InUse, FreeAddrs
  <2> HIDE DEF g, bs
  <2> QED BY <2>1, <2>2, <1>4, <1>8 DEF KeepsInUse
<1>19. /\ g.blocks[e].size = h.blocks[e].size + (size - h.end)
       /\ \A b \in F \ {e} : g.blocks[b].size = h.blocks[b].size
  <2>1. \A b \in F \ {e} : b \in D \ {e}
    BY <1>6
  <2> HIDE DEF g, bs
  <2> QED BY <2>1, <1>4, <1>8, <1>9
<1> QED BY <1>4, <1>5, <1>12, <1>13, <1>14, <1>15, <1>16, <1>17, <1>18, <1>19
    DEF HeapInv, HeapIsSound

(* ... or writes a free block there. *)
LEMMA AppendBlockInv ==
  ASSUME NEW h, NEW Data, <<>> \in Data, HeapInv(h, Data), ~EndsFree(h),
         NEW size \in Nat, h.end + 16 <= size
  PROVE  /\ HeapInv(GrowTo(h, size), Data) /\ GrowTo(h, size).end = size
         /\ KeepsInUse(h, GrowTo(h, size))
         /\ FreeAddrs(GrowTo(h, size)) = FreeAddrs(h) \cup {h.end}
         /\ h.end \notin FreeAddrs(h)
         /\ GrowTo(h, size).blocks[h.end].size = size - h.end - 8
         /\ \A b \in FreeAddrs(h) :
              GrowTo(h, size).blocks[b].size = h.blocks[b].size
<1> DEFINE D == DOMAIN h.blocks
           F == FreeAddrs(h)
           g == GrowTo(h, size)
           n == h.end
           more == h.bytesFree + GrownBytes(h, size)
           first == IF F = {} THEN n ELSE h.firstFree
           new == FreeBlock(size - n - 8, 0)
           bs == [b \in D \cup {n} |->
                    IF b = n THEN new
                    ELSE IF b \in F /\ h.blocks[b].next = 0
                    THEN [h.blocks[b] EXCEPT !.next = n]
                    ELSE h.blocks[b]]
<1>1. h = [end |-> h.end, start |-> h.start, firstFree |-> h.firstFree,
           bytesFree |-> h.bytesFree, blocks |-> h.blocks]
  BY DEF HeapInv, HeapType
<1>2. g = [h EXCEPT !.end = size, !.bytesFree = more, !.firstFree = first,
                    !.blocks = bs]
  BY DEF GrowTo, HeaderSize
<1>3. g = [end |-> size, start |-> h.start, firstFree |-> first,
           bytesFree |-> more, blocks |-> bs]
  <2> HIDE DEF g, more, first, bs
  <2> QED BY <1>1, <1>2
<1>4. /\ g.end = size /\ g.start = h.start /\ g.firstFree = first
      /\ g.bytesFree = more /\ g.blocks = bs
  <2> HIDE DEF g, more, first, bs
  <2> QED BY <1>3
<1>5. /\ F \subseteq D /\ D \in SUBSET Nat /\ n \in Nat /\ h.start \in Nat
      /\ h.firstFree \in Nat /\ h.start <= n
  BY DEF FreeAddrs, HeapInv, HeapType, HeapIsSound, BlocksTile
<1>6. ASSUME NEW b \in D PROVE b < n /\ BlockEnd(h, b) <= n
  <2>1. b \in Nat /\ n \in Nat /\ BlockEnd(h, b) \in Nat
        /\ BlockEnd(h, b) <= n /\ b + 16 <= BlockEnd(h, b)
    BY BlockFacts
  <2> HIDE DEF n
  <2> QED BY <2>1
<1>7. n \notin D
  BY <1>5, <1>6
<1>8. /\ new \in BlockRecord(Data) /\ new.kind = "free"
      /\ new.size = size - n - 8 /\ new.next = 0
  <2>1. size - n - 8 \in Nat
    BY <1>5
  <2> HIDE DEF n
  <2> QED BY <2>1, FreeBlockFacts
<1>9. ASSUME NEW b \in D
      PROVE  /\ bs[b] \in BlockRecord(Data)
             /\ bs[b].kind = h.blocks[b].kind
             /\ bs[b].size = h.blocks[b].size
             /\ bs[b].next = IF b \in F /\ h.blocks[b].next = 0
                             THEN n ELSE h.blocks[b].next
  <2>1. h.blocks[b] \in BlockRecord(Data)
    BY BlockFacts
  <2>2. bs[b] = IF b \in F /\ h.blocks[b].next = 0
                THEN [h.blocks[b] EXCEPT !.next = n] ELSE h.blocks[b]
    BY <1>7
  <2> HIDE DEF bs, n, F
  <2> QED BY <2>1, <2>2, <1>5 DEF BlockRecord
<1>10. bs[n] = new /\ DOMAIN bs = D \cup {n}
  OBVIOUS
<1>11. bs \in [D \cup {n} -> BlockRecord(Data)]
  <2>1. \A b \in D \cup {n} : bs[b] \in BlockRecord(Data)
    <3> HIDE DEF bs, n, new
    <3> QED BY <1>8, <1>9, <1>10
  <2> HIDE DEF n, new, F
  <2> QED BY <2>1
<1>12. FreeAddrs(g) = F \cup {n}
  <2> HIDE DEF bs, n, new, g
  <2> QED BY <1>4, <1>7, <1>8, <1>9, <1>10 DEF FreeAddrs
<1>13. /\ BlockEnd(g, n) = size
       /\ \A b \in D : BlockEnd(g, b) = BlockEnd(h, b)
  <2>1. BlockEnd(g, n) = n + 8 + (size - n - 8)
    <3> HIDE DEF bs, n, new, g
    <3> QED BY <1>4, <1>8, <1>10 DEF BlockEnd, HeaderSize
  <2>2. \A b \in D : BlockEnd(g, b) = BlockEnd(h, b)
    <3> HIDE DEF bs, n, new, g
    <3> QED BY <1>4, <1>9 DEF BlockEnd
  <2> HIDE DEF g, n
  <2> QED BY <2>1, <2>2, <1>5
<1>14. DOMAIN g.blocks = D \cup {n}
  <2> HIDE DEF bs, n, g
  <2> QED BY <1>4, <1>10
<1>15. HeapType(g, Data)
  <2>1. first \in Nat /\ D \cup {n} \subseteq Nat
    BY <1>5
  <2> HIDE DEF g, more, first, bs, n
  <2> QED BY <2>1, <1>3, <1>4, <1>5, <1>11, <1>14 DEF HeapType
<1>16. BlocksTile(g)
  <2>1. h.start < n => h.start \in D
    BY DEF HeapInv, HeapIsSound, BlocksTile
  <2>2. h.start \in D \cup {n} /\ h.start <= size
    BY <2>1, <1>5
  <2>3. ASSUME NEW b \in D \cup {n}
        PROVE  /\ h.start <= b /\ BlockEnd(g, b) <= size
               /\ BlockEnd(g, b) < size => BlockEnd(g, b) \in D \cup {n}
               /\ \A c \in D \cup {n} : b < c => BlockEnd(g, b) <= c
    <3>1. CASE b = n
      <4>1. \A c \in D \cup {n} : ~(b < c)
        BY <3>1, <1>5, <1>6
      <4> HIDE DEF g, n
      <4> QED BY <3>1, <4>1, <1>5, <1>13
    <3>2. CASE b \in D
      <4>1. /\ h.start <= b /\ BlockEnd(h, b) <= n
            /\ BlockEnd(h, b) < n => BlockEnd(h, b) \in D
            /\ \A c \in D : b < c => BlockEnd(h, b) <= c
            /\ BlockEnd(h, b) \in Nat
        BY <3>2, BlockFacts
      <4>2. BlockEnd(h, b) <= size /\ BlockEnd(h, b) \in D \cup {n}
        BY <4>1, <1>5
      <4> HIDE DEF g, n
      <4> QED BY <3>2, <4>1, <4>2, <1>13
    <3> QED BY <3>1, <3>2
  <2> HIDE DEF g, n
  <2> QED BY <2>2, <2>3, <1>4, <1>14 DEF BlocksTile
<1>17. RoomForLink(g)
  <2>1. ASSUME NEW b \in D \cup {n} PROVE g.blocks[b].size >= 8
    <3>1. CASE b = n
      <4>1. size - n - 8 >= 8
        BY <1>5
      <4> HIDE DEF g, bs, n, new
      <4> QED BY <3>1, <4>1, <1>4, <1>8, <1>10
    <3>2. CASE b \in D
      <4>1. h.blocks[b].size >= 8
        BY <3>2, BlockFacts
      <4> HIDE DEF g, bs, n
      <4> QED BY <3>2, <4>1, <1>4, <1>9
    <3> QED BY <3>1, <3>2
  <2> HIDE DEF g, n
  <2> QED BY <2>1, <1>14 DEF RoomForLink, HeaderSize, MinBlockSize
<1>18. FreeBlocksAreApart(g)
  <2>1. \A b \in F : BlockEnd(h, b) \notin F /\ BlockEnd(h, b) # n
    BY DEF HeapInv, HeapIsSound, FreeBlocksAreApart, EndsFree
  <2>2. size \notin F \cup {n}
    <3>1. n < size /\ n \in Nat
      BY <1>5
    <3>2. size \notin F
      BY <3>1, <1>5, <1>6
    <3> QED BY <3>1, <3>2
  <2> HIDE DEF g, n, F
  <2> QED BY <2>1, <2>2, <1>5, <1>12, <1>13 DEF FreeBlocksAreApart
<1>19. FreeListIsSorted(g)
  <2>1. /\ IsSuccessor(F, -1, h.firstFree)
        /\ \A b \in F : IsSuccessor(F, b, h.blocks[b].next)
    BY DEF HeapInv, HeapIsSound, FreeListIsSorted
  <2>2. F \in SUBSET Nat /\ n \in Nat /\ \A b \in F : b < n
    BY <1>5, <1>6
  <2>3. IsSuccessor(F \cup {n}, n, 0)
    <3> HIDE DEF F, n
    <3> QED BY <2>2, AppendedSuccessor
  <2>4. IsSuccessor(F \cup {n}, -1, first)
    <3> DEFINE ff == h.firstFree
    <3> HIDE DEF F, n, ff
    <3>1. IsSuccessor(F \cup {n}, -1, IF F = {} THEN n ELSE ff)
      BY <2>1, <2>2, AppendedSuccessor DEF ff
    <3> QED BY <3>1 DEF ff
  <2>5. ASSUME NEW b \in F
        PROVE  IsSuccessor(F \cup {n}, b, g.blocks[b].next)
    <3> DEFINE nx == h.blocks[b].next
    <3>1. g.blocks[b].next = IF nx = 0 THEN n ELSE nx
      <4> HIDE DEF g, bs, n
      <4> QED BY <1>4, <1>5, <1>9
    <3>2. IsSuccessor(F, b, nx)
      BY <2>1
    <3> HIDE DEF F, n, nx, g
    <3>3. IsSuccessor(F \cup {n}, b, IF nx = 0 THEN n ELSE nx)
      BY <2>2, <3>2, AppendedSuccessor
    <3> QED BY <3>1, <3>3
  <2>6. g.blocks[n].next = 0
    <3> HIDE DEF g, bs, n, new
    <3> QED BY <1>4, <1>8, <1>10
  <2> HIDE DEF g, n, F, first
  <2> QED BY <2>3, <2>4, <2>5, <2>6, <1>4, <1>12 DEF FreeListIsSorted
<1>20. KeepsInUse(h, g)
  <2>1. InUse(g) = InUse(h)
    <3> HIDE DEF g, bs, n, new
    <3> QED BY <1>4, <1>7, <1>8, <1>9, <1>10 DEF InUse
  <2>2. \A b \in InUse(h) : b \in D /\ b \notin F
    BY DEF InUse, FreeAddrs
  <2>3. \A b \in InUse(h) : bs[b] = h.blocks[b]
    BY <2>2, <1>7
  <2> HIDE DEF g, bs
  <2> QED BY <2>1, <2>3, <1>4 DEF KeepsInUse
<1>21. /\ g.blocks[n].size = size - n - 8
       /\ \A b \in F : g.blocks[b].size = h.blocks[b].size
  <2> HIDE DEF g, bs, n, new, F
  <2> QED BY <1>4, <1>5, <1>8, <1>9, <1>10
<1> QED BY <1>4, <1>5, <1>7, <1>12, <1>15, <1>16, <1>17, <1>18, <1>19, <1>20,
           <1>21 DEF HeapInv, HeapIsSound

(* increaseVmmSize keeps a sound heap sound, if the new block fits. *)
LEMMA GrowInv ==
  ASSUME NEW h, NEW Data, <<>> \in Data, HeapInv(h, Data),
         NEW size \in Nat, h.end < size, ~GrowthTooSmall(h, size)
  PROVE  /\ HeapInv(GrowTo(h, size), Data) /\ GrowTo(h, size).end = size
         /\ KeepsInUse(h, GrowTo(h, size))
<1>1. CASE EndsFree(h)
  BY <1>1, ExtendLastInv
<1>2. CASE ~EndsFree(h)
  <2>1. h.end + 16 <= size
    BY <1>2 DEF GrowthTooSmall, MinBlockSize, HeapInv, HeapType
  <2> QED BY <1>2, <2>1, AppendBlockInv
<1> QED BY <1>1, <1>2

(***************************************************************************)
(* The counter of free bytes.                                              *)
(***************************************************************************)
Sizes(h) == [a \in FreeAddrs(h) |-> h.blocks[a].size]

LEMMA FreeSizes ==
  ASSUME NEW h, NEW Data, HeapInv(h, Data)
  PROVE  /\ IsFiniteSet(FreeAddrs(h)) /\ DOMAIN Sizes(h) = FreeAddrs(h)
         /\ \A a \in FreeAddrs(h) : /\ Sizes(h)[a] = h.blocks[a].size
                                    /\ Sizes(h)[a] \in Nat
         /\ BytesFreeIsExact(h) <=>
              h.bytesFree = SumFunctionOnSet(Sizes(h), FreeAddrs(h))
<1>1. \A a \in FreeAddrs(h) : a \in DOMAIN h.blocks
  BY DEF FreeAddrs
<1>2. \A a \in FreeAddrs(h) :
        a \in Nat /\ a <= h.end /\ h.blocks[a].size \in Nat
  BY <1>1, BlockFacts
<1>3. IsFiniteSet(FreeAddrs(h))
  <2>1. FreeAddrs(h) \in SUBSET Nat /\ h.end \in Nat
    BY <1>2 DEF HeapInv, HeapType
  <2> QED BY <1>2, <2>1, FS_BoundedSetOfNaturals
<1>4. DOMAIN Sizes(h) = FreeAddrs(h)
  BY DEF Sizes
<1>5. SumFunction(Sizes(h)) = SumFunctionOnSet(Sizes(h), FreeAddrs(h))
  BY <1>4 DEF SumFunction
<1>6. BytesFreeIsExact(h) <=> h.bytesFree = SumFunction(Sizes(h))
  BY DEF BytesFreeIsExact, Sizes
<1>7. \A a \in FreeAddrs(h) : Sizes(h)[a] = h.blocks[a].size
  BY DEF Sizes
<1> QED BY <1>2, <1>3, <1>4, <1>5, <1>6, <1>7

(* One free block of a heap, and the others. *)
LEMMA OneOfFree ==
  ASSUME NEW h, NEW Data, HeapInv(h, Data), NEW a \in FreeAddrs(h)
  PROVE  /\ SumFunctionOnSet(Sizes(h), FreeAddrs(h)) =
              h.blocks[a].size + SumFunctionOnSet(Sizes(h), FreeAddrs(h) \ {a})
         /\ SumFunctionOnSet(Sizes(h), FreeAddrs(h) \ {a}) \in Nat
         /\ h.blocks[a].size \in Nat
<1>1. /\ IsFiniteSet(FreeAddrs(h))
      /\ \A b \in FreeAddrs(h) : /\ Sizes(h)[b] = h.blocks[b].size
                                 /\ Sizes(h)[b] \in Nat
  BY FreeSizes
<1> DEFINE F == FreeAddrs(h)
           f == Sizes(h)
<1>2. a \in F /\ f[a] = h.blocks[a].size /\ f[a] \in Nat
  BY <1>1
<1>3. IsFiniteSet(F) /\ \A b \in F : f[b] \in Nat
  BY <1>1
<1> HIDE DEF F, f
<1>4. /\ SumFunctionOnSet(f, F) = f[a] + SumFunctionOnSet(f, F \ {a})
      /\ SumFunctionOnSet(f, F \ {a}) \in Nat
  BY <1>2, <1>3, SumFacts
<1> QED BY <1>2, <1>4 DEF f, F

(* Blocks that are free before and after, and keep their size. *)
LEMMA CommonFree ==
  ASSUME NEW h, NEW g, NEW Data, HeapInv(h, Data), HeapInv(g, Data),
         NEW C, C \subseteq FreeAddrs(h), C \subseteq FreeAddrs(g),
         \A a \in C : g.blocks[a].size = h.blocks[a].size
  PROVE  SumFunctionOnSet(Sizes(g), C) = SumFunctionOnSet(Sizes(h), C)
<1>1. IsFiniteSet(C)
  BY FreeSizes, FS_Subset
<1>2. \A a \in C : Sizes(g)[a] = h.blocks[a].size
  <2>1. \A a \in FreeAddrs(g) : Sizes(g)[a] = g.blocks[a].size
    BY FreeSizes
  <2> QED BY <2>1
<1>3. \A a \in C : Sizes(h)[a] = h.blocks[a].size
  <2>1. \A a \in FreeAddrs(h) : Sizes(h)[a] = h.blocks[a].size
    BY FreeSizes
  <2> QED BY <2>1
<1>4. \A a \in C : Sizes(g)[a] = Sizes(h)[a]
  BY <1>2, <1>3
<1> QED BY <1>1, <1>4, SumsAreEqual

LEMMA TakeWholeBytes ==
  ASSUME NEW h, NEW g, NEW Data, HeapInv(h, Data), HeapInv(g, Data),
         BytesFreeIsExact(h), NEW a \in FreeAddrs(h),
         FreeAddrs(g) = FreeAddrs(h) \ {a},
         \A b \in FreeAddrs(h) \ {a} : g.blocks[b].size = h.blocks[b].size,
         g.bytesFree = h.bytesFree - h.blocks[a].size
  PROVE  BytesFreeIsExact(g)
<1> DEFINE C == FreeAddrs(h) \ {a}
<1>1. SumFunctionOnSet(Sizes(g), C) = SumFunctionOnSet(Sizes(h), C)
  <2>1. C \subseteq FreeAddrs(h) /\ C \subseteq FreeAddrs(g)
        /\ \A b \in C : g.blocks[b].size = h.blocks[b].size
    OBVIOUS
  <2> HIDE DEF C
  <2> QED BY <2>1, CommonFree
<1>2. h.bytesFree = h.blocks[a].size + SumFunctionOnSet(Sizes(h), C)
      /\ SumFunctionOnSet(Sizes(h), C) \in Nat /\ h.blocks[a].size \in Nat
  BY FreeSizes, OneOfFree
<1>3. g.bytesFree = SumFunctionOnSet(Sizes(g), FreeAddrs(g))
  <2>1. FreeAddrs(g) = C
    OBVIOUS
  <2>2. SumFunctionOnSet(Sizes(g), FreeAddrs(g)) = SumFunctionOnSet(Sizes(h), C)
    BY <1>1, <2>1, Zenon
  <2> HIDE DEF C
  <2>3. h.bytesFree - h.blocks[a].size = SumFunctionOnSet(Sizes(h), C)
    BY <1>2
  <2> QED BY <2>2, <2>3, Zenon
<1> QED BY <1>3, FreeSizes

(* A free block gives way to another, or changes its size. *)
LEMMA ReplacedBytes ==
  ASSUME NEW h, NEW g, NEW Data, HeapInv(h, Data), HeapInv(g, Data),
         BytesFreeIsExact(h), NEW a \in FreeAddrs(h), NEW r \in FreeAddrs(g),
         FreeAddrs(g) \ {r} = FreeAddrs(h) \ {a},
         \A b \in FreeAddrs(h) \ {a} : g.blocks[b].size = h.blocks[b].size,
         g.bytesFree = h.bytesFree + (g.blocks[r].size - h.blocks[a].size)
  PROVE  BytesFreeIsExact(g)
<1> DEFINE C == FreeAddrs(h) \ {a}
<1>1. SumFunctionOnSet(Sizes(g), C) = SumFunctionOnSet(Sizes(h), C)
  <2>1. C \subseteq FreeAddrs(h) /\ C \subseteq FreeAddrs(g)
        /\ \A b \in C : g.blocks[b].size = h.blocks[b].size
    OBVIOUS
  <2> HIDE DEF C
  <2> QED BY <2>1, CommonFree
<1>2. h.bytesFree = h.blocks[a].size + SumFunctionOnSet(Sizes(h), C)
      /\ SumFunctionOnSet(Sizes(h), C) \in Nat /\ h.blocks[a].size \in Nat
  BY FreeSizes, OneOfFree
<1>3. SumFunctionOnSet(Sizes(g), FreeAddrs(g)) =
        g.blocks[r].size + SumFunctionOnSet(Sizes(g), FreeAddrs(g) \ {r})
      /\ g.blocks[r].size \in Nat
  BY OneOfFree
<1>4. SumFunctionOnSet(Sizes(g), FreeAddrs(g)) =
        g.blocks[r].size + SumFunctionOnSet(Sizes(g), C)
  BY <1>3
<1>5. g.bytesFree = SumFunctionOnSet(Sizes(g), FreeAddrs(g))
  <2> HIDE DEF C
  <2> QED BY <1>1, <1>2, <1>3, <1>4
<1> QED BY <1>5, FreeSizes

LEMMA AppendedBytes ==
  ASSUME NEW h, NEW g, NEW Data, HeapInv(h, Data), HeapInv(g, Data),
         BytesFreeIsExact(h), NEW r, r \notin FreeAddrs(h),
         FreeAddrs(g) = FreeAddrs(h) \cup {r},
         \A b \in FreeAddrs(h) : g.blocks[b].size = h.blocks[b].size,
         g.bytesFree = h.bytesFree + g.blocks[r].size
  PROVE  BytesFreeIsExact(g)
<1> DEFINE C == FreeAddrs(h)
<1>1. SumFunctionOnSet(Sizes(g), C) = SumFunctionOnSet(Sizes(h), C)
  <2>1. C \subseteq FreeAddrs(h) /\ C \subseteq FreeAddrs(g)
        /\ \A b \in C : g.blocks[b].size = h.blocks[b].size
    OBVIOUS
  <2> HIDE DEF C
  <2> QED BY <2>1, CommonFree
<1>2. r \in FreeAddrs(g) /\ FreeAddrs(g) \ {r} = C
  OBVIOUS
<1>3. /\ SumFunctionOnSet(Sizes(g), FreeAddrs(g)) =
           g.blocks[r].size + SumFunctionOnSet(Sizes(g), FreeAddrs(g) \ {r})
      /\ SumFunctionOnSet(Sizes(g), FreeAddrs(g) \ {r}) \in Nat
      /\ g.blocks[r].size \in Nat
  BY <1>2, OneOfFree
<1>4. h.bytesFree = SumFunctionOnSet(Sizes(h), C)
  BY FreeSizes
<1>5. g.bytesFree = SumFunctionOnSet(Sizes(g), FreeAddrs(g))
  <2> DEFINE x == SumFunctionOnSet(Sizes(h), C)
  <2>1. SumFunctionOnSet(Sizes(g), FreeAddrs(g)) = g.blocks[r].size + x
    BY <1>1, <1>2, <1>3, Zenon
  <2>2. x \in Nat
    BY <1>1, <1>2, <1>3, Zenon
  <2>3. g.bytesFree = x + g.blocks[r].size
    BY <1>4, Zenon
  <2> HIDE DEF x
  <2>4. x + g.blocks[r].size = g.blocks[r].size + x
    BY <2>2, <1>3
  <2> QED BY <2>1, <2>3, <2>4, Zenon
<1> QED BY <1>5, FreeSizes

LEMMA BytesAreNat ==
  ASSUME NEW h, NEW Data, HeapInv(h, Data), BytesFreeIsExact(h)
  PROVE  h.bytesFree \in Nat
<1>1. IsFiniteSet(FreeAddrs(h)) /\ \A a \in FreeAddrs(h) : Sizes(h)[a] \in Nat
  BY FreeSizes
<1>2. SumFunctionOnSet(Sizes(h), FreeAddrs(h)) \in Nat
  BY <1>1, SumIsNat
<1> QED BY <1>2, FreeSizes

(* The counter after an allocation ... *)
LEMMA AllocateBytes ==
  ASSUME NEW h, NEW Data, <<>> \in Data, HeapInv(h, Data),
         BytesFreeIsExact(h),
         NEW size \in Nat, size >= 8, CanAllocate(h, size),
         NEW contents, ContentsType(contents, Data)
  PROVE  BytesFreeIsExact(AllocateBlock(h, size, contents))
<1> DEFINE a == FirstFit(h, size)
           g == AllocateBlock(h, size, contents)
<1>1. a \in FreeAddrs(h) /\ a \in DOMAIN h.blocks /\ size <= h.blocks[a].size
  <2>1. Fits(h, size) \in SUBSET Nat /\ Fits(h, size) # {}
    BY DEF Fits, FreeAddrs, CanAllocate, HeapInv, HeapType
  <2>2. a \in Fits(h, size)
    BY <2>1, MinIsLeast DEF FirstFit
  <2> QED BY <2>2 DEF Fits, FreeAddrs
<1>2. h.blocks[a].size \in Nat
  BY <1>1, BlockFacts
<1>3. HeapInv(g, Data)
  BY AllocateInv
<1>4. h.bytesFree \in Nat
  BY BytesAreNat
<1> HIDE DEF a
<1>5. CASE TakesWholeBlock(h, a, size)
  <2>1. g = TakeWhole(h, a, size, contents)
    BY <1>5 DEF AllocateBlock, a
  <2> HIDE DEF g
  <2>2. /\ FreeAddrs(g) = FreeAddrs(h) \ {a}
        /\ \A b \in FreeAddrs(h) \ {a} :
              g.blocks[b].size = h.blocks[b].size
        /\ g.bytesFree = h.bytesFree - h.blocks[a].size
    BY <1>1, <2>1, TakeWholeInv
  <2>3. BytesFreeIsExact(g)
    BY <1>1, <1>3, <2>2, TakeWholeBytes
  <2> QED BY <2>3 DEF g
<1>6. CASE ~TakesWholeBlock(h, a, size)
  <2> DEFINE r == a + 8 + size
  <2>1. size + 16 <= h.blocks[a].size
    BY <1>1, <1>2, <1>6 DEF TakesWholeBlock, MinBlockSize
  <2>2. g = Split(h, a, size, contents)
    BY <1>6 DEF AllocateBlock, a
  <2> HIDE DEF g
  <2>3. /\ FreeAddrs(g) = (FreeAddrs(h) \ {a}) \cup {r}
        /\ r \notin FreeAddrs(h)
        /\ \A b \in FreeAddrs(h) \ {a} :
              g.blocks[b].size = h.blocks[b].size
        /\ g.blocks[r].size = h.blocks[a].size - size - 8
        /\ g.bytesFree = h.bytesFree - (size + 8)
    BY <1>1, <2>1, <2>2, SplitInv
  <2> HIDE DEF r
  <2>4. g.bytesFree = h.bytesFree + (g.blocks[r].size - h.blocks[a].size)
    BY <1>2, <1>4, <2>3
  <2>5. r \in FreeAddrs(g) /\ FreeAddrs(g) \ {r} = FreeAddrs(h) \ {a}
    BY <2>3
  <2>6. BytesFreeIsExact(g)
    BY <1>1, <1>3, <2>3, <2>4, <2>5, ReplacedBytes
  <2> QED BY <2>6 DEF g
<1> QED BY <1>5, <1>6

(* ... after a growth ... *)
LEMMA GrowBytes ==
  ASSUME NEW h, NEW Data, <<>> \in Data, HeapInv(h, Data),
         BytesFreeIsExact(h),
         NEW size \in Nat, h.end < size, ~GrowthTooSmall(h, size)
  PROVE  BytesFreeIsExact(GrowTo(h, size))
<1> DEFINE g == GrowTo(h, size)
<1>1. HeapInv(g, Data)
  BY GrowInv
<1>2. h.bytesFree \in Nat /\ h.end \in Nat
  BY BytesAreNat DEF HeapInv, HeapType
<1>3. g.bytesFree = h.bytesFree + GrownBytes(h, size)
  <2>1. h = [end |-> h.end, start |-> h.start, firstFree |-> h.firstFree,
             bytesFree |-> h.bytesFree, blocks |-> h.blocks]
    BY DEF HeapInv, HeapType
  <2>2. "bytesFree" \in DOMAIN h
    BY <2>1
  <2> QED BY <2>2, Zenon DEF GrowTo
<1>4. CASE EndsFree(h)
  <2>1. PICK e \in FreeAddrs(h) :
              /\ FreeAddrs(g) = FreeAddrs(h)
              /\ g.blocks[e].size = h.blocks[e].size + (size - h.end)
              /\ \A b \in FreeAddrs(h) \ {e} :
                   g.blocks[b].size = h.blocks[b].size
    BY <1>4, ExtendLastInv
  <2>2. h.blocks[e].size \in Nat
    BY BlockFacts DEF FreeAddrs
  <2>3. g.bytesFree = h.bytesFree + (size - h.end)
    BY <1>3, <1>4, Zenon DEF GrownBytes
  <2> HIDE DEF g
  <2>4. g.bytesFree = h.bytesFree + (g.blocks[e].size - h.blocks[e].size)
    BY <1>2, <2>1, <2>2, <2>3
  <2>5. BytesFreeIsExact(g)
    BY <1>1, <2>1, <2>4, ReplacedBytes
  <2> QED BY <2>5 DEF g
<1>5. CASE ~EndsFree(h)
  <2>1. h.end + 16 <= size
    BY <1>2, <1>5 DEF GrowthTooSmall, MinBlockSize
  <2>2. /\ FreeAddrs(g) = FreeAddrs(h) \cup {h.end}
        /\ h.end \notin FreeAddrs(h)
        /\ g.blocks[h.end].size = size - h.end - 8
        /\ \A b \in FreeAddrs(h) : g.blocks[b].size = h.blocks[b].size
    BY <1>5, <2>1, AppendBlockInv
  <2>3. g.bytesFree = h.bytesFree + (size - h.end - 8)
    BY <1>3, <1>5, Zenon DEF GrownBytes, HeaderSize
  <2> HIDE DEF g
  <2>4. g.bytesFree = h.bytesFree + g.blocks[h.end].size
    BY <2>2, <2>3
  <2>5. BytesFreeIsExact(g)
    BY <1>1, <2>2, <2>4, AppendedBytes
  <2> QED BY <2>5 DEF g
<1> QED BY <1>4, <1>5

(* ... and after a collection, which counts anew. *)
LEMMA SweepBytes ==
  ASSUME NEW h, NEW Data, <<>> \in Data, HeapInv(h, Data),
         NEW kept, kept \subseteq InUse(h)
  PROVE  BytesFreeIsExact(Sweep(h, kept))
<1> DEFINE g == Sweep(h, kept)
           starts == RunStarts(h, kept)
<1>1. FreeAddrs(g) = starts
      /\ \A a \in starts : g.blocks[a].size = RunSize(h, kept, a)
  <2>1. g = Sweep(h, kept)
    OBVIOUS
  <2> HIDE DEF g
  <2> QED BY <2>1, SweptBlocks
<1>2. g.bytesFree = SumFunction([a \in starts |-> RunSize(h, kept, a)])
  BY SweptBytes
<1> HIDE DEF g
<1>3. [a \in FreeAddrs(g) |-> g.blocks[a].size]
        = [a \in starts |-> RunSize(h, kept, a)]
  BY <1>1
<1>4. BytesFreeIsExact(g)
  BY <1>2, <1>3, Zenon DEF BytesFreeIsExact
<1> QED BY <1>4 DEF g

LEMMA OneBlockBytes ==
  ASSUME NEW h, NEW Data, HeapInv(h, Data), NEW start,
         FreeAddrs(h) = {start}, h.blocks[start].size = h.bytesFree
  PROVE  BytesFreeIsExact(h)
<1>1. /\ SumFunctionOnSet(Sizes(h), FreeAddrs(h)) =
           h.blocks[start].size + SumFunctionOnSet(Sizes(h), {})
      /\ h.blocks[start].size \in Nat
  <2>1. start \in FreeAddrs(h) /\ FreeAddrs(h) \ {start} = {}
    OBVIOUS
  <2> QED BY <2>1, OneOfFree
<1>2. SumFunctionOnSet(Sizes(h), {}) = 0
  BY SumOfEmpty
<1>3. h.bytesFree = SumFunctionOnSet(Sizes(h), FreeAddrs(h))
  BY <1>1, <1>2
<1> QED BY <1>3, FreeSizes

LEMMA NoBlockBytes ==
  ASSUME NEW h, NEW Data, HeapInv(h, Data), FreeAddrs(h) = {}, h.bytesFree = 0
  PROVE  BytesFreeIsExact(h)
<1>1. SumFunctionOnSet(Sizes(h), FreeAddrs(h)) = 0
  BY SumOfEmpty
<1> QED BY <1>1, FreeSizes

(***************************************************************************)
(* The program area.                                                       *)
(***************************************************************************)
LEMMA OneBlockInv ==
  ASSUME NEW h, NEW Data, <<>> \in Data, NEW start \in Nat, NEW end \in Nat,
         start + 16 <= end,
         h = [end |-> end, start |-> start, firstFree |-> start,
              bytesFree |-> end - start - 8,
              blocks |-> [a \in {start} |-> FreeBlock(end - start - 8, 0)]]
  PROVE  HeapInv(h, Data) /\ BytesFreeIsExact(h) /\ InUse(h) = {}
<1> DEFINE b == FreeBlock(end - start - 8, 0)
<1>1. b \in BlockRecord(Data) /\ b.kind = "free" /\ b.next = 0
      /\ b.size = end - start - 8
  <2>1. end - start - 8 \in Nat
    OBVIOUS
  <2> QED BY <2>1, FreeBlockFacts
<1>2. h = [end |-> end, start |-> start, firstFree |-> start,
           bytesFree |-> end - start - 8, blocks |-> [a \in {start} |-> b]]
  OBVIOUS
<1> HIDE DEF b
<1>3. /\ h.end = end /\ h.start = start /\ h.firstFree = start
      /\ h.bytesFree = end - start - 8
      /\ DOMAIN h.blocks = {start} /\ h.blocks[start] = b
      /\ h.blocks = [a \in {start} |-> b]
  BY <1>2
<1>4. FreeAddrs(h) = {start} /\ InUse(h) = {}
  BY <1>1, <1>3 DEF FreeAddrs, InUse
<1>5. BlockEnd(h, start) = end
  BY <1>1, <1>3 DEF BlockEnd, HeaderSize
<1>6. HeapType(h, Data)
  BY <1>1, <1>2, <1>3 DEF HeapType
<1>7. BlocksTile(h)
  BY <1>3, <1>5 DEF BlocksTile
<1>8. RoomForLink(h) /\ FreeBlocksAreApart(h)
  BY <1>1, <1>3, <1>4, <1>5
  DEF RoomForLink, FreeBlocksAreApart, HeaderSize, MinBlockSize
<1>9. FreeListIsSorted(h)
  BY <1>1, <1>3, <1>4 DEF FreeListIsSorted, IsSuccessor
<1>10. HeapInv(h, Data)
  BY <1>6, <1>7, <1>8, <1>9 DEF HeapInv, HeapIsSound
<1>11. BytesFreeIsExact(h)
  BY <1>1, <1>3, <1>4, <1>10, OneBlockBytes
<1> QED BY <1>4, <1>10, <1>11

LEMMA CreatedInv ==
  ASSUME NEW Data, <<>> \in Data, NEW size \in Nat, MinBlockSize <= size
  PROVE  /\ HeapInv(CreatedHeap(size), Data) /\ CreatedHeap(size).end = size
         /\ BytesFreeIsExact(CreatedHeap(size)) /\ InUse(CreatedHeap(size)) = {}
BY OneBlockInv DEF CreatedHeap, HeaderSize, MinBlockSize

LEMMA ReservedInv ==
  ASSUME NEW h, NEW Data, <<>> \in Data, h.end \in Nat,
         NEW size \in Nat, size <= h.end
  PROVE  /\ HeapInv(ProgramReserved(h, size), Data)
         /\ ProgramReserved(h, size).end = h.end
         /\ BytesFreeIsExact(ProgramReserved(h, size))
         /\ InUse(ProgramReserved(h, size)) = {}
<1> DEFINE g == ProgramReserved(h, size)
<1>1. CASE h.end - size >= MinBlockSize
  <2>1. size + 16 <= h.end
    BY <1>1 DEF MinBlockSize
  <2>2. g = [end |-> h.end, start |-> size, firstFree |-> size,
             bytesFree |-> h.end - size - 8,
             blocks |-> [a \in {size} |-> FreeBlock(h.end - size - 8, 0)]]
    BY <1>1 DEF ProgramReserved, HeaderSize
  <2> HIDE DEF g
  <2>3. /\ HeapInv(g, Data) /\ g.end = h.end
        /\ BytesFreeIsExact(g) /\ InUse(g) = {}
    BY <2>1, <2>2, OneBlockInv
  <2> QED BY <2>3 DEF g
<1>2. CASE ~(h.end - size >= MinBlockSize)
  <2> DEFINE bs == [a \in {} |-> FreeBlock(0, 0)]
  <2>1. g = [end |-> h.end, start |-> h.end, firstFree |-> 0,
             bytesFree |-> 0, blocks |-> bs]
    BY <1>2 DEF ProgramReserved
  <2>2. DOMAIN bs = {} /\ bs \in [{} -> BlockRecord(Data)]
    OBVIOUS
  <2> HIDE DEF g, bs
  <2>3. /\ g.end = h.end /\ g.start = h.end /\ g.firstFree = 0
        /\ g.bytesFree = 0 /\ g.blocks = bs
    BY <2>1
  <2>4. HeapType(g, Data)
    BY <2>1, <2>2, <2>3 DEF HeapType
  <2>5. FreeAddrs(g) = {} /\ InUse(g) = {}
    BY <2>2, <2>3 DEF FreeAddrs, InUse
  <2>6. BlocksTile(g) /\ RoomForLink(g)
    BY <2>2, <2>3 DEF BlocksTile, RoomForLink
  <2>7. FreeListIsSorted(g) /\ FreeBlocksAreApart(g)
    BY <2>3, <2>5 DEF FreeListIsSorted, FreeBlocksAreApart, IsSuccessor
  <2>8. HeapInv(g, Data) /\ g.end = h.end
    BY <2>3, <2>4, <2>6, <2>7 DEF HeapInv, HeapIsSound
  <2>9. BytesFreeIsExact(g)
    BY <2>3, <2>5, <2>8, NoBlockBytes
  <2> QED BY <2>5, <2>8, <2>9 DEF g
<1> QED BY <1>1, <1>2

(* Growth in steps keeps what is in use, when each new block fits. *)
LEMMA GrownFacts ==
  ASSUME NEW h, NEW Data, <<>> \in Data, HeapInv(h, Data),
         NEW s \in Nat, h.end <= s, s = h.end \/ ~GrowthTooSmall(h, s)
  PROVE  /\ HeapInv(Grown(h, s), Data) /\ Grown(h, s).end = s
         /\ KeepsInUse(h, Grown(h, s))
         /\ BytesFreeIsExact(h) => BytesFreeIsExact(Grown(h, s))
<1>1. CASE s = h.end
  BY <1>1 DEF Grown, KeepsInUse
<1>2. CASE s # h.end
  <2>1. h.end < s /\ h.end \in Nat
    BY <1>2 DEF HeapInv, HeapType
  <2>2. Grown(h, s) = GrowTo(h, s)
    BY <1>2 DEF Grown
  <2> QED BY <1>2, <2>1, <2>2, GrowInv, GrowBytes
<1> QED BY <1>1, <1>2

(* What reserveVmMemoryForProgram makes of h, whichever way it ends: it
   refuses, grows the memory, or gives the program its bytes. *)
LEMMA ReserveFacts ==
  ASSUME NEW h, NEW Data, <<>> \in Data, HeapInv(h, Data),
         h.end <= MaxMemory, NEW size \in Nat,
         NEW r \in ReserveResults(h, size)
  PROVE  /\ HeapInv(r.heap, Data)
         /\ h.end <= r.heap.end /\ r.heap.end <= MaxMemory
         /\ BytesFreeIsExact(h) => BytesFreeIsExact(r.heap)
         /\ \/ /\ r.status = "ok" /\ InUse(r.heap) = {}
               /\ r.heap.start \in {AlignTo8(size), r.heap.end}
            \/ /\ r.status \in {"heapInUse", "notEnoughMemory",
                                "sizeIncreaseFailed"}
               /\ KeepsInUse(h, r.heap)
<1> DEFINE need   == AlignTo8(size)
           enough == {s \in LaterSizes(h.end) : s >= need}
<1>1. need \in Nat /\ h.end \in Nat
  BY DEF AlignTo8, HeapInv, HeapType
<1>2. CASE ~HeapIsOneFreeBlock(h)
  <2>1. r = [heap |-> h, status |-> "heapInUse"]
    BY <1>2 DEF ReserveResults
  <2> QED BY <1>1, <2>1 DEF KeepsInUse
<1>3. CASE HeapIsOneFreeBlock(h)
  <2>1. EndsFree(h)
    BY <1>3 DEF HeapIsOneFreeBlock, EndsFree, BlockEnd, HeaderSize, HeapInv,
                HeapType
  <2>2. ASSUME NEW s \in Nat, h.end <= s
        PROVE  /\ HeapInv(Grown(h, s), Data) /\ Grown(h, s).end = s
               /\ KeepsInUse(h, Grown(h, s))
               /\ BytesFreeIsExact(h) => BytesFreeIsExact(Grown(h, s))
    BY <2>1, <2>2, GrownFacts DEF GrowthTooSmall
  <2>3. \A s \in LaterSizes(h.end) :
           s \in Nat /\ h.end <= s /\ s <= MaxMemory
    BY <1>1, MaxMemoryAssumption DEF LaterSizes
  <2>4. \/ /\ enough # {}
           /\ r = [heap |-> ProgramReserved(Grown(h, Min(enough)), need),
                   status |-> "ok"]
        \/ r = [heap |-> Grown(h, MaxMemory), status |-> "notEnoughMemory"]
        \/ \E s \in LaterSizes(h.end) :
             r = [heap |-> Grown(h, s), status |-> "sizeIncreaseFailed"]
    BY <1>3, Zenon DEF ReserveResults, need
  <2>5. CASE /\ enough # {}
             /\ r = [heap |-> ProgramReserved(Grown(h, Min(enough)), need),
                     status |-> "ok"]
    <3> DEFINE least == Min(enough)
               g     == Grown(h, least)
    <3>1. least \in enough
      <4>1. enough \in SUBSET Nat
        BY <2>3
      <4> HIDE DEF enough
      <4> QED BY <4>1, <2>5, MinIsLeast
    <3>2. /\ least \in Nat /\ h.end <= least /\ need <= least
          /\ least <= MaxMemory
      BY <2>3, <3>1
    <3>3. r = [heap |-> ProgramReserved(g, need), status |-> "ok"]
      BY <2>5
    <3> HIDE DEF least, need, enough
    <3>4. g.end = least
      BY <2>2, <3>2
    <3> HIDE DEF g
    <3>5. /\ HeapInv(ProgramReserved(g, need), Data)
          /\ ProgramReserved(g, need).end = g.end
          /\ BytesFreeIsExact(ProgramReserved(g, need))
          /\ InUse(ProgramReserved(g, need)) = {}
      BY <1>1, <3>2, <3>4, ReservedInv
    <3>6. \/ ProgramReserved(g, need).start = need
          \/ ProgramReserved(g, need).start = g.end
      BY DEF ProgramReserved
    <3> QED BY <1>1, <3>2, <3>3, <3>4, <3>5, <3>6 DEF need
  <2>6. CASE \E s \in LaterSizes(h.end) \cup {MaxMemory} :
               \E e \in {"notEnoughMemory", "sizeIncreaseFailed"} :
                 r = [heap |-> Grown(h, s), status |-> e]
    <3>1. PICK s \in LaterSizes(h.end) \cup {MaxMemory} :
            \E e \in {"notEnoughMemory", "sizeIncreaseFailed"} :
              r = [heap |-> Grown(h, s), status |-> e]
      BY <2>6
    <3>2. s \in Nat /\ h.end <= s /\ s <= MaxMemory
      BY <2>3, MaxMemoryAssumption, <1>1
    <3>3. r.heap = Grown(h, s)
          /\ r.status \in {"notEnoughMemory", "sizeIncreaseFailed"}
      BY <3>1
    <3> QED BY <2>2, <3>2, <3>3
  <2> HIDE DEF enough, need
  <2> QED BY <2>4, <2>5, <2>6
<1> QED BY <1>2, <1>3

(***************************************************************************)
(* Reachability and marking.                                               *)
(***************************************************************************)
IsReachClosed(h, R, S) ==
  /\ HeadersOf(h, R) \cap InUse(h) \subseteq S
  /\ \A a \in S : HeadersOf(h, h.blocks[a].refs) \cap InUse(h) \subseteq S

(* What is reachable is closed, and the least such set. *)
LEMMA ReachableFacts ==
  ASSUME NEW h, NEW R
  PROVE  /\ Reachable(h, R) \subseteq InUse(h)
         /\ IsReachClosed(h, R, Reachable(h, R))
         /\ \A S \in SUBSET InUse(h) :
              IsReachClosed(h, R, S) => Reachable(h, R) \subseteq S
<1> DEFINE closed == {S \in SUBSET InUse(h) : IsReachClosed(h, R, S)}
           X == Reachable(h, R)
<1>1. X = {a \in InUse(h) : \A S \in closed : a \in S}
  BY DEF Reachable, IsReachClosed
<1>2. HeadersOf(h, R) \cap InUse(h) \subseteq X
  BY <1>1 DEF IsReachClosed
<1>3. ASSUME NEW a \in X
      PROVE  HeadersOf(h, h.blocks[a].refs) \cap InUse(h) \subseteq X
  <2> DEFINE T == HeadersOf(h, h.blocks[a].refs) \cap InUse(h)
  <2>1. \A S \in closed : T \subseteq S
    BY <1>1, <1>3 DEF IsReachClosed
  <2> HIDE DEF closed, X
  <2> QED BY <1>1, <2>1
<1> QED BY <1>1, <1>2, <1>3 DEF IsReachClosed

(* The same of the marks of the collector. *)
LEMMA MarkedFacts ==
  ASSUME NEW h, NEW R
  PROVE  /\ Marked(h, R) \subseteq InUse(h)
         /\ IsMarkClosed(h, R, Marked(h, R))
         /\ \A S \in SUBSET InUse(h) :
              IsMarkClosed(h, R, S) => Marked(h, R) \subseteq S
<1> DEFINE closed == {S \in SUBSET InUse(h) : IsMarkClosed(h, R, S)}
           X == Marked(h, R)
<1>1. X = {a \in InUse(h) : \A S \in closed : a \in S}
  BY DEF Marked
<1>2. HeadersOf(h, R) \cap InUse(h) \subseteq X
  BY <1>1 DEF IsMarkClosed
<1>3. ASSUME NEW a \in X
      PROVE  Visits(h, a) \subseteq X
  <2>1. \A S \in closed : Visits(h, a) \subseteq S
    BY <1>1, <1>3 DEF IsMarkClosed
  <2>2. Visits(h, a) \subseteq InUse(h)
    BY DEF Visits
  <2> HIDE DEF closed, X
  <2> QED BY <1>1, <2>1, <2>2
<1> QED BY <1>1, <1>2, <1>3 DEF IsMarkClosed

(* The collector marks nothing that is not reachable ... *)
LEMMA MarkedIsReachable ==
  ASSUME NEW h, NEW R
  PROVE  Marked(h, R) \subseteq Reachable(h, R)
<1> DEFINE X == Reachable(h, R)
<1>1. X \in SUBSET InUse(h) /\ IsReachClosed(h, R, X)
  BY ReachableFacts
<1>2. \A a \in X :
        Visits(h, a) \subseteq HeadersOf(h, h.blocks[a].refs) \cap InUse(h)
  BY DEF Visits
<1> HIDE DEF X
<1>3. IsMarkClosed(h, R, X)
  BY <1>1, <1>2 DEF IsMarkClosed, IsReachClosed
<1>4. Marked(h, R) \subseteq X
  BY <1>1, <1>3, MarkedFacts
<1> QED BY <1>4 DEF X

(***************************************************************************)
(* A heap is live for the roots R when nothing that can be followed from R *)
(* dangles; its code is closed when no reachable code refers to a block    *)
(* that is not code, which the collector would not visit.                  *)
(***************************************************************************)
IsLive(h, R) ==
  /\ HeadersOf(h, R) \subseteq InUse(h)
  /\ \A a \in Reachable(h, R) :
       HeadersOf(h, h.blocks[a].refs) \subseteq InUse(h)

CodeIsClosed(h, R) ==
  \A a \in Reachable(h, R) : h.blocks[a].kind = "code" =>
    \A b \in HeadersOf(h, h.blocks[a].refs) : h.blocks[b].kind = "code"

(* ... and all that is reachable, when the code is closed. *)
LEMMA ReachableIsMarked ==
  ASSUME NEW h, NEW R, CodeIsClosed(h, R)
  PROVE  Reachable(h, R) \subseteq Marked(h, R)
<1> DEFINE X == Marked(h, R) \cap Reachable(h, R)
<1>1. X \in SUBSET InUse(h) /\ HeadersOf(h, R) \cap InUse(h) \subseteq X
  BY ReachableFacts, MarkedFacts DEF IsReachClosed, IsMarkClosed
<1>2. ASSUME NEW a \in X
      PROVE  HeadersOf(h, h.blocks[a].refs) \cap InUse(h) \subseteq X
  <2> DEFINE T == HeadersOf(h, h.blocks[a].refs) \cap InUse(h)
  <2>1. T \subseteq Reachable(h, R)
    BY ReachableFacts DEF IsReachClosed
  <2>2. T \subseteq Visits(h, a)
    <3>1. CASE h.blocks[a].kind = "code"
      <4>1. \A b \in T : h.blocks[b].kind = "code"
        BY <3>1 DEF CodeIsClosed
      <4> QED BY <3>1, <4>1 DEF Visits
    <3>2. CASE h.blocks[a].kind # "code"
      BY <3>2 DEF Visits
    <3> QED BY <3>1, <3>2
  <2>3. Visits(h, a) \subseteq Marked(h, R)
    BY MarkedFacts DEF IsMarkClosed
  <2> QED BY <2>1, <2>2, <2>3
<1> HIDE DEF X
<1>3. IsReachClosed(h, R, X)
  BY <1>1, <1>2 DEF IsReachClosed
<1>4. Reachable(h, R) \subseteq X
  BY <1>1, <1>3, ReachableFacts
<1> QED BY <1>4 DEF X

(* More roots leave more marks. *)
LEMMA MarkedIsMonotonic ==
  ASSUME NEW h, NEW R, NEW Q, R \subseteq Q
  PROVE  Marked(h, R) \subseteq Marked(h, Q)
<1> DEFINE X == Marked(h, Q)
<1>1. HeadersOf(h, R) \subseteq HeadersOf(h, Q)
  BY DEF HeadersOf
<1>2. X \in SUBSET InUse(h) /\ IsMarkClosed(h, Q, X)
  BY MarkedFacts
<1> HIDE DEF X
<1>3. IsMarkClosed(h, R, X)
  BY <1>1, <1>2 DEF IsMarkClosed
<1>4. Marked(h, R) \subseteq X
  BY <1>2, <1>3, MarkedFacts
<1> QED BY <1>4 DEF X

(* A collection keeps what is marked from the roots and, maybe, from some
   code blocks that the slack of others leads to. *)
LEMMA CollectionFacts ==
  ASSUME NEW h, NEW R, NEW g \in Collections(h, R)
  PROVE  \E Q \in CollectorRoots(h, R) :
           /\ R \subseteq Q
           /\ Q \subseteq R \cup {DataAddress(a) : a \in CodeBlocks(h)}
           /\ g = Sweep(h, Marked(h, Q))
           /\ Marked(h, Q) \in SUBSET InUse(h)
           /\ Marked(h, R) \subseteq Marked(h, Q)
           /\ IsMarkClosed(h, Q, Marked(h, Q))
<1>1. PICK Q \in CollectorRoots(h, R) : g = Sweep(h, Marked(h, Q))
  BY DEF Collections
<1>2. R \subseteq Q /\ Q \subseteq R \cup {DataAddress(a) : a \in CodeBlocks(h)}
  BY DEF CollectorRoots
<1> QED BY <1>1, <1>2, MarkedFacts, MarkedIsMonotonic

(* Without room for a whole PUSH in the slack they keep just that. *)
LEMMA CollectorRootsExact ==
  ASSUME NEW h, NEW R, NEW Q \in CollectorRoots(h, R),
         CodeWithSlack(h, Marked(h, R), PushSize) = {}
  PROVE  Q = R
BY DEF CollectorRoots

-----------------------------------------------------------------------------
(* Stacks, for every set of words and every maximum. *)

(* The inductive invariant, as a predicate of a stack. *)
SoundStack(s, W) ==
  /\ s \in [items : Seq(W), end : Nat, max : Nat \ {0},
            status : StackStatuses]
  /\ StackSize(s) <= s.end
  /\ s.end <= s.max

(* What a routine may make of s: a sound stack that has not shrunk, but may
   have grown to one of the sizes it can grow to. *)
Follows(s, r, W) ==
  /\ SoundStack(r, W)
  /\ r.max = s.max /\ s.end <= r.end
  /\ r.end = s.end \/ r.end \in GrowthSizes(s)

-----------------------------------------------------------------------------
(* The size that increaseStackSize computes. *)

LEMMA EightTimesSum ==
  ASSUME NEW a \in Nat, NEW b \in Nat
  PROVE  8 * (a + b) = 8 * a + 8 * b
OBVIOUS

LEMMA StackSizeNat ==
  ASSUME NEW W, NEW s, SoundStack(s, W)
  PROVE  Len(s.items) \in Nat /\ StackSize(s) \in Nat
         /\ StackSize(s) = 8 * Len(s.items)
<1>1. s.items \in Seq(W)
  BY DEF SoundStack
<1>2. Len(s.items) \in Nat
  BY <1>1
<1> QED BY <1>2 DEF StackSize, Bytes, WordSize

LEMMA IncreasedEndFacts ==
  ASSUME NEW W, NEW s, SoundStack(s, W), NEW n \in Nat, ~ExceedsMax(s, n),
         StackSize(s) + n > 0
  PROVE  /\ IncreasedEnd(s, n) \in Nat \cap GrowthSizes(s)
         /\ StackSize(s) + n <= IncreasedEnd(s, n)
         /\ IncreasedEnd(s, n) <= s.max
<1> DEFINE S == {m \in GrowthSizes(s) : m >= StackSize(s) + n}
<1>1. StackSize(s) \in Nat
  BY StackSizeNat
<1>2. s.max \in Nat \ {0}
  BY DEF SoundStack
<1>3. GrowthSizes(s) \subseteq 1 .. s.max /\ s.max \in GrowthSizes(s)
  BY <1>2 DEF GrowthSizes
<1>4. s.max \in S
  BY <1>1, <1>2, <1>3 DEF ExceedsMax
<1>5. S \in SUBSET Nat /\ S # {}
  BY <1>3, <1>4
<1>6. Min(S) \in S
  <2> HIDE DEF S
  <2> QED BY <1>5, MinIsLeast
<1>7. IncreasedEnd(s, n) = Min(S)
  BY DEF IncreasedEnd
<1> QED BY <1>2, <1>3, <1>6, <1>7

(* Growth keeps the contents, and makes room when it succeeds. *)
LEMMA IncreaseFacts ==
  ASSUME NEW W, NEW s, SoundStack(s, W), NEW n \in Nat, NEW mem \in BOOLEAN,
         StackSize(s) + n > s.end
  PROVE  LET r == IncreaseStackSize(s, n, mem)
         IN  /\ Follows(s, r, W) /\ r.items = s.items
             /\ StackOk(r) => StackSize(s) + n <= r.end
<1> DEFINE r == IncreaseStackSize(s, n, mem)
<1>1. s.end \in Nat /\ StackSize(s) \in Nat /\ s.max \in Nat
  BY StackSizeNat DEF SoundStack
<1>2. CASE ExceedsMax(s, n)
  <2>1. r = [s EXCEPT !.status = "overflow"]
    BY <1>2 DEF IncreaseStackSize, StackFailed
  <2> QED BY <1>1, <2>1
      DEF SoundStack, Follows, StackOk, StackStatuses, StackSize
<1>3. CASE ~ExceedsMax(s, n) /\ mem
  <2>1. r = [s EXCEPT !.end = IncreasedEnd(s, n), !.status = "ok"]
    BY <1>3 DEF IncreaseStackSize
  <2>2. /\ IncreasedEnd(s, n) \in Nat \cap GrowthSizes(s)
        /\ StackSize(s) + n <= IncreasedEnd(s, n)
        /\ IncreasedEnd(s, n) <= s.max
    BY <1>1, <1>3, IncreasedEndFacts
  <2>3. r \in [items : Seq(W), end : Nat, max : Nat \ {0},
               status : StackStatuses]
        /\ r.items = s.items /\ r.end = IncreasedEnd(s, n)
        /\ r.max = s.max
    BY <2>1, <2>2 DEF SoundStack, StackStatuses
  <2>4. StackSize(r) = StackSize(s)
    BY <2>3 DEF StackSize
  <2> QED BY <1>1, <2>2, <2>3, <2>4 DEF SoundStack, Follows
<1>4. CASE ~ExceedsMax(s, n) /\ ~mem
  <2>1. r = [s EXCEPT !.status = "noMemory"]
    BY <1>4 DEF IncreaseStackSize, StackFailed
  <2> QED BY <1>1, <2>1
      DEF SoundStack, Follows, StackOk, StackStatuses, StackSize
<1> QED BY <1>2, <1>3, <1>4

LEMMA StatusFacts ==
  ASSUME NEW W, NEW s, SoundStack(s, W), NEW e \in StackStatuses
  PROVE  /\ Follows(s, StackFailed(s, e), W) /\ Follows(s, StackDone(s), W)
         /\ StackFailed(s, e).items = s.items /\ StackDone(s).items = s.items
         /\ StackFailed(s, e).status = e /\ StackDone(s).status = "ok"
         /\ StackFailed(s, e).end = s.end /\ StackDone(s).end = s.end
BY DEF SoundStack, Follows, StackFailed, StackDone, StackStatuses, StackSize

LEMMA WithRoomFacts ==
  ASSUME NEW W, NEW s, SoundStack(s, W), NEW n \in Nat, NEW mem \in BOOLEAN
  PROVE  LET r == WithRoom(s, n, mem)
         IN  /\ Follows(s, r, W) /\ r.items = s.items
             /\ StackOk(r) => StackSize(s) + n <= r.end
<1>1. StackSize(s) \in Nat /\ s.end \in Nat
  BY StackSizeNat DEF SoundStack
<1>2. CASE StackSize(s) + n > s.end
  BY <1>2, IncreaseFacts DEF WithRoom
<1>3. CASE ~(StackSize(s) + n > s.end)
  <2>1. WithRoom(s, n, mem) = StackDone(s)
    BY <1>3 DEF WithRoom
  <2>2. "ok" \in StackStatuses
    BY DEF StackStatuses
  <2> QED BY <1>1, <1>3, <2>1, <2>2, StatusFacts
<1> QED BY <1>2, <1>3

(* A stack with room takes items on top, or in place of its own. *)
LEMMA Refilled ==
  ASSUME NEW W, NEW s, NEW r, SoundStack(s, W), Follows(s, r, W),
         NEW items \in Seq(W),
         Bytes(items) <= r.end
  PROVE  LET q == [r EXCEPT !.items = items]
         IN  Follows(s, q, W) /\ q.items = items /\ q.status = r.status
<1> DEFINE q == [r EXCEPT !.items = items]
<1>1. q \in [items : Seq(W), end : Nat, max : Nat \ {0},
             status : StackStatuses]
      /\ q.items = items /\ q.end = r.end /\ q.status = r.status
  BY DEF SoundStack, Follows
<1>2. StackSize(q) = Bytes(items)
  BY <1>1 DEF StackSize
<1> QED BY <1>1, <1>2 DEF SoundStack, Follows

-----------------------------------------------------------------------------
(* The routines: what each makes of a sound stack. *)

Done(r, items)  == r.status = "ok" /\ r.items = items
Refused(s, r)   == r.status # "ok" /\ r.items = s.items

LEMMA FailureRefuses ==
  ASSUME NEW W, NEW s, SoundStack(s, W), NEW e \in StackStatuses \ {"ok"}
  PROVE  Follows(s, StackFailed(s, e), W) /\ Refused(s, StackFailed(s, e))
<1>1. StackFailed(s, e).status = e /\ StackFailed(s, e).items = s.items
      /\ Follows(s, StackFailed(s, e), W)
  BY StatusFacts
<1> QED BY <1>1 DEF Refused

LEMMA PushFacts ==
  ASSUME NEW W, NEW s, SoundStack(s, W), NEW items \in Seq(W),
         NEW mem \in BOOLEAN
  PROVE  LET r == PushStack(s, items, mem)
         IN  Follows(s, r, W) /\ (Done(r, s.items \o items) \/ Refused(s, r))
<1> DEFINE w == WithRoom(s, Bytes(items), mem)
<1>1. Len(items) \in Nat /\ Bytes(items) \in Nat /\ s.items \in Seq(W)
  <2>1. Len(items) \in Nat
    OBVIOUS
  <2> QED BY <2>1 DEF Bytes, WordSize, SoundStack
<1>2. Follows(s, w, W) /\ w.items = s.items
      /\ (StackOk(w) => StackSize(s) + Bytes(items) <= w.end)
  BY <1>1, WithRoomFacts
<1>3. CASE StackOk(w)
  <2>1. s.items \o items \in Seq(W)
        /\ Len(s.items \o items) = Len(s.items) + Len(items)
    BY <1>1, ConcatProperties
  <2>2. Bytes(s.items \o items) = StackSize(s) + Bytes(items)
    <3>1. Len(s.items) \in Nat /\ StackSize(s) = 8 * Len(s.items)
      BY StackSizeNat
    <3>2. Bytes(s.items \o items) = 8 * Len(s.items \o items)
      BY DEF Bytes, WordSize
    <3>3. Bytes(items) = 8 * Len(items)
      BY DEF Bytes, WordSize
    <3>4. 8 * (Len(s.items) + Len(items)) = 8 * Len(s.items) + 8 * Len(items)
      BY <1>1, <3>1, EightTimesSum, Zenon
    <3> QED BY <2>1, <3>1, <3>2, <3>3, <3>4, Zenon
  <2>3. PushStack(s, items, mem) = [w EXCEPT !.items = s.items \o items]
    BY <1>2, <1>3 DEF PushStack
  <2> HIDE DEF w
  <2>4. Bytes(s.items \o items) <= w.end
    BY <1>2, <1>3, <2>2
  <2>5. LET q == [w EXCEPT !.items = s.items \o items]
        IN  Follows(s, q, W) /\ q.items = s.items \o items
            /\ q.status = w.status
    <3> DEFINE all == s.items \o items
    <3>1. all \in Seq(W) /\ Bytes(all) <= w.end
      BY <2>1, <2>4
    <3> HIDE DEF all
    <3>2. LET q == [w EXCEPT !.items = all]
          IN  Follows(s, q, W) /\ q.items = all /\ q.status = w.status
      BY <1>2, <3>1, Refilled
    <3> QED BY <3>2 DEF all
  <2> QED BY <1>3, <2>3, <2>5 DEF Done, StackOk
<1>4. CASE ~StackOk(w)
  <2>1. PushStack(s, items, mem) = StackFailed(s, "overflow")
    BY <1>4 DEF PushStack
  <2> QED BY <2>1, FailureRefuses DEF StackStatuses
<1> QED BY <1>3, <1>4

(* The words below the top k, and the top k, of a stack with so many. *)
LEMMA PartsOfStack ==
  ASSUME NEW W, NEW s, SoundStack(s, W), NEW k \in Nat, HasWords(s, k)
  PROVE  LET rest == SubSeq(s.items, 1, Len(s.items) - k)
             top  == TopItems(s, k)
         IN  /\ rest \in Seq(W) /\ Len(rest) = Len(s.items) - k
             /\ \A i \in 1 .. Len(s.items) - k : rest[i] = s.items[i]
             /\ top \in Seq(W) /\ Len(top) = k
             /\ \A i \in 1 .. k : top[i] = s.items[Len(s.items) - k + i]
<1> DEFINE n == Len(s.items)
<1>1. n \in Nat /\ s.items \in Seq(W) /\ k <= n
  BY StackSizeNat DEF SoundStack, HasWords
<1>2. \A i \in 1 .. n : s.items[i] \in W
  BY <1>1, ElementOfSeq
<1> HIDE DEF n
<1>3. LET rest == SubSeq(s.items, 1, n - k)
      IN  /\ rest \in Seq(W) /\ Len(rest) = n - k
          /\ \A i \in 1 .. n - k : rest[i] = s.items[i]
  <2>1. \A i \in 1 .. n - k : s.items[i] \in W
    BY <1>1, <1>2
  <2>2. LET rest == SubSeq(s.items, 1, n - k)
        IN  /\ rest \in Seq(W)
            /\ Len(rest) = IF 1 <= n - k THEN n - k - 1 + 1 ELSE 0
            /\ \A i \in 1 .. n - k - 1 + 1 : rest[i] = s.items[1 + i - 1]
    BY <1>1, <2>1, SubSeqProperties
  <2> QED BY <1>1, <2>2
<1>4. LET top == SubSeq(s.items, n - k + 1, n)
      IN  /\ top \in Seq(W) /\ Len(top) = k
          /\ \A i \in 1 .. k : top[i] = s.items[n - k + i]
  <2>1. \A i \in n - k + 1 .. n : s.items[i] \in W
    BY <1>1, <1>2
  <2>2. LET top == SubSeq(s.items, n - k + 1, n)
        IN  /\ top \in Seq(W)
            /\ Len(top) = IF n - k + 1 <= n THEN n - (n - k + 1) + 1 ELSE 0
            /\ \A i \in 1 .. n - (n - k + 1) + 1 :
                 top[i] = s.items[n - k + 1 + i - 1]
    BY <1>1, <2>1, SubSeqProperties
  <2> QED BY <1>1, <2>2
<1>5. TopItems(s, k) = SubSeq(s.items, n - k + 1, n)
  BY DEF TopItems, n
<1> QED BY <1>3, <1>4, <1>5 DEF n

LEMMA PopFacts ==
  ASSUME NEW W, NEW s, SoundStack(s, W), NEW k \in Nat
  PROVE  LET r == PopStack(s, k)
         IN  /\ Follows(s, r, W)
             /\ IF HasWords(s, k)
                THEN Done(r, SubSeq(s.items, 1, Len(s.items) - k))
                ELSE Refused(s, r)
<1>1. CASE HasWords(s, k)
  <2> DEFINE rest == SubSeq(s.items, 1, Len(s.items) - k)
  <2>1. rest \in Seq(W) /\ Len(rest) = Len(s.items) - k
    BY <1>1, PartsOfStack
  <2>2. Bytes(rest) <= s.end
    BY <2>1, StackSizeNat DEF SoundStack, Bytes, WordSize
  <2> HIDE DEF rest
  <2>3. Follows(s, StackDone(s), W) /\ StackDone(s).status = "ok"
        /\ StackDone(s).end = s.end
    BY StatusFacts DEF StackStatuses
  <2>4. LET q == [StackDone(s) EXCEPT !.items = rest]
        IN  Follows(s, q, W) /\ q.items = rest /\ q.status = "ok"
    BY <2>1, <2>2, <2>3, Refilled
  <2>5. PopStack(s, k) = [StackDone(s) EXCEPT !.items = rest]
    BY <1>1 DEF PopStack, StackDone, SoundStack, rest
  <2> QED BY <1>1, <2>4, <2>5 DEF Done, rest
<1>2. CASE ~HasWords(s, k)
  <2>1. PopStack(s, k) = StackFailed(s, "underflow")
    BY <1>2 DEF PopStack
  <2> QED BY <1>2, <2>1, FailureRefuses DEF StackStatuses
<1> QED BY <1>1, <1>2

LEMMA ReadFacts ==
  ASSUME NEW W, NEW s, SoundStack(s, W), NEW k \in Nat
  PROVE  LET r == ReadStackTop(s, k)
         IN  /\ Follows(s, r, W)
             /\ IF HasWords(s, k) THEN Done(r, s.items) ELSE Refused(s, r)
<1>1. CASE HasWords(s, k)
  <2>1. ReadStackTop(s, k) = StackDone(s)
    BY <1>1 DEF ReadStackTop
  <2> QED BY <1>1, <2>1, StatusFacts DEF StackStatuses, Done
<1>2. CASE ~HasWords(s, k)
  <2>1. ReadStackTop(s, k) = StackFailed(s, "underflow")
    BY <1>2 DEF ReadStackTop
  <2> QED BY <1>2, <2>1, FailureRefuses DEF StackStatuses
<1> QED BY <1>1, <1>2

(* The top k words change places with the k words below them. *)
Swapped(s, k) ==
  LET n == Len(s.items)
  IN  [i \in 1 .. n |-> IF i > n - k THEN s.items[i - k]
                        ELSE IF i > n - 2 * k THEN s.items[i + k]
                        ELSE s.items[i]]

(* The top k words are there twice. *)
Duplicated(s, k) ==
  LET n == Len(s.items)
  IN  [i \in 1 .. n + k |-> IF i > n THEN s.items[i - k] ELSE s.items[i]]

(* A sequence is equal to a function that agrees with it. *)
LEMMA SequenceIsFunction ==
  ASSUME NEW W, NEW q \in Seq(W), NEW f, NEW n \in Nat, Len(q) = n,
         f = [i \in 1 .. n |-> f[i]], \A i \in 1 .. n : q[i] = f[i]
  PROVE  q = f
<1>1. q = [i \in 1 .. n |-> q[i]]
  <2>1. q \in [1 .. Len(q) -> W]
    BY LenProperties
  <2> QED BY <2>1
<1> QED BY <1>1

(* t consists of the l words of p and then of the m words of q. *)
Consists(W, t, p, l, q, m) ==
  /\ t \in Seq(W) /\ Len(t) = l + m
  /\ \A i \in 1 .. l + m : i <= l => t[i] = p[i]
  /\ \A i \in 1 .. l + m : i > l => t[i] = q[i - l]

LEMMA ConcatConsists ==
  ASSUME NEW W, NEW p \in Seq(W), NEW q \in Seq(W), NEW l, NEW m,
         Len(p) = l, Len(q) = m
  PROVE  Consists(W, p \o q, p, l, q, m)
<1>1. /\ p \o q \in Seq(W) /\ Len(p \o q) = Len(p) + Len(q)
      /\ \A i \in 1 .. Len(p) + Len(q) :
           (p \o q)[i] = IF i <= Len(p) THEN p[i] ELSE q[i - Len(p)]
  BY ConcatProperties
<1>2. l \in Nat /\ m \in Nat
  OBVIOUS
<1> QED BY <1>1, <1>2 DEF Consists

LEMMA SwapFacts ==
  ASSUME NEW W, NEW s, SoundStack(s, W), NEW k \in Nat, NEW mem \in BOOLEAN
  PROVE  LET r == SwapStackTop(s, k, mem)
         IN  /\ Follows(s, r, W)
             /\ Refused(s, r) \/ (HasWords(s, 2 * k) /\ Done(r, Swapped(s, k)))
<1>1. CASE ~HasWords(s, 2 * k)
  <2>1. SwapStackTop(s, k, mem) = StackFailed(s, "underflow")
    BY <1>1 DEF SwapStackTop
  <2> QED BY <2>1, FailureRefuses DEF StackStatuses
<1>2. CASE HasWords(s, 2 * k) /\ k > 0 /\ ~mem
  <2>1. SwapStackTop(s, k, mem) = StackFailed(s, "noMemory")
    BY <1>2 DEF SwapStackTop
  <2> QED BY <2>1, FailureRefuses DEF StackStatuses
<1>3. CASE HasWords(s, 2 * k) /\ ~(k > 0 /\ ~mem)
  <2> DEFINE n     == Len(s.items)
             a     == n - 2 * k
             b     == n - k
             rest  == SubSeq(s.items, 1, n - 2 * k)
             both  == TopItems(s, 2 * k)
             next  == SubSeq(both, 1, k)
             top   == TopItems(s, k)
             below == rest \o top
             q     == below \o next
  <2>1. n \in Nat /\ 2 * k \in Nat /\ 2 * k <= n /\ HasWords(s, k)
    <3>1. n \in Nat /\ 2 * k <= n
      BY <1>3, StackSizeNat DEF HasWords
    <3> HIDE DEF n
    <3>2. k <= n
      BY <3>1
    <3> QED BY <3>1, <3>2 DEF HasWords, n
  <2>2. /\ rest \in Seq(W) /\ Len(rest) = a
        /\ \A i \in 1 .. a : rest[i] = s.items[i]
        /\ both \in Seq(W) /\ Len(both) = 2 * k
        /\ \A i \in 1 .. 2 * k : both[i] = s.items[n - 2 * k + i]
    <3>1. HasWords(s, 2 * k) /\ n = Len(s.items)
      BY <1>3
    <3> DEFINE m == 2 * k
    <3>2. m \in Nat /\ HasWords(s, m)
      BY <2>1, <3>1
    <3> HIDE DEF m, n
    <3>3. /\ SubSeq(s.items, 1, Len(s.items) - m) \in Seq(W)
          /\ Len(SubSeq(s.items, 1, Len(s.items) - m)) = Len(s.items) - m
          /\ \A i \in 1 .. Len(s.items) - m :
               SubSeq(s.items, 1, Len(s.items) - m)[i] = s.items[i]
          /\ TopItems(s, m) \in Seq(W) /\ Len(TopItems(s, m)) = m
          /\ \A i \in 1 .. m : TopItems(s, m)[i] = s.items[Len(s.items) - m + i]
      BY <3>2, PartsOfStack
    <3> QED BY <3>1, <3>3 DEF m
  <2>3. /\ top \in Seq(W) /\ Len(top) = k
        /\ \A i \in 1 .. k : top[i] = s.items[n - k + i]
    BY <2>1, PartsOfStack
  <2> HIDE DEF rest, both, top, n
  <2>4. /\ next \in Seq(W) /\ Len(next) = k
        /\ \A i \in 1 .. k : next[i] = s.items[n - 2 * k + i]
    <3>1. \A i \in 1 .. k : both[i] \in W
      BY <2>2, ElementOfSeq
    <3>2. /\ next \in Seq(W)
          /\ Len(next) = IF 1 <= k THEN k - 1 + 1 ELSE 0
          /\ \A i \in 1 .. k - 1 + 1 : next[i] = both[1 + i - 1]
      BY <3>1, SubSeqProperties
    <3> QED BY <3>2, <2>1, <2>2
  <2> HIDE DEF next
  <2>5. a \in Nat /\ b \in Nat /\ a + k = b /\ b + k = n
        /\ a = n - 2 * k /\ b = n - k
    BY <2>1
  <2> HIDE DEF a, b
  <2>6. /\ below \in Seq(W) /\ Len(below) = b
        /\ \A i \in 1 .. b : i <= a => below[i] = rest[i]
        /\ \A i \in 1 .. b : i > a => below[i] = top[i - a]
    <3>1. Consists(W, below, rest, a, top, k)
      BY <2>2, <2>3, ConcatConsists
    <3> HIDE DEF below
    <3> QED BY <2>5, <3>1 DEF Consists
  <2> HIDE DEF below
  <2>7. /\ q \in Seq(W) /\ Len(q) = n
        /\ \A i \in 1 .. n : i <= b => q[i] = below[i]
        /\ \A i \in 1 .. n : i > b => q[i] = next[i - b]
    <3>1. Consists(W, q, below, b, next, k)
      BY <2>4, <2>6, ConcatConsists
    <3> HIDE DEF q
    <3> QED BY <2>5, <3>1 DEF Consists
  <2> HIDE DEF q
  <2>8. ASSUME NEW i \in 1 .. n
        PROVE  q[i] = Swapped(s, k)[i]
    <3>1. Swapped(s, k)[i] = IF i > n - k THEN s.items[i - k]
                             ELSE IF i > n - 2 * k THEN s.items[i + k]
                             ELSE s.items[i]
      BY DEF Swapped, n
    <3>2. CASE i > b
      <4>0. q[i] = next[i - b]
        BY <2>7, <3>2
      <4>1. i - b \in 1 .. k
        BY <2>1, <2>5, <3>2
      <4>2. next[i - b] = s.items[n - 2 * k + (i - b)]
        BY <2>4, <4>1
      <4>3. n - 2 * k + (i - b) = i - k /\ i > n - k
        BY <2>1, <2>5, <3>2
      <4> QED BY <3>1, <4>0, <4>2, <4>3
    <3>3. CASE i <= b /\ i > a
      <4>1. i \in 1 .. b /\ i - a \in 1 .. k /\ ~(i > n - k) /\ i > n - 2 * k
            /\ n - k + (i - a) = i + k
        BY <2>1, <2>5, <3>3
      <4>2. q[i] = top[i - a]
        BY <2>6, <2>7, <3>3, <4>1
      <4>3. top[i - a] = s.items[n - k + (i - a)]
        BY <2>3, <4>1
      <4> QED BY <3>1, <4>1, <4>2, <4>3
    <3>4. CASE i <= a
      <4>1. /\ i \in 1 .. b /\ i \in 1 .. a /\ i <= b
            /\ ~(i > n - k) /\ ~(i > n - 2 * k)
        BY <2>1, <2>5, <3>4
      <4>2. q[i] = rest[i]
        BY <2>6, <2>7, <3>4, <4>1
      <4> QED BY <2>2, <3>1, <4>1, <4>2
    <3> QED BY <2>1, <2>5, <3>2, <3>3, <3>4
  <2>9. q = Swapped(s, k)
    <3>1. Swapped(s, k) = [i \in 1 .. n |-> Swapped(s, k)[i]]
      BY DEF Swapped, n
    <3> HIDE DEF Swapped
    <3> QED BY <2>1, <2>7, <2>8, <3>1, SequenceIsFunction
  <2>10. SwapStackTop(s, k, mem) = [StackDone(s) EXCEPT !.items = q]
    BY <1>3
    DEF SwapStackTop, StackDone, SoundStack, q, rest, top, next, both, below,
        n
  <2>11. Bytes(q) <= s.end
    BY <2>7 DEF Bytes, SoundStack, StackSize, n
  <2>12. Follows(s, StackDone(s), W) /\ StackDone(s).status = "ok"
         /\ StackDone(s).end = s.end
    BY StatusFacts DEF StackStatuses
  <2>13. LET t == [StackDone(s) EXCEPT !.items = q]
         IN  Follows(s, t, W) /\ t.items = q /\ t.status = "ok"
    BY <2>7, <2>11, <2>12, Refilled
  <2> QED BY <1>3, <2>9, <2>10, <2>13 DEF Done
<1> QED BY <1>1, <1>2, <1>3

LEMMA DupFacts ==
  ASSUME NEW W, NEW s, SoundStack(s, W), NEW k \in Nat, NEW mem \in BOOLEAN
  PROVE  LET r == DupStackTop(s, k, mem)
         IN  /\ Follows(s, r, W)
             /\ Refused(s, r) \/ (HasWords(s, k) /\ Done(r, Duplicated(s, k)))
<1> DEFINE w == WithRoom(s, WordSize * k, mem)
<1>1. WordSize * k \in Nat /\ WordSize * k = 8 * k
  BY DEF WordSize
<1>2. Follows(s, w, W) /\ w.items = s.items
      /\ (StackOk(w) => StackSize(s) + 8 * k <= w.end)
  BY <1>1, WithRoomFacts
<1>3. CASE ~HasWords(s, k)
  <2>1. DupStackTop(s, k, mem) = StackFailed(s, "underflow")
    BY <1>3 DEF DupStackTop
  <2> QED BY <2>1, FailureRefuses DEF StackStatuses
<1>4. CASE HasWords(s, k) /\ ~StackOk(w)
  <2>1. DupStackTop(s, k, mem) = w
    BY <1>4 DEF DupStackTop
  <2> QED BY <1>2, <1>4, <2>1 DEF Refused, StackOk
<1>5. CASE HasWords(s, k) /\ StackOk(w)
  <2> DEFINE n   == Len(s.items)
             top == TopItems(s, k)
             q   == s.items \o top
  <2>1. n \in Nat /\ s.items \in Seq(W) /\ StackSize(s) = 8 * n
    BY StackSizeNat DEF SoundStack
  <2>2. /\ top \in Seq(W) /\ Len(top) = k
        /\ \A i \in 1 .. k : top[i] = s.items[n - k + i]
    BY <1>5, PartsOfStack
  <2> HIDE DEF top
  <2>3. Consists(W, q, s.items, n, top, k)
    BY <2>1, <2>2, ConcatConsists
  <2>4. DupStackTop(s, k, mem) = [w EXCEPT !.items = q]
    BY <1>2, <1>5 DEF DupStackTop, top
  <2> HIDE DEF q, n, w
  <2>5. q \in Seq(W) /\ Len(q) = n + k
    BY <2>3 DEF Consists
  <2>6. q = Duplicated(s, k)
    <3>1. Duplicated(s, k) = [i \in 1 .. n + k |-> Duplicated(s, k)[i]]
      BY DEF Duplicated, n
    <3>2. ASSUME NEW i \in 1 .. n + k
          PROVE  q[i] = Duplicated(s, k)[i]
      <4>1. Duplicated(s, k)[i] = IF i > n THEN s.items[i - k]
                                  ELSE s.items[i]
        BY DEF Duplicated, n
      <4>2. CASE i > n
        <5>1. i - n \in 1 .. k /\ n - k + (i - n) = i - k
          BY <2>1, <4>2
        <5>2. q[i] = top[i - n]
          BY <2>3, <4>2 DEF Consists
        <5> QED BY <2>2, <4>1, <4>2, <5>1, <5>2
      <4>3. CASE i <= n
        <5>1. q[i] = s.items[i]
          BY <2>3, <4>3 DEF Consists
        <5>2. ~(i > n)
          BY <2>1, <4>3
        <5> QED BY <4>1, <5>1, <5>2
      <4> QED BY <2>1, <4>2, <4>3
    <3>3. n + k \in Nat
      BY <2>1
    <3> HIDE DEF Duplicated
    <3> QED BY <2>5, <3>1, <3>2, <3>3, SequenceIsFunction
  <2>7. Bytes(q) <= w.end
    <3>1. Bytes(q) = 8 * Len(q)
      BY DEF Bytes, WordSize
    <3>2. 8 * (n + k) = 8 * n + 8 * k
      BY <2>1, EightTimesSum
    <3> QED BY <1>2, <1>5, <2>1, <2>5, <3>1, <3>2
  <2>8. LET t == [w EXCEPT !.items = q]
        IN  Follows(s, t, W) /\ t.items = q /\ t.status = w.status
    BY <1>2, <2>5, <2>7, Refilled
  <2> QED BY <1>5, <2>4, <2>6, <2>8 DEF Done, StackOk
<1> QED BY <1>3, <1>4, <1>5

LEMMA ClearFacts ==
  ASSUME NEW W, NEW s, SoundStack(s, W)
  PROVE  Follows(s, ClearStack(s), W) /\ Done(ClearStack(s), <<>>)
<1> DEFINE e == <<>>
           r == StackDone(s)
<1>1. e \in Seq(W) /\ Bytes(e) = 0
  BY DEF Bytes, WordSize
<1>2. Follows(s, r, W) /\ r.status = "ok" /\ r.end = s.end
  BY StatusFacts DEF StackStatuses
<1>3. s.end \in Nat
  BY DEF SoundStack
<1>4. ClearStack(s) = [r EXCEPT !.items = e]
  BY DEF ClearStack, StackDone, SoundStack
<1> HIDE DEF e, r
<1>5. Bytes(e) <= r.end
  BY <1>1, <1>2, <1>3
<1>6. LET q == [r EXCEPT !.items = e]
      IN  Follows(s, q, W) /\ q.items = e /\ q.status = r.status
  BY <1>1, <1>2, <1>5, Refilled
<1> QED BY <1>2, <1>4, <1>6 DEF Done, e

LEMMA SetFacts ==
  ASSUME NEW W, NEW s, SoundStack(s, W), NEW items \in Seq(W),
         NEW mem \in BOOLEAN
  PROVE  LET r == SetStack(s, items, mem)
         IN  Follows(s, r, W) /\ (Done(r, items) \/ Refused(s, r))
<1> DEFINE n == Bytes(items)
           w == IF n > s.end THEN IncreaseStackSize(s, n, mem)
                ELSE StackDone(s)
<1>1. n \in Nat /\ s.end \in Nat /\ StackSize(s) \in Nat
  <2>1. Len(items) \in Nat
    OBVIOUS
  <2> QED BY <2>1, StackSizeNat DEF Bytes, WordSize, SoundStack
<1>2. Follows(s, w, W) /\ w.items = s.items /\ (StackOk(w) => n <= w.end)
  <2>1. CASE n > s.end
    <3>1. StackSize(s) + n > s.end
      BY <1>1, <2>1
    <3>2. Follows(s, w, W) /\ w.items = s.items
          /\ (StackOk(w) => StackSize(s) + n <= w.end)
      BY <1>1, <2>1, <3>1, IncreaseFacts
    <3>3. w.end \in Nat
      BY <3>2 DEF Follows, SoundStack
    <3> QED BY <1>1, <3>2, <3>3
  <2>2. CASE ~(n > s.end)
    BY <1>1, <2>2, StatusFacts DEF StackStatuses
  <2> QED BY <2>1, <2>2
<1>3. CASE n > s.max
  <2>1. SetStack(s, items, mem) = StackFailed(s, "overflow")
    BY <1>3 DEF SetStack
  <2> QED BY <2>1, FailureRefuses DEF StackStatuses
<1>4. CASE ~(n > s.max) /\ StackOk(w)
  <2>1. SetStack(s, items, mem) = [w EXCEPT !.items = items]
    BY <1>4 DEF SetStack
  <2> HIDE DEF w
  <2>2. LET q == [w EXCEPT !.items = items]
        IN  Follows(s, q, W) /\ q.items = items /\ q.status = w.status
    BY <1>2, <1>4, Refilled
  <2> QED BY <1>4, <2>1, <2>2 DEF Done, StackOk
<1>5. CASE ~(n > s.max) /\ ~StackOk(w)
  <2>1. SetStack(s, items, mem) = w
    BY <1>5 DEF SetStack
  <2> QED BY <1>2, <1>5, <2>1 DEF Refused, StackOk
<1> QED BY <1>3, <1>4, <1>5
-----------------------------------------------------------------------------
(* Calls that cannot fail. *)

(* With room for the words, pushStack needs no memory. *)
LEMMA RoomForPush ==
  ASSUME NEW W, NEW s, SoundStack(s, W), NEW items \in Seq(W),
         NEW mem \in BOOLEAN, StackSize(s) + Bytes(items) <= s.end
  PROVE  LET r == PushStack(s, items, mem)
         IN  Follows(s, r, W) /\ Done(r, s.items \o items) /\ r.end = s.end
<1> DEFINE d == StackDone(s)
           all == s.items \o items
<1>1. Len(items) \in Nat /\ Len(s.items) \in Nat /\ s.items \in Seq(W)
      /\ StackSize(s) = 8 * Len(s.items) /\ Bytes(items) = 8 * Len(items)
      /\ s.end \in Nat /\ StackSize(s) \in Nat /\ Bytes(items) \in Nat
  BY StackSizeNat DEF SoundStack, Bytes, WordSize
<1>2. ~(StackSize(s) + Bytes(items) > s.end)
  <2>1. StackSize(s) \in Nat /\ Bytes(items) \in Nat /\ s.end \in Nat
    BY <1>1
  <2> HIDE DEF d, all
  <2> QED BY <2>1
<1>3. /\ Follows(s, d, W) /\ d.items = s.items /\ d.status = "ok"
      /\ d.end = s.end
  BY StatusFacts DEF StackStatuses
<1>4. all \in Seq(W) /\ Len(all) = Len(s.items) + Len(items)
  BY <1>1, ConcatProperties
<1>5. PushStack(s, items, mem) = [d EXCEPT !.items = all]
  BY <1>2, <1>3 DEF PushStack, WithRoom, StackOk
<1> HIDE DEF d, all
<1>6. Bytes(all) <= d.end
  <2>1. Bytes(all) = 8 * (Len(s.items) + Len(items))
    BY <1>4 DEF Bytes, WordSize
  <2>2. Len(s.items) \in Nat /\ Len(items) \in Nat
    BY StackSizeNat
  <2>3. 8 * (Len(s.items) + Len(items)) = 8 * Len(s.items) + 8 * Len(items)
    BY <2>2, EightTimesSum
  <2>4. Bytes(all) = StackSize(s) + Bytes(items)
    BY <1>1, <2>1, <2>3
  <2> QED BY <1>3, <2>4
<1>7. LET q == [d EXCEPT !.items = all]
      IN  Follows(s, q, W) /\ q.items = all /\ q.status = d.status
  BY <1>3, <1>4, <1>6, Refilled
<1>8. [d EXCEPT !.items = all].end = d.end
  OBVIOUS
<1> QED BY <1>3, <1>5, <1>7, <1>8 DEF Done, all

(* What was popped leaves room for one word. *)
LEMMA PutBackFacts ==
  ASSUME NEW W, NEW s, SoundStack(s, W), NEW n \in Nat \ {0}, HasWords(s, n),
         NEW a \in W, NEW mem \in BOOLEAN
  PROVE  LET r == PushStack(PopStack(s, n), <<a>>, mem)
         IN  /\ SoundStack(r, W) /\ r.max = s.max /\ r.end = s.end
             /\ Done(r, SubSeq(s.items, 1, Len(s.items) - n) \o <<a>>)
<1> DEFINE p    == PopStack(s, n)
           rest == SubSeq(s.items, 1, Len(s.items) - n)
           one  == <<a>>
           r    == PushStack(p, one, mem)
<1>1. Follows(s, p, W) /\ Done(p, rest)
  BY PopFacts
<1>2. p.end = s.end
  BY DEF PopStack, HasWords, SoundStack
<1>3. rest \in Seq(W) /\ Len(rest) = Len(s.items) - n
  BY PartsOfStack
<1>4. one \in Seq(W) /\ Bytes(one) = 8
  BY DEF Bytes, WordSize
<1>5. /\ Len(s.items) \in Nat /\ n <= Len(s.items)
      /\ 8 * Len(s.items) <= s.end /\ s.end \in Nat
  BY StackSizeNat DEF SoundStack, HasWords
<1>6. StackSize(p) = 8 * Len(rest)
  BY <1>1 DEF StackSize, Bytes, WordSize, Done
<1> HIDE DEF p, rest, one
<1>7. StackSize(p) + Bytes(one) <= p.end
  BY <1>2, <1>3, <1>4, <1>5, <1>6
<1>8. Follows(p, r, W) /\ Done(r, p.items \o one) /\ r.end = p.end
  BY <1>1, <1>4, <1>7, RoomForPush DEF Follows
<1>9. p.items = rest
  BY <1>1 DEF Done
<1> HIDE DEF r
<1>10. /\ SoundStack(r, W) /\ r.max = s.max /\ r.end = s.end
       /\ Done(r, rest \o one)
  BY <1>1, <1>2, <1>8, <1>9 DEF Follows
<1> QED BY <1>10 DEF r, p, rest, one

(* With room for the words, setStack needs no memory. *)
LEMMA RoomToSet ==
  ASSUME NEW W, NEW s, SoundStack(s, W), NEW items \in Seq(W),
         NEW mem \in BOOLEAN, Bytes(items) <= s.end
  PROVE  LET r == SetStack(s, items, mem)
         IN  Follows(s, r, W) /\ Done(r, items) /\ r.end = s.end
<1> DEFINE d == StackDone(s)
<1>1. Bytes(items) \in Nat /\ s.end \in Nat /\ s.max \in Nat
      /\ s.end <= s.max
  <2>1. Len(items) \in Nat
    OBVIOUS
  <2> QED BY <2>1 DEF Bytes, WordSize, SoundStack
<1>2. ~(Bytes(items) > s.end) /\ ~(Bytes(items) > s.max)
  BY <1>1
<1>3. /\ Follows(s, d, W) /\ d.items = s.items /\ d.status = "ok"
      /\ d.end = s.end
  BY StatusFacts DEF StackStatuses
<1>4. SetStack(s, items, mem) = [d EXCEPT !.items = items]
  BY <1>2, <1>3 DEF SetStack, StackOk
<1> HIDE DEF d
<1>5. LET q == [d EXCEPT !.items = items]
      IN  Follows(s, q, W) /\ q.items = items /\ q.status = d.status
  BY <1>3, Refilled
<1>6. [d EXCEPT !.items = items].end = d.end
  OBVIOUS
<1> QED BY <1>3, <1>4, <1>5, <1>6 DEF Done

(* With memory for the growth and room below the maximum, pushStack does
   not fail either. *)
LEMMA MemoryForPush ==
  ASSUME NEW W, NEW s, SoundStack(s, W), NEW items \in Seq(W),
         StackSize(s) + Bytes(items) <= s.max
  PROVE  Done(PushStack(s, items, TRUE), s.items \o items)
<1> DEFINE n == Bytes(items)
           w == WithRoom(s, n, TRUE)
<1>1. n \in Nat /\ StackSize(s) \in Nat /\ s.max \in Nat
  <2>1. Len(items) \in Nat
    OBVIOUS
  <2> QED BY <2>1, StackSizeNat DEF Bytes, WordSize, SoundStack
<1>2. ~ExceedsMax(s, n)
  BY <1>1 DEF ExceedsMax
<1>3. StackOk(w) /\ w.items = s.items
  <2>1. CASE StackSize(s) + n > s.end
    <3>1. w = [s EXCEPT !.end = IncreasedEnd(s, n), !.status = "ok"]
      BY <1>2, <2>1 DEF WithRoom, IncreaseStackSize
    <3> QED BY <3>1 DEF StackOk, SoundStack
  <2>2. CASE ~(StackSize(s) + n > s.end)
    <3>1. w = StackDone(s)
      BY <2>2 DEF WithRoom
    <3> QED BY <3>1, StatusFacts DEF StackOk, StackStatuses
  <2> QED BY <2>1, <2>2
<1>4. PushStack(s, items, TRUE) = [w EXCEPT !.items = s.items \o items]
  BY <1>3 DEF PushStack
<1>5. Done(PushStack(s, items, TRUE), s.items \o items)
      \/ PushStack(s, items, TRUE).status # "ok"
  BY PushFacts DEF Refused
<1> HIDE DEF w
<1>6. [w EXCEPT !.items = s.items \o items].status = w.status
  OBVIOUS
<1> QED BY <1>3, <1>4, <1>5, <1>6 DEF StackOk

-----------------------------------------------------------------------------
(* Stacks of frames *)

(* Where an odd number of words fits into whole frames, so does the next. *)
LEMMA RoomInFrame ==
  ASSUME NEW l \in Nat, l % 2 = 0, NEW e \in Nat, e % 16 = 0, 8 * (l + 1) <= e
  PROVE  8 * (l + 1) + 8 <= e
<1>1. PICK q \in Nat : e = 16 * q
  BY QuotientBy16
<1>2. PICK p \in Nat : l = 2 * p
  <2>1. l = 2 * (l \div 2) /\ l \div 2 \in Nat
    OBVIOUS
  <2> QED BY <2>1
<1>3. 16 * p + 8 <= 16 * q
  BY <1>1, <1>2
<1>4. p < q
  BY <1>3
<1> QED BY <1>1, <1>2, <1>4

LEMMA EvenSteps ==
  ASSUME NEW l \in Nat, l % 2 = 0
  PROVE  ((l + 1) + 1) % 2 = 0 /\ (2 <= l => (l - 2) % 2 = 0)
OBVIOUS

(* The call stack grows by whole frames. *)
LEMMA FramesGrow ==
  ASSUME NEW W, NEW s, SoundStack(s, W), Len(s.items) % 2 = 0,
         s.max % 16 = 0, NEW e \in GrowthSizes(s)
  PROVE  e % 16 = 0
<1>1. CASE e = s.max
  BY <1>1
<1>2. CASE e # s.max
  <2> DEFINE base == IF s.items = <<>> THEN WordSize ELSE StackSize(s)
  <2>1. PICK k \in 1 .. 8 : e = base * 2^k
    BY <1>2 DEF GrowthSizes, StackDoublings
  <2>2. PICK j \in Nat \ {0} : 2^k = 2 * j
    <3>1. k \in 0 .. 12 /\ k # 0
      OBVIOUS
    <3> QED BY <3>1, PowerOfTwo
  <2>3. Len(s.items) \in Nat /\ StackSize(s) = 8 * Len(s.items)
    BY StackSizeNat
  <2>4. PICK m \in Nat : base = 8 * m /\ (m = 1 \/ m % 2 = 0)
    <3>1. CASE s.items = <<>>
      BY <3>1 DEF WordSize
    <3>2. CASE s.items # <<>>
      BY <2>3, <3>2
    <3> QED BY <3>1, <3>2
  <2> HIDE DEF base
  <2>5. e = (8 * m) * (2 * j)
    BY <2>1, <2>2, <2>4
  <2>6. e = (16 * m) * j
    BY <2>5
  <2> QED BY <2>6, ProductOf16
<1> QED BY <1>1, <1>2

(* A stack that consists of frames of two words, and so does its memory. *)
FrameStack(s, W) ==
  /\ SoundStack(s, W)
  /\ Len(s.items) % 2 = 0 /\ s.end % 16 = 0 /\ s.max % 16 = 0

LEMMA FrameStackFollows ==
  ASSUME NEW W, NEW s, FrameStack(s, W), NEW r, Follows(s, r, W)
  PROVE  /\ r.end % 16 = 0 /\ r.max % 16 = 0
         /\ Len(r.items) % 2 = 0 => FrameStack(r, W)
BY FramesGrow DEF Follows, FrameStack

(* Two words pushed one after the other are pushed both or not at all: there
   is room for the second wherever there was room for the first. *)
LEMMA FramePushFacts ==
  ASSUME NEW W, NEW s, FrameStack(s, W), NEW a \in W, NEW b \in W,
         NEW m \in BOOLEAN, NEW n \in BOOLEAN
  PROVE  LET first  == PushStack(s, <<a>>, m)
             second == PushStack(first, <<b>>, n)
         IN  IF StackOk(first) THEN FrameStack(second, W) /\ StackOk(second)
             ELSE FrameStack(first, W)
<1> DEFINE one    == <<a>>
           two    == <<b>>
           l      == Len(s.items)
           first  == PushStack(s, one, m)
           second == PushStack(first, two, n)
           all    == s.items \o one
<1>1. /\ one \in Seq(W) /\ two \in Seq(W) /\ Len(one) = 1 /\ Len(two) = 1
      /\ Bytes(two) = 8
  BY DEF Bytes, WordSize
<1>2. /\ SoundStack(s, W) /\ l \in Nat /\ l % 2 = 0 /\ s.items \in Seq(W)
  BY StackSizeNat DEF FrameStack, SoundStack
<1>3. all \in Seq(W) /\ Len(all) = l + 1
  <2> HIDE DEF one, l
  <2>1. all \in Seq(W) /\ Len(all) = Len(s.items) + Len(one)
    BY <1>1, <1>2, ConcatProperties
  <2> QED BY <1>1, <2>1 DEF l
<1> HIDE DEF one, two
<1>4. /\ Follows(s, first, W)
      /\ Done(first, all) \/ Refused(s, first)
  <2> HIDE DEF all
  <2> QED BY <1>1, <1>2, PushFacts DEF all
<1> HIDE DEF first, all, l
<1>5. SoundStack(first, W) /\ first.end % 16 = 0 /\ first.max % 16 = 0
  BY <1>4, FrameStackFollows DEF Follows
<1>6. CASE StackOk(first)
  <2>1. first.items = all /\ Len(first.items) = l + 1
    BY <1>3, <1>4, <1>6 DEF Done, Refused, StackOk
  <2>2. StackSize(first) + Bytes(two) <= first.end
    <3>1. StackSize(first) = 8 * (l + 1) /\ first.end \in Nat
      BY <1>5, <2>1, StackSizeNat DEF SoundStack
    <3>2. 8 * (l + 1) <= first.end
      BY <1>5, <3>1 DEF SoundStack
    <3>3. 8 * (l + 1) + 8 <= first.end
      BY <1>2, <1>5, <3>1, <3>2, RoomInFrame
    <3> QED BY <1>1, <3>1, <3>3
  <2>3. /\ Follows(first, second, W) /\ Done(second, first.items \o two)
        /\ second.end = first.end
    BY <1>1, <1>5, <2>2, RoomForPush
  <2> HIDE DEF second
  <2>4. Len(first.items \o two) = (l + 1) + 1
    <3> DEFINE items == first.items
    <3>1. items \in Seq(W) /\ Len(items) = l + 1
      BY <1>5, <2>1 DEF SoundStack
    <3> HIDE DEF items
    <3>2. Len(items \o two) = Len(items) + Len(two)
      BY <1>1, <3>1, ConcatProperties
    <3> QED BY <1>1, <3>1, <3>2 DEF items
  <2>5. Len(second.items) % 2 = 0
    <3>1. Len(second.items) = (l + 1) + 1
      BY <2>3, <2>4 DEF Done
    <3>2. ((l + 1) + 1) % 2 = 0
      BY <1>2, EvenSteps
    <3> QED BY <3>1, <3>2, Zenon
  <2>6. FrameStack(second, W) /\ StackOk(second)
    BY <1>5, <2>3, <2>5 DEF FrameStack, Follows, Done, StackOk
  <2> QED BY <1>6, <2>6 DEF first, second, one, two
<1>7. CASE ~StackOk(first)
  <2>1. Len(first.items) = l
    BY <1>4, <1>7 DEF Done, Refused, StackOk, l
  <2>2. FrameStack(first, W)
    BY <1>2, <1>5, <2>1 DEF FrameStack
  <2> QED BY <1>7, <2>2 DEF first, one
<1> QED BY <1>6, <1>7

(* Likewise, two words are popped or none. *)
LEMMA FramePopFacts ==
  ASSUME NEW W, NEW s, FrameStack(s, W)
  PROVE  LET first  == PopStack(s, 1)
             second == PopStack(first, 1)
         IN  IF StackOk(first)
             THEN /\ FrameStack(second, W) /\ StackOk(second)
                  /\ Len(s.items) >= 2
             ELSE FrameStack(first, W) /\ Len(s.items) = 0
<1> DEFINE first  == PopStack(s, 1)
           second == PopStack(first, 1)
           l      == Len(s.items)
<1>1. SoundStack(s, W) /\ l \in Nat /\ l % 2 = 0
  BY StackSizeNat DEF FrameStack
<1>2. /\ Follows(s, first, W)
      /\ IF 1 <= l THEN Done(first, SubSeq(s.items, 1, l - 1))
         ELSE Refused(s, first)
  BY <1>1, PopFacts DEF HasWords
<1>3. 1 <= l => Len(SubSeq(s.items, 1, l - 1)) = l - 1
  BY <1>1, PartsOfStack DEF HasWords
<1>4. /\ IF 1 <= l THEN StackOk(first) /\ Len(first.items) = l - 1
         ELSE ~StackOk(first) /\ Len(first.items) = l
  BY <1>1, <1>2, <1>3 DEF Done, Refused, StackOk
<1>5. SoundStack(first, W) /\ first.end % 16 = 0 /\ first.max % 16 = 0
  BY <1>2, FrameStackFollows DEF Follows
<1> HIDE DEF first, l
<1>6. CASE StackOk(first)
  <2>1. l >= 2 /\ Len(first.items) = l - 1 /\ Len(first.items) \in Nat
    BY <1>1, <1>4, <1>6
  <2> DEFINE rest == SubSeq(first.items, 1, Len(first.items) - 1)
  <2>2. Follows(first, second, W) /\ Done(second, rest)
    <3>1. HasWords(first, 1) /\ 1 \in Nat
      BY <1>1, <2>1 DEF HasWords
    <3> QED BY <1>5, <3>1, PopFacts
  <2>3. Len(rest) = l - 2
    BY <1>1, <1>5, <2>1, PartsOfStack DEF HasWords
  <2>4. second.end = first.end
    BY <1>5 DEF PopStack, SoundStack, StackFailed
  <2> HIDE DEF rest, second
  <2>5. Len(second.items) % 2 = 0
    <3>1. Len(second.items) = l - 2
      BY <2>2, <2>3 DEF Done
    <3>2. (l - 2) % 2 = 0
      BY <1>1, <2>1, EvenSteps
    <3> QED BY <3>1, <3>2, Zenon
  <2>6. FrameStack(second, W) /\ StackOk(second)
    BY <1>5, <2>2, <2>4, <2>5 DEF FrameStack, Follows, Done, StackOk
  <2> QED BY <1>6, <2>1, <2>6 DEF first, second, l
<1>7. CASE ~StackOk(first)
  <2>1. l = 0 /\ Len(first.items) = l
    BY <1>1, <1>4, <1>7
  <2>2. FrameStack(first, W)
    BY <1>1, <1>5, <2>1 DEF FrameStack
  <2> QED BY <1>7, <2>1, <2>2 DEF first, l
<1> QED BY <1>6, <1>7
=============================================================================
