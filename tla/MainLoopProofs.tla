---------------------------- MODULE MainLoopProofs -------------------------
(***************************************************************************)
(* The debugger: its lists of breakpoints stay sorted, within their memory *)
(* and with their index right, and miss no breakpoint; and the machine it  *)
(* works on keeps whole frames on its call stack, whatever command line is *)
(* typed and whoever calls.                                                *)
(***************************************************************************)
EXTENDS MainLoop, VmLemmas

-----------------------------------------------------------------------------
(* Lists of breakpoints *)

Ascending(s) ==
  /\ s \in Seq(Nat)
  /\ \A i, j \in 1 .. Len(s) : i < j => s[i] < s[j]

(* n elements of s are below a, and none of the others is; likewise at a. *)
Below(s, n, a) ==
  /\ n \in 0 .. Len(s)
  /\ \A i \in 1 .. n : s[i] < a
  /\ \A i \in n + 1 .. Len(s) : a <= s[i]

AtOrBelow(s, n, a) ==
  /\ n \in 0 .. Len(s)
  /\ \A i \in 1 .. n : s[i] <= a
  /\ \A i \in n + 1 .. Len(s) : a < s[i]

(* An array of breakpoints, and a list. *)
SoundArray(a) == IsArray(a, Nat, 8)

Sound(b) ==
  /\ b \in [array : {b.array}, current : Nat, lastPC : Nat,
            status : BreakpointStatuses]
  /\ SoundArray(b.array) /\ Ascending(Breakpoints(b))
  /\ CandidateSound(b)

-----------------------------------------------------------------------------
(* Searches *)

LEMMA LenIsNat ==
  ASSUME NEW s, Ascending(s)
  PROVE  /\ Len(s) \in Nat /\ DOMAIN s = 1 .. Len(s)
         /\ \A i \in 1 .. Len(s) : s[i] \in Nat
BY DEF Ascending

LEMMA AtOrAfterFacts ==
  ASSUME NEW b, Ascending(Breakpoints(b)), NEW a \in Nat
  PROVE  Below(Breakpoints(b), FindBreakpointAtOrAfter(b, a), a)
<1> DEFINE s == Breakpoints(b)
           I == {i \in 1 .. Len(s) : s[i] >= a}
           n == FindBreakpointAtOrAfter(b, a)
<1>1. /\ Len(s) \in Nat
      /\ \A i \in 1 .. Len(s) : s[i] \in Nat
      /\ \A i, j \in 1 .. Len(s) : i < j => s[i] < s[j]
  BY LenIsNat DEF Ascending
<1>2. SelectInSeq(s, LAMBDA p : p >= a) = IF I # {} THEN Min(I) ELSE 0
  BY DEF SelectInSeq
<1>3. n = LET i == SelectInSeq(s, LAMBDA p : p >= a)
          IN  IF i = 0 THEN Len(s) ELSE i - 1
  BY DEF FindBreakpointAtOrAfter, FirstIndex
<1>4. I \in SUBSET Nat /\ 0 \notin I
  BY <1>1
<1> HIDE DEF s, n
<1>5. CASE I = {}
  <2>1. n = Len(s)
    BY <1>2, <1>3, <1>5
  <2>2. \A i \in 1 .. Len(s) : s[i] < a
    BY <1>1, <1>5
  <2> QED BY <1>1, <2>1, <2>2 DEF Below, s, n
<1>6. CASE I # {}
  <2>1. Min(I) \in I /\ \A x \in I : Min(I) <= x
    <3> HIDE DEF I
    <3> QED BY <1>4, <1>6, MinIsLeast
  <2>2. n = Min(I) - 1 /\ Min(I) \in 1 .. Len(s) /\ s[Min(I)] >= a
    BY <1>2, <1>3, <1>4, <1>6, <2>1
  <2> DEFINE m == Min(I)
  <2>3. /\ m \in 1 .. Len(s) /\ s[m] >= a /\ n = m - 1
        /\ \A i \in 1 .. Len(s) : s[i] >= a => m <= i
    BY <2>1, <2>2
  <2> HIDE DEF m, I
  <2>4. n \in 0 .. Len(s) /\ \A i \in 1 .. n : s[i] < a
    BY <1>1, <2>3
  <2>5. \A i \in n + 1 .. Len(s) : a <= s[i]
    <3> SUFFICES ASSUME NEW i \in n + 1 .. Len(s) PROVE a <= s[i]
      OBVIOUS
    <3>1. i \in 1 .. Len(s) /\ (i = m \/ m < i)
      BY <1>1, <2>3
    <3> QED BY <1>1, <2>3, <3>1
  <2> QED BY <2>4, <2>5 DEF Below, s, n
<1> QED BY <1>5, <1>6

LEMMA AfterFacts ==
  ASSUME NEW b, Ascending(Breakpoints(b)), NEW a \in Nat
  PROVE  AtOrBelow(Breakpoints(b), FindBreakpointAfter(b, a), a)
<1> DEFINE s == Breakpoints(b)
<1>1. Len(s) \in Nat /\ \A i \in 1 .. Len(s) : s[i] \in Nat
  BY LenIsNat
<1>2. {i \in 1 .. Len(s) : s[i] > a} = {i \in 1 .. Len(s) : s[i] >= a + 1}
  BY <1>1
<1>3. SelectInSeq(s, LAMBDA p : p > a) = SelectInSeq(s, LAMBDA p : p >= a + 1)
  BY <1>2 DEF SelectInSeq
<1>4. FindBreakpointAfter(b, a) = FindBreakpointAtOrAfter(b, a + 1)
  BY <1>3 DEF FindBreakpointAfter, FindBreakpointAtOrAfter, FirstIndex
<1>5. Below(s, FindBreakpointAfter(b, a), a + 1)
  BY <1>4, AtOrAfterFacts
<1> HIDE DEF s
<1>6. AtOrBelow(s, FindBreakpointAfter(b, a), a)
  BY <1>1, <1>5 DEF Below, AtOrBelow
<1> QED BY <1>6 DEF s

-----------------------------------------------------------------------------
(* Changes of the array *)

(* The first n elements, and the others. *)
LEMMA SplitFacts ==
  ASSUME NEW s, Ascending(s), NEW n \in 0 .. Len(s)
  PROVE  /\ SubSeq(s, 1, n) \in Seq(Nat) /\ Len(SubSeq(s, 1, n)) = n
         /\ SubSeq(s, n + 1, Len(s)) \in Seq(Nat)
         /\ Len(SubSeq(s, n + 1, Len(s))) = Len(s) - n
         /\ \A i \in 1 .. n : SubSeq(s, 1, n)[i] = s[i]
         /\ \A i \in 1 .. Len(s) - n :
              SubSeq(s, n + 1, Len(s))[i] = s[n + i]
<1>1. Len(s) \in Nat /\ n \in Nat /\ n <= Len(s)
      /\ \A i \in 1 .. Len(s) : s[i] \in Nat
  BY LenIsNat
<1>2. \A i \in 1 .. n : s[i] \in Nat
  BY <1>1
<1>3. \A i \in n + 1 .. Len(s) : s[i] \in Nat
  BY <1>1
<1>4. /\ SubSeq(s, 1, n) \in Seq(Nat)
      /\ Len(SubSeq(s, 1, n)) = IF 1 <= n THEN n - 1 + 1 ELSE 0
      /\ \A i \in 1 .. n - 1 + 1 : SubSeq(s, 1, n)[i] = s[1 + i - 1]
  BY <1>1, <1>2, SubSeqProperties
<1>5. /\ SubSeq(s, n + 1, Len(s)) \in Seq(Nat)
      /\ Len(SubSeq(s, n + 1, Len(s)))
           = IF n + 1 <= Len(s) THEN Len(s) - (n + 1) + 1 ELSE 0
      /\ \A i \in 1 .. Len(s) - (n + 1) + 1 :
           SubSeq(s, n + 1, Len(s))[i] = s[(n + 1) + i - 1]
  BY <1>1, <1>3, SubSeqProperties
<1> QED BY <1>1, <1>4, <1>5

LEMMA ConcatFacts ==
  ASSUME NEW l \in Seq(Nat), NEW h \in Seq(Nat), NEW m \in Nat, Len(l) = m
  PROVE  /\ l \o h \in Seq(Nat) /\ Len(l \o h) = m + Len(h)
         /\ \A i \in 1 .. m : (l \o h)[i] = l[i]
         /\ \A i \in 1 .. Len(h) : (l \o h)[m + i] = h[i]
<1>1. Len(h) \in Nat
  OBVIOUS
<1>2. /\ l \o h \in Seq(Nat) /\ Len(l \o h) = Len(l) + Len(h)
      /\ \A i \in 1 .. Len(l) + Len(h) :
           (l \o h)[i] = IF i <= Len(l) THEN l[i] ELSE h[i - Len(l)]
  BY ConcatProperties
<1>3. ASSUME NEW i \in 1 .. m
      PROVE  (l \o h)[i] = l[i]
  <2>1. i \in 1 .. Len(l) + Len(h) /\ i <= Len(l)
    BY <1>1
  <2> QED BY <1>2, <2>1
<1>4. ASSUME NEW i \in 1 .. Len(h)
      PROVE  (l \o h)[m + i] = h[i]
  <2>1. m + i \in 1 .. Len(l) + Len(h) /\ ~(m + i <= Len(l))
        /\ m + i - Len(l) = i
    BY <1>1
  <2> QED BY <1>2, <2>1
<1> QED BY <1>2, <1>3, <1>4

(* An element put where it belongs keeps the order. *)
LEMMA InsertedIsAscending ==
  ASSUME NEW s, Ascending(s), NEW a \in Nat, NEW n, Below(s, n, a),
         \A i \in 1 .. Len(s) : s[i] # a
  PROVE  LET new == SubSeq(s, 1, n) \o <<a>> \o SubSeq(s, n + 1, Len(s))
         IN  Ascending(new) /\ Len(new) = Len(s) + 1
<1> DEFINE low == SubSeq(s, 1, n)
           high == SubSeq(s, n + 1, Len(s))
           one == <<a>>
           upto == low \o one
           new == upto \o high
<1>1. /\ Len(s) \in Nat /\ n \in 0 .. Len(s) /\ n \in Nat
      /\ \A i \in 1 .. Len(s) : s[i] \in Nat
      /\ \A i, j \in 1 .. Len(s) : i < j => s[i] < s[j]
      /\ \A i \in 1 .. n : s[i] < a
      /\ \A i \in n + 1 .. Len(s) : a <= s[i]
  BY LenIsNat DEF Ascending, Below
<1>2. /\ low \in Seq(Nat) /\ Len(low) = n
      /\ high \in Seq(Nat) /\ Len(high) = Len(s) - n
      /\ \A i \in 1 .. n : low[i] = s[i]
      /\ \A i \in 1 .. Len(s) - n : high[i] = s[n + i]
  BY <1>1, SplitFacts
<1>3. one \in Seq(Nat) /\ Len(one) = 1 /\ one[1] = a
  OBVIOUS
<1> HIDE DEF low, high, one
<1>4. /\ upto \in Seq(Nat) /\ Len(upto) = n + 1
      /\ \A i \in 1 .. n : upto[i] = low[i]
      /\ \A i \in 1 .. 1 : upto[n + i] = one[i]
  <2>1. n \in Nat /\ Len(low) = n /\ low \in Seq(Nat) /\ one \in Seq(Nat)
    BY <1>1, <1>2, <1>3
  <2>2. /\ upto \in Seq(Nat) /\ Len(upto) = n + Len(one)
        /\ \A i \in 1 .. n : upto[i] = low[i]
        /\ \A i \in 1 .. Len(one) : upto[n + i] = one[i]
    BY <2>1, ConcatFacts
  <2> HIDE DEF upto
  <2> QED BY <1>3, <2>2
<1> HIDE DEF upto
<1>5. /\ new \in Seq(Nat) /\ Len(new) = n + 1 + Len(high)
      /\ \A i \in 1 .. n + 1 : new[i] = upto[i]
      /\ \A i \in 1 .. Len(high) : new[n + 1 + i] = high[i]
  <2>1. n + 1 \in Nat
    BY <1>1
  <2> QED BY <1>2, <1>4, <2>1, ConcatFacts
<1> HIDE DEF new
<1>6. Len(new) = Len(s) + 1
  BY <1>1, <1>2, <1>5
<1>7. \A i \in 1 .. n : new[i] = s[i]
  <2> SUFFICES ASSUME NEW i \in 1 .. n PROVE new[i] = s[i]
    OBVIOUS
  <2>1. i \in 1 .. n + 1
    BY <1>1
  <2> QED BY <1>2, <1>4, <1>5, <2>1
<1>8. new[n + 1] = a
  <2>1. upto[n + 1] = a
    BY <1>3, <1>4
  <2> QED BY <1>1, <1>5, <2>1
<1>9. \A i \in n + 2 .. Len(s) + 1 :
        new[i] = s[i - 1] /\ i - 1 \in 1 .. Len(s) /\ a < s[i - 1]
  <2> SUFFICES ASSUME NEW i \in n + 2 .. Len(s) + 1
               PROVE  /\ new[i] = s[i - 1] /\ i - 1 \in 1 .. Len(s)
                      /\ a < s[i - 1]
    OBVIOUS
  <2>1. PICK d \in 1 .. Len(s) - n : n + 1 + d = i /\ n + d = i - 1
    <3> DEFINE e == i - (n + 1)
    <3>1. e \in 1 .. Len(s) - n /\ n + 1 + e = i /\ n + e = i - 1
      BY <1>1
    <3> QED BY <3>1
  <2>2. new[i] = s[i - 1]
    <3>1. new[n + 1 + d] = high[d]
      BY <1>2, <1>5, <2>1
    <3>2. high[d] = s[n + d]
      BY <1>2, <2>1
    <3> QED BY <2>1, <3>1, <3>2
  <2>3. i - 1 \in 1 .. Len(s) /\ i - 1 \in n + 1 .. Len(s)
    BY <1>1
  <2>4. a <= s[i - 1] /\ a # s[i - 1] /\ s[i - 1] \in Nat
    BY <1>1, <2>3
  <2> QED BY <2>2, <2>3, <2>4
<1>10. ASSUME NEW i \in 1 .. Len(s) + 1, NEW j \in 1 .. Len(s) + 1, i < j
       PROVE  new[i] < new[j]
  <2>1. CASE j <= n
    <3>1. i \in 1 .. n /\ j \in 1 .. n /\ i \in 1 .. Len(s) /\ j \in 1 .. Len(s)
      BY <1>1, <1>10, <2>1
    <3> QED BY <1>1, <1>7, <1>10, <3>1
  <2>2. CASE j = n + 1
    <3>1. i \in 1 .. n
      BY <1>1, <1>10, <2>2
    <3> QED BY <1>1, <1>7, <1>8, <2>2, <3>1
  <2>3. CASE j > n + 1 /\ i = n + 1
    <3>1. j \in n + 2 .. Len(s) + 1
      BY <1>1, <2>3
    <3> QED BY <1>8, <1>9, <2>3, <3>1
  <2>4. CASE j > n + 1 /\ i <= n
    <3>1. j \in n + 2 .. Len(s) + 1 /\ i \in 1 .. n /\ i \in 1 .. Len(s)
      BY <1>1, <2>4
    <3>2. s[i] < a /\ a < s[j - 1] /\ s[i] \in Nat /\ s[j - 1] \in Nat
      BY <1>1, <1>9, <3>1
    <3> QED BY <1>7, <1>9, <3>1, <3>2
  <2>5. CASE j > n + 1 /\ i > n + 1
    <3>1. j \in n + 2 .. Len(s) + 1 /\ i \in n + 2 .. Len(s) + 1
          /\ i - 1 < j - 1
      BY <1>1, <1>10, <2>5
    <3> QED BY <1>1, <1>9, <3>1
  <2> QED BY <1>1, <2>1, <2>2, <2>3, <2>4, <2>5
<1>11. Ascending(new)
  BY <1>5, <1>6, <1>10 DEF Ascending
<1> QED BY <1>6, <1>11 DEF new, upto, low, high, one

(* So does one taken out. *)
LEMMA RemovedIsAscending ==
  ASSUME NEW s, Ascending(s), NEW k \in 1 .. Len(s)
  PROVE  LET new == SubSeq(s, 1, k - 1) \o SubSeq(s, k + 1, Len(s))
         IN  Ascending(new) /\ Len(new) = Len(s) - 1
<1> DEFINE low == SubSeq(s, 1, k - 1)
           high == SubSeq(s, k + 1, Len(s))
           new == low \o high
<1>1. /\ Len(s) \in Nat /\ k \in Nat /\ 1 <= k /\ k <= Len(s)
      /\ k - 1 \in 0 .. Len(s) /\ k \in 0 .. Len(s) /\ k - 1 \in Nat
      /\ \A i, j \in 1 .. Len(s) : i < j => s[i] < s[j]
  BY LenIsNat DEF Ascending
<1>2. /\ low \in Seq(Nat) /\ Len(low) = k - 1
      /\ \A i \in 1 .. k - 1 : low[i] = s[i]
  BY <1>1, SplitFacts
<1>3. /\ high \in Seq(Nat) /\ Len(high) = Len(s) - k
      /\ \A i \in 1 .. Len(s) - k : high[i] = s[k + i]
  BY <1>1, SplitFacts
<1> HIDE DEF low, high
<1>4. /\ new \in Seq(Nat) /\ Len(new) = k - 1 + Len(high)
      /\ \A i \in 1 .. k - 1 : new[i] = low[i]
      /\ \A i \in 1 .. Len(high) : new[k - 1 + i] = high[i]
  BY <1>1, <1>2, <1>3, ConcatFacts
<1> HIDE DEF new
<1>5. Len(new) = Len(s) - 1
  BY <1>1, <1>3, <1>4
<1>6. \A i \in 1 .. k - 1 : new[i] = s[i]
  BY <1>2, <1>4
<1>7. \A i \in k .. Len(s) - 1 : new[i] = s[i + 1]
  <2> SUFFICES ASSUME NEW i \in k .. Len(s) - 1 PROVE new[i] = s[i + 1]
    OBVIOUS
  <2>1. PICK d \in 1 .. Len(s) - k : k - 1 + d = i /\ k + d = i + 1
    <3> DEFINE e == i - (k - 1)
    <3>1. e \in 1 .. Len(s) - k /\ k - 1 + e = i /\ k + e = i + 1
      BY <1>1
    <3> QED BY <3>1
  <2>2. new[k - 1 + d] = high[d]
    BY <1>3, <1>4, <2>1
  <2>3. high[d] = s[k + d]
    BY <1>3, <2>1
  <2> QED BY <2>1, <2>2, <2>3
<1>8. ASSUME NEW i \in 1 .. Len(s) - 1, NEW j \in 1 .. Len(s) - 1, i < j
      PROVE  new[i] < new[j]
  <2>1. /\ i \in 1 .. Len(s) /\ i + 1 \in 1 .. Len(s)
        /\ j \in 1 .. Len(s) /\ j + 1 \in 1 .. Len(s)
        /\ (i \in 1 .. k - 1 \/ i \in k .. Len(s) - 1)
        /\ (j \in 1 .. k - 1 \/ j \in k .. Len(s) - 1)
    BY <1>1
  <2>2. /\ i < j + 1 /\ i + 1 < j + 1
        /\ i \in k .. Len(s) - 1 => j \notin 1 .. k - 1
    BY <1>1, <1>8
  <2> QED BY <1>1, <1>6, <1>7, <1>8, <2>1, <2>2
<1>9. Ascending(new)
  BY <1>4, <1>5, <1>8 DEF Ascending
<1> QED BY <1>5, <1>9 DEF new, low, high

-----------------------------------------------------------------------------
(* The array *)

LEMMA InsertFacts ==
  ASSUME NEW a, SoundArray(a), Ascending(a.items),
         NEW p \in Nat, NEW n, Below(a.items, n, p),
         \A i \in 1 .. Len(a.items) : a.items[i] # p, NEW mem \in BOOLEAN
  PROVE  LET r == InsertIntoArray(a, n, <<p>>, mem)
         IN  /\ SoundArray(r) /\ Ascending(r.items)
             /\ ~ArrayOk(r) => r.items = a.items
<1> DEFINE r == InsertIntoArray(a, n, <<p>>, mem)
           g == WithStorage(a, 1, mem)
           new == SubSeq(a.items, 1, n) \o <<p>>
                    \o SubSeq(a.items, n + 1, Len(a.items))
<1>1. /\ SoundArray(g) /\ g.items = a.items
      /\ ArrayOk(g) => 8 * (Len(a.items) + 1) <= g.allocated
  <2>1. 8 \in Nat \ {0} /\ IsArray(a, Nat, 8) /\ 1 \in Nat
    BY DEF SoundArray
  <2>2. /\ IsArray(g, Nat, 8) /\ g.items = a.items
        /\ ArrayOk(g) => HasStorage(g, 1)
    <3> HIDE DEF r, new
    <3>1. LET s == WithStorage(a, 1, mem)
          IN  /\ IsArray(s, Nat, 8) /\ s.items = a.items
              /\ ArrayOk(s) => HasStorage(s, 1)
      BY ONLY <2>1, WithStorageFacts, mem \in BOOLEAN
    <3> QED BY ONLY <3>1
  <2>3. g.width = 8
    BY <2>2 DEF IsArray
  <2> HIDE DEF g
  <2> QED BY <2>2, <2>3 DEF SoundArray, HasStorage
<1>2. Ascending(new) /\ Len(new) = Len(a.items) + 1
  BY InsertedIsAscending
<1>3. Len(<<p>>) = 1 /\ <<p>> # <<>> /\ ~(n > Len(a.items))
  BY LenIsNat DEF Below
<1>4. r = IF ArrayOk(g) THEN [g EXCEPT !.items = new] ELSE g
  BY <1>1, <1>3 DEF InsertIntoArray
<1> HIDE DEF g, new, r
<1>5. CASE ~ArrayOk(g)
  BY <1>1, <1>4, <1>5 DEF r
<1>6. CASE ArrayOk(g)
  <2>1. new \in Seq(Nat) /\ Len(a.items) \in Nat
    BY <1>2, LenIsNat DEF Ascending
  <2>2. r \in [items : {new}, width : {8}, allocated : {g.allocated},
               max : {g.max}, status : {"ok"}]
        /\ g.allocated \in Nat /\ g.max \in Nat /\ g.allocated <= g.max
    BY <1>1, <1>4, <1>6 DEF SoundArray, IsArray, ArraySound, ArrayOk
  <2>3. SoundArray(r)
    BY <1>1, <1>2, <1>6, <2>1, <2>2
       DEF SoundArray, IsArray, ArraySound, ArraySize, ArrayStatuses
  <2> QED BY <1>2, <2>2, <2>3 DEF ArrayOk, r
<1> QED BY <1>5, <1>6

LEMMA RemoveFacts ==
  ASSUME NEW a, SoundArray(a), Ascending(a.items), NEW k \in 1 .. Len(a.items)
  PROVE  LET r == RemoveFromArray(a, k - 1, 1)
         IN  SoundArray(r) /\ Ascending(r.items)
<1> DEFINE r == RemoveFromArray(a, k - 1, 1)
           new == SubSeq(a.items, 1, k - 1)
                    \o SubSeq(a.items, k + 1, Len(a.items))
<1>1. Len(a.items) \in Nat /\ k \in Nat /\ 1 <= k /\ k <= Len(a.items)
  BY LenIsNat
<1>2. Ascending(new) /\ Len(new) = Len(a.items) - 1
  BY RemovedIsAscending
<1>3. Min({k - 1 + 1, Len(a.items)}) = k
  <2> DEFINE S == {k - 1 + 1, Len(a.items)}
  <2>1. S \in SUBSET Nat /\ S # {} /\ k \in S /\ \A x \in S : k <= x
    BY <1>1
  <2>2. Min(S) \in Nat /\ Min(S) <= k /\ k <= Min(S)
    <3> HIDE DEF S
    <3> QED BY <2>1, MinIsLeast
  <2> QED BY <1>1, <2>2
<1> DEFINE last == Min({k - 1 + 1, Len(a.items)})
           after == [a EXCEPT !.items = SubSeq(@, 1, k - 1)
                                \o SubSeq(@, last + 1, Len(a.items)),
                              !.status = "ok"]
<1>4. r = [a EXCEPT !.items = new, !.status = "ok"]
  <2>1. r = IF k - 1 > Len(a.items) THEN ArrayFailed(a, "invalidArgument")
            ELSE IF last = k - 1 THEN a ELSE after
    BY DEF RemoveFromArray
  <2>2. ~(k - 1 > Len(a.items)) /\ last = k /\ last # k - 1
    BY <1>1, <1>3
  <2>3. after = [a EXCEPT !.items = new, !.status = "ok"]
    BY <2>2, Zenon
  <2> HIDE DEF last, after, r
  <2> QED BY <2>1, <2>2, <2>3
<1> HIDE DEF r, new
<1>5. r \in [items : {new}, width : {8}, allocated : {a.allocated},
             max : {a.max}, status : {"ok"}]
      /\ a.allocated \in Nat /\ a.max \in Nat /\ a.allocated <= a.max
      /\ 8 * Len(a.items) <= a.allocated
  BY <1>4 DEF SoundArray, IsArray, ArraySound, ArraySize
<1>6. new \in Seq(Nat)
  BY <1>2 DEF Ascending
<1>7. SoundArray(r)
  BY <1>1, <1>2, <1>5, <1>6
     DEF SoundArray, IsArray, ArraySound, ArraySize, ArrayStatuses
<1> QED BY <1>2, <1>5, <1>7 DEF r

-----------------------------------------------------------------------------
(* The list *)

LEMMA SoundFacts ==
  ASSUME NEW b, Sound(b)
  PROVE  /\ Ascending(Breakpoints(b)) /\ Len(Breakpoints(b)) \in Nat
         /\ \A i \in 1 .. Len(Breakpoints(b)) : Breakpoints(b)[i] \in Nat
         /\ b.lastPC \in Nat /\ b.current \in 0 .. Len(Breakpoints(b))
         /\ b.current \in Nat
BY LenIsNat DEF Sound, CandidateSound

LEMMA MaxOfTwo ==
  ASSUME NEW x \in Nat, NEW y \in Nat
  PROVE  Max({x, y}) = IF x >= y THEN x ELSE y
<1> DEFINE m == IF x >= y THEN x ELSE y
<1>1. m \in {x, y} /\ \A z \in {x, y} : m >= z
  OBVIOUS
<1>2. \A w \in {x, y} : (\A z \in {x, y} : w >= z) => w = m
  OBVIOUS
<1>3. Max({x, y}) \in {x, y} /\ \A z \in {x, y} : Max({x, y}) >= z
  BY <1>1 DEF Max
<1> QED BY <1>2, <1>3

(* Where a check stops. *)
LEMMA CandidateFacts ==
  ASSUME NEW b, Sound(b), NEW pc \in Nat
  PROVE  LET s == Breakpoints(b)
             c == Candidate(b, pc)
             n == FindBreakpointAtOrAfter(b, pc)
         IN  /\ c \in 0 .. Len(s)
             /\ \A i \in 1 .. c : s[i] <= pc
             /\ \A i \in c + 1 .. Len(s) : s[i] >= pc
             /\ pc # b.lastPC => c = n
<1> DEFINE s == Breakpoints(b)
           c == Candidate(b, pc)
           n == FindBreakpointAtOrAfter(b, pc)
<1>1. /\ Ascending(s) /\ Len(s) \in Nat /\ b.lastPC \in Nat
      /\ \A i \in 1 .. Len(s) : s[i] \in Nat
      /\ b.current \in 0 .. Len(s) /\ b.current \in Nat
      /\ \A i \in 1 .. b.current : s[i] <= b.lastPC
  BY SoundFacts DEF Sound, CandidateSound
<1>2. Below(s, n, pc)
  BY <1>1, AtOrAfterFacts
<1>3. c = IF pc < b.lastPC THEN n ELSE Max({b.current, n})
  BY DEF Candidate
<1> HIDE DEF s, c, n
<1>4. /\ n \in 0 .. Len(s) /\ n \in Nat
      /\ \A i \in 1 .. n : s[i] < pc
      /\ \A i \in n + 1 .. Len(s) : s[i] >= pc /\ i \in 1 .. Len(s)
  BY <1>1, <1>2 DEF Below
<1>5. c = IF pc < b.lastPC \/ ~(b.current >= n) THEN n ELSE b.current
  BY <1>1, <1>3, <1>4, MaxOfTwo
<1>6. CASE c = n
  <2>1. \A i \in 1 .. c : s[i] <= pc
    BY <1>1, <1>4, <1>6
  <2> QED BY <1>4, <1>6, <2>1 DEF s, c, n
<1>7. CASE c # n
  <2>1. c = b.current /\ c > n /\ pc >= b.lastPC
    BY <1>1, <1>4, <1>5, <1>7
  <2>2. \A i \in 1 .. c : i \in 1 .. Len(s) /\ s[i] <= pc
    BY <1>1, <2>1
  <2>3. \A i \in c + 1 .. Len(s) : s[i] >= pc
    BY <1>1, <1>4, <2>1
  <2>4. pc = b.lastPC
    <3>1. c \in 1 .. b.current /\ c \in n + 1 .. Len(s)
      BY <1>1, <1>4, <2>1
    <3>2. s[c] <= b.lastPC /\ s[c] >= pc /\ s[c] \in Nat
      BY <1>1, <1>4, <3>1
    <3> QED BY <1>1, <2>1, <3>2
  <2> QED BY <1>1, <2>1, <2>2, <2>3, <2>4 DEF s, c, n
<1> QED BY <1>6, <1>7

(* A new array, and the next breakpoint looked for in it. *)
LEMMA RelocatedFacts ==
  ASSUME NEW b, Sound(b), NEW r, SoundArray(r), Ascending(r.items)
  PROVE  Sound(WithNewCandidate([b EXCEPT !.array = r]))
<1> DEFINE with == [b EXCEPT !.array = r]
           n == FindBreakpointAfter(with, b.lastPC)
           new == WithNewCandidate(with)
<1>1. with \in [array : {r}, current : Nat, lastPC : {b.lastPC},
                status : BreakpointStatuses] /\ b.lastPC \in Nat
  BY SoundFacts DEF Sound
<1>2. Breakpoints(with) = r.items
  BY <1>1 DEF Breakpoints
<1>3. AtOrBelow(r.items, n, b.lastPC) /\ Len(r.items) \in Nat
  <2> HIDE DEF with
  <2> QED BY <1>1, <1>2, AfterFacts, LenIsNat
<1>4. new = [with EXCEPT !.current = n, !.status = "ok"]
  BY <1>1 DEF WithNewCandidate
<1> HIDE DEF with, n, new
<1>5. new \in [array : {r}, current : {n}, lastPC : {b.lastPC},
               status : {"ok"}]
  BY <1>1, <1>4
<1>6. Breakpoints(new) = r.items
  BY <1>5 DEF Breakpoints
<1>7. /\ n \in 0 .. Len(r.items) /\ n \in Nat
      /\ \A i \in 1 .. n : r.items[i] <= b.lastPC
      /\ \A i \in n + 1 .. Len(r.items) : r.items[i] >= b.lastPC
  <2>1. \A i \in 1 .. Len(r.items) : r.items[i] \in Nat
    BY LenIsNat
  <2> QED BY <1>1, <1>3, <2>1 DEF AtOrBelow
<1>8. CandidateSound(new)
  BY <1>5, <1>6, <1>7 DEF CandidateSound
<1> QED BY <1>1, <1>5, <1>6, <1>7, <1>8
    DEF Sound, BreakpointStatuses, with, new

LEMMA StatusKeepsSound ==
  ASSUME NEW b, Sound(b), NEW e \in BreakpointStatuses
  PROVE  Sound([b EXCEPT !.status = e])
<1> DEFINE new == [b EXCEPT !.status = e]
<1>1. new \in [array : {b.array}, current : {b.current},
               lastPC : {b.lastPC}, status : {e}]
      /\ b.current \in Nat /\ b.lastPC \in Nat
  BY DEF Sound
<1> QED BY <1>1 DEF Sound, CandidateSound, Breakpoints

(* Nothing is in order, and takes no memory. *)
LEMMA EmptyFacts ==
  ASSUME NEW a, NEW m \in Nat, NEW n \in Nat, n <= m,
         a \in [items : {<<>>}, width : {8}, allocated : {n}, max : {m},
                status : {"ok"}]
  PROVE  /\ SoundArray(a) /\ a.items = <<>>
         /\ Ascending(<<>>) /\ Len(<<>>) = 0
<1>1. <<>> \in Seq(Nat) /\ Len(<<>>) = 0
  OBVIOUS
<1>2. /\ a.items = <<>> /\ a.width = 8 /\ a.allocated = n /\ a.max = m
      /\ a.status = "ok"
  OBVIOUS
<1>3. a \in [items : Seq(Nat), width : {8}, allocated : Nat, max : Nat,
             status : ArrayStatuses]
  BY <1>1 DEF ArrayStatuses
<1>4. ArraySize(a) = 0
  BY <1>1, <1>2 DEF ArraySize
<1> QED BY <1>1, <1>2, <1>3, <1>4 DEF SoundArray, IsArray, ArraySound, Ascending

LEMMA CreatedIsSound ==
  ASSUME NEW max \in Nat
  PROVE  Sound(CreatedBreakpointList(max))
<1> DEFINE b == CreatedBreakpointList(max)
           a == CreatedArray(8, 8 * max)
<1>1. a \in [items : {<<>>}, width : {8}, allocated : {0}, max : {8 * max},
             status : {"ok"}]
  BY DEF CreatedArray
<1>2. b \in [array : {a}, current : {0}, lastPC : {0}, status : {"ok"}]
  BY DEF CreatedBreakpointList
<1>3. Breakpoints(b) = <<>>
  BY <1>1, <1>2 DEF Breakpoints
<1>4. SoundArray(a)
  BY <1>1, EmptyFacts
<1>5. Ascending(<<>>) /\ Len(<<>>) = 0
  BY <1>1, EmptyFacts
<1> HIDE DEF a, b
<1>6. CandidateSound(b)
  BY <1>2, <1>3, <1>5 DEF CandidateSound
<1> QED BY <1>2, <1>3, <1>4, <1>5, <1>6 DEF Sound, BreakpointStatuses, b

LEMMA CheckKeepsSound ==
  ASSUME NEW b, Sound(b), NEW pc \in Nat
  PROVE  Sound(CheckBreakpoint(b, pc))
<1> DEFINE c == Candidate(b, pc)
           new == CheckBreakpoint(b, pc)
<1>1. /\ c \in 0 .. Len(Breakpoints(b)) /\ Len(Breakpoints(b)) \in Nat
      /\ \A i \in 1 .. c : Breakpoints(b)[i] <= pc
      /\ \A i \in c + 1 .. Len(Breakpoints(b)) : Breakpoints(b)[i] >= pc
  BY CandidateFacts, SoundFacts
<1>2. new = [b EXCEPT !.current = c, !.lastPC = pc]
  BY DEF CheckBreakpoint
<1> HIDE DEF c, new
<1>3. new \in [array : {b.array}, current : {c}, lastPC : {pc},
               status : BreakpointStatuses]
  BY <1>2 DEF Sound
<1>4. Breakpoints(new) = Breakpoints(b)
  BY <1>3 DEF Breakpoints
<1>5. CandidateSound(new)
  BY <1>1, <1>3, <1>4 DEF CandidateSound
<1> QED BY <1>1, <1>3, <1>4, <1>5 DEF Sound, new

LEMMA AddKeepsSound ==
  ASSUME NEW b, Sound(b), NEW a \in Nat, NEW mem \in BOOLEAN
  PROVE  Sound(AddBreakpoint(b, a, mem))
<1> DEFINE s == Breakpoints(b)
           n == FindBreakpointAtOrAfter(b, a)
           r == InsertIntoArray(b.array, n, <<a>>, mem)
           new == AddBreakpoint(b, a, mem)
<1>1. /\ Ascending(s) /\ Len(s) \in Nat
      /\ \A i, j \in 1 .. Len(s) : i < j => s[i] < s[j]
      /\ \A i \in 1 .. Len(s) : s[i] \in Nat
      /\ s = b.array.items /\ SoundArray(b.array)
  BY SoundFacts DEF Sound, Breakpoints, Ascending
<1>2. Below(s, n, a)
  BY <1>1, AtOrAfterFacts
<1>3. new = IF IsBreakpointAt(b, n, a) THEN [b EXCEPT !.status = "ok"]
            ELSE IF ArrayOk(r) THEN WithNewCandidate([b EXCEPT !.array = r])
            ELSE [b EXCEPT !.status =
                    IF r.status = "tooLong" THEN "full" ELSE "noMemory"]
  BY DEF AddBreakpoint, InsertionIndex
<1>4. IsBreakpointAt(b, n, a) <=> n < Len(s) /\ s[n + 1] = a
  BY DEF IsBreakpointAt
<1> HIDE DEF s, n, r, new
<1>5. \A e \in {"ok", "full", "noMemory"} : Sound([b EXCEPT !.status = e])
  BY StatusKeepsSound DEF BreakpointStatuses
<1>6. CASE IsBreakpointAt(b, n, a)
  BY <1>3, <1>5, <1>6 DEF new
<1>7. CASE ~IsBreakpointAt(b, n, a)
  <2>1. ASSUME NEW i \in 1 .. Len(s) PROVE s[i] # a
    <3>1. n \in Nat /\ n <= Len(s) /\ s[i] \in Nat
      BY <1>1, <1>2 DEF Below
    <3>2. CASE i <= n
      BY <1>2, <3>1, <3>2 DEF Below
    <3>3. CASE i = n + 1
      BY <1>1, <1>4, <1>7, <3>1, <3>3
    <3>4. CASE i > n + 1
      <4>1. n + 1 \in 1 .. Len(s) /\ n + 1 \in n + 1 .. Len(s) /\ n + 1 < i
        BY <1>1, <3>1, <3>4
      <4>2. s[n + 1] < s[i] /\ a <= s[n + 1] /\ s[n + 1] \in Nat
        BY <1>1, <1>2, <4>1 DEF Below
      <4> QED BY <3>1, <4>2
    <3> QED BY <1>1, <3>1, <3>2, <3>3, <3>4
  <2>2. SoundArray(r) /\ Ascending(r.items)
    BY <1>1, <1>2, <2>1, InsertFacts DEF r
  <2>3. CASE ArrayOk(r)
    BY <1>3, <1>7, <2>2, <2>3, RelocatedFacts DEF new
  <2>4. CASE ~ArrayOk(r)
    BY <1>3, <1>5, <1>7, <2>4 DEF new
  <2> QED BY <2>3, <2>4
<1> QED BY <1>6, <1>7

LEMMA RemoveKeepsSound ==
  ASSUME NEW b, Sound(b), NEW a \in Nat
  PROVE  Sound(RemoveBreakpoint(b, a))
<1> DEFINE s == Breakpoints(b)
           I == {i \in 1 .. Len(s) : s[i] = a}
           k == SelectInSeq(s, LAMBDA p : p = a)
           r == RemoveFromArray(b.array, k - 1, 1)
           new == RemoveBreakpoint(b, a)
<1>1. /\ Ascending(s) /\ Len(s) \in Nat
      /\ s = b.array.items /\ SoundArray(b.array)
  BY SoundFacts DEF Sound, Breakpoints
<1>2. new = IF k = 0 THEN [b EXCEPT !.status = "ok"]
            ELSE WithNewCandidate([b EXCEPT !.array = r])
  BY DEF RemoveBreakpoint
<1>3. k = IF I # {} THEN Min(I) ELSE 0
  BY DEF SelectInSeq
<1> HIDE DEF s, k, r, new
<1>4. k = 0 \/ k \in 1 .. Len(s)
  <2>1. I \in SUBSET Nat /\ I \subseteq 1 .. Len(s)
    BY <1>1
  <2> HIDE DEF I
  <2> QED BY <1>3, <2>1, MinIsLeast
<1>5. CASE k = 0
  BY <1>2, <1>5, StatusKeepsSound DEF BreakpointStatuses, new
<1>6. CASE k # 0
  <2>1. SoundArray(r) /\ Ascending(r.items)
    BY <1>1, <1>4, <1>6, RemoveFacts DEF r
  <2> QED BY <1>2, <1>6, <2>1, RelocatedFacts DEF new
<1> QED BY <1>5, <1>6

LEMMA ClearKeepsSound ==
  ASSUME NEW b, Sound(b)
  PROVE  Sound(ClearBreakpoints(b))
<1> DEFINE a == [b.array EXCEPT !.items = <<>>, !.status = "ok"]
           new == ClearBreakpoints(b)
<1>1. new = [b EXCEPT !.array = a, !.current = 0, !.status = "ok"]
  BY DEF ClearBreakpoints
<1>2. a \in [items : {<<>>}, width : {8}, allocated : {b.array.allocated},
             max : {b.array.max}, status : {"ok"}]
      /\ b.array.allocated \in Nat /\ b.array.max \in Nat
      /\ b.array.allocated <= b.array.max
  BY DEF Sound, SoundArray, IsArray, ArraySound
<1> HIDE DEF a, new
<1>3. new \in [array : {a}, current : {0}, lastPC : Nat, status : {"ok"}]
  BY <1>1 DEF Sound
<1>4. SoundArray(a) /\ a.items = <<>> /\ Ascending(<<>>) /\ Len(<<>>) = 0
  BY <1>2, EmptyFacts
<1>5. Breakpoints(new) = <<>>
  BY <1>3, <1>4 DEF Breakpoints
<1>6. CandidateSound(new)
  BY <1>3, <1>5 DEF CandidateSound
<1> QED BY <1>3, <1>4, <1>5, <1>6 DEF Sound, BreakpointStatuses, new

-----------------------------------------------------------------------------
(* brkpt.c: a list that was created, and every list that its routines make
   of a sound one, is sorted, within its memory, and has its index right. *)
THEOREM BreakpointListsStaySound ==
  /\ \A max \in Nat : Sound(CreatedBreakpointList(max))
  /\ \A b : Sound(b) =>
       /\ Sound(ClearBreakpoints(b))
       /\ \A a \in Nat :
            /\ Sound(CheckBreakpoint(b, a)) /\ Sound(RemoveBreakpoint(b, a))
            /\ \A mem \in BOOLEAN : Sound(AddBreakpoint(b, a, mem))
BY CreatedIsSound, ClearKeepsSound, CheckKeepsSound, RemoveKeepsSound,
   AddKeepsSound

(* isAtBreakpoint answers from its index what a search of the whole list
   would answer, whatever was asked before: it misses no breakpoint and
   reports none that is not there.  Only at lastPC itself may it deny one: a
   change of the list moves the index behind it. *)
THEOREM NoBreakpointMissed ==
  ASSUME NEW b, Sound(b), NEW pc \in Nat, pc # b.lastPC
  PROVE  IsAtBreakpoint(b, pc)
           <=> \E i \in 1 .. Len(Breakpoints(b)) : Breakpoints(b)[i] = pc
<1> DEFINE s == Breakpoints(b)
           n == FindBreakpointAtOrAfter(b, pc)
<1>1. /\ Ascending(s) /\ Len(s) \in Nat
      /\ \A i, j \in 1 .. Len(s) : i < j => s[i] < s[j]
      /\ \A i \in 1 .. Len(s) : s[i] \in Nat
  BY SoundFacts DEF Ascending
<1>2. Below(s, n, pc)
  BY <1>1, AtOrAfterFacts
<1>3. IsAtBreakpoint(b, pc) <=> n < Len(s) /\ s[n + 1] = pc
  BY CandidateFacts DEF IsAtBreakpoint, IsBreakpointAt
<1> HIDE DEF s, n
<1>4. n \in Nat /\ n <= Len(s)
  BY <1>1, <1>2 DEF Below
<1>5. ASSUME n < Len(s), s[n + 1] = pc
      PROVE  \E i \in 1 .. Len(s) : s[i] = pc
  <2>1. n + 1 \in 1 .. Len(s)
    BY <1>1, <1>4, <1>5
  <2> QED BY <1>5, <2>1
<1>6. ASSUME NEW i \in 1 .. Len(s), s[i] = pc
      PROVE  n < Len(s) /\ s[n + 1] = pc
  <2>1. i > n
    <3>1. CASE i <= n
      <4>1. i \in 1 .. n
        BY <1>4, <3>1
      <4>2. s[i] < pc
        BY <1>2, <4>1 DEF Below
      <4> QED BY <1>6, <4>2
    <3> QED BY <1>1, <1>4, <3>1
  <2>2. n < Len(s) /\ n + 1 \in 1 .. Len(s) /\ n + 1 \in n + 1 .. Len(s)
    BY <1>1, <1>4, <2>1
  <2>3. s[n + 1] \in Nat /\ pc <= s[n + 1]
    BY <1>1, <1>2, <2>2 DEF Below
  <2>4. ~(n + 1 < i)
    BY <1>1, <1>6, <2>2, <2>3
  <2> QED BY <1>1, <1>4, <1>6, <2>1, <2>2, <2>4
<1> QED BY <1>3, <1>5, <1>6 DEF s

-----------------------------------------------------------------------------
(* Words and addresses *)

LEMMA WordFacts ==
  /\ MaxWord \in Nat \ {0} /\ AddressSpace \in Nat \ {0} /\ Word \subseteq Nat
  /\ 0 \in Word /\ Len(Memory) \in Nat /\ Len(Memory) \in Word
  /\ MemoryBase \in Nat /\ MemoryBase + Len(Memory) <= MaxWord
<1>1. MaxWord \in Nat \ {0}
  BY DebugCommandsAssumption
<1>2. Len(Memory) \in Nat /\ MemoryBase \in Nat
      /\ MemoryBase + Len(Memory) <= MaxWord
  BY DebuggerAssumption
<1> QED BY <1>1, <1>2 DEF Word, AddressSpace

LEMMA ModuloIsWord ==
  ASSUME NEW n \in Nat
  PROVE  n % AddressSpace \in Word
<1>1. n % AddressSpace \in 0 .. AddressSpace - 1
  BY WordFacts, DivisionFacts
<1> QED BY <1>1, WordFacts DEF Word, AddressSpace

LEMMA ModuloOnce ==
  ASSUME NEW n \in Nat \ {0}, NEW x \in Nat, x < 2 * n
  PROVE  x % n = IF x < n THEN x ELSE x - n
<1> DEFINE q == x \div n
           r == x % n
<1>1. x = n * q + r /\ q \in Nat /\ r \in 0 .. n - 1
  BY DivisionFacts
<1> HIDE DEF q, r
<1>2. q < 2
  <2>1. SUFFICES ASSUME q >= 2 PROVE FALSE
    BY <1>1
  <2>2. PICK k \in Nat : q = 2 + k
    <3>1. q - 2 \in Nat /\ q = 2 + (q - 2)
      BY <1>1, <2>1
    <3> QED BY <3>1
  <2>3. n * q = 2 * n + n * k /\ n * k \in Nat
    BY <2>2
  <2> QED BY <1>1, <2>3
<1>3. CASE q = 0
  <2>1. x = r
    BY <1>1, <1>3
  <2> QED BY <1>1, <2>1 DEF r
<1>4. CASE q = 1
  <2>1. x = n + r
    BY <1>1, <1>4
  <2> QED BY <1>1, <2>1 DEF r
<1> QED BY <1>1, <1>2, <1>3, <1>4

(* An address with a pointer is the address of a byte of the memory. *)
LEMMA PointerFacts ==
  ASSUME NEW a \in Word, HasPointer(a)
  PROVE  a \in 0 .. Len(Memory) - 1 /\ a + 1 \in Word
<1> DEFINE x == MemoryBase + a
<1>1. /\ a \in Nat /\ a <= MaxWord /\ MemoryBase \in Nat
      /\ MemoryBase + Len(Memory) <= MaxWord /\ Len(Memory) \in Nat
      /\ MaxWord \in Nat
  BY WordFacts DEF Word
<1>2. x \in Nat /\ AddressSpace \in Nat \ {0} /\ x < 2 * AddressSpace
  BY <1>1 DEF AddressSpace
<1>3. x % AddressSpace = IF x < AddressSpace THEN x ELSE x - AddressSpace
  <2> HIDE DEF x
  <2> QED BY <1>2, ModuloOnce
<1>4. MemoryBase <= x % AddressSpace
      /\ x % AddressSpace < MemoryBase + Len(Memory)
  BY DEF HasPointer, Pointer, MemoryEnd
<1>5. x < AddressSpace
  <2>1. SUFFICES ASSUME ~(x < AddressSpace) PROVE FALSE
    OBVIOUS
  <2>2. MemoryBase <= x - AddressSpace
    BY <1>3, <1>4, <2>1
  <2> QED BY <1>1, <2>2 DEF AddressSpace
<1>6. a < Len(Memory)
  BY <1>1, <1>3, <1>4, <1>5
<1> QED BY <1>1, <1>6 DEF Word

-----------------------------------------------------------------------------
(* The two lists of the debugger hold words. *)

WordList(b) ==
  Sound(b) /\ Breakpoints(b) \in Seq(Word) /\ b.lastPC \in Word

LEMMA WithNewCandidateItems ==
  ASSUME NEW b, NEW r, Sound(b)
  PROVE  LET new == WithNewCandidate([b EXCEPT !.array = r])
         IN  Breakpoints(new) = r.items /\ new.lastPC = b.lastPC
BY DEF WithNewCandidate, Breakpoints, Sound

LEMMA StatusItems ==
  ASSUME NEW b, NEW e, Sound(b)
  PROVE  LET new == [b EXCEPT !.status = e]
         IN  Breakpoints(new) = Breakpoints(b) /\ new.lastPC = b.lastPC
BY DEF Breakpoints, Sound

LEMMA WordListCreated ==
  ASSUME NEW max \in Nat
  PROVE  WordList(CreatedBreakpointList(max))
<1>1. Breakpoints(CreatedBreakpointList(max)) = <<>>
      /\ CreatedBreakpointList(max).lastPC = 0
  BY DEF Breakpoints, CreatedBreakpointList, CreatedArray
<1>2. <<>> \in Seq(Word)
  OBVIOUS
<1> QED BY <1>1, <1>2, WordFacts, CreatedIsSound DEF WordList

LEMMA WordListChecked ==
  ASSUME NEW b, WordList(b), NEW a \in Word
  PROVE  WordList(CheckBreakpoint(b, a))
<1> DEFINE new == CheckBreakpoint(b, a)
<1>1. Sound(new)
  BY CheckKeepsSound, WordFacts DEF WordList
<1>2. Breakpoints(new) = Breakpoints(b) /\ new.lastPC = a
  BY DEF CheckBreakpoint, Breakpoints, WordList, Sound
<1> QED BY <1>1, <1>2 DEF WordList

LEMMA WordListCleared ==
  ASSUME NEW b, WordList(b)
  PROVE  WordList(ClearBreakpoints(b))
<1> DEFINE new == ClearBreakpoints(b)
<1>1. Sound(new)
  BY ClearKeepsSound DEF WordList
<1>2. Breakpoints(new) = <<>> /\ new.lastPC = b.lastPC
  BY DEF ClearBreakpoints, Breakpoints, WordList, Sound, SoundArray, IsArray
<1>3. <<>> \in Seq(Word)
  OBVIOUS
<1> QED BY <1>1, <1>2, <1>3 DEF WordList

LEMMA PartsAreWords ==
  ASSUME NEW s \in Seq(Word), NEW m \in Int, NEW n \in Int,
         1 <= m, n <= Len(s)
  PROVE  SubSeq(s, m, n) \in Seq(Word)
<1>1. \A i \in m .. n : s[i] \in Word
  BY ElementOfSeq
<1> QED BY <1>1, SubSeqProperties

LEMMA WordListAdded ==
  ASSUME NEW b, WordList(b), NEW a \in Word, NEW mem \in BOOLEAN
  PROVE  WordList(AddBreakpoint(b, a, mem))
<1> DEFINE s == Breakpoints(b)
           n == FindBreakpointAtOrAfter(b, a)
           r == InsertIntoArray(b.array, n, <<a>>, mem)
           g == WithStorage(b.array, 1, mem)
           new == AddBreakpoint(b, a, mem)
<1>1. Sound(new) /\ Sound(b) /\ a \in Nat
  BY AddKeepsSound, WordFacts DEF WordList
<1>2. /\ Ascending(s) /\ Len(s) \in Nat /\ s = b.array.items
      /\ SoundArray(b.array) /\ s \in Seq(Word) /\ b.lastPC \in Word
  BY <1>1, SoundFacts DEF Breakpoints, Sound, WordList
<1>3. n \in 0 .. Len(s)
  BY <1>1, <1>2, AtOrAfterFacts DEF Below
<1>4. \/ \E e : new = [b EXCEPT !.status = e]
      \/ ArrayOk(r) /\ new = WithNewCandidate([b EXCEPT !.array = r])
  <2>1. new = IF IsBreakpointAt(b, n, a) THEN [b EXCEPT !.status = "ok"]
              ELSE IF ArrayOk(r)
              THEN WithNewCandidate([b EXCEPT !.array = r])
              ELSE [b EXCEPT !.status =
                      IF r.status = "tooLong" THEN "full" ELSE "noMemory"]
    BY DEF AddBreakpoint, InsertionIndex
  <2> HIDE DEF new, r, n
  <2> QED BY <2>1
<1>5. ArrayOk(r) => r.items \in Seq(Word)
  <2> SUFFICES ASSUME ArrayOk(r) PROVE r.items \in Seq(Word)
    OBVIOUS
  <2> DEFINE low == SubSeq(s, 1, n)
             high == SubSeq(s, n + 1, Len(s))
             one == <<a>>
  <2>1. SoundArray(g) /\ g.items = s
    <3>1. 8 \in Nat \ {0} /\ IsArray(b.array, Nat, 8) /\ 1 \in Nat
      BY <1>2 DEF SoundArray
    <3>2. IsArray(g, Nat, 8) /\ g.items = b.array.items
      BY <3>1, WithStorageFacts
    <3> QED BY <1>2, <3>2 DEF SoundArray
  <2>2. r = IF n > Len(s) THEN ArrayFailed(b.array, "invalidArgument")
            ELSE IF ArrayOk(g) THEN [g EXCEPT !.items = low \o one \o high]
            ELSE g
    BY <1>2, <2>1 DEF InsertIntoArray
  <2>3. low \in Seq(Word) /\ high \in Seq(Word) /\ one \in Seq(Word)
    BY <1>2, <1>3, PartsAreWords
  <2> HIDE DEF low, high, one
  <2>4. low \o one \in Seq(Word)
    BY <2>3, ConcatProperties
  <2>5. low \o one \o high \in Seq(Word)
    BY <2>3, <2>4, ConcatProperties
  <2> HIDE DEF g
  <2>6. ~(n > Len(s))
    BY <1>2, <1>3
  <2> QED BY <1>2, <2>1, <2>2, <2>5, <2>6 DEF SoundArray, IsArray
<1> HIDE DEF s, n, r, new
<1>6. Breakpoints(new) \in Seq(Word) /\ new.lastPC \in Word
  <2>1. CASE ArrayOk(r) /\ new = WithNewCandidate([b EXCEPT !.array = r])
    BY <1>1, <1>2, <1>5, <2>1, WithNewCandidateItems
  <2>2. ASSUME NEW e, new = [b EXCEPT !.status = e]
        PROVE  Breakpoints(new) \in Seq(Word) /\ new.lastPC \in Word
    BY <1>1, <1>2, <2>2, StatusItems DEF s
  <2> QED BY <1>4, <2>1, <2>2
<1> QED BY <1>1, <1>6 DEF WordList, new

LEMMA WordListRemoved ==
  ASSUME NEW b, WordList(b), NEW a \in Word
  PROVE  WordList(RemoveBreakpoint(b, a))
<1> DEFINE s == Breakpoints(b)
           I == {i \in 1 .. Len(s) : s[i] = a}
           k == SelectInSeq(s, LAMBDA p : p = a)
           r == RemoveFromArray(b.array, k - 1, 1)
           new == RemoveBreakpoint(b, a)
<1>1. Sound(new) /\ Sound(b)
  BY RemoveKeepsSound, WordFacts DEF WordList
<1>2. /\ Ascending(s) /\ Len(s) \in Nat /\ s = b.array.items
      /\ SoundArray(b.array) /\ s \in Seq(Word) /\ b.lastPC \in Word
  BY <1>1, SoundFacts DEF Breakpoints, Sound, WordList
<1>3. new = IF k = 0 THEN [b EXCEPT !.status = "ok"]
            ELSE WithNewCandidate([b EXCEPT !.array = r])
  BY DEF RemoveBreakpoint
<1>4. k = 0 \/ k \in 1 .. Len(s)
  <2>1. k = IF I # {} THEN Min(I) ELSE 0
    BY DEF SelectInSeq
  <2>2. I \in SUBSET Nat /\ I \subseteq 1 .. Len(s)
    BY <1>2
  <2> HIDE DEF I, k
  <2> QED BY <2>1, <2>2, MinIsLeast
<1> HIDE DEF k
<1>5. k # 0 => r.items \in Seq(Word)
  <2> SUFFICES ASSUME k # 0 PROVE r.items \in Seq(Word)
    OBVIOUS
  <2> DEFINE last == Min({k - 1 + 1, Len(s)})
             low  == SubSeq(s, 1, k - 1)
             high == SubSeq(s, last + 1, Len(s))
  <2>1. last = k
    <3>1. {k - 1 + 1, Len(s)} \in SUBSET Nat /\ k \in {k - 1 + 1, Len(s)}
          /\ \A x \in {k - 1 + 1, Len(s)} : k <= x
      BY <1>2, <1>4
    <3>2. last \in {k - 1 + 1, Len(s)}
          /\ \A x \in {k - 1 + 1, Len(s)} : last <= x
      BY <3>1, MinIsLeast
    <3> QED BY <3>1, <3>2
  <2>2. low \in Seq(Word) /\ high \in Seq(Word)
    <3>1. /\ k - 1 \in Int /\ k - 1 <= Len(s)
          /\ last + 1 \in Int /\ 1 <= last + 1 /\ Len(s) <= Len(s)
      BY <1>2, <1>4, <2>1
    <3> HIDE DEF s, last
    <3> QED BY <1>2, <3>1, PartsAreWords
  <2>3. r = IF k - 1 > Len(s) THEN ArrayFailed(b.array, "invalidArgument")
            ELSE IF last = k - 1 THEN b.array
            ELSE [b.array EXCEPT !.items = low \o high, !.status = "ok"]
    BY <1>2 DEF RemoveFromArray
  <2> HIDE DEF low, high, last
  <2>4. low \o high \in Seq(Word)
    BY <2>2, ConcatProperties
  <2>5. ~(k - 1 > Len(s)) /\ last # k - 1
    BY <1>2, <1>4, <2>1
  <2> QED BY <1>2, <2>3, <2>4, <2>5 DEF SoundArray, IsArray
<1> HIDE DEF s, r, new
<1>6. Breakpoints(new) \in Seq(Word) /\ new.lastPC \in Word
  <2>1. CASE k # 0
    BY <1>1, <1>2, <1>3, <1>5, <2>1, WithNewCandidateItems
  <2>2. CASE k = 0
    BY <1>1, <1>2, <1>3, <2>2, StatusItems DEF s
  <2> QED BY <2>1, <2>2
<1> QED BY <1>1, <1>6 DEF WordList, new

-----------------------------------------------------------------------------
(* The machine *)

VmStatuses == {"ok", "halted", "panic", "error"}

VmOk(v) ==
  /\ v \in [pc : Word, state : {"ready", "halted", "panic"},
            memory : [0 .. Len(Memory) - 1 -> 0 .. 255],
            calls : {v.calls}, addresses : {v.addresses},
            status : VmStatuses, failed : BOOLEAN]
  /\ FrameStack(v.calls, Word) /\ SoundStack(v.addresses, Word)

(* A machine made of the parts of a sound one. *)
LEMMA VmWith ==
  ASSUME NEW v, VmOk(v), NEW c, FrameStack(c, Word), NEW a, SoundStack(a, Word)
  PROVE  LET u == [v EXCEPT !.addresses = a, !.calls = c]
         IN  VmOk(u) /\ u.pc = v.pc /\ u.memory = v.memory
BY DEF VmOk

LEMMA VmWithAddresses ==
  ASSUME NEW v, VmOk(v), NEW a, SoundStack(a, Word)
  PROVE  LET u == [v EXCEPT !.addresses = a]
         IN  VmOk(u) /\ u.pc = v.pc /\ u.memory = v.memory
BY DEF VmOk

LEMMA VmWithCalls ==
  ASSUME NEW v, VmOk(v), NEW c, FrameStack(c, Word)
  PROVE  LET u == [v EXCEPT !.calls = c]
         IN  VmOk(u) /\ u.pc = v.pc /\ u.memory = v.memory
BY DEF VmOk

LEMMA VmMoves ==
  ASSUME NEW v, VmOk(v), NEW to \in Word
  PROVE  VmOk(Moves(v, to))
BY DEF VmOk, Moves

LEMMA VmFails ==
  ASSUME NEW v, VmOk(v), NEW status \in VmStatuses
  PROVE  VmOk(StepFails(v, status))
BY DEF VmOk, StepFails

LEMMA LoadedIsOk == VmOk(LoadedVm)
<1> DEFINE m == [a \in 0 .. Len(Memory) - 1 |-> Memory[a + 1]]
<1>1. m \in [0 .. Len(Memory) - 1 -> 0 .. 255]
  <2> SUFFICES ASSUME NEW a \in 0 .. Len(Memory) - 1
               PROVE  Memory[a + 1] \in 0 .. 255
    OBVIOUS
  <2>1. Memory \in Seq(0 .. 255) /\ a + 1 \in 1 .. Len(Memory)
    BY DebuggerAssumption, WordFacts
  <2> QED BY <2>1, ElementOfSeq
<1>2. Start \in Word
  BY DebuggerAssumption, WordFacts DEF Word
<1> DEFINE n == WordSize * InitialStack
           Created(max) == CreatedStack(n, max)
<1>3. n \in Nat /\ n % 16 = 0
  <2>1. InitialStack \in Nat /\ InitialStack % 2 = 0
    BY DebuggerAssumption
  <2>2. PICK k \in Nat : InitialStack = 2 * k
    <3>1. 2 \in Nat \ {0}
      OBVIOUS
    <3>2. /\ InitialStack = 2 * (InitialStack \div 2) + (InitialStack % 2)
          /\ InitialStack \div 2 \in Nat
      BY <2>1, <3>1, DivisionFacts
    <3> QED BY <2>1, <3>2
  <2>3. n = 16 * k
    BY <2>2 DEF WordSize
  <2> HIDE DEF n
  <2> QED BY <2>3, MultipleOf16
<1>4. ASSUME NEW max \in Nat \ {0}, n <= max
      PROVE  SoundStack(Created(max), Word) /\ Created(max).items = <<>>
             /\ Created(max).end = n /\ Created(max).max = max
  <2>1. Created(max) \in [items : {<<>>}, end : {n}, max : {max},
                          status : {"ok"}]
    BY DEF CreatedStack
  <2>2. <<>> \in Seq(Word) /\ Len(<<>>) = 0
    OBVIOUS
  <2> HIDE DEF Created, n
  <2>3. StackSize(Created(max)) = 0
    BY <2>1, <2>2 DEF StackSize, Bytes, WordSize
  <2>4. /\ Created(max).items = <<>> /\ Created(max).end = n
        /\ Created(max).max = max /\ Created(max).status = "ok"
    BY <2>1
  <2>5. Created(max) \in [items : Seq(Word), end : Nat, max : Nat \ {0},
                          status : StackStatuses]
    BY <1>3, <2>1, <2>2 DEF StackStatuses
  <2>6. 0 <= Created(max).end /\ Created(max).end <= Created(max).max
    BY <1>3, <1>4, <2>4
  <2> QED BY <2>3, <2>4, <2>5, <2>6 DEF SoundStack
<1>5. /\ 16 * MaxCallFrames \in Nat \ {0} /\ n <= 16 * MaxCallFrames
      /\ 8 * MaxAddresses \in Nat \ {0} /\ n <= 8 * MaxAddresses
      /\ (16 * MaxCallFrames) % 16 = 0
  BY DebuggerAssumption, MultipleOf16 DEF CanCreateStack
<1> DEFINE c == Created(16 * MaxCallFrames)
           a == Created(8 * MaxAddresses)
<1> HIDE DEF m, n, Created
<1>6. FrameStack(c, Word) /\ SoundStack(a, Word)
  <2>1. Len(<<>>) % 2 = 0
    OBVIOUS
  <2> QED BY <1>3, <1>4, <1>5, <2>1 DEF FrameStack
<1>7. LoadedVm = [pc |-> Start, state |-> "ready", memory |-> m, calls |-> c,
                  addresses |-> a, status |-> "ok", failed |-> FALSE]
  BY DEF LoadedVm, m, c, a, n, Created
<1> HIDE DEF c, a
<1> QED BY <1>1, <1>2, <1>6, <1>7 DEF VmOk, VmStatuses

-----------------------------------------------------------------------------
(* A step of the machine *)

(* Where the PC has a pointer there is a byte, and the next PC is a word. *)
LEMMA FetchFacts ==
  ASSUME VmOk(vm), HasPointer(vm.pc)
  PROVE  /\ vm.pc \in 0 .. Len(Memory) - 1 /\ vm.pc + 1 \in Word
         /\ WordPlus(vm.pc, 1) \in Word
<1>1. vm.pc \in Word
  BY DEF VmOk
<1>2. vm.pc \in Nat
  BY <1>1, WordFacts, Zenon
<1>3. vm.pc + 1 \in Nat
  BY <1>2
<1> QED BY <1>1, <1>3, PointerFacts, ModuloIsWord DEF WordPlus

LEMMA LastIsWord ==
  ASSUME NEW s, SoundStack(s, Word), HasWords(s, 1)
  PROVE  Last(s.items) \in Word
<1>1. s.items \in Seq(Word) /\ Len(s.items) \in 1 .. Len(s.items)
  BY StackSizeNat DEF SoundStack, HasWords
<1> QED BY <1>1, ElementOfSeq DEF Last

(* One word on the address stack. *)
LEMMA PushWordFacts ==
  ASSUME NEW s, SoundStack(s, Word), NEW a \in Word, NEW mem \in BOOLEAN
  PROVE  SoundStack(PushStack(s, <<a>>, mem), Word)
<1>1. <<a>> \in Seq(Word)
  OBVIOUS
<1> QED BY <1>1, PushFacts DEF Follows

LEMMA PopWordFacts ==
  ASSUME NEW s, SoundStack(s, Word)
  PROVE  /\ SoundStack(PopStack(s, 1), Word)
         /\ StackOk(PopStack(s, 1)) <=> HasWords(s, 1)
BY PopFacts DEF Follows, Done, Refused, StackOk

StepKeeps == VmOk(vm') /\ UNCHANGED <<dbg, crash>>

LEMMA PushKeeps ==
  ASSUME VmOk(vm), Push
  PROVE  StepKeeps
<1>1. HasPointer(vm.pc) /\ UNCHANGED crash
  BY DEF Push, Fetches
<1>2. CASE vm.pc + 9 > Len(Memory)
  <2>1. vm' = StepFails(vm, "error") /\ UNCHANGED dbg
    BY <1>2 DEF Push, StepsTo
  <2> QED BY <1>1, <2>1, VmFails DEF StepKeeps, VmStatuses
<1>3. CASE ~(vm.pc + 9 > Len(Memory))
  <2> DEFINE a == WordAt(vm.pc + 1)
  <2>1. PICK mem \in BOOLEAN :
          LET r == PushStack(vm.addresses, <<a>>, mem)
              v == [vm EXCEPT !.addresses = r]
          IN  StepsTo(IF StackOk(r) THEN Moves(v, vm.pc + 9)
                      ELSE StepFails(v, "error"))
    BY <1>3, Zenon DEF Push
  <2> DEFINE r == PushStack(vm.addresses, <<a>>, mem)
             v == [vm EXCEPT !.addresses = r]
  <2>2. vm.pc \in 0 .. Len(Memory) - 1 /\ Len(Memory) \in Nat
        /\ Len(Memory) <= MaxWord /\ MaxWord \in Nat
    BY <1>1, FetchFacts, WordFacts DEF Word
  <2>3. vm.pc + 9 \in Word /\ vm.pc + 1 \in 0 .. Len(Memory) - 1
    BY <1>3, <2>2 DEF Word
  <2>4. a \in Word
    <3>1. vm.memory \in [0 .. Len(Memory) - 1 -> 0 .. 255]
      BY DEF VmOk
    <3>2. vm.memory[vm.pc + 1] \in 0 .. 255
      BY <2>3, <3>1, Zenon
    <3>3. vm.memory[vm.pc + 1] \in Nat
      BY <3>2
    <3> QED BY <3>3, ModuloIsWord DEF WordAt, ByteAt
  <2> HIDE DEF a
  <2>5. SoundStack(r, Word)
    BY <2>4, PushWordFacts DEF VmOk
  <2>6. StepsTo(IF StackOk(r) THEN Moves(v, vm.pc + 9)
                ELSE StepFails(v, "error"))
    BY <2>1
  <2> HIDE DEF r
  <2>7. VmOk(v)
    BY <2>5, VmWithAddresses
  <2> HIDE DEF v
  <2>8. VmOk(Moves(v, vm.pc + 9)) /\ VmOk(StepFails(v, "error"))
    BY <2>3, <2>7, VmMoves, VmFails DEF VmStatuses
  <2> QED BY <1>1, <2>6, <2>8 DEF StepsTo, StepKeeps
<1> QED BY <1>2, <1>3

LEMMA PopKeeps ==
  ASSUME VmOk(vm), Pop
  PROVE  StepKeeps
<1> DEFINE r == PopStack(vm.addresses, 1)
           v == [vm EXCEPT !.addresses = r]
<1>1. HasPointer(vm.pc) /\ UNCHANGED crash
      /\ StepsTo(IF StackOk(r) THEN Moves(v, vm.pc + 1)
                 ELSE StepFails(v, "error"))
  BY DEF Pop, Fetches
<1>2. SoundStack(r, Word)
  BY PopWordFacts DEF VmOk
<1> HIDE DEF r
<1>3. VmOk(v)
  BY <1>2, VmWithAddresses
<1> HIDE DEF v
<1>4. VmOk(Moves(v, vm.pc + 1)) /\ VmOk(StepFails(v, "error"))
  BY <1>1, <1>3, FetchFacts, VmMoves, VmFails DEF VmStatuses
<1> QED BY <1>1, <1>4 DEF StepsTo, StepKeeps

(* Where a word was popped, it can be put back. *)
LEMMA PutsBackKeeps ==
  ASSUME VmOk(vm), HasWords(vm.addresses, 1), NEW target \in Word,
         NEW calls, FrameStack(calls, Word),
         PutsBack(PopStack(vm.addresses, 1), target, calls)
  PROVE  StepKeeps
<1>1. PICK mem \in BOOLEAN :
        LET r == PushStack(PopStack(vm.addresses, 1), <<target>>, mem)
        IN  /\ StepsTo(StepFails([vm EXCEPT !.addresses = r,
                                            !.calls = calls], "error"))
            /\ crash' = IF StackOk(r) THEN crash ELSE "assertion"
  BY Zenon DEF PutsBack
<1> DEFINE r == PushStack(PopStack(vm.addresses, 1), <<target>>, mem)
           v == [vm EXCEPT !.addresses = r, !.calls = calls]
<1>2. SoundStack(r, Word) /\ StackOk(r)
  <2>1. 1 \in Nat \ {0} /\ SoundStack(vm.addresses, Word)
    BY DEF VmOk
  <2> QED BY <2>1, PutBackFacts DEF Done, StackOk
<1>3. /\ StepsTo(StepFails(v, "error"))
      /\ crash' = IF StackOk(r) THEN crash ELSE "assertion"
  BY <1>1
<1> HIDE DEF r
<1>4. VmOk(v)
  BY <1>2, VmWith
<1> HIDE DEF v
<1>5. VmOk(StepFails(v, "error"))
  BY <1>4, VmFails DEF VmStatuses
<1> QED BY <1>2, <1>3, <1>5 DEF StepsTo, StepKeeps

LEMMA PCallKeeps ==
  ASSUME VmOk(vm), PCall
  PROVE  StepKeeps
<1> DEFINE popped == PopStack(vm.addresses, 1)
           target == Last(vm.addresses.items)
           Block(m) == PushStack(vm.calls, <<target>>, m)
           Both(m, n) == PushStack(Block(m), <<WordPlus(vm.pc, 1)>>, n)
           Calls(m, n) == IF StackOk(Block(m)) THEN Both(m, n) ELSE Block(m)
<1>1. HasPointer(vm.pc)
  BY DEF PCall, Fetches
<1>2. /\ SoundStack(popped, Word)
      /\ StackOk(popped) <=> HasWords(vm.addresses, 1)
      /\ FrameStack(vm.calls, Word)
  BY PopWordFacts DEF VmOk
<1>3. CASE ~StackOk(popped)
  <2>1. StepsTo(StepFails([vm EXCEPT !.addresses = popped], "error"))
        /\ UNCHANGED crash
    BY <1>3 DEF PCall
  <2> HIDE DEF popped
  <2>2. VmOk([vm EXCEPT !.addresses = popped])
    BY <1>2, VmWithAddresses
  <2>3. VmOk(StepFails([vm EXCEPT !.addresses = popped], "error"))
    BY <2>2, VmFails DEF VmStatuses
  <2> QED BY <2>1, <2>3 DEF StepsTo, StepKeeps
<1>4. CASE StackOk(popped)
  <2>1. target \in Word /\ HasWords(vm.addresses, 1)
    BY <1>2, <1>4, LastIsWord DEF VmOk
  <2>2. CASE ~IsValidVmmAddress(target)
    <3>1. PutsBack(popped, target, vm.calls)
      BY <1>4, <2>2 DEF PCall
    <3> HIDE DEF target
    <3> QED BY <1>2, <2>1, <3>1, PutsBackKeeps
  <2>3. CASE IsValidVmmAddress(target)
    <3>1. PICK m \in BOOLEAN, n \in BOOLEAN :
            IF StackOk(Calls(m, n))
            THEN /\ StepsTo(Moves([vm EXCEPT !.addresses = popped,
                                             !.calls = Calls(m, n)], target))
                 /\ UNCHANGED crash
            ELSE PutsBack(popped, target, Calls(m, n))
      BY <1>4, <2>3, Zenon DEF PCall
    <3> DEFINE calls == Calls(m, n)
               next  == WordPlus(vm.pc, 1)
    <3>2. FrameStack(calls, Word)
      <4>1. next \in Word
        BY <1>1, FetchFacts
      <4> HIDE DEF target, next
      <4>2. LET first  == PushStack(vm.calls, <<target>>, m)
                second == PushStack(first, <<next>>, n)
            IN  IF StackOk(first)
                THEN FrameStack(second, Word) /\ StackOk(second)
                ELSE FrameStack(first, Word)
        BY <1>2, <2>1, <4>1, FramePushFacts
      <4> QED BY <4>2 DEF next
    <3>3. IF StackOk(calls)
          THEN /\ StepsTo(Moves([vm EXCEPT !.addresses = popped,
                                           !.calls = calls], target))
               /\ UNCHANGED crash
          ELSE PutsBack(popped, target, calls)
      BY <3>1
    <3> HIDE DEF calls, target
    <3>4. CASE StackOk(calls)
      <4> DEFINE v == [vm EXCEPT !.addresses = popped, !.calls = calls]
      <4>1. StepsTo(Moves(v, target)) /\ UNCHANGED crash
        BY <3>3, <3>4
      <4> HIDE DEF popped
      <4>2. VmOk(v)
        BY <1>2, <3>2, VmWith
      <4> HIDE DEF v
      <4>3. VmOk(Moves(v, target))
        BY <2>1, <4>2, VmMoves
      <4> QED BY <4>1, <4>3 DEF StepsTo, StepKeeps
    <3>5. CASE ~StackOk(calls)
      BY <2>1, <3>2, <3>3, <3>5, PutsBackKeeps
    <3> QED BY <3>4, <3>5
  <2> QED BY <2>2, <2>3
<1> QED BY <1>3, <1>4

LEMMA ReturnKeeps ==
  ASSUME VmOk(vm), Return
  PROVE  StepKeeps
<1> DEFINE first  == PopStack(vm.calls, 1)
           second == PopStack(first, 1)
           calls  == IF StackOk(first) THEN second ELSE first
           v      == [vm EXCEPT !.calls = calls]
<1>1. /\ UNCHANGED crash
      /\ StepsTo(IF StackOk(calls) THEN Moves(v, Last(vm.calls.items))
                 ELSE StepFails(v, "error"))
  BY DEF Return
<1>2. /\ FrameStack(vm.calls, Word) /\ SoundStack(vm.calls, Word)
      /\ Len(vm.calls.items) \in Nat
  BY StackSizeNat DEF VmOk, FrameStack
<1>3. /\ FrameStack(calls, Word)
      /\ StackOk(calls) => Len(vm.calls.items) >= 2
  BY <1>2, FramePopFacts
<1> HIDE DEF calls
<1>4. VmOk(v)
  BY <1>3, VmWithCalls
<1> HIDE DEF v
<1>5. VmOk(StepFails(v, "error"))
  BY <1>4, VmFails DEF VmStatuses
<1>6. ASSUME StackOk(calls) PROVE VmOk(Moves(v, Last(vm.calls.items)))
  <2>1. HasWords(vm.calls, 1)
    BY <1>2, <1>3, <1>6 DEF HasWords
  <2>2. Last(vm.calls.items) \in Word
    BY <1>2, <2>1, LastIsWord
  <2> QED BY <1>4, <2>2, VmMoves
<1> QED BY <1>1, <1>5, <1>6 DEF StepsTo, StepKeeps

(* A step that only stops, or fails. *)
LEMMA StopKeeps ==
  ASSUME VmOk(vm), NEW state \in {"ready", "halted", "panic"},
         NEW status \in VmStatuses,
         StepsTo(StepFails([vm EXCEPT !.state = state], status)),
         UNCHANGED crash
  PROVE  StepKeeps
<1> DEFINE v == [vm EXCEPT !.state = state]
<1>1. VmOk(v)
  BY DEF VmOk
<1> HIDE DEF v
<1>2. VmOk(StepFails(v, status))
  BY <1>1, VmFails
<1>3. vm' = StepFails(v, status) /\ UNCHANGED dbg
  BY DEF StepsTo, v
<1> QED BY <1>2, <1>3 DEF StepKeeps

LEMMA FailureKeeps ==
  ASSUME VmOk(vm), NEW status \in VmStatuses,
         StepsTo(StepFails(vm, status)), UNCHANGED crash
  PROVE  StepKeeps
BY VmFails DEF StepsTo, StepKeeps

LEMMA StepVmKeeps ==
  ASSUME VmOk(vm), StepVm
  PROVE  StepKeeps
<1>1. CASE Push
  BY <1>1, PushKeeps
<1>2. CASE Pop
  BY <1>2, PopKeeps
<1>3. CASE PCall
  BY <1>3, PCallKeeps
<1>4. CASE Return
  BY <1>4, ReturnKeeps
<1>5. CASE Halt
  BY <1>5, StopKeeps DEF Halt, VmStatuses
<1>6. CASE Panic
  BY <1>6, StopKeeps DEF Panic, VmStatuses
<1>7. CASE IllegalInstruction
  BY <1>7, FailureKeeps DEF IllegalInstruction, VmStatuses
<1>8. CASE IllegalPC
  BY <1>8, FailureKeeps DEF IllegalPC, VmStatuses
<1>9. CASE Stopped
  <2>1. vm.state \in VmStatuses
    BY <1>9 DEF Stopped, VmOk, VmStatuses
  <2> QED BY <1>9, <2>1, FailureKeeps DEF Stopped
<1> QED BY <1>1, <1>2, <1>3, <1>4, <1>5, <1>6, <1>7, <1>8, <1>9 DEF StepVm

-----------------------------------------------------------------------------
(* The debugger *)

DbgOk(d) ==
  /\ d \in [persistent : {d.persistent}, temporary : {d.temporary},
            breakOnNext : BOOLEAN, status : DebuggerStatuses]
  /\ WordList(d.persistent) /\ WordList(d.temporary)

CrashedAtPC ==
  crash' = "nullPointer" /\ IsValidVmmAddress(vm.pc) /\ ~HasPointer(vm.pc)

CrashedInHeap == crash' = "strayHeader" /\ HeapDumpStrays

CommandKeeps ==
  /\ VmOk(vm') /\ DbgOk(dbg')
  /\ UNCHANGED crash \/ (UNCHANGED vm /\ (CrashedAtPC \/ CrashedInHeap))

LEMMA DbgWith ==
  ASSUME NEW d, DbgOk(d), NEW p, WordList(p), NEW t, WordList(t),
         NEW status \in DebuggerStatuses, NEW n \in BOOLEAN
  PROVE  DbgOk([persistent |-> p, temporary |-> t, breakOnNext |-> n,
                status |-> status])
BY DEF DbgOk

LEMMA DbgReports ==
  ASSUME NEW d, DbgOk(d), NEW status \in DebuggerStatuses
  PROVE  DbgOk([d EXCEPT !.status = status])
BY DEF DbgOk

LEMMA CreatedDebuggerIsOk == DbgOk(CreatedDebugger)
<1>1. MaxPersistent \in Nat /\ MaxTemporary \in Nat
  BY DebuggerAssumption
<1>2. WordList(CreatedBreakpointList(MaxPersistent))
      /\ WordList(CreatedBreakpointList(MaxTemporary))
  BY <1>1, WordListCreated
<1> QED BY <1>2 DEF DbgOk, CreatedDebugger, DebuggerStatuses

LEMMA CheckedDebuggerIsOk ==
  ASSUME VmOk(vm), DbgOk(dbg)
  PROVE  DbgOk(AfterBreakCheck)
<1> DEFINE p == CheckBreakpoint(dbg.persistent, vm.pc)
           t == CheckBreakpoint(dbg.temporary, vm.pc)
<1>1. WordList(p) /\ WordList(t)
  BY WordListChecked DEF VmOk, DbgOk
<1>2. AfterBreakCheck \in {dbg, [dbg EXCEPT !.persistent = p],
                           [dbg EXCEPT !.persistent = p, !.temporary = t]}
  BY DEF AfterBreakCheck
<1> HIDE DEF p, t
<1> QED BY <1>1, <1>2 DEF DbgOk

LEMMA AnswerKeeps ==
  ASSUME VmOk(vm), DbgOk(dbg), NEW status \in DebuggerStatuses, Answers(status)
  PROVE  CommandKeeps
BY DbgReports DEF Answers, Reports, CommandKeeps

LEMMA ReportKeeps ==
  ASSUME DbgOk(dbg), NEW status \in DebuggerStatuses, Reports(status),
         VmOk(vm'), UNCHANGED crash
  PROVE  CommandKeeps
BY DbgReports DEF Reports, CommandKeeps

-----------------------------------------------------------------------------
(* What the arguments of a command are *)

CommandOk(cmd) ==
  /\ cmd.word = "w" => Tail(cmd.args) \in Seq(0 .. 255)
  /\ cmd.word \in {"pas", "pcs", "ba", "bd", "r"} => cmd.args[1] \in Word
  /\ cmd.word \in {"w", "was", "wcs"} => cmd.args[1] \in Word
  /\ cmd.word \in {"was", "wcs", "pcs"} => cmd.args[2] \in Word
  /\ cmd.word = "wcs" => cmd.args[3] \in Word

-----------------------------------------------------------------------------
(* The commands *)

(* A word put in place of another. *)
LEMMA WordReplaced ==
  ASSUME NEW s \in Seq(Word), NEW i \in 1 .. Len(s), NEW a \in Word
  PROVE  LET new == [s EXCEPT ![i] = a]
         IN  new \in Seq(Word) /\ Len(new) = Len(s)
<1> DEFINE new == [s EXCEPT ![i] = a]
<1>1. s \in [1 .. Len(s) -> Word] /\ Len(s) \in Nat
  OBVIOUS
<1>2. new \in [1 .. Len(s) -> Word]
  BY <1>1
<1> HIDE DEF new
<1>3. new \in Seq(Word)
  BY <1>1, <1>2
<1>4. DOMAIN new = 1 .. Len(s) /\ DOMAIN new = 1 .. Len(new)
      /\ Len(new) \in Nat
  BY <1>2, <1>3
<1> QED BY <1>1, <1>3, <1>4 DEF new

LEMMA StackRefilled ==
  ASSUME NEW s, SoundStack(s, Word), NEW items \in Seq(Word),
         Len(items) = Len(s.items)
  PROVE  LET r == [s EXCEPT !.items = items]
         IN  /\ SoundStack(r, Word) /\ r.items = items
             /\ r.end = s.end /\ r.max = s.max
<1> DEFINE r == [s EXCEPT !.items = items]
<1>1. r \in [items : Seq(Word), end : Nat, max : Nat \ {0},
             status : StackStatuses]
      /\ r.items = items /\ r.end = s.end /\ r.max = s.max
  BY DEF SoundStack
<1>2. StackSize(r) = StackSize(s)
  BY <1>1 DEF StackSize, Bytes
<1> QED BY <1>1, <1>2 DEF SoundStack

LEMMA WriteBytesKeeps ==
  ASSUME VmOk(vm), DbgOk(dbg), NEW cmd, CommandOk(cmd), WriteBytes(cmd)
  PROVE  CommandKeeps
<1> DEFINE address == cmd.args[1]
           bytes   == Tail(cmd.args)
           m == [a \in DOMAIN vm.memory |->
                   IF a \in address .. address + Len(bytes) - 1
                   THEN bytes[a - address + 1] ELSE vm.memory[a]]
<1>1. cmd.word = "w"
  BY DEF WriteBytes
<1>2. CASE ~HasPointer(address) \/ address + Len(bytes) > Len(Memory)
  <2>1. Answers("invalidCommand")
    BY <1>2 DEF WriteBytes
  <2> QED BY <2>1, AnswerKeeps DEF DebuggerStatuses
<1>3. CASE ~(~HasPointer(address) \/ address + Len(bytes) > Len(Memory))
  <2>1. vm' = [vm EXCEPT !.memory = m] /\ Reports("ok") /\ UNCHANGED crash
    BY <1>3 DEF WriteBytes
  <2>2. bytes \in Seq(0 .. 255) /\ address \in Word
    BY <1>1 DEF CommandOk
  <2>0. address \in Nat /\ Len(bytes) \in Nat
    <3>1. address \in Nat
      BY <2>2, WordFacts, Zenon
    <3>2. Len(bytes) \in Nat
      <4> HIDE DEF bytes
      <4> QED BY <2>2
    <3> QED BY <3>1, <3>2
  <2>3. vm.memory \in [0 .. Len(Memory) - 1 -> 0 .. 255]
    BY DEF VmOk
  <2>4. ASSUME NEW a \in 0 .. Len(Memory) - 1
        PROVE  m[a] \in 0 .. 255
    <3>1. DOMAIN vm.memory = 0 .. Len(Memory) - 1
          /\ vm.memory[a] \in 0 .. 255
      BY <2>3
    <3>2. m[a] = IF a \in address .. address + Len(bytes) - 1
                 THEN bytes[a - address + 1] ELSE vm.memory[a]
      BY <3>1
    <3> HIDE DEF m
    <3>3. CASE a \in address .. address + Len(bytes) - 1
      <4>1. a - address + 1 \in 1 .. Len(bytes)
        <5> HIDE DEF address, bytes
        <5> QED BY <2>0, <3>3
      <4> QED BY <2>2, <3>2, <3>3, <4>1, ElementOfSeq
    <3>4. CASE a \notin address .. address + Len(bytes) - 1
      BY <3>1, <3>2, <3>4
    <3> QED BY <3>3, <3>4
  <2>5. m \in [0 .. Len(Memory) - 1 -> 0 .. 255]
    <3>1. DOMAIN m = 0 .. Len(Memory) - 1
      BY <2>3
    <3>2. m = [a \in DOMAIN m |-> m[a]]
      OBVIOUS
    <3> HIDE DEF m
    <3> QED BY <2>4, <3>1, <3>2
  <2> HIDE DEF m
  <2>6. VmOk(vm')
    BY <2>1, <2>5 DEF VmOk
  <2> QED BY <2>1, <2>6, ReportKeeps DEF DebuggerStatuses
<1> QED BY <1>2, <1>3

LEMMA ModifyAddressStackKeeps ==
  ASSUME VmOk(vm), DbgOk(dbg), NEW cmd, CommandOk(cmd), ModifyAddressStack(cmd)
  PROVE  CommandKeeps
<1> DEFINE s == vm.addresses
           depth == cmd.args[1]
           i == AtDepth(s, depth)
           items == [s.items EXCEPT ![i] = cmd.args[2]]
<1>1. cmd.word = "was" /\ depth \in Word /\ cmd.args[2] \in Word
  BY DEF ModifyAddressStack, CommandOk
<1>2. CASE depth >= Len(s.items)
  <2>1. Answers("invalidCommand")
    BY <1>2 DEF ModifyAddressStack
  <2> QED BY <2>1, AnswerKeeps DEF DebuggerStatuses
<1>3. CASE ~(depth >= Len(s.items))
  <2>1. /\ vm' = [vm EXCEPT !.addresses.items =
                    [@ EXCEPT ![i] = cmd.args[2]]]
        /\ Reports("ok") /\ UNCHANGED crash
    BY <1>3 DEF ModifyAddressStack
  <2>2. SoundStack(s, Word) /\ s.items \in Seq(Word) /\ Len(s.items) \in Nat
    BY StackSizeNat DEF VmOk, SoundStack
  <2>3. depth \in Nat
    BY <1>1, WordFacts, Zenon
  <2>4. i \in 1 .. Len(s.items)
    BY <1>3, <2>2, <2>3 DEF AtDepth
  <2>5. vm' = [vm EXCEPT !.addresses = [s EXCEPT !.items = items]]
    BY <2>1, Zenon
  <2> HIDE DEF s, i
  <2>6. items \in Seq(Word) /\ Len(items) = Len(s.items)
    BY <1>1, <2>2, <2>4, WordReplaced
  <2> HIDE DEF items
  <2>7. SoundStack([s EXCEPT !.items = items], Word)
    BY <2>2, <2>6, StackRefilled
  <2>8. VmOk(vm')
    BY <2>5, <2>7, VmWithAddresses
  <2> QED BY <2>1, <2>8, ReportKeeps DEF DebuggerStatuses
<1> QED BY <1>2, <1>3

LEMMA PushAddressStackKeeps ==
  ASSUME VmOk(vm), DbgOk(dbg), NEW cmd, CommandOk(cmd), PushAddressStack(cmd)
  PROVE  CommandKeeps
<1> DEFINE a == cmd.args[1]
<1>1. a \in Word
  BY DEF PushAddressStack, CommandOk
<1>2. PICK mem \in BOOLEAN :
        LET r == PushStack(vm.addresses, <<a>>, mem)
        IN  /\ vm' = [vm EXCEPT !.addresses = r]
            /\ Reports(IF StackOk(r) THEN "ok" ELSE "executionError")
            /\ UNCHANGED crash
  BY DEF PushAddressStack
<1> HIDE DEF a
<1> DEFINE r == PushStack(vm.addresses, <<a>>, mem)
<1>3. SoundStack(r, Word)
  BY <1>1, PushWordFacts DEF VmOk
<1>4. /\ vm' = [vm EXCEPT !.addresses = r] /\ UNCHANGED crash
      /\ Reports(IF StackOk(r) THEN "ok" ELSE "executionError")
  BY <1>2
<1> HIDE DEF r
<1>5. VmOk(vm')
  BY <1>3, <1>4, VmWithAddresses
<1> QED BY <1>4, <1>5, ReportKeeps DEF DebuggerStatuses

LEMMA PopAddressStackKeeps ==
  ASSUME VmOk(vm), DbgOk(dbg), NEW cmd, PopAddressStack(cmd)
  PROVE  CommandKeeps
<1> DEFINE r == PopStack(vm.addresses, 1)
<1>1. SoundStack(r, Word)
  BY PopWordFacts DEF VmOk
<1>2. /\ vm' = [vm EXCEPT !.addresses = r] /\ UNCHANGED crash
      /\ Reports(IF StackOk(r) THEN "ok" ELSE "executionError")
  BY DEF PopAddressStack
<1> HIDE DEF r
<1>3. VmOk(vm')
  BY <1>1, <1>2, VmWithAddresses
<1> QED BY <1>2, <1>3, ReportKeeps DEF DebuggerStatuses

LEMMA ModifyCallStackKeeps ==
  ASSUME VmOk(vm), DbgOk(dbg), NEW cmd, CommandOk(cmd), ModifyCallStack(cmd)
  PROVE  CommandKeeps
<1> DEFINE s == vm.calls
           depth == cmd.args[1]
           i == AtDepth(s, 2 * depth)
           items == [s.items EXCEPT ![i - 1] = cmd.args[2],
                                    ![i] = cmd.args[3]]
           half == [s.items EXCEPT ![i - 1] = cmd.args[2]]
<1>1. /\ cmd.word = "wcs" /\ depth \in Word
      /\ cmd.args[2] \in Word /\ cmd.args[3] \in Word
  BY DEF ModifyCallStack, CommandOk
<1>2. CASE depth >= FrameCount(s)
  <2>1. Answers("invalidCommand")
    BY <1>2 DEF ModifyCallStack
  <2> QED BY <2>1, AnswerKeeps DEF DebuggerStatuses
<1>3. CASE ~(depth >= FrameCount(s))
  <2>1. /\ vm' = [vm EXCEPT !.calls.items =
                    [@ EXCEPT ![i - 1] = cmd.args[2], ![i] = cmd.args[3]]]
        /\ Reports("ok") /\ UNCHANGED crash
    BY <1>3 DEF ModifyCallStack
  <2>2. /\ FrameStack(s, Word) /\ SoundStack(s, Word)
        /\ s.items \in Seq(Word) /\ Len(s.items) \in Nat
    BY StackSizeNat DEF VmOk, FrameStack, SoundStack
  <2>3. depth \in Nat
    BY <1>1, WordFacts, Zenon
  <2>4. i \in 1 .. Len(s.items) /\ i - 1 \in 1 .. Len(s.items)
    <3> DEFINE l == Len(s.items)
    <3>0. l % 2 = 0 /\ l \in Nat
      BY <2>2 DEF FrameStack
    <3>4. ~(depth >= l \div 2)
      BY <1>3 DEF FrameCount
    <3> HIDE DEF l, depth
    <3>5. l \div 2 \in Nat
      BY <3>0
    <3>1. l % 2 = 0 /\ l \in Nat /\ depth < l \div 2
      BY <2>3, <3>0, <3>4, <3>5
    <3>2. l = 2 * (l \div 2) /\ l \div 2 \in Nat
      BY <3>1
    <3>3. l - 2 * depth \in 1 .. l /\ l - 2 * depth - 1 \in 1 .. l
      BY <2>3, <3>1, <3>2
    <3> QED BY <3>3 DEF AtDepth, l
  <2>5. vm' = [vm EXCEPT !.calls = [s EXCEPT !.items = items]]
    BY <2>1, Zenon
  <2>6. items = [half EXCEPT ![i] = cmd.args[3]]
    BY Zenon
  <2> HIDE DEF s, i, items
  <2>7. half \in Seq(Word) /\ Len(half) = Len(s.items)
    BY <1>1, <2>2, <2>4, WordReplaced
  <2> HIDE DEF half
  <2>8. items \in Seq(Word) /\ Len(items) = Len(s.items)
    BY <1>1, <2>4, <2>6, <2>7, WordReplaced
  <2> DEFINE r == [s EXCEPT !.items = items]
  <2>9. SoundStack(r, Word) /\ r.items = items /\ r.end = s.end
        /\ r.max = s.max
    BY <2>2, <2>8, StackRefilled
  <2> HIDE DEF r
  <2>10. FrameStack(r, Word)
    BY <2>2, <2>8, <2>9 DEF FrameStack
  <2>11. VmOk(vm')
    BY <2>5, <2>10, VmWithCalls DEF r
  <2> QED BY <2>1, <2>11, ReportKeeps DEF DebuggerStatuses
<1> QED BY <1>2, <1>3

LEMMA PushCallStackKeeps ==
  ASSUME VmOk(vm), DbgOk(dbg), NEW cmd, CommandOk(cmd), PushCallStack(cmd)
  PROVE  CommandKeeps
<1> DEFINE a == cmd.args[1]
           b == cmd.args[2]
           First(m) == PushStack(vm.calls, <<a>>, m)
           Second(m, n) == PushStack(First(m), <<b>>, n)
           Calls(m, n) == IF StackOk(First(m)) THEN Second(m, n) ELSE First(m)
<1>1. a \in Word /\ b \in Word
  BY DEF PushCallStack, CommandOk
<1>2. PICK m \in BOOLEAN, n \in BOOLEAN :
        /\ vm' = [vm EXCEPT !.calls = Calls(m, n)]
        /\ Reports(IF StackOk(Calls(m, n)) THEN "ok" ELSE "executionError")
        /\ UNCHANGED crash
  BY DEF PushCallStack
<1> HIDE DEF a, b
<1> DEFINE r == Calls(m, n)
<1>3. FrameStack(r, Word)
  <2>1. LET first  == PushStack(vm.calls, <<a>>, m)
            second == PushStack(first, <<b>>, n)
        IN  IF StackOk(first) THEN FrameStack(second, Word) /\ StackOk(second)
            ELSE FrameStack(first, Word)
    BY <1>1, FramePushFacts DEF VmOk
  <2> QED BY <2>1
<1>4. /\ vm' = [vm EXCEPT !.calls = r] /\ UNCHANGED crash
      /\ Reports(IF StackOk(r) THEN "ok" ELSE "executionError")
  BY <1>2
<1> HIDE DEF r
<1>5. VmOk(vm')
  BY <1>3, <1>4, VmWithCalls
<1> QED BY <1>4, <1>5, ReportKeeps DEF DebuggerStatuses

(* A frame is popped as a whole, so that there is nothing to put back. *)
LEMMA PopCallStackKeeps ==
  ASSUME VmOk(vm), DbgOk(dbg), NEW cmd, PopCallStack(cmd)
  PROVE  CommandKeeps
<1> DEFINE first  == PopStack(vm.calls, 1)
           second == PopStack(first, 1)
           r == IF StackOk(first) THEN second ELSE first
<1>1. IF StackOk(first) THEN FrameStack(second, Word) /\ StackOk(second)
      ELSE FrameStack(first, Word)
  BY FramePopFacts DEF VmOk
<1>2. /\ vm' = [vm EXCEPT !.calls = r] /\ UNCHANGED crash
      /\ Reports(IF StackOk(r) THEN "ok" ELSE "executionError")
  BY <1>1 DEF PopCallStack
<1>3. FrameStack(r, Word)
  BY <1>1
<1> HIDE DEF r
<1>4. VmOk(vm')
  BY <1>2, <1>3, VmWithCalls
<1> QED BY <1>2, <1>4, ReportKeeps DEF DebuggerStatuses

LEMMA BreakpointCommandsKeep ==
  ASSUME VmOk(vm), DbgOk(dbg), NEW cmd, CommandOk(cmd),
         AddPersistent(cmd) \/ RemovePersistent(cmd)
  PROVE  CommandKeeps
<1> DEFINE a == cmd.args[1]
<1>1. a \in Word /\ UNCHANGED <<vm, crash>>
  BY DEF AddPersistent, RemovePersistent, CommandOk
<1>2. \E p, status :
        /\ WordList(p) /\ status \in DebuggerStatuses
        /\ dbg' = [dbg EXCEPT !.persistent = p, !.status = status]
  <2>1. CASE AddPersistent(cmd)
    <3>1. PICK mem \in BOOLEAN :
            LET r == AddBreakpoint(dbg.persistent, a, mem)
            IN  dbg' = [dbg EXCEPT !.persistent = r,
                          !.status = IF r.status = "ok" THEN "ok"
                                     ELSE "executionError"]
      BY <2>1 DEF AddPersistent
    <3> DEFINE r == AddBreakpoint(dbg.persistent, a, mem)
    <3>2. WordList(r)
      <4> HIDE DEF a
      <4> QED BY <1>1, WordListAdded DEF DbgOk
    <3>3. dbg' = [dbg EXCEPT !.persistent = r,
                    !.status = IF r.status = "ok" THEN "ok"
                               ELSE "executionError"]
      BY <3>1
    <3> HIDE DEF r
    <3> QED BY <3>2, <3>3 DEF DebuggerStatuses
  <2>2. CASE RemovePersistent(cmd)
    <3> DEFINE r == RemoveBreakpoint(dbg.persistent, a)
    <3>1. WordList(r)
      <4> HIDE DEF a
      <4> QED BY <1>1, WordListRemoved DEF DbgOk
    <3>2. dbg' = [dbg EXCEPT !.persistent = r, !.status = "ok"]
      BY <2>2 DEF RemovePersistent
    <3> HIDE DEF r
    <3> QED BY <3>1, <3>2 DEF DebuggerStatuses
  <2> QED BY <2>1, <2>2
<1>3. DbgOk(dbg')
  BY <1>2 DEF DbgOk
<1> QED BY <1>1, <1>3 DEF CommandKeeps

LEMMA WithTemporaryOk ==
  ASSUME DbgOk(dbg), NEW a \in Word, NEW mem \in BOOLEAN
  PROVE  DbgOk(WithTemporary(a, mem))
<1> DEFINE t == AddBreakpoint(dbg.temporary, a, mem)
<1>1. WordList(t)
  BY WordListAdded DEF DbgOk
<1>2. WithTemporary(a, mem) = [dbg EXCEPT !.temporary = t]
  BY DEF WithTemporary
<1> HIDE DEF t
<1> QED BY <1>1, <1>2 DEF DbgOk

LEMMA DbgResumes ==
  ASSUME NEW d, DbgOk(d), NEW n \in BOOLEAN
  PROVE  DbgOk([d EXCEPT !.breakOnNext = n, !.status = "resume"])
BY DEF DbgOk, DebuggerStatuses

LEMMA RunProgramKeeps ==
  ASSUME VmOk(vm), DbgOk(dbg), NEW cmd, CommandOk(cmd), RunProgram(cmd)
  PROVE  CommandKeeps
<1> DEFINE a == cmd.args[1]
<1>1. a \in Word
  BY DEF RunProgram, CommandOk
<1>2. CASE ~IsValidVmmAddress(a)
  <2>1. Answers("invalidCommand")
    BY <1>2 DEF RunProgram
  <2> QED BY <2>1, AnswerKeeps DEF DebuggerStatuses
<1>3. CASE IsValidVmmAddress(a)
  <2>1. /\ vm' = [vm EXCEPT !.pc = a, !.status = "ok"]
        /\ dbg' = [dbg EXCEPT !.breakOnNext = FALSE, !.status = "resume"]
        /\ UNCHANGED crash
    BY <1>3 DEF RunProgram
  <2> HIDE DEF a
  <2>2. VmOk(vm')
    BY <1>1, <2>1 DEF VmOk, VmStatuses
  <2>3. DbgOk(dbg')
    BY <2>1, DbgResumes
  <2> QED BY <2>1, <2>2, <2>3 DEF CommandKeeps
<1> QED BY <1>2, <1>3

LEMMA RunUntilReturnKeeps ==
  ASSUME VmOk(vm), DbgOk(dbg), NEW cmd, RunUntilReturn(cmd)
  PROVE  CommandKeeps
<1>1. CASE vm.calls.items = <<>>
  <2>1. Answers("executionError")
    BY <1>1 DEF RunUntilReturn
  <2> QED BY <2>1, AnswerKeeps DEF DebuggerStatuses
<1>2. CASE vm.calls.items # <<>>
  <2> DEFINE a == Last(vm.calls.items)
  <2>1. PICK mem \in BOOLEAN :
          LET d == WithTemporary(a, mem)
          IN  dbg' = IF d.temporary.status = "ok"
                     THEN [d EXCEPT !.breakOnNext = FALSE, !.status = "resume"]
                     ELSE [d EXCEPT !.status = "executionError"]
    BY <1>2 DEF RunUntilReturn
  <2>2. a \in Word
    <3>1. SoundStack(vm.calls, Word) /\ vm.calls.items \in Seq(Word)
      BY DEF VmOk, FrameStack, SoundStack
    <3>2. HasWords(vm.calls, 1)
      BY <1>2, <3>1 DEF HasWords
    <3> QED BY <3>1, <3>2, LastIsWord
  <2> HIDE DEF a
  <2> DEFINE d == WithTemporary(a, mem)
  <2>3. DbgOk(d)
    BY <2>2, WithTemporaryOk
  <2>4. dbg' = IF d.temporary.status = "ok"
               THEN [d EXCEPT !.breakOnNext = FALSE, !.status = "resume"]
               ELSE [d EXCEPT !.status = "executionError"]
    BY <2>1
  <2> HIDE DEF d
  <2>5. DbgOk(dbg')
    BY <2>3, <2>4, DbgResumes, DbgReports DEF DebuggerStatuses
  <2>6. UNCHANGED <<vm, crash>>
    BY <1>2 DEF RunUntilReturn
  <2> QED BY <2>5, <2>6 DEF CommandKeeps
<1> QED BY <1>1, <1>2

LEMMA SingleStepsKeep ==
  ASSUME VmOk(vm), DbgOk(dbg), NEW cmd,
         SingleStepInto(cmd) \/ SingleStepOver(cmd)
  PROVE  CommandKeeps
<1>1. CASE SingleStepInto(cmd)
  <2>1. dbg' = [dbg EXCEPT !.breakOnNext = TRUE, !.status = "resume"]
        /\ UNCHANGED <<vm, crash>>
    BY <1>1 DEF SingleStepInto
  <2>2. DbgOk(dbg')
    BY <2>1, DbgResumes
  <2> QED BY <2>1, <2>2 DEF CommandKeeps
<1>2. CASE SingleStepOver(cmd)
  <2>1. UNCHANGED vm
    BY <1>2 DEF SingleStepOver
  <2>2. CASE ~IsValidVmmAddress(vm.pc)
    <3>1. Reports("executionError") /\ UNCHANGED crash
      BY <1>2, <2>2 DEF SingleStepOver
    <3> QED BY <2>1, <3>1, ReportKeeps DEF DebuggerStatuses
  <2>3. CASE IsValidVmmAddress(vm.pc) /\ ~HasPointer(vm.pc)
    <3>1. crash' = "nullPointer" /\ UNCHANGED dbg
      BY <1>2, <2>3 DEF SingleStepOver
    <3> QED BY <2>1, <2>3, <3>1 DEF CommandKeeps, CrashedAtPC
  <2>4. CASE IsValidVmmAddress(vm.pc) /\ HasPointer(vm.pc)
    <3> DEFINE next == WordPlus(vm.pc, InstructionSize(ByteAt(vm.pc)))
    <3>1. PICK mem \in BOOLEAN :
            LET d == IF IsValidVmmAddress(next)
                     THEN WithTemporary(next, mem) ELSE dbg
            IN  /\ dbg' = [d EXCEPT !.breakOnNext = FALSE, !.status = "resume"]
                /\ UNCHANGED crash
      BY <1>2, <2>4 DEF SingleStepOver
    <3>2. next \in Word
      <4> DEFINE size == InstructionSize(ByteAt(vm.pc))
      <4>1. size \in {1, 2, 9}
        BY DEF InstructionSize
      <4>2. vm.pc \in Nat
        BY WordFacts DEF VmOk
      <4> HIDE DEF size
      <4>3. vm.pc + size \in Nat
        BY <4>1, <4>2
      <4> QED BY <4>3, ModuloIsWord DEF WordPlus, size
    <3> HIDE DEF next
    <3> DEFINE d == IF IsValidVmmAddress(next)
                    THEN WithTemporary(next, mem) ELSE dbg
    <3>3. DbgOk(d)
      BY <3>2, WithTemporaryOk
    <3>4. dbg' = [d EXCEPT !.breakOnNext = FALSE, !.status = "resume"]
          /\ UNCHANGED crash
      BY <3>1
    <3> HIDE DEF d
    <3>5. DbgOk(dbg')
      BY <3>3, <3>4, DbgResumes
    <3> QED BY <2>1, <3>4, <3>5 DEF CommandKeeps
  <2> QED BY <2>2, <2>3, <2>4
<1> QED BY <1>1, <1>2

(* The commands that change nothing. *)
LEMMA AnsweredKeep ==
  ASSUME VmOk(vm), DbgOk(dbg), NEW cmd,
         \/ Malformed(cmd) \/ DisassembleOrDump(cmd) \/ DumpStack(cmd)
         \/ QuitVm(cmd) \/ ListOrHelp(cmd)
  PROVE  CommandKeeps
<1>1. \E status \in DebuggerStatuses : Answers(status)
  BY DEF Malformed, DisassembleOrDump, DumpStack, QuitVm, ListOrHelp,
         DebuggerStatuses
<1> QED BY <1>1, AnswerKeeps

(* hd leaves everything alone, whatever it reads. *)
LEMMA HeapDumpKeeps ==
  ASSUME VmOk(vm), DbgOk(dbg), NEW cmd, HeapDump(cmd)
  PROVE  CommandKeeps
<1>1. CASE Answers("ok") \/ Answers("executionError")
  <2>1. \E status \in DebuggerStatuses : Answers(status)
    BY <1>1 DEF DebuggerStatuses
  <2> QED BY <2>1, AnswerKeeps
<1>2. CASE HeapDumpStrays /\ crash' = "strayHeader" /\ UNCHANGED <<vm, dbg>>
  <2>1. CrashedInHeap /\ UNCHANGED vm /\ UNCHANGED dbg
    BY <1>2 DEF CrashedInHeap
  <2> QED BY <2>1 DEF CommandKeeps
<1> QED BY <1>1, <1>2 DEF HeapDump

LEMMA ExecuteKeeps ==
  ASSUME VmOk(vm), DbgOk(dbg), NEW cmd, CommandOk(cmd),
         ExecuteDebugCommand(cmd)
  PROVE  CommandKeeps
BY AnsweredKeep, HeapDumpKeeps, WriteBytesKeeps, ModifyAddressStackKeeps,
   PushAddressStackKeeps, PopAddressStackKeeps, ModifyCallStackKeeps,
   PushCallStackKeeps, PopCallStackKeeps, BreakpointCommandsKeep,
   RunProgramKeeps, RunUntilReturnKeeps, SingleStepsKeep
   DEF ExecuteDebugCommand

-----------------------------------------------------------------------------
(* What the parser makes of a line *)

LEMMA FoundSymbolFacts ==
  ASSUME NEW name \in Name, FindSymbol(Symbols, name) # NoSymbol
  PROVE  FindSymbol(Symbols, name).address \in Word
<1> DEFINE n == NumBuckets(Symbols)
           chain == ChainOf(Symbols, name)
           I == {i \in 1 .. Len(chain) : chain[i].name = name}
           link == LinkFound(Symbols, name)
           Entry == [name : Name, address : Word]
<1>1. n \in Nat \ {0}
  BY SymbolOpsAssumption, MainLoopAssumption, ElementOfSeq DEF NumBuckets
<1>2. BucketOf(Symbols, name) \in 0 .. n - 1
  <2>1. HashName(name) \in Nat
    BY SymbolOpsAssumption DEF HashName
  <2> HIDE DEF n
  <2>2. HashName(name) % n \in 0 .. n - 1
    BY <1>1, <2>1, DivisionFacts
  <2> QED BY <2>2 DEF BucketOf, n
<1>3. BucketOf(Symbols, name) \in DOMAIN Symbols.chains
  BY <1>2, MainLoopAssumption DEF ChainsSound
<1>4. chain \in Seq(Entry)
  BY <1>3, MainLoopAssumption DEF ChainOf, Word
<1>5. link = FindSymbol(Symbols, name)
  BY DEF FindSymbol
<1>6. link = IF (IF I # {} THEN Min(I) ELSE 0) # 0
             THEN chain[IF I # {} THEN Min(I) ELSE 0]
             ELSE IF chain = <<>> THEN NoSymbol ELSE Last(chain)
  BY DEF LinkFound, SelectInSeq
<1>7. link # NoSymbol
  BY <1>5
<1> HIDE DEF link, chain, Entry
<1>8. CASE I # {}
  <2>1. I \in SUBSET Nat
    OBVIOUS
  <2> HIDE DEF I
  <2>2. Min(I) \in I
    BY <1>8, <2>1, MinIsLeast
  <2>3. Min(I) \in 1 .. Len(chain)
    BY <2>2 DEF I
  <2>4. Min(I) # 0
    BY <2>3
  <2>5. link = chain[Min(I)]
    BY <1>6, <1>8, <2>4
  <2>6. link \in Entry
    BY <1>4, <2>3, <2>5, ElementOfSeq
  <2> QED BY <1>5, <2>6 DEF Entry
<1>9. CASE I = {}
  <2>1. chain # <<>> /\ link = Last(chain)
    BY <1>6, <1>7, <1>9
  <2>2. Len(chain) \in 1 .. Len(chain)
    BY <1>4, <2>1
  <2>3. link \in Entry
    BY <1>4, <2>1, <2>2, ElementOfSeq DEF Last
  <2> QED BY <1>5, <2>3 DEF Entry
<1> QED BY <1>8, <1>9

(* A number that the parser lets pass is below the largest multiple of 10. *)
LEMMA NumberOk ==
  ASSUME NEW n \in Nat, NEW max, NumberError(n, max) = "ok"
  PROVE  n \in Word /\ ~(n > max)
<1>1. ~(n >= 10 * (MaxWord \div 10)) /\ ~(n > max)
  BY DEF NumberError
<1>2. MaxWord \in Nat
  BY WordFacts
<1>3. MaxWord = 10 * (MaxWord \div 10) + (MaxWord % 10)
      /\ MaxWord \div 10 \in Nat /\ MaxWord % 10 \in 0 .. 9
  BY <1>2
<1>4. n <= MaxWord
  BY <1>1, <1>2, <1>3
<1> QED BY <1>1, <1>2, <1>4 DEF Word

LEMMA ArgumentOk ==
  ASSUME NEW word \in ArgumentWords,
         NEW type \in {"address", "uint64", "byte"},
         ArgumentError(Symbols, type, word) = "ok"
  PROVE  /\ ArgumentValue(Symbols, word) \in Word
         /\ type = "byte" => ArgumentValue(Symbols, word) \in 0 .. 255
<1>1. CASE word.kind = "number"
  <2>1. word.value \in Nat /\ ArgumentValue(Symbols, word) = word.value
    BY <1>1 DEF ArgumentWords, Other, ArgumentValue
  <2>2. PICK max : /\ NumberError(word.value, max) = "ok"
                   /\ type = "byte" => max = 255
    BY <1>1 DEF ArgumentError, AddressError, Limit
  <2>3. word.value \in Word /\ ~(word.value > max)
    BY <2>1, <2>2, NumberOk
  <2>4. type = "byte" => word.value \in 0 .. 255
    BY <2>1, <2>2, <2>3
  <2> QED BY <2>1, <2>3, <2>4
<1>2. CASE word.kind # "number"
  <2>1. type = "address" /\ AddressError(Symbols, word) = "ok"
    BY <1>2 DEF ArgumentError
  <2>2. word.kind = "symbol"
    BY <1>2, <2>1 DEF AddressError, ArgumentWords, Other
  <2>3. word.name \in Name /\ word.displacement \in Int
    BY <2>2 DEF ArgumentWords, Other
  <2>4. FindSymbol(Symbols, word.name) # NoSymbol
    BY <2>1, <2>2 DEF AddressError
  <2> DEFINE x == FindSymbol(Symbols, word.name).address + word.displacement
  <2>5. x \in Int
    <3>1. FindSymbol(Symbols, word.name).address \in Nat
      BY <2>3, <2>4, FoundSymbolFacts, WordFacts, Zenon
    <3> QED BY <2>3, <3>1
  <2>6. ArgumentValue(Symbols, word) = x % (MaxWord + 1)
    BY <2>2 DEF ArgumentValue, SymbolAddress
  <2> HIDE DEF x
  <2>7. x % (MaxWord + 1) \in Word
    BY <2>5, WordFacts DEF Word
  <2> QED BY <2>1, <2>6, <2>7
<1> QED BY <1>1, <1>2

LEMMA ValueAtIsWord ==
  ASSUME NEW words \in Seq(ArgumentWords), NEW pc \in Word, NEW spec,
         NEW i \in Nat \ {0}, spec[i].type \in {"address", "uint64"},
         spec[i].default \in {PC, Required},
         ErrorAt(Symbols, spec, words, i) = "ok"
  PROVE  ValueAt(Symbols, pc, spec, words, i) \in Word
<1>1. CASE i <= Len(words)
  <2>1. words[i] \in ArgumentWords
    BY <1>1, ElementOfSeq
  <2>2. ArgumentError(Symbols, spec[i].type, words[i]) = "ok"
    BY <1>1 DEF ErrorAt
  <2>3. ArgumentValue(Symbols, words[i]) \in Word
    BY <2>1, <2>2, ArgumentOk
  <2> QED BY <1>1, <2>3 DEF ValueAt
<1>2. CASE ~(i <= Len(words))
  <2>1. spec[i].default = PC
    BY <1>2 DEF ErrorAt
  <2> QED BY <1>2, <2>1 DEF ValueAt
<1> QED BY <1>1, <1>2

LEMMA ErrorIsOk ==
  ASSUME NEW code
  PROVE  CommandOk(ParseError(code))
BY DEF CommandOk, ParseError, Command

LEMMA ArgumentsAreOk ==
  ASSUME NEW words \in Seq(ArgumentWords), NEW pc \in Word, NEW word,
         word # "w"
  PROVE  CommandOk(ParseArguments(Symbols, pc, word, words))
<1> DEFINE spec == ArgumentsOf(word)
           Values == [i \in DOMAIN spec |->
                        ValueAt(Symbols, pc, spec, words, i)]
           cmd == ParseArguments(Symbols, pc, word, words)
<1>1. \/ \E code : cmd = ParseError(code)
      \/ /\ cmd = Command(word, Values)
         /\ \A i \in DOMAIN spec : ErrorAt(Symbols, spec, words, i) = "ok"
  BY DEF ParseArguments
<1>2. CASE \E code : cmd = ParseError(code)
  BY <1>2, ErrorIsOk
<1>3. CASE /\ cmd = Command(word, Values)
           /\ \A i \in DOMAIN spec : ErrorAt(Symbols, spec, words, i) = "ok"
  <2>1. cmd.word = word /\ cmd.args = Values
    BY <1>3 DEF Command
  <2> HIDE DEF cmd
  <2> DEFINE Wanted(i) == /\ i \in DOMAIN spec
                          /\ spec[i].type \in {"address", "uint64"}
                          /\ spec[i].default \in {PC, Required}
  <2>2. ASSUME NEW i \in {1, 2, 3}, Wanted(i)
        PROVE  cmd.args[i] \in Word
    <3>1. ErrorAt(Symbols, spec, words, i) = "ok"
      BY <1>3, <2>2
    <3>2. ValueAt(Symbols, pc, spec, words, i) \in Word
      <4>1. i \in Nat \ {0}
        BY <2>2
      <4>2. spec[i].type \in {"address", "uint64"}
            /\ spec[i].default \in {PC, Required}
        BY <2>2
      <4> HIDE DEF spec
      <4> QED BY <3>1, <4>1, <4>2, ValueAtIsWord
    <3>3. i \in DOMAIN spec
      BY <2>2
    <3>4. cmd.args[i] = ValueAt(Symbols, pc, spec, words, i)
      <4> HIDE DEF spec
      <4> QED BY <2>1, <3>3
    <3> QED BY <3>2, <3>4
  <2>3. /\ word \in {"pas", "pcs", "ba", "bd", "r", "was", "wcs"} => Wanted(1)
        /\ word \in {"was", "wcs", "pcs"} => Wanted(2)
        /\ word = "wcs" => Wanted(3)
    <3>1. CASE word \in {"ba", "bd", "r"}
      <4>1. spec = <<Argument("address", PC)>>
        BY <3>1 DEF ArgumentsOf, PlaceArguments, NoArguments
      <4>2. Wanted(1)
        <5> HIDE DEF spec
        <5> QED BY <4>1 DEF Argument
      <4> QED BY <3>1, <4>2
    <3>2. CASE word = "pas"
      <4>1. spec = <<Argument("address", Required)>>
        BY <3>2 DEF ArgumentsOf, StackArguments, NoArguments
      <4>2. Wanted(1)
        <5> HIDE DEF spec
        <5> QED BY <4>1 DEF Argument
      <4> QED BY <3>2, <4>2
    <3>3. CASE word \in {"was", "pcs"}
      <4>1. \E type \in {"address", "uint64"} :
              spec = <<Argument(type, Required), Argument("address", Required)>>
        BY <3>3 DEF ArgumentsOf, StackArguments, NoArguments
      <4>2. Wanted(1) /\ Wanted(2)
        <5> HIDE DEF spec
        <5> QED BY <4>1 DEF Argument
      <4> QED BY <3>3, <4>2
    <3>4. CASE word = "wcs"
      <4>1. spec = <<Argument("uint64", Required),
                     Argument("address", Required),
                     Argument("address", Required)>>
        BY <3>4 DEF ArgumentsOf, StackArguments, NoArguments
      <4>2. Wanted(1) /\ Wanted(2) /\ Wanted(3)
        <5> HIDE DEF spec
        <5> QED BY <4>1 DEF Argument
      <4> QED BY <3>4, <4>2
    <3> HIDE DEF Wanted
    <3> QED BY <3>1, <3>2, <3>3, <3>4
  <2> HIDE DEF Wanted
  <2>4. CommandOk(cmd)
    BY <2>1, <2>2, <2>3 DEF CommandOk
  <2> QED BY <2>4 DEF cmd
<1> QED BY <1>1, <1>2, <1>3

LEMMA WriteBytesAreOk ==
  ASSUME NEW words \in Seq(ArgumentWords)
  PROVE  CommandOk(ParseWriteBytes(Symbols, words))
<1> DEFINE Type(i) == IF i = 1 THEN "address" ELSE "byte"
           wrong == {i \in DOMAIN words :
                       ArgumentError(Symbols, Type(i), words[i]) # "ok"}
           values == [i \in DOMAIN words |-> ArgumentValue(Symbols, words[i])]
           cmd == ParseWriteBytes(Symbols, words)
<1>1. \/ \E code : cmd = ParseError(code)
      \/ cmd = Command("w", values) /\ wrong = {} /\ words # <<>>
  BY DEF ParseWriteBytes
<1>2. CASE \E code : cmd = ParseError(code)
  BY <1>2, ErrorIsOk
<1>3. CASE cmd = Command("w", values) /\ wrong = {} /\ words # <<>>
  <2>1. cmd.word = "w" /\ cmd.args = values
    BY <1>3 DEF Command
  <2>2. Len(words) \in Nat \ {0} /\ DOMAIN words = 1 .. Len(words)
    BY <1>3
  <2>3. ASSUME NEW i \in 1 .. Len(words)
        PROVE  /\ values[i] \in Word
               /\ i # 1 => values[i] \in 0 .. 255
    <3>1. words[i] \in ArgumentWords
      BY ElementOfSeq
    <3>2. ArgumentError(Symbols, Type(i), words[i]) = "ok"
      BY <1>3, <2>2
    <3>3. Type(i) \in {"address", "byte"} /\ (i # 1 => Type(i) = "byte")
      OBVIOUS
    <3> HIDE DEF Type
    <3>4. /\ ArgumentValue(Symbols, words[i]) \in Word
          /\ i # 1 => ArgumentValue(Symbols, words[i]) \in 0 .. 255
      BY <3>1, <3>2, <3>3, ArgumentOk
    <3> QED BY <2>2, <3>4
  <2>4. values \in Seq(Word) /\ Len(values) = Len(words)
    <3>1. values \in [1 .. Len(words) -> Word]
      <4>1. \A i \in 1 .. Len(words) : values[i] \in Word
        BY <2>3
      <4> QED BY <2>2, <4>1
    <3> HIDE DEF values
    <3> QED BY <2>2, <3>1
  <2> HIDE DEF values, cmd
  <2> DEFINE bytes == Tail(values)
  <2>5. /\ bytes \in Seq(Word) /\ Len(bytes) = Len(words) - 1
        /\ \A i \in 1 .. Len(bytes) : bytes[i] = values[i + 1]
    <3>1. values # <<>>
      BY <2>2, <2>4
    <3> QED BY <2>4, <3>1, HeadTailProperties
  <2> HIDE DEF bytes
  <2>6. bytes \in Seq(0 .. 255)
    <3>1. ASSUME NEW i \in 1 .. Len(bytes)
          PROVE  bytes[i] \in 0 .. 255
      <4>1. i + 1 \in 1 .. Len(words) /\ i + 1 # 1
        BY <2>2, <2>5
      <4> QED BY <2>3, <2>5, <4>1
    <3> DEFINE n == Len(bytes)
    <3>2. bytes \in [1 .. n -> 0 .. 255] /\ n \in Nat
      <4>1. bytes \in [1 .. Len(bytes) -> Word] /\ Len(bytes) \in Nat
        BY <2>5
      <4> QED BY <3>1, <4>1
    <3> HIDE DEF n
    <3> QED BY <3>2
  <2>7. cmd.args[1] \in Word
    BY <2>1, <2>2, <2>3
  <2>8. Tail(cmd.args) \in Seq(0 .. 255)
    BY <2>1, <2>6 DEF bytes
  <2>9. CommandOk(cmd)
    BY <2>1, <2>7, <2>8 DEF CommandOk
  <2> QED BY <2>9 DEF cmd
<1> QED BY <1>1, <1>2, <1>3

LEMMA ParsedCommandIsOk ==
  ASSUME NEW line \in Lines, NEW pc \in Word
  PROVE  CommandOk(ParseDebugCommand(Symbols, pc, line))
<1> DEFINE words == Tail(line)
           word == line[1]
           cmd == ParseDebugCommand(Symbols, pc, line)
<1>1. words \in Seq(ArgumentWords)
  BY MainLoopAssumption
<1> HIDE DEF words
<1>2. CASE word = "w"
  <2>1. cmd = ParseWriteBytes(Symbols, words)
    BY <1>2 DEF ParseDebugCommand, words
  <2> QED BY <1>1, <2>1, WriteBytesAreOk
<1>3. CASE word \in CommandNames \ {"w", "hd", "sym"}
  <2>1. cmd = ParseArguments(Symbols, pc, word, words) /\ word # "w"
    BY <1>3 DEF ParseDebugCommand, words
  <2> QED BY <1>1, <2>1, ArgumentsAreOk
<1>4. CASE word \in {"hd", "sym"} \/ word \notin CommandNames
  <2>1. cmd.word \in {"hd", "sym", "parseError"}
    BY <1>4 DEF ParseDebugCommand, ParseHeapDump, ParseLookupSymbol,
                ParseError, Command, CommandNames
  <2> QED BY <2>1 DEF CommandOk
<1> QED BY <1>2, <1>3, <1>4

-----------------------------------------------------------------------------
(***************************************************************************)
(* The inductive invariant.  The debugger and the machine are sound, and a *)
(* crash has left the PC, or the heap, as it was when it came to it; the   *)
(* rest is about the variables of the loop.                                *)
(***************************************************************************)
LoopOk ==
  /\ phase \in {"check", "prompt", "step", "exited"}
  /\ enterDebugger \in BOOLEAN /\ resultCode \in {0, -1, -2, -3}
  /\ typed \in 0 .. MaxCommands

MachineOk ==
  /\ VmOk(vm) /\ DbgOk(dbg)
  /\ crash \in {"none", "nullPointer", "strayHeader"} /\ CrashOnlyInTwoWays

IInv == MachineOk /\ LoopOk

LEMMA InitIsOk == Init => IInv
<1> SUFFICES ASSUME Init PROVE IInv
  OBVIOUS
<1>1. MachineOk
  <2>1. vm = LoadedVm /\ dbg = CreatedDebugger /\ crash = "none"
    BY DEF Init, DebuggerInit
  <2> QED BY <2>1, LoadedIsOk, CreatedDebuggerIsOk
          DEF MachineOk, CrashOnlyInTwoWays
<1>2. LoopOk
  <2>1. MaxCommands \in Nat
    BY MainLoopAssumption
  <2>2. phase = "check" /\ resultCode = 0 /\ typed = 0
        /\ enterDebugger = ("startInDebugger" \in switches)
    BY DEF Init
  <2> QED BY <2>1, <2>2 DEF LoopOk
<1> QED BY <1>1, <1>2 DEF IInv

LEMMA CrashUntouched ==
  ASSUME CrashOnlyInTwoWays, vm' = vm, crash' = crash
  PROVE  CrashOnlyInTwoWays'
<1>1. IsValidVmmAddress(vm.pc)' = IsValidVmmAddress(vm.pc)
      /\ HasPointer(vm.pc)' = HasPointer(vm.pc)
  BY DEF IsValidVmmAddress, HasPointer, Pointer, MemoryEnd
<1>2. HeapDumpStrays' = HeapDumpStrays
  BY DEF HeapDumpStrays, BytesRead, NextBlock, ByteAt
<1> QED BY <1>1, <1>2 DEF CrashOnlyInTwoWays

LEMMA UntouchedKeeps ==
  ASSUME MachineOk, UNCHANGED machine
  PROVE  MachineOk'
<1>1. vm' = vm /\ dbg' = dbg /\ crash' = crash
  BY DEF machine
<1>2. CrashOnlyInTwoWays'
  BY <1>1, CrashUntouched DEF MachineOk
<1>3. VmOk(vm') /\ DbgOk(dbg')
  BY <1>1 DEF MachineOk
<1> QED BY <1>1, <1>2, <1>3 DEF MachineOk

(* What a step of the machine, a command and a check of the debugger do to a
   process that is still running. *)
LEMMA MachineKeeps ==
  ASSUME MachineOk, crash = "none",
         \/ StepVm
         \/ \E line \in Lines :
              ExecuteDebugCommand(ParseDebugCommand(Symbols, vm.pc, line))
         \/ dbg' = AfterBreakCheck /\ UNCHANGED <<vm, crash>>
         \/ UNCHANGED machine
  PROVE  MachineOk'
<1> USE DEF MachineOk, CrashOnlyInTwoWays
<1>1. CASE StepVm
  BY <1>1, StepVmKeeps DEF StepKeeps
<1>2. CASE \E line \in Lines :
             ExecuteDebugCommand(ParseDebugCommand(Symbols, vm.pc, line))
  <2>1. PICK line \in Lines :
          ExecuteDebugCommand(ParseDebugCommand(Symbols, vm.pc, line))
    BY <1>2
  <2>2. vm.pc \in Word
    BY DEF VmOk
  <2>3. CommandOk(ParseDebugCommand(Symbols, vm.pc, line))
    BY <2>2, ParsedCommandIsOk
  <2>4. CommandKeeps
    BY <2>1, <2>3, ExecuteKeeps
  <2>5. CASE UNCHANGED crash
    BY <2>4, <2>5 DEF CommandKeeps
  <2>6. CASE UNCHANGED vm /\ CrashedAtPC
    BY <2>4, <2>6 DEF CommandKeeps, CrashedAtPC, IsValidVmmAddress,
                      HasPointer, Pointer, MemoryEnd
  <2>7. CASE UNCHANGED vm /\ CrashedInHeap
    <3>1. HeapDumpStrays'
      BY <2>7 DEF CrashedInHeap, HeapDumpStrays, BytesRead, NextBlock, ByteAt
    <3> QED BY <2>4, <2>7, <3>1 DEF CommandKeeps, CrashedInHeap
  <2> QED BY <2>4, <2>5, <2>6, <2>7 DEF CommandKeeps
<1>3. CASE dbg' = AfterBreakCheck /\ UNCHANGED <<vm, crash>>
  BY <1>3, CheckedDebuggerIsOk
<1>4. CASE UNCHANGED machine
  BY <1>4, UntouchedKeeps
<1> QED BY <1>1, <1>2, <1>3, <1>4

LEMMA StepIsOk == IInv /\ [Next]_vars => IInv'
<1> SUFFICES ASSUME IInv, [Next]_vars PROVE IInv'
  OBVIOUS
<1>1. MachineOk /\ LoopOk /\ MaxCommands \in Nat
  BY MainLoopAssumption DEF IInv
<1>2. CASE Check
  <2>1. crash = "none" /\ UNCHANGED <<vm, crash, resultCode, typed,
                                      enterDebugger>>
        /\ (dbg' = AfterBreakCheck \/ UNCHANGED dbg)
        /\ phase' \in {"prompt", "step"}
    BY <1>2 DEF Check, IsUnl
  <2>2. MachineOk'
    BY <1>1, <2>1, MachineKeeps DEF machine
  <2>3. LoopOk'
    BY <1>1, <2>1 DEF LoopOk
  <2> QED BY <2>2, <2>3 DEF IInv
<1>3. CASE TypeCommand
  <2>1. PICK line \in Lines :
          LET cmd == ParseDebugCommand(Symbols, vm.pc, line)
          IN  /\ IF cmd.word = "parseError" THEN UNCHANGED machine
                 ELSE ExecuteDebugCommand(cmd)
              /\ ActsOnStatus
    BY <1>3 DEF TypeCommand
  <2>2. crash = "none" /\ Types
    BY <1>3 DEF TypeCommand, IsUnl
  <2>3. MachineOk'
    BY <1>1, <2>1, <2>2, MachineKeeps
  <2>4. phase' \in {"step", "exited", "prompt"}
        /\ resultCode' \in {0, resultCode}
    BY <2>1 DEF ActsOnStatus
  <2>5. LoopOk'
    BY <1>1, <2>2, <2>4 DEF LoopOk, Types
  <2> QED BY <2>3, <2>5 DEF IInv
<1>4. CASE TypeNothing
  <2>1. crash = "none" /\ Types /\ UNCHANGED <<machine, phase, resultCode>>
    BY <1>4 DEF TypeNothing, IsUnl
  <2>2. MachineOk'
    BY <1>1, <2>1, MachineKeeps
  <2>3. LoopOk'
    BY <1>1, <2>1 DEF LoopOk, Types
  <2> QED BY <2>2, <2>3 DEF IInv
<1>5. CASE NoCommandBuffer
  <2>1. crash = "none" /\ UNCHANGED <<machine, enterDebugger, typed>>
        /\ phase' = "exited" /\ resultCode' = -3
    BY <1>5 DEF NoCommandBuffer, IsUnl
  <2>2. MachineOk'
    BY <1>1, <2>1, MachineKeeps
  <2>3. LoopOk'
    BY <1>1, <2>1 DEF LoopOk
  <2> QED BY <2>2, <2>3 DEF IInv
<1>6. CASE Step
  <2>1. crash = "none" /\ StepVm /\ UNCHANGED typed
    BY <1>6 DEF Step, IsUnl
  <2>2. MachineOk'
    BY <1>1, <2>1, MachineKeeps
  <2>3. /\ enterDebugger' \in BOOLEAN
        /\ resultCode' \in {0, -1, -2, resultCode}
        /\ phase' \in {"check", "exited"}
    <3>1. ShouldRun(vm'.status) \in BOOLEAN
      <4>1. ShouldRun(vm'.status) \in
              {"debugOnHalt" \in switches, "quitOnPanic" \notin switches,
               "quitOnFatalError" \notin switches}
        BY DEF ShouldRun
      <4>2. /\ ("debugOnHalt" \in switches) \in BOOLEAN
            /\ ("quitOnPanic" \notin switches) \in BOOLEAN
            /\ ("quitOnFatalError" \notin switches) \in BOOLEAN
        OBVIOUS
      <4> QED BY <4>1, <4>2, Zenon
    <3>2. ResultOf(vm'.status) \in {0, -1, -2}
      BY DEF ResultOf
    <3>3. CASE vm'.failed
      <4>1. /\ enterDebugger' = ShouldRun(vm'.status)
            /\ resultCode' = ResultOf(vm'.status)
            /\ phase' = IF enterDebugger' THEN "check" ELSE "exited"
        BY <1>6, <3>3 DEF Step
      <4> QED BY <3>1, <3>2, <4>1
    <3>4. CASE ~vm'.failed
      <4>1. phase' = "check" /\ UNCHANGED <<enterDebugger, resultCode>>
        BY <1>6, <3>4 DEF Step
      <4> QED BY <1>1, <4>1 DEF LoopOk
    <3> QED BY <3>3, <3>4
  <2>4. LoopOk'
    BY <1>1, <2>1, <2>3 DEF LoopOk
  <2> QED BY <2>2, <2>4 DEF IInv
<1>7. CASE ClientChecks \/ ClientSteps
  <2>1. crash = "none" /\ UNCHANGED loop
        /\ (StepVm \/ (dbg' = AfterBreakCheck /\ UNCHANGED <<vm, crash>>))
    BY <1>7 DEF ClientChecks, ClientSteps, IsClient
  <2>2. MachineOk'
    BY <1>1, <2>1, MachineKeeps
  <2>3. LoopOk'
    BY <1>1, <2>1 DEF LoopOk, loop
  <2> QED BY <2>2, <2>3 DEF IInv
<1>8. CASE ClientCommand
  <2>1. crash = "none" /\ Types /\ UNCHANGED <<phase, resultCode>>
        /\ \E line \in Lines :
             ExecuteDebugCommand(ParseDebugCommand(Symbols, vm.pc, line))
    BY <1>8 DEF ClientCommand, IsClient
  <2>2. MachineOk'
    BY <1>1, <2>1, MachineKeeps
  <2>3. LoopOk'
    BY <1>1, <2>1 DEF LoopOk, Types
  <2> QED BY <2>2, <2>3 DEF IInv
<1>9. CASE ClientClears
  <2>1. UNCHANGED <<vm, crash, loop>>
    BY <1>9 DEF ClientClears
  <2>2. DbgOk(dbg')
    <3>1. DbgOk(dbg) /\ WordList(ClearBreakpoints(dbg.temporary))
      BY <1>1, WordListCleared DEF MachineOk, DbgOk
    <3>2. CASE dbg' = [dbg EXCEPT !.temporary = ClearBreakpoints(@)]
      BY <3>1, <3>2 DEF DbgOk
    <3>3. CASE dbg' = [dbg EXCEPT !.status = "ok"]
      BY <3>1, <3>3, DbgReports DEF DebuggerStatuses
    <3> QED BY <1>9, <3>2, <3>3 DEF ClientClears
  <2>3. MachineOk'
    <3>1. vm' = vm /\ crash' = crash
      BY <2>1
    <3>2. CrashOnlyInTwoWays'
      BY <1>1, <3>1, CrashUntouched DEF MachineOk
    <3> QED BY <1>1, <3>1, <2>2, <3>2 DEF MachineOk
  <2>4. LoopOk'
    BY <1>1, <2>1 DEF LoopOk, loop
  <2> QED BY <2>3, <2>4 DEF IInv
<1>10. CASE UNCHANGED vars
  <2>1. MachineOk'
    BY <1>1, <1>10, UntouchedKeeps DEF vars
  <2>2. LoopOk'
    BY <1>1, <1>10 DEF LoopOk, vars, loop
  <2> QED BY <2>1, <2>2 DEF IInv
<1> QED BY <1>2, <1>3, <1>4, <1>5, <1>6, <1>7, <1>8, <1>9, <1>10 DEF Next

LEMMA AlwaysOk == Spec => []IInv
BY InitIsOk, StepIsOk, PTL DEF Spec

-----------------------------------------------------------------------------
(* Whatever is typed and whoever calls, the machine and the debugger have
   their types; above all, the index of the next breakpoint stays within its
   list. *)
THEOREM TypeTheorem == Spec => []TypeOK
<1>1. IInv => TypeOK
  <2> SUFFICES ASSUME IInv PROVE TypeOK
    OBVIOUS
  <2>1. /\ VmOk(vm) /\ DbgOk(dbg) /\ LoopOk
        /\ crash \in {"none", "nullPointer", "strayHeader"}
    BY DEF IInv, MachineOk
  <2>2. /\ vm.pc \in Word /\ vm.state \in {"ready", "halted", "panic"}
        /\ vm.memory \in [0 .. Len(Memory) - 1 -> 0 .. 255]
        /\ vm.status \in {"ok", "halted", "panic", "error"}
        /\ vm.failed \in BOOLEAN
    BY <2>1 DEF VmOk, VmStatuses
  <2>3. StackOfWords(vm.calls) /\ StackOfWords(vm.addresses)
    BY <2>1 DEF VmOk, FrameStack, SoundStack, StackOfWords
  <2>4. ASSUME NEW b, WordList(b)
        PROVE  BreakpointList(b)
    <3>1. b.current \in 0 .. Len(Breakpoints(b))
      BY <2>4, SoundFacts DEF WordList, Sound, CandidateSound
    <3> QED BY <2>4, <3>1 DEF WordList, Sound, BreakpointList
  <2>5. /\ BreakpointList(dbg.persistent) /\ BreakpointList(dbg.temporary)
        /\ dbg.breakOnNext \in BOOLEAN /\ dbg.status \in DebuggerStatuses
    BY <2>1, <2>4 DEF DbgOk
  <2> QED BY <2>1, <2>2, <2>3, <2>5 DEF TypeOK, LoopOk
<1> QED BY <1>1, AlwaysOk, PTL

(* brkpt.c: however the lists change and the PC jumps between the checks,
   isAtBreakpoint answers as a search of the whole list would. *)
THEOREM BreakpointNeverMissedTheorem == Spec => []BreakpointNeverMissed
<1>1. IInv => BreakpointNeverMissed
  <2> SUFFICES ASSUME IInv, NEW b \in {dbg.persistent, dbg.temporary},
                      NEW a \in 0 .. Len(Memory), a # b.lastPC
               PROVE  IsAtBreakpoint(b, a) = (a \in Range(Breakpoints(b)))
    BY DEF BreakpointNeverMissed
  <2>1. Sound(b) /\ a \in Nat
    BY WordFacts DEF IInv, MachineOk, DbgOk, WordList
  <2>2. DOMAIN Breakpoints(b) = 1 .. Len(Breakpoints(b))
    BY <2>1 DEF Sound, Ascending
  <2>3. IsAtBreakpoint(b, a) <=> a \in Range(Breakpoints(b))
    BY <2>1, <2>2, NoBreakpointMissed DEF Range
  <2>4. IsAtBreakpoint(b, a) \in BOOLEAN
    BY DEF IsAtBreakpoint, IsBreakpointAt
  <2> QED BY <2>3, <2>4
<1> QED BY <1>1, AlwaysOk, PTL

(* brkpt.c and array.c: both lists stay sorted and within their memory, and
   the index of the next breakpoint agrees with lastPC. *)
THEOREM BreakpointListsSoundTheorem == Spec => []BreakpointListsSound
<1>1. IInv => BreakpointListsSound
  <2> SUFFICES ASSUME IInv, NEW b \in {dbg.persistent, dbg.temporary}
               PROVE  /\ \A i, j \in DOMAIN Breakpoints(b) :
                           i < j => Breakpoints(b)[i] < Breakpoints(b)[j]
                      /\ ArraySound(b.array) /\ CandidateSound(b)
    BY DEF BreakpointListsSound
  <2>1. Sound(b)
    BY DEF IInv, MachineOk, DbgOk, WordList
  <2>2. DOMAIN Breakpoints(b) = 1 .. Len(Breakpoints(b))
    BY <2>1 DEF Sound, Ascending
  <2> QED BY <2>1, <2>2 DEF Sound, SoundArray, IsArray, Ascending
<1> QED BY <1>1, AlwaysOk, PTL

(* debug.c: pcs, ppcs, wcs, PCALL and RET keep whole frames on the call
   stack, also when a push finds no memory and is taken back. *)
THEOREM CallStackInFramesTheorem == Spec => []CallStackInFrames
<1>1. IInv => CallStackInFrames
  BY DEF IInv, MachineOk, VmOk, FrameStack, CallStackInFrames
<1> QED BY <1>1, AlwaysOk, PTL

(* No assertion of the debugger or of PCALL fails; a pointer is null in one
   place only, ss at an address that wraps around, and hd leaves the memory
   only where the headers it finds lead it there. *)
THEOREM CrashTheorem == Spec => []CrashOnlyInTwoWays
<1>1. IInv => CrashOnlyInTwoWays
  BY DEF IInv, MachineOk
<1> QED BY <1>1, AlwaysOk, PTL
=============================================================================
