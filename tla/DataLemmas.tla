----------------------------- MODULE DataLemmas ----------------------------
(***************************************************************************)
(* Least and greatest elements of sets of natural numbers, sums over       *)
(* finite sets, division, and definitions by recursion; and what the       *)
(* routines of array.c and symtab.c make of a sound array and a sound      *)
(* symbol table.                                                           *)
(***************************************************************************)
EXTENDS SymbolOps, ArrayOps, FiniteSetTheorems, SequenceTheorems,
        WellFoundedInduction, TLAPS

(* The order of the natural numbers, as a relation. *)
Less == {p \in Nat \X Nat : p[1] < p[2]}

LEMMA LessIsWellFounded == IsWellFoundedOn(Less, Nat)
BY NatLessThanWellFounded, Zenon DEF OpToRel, Less

LEMMA LeastExists ==
  ASSUME NEW S \in SUBSET Nat, S # {}
  PROVE  \E m \in S : \A x \in S : m <= x
<1>1. PICK m \in S : \A x \in S : <<x, m>> \notin Less
  BY LessIsWellFounded, WFMin, Zenon
<1>2. ASSUME NEW x \in S
      PROVE  m <= x
  <2>1. m \in Nat /\ x \in Nat
    OBVIOUS
  <2>2. <<x, m>> \in Nat \X Nat /\ <<x, m>>[1] = x /\ <<x, m>>[2] = m
    BY <2>1
  <2>3. ~(x < m)
    <3> SUFFICES ASSUME x < m PROVE <<x, m>> \in Less
      BY <1>1
    <3> QED BY <2>2 DEF Less
  <2> QED BY <2>1, <2>3
<1> QED BY <1>2

LEMMA GreatestExists ==
  ASSUME NEW S \in SUBSET Nat, S # {}, NEW b \in Nat, \A x \in S : x <= b
  PROVE  \E m \in S : \A x \in S : x <= m
<1> DEFINE T == {b - x : x \in S}
<1>1. T # {}
  OBVIOUS
<1>2. T \in SUBSET Nat
  <2> SUFFICES ASSUME NEW x \in S PROVE b - x \in Nat
    OBVIOUS
  <2> QED OBVIOUS
<1>3. PICK t \in T : \A y \in T : t <= y
  <2> HIDE DEF T
  <2> QED BY <1>1, <1>2, LeastExists
<1>4. PICK m \in S : t = b - m
  BY <1>3
<1>5. ASSUME NEW x \in S
      PROVE  x <= m
  <2>1. b - m <= b - x
    BY <1>3, <1>4
  <2> QED BY <2>1
<1> QED BY <1>4, <1>5

(* Min of FiniteSetsExt is the least element of a set of naturals. *)
LEMMA MinIsLeast ==
  ASSUME NEW S \in SUBSET Nat, S # {}
  PROVE  Min(S) \in S /\ \A x \in S : Min(S) <= x
<1>1. \E m \in S : \A x \in S : m <= x
  BY LeastExists
<1> QED BY <1>1 DEF Min
-----------------------------------------------------------------------------
(***************************************************************************)
(* Sums.  SumFunctionOnSet is a recursion on the subsets of a set; Sums    *)
(* are its values, which exist when the set is finite.                     *)
(***************************************************************************)
Pick(T) == CHOOSE x \in T : TRUE

AreSums(f, S, g) ==
  g = [T \in SUBSET S |->
         IF T = {} THEN 0 ELSE f[Pick(T)] + g[T \ {Pick(T)}]]

LEMMA PickFacts ==
  ASSUME NEW T, T # {}, IsFiniteSet(T)
  PROVE  /\ Pick(T) \in T /\ IsFiniteSet(T \ {Pick(T)})
         /\ Cardinality(T) \in Nat \ {0}
         /\ Cardinality(T \ {Pick(T)}) = Cardinality(T) - 1
<1>1. Pick(T) \in T
  BY DEF Pick
<1>2. Cardinality(T) \in Nat
  BY FS_CardinalityType
<1>3. Cardinality(T) # 0
  BY FS_EmptySet
<1>4. IsFiniteSet(T \ {Pick(T)})
      /\ Cardinality(T \ {Pick(T)}) = Cardinality(T) - 1
  BY <1>1, FS_RemoveElement
<1> QED BY <1>1, <1>2, <1>3, <1>4

(* The sums over the subsets of at most n elements. *)
SmallSets(S, n) == {T \in SUBSET S : Cardinality(T) <= n}

SmallSums(f, S, n) ==
  \E g : g = [T \in SmallSets(S, n) |->
                IF T = {} THEN 0 ELSE f[Pick(T)] + g[T \ {Pick(T)}]]

LEMMA SumsExist ==
  ASSUME NEW f, NEW S, IsFiniteSet(S)
  PROVE  \E g : AreSums(f, S, g)
<1>1. ASSUME NEW T \in SUBSET S
      PROVE  IsFiniteSet(T) /\ Cardinality(T) \in Nat
             /\ Cardinality(T) <= Cardinality(S)
  BY FS_Subset, FS_CardinalityType
<1>2. ASSUME NEW T \in SUBSET S, T # {}
      PROVE  /\ T \ {Pick(T)} \in SUBSET S
             /\ Cardinality(T \ {Pick(T)}) = Cardinality(T) - 1
  BY <1>1, <1>2, PickFacts
<1> DEFINE Bad == {n \in Nat : ~SmallSums(f, S, n)}
<1>3. 0 \notin Bad
  <2> DEFINE g == [T \in SmallSets(S, 0) |-> 0]
  <2>1. \A T \in SmallSets(S, 0) : T = {}
    BY <1>1, FS_EmptySet DEF SmallSets
  <2>2. g = [T \in SmallSets(S, 0) |->
               IF T = {} THEN 0 ELSE f[Pick(T)] + g[T \ {Pick(T)}]]
    BY <2>1
  <2> HIDE DEF g
  <2>3. SmallSums(f, S, 0)
    BY <2>2 DEF SmallSums
  <2> QED BY <2>3
<1>4. ASSUME NEW n \in Nat, SmallSums(f, S, n)
      PROVE  SmallSums(f, S, n + 1)
  <2>1. PICK g : g = [T \in SmallSets(S, n) |->
                 IF T = {} THEN 0 ELSE f[Pick(T)] + g[T \ {Pick(T)}]]
    BY <1>4 DEF SmallSums
  <2> DEFINE v(T) == IF T = {} THEN 0 ELSE f[Pick(T)] + g[T \ {Pick(T)}]
             k == [T \in SmallSets(S, n + 1) |-> v(T)]
  <2>2. ASSUME NEW T \in SmallSets(S, n) PROVE g[T] = v(T)
    BY <2>1
  <2>3. SmallSets(S, n) \subseteq SmallSets(S, n + 1)
    BY <1>1 DEF SmallSets
  <2>4. \A T \in SmallSets(S, n) : k[T] = g[T]
    BY <2>2, <2>3
  <2>5. ASSUME NEW T \in SmallSets(S, n + 1), T # {}
        PROVE  T \ {Pick(T)} \in SmallSets(S, n)
    <3>1. T \in SUBSET S /\ Cardinality(T) <= n + 1
      BY DEF SmallSets
    <3> QED BY <3>1, <2>5, <1>1, <1>2 DEF SmallSets
  <2>6. \A T \in SmallSets(S, n + 1) :
           k[T] = IF T = {} THEN 0 ELSE f[Pick(T)] + k[T \ {Pick(T)}]
    BY <2>4, <2>5
  <2>7. k = [T \in SmallSets(S, n + 1) |-> k[T]]
    OBVIOUS
  <2> HIDE DEF k
  <2>8. k = [T \in SmallSets(S, n + 1) |->
               IF T = {} THEN 0 ELSE f[Pick(T)] + k[T \ {Pick(T)}]]
    BY <2>6, <2>7
  <2> QED BY <2>8 DEF SmallSums
<1>5. Bad = {}
  <2> SUFFICES ASSUME Bad # {} PROVE FALSE
    OBVIOUS
  <2>1. PICK m \in Bad : \A n \in Bad : m <= n
    <3>1. Bad \in SUBSET Nat
      OBVIOUS
    <3> HIDE DEF Bad
    <3> QED BY <3>1, LeastExists
  <2>2. m - 1 \in Nat /\ m - 1 \notin Bad /\ m = (m - 1) + 1
    BY <2>1, <1>3
  <2>3. SmallSums(f, S, m - 1)
    BY <2>2
  <2>4. SmallSums(f, S, (m - 1) + 1)
    BY <2>2, <2>3, <1>4
  <2> QED BY <2>1, <2>2, <2>4
<1>6. SmallSums(f, S, Cardinality(S))
  BY <1>1, <1>5
<1>7. SmallSets(S, Cardinality(S)) = SUBSET S
  BY <1>1 DEF SmallSets
<1> QED BY <1>6, <1>7 DEF SmallSums, AreSums

(* Sums agree on the sets they share, if the summands do. *)
AgreeOn(f, e, V) == \A x \in V : f[x] = e[x]

LEMMA SumsAgree ==
  ASSUME NEW f, NEW e, NEW S, IsFiniteSet(S), NEW U, IsFiniteSet(U),
         NEW g, AreSums(f, S, g), NEW k, AreSums(e, U, k),
         NEW V \in SUBSET S, V \in SUBSET U, AgreeOn(f, e, V)
  PROVE  g[V] = k[V]
<1> DEFINE Bad == {n \in Nat : \E T \in SUBSET V :
                                 Cardinality(T) = n /\ g[T] # k[T]}
<1>0. IsFiniteSet(V)
  BY FS_Subset
<1>1. ASSUME NEW T \in SUBSET V
      PROVE  IsFiniteSet(T) /\ Cardinality(T) \in Nat
  BY <1>0, FS_Subset, FS_CardinalityType
<1>2. ASSUME NEW T \in SUBSET V, NEW n \in Nat, Cardinality(T) = n,
             n \in Bad, \A m \in Bad : n <= m
      PROVE  g[T] = k[T]
  <2>1. g[T] = IF T = {} THEN 0 ELSE f[Pick(T)] + g[T \ {Pick(T)}]
    BY DEF AreSums
  <2>2. k[T] = IF T = {} THEN 0 ELSE e[Pick(T)] + k[T \ {Pick(T)}]
    BY DEF AreSums
  <2>3. CASE T = {}
    BY <2>1, <2>2, <2>3
  <2>4. CASE T # {}
    <3>1. /\ T \ {Pick(T)} \in SUBSET V /\ Pick(T) \in V
          /\ Cardinality(T \ {Pick(T)}) = n - 1 /\ n - 1 \in Nat
      BY <1>1, <1>2, <2>4, PickFacts
    <3>2. n - 1 \notin Bad
      BY <1>2, <3>1
    <3>3. g[T \ {Pick(T)}] = k[T \ {Pick(T)}]
      BY <3>1, <3>2
    <3> QED BY <2>1, <2>2, <2>4, <3>1, <3>3 DEF AgreeOn
  <2> QED BY <2>3, <2>4
<1>3. Bad = {}
  <2> SUFFICES ASSUME Bad # {} PROVE FALSE
    OBVIOUS
  <2>1. PICK n \in Bad : \A m \in Bad : n <= m
    <3>1. Bad \in SUBSET Nat
      OBVIOUS
    <3> HIDE DEF Bad
    <3> QED BY <3>1, LeastExists
  <2> QED BY <2>1, <1>2
<1> QED BY <1>1, <1>3

LEMMA SumIsOneOfSums ==
  ASSUME NEW f, NEW S, IsFiniteSet(S)
  PROVE  \E g : AreSums(f, S, g) /\ SumFunctionOnSet(f, S) = g[S]
<1> DEFINE g == CHOOSE g : AreSums(f, S, g)
<1>1. AreSums(f, S, g)
  BY SumsExist
<1>2. SumFunctionOnSet(f, S) = g[S]
  BY Zenon DEF SumFunctionOnSet, FoldFunctionOnSet, MapThenFoldSet, AreSums, Pick
<1> QED BY <1>1, <1>2

(* The recursion, whichever element it begins with. *)
LEMMA SumOfEmpty == \A f : SumFunctionOnSet(f, {}) = 0
<1> SUFFICES ASSUME NEW f PROVE SumFunctionOnSet(f, {}) = 0
  OBVIOUS
<1>1. PICK g : AreSums(f, {}, g) /\ SumFunctionOnSet(f, {}) = g[{}]
  BY FS_EmptySet, SumIsOneOfSums
<1> QED BY <1>1 DEF AreSums

LEMMA SumPicks ==
  ASSUME NEW f, NEW S, IsFiniteSet(S), S # {}
  PROVE  SumFunctionOnSet(f, S) =
           f[Pick(S)] + SumFunctionOnSet(f, S \ {Pick(S)})
<1> DEFINE R == S \ {Pick(S)}
<1>1. IsFiniteSet(R) /\ R \in SUBSET S
  BY PickFacts
<1>2. PICK g : AreSums(f, S, g) /\ SumFunctionOnSet(f, S) = g[S]
  BY SumIsOneOfSums
<1>3. PICK k : AreSums(f, R, k) /\ SumFunctionOnSet(f, R) = k[R]
  BY <1>1, SumIsOneOfSums
<1>4. g[R] = k[R]
  <2>1. R \in SUBSET S /\ R \in SUBSET R /\ AgreeOn(f, f, R)
    BY DEF AgreeOn
  <2> HIDE DEF R
  <2> QED BY <1>1, <1>2, <1>3, <2>1, SumsAgree
<1>5. g[S] = f[Pick(S)] + g[R]
  BY <1>2 DEF AreSums
<1> QED BY <1>2, <1>3, <1>4, <1>5

LEMMA SumsAreEqual ==
  ASSUME NEW S, IsFiniteSet(S), NEW f, NEW e, \A x \in S : f[x] = e[x]
  PROVE  SumFunctionOnSet(f, S) = SumFunctionOnSet(e, S)
<1>1. PICK g : AreSums(f, S, g) /\ SumFunctionOnSet(f, S) = g[S]
  BY SumIsOneOfSums
<1>2. PICK k : AreSums(e, S, k) /\ SumFunctionOnSet(e, S) = k[S]
  BY SumIsOneOfSums
<1>3. S \in SUBSET S /\ AgreeOn(f, e, S)
  BY DEF AgreeOn
<1>4. g[S] = k[S]
  BY <1>1, <1>2, <1>3, SumsAgree
<1> QED BY <1>1, <1>2, <1>4

LEMMA SumIsNat ==
  ASSUME NEW S, IsFiniteSet(S), NEW f, \A x \in S : f[x] \in Nat
  PROVE  SumFunctionOnSet(f, S) \in Nat
<1> DEFINE Bad == {n \in Nat : \E T \in SUBSET S :
                      Cardinality(T) = n /\ SumFunctionOnSet(f, T) \notin Nat}
<1>1. ASSUME NEW T \in SUBSET S
      PROVE  IsFiniteSet(T) /\ Cardinality(T) \in Nat
  BY FS_Subset, FS_CardinalityType
<1>2. ASSUME NEW T \in SUBSET S, NEW n \in Nat, Cardinality(T) = n,
             n \in Bad, \A m \in Bad : n <= m
      PROVE  SumFunctionOnSet(f, T) \in Nat
  <2>1. CASE T = {}
    BY <2>1, SumOfEmpty
  <2>2. CASE T # {}
    <3>1. /\ T \ {Pick(T)} \in SUBSET S /\ Pick(T) \in S
          /\ Cardinality(T \ {Pick(T)}) = n - 1 /\ n - 1 \in Nat
      BY <1>1, <1>2, <2>2, PickFacts
    <3>2. n - 1 \notin Bad
      BY <1>2, <3>1
    <3>3. SumFunctionOnSet(f, T \ {Pick(T)}) \in Nat
      BY <3>1, <3>2
    <3>4. SumFunctionOnSet(f, T) =
            f[Pick(T)] + SumFunctionOnSet(f, T \ {Pick(T)})
      BY <1>1, <2>2, SumPicks
    <3> QED BY <3>1, <3>3, <3>4
  <2> QED BY <2>1, <2>2
<1>3. Bad = {}
  <2> SUFFICES ASSUME Bad # {} PROVE FALSE
    OBVIOUS
  <2>1. PICK n \in Bad : \A m \in Bad : n <= m
    <3>1. Bad \in SUBSET Nat
      OBVIOUS
    <3> HIDE DEF Bad
    <3> QED BY <3>1, LeastExists
  <2> QED BY <2>1, <1>2
<1> QED BY <1>1, <1>3

(* Any element of the set may be added first. *)
Exchanges(f, T) ==
  \A x \in T : SumFunctionOnSet(f, T) = f[x] + SumFunctionOnSet(f, T \ {x})

LEMMA ExchangeStep ==
  ASSUME NEW T, IsFiniteSet(T), NEW f, \A x \in T : f[x] \in Nat,
         \A x \in T : Exchanges(f, T \ {x})
  PROVE  Exchanges(f, T)
<1> SUFFICES ASSUME NEW x \in T
             PROVE  SumFunctionOnSet(f, T) =
                      f[x] + SumFunctionOnSet(f, T \ {x})
  BY DEF Exchanges
<1> DEFINE c == Pick(T)
           A == T \ {c}
           B == T \ {x}
           C == A \ {x}
<1>1. c \in T /\ SumFunctionOnSet(f, T) = f[c] + SumFunctionOnSet(f, A)
  BY PickFacts, SumPicks
<1>2. CASE x = c
  BY <1>1, <1>2
<1>3. CASE x # c
  <2>1. C = B \ {c} /\ x \in A /\ c \in B
    BY <1>1, <1>3
  <2>2. SumFunctionOnSet(f, A) = f[x] + SumFunctionOnSet(f, C)
    BY <1>1, <2>1 DEF Exchanges
  <2>3. SumFunctionOnSet(f, B) = f[c] + SumFunctionOnSet(f, C)
    BY <1>1, <2>1 DEF Exchanges
  <2>4. SumFunctionOnSet(f, C) \in Nat
    <3>1. IsFiniteSet(C)
      BY FS_RemoveElement
    <3>2. \A y \in C : f[y] \in Nat
      OBVIOUS
    <3> HIDE DEF C
    <3> QED BY <3>1, <3>2, SumIsNat
  <2>5. f[x] \in Nat /\ f[c] \in Nat
    BY <1>1
  <2> HIDE DEF A, C, c
  <2> QED BY <1>1, <2>2, <2>3, <2>4, <2>5
<1> QED BY <1>2, <1>3

LEMMA SumExchanges ==
  ASSUME NEW S, IsFiniteSet(S), NEW f, \A x \in S : f[x] \in Nat
  PROVE  Exchanges(f, S)
<1> DEFINE Bad == {n \in Nat : \E T \in SUBSET S :
                      Cardinality(T) = n /\ ~Exchanges(f, T)}
<1>1. ASSUME NEW T \in SUBSET S
      PROVE  IsFiniteSet(T) /\ Cardinality(T) \in Nat
  BY FS_Subset, FS_CardinalityType
<1>2. ASSUME NEW T \in SUBSET S, NEW n \in Nat, Cardinality(T) = n,
             n \in Bad, \A m \in Bad : n <= m
      PROVE  Exchanges(f, T)
  <2>1. ASSUME NEW x \in T PROVE Exchanges(f, T \ {x})
    <3>1. T \ {x} \in SUBSET S /\ Cardinality(T \ {x}) = n - 1
          /\ Cardinality(T \ {x}) \in Nat
      BY <1>1, <1>2, FS_RemoveElement
    <3>2. n - 1 \in Nat /\ n - 1 \notin Bad
      BY <1>2, <3>1
    <3> QED BY <3>1, <3>2
  <2>2. IsFiniteSet(T) /\ \A x \in T : f[x] \in Nat
    BY <1>1
  <2> QED BY <2>1, <2>2, ExchangeStep
<1>3. Bad = {}
  <2> SUFFICES ASSUME Bad # {} PROVE FALSE
    OBVIOUS
  <2>1. PICK n \in Bad : \A m \in Bad : n <= m
    <3>1. Bad \in SUBSET Nat
      OBVIOUS
    <3> HIDE DEF Bad
    <3> QED BY <3>1, LeastExists
  <2> QED BY <2>1, <1>2
<1> QED BY <1>1, <1>3

(* The sum over a set with one element more, one element less. *)
LEMMA SumFacts ==
  ASSUME NEW S, IsFiniteSet(S), NEW f, \A x \in S : f[x] \in Nat
  PROVE  /\ SumFunctionOnSet(f, S) \in Nat
         /\ \A x \in S : /\ SumFunctionOnSet(f, S \ {x}) \in Nat
                         /\ SumFunctionOnSet(f, S) =
                              f[x] + SumFunctionOnSet(f, S \ {x})
<1>1. SumFunctionOnSet(f, S) \in Nat
  BY SumIsNat
<1>2. ASSUME NEW x \in S
      PROVE  SumFunctionOnSet(f, S \ {x}) \in Nat
  <2> DEFINE R == S \ {x}
  <2>1. IsFiniteSet(R) /\ \A y \in R : f[y] \in Nat
    BY FS_RemoveElement
  <2> HIDE DEF R
  <2>2. SumFunctionOnSet(f, R) \in Nat
    BY <2>1, SumIsNat
  <2> QED BY <2>2 DEF R
<1> QED BY <1>1, <1>2, SumExchanges DEF Exchanges

-----------------------------------------------------------------------------
(* Division, and powers of two *)

LEMMA DivisionFacts ==
  ASSUME NEW a \in Nat, NEW u \in Nat \ {0}
  PROVE  /\ a = u * (a \div u) + (a % u)
         /\ a \div u \in Nat /\ a % u \in 0 .. u - 1
<1>1. a % u \in 0 .. u - 1 /\ a \div u \in Int
  OBVIOUS
<1>2. a = u * (a \div u) + (a % u)
  OBVIOUS
<1>3. a \div u >= 0
  OBVIOUS
<1> QED BY <1>1, <1>2, <1>3

LEMMA MultipleOf16 ==
  ASSUME NEW n \in Nat
  PROVE  (16 * n) % 16 = 0
OBVIOUS

LEMMA QuotientBy16 ==
  ASSUME NEW n \in Nat, n % 16 = 0
  PROVE  \E q \in Nat : n = 16 * q
<1> DEFINE q == n \div 16
           r == n % 16
<1>1. q \in Nat /\ n = 16 * q + r
  <2>1. 16 \in Nat \ {0}
    OBVIOUS
  <2> QED BY <2>1, DivisionFacts, Zenon
<1>2. r = 0
  OBVIOUS
<1> HIDE DEF q, r
<1>3. n = 16 * q
  BY <1>1, <1>2
<1> QED BY <1>1, <1>3

LEMMA ProductOf16 ==
  ASSUME NEW q \in Nat, NEW m \in Nat
  PROVE  (16 * q) * m \in Nat /\ ((16 * q) * m) % 16 = 0
<1> DEFINE x == q * m
<1>1. (16 * q) * m = 16 * x /\ x \in Nat
  OBVIOUS
<1> HIDE DEF x
<1> QED BY <1>1, MultipleOf16

LEMMA PowerOfTwo ==
  ASSUME NEW k \in 0 .. 12
  PROVE  /\ 2^k \in Nat
         /\ IF k = 0 THEN 2^k = 1 ELSE \E j \in Nat \ {0} : 2^k = 2 * j
<1>1. /\ 2^0 = 1 /\ 2^1 = 2 * 1 /\ 2^2 = 2 * 2 /\ 2^3 = 2 * 4
      /\ 2^4 = 2 * 8 /\ 2^5 = 2 * 16 /\ 2^6 = 2 * 32 /\ 2^7 = 2 * 64
      /\ 2^8 = 2 * 128 /\ 2^9 = 2 * 256 /\ 2^10 = 2 * 512
      /\ 2^11 = 2 * 1024 /\ 2^12 = 2 * 2048
  OBVIOUS
<1>2. k \in {0, 1, 2, 3, 4, 5, 6, 7, 8, 9, 10, 11, 12}
  OBVIOUS
<1>3. CASE k = 0
  BY <1>1, <1>3
<1>4. ASSUME k # 0 PROVE \E j \in Nat \ {0} : 2^k = 2 * j
  <2>1. CASE k = 1
    <3>1. 1 \in Nat \ {0} /\ 2^k = 2 * 1
      BY <1>1, <2>1
    <3> QED BY <3>1
  <2>2. CASE k = 2
    <3>1. 2 \in Nat \ {0} /\ 2^k = 2 * 2
      BY <1>1, <2>2
    <3> QED BY <3>1
  <2>3. CASE k = 3
    <3>1. 4 \in Nat \ {0} /\ 2^k = 2 * 4
      BY <1>1, <2>3
    <3> QED BY <3>1
  <2>4. CASE k = 4
    <3>1. 8 \in Nat \ {0} /\ 2^k = 2 * 8
      BY <1>1, <2>4
    <3> QED BY <3>1
  <2>5. CASE k = 5
    <3>1. 16 \in Nat \ {0} /\ 2^k = 2 * 16
      BY <1>1, <2>5
    <3> QED BY <3>1
  <2>6. CASE k = 6
    <3>1. 32 \in Nat \ {0} /\ 2^k = 2 * 32
      BY <1>1, <2>6
    <3> QED BY <3>1
  <2>7. CASE k = 7
    <3>1. 64 \in Nat \ {0} /\ 2^k = 2 * 64
      BY <1>1, <2>7
    <3> QED BY <3>1
  <2>8. CASE k = 8
    <3>1. 128 \in Nat \ {0} /\ 2^k = 2 * 128
      BY <1>1, <2>8
    <3> QED BY <3>1
  <2>9. CASE k = 9
    <3>1. 256 \in Nat \ {0} /\ 2^k = 2 * 256
      BY <1>1, <2>9
    <3> QED BY <3>1
  <2>10. CASE k = 10
    <3>1. 512 \in Nat \ {0} /\ 2^k = 2 * 512
      BY <1>1, <2>10
    <3> QED BY <3>1
  <2>11. CASE k = 11
    <3>1. 1024 \in Nat \ {0} /\ 2^k = 2 * 1024
      BY <1>1, <2>11
    <3> QED BY <3>1
  <2>12. CASE k = 12
    <3>1. 2048 \in Nat \ {0} /\ 2^k = 2 * 2048
      BY <1>1, <2>12
    <3> QED BY <3>1
  <2> QED
    BY <1>2, <1>4, <2>1, <2>2, <2>3, <2>4, <2>5, <2>6, <2>7, <2>8, <2>9,
       <2>10, <2>11, <2>12
<1>5. CASE k # 0
  <2>1. PICK j \in Nat \ {0} : 2^k = 2 * j
    BY <1>4, <1>5
  <2>2. 2 * j \in Nat
    OBVIOUS
  <2> QED BY <1>4, <1>5, <2>1, <2>2, Zenon
<1> QED BY <1>3, <1>5

-----------------------------------------------------------------------------
(***************************************************************************)
(* Definitions by recursion.  F[x][g] is the value at x, computed from the *)
(* values g has where the measure m is smaller.                            *)
(***************************************************************************)
Solves(S, m, F, g, n) == \A x \in S : m[x] < n => g[x] = F[x][g]

IsLocal(S, m, V, F) ==
  \A x \in S : \A g, h \in [S -> V] :
    (\A y \in S : m[y] < m[x] => g[y] = h[y]) => F[x][g] = F[x][h]

IsRecursion(S, m, V, F) ==
  /\ m \in [S -> Nat] /\ V # {} /\ F \in [S -> [[S -> V] -> V]]
  /\ IsLocal(S, m, V, F)

LEMMA RecursionExists ==
  ASSUME NEW S, NEW m, NEW V, NEW F, IsRecursion(S, m, V, F)
  PROVE  \E g \in [S -> V] : \A x \in S : g[x] = F[x][g]
<1> SUFFICES ASSUME m \in [S -> Nat], V # {}, F \in [S -> [[S -> V] -> V]],
                    IsLocal(S, m, V, F)
             PROVE  \E g \in [S -> V] : \A x \in S : g[x] = F[x][g]
  BY DEF IsRecursion
<1> DEFINE Has(n) == \E g \in [S -> V] : Solves(S, m, F, g, n)
           Bad == {n \in Nat : ~Has(n)}
<1>1. 0 \notin Bad
  <2>1. PICK v : v \in V
    OBVIOUS
  <2>2. [x \in S |-> v] \in [S -> V]
    BY <2>1
  <2>3. \A x \in S : ~(m[x] < 0)
    OBVIOUS
  <2> QED BY <2>2, <2>3 DEF Solves
<1>2. ASSUME NEW n \in Nat, Has(n)
      PROVE  Has(n + 1)
  <2>1. PICK g \in [S -> V] : Solves(S, m, F, g, n)
    BY <1>2
  <2> DEFINE k == [x \in S |-> F[x][g]]
  <2>2. k \in [S -> V]
    OBVIOUS
  <2>3. ASSUME NEW x \in S, m[x] < n + 1
        PROVE  k[x] = F[x][k]
    <3>1. \A y \in S : m[y] < m[x] => g[y] = k[y]
      <4> SUFFICES ASSUME NEW y \in S, m[y] < m[x] PROVE g[y] = F[y][g]
        OBVIOUS
      <4>1. m[y] < n
        BY <2>3
      <4> QED BY <2>1, <4>1 DEF Solves
    <3> HIDE DEF k
    <3>2. F[x][g] = F[x][k]
      BY <2>2, <3>1 DEF IsLocal
    <3> QED BY <3>2 DEF k
  <2> HIDE DEF k
  <2> QED BY <2>2, <2>3 DEF Solves
<1>3. \A n \in Nat : Has(n)
  <2> SUFFICES ASSUME Bad # {} PROVE FALSE
    OBVIOUS
  <2>1. PICK l \in Bad : \A n \in Bad : l <= n
    <3>1. Bad \in SUBSET Nat
      OBVIOUS
    <3> HIDE DEF Bad
    <3> QED BY <3>1, LeastExists
  <2>2. l - 1 \in Nat /\ l - 1 \notin Bad /\ l = (l - 1) + 1
    BY <2>1, <1>1
  <2> HIDE DEF Has
  <2>3. Has(l - 1)
    BY <2>2
  <2>4. Has((l - 1) + 1)
    BY <2>2, <2>3, <1>2
  <2> QED BY <2>1, <2>2, <2>4
<1>4. \A n \in Nat : \A g, h \in [S -> V] :
        Solves(S, m, F, g, n) /\ Solves(S, m, F, h, n)
          => \A z \in S : m[z] < n => g[z] = h[z]
  <2> SUFFICES ASSUME NEW n \in Nat, NEW g \in [S -> V], NEW h \in [S -> V],
                      Solves(S, m, F, g, n), Solves(S, m, F, h, n)
               PROVE  \A z \in S : m[z] < n => g[z] = h[z]
    OBVIOUS
  <2> DEFINE Differ == {m[x] : x \in {y \in S : m[y] < n /\ g[y] # h[y]}}
  <2>1. ASSUME Differ # {} PROVE FALSE
    <3>1. PICK k \in Differ : \A l \in Differ : k <= l
      <4>1. Differ \in SUBSET Nat
        OBVIOUS
      <4> HIDE DEF Differ
      <4> QED BY <2>1, <4>1, LeastExists
    <3>2. PICK x \in S : m[x] < n /\ g[x] # h[x] /\ k = m[x]
      BY <3>1
    <3>3. ASSUME NEW y \in S, m[y] < m[x]
          PROVE  g[y] = h[y]
      <4> SUFFICES ASSUME g[y] # h[y] PROVE FALSE
        OBVIOUS
      <4>1. m[y] \in Nat /\ m[x] \in Nat /\ m[y] < n
        BY <3>2, <3>3
      <4>2. m[y] \in Differ
        BY <4>1
      <4> HIDE DEF Differ
      <4> QED BY <3>1, <3>2, <3>3, <4>1, <4>2
    <3>4. F[x][g] = F[x][h]
      BY <3>3 DEF IsLocal
    <3> QED BY <3>2, <3>4 DEF Solves
  <2> SUFFICES ASSUME NEW z \in S, m[z] < n, g[z] # h[z] PROVE FALSE
    OBVIOUS
  <2>2. m[z] \in Differ
    OBVIOUS
  <2> QED BY <2>1, <2>2
<1> DEFINE At(n) == CHOOSE g \in [S -> V] : Solves(S, m, F, g, n)
           G == [x \in S |-> At(m[x] + 1)[x]]
<1>5. \A n \in Nat : At(n) \in [S -> V] /\ Solves(S, m, F, At(n), n)
  BY <1>3
<1> HIDE DEF At
<1>6. ASSUME NEW x \in S
      PROVE  G[x] = F[x][G]
  <2> DEFINE g == At(m[x] + 1)
  <2>1. m[x] \in Nat /\ g \in [S -> V] /\ Solves(S, m, F, g, m[x] + 1)
    BY <1>5
  <2> HIDE DEF g
  <2>2. G[x] = F[x][g]
    BY <2>1 DEF Solves, g
  <2>3. ASSUME NEW y \in S, m[y] < m[x]
        PROVE  g[y] = G[y]
    <3> DEFINE h == At(m[y] + 1)
    <3>1. m[y] \in Nat /\ h \in [S -> V] /\ Solves(S, m, F, h, m[y] + 1)
      BY <1>5
    <3> HIDE DEF h
    <3>2. \A z \in S : m[z] < m[y] + 1 => m[z] < m[x] + 1
      BY <2>1, <2>3, <3>1
    <3>3. Solves(S, m, F, g, m[y] + 1)
      BY <2>1, <3>2 DEF Solves
    <3>4. \A z \in S : m[z] < m[y] + 1 => g[z] = h[z]
      <4>1. m[y] + 1 \in Nat
        BY <3>1
      <4> QED BY <1>4, <2>1, <3>1, <3>3, <4>1
    <3>5. m[y] < m[y] + 1
      BY <3>1
    <3> QED BY <3>4, <3>5 DEF h
  <2>4. G \in [S -> V]
    BY <1>5
  <2> HIDE DEF G
  <2>5. F[x][g] = F[x][G]
    BY <2>1, <2>3, <2>4 DEF IsLocal
  <2> QED BY <2>2, <2>5
<1>7. G \in [S -> V]
  BY <1>5
<1> QED BY <1>6, <1>7

-----------------------------------------------------------------------------
(* Growing arrays, of elements in T that take w bytes each. *)

IsArray(a, T, w) ==
  /\ a \in [items : Seq(T), width : {w}, allocated : Nat, max : Nat,
            status : ArrayStatuses]
  /\ ArraySound(a)

LEMMA NextStorageFacts ==
  ASSUME NEW a, a.max \in Nat, NEW bytes \in Nat \ {0}, bytes <= a.max
  PROVE  /\ NextStorage(a, bytes) \in Nat
         /\ bytes <= NextStorage(a, bytes) /\ NextStorage(a, bytes) <= a.max
<1> DEFINE S == {m \in StorageSizes(a) : m >= bytes}
<1>1. StorageSizes(a) \subseteq 1 .. a.max
  BY DEF StorageSizes
<1>2. a.max \in StorageSizes(a)
  BY DEF StorageSizes
<1>3. S \in SUBSET Nat /\ S # {}
  BY <1>1, <1>2
<1>4. Min(S) \in S
  <2> HIDE DEF S
  <2> QED BY <1>3, MinIsLeast
<1>5. NextStorage(a, bytes) = Min(S)
  BY DEF NextStorage
<1> QED BY <1>1, <1>4, <1>5

LEMMA WidthDistributes ==
  ASSUME NEW w \in Nat, NEW l \in Nat, NEW n \in Nat
  PROVE  w * l + n * w = w * (l + n) /\ w * (l + n) \in Nat
OBVIOUS

(* Storage for n more elements: there, when the array says so. *)
HasStorage(a, n) == a.width * (Len(a.items) + n) <= a.allocated

LEMMA WithStorageFacts ==
  ASSUME NEW T, NEW w \in Nat \ {0}, NEW a, IsArray(a, T, w), NEW n \in Nat,
         NEW mem \in BOOLEAN
  PROVE  LET r == WithStorage(a, n, mem)
         IN  /\ IsArray(r, T, w) /\ r.items = a.items /\ r.max = a.max
             /\ ArrayOk(r) => HasStorage(r, n)
<1> DEFINE r == WithStorage(a, n, mem)
           bytes == ArraySize(a) + n * a.width
           l == Len(a.items)
<1>1. /\ a \in [items : Seq(T), width : {w}, allocated : Nat, max : Nat,
                status : ArrayStatuses]
      /\ ArraySize(a) <= a.allocated /\ a.allocated <= a.max
  BY DEF IsArray, ArraySound
<1>2. /\ a.width = w /\ a.allocated \in Nat /\ a.max \in Nat
      /\ a.items \in Seq(T) /\ l \in Nat
  BY <1>1
<1>3. ArraySize(a) = w * l /\ bytes = w * (l + n) /\ bytes \in Nat
  <2>1. ArraySize(a) = w * l /\ bytes = w * l + n * w
    BY <1>2 DEF ArraySize
  <2> HIDE DEF l, bytes
  <2> QED BY <1>2, <2>1, WidthDistributes
<1> HIDE DEF bytes, l
<1>4. TooLong(a, n) <=> bytes > a.max
  BY DEF TooLong, bytes
<1>5. r = IF TooLong(a, n) THEN ArrayFailed(a, "tooLong")
          ELSE IF bytes <= a.allocated THEN ArrayDone(a)
          ELSE IF mem THEN [a EXCEPT !.allocated = NextStorage(a, bytes),
                                     !.status = "ok"]
          ELSE ArrayFailed(a, "noMemory")
  BY DEF WithStorage, bytes
<1> HIDE DEF r
<1>6. ASSUME NEW e \in ArrayStatuses, r = [a EXCEPT !.status = e]
      PROVE  /\ IsArray(r, T, w) /\ r.items = a.items /\ r.max = a.max
             /\ r.allocated = a.allocated /\ r.status = e /\ r.width = w
  <2>1. r \in [items : {a.items}, width : {w}, allocated : {a.allocated},
               max : {a.max}, status : {e}]
    BY <1>1, <1>6
  <2> QED BY <1>1, <1>2, <1>3, <2>1 DEF IsArray, ArraySound, ArraySize
<1>7. CASE TooLong(a, n) \/ (bytes > a.allocated /\ ~mem)
  <2>1. PICK e \in {"tooLong", "noMemory"} : r = [a EXCEPT !.status = e]
    BY <1>2, <1>3, <1>5, <1>7 DEF ArrayFailed
  <2> QED BY <1>6, <2>1 DEF ArrayStatuses, ArrayOk, r
<1>8. CASE ~TooLong(a, n) /\ bytes <= a.allocated
  <2>1. r = [a EXCEPT !.status = "ok"]
    BY <1>5, <1>8 DEF ArrayDone
  <2>2. /\ IsArray(r, T, w) /\ r.items = a.items /\ r.max = a.max
        /\ r.allocated = a.allocated /\ r.width = w
    BY <1>6, <2>1 DEF ArrayStatuses
  <2> QED BY <1>3, <1>8, <2>2 DEF HasStorage, r, l
<1>9. CASE ~TooLong(a, n) /\ bytes > a.allocated /\ mem
  <2> DEFINE new == NextStorage(a, bytes)
  <2>1. new \in Nat /\ bytes <= new /\ new <= a.max
    BY <1>2, <1>3, <1>4, <1>9, NextStorageFacts
  <2>2. r = [a EXCEPT !.allocated = new, !.status = "ok"]
    BY <1>2, <1>3, <1>5, <1>9
  <2> HIDE DEF new
  <2>3. r \in [items : {a.items}, width : {w}, allocated : {new},
               max : {a.max}, status : {"ok"}]
    BY <1>1, <2>2
  <2>4. ArraySize(r) = ArraySize(a) /\ ArraySize(a) <= bytes
    BY <1>1, <1>2, <1>3, <1>9, <2>3 DEF ArraySize
  <2>5. IsArray(r, T, w)
    BY <1>2, <1>3, <2>1, <2>3, <2>4 DEF IsArray, ArraySound, ArrayStatuses
  <2> QED BY <1>3, <2>1, <2>3, <2>5 DEF HasStorage, r, l
<1> QED BY <1>2, <1>3, <1>7, <1>8, <1>9

(* appendToArray puts all of a sequence behind the elements, or nothing. *)
LEMMA AppendFacts ==
  ASSUME NEW T, NEW w \in Nat \ {0}, NEW a, IsArray(a, T, w),
         NEW seq \in Seq(T), NEW mem \in BOOLEAN
  PROVE  LET r == AppendToArray(a, seq, mem)
         IN  /\ IsArray(r, T, w) /\ r.max = a.max
             /\ seq = <<>> => r = a
             /\ seq # <<>> =>
                  r.items = IF ArrayOk(r) THEN a.items \o seq ELSE a.items
<1> DEFINE r == AppendToArray(a, seq, mem)
           n == Len(seq)
           l == Len(a.items)
           g == WithStorage(a, n, mem)
           all == a.items \o seq
<1>1. n \in Nat /\ a.items \in Seq(T) /\ l \in Nat
  BY DEF IsArray
<1>2. /\ IsArray(g, T, w) /\ g.items = a.items /\ g.max = a.max
      /\ ArrayOk(g) => HasStorage(g, n)
  <2> HIDE DEF n
  <2> QED BY <1>1, WithStorageFacts
<1>3. SubSeq(a.items, 1, l) = a.items /\ SubSeq(a.items, l + 1, l) = <<>>
  BY <1>1
<1>4. SubSeq(a.items, 1, l) \o seq \o SubSeq(a.items, l + 1, l) = all
  <2>1. all \o <<>> = all
    <3>1. all \in Seq(T)
      BY <1>1
    <3> HIDE DEF all
    <3> QED BY <3>1
  <2> QED BY <1>3, <2>1, Zenon
<1>5. all \in Seq(T) /\ Len(all) = l + n
  BY <1>1
<1>6. CASE seq = <<>>
  <2>1. r = a
    BY <1>1, <1>6 DEF AppendToArray, InsertIntoArray
  <2> QED BY <1>6, <2>1
<1>7. CASE seq # <<>> /\ ~ArrayOk(g)
  <2>1. r = g
    BY <1>1, <1>7 DEF AppendToArray, InsertIntoArray
  <2> QED BY <1>2, <1>7, <2>1
<1>8. CASE seq # <<>> /\ ArrayOk(g)
  <2>1. r = [g EXCEPT !.items = all]
    <3>1. ~(l > l)
      BY <1>1
    <3>2. r = [g EXCEPT !.items = SubSeq(@, 1, l) \o seq
                                  \o SubSeq(@, l + 1, Len(@))]
      BY <1>8, <3>1, Zenon DEF AppendToArray, InsertIntoArray
    <3> QED BY <1>2, <1>4, <3>2, Zenon
  <2>2. g \in [items : Seq(T), width : {w}, allocated : Nat, max : Nat,
               status : ArrayStatuses]
        /\ g.allocated <= g.max /\ w * (l + n) <= g.allocated
    BY <1>2, <1>8 DEF IsArray, ArraySound, HasStorage
  <2> HIDE DEF g, all, r, l, n
  <2>3. r \in [items : {all}, width : {w}, allocated : {g.allocated},
               max : {g.max}, status : {g.status}]
    BY <2>1, <2>2
  <2>4. IsArray(r, T, w)
    BY <1>5, <2>2, <2>3 DEF IsArray, ArraySound, ArraySize
  <2>5. r.items = all /\ r.max = a.max /\ ArrayOk(r)
    BY <1>2, <1>8, <2>3 DEF ArrayOk
  <2> QED BY <1>8, <2>4, <2>5 DEF r, all
<1> QED BY <1>6, <1>7, <1>8

-----------------------------------------------------------------------------
(* The symbol table *)

Entries == [name : Name \cup {NoName}, address : Nat]

(* The inductive invariant, as a predicate of a table: the list is sound, and
   there is a slot for as long as twice the slots fit. *)
SoundList(list) == list \in Seq(Entries) /\ ListSorted(list)

SoundTable(t) ==
  /\ t \in [chains : {t.chains}, size : {t.size}, list : {t.list},
             allocated : {t.allocated}, max : {t.max},
             status : {t.status}]
  /\ SoundList(t.list)
  /\ t.allocated \in Nat \ {0}
  /\ Len(t.list) <= t.allocated
  /\ t.max \in Nat /\ Len(t.list) <= t.max

-----------------------------------------------------------------------------
(* Where a symbol goes *)

LEMMA AddressesAreNat ==
  ASSUME NEW list \in Seq(Entries), NEW i \in 1 .. Len(list)
  PROVE  list[i] \in Entries /\ list[i].address \in Nat
<1>1. list[i] \in Entries
  OBVIOUS
<1>2. list[i].address \in Nat
  BY <1>1 DEF Entries
<1> QED BY <1>1, <1>2

(* In a sorted list there is a place below which all addresses are less than
   a given one, and above which none is: the CHOOSE of NumBelow. *)
LEMMA NumBelowFacts ==
  ASSUME NEW list, SoundList(list), NEW a \in Nat
  PROVE  LET n == NumBelow(list, a)
         IN  /\ n \in 0 .. Len(list)
             /\ \A i \in 1 .. n : list[i].address < a
             /\ \A i \in n + 1 .. Len(list) : a <= list[i].address
<1> DEFINE B == {n \in 0 .. Len(list) :
                   \A i \in 1 .. n : list[i].address < a}
<1>1. Len(list) \in Nat /\ a \in Nat
  BY DEF SoundList
<1>2. B \in SUBSET Nat /\ \A x \in B : x <= Len(list)
  BY <1>1
<1>3. 0 \in B
  BY <1>1
<1>4. PICK m \in B : \A x \in B : x <= m
  <2> HIDE DEF B
  <2> QED BY <1>1, <1>2, <1>3, GreatestExists
<1>5. m \in 0 .. Len(list) /\ \A i \in 1 .. m : list[i].address < a
  BY <1>4
<1>6. ASSUME NEW i \in m + 1 .. Len(list)
      PROVE  a <= list[i].address
  <2>1. m \in Nat /\ i \in 1 .. Len(list) /\ m + 1 \in 1 .. Len(list)
    BY <1>1, <1>5
  <2>2. list[i].address \in Nat /\ list[m + 1].address \in Nat
    BY <2>1, AddressesAreNat DEF SoundList
  <2>3. m + 1 \notin B
    BY <1>4, <2>1
  <2>4. ~(list[m + 1].address < a)
    <3> SUFFICES ASSUME list[m + 1].address < a PROVE m + 1 \in B
      BY <2>3
    <3>1. \A j \in 1 .. m + 1 : j \in 1 .. m \/ j = m + 1
      BY <2>1
    <3> QED BY <1>1, <1>5, <2>1, <3>1
  <2>5. list[m + 1].address <= list[i].address
    <3>1. CASE i = m + 1
      BY <2>2, <3>1
    <3>2. CASE m + 1 < i
      <4>1. i \in DOMAIN list /\ m + 1 \in DOMAIN list
        BY <2>1 DEF SoundList
      <4>2. list[m + 1].address < list[i].address
        BY <3>2, <4>1 DEF SoundList, ListSorted
      <4> QED BY <2>2, <4>2
    <3> QED BY <2>1, <3>1, <3>2
  <2> QED BY <1>1, <2>2, <2>4, <2>5
<1>7. \E n \in 0 .. Len(list) :
        /\ \A i \in 1 .. n : list[i].address < a
        /\ \A i \in n + 1 .. Len(list) : a <= list[i].address
  BY <1>5, <1>6
<1> QED BY <1>7 DEF NumBelow

(* insertIntoAddressList: a symbol whose address is not in the list goes
   where the list stays sorted. *)
LEMMA InsertedFacts ==
  ASSUME NEW list, SoundList(list), NEW s \in Entries,
         ~IsAddressIn(list, s.address)
  PROVE  LET new == Inserted(list, NumBelow(list, s.address), s)
         IN  SoundList(new) /\ Len(new) = Len(list) + 1
<1> DEFINE n == NumBelow(list, s.address)
           new == Inserted(list, n, s)
<1>1. s.address \in Nat
  BY DEF Entries
<1>2. Len(list) \in Nat /\ list \in Seq(Entries)
  BY DEF SoundList
<1>3. /\ n \in 0 .. Len(list)
      /\ \A i \in 1 .. n : list[i].address < s.address
      /\ \A i \in n + 1 .. Len(list) : s.address <= list[i].address
  BY <1>1, NumBelowFacts
<1> HIDE DEF n
<1>4. \A i \in n + 1 .. Len(list) : s.address < list[i].address
  <2> SUFFICES ASSUME NEW i \in n + 1 .. Len(list)
               PROVE  s.address < list[i].address
    OBVIOUS
  <2>1. i \in 1 .. Len(list)
    BY <1>2, <1>3
  <2>2. list[i].address \in Nat
    BY <1>2, <2>1, AddressesAreNat
  <2>3. list[i].address # s.address
    BY <2>1 DEF IsAddressIn
  <2> QED BY <1>1, <1>3, <2>2, <2>3
<1>5. /\ new = [i \in 1 .. Len(list) + 1 |->
                  IF i <= n THEN list[i]
                  ELSE IF i = n + 1 THEN s ELSE list[i - 1]]
  BY DEF Inserted
<1>6. \A i \in 1 .. Len(list) + 1 :
        /\ i <= n => new[i] = list[i] /\ i \in 1 .. n /\ i \in 1 .. Len(list)
        /\ i = n + 1 => new[i] = s
        /\ i > n + 1 => /\ new[i] = list[i - 1]
                        /\ i - 1 \in n + 1 .. Len(list)
                        /\ i - 1 \in 1 .. Len(list)
  <2> SUFFICES ASSUME NEW i \in 1 .. Len(list) + 1
               PROVE  /\ i <= n => new[i] = list[i] /\ i \in 1 .. n
                                   /\ i \in 1 .. Len(list)
                      /\ i = n + 1 => new[i] = s
                      /\ i > n + 1 => /\ new[i] = list[i - 1]
                                      /\ i - 1 \in n + 1 .. Len(list)
                                      /\ i - 1 \in 1 .. Len(list)
    OBVIOUS
  <2>1. new[i] = IF i <= n THEN list[i]
                 ELSE IF i = n + 1 THEN s ELSE list[i - 1]
    BY <1>5
  <2> QED BY <1>2, <1>3, <2>1
<1>7. \A i \in 1 .. Len(list) + 1 : new[i] \in Entries
  <2> HIDE DEF new
  <2> SUFFICES ASSUME NEW i \in 1 .. Len(list) + 1
               PROVE  new[i] \in Entries
    OBVIOUS
  <2>1. i <= n \/ i = n + 1 \/ i > n + 1
    BY <1>2, <1>3
  <2>2. \A j \in 1 .. Len(list) : list[j] \in Entries
    BY <1>2
  <2> QED BY <1>6, <2>1, <2>2
<1>8. new \in Seq(Entries) /\ Len(new) = Len(list) + 1
      /\ DOMAIN new = 1 .. Len(list) + 1
  BY <1>2, <1>5, <1>7
<1>9. ListSorted(new)
  <2> HIDE DEF new
  <2> SUFFICES ASSUME NEW i \in 1 .. Len(list) + 1,
                      NEW j \in 1 .. Len(list) + 1, i < j
               PROVE  new[i].address < new[j].address
    BY <1>8 DEF ListSorted
  <2>1. \A k, l \in 1 .. Len(list) :
          k < l => list[k].address < list[l].address
    BY <1>2 DEF SoundList, ListSorted
  <2>2. CASE j <= n
    BY <1>2, <1>3, <1>6, <2>1, <2>2
  <2>3. CASE j = n + 1
    BY <1>2, <1>3, <1>6, <2>3
  <2>4. CASE j > n + 1 /\ i = n + 1
    BY <1>2, <1>3, <1>4, <1>6, <2>4
  <2>5. CASE j > n + 1 /\ i # n + 1
    <3>1. CASE i <= n
      <4>1. i \in 1 .. Len(list) /\ j - 1 \in 1 .. Len(list) /\ i < j - 1
        BY <1>2, <1>3, <1>6, <2>5, <3>1
      <4> QED BY <1>6, <2>1, <2>5, <3>1, <4>1
    <3>2. CASE i > n + 1
      <4>1. i - 1 \in 1 .. Len(list) /\ j - 1 \in 1 .. Len(list)
            /\ i - 1 < j - 1
        BY <1>2, <1>3, <1>6, <2>5, <3>2
      <4> QED BY <1>6, <2>1, <2>5, <3>2, <4>1
    <3> QED BY <1>2, <1>3, <2>5, <3>1, <3>2
  <2> QED BY <1>2, <1>3, <2>2, <2>3, <2>4, <2>5
<1> QED BY <1>8, <1>9 DEF SoundList, n

-----------------------------------------------------------------------------
(* Searching by address *)

(* One round of the loop, with the results g for what is left to search. *)
SearchStep(list, target, r, g) ==
  LET k == (r[1] + r[2]) \div 2
  IN  IF r[1] >= r[2] THEN -r[1] - 1
      ELSE IF list[k + 1].address < target THEN g[<<k + 1, r[2]>>]
      ELSE IF target < list[k + 1].address THEN g[<<r[1], k>>]
      ELSE k

IsSearch(list, target, g) ==
  g = [r \in Ranges(list) |-> SearchStep(list, target, r, g)]

LEMMA MiddleFacts ==
  ASSUME NEW i \in Nat, NEW j \in Nat, i < j
  PROVE  LET k == (i + j) \div 2 IN k \in Nat /\ i <= k /\ k < j
OBVIOUS

LEMMA SearchExists ==
  ASSUME NEW list, Len(list) \in Nat, NEW target
  PROVE  \E g \in [Ranges(list) -> Int] : IsSearch(list, target, g)
<1> DEFINE S == Ranges(list)
           m == [r \in S |-> IF r[1] < r[2] THEN r[2] - r[1] ELSE 0]
           F == [r \in S |-> [g \in [S -> Int] |->
                               SearchStep(list, target, r, g)]]
<1>1. \A r \in S : r[1] \in 0 .. Len(list) /\ r[2] \in 0 .. Len(list)
                   /\ r[1] \in Nat /\ r[2] \in Nat
  BY DEF Ranges
<1>2. m \in [S -> Nat]
  BY <1>1
<1>3. ASSUME NEW r \in S, r[1] < r[2]
      PROVE  LET k == (r[1] + r[2]) \div 2
             IN  /\ k \in Nat
                 /\ <<k + 1, r[2]>> \in S /\ m[<<k + 1, r[2]>>] < m[r]
                 /\ <<r[1], k>> \in S /\ m[<<r[1], k>>] < m[r]
  <2> DEFINE k == (r[1] + r[2]) \div 2
  <2>1. k \in Nat /\ r[1] <= k /\ k < r[2]
    BY <1>1, <1>3, MiddleFacts
  <2> HIDE DEF k
  <2>2. k + 1 \in 0 .. Len(list) /\ k \in 0 .. Len(list)
    BY <1>1, <2>1
  <2>3. <<k + 1, r[2]>> \in S /\ <<r[1], k>> \in S
    BY <1>1, <2>2 DEF Ranges
  <2>4. m[r] = r[2] - r[1]
    BY <1>3
  <2>5. m[<<k + 1, r[2]>>] \in {0, r[2] - (k + 1)}
    BY <2>3
  <2>6. m[<<r[1], k>>] \in {0, k - r[1]}
    BY <2>3
  <2>7. m[<<k + 1, r[2]>>] < m[r] /\ m[<<r[1], k>>] < m[r]
    <3> HIDE DEF m
    <3> QED BY <1>1, <1>3, <2>1, <2>4, <2>5, <2>6
  <2> QED BY <2>1, <2>3, <2>7 DEF k
<1>4. ASSUME NEW r \in S, NEW g \in [S -> Int]
      PROVE  SearchStep(list, target, r, g) \in Int
  <2>1. CASE r[1] >= r[2]
    BY <1>1, <2>1 DEF SearchStep
  <2>2. CASE r[1] < r[2]
    <3> DEFINE k == (r[1] + r[2]) \div 2
    <3>1. k \in Nat /\ <<k + 1, r[2]>> \in S /\ <<r[1], k>> \in S
      BY <1>3, <2>2
    <3>2. ~(r[1] >= r[2])
      BY <1>1, <2>2
    <3>3. SearchStep(list, target, r, g)
            \in {g[<<k + 1, r[2]>>], g[<<r[1], k>>], k}
      BY <3>2, Zenon DEF SearchStep
    <3> HIDE DEF k, S
    <3> QED BY <3>1, <3>3
  <2> QED BY <1>1, <2>1, <2>2
<1>5. F \in [S -> [[S -> Int] -> Int]]
  BY <1>4
<1>6. IsLocal(S, m, Int, F)
  <2> SUFFICES ASSUME NEW r \in S, NEW g \in [S -> Int], NEW h \in [S -> Int],
                      \A y \in S : m[y] < m[r] => g[y] = h[y]
               PROVE  F[r][g] = F[r][h]
    BY DEF IsLocal
  <2>1. SearchStep(list, target, r, g) = SearchStep(list, target, r, h)
    <3>1. CASE r[1] >= r[2]
      BY <3>1 DEF SearchStep
    <3>2. CASE r[1] < r[2]
      <4> DEFINE k == (r[1] + r[2]) \div 2
      <4>1. g[<<k + 1, r[2]>>] = h[<<k + 1, r[2]>>]
            /\ g[<<r[1], k>>] = h[<<r[1], k>>]
        <5>1. <<k + 1, r[2]>> \in S /\ m[<<k + 1, r[2]>>] < m[r]
              /\ <<r[1], k>> \in S /\ m[<<r[1], k>>] < m[r]
          BY <1>3, <3>2
        <5> HIDE DEF m, S, k
        <5> QED BY <5>1
      <4> QED BY <4>1 DEF SearchStep
    <3> QED BY <1>1, <3>1, <3>2
  <2> QED BY <2>1
<1> HIDE DEF m
<1>7. PICK g \in [S -> Int] : \A r \in S : g[r] = F[r][g]
  <2>1. Int # {}
    OBVIOUS
  <2> HIDE DEF S, F
  <2>2. IsRecursion(S, m, Int, F)
    BY <1>2, <1>5, <1>6, <2>1 DEF IsRecursion
  <2> QED BY <2>2, RecursionExists
<1>8. \A r \in S : g[r] = SearchStep(list, target, r, g)
  BY <1>7
<1>9. g = [r \in S |-> SearchStep(list, target, r, g)]
  BY <1>7, <1>8
<1> QED BY <1>7, <1>9 DEF IsSearch

LEMMA SearchIsOne ==
  ASSUME NEW list, Len(list) \in Nat, NEW target
  PROVE  \E g : /\ BinarySearch(list, target) = g[<<0, Len(list)>>]
                /\ \A r \in Ranges(list) :
                     g[r] = SearchStep(list, target, r, g)
<1> DEFINE g == CHOOSE h : IsSearch(list, target, h)
<1>1. IsSearch(list, target, g)
  BY SearchExists
<1>2. BinarySearch(list, target) = g[<<0, Len(list)>>]
  BY DEF BinarySearch, IsSearch, SearchStep
<1> HIDE DEF g
<1>3. \A r \in Ranges(list) : g[r] = SearchStep(list, target, r, g)
  BY <1>1 DEF IsSearch
<1> QED BY <1>2, <1>3

(* An address that is in a sorted list is at the place where it belongs. *)
LEMMA AddressAtItsPlace ==
  ASSUME NEW list, SoundList(list), NEW a \in Nat
  PROVE  LET n == NumBelow(list, a)
         IN  IsAddressIn(list, a)
               <=> n + 1 \in 1 .. Len(list) /\ list[n + 1].address = a
<1> DEFINE n == NumBelow(list, a)
<1>1. /\ n \in 0 .. Len(list)
      /\ \A i \in 1 .. n : list[i].address < a
      /\ \A i \in n + 1 .. Len(list) : a <= list[i].address
  BY NumBelowFacts
<1> HIDE DEF n
<1>2. Len(list) \in Nat /\ a \in Nat /\ list \in Seq(Entries)
  BY DEF SoundList
<1>3. ASSUME NEW i \in 1 .. Len(list), list[i].address = a
      PROVE  i = n + 1
  <2>1. i \in n + 1 .. Len(list)
    <3> SUFFICES ASSUME i <= n PROVE FALSE
      BY <1>1, <1>2
    <3>1. list[i].address < a
      BY <1>1, <1>2
    <3> QED BY <1>2, <1>3, <3>1
  <2>2. n + 1 \in 1 .. Len(list) /\ n + 1 \in n + 1 .. Len(list)
    BY <1>1, <1>2, <2>1
  <2>3. a <= list[n + 1].address /\ list[n + 1].address \in Nat
    BY <1>1, <1>2, <2>2, AddressesAreNat
  <2>4. ~(n + 1 < i)
    <3> SUFFICES ASSUME n + 1 < i PROVE FALSE
      OBVIOUS
    <3>1. list[n + 1].address < list[i].address
      BY <1>2, <2>2 DEF SoundList, ListSorted
    <3> QED BY <1>2, <1>3, <2>3, <3>1
  <2> QED BY <1>1, <1>2, <2>1, <2>4
<1>4. IsAddressIn(list, a)
        <=> n + 1 \in 1 .. Len(list) /\ list[n + 1].address = a
  BY <1>3 DEF IsAddressIn
<1> QED BY <1>4 DEF n

(* The search never leaves behind the place where the address belongs. *)
LEMMA SearchFacts ==
  ASSUME NEW list, SoundList(list), NEW a \in Nat
  PROVE  LET n == NumBelow(list, a)
         IN  BinarySearch(list, a) = IF IsAddressIn(list, a) THEN n ELSE -n - 1
<1> DEFINE n == NumBelow(list, a)
           found == IsAddressIn(list, a)
           result == IF found THEN n ELSE -n - 1
           S == Ranges(list)
<1>1. /\ n \in 0 .. Len(list)
      /\ \A i \in 1 .. n : list[i].address < a
      /\ \A i \in n + 1 .. Len(list) : a <= list[i].address
  BY NumBelowFacts
<1>2. found <=> n + 1 \in 1 .. Len(list) /\ list[n + 1].address = a
  BY AddressAtItsPlace
<1>3. Len(list) \in Nat /\ a \in Nat /\ list \in Seq(Entries)
  BY DEF SoundList
<1>4. PICK g : /\ BinarySearch(list, a) = g[<<0, Len(list)>>]
               /\ \A r \in S : g[r] = SearchStep(list, a, r, g)
  BY <1>3, SearchIsOne
<1> DEFINE Holds(r) == r[1] <= n /\ n <= r[2] /\ (found => n < r[2])
           Bad == {d \in Nat : \E r \in S : /\ d = r[2] - r[1] /\ Holds(r)
                                            /\ g[r] # result}
<1> HIDE DEF n, found
<1>5. ASSUME NEW r \in S, Holds(r),
             \A q \in S : /\ Holds(q) /\ q[2] - q[1] < r[2] - r[1]
                          /\ q[2] - q[1] \in Nat
                          => g[q] = result
      PROVE  g[r] = result
  <2> DEFINE i == r[1]
             j == r[2]
             k == (i + j) \div 2
             b == list[k + 1].address
  <2>1. i \in 0 .. Len(list) /\ j \in 0 .. Len(list) /\ i \in Nat /\ j \in Nat
    BY DEF Ranges
  <2>2. g[r] = IF i >= j THEN -i - 1
               ELSE IF b < a THEN g[<<k + 1, j>>]
               ELSE IF a < b THEN g[<<i, k>>] ELSE k
    BY <1>4 DEF SearchStep
  <2>3. i <= n /\ n <= j /\ (found => n < j) /\ n \in Nat
    BY <1>1, <1>5
  <2>4. CASE i >= j
    <3>1. i = n /\ ~found
      BY <2>1, <2>3, <2>4
    <3> QED BY <2>2, <2>4, <3>1
  <2>5. CASE i < j
    <3>1. k \in Nat /\ i <= k /\ k < j
      BY <2>1, <2>5, MiddleFacts
    <3>2. k + 1 \in 1 .. Len(list) /\ k + 1 \in 0 .. Len(list)
          /\ k \in 0 .. Len(list)
      <4> HIDE DEF k
      <4> QED BY <2>1, <3>1
    <3>3. b \in Nat
      BY <1>3, <3>2, AddressesAreNat
    <3>4. <<k + 1, j>> \in S /\ <<i, k>> \in S
      BY <2>1, <3>2 DEF Ranges
    <3>5. /\ k + 1 <= n => b < a
          /\ ~(k + 1 <= n) => a <= b
      <4> HIDE DEF k
      <4>1. k + 1 <= n => k + 1 \in 1 .. n
        BY <2>3, <3>1
      <4>2. ~(k + 1 <= n) => k + 1 \in n + 1 .. Len(list)
        BY <2>3, <3>1, <3>2
      <4> QED BY <1>1, <4>1, <4>2
    <3>6. k = n /\ found => b = a
      BY <1>2
    <3>7. k # n /\ k + 1 > n => a < b
      <4> SUFFICES ASSUME k # n, k + 1 > n PROVE a < b
        OBVIOUS
      <4>1. n + 1 \in 1 .. Len(list) /\ n + 1 < k + 1
            /\ n + 1 \in n + 1 .. Len(list)
        <5> HIDE DEF k
        <5> QED BY <2>3, <3>1, <3>2
      <4>2. list[n + 1].address < b
        BY <1>3, <3>2, <4>1 DEF SoundList, ListSorted
      <4>3. a <= list[n + 1].address /\ list[n + 1].address \in Nat
        BY <1>1, <1>3, <4>1, AddressesAreNat
      <4> HIDE DEF b
      <4> QED BY <1>3, <3>3, <4>2, <4>3
    <3> HIDE DEF k, b, i, j
    <3>8. CASE b < a
      <4>1. k + 1 <= n
        BY <1>3, <3>3, <3>5, <3>8
      <4>2. Holds(<<k + 1, j>>)
        BY <2>3, <4>1
      <4>3. j - (k + 1) < j - i /\ j - (k + 1) \in Nat
        BY <2>1, <3>1
      <4>4. g[<<k + 1, j>>] = result
        BY <1>5, <3>4, <4>2, <4>3 DEF i, j
      <4> QED BY <2>2, <2>5, <2>1, <3>8, <4>4
    <3>9. CASE a < b
      <4>1. n <= k /\ (found => n < k)
        BY <1>3, <2>3, <3>1, <3>3, <3>5, <3>6, <3>9
      <4>2. Holds(<<i, k>>)
        BY <2>3, <4>1
      <4>3. k - i < j - i /\ k - i \in Nat
        BY <2>1, <3>1
      <4>4. g[<<i, k>>] = result
        BY <1>5, <3>4, <4>2, <4>3 DEF i, j
      <4> QED BY <1>3, <2>2, <2>5, <2>1, <3>3, <3>9, <4>4
    <3>10. CASE a = b
      <4>1. k = n
        BY <1>3, <2>3, <3>1, <3>3, <3>5, <3>7, <3>10
      <4>2. found
        BY <1>2, <3>2, <3>10, <4>1 DEF b
      <4> QED BY <1>3, <2>2, <2>5, <2>1, <3>3, <3>10, <4>1, <4>2
    <3> QED BY <1>3, <3>3, <3>8, <3>9, <3>10
  <2> QED BY <2>1, <2>4, <2>5
<1>6. Bad = {}
  <2> SUFFICES ASSUME Bad # {} PROVE FALSE
    OBVIOUS
  <2>1. Bad \in SUBSET Nat
    OBVIOUS
  <2>2. PICK d \in Bad : \A e \in Bad : d <= e
    <3> HIDE DEF Bad
    <3> QED BY <2>1, LeastExists
  <2>3. PICK r \in S : d = r[2] - r[1] /\ Holds(r) /\ g[r] # result
    BY <2>2
  <2>4. ASSUME NEW q \in S, Holds(q), q[2] - q[1] < r[2] - r[1],
               q[2] - q[1] \in Nat, g[q] # result
        PROVE  FALSE
    <3>1. q[2] - q[1] \in Bad
      BY <2>4
    <3>2. d \in Nat
      BY <2>1, <2>2
    <3> HIDE DEF Bad
    <3> QED BY <2>2, <2>3, <2>4, <3>1, <3>2
  <2> HIDE DEF Holds, result, Bad
  <2>5. \A q \in S : /\ Holds(q) /\ q[2] - q[1] < r[2] - r[1]
                     /\ q[2] - q[1] \in Nat
                     => g[q] = result
    BY <2>4
  <2> QED BY <1>5, <2>3, <2>5
<1>7. g[<<0, Len(list)>>] = result
  <2> DEFINE r == <<0, Len(list)>>
  <2>1. r \in S
    BY <1>3 DEF Ranges
  <2>2. Holds(r)
    BY <1>1, <1>2, <1>3
  <2>3. r[2] - r[1] \in Nat
    BY <1>3
  <2> HIDE DEF r, Holds, result
  <2> QED BY <1>6, <2>1, <2>2, <2>3 DEF r
<1> QED BY <1>4, <1>7 DEF n, found

-----------------------------------------------------------------------------
(* The routines *)

(* increaseAddressListSize makes room for a symbol as long as the table is
   not full. *)
LEMMA ListSlotsFacts ==
  ASSUME NEW t, SoundTable(t), Len(t.list) < t.max
  PROVE  ListSlots(t) \in Nat \ {0} /\ Len(t.list) + 1 <= ListSlots(t)
<1>1. /\ t.allocated \in Nat \ {0} /\ Len(t.list) \in Nat
      /\ Len(t.list) <= t.allocated /\ t.max \in Nat
  BY DEF SoundTable, SoundList
<1> QED BY <1>1 DEF ListSlots

LEMMA CreatedTableIsSound ==
  ASSUME NEW max \in Nat
  PROVE  SoundTable(CreatedTable(max))
<1> DEFINE t == CreatedTable(max)
<1>1. t.list = <<>> /\ t.allocated = InitialListSize /\ t.max = max
  BY DEF CreatedTable
<1>2. SoundList(<<>>) /\ Len(<<>>) = 0
  BY DEF SoundList, ListSorted
<1> QED BY <1>1, <1>2, SymbolOpsAssumption
        DEF SoundTable, CreatedTable

(* A rehash, or a status, leaves the list alone. *)
LEMMA OthersKeepTableSound ==
  ASSUME NEW t, SoundTable(t), NEW mem, NEW error
  PROVE  /\ SoundTable(Rehashed(t, mem)) /\ Rehashed(t, mem).list = t.list
         /\ Rehashed(t, mem).max = t.max
         /\ SoundTable(TableFailed(t, error))
         /\ TableFailed(t, error).max = t.max
<1>1. PICK n, c : Rehashed(t, mem)
                  \in {t, [t EXCEPT !.size = n, !.chains = c]}
  <2>1. \E n, c : WithMoreBuckets(t, mem)
                  \in {t, [t EXCEPT !.size = n, !.chains = c]}
    BY Zenon DEF WithMoreBuckets
  <2> QED BY <2>1 DEF Rehashed
<1>2. [t EXCEPT !.size = n, !.chains = c]
        \in [chains : {c}, size : {n}, list : {t.list},
             allocated : {t.allocated}, max : {t.max},
             status : {t.status}]
  BY DEF SoundTable
<1>3. TableFailed(t, error)
        \in [chains : {t.chains}, size : {t.size}, list : {t.list},
             allocated : {t.allocated}, max : {t.max}, status : {error}]
  BY DEF SoundTable, TableFailed
<1> QED BY <1>1, <1>2, <1>3 DEF SoundTable

LEMMA AddedTableIsSound ==
  ASSUME NEW t, SoundTable(t), NEW name \in Name, NEW a \in Nat, NEW mem
  PROVE  LET added == AddSymbol(t, name, a, mem)
         IN  SoundTable(added) /\ added.max = t.max
<1> DEFINE r == Rehashed(t, mem)
           s == Symbol(NameCopied(name, mem), a)
           new == Inserted(r.list, NumBelow(r.list, a), s)
           added == [r EXCEPT
                       !.list = new, !.allocated = ListSlots(t),
                       !.chains = Linked(r, LinkBefore(t, r, name), name, s),
                       !.status = "ok"]
<1>1. SoundTable(r) /\ r.list = t.list /\ r.max = t.max
  BY OthersKeepTableSound
<1>2. CASE \/ AddSymbol(t, name, a, mem) = TableFailed(t, "nullName")
           \/ AddSymbol(t, name, a, mem) = TableFailed(t, Refusal(t, name, a))
  BY <1>2, OthersKeepTableSound
<1>3. CASE /\ Refusal(t, name, a) = "ok"
           /\ AddSymbol(t, name, a, mem) \in {TableFailed(r, "noMemory"), added}
  <2>1. AddSymbol(t, name, a, mem) \in {TableFailed(r, "noMemory"), added}
    BY <1>3
  <2>2. SoundTable(TableFailed(r, "noMemory"))
        /\ TableFailed(r, "noMemory").max = r.max
    <3> HIDE DEF r
    <3> QED BY <1>1, OthersKeepTableSound
  <2>3. ~IsAddressIn(t.list, a) /\ ~(Len(t.list) >= t.max)
    BY <1>3 DEF Refusal
  <2>4. s \in Entries /\ s.address = a
    BY DEF Symbol, Entries, NameCopied
  <2>5. SoundList(new) /\ Len(new) = Len(t.list) + 1
    <3>1. SoundList(t.list)
      BY DEF SoundTable
    <3> QED BY <1>1, <2>3, <2>4, <3>1, InsertedFacts
  <2>6. Len(t.list) \in Nat /\ t.max \in Nat
    BY DEF SoundTable, SoundList
  <2>7. ListSlots(t) \in Nat \ {0} /\ Len(t.list) + 1 <= ListSlots(t)
    BY <2>3, <2>6, ListSlotsFacts
  <2>8. SoundTable(added) /\ added.max = r.max
    <3>1. r \in [chains : {r.chains}, size : {r.size}, list : {r.list},
                 allocated : {r.allocated}, max : {r.max},
                 status : {r.status}]
      BY <1>1 DEF SoundTable
    <3> HIDE DEF r, s, new
    <3>2. added \in [chains : {Linked(r, LinkBefore(t, r, name), name, s)},
                     size : {r.size}, list : {new},
                     allocated : {ListSlots(t)}, max : {r.max},
                     status : {"ok"}]
      BY <3>1
    <3>3. Len(new) <= ListSlots(t) /\ Len(new) <= t.max
      BY <2>3, <2>5, <2>6, <2>7
    <3> QED BY <1>1, <2>5, <2>6, <2>7, <3>2, <3>3 DEF SoundTable
  <2> HIDE DEF added, r
  <2> QED BY <1>1, <2>1, <2>2, <2>8
<1> QED BY <1>2, <1>3, Zenon DEF AddSymbol

LEMMA ClearedTableIsSound ==
  ASSUME NEW t, SoundTable(t)
  PROVE  SoundTable(ClearTable(t)) /\ ClearTable(t).max = t.max
<1>1. ClearTable(t) \in [chains : {ClearTable(t).chains}, size : {t.size},
                         list : {<<>>}, allocated : {t.allocated},
                         max : {t.max}, status : {t.status}]
  BY DEF SoundTable, ClearTable
<1>2. SoundList(<<>>) /\ Len(<<>>) = 0
  BY DEF SoundList, ListSorted
<1> QED BY <1>1, <1>2 DEF SoundTable

-----------------------------------------------------------------------------
(***************************************************************************)
(* The chains of the hash table.  In n buckets every symbol that has a name*)
(* is in the bucket of its hash code, and no name is in a chain twice, nor *)
(* are two symbols without one.                                            *)
(***************************************************************************)
Distinct(s) ==
  \A i, j \in 1 .. Len(s) : s[i].name = s[j].name => i = j

Bucket(name, n) == HashName(name) % n
InBucket(s, n, b) == s.name # NoName => Bucket(s.name, n) = b

Chained(chains, n) ==
  /\ chains \in [0 .. n - 1 -> Seq(Entries)]
  /\ \A b \in 0 .. n - 1 :
       /\ Distinct(chains[b])
       /\ \A i \in 1 .. Len(chains[b]) : InBucket(chains[b][i], n, b)

(* The symbols of the chains, and whether one of a set has a name. *)
Elements(chains) == UNION {SymbolsIn(chains[b]) : b \in DOMAIN chains}
HasName(S, name) == \E s \in S : s.name = name

LEMMA SymbolsInFacts ==
  ASSUME NEW s \in Seq(Entries), NEW x
  PROVE  /\ x \in SymbolsIn(s) <=> \E i \in 1 .. Len(s) : s[i] = x
         /\ x \in SymbolsIn(s) => x \in Entries
<1>1. DOMAIN s = 1 .. Len(s) /\ \A i \in 1 .. Len(s) : s[i] \in Entries
  OBVIOUS
<1> QED BY <1>1 DEF SymbolsIn

LEMMA BucketFacts ==
  ASSUME NEW n \in Nat \ {0}, NEW name \in Name
  PROVE  Bucket(name, n) \in 0 .. n - 1
<1>1. HashName(name) \in Nat
  BY SymbolOpsAssumption DEF HashName
<1> QED BY <1>1, DivisionFacts DEF Bucket

(* Two sequences without a name in common. *)
LEMMA ConcatDistinct ==
  ASSUME NEW s \in Seq(Entries), NEW t \in Seq(Entries),
         Distinct(s), Distinct(t),
         \A x \in SymbolsIn(s) : ~HasName(SymbolsIn(t), x.name)
  PROVE  /\ s \o t \in Seq(Entries) /\ Distinct(s \o t)
         /\ SymbolsIn(s \o t) = SymbolsIn(s) \cup SymbolsIn(t)
<1> DEFINE u == s \o t
<1>1. /\ u \in Seq(Entries) /\ Len(u) = Len(s) + Len(t)
      /\ Len(s) \in Nat /\ Len(t) \in Nat
      /\ \A i \in 1 .. Len(u) :
           u[i] = IF i <= Len(s) THEN s[i] ELSE t[i - Len(s)]
  BY ConcatProperties
<1> HIDE DEF u
<1>2. \A i \in 1 .. Len(u) :
        /\ i <= Len(s) => i \in 1 .. Len(s) /\ u[i] = s[i]
        /\ ~(i <= Len(s)) => /\ i - Len(s) \in 1 .. Len(t)
                             /\ u[i] = t[i - Len(s)]
  BY <1>1
<1>3. \A i \in 1 .. Len(s) : \A j \in 1 .. Len(t) : s[i].name # t[j].name
  BY SymbolsInFacts DEF HasName
<1>4. Distinct(u)
  <2> SUFFICES ASSUME NEW i \in 1 .. Len(u), NEW j \in 1 .. Len(u),
                      u[i].name = u[j].name
               PROVE  i = j
    BY DEF Distinct
  <2>1. CASE i <= Len(s) /\ j <= Len(s)
    BY <1>2, <2>1 DEF Distinct
  <2>2. CASE ~(i <= Len(s)) /\ ~(j <= Len(s))
    <3> DEFINE k == i - Len(s)
               l == j - Len(s)
    <3>1. k \in 1 .. Len(t) /\ l \in 1 .. Len(t) /\ u[i] = t[k] /\ u[j] = t[l]
      BY <1>2, <2>2
    <3>2. k = l
      <4> HIDE DEF k, l
      <4> QED BY <3>1 DEF Distinct
    <3> QED BY <1>1, <3>2
  <2>3. CASE i <= Len(s) /\ ~(j <= Len(s))
    BY <1>2, <1>3, <2>3
  <2>4. CASE ~(i <= Len(s)) /\ j <= Len(s)
    BY <1>2, <1>3, <2>4
  <2> QED BY <2>1, <2>2, <2>3, <2>4
<1>5. SymbolsIn(u) = SymbolsIn(s) \cup SymbolsIn(t)
  <2>1. ASSUME NEW x \in SymbolsIn(u)
        PROVE  x \in SymbolsIn(s) \cup SymbolsIn(t)
    <3>1. PICK i \in 1 .. Len(u) : u[i] = x
      BY <1>1, SymbolsInFacts
    <3> QED BY <1>2, <3>1, SymbolsInFacts
  <2>2. ASSUME NEW x \in SymbolsIn(s)
        PROVE  x \in SymbolsIn(u)
    <3>1. PICK i \in 1 .. Len(s) : s[i] = x
      BY SymbolsInFacts
    <3>2. i \in 1 .. Len(u) /\ u[i] = x
      BY <1>1, <3>1
    <3> QED BY <1>1, <3>2, SymbolsInFacts
  <2>3. ASSUME NEW x \in SymbolsIn(t)
        PROVE  x \in SymbolsIn(u)
    <3>1. PICK i \in 1 .. Len(t) : t[i] = x
      BY SymbolsInFacts
    <3>2. i + Len(s) \in 1 .. Len(u) /\ ~(i + Len(s) <= Len(s))
          /\ (i + Len(s)) - Len(s) = i
      BY <1>1, <3>1
    <3>3. u[i + Len(s)] = x
      BY <1>2, <3>1, <3>2
    <3> QED BY <1>1, <3>2, <3>3, SymbolsInFacts
  <2> QED BY <2>1, <2>2, <2>3
<1> QED BY <1>1, <1>4, <1>5 DEF u

LEMMA OneSymbol ==
  ASSUME NEW s \in Entries
  PROVE  <<s>> \in Seq(Entries) /\ Distinct(<<s>>) /\ SymbolsIn(<<s>>) = {s}
         /\ Len(<<s>>) = 1
<1> DEFINE o == <<s>>
<1>1. o \in Seq(Entries) /\ Len(o) = 1 /\ o[1] = s
  OBVIOUS
<1> HIDE DEF o
<1>2. \A i \in 1 .. Len(o) : i = 1
  BY <1>1
<1>3. Distinct(o)
  BY <1>2 DEF Distinct
<1>4. \A x : x \in SymbolsIn(o) <=> x = s
  BY <1>1, <1>2, SymbolsInFacts
<1> QED BY <1>1, <1>3, <1>4 DEF o

LEMMA ElementsFacts ==
  ASSUME NEW n \in Nat, NEW chains, Chained(chains, n), NEW x
  PROVE  /\ x \in Elements(chains)
              <=> \E b \in 0 .. n - 1 : \E i \in 1 .. Len(chains[b]) :
                    chains[b][i] = x
         /\ x \in Elements(chains) =>
              /\ x \in Entries
              /\ x.name # NoName =>
                   /\ Bucket(x.name, n) \in 0 .. n - 1
                   /\ x \in SymbolsIn(chains[Bucket(x.name, n)])
<1>1. DOMAIN chains = 0 .. n - 1
      /\ \A b \in 0 .. n - 1 : chains[b] \in Seq(Entries)
  BY DEF Chained
<1>2. x \in Elements(chains)
        <=> \E b \in 0 .. n - 1 : \E i \in 1 .. Len(chains[b]) :
              chains[b][i] = x
  <2>1. x \in Elements(chains)
          <=> \E b \in 0 .. n - 1 : x \in SymbolsIn(chains[b])
    BY <1>1 DEF Elements
  <2>2. \A b \in 0 .. n - 1 :
          x \in SymbolsIn(chains[b])
            <=> \E i \in 1 .. Len(chains[b]) : chains[b][i] = x
    BY <1>1, SymbolsInFacts
  <2> QED BY <2>1, <2>2
<1>3. ASSUME x \in Elements(chains)
      PROVE  /\ x \in Entries
             /\ x.name # NoName =>
                  /\ Bucket(x.name, n) \in 0 .. n - 1
                  /\ x \in SymbolsIn(chains[Bucket(x.name, n)])
  <2>1. PICK b \in 0 .. n - 1 : \E i \in 1 .. Len(chains[b]) :
              chains[b][i] = x
    BY <1>2, <1>3
  <2>2. x.name # NoName => Bucket(x.name, n) = b
    BY <2>1 DEF Chained, InBucket
  <2> QED BY <1>1, <2>1, <2>2, SymbolsInFacts
<1> QED BY <1>2, <1>3

(* A symbol put at either end of the chain of a bucket. *)
WithLink(chains, b, s, r) ==
  \/ r = [chains EXCEPT ![b] = <<s>> \o chains[b]]
  \/ r = [chains EXCEPT ![b] = chains[b] \o <<s>>]

LEMMA ChainExtended ==
  ASSUME NEW n \in Nat \ {0}, NEW chains, Chained(chains, n),
         NEW h \in 0 .. n - 1, NEW s \in Entries, InBucket(s, n, h),
         ~HasName(SymbolsIn(chains[h]), s.name),
         NEW r, WithLink(chains, h, s, r)
  PROVE  Chained(r, n) /\ Elements(r) = Elements(chains) \cup {s}
<1> DEFINE c == chains[h]
           one == <<s>>
<1>1. h \in 0 .. n - 1
  OBVIOUS
<1>2. /\ chains \in [0 .. n - 1 -> Seq(Entries)]
      /\ c \in Seq(Entries) /\ Distinct(c)
      /\ \A i \in 1 .. Len(c) : InBucket(c[i], n, h)
  BY <1>1 DEF Chained
<1>3. ~HasName(SymbolsIn(c), s.name)
  OBVIOUS
<1>4. one \in Seq(Entries) /\ Distinct(one) /\ SymbolsIn(one) = {s}
  BY OneSymbol
<1>5. PICK new : /\ r = [chains EXCEPT ![h] = new]
                 /\ new = one \o c \/ new = c \o one
  BY DEF WithLink
<1> HIDE DEF c, one
<1>6. new \in Seq(Entries) /\ Distinct(new)
      /\ SymbolsIn(new) = SymbolsIn(c) \cup {s}
  <2>1. \A x \in SymbolsIn(one) : ~HasName(SymbolsIn(c), x.name)
    BY <1>3, <1>4
  <2>2. \A x \in SymbolsIn(c) : ~HasName(SymbolsIn(one), x.name)
    BY <1>3, <1>4 DEF HasName
  <2>3. CASE new = one \o c
    <3>1. SymbolsIn(new) = SymbolsIn(one) \cup SymbolsIn(c)
          /\ new \in Seq(Entries) /\ Distinct(new)
      BY <1>2, <1>4, <2>1, <2>3, ConcatDistinct
    <3> QED BY <1>4, <3>1
  <2>4. CASE new = c \o one
    <3>1. SymbolsIn(new) = SymbolsIn(c) \cup SymbolsIn(one)
          /\ new \in Seq(Entries) /\ Distinct(new)
      BY <1>2, <1>4, <2>2, <2>4, ConcatDistinct
    <3> QED BY <1>4, <3>1
  <2> QED BY <1>5, <2>3, <2>4
<1>7. \A i \in 1 .. Len(new) : InBucket(new[i], n, h)
  <2> SUFFICES ASSUME NEW i \in 1 .. Len(new)
               PROVE  InBucket(new[i], n, h)
    OBVIOUS
  <2>1. new[i] \in SymbolsIn(c) \cup {s}
    BY <1>6, SymbolsInFacts
  <2>2. CASE new[i] = s
    BY <2>2
  <2>3. CASE new[i] \in SymbolsIn(c)
    <3>1. PICK j \in 1 .. Len(c) : c[j] = new[i]
      BY <1>2, <2>3, SymbolsInFacts
    <3> QED BY <1>2, <3>1
  <2> QED BY <2>1, <2>2, <2>3
<1>8. /\ r \in [0 .. n - 1 -> Seq(Entries)] /\ r[h] = new
      /\ \A b \in 0 .. n - 1 : b # h => r[b] = chains[b]
  BY <1>1, <1>2, <1>5, <1>6
<1>9. Chained(r, n)
  <2> SUFFICES ASSUME NEW b \in 0 .. n - 1
               PROVE  /\ Distinct(r[b])
                      /\ \A i \in 1 .. Len(r[b]) : InBucket(r[b][i], n, b)
    BY <1>8 DEF Chained
  <2>1. CASE b = h
    BY <1>6, <1>7, <1>8, <2>1
  <2>2. CASE b # h
    BY <1>8, <2>2 DEF Chained
  <2> QED BY <2>1, <2>2
<1>10. Elements(r) = Elements(chains) \cup {s}
  <2>1. DOMAIN r = 0 .. n - 1 /\ DOMAIN chains = 0 .. n - 1
    BY <1>2, <1>8
  <2>2. \A b \in 0 .. n - 1 :
          SymbolsIn(r[b]) = IF b = h THEN SymbolsIn(chains[b]) \cup {s}
                            ELSE SymbolsIn(chains[b])
    BY <1>6, <1>8 DEF c
  <2> QED BY <1>1, <2>1, <2>2 DEF Elements
<1> QED BY <1>9, <1>10

LEMMA EmptyChains ==
  ASSUME NEW n \in Nat \ {0}
  PROVE  LET chains == [b \in 0 .. n - 1 |-> <<>>]
         IN  Chained(chains, n) /\ Elements(chains) = {}
<1> DEFINE chains == [b \in 0 .. n - 1 |-> <<>>]
<1>1. /\ chains \in [0 .. n - 1 -> Seq(Entries)] /\ DOMAIN chains = 0 .. n - 1
      /\ \A b \in 0 .. n - 1 : chains[b] = <<>> /\ Len(chains[b]) = 0
  OBVIOUS
<1> HIDE DEF chains
<1>2. Chained(chains, n)
  BY <1>1 DEF Chained, Distinct
<1>3. \A x : x \notin Elements(chains)
  BY <1>1, <1>2, ElementsFacts
<1> QED BY <1>2, <1>3 DEF chains

-----------------------------------------------------------------------------
(* Putting links into new buckets, one after another: what the fold of
   WithMoreBuckets is for the links whose places are in T. *)
FillStep(n, links, T, g) ==
  IF T = {} THEN [b \in 0 .. n - 1 |-> <<>>]
  ELSE PutLinkIntoBucket(g[T \ {Max(T)}], n, links[Max(T)])

IsFilling(n, links, g) ==
  g = [T \in SUBSET DOMAIN links |-> FillStep(n, links, T, g)]

Relinked(n, links) ==
  FoldLeft(LAMBDA chains, link : PutLinkIntoBucket(chains, n, link),
           [b \in 0 .. n - 1 |-> <<>>], links)

LEMMA GreatestFacts ==
  ASSUME NEW l \in Nat, NEW T \in SUBSET (1 .. l)
  PROVE  /\ IsFiniteSet(T) /\ Cardinality(T) \in Nat
         /\ T # {} => /\ Max(T) \in T
                      /\ Cardinality(T \ {Max(T)}) < Cardinality(T)
<1>1. IsFiniteSet(1 .. l)
  BY FS_Interval
<1>2. IsFiniteSet(T) /\ Cardinality(T) \in Nat
  BY <1>1, FS_Subset, FS_CardinalityType
<1>3. ASSUME T # {}
      PROVE  Max(T) \in T
  <2>1. \E m \in T : \A x \in T : x <= m
    <3>1. T \in SUBSET Nat /\ \A x \in T : x <= l
      OBVIOUS
    <3> QED BY <1>3, <3>1, GreatestExists
  <2>2. \A x \in T : \A y \in T : x <= y <=> y >= x
    OBVIOUS
  <2> QED BY <2>1, <2>2 DEF Max
<1>4. ASSUME T # {}
      PROVE  Cardinality(T \ {Max(T)}) < Cardinality(T)
  <2>1. Cardinality(T \ {Max(T)}) = Cardinality(T) - 1
    BY <1>2, <1>3, <1>4, FS_RemoveElement
  <2> QED BY <1>2, <2>1
<1> QED BY <1>2, <1>3, <1>4

LEMMA GreatestOfInterval ==
  ASSUME NEW i \in Nat \ {0}
  PROVE  Max(1 .. i) = i /\ (1 .. i) \ {i} = 1 .. i - 1 /\ 1 .. i # {}
<1>1. i \in 1 .. i /\ \A x \in 1 .. i : i >= x
  OBVIOUS
<1>2. ASSUME NEW m \in 1 .. i, \A x \in 1 .. i : m >= x
      PROVE  m = i
  BY <1>1, <1>2
<1>3. Max(1 .. i) = i
  BY <1>1, <1>2 DEF Max
<1> QED BY <1>1, <1>3

LEMMA PutLinkType ==
  ASSUME NEW n \in Nat \ {0}, NEW chains \in [0 .. n - 1 -> Seq(Entries)],
         NEW link \in Entries, link.name # NoName
  PROVE  PutLinkIntoBucket(chains, n, link) \in [0 .. n - 1 -> Seq(Entries)]
<1>1. Bucket(link.name, n) \in 0 .. n - 1
  BY BucketFacts DEF Entries
<1> DEFINE c == chains[Bucket(link.name, n)]
<1>2. c \in Seq(Entries) /\ <<link>> \in Seq(Entries)
  BY <1>1
<1>3. <<link>> \o c \in Seq(Entries)
  BY <1>2
<1> QED BY <1>3 DEF PutLinkIntoBucket, Bucket

LEMMA PutLinkFacts ==
  ASSUME NEW n \in Nat \ {0}, NEW chains, Chained(chains, n),
         NEW s \in Entries, s.name # NoName,
         ~HasName(Elements(chains), s.name)
  PROVE  LET r == PutLinkIntoBucket(chains, n, s)
         IN  Chained(r, n) /\ Elements(r) = Elements(chains) \cup {s}
<1> DEFINE b == Bucket(s.name, n)
<1>1. WithLink(chains, b, s, PutLinkIntoBucket(chains, n, s))
  BY DEF WithLink, PutLinkIntoBucket, Bucket
<1>2. b \in 0 .. n - 1 /\ InBucket(s, n, b)
  BY BucketFacts DEF Entries, InBucket
<1>3. ~HasName(SymbolsIn(chains[b]), s.name)
  BY <1>2 DEF Chained, Elements, HasName
<1> HIDE DEF b
<1> QED BY <1>1, <1>2, <1>3, ChainExtended

AllNamed(links) == \A i \in DOMAIN links : links[i].name # NoName

LEMMA FillingExists ==
  ASSUME NEW n \in Nat \ {0}, NEW links \in Seq(Entries), AllNamed(links)
  PROVE  \E g \in [SUBSET DOMAIN links -> [0 .. n - 1 -> Seq(Entries)]] :
            IsFilling(n, links, g)
<1> DEFINE S == SUBSET DOMAIN links
           V == [0 .. n - 1 -> Seq(Entries)]
           m == [T \in S |-> Cardinality(T)]
           F == [T \in S |-> [g \in [S -> V] |-> FillStep(n, links, T, g)]]
<1>1. /\ DOMAIN links = 1 .. Len(links) /\ Len(links) \in Nat
      /\ \A i \in DOMAIN links : links[i] \in Entries
  OBVIOUS
<1>2. ASSUME NEW T \in S
      PROVE  /\ Cardinality(T) \in Nat
             /\ T # {} => /\ Max(T) \in DOMAIN links
                          /\ T \ {Max(T)} \in S
                          /\ m[T \ {Max(T)}] < m[T]
  <2>1. T \in SUBSET (1 .. Len(links))
    BY <1>1
  <2> QED BY <1>1, <2>1, GreatestFacts
<1>3. m \in [S -> Nat]
  BY <1>2
<1>4. [b \in 0 .. n - 1 |-> <<>>] \in V
  OBVIOUS
<1>5. ASSUME NEW T \in S, NEW g \in [S -> V]
      PROVE  FillStep(n, links, T, g) \in V
  <2>1. CASE T = {}
    BY <1>4, <2>1 DEF FillStep
  <2>2. CASE T # {}
    <3>1. /\ g[T \ {Max(T)}] \in V /\ links[Max(T)] \in Entries
          /\ links[Max(T)].name # NoName
      BY <1>1, <1>2, <2>2 DEF AllNamed
    <3> QED BY <2>2, <3>1, PutLinkType DEF FillStep
  <2> QED BY <2>1, <2>2
<1>6. F \in [S -> [[S -> V] -> V]]
  BY <1>5
<1>7. IsLocal(S, m, V, F)
  <2> SUFFICES ASSUME NEW T \in S, NEW g \in [S -> V], NEW h \in [S -> V],
                      \A y \in S : m[y] < m[T] => g[y] = h[y]
               PROVE  F[T][g] = F[T][h]
    BY DEF IsLocal
  <2>1. FillStep(n, links, T, g) = FillStep(n, links, T, h)
    <3>1. CASE T = {}
      BY <3>1 DEF FillStep
    <3>2. CASE T # {}
      <4>1. g[T \ {Max(T)}] = h[T \ {Max(T)}]
        <5> HIDE DEF m, S, V
        <5> QED BY <1>2, <3>2
      <4> QED BY <3>2, <4>1 DEF FillStep
    <3> QED BY <3>1, <3>2
  <2> QED BY <2>1
<1> HIDE DEF m
<1>8. PICK g \in [S -> V] : \A T \in S : g[T] = F[T][g]
  <2>1. V # {}
    BY <1>4
  <2> HIDE DEF S, F, V
  <2>2. IsRecursion(S, m, V, F)
    BY <1>3, <1>6, <1>7, <2>1 DEF IsRecursion
  <2> QED BY <2>2, RecursionExists
<1>9. \A T \in S : g[T] = FillStep(n, links, T, g)
  BY <1>8
<1>10. g = [T \in S |-> FillStep(n, links, T, g)]
  BY <1>8, <1>9
<1> QED BY <1>8, <1>10 DEF IsFilling

LEMMA RelinkedIsFilling ==
  ASSUME NEW n \in Nat \ {0}, NEW links \in Seq(Entries), AllNamed(links)
  PROVE  \E g : IsFilling(n, links, g) /\ Relinked(n, links) = g[DOMAIN links]
<1> DEFINE g == CHOOSE h : IsFilling(n, links, h)
<1>1. IsFilling(n, links, g)
  BY FillingExists
<1>2. Relinked(n, links) = g[DOMAIN links]
  BY Zenon DEF Relinked, FoldLeft, MapThenFoldSet, IsFilling, FillStep
<1> QED BY <1>1, <1>2

(* The first i of a sequence of links. *)
FirstOf(links, i) == {links[k] : k \in 1 .. i}

LEMMA RelinkedFacts ==
  ASSUME NEW n \in Nat \ {0}, NEW links \in Seq(Entries), Distinct(links),
         AllNamed(links)
  PROVE  /\ Chained(Relinked(n, links), n)
         /\ Elements(Relinked(n, links)) = SymbolsIn(links)
<1>1. PICK g : IsFilling(n, links, g) /\ Relinked(n, links) = g[DOMAIN links]
  BY RelinkedIsFilling
<1>2. /\ DOMAIN links = 1 .. Len(links) /\ Len(links) \in Nat
      /\ \A i \in DOMAIN links : links[i] \in Entries
  OBVIOUS
<1> DEFINE Good(i) == /\ Chained(g[1 .. i], n)
                      /\ Elements(g[1 .. i]) = FirstOf(links, i)
           Bad == {i \in 0 .. Len(links) : ~Good(i)}
<1>3. \A T \in SUBSET DOMAIN links : g[T] = FillStep(n, links, T, g)
  BY <1>1 DEF IsFilling
<1>4. Good(0)
  <2>1. 1 .. 0 = {} /\ {} \in SUBSET DOMAIN links
    OBVIOUS
  <2>2. g[{}] = [b \in 0 .. n - 1 |-> <<>>]
    BY <1>3, <2>1 DEF FillStep
  <2>3. Chained(g[{}], n) /\ Elements(g[{}]) = {}
    BY <2>2, EmptyChains
  <2>4. FirstOf(links, 0) = {}
    BY <2>1 DEF FirstOf
  <2> QED BY <2>1, <2>3, <2>4
<1>5. ASSUME NEW i \in 1 .. Len(links), Good(i - 1)
      PROVE  Good(i)
  <2> DEFINE old == g[1 .. i - 1]
             s == links[i]
  <2>1. i \in Nat \ {0} /\ 1 .. i \in SUBSET DOMAIN links /\ i - 1 \in Nat
        /\ s \in Entries /\ s.name # NoName
    BY <1>2 DEF AllNamed
  <2>2. g[1 .. i] = PutLinkIntoBucket(old, n, s)
    BY <1>3, <2>1, GreatestOfInterval DEF FillStep
  <2>3. ~HasName(Elements(old), s.name)
    <3>1. ASSUME NEW k \in 1 .. i - 1, links[k].name = links[i].name
          PROVE  FALSE
      <4>1. k \in 1 .. Len(links) /\ k # i
        BY <1>2
      <4> QED BY <1>2, <3>1, <4>1 DEF Distinct
    <3> QED BY <1>5, <3>1 DEF HasName, FirstOf
  <2>4. Chained(old, n) /\ Elements(old) = FirstOf(links, i - 1)
    BY <1>5
  <2> HIDE DEF old, s
  <2>5. /\ Chained(PutLinkIntoBucket(old, n, s), n)
        /\ Elements(PutLinkIntoBucket(old, n, s)) = Elements(old) \cup {s}
    BY <2>1, <2>3, <2>4, PutLinkFacts
  <2>6. FirstOf(links, i) = FirstOf(links, i - 1) \cup {s}
    <3>1. 1 .. i = (1 .. i - 1) \cup {i}
      BY <2>1
    <3> QED BY <3>1 DEF FirstOf, s
  <2> QED BY <2>2, <2>4, <2>5, <2>6
<1>6. Bad = {}
  <2> SUFFICES ASSUME Bad # {} PROVE FALSE
    OBVIOUS
  <2>1. PICK m \in Bad : \A x \in Bad : m <= x
    <3>1. Bad \in SUBSET Nat
      OBVIOUS
    <3> HIDE DEF Bad
    <3> QED BY <3>1, LeastExists
  <2>2. m # 0 /\ m \in 1 .. Len(links) /\ m - 1 \in 0 .. Len(links)
    BY <1>2, <1>4, <2>1
  <2>3. m - 1 \notin Bad
    BY <1>2, <2>1, <2>2
  <2> QED BY <1>5, <2>1, <2>2, <2>3
<1>7. Good(Len(links))
  BY <1>2, <1>6
<1>8. FirstOf(links, Len(links)) = SymbolsIn(links)
  BY <1>2 DEF FirstOf, SymbolsIn
<1> QED BY <1>1, <1>2, <1>7, <1>8

-----------------------------------------------------------------------------
(* The links of all buckets, bucket after bucket. *)
FlattenStep(seqs, i, g) == IF i = 1 THEN seqs[i] ELSE g[i - 1] \o seqs[i]

IsFlattening(seqs, g) ==
  g = [i \in 1 .. Len(seqs) |-> FlattenStep(seqs, i, g)]

LEMMA FlatteningExists ==
  ASSUME NEW T, NEW seqs \in Seq(Seq(T)), Len(seqs) # 0
  PROVE  \E g \in [1 .. Len(seqs) -> Seq(T)] : IsFlattening(seqs, g)
<1> DEFINE S == 1 .. Len(seqs)
           V == Seq(T)
           m == [i \in S |-> i]
           F == [i \in S |-> [g \in [S -> V] |-> FlattenStep(seqs, i, g)]]
<1>1. Len(seqs) \in Nat /\ \A i \in S : seqs[i] \in V
  OBVIOUS
<1>2. ASSUME NEW i \in S, i # 1
      PROVE  i - 1 \in S /\ m[i - 1] < m[i]
  BY <1>1, <1>2
<1>3. m \in [S -> Nat]
  BY <1>1
<1>4. ASSUME NEW i \in S, NEW g \in [S -> V]
      PROVE  FlattenStep(seqs, i, g) \in V
  <2>1. CASE i = 1
    BY <1>1, <2>1 DEF FlattenStep
  <2>2. CASE i # 1
    <3>1. g[i - 1] \in V /\ seqs[i] \in V
      BY <1>1, <1>2, <2>2
    <3>2. g[i - 1] \o seqs[i] \in V
      BY <3>1
    <3> QED BY <2>2, <3>2 DEF FlattenStep
  <2> QED BY <2>1, <2>2
<1>5. F \in [S -> [[S -> V] -> V]]
  BY <1>4
<1>6. IsLocal(S, m, V, F)
  <2> SUFFICES ASSUME NEW i \in S, NEW g \in [S -> V], NEW h \in [S -> V],
                      \A y \in S : m[y] < m[i] => g[y] = h[y]
               PROVE  F[i][g] = F[i][h]
    BY DEF IsLocal
  <2>1. FlattenStep(seqs, i, g) = FlattenStep(seqs, i, h)
    <3>1. CASE i = 1
      BY <3>1 DEF FlattenStep
    <3>2. CASE i # 1
      <4>1. g[i - 1] = h[i - 1]
        <5> HIDE DEF m, S, V
        <5> QED BY <1>2, <3>2
      <4> QED BY <3>2, <4>1 DEF FlattenStep
    <3> QED BY <3>1, <3>2
  <2> QED BY <2>1
<1> HIDE DEF m
<1>7. PICK g \in [S -> V] : \A i \in S : g[i] = F[i][g]
  <2>1. V # {}
    BY EmptySeq
  <2> HIDE DEF S, F, V
  <2>2. IsRecursion(S, m, V, F)
    BY <1>3, <1>5, <1>6, <2>1 DEF IsRecursion
  <2> QED BY <2>2, RecursionExists
<1>8. \A i \in S : g[i] = FlattenStep(seqs, i, g)
  BY <1>7
<1>9. g = [i \in S |-> FlattenStep(seqs, i, g)]
  BY <1>7, <1>8
<1> QED BY <1>7, <1>9 DEF IsFlattening

LEMMA FlattenIsFlattening ==
  ASSUME NEW T, NEW seqs \in Seq(Seq(T)), Len(seqs) # 0
  PROVE  \E g : IsFlattening(seqs, g) /\ FlattenSeq(seqs) = g[Len(seqs)]
<1> DEFINE g == CHOOSE h : IsFlattening(seqs, h)
<1>1. IsFlattening(seqs, g)
  BY FlatteningExists
<1>2. FlattenSeq(seqs) = g[Len(seqs)]
  BY Zenon DEF FlattenSeq, IsFlattening, FlattenStep
<1> QED BY <1>1, <1>2

(* What is put together of sequences over T is a sequence over T. *)
LEMMA FlatteningType ==
  ASSUME NEW T, NEW seqs \in Seq(Seq(T)), NEW g, IsFlattening(seqs, g),
         NEW i \in 1 .. Len(seqs)
  PROVE  g[i] \in Seq(T)
<1> DEFINE V == Seq(T)
<1>1. Len(seqs) \in Nat /\ \A j \in 1 .. Len(seqs) : seqs[j] \in V
  OBVIOUS
<1>2. \A j \in 1 .. Len(seqs) :
        g[j] = IF j = 1 THEN seqs[j] ELSE g[j - 1] \o seqs[j]
  BY DEF IsFlattening, FlattenStep
<1> DEFINE Bad == {j \in 1 .. Len(seqs) : g[j] \notin V}
<1>3. Bad = {}
  <2> SUFFICES ASSUME Bad # {} PROVE FALSE
    OBVIOUS
  <2>1. Bad \in SUBSET Nat
    OBVIOUS
  <2>2. PICK m \in Bad : \A j \in Bad : m <= j
    <3> HIDE DEF Bad
    <3> QED BY <2>1, LeastExists
  <2>3. m # 1
    BY <1>1, <1>2, <2>2
  <2>4. m - 1 \in 1 .. Len(seqs) /\ ~(m <= m - 1)
    BY <1>1, <2>2, <2>3
  <2>5. g[m - 1] \in V
    BY <2>2, <2>4
  <2>6. g[m - 1] \o seqs[m] \in V
    BY <1>1, <2>2, <2>5
  <2> QED BY <1>2, <2>2, <2>3, <2>6
<1> QED BY <1>3

LEMMA FlattenType ==
  ASSUME NEW T, NEW seqs \in Seq(Seq(T))
  PROVE  FlattenSeq(seqs) \in Seq(T)
<1>1. CASE Len(seqs) = 0
  <2>1. seqs = <<>>
    BY <1>1
  <2>2. FlattenSeq(seqs) = <<>>
    BY <2>1 DEF FlattenSeq
  <2> QED BY <2>2
<1>2. CASE Len(seqs) # 0
  <2>1. PICK g : IsFlattening(seqs, g) /\ FlattenSeq(seqs) = g[Len(seqs)]
    BY <1>2, FlattenIsFlattening
  <2>2. Len(seqs) \in 1 .. Len(seqs)
    BY <1>2
  <2> QED BY <2>1, <2>2, FlatteningType
<1> QED BY <1>1, <1>2

(* One element of a sequence, as a part of it. *)
LEMMA OneItem ==
  ASSUME NEW T, NEW s \in Seq(T), NEW i \in 1 .. Len(s)
  PROVE  SubSeq(s, i, i) = <<s[i]>>
<1> DEFINE one == SubSeq(s, i, i)
           item == s[i]
<1>1. i \in Nat /\ i - i + 1 = 1 /\ item \in T
  OBVIOUS
<1>2. one \in Seq(T) /\ Len(one) = 1 /\ one[1] = item
  OBVIOUS
<1> HIDE DEF one, item
<1>3. <<item>> \in Seq(T) /\ Len(<<item>>) = 1 /\ <<item>>[1] = item
  BY <1>1
<1>4. one = <<item>>
  BY <1>2, <1>3, SeqEqual
<1> QED BY <1>4 DEF one, item

LEMMA LinksInOrderFacts ==
  ASSUME NEW t, NumBuckets(t) \in Nat \ {0}, Chained(t.chains, NumBuckets(t)),
         ~HasName(Elements(t.chains), NoName)
  PROVE  LET links == LinksInOrder(t)
         IN  /\ links \in Seq(Entries) /\ Distinct(links) /\ AllNamed(links)
             /\ SymbolsIn(links) = Elements(t.chains)
<1> DEFINE n == NumBuckets(t)
           chains == t.chains
           seqs == [i \in 1 .. n |-> chains[i - 1]]
<1>1. /\ n \in Nat \ {0} /\ Chained(chains, n)
      /\ LinksInOrder(t) = FlattenSeq(seqs)
      /\ ~HasName(Elements(chains), NoName)
  BY DEF LinksInOrder
<1> HIDE DEF n, chains
<1>2. \A b \in 0 .. n - 1 :
        /\ chains[b] \in Seq(Entries) /\ Distinct(chains[b])
        /\ \A x \in SymbolsIn(chains[b]) : Bucket(x.name, n) = b
  <2> SUFFICES ASSUME NEW b \in 0 .. n - 1
               PROVE  /\ chains[b] \in Seq(Entries) /\ Distinct(chains[b])
                      /\ \A x \in SymbolsIn(chains[b]) : Bucket(x.name, n) = b
    OBVIOUS
  <2>1. chains[b] \in Seq(Entries) /\ Distinct(chains[b])
        /\ \A i \in 1 .. Len(chains[b]) : InBucket(chains[b][i], n, b)
    BY <1>1 DEF Chained
  <2>2. \A x \in SymbolsIn(chains[b]) : x.name # NoName
    <3>1. DOMAIN chains = 0 .. n - 1
      BY <1>1 DEF Chained
    <3> QED BY <1>1, <3>1 DEF Elements, HasName
  <2>3. \A x \in SymbolsIn(chains[b]) : InBucket(x, n, b)
    BY <2>1, SymbolsInFacts
  <2> QED BY <2>1, <2>2, <2>3 DEF InBucket
<1>3. /\ seqs \in Seq(Seq(Entries)) /\ Len(seqs) = n
      /\ \A i \in 1 .. n : seqs[i] = chains[i - 1] /\ i - 1 \in 0 .. n - 1
  <2>1. \A i \in 1 .. n : i - 1 \in 0 .. n - 1 /\ chains[i - 1] \in Seq(Entries)
    BY <1>1, <1>2
  <2>2. n \in Nat
    BY <1>1
  <2> QED BY <2>1, <2>2
<1> HIDE DEF seqs
<1>4. PICK g : IsFlattening(seqs, g) /\ FlattenSeq(seqs) = g[n]
  <2>1. Len(seqs) # 0
    BY <1>1, <1>3
  <2> QED BY <1>3, <2>1, FlattenIsFlattening
<1>5. \A i \in 1 .. n : g[i] = FlattenStep(seqs, i, g)
  BY <1>3, <1>4 DEF IsFlattening
<1> DEFINE From(i) == UNION {SymbolsIn(chains[b]) : b \in 0 .. i - 1}
           Good(i) == /\ g[i] \in Seq(Entries) /\ Distinct(g[i])
                      /\ SymbolsIn(g[i]) = From(i)
           Bad == {i \in 1 .. n : ~Good(i)}
<1>6. Good(1)
  <2>1. 1 \in 1 .. n /\ 0 \in 0 .. n - 1 /\ 0 .. 1 - 1 = {0}
    BY <1>1
  <2>2. g[1] = chains[0]
    BY <1>3, <1>5, <2>1 DEF FlattenStep
  <2> QED BY <1>2, <2>1, <2>2
<1>7. ASSUME NEW i \in 2 .. n, Good(i - 1)
      PROVE  Good(i)
  <2> DEFINE s == g[i - 1]
             u == chains[i - 1]
  <2>1. i \in 1 .. n /\ i # 1 /\ i - 1 \in 0 .. n - 1
        /\ 0 .. i - 1 = (0 .. (i - 1) - 1) \cup {i - 1}
        /\ \A b \in 0 .. (i - 1) - 1 : b \in 0 .. n - 1 /\ b # i - 1
    BY <1>1
  <2>2. g[i] = s \o u
    BY <1>3, <1>5, <2>1 DEF FlattenStep
  <2>3. /\ s \in Seq(Entries) /\ Distinct(s) /\ SymbolsIn(s) = From(i - 1)
        /\ u \in Seq(Entries) /\ Distinct(u)
    BY <1>2, <1>7, <2>1
  <2>4. \A x \in SymbolsIn(s) : ~HasName(SymbolsIn(u), x.name)
    <3> SUFFICES ASSUME NEW x \in SymbolsIn(s), NEW y \in SymbolsIn(u),
                        y.name = x.name
                 PROVE  FALSE
      BY DEF HasName
    <3>1. PICK b \in 0 .. (i - 1) - 1 : x \in SymbolsIn(chains[b])
      BY <2>3
    <3>2. Bucket(x.name, n) = b /\ Bucket(y.name, n) = i - 1
      BY <1>2, <2>1, <3>1
    <3> QED BY <2>1, <3>2
  <2>5. From(i) = From(i - 1) \cup SymbolsIn(u)
    BY <2>1
  <2> HIDE DEF s, u, From
  <2>6. s \o u \in Seq(Entries) /\ Distinct(s \o u)
        /\ SymbolsIn(s \o u) = SymbolsIn(s) \cup SymbolsIn(u)
    BY <2>3, <2>4, ConcatDistinct
  <2> QED BY <2>2, <2>3, <2>5, <2>6
<1>8. Bad = {}
  <2> SUFFICES ASSUME Bad # {} PROVE FALSE
    OBVIOUS
  <2> HIDE DEF Good
  <2>1. PICK m \in Bad : \A x \in Bad : m <= x
    <3>1. Bad \in SUBSET Nat
      OBVIOUS
    <3> HIDE DEF Bad
    <3> QED BY <3>1, LeastExists
  <2>2. m # 1 /\ m \in 2 .. n /\ m - 1 \in 1 .. n
    BY <1>1, <1>6, <2>1
  <2>3. m - 1 \notin Bad
    BY <1>1, <2>1, <2>2
  <2> QED BY <1>7, <2>1, <2>2, <2>3
<1>9. Good(n)
  <2>1. n \in 1 .. n
    BY <1>1
  <2> QED BY <1>8, <2>1
<1>10. From(n) = Elements(chains)
  BY <1>1 DEF Chained, Elements
<1> HIDE DEF From
<1>11. FlattenSeq(seqs) \in Seq(Entries) /\ Distinct(FlattenSeq(seqs))
       /\ SymbolsIn(FlattenSeq(seqs)) = Elements(chains)
  BY <1>4, <1>9, <1>10
<1>12. AllNamed(FlattenSeq(seqs))
  <2> DEFINE links == FlattenSeq(seqs)
  <2>1. \A i \in DOMAIN links : links[i] \in Elements(chains)
    BY <1>11 DEF SymbolsIn
  <2> QED BY <1>1, <2>1 DEF AllNamed, HasName
<1> QED BY <1>1, <1>11, <1>12 DEF chains

-----------------------------------------------------------------------------
(* The hash table as a whole: its buckets are in number one of BucketSizes,
   and every link is in the chain of its bucket. *)
Hashed(t) ==
  /\ t.size \in DOMAIN BucketSizes
  /\ Chained(t.chains, NumBuckets(t))

LEMMA HashedFacts ==
  ASSUME NEW t, Hashed(t), NEW name \in Name
  PROVE  /\ NumBuckets(t) \in Nat \ {0}
         /\ Chained(t.chains, NumBuckets(t))
         /\ BucketOf(t, name) = Bucket(name, NumBuckets(t))
         /\ BucketOf(t, name) \in 0 .. NumBuckets(t) - 1
         /\ ChainOf(t, name) = t.chains[BucketOf(t, name)]
         /\ ChainOf(t, name) \in Seq(Entries)
         /\ Distinct(ChainOf(t, name))
<1>1. NumBuckets(t) \in Nat \ {0}
  BY SymbolOpsAssumption DEF Hashed, NumBuckets
<1>2. BucketOf(t, name) = Bucket(name, NumBuckets(t))
  BY DEF BucketOf, Bucket
<1>3. BucketOf(t, name) \in 0 .. NumBuckets(t) - 1
  BY <1>1, <1>2, BucketFacts
<1>4. Chained(t.chains, NumBuckets(t))
  BY DEF Hashed
<1>5. ChainOf(t, name) = t.chains[BucketOf(t, name)]
  BY DEF ChainOf
<1> QED BY <1>1, <1>2, <1>3, <1>4, <1>5 DEF Chained

(* The symbols of a name are those in the chain of its bucket. *)
LEMMA ChainHasName ==
  ASSUME NEW t, Hashed(t), NEW name \in Name
  PROVE  LET c == ChainOf(t, name)
         IN  \A x : x \in Elements(t.chains) /\ x.name = name
                    <=> \E i \in 1 .. Len(c) : c[i] = x /\ c[i].name = name
<1> SUFFICES ASSUME NEW x
             PROVE  LET c == ChainOf(t, name)
                    IN  x \in Elements(t.chains) /\ x.name = name
                        <=> \E i \in 1 .. Len(c) : c[i] = x /\ c[i].name = name
  OBVIOUS
<1> DEFINE n == NumBuckets(t)
           c == ChainOf(t, name)
<1>1. /\ n \in Nat \ {0} /\ Chained(t.chains, n)
      /\ Bucket(name, n) \in 0 .. n - 1
      /\ c = t.chains[Bucket(name, n)] /\ c \in Seq(Entries)
  BY HashedFacts
<1> HIDE DEF n, c
<1>2. ASSUME x \in Elements(t.chains), x.name = name
      PROVE  \E i \in 1 .. Len(c) : c[i] = x /\ c[i].name = name
  <2>0. name # NoName
    BY SymbolOpsAssumption DEF NoName
  <2>1. x \in SymbolsIn(c)
    BY <1>1, <1>2, <2>0, ElementsFacts
  <2> QED BY <1>1, <1>2, <2>1, SymbolsInFacts
<1>3. ASSUME NEW i \in 1 .. Len(c), c[i] = x, c[i].name = name
      PROVE  x \in Elements(t.chains) /\ x.name = name
  BY <1>1, <1>3, ElementsFacts
<1> QED BY <1>2, <1>3 DEF c

(* The first place of a sequence with a property, as SelectInSeq finds it. *)
LEMMA FirstPlace ==
  ASSUME NEW I \in SUBSET Nat, 0 \notin I
  PROVE  LET at == IF I # {} THEN Min(I) ELSE 0
         IN  /\ at # 0 => at \in I
             /\ at = 0 <=> I = {}
BY MinIsLeast

(* What findSymbolByName returns. *)
LEMMA FindFacts ==
  ASSUME NEW t, Hashed(t), NEW name \in Name
  PROVE  LET S == {x \in Elements(t.chains) : x.name = name}
             c == ChainOf(t, name)
         IN  /\ FindSymbol(t, name) \in IF S = {} THEN {NoSymbol} ELSE S
             /\ FindSymbol(t, name) = NoSymbol <=> S = {}
             /\ S = {} => LinkFound(t, name) =
                            IF c = <<>> THEN NoSymbol ELSE Last(c)
<1> DEFINE c == ChainOf(t, name)
           S == {x \in Elements(t.chains) : x.name = name}
           I == {i \in 1 .. Len(c) : c[i].name = name}
           at == IF I # {} THEN Min(I) ELSE 0
           link == LinkFound(t, name)
           found == FindSymbol(t, name)
<1>1. c \in Seq(Entries) /\ Len(c) \in Nat
  BY HashedFacts
<1>2. link = IF at # 0 THEN c[at] ELSE IF c = <<>> THEN NoSymbol ELSE Last(c)
  BY DEF LinkFound, SelectInSeq
<1>3. found = IF link # NoSymbol /\ link.name = name THEN link ELSE NoSymbol
  BY DEF FindSymbol
<1>4. \A x \in Entries : x # NoSymbol
  BY SymbolOpsAssumption DEF Entries, NoName
<1>5. /\ at # 0 => at \in I
      /\ at = 0 <=> I = {}
  <2>1. I \in SUBSET Nat /\ 0 \notin I
    BY <1>1
  <2> HIDE DEF I
  <2> QED BY <2>1, FirstPlace
<1>6. \A x : x \in S <=> \E i \in 1 .. Len(c) : c[i] = x /\ c[i].name = name
  BY ChainHasName
<1> HIDE DEF c, S, at, link, found
<1>7. CASE at # 0
  <2>1. at \in 1 .. Len(c) /\ c[at].name = name /\ c[at] \in Entries
    BY <1>1, <1>5, <1>7
  <2>2. c[at] \in S
    BY <1>6, <2>1
  <2> QED BY <1>2, <1>3, <1>4, <1>7, <2>1, <2>2 DEF c, S, link, found
<1>8. CASE at = 0
  <2>1. S = {} /\ \A i \in 1 .. Len(c) : c[i].name # name
    BY <1>5, <1>6, <1>8
  <2>2. link = IF c = <<>> THEN NoSymbol ELSE Last(c)
    BY <1>2, <1>8
  <2>3. found = NoSymbol
    <3>1. CASE c = <<>>
      BY <1>3, <2>2, <3>1
    <3>2. CASE c # <<>>
      <4>1. Len(c) \in 1 .. Len(c)
        BY <1>1, <3>2
      <4>2. link = c[Len(c)]
        BY <2>2, <3>2 DEF Last
      <4> QED BY <1>3, <2>1, <4>1, <4>2
    <3> QED BY <3>1, <3>2
  <2> QED BY <2>1, <2>2, <2>3 DEF c, S, link, found
<1> QED BY <1>7, <1>8

(* A search that does not find its name has passed all links of the chain. *)
LEMMA ChainIsNamed ==
  ASSUME NEW t, Hashed(t), NEW name \in Name, ~SearchMeetsNull(t, name),
         ~HasName(Elements(t.chains), name)
  PROVE  LET c == ChainOf(t, name)
         IN  \A i \in 1 .. Len(c) : c[i].name \notin {name, NoName}
<1> DEFINE c == ChainOf(t, name)
<1>1. c \in Seq(Entries) /\ DOMAIN c = 1 .. Len(c) /\ Len(c) \in Nat
  BY HashedFacts
<1>2. \A i \in 1 .. Len(c) : c[i].name # name
  BY ChainHasName DEF HasName
<1>3. \A i \in 1 .. Len(c) : c[i].name # NoName
  <2> SUFFICES ASSUME NEW i \in 1 .. Len(c), c[i].name = NoName PROVE FALSE
    OBVIOUS
  <2>1. \A j \in 1 .. i - 1 : c[j].name # name
    BY <1>1, <1>2
  <2> QED BY <1>1, <2>1 DEF SearchMeetsNull
<1> QED BY <1>2, <1>3

(* A new link goes to the end of its chain. *)
LEMMA LinkedFacts ==
  ASSUME NEW t, Hashed(t), NEW name \in Name, ~SearchMeetsNull(t, name),
         ~HasName(Elements(t.chains), name),
         NEW s \in Entries, s.name \in {name, NoName}
  PROVE  LET h == BucketOf(t, name)
         IN  /\ h \in 0 .. NumBuckets(t) - 1
             /\ InBucket(s, NumBuckets(t), h)
             /\ ~HasName(SymbolsIn(t.chains[h]), s.name)
             /\ WithLink(t.chains, h, s,
                         Linked(t, LinkFound(t, name), name, s))
<1> DEFINE n == NumBuckets(t)
           chains == t.chains
           h == Bucket(name, n)
           c == chains[h]
           p == LinkFound(t, name)
           new == Linked(t, p, name, s)
<1>1. /\ n \in Nat \ {0} /\ Chained(chains, n) /\ BucketOf(t, name) = h
      /\ h \in 0 .. n - 1 /\ ChainOf(t, name) = c
      /\ c \in Seq(Entries) /\ Distinct(c) /\ Len(c) \in Nat
  BY HashedFacts
<1>2. p = IF c = <<>> THEN NoSymbol ELSE Last(c)
  <2>1. {x \in Elements(chains) : x.name = name} = {}
    BY DEF HasName
  <2> QED BY <1>1, <2>1, FindFacts
<1>6. \A i \in 1 .. Len(c) : c[i].name \notin {name, NoName}
  BY <1>1, ChainIsNamed
<1>7. InBucket(s, n, h)
  BY DEF InBucket
<1>8. ~HasName(SymbolsIn(c), s.name)
  BY <1>1, <1>6, SymbolsInFacts DEF HasName
<1>3. new = IF p = NoSymbol THEN [chains EXCEPT ![h] = <<s>>]
            ELSE [b \in DOMAIN chains |->
                    LET at == SelectInSeq(chains[b], LAMBDA x : x = p)
                    IN  IF at = 0 THEN chains[b]
                        ELSE Append(SubSeq(chains[b], 1, at), s)]
  BY <1>1 DEF Linked
<1> HIDE DEF chains, n, c, h, p, new
<1>4. /\ DOMAIN chains = 0 .. n - 1
      /\ chains \in [0 .. n - 1 -> Seq(Entries)]
      /\ \A b \in 0 .. n - 1 :
           /\ chains[b] \in Seq(Entries) /\ Len(chains[b]) \in Nat
           /\ \A i \in 1 .. Len(chains[b]) : InBucket(chains[b][i], n, b)
  BY <1>1 DEF Chained
<1>5. new = [chains EXCEPT ![h] = c \o <<s>>]
  <2>1. CASE c = <<>>
    <3>1. c \o <<s>> = <<s>>
      BY <2>1
    <3> QED BY <1>2, <1>3, <2>1, <3>1
  <2>2. CASE c # <<>>
    <3>1. Len(c) \in 1 .. Len(c) /\ p = c[Len(c)] /\ p \in Entries
      BY <1>1, <1>2, <2>2 DEF Last
    <3>2. p # NoSymbol
      BY <3>1, SymbolOpsAssumption DEF Entries, NoName
    <3>3. p.name # NoName /\ Bucket(p.name, n) = h
      BY <1>1, <1>4, <1>6, <3>1 DEF c, InBucket
    <3> DEFINE I(b) == {i \in 1 .. Len(chains[b]) : chains[b][i] = p}
               at(b) == SelectInSeq(chains[b], LAMBDA x : x = p)
    <3>4. \A b : at(b) = IF I(b) # {} THEN Min(I(b)) ELSE 0
      BY DEF SelectInSeq
    <3>5. \A b \in 0 .. n - 1 : /\ at(b) # 0 => at(b) \in I(b)
                                /\ at(b) = 0 <=> I(b) = {}
      <4> SUFFICES ASSUME NEW b \in 0 .. n - 1
                   PROVE  /\ at(b) # 0 => at(b) \in I(b)
                          /\ at(b) = 0 <=> I(b) = {}
        OBVIOUS
      <4>1. I(b) \in SUBSET Nat /\ 0 \notin I(b)
        BY <1>4
      <4>2. at(b) = IF I(b) # {} THEN Min(I(b)) ELSE 0
        BY <3>4
      <4> HIDE DEF I, at
      <4> QED BY <4>1, <4>2, FirstPlace
    <3>6. \A b \in 0 .. n - 1 : b # h => I(b) = {}
      BY <1>4, <3>3 DEF InBucket
    <3>7. at(h) = Len(c)
      <4>1. Len(c) \in I(h)
        BY <3>1 DEF c
      <4>2. at(h) \in I(h)
        <5> HIDE DEF I, at
        <5> QED BY <1>1, <3>5, <4>1
      <4>3. \A i \in I(h) : i = Len(c)
        BY <1>1, <3>1 DEF c, Distinct
      <4> HIDE DEF I, at
      <4> QED BY <4>2, <4>3
    <3>8. \A b \in 0 .. n - 1 : b # h => at(b) = 0
      <4> HIDE DEF I, at
      <4> QED BY <3>5, <3>6
    <3>9. Append(SubSeq(c, 1, Len(c)), s) = c \o <<s>>
      <4>1. SubSeq(c, 1, Len(c)) = c
        BY <1>1
      <4> QED BY <1>1, <4>1
    <3>10. new = [b \in 0 .. n - 1 |->
                    IF at(b) = 0 THEN chains[b]
                    ELSE Append(SubSeq(chains[b], 1, at(b)), s)]
      BY <1>3, <1>4, <3>2
    <3> HIDE DEF at, I
    <3>11. \A b \in 0 .. n - 1 :
             new[b] = IF b = h THEN c \o <<s>> ELSE chains[b]
      <4> SUFFICES ASSUME NEW b \in 0 .. n - 1
                   PROVE  new[b] = IF b = h THEN c \o <<s>> ELSE chains[b]
        OBVIOUS
      <4>1. CASE b = h
        <5>1. at(b) = Len(c) /\ Len(c) # 0 /\ chains[b] = c
          BY <3>1, <3>7, <4>1 DEF c
        <5> QED BY <3>9, <3>10, <4>1, <5>1
      <4>2. CASE b # h
        BY <3>8, <3>10, <4>2
      <4> QED BY <4>1, <4>2
    <3>12. new = [b \in 0 .. n - 1 |-> new[b]]
      BY <3>10
    <3> QED BY <1>4, <3>11, <3>12
  <2> QED BY <2>1, <2>2
<1> QED BY <1>1, <1>5, <1>7, <1>8 DEF WithLink, new, chains, c, h, n, p

-----------------------------------------------------------------------------
(* The two indexes of a table hold the same symbols. *)
TwoIndexes(t) ==
  SoundTable(t) /\ Hashed(t) /\ SymbolsIn(t.list) = Elements(t.chains)

LEMMA InsertedElements ==
  ASSUME NEW list \in Seq(Entries), NEW n \in 0 .. Len(list), NEW s
  PROVE  SymbolsIn(Inserted(list, n, s)) = SymbolsIn(list) \cup {s}
<1> DEFINE new == Inserted(list, n, s)
           l == Len(list)
<1>1. l \in Nat /\ DOMAIN list = 1 .. l /\ n \in 0 .. l
  OBVIOUS
<1>2. /\ DOMAIN new = 1 .. l + 1
      /\ \A i \in 1 .. l + 1 : new[i] = IF i <= n THEN list[i]
                                        ELSE IF i = n + 1 THEN s
                                        ELSE list[i - 1]
  BY DEF Inserted
<1> HIDE DEF new, l
<1>3. ASSUME NEW i \in 1 .. l + 1
      PROVE  new[i] \in SymbolsIn(list) \cup {s}
  <2>1. CASE i <= n
    <3>1. i \in 1 .. l
      BY <1>1, <2>1
    <3> QED BY <1>1, <1>2, <2>1, <3>1 DEF SymbolsIn
  <2>2. CASE i = n + 1
    BY <1>1, <1>2, <2>2
  <2>3. CASE i > n + 1
    <3>1. i - 1 \in 1 .. l /\ ~(i <= n) /\ i # n + 1
      BY <1>1, <2>3
    <3>2. new[i] = list[i - 1]
      BY <1>2, <3>1
    <3> QED BY <1>1, <3>1, <3>2 DEF SymbolsIn
  <2> QED BY <1>1, <2>1, <2>2, <2>3
<1>4. ASSUME NEW i \in 1 .. l
      PROVE  list[i] \in SymbolsIn(new)
  <2>1. CASE i <= n
    <3>1. i \in 1 .. l + 1 /\ new[i] = list[i]
      BY <1>1, <1>2, <2>1
    <3> QED BY <1>2, <3>1 DEF SymbolsIn
  <2>2. CASE ~(i <= n)
    <3>1. i + 1 \in 1 .. l + 1 /\ ~(i + 1 <= n) /\ i + 1 # n + 1
          /\ (i + 1) - 1 = i
      BY <1>1, <2>2
    <3>2. new[i + 1] = list[i]
      BY <1>2, <3>1
    <3> QED BY <1>2, <3>1, <3>2 DEF SymbolsIn
  <2> QED BY <2>1, <2>2
<1>5. s \in SymbolsIn(new)
  <2>1. n + 1 \in 1 .. l + 1 /\ ~(n + 1 <= n)
    BY <1>1
  <2>2. new[n + 1] = s
    BY <1>2, <2>1
  <2> QED BY <1>2, <2>1, <2>2 DEF SymbolsIn
<1>6. SymbolsIn(new) \subseteq SymbolsIn(list) \cup {s}
  BY <1>2, <1>3 DEF SymbolsIn
<1>7. SymbolsIn(list) \subseteq SymbolsIn(new)
  BY <1>1, <1>4 DEF SymbolsIn
<1> QED BY <1>5, <1>6, <1>7 DEF new

(* A rehash puts every link into the new buckets once. *)
LEMMA RehashedFacts ==
  ASSUME NEW t, TwoIndexes(t), NEW mem, ~RehashMeetsNull(t, mem)
  PROVE  /\ TwoIndexes(Rehashed(t, mem))
         /\ Rehashed(t, mem).list = t.list
         /\ Elements(Rehashed(t, mem).chains) = Elements(t.chains)
         /\ Rehashed(t, mem) = t \/ ~HasName(Elements(t.chains), NoName)
<1> DEFINE r == WithMoreBuckets(t, mem)
           n == BucketSizes[t.size + 1]
           links == LinksInOrder(t)
<1>1. SoundTable(t) /\ Hashed(t) /\ SymbolsIn(t.list) = Elements(t.chains)
  BY DEF TwoIndexes
<1>2. SoundTable(Rehashed(t, mem)) /\ Rehashed(t, mem).list = t.list
  BY <1>1, OthersKeepTableSound
<1>3. Rehashed(t, mem) \in {t, r}
  BY DEF Rehashed
<1>4. \/ Rehashed(t, mem) = t
      \/ Rehashed(t, mem) = r /\ t.size # Len(BucketSizes)
         /\ ~HasName(Elements(t.chains), NoName)
  <2>1. CASE ~ExceedsLoad(t) \/ t.size = Len(BucketSizes) \/ "buckets" \notin mem
    BY <2>1, Zenon DEF Rehashed, WithMoreBuckets
  <2>2. CASE ExceedsLoad(t) /\ t.size # Len(BucketSizes) /\ "buckets" \in mem
    <3>1. Rehashed(t, mem) = r
      BY <2>2, Zenon DEF Rehashed
    <3>2. ~HasName(Elements(t.chains), NoName)
      BY <2>2 DEF RehashMeetsNull, HasName, Elements, SymbolsIn
    <3> QED BY <2>2, <3>1, <3>2
  <2> QED BY <2>1, <2>2
<1>5. ASSUME t.size # Len(BucketSizes), r # t,
             ~HasName(Elements(t.chains), NoName)
      PROVE  Hashed(r) /\ Elements(r.chains) = Elements(t.chains)
  <2>1. t.size + 1 \in DOMAIN BucketSizes /\ n \in Nat \ {0}
    BY <1>1, <1>5, SymbolOpsAssumption DEF Hashed
  <2>2. r = [t EXCEPT !.size = t.size + 1, !.chains = Relinked(n, links)]
    BY <1>5, Zenon DEF WithMoreBuckets, Relinked
  <2>3. r \in [chains : {Relinked(n, links)}, size : {t.size + 1},
               list : {t.list}, allocated : {t.allocated}, max : {t.max},
               status : {t.status}]
    <3>1. t \in [chains : {t.chains}, size : {t.size}, list : {t.list},
                 allocated : {t.allocated}, max : {t.max},
                 status : {t.status}]
      BY <1>1 DEF SoundTable
    <3> HIDE DEF r, n, links
    <3> QED BY <2>2, <3>1
  <2>4. NumBuckets(t) \in Nat \ {0} /\ Chained(t.chains, NumBuckets(t))
    BY <1>1, SymbolOpsAssumption DEF Hashed, NumBuckets
  <2>5. links \in Seq(Entries) /\ Distinct(links) /\ AllNamed(links)
        /\ SymbolsIn(links) = Elements(t.chains)
    BY <1>5, <2>4, LinksInOrderFacts
  <2> HIDE DEF r, n, links
  <2>6. Chained(Relinked(n, links), n)
        /\ Elements(Relinked(n, links)) = SymbolsIn(links)
    BY <2>1, <2>5, RelinkedFacts
  <2>7. r.chains = Relinked(n, links) /\ r.size = t.size + 1
    BY <2>3
  <2>8. NumBuckets(r) = n
    BY <2>7 DEF NumBuckets, n
  <2> QED BY <2>1, <2>5, <2>6, <2>7, <2>8 DEF Hashed
<1> HIDE DEF r
<1>6. Hashed(Rehashed(t, mem))
      /\ Elements(Rehashed(t, mem).chains) = Elements(t.chains)
  BY <1>1, <1>3, <1>4, <1>5
<1> QED BY <1>1, <1>4, <1>2, <1>6 DEF TwoIndexes

LEMMA CreatedHasTwoIndexes ==
  ASSUME NEW max \in Nat
  PROVE  TwoIndexes(CreatedTable(max))
<1> DEFINE t == CreatedTable(max)
           n == BucketSizes[1]
<1>1. 1 \in DOMAIN BucketSizes /\ n \in Nat \ {0}
  BY SymbolOpsAssumption
<1>2. /\ t.size = 1 /\ t.list = <<>>
      /\ t.chains = [b \in 0 .. n - 1 |-> <<>>]
  BY DEF CreatedTable
<1> HIDE DEF t, n
<1>3. Chained(t.chains, n) /\ Elements(t.chains) = {}
  BY <1>1, <1>2, EmptyChains
<1>4. NumBuckets(t) = n
  BY <1>2 DEF NumBuckets, n
<1>5. SymbolsIn(t.list) = {}
  BY <1>2 DEF SymbolsIn
<1> QED BY <1>1, <1>2, <1>3, <1>4, <1>5, CreatedTableIsSound
        DEF TwoIndexes, Hashed, t

LEMMA ClearKeepsTwoIndexes ==
  ASSUME NEW t, TwoIndexes(t)
  PROVE  /\ TwoIndexes(ClearTable(t))
         /\ SymbolsIn(ClearTable(t).list) = {}
<1> DEFINE r == ClearTable(t)
           n == NumBuckets(t)
<1>1. SoundTable(t) /\ Hashed(t) /\ SoundTable(r)
  BY ClearedTableIsSound DEF TwoIndexes
<1>2. n \in Nat \ {0} /\ DOMAIN t.chains = 0 .. n - 1
  BY <1>1, SymbolOpsAssumption DEF Hashed, NumBuckets, Chained
<1>3. /\ r.size = t.size /\ r.list = <<>>
      /\ r.chains = [b \in DOMAIN t.chains |-> <<>>]
  <2>1. t \in [chains : {t.chains}, size : {t.size}, list : {t.list},
               allocated : {t.allocated}, max : {t.max},
               status : {t.status}]
    BY <1>1 DEF SoundTable
  <2> QED BY <2>1 DEF ClearTable
<1> HIDE DEF r
<1>4. NumBuckets(r) = n
  BY <1>3 DEF NumBuckets
<1> HIDE DEF n
<1>5. Chained(r.chains, n) /\ Elements(r.chains) = {}
  BY <1>2, <1>3, EmptyChains
<1>6. SymbolsIn(r.list) = {}
  BY <1>3 DEF SymbolsIn
<1> QED BY <1>1, <1>3, <1>4, <1>5, <1>6 DEF TwoIndexes, Hashed, r

LEMMA FailedKeepsTwoIndexes ==
  ASSUME NEW t, TwoIndexes(t), NEW error
  PROVE  /\ TwoIndexes(TableFailed(t, error))
         /\ TableFailed(t, error).list = t.list
         /\ TableFailed(t, error).status = error
<1> DEFINE r == TableFailed(t, error)
<1>1. SoundTable(t) /\ SoundTable(r)
  BY OthersKeepTableSound DEF TwoIndexes
<1>2. r \in [chains : {t.chains}, size : {t.size}, list : {t.list},
             allocated : {t.allocated}, max : {t.max}, status : {error}]
  BY <1>1 DEF SoundTable, TableFailed
<1> HIDE DEF r
<1>3. r.size = t.size /\ r.list = t.list /\ r.chains = t.chains
      /\ r.status = error
  BY <1>2
<1> QED BY <1>1, <1>3 DEF TwoIndexes, Hashed, NumBuckets, r

(* What an addition does: nothing, or it puts the symbol into both indexes. *)
AddsNothing(t, r) == SymbolsIn(r.list) = SymbolsIn(t.list)
Adds(t, r, s) == SymbolsIn(r.list) = SymbolsIn(t.list) \cup {s}

LEMMA AddFacts ==
  ASSUME NEW t, TwoIndexes(t), NEW name \in Name, NEW a \in Nat, NEW mem
  PROVE  LET r == AddSymbol(t, name, a, mem)
             why == Refusal(t, name, a)
         IN  /\ TwoIndexes(r) /\ r.max = t.max
             /\ \/ /\ AddsNothing(t, r) /\ r.status = "nullName"
                   /\ HasName(SymbolsIn(t.list), NoName)
                \/ why # "ok" /\ AddsNothing(t, r) /\ r.status = why
                \/ why = "ok" /\ AddsNothing(t, r) /\ r.status = "noMemory"
                \/ /\ why = "ok" /\ r.status = "ok"
                   /\ Adds(t, r, Symbol(NameCopied(name, mem), a))
<1> DEFINE r == Rehashed(t, mem)
           s == Symbol(NameCopied(name, mem), a)
           new == Inserted(r.list, NumBelow(r.list, a), s)
           chains == Linked(r, LinkBefore(t, r, name), name, s)
           added == [r EXCEPT
                       !.list = new, !.allocated = ListSlots(t),
                       !.chains = chains, !.status = "ok"]
           result == AddSymbol(t, name, a, mem)
           why == Refusal(t, name, a)
           null == \/ SearchMeetsNull(t, name)
                   \/ why = "ok" /\ RehashMeetsNull(t, mem)
<1>1. SoundTable(t) /\ Hashed(t) /\ SymbolsIn(t.list) = Elements(t.chains)
  BY DEF TwoIndexes
<1>3. SoundTable(result) /\ result.max = t.max
  BY <1>1, AddedTableIsSound
<1>4. CASE null
  <2>1. result = TableFailed(t, "nullName")
    BY <1>4, Zenon DEF AddSymbol
  <2>2. HasName(Elements(t.chains), NoName)
    <3>1. CASE SearchMeetsNull(t, name)
      <4>1. PICK i \in DOMAIN ChainOf(t, name) : ChainOf(t, name)[i].name = NoName
        BY <3>1 DEF SearchMeetsNull
      <4>2. /\ ChainOf(t, name) = t.chains[BucketOf(t, name)]
            /\ BucketOf(t, name) \in DOMAIN t.chains
        BY <1>1, HashedFacts DEF Chained
      <4> QED BY <4>1, <4>2 DEF HasName, Elements, SymbolsIn
    <3>2. CASE RehashMeetsNull(t, mem)
      BY <3>2 DEF RehashMeetsNull, HasName, Elements, SymbolsIn
    <3> QED BY <1>4, <3>1, <3>2
  <2> HIDE DEF result, why, null
  <2>3. TwoIndexes(result) /\ AddsNothing(t, result)
        /\ result.status = "nullName"
    BY <2>1, FailedKeepsTwoIndexes DEF AddsNothing
  <2> QED BY <1>1, <1>3, <2>2, <2>3 DEF result, why
<1>5. CASE ~null /\ why # "ok"
  <2>1. result = TableFailed(t, why)
    BY <1>5, Zenon DEF AddSymbol
  <2> HIDE DEF result, why, null
  <2>2. TwoIndexes(result) /\ AddsNothing(t, result) /\ result.status = why
    BY <2>1, FailedKeepsTwoIndexes DEF AddsNothing
  <2> QED BY <1>3, <1>5, <2>2 DEF result, why
<1>6. CASE ~null /\ why = "ok"
  <2>0. ~SearchMeetsNull(t, name) /\ ~RehashMeetsNull(t, mem)
    BY <1>6
  <2>1. result \in {TableFailed(r, "noMemory"), added}
    BY <1>6, <2>0, Zenon DEF AddSymbol
  <2>2. /\ TwoIndexes(r) /\ r.list = t.list
        /\ Elements(r.chains) = Elements(t.chains)
    BY <2>0, RehashedFacts
  <2>3. /\ TwoIndexes(TableFailed(r, "noMemory"))
        /\ TableFailed(r, "noMemory").list = t.list
        /\ TableFailed(r, "noMemory").status = "noMemory"
    <3> HIDE DEF r
    <3> QED BY <2>2, FailedKeepsTwoIndexes
  <2>4. FindSymbol(t, name) = NoSymbol
    BY <1>6 DEF Refusal
  <2>5. /\ s \in Entries /\ s.name \in {name, NoName} /\ s.address = a
    BY DEF Symbol, Entries, NameCopied
  <2>6. ~HasName(Elements(r.chains), name)
    BY <1>1, <2>2, <2>4, FindFacts DEF HasName
  <2>7. Hashed(r) /\ r.list \in Seq(Entries) /\ SoundList(r.list)
        /\ SymbolsIn(r.list) = Elements(r.chains)
    BY <2>2 DEF TwoIndexes, SoundTable, SoundList
  <2>8. SymbolsIn(new) = SymbolsIn(r.list) \cup {s}
    <3>1. NumBelow(r.list, a) \in 0 .. Len(r.list)
      BY <2>7, NumBelowFacts
    <3> HIDE DEF r, s
    <3> QED BY <2>5, <2>7, <3>1, InsertedElements
  <2>9. ~SearchMeetsNull(r, name)
    <3>1. r = t \/ ~HasName(Elements(r.chains), NoName)
      BY <2>0, <2>2, RehashedFacts
    <3> HIDE DEF r
    <3>2. CASE r = t
      BY <2>0, <3>2
    <3>3. CASE ~HasName(Elements(r.chains), NoName)
      <4>1. /\ ChainOf(r, name) = r.chains[BucketOf(r, name)]
            /\ BucketOf(r, name) \in DOMAIN r.chains
        BY <2>7, HashedFacts DEF Chained
      <4> QED BY <3>3, <4>1
              DEF SearchMeetsNull, HasName, Elements, SymbolsIn
    <3> QED BY <3>1, <3>2, <3>3
  <2>10. /\ Chained(chains, NumBuckets(r))
         /\ Elements(chains) = Elements(r.chains) \cup {s}
    <3>1. NumBuckets(r) \in Nat \ {0} /\ Chained(r.chains, NumBuckets(r))
      BY <2>7, HashedFacts
    <3>2. chains = Linked(r, LinkFound(r, name), name, s)
      BY DEF LinkBefore
    <3> HIDE DEF r, s, chains
    <3>3. LET h == BucketOf(r, name)
          IN  /\ h \in 0 .. NumBuckets(r) - 1
              /\ InBucket(s, NumBuckets(r), h)
              /\ ~HasName(SymbolsIn(r.chains[h]), s.name)
              /\ WithLink(r.chains, h, s, chains)
      BY <2>5, <2>6, <2>7, <2>9, <3>2, LinkedFacts
    <3> QED BY <2>5, <3>1, <3>3, ChainExtended
  <2>11. ASSUME result = added
        PROVE  TwoIndexes(result) /\ Adds(t, result, s) /\ result.status = "ok"
    <3>1. r \in [chains : {r.chains}, size : {r.size}, list : {r.list},
                 allocated : {r.allocated}, max : {r.max},
                 status : {r.status}]
      BY <2>2 DEF TwoIndexes, SoundTable
    <3> HIDE DEF r, s, new, chains, result
    <3>2. added \in [chains : {chains}, size : {r.size}, list : {new},
                     allocated : {ListSlots(t)}, max : {r.max},
                     status : {"ok"}]
      BY <3>1
    <3> HIDE DEF added
    <3>3. /\ result.chains = chains /\ result.size = r.size
          /\ result.list = new /\ result.status = "ok"
      BY <2>11, <3>2
    <3>4. NumBuckets(result) = NumBuckets(r)
      BY <3>3 DEF NumBuckets
    <3>5. Hashed(result)
      BY <2>7, <2>10, <3>3, <3>4 DEF Hashed
    <3>6. SymbolsIn(result.list) = Elements(result.chains)
      BY <2>7, <2>8, <2>10, <3>3
    <3>7. Adds(t, result, s)
      BY <2>2, <2>8, <3>3 DEF Adds
    <3> QED BY <1>3, <3>3, <3>5, <3>6, <3>7 DEF TwoIndexes
  <2> HIDE DEF result, added, r, s, why, null
  <2>12. CASE result = added
    BY <1>3, <1>6, <2>11, <2>12 DEF result, s, why
  <2>13. CASE result = TableFailed(r, "noMemory")
    <3>1. TwoIndexes(result) /\ AddsNothing(t, result)
          /\ result.status = "noMemory"
      BY <2>3, <2>13 DEF AddsNothing
    <3> QED BY <1>3, <1>6, <3>1 DEF result, s, why
  <2> QED BY <2>1, <2>12, <2>13
<1> QED BY <1>4, <1>5, <1>6
=============================================================================
