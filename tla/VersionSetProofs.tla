------------------------- MODULE VersionSetProofs -------------------------
(***************************************************************************)
(* What the operators of VersionSet return, for any keys, levels and       *)
(* limits: files that are chosen for a compaction are files of the version *)
(* they are chosen from.                                                   *)
(***************************************************************************)
EXTENDS VersionSet, FiniteSetTheorems, FunctionTheorems, SequenceTheorems, TLAPS

-----------------------------------------------------------------------------
(* Finite sets and orders.  An order is the set R of its pairs.            *)

\* A set of numbers that is not empty has a least one.
LEMMA LeastOfNumbers ==
  ASSUME NEW S \in SUBSET Nat, S # {}
  PROVE  Min(S) \in S /\ \A m \in S : Min(S) <= m
<1> DEFINE R == OpToRel(<, Nat)
<1>1. \A n, m \in Nat : m < n => <<m, n>> \in R
  BY DEF OpToRel
<1>2. IsWellFoundedOn(R, Nat)
  BY NatLessThanWellFounded
<1> HIDE DEF R
<1>3. PICK n \in S : \A m \in S : <<m, n>> \notin R
  BY <1>2, WFMin
<1>4. ASSUME NEW m \in S
      PROVE  n <= m
  <2>1. n \in Nat /\ m \in Nat /\ ~(m < n)
    BY <1>1, <1>3
  <2> QED  BY <2>1
<1>5. \E x \in S : \A y \in S : x <= y
  BY <1>4
<1> QED  BY <1>5 DEF Min

\* A finite set of numbers that is not empty has a greatest one.
LEMMA GreatestOfNumbers ==
  ASSUME NEW S \in SUBSET Nat, S # {}, NEW n \in Nat, \A m \in S : m <= n
  PROVE  Max(S) \in S /\ \A m \in S : m <= Max(S)
<1> DEFINE D == {x \in Nat : \A m \in S : m <= x}
<1>1. D \in SUBSET Nat /\ D # {}
  OBVIOUS
<1>2. PICK x \in D : \A y \in D : x <= y
  BY <1>1, LeastOfNumbers
<1>3. x \in S
  <2> SUFFICES ASSUME x \notin S PROVE FALSE
    OBVIOUS
  <2>1. PICK s \in S : TRUE
    OBVIOUS
  <2>2. x \in Nat /\ s \in Nat /\ s <= x /\ s # x
    BY <2>1
  <2>3. x - 1 \in D
    <3>1. x - 1 \in Nat
      BY <2>2
    <3>2. \A m \in S : m \in Nat /\ m <= x /\ m # x
      BY <1>2
    <3> QED  BY <3>1, <3>2, <2>2
  <2>4. x <= x - 1
    BY <1>2, <2>3
  <2> QED  BY <2>2, <2>4
<1>4. \E y \in S : \A m \in S : y >= m
  BY <1>2, <1>3
<1> QED  BY <1>4 DEF Max

\* The elements of F that are before f
Below(F, R, f) == {g \in F : <<g, f>> \in R}

StrictOn(F, R) ==
  /\ \A x \in F : <<x, x>> \notin R
  /\ \A x, y, z \in F : <<x, y>> \in R /\ <<y, z>> \in R => <<x, z>> \in R

TotalOn(F, R) == \A x, y \in F : x = y \/ <<x, y>> \in R \/ <<y, x>> \in R

\* Fewer elements are before an earlier one.
LEMMA BelowGrows ==
  ASSUME NEW F, IsFiniteSet(F), NEW R, StrictOn(F, R), NEW x \in F, NEW y \in F, <<x, y>> \in R
  PROVE  /\ Cardinality(Below(F, R, x)) \in Nat /\ Cardinality(Below(F, R, y)) \in Nat
         /\ Cardinality(Below(F, R, x)) < Cardinality(Below(F, R, y))
<1>1. Below(F, R, y) \in SUBSET F /\ Below(F, R, x) \in SUBSET Below(F, R, y)
  BY DEF Below, StrictOn
<1>2. x \in Below(F, R, y) /\ x \notin Below(F, R, x)
  BY DEF Below, StrictOn
<1>3. IsFiniteSet(Below(F, R, y))
  BY <1>1, FS_Subset
<1>4. /\ IsFiniteSet(Below(F, R, x))
      /\ Cardinality(Below(F, R, x)) <= Cardinality(Below(F, R, y))
      /\ Cardinality(Below(F, R, x)) # Cardinality(Below(F, R, y))
  BY <1>1, <1>2, <1>3, FS_Subset
<1>5. Cardinality(Below(F, R, x)) \in Nat /\ Cardinality(Below(F, R, y)) \in Nat
  BY <1>3, <1>4, FS_CardinalityType
<1> QED  BY <1>4, <1>5

\* A finite set that is not empty has an element with none before it.
LEMMA FirstExists ==
  ASSUME NEW F, IsFiniteSet(F), F # {}, NEW R, StrictOn(F, R)
  PROVE  \E m \in F : \A x \in F : <<x, m>> \notin R
<1> DEFINE S == {Cardinality(Below(F, R, f)) : f \in F}
<1>1. \A f \in F : Cardinality(Below(F, R, f)) \in Nat
  <2> SUFFICES ASSUME NEW f \in F PROVE Cardinality(Below(F, R, f)) \in Nat
    OBVIOUS
  <2>1. Below(F, R, f) \in SUBSET F
    BY DEF Below
  <2> QED  BY <2>1, FS_Subset, FS_CardinalityType
<1>2. S \in SUBSET Nat /\ S # {}
  BY <1>1
<1>3. PICK n \in S : \A k \in S : n <= k
  BY <1>2, LeastOfNumbers
<1>4. PICK m \in F : n = Cardinality(Below(F, R, m))
  BY <1>3
<1>5. ASSUME NEW x \in F, <<x, m>> \in R
      PROVE  FALSE
  <2>1. Cardinality(Below(F, R, x)) < Cardinality(Below(F, R, m))
    BY <1>5, BelowGrows
  <2>2. Cardinality(Below(F, R, m)) <= Cardinality(Below(F, R, x))
    BY <1>3, <1>4
  <2> QED  BY <1>1, <2>1, <2>2
<1> QED  BY <1>5

\* In a finite total order there is an element of every rank.
LEMMA RankExists ==
  ASSUME NEW F, IsFiniteSet(F), NEW R, StrictOn(F, R), TotalOn(F, R), NEW i \in 1..Cardinality(F)
  PROVE  \E f \in F : Cardinality(Below(F, R, f)) = i - 1
<1> DEFINE n == Cardinality(F)
           rank == [f \in F |-> Cardinality(Below(F, R, f))]
<1>1. n \in Nat
  BY FS_CardinalityType
<1>2. ASSUME NEW f \in F
      PROVE  rank[f] \in 0..(n - 1)
  <2>1. Below(F, R, f) \in SUBSET (F \ {f})
    BY DEF Below, StrictOn
  <2>2. IsFiniteSet(F \ {f}) /\ Cardinality(F \ {f}) = n - 1
    BY FS_RemoveElement
  <2>3. /\ Cardinality(Below(F, R, f)) \in Nat
        /\ Cardinality(Below(F, R, f)) <= n - 1
    BY <2>1, <2>2, FS_Subset, FS_CardinalityType
  <2> HIDE DEF n
  <2> QED  BY <1>1, <2>3
<1>3. ASSUME NEW f \in F, NEW g \in F, rank[f] = rank[g]
      PROVE  f = g
  <2>1. <<f, g>> \notin R /\ <<g, f>> \notin R
    BY <1>3, BelowGrows
  <2> QED  BY <2>1 DEF TotalOn
<1>4. IsFiniteSet(0..(n - 1)) /\ Cardinality(0..(n - 1)) = n
  <2> HIDE DEF n
  <2>1. n - 1 \in Int /\ (0 > n - 1 <=> n = 0)
    BY <1>1
  <2> QED  BY <1>1, <2>1, FS_Interval
<1> HIDE DEF rank
<1>5. rank \in Injection(F, 0..(n - 1))
  <2>1. rank \in [F -> 0..(n - 1)]
    BY <1>2 DEF rank
  <2> QED  BY <1>3, <2>1, Fun_IsInj
<1>6. rank \in Surjection(F, 0..(n - 1))
  BY <1>4, <1>5, FS_Injection
<1>7. i - 1 \in 0..(n - 1)
  <2> HIDE DEF n
  <2>1. i \in 1..n
    BY DEF n
  <2> QED  BY <1>1, <2>1
<1>8. \A k \in 0..(n - 1) : \E f \in F : rank[f] = k
  BY <1>6 DEF Surjection
<1>9. \E f \in F : rank[f] = i - 1
  BY <1>7, <1>8
<1> QED  BY <1>9 DEF rank


\* The image of a finite set is finite.
LEMMA ImageFinite ==
  ASSUME NEW S, IsFiniteSet(S), NEW f, f \in [S -> {f[x] : x \in S}]
  PROVE  IsFiniteSet({f[x] : x \in S})
<1>1. f \in Surjection(S, {f[x] : x \in S})
  BY DEF Surjection
<1> QED  BY <1>1, FS_Surjection

-----------------------------------------------------------------------------
(* Entries, files and versions.                                            *)

EntrySet == [key : Keys, del : BOOLEAN]
HistOK == hist \in Seq(EntrySet)
Numbers == 1..Len(hist)

\* The order of the merging iterators, with equality
AtOrBefore(a, b) == a = b \/ ILess(a, b)

\* A table on disk: its entries were written, and its ends are the first and the
\* last of them.
FileOK(f) ==
  /\ f \in DOMAIN table /\ f \in Nat \ {0}
  /\ Entries(f) \in (SUBSET Numbers) \ {{}}
  /\ Smallest(f) \in Entries(f) /\ Largest(f) \in Entries(f)
  /\ Key(Smallest(f)) <= Key(Largest(f))
  /\ \A x \in Entries(f) : AtOrBefore(Smallest(f), x) /\ AtOrBefore(x, Largest(f))

FilesOK(F) == F \in SUBSET Nat /\ IsFiniteSet(F) /\ \A f \in F : FileOK(f)

VersionOK(v) == v \in [Levels -> SUBSET Nat] /\ \A l \in Levels : FilesOK(v[l])

\* The keys are numbers, and internal keys are ordered totally.
LEMMA KeyOrder ==
  ASSUME HistOK
  PROVE  /\ Len(hist) \in Nat /\ Numbers \in SUBSET Nat /\ IsFiniteSet(Numbers)
         /\ \A a \in Numbers : Key(a) \in Keys /\ Key(a) \in Nat
         /\ \A a \in Numbers : ~ILess(a, a)
         /\ \A a, b, c \in Numbers : ILess(a, b) /\ ILess(b, c) => ILess(a, c)
         /\ \A a, b \in Numbers : a = b \/ ILess(a, b) \/ ILess(b, a)
<1>1. Len(hist) \in Nat /\ \A a \in Numbers : hist[a] \in EntrySet
  BY DEF HistOK, Numbers
<1>2. \A a \in Numbers : Key(a) \in Keys /\ Key(a) \in Nat /\ a \in Nat
  <2>1. \A a \in Numbers : a \in Nat
    BY <1>1 DEF Numbers
  <2>2. \A a \in Numbers : hist[a].key \in Keys
    BY <1>1 DEF EntrySet
  <2>3. Keys \in SUBSET Nat
    BY VersionAssumption
  <2> QED  BY <2>1, <2>2, <2>3 DEF Key
<1>3. IsFiniteSet(Numbers)
  BY <1>1, FS_Interval DEF Numbers
<1>4. /\ \A a \in Numbers : ~ILess(a, a)
      /\ \A a, b, c \in Numbers : ILess(a, b) /\ ILess(b, c) => ILess(a, c)
      /\ \A a, b \in Numbers : a = b \/ ILess(a, b) \/ ILess(b, a)
  BY <1>2 DEF ILess
<1> QED  BY <1>1, <1>2, <1>3, <1>4

\* The file that is built of the entries E has ends among them.
LEMMA TableOfFacts ==
  ASSUME HistOK, NEW E \in (SUBSET Numbers) \ {{}}
  PROVE  /\ TableOf(E).entries = E
         /\ TableOf(E).smallest \in E /\ TableOf(E).largest \in E
         /\ Key(TableOf(E).smallest) <= Key(TableOf(E).largest)
         /\ \A x \in E : AtOrBefore(TableOf(E).smallest, x) /\ AtOrBefore(x, TableOf(E).largest)
<1> DEFINE R == {p \in E \X E : ILess(p[1], p[2])}
           Q == {p \in E \X E : ILess(p[2], p[1])}
<1>1. IsFiniteSet(E)
  BY KeyOrder, FS_Subset
<1>2. /\ \A a, b \in E : <<a, b>> \in R <=> ILess(a, b)
      /\ \A a, b \in E : <<a, b>> \in Q <=> ILess(b, a)
  OBVIOUS
<1> HIDE DEF R, Q
<1>3. StrictOn(E, R) /\ StrictOn(E, Q)
  <2>1. \A a \in E : a \in Numbers
    OBVIOUS
  <2>2. StrictOn(E, R)
    BY <1>2, <2>1, KeyOrder DEF StrictOn
  <2>3. StrictOn(E, Q)
    BY <1>2, <2>1, KeyOrder DEF StrictOn
  <2> QED  BY <2>2, <2>3
<1>4. /\ \E e \in E : \A x \in E : x = e \/ ILess(e, x)
      /\ \E e \in E : \A x \in E : x = e \/ ILess(x, e)
  <2>1. PICK e \in E : \A x \in E : <<x, e>> \notin R
    BY <1>1, <1>3, FirstExists
  <2>2. PICK d \in E : \A x \in E : <<x, d>> \notin Q
    BY <1>1, <1>3, FirstExists
  <2>3. \A x \in E : x = e \/ ILess(e, x)
    BY <1>2, <2>1, KeyOrder
  <2>4. \A x \in E : x = d \/ ILess(x, d)
    BY <1>2, <2>2, KeyOrder
  <2> QED  BY <2>3, <2>4
<1> DEFINE low == TableOf(E).smallest
           high == TableOf(E).largest
<1>5. TableOf(E).entries = E
  BY DEF TableOf
<1>6. low \in E /\ \A x \in E : x = low \/ ILess(low, x)
  BY <1>4 DEF TableOf
<1>7. high \in E /\ \A x \in E : x = high \/ ILess(x, high)
  BY <1>4 DEF TableOf
<1> HIDE DEF low, high
<1>8. Key(low) <= Key(high)
  <2>1. Key(low) \in Nat /\ Key(high) \in Nat
    BY <1>6, <1>7, KeyOrder
  <2>2. high = low \/ ILess(low, high)
    BY <1>6, <1>7
  <2> QED  BY <2>1, <2>2 DEF ILess
<1>9. \A x \in E : AtOrBefore(low, x) /\ AtOrBefore(x, high)
  BY <1>6, <1>7 DEF AtOrBefore
<1> QED  BY <1>5, <1>6, <1>7, <1>8, <1>9 DEF low, high

\* The ends of an OK file, as keys
LEMMA FileKeys ==
  ASSUME HistOK, NEW f, FileOK(f)
  PROVE  /\ Smallest(f) \in Numbers /\ Largest(f) \in Numbers
         /\ Key(Smallest(f)) \in Keys /\ Key(Largest(f)) \in Keys
         /\ Key(Smallest(f)) \in Nat /\ Key(Largest(f)) \in Nat
         /\ IsFiniteSet(Entries(f))
<1>1. Smallest(f) \in Numbers /\ Largest(f) \in Numbers /\ Entries(f) \in SUBSET Numbers
  BY DEF FileOK
<1> QED  BY <1>1, KeyOrder, FS_Subset

\* A part of a set of OK files.
LEMMA SomeFiles ==
  ASSUME NEW F, FilesOK(F), NEW G \in SUBSET F
  PROVE  FilesOK(G)
BY FS_Subset DEF FilesOK

\* The size of a set of files is a number, 0 if there are none.
LEMMA SizeFacts ==
  ASSUME HistOK, NEW F, FilesOK(F)
  PROVE  TotalFileSize(F) \in Nat /\ (F = {} => TotalFileSize(F) = 0)
<1> DEFINE parts == [f \in F |-> {f} \X Entries(f)]
           P == {parts[f] : f \in F}
<1>1. IsFiniteSet(F)
  BY DEF FilesOK
<1>2. IsFiniteSet(P)
  <2>1. parts \in [F -> {parts[x] : x \in F}]
    OBVIOUS
  <2> HIDE DEF parts
  <2> QED  BY <1>1, <2>1, ImageFinite
<1>3. \A f \in F : IsFiniteSet(parts[f])
  <2> SUFFICES ASSUME NEW f \in F PROVE IsFiniteSet(parts[f])
    OBVIOUS
  <2>1. IsFiniteSet(Entries(f)) /\ IsFiniteSet({f})
    BY FileKeys, FS_Singleton DEF FilesOK
  <2> QED  BY <2>1, FS_Product
<1>4. IsFiniteSet(UNION P)
  BY <1>2, <1>3, FS_UNION
<1>5. UNION P = UNION {{f} \X Entries(f) : f \in F}
  OBVIOUS
<1>6. F = {} => UNION {{f} \X Entries(f) : f \in F} = {}
  OBVIOUS
<1> HIDE DEF P
<1> QED  BY <1>4, <1>5, <1>6, FS_CardinalityType, FS_EmptySet DEF TotalFileSize

\* BySmallestKey lists the files.
LEMMA SortedFiles ==
  ASSUME HistOK, NEW F, FilesOK(F)
  PROVE  /\ Cardinality(F) \in Nat
         /\ BySmallestKey(F) \in [1..Cardinality(F) -> F]
         /\ F # {} => Cardinality(F) >= 1
<1> DEFINE Before(f) == {g \in F : \/ ILess(Smallest(g), Smallest(f))
                                   \/ Smallest(g) = Smallest(f) /\ g < f}
           R == {p \in F \X F : p[1] \in Before(p[2])}
<1>1. IsFiniteSet(F) /\ F \in SUBSET Nat /\ \A f \in F : Smallest(f) \in Numbers
  BY FileKeys DEF FilesOK
<1>2. \A f, g \in F : <<g, f>> \in R <=> \/ ILess(Smallest(g), Smallest(f))
                                         \/ Smallest(g) = Smallest(f) /\ g < f
  OBVIOUS
<1>3. \A f \in F : Before(f) = Below(F, R, f)
  BY DEF Below
<1> HIDE DEF R
<1>4. StrictOn(F, R) /\ TotalOn(F, R)
  <2>1. \A x, y, z \in F : <<x, y>> \in R /\ <<y, z>> \in R => <<x, z>> \in R
    <3> SUFFICES ASSUME NEW x \in F, NEW y \in F, NEW z \in F, <<x, y>> \in R, <<y, z>> \in R
                 PROVE  <<x, z>> \in R
      OBVIOUS
    <3>1. /\ ILess(Smallest(x), Smallest(y)) \/ (Smallest(x) = Smallest(y) /\ x < y)
          /\ ILess(Smallest(y), Smallest(z)) \/ (Smallest(y) = Smallest(z) /\ y < z)
      BY <1>2
    <3>2. ILess(Smallest(x), Smallest(y)) /\ ILess(Smallest(y), Smallest(z))
             => ILess(Smallest(x), Smallest(z))
      BY <1>1, KeyOrder
    <3>3. x < y /\ y < z => x < z
      BY <1>1
    <3> QED  BY <1>2, <3>1, <3>2, <3>3
  <2>2. \A x \in F : <<x, x>> \notin R
    BY <1>1, <1>2, KeyOrder
  <2>3. \A x, y \in F : x = y \/ <<x, y>> \in R \/ <<y, x>> \in R
    <3> SUFFICES ASSUME NEW x \in F, NEW y \in F, x # y
                 PROVE  <<x, y>> \in R \/ <<y, x>> \in R
      OBVIOUS
    <3>1. \/ Smallest(x) = Smallest(y)
          \/ ILess(Smallest(x), Smallest(y)) \/ ILess(Smallest(y), Smallest(x))
      BY <1>1, KeyOrder
    <3>2. x < y \/ y < x
      BY <1>1
    <3> QED  BY <1>2, <3>1, <3>2
  <2> QED  BY <2>1, <2>2, <2>3 DEF StrictOn, TotalOn
<1>5. \A i \in 1..Cardinality(F) : \E f \in F : Cardinality(Before(f)) = i - 1
  <2> HIDE DEF Before
  <2>1. \A i \in 1..Cardinality(F) : \E f \in F : Cardinality(Below(F, R, f)) = i - 1
    BY <1>1, <1>4, RankExists
  <2> QED  BY <1>3, <2>1
<1>6. BySmallestKey(F) \in [1..Cardinality(F) -> F]
  BY <1>5 DEF BySmallestKey
<1>7. Cardinality(F) \in Nat /\ (F # {} => Cardinality(F) # 0)
  BY <1>1, FS_CardinalityType, FS_EmptySet
<1> QED  BY <1>6, <1>7

\* The ends of a set of files are ends of one of them.
LEMMA RangeEnds ==
  ASSUME HistOK, NEW F, FilesOK(F), F # {}
  PROVE  /\ \E f \in F : RangeStart(F) = Smallest(f)
         /\ \E f \in F : RangeLimit(F) = Largest(f)
         /\ RangeStart(F) \in Numbers /\ RangeLimit(F) \in Numbers
         /\ Key(RangeStart(F)) \in Keys /\ Key(RangeLimit(F)) \in Keys
<1> DEFINE R == {p \in F \X F : ILess(Smallest(p[1]), Smallest(p[2]))}
           Q == {p \in F \X F : ILess(Largest(p[2]), Largest(p[1]))}
<1>1. IsFiniteSet(F) /\ \A f \in F : Smallest(f) \in Numbers /\ Largest(f) \in Numbers
  BY FileKeys DEF FilesOK
<1>2. /\ \A f, g \in F : <<g, f>> \in R <=> ILess(Smallest(g), Smallest(f))
      /\ \A f, g \in F : <<g, f>> \in Q <=> ILess(Largest(f), Largest(g))
  OBVIOUS
<1> HIDE DEF R, Q
<1>3. StrictOn(F, R)
  BY <1>1, <1>2, KeyOrder DEF StrictOn
<1>4. StrictOn(F, Q)
  BY <1>1, <1>2, KeyOrder DEF StrictOn
<1>5. \E f \in F : \A g \in F : ~ILess(Smallest(g), Smallest(f))
  <2>1. \E m \in F : \A x \in F : <<x, m>> \notin R
    BY <1>1, <1>3, FirstExists
  <2> QED  BY <1>2, <2>1
<1>6. \E f \in F : \A g \in F : ~ILess(Largest(f), Largest(g))
  <2>1. \E m \in F : \A x \in F : <<x, m>> \notin Q
    BY <1>1, <1>4, FirstExists
  <2> QED  BY <1>2, <2>1
<1>7. \E f \in F : RangeStart(F) = Smallest(f)
  BY <1>5 DEF RangeStart
<1>8. \E f \in F : RangeLimit(F) = Largest(f)
  BY <1>6 DEF RangeLimit
<1> QED  BY <1>1, <1>7, <1>8, KeyOrder


-----------------------------------------------------------------------------
(* Functions defined by recursion over 0..N.                               *)

\* f starts at a, and its value at n follows by G from the one before.
Recursion(f, N, a, G) == \A n \in 0..N : f[n] = IF n = 0 THEN a ELSE G[<<n, f[n - 1]>>]

\* A step function gives a function on 0..N.
LEMMA RecursiveFunction ==
  ASSUME NEW N \in Nat, NEW D, NEW a \in D, NEW G \in [(1..N) \X D -> D]
  PROVE  \E f \in [0..N -> D] : Recursion(f, N, a, G)
<1> DEFINE Good(m) == \E f \in [0..m -> D] :
                        \A n \in 0..m : f[n] = IF n = 0 THEN a ELSE G[<<n, f[n - 1]>>]
           S == {m \in 0..N : ~Good(m)}
<1>1. S = {}
  <2> SUFFICES ASSUME S # {} PROVE FALSE
    OBVIOUS
  <2>1. S \in SUBSET Nat
    OBVIOUS
  <2>2. PICK m \in S : \A k \in S : m <= k
    BY <2>1, LeastOfNumbers
  <2>3. m \in 0..N /\ ~Good(m)
    OBVIOUS
  <2>4. CASE m = 0
    <3>1. [n \in 0..0 |-> a] \in [0..0 -> D]
      OBVIOUS
    <3>2. \A n \in 0..0 : [x \in 0..0 |-> a][n] = IF n = 0 THEN a ELSE G[<<n, [x \in 0..0 |-> a][n - 1]>>]
      OBVIOUS
    <3>3. Good(0)
      BY <3>1, <3>2
    <3> QED  BY <2>3, <2>4, <3>3
  <2>5. CASE m # 0
    <3>1. m - 1 \in 0..N /\ m \in 1..N /\ m - 1 < m
      BY <2>3, <2>5
    <3>2. m - 1 \notin S
      BY <2>2, <2>3, <3>1
    <3>3. PICK f \in [0..(m - 1) -> D] :
            \A n \in 0..(m - 1) : f[n] = IF n = 0 THEN a ELSE G[<<n, f[n - 1]>>]
      BY <3>1, <3>2
    <3> DEFINE g == [n \in 0..m |-> IF n = m THEN G[<<m, f[m - 1]>>] ELSE f[n]]
    <3>4. f[m - 1] \in D /\ G[<<m, f[m - 1]>>] \in D
      BY <3>1
    <3>5. \A n \in 0..m : n = m \/ n \in 0..(m - 1)
      BY <3>1
    <3>6. g \in [0..m -> D]
      BY <3>4, <3>5
    <3>7. ASSUME NEW n \in 0..m
          PROVE  g[n] = IF n = 0 THEN a ELSE G[<<n, g[n - 1]>>]
      <4>1. n # 0 => n - 1 \in 0..m /\ n - 1 # m
        BY <3>1
      <4>2. CASE n = m
        BY <2>5, <4>1, <4>2
      <4>3. CASE n # m
        <5>1. n \in 0..(m - 1)
          BY <3>5, <4>3
        <5>2. g[n] = f[n] /\ (n # 0 => g[n - 1] = f[n - 1])
          BY <4>1, <4>3
        <5> QED  BY <3>3, <5>1, <5>2
      <4> QED  BY <4>2, <4>3
    <3> HIDE DEF g
    <3>8. Good(m)
      BY <3>6, <3>7
    <3> QED  BY <2>3, <3>8
  <2> QED  BY <2>4, <2>5
<1>2. Good(N)
  BY <1>1
<1> QED  BY <1>2 DEF Recursion

\* What holds at 0 and is kept by every step holds on 0..N.
LEMMA RecursiveMember ==
  ASSUME NEW N \in Nat, NEW D, NEW f, f[0] \in D, \A n \in 1..N : f[n - 1] \in D => f[n] \in D
  PROVE  \A n \in 0..N : f[n] \in D
<1> DEFINE S == {n \in 0..N : f[n] \notin D}
<1> SUFFICES ASSUME S # {} PROVE FALSE
  OBVIOUS
<1>1. S \in SUBSET Nat
  OBVIOUS
<1>2. PICK m \in S : \A k \in S : m <= k
  BY <1>1, LeastOfNumbers
<1>3. m \in 1..N /\ m - 1 \in 0..N /\ ~(m <= m - 1)
  BY <1>2
<1>4. f[m - 1] \in D
  BY <1>2, <1>3
<1> QED  BY <1>2, <1>3, <1>4

-----------------------------------------------------------------------------
(* The level that is compacted.                                            *)

\* Products of natural numbers are ordered as their factors.
LEMMA ProductOrder ==
  ASSUME NEW x \in Nat, NEW y \in Nat, NEW z \in Nat \ {0}
  PROVE  /\ x >= y => x * z >= y * z
         /\ x > y => x * z > y * z
         /\ x * z >= y * z => x >= y
         /\ x * z > y * z => x > y
<1>1. x > y => x * z > y * z
  BY Z3
<1>2. y > x => y * z > x * z
  BY Z3
<1>3. x * z \in Nat /\ y * z \in Nat
  OBVIOUS
<1> QED  BY <1>1, <1>2, <1>3

\* Fractions a/b, c/d, e/f are compared by their cross products.
LEMMA FractionOrder ==
  ASSUME NEW a \in Nat, NEW c \in Nat, NEW e \in Nat,
         NEW b \in Nat \ {0}, NEW d \in Nat \ {0}, NEW f \in Nat \ {0},
         a * d >= c * b, c * f >= e * d
  PROVE  /\ a * f >= e * b
         /\ a * d > c * b \/ c * f > e * d => a * f > e * b
<1>1. /\ a * d \in Nat /\ c * b \in Nat /\ c * f \in Nat
      /\ e * d \in Nat /\ a * f \in Nat /\ e * b \in Nat
  OBVIOUS
<1>2. /\ (a * d) * f >= (c * b) * f
      /\ a * d > c * b => (a * d) * f > (c * b) * f
  BY <1>1, ProductOrder
<1>3. /\ (c * f) * b >= (e * d) * b
      /\ c * f > e * d => (c * f) * b > (e * d) * b
  BY <1>1, ProductOrder
<1>4. /\ (a * d) * f = (a * f) * d
      /\ (c * b) * f = (c * f) * b
      /\ (e * d) * b = (e * b) * d
  BY Z3
<1>5. /\ (a * f) * d \in Nat /\ (c * f) * b \in Nat /\ (e * b) * d \in Nat
  BY <1>1
<1>6. /\ (a * f) * d >= (e * b) * d
      /\ a * d > c * b \/ c * f > e * d => (a * f) * d > (e * b) * d
  BY <1>2, <1>3, <1>4, <1>5
<1>7. /\ (a * f) * d >= (e * b) * d => a * f >= e * b
      /\ (a * f) * d > (e * b) * d => a * f > e * b
  BY <1>1, ProductOrder
<1> QED  BY <1>6, <1>7


\* The score of a level is a fraction of numbers.
LEMMA ScoreFacts ==
  ASSUME HistOK, NEW v, VersionOK(v), NEW l \in 0..(kNumLevels - 2)
  PROVE  /\ Score(v, l)[1] \in Nat /\ Score(v, l)[2] \in Nat \ {0}
         /\ v[l] = {} => Score(v, l)[1] = 0
<1>1. l \in Levels /\ FilesOK(v[l])
  BY VersionAssumption DEF VersionOK, Levels
<1>2. CASE l = 0
  <2>1. IsFiniteSet(v[0])
    BY <1>1, <1>2 DEF FilesOK
  <2>2. Cardinality(v[0]) \in Nat /\ (v[0] = {} => Cardinality(v[0]) = 0)
    BY <2>1, FS_CardinalityType, FS_EmptySet
  <2> QED  BY <1>2, <2>2, VersionAssumption DEF Score
<1>3. CASE l # 0
  <2>1. l \in 1..(kNumLevels - 1)
    BY <1>3, VersionAssumption
  <2>2. MaxBytesForLevel(l) \in Nat \ {0}
    BY <2>1, LimitAssumption
  <2>3. TotalFileSize(v[l]) \in Nat /\ (v[l] = {} => TotalFileSize(v[l]) = 0)
    BY <1>1, SizeFacts
  <2> QED  BY <1>3, <2>2, <2>3 DEF Score
<1> QED  BY <1>2, <1>3

\* There is a level with the best score, and it has files if some score is 1.
LEMMA BestLevel ==
  ASSUME HistOK, NEW v, VersionOK(v)
  PROVE  /\ CompactionLevel(v) \in 0..(kNumLevels - 2)
         /\ SizeCompaction(v) => v[CompactionLevel(v)] # {}
<1> DEFINE L == 0..(kNumLevels - 2)
           num(l) == Score(v, l)[1]
           den(l) == Score(v, l)[2]
           better(l, m) == num(l) * den(m) > num(m) * den(l)
           R == {p \in L \X L : better(p[1], p[2]) \/ (~better(p[2], p[1]) /\ p[1] < p[2])}
<1>1. \A l \in L : num(l) \in Nat /\ den(l) \in Nat \ {0} /\ (v[l] = {} => num(l) = 0)
  BY ScoreFacts
<1>2. \A l, m \in L : num(l) * den(m) \in Nat
  BY <1>1
<1>3. \A l, m \in L : <<l, m>> \in R <=> better(l, m) \/ (~better(m, l) /\ l < m)
  OBVIOUS
<1>4. L \in SUBSET Nat /\ IsFiniteSet(L) /\ 0 \in L
  <2>1. kNumLevels - 2 \in Int /\ 0 \in Int /\ 0 <= kNumLevels - 2
    BY VersionAssumption
  <2> QED  BY <2>1, FS_Interval
<1> HIDE DEF R, num, den, L
<1>5. StrictOn(L, R)
  <2>1. \A x \in L : <<x, x>> \notin R
    BY <1>2, <1>3, <1>4
  <2>2. ASSUME NEW x \in L, NEW y \in L, NEW z \in L, <<x, y>> \in R, <<y, z>> \in R
        PROVE  <<x, z>> \in R
    <3>1. /\ num(x) * den(y) >= num(y) * den(x)
          /\ num(x) * den(y) > num(y) * den(x) \/ x < y
      BY <1>2, <1>3, <2>2
    <3>2. /\ num(y) * den(z) >= num(z) * den(y)
          /\ num(y) * den(z) > num(z) * den(y) \/ y < z
      BY <1>2, <1>3, <2>2
    <3>3. /\ num(x) * den(z) >= num(z) * den(x)
          /\ num(x) * den(y) > num(y) * den(x) \/ num(y) * den(z) > num(z) * den(y)
               => num(x) * den(z) > num(z) * den(x)
      <4>1. /\ num(x) \in Nat /\ num(y) \in Nat /\ num(z) \in Nat
            /\ den(x) \in Nat \ {0} /\ den(y) \in Nat \ {0} /\ den(z) \in Nat \ {0}
        BY <1>1
      <4> HIDE DEF better
      <4> QED  BY <3>1, <3>2, <4>1, FractionOrder
    <3>4. x < y /\ y < z => x < z
      BY <1>4
    <3>5. better(x, z) \/ (~better(z, x) /\ x < z)
      BY <1>2, <3>1, <3>2, <3>3, <3>4
    <3> QED  BY <1>3, <3>5
  <2> QED  BY <2>1, <2>2 DEF StrictOn
<1>6. PICK b \in L : \A x \in L : <<x, b>> \notin R
  BY <1>4, <1>5, FirstExists
<1>7. ASSUME NEW m \in L, m # b
      PROVE  better(b, m) \/ (~better(m, b) /\ b < m)
  <2>1. ~better(m, b) /\ (better(b, m) \/ ~(m < b))
    BY <1>3, <1>6
  <2>2. m < b \/ b < m
    BY <1>4, <1>7
  <2> QED  BY <2>1, <2>2
<1>8. \E l \in L : \A m \in L : m # l => better(l, m) \/ (~better(m, l) /\ l < m)
  BY <1>7
<1> DEFINE B == CompactionLevel(v)
<1>9. B \in L /\ \A m \in L : m # B => better(B, m) \/ (~better(m, B) /\ B < m)
  BY <1>8 DEF CompactionLevel, L, num, den
<1> HIDE DEF B
<1>10. ASSUME SizeCompaction(v), v[B] = {}
       PROVE  FALSE
  <2>1. PICK l \in L : num(l) >= den(l)
    BY <1>10 DEF SizeCompaction, L, num, den
  <2>2. num(B) = 0 /\ num(l) \in Nat \ {0} /\ den(B) \in Nat \ {0} /\ den(l) \in Nat \ {0}
    BY <1>1, <1>9, <1>10, <2>1
  <2>3. l # B
    BY <2>2
  <2>4. num(B) * den(l) >= num(l) * den(B)
    BY <1>2, <1>9, <2>3
  <2>5. num(B) * den(l) = 0 /\ num(l) * den(B) \in Nat \ {0}
    BY <2>2, Z3
  <2> QED  BY <2>4, <2>5
<1> QED  BY <1>9, <1>10 DEF B, L


-----------------------------------------------------------------------------
(* The files that overlap a range.                                         *)

\* They are files of the level.
LEMMA OverlapWithin ==
  ASSUME NEW v, NEW l, NEW b, NEW e
  PROVE  GetOverlappingInputs(v, l, b, e) \in SUBSET v[l]
BY ZenonT(120) DEF GetOverlappingInputs

\* A finite set of numbers with one more number has a least and a greatest one.
LEMMA EndsOfNumbers ==
  ASSUME NEW S \in SUBSET Nat, IsFiniteSet(S), NEW n \in Nat
  PROVE  /\ Min({n} \cup S) \in Nat /\ Min({n} \cup S) <= n
         /\ Max({n} \cup S) \in Nat /\ n <= Max({n} \cup S)
         /\ Min({n} \cup S) \in {n} \cup S /\ Max({n} \cup S) \in {n} \cup S
         /\ \A m \in S : Min({n} \cup S) <= m /\ m <= Max({n} \cup S)
<1> DEFINE T == {n} \cup S
           R == {p \in T \X T : p[1] > p[2]}
<1>1. T \in SUBSET Nat /\ T # {} /\ n \in T
  OBVIOUS
<1>2. IsFiniteSet(T)
  <2>1. IsFiniteSet({n})
    BY FS_Singleton
  <2> QED  BY <2>1, FS_Union
<1>3. \A x, y \in T : <<x, y>> \in R <=> x > y
  OBVIOUS
<1> HIDE DEF T, R
<1>4. StrictOn(T, R)
  BY <1>1, <1>3 DEF StrictOn
<1>5. PICK m \in T : \A x \in T : <<x, m>> \notin R
  BY <1>1, <1>2, <1>4, FirstExists
<1>6. \A x \in T : x <= m
  <2>1. \A x \in T : x \in Nat /\ m \in Nat /\ ~(x > m)
    BY <1>1, <1>3, <1>5
  <2> QED  BY <2>1
<1>7. Max(T) \in T /\ \A x \in T : x <= Max(T)
  <2>1. m \in Nat
    BY <1>1
  <2> QED  BY <1>1, <1>6, <2>1, GreatestOfNumbers
<1>8. Min(T) \in T /\ \A x \in T : Min(T) <= x
  BY <1>1, LeastOfNumbers
<1>9. Min(T) \in Nat /\ Min(T) <= n /\ Max(T) \in Nat /\ n <= Max(T)
  BY <1>1, <1>7, <1>8
<1>10. S \in SUBSET T
  BY DEF T
<1>11. \A q \in S : Min(T) <= q /\ q <= Max(T)
  BY <1>7, <1>8, <1>10
<1> QED  BY <1>7, <1>8, <1>9, <1>11 DEF T

\* Every file of the level with a key in the range is among them: in level 0 the
\* range only widens.
LEMMA OverlapHas ==
  ASSUME HistOK, NEW v, VersionOK(v), NEW l \in Levels, NEW f \in v[l],
         NEW b \in Nat, NEW e \in Nat, b <= Key(Largest(f)), Key(Smallest(f)) <= e
  PROVE  f \in GetOverlappingInputs(v, l, b, e)
<1> DEFINE N == Cardinality(v[l])
           D == {r \in Nat \X Nat : r[1] <= b /\ e <= r[2]}
           Hits(r) == {g \in v[l] : ~Outside(g, r[1], r[2])}
           Widen(r) == <<IF r[1] = NULL THEN NULL ELSE Min({r[1]} \cup {Key(Smallest(g)) : g \in Hits(r)}),
                         IF r[2] = NULL THEN NULL ELSE Max({r[2]} \cup {Key(Largest(g)) : g \in Hits(r)})>>
           widened[n \in 0..N] == IF n = 0 THEN <<b, e>> ELSE Widen(widened[n - 1])
<1>1. FilesOK(v[l]) /\ IsFiniteSet(v[l]) /\ N \in Nat
  BY FS_CardinalityType DEF VersionOK, FilesOK
<1>2. Key(Smallest(f)) \in Nat /\ Key(Largest(f)) \in Nat
  BY <1>1, FileKeys DEF FilesOK
<1>3. ASSUME NEW r \in D
      PROVE  f \in Hits(r)
  <2>1. r[1] \in Nat /\ r[2] \in Nat /\ r[1] <= b /\ e <= r[2]
    OBVIOUS
  <2>2. ~(r[1] > Key(Largest(f))) /\ ~(r[2] < Key(Smallest(f)))
    BY <1>2, <2>1
  <2> QED  BY <2>2 DEF Outside
<1>4. ASSUME NEW r \in D
      PROVE  Widen(r) \in D
  <2> DEFINE H == Hits(r)
             low == [g \in H |-> Key(Smallest(g))]
             high == [g \in H |-> Key(Largest(g))]
             lows == {Key(Smallest(g)) : g \in H}
             highs == {Key(Largest(g)) : g \in H}
  <2>1. r[1] \in Nat /\ r[2] \in Nat /\ r[1] <= b /\ e <= r[2]
    OBVIOUS
  <2>2. H \in SUBSET v[l] /\ IsFiniteSet(H)
    BY <1>1, FS_Subset
  <2>3. \A g \in H : Key(Smallest(g)) \in Nat /\ Key(Largest(g)) \in Nat
    BY <1>1, <2>2, FileKeys DEF FilesOK
  <2> HIDE DEF H
  <2>4. lows = {low[g] : g \in H} /\ highs = {high[g] : g \in H}
    OBVIOUS
  <2>5. low \in [H -> {low[g] : g \in H}] /\ high \in [H -> {high[g] : g \in H}]
    OBVIOUS
  <2> HIDE DEF low, high
  <2>6. IsFiniteSet(lows) /\ IsFiniteSet(highs)
    <3> HIDE DEF lows, highs
    <3>1. IsFiniteSet({low[g] : g \in H})
      BY <2>2, <2>5, ImageFinite
    <3>2. IsFiniteSet({high[g] : g \in H})
      BY <2>2, <2>5, ImageFinite
    <3> QED  BY <2>4, <3>1, <3>2
  <2>7. lows \in SUBSET Nat /\ highs \in SUBSET Nat
    BY <2>3
  <2> HIDE DEF lows, highs
  <2>8. Min({r[1]} \cup lows) \in Nat /\ Min({r[1]} \cup lows) <= r[1]
    BY <2>1, <2>6, <2>7, EndsOfNumbers
  <2>9. Max({r[2]} \cup highs) \in Nat /\ r[2] <= Max({r[2]} \cup highs)
    BY <2>1, <2>6, <2>7, EndsOfNumbers
  <2>10. Widen(r) = <<Min({r[1]} \cup lows), Max({r[2]} \cup highs)>>
    <3>1. r[1] # NULL /\ r[2] # NULL
      BY <2>1 DEF NULL
    <3> QED  BY <3>1 DEF lows, highs, H
  <2>11. Min({r[1]} \cup lows) <= b /\ e <= Max({r[2]} \cup highs)
    BY <2>1, <2>8, <2>9
  <2> QED  BY <2>8, <2>9, <2>10, <2>11
<1>5. <<b, e>> \in D
  OBVIOUS
<1> HIDE DEF Hits, Widen, D, N
<1>6. \A n \in 0..N : widened[n] \in D
  <2> DEFINE G == [p \in (1..N) \X D |-> Widen(p[2])]
  <2>1. G \in [(1..N) \X D -> D]
    BY <1>4
  <2>2. PICK w \in [0..N -> D] : \A n \in 0..N : w[n] = IF n = 0 THEN <<b, e>> ELSE G[<<n, w[n - 1]>>]
    <3> DEFINE start == <<b, e>>
    <3>1. start \in D
      BY <1>5
    <3> HIDE DEF G, start, widened
    <3>2. \E w \in [0..N -> D] : Recursion(w, N, start, G)
      <4>1. N \in Nat
        BY <1>1
      <4> QED  BY <2>1, <3>1, <4>1, RecursiveFunction
    <3> QED  BY <3>2 DEF start, Recursion
  <2>3. \A n \in 0..N : n # 0 => n \in 1..N /\ w[n - 1] \in D
    BY <1>1
  <2>4. w = [n \in 0..N |-> IF n = 0 THEN <<b, e>> ELSE Widen(w[n - 1])]
    BY <2>2, <2>3
  <2>5. widened = [n \in 0..N |-> IF n = 0 THEN <<b, e>> ELSE Widen(widened[n - 1])]
    BY <2>4
  <2> HIDE DEF widened
  <2>6. widened[0] \in D
    BY <1>1, <1>5, <2>5
  <2>7. \A n \in 1..N : widened[n - 1] \in D => widened[n] \in D
    <3> SUFFICES ASSUME NEW n \in 1..N, widened[n - 1] \in D PROVE widened[n] \in D
      OBVIOUS
    <3>1. n \in 0..N /\ n # 0
      BY <1>1
    <3>2. widened[n] = Widen(widened[n - 1])
      BY <2>5, <3>1
    <3> QED  BY <1>4, <3>2
  <2> QED  BY <1>1, <2>6, <2>7, RecursiveMember
<1>7. GetOverlappingInputs(v, l, b, e) = IF l = 0 THEN Hits(widened[N]) ELSE Hits(<<b, e>>)
  BY ZenonT(120) DEF GetOverlappingInputs, Hits, Widen, N
<1>8. N \in 0..N
  BY <1>1
<1> QED  BY <1>3, <1>5, <1>6, <1>7, <1>8


-----------------------------------------------------------------------------
(* The compactions that are chosen.                                        *)

Compactions ==
  [level : Int, in0 : SUBSET Nat, in1 : SUBSET Nat, grandparents : SUBSET Nat,
   pointer : Nat, version : [Levels -> SUBSET Nat],
   manual : BOOLEAN, smallest_snapshot : Nat, outputs : Seq(Nat)]

\* A compaction of files of its version, at least one, that has a next level.
CompactionOK(c) ==
  /\ c \in Compactions
  /\ c.level \in 0..(kNumLevels - 2)
  /\ VersionOK(c.version)
  /\ c.in0 \in (SUBSET c.version[c.level]) \ {{}}
  /\ c.in1 \in SUBSET c.version[c.level + 1]
  /\ c.pointer \in Numbers

\* What SetupOtherInputs makes of files of a level is such a compaction.
LEMMA OtherInputs ==
  ASSUME HistOK, NEW v, VersionOK(v), NEW l \in 0..(kNumLevels - 2),
         NEW in0 \in (SUBSET v[l]) \ {{}}
  PROVE  LET c == SetupOtherInputs(v, l, in0)
         IN  /\ CompactionOK(c)
             /\ c.version = v /\ c.level = l /\ c.outputs = <<>>
<1> DEFINE Overlap(m, F) == GetOverlappingInputs(v, m, Key(RangeStart(F)), Key(RangeLimit(F)))
           in1 == Overlap(l + 1, in0)
           expanded0 == Overlap(l, in0 \cup in1)
           expanded1 == Overlap(l + 1, expanded0)
           expand == /\ in1 # {}
                     /\ Cardinality(expanded0) > Cardinality(in0)
                     /\ TotalFileSize(in1) + TotalFileSize(expanded0) < ExpandedLimit
                     /\ Cardinality(expanded1) = Cardinality(in1)
           first == IF expand THEN expanded0 ELSE in0
           second == IF expand THEN expanded1 ELSE in1
           third == IF l + 2 < kNumLevels THEN Overlap(l + 2, first \cup second) ELSE {}
<1>1. l \in Levels /\ l + 1 \in Levels /\ (l + 2 < kNumLevels => l + 2 \in Levels)
  BY VersionAssumption DEF Levels
<1>2. v \in [Levels -> SUBSET Nat] /\ FilesOK(v[l])
  BY <1>1 DEF VersionOK
<1>3. \A m, F : Overlap(m, F) \in SUBSET v[m]
  BY OverlapWithin
<1> HIDE DEF Overlap
<1>4. in1 \in SUBSET v[l + 1] /\ expanded0 \in SUBSET v[l] /\ expanded1 \in SUBSET v[l + 1]
  BY <1>3
<1>5. Cardinality(expanded0) > Cardinality(in0) => expanded0 # {}
  <2>1. IsFiniteSet(in0)
    BY <1>2, FS_Subset DEF FilesOK
  <2>2. Cardinality(in0) \in Nat
    BY <2>1, FS_CardinalityType
  <2>3. expanded0 = {} => Cardinality(expanded0) = 0
    BY FS_EmptySet
  <2> HIDE DEF expanded0
  <2> QED  BY <2>2, <2>3
<1>6. first \in (SUBSET v[l]) \ {{}}
  BY <1>4, <1>5
<1>7. second \in SUBSET v[l + 1]
  BY <1>4
<1>8. third \in SUBSET Nat
  <2> HIDE DEF first, second
  <2>1. CASE l + 2 < kNumLevels
    BY <1>1, <1>2, <1>3, <2>1
  <2>2. CASE ~(l + 2 < kNumLevels)
    BY <2>2
  <2> QED  BY <2>1, <2>2
<1>9. RangeLimit(first) \in Numbers /\ RangeLimit(first) \in Nat
  <2> HIDE DEF first
  <2>1. FilesOK(first) /\ first # {}
    BY <1>2, <1>6, SomeFiles
  <2> QED  BY <2>1, RangeEnds, KeyOrder
<1>10. SetupOtherInputs(v, l, in0) =
         [level |-> l, in0 |-> first, in1 |-> second, grandparents |-> third,
          pointer |-> RangeLimit(first), version |-> v,
          manual |-> FALSE, smallest_snapshot |-> None, outputs |-> <<>>]
  BY DEF SetupOtherInputs, Overlap
<1> HIDE DEF first, second, third
<1>11. first \in SUBSET Nat /\ second \in SUBSET Nat /\ l \in Int
  BY <1>1, <1>2, <1>6, <1>7
<1>12. <<>> \in Seq(Nat) /\ None \in Nat
  BY DEF None
<1>13. SetupOtherInputs(v, l, in0) \in Compactions
  BY <1>2, <1>8, <1>9, <1>10, <1>11, <1>12 DEF Compactions
<1> QED  BY <1>6, <1>7, <1>9, <1>10, <1>13 DEF CompactionOK

\* A file that is charged with a seek, or the mark that there is none
SeekOK(v, f) == f = NoFile \/ (f[1] \in 0..(kNumLevels - 2) /\ f[2] \in v[f[1]])

\* The files that a compaction starts from: in level 0 those that overlap a range.
Asked(v, l, F) ==
  /\ l \in 0..(kNumLevels - 2) /\ F \in (SUBSET v[l]) \ {{}}
  /\ l = 0 => \E b, e \in Nat \cup {NULL} : F = GetOverlappingInputs(v, 0, b, e)

\* PickCompaction starts from one file and, in level 0, what overlaps it.
Around(v, l, F) ==
  /\ l \in 0..(kNumLevels - 2)
  /\ \E f \in v[l] : F = IF l = 0 THEN GetOverlappingInputs(v, 0, Key(Smallest(f)), Key(Largest(f))) ELSE {f}

LEMMA AroundIsAsked ==
  ASSUME HistOK, NEW v, VersionOK(v), NEW l, NEW F, Around(v, l, F)
  PROVE  Asked(v, l, F)
<1>1. l \in 0..(kNumLevels - 2) /\ l \in Levels /\ FilesOK(v[l])
  BY VersionAssumption DEF Around, Levels, VersionOK
<1>2. PICK f \in v[l] : F = IF l = 0 THEN GetOverlappingInputs(v, 0, Key(Smallest(f)), Key(Largest(f))) ELSE {f}
  BY DEF Around
<1>3. CASE l = 0
  <2>1. /\ Key(Smallest(f)) \in Nat /\ Key(Largest(f)) \in Nat
        /\ Smallest(f) \in Numbers /\ Largest(f) \in Numbers
    BY <1>1, FileKeys DEF FilesOK
  <2>2. Key(Smallest(f)) <= Key(Largest(f))
    BY <1>1 DEF FilesOK, FileOK
  <2>3. f \in GetOverlappingInputs(v, l, Key(Smallest(f)), Key(Largest(f)))
    BY <1>1, <2>1, <2>2, OverlapHas
  <2> QED  BY <1>1, <1>2, <1>3, <2>1, <2>3, OverlapWithin DEF Asked
<1>4. CASE l # 0
  BY <1>1, <1>2, <1>4 DEF Asked
<1> QED  BY <1>3, <1>4

\* PickCompaction picks a compaction of the version, if any.
LEMMA Picked ==
  ASSUME HistOK, NEW v, VersionOK(v), NEW pointers, NEW seek, SeekOK(v, seek)
  PROVE  LET c == PickCompaction(v, pointers, seek)
         IN  \/ c = NoCompaction
             \/ /\ CompactionOK(c) /\ c.version = v /\ c.outputs = <<>>
                /\ \E l, F : Around(v, l, F) /\ c = SetupOtherInputs(v, l, F)
<1> DEFINE l == CompactionLevel(v)
           files == BySmallestKey(v[l])
           after == {i \in DOMAIN files : \/ pointers[l] = None
                                          \/ ILess(pointers[l], Largest(files[i]))}
           picked == IF after = {} THEN files[1] ELSE files[Min(after)]
           Inputs(m, f) == IF m = 0
                           THEN GetOverlappingInputs(v, 0, Key(Smallest(f)), Key(Largest(f)))
                           ELSE {f}
<1>1. ASSUME NEW m \in 0..(kNumLevels - 2), NEW f \in v[m]
      PROVE  Around(v, m, Inputs(m, f)) /\ Inputs(m, f) \in (SUBSET v[m]) \ {{}}
  <2> DEFINE in == Inputs(m, f)
  <2>1. Around(v, m, in)
    BY DEF Around
  <2> HIDE DEF in
  <2>2. Asked(v, m, in)
    BY <2>1, AroundIsAsked
  <2> QED  BY <2>1, <2>2 DEF Asked, in
<1>2. ASSUME SizeCompaction(v)
      PROVE  l \in 0..(kNumLevels - 2) /\ picked \in v[l]
  <2>1. l \in 0..(kNumLevels - 2) /\ v[l] # {}
    BY <1>2, BestLevel
  <2>2. FilesOK(v[l])
    <3>1. l \in Levels
      BY <2>1, VersionAssumption DEF Levels
    <3> QED  BY <3>1 DEF VersionOK
  <2> HIDE DEF l
  <2>3. files \in [1..Cardinality(v[l]) -> v[l]] /\ Cardinality(v[l]) \in Nat /\ Cardinality(v[l]) >= 1
    BY <2>1, <2>2, SortedFiles
  <2> HIDE DEF files
  <2>4. after \in SUBSET (1..Cardinality(v[l])) /\ after \in SUBSET Nat
    BY <2>3
  <2> HIDE DEF after
  <2>5. after # {} => Min(after) \in after
    BY <2>4, LeastOfNumbers
  <2>6. 1 \in 1..Cardinality(v[l])
    BY <2>3
  <2> QED  BY <2>1, <2>3, <2>4, <2>5, <2>6
<1> HIDE DEF Inputs, picked, l
<1>3. PickCompaction(v, pointers, seek) =
        CASE SizeCompaction(v) -> SetupOtherInputs(v, l, Inputs(l, picked))
          [] ~SizeCompaction(v) /\ seek # NoFile ->
               SetupOtherInputs(v, seek[1], Inputs(seek[1], seek[2]))
          [] OTHER -> NoCompaction
  BY DEF PickCompaction, Inputs, picked, l
<1>4. CASE SizeCompaction(v)
  <2>1. Inputs(l, picked) \in (SUBSET v[l]) \ {{}} /\ Around(v, l, Inputs(l, picked))
    BY <1>1, <1>2, <1>4
  <2>2. PickCompaction(v, pointers, seek) = SetupOtherInputs(v, l, Inputs(l, picked))
    BY <1>3, <1>4
  <2> DEFINE in == Inputs(l, picked)
  <2> HIDE DEF in
  <2>3. LET c == SetupOtherInputs(v, l, in) IN CompactionOK(c) /\ c.version = v /\ c.outputs = <<>>
    BY <1>2, <1>4, <2>1, OtherInputs DEF in
  <2> QED  BY <2>1, <2>2, <2>3 DEF in
<1>5. CASE ~SizeCompaction(v) /\ seek # NoFile
  <2> DEFINE in == Inputs(seek[1], seek[2])
             m == seek[1]
  <2>1. m \in 0..(kNumLevels - 2) /\ seek[2] \in v[m]
    BY <1>5 DEF SeekOK
  <2>2. in \in (SUBSET v[m]) \ {{}} /\ Around(v, m, in)
    BY <1>1, <2>1
  <2>3. PickCompaction(v, pointers, seek) = SetupOtherInputs(v, m, in)
    BY <1>3, <1>5
  <2> HIDE DEF in, m
  <2>4. LET c == SetupOtherInputs(v, m, in) IN CompactionOK(c) /\ c.version = v /\ c.outputs = <<>>
    BY <2>1, <2>2, OtherInputs
  <2> QED  BY <2>2, <2>3, <2>4
<1>6. CASE ~SizeCompaction(v) /\ seek = NoFile
  BY <1>3, <1>6
<1> QED  BY <1>4, <1>5, <1>6


\* CompactRange takes files of its level.
LEMMA RangeInputs ==
  ASSUME HistOK, NEW v, VersionOK(v), NEW l \in Levels, NEW b, NEW e
  PROVE  CompactRangeInputs(v, l, b, e) \in SUBSET v[l]
<1> DEFINE all == GetOverlappingInputs(v, l, b, e)
           files == BySmallestKey(all)
           Taken(n) == {files[i] : i \in 1..n}
           enough == {n \in 1..Len(files) : TotalFileSize(Taken(n)) >= MaxFileSize}
<1>1. all \in SUBSET v[l] /\ FilesOK(v[l])
  BY OverlapWithin DEF VersionOK
<1>2. CompactRangeInputs(v, l, b, e) = IF l > 0 /\ enough # {} THEN Taken(Min(enough)) ELSE all
  BY DEF CompactRangeInputs
<1> HIDE DEF all
<1>3. FilesOK(all)
  BY <1>1, SomeFiles
<1>4. files \in [1..Cardinality(all) -> all] /\ Cardinality(all) \in Nat
  BY <1>3, SortedFiles
<1> HIDE DEF files
<1>5. Len(files) = Cardinality(all)
  BY <1>4, LenProperties
<1>6. enough \in SUBSET (1..Cardinality(all)) /\ enough \in SUBSET Nat
  BY <1>4, <1>5
<1> HIDE DEF enough
<1>7. enough # {} => Min(enough) \in 1..Cardinality(all)
  BY <1>6, LeastOfNumbers
<1>8. enough # {} => Taken(Min(enough)) \in SUBSET all
  <2> SUFFICES ASSUME enough # {}, NEW i \in 1..Min(enough) PROVE files[i] \in all
    OBVIOUS
  <2>1. i \in 1..Cardinality(all)
    BY <1>4, <1>7
  <2> QED  BY <1>4, <2>1
<1> QED  BY <1>1, <1>2, <1>8

-----------------------------------------------------------------------------
(* The files that a read is charged to.                                    *)

\* What FindFile finds in a level is a file of it.
LEMMA Found ==
  ASSUME HistOK, NEW F, FilesOK(F), NEW k, NEW s
  PROVE  FindFile(F, k, s) = None \/ FindFile(F, k, s) \in F
<1> DEFINE reach == {f \in F : \/ k < Key(Largest(f))
                               \/ k = Key(Largest(f)) /\ s >= Largest(f)}
           R == {p \in reach \X reach : ILess(Smallest(p[1]), Smallest(p[2]))}
<1>1. reach \in SUBSET F
  OBVIOUS
<1>2. FindFile(F, k, s) = IF reach = {} THEN None
                          ELSE CHOOSE f \in reach : \A g \in reach : ~ILess(Smallest(g), Smallest(f))
  BY DEF FindFile
<1>3. \A f, g \in reach : <<g, f>> \in R <=> ILess(Smallest(g), Smallest(f))
  OBVIOUS
<1> HIDE DEF reach, R
<1>4. IsFiniteSet(reach) /\ \A f \in reach : Smallest(f) \in Numbers
  <2>1. FilesOK(reach)
    BY <1>1, SomeFiles
  <2> QED  BY <2>1, FileKeys DEF FilesOK
<1>5. StrictOn(reach, R)
  BY <1>3, <1>4, KeyOrder DEF StrictOn
<1>6. reach # {} => \E f \in reach : \A g \in reach : ~ILess(Smallest(g), Smallest(f))
  <2> SUFFICES ASSUME reach # {} PROVE \E f \in reach : \A g \in reach : ~ILess(Smallest(g), Smallest(f))
    OBVIOUS
  <2>1. \E m \in reach : \A x \in reach : <<x, m>> \notin R
    BY <1>4, <1>5, FirstExists
  <2> QED  BY <1>3, <2>1
<1> QED  BY <1>1, <1>2, <1>6

\* The files to search are files of their levels, finitely many, and one at most
\* in a level below 0.
LEMMA SearchFacts ==
  ASSUME HistOK, NEW v, VersionOK(v), NEW k, NEW s
  PROVE  LET X == FilesToSearch(v, k, s)
         IN  /\ IsFiniteSet(X)
             /\ X \in SUBSET (Levels \X Nat)
             /\ \A x \in X : x[2] \in v[x[1]]
             /\ \A x, y \in X : x[1] = y[1] /\ x[1] # 0 => x = y
<1> DEFINE Zero == {g \in v[0] : ~Outside(g, k, k)}
           A == {<<0, f>> : f \in Zero}
           L == Levels \ {0}
           B == {<<l, FindFile(v[l], k, s)>> : l \in L}
           C == {x \in B : x[2] # None /\ ~Outside(x[2], NULL, k)}
           za == [f \in Zero |-> <<0, f>>]
           zb == [l \in L |-> <<l, FindFile(v[l], k, s)>>]
<1>1. 0 \in Levels /\ IsFiniteSet(Levels)
  <2>1. kNumLevels - 1 \in Int /\ 0 \in Int /\ 0 <= kNumLevels - 1
    BY VersionAssumption
  <2> QED  BY <2>1, FS_Interval DEF Levels
<1>2. \A l \in Levels : FilesOK(v[l]) /\ v[l] \in SUBSET Nat
  BY DEF VersionOK
<1>3. IsFiniteSet(Zero) /\ IsFiniteSet(L)
  BY <1>1, <1>2, FS_Subset DEF FilesOK
<1>4. IsFiniteSet(A)
  <2>1. za \in [Zero -> {za[f] : f \in Zero}] /\ A = {za[f] : f \in Zero}
    OBVIOUS
  <2> HIDE DEF za, A, Zero
  <2>2. IsFiniteSet({za[f] : f \in Zero})
    BY <1>3, <2>1, ImageFinite
  <2> QED  BY <2>1, <2>2
<1>5. IsFiniteSet(B)
  <2>1. zb \in [L -> {zb[l] : l \in L}] /\ B = {zb[l] : l \in L}
    OBVIOUS
  <2> HIDE DEF zb, B, L
  <2>2. IsFiniteSet({zb[l] : l \in L})
    BY <1>3, <2>1, ImageFinite
  <2> QED  BY <2>1, <2>2
<1>6. IsFiniteSet(A \cup C)
  <2>1. C \in SUBSET B
    OBVIOUS
  <2> HIDE DEF A, B, C
  <2>2. IsFiniteSet(C)
    BY <1>5, <2>1, FS_Subset
  <2> QED  BY <1>4, <2>2, FS_Union
<1>7. FilesToSearch(v, k, s) = A \cup C
  BY DEF FilesToSearch
<1>8. \A x \in A : x \in Levels \X Nat /\ x[2] \in v[x[1]] /\ x[1] = 0
  BY <1>1, <1>2
<1>9. \A x \in C : \E l \in L : x = <<l, FindFile(v[l], k, s)>> /\ FindFile(v[l], k, s) \in v[l]
  <2> SUFFICES ASSUME NEW x \in C
               PROVE  \E l \in L : x = <<l, FindFile(v[l], k, s)>> /\ FindFile(v[l], k, s) \in v[l]
    OBVIOUS
  <2>1. PICK l \in L : x = <<l, FindFile(v[l], k, s)>>
    OBVIOUS
  <2>2. FindFile(v[l], k, s) # None
    BY <2>1
  <2>3. FindFile(v[l], k, s) \in v[l]
    BY <1>2, <2>2, Found
  <2> QED  BY <2>1, <2>3
<1> HIDE DEF A, C
<1>10. \A x \in C : x \in Levels \X Nat /\ x[2] \in v[x[1]] /\ x[1] # 0
                    /\ x = <<x[1], FindFile(v[x[1]], k, s)>>
  BY <1>2, <1>9
<1>11. \A x, y \in A \cup C : x[1] = y[1] /\ x[1] # 0 => x = y
  <2> SUFFICES ASSUME NEW x \in A \cup C, NEW y \in A \cup C, x[1] = y[1], x[1] # 0 PROVE x = y
    OBVIOUS
  <2>1. x \in C /\ y \in C
    BY <1>8
  <2> QED  BY <1>10, <2>1
<1> QED  BY <1>6, <1>7, <1>8, <1>10, <1>11

\* The first of several is a file of its version with a level after its own.
LEMMA FirstOfSeveral ==
  ASSUME HistOK, NEW v, VersionOK(v), NEW k, NEW s,
         Cardinality(FilesToSearch(v, k, s)) >= 2
  PROVE  SeekOK(v, FirstOf(FilesToSearch(v, k, s)))
<1> DEFINE X == FilesToSearch(v, k, s)
           R == {p \in X \X X : p[1][1] < p[2][1] \/ (p[1][1] = p[2][1] /\ p[1][2] > p[2][2])}
           F == FirstOf(X)
<1>1. /\ IsFiniteSet(X) /\ X \in SUBSET (Levels \X Nat)
      /\ \A x \in X : x[2] \in v[x[1]]
      /\ \A x, y \in X : x[1] = y[1] /\ x[1] # 0 => x = y
  BY SearchFacts
<1>2. Cardinality(X) >= 2
  OBVIOUS
<1>3. \A x, y \in X : <<x, y>> \in R <=> x[1] < y[1] \/ (x[1] = y[1] /\ x[2] > y[2])
  OBVIOUS
<1> HIDE DEF X, R
<1>4. \A x \in X : x[1] \in Nat /\ x[2] \in Nat /\ x[1] <= kNumLevels - 1
  BY <1>1, VersionAssumption DEF Levels
<1>5. StrictOn(X, R)
  BY <1>3, <1>4 DEF StrictOn
<1>6. X # {}
  <2>1. X = {} => Cardinality(X) = 0
    BY FS_EmptySet
  <2> QED  BY <1>2, <2>1
<1>7. PICK m \in X : \A x \in X : <<x, m>> \notin R
  BY <1>1, <1>5, <1>6, FirstExists
<1>8. \A y \in X : m[1] < y[1] \/ (m[1] = y[1] /\ m[2] >= y[2])
  <2> SUFFICES ASSUME NEW y \in X PROVE m[1] < y[1] \/ (m[1] = y[1] /\ m[2] >= y[2])
    OBVIOUS
  <2>1. m[1] \in Nat /\ m[2] \in Nat /\ y[1] \in Nat /\ y[2] \in Nat
    BY <1>4
  <2>2. ~(y[1] < m[1] \/ (y[1] = m[1] /\ y[2] > m[2]))
    BY <1>3, <1>7
  <2> QED  BY <2>1, <2>2
<1>9. F \in X /\ \A y \in X : F[1] < y[1] \/ (F[1] = y[1] /\ F[2] >= y[2])
  BY <1>8 DEF FirstOf
<1> HIDE DEF F
<1>10. F[1] # kNumLevels - 1
  <2> SUFFICES ASSUME F[1] = kNumLevels - 1 PROVE FALSE
    OBVIOUS
  <2>1. F[1] # 0
    BY VersionAssumption
  <2>2. \A y \in X : y = F
    BY <1>1, <1>4, <1>9, <2>1, VersionAssumption
  <2>3. X = {F}
    BY <1>9, <2>2
  <2>4. Cardinality(X) = 1
    BY <2>3, FS_Singleton
  <2> QED  BY <1>2, <2>4
<1>11. F[1] \in 0..(kNumLevels - 2)
  BY <1>4, <1>9, <1>10, VersionAssumption
<1> QED  BY <1>1, <1>9, <1>11 DEF SeekOK, F, X

\* A read that is charged to a file, is charged to one of its version.
LEMMA Charged ==
  ASSUME HistOK, NEW v, VersionOK(v), NEW k, NEW s
  PROVE  SeekOK(v, GetStats(v, k, s)) /\ SeekOK(v, SampleStats(v, k, s))
BY FirstOfSeveral DEF GetStats, SampleStats, SeekOK


-----------------------------------------------------------------------------
(* New versions.                                                           *)

\* An edit that adds finitely many files makes a version whose files are some of
\* the old ones and of the added ones.
LEMMA Edited ==
  ASSUME NEW v \in [Levels -> SUBSET Nat], \A l \in Levels : IsFiniteSet(v[l]),
         NEW deleted, NEW added, IsFiniteSet(added), \A x \in added : x[2] \in Nat
  PROVE  /\ Applied(v, deleted, added) \in [Levels -> SUBSET Nat]
         /\ \A l \in Levels : IsFiniteSet(Applied(v, deleted, added)[l])
         /\ \A l \in Levels : Applied(v, deleted, added)[l] \in SUBSET (v[l] \cup {x[2] : x \in added})
<1> DEFINE Kept(l) == v[l] \ {f \in v[l] : <<l, f>> \in deleted /\ <<l, f>> \notin added}
           New(l) == {y \in added : y[1] = l}
           a == Applied(v, deleted, added)
<1>1. a = [l \in Levels |-> Kept(l) \cup {x[2] : x \in New(l)}]
  BY DEF Applied
<1> HIDE DEF a
<1>2. ASSUME NEW l \in Levels
      PROVE  /\ IsFiniteSet(a[l]) /\ a[l] \in SUBSET Nat
             /\ a[l] \in SUBSET (v[l] \cup {x[2] : x \in added})
  <2> DEFINE N == New(l)
             file == [x \in N |-> x[2]]
             Files == {x[2] : x \in N}
             K == Kept(l)
  <2>1. N \in SUBSET added /\ IsFiniteSet(N)
    BY FS_Subset
  <2>2. file \in [N -> {file[x] : x \in N}] /\ Files = {file[x] : x \in N}
    OBVIOUS
  <2>3. Files \in SUBSET Nat /\ Files \in SUBSET {x[2] : x \in added}
    BY <2>1
  <2>4. K \in SUBSET v[l] /\ v[l] \in SUBSET Nat /\ IsFiniteSet(v[l])
    OBVIOUS
  <2>5. a[l] = K \cup Files
    BY <1>1
  <2> HIDE DEF N, file, Files, K
  <2>6. IsFiniteSet(K)
    BY <2>4, FS_Subset
  <2>7. IsFiniteSet(Files)
    <3>1. IsFiniteSet({file[x] : x \in N})
      BY <2>1, <2>2, ImageFinite
    <3> QED  BY <2>2, <3>1
  <2>8. IsFiniteSet(K \cup Files)
    BY <2>6, <2>7, FS_Union
  <2> QED  BY <2>3, <2>4, <2>5, <2>8
<1>3. a \in [Levels -> SUBSET Nat]
  <2>1. \A l \in Levels : a[l] \in SUBSET Nat
    BY <1>2
  <2> HIDE DEF Kept, New
  <2> QED  BY <1>1, <2>1
<1> QED  BY <1>2, <1>3 DEF a

\* Where the live files of a version are
LEMMA LiveFiles ==
  ASSUME NEW v, NEW f
  PROVE  f \in AddLiveFiles({v}) <=> \E l \in Levels : f \in v[l]
BY DEF AddLiveFiles
=============================================================================
