-------------------------- MODULE DBStoreOrderProofs --------------------------
(***************************************************************************)
(* In what order DBStore keeps the entries of a key, what its readers see  *)
(* because of it, and that it implements KVStore.                          *)
(***************************************************************************)
EXTENDS DBStoreProofs

-----------------------------------------------------------------------------
(* Files, and the order of what they hold.                                 *)

\* The keys of two files do not interleave; two sets of entries have no key in
\* common; where they have one, the first has the newer entries.
Apart(f, g) == Key(Largest(f)) < Key(Smallest(g)) \/ Key(Largest(g)) < Key(Smallest(f))
ShareNoKey(E, D) == \A e \in E, d \in D : Key(e) # Key(d)
Newer(E, D) == \A e \in E, d \in D : Key(e) = Key(d) => e > d

\* The keys of a file are between those of its ends.
LEMMA KeysWithin ==
  ASSUME HistOK, NEW f, FileOK(f), NEW x \in Entries(f)
  PROVE  /\ x \in Numbers /\ Key(x) \in Nat
         /\ Key(Smallest(f)) \in Nat /\ Key(Largest(f)) \in Nat
         /\ Key(Smallest(f)) <= Key(x) /\ Key(x) <= Key(Largest(f))
<1>1. x \in Numbers /\ AtOrBefore(Smallest(f), x) /\ AtOrBefore(x, Largest(f))
  BY DEF FileOK
<1>2. Key(x) \in Nat /\ Key(Smallest(f)) \in Nat /\ Key(Largest(f)) \in Nat
  BY <1>1, KeyOrder, FileKeys
<1> QED  BY <1>1, <1>2 DEF AtOrBefore, ILess

\* Files apart have no key in common.
LEMMA ApartShareNoKey ==
  ASSUME HistOK, NEW f, NEW g, FileOK(f), FileOK(g), Apart(f, g)
  PROVE  ShareNoKey(Entries(f), Entries(g))
<1> SUFFICES ASSUME NEW e \in Entries(f), NEW d \in Entries(g) PROVE Key(e) # Key(d)
  BY DEF ShareNoKey
<1>1. /\ Key(Smallest(f)) \in Nat /\ Key(Largest(f)) \in Nat /\ Key(e) \in Nat
      /\ Key(Smallest(f)) <= Key(e) /\ Key(e) <= Key(Largest(f))
  BY KeysWithin
<1>2. /\ Key(Smallest(g)) \in Nat /\ Key(Largest(g)) \in Nat /\ Key(d) \in Nat
      /\ Key(Smallest(g)) <= Key(d) /\ Key(d) <= Key(Largest(g))
  BY KeysWithin
<1> QED  BY <1>1, <1>2 DEF Apart

\* The same after a step
LEMMA ApartShareNoKeyNext ==
  ASSUME HistOK', NEW f, NEW g, FileOK(f)', FileOK(g)', Apart(f, g)'
  PROVE  ShareNoKey(Entries(f), Entries(g))'
<1>1. \A a \in Numbers' : Key(a)' \in Nat
  <2> SUFFICES ASSUME NEW a \in Numbers' PROVE Key(a)' \in Nat
    OBVIOUS
  <2>1. hist' \in Seq(EntrySet) /\ a \in 1..Len(hist')
    BY DEF HistOK, Numbers
  <2>2. hist'[a] \in EntrySet
    BY <2>1, ElementOfSeq
  <2> QED  BY <2>2, VersionAssumption DEF EntrySet, Key
<1>2. /\ \A e \in Entries(f)' : e \in Numbers' /\ AtOrBefore(Smallest(f), e)' /\ AtOrBefore(e, Largest(f))'
      /\ Smallest(f)' \in Numbers' /\ Largest(f)' \in Numbers'
  BY DEF FileOK
<1>3. /\ \A e \in Entries(g)' : e \in Numbers' /\ AtOrBefore(Smallest(g), e)' /\ AtOrBefore(e, Largest(g))'
      /\ Smallest(g)' \in Numbers' /\ Largest(g)' \in Numbers'
  BY DEF FileOK
<1>4. ASSUME NEW e \in Entries(f)', NEW d \in Entries(g)' PROVE Key(e)' # Key(d)'
  <2>1. /\ Key(Smallest(f))' \in Nat /\ Key(Largest(f))' \in Nat /\ Key(e)' \in Nat
        /\ Key(Smallest(f))' <= Key(e)' /\ Key(e)' <= Key(Largest(f))'
    BY <1>1, <1>2 DEF AtOrBefore, ILess, Key
  <2>2. /\ Key(Smallest(g))' \in Nat /\ Key(Largest(g))' \in Nat /\ Key(d)' \in Nat
        /\ Key(Smallest(g))' <= Key(d)' /\ Key(d)' <= Key(Largest(g))'
    BY <1>1, <1>3 DEF AtOrBefore, ILess, Key
  <2> QED  BY <2>1, <2>2 DEF Apart
<1> QED  BY <1>4 DEF ShareNoKey

\* A file outside a range has no key in the range.
LEMMA OutsideKeys ==
  ASSUME HistOK, NEW f, FileOK(f), NEW b \in Nat \cup {NULL}, NEW e \in Nat \cup {NULL}, Outside(f, b, e),
         NEW x \in Entries(f)
  PROVE  (b # NULL /\ Key(x) < b) \/ (e # NULL /\ e < Key(x))
<1>1. /\ Key(Smallest(f)) \in Nat /\ Key(Largest(f)) \in Nat /\ Key(x) \in Nat
      /\ Key(Smallest(f)) <= Key(x) /\ Key(x) <= Key(Largest(f))
  BY KeysWithin
<1> QED  BY <1>1 DEF Outside, NULL

\* GetRange: the files of a set are between its ends.
LEMMA RangeFacts ==
  ASSUME HistOK, NEW F, FilesOK(F), NEW f \in F
  PROVE  /\ Key(RangeStart(F)) \in Nat /\ Key(RangeLimit(F)) \in Nat
         /\ Key(RangeStart(F)) <= Key(Smallest(f)) /\ Key(Largest(f)) <= Key(RangeLimit(F))
         /\ \E g \in F : Key(RangeStart(F)) = Key(Smallest(g))
         /\ \E g \in F : Key(RangeLimit(F)) = Key(Largest(g))
<1> DEFINE R == {p \in F \X F : ILess(Smallest(p[1]), Smallest(p[2]))}
           Q == {p \in F \X F : ILess(Largest(p[2]), Largest(p[1]))}
<1>1. IsFiniteSet(F) /\ \A g \in F : Smallest(g) \in Numbers /\ Largest(g) \in Numbers
  BY FileKeys DEF FilesOK
<1>2. /\ \A g, h \in F : <<h, g>> \in R <=> ILess(Smallest(h), Smallest(g))
      /\ \A g, h \in F : <<h, g>> \in Q <=> ILess(Largest(g), Largest(h))
  OBVIOUS
<1> HIDE DEF R, Q
<1>3. StrictOn(F, R)
  BY <1>1, <1>2, KeyOrder DEF StrictOn
<1>4. StrictOn(F, Q)
  BY <1>1, <1>2, KeyOrder DEF StrictOn
<1>5. \E g \in F : \A h \in F : ~ILess(Smallest(h), Smallest(g))
  <2>1. \E m \in F : \A x \in F : <<x, m>> \notin R
    BY <1>1, <1>3, FirstExists
  <2> QED  BY <1>2, <2>1
<1>6. \E g \in F : \A h \in F : ~ILess(Largest(g), Largest(h))
  <2>1. \E m \in F : \A x \in F : <<x, m>> \notin Q
    BY <1>1, <1>4, FirstExists
  <2> QED  BY <1>2, <2>1
<1>7. PICK g \in F : RangeStart(F) = Smallest(g) /\ ~ILess(Smallest(f), Smallest(g))
  BY <1>5 DEF RangeStart
<1>8. PICK h \in F : RangeLimit(F) = Largest(h) /\ ~ILess(Largest(h), Largest(f))
  BY <1>6 DEF RangeLimit
<1>9. \A a, b \in Numbers : Key(a) \in Nat /\ (~ILess(a, b) => Key(b) <= Key(a))
  BY KeyOrder DEF ILess
<1> QED  BY <1>1, <1>7, <1>8, <1>9

LEMMA RangeBounds ==
  ASSUME HistOK, NEW F, FilesOK(F), NEW f \in F
  PROVE  /\ Key(RangeStart(F)) \in Nat /\ Key(RangeLimit(F)) \in Nat
         /\ Key(RangeStart(F)) <= Key(Smallest(f)) /\ Key(Largest(f)) <= Key(RangeLimit(F))
BY RangeFacts

LEMMA RangeAttained ==
  ASSUME HistOK, NEW F, FilesOK(F), NEW f \in F
  PROVE  /\ \E g \in F : Key(RangeStart(F)) = Key(Smallest(g))
         /\ \E g \in F : Key(RangeLimit(F)) = Key(Largest(g))
BY RangeFacts

\* A round of Version::GetOverlappingInputs in level 0: the files that the range r
\* overlaps, and the range that holds them all
Ranges == (Nat \cup {NULL}) \X (Nat \cup {NULL})
Hits(v, r) == {f \in v[0] : ~Outside(f, r[1], r[2])}
Widen(v, r) ==
  <<IF r[1] = NULL THEN NULL ELSE Min({r[1]} \cup {Key(Smallest(f)) : f \in Hits(v, r)}),
    IF r[2] = NULL THEN NULL ELSE Max({r[2]} \cup {Key(Largest(f)) : f \in Hits(v, r)})>>
Within(r, f) ==
  /\ r[1] = NULL \/ r[1] <= Key(Smallest(f))
  /\ r[2] = NULL \/ Key(Largest(f)) <= r[2]
Covers(v, r) == \A f \in Hits(v, r) : Within(r, f)

\* A round widens the range as far as the files go, and no further.
LEMMA WidenFacts ==
  ASSUME HistOK, NEW v, VersionOK(v), NEW r \in Ranges
  PROVE  /\ Widen(v, r) \in Ranges
         /\ Hits(v, r) \in SUBSET Hits(v, Widen(v, r))
         /\ \A h \in Hits(v, r) : Within(Widen(v, r), h)
         /\ Covers(v, r) => Widen(v, r) = r
         /\ \/ Widen(v, r)[1] = r[1]
            \/ r[1] # NULL /\ \E h \in Hits(v, r) : Widen(v, r)[1] = Key(Smallest(h))
         /\ \/ Widen(v, r)[2] = r[2]
            \/ r[2] # NULL /\ \E h \in Hits(v, r) : Widen(v, r)[2] = Key(Largest(h))
<1> DEFINE H == Hits(v, r)
           low == [h \in H |-> Key(Smallest(h))]
           high == [h \in H |-> Key(Largest(h))]
           lows == {Key(Smallest(h)) : h \in H}
           highs == {Key(Largest(h)) : h \in H}
<1>1. r = <<r[1], r[2]>> /\ r[1] \in Nat \cup {NULL} /\ r[2] \in Nat \cup {NULL}
  BY DEF Ranges
<1>0. 0 \in Levels /\ FilesOK(v[0])
  BY VersionAssumption DEF Levels, VersionOK
<1>2. \A h \in H : h \in v[0] /\ Key(Smallest(h)) \in Nat /\ Key(Largest(h)) \in Nat
  BY <1>0, FileKeys DEF FilesOK, Hits
<1>3. IsFiniteSet(H)
  BY <1>0, FS_Subset DEF FilesOK, Hits
<1>4. \A h \in H : ~Outside(h, r[1], r[2])
  BY DEF Hits
<1>5. Widen(v, r) = <<IF r[1] = NULL THEN NULL ELSE Min({r[1]} \cup lows),
                   IF r[2] = NULL THEN NULL ELSE Max({r[2]} \cup highs)>>
  BY DEF Widen
<1>6. \A q : q \in Ranges /\ (\A h \in H : ~Outside(h, q[1], q[2])) => H \in SUBSET Hits(v, q)
  BY <1>2 DEF Hits
<1>7. Covers(v, r) <=> \A h \in H : Within(r, h)
  BY DEF Covers
<1> HIDE DEF H
<1>8. lows = {low[h] : h \in H} /\ highs = {high[h] : h \in H}
  OBVIOUS
<1>9. low \in [H -> {low[h] : h \in H}] /\ high \in [H -> {high[h] : h \in H}]
  OBVIOUS
<1> HIDE DEF low, high
<1>10. IsFiniteSet(lows) /\ IsFiniteSet(highs)
  <2> HIDE DEF lows, highs
  <2>1. IsFiniteSet({low[h] : h \in H})
    BY <1>3, <1>9, ImageFinite
  <2>2. IsFiniteSet({high[h] : h \in H})
    BY <1>3, <1>9, ImageFinite
  <2> QED  BY <1>8, <2>1, <2>2
<1>11. lows \in SUBSET Nat /\ highs \in SUBSET Nat
  BY <1>2
<1>12. \A h \in H : Key(Smallest(h)) \in lows /\ Key(Largest(h)) \in highs
  OBVIOUS
<1>13. /\ \A m \in lows : \E h \in H : m = Key(Smallest(h))
       /\ \A m \in highs : \E h \in H : m = Key(Largest(h))
  OBVIOUS
<1> HIDE DEF lows, highs
<1> DEFINE p == IF r[1] = NULL THEN NULL ELSE Min({r[1]} \cup lows)
           q == IF r[2] = NULL THEN NULL ELSE Max({r[2]} \cup highs)
<1>14. /\ p \in Nat \cup {NULL} /\ (p = NULL <=> r[1] = NULL)
       /\ p # NULL => p <= r[1] /\ (p = r[1] \/ p \in lows) /\ \A m \in lows : p <= m
  <2>1. CASE r[1] = NULL
    BY <2>1
  <2>2. CASE r[1] # NULL
    <3>1. r[1] \in Nat
      BY <1>1, <2>2
    <3> DEFINE m == Min({r[1]} \cup lows)
    <3>2. m \in Nat /\ m <= r[1] /\ m \in {r[1]} \cup lows /\ \A x \in lows : m <= x
      BY <1>10, <1>11, <3>1, EndsOfNumbers
    <3>3. p = m
      BY <2>2
    <3> HIDE DEF m, p
    <3> QED  BY <2>2, <3>2, <3>3 DEF NULL
  <2> QED  BY <2>1, <2>2
<1>15. /\ q \in Nat \cup {NULL} /\ (q = NULL <=> r[2] = NULL)
       /\ q # NULL => r[2] <= q /\ (q = r[2] \/ q \in highs) /\ \A m \in highs : m <= q
  <2>1. CASE r[2] = NULL
    BY <2>1
  <2>2. CASE r[2] # NULL
    <3>1. r[2] \in Nat
      BY <1>1, <2>2
    <3> DEFINE m == Max({r[2]} \cup highs)
    <3>2. m \in Nat /\ r[2] <= m /\ m \in {r[2]} \cup highs /\ \A x \in highs : x <= m
      BY <1>10, <1>11, <3>1, EndsOfNumbers
    <3>3. q = m
      BY <2>2
    <3> HIDE DEF m, q
    <3> QED  BY <2>2, <3>2, <3>3 DEF NULL
  <2> QED  BY <2>1, <2>2
<1>16. Widen(v, r) = <<p, q>>
  BY <1>5
<1> HIDE DEF p, q
<1>17. \A h \in H : Within(<<p, q>>, h)
  BY <1>12, <1>14, <1>15 DEF Within
<1>18. \A h \in H : ~Outside(h, p, q)
  <2> SUFFICES ASSUME NEW h \in H PROVE ~Outside(h, p, q)
    OBVIOUS
  <2>1. ~Outside(h, r[1], r[2])
    BY <1>4
  <2> QED  BY <1>1, <1>2, <1>14, <1>15, <2>1 DEF Outside, NULL
<1>19. H \in SUBSET Hits(v, <<p, q>>)
  <2>1. <<p, q>> \in Ranges
    BY <1>14, <1>15 DEF Ranges
  <2> QED  BY <1>6, <1>18, <2>1
<1>20. Covers(v, r) => <<p, q>> = r
  <2> SUFFICES ASSUME Covers(v, r) PROVE <<p, q>> = r
    OBVIOUS
  <2>1. \A h \in H : Within(r, h)
    BY <1>7
  <2>2. p = r[1]
    <3>1. p \in lows /\ r[1] # NULL => r[1] <= p
      BY <1>13, <2>1 DEF Within
    <3> QED  BY <1>1, <1>14, <3>1 DEF NULL
  <2>3. q = r[2]
    <3>1. q \in highs /\ r[2] # NULL => q <= r[2]
      BY <1>13, <2>1 DEF Within
    <3> QED  BY <1>1, <1>15, <3>1 DEF NULL
  <2> QED  BY <1>1, <2>2, <2>3
<1>21. /\ p = r[1] \/ (r[1] # NULL /\ \E h \in H : p = Key(Smallest(h)))
       /\ q = r[2] \/ (r[2] # NULL /\ \E h \in H : q = Key(Largest(h)))
  BY <1>13, <1>14, <1>15
<1>22. <<p, q>> \in Ranges
  BY <1>14, <1>15 DEF Ranges
<1> QED  BY <1>16, <1>17, <1>19, <1>20, <1>21, <1>22 DEF H

\* GetOverlappingInputs in level 0 goes as many rounds as there are files: what
\* holds of the range it starts from and is kept by a round holds of the last.
LEMMA LastRound ==
  ASSUME HistOK, NEW v, VersionOK(v), NEW start \in Ranges,
         NEW S, <<0, start>> \in S,
         \A n \in Nat : \A r \in Ranges : <<n, r>> \in S => <<n + 1, Widen(v, r)>> \in S
  PROVE  \E r \in Ranges : /\ GetOverlappingInputs(v, 0, start[1], start[2]) = Hits(v, r)
                           /\ <<Cardinality(v[0]), r>> \in S
<1> DEFINE N == Cardinality(v[0])
           widened[n \in 0..N] == IF n = 0 THEN <<start[1], start[2]>> ELSE Widen(v, widened[n - 1])
<1>1. N \in Nat
  <2>1. 0 \in Levels
    BY VersionAssumption DEF Levels
  <2> QED  BY <2>1, FS_CardinalityType DEF VersionOK, FilesOK
<1>2. start = <<start[1], start[2]>>
  BY DEF Ranges
<1>3. GetOverlappingInputs(v, 0, start[1], start[2]) = Hits(v, widened[N])
  BY ZenonT(120) DEF GetOverlappingInputs, Hits, Widen
<1> HIDE DEF N
<1>4. widened = [n \in 0..N |-> IF n = 0 THEN <<start[1], start[2]>> ELSE Widen(v, widened[n - 1])]
  <2> DEFINE G == [p \in (1..N) \X Ranges |-> Widen(v, p[2])]
  <2>1. G \in [(1..N) \X Ranges -> Ranges]
    BY WidenFacts
  <2>2. PICK w \in [0..N -> Ranges] : \A n \in 0..N : w[n] = IF n = 0 THEN start ELSE G[<<n, w[n - 1]>>]
    <3> HIDE DEF G, widened
    <3>1. \E w \in [0..N -> Ranges] : Recursion(w, N, start, G)
      BY <1>1, <2>1, RecursiveFunction
    <3> QED  BY <3>1 DEF Recursion
  <2>3. \A n \in 0..N : n # 0 => n \in 1..N /\ w[n - 1] \in Ranges
    BY <1>1
  <2>4. w = [n \in 0..N |-> IF n = 0 THEN <<start[1], start[2]>> ELSE Widen(v, w[n - 1])]
    BY <1>2, <2>2, <2>3
  <2> QED  BY <2>4
<1> HIDE DEF widened
<1> DEFINE T == {p \in Nat \X Ranges : p \in S}
           pair == [n \in 0..N |-> <<n, widened[n]>>]
<1>5. widened[0] = start /\ 0 \in 0..N
  BY <1>1, <1>2, <1>4
<1>6. pair[0] \in T
  BY <1>5
<1>7. ASSUME NEW n \in 1..N, pair[n - 1] \in T PROVE pair[n] \in T
  <2>1. n - 1 \in 0..N /\ n - 1 \in Nat /\ n \in 0..N /\ n # 0 /\ n - 1 + 1 = n /\ n \in Nat
    BY <1>1
  <2>2. <<n - 1, widened[n - 1]>> \in S /\ widened[n - 1] \in Ranges
    BY <1>7, <2>1
  <2>3. widened[n] = Widen(v, widened[n - 1])
    BY <1>4, <2>1
  <2>4. <<n, widened[n]>> \in S
    BY <2>1, <2>2, <2>3
  <2>5. widened[n] \in Ranges
    BY <2>2, <2>3, WidenFacts
  <2> QED  BY <2>1, <2>4, <2>5
<1>8. \A n \in 0..N : pair[n] \in T
  <2> HIDE DEF T, pair
  <2> QED  BY <1>1, <1>6, <1>7, RecursiveMember
<1>9. N \in 0..N
  BY <1>1
<1>10. <<N, widened[N]>> \in S /\ widened[N] \in Ranges
  BY <1>8, <1>9
<1> QED  BY <1>3, <1>10 DEF N

\* Below level 0 it is one round.
LEMMA OverlapBelow ==
  ASSUME NEW v, NEW l, l # 0, NEW b, NEW e
  PROVE  /\ GetOverlappingInputs(v, l, b, e) = {f \in v[l] : ~Outside(f, b, e)}
         /\ \A g : g \in GetOverlappingInputs(v, l, b, e) <=> g \in v[l] /\ ~Outside(g, b, e)
<1>1. GetOverlappingInputs(v, l, b, e) = {f \in v[l] : ~Outside(f, b, e)}
  BY ZenonT(120) DEF GetOverlappingInputs
<1> QED  BY <1>1

\* The last round finds every file of the level in its range or outside: each round
\* before it has found another file.
LEMMA RangeCovers ==
  ASSUME HistOK, NEW v, VersionOK(v), NEW b \in Nat \cup {NULL}, NEW e \in Nat \cup {NULL}
  PROVE  \E r \in Ranges : GetOverlappingInputs(v, 0, b, e) = Hits(v, r) /\ Covers(v, r)
<1> DEFINE N == Cardinality(v[0])
           Grown(n, r) == Covers(v, r) \/ Cardinality(Hits(v, r)) >= n + 1
           S == {p \in Nat \X Ranges : Grown(p[1], p[2])}
<1>1. PICK start \in Ranges : start[1] = b /\ start[2] = e
  <2>1. <<b, e>> \in Ranges
    BY DEF Ranges
  <2> QED  BY <2>1
<1>2. IsFiniteSet(v[0]) /\ N \in Nat
  <2>1. 0 \in Levels
    BY VersionAssumption DEF Levels
  <2> QED  BY <2>1, FS_CardinalityType DEF VersionOK, FilesOK
<1>3. \A r : /\ IsFiniteSet(Hits(v, r)) /\ Cardinality(Hits(v, r)) \in Nat
             /\ Cardinality(Hits(v, r)) <= N
  <2> SUFFICES ASSUME NEW r PROVE /\ IsFiniteSet(Hits(v, r)) /\ Cardinality(Hits(v, r)) \in Nat
                                  /\ Cardinality(Hits(v, r)) <= N
    OBVIOUS
  <2>1. Hits(v, r) \in SUBSET v[0]
    BY DEF Hits
  <2> QED  BY <1>2, <2>1, FS_Subset, FS_CardinalityType
<1>4. <<0, start>> \in S
  <2>1. Hits(v, start) = {} => Covers(v, start)
    BY DEF Covers
  <2>2. Hits(v, start) # {} => Cardinality(Hits(v, start)) >= 1
    BY <1>3, FS_EmptySet
  <2> QED  BY <2>1, <2>2
<1>5. ASSUME NEW n \in Nat, NEW r \in Ranges, Grown(n, r) PROVE Grown(n + 1, Widen(v, r))
  <2>1. PICK w : w = Widen(v, r)
    OBVIOUS
  <2>2. /\ w \in Ranges /\ Hits(v, r) \in SUBSET Hits(v, w) /\ \A h \in Hits(v, r) : Within(w, h)
        /\ Covers(v, r) => w = r
    BY <2>1, WidenFacts
  <2>3. CASE Covers(v, r) \/ Hits(v, w) = Hits(v, r)
    <3>1. Covers(v, w)
      BY <2>2, <2>3 DEF Covers
    <3> QED  BY <2>1, <3>1
  <2>4. CASE Cardinality(Hits(v, r)) >= n + 1 /\ Hits(v, w) # Hits(v, r)
    <3>1. PICK A, B : A = Hits(v, r) /\ B = Hits(v, w)
      OBVIOUS
    <3>2. A \in SUBSET B /\ A # B /\ IsFiniteSet(B)
      BY <1>3, <2>2, <2>4, <3>1
    <3>3. Cardinality(A) <= Cardinality(B) /\ Cardinality(A) # Cardinality(B)
      BY <3>2, FS_Subset
    <3>4. Cardinality(A) \in Nat /\ Cardinality(B) \in Nat /\ Cardinality(A) >= n + 1
      BY <1>3, <2>4, <3>1
    <3>5. Cardinality(B) >= n + 1 + 1
      BY <3>3, <3>4
    <3> QED  BY <2>1, <3>1, <3>5
  <2> QED  BY <1>5, <2>3, <2>4
<1>6. \A n \in Nat : \A r \in Ranges : <<n, r>> \in S => <<n + 1, Widen(v, r)>> \in S
  <2> HIDE DEF Grown
  <2>1. \A r \in Ranges : Widen(v, r) \in Ranges
    BY WidenFacts
  <2> QED  BY <1>5, <2>1
<1>7. \A n, r : <<n, r>> \in S => Grown(n, r)
  OBVIOUS
<1> HIDE DEF S
<1>8. PICK r \in Ranges : /\ GetOverlappingInputs(v, 0, start[1], start[2]) = Hits(v, r)
                          /\ <<Cardinality(v[0]), r>> \in S
  BY <1>4, <1>6, LastRound
<1>9. Covers(v, r)
  <2>1. Grown(N, r)
    BY <1>7, <1>8
  <2> QED  BY <1>2, <1>3, <2>1
<1> QED  BY <1>1, <1>8, <1>9

\* Version::GetOverlappingInputs: in level 0 the range widens until every file
\* of the level is in it or outside, so the files found and the others are apart.
LEMMA Level0Closed ==
  ASSUME HistOK, NEW v, VersionOK(v), NEW b \in Nat \cup {NULL}, NEW e \in Nat \cup {NULL},
         NEW f \in GetOverlappingInputs(v, 0, b, e),
         NEW g \in v[0] \ GetOverlappingInputs(v, 0, b, e)
  PROVE  Apart(f, g)
<1>1. PICK r \in Ranges : GetOverlappingInputs(v, 0, b, e) = Hits(v, r) /\ Covers(v, r)
  BY RangeCovers
<1>2. f \in v[0] /\ g \in v[0] /\ Within(r, f) /\ Outside(g, r[1], r[2])
  BY <1>1 DEF Covers, Hits
<1>3. r[1] \in Nat \cup {NULL} /\ r[2] \in Nat \cup {NULL}
  BY DEF Ranges
<1>4. \A h \in v[0] : Key(Smallest(h)) \in Nat /\ Key(Largest(h)) \in Nat
  <2>1. 0 \in Levels
    BY VersionAssumption DEF Levels
  <2> QED  BY <2>1, FileKeys DEF VersionOK, FilesOK
<1> QED  BY <1>2, <1>3, <1>4 DEF Within, Outside, Apart, NULL

\* SetupOtherInputs: the files of the next level that overlap the range of the
\* compaction's files are its other inputs, and in level 0 no other file overlaps
\* one of its files.
LEMMA InputsApart ==
  ASSUME HistOK, NEW v, VersionOK(v), NEW l, NEW F, Asked(v, l, F),
         NEW c, c = SetupOtherInputs(v, l, F)
  PROVE  /\ CompactionOK(c) /\ c.version = v /\ c.level = l /\ c.outputs = <<>>
         /\ l = 0 => \A f \in c.in0, g \in v[0] \ c.in0 : Apart(f, g)
         /\ \A g \in v[l + 1] : g \in c.in1 <=> ~Outside(g, Key(RangeStart(c.in0)), Key(RangeLimit(c.in0)))
         /\ \A f \in c.in0, g \in v[l + 1] \ c.in1 : Apart(f, g)
<1> DEFINE Overlap(m, G) == GetOverlappingInputs(v, m, Key(RangeStart(G)), Key(RangeLimit(G)))
           in1 == Overlap(l + 1, F)
           expanded0 == Overlap(l, F \cup in1)
           expanded1 == Overlap(l + 1, expanded0)
           expand == /\ in1 # {}
                     /\ Cardinality(expanded0) > Cardinality(F)
                     /\ TotalFileSize(in1) + TotalFileSize(expanded0) < ExpandedLimit
                     /\ Cardinality(expanded1) = Cardinality(in1)
           first == IF expand THEN expanded0 ELSE F
           second == IF expand THEN expanded1 ELSE in1
<1>1. l \in 0..(kNumLevels - 2) /\ F \in (SUBSET v[l]) \ {{}}
  BY DEF Asked
<1>2. l \in Levels /\ l + 1 \in Levels /\ l + 1 # 0 /\ FilesOK(v[l]) /\ FilesOK(v[l + 1])
  BY <1>1, VersionAssumption DEF Levels, VersionOK
<1>3. CompactionOK(c) /\ c.version = v /\ c.level = l /\ c.outputs = <<>>
  BY <1>1, OtherInputs
<1>4. c.in0 = first /\ c.in1 = second
  BY DEF SetupOtherInputs
<1>5. second = Overlap(l + 1, first)
  OBVIOUS
<1>6. c.in0 = F \/ c.in0 = expanded0
  BY <1>4
<1>7. in1 \in SUBSET v[l + 1]
  BY OverlapWithin
<1> HIDE DEF in1, first, second
<1>8. \A g \in v[l + 1] : g \in c.in1 <=> ~Outside(g, Key(RangeStart(c.in0)), Key(RangeLimit(c.in0)))
  <2>1. c.in1 = GetOverlappingInputs(v, l + 1, Key(RangeStart(c.in0)), Key(RangeLimit(c.in0)))
    BY <1>4, <1>5
  <2>2. GetOverlappingInputs(v, l + 1, Key(RangeStart(c.in0)), Key(RangeLimit(c.in0)))
          = {g \in v[l + 1] : ~Outside(g, Key(RangeStart(c.in0)), Key(RangeLimit(c.in0)))}
    BY <1>2, OverlapBelow
  <2> QED  BY <2>1, <2>2
<1>9. FilesOK(c.in0)
  BY <1>2, <1>3, SomeFiles DEF CompactionOK
<1>10. \A f \in c.in0, g \in v[l + 1] \ c.in1 : Apart(f, g)
  <2> SUFFICES ASSUME NEW f \in c.in0, NEW g \in v[l + 1] \ c.in1 PROVE Apart(f, g)
    OBVIOUS
  <2>1. Outside(g, Key(RangeStart(c.in0)), Key(RangeLimit(c.in0)))
    BY <1>8
  <2> DEFINE I == c.in0
  <2>2. FilesOK(I) /\ f \in I
    BY <1>9
  <2> HIDE DEF I
  <2>3. /\ Key(RangeStart(I)) \in Nat /\ Key(RangeLimit(I)) \in Nat
        /\ Key(RangeStart(I)) <= Key(Smallest(f)) /\ Key(Largest(f)) <= Key(RangeLimit(I))
    BY <2>2, RangeBounds
  <2>4. Key(Smallest(g)) \in Nat /\ Key(Largest(g)) \in Nat
    BY <1>2, FileKeys DEF FilesOK
  <2>5. Key(Smallest(f)) \in Nat /\ Key(Largest(f)) \in Nat
    BY <2>2, FileKeys DEF FilesOK
  <2>6. Outside(g, Key(RangeStart(I)), Key(RangeLimit(I)))
    BY <2>1 DEF I
  <2> QED  BY <2>3, <2>4, <2>5, <2>6 DEF Outside, Apart, NULL
<1>11. l = 0 => \E b, e \in Nat \cup {NULL} : c.in0 = GetOverlappingInputs(v, 0, b, e)
  <2> SUFFICES ASSUME l = 0, c.in0 = expanded0
               PROVE  \E b, e \in Nat \cup {NULL} : c.in0 = GetOverlappingInputs(v, 0, b, e)
    BY <1>6 DEF Asked
  <2> DEFINE U == F \cup in1
  <2>1. FilesOK(U) /\ U # {}
    <3>1. FilesOK(F)
      BY <1>1, <1>2, SomeFiles
    <3>2. FilesOK(in1)
      BY <1>2, <1>7, SomeFiles
    <3> QED  BY <1>1, <3>1, <3>2, FS_Union DEF FilesOK
  <2>2. c.in0 = GetOverlappingInputs(v, 0, Key(RangeStart(U)), Key(RangeLimit(U)))
    OBVIOUS
  <2> HIDE DEF U
  <2>3. Key(RangeStart(U)) \in Nat /\ Key(RangeLimit(U)) \in Nat
    BY <2>1, RangeBounds
  <2> QED  BY <2>2, <2>3
<1>12. l = 0 => \A f \in c.in0, g \in v[0] \ c.in0 : Apart(f, g)
  BY <1>11, Level0Closed
<1> QED  BY <1>3, <1>8, <1>10, <1>12


\* PickLevelForMemTableOutput: below level 0 no file of the level or above it
\* overlaps the memtable.
LEMMA PickedLevel ==
  ASSUME NEW v, NEW b, NEW e, NEW l, l = PickLevelForMemTableOutput(v, b, e)
  PROVE  l \in Levels /\ (l > 0 => \A m \in 0..l : \A f \in v[m] : Outside(f, b, e))
<1> DEFINE MayDescend(m) ==
             /\ ~OverlapInLevel(v, m + 1, b, e)
             /\ m + 2 < kNumLevels =>
                  TotalFileSize(GetOverlappingInputs(v, m + 2, b, e)) <= GrandParentLimit
           reached == {m \in 0..kMaxMemCompactLevel : \A n \in 0..(m - 1) : MayDescend(n)}
<1>1. l = IF OverlapInLevel(v, 0, b, e) THEN 0 ELSE Max(reached)
  BY DEF PickLevelForMemTableOutput
<1>2. kMaxMemCompactLevel \in Nat /\ 0..kMaxMemCompactLevel \in SUBSET Levels /\ 0 \in Levels
  BY VersionAssumption DEF Levels
<1>3. reached \in SUBSET Nat /\ 0 \in reached /\ \A m \in reached : m <= kMaxMemCompactLevel
  BY <1>2
<1> HIDE DEF reached
<1>4. Max(reached) \in reached
  BY <1>2, <1>3, GreatestOfNumbers
<1> USE DEF reached
<1>5. CASE OverlapInLevel(v, 0, b, e)
  BY <1>1, <1>2, <1>5
<1>6. CASE ~OverlapInLevel(v, 0, b, e)
  <2>1. l \in reached
    BY <1>1, <1>4, <1>6
  <2>2. l \in Nat /\ \A n \in 0..(l - 1) : ~OverlapInLevel(v, n + 1, b, e)
    BY <1>2, <2>1
  <2>3. ASSUME NEW m \in 0..l PROVE ~OverlapInLevel(v, m, b, e)
    <3>1. CASE m = 0
      BY <1>6, <3>1
    <3>2. CASE m # 0
      <4>1. m - 1 \in 0..(l - 1) /\ m - 1 + 1 = m
        BY <2>2, <3>2
      <4> QED  BY <2>2, <4>1
    <3> QED  BY <3>1, <3>2
  <2>4. \A m \in 0..l : \A f \in v[m] : Outside(f, b, e)
    BY <2>3 DEF OverlapInLevel
  <2> QED  BY <1>2, <2>1, <2>4
<1> QED  BY <1>5, <1>6

\* The keys of entries are between the least and the greatest of them.
LEMMA KeyEnds ==
  ASSUME HistOK, NEW E \in (SUBSET Numbers) \ {{}}, NEW K, K = {Key(x) : x \in E}
  PROVE  Min(K) \in Nat /\ Max(K) \in Nat /\ \A x \in E : Min(K) <= Key(x) /\ Key(x) <= Max(K)
<1>1. PICK a \in E : TRUE
  OBVIOUS
<1>2. \A x \in E : Key(x) \in Nat
  BY KeyOrder
<1> DEFINE key == [x \in E |-> Key(x)]
<1>3. IsFiniteSet(K)
  <2>1. IsFiniteSet(E)
    BY KeyOrder, FS_Subset
  <2>2. key \in [E -> {key[x] : x \in E}] /\ K = {key[x] : x \in E}
    OBVIOUS
  <2> HIDE DEF key
  <2> QED  BY <2>1, <2>2, ImageFinite
<1>4. K \in SUBSET Nat /\ Key(a) \in Nat /\ {Key(a)} \cup K = K
  BY <1>2
<1>5. Min(K) \in Nat /\ Max(K) \in Nat /\ \A m \in K : Min(K) <= m /\ m <= Max(K)
  <2> DEFINE n == Key(a)
             T == {n} \cup K
  <2>1. n \in Nat
    BY <1>4
  <2> HIDE DEF n
  <2>2. Min(T) \in Nat /\ Max(T) \in Nat /\ \A m \in K : Min(T) <= m /\ m <= Max(T)
    BY <1>3, <1>4, <2>1, EndsOfNumbers
  <2>3. T = K
    BY <1>4 DEF n
  <2> QED  BY <2>2, <2>3
<1> QED  BY <1>5

\* The files of a level after an edit
LEMMA AppliedMember ==
  ASSUME NEW v, NEW deleted, NEW added \in SUBSET (Levels \X Nat), NEW l \in Levels, NEW g
  PROVE  g \in Applied(v, deleted, added)[l] <=>
           \/ g \in v[l] /\ (<<l, g>> \notin deleted \/ <<l, g>> \in added)
           \/ <<l, g>> \in added
<1>1. Applied(v, deleted, added)[l] = (v[l] \ {f \in v[l] : <<l, f>> \in deleted /\ <<l, f>> \notin added})
                                      \cup {x[2] : x \in {y \in added : y[1] = l}}
  BY DEF Applied
<1>2. \A y \in added : y = <<y[1], y[2]>>
  OBVIOUS
<1>3. g \in {x[2] : x \in {y \in added : y[1] = l}} <=> <<l, g>> \in added
  BY <1>2
<1> QED  BY <1>1, <1>3

\* The entries E become the file f, below level 0 only where no file of the level
\* or above it overlaps.
FlushedTo(E, f) ==
  \/ E = {} /\ current' = current
  \/ /\ E # {} /\ FileOK(f)' /\ Entries(f)' = E
     /\ \E l \in Levels :
          /\ current' = [current EXCEPT ![l] = @ \cup {f}]
          /\ l > 0 => \A m \in 0..l : \A g \in current[m] : Apart(f, g)'

\* CompactMemTable: what is in imm_ becomes a file of the next number.
LEMMA FlushFacts ==
  ASSUME StoreInv, CompactMemTable, UNCHANGED <<hist, mem>>
  PROVE  /\ imm' = <<>> /\ Stays(AddLiveFiles({current}))
         /\ \E E \in SUBSET Numbers, f \in Nat : imm = <<E>> /\ f = nextFile /\ FlushedTo(E, f)
<1>1. PICK E \in SUBSET Numbers : imm = <<E>>
  BY DEF CompactMemTable, StoreInv, EntriesOK
<1>2. PICK f \in Nat : f = nextFile
  BY DEF StoreInv, DiskOK
<1>3. PICK K : K = {Key(e) : e \in E}
  OBVIOUS
<1>4. PICK l : l = PickLevelForMemTableOutput(current, Min(K), Max(K))
  OBVIOUS
<1>5. PICK disk : disk = IF E = {} THEN table ELSE [x \in DOMAIN table \cup {f} |->
                                                      IF x = f THEN TableOf(E) ELSE table[x]]
  OBVIOUS
<1>6. PICK v : v = IF E = {} THEN current ELSE Applied(current, {}, {<<l, f>>})
  OBVIOUS
<1>7. /\ Install(v, {f}) /\ imm' = <<>>
      /\ DeleteObsoleteFiles(disk, v, job, Pending(job))
  BY <1>1, <1>2, <1>3, <1>4, <1>5, <1>6 DEF CompactMemTable
<1>8. current' = v
  BY <1>7 DEF Install
<1>9. HistOK /\ HistOK' /\ VersionOK(current) /\ VersionOK(current)'
  BY CompactMemTableKeeps DEF StoreInv, EntriesOK, CurrentOK
<1>10. \A g \in DOMAIN table' : g \in DOMAIN disk /\ table'[g] = disk[g]
  BY <1>7, Kept
<1>11. \A g \in DOMAIN table : g < f /\ g # f
  BY <1>2 DEF StoreInv, DiskOK, FileOK
<1>12. \A m \in Levels : \A g \in current[m] : g \in current'[m]
  <2>1. CASE E = {}
    BY <1>6, <1>8, <2>1
  <2>2. CASE E # {}
    <3>1. current' = Applied(current, {}, {<<l, f>>})
      BY <1>6, <1>8, <2>2
    <3>2. \A m \in Levels : \A g \in current[m] : g \in Applied(current, {}, {<<l, f>>})[m]
      BY DEF Applied
    <3> QED  BY <3>1, <3>2
  <2> QED  BY <2>1, <2>2
<1>13. Stays(AddLiveFiles({current}))
  <2> SUFFICES ASSUME NEW g \in AddLiveFiles({current}) PROVE g \in DOMAIN table' /\ table'[g] = table[g]
    BY DEF Stays
  <2>1. PICK m \in Levels : g \in current[m]
    BY LiveFiles
  <2>2. FileOK(g)'
    BY <1>9, <1>12, <2>1 DEF VersionOK, FilesOK
  <2>3. g \in DOMAIN table
    BY <1>9, <2>1 DEF VersionOK, FilesOK, FileOK
  <2>4. disk[g] = table[g]
    BY <1>5, <1>11, <2>3
  <2> QED  BY <1>10, <2>2, <2>4 DEF FileOK
<1>14. CASE E = {}
  <2>1. FlushedTo(E, f)
    BY <1>6, <1>8, <1>14 DEF FlushedTo
  <2> QED  BY <1>1, <1>2, <1>7, <1>13, <2>1
<1>15. CASE E # {}
  <2>1. l \in Levels /\ (l > 0 => \A m \in 0..l : \A g \in current[m] : Outside(g, Min(K), Max(K)))
    BY <1>4, PickedLevel
  <2>2. Min(K) \in Nat /\ Max(K) \in Nat /\ \A x \in E : Min(K) <= Key(x) /\ Key(x) <= Max(K)
    BY <1>3, <1>9, <1>15, KeyEnds
  <2>3. current' = [current EXCEPT ![l] = @ \cup {f}]
    <3> DEFINE w == Applied(current, {}, {<<l, f>>})
               u == [current EXCEPT ![l] = @ \cup {f}]
    <3>1. current' = w
      BY <1>6, <1>8, <1>15
    <3>2. /\ w = [m \in Levels |-> w[m]] /\ u = [m \in Levels |-> u[m]]
      <4>1. DOMAIN current = Levels
        BY <1>9 DEF VersionOK
      <4>2. w = [m \in Levels |-> w[m]]
        BY DEF Applied
      <4> QED  BY <4>1, <4>2
    <3>3. ASSUME NEW m \in Levels PROVE w[m] = u[m]
      <4>1. {<<l, f>>} \in SUBSET (Levels \X Nat)
        BY <2>1
      <4>2. \A g : g \in w[m] <=> g \in current[m] \/ <<m, g>> = <<l, f>>
        <5>1. PICK A \in SUBSET (Levels \X Nat) : A = {<<l, f>>}
          BY <4>1
        <5>2. PICK D : D = {}
          OBVIOUS
        <5>3. \A g : g \in Applied(current, D, A)[m] <=>
               \/ g \in current[m] /\ (<<m, g>> \notin D \/ <<m, g>> \in A)
               \/ <<m, g>> \in A
          BY AppliedMember
        <5>4. w = Applied(current, D, A)
          BY <5>1, <5>2
        <5> HIDE DEF w
        <5> QED  BY <5>1, <5>2, <5>3, <5>4
      <4>3. u[m] = IF m = l THEN current[m] \cup {f} ELSE current[m]
        BY <1>9, <2>1 DEF VersionOK
      <4> HIDE DEF w, u
      <4> QED  BY <4>2, <4>3
    <3> HIDE DEF w, u
    <3>4. w = u
      BY <3>2, <3>3
    <3> QED  BY <3>1, <3>4 DEF u
  <2>4. FileOK(f)'
    <3>1. f \in current'[l]
      BY <1>9, <2>1, <2>3 DEF VersionOK
    <3> QED  BY <1>9, <2>1, <3>1 DEF VersionOK, FilesOK
  <2>5. Entries(f)' = E
    <3>1. table'[f] = TableOf(E)
      BY <1>5, <1>10, <1>15, <2>4 DEF FileOK
    <3> QED  BY <1>9, <1>15, <3>1, TableOfFacts DEF Entries
  <2>6. l > 0 => \A m \in 0..l : \A g \in current[m] : Apart(f, g)'
    <3> SUFFICES ASSUME l > 0, NEW m \in 0..l, NEW g \in current[m] PROVE Apart(f, g)'
      OBVIOUS
    <3>1. Outside(g, Min(K), Max(K))
      BY <2>1
    <3>2. Smallest(f)' \in E /\ Largest(f)' \in E
      BY <2>4, <2>5 DEF FileOK
    <3>3. m \in Levels
      BY <2>1, VersionAssumption DEF Levels
    <3>4. g \in AddLiveFiles({current}) /\ FileOK(g)
      BY <1>9, <3>3, LiveFiles DEF VersionOK, FilesOK
    <3>5. Smallest(g)' = Smallest(g) /\ Largest(g)' = Largest(g)
      BY <1>13, <3>4 DEF Stays, Smallest, Largest
    <3>6. Key(Smallest(g))' = Key(Smallest(g)) /\ Key(Largest(g))' = Key(Largest(g))
      BY <3>5 DEF Key
    <3>7. Key(Smallest(g)) \in Nat /\ Key(Largest(g)) \in Nat
      BY <1>9, <3>4, FileKeys
    <3>8. /\ Min(K) <= Key(Smallest(f))' /\ Key(Smallest(f))' <= Max(K) /\ Key(Smallest(f))' \in Nat
          /\ Min(K) <= Key(Largest(f))' /\ Key(Largest(f))' <= Max(K) /\ Key(Largest(f))' \in Nat
      <4>1. \A x \in E : Key(x) \in Nat
        BY <1>9, KeyOrder
      <4>2. Key(Smallest(f))' = Key(Smallest(f)') /\ Key(Largest(f))' = Key(Largest(f)')
        BY DEF Key
      <4> QED  BY <2>2, <3>2, <4>1, <4>2
    <3> QED  BY <2>2, <3>1, <3>6, <3>7, <3>8 DEF Apart, Outside, NULL
  <2>7. \E n \in Levels : /\ current' = [current EXCEPT ![n] = @ \cup {f}]
                          /\ n > 0 => \A m \in 0..n : \A g \in current[m] : Apart(f, g)'
    BY <2>1, <2>3, <2>6
  <2>8. FlushedTo(E, f)
    BY <1>15, <2>4, <2>5, <2>7 DEF FlushedTo
  <2> QED  BY <1>1, <1>2, <1>7, <1>13, <2>8
<1> QED  BY <1>14, <1>15


-----------------------------------------------------------------------------
(* The order of entries: NewerAbove as an inductive invariant.             *)

\* NewerAbove of the memtables m and i and the version v
Ordered(m, i, v) ==
  /\ \A f \in AddLiveFiles({v}) : Newer(m \cup i, Entries(f))
  /\ Newer(m, i)
  /\ \A f, g \in v[0] : f > g => Newer(Entries(f), Entries(g))
  /\ \A l, n \in Levels : l < n => \A f \in v[l], g \in v[n] : Newer(Entries(f), Entries(g))

\* A key is in at most one file of a level below 0.
KeysApart(v) ==
  \A l \in Levels \ {0} : \A f, g \in v[l] : f # g => ShareNoKey(Entries(f), Entries(g))

\* A compaction's inputs are still files of v; what the rest of their levels has
\* of their keys is newer or, in the level of the outputs, nothing at all; the
\* outputs hold nothing but entries of the inputs.
InOrder(v, c) ==
  /\ c.in0 \in SUBSET v[c.level] /\ c.in1 \in SUBSET v[c.level + 1]
  /\ \A f \in c.in0, g \in v[c.level] \ c.in0 : Newer(Entries(g), Entries(f))
  /\ \A f \in c.in0, g \in v[c.level + 1] \ c.in1 : ShareNoKey(Entries(g), Entries(f))
  /\ \A p \in Pending(c) : Entries(p) \in SUBSET InputSet(c)

OrderInv ==
  /\ Ordered(mem, ImmEntries, current) /\ KeysApart(current)
  /\ job # NoJob => InOrder(current, job)

\* The keys of entries do not change.
LEMMA SameKeys ==
  ASSUME HistOK, HistGrows, NEW E \in SUBSET Numbers, NEW D \in SUBSET Numbers
  PROVE  (Newer(E, D) => Newer(E, D)') /\ (ShareNoKey(E, D) => ShareNoKey(E, D)')
<1>1. \A e \in Numbers : Key(e)' = Key(e)
  BY DEF Key, HistGrows
<1> QED  BY <1>1 DEF Newer, ShareNoKey

\* Nor does what files hold.
LEMMA SameFiles ==
  ASSUME HistOK, HistGrows, NEW f, NEW g, FileOK(f), FileOK(g),
         table'[f] = table[f], table'[g] = table[g]
  PROVE  /\ Newer(Entries(f), Entries(g)) => Newer(Entries(f), Entries(g))'
         /\ ShareNoKey(Entries(f), Entries(g)) => ShareNoKey(Entries(f), Entries(g))'
<1>1. Entries(f)' = Entries(f) /\ Entries(g)' = Entries(g)
  BY DEF Entries
<1>2. \A e \in Numbers : Key(e)' = Key(e)
  BY DEF Key, HistGrows
<1>3. Entries(f) \in SUBSET Numbers /\ Entries(g) \in SUBSET Numbers
  BY DEF FileOK
<1> QED  BY <1>1, <1>2, <1>3 DEF Newer, ShareNoKey

\* What is in order stays so while its tables stay.
LEMMA OrderStays ==
  ASSUME HistOK, HistGrows, NEW v, VersionOK(v), Stays(AddLiveFiles({v})),
         NEW m \in SUBSET Numbers, NEW i \in SUBSET Numbers
  PROVE  (Ordered(m, i, v) => Ordered(m, i, v)') /\ (KeysApart(v) => KeysApart(v)')
<1>1. \A f \in AddLiveFiles({v}) : FileOK(f) /\ table'[f] = table[f]
  BY OnDisk DEF Stays
<1>2. \A l \in Levels : \A f \in v[l] : FileOK(f) /\ table'[f] = table[f]
  BY <1>1, LiveFiles
<1>3. \A e \in Numbers : Key(e)' = Key(e)
  BY DEF Key, HistGrows
<1>4. KeysApart(v) => KeysApart(v)'
  BY <1>2, SameFiles DEF KeysApart
<1>5. ASSUME Ordered(m, i, v) PROVE Ordered(m, i, v)'
  <2>1. ASSUME NEW f \in AddLiveFiles({v}) PROVE Newer(m \cup i, Entries(f))'
    <3>1. Entries(f)' = Entries(f) /\ Entries(f) \in SUBSET Numbers
      BY <1>1 DEF Entries, FileOK
    <3>2. Newer(m \cup i, Entries(f))
      BY <1>5 DEF Ordered
    <3> QED  BY <1>3, <3>1, <3>2 DEF Newer
  <2>2. Newer(m, i)'
    BY <1>5, SameKeys DEF Ordered
  <2>3. 0 \in Levels
    BY VersionAssumption DEF Levels
  <2>4. \A f, g \in v[0] : f > g => Newer(Entries(f), Entries(g))'
    BY <1>2, <1>5, <2>3, SameFiles DEF Ordered
  <2>5. \A l, n \in Levels : l < n => \A f \in v[l], g \in v[n] : Newer(Entries(f), Entries(g))'
    BY <1>2, <1>5, SameFiles DEF Ordered
  <2>6. AddLiveFiles({v})' = AddLiveFiles({v})
    BY DEF AddLiveFiles
  <2> QED  BY <2>1, <2>2, <2>4, <2>5 DEF Ordered
<1> QED  BY <1>4, <1>5

LEMMA InOrderStays ==
  ASSUME HistOK, HistGrows, NEW v, VersionOK(v), Stays(AddLiveFiles({v})),
         NEW c, CompactionOK(c), Stays(Pending(c)), InOrder(v, c)
  PROVE  InOrder(v, c)'
<1>1. \A f \in AddLiveFiles({v}) : FileOK(f) /\ table'[f] = table[f]
  BY OnDisk DEF Stays
<1>2. c.level \in Levels /\ c.level + 1 \in Levels
  BY VersionAssumption DEF CompactionOK, Levels
<1>3. /\ \A f \in v[c.level] : FileOK(f) /\ table'[f] = table[f]
      /\ \A f \in v[c.level + 1] : FileOK(f) /\ table'[f] = table[f]
  BY <1>1, <1>2, LiveFiles
<1>4. \A f \in c.in0 \cup c.in1 : Entries(f)' = Entries(f)
  BY <1>3 DEF InOrder, Entries
<1>5. InputSet(c)' = InputSet(c)
  BY <1>4 DEF InputSet
<1>6. Pending(c)' = Pending(c)
  BY DEF Pending, NoJob
<1>7. \A p \in Pending(c) : Entries(p)' = Entries(p)
  BY DEF Stays, Entries
<1>8. \A p \in Pending(c) : Entries(p)' \in SUBSET InputSet(c)'
  BY <1>5, <1>7 DEF InOrder
<1>9. /\ \A f \in c.in0, g \in v[c.level] \ c.in0 : Newer(Entries(g), Entries(f))'
      /\ \A f \in c.in0, g \in v[c.level + 1] \ c.in1 : ShareNoKey(Entries(g), Entries(f))'
  BY <1>3, SameFiles DEF InOrder
<1> QED  BY <1>6, <1>8, <1>9 DEF InOrder

\* Steps that leave the memtables, the current version and its tables alone, and
\* go on with the compaction or give it up
LEMMA QuietKeepsOrder ==
  ASSUME StoreInv, OrderInv, HistGrows, UNCHANGED <<mem, imm, current>>,
         Stays(AddLiveFiles({current})),
         job' = NoJob \/ (job' = job /\ (job # NoJob => Stays(Pending(job))))
  PROVE  OrderInv'
<1>1. PICK m, i, v : m = mem /\ i = ImmEntries /\ v = current
  OBVIOUS
<1>2. HistOK /\ VersionOK(v) /\ m \in SUBSET Numbers /\ i \in SUBSET Numbers
  BY <1>1 DEF StoreInv, EntriesOK, CurrentOK, ImmEntries
<1>3. Ordered(m, i, v) /\ KeysApart(v) /\ Stays(AddLiveFiles({v}))
  BY <1>1 DEF OrderInv
<1>4. Ordered(m, i, v)' /\ KeysApart(v)'
  BY <1>2, <1>3, OrderStays
<1>5. mem' = m /\ ImmEntries' = i /\ current' = v
  BY <1>1 DEF ImmEntries
<1>6. Ordered(mem, ImmEntries, current)' /\ KeysApart(current)'
  BY <1>4, <1>5
<1>7. (job # NoJob)' => InOrder(current, job)'
  <2> SUFFICES ASSUME job' # NoJob PROVE InOrder(current, job)'
    OBVIOUS
  <2>1. PICK c : c = job
    OBVIOUS
  <2>2. CompactionOK(c) /\ Stays(Pending(c)) /\ InOrder(v, c) /\ job' = c
    BY <1>1, <2>1 DEF StoreInv, JobOK, OrderInv
  <2>3. InOrder(v, c)'
    BY <1>2, <1>3, <2>2, InOrderStays
  <2> QED  BY <1>5, <2>2, <2>3
<1> QED  BY <1>6, <1>7 DEF OrderInv

\* A write only adds an entry, and changes no file.
LEMMA WriteGrows ==
  ASSUME StoreInv, NEW k \in Keys, NEW del \in Deletions, Write(k, del)
  PROVE  /\ HistGrows /\ UNCHANGED <<table, current, job>>
         /\ Stays(AddLiveFiles({current})) /\ (job # NoJob => Stays(Pending(job)))
<1>1. HistOK /\ VersionOK(current) /\ UNCHANGED <<table, current, job>>
  BY DEF StoreInv, EntriesOK, CurrentOK, Write, storage, background
<1>2. HistOK'
  BY WriteKeeps DEF StoreInv, EntriesOK
<1>3. HistGrows
  <2>1. Len(hist) \in Nat
    BY <1>1, KeyOrder
  <2>2. PICK x : hist' = Append(hist, x)
    BY DEF Write
  <2>3. Len(hist') = Len(hist) + 1 /\ \A a \in Numbers : hist'[a] = hist[a]
    BY <1>1, <2>2, AppendProperties DEF HistOK, Numbers
  <2> QED  BY <1>2, <2>1, <2>3 DEF HistGrows
<1>4. Stays(AddLiveFiles({current})) /\ (job # NoJob => Stays(Pending(job)))
  BY <1>1, SameTables DEF StoreInv, JobOK
<1> QED  BY <1>1, <1>3, <1>4

\* An entry that is written is newer than all others.
LEMMA WriteKeepsOrder ==
  ASSUME StoreInv, OrderInv, NEW k \in Keys, NEW del \in Deletions, Write(k, del)
  PROVE  OrderInv'
<1>1. PICK m, i, v, n : m = mem /\ i = ImmEntries /\ v = current /\ n = LastSequence + 1
  OBVIOUS
<1>2. HistOK /\ VersionOK(v) /\ m \in SUBSET Numbers /\ i \in SUBSET Numbers
  BY <1>1 DEF StoreInv, EntriesOK, CurrentOK, ImmEntries
<1>3. /\ mem' = m \cup {n} /\ ImmEntries' = i /\ current' = v /\ job' = job
      /\ UNCHANGED table
  BY <1>1 DEF Write, storage, background, ImmEntries
<1>5. HistGrows
  BY WriteGrows
<1>6. Stays(AddLiveFiles({v})) /\ (job # NoJob => Stays(Pending(job)))
  BY <1>1, WriteGrows
<1>7. Ordered(m, i, v) /\ KeysApart(v)
  BY <1>1 DEF OrderInv
<1>8. Ordered(m, i, v)' /\ KeysApart(v)'
  BY <1>2, <1>5, <1>6, <1>7, OrderStays
<1>9. \A x \in Numbers : n > x
  BY <1>1, <1>2, KeyOrder DEF Numbers, LastSequence
<1>10. Ordered(m \cup {n}, i, v)'
  <2>1. ASSUME NEW f \in AddLiveFiles({v}) PROVE Newer((m \cup {n}) \cup i, Entries(f))'
    <3>1. Newer(m \cup i, Entries(f))'
      BY <1>8 DEF Ordered, AddLiveFiles
    <3>2. Entries(f)' = Entries(f) /\ Entries(f) \in SUBSET Numbers
      BY <1>2, <1>3, OnDisk DEF Entries, FileOK
    <3> QED  BY <1>9, <3>1, <3>2 DEF Newer
  <2>2. Newer(m \cup {n}, i)'
    BY <1>2, <1>8, <1>9 DEF Ordered, Newer
  <2> QED  BY <1>8, <2>1, <2>2 DEF Ordered, AddLiveFiles
<1>11. Ordered(mem, ImmEntries, current)' /\ KeysApart(current)'
  BY <1>3, <1>8, <1>10
<1>12. (job # NoJob)' => InOrder(current, job)'
  <2> SUFFICES ASSUME job' # NoJob PROVE InOrder(current, job)'
    OBVIOUS
  <2>1. PICK c : c = job
    OBVIOUS
  <2>2. CompactionOK(c) /\ Stays(Pending(c)) /\ InOrder(v, c) /\ job' = c
    BY <1>1, <1>3, <1>6, <2>1 DEF StoreInv, JobOK, OrderInv
  <2>3. InOrder(v, c)'
    BY <1>2, <1>5, <1>6, <2>2, InOrderStays
  <2> QED  BY <1>3, <2>2, <2>3
<1> QED  BY <1>11, <1>12 DEF OrderInv


\* The memtable that is full becomes imm_, where there was none.
LEMMA SwitchKeepsOrder ==
  ASSUME StoreInv, OrderInv, imm = <<>>, mem' = {}, imm' = <<mem>>,
         UNCHANGED <<hist, table, current, job>>
  PROVE  OrderInv'
<1>1. ImmEntries' = mem /\ ImmEntries = {}
  BY DEF ImmEntries
<1>2. Ordered(mem, ImmEntries, current)'
  BY <1>1 DEF OrderInv, Ordered, Newer, Entries, Key, AddLiveFiles
<1>3. KeysApart(current)' /\ ((job # NoJob)' => InOrder(current, job)')
  BY DEF OrderInv, KeysApart, InOrder, ShareNoKey, Newer, Entries, Key, InputSet, Pending
<1> QED  BY <1>2, <1>3 DEF OrderInv

\* CompactMemTable, also in the middle of a compaction: the memtable was newer
\* than every file, and shares no key with the files above where it goes.
LEMMA FlushKeepsOrder ==
  ASSUME StoreInv, OrderInv, CompactMemTable, UNCHANGED <<hist, mem, job>>
  PROVE  OrderInv'
<1>1. PICK E \in SUBSET Numbers, f \in Nat : imm = <<E>> /\ f = nextFile /\ FlushedTo(E, f)
  BY FlushFacts
<1>2. PICK m, v : m = mem /\ v = current
  OBVIOUS
<1>3. /\ HistOK /\ HistGrows /\ HistOK' /\ VersionOK(v) /\ VersionOK(current)'
      /\ m \in SUBSET Numbers
      /\ Stays(AddLiveFiles({v})) /\ (job # NoJob => Stays(Pending(job)))
  BY <1>2, FlushFacts, CompactMemTableKeeps, SameHist DEF StoreInv, EntriesOK, CurrentOK
<1>4. Ordered(m, E, v) /\ KeysApart(v)
  BY <1>1, <1>2 DEF OrderInv, ImmEntries
<1>5. Ordered(m, E, v)' /\ KeysApart(v)'
  BY <1>3, <1>4, OrderStays
<1>6. /\ AddLiveFiles({v})' = AddLiveFiles({v}) /\ mem' = m /\ ImmEntries' = {}
  BY <1>2, FlushFacts DEF AddLiveFiles, ImmEntries
<1>7. \A l \in Levels : \A g \in v[l] : /\ Newer(m, Entries(g))' /\ Newer(E, Entries(g))'
                                         /\ FileOK(g)' /\ g \in Nat /\ g < f
  <2> SUFFICES ASSUME NEW l \in Levels, NEW g \in v[l]
               PROVE  /\ Newer(m, Entries(g))' /\ Newer(E, Entries(g))'
                      /\ FileOK(g)' /\ g \in Nat /\ g < f
    OBVIOUS
  <2>1. g \in AddLiveFiles({v}) /\ FileOK(g) /\ g \in DOMAIN table /\ g \in DOMAIN table' /\ table'[g] = table[g]
    BY <1>3, OnDisk, LiveFiles DEF Stays
  <2>2. FileOK(g)'
    BY <1>3, <2>1, FileStays
  <2>3. g \in Nat /\ g < f
    BY <1>1, <2>1 DEF StoreInv, DiskOK, FileOK
  <2>4. Newer(m \cup E, Entries(g))'
    BY <1>5, <1>6, <2>1 DEF Ordered
  <2> QED  BY <2>2, <2>3, <2>4 DEF Newer
<1>8. CASE E = {} /\ current' = v
  <2>1. Ordered(m, {}, v)'
    BY <1>5, <1>8 DEF Ordered
  <2>2. Ordered(mem, ImmEntries, current)' /\ KeysApart(current)'
    BY <1>5, <1>6, <1>8, <2>1
  <2>3. (job # NoJob)' => InOrder(current, job)'
    <3> SUFFICES ASSUME job' # NoJob PROVE InOrder(current, job)'
      OBVIOUS
    <3>1. PICK c : c = job
      OBVIOUS
    <3>2. CompactionOK(c) /\ Stays(Pending(c)) /\ InOrder(v, c) /\ job' = c
      BY <1>2, <1>3, <3>1 DEF StoreInv, JobOK, OrderInv
    <3>3. InOrder(v, c)'
      BY <1>3, <3>2, InOrderStays
    <3> QED  BY <1>8, <3>2, <3>3
  <2> QED  BY <2>2, <2>3 DEF OrderInv
<1>9. CASE E # {} /\ current' # v
  <2>1. /\ FileOK(f)' /\ Entries(f)' = E
        /\ \E l \in Levels : /\ current' = [v EXCEPT ![l] = @ \cup {f}]
                             /\ l > 0 => \A n \in 0..l : \A g \in v[n] : Apart(f, g)'
    BY <1>1, <1>2, <1>9 DEF FlushedTo
  <2>2. PICK l \in Levels : /\ current' = [v EXCEPT ![l] = @ \cup {f}]
                            /\ l > 0 => \A n \in 0..l : \A g \in v[n] : Apart(f, g)'
    BY <2>1
  <2>3. PICK w : w = current'
    OBVIOUS
  <2>4. \A n \in Levels : w[n] = IF n = l THEN v[n] \cup {f} ELSE v[n]
    BY <1>3, <2>2, <2>3 DEF VersionOK
  <2>5. \A n \in Levels : n <= l /\ l > 0 => \A g \in v[n] :
          ShareNoKey(Entries(f), Entries(g))' /\ ShareNoKey(Entries(g), Entries(f))'
    <3> SUFFICES ASSUME NEW n \in Levels, n <= l, l > 0, NEW g \in v[n]
                 PROVE  ShareNoKey(Entries(f), Entries(g))' /\ ShareNoKey(Entries(g), Entries(f))'
      OBVIOUS
    <3>1. n \in 0..l
      BY VersionAssumption DEF Levels
    <3>2. Apart(f, g)' /\ FileOK(g)'
      BY <1>7, <2>2, <3>1
    <3>3. ShareNoKey(Entries(f), Entries(g))'
      BY <1>3, <2>1, <3>2, ApartShareNoKeyNext
    <3> QED  BY <3>3 DEF ShareNoKey
  <2>6. Newer(m, E)'
    BY <1>5 DEF Ordered
  <2>7. \A g \in AddLiveFiles({w}) : Newer(m \cup {}, Entries(g))'
    <3> SUFFICES ASSUME NEW n \in Levels, NEW g \in w[n] PROVE Newer(m \cup {}, Entries(g))'
      BY LiveFiles
    <3>1. g \in v[n] \/ g = f
      BY <2>4
    <3> QED  BY <1>7, <2>1, <2>6, <3>1 DEF Newer
  <2>8. 0 \in Levels /\ \A n \in Levels : n \in Nat
    BY VersionAssumption DEF Levels
  <2>9. \A g, h \in w[0] : g > h => Newer(Entries(g), Entries(h))'
    <3> SUFFICES ASSUME NEW g \in w[0], NEW h \in w[0], g > h PROVE Newer(Entries(g), Entries(h))'
      OBVIOUS
    <3>1. (g \in v[0] \/ g = f) /\ (h \in v[0] \/ h = f)
      BY <2>4, <2>8
    <3>2. CASE g \in v[0] /\ h \in v[0]
      BY <1>5, <3>2 DEF Ordered
    <3>3. CASE g = f /\ h \in v[0]
      <4>1. Newer(E, Entries(h))' /\ Entries(g)' = E
        BY <1>7, <2>1, <2>8, <3>3
      <4> QED  BY <4>1 DEF Newer
    <3>4. CASE h = f
      <4>1. f \in Nat /\ (g \in v[0] => g \in Nat /\ g < f)
        BY <1>7, <2>8
      <4>2. g > f
        BY <3>4
      <4> QED  BY <3>1, <4>1, <4>2
    <3> QED  BY <3>1, <3>2, <3>3, <3>4
  <2>10. \A n, o \in Levels : n < o => \A g \in w[n], h \in w[o] : Newer(Entries(g), Entries(h))'
    <3> SUFFICES ASSUME NEW n \in Levels, NEW o \in Levels, n < o, NEW g \in w[n], NEW h \in w[o]
                 PROVE  Newer(Entries(g), Entries(h))'
      OBVIOUS
    <3>1. (g \in v[n] \/ (g = f /\ n = l)) /\ (h \in v[o] \/ (h = f /\ o = l))
      BY <2>4
    <3>2. CASE g \in v[n] /\ h \in v[o]
      BY <1>5, <3>2 DEF Ordered
    <3>3. CASE g = f /\ h \in v[o]
      BY <1>7, <2>1, <3>3 DEF Newer
    <3>4. CASE g \in v[n] /\ h = f /\ o = l
      <4>1. n <= l /\ l > 0
        BY <2>8, <3>4
      <4>2. ShareNoKey(Entries(g), Entries(f))'
        BY <2>5, <3>4, <4>1
      <4> QED  BY <3>4, <4>2 DEF ShareNoKey, Newer
    <3>5. ~(g = f /\ n = l /\ h = f /\ o = l)
      BY <2>8
    <3> QED  BY <3>1, <3>2, <3>3, <3>4, <3>5
  <2>11. Ordered(m, {}, w)'
    <3>1. AddLiveFiles({w})' = AddLiveFiles({w}) /\ Newer(m, {})'
      BY DEF AddLiveFiles, Newer
    <3> QED  BY <2>7, <2>9, <2>10, <3>1 DEF Ordered
  <2>12. KeysApart(w)'
    <3> SUFFICES ASSUME NEW n \in Levels \ {0}, NEW g \in w[n], NEW h \in w[n], g # h
                 PROVE  ShareNoKey(Entries(g), Entries(h))'
      BY DEF KeysApart
    <3>1. (g \in v[n] \/ (g = f /\ n = l)) /\ (h \in v[n] \/ (h = f /\ n = l))
      BY <2>4
    <3>2. CASE g \in v[n] /\ h \in v[n]
      BY <1>5, <3>2 DEF KeysApart
    <3>3. CASE n = l /\ ((g = f /\ h \in v[n]) \/ (g \in v[n] /\ h = f))
      <4>1. n <= l /\ l > 0
        BY <2>8, <3>3
      <4> QED  BY <2>5, <3>3, <4>1
    <3> QED  BY <3>1, <3>2, <3>3
  <2>13. (job # NoJob)' => InOrder(current, job)'
    <3> SUFFICES ASSUME job' # NoJob PROVE InOrder(current, job)'
      OBVIOUS
    <3>1. PICK c : c = job
      OBVIOUS
    <3>2. CompactionOK(c) /\ Stays(Pending(c)) /\ InOrder(v, c) /\ job' = c
      BY <1>2, <1>3, <3>1 DEF StoreInv, JobOK, OrderInv
    <3>3. InOrder(v, c)'
      BY <1>3, <3>2, InOrderStays
    <3>4. c.level \in Levels /\ c.level + 1 \in Levels /\ c.level < c.level + 1
      BY <3>2, VersionAssumption DEF CompactionOK, Levels
    <3>5. c.in0 \in SUBSET v[c.level] /\ c.in1 \in SUBSET v[c.level + 1]
      BY <3>2 DEF InOrder
    <3>6. \A g \in c.in0, h \in w[c.level] \ c.in0 : Newer(Entries(h), Entries(g))'
      <4> SUFFICES ASSUME NEW g \in c.in0, NEW h \in w[c.level] \ c.in0 PROVE Newer(Entries(h), Entries(g))'
        OBVIOUS
      <4>1. g \in v[c.level] /\ (h \in v[c.level] \ c.in0 \/ h = f)
        BY <2>4, <3>4, <3>5
      <4>2. CASE h \in v[c.level] \ c.in0
        BY <3>3, <4>2 DEF InOrder
      <4>3. CASE h = f
        BY <1>7, <2>1, <3>4, <4>1, <4>3 DEF Newer
      <4> QED  BY <4>1, <4>2, <4>3
    <3>7. \A g \in c.in0, h \in w[c.level + 1] \ c.in1 : ShareNoKey(Entries(h), Entries(g))'
      <4> SUFFICES ASSUME NEW g \in c.in0, NEW h \in w[c.level + 1] \ c.in1
                   PROVE  ShareNoKey(Entries(h), Entries(g))'
        OBVIOUS
      <4>1. g \in v[c.level] /\ (h \in v[c.level + 1] \ c.in1 \/ (h = f /\ l = c.level + 1))
        BY <2>4, <3>4, <3>5
      <4>2. CASE h \in v[c.level + 1] \ c.in1
        BY <3>3, <4>2 DEF InOrder
      <4>3. CASE h = f /\ l = c.level + 1
        <5>1. c.level \in Nat
          BY <2>8, <3>4
        <5>2. c.level <= l /\ l > 0
          BY <4>3, <5>1
        <5> QED  BY <2>5, <3>4, <4>1, <4>3, <5>2
      <4> QED  BY <4>1, <4>2, <4>3
    <3>8. c.in0 \in SUBSET w[c.level] /\ c.in1 \in SUBSET w[c.level + 1]
      BY <2>4, <3>4, <3>5
    <3>9. InOrder(w, c)'
      BY <3>3, <3>6, <3>7, <3>8 DEF InOrder
    <3> QED  BY <2>3, <3>2, <3>9
  <2> QED  BY <1>6, <2>3, <2>11, <2>12, <2>13 DEF OrderInv
<1>10. (E = {} /\ current' = v) \/ (E # {} /\ current' # v)
  <2>1. CASE E = {} /\ current' = current
    BY <1>2, <2>1
  <2>2. CASE E # {}
    <3>1. PICK l \in Levels : current' = [v EXCEPT ![l] = @ \cup {f}]
      BY <1>1, <1>2, <2>2 DEF FlushedTo
    <3>2. f \in current'[l] /\ f \notin v[l]
      <4>1. f \notin v[l]
        BY <1>1, <1>7
      <4> QED  BY <1>3, <3>1, <4>1 DEF VersionOK
    <3> QED  BY <2>2, <3>2
  <2> QED  BY <1>1, <2>1, <2>2 DEF FlushedTo
<1> QED  BY <1>8, <1>9, <1>10

-----------------------------------------------------------------------------
(* What the outputs of a compaction hold.                                  *)

\* After i entries the outputs so far, in order, hold those that were not dropped,
\* and no others.
Collected(c, i, s) ==
  /\ s \in Seq(SUBSET Numbers) /\ Len(s) >= 1
  /\ \A p \in 1..Len(s) : \A x \in s[p] :
       \E j \in 1..i : x = InputEntries(c)[j] /\ ~Dropped(c, InputEntries(c), j)
  /\ \A p, q \in 1..Len(s) : p < q => \A x \in s[p], y \in s[q] : ILess(x, y)
  /\ \A j \in 1..i : Dropped(c, InputEntries(c), j) \/ \E p \in 1..Len(s) : InputEntries(c)[j] \in s[p]

\* A new output is opened.
LEMMA OpensCollected ==
  ASSUME NEW c, NEW i, NEW s, Collected(c, i, s)
  PROVE  Collected(c, i, Append(s, {}))
<1> DEFINE t == Append(s, {})
<1>1. s \in Seq(SUBSET Numbers) /\ Len(s) \in Nat /\ Len(s) >= 1
  BY LenProperties DEF Collected
<1>2. /\ t \in Seq(SUBSET Numbers) /\ Len(t) = Len(s) + 1
      /\ \A p \in 1..Len(s) : t[p] = s[p]
      /\ t[Len(s) + 1] = {}
  BY <1>1
<1> HIDE DEF t
<1>3. \A p \in 1..Len(t) : t[p] = {} \/ (p \in 1..Len(s) /\ t[p] = s[p])
  BY <1>1, <1>2
<1>4. \A p \in 1..Len(s) : p \in 1..Len(t)
  BY <1>1, <1>2
<1>5. Len(t) >= 1
  BY <1>1, <1>2
<1>6. \A p \in 1..Len(t) : \A x \in t[p] :
        \E j \in 1..i : x = InputEntries(c)[j] /\ ~Dropped(c, InputEntries(c), j)
  BY <1>3 DEF Collected
<1>7. \A p, q \in 1..Len(t) : p < q => \A x \in t[p], y \in t[q] : ILess(x, y)
  BY <1>3 DEF Collected
<1>8. \A j \in 1..i : Dropped(c, InputEntries(c), j) \/ \E p \in 1..Len(t) : InputEntries(c)[j] \in t[p]
  BY <1>2, <1>4 DEF Collected
<1> QED  BY <1>2, <1>5, <1>6, <1>7, <1>8 DEF Collected, t

\* The open output takes the next entry, the greatest so far.
LEMMA GrowsCollected ==
  ASSUME HistOK, NEW c, CompactionOK(c), NEW i \in 1..Len(InputEntries(c)),
         ~Dropped(c, InputEntries(c), i), NEW s, Collected(c, i - 1, s),
         NEW t, t = [s EXCEPT ![Len(s)] = @ \cup {InputEntries(c)[i]}]
  PROVE  Collected(c, i, t)
<1>1. PICK input : input = InputEntries(c)
  OBVIOUS
<1>2. /\ input \in Seq(Numbers) /\ Len(input) \in Nat
      /\ \A a, b \in 1..Len(input) : a < b => ILess(input[a], input[b])
  BY <1>1, MergedInput
<1>3. PICK e \in Numbers : e = input[i]
  BY <1>1, <1>2, ElementOfSeq
<1>4. i \in 1..Len(input) /\ i \in Nat /\ \A j \in 1..(i - 1) : j \in 1..Len(input) /\ j < i /\ j \in 1..i
  BY <1>1, <1>2
<1>5. PICK n \in Nat : n = Len(s) /\ n >= 1
  BY LenProperties DEF Collected
<1>6. s \in Seq(SUBSET Numbers) /\ n \in 1..Len(s)
  BY <1>5 DEF Collected
<1>7. PICK x \in SUBSET Numbers : x = s[n] \cup {e}
  BY <1>6, ElementOfSeq
<1>8. t = [s EXCEPT ![n] = x]
  BY <1>1, <1>3, <1>5, <1>7
<1>9. /\ t \in Seq(SUBSET Numbers) /\ Len(t) = n
      /\ \A p \in 1..n : t[p] = IF p = n THEN x ELSE s[p]
  <2>1. LET u == [s EXCEPT ![n] = x]
        IN  /\ u \in Seq(SUBSET Numbers) /\ Len(u) = n
            /\ \A p \in 1..n : u[p] = IF p = n THEN x ELSE s[p]
    BY <1>5, <1>6, ExceptSeq
  <2> QED  BY <1>8, <2>1
<1>10. \A p \in 1..n : s[p] \in SUBSET t[p] /\ \A y \in t[p] : y \in s[p] \/ (p = n /\ y = e)
  BY <1>7, <1>9
<1>11. \A p \in 1..n : \A y \in s[p] : ILess(y, e)
  <2> SUFFICES ASSUME NEW p \in 1..n, NEW y \in s[p] PROVE ILess(y, e)
    OBVIOUS
  <2>1. PICK j \in 1..(i - 1) : y = input[j]
    BY <1>1, <1>5 DEF Collected
  <2> QED  BY <1>2, <1>3, <1>4, <2>1
<1>12. \A p \in 1..n : \A y \in t[p] : \E j \in 1..i : y = input[j] /\ ~Dropped(c, input, j)
  <2> SUFFICES ASSUME NEW p \in 1..n, NEW y \in t[p]
               PROVE  \E j \in 1..i : y = input[j] /\ ~Dropped(c, input, j)
    OBVIOUS
  <2>1. CASE y \in s[p]
    BY <1>1, <1>4, <1>5, <2>1 DEF Collected
  <2>2. CASE y = e
    <3>1. i \in 1..i
      BY <1>4
    <3> QED  BY <1>1, <1>3, <2>2, <3>1
  <2> QED  BY <1>10, <2>1, <2>2
<1>13. \A p, q \in 1..n : p < q => \A y \in t[p], z \in t[q] : ILess(y, z)
  <2> SUFFICES ASSUME NEW p \in 1..n, NEW q \in 1..n, p < q, NEW y \in t[p], NEW z \in t[q]
               PROVE  ILess(y, z)
    OBVIOUS
  <2>1. p # n
    BY <1>5
  <2>2. y \in s[p] /\ (z \in s[q] \/ z = e)
    BY <1>10, <2>1
  <2> QED  BY <1>5, <1>11, <2>2 DEF Collected
<1>14. \A j \in 1..i : Dropped(c, input, j) \/ \E p \in 1..n : input[j] \in t[p]
  <2> SUFFICES ASSUME NEW j \in 1..i PROVE Dropped(c, input, j) \/ \E p \in 1..n : input[j] \in t[p]
    OBVIOUS
  <2>1. CASE j = i
    BY <1>3, <1>5, <1>6, <1>7, <1>9, <2>1
  <2>2. CASE j # i
    <3>1. j \in 1..(i - 1)
      BY <1>4, <2>2
    <3> QED  BY <1>1, <1>5, <1>10, <3>1 DEF Collected
  <2> QED  BY <2>1, <2>2
<1> QED  BY SMTT(30), <1>1, <1>5, <1>9, <1>12, <1>13, <1>14 DEF Collected

\* The outputs are consecutive parts of the merged input, without what is dropped.
LEMMA OutputStructure ==
  ASSUME HistOK, NEW c, CompactionOK(c), NEW outs, outs = CompactionOutputs(c)
  PROVE  /\ outs \in Seq((SUBSET Numbers) \ {{}}) /\ Len(outs) \in Nat
         /\ \A p \in 1..Len(outs) : outs[p] \in SUBSET InputSet(c)
         /\ \A p \in 1..Len(outs) : \A x \in outs[p] :
              \E j \in 1..Len(InputEntries(c)) : x = InputEntries(c)[j] /\ ~Dropped(c, InputEntries(c), j)
         /\ \A p, q \in 1..Len(outs) : p < q => \A x \in outs[p], y \in outs[q] : ILess(x, y)
         /\ \A i \in 1..Len(InputEntries(c)) :
              Dropped(c, InputEntries(c), i) \/ \E p \in 1..Len(outs) : InputEntries(c)[i] \in outs[p]
<1>1. PICK input : input = InputEntries(c)
  OBVIOUS
<1>2. PICK N \in Nat : N = Len(InputEntries(c))
  BY InputFacts, LenProperties
<1>3. ASSUME NEW i \in 1..N, NEW sofar, Collected(c, i - 1, sofar)
      PROVE  Collected(c, i, OutputStep(c, i, sofar))
  <2> DEFINE last == sofar[Len(sofar)]
             open == IF i \in ShouldStop(c, input) /\ last # {} THEN Append(sofar, {}) ELSE sofar
             grown == [open EXCEPT ![Len(open)] = @ \cup {input[i]}]
  <2>1. Collected(c, i - 1, open)
    BY <1>3, OpensCollected
  <2> HIDE DEF open
  <2>2. i \in 1..Len(InputEntries(c)) /\ i - 1 \in Nat /\ \A j \in 1..i : j \in 1..(i - 1) \/ j = i
    BY <1>2
  <2>3. Dropped(c, input, i) => Collected(c, i, open)
    <3>1. \A j \in 1..(i - 1) : j \in 1..i
      BY <2>2
    <3> QED  BY <1>1, <2>1, <2>2, <3>1 DEF Collected
  <2>4. ~Dropped(c, input, i) => Collected(c, i, grown)
    BY <1>1, <2>1, <2>2, GrowsCollected
  <2> HIDE DEF grown
  <2>5. ~Dropped(c, input, i) => Collected(c, i, Append(grown, {}))
    BY <2>4, OpensCollected
  <2>6. OutputStep(c, i, sofar) = IF Dropped(c, input, i) THEN open
                                  ELSE IF Cardinality(grown[Len(grown)]) >= MaxFileSize THEN Append(grown, {})
                                  ELSE grown
    BY <1>1 DEF OutputStep, open, grown
  <2> QED  BY <2>3, <2>4, <2>5, <2>6
<1>4. PICK start : start = <<{}>>
  OBVIOUS
<1>5. Collected(c, 0, start)
  <2>1. start \in Seq(SUBSET Numbers) /\ Len(start) = 1 /\ start[1] = {}
    BY <1>4
  <2>2. \A p \in 1..Len(start) : p = 1
    BY <2>1
  <2> QED  BY <2>1, <2>2 DEF Collected
<1> DEFINE X == Seq(SUBSET Numbers)
           S == {p \in Nat \X X : Collected(c, p[1], p[2])}
<1>6. PICK all : Collected(c, N, all) /\ OutputsAre(c, all)
  <2>1. S \in SUBSET (Nat \X X)
    OBVIOUS
  <2>2. \A i, s : Collected(c, i, s) => s \in X
    BY DEF Collected
  <2>3. \A i \in Nat, s \in X : <<i, s>> \in S <=> Collected(c, i, s)
    OBVIOUS
  <2> HIDE DEF S, X
  <2>4. <<0, start>> \in S
    BY <1>5, <2>2, <2>3
  <2>5. \A i \in 1..N : \A s \in X : <<i - 1, s>> \in S => <<i, OutputStep(c, i, s)>> \in S
    <3> SUFFICES ASSUME NEW i \in 1..N, NEW s \in X, <<i - 1, s>> \in S PROVE <<i, OutputStep(c, i, s)>> \in S
      OBVIOUS
    <3>1. i \in Nat /\ i - 1 \in Nat
      OBVIOUS
    <3>2. Collected(c, i, OutputStep(c, i, s))
      BY <1>3, <2>3, <3>1
    <3> QED  BY <2>2, <2>3, <3>1, <3>2
  <2>6. \E all \in X : <<N, all>> \in S /\ OutputsAre(c, all)
    BY <1>2, <1>4, <2>1, <2>4, <2>5, OutputLoop
  <2> QED  BY <2>3, <2>6
<1> HIDE DEF S, X
<1>7. PICK n \in Nat : n = Len(all) /\ n >= 1 /\ all \in Seq(SUBSET Numbers)
  BY <1>6, LenProperties DEF Collected
<1>8. outs = IF all[n] = {} THEN SubSeq(all, 1, n - 1) ELSE all
  BY <1>6, <1>7 DEF OutputsAre
<1>9. outs \in Seq((SUBSET Numbers) \ {{}}) /\ Len(outs) \in Nat
  BY OutputFacts, LenProperties
<1>10. /\ \A p \in 1..Len(outs) : p \in 1..n /\ outs[p] = all[p]
       /\ \A p \in 1..n : all[p] # {} => p \in 1..Len(outs)
  <2>1. CASE all[n] = {}
    <3>1. SubSeq(all, 1, n - 1) = outs
      BY <1>8, <2>1
    <3>2. /\ Len(outs) = n - 1
          /\ \A p \in 1..(n - 1) : outs[p] = all[p]
      <4>1. 1 \in 1..n + 1 /\ n - 1 \in 0..n /\ n - 1 \in Int
        BY <1>7
      <4> QED  BY <1>7, <3>1, <4>1, SubSeqProperties
    <3>3. \A p \in 1..n : p = n \/ p \in 1..(n - 1)
      BY <1>7
    <3> QED  BY <1>7, <2>1, <3>2, <3>3
  <2>2. CASE all[n] # {}
    BY <1>7, <1>8, <2>2
  <2> QED  BY <2>1, <2>2
<1>11. \A p \in 1..Len(outs) : outs[p] \in SUBSET InputSet(c)
  <2>1. \A j \in 1..N : input[j] \in InputSet(c)
    BY <1>1, <1>2, MergedInput
  <2>2. \A p \in 1..n : \A x \in all[p] : \E j \in 1..N : x = input[j]
    BY <1>1, <1>6, <1>7 DEF Collected
  <2> QED  BY <1>10, <2>1, <2>2
<1>12. \A p, q \in 1..Len(outs) : p < q => \A x \in outs[p], y \in outs[q] : ILess(x, y)
  BY <1>6, <1>7, <1>10 DEF Collected
<1>13. \A i \in 1..N : Dropped(c, input, i) \/ \E p \in 1..Len(outs) : input[i] \in outs[p]
  <2> SUFFICES ASSUME NEW i \in 1..N, ~Dropped(c, input, i)
               PROVE  \E p \in 1..Len(outs) : input[i] \in outs[p]
    OBVIOUS
  <2>1. PICK p \in 1..n : input[i] \in all[p]
    BY <1>1, <1>6, <1>7 DEF Collected
  <2> QED  BY <1>10, <2>1
<1>14. \A p \in 1..Len(outs) : \A x \in outs[p] : \E j \in 1..N : x = input[j] /\ ~Dropped(c, input, j)
  BY <1>1, <1>6, <1>7, <1>10 DEF Collected
<1>15. \A p \in 1..Len(outs) : \A x \in outs[p] :
         \E j \in 1..Len(InputEntries(c)) : x = InputEntries(c)[j] /\ ~Dropped(c, InputEntries(c), j)
  BY <1>1, <1>2, <1>14
<1>16. \A i \in 1..Len(InputEntries(c)) :
         Dropped(c, InputEntries(c), i) \/ \E p \in 1..Len(outs) : InputEntries(c)[i] \in outs[p]
  BY <1>1, <1>2, <1>13
<1> QED  BY ONLY <1>9, <1>11, <1>12, <1>15, <1>16

-----------------------------------------------------------------------------
(* The steps of the background thread keep the order.                      *)

\* Without new entries or tables, what is in order stays so.
LEMMA SameOrder ==
  ASSUME UNCHANGED <<hist, table>>, NEW m, NEW i, NEW v, NEW c
  PROVE  /\ Ordered(m, i, v) => Ordered(m, i, v)'
         /\ KeysApart(v) => KeysApart(v)'
         /\ InOrder(v, c) => InOrder(v, c)'
BY DEF Ordered, KeysApart, InOrder, ShareNoKey, Newer, Entries, Key, InputSet, Pending, AddLiveFiles

\* What the inputs that were chosen have in common with the other files of the
\* version: no key, in their level and in the next
Chosen(v, l, c) ==
  /\ l \in Levels /\ l + 1 \in Levels /\ l \in Nat
  /\ c.level = l /\ c.version = v /\ c.outputs = <<>> /\ CompactionOK(c)
  /\ c.in0 \in SUBSET v[l] /\ c.in1 \in SUBSET v[l + 1]
  /\ \A f \in c.in0, g \in v[l] \ c.in0 : ShareNoKey(Entries(g), Entries(f))
  /\ \A f \in c.in0, g \in v[l + 1] \ c.in1 : ShareNoKey(Entries(g), Entries(f))

LEMMA ChosenInputs ==
  ASSUME HistOK, NEW v, VersionOK(v), KeysApart(v),
         NEW l, NEW F, Asked(v, l, F), NEW c, c = SetupOtherInputs(v, l, F)
  PROVE  Chosen(v, l, c)
<1>1. /\ CompactionOK(c) /\ c.version = v /\ c.level = l /\ c.outputs = <<>>
      /\ l = 0 => \A f \in c.in0, g \in v[0] \ c.in0 : Apart(f, g)
      /\ \A f \in c.in0, g \in v[l + 1] \ c.in1 : Apart(f, g)
  BY InputsApart
<1>2. l \in Levels /\ l + 1 \in Levels /\ l \in Nat
  BY VersionAssumption DEF Asked, Levels
<1>3. c.in0 \in SUBSET v[l] /\ c.in1 \in SUBSET v[l + 1]
  BY <1>1 DEF CompactionOK
<1>4. (\A g \in v[l] : FileOK(g)) /\ (\A g \in v[l + 1] : FileOK(g))
  BY <1>2 DEF VersionOK, FilesOK
<1>5. \A f, g : FileOK(f) /\ FileOK(g) /\ Apart(f, g) => ShareNoKey(Entries(g), Entries(f))
  <2> SUFFICES ASSUME NEW f, NEW g, FileOK(f), FileOK(g), Apart(f, g)
               PROVE  ShareNoKey(Entries(g), Entries(f))
    OBVIOUS
  <2>1. ShareNoKey(Entries(f), Entries(g))
    BY ApartShareNoKey
  <2> QED  BY <2>1 DEF ShareNoKey
<1>6. \A f \in c.in0, g \in v[l + 1] \ c.in1 : ShareNoKey(Entries(g), Entries(f))
  BY <1>1, <1>3, <1>4, <1>5
<1>7. \A f \in c.in0, g \in v[l] \ c.in0 : ShareNoKey(Entries(g), Entries(f))
  <2>1. CASE l = 0
    BY <1>1, <1>3, <1>4, <1>5, <2>1
  <2>2. CASE l # 0
    BY <1>2, <1>3, <2>2 DEF KeysApart
  <2> QED  BY <2>1, <2>2
<1> QED  BY <1>1, <1>2, <1>3, <1>6, <1>7 DEF Chosen

\* A file that shares no key with the rest of its level and with the next moves
\* to the next.
LEMMA MovedInOrder ==
  ASSUME HistOK, NEW v, VersionOK(v), NEW m, NEW i, Ordered(m, i, v), KeysApart(v),
         NEW l \in Nat, l \in Levels, l + 1 \in Levels, NEW f \in v[l],
         \A g \in v[l] \ {f} : ShareNoKey(Entries(g), Entries(f)),
         \A g \in v[l + 1] : ShareNoKey(Entries(g), Entries(f)),
         NEW w, \A n \in Levels : \A g \in w[n] :
                  (g \in v[n] /\ (n = l => g # f)) \/ (n = l + 1 /\ g = f)
  PROVE  Ordered(m, i, w) /\ KeysApart(w)
<1>1. \A n \in Levels : n \in Nat
  BY VersionAssumption DEF Levels
<1>2. \A g \in AddLiveFiles({w}) : g \in AddLiveFiles({v})
  BY LiveFiles
<1>3. 0 \in Levels
  BY VersionAssumption DEF Levels
<1>4. \A g, h \in w[0] : g > h => Newer(Entries(g), Entries(h))
  <2>1. \A g \in w[0] : g \in v[0]
    BY <1>3
  <2> QED  BY <2>1 DEF Ordered
<1>5. \A n, o \in Levels : n < o => \A g \in w[n], h \in w[o] : Newer(Entries(g), Entries(h))
  <2> SUFFICES ASSUME NEW n \in Levels, NEW o \in Levels, n < o, NEW g \in w[n], NEW h \in w[o]
               PROVE  Newer(Entries(g), Entries(h))
    OBVIOUS
  <2>1. CASE g \in v[n] /\ h \in v[o]
    BY <2>1 DEF Ordered
  <2>2. CASE n = l + 1 /\ g = f /\ h \in v[o]
    <3>1. l < o
      BY <1>1, <2>2
    <3> QED  BY <2>2, <3>1 DEF Ordered
  <2>3. CASE o = l + 1 /\ h = f /\ g \in v[n] /\ (n = l => g # f)
    <3>1. n < l \/ n = l
      BY <1>1, <2>3
    <3>2. CASE n < l
      BY <2>3, <3>2 DEF Ordered
    <3>3. CASE n = l
      <4>1. ShareNoKey(Entries(g), Entries(f))
        BY <2>3, <3>3
      <4> QED  BY <2>3, <4>1 DEF Newer, ShareNoKey
    <3> QED  BY <3>1, <3>2, <3>3
  <2>4. ~(n = l + 1 /\ o = l + 1)
    BY <1>1
  <2> QED  BY <2>1, <2>2, <2>3, <2>4
<1>6. KeysApart(w)
  <2> SUFFICES ASSUME NEW n \in Levels \ {0}, NEW g \in w[n], NEW h \in w[n], g # h
               PROVE  ShareNoKey(Entries(g), Entries(h))
    BY DEF KeysApart
  <2>1. CASE g \in v[n] /\ h \in v[n]
    BY <2>1 DEF KeysApart
  <2>2. CASE n = l + 1 /\ g = f /\ h \in v[n]
    <3>1. ShareNoKey(Entries(h), Entries(f))
      BY <2>2
    <3> QED  BY <2>2, <3>1 DEF ShareNoKey
  <2>3. CASE n = l + 1 /\ h = f /\ g \in v[n]
    BY <2>3
  <2> QED  BY <2>1, <2>2, <2>3
<1> QED  BY <1>2, <1>4, <1>5, <1>6 DEF Ordered

\* The only input f of a compaction c moves from level l of v to the next, which
\* makes w of it.
Moved(v, w, l, f, c) ==
  /\ l \in Levels /\ l + 1 \in Levels /\ l \in Nat /\ f \in v[l]
  /\ c.level = l /\ c.in0 = {f} /\ c.in1 = {}
  /\ \A n \in Levels : \A g \in w[n] : (g \in v[n] /\ (n = l => g # f)) \/ (n = l + 1 /\ g = f)

LEMMA MoveFacts ==
  ASSUME StoreInv, bg = "scheduled", TrivialMove(Choice),
         NEW v, v = current, NEW w, w = current', NEW c, c = Choice
  PROVE  \E l, F, f : Asked(v, l, F) /\ c = SetupOtherInputs(v, l, F) /\ Moved(v, w, l, f, c)
<1>2. HistOK /\ VersionOK(v)
  BY DEF StoreInv, EntriesOK, CurrentOK
<1>3. PICK l, F : Asked(v, l, F) /\ c = SetupOtherInputs(v, l, F)
  BY <1>2, ChoiceFacts, AroundIsAsked DEF TrivialMove
<1>4. /\ l \in Levels /\ l + 1 \in Levels /\ l \in Nat
      /\ c.level = l /\ CompactionOK(c) /\ c.in0 \in SUBSET v[l]
  <2>1. CompactionOK(c) /\ c.level = l /\ c.version = v
    BY <1>2, <1>3, InputsApart
  <2> QED  BY <1>3, <2>1, VersionAssumption DEF Asked, Levels, CompactionOK
<1>5. PICK f \in c.in0 : current' = Applied(v, {<<l, f>>}, {<<l + 1, f>>})
  <2>1. c.in0 # {}
    BY <1>4 DEF CompactionOK
  <2> QED  BY <1>4, <2>1 DEF TrivialMove, Install
<1>6. IsTrivialMove(c)
  BY DEF TrivialMove
<1>7. c.in0 = {f} /\ c.in1 = {}
  <2> DEFINE I == c.in0
  <2>1. Cardinality(I) = 1 /\ c.in1 = {}
    BY <1>6 DEF IsTrivialMove
  <2>2. IsFiniteSet(I)
    <3>1. FilesOK(v[l])
      BY <1>2, <1>4 DEF VersionOK
    <3> QED  BY <1>4, <3>1, SomeFiles DEF FilesOK
  <2> HIDE DEF I
  <2>3. \E x : I = {x}
    <3>1. PICK x \in I : TRUE
      BY DEF I
    <3>2. IsFiniteSet(I \ {x}) /\ Cardinality(I \ {x}) = 0
      BY SMTT(30), <2>1, <2>2, <3>1, FS_RemoveElement
    <3>3. I \ {x} = {}
      BY <3>2, FS_EmptySet
    <3> QED  BY <3>1, <3>3
  <2> QED  BY <2>1, <2>3 DEF I
<1>9. \A n \in Levels : \A g \in w[n] : (g \in v[n] /\ (n = l => g # f)) \/ (n = l + 1 /\ g = f)
  <2> SUFFICES ASSUME NEW n \in Levels, NEW g \in w[n]
               PROVE  (g \in v[n] /\ (n = l => g # f)) \/ (n = l + 1 /\ g = f)
    OBVIOUS
  <2>1. f \in Nat
    BY <1>2, <1>4 DEF VersionOK, FilesOK
  <2>2. PICK A \in SUBSET (Levels \X Nat) : A = {<<l + 1, f>>}
    <3>1. <<l + 1, f>> \in Levels \X Nat
      BY <1>4, <2>1
    <3> QED  BY <3>1
  <2>3. PICK D : D = {<<l, f>>}
    OBVIOUS
  <2>4. g \in Applied(v, D, A)[n] <=> \/ g \in v[n] /\ (<<n, g>> \notin D \/ <<n, g>> \in A)
                                      \/ <<n, g>> \in A
    BY AppliedMember
  <2>5. w = Applied(v, D, A)
    BY <1>5, <2>2, <2>3
  <2> QED  BY <2>2, <2>3, <2>4, <2>5
<1>10. Moved(v, w, l, f, c)
  BY <1>4, <1>7, <1>9 DEF Moved
<1> QED  BY <1>3, <1>10

\* A file that overlaps none of the next level, and in level 0 none of its own,
\* may move below all others.
LEMMA MoveKeepsOrder ==
  ASSUME StoreInv, OrderInv, bg = "scheduled", TrivialMove(Choice)
  PROVE  OrderInv'
<1>1. PICK m, i, v, w, c : m = mem /\ i = ImmEntries /\ v = current /\ w = current' /\ c = Choice
  OBVIOUS
<1>2. HistOK /\ VersionOK(v) /\ Ordered(m, i, v) /\ KeysApart(v)
  BY <1>1 DEF StoreInv, EntriesOK, CurrentOK, OrderInv
<1>3. PICK l, F, f : Asked(v, l, F) /\ c = SetupOtherInputs(v, l, F) /\ Moved(v, w, l, f, c)
  BY <1>1, MoveFacts
<1>4. Chosen(v, l, c)
  BY <1>2, <1>3, ChosenInputs
<1>5. Ordered(m, i, w) /\ KeysApart(w)
  <2>1. \A g \in v[l] \ {f} : ShareNoKey(Entries(g), Entries(f))
    BY <1>3, <1>4 DEF Chosen, Moved
  <2>2. \A g \in v[l + 1] : ShareNoKey(Entries(g), Entries(f))
    BY <1>3, <1>4 DEF Chosen, Moved
  <2>3. /\ l \in Nat /\ l \in Levels /\ l + 1 \in Levels /\ f \in v[l]
        /\ \A n \in Levels : \A g \in w[n] : (g \in v[n] /\ (n = l => g # f)) \/ (n = l + 1 /\ g = f)
    BY <1>3 DEF Moved
  <2> QED  BY <1>2, <2>1, <2>2, <2>3, MovedInOrder
<1>6. UNCHANGED <<hist, mem, imm, table, job>>
  BY DEF TrivialMove
<1>7. Ordered(m, i, w)' /\ KeysApart(w)'
  BY <1>5, <1>6, SameOrder
<1>8. mem' = m /\ ImmEntries' = i /\ job' = NoJob
  <2>1. job = NoJob
    BY DEF StoreInv, JobOK
  <2> QED  BY <1>1, <1>6, <2>1 DEF ImmEntries
<1> QED  BY <1>1, <1>7, <1>8 DEF OrderInv

\* DoCompactionWork starts with inputs that are apart from the rest.
LEMMA StartKeepsOrder ==
  ASSUME StoreInv, OrderInv, bg = "scheduled", DoCompactionWork(Choice)
  PROVE  OrderInv'
<1>1. PICK m, i, v, c : m = mem /\ i = ImmEntries /\ v = current /\ c = Choice
  OBVIOUS
<1>2. HistOK /\ VersionOK(v) /\ Ordered(m, i, v) /\ KeysApart(v)
  BY <1>1 DEF StoreInv, EntriesOK, CurrentOK, OrderInv
<1>3. PICK l, F : Asked(v, l, F) /\ c = SetupOtherInputs(v, l, F)
  <2>1. \E l, F : /\ IF manual THEN Asked(v, l, F) ELSE Around(v, l, F)
                  /\ c = SetupOtherInputs(v, l, F)
    BY <1>1, ChoiceFacts DEF DoCompactionWork
  <2> QED  BY <1>2, <2>1, AroundIsAsked
<1>4. /\ l \in Levels /\ l + 1 \in Levels /\ l \in Nat
      /\ c.level = l /\ c.outputs = <<>> /\ CompactionOK(c)
      /\ c.in0 \in SUBSET v[l] /\ c.in1 \in SUBSET v[l + 1]
      /\ \A f \in c.in0, g \in v[l] \ c.in0 : ShareNoKey(Entries(g), Entries(f))
      /\ \A f \in c.in0, g \in v[l + 1] \ c.in1 : ShareNoKey(Entries(g), Entries(f))
  <2>1. Chosen(v, l, c)
    BY <1>2, <1>3, ChosenInputs
  <2> QED  BY <2>1 DEF Chosen
<1>5. UNCHANGED <<hist, mem, imm, table, current>>
  BY DEF DoCompactionWork
<1>6. PICK d : d = job'
  OBVIOUS
<1>7. /\ d.level = l /\ d.in0 = c.in0 /\ d.in1 = c.in1 /\ d.outputs = <<>>
  BY <1>1, <1>4, <1>6 DEF DoCompactionWork, CompactionOK, Compactions
<1>8. InOrder(v, d)
  <2>1. Pending(d) = {}
    BY <1>7 DEF Pending
  <2>2. \A f \in c.in0, g \in v[l] \ c.in0 : Newer(Entries(g), Entries(f))
    BY <1>4 DEF ShareNoKey, Newer
  <2> QED  BY <1>4, <1>7, <2>1, <2>2 DEF InOrder
<1>9. Ordered(m, i, v)' /\ KeysApart(v)' /\ InOrder(v, d)'
  BY <1>2, <1>5, <1>8, SameOrder
<1>10. mem' = m /\ ImmEntries' = i /\ current' = v
  BY <1>1, <1>5 DEF ImmEntries
<1> QED  BY <1>6, <1>9, <1>10 DEF OrderInv

\* DoCompactionWork's outputs are on disk under the numbers from n on; d is the
\* compaction c with them.
Written(n, c, d, outs) ==
  /\ n \in Nat /\ CompactionOK(c) /\ c # NoJob /\ d # NoJob
  /\ d.level = c.level /\ d.in0 = c.in0 /\ d.in1 = c.in1
  /\ d.version = c.version /\ d.smallest_snapshot = c.smallest_snapshot
  /\ outs \in Seq((SUBSET Numbers) \ {{}})
  /\ \A f \in DOMAIN table : f \in DOMAIN table' /\ table'[f] = table[f]
  /\ \A f \in Pending(d) : \E p \in 1..Len(outs) : f = n + p - 1
  /\ \A p \in 1..Len(outs) : LET f == n + p - 1
                             IN  f \in Pending(d) /\ FileOK(f)' /\ Entries(f)' = outs[p]

LEMMA WrittenFacts ==
  ASSUME StoreInv, WriteOutputs, NEW n, n = nextFile, NEW c, c = job, NEW d, d = job',
         NEW outs, outs = CompactionOutputs(c)
  PROVE  Written(n, c, d, outs)
<1>1. HistOK /\ CompactionOK(c) /\ c # NoJob
  BY DEF WriteOutputs, StoreInv, JobOK, EntriesOK
<1>2. PICK N \in Nat : N = Len(outs)
  BY <1>1, OutputFacts, LenProperties
<1>3. /\ outs \in Seq((SUBSET Numbers) \ {{}}) /\ DOMAIN outs = 1..N
      /\ \A p \in 1..N : outs[p] \in (SUBSET Numbers) \ {{}}
  BY <1>1, <1>2, OutputFacts, LenProperties, ElementOfSeq
<1>4. PICK new : new = n..(n + N - 1)
  OBVIOUS
<1>5. /\ UNCHANGED hist
      /\ table' = [f \in DOMAIN table \cup new |-> IF f \in new THEN TableOf(outs[f - n + 1]) ELSE table[f]]
      /\ d = [c EXCEPT !.outputs = [p \in 1..N |-> n + p - 1]]
  BY <1>2, <1>3, <1>4 DEF WriteOutputs
<1>6. n \in Nat /\ \A f \in DOMAIN table : f \in Nat /\ f < n
  BY DEF StoreInv, DiskOK, FileOK
<1>7. StoreInv'
  BY WriteOutputsKeeps
<1>8. d # NoJob /\ Pending(d) \in SUBSET DOMAIN table'
  <2>1. bg' = "written"
    BY DEF WriteOutputs
  <2>2. (job # NoJob)' /\ (Pending(job) \in SUBSET DOMAIN table)'
    BY <1>7, <2>1 DEF StoreInv, JobOK
  <2>3. Pending(job)' = Pending(d)
    BY DEF Pending
  <2> QED  BY <2>2, <2>3
<1>9. /\ d.level = c.level /\ d.in0 = c.in0 /\ d.in1 = c.in1
      /\ d.version = c.version /\ d.smallest_snapshot = c.smallest_snapshot
      /\ d.outputs = [p \in 1..N |-> n + p - 1]
  BY <1>1, <1>5 DEF CompactionOK, Compactions
<1>10. \A f : f \in Pending(d) <=> \E p \in 1..N : f = n + p - 1
  <2>1. PICK o : o = d.outputs
    OBVIOUS
  <2>2. DOMAIN o = 1..N /\ \A p \in 1..N : o[p] = n + p - 1
    BY <1>9, <2>1
  <2>3. Pending(d) = {o[p] : p \in DOMAIN o}
    BY <1>8, <2>1 DEF Pending
  <2> QED  BY <2>2, <2>3
<1>11. \A f \in DOMAIN table : f \in DOMAIN table' /\ table'[f] = table[f]
  BY <1>2, <1>4, <1>5, <1>6
<1>12. ASSUME NEW p \in 1..N, NEW f, f = n + p - 1
       PROVE  f \in Pending(d) /\ FileOK(f)' /\ Entries(f)' = outs[p]
  <2>1. f \in Pending(d)
    BY <1>10, <1>12
  <2>2. FileOK(f)'
    BY <1>7, <1>8, <2>1 DEF StoreInv, DiskOK
  <2>3. f \in new /\ f - n + 1 = p
    BY <1>2, <1>4, <1>6, <1>12
  <2>4. table'[f] = TableOf(outs[p])
    BY <1>5, <2>3
  <2>5. PICK E \in (SUBSET Numbers) \ {{}} : E = outs[p]
    BY <1>3
  <2>6. TableOf(E).entries = E
    BY <1>1, TableOfFacts
  <2>7. Entries(f)' = E
    BY <2>4, <2>5, <2>6 DEF Entries
  <2> QED  BY <2>1, <2>2, <2>5, <2>7
<1> QED  BY <1>1, <1>2, <1>3, <1>6, <1>8, <1>9, <1>10, <1>11, <1>12 DEF Written

\* The tables on disk hold the outputs, and nothing else.
LEMMA WrittenTables ==
  ASSUME NEW n, NEW c, NEW d, NEW outs, Written(n, c, d, outs)
  PROVE  /\ \A p \in Pending(d) : \E q \in 1..Len(outs) : Entries(p)' = outs[q]
         /\ \A q \in 1..Len(outs) : \E p \in Pending(d) : Entries(p)' = outs[q]
<1>1. /\ \A f \in Pending(d) : \E q \in 1..Len(outs) : f = n + q - 1
      /\ \A q \in 1..Len(outs) : /\ n + q - 1 \in Pending(d)
                                 /\ Entries(n + q - 1)' = outs[q]
  BY DEF Written
<1>2. ASSUME NEW p \in Pending(d)
      PROVE  \E q \in 1..Len(outs) : Entries(p)' = outs[q]
  <2>1. PICK q \in 1..Len(outs) : p = n + q - 1
    BY <1>1
  <2> QED  BY <1>1, <2>1
<1> QED  BY <1>1, <1>2

\* The outputs hold nothing but entries of the inputs.
LEMMA WriteOutputsKeepsOrder ==
  ASSUME StoreInv, OrderInv, WriteOutputs
  PROVE  OrderInv'
<1>1. PICK m, i, v, n, c, d, outs : /\ m = mem /\ i = ImmEntries /\ v = current
                                    /\ n = nextFile /\ c = job /\ d = job' /\ outs = CompactionOutputs(c)
  OBVIOUS
<1>2. Written(n, c, d, outs)
  BY <1>1, WrittenFacts
<1>3. /\ HistOK /\ HistGrows /\ VersionOK(v) /\ m \in SUBSET Numbers /\ i \in SUBSET Numbers
      /\ Ordered(m, i, v) /\ KeysApart(v) /\ InOrder(v, c) /\ CompactionOK(c)
  <2>1. UNCHANGED hist
    BY DEF WriteOutputs
  <2>2. c # NoJob /\ CompactionOK(c)
    BY <1>2 DEF Written
  <2> QED  BY <1>1, <2>1, <2>2, SameHist DEF StoreInv, EntriesOK, CurrentOK, ImmEntries, OrderInv
<1>4. Stays(AddLiveFiles({v})) /\ Stays(DOMAIN table)
  BY <1>2, <1>3, OnDisk DEF Written, Stays
<1>5. Ordered(m, i, v)' /\ KeysApart(v)'
  BY <1>3, <1>4, OrderStays
<1>6. InOrder(v, c)'
  <2>1. Stays(Pending(c))
    <3>1. Pending(c) \in SUBSET DOMAIN table
      BY <1>1, <1>2 DEF Written, StoreInv, JobOK
    <3> QED  BY <1>4, <3>1 DEF Stays
  <2> QED  BY <1>3, <1>4, <2>1, InOrderStays
<1>7. InputSet(c)' = InputSet(c)
  <2>1. c.level \in Levels /\ c.level + 1 \in Levels
    BY <1>3, VersionAssumption DEF CompactionOK, Levels
  <2>2. \A f \in c.in0 \cup c.in1 : f \in AddLiveFiles({v})
    BY <1>3, <2>1, LiveFiles DEF InOrder
  <2>3. \A f \in c.in0 \cup c.in1 : Entries(f)' = Entries(f)
    BY <1>4, <2>2 DEF Stays, Entries
  <2> QED  BY <2>3 DEF InputSet
<1>8. \A f \in Pending(d) : Entries(f)' \in SUBSET InputSet(c)
  <2> SUFFICES ASSUME NEW f \in Pending(d) PROVE Entries(f)' \in SUBSET InputSet(c)
    OBVIOUS
  <2>1. PICK p \in 1..Len(outs) : f = n + p - 1
    BY <1>2 DEF Written
  <2>2. Entries(f)' = outs[p]
    BY <1>2, <2>1 DEF Written
  <2>3. outs[p] \in SUBSET InputSet(c)
    BY <1>1, <1>3, OutputStructure
  <2> QED  BY <2>2, <2>3
<1>9. InOrder(v, d)'
  <2>1. Pending(d)' = Pending(d) /\ InputSet(d)' = InputSet(c)
    BY <1>2, <1>7 DEF Pending, InputSet, Written
  <2>2. d.level = c.level /\ d.in0 = c.in0 /\ d.in1 = c.in1
    BY <1>2 DEF Written
  <2> QED  BY <1>6, <1>8, <2>1, <2>2 DEF InOrder
<1>10. mem' = m /\ ImmEntries' = i /\ current' = v
  BY <1>1 DEF WriteOutputs, ImmEntries
<1> QED  BY <1>1, <1>5, <1>9, <1>10 DEF OrderInv

\* The outputs take the place of the inputs.
LEMMA InstalledInOrder ==
  ASSUME HistOK, NEW v, VersionOK(v), NEW m, NEW i, Ordered(m, i, v), KeysApart(v),
         NEW c, CompactionOK(c), InOrder(v, c), NEW P, P = Pending(c),
         \A f, g \in P : f # g => ShareNoKey(Entries(f), Entries(g)),
         NEW w, \A n \in Levels : \A g \in w[n] :
                  \/ g \in v[n] /\ (n = c.level => g \notin c.in0) /\ (n = c.level + 1 => g \notin c.in1)
                  \/ n = c.level + 1 /\ g \in P
  PROVE  Ordered(m, i, w) /\ KeysApart(w)
<1>1. PICK l \in Nat : l = c.level /\ l \in Levels /\ l + 1 \in Levels
  BY VersionAssumption DEF CompactionOK, Levels
<1>2. \A n \in Levels : n \in Nat
  BY VersionAssumption DEF Levels
<1>3. \A p \in P : \A x \in Entries(p) : \E f : x \in Entries(f) /\ (f \in c.in0 \/ f \in c.in1)
  BY DEF InOrder, InputSet
<1>4. c.in0 \in SUBSET v[l] /\ c.in1 \in SUBSET v[l + 1]
  BY <1>1 DEF InOrder
<1>5. \A f \in AddLiveFiles({w}) : Newer(m \cup i, Entries(f))
  <2> SUFFICES ASSUME NEW n \in Levels, NEW f \in w[n] PROVE Newer(m \cup i, Entries(f))
    BY LiveFiles
  <2>1. CASE f \in v[n]
    BY <2>1, LiveFiles DEF Ordered
  <2>2. CASE f \in P
    <3>1. \A x \in Entries(f) : \E g \in AddLiveFiles({v}) : x \in Entries(g)
      BY <1>1, <1>3, <1>4, <2>2, LiveFiles
    <3> QED  BY <3>1 DEF Ordered, Newer
  <2> QED  BY <2>1, <2>2
<1>6. \A g, h \in w[0] : g > h => Newer(Entries(g), Entries(h))
  <2>1. 0 \in Levels /\ 0 # l + 1
    BY <1>1, VersionAssumption DEF Levels
  <2>2. \A g \in w[0] : g \in v[0]
    BY <1>1, <2>1
  <2> QED  BY <2>2 DEF Ordered
<1>7. \A n, o \in Levels : n < o => \A g \in w[n], h \in w[o] : Newer(Entries(g), Entries(h))
  <2> SUFFICES ASSUME NEW n \in Levels, NEW o \in Levels, n < o, NEW g \in w[n], NEW h \in w[o]
               PROVE  Newer(Entries(g), Entries(h))
    OBVIOUS
  <2>1. CASE g \in v[n] /\ h \in v[o]
    BY <2>1 DEF Ordered
  <2>2. CASE n = l + 1 /\ g \in P /\ h \in v[o]
    <3>1. \A f : f \in c.in0 \/ f \in c.in1 => Newer(Entries(f), Entries(h))
      <4>1. l < o
        BY <1>1, <1>2, <2>2
      <4> QED  BY <1>1, <1>4, <2>2, <4>1 DEF Ordered
    <3> QED  BY <1>3, <2>2, <3>1 DEF Newer
  <2>3. CASE o = l + 1 /\ h \in P /\ g \in v[n] /\ (n = l => g \notin c.in0)
    <3>1. n < l \/ n = l
      BY <1>1, <1>2, <2>3
    <3>2. \A f \in c.in0 : Newer(Entries(g), Entries(f))
      BY <1>1, <1>4, <2>3, <3>1 DEF Ordered, InOrder
    <3>3. \A f \in c.in1 : Newer(Entries(g), Entries(f))
      BY <1>1, <1>4, <2>3 DEF Ordered
    <3> QED  BY <1>3, <2>3, <3>2, <3>3 DEF Newer
  <2>4. ~(n = l + 1 /\ o = l + 1)
    BY <1>1
  <2>5. (g \in v[n] /\ (n = l => g \notin c.in0)) \/ (n = l + 1 /\ g \in P)
    BY <1>1
  <2>6. h \in v[o] \/ (o = l + 1 /\ h \in P)
    BY <1>1
  <2> QED  BY <2>1, <2>2, <2>3, <2>4, <2>5, <2>6
<1>8. \A p \in P, g \in v[l + 1] \ c.in1 : ShareNoKey(Entries(g), Entries(p))
  <2> SUFFICES ASSUME NEW p \in P, NEW g \in v[l + 1] \ c.in1 PROVE ShareNoKey(Entries(g), Entries(p))
    OBVIOUS
  <2>1. \A f \in c.in0 : ShareNoKey(Entries(g), Entries(f))
    BY <1>1 DEF InOrder
  <2>2. \A f \in c.in1 : ShareNoKey(Entries(g), Entries(f))
    <3>1. l + 1 \in Levels \ {0}
      BY <1>1
    <3> QED  BY <1>4, <3>1 DEF KeysApart
  <2> QED  BY <1>3, <2>1, <2>2 DEF ShareNoKey
<1>9. KeysApart(w)
  <2> SUFFICES ASSUME NEW n \in Levels \ {0}, NEW g \in w[n], NEW h \in w[n], g # h
               PROVE  ShareNoKey(Entries(g), Entries(h))
    BY DEF KeysApart
  <2>1. CASE g \in v[n] /\ h \in v[n]
    BY <2>1 DEF KeysApart
  <2>2. CASE n = l + 1 /\ g \in P /\ h \in P
    BY <2>2
  <2>3. CASE n = l + 1 /\ g \in P /\ h \in v[l + 1] \ c.in1
    <3>1. ShareNoKey(Entries(h), Entries(g))
      BY <1>8, <2>3
    <3> QED  BY <3>1 DEF ShareNoKey
  <2>4. CASE n = l + 1 /\ h \in P /\ g \in v[l + 1] \ c.in1
    BY <1>8, <2>4
  <2>5. (g \in v[n] /\ (n = l + 1 => g \notin c.in1)) \/ (n = l + 1 /\ g \in P)
    BY <1>1
  <2>6. (h \in v[n] /\ (n = l + 1 => h \notin c.in1)) \/ (n = l + 1 /\ h \in P)
    BY <1>1
  <2> QED  BY <2>1, <2>2, <2>3, <2>4, <2>5, <2>6
<1> QED  BY <1>5, <1>6, <1>7, <1>9 DEF Ordered

\* The tables of a version that InstallCompactionResults installs, P the outputs:
\* whole, and left where they are
Installed(v, c, P, w) ==
  /\ VersionOK(w) /\ Stays(AddLiveFiles({w}))
  /\ \A n \in Levels : \A g :
       g \in w[n] <=>
         \/ g \in v[n] /\ (n = c.level => g \notin c.in0) /\ (n = c.level + 1 => g \notin c.in1)
         \/ n = c.level + 1 /\ g \in P

LEMMA InstallFacts ==
  ASSUME StoreInv, InstallCompactionResults, NEW v, v = current, NEW c, c = job,
         NEW P, P = Pending(c), NEW w, w = current'
  PROVE  CompactionOK(c) /\ c # NoJob /\ job' = NoJob /\ Installed(v, c, P, w)
<1>1. HistOK /\ VersionOK(v) /\ CompactionOK(c) /\ c # NoJob
  BY DEF InstallCompactionResults, StoreInv, JobOK, EntriesOK, CurrentOK
<1>2. job' = NoJob /\ w = Applied(v, AddInputDeletions(c), {<<c.level + 1, f>> : f \in P})
  BY DEF InstallCompactionResults, Install
<1>3. PICK l \in Levels : l = c.level /\ l + 1 \in Levels /\ l # l + 1
  BY <1>1, VersionAssumption DEF CompactionOK, Levels
<1>4. P \in SUBSET Nat /\ P \in SUBSET DOMAIN table /\ \A f \in P : FileOK(f)
  BY <1>1, PendingFinite DEF StoreInv, JobOK, DiskOK
<1>5. PICK A \in SUBSET (Levels \X Nat) : A = {<<l + 1, f>> : f \in P}
  <2>1. \A f \in P : <<l + 1, f>> \in Levels \X Nat
    BY <1>3, <1>4
  <2> QED  BY <2>1
<1>6. PICK D : D = AddInputDeletions(c)
  OBVIOUS
<1>7. w = Applied(v, D, A)
  BY <1>2, <1>3, <1>5, <1>6
<1>8. \A n \in Levels : \A g :
        /\ <<n, g>> \in A <=> n = l + 1 /\ g \in P
        /\ <<n, g>> \in D <=> (n = l /\ g \in c.in0) \/ (n = l + 1 /\ g \in c.in1)
  BY <1>3, <1>5, <1>6 DEF AddInputDeletions
<1>9. ASSUME NEW n \in Levels, NEW g
      PROVE  g \in w[n] <=>
               \/ g \in v[n] /\ (n = l => g \notin c.in0) /\ (n = l + 1 => g \notin c.in1)
               \/ n = l + 1 /\ g \in P
  <2>1. g \in Applied(v, D, A)[n] <=> \/ g \in v[n] /\ (<<n, g>> \notin D \/ <<n, g>> \in A)
                                      \/ <<n, g>> \in A
    BY AppliedMember
  <2> QED  BY <1>3, <1>7, <1>8, <2>1
<1>10. \A f \in AddLiveFiles({w}) : FileOK(f) /\ f \in DOMAIN table
  <2> SUFFICES ASSUME NEW n \in Levels, NEW f \in w[n] PROVE FileOK(f) /\ f \in DOMAIN table
    BY LiveFiles
  <2>1. CASE f \in v[n]
    BY <1>1, <2>1 DEF VersionOK, FilesOK, FileOK
  <2>2. CASE f \in P
    BY <1>4, <2>2
  <2> QED  BY <1>9, <2>1, <2>2
<1>11. VersionOK(w)
  <2>1. StoreInv'
    BY InstallKeeps
  <2>2. VersionOK(current)'
    BY <2>1 DEF StoreInv, CurrentOK
  <2>3. w \in [Levels -> SUBSET Nat] /\ \A n \in Levels : IsFiniteSet(w[n])
    BY <2>2 DEF VersionOK, FilesOK
  <2> QED  BY <1>10, <2>3, LiveFiles DEF VersionOK, FilesOK
<1>12. Stays(AddLiveFiles({w}))
  <2>1. PICK x : x = Applied(v, D, A)
    OBVIOUS
  <2>2. PICK E : E = {}
    OBVIOUS
  <2>3. DeleteObsoleteFiles(table, x, NoJob, E)
    BY <1>3, <1>5, <1>6, <2>1, <2>2 DEF InstallCompactionResults
  <2>4. /\ \A f \in DOMAIN table' : f \in DOMAIN table /\ table'[f] = table[f]
        /\ \A f \in DOMAIN table : f \in AddLiveFiles({x}) \cup E => f \in DOMAIN table'
    BY <2>3, Kept
  <2> QED  BY <1>7, <1>10, <2>1, <2>4 DEF Stays
<1> QED  BY <1>1, <1>2, <1>3, <1>9, <1>11, <1>12 DEF Installed

\* No key of the outputs of the running compaction is in two of them.
Unsplit == \A f, g \in Pending(job) : f # g => ShareNoKey(Entries(f), Entries(g))

LEMMA InstallKeepsOrder ==
  ASSUME StoreInv, OrderInv, Unsplit, InstallCompactionResults
  PROVE  OrderInv'
<1>1. PICK m, i, v, c, P, w : /\ m = mem /\ i = ImmEntries /\ v = current
                              /\ c = job /\ P = Pending(c) /\ w = current'
  OBVIOUS
<1>2. CompactionOK(c) /\ c # NoJob /\ job' = NoJob /\ Installed(v, c, P, w)
  BY <1>1, InstallFacts
<1>3. UNCHANGED <<hist, mem, imm>>
  BY DEF InstallCompactionResults
<1>4. /\ HistOK /\ HistGrows /\ VersionOK(v) /\ m \in SUBSET Numbers /\ i \in SUBSET Numbers
      /\ Ordered(m, i, v) /\ KeysApart(v) /\ InOrder(v, c)
  BY <1>1, <1>2, <1>3, SameHist DEF StoreInv, EntriesOK, CurrentOK, ImmEntries, OrderInv
<1>5. \A f, g \in P : f # g => ShareNoKey(Entries(f), Entries(g))
  BY <1>1 DEF Unsplit
<1>6. Ordered(m, i, w) /\ KeysApart(w)
  <2>1. \A n \in Levels : \A g \in w[n] :
          \/ g \in v[n] /\ (n = c.level => g \notin c.in0) /\ (n = c.level + 1 => g \notin c.in1)
          \/ n = c.level + 1 /\ g \in P
    BY <1>2 DEF Installed
  <2> QED  BY <1>1, <1>2, <1>4, <1>5, <2>1, InstalledInOrder
<1>7. Ordered(m, i, w)' /\ KeysApart(w)'
  <2>1. VersionOK(w) /\ Stays(AddLiveFiles({w}))
    BY <1>2 DEF Installed
  <2> QED  BY <1>4, <1>6, <2>1, OrderStays
<1>8. mem' = m /\ ImmEntries' = i
  BY <1>1, <1>3 DEF ImmEntries
<1> QED  BY <1>1, <1>2, <1>7, <1>8 DEF OrderInv

-----------------------------------------------------------------------------
(* NewerAbove is an invariant.                                             *)

LEMMA StillInOrder ==
  ASSUME StoreInv, OrderInv, UNCHANGED <<hist, mem, imm, table, current>>, job' = NoJob \/ job' = job
  PROVE  OrderInv'
<1>1. HistGrows
  BY SameHist DEF StoreInv, EntriesOK
<1>2. Stays(AddLiveFiles({current})) /\ (job # NoJob => Stays(Pending(job)))
  BY SameTables DEF StoreInv, CurrentOK, JobOK
<1> QED  BY <1>1, <1>2, QuietKeepsOrder

\* The steps that change neither memtables nor versions nor tables, and at most
\* give a compaction up
Quiet ==
  /\ UNCHANGED <<hist, mem, imm, table, current>>
  /\ job' = NoJob \/ job' = job

LEMMA QuietSteps ==
  /\ \A c : NothingToDo(c) => Quiet
  /\ BackgroundError \/ NestedError => Quiet
  /\ GetSnapshot => Quiet
  /\ \A i : ReleaseSnapshot(i) => Quiet
  /\ \A kind : StartRead(kind) => Quiet
  /\ \A k : FinishGet(k) => Quiet
  /\ \A e : RecordReadSample(e) => Quiet
  /\ DeleteIterator => Quiet
  /\ \A range : CompactRange(range) => Quiet
  /\ Flushed \/ RequestCompaction \/ LevelDone => Quiet
  /\ UNCHANGED vars => Quiet
<1> USE DEF Quiet, storage, background
<1>1. /\ \A c : NothingToDo(c) => Quiet
      /\ BackgroundError \/ NestedError => Quiet
  BY DEF NothingToDo, BackgroundError, NestedError
<1>2. /\ GetSnapshot => Quiet
      /\ \A i : ReleaseSnapshot(i) => Quiet
      /\ \A kind : StartRead(kind) => Quiet
  BY DEF GetSnapshot, ReleaseSnapshot, StartRead
<1>3. /\ \A k : FinishGet(k) => Quiet
      /\ \A e : RecordReadSample(e) => Quiet
      /\ DeleteIterator => Quiet
  BY DEF FinishGet, RecordReadSample, DeleteIterator
<1>4. /\ \A range : CompactRange(range) => Quiet
      /\ Flushed \/ RequestCompaction \/ LevelDone => Quiet
      /\ UNCHANGED vars => Quiet
  BY DEF CompactRange, Flushed, RequestCompaction, LevelDone, vars
<1> QED  BY <1>1, <1>2, <1>3, <1>4

\* What each step of the program does, as far as the order of entries goes
LEMMA StepKinds ==
  ASSUME StoreInv, [Next]_vars
  PROVE  \/ \E k \in Keys, del \in Deletions : Write(k, del)
         \/ SwitchMemTable /\ UNCHANGED <<hist, table, current, job, snapshots, reader>>
         \/ CompactMemTable /\ UNCHANGED <<hist, mem, job, snapshots, reader>>
         \/ bg = "scheduled" /\ TrivialMove(Choice)
         \/ bg = "scheduled" /\ DoCompactionWork(Choice)
         \/ WriteOutputs
         \/ InstallCompactionResults
         \/ Quiet
<1>1. CASE Background
  <2>1. BackgroundCompaction => /\ bg = "scheduled"
                                /\ NothingToDo(Choice) \/ TrivialMove(Choice) \/ DoCompactionWork(Choice)
    BY DEF BackgroundCompaction
  <2>2. BackgroundFlush \/ NestedCompactMemTable =>
          CompactMemTable /\ UNCHANGED <<hist, mem, job, snapshots, reader>>
    BY DEF BackgroundFlush, NestedCompactMemTable, background, users
  <2> QED  BY <1>1, <2>1, <2>2, QuietSteps DEF Background
<1>2. CASE UNCHANGED vars
  BY <1>2, QuietSteps
<1>3. CASE Caller
  <2>1. ForceSwitch => \/ SwitchMemTable /\ UNCHANGED <<hist, table, current, job, snapshots, reader>>
                       \/ Quiet
    BY DEF ForceSwitch, Quiet, storage
  <2> QED  BY <1>3, <2>1, QuietSteps DEF Caller
<1>4. SwitchFull => SwitchMemTable /\ UNCHANGED <<hist, table, current, job, snapshots, reader>>
  BY DEF SwitchFull, storage, users
<1>5. CASE Next
  BY <1>1, <1>3, <1>4, <1>5, QuietSteps DEF Next
<1> QED  BY <1>2, <1>5

LEMMA OrderStep ==
  ASSUME StoreInv, OrderInv, Unsplit, [Next]_vars
  PROVE  OrderInv'
<1>1. ASSUME NEW k \in Keys, NEW del \in Deletions, Write(k, del) PROVE OrderInv'
  BY <1>1, WriteKeepsOrder
<1>2. CASE SwitchMemTable /\ UNCHANGED <<hist, table, current, job, snapshots, reader>>
  BY <1>2, SwitchKeepsOrder DEF SwitchMemTable
<1>3. CASE CompactMemTable /\ UNCHANGED <<hist, mem, job, snapshots, reader>>
  BY <1>3, FlushKeepsOrder
<1>4. CASE bg = "scheduled" /\ TrivialMove(Choice)
  BY <1>4, MoveKeepsOrder
<1>5. CASE bg = "scheduled" /\ DoCompactionWork(Choice)
  BY <1>5, StartKeepsOrder
<1>6. CASE WriteOutputs
  BY <1>6, WriteOutputsKeepsOrder
<1>7. CASE InstallCompactionResults
  BY <1>7, InstallKeepsOrder
<1>8. CASE Quiet
  BY <1>8, StillInOrder DEF Quiet
<1> QED  BY <1>1, <1>2, <1>3, <1>4, <1>5, <1>6, <1>7, <1>8, StepKinds

LEMMA OrderInit ==
  ASSUME Init
  PROVE  OrderInv
<1>1. \A l \in Levels : current[l] = {}
  BY DEF Init, NoVersion
<1>2. mem = {} /\ ImmEntries = {} /\ job = NoJob /\ 0 \in Levels
  BY VersionAssumption DEF Init, ImmEntries, Levels
<1>3. AddLiveFiles({current}) = {}
  BY <1>1 DEF AddLiveFiles
<1> QED  BY <1>1, <1>2, <1>3 DEF OrderInv, Ordered, KeysApart, Newer

\* The inductive invariant holds as long as no compaction splits a key.
THEOREM OrderIsKept == Spec /\ []Unsplit => []OrderInv
<1>1. Init => OrderInv
  BY OrderInit
<1>2. StoreInv /\ OrderInv /\ Unsplit /\ [Next]_vars => OrderInv'
  BY OrderStep
<1> QED  BY <1>1, <1>2, StoreIsSound, PTL DEF Spec

\* NewerAbove of DBStore: no entry of a key is in a place that reads look at
\* before one that holds a newer entry of it, whatever flushes, moves and
\* compactions do, as long as no compaction splits a key between two outputs
\* (DoCompactionWork closes an output without looking at the user key).
THEOREM NewestFirst == Spec /\ []Unsplit => []NewerAbove
<1>1. OrderInv => NewerAbove
  BY DEF OrderInv, Ordered, NewerAbove, Newer
<1> QED  BY <1>1, OrderIsKept, PTL

-----------------------------------------------------------------------------
(* LevelsDisjoint as an inductive invariant.                               *)

\* All entries of a file are before those of another.
Disjoint(f, g) == ILess(Largest(f), Smallest(g)) \/ ILess(Largest(g), Smallest(f))

\* All keys of g are before, or all are after, those of the files F.
Beside(g, F) ==
  \/ \A f \in F : Key(Largest(g)) < Key(Smallest(f))
  \/ \A f \in F : Key(Largest(f)) < Key(Smallest(g))

\* LevelsDisjoint of the version v
FilesDisjoint(v) == \A l \in Levels \ {0} : \A f, g \in v[l] : f # g => Disjoint(f, g)

\* A compaction's inputs are still files of v.  The files of the outputs' level
\* that it found there are inputs unless they are beside those of the level above;
\* the outputs hold entries of the inputs, in the order of their numbers.
JobDisjoint(v, c) ==
  /\ c.in0 \in SUBSET v[c.level] /\ c.in1 \in SUBSET v[c.level + 1]
  /\ \A g \in v[c.level + 1] : g \in c.version[c.level + 1] => g \in c.in1 \/ Beside(g, c.in0)
  /\ \A g \in c.in1 : ~Beside(g, c.in0)
  /\ \A p \in Pending(c) : Entries(p) \in SUBSET InputSet(c)
  /\ \A p, q \in Pending(c) : p < q => \A x \in Entries(p), y \in Entries(q) : ILess(x, y)

DisjointInv ==
  /\ FilesDisjoint(current)
  /\ job # NoJob => JobDisjoint(current, job)

\* The files that were put meanwhile into the level that a compaction writes to
\* are beside its inputs of the level above.
NoGap ==
  job # NoJob => \A g \in current[job.level + 1] :
                   g \notin job.version[job.level + 1] => Beside(g, job.in0)

\* The range of files, and what is outside of it
LEMMA RangeSides ==
  ASSUME HistOK, NEW F, FilesOK(F), F # {}, NEW g, FileOK(g)
  PROVE  Outside(g, Key(RangeStart(F)), Key(RangeLimit(F))) <=> Beside(g, F)
<1> DEFINE lo == Key(RangeStart(F))
           hi == Key(RangeLimit(F))
<1>1. PICK f \in F : TRUE
  OBVIOUS
<1>2. lo \in Nat /\ hi \in Nat
  BY <1>1, RangeBounds
<1>3. \A h \in F : lo <= Key(Smallest(h)) /\ Key(Largest(h)) <= hi
  BY RangeBounds
<1>4. \E h \in F : lo = Key(Smallest(h))
  BY <1>1, RangeAttained
<1>5. \E h \in F : hi = Key(Largest(h))
  BY <1>1, RangeAttained
<1>6. \A h \in F : Key(Smallest(h)) \in Nat /\ Key(Largest(h)) \in Nat
  BY FileKeys DEF FilesOK
<1>7. Key(Smallest(g)) \in Nat /\ Key(Largest(g)) \in Nat
  BY FileKeys
<1> HIDE DEF lo, hi
<1>8. lo > Key(Largest(g)) <=> \A h \in F : Key(Largest(g)) < Key(Smallest(h))
  BY <1>2, <1>3, <1>4, <1>6, <1>7
<1>9. hi < Key(Smallest(g)) <=> \A h \in F : Key(Largest(h)) < Key(Smallest(g))
  BY <1>2, <1>3, <1>5, <1>6, <1>7
<1>10. Outside(g, lo, hi) <=> lo > Key(Largest(g)) \/ hi < Key(Smallest(g))
  BY <1>2 DEF Outside, NULL
<1> QED  BY <1>8, <1>9, <1>10 DEF Beside, lo, hi

\* The ends of files do not change.
LEMMA SameSides ==
  ASSUME HistOK, HistGrows, NEW G, \A g \in G : FileOK(g) /\ table'[g] = table[g]
  PROVE  /\ \A g, h \in G : Disjoint(g, h)' <=> Disjoint(g, h)
         /\ \A g \in G : \A F \in SUBSET G : Beside(g, F)' <=> Beside(g, F)
<1>1. \A a \in Numbers : Key(a)' = Key(a)
  BY DEF Key, HistGrows
<1>2. \A g \in G : /\ Key(Smallest(g))' = Key(Smallest(g)) /\ Smallest(g)' = Smallest(g)
                   /\ Key(Largest(g))' = Key(Largest(g)) /\ Largest(g)' = Largest(g)
  <2> SUFFICES ASSUME NEW g \in G
               PROVE  /\ Key(Smallest(g))' = Key(Smallest(g)) /\ Smallest(g)' = Smallest(g)
                      /\ Key(Largest(g))' = Key(Largest(g)) /\ Largest(g)' = Largest(g)
    OBVIOUS
  <2>1. Smallest(g)' = Smallest(g) /\ Largest(g)' = Largest(g)
    BY DEF Smallest, Largest
  <2>2. Smallest(g) \in Numbers /\ Largest(g) \in Numbers
    BY DEF FileOK
  <2> QED  BY <1>1, <2>1, <2>2 DEF Key
<1>3. \A g, h \in G : Disjoint(g, h)' <=> Disjoint(g, h)
  BY <1>2 DEF Disjoint, ILess
<1>4. \A g \in G : \A F \in SUBSET G : Beside(g, F)' <=> Beside(g, F)
  BY <1>2 DEF Beside
<1> QED  BY <1>3, <1>4

LEMMA DisjointStays ==
  ASSUME HistOK, HistGrows, NEW v, VersionOK(v), Stays(AddLiveFiles({v})), FilesDisjoint(v)
  PROVE  FilesDisjoint(v)'
<1>1. PICK G : G = AddLiveFiles({v})
  OBVIOUS
<1>2. \A g \in G : FileOK(g) /\ table'[g] = table[g]
  BY <1>1, OnDisk DEF Stays
<1>3. \A g, h \in G : Disjoint(g, h)' <=> Disjoint(g, h)
  BY <1>2, SameSides
<1>4. \A l \in Levels : \A g \in v[l] : g \in G
  BY <1>1, LiveFiles
<1> QED  BY <1>3, <1>4 DEF FilesDisjoint

LEMMA JobDisjointStays ==
  ASSUME HistOK, HistGrows, NEW v, VersionOK(v), Stays(AddLiveFiles({v})),
         NEW c, CompactionOK(c), Stays(Pending(c)), \A p \in Pending(c) : FileOK(p),
         JobDisjoint(v, c)
  PROVE  JobDisjoint(v, c)'
<1>1. PICK G : G = AddLiveFiles({v})
  OBVIOUS
<1>2. \A g \in G : FileOK(g) /\ table'[g] = table[g]
  BY <1>1, OnDisk DEF Stays
<1>3. \A g \in G : \A F \in SUBSET G : Beside(g, F)' <=> Beside(g, F)
  BY <1>2, SameSides
<1>4. \A l \in Levels : \A g \in v[l] : g \in G
  BY <1>1, LiveFiles
<1>5. c.level \in Levels /\ c.level + 1 \in Levels
  BY VersionAssumption DEF CompactionOK, Levels
<1>6. c.in0 \in SUBSET G /\ c.in1 \in SUBSET G /\ v[c.level + 1] \in SUBSET G
  BY <1>4, <1>5 DEF JobDisjoint
<1>7. Pending(c)' = Pending(c)
  BY DEF Pending
<1>8. \A p \in Pending(c) : Entries(p)' = Entries(p) /\ Entries(p) \in SUBSET Numbers
  BY DEF Stays, Entries, FileOK
<1>9. \A p, q \in Pending(c) : p < q => \A x \in Entries(p)', y \in Entries(q)' : ILess(x, y)'
  <2>1. \A a \in Numbers : Key(a)' = Key(a)
    BY DEF Key, HistGrows
  <2>2. \A a, b \in Numbers : ILess(a, b)' <=> ILess(a, b)
    BY <2>1 DEF ILess
  <2> QED  BY <1>8, <2>2 DEF JobDisjoint
<1>10. InputSet(c)' = InputSet(c)
  <2>1. \A f \in c.in0 \cup c.in1 : Entries(f)' = Entries(f)
    BY <1>2, <1>6 DEF Entries
  <2> QED  BY <2>1 DEF InputSet
<1>11. /\ \A g \in v[c.level + 1] : g \in c.version[c.level + 1] => g \in c.in1 \/ Beside(g, c.in0)'
      /\ \A g \in c.in1 : ~Beside(g, c.in0)'
  BY <1>3, <1>6 DEF JobDisjoint
<1> QED  BY <1>7, <1>8, <1>9, <1>10, <1>11 DEF JobDisjoint

\* Without new entries or tables, files stay as they are to each other.
LEMMA SameDisjoint ==
  ASSUME UNCHANGED <<hist, table>>, NEW v, NEW c
  PROVE  /\ FilesDisjoint(v) => FilesDisjoint(v)'
         /\ JobDisjoint(v, c) => JobDisjoint(v, c)'
BY DEF FilesDisjoint, JobDisjoint, Disjoint, Beside, Key, Smallest, Largest, Entries, ILess, Pending, InputSet

\* Steps that leave the current version and its tables alone, and go on with the
\* compaction or give it up
LEMMA QuietKeepsDisjoint ==
  ASSUME StoreInv, DisjointInv, HistGrows, UNCHANGED current, Stays(AddLiveFiles({current})),
         job' = NoJob \/ (job' = job /\ (job # NoJob => Stays(Pending(job))))
  PROVE  DisjointInv'
<1>1. PICK v : v = current
  OBVIOUS
<1>2. HistOK /\ VersionOK(v) /\ FilesDisjoint(v) /\ Stays(AddLiveFiles({v})) /\ current' = v
  BY <1>1 DEF StoreInv, EntriesOK, CurrentOK, DisjointInv
<1>3. FilesDisjoint(v)'
  BY <1>2, DisjointStays
<1>4. ASSUME job' # NoJob PROVE JobDisjoint(current, job)'
  <2>1. PICK c : c = job
    OBVIOUS
  <2>2. /\ CompactionOK(c) /\ Stays(Pending(c)) /\ JobDisjoint(v, c) /\ job' = c
        /\ \A p \in Pending(c) : FileOK(p)
    BY <1>1, <1>4, <2>1 DEF StoreInv, JobOK, DiskOK, DisjointInv
  <2>3. JobDisjoint(v, c)'
    BY <1>2, <2>2, JobDisjointStays
  <2> QED  BY <1>2, <2>2, <2>3
<1> QED  BY <1>2, <1>3, <1>4 DEF DisjointInv


\* A file between whose keys and those of another none lie is before or after it.
LEMMA ApartDisjoint ==
  ASSUME NEW f, NEW g
  PROVE  /\ Apart(f, g) => Disjoint(f, g) /\ Disjoint(g, f)
         /\ Apart(f, g)' => Disjoint(f, g)' /\ Disjoint(g, f)'
BY DEF Apart, Disjoint, ILess

\* CompactMemTable goes to a level below 0 only where no file of it overlaps.
LEMMA FlushKeepsDisjoint ==
  ASSUME StoreInv, DisjointInv, CompactMemTable, UNCHANGED <<hist, mem, job>>
  PROVE  DisjointInv'
<1>1. PICK E \in SUBSET Numbers, f \in Nat : imm = <<E>> /\ f = nextFile /\ FlushedTo(E, f)
  BY FlushFacts
<1>2. PICK v, w : v = current /\ w = current'
  OBVIOUS
<1>3. /\ HistOK /\ HistGrows /\ VersionOK(v) /\ FilesDisjoint(v) /\ Stays(AddLiveFiles({v}))
      /\ job # NoJob => Stays(Pending(job))
  BY <1>2, FlushFacts, CompactMemTableKeeps, SameHist DEF StoreInv, EntriesOK, CurrentOK, DisjointInv
<1>4. CASE w = v
  BY <1>2, <1>3, <1>4, QuietKeepsDisjoint
<1>5. CASE w # v
  <2>1. PICK l \in Levels : /\ w = [v EXCEPT ![l] = @ \cup {f}]
                            /\ l > 0 => \A n \in 0..l : \A g \in v[n] : Apart(f, g)'
    BY <1>1, <1>2, <1>5 DEF FlushedTo
  <2>2. \A n \in Levels : w[n] = IF n = l THEN v[n] \cup {f} ELSE v[n]
    BY <1>3, <2>1 DEF VersionOK
  <2>3. FilesDisjoint(v)'
    BY <1>3, DisjointStays
  <2>4. FilesDisjoint(w)'
    <3> SUFFICES ASSUME NEW n \in Levels \ {0}, NEW g \in w[n], NEW h \in w[n], g # h
                 PROVE  Disjoint(g, h)'
      BY DEF FilesDisjoint
    <3>1. (g \in v[n] \/ (g = f /\ n = l)) /\ (h \in v[n] \/ (h = f /\ n = l))
      BY <2>2
    <3>2. CASE g \in v[n] /\ h \in v[n]
      BY <2>3, <3>2 DEF FilesDisjoint
    <3>3. CASE n = l /\ ((g = f /\ h \in v[n]) \/ (g \in v[n] /\ h = f))
      <4>1. l > 0 /\ l \in 0..l
        BY <3>3, VersionAssumption DEF Levels
      <4>2. \A x \in v[l] : Apart(f, x)'
        BY <2>1, <4>1
      <4> QED  BY <3>3, <4>2, ApartDisjoint
    <3> QED  BY <3>1, <3>2, <3>3
  <2>5. ASSUME job' # NoJob PROVE JobDisjoint(w, job)'
    <3>1. PICK c : c = job
      OBVIOUS
    <3>2. /\ CompactionOK(c) /\ Stays(Pending(c)) /\ JobDisjoint(v, c) /\ job' = c
          /\ \A p \in Pending(c) : FileOK(p)
      BY <1>2, <1>3, <2>5, <3>1 DEF StoreInv, JobOK, DiskOK, DisjointInv
    <3>3. JobDisjoint(v, c)'
      BY <1>3, <3>2, JobDisjointStays
    <3>4. c.level \in Levels /\ c.level + 1 \in Levels
      BY <3>2, VersionAssumption DEF CompactionOK, Levels
    <3>5. f \notin c.version[c.level + 1]
      <4>1. f \notin DOMAIN table
        BY <1>1 DEF StoreInv, DiskOK, FileOK
      <4> QED  BY <3>2, <3>4, <4>1 DEF CompactionOK, VersionOK, FilesOK, FileOK
    <3>6. \A g \in w[c.level + 1] : g \in c.version[c.level + 1] => g \in v[c.level + 1]
      BY <2>2, <3>4, <3>5
    <3>7. c.in0 \in SUBSET w[c.level] /\ c.in1 \in SUBSET w[c.level + 1]
      BY <2>2, <3>2, <3>4 DEF JobDisjoint
    <3>8. JobDisjoint(w, c)'
      BY <3>3, <3>6, <3>7 DEF JobDisjoint
    <3> QED  BY <3>2, <3>8
  <2> QED  BY <1>2, <2>4, <2>5 DEF DisjointInv
<1> QED  BY <1>4, <1>5

\* A file that moves overlaps none of the next level.
LEMMA MoveKeepsDisjoint ==
  ASSUME StoreInv, DisjointInv, bg = "scheduled", TrivialMove(Choice)
  PROVE  DisjointInv'
<1>1. PICK v, w, c : v = current /\ w = current' /\ c = Choice
  OBVIOUS
<1>2. HistOK /\ VersionOK(v) /\ FilesDisjoint(v) /\ UNCHANGED <<hist, table, job>> /\ job = NoJob
  BY <1>1 DEF StoreInv, EntriesOK, CurrentOK, JobOK, DisjointInv, TrivialMove
<1>3. PICK l, F, f : Asked(v, l, F) /\ c = SetupOtherInputs(v, l, F) /\ Moved(v, w, l, f, c)
  BY <1>1, MoveFacts
<1>4. \A g \in v[l + 1] : Apart(f, g)
  <2>1. \A h \in c.in0, g \in v[l + 1] \ c.in1 : Apart(h, g)
    BY <1>2, <1>3, InputsApart
  <2> QED  BY <1>3, <2>1 DEF Moved
<1>5. FilesDisjoint(w)
  <2> SUFFICES ASSUME NEW n \in Levels \ {0}, NEW g \in w[n], NEW h \in w[n], g # h
               PROVE  Disjoint(g, h)
    BY DEF FilesDisjoint
  <2>1. (g \in v[n] \/ (n = l + 1 /\ g = f)) /\ (h \in v[n] \/ (n = l + 1 /\ h = f))
    BY <1>3 DEF Moved
  <2>2. CASE g \in v[n] /\ h \in v[n]
    BY <1>2, <2>2 DEF FilesDisjoint
  <2>3. CASE n = l + 1 /\ ((g = f /\ h \in v[n]) \/ (g \in v[n] /\ h = f))
    BY <1>4, <2>3, ApartDisjoint
  <2> QED  BY <2>1, <2>2, <2>3
<1>6. FilesDisjoint(w)'
  BY <1>2, <1>5, SameDisjoint
<1> QED  BY <1>1, <1>2, <1>6 DEF DisjointInv

\* DoCompactionWork starts: SetupOtherInputs took the files of the next level that
\* overlap the range of the inputs.
LEMMA StartKeepsDisjoint ==
  ASSUME StoreInv, DisjointInv, bg = "scheduled", DoCompactionWork(Choice)
  PROVE  DisjointInv'
<1>1. PICK v, c, d : v = current /\ c = Choice /\ d = job'
  OBVIOUS
<1>2. HistOK /\ VersionOK(v) /\ FilesDisjoint(v) /\ UNCHANGED <<hist, table, current>>
  BY <1>1 DEF StoreInv, EntriesOK, CurrentOK, DisjointInv, DoCompactionWork
<1>3. PICK l, F : Asked(v, l, F) /\ c = SetupOtherInputs(v, l, F)
  <2>1. \E l, F : /\ IF manual THEN Asked(v, l, F) ELSE Around(v, l, F)
                  /\ c = SetupOtherInputs(v, l, F)
    BY <1>1, ChoiceFacts DEF DoCompactionWork
  <2> QED  BY <1>2, <2>1, AroundIsAsked
<1>4. /\ CompactionOK(c) /\ c.version = v /\ c.level = l /\ c.outputs = <<>>
      /\ \A g \in v[l + 1] : g \in c.in1 <=> ~Outside(g, Key(RangeStart(c.in0)), Key(RangeLimit(c.in0)))
  BY <1>2, <1>3, InputsApart
<1>5. l \in Levels /\ l + 1 \in Levels
  BY <1>3, VersionAssumption DEF Asked, Levels
<1>6. c.in0 \in (SUBSET v[l]) \ {{}} /\ c.in1 \in SUBSET v[l + 1]
  BY <1>4 DEF CompactionOK
<1>7. \A g \in v[l + 1] : g \in c.in1 <=> ~Beside(g, c.in0)
  <2> SUFFICES ASSUME NEW g \in v[l + 1] PROVE g \in c.in1 <=> ~Beside(g, c.in0)
    OBVIOUS
  <2>1. FilesOK(c.in0) /\ FileOK(g)
    <3>1. FilesOK(v[l]) /\ FilesOK(v[l + 1])
      BY <1>2, <1>5 DEF VersionOK
    <3> QED  BY <1>6, <3>1, SomeFiles DEF FilesOK
  <2>2. PICK I : I = c.in0
    OBVIOUS
  <2>3. Outside(g, Key(RangeStart(I)), Key(RangeLimit(I))) <=> Beside(g, I)
    BY <1>2, <1>6, <2>1, <2>2, RangeSides
  <2> QED  BY <1>4, <2>2, <2>3
<1>8. d.level = l /\ d.in0 = c.in0 /\ d.in1 = c.in1 /\ d.outputs = <<>> /\ d.version = v
  BY <1>1, <1>4 DEF DoCompactionWork, CompactionOK, Compactions
<1>9. JobDisjoint(v, d)
  <2>1. Pending(d) = {}
    BY <1>8 DEF Pending
  <2> QED  BY <1>6, <1>7, <1>8, <2>1 DEF JobDisjoint
<1>10. FilesDisjoint(v)' /\ JobDisjoint(v, d)'
  BY <1>2, <1>9, SameDisjoint
<1> QED  BY <1>1, <1>2, <1>10 DEF DisjointInv


\* The outputs are written in the order of the merged input.
LEMMA WriteOutputsKeepsDisjoint ==
  ASSUME StoreInv, DisjointInv, WriteOutputs
  PROVE  DisjointInv'
<1>1. PICK v, n, c, d, outs : /\ v = current /\ n = nextFile /\ c = job /\ d = job'
                              /\ outs = CompactionOutputs(c)
  OBVIOUS
<1>2. Written(n, c, d, outs)
  BY <1>1, WrittenFacts
<1>3. /\ HistOK /\ HistGrows /\ VersionOK(v) /\ CompactionOK(c) /\ c # NoJob
      /\ FilesDisjoint(v) /\ JobDisjoint(v, c) /\ UNCHANGED hist
  <2>1. UNCHANGED hist
    BY DEF WriteOutputs
  <2>2. c # NoJob /\ CompactionOK(c)
    BY <1>2 DEF Written
  <2> QED  BY <1>1, <2>1, <2>2, SameHist DEF StoreInv, EntriesOK, CurrentOK, DisjointInv
<1>4. Stays(AddLiveFiles({v}))
  BY <1>2, <1>3, OnDisk DEF Written, Stays
<1>5. FilesDisjoint(v)'
  BY <1>3, <1>4, DisjointStays
<1>6. JobDisjoint(v, c)'
  <2>1. Pending(c) \in SUBSET DOMAIN table /\ \A p \in Pending(c) : FileOK(p)
    BY <1>1, <1>3 DEF StoreInv, JobOK, DiskOK
  <2>2. Stays(Pending(c))
    BY <1>2, <2>1 DEF Written, Stays
  <2> QED  BY <1>3, <1>4, <2>1, <2>2, JobDisjointStays
<1>7. InputSet(c)' = InputSet(c)
  <2>1. c.level \in Levels /\ c.level + 1 \in Levels
    BY <1>3, VersionAssumption DEF CompactionOK, Levels
  <2>2. \A f \in c.in0 \cup c.in1 : f \in AddLiveFiles({v})
    BY <1>3, <2>1, LiveFiles DEF JobDisjoint
  <2>3. \A f \in c.in0 \cup c.in1 : Entries(f)' = Entries(f)
    BY <1>4, <2>2 DEF Stays, Entries
  <2> QED  BY <2>3 DEF InputSet
<1>8. Len(outs) \in Nat /\ \A p \in 1..Len(outs) : outs[p] \in SUBSET InputSet(c)
  BY <1>1, <1>3, OutputStructure
<1>9. \A p, q \in 1..Len(outs) : p < q => \A x \in outs[p], y \in outs[q] : ILess(x, y)
  BY <1>1, <1>3, OutputStructure
<1>10. \A f \in Pending(d) : \E p \in 1..Len(outs) : f = n + p - 1 /\ Entries(f)' = outs[p]
  BY <1>2 DEF Written
<1>11. \A f \in Pending(d) : Entries(f)' \in SUBSET InputSet(c)
  BY <1>8, <1>10
<1>12. ASSUME NEW f \in Pending(d), NEW g \in Pending(d), f < g
       PROVE  \A x \in Entries(f)', y \in Entries(g)' : ILess(x, y)'
  <2>1. PICK p \in 1..Len(outs) : f = n + p - 1 /\ Entries(f)' = outs[p]
    BY <1>10
  <2>2. PICK q \in 1..Len(outs) : g = n + q - 1 /\ Entries(g)' = outs[q]
    BY <1>10
  <2>3. n \in Nat
    BY <1>2 DEF Written
  <2>4. p < q
    BY <1>8, <1>12, <2>1, <2>2, <2>3
  <2>5. \A x \in outs[p], y \in outs[q] : ILess(x, y)
    BY <1>9, <2>4
  <2>6. \A x, y : ILess(x, y)' <=> ILess(x, y)
    BY <1>3 DEF ILess, Key
  <2> QED  BY <2>1, <2>2, <2>5, <2>6
<1>13. JobDisjoint(v, d)'
  <2>1. Pending(d)' = Pending(d) /\ InputSet(d)' = InputSet(c)
    BY <1>2, <1>7 DEF Pending, InputSet, Written
  <2>2. d.level = c.level /\ d.in0 = c.in0 /\ d.in1 = c.in1 /\ d.version = c.version
    BY <1>2 DEF Written
  <2> QED  BY <1>6, <1>11, <1>12, <2>1, <2>2 DEF JobDisjoint
<1>14. current' = v
  BY <1>1 DEF WriteOutputs
<1> QED  BY <1>1, <1>5, <1>13, <1>14 DEF DisjointInv

\* A file of the outputs' level that is no input, and is beside the inputs of the
\* level above, is before or after every entry of the inputs.
LEMMA BesideInputs ==
  ASSUME HistOK, NEW c, NEW g, FileOK(g), Beside(g, c.in0),
         \A f \in c.in0 : FileOK(f), c.in0 # {},
         \A f \in c.in1 : FileOK(f) /\ Disjoint(f, g) /\ ~Beside(f, c.in0)
  PROVE  \/ \A x \in InputSet(c) : ILess(Largest(g), x)
         \/ \A x \in InputSet(c) : ILess(x, Smallest(g))
<1>1. /\ Smallest(g) \in Numbers /\ Largest(g) \in Numbers
      /\ Key(Smallest(g)) \in Nat /\ Key(Largest(g)) \in Nat /\ Key(Smallest(g)) <= Key(Largest(g))
  BY FileKeys DEF FileOK
<1>2. \A f \in c.in0 \cup c.in1 :
        /\ Smallest(f) \in Numbers /\ Largest(f) \in Numbers
        /\ Key(Smallest(f)) \in Nat /\ Key(Largest(f)) \in Nat /\ Key(Smallest(f)) <= Key(Largest(f))
  BY FileKeys DEF FileOK
<1>3. \A f \in c.in0 \cup c.in1 : \A x \in Entries(f) :
        /\ x \in Numbers
        /\ x = Smallest(f) \/ ILess(Smallest(f), x)
        /\ x = Largest(f) \/ ILess(x, Largest(f))
  BY DEF FileOK, AtOrBefore
<1>4. \A a, b, d \in Numbers : ILess(a, b) /\ ILess(b, d) => ILess(a, d)
  BY KeyOrder
<1>5. \A a, b \in Numbers : Key(a) < Key(b) => ILess(a, b)
  BY DEF ILess
<1>6. \A a, b \in Numbers : ILess(a, b) => Key(a) <= Key(b)
  BY KeyOrder DEF ILess
<1>7. CASE \A f \in c.in0 : Key(Largest(g)) < Key(Smallest(f))
  <2>1. \A f \in c.in0 : ILess(Largest(g), Smallest(f))
    BY <1>1, <1>2, <1>5, <1>7
  <2>2. ASSUME NEW f \in c.in1 PROVE ILess(Largest(g), Smallest(f))
    <3>1. ~ILess(Largest(f), Smallest(g))
      <4> SUFFICES ASSUME ILess(Largest(f), Smallest(g)) PROVE FALSE
        OBVIOUS
      <4>1. Key(Largest(f)) <= Key(Smallest(g))
        BY <1>1, <1>2, <1>6
      <4>2. \A h \in c.in0 : Key(Largest(f)) < Key(Smallest(h))
        BY <1>1, <1>2, <1>7, <4>1
      <4> QED  BY <4>2 DEF Beside
    <3> QED  BY <3>1 DEF Disjoint
  <2>3. \A f \in c.in0 \cup c.in1 : \A x \in Entries(f) : ILess(Largest(g), x)
    BY <1>1, <1>2, <1>3, <1>4, <2>1, <2>2
  <2> QED  BY <2>3 DEF InputSet
<1>8. CASE \A f \in c.in0 : Key(Largest(f)) < Key(Smallest(g))
  <2>1. \A f \in c.in0 : ILess(Largest(f), Smallest(g))
    BY <1>1, <1>2, <1>5, <1>8
  <2>2. ASSUME NEW f \in c.in1 PROVE ILess(Largest(f), Smallest(g))
    <3>1. ~ILess(Largest(g), Smallest(f))
      <4> SUFFICES ASSUME ILess(Largest(g), Smallest(f)) PROVE FALSE
        OBVIOUS
      <4>1. Key(Largest(g)) <= Key(Smallest(f))
        BY <1>1, <1>2, <1>6
      <4>2. \A h \in c.in0 : Key(Largest(h)) < Key(Smallest(f))
        BY <1>1, <1>2, <1>8, <4>1
      <4> QED  BY <4>2 DEF Beside
    <3> QED  BY <3>1 DEF Disjoint
  <2>3. \A f \in c.in0 \cup c.in1 : \A x \in Entries(f) : ILess(x, Smallest(g))
    BY <1>1, <1>2, <1>3, <1>4, <2>1, <2>2
  <2> QED  BY <2>3 DEF InputSet
<1> QED  BY <1>7, <1>8 DEF Beside

\* The outputs go between the other files of their level.
LEMMA InstalledDisjoint ==
  ASSUME HistOK, NEW v, VersionOK(v), FilesDisjoint(v), NEW c, CompactionOK(c), JobDisjoint(v, c),
         NEW P, P = Pending(c), P \in SUBSET Nat, \A p \in P : FileOK(p),
         \A g \in v[c.level + 1] : g \notin c.version[c.level + 1] => Beside(g, c.in0),
         NEW w, \A n \in Levels : \A g \in w[n] :
                  \/ g \in v[n] /\ (n = c.level + 1 => g \notin c.in1)
                  \/ n = c.level + 1 /\ g \in P
  PROVE  FilesDisjoint(w)
<1>1. PICK l : l = c.level + 1 /\ l \in Levels \ {0} /\ c.level \in Levels
  <2>1. c.level \in 0..(kNumLevels - 2)
    BY DEF CompactionOK
  <2>2. c.level + 1 \in Levels \ {0} /\ c.level \in Levels
    BY <2>1, VersionAssumption DEF Levels
  <2> QED  BY <2>2
<1>2. \A p \in P : Smallest(p) \in InputSet(c) /\ Largest(p) \in InputSet(c)
  BY DEF FileOK, JobDisjoint
<1>3. ASSUME NEW p \in P, NEW q \in P, p # q PROVE Disjoint(p, q)
  <2>1. p < q \/ q < p
    BY <1>3
  <2>2. \A a, b \in P : a < b => \A x \in Entries(a), y \in Entries(b) : ILess(x, y)
    BY DEF JobDisjoint
  <2>3. Largest(p) \in Entries(p) /\ Smallest(p) \in Entries(p)
    BY DEF FileOK
  <2>4. Largest(q) \in Entries(q) /\ Smallest(q) \in Entries(q)
    BY DEF FileOK
  <2> QED  BY <2>1, <2>2, <2>3, <2>4 DEF Disjoint
<1>4. ASSUME NEW p \in P, NEW g \in v[l] \ c.in1 PROVE Disjoint(p, g) /\ Disjoint(g, p)
  <2>1. Beside(g, c.in0)
    BY <1>1 DEF JobDisjoint
  <2>2. (\A f \in v[l] : FileOK(f)) /\ \A f \in v[c.level] : FileOK(f)
    BY <1>1 DEF VersionOK, FilesOK
  <2>3. FileOK(g) /\ \A f \in c.in0 : FileOK(f)
    BY <2>2 DEF JobDisjoint
  <2>4. \A f \in c.in1 : FileOK(f) /\ Disjoint(f, g) /\ ~Beside(f, c.in0)
    <3>1. c.in1 \in SUBSET v[l] /\ \A f \in c.in1 : ~Beside(f, c.in0)
      BY <1>1 DEF JobDisjoint
    <3>2. \A f \in c.in1 : f # g
      OBVIOUS
    <3> QED  BY <1>1, <2>2, <3>1, <3>2 DEF FilesDisjoint
  <2>5. c.in0 # {}
    BY DEF CompactionOK
  <2>6. \/ \A x \in InputSet(c) : ILess(Largest(g), x)
        \/ \A x \in InputSet(c) : ILess(x, Smallest(g))
    BY <2>1, <2>3, <2>4, <2>5, BesideInputs
  <2> QED  BY <1>2, <2>6 DEF Disjoint
<1>5. ASSUME NEW n \in Levels \ {0}, NEW g \in w[n], NEW h \in w[n], g # h
      PROVE  Disjoint(g, h)
  <2>1. \/ g \in v[n] /\ (n = l => g \notin c.in1)
        \/ n = l /\ g \in P
    BY <1>1
  <2>2. \/ h \in v[n] /\ (n = l => h \notin c.in1)
        \/ n = l /\ h \in P
    BY <1>1
  <2>3. CASE g \in v[n] /\ h \in v[n]
    BY <1>5, <2>3 DEF FilesDisjoint
  <2>4. CASE n = l /\ g \in P /\ h \in P
    BY <1>3, <1>5, <2>4
  <2>5. CASE n = l /\ g \in P /\ h \in v[n] \ c.in1
    BY <1>4, <2>5
  <2>6. CASE n = l /\ h \in P /\ g \in v[n] \ c.in1
    BY <1>4, <2>6
  <2> QED  BY <2>1, <2>2, <2>3, <2>4, <2>5, <2>6
<1> QED  BY <1>5 DEF FilesDisjoint

LEMMA InstallKeepsDisjoint ==
  ASSUME StoreInv, DisjointInv, NoGap, InstallCompactionResults
  PROVE  DisjointInv'
<1>1. PICK v, c, P, w : v = current /\ c = job /\ P = Pending(c) /\ w = current'
  OBVIOUS
<1>2. CompactionOK(c) /\ c # NoJob /\ job' = NoJob /\ Installed(v, c, P, w)
  BY <1>1, InstallFacts
<1>3. UNCHANGED hist
  BY DEF InstallCompactionResults
<1>4. /\ HistOK /\ HistGrows /\ VersionOK(v) /\ FilesDisjoint(v) /\ JobDisjoint(v, c)
      /\ P \in SUBSET DOMAIN table /\ \A p \in P : FileOK(p)
  BY <1>1, <1>2, <1>3, SameHist DEF StoreInv, EntriesOK, CurrentOK, JobOK, DiskOK, DisjointInv
<1>5. FilesDisjoint(w)
  <2>1. \A n \in Levels : \A g \in w[n] :
          \/ g \in v[n] /\ (n = c.level + 1 => g \notin c.in1)
          \/ n = c.level + 1 /\ g \in P
    BY <1>2 DEF Installed
  <2>2. \A g \in v[c.level + 1] : g \notin c.version[c.level + 1] => Beside(g, c.in0)
    BY <1>1, <1>2 DEF NoGap
  <2>3. P \in SUBSET Nat
    BY <1>1, <1>2, PendingFinite
  <2> QED  BY <1>1, <1>2, <1>4, <2>1, <2>2, <2>3, InstalledDisjoint
<1>6. FilesDisjoint(w)'
  <2>1. VersionOK(w) /\ Stays(AddLiveFiles({w}))
    BY <1>2 DEF Installed
  <2> QED  BY <1>4, <1>5, <2>1, DisjointStays
<1> QED  BY <1>1, <1>2, <1>6 DEF DisjointInv

LEMMA DisjointStep ==
  ASSUME StoreInv, DisjointInv, NoGap, [Next]_vars
  PROVE  DisjointInv'
<1>1. ASSUME NEW k \in Keys, NEW del \in Deletions, Write(k, del) PROVE DisjointInv'
  BY <1>1, WriteGrows, QuietKeepsDisjoint
<1>2. ASSUME UNCHANGED <<hist, table, current>>, job' = NoJob \/ job' = job PROVE DisjointInv'
  <2>1. HistGrows
    BY <1>2, SameHist DEF StoreInv, EntriesOK
  <2>2. Stays(AddLiveFiles({current})) /\ (job # NoJob => Stays(Pending(job)))
    BY <1>2, SameTables DEF StoreInv, CurrentOK, JobOK
  <2> QED  BY <1>2, <2>1, <2>2, QuietKeepsDisjoint
<1>3. CASE CompactMemTable /\ UNCHANGED <<hist, mem, job, snapshots, reader>>
  BY <1>3, FlushKeepsDisjoint
<1>4. CASE bg = "scheduled" /\ TrivialMove(Choice)
  BY <1>4, MoveKeepsDisjoint
<1>5. CASE bg = "scheduled" /\ DoCompactionWork(Choice)
  BY <1>5, StartKeepsDisjoint
<1>6. CASE WriteOutputs
  BY <1>6, WriteOutputsKeepsDisjoint
<1>7. CASE InstallCompactionResults
  BY <1>7, InstallKeepsDisjoint
<1> QED  BY <1>1, <1>2, <1>3, <1>4, <1>5, <1>6, <1>7, StepKinds DEF Quiet

LEMMA DisjointInit ==
  ASSUME Init
  PROVE  DisjointInv
<1>1. \A l \in Levels : current[l] = {}
  BY DEF Init, NoVersion
<1>2. job = NoJob
  BY DEF Init
<1> QED  BY <1>1, <1>2 DEF DisjointInv, FilesDisjoint

\* LevelsDisjoint of DBStore: the files of a level below 0 never overlap, as
\* MaybeAddFile asserts and the binary search of a level takes for granted, as
\* long as no memtable is flushed into a gap between the inputs of a compaction.
\* A key that is split between two outputs does no harm to it.
THEOREM LevelsStayDisjoint == Spec /\ []NoGap => []LevelsDisjoint
<1>1. Init => DisjointInv
  BY DisjointInit
<1>2. StoreInv /\ DisjointInv /\ NoGap /\ [Next]_vars => DisjointInv'
  BY DisjointStep
<1>3. DisjointInv => LevelsDisjoint
  BY DEF DisjointInv, FilesDisjoint, Disjoint, LevelsDisjoint
<1> QED  BY <1>1, <1>2, <1>3, StoreIsSound, PTL DEF Spec


-----------------------------------------------------------------------------
(* Without snapshots no compaction splits a key.                           *)

\* A compaction that finds all its input visible keeps one entry of each key, so
\* that no two outputs share a key.
LEMMA OneOfEachKey ==
  ASSUME HistOK, NEW c, CompactionOK(c), \A x \in InputSet(c) : x <= c.smallest_snapshot,
         NEW outs, outs = CompactionOutputs(c),
         NEW p \in 1..Len(outs), NEW q \in 1..Len(outs), p < q
  PROVE  ShareNoKey(outs[p], outs[q])
<1>1. PICK input : input = InputEntries(c)
  OBVIOUS
<1>2. PICK N \in Nat : N = Len(input)
  BY <1>1, InputFacts, LenProperties
<1>3. /\ \A i \in 1..N : input[i] \in InputSet(c)
      /\ \A a, b \in 1..N : a < b => ILess(input[a], input[b])
      /\ \A i \in 1..N : input[i] \in Numbers
  <2>1. /\ input \in Seq(Numbers)
        /\ \A i \in 1..Len(input) : input[i] \in InputSet(c)
        /\ \A a, b \in 1..Len(input) : a < b => ILess(input[a], input[b])
    BY <1>1, MergedInput
  <2> QED  BY <1>2, <2>1, ElementOfSeq
<1> SUFFICES ASSUME NEW x \in outs[p], NEW y \in outs[q], Key(x) = Key(y) PROVE FALSE
  BY DEF ShareNoKey
<1>4. PICK i \in 1..N : x = input[i]
  BY <1>1, <1>2, OutputStructure
<1>5. PICK j \in 1..N : y = input[j] /\ ~Dropped(c, input, j)
  BY <1>1, <1>2, OutputStructure
<1>6. ILess(x, y)
  BY OutputStructure
<1>7. /\ \A a \in Numbers : Key(a) \in Nat /\ ~ILess(a, a)
      /\ \A a, b, d \in Numbers : ILess(a, b) /\ ILess(b, d) => ILess(a, d)
  BY KeyOrder
<1>8. i < j
  <2>1. ~(i = j)
    BY <1>3, <1>4, <1>5, <1>6, <1>7
  <2>2. ~(j < i)
    <3> SUFFICES ASSUME j < i PROVE FALSE
      OBVIOUS
    <3>1. ILess(y, x)
      BY <1>3, <1>4, <1>5
    <3> QED  BY <1>3, <1>4, <1>5, <1>6, <1>7, <3>1
  <2> QED  BY <2>1, <2>2
<1>9. PICK k \in 1..N : k = j - 1
  BY <1>8
<1>10. k < j /\ (k = i \/ i < k) /\ j > 1
  BY <1>8, <1>9
<1>11. ILess(input[k], y) /\ (input[k] = x \/ ILess(x, input[k]))
  BY <1>3, <1>4, <1>5, <1>10
<1>12. Key(input[k]) = Key(y)
  <2>1. Key(input[k]) \in Nat /\ Key(x) \in Nat
    BY <1>3, <1>4, <1>7
  <2> QED  BY <1>11, <2>1 DEF ILess
<1>13. input[k] <= c.smallest_snapshot
  BY <1>3
<1> QED  BY <1>5, <1>9, <1>10, <1>12, <1>13 DEF Dropped

\* All that a compaction reads is visible to every snapshot it knows of, and no key
\* is in two of its outputs.
Whole(c) ==
  /\ \A x \in InputSet(c) : x <= c.smallest_snapshot
  /\ \A f, g \in Pending(c) : f # g => ShareNoKey(Entries(f), Entries(g))

WholeInv == job # NoJob => Whole(job)

\* The inputs of a compaction are on disk, and stay as they are.
LEMMA SameInputs ==
  ASSUME NEW v, VersionOK(v), Stays(AddLiveFiles({v})), NEW c, CompactionOK(c), InOrder(v, c)
  PROVE  InputSet(c)' = InputSet(c) /\ InputSet(c) \in SUBSET Numbers
<1>1. c.level \in Levels /\ c.level + 1 \in Levels
  BY VersionAssumption DEF CompactionOK, Levels
<1>2. \A f \in c.in0 \cup c.in1 : f \in AddLiveFiles({v})
  BY <1>1, LiveFiles DEF InOrder
<1>3. \A f \in c.in0 \cup c.in1 : Entries(f)' = Entries(f) /\ Entries(f) \in SUBSET Numbers
  BY <1>2, OnDisk DEF Stays, Entries, FileOK
<1> QED  BY <1>3 DEF InputSet

LEMMA WholeStays ==
  ASSUME StoreInv, OrderInv, HistGrows, Stays(AddLiveFiles({current})), WholeInv,
         job' = NoJob \/ (job' = job /\ (job # NoJob => Stays(Pending(job))))
  PROVE  WholeInv'
<1> SUFFICES ASSUME job' # NoJob PROVE Whole(job)'
  BY DEF WholeInv
<1>1. PICK c, v : c = job /\ v = current
  OBVIOUS
<1>2. /\ HistOK /\ VersionOK(v) /\ Stays(AddLiveFiles({v})) /\ CompactionOK(c) /\ InOrder(v, c)
      /\ Stays(Pending(c)) /\ Whole(c) /\ job' = c /\ \A f \in Pending(c) : FileOK(f)
  BY <1>1 DEF StoreInv, EntriesOK, CurrentOK, JobOK, DiskOK, OrderInv, WholeInv
<1>3. InputSet(c)' = InputSet(c)
  BY <1>2, SameInputs
<1>4. Pending(c)' = Pending(c)
  BY DEF Pending
<1>5. \A f \in Pending(c) : Entries(f)' = Entries(f) /\ Entries(f) \in SUBSET Numbers
  BY <1>2 DEF Stays, Entries, FileOK
<1>6. \A e \in Numbers : Key(e)' = Key(e)
  BY DEF Key, HistGrows
<1>7. \A f, g \in Pending(c) : f # g => ShareNoKey(Entries(f), Entries(g))'
  BY <1>2, <1>5, <1>6 DEF Whole, ShareNoKey
<1>8. Whole(c)'
  BY <1>2, <1>3, <1>4, <1>7 DEF Whole
<1> QED  BY <1>2, <1>8

\* DoCompactionWork takes LastSequence for smallest_snapshot where there is no
\* snapshot.
LEMMA StartKeepsWhole ==
  ASSUME StoreInv, snapshots = <<>>, bg = "scheduled", DoCompactionWork(Choice)
  PROVE  WholeInv'
<1>1. PICK c, d : c = Choice /\ d = job'
  OBVIOUS
<1>2. HistOK /\ CompactionOK(c) /\ c.outputs = <<>> /\ UNCHANGED <<hist, table>>
  BY <1>1, ChoiceFacts DEF StoreInv, EntriesOK, DoCompactionWork
<1>3. /\ d.in0 = c.in0 /\ d.in1 = c.in1 /\ d.outputs = <<>> /\ d.smallest_snapshot = LastSequence
  BY <1>1, <1>2 DEF DoCompactionWork, CompactionOK, Compactions
<1>4. InputSet(c) \in SUBSET Numbers
  <2>1. c.level \in Levels /\ c.level + 1 \in Levels
    BY <1>2, VersionAssumption DEF CompactionOK, Levels
  <2>2. \A f \in c.in0 \cup c.in1 : FileOK(f)
    BY <1>2, <2>1 DEF CompactionOK, VersionOK, FilesOK
  <2> QED  BY <2>2 DEF InputSet, FileOK
<1>5. \A x \in Numbers : x <= LastSequence
  BY <1>2, KeyOrder DEF Numbers, LastSequence
<1>6. InputSet(d) = InputSet(c) /\ Pending(d) = {}
  BY <1>3 DEF InputSet, Pending
<1>7. InputSet(d)' = InputSet(d) /\ Pending(d)' = Pending(d)
  BY <1>2 DEF InputSet, Pending, Entries
<1>8. Whole(d)'
  BY <1>3, <1>4, <1>5, <1>6, <1>7 DEF Whole
<1> QED  BY <1>1, <1>8 DEF WholeInv

LEMMA WriteOutputsKeepsWhole ==
  ASSUME StoreInv, OrderInv, WholeInv, WriteOutputs
  PROVE  WholeInv'
<1>1. PICK v, n, c, d, outs : /\ v = current /\ n = nextFile /\ c = job /\ d = job'
                              /\ outs = CompactionOutputs(c)
  OBVIOUS
<1>2. Written(n, c, d, outs)
  BY <1>1, WrittenFacts
<1>3. /\ HistOK /\ VersionOK(v) /\ CompactionOK(c) /\ InOrder(v, c) /\ Whole(c) /\ UNCHANGED hist
  <2>1. c # NoJob /\ CompactionOK(c)
    BY <1>2 DEF Written
  <2> QED  BY <1>1, <2>1 DEF StoreInv, EntriesOK, CurrentOK, OrderInv, WholeInv, WriteOutputs
<1>4. Stays(AddLiveFiles({v}))
  BY <1>2, <1>3, OnDisk DEF Written, Stays
<1>5. InputSet(d)' = InputSet(c) /\ d.smallest_snapshot = c.smallest_snapshot
  <2>1. InputSet(c)' = InputSet(c)
    BY <1>3, <1>4, SameInputs
  <2> QED  BY <1>2, <2>1 DEF Written, InputSet
<1>6. Len(outs) \in Nat
  BY <1>1, <1>3, OutputStructure
<1>7. \A p, q \in 1..Len(outs) : p # q => ShareNoKey(outs[p], outs[q])
  <2>1. \A p, q \in 1..Len(outs) : p < q => ShareNoKey(outs[p], outs[q])
    BY <1>1, <1>3, OneOfEachKey DEF Whole
  <2> QED  BY <1>6, <2>1 DEF ShareNoKey
<1>8. \A f \in Pending(d) : \E p \in 1..Len(outs) : f = n + p - 1 /\ Entries(f)' = outs[p]
  BY <1>2 DEF Written
<1>9. ASSUME NEW f \in Pending(d), NEW g \in Pending(d), f # g
      PROVE  ShareNoKey(Entries(f), Entries(g))'
  <2>1. PICK p \in 1..Len(outs) : f = n + p - 1 /\ Entries(f)' = outs[p]
    BY <1>8
  <2>2. PICK q \in 1..Len(outs) : g = n + q - 1 /\ Entries(g)' = outs[q]
    BY <1>8
  <2>3. ShareNoKey(outs[p], outs[q])
    BY <1>7, <1>9, <2>1, <2>2
  <2> QED  BY <1>3, <2>1, <2>2, <2>3 DEF ShareNoKey, Key
<1>10. Pending(d)' = Pending(d)
  BY DEF Pending
<1>11. Whole(d)'
  BY <1>3, <1>5, <1>9, <1>10 DEF Whole
<1> QED  BY <1>1, <1>11 DEF WholeInv

LEMMA WholeStep ==
  ASSUME StoreInv, OrderInv, WholeInv, snapshots = <<>>, [Next]_vars
  PROVE  WholeInv'
<1>1. ASSUME NEW k \in Keys, NEW del \in Deletions, Write(k, del) PROVE WholeInv'
  BY <1>1, WriteGrows, WholeStays
<1>2. ASSUME UNCHANGED <<hist, table, current>>, job' = NoJob \/ job' = job PROVE WholeInv'
  <2>1. HistGrows
    BY <1>2, SameHist DEF StoreInv, EntriesOK
  <2>2. Stays(AddLiveFiles({current})) /\ (job # NoJob => Stays(Pending(job)))
    BY <1>2, SameTables DEF StoreInv, CurrentOK, JobOK
  <2> QED  BY <1>2, <2>1, <2>2, WholeStays
<1>3. CASE CompactMemTable /\ UNCHANGED <<hist, mem, job, snapshots, reader>>
  <2>1. HistGrows
    BY <1>3, SameHist DEF StoreInv, EntriesOK
  <2>2. Stays(AddLiveFiles({current})) /\ (job # NoJob => Stays(Pending(job)))
    BY <1>3, FlushFacts, CompactMemTableKeeps
  <2> QED  BY <1>3, <2>1, <2>2, WholeStays
<1>4. CASE bg = "scheduled" /\ TrivialMove(Choice)
  <2>1. job' = NoJob
    BY <1>4 DEF TrivialMove, StoreInv, JobOK
  <2> QED  BY <2>1 DEF WholeInv
<1>5. CASE bg = "scheduled" /\ DoCompactionWork(Choice)
  BY <1>5, StartKeepsWhole
<1>6. CASE WriteOutputs
  BY <1>6, WriteOutputsKeepsWhole
<1>7. CASE InstallCompactionResults
  BY <1>7 DEF InstallCompactionResults, WholeInv
<1> QED  BY <1>1, <1>2, <1>3, <1>4, <1>5, <1>6, <1>7, StepKinds DEF Quiet

\* NewerAbove without a condition on compactions: while no snapshot is taken, a
\* compaction keeps one entry of each key, so it splits none.
THEOREM NewestFirstWithoutSnapshots == Spec /\ [](snapshots = <<>>) => []NewerAbove
<1>1. Init => WholeInv
  BY DEF Init, WholeInv
<1>2. Init => OrderInv
  BY OrderInit
<1>3. WholeInv => Unsplit
  BY DEF WholeInv, Whole, Unsplit, Pending
<1>4. StoreInv /\ OrderInv /\ Unsplit /\ [Next]_vars => OrderInv'
  BY OrderStep
<1>5. StoreInv /\ OrderInv /\ WholeInv /\ snapshots = <<>> /\ [Next]_vars => WholeInv'
  BY WholeStep
<1>6. OrderInv => NewerAbove
  BY DEF OrderInv, Ordered, NewerAbove, Newer
<1> QED  BY <1>1, <1>2, <1>3, <1>4, <1>5, <1>6, StoreIsSound, PTL DEF Spec


-----------------------------------------------------------------------------
(* Without CompactRange no memtable is flushed into a gap.                 *)

\* The range of the keys from a to b overlaps no file of F.
Misses(a, b, F) == \A f \in F : b < Key(Smallest(f)) \/ Key(Largest(f)) < a

\* There are no gaps between files: a range that overlaps none of them is before
\* or after them all.
Connected(F) ==
  \A a, b \in Nat : a <= b /\ Misses(a, b, F) =>
    \/ \A f \in F : b < Key(Smallest(f))
    \/ \A f \in F : Key(Largest(f)) < a

\* Files that overlap the range of connected files belong to them.
LEMMA ConnectedUnion ==
  ASSUME HistOK, NEW F, NEW G, F # {}, \A f \in F \cup G : FileOK(f), Connected(F),
         \A g \in G : ~Beside(g, F)
  PROVE  Connected(F \cup G)
<1>1. \A f \in F \cup G : /\ Key(Smallest(f)) \in Nat /\ Key(Largest(f)) \in Nat
                          /\ Key(Smallest(f)) <= Key(Largest(f))
  BY FileKeys DEF FileOK
<1>2. ASSUME NEW a \in Nat, NEW b \in Nat, a <= b, Misses(a, b, F \cup G)
      PROVE  \/ \A f \in F \cup G : b < Key(Smallest(f))
             \/ \A f \in F \cup G : Key(Largest(f)) < a
  <2>1. Misses(a, b, F) /\ Misses(a, b, G)
    BY <1>2 DEF Misses
  <2>2. CASE \A f \in F : b < Key(Smallest(f))
    <3>1. ASSUME NEW g \in G PROVE b < Key(Smallest(g))
      <4>1. ~(Key(Largest(g)) < a)
        <5> SUFFICES ASSUME Key(Largest(g)) < a PROVE FALSE
          OBVIOUS
        <5>1. \A f \in F : Key(Largest(g)) < Key(Smallest(f))
          BY <1>1, <1>2, <2>2
        <5> QED  BY <5>1 DEF Beside
      <4> QED  BY <2>1, <4>1 DEF Misses
    <3> QED  BY <2>2, <3>1
  <2>3. CASE \A f \in F : Key(Largest(f)) < a
    <3>1. ASSUME NEW g \in G PROVE Key(Largest(g)) < a
      <4>1. ~(b < Key(Smallest(g)))
        <5> SUFFICES ASSUME b < Key(Smallest(g)) PROVE FALSE
          OBVIOUS
        <5>1. \A f \in F : Key(Largest(f)) < Key(Smallest(g))
          BY <1>1, <1>2, <2>3
        <5> QED  BY <5>1 DEF Beside
      <4> QED  BY <2>1, <4>1 DEF Misses
    <3> QED  BY <2>3, <3>1
  <2> QED  BY <1>2, <2>1, <2>2, <2>3 DEF Connected
<1> QED  BY <1>2 DEF Connected

\* In level 0 a range that overlaps none of the files found is on the same side of
\* them as of the range that was asked for: a round only widens it by files found.
LEMMA Level0Side ==
  ASSUME HistOK, NEW v, VersionOK(v), NEW b \in Nat, NEW e \in Nat,
         NEW x \in Nat, NEW y \in Nat, x <= y,
         NEW F, F = GetOverlappingInputs(v, 0, b, e), Misses(x, y, F)
  PROVE  /\ y < b => \A f \in F : y < Key(Smallest(f))
         /\ e < x => \A f \in F : Key(Largest(f)) < x
<1> DEFINE Met(r) == \E h \in Hits(v, r) : Key(Smallest(h)) <= y /\ x <= Key(Largest(h))
           Side(r) == /\ r[1] \in Nat /\ r[2] \in Nat
                      /\ Met(r) \/ ((y < b => y < r[1]) /\ (e < x => r[2] < x))
           S == {p \in Nat \X Ranges : Side(p[2])}
<1>1. PICK start \in Ranges : start[1] = b /\ start[2] = e
  <2>1. <<b, e>> \in Ranges
    BY DEF Ranges
  <2> QED  BY <2>1
<1>2. \A h \in v[0] : /\ Key(Smallest(h)) \in Nat /\ Key(Largest(h)) \in Nat
                      /\ Key(Smallest(h)) <= Key(Largest(h))
  <2>1. 0 \in Levels
    BY VersionAssumption DEF Levels
  <2> QED  BY <2>1, FileKeys DEF VersionOK, FilesOK, FileOK
<1>3. \A r : Hits(v, r) \in SUBSET v[0] /\ \A h \in Hits(v, r) : ~Outside(h, r[1], r[2])
  BY DEF Hits
<1>4. <<0, start>> \in S
  BY <1>1
<1>5. ASSUME NEW r \in Ranges, Side(r) PROVE Side(Widen(v, r))
  <2>1. PICK w : w = Widen(v, r)
    OBVIOUS
  <2>2. /\ w \in Ranges /\ Hits(v, r) \in SUBSET Hits(v, w)
        /\ w[1] = r[1] \/ \E h \in Hits(v, r) : w[1] = Key(Smallest(h))
        /\ w[2] = r[2] \/ \E h \in Hits(v, r) : w[2] = Key(Largest(h))
    BY <2>1, WidenFacts
  <2>3. w[1] \in Nat /\ w[2] \in Nat
    BY <1>2, <1>3, <1>5, <2>2
  <2>4. CASE Met(r)
    BY <2>1, <2>2, <2>3, <2>4
  <2>5. CASE ~Met(r)
    <3>1. \A h \in Hits(v, r) : y < Key(Smallest(h)) \/ Key(Largest(h)) < x
      BY <1>2, <1>3, <2>5
    <3>2. \A h \in Hits(v, r) : r[1] <= Key(Largest(h)) /\ Key(Smallest(h)) <= r[2]
      BY <1>2, <1>3, <1>5 DEF Outside, NULL
    <3>3. y < b => y < w[1]
      <4> SUFFICES ASSUME y < b PROVE y < w[1]
        OBVIOUS
      <4>1. y < r[1]
        BY <1>5, <2>5
      <4>2. \A h \in Hits(v, r) : y < Key(Smallest(h))
        BY <1>2, <1>3, <1>5, <3>1, <3>2, <4>1
      <4> QED  BY <2>2, <4>1, <4>2
    <3>4. e < x => w[2] < x
      <4> SUFFICES ASSUME e < x PROVE w[2] < x
        OBVIOUS
      <4>1. r[2] < x
        BY <1>5, <2>5
      <4>2. \A h \in Hits(v, r) : Key(Largest(h)) < x
        BY <1>2, <1>3, <1>5, <3>1, <3>2, <4>1
      <4> QED  BY <2>2, <4>1, <4>2
    <3> QED  BY <2>1, <2>3, <3>3, <3>4
  <2> QED  BY <2>4, <2>5
<1>6. \A n \in Nat : \A r \in Ranges : <<n, r>> \in S => <<n + 1, Widen(v, r)>> \in S
  <2> HIDE DEF Side
  <2>1. \A r \in Ranges : Widen(v, r) \in Ranges
    BY WidenFacts
  <2> QED  BY <1>5, <2>1
<1>7. \A n, r : <<n, r>> \in S => Side(r)
  OBVIOUS
<1> HIDE DEF S
<1>8. PICK r \in Ranges : /\ GetOverlappingInputs(v, 0, start[1], start[2]) = Hits(v, r)
                          /\ <<Cardinality(v[0]), r>> \in S
  BY <1>4, <1>6, LastRound
<1>9. Side(r) /\ F = Hits(v, r)
  BY <1>1, <1>7, <1>8
<1>10. ~Met(r)
  BY <1>2, <1>3, <1>9 DEF Misses
<1>11. \A h \in F : r[1] <= Key(Largest(h)) /\ Key(Smallest(h)) <= r[2]
  BY <1>2, <1>3, <1>9 DEF Outside, NULL
<1>12. \A h \in F : /\ Key(Smallest(h)) \in Nat /\ Key(Largest(h)) \in Nat
                    /\ y < Key(Smallest(h)) \/ Key(Largest(h)) < x
  BY <1>2, <1>3, <1>9 DEF Misses
<1>13. ASSUME y < b, NEW h \in F PROVE y < Key(Smallest(h))
  BY <1>9, <1>10, <1>11, <1>12, <1>13
<1>14. ASSUME e < x, NEW h \in F PROVE Key(Largest(h)) < x
  BY <1>9, <1>10, <1>11, <1>12, <1>14
<1> QED  BY <1>13, <1>14

\* What GetOverlappingInputs finds in the range of connected files is connected
\* with them.
LEMMA ConnectedOverlap ==
  ASSUME HistOK, NEW v, VersionOK(v), NEW m \in Levels, NEW U, FilesOK(U), U # {}, Connected(U),
         NEW G, G = GetOverlappingInputs(v, m, Key(RangeStart(U)), Key(RangeLimit(U)))
  PROVE  Connected(U \cup G)
<1>1. FilesOK(v[m]) /\ G \in SUBSET v[m]
  BY OverlapWithin DEF VersionOK
<1>2. PICK b, e : b = Key(RangeStart(U)) /\ e = Key(RangeLimit(U))
  OBVIOUS
<1>3. b \in Nat /\ e \in Nat /\ \A f \in U : b <= Key(Smallest(f)) /\ Key(Largest(f)) <= e
  BY <1>2, RangeBounds
<1>4. (\E f \in U : b = Key(Smallest(f))) /\ (\E f \in U : e = Key(Largest(f)))
  BY <1>2, RangeAttained
<1>5. CASE m # 0
  <2>1. \A g \in G : ~Outside(g, b, e)
    <3>1. G = GetOverlappingInputs(v, m, b, e)
      BY <1>2
    <3> QED  BY <1>5, <3>1, OverlapBelow
  <2>2. \A g \in G : FileOK(g)
    BY <1>1 DEF FilesOK
  <2>3. \A g \in G : ~Beside(g, U)
    BY <1>2, <2>1, <2>2, RangeSides
  <2>4. \A f \in U \cup G : FileOK(f)
    BY <2>2 DEF FilesOK
  <2> QED  BY <2>3, <2>4, ConnectedUnion
<1>6. CASE m = 0
  <2>1. ASSUME NEW x \in Nat, NEW y \in Nat, x <= y, Misses(x, y, U \cup G)
        PROVE  \/ \A f \in U \cup G : y < Key(Smallest(f))
               \/ \A f \in U \cup G : Key(Largest(f)) < x
    <3>1. Misses(x, y, U) /\ Misses(x, y, G)
      BY <2>1 DEF Misses
    <3>2. G = GetOverlappingInputs(v, 0, b, e)
      BY <1>2, <1>6
    <3>3. /\ y < b => \A f \in G : y < Key(Smallest(f))
          /\ e < x => \A f \in G : Key(Largest(f)) < x
      BY <1>3, <2>1, <3>1, <3>2, Level0Side
    <3>4. (\A f \in U : y < Key(Smallest(f))) \/ (\A f \in U : Key(Largest(f)) < x)
      BY <2>1, <3>1 DEF Connected
    <3> QED  BY <1>4, <3>3, <3>4
  <2> QED  BY <2>1 DEF Connected
<1> QED  BY <1>5, <1>6

\* The range of files has them all: GetOverlappingInputs finds them again.
LEMMA OverlapKeeps ==
  ASSUME HistOK, NEW v, VersionOK(v), NEW m \in Levels, NEW F, F \in SUBSET v[m],
         NEW U, FilesOK(U), F \in SUBSET U,
         NEW G, G = GetOverlappingInputs(v, m, Key(RangeStart(U)), Key(RangeLimit(U)))
  PROVE  F \in SUBSET G
<1> SUFFICES ASSUME NEW f \in F PROVE f \in G
  OBVIOUS
<1>1. f \in U /\ f \in v[m]
  OBVIOUS
<1>2. /\ Key(RangeStart(U)) \in Nat /\ Key(RangeLimit(U)) \in Nat
      /\ Key(RangeStart(U)) <= Key(Smallest(f)) /\ Key(Largest(f)) <= Key(RangeLimit(U))
  BY <1>1, RangeBounds
<1>3. /\ Key(Smallest(f)) \in Nat /\ Key(Largest(f)) \in Nat /\ Key(Smallest(f)) <= Key(Largest(f))
  BY <1>1, FileKeys DEF FilesOK, FileOK
<1> QED  BY <1>1, <1>2, <1>3, OverlapHas


\* One file has no gap.
LEMMA ConnectedFile ==
  ASSUME NEW f
  PROVE  Connected({f})
BY DEF Connected, Misses

\* The inputs of a compaction that PickCompaction starts from one file: what the
\* range of the files so far overlaps is added to them, time and again.
LEMMA InputsConnected ==
  ASSUME HistOK, NEW v, VersionOK(v), NEW l, NEW F, Around(v, l, F),
         NEW c, c = SetupOtherInputs(v, l, F)
  PROVE  Connected(c.in0 \cup c.in1)
<1> DEFINE Overlap(m, G) == GetOverlappingInputs(v, m, Key(RangeStart(G)), Key(RangeLimit(G)))
           in1 == Overlap(l + 1, F)
           expanded0 == Overlap(l, F \cup in1)
           expanded1 == Overlap(l + 1, expanded0)
           expand == /\ in1 # {}
                     /\ Cardinality(expanded0) > Cardinality(F)
                     /\ TotalFileSize(in1) + TotalFileSize(expanded0) < ExpandedLimit
                     /\ Cardinality(expanded1) = Cardinality(in1)
<1>1. F \in (SUBSET v[l]) \ {{}} /\ l \in 0..(kNumLevels - 2)
  BY AroundIsAsked DEF Asked
<1>2. l \in Levels /\ l + 1 \in Levels /\ l + 1 # 0 /\ FilesOK(v[l]) /\ FilesOK(v[l + 1])
  BY <1>1, VersionAssumption DEF Levels, VersionOK
<1>3. c.in0 = (IF expand THEN expanded0 ELSE F) /\ c.in1 = (IF expand THEN expanded1 ELSE in1)
  BY DEF SetupOtherInputs
<1>4. (c.in0 = F /\ c.in1 = in1) \/ (c.in0 = expanded0 /\ c.in1 = expanded1)
  BY <1>3
<1>5. PICK G, X, Y : G = in1 /\ X = expanded0 /\ Y = expanded1
  OBVIOUS
<1>6. /\ G = GetOverlappingInputs(v, l + 1, Key(RangeStart(F)), Key(RangeLimit(F)))
      /\ X = GetOverlappingInputs(v, l, Key(RangeStart(F \cup G)), Key(RangeLimit(F \cup G)))
      /\ Y = GetOverlappingInputs(v, l + 1, Key(RangeStart(X)), Key(RangeLimit(X)))
      /\ (c.in0 = F /\ c.in1 = G) \/ (c.in0 = X /\ c.in1 = Y)
  BY <1>4, <1>5
<1> HIDE DEF in1, expanded0, expanded1, expand
<1>7. G \in SUBSET v[l + 1] /\ X \in SUBSET v[l] /\ Y \in SUBSET v[l + 1]
  BY <1>6, OverlapWithin
<1>8. FilesOK(F) /\ FilesOK(G) /\ FilesOK(X) /\ FilesOK(Y)
  BY <1>1, <1>2, <1>7, SomeFiles
<1>9. Connected(F)
  <2>1. PICK f \in v[l] : F = IF l = 0 THEN GetOverlappingInputs(v, 0, Key(Smallest(f)), Key(Largest(f))) ELSE {f}
    BY DEF Around
  <2>2. CASE l # 0
    BY <2>1, <2>2, ConnectedFile
  <2>3. CASE l = 0
    <3>1. PICK U : U = {f}
      OBVIOUS
    <3>2. FilesOK(U) /\ U # {} /\ U \in SUBSET v[l]
      BY <1>2, <3>1, SomeFiles
    <3>3. Key(RangeStart(U)) = Key(Smallest(f)) /\ Key(RangeLimit(U)) = Key(Largest(f))
      BY <3>1, <3>2, RangeAttained
    <3>4. F = GetOverlappingInputs(v, l, Key(RangeStart(U)), Key(RangeLimit(U)))
      BY <2>1, <2>3, <3>3
    <3>5. Connected(U \cup F)
      BY <1>2, <3>1, <3>2, <3>4, ConnectedFile, ConnectedOverlap
    <3>6. U \in SUBSET F
      BY <1>2, <3>2, <3>4, OverlapKeeps
    <3>7. U \cup F = F
      BY <3>6
    <3> QED  BY <3>5, <3>7
  <2> QED  BY <2>2, <2>3
<1>10. PICK U : U = F \cup G
  OBVIOUS
<1>11. Connected(U)
  BY <1>1, <1>2, <1>6, <1>8, <1>9, <1>10, ConnectedOverlap
<1>12. CASE c.in0 = F /\ c.in1 = G
  BY <1>10, <1>11, <1>12
<1>13. CASE c.in0 = X /\ c.in1 = Y
  <2>1. FilesOK(U) /\ U # {}
    BY <1>1, <1>8, <1>10, FS_Union DEF FilesOK
  <2>2. X = GetOverlappingInputs(v, l, Key(RangeStart(U)), Key(RangeLimit(U)))
    BY <1>6, <1>10
  <2>3. Connected(U \cup X)
    BY <1>2, <1>11, <2>1, <2>2, ConnectedOverlap
  <2>4. F \in SUBSET X
    BY <1>1, <1>2, <1>10, <2>1, <2>2, OverlapKeeps
  <2>5. PICK W : W = G \cup X
    OBVIOUS
  <2>6. Connected(W)
    <3>1. U \cup X = W
      BY <1>10, <2>4, <2>5
    <3> QED  BY <2>3, <3>1
  <2>7. X # {}
    BY <1>1, <2>4
  <2>8. \A g : g \in Y <=> g \in v[l + 1] /\ ~Outside(g, Key(RangeStart(X)), Key(RangeLimit(X)))
    <3>1. PICK b, e : b = Key(RangeStart(X)) /\ e = Key(RangeLimit(X)) /\ Y = GetOverlappingInputs(v, l + 1, b, e)
      BY <1>6
    <3>2. \A g : g \in Y <=> g \in v[l + 1] /\ ~Outside(g, b, e)
      BY <1>2, <3>1, OverlapBelow
    <3> QED  BY <3>1, <3>2
  <2>9. \A g \in Y : ~Beside(g, X)
    <3>1. \A g \in Y : FileOK(g)
      BY <1>8 DEF FilesOK
    <3> QED  BY <1>8, <2>7, <2>8, <3>1, RangeSides
  <2>10. \A g \in Y : ~Beside(g, W)
    BY <2>5, <2>9 DEF Beside
  <2>11. Connected(W \cup Y)
    <3>1. \A f \in W \cup Y : FileOK(f)
      BY <1>8, <2>5 DEF FilesOK
    <3>2. W # {}
      BY <2>5, <2>7
    <3> QED  BY <2>6, <2>10, <3>1, <3>2, ConnectedUnion
  <2>12. G \in SUBSET Y
    <3>1. \A g \in G : /\ g \in v[l + 1]
                       /\ Outside(g, Key(RangeStart(F)), Key(RangeLimit(F))) <=> Beside(g, F)
      BY <1>1, <1>7, <1>8, RangeSides DEF FilesOK
    <3>2. \A g \in G : ~Outside(g, Key(RangeStart(F)), Key(RangeLimit(F)))
      <4>1. PICK b, e : b = Key(RangeStart(F)) /\ e = Key(RangeLimit(F)) /\ G = GetOverlappingInputs(v, l + 1, b, e)
        BY <1>6
      <4>2. \A g \in G : ~Outside(g, b, e)
        BY <1>2, <4>1, OverlapBelow
      <4> QED  BY <4>1, <4>2
    <3>3. \A g \in G : ~Beside(g, X)
      BY <2>4, <3>1, <3>2 DEF Beside
    <3>4. \A g \in G : ~Outside(g, Key(RangeStart(X)), Key(RangeLimit(X)))
      BY <1>8, <2>7, <3>3, RangeSides DEF FilesOK
    <3> QED  BY <2>8, <3>1, <3>4
  <2>13. W \cup Y = c.in0 \cup c.in1
    BY <1>13, <2>5, <2>12
  <2> QED  BY <2>11, <2>13
<1> QED  BY <1>6, <1>12, <1>13


\* NoGap as an inductive invariant: the inputs of a compaction have no gap, and
\* what has come into the outputs' level meanwhile is beside them.
GapFree(v, c) ==
  /\ Connected(c.in0 \cup c.in1)
  /\ \A g \in v[c.level + 1] : g \notin c.version[c.level + 1] => Beside(g, c.in0)

GapInv == job # NoJob => GapFree(current, job)

LEMMA GapFreeStays ==
  ASSUME HistOK, HistGrows, NEW v, VersionOK(v), Stays(AddLiveFiles({v})),
         NEW c, CompactionOK(c), JobDisjoint(v, c), GapFree(v, c)
  PROVE  GapFree(v, c)'
<1>1. PICK G : G = AddLiveFiles({v})
  OBVIOUS
<1>2. \A g \in G : FileOK(g) /\ table'[g] = table[g]
  BY <1>1, OnDisk DEF Stays
<1>3. \A l \in Levels : \A g \in v[l] : g \in G
  BY <1>1, LiveFiles
<1>4. c.level \in Levels /\ c.level + 1 \in Levels
  BY VersionAssumption DEF CompactionOK, Levels
<1>5. c.in0 \in SUBSET G /\ c.in1 \in SUBSET G /\ v[c.level + 1] \in SUBSET G
  BY <1>3, <1>4 DEF JobDisjoint
<1>6. \A g \in G : \A F \in SUBSET G : Beside(g, F)' <=> Beside(g, F)
  BY <1>2, SameSides
<1>7. \A g \in G : Key(Smallest(g))' = Key(Smallest(g)) /\ Key(Largest(g))' = Key(Largest(g))
  <2> SUFFICES ASSUME NEW g \in G
               PROVE  Key(Smallest(g))' = Key(Smallest(g)) /\ Key(Largest(g))' = Key(Largest(g))
    OBVIOUS
  <2>1. Smallest(g)' = Smallest(g) /\ Largest(g)' = Largest(g)
    BY <1>2 DEF Smallest, Largest
  <2>2. Smallest(g) \in Numbers /\ Largest(g) \in Numbers
    BY <1>2 DEF FileOK
  <2> QED  BY <2>1, <2>2 DEF Key, HistGrows
<1>8. PICK F : F = c.in0 \cup c.in1
  OBVIOUS
<1>9. Connected(F) /\ F \in SUBSET G
  BY <1>5, <1>8 DEF GapFree
<1>10. Connected(F)'
  BY <1>7, <1>9 DEF Connected, Misses
<1>11. \A g \in v[c.level + 1] : g \notin c.version[c.level + 1] => Beside(g, c.in0)'
  BY <1>5, <1>6 DEF GapFree
<1> QED  BY <1>8, <1>10, <1>11 DEF GapFree

\* Steps that leave the current version and its tables alone, and go on with the
\* compaction or give it up
LEMMA QuietKeepsGap ==
  ASSUME StoreInv, DisjointInv, GapInv, HistGrows, UNCHANGED current,
         Stays(AddLiveFiles({current})), job' = NoJob \/ job' = job
  PROVE  GapInv'
<1> SUFFICES ASSUME job' # NoJob PROVE GapFree(current, job)'
  BY DEF GapInv
<1>1. PICK v, c : v = current /\ c = job
  OBVIOUS
<1>2. /\ HistOK /\ VersionOK(v) /\ CompactionOK(c) /\ Stays(AddLiveFiles({v}))
      /\ JobDisjoint(v, c) /\ GapFree(v, c) /\ current' = v /\ job' = c
  BY <1>1 DEF StoreInv, EntriesOK, CurrentOK, JobOK, DisjointInv, GapInv
<1>3. GapFree(v, c)'
  BY <1>2, GapFreeStays
<1> QED  BY <1>2, <1>3

\* CompactMemTable goes to a level below 0 only where no file of it or of a level
\* above overlaps, the inputs of a compaction among them.
LEMMA FlushKeepsGap ==
  ASSUME StoreInv, DisjointInv, GapInv, CompactMemTable, UNCHANGED <<hist, mem, job>>
  PROVE  GapInv'
<1>1. PICK E \in SUBSET Numbers, f \in Nat : imm = <<E>> /\ f = nextFile /\ FlushedTo(E, f)
  BY FlushFacts
<1>2. PICK v, w, c : v = current /\ w = current' /\ c = job
  OBVIOUS
<1>3. HistOK /\ HistGrows /\ VersionOK(v) /\ Stays(AddLiveFiles({v}))
  BY <1>2, FlushFacts, SameHist DEF StoreInv, EntriesOK, CurrentOK
<1>4. CASE w = v
  BY <1>2, <1>3, <1>4, QuietKeepsGap
<1>5. CASE w # v
  <2> SUFFICES ASSUME c # NoJob PROVE GapFree(w, c)'
    BY <1>2 DEF GapInv
  <2>1. CompactionOK(c) /\ JobDisjoint(v, c) /\ GapFree(v, c)
    BY <1>2 DEF StoreInv, JobOK, DisjointInv, GapInv
  <2>2. GapFree(v, c)' /\ JobDisjoint(v, c)
    BY <1>3, <2>1, GapFreeStays
  <2>3. PICK l \in Levels : /\ w = [v EXCEPT ![l] = @ \cup {f}]
                            /\ l > 0 => \A n \in 0..l : \A g \in v[n] : Apart(f, g)'
    BY <1>1, <1>2, <1>5 DEF FlushedTo
  <2>4. \A n \in Levels : w[n] = IF n = l THEN v[n] \cup {f} ELSE v[n]
    BY <1>3, <2>3 DEF VersionOK
  <2>5. /\ c.level + 1 \in Levels /\ c.level + 1 > 0
        /\ c.level \in 0..(c.level + 1) /\ c.level + 1 \in 0..(c.level + 1)
    BY <2>1, VersionAssumption DEF CompactionOK, Levels
  <2>6. FileOK(f)' /\ HistOK'
    BY <1>1, <1>2, <1>3, <1>5 DEF FlushedTo, HistGrows
  <2>7. ASSUME l = c.level + 1 PROVE Beside(f, c.in0)'
    <3>1. \A n \in 0..l : \A g \in v[n] : Apart(f, g)'
      BY <2>3, <2>5, <2>7
    <3>2. PICK F : F = c.in0 \cup c.in1
      OBVIOUS
    <3>3. \A g \in F : Apart(f, g)'
      BY <2>1, <2>5, <2>7, <3>1, <3>2 DEF JobDisjoint
    <3>4. /\ Key(Smallest(f))' \in Nat /\ Key(Largest(f))' \in Nat
          /\ Key(Smallest(f))' <= Key(Largest(f))'
      <4>1. Smallest(f)' \in Numbers' /\ Largest(f)' \in Numbers'
        BY <2>6 DEF FileOK
      <4>2. \A a \in Numbers' : hist'[a].key \in Nat
        <5> SUFFICES ASSUME NEW a \in Numbers' PROVE hist'[a].key \in Nat
          OBVIOUS
        <5>1. hist' \in Seq(EntrySet) /\ a \in 1..Len(hist')
          BY <2>6 DEF HistOK, Numbers
        <5>2. hist'[a] \in EntrySet
          BY <5>1, ElementOfSeq
        <5> QED  BY <5>2, VersionAssumption DEF EntrySet
      <4>3. Key(Smallest(f))' \in Nat /\ Key(Largest(f))' \in Nat
        BY <4>1, <4>2 DEF Key
      <4> QED  BY <2>6, <4>3 DEF FileOK
    <3>5. PICK a, b \in Nat : a = Key(Smallest(f))' /\ b = Key(Largest(f))' /\ a <= b
      BY <3>4
    <3>6. Connected(F)'
      BY <2>2, <3>2 DEF GapFree
    <3>7. \/ \A g \in F : Key(Largest(f))' < Key(Smallest(g))'
          \/ \A g \in F : Key(Largest(g))' < Key(Smallest(f))'
      <4>1. Misses(a, b, F)'
        BY <3>3, <3>5 DEF Apart, Misses
      <4>2. \/ \A g \in F : b < Key(Smallest(g))'
            \/ \A g \in F : Key(Largest(g))' < a
        BY <3>5, <3>6, <4>1 DEF Connected
      <4> QED  BY <3>5, <4>2
    <3> QED  BY <3>2, <3>7 DEF Beside
  <2>8. \A g \in w[c.level + 1] : g \notin c.version[c.level + 1] => Beside(g, c.in0)'
    BY <2>2, <2>4, <2>5, <2>7 DEF GapFree
  <2> QED  BY <2>2, <2>8 DEF GapFree
<1> QED  BY <1>4, <1>5

\* DoCompactionWork starts: all files are there, and the inputs are around one.
LEMMA StartKeepsGap ==
  ASSUME StoreInv, ~manual, bg = "scheduled", DoCompactionWork(Choice)
  PROVE  GapInv'
<1>1. PICK v, c, d : v = current /\ c = Choice /\ d = job'
  OBVIOUS
<1>2. HistOK /\ VersionOK(v) /\ UNCHANGED <<hist, table, current>>
  BY <1>1 DEF StoreInv, EntriesOK, CurrentOK, DoCompactionWork
<1>3. PICK l, F : Around(v, l, F) /\ c = SetupOtherInputs(v, l, F)
  BY <1>1, ChoiceFacts DEF DoCompactionWork
<1>4. CompactionOK(c) /\ c.version = v
  BY <1>1, <1>3, ChoiceFacts DEF DoCompactionWork
<1>5. Connected(c.in0 \cup c.in1)
  BY <1>2, <1>3, InputsConnected
<1>6. d.level = c.level /\ d.in0 = c.in0 /\ d.in1 = c.in1 /\ d.version = v
  BY <1>1, <1>4 DEF DoCompactionWork, CompactionOK, Compactions
<1>7. GapFree(v, d)
  BY <1>5, <1>6 DEF GapFree
<1>8. GapFree(v, d)'
  BY <1>2, <1>7 DEF GapFree, Connected, Misses, Beside, Key, Smallest, Largest
<1> QED  BY <1>1, <1>2, <1>8 DEF GapInv

\* The outputs are written beside the files of the version.
LEMMA WriteOutputsKeepsGap ==
  ASSUME StoreInv, DisjointInv, GapInv, WriteOutputs
  PROVE  GapInv'
<1>1. PICK v, n, c, d, outs : /\ v = current /\ n = nextFile /\ c = job /\ d = job'
                              /\ outs = CompactionOutputs(c)
  OBVIOUS
<1>2. Written(n, c, d, outs)
  BY <1>1, WrittenFacts
<1>3. UNCHANGED <<hist, current>>
  BY DEF WriteOutputs
<1>4. /\ HistOK /\ HistGrows /\ VersionOK(v) /\ CompactionOK(c) /\ JobDisjoint(v, c) /\ GapFree(v, c)
  BY <1>1, <1>2, <1>3, SameHist DEF Written, StoreInv, EntriesOK, CurrentOK, DisjointInv, GapInv
<1>5. Stays(AddLiveFiles({v}))
  BY <1>2, <1>4, OnDisk DEF Written, Stays
<1>6. GapFree(v, c)'
  BY <1>4, <1>5, GapFreeStays
<1>7. GapFree(v, d)'
  BY <1>2, <1>6 DEF GapFree, Written
<1> QED  BY <1>1, <1>3, <1>7 DEF GapInv

LEMMA GapStep ==
  ASSUME StoreInv, DisjointInv, GapInv, ~manual, [Next]_vars
  PROVE  GapInv'
<1>1. ASSUME NEW k \in Keys, NEW del \in Deletions, Write(k, del) PROVE GapInv'
  BY <1>1, WriteGrows, QuietKeepsGap
<1>2. ASSUME UNCHANGED <<hist, table, current>>, job' = NoJob \/ job' = job PROVE GapInv'
  <2>1. HistGrows
    BY <1>2, SameHist DEF StoreInv, EntriesOK
  <2>2. Stays(AddLiveFiles({current}))
    BY <1>2, SameTables DEF StoreInv, CurrentOK
  <2> QED  BY <1>2, <2>1, <2>2, QuietKeepsGap
<1>3. CASE CompactMemTable /\ UNCHANGED <<hist, mem, job, snapshots, reader>>
  BY <1>3, FlushKeepsGap
<1>4. CASE bg = "scheduled" /\ TrivialMove(Choice)
  <2>1. job' = NoJob
    BY <1>4 DEF TrivialMove, StoreInv, JobOK
  <2> QED  BY <2>1 DEF GapInv
<1>5. CASE bg = "scheduled" /\ DoCompactionWork(Choice)
  BY <1>5, StartKeepsGap
<1>6. CASE WriteOutputs
  BY <1>6, WriteOutputsKeepsGap
<1>7. CASE InstallCompactionResults
  BY <1>7 DEF InstallCompactionResults, GapInv
<1> QED  BY <1>1, <1>2, <1>3, <1>4, <1>5, <1>6, <1>7, StepKinds DEF Quiet

\* LevelsDisjoint without a condition on compactions: as long as CompactRange has
\* no compaction waiting, every compaction starts from one file, its inputs have
\* no gap, and a memtable goes to a level below 0 only beside all of them.
THEOREM LevelsDisjointWithoutManual == Spec /\ []~manual => []LevelsDisjoint
<1>1. Init => DisjointInv
  BY DisjointInit
<1>2. Init => GapInv
  BY DEF Init, GapInv
<1>3. GapInv => NoGap
  BY DEF GapInv, GapFree, NoGap
<1>4. StoreInv /\ DisjointInv /\ NoGap /\ [Next]_vars => DisjointInv'
  BY DisjointStep
<1>5. StoreInv /\ DisjointInv /\ GapInv /\ ~manual /\ [Next]_vars => GapInv'
  BY GapStep
<1>6. DisjointInv => LevelsDisjoint
  BY DEF DisjointInv, FilesDisjoint, Disjoint, LevelsDisjoint
<1> QED  BY <1>1, <1>2, <1>3, <1>4, <1>5, <1>6, StoreIsSound, PTL DEF Spec

-----------------------------------------------------------------------------
(* What a read finds: the newest visible entry of all that there is.       *)

\* The greatest visible entry of a key, if there is one
LEMMA SeekFacts ==
  ASSUME HistOK, NEW E \in SUBSET Numbers, NEW k, NEW s, NEW e, e = Seek(E, k, s)
  PROVE  \/ e = None /\ \A x \in E : Key(x) = k => ~(x <= s)
         \/ /\ e \in E /\ e # None /\ Key(e) = k /\ e <= s
            /\ \A x \in E : Key(x) = k /\ x <= s => x <= e
<1>1. PICK seen : seen = {x \in E : Key(x) = k /\ x <= s}
  OBVIOUS
<1>2. e = IF seen = {} THEN None ELSE Max(seen)
  BY <1>1 DEF Seek
<1>3. Len(hist) \in Nat /\ Numbers \in SUBSET Nat /\ \A x \in Numbers : x <= Len(hist) /\ x # 0
  BY KeyOrder DEF Numbers
<1>4. CASE seen = {}
  BY <1>1, <1>2, <1>4
<1>5. CASE seen # {}
  <2>1. seen \in SUBSET Nat /\ \A x \in seen : x <= Len(hist)
    BY <1>1, <1>3
  <2>2. Max(seen) \in seen /\ \A x \in seen : x <= Max(seen)
    BY <1>3, <1>5, <2>1, GreatestOfNumbers
  <2>3. e \in seen /\ \A x \in seen : x <= e
    BY <1>2, <1>5, <2>2
  <2> QED  BY <1>1, <1>3, <2>3 DEF None
<1> QED  BY <1>4, <1>5

\* ... is what they say of it.
LEMMA SeekIs ==
  ASSUME HistOK, NEW E \in SUBSET Numbers, NEW k, NEW s, NEW e \in E, Key(e) = k, e <= s,
         \A x \in E : Key(x) = k /\ x <= s => x <= e
  PROVE  Seek(E, k, s) = e
<1>1. PICK d : d = Seek(E, k, s)
  OBVIOUS
<1>2. \/ d = None /\ \A x \in E : Key(x) = k => ~(x <= s)
      \/ /\ d \in E /\ d # None /\ Key(d) = k /\ d <= s
         /\ \A x \in E : Key(x) = k /\ x <= s => x <= d
  BY <1>1, SeekFacts
<1>3. d \in E /\ d <= e /\ e <= d
  BY <1>2
<1>4. Numbers \in SUBSET Nat
  BY KeyOrder
<1> QED  BY <1>1, <1>3, <1>4

LEMMA SeekIsNone ==
  ASSUME HistOK, NEW E \in SUBSET Numbers, NEW k, NEW s, \A x \in E : Key(x) = k => ~(x <= s)
  PROVE  Seek(E, k, s) = None
BY SeekFacts

\* What the files of a version hold
FileEntries(v) == UNION {Entries(f) : f \in AddLiveFiles({v})}

LEMMA FileEntriesFacts ==
  ASSUME NEW v, VersionOK(v)
  PROVE  /\ FileEntries(v) \in SUBSET Numbers
         /\ \A e : e \in FileEntries(v) <=> \E l \in Levels : \E f \in v[l] : e \in Entries(f)
<1>1. \A f \in AddLiveFiles({v}) : Entries(f) \in SUBSET Numbers
  BY OnDisk DEF FileOK
<1> QED  BY <1>1, LiveFiles DEF FileEntries

\* The first of some files, as Version::Get reads them
LEMMA FirstOfSome ==
  ASSUME NEW X \in SUBSET (Nat \X Nat), IsFiniteSet(X), X # {}
  PROVE  /\ FirstOf(X) \in X
         /\ \A y \in X : \/ FirstOf(X)[1] < y[1]
                         \/ FirstOf(X)[1] = y[1] /\ FirstOf(X)[2] >= y[2]
<1> DEFINE R == {p \in X \X X : p[1][1] < p[2][1] \/ (p[1][1] = p[2][1] /\ p[1][2] > p[2][2])}
<1>1. \A x, y \in X : <<x, y>> \in R <=> x[1] < y[1] \/ (x[1] = y[1] /\ x[2] > y[2])
  OBVIOUS
<1> HIDE DEF R
<1>2. \A x \in X : x[1] \in Nat /\ x[2] \in Nat
  OBVIOUS
<1>3. StrictOn(X, R)
  BY <1>1, <1>2 DEF StrictOn
<1>4. PICK m \in X : \A x \in X : <<x, m>> \notin R
  BY <1>3, FirstExists
<1>5. ASSUME NEW y \in X PROVE m[1] < y[1] \/ (m[1] = y[1] /\ m[2] >= y[2])
  <2>1. ~(y[1] < m[1] \/ (y[1] = m[1] /\ y[2] > m[2]))
    BY <1>1, <1>4
  <2> QED  BY <1>2, <2>1
<1>6. PICK x \in X : \A y \in X : x[1] < y[1] \/ (x[1] = y[1] /\ x[2] >= y[2])
  BY <1>5
<1> QED  BY <1>6 DEF FirstOf

\* The binary search of a level below 0 finds the file that has a visible entry of
\* the key: the files before it end before the key, and share no key with it.
LEMMA FindsFile ==
  ASSUME HistOK, NEW v, VersionOK(v), KeysApart(v), FilesDisjoint(v),
         NEW l \in Levels \ {0}, NEW g \in v[l], NEW s \in Nat,
         NEW e \in Entries(g), e <= s, NEW k, k = Key(e)
  PROVE  FindFile(v[l], k, s) = g
<1> DEFINE reach == {f \in v[l] : \/ k < Key(Largest(f))
                                  \/ k = Key(Largest(f)) /\ s >= Largest(f)}
<1>1. FindFile(v[l], k, s) = IF reach = {} THEN None
                             ELSE CHOOSE f \in reach : \A h \in reach : ~ILess(Smallest(h), Smallest(f))
  BY DEF FindFile
<1>2. \A f \in v[l] : /\ FileOK(f) /\ Smallest(f) \in Numbers /\ Largest(f) \in Numbers
                      /\ Smallest(f) \in Entries(f) /\ Largest(f) \in Entries(f)
                      /\ AtOrBefore(Smallest(f), Largest(f))
  BY DEF VersionOK, FilesOK, FileOK
<1>3. /\ e \in Numbers /\ AtOrBefore(Smallest(g), e) /\ AtOrBefore(e, Largest(g))
  BY <1>2 DEF FileOK
<1>4. \A a \in Numbers : Key(a) \in Nat /\ a \in Nat
  BY KeyOrder
<1>5. g \in reach
  <2>1. ILess(e, Largest(g)) => k < Key(Largest(g)) \/ (k = Key(Largest(g)) /\ s >= Largest(g))
    BY <1>2, <1>3, <1>4 DEF ILess
  <2>2. e = Largest(g) => k = Key(Largest(g)) /\ s >= Largest(g)
    BY <1>3, <1>4
  <2> QED  BY <1>3, <2>1, <2>2 DEF AtOrBefore
<1>6. ASSUME NEW h \in reach, h # g PROVE ILess(Smallest(g), Smallest(h))
  <2>1. h \in v[l] /\ (k < Key(Largest(h)) \/ k = Key(Largest(h)))
    OBVIOUS
  <2>2. k # Key(Largest(h))
    BY <1>2, <1>6, <2>1 DEF KeysApart, ShareNoKey
  <2>3. Disjoint(h, g)
    BY <1>6, <2>1 DEF FilesDisjoint
  <2>4. ~ILess(Largest(h), Smallest(g))
    <3>1. Key(Smallest(g)) <= k
      BY <1>2, <1>3, <1>4 DEF AtOrBefore, ILess
    <3>2. k < Key(Largest(h))
      BY <2>1, <2>2
    <3> QED  BY <1>2, <1>3, <1>4, <2>1, <3>1, <3>2 DEF ILess
  <2>5. ILess(Largest(g), Smallest(h))
    BY <2>3, <2>4 DEF Disjoint
  <2>6. \A a, b, c \in Numbers : ILess(a, b) /\ ILess(b, c) => ILess(a, c)
    BY KeyOrder
  <2> QED  BY <1>2, <2>1, <2>5, <2>6 DEF AtOrBefore
<1> HIDE DEF reach
<1>7. \A a, b \in Numbers : ILess(a, b) => ~ILess(b, a)
  BY KeyOrder DEF ILess
<1>8. \A h \in reach : h \in v[l]
  BY DEF reach
<1>9. \A h \in reach : ~ILess(Smallest(h), Smallest(g))
  BY <1>2, <1>4, <1>6, <1>7, <1>8, KeyOrder
<1>10. \A f \in reach : (\A h \in reach : ~ILess(Smallest(h), Smallest(f))) => f = g
  BY <1>5, <1>6
<1>11. (CHOOSE f \in reach : \A h \in reach : ~ILess(Smallest(h), Smallest(f))) = g
  BY <1>5, <1>9, <1>10
<1> QED  BY <1>1, <1>5, <1>11

\* The version is sorted as Version::Get relies on.
Sorted(m, i, v) == Ordered(m, i, v) /\ KeysApart(v) /\ FilesDisjoint(v)

\* ForEachOverlapping comes by every file that has a visible entry of the key.
LEMMA Searched ==
  ASSUME HistOK, NEW v, VersionOK(v), KeysApart(v), FilesDisjoint(v), NEW k, NEW s \in Nat,
         NEW l \in Levels, NEW f \in v[l], NEW e \in Entries(f), Key(e) = k, e <= s
  PROVE  <<l, f>> \in FilesToSearch(v, k, s)
<1>1. FileOK(f) /\ f # None
  BY DEF VersionOK, FilesOK, FileOK, None
<1>2. /\ k \in Nat /\ Key(Smallest(f)) \in Nat /\ Key(Largest(f)) \in Nat
      /\ Key(Smallest(f)) <= k /\ k <= Key(Largest(f))
  BY <1>1, KeysWithin
<1>3. ~Outside(f, k, k) /\ ~Outside(f, NULL, k)
  BY <1>2 DEF Outside, NULL
<1>4. CASE l = 0
  BY <1>3, <1>4 DEF FilesToSearch
<1>5. CASE l # 0
  <2>1. FindFile(v[l], k, s) = f
    BY <1>5, FindsFile
  <2>2. <<l, f>> \in {<<n, FindFile(v[n], k, s)>> : n \in Levels \ {0}}
    BY <1>5, <2>1
  <2> QED  BY <1>1, <1>3, <2>2 DEF FilesToSearch
<1> QED  BY <1>4, <1>5

\* Version::Get returns the newest visible entry of all the files.
LEMMA VersionGetIsSeek ==
  ASSUME HistOK, NEW m, NEW i, NEW v, VersionOK(v), Sorted(m, i, v), NEW k, NEW s \in Nat
  PROVE  VersionGet(v, k, s) = Seek(FileEntries(v), k, s)
<1> DEFINE X == FilesToSearch(v, k, s)
           hits == {x \in X : Seek(Entries(x[2]), k, s) # None}
<1>1. VersionGet(v, k, s) = IF hits = {} THEN None ELSE Seek(Entries(FirstOf(hits)[2]), k, s)
  BY DEF VersionGet
<1>2. /\ IsFiniteSet(X) /\ X \in SUBSET (Levels \X Nat)
      /\ \A x \in X : x[2] \in v[x[1]]
  BY SearchFacts
<1>3. FileEntries(v) \in SUBSET Numbers
  BY FileEntriesFacts
<1>4. \A e : e \in FileEntries(v) <=> \E l \in Levels : \E f \in v[l] : e \in Entries(f)
  BY FileEntriesFacts
<1>5. \A l \in Levels : \A f \in v[l] : Entries(f) \in SUBSET Numbers
  BY DEF VersionOK, FilesOK, FileOK
<1>6. ASSUME NEW y \in FileEntries(v), Key(y) = k, y <= s
      PROVE  \E l \in Levels : \E f \in v[l] : y \in Entries(f) /\ <<l, f>> \in hits
  <2>1. PICK l \in Levels : \E f \in v[l] : y \in Entries(f)
    BY <1>4
  <2> PICK f \in v[l] : y \in Entries(f)
    BY <2>1
  <2>2. <<l, f>> \in X
    BY <1>6, <2>1, Searched DEF Sorted
  <2>3. PICK d : d = Seek(Entries(f), k, s)
    OBVIOUS
  <2>4. \/ d = None /\ \A x \in Entries(f) : Key(x) = k => ~(x <= s)
        \/ d # None
    BY <1>5, <2>3, SeekFacts
  <2>5. d # None
    BY <1>6, <2>1, <2>4
  <2> QED  BY <2>1, <2>2, <2>3, <2>5
<1>7. CASE hits = {}
  <2>1. \A y \in FileEntries(v) : Key(y) = k => ~(y <= s)
    BY <1>6, <1>7
  <2>2. Seek(FileEntries(v), k, s) = None
    BY <1>3, <2>1, SeekIsNone
  <2> QED  BY <1>1, <1>7, <2>2
<1>8. CASE hits # {}
  <2> HIDE DEF X
  <2>1. hits \in SUBSET (Nat \X Nat) /\ IsFiniteSet(hits)
    BY <1>2, FS_Subset DEF Levels
  <2> PICK x : x = FirstOf(hits)
    OBVIOUS
  <2> HIDE DEF hits
  <2>2. x \in hits /\ \A y \in hits : x[1] < y[1] \/ (x[1] = y[1] /\ x[2] >= y[2])
    BY <1>8, <2>1, FirstOfSome
  <2> PICK d : d = Seek(Entries(x[2]), k, s)
    OBVIOUS
  <2>3. d # None /\ x \in X
    BY <2>2 DEF hits
  <2>4. x[1] \in Levels /\ x[1] \in Nat /\ x[2] \in v[x[1]] /\ x[2] \in Nat
    BY <1>2, <2>3 DEF Levels
  <2>5. \/ d = None
        \/ /\ d \in Entries(x[2]) /\ d # None /\ Key(d) = k /\ d <= s
           /\ \A y \in Entries(x[2]) : Key(y) = k /\ y <= s => y <= d
    BY <1>5, <2>4, SeekFacts
  <2>6. /\ d \in Entries(x[2]) /\ Key(d) = k /\ d <= s
        /\ \A y \in Entries(x[2]) : Key(y) = k /\ y <= s => y <= d
    BY <2>3, <2>5
  <2>7. ASSUME NEW y \in FileEntries(v), Key(y) = k, y <= s PROVE y <= d
    <3> PICK l \in Levels : \E f \in v[l] : y \in Entries(f) /\ <<l, f>> \in hits
      BY <1>6, <2>7
    <3>1. PICK f \in v[l] : y \in Entries(f) /\ <<l, f>> \in hits
      OBVIOUS
    <3>2. x[1] < l \/ (x[1] = l /\ x[2] >= f)
      BY <2>2, <3>1
    <3>3. d \in Nat /\ y \in Nat
      BY <1>5, <2>4, <2>6, <3>1, KeyOrder DEF Numbers
    <3>4. CASE x[1] < l
      <4>1. Newer(Entries(x[2]), Entries(f))
        BY <2>4, <3>4 DEF Sorted, Ordered
      <4> QED  BY <2>6, <2>7, <3>1, <3>3, <4>1 DEF Newer
    <3>5. CASE x[1] = l /\ x[2] = f
      BY <2>6, <2>7, <3>1, <3>5
    <3>6. CASE x[1] = l /\ x[2] # f
      <4>1. l = 0
        BY <2>4, <2>6, <2>7, <3>1, <3>6 DEF Sorted, KeysApart, ShareNoKey
      <4>2. f \in Nat
        BY <3>1 DEF VersionOK, FilesOK
      <4>3. x[2] > f
        BY <2>4, <3>2, <3>6, <4>2
      <4>4. Newer(Entries(x[2]), Entries(f))
        BY <2>4, <3>1, <3>6, <4>1, <4>3 DEF Sorted, Ordered
      <4> QED  BY <2>6, <2>7, <3>1, <3>3, <4>4 DEF Newer
    <3> QED  BY <3>2, <3>4, <3>5, <3>6
  <2>8. d \in FileEntries(v)
    BY <1>4, <2>4, <2>6
  <2>9. Seek(FileEntries(v), k, s) = d
    BY <1>3, <2>6, <2>7, <2>8, SeekIs
  <2> QED  BY <1>1, <1>8, <2>9
<1> QED  BY <1>7, <1>8

\* All that a reader of the memtable m, the immutable one i and the version v has
Held(m, i, v) == m \cup i \cup FileEntries(v)

LEMMA HeldFacts ==
  ASSUME NEW m \in SUBSET Numbers, NEW i \in SUBSET Numbers, NEW v, VersionOK(v)
  PROVE  /\ Held(m, i, v) \in SUBSET Numbers
         /\ \A e : e \in Held(m, i, v) <=>
              e \in m \/ e \in i \/ \E l \in Levels : \E f \in v[l] : e \in Entries(f)
<1>1. FileEntries(v) \in SUBSET Numbers
  BY FileEntriesFacts
<1>2. \A e : e \in FileEntries(v) <=> \E l \in Levels : \E f \in v[l] : e \in Entries(f)
  BY FileEntriesFacts
<1> QED  BY <1>1, <1>2 DEF Held

\* What is found in one part and is newer than all of its key in the rest is what
\* is found in both; what is not found in one part is looked for in the rest.
LEMMA SeekInParts ==
  ASSUME HistOK, NEW D \in SUBSET Numbers, NEW E \in SUBSET Numbers, Newer(D, E), NEW k, NEW s
  PROVE  Seek(D \cup E, k, s) = IF Seek(D, k, s) # None THEN Seek(D, k, s) ELSE Seek(E, k, s)
<1> PICK d : d = Seek(D, k, s)
  OBVIOUS
<1> PICK e : e = Seek(E, k, s)
  OBVIOUS
<1>1. \/ d = None /\ \A x \in D : Key(x) = k => ~(x <= s)
      \/ /\ d \in D /\ d # None /\ Key(d) = k /\ d <= s
         /\ \A x \in D : Key(x) = k /\ x <= s => x <= d
  BY SeekFacts
<1>2. \/ e = None /\ \A x \in E : Key(x) = k => ~(x <= s)
      \/ /\ e \in E /\ e # None /\ Key(e) = k /\ e <= s
         /\ \A x \in E : Key(x) = k /\ x <= s => x <= e
  BY SeekFacts
<1>3. D \cup E \in SUBSET Numbers /\ \A x \in Numbers : x \in Nat
  BY KeyOrder
<1>4. CASE d # None
  <2>1. \A x \in D \cup E : Key(x) = k /\ x <= s => x <= d
    BY <1>1, <1>3, <1>4 DEF Newer
  <2>2. Seek(D \cup E, k, s) = d
    BY <1>1, <1>3, <1>4, <2>1, SeekIs
  <2> QED  BY <1>4, <2>2
<1>5. CASE d = None /\ e # None
  <2>1. \A x \in D \cup E : Key(x) = k /\ x <= s => x <= e
    BY <1>1, <1>2, <1>5
  <2>2. Seek(D \cup E, k, s) = e
    BY <1>2, <1>3, <1>5, <2>1, SeekIs
  <2> QED  BY <1>5, <2>2
<1>6. CASE d = None /\ e = None
  <2>1. \A x \in D \cup E : Key(x) = k => ~(x <= s)
    BY <1>1, <1>2, <1>6
  <2>2. Seek(D \cup E, k, s) = None
    BY <1>3, <2>1, SeekIsNone
  <2> QED  BY <1>6, <2>2
<1> QED  BY <1>4, <1>5, <1>6

\* DBImpl::Get finds what a merge of everything shows.
LEMMA LookupIsSeek ==
  ASSUME HistOK, NEW m \in SUBSET Numbers, NEW i \in SUBSET Numbers, NEW v, VersionOK(v),
         Sorted(m, i, v), NEW k, NEW s \in Nat
  PROVE  Lookup(m, i, v, k, s) = Seek(Held(m, i, v), k, s)
<1> PICK E : E = FileEntries(v)
  OBVIOUS
<1>1. E \in SUBSET Numbers
  BY FileEntriesFacts
<1>2. VersionGet(v, k, s) = Seek(E, k, s)
  BY VersionGetIsSeek
<1>3. \A e : e \in E <=> \E l \in Levels : \E f \in v[l] : e \in Entries(f)
  BY FileEntriesFacts
<1>4. \A l \in Levels : \A f \in v[l] : Newer(m \cup i, Entries(f))
  BY LiveFiles DEF Sorted, Ordered
<1>5. Newer(m, i) /\ Newer(m, i \cup E) /\ Newer(i, E)
  BY <1>3, <1>4 DEF Sorted, Ordered, Newer
<1>6. Seek(i \cup E, k, s) = IF Seek(i, k, s) # None THEN Seek(i, k, s) ELSE Seek(E, k, s)
  BY <1>1, <1>5, SeekInParts
<1>7. i \cup E \in SUBSET Numbers
  BY <1>1
<1>8. Seek(m \cup (i \cup E), k, s) = IF Seek(m, k, s) # None THEN Seek(m, k, s) ELSE Seek(i \cup E, k, s)
  BY <1>5, <1>7, SeekInParts
<1>9. Held(m, i, v) = m \cup (i \cup E)
  BY DEF Held
<1> QED  BY <1>2, <1>6, <1>8, <1>9 DEF Lookup

\* x is the newest entry of k in E that is visible at s.
Newest(E, k, s, x) ==
  x \in E /\ Key(x) = k /\ x <= s /\ \A y \in E : Key(y) = k /\ y <= s => y <= x

\* What is shown of k: its newest entry, nothing if that is a deletion
Shown(E, k, s, x) ==
  \/ Newest(E, k, s, x) /\ ~hist[x].del
  \/ x = None /\ \A y : Newest(E, k, s, y) => hist[y].del

\* The view f shows the entries E as they were at sequence number s.
Shows(f, E, s) == f = [k \in Keys |-> f[k]] /\ \A k \in Keys : Shown(E, k, s, f[k])

LEMMA SeekShows ==
  ASSUME HistOK, NEW E \in SUBSET Numbers, NEW k, NEW s
  PROVE  Shown(E, k, s, ValueOf(Seek(E, k, s)))
<1> PICK e : e = Seek(E, k, s)
  OBVIOUS
<1>1. \/ e = None /\ \A x \in E : Key(x) = k => ~(x <= s)
      \/ /\ e \in E /\ e # None /\ Key(e) = k /\ e <= s
         /\ \A x \in E : Key(x) = k /\ x <= s => x <= e
  BY SeekFacts
<1>2. \A x \in Numbers : x \in Nat
  BY KeyOrder
<1>4. CASE e = None
  BY <1>1, <1>4 DEF ValueOf, Shown, Newest
<1>5. CASE e # None
  <2>1. \A y : Newest(E, k, s, y) => y = e
    BY <1>1, <1>2, <1>5 DEF Newest
  <2>2. Newest(E, k, s, e)
    BY <1>1, <1>5 DEF Newest
  <2>3. CASE hist[e].del
    BY <1>5, <2>1, <2>3 DEF ValueOf, Shown
  <2>4. CASE ~hist[e].del
    BY <1>5, <2>2, <2>4 DEF ValueOf, Shown
  <2> QED  BY <2>3, <2>4
<1> QED  BY <1>4, <1>5

\* Get's view, and that of an iterator, show what is held.
LEMMA ViewsShow ==
  ASSUME HistOK, NEW m \in SUBSET Numbers, NEW i \in SUBSET Numbers, NEW v, VersionOK(v),
         Sorted(m, i, v), NEW s \in Nat
  PROVE  /\ Shows(GetView(m, i, v, s), Held(m, i, v), s)
         /\ Shows(IteratorView(m, i, v, s), Held(m, i, v), s)
<1> PICK E : E = Held(m, i, v)
  OBVIOUS
<1>1. E \in SUBSET Numbers
  BY HeldFacts
<1>2. \A k : Lookup(m, i, v, k, s) = Seek(E, k, s)
  BY LookupIsSeek
<1>3. \A k : Shown(E, k, s, ValueOf(Seek(E, k, s)))
  BY <1>1, SeekShows
<1>4. GetView(m, i, v, s) = [k \in Keys |-> ValueOf(Seek(E, k, s))]
  BY <1>2 DEF GetView
<1>5. IteratorView(m, i, v, s) = [k \in Keys |-> ValueOf(Seek(E, k, s))]
  BY DEF IteratorView, Held, FileEntries
<1> QED  BY <1>3, <1>4, <1>5 DEF Shows


-----------------------------------------------------------------------------
(* A view that stays.                                                      *)

\* What was shown is shown in a longer history.
LEMMA SameShown ==
  ASSUME HistOK, HistGrows, NEW E \in SUBSET Numbers, NEW s, NEW f, Shows(f, E, s)
  PROVE  Shows(f, E, s)'
<1>1. \A a \in Numbers : hist'[a] = hist[a]
  BY DEF HistGrows
<1>2. ASSUME NEW k \in Keys PROVE Shown(E, k, s, f[k])'
  <2> PICK x : x = f[k]
    OBVIOUS
  <2>1. Shown(E, k, s, x)
    BY DEF Shows
  <2>2. \A y \in E : (Key(y) = k)' <=> Key(y) = k
    BY <1>1 DEF Key
  <2>3. \A y : Newest(E, k, s, y)' <=> Newest(E, k, s, y)
    BY <2>2 DEF Newest
  <2>4. \A y : Newest(E, k, s, y) => y \in E /\ hist'[y] = hist[y]
    BY <1>1 DEF Newest
  <2>5. Shown(E, k, s, x)'
    BY <2>1, <2>3, <2>4 DEF Shown
  <2> QED  BY <2>5
<1> QED  BY <1>2 DEF Shows

\* What a version holds whose files stay
LEMMA HeldStays ==
  ASSUME NEW m, NEW i, NEW v, Stays(AddLiveFiles({v}))
  PROVE  Held(m, i, v)' = Held(m, i, v)
<1>1. \A f \in AddLiveFiles({v}) : Entries(f)' = Entries(f)
  BY DEF Stays, Entries
<1>2. AddLiveFiles({v})' = AddLiveFiles({v})
  BY DEF AddLiveFiles, Levels
<1>3. FileEntries(v)' = FileEntries(v)
  BY <1>1, <1>2 DEF FileEntries
<1> QED  BY <1>3 DEF Held

\* A compaction hides what it does not write: there is a newer entry of the key
\* that the oldest snapshot sees already, or it is a deletion and nothing of the
\* key is left that is older.
Hidden(c) ==
  \A x \in InputSet(c) :
    \/ \E p \in Pending(c) : x \in Entries(p)
    \/ \E y \in InputSet(c) : Key(y) = Key(x) /\ y > x /\ y <= c.smallest_snapshot
    \/ /\ hist[x].del /\ IsBaseLevelForKey(c, Key(x))
       /\ \A p \in Pending(c) : \A y \in Entries(p) : Key(y) = Key(x) => y > x

\* The files that came after the compaction was chosen, below its output level,
\* share no key with its inputs.
LaterApart(v, c) ==
  \A l \in Levels : l > c.level + 1 =>
    \A g \in v[l] : g \notin c.version[l] =>
      \A f \in c.in0 \cup c.in1 : ShareNoKey(Entries(g), Entries(f))

\* Where an entry of the inputs is
LEMMA InputFile ==
  ASSUME NEW v, NEW c, c.in0 \in SUBSET v[c.level], c.in1 \in SUBSET v[c.level + 1], NEW x \in InputSet(c)
  PROVE  \E f : x \in Entries(f) /\ ((f \in c.in0 /\ f \in v[c.level]) \/ (f \in c.in1 /\ f \in v[c.level + 1]))
BY DEF InputSet

\* After a deletion that went, nothing of its key is left that is not newer.
LEMMA NothingBelow ==
  ASSUME HistOK, NEW v, VersionOK(v), NEW m \in SUBSET Numbers, NEW i \in SUBSET Numbers,
         Ordered(m, i, v), KeysApart(v),
         NEW c, CompactionOK(c), VersionOK(c.version), InOrder(v, c), LaterApart(v, c),
         NEW f, (f \in c.in0 /\ f \in v[c.level]) \/ (f \in c.in1 /\ f \in v[c.level + 1]),
         NEW x \in Entries(f), IsBaseLevelForKey(c, Key(x)),
         NEW n \in Levels, NEW g \in v[n], n = c.level => g \notin c.in0, n = c.level + 1 => g \notin c.in1,
         NEW y \in Entries(g), Key(y) = Key(x)
  PROVE  y > x
<1> PICK l : l = c.level
  OBVIOUS
<1>1. l \in Nat /\ l \in Levels /\ l + 1 \in Levels /\ n \in Nat
  BY VersionAssumption DEF CompactionOK, Levels
<1>2. FileOK(f) /\ FileOK(g)
  BY <1>1 DEF VersionOK, FilesOK
<1>3. CASE n < l
  <2>1. Newer(Entries(g), Entries(f))
    BY <1>1, <1>3 DEF Ordered
  <2> QED  BY <2>1 DEF Newer
<1>4. CASE n = l /\ f \in c.in0
  BY <1>4 DEF InOrder, Newer
<1>5. CASE n = l /\ f \in c.in1 /\ f \in v[l + 1]
  <2>1. Newer(Entries(g), Entries(f))
    BY <1>1, <1>5 DEF Ordered
  <2> QED  BY <2>1 DEF Newer
<1>6. CASE n = l + 1 /\ f \in c.in0
  <2>1. ShareNoKey(Entries(g), Entries(f))
    BY <1>1, <1>6 DEF InOrder
  <2> QED  BY <2>1 DEF ShareNoKey
<1>7. CASE n = l + 1 /\ f \in c.in1 /\ f \in v[l + 1]
  <2>1. f # g /\ l + 1 # 0
    BY <1>1, <1>7
  <2>2. ShareNoKey(Entries(g), Entries(f))
    BY <1>1, <1>7, <2>1 DEF KeysApart
  <2> QED  BY <2>2 DEF ShareNoKey
<1>8. CASE n > l + 1 /\ g \notin c.version[n]
  <2>1. ShareNoKey(Entries(g), Entries(f))
    BY <1>8 DEF LaterApart
  <2> QED  BY <2>1 DEF ShareNoKey
<1>9. CASE n > l + 1 /\ g \in c.version[n]
  <2>1. n \in (c.level + 2)..(kNumLevels - 1)
    BY <1>1, <1>9 DEF Levels
  <2>2. Outside(g, Key(x), Key(x))
    BY <1>9, <2>1 DEF IsBaseLevelForKey
  <2>3. Key(x) \in Nat
    BY <1>2, KeysWithin
  <2>4. (Key(x) # NULL /\ Key(y) < Key(x)) \/ (Key(x) # NULL /\ Key(x) < Key(y))
    BY <1>2, <2>2, <2>3, OutsideKeys
  <2> QED  BY <2>3, <2>4
<1>10. n < l \/ n = l \/ n = l + 1 \/ n > l + 1
  BY <1>1
<1> QED  BY <1>3, <1>4, <1>5, <1>6, <1>7, <1>8, <1>9, <1>10

\* The version w has the outputs P of a compaction in the place of its inputs.
Replaced(v, c, P, w) ==
  \A n \in Levels : \A g :
    g \in w[n] <=>
      \/ g \in v[n] /\ (n = c.level => g \notin c.in0) /\ (n = c.level + 1 => g \notin c.in1)
      \/ n = c.level + 1 /\ g \in P

\* The version with the outputs of a compaction in the place of its inputs shows
\* the same, to everybody who reads at its smallest_snapshot or later.
LEMMA InstalledShows ==
  ASSUME HistOK, NEW v, VersionOK(v), NEW m \in SUBSET Numbers, NEW i \in SUBSET Numbers,
         Ordered(m, i, v), KeysApart(v),
         NEW c, CompactionOK(c), InOrder(v, c), LaterApart(v, c), Hidden(c),
         NEW P, P = Pending(c), NEW w, VersionOK(w), Replaced(v, c, P, w),
         NEW s \in Nat, c.smallest_snapshot <= s, NEW f, Shows(f, Held(m, i, v), s)
  PROVE  Shows(f, Held(m, i, w), s)
<1> PICK E : E = Held(m, i, v)
  OBVIOUS
<1> PICK F : F = Held(m, i, w)
  OBVIOUS
<1> PICK low : low = c.smallest_snapshot
  OBVIOUS
<1>0. \A n \in Levels : \A g :
        g \in w[n] <=>
          \/ g \in v[n] /\ (n = c.level => g \notin c.in0) /\ (n = c.level + 1 => g \notin c.in1)
          \/ n = c.level + 1 /\ g \in P
  BY DEF Replaced
<1>1. /\ E \in SUBSET Numbers
      /\ \A e : e \in E <=> e \in m \/ e \in i \/ \E n \in Levels : \E g \in v[n] : e \in Entries(g)
  BY HeldFacts
<1>2. /\ F \in SUBSET Numbers
      /\ \A e : e \in F <=> e \in m \/ e \in i \/ \E n \in Levels : \E g \in w[n] : e \in Entries(g)
  BY HeldFacts
<1>3. c.level + 1 \in Levels /\ c.level \in Levels /\ low \in Nat
  <2>1. c.level \in 0..(kNumLevels - 2) /\ c.smallest_snapshot \in Nat
    BY DEF CompactionOK, Compactions
  <2> QED  BY <2>1, VersionAssumption DEF Levels
<1>4. c.in0 \in SUBSET v[c.level] /\ c.in1 \in SUBSET v[c.level + 1]
  BY DEF InOrder
<1>5. \A x \in InputSet(c) : x \in E
  BY <1>1, <1>3, <1>4, InputFile
<1>6. \A p \in P : \A e \in Entries(p) : e \in InputSet(c) /\ e \in F
  BY <1>0, <1>2, <1>3 DEF InOrder
<1>7. \A x \in Numbers : x \in Nat
  BY KeyOrder
<1>8. ASSUME NEW x \in F
      PROVE  \/ x \in m \cup i
             \/ \E p \in P : x \in Entries(p)
             \/ \E n \in Levels : \E g \in v[n] :
                  /\ x \in Entries(g)
                  /\ n = c.level => g \notin c.in0
                  /\ n = c.level + 1 => g \notin c.in1
  BY <1>0, <1>2
<1>9. F \in SUBSET E
  BY <1>1, <1>5, <1>6, <1>8
<1>10. ASSUME NEW x \in E, x \notin F PROVE x \in InputSet(c) /\ \A p \in P : x \notin Entries(p)
  <2>1. PICK n \in Levels : \E g \in v[n] : x \in Entries(g)
    BY <1>1, <1>2, <1>10
  <2> PICK g \in v[n] : x \in Entries(g)
    BY <2>1
  <2>2. (n = c.level /\ g \in c.in0) \/ (n = c.level + 1 /\ g \in c.in1)
    BY <1>0, <1>2, <1>10
  <2> QED  BY <1>6, <1>10, <2>2 DEF InputSet
<1>11. ASSUME NEW k \in Keys, NEW x, Newest(E, k, s, x), x \notin F
       PROVE  hist[x].del /\ \A y \in F : Key(y) = k => ~(y <= s)
  <2>1. x \in E /\ Key(x) = k /\ x <= s /\ \A y \in E : Key(y) = k /\ y <= s => y <= x
    BY <1>11 DEF Newest
  <2>2. x \in InputSet(c) /\ \A p \in P : x \notin Entries(p)
    BY <1>10, <1>11, <2>1
  <2>3. ~\E y \in InputSet(c) : Key(y) = Key(x) /\ y > x /\ y <= low
    BY <1>1, <1>3, <1>5, <1>7, <2>1
  <2>4. /\ hist[x].del /\ IsBaseLevelForKey(c, Key(x))
        /\ \A p \in P : \A y \in Entries(p) : Key(y) = Key(x) => y > x
    BY <2>2, <2>3 DEF Hidden
  <2>5. PICK g : x \in Entries(g) /\ ((g \in c.in0 /\ g \in v[c.level]) \/ (g \in c.in1 /\ g \in v[c.level + 1]))
    BY <1>4, <2>2, InputFile
  <2>6. ASSUME NEW y \in F, Key(y) = k PROVE y > x
    <3>1. CASE y \in m \cup i
      <4>1. g \in AddLiveFiles({v})
        BY <1>3, <2>5, LiveFiles
      <4> QED  BY <2>1, <2>5, <2>6, <3>1, <4>1 DEF Ordered, Newer
    <3>2. CASE \E p \in P : y \in Entries(p)
      BY <2>1, <2>4, <2>6, <3>2
    <3>3. CASE \E n \in Levels : \E h \in v[n] :
                 /\ y \in Entries(h)
                 /\ n = c.level => h \notin c.in0
                 /\ n = c.level + 1 => h \notin c.in1
      <4>1. VersionOK(c.version)
        BY DEF CompactionOK
      <4>2. Key(y) = Key(x)
        BY <2>1, <2>6
      <4>3. PICK n \in Levels : \E h \in v[n] :
                 /\ y \in Entries(h)
                 /\ n = c.level => h \notin c.in0
                 /\ n = c.level + 1 => h \notin c.in1
        BY <3>3
      <4>4. PICK h \in v[n] : /\ y \in Entries(h)
                              /\ n = c.level => h \notin c.in0
                              /\ n = c.level + 1 => h \notin c.in1
        BY <4>3
      <4> HIDE <1>11, <2>6
      <4> QED  BY <2>4, <2>5, <4>1, <4>2, <4>4, NothingBelow
    <3> QED  BY <1>8, <3>1, <3>2, <3>3
  <2>7. ASSUME NEW y \in F, Key(y) = k PROVE ~(y <= s)
    <3>1. y > x /\ y \in E /\ (y <= s => y <= x)
      BY <1>9, <2>1, <2>6, <2>7
    <3> QED  BY <1>1, <1>7, <2>1, <3>1
  <2> QED  BY <2>4, <2>7
<1>12. ASSUME NEW k \in Keys PROVE Shown(F, k, s, f[k])
  <2> PICK x : x = f[k]
    OBVIOUS
  <2>1. Shown(E, k, s, x)
    BY DEF Shows
  <2>2. CASE \E z : Newest(E, k, s, z) /\ z \notin F
    <3>1. PICK z : Newest(E, k, s, z) /\ z \notin F
      BY <2>2
    <3>2. hist[z].del /\ \A y \in F : Key(y) = k => ~(y <= s)
      BY <1>11, <3>1
    <3>3. \A y : Newest(E, k, s, y) => y = z
      BY <1>1, <1>7, <3>1 DEF Newest
    <3>4. x = None
      BY <2>1, <3>2, <3>3 DEF Shown
    <3> QED  BY <3>2, <3>4 DEF Shown, Newest
  <2>3. CASE \A z : Newest(E, k, s, z) => z \in F
    <3>1. \A z : Newest(E, k, s, z) => Newest(F, k, s, z)
      BY <1>9, <2>3 DEF Newest
    <3>2. CASE \E z : Newest(E, k, s, z)
      <4>1. PICK z : Newest(E, k, s, z) /\ Newest(F, k, s, z)
        BY <3>1, <3>2
      <4>2. \A y : Newest(E, k, s, y) \/ Newest(F, k, s, y) => y = z
        BY <1>1, <1>2, <1>7, <4>1 DEF Newest
      <4> QED  BY <2>1, <4>1, <4>2 DEF Shown
    <3>3. CASE ~\E z : Newest(E, k, s, z)
      <4>1. \A y \in E : Key(y) = k => ~(y <= s)
        <5> PICK e : e = Seek(E, k, s)
          OBVIOUS
        <5>1. \/ e = None /\ \A y \in E : Key(y) = k => ~(y <= s)
              \/ /\ e \in E /\ e # None /\ Key(e) = k /\ e <= s
                 /\ \A y \in E : Key(y) = k /\ y <= s => y <= e
          BY <1>1, SeekFacts
        <5> QED  BY <3>3, <5>1 DEF Newest
      <4>2. x = None
        BY <2>1, <3>3 DEF Shown
      <4> QED  BY <1>9, <4>1, <4>2 DEF Shown, Newest
    <3> QED  BY <3>2, <3>3
  <2> QED  BY <2>2, <2>3
<1> QED  BY <1>12 DEF Shows


-----------------------------------------------------------------------------
(* What a compaction hides.                                                *)

\* What DoCompactionWork drops is hidden.
LEMMA OutputsHide ==
  ASSUME HistOK, NEW c, CompactionOK(c), NEW outs, outs = CompactionOutputs(c), NEW x \in InputSet(c)
  PROVE  \/ \E p \in 1..Len(outs) : x \in outs[p]
         \/ \E y \in InputSet(c) : Key(y) = Key(x) /\ y > x /\ y <= c.smallest_snapshot
         \/ /\ hist[x].del /\ IsBaseLevelForKey(c, Key(x))
            /\ \A p \in 1..Len(outs) : \A y \in outs[p] : Key(y) = Key(x) => y > x
<1> PICK input : input = InputEntries(c)
  OBVIOUS
<1> PICK low : low = c.smallest_snapshot
  OBVIOUS
<1>1. /\ input \in Seq(Numbers) /\ Len(input) \in Nat /\ InputSet(c) \in SUBSET Numbers
      /\ \A i \in 1..Len(input) : input[i] \in InputSet(c)
      /\ \A i, j \in 1..Len(input) : i < j => ILess(input[i], input[j])
      /\ \A z \in InputSet(c) : \E i \in 1..Len(input) : input[i] = z
  BY MergedInput
<1>2. /\ \A p \in 1..Len(outs) : \A z \in outs[p] :
           \E j \in 1..Len(input) : z = input[j] /\ ~Dropped(c, input, j)
      /\ \A i \in 1..Len(input) : Dropped(c, input, i) \/ \E p \in 1..Len(outs) : input[i] \in outs[p]
  BY OutputStructure
<1>3. low \in Nat /\ \A z \in Numbers : z \in Nat /\ Key(z) \in Nat
  BY KeyOrder DEF CompactionOK, Compactions
<1>4. PICK i \in 1..Len(input) : input[i] = x
  BY <1>1
<1>5. SUFFICES ASSUME ~\E p \in 1..Len(outs) : x \in outs[p],
                      ~\E y \in InputSet(c) : Key(y) = Key(x) /\ y > x /\ y <= low
               PROVE  /\ hist[x].del /\ IsBaseLevelForKey(c, Key(x))
                      /\ \A p \in 1..Len(outs) : \A y \in outs[p] : Key(y) = Key(x) => y > x
  OBVIOUS
<1>6. Dropped(c, input, i)
  BY <1>2, <1>4, <1>5
<1>7. ~(i > 1 /\ Key(input[i - 1]) = Key(input[i]) /\ input[i - 1] <= low)
  <2> SUFFICES ASSUME i > 1, Key(input[i - 1]) = Key(input[i]), input[i - 1] <= low
               PROVE  FALSE
    OBVIOUS
  <2>1. i - 1 \in 1..Len(input) /\ i - 1 < i
    BY <1>1, <1>4
  <2>2. ILess(input[i - 1], input[i]) /\ input[i - 1] \in InputSet(c)
    BY <1>1, <1>4, <2>1
  <2>3. input[i - 1] > input[i]
    BY <1>1, <1>3, <1>4, <2>2 DEF ILess
  <2> QED  BY <1>4, <1>5, <2>2, <2>3
<1>8. hist[x].del /\ x <= low /\ IsBaseLevelForKey(c, Key(x))
  BY <1>4, <1>6, <1>7 DEF Dropped
<1>9. ASSUME NEW p \in 1..Len(outs), NEW y \in outs[p], Key(y) = Key(x), ~(y > x) PROVE FALSE
  <2>1. PICK j \in 1..Len(input) : y = input[j] /\ ~Dropped(c, input, j)
    BY <1>2
  <2>2. x \in Nat /\ y \in Nat /\ y # x /\ Key(x) \in Nat
    BY <1>1, <1>3, <1>5, <1>9, <2>1
  <2>3. y < x
    BY <1>9, <2>2
  <2>4. ILess(x, y) /\ ~ILess(y, x)
    BY <1>9, <2>2, <2>3 DEF ILess
  <2>5. i < j
    BY <1>1, <1>4, <2>1, <2>2, <2>4
  <2> PICK h : h = j - 1
    OBVIOUS
  <2>6. h \in 1..Len(input) /\ j > 1 /\ h < j /\ (h = i \/ i < h)
    BY <1>1, <1>4, <2>1, <2>5
  <2> PICK z : z = input[h]
    OBVIOUS
  <2>7. z \in InputSet(c) /\ ILess(z, y) /\ (z = x \/ ILess(x, z))
    BY <1>1, <1>4, <2>1, <2>6
  <2>8. z \in Nat /\ Key(z) \in Nat /\ Key(x) \in Nat /\ Key(y) \in Nat
    BY <1>1, <1>3, <2>1, <2>7
  <2>9. Key(z) = Key(y) /\ z <= x
    BY <1>9, <2>2, <2>7, <2>8 DEF ILess
  <2>10. z <= low
    BY <1>3, <1>8, <2>2, <2>8, <2>9
  <2>11. Dropped(c, input, j)
    BY <2>1, <2>6, <2>9, <2>10 DEF Dropped
  <2> QED  BY <2>1, <2>11
<1> QED  BY <1>8, <1>9

\* Whether a level below has the key does not change with the files that stay.
LEMMA SameBase ==
  ASSUME HistOK, HistGrows, NEW c, CompactionOK(c), Stays(AddLiveFiles({c.version})),
         NEW d, d.level = c.level, d.version = c.version, NEW k
  PROVE  IsBaseLevelForKey(d, k)' <=> IsBaseLevelForKey(c, k)
<1> PICK v : v = c.version
  OBVIOUS
<1> PICK n : n = c.level + 2
  OBVIOUS
<1>1. \A l \in n..(kNumLevels - 1) : l \in Levels
  BY DEF Levels, CompactionOK
<1>2. \A l \in Levels : \A f \in v[l] : f \in AddLiveFiles({v}) /\ FileOK(f)
  BY LiveFiles DEF CompactionOK, VersionOK, FilesOK
<1>3. ASSUME NEW f, FileOK(f), table'[f] = table[f] PROVE Outside(f, k, k)' <=> Outside(f, k, k)
  <2>1. Smallest(f) \in Numbers /\ Largest(f) \in Numbers
    BY <1>3 DEF FileOK
  <2>2. Smallest(f)' = Smallest(f) /\ Largest(f)' = Largest(f)
    BY <1>3 DEF Smallest, Largest
  <2>3. Key(Smallest(f))' = Key(Smallest(f)) /\ Key(Largest(f))' = Key(Largest(f))
    BY <2>1, <2>2 DEF Key, HistGrows
  <2> QED  BY <2>3 DEF Outside
<1>4. \A l \in n..(kNumLevels - 1) : \A f \in v[l] : Outside(f, k, k)' <=> Outside(f, k, k)
  BY <1>1, <1>2, <1>3 DEF Stays
<1> QED  BY <1>4 DEF IsBaseLevelForKey

\* What is hidden by some outputs is hidden by the files that hold them.
LEMMA HiddenBy ==
  ASSUME HistOK, HistGrows, NEW c, CompactionOK(c), Stays(AddLiveFiles({c.version})),
         NEW d, d.level = c.level, d.in0 = c.in0, d.in1 = c.in1, d.version = c.version,
         d.smallest_snapshot = c.smallest_snapshot,
         NEW O \in SUBSET (SUBSET Numbers),
         \A p \in Pending(d) : Entries(p)' \in O,
         \A o \in O : \E p \in Pending(d) : Entries(p)' = o,
         \A x \in InputSet(c) :
           \/ \E o \in O : x \in o
           \/ \E y \in InputSet(c) : Key(y) = Key(x) /\ y > x /\ y <= c.smallest_snapshot
           \/ /\ hist[x].del /\ IsBaseLevelForKey(c, Key(x))
              /\ \A o \in O : \A y \in o : Key(y) = Key(x) => y > x
  PROVE  Hidden(d)'
<1> PICK I : I = InputSet(c)
  OBVIOUS
<1> PICK P : P = Pending(d)
  OBVIOUS
<1>1. c.level \in Levels /\ c.level + 1 \in Levels
  BY VersionAssumption DEF CompactionOK, Levels
<1>2. \A f \in c.in0 \cup c.in1 : f \in AddLiveFiles({c.version}) /\ FileOK(f)
  BY <1>1, LiveFiles DEF CompactionOK, VersionOK, FilesOK
<1>3. \A f \in c.in0 \cup c.in1 : Entries(f)' = Entries(f) /\ Entries(f) \in SUBSET Numbers
  BY <1>2 DEF Stays, Entries, FileOK
<1>4. InputSet(d)' = I /\ I \in SUBSET Numbers
  BY <1>3 DEF InputSet
<1>5. \A x \in Numbers : Key(x)' = Key(x) /\ hist'[x] = hist[x]
  BY DEF Key, HistGrows
<1>6. \A k : IsBaseLevelForKey(d, k)' <=> IsBaseLevelForKey(c, k)
  BY SameBase
<1>7. Pending(d)' = P
  BY DEF Pending, NoJob
<1>8. ASSUME NEW x \in I
      PROVE  \/ \E p \in P : x \in Entries(p)'
             \/ \E y \in I : Key(y)' = Key(x)' /\ y > x /\ y <= d.smallest_snapshot
             \/ /\ hist'[x].del /\ IsBaseLevelForKey(d, Key(x))'
                /\ \A p \in P : \A y \in Entries(p)' : Key(y)' = Key(x)' => y > x
  <2>1. CASE \E o \in O : x \in o
    BY <2>1
  <2>2. CASE \E y \in I : Key(y) = Key(x) /\ y > x /\ y <= c.smallest_snapshot
    BY <1>4, <1>5, <2>2
  <2>3. CASE /\ hist[x].del /\ IsBaseLevelForKey(c, Key(x))
             /\ \A o \in O : \A y \in o : Key(y) = Key(x) => y > x
    <3> PICK k : k = Key(x)
      OBVIOUS
    <3>1. hist'[x].del /\ Key(x)' = k
      BY <1>4, <1>5, <2>3
    <3>2. IsBaseLevelForKey(d, k)'
      BY <1>6, <2>3
    <3>3. IsBaseLevelForKey(d, Key(x))'
      BY <3>1, <3>2 DEF IsBaseLevelForKey
    <3>4. ASSUME NEW p \in P, NEW y \in Entries(p)', Key(y)' = Key(x)' PROVE y > x
      <4>1. PICK o \in O : o = Entries(p)'
        OBVIOUS
      <4>2. y \in o /\ y \in Numbers
        BY <4>1
      <4> QED  BY <1>4, <1>5, <2>3, <3>4, <4>2
    <3> QED  BY <3>1, <3>3, <3>4
  <2> QED  BY <2>1, <2>2, <2>3
<1> QED  BY <1>4, <1>7, <1>8 DEF Hidden


-----------------------------------------------------------------------------
(* What a step leaves alone.                                               *)

\* t is the sequence s without its i-th element.
Without(s, t, i) ==
  /\ Len(s) \in Nat /\ Len(t) = Len(s) - 1
  /\ DOMAIN s = 1..Len(s) /\ DOMAIN t = 1..(Len(s) - 1)
  /\ \A j \in 1..(Len(s) - 1) : /\ t[j] = s[IF j < i THEN j ELSE j + 1]
                               /\ (IF j < i THEN j ELSE j + 1) \in DOMAIN s

LEMMA WithoutOne ==
  ASSUME NEW S, NEW s \in Seq(S), NEW i \in 1..Len(s),
         NEW t, t = SubSeq(s, 1, i - 1) \o SubSeq(s, i + 1, Len(s))
  PROVE  t \in Seq(S) /\ Without(s, t, i)
<1>0. PICK n, a, b : n = Len(s) /\ a = SubSeq(s, 1, i - 1) /\ b = SubSeq(s, i + 1, n)
  OBVIOUS
<1>1. n \in Nat /\ i \in 1..n /\ \A j \in 1..n : s[j] \in S
  BY <1>0, LenProperties, ElementOfSeq
<1>2. a \in Seq(S) /\ Len(a) = i - 1 /\ \A j \in 1..(i - 1) : a[j] = s[j]
  <2>1. \A j \in 1..(i - 1) : s[j] \in S
    BY <1>1
  <2>2. /\ SubSeq(s, 1, i - 1) \in Seq(S)
        /\ Len(SubSeq(s, 1, i - 1)) = IF 1 <= i - 1 THEN (i - 1) - 1 + 1 ELSE 0
        /\ \A j \in 1..((i - 1) - 1 + 1) : SubSeq(s, 1, i - 1)[j] = s[1 + j - 1]
    BY SMTT(30), <1>1, <2>1, SubSeqProperties
  <2> QED  BY <1>0, <1>1, <2>2
<1>3. b \in Seq(S) /\ Len(b) = n - i /\ \A j \in 1..(n - i) : b[j] = s[j + i]
  <2>1. \A j \in (i + 1)..n : s[j] \in S
    BY <1>1
  <2>2. /\ SubSeq(s, i + 1, n) \in Seq(S)
        /\ Len(SubSeq(s, i + 1, n)) = IF i + 1 <= n THEN n - (i + 1) + 1 ELSE 0
        /\ \A j \in 1..(n - (i + 1) + 1) : SubSeq(s, i + 1, n)[j] = s[(i + 1) + j - 1]
    BY SMTT(30), <1>1, <2>1, SubSeqProperties
  <2>3. n - (i + 1) + 1 = n - i /\ \A j \in Nat : (i + 1) + j - 1 = j + i
    BY <1>1
  <2>4. \A j \in 1..(n - i) : b[j] = s[j + i]
    BY <1>0, <2>2, <2>3
  <2> QED  BY <1>0, <1>1, <2>2, <2>3, <2>4
<1>4. /\ t \in Seq(S) /\ Len(t) = n - 1
      /\ \A j \in 1..(n - 1) : t[j] = IF j <= i - 1 THEN a[j] ELSE b[j - (i - 1)]
  <2>1. t = a \o b
    BY <1>0
  <2>2. /\ a \o b \in Seq(S) /\ Len(a \o b) = Len(a) + Len(b)
        /\ \A j \in 1..(Len(a) + Len(b)) : (a \o b)[j] = IF j <= Len(a) THEN a[j] ELSE b[j - Len(a)]
    BY <1>2, <1>3, ConcatProperties
  <2>3. Len(a) + Len(b) = n - 1
    BY <1>1, <1>2, <1>3
  <2>4. \A j \in 1..(n - 1) : t[j] = IF j <= i - 1 THEN a[j] ELSE b[j - (i - 1)]
    BY <1>2, <2>1, <2>2, <2>3
  <2> QED  BY <2>1, <2>2, <2>3, <2>4
<1>5. ASSUME NEW j \in 1..(n - 1) PROVE t[j] = s[IF j < i THEN j ELSE j + 1]
  <2>1. j \in Nat /\ j >= 1 /\ j <= n - 1
    BY <1>1
  <2>2. CASE j < i
    <3>1. j <= i - 1 /\ j \in 1..(i - 1)
      BY <1>1, <2>1, <2>2
    <3>2. t[j] = a[j]
      BY <1>4, <3>1
    <3> QED  BY <1>2, <2>2, <3>1, <3>2
  <2>3. CASE ~(j < i)
    <3>1. ~(j <= i - 1) /\ j - (i - 1) \in 1..(n - i) /\ (j - (i - 1)) + i = j + 1
      BY <1>1, <2>1, <2>3
    <3> QED  BY <1>3, <1>4, <2>3, <3>1
  <2> QED  BY <2>2, <2>3
<1>6. DOMAIN s = 1..n /\ DOMAIN t = 1..(n - 1)
  BY <1>0, <1>4, LenProperties
<1>7. \A j \in 1..(n - 1) : (IF j < i THEN j ELSE j + 1) \in 1..n
  BY <1>1
<1> QED  BY <1>0, <1>1, <1>4, <1>5, <1>6, <1>7 DEF Without

\* The steps of DBStore, with what they leave to the users
ViewKinds ==
  \/ \E k \in Keys, del \in Deletions : Write(k, del)
  \/ SwitchMemTable /\ UNCHANGED <<hist, table, current, job, snapshots, reader>>
  \/ CompactMemTable /\ UNCHANGED <<hist, mem, job, snapshots, reader>>
  \/ bg = "scheduled" /\ TrivialMove(Choice)
  \/ bg = "scheduled" /\ DoCompactionWork(Choice)
  \/ WriteOutputs
  \/ InstallCompactionResults
  \/ GetSnapshot
  \/ \E i \in DOMAIN snapshots : ReleaseSnapshot(i)
  \/ \E kind \in {"get", "iterator"} : StartRead(kind)
  \/ \E k \in Keys : FinishGet(k)
  \/ DeleteIterator
  \/ Quiet /\ UNCHANGED <<snapshots, reader>>

LEMMA QuietForUsers ==
  /\ \A c : NothingToDo(c) => UNCHANGED <<snapshots, reader>>
  /\ BackgroundError \/ NestedError => UNCHANGED <<snapshots, reader>>
  /\ \A e : RecordReadSample(e) => UNCHANGED <<snapshots, reader>>
  /\ \A range : CompactRange(range) => UNCHANGED <<snapshots, reader>>
  /\ Flushed \/ RequestCompaction \/ LevelDone => UNCHANGED <<snapshots, reader>>
  /\ UNCHANGED vars => UNCHANGED <<snapshots, reader>>
<1>1. /\ \A c : NothingToDo(c) => UNCHANGED <<snapshots, reader>>
      /\ BackgroundError \/ NestedError => UNCHANGED <<snapshots, reader>>
  BY DEF NothingToDo, BackgroundError, NestedError, users
<1>2. \A e : RecordReadSample(e) => UNCHANGED <<snapshots, reader>>
  BY DEF RecordReadSample, users
<1>3. /\ \A range : CompactRange(range) => UNCHANGED <<snapshots, reader>>
      /\ Flushed \/ RequestCompaction \/ LevelDone => UNCHANGED <<snapshots, reader>>
  BY DEF CompactRange, Flushed, RequestCompaction, LevelDone
<1>4. UNCHANGED vars => UNCHANGED <<snapshots, reader>>
  BY DEF vars, users
<1> QED  BY <1>1, <1>2, <1>3, <1>4

LEMMA StepViews ==
  ASSUME StoreInv, [Next]_vars
  PROVE  ViewKinds
<1>1. CASE Background
  <2>1. BackgroundCompaction => /\ bg = "scheduled"
                                /\ NothingToDo(Choice) \/ TrivialMove(Choice) \/ DoCompactionWork(Choice)
    BY DEF BackgroundCompaction
  <2>2. BackgroundFlush \/ NestedCompactMemTable =>
          CompactMemTable /\ UNCHANGED <<hist, mem, job, snapshots, reader>>
    BY DEF BackgroundFlush, NestedCompactMemTable, background, users
  <2> QED  BY <1>1, <2>1, <2>2, QuietSteps, QuietForUsers DEF Background, ViewKinds
<1>2. CASE UNCHANGED vars
  BY <1>2, QuietSteps, QuietForUsers DEF ViewKinds
<1>3. CASE Caller
  <2>1. ForceSwitch => \/ SwitchMemTable /\ UNCHANGED <<hist, table, current, job, snapshots, reader>>
                       \/ Quiet /\ UNCHANGED <<snapshots, reader>>
    BY DEF ForceSwitch, Quiet, storage
  <2> QED  BY <1>3, <2>1, QuietSteps, QuietForUsers DEF Caller, ViewKinds
<1>4. SwitchFull => SwitchMemTable /\ UNCHANGED <<hist, table, current, job, snapshots, reader>>
  BY DEF SwitchFull, storage, users
<1>5. CASE Next
  BY <1>1, <1>3, <1>4, <1>5, QuietSteps, QuietForUsers DEF Next, ViewKinds
<1> QED  BY <1>2, <1>5

\* The history only grows.
LEMMA HistSteps ==
  ASSUME StoreInv, [Next]_vars
  PROVE  HistGrows /\ (UNCHANGED hist \/ \E k \in Keys, del \in Deletions : Write(k, del))
<1>1. HistOK
  BY DEF StoreInv, EntriesOK
<1>2. UNCHANGED hist => HistGrows
  BY <1>1, SameHist
<1>3. \A k \in Keys, del \in Deletions : Write(k, del) => HistGrows
  BY WriteGrows
<1>4. \/ \E k \in Keys, del \in Deletions : Write(k, del)
      \/ UNCHANGED hist
  BY StepKinds DEF TrivialMove, DoCompactionWork, WriteOutputs, InstallCompactionResults, Quiet
<1> QED  BY <1>2, <1>3, <1>4

\* A table file is never written again.
LEMMA TableSteps ==
  ASSUME StoreInv, [Next]_vars, NEW f \in DOMAIN table, f \in DOMAIN table'
  PROVE  table'[f] = table[f]
<1>1. CASE UNCHANGED table
  BY <1>1
<1>2. CASE CompactMemTable /\ UNCHANGED <<hist, mem, job, snapshots, reader>>
  <2>1. PICK n, E : n = nextFile /\ E = imm[1]
    OBVIOUS
  <2>2. f # n
    BY <2>1 DEF StoreInv, DiskOK, FileOK
  <2>3. PICK disk, now, c, pending :
          /\ disk = IF E = {} THEN table ELSE [x \in DOMAIN table \cup {n} |->
                                                 IF x = n THEN TableOf(E) ELSE table[x]]
          /\ DeleteObsoleteFiles(disk, now, c, pending)
    BY <1>2, <2>1 DEF CompactMemTable
  <2>4. table'[f] = disk[f]
    BY <2>3, Kept
  <2>5. disk[f] = table[f]
    BY <2>2, <2>3
  <2> QED  BY <2>4, <2>5
<1>3. CASE WriteOutputs
  <2>1. PICK n, c, d, outs : n = nextFile /\ c = job /\ d = job' /\ outs = CompactionOutputs(c)
    OBVIOUS
  <2>2. Written(n, c, d, outs)
    BY <1>3, <2>1, WrittenFacts
  <2> QED  BY <2>2 DEF Written
<1>4. CASE InstallCompactionResults
  <2>1. PICK now, c, pending : DeleteObsoleteFiles(table, now, c, pending)
    BY <1>4 DEF InstallCompactionResults
  <2> QED  BY <2>1, Kept
<1>5. \/ UNCHANGED table
      \/ CompactMemTable /\ UNCHANGED <<hist, mem, job, snapshots, reader>>
      \/ WriteOutputs
      \/ InstallCompactionResults
  BY StepKinds DEF Write, storage, TrivialMove, DoCompactionWork, Quiet
<1> QED  BY <1>1, <1>2, <1>3, <1>4, <1>5

\* The files of a version that is still there stay.
LEMMA LiveStays ==
  ASSUME StoreInv, [Next]_vars, NEW v, VersionOK(v), VersionOK(v)'
  PROVE  Stays(AddLiveFiles({v}))
<1>1. \A f \in AddLiveFiles({v}) : f \in DOMAIN table
  BY OnDisk
<1>2. \A f \in AddLiveFiles({v}) : f \in DOMAIN table'
  BY LiveFiles DEF VersionOK, FilesOK, FileOK
<1> QED  BY <1>1, <1>2, TableSteps DEF Stays

\* How a compaction goes on
LEMMA JobSteps ==
  ASSUME StoreInv, [Next]_vars
  PROVE  \/ job' = NoJob
         \/ job' = job
         \/ bg = "scheduled" /\ DoCompactionWork(Choice)
         \/ WriteOutputs
BY StepKinds DEF Write, background, TrivialMove, InstallCompactionResults, Quiet

LEMMA WrittenSteps ==
  ASSUME StoreInv, [Next]_vars, bg' = "written"
  PROVE  WriteOutputs \/ (bg = "written" /\ job' = job)
<1>1. job # NoJob => bg \in {"merge", "written"}
  BY DEF StoreInv, JobOK
<1>2. StoreInv'
  BY StoreStep
<1>3. job' # NoJob
  BY <1>2 DEF StoreInv, JobOK
<1>4. CASE UNCHANGED vars
  BY <1>4 DEF vars, background
<1>5. MaybeScheduleCompaction => bg = "written" /\ bg # "scheduled"
  BY DEF MaybeScheduleCompaction
<1>6. ~BackgroundDone
  BY DEF BackgroundDone
<1>7. CASE Background
  <2>1. ~BackgroundFlush
    BY <1>6 DEF BackgroundFlush
  <2>2. ~BackgroundCompaction
    BY <1>6 DEF BackgroundCompaction, NothingToDo, TrivialMove, DoCompactionWork
  <2>3. NestedCompactMemTable => bg = "written" /\ job' = job
    BY DEF NestedCompactMemTable, background
  <2>4. ~InstallCompactionResults
    BY <1>3 DEF InstallCompactionResults
  <2> QED  BY <1>7, <2>1, <2>2, <2>3, <2>4 DEF Background
<1>8. CASE Caller
  BY <1>5, <1>8 DEF Caller, ForceSwitch, Flushed, RequestCompaction, LevelDone, background
<1>9. \A k, del : Write(k, del) => bg = "written" /\ job' = job
  BY DEF Write, background
<1>10. SwitchFull => bg = "written" /\ job' = job
  BY <1>5 DEF SwitchFull
<1>11. ~BackgroundError /\ (NestedError => bg = "written" /\ job' = job)
  BY DEF BackgroundError, NestedError
<1>12. GetSnapshot \/ (\E i : ReleaseSnapshot(i)) \/ (\E kind : StartRead(kind)) \/ DeleteIterator
         => bg = "written" /\ job' = job
  BY DEF GetSnapshot, ReleaseSnapshot, StartRead, DeleteIterator, background
<1>13. (\E k : FinishGet(k)) \/ (\E e : RecordReadSample(e)) => bg = "written" /\ job' = job
  BY <1>5 DEF FinishGet, RecordReadSample
<1>14. \A range : CompactRange(range) => bg = "written" /\ job' = job
  BY DEF CompactRange, background
<1>15. CASE Next
  BY <1>7, <1>8, <1>9, <1>10, <1>11, <1>12, <1>13, <1>14, <1>15 DEF Next
<1> QED  BY <1>4, <1>15

-----------------------------------------------------------------------------
(* Snapshots, the compaction and the reader.                               *)

\* Snapshots are listed from the oldest to the newest.
SnapInv == \A i, j \in DOMAIN snapshots : i <= j => snapshots[i] <= snapshots[j]

\* What a compaction may hide is hidden from no snapshot.
OldestInv ==
  job # NoJob => /\ job.smallest_snapshot <= LastSequence
                 /\ \A i \in DOMAIN snapshots : job.smallest_snapshot <= snapshots[i]

LaterInv == job # NoJob => LaterApart(current, job)
HiddenInv == bg = "written" => Hidden(job)

\* The reader has a version that is sorted, and memtables newer than that.
ReadInv ==
  reader.kind # "none" =>
    /\ reader.mem \in SUBSET Numbers /\ reader.imm \in SUBSET Numbers /\ reader.seq \in 0..Len(hist)
    /\ Sorted(reader.mem, reader.imm, reader.version)

ViewInv == SnapInv /\ OldestInv /\ LaterInv /\ HiddenInv /\ ReadInv

LEMMA SnapshotList ==
  ASSUME SnapshotsOK, HistOK
  PROVE  /\ Len(snapshots) \in Nat /\ DOMAIN snapshots = 1..Len(snapshots)
         /\ \A i \in DOMAIN snapshots : snapshots[i] \in 0..Len(hist) /\ snapshots[i] \in Nat
  BY LenProperties, ElementOfSeq, KeyOrder DEF SnapshotsOK, LastSequence

\* A new snapshot is the newest.
LEMMA OneMore ==
  ASSUME StoreInv, GetSnapshot
  PROVE  /\ Len(snapshots') = Len(snapshots) + 1 /\ DOMAIN snapshots' = 1..(Len(snapshots) + 1)
         /\ \A i \in DOMAIN snapshots : snapshots'[i] = snapshots[i]
         /\ snapshots'[Len(snapshots) + 1] = Len(hist)
<1>1. snapshots \in Seq(0..LastSequence) /\ LastSequence \in 0..LastSequence
  BY KeyOrder DEF StoreInv, SnapshotsOK, EntriesOK, LastSequence
<1>2. snapshots' = Append(snapshots, LastSequence)
  BY DEF GetSnapshot
<1> QED  BY <1>1, <1>2, AppendProperties DEF LastSequence

\* A released snapshot leaves the others in their order.
LEMMA OneLess ==
  ASSUME StoreInv, NEW i \in DOMAIN snapshots, ReleaseSnapshot(i)
  PROVE  Without(snapshots, snapshots', i)
<1>1. PICK s, t, S : s = snapshots /\ t = snapshots' /\ S = 0..LastSequence
  OBVIOUS
<1>2. SnapshotsOK /\ HistOK
  BY DEF StoreInv, EntriesOK
<1>3. i \in 1..Len(s)
  BY <1>1, <1>2, SnapshotList
<1>4. s \in Seq(S) /\ t = SubSeq(s, 1, i - 1) \o SubSeq(s, i + 1, Len(s))
  BY <1>1, <1>2 DEF SnapshotsOK, ReleaseSnapshot
<1>5. Without(s, t, i)
  BY <1>3, <1>4, WithoutOne
<1> QED  BY <1>1, <1>5

LEMMA SnapStep ==
  ASSUME StoreInv, SnapInv, [Next]_vars
  PROVE  SnapInv'
<1>1. SnapshotsOK /\ HistOK
  BY DEF StoreInv, EntriesOK
<1>2. PICK n \in Nat : n = Len(snapshots) /\ DOMAIN snapshots = 1..n
  BY <1>1, SnapshotList
<1>3. \A i \in 1..n : snapshots[i] <= Len(hist) /\ snapshots[i] \in Nat /\ Len(hist) \in Nat
  BY <1>1, <1>2, SnapshotList, KeyOrder
<1>4. CASE UNCHANGED snapshots
  BY <1>4 DEF SnapInv
<1>5. CASE GetSnapshot
  <2>1. /\ DOMAIN snapshots' = 1..(n + 1)
        /\ \A i \in 1..n : snapshots'[i] = snapshots[i]
        /\ snapshots'[n + 1] = Len(hist)
    BY <1>2, <1>5, OneMore
  <2>2. ASSUME NEW i \in 1..(n + 1), NEW j \in 1..(n + 1), i <= j PROVE snapshots'[i] <= snapshots'[j]
    <3>1. CASE j \in 1..n
      <4>1. i \in 1..n
        BY <2>2, <3>1
      <4> QED  BY <1>2, <2>1, <2>2, <3>1, <4>1 DEF SnapInv
    <3>2. CASE j = n + 1 /\ i \in 1..n
      BY <1>3, <2>1, <3>2
    <3>3. CASE j = n + 1 /\ i = n + 1
      BY <1>1, <2>1, <3>3, KeyOrder
    <3> QED  BY <3>1, <3>2, <3>3
  <2> QED  BY <2>1, <2>2 DEF SnapInv
<1>6. ASSUME NEW i \in DOMAIN snapshots, ReleaseSnapshot(i) PROVE SnapInv'
  <2>1. /\ DOMAIN snapshots' = 1..(n - 1)
        /\ \A j \in 1..(n - 1) : /\ snapshots'[j] = snapshots[IF j < i THEN j ELSE j + 1]
                                 /\ (IF j < i THEN j ELSE j + 1) \in DOMAIN snapshots
    BY <1>2, <1>6, OneLess DEF Without
  <2>2. ASSUME NEW g \in 1..(n - 1), NEW h \in 1..(n - 1), g <= h PROVE snapshots'[g] <= snapshots'[h]
    <3>1. PICK x, y : x = (IF g < i THEN g ELSE g + 1) /\ y = (IF h < i THEN h ELSE h + 1)
      OBVIOUS
    <3>2. x \in DOMAIN snapshots /\ y \in DOMAIN snapshots /\ snapshots'[g] = snapshots[x] /\ snapshots'[h] = snapshots[y]
      BY <2>1, <3>1
    <3>3. i \in Nat /\ g \in Nat /\ h \in Nat
      BY <1>2
    <3>4. x <= y
      BY <2>2, <3>1, <3>3
    <3> QED  BY <3>2, <3>4 DEF SnapInv
  <2> QED  BY <2>1, <2>2 DEF SnapInv
<1>7. \/ UNCHANGED snapshots \/ GetSnapshot \/ \E i \in DOMAIN snapshots : ReleaseSnapshot(i)
  BY StepViews DEF ViewKinds, Write, users, TrivialMove, DoCompactionWork, WriteOutputs,
                   InstallCompactionResults, StartRead, FinishGet, DeleteIterator
<1> QED  BY <1>4, <1>5, <1>6, <1>7

\* The snapshots of a step: those there were, or a new one at the end of the history
LEMMA SnapshotSteps ==
  ASSUME StoreInv, [Next]_vars, NEW i \in DOMAIN snapshots'
  PROVE  (\E j \in DOMAIN snapshots : snapshots'[i] = snapshots[j]) \/ snapshots'[i] = Len(hist)
<1>1. SnapshotsOK /\ HistOK
  BY DEF StoreInv, EntriesOK
<1>2. PICK n \in Nat : n = Len(snapshots) /\ DOMAIN snapshots = 1..n
  BY <1>1, SnapshotList
<1>3. CASE UNCHANGED snapshots
  BY <1>3
<1>4. CASE GetSnapshot
  <2>1. /\ DOMAIN snapshots' = 1..(n + 1)
        /\ \A j \in 1..n : snapshots'[j] = snapshots[j]
        /\ snapshots'[n + 1] = Len(hist)
    BY <1>2, <1>4, OneMore
  <2>2. i \in 1..n \/ i = n + 1
    BY <2>1
  <2> QED  BY <1>2, <2>1, <2>2
<1>5. ASSUME NEW j \in DOMAIN snapshots, ReleaseSnapshot(j)
      PROVE  \E h \in DOMAIN snapshots : snapshots'[i] = snapshots[h]
  BY <1>5, OneLess DEF Without
<1>6. \/ UNCHANGED snapshots \/ GetSnapshot \/ \E j \in DOMAIN snapshots : ReleaseSnapshot(j)
  BY StepViews DEF ViewKinds, Write, users, TrivialMove, DoCompactionWork, WriteOutputs,
                   InstallCompactionResults, StartRead, FinishGet, DeleteIterator
<1> QED  BY <1>3, <1>4, <1>5, <1>6

LEMMA OldestStep ==
  ASSUME StoreInv, SnapInv, OldestInv, [Next]_vars
  PROVE  OldestInv'
<1>1. SnapshotsOK /\ HistOK
  BY DEF StoreInv, EntriesOK
<1>2. PICK n \in Nat : n = Len(snapshots) /\ DOMAIN snapshots = 1..n
  BY <1>1, SnapshotList
<1>3. /\ Len(hist) \in Nat /\ \A i \in 1..n : snapshots[i] <= Len(hist) /\ snapshots[i] \in Nat
  BY <1>1, <1>2, SnapshotList, KeyOrder
<1>4. CASE job' = NoJob
  BY <1>4 DEF OldestInv
<1>5. CASE job' # NoJob /\ job' = job
  <2>1. PICK low : low = job.smallest_snapshot
    OBVIOUS
  <2>2. low \in Nat
    BY <1>5, <2>1 DEF StoreInv, JobOK, CompactionOK, Compactions
  <2>3. low <= Len(hist) /\ \A i \in DOMAIN snapshots : low <= snapshots[i]
    BY <1>5, <2>1 DEF OldestInv, LastSequence
  <2>4. Len(hist') \in Nat /\ Len(hist) <= Len(hist')
    BY HistSteps, LenProperties DEF HistGrows, HistOK
  <2>5. \A i \in DOMAIN snapshots' : low <= snapshots'[i]
    BY <2>3, SnapshotSteps
  <2>6. low <= LastSequence'
    BY <1>3, <2>2, <2>3, <2>4 DEF LastSequence
  <2> QED  BY <1>5, <2>1, <2>5, <2>6 DEF OldestInv
<1>6. CASE bg = "scheduled" /\ DoCompactionWork(Choice)
  <2>1. PICK low : low = IF snapshots = <<>> THEN LastSequence ELSE snapshots[1]
    OBVIOUS
  <2>2. CompactionOK(Choice)
    BY <1>6, ChoiceFacts DEF DoCompactionWork
  <2>3. job'.smallest_snapshot = low /\ UNCHANGED <<hist, snapshots>>
    BY <1>6, <2>1, <2>2 DEF DoCompactionWork, users, CompactionOK, Compactions
  <2>4. snapshots = <<>> <=> n = 0
    BY <1>1, <1>2, LenProperties DEF SnapshotsOK
  <2>5. \A i \in 1..n : n # 0 /\ 1 \in 1..n /\ 1 <= i
    OBVIOUS
  <2>6. \A i \in DOMAIN snapshots : low <= snapshots[i]
    BY <1>2, <2>1, <2>4, <2>5 DEF SnapInv
  <2>7. low <= LastSequence
    <3>1. CASE n = 0
      BY <1>3, <2>1, <2>4, <3>1 DEF LastSequence
    <3>2. CASE n # 0
      <4>1. 1 \in 1..n
        BY <3>2
      <4> QED  BY <1>3, <2>1, <2>4, <3>2, <4>1 DEF LastSequence
    <3> QED  BY <3>1, <3>2
  <2>8. LastSequence' = LastSequence
    BY <2>3 DEF LastSequence
  <2> QED  BY <2>3, <2>6, <2>7, <2>8 DEF OldestInv
<1>7. CASE WriteOutputs
  <2>1. PICK m, c, d, outs : m = nextFile /\ c = job /\ d = job' /\ outs = CompactionOutputs(c)
    OBVIOUS
  <2>2. Written(m, c, d, outs)
    BY <1>7, <2>1, WrittenFacts
  <2>3. job # NoJob /\ job'.smallest_snapshot = job.smallest_snapshot
    BY <2>1, <2>2 DEF Written
  <2>4. LastSequence' = LastSequence /\ snapshots' = snapshots
    BY <1>7 DEF WriteOutputs, LastSequence, users
  <2> QED  BY <2>3, <2>4 DEF OldestInv
<1> QED  BY <1>4, <1>5, <1>6, <1>7, JobSteps

\* The files that stay are apart from the inputs as they were.
LEMMA LaterStays ==
  ASSUME HistOK, HistGrows, NEW v, VersionOK(v), Stays(AddLiveFiles({v})),
         NEW c, CompactionOK(c), InOrder(v, c), LaterApart(v, c)
  PROVE  LaterApart(v, c)'
<1>1. c.level \in Levels /\ c.level + 1 \in Levels
  BY VersionAssumption DEF CompactionOK, Levels
<1>2. \A l \in Levels : \A g \in v[l] : FileOK(g) /\ table'[g] = table[g]
  BY LiveFiles DEF VersionOK, FilesOK, Stays
<1>3. \A f \in c.in0 \cup c.in1 : FileOK(f) /\ table'[f] = table[f]
  BY <1>1, <1>2 DEF InOrder
<1>4. \A l \in Levels : \A g \in v[l] : \A f \in c.in0 \cup c.in1 :
        ShareNoKey(Entries(g), Entries(f)) => ShareNoKey(Entries(g), Entries(f))'
  BY <1>2, <1>3, SameFiles
<1> QED  BY <1>4 DEF LaterApart, Levels

\* A flush goes past a level only when nothing in it overlaps.
LEMMA FlushKeepsLater ==
  ASSUME StoreInv, OrderInv, LaterInv, CompactMemTable, UNCHANGED <<hist, mem, job>>
  PROVE  LaterInv'
<1>1. SUFFICES ASSUME job # NoJob PROVE LaterInv'
  BY DEF LaterInv
<1>2. PICK v, w, c : v = current /\ w = current' /\ c = job
  OBVIOUS
<1>3. /\ HistOK /\ HistGrows /\ VersionOK(v) /\ CompactionOK(c) /\ InOrder(v, c) /\ LaterApart(v, c)
  BY <1>1, <1>2, SameHist DEF StoreInv, EntriesOK, CurrentOK, JobOK, OrderInv, LaterInv
<1>4. Stays(AddLiveFiles({v})) /\ \E E \in SUBSET Numbers, f \in Nat : imm = <<E>> /\ f = nextFile /\ FlushedTo(E, f)
  BY <1>2, FlushFacts
<1>5. LaterApart(v, c)'
  BY <1>3, <1>4, LaterStays
<1>6. HistOK'
  BY <1>3 DEF HistGrows
<1>7. PICK E \in SUBSET Numbers, f \in Nat : FlushedTo(E, f)
  BY <1>4
<1>8. CASE w = v
  BY <1>1, <1>2, <1>5, <1>8 DEF LaterInv
<1>9. CASE w # v
  <2>1. /\ FileOK(f)'
        /\ \E l \in Levels : /\ w = [v EXCEPT ![l] = @ \cup {f}]
                             /\ l > 0 => \A n \in 0..l : \A g \in v[n] : Apart(f, g)'
    BY <1>2, <1>7, <1>9 DEF FlushedTo
  <2>2. PICK l \in Levels : /\ w = [v EXCEPT ![l] = @ \cup {f}]
                            /\ l > 0 => \A n \in 0..l : \A g \in v[n] : Apart(f, g)'
    BY <2>1
  <2>3. c.level \in Levels /\ c.level + 1 \in Levels /\ c.level \in Nat /\ l \in Nat
    BY <1>3, VersionAssumption DEF CompactionOK, Levels
  <2>4. \A n \in Levels : \A g \in w[n] : g \in v[n] \/ (n = l /\ g = f)
    BY <2>2 DEF VersionOK, CurrentOK, StoreInv
  <2>5. \A n \in Levels : \A g \in v[n] : FileOK(g)'
    <3>1. VersionOK(v)'
      BY <1>3, <1>4, VersionStays
    <3> QED  BY <3>1 DEF VersionOK, FilesOK, Levels
  <2>6. ASSUME l > c.level + 1, NEW g \in c.in0 \cup c.in1
        PROVE  ShareNoKey(Entries(f), Entries(g))'
    <3>1. \E n \in 0..l : n \in Levels /\ g \in v[n]
      BY <1>3, <2>3, <2>6 DEF InOrder
    <3>2. Apart(f, g)' /\ FileOK(g)'
      BY <2>2, <2>3, <2>5, <2>6, <3>1
    <3> QED  BY <1>6, <2>1, <3>2, ApartShareNoKeyNext
  <2>7. LaterApart(w, c)'
    BY <1>5, <2>4, <2>6 DEF LaterApart, Levels
  <2> QED  BY <1>2, <2>7 DEF LaterInv
<1> QED  BY <1>8, <1>9

LEMMA LaterStep ==
  ASSUME StoreInv, OrderInv, LaterInv, [Next]_vars
  PROVE  LaterInv'
<1>1. StoreInv' /\ HistGrows
  BY StoreStep, HistSteps
<1>2. PICK v, c : v = current /\ c = job
  OBVIOUS
<1>3. HistOK /\ VersionOK(v)
  BY <1>2 DEF StoreInv, EntriesOK, CurrentOK
<1>4. ASSUME current' = current PROVE Stays(AddLiveFiles({v}))
  <2>1. VersionOK(current)'
    BY <1>1 DEF StoreInv, CurrentOK
  <2>2. VersionOK(v)'
    BY <1>2, <1>4, <2>1
  <2> QED  BY <1>3, <2>2, LiveStays
<1>5. ASSUME current' = current, job # NoJob PROVE LaterApart(v, c)'
  <2>1. CompactionOK(c) /\ InOrder(v, c) /\ LaterApart(v, c)
    BY <1>2, <1>5 DEF StoreInv, JobOK, OrderInv, LaterInv
  <2> QED  BY <1>1, <1>3, <1>4, <1>5, <2>1, LaterStays
<1>6. CASE current' = current /\ job' = job
  BY <1>2, <1>5, <1>6 DEF LaterInv
<1>7. CASE job' = NoJob
  BY <1>7 DEF LaterInv
<1>8. CASE CompactMemTable /\ UNCHANGED <<hist, mem, job, snapshots, reader>>
  BY <1>8, FlushKeepsLater
<1>9. CASE bg = "scheduled" /\ TrivialMove(Choice)
  BY <1>7, <1>9 DEF TrivialMove, StoreInv, JobOK
<1>10. CASE bg = "scheduled" /\ DoCompactionWork(Choice)
  <2>1. CompactionOK(Choice) /\ Choice.version = current
    BY <1>10, ChoiceFacts DEF DoCompactionWork
  <2>2. current' = current /\ job'.version = current
    BY <1>10, <2>1 DEF DoCompactionWork, CompactionOK, Compactions
  <2> QED  BY <2>2 DEF LaterInv, LaterApart
<1>11. CASE WriteOutputs
  <2>1. PICK n, d, outs : n = nextFile /\ d = job' /\ outs = CompactionOutputs(c)
    OBVIOUS
  <2>2. Written(n, c, d, outs)
    BY <1>2, <1>11, <2>1, WrittenFacts
  <2>3. d.level = c.level /\ d.in0 = c.in0 /\ d.in1 = c.in1 /\ d.version = c.version
    BY <2>2 DEF Written
  <2>4. current' = v /\ LaterApart(v, c)'
    BY <1>2, <1>5, <1>11, <2>2 DEF WriteOutputs, Written
  <2>5. LaterApart(v, d)'
    BY <2>3, <2>4 DEF LaterApart
  <2> QED  BY <2>1, <2>4, <2>5 DEF LaterInv
<1>12. \/ current' = current /\ job' = job
       \/ job' = NoJob
       \/ CompactMemTable /\ UNCHANGED <<hist, mem, job, snapshots, reader>>
       \/ bg = "scheduled" /\ TrivialMove(Choice)
       \/ bg = "scheduled" /\ DoCompactionWork(Choice)
       \/ WriteOutputs
  BY StepKinds DEF Write, storage, background, InstallCompactionResults, Quiet
<1> QED  BY <1>6, <1>7, <1>8, <1>9, <1>10, <1>11, <1>12

\* The files of the version that a compaction works on stay until it ends.
LEMMA JobFilesStay ==
  ASSUME StoreInv, [Next]_vars, NEW c, c = job, c # NoJob, job' # NoJob, job'.version = c.version
  PROVE  Stays(AddLiveFiles({c.version}))
<1>1. StoreInv' /\ VersionOK(c.version)
  BY StoreStep DEF StoreInv, JobOK, CompactionOK
<1>2. PICK u : u = c.version
  OBVIOUS
<1>3. VersionOK(u)'
  <2>1. CompactionOK(job)'
    BY <1>1 DEF StoreInv, JobOK
  <2>2. VersionOK(job.version)'
    BY <2>1 DEF CompactionOK
  <2> QED  BY <1>2, <2>2
<1> QED  BY <1>1, <1>2, <1>3, LiveStays

\* What the outputs hide stays hidden.
LEMMA HiddenStep ==
  ASSUME StoreInv, HiddenInv, [Next]_vars
  PROVE  HiddenInv'
<1>1. SUFFICES ASSUME bg' = "written" PROVE Hidden(job)'
  BY DEF HiddenInv
<1>2. StoreInv' /\ HistGrows /\ HistOK
  BY StoreStep, HistSteps DEF StoreInv, EntriesOK
<1>3. job' # NoJob
  BY <1>1, <1>2 DEF StoreInv, JobOK
<1>4. PICK c, d : c = job /\ d = job'
  OBVIOUS
<1>5. CASE bg = "written" /\ job' = job
  <2>1. CompactionOK(c) /\ Hidden(c) /\ Pending(c) \in SUBSET DOMAIN table
    BY <1>3, <1>4, <1>5 DEF StoreInv, JobOK, HiddenInv
  <2>2. Stays(AddLiveFiles({c.version}))
    BY <1>3, <1>4, <1>5, JobFilesStay
  <2>3. \A p \in Pending(c) : Entries(p)' = Entries(p) /\ Entries(p) \in SUBSET Numbers
    <3>1. Pending(c) \in SUBSET DOMAIN table'
      <4>1. (Pending(job) \in SUBSET DOMAIN table)'
        BY <1>2, <1>3 DEF StoreInv, JobOK
      <4>2. Pending(job)' = Pending(c)
        BY <1>4, <1>5 DEF Pending
      <4> QED  BY <4>1, <4>2
    <3>2. \A p \in Pending(c) : FileOK(p)
      BY <2>1 DEF StoreInv, DiskOK
    <3> QED  BY <2>1, <3>1, <3>2, TableSteps DEF Entries, FileOK
  <2>4. PICK O : O = {Entries(p) : p \in Pending(c)}
    OBVIOUS
  <2>5. /\ O \in SUBSET (SUBSET Numbers)
        /\ \A p \in Pending(c) : Entries(p)' \in O
        /\ \A o \in O : \E p \in Pending(c) : Entries(p)' = o
    BY <2>3, <2>4
  <2>6. ASSUME NEW x \in InputSet(c)
        PROVE  \/ \E o \in O : x \in o
               \/ \E y \in InputSet(c) : Key(y) = Key(x) /\ y > x /\ y <= c.smallest_snapshot
               \/ /\ hist[x].del /\ IsBaseLevelForKey(c, Key(x))
                  /\ \A o \in O : \A y \in o : Key(y) = Key(x) => y > x
    BY <2>1, <2>4 DEF Hidden
  <2>7. Hidden(c)'
    BY SMTT(30), <1>2, <2>1, <2>2, <2>5, <2>6, HiddenBy
  <2> QED  BY <1>4, <1>5, <2>7
<1>6. CASE WriteOutputs
  <2>1. PICK n, outs : n = nextFile /\ outs = CompactionOutputs(c)
    OBVIOUS
  <2>2. Written(n, c, d, outs)
    BY <1>4, <1>6, <2>1, WrittenFacts
  <2>3. /\ CompactionOK(c) /\ c # NoJob /\ d # NoJob
        /\ d.level = c.level /\ d.in0 = c.in0 /\ d.in1 = c.in1
        /\ d.version = c.version /\ d.smallest_snapshot = c.smallest_snapshot
        /\ outs \in Seq((SUBSET Numbers) \ {{}})
    BY <2>2 DEF Written
  <2>4. Stays(AddLiveFiles({c.version}))
    BY <1>4, <2>3, JobFilesStay
  <2>5. PICK O : O = {outs[p] : p \in 1..Len(outs)}
    OBVIOUS
  <2>6. O \in SUBSET (SUBSET Numbers)
    BY <2>3, <2>5, LenProperties, ElementOfSeq
  <2>7. \A p \in Pending(d) : Entries(p)' \in O
    <3>1. \A p \in Pending(d) : \E q \in 1..Len(outs) : Entries(p)' = outs[q]
      BY <2>2, WrittenTables
    <3> QED  BY <2>5, <3>1
  <2>8. \A o \in O : \E p \in Pending(d) : Entries(p)' = o
    <3>1. \A q \in 1..Len(outs) : \E p \in Pending(d) : Entries(p)' = outs[q]
      BY <2>2, WrittenTables
    <3> QED  BY <2>5, <3>1
  <2>9. ASSUME NEW x \in InputSet(c)
        PROVE  \/ \E o \in O : x \in o
               \/ \E y \in InputSet(c) : Key(y) = Key(x) /\ y > x /\ y <= c.smallest_snapshot
               \/ /\ hist[x].del /\ IsBaseLevelForKey(c, Key(x))
                  /\ \A o \in O : \A y \in o : Key(y) = Key(x) => y > x
    <3>1. \/ \E p \in 1..Len(outs) : x \in outs[p]
          \/ \E y \in InputSet(c) : Key(y) = Key(x) /\ y > x /\ y <= c.smallest_snapshot
          \/ /\ hist[x].del /\ IsBaseLevelForKey(c, Key(x))
             /\ \A p \in 1..Len(outs) : \A y \in outs[p] : Key(y) = Key(x) => y > x
      BY <1>2, <2>1, <2>3, OutputsHide
    <3> QED  BY <2>5, <3>1
  <2>10. Hidden(d)'
    BY <1>2, <2>3, <2>4, <2>6, <2>7, <2>8, <2>9, HiddenBy
  <2> QED  BY <1>4, <2>10
<1> QED  BY <1>1, <1>5, <1>6, WrittenSteps

\* What a reader has stays sorted.
LEMMA ReadStep ==
  ASSUME StoreInv, OrderInv, DisjointInv, ReadInv, [Next]_vars
  PROVE  ReadInv'
<1>1. StoreInv' /\ HistGrows /\ HistOK
  BY StoreStep, HistSteps DEF StoreInv, EntriesOK
<1>2. PICK r : r = reader
  OBVIOUS
<1>3. CASE reader' = reader /\ reader.kind # "none"
  <2>1. PICK m, i, v, s : m = r.mem /\ i = r.imm /\ v = r.version /\ s = r.seq
    OBVIOUS
  <2>2. m \in SUBSET Numbers /\ i \in SUBSET Numbers /\ s \in 0..Len(hist) /\ Sorted(m, i, v)
    BY <1>2, <1>3, <2>1 DEF ReadInv
  <2>3. VersionOK(v) /\ VersionOK(v)'
    <3>1. VersionOK(reader.version) /\ VersionOK(reader.version)'
      BY <1>1, <1>3 DEF StoreInv, ReaderOK
    <3> QED  BY <1>2, <1>3, <2>1, <3>1
  <2>4. Stays(AddLiveFiles({v}))
    BY <2>3, LiveStays
  <2>5. Ordered(m, i, v)' /\ KeysApart(v)'
    BY <1>1, <2>2, <2>3, <2>4, OrderStays DEF Sorted
  <2>6. FilesDisjoint(v)'
    BY <1>1, <2>2, <2>3, <2>4, DisjointStays DEF Sorted
  <2>7. m \in SUBSET Numbers' /\ i \in SUBSET Numbers' /\ s \in 0..Len(hist')
    <3>1. Len(hist') \in Nat /\ Len(hist) \in Nat /\ Len(hist) <= Len(hist')
      BY <1>1, LenProperties DEF HistGrows, HistOK
    <3> QED  BY <2>2, <3>1 DEF Numbers
  <2> QED  BY <1>2, <1>3, <2>1, <2>5, <2>6, <2>7 DEF ReadInv, Sorted
<1>4. CASE reader'.kind = "none"
  BY <1>4 DEF ReadInv
<1>5. ASSUME NEW kind \in {"get", "iterator"}, StartRead(kind)
      PROVE  ReadInv'
  <2>1. PICK m, i, v : m = mem /\ i = ImmEntries /\ v = current
    OBVIOUS
  <2>2. UNCHANGED <<hist, table>>
    BY <1>5 DEF StartRead, storage
  <2>3. m \in SUBSET Numbers /\ i \in SUBSET Numbers /\ Ordered(m, i, v) /\ KeysApart(v) /\ FilesDisjoint(v)
    BY <2>1 DEF StoreInv, EntriesOK, ImmEntries, OrderInv, DisjointInv
  <2>4. PICK s \in ReadPoints : reader' = [kind |-> kind, seq |-> s, mem |-> m, imm |-> i, version |-> v]
    BY <1>5, <2>1 DEF StartRead
  <2>5. s \in 0..Len(hist)
    <3>1. SnapshotsOK
      BY DEF StoreInv
    <3>2. Len(hist) \in 0..Len(hist)
      BY <1>1, KeyOrder
    <3> QED  BY <1>1, <3>1, <3>2, SnapshotList DEF ReadPoints, LastSequence
  <2>6. /\ reader'.mem = m /\ reader'.imm = i /\ reader'.version = v /\ reader'.seq = s
    BY <2>4
  <2>7. Ordered(m, i, v)' /\ KeysApart(v)' /\ FilesDisjoint(v)'
    BY <2>2, <2>3, SameOrder, SameDisjoint
  <2>8. m \in SUBSET Numbers' /\ i \in SUBSET Numbers' /\ s \in 0..Len(hist')
    BY <2>2, <2>3, <2>5 DEF Numbers
  <2> QED  BY <2>6, <2>7, <2>8 DEF ReadInv, Sorted
<1>6. \/ reader' = reader
      \/ reader'.kind = "none"
      \/ \E kind \in {"get", "iterator"} : StartRead(kind)
  <2>1. \A k : FinishGet(k) => reader'.kind = "none"
    BY DEF FinishGet, NoReader
  <2>2. DeleteIterator => reader'.kind = "none"
    BY DEF DeleteIterator, NoReader
  <2>3. (\E k \in Keys, del \in Deletions : Write(k, del)) \/ WriteOutputs \/ InstallCompactionResults
          \/ GetSnapshot \/ (\E i \in DOMAIN snapshots : ReleaseSnapshot(i)) => reader' = reader
    BY DEF Write, WriteOutputs, InstallCompactionResults, GetSnapshot, ReleaseSnapshot, users
  <2>4. TrivialMove(Choice) \/ DoCompactionWork(Choice) => reader' = reader
    BY DEF TrivialMove, DoCompactionWork, users
  <2>5. ViewKinds
    BY StepViews
  <2> QED  BY <2>1, <2>2, <2>3, <2>4, <2>5 DEF ViewKinds
<1> QED  BY <1>3, <1>4, <1>5, <1>6

LEMMA ViewInit ==
  ASSUME Init
  PROVE  ViewInv
<1>1. snapshots = <<>> /\ job = NoJob /\ bg = "none" /\ reader.kind = "none"
  BY DEF Init, NoReader
<1> QED  BY <1>1 DEF ViewInv, SnapInv, OldestInv, LaterInv, HiddenInv, ReadInv

LEMMA ViewStep ==
  ASSUME StoreInv, OrderInv, DisjointInv, ViewInv, [Next]_vars
  PROVE  ViewInv'
BY SnapStep, OldestStep, LaterStep, HiddenStep, ReadStep DEF ViewInv

-----------------------------------------------------------------------------
(* The refinement of KVStore.                                              *)

\* The state of KVStore, as DBStore maps it
Store == GetView(mem, ImmEntries, current, LastSequence)
Snaps == [i \in DOMAIN snapshots |-> GetView(mem, ImmEntries, current, snapshots[i])]
Reading == CASE reader.kind = "none" -> <<>>
             [] reader.kind = "get" -> <<GetView(reader.mem, reader.imm, reader.version, reader.seq)>>
             [] reader.kind = "iterator" ->
                  <<IteratorView(reader.mem, reader.imm, reader.version, reader.seq)>>

HeldNow == Held(mem, ImmEntries, current)
HeldByReader == Held(reader.mem, reader.imm, reader.version)

\* It is what the entries show that the store, and the reader, have.
Viewed ==
  /\ Shows(Store, HeldNow, LastSequence)
  /\ Snaps = [i \in DOMAIN snapshots |-> Snaps[i]]
  /\ \A i \in DOMAIN snapshots : Shows(Snaps[i], HeldNow, snapshots[i])
  /\ reader.kind = "none" => Reading = <<>>
  /\ reader.kind # "none" => \E f : Reading = <<f>> /\ Shows(f, HeldByReader, reader.seq)

LEMMA InvariantsView ==
  ASSUME StoreInv, OrderInv, DisjointInv, ViewInv
  PROVE  Viewed
<1>1. PICK m, i, v : m = mem /\ i = ImmEntries /\ v = current
  OBVIOUS
<1>2. HistOK /\ m \in SUBSET Numbers /\ i \in SUBSET Numbers /\ VersionOK(v) /\ Sorted(m, i, v)
  BY <1>1 DEF StoreInv, EntriesOK, CurrentOK, ImmEntries, OrderInv, DisjointInv, Sorted
<1>3. \A s \in Nat : Shows(GetView(m, i, v, s), Held(m, i, v), s)
  BY <1>2, ViewsShow
<1>4. LastSequence \in Nat /\ \A j \in DOMAIN snapshots : snapshots[j] \in Nat
  BY <1>2, KeyOrder, SnapshotList DEF StoreInv, LastSequence
<1>5. ASSUME reader.kind # "none"
      PROVE  \E f : Reading = <<f>> /\ Shows(f, HeldByReader, reader.seq)
  <2>1. PICK n, j, w, s : n = reader.mem /\ j = reader.imm /\ w = reader.version /\ s = reader.seq
    OBVIOUS
  <2>2. n \in SUBSET Numbers /\ j \in SUBSET Numbers /\ VersionOK(w) /\ Sorted(n, j, w) /\ s \in Nat
    BY <1>5, <2>1 DEF StoreInv, ReaderOK, ViewInv, ReadInv
  <2>3. Shows(GetView(n, j, w, s), Held(n, j, w), s) /\ Shows(IteratorView(n, j, w, s), Held(n, j, w), s)
    BY <1>2, <2>2, ViewsShow
  <2>4. reader.kind = "get" \/ reader.kind = "iterator"
    BY <1>5 DEF StoreInv, ReaderOK
  <2>5. HeldByReader = Held(n, j, w)
    BY <2>1 DEF HeldByReader
  <2>6. Reading = <<GetView(n, j, w, s)>> \/ Reading = <<IteratorView(n, j, w, s)>>
    BY <2>1, <2>4 DEF Reading
  <2> QED  BY <2>1, <2>3, <2>5, <2>6
<1>6. reader.kind = "none" => Reading = <<>>
  BY DEF Reading
<1>7. HeldNow = Held(m, i, v) /\ Store = GetView(m, i, v, LastSequence)
  BY <1>1 DEF HeldNow, Store
<1>8. Snaps = [j \in DOMAIN snapshots |-> GetView(m, i, v, snapshots[j])]
  BY <1>1 DEF Snaps
<1> QED  BY <1>3, <1>4, <1>5, <1>6, <1>7, <1>8 DEF Viewed

\* What the store has in this state and in the next
LEMMA HeldNowHas ==
  ASSUME NEW E, E = HeldNow
  PROVE  \A e : e \in E <=> e \in mem \/ e \in ImmEntries \/ \E l \in Levels : \E g \in current[l] : e \in Entries(g)
BY DEF HeldNow, Held, FileEntries, AddLiveFiles

LEMMA HeldNextHas ==
  ASSUME NEW E, E = HeldNow'
  PROVE  \A e : e \in E <=> e \in mem' \/ e \in ImmEntries' \/ \E l \in Levels : \E g \in current'[l] : e \in Entries(g)'
BY DEF HeldNow, Held, FileEntries, AddLiveFiles, Levels

LEMMA HeldNumbers ==
  ASSUME StoreInv
  PROVE  HeldNow \in SUBSET Numbers
<1>1. PICK m, i, v : m = mem /\ i = ImmEntries /\ v = current
  OBVIOUS
<1>2. m \in SUBSET Numbers /\ i \in SUBSET Numbers /\ VersionOK(v)
  BY <1>1 DEF StoreInv, EntriesOK, CurrentOK, ImmEntries
<1> QED  BY <1>1, <1>2, HeldFacts DEF HeldNow

\* There is one view of what the store has in the next state.
LEMMA OneViewNext ==
  ASSUME HistOK', NEW E, \A x \in E : x \in Nat \ {0}, NEW s, NEW f, NEW g, Shows(f, E, s)', Shows(g, E, s)'
  PROVE  f = g
<1>1. ASSUME NEW k \in Keys PROVE f[k] = g[k]
  <2> PICK x : x = f[k]
    OBVIOUS
  <2> PICK y : y = g[k]
    OBVIOUS
  <2>1. Shown(E, k, s, x)' /\ Shown(E, k, s, y)'
    BY DEF Shows
  <2>2. x = y
    BY <2>1 DEF Shown, Newest, None
  <2> QED  BY <2>2
<1> QED  BY <1>1 DEF Shows

\* A view stays when the visible entries do.
LEMMA ShowsNext ==
  ASSUME HistOK, HistGrows, NEW E \in SUBSET Numbers, NEW F, NEW s, NEW f, Shows(f, E, s),
         \A y : y <= s => (y \in E <=> y \in F)
  PROVE  Shows(f, F, s)'
<1>1. Shows(f, E, s)'
  BY SameShown
<1>2. ASSUME NEW k \in Keys, NEW x PROVE Shown(E, k, s, x)' => Shown(F, k, s, x)'
  <2>1. \A y : Newest(E, k, s, y)' <=> Newest(F, k, s, y)'
    BY DEF Newest
  <2> QED  BY <2>1 DEF Shown
<1> QED  BY <1>1, <1>2 DEF Shows

\* Steps that leave memtables, the version and its tables alone
LEMMA SameHeld ==
  ASSUME UNCHANGED <<mem, imm, table, current>>
  PROVE  HeldNow' = HeldNow
BY DEF HeldNow, Held, FileEntries, AddLiveFiles, Levels, Entries, ImmEntries

\* The full memtable is still there, as the immutable one.
LEMMA SwitchHeld ==
  ASSUME SwitchMemTable, UNCHANGED <<table, current>>
  PROVE  HeldNow' = HeldNow
<1>1. mem' \cup ImmEntries' = mem \cup ImmEntries
  BY DEF SwitchMemTable, ImmEntries
<1>2. FileEntries(current)' = FileEntries(current)
  BY DEF FileEntries, AddLiveFiles, Levels, Entries
<1> QED  BY <1>1, <1>2 DEF HeldNow, Held

\* A flushed memtable is there as a file.
LEMMA FlushHeld ==
  ASSUME StoreInv, CompactMemTable, UNCHANGED <<hist, mem>>
  PROVE  HeldNow' = HeldNow
<1>1. PICK m, v, w : m = mem /\ v = current /\ w = current'
  OBVIOUS
<1>2. VersionOK(v) /\ Stays(AddLiveFiles({v})) /\ ImmEntries' = {}
  BY <1>1, FlushFacts DEF StoreInv, CurrentOK, ImmEntries
<1>3. PICK E \in SUBSET Numbers, f \in Nat : imm = <<E>> /\ FlushedTo(E, f)
  BY FlushFacts
<1>4. ImmEntries = E /\ mem' = m
  BY <1>1, <1>3 DEF ImmEntries
<1>5. \A l \in Levels : \A g \in v[l] : Entries(g)' = Entries(g)
  BY <1>2, LiveFiles DEF Stays, Entries
<1>6. ASSUME NEW e
      PROVE  (\E l \in Levels : \E g \in w[l] : e \in Entries(g)')
               <=> e \in E \/ \E l \in Levels : \E g \in v[l] : e \in Entries(g)
  <2>1. CASE E = {} /\ w = v
    BY <1>5, <2>1
  <2>2. ASSUME NEW n \in Levels, w = [v EXCEPT ![n] = @ \cup {f}], Entries(f)' = E
        PROVE  (\E l \in Levels : \E g \in w[l] : e \in Entries(g)')
                 <=> e \in E \/ \E l \in Levels : \E g \in v[l] : e \in Entries(g)
    <3>1. \A l \in Levels : \A g : g \in w[l] <=> g \in v[l] \/ (l = n /\ g = f)
      BY <1>2, <2>2 DEF VersionOK
    <3> QED  BY <1>5, <2>2, <3>1
  <2> QED  BY <1>1, <1>3, <2>1, <2>2 DEF FlushedTo
<1>7. PICK D, F : D = HeldNow /\ F = HeldNow'
  OBVIOUS
<1>8. \A e : e \in D <=> e \in m \/ e \in E \/ \E l \in Levels : \E g \in v[l] : e \in Entries(g)
  BY <1>1, <1>4, <1>7, HeldNowHas
<1>9. \A e : e \in F <=> e \in m \/ \E l \in Levels : \E g \in w[l] : e \in Entries(g)'
  BY <1>1, <1>2, <1>4, <1>7, HeldNextHas
<1>10. F = D
  BY <1>6, <1>8, <1>9
<1> QED  BY <1>7, <1>10

\* A file that moves keeps its entries.
LEMMA MoveHeld ==
  ASSUME StoreInv, bg = "scheduled", TrivialMove(Choice)
  PROVE  HeldNow' = HeldNow
<1>1. PICK m, v, w, c : m = mem /\ v = current /\ w = current' /\ c = Choice
  OBVIOUS
<1>2. VersionOK(v) /\ UNCHANGED <<mem, imm, table>>
  BY <1>1 DEF StoreInv, CurrentOK, TrivialMove
<1>3. PICK l, f : Moved(v, w, l, f, c)
  BY <1>1, MoveFacts
<1>4. l \in Levels /\ l + 1 \in Levels /\ f \in v[l] /\ c.level = l /\ c.in0 = {f}
  BY <1>3 DEF Moved
<1>5. f \in Nat
  BY <1>2, <1>4 DEF VersionOK, FilesOK
<1>6. w = Applied(v, {<<l, f>>}, {<<l + 1, f>>})
  BY <1>1, <1>4 DEF TrivialMove, Install
<1>7. PICK A \in SUBSET (Levels \X Nat) : A = {<<l + 1, f>>}
  <2>1. <<l + 1, f>> \in Levels \X Nat
    BY <1>4, <1>5
  <2> QED  BY <2>1
<1>8. PICK B : B = {<<l, f>>}
  OBVIOUS
<1>9. ASSUME NEW n \in Levels, NEW g
      PROVE  g \in w[n] <=> \/ g \in v[n] /\ (<<n, g>> \notin B \/ <<n, g>> \in A)
                            \/ <<n, g>> \in A
  <2>1. g \in Applied(v, B, A)[n] <=> \/ g \in v[n] /\ (<<n, g>> \notin B \/ <<n, g>> \in A)
                                      \/ <<n, g>> \in A
    BY AppliedMember
  <2>2. w = Applied(v, B, A)
    BY <1>6, <1>7, <1>8
  <2> QED  BY <2>1, <2>2
<1>10. \A n \in Levels : \A g \in w[n] : g \in v[n] \/ (g = f /\ f \in v[l])
  BY <1>4, <1>7, <1>9
<1>11. \A n \in Levels : \A g \in v[n] : g \in w[n] \/ (g = f /\ f \in w[l + 1])
  BY <1>4, <1>7, <1>8, <1>9
<1>12. PICK D, F : D = HeldNow /\ F = HeldNow'
  OBVIOUS
<1>13. \A e : e \in D <=> e \in m \/ e \in ImmEntries \/ \E n \in Levels : \E g \in v[n] : e \in Entries(g)
  BY <1>1, <1>12, HeldNowHas
<1>14. \A g : Entries(g)' = Entries(g)
  BY <1>2 DEF Entries
<1>15. ImmEntries' = ImmEntries /\ mem' = m
  BY <1>1, <1>2 DEF ImmEntries
<1>16. \A e : e \in F <=> e \in m \/ e \in ImmEntries \/ \E n \in Levels : \E g \in w[n] : e \in Entries(g)
  BY <1>1, <1>12, <1>14, <1>15, HeldNextHas
<1>17. \A e : (\E n \in Levels : \E g \in v[n] : e \in Entries(g))
                <=> \E n \in Levels : \E g \in w[n] : e \in Entries(g)
  BY <1>4, <1>10, <1>11
<1>18. F = D
  BY <1>13, <1>16, <1>17
<1> QED  BY <1>12, <1>18

\* New tables that no version has add nothing.
LEMMA OutputsHeld ==
  ASSUME StoreInv, [Next]_vars, UNCHANGED <<mem, imm, current>>
  PROVE  HeldNow' = HeldNow
<1>1. PICK m, i, v : m = mem /\ i = ImmEntries /\ v = current
  OBVIOUS
<1>2. mem' = m /\ ImmEntries' = i /\ current' = v
  BY <1>1 DEF ImmEntries
<1>3. VersionOK(v) /\ VersionOK(v)'
  <2>1. VersionOK(current)'
    BY StoreStep DEF StoreInv, CurrentOK
  <2> QED  BY <1>1, <1>2, <2>1 DEF StoreInv, CurrentOK
<1>4. Held(m, i, v)' = Held(m, i, v)
  BY <1>3, LiveStays, HeldStays
<1> QED  BY <1>1, <1>2, <1>4 DEF HeldNow

\* A write adds its entry.
LEMMA WriteHeld ==
  ASSUME StoreInv, NEW k, NEW del, Write(k, del), NEW E, E = HeldNow, NEW F, F = HeldNow'
  PROVE  F = E \cup {Len(hist) + 1}
<1>1. PICK n, m, v : n = Len(hist) + 1 /\ m = mem /\ v = current
  OBVIOUS
<1>2. mem' = m \cup {n} /\ UNCHANGED <<imm, table, current>>
  BY <1>1 DEF Write, storage, LastSequence
<1>3. \A e : e \in E <=> e \in m \/ e \in ImmEntries \/ \E l \in Levels : \E g \in v[l] : e \in Entries(g)
  BY <1>1, HeldNowHas
<1>4. \A e : e \in F <=> e \in m \cup {n} \/ e \in ImmEntries' \/ \E l \in Levels : \E g \in v[l] : e \in Entries(g)'
  BY <1>1, <1>2, HeldNextHas
<1>5. ImmEntries' = ImmEntries /\ \A g : Entries(g)' = Entries(g)
  BY <1>2 DEF ImmEntries, Entries
<1>6. F = E \cup {n}
  BY <1>3, <1>4, <1>5
<1> QED  BY <1>1, <1>6


-----------------------------------------------------------------------------
(* The views of a step.                                                    *)

\* Whoever reads E at s now reads the same of F after the step.
Carried(E, F, s) == \A f : Shows(f, E, s) => Shows(f, F, s)'

LEMMA CarriedSame ==
  ASSUME HistOK, HistGrows, NEW E \in SUBSET Numbers, NEW F, NEW s,
         \A y : y <= s => (y \in E <=> y \in F)
  PROVE  Carried(E, F, s)
BY ShowsNext DEF Carried

LEMMA HeldNextNumbers ==
  ASSUME StoreInv', NEW F, F = HeldNow'
  PROVE  \A x \in F : x \in Nat \ {0}
<1>1. PICK m, i, w : m = mem' /\ i = ImmEntries' /\ w = current'
  OBVIOUS
<1>2. Numbers' \in SUBSET (Nat \ {0})
  BY DEF Numbers
<1>3. m \in SUBSET Numbers' /\ i \in SUBSET Numbers'
  BY <1>1 DEF StoreInv, EntriesOK, ImmEntries
<1>4. VersionOK(w)'
  <2>1. VersionOK(current)'
    BY DEF StoreInv, CurrentOK
  <2> QED  BY <1>1, <2>1
<1>5. \A l \in Levels : \A g \in w[l] : Entries(g)' \in SUBSET Numbers'
  BY <1>4 DEF VersionOK, FilesOK, FileOK, Levels
<1>6. \A e : e \in F <=> e \in m \/ e \in i \/ \E l \in Levels : \E g \in w[l] : e \in Entries(g)'
  BY <1>1, HeldNextHas
<1> QED  BY <1>2, <1>3, <1>5, <1>6

\* A new view of F at s is an old one of E at s.
LEMMA ViewStays ==
  ASSUME StoreInv', NEW E, NEW F, F = HeldNow', NEW s, Carried(E, F, s),
         NEW f, Shows(f, E, s), NEW g, Shows(g, F, s)'
  PROVE  g = f
<1>1. Shows(f, F, s)'
  BY DEF Carried
<1>2. HistOK'
  BY DEF StoreInv, EntriesOK
<1>3. \A x \in F : x \in Nat \ {0}
  BY HeldNextNumbers
<1> QED  BY <1>1, <1>2, <1>3, OneViewNext

\* The store, if nothing was written
LEMMA StoreStays ==
  ASSUME StoreInv', Viewed, Viewed', UNCHANGED hist, NEW E, E = HeldNow, NEW F, F = HeldNow',
         Carried(E, F, LastSequence)
  PROVE  Store' = Store
<1>1. PICK s, f, g : s = LastSequence /\ f = Store /\ g = Store'
  OBVIOUS
<1>2. LastSequence' = s
  BY <1>1 DEF LastSequence
<1>3. Shows(f, E, s)
  BY <1>1 DEF Viewed
<1>4. Shows(Store, HeldNow, LastSequence)'
  BY DEF Viewed
<1>5. Shows(g, F, s)'
  BY <1>1, <1>2, <1>4
<1>6. Carried(E, F, s)
  BY <1>1
<1>7. g = f
  BY <1>3, <1>5, <1>6, ViewStays
<1> QED  BY <1>1, <1>7

\* A snapshot
LEMMA SnapStays ==
  ASSUME StoreInv', Viewed, Viewed', NEW E, E = HeldNow, NEW F, F = HeldNow',
         NEW i \in DOMAIN snapshots', NEW s, s = snapshots'[i], Carried(E, F, s),
         NEW f, Shows(f, E, s)
  PROVE  Snaps'[i] = f
<1>1. PICK g : g = Snaps'[i]
  OBVIOUS
<1>2. (\A j \in DOMAIN snapshots : Shows(Snaps[j], HeldNow, snapshots[j]))'
  BY DEF Viewed
<1>5. Shows(g, F, s)'
  BY <1>1, <1>2
<1>7. g = f
  BY <1>5, ViewStays
<1> QED  BY <1>1, <1>7

\* A reader that goes on has the files that it had, and sees what it saw.
LEMMA ReadingStays ==
  ASSUME StoreInv, ViewInv, [Next]_vars, Viewed, Viewed', reader' = reader
  PROVE  Reading' = Reading
<1>1. StoreInv' /\ HistGrows /\ HistOK
  BY StoreStep, HistSteps DEF StoreInv, EntriesOK
<1>2. CASE reader.kind = "none"
  BY <1>2 DEF Reading
<1>3. CASE reader.kind # "none"
  <2>1. PICK m, i, v, s : m = reader.mem /\ i = reader.imm /\ v = reader.version /\ s = reader.seq
    OBVIOUS
  <2>2. m \in SUBSET Numbers /\ i \in SUBSET Numbers
    BY <1>3, <2>1 DEF ViewInv, ReadInv
  <2>3. VersionOK(v) /\ VersionOK(v)'
    <3>1. VersionOK(reader.version) /\ VersionOK(reader.version)'
      BY <1>1, <1>3 DEF StoreInv, ReaderOK
    <3> QED  BY <2>1, <3>1
  <2>4. PICK E : E = Held(m, i, v)
    OBVIOUS
  <2>5. Held(m, i, v)' = E
    BY <2>3, <2>4, LiveStays, HeldStays
  <2>6. E \in SUBSET Numbers
    BY <2>2, <2>3, <2>4, HeldFacts
  <2>7. PICK f : Reading = <<f>> /\ Shows(f, E, s)
    BY <1>3, <2>1, <2>4 DEF Viewed, HeldByReader
  <2>8. (\E h : Reading = <<h>> /\ Shows(h, HeldByReader, reader.seq))'
    BY <1>3 DEF Viewed
  <2>9. HeldByReader' = E /\ reader'.seq = s
    BY <2>1, <2>5 DEF HeldByReader
  <2>10. PICK g : Reading' = <<g>> /\ Shows(g, E, s)'
    BY <2>8, <2>9
  <2>11. Shows(f, E, s)'
    BY <1>1, <2>6, <2>7, SameShown
  <2>12. \A x \in E : x \in Nat \ {0}
    BY <2>6 DEF Numbers
  <2>13. HistOK'
    BY <1>1 DEF HistGrows
  <2>14. g = f
    BY <2>10, <2>11, <2>12, <2>13, OneViewNext
  <2> QED  BY <2>7, <2>10, <2>14
<1> QED  BY <1>2, <1>3

\* A compaction is installed: nobody reads before its smallest_snapshot.
LEMMA InstallCarries ==
  ASSUME StoreInv, OrderInv, ViewInv, [Next]_vars, InstallCompactionResults,
         NEW E, E = HeldNow, NEW F, F = HeldNow', NEW s \in ReadPoints
  PROVE  Carried(E, F, s)
<1>1. PICK m, i, v, w, c, P : /\ m = mem /\ i = ImmEntries /\ v = current /\ w = current'
                              /\ c = job /\ P = Pending(c)
  OBVIOUS
<1>2. HistOK /\ HistGrows /\ VersionOK(v) /\ m \in SUBSET Numbers /\ i \in SUBSET Numbers
  BY <1>1, HistSteps DEF StoreInv, EntriesOK, CurrentOK, ImmEntries
<1>3. CompactionOK(c) /\ c # NoJob /\ Installed(v, c, P, w)
  BY <1>1, InstallFacts
<1>4. VersionOK(w) /\ Stays(AddLiveFiles({w}))
  BY <1>3 DEF Installed
<1>5. Replaced(v, c, P, w)
  BY <1>3 DEF Installed, Replaced
<1>6. Ordered(m, i, v) /\ KeysApart(v) /\ InOrder(v, c) /\ LaterApart(v, c) /\ Hidden(c)
  BY <1>1, <1>3 DEF OrderInv, ViewInv, LaterInv, HiddenInv, InstallCompactionResults
<1>7. s \in Nat /\ c.smallest_snapshot <= s
  <2>1. Len(hist) \in Nat /\ \A j \in DOMAIN snapshots : snapshots[j] \in Nat
    BY <1>2, KeyOrder, SnapshotList DEF StoreInv
  <2> QED  BY <1>1, <1>3, <2>1 DEF ReadPoints, LastSequence, ViewInv, OldestInv
<1>8. PICK G : G = Held(m, i, w)
  OBVIOUS
<1>9. G \in SUBSET Numbers
  BY <1>2, <1>4, <1>8, HeldFacts
<1>10. E = Held(m, i, v)
  BY <1>1 DEF HeldNow
<1>11. F = G
  <2>1. Held(m, i, w)' = G
    BY <1>4, <1>8, HeldStays
  <2>2. mem' = m /\ ImmEntries' = i /\ current' = w
    BY <1>1 DEF InstallCompactionResults, ImmEntries
  <2> QED  BY <2>1, <2>2 DEF HeldNow
<1>12. ASSUME NEW f, Shows(f, E, s) PROVE Shows(f, F, s)'
  <2>1. Shows(f, Held(m, i, w), s)
    BY <1>1, <1>2, <1>3, <1>4, <1>5, <1>6, <1>7, <1>10, <1>12, InstalledShows
  <2>2. Shows(f, G, s)
    BY <1>8, <2>1
  <2>3. Shows(f, G, s)'
    BY <1>2, <1>9, <2>2, SameShown
  <2> QED  BY <1>11, <2>3
<1> QED  BY <1>12 DEF Carried

\* The entry that is written
LEMMA WrittenEntry ==
  ASSUME StoreInv, NEW k \in Keys, NEW del \in Deletions, Write(k, del)
  PROVE  Len(hist') = Len(hist) + 1 /\ hist'[Len(hist) + 1] = [key |-> k, del |-> del]
<1>1. PICK x : x = [key |-> k, del |-> del]
  OBVIOUS
<1>2. hist' = Append(hist, x)
  BY <1>1 DEF Write
<1>3. Len(hist') = Len(hist) + 1 /\ hist'[Len(hist) + 1] = x
  BY <1>2, AppendProperties DEF StoreInv, EntriesOK, HistOK
<1> QED  BY <1>1, <1>3

\* The steps that change nothing for anybody who reads at s
LEMMA StepCarries ==
  ASSUME StoreInv, OrderInv, ViewInv, [Next]_vars, UNCHANGED hist,
         NEW E, E = HeldNow, NEW F, F = HeldNow', NEW s \in ReadPoints
  PROVE  Carried(E, F, s)
<1>1. CASE InstallCompactionResults
  BY <1>1, InstallCarries
<1>2. CASE F = E
  <2>1. HistOK /\ HistGrows
    BY HistSteps DEF StoreInv, EntriesOK
  <2>2. E \in SUBSET Numbers
    BY HeldNumbers
  <2> QED  BY <1>2, <2>1, <2>2, CarriedSame
<1>3. CASE Quiet
  <2>1. UNCHANGED <<mem, imm, table, current>>
    BY <1>3 DEF Quiet
  <2> QED  BY <1>2, <2>1, SameHeld
<1>4. CASE SwitchMemTable /\ UNCHANGED <<hist, table, current, job, snapshots, reader>>
  BY <1>2, <1>4, SwitchHeld
<1>5. CASE CompactMemTable /\ UNCHANGED <<hist, mem, job, snapshots, reader>>
  BY <1>2, <1>5, FlushHeld
<1>6. CASE bg = "scheduled" /\ TrivialMove(Choice)
  BY <1>2, <1>6, MoveHeld
<1>7. CASE bg = "scheduled" /\ DoCompactionWork(Choice)
  <2>1. UNCHANGED <<mem, imm, table, current>>
    BY <1>7 DEF DoCompactionWork
  <2> QED  BY <1>2, <2>1, SameHeld
<1>8. CASE WriteOutputs
  <2>1. UNCHANGED <<mem, imm, current>>
    BY <1>8 DEF WriteOutputs
  <2> QED  BY <1>2, <2>1, OutputsHeld
<1>9. \A k \in Keys, del \in Deletions : ~Write(k, del)
  <2>1. Len(hist) \in Nat
    BY KeyOrder DEF StoreInv, EntriesOK
  <2>2. \A k \in Keys, del \in Deletions : Write(k, del) => Len(hist') = Len(hist) + 1
    BY WrittenEntry
  <2> QED  BY <2>1, <2>2
<1> QED  BY <1>1, <1>3, <1>4, <1>5, <1>6, <1>7, <1>8, <1>9, StepKinds

\* The store and the snapshots, as long as nothing is written
LEMMA QuietStore ==
  ASSUME StoreInv, OrderInv, ViewInv, Viewed, Viewed', [Next]_vars, UNCHANGED hist
  PROVE  Store' = Store
<1>1. PICK E, F : E = HeldNow /\ F = HeldNow'
  OBVIOUS
<1>2. StoreInv'
  BY StoreStep
<1>3. PICK s \in ReadPoints : s = LastSequence
  BY DEF ReadPoints
<1>4. Carried(E, F, s)
  BY <1>1, StepCarries
<1>5. Carried(E, F, LastSequence)
  BY <1>3, <1>4
<1> QED  BY <1>1, <1>2, <1>5, StoreStays

LEMMA QuietSnap ==
  ASSUME StoreInv, OrderInv, ViewInv, Viewed, Viewed', [Next]_vars, UNCHANGED hist,
         NEW i \in DOMAIN snapshots', NEW j \in DOMAIN snapshots, snapshots'[i] = snapshots[j]
  PROVE  Snaps'[i] = Snaps[j]
<1>1. PICK E, F : E = HeldNow /\ F = HeldNow'
  OBVIOUS
<1>2. StoreInv'
  BY StoreStep
<1>3. PICK s \in ReadPoints : s = snapshots[j]
  BY DEF ReadPoints
<1>4. Carried(E, F, s)
  BY <1>1, StepCarries
<1>5. PICK f : f = Snaps[j]
  OBVIOUS
<1>6. Shows(f, E, s)
  BY <1>1, <1>3, <1>5 DEF Viewed
<1>7. s = snapshots'[i]
  BY <1>3
<1>8. Snaps'[i] = f
  BY <1>1, <1>2, <1>4, <1>6, <1>7, SnapStays
<1> QED  BY <1>5, <1>8

LEMMA QuietSnaps ==
  ASSUME StoreInv, OrderInv, ViewInv, Viewed, Viewed', [Next]_vars, UNCHANGED <<hist, snapshots>>
  PROVE  Snaps' = Snaps
<1>1. \A i \in DOMAIN snapshots : Snaps'[i] = Snaps[i]
  BY QuietSnap
<1>2. Snaps = [i \in DOMAIN snapshots |-> Snaps[i]] /\ Snaps' = [i \in DOMAIN snapshots' |-> Snaps'[i]]
  BY DEF Viewed
<1> QED  BY <1>1, <1>2

\* A step that writes nothing, takes and releases no snapshot and leaves the
\* reader alone is a stutter of KVStore.
LEMMA StuttersKV ==
  ASSUME StoreInv, OrderInv, ViewInv, Viewed, Viewed', [Next]_vars, UNCHANGED <<hist, snapshots, reader>>
  PROVE  UNCHANGED KV!vars
<1>1. Store' = Store /\ Snaps' = Snaps /\ Reading' = Reading
  BY QuietStore, QuietSnaps, ReadingStays
<1>2. LastSequence' = LastSequence
  BY DEF LastSequence
<1> QED  BY <1>1, <1>2 DEF KV!vars, Store, Snaps, Reading

\* What a write shows
LEMMA WriteShows ==
  ASSUME StoreInv, NEW k \in Keys, NEW del \in Deletions, Write(k, del),
         NEW n, n = Len(hist), NEW E \in SUBSET Numbers, NEW f, Shows(f, E, n),
         NEW h, h = [f EXCEPT ![k] = IF del THEN None ELSE n + 1]
  PROVE  Shows(h, E \cup {n + 1}, n + 1)'
<1>1. PICK F : F = E \cup {n + 1}
  OBVIOUS
<1>2. HistOK /\ HistGrows /\ n \in Nat /\ \A y \in E : y \in Nat /\ y <= n
  BY WriteGrows, KeyOrder DEF StoreInv, EntriesOK, Numbers
<1>3. hist'[n + 1] = [key |-> k, del |-> del]
  BY WrittenEntry
<1>4. PICK N : N = n + 1
  OBVIOUS
<1>5. /\ N \in Nat /\ \A y \in E : y < N /\ y # N
      /\ hist'[N].key = k /\ hist'[N].del = del /\ del \in BOOLEAN
  BY <1>2, <1>3, <1>4, StoreAssumption
<1>6. Shows(f, E, n)'
  BY <1>2, SameShown
<1>7. ASSUME NEW j \in Keys, j # k, NEW x, x = f[j] PROVE Shown(F, j, N, x)'
  <2>1. Shown(E, j, n, x)'
    BY <1>6, <1>7 DEF Shows
  <2>2. \A y \in F : Key(y)' = j => y \in E /\ y <= n
    BY <1>1, <1>2, <1>4, <1>5, <1>7 DEF Key
  <2>3. \A y \in E : y \in F /\ (y <= n /\ y <= N)
    BY <1>1, <1>2, <1>5
  <2>4. \A y : Newest(F, j, N, y)' <=> Newest(E, j, n, y)'
    BY <2>2, <2>3 DEF Newest
  <2> QED  BY <2>1, <2>4 DEF Shown
<1>8. ASSUME NEW x, x = IF del THEN None ELSE N PROVE Shown(F, k, N, x)'
  <2>1. \A y \in F : y \in Nat /\ y <= N
    BY <1>1, <1>2, <1>4, <1>5
  <2>2. N \in F /\ Key(N)' = k
    BY <1>1, <1>4, <1>5 DEF Key
  <2>3. Newest(F, k, N, N)'
    BY <1>5, <2>1, <2>2 DEF Newest
  <2>4. \A y : Newest(F, k, N, y)' => y = N
    BY <1>5, <2>1, <2>2 DEF Newest
  <2> QED  BY <1>5, <1>8, <2>3, <2>4 DEF Shown
<1>9. f = [j \in Keys |-> f[j]]
  BY DEF Shows
<1>10. /\ h = [j \in Keys |-> h[j]] /\ h[k] = IF del THEN None ELSE N
       /\ \A j \in Keys : j # k => h[j] = f[j]
  BY <1>4, <1>9
<1>11. \A j \in Keys : Shown(F, j, N, h[j])'
  <2> SUFFICES ASSUME NEW j \in Keys PROVE Shown(F, j, N, h[j])'
    OBVIOUS
  <2>1. PICK x : x = h[j]
    OBVIOUS
  <2>2. Shown(F, j, N, x)'
    BY <1>7, <1>8, <1>10, <2>1
  <2> QED  BY <2>1, <2>2
<1>12. Shows(h, F, N)'
  BY <1>10, <1>11 DEF Shows
<1> QED  BY <1>1, <1>4, <1>12

\* A write is a Put or a Delete of its key.
LEMMA WriteIsKV ==
  ASSUME StoreInv, ViewInv, Viewed, Viewed', NEW k \in Keys, NEW del \in Deletions, Write(k, del), [Next]_vars
  PROVE  KV!Next
<1>1. PICK n, E, F, f, g : n = Len(hist) /\ E = HeldNow /\ F = HeldNow' /\ f = Store /\ g = Store'
  OBVIOUS
<1>2. StoreInv' /\ HistOK /\ HistGrows /\ HistOK' /\ n \in Nat /\ E \in SUBSET Numbers
  BY <1>1, StoreStep, WriteGrows, HeldNumbers, KeyOrder DEF StoreInv, EntriesOK
<1>3. F = E \cup {n + 1}
  BY <1>1, WriteHeld
<1>4. LastSequence = n /\ LastSequence' = n + 1
  BY <1>1, WrittenEntry DEF LastSequence
<1>5. UNCHANGED <<snapshots, reader>>
  BY DEF Write, users
<1>6. PICK h : h = [f EXCEPT ![k] = IF del THEN None ELSE n + 1]
  OBVIOUS
<1>7. Shows(f, E, n)
  BY <1>1, <1>4 DEF Viewed
<1>8. Shows(h, F, n + 1)'
  <2>1. Shows(h, E \cup {n + 1}, n + 1)'
    BY <1>1, <1>2, <1>6, <1>7, WriteShows
  <2> QED  BY <1>3, <2>1
<1>9. Shows(g, F, n + 1)'
  <2>1. Shows(Store, HeldNow, LastSequence)'
    BY DEF Viewed
  <2> QED  BY <1>1, <1>4, <2>1
<1>10. \A x \in F : x \in Nat \ {0}
  BY <1>1, <1>2, HeldNextNumbers
<1>11. g = h
  BY <1>2, <1>8, <1>9, <1>10, OneViewNext
<1>12. ASSUME NEW i \in DOMAIN snapshots PROVE Snaps'[i] = Snaps[i]
  <2>1. PICK s, u : s = snapshots[i] /\ u = Snaps[i]
    OBVIOUS
  <2>2. s \in Nat /\ s <= n
    BY <1>1, <1>2, <2>1, SnapshotList DEF StoreInv
  <2>3. \A y : y <= s => (y \in E <=> y \in F)
    BY <1>2, <1>3, <2>2
  <2>4. Carried(E, F, s)
    BY <1>2, <2>3, CarriedSame
  <2>5. Shows(u, E, s)
    BY <1>1, <2>1 DEF Viewed
  <2>6. i \in DOMAIN snapshots' /\ s = snapshots'[i]
    BY <1>5, <2>1
  <2>7. Snaps'[i] = u
    BY <1>1, <1>2, <2>4, <2>5, <2>6, SnapStays
  <2> QED  BY <2>1, <2>7
<1>13. Snaps' = Snaps
  <2>1. Snaps = [i \in DOMAIN snapshots |-> Snaps[i]] /\ Snaps' = [i \in DOMAIN snapshots' |-> Snaps'[i]]
    BY DEF Viewed
  <2> QED  BY <1>5, <1>12, <2>1
<1>14. Reading' = Reading
  BY <1>5, ReadingStays
<1>15. CASE del
  <2>1. Store' = [Store EXCEPT ![k] = None] /\ LastSequence' = LastSequence + 1
    BY <1>1, <1>4, <1>6, <1>11, <1>15
  <2>2. KV!Delete(k)
    BY <1>13, <1>14, <2>1 DEF KV!Delete, Store, Snaps, Reading
  <2> QED  BY <2>2 DEF KV!Next
<1>16. CASE ~del
  <2>1. Store' = [Store EXCEPT ![k] = LastSequence'] /\ LastSequence' = LastSequence + 1
    BY <1>1, <1>4, <1>6, <1>11, <1>16
  <2>2. KV!Put(k)
    BY <1>13, <1>14, <2>1 DEF KV!Put, Store, Snaps, Reading
  <2> QED  BY <2>2 DEF KV!Next
<1> QED  BY <1>15, <1>16

\* f is a list of n elements, g is f with e at its end, or without its i-th element.
List(n, f) == f = [i \in 1..n |-> f[i]]
Appended(f, e, g) == g = Append(f, e)
Cut(f, i, g) == g = SubSeq(f, 1, i - 1) \o SubSeq(f, i + 1, Len(f))

LEMMA ListIsSeq ==
  ASSUME NEW n \in Nat, NEW f, List(n, f)
  PROVE  \E T : f \in Seq(T) /\ Len(f) = n
<1>1. PICK T : T = {f[i] : i \in 1..n}
  OBVIOUS
<1>2. f \in [1..n -> T]
  BY <1>1 DEF List
<1>3. f \in Seq(T)
  BY <1>2
<1>4. DOMAIN f = 1..n
  BY <1>2
<1>5. Len(f) = n
  <2>1. Len(f) \in Nat /\ 1..n = 1..Len(f)
    BY <1>3, <1>4, LenProperties
  <2>2. PICK m \in Nat : m = Len(f) /\ 1..n = 1..m
    BY <2>1
  <2>3. (m \in 1..m \/ m = 0) /\ (n \in 1..n \/ n = 0)
    OBVIOUS
  <2>4. m = n
    BY <2>2, <2>3
  <2> QED  BY <2>2, <2>4
<1> QED  BY <1>3, <1>5

\* One more at the end ...
LEMMA AppendIs ==
  ASSUME NEW n \in Nat, NEW f, List(n, f), NEW g, List(n + 1, g),
         \A i \in 1..n : g[i] = f[i], NEW e, g[n + 1] = e
  PROVE  Appended(f, e, g)
<1>1. PICK T : f \in Seq(T) /\ Len(f) = n
  BY ListIsSeq
<1>2. PICK U : U = T \cup {e}
  OBVIOUS
<1>3. f \in Seq(U) /\ e \in U
  <2>1. \A i \in 1..n : f[i] \in U
    BY <1>1, <1>2, ElementOfSeq, LenProperties
  <2>2. f \in [1..n -> U]
    BY <2>1 DEF List
  <2> QED  BY <1>2, <2>2
<1>4. PICK h : h = Append(f, e)
  OBVIOUS
<1>5. /\ h \in Seq(U) /\ Len(h) = n + 1
      /\ \A i \in 1..n : h[i] = f[i]
      /\ h[n + 1] = e
  BY <1>1, <1>3, <1>4, AppendProperties
<1>6. h = [i \in 1..(n + 1) |-> h[i]]
  <2>1. h \in [1..Len(h) -> U]
    BY <1>5, LenProperties
  <2> QED  BY <1>5, <2>1
<1>7. \A i \in 1..(n + 1) : g[i] = h[i]
  <2>1. \A i \in 1..(n + 1) : i \in 1..n \/ i = n + 1
    OBVIOUS
  <2> QED  BY <1>5, <2>1
<1>8. g = h
  BY <1>6, <1>7 DEF List
<1> QED  BY <1>4, <1>8 DEF Appended

\* ... or one less.
LEMMA WithoutIs ==
  ASSUME NEW n \in Nat, NEW f, List(n, f), NEW i \in 1..n, NEW g, List(n - 1, g),
         \A j \in 1..(n - 1) : g[j] = f[IF j < i THEN j ELSE j + 1]
  PROVE  Cut(f, i, g)
<1>1. PICK T : f \in Seq(T) /\ Len(f) = n
  BY ListIsSeq
<1>2. PICK h : h = SubSeq(f, 1, i - 1) \o SubSeq(f, i + 1, Len(f))
  OBVIOUS
<1>3. h \in Seq(T) /\ Without(f, h, i)
  BY <1>1, <1>2, WithoutOne
<1>4. DOMAIN h = 1..(n - 1) /\ \A j \in 1..(n - 1) : h[j] = f[IF j < i THEN j ELSE j + 1]
  BY <1>1, <1>3 DEF Without
<1>5. h = [j \in 1..(n - 1) |-> h[j]]
  <2>1. h \in [1..Len(h) -> T]
    BY <1>3, LenProperties
  <2> QED  BY <1>4, <2>1
<1>6. g = h
  BY <1>4, <1>5 DEF List
<1> QED  BY <1>2, <1>6 DEF Cut

\* GetSnapshot keeps what the store shows now.
LEMMA SnapshotIsKV ==
  ASSUME StoreInv, OrderInv, ViewInv, Viewed, Viewed', GetSnapshot, [Next]_vars
  PROVE  KV!Next
<1>1. UNCHANGED <<hist, reader>>
  BY DEF GetSnapshot
<1>2. Store' = Store /\ Reading' = Reading
  BY <1>1, QuietStore, ReadingStays
<1>3. PICK n \in Nat : n = Len(snapshots) /\ DOMAIN snapshots = 1..n
  BY SnapshotList DEF StoreInv, EntriesOK
<1>4. /\ DOMAIN snapshots' = 1..(n + 1)
      /\ \A i \in 1..n : snapshots'[i] = snapshots[i]
      /\ snapshots'[n + 1] = Len(hist)
  BY <1>3, OneMore
<1>5. PICK f, g, e : f = Snaps /\ g = Snaps' /\ e = Store
  OBVIOUS
<1>6. List(n, f) /\ List(n + 1, g)
  BY <1>3, <1>4, <1>5 DEF Viewed, List
<1>7. \A i \in 1..n : g[i] = f[i]
  BY <1>1, <1>3, <1>4, <1>5, QuietSnap
<1>8. g[n + 1] = e
  <2>1. PICK E, F : E = HeldNow /\ F = HeldNow'
    OBVIOUS
  <2>2. PICK s \in ReadPoints : s = LastSequence
    BY DEF ReadPoints
  <2>3. Carried(E, F, s)
    BY <1>1, <2>1, StepCarries
  <2>4. Shows(e, E, s)
    BY <1>5, <2>1, <2>2 DEF Viewed
  <2>5. PICK i \in DOMAIN snapshots' : i = n + 1
    BY <1>4
  <2>6. s = snapshots'[i]
    BY <1>4, <2>2, <2>5 DEF LastSequence
  <2>7. StoreInv'
    BY StoreStep
  <2>8. Snaps'[i] = e
    BY <2>1, <2>3, <2>4, <2>6, <2>7, SnapStays
  <2> QED  BY <1>5, <2>5, <2>8
<1>9. Appended(f, e, g)
  BY <1>6, <1>7, <1>8, AppendIs
<1>10. LastSequence' = LastSequence
  BY <1>1 DEF LastSequence
<1>11. KV!GetSnapshot
  BY <1>2, <1>5, <1>9, <1>10 DEF Appended, KV!GetSnapshot, Store, Snaps, Reading
<1> QED  BY <1>11 DEF KV!Next

\* ReleaseSnapshot forgets one.
LEMMA ReleaseIsKV ==
  ASSUME StoreInv, OrderInv, ViewInv, Viewed, Viewed', NEW i \in DOMAIN snapshots, ReleaseSnapshot(i), [Next]_vars
  PROVE  KV!Next
<1>1. UNCHANGED <<hist, reader>>
  BY DEF ReleaseSnapshot
<1>2. Store' = Store /\ Reading' = Reading
  BY <1>1, QuietStore, ReadingStays
<1>3. PICK n \in Nat : n = Len(snapshots) /\ DOMAIN snapshots = 1..n
  BY SnapshotList DEF StoreInv, EntriesOK
<1>4. /\ DOMAIN snapshots' = 1..(n - 1)
      /\ \A j \in 1..(n - 1) : /\ snapshots'[j] = snapshots[IF j < i THEN j ELSE j + 1]
                               /\ (IF j < i THEN j ELSE j + 1) \in DOMAIN snapshots
  BY <1>3, OneLess DEF Without
<1>5. PICK f, g : f = Snaps /\ g = Snaps'
  OBVIOUS
<1>6. List(n, f) /\ List(n - 1, g)
  BY <1>3, <1>4, <1>5 DEF Viewed, List
<1>7. ASSUME NEW j \in 1..(n - 1) PROVE g[j] = f[IF j < i THEN j ELSE j + 1]
  <2>1. PICK o \in DOMAIN snapshots : o = IF j < i THEN j ELSE j + 1
    BY <1>4
  <2>2. PICK h \in DOMAIN snapshots' : h = j
    BY <1>4
  <2>3. snapshots'[h] = snapshots[o]
    BY <1>4, <2>1, <2>2
  <2>4. Snaps'[h] = Snaps[o]
    BY <1>1, <2>3, QuietSnap
  <2> QED  BY <1>5, <2>1, <2>2, <2>4
<1>8. i \in 1..n
  BY <1>3
<1>9. Cut(f, i, g)
  BY <1>6, <1>7, <1>8, WithoutIs
<1>10. LastSequence' = LastSequence
  BY <1>1 DEF LastSequence
<1>11. KV!ReleaseSnapshot(i)
  BY <1>2, <1>5, <1>9, <1>10 DEF Cut, KV!ReleaseSnapshot, Store, Snaps, Reading
<1>12. i \in DOMAIN f
  BY <1>6, <1>8 DEF List
<1> QED  BY <1>5, <1>11, <1>12 DEF KV!Next, Snaps

\* A Get or an iterator starts with what the store, or a snapshot, shows.
LEMMA StartReadIsKV ==
  ASSUME StoreInv, OrderInv, ViewInv, Viewed, Viewed', NEW kind \in {"get", "iterator"}, StartRead(kind),
         [Next]_vars
  PROVE  KV!Next
<1>1. UNCHANGED <<hist, mem, imm, table, current, snapshots>> /\ reader.kind = "none"
  BY DEF StartRead, storage, NoReader
<1>2. Store' = Store /\ Snaps' = Snaps
  BY <1>1, QuietStore, QuietSnaps
<1>3. Reading = <<>>
  BY <1>1 DEF Viewed
<1>4. PICK m, i, v, E : m = mem /\ i = ImmEntries /\ v = current /\ E = HeldNow
  OBVIOUS
<1>5. PICK s \in ReadPoints : reader' = [kind |-> kind, seq |-> s, mem |-> m, imm |-> i, version |-> v]
  BY <1>4 DEF StartRead
<1>6. reader'.mem = m /\ reader'.imm = i /\ reader'.version = v /\ reader'.seq = s /\ reader'.kind # "none"
  BY <1>5
<1>7. HeldNow' = E
  BY <1>1, <1>4, SameHeld
<1>8. mem' = m /\ ImmEntries' = i /\ current' = v
  BY <1>1, <1>4 DEF ImmEntries
<1>9. HeldByReader' = E
  BY <1>6, <1>7, <1>8 DEF HeldByReader, HeldNow
<1>10. (\E h : Reading = <<h>> /\ Shows(h, HeldByReader, reader.seq))'
  BY <1>6 DEF Viewed
<1>11. PICK g : Reading' = <<g>> /\ Shows(g, E, s)'
  BY <1>6, <1>9, <1>10
<1>12. PICK f : f \in {Store} \cup {Snaps[j] : j \in DOMAIN Snaps} /\ Shows(f, E, s)
  <2>1. CASE s = LastSequence
    <3>1. Shows(Store, E, s)
      BY <1>4, <2>1 DEF Viewed
    <3> QED  BY <3>1
  <2>2. ASSUME NEW j \in DOMAIN snapshots, s = snapshots[j]
        PROVE  \E f : f \in {Store} \cup {Snaps[o] : o \in DOMAIN Snaps} /\ Shows(f, E, s)
    <3>1. Shows(Snaps[j], E, s)
      BY <1>4, <2>2 DEF Viewed
    <3>2. j \in DOMAIN Snaps
      BY DEF Snaps
    <3> QED  BY <3>1, <3>2
  <2> QED  BY <2>1, <2>2 DEF ReadPoints
<1>13. Carried(E, E, s)
  BY <1>1, <1>4, <1>7, StepCarries
<1>14. StoreInv'
  BY StoreStep
<1>15. g = f
  BY <1>7, <1>11, <1>12, <1>13, <1>14, ViewStays
<1>16. Reading' = Append(Reading, f)
  BY <1>3, <1>11, <1>15
<1>17. LastSequence' = LastSequence
  BY <1>1 DEF LastSequence
<1>18. KV!StartRead
  BY <1>2, <1>12, <1>16, <1>17 DEF KV!StartRead, Store, Snaps, Reading
<1> QED  BY <1>18 DEF KV!Next

\* A Get returns, or an iterator is deleted.
LEMMA EndReadIsKV ==
  ASSUME StoreInv, OrderInv, ViewInv, Viewed, Viewed', [Next]_vars,
         UNCHANGED <<hist, snapshots>>, reader.kind # "none", reader'.kind = "none"
  PROVE  KV!Next
<1>1. Store' = Store /\ Snaps' = Snaps
  BY QuietStore, QuietSnaps
<1>2. PICK f : Reading = <<f>>
  BY DEF Viewed
<1>3. Reading' = <<>>
  BY DEF Viewed
<1>4. PICK r, t, n : r = <<f>> /\ t = <<>> /\ n = 1
  OBVIOUS
<1>5. List(n, r) /\ List(n - 1, t) /\ n \in 1..n /\ n \in Nat
  BY <1>4 DEF List
<1>6. \A j \in 1..(n - 1) : t[j] = r[IF j < n THEN j ELSE j + 1]
  BY <1>4
<1>7. Cut(r, n, t)
  BY <1>5, <1>6, WithoutIs
<1>8. Reading' = SubSeq(Reading, 1, n - 1) \o SubSeq(Reading, n + 1, Len(Reading))
  BY <1>2, <1>3, <1>4, <1>7 DEF Cut
<1>9. LastSequence' = LastSequence
  BY DEF LastSequence
<1>10. KV!EndRead(n)
  BY <1>1, <1>8, <1>9 DEF KV!EndRead, Store, Snaps, Reading
<1>11. n \in DOMAIN Reading
  BY <1>2, <1>4
<1> QED  BY <1>10, <1>11 DEF KV!Next, Reading

\* Every step of DBStore is a step of KVStore, or a stutter.
LEMMA RefinementStep ==
  ASSUME StoreInv, OrderInv, ViewInv, Viewed, Viewed', [Next]_vars
  PROVE  [KV!Next]_(KV!vars)
<1>1. ASSUME NEW k \in Keys, NEW del \in Deletions, Write(k, del) PROVE KV!Next
  BY <1>1, WriteIsKV
<1>2. CASE UNCHANGED <<hist, snapshots, reader>>
  BY <1>2, StuttersKV
<1>3. CASE GetSnapshot
  BY <1>3, SnapshotIsKV
<1>4. ASSUME NEW i \in DOMAIN snapshots, ReleaseSnapshot(i) PROVE KV!Next
  BY <1>4, ReleaseIsKV
<1>5. ASSUME NEW kind \in {"get", "iterator"}, StartRead(kind) PROVE KV!Next
  BY <1>5, StartReadIsKV
<1>6. (\E k \in Keys : FinishGet(k)) \/ DeleteIterator =>
        /\ UNCHANGED <<hist, snapshots>> /\ reader.kind # "none" /\ reader'.kind = "none"
  BY DEF FinishGet, DeleteIterator, NoReader
<1>7. CASE (\E k \in Keys : FinishGet(k)) \/ DeleteIterator
  BY <1>6, <1>7, EndReadIsKV
<1>8. TrivialMove(Choice) \/ DoCompactionWork(Choice) \/ WriteOutputs \/ InstallCompactionResults
        => UNCHANGED <<hist, snapshots, reader>>
  BY DEF TrivialMove, DoCompactionWork, WriteOutputs, InstallCompactionResults, users
<1> QED  BY <1>1, <1>2, <1>3, <1>4, <1>5, <1>7, <1>8, StepViews DEF ViewKinds, Quiet

LEMMA RefinementInit ==
  ASSUME Init, Viewed
  PROVE  KV!Init
<1>1. /\ \A l \in Levels : current[l] = {}
      /\ mem = {} /\ ImmEntries = {} /\ LastSequence = 0
      /\ reader.kind = "none" /\ snapshots = <<>>
  BY DEF Init, NoVersion, NoReader, ImmEntries, LastSequence
<1>2. PICK E : E = HeldNow
  OBVIOUS
<1>3. E = {}
  <2>1. \A e : e \notin E
    BY <1>1, <1>2, HeldNowHas
  <2> QED  BY <2>1
<1>4. PICK f, s : f = Store /\ s = LastSequence
  OBVIOUS
<1>5. Shows(f, E, s)
  BY <1>2, <1>4 DEF Viewed
<1>6. f = [k \in Keys |-> None]
  BY <1>3, <1>5 DEF Shows, Shown, Newest
<1>7. Reading = <<>>
  BY <1>1 DEF Viewed
<1>8. Snaps = <<>>
  BY <1>1 DEF Snaps
<1> QED  BY <1>1, <1>4, <1>6, <1>7, <1>8 DEF KV!Init, Store, Snaps, Reading

\* ImplementsKVStore of DBStore: whatever is flushed, moved, compacted and
\* deleted under them, a Get, a snapshot and an iterator see the map that the
\* writes made, from their start to their end (KVStore), as long as no compaction
\* splits a key and no memtable is flushed into a gap between its inputs.
THEOREM StoreImplementsKV == Spec /\ []Unsplit /\ []NoGap => ImplementsKVStore
<1>1. Init => OrderInv /\ DisjointInv /\ ViewInv
  BY OrderInit, DisjointInit, ViewInit
<1>2. StoreInv /\ OrderInv /\ Unsplit /\ [Next]_vars => OrderInv'
  BY OrderStep
<1>3. StoreInv /\ DisjointInv /\ NoGap /\ [Next]_vars => DisjointInv'
  BY DisjointStep
<1>4. StoreInv /\ OrderInv /\ DisjointInv /\ ViewInv /\ [Next]_vars => ViewInv'
  BY ViewStep
<1>5. StoreInv /\ OrderInv /\ DisjointInv /\ ViewInv => Viewed
  BY InvariantsView
<1>6. Init /\ Viewed => KV!Init
  BY RefinementInit
<1>7. StoreInv /\ OrderInv /\ ViewInv /\ Viewed /\ Viewed' /\ [Next]_vars => [KV!Next]_(KV!vars)
  BY RefinementStep
<1> QED  BY <1>1, <1>2, <1>3, <1>4, <1>5, <1>6, <1>7, StoreIsSound, PTL DEF Spec, ImplementsKVStore, KV!Spec

\* The same without a condition on compactions: it holds of every store that is
\* used without snapshots and without CompactRange.
THEOREM PlainStoreImplementsKV == Spec /\ [](snapshots = <<>>) /\ []~manual => ImplementsKVStore
<1>1. Init => DisjointInv /\ WholeInv /\ GapInv
  BY DisjointInit DEF Init, WholeInv, GapInv
<1>2. WholeInv => Unsplit
  BY DEF WholeInv, Whole, Unsplit, Pending
<1>3. GapInv => NoGap
  BY DEF GapInv, GapFree, NoGap
<1>4. StoreInv /\ OrderInv /\ WholeInv /\ snapshots = <<>> /\ [Next]_vars => WholeInv'
  BY WholeStep
<1>5. StoreInv /\ DisjointInv /\ NoGap /\ [Next]_vars => DisjointInv'
  BY DisjointStep
<1>6. StoreInv /\ DisjointInv /\ GapInv /\ ~manual /\ [Next]_vars => GapInv'
  BY GapStep
<1>7. Init => OrderInv
  BY OrderInit
<1>8. StoreInv /\ OrderInv /\ Unsplit /\ [Next]_vars => OrderInv'
  BY OrderStep
<1> QED  BY <1>1, <1>2, <1>3, <1>4, <1>5, <1>6, <1>7, <1>8, StoreIsSound, StoreImplementsKV, PTL DEF Spec
=============================================================================
