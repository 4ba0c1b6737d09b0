------------------------- MODULE IteratorsProofs -------------------------
(***************************************************************************)
(* An iterator reads its snapshot, for any keys, entries and number of     *)
(* children, and however many entries are written while it runs.           *)
(***************************************************************************)
EXTENDS Iterators, FiniteSetTheorems, WellFoundedInduction, TLAPS

-----------------------------------------------------------------------------
(* Numbers.                                                                *)

\* A set of numbers that is not empty has a least one.
LEMMA LeastNumber ==
  ASSUME NEW S \in SUBSET Nat, S # {}
  PROVE  Min(S) \in S /\ \A m \in S : Min(S) <= m
<1> DEFINE R == OpToRel(<, Nat)
<1>1. \A n, m \in Nat : m < n => <<m, n>> \in R
  BY DEF OpToRel
<1>2. IsWellFoundedOn(R, Nat)
  BY NatLessThanWellFounded
<1> HIDE DEF R
<1>3. PICK n \in S : \A m \in S : <<m, n>> \notin R
  BY <1>2, WFMin
<1>4. \A m \in S : n <= m
  <2> SUFFICES ASSUME NEW m \in S PROVE n <= m
    OBVIOUS
  <2>1. n \in Nat /\ m \in Nat /\ ~(m < n)
    BY <1>1, <1>3
  <2> QED  BY <2>1
<1>5. \E x \in S : \A y \in S : x <= y
  BY <1>4
<1> QED  BY <1>5 DEF Min

\* A finite set of numbers is bounded: there is no least one that is not.
LEMMA FiniteBound ==
  ASSUME NEW S \in SUBSET Nat, IsFiniteSet(S)
  PROVE  \E n \in Nat : \A m \in S : m <= n
<1> DEFINE Bounded(T) == \E n \in Nat : \A m \in T : m <= n
           D == {T \in FiniteSubsetsOf(S) : ~Bounded(T)}
           R == StrictSubsetOrdering(S)
<1>1. SUFFICES ASSUME ~Bounded(S) PROVE FALSE
  OBVIOUS
<1>2. S \in D
  BY <1>1 DEF FiniteSubsetsOf
<1>3. IsWellFoundedOn(R, FiniteSubsetsOf(S))
  BY FS_StrictSubsetOrderingWellFounded
<1>4. D \in SUBSET FiniteSubsetsOf(S) /\ D # {}
  BY <1>2
<1> HIDE DEF D, R
<1>5. PICK T \in D : \A U \in D : <<U, T>> \notin R
  BY <1>3, <1>4, WFMin
<1>6. T \in SUBSET S /\ IsFiniteSet(T) /\ ~Bounded(T)
  BY <1>5 DEF D, FiniteSubsetsOf
<1>7. PICK x \in T : TRUE
  <2>1. 0 \in Nat
    OBVIOUS
  <2> QED  BY <1>6, <2>1
<1>8. T \ {x} \in FiniteSubsetsOf(S)
  BY <1>6, FS_RemoveElement DEF FiniteSubsetsOf
<1>9. <<T \ {x}, T>> \in R
  BY <1>6, <1>7 DEF R, StrictSubsetOrdering
<1>10. Bounded(T \ {x})
  BY <1>5, <1>8, <1>9 DEF D
<1>11. PICK n \in Nat : \A m \in T \ {x} : m <= n
  BY <1>10
<1>12. n + x \in Nat /\ \A m \in T : m <= n + x
  <2>1. x \in Nat /\ \A m \in T : m \in Nat
    BY <1>6, <1>7
  <2>2. \A m \in T : m = x \/ m <= n
    BY <1>11
  <2> QED  BY <2>1, <2>2
<1> QED  BY <1>6, <1>12

\* A finite set of numbers that is not empty has a greatest one.
LEMMA GreatestNumber ==
  ASSUME NEW S \in SUBSET Nat, S # {}, IsFiniteSet(S)
  PROVE  Max(S) \in S /\ \A m \in S : m <= Max(S)
<1> DEFINE D == {x \in Nat : \A m \in S : m <= x}
<1>1. D \in SUBSET Nat /\ D # {}
  BY FiniteBound
<1>2. PICK x \in D : \A y \in D : x <= y
  BY <1>1, LeastNumber
<1>3. x \in S
  <2> SUFFICES ASSUME x \notin S PROVE FALSE
    OBVIOUS
  <2>1. PICK s \in S : TRUE
    OBVIOUS
  <2>2. x \in Nat /\ s \in Nat /\ s <= x /\ s # x
    BY <2>1
  <2>3. x - 1 \in D
    <3>1. x - 1 \in Nat
      BY <2>2
    <3>2. \A m \in S : m \in Nat /\ m <= x /\ m # x
      BY <1>2
    <3> QED  BY <3>1, <3>2, <2>2
  <2>4. x <= x - 1
    BY <1>2, <2>3
  <2> QED  BY <2>2, <2>4
<1>4. \E y \in S : \A m \in S : y >= m
  BY <1>2, <1>3
<1> QED  BY <1>4 DEF Max

\* An internal key tells the user key and the sequence number that it is made of.
LEMMA KeyFacts ==
  ASSUME NEW k \in Nat, NEW s \in 0..Last_
  PROVE  Key(k, s) \in Nat /\ UserKeyOf(Key(k, s)) = k /\ SequenceOf(Key(k, s)) = s
<1>1. PICK n \in Nat : n = Last_
  BY IterAssumption DEF Last_
<1>2. s \in Nat /\ s <= n /\ n - s \in 0..n
  BY <1>1
<1>3. Key(k, s) = k * (n + 1) + (n - s)
  BY <1>1 DEF Key
<1>4. k * (n + 1) \in Nat
  OBVIOUS
<1>5. Key(k, s) \in Nat
  BY <1>2, <1>3, <1>4
<1>6. (k * (n + 1) + (n - s)) \div (n + 1) = k /\ (k * (n + 1) + (n - s)) % (n + 1) = n - s
  <2>1. PICK r \in 0..n : r = n - s
    BY <1>2
  <2>2. (k * (n + 1) + r) \div (n + 1) = k /\ (k * (n + 1) + r) % (n + 1) = r
    BY SMTT(60)
  <2> QED  BY <2>1, <2>2
<1>7. UserKeyOf(Key(k, s)) = k
  BY <1>1, <1>3, <1>6 DEF UserKeyOf
<1>8. SequenceOf(Key(k, s)) = n - (n - s)
  BY <1>1, <1>3, <1>6 DEF SequenceOf
<1>9. n - (n - s) = s
  BY <1>2
<1> QED  BY <1>5, <1>7, <1>8, <1>9

\* Internal keys are in the order of their user keys, and an entry that the
\* iterator sees is not before what a search for its user key looks for.
LEMMA KeyOrder ==
  ASSUME NEW j \in Nat, NEW k \in Nat, NEW s \in 0..Last_, NEW t \in 0..Last_
  PROVE  /\ j < k => Key(j, s) < Key(k, t)
         /\ j <= k /\ t <= s => Key(j, s) <= Key(k, t)
<1>1. PICK n \in Nat : n = Last_
  BY IterAssumption DEF Last_
<1>2. Key(j, s) = j * (n + 1) + (n - s) /\ Key(k, t) = k * (n + 1) + (n - t)
  BY <1>1 DEF Key
<1>3. s \in Nat /\ t \in Nat /\ s <= n /\ t <= n
  BY <1>1
<1>4. j * (n + 1) \in Nat /\ k * (n + 1) \in Nat
  OBVIOUS
<1>5. ASSUME j < k
      PROVE  j * (n + 1) + (n + 1) <= k * (n + 1)
  <2>1. k - j - 1 \in Nat
    BY <1>5
  <2>2. (k - j - 1) * (n + 1) \in Nat
    BY <2>1
  <2>3. (k - j - 1) * (n + 1) = k * (n + 1) - j * (n + 1) - (n + 1)
    OBVIOUS
  <2> QED  BY <1>4, <2>2, <2>3
<1>6. j < k => Key(j, s) < Key(k, t)
  BY <1>2, <1>3, <1>4, <1>5
<1>7. j = k /\ t <= s => Key(j, s) <= Key(k, t)
  BY <1>2, <1>3, <1>4
<1>8. j <= k => j < k \/ j = k
  OBVIOUS
<1>9. Key(j, s) \in Int /\ Key(k, t) \in Int
  BY <1>2, <1>3, <1>4
<1> QED  BY <1>6, <1>7, <1>8, <1>9

-----------------------------------------------------------------------------
(* The inductive invariant.                                                *)

\* Every entry has a sequence number of its own, and so one child.
EntriesOK ==
  /\ seq_ \in Nat /\ OldEntries <= seq_ /\ seq_ <= Last_
  /\ DOMAIN contents = Children
  /\ \A c \in Children :
       /\ IsFiniteSet(contents[c])
       /\ \A e \in contents[c] : \E k \in IterKeys, s \in 1..seq_ : e = Key(k, s)
       /\ \A d \in Children : c # d => contents[c] \cap contents[d] = {}

\* What the iterator sees: later entries of the memtable are not visible.
Seen == {e \in Entries : Visible(e)}

\* The entries that the merge has not passed, on its way forward or back
Ahead(m, e) == MergeValid(m) /\ e >= MergeKey(m)
Behind(m, e) == MergeValid(m) /\ e <= MergeKey(m)

\* The merge is at the first position of its direction, and no child has passed an
\* entry that the iterator sees and the merge has not come to.  A child may have
\* passed an entry that was written meanwhile.
MergeOK(m) ==
  /\ DOMAIN m.pos = Children
  /\ \A c \in Children : m.pos[c] = Invalid \/ m.pos[c] \in contents[c]
  /\ m.current \in Children \cup {0}
  /\ m.current = 0 => \A c \in Children : m.pos[c] = Invalid
  /\ m.current # 0 => m.pos[m.current] # Invalid
  /\ m.direction \in {"forward", "reverse"}
  /\ m.direction = "forward" => \A c \in Children :
       /\ m.pos[c] # Invalid => Ahead(m, m.pos[c])
       /\ \A e \in contents[c] : Visible(e) /\ Ahead(m, e) => m.pos[c] # Invalid /\ m.pos[c] <= e
  /\ m.direction = "reverse" => \A c \in Children :
       /\ m.pos[c] # Invalid => Behind(m, m.pos[c])
       /\ \A e \in contents[c] : Visible(e) /\ Behind(m, e) => m.pos[c] # Invalid /\ m.pos[c] >= e

\* The entries shown that a search that is under way may still come to
NextShown(i) ==
  {e \in Shown : Ahead(i.m, e) /\ (i.skipping => UserKeyOf(e) > i.saved)}
PrevShown(i) ==
  {e \in Shown : Behind(i.m, e) \/ (i.type = "value" /\ e = i.value)}

\* A call has returned; FindNextUserEntry, the loop of Prev and FindPrevUserEntry
\* are under way.
AtRest(i, w) ==
  IF ~i.valid THEN w = 0
  ELSE IF i.direction = "forward"
  THEN /\ i.m.direction = "forward" /\ MergeValid(i.m)
       /\ MergeKey(i.m) \in Shown /\ w = UserKeyOf(MergeKey(i.m))
  ELSE /\ i.m.direction = "reverse"
       /\ i.value \in Shown /\ w = UserKeyOf(i.value) /\ w = i.saved
       /\ \A e \in Seen : Behind(i.m, e) <=> UserKeyOf(e) < w

Forwards(i, w) ==
  /\ i.m.direction = "forward" /\ i.direction = "forward"
  /\ i.skipping => \A e \in Seen : IF Ahead(i.m, e) THEN UserKeyOf(e) >= i.saved
                                  ELSE UserKeyOf(e) <= i.saved
  /\ ~i.skipping => \A e, f \in Seen :
       ~Ahead(i.m, e) /\ Ahead(i.m, f) => UserKeyOf(e) < UserKeyOf(f)
  /\ w = SmallestKey({UserKeyOf(e) : e \in NextShown(i)})

LeavesKey(i, w) ==
  /\ i.m.direction = "reverse"
  /\ \A e \in Seen : ~Behind(i.m, e) => UserKeyOf(e) >= i.saved
  /\ w = LargestKey({j \in ShownKeys : j < i.saved})

Backwards(i, w) ==
  /\ i.m.direction = "reverse" /\ i.direction = "reverse"
  /\ i.type = "value" =>
       /\ i.value \in Seen /\ i.value \notin deletion /\ i.saved = UserKeyOf(i.value)
       /\ \A e \in Seen : Behind(i.m, e) <=> e < i.value
  /\ w = LargestKey({UserKeyOf(e) : e \in PrevShown(i)})

Sound(i, w) ==
  /\ i = [pc |-> i.pc, m |-> i.m, direction |-> i.direction, valid |-> i.valid,
          saved |-> i.saved, value |-> i.value, skipping |-> i.skipping, type |-> i.type]
  /\ i.pc \in {"idle", "next", "back", "prev"} /\ i.direction \in {"forward", "reverse"}
  /\ i.valid \in BOOLEAN /\ i.skipping \in BOOLEAN /\ i.type \in {"value", "deletion"}
  /\ i.saved \in Nat
  /\ MergeOK(i.m)
  /\ i.pc = "idle" => AtRest(i, w)
  /\ i.pc = "next" => Forwards(i, w)
  /\ i.pc = "back" => LeavesKey(i, w)
  /\ i.pc = "prev" => Backwards(i, w)

IterInv == EntriesOK /\ Sound(it, want)

-----------------------------------------------------------------------------
(* The positions of the children.                                          *)

\* The entries are internal keys of the sequence numbers that were written.
LEMMA EntryFacts ==
  ASSUME EntriesOK
  PROVE  /\ Entries \in SUBSET Nat /\ IsFiniteSet(Entries)
         /\ Seen \in SUBSET Entries /\ Shown \in SUBSET Seen
         /\ \A c \in Children : contents[c] \in SUBSET Nat /\ IsFiniteSet(contents[c])
         /\ \A e \in Entries : /\ UserKeyOf(e) \in IterKeys /\ SequenceOf(e) \in 1..seq_
                               /\ e = Key(UserKeyOf(e), SequenceOf(e))
<1>1. \A k \in IterKeys, s \in 1..seq_ : k \in Nat /\ s \in 0..Last_
  BY IterAssumption DEF EntriesOK, Last_
<1>2. \A k \in IterKeys, s \in 1..seq_ :
        Key(k, s) \in Nat /\ UserKeyOf(Key(k, s)) = k /\ SequenceOf(Key(k, s)) = s
  BY <1>1, KeyFacts
<1>3. \A c \in Children : contents[c] \in SUBSET Nat /\ IsFiniteSet(contents[c])
  BY <1>2 DEF EntriesOK
<1>4. \A e \in Entries : \E k \in IterKeys, s \in 1..seq_ : e = Key(k, s)
  BY DEF EntriesOK, Entries
<1>5. \A e \in Entries : e \in Nat /\ UserKeyOf(e) \in IterKeys /\ SequenceOf(e) \in 1..seq_
                         /\ e = Key(UserKeyOf(e), SequenceOf(e))
  BY <1>2, <1>4
<1>6. IsFiniteSet(Entries)
  <2>1. IsFiniteSet(Children)
    BY IterAssumption, FS_Interval DEF Children
  <2>2. PICK f : f = [c \in Children |-> contents[c]]
    OBVIOUS
  <2>3. f \in Surjection(Children, {contents[c] : c \in Children})
    BY <2>2 DEF Surjection
  <2>4. IsFiniteSet({contents[c] : c \in Children})
    BY <2>1, <2>3, FS_Surjection
  <2> QED  BY <1>3, <2>4, FS_UNION DEF Entries
<1> QED  BY <1>3, <1>5, <1>6 DEF Seen, Shown

\* The key that the merge is at is an entry.
LEMMA MergeKeyFacts ==
  ASSUME EntriesOK, NEW m, MergeOK(m), MergeValid(m)
  PROVE  /\ m.current \in Children /\ MergeKey(m) \in contents[m.current]
         /\ MergeKey(m) \in Entries /\ MergeKey(m) \in Nat
<1>1. m.current \in Children /\ m.pos[m.current] \in contents[m.current]
  BY DEF MergeOK, MergeValid
<1> QED  BY <1>1, EntryFacts DEF MergeKey, Entries

\* SmallestOf and LargestOf
LEMMA EndFacts ==
  ASSUME NEW S \in SUBSET Nat, IsFiniteSet(S)
  PROVE  /\ S = {} => SmallestOf(S) = Invalid /\ LargestOf(S) = Invalid
         /\ S # {} => /\ SmallestOf(S) \in S /\ LargestOf(S) \in S
                      /\ \A e \in S : SmallestOf(S) <= e /\ e <= LargestOf(S)
         /\ Invalid \notin S
<1>1. Invalid \notin S
  BY DEF Invalid
<1> QED  BY <1>1, LeastNumber, GreatestNumber DEF SmallestOf, LargestOf

\* A search in a child finds the least entry from the target on, Next and Prev
\* the neighbours of an entry.
LEMMA ChildFacts ==
  ASSUME EntriesOK, NEW c \in Children, NEW t \in Nat
  PROVE  /\ IF \E e \in contents[c] : e >= t
            THEN /\ ChildSeek(c, t) \in contents[c] /\ ChildSeek(c, t) >= t
                 /\ \A e \in contents[c] : e >= t => ChildSeek(c, t) <= e
            ELSE ChildSeek(c, t) = Invalid
         /\ IF \E e \in contents[c] : e > t
            THEN /\ ChildNext(c, t) \in contents[c] /\ ChildNext(c, t) > t
                 /\ \A e \in contents[c] : e > t => ChildNext(c, t) <= e
            ELSE ChildNext(c, t) = Invalid
         /\ IF \E e \in contents[c] : e < t
            THEN /\ ChildPrev(c, t) \in contents[c] /\ ChildPrev(c, t) < t
                 /\ \A e \in contents[c] : e < t => e <= ChildPrev(c, t)
            ELSE ChildPrev(c, t) = Invalid
         /\ IF contents[c] # {}
            THEN /\ ChildFirst(c) \in contents[c] /\ ChildLast(c) \in contents[c]
                 /\ \A e \in contents[c] : ChildFirst(c) <= e /\ e <= ChildLast(c)
            ELSE ChildFirst(c) = Invalid /\ ChildLast(c) = Invalid
<1>1. contents[c] \in SUBSET Nat /\ IsFiniteSet(contents[c])
  BY EntryFacts
<1>2. \A S \in SUBSET contents[c] : S \in SUBSET Nat /\ IsFiniteSet(S)
  BY <1>1, FS_Subset
<1>3. \A S \in SUBSET contents[c] :
         /\ S = {} => SmallestOf(S) = Invalid /\ LargestOf(S) = Invalid
         /\ S # {} => /\ SmallestOf(S) \in S /\ LargestOf(S) \in S
                      /\ \A e \in S : SmallestOf(S) <= e /\ e <= LargestOf(S)
  BY <1>2, EndFacts
<1>4. PICK S : S = {e \in contents[c] : e >= t}
  OBVIOUS
<1>5. PICK N : N = {e \in contents[c] : e > t}
  OBVIOUS
<1>6. PICK P : P = {e \in contents[c] : e < t}
  OBVIOUS
<1>7. ChildSeek(c, t) = SmallestOf(S) /\ ChildNext(c, t) = SmallestOf(N)
      /\ ChildPrev(c, t) = LargestOf(P)
  BY <1>4, <1>5, <1>6 DEF ChildSeek, ChildNext, ChildPrev
<1>8. S \in SUBSET contents[c] /\ N \in SUBSET contents[c] /\ P \in SUBSET contents[c]
  BY <1>4, <1>5, <1>6
<1>9. IF \E e \in contents[c] : e >= t
      THEN /\ ChildSeek(c, t) \in contents[c] /\ ChildSeek(c, t) >= t
           /\ \A e \in contents[c] : e >= t => ChildSeek(c, t) <= e
      ELSE ChildSeek(c, t) = Invalid
  BY <1>3, <1>4, <1>7, <1>8
<1>10. IF \E e \in contents[c] : e > t
       THEN /\ ChildNext(c, t) \in contents[c] /\ ChildNext(c, t) > t
            /\ \A e \in contents[c] : e > t => ChildNext(c, t) <= e
       ELSE ChildNext(c, t) = Invalid
  BY <1>3, <1>5, <1>7, <1>8
<1>11. IF \E e \in contents[c] : e < t
       THEN /\ ChildPrev(c, t) \in contents[c] /\ ChildPrev(c, t) < t
            /\ \A e \in contents[c] : e < t => e <= ChildPrev(c, t)
       ELSE ChildPrev(c, t) = Invalid
  BY <1>3, <1>6, <1>7, <1>8
<1>12. IF contents[c] # {}
       THEN /\ ChildFirst(c) \in contents[c] /\ ChildLast(c) \in contents[c]
            /\ \A e \in contents[c] : ChildFirst(c) <= e /\ e <= ChildLast(c)
       ELSE ChildFirst(c) = Invalid /\ ChildLast(c) = Invalid
  BY <1>3 DEF ChildFirst, ChildLast
<1> QED  BY <1>9, <1>10, <1>11, <1>12

-----------------------------------------------------------------------------
(* The merge.                                                              *)

\* FindSmallest: the merge is at the least of the positions.
LEMMA PositionedForward ==
  ASSUME EntriesOK, NEW pos, DOMAIN pos = Children, NEW t \in Int,
         \A c \in Children : pos[c] = Invalid \/ (pos[c] \in contents[c] /\ pos[c] >= t),
         \A c \in Children : \A e \in contents[c] :
           Visible(e) /\ e >= t => pos[c] # Invalid /\ pos[c] <= e,
         NEW m, m = Positioned(pos, "forward")
  PROVE  /\ MergeOK(m) /\ m.direction = "forward"
         /\ \A e \in Seen : Ahead(m, e) <=> e >= t
<1>1. PICK valid : valid = {c \in Children : pos[c] # Invalid}
  OBVIOUS
<1>2. PICK keys : keys = {pos[c] : c \in valid}
  OBVIOUS
<1>3. PICK key : key = Min(keys)
  OBVIOUS
<1>4. PICK first : first = CHOOSE c \in valid : pos[c] = key
  OBVIOUS
<1>5. m.pos = pos /\ m.direction = "forward" /\ m.current = IF valid = {} THEN 0 ELSE first
  <2>1. m = [pos |-> pos, direction |-> "forward", current |-> IF valid = {} THEN 0 ELSE first]
    BY <1>1, <1>2, <1>3, <1>4 DEF Positioned
  <2> QED  BY <2>1
<1>6. 0 \notin Children /\ \A c \in Children : contents[c] \in SUBSET Nat
  BY EntryFacts DEF Children
<1>7. \A e \in Seen : e \in Nat /\ Visible(e) /\ \E c \in Children : e \in contents[c]
  BY EntryFacts DEF Seen, Entries
<1>8. CASE valid = {}
  <2>1. m.current = 0 /\ \A c \in Children : pos[c] = Invalid
    BY <1>1, <1>5, <1>8
  <2>2. \A e : ~Ahead(m, e)
    BY <2>1 DEF Ahead, MergeValid
  <2>3. MergeOK(m)
    BY <1>5, <2>1, <2>2 DEF MergeOK
  <2>4. \A e \in Seen : ~(e >= t)
    BY <1>7, <2>1
  <2> QED  BY <1>5, <2>2, <2>3, <2>4
<1>9. CASE valid # {}
  <2>1. keys \in SUBSET Nat /\ keys # {}
    BY <1>1, <1>2, <1>6, <1>9
  <2>2. key \in keys /\ \A k \in keys : key <= k
    BY <1>3, <2>1, LeastNumber
  <2>3. m.current \in valid /\ pos[m.current] = key
    <3>1. \E c \in valid : pos[c] = key
      BY <1>2, <2>2
    <3>2. first \in valid /\ pos[first] = key
      BY <1>4, <3>1
    <3> QED  BY <1>5, <1>9, <3>2
  <2>4. m.current \in Children /\ m.current # 0 /\ MergeValid(m) /\ MergeKey(m) = key
    BY <1>1, <1>5, <1>6, <2>3 DEF MergeValid, MergeKey
  <2>5. \A c \in Children : pos[c] # Invalid => key <= pos[c] /\ pos[c] \in Nat
    BY <1>1, <1>2, <2>1, <2>2
  <2>6. key \in Nat /\ key >= t /\ key # Invalid
    BY <1>1, <2>1, <2>2, <2>3
  <2>7. \A e : Ahead(m, e) <=> e >= key
    BY <2>4 DEF Ahead
  <2>8. \A c \in Children : \A e \in contents[c] :
          Visible(e) /\ e >= key => pos[c] # Invalid /\ pos[c] <= e
    <3>1. \A c \in Children : \A e \in contents[c] : e >= key => e >= t
      BY <1>6, <2>6
    <3> QED  BY <3>1
  <2>9. MergeOK(m)
    BY <1>5, <2>3, <2>4, <2>5, <2>6, <2>7, <2>8 DEF MergeOK
  <2>10. \A e \in Seen : e >= key <=> e >= t
    <3> SUFFICES ASSUME NEW e \in Seen PROVE e >= key <=> e >= t
      OBVIOUS
    <3>1. PICK c \in Children : e \in contents[c]
      BY <1>7
    <3>2. e >= t => pos[c] # Invalid /\ pos[c] <= e
      BY <1>7, <3>1
    <3> QED  BY <1>7, <2>5, <2>6, <3>2
  <2> QED  BY <1>5, <2>7, <2>9, <2>10
<1> QED  BY <1>8, <1>9

\* FindLargest: the merge is at the greatest of the positions.
LEMMA PositionedReverse ==
  ASSUME EntriesOK, NEW pos, DOMAIN pos = Children, NEW t \in Int,
         \A c \in Children : pos[c] = Invalid \/ (pos[c] \in contents[c] /\ pos[c] <= t),
         \A c \in Children : \A e \in contents[c] :
           Visible(e) /\ e <= t => pos[c] # Invalid /\ pos[c] >= e,
         NEW m, m = Positioned(pos, "reverse")
  PROVE  /\ MergeOK(m) /\ m.direction = "reverse"
         /\ \A e \in Seen : Behind(m, e) <=> e <= t
<1>1. PICK valid : valid = {c \in Children : pos[c] # Invalid}
  OBVIOUS
<1>2. PICK keys : keys = {pos[c] : c \in valid}
  OBVIOUS
<1>3. PICK key : key = Max(keys)
  OBVIOUS
<1>4. PICK first : first = CHOOSE c \in valid : pos[c] = key
  OBVIOUS
<1>5. m.pos = pos /\ m.direction = "reverse" /\ m.current = IF valid = {} THEN 0 ELSE first
  <2>1. m = [pos |-> pos, direction |-> "reverse", current |-> IF valid = {} THEN 0 ELSE first]
    BY <1>1, <1>2, <1>3, <1>4 DEF Positioned
  <2> QED  BY <2>1
<1>6. 0 \notin Children /\ \A c \in Children : contents[c] \in SUBSET Nat
  BY EntryFacts DEF Children
<1>7. \A e \in Seen : e \in Nat /\ Visible(e) /\ \E c \in Children : e \in contents[c]
  BY EntryFacts DEF Seen, Entries
<1>8. CASE valid = {}
  <2>1. m.current = 0 /\ \A c \in Children : pos[c] = Invalid
    BY <1>1, <1>5, <1>8
  <2>2. \A e : ~Behind(m, e)
    BY <2>1 DEF Behind, MergeValid
  <2>3. MergeOK(m)
    BY <1>5, <2>1, <2>2 DEF MergeOK
  <2>4. \A e \in Seen : ~(e <= t)
    BY <1>7, <2>1
  <2> QED  BY <1>5, <2>2, <2>3, <2>4
<1>9. CASE valid # {}
  <2>1. keys \in SUBSET Nat /\ keys # {} /\ IsFiniteSet(keys)
    <3>1. keys \in SUBSET Entries
      BY <1>1, <1>2 DEF Entries
    <3> QED  BY <1>2, <1>9, <3>1, EntryFacts, FS_Subset
  <2>2. key \in keys /\ \A k \in keys : k <= key
    BY <1>3, <2>1, GreatestNumber
  <2>3. m.current \in valid /\ pos[m.current] = key
    <3>1. \E c \in valid : pos[c] = key
      BY <1>2, <2>2
    <3>2. first \in valid /\ pos[first] = key
      BY <1>4, <3>1
    <3> QED  BY <1>5, <1>9, <3>2
  <2>4. m.current \in Children /\ m.current # 0 /\ MergeValid(m) /\ MergeKey(m) = key
    BY <1>1, <1>5, <1>6, <2>3 DEF MergeValid, MergeKey
  <2>5. \A c \in Children : pos[c] # Invalid => pos[c] <= key /\ pos[c] \in Nat
    BY <1>1, <1>2, <2>1, <2>2
  <2>6. key \in Nat /\ key <= t /\ key # Invalid
    BY <1>1, <2>1, <2>2, <2>3
  <2>7. \A e : Behind(m, e) <=> e <= key
    BY <2>4 DEF Behind
  <2>8. \A c \in Children : \A e \in contents[c] :
          Visible(e) /\ e <= key => pos[c] # Invalid /\ pos[c] >= e
    <3>1. \A c \in Children : \A e \in contents[c] : e <= key => e <= t
      BY <1>6, <2>6
    <3> QED  BY <3>1
  <2>9. MergeOK(m)
    BY <1>5, <2>3, <2>4, <2>5, <2>6, <2>7, <2>8 DEF MergeOK
  <2>10. \A e \in Seen : e <= key <=> e <= t
    <3> SUFFICES ASSUME NEW e \in Seen PROVE e <= key <=> e <= t
      OBVIOUS
    <3>1. PICK c \in Children : e \in contents[c]
      BY <1>7
    <3>2. e <= t => pos[c] # Invalid /\ pos[c] >= e
      BY <1>7, <3>1
    <3> QED  BY <1>7, <2>5, <2>6, <3>2
  <2> QED  BY <1>5, <2>7, <2>9, <2>10
<1> QED  BY <1>8, <1>9


\* MergingIterator::SeekToFirst, SeekToLast and Seek
LEMMA MergeSeekFacts ==
  ASSUME EntriesOK
  PROVE  /\ /\ MergeOK(MergeFirst) /\ MergeFirst.direction = "forward"
            /\ \A e \in Seen : Ahead(MergeFirst, e)
         /\ /\ MergeOK(MergeLast) /\ MergeLast.direction = "reverse"
            /\ \A e \in Seen : Behind(MergeLast, e)
         /\ \A t \in Nat : LET m == MergeSeek(t)
                           IN  /\ MergeOK(m) /\ m.direction = "forward"
                               /\ \A e \in Seen : Ahead(m, e) <=> e >= t
<1>1. \A e \in Seen : e \in Nat /\ e \in Entries
  BY EntryFacts
<1>2. \A c \in Children : contents[c] \in SUBSET Nat
  BY EntryFacts
<1>3. /\ MergeOK(MergeFirst) /\ MergeFirst.direction = "forward"
      /\ \A e \in Seen : Ahead(MergeFirst, e)
  <2>1. PICK pos : pos = [c \in Children |-> ChildFirst(c)]
    OBVIOUS
  <2>2. DOMAIN pos = Children /\ \A c \in Children : pos[c] = ChildFirst(c)
    BY <2>1
  <2>3. MergeFirst = Positioned(pos, "forward")
    BY <2>1 DEF MergeFirst
  <2>4. \A c \in Children :
          IF contents[c] # {}
          THEN ChildFirst(c) \in contents[c] /\ \A e \in contents[c] : ChildFirst(c) <= e
          ELSE ChildFirst(c) = Invalid
    <3>1. 0 \in Nat
      OBVIOUS
    <3> QED  BY <3>1, ChildFacts
  <2>5. \A c \in Children : \A e \in contents[c] : e \in Nat /\ e # Invalid
    BY <1>2 DEF Invalid
  <2>6. \A c \in Children : pos[c] = Invalid \/ (pos[c] \in contents[c] /\ pos[c] >= 0)
    BY <2>2, <2>4, <2>5
  <2>7. \A c \in Children : \A e \in contents[c] :
          Visible(e) /\ e >= 0 => pos[c] # Invalid /\ pos[c] <= e
    BY <2>2, <2>4, <2>5
  <2>8. PICK zero \in Int : zero = 0
    OBVIOUS
  <2>9. /\ MergeOK(MergeFirst) /\ MergeFirst.direction = "forward"
        /\ \A e \in Seen : Ahead(MergeFirst, e) <=> e >= zero
    BY <2>2, <2>3, <2>6, <2>7, <2>8, PositionedForward
  <2> QED  BY <1>1, <2>8, <2>9
<1>4. /\ MergeOK(MergeLast) /\ MergeLast.direction = "reverse"
      /\ \A e \in Seen : Behind(MergeLast, e)
  <2>1. PICK pos : pos = [c \in Children |-> ChildLast(c)]
    OBVIOUS
  <2>2. DOMAIN pos = Children /\ \A c \in Children : pos[c] = ChildLast(c)
    BY <2>1
  <2>3. MergeLast = Positioned(pos, "reverse")
    BY <2>1 DEF MergeLast
  <2>4. \A c \in Children :
          IF contents[c] # {}
          THEN ChildLast(c) \in contents[c] /\ \A e \in contents[c] : e <= ChildLast(c)
          ELSE ChildLast(c) = Invalid
    <3>1. 0 \in Nat
      OBVIOUS
    <3> QED  BY <3>1, ChildFacts
  <2>5. PICK top \in Nat : \A e \in Entries : e <= top
    BY EntryFacts, FiniteBound
  <2>6. \A c \in Children : \A e \in contents[c] : e \in Nat /\ e # Invalid /\ e <= top
    BY <1>2, <2>5 DEF Invalid, Entries
  <2>7. \A c \in Children : pos[c] = Invalid \/ (pos[c] \in contents[c] /\ pos[c] <= top)
    BY <2>2, <2>4, <2>6
  <2>8. \A c \in Children : \A e \in contents[c] :
          Visible(e) /\ e <= top => pos[c] # Invalid /\ pos[c] >= e
    BY <2>2, <2>4, <2>6
  <2>9. /\ MergeOK(MergeLast) /\ MergeLast.direction = "reverse"
        /\ \A e \in Seen : Behind(MergeLast, e) <=> e <= top
    <3>1. top \in Int
      OBVIOUS
    <3> QED  BY <3>1, <2>2, <2>3, <2>7, <2>8, PositionedReverse
  <2> QED  BY <1>1, <2>5, <2>9
<1>5. ASSUME NEW t \in Nat, NEW m, m = MergeSeek(t)
      PROVE  /\ MergeOK(m) /\ m.direction = "forward"
             /\ \A e \in Seen : Ahead(m, e) <=> e >= t
  <2>1. PICK pos : pos = [c \in Children |-> ChildSeek(c, t)]
    OBVIOUS
  <2>2. DOMAIN pos = Children /\ \A c \in Children : pos[c] = ChildSeek(c, t)
    BY <2>1
  <2>3. m = Positioned(pos, "forward")
    BY <1>5, <2>1 DEF MergeSeek
  <2>4. \A c \in Children :
          IF \E e \in contents[c] : e >= t
          THEN /\ ChildSeek(c, t) \in contents[c] /\ ChildSeek(c, t) >= t
               /\ \A e \in contents[c] : e >= t => ChildSeek(c, t) <= e
          ELSE ChildSeek(c, t) = Invalid
    BY ChildFacts
  <2>5. \A c \in Children : \A e \in contents[c] : e \in Nat /\ e # Invalid
    BY <1>2 DEF Invalid
  <2>6. \A c \in Children : pos[c] = Invalid \/ (pos[c] \in contents[c] /\ pos[c] >= t)
    BY <2>2, <2>4
  <2>7. \A c \in Children : \A e \in contents[c] :
          Visible(e) /\ e >= t => pos[c] # Invalid /\ pos[c] <= e
    BY <2>2, <2>4, <2>5
  <2>8. t \in Int
    OBVIOUS
  <2> QED  BY <2>2, <2>3, <2>6, <2>7, <2>8, PositionedForward
<1> QED  BY <1>3, <1>4, <1>5

\* Next leaves exactly the visible entries up to the current one behind, in
\* whatever direction the merge was going.
LEMMA MergeNextFacts ==
  ASSUME EntriesOK, NEW m, MergeOK(m), MergeValid(m), NEW n, n = MergeNext(m)
  PROVE  /\ MergeOK(n) /\ n.direction = "forward"
         /\ \A e \in Seen : Ahead(n, e) <=> e > MergeKey(m)
<1>1. PICK key : key = MergeKey(m)
  OBVIOUS
<1>2. key \in Nat /\ m.current \in Children /\ key \in contents[m.current]
  BY <1>1, MergeKeyFacts
<1>3. PICK others : others =
        IF m.direction = "forward" THEN m.pos
        ELSE [c \in Children |-> LET s == ChildSeek(c, key)
                                 IN  IF s = key THEN ChildNext(c, s) ELSE s]
  OBVIOUS
<1>4. PICK pos : pos = [others EXCEPT ![m.current] = ChildNext(m.current, key)]
  OBVIOUS
<1>5. n = Positioned(pos, "forward")
  BY <1>1, <1>3, <1>4 DEF MergeNext
<1>6. DOMAIN others = Children
  BY <1>3 DEF MergeOK
<1>7. /\ DOMAIN pos = Children /\ pos[m.current] = ChildNext(m.current, key)
      /\ \A c \in Children : c # m.current => pos[c] = others[c]
  BY <1>2, <1>4, <1>6
<1>8. \A c \in Children : \A e \in contents[c] : e \in Nat /\ e # Invalid
  BY EntryFacts DEF Invalid
<1>9. \A c \in Children :
        /\ IF \E e \in contents[c] : e >= key
           THEN /\ ChildSeek(c, key) \in contents[c] /\ ChildSeek(c, key) >= key
                /\ \A e \in contents[c] : e >= key => ChildSeek(c, key) <= e
           ELSE ChildSeek(c, key) = Invalid
        /\ IF \E e \in contents[c] : e > key
           THEN /\ ChildNext(c, key) \in contents[c] /\ ChildNext(c, key) > key
                /\ \A e \in contents[c] : e > key => ChildNext(c, key) <= e
           ELSE ChildNext(c, key) = Invalid
  BY <1>2, ChildFacts
<1>10. ASSUME NEW c \in Children, c # m.current
       PROVE  /\ others[c] = Invalid \/ (others[c] \in contents[c] /\ others[c] >= key + 1)
              /\ \A e \in contents[c] : Visible(e) /\ e >= key + 1 =>
                   others[c] # Invalid /\ others[c] <= e
  <2>1. key \notin contents[c]
    BY <1>2, <1>10 DEF EntriesOK
  <2>2. CASE m.direction = "forward"
    <3>1. others[c] = m.pos[c] /\ (others[c] = Invalid \/ others[c] \in contents[c])
      BY <1>3, <2>2 DEF MergeOK
    <3>2. \A e : Ahead(m, e) <=> e >= key
      BY <1>1 DEF Ahead
    <3>3. /\ others[c] # Invalid => others[c] >= key
          /\ \A e \in contents[c] : Visible(e) /\ e >= key =>
               others[c] # Invalid /\ others[c] <= e
      BY <2>2, <3>1, <3>2 DEF MergeOK
    <3>4. \A e \in contents[c] : e >= key => e >= key + 1
      BY <1>2, <1>8, <2>1
    <3>5. \A e \in contents[c] : e >= key + 1 => e >= key
      BY <1>2, <1>8
    <3> QED  BY <3>1, <3>3, <3>4, <3>5
  <2>3. CASE m.direction # "forward"
    <3>1. others[c] = IF ChildSeek(c, key) = key THEN ChildNext(c, ChildSeek(c, key))
                      ELSE ChildSeek(c, key)
      BY <1>3, <2>3
    <3>2. ChildSeek(c, key) # key
      <4>1. Invalid # key
        BY <1>2 DEF Invalid
      <4> QED  BY <1>9, <2>1, <4>1
    <3>3. others[c] = ChildSeek(c, key)
      BY <3>1, <3>2
    <3>4. \A e \in contents[c] : e >= key <=> e >= key + 1
      BY <1>2, <1>8, <2>1
    <3> QED  BY <1>8, <1>9, <3>3, <3>4
  <2> QED  BY <2>2, <2>3
<1>11. \A c \in Children : \A e \in contents[c] : e > key <=> e >= key + 1
  BY <1>2, <1>8
<1>12. /\ pos[m.current] = Invalid
            \/ (pos[m.current] \in contents[m.current] /\ pos[m.current] >= key + 1)
       /\ \A e \in contents[m.current] : Visible(e) /\ e >= key + 1 =>
            pos[m.current] # Invalid /\ pos[m.current] <= e
  BY <1>2, <1>7, <1>8, <1>9, <1>11
<1>13. PICK t \in Int : t = key + 1
  BY <1>2
<1>14. \A c \in Children : pos[c] = Invalid \/ (pos[c] \in contents[c] /\ pos[c] >= t)
  BY <1>7, <1>10, <1>12, <1>13
<1>15. \A c \in Children : \A e \in contents[c] :
         Visible(e) /\ e >= t => pos[c] # Invalid /\ pos[c] <= e
  BY <1>7, <1>10, <1>12, <1>13
<1>16. /\ MergeOK(n) /\ n.direction = "forward"
       /\ \A e \in Seen : Ahead(n, e) <=> e >= t
  BY <1>5, <1>7, <1>14, <1>15, PositionedForward
<1>17. \A e \in Seen : e >= t <=> e > key
  BY <1>2, <1>13, EntryFacts
<1> QED  BY <1>1, <1>16, <1>17

\* Prev leaves exactly the visible entries from the current one on.
LEMMA MergePrevFacts ==
  ASSUME EntriesOK, NEW m, MergeOK(m), MergeValid(m), NEW n, n = MergePrev(m)
  PROVE  /\ MergeOK(n) /\ n.direction = "reverse"
         /\ \A e \in Seen : Behind(n, e) <=> e < MergeKey(m)
<1>1. PICK key : key = MergeKey(m)
  OBVIOUS
<1>2. key \in Nat /\ m.current \in Children /\ key \in contents[m.current]
  BY <1>1, MergeKeyFacts
<1>3. PICK others : others =
        IF m.direction = "reverse" THEN m.pos
        ELSE [c \in Children |-> LET s == ChildSeek(c, key)
                                 IN  IF s # Invalid THEN ChildPrev(c, s) ELSE ChildLast(c)]
  OBVIOUS
<1>4. PICK pos : pos = [others EXCEPT ![m.current] = ChildPrev(m.current, key)]
  OBVIOUS
<1>5. n = Positioned(pos, "reverse")
  BY <1>1, <1>3, <1>4 DEF MergePrev
<1>6. DOMAIN others = Children
  BY <1>3 DEF MergeOK
<1>7. /\ DOMAIN pos = Children /\ pos[m.current] = ChildPrev(m.current, key)
      /\ \A c \in Children : c # m.current => pos[c] = others[c]
  BY <1>2, <1>4, <1>6
<1>8. \A c \in Children : \A e \in contents[c] : e \in Nat /\ e # Invalid
  BY EntryFacts DEF Invalid
<1>9. \A c \in Children :
        IF \E e \in contents[c] : e >= key
        THEN /\ ChildSeek(c, key) \in contents[c] /\ ChildSeek(c, key) >= key
             /\ \A e \in contents[c] : e >= key => ChildSeek(c, key) <= e
        ELSE ChildSeek(c, key) = Invalid
  BY <1>2, ChildFacts
<1>10. \A c \in Children : \A s \in Nat :
         IF \E e \in contents[c] : e < s
         THEN /\ ChildPrev(c, s) \in contents[c] /\ ChildPrev(c, s) < s
              /\ \A e \in contents[c] : e < s => e <= ChildPrev(c, s)
         ELSE ChildPrev(c, s) = Invalid
  BY ChildFacts
<1>11. \A c \in Children :
         IF contents[c] # {}
         THEN ChildLast(c) \in contents[c] /\ \A e \in contents[c] : e <= ChildLast(c)
         ELSE ChildLast(c) = Invalid
  BY <1>2, ChildFacts
<1>12. \A c \in Children : \A e \in contents[c] : e < key <=> e <= key - 1
  BY <1>2, <1>8
<1>13. ASSUME NEW c \in Children, c # m.current
       PROVE  /\ others[c] = Invalid \/ (others[c] \in contents[c] /\ others[c] <= key - 1)
              /\ \A e \in contents[c] : Visible(e) /\ e <= key - 1 =>
                   others[c] # Invalid /\ others[c] >= e
  <2>1. key \notin contents[c]
    BY <1>2, <1>13 DEF EntriesOK
  <2>2. CASE m.direction = "reverse"
    <3>1. others[c] = m.pos[c] /\ (others[c] = Invalid \/ others[c] \in contents[c])
      BY <1>3, <2>2 DEF MergeOK
    <3>2. \A e : Behind(m, e) <=> e <= key
      BY <1>1 DEF Behind
    <3>3. /\ others[c] # Invalid => others[c] <= key
          /\ \A e \in contents[c] : Visible(e) /\ e <= key =>
               others[c] # Invalid /\ others[c] >= e
      BY <2>2, <3>1, <3>2 DEF MergeOK
    <3>4. \A e \in contents[c] : e <= key <=> e <= key - 1
      BY <1>2, <1>8, <2>1
    <3> QED  BY <3>1, <3>3, <3>4
  <2>3. CASE m.direction # "reverse"
    <3>1. others[c] = IF ChildSeek(c, key) # Invalid THEN ChildPrev(c, ChildSeek(c, key))
                      ELSE ChildLast(c)
      BY <1>3, <2>3
    <3>2. CASE \E e \in contents[c] : e >= key
      <4>1. PICK s : s = ChildSeek(c, key)
        OBVIOUS
      <4>2. s \in contents[c] /\ s \in Nat /\ s >= key /\ s # Invalid
            /\ \A e \in contents[c] : e >= key => s <= e
        BY <1>8, <1>9, <3>2, <4>1
      <4>3. \A e \in contents[c] : e < s <=> e <= key - 1
        BY <1>2, <1>8, <4>2
      <4>4. others[c] = ChildPrev(c, s)
        BY <3>1, <4>1, <4>2
      <4> QED  BY <1>8, <1>10, <4>2, <4>3, <4>4
    <3>3. CASE ~\E e \in contents[c] : e >= key
      <4>1. others[c] = ChildLast(c)
        BY <1>9, <3>1, <3>3
      <4>2. \A e \in contents[c] : e <= key - 1
        BY <1>2, <1>8, <3>3
      <4> QED  BY <1>8, <1>11, <4>1, <4>2
    <3> QED  BY <3>2, <3>3
  <2> QED  BY <2>2, <2>3
<1>14. /\ pos[m.current] = Invalid
            \/ (pos[m.current] \in contents[m.current] /\ pos[m.current] <= key - 1)
       /\ \A e \in contents[m.current] : Visible(e) /\ e <= key - 1 =>
            pos[m.current] # Invalid /\ pos[m.current] >= e
  BY <1>2, <1>7, <1>8, <1>10, <1>12
<1>15. PICK t \in Int : t = key - 1
  BY <1>2
<1>16. \A c \in Children : pos[c] = Invalid \/ (pos[c] \in contents[c] /\ pos[c] <= t)
  BY <1>7, <1>13, <1>14, <1>15
<1>17. \A c \in Children : \A e \in contents[c] :
         Visible(e) /\ e <= t => pos[c] # Invalid /\ pos[c] >= e
  BY <1>7, <1>13, <1>14, <1>15
<1>18. /\ MergeOK(n) /\ n.direction = "reverse"
       /\ \A e \in Seen : Behind(n, e) <=> e <= t
  BY <1>5, <1>7, <1>16, <1>17, PositionedReverse
<1>19. \A e \in Seen : e <= t <=> e < key
  BY <1>2, <1>15, EntryFacts
<1> QED  BY <1>1, <1>18, <1>19


-----------------------------------------------------------------------------
(* The snapshot.                                                           *)

\* What the snapshot shows, of entries in the order of their user keys
LEMMA SnapshotFacts ==
  ASSUME EntriesOK
  PROVE  /\ \A e \in Seen : e \in Nat /\ e \in Entries /\ UserKeyOf(e) \in Nat /\ UserKeyOf(e) > 0
         /\ \A e \in Entries : e \in Seen <=> Visible(e)
         /\ \A e, f \in Entries : e <= f => UserKeyOf(e) <= UserKeyOf(f)
         /\ \A e : e \in Shown <=> /\ e \in Seen /\ e \notin deletion
                                   /\ \A f \in Seen : UserKeyOf(f) = UserKeyOf(e) => f >= e
         /\ \A k \in Nat : \A e \in Seen : e >= Key(k, OldEntries) <=> UserKeyOf(e) >= k
<1>1. \A e \in Entries : /\ e \in Nat /\ UserKeyOf(e) \in Nat /\ UserKeyOf(e) > 0
                         /\ SequenceOf(e) \in 0..Last_ /\ e = Key(UserKeyOf(e), SequenceOf(e))
  <2>1. \A e \in Entries : /\ e \in Nat /\ UserKeyOf(e) \in IterKeys /\ SequenceOf(e) \in 1..seq_
                           /\ e = Key(UserKeyOf(e), SequenceOf(e))
    BY EntryFacts
  <2>2. \A k \in IterKeys : k \in Nat /\ k > 0
    BY IterAssumption
  <2>3. \A s \in 1..seq_ : s \in 0..Last_
    BY IterAssumption DEF EntriesOK, Last_
  <2> QED  BY <2>1, <2>2, <2>3
<1>2. \A e \in Seen : e \in Entries /\ Visible(e)
  BY DEF Seen
<1>3. \A e, f \in Entries : e <= f => UserKeyOf(e) <= UserKeyOf(f)
  <2> SUFFICES ASSUME NEW e \in Entries, NEW f \in Entries, e <= f
               PROVE  UserKeyOf(e) <= UserKeyOf(f)
    OBVIOUS
  <2>1. UserKeyOf(f) < UserKeyOf(e) =>
          Key(UserKeyOf(f), SequenceOf(f)) < Key(UserKeyOf(e), SequenceOf(e))
    BY <1>1, KeyOrder
  <2>2. UserKeyOf(f) < UserKeyOf(e) => f < e
    BY <1>1, <2>1
  <2> QED  BY <1>1, <2>2
<1>4. \A e : e \in Shown <=> /\ e \in Seen /\ e \notin deletion
                             /\ \A f \in Seen : UserKeyOf(f) = UserKeyOf(e) => f >= e
  BY DEF Shown, Seen
<1>5. ASSUME NEW k \in Nat, NEW e \in Seen
      PROVE  e >= Key(k, OldEntries) <=> UserKeyOf(e) >= k
  <2>1. OldEntries \in 0..Last_ /\ OldEntries \in Nat
    BY IterAssumption DEF Last_
  <2>2. SequenceOf(e) <= OldEntries
    BY <1>2 DEF Visible, sequence_
  <2>3. /\ UserKeyOf(e) < k => Key(UserKeyOf(e), SequenceOf(e)) < Key(k, OldEntries)
    BY <1>1, <1>2, <2>1, KeyOrder
  <2>4. k <= UserKeyOf(e) /\ SequenceOf(e) <= OldEntries =>
          Key(k, OldEntries) <= Key(UserKeyOf(e), SequenceOf(e))
    BY <1>1, <1>2, <2>1, KeyOrder
  <2>5. Key(k, OldEntries) \in Nat
    BY <2>1, KeyFacts
  <2>6. e = Key(UserKeyOf(e), SequenceOf(e)) /\ e \in Nat /\ UserKeyOf(e) \in Nat
    BY <1>1, <1>2
  <2>7. UserKeyOf(e) < k => e < Key(k, OldEntries)
    BY <2>3, <2>6
  <2>8. k <= UserKeyOf(e) => Key(k, OldEntries) <= e
    BY <2>2, <2>4, <2>6
  <2> QED  BY <2>5, <2>6, <2>7, <2>8
<1> QED  BY <1>1, <1>2, <1>3, <1>4, <1>5 DEF Seen

\* The key that the iterator should be at next, when the entry is known that it
\* is the key of
LEMMA WantedKey ==
  ASSUME EntriesOK, NEW S \in SUBSET Shown
  PROVE  /\ S = {} => SmallestKey({UserKeyOf(e) : e \in S}) = 0
                      /\ LargestKey({UserKeyOf(e) : e \in S}) = 0
         /\ \A e \in S : (\A f \in S : UserKeyOf(e) <= UserKeyOf(f)) =>
              SmallestKey({UserKeyOf(f) : f \in S}) = UserKeyOf(e)
         /\ \A e \in S : (\A f \in S : UserKeyOf(f) <= UserKeyOf(e)) =>
              LargestKey({UserKeyOf(f) : f \in S}) = UserKeyOf(e)
<1>1. PICK K : K = {UserKeyOf(e) : e \in S}
  OBVIOUS
<1>2. K \in SUBSET Nat
  BY <1>1, SnapshotFacts DEF Shown, Seen
<1>3. \A x \in K : x \in Nat
  BY <1>2
<1>4. S = {} => K = {}
  BY <1>1
<1>5. ASSUME NEW e \in S, \A f \in S : UserKeyOf(e) <= UserKeyOf(f)
      PROVE  SmallestKey(K) = UserKeyOf(e)
  <2>1. UserKeyOf(e) \in K /\ \A x \in K : UserKeyOf(e) <= x
    BY <1>1, <1>5
  <2>2. Min(K) \in K /\ \A x \in K : Min(K) <= x
    BY <2>1 DEF Min
  <2>3. Min(K) = UserKeyOf(e)
    BY <1>3, <2>1, <2>2
  <2> QED  BY <2>1, <2>3 DEF SmallestKey
<1>6. ASSUME NEW e \in S, \A f \in S : UserKeyOf(f) <= UserKeyOf(e)
      PROVE  LargestKey(K) = UserKeyOf(e)
  <2>1. UserKeyOf(e) \in K /\ \A x \in K : UserKeyOf(e) >= x
    BY <1>1, <1>3, <1>6
  <2>2. Max(K) \in K /\ \A x \in K : Max(K) >= x
    BY <2>1 DEF Max
  <2>3. Max(K) = UserKeyOf(e)
    BY <1>3, <2>1, <2>2
  <2> QED  BY <2>1, <2>3 DEF LargestKey
<1> QED  BY <1>1, <1>4, <1>5, <1>6 DEF SmallestKey, LargestKey


-----------------------------------------------------------------------------
(* The steps of the iterator.                                              *)

\* One turn of FindNextUserEntry's loop: what it passes is not shown, or belongs to a
\* key that is skipped; what it yields is the next entry shown.
LEMMA NextTurn ==
  ASSUME EntriesOK, NEW i, NEW w, Sound(i, w), i.pc = "next", MergeValid(i.m),
         NEW e, e = MergeKey(i.m),
         NEW deletes \in BOOLEAN, deletes <=> Visible(e) /\ e \in deletion,
         NEW yields \in BOOLEAN,
         yields <=> Visible(e) /\ e \notin deletion /\ ~(i.skipping /\ UserKeyOf(e) <= i.saved),
         NEW j,
         j = IF yields THEN [i EXCEPT !.pc = "idle", !.valid = TRUE, !.saved = 0]
             ELSE [i EXCEPT !.m = MergeNext(i.m), !.skipping = i.skipping \/ deletes,
                            !.saved = IF deletes THEN UserKeyOf(e) ELSE i.saved]
  PROVE  Sound(j, w)
<1>1. MergeOK(i.m) /\ i.m.direction = "forward" /\ i.direction = "forward" /\ i.saved \in Nat
      /\ w = SmallestKey({UserKeyOf(f) : f \in NextShown(i)})
  BY DEF Sound, Forwards
<1>2. i.skipping => \A f \in Seen : IF Ahead(i.m, f) THEN UserKeyOf(f) >= i.saved
                                     ELSE UserKeyOf(f) <= i.saved
  BY DEF Sound, Forwards
<1>3. ~i.skipping => \A f, g \in Seen :
        ~Ahead(i.m, f) /\ Ahead(i.m, g) => UserKeyOf(f) < UserKeyOf(g)
  BY DEF Sound, Forwards
<1>4. e \in Entries /\ e \in Nat /\ UserKeyOf(e) \in Nat
  BY <1>1, MergeKeyFacts, EntryFacts, IterAssumption
<1>5. \A f : Ahead(i.m, f) <=> f >= e
  BY DEF Ahead
<1>6. \A f \in Seen : f \in Nat /\ f \in Entries /\ UserKeyOf(f) \in Nat
  BY SnapshotFacts
<1>7. e \in Seen <=> Visible(e)
  BY <1>4, SnapshotFacts
<1>8. \A f \in Seen : (e <= f => UserKeyOf(e) <= UserKeyOf(f))
                      /\ (f <= e => UserKeyOf(f) <= UserKeyOf(e))
  BY <1>4, <1>6, SnapshotFacts
<1>9. \A f : f \in Shown <=> /\ f \in Seen /\ f \notin deletion
                             /\ \A g \in Seen : UserKeyOf(g) = UserKeyOf(f) => g >= f
  BY SnapshotFacts
<1>10. NextShown(i) \in SUBSET Shown
  BY DEF NextShown
<1>11. CASE yields
  <2>1. e \in Seen /\ e \notin deletion /\ (i.skipping => UserKeyOf(e) > i.saved)
    BY <1>1, <1>4, <1>7, <1>11
  <2>2. \A f \in Seen : UserKeyOf(f) = UserKeyOf(e) => f >= e
    <3> SUFFICES ASSUME NEW f \in Seen, UserKeyOf(f) = UserKeyOf(e), ~(f >= e) PROVE FALSE
      OBVIOUS
    <3>1. ~Ahead(i.m, f) /\ Ahead(i.m, e)
      BY <1>4, <1>5
    <3> QED  BY <1>1, <1>2, <1>3, <1>4, <1>6, <2>1, <3>1
  <2>3. e \in Shown /\ e \in NextShown(i)
    <3>1. e \in Shown
      BY <1>9, <2>1, <2>2
    <3>2. Ahead(i.m, e)
      BY <1>4, <1>5
    <3> QED  BY <2>1, <3>1, <3>2 DEF NextShown
  <2>4. \A f \in NextShown(i) : UserKeyOf(e) <= UserKeyOf(f)
    BY <1>5, <1>8, <1>9 DEF NextShown
  <2>5. w = UserKeyOf(e)
    BY <1>1, <1>10, <2>3, <2>4, WantedKey
  <2>6. j = [i EXCEPT !.pc = "idle", !.valid = TRUE, !.saved = 0]
    BY <1>11
  <2>7. /\ j = [pc |-> j.pc, m |-> j.m, direction |-> j.direction, valid |-> j.valid,
                saved |-> j.saved, value |-> j.value, skipping |-> j.skipping, type |-> j.type]
        /\ j.pc = "idle" /\ j.m = i.m /\ j.direction = "forward" /\ j.valid = TRUE
        /\ j.saved = 0 /\ j.skipping = i.skipping /\ j.type = i.type
    BY <1>1, <2>6 DEF Sound
  <2>8. AtRest(j, w)
    BY <1>1, <2>3, <2>5, <2>7 DEF AtRest
  <2>9. i.skipping \in BOOLEAN /\ i.type \in {"value", "deletion"}
    BY DEF Sound
  <2> QED  BY <1>1, <2>7, <2>8, <2>9 DEF Sound
<1>12. CASE ~yields
  <2>1. PICK n : n = MergeNext(i.m)
    OBVIOUS
  <2>2. PICK skips \in BOOLEAN : skips <=> (i.skipping \/ deletes)
    OBVIOUS
  <2>3. PICK saved : saved = IF deletes THEN UserKeyOf(e) ELSE i.saved
    OBVIOUS
  <2>4. j = [i EXCEPT !.m = n, !.skipping = skips, !.saved = saved]
    <3>1. skips = (i.skipping \/ deletes)
      BY <2>2
    <3> QED  BY <1>12, <2>1, <2>3, <3>1
  <2>5. /\ j = [pc |-> j.pc, m |-> j.m, direction |-> j.direction, valid |-> j.valid,
                saved |-> j.saved, value |-> j.value, skipping |-> j.skipping, type |-> j.type]
        /\ j.pc = "next" /\ j.m = n /\ j.direction = "forward" /\ j.valid = i.valid
        /\ j.saved = saved /\ j.skipping = skips /\ j.type = i.type
    BY <1>1, <2>4 DEF Sound
  <2>6. MergeOK(n) /\ n.direction = "forward" /\ \A f \in Seen : Ahead(n, f) <=> f > e
    BY <1>1, <2>1, MergeNextFacts
  <2>7. saved \in Nat
    BY <1>1, <1>4, <2>3
  <2>8. skips => \A f \in Seen : IF Ahead(n, f) THEN UserKeyOf(f) >= saved
                                 ELSE UserKeyOf(f) <= saved
    <3> SUFFICES ASSUME skips, NEW f \in Seen
                 PROVE  IF Ahead(n, f) THEN UserKeyOf(f) >= saved ELSE UserKeyOf(f) <= saved
      OBVIOUS
    <3>1. CASE deletes
      BY <1>4, <1>6, <1>8, <2>3, <2>6, <3>1
    <3>2. CASE ~deletes
      <4>1. i.skipping /\ saved = i.saved
        BY <2>2, <2>3, <3>2
      <4>2. f = e => UserKeyOf(e) <= i.saved
        BY <1>7, <1>12, <3>2, <4>1
      <4>3. IF f >= e THEN UserKeyOf(f) >= i.saved ELSE UserKeyOf(f) <= i.saved
        BY <1>2, <1>5, <4>1
      <4> QED  BY <1>4, <1>6, <2>6, <4>1, <4>2, <4>3
    <3> QED  BY <3>1, <3>2
  <2>9. ~skips => \A f, g \in Seen :
          ~Ahead(n, f) /\ Ahead(n, g) => UserKeyOf(f) < UserKeyOf(g)
    <3> SUFFICES ASSUME ~skips, NEW f \in Seen, NEW g \in Seen, ~Ahead(n, f), Ahead(n, g)
                 PROVE  UserKeyOf(f) < UserKeyOf(g)
      OBVIOUS
    <3>1. ~i.skipping /\ ~deletes
      BY <2>2
    <3>2. e \notin Seen
      BY <1>7, <1>12, <3>1
    <3>3. ~(f >= e) /\ g >= e
      BY <1>4, <1>6, <2>6, <3>2
    <3> QED  BY <1>3, <1>5, <3>1, <3>3
  <2>10. NextShown(j) = NextShown(i)
    <3>1. ASSUME NEW f \in Shown
          PROVE  (Ahead(n, f) /\ (skips => UserKeyOf(f) > saved))
                   <=> (Ahead(i.m, f) /\ (i.skipping => UserKeyOf(f) > i.saved))
      <4>1. f \in Seen /\ f \notin deletion
        BY <1>9
      <4>2. CASE deletes
        <5>1. e \in Seen /\ e # f /\ skips /\ saved = UserKeyOf(e)
          BY <1>7, <2>2, <2>3, <4>1, <4>2
        <5>2. UserKeyOf(e) = UserKeyOf(f) => e >= f
          BY <1>9, <5>1
        <5>3. f > e => UserKeyOf(f) > UserKeyOf(e)
          BY <1>4, <1>6, <1>8, <4>1, <5>1, <5>2
        <5>4. i.skipping => UserKeyOf(e) >= i.saved
          <6>1. Ahead(i.m, e)
            BY <1>4, <1>5
          <6> QED  BY <1>2, <5>1, <6>1
        <5>5. f >= e <=> f > e
          BY <1>4, <1>6, <4>1, <5>1
        <5> QED  BY <1>1, <1>4, <1>5, <1>6, <2>6, <4>1, <5>1, <5>3, <5>4, <5>5
      <4>3. CASE ~deletes
        <5>1. (skips <=> i.skipping) /\ saved = i.saved
          BY <2>2, <2>3, <4>3
        <5>2. f = e => i.skipping /\ ~(UserKeyOf(f) > i.saved)
          BY <1>1, <1>4, <1>7, <1>12, <4>1, <4>3
        <5>3. f # e => (f >= e <=> f > e)
          BY <1>4, <1>6, <4>1
        <5> QED  BY <1>5, <2>6, <4>1, <5>1, <5>2, <5>3
      <4> QED  BY <4>2, <4>3
    <3> QED  BY <2>5, <3>1 DEF NextShown
  <2>11. Forwards(j, w)
    BY <1>1, <2>5, <2>6, <2>8, <2>9, <2>10 DEF Forwards
  <2>12. i.valid \in BOOLEAN /\ i.type \in {"value", "deletion"}
    BY DEF Sound
  <2> QED  BY <2>5, <2>6, <2>7, <2>11, <2>12 DEF Sound
<1> QED  BY <1>11, <1>12


\* One turn of FindPrevUserEntry's loop: the candidate, if there is one, is the newest
\* visible entry of its key so far.
LEMMA PrevTurn ==
  ASSUME EntriesOK, NEW i, NEW w, Sound(i, w), i.pc = "prev", MergeValid(i.m),
         NEW e, e = MergeKey(i.m),
         ~(i.type = "value" /\ Visible(e) /\ UserKeyOf(e) < i.saved),
         NEW back, back = [i EXCEPT !.m = MergePrev(i.m)],
         NEW j,
         j = IF ~Visible(e) THEN back
             ELSE IF e \in deletion
             THEN [back EXCEPT !.type = "deletion", !.saved = 0, !.value = 0]
             ELSE [back EXCEPT !.type = "value", !.saved = UserKeyOf(e), !.value = e]
  PROVE  Sound(j, w)
<1>1. MergeOK(i.m) /\ i.m.direction = "reverse" /\ i.direction = "reverse" /\ i.saved \in Nat
      /\ w = LargestKey({UserKeyOf(f) : f \in PrevShown(i)}) /\ i.type \in {"value", "deletion"}
  BY DEF Sound, Backwards
<1>2. i.type = "value" =>
        /\ i.value \in Seen /\ i.value \notin deletion /\ i.saved = UserKeyOf(i.value)
        /\ \A f \in Seen : Behind(i.m, f) <=> f < i.value
  BY DEF Sound, Backwards
<1>3. e \in Entries /\ e \in Nat /\ UserKeyOf(e) \in Nat
  BY <1>1, MergeKeyFacts, EntryFacts, IterAssumption
<1>4. \A f : Behind(i.m, f) <=> f <= e
  BY DEF Behind
<1>5. \A f \in Seen : f \in Nat /\ f \in Entries /\ UserKeyOf(f) \in Nat
  BY SnapshotFacts
<1>6. e \in Seen <=> Visible(e)
  BY <1>3, SnapshotFacts
<1>7. \A f : f \in Shown <=> /\ f \in Seen /\ f \notin deletion
                             /\ \A g \in Seen : UserKeyOf(g) = UserKeyOf(f) => g >= f
  BY SnapshotFacts
<1>8. PICK n : n = MergePrev(i.m)
  OBVIOUS
<1>9. MergeOK(n) /\ n.direction = "reverse" /\ \A f \in Seen : Behind(n, f) <=> f < e
  BY <1>1, <1>8, MergePrevFacts
<1>10. back = [i EXCEPT !.m = n]
  BY <1>8
<1>11. i.valid \in BOOLEAN /\ i.skipping \in BOOLEAN
  BY DEF Sound
<1>12. CASE ~Visible(e)
  <2>1. j = [i EXCEPT !.m = n]
    BY <1>10, <1>12
  <2>2. /\ j = [pc |-> j.pc, m |-> j.m, direction |-> j.direction, valid |-> j.valid,
                saved |-> j.saved, value |-> j.value, skipping |-> j.skipping, type |-> j.type]
        /\ j.pc = "prev" /\ j.m = n /\ j.direction = "reverse" /\ j.valid = i.valid
        /\ j.saved = i.saved /\ j.value = i.value /\ j.skipping = i.skipping /\ j.type = i.type
    BY <1>1, <2>1 DEF Sound
  <2>3. \A f \in Seen : Behind(n, f) <=> Behind(i.m, f)
    <3>1. \A f \in Seen : f # e
      BY <1>6, <1>12
    <3> QED  BY <1>3, <1>4, <1>5, <1>9, <3>1
  <2>4. PrevShown(j) = PrevShown(i)
    BY <1>7, <2>2, <2>3 DEF PrevShown
  <2>5. Backwards(j, w)
    BY <1>1, <1>2, <1>9, <2>2, <2>3, <2>4 DEF Backwards
  <2> QED  BY <1>1, <1>9, <1>11, <2>2, <2>5 DEF Sound
<1>13. CASE Visible(e)
  <2>1. e \in Seen
    BY <1>6, <1>13
  <2>2. i.type = "value" => i.value \notin Shown
    <3> SUFFICES ASSUME i.type = "value", i.value \in Shown PROVE FALSE
      OBVIOUS
    <3>1. e < i.value /\ i.value \in Entries
      BY <1>2, <1>3, <1>4, <1>5, <2>1
    <3>2. UserKeyOf(e) <= UserKeyOf(i.value)
      BY <1>2, <1>3, <1>5, <3>1, SnapshotFacts
    <3>3. UserKeyOf(e) >= UserKeyOf(i.value)
      BY <1>1, <1>2, <1>3, <1>13
    <3>4. UserKeyOf(e) = UserKeyOf(i.value)
      BY <1>2, <1>3, <1>5, <3>2, <3>3
    <3>5. e >= i.value
      BY <1>7, <2>1, <3>4
    <3> QED  BY <1>2, <1>3, <1>5, <3>1, <3>5
  <2>3. \A f \in Shown : f \in PrevShown(i) <=> f <= e
    BY <1>4, <2>2 DEF PrevShown
  <2>4. CASE e \in deletion
    <3>1. j = [i EXCEPT !.m = n, !.type = "deletion", !.saved = 0, !.value = 0]
      <4>1. j = [back EXCEPT !.type = "deletion", !.saved = 0, !.value = 0]
        BY <1>13, <2>4
      <4> QED  BY <1>10, <4>1 DEF Sound
    <3>2. /\ j = [pc |-> j.pc, m |-> j.m, direction |-> j.direction, valid |-> j.valid,
                  saved |-> j.saved, value |-> j.value, skipping |-> j.skipping, type |-> j.type]
          /\ j.pc = "prev" /\ j.m = n /\ j.direction = "reverse" /\ j.valid = i.valid
          /\ j.saved = 0 /\ j.skipping = i.skipping /\ j.type = "deletion"
      BY <1>1, <3>1 DEF Sound
    <3>3. \A f \in Shown : f \in PrevShown(j) <=> f <= e
      <4>1. \A f \in Shown : f \in Seen /\ f # e
        BY <1>7, <2>4
      <4> QED  BY <1>3, <1>5, <1>9, <3>2, <4>1 DEF PrevShown
    <3>4. PrevShown(j) = PrevShown(i)
      BY <2>3, <3>3 DEF PrevShown
    <3>5. Backwards(j, w)
      BY <1>1, <1>9, <3>2, <3>4 DEF Backwards
    <3> QED  BY <1>1, <1>9, <1>11, <3>2, <3>5 DEF Sound
  <2>5. CASE e \notin deletion
    <3>1. j = [i EXCEPT !.m = n, !.type = "value", !.saved = UserKeyOf(e), !.value = e]
      <4>1. j = [back EXCEPT !.type = "value", !.saved = UserKeyOf(e), !.value = e]
        BY <1>13, <2>5
      <4> QED  BY <1>10, <4>1 DEF Sound
    <3>2. /\ j = [pc |-> j.pc, m |-> j.m, direction |-> j.direction, valid |-> j.valid,
                  saved |-> j.saved, value |-> j.value, skipping |-> j.skipping, type |-> j.type]
          /\ j.pc = "prev" /\ j.m = n /\ j.direction = "reverse" /\ j.valid = i.valid
          /\ j.saved = UserKeyOf(e) /\ j.value = e /\ j.skipping = i.skipping /\ j.type = "value"
      BY <1>1, <3>1 DEF Sound
    <3>3. \A f \in Shown : f \in PrevShown(j) <=> f <= e
      <4>1. \A f \in Shown : f \in Seen
        BY <1>7
      <4> QED  BY <1>3, <1>5, <1>9, <3>2, <4>1 DEF PrevShown
    <3>4. PrevShown(j) = PrevShown(i)
      BY <2>3, <3>3 DEF PrevShown
    <3>5. Backwards(j, w)
      BY SMTT(30), <1>1, <1>9, <2>1, <2>5, <3>2, <3>4 DEF Backwards
    <3> QED  BY <1>1, <1>3, <1>9, <1>11, <3>2, <3>5 DEF Sound
  <2> QED  BY <2>4, <2>5
<1> QED  BY <1>12, <1>13

\* What follows FindPrevUserEntry's loop: the candidate is shown, and no entry shown
\* is between it and what the search began at.
LEMMA PrevFound ==
  ASSUME EntriesOK, NEW i, NEW w, Sound(i, w), i.pc = "prev",
         MergeValid(i.m) => /\ i.type = "value" /\ Visible(MergeKey(i.m))
                            /\ UserKeyOf(MergeKey(i.m)) < i.saved,
         NEW j,
         j = IF i.type = "deletion"
             THEN [i EXCEPT !.pc = "idle", !.valid = FALSE, !.saved = 0, !.value = 0,
                            !.direction = "forward"]
             ELSE [i EXCEPT !.pc = "idle", !.valid = TRUE]
  PROVE  Sound(j, w)
<1>1. MergeOK(i.m) /\ i.m.direction = "reverse" /\ i.direction = "reverse" /\ i.saved \in Nat
      /\ w = LargestKey({UserKeyOf(f) : f \in PrevShown(i)}) /\ i.type \in {"value", "deletion"}
  BY DEF Sound, Backwards
<1>2. i.type = "value" =>
        /\ i.value \in Seen /\ i.value \notin deletion /\ i.saved = UserKeyOf(i.value)
        /\ \A f \in Seen : Behind(i.m, f) <=> f < i.value
  BY DEF Sound, Backwards
<1>3. PrevShown(i) \in SUBSET Shown
  BY DEF PrevShown
<1>4. i.skipping \in BOOLEAN
  BY DEF Sound
<1>5. CASE i.type = "deletion"
  <2>1. PrevShown(i) = {}
    BY <1>5 DEF PrevShown, Behind
  <2>2. w = 0
    BY <1>1, <1>3, <2>1, WantedKey
  <2>3. j = [i EXCEPT !.pc = "idle", !.valid = FALSE, !.saved = 0, !.value = 0,
                      !.direction = "forward"]
    BY <1>5
  <2>4. /\ j = [pc |-> j.pc, m |-> j.m, direction |-> j.direction, valid |-> j.valid,
                saved |-> j.saved, value |-> j.value, skipping |-> j.skipping, type |-> j.type]
        /\ j.pc = "idle" /\ j.m = i.m /\ j.direction = "forward" /\ j.valid = FALSE
        /\ j.saved = 0 /\ j.skipping = i.skipping /\ j.type = i.type
    BY <2>3 DEF Sound
  <2>5. AtRest(j, w)
    BY <2>2, <2>4 DEF AtRest
  <2> QED  BY <1>1, <1>4, <2>4, <2>5 DEF Sound
<1>6. CASE i.type = "value"
  <2>1. PICK v : v = i.value
    OBVIOUS
  <2>2. v \in Seen /\ v \notin deletion /\ i.saved = UserKeyOf(v)
        /\ \A f \in Seen : Behind(i.m, f) <=> f < v
    BY <1>2, <1>6, <2>1
  <2>3. \A f \in Seen : f \in Nat /\ f \in Entries /\ UserKeyOf(f) \in Nat
    BY SnapshotFacts
  <2>4. ASSUME NEW f \in Seen
        PROVE  f < v <=> UserKeyOf(f) < UserKeyOf(v)
    <3>1. ASSUME f < v PROVE UserKeyOf(f) < UserKeyOf(v)
      <4>1. MergeValid(i.m) /\ f <= MergeKey(i.m)
        BY <2>2, <3>1 DEF Behind
      <4>2. MergeKey(i.m) \in Entries /\ UserKeyOf(MergeKey(i.m)) < UserKeyOf(v)
        BY <1>1, <2>2, <4>1, MergeKeyFacts
      <4>3. UserKeyOf(f) <= UserKeyOf(MergeKey(i.m))
        BY <2>3, <4>1, <4>2, SnapshotFacts
      <4>4. UserKeyOf(MergeKey(i.m)) \in Nat
        BY <4>2, EntryFacts, IterAssumption
      <4> QED  BY <2>2, <2>3, <4>2, <4>3, <4>4
    <3>2. v <= f => UserKeyOf(v) <= UserKeyOf(f)
      BY <2>2, <2>3, SnapshotFacts
    <3> QED  BY <2>2, <2>3, <3>1, <3>2
  <2>5. v \in Shown
    <3>1. \A f \in Seen : UserKeyOf(f) = UserKeyOf(v) => f >= v
      BY <2>2, <2>3, <2>4
    <3> QED  BY <2>2, <3>1, SnapshotFacts
  <2>6. v \in PrevShown(i) /\ \A f \in PrevShown(i) : UserKeyOf(f) <= UserKeyOf(v)
    <3>1. \A f \in Shown : f \in Seen
      BY SnapshotFacts
    <3>2. \A f \in PrevShown(i) : f \in Seen /\ (f < v \/ f = v)
      BY <2>1, <2>2, <3>1 DEF PrevShown
    <3>3. v \in PrevShown(i)
      BY <1>6, <2>1, <2>5 DEF PrevShown
    <3> QED  BY <2>2, <2>3, <2>4, <3>2, <3>3
  <2>7. w = UserKeyOf(v)
    BY <1>1, <1>3, <2>6, WantedKey
  <2>8. j = [i EXCEPT !.pc = "idle", !.valid = TRUE]
    BY <1>6
  <2>9. /\ j = [pc |-> j.pc, m |-> j.m, direction |-> j.direction, valid |-> j.valid,
                saved |-> j.saved, value |-> j.value, skipping |-> j.skipping, type |-> j.type]
        /\ j.pc = "idle" /\ j.m = i.m /\ j.direction = "reverse" /\ j.valid = TRUE
        /\ j.saved = i.saved /\ j.value = v /\ j.skipping = i.skipping /\ j.type = i.type
    BY <1>1, <2>1, <2>8 DEF Sound
  <2>10. \A f \in Seen : Behind(i.m, f) <=> UserKeyOf(f) < w
    BY <2>2, <2>4, <2>7
  <2>11. AtRest(j, w)
    BY <1>1, <2>2, <2>5, <2>7, <2>9, <2>10 DEF AtRest
  <2> QED  BY <1>1, <1>4, <2>9, <2>11 DEF Sound
<1> QED  BY <1>1, <1>5, <1>6


\* The end of FindNextUserEntry's loop
LEMMA NextEnds ==
  ASSUME EntriesOK, NEW i, NEW w, Sound(i, w), i.pc = "next", ~MergeValid(i.m),
         NEW j, j = [i EXCEPT !.pc = "idle", !.valid = FALSE, !.saved = 0]
  PROVE  Sound(j, w)
<1>1. w = SmallestKey({UserKeyOf(f) : f \in NextShown(i)})
  BY DEF Sound, Forwards
<1>2. NextShown(i) = {}
  BY DEF NextShown, Ahead
<1>3. NextShown(i) \in SUBSET Shown
  BY DEF NextShown
<1>4. w = 0
  BY <1>1, <1>2, <1>3, WantedKey
<1>5. /\ j = [pc |-> j.pc, m |-> j.m, direction |-> j.direction, valid |-> j.valid,
              saved |-> j.saved, value |-> j.value, skipping |-> j.skipping, type |-> j.type]
      /\ j.pc = "idle" /\ j.m = i.m /\ j.direction = i.direction /\ j.valid = FALSE
      /\ j.saved = 0 /\ j.skipping = i.skipping /\ j.type = i.type
  BY DEF Sound
<1>6. AtRest(j, w)
  BY <1>4, <1>5 DEF AtRest
<1>7. /\ MergeOK(i.m) /\ i.direction \in {"forward", "reverse"} /\ i.skipping \in BOOLEAN
      /\ i.type \in {"value", "deletion"}
  BY DEF Sound
<1> QED  BY <1>5, <1>6, <1>7 DEF Sound

\* One turn of the loop with which Prev leaves the entries of a key
LEMMA BackTurn ==
  ASSUME EntriesOK, NEW i, NEW w, Sound(i, w), i.pc = "back",
         NEW j,
         j = IF ~MergeValid(i.m)
             THEN [i EXCEPT !.pc = "idle", !.valid = FALSE, !.saved = 0, !.value = 0]
             ELSE IF UserKeyOf(MergeKey(i.m)) < i.saved
             THEN [i EXCEPT !.pc = "prev", !.direction = "reverse", !.type = "deletion"]
             ELSE [i EXCEPT !.m = MergePrev(i.m)]
  PROVE  Sound(j, w)
<1>1. /\ MergeOK(i.m) /\ i.m.direction = "reverse" /\ i.saved \in Nat
      /\ \A f \in Seen : ~Behind(i.m, f) => UserKeyOf(f) >= i.saved
  BY DEF Sound, LeavesKey
<1>2. PICK S \in SUBSET Shown : S = {f \in Shown : UserKeyOf(f) < i.saved}
  OBVIOUS
<1>3. {k \in ShownKeys : k < i.saved} = {UserKeyOf(f) : f \in S}
  BY <1>2 DEF ShownKeys
<1>4. w = LargestKey({k \in ShownKeys : k < i.saved})
  BY DEF Sound, LeavesKey
<1>5. w = LargestKey({UserKeyOf(f) : f \in S})
  BY <1>3, <1>4
<1>6. /\ i.direction \in {"forward", "reverse"} /\ i.skipping \in BOOLEAN
      /\ i.type \in {"value", "deletion"} /\ i.valid \in BOOLEAN
  BY DEF Sound
<1>7. \A f \in Seen : f \in Nat /\ f \in Entries /\ UserKeyOf(f) \in Nat
  BY SnapshotFacts
<1>8. Shown \in SUBSET Seen
  BY EntryFacts
<1>9. CASE ~MergeValid(i.m)
  <2>1. S = {}
    <3>1. \A f \in Seen : UserKeyOf(f) >= i.saved
      BY <1>1, <1>9 DEF Behind
    <3> QED  BY <1>1, <1>2, <1>7, <1>8, <3>1
  <2>2. w = 0
    BY <1>5, <2>1, WantedKey
  <2>3. /\ j = [pc |-> j.pc, m |-> j.m, direction |-> j.direction, valid |-> j.valid,
                saved |-> j.saved, value |-> j.value, skipping |-> j.skipping, type |-> j.type]
        /\ j.pc = "idle" /\ j.m = i.m /\ j.direction = i.direction /\ j.valid = FALSE
        /\ j.saved = 0 /\ j.skipping = i.skipping /\ j.type = i.type
    BY <1>9 DEF Sound
  <2>4. AtRest(j, w)
    BY <2>2, <2>3 DEF AtRest
  <2> QED  BY <1>1, <1>6, <2>3, <2>4 DEF Sound
<1>10. CASE MergeValid(i.m)
  <2>1. PICK e : e = MergeKey(i.m)
    OBVIOUS
  <2>2. e \in Entries /\ e \in Nat /\ UserKeyOf(e) \in Nat
    BY <1>1, <1>10, <2>1, MergeKeyFacts, EntryFacts, IterAssumption
  <2>3. \A f : Behind(i.m, f) <=> f <= e
    BY <1>10, <2>1 DEF Behind
  <2>4. \A f \in Seen : (e <= f => UserKeyOf(e) <= UserKeyOf(f))
                        /\ (f <= e => UserKeyOf(f) <= UserKeyOf(e))
    BY <1>7, <2>2, SnapshotFacts
  <2>5. CASE UserKeyOf(e) < i.saved
    <3>1. j = [i EXCEPT !.pc = "prev", !.direction = "reverse", !.type = "deletion"]
      BY <1>10, <2>1, <2>5
    <3>2. /\ j = [pc |-> j.pc, m |-> j.m, direction |-> j.direction, valid |-> j.valid,
                  saved |-> j.saved, value |-> j.value, skipping |-> j.skipping, type |-> j.type]
          /\ j.pc = "prev" /\ j.m = i.m /\ j.direction = "reverse" /\ j.valid = i.valid
          /\ j.saved = i.saved /\ j.skipping = i.skipping /\ j.type = "deletion"
      BY <3>1 DEF Sound
    <3>3. \A f \in Seen : Behind(i.m, f) <=> UserKeyOf(f) < i.saved
      BY <1>1, <1>7, <2>2, <2>3, <2>4, <2>5
    <3>4. PrevShown(j) = S
      BY <1>2, <1>8, <3>2, <3>3 DEF PrevShown
    <3>5. Backwards(j, w)
      BY <1>1, <1>5, <3>2, <3>4 DEF Backwards
    <3> QED  BY <1>1, <1>6, <3>2, <3>5 DEF Sound
  <2>6. CASE ~(UserKeyOf(e) < i.saved)
    <3>1. PICK n : n = MergePrev(i.m)
      OBVIOUS
    <3>2. MergeOK(n) /\ n.direction = "reverse" /\ \A f \in Seen : Behind(n, f) <=> f < e
      BY <1>1, <1>10, <2>1, <3>1, MergePrevFacts
    <3>3. j = [i EXCEPT !.m = n]
      BY <1>10, <2>1, <2>6, <3>1
    <3>4. /\ j = [pc |-> j.pc, m |-> j.m, direction |-> j.direction, valid |-> j.valid,
                  saved |-> j.saved, value |-> j.value, skipping |-> j.skipping, type |-> j.type]
          /\ j.pc = "back" /\ j.m = n /\ j.direction = i.direction /\ j.valid = i.valid
          /\ j.saved = i.saved /\ j.skipping = i.skipping /\ j.type = i.type
      BY <3>3 DEF Sound
    <3>5. \A f \in Seen : ~Behind(n, f) => UserKeyOf(f) >= i.saved
      BY <1>1, <1>7, <2>2, <2>4, <2>6, <3>2
    <3>6. LeavesKey(j, w)
      BY <1>4, <3>2, <3>4, <3>5 DEF LeavesKey
    <3> QED  BY <1>1, <1>6, <3>2, <3>4, <3>6 DEF Sound
  <2> QED  BY <2>5, <2>6
<1> QED  BY <1>9, <1>10

\* Next, after a call that went forward or back
LEMMA NextCall ==
  ASSUME EntriesOK, NEW i, NEW w, Sound(i, w), i.pc = "idle", i.valid,
         NEW m, m = IF i.direction = "forward" THEN i.m
                    ELSE IF MergeValid(i.m) THEN MergeNext(i.m) ELSE MergeFirst,
         NEW j,
         j = IF MergeValid(m)
             THEN [i EXCEPT !.pc = "next", !.m = m, !.direction = "forward", !.skipping = TRUE,
                            !.saved = IF i.direction = "forward" THEN UserKeyOf(MergeKey(m))
                                      ELSE i.saved]
             ELSE [i EXCEPT !.m = m, !.direction = "forward", !.valid = FALSE, !.saved = 0]
  PROVE  Sound(j, SmallestKey({k \in ShownKeys : k > w}))
<1>1. MergeOK(i.m) /\ i.direction \in {"forward", "reverse"} /\ i.saved \in Nat
      /\ i.valid \in BOOLEAN /\ i.type \in {"value", "deletion"} /\ AtRest(i, w)
  BY DEF Sound
<1>2. PICK S : S = {f \in Shown : UserKeyOf(f) > w}
  OBVIOUS
<1>3. {k \in ShownKeys : k > w} = {UserKeyOf(f) : f \in S}
  BY <1>2 DEF ShownKeys
<1>4. \A f \in Seen : f \in Nat /\ f \in Entries /\ UserKeyOf(f) \in Nat
  BY SnapshotFacts
<1>5. Shown \in SUBSET Seen
  BY EntryFacts
<1>6. PICK saved : saved = IF i.direction = "forward" THEN UserKeyOf(MergeKey(m)) ELSE i.saved
  OBVIOUS
<1>7. /\ MergeOK(m) /\ m.direction = "forward" /\ MergeValid(m) /\ saved = w /\ w \in Nat
      /\ \A f \in Seen : IF Ahead(m, f) THEN UserKeyOf(f) >= w ELSE UserKeyOf(f) <= w
  <2>1. CASE i.direction = "forward"
    <3>1. m = i.m /\ MergeOK(m) /\ m.direction = "forward" /\ MergeValid(m)
          /\ MergeKey(m) \in Shown /\ w = UserKeyOf(MergeKey(m)) /\ saved = w
      BY <1>1, <1>6, <2>1 DEF AtRest
    <3>2. PICK e : e = MergeKey(m)
      OBVIOUS
    <3>3. e \in Seen /\ e \in Nat /\ e \in Entries /\ w \in Nat /\ w = UserKeyOf(e)
      BY <1>4, <1>5, <3>1, <3>2
    <3>4. \A f : Ahead(m, f) <=> f >= e
      BY <3>1, <3>2 DEF Ahead
    <3>5. \A f \in Seen : (e <= f => w <= UserKeyOf(f)) /\ (f <= e => UserKeyOf(f) <= w)
      BY <1>4, <3>3, SnapshotFacts
    <3> QED  BY <1>4, <3>1, <3>3, <3>4, <3>5
  <2>2. CASE i.direction # "forward"
    <3>1. /\ i.m.direction = "reverse" /\ i.value \in Shown /\ w = UserKeyOf(i.value)
          /\ saved = w /\ \A f \in Seen : Behind(i.m, f) <=> UserKeyOf(f) < w
      BY <1>1, <1>6, <2>2 DEF AtRest
    <3>2. i.value \in Seen /\ w \in Nat
      BY <1>4, <1>5, <3>1
    <3>3. MergeOK(m) /\ m.direction = "forward" /\ \A f \in Seen : Ahead(m, f) <=> UserKeyOf(f) >= w
      <4>1. CASE MergeValid(i.m)
        <5>1. m = MergeNext(i.m)
          BY <2>2, <4>1
        <5>2. MergeOK(m) /\ m.direction = "forward"
              /\ \A f \in Seen : Ahead(m, f) <=> f > MergeKey(i.m)
          BY <1>1, <4>1, <5>1, MergeNextFacts
        <5>3. MergeKey(i.m) \in Nat
          BY <1>1, <4>1, MergeKeyFacts
        <5>4. \A f \in Seen : f > MergeKey(i.m) <=> ~Behind(i.m, f)
          BY <1>4, <4>1, <5>3 DEF Behind
        <5> QED  BY <1>4, <3>1, <3>2, <5>2, <5>4
      <4>2. CASE ~MergeValid(i.m)
        <5>1. m = MergeFirst
          BY <2>2, <4>2
        <5>2. MergeOK(m) /\ m.direction = "forward" /\ \A f \in Seen : Ahead(m, f)
          BY <5>1, MergeSeekFacts
        <5>3. \A f \in Seen : ~Behind(i.m, f)
          BY <4>2 DEF Behind
        <5> QED  BY <1>4, <3>1, <3>2, <5>2, <5>3
      <4> QED  BY <4>1, <4>2
    <3>4. MergeValid(m)
      <4>1. Ahead(m, i.value)
        BY <3>1, <3>2, <3>3
      <4> QED  BY <4>1 DEF Ahead
    <3> QED  BY <1>4, <3>1, <3>2, <3>3, <3>4
  <2> QED  BY <2>1, <2>2
<1>8. j = [i EXCEPT !.pc = "next", !.m = m, !.direction = "forward", !.skipping = TRUE,
                    !.saved = saved]
  BY <1>6, <1>7
<1>9. /\ j = [pc |-> j.pc, m |-> j.m, direction |-> j.direction, valid |-> j.valid,
              saved |-> j.saved, value |-> j.value, skipping |-> j.skipping, type |-> j.type]
      /\ j.pc = "next" /\ j.m = m /\ j.direction = "forward" /\ j.valid = i.valid
      /\ j.saved = w /\ j.skipping = TRUE /\ j.type = i.type
  BY <1>7, <1>8 DEF Sound
<1>10. NextShown(j) = S
  <2>1. \A f \in Shown : UserKeyOf(f) > w => Ahead(m, f)
    BY <1>4, <1>5, <1>7
  <2> QED  BY <1>2, <1>9, <2>1 DEF NextShown
<1>11. Forwards(j, SmallestKey({k \in ShownKeys : k > w}))
  BY <1>3, <1>7, <1>9, <1>10 DEF Forwards
<1> QED  BY <1>1, <1>7, <1>9, <1>11 DEF Sound

\* Prev, after a call that went forward or back
LEMMA PrevCall ==
  ASSUME EntriesOK, NEW i, NEW w, Sound(i, w), i.pc = "idle", i.valid,
         NEW j,
         j = IF i.direction = "forward"
             THEN [i EXCEPT !.pc = "back", !.m = MergePrev(i.m), !.saved = UserKeyOf(MergeKey(i.m))]
             ELSE [i EXCEPT !.pc = "prev", !.type = "deletion"]
  PROVE  Sound(j, LargestKey({k \in ShownKeys : k < w}))
<1>1. MergeOK(i.m) /\ i.direction \in {"forward", "reverse"} /\ i.saved \in Nat
      /\ i.valid \in BOOLEAN /\ i.type \in {"value", "deletion"} /\ i.skipping \in BOOLEAN
      /\ AtRest(i, w)
  BY DEF Sound
<1>2. \A f \in Seen : f \in Nat /\ f \in Entries /\ UserKeyOf(f) \in Nat
  BY SnapshotFacts
<1>3. Shown \in SUBSET Seen
  BY EntryFacts
<1>4. CASE i.direction = "forward"
  <2>1. PICK e : e = MergeKey(i.m)
    OBVIOUS
  <2>2. MergeValid(i.m) /\ e \in Shown /\ w = UserKeyOf(e)
    BY <1>1, <1>4, <2>1 DEF AtRest
  <2>3. e \in Seen /\ e \in Nat /\ e \in Entries /\ w \in Nat
    BY <1>2, <1>3, <2>2
  <2>4. PICK n : n = MergePrev(i.m)
    OBVIOUS
  <2>5. MergeOK(n) /\ n.direction = "reverse" /\ \A f \in Seen : Behind(n, f) <=> f < e
    BY <1>1, <2>1, <2>2, <2>4, MergePrevFacts
  <2>6. j = [i EXCEPT !.pc = "back", !.m = n, !.saved = w]
    BY <1>4, <2>1, <2>2, <2>4
  <2>7. /\ j = [pc |-> j.pc, m |-> j.m, direction |-> j.direction, valid |-> j.valid,
                saved |-> j.saved, value |-> j.value, skipping |-> j.skipping, type |-> j.type]
        /\ j.pc = "back" /\ j.m = n /\ j.direction = i.direction /\ j.valid = i.valid
        /\ j.saved = w /\ j.skipping = i.skipping /\ j.type = i.type
    BY <2>6 DEF Sound
  <2>8. \A f \in Seen : e <= f => w <= UserKeyOf(f)
    BY <1>2, <2>2, <2>3, SnapshotFacts
  <2>9. \A f \in Seen : ~Behind(n, f) => UserKeyOf(f) >= w
    BY <1>2, <2>3, <2>5, <2>8
  <2>10. LeavesKey(j, LargestKey({k \in ShownKeys : k < w}))
    BY <2>5, <2>7, <2>9 DEF LeavesKey
  <2> QED  BY <1>1, <2>3, <2>5, <2>7, <2>10 DEF Sound
<1>5. CASE i.direction = "reverse"
  <2>1. /\ i.m.direction = "reverse" /\ w = i.saved
        /\ \A f \in Seen : Behind(i.m, f) <=> UserKeyOf(f) < w
    BY <1>1, <1>5 DEF AtRest
  <2>2. j = [i EXCEPT !.pc = "prev", !.type = "deletion"]
    BY <1>5
  <2>3. /\ j = [pc |-> j.pc, m |-> j.m, direction |-> j.direction, valid |-> j.valid,
                saved |-> j.saved, value |-> j.value, skipping |-> j.skipping, type |-> j.type]
        /\ j.pc = "prev" /\ j.m = i.m /\ j.direction = "reverse" /\ j.valid = i.valid
        /\ j.saved = i.saved /\ j.skipping = i.skipping /\ j.type = "deletion"
    BY <1>5, <2>2 DEF Sound
  <2>4. {k \in ShownKeys : k < w} = {UserKeyOf(f) : f \in PrevShown(j)}
    <3>1. PrevShown(j) = {f \in Shown : UserKeyOf(f) < w}
      BY <1>3, <2>1, <2>3 DEF PrevShown
    <3> QED  BY <3>1 DEF ShownKeys
  <2>5. Backwards(j, LargestKey({k \in ShownKeys : k < w}))
    BY <2>1, <2>3, <2>4 DEF Backwards
  <2> QED  BY <1>1, <2>3, <2>5 DEF Sound
<1> QED  BY <1>1, <1>4, <1>5


\* Seek and SeekToFirst
LEMMA SeekCall ==
  ASSUME EntriesOK, NEW i, NEW w, Sound(i, w),
         NEW m, MergeOK(m), m.direction = "forward",
         NEW t \in Nat, \A f \in Seen : Ahead(m, f) <=> UserKeyOf(f) >= t,
         NEW K, K = {k \in ShownKeys : k >= t},
         NEW valid \in BOOLEAN,
         NEW j,
         j = [i EXCEPT !.pc = "next", !.m = m, !.skipping = FALSE, !.saved = 0, !.value = 0,
                       !.direction = "forward", !.valid = valid, !.type = "deletion"]
  PROVE  Sound(j, SmallestKey(K))
<1>1. /\ j = [pc |-> j.pc, m |-> j.m, direction |-> j.direction, valid |-> j.valid,
              saved |-> j.saved, value |-> j.value, skipping |-> j.skipping, type |-> j.type]
      /\ j.pc = "next" /\ j.m = m /\ j.direction = "forward" /\ j.valid = valid
      /\ j.saved = 0 /\ j.skipping = FALSE /\ j.type = "deletion"
  BY DEF Sound
<1>2. Shown \in SUBSET Seen /\ \A f \in Seen : UserKeyOf(f) \in Nat
  BY EntryFacts, SnapshotFacts
<1>3. K = {UserKeyOf(f) : f \in NextShown(j)}
  <2>1. NextShown(j) = {f \in Shown : UserKeyOf(f) >= t}
    BY <1>1, <1>2 DEF NextShown
  <2> QED  BY <2>1 DEF ShownKeys
<1>4. \A f, g \in Seen : ~Ahead(m, f) /\ Ahead(m, g) => UserKeyOf(f) < UserKeyOf(g)
  BY <1>2
<1>5. Forwards(j, SmallestKey(K))
  BY <1>1, <1>3, <1>4 DEF Forwards
<1> QED  BY <1>1, <1>5 DEF Sound

\* SeekToLast
LEMMA LastCall ==
  ASSUME EntriesOK, NEW i, NEW w, Sound(i, w),
         NEW m, MergeOK(m), m.direction = "reverse", \A f \in Seen : Behind(m, f),
         NEW valid \in BOOLEAN,
         NEW j,
         j = [i EXCEPT !.pc = "prev", !.m = m, !.skipping = FALSE, !.saved = 0, !.value = 0,
                       !.direction = "reverse", !.valid = valid, !.type = "deletion"]
  PROVE  Sound(j, LargestKey(ShownKeys))
<1>1. /\ j = [pc |-> j.pc, m |-> j.m, direction |-> j.direction, valid |-> j.valid,
              saved |-> j.saved, value |-> j.value, skipping |-> j.skipping, type |-> j.type]
      /\ j.pc = "prev" /\ j.m = m /\ j.direction = "reverse" /\ j.valid = valid
      /\ j.saved = 0 /\ j.skipping = FALSE /\ j.type = "deletion"
  BY DEF Sound
<1>2. Shown \in SUBSET Seen
  BY EntryFacts
<1>3. ShownKeys = {UserKeyOf(f) : f \in PrevShown(j)}
  <2>1. PrevShown(j) = Shown
    BY <1>1, <1>2 DEF PrevShown
  <2> QED  BY <2>1 DEF ShownKeys
<1>4. Backwards(j, LargestKey(ShownKeys))
  BY <1>1, <1>3 DEF Backwards
<1> QED  BY <1>1, <1>4 DEF Sound

-----------------------------------------------------------------------------
(* The invariant.                                                          *)

\* A step of the iterator leaves the entries alone.
LEMMA QuietStep ==
  ASSUME EntriesOK, Quiet, Sound(it', want')
  PROVE  IterInv'
<1>1. contents' = contents /\ deletion' = deletion /\ seq_' = seq_
  BY DEF Quiet
<1>2. Entries' = Entries
  BY <1>1 DEF Entries
<1>3. Seen' = Seen /\ Shown' = Shown
  BY <1>1, <1>2 DEF Seen, Shown
<1>4. ShownKeys' = ShownKeys
  BY <1>3 DEF ShownKeys
<1>5. EntriesOK'
  BY <1>1 DEF EntriesOK
<1>6. MergeOK(it.m)'
  BY <1>1 DEF Sound, MergeOK, Ahead, Behind, MergeValid, MergeKey
<1>7. it'.pc = "idle" => AtRest(it, want)'
  BY <1>3 DEF Sound, AtRest, Behind, MergeValid, MergeKey
<1>8. it'.pc = "next" => Forwards(it, want)'
  <2>1. NextShown(it)' = NextShown(it')
    BY <1>3 DEF NextShown, Ahead, MergeValid, MergeKey
  <2> QED  BY <1>3, <2>1 DEF Sound, Forwards, Ahead, MergeValid, MergeKey
<1>9. it'.pc = "back" => LeavesKey(it, want)'
  BY <1>3, <1>4 DEF Sound, LeavesKey, Behind, MergeValid, MergeKey
<1>10. it'.pc = "prev" => Backwards(it, want)'
  <2>1. PrevShown(it)' = PrevShown(it')
    BY <1>3 DEF PrevShown, Behind, MergeValid, MergeKey
  <2> QED  BY <1>1, <1>3, <2>1 DEF Sound, Backwards, Behind, MergeValid, MergeKey
<1>11. /\ it' = [pc |-> it'.pc, m |-> it'.m, direction |-> it'.direction, valid |-> it'.valid,
                 saved |-> it'.saved, value |-> it'.value, skipping |-> it'.skipping,
                 type |-> it'.type]
       /\ it'.pc \in {"idle", "next", "back", "prev"} /\ it'.direction \in {"forward", "reverse"}
       /\ it'.valid \in BOOLEAN /\ it'.skipping \in BOOLEAN /\ it'.type \in {"value", "deletion"}
       /\ it'.saved \in Nat
  BY DEF Sound
<1>12. Sound(it, want)'
  BY <1>6, <1>7, <1>8, <1>9, <1>10, <1>11 DEF Sound
<1> QED  BY <1>5, <1>12 DEF IterInv

\* An entry that is written while the iterator runs is not visible to it.
LEMMA WriterStep ==
  ASSUME IterInv, NEW k \in IterKeys, NEW deletes \in BOOLEAN, InsertEntry(k, deletes)
  PROVE  IterInv'
<1>1. EntriesOK /\ Sound(it, want)
  BY DEF IterInv
<1>2. PICK x : x = Key(k, seq_ + 1)
  OBVIOUS
<1>3. /\ seq_ \in Nat /\ seq_ < Last_ /\ seq_' = seq_ + 1
      /\ contents' = [contents EXCEPT ![1] = @ \cup {x}]
      /\ deletion' = IF deletes THEN deletion \cup {x} ELSE deletion
      /\ it' = it /\ want' = want
  BY <1>1, <1>2 DEF InsertEntry, EntriesOK
<1>4. OldEntries \in Nat /\ Last_ \in Nat /\ OldEntries <= seq_ /\ seq_ <= Last_ /\ k \in Nat
      /\ 1 \in Children
  BY <1>1, IterAssumption DEF EntriesOK, Last_, Children
<1>5. x \in Nat /\ SequenceOf(x) = seq_ + 1
  <2>1. seq_ + 1 \in 0..Last_
    BY <1>3, <1>4
  <2> QED  BY <1>2, <1>4, <2>1, KeyFacts
<1>6. ~Visible(x)
  BY <1>3, <1>4, <1>5 DEF Visible, sequence_
<1>7. x \notin Entries
  <2>1. \A e \in Entries : SequenceOf(e) \in 1..seq_
    BY <1>1, EntryFacts
  <2> QED  BY <1>3, <1>5, <2>1
<1>8. /\ DOMAIN contents = Children /\ DOMAIN contents' = Children
      /\ contents'[1] = contents[1] \cup {x}
      /\ \A c \in Children : c # 1 => contents'[c] = contents[c]
  BY <1>1, <1>3, <1>4 DEF EntriesOK
<1>9. Entries' = Entries \cup {x}
  BY <1>4, <1>8 DEF Entries
<1>10. Seen' = Seen
  BY <1>6, <1>9 DEF Seen
<1>11. \A e \in Entries : e \in deletion' <=> e \in deletion
  BY <1>3, <1>7
<1>12. Shown' = Shown
  BY <1>6, <1>9, <1>11 DEF Shown
<1>13. ShownKeys' = ShownKeys
  BY <1>12 DEF ShownKeys
<1>14. EntriesOK'
  <2>1. \A c \in Children : IsFiniteSet(contents'[c])
    BY SMTT(30), <1>1, <1>8, FS_AddElement DEF EntriesOK
  <2>2. \A c \in Children : \A e \in contents'[c] :
          \E n \in IterKeys, s \in 1..(seq_ + 1) : e = Key(n, s)
    <3>1. \A s \in 1..seq_ : s \in 1..(seq_ + 1)
      BY <1>3
    <3>2. seq_ + 1 \in 1..(seq_ + 1)
      BY <1>3
    <3>3. \A c \in Children : \A e \in contents[c] :
            \E n \in IterKeys, s \in 1..(seq_ + 1) : e = Key(n, s)
      BY <1>1, <3>1 DEF EntriesOK
    <3>4. \E n \in IterKeys, s \in 1..(seq_ + 1) : x = Key(n, s)
      BY <1>2, <3>2
    <3> QED  BY <1>8, <3>3, <3>4
  <2>3. \A c \in Children : \A d \in Children : c # d => contents'[c] \cap contents'[d] = {}
    <3>1. \A c \in Children : x \notin contents[c]
      BY <1>7 DEF Entries
    <3>2. \A c \in Children : \A d \in Children : c # d => contents[c] \cap contents[d] = {}
      BY <1>1 DEF EntriesOK
    <3> QED  BY <1>8, <3>1, <3>2
  <2>4. seq_' \in Nat /\ OldEntries <= seq_' /\ seq_' <= Last_
    BY <1>3, <1>4
  <2> QED  BY SMTT(30), <1>3, <1>8, <2>1, <2>2, <2>3, <2>4 DEF EntriesOK
<1>15. \A c \in Children : /\ \A e \in contents[c] : e \in contents'[c]
                           /\ \A e \in contents'[c] : Visible(e) => e \in contents[c]
  BY <1>6, <1>8
<1>16. PICK m : m = it.m
  OBVIOUS
<1>17. MergeOK(m)
  BY <1>1, <1>16 DEF Sound
<1>18. MergeOK(it.m)'
  BY <1>3, <1>15, <1>16, <1>17 DEF MergeOK, Ahead, Behind, MergeValid, MergeKey
<1>19. it.pc = "idle" => AtRest(it, want)'
  BY <1>1, <1>3, <1>10, <1>12 DEF Sound, AtRest, Behind, MergeValid, MergeKey
<1>20. it.pc = "next" => Forwards(it, want)'
  <2>1. NextShown(it)' = NextShown(it)
    BY <1>3, <1>12 DEF NextShown, Ahead, MergeValid, MergeKey
  <2> QED  BY <1>1, <1>3, <1>10, <2>1 DEF Sound, Forwards, Ahead, MergeValid, MergeKey
<1>21. it.pc = "back" => LeavesKey(it, want)'
  BY <1>1, <1>3, <1>10, <1>13 DEF Sound, LeavesKey, Behind, MergeValid, MergeKey
<1>22. it.pc = "prev" => Backwards(it, want)'
  <2>1. PrevShown(it)' = PrevShown(it)
    BY <1>3, <1>12 DEF PrevShown, Behind, MergeValid, MergeKey
  <2>2. \A e \in Seen : e \in deletion' <=> e \in deletion
    BY <1>11 DEF Seen
  <2> QED  BY <1>1, <1>3, <1>10, <2>1, <2>2 DEF Sound, Backwards, Behind, MergeValid, MergeKey
<1>23. Sound(it, want)'
  BY <1>1, <1>3, <1>18, <1>19, <1>20, <1>21, <1>22 DEF Sound
<1> QED  BY <1>14, <1>23 DEF IterInv

\* The entries of an initial state have sequence numbers and children of their own.
LEMMA InitialEntries ==
  ASSUME IterInit
  PROVE  IterInv
<1>1. PICK key \in [1..OldEntries -> IterKeys], child \in [1..OldEntries -> Children] :
        contents = [c \in Children |-> {Key(key[s], s) : s \in {t \in 1..OldEntries : child[t] = c}}]
  BY DEF IterInit
<1>2. OldEntries \in Nat /\ Last_ \in Nat /\ OldEntries <= Last_
  BY IterAssumption DEF Last_
<1>3. \A s \in 1..OldEntries : s \in 0..Last_ /\ key[s] \in IterKeys /\ key[s] \in Nat
  <2>1. \A s \in 1..OldEntries : s \in 0..Last_
    BY <1>2
  <2>2. \A s \in 1..OldEntries : key[s] \in IterKeys
    BY <1>1
  <2> QED  BY <2>1, <2>2, IterAssumption
<1>4. \A s \in 1..OldEntries : SequenceOf(Key(key[s], s)) = s
  BY <1>3, KeyFacts
<1>5. ASSUME NEW c \in Children
      PROVE  /\ IsFiniteSet(contents[c])
             /\ \A e \in contents[c] : \E s \in 1..OldEntries : e = Key(key[s], s) /\ child[s] = c
  <2>1. PICK T : T = {t \in 1..OldEntries : child[t] = c}
    OBVIOUS
  <2>2. contents[c] = {Key(key[s], s) : s \in T}
    BY <1>1, <2>1
  <2>3. IsFiniteSet(T)
    <3>1. IsFiniteSet(1..OldEntries) /\ T \in SUBSET (1..OldEntries)
      BY <1>2, <2>1, FS_Interval
    <3> QED  BY <3>1, FS_Subset
  <2>4. PICK f : f = [s \in T |-> Key(key[s], s)]
    OBVIOUS
  <2>5. f \in Surjection(T, contents[c])
    BY <2>2, <2>4 DEF Surjection
  <2> QED  BY <2>1, <2>2, <2>3, <2>5, FS_Surjection
<1>6. \A c, d \in Children : c # d => contents[c] \cap contents[d] = {}
  <2> SUFFICES ASSUME NEW c \in Children, NEW d \in Children,
                      NEW e, e \in contents[c], e \in contents[d]
               PROVE  c = d
    OBVIOUS
  <2>1. PICK s \in 1..OldEntries : e = Key(key[s], s) /\ child[s] = c
    BY <1>5
  <2>2. PICK t \in 1..OldEntries : e = Key(key[t], t) /\ child[t] = d
    BY <1>5
  <2>3. s = SequenceOf(e) /\ t = SequenceOf(e)
    BY <1>4, <2>1, <2>2
  <2> QED  BY <2>1, <2>2, <2>3
<1>7. EntriesOK
  <2>1. DOMAIN contents = Children /\ seq_ = OldEntries
    BY <1>1 DEF IterInit
  <2> QED  BY <1>2, <1>3, <1>5, <1>6, <2>1 DEF EntriesOK
<1>8. PICK m : m = [pos |-> [c \in Children |-> Invalid], current |-> 0, direction |-> "forward"]
  OBVIOUS
<1>9. MergeOK(m)
  BY <1>8 DEF MergeOK, Ahead, MergeValid
<1>10. it = [pc |-> "idle", m |-> m, direction |-> "forward", valid |-> FALSE, saved |-> 0,
             value |-> 0, skipping |-> FALSE, type |-> "deletion"] /\ want = 0
  BY <1>8 DEF IterInit
<1>11. AtRest(it, want)
  BY <1>10 DEF AtRest
<1>12. Sound(it, want)
  BY <1>9, <1>10, <1>11 DEF Sound
<1> QED  BY <1>7, <1>12 DEF IterInv


\* Every step keeps the invariant.
LEMMA InvariantKept ==
  ASSUME IterInv, IterNext_
  PROVE  IterInv'
<1>1. EntriesOK /\ Sound(it, want)
  BY DEF IterInv
<1>2. ASSUME NEW k \in IterKeys, Seek(k)
      PROVE  IterInv'
  <2>1. PICK m : m = MergeSeek(Key(k, sequence_))
    OBVIOUS
  <2>2. PICK valid \in BOOLEAN : valid = (it.valid /\ MergeValid(m))
    OBVIOUS
  <2>3. k \in Nat /\ Key(k, OldEntries) \in Nat
    <3>1. k \in Nat /\ OldEntries \in 0..Last_
      BY IterAssumption DEF Last_
    <3> QED  BY <3>1, KeyFacts
  <2>4. /\ MergeOK(m) /\ m.direction = "forward"
        /\ \A f \in Seen : Ahead(m, f) <=> f >= Key(k, OldEntries)
    BY <1>1, <2>1, <2>3, MergeSeekFacts DEF sequence_
  <2>5. \A f \in Seen : Ahead(m, f) <=> UserKeyOf(f) >= k
    BY <1>1, <2>3, <2>4, SnapshotFacts
  <2>6. /\ it' = [it EXCEPT !.pc = "next", !.m = m, !.skipping = FALSE, !.saved = 0, !.value = 0,
                            !.direction = "forward", !.valid = valid, !.type = "deletion"]
        /\ want' = SmallestKey({j \in ShownKeys : j >= k}) /\ Quiet
    BY <1>2, <2>1, <2>2 DEF Seek, Started
  <2>7. PICK K : K = {j \in ShownKeys : j >= k}
    OBVIOUS
  <2>8. MergeOK(m) /\ m.direction = "forward"
    BY <2>4
  <2>9. Sound(it', SmallestKey(K))
    BY <1>1, <2>3, <2>5, <2>6, <2>7, <2>8, SeekCall
  <2>10. Sound(it', want')
    BY <2>6, <2>7, <2>9
  <2> QED  BY <1>1, <2>6, <2>10, QuietStep
<1>3. CASE SeekToFirst
  <2>1. PICK m : m = MergeFirst
    OBVIOUS
  <2>2. PICK valid \in BOOLEAN : valid = (it.valid /\ MergeValid(m))
    OBVIOUS
  <2>3. MergeOK(m) /\ m.direction = "forward" /\ \A f \in Seen : Ahead(m, f)
    BY <1>1, <2>1, MergeSeekFacts
  <2>4. PICK zero \in Nat : zero = 0
    OBVIOUS
  <2>5. \A f \in Seen : UserKeyOf(f) \in Nat /\ (Ahead(m, f) <=> UserKeyOf(f) >= zero)
    BY <1>1, <2>3, <2>4, SnapshotFacts
  <2>6. /\ it' = [it EXCEPT !.pc = "next", !.m = m, !.skipping = FALSE, !.saved = 0, !.value = 0,
                            !.direction = "forward", !.valid = valid, !.type = "deletion"]
        /\ want' = SmallestKey(ShownKeys) /\ Quiet
    BY <1>3, <2>1, <2>2 DEF SeekToFirst, Started
  <2>7. ShownKeys = {j \in ShownKeys : j >= zero}
    <3>1. \A e \in Shown : UserKeyOf(e) >= zero
      BY <1>1, <2>4, <2>5, EntryFacts
    <3> QED  BY <3>1 DEF ShownKeys
  <2>8. \A f \in Seen : Ahead(m, f) <=> UserKeyOf(f) >= zero
    BY <2>5
  <2>9. PICK K : K = ShownKeys
    OBVIOUS
  <2>10. K = {j \in ShownKeys : j >= zero}
    BY <2>7, <2>9
  <2>11. Sound(it', SmallestKey(K))
    BY <1>1, <2>3, <2>6, <2>8, <2>10, SeekCall
  <2>12. Sound(it', want')
    BY <2>6, <2>9, <2>11
  <2> QED  BY <1>1, <2>6, <2>12, QuietStep
<1>4. CASE SeekToLast
  <2>1. PICK m : m = MergeLast
    OBVIOUS
  <2>2. PICK valid \in BOOLEAN : valid = (it.valid /\ MergeValid(m))
    OBVIOUS
  <2>3. MergeOK(m) /\ m.direction = "reverse" /\ \A f \in Seen : Behind(m, f)
    BY <1>1, <2>1, MergeSeekFacts
  <2>4. /\ it' = [it EXCEPT !.pc = "prev", !.m = m, !.skipping = FALSE, !.saved = 0, !.value = 0,
                            !.direction = "reverse", !.valid = valid, !.type = "deletion"]
        /\ want' = LargestKey(ShownKeys) /\ Quiet
    BY <1>4, <2>1, <2>2 DEF SeekToLast, Started
  <2>5. Sound(it', want')
    BY <1>1, <2>3, <2>4, LastCall
  <2> QED  BY <1>1, <2>4, <2>5, QuietStep
<1>5. CASE Next
  <2>1. PICK m : m = IF it.direction = "forward" THEN it.m
                     ELSE IF MergeValid(it.m) THEN MergeNext(it.m) ELSE MergeFirst
    OBVIOUS
  <2>2. /\ it.pc = "idle" /\ it.valid /\ Quiet
        /\ want' = SmallestKey({j \in ShownKeys : j > want})
        /\ it' = IF MergeValid(m)
                 THEN [it EXCEPT !.pc = "next", !.m = m, !.direction = "forward", !.skipping = TRUE,
                                 !.saved = IF it.direction = "forward" THEN UserKeyOf(MergeKey(m))
                                           ELSE it.saved]
                 ELSE [it EXCEPT !.m = m, !.direction = "forward", !.valid = FALSE, !.saved = 0]
    BY <1>5, <2>1 DEF Next
  <2>3. Sound(it', want')
    BY <1>1, <2>1, <2>2, NextCall
  <2> QED  BY <1>1, <2>2, <2>3, QuietStep
<1>6. CASE Prev
  <2>1. /\ it.pc = "idle" /\ it.valid /\ Quiet
        /\ want' = LargestKey({j \in ShownKeys : j < want})
        /\ it' = IF it.direction = "forward"
                 THEN [it EXCEPT !.pc = "back", !.m = MergePrev(it.m),
                                 !.saved = UserKeyOf(MergeKey(it.m))]
                 ELSE [it EXCEPT !.pc = "prev", !.type = "deletion"]
    BY <1>6 DEF Prev
  <2>2. Sound(it', want')
    BY <1>1, <2>1, PrevCall
  <2> QED  BY <1>1, <2>1, <2>2, QuietStep
<1>7. CASE FindNextUserEntry
  <2>1. PICK e : e = MergeKey(it.m)
    OBVIOUS
  <2>2. PICK deletes \in BOOLEAN : deletes = (Visible(e) /\ e \in deletion)
    OBVIOUS
  <2>3. PICK yields \in BOOLEAN :
          yields = (Visible(e) /\ e \notin deletion /\ ~(it.skipping /\ UserKeyOf(e) <= it.saved))
    OBVIOUS
  <2>4. /\ it.pc = "next" /\ MergeValid(it.m) /\ want' = want /\ Quiet
        /\ it' = IF yields THEN [it EXCEPT !.pc = "idle", !.valid = TRUE, !.saved = 0]
                 ELSE [it EXCEPT !.m = MergeNext(it.m), !.skipping = it.skipping \/ deletes,
                                 !.saved = IF deletes THEN UserKeyOf(e) ELSE it.saved]
    BY <1>7, <2>1, <2>2, <2>3 DEF FindNextUserEntry
  <2>5. Sound(it', want)
    BY <1>1, <2>1, <2>2, <2>3, <2>4, NextTurn
  <2> QED  BY <1>1, <2>4, <2>5, QuietStep
<1>8. CASE NoNextUserEntry
  <2>1. /\ it.pc = "next" /\ ~MergeValid(it.m) /\ want' = want /\ Quiet
        /\ it' = [it EXCEPT !.pc = "idle", !.valid = FALSE, !.saved = 0]
    BY <1>8 DEF NoNextUserEntry
  <2>2. Sound(it', want)
    BY <1>1, <2>1, NextEnds
  <2> QED  BY <1>1, <2>1, <2>2, QuietStep
<1>9. CASE BeforeKey
  <2>1. /\ it.pc = "back" /\ want' = want /\ Quiet
        /\ it' = IF ~MergeValid(it.m)
                 THEN [it EXCEPT !.pc = "idle", !.valid = FALSE, !.saved = 0, !.value = 0]
                 ELSE IF UserKeyOf(MergeKey(it.m)) < it.saved
                 THEN [it EXCEPT !.pc = "prev", !.direction = "reverse", !.type = "deletion"]
                 ELSE [it EXCEPT !.m = MergePrev(it.m)]
    BY <1>9 DEF BeforeKey
  <2>2. Sound(it', want)
    BY <1>1, <2>1, BackTurn
  <2> QED  BY <1>1, <2>1, <2>2, QuietStep
<1>10. CASE FindPrevUserEntry
  <2>1. PICK e : e = MergeKey(it.m)
    OBVIOUS
  <2>2. PICK back : back = [it EXCEPT !.m = MergePrev(it.m)]
    OBVIOUS
  <2>3. /\ it.pc = "prev" /\ MergeValid(it.m) /\ want' = want /\ Quiet
        /\ ~(it.type = "value" /\ Visible(e) /\ UserKeyOf(e) < it.saved)
        /\ it' = IF ~Visible(e) THEN back
                 ELSE IF e \in deletion
                 THEN [back EXCEPT !.type = "deletion", !.saved = 0, !.value = 0]
                 ELSE [back EXCEPT !.type = "value", !.saved = UserKeyOf(e), !.value = e]
    BY <1>10, <2>1, <2>2 DEF FindPrevUserEntry
  <2>4. Sound(it', want)
    BY <1>1, <2>1, <2>2, <2>3, PrevTurn
  <2> QED  BY <1>1, <2>3, <2>4, QuietStep
<1>11. CASE PrevUserEntryFound
  <2>1. /\ it.pc = "prev" /\ want' = want /\ Quiet
        /\ MergeValid(it.m) => /\ it.type = "value" /\ Visible(MergeKey(it.m))
                               /\ UserKeyOf(MergeKey(it.m)) < it.saved
        /\ it' = IF it.type = "deletion"
                 THEN [it EXCEPT !.pc = "idle", !.valid = FALSE, !.saved = 0, !.value = 0,
                                 !.direction = "forward"]
                 ELSE [it EXCEPT !.pc = "idle", !.valid = TRUE]
    BY <1>11 DEF PrevUserEntryFound
  <2>2. Sound(it', want)
    BY <1>1, <2>1, PrevFound
  <2> QED  BY <1>1, <2>1, <2>2, QuietStep
<1>12. ASSUME NEW k \in IterKeys, NEW deletes \in BOOLEAN, InsertEntry(k, deletes)
       PROVE  IterInv'
  BY <1>12, WriterStep
<1> QED
  BY <1>2, <1>3, <1>4, <1>5, <1>6, <1>7, <1>8, <1>9, <1>10, <1>11, <1>12 DEF IterNext_

\* The invariant between any two steps: the merge has passed no entry of the snapshot
\* that it should still yield, and what the calls of DBIter have noted in saved_key_,
\* saved_value_ and skipping is true of the snapshot (db_iter.cc, merger.cc).
THEOREM IteratorIsSound == IterSpec => []IterInv
<1>1. IterInit => IterInv
  BY InitialEntries
<1>2. IterInv /\ [IterNext_]_iterVars => IterInv'
  <2> SUFFICES ASSUME IterInv, [IterNext_]_iterVars PROVE IterInv'
    OBVIOUS
  <2>1. CASE IterNext_
    BY <2>1, InvariantKept
  <2>2. CASE UNCHANGED iterVars
    <3>1. Quiet /\ it' = it /\ want' = want
      BY <2>2 DEF iterVars, Quiet
    <3>2. EntriesOK /\ Sound(it, want)
      BY DEF IterInv
    <3>3. Sound(it', want')
      BY <3>1, <3>2
    <3> QED  BY <3>1, <3>2, <3>3, QuietStep
  <2> QED  BY <2>1, <2>2
<1> QED  BY <1>1, <1>2, PTL DEF IterSpec

\* Whenever a call of the iterator has returned it is at the next or the previous key of
\* its snapshot, with the value of that snapshot, in both directions and whatever is
\* written into the memtable between any two steps of the merge.
THEOREM IteratorReadsItsSnapshot == IterSpec => []IteratorReadsSnapshot
<1>1. IterInv => IteratorReadsSnapshot
  BY DEF IterInv, Sound, AtRest, IteratorReadsSnapshot
<1> QED  BY <1>1, IteratorIsSound, PTL
=============================================================================
