----------------------------- MODULE Iterators -----------------------------
(***************************************************************************)
(* An iterator over a leveldb database: DBIter (db/db_iter.cc) turns the   *)
(* internal entries of MergingIterator (table/merger.cc), which merges a   *)
(* memtable and tables, into the user's keys and values at one sequence    *)
(* number, in both directions.  A writer inserts into the memtable while   *)
(* the iterator runs: between any two calls that DBIter makes.             *)
(*                                                                         *)
(* An internal key is a number in the order of the internal keys: the user *)
(* key first, then the newest entry first.                                 *)
(***************************************************************************)
EXTENDS Integers, FiniteSets, FiniteSetsExt

CONSTANTS
  IterKeys,       \* the user keys, positive
  NumChildren,    \* the children of the merge; the first is the memtable
  OldEntries,     \* the sequence number of the iterator: entries before it exists
  NewEntries      \* bound: entries written while it runs

ASSUME IterAssumption ==
  /\ IterKeys \subseteq Nat \ {0} /\ IsFiniteSet(IterKeys)
  /\ NumChildren \in Nat \ {0, 1} /\ OldEntries \in Nat /\ NewEntries \in Nat

VARIABLES
  contents,   \* the entries of each child
  deletion,   \* the entries that are deletions
  seq_,       \* the last sequence number
  it,         \* the DBIter and its MergingIterator
  want        \* history: the user key the iterator should be at; 0 for none

iterVars == <<contents, deletion, seq_, it, want>>

Last_ == OldEntries + NewEntries
Key(k, s) == k * (Last_ + 1) + (Last_ - s)      \* (user key, sequence)
UserKeyOf(e) == e \div (Last_ + 1)
SequenceOf(e) == Last_ - (e % (Last_ + 1))
Children == 1..NumChildren
Invalid == -1

-----------------------------------------------------------------------------
(* The children, through IteratorWrapper: a position is an entry.          *)

SmallestOf(S) == IF S = {} THEN Invalid ELSE Min(S)
LargestOf(S) == IF S = {} THEN Invalid ELSE Max(S)
ChildFirst(c) == SmallestOf(contents[c])
ChildLast(c) == LargestOf(contents[c])
ChildSeek(c, target) == SmallestOf({e \in contents[c] : e >= target})
ChildNext(c, e) == SmallestOf({f \in contents[c] : f > e})
ChildPrev(c, e) == LargestOf({f \in contents[c] : f < e})

-----------------------------------------------------------------------------
(* MergingIterator: the positions of the children, the current one and the *)
(* direction.                                                              *)

MergeValid(m) == m.current # 0
MergeKey(m) == m.pos[m.current]
Positioned(pos, direction) ==
  LET valid == {c \in Children : pos[c] # Invalid}
      keys == {pos[c] : c \in valid}
      key == IF direction = "forward" THEN Min(keys) ELSE Max(keys)
  IN  [pos |-> pos, direction |-> direction,
       current |-> IF valid = {} THEN 0 ELSE CHOOSE c \in valid : pos[c] = key]

MergeFirst == Positioned([c \in Children |-> ChildFirst(c)], "forward")
MergeLast == Positioned([c \in Children |-> ChildLast(c)], "reverse")
MergeSeek(target) == Positioned([c \in Children |-> ChildSeek(c, target)], "forward")

\* Mutant: the other children are not repositioned when the direction changes
MergeNextAsIs(m) ==
  Positioned([m.pos EXCEPT ![m.current] = ChildNext(m.current, MergeKey(m))], "forward")

\* Next: after a step back the other children are put behind the key
MergeNext(m) ==
  LET key == MergeKey(m)
      others == IF m.direction = "forward" THEN m.pos
                ELSE [c \in Children |-> LET s == ChildSeek(c, key)
                                         IN  IF s = key THEN ChildNext(c, s) ELSE s]
  IN  Positioned([others EXCEPT ![m.current] = ChildNext(m.current, key)], "forward")

\* Prev: the other children are put before the key
MergePrev(m) ==
  LET key == MergeKey(m)
      others == IF m.direction = "reverse" THEN m.pos
                ELSE [c \in Children |-> LET s == ChildSeek(c, key)
                                         IN  IF s # Invalid THEN ChildPrev(c, s) ELSE ChildLast(c)]
  IN  Positioned([others EXCEPT ![m.current] = ChildPrev(m.current, key)], "reverse")

-----------------------------------------------------------------------------
(* DBIter.                                                                 *)

sequence_ == OldEntries
Visible(e) == SequenceOf(e) <= sequence_

Quiet == UNCHANGED <<contents, deletion, seq_>>
Started(m, pc, key) ==
  /\ it' = [it EXCEPT !.pc = pc, !.m = m, !.skipping = FALSE, !.saved = 0, !.value = 0,
                      !.direction = IF pc = "prev" THEN "reverse" ELSE "forward",
                      !.valid = @ /\ MergeValid(m), !.type = "deletion"]
  /\ want' = key
  /\ Quiet

\* What a reader of the snapshot would see
Entries == UNION {contents[c] : c \in Children}
Shown == {e \in Entries : /\ Visible(e) /\ e \notin deletion
                          /\ \A f \in Entries : Visible(f) /\ UserKeyOf(f) = UserKeyOf(e) => f >= e}
ShownKeys == {UserKeyOf(e) : e \in Shown}
SmallestKey(S) == IF S = {} THEN 0 ELSE Min(S)
LargestKey(S) == IF S = {} THEN 0 ELSE Max(S)

Seek(k) ==
  /\ it.pc = "idle"
  /\ Started(MergeSeek(Key(k, sequence_)), "next", SmallestKey({j \in ShownKeys : j >= k}))

SeekToFirst ==
  /\ it.pc = "idle"
  /\ Started(MergeFirst, "next", SmallestKey(ShownKeys))

SeekToLast ==
  /\ it.pc = "idle"
  /\ Started(MergeLast, "prev", LargestKey(ShownKeys))

\* Next: from a reverse scan first back into the entries of the key
Next ==
  /\ it.pc = "idle" /\ it.valid
  /\ LET m == IF it.direction = "forward" THEN it.m
              ELSE IF MergeValid(it.m) THEN MergeNext(it.m) ELSE MergeFirst
     IN  it' = IF MergeValid(m)
               THEN [it EXCEPT !.pc = "next", !.m = m, !.direction = "forward", !.skipping = TRUE,
                       !.saved = IF it.direction = "forward" THEN UserKeyOf(MergeKey(m)) ELSE @]
               ELSE [it EXCEPT !.m = m, !.direction = "forward", !.valid = FALSE, !.saved = 0]
  /\ want' = SmallestKey({j \in ShownKeys : j > want})
  /\ Quiet

\* One turn of FindNextUserEntry's loop
FindNextUserEntry ==
  /\ it.pc = "next" /\ MergeValid(it.m)
  /\ LET e == MergeKey(it.m)
         deletes == Visible(e) /\ e \in deletion
         yields == Visible(e) /\ e \notin deletion /\ ~(it.skipping /\ UserKeyOf(e) <= it.saved)
     IN  it' = IF yields THEN [it EXCEPT !.pc = "idle", !.valid = TRUE, !.saved = 0]
               ELSE [it EXCEPT !.m = MergeNext(it.m), !.skipping = @ \/ deletes,
                               !.saved = IF deletes THEN UserKeyOf(e) ELSE @]
  /\ UNCHANGED want /\ Quiet

\* The end of the loop
NoNextUserEntry ==
  /\ it.pc = "next" /\ ~MergeValid(it.m)
  /\ it' = [it EXCEPT !.pc = "idle", !.valid = FALSE, !.saved = 0]
  /\ UNCHANGED want /\ Quiet

\* Prev: from a forward scan first before all entries of the key
Prev ==
  /\ it.pc = "idle" /\ it.valid
  /\ it' = IF it.direction = "forward"
           THEN [it EXCEPT !.pc = "back", !.m = MergePrev(it.m), !.saved = UserKeyOf(MergeKey(it.m))]
           ELSE [it EXCEPT !.pc = "prev", !.type = "deletion"]
  /\ want' = LargestKey({j \in ShownKeys : j < want})
  /\ Quiet

\* The loop with which Prev leaves the entries of the current key
BeforeKey ==
  /\ it.pc = "back"
  /\ it' = IF ~MergeValid(it.m)
           THEN [it EXCEPT !.pc = "idle", !.valid = FALSE, !.saved = 0, !.value = 0]
           ELSE IF UserKeyOf(MergeKey(it.m)) < it.saved
           THEN [it EXCEPT !.pc = "prev", !.direction = "reverse", !.type = "deletion"]
           ELSE [it EXCEPT !.m = MergePrev(it.m)]
  /\ UNCHANGED want /\ Quiet

\* One turn of FindPrevUserEntry's loop: the newest visible entry of a key comes last
FindPrevUserEntry ==
  /\ it.pc = "prev" /\ MergeValid(it.m)
  /\ ~(it.type = "value" /\ Visible(MergeKey(it.m)) /\ UserKeyOf(MergeKey(it.m)) < it.saved)
  /\ LET e == MergeKey(it.m)
         back == [it EXCEPT !.m = MergePrev(it.m)]
     IN  it' = IF ~Visible(e) THEN back
               ELSE IF e \in deletion THEN [back EXCEPT !.type = "deletion", !.saved = 0, !.value = 0]
               ELSE [back EXCEPT !.type = "value", !.saved = UserKeyOf(e), !.value = e]
  /\ UNCHANGED want /\ Quiet

\* What follows the loop
PrevUserEntryFound ==
  /\ it.pc = "prev"
  /\ MergeValid(it.m) => /\ it.type = "value" /\ Visible(MergeKey(it.m))
                         /\ UserKeyOf(MergeKey(it.m)) < it.saved
  /\ it' = IF it.type = "deletion"
           THEN [it EXCEPT !.pc = "idle", !.valid = FALSE, !.saved = 0, !.value = 0,
                           !.direction = "forward"]
           ELSE [it EXCEPT !.pc = "idle", !.valid = TRUE]
  /\ UNCHANGED want /\ Quiet

-----------------------------------------------------------------------------
\* A writer: MemTable::Add
InsertEntry(k, deletes) ==
  /\ seq_ < Last_
  /\ seq_' = seq_ + 1
  /\ contents' = [contents EXCEPT ![1] = @ \cup {Key(k, seq_ + 1)}]
  /\ deletion' = IF deletes THEN deletion \cup {Key(k, seq_ + 1)} ELSE deletion
  /\ UNCHANGED <<it, want>>

\* Any entries of the sequence numbers up to the iterator's, anywhere
IterInit ==
  /\ \E key \in [1..OldEntries -> IterKeys], child \in [1..OldEntries -> Children] :
       /\ contents = [c \in Children |-> {Key(key[s], s) : s \in {t \in 1..OldEntries : child[t] = c}}]
       /\ \E deleted \in SUBSET (1..OldEntries) : deletion = {Key(key[s], s) : s \in deleted}
  /\ seq_ = OldEntries
  /\ it = [pc |-> "idle", m |-> [pos |-> [c \in Children |-> Invalid], current |-> 0,
                                 direction |-> "forward"],
           direction |-> "forward", valid |-> FALSE, saved |-> 0, value |-> 0,
           skipping |-> FALSE, type |-> "deletion"]
  /\ want = 0

IterNext_ ==
  \/ \E k \in IterKeys : Seek(k) \/ \E deletes \in BOOLEAN : InsertEntry(k, deletes)
  \/ SeekToFirst \/ SeekToLast \/ Next \/ Prev
  \/ FindNextUserEntry \/ NoNextUserEntry \/ BeforeKey \/ FindPrevUserEntry \/ PrevUserEntryFound

IterSpec == IterInit /\ [][IterNext_]_iterVars

\* Whenever a call of the iterator has returned it is at the next or the previous key of its
\* snapshot, with the value of that snapshot, whatever was written meanwhile and however often
\* the direction changed (db_iter.cc:154-236, merger.cc:60-110)
IteratorReadsSnapshot ==
  it.pc = "idle" =>
    IF it.valid
    THEN LET e == IF it.direction = "forward" THEN MergeKey(it.m) ELSE it.value
         IN  /\ e \in Shown /\ want = UserKeyOf(e)
             /\ it.direction = "reverse" => it.saved = want
    ELSE want = 0
=============================================================================
