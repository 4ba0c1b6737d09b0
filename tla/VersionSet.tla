---------------------------- MODULE VersionSet ----------------------------
(***************************************************************************)
(* leveldb's versions: which table files make up each level, how a key is  *)
(* looked up in them, and how the files of the next compaction are chosen  *)
(* (db/version_set.cc).                                                    *)
(*                                                                         *)
(* An entry is known by its sequence number: `hist' gives its user key and *)
(* whether it is a deletion.  A table file is the set of its entries with  *)
(* the smallest and the largest of its FileMetaData; its size is how many  *)
(* entries it has.  A version maps each level to its set of file numbers;  *)
(* the order of a level's files is that of BySmallestKey.                  *)
(***************************************************************************)
EXTENDS Integers, Sequences, FiniteSets, FiniteSetsExt

CONSTANTS
  Keys,                  \* user keys: a set of numbers, ordered as such
  kNumLevels,            \* config::kNumLevels
  kMaxMemCompactLevel,   \* config::kMaxMemCompactLevel
  kL0_CompactionTrigger, \* config::kL0_CompactionTrigger
  MaxFileSize,           \* options.max_file_size, in entries
  GrandParentLimit,      \* MaxGrandParentOverlapBytes, in entries
  ExpandedLimit,         \* ExpandedCompactionByteSizeLimit, in entries
  LevelBase,             \* MaxBytesForLevel of level 1, in entries
  LevelGrowth            \* and its growth from a level to the next

ASSUME VersionAssumption ==
  /\ Keys \subseteq Nat /\ Keys # {}
  /\ kNumLevels \in Nat /\ kNumLevels >= 2
  /\ kMaxMemCompactLevel \in 0..(kNumLevels - 1)
  /\ kL0_CompactionTrigger \in Nat \ {0}
  /\ {MaxFileSize, LevelBase, LevelGrowth} \subseteq Nat \ {0}
  /\ {GrandParentLimit, ExpandedLimit} \subseteq Nat

VARIABLES
  hist,   \* the entries written: hist[s] is the entry of sequence number s
  table   \* the table files on disk, by file number

Levels == 0..(kNumLevels - 1)
NoVersion == [l \in Levels |-> {}]

\* An end of a range of user keys that is NULL.
NULL == -1
None == 0

-----------------------------------------------------------------------------
(* Keys, files and levels.                                                 *)

Key(e) == hist[e].key

\* InternalKeyComparator: by user key, then the newest entry first
ILess(a, b) == Key(a) < Key(b) \/ (Key(a) = Key(b) /\ a > b)

\* A table file with the entries E
TableOf(E) == [entries |-> E,
               smallest |-> CHOOSE e \in E : \A x \in E : x = e \/ ILess(e, x),
               largest |-> CHOOSE e \in E : \A x \in E : x = e \/ ILess(x, e)]

Entries(f) == table[f].entries
Smallest(f) == table[f].smallest
Largest(f) == table[f].largest

\* A level's files, in the order of BySmallestKey
BySmallestKey(F) ==
  LET Before(f) == {g \in F : \/ ILess(Smallest(g), Smallest(f))
                              \/ Smallest(g) = Smallest(f) /\ g < f}
  IN [i \in 1..Cardinality(F) |-> CHOOSE f \in F : Cardinality(Before(f)) = i - 1]

TotalFileSize(F) == Cardinality(UNION {{f} \X Entries(f) : f \in F})

MaxBytesForLevel(l) == LevelBase * LevelGrowth^(IF l > 1 THEN l - 1 ELSE 0)

\* Every level has a limit: a product of positive numbers, written out because
\* the provers do not compute powers
ASSUME LimitAssumption == \A l \in 1..(kNumLevels - 1) : MaxBytesForLevel(l) \in Nat \ {0}

\* FindFile: the first file of a sorted level whose largest key is not before
\* the internal key of user key k at sequence number s; None past the end
FindFile(F, k, s) ==
  LET reach == {f \in F : \/ k < Key(Largest(f))
                          \/ k = Key(Largest(f)) /\ s >= Largest(f)}
  IN IF reach = {} THEN None
     ELSE CHOOSE f \in reach : \A g \in reach : ~ILess(Smallest(g), Smallest(f))

\* AfterFile and BeforeFile: the file is outside [b, e]
Outside(f, b, e) ==
  \/ b # NULL /\ b > Key(Largest(f))
  \/ e # NULL /\ e < Key(Smallest(f))

\* SomeFileOverlapsRange; Version::OverlapInLevel
OverlapInLevel(v, l, b, e) == \E f \in v[l] : ~Outside(f, b, e)

\* Version::GetOverlappingInputs: in level 0 a file that reaches out of the
\* range widens it, and the search starts again
GetOverlappingInputs(v, l, b, e) ==
  LET Hits(r) == {f \in v[l] : ~Outside(f, r[1], r[2])}
      Widen(r) == <<IF r[1] = NULL THEN NULL ELSE Min({r[1]} \cup {Key(Smallest(f)) : f \in Hits(r)}),
                    IF r[2] = NULL THEN NULL ELSE Max({r[2]} \cup {Key(Largest(f)) : f \in Hits(r)})>>
      widened[n \in 0..Cardinality(v[l])] == IF n = 0 THEN <<b, e>> ELSE Widen(widened[n - 1])
  IN IF l = 0 THEN Hits(widened[Cardinality(v[l])]) ELSE Hits(<<b, e>>)

\* GetRange, GetRange2: the entries at the two ends of a set of files
RangeStart(F) == Smallest(CHOOSE f \in F : \A g \in F : ~ILess(Smallest(g), Smallest(f)))
RangeLimit(F) == Largest(CHOOSE f \in F : \A g \in F : ~ILess(Largest(f), Largest(g)))

-----------------------------------------------------------------------------
(* Reading.                                                                *)

\* The entry of k that a memtable or a table shows at sequence number s: the
\* first at or after the lookup key, if it is of that user key
Seek(E, k, s) ==
  LET seen == {e \in E : Key(e) = k /\ e <= s} IN IF seen = {} THEN None ELSE Max(seen)

\* The files <<level, file>> that Version::Get may have to read for k, as
\* ForEachOverlapping lists them: those of level 0 with k between their ends and
\* at most one of every other level
FilesToSearch(v, k, s) ==
  {<<0, f>> : f \in {g \in v[0] : ~Outside(g, k, k)}} \cup
  {x \in {<<l, FindFile(v[l], k, s)>> : l \in Levels \ {0}} :
     x[2] # None /\ ~Outside(x[2], NULL, k)}

\* Their order: level by level, in level 0 NewestFirst
FirstOf(X) == CHOOSE x \in X : \A y \in X : x[1] < y[1] \/ (x[1] = y[1] /\ x[2] >= y[2])

\* Version::Get: the entry of the first file that has one of k, None without
VersionGet(v, k, s) ==
  LET hits == {x \in FilesToSearch(v, k, s) : Seek(Entries(x[2]), k, s) # None}
  IN IF hits = {} THEN None ELSE Seek(Entries(FirstOf(hits)[2]), k, s)

\* The file that a read is charged to: the first one, if another was read too
NoFile == <<None, None>>
GetStats(v, k, s) ==
  LET search == FilesToSearch(v, k, s)
  IN IF Cardinality(search) >= 2 /\ Seek(Entries(FirstOf(search)[2]), k, s) = None
     THEN FirstOf(search) ELSE NoFile

\* Version::RecordReadSample: the first file of two that overlap the key
SampleStats(v, k, s) ==
  LET search == FilesToSearch(v, k, s)
  IN IF Cardinality(search) >= 2 THEN FirstOf(search) ELSE NoFile

-----------------------------------------------------------------------------
(* Choosing what to compact.                                               *)

\* VersionSet::Finalize: the score of a level as a fraction, and the level
\* with the best one, the first of equals
Score(v, l) ==
  IF l = 0 THEN <<Cardinality(v[0]), kL0_CompactionTrigger>>
  ELSE <<TotalFileSize(v[l]), MaxBytesForLevel(l)>>

CompactionLevel(v) ==
  LET better(l, m) == Score(v, l)[1] * Score(v, m)[2] > Score(v, m)[1] * Score(v, l)[2]
  IN CHOOSE l \in 0..(kNumLevels - 2) : \A m \in 0..(kNumLevels - 2) :
       m # l => better(l, m) \/ (~better(m, l) /\ l < m)

\* compaction_score_ >= 1
SizeCompaction(v) == \E l \in 0..(kNumLevels - 2) : Score(v, l)[1] >= Score(v, l)[2]

\* Mutant: the files of level 0 are not looked at.
PickLevelBelowZero(v, b, e) ==
  LET MayDescend(l) ==
        /\ ~OverlapInLevel(v, l + 1, b, e)
        /\ l + 2 < kNumLevels =>
             TotalFileSize(GetOverlappingInputs(v, l + 2, b, e)) <= GrandParentLimit
  IN Max({l \in 0..kMaxMemCompactLevel : \A m \in 0..(l - 1) : MayDescend(m)})

\* Version::PickLevelForMemTableOutput: down while nothing overlaps in the next
\* level and little in the one after it
PickLevelForMemTableOutput(v, b, e) ==
  LET MayDescend(l) ==   \* from level l to l + 1
        /\ ~OverlapInLevel(v, l + 1, b, e)
        /\ l + 2 < kNumLevels =>
             TotalFileSize(GetOverlappingInputs(v, l + 2, b, e)) <= GrandParentLimit
      reached == {l \in 0..kMaxMemCompactLevel : \A m \in 0..(l - 1) : MayDescend(m)}
  IN IF OverlapInLevel(v, 0, b, e) THEN 0 ELSE Max(reached)

\* Mutant: the files of the next level are left where they are.
NoOtherInputs(v, l, in0) ==
  [level |-> l, in0 |-> in0, in1 |-> {}, grandparents |-> {},
   pointer |-> RangeLimit(in0), version |-> v,
   manual |-> FALSE, smallest_snapshot |-> None, outputs |-> <<>>]

\* VersionSet::SetupOtherInputs: the files of the next level, more files of
\* this one if that adds none to the next, and the grandparents
SetupOtherInputs(v, l, in0) ==
  LET Overlap(m, F) == GetOverlappingInputs(v, m, Key(RangeStart(F)), Key(RangeLimit(F)))
      in1 == Overlap(l + 1, in0)
      expanded0 == Overlap(l, in0 \cup in1)
      expanded1 == Overlap(l + 1, expanded0)
      expand == /\ in1 # {}
                /\ Cardinality(expanded0) > Cardinality(in0)
                /\ TotalFileSize(in1) + TotalFileSize(expanded0) < ExpandedLimit
                /\ Cardinality(expanded1) = Cardinality(in1)
      first == IF expand THEN expanded0 ELSE in0
      second == IF expand THEN expanded1 ELSE in1
  IN [level |-> l, in0 |-> first, in1 |-> second,
      grandparents |-> IF l + 2 < kNumLevels THEN Overlap(l + 2, first \cup second) ELSE {},
      pointer |-> RangeLimit(first),
      version |-> v,
      manual |-> FALSE, smallest_snapshot |-> None, outputs |-> <<>>]

NoCompaction == [level |-> -1]

\* VersionSet::PickCompaction: by size, from the file after pointers_ on;
\* else the file that was read in vain too often
PickCompaction(v, pointers, seekFile) ==
  LET l == CompactionLevel(v)
      files == BySmallestKey(v[l])
      after == {i \in DOMAIN files : \/ pointers[l] = None
                                     \/ ILess(pointers[l], Largest(files[i]))}
      picked == IF after = {} THEN files[1] ELSE files[Min(after)]
      Inputs(m, f) == IF m = 0
                      THEN GetOverlappingInputs(v, 0, Key(Smallest(f)), Key(Largest(f)))
                      ELSE {f}
  IN CASE SizeCompaction(v) -> SetupOtherInputs(v, l, Inputs(l, picked))
       [] ~SizeCompaction(v) /\ seekFile # NoFile ->
            SetupOtherInputs(v, seekFile[1], Inputs(seekFile[1], seekFile[2]))
       [] OTHER -> NoCompaction

\* VersionSet::CompactRange: the files of the range; below level 0 only as many,
\* in order, as make up one file's size
CompactRangeInputs(v, l, b, e) ==
  LET all == GetOverlappingInputs(v, l, b, e)
      files == BySmallestKey(all)
      Taken(n) == {files[i] : i \in 1..n}
      enough == {n \in 1..Len(files) : TotalFileSize(Taken(n)) >= MaxFileSize}
  IN IF l > 0 /\ enough # {} THEN Taken(Min(enough)) ELSE all

\* Compaction::IsTrivialMove
IsTrivialMove(c) ==
  /\ Cardinality(c.in0) = 1
  /\ c.in1 = {}
  /\ TotalFileSize(c.grandparents) <= GrandParentLimit

\* Compaction::IsBaseLevelForKey
IsBaseLevelForKey(c, k) ==
  \A l \in (c.level + 2)..(kNumLevels - 1) : \A f \in c.version[l] : Outside(f, k, k)

-----------------------------------------------------------------------------
(* Versions.                                                               *)

\* VersionSet::Builder: Apply collects what an edit deletes and adds, SaveTo
\* makes the new version.  The edit moves or replaces the inputs of c.
Applied(v, deleted, added) ==
  [l \in Levels |-> (v[l] \ {f \in v[l] : <<l, f>> \in deleted /\ <<l, f>> \notin added})
                    \cup {x[2] : x \in {y \in added : y[1] = l}}]

\* Compaction::AddInputDeletions
AddInputDeletions(c) ==
  {<<c.level, f>> : f \in c.in0} \cup {<<c.level + 1, f>> : f \in c.in1}

\* VersionSet::AddLiveFiles, over the versions that are referenced
AddLiveFiles(versions) == UNION {UNION {v[l] : l \in Levels} : v \in versions}
=============================================================================
