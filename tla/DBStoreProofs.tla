--------------------------- MODULE DBStoreProofs ---------------------------
(***************************************************************************)
(* Theorems about DBStore, for any keys, levels, limits and budgets: no    *)
(* wake-up of the background thread is lost, the types hold, and no table  *)
(* that somebody needs is deleted.                                         *)
(*                                                                         *)
(* The last two rest on StoreInv: the versions that are referenced consist *)
(* of tables on disk, and a compaction's inputs are files of its version.  *)
(***************************************************************************)
EXTENDS DBStore, VersionSetProofs

-----------------------------------------------------------------------------
(* No wake-up is lost.                                                     *)

\* What there is to do depends on the version, the tables and the requests.
LEMMA SameWork ==
  ASSUME UNCHANGED <<imm, manual, table, current, seekFile>>
  PROVE  HasWork' <=> HasWork
BY DEF HasWork, SizeCompaction, Score, TotalFileSize, Entries

\* WorkIsScheduled is inductive: a step that makes work is followed by
\* MaybeScheduleCompaction, and the background thread looks again at its end.
LEMMA WorkStep ==
  ASSUME WorkIsScheduled, [Next]_vars
  PROVE  WorkIsScheduled'
<1> USE DEF WorkIsScheduled
<1>1. ASSUME UNCHANGED <<imm, storage, bg, bgError, manual>>
      PROVE  WorkIsScheduled'
  BY <1>1, SameWork DEF storage
<1>2. ASSUME MaybeScheduleCompaction, UNCHANGED bgError
      PROVE  WorkIsScheduled'
  BY <1>2 DEF MaybeScheduleCompaction
<1>3. ASSUME BackgroundDone, UNCHANGED bgError
      PROVE  WorkIsScheduled'
  BY <1>3 DEF BackgroundDone
<1>4. ASSUME bg' # "none"
      PROVE  WorkIsScheduled'
  BY <1>4
<1>5. ASSUME bgError'
      PROVE  WorkIsScheduled'
  BY <1>5
<1> HIDE DEF WorkIsScheduled
<1> USE DEF storage, background, users
<1>6. ASSUME NEW k \in Keys, NEW del \in Deletions, Write(k, del)
      PROVE  WorkIsScheduled'
  BY <1>1, <1>6 DEF Write
<1>7. CASE SwitchFull
  BY <1>2, <1>7 DEF SwitchFull
<1>8. CASE Background
  <2>1. CASE BackgroundFlush
    BY <1>3, <2>1 DEF BackgroundFlush
  <2>2. CASE BackgroundCompaction
    <3>1. PICK c : NothingToDo(c) \/ TrivialMove(c) \/ DoCompactionWork(c)
      BY <2>2 DEF BackgroundCompaction
    <3>2. CASE NothingToDo(c)
      BY <1>3, <3>2 DEF NothingToDo
    <3>3. CASE TrivialMove(c)
      BY <1>3, <3>3 DEF TrivialMove
    <3>4. CASE DoCompactionWork(c)
      BY <1>4, <3>4 DEF DoCompactionWork
    <3> QED  BY <3>1, <3>2, <3>3, <3>4
  <2>3. CASE WriteOutputs
    BY <1>4, <2>3 DEF WriteOutputs
  <2>4. CASE NestedCompactMemTable
    BY <1>4, <2>4 DEF NestedCompactMemTable, FindsImm
  <2>5. CASE InstallCompactionResults
    <3>1. bg' = "crashed" \/ BackgroundDone
      BY <2>5 DEF InstallCompactionResults
    <3>2. UNCHANGED bgError
      BY <2>5 DEF InstallCompactionResults
    <3> QED  BY <1>3, <1>4, <3>1, <3>2
  <2> QED  BY <1>8, <2>1, <2>2, <2>3, <2>4, <2>5 DEF Background
<1>9. CASE BackgroundError
  BY <1>5, <1>9 DEF BackgroundError
<1>10. CASE NestedError
  BY <1>5, <1>10 DEF NestedError
<1>11. CASE GetSnapshot
  BY <1>1, <1>11 DEF GetSnapshot
<1>12. ASSUME NEW i \in DOMAIN snapshots, ReleaseSnapshot(i)
       PROVE  WorkIsScheduled'
  BY <1>1, <1>12 DEF ReleaseSnapshot
<1>13. ASSUME NEW kind \in {"get", "iterator"}, StartRead(kind)
       PROVE  WorkIsScheduled'
  BY <1>1, <1>13 DEF StartRead
<1>14. ASSUME NEW k \in Keys, FinishGet(k)
       PROVE  WorkIsScheduled'
  BY <1>2, <1>14 DEF FinishGet
<1>15. ASSUME NEW e \in DOMAIN hist, RecordReadSample(e)
       PROVE  WorkIsScheduled'
  BY <1>2, <1>15 DEF RecordReadSample
<1>16. CASE DeleteIterator
  BY <1>1, <1>16 DEF DeleteIterator
<1>17. ASSUME NEW range \in ManualRanges, CompactRange(range)
       PROVE  WorkIsScheduled'
  BY <1>1, <1>17 DEF CompactRange
<1>18. CASE Caller
  <2>1. CASE ForceSwitch
    BY <1>2, <2>1 DEF ForceSwitch
  <2>2. CASE Flushed
    BY <1>1, <2>2 DEF Flushed
  <2>3. CASE RequestCompaction
    BY <1>2, <2>3 DEF RequestCompaction
  <2>4. CASE LevelDone
    <3>1. UNCHANGED <<imm, table, current, seekFile, bg, bgError>> /\ manual' = FALSE
      BY <2>4 DEF LevelDone
    <3>2. HasWork' => HasWork
      BY <3>1 DEF HasWork, SizeCompaction, Score, TotalFileSize, Entries
    <3> QED  BY <3>1, <3>2 DEF WorkIsScheduled
  <2> QED  BY <1>18, <2>1, <2>2, <2>3, <2>4 DEF Caller
<1>19. CASE UNCHANGED vars
  BY <1>1, <1>19 DEF vars
<1> QED
  BY <1>6, <1>7, <1>8, <1>9, <1>10, <1>11, <1>12, <1>13, <1>14, <1>15, <1>16, <1>17, <1>18, <1>19 DEF Next

\* A store that has just been opened has nothing to do.
LEMMA WorkInit ==
  ASSUME Init
  PROVE  WorkIsScheduled
<1>1. \A l \in 0..(kNumLevels - 2) : ~(Score(current, l)[1] >= Score(current, l)[2])
  <2> SUFFICES ASSUME NEW l \in 0..(kNumLevels - 2)
               PROVE  ~(Score(current, l)[1] >= Score(current, l)[2])
    OBVIOUS
  <2>1. HistOK
    BY DEF Init, HistOK
  <2>2. VersionOK(current) /\ current[l] = {}
    <3>1. l \in Levels
      BY VersionAssumption DEF Levels
    <3>2. current = [m \in Levels |-> {}]
      BY DEF Init, NoVersion
    <3>3. FilesOK({})
      BY FS_EmptySet DEF FilesOK
    <3> QED  BY <3>1, <3>2, <3>3 DEF VersionOK
  <2>3. Score(current, l)[1] = 0 /\ Score(current, l)[2] \in Nat \ {0}
    BY <2>1, <2>2, ScoreFacts
  <2> QED  BY <2>3
<1>2. ~SizeCompaction(current)
  BY <1>1 DEF SizeCompaction
<1> QED  BY <1>2 DEF Init, WorkIsScheduled, HasWork

\* MaybeScheduleCompaction, BackgroundCall: while there is a memtable to flush, a
\* manual compaction, a level over its limit or a file to compact, the background
\* thread is scheduled or running, unless bg_error_ has stopped all compactions.
THEOREM NoLostWakeup == Spec => []WorkIsScheduled
<1>1. Init => WorkIsScheduled
  BY WorkInit
<1>2. WorkIsScheduled /\ [Next]_vars => WorkIsScheduled'
  BY WorkStep
<1> QED  BY <1>1, <1>2, PTL DEF Spec

-----------------------------------------------------------------------------
(* The inductive invariant, in parts.                                      *)

\* Entries were written before they are in a memtable.
EntriesOK ==
  /\ HistOK
  /\ mem \in SUBSET Numbers
  /\ imm = <<>> \/ \E E \in SUBSET Numbers : imm = <<E>>

\* Tables on disk are whole and have numbers that were given out.
DiskOK ==
  /\ nextFile \in Nat \ {0}
  /\ \A f \in DOMAIN table : FileOK(f) /\ f < nextFile

\* The current version is of tables on disk, and so is its file to compact.
CurrentOK ==
  /\ VersionOK(current)
  /\ SeekOK(current, seekFile)
  /\ DOMAIN allowedSeeks = AddLiveFiles({current})
  /\ compact_pointer \in [Levels -> 0..LastSequence]

\* A compaction exists while DoCompactionWork runs; the tables of its version and
\* its outputs are on disk.
JobOK ==
  /\ bg \in {"none", "scheduled", "merge", "written", "crashed"}
  /\ bg \in {"merge", "written"} <=> job # NoJob
  /\ job # NoJob => CompactionOK(job) /\ Pending(job) \in SUBSET DOMAIN table
  /\ bg = "merge" => job.outputs = <<>>
  /\ bgError \in BOOLEAN

\* The tables of a reader's version are on disk.
ReaderOK ==
  /\ reader.kind \in {"none", "get", "iterator"}
  /\ reader.kind # "none" => VersionOK(reader.version)

Ends == Keys \cup {NULL}
Callers ==
  [pc : {"flush", "flushing", "level"}, level : Nat, max : 1..(kNumLevels - 1),
   begin : Ends, end : Ends, range : Ends \X Ends, done : BOOLEAN]

\* CompactRange is at a level that has a next one, and only then there is a
\* manual compaction.
CallerOK ==
  /\ caller = Idle \/ (caller \in Callers /\ caller.level < caller.max)
  /\ manual \in BOOLEAN
  /\ manual => caller.pc = "level"

SnapshotsOK == snapshots \in Seq(0..LastSequence)

StoreInv ==
  EntriesOK /\ DiskOK /\ CurrentOK /\ JobOK /\ ReaderOK /\ CallerOK /\ SnapshotsOK


-----------------------------------------------------------------------------
(* What stays as it was.                                                   *)

\* Entries are only added, and F are tables that stay on disk.
HistGrows == HistOK' /\ Len(hist) <= Len(hist') /\ \A a \in Numbers : hist'[a] = hist[a]
Stays(F) == \A f \in F : f \in DOMAIN table' /\ table'[f] = table[f]

LEMMA SameHist ==
  ASSUME HistOK, UNCHANGED hist
  PROVE  HistGrows
<1>1. Len(hist) \in Nat
  BY KeyOrder
<1> QED  BY <1>1 DEF HistGrows, HistOK

\* A table that stays is still whole.
LEMMA FileStays ==
  ASSUME HistOK, HistGrows, NEW f, FileOK(f), f \in DOMAIN table', table'[f] = table[f]
  PROVE  FileOK(f)'
<1>1. Len(hist) \in Nat /\ Len(hist') \in Nat
  BY LenProperties DEF HistOK, HistGrows
<1>2. Numbers \in SUBSET Numbers'
  BY <1>1 DEF Numbers, HistGrows
<1>3. Smallest(f) \in Numbers /\ Largest(f) \in Numbers
  BY DEF FileOK
<1>4. Entries(f)' = Entries(f) /\ Smallest(f)' = Smallest(f) /\ Largest(f)' = Largest(f)
  BY DEF Entries, Smallest, Largest
<1>5. Key(Smallest(f))' = Key(Smallest(f)) /\ Key(Largest(f))' = Key(Largest(f))
  BY <1>3, <1>4 DEF Key, HistGrows
<1>6. \A x \in Entries(f) : AtOrBefore(Smallest(f), x)' /\ AtOrBefore(x, Largest(f))'
  <2> SUFFICES ASSUME NEW x \in Entries(f)
               PROVE  AtOrBefore(Smallest(f), x)' /\ AtOrBefore(x, Largest(f))'
    OBVIOUS
  <2>1. x \in Numbers /\ AtOrBefore(Smallest(f), x) /\ AtOrBefore(x, Largest(f))
    BY DEF FileOK
  <2>2. hist'[x] = hist[x]
    BY <2>1 DEF HistGrows
  <2> QED  BY <1>4, <1>5, <2>1, <2>2 DEF AtOrBefore, ILess, Key
<1> QED  BY <1>2, <1>4, <1>5, <1>6 DEF FileOK

\* A version of tables that stay is still one of whole tables.
LEMMA VersionStays ==
  ASSUME HistOK, HistGrows, NEW v, VersionOK(v), Stays(AddLiveFiles({v}))
  PROVE  VersionOK(v)'
<1>1. ASSUME NEW l \in Levels
      PROVE  FilesOK(v[l])'
  <2>1. FilesOK(v[l])
    BY DEF VersionOK
  <2>2. \A f \in v[l] : FileOK(f)'
    BY <2>1, FileStays, LiveFiles DEF Stays, FilesOK
  <2> QED  BY <2>1, <2>2 DEF FilesOK
<1> QED  BY <1>1 DEF VersionOK

\* The same of a compaction.
LEMMA CompactionStays ==
  ASSUME HistOK, HistGrows, NEW c, CompactionOK(c), Stays(AddLiveFiles({c.version}))
  PROVE  CompactionOK(c)'
<1>1. VersionOK(c.version)'
  BY VersionStays DEF CompactionOK
<1>2. Numbers \in SUBSET Numbers'
  <2>1. Len(hist) \in Nat /\ Len(hist') \in Nat
    BY LenProperties DEF HistOK, HistGrows
  <2> QED  BY <2>1 DEF Numbers, HistGrows
<1> QED  BY <1>1, <1>2 DEF CompactionOK


\* The parts of the invariant that a step leaves alone
LEMMA SameEntries ==
  ASSUME EntriesOK, UNCHANGED <<hist, mem, imm>>
  PROVE  EntriesOK'
BY DEF EntriesOK, HistOK, Numbers

LEMMA SameDisk ==
  ASSUME HistOK, HistGrows, DiskOK, UNCHANGED <<table, nextFile>>
  PROVE  DiskOK'
<1>1. \A f \in DOMAIN table : FileOK(f)'
  BY FileStays DEF DiskOK
<1> QED  BY <1>1 DEF DiskOK

LEMMA SamePointers ==
  ASSUME HistOK, HistGrows, compact_pointer \in [Levels -> 0..LastSequence], UNCHANGED compact_pointer
  PROVE  compact_pointer' \in [Levels -> 0..LastSequence']
<1>1. Len(hist) \in Nat /\ Len(hist') \in Nat
  BY LenProperties DEF HistOK, HistGrows
<1>2. (0..LastSequence) \in SUBSET (0..LastSequence')
  BY <1>1 DEF HistGrows, LastSequence
<1> QED  BY <1>2

LEMMA SameCurrent ==
  ASSUME HistOK, HistGrows, CurrentOK, Stays(AddLiveFiles({current})),
         UNCHANGED <<current, seekFile, allowedSeeks, compact_pointer>>
  PROVE  CurrentOK'
<1>1. VersionOK(current)'
  BY VersionStays DEF CurrentOK
<1>2. SeekOK(current, seekFile)'
  BY DEF CurrentOK, SeekOK
<1>3. (DOMAIN allowedSeeks = AddLiveFiles({current}))'
  BY DEF CurrentOK, AddLiveFiles
<1>4. compact_pointer' \in [Levels -> 0..LastSequence']
  BY SamePointers DEF CurrentOK
<1> QED  BY <1>1, <1>2, <1>3, <1>4 DEF CurrentOK

LEMMA SameJob ==
  ASSUME HistOK, HistGrows, JobOK, UNCHANGED job, bgError' \in BOOLEAN,
         bg' = bg \/ (bg \in {"none", "scheduled"} /\ bg' \in {"none", "scheduled"}),
         job # NoJob => Stays(AddLiveFiles({job.version})) /\ Stays(Pending(job))
  PROVE  JobOK'
<1>1. job # NoJob => CompactionOK(job)'
  BY CompactionStays DEF JobOK
<1>2. job # NoJob => Pending(job)' \in SUBSET DOMAIN table'
  BY DEF Stays, Pending
<1> QED  BY <1>1, <1>2 DEF JobOK

LEMMA SameReader ==
  ASSUME HistOK, HistGrows, ReaderOK, UNCHANGED reader,
         reader.kind # "none" => Stays(AddLiveFiles({reader.version}))
  PROVE  ReaderOK'
BY VersionStays DEF ReaderOK

LEMMA SameCaller ==
  ASSUME CallerOK, UNCHANGED <<caller, manual>>
  PROVE  CallerOK'
BY DEF CallerOK

LEMMA SameSnapshots ==
  ASSUME HistOK, HistGrows, SnapshotsOK, UNCHANGED snapshots
  PROVE  SnapshotsOK'
<1>1. Len(hist) \in Nat /\ Len(hist') \in Nat
  BY LenProperties DEF HistOK, HistGrows
<1>2. (0..LastSequence) \in SUBSET (0..LastSequence')
  BY <1>1 DEF HistGrows, LastSequence
<1>3. snapshots \in Seq(0..LastSequence')
  BY <1>2, SeqMonotonic DEF SnapshotsOK
<1> QED  BY <1>3 DEF SnapshotsOK

\* With the tables as they were, those of every version stay.
LEMMA SameTables ==
  ASSUME UNCHANGED table
  PROVE  /\ \A v : VersionOK(v) => Stays(AddLiveFiles({v}))
         /\ \A F : F \in SUBSET DOMAIN table => Stays(F)
BY LiveFiles DEF Stays, VersionOK, FilesOK, FileOK

\* A step that leaves the storage alone keeps what is said of it.
LEMMA SameStorage ==
  ASSUME StoreInv, HistGrows, UNCHANGED storage
  PROVE  /\ DiskOK' /\ CurrentOK'
         /\ Stays(AddLiveFiles({current}))
         /\ job # NoJob => Stays(AddLiveFiles({job.version})) /\ Stays(Pending(job))
         /\ reader.kind # "none" => Stays(AddLiveFiles({reader.version}))
<1> USE DEF StoreInv, EntriesOK
<1>1. Stays(AddLiveFiles({current}))
  BY SameTables DEF storage, CurrentOK
<1>2. CurrentOK'
  BY <1>1, SameCurrent DEF storage
<1>3. DiskOK'
  BY SameDisk DEF storage
<1>4. job # NoJob => Stays(AddLiveFiles({job.version})) /\ Stays(Pending(job))
  BY SameTables DEF storage, JobOK, CompactionOK
<1>5. reader.kind # "none" => Stays(AddLiveFiles({reader.version}))
  BY SameTables DEF storage, ReaderOK
<1> QED  BY <1>1, <1>2, <1>3, <1>4, <1>5


-----------------------------------------------------------------------------
(* The steps of the users.                                                 *)

LEMMA WriteKeeps ==
  ASSUME StoreInv, NEW k \in Keys, NEW del \in Deletions, Write(k, del)
  PROVE  StoreInv'
<1> DEFINE e == [key |-> k, del |-> del]
<1> USE DEF StoreInv, EntriesOK
<1>1. UNCHANGED <<imm, storage, background, users>>
  BY DEF Write
<1>2. HistGrows
  <2>1. e \in EntrySet
    BY StoreAssumption DEF EntrySet
  <2>2. hist' = Append(hist, e) /\ hist \in Seq(EntrySet)
    BY DEF Write, HistOK
  <2> HIDE DEF e
  <2>3. /\ hist' \in Seq(EntrySet) /\ Len(hist') = Len(hist) + 1 /\ Len(hist) \in Nat
        /\ \A a \in 1..Len(hist) : hist'[a] = hist[a]
    BY <2>1, <2>2
  <2> QED  BY <2>3 DEF HistGrows, HistOK, Numbers
<1>3. EntriesOK'
  <2>1. Len(hist) \in Nat /\ Len(hist') = Len(hist) + 1
    BY DEF Write, HistOK
  <2>2. Numbers \in SUBSET Numbers' /\ LastSequence + 1 \in Numbers'
    BY <2>1 DEF Numbers, LastSequence
  <2>3. mem' \in SUBSET Numbers'
    BY <2>2 DEF Write
  <2>4. imm' = <<>> \/ \E E \in SUBSET Numbers' : imm' = <<E>>
    BY <1>1, <2>2
  <2>5. HistOK'
    BY <1>2 DEF HistGrows
  <2> QED  BY <2>3, <2>4, <2>5
<1>4. /\ DiskOK' /\ CurrentOK'
      /\ job # NoJob => Stays(AddLiveFiles({job.version})) /\ Stays(Pending(job))
      /\ reader.kind # "none" => Stays(AddLiveFiles({reader.version}))
  BY <1>1, <1>2, SameStorage
<1>5. JobOK'
  <2>1. UNCHANGED <<bg, job, bgError>> /\ bgError \in BOOLEAN
    BY <1>1 DEF background, JobOK
  <2> QED  BY <1>2, <1>4, <2>1, SameJob
<1>6. ReaderOK' /\ CallerOK' /\ SnapshotsOK'
  <2>1. UNCHANGED <<snapshots, reader, caller, manual>>
    BY <1>1 DEF users
  <2>2. ReaderOK'
    BY <1>2, <1>4, <2>1, SameReader
  <2>3. CallerOK'
    BY <2>1, SameCaller
  <2>4. SnapshotsOK'
    BY <1>2, <2>1, SameSnapshots
  <2> QED  BY <2>2, <2>3, <2>4
<1> QED  BY <1>3, <1>4, <1>5, <1>6

\* A step that leaves entries and tables alone keeps what is said of all but the
\* parts it changes.
LEMMA QuietStep ==
  ASSUME StoreInv, UNCHANGED <<hist, table, nextFile>>
  PROVE  /\ HistGrows
         /\ UNCHANGED <<mem, imm>> => EntriesOK'
         /\ DiskOK'
         /\ UNCHANGED <<current, seekFile, allowedSeeks, compact_pointer>> => CurrentOK'
         /\ UNCHANGED <<job, bgError>> /\ (bg' = bg \/ (bg \in {"none", "scheduled"} /\ bg' \in {"none", "scheduled"}))
              => JobOK'
         /\ UNCHANGED reader => ReaderOK'
         /\ UNCHANGED <<caller, manual>> => CallerOK'
         /\ UNCHANGED snapshots => SnapshotsOK'
<1> USE DEF StoreInv, EntriesOK
<1>1. HistGrows
  BY SameHist
<1>2. /\ Stays(AddLiveFiles({current}))
      /\ job # NoJob => Stays(AddLiveFiles({job.version})) /\ Stays(Pending(job))
      /\ reader.kind # "none" => Stays(AddLiveFiles({reader.version}))
  BY SameTables DEF CurrentOK, JobOK, CompactionOK, ReaderOK
<1> HIDE DEF EntriesOK
<1>3. HistOK
  BY DEF EntriesOK
<1>4. UNCHANGED <<mem, imm>> => EntriesOK'
  BY SameEntries
<1>5. DiskOK'
  BY <1>1, <1>3, SameDisk
<1>6. UNCHANGED <<current, seekFile, allowedSeeks, compact_pointer>> => CurrentOK'
  BY <1>1, <1>2, <1>3, SameCurrent
<1>7. UNCHANGED <<job, bgError>> /\ (bg' = bg \/ (bg \in {"none", "scheduled"} /\ bg' \in {"none", "scheduled"}))
        => JobOK'
  <2> SUFFICES ASSUME UNCHANGED <<job, bgError>>,
                      bg' = bg \/ (bg \in {"none", "scheduled"} /\ bg' \in {"none", "scheduled"})
               PROVE  JobOK'
    OBVIOUS
  <2>1. bgError' \in BOOLEAN
    BY DEF JobOK
  <2> QED  BY <1>1, <1>2, <1>3, <2>1, SameJob
<1>8. UNCHANGED reader => ReaderOK'
  BY <1>1, <1>2, <1>3, SameReader
<1>9. UNCHANGED <<caller, manual>> => CallerOK'
  BY SameCaller
<1>10. UNCHANGED snapshots => SnapshotsOK'
  BY <1>1, <1>3, SameSnapshots
<1> QED  BY <1>1, <1>4, <1>5, <1>6, <1>7, <1>8, <1>9, <1>10

\* MaybeScheduleCompaction and BackgroundDone set bg_compaction_scheduled_.
LEMMA Scheduling ==
  ASSUME JobOK
  PROVE  /\ MaybeScheduleCompaction =>
              bg' = bg \/ (bg \in {"none", "scheduled"} /\ bg' \in {"none", "scheduled"})
         /\ BackgroundDone => bg' \in {"none", "scheduled"}
BY DEF MaybeScheduleCompaction, BackgroundDone, JobOK

\* The memtable becomes the immutable one.
LEMMA SwitchKeeps ==
  ASSUME StoreInv, SwitchMemTable, UNCHANGED hist
  PROVE  EntriesOK'
BY DEF StoreInv, EntriesOK, HistOK, Numbers, SwitchMemTable

LEMMA SwitchFullKeeps ==
  ASSUME StoreInv, SwitchFull
  PROVE  StoreInv'
<1> USE DEF StoreInv
<1>1. UNCHANGED <<hist, storage, job, bgError, users, left>> /\ SwitchMemTable /\ MaybeScheduleCompaction
  BY DEF SwitchFull
<1>2. UNCHANGED <<table, nextFile, current, seekFile, allowedSeeks, compact_pointer,
                  snapshots, reader, caller, manual>>
  BY <1>1 DEF storage, users
<1>3. EntriesOK'
  BY <1>1, SwitchKeeps
<1> QED  BY <1>1, <1>2, <1>3, QuietStep, Scheduling

LEMMA SnapshotKeeps ==
  ASSUME StoreInv, GetSnapshot \/ \E i \in DOMAIN snapshots : ReleaseSnapshot(i)
  PROVE  StoreInv'
<1> USE DEF StoreInv
<1> DEFINE S == 0..LastSequence
<1>1. UNCHANGED <<hist, mem, imm, table, current, seekFile, allowedSeeks, compact_pointer, nextFile,
                  bg, job, bgError, reader, caller, manual>>
  BY DEF GetSnapshot, ReleaseSnapshot, storage, background
<1>2. snapshots \in Seq(S) /\ LastSequence \in S /\ S' = S
  <2>1. Len(hist) \in Nat
    BY KeyOrder DEF EntriesOK
  <2> QED  BY <1>1, <2>1 DEF SnapshotsOK, LastSequence
<1> HIDE DEF S
<1>3. snapshots' \in Seq(S)
  <2>1. CASE GetSnapshot
    BY <1>2, <2>1 DEF GetSnapshot
  <2>2. ASSUME NEW i \in DOMAIN snapshots, ReleaseSnapshot(i)
        PROVE  snapshots' \in Seq(S)
    <3>1. Len(snapshots) \in Nat /\ DOMAIN snapshots = 1..Len(snapshots)
      BY <1>2, LenProperties
    <3>2. SubSeq(snapshots, 1, i - 1) \in Seq(S)
      <4>1. \A j \in 1..(i - 1) : snapshots[j] \in S
        BY <1>2, <2>2, <3>1, ElementOfSeq
      <4> QED  BY <2>2, <3>1, <4>1, SubSeqProperties
    <3>3. SubSeq(snapshots, i + 1, Len(snapshots)) \in Seq(S)
      <4>1. \A j \in (i + 1)..Len(snapshots) : snapshots[j] \in S
        BY <1>2, <2>2, <3>1, ElementOfSeq
      <4> QED  BY <2>2, <3>1, <4>1, SubSeqProperties
    <3> QED  BY <2>2, <3>2, <3>3, ConcatProperties DEF ReleaseSnapshot
  <2> QED  BY <2>1, <2>2
<1>4. SnapshotsOK'
  BY <1>2, <1>3 DEF SnapshotsOK, S
<1> QED  BY <1>1, <1>4, QuietStep


LEMMA StartReadKeeps ==
  ASSUME StoreInv, NEW kind \in {"get", "iterator"}, StartRead(kind)
  PROVE  StoreInv'
<1> USE DEF StoreInv
<1>1. UNCHANGED <<hist, mem, imm, table, current, seekFile, allowedSeeks, compact_pointer, nextFile,
                  bg, job, bgError, snapshots, caller, manual>>
  BY DEF StartRead, storage, background
<1>2. reader'.kind = kind /\ reader'.version = current
  BY DEF StartRead
<1>3. VersionOK(current)'
  <2>1. CurrentOK'
    BY <1>1, QuietStep
  <2> QED  BY <2>1 DEF CurrentOK
<1>4. VersionOK(reader.version)'
  <2>1. reader'.version = current'
    BY <1>1, <1>2
  <2> QED  BY <1>3, <2>1
<1>5. ReaderOK'
  BY <1>2, <1>4 DEF ReaderOK
<1> QED  BY <1>1, <1>5, QuietStep

LEMMA DeleteIteratorKeeps ==
  ASSUME StoreInv, DeleteIterator
  PROVE  StoreInv'
<1> USE DEF StoreInv
<1>1. UNCHANGED <<hist, mem, imm, table, current, seekFile, allowedSeeks, compact_pointer, nextFile,
                  bg, job, bgError, snapshots, caller, manual>>
  BY DEF DeleteIterator, storage, background
<1>2. ReaderOK'
  BY DEF DeleteIterator, ReaderOK, NoReader
<1> QED  BY <1>1, <1>2, QuietStep

\* A seek is charged to a file of the current version, or to none.
LEMMA StatsKeep ==
  ASSUME StoreInv, NEW v, NEW w, SeekOK(w, NoFile), NEW stats, SeekOK(w, stats),
         UpdateStats(v, stats), UNCHANGED <<hist, table, nextFile, current, compact_pointer>>
  PROVE  CurrentOK'
<1> USE DEF StoreInv
<1>1. HistGrows /\ HistOK /\ Stays(AddLiveFiles({current}))
  BY SameHist, SameTables DEF EntriesOK, CurrentOK
<1>2. VersionOK(current)'
  BY <1>1, VersionStays DEF CurrentOK
<1>3. DOMAIN allowedSeeks' = DOMAIN allowedSeeks
  BY DEF UpdateStats
<1>4. (DOMAIN allowedSeeks = AddLiveFiles({current}))'
  BY <1>3 DEF CurrentOK, AddLiveFiles
<1>5. SeekOK(current, seekFile)'
  <2>1. seekFile' = seekFile \/ (seekFile' = stats /\ stats # NoFile /\ stats[2] \in current[stats[1]])
    BY DEF UpdateStats
  <2> QED  BY <2>1 DEF SeekOK, CurrentOK
<1>6. compact_pointer' \in [Levels -> 0..LastSequence']
  BY <1>1, SamePointers DEF CurrentOK
<1> QED  BY <1>2, <1>4, <1>5, <1>6 DEF CurrentOK

LEMMA FinishGetKeeps ==
  ASSUME StoreInv, NEW k \in Keys, FinishGet(k)
  PROVE  StoreInv'
<1> USE DEF StoreInv
<1> DEFINE v == reader.version
           stats == IF Seek(reader.mem, k, reader.seq) # None \/ Seek(reader.imm, k, reader.seq) # None
                    THEN NoFile ELSE GetStats(v, k, reader.seq)
<1>1. UNCHANGED <<hist, mem, imm, table, current, compact_pointer, nextFile, job, bgError,
                  snapshots, caller, manual>>
      /\ MaybeScheduleCompaction /\ UpdateStats(v, stats)
  BY DEF FinishGet
<1>2. HistOK /\ VersionOK(v)
  BY DEF EntriesOK, ReaderOK, FinishGet
<1> HIDE DEF v
<1>3. SeekOK(v, NoFile)
  BY DEF SeekOK
<1>4. SeekOK(v, stats)
  BY <1>2, <1>3, Charged
<1> HIDE DEF stats
<1>5. CurrentOK'
  BY <1>1, <1>3, <1>4, StatsKeep
<1>6. ReaderOK'
  BY DEF FinishGet, ReaderOK, NoReader
<1> QED  BY <1>1, <1>5, <1>6, QuietStep, Scheduling

LEMMA ReadSampleKeeps ==
  ASSUME StoreInv, NEW e \in DOMAIN hist, RecordReadSample(e)
  PROVE  StoreInv'
<1> USE DEF StoreInv
<1> DEFINE v == current
           k == Key(e)
           stats == SampleStats(v, k, e)
<1>1. UNCHANGED <<hist, mem, imm, table, current, compact_pointer, nextFile, job, bgError,
                  snapshots, reader, caller, manual>>
      /\ MaybeScheduleCompaction /\ UpdateStats(v, stats)
  BY DEF RecordReadSample, users
<1>2. HistOK /\ VersionOK(v)
  BY DEF EntriesOK, CurrentOK
<1> HIDE DEF v, k
<1>3. SeekOK(v, NoFile)
  BY DEF SeekOK
<1>4. SeekOK(v, stats)
  BY <1>2, Charged
<1> HIDE DEF stats
<1>5. CurrentOK'
  BY <1>1, <1>3, <1>4, StatsKeep
<1> QED  BY <1>1, <1>5, QuietStep, Scheduling

LEMMA CompactRangeKeeps ==
  ASSUME StoreInv, NEW range \in ManualRanges, CompactRange(range)
  PROVE  StoreInv'
<1> USE DEF StoreInv
<1> DEFINE with == {1} \cup {l \in 1..(kNumLevels - 1) : OverlapInLevel(current, l, range[1], range[2])}
<1>1. UNCHANGED <<hist, mem, imm, table, current, seekFile, allowedSeeks, compact_pointer, nextFile,
                  bg, job, bgError, snapshots, reader, manual>>
  BY DEF CompactRange, storage, background
<1>2. Max(with) \in 1..(kNumLevels - 1)
  <2>1. with \in SUBSET Nat /\ with # {} /\ with \in SUBSET (1..(kNumLevels - 1))
    BY VersionAssumption
  <2>2. kNumLevels - 1 \in Nat /\ \A m \in with : m <= kNumLevels - 1
    BY <2>1, VersionAssumption
  <2> HIDE DEF with
  <2> QED  BY <2>1, <2>2, GreatestOfNumbers
<1>3. range \in Ends \X Ends /\ range[1] \in Ends /\ range[2] \in Ends
  BY StoreAssumption DEF Ends
<1>4. caller' = [pc |-> "flush", level |-> 0, max |-> Max(with),
                 begin |-> range[1], end |-> range[2], range |-> range, done |-> FALSE]
  BY DEF CompactRange
<1> HIDE DEF with
<1>5. caller' \in Callers /\ caller'.level < caller'.max
  BY <1>2, <1>3, <1>4 DEF Callers
<1>6. ~manual /\ manual \in BOOLEAN
  BY DEF CompactRange, CallerOK, Idle
<1>7. CallerOK'
  BY <1>1, <1>5, <1>6 DEF CallerOK
<1> QED  BY <1>1, <1>7, QuietStep

LEMMA CallerKeeps ==
  ASSUME StoreInv, Caller
  PROVE  StoreInv'
<1> USE DEF StoreInv
<1>1. caller.pc # "idle" => caller \in Callers /\ caller.level < caller.max
  BY DEF CallerOK, Idle
<1>2. CASE ForceSwitch
  <2>1. UNCHANGED <<hist, table, current, seekFile, allowedSeeks, compact_pointer, nextFile,
                    job, bgError, snapshots, reader, manual>>
    BY <1>2 DEF ForceSwitch, storage
  <2>2. MaybeScheduleCompaction
    BY <1>2 DEF ForceSwitch
  <2>3. CASE SwitchMemTable
    <3>1. EntriesOK'
      BY <2>1, <2>3, SwitchKeeps
    <3>2. CallerOK'
      BY <1>1, <1>2 DEF ForceSwitch, CallerOK, Callers
    <3> QED  BY <2>1, <2>2, <3>1, <3>2, QuietStep, Scheduling
  <2>4. CASE UNCHANGED <<mem, imm>>
    <3>1. CallerOK'
      BY <1>1, <1>2 DEF ForceSwitch, CallerOK, Callers
    <3> QED  BY <2>1, <2>2, <2>4, <3>1, QuietStep, Scheduling
  <2> QED  BY <1>2, <2>3, <2>4 DEF ForceSwitch
<1>3. CASE Flushed
  <2>1. UNCHANGED <<hist, mem, imm, table, current, seekFile, allowedSeeks, compact_pointer, nextFile,
                    bg, job, bgError, snapshots, reader, manual>>
    BY <1>3 DEF Flushed, storage, background
  <2>2. CallerOK'
    BY <1>1, <1>3 DEF Flushed, CallerOK, Callers
  <2> QED  BY <2>1, <2>2, QuietStep
<1>4. CASE RequestCompaction
  <2>1. UNCHANGED <<hist, mem, imm, table, current, seekFile, allowedSeeks, compact_pointer, nextFile,
                    job, bgError, snapshots, reader>>
    BY <1>4 DEF RequestCompaction, storage
  <2>2. CallerOK'
    BY <1>4 DEF RequestCompaction, CallerOK
  <2>3. MaybeScheduleCompaction
    BY <1>4 DEF RequestCompaction
  <2> QED  BY <2>1, <2>2, <2>3, QuietStep, Scheduling
<1>5. CASE LevelDone
  <2>1. UNCHANGED <<hist, mem, imm, table, current, seekFile, allowedSeeks, compact_pointer, nextFile,
                    bg, job, bgError, snapshots, reader>>
    BY <1>5 DEF LevelDone, storage, background
  <2>2. manual' = FALSE /\ caller \in Callers
    BY <1>1, <1>5 DEF LevelDone
  <2>3. caller' = Idle \/ (caller' \in Callers /\ caller'.level < caller'.max)
    <3>1. CASE caller.level + 1 < caller.max
      <4>1. caller' = [caller EXCEPT !.level = @ + 1, !.done = FALSE,
                                     !.begin = caller.range[1], !.end = caller.range[2]]
        BY <1>5, <3>1 DEF LevelDone
      <4>2. caller.level + 1 \in Nat /\ caller.range[1] \in Ends /\ caller.range[2] \in Ends
        BY <2>2 DEF Callers
      <4> QED  BY <2>2, <3>1, <4>1, <4>2 DEF Callers
    <3>2. CASE ~(caller.level + 1 < caller.max)
      BY <1>5, <3>2 DEF LevelDone
    <3> QED  BY <3>1, <3>2
  <2>4. CallerOK'
    BY <2>2, <2>3 DEF CallerOK
  <2> QED  BY <2>1, <2>4, QuietStep
<1> QED  BY <1>2, <1>3, <1>4, <1>5 DEF Caller


-----------------------------------------------------------------------------
(* The steps of the background thread.                                     *)

\* BackgroundCompaction chooses files of the current version, if any.
LEMMA ChoiceFacts ==
  ASSUME StoreInv
  PROVE  \/ Choice = NoCompaction
         \/ /\ CompactionOK(Choice) /\ Choice.version = current /\ Choice.outputs = <<>>
            /\ \E l, F : /\ IF manual THEN Asked(current, l, F) ELSE Around(current, l, F)
                         /\ Choice = SetupOtherInputs(current, l, F)
<1> USE DEF StoreInv
<1>1. HistOK /\ VersionOK(current) /\ SeekOK(current, seekFile)
  BY DEF EntriesOK, CurrentOK
<1>2. CASE manual
  <2> DEFINE in == ManualInputs
             l == caller.level
  <2>1. caller \in Callers /\ caller.level < caller.max
    BY <1>2 DEF CallerOK, Idle
  <2>2. l \in Levels /\ l \in 0..(kNumLevels - 2)
    BY <2>1, VersionAssumption DEF Callers, Levels
  <2>3. Choice = IF in = {} THEN NoCompaction ELSE SetupOtherInputs(current, l, in)
    BY <1>2 DEF Choice
  <2>4. in \in SUBSET current[l]
    <3> HIDE DEF l
    <3>1. CompactRangeInputs(current, l, caller.begin, caller.end) \in SUBSET current[l]
      BY <1>1, <2>2, RangeInputs
    <3> QED  BY <3>1 DEF ManualInputs, l
  <2>7. l = 0 => \E b, e \in Nat \cup {NULL} : in = GetOverlappingInputs(current, 0, b, e)
    <3> SUFFICES ASSUME l = 0 PROVE \E b, e \in Nat \cup {NULL} : in = GetOverlappingInputs(current, 0, b, e)
      OBVIOUS
    <3>1. caller.begin \in Nat \cup {NULL} /\ caller.end \in Nat \cup {NULL}
      BY <2>1, VersionAssumption DEF Callers, Ends
    <3>2. in = GetOverlappingInputs(current, 0, caller.begin, caller.end)
      BY DEF ManualInputs, CompactRangeInputs
    <3> QED  BY <3>1, <3>2
  <2> HIDE DEF in, l
  <2>5. CASE in = {}
    BY <2>3, <2>5
  <2>6. CASE in # {}
    <3>1. in \in (SUBSET current[l]) \ {{}}
      BY <2>4, <2>6
    <3>2. LET c == SetupOtherInputs(current, l, in)
          IN  CompactionOK(c) /\ c.version = current /\ c.outputs = <<>>
      BY <1>1, <2>2, <3>1, OtherInputs
    <3>3. Asked(current, l, in)
      BY <2>2, <2>7, <3>1 DEF Asked
    <3> QED  BY <1>2, <2>3, <2>6, <3>2, <3>3
  <2> QED  BY <2>5, <2>6
<1>3. CASE ~manual
  <2>1. LET c == PickCompaction(current, compact_pointer, seekFile)
        IN  \/ c = NoCompaction
            \/ /\ CompactionOK(c) /\ c.version = current /\ c.outputs = <<>>
               /\ \E l, F : Around(current, l, F) /\ c = SetupOtherInputs(current, l, F)
    BY <1>1, Picked
  <2> QED  BY <1>3, <2>1 DEF Choice
<1> QED  BY <1>2, <1>3

\* A manual compaction goes on at the key of an entry.
LEMMA InputsEnd ==
  ASSUME HistOK, NEW c, CompactionOK(c)
  PROVE  Key(Largest(LastInput(c.in0))) \in Keys
<1> DEFINE F == c.in0
<1>1. FilesOK(F) /\ F # {}
  <2>1. c.level \in Levels
    BY VersionAssumption DEF CompactionOK, Levels
  <2>2. FilesOK(c.version[c.level])
    BY <2>1 DEF CompactionOK, VersionOK
  <2> QED  BY <2>2, SomeFiles DEF CompactionOK
<1> HIDE DEF F
<1>2. LastInput(F) \in F
  <2>1. /\ Cardinality(F) \in Nat /\ Cardinality(F) >= 1
        /\ BySmallestKey(F) \in [1..Cardinality(F) -> F]
    BY <1>1, SortedFiles
  <2> QED  BY <2>1 DEF LastInput
<1>3. Key(Largest(LastInput(F))) \in Keys
  BY <1>1, <1>2, FileKeys DEF FilesOK
<1> QED  BY <1>3 DEF F

\* The end of BackgroundCompaction
LEMMA ManualPartKeeps ==
  ASSUME HistOK, CallerOK, NEW is_manual, NEW c, NEW failed,
         c = NoCompaction \/ CompactionOK(c) \/ failed = TRUE, ManualPart(is_manual, c, failed)
  PROVE  CallerOK'
<1>1. CASE ~(is_manual /\ manual)
  BY <1>1 DEF ManualPart, CallerOK
<1>2. CASE is_manual /\ manual
  <2>1. caller \in Callers /\ caller.level < caller.max /\ manual' = FALSE
    BY <1>2 DEF ManualPart, CallerOK, Idle
  <2>2. CASE c = NoCompaction \/ failed = TRUE
    <3>1. caller' = [caller EXCEPT !.done = TRUE]
      BY <1>2, <2>2 DEF ManualPart
    <3> QED  BY <2>1, <3>1 DEF CallerOK, Callers
  <2>3. CASE CompactionOK(c)
    <3>1. \/ caller' = [caller EXCEPT !.done = TRUE]
          \/ caller' = [caller EXCEPT !.begin = Key(Largest(LastInput(c.in0)))]
      BY <1>2 DEF ManualPart
    <3>2. Key(Largest(LastInput(c.in0))) \in Ends
      BY <2>3, InputsEnd DEF Ends
    <3> QED  BY <2>1, <3>1, <3>2 DEF CallerOK, Callers
  <2> QED  BY <2>2, <2>3
<1> QED  BY <1>1, <1>2

LEMMA NothingToDoKeeps ==
  ASSUME StoreInv, bg = "scheduled", NEW c, NothingToDo(c)
  PROVE  StoreInv'
<1> USE DEF StoreInv
<1>1. UNCHANGED <<hist, mem, imm, table, current, seekFile, allowedSeeks, compact_pointer, nextFile,
                  job, bgError, snapshots, reader>> /\ BackgroundDone
  BY DEF NothingToDo, storage
<1>2. CallerOK'
  <2>1. ManualPart(manual, NoCompaction, FALSE) /\ HistOK
    BY DEF NothingToDo, EntriesOK
  <2> QED  BY <2>1, ManualPartKeeps
<1> QED  BY <1>1, <1>2, QuietStep, Scheduling

\* A version whose files are on disk, with its number of seeks for each file, and
\* compaction pointers that are entries, make a current version.
LEMMA NewCurrent ==
  ASSUME NEW v \in [Levels -> SUBSET Nat], \A l \in Levels : IsFiniteSet(v[l]),
         \A f \in AddLiveFiles({v}) : FileOK(f)',
         NEW files, Install(v, files),
         compact_pointer' \in [Levels -> 0..LastSequence']
  PROVE  CurrentOK'
<1>1. \A l \in Levels : \A f \in v[l] : FileOK(f)'
  BY LiveFiles
<1>2. VersionOK(v)'
  BY <1>1 DEF VersionOK, FilesOK
<1>3. current' = v /\ seekFile' = NoFile /\ DOMAIN allowedSeeks' = AddLiveFiles({v})
  BY DEF Install
<1>4. VersionOK(current)'
  BY <1>2, <1>3
<1>5. SeekOK(current, seekFile)'
  BY <1>3 DEF SeekOK
<1>6. (DOMAIN allowedSeeks = AddLiveFiles({current}))'
  BY <1>3 DEF AddLiveFiles
<1> QED  BY <1>4, <1>5, <1>6 DEF CurrentOK

\* An edit of a version makes one.
LEMMA EditedVersion ==
  ASSUME NEW v, VersionOK(v), NEW deleted, NEW added, IsFiniteSet(added), \A x \in added : x[2] \in Nat
  PROVE  /\ Applied(v, deleted, added) \in [Levels -> SUBSET Nat]
         /\ \A l \in Levels : IsFiniteSet(Applied(v, deleted, added)[l])
<1>1. v \in [Levels -> SUBSET Nat] /\ \A l \in Levels : IsFiniteSet(v[l])
  BY DEF VersionOK, FilesOK
<1> QED  BY <1>1, Edited

\* Where the files of an edited version come from
LEMMA EditedFiles ==
  ASSUME NEW v, VersionOK(v), NEW deleted, NEW added, IsFiniteSet(added), \A x \in added : x[2] \in Nat,
         NEW f \in AddLiveFiles({Applied(v, deleted, added)})
  PROVE  f \in AddLiveFiles({v}) \/ \E x \in added : f = x[2]
<1> DEFINE a == Applied(v, deleted, added)
<1>1. \A l \in Levels : a[l] \in SUBSET (v[l] \cup {x[2] : x \in added})
  <2>1. v \in [Levels -> SUBSET Nat] /\ \A l \in Levels : IsFiniteSet(v[l])
    BY DEF VersionOK, FilesOK
  <2> QED  BY <2>1, Edited
<1> HIDE DEF a
<1>2. PICK l \in Levels : f \in a[l]
  BY LiveFiles DEF a
<1>3. f \in v[l] \/ \E x \in added : f = x[2]
  BY <1>1, <1>2
<1> QED  BY <1>3, LiveFiles

\* The pointer of a compaction becomes that of its level.
LEMMA NewPointer ==
  ASSUME StoreInv, UNCHANGED hist, NEW c, CompactionOK(c),
         compact_pointer' = [compact_pointer EXCEPT ![c.level] = c.pointer]
  PROVE  compact_pointer' \in [Levels -> 0..LastSequence']
<1>1. Len(hist) \in Nat
  BY KeyOrder DEF StoreInv, EntriesOK
<1>2. c.pointer \in 0..LastSequence
  BY <1>1 DEF CompactionOK, Numbers, LastSequence
<1>3. LastSequence' = LastSequence
  BY DEF LastSequence
<1> QED  BY <1>2, <1>3 DEF StoreInv, CurrentOK

\* A table that moves is a file of the current version, and stays on disk.
LEMMA TrivialMoveKeeps ==
  ASSUME StoreInv, bg = "scheduled", TrivialMove(Choice)
  PROVE  StoreInv'
<1> USE DEF StoreInv
<1> DEFINE c == Choice
<1>1. CompactionOK(c) /\ c.version = current
  BY ChoiceFacts DEF TrivialMove
<1> HIDE DEF c
<1>2. /\ c # NoCompaction /\ IsTrivialMove(c)
      /\ UNCHANGED <<hist, mem, imm, table, nextFile, job, bgError, snapshots, reader, caller, manual>>
      /\ BackgroundDone
      /\ compact_pointer' = [compact_pointer EXCEPT ![c.level] = c.pointer]
      /\ LET f == CHOOSE f \in c.in0 : TRUE
         IN  Install(Applied(current, {<<c.level, f>>}, {<<c.level + 1, f>>}), {f})
  BY DEF TrivialMove, users, c
<1> DEFINE f == CHOOSE f \in c.in0 : TRUE
<1>3. f \in c.in0
  BY <1>1 DEF CompactionOK
<1> DEFINE deleted == {<<c.level, f>>}
           added == {<<c.level + 1, f>>}
           v == Applied(current, deleted, added)
<1>4. Install(v, {f})
  BY <1>2
<1> HIDE DEF f
<1>5. f \in AddLiveFiles({current}) /\ FileOK(f)
  <2>1. c.level \in Levels
    BY <1>1, VersionAssumption DEF CompactionOK, Levels
  <2>2. f \in current[c.level]
    BY <1>1, <1>3 DEF CompactionOK
  <2> QED  BY <1>1, <2>1, <2>2, LiveFiles DEF CompactionOK, VersionOK, FilesOK
<1>6. IsFiniteSet(added) /\ \A x \in added : x[2] \in Nat /\ x[2] = f
  <2>1. f \in Nat
    BY <1>5 DEF FileOK
  <2>2. IsFiniteSet(added)
    BY FS_Singleton
  <2> QED  BY <2>1, <2>2
<1> HIDE DEF deleted, added
<1>7. HistOK /\ HistGrows /\ VersionOK(current)
  BY <1>2, SameHist DEF EntriesOK, CurrentOK
<1>8. \A g \in AddLiveFiles({v}) : FileOK(g)'
  <2> SUFFICES ASSUME NEW g \in AddLiveFiles({v}) PROVE FileOK(g)'
    OBVIOUS
  <2>1. g \in AddLiveFiles({current})
    BY <1>5, <1>6, <1>7, EditedFiles
  <2>2. FileOK(g)
    BY <1>7, <2>1, LiveFiles DEF VersionOK, FilesOK
  <2> QED  BY <1>2, <1>7, <2>2, FileStays DEF FileOK
<1>9. compact_pointer' \in [Levels -> 0..LastSequence']
  BY <1>1, <1>2, NewPointer
<1>10. CurrentOK'
  <2>1. v \in [Levels -> SUBSET Nat] /\ \A l \in Levels : IsFiniteSet(v[l])
    BY <1>6, <1>7, EditedVersion
  <2> HIDE DEF v
  <2> QED  BY <1>4, <1>8, <1>9, <2>1, NewCurrent
<1> QED  BY <1>2, <1>10, QuietStep, Scheduling


\* DoCompactionWork starts with the files that were chosen and without outputs.
LEMMA StartWorkKeeps ==
  ASSUME StoreInv, bg = "scheduled", DoCompactionWork(Choice)
  PROVE  StoreInv'
<1> USE DEF StoreInv
<1>1. PICK c : c = Choice
  OBVIOUS
<1>2. CompactionOK(c) /\ c.version = current /\ c.outputs = <<>>
  BY <1>1, ChoiceFacts DEF DoCompactionWork
<1> DEFINE s == IF snapshots = <<>> THEN LastSequence ELSE snapshots[1]
           d == [c EXCEPT !.manual = manual, !.smallest_snapshot = s]
<1>3. /\ UNCHANGED <<hist, mem, imm, table, current, seekFile, allowedSeeks, nextFile, bgError,
                     snapshots, reader, caller, manual>>
      /\ bg' = "merge" /\ job' = d
      /\ compact_pointer' = [compact_pointer EXCEPT ![c.level] = c.pointer]
  BY <1>1 DEF DoCompactionWork, users
<1>4. HistOK /\ HistGrows /\ VersionOK(current)
  BY <1>3, SameHist DEF EntriesOK, CurrentOK
<1>5. CurrentOK'
  <2>1. compact_pointer' \in [Levels -> 0..LastSequence']
    BY <1>2, <1>3, NewPointer
  <2>2. VersionOK(current)'
    BY <1>3, <1>4, SameTables, VersionStays
  <2>3. SeekOK(current, seekFile)' /\ (DOMAIN allowedSeeks = AddLiveFiles({current}))'
    BY <1>3 DEF CurrentOK, SeekOK, AddLiveFiles
  <2> QED  BY <2>1, <2>2, <2>3 DEF CurrentOK
<1>6. s \in Nat
  <2>1. Len(hist) \in Nat
    BY <1>4, KeyOrder
  <2>2. snapshots # <<>> => snapshots[1] \in 0..LastSequence
    <3> SUFFICES ASSUME snapshots # <<>> PROVE snapshots[1] \in 0..LastSequence
      OBVIOUS
    <3>1. snapshots \in Seq(0..LastSequence)
      BY DEF SnapshotsOK
    <3>2. Len(snapshots) \in Nat \ {0}
      BY <3>1, EmptySeq
    <3>3. 1 \in 1..Len(snapshots)
      BY <3>2
    <3> QED  BY <3>1, <3>3, ElementOfSeq
  <2> QED  BY <2>1, <2>2 DEF LastSequence
<1> HIDE DEF s
<1>7. /\ d \in Compactions
      /\ d.level = c.level /\ d.version = c.version /\ d.in0 = c.in0 /\ d.in1 = c.in1
      /\ d.pointer = c.pointer /\ d.outputs = c.outputs
  BY <1>2, <1>6 DEF CompactionOK, Compactions, CallerOK
<1> HIDE DEF d
<1>8. CompactionOK(d) /\ d.version = current /\ d.outputs = <<>>
  BY <1>2, <1>7 DEF CompactionOK
<1>9. PICK e : e = d
  OBVIOUS
<1>10. CompactionOK(e)'
  BY <1>3, <1>4, <1>8, <1>9, SameTables, CompactionStays
<1>11. CompactionOK(job)' /\ job' # NoJob
  <2>1. job' = e
    BY <1>3, <1>9
  <2>2. CompactionOK(job)'
    BY <1>10, <2>1
  <2>3. d.level # -1
    BY <1>8 DEF CompactionOK
  <2> QED  BY <1>3, <2>2, <2>3 DEF NoJob
<1>12. Pending(job)' = {} /\ job'.outputs = <<>>
  BY <1>3, <1>8, <1>11 DEF Pending
<1>13. JobOK'
  BY <1>3, <1>11, <1>12 DEF JobOK
<1> QED  BY <1>3, <1>5, <1>13, QuietStep

-----------------------------------------------------------------------------
(* The outputs of a compaction.                                            *)

\* The entries that a compaction reads
InputSet(c) == UNION {Entries(f) : f \in c.in0 \cup c.in1}

\* The merged input is the sequence of all entries of the inputs, in order.
LEMMA MergedInput ==
  ASSUME HistOK, NEW c, CompactionOK(c), NEW input, input = InputEntries(c)
  PROVE  /\ input \in Seq(Numbers) /\ Len(input) \in Nat /\ InputSet(c) \in SUBSET Numbers
         /\ \A i \in 1..Len(input) : input[i] \in InputSet(c)
         /\ \A i, j \in 1..Len(input) : i < j => ILess(input[i], input[j])
         /\ \A x \in InputSet(c) : \E i \in 1..Len(input) : input[i] = x
<1> DEFINE F == c.in0 \cup c.in1
           part == [f \in F |-> Entries(f)]
           E == UNION {Entries(f) : f \in F}
           R == {p \in E \X E : ILess(p[1], p[2])}
<1>1. IsFiniteSet(F) /\ \A f \in F : FileOK(f)
  <2>1. c.level \in Levels /\ c.level + 1 \in Levels
    BY VersionAssumption DEF CompactionOK, Levels
  <2>2. FilesOK(c.version[c.level]) /\ FilesOK(c.version[c.level + 1])
    BY <2>1 DEF CompactionOK, VersionOK
  <2>3. FilesOK(c.in0)
    BY <2>2, SomeFiles DEF CompactionOK
  <2>4. FilesOK(c.in1)
    BY <2>2, SomeFiles DEF CompactionOK
  <2> QED  BY <2>3, <2>4, FS_Union DEF FilesOK
<1> HIDE DEF F
<1>2. E \in SUBSET Numbers
  BY <1>1 DEF FileOK
<1>3. IsFiniteSet(E)
  BY <1>2, KeyOrder, FS_Subset
<1>4. \A a, b \in E : <<a, b>> \in R <=> ILess(a, b)
  OBVIOUS
<1>5. InputEntries(c) = [i \in 1..Cardinality(E) |->
                           CHOOSE e \in E : Cardinality({x \in E : ILess(x, e)}) = i - 1]
  BY DEF InputEntries, F
<1> HIDE DEF E, R
<1>6. StrictOn(E, R)
  BY <1>2, <1>4, KeyOrder DEF StrictOn
<1>7. TotalOn(E, R)
  BY <1>2, <1>4, KeyOrder DEF TotalOn
<1>8. \A e \in E : {x \in E : ILess(x, e)} = Below(E, R, e)
  BY <1>4 DEF Below
<1>9. \A i \in 1..Cardinality(E) : \E e \in E : Cardinality({x \in E : ILess(x, e)}) = i - 1
  <2>1. \A i \in 1..Cardinality(E) : \E e \in E : Cardinality(Below(E, R, e)) = i - 1
    BY <1>3, <1>6, <1>7, RankExists
  <2> QED  BY <1>8, <2>1
<1>10. InputEntries(c) \in [1..Cardinality(E) -> E]
  BY <1>5, <1>9
<1>11. Cardinality(E) \in Nat
  BY <1>3, FS_CardinalityType
<1>12. PICK n \in Nat : n = Cardinality(E)
  BY <1>11
<1>13. input \in Seq(E) /\ Len(input) = n
  <2>1. input \in [1..n -> E]
    BY <1>10, <1>12
  <2>2. input \in Seq(E)
    BY <1>12, <2>1, SeqDef
  <2>3. DOMAIN input = 1..n /\ DOMAIN input = 1..Len(input) /\ Len(input) \in Nat
    BY <2>1, <2>2, LenProperties
  <2>4. \A a, b \in Nat : 1..a = 1..b => a = b
    <3> SUFFICES ASSUME NEW a \in Nat, NEW b \in Nat, 1..a = 1..b PROVE a = b
      OBVIOUS
    <3>1. (a > 0 => a \in 1..a) /\ (b > 0 => b \in 1..b)
      OBVIOUS
    <3>2. (a > 0 => a <= b) /\ (b > 0 => b <= a)
      BY <3>1
    <3> QED  BY <3>2
  <2> QED  BY <2>2, <2>3, <2>4
<1>14. input \in Seq(Numbers)
  BY <1>2, <1>13, SeqMonotonic
<1>15. \A i \in 1..n : input[i] \in E /\ Cardinality(Below(E, R, input[i])) = i - 1
  <2> SUFFICES ASSUME NEW i \in 1..n PROVE input[i] \in E /\ Cardinality(Below(E, R, input[i])) = i - 1
    OBVIOUS
  <2>1. input[i] = CHOOSE e \in E : Cardinality({x \in E : ILess(x, e)}) = i - 1
    BY <1>5, <1>12
  <2>2. \E e \in E : Cardinality({x \in E : ILess(x, e)}) = i - 1
    BY <1>9, <1>12
  <2>3. input[i] \in E /\ Cardinality({x \in E : ILess(x, input[i])}) = i - 1
    BY <2>1, <2>2
  <2> QED  BY <1>8, <2>3
<1>16. ASSUME NEW i \in 1..n, NEW j \in 1..n, i < j PROVE ILess(input[i], input[j])
  <2>1. PICK a \in E, b \in E : a = input[i] /\ b = input[j]
    BY <1>15
  <2>2. Cardinality(Below(E, R, a)) = i - 1 /\ Cardinality(Below(E, R, b)) = j - 1
    BY <1>15, <2>1
  <2>3. a # b
    BY <1>16, <2>2
  <2>4. <<b, a>> \notin R
    <3> SUFFICES ASSUME <<b, a>> \in R PROVE FALSE
      OBVIOUS
    <3>1. Cardinality(Below(E, R, b)) < Cardinality(Below(E, R, a))
      BY <1>3, <1>6, BelowGrows
    <3> QED  BY <1>16, <2>2, <3>1
  <2>5. <<a, b>> \in R
    BY <1>7, <2>3, <2>4 DEF TotalOn
  <2> QED  BY <1>4, <2>1, <2>5
<1>17. ASSUME NEW x \in E PROVE \E i \in 1..n : input[i] = x
  <2> DEFINE B == Below(E, R, x)
  <2>1. B \in SUBSET (E \ {x})
    BY <1>6 DEF Below, StrictOn
  <2>2. IsFiniteSet(E \ {x}) /\ Cardinality(E \ {x}) = n - 1
    BY <1>3, <1>12, FS_RemoveElement
  <2> HIDE DEF B
  <2>3. Cardinality(B) \in Nat /\ Cardinality(B) <= n - 1
    BY <2>1, <2>2, FS_Subset, FS_CardinalityType
  <2>4. PICK i \in 1..n : i - 1 = Cardinality(B)
    <3>1. Cardinality(B) + 1 \in 1..n /\ (Cardinality(B) + 1) - 1 = Cardinality(B)
      BY <2>3
    <3> QED  BY <3>1
  <2>5. PICK a \in E : a = input[i]
    BY <1>15
  <2>6. Cardinality(Below(E, R, a)) = Cardinality(Below(E, R, x)) /\ Cardinality(Below(E, R, x)) \in Nat
    BY <1>15, <2>3, <2>4, <2>5 DEF B
  <2>7. <<a, x>> \notin R
    <3> SUFFICES ASSUME <<a, x>> \in R PROVE FALSE
      OBVIOUS
    <3>1. Cardinality(Below(E, R, a)) < Cardinality(Below(E, R, x))
      BY <1>3, <1>6, BelowGrows
    <3> QED  BY <2>6, <3>1
  <2>8. <<x, a>> \notin R
    <3> SUFFICES ASSUME <<x, a>> \in R PROVE FALSE
      OBVIOUS
    <3>1. Cardinality(Below(E, R, x)) < Cardinality(Below(E, R, a))
      BY <1>3, <1>6, BelowGrows
    <3> QED  BY <2>6, <3>1
  <2>9. a = x
    BY <1>7, <2>7, <2>8 DEF TotalOn
  <2> QED  BY <2>5, <2>9
<1>18. InputSet(c) = E
  BY DEF InputSet, E, F
<1> QED  BY <1>2, <1>12, <1>13, <1>14, <1>15, <1>16, <1>17, <1>18

LEMMA InputFacts ==
  ASSUME HistOK, NEW c, CompactionOK(c)
  PROVE  InputEntries(c) \in Seq(Numbers)
BY MergedInput


\* The outputs so far: all but the last, which is open, have entries.
Growing(s) ==
  /\ s \in Seq(SUBSET Numbers) /\ Len(s) >= 1
  /\ \A i \in 1..(Len(s) - 1) : s[i] # {}

\* A new output is opened after a last one that has entries.
LEMMA OpensOutput ==
  ASSUME NEW s, Growing(s), s[Len(s)] # {}
  PROVE  Growing(Append(s, {}))
<1> DEFINE t == Append(s, {})
<1>1. s \in Seq(SUBSET Numbers) /\ Len(s) \in Nat /\ Len(s) >= 1
  BY LenProperties DEF Growing
<1>2. /\ t \in Seq(SUBSET Numbers) /\ Len(t) = Len(s) + 1
      /\ \A i \in 1..Len(s) : t[i] = s[i]
  BY <1>1
<1> HIDE DEF t
<1>3. \A i \in 1..(Len(t) - 1) : t[i] # {}
  <2> SUFFICES ASSUME NEW i \in 1..(Len(t) - 1) PROVE t[i] # {}
    OBVIOUS
  <2>1. i \in 1..Len(s) /\ (i = Len(s) \/ i \in 1..(Len(s) - 1))
    BY <1>1, <1>2
  <2> QED  BY <1>2, <2>1 DEF Growing
<1>4. Len(t) >= 1
  BY <1>1, <1>2
<1> QED  BY <1>2, <1>3, <1>4 DEF Growing, t

\* The open output takes an entry.
LEMMA GrowsOutput ==
  ASSUME NEW s, Growing(s), NEW e \in Numbers
  PROVE  LET t == [s EXCEPT ![Len(s)] = @ \cup {e}]
         IN  Growing(t) /\ t[Len(t)] # {}
<1> DEFINE n == Len(s)
           x == s[n] \cup {e}
           t == [s EXCEPT ![n] = x]
<1>1. s \in Seq(SUBSET Numbers) /\ n \in Nat /\ n >= 1 /\ n \in 1..Len(s)
  BY LenProperties DEF Growing
<1>2. x \in SUBSET Numbers /\ x # {}
  BY <1>1, ElementOfSeq
<1> HIDE DEF x
<1>3. /\ t \in Seq(SUBSET Numbers) /\ Len(t) = n
      /\ \A j \in 1..n : t[j] = IF j = n THEN x ELSE s[j]
  BY <1>1, <1>2, ExceptSeq
<1>4. t[n] = x
  BY <1>1, <1>3
<1> HIDE DEF t
<1>5. \A i \in 1..(Len(t) - 1) : t[i] # {}
  <2> SUFFICES ASSUME NEW i \in 1..(Len(t) - 1) PROVE t[i] # {}
    OBVIOUS
  <2>1. i \in 1..n /\ i # n /\ i \in 1..(Len(s) - 1)
    BY <1>1, <1>3
  <2> QED  BY <1>3, <2>1 DEF Growing
<1>6. Growing(t) /\ t[Len(t)] # {}
  BY <1>1, <1>2, <1>3, <1>4, <1>5 DEF Growing
<1> QED  BY <1>6 DEF t, x

\* What DoCompactionWork makes of the outputs so far with the i-th entry
OutputStep(c, i, sofar) ==
  LET input == InputEntries(c)
      last == sofar[Len(sofar)]
      open == IF i \in ShouldStop(c, input) /\ last # {} THEN Append(sofar, {}) ELSE sofar
      grown == [open EXCEPT ![Len(open)] = @ \cup {input[i]}]
  IN IF Dropped(c, input, i) THEN open
     ELSE IF Cardinality(grown[Len(grown)]) >= MaxFileSize THEN Append(grown, {})
     ELSE grown

\* An output that is still empty at the end is not there.
OutputsAre(c, all) ==
  CompactionOutputs(c) = IF all[Len(all)] = {} THEN SubSeq(all, 1, Len(all) - 1) ELSE all

\* DoCompactionWork's loop: what holds of no entries and one empty output, and is
\* kept by every step, holds at the end.  S is what may hold, as pairs of how many
\* entries were read and the outputs so far.
LEMMA OutputLoop ==
  ASSUME NEW c, NEW N \in Nat, N = Len(InputEntries(c)),
         NEW X, NEW S \in SUBSET (Nat \X X), NEW start, start = <<{}>>, <<0, start>> \in S,
         \A i \in 1..N : \A s \in X : <<i - 1, s>> \in S => <<i, OutputStep(c, i, s)>> \in S
  PROVE  \E all \in X :
           <<N, all>> \in S /\ OutputsAre(c, all)
<1> DEFINE G == [x \in (1..N) \X S |->
                   IF x[2][1] = x[1] - 1 THEN <<x[1], OutputStep(c, x[1], x[2][2])>> ELSE x[2]]
           first == <<0, start>>
           out[i \in 0..N] == IF i = 0 THEN <<{}>> ELSE OutputStep(c, i, out[i - 1])
<1>1. \A p \in S : p = <<p[1], p[2]>> /\ p[2] \in X
  OBVIOUS
<1>2. G \in [(1..N) \X S -> S]
  <2> SUFFICES ASSUME NEW i \in 1..N, NEW p \in S, p[1] = i - 1 PROVE <<i, OutputStep(c, i, p[2])>> \in S
    OBVIOUS
  <2> QED  BY <1>1
<1>3. \A i \in 1..N : \A p \in S : p[1] = i - 1 => G[<<i, p>>] = <<i, OutputStep(c, i, p[2])>>
  OBVIOUS
<1>4. PICK w \in [0..N -> S] : \A i \in 0..N : w[i] = IF i = 0 THEN first ELSE G[<<i, w[i - 1]>>]
  <2>1. first \in S
    OBVIOUS
  <2> HIDE DEF G, first, out
  <2>2. \E w \in [0..N -> S] : Recursion(w, N, first, G)
    BY <1>2, <2>1, RecursiveFunction
  <2> QED  BY <2>2 DEF Recursion
<1> HIDE DEF G
<1>5. w[0] = first
  <2>1. 0 \in 0..N
    OBVIOUS
  <2> QED  BY <1>4, <2>1
<1>6. \A i \in 0..N : w[i][1] = i
  <2> DEFINE R == {i \in 0..N : w[i][1] # i}
  <2> SUFFICES ASSUME R # {} PROVE FALSE
    OBVIOUS
  <2>1. R \in SUBSET Nat
    OBVIOUS
  <2>2. PICK m \in R : \A k \in R : m <= k
    BY <2>1, LeastOfNumbers
  <2>3. m # 0
    <3>1. w[0][1] = 0
      BY <1>5
    <3> QED  BY <2>2, <3>1
  <2>4. m \in 1..N /\ m - 1 \in 0..N /\ m \in 0..N /\ ~(m <= m - 1)
    BY <2>3
  <2>5. w[m - 1][1] = m - 1 /\ w[m - 1] \in S
    BY <2>2, <2>4
  <2>6. w[m] = <<m, OutputStep(c, m, w[m - 1][2])>>
    BY <1>3, <1>4, <2>3, <2>4, <2>5
  <2> QED  BY <2>6
<1>7. \A i \in 1..N : w[i][2] = OutputStep(c, i, w[i - 1][2])
  <2> SUFFICES ASSUME NEW i \in 1..N PROVE w[i][2] = OutputStep(c, i, w[i - 1][2])
    OBVIOUS
  <2>1. i \in 0..N /\ i # 0 /\ i - 1 \in 0..N
    OBVIOUS
  <2>2. w[i] = <<i, OutputStep(c, i, w[i - 1][2])>>
    BY <1>3, <1>4, <1>6, <2>1
  <2> QED  BY <2>2
<1>8. w[0][2] = <<{}>>
  BY <1>5
<1>9. \A i \in 0..N : i # 0 => i \in 1..N
  OBVIOUS
<1> DEFINE v == [i \in 0..N |-> w[i][2]]
<1>10. v = [i \in 0..N |-> IF i = 0 THEN <<{}>> ELSE OutputStep(c, i, v[i - 1])]
  <2> SUFFICES ASSUME NEW i \in 0..N PROVE v[i] = IF i = 0 THEN <<{}>> ELSE OutputStep(c, i, v[i - 1])
    OBVIOUS
  <2>1. CASE i = 0
    BY <1>8, <2>1
  <2>2. CASE i # 0
    <3>1. i \in 1..N /\ i - 1 \in 0..N
      BY <2>2
    <3>2. v[i - 1] = w[i - 1][2] /\ v[i] = w[i][2]
      BY <3>1
    <3> HIDE DEF v
    <3> QED  BY <1>7, <2>2, <3>1, <3>2
  <2> QED  BY <2>1, <2>2
<1>11. out = [i \in 0..N |-> IF i = 0 THEN <<{}>> ELSE OutputStep(c, i, out[i - 1])]
  BY <1>10
<1> HIDE DEF out
<1>12. \A i \in 0..N : out[i] = w[i][2]
  <2> DEFINE R == {i \in 0..N : out[i] # w[i][2]}
  <2> SUFFICES ASSUME R # {} PROVE FALSE
    OBVIOUS
  <2>1. R \in SUBSET Nat
    OBVIOUS
  <2>2. PICK m \in R : \A k \in R : m <= k
    BY <2>1, LeastOfNumbers
  <2>3. m \in 0..N
    OBVIOUS
  <2>4. m # 0
    BY <1>8, <1>11, <2>2
  <2>5. m \in 1..N /\ m - 1 \in 0..N /\ ~(m <= m - 1)
    BY <2>4
  <2>6. out[m - 1] = w[m - 1][2]
    BY <2>2, <2>5
  <2>7. out[m] = OutputStep(c, m, out[m - 1])
    BY <1>11, <2>3, <2>4
  <2> QED  BY <1>7, <2>2, <2>5, <2>6, <2>7
<1> DEFINE all == out[N]
<1>13. OutputsAre(c, all)
  BY DEF OutputsAre, CompactionOutputs, OutputStep, out
<1>14. all \in X /\ <<N, all>> \in S
  <2>1. N \in 0..N
    OBVIOUS
  <2>2. all = w[N][2] /\ w[N] \in S /\ w[N][1] = N
    BY <1>6, <1>12, <2>1
  <2> HIDE DEF all
  <2> QED  BY SMTT(30), <1>1, <2>2
<1> HIDE DEF all
<1> QED  BY <1>13, <1>14

\* The outputs of a compaction are tables with entries that were written.
LEMMA OutputFacts ==
  ASSUME HistOK, NEW c, CompactionOK(c)
  PROVE  CompactionOutputs(c) \in Seq((SUBSET Numbers) \ {{}})
<1>1. PICK input : input = InputEntries(c)
  OBVIOUS
<1>2. PICK N \in Nat : N = Len(InputEntries(c))
  BY InputFacts, LenProperties
<1>3. ASSUME NEW i \in 1..N, NEW sofar, Growing(sofar)
      PROVE  Growing(OutputStep(c, i, sofar))
  <2> DEFINE last == sofar[Len(sofar)]
             open == IF i \in ShouldStop(c, input) /\ last # {} THEN Append(sofar, {}) ELSE sofar
             grown == [open EXCEPT ![Len(open)] = @ \cup {input[i]}]
  <2>1. input[i] \in Numbers
    BY <1>1, <1>2, InputFacts, ElementOfSeq
  <2>2. Growing(open)
    BY <1>3, OpensOutput
  <2> HIDE DEF open
  <2>3. Growing(grown) /\ grown[Len(grown)] # {}
    BY <2>1, <2>2, GrowsOutput
  <2> HIDE DEF grown
  <2>4. Growing(Append(grown, {}))
    BY <2>3, OpensOutput
  <2>5. OutputStep(c, i, sofar) = IF Dropped(c, input, i) THEN open
                                  ELSE IF Cardinality(grown[Len(grown)]) >= MaxFileSize THEN Append(grown, {})
                                  ELSE grown
    BY <1>1 DEF OutputStep, open, grown
  <2> QED  BY <2>2, <2>3, <2>4, <2>5
<1>4. PICK start : start = <<{}>>
  OBVIOUS
<1>5. Growing(start)
  <2>1. start \in Seq(SUBSET Numbers) /\ Len(start) = 1
    BY <1>4
  <2> QED  BY <2>1 DEF Growing
<1> DEFINE X == Seq(SUBSET Numbers)
           S == {p \in Nat \X X : Growing(p[2])}
<1>6. PICK all : Growing(all) /\ OutputsAre(c, all)
  <2>1. S \in SUBSET (Nat \X X)
    OBVIOUS
  <2>2. \A s : Growing(s) => s \in X
    BY DEF Growing
  <2>3. \A i \in Nat, s \in X : <<i, s>> \in S <=> Growing(s)
    OBVIOUS
  <2> HIDE DEF S, X
  <2>4. <<0, start>> \in S
    BY <1>5, <2>2, <2>3
  <2>5. \A i \in 1..N : \A s \in X : <<i - 1, s>> \in S => <<i, OutputStep(c, i, s)>> \in S
    <3> SUFFICES ASSUME NEW i \in 1..N, NEW s \in X, <<i - 1, s>> \in S PROVE <<i, OutputStep(c, i, s)>> \in S
      OBVIOUS
    <3>1. i \in Nat /\ i - 1 \in Nat
      OBVIOUS
    <3>2. Growing(OutputStep(c, i, s))
      BY <1>3, <2>3, <3>1
    <3> QED  BY <2>2, <2>3, <3>1, <3>2
  <2>6. \E all \in X :
          <<N, all>> \in S /\ OutputsAre(c, all)
    BY <1>2, <1>4, <2>1, <2>4, <2>5, OutputLoop
  <2> QED  BY <2>3, <2>6
<1> HIDE DEF S, X
<1> DEFINE T == (SUBSET Numbers) \ {{}}
<1>7. /\ all \in Seq(SUBSET Numbers) /\ Len(all) \in Nat /\ Len(all) >= 1
      /\ \A i \in 1..(Len(all) - 1) : all[i] \in T
  <2>1. all \in Seq(SUBSET Numbers) /\ Len(all) \in Nat /\ Len(all) >= 1
    BY <1>6, LenProperties DEF Growing
  <2>2. \A i \in 1..(Len(all) - 1) : all[i] # {} /\ i \in 1..Len(all)
    <3>1. \A i \in 1..(Len(all) - 1) : all[i] # {}
      BY <1>6 DEF Growing
    <3>2. \A i \in 1..(Len(all) - 1) : i \in 1..Len(all)
      BY <2>1
    <3> QED  BY <3>1, <3>2
  <2>3. \A i \in 1..(Len(all) - 1) : all[i] \in SUBSET Numbers
    BY <2>1, <2>2, ElementOfSeq
  <2> QED  BY <2>1, <2>2, <2>3
<1>8. CASE all[Len(all)] = {}
  <2>1. SubSeq(all, 1, Len(all) - 1) \in Seq(T)
    <3> HIDE DEF T
    <3> QED  BY <1>7, SubSeqProperties
  <2> QED  BY <1>6, <1>8, <2>1 DEF OutputsAre
<1>9. CASE all[Len(all)] # {}
  <2>1. all[Len(all)] \in T
    BY <1>7, <1>9, ElementOfSeq
  <2> HIDE DEF T
  <2>2. \A i \in 1..Len(all) : all[i] \in T
    BY <1>7, <2>1
  <2>3. all \in [1..Len(all) -> T]
    BY <1>7, <2>2, LenProperties
  <2>4. all \in Seq(T)
    BY <1>7, <2>3, SeqDef
  <2> QED  BY <1>6, <1>9, <2>4 DEF T, OutputsAre
<1> QED  BY <1>8, <1>9


-----------------------------------------------------------------------------
(* Tables come and go.                                                     *)

\* A table that is built of entries that were written is whole.
LEMMA BuiltFile ==
  ASSUME HistOK, UNCHANGED hist, NEW E \in (SUBSET Numbers) \ {{}},
         NEW f \in Nat \ {0}, f \in DOMAIN table', table'[f] = TableOf(E)
  PROVE  FileOK(f)'
<1>1. PICK t : t = TableOf(E)
  OBVIOUS
<1>2. /\ t.entries = E /\ t.smallest \in E /\ t.largest \in E /\ Key(t.smallest) <= Key(t.largest)
      /\ \A x \in E : AtOrBefore(t.smallest, x) /\ AtOrBefore(x, t.largest)
  BY <1>1, TableOfFacts
<1>3. Entries(f)' = E /\ Smallest(f)' = t.smallest /\ Largest(f)' = t.largest
  BY <1>1, <1>2 DEF Entries, Smallest, Largest
<1>4. Key(Smallest(f))' = Key(t.smallest) /\ Key(Largest(f))' = Key(t.largest)
  BY <1>3 DEF Key
<1>5. Numbers' = Numbers
  BY DEF Numbers
<1>6. \A x \in E : AtOrBefore(Smallest(f), x)' /\ AtOrBefore(x, Largest(f))'
  BY <1>2, <1>3 DEF AtOrBefore, ILess, Key
<1> QED  BY <1>2, <1>3, <1>4, <1>5, <1>6 DEF FileOK

\* DeleteObsoleteFiles keeps the live and the pending files as they are.
LEMMA Kept ==
  ASSUME NEW disk, NEW now, NEW c, NEW pending, DeleteObsoleteFiles(disk, now, c, pending)
  PROVE  /\ \A f \in DOMAIN table' : f \in DOMAIN disk /\ table'[f] = disk[f]
         /\ \A f \in DOMAIN disk : f \in AddLiveFiles({now}) \cup pending => f \in DOMAIN table'
         /\ c # NoJob => \A f \in DOMAIN disk : f \in AddLiveFiles({c.version}) => f \in DOMAIN table'
         /\ reader.kind # "none" =>
              \A f \in DOMAIN disk : f \in AddLiveFiles({reader.version}) => f \in DOMAIN table'
<1> DEFINE live == AddLiveFiles(LiveVersions(now, c)) \cup pending
<1>1. table' = IF bgError THEN disk ELSE [f \in DOMAIN disk \cap live |-> disk[f]]
  BY DEF DeleteObsoleteFiles
<1>2. /\ AddLiveFiles({now}) \cup pending \in SUBSET live
      /\ c # NoJob => AddLiveFiles({c.version}) \in SUBSET live
      /\ reader.kind # "none" => AddLiveFiles({reader.version}) \in SUBSET live
  BY DEF AddLiveFiles, LiveVersions
<1> HIDE DEF live
<1>3. CASE bgError
  BY <1>1, <1>3
<1>4. CASE ~bgError
  BY <1>1, <1>2, <1>4
<1> QED  BY <1>3, <1>4

\* The files of a version are on disk.
LEMMA OnDisk ==
  ASSUME NEW v, VersionOK(v), NEW f \in AddLiveFiles({v})
  PROVE  FileOK(f) /\ f \in DOMAIN table
BY LiveFiles DEF VersionOK, FilesOK, FileOK

\* CompactMemTable adds one table under a number of its own.
LEMMA CompactMemTableKeeps ==
  ASSUME StoreInv, CompactMemTable, UNCHANGED <<hist, mem>>
  PROVE  /\ EntriesOK' /\ DiskOK' /\ CurrentOK'
         /\ job # NoJob => Stays(AddLiveFiles({job.version})) /\ Stays(Pending(job))
         /\ reader.kind # "none" => Stays(AddLiveFiles({reader.version}))
<1> USE DEF StoreInv
<1>1. PICK E \in SUBSET Numbers : imm = <<E>>
  BY DEF EntriesOK, CompactMemTable
<1>2. PICK level : level = PickLevelForMemTableOutput(current, Min({Key(e) : e \in E}), Max({Key(e) : e \in E}))
  OBVIOUS
<1> DEFINE f == nextFile
           full == [x \in DOMAIN table \cup {f} |-> IF x = f THEN TableOf(E) ELSE table[x]]
           added == {<<level, f>>}
<1>3. PICK disk : disk = IF E = {} THEN table ELSE full
  OBVIOUS
<1>4. PICK v : v = IF E = {} THEN current ELSE Applied(current, {}, added)
  OBVIOUS
<1>5. /\ Install(v, {f})
      /\ DeleteObsoleteFiles(disk, v, job, Pending(job))
      /\ imm' = <<>> /\ nextFile' = nextFile + 1 /\ UNCHANGED compact_pointer
  BY <1>1, <1>2, <1>3, <1>4 DEF CompactMemTable
<1>6. HistOK /\ HistGrows /\ VersionOK(current)
  BY SameHist DEF EntriesOK, CurrentOK
<1>7. f \in Nat \ {0} /\ f \notin DOMAIN table /\ \A g \in DOMAIN table : FileOK(g) /\ g \in Nat /\ g < f
  BY DEF DiskOK, FileOK
<1>8. /\ DOMAIN disk \in SUBSET (DOMAIN table \cup {f})
      /\ \A g \in DOMAIN table : g \in DOMAIN disk /\ disk[g] = table[g]
      /\ f \in DOMAIN disk => E # {} /\ disk[f] = TableOf(E)
      /\ E # {} => f \in DOMAIN disk
  BY <1>3, <1>7
<1>9. /\ \A g \in DOMAIN table' : g \in DOMAIN disk /\ table'[g] = disk[g]
      /\ \A g \in DOMAIN disk : g \in AddLiveFiles({v}) \cup Pending(job) => g \in DOMAIN table'
      /\ job # NoJob => \A g \in DOMAIN disk : g \in AddLiveFiles({job.version}) => g \in DOMAIN table'
      /\ reader.kind # "none" =>
           \A g \in DOMAIN disk : g \in AddLiveFiles({reader.version}) => g \in DOMAIN table'
  BY <1>5, Kept
<1> HIDE DEF full
<1>10. \A g \in DOMAIN table' : FileOK(g)' /\ g < nextFile'
  <2> SUFFICES ASSUME NEW g \in DOMAIN table' PROVE FileOK(g)' /\ g < nextFile'
    OBVIOUS
  <2>1. g \in DOMAIN disk /\ table'[g] = disk[g]
    BY <1>9
  <2>2. CASE g = f
    <3>1. E \in (SUBSET Numbers) \ {{}} /\ table'[f] = TableOf(E) /\ f \in DOMAIN table'
      BY <1>8, <2>1, <2>2
    <3>2. PICK n \in Nat \ {0} : n = f
      BY <1>7
    <3>3. FileOK(n)'
      BY <1>6, <3>1, <3>2, BuiltFile
    <3>4. n < nextFile' /\ g = n
      BY <1>5, <2>2, <3>2
    <3> QED  BY <3>3, <3>4
  <2>3. CASE g # f
    <3>1. g \in DOMAIN table /\ table'[g] = table[g]
      BY <1>8, <2>1, <2>3
    <3>2. FileOK(g)'
      BY <1>6, <1>7, <3>1, FileStays
    <3>3. g < nextFile'
      BY <1>5, <1>7, <3>1
    <3> QED  BY <3>2, <3>3
  <2> QED  BY <2>2, <2>3
<1>11. DiskOK'
  BY <1>5, <1>7, <1>10 DEF DiskOK
<1>12. /\ v \in [Levels -> SUBSET Nat] /\ \A l \in Levels : IsFiniteSet(v[l])
       /\ \A g \in AddLiveFiles({v}) : g \in DOMAIN disk
  <2>1. CASE E = {}
    <3>1. v = current
      BY <1>4, <2>1
    <3>2. \A g \in AddLiveFiles({v}) : g \in DOMAIN table
      BY <1>6, <3>1, OnDisk
    <3> QED  BY <1>6, <1>8, <3>1, <3>2 DEF VersionOK, FilesOK
  <2>2. CASE E # {}
    <3>1. v = Applied(current, {}, added)
      BY <1>4, <2>2
    <3>2. IsFiniteSet(added) /\ \A x \in added : x[2] \in Nat /\ x[2] = f
      <4>1. IsFiniteSet(added)
        BY FS_Singleton
      <4> QED  BY <1>7, <4>1
    <3> HIDE DEF added
    <3>3. v \in [Levels -> SUBSET Nat] /\ \A l \in Levels : IsFiniteSet(v[l])
      BY <1>6, <3>1, <3>2, EditedVersion
    <3>4. \A g \in AddLiveFiles({v}) : g \in AddLiveFiles({current}) \/ g = f
      <4> DEFINE w == Applied(current, {}, added)
      <4>1. \A g \in AddLiveFiles({w}) : g \in AddLiveFiles({current}) \/ \E x \in added : g = x[2]
        BY <1>6, <3>2, EditedFiles
      <4> HIDE DEF w
      <4>2. v = w
        BY <3>1 DEF w
      <4> QED  BY <3>2, <4>1, <4>2
    <3>5. \A g \in AddLiveFiles({current}) : g \in DOMAIN table
      BY <1>6, OnDisk
    <3> QED  BY <1>8, <2>2, <3>3, <3>4, <3>5
  <2> QED  BY <2>1, <2>2
<1>13. CurrentOK'
  <2>1. \A g \in AddLiveFiles({v}) : FileOK(g)'
    BY <1>9, <1>10, <1>12
  <2>2. compact_pointer' \in [Levels -> 0..LastSequence']
    BY <1>5, <1>6, SamePointers DEF CurrentOK
  <2> QED  BY <1>5, <1>12, <2>1, <2>2, NewCurrent
<1>14. job # NoJob => Stays(AddLiveFiles({job.version})) /\ Stays(Pending(job))
  <2> SUFFICES ASSUME job # NoJob PROVE Stays(AddLiveFiles({job.version})) /\ Stays(Pending(job))
    OBVIOUS
  <2>1. \A g \in AddLiveFiles({job.version}) : g \in DOMAIN table
    BY OnDisk DEF JobOK, CompactionOK
  <2>2. \A g \in Pending(job) : g \in DOMAIN table
    BY DEF JobOK
  <2> QED  BY <1>8, <1>9, <2>1, <2>2 DEF Stays
<1>15. reader.kind # "none" => Stays(AddLiveFiles({reader.version}))
  <2> SUFFICES ASSUME reader.kind # "none" PROVE Stays(AddLiveFiles({reader.version}))
    OBVIOUS
  <2>1. \A g \in AddLiveFiles({reader.version}) : g \in DOMAIN table
    BY OnDisk DEF ReaderOK
  <2> QED  BY <1>8, <1>9, <2>1 DEF Stays
<1>16. EntriesOK'
  BY <1>5 DEF EntriesOK, HistOK, Numbers
<1> QED  BY <1>11, <1>13, <1>14, <1>15, <1>16


LEMMA FlushKeeps ==
  ASSUME StoreInv, BackgroundFlush \/ NestedCompactMemTable
  PROVE  StoreInv'
<1> USE DEF StoreInv
<1>1. /\ CompactMemTable
      /\ UNCHANGED <<hist, mem, job, bgError, snapshots, reader, caller, manual>>
      /\ bg' = bg \/ (bg = "scheduled" /\ BackgroundDone)
  BY DEF BackgroundFlush, NestedCompactMemTable, background, users
<1>2. /\ EntriesOK' /\ DiskOK' /\ CurrentOK'
      /\ job # NoJob => Stays(AddLiveFiles({job.version})) /\ Stays(Pending(job))
      /\ reader.kind # "none" => Stays(AddLiveFiles({reader.version}))
  BY <1>1, CompactMemTableKeeps
<1>3. HistOK /\ HistGrows
  BY <1>1, SameHist DEF EntriesOK
<1>4. bg' = bg \/ (bg \in {"none", "scheduled"} /\ bg' \in {"none", "scheduled"})
  BY <1>1, Scheduling
<1>5. bgError' \in BOOLEAN
  BY <1>1 DEF JobOK
<1>6. JobOK'
  BY <1>1, <1>2, <1>3, <1>4, <1>5, SameJob
<1>7. ReaderOK'
  BY <1>1, <1>2, <1>3, SameReader
<1>8. CallerOK'
  BY <1>1, SameCaller
<1>9. SnapshotsOK'
  BY <1>1, <1>3, SameSnapshots
<1> QED  BY <1>2, <1>6, <1>7, <1>8, <1>9

\* The outputs are written under numbers of their own.
LEMMA WriteOutputsKeeps ==
  ASSUME StoreInv, WriteOutputs
  PROVE  StoreInv'
<1> USE DEF StoreInv
<1>1. bg = "merge" /\ job # NoJob /\ CompactionOK(job)
  BY DEF WriteOutputs, JobOK
<1>2. PICK outs : outs = CompactionOutputs(job)
  OBVIOUS
<1> DEFINE n == Len(outs)
           new == nextFile..(nextFile + n - 1)
           d == [job EXCEPT !.outputs = [i \in DOMAIN outs |-> nextFile + i - 1]]
<1>3. /\ UNCHANGED <<hist, mem, imm, current, seekFile, allowedSeeks, compact_pointer, bgError,
                     snapshots, reader, caller, manual>>
      /\ table' = [f \in DOMAIN table \cup new |->
                     IF f \in new THEN TableOf(outs[f - nextFile + 1]) ELSE table[f]]
      /\ job' = d /\ nextFile' = nextFile + n /\ bg' = "written"
  BY <1>2 DEF WriteOutputs, users
<1>4. HistOK /\ HistGrows
  BY <1>3, SameHist DEF EntriesOK
<1>5. /\ outs \in Seq((SUBSET Numbers) \ {{}})
      /\ n \in Nat /\ DOMAIN outs = 1..n
      /\ \A i \in 1..n : outs[i] \in (SUBSET Numbers) \ {{}}
  <2>1. outs \in Seq((SUBSET Numbers) \ {{}})
    BY <1>1, <1>2, <1>4, OutputFacts
  <2> QED  BY <2>1, LenProperties, ElementOfSeq
<1>6. nextFile \in Nat \ {0} /\ \A g \in DOMAIN table : FileOK(g) /\ g \in Nat /\ g < nextFile
  BY DEF DiskOK, FileOK
<1>7. \A g \in DOMAIN table : g \notin new
  BY <1>5, <1>6
<1>8. \A g \in new : g \in Nat \ {0} /\ g - nextFile + 1 \in 1..n /\ g < nextFile + n
  BY <1>5, <1>6
<1> HIDE DEF n, d, new
<1>9. /\ \A g \in DOMAIN table : g \in DOMAIN table' /\ table'[g] = table[g]
      /\ \A g \in new : g \in DOMAIN table' /\ table'[g] = TableOf(outs[g - nextFile + 1])
      /\ \A g \in DOMAIN table' : g \in DOMAIN table \/ g \in new
  BY <1>3, <1>7
<1>10. \A g \in DOMAIN table' : FileOK(g)' /\ g < nextFile'
  <2> SUFFICES ASSUME NEW g \in DOMAIN table' PROVE FileOK(g)' /\ g < nextFile'
    OBVIOUS
  <2>1. CASE g \in DOMAIN table
    <3>1. FileOK(g)'
      BY <1>4, <1>6, <1>9, <2>1, FileStays
    <3>2. g < nextFile'
      BY <1>3, <1>5, <1>6, <2>1
    <3> QED  BY <3>1, <3>2
  <2>2. CASE g \in new
    <3>1. PICK E : E = outs[g - nextFile + 1]
      OBVIOUS
    <3>2. E \in (SUBSET Numbers) \ {{}} /\ g \in Nat \ {0} /\ table'[g] = TableOf(E)
      BY <1>5, <1>8, <1>9, <2>2, <3>1
    <3>3. FileOK(g)'
      BY <1>3, <1>4, <3>2, BuiltFile
    <3>4. g < nextFile'
      BY <1>3, <1>8, <2>2
    <3> QED  BY <3>3, <3>4
  <2> QED  BY <1>9, <2>1, <2>2
<1>11. DiskOK'
  <2>1. nextFile' \in Nat \ {0}
    BY <1>3, <1>5, <1>6
  <2> QED  BY <1>10, <2>1 DEF DiskOK
<1>12. /\ Stays(AddLiveFiles({current}))
       /\ Stays(AddLiveFiles({job.version}))
       /\ reader.kind # "none" => Stays(AddLiveFiles({reader.version}))
  <2>1. \A v : VersionOK(v) => Stays(AddLiveFiles({v}))
    BY <1>9, OnDisk DEF Stays
  <2> QED  BY <1>1, <2>1 DEF CurrentOK, CompactionOK, ReaderOK
<1>13. CurrentOK'
  BY <1>3, <1>4, <1>12, SameCurrent
<1>14. ReaderOK'
  BY <1>3, <1>4, <1>12, SameReader
<1>15. EntriesOK' /\ CallerOK' /\ SnapshotsOK'
  <2>1. EntriesOK'
    BY <1>3, SameEntries
  <2>2. CallerOK'
    BY <1>3, SameCaller
  <2>3. SnapshotsOK'
    BY <1>3, <1>4, SameSnapshots
  <2> QED  BY <2>1, <2>2, <2>3
<1>16. PICK e : e = d
  OBVIOUS
<1>17. PICK o : o = [i \in DOMAIN outs |-> nextFile + i - 1]
  OBVIOUS
<1>18. o \in Seq(Nat) /\ \A i \in DOMAIN o : o[i] \in new
  <2>1. \A i \in 1..n : nextFile + i - 1 \in Nat /\ nextFile + i - 1 \in new
    BY <1>5, <1>6 DEF new
  <2>2. o \in [1..n -> Nat] /\ \A i \in DOMAIN o : o[i] \in new
    BY <1>5, <1>17, <2>1
  <2> QED  BY <1>5, <2>2, SeqDef
<1>19. e = [job EXCEPT !.outputs = o]
  BY <1>16, <1>17 DEF d
<1>20. CompactionOK(e) /\ e.version = job.version /\ e.outputs = o
  BY <1>1, <1>18, <1>19 DEF CompactionOK, Compactions
<1>21. CompactionOK(e)'
  BY <1>4, <1>12, <1>20, CompactionStays
<1>22. job' = e
  BY <1>3, <1>16
<1>23. CompactionOK(job)' /\ job' # NoJob
  <2>1. e.level # -1
    BY <1>20 DEF CompactionOK
  <2> QED  BY <1>21, <1>22, <2>1 DEF NoJob
<1>24. Pending(job)' \in SUBSET DOMAIN table'
  <2>1. Pending(job)' = {o[i] : i \in DOMAIN o}
    BY <1>20, <1>22, <1>23 DEF Pending
  <2> QED  BY <1>9, <1>18, <2>1
<1>25. JobOK'
  BY <1>3, <1>23, <1>24 DEF JobOK
<1> QED  BY <1>11, <1>13, <1>14, <1>15, <1>25

\* The outputs of a compaction are finitely many.
LEMMA PendingFinite ==
  ASSUME NEW c, CompactionOK(c)
  PROVE  IsFiniteSet(Pending(c)) /\ Pending(c) \in SUBSET Nat
<1>1. PICK o : o = c.outputs
  OBVIOUS
<1>2. o \in Seq(Nat) /\ c # NoJob
  <2>1. c.level # -1
    BY DEF CompactionOK
  <2> QED  BY <1>1, <2>1 DEF CompactionOK, Compactions, NoJob
<1>3. Len(o) \in Nat /\ o \in [1..Len(o) -> Nat] /\ DOMAIN o = 1..Len(o)
  BY <1>2, LenProperties
<1> DEFINE S == DOMAIN o
<1>4. IsFiniteSet(S)
  BY <1>3, FS_Interval
<1>5. o \in [S -> {o[i] : i \in S}]
  BY <1>3
<1>6. Pending(c) = {o[i] : i \in S}
  BY <1>1, <1>2 DEF Pending
<1> HIDE DEF S
<1>7. IsFiniteSet({o[i] : i \in S})
  BY <1>4, <1>5, ImageFinite
<1>8. {o[i] : i \in S} \in SUBSET Nat
  BY <1>3 DEF S
<1> QED  BY <1>6, <1>7, <1>8

\* The version that a compaction installs consists of tables on disk, which
\* DeleteObsoleteFiles leaves there with those of the reader.
LEMMA InstallKeeps ==
  ASSUME StoreInv, InstallCompactionResults
  PROVE  StoreInv'
<1> USE DEF StoreInv
<1>1. bg = "written" /\ job # NoJob /\ CompactionOK(job)
  BY DEF InstallCompactionResults, JobOK
<1> DEFINE P == Pending(job)
           deleted == AddInputDeletions(job)
           put == [f \in P |-> <<job.level + 1, f>>]
           added == {<<job.level + 1, f>> : f \in P}
<1>2. PICK v : v = Applied(current, deleted, added)
  OBVIOUS
<1>3. /\ Install(v, P)
      /\ DeleteObsoleteFiles(table, v, NoJob, {})
      /\ ManualPart(job.manual, job, FALSE)
      /\ job' = NoJob
      /\ UNCHANGED <<hist, mem, imm, compact_pointer, nextFile, bgError, snapshots, reader>>
      /\ bg' = "crashed" \/ BackgroundDone
  BY <1>2 DEF InstallCompactionResults
<1>4. HistOK /\ HistGrows /\ VersionOK(current)
  BY <1>3, SameHist DEF EntriesOK, CurrentOK
<1>5. IsFiniteSet(added) /\ \A x \in added : x[2] \in Nat /\ x[2] \in P
  <2>1. IsFiniteSet(P) /\ P \in SUBSET Nat
    BY <1>1, PendingFinite
  <2> HIDE DEF P
  <2>2. put \in [P -> {put[f] : f \in P}] /\ added = {put[f] : f \in P}
    OBVIOUS
  <2> HIDE DEF put
  <2>3. \A x \in added : x[2] \in Nat /\ x[2] \in P
    <3>1. \A x \in added : x[2] \in P
      OBVIOUS
    <3> QED  BY <2>1, <3>1
  <2> HIDE DEF added
  <2>4. IsFiniteSet({put[f] : f \in P})
    BY <2>1, <2>2, ImageFinite
  <2> QED  BY <2>2, <2>3, <2>4
<1>6. P \in SUBSET DOMAIN table
  BY <1>1 DEF JobOK
<1> HIDE DEF P, deleted, added
<1>7. v \in [Levels -> SUBSET Nat] /\ \A l \in Levels : IsFiniteSet(v[l])
  BY <1>2, <1>4, <1>5, EditedVersion
<1>8. \A g \in AddLiveFiles({v}) : g \in DOMAIN table
  <2> DEFINE w == Applied(current, deleted, added)
  <2>1. \A g \in AddLiveFiles({w}) : g \in AddLiveFiles({current}) \/ \E x \in added : g = x[2]
    BY <1>4, <1>5, EditedFiles
  <2> HIDE DEF w
  <2>2. v = w
    BY <1>2 DEF w
  <2>3. \A g \in AddLiveFiles({current}) : g \in DOMAIN table
    BY <1>4, OnDisk
  <2> QED  BY <1>5, <1>6, <2>1, <2>2, <2>3
<1>9. /\ \A f \in DOMAIN table' : f \in DOMAIN table /\ table'[f] = table[f]
      /\ \A f \in DOMAIN table : f \in AddLiveFiles({v}) => f \in DOMAIN table'
      /\ reader.kind # "none" =>
           \A f \in DOMAIN table : f \in AddLiveFiles({reader.version}) => f \in DOMAIN table'
  BY <1>3, Kept
<1>10. \A f \in DOMAIN table' : FileOK(f)' /\ f < nextFile'
  BY <1>3, <1>4, <1>9, FileStays DEF DiskOK
<1>11. DiskOK'
  BY <1>3, <1>10 DEF DiskOK
<1>12. CurrentOK'
  <2>1. \A g \in AddLiveFiles({v}) : FileOK(g)'
    BY <1>8, <1>9, <1>10
  <2>2. compact_pointer' \in [Levels -> 0..LastSequence']
    BY <1>3, <1>4, SamePointers DEF CurrentOK
  <2> QED  BY <1>3, <1>7, <2>1, <2>2, NewCurrent
<1>13. ReaderOK'
  <2>1. reader.kind # "none" => Stays(AddLiveFiles({reader.version}))
    <3> SUFFICES ASSUME reader.kind # "none" PROVE Stays(AddLiveFiles({reader.version}))
      OBVIOUS
    <3>1. \A g \in AddLiveFiles({reader.version}) : g \in DOMAIN table
      BY OnDisk DEF ReaderOK
    <3> QED  BY <1>9, <3>1 DEF Stays
  <2> QED  BY <1>3, <1>4, <2>1, SameReader
<1>14. CallerOK'
  BY <1>1, <1>3, <1>4, ManualPartKeeps
<1>15. JobOK'
  <2>1. bg' \in {"none", "scheduled", "crashed"} /\ bgError' \in BOOLEAN
    BY <1>3, Scheduling DEF JobOK
  <2> QED  BY <1>3, <2>1 DEF JobOK
<1>16. EntriesOK' /\ SnapshotsOK'
  BY <1>3, <1>4, SameEntries, SameSnapshots
<1> QED  BY <1>11, <1>12, <1>13, <1>14, <1>15, <1>16

LEMMA ErrorKeeps ==
  ASSUME StoreInv, BackgroundError \/ NestedError
  PROVE  StoreInv'
<1> USE DEF StoreInv
<1>1. /\ UNCHANGED <<hist, mem, imm, table, current, seekFile, allowedSeeks, compact_pointer, nextFile,
                     snapshots, reader>>
      /\ bgError' = TRUE
  BY DEF BackgroundError, NestedError, storage, users
<1>2. JobOK'
  <2>1. CASE BackgroundError
    <3>1. bg' = "none" /\ job' = NoJob
      BY <2>1 DEF BackgroundError
    <3> QED  BY <1>1, <3>1 DEF JobOK
  <2>2. CASE NestedError
    <3>1. UNCHANGED <<bg, job>> /\ bgError' \in BOOLEAN
      BY <1>1, <2>2 DEF NestedError
    <3>2. HistOK /\ HistGrows
      BY <1>1, SameHist DEF EntriesOK
    <3>3. job # NoJob => Stays(AddLiveFiles({job.version})) /\ Stays(Pending(job))
      BY <1>1, SameTables DEF JobOK, CompactionOK
    <3> QED  BY <3>1, <3>2, <3>3, SameJob
  <2> QED  BY <2>1, <2>2
<1>3. CallerOK'
  <2>1. \/ UNCHANGED <<manual, caller>>
        \/ ManualPart(manual, Choice, TRUE)
        \/ ManualPart(job.manual, job, TRUE)
    BY DEF BackgroundError, NestedError, users
  <2>2. HistOK
    BY DEF EntriesOK
  <2> QED  BY <2>1, <2>2, SameCaller, ManualPartKeeps
<1> QED  BY <1>1, <1>2, <1>3, QuietStep

-----------------------------------------------------------------------------
(* The invariant and the theorems.                                         *)

LEMMA StoreInit ==
  ASSUME Init
  PROVE  StoreInv
<1>1. EntriesOK
  BY DEF Init, EntriesOK, HistOK
<1>2. DiskOK
  BY DEF Init, DiskOK
<1>3. CurrentOK
  <2>1. current = [m \in Levels |-> {}] /\ FilesOK({})
    BY FS_EmptySet DEF Init, NoVersion, FilesOK
  <2>2. VersionOK(current)
    BY <2>1 DEF VersionOK
  <2>3. AddLiveFiles({current}) = {}
    BY <2>1 DEF AddLiveFiles
  <2>4. DOMAIN allowedSeeks = {}
    BY DEF Init
  <2>5. compact_pointer \in [Levels -> 0..LastSequence]
    <3>1. hist = <<>> /\ Len(hist) = 0
      BY DEF Init
    <3> QED  BY <3>1 DEF Init, None, LastSequence
  <2> QED  BY <2>2, <2>3, <2>4, <2>5 DEF Init, CurrentOK, SeekOK
<1>4. JobOK
  BY DEF Init, JobOK
<1>5. ReaderOK
  BY DEF Init, ReaderOK, NoReader
<1>6. CallerOK
  BY DEF Init, CallerOK, Idle
<1>7. SnapshotsOK
  BY DEF Init, SnapshotsOK
<1> QED  BY <1>1, <1>2, <1>3, <1>4, <1>5, <1>6, <1>7 DEF StoreInv

LEMMA StoreStep ==
  ASSUME StoreInv, [Next]_vars
  PROVE  StoreInv'
<1>1. CASE Background
  <2>1. CASE BackgroundCompaction
    <3>1. NothingToDo(Choice) \/ TrivialMove(Choice) \/ DoCompactionWork(Choice)
      BY <2>1 DEF BackgroundCompaction
    <3>2. bg = "scheduled"
      BY <2>1 DEF BackgroundCompaction
    <3> QED  BY <3>1, <3>2, NothingToDoKeeps, TrivialMoveKeeps, StartWorkKeeps
  <2> QED  BY <1>1, <2>1, FlushKeeps, WriteOutputsKeeps, InstallKeeps DEF Background
<1>2. CASE UNCHANGED vars
  <2>1. UNCHANGED <<hist, mem, imm, table, current, seekFile, allowedSeeks, compact_pointer, nextFile,
                    bg, job, bgError, snapshots, reader, caller, manual>>
    BY <1>2 DEF vars, storage, background, users
  <2> QED  BY <2>1, QuietStep DEF StoreInv
<1>3. CASE Next
  <2>1. ASSUME NEW k \in Keys, NEW del \in Deletions, Write(k, del) PROVE StoreInv'
    BY <2>1, WriteKeeps
  <2>2. CASE SwitchFull
    BY <2>2, SwitchFullKeeps
  <2>3. CASE BackgroundError \/ NestedError
    BY <2>3, ErrorKeeps
  <2>4. CASE GetSnapshot \/ \E i \in DOMAIN snapshots : ReleaseSnapshot(i)
    BY <2>4, SnapshotKeeps
  <2>5. ASSUME NEW kind \in {"get", "iterator"}, StartRead(kind) PROVE StoreInv'
    BY <2>5, StartReadKeeps
  <2>6. ASSUME NEW k \in Keys, FinishGet(k) PROVE StoreInv'
    BY <2>6, FinishGetKeeps
  <2>7. ASSUME NEW e \in DOMAIN hist, RecordReadSample(e) PROVE StoreInv'
    BY <2>7, ReadSampleKeeps
  <2>8. CASE DeleteIterator
    BY <2>8, DeleteIteratorKeeps
  <2>9. ASSUME NEW range \in ManualRanges, CompactRange(range) PROVE StoreInv'
    BY <2>9, CompactRangeKeeps
  <2>10. CASE Caller
    BY <2>10, CallerKeeps
  <2> QED
    BY <1>1, <1>3, <2>1, <2>2, <2>3, <2>4, <2>5, <2>6, <2>7, <2>8, <2>9, <2>10 DEF Next
<1> QED  BY <1>2, <1>3

\* What holds with StoreInv
LEMMA StoreConsequences ==
  ASSUME StoreInv
  PROVE  TypeOK /\ NeededFilesExist
<1> USE DEF StoreInv
<1>1. AddLiveFiles({current}) \in SUBSET DOMAIN table
  BY OnDisk DEF CurrentOK
<1>2. job # NoJob => AddLiveFiles({job.version}) \in SUBSET DOMAIN table /\ Pending(job) \in SUBSET DOMAIN table
  BY OnDisk DEF JobOK, CompactionOK
<1>3. reader.kind # "none" => AddLiveFiles({reader.version}) \in SUBSET DOMAIN table
  BY OnDisk DEF ReaderOK
<1>4. NeededFilesExist
  <2>1. job = NoJob => Pending(job) = {}
    BY DEF Pending
  <2>2. \A f \in AddLiveFiles(LiveVersions(current, job)) :
          \/ f \in AddLiveFiles({current})
          \/ reader.kind # "none" /\ f \in AddLiveFiles({reader.version})
          \/ job # NoJob /\ f \in AddLiveFiles({job.version})
    BY DEF LiveVersions, AddLiveFiles
  <2> QED  BY <1>1, <1>2, <1>3, <2>1, <2>2 DEF NeededFilesExist
<1>5. hist \in Seq([key : Keys, del : BOOLEAN])
  BY DEF EntriesOK, HistOK, EntrySet
<1>6. mem \subseteq 1..LastSequence /\ (imm = <<>> \/ imm[1] \subseteq 1..LastSequence)
  <2>1. Numbers = 1..LastSequence
    BY DEF Numbers, LastSequence
  <2>2. mem \in SUBSET Numbers /\ (imm = <<>> \/ imm[1] \in SUBSET Numbers)
    BY DEF EntriesOK
  <2> QED  BY <2>1, <2>2
<1>7. \A f \in DOMAIN table : f < nextFile /\ Entries(f) \in (SUBSET (1..LastSequence)) \ {{}}
  BY DEF DiskOK, FileOK, Numbers, LastSequence
<1>8. /\ \A l \in Levels : current[l] \subseteq DOMAIN allowedSeeks
      /\ compact_pointer \in [Levels -> 0..LastSequence]
  BY LiveFiles DEF CurrentOK
<1>9. seekFile = NoFile \/ seekFile[1] + 1 \in Levels
  BY SMTT(30), VersionAssumption DEF CurrentOK, SeekOK, Levels
<1>10. /\ bg \in {"none", "scheduled", "merge", "written", "crashed"}
       /\ bg \in {"merge", "written"} <=> job # NoJob
       /\ bgError \in BOOLEAN
  BY DEF JobOK
<1>11. /\ manual \in BOOLEAN /\ snapshots \in Seq(0..LastSequence)
       /\ reader.kind \in {"none", "get", "iterator"}
       /\ caller.pc \in {"idle", "flush", "flushing", "level"}
  BY DEF CallerOK, SnapshotsOK, ReaderOK, Callers, Idle
<1>12. TypeOK
  BY <1>5, <1>6, <1>7, <1>8, <1>9, <1>10, <1>11 DEF TypeOK
<1> QED  BY <1>4, <1>12

\* The inductive invariant holds, for any instance.
THEOREM StoreIsSound == Spec => []StoreInv
<1>1. Init => StoreInv
  BY StoreInit
<1>2. StoreInv /\ [Next]_vars => StoreInv'
  BY StoreStep
<1> QED  BY <1>1, <1>2, PTL DEF Spec

\* TypeOK of DBStore: tables hold entries that were written, under numbers that
\* were given out, every file of the current version has its allowed_seeks, and a
\* compaction exists exactly while DoCompactionWork runs.
THEOREM StoreTypes == Spec => []TypeOK
<1>1. StoreInv => TypeOK
  BY StoreConsequences
<1> QED  BY <1>1, StoreIsSound, PTL

\* DeleteObsoleteFiles: no table that the current version, a reader without the
\* mutex, a running compaction or one of its outputs needs is deleted.
THEOREM NeededFilesStay == Spec => []NeededFilesExist
<1>1. StoreInv => NeededFilesExist
  BY StoreConsequences
<1> QED  BY <1>1, StoreIsSound, PTL
=============================================================================
