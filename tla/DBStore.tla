------------------------------ MODULE DBStore ------------------------------
(***************************************************************************)
(* leveldb as a store: memtables, table files in levels, the background    *)
(* thread that flushes and compacts them, CompactRange, snapshots, and     *)
(* readers that work without the mutex on what they referenced at their    *)
(* start (db/db_impl.cc).  How writers share the log is DBWrite's subject: *)
(* here a write is one step.                                               *)
(*                                                                         *)
(* Only the background thread changes versions, so a flush (CompactMem-    *)
(* Table) and an installation (LogAndApply) are one step each although     *)
(* they release the mutex; a compaction takes several, because a memtable  *)
(* may be flushed in the middle of it.                                     *)
(***************************************************************************)
EXTENDS VersionSet

CONSTANTS
  write_buffer_size,      \* entries a memtable holds before it is full
  kL0_StopWritesTrigger,  \* config::kL0_StopWritesTrigger
  AllowedSeeks,           \* FileMetaData::allowed_seeks of a new file
  Deletions,              \* the kinds of writes: TRUE for a Delete, FALSE for a Put
  ManualRanges,           \* the ranges <<begin, end>> of CompactRange calls
  Budgets                 \* bounds: how many writes, snapshots, reads, manual
                          \* compactions and errors a behaviour may have

ASSUME StoreAssumption ==
  /\ {write_buffer_size, kL0_StopWritesTrigger, AllowedSeeks} \subseteq Nat
  /\ Deletions \subseteq BOOLEAN
  /\ ManualRanges \subseteq (Keys \cup {NULL}) \X (Keys \cup {NULL})
  /\ Budgets \subseteq [writes : Nat, snapshots : Nat, reads : Nat, manuals : Nat, errors : Nat]

VARIABLES
  mem,              \* mem_: the set of its entries
  imm,              \* imm_: <<>> for NULL, else <<its entries>>
  current,          \* versions_->current()
  seekFile,         \* its file_to_compact_ and file_to_compact_level_
  allowedSeeks,     \* FileMetaData::allowed_seeks by file number
  compact_pointer,  \* the entry where the next compaction of a level starts
  nextFile,         \* next_file_number_
  bg,               \* the background thread: "none" (nothing is scheduled),
                    \* "scheduled", "merge" or "written" (in DoCompactionWork),
                    \* "crashed"
  job,              \* its compaction, with the outputs of CompactionState
  bgError,          \* bg_error_ is set
  snapshots,        \* snapshots_: sequence numbers, oldest first
  reader,           \* what a Get or an iterator holds
  caller,           \* CompactRange: where it is and its ManualCompaction
  manual,           \* manual_compaction_ # NULL
  left              \* what is left of the behaviour's budget

storage == <<table, current, seekFile, allowedSeeks, compact_pointer, nextFile>>
background == <<bg, job, bgError>>
users == <<snapshots, reader, caller, manual>>
vars == <<hist, mem, imm, storage, background, users, left>>

LastSequence == Len(hist)
Spend(what) == left[what] > 0 /\ left' = [left EXCEPT ![what] = @ - 1]
ImmEntries == IF imm = <<>> THEN {} ELSE imm[1]

NoReader == [kind |-> "none"]
NoJob == [level |-> -1]
Idle == [pc |-> "idle"]

\* There is work: imm_, a manual compaction, or NeedsCompaction.
HasWork == imm # <<>> \/ manual \/ SizeCompaction(current) \/ seekFile # NoFile

\* MaybeScheduleCompaction, after the other changes of a step
MaybeScheduleCompaction ==
  bg' = IF bg = "none" /\ ~bgError /\ HasWork' THEN "scheduled" ELSE bg

-----------------------------------------------------------------------------
(* Writes.                                                                 *)

MemTableFull == Cardinality(mem) >= write_buffer_size

\* A write of one key, once MakeRoomForWrite has found room
Write(k, del) ==
  /\ ~bgError
  /\ ~MemTableFull
  /\ Spend("writes")
  /\ hist' = Append(hist, [key |-> k, del |-> del])
  /\ mem' = mem \cup {LastSequence + 1}
  /\ UNCHANGED <<imm, storage, background, users>>

\* MakeRoomForWrite's last branch
SwitchMemTable ==
  /\ ~bgError
  /\ imm = <<>>
  /\ Cardinality(current[0]) < kL0_StopWritesTrigger
  /\ imm' = <<mem>>
  /\ mem' = {}

\* A writer finds the memtable full.
SwitchFull ==
  /\ MemTableFull
  /\ SwitchMemTable
  /\ UNCHANGED <<hist, storage, job, bgError, users, left>>
  /\ MaybeScheduleCompaction

-----------------------------------------------------------------------------
(* Versions and files.                                                     *)

\* The versions that somebody references
LiveVersions(now, compaction) ==
  {now} \cup (IF reader.kind = "none" THEN {} ELSE {reader.version})
        \cup (IF compaction = NoJob THEN {} ELSE {compaction.version})

\* Mutant: the tables of the current version only are kept.
DeleteAllButCurrent(disk, now, compaction, pending) ==
  LET live == AddLiveFiles({now}) \cup pending
  IN table' = IF bgError THEN disk ELSE [f \in DOMAIN disk \cap live |-> disk[f]]

\* DeleteObsoleteFiles, with the version, the compaction and the
\* pending_outputs_ it finds, of the files that are on disk
DeleteObsoleteFiles(disk, now, compaction, pending) ==
  LET live == AddLiveFiles(LiveVersions(now, compaction)) \cup pending
  IN table' = IF bgError THEN disk ELSE [f \in DOMAIN disk \cap live |-> disk[f]]

\* Mutant: the files that stay lose their allowed_seeks.
InstallAlone(v, added) ==
  /\ current' = v
  /\ seekFile' = NoFile
  /\ allowedSeeks' = [f \in added |-> AllowedSeeks]

\* VersionSet::LogAndApply installs version v: AppendVersion makes it current,
\* with no file to compact; the Builder gives the files of the edit their seeks
Install(v, added) ==
  /\ current' = v
  /\ seekFile' = NoFile
  /\ allowedSeeks' = [f \in AddLiveFiles({v}) |->
                        IF f \in added THEN AllowedSeeks ELSE allowedSeeks[f]]

\* The outputs a running compaction has in pending_outputs_
Pending(c) == IF c = NoJob THEN {} ELSE {c.outputs[i] : i \in DOMAIN c.outputs}

\* CompactMemTable with WriteLevel0Table and BuildTable: imm_ becomes a file,
\* unless it is empty, in the level that PickLevelForMemTableOutput says
CompactMemTable ==
  LET f == nextFile
      disk == IF imm[1] = {} THEN table ELSE [x \in DOMAIN table \cup {f} |->
                                                IF x = f THEN TableOf(imm[1]) ELSE table[x]]
      keys == {Key(e) : e \in imm[1]}
      level == PickLevelForMemTableOutput(current, Min(keys), Max(keys))
      v == IF imm[1] = {} THEN current ELSE Applied(current, {}, {<<level, f>>})
  IN /\ imm # <<>>
     /\ Install(v, {f})
     /\ DeleteObsoleteFiles(disk, v, job, Pending(job))
     /\ imm' = <<>>
     /\ nextFile' = nextFile + 1
     /\ UNCHANGED compact_pointer

-----------------------------------------------------------------------------
(* The background thread.                                                  *)

\* Mutant: nothing is scheduled for what came up meanwhile.
BackgroundEnds == bg' = "none"

\* The end of BackgroundCall: schedule again if there is more to do
BackgroundDone == bg' = IF ~bgError /\ HasWork' THEN "scheduled" ELSE "none"

\* BackgroundCompaction with a memtable to flush
BackgroundFlush ==
  /\ bg = "scheduled" /\ ~bgError
  /\ CompactMemTable
  /\ UNCHANGED <<hist, mem, job, bgError, users, left>>
  /\ BackgroundDone

\* BackgroundCompaction's choice: a part of the manual compaction, or what
\* PickCompaction says
ManualInputs == CompactRangeInputs(current, caller.level, caller.begin, caller.end)
Choice ==
  IF manual
  THEN IF ManualInputs = {} THEN NoCompaction ELSE SetupOtherInputs(current, caller.level, ManualInputs)
  ELSE PickCompaction(current, compact_pointer, seekFile)

\* The last input of a level: in level 0 others may reach further
LastInput(F) == BySmallestKey(F)[Cardinality(F)]

\* The end of BackgroundCompaction: a manual compaction that is not done goes on
\* where this part of it stopped.  One that was requested meanwhile still waits.
ManualPart(is_manual, c, failed) ==
  IF is_manual /\ manual
  THEN /\ manual' = FALSE
       /\ caller' = IF c = NoCompaction \/ failed THEN [caller EXCEPT !.done = TRUE]
                    ELSE [caller EXCEPT !.begin = Key(Largest(LastInput(c.in0)))]
  ELSE UNCHANGED <<manual, caller>>

\* Nothing to compact
NothingToDo(c) ==
  /\ c = NoCompaction
  /\ ManualPart(manual, NoCompaction, FALSE)
  /\ UNCHANGED <<hist, mem, imm, storage, job, bgError, snapshots, reader, left>>
  /\ BackgroundDone

\* A file without overlap moves to the next level.
TrivialMove(c) ==
  /\ ~manual /\ c # NoCompaction
  /\ IsTrivialMove(c)
  /\ LET f == CHOOSE f \in c.in0 : TRUE
         v == Applied(current, {<<c.level, f>>}, {<<c.level + 1, f>>})
     IN /\ Install(v, {f})
        /\ compact_pointer' = [compact_pointer EXCEPT ![c.level] = c.pointer]
  /\ UNCHANGED <<hist, mem, imm, table, nextFile, job, bgError, users, left>>
  /\ BackgroundDone

\* DoCompactionWork starts: it fixes smallest_snapshot and releases the mutex.
DoCompactionWork(c) ==
  /\ c # NoCompaction
  /\ manual \/ ~IsTrivialMove(c)
  /\ bg' = "merge"
  /\ job' = [c EXCEPT !.manual = manual,
                      !.smallest_snapshot = IF snapshots = <<>> THEN LastSequence ELSE snapshots[1]]
  /\ compact_pointer' = [compact_pointer EXCEPT ![c.level] = c.pointer]
  /\ UNCHANGED <<hist, mem, imm, table, current, seekFile, allowedSeeks, nextFile, bgError, users, left>>

BackgroundCompaction ==
  /\ bg = "scheduled" /\ ~bgError
  /\ imm = <<>>
  /\ \E c \in {Choice} : NothingToDo(c) \/ TrivialMove(c) \/ DoCompactionWork(c)

\* The entries the merging iterator yields, in its order
InputEntries(c) ==
  LET E == UNION {Entries(f) : f \in c.in0 \cup c.in1}
  IN [i \in 1..Cardinality(E) |-> CHOOSE e \in E : Cardinality({x \in E : ILess(x, e)}) = i - 1]

\* Mutant: an entry goes as soon as there is a newer one, whatever snapshots
\* there are.
DroppedUnseen(c, input, i) ==
  \/ i > 1 /\ Key(input[i - 1]) = Key(input[i])
  \/ hist[input[i]].del /\ IsBaseLevelForKey(c, Key(input[i]))

\* An entry is dropped when a newer entry of its key is visible to the oldest
\* snapshot, or when it is a deletion that hides nothing.
Dropped(c, input, i) ==
  \/ i > 1 /\ Key(input[i - 1]) = Key(input[i]) /\ input[i - 1] <= c.smallest_snapshot
  \/ /\ hist[input[i]].del
     /\ input[i] <= c.smallest_snapshot
     /\ IsBaseLevelForKey(c, Key(input[i]))

\* Compaction::ShouldStopBefore, along the input: the index of the first
\* grandparent not passed, and the overlap since the last stop
ShouldStop(c, input) ==
  LET grand == BySmallestKey(c.grandparents)
      Passed(i) == {g \in DOMAIN grand : ILess(Largest(grand[g]), input[i])}
      overlap[i \in 0..Len(input)] ==
        IF i <= 1 THEN 0
        ELSE (IF overlap[i - 1] > GrandParentLimit THEN 0 ELSE overlap[i - 1])
             + TotalFileSize({grand[g] : g \in Passed(i) \ Passed(i - 1)})
  IN {i \in DOMAIN input : overlap[i] > GrandParentLimit}

\* The loop of DoCompactionWork: the output files, each a set of entries; the
\* last one is open, and exists once it has an entry
CompactionOutputs(c) ==
  LET input == InputEntries(c)
      stops == ShouldStop(c, input)
      out[i \in 0..Len(input)] ==
        IF i = 0 THEN <<{}>>
        ELSE LET sofar == out[i - 1]
                 last == sofar[Len(sofar)]
                 open == IF i \in stops /\ last # {} THEN Append(sofar, {}) ELSE sofar
                 grown == [open EXCEPT ![Len(open)] = @ \cup {input[i]}]
             IN IF Dropped(c, input, i) THEN open
                ELSE IF Cardinality(grown[Len(grown)]) >= MaxFileSize THEN Append(grown, {})
                ELSE grown
      all == out[Len(input)]
  IN IF all[Len(all)] = {} THEN SubSeq(all, 1, Len(all) - 1) ELSE all

\* OpenCompactionOutputFile, FinishCompactionOutputFile: the outputs get file
\* numbers and are written; none of them is in a version yet.
WriteOutputs ==
  /\ bg = "merge"
  /\ LET outs == CompactionOutputs(job)
         new == nextFile..(nextFile + Len(outs) - 1)
     IN /\ table' = [f \in DOMAIN table \cup new |->
                       IF f \in new THEN TableOf(outs[f - nextFile + 1]) ELSE table[f]]
        /\ job' = [job EXCEPT !.outputs = [i \in DOMAIN outs |-> nextFile + i - 1]]
        /\ nextFile' = nextFile + Len(outs)
  /\ bg' = "written"
  /\ UNCHANGED <<hist, mem, imm, current, seekFile, allowedSeeks, compact_pointer, bgError, users, left>>

\* DoCompactionWork finds imm_ set before one of its keys ...
FindsImm ==
  /\ bg \in {"merge", "written"}
  /\ bg = "written" => Len(InputEntries(job)) > 1
  /\ imm # <<>>

NestedCompactMemTable ==
  /\ FindsImm
  /\ CompactMemTable
  /\ UNCHANGED <<hist, mem, background, users, left>>

\* ... and goes on when that fails.
NestedError ==
  /\ FindsImm
  /\ Spend("errors")
  /\ bgError' = TRUE
  /\ UNCHANGED <<hist, mem, imm, storage, bg, job, users>>

\* InstallCompactionResults, CleanupCompaction, DeleteObsoleteFiles.  The end
\* of BackgroundCompaction reads manual_compaction_ again, without looking
\* whether CompactRange has taken it back.
InstallCompactionResults ==
  /\ bg = "written"
  /\ LET v == Applied(current, AddInputDeletions(job),
                      {<<job.level + 1, f>> : f \in Pending(job)})
     IN /\ Install(v, Pending(job))
        /\ DeleteObsoleteFiles(table, v, NoJob, {})
  /\ ManualPart(job.manual, job, FALSE)
  /\ job' = NoJob
  /\ UNCHANGED <<hist, mem, imm, compact_pointer, nextFile, bgError, snapshots, reader, left>>
  /\ IF job.manual /\ ~manual THEN bg' = "crashed" ELSE BackgroundDone

\* A table or the descriptor cannot be written: RecordBackgroundError.  No
\* file is deleted from then on and nothing more is scheduled.
BackgroundError ==
  /\ bg \in {"scheduled", "merge", "written"} /\ ~bgError
  /\ bg = "scheduled" => imm # <<>> \/ Choice # NoCompaction
  /\ Spend("errors")
  /\ bgError' = TRUE
  /\ bg' = "none"
  /\ job' = NoJob
  /\ IF imm # <<>> /\ bg = "scheduled" THEN UNCHANGED <<manual, caller>>
     ELSE IF job = NoJob THEN ManualPart(manual, Choice, TRUE)
     ELSE ManualPart(job.manual, job, TRUE)
  /\ UNCHANGED <<hist, mem, imm, storage, snapshots, reader>>

-----------------------------------------------------------------------------
(* Snapshots and readers.                                                  *)

GetSnapshot ==
  /\ Spend("snapshots")
  /\ snapshots' = Append(snapshots, LastSequence)
  /\ UNCHANGED <<hist, mem, imm, storage, background, reader, caller, manual>>

ReleaseSnapshot(i) ==
  /\ snapshots' = SubSeq(snapshots, 1, i - 1) \o SubSeq(snapshots, i + 1, Len(snapshots))
  /\ UNCHANGED <<hist, mem, imm, storage, background, reader, caller, manual, left>>

\* The sequence numbers a read may use: the last, or a snapshot's
ReadPoints == {LastSequence} \cup {snapshots[i] : i \in DOMAIN snapshots}

\* Get and NewIterator (NewInternalIterator): reference the memtables and the
\* version.  Entries inserted later have larger sequence numbers.
StartRead(kind) ==
  /\ reader = NoReader
  /\ Spend("reads")
  /\ \E s \in ReadPoints :
       reader' = [kind |-> kind, seq |-> s, mem |-> mem, imm |-> ImmEntries, version |-> current]
  /\ UNCHANGED <<hist, mem, imm, storage, background, snapshots, caller, manual>>

\* DBImpl::Get: the memtable, the immutable one, then the version
Lookup(m, i, v, k, s) ==
  IF Seek(m, k, s) # None THEN Seek(m, k, s)
  ELSE IF Seek(i, k, s) # None THEN Seek(i, k, s)
  ELSE VersionGet(v, k, s)

\* Version::UpdateStats for version v; only the current one is ever compacted.
\* A file that moved to another level has a FileMetaData of its own there.
\* allowed_seeks is only compared with 0 and counts no further down here.
UpdateStats(v, stats) ==
  LET f == stats[2]
      charged == stats # NoFile /\ f \in current[stats[1]]
  IN /\ allowedSeeks' = IF charged /\ allowedSeeks[f] > 0
                        THEN [allowedSeeks EXCEPT ![f] = @ - 1] ELSE allowedSeeks
     /\ seekFile' = IF charged /\ allowedSeeks'[f] = 0 /\ v = current /\ seekFile = NoFile
                    THEN stats ELSE seekFile

\* All that the reader's memtables and files hold
ReaderEntries ==
  reader.mem \cup reader.imm \cup UNION {Entries(f) : f \in AddLiveFiles({reader.version})}

\* Get returns; the version it read in vain is charged.
FinishGet(k) ==
  /\ reader.kind = "get"
  /\ UpdateStats(reader.version,
       IF Seek(reader.mem, k, reader.seq) # None \/ Seek(reader.imm, k, reader.seq) # None
       THEN NoFile ELSE GetStats(reader.version, k, reader.seq))
  /\ reader' = NoReader
  /\ UNCHANGED <<hist, mem, imm, table, current, compact_pointer, nextFile, job, bgError, snapshots, caller, manual, left>>
  /\ MaybeScheduleCompaction

\* RecordReadSample: an iterator samples an entry e that it passes.
RecordReadSample(e) ==
  /\ reader.kind = "iterator"
  /\ e \in ReaderEntries
  /\ UpdateStats(current, SampleStats(current, Key(e), e))
  /\ UNCHANGED <<hist, mem, imm, table, current, compact_pointer, nextFile, job, bgError, users, left>>
  /\ MaybeScheduleCompaction

\* CleanupIteratorState
DeleteIterator ==
  /\ reader.kind = "iterator"
  /\ reader' = NoReader
  /\ UNCHANGED <<hist, mem, imm, storage, background, snapshots, caller, manual, left>>

-----------------------------------------------------------------------------
(* CompactRange.                                                           *)

\* The levels to compact end at the last one with a file in the range.
CompactRange(range) ==
  /\ caller = Idle
  /\ Spend("manuals")
  /\ LET with == {1} \cup {l \in 1..(kNumLevels - 1) : OverlapInLevel(current, l, range[1], range[2])}
     IN caller' = [pc |-> "flush", level |-> 0, max |-> Max(with),
                   begin |-> range[1], end |-> range[2], range |-> range, done |-> FALSE]
  /\ UNCHANGED <<hist, mem, imm, storage, background, snapshots, reader, manual>>

\* TEST_CompactMemTable: a NULL batch makes MakeRoomForWrite switch ...
ForceSwitch ==
  /\ caller.pc = "flush"
  /\ \/ SwitchMemTable
     \/ bgError /\ UNCHANGED <<mem, imm>>
  /\ caller' = [caller EXCEPT !.pc = "flushing"]
  /\ UNCHANGED <<hist, storage, job, bgError, snapshots, reader, manual, left>>
  /\ MaybeScheduleCompaction

\* ... and the call waits for the flush.
Flushed ==
  /\ caller.pc = "flushing"
  /\ imm = <<>> \/ bgError
  /\ caller' = [caller EXCEPT !.pc = "level"]
  /\ UNCHANGED <<hist, mem, imm, storage, background, snapshots, reader, manual, left>>

\* TEST_CompactRange: request the rest of the level's range.
RequestCompaction ==
  /\ caller.pc = "level"
  /\ ~caller.done /\ ~bgError /\ ~manual
  /\ manual' = TRUE
  /\ UNCHANGED <<hist, mem, imm, storage, job, bgError, snapshots, reader, caller, left>>
  /\ MaybeScheduleCompaction

\* The level is done, or the call gives up.
LevelDone ==
  /\ caller.pc = "level"
  /\ caller.done \/ bgError
  /\ manual' = FALSE
  /\ caller' = IF caller.level + 1 < caller.max
               THEN [caller EXCEPT !.level = @ + 1, !.done = FALSE,
                                   !.begin = caller.range[1], !.end = caller.range[2]]
               ELSE Idle
  /\ UNCHANGED <<hist, mem, imm, storage, background, snapshots, reader, left>>

-----------------------------------------------------------------------------
Init ==
  /\ hist = <<>> /\ mem = {} /\ imm = <<>>
  /\ table = [f \in {} |-> {}] /\ current = NoVersion
  /\ seekFile = NoFile /\ allowedSeeks = [f \in {} |-> 0]
  /\ compact_pointer = [l \in Levels |-> None] /\ nextFile = 1
  /\ bg = "none" /\ job = NoJob /\ bgError = FALSE
  /\ snapshots = <<>> /\ reader = NoReader /\ caller = Idle /\ manual = FALSE
  /\ left \in Budgets

Background ==
  \/ BackgroundFlush
  \/ BackgroundCompaction
  \/ WriteOutputs
  \/ NestedCompactMemTable
  \/ InstallCompactionResults

Caller == ForceSwitch \/ Flushed \/ RequestCompaction \/ LevelDone

Next ==
  \/ \E k \in Keys, del \in Deletions : Write(k, del)
  \/ SwitchFull
  \/ Background
  \/ BackgroundError
  \/ NestedError
  \/ GetSnapshot
  \/ \E i \in DOMAIN snapshots : ReleaseSnapshot(i)
  \/ \E kind \in {"get", "iterator"} : StartRead(kind)
  \/ \E k \in Keys : FinishGet(k)
  \/ \E e \in DOMAIN hist : RecordReadSample(e)
  \/ DeleteIterator
  \/ \E range \in ManualRanges : CompactRange(range)
  \/ Caller

Spec == Init /\ [][Next]_vars

-----------------------------------------------------------------------------
(* Properties.                                                             *)

\* The type invariant: tables hold entries that were written, under numbers that
\* were given out, every file of the current version has its allowed_seeks, and
\* a compaction exists exactly while DoCompactionWork runs.
TypeOK ==
  /\ hist \in Seq([key : Keys, del : BOOLEAN])
  /\ mem \subseteq 1..LastSequence
  /\ imm = <<>> \/ imm[1] \subseteq 1..LastSequence
  /\ \A f \in DOMAIN table : f < nextFile /\ Entries(f) \in (SUBSET (1..LastSequence)) \ {{}}
  /\ \A l \in Levels : current[l] \subseteq DOMAIN allowedSeeks
  /\ seekFile = NoFile \/ seekFile[1] + 1 \in Levels
  /\ compact_pointer \in [Levels -> 0..LastSequence]
  /\ bg \in {"none", "scheduled", "merge", "written", "crashed"}
  /\ bg \in {"merge", "written"} <=> job # NoJob
  /\ bgError \in BOOLEAN /\ manual \in BOOLEAN
  /\ snapshots \in Seq(0..LastSequence)
  /\ reader.kind \in {"none", "get", "iterator"}
  /\ caller.pc \in {"idle", "flush", "flushing", "level"}

\* The value of an entry: a deletion or no entry is "not found"
ValueOf(e) == IF e = None \/ hist[e].del THEN None ELSE e

\* What a read by Get, and what an iterator's merge shows at sequence number s
GetView(m, i, v, s) == [k \in Keys |-> ValueOf(Lookup(m, i, v, k, s))]
IteratorView(m, i, v, s) ==
  LET E == m \cup i \cup UNION {Entries(f) : f \in AddLiveFiles({v})}
  IN [k \in Keys |-> ValueOf(Seek(E, k, s))]

\* The store that users are promised: the current state as Get reads it, the
\* snapshots as Get reads them, and what the reader under way reads.
KV == INSTANCE KVStore WITH
  NotFound <- None,
  writes <- LastSequence,
  store <- GetView(mem, ImmEntries, current, LastSequence),
  snapshots <- [i \in DOMAIN snapshots |-> GetView(mem, ImmEntries, current, snapshots[i])],
  reading <- CASE reader.kind = "none" -> <<>>
               [] reader.kind = "get" -> <<GetView(reader.mem, reader.imm, reader.version, reader.seq)>>
               [] reader.kind = "iterator" ->
                    <<IteratorView(reader.mem, reader.imm, reader.version, reader.seq)>>

\* Flushes, compactions, moves and deletions of files change nothing that a
\* Get, a snapshot or a reader in progress sees: the store implements KVStore.
ImplementsKVStore == KV!Spec

\* No entry of a key is above a newer one: what is found in a smaller level, in
\* a newer file of level 0 or in a memtable makes all below it irrelevant.
NewerAbove ==
  LET Newer(E, D) == \A e \in E, d \in D : Key(e) = Key(d) => e > d
      files == AddLiveFiles({current})
  IN /\ \A f \in files : Newer(mem \cup ImmEntries, Entries(f))
     /\ Newer(mem, ImmEntries)
     /\ \A f, g \in current[0] : f > g => Newer(Entries(f), Entries(g))
     /\ \A l, m \in Levels : l < m => \A f \in current[l], g \in current[m] : Newer(Entries(f), Entries(g))

\* The files of a level below 0 do not overlap: the assertion of MaybeAddFile.
LevelsDisjoint ==
  \A l \in Levels \ {0} : \A f, g \in current[l] :
    f # g => ILess(Largest(f), Smallest(g)) \/ ILess(Largest(g), Smallest(f))

\* No file that the current version, a reader, a running compaction or an output
\* not yet installed needs is deleted by DeleteObsoleteFiles.
NeededFilesExist ==
  AddLiveFiles(LiveVersions(current, job)) \cup Pending(job) \subseteq DOMAIN table

\* No wake-up is lost: while there is a memtable to flush, a manual compaction
\* that CompactRange waits for, a level over its limit or a file that was read in
\* vain too often, the background thread is scheduled or running, unless an error
\* has stopped all compactions.
WorkIsScheduled == bg = "none" => bgError \/ ~HasWork
=============================================================================
