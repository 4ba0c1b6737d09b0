------------------------------ MODULE DBWrite ------------------------------
(***************************************************************************)
(* The write path of leveldb's DBImpl: the queue of writers, group commit, *)
(* MakeRoomForWrite and the switch of log and memtable, the background     *)
(* thread that compacts memtables, and DB::Open after a crash.             *)
(*                                                                         *)
(* Threads call Write with a batch, or TEST_CompactMemTable, which calls   *)
(* Write with a NULL batch.  Code under mutex_ is atomic up to the next    *)
(* place where the mutex is released; `mutex' names the thread that keeps  *)
(* it from one action to the next.                                         *)
(*                                                                         *)
(* Data is abstracted as follows.  A batch is known by its call's number   *)
(* and writes BatchCount entries <<id, j>>.  A log is the sequence of its  *)
(* records, a record the batches of one group.  A table is the set of its  *)
(* entries; a compaction of tables only changes how many files level 0     *)
(* has.  All batches have the same size.                                   *)
(***************************************************************************)
EXTENDS Integers, Sequences, FiniteSets

CONSTANTS
  Threads,               \* the threads that use the database
  BatchCount,            \* WriteBatchInternal::Count of a batch
  MaxGroup,              \* batches that fit in max_size of BuildBatchGroup
  write_buffer_size,     \* entries a memtable holds before it is full
  L0_CompactionTrigger,  \* config::kL0_CompactionTrigger
  L0_SlowdownWritesTrigger, L0_StopWritesTrigger,
  Failures,              \* the operations of Env that may fail
  CrashKinds,            \* "process": nothing written is lost; "machine"
  MaxCalls,              \* bound: calls of Write and TEST_CompactMemTable
  MaxFailures,           \* bound: failures of Env
  MaxCrashes             \* bound: crashes

FailureKinds == {"append", "torn", "sync", "newfile", "build", "manifest"}

ASSUME DBWriteAssumption ==
  /\ "nobody" \notin Threads
  /\ BatchCount \in Nat \ {0} /\ MaxGroup \in Nat \ {0}
  /\ write_buffer_size \in Nat
  /\ L0_CompactionTrigger \in Nat \ {0} /\ L0_SlowdownWritesTrigger \in Nat
  /\ L0_StopWritesTrigger \in Nat /\ L0_CompactionTrigger <= L0_StopWritesTrigger
  /\ Failures \subseteq FailureKinds
  /\ CrashKinds \subseteq {"process", "machine"}
  /\ MaxCalls \in Nat /\ MaxFailures \in Nat /\ MaxCrashes \in Nat

VARIABLES
  \* --- the threads: where each one is, its call and its Writer
  pc, op, allow_delay, force, done, status,
  group,       \* the writers whose batches it logs, in BuildBatchGroup's order
  \* --- synchronisation
  mutex,       \* the thread that holds mutex_ between two actions, if any
  writers_,
  sleeping,    \* threads blocked in w.cv.Wait()
  bgSleeping,  \* threads blocked in bg_cv_.Wait()
  \* --- DBImpl
  mem_, imm_, logfile_number_, bg_error_,
  bgpc,        \* the background thread; not "idle" iff bg_compaction_scheduled_
  nested,      \* CompactMemTable was called from DoCompactionWork
  inputs,      \* level-0 files that the compaction replaces
  edit,        \* the VersionEdit that LogAndApply writes
  \* --- VersionSet
  lastSequence, logNumber, tables, numLevel0,
  \* --- files
  logs,        \* number -> its records and how many of them were synced
  manifest,    \* what the descriptor says: log, tables, level0, sequence; and
               \* named: logs up to this one have a name that is on the disk
  open,        \* a process has the database open
  \* --- bounds and history
  calls, failures, crashes,
  request,     \* call -> sync, and the calls acknowledged when it began
  sequence,    \* call -> sequence number of its first entry, 0 before
  acked        \* batches whose Write returned OK and that no machine crash took

threadVars == <<pc, op, allow_delay, force, done, status, group>>
syncVars == <<mutex, writers_, sleeping, bgSleeping>>
bgVars == <<bgpc, nested, inputs, edit>>
memVars == <<mem_, imm_>>
versionVars == <<lastSequence, logNumber, tables, numLevel0>>
boundVars == <<calls, failures, crashes>>
historyVars == <<request, sequence, acked>>
vars == <<threadVars, syncVars, bgVars, memVars, logfile_number_, bg_error_,
          versionVars, logs, manifest, open, boundVars, historyVars>>

Nobody == "nobody"
NoImm == {<<0, 0>>}
NoEdit == [log |-> 0, tables |-> {}, added |-> 0, removed |-> 0, sequence |-> 0]
NoCall == [id |-> 0, sync |-> FALSE, batch |-> FALSE]
Calls == 1..MaxCalls

EntriesOf(ids) == {<<i, j>> : i \in ids, j \in 1..BatchCount}

Fails(kind) ==
  /\ kind \in Failures
  /\ failures < MaxFailures
  /\ failures' = failures + 1

-----------------------------------------------------------------------------
(* Scheduling the background thread.                                       *)

\* MaybeScheduleCompaction: what the background thread's state becomes.
Scheduled(bg, error, imm, level0) ==
  IF bg # "idle" \/ error \/ (imm = NoImm /\ level0 < L0_CompactionTrigger)
    THEN bg ELSE "scheduled"

\* The end of BackgroundCall.
EndBackgroundCall(error, imm, level0) ==
  /\ bgpc' = Scheduled("idle", error, imm, level0)
  /\ bgSleeping' = {}

\* RecordBackgroundError.
RecordBackgroundError ==
  /\ bg_error_' = TRUE
  /\ bgSleeping' = IF bg_error_ THEN bgSleeping ELSE {}

\* Mutant: every log but the current one is taken to be obsolete.
KeptLogsCurrentOnly(min) == [n \in {m \in DOMAIN logs : m >= logfile_number_} |-> logs[n]]

\* DeleteObsoleteFiles, for the logs: min is versions_->LogNumber().
KeptLogs(min) == [n \in {m \in DOMAIN logs : m >= min} |-> logs[n]]

-----------------------------------------------------------------------------
(* Write and TEST_CompactMemTable: the calls.                              *)

\* The call begins: it takes the mutex and joins the queue of writers.  The
\* first writer keeps the mutex and goes on, the others wait.
Enter(t, sync, batch, first) ==
  /\ open /\ mutex = Nobody /\ pc[t] = "idle" /\ calls < MaxCalls
  /\ calls' = calls + 1
  /\ op' = [op EXCEPT ![t] = [id |-> calls + 1, sync |-> sync, batch |-> batch]]
  /\ request' = [request EXCEPT ![calls + 1] = [sync |-> sync, seen |-> acked]]
  /\ allow_delay' = [allow_delay EXCEPT ![t] = batch]
  /\ force' = [force EXCEPT ![t] = ~batch]
  /\ done' = [done EXCEPT ![t] = FALSE]
  /\ writers_' = Append(writers_, t)
  /\ \/ /\ first
        /\ pc' = [pc EXCEPT ![t] = "room"]
        /\ mutex' = t
        /\ UNCHANGED sleeping
     \/ /\ ~first
        /\ pc' = [pc EXCEPT ![t] = "waiting"]
        /\ sleeping' = sleeping \cup {t}
        /\ UNCHANGED mutex
  /\ UNCHANGED <<status, group, bgSleeping, bgVars, memVars,
                 logfile_number_, bg_error_, versionVars, logs, manifest, open,
                 failures, crashes, sequence, acked>>

\* Mutant: the writer does not wait for its turn.
WriteWithoutWaiting(t, sync, batch) == Enter(t, sync, batch, TRUE)

Write(t, sync, batch) == Enter(t, sync, batch, writers_ = <<>>)

\* A call that returns s: TEST_CompactMemTable goes on when it is OK.
Return(t, s) ==
  /\ pc' = [pc EXCEPT ![t] = IF op[t].batch \/ s = "error" THEN "idle" ELSE "immwait"]
  /\ acked' = IF op[t].batch /\ s = "ok" THEN acked \cup {op[t].id} ELSE acked

\* A writer was signalled: another thread wrote its batch, or it is its turn.
Wake(t) ==
  /\ mutex = Nobody /\ pc[t] = "waiting" /\ t \notin sleeping
  /\ \/ /\ done[t]
        /\ Return(t, status[t])
        /\ UNCHANGED mutex
     \/ /\ ~done[t]
        /\ t = Head(writers_)
        /\ pc' = [pc EXCEPT ![t] = "room"]
        /\ mutex' = t
        /\ UNCHANGED acked
  /\ UNCHANGED <<op, allow_delay, force, done, status, group, writers_,
                 sleeping, bgSleeping, bgVars, memVars, logfile_number_, bg_error_,
                 versionVars, logs, manifest, open, boundVars, request, sequence>>

\* Mutant: the new head of the queue is not notified.
NotifiedMembers(t, members) == {u \in members : u # t}

\* The writers that are signalled when t leaves the queue with its group.
Notified(t, members) ==
  LET rest == SubSeq(writers_, Cardinality(members) + 1, Len(writers_))
  IN  {u \in members : u # t} \cup (IF rest = <<>> THEN {} ELSE {Head(rest)})

\* The last part of Write, with the mutex: the group leaves the queue.
Finish(t, members, s) ==
  /\ writers_' = SubSeq(writers_, Cardinality(members) + 1, Len(writers_))
  /\ status' = [u \in Threads |-> IF u \in members THEN s ELSE status[u]]
  /\ done' = [u \in Threads |-> u \in members \ {t} \/ done[u]]
  /\ sleeping' = sleeping \ Notified(t, members)
  /\ mutex' = Nobody
  /\ Return(t, s)

-----------------------------------------------------------------------------
(* MakeRoomForWrite, one action per branch of its loop.                    *)

Room(t) == mutex = t /\ pc[t] = "room"

\* Its branches return with no batch written.
LeaveWithout(t, s) ==
  /\ Finish(t, {t}, s)
  /\ UNCHANGED <<op, allow_delay, force, group, bgSleeping, bgVars, memVars,
                 logfile_number_, bg_error_, versionVars, logs, manifest, open,
                 calls, crashes, request, sequence>>

RoomError(t) ==
  /\ Room(t) /\ bg_error_
  /\ LeaveWithout(t, "error")
  /\ UNCHANGED failures

Delaying(t) == allow_delay[t] /\ numLevel0 >= L0_SlowdownWritesTrigger
HasRoom(t) == ~force[t] /\ Cardinality(mem_) <= write_buffer_size
MustWait == imm_ # NoImm \/ numLevel0 >= L0_StopWritesTrigger

\* Only where a thread waits, or is, and who has the mutex changes.
OnlyThread ==
  UNCHANGED <<op, force, done, status, group, writers_, sleeping, bgVars,
              memVars, logfile_number_, bg_error_, versionVars, logs, manifest, open,
              boundVars, request, sequence>>

RoomDelay(t) ==
  /\ Room(t) /\ ~bg_error_ /\ Delaying(t)
  /\ pc' = [pc EXCEPT ![t] = "delay"]
  /\ mutex' = Nobody
  /\ UNCHANGED <<allow_delay, bgSleeping, acked>>
  /\ OnlyThread

DelayOver(t) ==
  /\ mutex = Nobody /\ pc[t] = "delay"
  /\ pc' = [pc EXCEPT ![t] = "room"]
  /\ mutex' = t
  /\ allow_delay' = [allow_delay EXCEPT ![t] = FALSE]
  /\ UNCHANGED <<bgSleeping, acked>>
  /\ OnlyThread

RoomWait(t) ==
  /\ Room(t) /\ ~bg_error_ /\ ~Delaying(t) /\ ~HasRoom(t) /\ MustWait
  /\ pc' = [pc EXCEPT ![t] = "bgwait"]
  /\ mutex' = Nobody
  /\ bgSleeping' = bgSleeping \cup {t}
  /\ UNCHANGED <<allow_delay, acked>>
  /\ OnlyThread

WaitOver(t) ==
  /\ mutex = Nobody /\ pc[t] = "bgwait" /\ t \notin bgSleeping
  /\ pc' = [pc EXCEPT ![t] = "room"]
  /\ mutex' = t
  /\ UNCHANGED <<allow_delay, bgSleeping, acked>>
  /\ OnlyThread

\* A new log, and a new memtable; the old log is closed, not synced.
RoomSwitch(t) ==
  /\ Room(t) /\ ~bg_error_ /\ ~Delaying(t) /\ ~HasRoom(t) /\ ~MustWait
  /\ \/ /\ logfile_number_' = logfile_number_ + 1
        /\ logs' = [n \in DOMAIN logs \cup {logfile_number_ + 1} |->
             IF n \in DOMAIN logs THEN logs[n] ELSE [records |-> <<>>, synced |-> 0]]
        /\ imm_' = mem_
        /\ mem_' = {}
        /\ force' = [force EXCEPT ![t] = FALSE]
        /\ bgpc' = Scheduled(bgpc, bg_error_, mem_, numLevel0)
        /\ UNCHANGED <<pc, op, allow_delay, done, status, group, syncVars,
                       nested, inputs, edit, bg_error_, versionVars, manifest, open,
                       boundVars, historyVars>>
     \/ /\ Fails("newfile")
        /\ LeaveWithout(t, "error")

-----------------------------------------------------------------------------
(* The group: BuildBatchGroup, the log and the memtable.                   *)

\* How many of the first n writers of g have a batch.
WithBatch(g, n) == Cardinality({k \in 1..n : op[g[k]].batch})

\* Mutant: a sync write may join the group of a write that does not sync.
JoinsAnyGroup(i) ==
  WithBatch(writers_, i) <= MaxGroup

\* The i-th writer may join the group of the first one.
Joins(i) ==
  /\ op[writers_[i]].sync => op[writers_[1]].sync
  /\ \/ ~op[writers_[i]].batch
     \/ WithBatch(writers_, i) <= MaxGroup

\* The longest run of writers, from the first on, that may join.
BuildBatchGroup ==
  LET n == CHOOSE n \in 1..Len(writers_) :
             /\ \A i \in 2..n : Joins(i)
             /\ n < Len(writers_) => ~Joins(n + 1)
  IN  SubSeq(writers_, 1, n)

\* Mutant: every batch of the group gets the same numbers.
SequenceOfGroup(k) == lastSequence + 1

\* Mutant: the group's first number is the last one given out.
SequenceAtLast(k) == lastSequence + (k - 1) * BatchCount

\* The sequence number of the first entry of the group's k-th batch.
SequenceOf(k) == lastSequence + 1 + (k - 1) * BatchCount

\* The number that the group g gives to the batch i, if it has it.
NumberedIn(g, i) ==
  LET at == {k \in DOMAIN g : op[g[k]].batch /\ op[g[k]].id = i}
  IN  IF at = {} THEN sequence[i] ELSE SequenceOf(WithBatch(g, CHOOSE k \in at : TRUE))

\* There is room: the group is built and the mutex released to log it.
RoomFound(t) ==
  /\ Room(t) /\ ~bg_error_ /\ ~Delaying(t) /\ HasRoom(t)
  /\ \/ /\ op[t].batch
        /\ group' = [group EXCEPT ![t] = BuildBatchGroup]
        /\ sequence' = [i \in Calls |-> NumberedIn(BuildBatchGroup, i)]
        /\ pc' = [pc EXCEPT ![t] = "append"]
        /\ mutex' = Nobody
        /\ UNCHANGED <<op, allow_delay, force, done, status, writers_,
                       sleeping, bgSleeping, bgVars, memVars, logfile_number_,
                       bg_error_, versionVars, logs, manifest, open, boundVars,
                       request, acked>>
     \/ /\ ~op[t].batch
        /\ LeaveWithout(t, "ok")
        /\ UNCHANGED failures

GroupIds(t) == {op[group[t][k]].id : k \in {k \in DOMAIN group[t] : op[group[t][k]].batch}}

\* What the steps without the mutex leave alone.
OnlyLogging ==
  UNCHANGED <<op, allow_delay, force, done, group, syncVars, bgVars, imm_,
              logfile_number_, bg_error_, versionVars, manifest, open, calls,
              crashes, historyVars>>

\* log_->AddRecord.  A failure may leave part of a record in the file.
Logged(ids, whole) ==
  [logs EXCEPT ![logfile_number_].records =
     Append(@, [ids |-> ids, whole |-> whole])]

AddRecord(t) ==
  /\ pc[t] = "append"
  /\ \/ /\ logs' = Logged(GroupIds(t), TRUE)
        /\ pc' = [pc EXCEPT ![t] = IF op[t].sync THEN "sync" ELSE "insert"]
        /\ UNCHANGED <<status, failures>>
     \/ /\ \/ Fails("append") /\ UNCHANGED logs
           \/ Fails("torn") /\ logs' = Logged({}, FALSE)
        /\ status' = [status EXCEPT ![t] = "error"]
        /\ pc' = [pc EXCEPT ![t] = "relock"]
  /\ UNCHANGED mem_
  /\ OnlyLogging

\* logfile_->Sync().  After a failure the record may or may not be on disk.
Sync(t) ==
  /\ pc[t] = "sync"
  /\ \/ /\ logs' = [logs EXCEPT ![logfile_number_].synced =
                       Len(logs[logfile_number_].records)]
        /\ pc' = [pc EXCEPT ![t] = "insert"]
        /\ UNCHANGED <<status, failures>>
     \/ /\ Fails("sync")
        /\ status' = [status EXCEPT ![t] = "sync error"]
        /\ pc' = [pc EXCEPT ![t] = "relock"]
        /\ UNCHANGED logs
  /\ UNCHANGED mem_
  /\ OnlyLogging

\* InsertInto(updates, mem_): one entry after the other, in their numbers' order.
InsertInto(t) ==
  LET left == EntriesOf(GroupIds(t)) \ mem_
      Number(e) == sequence[e[1]] + e[2]
  IN  /\ pc[t] = "insert"
      /\ \E entry \in left :
           /\ \A e \in left : Number(entry) <= Number(e)
           /\ mem_' = mem_ \cup {entry}
           /\ \/ left # {entry} /\ UNCHANGED <<pc, status>>
              \/ /\ left = {entry}
                 /\ pc' = [pc EXCEPT ![t] = "relock"]
                 /\ status' = [status EXCEPT ![t] = "ok"]
      /\ UNCHANGED <<logs, failures>>
      /\ OnlyLogging

\* The group is written, or failed: its sequence numbers are used up in
\* either case.  A failed sync stops all later writes.
GroupDone(t) ==
  /\ mutex = Nobody /\ pc[t] = "relock"
  /\ lastSequence' = lastSequence + BatchCount * WithBatch(group[t], Len(group[t]))
  /\ \/ /\ status[t] = "sync error"
        /\ RecordBackgroundError
     \/ /\ status[t] # "sync error"
        /\ UNCHANGED <<bg_error_, bgSleeping>>
  /\ Finish(t, {group[t][k] : k \in DOMAIN group[t]},
            IF status[t] = "ok" THEN "ok" ELSE "error")
  /\ group' = [group EXCEPT ![t] = <<>>]
  /\ UNCHANGED <<op, allow_delay, force, bgVars, memVars, logfile_number_, logNumber,
                 tables, numLevel0, logs, manifest, open, boundVars, request, sequence>>

\* TEST_CompactMemTable, after its Write: wait until imm_ is compacted.
ImmWait(t) ==
  /\ mutex = Nobody /\ pc[t] = "immwait" /\ t \notin bgSleeping
  /\ \/ /\ imm_ # NoImm /\ ~bg_error_
        /\ bgSleeping' = bgSleeping \cup {t}
        /\ UNCHANGED <<pc, status>>
     \/ /\ imm_ = NoImm \/ bg_error_
        /\ pc' = [pc EXCEPT ![t] = "idle"]
        /\ status' = [status EXCEPT ![t] = IF imm_ = NoImm THEN "ok" ELSE "error"]
        /\ UNCHANGED bgSleeping
  /\ UNCHANGED <<op, allow_delay, force, done, group, mutex, writers_,
                 sleeping, bgVars, memVars, logfile_number_, bg_error_, versionVars,
                 logs, manifest, open, boundVars, historyVars>>

-----------------------------------------------------------------------------
(* The background thread.                                                  *)

OnlyBackground ==
  UNCHANGED <<threadVars, mutex, writers_, sleeping, mem_, logfile_number_,
              lastSequence, open, calls, crashes, historyVars>>

\* Mutant: one file more than level 0 holds.
CompactionInputsPlusOne == 1..(numLevel0 + 1)

\* PickCompaction, at level 0: how many of its files are inputs.
CompactionInputs == 1..numLevel0

\* A VersionEdit as LogAndApply completes it before it releases the mutex.
Edit(log, entries, added, removed) ==
  [log |-> log, tables |-> entries, added |-> added, removed |-> removed,
   sequence |-> lastSequence]

\* BackgroundCall and BackgroundCompaction, up to where the mutex is released.
\* A memtable goes first; a move of one table needs no merge.
BackgroundCall ==
  /\ mutex = Nobody /\ bgpc = "scheduled"
  /\ \/ /\ bg_error_
        /\ EndBackgroundCall(bg_error_, imm_, numLevel0)
        /\ UNCHANGED <<inputs, edit>>
     \/ /\ ~bg_error_ /\ imm_ # NoImm
        /\ bgpc' = "building"
        /\ UNCHANGED <<inputs, edit, bgSleeping>>
     \/ /\ ~bg_error_ /\ imm_ = NoImm
        /\ \/ bgpc' = "merging" /\ inputs' \in CompactionInputs /\ UNCHANGED edit
           \/ bgpc' = "moving" /\ edit' = Edit(logNumber, {}, 0, 1) /\ UNCHANGED inputs
        /\ UNCHANGED bgSleeping
  /\ UNCHANGED <<nested, imm_, bg_error_, logNumber, tables, numLevel0, logs,
                 manifest, failures>>
  /\ OnlyBackground

\* How CompactMemTable returns to its caller: DoCompactionWork, which wakes
\* the waiting writers and goes on, or BackgroundCall.
ReturnFromCompactMemTable(error, imm, level0) ==
  /\ nested' = FALSE
  /\ \/ nested /\ bgpc' = "merging" /\ bgSleeping' = {}
     \/ ~nested /\ EndBackgroundCall(error, imm, level0)

\* WriteLevel0Table: the table is built without the mutex.  It goes to level 0
\* or, by PickLevelForMemTableOutput, below it; an empty memtable gives none.
BuildTable ==
  /\ mutex = Nobody /\ bgpc = "building"
  /\ \/ /\ \E added \in IF imm_ = {} THEN {0} ELSE {0, 1} :
             edit' = Edit(logfile_number_, imm_, added, 0)
        /\ bgpc' = "logging"
        /\ UNCHANGED <<nested, bgSleeping, bg_error_, failures>>
     \/ /\ Fails("build")
        /\ bg_error_' = TRUE
        /\ ReturnFromCompactMemTable(TRUE, imm_, numLevel0)
        /\ UNCHANGED edit
  /\ UNCHANGED <<inputs, imm_, logNumber, tables, numLevel0, logs, manifest>>
  /\ OnlyBackground

\* What the descriptor says once the edit is in it and it was synced; only this
\* Sync syncs the directory, and with it the name of the current log.
Applied ==
  [log |-> edit.log, tables |-> manifest.tables \cup edit.tables,
   level0 |-> (manifest.level0 + edit.added) - edit.removed,
   sequence |-> edit.sequence, named |-> logfile_number_]

\* What a failure leaves: the edit may or may not be in the file, and the
\* directory may or may not have been synced before.
HalfApplied ==
  {[content EXCEPT !.named = n] :
     content \in {manifest, Applied}, n \in {manifest.named, logfile_number_}}

\* LogAndApply writes and syncs the descriptor without the mutex.
WriteManifest ==
  LET next == CASE bgpc = "logging" -> "install"
                [] bgpc = "merged" -> "installMerge"
                [] bgpc = "moving" -> "installMove"
  IN  /\ bgpc \in {"logging", "merged", "moving"}
      /\ \/ /\ manifest' = Applied
            /\ bgpc' = next
            /\ UNCHANGED failures
         \/ /\ Fails("manifest")
            /\ manifest' \in HalfApplied
            /\ bgpc' = IF bgpc = "logging" THEN "installFailed" ELSE "mergeFailed"
      /\ UNCHANGED <<nested, inputs, edit, imm_, bg_error_, logNumber, tables,
                     numLevel0, logs, bgSleeping>>
      /\ OnlyBackground

\* LogAndApply installs the version; CompactMemTable drops imm_, deletes the
\* logs it no longer needs and returns.
InstallMemTable ==
  /\ mutex = Nobody /\ bgpc = "install"
  /\ tables' = tables \cup edit.tables
  /\ logNumber' = edit.log
  /\ numLevel0' = numLevel0 + edit.added
  /\ imm_' = NoImm
  /\ logs' = IF bg_error_ THEN logs ELSE KeptLogs(logNumber')
  /\ edit' = NoEdit
  /\ ReturnFromCompactMemTable(bg_error_, NoImm, numLevel0')
  /\ UNCHANGED <<inputs, bg_error_, manifest, failures>>
  /\ OnlyBackground

InstallMemTableFailed ==
  /\ mutex = Nobody /\ bgpc = "installFailed"
  /\ bg_error_' = TRUE
  /\ edit' = NoEdit
  /\ ReturnFromCompactMemTable(TRUE, imm_, numLevel0)
  /\ UNCHANGED <<inputs, imm_, logNumber, tables, numLevel0, logs, manifest, failures>>
  /\ OnlyBackground

\* DoCompactionWork finds a memtable to compact between two of its entries.
MergeFindsImm ==
  /\ mutex = Nobody /\ bgpc = "merging" /\ imm_ # NoImm
  /\ bgpc' = "building"
  /\ nested' = TRUE
  /\ UNCHANGED <<inputs, edit, imm_, bg_error_, logNumber, tables, numLevel0, logs,
                 manifest, failures, bgSleeping>>
  /\ OnlyBackground

\* DoCompactionWork has written its outputs, or failed to.
MergeDone ==
  /\ mutex = Nobody /\ bgpc = "merging"
  /\ inputs' = 0
  /\ \/ /\ bgpc' = "merged"
        /\ edit' = Edit(logNumber, {}, 0, inputs)
        /\ UNCHANGED failures
     \/ /\ bgpc' = "mergeFailed"
        /\ Fails("build")
        /\ UNCHANGED edit
  /\ UNCHANGED <<nested, imm_, bg_error_, logNumber, tables, numLevel0, logs, manifest,
                 bgSleeping>>
  /\ OnlyBackground

\* LogAndApply installs the version; DeleteObsoleteFiles runs after a merge.
InstallMerge ==
  /\ mutex = Nobody /\ bgpc \in {"installMerge", "installMove"}
  /\ numLevel0' = numLevel0 - edit.removed
  /\ logs' = IF bg_error_ \/ bgpc = "installMove" THEN logs ELSE KeptLogs(logNumber)
  /\ edit' = NoEdit
  /\ EndBackgroundCall(bg_error_, imm_, numLevel0')
  /\ UNCHANGED <<nested, inputs, imm_, bg_error_, logNumber, tables, manifest, failures>>
  /\ OnlyBackground

MergeFailed ==
  /\ mutex = Nobody /\ bgpc = "mergeFailed"
  /\ bg_error_' = TRUE
  /\ edit' = NoEdit
  /\ EndBackgroundCall(TRUE, imm_, numLevel0)
  /\ UNCHANGED <<nested, inputs, imm_, logNumber, tables, numLevel0, logs, manifest,
                 failures>>
  /\ OnlyBackground

background ==
  \/ BackgroundCall \/ BuildTable \/ WriteManifest \/ InstallMemTable
  \/ InstallMemTableFailed \/ MergeFindsImm \/ MergeDone \/ InstallMerge
  \/ MergeFailed

-----------------------------------------------------------------------------
(* Crash and DB::Open.                                                     *)

\* The batches that log::Reader returns of the first n records of a log: it
\* drops what follows a partial record in the block.
Readable(records, n) ==
  UNION {records[i].ids : i \in {i \in 1..n : \A j \in 1..i : records[j].whole}}

\* The batches that Recover finds when the log l keeps length[l] records.
Replayed(length) ==
  UNION {Readable(logs[l].records, length[l]) :
           l \in {l \in DOMAIN logs : l >= manifest.log}}

WholeLogs == [l \in DOMAIN logs |-> Len(logs[l].records)]

\* The logs whose name is not on the disk: MakeRoomForWrite created them after
\* the last Sync of the descriptor, and the Sync of a log syncs no directory.
Unnamed == {l \in DOMAIN logs : l > manifest.named}

\* What is on the disk for certain.
DurableLogs == [l \in DOMAIN logs |-> IF l \in Unnamed THEN 0 ELSE logs[l].synced]

Recoverable(length) == manifest.tables \cup EntriesOf(Replayed(length))

\* What a crash may leave of the log l.  The machine loses any suffix of what
\* was not synced, or the name of the file with all that is in it.
Remains(l, kind) ==
  IF kind = "process" THEN {Len(logs[l].records)}
  ELSE (logs[l].synced..Len(logs[l].records)) \cup (IF l \in Unnamed THEN {0} ELSE {})

\* The process ends, or the machine does.  To Open, a log that is gone is an
\* empty one.  The history forgets the acknowledgements of lost batches.
Crash(kind) ==
  /\ open /\ crashes < MaxCrashes
  /\ crashes' = crashes + 1
  /\ \E length \in [DOMAIN logs -> 0..MaxCalls] :
       /\ \A l \in DOMAIN logs : length[l] \in Remains(l, kind)
       /\ logs' = [l \in DOMAIN logs |->
            [records |-> SubSeq(logs[l].records, 1, length[l]), synced |-> length[l]]]
       /\ acked' = IF kind = "process" THEN acked
                   ELSE {i \in acked : EntriesOf({i}) \subseteq Recoverable(length)}
  /\ open' = FALSE
  /\ pc' = [t \in Threads |-> "idle"]
  /\ op' = [t \in Threads |-> NoCall]
  /\ allow_delay' = [t \in Threads |-> FALSE]
  /\ force' = [t \in Threads |-> FALSE]
  /\ done' = [t \in Threads |-> FALSE]
  /\ status' = [t \in Threads |-> "ok"]
  /\ group' = [t \in Threads |-> <<>>]
  /\ mutex' = Nobody /\ writers_' = <<>> /\ sleeping' = {} /\ bgSleeping' = {}
  /\ bgpc' = "idle" /\ nested' = FALSE /\ inputs' = 0 /\ edit' = NoEdit
  /\ mem_' = {} /\ imm_' = NoImm /\ bg_error_' = FALSE
  /\ UNCHANGED <<logfile_number_, versionVars, manifest, calls, failures, request,
                 sequence>>

\* Mutant: Recover does not look at the sequence numbers of the logs.
RecoveredSequenceOfManifest(ids) == manifest.sequence

\* LastSequence after Recover: the descriptor's, or the largest in the logs.
RecoveredSequence(ids) ==
  LET last == {sequence[i] + BatchCount - 1 : i \in ids} \cup {manifest.sequence}
  IN  CHOOSE n \in last : \A m \in last : m <= n

\* DB::Open: Recover replays the logs into level-0 tables, one for each log
\* that has a record (a memtable is full only after the last record of its
\* log); then a new log, a new descriptor, whose Sync names the log on the
\* disk, and the old logs are deleted.
Open ==
  LET ids == Replayed(WholeLogs)
      found == {l \in DOMAIN logs : l >= manifest.log /\
                  Readable(logs[l].records, Len(logs[l].records)) # {}}
      number == logfile_number_ + 1
      level0 == manifest.level0 + Cardinality(found)
  IN  /\ ~open
      /\ open' = TRUE
      /\ tables' = manifest.tables \cup EntriesOf(ids)
      /\ numLevel0' = level0
      /\ lastSequence' = RecoveredSequence(ids)
      /\ logfile_number_' = number
      /\ logNumber' = number
      /\ manifest' = [log |-> number, tables |-> tables', level0 |-> level0,
                      sequence |-> lastSequence', named |-> number]
      /\ logs' = [n \in {number} |-> [records |-> <<>>, synced |-> 0]]
      /\ bgpc' = Scheduled("idle", FALSE, NoImm, level0)
      /\ UNCHANGED <<threadVars, syncVars, nested, inputs, edit, memVars, bg_error_,
                     boundVars, historyVars>>

-----------------------------------------------------------------------------
\* A database that DB::Open has just created.
Init ==
  /\ pc = [t \in Threads |-> "idle"]
  /\ op = [t \in Threads |-> NoCall]
  /\ allow_delay = [t \in Threads |-> FALSE]
  /\ force = [t \in Threads |-> FALSE]
  /\ done = [t \in Threads |-> FALSE]
  /\ status = [t \in Threads |-> "ok"]
  /\ group = [t \in Threads |-> <<>>]
  /\ mutex = Nobody /\ writers_ = <<>> /\ sleeping = {} /\ bgSleeping = {}
  /\ bgpc = "idle" /\ nested = FALSE /\ inputs = 0 /\ edit = NoEdit
  /\ mem_ = {} /\ imm_ = NoImm /\ bg_error_ = FALSE
  /\ lastSequence = 0 /\ tables = {} /\ numLevel0 = 0
  /\ logfile_number_ = 1 /\ logNumber = 1
  /\ logs = [n \in {1} |-> [records |-> <<>>, synced |-> 0]]
  /\ manifest = [log |-> 1, tables |-> {}, level0 |-> 0, sequence |-> 0,
                 named |-> 1]
  /\ open = TRUE
  /\ calls = 0 /\ failures = 0 /\ crashes = 0
  /\ request = [i \in Calls |-> [sync |-> FALSE, seen |-> {}]]
  /\ sequence = [i \in Calls |-> 0]
  /\ acked = {}

\* A thread that has called goes on.
goOn(t) ==
  \/ Wake(t) \/ RoomError(t) \/ RoomDelay(t) \/ DelayOver(t) \/ RoomWait(t)
  \/ WaitOver(t) \/ RoomSwitch(t) \/ RoomFound(t) \/ AddRecord(t) \/ Sync(t)
  \/ InsertInto(t) \/ GroupDone(t) \/ ImmWait(t)

Next ==
  \/ \E t \in Threads : \E sync \in BOOLEAN : Write(t, sync, TRUE)
  \/ \E t \in Threads : Write(t, FALSE, FALSE)
  \/ \E t \in Threads : goOn(t)
  \/ background
  \/ \E kind \in CrashKinds : Crash(kind)
  \/ Open

\* Threads that stay able to run do run, and a crashed process is restarted.
\* Nobody must call; only finitely many calls compete for the mutex.
Fairness ==
  /\ \A t \in Threads : WF_vars(goOn(t))
  /\ WF_vars(background)
  /\ WF_vars(Open)

Spec == Init /\ [][Next]_vars
FairSpec == Spec /\ Fairness

-----------------------------------------------------------------------------
(* Properties.                                                             *)

ThreadStates == {"idle", "waiting", "room", "delay", "bgwait", "append", "sync",
                 "insert", "relock", "immwait"}
Logging == {"append", "sync", "insert", "relock"}
Entries == Calls \X (1..BatchCount)
Record == [ids : SUBSET Calls, whole : BOOLEAN]
DescriptorType ==
  [log : Nat, tables : SUBSET Entries, level0 : Nat, sequence : Nat, named : Nat]

ThreadTypeOK ==
  /\ pc \in [Threads -> ThreadStates]
  /\ op \in [Threads -> [id : Nat, sync : BOOLEAN, batch : BOOLEAN]]
  /\ allow_delay \in [Threads -> BOOLEAN] /\ force \in [Threads -> BOOLEAN]
  /\ done \in [Threads -> BOOLEAN]
  /\ status \in [Threads -> {"ok", "error", "sync error"}]
  /\ group \in [Threads -> Seq(Threads)]

SyncTypeOK ==
  /\ mutex \in Threads \cup {Nobody}
  /\ writers_ \in Seq(Threads)
  /\ sleeping \subseteq Threads /\ bgSleeping \subseteq Threads

BackgroundTypeOK ==
  /\ bgpc \in {"idle", "scheduled", "building", "logging", "install",
               "installFailed", "merging", "merged", "moving", "installMerge",
               "installMove", "mergeFailed"}
  /\ nested \in BOOLEAN /\ inputs \in Nat
  /\ edit \in [log : Nat, tables : SUBSET Entries, added : {0, 1}, removed : Nat,
               sequence : Nat]

DataTypeOK ==
  /\ mem_ \subseteq Entries /\ (imm_ = NoImm \/ imm_ \subseteq Entries)
  /\ logfile_number_ \in Nat /\ bg_error_ \in BOOLEAN
  /\ lastSequence \in Nat /\ logNumber \in Nat
  /\ tables \subseteq Entries /\ numLevel0 \in Nat
  /\ \A n \in DOMAIN logs :
       /\ n \in Nat
       /\ logs[n] \in [records : Seq(Record), synced : Nat]
  /\ manifest \in DescriptorType
  /\ open \in BOOLEAN

HistoryTypeOK ==
  /\ calls \in 0..MaxCalls /\ failures \in Nat /\ crashes \in Nat
  /\ request \in [Calls -> [sync : BOOLEAN, seen : SUBSET Calls]]
  /\ sequence \in [Calls -> Nat]
  /\ acked \subseteq Calls

\* Every variable has its type.
TypeOK ==
  ThreadTypeOK /\ SyncTypeOK /\ BackgroundTypeOK /\ DataTypeOK /\ HistoryTypeOK

\* What a reader looks at: mem_, imm_ and the tables of the current version.
Held == mem_ \cup (imm_ \ NoImm) \cup tables

\* Get and iterators ignore entries after LastSequence.
Visible == {e \in Held : sequence[e[1]] + e[2] - 1 <= lastSequence}

\* "&w is currently responsible for logging and protects against concurrent
\* loggers": only the first writer of the queue is without the mutex in the
\* log or the memtable, and its group stays at the front until it is done.
OneLogger ==
  \A t \in Threads : pc[t] \in Logging =>
    /\ Len(group[t]) \in 1..Len(writers_)
    /\ group[t] = SubSeq(writers_, 1, Len(group[t]))
    /\ group[t][1] = t

\* A batch is atomic for readers: at any moment a reader that takes
\* LastSequence sees all entries of a batch or none, while the group is being
\* inserted without the mutex, and after failures, flushes and recovery.
BatchesAtomic ==
  \A i \in Calls :
    EntriesOf({i}) \cap Visible # {} => EntriesOf({i}) \subseteq Visible

\* A write that returned OK is visible from then on: no switch of memtables,
\* flush, failure or restart makes a reader miss it.
AckedVisible ==
  open => EntriesOf(acked) \subseteq Visible

\* WriteOptions: when only the process crashes "no writes will be lost even if
\* sync==false": every acknowledged batch is in the logs or tables that Open
\* would read now.
NoLossOnProcessCrash ==
  EntriesOf(acked) \subseteq Recoverable(WholeLogs)

\* The batches whose log has no name on the disk.
Exposed == UNION {Readable(logs[l].records, logs[l].synced) : l \in Unnamed}

\* A batch acknowledged with sync = true survives a crash of the machine: it is
\* in the tables or in the synced part of a log that has a name on the disk and
\* that Open would read.  The exception is what SyncDirIfManifest leaves open:
\* a synced batch in a log that MakeRoomForWrite created after the last Sync of
\* the descriptor.  Only the current log can be such a log, and only until the
\* memtable before it has been compacted.
SyncedSurvive ==
  /\ EntriesOf({i \in acked : request[i].sync} \ Exposed) \subseteq Recoverable(DurableLogs)
  /\ open => \A l \in Unnamed : l = logfile_number_ /\ imm_ # NoImm

\* Sequence numbers order the writes: two batches that are visible have no
\* number in common, and a batch whose call began after another one was
\* acknowledged has the larger numbers, through failures and recovery.
SequenceOrder ==
  \A i, k \in Calls :
    /\ i # k /\ EntriesOf({i, k}) \subseteq Visible =>
         \/ sequence[i] + BatchCount <= sequence[k]
         \/ sequence[k] + BatchCount <= sequence[i]
    /\ i \in request[k].seen /\ EntriesOf({i, k}) \subseteq Visible =>
         sequence[i] < sequence[k]

\* Every call returns: no wake-up is lost between the writers, MakeRoomForWrite
\* and the background thread, whatever fails.
CallsReturn ==
  \A t \in Threads : pc[t] # "idle" ~> pc[t] = "idle"
=============================================================================
