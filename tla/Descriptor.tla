----------------------------- MODULE Descriptor -----------------------------
(***************************************************************************)
(* How leveldb keeps a database in a directory: creation (DBImpl::NewDB),  *)
(* the descriptor log MANIFEST-n and the file CURRENT that names it        *)
(* (VersionSet::LogAndApply, WriteSnapshot, SetCurrentFile), recovery      *)
(* (DB::Open, DBImpl::Recover, VersionSet::Recover, ReuseManifest), the    *)
(* deletion of obsolete files, RepairDB and DestroyDB, on the file system  *)
(* that env_posix.cc uses.                                                 *)
(*                                                                         *)
(* Every call to the file system is a step, after which the process or the *)
(* machine may stop.  A process that stops loses its memory; a machine     *)
(* that stops also loses what was not synced: of each file any tail, and   *)
(* the last directory operations since the last sync of the directory.     *)
(* The file system journals its metadata: a file does not keep a longer,   *)
(* unsynced content if it loses a directory operation that came before.  A *)
(* record that is only partly in a file is Torn.                           *)
(*                                                                         *)
(* Calls of one database are serialised here by its mutex_; DBWrite and    *)
(* DBStore interleave them.                                                *)
(***************************************************************************)
EXTENDS Integers, Sequences, FiniteSets, FiniteSetsExt, SequencesExt

CONSTANTS
  DescBudgets      \* bounds: how many writes, stops of the process, stops of the machine,
                   \* failing calls, calls of RepairDB or DestroyDB and compactions there
                   \* are, with and without options.reuse_logs

ASSUME DescAssumption ==
  DescBudgets \subseteq [writes : Nat, stops : Nat, crashes : Nat, reuse : BOOLEAN,
                           faults : Nat, repairs : Nat, merges : Nat]

VARIABLES
  dirs,    \* the directory now (the last one) and the earlier states that may be the durable
           \* one: a map of names to inodes, and how long the files were when it was left
  inodes,  \* the files: their records and how many of them are synced
  db,      \* the process
  todo,    \* the calls to the file system that its operation still makes
  left_,   \* the bounds
  durable, \* history: the writes that must survive every stop
  doubt    \* history: the descriptor may be the one that RepairDB closed unsynced

descVars == <<dirs, inodes, db, todo, left_, durable, doubt>>

\* A record in a file is <<r>>, a torn one is <<>>
Torn == <<>>
Absent == -1
NoImm == {0}

(* Names of files (filename.cc).                                           *)
CURRENT == <<"current", 0>>
DescriptorFileName(n) == <<"manifest", n>>
TempFileName(n) == <<"temp", n>>
TableFileName(n) == <<"table", n>>
LogFileName(n) == <<"log", n>>

Dir == dirs[Len(dirs)].names
Names == DOMAIN Dir
NumbersOf(type) == {f[2] : f \in {g \in Names : g[1] = type}}
Records(f) == inodes[Dir[f]].recs

-----------------------------------------------------------------------------
(* The calls of env_posix.cc, made one at a time.                          *)

Create(f) == [op |-> "create", file |-> f]
AppendTo(f, r) == [op |-> "append", file |-> f, record |-> <<r>>]
SyncOf(f) == [op |-> "sync", file |-> f]
RenameTo(f, g) == [op |-> "rename", file |-> f, to |-> g]
DeleteAll(fs) == [op |-> "delete", files |-> fs]

NewDir(names) ==
  Append([dirs EXCEPT ![Len(dirs)].lengths = [i \in 1..Len(inodes) |-> Len(inodes[i].recs)]],
         [names |-> names, lengths |-> <<>>])

Without(d, f) == [g \in DOMAIN d \ {f} |-> d[g]]
With(d, f, i) == [g \in DOMAIN d \cup {f} |-> IF g = f THEN i ELSE d[g]]

\* NewWritableFile: fopen(.., "w")
DoCreate(c) ==
  /\ c.op = "create"
  /\ inodes' = Append(inodes, [recs |-> <<>>, synced |-> 0])
  /\ dirs' = NewDir(With(Dir, c.file, Len(inodes) + 1))

\* fwrite, and the fflush with which log::Writer ends every record
DoAppend(c) ==
  /\ c.op = "append"
  /\ inodes' = [inodes EXCEPT ![Dir[c.file]].recs = Append(@, c.record)]
  /\ UNCHANGED dirs

\* Mutant: the directory is not synced before a manifest
NoSyncDir(f) == dirs

\* SyncDirIfManifest
SyncDirIfManifest(f) == IF f[1] = "manifest" THEN <<dirs[Len(dirs)]>> ELSE dirs

DoSync(c) ==
  /\ c.op = "sync"
  /\ dirs' = SyncDirIfManifest(c.file)
  /\ inodes' = [inodes EXCEPT ![Dir[c.file]].synced = Len(Records(c.file))]

\* RenameFile; also ArchiveFile's rename into the directory "lost", which leaves Dir
DoRename(c) ==
  /\ c.op = "rename"
  /\ dirs' = NewDir(With(Without(Dir, c.file), c.to, Dir[c.file]))
  /\ UNCHANGED inodes

\* The system calls of the operation that is under way, in its order; files of one
\* DeleteAll go in any order (GetChildren lists a directory in no order)
FileCall ==
  /\ todo # <<>>
  /\ LET c == todo[1] IN
       \/ (DoCreate(c) \/ DoAppend(c) \/ DoSync(c) \/ DoRename(c)) /\ todo' = Tail(todo)
       \/ /\ c.op = "delete" /\ c.files \cap Names = {}
          /\ todo' = Tail(todo)
          /\ UNCHANGED <<dirs, inodes>>
       \/ /\ c.op = "delete"
          /\ \E f \in c.files \cap Names : dirs' = NewDir(Without(Dir, f))
          /\ UNCHANGED <<todo, inodes>>
  /\ UNCHANGED <<db, left_, durable, doubt>>

\* The kernel writes the directory back; the moments when that makes a difference
WriteBack ==
  /\ db.pc = "syncing" /\ todo = <<>> /\ Len(dirs) > 1
  /\ dirs' = <<dirs[Len(dirs)]>>
  /\ UNCHANGED <<inodes, db, todo, left_, durable, doubt>>

-----------------------------------------------------------------------------
(* The operations as sequences of calls.                                   *)

\* builder.cc
BuildTableFile(n, entries) ==
  <<Create(TableFileName(n)), AppendTo(TableFileName(n), entries), SyncOf(TableFileName(n))>>

SetCurrentFile(n) ==
  <<Create(TempFileName(n)), AppendTo(TempFileName(n), n), SyncOf(TempFileName(n)),
    RenameTo(TempFileName(n), CURRENT)>>

\* VersionEdit: what is Absent is not in the record
Edit(log, next, added, deleted) ==
  [log |-> log, next |-> next, added |-> added, deleted |-> deleted]

\* The manifest of a new database is closed without a sync
NewDB ==
  <<Create(DescriptorFileName(1)), AppendTo(DescriptorFileName(1), Edit(0, 2, {}, {}))>>
    \o SetCurrentFile(1)

WriteSnapshot(d) == AppendTo(DescriptorFileName(d.manifest), Edit(Absent, Absent, d.tables, {}))

LogAndApply(d, e) ==
  LET m == DescriptorFileName(d.manifest)
      e2 == IF e.log = Absent THEN [e EXCEPT !.log = d.log, !.next = d.next]
                              ELSE [e EXCEPT !.next = d.next]
      record == <<AppendTo(m, e2), SyncOf(m)>>
  IN  IF d.open THEN record
                ELSE <<Create(m), WriteSnapshot(d)>> \o record \o SetCurrentFile(d.manifest)

\* DeleteObsoleteFiles
Obsolete(d) ==
  {f \in Names : \/ f[1] = "log" /\ f[2] < d.log
                 \/ f[1] = "manifest" /\ f[2] < d.manifest
                 \/ f[1] \in {"table", "temp"} /\ f[2] \notin d.tables \cup {d.output}}

-----------------------------------------------------------------------------
(* DB::Open.                                                               *)

Down == [pc |-> "down", tables |-> {}, log |-> 0, next |-> 2, manifest |-> 0, open |-> FALSE,
         edit |-> Edit(Absent, Absent, {}, {}), logs |-> {}, logfile |-> 0, mem |-> {},
         imm |-> NoImm, merging |-> {}, output |-> 0, err |-> FALSE,
         save |-> FALSE]

Idle(pc) == db.pc = pc /\ todo = <<>>

OpenDB ==
  /\ Idle("down")
  /\ db' = [Down EXCEPT !.pc = "newdb"]
  /\ todo' = IF CURRENT \in Names THEN <<>> ELSE NewDB
  /\ UNCHANGED <<dirs, inodes, left_, durable, doubt>>

\* What log::Reader gives of a file: the records before one that is torn
Whole(recs) ==
  LET t == {i \in 1..Len(recs) : recs[i] = Torn}
  IN  [i \in 1..(Min(t \cup {Len(recs) + 1}) - 1) |-> recs[i][1]]

\* A torn last record is the end of the file; one that others follow is reported
Damaged(recs) == \E i \in 1..(Len(recs) - 1) : recs[i] = Torn

\* Builder::Apply and SaveTo over the records of a descriptor
LastOf(edits, Field(_)) ==
  LET has == {i \in 1..Len(edits) : Field(edits[i]) # Absent}
  IN  IF has = {} THEN Absent ELSE Field(edits[Max(has)])
LiveTables(edits) ==
  {n \in UNION {edits[i].added : i \in 1..Len(edits)} :
     LET a == Max({i \in 1..Len(edits) : n \in edits[i].added})
     IN  \A i \in a..Len(edits) : n \notin edits[i].deleted}
NextOf(e) == e.next
LogOf(e) == e.log

Manifest == Records(CURRENT)[1][1]

\* What VersionSet::Recover refuses
Refused ==
  \/ Whole(Records(CURRENT)) = <<>>
  \/ DescriptorFileName(Manifest) \notin Names
  \/ LET recs == Records(DescriptorFileName(Manifest))
     IN  Damaged(recs) \/ LastOf(Whole(recs), NextOf) = Absent
                       \/ LastOf(Whole(recs), LogOf) = Absent

\* VersionSet::Recover, ReuseManifest, and the part of DBImpl::Recover that lists the logs
RecoverVersions ==
  /\ Idle("newdb")
  /\ UNCHANGED <<dirs, inodes, todo, left_, durable, doubt>>
  /\ db' =
       IF Refused THEN [db EXCEPT !.pc = "corrupt"]
       ELSE LET edits == Whole(Records(DescriptorFileName(Manifest)))
                log == LastOf(edits, LogOf)
                next == LastOf(edits, NextOf)
                missing == LiveTables(edits) \ {f[2] : f \in Names}
            IN  IF missing # {} THEN [db EXCEPT !.pc = "corrupt"]
                ELSE [db EXCEPT !.pc = "logs", !.tables = LiveTables(edits), !.log = log,
                        !.next = next + 1, !.manifest = IF left_.reuse THEN Manifest ELSE next,
                        !.open = left_.reuse, !.save = ~left_.reuse,
                        !.logs = {n \in NumbersOf("log") : n >= log}]

\* RecoverLogFile, for the logs in order; then MarkFileNumberUsed
RecoverLogFile ==
  /\ Idle("logs") /\ db.logs # {}
  /\ UNCHANGED <<dirs, inodes, left_, durable, doubt>>
  /\ LET l == Min(db.logs)
         batches == Whole(Records(LogFileName(l)))
         entries == {batches[i] : i \in 1..Len(batches)}
         kept == left_.reuse /\ db.logs = {l}
         n == db.next
     IN  IF kept \/ entries = {}
         THEN /\ db' = [db EXCEPT !.logs = @ \ {l}, !.next = Max({n, l + 1}),
                          !.logfile = IF kept THEN l ELSE 0, !.mem = entries]
              /\ UNCHANGED todo
         ELSE /\ db' = [db EXCEPT !.logs = @ \ {l}, !.next = Max({n + 1, l + 1}), !.save = TRUE,
                          !.edit.added = @ \cup {n}]
              /\ todo' = BuildTableFile(n, entries)

\* Open's new log file, and the edit it may have to save
NewLog ==
  /\ Idle("logs") /\ db.logs = {} /\ db.logfile = 0
  /\ db' = [db EXCEPT !.logfile = db.next, !.next = @ + 1]
  /\ todo' = <<Create(LogFileName(db.next))>>
  /\ UNCHANGED <<dirs, inodes, left_, durable, doubt>>

SaveManifest ==
  /\ Idle("logs") /\ db.logs = {} /\ db.logfile # 0
  /\ IF db.save
     THEN LET e == Edit(db.logfile, db.next, db.edit.added, {})
          IN  /\ db' = [db EXCEPT !.pc = "open", !.edit = e]
              /\ todo' = LogAndApply(db, e)
     ELSE /\ db' = [db EXCEPT !.pc = "running"]
          /\ todo' = <<DeleteAll(Obsolete(db))>>
  /\ UNCHANGED <<dirs, inodes, left_, durable, doubt>>

\* The end of LogAndApply: the version is installed, obsolete files are deleted
Install ==
  /\ db.pc \in {"open", "apply"} /\ todo = <<>>
  /\ LET e == db.edit
         d == [db EXCEPT !.pc = "running", !.open = TRUE,
                 !.tables = (@ \ e.deleted) \cup e.added,
                 !.log = IF e.log = Absent THEN @ ELSE e.log,
                 !.imm = IF e.log # Absent /\ db.pc = "apply" THEN NoImm ELSE @,
                 !.output = IF e.deleted = {} THEN @ ELSE 0,
                 !.merging = IF e.deleted = {} THEN @ ELSE {},
                 !.edit = Edit(Absent, Absent, {}, {})]
     IN  /\ db' = d
         /\ todo' = IF db.err THEN <<>> ELSE <<DeleteAll(Obsolete(d))>>
  /\ UNCHANGED <<dirs, inodes, left_, durable, doubt>>

\* A call that fails while a descriptor is written: NewDB and LogAndApply remove what they
\* had created; an append to a descriptor in use leaves a torn record and bg_error_
CallFails ==
  /\ todo # <<>> /\ left_.faults > 0 /\ db.pc \in {"newdb", "open", "apply"}
  /\ todo[1].op \in {"append", "sync", "rename"} /\ todo[1].file[1] \in {"manifest", "temp"}
  /\ inodes' = IF todo[1].op = "append" THEN [inodes EXCEPT ![Dir[todo[1].file]].recs = Append(@, Torn)]
                                         ELSE inodes
  /\ LET temp == {f \in {todo[1].file} : f[1] = "temp"}
         created == IF db.open \/ (db.pc = "newdb" /\ temp # {}) THEN {}
                    ELSE {DescriptorFileName(IF db.pc = "newdb" THEN 1 ELSE db.manifest)}
     IN  todo' = IF temp \cup created = {} THEN <<>> ELSE <<DeleteAll(temp \cup created)>>
  /\ db' = IF db.pc = "apply" THEN [db EXCEPT !.pc = "running", !.err = TRUE,
                                      !.merging = IF db.edit.deleted = {} THEN @ ELSE {},
                                      !.output = IF db.edit.deleted = {} THEN @ ELSE 0]
                              ELSE Down
  /\ left_' = [left_ EXCEPT !.faults = @ - 1]
  /\ UNCHANGED <<dirs, durable, doubt>>

-----------------------------------------------------------------------------
(* A running database.                                                     *)

\* DBImpl::Write: the record is appended to the log, and synced if options.sync
WriteDB(sync) ==
  /\ Idle("running") /\ left_.writes > 0 /\ ~db.err
  /\ LET f == LogFileName(db.logfile)
     IN  todo' = <<AppendTo(f, left_.writes)>> \o (IF sync THEN <<SyncOf(f)>> ELSE <<>>)
  /\ db' = [db EXCEPT !.pc = IF sync THEN "syncing" ELSE "writing"]
  /\ UNCHANGED <<dirs, inodes, left_, durable, doubt>>

\* A synced write is durable if the directory is, and nothing before it is torn
WriteReturns ==
  /\ db.pc \in {"syncing", "writing"} /\ todo = <<>>
  /\ db' = [db EXCEPT !.pc = "running", !.mem = @ \cup {left_.writes}]
  /\ left_' = [left_ EXCEPT !.writes = @ - 1]
  /\ LET survives == /\ db.pc = "syncing" /\ Len(dirs) = 1
                     /\ \A f \in {LogFileName(db.logfile), DescriptorFileName(db.manifest)} :
                          Torn \notin {Records(f)[i] : i \in 1..Len(Records(f))}
     IN  /\ durable' = IF survives THEN durable \cup {left_.writes} ELSE durable
         /\ doubt' = (doubt /\ ~survives)
  /\ UNCHANGED <<dirs, inodes, todo>>

\* MakeRoomForWrite's switch to a new log and memtable
SwitchMemTable ==
  /\ Idle("running") /\ db.mem # {} /\ db.imm = NoImm /\ ~db.err
  /\ db' = [db EXCEPT !.logfile = db.next, !.next = @ + 1, !.imm = db.mem, !.mem = {}]
  /\ todo' = <<Create(LogFileName(db.next))>>
  /\ UNCHANGED <<dirs, inodes, left_, durable, doubt>>

\* CompactMemTable; during a compaction also after a background error
CompactMemTable ==
  /\ Idle("running") /\ db.imm # NoImm /\ (~db.err \/ db.merging # {})
  /\ LET n == db.next
         e == Edit(db.logfile, n + 1, {n}, {})
         d == [db EXCEPT !.pc = "apply", !.next = n + 1, !.edit = e]
     IN  db' = d /\ todo' = BuildTableFile(n, db.imm) \o LogAndApply(d, e)
  /\ UNCHANGED <<dirs, inodes, left_, durable, doubt>>

Contents(ns) ==
  UNION {Records(TableFileName(n))[1][1] : n \in ns}

\* A compaction of all tables: its output is written first, its edit comes last, and the
\* memtable may be compacted in between
StartMerge ==
  /\ Idle("running") /\ ~db.err /\ db.merging = {} /\ db.tables # {} /\ left_.merges > 0
  /\ db' = [db EXCEPT !.merging = db.tables, !.output = db.next, !.next = @ + 1]
  /\ todo' = BuildTableFile(db.next, Contents(db.tables))
  /\ left_' = [left_ EXCEPT !.merges = @ - 1]
  /\ UNCHANGED <<dirs, inodes, durable, doubt>>

FinishMerge ==
  /\ Idle("running") /\ db.merging # {}
  /\ LET e == Edit(Absent, db.next, {db.output}, db.merging)
     IN  /\ db' = [db EXCEPT !.pc = "apply", !.edit = e]
         /\ todo' = LogAndApply(db, e)
  /\ UNCHANGED <<dirs, inodes, left_, durable, doubt>>

-----------------------------------------------------------------------------
(* RepairDB, of a database that is not open; and DestroyDB.                *)

\* FindFiles
FindFiles ==
  /\ db.pc \in {"down", "corrupt"} /\ todo = <<>> /\ left_.repairs > 0 /\ Names # {}
  /\ LET numbers == {f[2] : f \in {g \in Names : g[1] # "manifest"}}
     IN  db' = [Down EXCEPT !.pc = "repair", !.logs = NumbersOf("log"),
                  !.tables = NumbersOf("table"), !.next = Max({0} \cup numbers) + 1]
  /\ left_' = [left_ EXCEPT !.repairs = @ - 1]
  /\ doubt' = TRUE
  /\ UNCHANGED <<dirs, inodes, todo, durable>>

\* A log becomes a table of level 0, and goes to the directory "lost"
ConvertLogToTable ==
  /\ Idle("repair")
  /\ \E l \in db.logs :
       LET batches == Whole(Records(LogFileName(l)))
           entries == {batches[i] : i \in 1..Len(batches)}
       IN  /\ db' = [db EXCEPT !.logs = @ \ {l}, !.next = @ + 1,
                       !.tables = IF entries = {} THEN @ ELSE @ \cup {db.next}]
           /\ todo' = (IF entries = {} THEN <<>> ELSE BuildTableFile(db.next, entries))
                        \o <<DeleteAll({LogFileName(l)})>>
  /\ UNCHANGED <<dirs, inodes, left_, durable, doubt>>

Unreadable(n) == Whole(Records(TableFileName(n))) = <<>>

\* ScanTable and RepairTable: nothing can be copied from a table without its footer, which is
\* archived; the empty copy stays
RepairTable ==
  /\ Idle("repair") /\ db.logs = {}
  /\ \E n \in db.tables :
       /\ Unreadable(n)
       /\ db' = [db EXCEPT !.tables = @ \ {n}, !.next = @ + 1]
       /\ todo' = <<Create(TableFileName(db.next)), DeleteAll({TableFileName(n)})>>
  /\ UNCHANGED <<dirs, inodes, left_, durable, doubt>>

\* The descriptor is written under a temporary name and, again, not synced
WriteDescriptor ==
  /\ Idle("repair") /\ db.logs = {} /\ \A n \in db.tables : ~Unreadable(n)
  /\ db' = [db EXCEPT !.pc = "repaired"]
  /\ todo' = <<Create(TempFileName(1)),
               AppendTo(TempFileName(1), Edit(0, db.next, db.tables, {})),
               DeleteAll({f \in Names : f[1] = "manifest"}),
               RenameTo(TempFileName(1), DescriptorFileName(1))>> \o SetCurrentFile(1)
  /\ UNCHANGED <<dirs, inodes, left_, durable, doubt>>

DestroyDB ==
  /\ Idle("down") /\ Names # {} /\ left_.repairs > 0
  /\ db' = [db EXCEPT !.pc = "repaired"]
  /\ todo' = <<DeleteAll(Names)>>
  /\ left_' = [left_ EXCEPT !.repairs = @ - 1]
  /\ durable' = {}
  /\ UNCHANGED <<dirs, inodes, doubt>>

\* RepairDB or DestroyDB returns
RepairReturns ==
  /\ Idle("repaired")
  /\ db' = Down
  /\ UNCHANGED <<dirs, inodes, todo, left_, durable, doubt>>

-----------------------------------------------------------------------------
(* Stops.                                                                  *)

ProcessStops ==
  /\ db.pc # "down" /\ left_.stops > 0
  /\ left_' = [left_ EXCEPT !.stops = @ - 1]
  /\ db' = Down /\ todo' = <<>>
  /\ UNCHANGED <<dirs, inodes, durable, doubt>>

\* What may be left of a file that reached a length: its synced records and n more, the next
\* one perhaps torn
Remains(f, length, n, torn) ==
  LET kept == SubSeq(f.recs, 1, f.synced + n)
      recs == IF torn /\ f.synced + n < length THEN Append(kept, Torn) ELSE kept
  IN  [recs |-> recs, synced |-> Len(recs)]

MachineStops ==
  /\ left_.crashes > 0 /\ Len(inodes) > 0
  /\ left_' = [left_ EXCEPT !.crashes = @ - 1]
  /\ db' = Down /\ todo' = <<>>
  /\ \E i \in 1..Len(dirs) :
       LET d == dirs[i]
           reached(j) == IF i = Len(dirs) THEN Len(inodes[j].recs) ELSE d.lengths[j]
           used == {d.names[f] : f \in DOMAIN d.names}
           cut == {j \in used : inodes[j].synced < reached(j)}
       IN  /\ dirs' = <<[d EXCEPT !.lengths = <<>>]>>
           /\ \E r \in [cut -> (0..2) \X BOOLEAN] :
                /\ \A j \in cut : r[j][1] <= reached(j) - inodes[j].synced
                /\ inodes' = [j \in 1..Len(inodes) |->
                     CASE j \in cut -> Remains(inodes[j], reached(j), r[j][1], r[j][2])
                       [] j \in used \ cut -> Remains(inodes[j], inodes[j].synced, 0, FALSE)
                       [] OTHER -> [recs |-> <<>>, synced |-> 0]]
  /\ UNCHANGED <<durable, doubt>>

DescInit ==
  /\ dirs = <<[names |-> [f \in {} |-> 0], lengths |-> <<>>]>> /\ inodes = <<>>
  /\ db = Down /\ todo = <<>>
  /\ left_ \in DescBudgets
  /\ durable = {} /\ doubt = FALSE

DescNext ==
  \/ FileCall \/ WriteBack \/ CallFails
  \/ OpenDB \/ RecoverVersions \/ RecoverLogFile \/ NewLog \/ SaveManifest \/ Install
  \/ \E sync \in BOOLEAN : WriteDB(sync)
  \/ WriteReturns \/ SwitchMemTable \/ CompactMemTable \/ StartMerge \/ FinishMerge
  \/ FindFiles \/ ConvertLogToTable \/ RepairTable \/ WriteDescriptor \/ DestroyDB \/ RepairReturns
  \/ ProcessStops \/ MachineStops

DescSpec == DescInit /\ [][DescNext]_descVars

-----------------------------------------------------------------------------
(* Properties.                                                             *)

InMemory == db.mem \cup (IF db.imm = NoImm THEN {} ELSE db.imm)

\* A durable write is in the database whenever that is open again, however often the process or
\* the machine stopped, a descriptor could not be written or the database was repaired, at
\* whichever call to the file system (db_impl.cc Recover, version_set.cc LogAndApply, repair.cc).
\* Durable is a synced write that returned when the directory was durable as well, the name
\* of its log included, and behind no torn record (WriteReturns)
DurableIsFound == db.pc = "running" => durable \subseteq InMemory \cup Contents(db.tables)

\* A database with such writes can be opened: Recover refuses it only while its descriptor is
\* the one RepairDB left unsynced, or where a failed append to the descriptor was
\* followed by another record (version_set.cc:866-884)
Reopens ==
  db.pc = "corrupt" /\ durable # {} =>
    doubt \/ /\ DescriptorFileName(Manifest) \in Names
             /\ Damaged(Records(DescriptorFileName(Manifest)))

\* Both
DescriptorSound == DurableIsFound /\ Reopens
=============================================================================
