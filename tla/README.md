# HHR: TLA+ models, checks and proofs

The repository is the iOS application HHR (`src/Prosjekt-kopi/HHR`) with the
libraries it is built from (`src/Prosjekt-kopi/Pods`). The application itself is
about a hundred lines of view controllers: it configures Firebase at launch and
shows storyboards. The logic that can go wrong is in the libraries, which are in
the repository as source: GeoFire's live geo queries, the leveldb in which
Firebase keeps its local data, nanopb, which encodes its messages, and
GTMSessionFetcher, which makes its HTTP requests. This directory specifies the
first three in TLA+, checks small instances with TLC and proves with TLAPS the
central invariants of the geo queries, of leveldb's write path and of its
environment.

## Inventory

| Part | State | Operations | Interacts with | What is hard | What makes it correct |
|---|---|---|---|---|---|
| **GFQuery** (`GFQuery.m`) | criterion, watched geohash ranges, Firebase handles, ranges still loading, known keys, observers | observe, observe ready, remove, set centre/radius/region, child added/changed/removed, initial data | Firebase calls its blocks; it dispatches blocks to the user's queue | events of dropped ranges, answers that arrive after a change, blocks that read state late | no listener left behind, known keys watched, `isInQuery` current, ready neither lost nor early, agreement with the stored data |
| **GeoFire** (`GeoFire.m`) | none of its own | setLocation, removeKey, getLocation | writes the Firebase location that GFQuery watches | order of local and remote writes | a completion block per write |
| **GeoHash arithmetic** (`GFGeoHash.m`, `GFGeoHashQuery.m`, `GFBase32Utils.m`) | none | encode, ranges for an area, join ranges | GFQuery | poles, date line, precision 0 | the ranges cover the area; joining keeps the union |
| **leveldb write path** (`db_impl.cc`) | writer queue, memtables, logs, background thread, background error | Write, CompactMemTable, log switch, Open | log files, descriptor, threads | group commit, unlocked phases, failures, crashes | one logger, atomic batches, acknowledged writes survive, every call returns |
| **leveldb versions and compactions** (`version_set.cc`, `db_impl.cc`) | levels, versions, live files, snapshots | pick, merge, install, delete files, CompactRange, reads | the write path | files shared by readers, entries of one key in two files, a flush in the middle of a merge | reads are those of a key-value store; live files kept; work never forgotten |
| **leveldb log** (`log_writer.cc`, `log_reader.cc`) | block offset; the reader's buffer | append, read from an offset | write path, descriptor | fragments at block ends, partial writes, corruption | what was appended is read; nothing else is |
| **leveldb descriptor** (`version_set.cc`, `db_impl.cc`, `repair.cc`, `filename.cc`) | MANIFEST, CURRENT, the files of the directory | create, open, recover, save, repair, destroy | file system | a stop between any two calls; unsynced files and names | synced writes are found; the database opens again |
| **leveldb memtable** (`skiplist.h`, `memtable.cc`, `arena.cc`) | nodes, links, height; blocks of memory | add, get, iterate | one writer, readers without locks | stores seen out of order | searches are right at their sequence number |
| **leveldb cache** (`cache.cc`, `table_cache.cc`) | hash table, two lists, reference counts | lookup, insert, release, erase, prune | threads that open tables | two inserts of a key; entries evicted while used | freed exactly when nobody uses them |
| **leveldb tables** (`table/`, `bloom.cc`, `comparator.cc`) | blocks, index, filters | build, seek, step, get | cache, compactions | edges of blocks and restart intervals, shortened keys, unreadable blocks | no entry skipped, repeated or hidden |
| **leveldb iterators** (`db_iter.cc`, `merger.cc`) | positions, direction | seek, next, prev | memtable, tables | changes of direction, deletions, concurrent writes | the snapshot, key by key |
| **leveldb environment** (`env_posix.cc`) | lock table, limits, queue | lock, open, schedule | processes, threads | fcntl locks belong to processes | one holder; limits kept; no item lost |
| **GTMSessionFetcher** | per-host running and delayed fetchers; a fetcher's task, retry timer, callbacks | begin, stop, finish, retry, upload chunks | NSURLSession, callback queues | stop racing completion, state set outside the lock | limit per host, no fetcher stranded, one callback |
| **nanopb** (`pb_encode.c`, `pb_decode.c`) | streams, a message's structure | encode, decode, skip | Firebase | lengths at their limits, other descriptions, callbacks | the reader gets what the writer said, or an error |
| **GoogleToolboxForMac** | none | zlib wrapper | Firebase | - | - |
| **HHR application** | the presented view controllers | launch, segues, close popup | UIKit, Firebase | - | Firebase configured before use |
| **Firebase** | binary frameworks | - | everything | - | external: modelled from its use |

`PROJECT.json` lists the parts with their sources, the hazards of the code line
by line, and for every definition the lines it models.

## Modules

| Module | Models |
|---|---|
| `GFQuery` | GFQuery.m with its circle and region subclasses, the Firebase observers it attaches and the queue of its blocks |
| `MCGFQuery`, `MCGFQuery_*.cfg` | instances of it |
| `GFQueryProofs` | theorems about its state, the order of its blocks and what it knows when it is quiet |
| `DBWrite` | leveldb's `DBImpl::Write` and all it needs: writer queue, groups, memtable switch, background thread, crash and `DB::Open` |
| `MCDBWrite`, `MCDBWrite_*.cfg` | instances of it |
| `DBWriteQueueProofs` | theorems about its threads: types, the writer queue, one logger |
| `DBWriteProofs` | theorems about its data: atomicity, visibility, what survives a crash |
| `KVStore` | what leveldb's interface promises: a map, snapshots, reads of one state |
| `VersionSet` | versions, lookups in them, the choice of the next compaction |
| `DBStore` | the store over `VersionSet`: flushes, compactions, files, snapshots, readers; implements `KVStore` |
| `MCDBStore`, `MCDBStore_*.cfg` | instances of it |
| `VersionSetProofs` | what the operators of `VersionSet` return |
| `DBStoreProofs` | theorems about `DBStore`: types, files that are needed, work that is scheduled |
| `DBStoreOrderProofs` | theorems about `DBStore`: newer entries above older ones, levels without overlap, the refinement of `KVStore` |
| `LogFormat` | `log::Writer` and `log::Reader` |
| `LRUCache` | the cache and the threads of `TableCache` |
| `MemTable` | skip list, arena, memtable, with a reader under the orderings of `AtomicPointer` |
| `PosixEnv` | the LOCK file, limits of open files, the background queue |
| `PosixEnvProofs` | theorems about it |
| `Descriptor` | creation, MANIFEST and CURRENT, recovery, repair, on a file system that loses unsynced data |
| `Table` | table files with their index and filters, and their iterators |
| `Iterators` | `DBIter` over `MergingIterator` |
| `IteratorsProofs` | theorems about `Iterators`: it reads its snapshot |
| `NanoPB` | nanopb's encoder and decoder |
| `MCMessages` | the exchanges of messages that are explored |
| `MCParts`, `MCParts.cfg` | instances of the eight modules from `LogFormat` to `NanoPB` |

Operators marked `Mutant` in a comment are plausible slips in the definition that
follows them; putting one in place of its definition makes TLC report the
property named beside it in `PROJECT.json`. The specifications do not use them.

### GFQuery

All of GFQuery's handlers run under `@synchronized(self)`, so each one is one
action. What interleaves are the user's calls, Firebase's events and the blocks
of the callback queue.

- *Object*: `criteria`, `queries` (`NoQueries` for nil), `firebaseHandles`,
  `outstandingQueries`, `locationInfos`, `observers`, `currentHandle` are its
  properties. A handle is the number of a registration; an entry of
  `firebaseHandles` survives the removal of its range, as in the code, which
  removes the wrong key (line 364).
- *Data*: a geohash is a cell, a range the set of its cells, a criterion an
  abstract value with its `Area` and its ranges `QueriesFor`. That the ranges
  cover the area is `CoverAssumption`, which the geohash arithmetic is to satisfy
  and which is not checked here. `QueriesFor` is never empty, so `observeReadyWithBlock:` on a query
  without ranges never finds `outstandingQueries` empty after `updateQueries`.
- *Blocks*: `callbacks` is a sequence of batches. The blocks of one batch come
  from enumerating one dictionary, so their order is open. A block that reports a
  location holds the info object: `Live` stands for "read when run", and `Frozen`
  fixes the location of blocks whose info object leaves `locationInfos`. The first
  block of a key-entered observer (`initial`) reads `locationInfos` when it runs.
- *Firebase* (external): a write gives an event to each synchronised listener
  whose range held or holds the key; `firebaseSync` delivers a range's initial
  data and then the value event of each single-event observer of it, also of
  those whose listeners were removed since; `firebaseGet` answers
  `childRemoved:`'s read. Firebase calls no block of a removed listener.
- *Bounds*: `MaxHandle`, `MaxRegistrations`, `MaxWrites`, `MaxRemovals`,
  `MaxCriteriaChanges`. `WritesWhileLoading` separates the instances in which
  stored values change while a range is loading.

Left out: user blocks that call the query again while they run, and Firebase's
own retries. Everything else that changes a query is an action.

### DBWrite

Code under `mutex_` is atomic up to where the mutex is released; `mutex` names
the thread that keeps it across two actions (the loop of `MakeRoomForWrite`).
Unlocked phases are separate actions: append, sync, each single insertion into
the memtable, building a table, writing the descriptor.

- *Threads* call `Write` with a batch (with or without sync) or
  `TEST_CompactMemTable`, which is `Write` with a NULL batch followed by waiting
  for `imm_`. `pc` is where a thread is; `sleeping` and `bgSleeping` are the
  threads blocked on their own condition variable and on `bg_cv_`: a signal takes
  them out, so a lost wake-up would show.
- *Groups*: `BuildBatchGroup` is the longest run of the queue that may join: a
  sync write only behind a sync write, at most `MaxGroup` batches (all batches
  have the same size), NULL batches always.
- *Storage*: a log is the sequence of its records and how many of them were
  synced, a table the set of its entries. `manifest` is what the descriptor on
  disk says; its field `named` is the newest log whose name is on the disk.
  `PosixWritableFile::Sync` syncs the directory only for a descriptor
  (`SyncDirIfManifest`, env_posix.cc:250-281), so a log that `RoomSwitch` has just
  created is `Unnamed`, whatever is synced in it, until `WriteManifest` or `Open`. `tables`, `numLevel0`, `logNumber`, `lastSequence` are the
  `VersionSet` in memory. A merge of tables only changes the number of level-0
  files; it may compact a memtable in between (`nested`), and goes on after a
  background error, as the code does.
- *Failures*: `Fails(kind)` for append, partial append (`torn`), sync, new log,
  table, descriptor. A failed sync leaves the record in the file; a failed
  descriptor write leaves the edit or nothing, and the directory synced or not
  (`HalfApplied`).
- *Crash and Open*: a process crash keeps every file; a machine crash cuts any
  part of each log that was not synced, and may lose an unnamed log altogether
  (`Remains`; such a log is then an empty one, which `Open` does not tell from one
  that is gone). That the descriptor that `Open` wrote is found by its name in
  `CURRENT` after a crash is assumed here; `Descriptor` loses these names too. `Open` replays the logs from the
  descriptor's log number on, in one action: until its descriptor is written it
  changes nothing that another `Open` would see. One level-0 table per non-empty
  log is exact here because `MakeRoomForWrite` leaves a log as soon as its
  memtable is full.
- *Bounds*: `MaxCalls`, `MaxFailures`, `MaxCrashes`; `write_buffer_size` and the
  level-0 triggers are small so that every branch of `MakeRoomForWrite` is taken.

Left out: keys and values (order is by sequence number), levels and manual
compactions (`DBStore`), `reuse_logs` and errors of `Open` (`Descriptor`), the
destructor. Logs are shorter than one block, so a partial record hides the rest
of its log (`LogFormat` has the blocks).

### VersionSet and DBStore

An entry is known by its sequence number: `hist` says which key it is of and
whether it is a deletion. A table file is its set of entries with the bounds of
its `FileMetaData`; a version maps levels to sets of file numbers. `Lookup` is
`Version::Get`, level by level; `PickLevelForMemTableOutput`, `PickCompaction`,
`SetupOtherInputs`, `CompactRange`, `ShouldStopBefore` and `Finalize` are
operators of `VersionSet`.

`DBStore` has one background thread that flushes (`BackgroundFlush`), moves or
starts a compaction (`BackgroundCompaction`), writes its outputs, and installs
them; a memtable that fills up meanwhile is flushed in the middle
(`NestedCompactMemTable`). Only this thread changes versions, so a flush is one
step although it unlocks the mutex; users and `CompactRange` interleave with its
steps. `reader` is a Get or an iterator in progress with the memtables, the
version and the sequence number it referenced; a Get charges a seek to the first
file that it read in vain, an iterator samples (`RecordReadSample`), and both can
cause a compaction. A failure sets `bg_error_`. When it happens inside a manual
compaction, `TEST_CompactRange` takes `manual_compaction_` back and the thread
then reads a NULL pointer: `bg` becomes `"crashed"`.

`KVStore` is the abstract specification. The refinement maps its store to what
Get finds now, its snapshots to what Get finds at their sequence numbers, and its
reads to what the reader under way finds, by Get's search or by an iterator's
merge. `ImplementsKVStore` says that only a write changes any of it.

Left out: sharing the log (`DBWrite`), the destructor. Sizes are numbers of
entries.

### The parts below

- `LogFormat`: a byte knows its record, its place and its fragment's header, so
  that forged records would show. `AddRecord` emits fragment by fragment; an
  append may fail at any byte, and later ones go on behind what it left; when only
  the trailer of a block fails, the fragment still follows, since `AddRecord` does
  not look at the result of that append; a stop
  cuts the file anywhere, and the next writer may append to it (`reuse_logs`); a
  reader starts at any initial offset, and a read of the file may fail.
- `LRUCache`: the methods are steps under the shard's mutex. The hash table is
  there with its chains and growth; threads look up, open, insert, release, erase
  and prune in any order.
- `MemTable`: each store to a link is a step, a load returns any value that the
  reader's view allows, and an acquire load moves the view. A reader that
  followed an unwritten link would be at `"garbage"`.
- `PosixEnv`: a close of any descriptor of the LOCK file gives up the process's
  lock, as POSIX says; `gaveUp` records it, and `LockExcludes` says that this is
  the only way in which two processes hold the lock. Two threads of one process
  never do.
- `Descriptor`: every call to the file system is a step, which may fail, and after
  which the process or the machine may stop. A machine that stops loses any tail
  of what was not synced of each file, and the last directory operations since
  the directory's sync. `durable` are the writes that must be found
  from then on: those that returned after a sync while the directory was durable as
  well, the name of their log included, and behind no torn record of the log or
  the descriptor. A synced write in a log whose name the directory has not got yet is
  not one of them, as in `DBWrite`. `doubt` says that
  RepairDB, which does not sync, wrote the descriptor.
- `Table`: real blocks with shared prefixes, restart points, an index of shortened
  keys and Bloom filters with small parameters; blocks may become unreadable.
- `Iterators`: `MergingIterator` and `DBIter` step by step, with a writer between
  any two of the calls that `DBIter` makes.
- `NanoPB`: integers have 5 and 8 bits for the code's 32 and 64, a varint's group
  has 3 for 7, a word of `fields_seen` 2 for 32. `Items` is the reference: the tags
  and values that a message consists of, independent of the encoder; `Reading` is
  what a description makes of them. `RECURSIVE` operators are used only here and
  in `Table`.

## Runs

| Run | Instance | Checks | Shows |
|---|---|---|---|
| `query_safety` | 1 key, 3 locations in 2 cells and a malformed value, 2 criteria that share no range, 3 handles, 1 write, 1 removal, 1 change of criterion | `TypeOK`, `NoOrphanListener`, `KnownKeysWatched`, `InQueryAgreesWithCriteria`, `OutstandingWillLoad`, `BlocksHaveLocation`, `EventsFollowEntered` | holds; 1.3 million states |
| `query_steady` | 1 criterion of two ranges, 3 writes, none while loading, no removals | `QuiescentAccurate`, `ReadyMeansLoaded` | holds: without the two races below the query is exact |
| `query_live` | criterion changes, a removal, fairness | `ReadyEventually` | holds |
| `query_ghost` | as steady, writes while loading | `QuiescentAccurate` | **violated**: a key that moves to a range still loading and is then deleted stays in the query |
| `query_premature` | a range dropped and watched again | `ReadyMeansLoaded` | **violated**: ready before the data, against GFQuery.h |
| `write_safety` | 3 threads (symmetric), 3 calls, batches of 2 entries, groups of at most 2, one failure of any kind but `torn`, one crash of either kind, of which the machine's may lose a log's name | `TypeOK`, `OneLogger`, `BatchesAtomic`, `AckedVisible`, `NoLossOnProcessCrash`, `SyncedSurvive`, `SequenceOrder` | holds; 1.0 million states |
| `write_live` | 2 threads, 3 calls, one failure, fairness | `CallsReturn` | holds |
| `write_torn` | a partial append instead of a clean one | `NoLossOnProcessCrash` | **violated**: later acknowledged writes are behind the partial record, against options.h |
| `store` | 2 keys, 4 levels, files of at most 4 entries; 7 budgets of up to 4 writes, a snapshot, a reader, a `CompactRange`, an error | `TypeOK`, `NewerAbove`, `LevelsDisjoint`, `NeededFilesExist`, `WorkIsScheduled`, `ImplementsKVStore` | holds; 179 thousand states |
| `store_boundary` | files of 2 entries, so that a compaction splits a key's entries; 3 writes, a snapshot, a `CompactRange` | `NewerAbove` | **violated**: an older entry above a newer one, against version_set.cc:346-348 |
| `store_gap` | 3 keys, 5 writes, a `CompactRange` | `LevelsDisjoint` | **violated**: a memtable flushed between the inputs of a manual compaction overlaps its output, against the assertion of version_set.cc:766-768 |
| `parts` | one part at a time, see below | `LogReadsBack`, `NoForgedRecords`, `CacheConsistent`, `InsertMakesRoom`, `MemTableSound`, `LockExcludes`, `EnvSound`, `TableSound`, `IteratorReadsSnapshot`, `DescriptorSound`, `CodecSound` | holds; 1.4 million states |

`parts` puts the eight modules, which share no variable, into one run: `part` says
which of them a behaviour is about, and the others stay in an initial state. Its
states are the sum of theirs. The instances:

| Part | Instance |
|---|---|
| log | blocks of 6 bytes with headers of 2, up to 3 records of 0 or 9 bytes, one fault of any kind |
| cache | 1 shard of capacity 2, 3 keys that collide and make the table grow, charges 1 and 2, 2 threads, 3 entries |
| memtable | 2 keys, height 2, 3 entries in batches of 1 or 2, 2 operations of the reader; blocks of memory that an entry overflows |
| lock, limit, queue | 3 threads in 2 processes; 3 threads, 1 mapping, 1 descriptor; 2 items |
| descriptor | 1 write and: 2 stops of the machine; or one with a failing call, a repair or a compaction; or stops of the process, also with `reuse_logs` |
| table | 6 internal keys of 4 user keys, restart interval 2, blocks of 20 bytes, a filter per 40 bytes, one failed append or bad block |
| iterator | any 3 old entries of 2 keys in 2 children, deletions or not, 1 new entry, calls without bound |
| nanopb | the pairs of descriptions in `MCMessages`: every kind of field and allocation, narrower readers, unknown fields, missing required fields, packed and unpacked arrays, oneofs, extensions, callbacks, short buffers, cut and concatenated bytes |

The bounds are small because the behaviours are short. One key is enough for
`GFQuery`, whose handlers never relate two keys; three handles allow an observer
of entries, one of exits or moves and one of ready; one change of criterion
together with one removal lets a range be dropped and watched again. Three
writers are needed for a leader, a member and a writer that must wait; two
entries per batch for a batch that is half inserted; one failure and one crash in
any order for recovery after an error. Three entries of a store reach three
levels and level 0 over its trigger; a level of three files is not needed for any
branch of `SetupOtherInputs`. Records of 9 bytes have a first, a middle and a
last fragment. Deadlock is not checked: the systems may rest once the bounded
calls are used up and nothing is pending; `CallsReturn`, `ReadyEventually` and
`WorkIsScheduled` say that nobody is left waiting.

What the passing runs exclude, because it is known to fail:

- `query_safety`: `EventsFollowEntered` does not ask for an entry of a key that was
  in the query when the observer was registered. GeoFire's README promises it for
  every key, but such a key may leave before the observer's first block runs.
- `query_steady`: writes while a range loads, changes of the criterion
  (`query_ghost`, `query_premature`).
- `write_safety`: partial appends (`write_torn`). `SyncedSurvive` excepts the synced
  batches in a log whose name is not on the disk (`Exposed`): `MakeRoomForWrite`
  creates the log, a `Write` with sync is acknowledged after `fdatasync` of the
  log, and before the memtable that was switched out is in the descriptor the machine
  stops; the log is gone with its name. Without the exception TLC finds this
  in 11 states. It is no finding, since options.h:198-201 promises no more than a
  `write()` followed by an `fsync()`, which leaves a new file's name open too. The
  second part of the property says how far the exception goes: only the current
  log can be without a name, and only while the memtable before it waits for its
  compaction.
- `store`: a compaction that splits the entries of one key (`store_boundary`), and
  enough keys for a gap between two of them (`store_gap`).
- `descriptor`: a stop of the machine with `reuse_logs`. `NewDB` closes its
  descriptor without a sync, and a database that goes on with that descriptor may
  not open after such a stop. The option is experimental and off.
- `descriptor`: synced writes that are not `durable` in the sense above.
- `nanopb`: arrays that start with a zero in a proto3 submessage, which
  `pb_check_proto3_default_value` takes for an empty one; a callback that changes
  its mind between the sizing and the writing is excluded only from the
  comparison of sizes. With a number of required fields that is a multiple of 32,
  `pb_decode` shifts by 32 bits, which is undefined: `overshift` is the 0 that
  makes the comparison come out right.

**Fairness.** `GFQuery`: the server answers pending reads and loads, and the two
serial queues run their blocks (weak fairness of each). `DBWrite`: a thread or
the background thread that stays able to run runs (weak fairness); the scheduler
and the mutex guarantee no less, and only finitely many calls compete for the
mutex. Neither assumes that users call or that stored data changes.

## Proofs

### Geo queries

`GFQueryProofs` proves, for all sets of keys, locations, criteria and ranges that
satisfy `DataAssumption`, and all bounds:

- `TypeCorrect`: `Spec => []TypeOK`
- `NoOrphans`: `Spec => []NoOrphanListener`
- `KnownKeysStayWatched`: `Spec => []KnownKeysWatched`
- `InQueryIsCurrent`: `Spec => []InQueryAgreesWithCriteria`
- `ReadyNotLost`: `Spec => []OutstandingWillLoad`
- `LocationsReported`: `Spec => []BlocksHaveLocation`

None of them is inductive alone. `IInv` adds: `RegistrationsOK`, handles and
listeners carry numbers already given out, and different ranges different ones
(without it a new registration could share the number of an old listener and be
detached with it); `EventsOK`, the events on their way are typed and carry keys
(an event for an attached listener speaks of the listener's own range, which is
how a key learnt from it is known to be watched); `BlocksOK`, a pending `Live`
block is of a key that is still known, and any other block that reports an entry
or a move already carries a location. Each action has a lemma; `updateQueries`
and `reset`, which several actions call, have their own.

It goes on from `IInv`:

- `EntersComeFirst`: `Spec => EventsFollowEntered`, an action property, for the
  same constants. `OrderInv` carries it: a queued exit or move was *told*, that is,
  for every earlier observer of entries the key was heard, was in the query when
  the observer came, or is in a batch ahead (`Ordered`); and so is every key now in
  the query, for the blocks still to be dispatched (`Aware`). Observers' handles
  grow, so that one who comes later asks nothing of the blocks queued before it.
- `ReadyIsNotEarly`: `SetUpOnce` gives `Spec => []ReadyMeansLoaded`. `LoadInv`: an
  outstanding range has one single-event observer, or its value event is queued,
  once; a listener that is not synchronised has such an observer.
- `QuietQueryIsAccurate`: `Undisturbed` gives `Spec => []QuiescentAccurate`.
  `AccurateInv` says of each key that the range that holds its value has still to
  load, or that the queue of events is `Settled`: from some batch on, which has an
  event that tells the value (or from now on, if it is known), no event says
  otherwise. A value that no range holds is dually forgotten, or an event or a
  read under way will see to it.

`SetUpOnce` (observers stay, one criterion) and `Undisturbed` (with it, nothing is
written while a range loads and every value has a location) are needed: the runs
`query_premature` and `query_ghost` show the properties violated without them, and
a stored value that lost its location leaves its key where it was. TLC checked
`AccurateInv` on the instance of `query_steady` and on overlapping ranges first.

### The write path

For any sets of threads and failures that satisfy `DBWriteAssumption`, any
number of calls, failures and crashes, and batches, groups, memtables and
level-0 triggers of any size, `DBWriteQueueProofs` proves

- `DBWriteTypes`: `Spec => []TypeOK`
- `DBWriteOneLogger`: `Spec => []OneLogger`

and `DBWriteProofs`, each from `"torn" \notin Failures`,

- `DBWriteAtomicBatches`: `Spec => []BatchesAtomic`
- `DBWriteAckedVisible`: `Spec => []AckedVisible`
- `DBWriteNoLoss`: `Spec => []NoLossOnProcessCrash`
- `DBWriteSyncedSurvive`: `Spec => []SyncedSurvive`
- `DBWriteSequenceOrder`: `Spec => []SequenceOrder`

The hypothesis is needed: `write_torn` shows `NoLossOnProcessCrash` violated when
an append may stop in the middle of a record. All other failures (append, sync,
new log, table, descriptor), and crashes of the process and of the machine at
any step, are covered. `SyncedSurvive` has its exception in the theorem as in the
run: a synced batch survives the machine unless the only log it is in was created
since the descriptor was last synced.

The argument has three inductive invariants. `Inv` is about who runs:

- `QueueInv` and `GroupInv`: `writers_` has no thread twice and has exactly the
  threads inside `Write`; only its head can be in `MakeRoomForWrite`, the log or
  the memtable; the head's group is a prefix of the queue and its members sleep.
  `OneLogger` is a part of it.
- `CallInv`: different threads inside a call have different calls. Without it one
  writer's numbers could be given to another's batch.
- `BackgroundInv`: a step of the background thread finds the memtable and the
  number of level-0 files it started with, and the descriptor's level 0 never has
  fewer files than the version's while an edit is under way. That is what keeps
  `numLevel0` a natural number, so even `TypeOK` needs it.
- `ClosedInv`, `LogFileInv`, `NumberInv`: nothing runs while the database is
  closed; the current log exists and is the newest file.

`DataInv` is about where each batch is, relative to `Inv`:

- `RecordsInv`: records are whole; after a crash what is left is on the disk.
- `LoggerInv`: the batches of the group under way have the numbers that follow
  `LastSequence`, in the order of the group, and each is in the current log
  (synced, if its call asks for it) before any entry of it is in the memtable.
- `NumbersInv`, `ApartInv`: whatever is in a log or a table has numbers, which are
  not after `LastSequence` or belong to the group under way; no two batches share
  one. The descriptor's tables are covered by the sequence number the descriptor
  names, so `Open` does not give out old numbers again.
- `MemInv`, `ImmInv`: a batch in a memtable is there as a whole, unless its group
  is being inserted, and is in a log that `Open` would read.
- `TablesInv`, `EditInv`: the descriptor has at least the version's tables, and the
  log it names leaves out only what its tables have. An edit that was written but
  not applied, because `LogAndApply` failed after the append, is why these speak
  of both.
- `SafeInv`, over the batches `Promised` (acknowledged, or whose writer was already
  told so and has not returned): each is whole in the memtable, in `imm_` or in the
  tables. `PromisedInv`: nothing is promised to a writer still waiting.
- `OnceInv`, `SeenInv`: a call gets its numbers once, after those of every write it
  saw acknowledged.
- `ClosedDataInv`: between a crash and `Open`, `NoLossOnProcessCrash` itself.

`NamesInv` is about the names of logs: only the current log can be without one, while
`imm_` waits, and none is without one when the edit that replaces `imm_` is in the
descriptor, whose `Sync` was also the directory's. With `DataInv` it gives
`SyncedSurvive`: what is acknowledged with sync and is not `Exposed` is in the tables, or
synced in a log with a name that `Open` would read.

`BatchCount`, the entries of a batch, makes sequence numbers products of two
variables; the lemmas `ProductIsNat`, `MultiplesApart` and `GroupNumbers` keep that
arithmetic out of the steps. Where a proof wants induction over a sequence or an
interval, it takes the least number with a property (`LeastNumber`) instead.

TLC checked `Inv` and `DataInv` on the instance of `write_safety` before they were
proved.

### Versions and compactions

`DBStoreProofs` proves, for any keys, levels, triggers, size limits and budgets that
satisfy `VersionAssumption`, `LimitAssumption` and `StoreAssumption`,

- `NoLostWakeup`: `Spec => []WorkIsScheduled`
- `StoreIsSound`: `Spec => []StoreInv`
- `StoreTypes`: `Spec => []TypeOK`
- `NeededFilesStay`: `Spec => []NeededFilesExist`

`WorkIsScheduled` is inductive as it stands. `NeededFilesExist` is not: that the
files of a new version are on disk needs that a compaction's inputs are files of the
version it was chosen from, that a moved file or the file to compact is in the
current version, and that a number is given out once. `StoreInv` says so, in seven
parts: the entries in the memtables were written (`EntriesOK`); a table on disk has
entries, its ends among them, and a number below `next_file_number_` (`DiskOK`); the
current version, its file to compact and the reader's version are of such tables
(`CurrentOK`, `ReaderOK`); so are a compaction's inputs, at least one of them, with a
level below (`JobOK`); a `CompactRange` is at a level with a next one (`CallerOK`);
snapshots are sequence numbers (`SnapshotsOK`). TLC checked `StoreInv` on the
instance of `store` before it was proved.

The steps rest on `VersionSetProofs`, which says what the choices return: the level
with the best score exists and has files if it is over its limit (`BestLevel`, by
cross products of the fractions); the files of a level can be sorted (`SortedFiles`)
and have ends (`RangeEnds`); a range that a level-0 file reaches out of only widens,
so the inputs hold the file they started from (`OverlapHas`); a charged file has a
level below (`FirstOfSeveral`: of two files to search, the first is not in the last
level). Functions that are defined by recursion over an interval exist by
`RecursiveFunction` and keep their range by `RecursiveMember`, both proved from the
least number for which they would fail. `LimitAssumption` says that
`MaxBytesForLevel` is a positive number, which follows from `VersionAssumption`, but
the provers do not compute powers.

`DBStoreOrderProofs` proves, for the same constants,

- `OrderIsKept`: `Spec /\ []Unsplit => []OrderInv`
- `NewestFirst`: `Spec /\ []Unsplit => []NewerAbove`
- `NewestFirstWithoutSnapshots`: `Spec /\ [](snapshots = <<>>) => []NewerAbove`
- `LevelsStayDisjoint`: `Spec /\ []NoGap => []LevelsDisjoint`
- `LevelsDisjointWithoutManual`: `Spec /\ []~manual => []LevelsDisjoint`
- `StoreImplementsKV`: `Spec /\ []Unsplit /\ []NoGap => ImplementsKVStore`
- `PlainStoreImplementsKV`: `Spec /\ [](snapshots = <<>>) /\ []~manual => ImplementsKVStore`

The hypotheses are needed, and name what the code does not prevent. `Unsplit`: no
user key is in two outputs of a compaction. `DoCompactionWork` closes an output
without looking at the user key, and `store_boundary` shows `NewerAbove` broken by
it. That takes two entries of a key that are both kept, which only a snapshot can
cause: without one `smallest_snapshot` is the last sequence number, all but the
newest entry of a key are dropped (`OneOfEachKey`), and `WholeInv` carries
`Unsplit`. `NoGap`: a file that comes into the outputs' level while a compaction
runs is beside all its inputs of the level above. `store_gap` shows a memtable
flushed between them, and `LevelsDisjoint` broken. That takes a gap between the
inputs, which only those of `CompactRange` have: `PickCompaction` starts
from one file and adds what the range of the files so far overlaps
(`InputsConnected`, by way of the rounds of `GetOverlappingInputs` in level 0,
`Level0Side`), so that a range that misses every input is beside all of them, and
`PickLevelForMemTableOutput` goes below level 0 only with such a range. `GapInv`
carries `NoGap`. A split key does no harm to `LevelsDisjoint`.

`NewerAbove` is not inductive: a move or an installation puts entries into a level
that has others. `OrderInv` adds `KeysApart`, a key is in at most one file of a
level below 0, and, while a compaction runs, `InOrder`: its inputs are still files of
the current version; what its level keeps of their keys is newer; the outputs' level
has those keys only in inputs; the outputs hold entries of the inputs. That
`SetupOtherInputs` establishes this is `InputsApart` (in level 0 by `Level0Closed`:
the widening ends with a range that no file reaches out of), that a flush keeps it is
`PickedLevel`, that the outputs are pieces of the merged input is `OutputStructure`.
`DisjointInv` adds the same for the order of internal keys: files of the outputs'
level that were there at the start are inputs or `Beside` the inputs of the level
above, and the outputs are in the order of their numbers. TLC checked `OrderInv` and
`DisjointInv` on the instances of `store`, `store_boundary` and `store_gap`, the
states that break the hypotheses left out, before they were proved.

The refinement is proved through what is held and not through how it is searched. A
view `Shows` a set of entries at a sequence number if it has, of each key, the newest
entry up to that number, or nothing if that is a deletion; there is one such view.
What Get returns shows all that its memtables and its version hold (`Held`) if the
version is `Sorted`: newer entries above older ones, a key in one file of a level
below 0, no overlap there; an iterator's merge shows the same (`ViewsShow`). The rest
is about sets of entries. A write adds one
that only its key and later readers notice; a flush and a move change no set; an
installation takes away entries that are no longer needed (`InstalledShows`). For that
`ViewInv` says what a compaction relies on although others go on meanwhile:
`smallest_snapshot` is not above any snapshot, those taken after the compaction
started included, since the list is in order (`OldestInv`, `SnapInv`); an entry that
the outputs do not have is below a newer one that every reader sees, or is a deletion
of a key that the levels below cannot have (`HiddenInv`, from the drop rules by
`OutputsHide`); what came since the start into a level below the outputs' has no key of the
inputs (`LaterInv`). `ReadInv` says that a reader's
version stays sorted, and its files are not touched.

The steps map as their names say: `Write` to `Put` or `Delete`, `GetSnapshot` and
`ReleaseSnapshot` to theirs, `StartRead` to `StartRead`, `FinishGet` and
`DeleteIterator` to `EndRead`, all others to a stutter (`RefinementStep`). The
hypotheses are those of the theorems before; `PlainStoreImplementsKV` does without
them for stores that use neither snapshots nor `CompactRange`.

### Iterators

`IteratorsProofs` proves, for any user keys, number of children, entries and writes
that satisfy `IterAssumption`,

- `IteratorIsSound`: `IterSpec => []IterInv`
- `IteratorReadsItsSnapshot`: `IterSpec => []IteratorReadsSnapshot`

`IteratorReadsSnapshot` speaks of calls that have returned, so it says nothing of the
steps of a call, between which a writer may insert. `IterInv` has three parts.
`EntriesOK`: every entry has a sequence number of its own, and so one child, which is
why the child that the merge is at can be told from the others. `MergeOK`: no child
has passed a visible entry that the merge has not come to; it may have passed one
that was written meanwhile, whose sequence number is beyond the iterator's. `Sound`,
for each place a call can be at: `FindNextUserEntry` skips the keys up to
`saved_key_` and nothing visible from there on is behind it (`Forwards`); the loop of
`Prev` leaves only entries of the current key or later ones (`LeavesKey`);
`FindPrevUserEntry`'s candidate is the newest visible entry so far (`Backwards`); a
valid iterator that went back is before all entries of its key (`AtRest`). TLC
checked `IterInv` on the instance of `parts` and on one with three children and two
writes (1.5 million states) before it was proved.

Each step of the merge has a lemma of one form: exactly the visible entries after the
key, or before it, are still to come (`MergeNextFacts`, `MergePrevFacts`,
`MergeSeekFacts`), in whatever direction the merge went before. That a finite set of
numbers has a bound is proved from the well-foundedness of its subsets
(`FiniteBound`).

### The environment

`PosixEnvProofs` proves, for any threads, processes, limits and items,

- `LockIsExclusive`: `LockSpec => []LockExcludes`
- `LimitsHold`: `LimitSpec => []LimitsRespected`
- `NoWakeupIsLost`: `QueueSpec => []NoLostWakeup`
- `EnvIsSound`: `LimitSpec /\ QueueSpec => []EnvSound`

The lock's invariant says where each thread of a process is with the lock table
and the file's lock; that a process has the lock if one of its threads holds the
file, or else has given it up, is what makes the exclusion go through. The three
specifications are the parts of `PosixEnv` that `parts` runs one at a time.

### What stays with TLC

Everything under fairness (liveness is out of the prover's reach), and the
modules without a module of proofs. What `Table` and `NanoPB` compute is defined by
recursion and cannot be proved here. With snapshots and `CompactRange` together, that
`DBStore` implements `KVStore` is checked on the instances of `store`, and proved only
as long as `Unsplit` and `NoGap` hold.

## Plan

What is left is to prove more of what the runs check:

1. `LRUCache`: `CacheConsistent`'s reference counts.
2. `MemTable`: the skip list and the arena between two steps.

## Not modelled

- *GTMSessionFetcher*: queues per host, retries, chunked uploads. They have state
  worth a specification; the storage was given precedence.
- *GeoHash arithmetic*: floating-point degrees are beyond TLC. `GFQuery` assumes
  what it needs of it, that the ranges cover the area.
- *HHR application*, *GoogleToolboxForMac*, leveldb's C binding, checksums,
  statistics and fixed encodings: no state of their own, or a few lines of
  presentation.
- *Firebase*: binary frameworks; modelled as `GFQuery.m` uses them.
