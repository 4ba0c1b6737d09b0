--------------------------- MODULE DBWriteProofs ---------------------------
(***************************************************************************)
(* What DBWrite promises about the data: atomic batches, acknowledged      *)
(* writes that stay visible and survive crashes, and the order of sequence *)
(* numbers, for any number of threads, calls, failures and crashes, and    *)
(* batches, groups and memtables of any size.                              *)
(***************************************************************************)
EXTENDS DBWriteQueueProofs

-----------------------------------------------------------------------------
(* The inductive invariant.                                                *)

\* The batches that a log has, and those it has synced.
LogIds(l) == UNION {logs[l].records[k].ids : k \in 1..Len(logs[l].records)}
SyncedIds(l) == UNION {logs[l].records[k].ids : k \in 1..logs[l].synced}

\* The log l keeps the batch i as its write asked for.
KeptIn(i, l) == i \in LogIds(l) /\ (request[i].sync => i \in SyncedIds(l))

IdsOf(entries) == {e[1] : e \in entries}
Whole(entries) == \A e \in entries : EntriesOf({e[1]}) \subseteq entries

\* All numbers of the batch are given out and not after LastSequence.
Old(i) == sequence[i] >= 1 /\ sequence[i] + BatchCount - 1 <= lastSequence

Loggers == {t \in Threads : pc[t] \in Logging}
InFlight == UNION {GroupIds(t) : t \in Loggers}

\* The group's record is in the log, synced if it must be.
Inserting(t) == pc[t] = "insert" \/ (pc[t] = "relock" /\ status[t] = "ok")

\* No record is partial, and a crash leaves nothing that is not on the disk.
RecordsInv ==
  \A l \in DOMAIN logs :
    /\ logs[l].synced <= Len(logs[l].records)
    /\ ~open => logs[l].synced = Len(logs[l].records)
    /\ \A k \in 1..Len(logs[l].records) : logs[l].records[k].whole

\* The batches of the group that is written: their numbers follow the last one,
\* their record is in the current log before they are in the memtable.
LoggerInv ==
  \A t \in Loggers :
    /\ \A k \in 1..Len(group[t]) :
         /\ op[group[t][k]].sync => op[t].sync
         /\ op[group[t][k]].batch =>
              sequence[op[group[t][k]].id] = SequenceOf(WithBatch(group[t], k))
    /\ pc[t] = "sync" \/ Inserting(t) => GroupIds(t) \subseteq LogIds(logfile_number_)
    /\ Inserting(t) => \A i \in GroupIds(t) : KeptIn(i, logfile_number_)
    /\ pc[t] = "relock" /\ status[t] = "ok" => EntriesOf(GroupIds(t)) \subseteq mem_

\* A call gets its numbers once, with its group.
OnceInv ==
  /\ \A t \in Threads : InQueue(t) /\ sequence[op[t].id] # 0 => op[t].id \in InFlight
  /\ \A i \in Calls : i > calls => sequence[i] = 0

\* What is in a log or a table has numbers.
NumbersInv ==
  /\ \A l \in DOMAIN logs : \A i \in LogIds(l) :
       sequence[i] >= 1 /\ (open => Old(i) \/ i \in InFlight)
  /\ \A i \in IdsOf(manifest.tables) :
       sequence[i] >= 1 /\ sequence[i] + BatchCount - 1 <= manifest.sequence
  /\ manifest.sequence <= lastSequence

\* Two batches have no number in common.
Apart(i, k) ==
  sequence[i] + BatchCount <= sequence[k] \/ sequence[k] + BatchCount <= sequence[i]

\* The batches that are somewhere.
Live == IdsOf(manifest.tables) \cup (UNION {LogIds(l) : l \in DOMAIN logs}) \cup InFlight

ApartInv == \A i, k \in Live : i # k => Apart(i, k)

\* The memtable has whole batches, but for the group that is being inserted;
\* each is in the current log.
MemInv ==
  \A e \in mem_ :
    /\ KeptIn(e[1], logfile_number_)
    /\ \/ Old(e[1]) /\ EntriesOf({e[1]}) \subseteq mem_
       \/ \E t \in Loggers : Inserting(t) /\ e[1] \in GroupIds(t)

\* So has the memtable that is compacted; its logs are not deleted.
ImmInv ==
  imm_ # NoImm =>
    /\ Whole(imm_)
    /\ \A e \in imm_ :
         /\ Old(e[1])
         /\ \E l \in DOMAIN logs : l >= logNumber /\ KeptIn(e[1], l)

TablesInv ==
  /\ Whole(tables) /\ Whole(manifest.tables)
  /\ tables \subseteq manifest.tables

\* The edit that is written: what it adds, and from which log on it needs them.
\* The descriptor names a log that has all that no table of its has.
EditInv ==
  open =>
    /\ bgpc \in {"logging", "install", "installFailed"} =>
         edit.tables = imm_ /\ edit.log = logfile_number_
    /\ bgpc \in {"merged", "moving", "installMerge", "installMove"} =>
         edit.tables = {} /\ edit.log = logNumber
    /\ bgpc = "install" => manifest.log = edit.log /\ imm_ \subseteq manifest.tables
    /\ bgpc \in {"logging", "merged", "moving"} =>
         /\ manifest.sequence <= edit.sequence /\ edit.sequence <= lastSequence
         /\ \A i \in IdsOf(edit.tables) : sequence[i] + BatchCount - 1 <= edit.sequence
    /\ \/ manifest.log = logNumber
       \/ imm_ # NoImm /\ imm_ \subseteq manifest.tables /\ manifest.log = logfile_number_

\* The batches whose writers were, or will be, told that they are written.
Promised == acked \cup {op[t].id : t \in {t \in Threads :
                          pc[t] = "waiting" /\ done[t] /\ status[t] = "ok" /\ op[t].batch}}

\* The threads' calls: nothing was promised to one that waits for its turn, and
\* what it saw acknowledged still is.
PromisedInv ==
  /\ \A i \in Promised : i <= calls
  /\ \A t \in Threads : InQueue(t) => op[t].id \notin Promised
  /\ \A t \in Threads : pc[t] # "idle" => request[op[t].id].sync = op[t].sync

\* What was promised is whole in one place.
SafeInv ==
  open => \A i \in Promised :
    /\ Old(i)
    /\ EntriesOf({i}) \subseteq mem_ \/ EntriesOf({i}) \subseteq imm_ \/ EntriesOf({i}) \subseteq tables

\* A call's numbers are after those of the writes it saw acknowledged.
SeenInv ==
  /\ \A k \in Calls : \A i \in request[k].seen :
       /\ k <= calls /\ i # k /\ sequence[i] >= 1
       /\ sequence[k] # 0 => sequence[i] < sequence[k]
  /\ \A t \in Threads : InQueue(t) /\ sequence[op[t].id] = 0 => request[op[t].id].seen \subseteq acked

\* What DB::Open finds after a crash.
ClosedDataInv == ~open => NoLossOnProcessCrash

\* Only the current log can be without a name, and only while the memtable of
\* the one before it waits: compacting it syncs the descriptor.
NamesInv ==
  open => /\ \A l \in Unnamed : l = logfile_number_ /\ imm_ # NoImm
          /\ bgpc = "install" => Unnamed = {}

\* The invariants of the data, and those of the calls.
StoreInv ==
  /\ RecordsInv /\ LoggerInv /\ NumbersInv /\ ApartInv /\ MemInv /\ ImmInv
  /\ TablesInv /\ EditInv

DataInv ==
  StoreInv /\ OnceInv /\ PromisedInv /\ SafeInv /\ SeenInv /\ ClosedDataInv

-----------------------------------------------------------------------------
(* The group that is written.                                              *)

\* There is at most one logger, the head, and no one in MakeRoomForWrite then;
\* its group are writers that wait for it, each with its own call.
LEMMA LoggerFacts ==
  ASSUME Inv, NEW t \in Loggers
  PROVE  /\ t \in Threads /\ pc[t] \in Logging /\ open
         /\ \A u \in Threads : pc[u] \in Working => u = t
         /\ group[t] \in Seq(Threads) /\ Len(group[t]) \in Nat /\ Len(group[t]) >= 1
         /\ DOMAIN group[t] = 1..Len(group[t])
         /\ group[t][1] = t
         /\ \A k \in 1..Len(group[t]) :
              /\ group[t][k] \in Threads /\ InQueue(group[t][k])
              /\ op[group[t][k]].id \in Calls /\ op[group[t][k]].batch \in BOOLEAN
         /\ \A j, k \in 1..Len(group[t]) :
              op[group[t][j]].id = op[group[t][k]].id => j = k
         /\ GroupIds(t) \subseteq Calls
         /\ InFlight = GroupIds(t)
<1> USE TypeParts
<1>1. t \in Threads /\ pc[t] \in Logging /\ t \in Threads /\ pc[t] \in Working
  BY DEF Loggers, Working
<1>2. TypeOK /\ QueueInv /\ GroupInv /\ CallInv /\ ClosedInv
  BY DEF Inv
<1>3. open
  BY <1>1, <1>2 DEF ClosedInv, Logging
<1>4. \A u \in Threads : pc[u] \in Working => u = t
  BY <1>1, <1>2 DEF QueueInv
<1>5. group[t] \in Seq(Threads)
  BY <1>1, <1>2 DEF ThreadTypeOK
<1>6. Len(group[t]) \in Nat /\ DOMAIN group[t] = 1..Len(group[t])
  BY <1>5
<1>7. /\ Len(group[t]) \in 1..Len(writers_)
      /\ \A k \in 1..Len(group[t]) : group[t][k] = writers_[k] /\ k \in 1..Len(writers_)
  <2>1. Len(writers_) \in Nat
    BY <1>2 DEF SyncTypeOK
  <2> QED  BY <1>1, <1>2, <2>1 DEF GroupInv
<1>8. group[t][1] = t /\ Len(group[t]) >= 1
  BY <1>1, <1>2, <1>6, <1>7 DEF QueueInv
<1>9. \A k \in 1..Len(group[t]) :
        group[t][k] \in Threads /\ InQueue(group[t][k]) /\ op[group[t][k]].id \in Calls
  BY <1>2, <1>7, WritersAreInCalls
<1>10. \A u \in Threads : op[u].batch \in BOOLEAN
  BY <1>2 DEF ThreadTypeOK
<1>11. ASSUME NEW j \in 1..Len(group[t]), NEW k \in 1..Len(group[t]),
              op[group[t][j]].id = op[group[t][k]].id
       PROVE  j = k
  <2>1. op[group[t][j]].id # 0
    BY <1>9 DEF Calls
  <2>2. group[t][j] = group[t][k]
    BY <1>2, <1>9, <1>11, <2>1 DEF CallInv
  <2> QED  BY <1>2, <1>7, <2>2 DEF QueueInv
<1>12. GroupIds(t) \subseteq Calls
  BY <1>6, <1>9 DEF GroupIds
<1>13. Loggers = {t}
  BY <1>1, <1>4 DEF Loggers, Working
<1>14. InFlight = GroupIds(t)
  BY <1>13 DEF InFlight
<1> QED  BY <1>1, <1>3, <1>4, <1>5, <1>6, <1>8, <1>9, <1>10, <1>11, <1>12, <1>14

\* Without a logger no batch is in flight.
LEMMA NoLogger ==
  ASSUME \A t \in Threads : pc[t] \notin Logging
  PROVE  Loggers = {} /\ InFlight = {}
BY DEF Loggers, InFlight

\* In MakeRoomForWrite there is no logger.
LEMMA RoomHasNoLogger ==
  ASSUME Inv, NEW t \in Threads, pc[t] \in {"room", "delay", "bgwait"}
  PROVE  Loggers = {} /\ InFlight = {}
<1>1. ASSUME NEW u \in Loggers
      PROVE  FALSE
  <2>1. pc[t] \in Working
    BY DEF Working
  <2>2. t = u
    BY <2>1, LoggerFacts
  <2> QED  BY <2>2 DEF Loggers, Logging
<1> QED  BY <1>1 DEF InFlight

\* The ids of a group.
LEMMA GroupIdIs ==
  ASSUME Inv, NEW t \in Loggers, NEW i \in GroupIds(t)
  PROVE  \E k \in 1..Len(group[t]) : op[group[t][k]].batch /\ op[group[t][k]].id = i
BY LoggerFacts DEF GroupIds

\* The count of batches does not shrink along a group.
LEMMA WithBatchGrows ==
  ASSUME NEW g, NEW j \in Nat, NEW k \in Nat, j <= k
  PROVE  WithBatch(g, j) <= WithBatch(g, k) /\ WithBatch(g, j) \in Nat /\ WithBatch(g, k) \in Nat
<1> DEFINE S(n) == {m \in 1..n : op[g[m]].batch}
<1>1. \A n \in Nat : IsFiniteSet(S(n)) /\ WithBatch(g, n) = Cardinality(S(n))
  <2>1. \A n \in Nat : IsFiniteSet(1..n)
    BY FS_Interval
  <2>2. \A n \in Nat : S(n) \subseteq 1..n
    OBVIOUS
  <2>3. \A n : WithBatch(g, n) = Cardinality(S(n))
    BY DEF WithBatch
  <2> HIDE DEF S
  <2> QED  BY <2>1, <2>2, <2>3, FS_Subset
<1>2. S(j) \subseteq S(k)
  OBVIOUS
<1> HIDE DEF S
<1>3. Cardinality(S(j)) <= Cardinality(S(k))
  BY <1>1, <1>2, FS_Subset
<1> QED  BY <1>1, <1>3, FS_CardinalityType

\* A multiple of the batch size that is larger is larger by a batch.
LEMMA MultiplesApart ==
  ASSUME NEW a \in Nat, NEW b \in Nat, a < b
  PROVE  a * BatchCount + BatchCount <= b * BatchCount
<1> DEFINE d == b - a - 1
<1>1. d \in Nat /\ b = a + 1 + d
  OBVIOUS
<1>2. d * BatchCount \in Nat
  BY <1>1, ProductIsNat, ConstantFacts
<1>3. b * BatchCount = a * BatchCount + BatchCount + d * BatchCount
  <2>1. BatchCount \in Int
    BY ConstantFacts
  <2> HIDE DEF d
  <2> QED  BY <1>1, <2>1
<1>4. a * BatchCount \in Nat /\ BatchCount \in Nat
  BY ProductIsNat, ConstantFacts
<1> HIDE DEF d
<1> QED  BY <1>2, <1>3, <1>4

\* What the group g gives out: the k-th batch of all has the k-th range of
\* numbers after LastSequence, within those that GroupDone uses up.
LEMMA GroupNumbers ==
  ASSUME ThreadTypeOK, lastSequence \in Nat, NEW g \in Seq(Threads),
         NEW k \in 1..Len(g), op[g[k]].batch
  PROVE  LET s == SequenceOf(WithBatch(g, k))
         IN  /\ s \in Nat /\ s > lastSequence
             /\ s + BatchCount - 1 <= lastSequence + BatchCount * WithBatch(g, Len(g))
             /\ \A j \in 1..Len(g) : j < k => SequenceOf(WithBatch(g, j)) + BatchCount <= s
                                              \/ ~op[g[j]].batch
<1> DEFINE w == WithBatch(g, k)
           all == WithBatch(g, Len(g))
<1>1. k \in Nat /\ k \in 0..Len(g) /\ k # 0 /\ Len(g) \in Nat /\ k <= Len(g) /\ k - 1 \in Nat
  OBVIOUS
<1>2. WithBatch(g, k - 1) \in Nat /\ w = WithBatch(g, k - 1) + 1
  BY <1>1, WithBatchNumber
<1>3. w <= all /\ all \in Nat /\ w \in Nat
  BY <1>1, WithBatchGrows
<1>4. \A j \in 1..Len(g) : j < k => WithBatch(g, j) <= w - 1 /\ WithBatch(g, j) \in Nat
  <2> SUFFICES ASSUME NEW j \in 1..Len(g), j < k
               PROVE  WithBatch(g, j) <= w - 1 /\ WithBatch(g, j) \in Nat
    OBVIOUS
  <2>1. j \in Nat /\ j <= k - 1
    BY <1>1
  <2>2. WithBatch(g, j) <= WithBatch(g, k - 1) /\ WithBatch(g, j) \in Nat
    BY <1>1, <2>1, WithBatchGrows
  <2> QED  BY <1>2, <2>2
<1>5. \A j \in 1..Len(g) : op[g[j]].batch => WithBatch(g, j) >= 1
  <2> SUFFICES ASSUME NEW j \in 1..Len(g), op[g[j]].batch
               PROVE  WithBatch(g, j) >= 1
    OBVIOUS
  <2>1. j \in 0..Len(g) /\ j # 0
    OBVIOUS
  <2>2. WithBatch(g, j - 1) \in Nat /\ WithBatch(g, j) = WithBatch(g, j - 1) + 1
    BY <2>1, WithBatchNumber
  <2> QED  BY <2>2
<1> HIDE DEF w, all
<1>6. w - 1 \in Nat /\ all \in Nat /\ w - 1 < all
  BY <1>2, <1>3
<1>7. (w - 1) * BatchCount + BatchCount <= all * BatchCount /\ (w - 1) * BatchCount \in Nat
  BY <1>6, MultiplesApart, ProductIsNat, ConstantFacts
<1>8. all * BatchCount = BatchCount * all /\ BatchCount * all \in Nat
  BY <1>6, ProductIsNat, ConstantFacts
<1>9. SequenceOf(w) = lastSequence + 1 + (w - 1) * BatchCount
  BY DEF SequenceOf
<1>10. /\ SequenceOf(w) \in Nat /\ SequenceOf(w) > lastSequence
       /\ SequenceOf(w) + BatchCount - 1 <= lastSequence + BatchCount * all
  BY <1>7, <1>8, <1>9, ConstantFacts
<1>11. ASSUME NEW j \in 1..Len(g), j < k, op[g[j]].batch
       PROVE  SequenceOf(WithBatch(g, j)) + BatchCount <= SequenceOf(w)
  <2> DEFINE v == WithBatch(g, j)
  <2>1. v \in Nat /\ v >= 1 /\ v <= w - 1
    BY <1>4, <1>5, <1>11
  <2> HIDE DEF v
  <2>2. v - 1 \in Nat /\ v - 1 < w - 1
    BY <1>6, <2>1
  <2>3. (v - 1) * BatchCount + BatchCount <= (w - 1) * BatchCount /\ (v - 1) * BatchCount \in Nat
    BY <1>6, <2>2, MultiplesApart, ProductIsNat, ConstantFacts
  <2>4. SequenceOf(v) + BatchCount <= SequenceOf(w)
    BY <1>7, <1>9, <2>3, ConstantFacts DEF SequenceOf
  <2> QED  BY <2>4 DEF v
<1> QED  BY <1>10, <1>11 DEF w, all

\* The numbers of the batches in flight.
LEMMA InFlightNumbers ==
  ASSUME Inv, LoggerInv, NEW t \in Loggers, NEW i \in GroupIds(t)
  PROVE  /\ sequence[i] \in Nat /\ sequence[i] > lastSequence /\ ~Old(i)
         /\ sequence[i] + BatchCount - 1
              <= lastSequence + BatchCount * WithBatch(group[t], Len(group[t]))
<1>1. PICK k \in 1..Len(group[t]) : op[group[t][k]].batch /\ op[group[t][k]].id = i
  BY GroupIdIs
<1>2. sequence[i] = SequenceOf(WithBatch(group[t], k))
  BY <1>1 DEF LoggerInv
<1>3. group[t] \in Seq(Threads) /\ ThreadTypeOK /\ lastSequence \in Nat
  BY LoggerFacts, TypeParts DEF Inv, DataTypeOK
<1>4. /\ sequence[i] \in Nat /\ sequence[i] > lastSequence
      /\ sequence[i] + BatchCount - 1
              <= lastSequence + BatchCount * WithBatch(group[t], Len(group[t]))
  BY <1>1, <1>2, <1>3, GroupNumbers
<1>5. ~Old(i)
  BY <1>3, <1>4, ConstantFacts DEF Old
<1> QED  BY <1>4, <1>5

-----------------------------------------------------------------------------
(* Steps that leave the data alone.                                        *)

\* The batches of a log are calls.
LEMMA LogIdsAreCalls ==
  ASSUME TypeOK, NEW l \in DOMAIN logs
  PROVE  LogIds(l) \subseteq Calls
<1>1. logs[l].records \in Seq(Record)
  BY TypeParts DEF DataTypeOK
<1>2. \A k \in 1..Len(logs[l].records) : logs[l].records[k] \in Record
  BY <1>1
<1>3. \A k \in 1..Len(logs[l].records) : logs[l].records[k].ids \subseteq Calls
  BY <1>2 DEF Record
<1> QED  BY <1>3 DEF LogIds

\* The batches in flight stay the same when no logger, group or member does
\* anything else than to move on.
LEMMA SameInFlight ==
  ASSUME Inv, Loggers' = Loggers,
         \A u \in Loggers :
           /\ group'[u] = group[u]
           /\ \A k \in 1..Len(group[u]) : op'[group[u][k]] = op[group[u][k]]
  PROVE  /\ \A u \in Loggers : GroupIds(u)' = GroupIds(u) /\ op'[u] = op[u]
         /\ InFlight' = InFlight
<1>1. ASSUME NEW u \in Loggers
      PROVE  GroupIds(u)' = GroupIds(u) /\ op'[u] = op[u]
  <2>1. DOMAIN group[u] = 1..Len(group[u]) /\ group[u][1] = u /\ Len(group[u]) >= 1
        /\ Len(group[u]) \in Nat
    BY LoggerFacts
  <2>2. GroupIds(u)' = GroupIds(u)
    BY <2>1 DEF GroupIds
  <2> QED  BY <2>1, <2>2
<1>2. InFlight' = InFlight
  BY <1>1 DEF InFlight
<1> QED  BY <1>1, <1>2

\* What is kept in a log stays kept while the logs do not change.
LEMMA SameLogs ==
  ASSUME UNCHANGED logs
  PROVE  /\ \A l : LogIds(l)' = LogIds(l) /\ SyncedIds(l)' = SyncedIds(l)
BY DEF LogIds, SyncedIds

DataFrame == <<logs, mem_, imm_, tables, manifest, edit, bgpc, logNumber, logfile_number_,
               lastSequence, sequence, open>>

\* Steps of threads that wait, or are in MakeRoomForWrite.
LEMMA StoreUnchanged ==
  ASSUME Inv, StoreInv, UNCHANGED DataFrame, Loggers' = Loggers,
         \A u \in Loggers :
           /\ pc'[u] = pc[u] /\ status'[u] = status[u] /\ group'[u] = group[u]
           /\ \A k \in 1..Len(group[u]) : op'[group[u][k]] = op[group[u][k]],
         \A i \in Calls : sequence[i] # 0 => request'[i] = request[i]
  PROVE  StoreInv' /\ InFlight' = InFlight
<1> USE DEF StoreInv, DataFrame
<1>1. /\ \A u \in Loggers : GroupIds(u)' = GroupIds(u) /\ op'[u] = op[u]
      /\ InFlight' = InFlight
  BY SameInFlight
<1>2. \A l : LogIds(l)' = LogIds(l) /\ SyncedIds(l)' = SyncedIds(l)
  BY SameLogs
<1>3. \A i : (Old(i)' <=> Old(i)) /\ \A k : (Apart(i, k)' <=> Apart(i, k))
  BY DEF Old, Apart
<1>4. \A l \in DOMAIN logs : \A i : KeptIn(i, l) => KeptIn(i, l)'
  <2> SUFFICES ASSUME NEW l \in DOMAIN logs, NEW i, KeptIn(i, l)
               PROVE  KeptIn(i, l)'
    OBVIOUS
  <2>1. i \in LogIds(l) /\ i \in Calls
    BY LogIdsAreCalls DEF KeptIn, Inv
  <2>2. sequence[i] # 0
    BY <2>1, TypeParts DEF NumbersInv, Inv, HistoryTypeOK
  <2>3. request'[i] = request[i]
    BY <2>1, <2>2
  <2> QED  BY <1>2, <2>3 DEF KeptIn
<1>5. logfile_number_ \in DOMAIN logs
  BY DEF Inv, LogFileInv
<1>6. \A u : Inserting(u) /\ u \in Loggers <=> (Inserting(u) /\ u \in Loggers)'
  BY DEF Inserting
<1>7. RecordsInv'
  BY DEF RecordsInv
<1>8. LoggerInv'
  <2> SUFFICES ASSUME NEW u \in Loggers
               PROVE  /\ \A k \in 1..Len(group[u]) :
                           /\ op[group[u][k]].sync => op[u].sync
                           /\ op[group[u][k]].batch =>
                                sequence[op[group[u][k]].id] = SequenceOf(WithBatch(group[u], k))'
                      /\ pc[u] = "sync" \/ Inserting(u) => GroupIds(u) \subseteq LogIds(logfile_number_)
                      /\ Inserting(u) => \A i \in GroupIds(u) : KeptIn(i, logfile_number_)'
                      /\ pc[u] = "relock" /\ status[u] = "ok" => EntriesOf(GroupIds(u)) \subseteq mem_
    BY <1>1, <1>2, <1>6 DEF LoggerInv, EntriesOf
  <2>1. \A k \in 1..Len(group[u]) : WithBatch(group[u], k)' = WithBatch(group[u], k)
    <3> SUFFICES ASSUME NEW k \in 1..Len(group[u])
                 PROVE  WithBatch(group[u], k)' = WithBatch(group[u], k)
      OBVIOUS
    <3>1. Len(group[u]) \in Nat
      BY LoggerFacts
    <3>2. \A m \in 1..k : m \in 1..Len(group[u])
      BY <3>1
    <3>3. {m \in 1..k : op'[group'[u][m]].batch} = {m \in 1..k : op[group[u][m]].batch}
      BY <3>2
    <3> QED  BY <3>3 DEF WithBatch
  <2>2. \A k \in 1..Len(group[u]) : SequenceOf(WithBatch(group[u], k))' = SequenceOf(WithBatch(group[u], k))
    BY <2>1 DEF SequenceOf
  <2> QED  BY <1>4, <1>5, <2>2 DEF LoggerInv
<1>9. NumbersInv'
  BY <1>1, <1>2, <1>3 DEF NumbersInv
<1>10. Live' = Live
  BY <1>1, <1>2 DEF Live
<1>11. ApartInv'
  BY <1>3, <1>10 DEF ApartInv
<1>12. MemInv'
  <2> SUFFICES ASSUME NEW e \in mem_
               PROVE  /\ KeptIn(e[1], logfile_number_)'
                      /\ \/ Old(e[1])' /\ EntriesOf({e[1]}) \subseteq mem_
                         \/ (\E u \in Loggers : Inserting(u) /\ e[1] \in GroupIds(u))'
    BY DEF MemInv, EntriesOf
  <2>1. KeptIn(e[1], logfile_number_)'
    BY <1>4, <1>5 DEF MemInv
  <2>2. CASE Old(e[1]) /\ EntriesOf({e[1]}) \subseteq mem_
    BY <1>3, <2>1, <2>2
  <2>3. CASE \E u \in Loggers : Inserting(u) /\ e[1] \in GroupIds(u)
    BY <1>1, <1>6, <2>1, <2>3
  <2> QED  BY <2>2, <2>3 DEF MemInv
<1>13. ImmInv'
  BY <1>3, <1>4 DEF ImmInv, Whole, EntriesOf
<1>14. TablesInv' /\ EditInv'
  BY DEF TablesInv, EditInv, Whole, EntriesOf
<1> QED  BY <1>1, <1>7, <1>8, <1>9, <1>11, <1>12, <1>13, <1>14

\* A thread that is not logging moves on, and may return.
LEMMA ThreadStep ==
  ASSUME Inv, DataInv, NEW t \in Threads, UNCHANGED DataFrame,
         UNCHANGED <<calls, request, op, group>>,
         pc[t] \notin Logging, pc'[t] \notin Logging, pc[t] # "idle",
         \A u \in Threads \ {t} :
           pc'[u] = pc[u] /\ status'[u] = status[u] /\ (done'[u] <=> done[u]),
         InQueue(t)' => InQueue(t),
         acked \subseteq acked', Promised' \subseteq Promised
  PROVE  DataInv'
<1> USE DEF DataInv
<1>1. Loggers' = Loggers /\ t \notin Loggers
  BY DEF Loggers
<1>2. StoreInv' /\ InFlight' = InFlight
  <2>1. \A u \in Loggers : pc'[u] = pc[u] /\ status'[u] = status[u]
    BY <1>1 DEF Loggers
  <2> QED  BY <1>1, <2>1, StoreUnchanged
<1>3. \A u \in Threads : InQueue(u)' => InQueue(u)
  BY DEF InQueue
<1>4. OnceInv'
  BY <1>2, <1>3 DEF OnceInv, DataFrame
<1>5. PromisedInv'
  BY <1>3 DEF PromisedInv
<1>6. SafeInv'
  BY DEF SafeInv, DataFrame, Old, EntriesOf
<1>7. SeenInv'
  BY <1>3 DEF SeenInv, DataFrame
<1>8. ClosedDataInv'
  <2>1. CASE open
    BY <2>1 DEF DataFrame, ClosedDataInv
  <2>2. CASE ~open
    BY <2>2 DEF Inv, ClosedInv
  <2> QED  BY <2>1, <2>2
<1> QED  BY <1>2, <1>4, <1>5, <1>6, <1>7, <1>8

\* The numbers of calls that are to come were not used.
LEMMA EnterKeepsData ==
  ASSUME Inv, DataInv, NEW t \in Threads, NEW sync \in BOOLEAN, NEW batch \in BOOLEAN,
         Write(t, sync, batch)
  PROVE  DataInv'
<1> USE TypeParts DEF DataInv
<1>1. /\ open /\ pc[t] = "idle" /\ calls < MaxCalls /\ calls' = calls + 1
      /\ op' = [op EXCEPT ![t] = [id |-> calls + 1, sync |-> sync, batch |-> batch]]
      /\ request' = [request EXCEPT ![calls + 1] = [sync |-> sync, seen |-> acked]]
      /\ done' = [done EXCEPT ![t] = FALSE]
      /\ pc' = [pc EXCEPT ![t] = "room"] \/ pc' = [pc EXCEPT ![t] = "waiting"]
      /\ UNCHANGED <<status, group, acked>> /\ UNCHANGED DataFrame
  BY DEF Write, Enter, DataFrame, memVars, versionVars, bgVars
<1>2. /\ op'[t] = [id |-> calls + 1, sync |-> sync, batch |-> batch]
      /\ done'[t] = FALSE /\ pc'[t] \in {"room", "waiting"}
      /\ \A u \in Threads \ {t} : pc'[u] = pc[u] /\ op'[u] = op[u] /\ done'[u] = done[u]
  BY <1>1 DEF Inv, ThreadTypeOK
<1>3. calls \in Nat /\ calls + 1 \in Calls /\ MaxCalls \in Nat
  BY <1>1, ConstantFacts DEF Inv, HistoryTypeOK, Calls
<1>4. sequence[calls + 1] = 0
  BY <1>3 DEF OnceInv
<1>5. /\ request'[calls + 1] = [sync |-> sync, seen |-> acked]
      /\ \A i \in Calls : i # calls + 1 => request'[i] = request[i]
  BY <1>1, <1>3 DEF Inv, HistoryTypeOK
<1>6. Loggers' = Loggers /\ t \notin Loggers
  BY <1>1, <1>2 DEF Loggers, Logging
<1>7. \A u \in Loggers : \A k \in 1..Len(group[u]) : group[u][k] # t /\ group[u][k] \in Threads
  BY <1>1, LoggerFacts DEF InQueue, Working, Logging
<1>8. StoreInv' /\ InFlight' = InFlight
  <2>1. \A u \in Loggers :
           /\ pc'[u] = pc[u] /\ status'[u] = status[u] /\ group'[u] = group[u]
           /\ \A k \in 1..Len(group[u]) : op'[group[u][k]] = op[group[u][k]]
    BY <1>1, <1>2, <1>6, <1>7 DEF Loggers
  <2>2. \A i \in Calls : sequence[i] # 0 => request'[i] = request[i]
    BY <1>4, <1>5
  <2> QED  BY <1>1, <1>6, <2>1, <2>2, StoreUnchanged
<1>9. OnceInv'
  <2>1. ASSUME NEW u \in Threads, InQueue(u)', sequence[op'[u].id] # 0
        PROVE  op'[u].id \in InFlight
    <3>1. u # t
      BY <1>2, <1>4, <2>1
    <3>2. InQueue(u) /\ op'[u] = op[u]
      BY <1>2, <2>1, <3>1 DEF InQueue
    <3> QED  BY <2>1, <3>2 DEF OnceInv
  <2>2. \A i \in Calls : i > calls + 1 => sequence[i] = 0
    BY <1>3 DEF OnceInv, Calls
  <2> QED  BY <1>1, <1>8, <2>1, <2>2 DEF OnceInv, DataFrame
<1>10. Promised' = Promised
  BY <1>1, <1>2 DEF Promised
<1>11. \A i \in Promised : i <= calls /\ i \in Nat
  <2>1. acked \subseteq Calls /\ \A u \in Threads : op[u].id \in Nat
    BY DEF Inv, HistoryTypeOK, ThreadTypeOK
  <2>2. Calls \subseteq Nat
    BY <1>3 DEF Calls
  <2>3. Promised \subseteq Nat
    <3>1. \A i \in Promised : i \in acked \/ \E u \in Threads : i = op[u].id
      BY DEF Promised
    <3> QED  BY <2>1, <2>2, <3>1
  <2> QED  BY <2>3 DEF PromisedInv
<1>12. PromisedInv'
  <2>1. \A i \in Promised : i <= calls'
    BY <1>1, <1>3, <1>11
  <2>2. ASSUME NEW u \in Threads, InQueue(u)'
        PROVE  op'[u].id \notin Promised
    <3>1. CASE u = t
      BY <1>2, <1>3, <1>11, <3>1
    <3>2. CASE u # t
      <4>1. InQueue(u) /\ op'[u] = op[u]
        BY <1>2, <2>2, <3>2 DEF InQueue
      <4> QED  BY <4>1 DEF PromisedInv
    <3> QED  BY <3>1, <3>2
  <2>3. ASSUME NEW u \in Threads, pc'[u] # "idle"
        PROVE  request'[op'[u].id].sync = op'[u].sync
    <3>1. CASE u = t
      BY <1>2, <1>5, <3>1
    <3>2. CASE u # t
      <4>1. pc[u] # "idle" /\ op'[u] = op[u]
        BY <1>2, <2>3, <3>2
      <4>2. op[u].id \in Calls /\ op[u].id <= calls
        BY <4>1, CallNumber DEF Inv, CallInv
      <4>3. request'[op[u].id] = request[op[u].id]
        BY <1>3, <1>5, <4>2
      <4> QED  BY <4>1, <4>3 DEF PromisedInv
    <3> QED  BY <3>1, <3>2
  <2> QED  BY <1>10, <2>1, <2>2, <2>3 DEF PromisedInv
<1>13. SafeInv'
  BY <1>1, <1>10 DEF SafeInv, DataFrame, Old, EntriesOf
<1>14. SeenInv'
  <2>1. \A i \in acked : i <= calls /\ sequence[i] >= 1 /\ i \in Nat
    BY <1>1, <1>11 DEF Promised, SafeInv, Old
  <2>2. ASSUME NEW k \in Calls, NEW i \in request'[k].seen
        PROVE  /\ k <= calls' /\ i # k /\ sequence[i] >= 1
               /\ sequence[k] # 0 => sequence[i] < sequence[k]
    <3>1. CASE k = calls + 1
      <4>1. i \in acked
        BY <1>5, <2>2, <3>1
      <4> QED  BY <1>1, <1>3, <1>4, <2>1, <3>1, <4>1
    <3>2. CASE k # calls + 1
      <4>1. i \in request[k].seen
        BY <1>5, <2>2, <3>2
      <4>2. k <= calls => k <= calls'
        BY <1>1, <1>3 DEF Calls
      <4> QED  BY <4>1, <4>2 DEF SeenInv
    <3> QED  BY <3>1, <3>2
  <2>3. ASSUME NEW u \in Threads, InQueue(u)', sequence[op'[u].id] = 0
        PROVE  request'[op'[u].id].seen \subseteq acked
    <3>1. CASE u = t
      BY <1>2, <1>5, <3>1
    <3>2. CASE u # t
      <4>1. InQueue(u) /\ op'[u] = op[u] /\ pc[u] # "idle"
        BY <1>2, <2>3, <3>2 DEF InQueue, Working, Logging
      <4>2. op[u].id \in Calls /\ op[u].id <= calls
        BY <4>1, CallNumber DEF Inv, CallInv
      <4>3. request'[op[u].id] = request[op[u].id]
        BY <1>3, <1>5, <4>2
      <4> QED  BY <2>3, <4>1, <4>3 DEF SeenInv
    <3> QED  BY <3>1, <3>2
  <2> QED  BY <1>1, <2>2, <2>3 DEF SeenInv, DataFrame
<1>15. ClosedDataInv'
  BY <1>1 DEF DataFrame, ClosedDataInv
<1> QED  BY <1>8, <1>9, <1>12, <1>13, <1>14, <1>15

\* A writer that was woken returns what its group's leader noted for it.
LEMMA WakeKeepsData ==
  ASSUME Inv, DataInv, NEW t \in Threads, Wake(t)
  PROVE  DataInv'
<1> USE TypeParts
<1>1. /\ pc[t] = "waiting" /\ UNCHANGED DataFrame
      /\ UNCHANGED <<calls, request, op, group, status, done>>
  BY DEF Wake, DataFrame, memVars, versionVars, bgVars, boundVars
<1>2. \/ done[t] /\ Return(t, status[t])
      \/ ~done[t] /\ pc' = [pc EXCEPT ![t] = "room"] /\ acked' = acked
  BY DEF Wake
<1>3. \E to \in {"idle", "immwait", "room"} : pc' = [pc EXCEPT ![t] = to]
  BY <1>2 DEF Return
<1>4. pc'[t] \in {"idle", "immwait", "room"} /\ \A u \in Threads \ {t} : pc'[u] = pc[u]
  BY <1>3 DEF Inv, ThreadTypeOK
<1>5. InQueue(t)' => InQueue(t)
  <2>1. CASE done[t]
    <3>1. pc'[t] \in {"idle", "immwait"}
      BY <1>2, <2>1 DEF Return, Inv, ThreadTypeOK
    <3> QED  BY <3>1 DEF InQueue, Working, Logging
  <2>2. CASE ~done[t]
    BY <1>1, <2>2 DEF InQueue
  <2> QED  BY <2>1, <2>2
<1>6. acked \subseteq acked'
  BY <1>2 DEF Return
<1>7. Promised' \subseteq Promised
  <2>1. acked' \subseteq Promised
    <3>1. CASE done[t] /\ op[t].batch /\ status[t] = "ok"
      BY <1>1, <1>2, <3>1 DEF Return, Promised
    <3>2. CASE ~(done[t] /\ op[t].batch /\ status[t] = "ok")
      BY <1>2, <3>2 DEF Return, Promised
    <3> QED  BY <3>1, <3>2
  <2>2. \A u \in Threads : pc'[u] = "waiting" => pc[u] = "waiting"
    BY <1>1, <1>4
  <2> QED  BY <1>1, <2>1, <2>2 DEF Promised
<1>8. pc[t] \notin Logging /\ pc'[t] \notin Logging /\ pc[t] # "idle"
  BY <1>1, <1>4 DEF Logging
<1> QED  BY <1>1, <1>4, <1>5, <1>6, <1>7, <1>8, ThreadStep

\* A writer leaves alone with an error, or as a call that has no batch.
LEMMA LeaveKeepsData ==
  ASSUME Inv, DataInv, NEW t \in Threads, NEW s, LeaveWithout(t, s), pc[t] = "room",
         s = "error" \/ ~op[t].batch
  PROVE  DataInv'
<1> USE TypeParts
<1>1. /\ UNCHANGED DataFrame /\ UNCHANGED <<calls, request, op, group>>
      /\ Finish(t, {t}, s)
  BY DEF LeaveWithout, DataFrame, memVars, versionVars, bgVars
<1>2. /\ pc' = [pc EXCEPT ![t] = IF op[t].batch \/ s = "error" THEN "idle" ELSE "immwait"]
      /\ acked' = acked
      /\ status' = [u \in Threads |-> IF u \in {t} THEN s ELSE status[u]]
      /\ done' = [u \in Threads |-> u \in {t} \ {t} \/ done[u]]
  BY <1>1 DEF Finish, Return
<1>3. /\ pc'[t] \in {"idle", "immwait"}
      /\ \A u \in Threads \ {t} :
           pc'[u] = pc[u] /\ status'[u] = status[u] /\ (done'[u] <=> done[u])
  BY <1>2 DEF Inv, ThreadTypeOK
<1>4. Promised' \subseteq Promised
  BY <1>1, <1>2, <1>3 DEF Promised
<1>5. ~InQueue(t)' /\ pc[t] \notin Logging /\ pc'[t] \notin Logging /\ pc[t] # "idle"
  BY <1>3 DEF InQueue, Working, Logging
<1> QED  BY <1>1, <1>2, <1>3, <1>4, <1>5, ThreadStep

\* Waiting in MakeRoomForWrite or for imm_.
LEMMA WaitKeepsData ==
  ASSUME Inv, DataInv, NEW t \in Threads,
         RoomDelay(t) \/ DelayOver(t) \/ RoomWait(t) \/ WaitOver(t) \/ ImmWait(t)
  PROVE  DataInv'
<1> USE TypeParts
<1>1. UNCHANGED DataFrame /\ UNCHANGED <<calls, request, op, group, done, acked>>
  BY DEF RoomDelay, DelayOver, RoomWait, WaitOver, OnlyThread, ImmWait, DataFrame, memVars,
     versionVars, bgVars, boundVars, historyVars
<1>2. /\ pc[t] \in {"room", "delay", "bgwait", "immwait"}
      /\ \/ pc' = pc
         \/ pc[t] = "immwait" /\ pc' = [pc EXCEPT ![t] = "idle"]
         \/ pc[t] # "immwait" /\ \E to \in {"room", "delay", "bgwait"} : pc' = [pc EXCEPT ![t] = to]
  BY DEF RoomDelay, DelayOver, RoomWait, WaitOver, ImmWait, Room
<1>3. status' = status \/ \E s : status' = [status EXCEPT ![t] = s]
  BY DEF RoomDelay, DelayOver, RoomWait, WaitOver, OnlyThread, ImmWait
<1>4. /\ \A u \in Threads \ {t} : pc'[u] = pc[u] /\ status'[u] = status[u] /\ done'[u] = done[u]
      /\ pc'[t] \in {"room", "delay", "bgwait", "immwait", "idle"}
      /\ pc[t] = "immwait" => pc'[t] \in {"immwait", "idle"}
  BY <1>1, <1>2, <1>3 DEF Inv, ThreadTypeOK
<1>5. pc[t] \notin Logging /\ pc'[t] \notin Logging /\ pc[t] # "idle"
  BY <1>2, <1>4 DEF Logging
<1>6. InQueue(t)' => InQueue(t)
  BY <1>2, <1>4 DEF InQueue, Working, Logging
<1>7. Promised' \subseteq Promised
  BY <1>1, <1>2, <1>4 DEF Promised
<1> QED  BY <1>1, <1>4, <1>5, <1>6, <1>7, ThreadStep

-----------------------------------------------------------------------------
(* The group is built.                                                     *)

\* Each batch of the new group gets its numbers, after all that were given out
\* and apart from each other; no other call's numbers change.
LEMMA GroupGetsNumbers ==
  ASSUME Inv, OnceInv, NEW t \in Threads, RoomFound(t), op[t].batch
  PROVE  /\ Loggers = {} /\ InFlight = {} /\ open
         /\ Loggers' = {t} /\ InFlight' = GroupIds(t)'
         /\ group'[t] \in Seq(Threads) /\ GroupIds(t)' \subseteq Calls
         /\ \A k \in 1..Len(group'[t]) :
              /\ op[group'[t][k]].sync => op[t].sync
              /\ op[group'[t][k]].batch =>
                   sequence'[op[group'[t][k]].id] = SequenceOf(WithBatch(group'[t], k))
         /\ \A i \in GroupIds(t)' :
              /\ sequence[i] = 0 /\ sequence'[i] \in Nat /\ sequence'[i] > lastSequence
              /\ \E u \in Threads : InQueue(u) /\ op[u].id = i
         /\ \A i, k \in GroupIds(t)' : i # k => Apart(i, k)'
         /\ \A i \in Calls : i \notin GroupIds(t)' => sequence'[i] = sequence[i]
<1> USE TypeParts
<1> DEFINE g == BuildBatchGroup
<1>1. /\ pc[t] = "room" /\ mutex = t
      /\ group' = [group EXCEPT ![t] = g]
      /\ sequence' = [i \in Calls |-> NumberedIn(g, i)]
      /\ pc' = [pc EXCEPT ![t] = "append"]
      /\ UNCHANGED op
  BY DEF RoomFound, Room
<1>2. Loggers = {} /\ InFlight = {}
  BY <1>1, RoomHasNoLogger
<1>3. open
  BY <1>1 DEF Inv, ClosedInv
<1>4. writers_[1] = t /\ writers_ \in Seq(Threads) /\ Len(writers_) # 0
  BY <1>1 DEF Inv, QueueInv, SyncTypeOK, InQueue, Working
<1>5. /\ g \in Seq(Threads) /\ Len(g) \in 1..Len(writers_)
      /\ \A k \in 1..Len(g) : g[k] = writers_[k]
      /\ \A k \in 2..Len(g) : Joins(k)
  <2>1. PICK n \in 1..Len(writers_) :
           /\ g \in Seq(Threads) /\ Len(g) = n
           /\ \A k \in 1..n : g[k] = writers_[k]
           /\ \A k \in 2..n : Joins(k)
    BY <1>4, GroupFacts
  <2> HIDE DEF g
  <2> QED  BY <2>1
<1> HIDE DEF g
<1>6. DOMAIN g = 1..Len(g) /\ Len(g) \in Nat /\ Len(g) >= 1 /\ Len(writers_) \in Nat
  BY <1>4, <1>5
<1>7. group'[t] = g /\ pc'[t] = "append" /\ \A u \in Threads \ {t} : pc'[u] = pc[u]
  BY <1>1 DEF Inv, ThreadTypeOK
<1>8. Loggers' = {t}
  BY <1>2, <1>7 DEF Loggers, Logging
<1>9. InFlight' = GroupIds(t)'
  BY <1>8 DEF InFlight
<1>10. \A k \in 1..Len(g) :
         k \in 1..Len(writers_) /\ g[k] \in Threads /\ InQueue(g[k]) /\ op[g[k]].id \in Calls
  <2>1. \A k \in 1..Len(g) : k \in 1..Len(writers_)
    BY <1>5, <1>6
  <2> QED  BY <1>5, <2>1, WritersAreInCalls DEF Inv
<1>11. ASSUME NEW j \in 1..Len(g), NEW k \in 1..Len(g), op[g[j]].id = op[g[k]].id
       PROVE  j = k
  <2>1. op[g[j]].id # 0 /\ g[j] \in Threads /\ g[k] \in Threads
    BY <1>10 DEF Calls
  <2>2. writers_[j] = writers_[k]
    BY <1>5, <1>11, <2>1 DEF Inv, CallInv
  <2> QED  BY <1>10, <2>2 DEF Inv, QueueInv
<1>12. GroupIds(t)' = {op[g[k]].id : k \in {k \in 1..Len(g) : op[g[k]].batch}}
  BY <1>1, <1>6, <1>7 DEF GroupIds
<1> DEFINE ids == GroupIds(t)'
<1>13. \A i \in ids : \E k \in 1..Len(g) : op[g[k]].batch /\ op[g[k]].id = i
  BY <1>12
<1>14. \A k \in 1..Len(g) : op[g[k]].batch => op[g[k]].id \in ids
  BY <1>12
<1> HIDE DEF ids
<1>15. ids \subseteq Calls
  BY <1>10, <1>13
<1>16. ThreadTypeOK /\ HistoryTypeOK /\ lastSequence \in Nat
  BY DEF Inv, DataTypeOK
<1>17. \A k \in 1..Len(g) : op[g[k]].batch =>
         sequence'[op[g[k]].id] = SequenceOf(WithBatch(g, k))
  <2> SUFFICES ASSUME NEW k \in 1..Len(g), op[g[k]].batch
               PROVE  sequence'[op[g[k]].id] = SequenceOf(WithBatch(g, k))
    OBVIOUS
  <2> DEFINE i == op[g[k]].id
  <2>1. i \in Calls
    BY <1>10
  <2>2. sequence'[i] = NumberedIn(g, i)
    BY <1>1, <2>1
  <2>3. PICK j \in 1..Len(g) : op[g[j]].id = i /\ NumberedIn(g, i) = SequenceOf(WithBatch(g, j))
    BY <1>5, <1>16, <2>1, NumberedFacts
  <2>4. j = k
    BY <1>11, <2>3
  <2> QED  BY <2>2, <2>3, <2>4
<1>8a. \A i \in Calls : i \notin ids => sequence'[i] = sequence[i]
  <2> SUFFICES ASSUME NEW i \in Calls, i \notin ids
               PROVE  sequence'[i] = sequence[i]
    OBVIOUS
  <2>1. sequence'[i] = NumberedIn(g, i)
    BY <1>1
  <2>2. \A k \in 1..Len(g) : ~(op[g[k]].batch /\ op[g[k]].id = i)
    BY <1>14
  <2>3. NumberedIn(g, i) = sequence[i]
    BY <1>5, <1>16, <2>2, NumberedFacts
  <2> QED  BY <2>1, <2>3
<1>19. ASSUME NEW i \in ids
       PROVE  /\ sequence[i] = 0 /\ sequence'[i] \in Nat /\ sequence'[i] > lastSequence
              /\ \E u \in Threads : InQueue(u) /\ op[u].id = i
  <2>1. PICK k \in 1..Len(g) : op[g[k]].batch /\ op[g[k]].id = i
    BY <1>13
  <2>2. sequence'[i] = SequenceOf(WithBatch(g, k))
    BY <1>17, <2>1
  <2>3. sequence'[i] \in Nat /\ sequence'[i] > lastSequence
    BY <1>5, <1>16, <2>1, <2>2, GroupNumbers
  <2>4. g[k] \in Threads /\ InQueue(g[k])
    BY <1>10
  <2>5. sequence[i] = 0
    BY <1>2, <2>1, <2>4 DEF OnceInv
  <2> QED  BY <2>1, <2>3, <2>4, <2>5
<1>20. ASSUME NEW i \in ids, NEW k \in ids, i # k
       PROVE  Apart(i, k)'
  <2>1. PICK a \in 1..Len(g) : op[g[a]].batch /\ op[g[a]].id = i
    BY <1>13
  <2>2. PICK b \in 1..Len(g) : op[g[b]].batch /\ op[g[b]].id = k
    BY <1>13
  <2>3. /\ sequence'[i] = SequenceOf(WithBatch(g, a))
        /\ sequence'[k] = SequenceOf(WithBatch(g, b))
    BY <1>17, <2>1, <2>2
  <2>4. a # b /\ a \in Nat /\ b \in Nat
    BY <1>20, <2>1, <2>2
  <2>5. CASE a < b
    <3>1. SequenceOf(WithBatch(g, a)) + BatchCount <= SequenceOf(WithBatch(g, b))
      BY <1>5, <1>16, <2>1, <2>2, <2>5, GroupNumbers
    <3> QED  BY <2>3, <3>1 DEF Apart
  <2>6. CASE b < a
    <3>1. SequenceOf(WithBatch(g, b)) + BatchCount <= SequenceOf(WithBatch(g, a))
      BY <1>5, <1>16, <2>1, <2>2, <2>6, GroupNumbers
    <3> QED  BY <2>3, <3>1 DEF Apart
  <2> QED  BY <2>4, <2>5, <2>6
<1>21. \A k \in 1..Len(g) : op[g[k]].sync => op[t].sync
  <2> SUFFICES ASSUME NEW k \in 1..Len(g), op[g[k]].sync
               PROVE  op[t].sync
    OBVIOUS
  <2>1. CASE k = 1
    BY <1>4, <1>5, <2>1
  <2>2. CASE k # 1
    <3>1. k \in 2..Len(g)
      BY <1>6, <2>2
    <3>2. op[writers_[k]].sync => op[writers_[1]].sync
      BY <1>5, <3>1 DEF Joins
    <3> QED  BY <1>4, <1>5, <3>2
  <2> QED  BY <2>1, <2>2
<1> QED  BY <1>2, <1>3, <1>5, <1>7, <1>8, <1>9, <1>15, <1>17, <1>8a, <1>19, <1>20, <1>21 DEF ids

\* What is live while no one logs has old numbers.
LEMMA LiveIsOld ==
  ASSUME Inv, StoreInv, open, InFlight = {}
  PROVE  /\ Live \subseteq Calls
         /\ \A i \in Live : Old(i)
<1> USE TypeParts
<1>1. ASSUME NEW i \in IdsOf(manifest.tables)
      PROVE  i \in Calls /\ Old(i)
  <2>1. manifest.tables \subseteq Entries
    BY DEF Inv, DataTypeOK, DescriptorType
  <2>2. i \in Calls
    BY <2>1 DEF IdsOf, Entries
  <2>3. /\ sequence[i] >= 1 /\ sequence[i] + BatchCount - 1 <= manifest.sequence
        /\ manifest.sequence <= lastSequence
    BY DEF StoreInv, NumbersInv
  <2>4. /\ sequence[i] \in Nat /\ manifest.sequence \in Nat /\ lastSequence \in Nat
    BY <2>2 DEF Inv, DataTypeOK, DescriptorType, HistoryTypeOK
  <2> QED  BY <2>2, <2>3, <2>4, ConstantFacts DEF Old
<1>2. ASSUME NEW l \in DOMAIN logs, NEW i \in LogIds(l)
      PROVE  i \in Calls /\ Old(i)
  BY LogIdsAreCalls DEF Inv, StoreInv, NumbersInv
<1> QED  BY <1>1, <1>2 DEF Live

\* A promised batch has old numbers, so it is a call that has its numbers.
LEMMA PromisedIsOld ==
  ASSUME Inv, SafeInv, open, NEW i \in Promised
  PROVE  i \in Calls /\ Old(i) /\ sequence[i] # 0 /\ sequence[i] \in Nat
<1> USE TypeParts
<1>1. Old(i)
  BY DEF SafeInv
<1>2. i \in Calls
  <2>1. acked \subseteq Calls
    BY DEF Inv, HistoryTypeOK
  <2>2. \A u \in Threads : pc[u] = "waiting" => op[u].id \in Calls
    BY CallNumber DEF Inv
  <2>3. i \in acked \/ \E u \in Threads : pc[u] = "waiting" /\ op[u].id = i
    BY DEF Promised
  <2> QED  BY <2>1, <2>2, <2>3
<1>3. sequence[i] \in Nat
  BY <1>2 DEF Inv, HistoryTypeOK
<1> QED  BY <1>1, <1>2, <1>3 DEF Old

\* Old numbers are those of a call that has them.
LEMMA OldIsNumbered ==
  ASSUME Inv, NEW i \in Calls, Old(i)
  PROVE  sequence[i] # 0 /\ sequence[i] \in Nat
BY TypeParts DEF Inv, HistoryTypeOK, Old

\* The ids of entries.
LEMMA EntryIds ==
  ASSUME NEW S \in SUBSET Entries
  PROVE  IdsOf(S) \subseteq Calls /\ \A e \in S : e[1] \in Calls /\ e[1] \in IdsOf(S)
BY DEF IdsOf, Entries

\* A group gets its numbers and releases the mutex.
LEMMA RoomFoundKeepsData ==
  ASSUME Inv, DataInv, NEW t \in Threads, RoomFound(t)
  PROVE  DataInv'
<1> USE TypeParts DEF DataInv
<1>1. pc[t] = "room"
  BY DEF RoomFound, Room
<1>2. CASE ~op[t].batch
  BY <1>1, <1>2, LeaveKeepsData DEF RoomFound
<1>3. CASE op[t].batch
  <2> DEFINE ids == GroupIds(t)'
  <2>1. /\ Loggers = {} /\ InFlight = {} /\ open
        /\ Loggers' = {t} /\ InFlight' = ids
        /\ group'[t] \in Seq(Threads) /\ ids \subseteq Calls
        /\ \A k \in 1..Len(group'[t]) :
             /\ op[group'[t][k]].sync => op[t].sync
             /\ op[group'[t][k]].batch =>
                  sequence'[op[group'[t][k]].id] = SequenceOf(WithBatch(group'[t], k))
    BY <1>3, GroupGetsNumbers
  <2>2. /\ \A i \in ids :
             /\ sequence[i] = 0 /\ sequence'[i] \in Nat /\ sequence'[i] > lastSequence
             /\ \E u \in Threads : InQueue(u) /\ op[u].id = i
        /\ \A i, k \in ids : i # k => Apart(i, k)'
        /\ \A i \in Calls : i \notin ids => sequence'[i] = sequence[i]
    BY <1>3, GroupGetsNumbers
  <2> HIDE DEF ids
  <2>3. /\ UNCHANGED <<op, done, status, calls, request, acked, logs, mem_, imm_, tables,
                       manifest, edit, bgpc, logNumber, logfile_number_, lastSequence, open>>
        /\ pc' = [pc EXCEPT ![t] = "append"]
    BY <1>3 DEF RoomFound, memVars, versionVars, bgVars, boundVars
  <2>4. pc'[t] = "append" /\ \A u \in Threads \ {t} : pc'[u] = pc[u]
    BY <2>3 DEF Inv, ThreadTypeOK
  <2>5. \A i \in Calls : sequence[i] # 0 => sequence'[i] = sequence[i] /\ i \notin ids
    BY <2>2
  <2>6. \A i \in Calls : Old(i) => Old(i)' /\ i \notin ids
    BY <2>3, <2>5, OldIsNumbered DEF Old
  <2>7. Live \subseteq Calls /\ \A i \in Live : Old(i)
    BY <2>1, LiveIsOld
  <2>8. \A l : LogIds(l)' = LogIds(l) /\ SyncedIds(l)' = SyncedIds(l)
    BY <2>3, SameLogs
  <2>9. \A l, i : KeptIn(i, l)' <=> KeptIn(i, l)
    BY <2>3, <2>8 DEF KeptIn
  <2>10. RecordsInv' /\ TablesInv'
    BY <2>3 DEF StoreInv, RecordsInv, TablesInv, Whole, EntriesOf
  <2>11. LoggerInv'
    <3>1. PICK g : g = group'[t]
      OBVIOUS
    <3>2. \A k : WithBatch(group[t], k)' = WithBatch(g, k)
      BY <2>3, <3>1 DEF WithBatch
    <3>3. \A k : SequenceOf(WithBatch(group[t], k))' = SequenceOf(WithBatch(g, k))
      BY <2>3, <3>2 DEF SequenceOf
    <3>4. \A k \in 1..Len(g) :
            /\ op[g[k]].sync => op[t].sync
            /\ op[g[k]].batch => sequence'[op[g[k]].id] = SequenceOf(WithBatch(g, k))
      BY <2>1, <3>1
    <3>5. \A k \in 1..Len(group'[t]) :
            /\ op'[group'[t][k]].sync => op'[t].sync
            /\ op'[group'[t][k]].batch =>
                 sequence'[op'[group'[t][k]].id] = SequenceOf(WithBatch(group[t], k))'
      BY <2>3, <3>1, <3>3, <3>4
    <3>6. ~Inserting(t)' /\ pc'[t] # "sync" /\ pc'[t] # "relock"
      BY <2>4 DEF Inserting
    <3> QED  BY <2>1, <3>5, <3>6 DEF LoggerInv
  <2>12. NumbersInv'
    <3>1. \A i \in Live : sequence'[i] = sequence[i] /\ Old(i)' /\ sequence'[i] >= 1
      BY <2>5, <2>6, <2>7, OldIsNumbered DEF Old
    <3>2. \A l \in DOMAIN logs : LogIds(l) \subseteq Live
      BY DEF Live
    <3>3. IdsOf(manifest.tables) \subseteq Live
      BY DEF Live
    <3> HIDE DEF Live
    <3> QED  BY <2>3, <2>8, <3>1, <3>2, <3>3 DEF StoreInv, NumbersInv
  <2>13. ApartInv'
    <3>1. Live' \subseteq Live \cup ids
      <4>1. IdsOf(manifest.tables)' = IdsOf(manifest.tables)
        BY <2>3 DEF IdsOf
      <4>2. (UNION {LogIds(l) : l \in DOMAIN logs})' = UNION {LogIds(l) : l \in DOMAIN logs}
        BY <2>3, <2>8
      <4> QED  BY <2>1, <4>1, <4>2 DEF Live
    <3>2. SUFFICES ASSUME NEW i \in Live \cup ids, NEW k \in Live \cup ids, i # k
                   PROVE  Apart(i, k)'
      BY <3>1 DEF ApartInv
    <3>3. \A j \in Live : /\ sequence'[j] = sequence[j] /\ sequence[j] \in Nat
                          /\ sequence'[j] + BatchCount - 1 <= lastSequence
      BY <2>5, <2>6, <2>7, OldIsNumbered DEF Old
    <3>4. lastSequence \in Nat
      BY DEF Inv, DataTypeOK
    <3>5. CASE i \in Live /\ k \in Live
      <4>1. Apart(i, k)
        BY <3>2, <3>5 DEF StoreInv, ApartInv
      <4> QED  BY <3>3, <3>5, <4>1 DEF Apart
    <3>6. CASE i \in Live /\ k \in ids
      BY <2>2, <3>3, <3>4, <3>6, ConstantFacts DEF Apart
    <3>7. CASE i \in ids /\ k \in Live
      BY <2>2, <3>3, <3>4, <3>7, ConstantFacts DEF Apart
    <3>8. CASE i \in ids /\ k \in ids
      BY <2>2, <3>2, <3>8
    <3> QED  BY <3>2, <3>5, <3>6, <3>7, <3>8
  <2>14. MemInv'
    <3> SUFFICES ASSUME NEW e \in mem_
                 PROVE  /\ KeptIn(e[1], logfile_number_)
                        /\ Old(e[1])' /\ EntriesOf({e[1]}) \subseteq mem_
      BY <2>3, <2>9 DEF MemInv, EntriesOf
    <3>1. KeptIn(e[1], logfile_number_) /\ Old(e[1]) /\ EntriesOf({e[1]}) \subseteq mem_
      BY <2>1 DEF StoreInv, MemInv
    <3>2. e[1] \in Calls
      BY DEF Inv, DataTypeOK, Entries
    <3> QED  BY <2>6, <3>1, <3>2
  <2>15. ImmInv'
    <3> SUFFICES ASSUME imm_ # NoImm
                 PROVE  /\ Whole(imm_)
                        /\ \A e \in imm_ : /\ Old(e[1])'
                                           /\ \E l \in DOMAIN logs : l >= logNumber /\ KeptIn(e[1], l)
      BY <2>3, <2>9 DEF ImmInv, Whole, EntriesOf
    <3>1. \A e \in imm_ : e[1] \in Calls
      BY DEF Inv, DataTypeOK, Entries
    <3> QED  BY <2>6, <3>1 DEF StoreInv, ImmInv
  <2>16. EditInv'
    <3>1. ASSUME bgpc \in {"logging", "merged", "moving"}, NEW i \in IdsOf(edit.tables)
          PROVE  sequence'[i] = sequence[i]
      <4>1. bgpc = "logging" /\ edit.tables = imm_
        <5>1. bgpc # "logging" => edit.tables = {}
          BY <2>1, <3>1 DEF StoreInv, EditInv
        <5> QED  BY <2>1, <3>1, <5>1 DEF StoreInv, EditInv, IdsOf
      <4>2. imm_ # NoImm
        BY <4>1 DEF Inv, BackgroundInv
      <4>3. i \in Calls /\ Old(i)
        BY <3>1, <4>1, <4>2 DEF StoreInv, ImmInv, IdsOf, Inv, DataTypeOK, Entries
      <4> QED  BY <2>5, <4>3, OldIsNumbered
    <3>2. EditInv
      BY DEF StoreInv
    <3> QED  BY <2>3, <3>1, <3>2 DEF EditInv
  <2>17. \A u \in Threads : InQueue(u)' <=> InQueue(u)
    BY <1>1, <2>3, <2>4 DEF InQueue, Working, Logging
  <2>18. OnceInv'
    <3>1. ASSUME NEW u \in Threads, InQueue(u), sequence'[op[u].id] # 0
          PROVE  op[u].id \in ids
      <4>1. sequence[op[u].id] = 0
        BY <2>1, <3>1 DEF OnceInv
      <4>2. op[u].id \in Calls
        <5>1. pc[u] # "idle"
          BY <3>1 DEF InQueue, Working, Logging
        <5> QED  BY <5>1, CallNumber DEF Inv
      <4> QED  BY <2>2, <3>1, <4>1, <4>2
    <3>2. ASSUME NEW i \in Calls, i > calls
          PROVE  sequence'[i] = 0
      <4>1. i \notin ids
        <5> SUFFICES ASSUME i \in ids
                     PROVE  FALSE
          OBVIOUS
        <5>1. PICK u \in Threads : op[u].id = i
          BY <2>2
        <5>2. op[u].id <= calls /\ calls \in Nat /\ i \in Nat
          <6>1. op[u].id <= calls
            BY <5>1 DEF Inv, CallInv
          <6>2. op[u].id \in Nat
            BY DEF Inv, ThreadTypeOK
          <6>3. calls \in Nat
            BY ConstantFacts DEF Inv, HistoryTypeOK
          <6> QED  BY <5>1, <6>1, <6>2, <6>3
        <5> QED  BY <3>2, <5>1, <5>2
      <4> QED  BY <2>2, <3>2, <4>1 DEF OnceInv
    <3> QED  BY <2>1, <2>3, <2>17, <3>1, <3>2 DEF OnceInv
  <2>19. Promised' = Promised
    BY <1>1, <2>3, <2>4 DEF Promised
  <2>20. PromisedInv'
    BY <1>1, <2>3, <2>4, <2>17, <2>19 DEF PromisedInv
  <2>21. SafeInv'
    <3>1. \A i \in Promised : Old(i)'
      BY <2>1, <2>6, PromisedIsOld
    <3> QED  BY <2>1, <2>3, <2>19, <3>1 DEF SafeInv, EntriesOf
  <2>22. SeenInv'
    <3>1. ASSUME NEW k \in Calls, NEW i \in request[k].seen
          PROVE  /\ k <= calls /\ i # k /\ sequence'[i] >= 1
                 /\ sequence'[k] # 0 => sequence'[i] < sequence'[k]
      <4>1. /\ k <= calls /\ i # k /\ sequence[i] >= 1
            /\ sequence[k] # 0 => sequence[i] < sequence[k]
        BY <3>1 DEF SeenInv
      <4>2. i \in Calls
        BY <3>1 DEF Inv, HistoryTypeOK
      <4>3. sequence'[i] = sequence[i]
        BY <2>5, <4>1, <4>2
      <4>4. CASE k \notin ids
        BY <2>2, <4>1, <4>3, <4>4
      <4>5. CASE k \in ids
        <5>1. PICK u \in Threads : InQueue(u) /\ op[u].id = k
          BY <2>2, <4>5
        <5>2. i \in acked
          BY <2>2, <3>1, <4>5, <5>1 DEF SeenInv
        <5>3. Old(i) /\ sequence[i] \in Nat
          BY <2>1, <5>2, PromisedIsOld DEF Promised
        <5>4. sequence'[k] > lastSequence /\ sequence'[k] \in Nat /\ lastSequence \in Nat
          BY <2>2, <4>5 DEF Inv, DataTypeOK
        <5> QED  BY <4>1, <4>3, <5>3, <5>4, ConstantFacts DEF Old
      <4> QED  BY <4>4, <4>5
    <3>2. ASSUME NEW u \in Threads, InQueue(u), sequence'[op[u].id] = 0
          PROVE  request[op[u].id].seen \subseteq acked
      <4>1. op[u].id \in Calls
        <5>1. pc[u] # "idle"
          BY <3>2 DEF InQueue, Working, Logging
        <5> QED  BY <5>1, CallNumber DEF Inv
      <4>2. sequence[op[u].id] = 0
        BY <2>5, <3>2, <4>1
      <4> QED  BY <3>2, <4>2 DEF SeenInv
    <3> QED  BY <2>3, <2>17, <3>1, <3>2 DEF SeenInv
  <2>23. ClosedDataInv'
    BY <2>1, <2>3 DEF ClosedDataInv
  <2> QED  BY <2>10, <2>11, <2>12, <2>13, <2>14, <2>15, <2>16, <2>18, <2>20, <2>21, <2>22,
              <2>23 DEF StoreInv
<1> QED  BY <1>2, <1>3

-----------------------------------------------------------------------------
(* The switch of the memtable.                                             *)

\* What the threads and their calls have stays when none of them moves.
LEMMA CallsUnchanged ==
  ASSUME OnceInv, PromisedInv, SeenInv,
         UNCHANGED <<pc, op, done, status, group, calls, request, sequence, acked>>
  PROVE  /\ OnceInv' /\ PromisedInv' /\ SeenInv'
         /\ Promised' = Promised /\ Loggers' = Loggers /\ InFlight' = InFlight
         /\ \A t : Inserting(t)' <=> Inserting(t)
         /\ \A t : GroupIds(t)' = GroupIds(t)
<1>1. Loggers' = Loggers /\ \A t : GroupIds(t)' = GroupIds(t)
  BY DEF Loggers, GroupIds
<1>2. InFlight' = InFlight
  BY <1>1 DEF InFlight
<1>3. Promised' = Promised /\ \A t : (Inserting(t)' <=> Inserting(t)) /\ (InQueue(t)' <=> InQueue(t))
  BY DEF Promised, Inserting, InQueue
<1>4. OnceInv' /\ PromisedInv' /\ SeenInv'
  BY <1>2, <1>3 DEF OnceInv, PromisedInv, SeenInv
<1> QED  BY <1>1, <1>2, <1>3, <1>4

\* A log that does not change keeps what it has.
LEMMA SameLog ==
  ASSUME NEW l, logs'[l] = logs[l]
  PROVE  LogIds(l)' = LogIds(l) /\ SyncedIds(l)' = SyncedIds(l)
BY DEF LogIds, SyncedIds

\* A log without records.
LEMMA EmptyLog ==
  ASSUME NEW l, logs[l] = [records |-> <<>>, synced |-> 0]
  PROVE  LogIds(l) = {} /\ SyncedIds(l) = {} /\ Len(logs[l].records) = 0 /\ logs[l].synced = 0
<1>1. Len(logs[l].records) = 0 /\ logs[l].synced = 0
  OBVIOUS
<1>2. 1..0 = {}
  OBVIOUS
<1> QED  BY <1>1, <1>2 DEF LogIds, SyncedIds

\* The entries of a call are in no memtable that is not there.
LEMMA NotInNoImm ==
  ASSUME NEW i \in Calls
  PROVE  ~(EntriesOf({i}) \subseteq NoImm)
<1>1. <<i, 1>> \in EntriesOf({i})
  BY ConstantFacts DEF EntriesOf
<1>2. i # 0
  BY ConstantFacts DEF Calls
<1> QED  BY <1>1, <1>2 DEF NoImm

\* The memtable that is full becomes imm_; its log stays.
LEMMA SwitchKeepsData ==
  ASSUME Inv, DataInv, NEW t \in Threads, RoomSwitch(t)
  PROVE  DataInv'
<1> USE TypeParts DEF DataInv, StoreInv
<1>1. pc[t] = "room"
  BY DEF RoomSwitch, Room
<1>2. CASE LeaveWithout(t, "error")
  BY <1>1, <1>2, LeaveKeepsData
<1>3. CASE ~LeaveWithout(t, "error")
  <2>0. PICK new : new = logfile_number_ + 1
    OBVIOUS
  <2>1. /\ imm_ = NoImm /\ logfile_number_' = new
        /\ logs' = [n \in DOMAIN logs \cup {new} |->
             IF n \in DOMAIN logs THEN logs[n] ELSE [records |-> <<>>, synced |-> 0]]
        /\ imm_' = mem_ /\ mem_' = {}
        /\ bgpc' = Scheduled(bgpc, bg_error_, mem_, numLevel0)
        /\ UNCHANGED <<pc, op, done, status, group, edit, tables, lastSequence, logNumber,
                       manifest, open, calls, request, sequence, acked>>
    BY <1>3, <2>0 DEF RoomSwitch, MustWait, versionVars, boundVars, historyVars
  <2>2. Loggers = {} /\ InFlight = {}
    BY <1>1, RoomHasNoLogger
  <2>3. open
    BY <1>1 DEF Inv, ClosedInv
  <2>4. /\ OnceInv' /\ PromisedInv' /\ SeenInv'
        /\ Promised' = Promised /\ Loggers' = {} /\ InFlight' = {}
    BY <2>1, <2>2, CallsUnchanged
  <2>5. /\ logfile_number_ \in Nat /\ logNumber <= logfile_number_ /\ logfile_number_ \in DOMAIN logs
        /\ new \notin DOMAIN logs
    BY <2>0 DEF Inv, NumberInv, LogFileInv, DataTypeOK
  <2>6. /\ DOMAIN logs' = DOMAIN logs \cup {new}
        /\ \A l \in DOMAIN logs : logs'[l] = logs[l]
        /\ logs'[new] = [records |-> <<>>, synced |-> 0]
    BY <2>1, <2>5
  <2>7. \A l \in DOMAIN logs : LogIds(l)' = LogIds(l) /\ SyncedIds(l)' = SyncedIds(l)
    BY <2>6, SameLog
  <2>8. LogIds(new)' = {} /\ Len(logs'[new].records) = 0 /\ logs'[new].synced = 0
    <3>1. 1..0 = {}
      OBVIOUS
    <3> QED  BY <2>6, <3>1 DEF LogIds
  <2>9. \A l \in DOMAIN logs : \A i : KeptIn(i, l)' <=> KeptIn(i, l)
    BY <2>1, <2>7 DEF KeptIn
  <2>10. \A i : Old(i)' <=> Old(i)
    BY <2>1 DEF Old
  <2>11. RecordsInv'
    <3> SUFFICES ASSUME NEW l \in DOMAIN logs'
                 PROVE  /\ logs'[l].synced <= Len(logs'[l].records)
                        /\ \A k \in 1..Len(logs'[l].records) : logs'[l].records[k].whole
      BY <2>1, <2>3 DEF RecordsInv
    <3>1. CASE l \in DOMAIN logs
      BY <2>6, <3>1 DEF RecordsInv
    <3>2. CASE l = new
      BY <2>8, <3>2
    <3> QED  BY <2>6, <3>1, <3>2
  <2>12. LoggerInv' /\ MemInv'
    BY <2>1, <2>4 DEF LoggerInv, MemInv
  <2>13. IdsOf(manifest.tables)' = IdsOf(manifest.tables)
    BY <2>1 DEF IdsOf
  <2>14. NumbersInv'
    <3>1. \A l \in DOMAIN logs' : \A i \in LogIds(l)' :
            sequence[i] >= 1 /\ (open => Old(i) \/ i \in InFlight)
      BY <2>6, <2>7, <2>8 DEF NumbersInv
    <3> QED  BY <2>1, <2>2, <2>4, <2>10, <2>13, <3>1 DEF NumbersInv
  <2>15. ApartInv'
    <3>1. (UNION {LogIds(l) : l \in DOMAIN logs})' \subseteq UNION {LogIds(l) : l \in DOMAIN logs}
      BY <2>6, <2>7, <2>8
    <3>2. Live' \subseteq Live
      BY <2>2, <2>4, <2>13, <3>1 DEF Live
    <3>3. \A i, k : Apart(i, k)' <=> Apart(i, k)
      BY <2>1 DEF Apart
    <3> QED  BY <3>2, <3>3 DEF ApartInv
  <2>16. ImmInv'
    <3> SUFFICES ASSUME NEW e \in mem_
                 PROVE  /\ EntriesOf({e[1]}) \subseteq mem_
                        /\ Old(e[1])'
                        /\ \E l \in DOMAIN logs' : l >= logNumber /\ KeptIn(e[1], l)'
      BY <2>1 DEF ImmInv, Whole, EntriesOf
    <3>1. KeptIn(e[1], logfile_number_) /\ Old(e[1]) /\ EntriesOf({e[1]}) \subseteq mem_
      BY <2>2 DEF MemInv
    <3>2. logfile_number_ >= logNumber
      BY <2>5 DEF Inv, DataTypeOK
    <3> QED  BY <2>5, <2>6, <2>9, <2>10, <3>1, <3>2
  <2>17. TablesInv'
    BY <2>1 DEF TablesInv, Whole, EntriesOf
  <2>18. EditInv'
    <3>1. bgpc \notin {"building", "logging", "install", "installFailed"}
      BY <2>1 DEF Inv, BackgroundInv
    <3>2. bgpc' = bgpc \/ bgpc' = "scheduled"
      BY <2>1 DEF Scheduled
    <3>3. manifest.log = logNumber
      BY <2>1, <2>3 DEF EditInv
    <3>4. bgpc \in {"merged", "moving", "installMerge", "installMove"} =>
            edit.tables = {} /\ edit.log = logNumber
      BY <2>3 DEF EditInv
    <3>5. bgpc \in {"merged", "moving"} =>
            manifest.sequence <= edit.sequence /\ edit.sequence <= lastSequence
      BY <2>3 DEF EditInv
    <3>6. bgpc' \in {"merged", "moving"} => IdsOf(edit.tables) = {}
      BY <3>2, <3>4 DEF IdsOf
    <3>7. IdsOf(edit.tables)' = IdsOf(edit.tables)
      BY <2>1 DEF IdsOf
    <3> QED  BY <2>1, <3>1, <3>2, <3>3, <3>4, <3>5, <3>6, <3>7 DEF EditInv
  <2>19. SafeInv'
    <3> SUFFICES ASSUME NEW i \in Promised
                 PROVE  /\ Old(i)
                        /\ EntriesOf({i}) \subseteq mem_ \/ EntriesOf({i}) \subseteq tables
      BY <2>1, <2>4, <2>10 DEF SafeInv, EntriesOf
    <3>1. i \in Calls
      BY <2>3, PromisedIsOld
    <3>2. ~(EntriesOf({i}) \subseteq imm_)
      BY <2>1, <3>1, NotInNoImm
    <3> QED  BY <2>3, <3>2 DEF SafeInv
  <2>20. ClosedDataInv'
    BY <2>1, <2>3 DEF ClosedDataInv
  <2> QED  BY <2>4, <2>11, <2>12, <2>14, <2>15, <2>16, <2>17, <2>18, <2>19, <2>20
<1> QED  BY <1>2, <1>3

-----------------------------------------------------------------------------
(* The log and the memtable, without the mutex.                            *)

\* A step of the group's leader: it may add the group's batches to the log, and
\* sync it, before it adds their entries to the memtable.
LEMMA LoggerStep ==
  ASSUME Inv, DataInv, NEW t \in Loggers, OnlyLogging,
         pc'[t] \in Logging,
         \A u \in Threads \ {t} : pc'[u] = pc[u] /\ status'[u] = status[u],
         RecordsInv', DOMAIN logs' = DOMAIN logs,
         \A l \in DOMAIN logs :
           /\ LogIds(l) \subseteq LogIds(l)' /\ LogIds(l)' \subseteq LogIds(l) \cup GroupIds(t)
           /\ SyncedIds(l) \subseteq SyncedIds(l)',
         mem_ \subseteq mem_',
         \A e \in mem_' \ mem_ : Inserting(t) /\ e[1] \in GroupIds(t),
         Inserting(t) => Inserting(t)',
         pc'[t] = "sync" \/ Inserting(t)' => GroupIds(t) \subseteq LogIds(logfile_number_)',
         Inserting(t)' => \A i \in GroupIds(t) : KeptIn(i, logfile_number_)',
         pc'[t] = "relock" /\ status'[t] = "ok" => EntriesOf(GroupIds(t)) \subseteq mem_'
  PROVE  DataInv'
<1> USE TypeParts DEF DataInv, StoreInv
<1>1. /\ UNCHANGED <<op, done, group, imm_, logfile_number_, tables, lastSequence, logNumber>>
      /\ UNCHANGED <<manifest, open, calls, request, sequence, acked, edit, bgpc>>
  BY DEF OnlyLogging, bgVars, versionVars, historyVars
<1>2. t \in Threads /\ pc[t] \in Logging /\ open /\ InFlight = GroupIds(t) /\ GroupIds(t) \subseteq Calls
  BY LoggerFacts
<1>3. Loggers' = Loggers /\ Loggers = {t}
  <2>1. \A u \in Loggers : u = t
    BY LoggerFacts DEF Loggers, Working
  <2>2. Loggers' = Loggers
    BY <1>2 DEF Loggers
  <2> QED  BY <2>1, <2>2
<1>4. \A u : GroupIds(u)' = GroupIds(u)
  BY <1>1 DEF GroupIds
<1>5. InFlight' = InFlight
  BY <1>3, <1>4 DEF InFlight
<1>6. \A u \in Threads : (InQueue(u)' <=> InQueue(u)) /\ (pc'[u] # "idle" <=> pc[u] # "idle")
  BY <1>1, <1>2 DEF InQueue, Working, Logging
<1>7. Promised' = Promised
  <2>1. \A u \in Threads : /\ (pc[u] = "waiting" <=> pc'[u] = "waiting")
                           /\ pc[u] = "waiting" => status'[u] = status[u]
    BY <1>2 DEF Logging
  <2>2. {u \in Threads : pc'[u] = "waiting" /\ done[u] /\ status'[u] = "ok" /\ op[u].batch}
          = {u \in Threads : pc[u] = "waiting" /\ done[u] /\ status[u] = "ok" /\ op[u].batch}
    BY <2>1
  <2> QED  BY <1>1, <2>2 DEF Promised
<1>8. OnceInv' /\ PromisedInv' /\ SeenInv'
  BY <1>1, <1>5, <1>6, <1>7 DEF OnceInv, PromisedInv, SeenInv
<1>9. \A i : (Old(i)' <=> Old(i)) /\ \A k : (Apart(i, k)' <=> Apart(i, k))
  BY <1>1 DEF Old, Apart
<1>10. \A l \in DOMAIN logs : \A i : KeptIn(i, l) => KeptIn(i, l)'
  BY <1>1 DEF KeptIn
<1>11. logfile_number_ \in DOMAIN logs
  BY DEF Inv, LogFileInv
<1>12. LoggerInv'
  <2>1. \A k : WithBatch(group[t], k)' = WithBatch(group[t], k)
    BY <1>1 DEF WithBatch
  <2>2. \A k : SequenceOf(WithBatch(group[t], k))' = SequenceOf(WithBatch(group[t], k))
    BY <1>1, <2>1 DEF SequenceOf
  <2>3. \A k \in 1..Len(group'[t]) :
          /\ op'[group'[t][k]].sync => op'[t].sync
          /\ op'[group'[t][k]].batch =>
               sequence'[op'[group'[t][k]].id] = SequenceOf(WithBatch(group[t], k))'
    BY <1>1, <2>2 DEF LoggerInv
  <2>4. EntriesOf(GroupIds(t))' = EntriesOf(GroupIds(t))
    BY <1>4 DEF EntriesOf
  <2> QED  BY <1>1, <1>3, <1>4, <2>3, <2>4 DEF LoggerInv
<1>13. NumbersInv'
  <2>1. \A i \in GroupIds(t) : sequence[i] >= 1
    <3>1. \A i \in GroupIds(t) : sequence[i] \in Nat /\ sequence[i] > lastSequence
      BY InFlightNumbers
    <3>2. lastSequence \in Nat
      BY DEF Inv, DataTypeOK
    <3> QED  BY <3>1, <3>2
  <2>2. \A l \in DOMAIN logs : \A i \in LogIds(l)' : sequence[i] >= 1 /\ (Old(i) \/ i \in InFlight)
    BY <1>2, <2>1 DEF NumbersInv
  <2>3. IdsOf(manifest.tables)' = IdsOf(manifest.tables)
    BY <1>1 DEF IdsOf
  <2> QED  BY <1>1, <1>5, <1>9, <2>2, <2>3 DEF NumbersInv
<1>14. ApartInv'
  <2>1. (UNION {LogIds(l) : l \in DOMAIN logs})' \subseteq (UNION {LogIds(l) : l \in DOMAIN logs}) \cup InFlight
    BY <1>2
  <2>2. IdsOf(manifest.tables)' = IdsOf(manifest.tables)
    BY <1>1 DEF IdsOf
  <2>3. Live' \subseteq Live
    BY <1>5, <2>1, <2>2 DEF Live
  <2> QED  BY <1>9, <2>3 DEF ApartInv
<1>15. MemInv'
  <2> SUFFICES ASSUME NEW e \in mem_'
               PROVE  /\ KeptIn(e[1], logfile_number_)'
                      /\ \/ Old(e[1]) /\ EntriesOf({e[1]}) \subseteq mem_'
                         \/ Inserting(t)' /\ e[1] \in GroupIds(t)
    BY <1>3, <1>4, <1>9 DEF MemInv, EntriesOf
  <2>1. CASE e \in mem_
    <3>1. KeptIn(e[1], logfile_number_)'
      BY <1>1, <1>10, <1>11, <2>1 DEF MemInv
    <3>2. \/ Old(e[1]) /\ EntriesOf({e[1]}) \subseteq mem_
          \/ Inserting(t) /\ e[1] \in GroupIds(t)
      BY <1>3, <2>1 DEF MemInv
    <3> QED  BY <3>1, <3>2
  <2>2. CASE e \notin mem_
    BY <2>2
  <2> QED  BY <2>1, <2>2
<1>16. ImmInv'
  BY <1>1, <1>9, <1>10 DEF ImmInv, Whole, EntriesOf
<1>17. TablesInv' /\ EditInv'
  BY <1>1 DEF TablesInv, EditInv, Whole, EntriesOf, IdsOf
<1>8a. SafeInv'
  BY <1>1, <1>7, <1>9 DEF SafeInv, EntriesOf
<1>19. ClosedDataInv'
  BY <1>1, <1>2 DEF ClosedDataInv
<1> QED  BY <1>8, <1>12, <1>13, <1>14, <1>15, <1>16, <1>17, <1>8a, <1>19

\* A member of a group that does not sync did not ask for it.
LEMMA GroupWithoutSync ==
  ASSUME Inv, DataInv, NEW t \in Loggers, ~op[t].sync, NEW i \in GroupIds(t)
  PROVE  ~request[i].sync
<1>1. PICK k \in 1..Len(group[t]) : op[group[t][k]].batch /\ op[group[t][k]].id = i
  BY GroupIdIs
<1>2. group[t][k] \in Threads /\ InQueue(group[t][k])
  BY LoggerFacts
<1>3. pc[group[t][k]] # "idle"
  BY <1>2 DEF InQueue, Working, Logging
<1>4. request[i].sync = op[group[t][k]].sync
  BY <1>1, <1>2, <1>3 DEF DataInv, PromisedInv
<1>5. ~op[group[t][k]].sync
  BY DEF DataInv, StoreInv, LoggerInv
<1> QED  BY <1>4, <1>5

\* What the leader's steps have in common.
LEMMA LoggerMoves ==
  ASSUME Inv, NEW t \in Threads, pc[t] \in Logging,
         NEW to, pc' = [pc EXCEPT ![t] = to],
         status' = status \/ \E s : status' = [status EXCEPT ![t] = s]
  PROVE  /\ t \in Loggers /\ pc'[t] = to
         /\ \A u \in Threads \ {t} : pc'[u] = pc[u] /\ status'[u] = status[u]
BY TypeParts DEF Inv, ThreadTypeOK, Loggers

\* The leader appends its group's record to the log.
LEMMA AddRecordKeepsData ==
  ASSUME Inv, DataInv, NEW t \in Threads, AddRecord(t), "torn" \notin Failures
  PROVE  DataInv'
<1> USE TypeParts DEF DataInv, StoreInv
<1>1. pc[t] = "append" /\ mem_' = mem_ /\ OnlyLogging /\ t \in Loggers
  BY DEF AddRecord, Loggers, Logging
<1>2. ~Inserting(t) /\ UNCHANGED <<logfile_number_, request, open>>
  BY <1>1 DEF Inserting, OnlyLogging, historyVars
<1>3. CASE logs' = Logged(GroupIds(t), TRUE)
           /\ pc' = [pc EXCEPT ![t] = IF op[t].sync THEN "sync" ELSE "insert"]
           /\ status' = status
  <2>0. PICK cur : cur = logfile_number_
    OBVIOUS
  <2> DEFINE r == logs[cur].records
             rec == [ids |-> GroupIds(t), whole |-> TRUE]
  <2>1. /\ LogsTypeOK /\ LogFileInv /\ cur \in DOMAIN logs
        /\ logs[cur] \in [records : Seq(Record), synced : Nat]
    BY <2>0 DEF Inv, DataTypeOK, LogsTypeOK, LogFileInv
  <2>2. GroupIds(t) \subseteq Calls
    BY <1>1, LoggerFacts
  <2>3. /\ DOMAIN logs' = DOMAIN logs
        /\ \A n \in DOMAIN logs : n # cur => logs'[n] = logs[n]
        /\ logs'[cur].synced = logs[cur].synced
        /\ logs'[cur].records = Append(r, rec)
    BY <1>2, <1>3, <2>0, <2>1, <2>2, LoggedTypes
  <2>4. r \in Seq(Record) /\ rec \in Record /\ rec.ids = GroupIds(t) /\ rec.whole
    BY <2>1, <2>2 DEF Record
  <2> HIDE DEF rec
  <2>5. /\ Len(logs'[cur].records) = Len(r) + 1 /\ Len(r) \in Nat
        /\ \A k \in 1..Len(r) : logs'[cur].records[k] = r[k]
        /\ logs'[cur].records[Len(r) + 1] = rec
    BY <2>3, <2>4
  <2>6. logs[cur].synced <= Len(r) /\ logs[cur].synced \in Nat
    BY <2>1 DEF RecordsInv
  <2> HIDE DEF r
  <2>7. /\ 1..(Len(r) + 1) = (1..Len(r)) \cup {Len(r) + 1}
        /\ \A k \in 1..logs[cur].synced : k \in 1..Len(r)
    BY <2>5, <2>6
  <2>8. LogIds(cur)' = LogIds(cur) \cup GroupIds(t)
    <3>1. LogIds(cur)' = UNION {logs'[cur].records[k].ids : k \in 1..(Len(r) + 1)}
      BY <2>5 DEF LogIds
    <3>2. LogIds(cur) = UNION {r[k].ids : k \in 1..Len(r)}
      BY DEF LogIds, r
    <3>3. \A k \in 1..(Len(r) + 1) : logs'[cur].records[k].ids =
            IF k \in 1..Len(r) THEN r[k].ids ELSE GroupIds(t)
      BY <2>4, <2>5, <2>7
    <3> QED  BY <2>5, <2>7, <3>1, <3>2, <3>3
  <2>9. SyncedIds(cur)' = SyncedIds(cur)
    <3>1. \A k \in 1..logs[cur].synced : logs'[cur].records[k] = logs[cur].records[k]
      BY <2>5, <2>7 DEF r
    <3> QED  BY <2>3, <3>1 DEF SyncedIds
  <2>10. \A n \in DOMAIN logs : n # cur => LogIds(n)' = LogIds(n) /\ SyncedIds(n)' = SyncedIds(n)
    BY <2>3, SameLog
  <2>11. RecordsInv'
    <3> SUFFICES ASSUME NEW l \in DOMAIN logs
                 PROVE  /\ logs'[l].synced <= Len(logs'[l].records)
                        /\ \A k \in 1..Len(logs'[l].records) : logs'[l].records[k].whole
      <4>1. open
        BY <1>1, LoggerFacts
      <4> QED  BY <1>2, <2>3, <4>1 DEF RecordsInv
    <3>1. CASE l # cur
      BY <2>3, <3>1 DEF RecordsInv
    <3>2. CASE l = cur
      <4>1. \A k \in 1..Len(r) : r[k].whole
        BY <2>1 DEF RecordsInv, r
      <4>2. \A k \in 1..(Len(r) + 1) : logs'[cur].records[k].whole
        BY <2>4, <2>5, <2>7, <4>1
      <4> QED  BY <2>3, <2>5, <2>6, <3>2, <4>2
    <3> QED  BY <3>1, <3>2
  <2>12. /\ pc'[t] = (IF op[t].sync THEN "sync" ELSE "insert")
         /\ \A u \in Threads \ {t} : pc'[u] = pc[u] /\ status'[u] = status[u]
    BY <1>1, <1>3, LoggerMoves DEF Logging
  <2>13. Inserting(t)' => \A i \in GroupIds(t) : KeptIn(i, logfile_number_)'
    <3> SUFFICES ASSUME Inserting(t)', NEW i \in GroupIds(t)
                 PROVE  KeptIn(i, cur)'
      BY <1>2, <2>0
    <3>1. ~op[t].sync
      BY <2>12 DEF Inserting
    <3>2. ~request'[i].sync
      BY <1>1, <1>2, <3>1, GroupWithoutSync
    <3> QED  BY <2>8, <3>2 DEF KeptIn
  <2>14. GroupIds(t) \subseteq LogIds(logfile_number_)'
    BY <1>2, <2>0, <2>8
  <2>15. \A l \in DOMAIN logs :
           /\ LogIds(l) \subseteq LogIds(l)' /\ LogIds(l)' \subseteq LogIds(l) \cup GroupIds(t)
           /\ SyncedIds(l) \subseteq SyncedIds(l)'
    BY <2>8, <2>9, <2>10
  <2>16. pc'[t] \in Logging /\ pc'[t] # "relock"
    BY <2>12 DEF Logging
  <2> QED  BY <1>1, <1>2, <2>3, <2>11, <2>12, <2>13, <2>14, <2>15, <2>16, LoggerStep
<1>4. CASE logs' = logs /\ status' = [status EXCEPT ![t] = "error"]
           /\ pc' = [pc EXCEPT ![t] = "relock"]
  <2>1. /\ pc'[t] = "relock"
        /\ \A u \in Threads \ {t} : pc'[u] = pc[u] /\ status'[u] = status[u]
    BY <1>1, <1>4, LoggerMoves DEF Logging
  <2>2. status'[t] = "error"
    BY <1>4 DEF Inv, ThreadTypeOK
  <2>3. ~Inserting(t)' /\ pc'[t] \in Logging
    BY <2>1, <2>2 DEF Inserting, Logging
  <2>4. RecordsInv'
    BY <1>2, <1>4 DEF RecordsInv
  <2>5. \A l : LogIds(l)' = LogIds(l) /\ SyncedIds(l)' = SyncedIds(l)
    BY <1>4, SameLogs
  <2> QED  BY <1>1, <1>2, <1>4, <2>1, <2>2, <2>3, <2>4, <2>5, LoggerStep
<1>5. ~Fails("torn")
  BY DEF Fails
<1> QED  BY <1>3, <1>4, <1>5 DEF AddRecord


\* The leader syncs the log, when a member asked for it.
LEMMA SyncKeepsData ==
  ASSUME Inv, DataInv, NEW t \in Threads, Sync(t)
  PROVE  DataInv'
<1> USE TypeParts DEF DataInv, StoreInv
<1>1. pc[t] = "sync" /\ mem_' = mem_ /\ OnlyLogging /\ t \in Loggers
  BY DEF Sync, Loggers, Logging
<1>2. ~Inserting(t) /\ UNCHANGED <<logfile_number_, request, open>> /\ open
  BY <1>1, LoggerFacts DEF Inserting, OnlyLogging, historyVars
<1>3. GroupIds(t) \subseteq LogIds(logfile_number_) /\ logfile_number_ \in DOMAIN logs
  BY <1>1 DEF LoggerInv, Inv, LogFileInv
<1>4. CASE logs' = [logs EXCEPT ![logfile_number_].synced = Len(logs[logfile_number_].records)]
           /\ pc' = [pc EXCEPT ![t] = "insert"] /\ status' = status
  <2>0. PICK cur : cur = logfile_number_
    OBVIOUS
  <2>1. /\ cur \in DOMAIN logs /\ logs[cur] \in [records : Seq(Record), synced : Nat]
        /\ Len(logs[cur].records) \in Nat
    BY <1>3, <2>0 DEF Inv, DataTypeOK
  <2>2. /\ DOMAIN logs' = DOMAIN logs
        /\ \A n \in DOMAIN logs : n # cur => logs'[n] = logs[n]
        /\ logs'[cur].synced = Len(logs[cur].records)
        /\ logs'[cur].records = logs[cur].records
    BY <1>4, <2>0, <2>1
  <2>3. LogIds(cur)' = LogIds(cur) /\ SyncedIds(cur)' = LogIds(cur)
    BY <2>2 DEF LogIds, SyncedIds
  <2>4. SyncedIds(cur) \subseteq LogIds(cur)
    <3>1. \A k \in 1..logs[cur].synced : k \in 1..Len(logs[cur].records)
      BY <2>1 DEF RecordsInv
    <3> QED  BY <3>1 DEF SyncedIds, LogIds
  <2>5. \A l \in DOMAIN logs :
           /\ LogIds(l) \subseteq LogIds(l)' /\ LogIds(l)' \subseteq LogIds(l) \cup GroupIds(t)
           /\ SyncedIds(l) \subseteq SyncedIds(l)'
    <3> SUFFICES ASSUME NEW l \in DOMAIN logs
                 PROVE  /\ LogIds(l) \subseteq LogIds(l)' /\ LogIds(l)' \subseteq LogIds(l)
                        /\ SyncedIds(l) \subseteq SyncedIds(l)'
      OBVIOUS
    <3>1. CASE l = cur
      BY <2>3, <2>4, <3>1
    <3>2. CASE l # cur
      BY <2>2, <3>2, SameLog
    <3> QED  BY <3>1, <3>2
  <2>6. RecordsInv'
    <3> SUFFICES ASSUME NEW l \in DOMAIN logs
                 PROVE  /\ logs'[l].synced <= Len(logs'[l].records)
                        /\ \A k \in 1..Len(logs'[l].records) : logs'[l].records[k].whole
      BY <1>2, <2>2 DEF RecordsInv
    <3>1. CASE l # cur
      BY <2>2, <3>1 DEF RecordsInv
    <3>2. CASE l = cur
      BY <2>1, <2>2, <3>2 DEF RecordsInv
    <3> QED  BY <3>1, <3>2
  <2>7. /\ pc'[t] = "insert"
        /\ \A u \in Threads \ {t} : pc'[u] = pc[u] /\ status'[u] = status[u]
    BY <1>1, <1>4, LoggerMoves DEF Logging
  <2>8. /\ GroupIds(t) \subseteq LogIds(logfile_number_)'
        /\ \A i \in GroupIds(t) : KeptIn(i, logfile_number_)'
    BY <1>2, <1>3, <2>0, <2>3 DEF KeptIn
  <2>9. pc'[t] \in Logging /\ pc'[t] # "relock"
    BY <2>7 DEF Logging
  <2> QED  BY <1>1, <1>2, <2>2, <2>5, <2>6, <2>7, <2>8, <2>9, LoggerStep
<1>5. CASE logs' = logs /\ status' = [status EXCEPT ![t] = "sync error"]
           /\ pc' = [pc EXCEPT ![t] = "relock"]
  <2>1. /\ pc'[t] = "relock"
        /\ \A u \in Threads \ {t} : pc'[u] = pc[u] /\ status'[u] = status[u]
    BY <1>1, <1>5, LoggerMoves DEF Logging
  <2>2. status'[t] = "sync error"
    BY <1>5 DEF Inv, ThreadTypeOK
  <2>3. ~Inserting(t)' /\ pc'[t] \in Logging
    BY <2>1, <2>2 DEF Inserting, Logging
  <2>4. RecordsInv'
    BY <1>2, <1>5 DEF RecordsInv
  <2>5. \A l : LogIds(l)' = LogIds(l) /\ SyncedIds(l)' = SyncedIds(l)
    BY <1>5, SameLogs
  <2> QED  BY <1>1, <1>2, <1>5, <2>1, <2>2, <2>3, <2>4, <2>5, LoggerStep
<1> QED  BY <1>4, <1>5 DEF Sync

\* The leader inserts the next entry of its group.
LEMMA InsertKeepsData ==
  ASSUME Inv, DataInv, NEW t \in Threads, InsertInto(t)
  PROVE  DataInv'
<1> USE TypeParts DEF DataInv, StoreInv
<1> DEFINE left == EntriesOf(GroupIds(t)) \ mem_
<1>1. /\ pc[t] = "insert" /\ logs' = logs /\ OnlyLogging /\ t \in Loggers
      /\ \E entry \in left :
           /\ mem_' = mem_ \cup {entry}
           /\ \/ left # {entry} /\ UNCHANGED <<pc, status>>
              \/ /\ left = {entry}
                 /\ pc' = [pc EXCEPT ![t] = "relock"]
                 /\ status' = [status EXCEPT ![t] = "ok"]
  BY DEF InsertInto, Loggers, Logging
<1>2. PICK entry \in left :
           /\ mem_' = mem_ \cup {entry}
           /\ \/ left # {entry} /\ UNCHANGED <<pc, status>>
              \/ /\ left = {entry}
                 /\ pc' = [pc EXCEPT ![t] = "relock"]
                 /\ status' = [status EXCEPT ![t] = "ok"]
  BY <1>1
<1>3. Inserting(t) /\ UNCHANGED <<logfile_number_, request, open>>
  BY <1>1 DEF Inserting, OnlyLogging, historyVars
<1>4. \A l : LogIds(l)' = LogIds(l) /\ SyncedIds(l)' = SyncedIds(l)
  BY <1>1, SameLogs
<1>5. RecordsInv'
  BY <1>1, <1>3 DEF RecordsInv
<1>6. entry[1] \in GroupIds(t)
  BY DEF EntriesOf
<1>7. /\ GroupIds(t) \subseteq LogIds(logfile_number_)
      /\ \A i \in GroupIds(t) : KeptIn(i, logfile_number_)
  BY <1>1, <1>3 DEF LoggerInv
<1>8. /\ GroupIds(t) \subseteq LogIds(logfile_number_)'
      /\ \A i \in GroupIds(t) : KeptIn(i, logfile_number_)'
  BY <1>3, <1>4, <1>7 DEF KeptIn
<1>9. \/ pc'[t] = "insert" /\ status' = status /\ pc' = pc
      \/ /\ pc'[t] = "relock" /\ status'[t] = "ok" /\ EntriesOf(GroupIds(t)) \subseteq mem_'
         /\ pc' = [pc EXCEPT ![t] = "relock"] /\ status' = [status EXCEPT ![t] = "ok"]
  BY <1>1, <1>2 DEF Inv, ThreadTypeOK
<1>10. \A u \in Threads \ {t} : pc'[u] = pc[u] /\ status'[u] = status[u]
  BY <1>9 DEF Inv, ThreadTypeOK
<1>11. Inserting(t)' /\ pc'[t] \in Logging
  BY <1>9 DEF Inserting, Logging
<1> HIDE DEF left
<1> QED  BY <1>1, <1>2, <1>3, <1>4, <1>5, <1>6, <1>8, <1>9, <1>10, <1>11, LoggerStep


\* The group leaves: its writers are told, and no one that stays has its numbers.
LEMMA GroupLeaves ==
  ASSUME Inv, NEW t \in Threads, GroupDone(t)
  PROVE  LET s == IF status[t] = "ok" THEN "ok" ELSE "error"
         IN  /\ t \in Loggers /\ Loggers' = {} /\ InFlight' = {}
             /\ \A u \in Threads : InQueue(u)' => InQueue(u) /\ op[u].id \notin GroupIds(t)
             /\ \A u \in Threads : pc'[u] # "idle" => pc[u] # "idle"
             /\ acked \subseteq acked'
             /\ \A i \in Promised' : i \in Promised \/ (s = "ok" /\ i \in GroupIds(t))
<1> USE TypeParts
<1> DEFINE s == IF status[t] = "ok" THEN "ok" ELSE "error"
           members == {group[t][k] : k \in DOMAIN group[t]}
<1>1. pc[t] = "relock" /\ Finish(t, members, s) /\ op' = op
  BY DEF GroupDone
<1>2. t \in Loggers
  BY <1>1 DEF Loggers, Logging
<1>3. /\ DOMAIN group[t] = 1..Len(group[t]) /\ group[t][1] = t /\ Len(group[t]) >= 1 /\ Len(group[t]) \in Nat
      /\ \A k \in 1..Len(group[t]) : group[t][k] \in Threads /\ InQueue(group[t][k])
                                     /\ op[group[t][k]].id \in Calls
      /\ \A u \in Threads : pc[u] \in Working => u = t
  BY <1>2, LoggerFacts
<1>4. /\ pc' = [pc EXCEPT ![t] = IF op[t].batch \/ s = "error" THEN "idle" ELSE "immwait"]
      /\ acked' = IF op[t].batch /\ s = "ok" THEN acked \cup {op[t].id} ELSE acked
      /\ status' = [u \in Threads |-> IF u \in members THEN s ELSE status[u]]
      /\ done' = [u \in Threads |-> u \in members \ {t} \/ done[u]]
  BY <1>1 DEF Finish, Return
<1> HIDE DEF s
<1>5. /\ pc'[t] \in {"idle", "immwait"}
      /\ \A u \in Threads \ {t} : pc'[u] = pc[u]
  BY <1>4 DEF Inv, ThreadTypeOK
<1>6. Loggers' = {} /\ InFlight' = {}
  <2>1. Loggers' = {}
    BY <1>3, <1>5 DEF Loggers, Logging, Working
  <2> QED  BY <2>1 DEF InFlight
<1>7. t \in members
  BY <1>3
<1>8. \A u \in Threads : InQueue(u)' => InQueue(u) /\ u \notin members
  <2> SUFFICES ASSUME NEW u \in Threads, InQueue(u)'
               PROVE  InQueue(u) /\ u \notin members
    OBVIOUS
  <2>1. u # t
    BY <1>5 DEF InQueue, Working, Logging
  <2>2. pc[u] \notin Working
    BY <1>3, <2>1
  <2>3. pc[u] = "waiting" /\ ~done'[u]
    BY <1>5, <2>1, <2>2 DEF InQueue
  <2> QED  BY <1>4, <2>1, <2>3 DEF InQueue
<1>9. \A u \in Threads : u \notin members => op[u].id \notin GroupIds(t)
  <2> SUFFICES ASSUME NEW u \in Threads, op[u].id \in GroupIds(t)
               PROVE  u \in members
    OBVIOUS
  <2>1. PICK k \in 1..Len(group[t]) : op[group[t][k]].id = op[u].id
    BY <1>2, GroupIdIs
  <2>2. op[u].id # 0
    BY <1>3, <2>1 DEF Calls
  <2>3. u = group[t][k]
    BY <1>3, <2>1, <2>2 DEF Inv, CallInv
  <2> QED  BY <1>3, <2>3
<1>10. \A k \in 1..Len(group[t]) : op[group[t][k]].batch => op[group[t][k]].id \in GroupIds(t)
  BY <1>3 DEF GroupIds
<1>11. \A u \in members : op[u].batch => op[u].id \in GroupIds(t)
  BY <1>3, <1>10
<1>12. acked \subseteq acked'
  BY <1>4
<1>13. ASSUME NEW i \in Promised'
       PROVE  i \in Promised \/ (s = "ok" /\ i \in GroupIds(t))
  <2>1. i \in acked' \/ \E u \in Threads : /\ pc'[u] = "waiting" /\ done'[u] /\ status'[u] = "ok"
                                           /\ op[u].batch /\ i = op[u].id
    BY <1>1, <1>13 DEF Promised
  <2>2. CASE i \in acked'
    BY <1>4, <1>7, <1>11, <2>2 DEF Promised
  <2>3. ASSUME NEW u \in Threads, pc'[u] = "waiting" /\ done'[u] /\ status'[u] = "ok", op[u].batch, i = op[u].id
        PROVE  i \in Promised \/ (s = "ok" /\ i \in GroupIds(t))
    <3>1. u # t
      BY <1>5, <2>3
    <3>2. CASE u \in members
      BY <1>4, <1>11, <2>3, <3>2
    <3>3. CASE u \notin members
      <4>1. pc[u] = "waiting" /\ done[u] /\ status[u] = "ok"
        BY <1>4, <1>5, <2>3, <3>1, <3>3
      <4> QED  BY <2>3, <4>1 DEF Promised
    <3> QED  BY <3>2, <3>3
  <2> QED  BY <2>1, <2>2, <2>3
<1> HIDE DEF members
<1>14. \A u \in Threads : pc'[u] # "idle" => pc[u] # "idle"
  BY <1>1, <1>5
<1> QED  BY <1>2, <1>6, <1>8, <1>9, <1>12, <1>13, <1>14 DEF s

\* LastSequence moves past the group, and its writers learn how it went.
LEMMA GroupDoneKeepsData ==
  ASSUME Inv, DataInv, NEW t \in Threads, GroupDone(t)
  PROVE  DataInv'
<1> USE TypeParts DEF DataInv, StoreInv
<1>1. /\ pc[t] = "relock"
      /\ lastSequence' = lastSequence + BatchCount * WithBatch(group[t], Len(group[t]))
      /\ UNCHANGED <<op, logs, mem_, imm_, logfile_number_, logNumber, tables, manifest, open>>
      /\ UNCHANGED <<edit, bgpc, calls, request, sequence>>
  BY DEF GroupDone, bgVars, memVars, boundVars
<1>2. /\ t \in Loggers /\ Loggers' = {} /\ InFlight' = {}
      /\ \A u \in Threads : InQueue(u)' => InQueue(u) /\ op[u].id \notin GroupIds(t)
      /\ \A u \in Threads : pc'[u] # "idle" => pc[u] # "idle"
      /\ acked \subseteq acked'
      /\ \A i \in Promised' : i \in Promised \/ (status[t] = "ok" /\ i \in GroupIds(t))
  BY GroupLeaves
<1>3. /\ open /\ InFlight = GroupIds(t) /\ GroupIds(t) \subseteq Calls /\ group[t] \in Seq(Threads)
      /\ Len(group[t]) \in Nat
      /\ \A u \in Loggers : u = t
      /\ \A k \in 1..Len(group[t]) : group[t][k] \in Threads
  BY <1>2, LoggerFacts DEF Loggers, Working
<1>4. lastSequence \in Nat /\ lastSequence' \in Nat /\ lastSequence' >= lastSequence
  <2>1. WithBatch(group[t], Len(group[t])) \in Nat
    BY <1>3, WithBatchNumber DEF Inv
  <2>2. BatchCount * WithBatch(group[t], Len(group[t])) \in Nat
    BY <2>1, ProductIsNat, ConstantFacts
  <2>3. lastSequence \in Nat
    BY DEF Inv, DataTypeOK
  <2> QED  BY <1>1, <2>2, <2>3
<1>5. \A i \in Calls : sequence[i] \in Nat
  BY DEF Inv, HistoryTypeOK
<1>6. \A i \in Calls : Old(i) => Old(i)'
  BY <1>1, <1>4, <1>5, ConstantFacts DEF Old
<1>7. \A i \in GroupIds(t) : Old(i)'
  <2> SUFFICES ASSUME NEW i \in GroupIds(t)
               PROVE  Old(i)'
    OBVIOUS
  <2>1. /\ sequence[i] \in Nat /\ sequence[i] > lastSequence
        /\ sequence[i] + BatchCount - 1
              <= lastSequence + BatchCount * WithBatch(group[t], Len(group[t]))
    BY <1>2, InFlightNumbers
  <2>2. sequence[i] >= 1 /\ sequence[i] + BatchCount - 1 <= lastSequence'
    BY <1>1, <1>4, <2>1
  <2> QED  BY <1>1, <2>2 DEF Old
<1>8. \A l : LogIds(l)' = LogIds(l) /\ SyncedIds(l)' = SyncedIds(l)
  BY <1>1, SameLogs
<1>9. \A l, i : KeptIn(i, l)' <=> KeptIn(i, l)
  BY <1>1, <1>8 DEF KeptIn
<1>10. RecordsInv' /\ LoggerInv' /\ TablesInv'
  BY <1>1, <1>2 DEF RecordsInv, LoggerInv, TablesInv, Whole, EntriesOf
<1>11. OnceInv'
  <2>1. \A u \in Threads : InQueue(u)' => sequence[op[u].id] = 0
    BY <1>2, <1>3 DEF OnceInv
  <2> QED  BY <1>1, <2>1 DEF OnceInv
<1>12. IdsOf(manifest.tables)' = IdsOf(manifest.tables)
  BY <1>1 DEF IdsOf
<1>13. NumbersInv'
  <2>1. ASSUME NEW l \in DOMAIN logs, NEW i \in LogIds(l)
        PROVE  sequence[i] >= 1 /\ Old(i)'
    <3>1. i \in Calls
      BY LogIdsAreCalls DEF Inv
    <3>2. sequence[i] >= 1 /\ (Old(i) \/ i \in GroupIds(t))
      BY <1>3 DEF NumbersInv
    <3> QED  BY <1>6, <1>7, <3>1, <3>2
  <2>2. manifest.sequence <= lastSequence'
    <3>1. manifest.sequence \in Nat /\ manifest.sequence <= lastSequence
      BY DEF Inv, DataTypeOK, DescriptorType, NumbersInv
    <3> QED  BY <1>4, <3>1
  <2> QED  BY <1>1, <1>8, <1>12, <2>1, <2>2 DEF NumbersInv
<1>14. ApartInv'
  <2>1. (UNION {LogIds(l) : l \in DOMAIN logs})' = UNION {LogIds(l) : l \in DOMAIN logs}
    BY <1>1, <1>8
  <2>2. Live' \subseteq Live
    BY <1>2, <1>12, <2>1 DEF Live
  <2>3. \A i, k : Apart(i, k)' <=> Apart(i, k)
    BY <1>1 DEF Apart
  <2> QED  BY <2>2, <2>3 DEF ApartInv
<1>15. MemInv'
  <2> SUFFICES ASSUME NEW e \in mem_
               PROVE  /\ KeptIn(e[1], logfile_number_)
                      /\ Old(e[1])' /\ EntriesOf({e[1]}) \subseteq mem_
    BY <1>1, <1>9 DEF MemInv, EntriesOf
  <2>1. KeptIn(e[1], logfile_number_)
    BY DEF MemInv
  <2>2. e[1] \in Calls
    BY DEF Inv, DataTypeOK, Entries
  <2>3. CASE Old(e[1]) /\ EntriesOf({e[1]}) \subseteq mem_
    BY <1>6, <2>1, <2>2, <2>3
  <2>4. CASE Inserting(t) /\ e[1] \in GroupIds(t)
    <3>1. EntriesOf(GroupIds(t)) \subseteq mem_
      BY <1>1, <1>2, <2>4 DEF Inserting, LoggerInv
    <3>2. EntriesOf({e[1]}) \subseteq EntriesOf(GroupIds(t))
      BY <2>4 DEF EntriesOf
    <3> QED  BY <1>7, <2>1, <2>4, <3>1, <3>2
  <2> QED  BY <1>3, <2>3, <2>4 DEF MemInv
<1>16. ImmInv'
  <2> SUFFICES ASSUME imm_ # NoImm
               PROVE  /\ Whole(imm_)
                      /\ \A e \in imm_ : /\ Old(e[1])'
                                         /\ \E l \in DOMAIN logs : l >= logNumber /\ KeptIn(e[1], l)
    BY <1>1, <1>9 DEF ImmInv, Whole, EntriesOf
  <2>1. \A e \in imm_ : e[1] \in Calls
    BY DEF Inv, DataTypeOK, Entries
  <2> QED  BY <1>6, <2>1 DEF ImmInv
<1>17. EditInv'
  <2>1. edit.sequence \in Nat
    BY DEF Inv, BackgroundTypeOK
  <2>2. edit.sequence <= lastSequence => edit.sequence <= lastSequence'
    BY <1>4, <2>1
  <2>3. IdsOf(edit.tables)' = IdsOf(edit.tables)
    BY <1>1 DEF IdsOf
  <2> QED  BY <1>1, <2>2, <2>3 DEF EditInv
<1>8a. PromisedInv'
  <2>1. ASSUME NEW i \in Promised'
        PROVE  i <= calls
    <3>1. CASE i \in Promised
      BY <3>1 DEF PromisedInv
    <3>2. CASE i \in GroupIds(t)
      <4>1. PICK k \in 1..Len(group[t]) : op[group[t][k]].id = i
        BY <1>2, <3>2, GroupIdIs
      <4> QED  BY <1>3, <4>1 DEF Inv, CallInv
    <3> QED  BY <1>2, <3>1, <3>2
  <2>2. \A u \in Threads : InQueue(u)' => op[u].id \notin Promised'
    BY <1>2 DEF PromisedInv
  <2> QED  BY <1>1, <1>2, <2>1, <2>2 DEF PromisedInv
<1>19. SafeInv'
  <2> SUFFICES ASSUME NEW i \in Promised'
               PROVE  /\ Old(i)'
                      /\ \/ EntriesOf({i}) \subseteq mem_ \/ EntriesOf({i}) \subseteq imm_
                         \/ EntriesOf({i}) \subseteq tables
    BY <1>1 DEF SafeInv, EntriesOf
  <2>1. CASE i \in Promised
    <3>1. i \in Calls
      BY <1>3, <2>1, PromisedIsOld
    <3> QED  BY <1>3, <1>6, <2>1, <3>1 DEF SafeInv
  <2>2. CASE status[t] = "ok" /\ i \in GroupIds(t)
    <3>1. EntriesOf(GroupIds(t)) \subseteq mem_
      BY <1>1, <1>2, <2>2 DEF LoggerInv
    <3>2. EntriesOf({i}) \subseteq EntriesOf(GroupIds(t))
      BY <2>2 DEF EntriesOf
    <3> QED  BY <1>7, <2>2, <3>1, <3>2
  <2> QED  BY <1>2, <2>1, <2>2
<1>20. SeenInv'
  BY <1>1, <1>2 DEF SeenInv
<1>21. ClosedDataInv'
  BY <1>1, <1>3 DEF ClosedDataInv
<1> QED  BY <1>10, <1>11, <1>13, <1>14, <1>15, <1>16, <1>17, <1>8a, <1>19, <1>20, <1>21

-----------------------------------------------------------------------------
(* The background thread.                                                  *)

\* What a step of the background thread leaves to check: the memtable it has in
\* hand, the tables, and the edit.  It may delete logs.
LEMMA BackgroundStep ==
  ASSUME Inv, DataInv, open, OnlyBackground,
         logfile_number_ \in DOMAIN logs',
         \A l \in DOMAIN logs' : l \in DOMAIN logs /\ logs'[l] = logs[l],
         IdsOf(manifest.tables)' \subseteq Live,
         \A i \in IdsOf(manifest.tables)' :
           sequence[i] >= 1 /\ sequence[i] + BatchCount - 1 <= manifest'.sequence,
         manifest'.sequence <= lastSequence,
         ImmInv', TablesInv', EditInv', SafeInv'
  PROVE  DataInv'
<1> USE TypeParts DEF DataInv, StoreInv
<1>1. UNCHANGED <<pc, op, done, status, group, mem_, logfile_number_, lastSequence, open, calls,
                  request, sequence, acked>>
  BY DEF OnlyBackground, threadVars, historyVars
<1>2. /\ OnceInv' /\ PromisedInv' /\ SeenInv'
      /\ Promised' = Promised /\ Loggers' = Loggers /\ InFlight' = InFlight
      /\ \A t : Inserting(t)' <=> Inserting(t)
      /\ \A t : GroupIds(t)' = GroupIds(t)
  BY <1>1, CallsUnchanged
<1>3. \A l \in DOMAIN logs' : LogIds(l)' = LogIds(l) /\ SyncedIds(l)' = SyncedIds(l)
  BY SameLog
<1>4. /\ LogIds(logfile_number_)' = LogIds(logfile_number_)
      /\ \A i : KeptIn(i, logfile_number_)' <=> KeptIn(i, logfile_number_)
  BY <1>1, <1>3 DEF KeptIn
<1>5. \A i : (Old(i)' <=> Old(i)) /\ \A k : (Apart(i, k)' <=> Apart(i, k))
  BY <1>1 DEF Old, Apart
<1>6. RecordsInv'
  BY <1>1 DEF RecordsInv
<1>7. LoggerInv'
  <2>1. \A t, k : SequenceOf(WithBatch(group[t], k))' = SequenceOf(WithBatch(group[t], k))
    BY <1>1 DEF SequenceOf, WithBatch
  <2>2. \A t : EntriesOf(GroupIds(t))' = EntriesOf(GroupIds(t))
    BY <1>2 DEF EntriesOf
  <2>3. \A t \in Loggers : \A k \in 1..Len(group'[t]) :
           /\ op'[group'[t][k]].sync => op'[t].sync
           /\ op'[group'[t][k]].batch =>
                sequence'[op'[group'[t][k]].id] = SequenceOf(WithBatch(group[t], k))'
    <3> SUFFICES ASSUME NEW t \in Loggers
                 PROVE  \A k \in 1..Len(group[t]) :
                          /\ op[group[t][k]].sync => op[t].sync
                          /\ op[group[t][k]].batch =>
                               sequence[op[group[t][k]].id] = SequenceOf(WithBatch(group[t], k))'
      BY <1>1
    <3> QED  BY ZenonT(30), <2>1 DEF LoggerInv
  <2>4. \A t \in Loggers : pc'[t] = "sync" \/ Inserting(t)' => GroupIds(t)' \subseteq LogIds(logfile_number_)'
    BY <1>1, <1>2, <1>4 DEF LoggerInv
  <2>5. \A t \in Loggers : Inserting(t)' => \A i \in GroupIds(t)' : KeptIn(i, logfile_number_)'
    BY <1>2, <1>4 DEF LoggerInv
  <2>6. \A t \in Loggers : pc'[t] = "relock" /\ status'[t] = "ok" => EntriesOf(GroupIds(t))' \subseteq mem_'
    BY <1>1, <2>2 DEF LoggerInv
  <2> QED  BY <1>2, <2>3, <2>4, <2>5, <2>6 DEF LoggerInv
<1>8. NumbersInv'
  <2>1. \A l \in DOMAIN logs' : \A i \in LogIds(l)' :
          sequence[i] >= 1 /\ (open => Old(i) \/ i \in InFlight)
    BY <1>3 DEF NumbersInv
  <2> QED  BY <1>1, <1>2, <1>5, <2>1 DEF NumbersInv
<1>9. ApartInv'
  <2>1. (UNION {LogIds(l) : l \in DOMAIN logs})' \subseteq UNION {LogIds(l) : l \in DOMAIN logs}
    BY <1>3
  <2>2. (UNION {LogIds(l) : l \in DOMAIN logs})' \subseteq Live /\ InFlight \subseteq Live
    BY <2>1 DEF Live
  <2>3. Live' \subseteq Live
    <3>1. Live' = IdsOf(manifest.tables)' \cup (UNION {LogIds(l) : l \in DOMAIN logs})' \cup InFlight'
      BY DEF Live
    <3> HIDE DEF Live
    <3> QED  BY <1>2, <2>2, <3>1
  <2> QED  BY <1>5, <2>3 DEF ApartInv
<1>10. MemInv'
  <2> SUFFICES ASSUME NEW e \in mem_
               PROVE  /\ KeptIn(e[1], logfile_number_)
                      /\ \/ Old(e[1]) /\ EntriesOf({e[1]}) \subseteq mem_
                         \/ \E t \in Loggers : Inserting(t) /\ e[1] \in GroupIds(t)
    BY <1>1, <1>2, <1>4, <1>5 DEF MemInv, EntriesOf
  <2> QED  BY DEF MemInv
<1>11. ClosedDataInv'
  BY <1>1 DEF ClosedDataInv
<1> QED  BY <1>2, <1>6, <1>7, <1>8, <1>9, <1>10, <1>11

\* The descriptor's tables have numbers that were given out, and are live.
LEMMA ManifestFacts ==
  ASSUME Inv, DataInv
  PROVE  /\ IdsOf(manifest.tables) \subseteq Live
         /\ \A i \in IdsOf(manifest.tables) :
              sequence[i] >= 1 /\ sequence[i] + BatchCount - 1 <= manifest.sequence
         /\ manifest.sequence <= lastSequence
         /\ manifest.sequence \in Nat /\ lastSequence \in Nat
         /\ logfile_number_ \in DOMAIN logs
BY TypeParts DEF Live, DataInv, StoreInv, NumbersInv, Inv, LogFileInv, DataTypeOK, DescriptorType

\* Steps that only begin, complete or drop an edit.
LEMMA EditStep ==
  ASSUME Inv, DataInv, open, OnlyBackground,
         UNCHANGED <<imm_, logNumber, tables, logs, manifest>>,
         \/ bgpc' \in {"idle", "scheduled", "building", "merging", "mergeFailed"}
         \/ /\ bgpc' = "logging" /\ imm_ # NoImm
            /\ edit'.tables = imm_ /\ edit'.log = logfile_number_ /\ edit'.sequence = lastSequence
         \/ /\ bgpc' \in {"merged", "moving"}
            /\ edit'.tables = {} /\ edit'.log = logNumber /\ edit'.sequence = lastSequence
  PROVE  DataInv'
<1> USE DEF DataInv, StoreInv
<1>1. UNCHANGED <<pc, op, done, status, group, mem_, logfile_number_, lastSequence, open, calls,
                  request, sequence, acked>>
  BY DEF OnlyBackground, threadVars, historyVars
<1>2. Promised' = Promised
  BY <1>1, CallsUnchanged
<1>3. \A i : Old(i)' <=> Old(i)
  BY <1>1 DEF Old
<1>4. SafeInv' /\ TablesInv'
  BY <1>1, <1>2, <1>3 DEF SafeInv, TablesInv, EntriesOf, Whole
<1>5. \A i, l : KeptIn(i, l)' <=> KeptIn(i, l)
  BY <1>1, SameLogs DEF KeptIn
<1>6. ImmInv'
  BY <1>1, <1>3, <1>5 DEF ImmInv, EntriesOf, Whole
<1>7. EditInv'
  <2>1. \/ manifest.log = logNumber
        \/ imm_ # NoImm /\ imm_ \subseteq manifest.tables /\ manifest.log = logfile_number_
    BY DEF EditInv
  <2>2. manifest.sequence <= lastSequence /\ lastSequence <= lastSequence
    BY ManifestFacts
  <2>3. CASE bgpc' \in {"idle", "scheduled", "building", "merging", "mergeFailed"}
    BY <1>1, <2>1, <2>3 DEF EditInv
  <2>4. CASE /\ bgpc' = "logging" /\ imm_ # NoImm
             /\ edit'.tables = imm_ /\ edit'.log = logfile_number_ /\ edit'.sequence = lastSequence
    <3>1. \A i \in IdsOf(edit.tables)' : sequence[i] + BatchCount - 1 <= lastSequence
      <4>1. \A e \in imm_ : Old(e[1])
        BY <2>4 DEF ImmInv
      <4> QED  BY <2>4, <4>1 DEF IdsOf, Old
    <3> QED  BY <1>1, <2>1, <2>2, <2>4, <3>1 DEF EditInv
  <2>5. CASE /\ bgpc' \in {"merged", "moving"}
             /\ edit'.tables = {} /\ edit'.log = logNumber /\ edit'.sequence = lastSequence
    <3>1. IdsOf(edit.tables)' = {}
      BY <2>5 DEF IdsOf
    <3> QED  BY <1>1, <2>1, <2>2, <2>5, <3>1 DEF EditInv
  <2> QED  BY <2>3, <2>4, <2>5
<1>8. IdsOf(manifest.tables)' = IdsOf(manifest.tables)
  BY DEF IdsOf
<1> QED  BY <1>1, <1>4, <1>6, <1>7, <1>8, BackgroundStep, ManifestFacts


\* The states after which the background thread has no edit in hand.
LEMMA EndsWithoutEdit ==
  \A error, imm, level0 :
    /\ Scheduled("idle", error, imm, level0) \in {"idle", "scheduled"}
    /\ ReturnFromCompactMemTable(error, imm, level0) => bgpc' \in {"idle", "scheduled", "merging"}
    /\ EndBackgroundCall(error, imm, level0) => bgpc' \in {"idle", "scheduled"}
BY DEF Scheduled, ReturnFromCompactMemTable, EndBackgroundCall

\* The background call begins, builds a table, merges or gives up.
LEMMA BackgroundMoves ==
  ASSUME Inv, DataInv,
         \/ BackgroundCall \/ BuildTable \/ InstallMemTableFailed \/ MergeFindsImm \/ MergeDone
         \/ MergeFailed
  PROVE  DataInv'
<1>1. open
  BY DEF Inv, ClosedInv, BackgroundCall, BuildTable, InstallMemTableFailed, MergeFindsImm,
     MergeDone, MergeFailed
<1>2. OnlyBackground /\ UNCHANGED <<imm_, logNumber, tables, logs, manifest>>
  BY DEF BackgroundCall, BuildTable, InstallMemTableFailed, MergeFindsImm, MergeDone, MergeFailed
<1>3. \/ bgpc' \in {"idle", "scheduled", "building", "merging", "mergeFailed"}
      \/ /\ bgpc' = "logging" /\ imm_ # NoImm
         /\ edit'.tables = imm_ /\ edit'.log = logfile_number_ /\ edit'.sequence = lastSequence
      \/ /\ bgpc' \in {"merged", "moving"}
         /\ edit'.tables = {} /\ edit'.log = logNumber /\ edit'.sequence = lastSequence
  <2>1. CASE BackgroundCall
    <3>1. CASE EndBackgroundCall(bg_error_, imm_, numLevel0)
      BY <3>1, EndsWithoutEdit
    <3>2. CASE bgpc' = "moving" /\ edit' = Edit(logNumber, {}, 0, 1)
      BY <3>2 DEF Edit
    <3> QED  BY <2>1, <3>1, <3>2 DEF BackgroundCall
  <2>2. CASE BuildTable
    <3>1. CASE ReturnFromCompactMemTable(TRUE, imm_, numLevel0)
      BY <3>1, EndsWithoutEdit
    <3>2. ASSUME NEW added, edit' = Edit(logfile_number_, imm_, added, 0), bgpc' = "logging"
          PROVE  /\ bgpc' = "logging" /\ imm_ # NoImm
                 /\ edit'.tables = imm_ /\ edit'.log = logfile_number_ /\ edit'.sequence = lastSequence
      <4>1. imm_ # NoImm
        BY <2>2 DEF BuildTable, Inv, BackgroundInv
      <4> QED  BY <3>2, <4>1 DEF Edit
    <3> QED  BY <2>2, <3>1, <3>2 DEF BuildTable
  <2>3. CASE InstallMemTableFailed \/ MergeFailed \/ MergeFindsImm
    BY <2>3, EndsWithoutEdit DEF InstallMemTableFailed, MergeFailed, MergeFindsImm
  <2>4. CASE MergeDone
    <3>1. CASE bgpc' = "merged" /\ edit' = Edit(logNumber, {}, 0, inputs)
      BY <3>1 DEF Edit
    <3> QED  BY <2>4, <3>1 DEF MergeDone
  <2> QED  BY <2>1, <2>2, <2>3, <2>4
<1> QED  BY <1>1, <1>2, <1>3, EditStep

\* The next descriptor has the log, the tables and the sequence of content.
SaysLike(content) ==
  /\ manifest'.log = content.log /\ manifest'.tables = content.tables
  /\ manifest'.sequence = content.sequence

\* The descriptor gets the edit, or may have got it.
LEMMA ManifestKeepsData ==
  ASSUME Inv, DataInv, WriteManifest
  PROVE  DataInv'
<1> USE TypeParts DEF DataInv, StoreInv
<1>1. bgpc \in {"logging", "merged", "moving"} /\ OnlyBackground
      /\ UNCHANGED <<edit, imm_, logNumber, tables, logs>>
  BY DEF WriteManifest
<1>2. open
  BY <1>1 DEF Inv, ClosedInv
<1>3. UNCHANGED <<pc, op, done, status, group, mem_, logfile_number_, lastSequence, open, calls,
                  request, sequence, acked>>
  BY <1>1 DEF OnlyBackground, threadVars, historyVars
<1>4. \/ manifest' = Applied /\ (bgpc = "logging" => bgpc' = "install")
         /\ (bgpc # "logging" => bgpc' \in {"installMerge", "installMove"})
      \/ /\ manifest' \in HalfApplied
         /\ bgpc' \in {"installFailed", "mergeFailed"}
         /\ bgpc = "logging" <=> bgpc' = "installFailed"
  BY <1>1 DEF WriteManifest
<1>5. Promised' = Promised /\ \A i : Old(i)' <=> Old(i)
  BY <1>3, CallsUnchanged DEF Old
<1>6. \A i, l : KeptIn(i, l)' <=> KeptIn(i, l)
  BY <1>1, <1>3, SameLogs DEF KeptIn
<1>7. ImmInv' /\ SafeInv'
  BY <1>1, <1>3, <1>5, <1>6 DEF ImmInv, SafeInv, EntriesOf, Whole
<1>8. /\ Applied.log = edit.log /\ Applied.tables = manifest.tables \cup edit.tables
      /\ Applied.sequence = edit.sequence
  BY DEF Applied
<1>8a. \/ /\ SaysLike(Applied)
          /\ bgpc = "logging" => bgpc' \in {"install", "installFailed"}
          /\ bgpc # "logging" => bgpc' \in {"installMerge", "installMove", "mergeFailed"}
       \/ SaysLike(manifest) /\ bgpc' \in {"installFailed", "mergeFailed"}
  <2>1. manifest \in DescriptorType
    BY DEF Inv, DataTypeOK
  <2> QED  BY <1>4, <2>1, HalfAppliedFacts DEF SaysLike
<1>9. /\ bgpc = "logging" => edit.tables = imm_ /\ edit.log = logfile_number_ /\ imm_ # NoImm
      /\ bgpc # "logging" => edit.tables = {} /\ edit.log = logNumber
      /\ manifest.sequence <= edit.sequence /\ edit.sequence <= lastSequence
      /\ \A i \in IdsOf(edit.tables) : sequence[i] + BatchCount - 1 <= edit.sequence
      /\ \/ manifest.log = logNumber
         \/ imm_ # NoImm /\ imm_ \subseteq manifest.tables /\ manifest.log = logfile_number_
  BY <1>1, <1>2 DEF EditInv, Inv, BackgroundInv
<1>10. Whole(edit.tables)
  <2>1. bgpc = "logging" => Whole(edit.tables)
    BY <1>9 DEF ImmInv
  <2>2. bgpc # "logging" => Whole(edit.tables)
    BY <1>9 DEF Whole
  <2> QED  BY <2>1, <2>2
<1>11. IdsOf(edit.tables) \subseteq Live /\ \A i \in IdsOf(edit.tables) : sequence[i] >= 1
  <2>1. CASE bgpc = "logging"
    <3> SUFFICES ASSUME NEW e \in imm_
                 PROVE  e[1] \in Live /\ sequence[e[1]] >= 1
      BY <1>9, <2>1 DEF IdsOf
    <3>1. PICK l \in DOMAIN logs : KeptIn(e[1], l)
      BY <1>9, <2>1 DEF ImmInv
    <3>2. Old(e[1])
      BY <1>9, <2>1 DEF ImmInv
    <3> QED  BY <3>1, <3>2 DEF KeptIn, Live, Old
  <2>2. CASE bgpc # "logging"
    BY <1>9, <2>2 DEF IdsOf
  <2> QED  BY <2>1, <2>2
<1>12. manifest'.tables = manifest.tables \/ manifest'.tables = manifest.tables \cup edit.tables
  BY <1>8, <1>8a DEF SaysLike
<1>13. IdsOf(manifest.tables)' \subseteq IdsOf(manifest.tables) \cup IdsOf(edit.tables)
  BY <1>12 DEF IdsOf
<1>14. TablesInv'
  <2>1. Whole(manifest.tables) /\ Whole(tables) /\ tables \subseteq manifest.tables
    BY DEF TablesInv
  <2>2. Whole(manifest.tables)'
    BY <1>10, <1>12, <2>1 DEF Whole, EntriesOf
  <2> QED  BY <1>1, <1>12, <2>1, <2>2 DEF TablesInv, Whole, EntriesOf
<1>15. /\ manifest'.sequence <= lastSequence
       /\ \A i \in IdsOf(manifest.tables)' :
            sequence[i] >= 1 /\ sequence[i] + BatchCount - 1 <= manifest'.sequence
  <2>1. edit.sequence \in Nat /\ manifest.sequence \in Nat
    BY DEF Inv, BackgroundTypeOK, DataTypeOK, DescriptorType
  <2>2. \A i \in IdsOf(manifest.tables) : i \in Calls /\ sequence[i] \in Nat
    BY EntryIds DEF Inv, DataTypeOK, DescriptorType, HistoryTypeOK
  <2>3. \A i \in IdsOf(manifest.tables) \cup IdsOf(edit.tables) :
          sequence[i] >= 1 /\ sequence[i] + BatchCount - 1 <= edit.sequence
    <3>1. \A i \in IdsOf(manifest.tables) :
            sequence[i] >= 1 /\ sequence[i] + BatchCount - 1 <= manifest.sequence
      BY ManifestFacts
    <3>2. \A i \in IdsOf(manifest.tables) : sequence[i] + BatchCount - 1 <= edit.sequence
      BY <1>9, <2>1, <2>2, <3>1, ConstantFacts
    <3> QED  BY <1>9, <1>11, <3>1, <3>2
  <2>4. CASE SaysLike(manifest)
    BY <2>4, ManifestFacts DEF IdsOf, SaysLike
  <2>5. CASE SaysLike(Applied)
    BY <1>8, <1>9, <1>13, <2>3, <2>5 DEF SaysLike
  <2> QED  BY <1>8a, <2>4, <2>5
<1>16. EditInv'
  <2>1. CASE SaysLike(manifest) /\ bgpc' \in {"installFailed", "mergeFailed"}
    BY <1>1, <1>3, <1>4, <1>9, <2>1 DEF EditInv, SaysLike
  <2>2. CASE SaysLike(Applied) /\ bgpc = "logging"
    <3>1. manifest'.log = edit.log /\ imm_ \subseteq manifest'.tables
      BY <1>8, <1>9, <2>2 DEF SaysLike
    <3> QED  BY <1>1, <1>3, <1>4, <1>9, <2>2, <3>1 DEF EditInv
  <2>3. CASE SaysLike(Applied) /\ bgpc # "logging"
    BY <1>1, <1>3, <1>4, <1>8, <1>9, <2>3 DEF EditInv, SaysLike
  <2> QED  BY <1>8a, <2>1, <2>2, <2>3
<1>17. IdsOf(manifest.tables)' \subseteq Live
  BY <1>11, <1>13, ManifestFacts
<1> QED  BY <1>1, <1>2, <1>7, <1>14, <1>15, <1>16, <1>17, BackgroundStep, ManifestFacts


\* imm_ is in the version now, and its logs are not needed any more.
LEMMA InstallKeepsData ==
  ASSUME Inv, DataInv, InstallMemTable
  PROVE  DataInv'
<1> USE TypeParts DEF DataInv, StoreInv
<1>1. /\ bgpc = "install" /\ OnlyBackground /\ manifest' = manifest
      /\ tables' = tables \cup edit.tables /\ logNumber' = edit.log /\ imm_' = NoImm
      /\ logs' = logs \/ logs' = KeptLogs(edit.log)
      /\ bgpc' \in {"idle", "scheduled", "merging"}
  BY EndsWithoutEdit DEF InstallMemTable
<1>2. open
  BY <1>1 DEF Inv, ClosedInv
<1>3. UNCHANGED <<pc, op, done, status, group, mem_, logfile_number_, lastSequence, open, calls,
                  request, sequence, acked>>
  BY <1>1 DEF OnlyBackground, threadVars, historyVars
<1>4. Promised' = Promised /\ \A i : Old(i)' <=> Old(i)
  BY <1>3, CallsUnchanged DEF Old
<1>5. /\ edit.tables = imm_ /\ edit.log = logfile_number_ /\ manifest.log = edit.log
      /\ imm_ \subseteq manifest.tables /\ imm_ # NoImm
  BY <1>1, <1>2 DEF EditInv, Inv, BackgroundInv
<1>6. logfile_number_ \in DOMAIN logs'
      /\ \A l \in DOMAIN logs' : l \in DOMAIN logs /\ logs'[l] = logs[l]
  <2>1. logfile_number_ \in DOMAIN logs /\ LogsTypeOK /\ logfile_number_ \in Nat
    BY DEF Inv, LogFileInv, DataTypeOK, LogsTypeOK
  <2>2. logfile_number_ >= logfile_number_
    BY <2>1
  <2> QED  BY <1>1, <1>5, <2>1, <2>2, KeptTypes
<1>7. TablesInv'
  <2>1. Whole(imm_) /\ Whole(tables) /\ Whole(manifest.tables) /\ tables \subseteq manifest.tables
    BY <1>5 DEF ImmInv, TablesInv
  <2>2. Whole(tables)'
    BY <1>1, <1>5, <2>1 DEF Whole, EntriesOf
  <2> QED  BY <1>1, <1>5, <2>1, <2>2 DEF TablesInv, Whole, EntriesOf
<1>8. ImmInv'
  BY <1>1 DEF ImmInv, NoImm
<1>9. EditInv'
  BY <1>1, <1>5 DEF EditInv
<1>10. SafeInv'
  <2> SUFFICES ASSUME NEW i \in Promised
               PROVE  Old(i) /\ (EntriesOf({i}) \subseteq mem_ \/ EntriesOf({i}) \subseteq tables')
    BY <1>3, <1>4 DEF SafeInv, EntriesOf
  <2> QED  BY <1>1, <1>2, <1>5 DEF SafeInv
<1>11. IdsOf(manifest.tables)' = IdsOf(manifest.tables)
  BY <1>1 DEF IdsOf
<1> QED  BY <1>1, <1>2, <1>6, <1>7, <1>8, <1>9, <1>10, <1>11, BackgroundStep, ManifestFacts

\* A merge leaves the memtables alone, and deletes logs that only tables need.
LEMMA InstallMergeKeepsData ==
  ASSUME Inv, DataInv, InstallMerge
  PROVE  DataInv'
<1> USE TypeParts DEF DataInv, StoreInv
<1>1. /\ bgpc \in {"installMerge", "installMove"} /\ OnlyBackground
      /\ UNCHANGED <<manifest, imm_, logNumber, tables>>
      /\ logs' = logs \/ logs' = KeptLogs(logNumber)
      /\ bgpc' \in {"idle", "scheduled"}
  BY EndsWithoutEdit DEF InstallMerge
<1>2. open
  BY <1>1 DEF Inv, ClosedInv
<1>3. UNCHANGED <<pc, op, done, status, group, mem_, logfile_number_, lastSequence, open, calls,
                  request, sequence, acked>>
  BY <1>1 DEF OnlyBackground, threadVars, historyVars
<1>4. Promised' = Promised /\ \A i : Old(i)' <=> Old(i)
  BY <1>3, CallsUnchanged DEF Old
<1>5. /\ logfile_number_ \in DOMAIN logs /\ LogsTypeOK /\ logfile_number_ \in Nat
      /\ logNumber \in Nat /\ logNumber <= logfile_number_
  BY DEF Inv, LogFileInv, DataTypeOK, LogsTypeOK, NumberInv
<1>6. /\ logfile_number_ \in DOMAIN logs'
      /\ \A l \in DOMAIN logs' : l \in DOMAIN logs /\ logs'[l] = logs[l]
      /\ \A l \in DOMAIN logs : l >= logNumber => l \in DOMAIN logs'
  BY <1>1, <1>5, KeptTypes
<1>7. TablesInv' /\ SafeInv'
  BY <1>1, <1>3, <1>4 DEF TablesInv, SafeInv, Whole, EntriesOf
<1>8. ImmInv'
  <2> SUFFICES ASSUME imm_ # NoImm, NEW e \in imm_
               PROVE  \E l \in DOMAIN logs' : l >= logNumber /\ KeptIn(e[1], l)'
    BY <1>1, <1>4 DEF ImmInv, Whole, EntriesOf
  <2>1. PICK l \in DOMAIN logs : l >= logNumber /\ KeptIn(e[1], l)
    BY DEF ImmInv
  <2>2. l \in DOMAIN logs' /\ LogIds(l)' = LogIds(l) /\ SyncedIds(l)' = SyncedIds(l)
    BY <1>6, <2>1, SameLog
  <2> QED  BY <1>3, <2>1, <2>2 DEF KeptIn
<1>9. EditInv'
  BY <1>1, <1>3 DEF EditInv
<1>10. IdsOf(manifest.tables)' = IdsOf(manifest.tables)
  BY <1>1 DEF IdsOf
<1> QED  BY <1>1, <1>2, <1>6, <1>7, <1>8, <1>9, <1>10, BackgroundStep, ManifestFacts

\* The background thread keeps the invariants.
LEMMA BackgroundKeepsPromises ==
  ASSUME Inv, DataInv, background
  PROVE  DataInv'
BY BackgroundMoves, ManifestKeepsData, InstallKeepsData, InstallMergeKeepsData DEF background

-----------------------------------------------------------------------------
(* Crash and DB::Open.                                                     *)

\* Without partial records, log::Reader returns all batches of the records that
\* are left.
LEMMA ReplayedIs ==
  ASSUME TypeOK, RecordsInv, NEW length,
         \A l \in DOMAIN logs : length[l] \in 0..Len(logs[l].records)
  PROVE  /\ \A l \in DOMAIN logs :
              Readable(logs[l].records, length[l]) = UNION {logs[l].records[k].ids : k \in 1..length[l]}
         /\ Replayed(length) \subseteq Calls
         /\ \A i \in Replayed(length) : \E l \in DOMAIN logs : i \in LogIds(l)
<1> USE TypeParts
<1>0. \A l \in DOMAIN logs : Len(logs[l].records) \in Nat
  <2>1. \A l \in DOMAIN logs : logs[l].records \in Seq(Record)
    BY DEF DataTypeOK
  <2> QED  BY <2>1
<1>1. ASSUME NEW l \in DOMAIN logs
      PROVE  Readable(logs[l].records, length[l]) = UNION {logs[l].records[k].ids : k \in 1..length[l]}
  <2> DEFINE n == length[l]
             r == logs[l].records
  <2>1. \A k \in 1..n : r[k].whole
    <3>1. \A k \in 1..n : k \in 1..Len(r)
      BY <1>0
    <3> QED  BY <3>1 DEF RecordsInv
  <2>2. \A k \in 1..n : \A j \in 1..k : j \in 1..n
    BY <1>0
  <2> HIDE DEF n, r
  <2>3. {k \in 1..n : \A j \in 1..k : r[j].whole} = 1..n
    BY <2>1, <2>2
  <2>4. Readable(r, n) = UNION {r[k].ids : k \in {k \in 1..n : \A j \in 1..k : r[j].whole}}
    BY DEF Readable
  <2>5. Readable(r, n) = UNION {r[k].ids : k \in 1..n}
    BY <2>3, <2>4
  <2> QED  BY <2>5 DEF r, n
<1>2. \A l \in DOMAIN logs : Readable(logs[l].records, length[l]) \subseteq LogIds(l)
  <2> SUFFICES ASSUME NEW l \in DOMAIN logs
               PROVE  Readable(logs[l].records, length[l]) \subseteq LogIds(l)
    OBVIOUS
  <2>1. \A k \in 1..length[l] : k \in 1..Len(logs[l].records)
    BY <1>0
  <2> QED  BY <1>1, <2>1 DEF LogIds
<1>3. Replayed(length) \subseteq Calls
  BY ReplayedAreCalls DEF DataTypeOK, LogsTypeOK
<1>4. \A i \in Replayed(length) : \E l \in DOMAIN logs : i \in Readable(logs[l].records, length[l])
  BY DEF Replayed
<1> QED  BY <1>1, <1>2, <1>3, <1>4

\* A log of which this much is left has what is synced in it, if it has a name.
Keeps(length) ==
  \A l \in DOMAIN logs :
    /\ length[l] \in 0..Len(logs[l].records)
    /\ l \notin Unnamed => logs[l].synced <= length[l]

KeepsAll(length) == \A l \in DOMAIN logs : length[l] = Len(logs[l].records)

\* What such a crash cannot take: everything, or what is synced and not exposed.
Kept(i, length) == KeepsAll(length) \/ (request[i].sync /\ i \notin Exposed)

\* A batch synced in a log that has no name is exposed.
LEMMA SyncedIsNamed ==
  ASSUME TypeOK, RecordsInv, NEW l \in DOMAIN logs, NEW i, i \in SyncedIds(l), i \notin Exposed
  PROVE  l \notin Unnamed
<1> DEFINE synced == [m \in DOMAIN logs |-> logs[m].synced]
<1>1. \A m \in DOMAIN logs : synced[m] \in 0..Len(logs[m].records)
  <2>1. \A m \in DOMAIN logs : logs[m].synced \in Nat /\ logs[m].records \in Seq(Record)
    BY TypeParts DEF DataTypeOK
  <2> QED  BY <2>1 DEF RecordsInv
<1>2. Readable(logs[l].records, synced[l]) = UNION {logs[l].records[k].ids : k \in 1..synced[l]}
  <2> HIDE DEF synced
  <2> QED  BY <1>1, ReplayedIs
<1>3. i \in Readable(logs[l].records, logs[l].synced)
  BY <1>2 DEF SyncedIds
<1> QED  BY <1>3 DEF Exposed

\* What a log of those that Open reads keeps is found again.
LEMMA KeptIsReplayed ==
  ASSUME TypeOK, RecordsInv, NEW length, Keeps(length),
         NEW l \in DOMAIN logs, l >= manifest.log, NEW i, KeptIn(i, l), Kept(i, length)
  PROVE  EntriesOf({i}) \subseteq Recoverable(length)
<1>1. \A m \in DOMAIN logs :
        /\ logs[m].synced \in Nat /\ Len(logs[m].records) \in Nat
        /\ length[m] \in 0..Len(logs[m].records)
  <2>1. \A m \in DOMAIN logs : logs[m].synced \in Nat /\ logs[m].records \in Seq(Record)
    BY TypeParts DEF DataTypeOK
  <2> QED  BY <2>1 DEF Keeps
<1>2. Readable(logs[l].records, length[l]) = UNION {logs[l].records[k].ids : k \in 1..length[l]}
  BY <1>1, ReplayedIs
<1>3. i \in Readable(logs[l].records, length[l])
  <2>1. CASE request[i].sync /\ i \notin Exposed
    <3>1. i \in SyncedIds(l)
      BY <2>1 DEF KeptIn
    <3>2. l \notin Unnamed
      BY <2>1, <3>1, SyncedIsNamed
    <3>3. logs[l].synced <= length[l]
      BY <3>2 DEF Keeps
    <3>4. \A k \in 1..logs[l].synced : k \in 1..length[l]
      BY <1>1, <3>3
    <3> QED  BY <1>2, <3>1, <3>4 DEF SyncedIds
  <2>2. CASE KeepsAll(length)
    BY <1>2, <2>2 DEF KeptIn, LogIds, KeepsAll
  <2> QED  BY <2>1, <2>2 DEF Kept
<1>4. i \in Replayed(length)
  BY <1>3 DEF Replayed
<1> QED  BY <1>4 DEF Recoverable, EntriesOf

\* A promised batch is found again, after a crash of the process, or of the
\* machine when it was synced in a log that has a name.
LEMMA PromisedIsRecoverable ==
  ASSUME Inv, DataInv, open, NEW length, Keeps(length), NEW i \in Promised, Kept(i, length)
  PROVE  EntriesOf({i}) \subseteq Recoverable(length)
<1> USE TypeParts DEF DataInv, StoreInv
<1>1. i \in Calls /\ <<i, 1>> \in EntriesOf({i})
  BY PromisedIsOld, ConstantFacts DEF EntriesOf
<1>2. TypeOK /\ RecordsInv
  BY DEF Inv
<1>3. CASE EntriesOf({i}) \subseteq tables
  BY <1>3 DEF TablesInv, Recoverable
<1>4. CASE EntriesOf({i}) \subseteq mem_
  <2>1. KeptIn(<<i, 1>>[1], logfile_number_)
    BY <1>1, <1>4 DEF MemInv
  <2>2. KeptIn(i, logfile_number_)
    BY <2>1
  <2>3. logfile_number_ \in DOMAIN logs /\ logfile_number_ >= manifest.log
    BY DEF Inv, LogFileInv, NumberInv, DataTypeOK, DescriptorType
  <2> QED  BY <1>2, <2>2, <2>3, KeptIsReplayed
<1>5. CASE EntriesOf({i}) \subseteq imm_
  <2>1. imm_ # NoImm
    BY <1>1, <1>5, NotInNoImm
  <2>2. CASE manifest.log = logNumber
    <3>1. PICK l \in DOMAIN logs : l >= logNumber /\ KeptIn(<<i, 1>>[1], l)
      BY <1>1, <1>5, <2>1 DEF ImmInv
    <3>2. KeptIn(i, l)
      BY <3>1
    <3> QED  BY <1>2, <2>2, <3>1, <3>2, KeptIsReplayed
  <2>3. CASE imm_ \subseteq manifest.tables
    BY <1>5, <2>3 DEF Recoverable
  <2> QED  BY <2>2, <2>3 DEF EditInv
<1> QED  BY <1>3, <1>4, <1>5 DEF SafeInv

\* The entries of a set of batches are those of its batches.
LEMMA EntriesOfEach ==
  ASSUME NEW ids, NEW S, \A i \in ids : EntriesOf({i}) \subseteq S
  PROVE  EntriesOf(ids) \subseteq S
<1> SUFFICES ASSUME NEW e \in EntriesOf(ids)
             PROVE  e \in S
  OBVIOUS
<1>1. PICK i \in ids, j \in 1..BatchCount : e = <<i, j>>
  BY DEF EntriesOf
<1>2. e \in EntriesOf({i})
  BY <1>1 DEF EntriesOf
<1> QED  BY <1>1, <1>2

\* A crash keeps what the logs have on disk, and what was acknowledged then.
LEMMA CrashKeepsPromises ==
  ASSUME Inv, DataInv, NEW kind \in CrashKinds, Crash(kind)
  PROVE  DataInv'
<1> USE TypeParts DEF DataInv, StoreInv
<1>1. PICK length \in [DOMAIN logs -> 0..MaxCalls] :
        /\ \A l \in DOMAIN logs : length[l] \in Remains(l, kind)
        /\ logs' = [l \in DOMAIN logs |->
             [records |-> SubSeq(logs[l].records, 1, length[l]), synced |-> length[l]]]
        /\ acked' = IF kind = "process" THEN acked
                    ELSE {i \in acked : EntriesOf({i}) \subseteq Recoverable(length)}
  BY DEF Crash
<1>2. /\ open /\ ~open' /\ pc' = [t \in Threads |-> "idle"] /\ mem_' = {} /\ imm_' = NoImm
      /\ UNCHANGED <<logfile_number_, lastSequence, logNumber, tables, manifest, calls, request, sequence>>
  BY DEF Crash, versionVars
<1>3. Loggers' = {} /\ InFlight' = {} /\ \A t \in Threads : ~InQueue(t)' /\ pc'[t] = "idle"
  BY <1>2 DEF Loggers, InFlight, Logging, InQueue, Working
<1>4. DOMAIN logs' = DOMAIN logs
  BY <1>1
<1>5. ASSUME NEW l \in DOMAIN logs
      PROVE  /\ Len(logs'[l].records) = length[l] /\ logs'[l].synced = length[l]
             /\ length[l] \in 0..Len(logs[l].records) /\ Len(logs[l].records) \in Nat
             /\ \A k \in 1..length[l] : logs'[l].records[k] = logs[l].records[k]
  <2>1. logs[l].records \in Seq(Record) /\ logs[l] \in [records : Seq(Record), synced : Nat]
    BY DEF Inv, DataTypeOK
  <2>2. length[l] \in 0..Len(logs[l].records) /\ Len(logs[l].records) \in Nat
    BY <1>1, <2>1, RemainsIsFront
  <2>3. logs'[l].records = SubSeq(logs[l].records, 1, length[l]) /\ logs'[l].synced = length[l]
    BY <1>1
  <2> QED  BY <2>1, <2>2, <2>3, Shortened
<1>6. RecordsInv'
  <2> SUFFICES ASSUME NEW l \in DOMAIN logs
               PROVE  /\ logs'[l].synced <= Len(logs'[l].records)
                      /\ logs'[l].synced = Len(logs'[l].records)
                      /\ \A k \in 1..Len(logs'[l].records) : logs'[l].records[k].whole
    BY <1>4 DEF RecordsInv
  <2>1. \A k \in 1..length[l] : k \in 1..Len(logs[l].records)
    BY <1>5
  <2> QED  BY <1>5, <2>1 DEF RecordsInv
<1>7. \A l \in DOMAIN logs : LogIds(l)' \subseteq LogIds(l)
  <2> SUFFICES ASSUME NEW l \in DOMAIN logs
               PROVE  LogIds(l)' \subseteq LogIds(l)
    OBVIOUS
  <2>1. \A k \in 1..length[l] : k \in 1..Len(logs[l].records)
    BY <1>5
  <2>2. LogIds(l)' = UNION {logs'[l].records[k].ids : k \in 1..length[l]}
    BY <1>5 DEF LogIds
  <2> QED  BY <1>5, <2>1, <2>2 DEF LogIds
<1>8. IdsOf(manifest.tables)' = IdsOf(manifest.tables)
  BY <1>2 DEF IdsOf
<1>9. NumbersInv'
  <2>1. \A l \in DOMAIN logs : \A i \in LogIds(l)' : sequence[i] >= 1
    BY <1>7 DEF NumbersInv
  <2> QED  BY <1>2, <1>4, <1>8, <2>1 DEF NumbersInv
<1>10. ApartInv'
  <2>1. (UNION {LogIds(l) : l \in DOMAIN logs})' \subseteq UNION {LogIds(l) : l \in DOMAIN logs}
    BY <1>4, <1>7
  <2>2. Live' \subseteq Live
    BY <1>3, <1>8, <2>1 DEF Live
  <2>3. \A i, k : Apart(i, k)' <=> Apart(i, k)
    BY <1>2 DEF Apart
  <2> QED  BY <2>2, <2>3 DEF ApartInv
<1>11. LoggerInv' /\ MemInv' /\ ImmInv' /\ EditInv' /\ SafeInv'
  BY <1>2, <1>3 DEF LoggerInv, MemInv, ImmInv, EditInv, SafeInv, NoImm
<1>12. TablesInv'
  BY <1>2 DEF TablesInv, Whole, EntriesOf
<1>13. acked' \subseteq acked /\ Promised' = acked' /\ acked \subseteq Promised
  BY <1>1, <1>3 DEF Promised
<1>14. OnceInv' /\ PromisedInv' /\ SeenInv'
  BY <1>2, <1>3, <1>13 DEF OnceInv, PromisedInv, SeenInv
<1>15. ClosedDataInv'
  <2>1. \A i \in acked' : EntriesOf({i}) \subseteq Recoverable(length)
    <3>1. CASE kind = "process"
      <4>1. KeepsAll(length)
        BY <1>1, <3>1 DEF KeepsAll, Remains
      <4>2. Keeps(length)
        <5>1. \A l \in DOMAIN logs : logs[l].synced <= Len(logs[l].records)
          BY DEF RecordsInv
        <5> QED  BY <1>5, <4>1, <5>1 DEF Keeps, KeepsAll
      <4> QED  BY <1>1, <1>2, <1>13, <3>1, <4>1, <4>2, PromisedIsRecoverable DEF Kept
    <3>2. CASE kind # "process"
      BY <1>1, <3>2
    <3> QED  BY <3>1, <3>2
  <2>2. EntriesOf(acked') \subseteq Recoverable(length)
    BY <2>1, EntriesOfEach
  <2>3. \A l \in DOMAIN logs :
          Readable(logs'[l].records, Len(logs'[l].records)) = Readable(logs[l].records, length[l])
    <3> SUFFICES ASSUME NEW l \in DOMAIN logs
                 PROVE  Readable(logs'[l].records, length[l]) = Readable(logs[l].records, length[l])
      BY <1>5
    <3>1. \A k \in 1..length[l] : \A j \in 1..k : j \in 1..length[l]
      BY <1>5
    <3>2. PICK a, b, n : a = logs'[l].records /\ b = logs[l].records /\ n = length[l]
      OBVIOUS
    <3>3. \A k \in 1..n : a[k] = b[k]
      BY <1>5, <3>2
    <3>4. {k \in 1..n : \A j \in 1..k : a[j].whole} = {k \in 1..n : \A j \in 1..k : b[j].whole}
      BY <3>1, <3>2, <3>3
    <3>5. Readable(a, n) = Readable(b, n)
      BY <3>3, <3>4 DEF Readable
    <3> QED  BY <3>2, <3>5
  <2>4. Replayed(WholeLogs)' = Replayed(length)
    <3>1. {l \in DOMAIN logs' : l >= manifest'.log} = {l \in DOMAIN logs : l >= manifest.log}
      BY <1>2, <1>4
    <3>2. \A l \in DOMAIN logs' : WholeLogs'[l] = Len(logs'[l].records)
      BY DEF WholeLogs
    <3>3. \A l \in DOMAIN logs : Readable(logs'[l].records, WholeLogs'[l]) = Readable(logs[l].records, length[l])
      BY <1>4, <2>3, <3>2
    <3>4. Replayed(WholeLogs)' = UNION {Readable(logs'[l].records, WholeLogs'[l]) :
                                          l \in {l \in DOMAIN logs' : l >= manifest'.log}}
      BY DEF Replayed
    <3>5. Replayed(length) = UNION {Readable(logs[l].records, length[l]) :
                                      l \in {l \in DOMAIN logs : l >= manifest.log}}
      BY DEF Replayed
    <3> QED  BY <3>1, <3>3, <3>4, <3>5
  <2>5. Recoverable(WholeLogs)' = Recoverable(length)
    BY <1>2, <2>4 DEF Recoverable, EntriesOf
  <2>6. EntriesOf(acked)' = EntriesOf(acked')
    BY DEF EntriesOf
  <2> QED  BY <2>2, <2>5, <2>6 DEF ClosedDataInv, NoLossOnProcessCrash
<1> QED  BY <1>6, <1>9, <1>10, <1>11, <1>12, <1>14, <1>15


\* DB::Open has what the logs and the descriptor have in its tables.
LEMMA OpenKeepsPromises ==
  ASSUME Inv, DataInv, Open
  PROVE  DataInv'
<1> USE TypeParts DEF DataInv, StoreInv
<1>0. PICK new, ids : new = logfile_number_ + 1 /\ ids = Replayed(WholeLogs)
  OBVIOUS
<1>1. /\ ~open /\ open'
      /\ tables' = manifest.tables \cup EntriesOf(ids)
      /\ lastSequence' = RecoveredSequence(ids)
      /\ logfile_number_' = new /\ logNumber' = new
      /\ manifest'.log = new /\ manifest'.tables = tables' /\ manifest'.sequence = lastSequence'
      /\ logs' = [n \in {new} |-> [records |-> <<>>, synced |-> 0]]
      /\ bgpc' \in {"idle", "scheduled"}
      /\ UNCHANGED <<pc, op, done, status, group, edit, mem_, imm_, calls, request, sequence, acked>>
  BY <1>0, EndsWithoutEdit DEF Open, threadVars, memVars, boundVars, historyVars
<1>2. /\ \A t \in Threads : pc[t] = "idle"
      /\ mem_ = {} /\ imm_ = NoImm
  BY <1>1 DEF Inv, ClosedInv
<1>3. Loggers = {} /\ InFlight = {}
  BY <1>2, NoLogger DEF Logging
<1>4. /\ OnceInv' /\ PromisedInv' /\ SeenInv'
      /\ Promised' = Promised /\ Loggers' = {} /\ InFlight' = {}
  BY <1>1, <1>3, CallsUnchanged
<1>5. Promised = acked
  BY <1>2 DEF Promised
<1>6. DOMAIN logs' = {new} /\ LogIds(new)' = {} /\ logs'[new].records = <<>> /\ logs'[new].synced = 0
  <2>1. DOMAIN logs' = {new} /\ logs'[new].records = <<>> /\ logs'[new].synced = 0
    BY <1>1
  <2>2. 1..0 = {} /\ Len(<<>>) = 0
    OBVIOUS
  <2> QED  BY <2>1, <2>2 DEF LogIds
<1>7. RecordsInv' /\ LoggerInv' /\ MemInv' /\ ImmInv' /\ ClosedDataInv'
  <2>1. RecordsInv'
    BY <1>1, <1>6 DEF RecordsInv
  <2> QED  BY <1>1, <1>2, <1>4, <2>1 DEF LoggerInv, MemInv, ImmInv, ClosedDataInv, NoImm
<1>8. ids \subseteq Calls /\ \A i \in ids : \E l \in DOMAIN logs : i \in LogIds(l)
  <2>1. \A l \in DOMAIN logs : WholeLogs[l] \in 0..Len(logs[l].records)
    BY WholeLogsLength DEF Inv, DataTypeOK, LogsTypeOK
  <2> QED  BY <1>0, <2>1, ReplayedIs DEF Inv
<1>9. /\ lastSequence' \in Nat /\ manifest.sequence <= lastSequence' /\ manifest.sequence \in Nat
      /\ \A i \in ids : sequence[i] + BatchCount - 1 <= lastSequence'
  BY <1>1, <1>8, RecoveredFacts DEF Inv, DataTypeOK, DescriptorType
<1>10. IdsOf(manifest.tables)' \subseteq IdsOf(manifest.tables) \cup ids
  <2>1. \A e \in EntriesOf(ids) : e[1] \in ids
    BY DEF EntriesOf
  <2> QED  BY <1>1, <2>1 DEF IdsOf
<1>11. \A i \in IdsOf(manifest.tables)' : sequence[i] >= 1 /\ sequence[i] + BatchCount - 1 <= lastSequence'
  <2>1. ASSUME NEW i \in IdsOf(manifest.tables)
        PROVE  sequence[i] >= 1 /\ sequence[i] + BatchCount - 1 <= lastSequence'
    <3>1. i \in Calls
      BY EntryIds DEF Inv, DataTypeOK, DescriptorType
    <3>2. sequence[i] >= 1 /\ sequence[i] + BatchCount - 1 <= manifest.sequence /\ sequence[i] \in Nat
      BY <3>1 DEF NumbersInv, Inv, HistoryTypeOK
    <3> QED  BY <1>9, <3>2, ConstantFacts
  <2>2. \A i \in ids : sequence[i] >= 1
    BY <1>8 DEF NumbersInv
  <2> QED  BY <1>9, <1>10, <2>1, <2>2
<1>12. NumbersInv'
  <2>1. \A l \in DOMAIN logs' : LogIds(l)' = {}
    BY <1>6
  <2>2. \A i \in IdsOf(manifest.tables)' :
          sequence'[i] >= 1 /\ sequence'[i] + BatchCount - 1 <= manifest'.sequence
    BY <1>1, <1>11
  <2>3. manifest'.sequence <= lastSequence'
    BY <1>1, <1>9
  <2> QED  BY <2>1, <2>2, <2>3 DEF NumbersInv
<1>13. ApartInv'
  <2>1. ids \subseteq UNION {LogIds(l) : l \in DOMAIN logs}
    BY <1>8
  <2>2. (UNION {LogIds(l) : l \in DOMAIN logs})' = {}
    BY <1>6
  <2>3. Live' \subseteq Live
    BY <1>4, <1>10, <2>1, <2>2 DEF Live
  <2>4. \A i, k : Apart(i, k)' <=> Apart(i, k)
    BY <1>1 DEF Apart
  <2> QED  BY <2>3, <2>4 DEF ApartInv
<1>14. TablesInv'
  <2>1. Whole(manifest.tables)
    BY DEF TablesInv
  <2>2. \A e \in EntriesOf(ids) : EntriesOf({e[1]}) \subseteq EntriesOf(ids)
    BY DEF EntriesOf
  <2>3. Whole(tables')
    BY <1>1, <2>1, <2>2 DEF Whole
  <2> QED  BY <1>1, <2>3 DEF TablesInv, Whole, EntriesOf
<1>15. EditInv'
  BY <1>1 DEF EditInv
<1>16. SafeInv'
  <2> SUFFICES ASSUME NEW i \in acked
               PROVE  Old(i)' /\ EntriesOf({i}) \subseteq tables'
    BY <1>4, <1>5 DEF SafeInv, EntriesOf
  <2>1. EntriesOf(acked) \subseteq tables'
    BY <1>0, <1>1 DEF ClosedDataInv, NoLossOnProcessCrash, Recoverable
  <2>2. EntriesOf({i}) \subseteq tables'
    BY <2>1 DEF EntriesOf
  <2>3. <<i, 1>> \in tables'
    BY <2>2, ConstantFacts DEF EntriesOf
  <2>4. i \in IdsOf(manifest.tables)'
    BY <1>1, <2>3 DEF IdsOf
  <2> QED  BY <1>1, <1>11, <2>2, <2>4 DEF Old
<1> QED  BY <1>4, <1>7, <1>12, <1>13, <1>14, <1>15, <1>16

-----------------------------------------------------------------------------
(* The inductive invariant holds.                                          *)

\* A database that DB::Open has just created has nothing to promise.
LEMMA InitData ==
  Init => DataInv
<1> SUFFICES ASSUME Init
             PROVE  DataInv
  OBVIOUS
<1>1. /\ \A t \in Threads : pc[t] = "idle"
      /\ \A i \in Calls : sequence[i] = 0 /\ request[i].seen = {}
      /\ acked = {} /\ mem_ = {} /\ imm_ = NoImm /\ tables = {} /\ manifest.tables = {}
      /\ manifest.sequence = 0 /\ lastSequence = 0 /\ manifest.log = logNumber
      /\ open /\ bgpc = "idle"
      /\ logs = [n \in {1} |-> [records |-> <<>>, synced |-> 0]]
  BY DEF Init
<1>2. Loggers = {} /\ InFlight = {} /\ Promised = {} /\ \A t \in Threads : ~InQueue(t)
  BY <1>1 DEF Loggers, InFlight, Promised, Logging, InQueue, Working
<1>3. DOMAIN logs = {1} /\ logs[1] = [records |-> <<>>, synced |-> 0]
  BY <1>1
<1>4. LogIds(1) = {} /\ Len(logs[1].records) = 0 /\ logs[1].synced = 0
  BY <1>3, EmptyLog
<1>5. IdsOf(manifest.tables) = {}
  BY <1>1 DEF IdsOf
<1>6. Live = {}
  BY <1>2, <1>3, <1>4, <1>5 DEF Live
<1>7. RecordsInv
  BY <1>1, <1>3, <1>4 DEF RecordsInv
<1>8. LoggerInv /\ NumbersInv /\ ApartInv /\ MemInv /\ ImmInv /\ TablesInv /\ EditInv
  BY <1>1, <1>2, <1>3, <1>4, <1>5, <1>6 DEF LoggerInv, NumbersInv, ApartInv, MemInv, ImmInv,
     TablesInv, EditInv, Whole
<1>9. OnceInv /\ PromisedInv /\ SafeInv /\ SeenInv /\ ClosedDataInv
  BY <1>1, <1>2 DEF OnceInv, PromisedInv, SafeInv, SeenInv, ClosedDataInv
<1> QED  BY <1>7, <1>8, <1>9 DEF DataInv, StoreInv

\* A step that changes nothing.
LEMMA StutterKeepsData ==
  ASSUME Inv, DataInv, UNCHANGED vars
  PROVE  DataInv'
<1>1. /\ UNCHANGED <<threadVars, syncVars, bgVars, memVars, versionVars, boundVars, historyVars>>
      /\ UNCHANGED <<logfile_number_, bg_error_, logs, manifest, open>>
  BY DEF vars
<1>2. UNCHANGED <<pc, op, done, status, group, calls, request, sequence, acked>>
  BY <1>1 DEF threadVars, boundVars, historyVars
<1>3. UNCHANGED DataFrame
  BY <1>1 DEF DataFrame, memVars, versionVars, bgVars, historyVars
<1>4. StoreInv'
  BY <1>2, <1>3, CallsUnchanged, StoreUnchanged DEF DataInv
<1>5. OnceInv' /\ PromisedInv' /\ SeenInv' /\ Promised' = Promised
  BY <1>2, CallsUnchanged DEF DataInv
<1>6. SafeInv'
  BY <1>3, <1>5 DEF DataInv, SafeInv, DataFrame, Old, EntriesOf
<1>7. ClosedDataInv'
  <2>1. Replayed(WholeLogs)' = Replayed(WholeLogs)
    BY <1>3 DEF DataFrame, Replayed, WholeLogs
  <2> QED  BY <1>2, <1>3, <2>1 DEF DataInv, ClosedDataInv, NoLossOnProcessCrash, Recoverable,
       EntriesOf, DataFrame
<1> QED  BY <1>4, <1>5, <1>6, <1>7 DEF DataInv

\* A record that is torn hides the records after it: the invariant needs that
\* AddRecord leaves no part of a record.
LEMMA NextData ==
  ASSUME "torn" \notin Failures
  PROVE  Inv /\ DataInv /\ [Next]_vars => DataInv'
<1> SUFFICES ASSUME Inv, DataInv, [Next]_vars
             PROVE  DataInv'
  OBVIOUS
<1>1. ASSUME NEW t \in Threads, NEW sync \in BOOLEAN, NEW batch \in BOOLEAN, Write(t, sync, batch)
      PROVE  DataInv'
  BY <1>1, EnterKeepsData
<1>2. ASSUME NEW t \in Threads, goOn(t)
      PROVE  DataInv'
  <2>1. CASE RoomError(t)
    <3>1. LeaveWithout(t, "error") /\ pc[t] = "room"
      BY <2>1 DEF RoomError, Room
    <3> QED  BY <3>1, LeaveKeepsData
  <2>2. CASE Wake(t)
    BY <2>2, WakeKeepsData
  <2>3. CASE RoomDelay(t) \/ DelayOver(t) \/ RoomWait(t) \/ WaitOver(t) \/ ImmWait(t)
    BY <2>3, WaitKeepsData
  <2>4. CASE RoomSwitch(t)
    BY <2>4, SwitchKeepsData
  <2>5. CASE RoomFound(t)
    BY <2>5, RoomFoundKeepsData
  <2>6. CASE AddRecord(t)
    BY <2>6, AddRecordKeepsData
  <2>7. CASE Sync(t)
    BY <2>7, SyncKeepsData
  <2>8. CASE InsertInto(t)
    BY <2>8, InsertKeepsData
  <2>9. CASE GroupDone(t)
    BY <2>9, GroupDoneKeepsData
  <2> QED  BY <1>2, <2>1, <2>2, <2>3, <2>4, <2>5, <2>6, <2>7, <2>8, <2>9 DEF goOn
<1>3. CASE background
  BY <1>3, BackgroundKeepsPromises
<1>4. ASSUME NEW kind \in CrashKinds, Crash(kind)
      PROVE  DataInv'
  BY <1>4, CrashKeepsPromises
<1>5. CASE Open
  BY <1>5, OpenKeepsPromises
<1>6. CASE UNCHANGED vars
  BY <1>6, StutterKeepsData
<1> QED  BY <1>1, <1>2, <1>3, <1>4, <1>5, <1>6 DEF Next


-----------------------------------------------------------------------------
(* The names of the logs.                                                  *)

\* A step that creates no log, syncs no directory and leaves imm_ alone.
LEMMA NamesUntouched ==
  ASSUME NamesInv, UNCHANGED <<logfile_number_, imm_, manifest, open>>,
         DOMAIN logs' \subseteq DOMAIN logs, bgpc' = "install" => bgpc = "install"
  PROVE  NamesInv'
<1>1. Unnamed' \subseteq Unnamed
  BY DEF Unnamed
<1> QED  BY <1>1 DEF NamesInv

\* The directory was synced: no log is newer than the current one.
LEMMA AllNamed ==
  ASSUME NumberInv', TypeOK', manifest'.named = logfile_number_'
  PROVE  Unnamed' = {}
<1>1. \A l \in DOMAIN logs' : l \in Nat /\ logfile_number_' \in Nat /\ l <= logfile_number_'
  BY TypeParts DEF DataTypeOK, NumberInv, TypeOK
<1>2. \A l \in DOMAIN logs' : ~(l > manifest'.named)
  BY <1>1
<1> QED  BY <1>2 DEF Unnamed

\* A new log has no name yet; the one before it has, for imm_ was compacted.
LEMMA SwitchKeepsNames ==
  ASSUME Inv, Inv', NamesInv, NEW t \in Threads, RoomSwitch(t)
  PROVE  NamesInv'
<1> USE TypeParts
<1>1. open /\ imm_ = NoImm /\ UNCHANGED <<manifest, open>>
  <2>1. pc[t] # "idle" /\ imm_ = NoImm /\ UNCHANGED <<manifest, open>>
    BY DEF RoomSwitch, Room, MustWait, LeaveWithout, Finish
  <2> QED  BY <2>1 DEF Inv, ClosedInv
<1>2. Unnamed = {} /\ bgpc # "install"
  BY <1>1 DEF NamesInv, Inv, BackgroundInv
<1>3. CASE Fails("newfile") /\ LeaveWithout(t, "error")
  <2>1. UNCHANGED <<logfile_number_, imm_, logs, bgpc>>
    BY <1>3 DEF LeaveWithout, memVars, bgVars
  <2> QED  BY <1>1, <2>1, NamesUntouched
<1>4. CASE logfile_number_' = logfile_number_ + 1 /\ imm_' = mem_
           /\ DOMAIN logs' = DOMAIN logs \cup {logfile_number_ + 1}
           /\ bgpc' = Scheduled(bgpc, bg_error_, mem_, numLevel0)
  <2>1. Unnamed' \subseteq {logfile_number_'}
    BY <1>1, <1>2, <1>4 DEF Unnamed
  <2>2. mem_ # NoImm
    BY NoImmIsNoTable DEF Inv, DataTypeOK
  <2>3. bgpc' # "install"
    BY <1>2, <1>4 DEF Scheduled
  <2> QED  BY <1>4, <2>1, <2>2, <2>3 DEF NamesInv
<1>5. \/ Fails("newfile") /\ LeaveWithout(t, "error")
      \/ /\ logfile_number_' = logfile_number_ + 1 /\ imm_' = mem_
         /\ DOMAIN logs' = DOMAIN logs \cup {logfile_number_ + 1}
         /\ bgpc' = Scheduled(bgpc, bg_error_, mem_, numLevel0)
  BY DEF RoomSwitch
<1> QED  BY <1>3, <1>4, <1>5

\* LogAndApply names the current log, unless it fails before.
LEMMA ManifestKeepsNames ==
  ASSUME Inv, Inv', NamesInv, WriteManifest
  PROVE  NamesInv'
<1>1. UNCHANGED <<logfile_number_, imm_, logs, open>>
  BY DEF WriteManifest, OnlyBackground
<1>2. CASE manifest'.named = logfile_number_
  <2>1. Unnamed' = {}
    BY <1>1, <1>2, AllNamed DEF Inv
  <2> QED  BY <2>1 DEF NamesInv
<1>3. CASE manifest'.named = manifest.named /\ bgpc' # "install"
  <2>1. Unnamed' = Unnamed
    BY <1>1, <1>3 DEF Unnamed
  <2> QED  BY <1>1, <1>3, <2>1 DEF NamesInv
<1>4. \/ manifest'.named = logfile_number_
      \/ manifest'.named = manifest.named /\ bgpc' # "install"
  <2>1. manifest \in DescriptorType
    BY TypeParts DEF Inv, DataTypeOK
  <2>2. CASE manifest' = Applied
    BY <2>2 DEF Applied
  <2>3. CASE manifest' \in HalfApplied /\ bgpc' # "install"
    BY <2>1, <2>3, HalfAppliedFacts
  <2> QED  BY <2>2, <2>3 DEF WriteManifest
<1> QED  BY <1>2, <1>3, <1>4

\* Every step keeps the invariant of the names.
LEMMA NextNames ==
  Inv /\ Inv' /\ NamesInv /\ [Next]_vars => NamesInv'
<1> SUFFICES ASSUME Inv, Inv', NamesInv, [Next]_vars
             PROVE  NamesInv'
  OBVIOUS
<1>1. ASSUME NEW t \in Threads, \E sync, batch : Write(t, sync, batch)
      PROVE  NamesInv'
  <2>1. UNCHANGED <<logfile_number_, imm_, manifest, open, logs, bgpc>>
    BY <1>1 DEF Write, Enter, memVars, bgVars
  <2> QED  BY <2>1, NamesUntouched
<1>2. ASSUME NEW t \in Threads, goOn(t), ~RoomSwitch(t)
      PROVE  NamesInv'
  <2>1. UNCHANGED <<logfile_number_, imm_, manifest, open, bgpc>>
    BY <1>2 DEF goOn, Wake, RoomError, RoomDelay, DelayOver, RoomWait, WaitOver, RoomFound,
       AddRecord, Sync, InsertInto, GroupDone, ImmWait, LeaveWithout, OnlyThread, OnlyLogging,
       memVars, bgVars
  <2>2. DOMAIN logs' = DOMAIN logs
    BY <1>2 DEF goOn, Wake, RoomError, RoomDelay, DelayOver, RoomWait, WaitOver, RoomFound,
       AddRecord, Logged, Sync, InsertInto, GroupDone, ImmWait, LeaveWithout, OnlyThread
  <2> QED  BY <2>1, <2>2, NamesUntouched
<1>3. ASSUME NEW t \in Threads, RoomSwitch(t)
      PROVE  NamesInv'
  BY <1>3, SwitchKeepsNames
<1>4. ASSUME background, ~WriteManifest, ~InstallMemTable
      PROVE  NamesInv'
  <2>1. UNCHANGED <<logfile_number_, imm_, manifest, open>>
    BY <1>4 DEF background, BackgroundCall, BuildTable, InstallMemTableFailed, MergeFindsImm,
       MergeDone, InstallMerge, MergeFailed, OnlyBackground
  <2>2. DOMAIN logs' \subseteq DOMAIN logs
    BY <1>4 DEF background, BackgroundCall, BuildTable, InstallMemTableFailed, MergeFindsImm,
       MergeDone, InstallMerge, MergeFailed, KeptLogs
  <2>3. bgpc' # "install"
    BY <1>4 DEF background, BackgroundCall, BuildTable, InstallMemTableFailed, MergeFindsImm,
       MergeDone, InstallMerge, MergeFailed, ReturnFromCompactMemTable, EndBackgroundCall, Scheduled
  <2> QED  BY <2>1, <2>2, <2>3, NamesUntouched
<1>5. CASE WriteManifest
  BY <1>5, ManifestKeepsNames
<1>6. CASE InstallMemTable
  <2>1. /\ UNCHANGED <<logfile_number_, manifest, open>> /\ bgpc = "install" /\ bgpc' # "install"
        /\ DOMAIN logs' \subseteq DOMAIN logs
    BY <1>6 DEF InstallMemTable, OnlyBackground, KeptLogs, ReturnFromCompactMemTable,
       EndBackgroundCall, Scheduled
  <2>2. Unnamed' \subseteq Unnamed
    BY <2>1 DEF Unnamed
  <2> QED  BY <2>1, <2>2 DEF NamesInv
<1>7. ASSUME NEW kind, Crash(kind)
      PROVE  NamesInv'
  BY <1>7 DEF Crash, NamesInv
<1>8. CASE Open
  <2>1. manifest'.named = logfile_number_'
    BY <1>8 DEF Open
  <2>2. Unnamed' = {}
    BY <2>1, AllNamed DEF Inv
  <2> QED  BY <2>2 DEF NamesInv
<1>9. CASE UNCHANGED vars
  <2>1. UNCHANGED <<logfile_number_, imm_, manifest, open, logs, bgpc>>
    BY <1>9 DEF vars, memVars, bgVars
  <2> QED  BY <2>1, NamesUntouched
<1> QED  BY <1>1, <1>2, <1>3, <1>4, <1>5, <1>6, <1>7, <1>8, <1>9 DEF Next

-----------------------------------------------------------------------------
(* What the invariant says of readers and of crashes.                      *)

\* An entry of a reader's view is of a batch that is live, and is whole there.
LEMMA VisibleFacts ==
  ASSUME Inv, DataInv, NEW e \in Visible
  PROVE  /\ e[1] \in Live /\ e[1] \in Calls /\ sequence[e[1]] >= 1
         /\ EntriesOf({e[1]}) \subseteq Visible
<1> USE TypeParts DEF DataInv, StoreInv
<1> DEFINE i == e[1]
<1>1. /\ e \in mem_ \/ (imm_ # NoImm /\ e \in imm_) \/ e \in tables
      /\ sequence[e[1]] + e[2] - 1 <= lastSequence
  BY DEF Visible, Held, NoImm
<1>2. /\ e \in Entries
      /\ mem_ \subseteq Entries /\ tables \subseteq Entries /\ manifest.tables \subseteq Entries
      /\ lastSequence \in Nat /\ manifest.sequence \in Nat
  BY <1>1 DEF Inv, DataTypeOK, DescriptorType
<1>3. i \in Calls /\ e[2] \in 1..BatchCount /\ sequence[i] \in Nat /\ BatchCount \in Nat
  BY <1>2, ConstantFacts DEF Entries, Inv, HistoryTypeOK
<1> HIDE DEF i
<1>4. ASSUME EntriesOf({i}) \subseteq Held, sequence[i] + BatchCount - 1 <= lastSequence
      PROVE  EntriesOf({i}) \subseteq Visible
  <2> SUFFICES ASSUME NEW j \in 1..BatchCount
               PROVE  <<i, j>> \in Visible
    BY DEF EntriesOf
  <2>1. <<i, j>> \in Held
    BY <1>4 DEF EntriesOf
  <2>2. sequence[i] + j - 1 <= lastSequence
    BY <1>2, <1>3, <1>4
  <2> QED  BY <2>1, <2>2 DEF Visible
<1>5. CASE e \in mem_
  <2>1. KeptIn(i, logfile_number_)
    BY <1>5 DEF MemInv, i
  <2>2. logfile_number_ \in DOMAIN logs /\ i \in LogIds(logfile_number_)
    BY <2>1 DEF KeptIn, Inv, LogFileInv
  <2>3. i \in Live /\ sequence[i] >= 1
    BY <2>2 DEF Live, NumbersInv
  <2>4. Old(i) /\ EntriesOf({i}) \subseteq mem_
    <3>1. ASSUME NEW t \in Loggers, i \in GroupIds(t)
          PROVE  FALSE
      <4>1. sequence[i] > lastSequence
        BY <3>1, InFlightNumbers
      <4> QED  BY <1>1, <1>2, <1>3, <4>1 DEF i
    <3> QED  BY <1>5, <3>1 DEF MemInv, i
  <2>5. EntriesOf({i}) \subseteq Held
    BY <2>4 DEF Held
  <2> QED  BY <1>3, <1>4, <2>3, <2>4, <2>5 DEF Old, i
<1>6. CASE imm_ # NoImm /\ e \in imm_
  <2>1. Whole(imm_) /\ Old(i) /\ \E l \in DOMAIN logs : KeptIn(i, l)
    BY <1>6 DEF ImmInv, i
  <2>2. i \in Live /\ sequence[i] >= 1
    BY <2>1 DEF Live, KeptIn, Old
  <2>3. EntriesOf({i}) \subseteq imm_ /\ <<0, 0>> \notin EntriesOf({i})
    <3>1. i # 0
      BY <1>3, ConstantFacts DEF Calls
    <3> QED  BY <1>6, <2>1, <3>1 DEF Whole, i, EntriesOf
  <2>4. EntriesOf({i}) \subseteq Held
    BY <2>3 DEF Held, NoImm
  <2> QED  BY <1>3, <1>4, <2>1, <2>2, <2>4 DEF Old, i
<1>7. CASE e \in tables
  <2>1. i \in IdsOf(manifest.tables)
    BY <1>7 DEF TablesInv, IdsOf, i
  <2>2. sequence[i] >= 1 /\ sequence[i] + BatchCount - 1 <= manifest.sequence
        /\ manifest.sequence <= lastSequence
    BY <2>1 DEF NumbersInv
  <2>3. sequence[i] + BatchCount - 1 <= lastSequence
    BY <1>2, <1>3, <2>2
  <2>4. EntriesOf({i}) \subseteq Held
    BY <1>7 DEF TablesInv, Whole, Held, i
  <2>5. i \in Live
    BY <2>1 DEF Live
  <2> QED  BY <1>3, <1>4, <2>2, <2>3, <2>4, <2>5 DEF i
<1> QED  BY <1>1, <1>5, <1>6, <1>7

\* A batch with a visible entry is visible as a whole.
LEMMA InvBatchesAtomic ==
  Inv /\ DataInv => BatchesAtomic
<1> SUFFICES ASSUME Inv, DataInv, NEW i \in Calls, NEW e \in EntriesOf({i}), e \in Visible
             PROVE  EntriesOf({i}) \subseteq Visible
  BY DEF BatchesAtomic
<1>1. e[1] = i
  BY DEF EntriesOf
<1> QED  BY <1>1, VisibleFacts

\* What was promised is held by a memtable or a table, with old numbers.
LEMMA InvAckedVisible ==
  Inv /\ DataInv => AckedVisible
<1> SUFFICES ASSUME Inv, DataInv, open
             PROVE  EntriesOf(acked) \subseteq Visible
  BY DEF AckedVisible
<1>1. ASSUME NEW i \in acked
      PROVE  EntriesOf({i}) \subseteq Visible
  <2>1. i \in Promised
    BY DEF Promised
  <2>2. i \in Calls /\ Old(i) /\ sequence[i] \in Nat
    BY <2>1, PromisedIsOld DEF DataInv
  <2>3. \/ EntriesOf({i}) \subseteq mem_ \/ EntriesOf({i}) \subseteq imm_
        \/ EntriesOf({i}) \subseteq tables
    BY <2>1 DEF DataInv, SafeInv
  <2>4. <<i, 1>> \in EntriesOf({i}) /\ <<0, 0>> \notin EntriesOf({i})
    BY <2>2, ConstantFacts DEF EntriesOf, Calls
  <2>5. <<i, 1>> \in Held
    BY <2>3, <2>4 DEF Held, NoImm
  <2>6. sequence[i] + 1 - 1 <= lastSequence
    <3>1. lastSequence \in Nat
      BY TypeParts DEF Inv, DataTypeOK
    <3> QED  BY <2>2, <3>1, ConstantFacts DEF Old
  <2>7. <<i, 1>> \in Visible
    BY <2>5, <2>6 DEF Visible
  <2>8. <<i, 1>>[1] = i
    OBVIOUS
  <2> QED  BY <2>7, <2>8, VisibleFacts
<1> QED  BY <1>1, EntriesOfEach

\* What was promised is in a table, or in a log that Recover reads.
LEMMA InvNoLoss ==
  Inv /\ DataInv => NoLossOnProcessCrash
<1> SUFFICES ASSUME Inv, DataInv
             PROVE  NoLossOnProcessCrash
  OBVIOUS
<1>1. CASE ~open
  BY <1>1 DEF DataInv, ClosedDataInv
<1>2. CASE open
  <2>1. \A l \in DOMAIN logs :
          /\ WholeLogs[l] = Len(logs[l].records) /\ Len(logs[l].records) \in Nat
          /\ logs[l].synced \in Nat /\ logs[l].synced <= Len(logs[l].records)
    <3>1. \A l \in DOMAIN logs : logs[l].records \in Seq(Record) /\ logs[l].synced \in Nat
      BY TypeParts DEF Inv, DataTypeOK
    <3> QED  BY <3>1 DEF WholeLogs, DataInv, StoreInv, RecordsInv
  <2>2. Keeps(WholeLogs) /\ KeepsAll(WholeLogs)
    BY <2>1 DEF Keeps, KeepsAll
  <2>3. \A i \in acked : EntriesOf({i}) \subseteq Recoverable(WholeLogs)
    BY <1>2, <2>2, PromisedIsRecoverable DEF Promised, Kept
  <2> QED  BY <2>3, EntriesOfEach DEF NoLossOnProcessCrash
<1> QED  BY <1>1, <1>2

\* What was promised with sync is in a table, or in the synced part of such a
\* log, if the log has a name.
LEMMA InvSyncedSurvive ==
  Inv /\ DataInv /\ NamesInv => SyncedSurvive
<1> SUFFICES ASSUME Inv, DataInv, NamesInv
             PROVE  SyncedSurvive
  OBVIOUS
<1> DEFINE safe == {i \in acked : request[i].sync} \ Exposed
<1>1. \A l \in DOMAIN logs :
        /\ DurableLogs[l] = IF l \in Unnamed THEN 0 ELSE logs[l].synced
        /\ Len(logs[l].records) \in Nat
        /\ logs[l].synced \in Nat /\ logs[l].synced <= Len(logs[l].records)
  <2>1. \A l \in DOMAIN logs : logs[l].records \in Seq(Record) /\ logs[l].synced \in Nat
    BY TypeParts DEF Inv, DataTypeOK
  <2> QED  BY <2>1 DEF DurableLogs, DataInv, StoreInv, RecordsInv
<1>2. \A i \in safe : EntriesOf({i}) \subseteq Recoverable(DurableLogs)
  <2>1. CASE ~open
    <3> SUFFICES ASSUME NEW i \in safe, ~(EntriesOf({i}) \subseteq manifest.tables)
                 PROVE  EntriesOf({i}) \subseteq Recoverable(DurableLogs)
      BY DEF Recoverable
    <3>1. EntriesOf({i}) \subseteq manifest.tables \cup EntriesOf(Replayed(WholeLogs))
      <4>1. EntriesOf(acked) \subseteq Recoverable(WholeLogs)
        BY InvNoLoss DEF NoLossOnProcessCrash
      <4> QED  BY <4>1 DEF Recoverable, EntriesOf
    <3>2. i \in Replayed(WholeLogs)
      BY <3>1 DEF EntriesOf
    <3>3. PICK l \in DOMAIN logs : l >= manifest.log /\ i \in Readable(logs[l].records, WholeLogs[l])
      BY <3>2 DEF Replayed
    <3>4. WholeLogs[l] = logs[l].synced
      BY <2>1 DEF WholeLogs, DataInv, StoreInv, RecordsInv
    <3>5. l \notin Unnamed
      BY <3>3, <3>4 DEF Exposed
    <3>6. i \in Readable(logs[l].records, DurableLogs[l])
      BY <1>1, <3>3, <3>4, <3>5
    <3>7. i \in Replayed(DurableLogs)
      BY <3>3, <3>6 DEF Replayed
    <3> QED  BY <3>7 DEF Recoverable, EntriesOf
  <2>2. CASE open
    <3>1. Keeps(DurableLogs)
      BY <1>1 DEF Keeps
    <3>2. \A i \in safe : i \in Promised /\ Kept(i, DurableLogs)
      BY DEF Promised, Kept
    <3> HIDE DEF safe
    <3> QED  BY <2>2, <3>1, <3>2, PromisedIsRecoverable
  <2> QED  BY <2>1, <2>2
<1>3. EntriesOf(safe) \subseteq Recoverable(DurableLogs)
  <2> HIDE DEF safe
  <2> QED  BY <1>2, EntriesOfEach
<1> QED  BY <1>3 DEF SyncedSurvive, NamesInv

\* Two visible batches are live, so their numbers are apart.
LEMMA InvSequenceOrder ==
  Inv /\ DataInv => SequenceOrder
<1> SUFFICES ASSUME Inv, DataInv, NEW i \in Calls, NEW k \in Calls,
                    EntriesOf({i, k}) \subseteq Visible
             PROVE  /\ i # k => Apart(i, k)
                    /\ i \in request[k].seen => sequence[i] < sequence[k]
  BY DEF SequenceOrder, Apart
<1>1. <<i, 1>> \in Visible /\ <<k, 1>> \in Visible
  BY ConstantFacts DEF EntriesOf
<1>2. <<i, 1>>[1] = i /\ <<k, 1>>[1] = k
  OBVIOUS
<1>3. i \in Live /\ k \in Live /\ sequence[k] >= 1
  BY <1>1, <1>2, VisibleFacts
<1>4. i # k => Apart(i, k)
  BY <1>3 DEF DataInv, StoreInv, ApartInv
<1>5. i \in request[k].seen => sequence[i] < sequence[k]
  BY <1>3 DEF DataInv, SeenInv
<1> QED  BY <1>4, <1>5

-----------------------------------------------------------------------------
(* The theorems.                                                           *)

\* The invariant holds whatever fails and whenever it crashes, as long as a
\* failed AddRecord leaves no part of a record in the log.
LEMMA DataHolds ==
  ASSUME "torn" \notin Failures
  PROVE  Spec => [](Inv /\ DataInv)
<1>1. Init => Inv /\ DataInv
  BY InitInv, InitData
<1>2. Inv /\ DataInv /\ [Next]_vars => (Inv /\ DataInv)'
  BY NextInv, NextData
<1> QED  BY <1>1, <1>2, PTL DEF Spec

\* Whatever fails, only the current log can be without a name.
LEMMA NamesHold ==
  Spec => [](Inv /\ NamesInv)
<1>1. Init => NamesInv
  <2>1. Init => Unnamed = {} /\ bgpc = "idle"
    BY DEF Init, Unnamed
  <2> QED  BY <2>1 DEF NamesInv
<1>2. Inv /\ NamesInv /\ [Next]_vars => (Inv /\ NamesInv)'
  BY NextInv, NextNames
<1> QED  BY <1>1, <1>2, InitInv, PTL DEF Spec

\* A reader that takes LastSequence sees all entries of a batch or none, while
\* DBImpl::Write inserts a group without the mutex, through memtable switches,
\* flushes, failures, crashes and DB::Open.
THEOREM DBWriteAtomicBatches ==
  ASSUME "torn" \notin Failures
  PROVE  Spec => []BatchesAtomic
<1> QED  BY DataHolds, InvBatchesAtomic, PTL

\* A write that DBImpl::Write acknowledged is what readers see from then on,
\* also after DB::Open.
THEOREM DBWriteAckedVisible ==
  ASSUME "torn" \notin Failures
  PROVE  Spec => []AckedVisible
<1> QED  BY DataHolds, InvAckedVisible, PTL

\* The end of the process loses no acknowledged write, even without sync: the
\* logs that DeleteObsoleteFiles keeps and the tables of the descriptor have it.
THEOREM DBWriteNoLoss ==
  ASSUME "torn" \notin Failures
  PROVE  Spec => []NoLossOnProcessCrash
<1> QED  BY DataHolds, InvNoLoss, PTL

\* A write acknowledged with sync = true is on disk where DB::Open looks, also
\* when another writer led its group, unless its log has no name on the disk;
\* that can only be the log that MakeRoomForWrite created last, while the
\* memtable before it waits to be compacted.
THEOREM DBWriteSyncedSurvive ==
  ASSUME "torn" \notin Failures
  PROVE  Spec => []SyncedSurvive
<1> QED  BY DataHolds, NamesHold, InvSyncedSurvive, PTL

\* The sequence numbers that DBImpl::Write and VersionSet::Recover give out
\* never overlap for two visible batches, and follow the order of the calls.
THEOREM DBWriteSequenceOrder ==
  ASSUME "torn" \notin Failures
  PROVE  Spec => []SequenceOrder
<1> QED  BY DataHolds, InvSequenceOrder, PTL
=============================================================================
