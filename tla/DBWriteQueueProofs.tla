------------------------ MODULE DBWriteQueueProofs ------------------------
(***************************************************************************)
(* Type correctness of DBWrite and the queue of writers: only the writer   *)
(* at the head of the queue is at work, for any number of threads, calls,  *)
(* failures and crashes.                                                   *)
(***************************************************************************)
EXTENDS DBWrite, FiniteSetTheorems, SequenceTheorems, TLAPS

-----------------------------------------------------------------------------
(* The inductive invariant.                                                *)

\* The states of the writer that MakeRoomForWrite and the log are busy with.
Working == {"room", "delay", "bgwait"} \cup Logging

\* The writer has not been told that its batch is done.
InQueue(t) == pc[t] \in Working \/ (pc[t] = "waiting" /\ ~done[t])

\* Each writer is once in the queue, as long as its call is not done; the head
\* alone works; the mutex is kept only in MakeRoomForWrite.
QueueInv ==
  /\ \A i, j \in 1..Len(writers_) : writers_[i] = writers_[j] => i = j
  /\ \A t \in Threads : InQueue(t) <=> \E i \in 1..Len(writers_) : writers_[i] = t
  /\ \A t \in Threads : pc[t] \in Working => writers_[1] = t
  /\ \A t \in Threads : pc[t] = "room" <=> mutex = t

\* The group of the writer that logs is the front of the queue.
GroupInv ==
  \A t \in Threads : pc[t] \in Logging =>
    /\ Len(group[t]) \in 1..Len(writers_)
    /\ \A k \in 1..Len(group[t]) : group[t][k] = writers_[k]

\* Calls have their own numbers.
CallInv ==
  /\ \A t \in Threads : op[t].id <= calls /\ (pc[t] # "idle" => op[t].id # 0)
  /\ \A t, u \in Threads : op[t].id = op[u].id /\ op[t].id # 0 => t = u

\* What the background thread has in hand: a memtable while it compacts one, at
\* most the level-0 files there are while it merges or moves; the descriptor
\* names at least the level-0 files of the version, until an error stops it.
BackgroundInv ==
  /\ bgpc = "scheduled" /\ ~bg_error_ => imm_ # NoImm \/ numLevel0 >= 1
  /\ nested => bgpc \in {"building", "logging", "install", "installFailed"}
  /\ bgpc \in {"building", "logging", "install", "installFailed"} => imm_ # NoImm
  /\ bgpc = "merging" \/ nested => inputs <= numLevel0
  /\ bgpc \in {"logging", "install"} => edit.removed = 0
  /\ bgpc \in {"merged", "moving", "installMerge", "installMove"} =>
       edit.removed <= numLevel0
  /\ \/ ~open \/ bgpc = "mergeFailed" \/ (bg_error_ /\ bgpc \in {"idle", "scheduled"})
     \/ bgpc = "install" /\ manifest.level0 >= numLevel0 + edit.added
     \/ bgpc \in {"installMerge", "installMove"} /\ manifest.level0 >= numLevel0 - edit.removed
     \/ bgpc \notin {"install", "installMerge", "installMove"} /\ manifest.level0 >= numLevel0

\* Nothing runs between a crash and DB::Open.
ClosedInv ==
  ~open => /\ \A t \in Threads : pc[t] = "idle"
           /\ writers_ = <<>>
           /\ bgpc = "idle" /\ ~nested
           /\ mem_ = {} /\ imm_ = NoImm

\* The log that is written exists.
LogFileInv ==
  /\ logs = [n \in DOMAIN logs |-> logs[n]]
  /\ logfile_number_ \in DOMAIN logs

\* No file is newer than the log that is written.
NumberInv ==
  /\ \A n \in DOMAIN logs : n <= logfile_number_
  /\ logNumber <= logfile_number_ /\ edit.log <= logfile_number_
  /\ manifest.log <= logfile_number_

Inv == TypeOK /\ QueueInv /\ GroupInv /\ CallInv /\ BackgroundInv /\ ClosedInv /\ LogFileInv
       /\ NumberInv

-----------------------------------------------------------------------------
(* Facts about constants, sequences and the queue.                         *)

\* The bounds are numbers, and the value for no thread is not a thread.
LEMMA ConstantFacts ==
  /\ Nobody \notin Threads
  /\ BatchCount \in Nat /\ BatchCount >= 1
  /\ MaxCalls \in Nat /\ MaxFailures \in Nat /\ MaxCrashes \in Nat
  /\ L0_CompactionTrigger \in Nat /\ L0_CompactionTrigger >= 1
BY DBWriteAssumption DEF Nobody

\* The value for no memtable is not one.
LEMMA NoImmIsNoTable == ~(NoImm \subseteq Entries)
BY DEF NoImm, Entries, Calls

\* Entries of batches that were called for.
LEMMA EntriesOfCalls ==
  ASSUME NEW ids \in SUBSET Calls
  PROVE  EntriesOf(ids) \subseteq Entries
BY DEF EntriesOf, Entries

\* A set of numbers that is not empty has a least one.
LEMMA LeastNumber ==
  ASSUME NEW S \in SUBSET Nat, S # {}
  PROVE  \E n \in S : \A m \in S : n <= m
<1> DEFINE R == OpToRel(<, Nat)
<1>1. IsWellFoundedOn(R, Nat)
  BY NatLessThanWellFounded
<1>2. \A n, m \in Nat : m < n => <<m, n>> \in R
  BY DEF OpToRel
<1> HIDE DEF R
<1>3. PICK n \in S : \A m \in S : ~(<<m, n>> \in R)
  BY <1>1, WFMin
<1>4. ASSUME NEW m \in S
      PROVE  n <= m
  <2>1. n \in Nat /\ m \in Nat
    OBVIOUS
  <2>2. ~(m < n)
    BY <1>2, <1>3, <2>1
  <2> QED  BY <2>1, <2>2
<1> QED  BY <1>4

\* What is left of the queue when its first n writers leave.
LEMMA RestFacts ==
  ASSUME NEW q \in Seq(Threads), NEW n \in 0..Len(q), NEW rest,
         rest = SubSeq(q, n + 1, Len(q))
  PROVE  /\ rest \in Seq(Threads)
         /\ Len(rest) = Len(q) - n
         /\ \A i \in 1..Len(rest) : rest[i] = q[n + i]
<1>1. \A i \in (n + 1)..Len(q) : q[i] \in Threads
  OBVIOUS
<1>2. n + 1 \in Int /\ Len(q) \in Int
  OBVIOUS
<1>3. /\ rest \in Seq(Threads)
      /\ Len(rest) = IF n + 1 <= Len(q) THEN Len(q) - (n + 1) + 1 ELSE 0
      /\ \A i \in 1..(Len(q) - (n + 1) + 1) : rest[i] = q[(n + 1) + i - 1]
  BY <1>1, <1>2, SubSeqProperties
<1> QED  BY <1>3

\* The first n writers are n.
LEMMA FrontCount ==
  ASSUME NEW q \in Seq(Threads), NEW n \in 0..Len(q),
         \A i, j \in 1..Len(q) : q[i] = q[j] => i = j
  PROVE  Cardinality({q[k] : k \in 1..n}) = n
<1> DEFINE S == {q[k] : k \in 1..n}
           f == [k \in 1..n |-> q[k]]
<1>0. \A k \in 1..n : k \in 1..Len(q)
  OBVIOUS
<1>1. f \in Bijection(1..n, S)
  <2>1. f \in [1..n -> S]
    OBVIOUS
  <2>2. \A i, j \in 1..n : f[i] = f[j] => i = j
    BY <1>0
  <2>3. \A x \in S : \E k \in 1..n : f[k] = x
    OBVIOUS
  <2> HIDE DEF f, S
  <2> QED  BY <2>1, <2>2, <2>3 DEF Bijection, Injection, IsInjective, Surjection
<1>2. ExistsBijection(1..n, S)
  BY <1>1 DEF ExistsBijection
<1> QED  BY <1>2, FS_CountingElements

\* A thread in a call has a number that was given out.
LEMMA CallNumber ==
  ASSUME ThreadTypeOK, HistoryTypeOK, CallInv, NEW t \in Threads, pc[t] # "idle"
  PROVE  op[t].id \in Calls
<1>1. op[t].id \in Nat /\ op[t].id <= calls /\ op[t].id # 0
  BY DEF ThreadTypeOK, CallInv
<1>2. calls \in 0..MaxCalls
  BY DEF HistoryTypeOK
<1> QED  BY <1>1, <1>2, ConstantFacts DEF Calls

\* Writers in the queue are in a call.
LEMMA WritersAreInCalls ==
  ASSUME ThreadTypeOK, SyncTypeOK, HistoryTypeOK, QueueInv, CallInv, NEW i \in 1..Len(writers_)
  PROVE  writers_[i] \in Threads /\ InQueue(writers_[i]) /\ op[writers_[i]].id \in Calls
<1>1. writers_[i] \in Threads
  BY DEF SyncTypeOK
<1>2. InQueue(writers_[i])
  BY <1>1 DEF QueueInv
<1>3. pc[writers_[i]] # "idle"
  BY <1>2 DEF InQueue, Working, Logging
<1> QED  BY <1>1, <1>2, <1>3, CallNumber

\* The batches of a group are calls.
LEMMA GroupIdsAreCalls ==
  ASSUME ThreadTypeOK, SyncTypeOK, HistoryTypeOK, QueueInv, GroupInv, CallInv, NEW t \in Threads, pc[t] \in Logging
  PROVE  GroupIds(t) \subseteq Calls
<1>1. \A k \in DOMAIN group[t] : k \in 1..Len(writers_) /\ group[t][k] = writers_[k]
  <2>1. group[t] \in Seq(Threads)
    BY DEF ThreadTypeOK
  <2> QED  BY <2>1 DEF GroupInv
<1> QED  BY <1>1, WritersAreInCalls DEF GroupIds

-----------------------------------------------------------------------------
(* Queue and groups, step by step.                                         *)

\* What the next lemmas need of the types.
PcOK ==
  /\ pc \in [Threads -> ThreadStates] /\ done \in [Threads -> BOOLEAN]
  /\ mutex \in Threads \cup {Nobody}

QueueVars == <<pc, done, mutex, writers_, group>>

\* Steps that leave the queue alone.
LEMMA QueueUnchanged ==
  ASSUME QueueInv, GroupInv, UNCHANGED QueueVars
  PROVE  QueueInv' /\ GroupInv'
BY DEF QueueInv, GroupInv, QueueVars, InQueue

\* A call joins at the end; it works at once only when the queue was empty.
LEMMA EnterKeepsQueue ==
  ASSUME PcOK, ThreadTypeOK, SyncTypeOK, QueueInv, GroupInv, NEW t \in Threads, NEW sync, NEW batch,
         Write(t, sync, batch)
  PROVE  QueueInv' /\ GroupInv'
<1> DEFINE n == Len(writers_)
<1>1. /\ pc[t] = "idle" /\ mutex = Nobody
      /\ writers_' = Append(writers_, t)
      /\ done' = [done EXCEPT ![t] = FALSE]
      /\ group' = group
  BY DEF Write, Enter
<1>2. /\ n \in Nat /\ Len(writers_') = n + 1 /\ writers_'[n + 1] = t
      /\ \A i \in 1..n : writers_'[i] = writers_[i]
  BY <1>1 DEF SyncTypeOK
<1>3. ~InQueue(t) /\ \A i \in 1..n : writers_[i] # t
  BY <1>1 DEF InQueue, Working, Logging, QueueInv
<1>4. \/ n = 0 /\ pc' = [pc EXCEPT ![t] = "room"] /\ mutex' = t
      \/ n # 0 /\ pc' = [pc EXCEPT ![t] = "waiting"] /\ mutex' = mutex
  BY <1>2 DEF Write, Enter, SyncTypeOK
<1>5. InQueue(t)' /\ \A u \in Threads \ {t} : InQueue(u)' <=> InQueue(u)
  BY <1>1, <1>4 DEF InQueue, Working, PcOK
<1>6. \A u \in Threads : pc[u] \in Working => n # 0
  BY DEF QueueInv, InQueue
<1>7. QueueInv'
  <2>1. \A i, j \in 1..Len(writers_)' : writers_'[i] = writers_'[j] => i = j
    BY <1>2, <1>3 DEF QueueInv
  <2>2. \A u \in Threads : InQueue(u)' <=> \E i \in 1..Len(writers_)' : writers_'[i] = u
    BY <1>2, <1>3, <1>5 DEF QueueInv
  <2>3. \A u \in Threads : pc'[u] \in Working => writers_'[1] = u
    BY <1>2, <1>4, <1>6 DEF QueueInv, PcOK, Working, Logging
  <2>4. \A u \in Threads : pc'[u] = "room" <=> mutex' = u
    BY <1>1, <1>4, ConstantFacts DEF QueueInv, PcOK
  <2> QED  BY <2>1, <2>2, <2>3, <2>4 DEF QueueInv
<1>8. GroupInv'
  <2>1. \A u \in Threads : pc'[u] \in Logging => pc[u] \in Logging
    BY <1>4 DEF PcOK, Logging
  <2>2. \A u \in Threads : group[u] \in Seq(Threads)
    BY DEF ThreadTypeOK
  <2> QED  BY <1>1, <1>2, <2>1, <2>2 DEF GroupInv
<1> QED  BY <1>7, <1>8

\* A thread moves between states in which it is the head and works, or keeps its
\* place in the queue; who holds the mutex follows.
LEMMA MoveKeepsQueue ==
  ASSUME PcOK, SyncTypeOK, QueueInv, GroupInv, NEW t \in Threads, NEW to \in ThreadStates,
         pc' = [pc EXCEPT ![t] = to], UNCHANGED <<done, writers_, group>>,
         InQueue(t), to \in Working, writers_[1] = t,
         to \in Logging => pc[t] \in Logging,
         mutex = Nobody \/ mutex = t,
         mutex' = IF to = "room" THEN t ELSE Nobody
  PROVE  QueueInv' /\ GroupInv'
<1>1. \A u \in Threads : InQueue(u)' <=> InQueue(u)
  BY DEF InQueue, PcOK
<1>2. \A u \in Threads : pc'[u] \in Working => writers_[1] = u
  BY DEF PcOK, QueueInv
<1>3. \A u \in Threads : pc'[u] = "room" <=> mutex' = u
  BY ConstantFacts DEF PcOK, QueueInv
<1>4. QueueInv'
  BY <1>1, <1>2, <1>3 DEF QueueInv
<1>5. GroupInv'
  BY DEF GroupInv, PcOK
<1> QED  BY <1>4, <1>5

\* The head leaves the queue with the first n writers.
LEMMA FinishKeepsQueue ==
  ASSUME PcOK, SyncTypeOK, QueueInv, NEW t \in Threads, pc[t] \in Working,
         NEW n \in 1..Len(writers_), NEW s,
         Finish(t, {writers_[k] : k \in 1..n}, s)
  PROVE  /\ QueueInv' /\ GroupInv'
         /\ writers_' \in Seq(Threads)
<1> DEFINE members == {writers_[k] : k \in 1..n}
<1>1. writers_[1] = t /\ t \in members
  BY DEF QueueInv
<1>2. Cardinality(members) = n
  <2>1. n \in 0..Len(writers_) /\ writers_ \in Seq(Threads)
    BY DEF SyncTypeOK
  <2>2. \A i, j \in 1..Len(writers_) : writers_[i] = writers_[j] => i = j
    BY DEF QueueInv
  <2> QED  BY <2>1, <2>2, FrontCount
<1>3. /\ writers_' \in Seq(Threads) /\ Len(writers_)' = Len(writers_) - n
      /\ \A i \in 1..Len(writers_)' : writers_'[i] = writers_[n + i]
  <2>1. n \in 0..Len(writers_) /\ writers_ \in Seq(Threads)
    BY DEF SyncTypeOK
  <2>2. writers_' = SubSeq(writers_, n + 1, Len(writers_))
    BY <1>2 DEF Finish
  <2> QED  BY <2>1, <2>2, RestFacts
<1>4. /\ mutex' = Nobody
      /\ \A u \in Threads : done'[u] = (u \in members \ {t} \/ done[u])
      /\ pc' = [pc EXCEPT ![t] = IF op[t].batch \/ s = "error" THEN "idle" ELSE "immwait"]
  BY DEF Finish, Return
<1> HIDE DEF members
<1>5. \A u \in Threads : pc'[u] \notin Working
  BY <1>1, <1>4 DEF QueueInv, PcOK, Working, Logging
<1>6. \A u \in Threads : InQueue(u)' <=> InQueue(u) /\ u \notin members
  <2>1. \A u \in Threads : pc[u] \in Working => u = t
    BY <1>1 DEF QueueInv
  <2>2. \A u \in Threads : u # t => pc'[u] = pc[u]
    BY <1>4 DEF PcOK
  <2>3. pc'[t] # "waiting"
    BY <1>4 DEF PcOK
  <2> QED  BY <1>1, <1>4, <1>5, <2>1, <2>2, <2>3 DEF InQueue
<1>7. \A u \in Threads : InQueue(u)' <=> \E i \in 1..Len(writers_)' : writers_'[i] = u
  <2>1. ASSUME NEW u \in Threads, InQueue(u), u \notin members
        PROVE  \E i \in 1..Len(writers_)' : writers_'[i] = u
    <3>1. PICK i \in 1..Len(writers_) : writers_[i] = u
      BY <2>1 DEF QueueInv
    <3>2. i > n
      BY <2>1, <3>1 DEF members
    <3>3. i - n \in 1..Len(writers_)' /\ writers_'[i - n] = u
      BY <1>3, <3>1, <3>2 DEF SyncTypeOK
    <3> QED  BY <3>3
  <2>2. ASSUME NEW i \in 1..Len(writers_)'
        PROVE  InQueue(writers_'[i]) /\ writers_'[i] \notin members
    <3>1. n + i \in 1..Len(writers_) /\ writers_'[i] = writers_[n + i]
      BY <1>3 DEF SyncTypeOK
    <3>2. writers_[n + i] \in Threads
      BY <3>1 DEF SyncTypeOK
    <3> QED  BY <3>1, <3>2 DEF QueueInv, members
  <2> QED  BY <1>6, <2>1, <2>2
<1>8. \A i, j \in 1..Len(writers_)' : writers_'[i] = writers_'[j] => i = j
  <2> SUFFICES ASSUME NEW i \in 1..Len(writers_)', NEW j \in 1..Len(writers_)',
                      writers_'[i] = writers_'[j]
               PROVE  i = j
    OBVIOUS
  <2>1. n + i \in 1..Len(writers_) /\ n + j \in 1..Len(writers_)
    BY <1>3 DEF SyncTypeOK
  <2>2. writers_[n + i] = writers_[n + j]
    BY <1>3
  <2>3. n + i = n + j
    BY <2>1, <2>2 DEF QueueInv
  <2> QED  BY <2>3
<1>9. \A u \in Threads : pc'[u] = "room" <=> mutex' = u
  BY <1>4, <1>5, ConstantFacts DEF Working
<1> QED  BY <1>3, <1>5, <1>7, <1>8, <1>9 DEF QueueInv, GroupInv, Working

\* The types that the lemmas above need.
LEMMA TypeParts ==
  ASSUME TypeOK
  PROVE  /\ ThreadTypeOK /\ SyncTypeOK /\ BackgroundTypeOK /\ DataTypeOK /\ HistoryTypeOK
         /\ PcOK
BY DEF TypeOK, ThreadTypeOK, SyncTypeOK, PcOK

\* A writer that is woken is either done and leaves, or is the head.
LEMMA WakeKeepsQueue ==
  ASSUME TypeOK, QueueInv, GroupInv, NEW t \in Threads, Wake(t)
  PROVE  QueueInv' /\ GroupInv'
<1> USE TypeParts
<1>1. /\ mutex = Nobody /\ pc[t] = "waiting" /\ UNCHANGED <<done, writers_, group>>
      /\ writers_ \in Seq(Threads)
  BY DEF Wake, SyncTypeOK
<1>2. CASE done[t]
  <2>1. PICK to \in {"idle", "immwait"} : pc' = [pc EXCEPT ![t] = to]
    BY <1>2 DEF Wake, Return
  <2>2. mutex' = mutex
    BY <1>2 DEF Wake
  <2>3. \A u \in Threads : InQueue(u)' <=> InQueue(u)
    BY <1>1, <1>2, <2>1 DEF InQueue, Working, Logging, PcOK
  <2>4. \A u \in Threads : pc'[u] \in Working => pc[u] = pc'[u]
    BY <2>1 DEF Working, Logging, PcOK
  <2>5. \A u \in Threads : pc'[u] = "room" <=> pc[u] = "room"
    BY <1>1, <2>1 DEF PcOK
  <2>6. QueueInv'
    BY <1>1, <2>2, <2>3, <2>4, <2>5 DEF QueueInv
  <2>7. GroupInv'
    BY <1>1, <2>4 DEF GroupInv, Working
  <2> QED  BY <2>6, <2>7
<1>3. CASE ~done[t]
  <2>1. /\ pc' = [pc EXCEPT ![t] = "room"] /\ mutex' = t /\ t = Head(writers_)
    BY <1>3 DEF Wake
  <2>2. InQueue(t) /\ Len(writers_) # 0
    BY <1>1, <1>3 DEF InQueue, QueueInv
  <2>3. writers_[1] = t
    BY <1>1, <2>1, <2>2
  <2>4. "room" \in ThreadStates /\ "room" \in Working /\ "room" \notin Logging
    BY DEF ThreadStates, Working, Logging
  <2> QED  BY <1>1, <2>1, <2>2, <2>3, <2>4, MoveKeepsQueue
<1> QED  BY <1>2, <1>3

\* A writer that leaves MakeRoomForWrite or Write alone is the head.
LEMMA LeaveKeepsQueue ==
  ASSUME TypeOK, QueueInv, NEW t \in Threads, pc[t] \in Working, NEW s, LeaveWithout(t, s)
  PROVE  QueueInv' /\ GroupInv' /\ writers_' \in Seq(Threads)
<1>1. writers_[1] = t /\ 1 \in 1..Len(writers_)
  BY TypeParts DEF QueueInv, SyncTypeOK, InQueue
<1>2. {writers_[k] : k \in 1..1} = {t}
  BY <1>1
<1>3. Finish(t, {writers_[k] : k \in 1..1}, s)
  BY <1>2 DEF LeaveWithout
<1> QED  BY <1>1, <1>3, TypeParts, FinishKeepsQueue

\* The head moves on in MakeRoomForWrite, or without the mutex in the log and
\* the memtable.
LEMMA HeadMovesOn ==
  ASSUME TypeOK, QueueInv, GroupInv, NEW t \in Threads,
         RoomDelay(t) \/ DelayOver(t) \/ RoomWait(t) \/ WaitOver(t)
  PROVE  QueueInv' /\ GroupInv'
<1> USE TypeParts
<1>1. PICK to \in {"room", "delay", "bgwait"} :
        /\ pc' = [pc EXCEPT ![t] = to]
        /\ mutex' = IF to = "room" THEN t ELSE Nobody
  BY DEF RoomDelay, DelayOver, RoomWait, WaitOver
<1>2. pc[t] \in Working /\ (mutex = Nobody \/ mutex = t)
  BY DEF RoomDelay, DelayOver, RoomWait, WaitOver, Room, Working
<1>3. writers_[1] = t /\ InQueue(t)
  BY <1>2 DEF QueueInv, InQueue
<1>4. UNCHANGED <<done, writers_, group>>
  BY DEF RoomDelay, DelayOver, RoomWait, WaitOver, OnlyThread
<1>5. to \in ThreadStates /\ to \in Working /\ to \notin Logging
  BY <1>1 DEF ThreadStates, Working, Logging
<1> QED  BY <1>1, <1>2, <1>3, <1>4, <1>5, MoveKeepsQueue

\* The same for the steps without the mutex.
LEMMA LoggerMovesOn ==
  ASSUME TypeOK, QueueInv, GroupInv, NEW t \in Threads,
         AddRecord(t) \/ Sync(t) \/ InsertInto(t)
  PROVE  QueueInv' /\ GroupInv'
<1> USE TypeParts
<1>1. pc[t] \in Logging
  BY DEF AddRecord, Sync, InsertInto, Logging
<1>2. PICK to \in Logging : pc' = [pc EXCEPT ![t] = to]
  <2>1. pc = [pc EXCEPT ![t] = pc[t]]
    BY DEF PcOK
  <2>2. \/ pc' = pc
        \/ \E to \in {"sync", "insert", "relock"} : pc' = [pc EXCEPT ![t] = to]
    BY DEF AddRecord, Sync, InsertInto
  <2> QED  BY <1>1, <2>1, <2>2 DEF Logging
<1>3. UNCHANGED <<done, writers_, group, mutex>>
  BY DEF AddRecord, Sync, InsertInto, OnlyLogging, syncVars
<1>4. \A u \in Threads : pc'[u] \in Logging <=> pc[u] \in Logging
  BY <1>1, <1>2 DEF PcOK
<1>5. \A u \in Threads : u # t => pc'[u] = pc[u]
  BY <1>2 DEF PcOK
<1>6. pc[t] \in Working /\ pc'[t] \in Working /\ pc[t] # "room" /\ pc'[t] # "room"
  BY <1>1, <1>2 DEF PcOK, Working, Logging
<1>7. \A u \in Threads : InQueue(u)' <=> InQueue(u)
  BY <1>3, <1>5, <1>6 DEF InQueue
<1>8. QueueInv'
  BY <1>3, <1>5, <1>6, <1>7 DEF QueueInv
<1>9. GroupInv'
  BY <1>3, <1>4 DEF GroupInv
<1> QED  BY <1>8, <1>9

\* The group that BuildBatchGroup returns is the longest run of writers that
\* may join: it is not empty, and all but the first join.
LEMMA GroupFacts ==
  ASSUME writers_ \in Seq(Threads), Len(writers_) # 0
  PROVE  \E n \in 1..Len(writers_) :
           /\ BuildBatchGroup = SubSeq(writers_, 1, n)
           /\ BuildBatchGroup \in Seq(Threads)
           /\ Len(BuildBatchGroup) = n
           /\ \A k \in 1..n : BuildBatchGroup[k] = writers_[k]
           /\ \A k \in 2..n : Joins(k)
<1> DEFINE len == Len(writers_)
           P(n) == (\A i \in 2..n : Joins(i)) /\ (n < len => ~Joins(n + 1))
           stops == {n \in 1..len : n = len \/ ~Joins(n + 1)}
<1>1. len \in Nat /\ len \in stops
  OBVIOUS
<1>2. PICK n \in stops : \A m \in stops : n <= m
  <2>1. stops \in SUBSET Nat /\ stops # {}
    BY <1>1
  <2> HIDE DEF stops
  <2> QED  BY <2>1, LeastNumber
<1>3. ASSUME NEW i \in 2..n
      PROVE  Joins(i)
  <2>1. i - 1 \in 1..len /\ i - 1 < n /\ i - 1 # len
    BY <1>1
  <2>2. i - 1 \notin stops
    <3>1. n \in Int /\ i - 1 \in Int /\ ~(n <= i - 1)
      BY <1>1, <2>1
    <3> HIDE DEF stops
    <3> QED  BY <1>2, <3>1
  <2>3. Joins((i - 1) + 1)
    BY <2>1, <2>2
  <2>4. (i - 1) + 1 = i
    OBVIOUS
  <2> QED  BY <2>3, <2>4
<1>4. n \in 1..len /\ P(n)
  BY <1>3
<1> DEFINE m == CHOOSE k \in 1..len : P(k)
<1>5. m \in 1..len /\ P(m)
  <2> HIDE DEF P
  <2> QED  BY <1>4
<1>6. BuildBatchGroup = SubSeq(writers_, 1, m)
  BY DEF BuildBatchGroup
<1> HIDE DEF m
<1>7. /\ SubSeq(writers_, 1, m) \in Seq(Threads)
      /\ Len(SubSeq(writers_, 1, m)) = m
      /\ \A k \in 1..m : SubSeq(writers_, 1, m)[k] = writers_[k]
  <2>1. \A i \in 1..m : writers_[i] \in Threads
    BY <1>1, <1>5
  <2>2. /\ SubSeq(writers_, 1, m) \in Seq(Threads)
        /\ Len(SubSeq(writers_, 1, m)) = IF 1 <= m THEN m - 1 + 1 ELSE 0
        /\ \A i \in 1..(m - 1 + 1) : SubSeq(writers_, 1, m)[i] = writers_[1 + i - 1]
    BY <1>5, <2>1, SubSeqProperties
  <2> QED  BY <1>5, <2>2
<1> QED  BY <1>5, <1>6, <1>7

\* The first writer's group is the front of the queue; a call without a batch
\* leaves at once.
LEMMA RoomFoundKeepsQueue ==
  ASSUME TypeOK, QueueInv, GroupInv, NEW t \in Threads, RoomFound(t)
  PROVE  QueueInv' /\ GroupInv' /\ writers_' \in Seq(Threads)
<1> USE TypeParts
<1>1. mutex = t /\ pc[t] = "room" /\ pc[t] \in Working
  BY DEF RoomFound, Room, Working
<1>2. CASE ~op[t].batch
  BY <1>1, <1>2, LeaveKeepsQueue DEF RoomFound
<1>3. CASE op[t].batch
  <2>1. /\ group' = [group EXCEPT ![t] = BuildBatchGroup]
        /\ pc' = [pc EXCEPT ![t] = "append"]
        /\ mutex' = Nobody
        /\ UNCHANGED <<done, writers_>>
    BY <1>3 DEF RoomFound
  <2>2. writers_[1] = t /\ Len(writers_) # 0 /\ writers_ \in Seq(Threads)
    BY <1>1 DEF QueueInv, InQueue, SyncTypeOK
  <2>3. /\ Len(BuildBatchGroup) \in 1..Len(writers_)
        /\ \A k \in 1..Len(BuildBatchGroup) : BuildBatchGroup[k] = writers_[k]
    BY <2>2, GroupFacts
  <2>4. \A u \in Threads : u # t => pc'[u] = pc[u] /\ group'[u] = group[u]
    BY <2>1 DEF PcOK, ThreadTypeOK
  <2>5. pc'[t] = "append" /\ group'[t] = BuildBatchGroup
    BY <2>1 DEF PcOK, ThreadTypeOK
  <2>6. \A u \in Threads : InQueue(u)' <=> InQueue(u)
    BY <1>1, <2>1, <2>4, <2>5 DEF InQueue, Working, Logging
  <2>7. \A u \in Threads : pc'[u] \in Working => pc[u] \in Working
    BY <1>1, <2>4
  <2>8. \A u \in Threads : pc'[u] = "room" <=> mutex' = u
    BY <1>1, <2>1, <2>4, <2>5, ConstantFacts DEF QueueInv
  <2>9. QueueInv'
    BY <2>1, <2>6, <2>7, <2>8 DEF QueueInv
  <2>10. \A u \in Threads \ {t} : pc'[u] \in Logging => pc[u] \in Logging
    BY <2>4
  <2> HIDE DEF Working
  <2>11. GroupInv'
    <3> SUFFICES ASSUME NEW u \in Threads, pc'[u] \in Logging
                 PROVE  /\ Len(group'[u]) \in 1..Len(writers_)
                        /\ \A k \in 1..Len(group'[u]) : group'[u][k] = writers_[k]
      BY <2>1 DEF GroupInv
    <3>1. CASE u = t
      BY <2>3, <2>5, <3>1
    <3>2. CASE u # t
      BY <2>4, <2>10, <3>2 DEF GroupInv
    <3> QED  BY <3>1, <3>2
  <2> QED  BY <2>1, <2>2, <2>9, <2>11
<1> QED  BY <1>2, <1>3

\* The members of the group that leaves are the first writers of the queue.
LEMMA GroupMembers ==
  ASSUME TypeOK, GroupInv, NEW t \in Threads, pc[t] \in Logging
  PROVE  /\ Len(group[t]) \in 1..Len(writers_)
         /\ DOMAIN group[t] = 1..Len(group[t])
         /\ {group[t][k] : k \in DOMAIN group[t]} = {writers_[k] : k \in 1..Len(group[t])}
<1>1. group[t] \in Seq(Threads)
  BY TypeParts DEF ThreadTypeOK
<1>2. DOMAIN group[t] = 1..Len(group[t])
  BY <1>1
<1> QED  BY <1>2 DEF GroupInv

\* The group leaves the queue.
LEMMA GroupDoneKeepsQueue ==
  ASSUME TypeOK, QueueInv, GroupInv, NEW t \in Threads, GroupDone(t)
  PROVE  QueueInv' /\ GroupInv' /\ writers_' \in Seq(Threads)
<1>1. pc[t] \in Logging /\ pc[t] \in Working
  BY DEF GroupDone, Logging, Working
<1> DEFINE n == Len(group[t])
           s == IF status[t] = "ok" THEN "ok" ELSE "error"
<1>2. n \in 1..Len(writers_) /\ {group[t][k] : k \in DOMAIN group[t]} = {writers_[k] : k \in 1..n}
  BY <1>1, GroupMembers
<1>3. Finish(t, {writers_[k] : k \in 1..n}, s)
  BY <1>2 DEF GroupDone
<1> HIDE DEF n, s
<1> QED  BY <1>1, <1>2, <1>3, TypeParts, FinishKeepsQueue

\* A thread that waits for imm_ is not in the queue.
LEMMA ImmWaitKeepsQueue ==
  ASSUME TypeOK, QueueInv, GroupInv, NEW t \in Threads, ImmWait(t)
  PROVE  QueueInv' /\ GroupInv'
<1> USE TypeParts
<1>1. /\ mutex = Nobody /\ pc[t] = "immwait"
      /\ UNCHANGED <<done, writers_, mutex, group>>
      /\ pc' = pc \/ pc' = [pc EXCEPT ![t] = "idle"]
  BY DEF ImmWait
<1>2. \A u \in Threads : pc'[u] = pc[u] \/ (u = t /\ pc'[u] = "idle")
  BY <1>1 DEF PcOK
<1>3. \A u \in Threads : pc'[u] \in Working => pc'[u] = pc[u]
  BY <1>2 DEF Working, Logging
<1>4. \A u \in Threads : InQueue(u)' <=> InQueue(u)
  BY <1>1, <1>2 DEF InQueue, Working, Logging
<1>5. \A u \in Threads : pc'[u] = "room" <=> pc[u] = "room"
  BY <1>1, <1>2
<1>6. QueueInv'
  BY <1>1, <1>3, <1>4, <1>5 DEF QueueInv
<1>7. GroupInv'
  BY <1>1, <1>3 DEF GroupInv, Working
<1> QED  BY <1>6, <1>7

\* A crash leaves an empty queue.
LEMMA CrashKeepsQueue ==
  ASSUME NEW kind, Crash(kind)
  PROVE  QueueInv' /\ GroupInv' /\ writers_' \in Seq(Threads)
<1>1. /\ pc' = [t \in Threads |-> "idle"] /\ writers_' = <<>> /\ mutex' = Nobody
      /\ done' = [t \in Threads |-> FALSE]
  BY DEF Crash
<1>2. \A t \in Threads : ~InQueue(t)' /\ pc'[t] \notin Working /\ pc'[t] # "room"
  BY <1>1 DEF InQueue, Working, Logging
<1> QED  BY <1>1, <1>2, ConstantFacts DEF QueueInv, GroupInv, Working

\* The background thread and DB::Open leave the queue alone.
LEMMA OthersKeepQueue ==
  ASSUME background \/ Open
  PROVE  UNCHANGED QueueVars
<1>1. ASSUME OnlyBackground
      PROVE  UNCHANGED QueueVars
  BY <1>1 DEF OnlyBackground, threadVars, QueueVars
<1>2. background => OnlyBackground
  BY DEF background, BackgroundCall, BuildTable, WriteManifest, InstallMemTable,
         InstallMemTableFailed, MergeFindsImm, MergeDone, InstallMerge, MergeFailed
<1>3. Open => UNCHANGED QueueVars
  BY DEF Open, threadVars, syncVars, QueueVars
<1> QED  BY <1>1, <1>2, <1>3

\* Only the failing branch of a switch touches the queue.
LEMMA SwitchOrErrorKeepsQueue ==
  ASSUME TypeOK, QueueInv, GroupInv, NEW t \in Threads, RoomSwitch(t) \/ RoomError(t)
  PROVE  QueueInv' /\ GroupInv' /\ writers_' \in Seq(Threads)
<1>1. pc[t] \in Working
  BY DEF RoomSwitch, RoomError, Room, Working
<1>2. \/ LeaveWithout(t, "error")
      \/ UNCHANGED <<pc, done, group, syncVars>>
  BY DEF RoomSwitch, RoomError
<1>3. CASE LeaveWithout(t, "error")
  BY <1>1, <1>3, LeaveKeepsQueue
<1>4. CASE UNCHANGED <<pc, done, group, syncVars>>
  <2>1. UNCHANGED QueueVars
    BY <1>4 DEF syncVars, QueueVars
  <2> QED  BY <2>1, TypeParts, QueueUnchanged DEF QueueVars, SyncTypeOK
<1> QED  BY <1>2, <1>3, <1>4

\* Every step keeps the queue and the groups.
LEMMA QueueInductive ==
  ASSUME TypeOK, QueueInv, GroupInv, [Next]_vars
  PROVE  QueueInv' /\ GroupInv'
<1>1. ASSUME NEW t \in Threads, NEW sync, NEW batch, Write(t, sync, batch)
      PROVE  QueueInv' /\ GroupInv'
  BY <1>1, TypeParts, EnterKeepsQueue
<1>2. ASSUME NEW t \in Threads, goOn(t)
      PROVE  QueueInv' /\ GroupInv'
  BY <1>2, WakeKeepsQueue, HeadMovesOn, LoggerMovesOn, RoomFoundKeepsQueue,
     GroupDoneKeepsQueue, ImmWaitKeepsQueue, SwitchOrErrorKeepsQueue DEF goOn
<1>3. ASSUME background \/ Open
      PROVE  QueueInv' /\ GroupInv'
  BY <1>3, OthersKeepQueue, QueueUnchanged
<1>4. ASSUME NEW kind, Crash(kind)
      PROVE  QueueInv' /\ GroupInv'
  BY <1>4, CrashKeepsQueue
<1>5. CASE UNCHANGED vars
  <2>1. UNCHANGED QueueVars
    BY <1>5 DEF vars, threadVars, syncVars, QueueVars
  <2> QED  BY <2>1, QueueUnchanged
<1> QED  BY <1>1, <1>2, <1>3, <1>4, <1>5 DEF Next

-----------------------------------------------------------------------------
(* The numbers of the calls.                                               *)

\* A call gets the next number; the others keep theirs until they return.
LEMMA CallsInductive ==
  ASSUME ThreadTypeOK, HistoryTypeOK, CallInv, [Next]_vars
  PROVE  CallInv'
<1>1. ASSUME NEW t \in Threads, NEW sync, NEW batch, Write(t, sync, batch)
      PROVE  CallInv'
  <2>1. /\ calls' = calls + 1
        /\ op' = [op EXCEPT ![t] = [id |-> calls + 1, sync |-> sync, batch |-> batch]]
        /\ \A u \in Threads : u # t => pc'[u] = pc[u]
    BY <1>1 DEF Write, Enter, ThreadTypeOK
  <2>2. calls \in Nat
    BY ConstantFacts DEF HistoryTypeOK
  <2>3. op'[t].id = calls + 1 /\ \A u \in Threads : u # t => op'[u] = op[u]
    BY <2>1 DEF ThreadTypeOK
  <2>4. \A u \in Threads : op[u].id \in Nat /\ op[u].id <= calls
    BY DEF CallInv, ThreadTypeOK
  <2>5. \A u \in Threads : op'[u].id <= calls' /\ (pc'[u] # "idle" => op'[u].id # 0)
    BY <2>1, <2>2, <2>3, <2>4 DEF CallInv
  <2>6. \A u, v \in Threads : op'[u].id = op'[v].id /\ op'[u].id # 0 => u = v
    BY <2>2, <2>3, <2>4 DEF CallInv
  <2> QED  BY <2>5, <2>6 DEF CallInv
<1>2. ASSUME UNCHANGED <<op, calls>>, \A u \in Threads : pc'[u] = "idle" \/ pc[u] # "idle"
      PROVE  CallInv'
  BY <1>2 DEF CallInv
<1>3. ASSUME NEW t \in Threads, goOn(t)
      PROVE  CallInv'
  <2>1. UNCHANGED <<op, calls>>
    BY <1>3 DEF goOn, Wake, RoomError, LeaveWithout, RoomDelay, DelayOver, RoomWait,
           WaitOver, OnlyThread, RoomSwitch, RoomFound, AddRecord, Sync, InsertInto,
           OnlyLogging, GroupDone, ImmWait, boundVars
  <2>2. pc[t] # "idle"
    BY <1>3 DEF goOn, Wake, RoomError, RoomDelay, DelayOver, RoomWait, WaitOver, Room,
           RoomSwitch, RoomFound, AddRecord, Sync, InsertInto, GroupDone, ImmWait
  <2>3. \/ pc' = pc
        \/ \E to : pc' = [pc EXCEPT ![t] = to]
    BY <1>3 DEF goOn, Wake, RoomError, LeaveWithout, RoomDelay, DelayOver, RoomWait,
           WaitOver, RoomSwitch, RoomFound, AddRecord, Sync, InsertInto,
           GroupDone, ImmWait, Finish, Return
  <2>4. \A u \in Threads : pc'[u] = "idle" \/ pc[u] # "idle"
    BY <2>2, <2>3 DEF ThreadTypeOK
  <2> QED  BY <1>2, <2>1, <2>4
<1>4. ASSUME background \/ Open
      PROVE  CallInv'
  <2>1. UNCHANGED <<op, calls, pc>>
    BY <1>4, OthersKeepQueue DEF QueueVars, background, BackgroundCall, BuildTable,
       WriteManifest, InstallMemTable, InstallMemTableFailed, MergeFindsImm, MergeDone,
       InstallMerge, MergeFailed, OnlyBackground, Open, threadVars, boundVars
  <2> QED  BY <1>2, <2>1
<1>5. ASSUME NEW kind, Crash(kind)
      PROVE  CallInv'
  BY <1>5, ConstantFacts DEF Crash, CallInv, NoCall, HistoryTypeOK
<1>6. CASE UNCHANGED vars
  BY <1>2, <1>6 DEF vars, threadVars, boundVars
<1> QED  BY <1>1, <1>3, <1>4, <1>5, <1>6 DEF Next

-----------------------------------------------------------------------------
(* Types.                                                                  *)

\* The types that the end of a Write changes.
LEMMA FinishTypes ==
  ASSUME TypeOK, CallInv, NEW t \in Threads, pc[t] # "idle",
         NEW s \in {"ok", "error"}, NEW members, Finish(t, members, s)
  PROVE  /\ pc' \in [Threads -> ThreadStates] /\ done' \in [Threads -> BOOLEAN]
         /\ status' \in [Threads -> {"ok", "error", "sync error"}]
         /\ mutex' \in Threads \cup {Nobody}
         /\ sleeping' \subseteq Threads /\ acked' \subseteq Calls
<1> USE TypeParts
<1>1. pc' \in [Threads -> ThreadStates]
  BY DEF Finish, Return, PcOK, ThreadStates
<1>2. done' \in [Threads -> BOOLEAN]
  BY DEF Finish
<1>3. status' \in [Threads -> {"ok", "error", "sync error"}]
  BY DEF Finish, ThreadTypeOK
<1>4. sleeping' \subseteq Threads /\ mutex' = Nobody
  BY DEF Finish, SyncTypeOK
<1>5. acked' \subseteq Calls
  <2>1. op[t].id \in Calls /\ acked \subseteq Calls
    BY CallNumber DEF HistoryTypeOK
  <2> QED  BY <2>1 DEF Finish, Return
<1> QED  BY <1>1, <1>2, <1>3, <1>4, <1>5

\* A writer that leaves with no batch keeps the types.
LEMMA LeaveTypes ==
  ASSUME TypeOK, QueueInv, CallInv, NEW t \in Threads, pc[t] = "room",
         NEW s \in {"ok", "error"}, LeaveWithout(t, s)
  PROVE  ThreadTypeOK' /\ SyncTypeOK' /\ acked' \subseteq Calls
<1> USE TypeParts
<1>1. Finish(t, {t}, s) /\ pc[t] # "idle"
  BY DEF LeaveWithout
<1>2. writers_' \in Seq(Threads)
  BY LeaveKeepsQueue DEF Working
<1>3. UNCHANGED <<op, allow_delay, force, group, bgSleeping>>
  BY DEF LeaveWithout
<1>4. /\ pc' \in [Threads -> ThreadStates] /\ done' \in [Threads -> BOOLEAN]
      /\ status' \in [Threads -> {"ok", "error", "sync error"}]
      /\ mutex' \in Threads \cup {Nobody}
      /\ sleeping' \subseteq Threads /\ acked' \subseteq Calls
  BY <1>1, FinishTypes
<1>5. ThreadTypeOK'
  BY <1>3, <1>4 DEF ThreadTypeOK
<1>6. SyncTypeOK'
  BY <1>2, <1>3, <1>4 DEF SyncTypeOK
<1> QED  BY <1>4, <1>5, <1>6

\* The types of the threads' variables.
LEMMA ThreadTypes ==
  ASSUME TypeOK, QueueInv, GroupInv, CallInv, [Next]_vars
  PROVE  ThreadTypeOK'
<1> USE TypeParts
<1>1. ASSUME NEW t \in Threads, NEW sync \in BOOLEAN, NEW batch \in BOOLEAN,
             Write(t, sync, batch)
      PROVE  ThreadTypeOK'
  <2>1. calls + 1 \in Nat
    BY DEF HistoryTypeOK
  <2> QED  BY <1>1, <2>1 DEF Write, Enter, ThreadTypeOK, ThreadStates
<1>2. ASSUME NEW t \in Threads,
             Wake(t) \/ RoomDelay(t) \/ DelayOver(t) \/ RoomWait(t) \/ WaitOver(t) \/ ImmWait(t)
      PROVE  ThreadTypeOK'
  <2>1. UNCHANGED <<op, force, done, group>>
    BY <1>2 DEF Wake, RoomDelay, DelayOver, RoomWait, WaitOver, ImmWait, OnlyThread
  <2>2. allow_delay' = allow_delay \/ allow_delay' = [allow_delay EXCEPT ![t] = FALSE]
    BY <1>2 DEF Wake, RoomDelay, DelayOver, RoomWait, WaitOver, ImmWait, OnlyThread
  <2>3. \/ pc' = pc
        \/ \E to \in {"idle", "immwait", "room", "delay", "bgwait"} : pc' = [pc EXCEPT ![t] = to]
    BY <1>2 DEF Wake, Return, RoomDelay, DelayOver, RoomWait, WaitOver, ImmWait
  <2>4. \/ status' = status
        \/ \E s \in {"ok", "error"} : status' = [status EXCEPT ![t] = s]
    BY <1>2 DEF Wake, Return, RoomDelay, DelayOver, RoomWait, WaitOver, ImmWait, OnlyThread
  <2> QED  BY ZenonT(30), <2>1, <2>2, <2>3, <2>4 DEF ThreadTypeOK, ThreadStates
<1>3. ASSUME NEW t \in Threads, RoomError(t) \/ RoomSwitch(t)
      PROVE  ThreadTypeOK'
  <2>1. pc[t] = "room"
    BY <1>3 DEF RoomError, RoomSwitch, Room
  <2>2. \/ LeaveWithout(t, "error")
        \/ force' = [force EXCEPT ![t] = FALSE] /\ UNCHANGED <<pc, op, allow_delay, done, status, group>>
    BY <1>3 DEF RoomError, RoomSwitch
  <2>3. CASE LeaveWithout(t, "error")
    BY <2>1, <2>3, LeaveTypes
  <2>4. CASE force' = [force EXCEPT ![t] = FALSE] /\ UNCHANGED <<pc, op, allow_delay, done, status, group>>
    BY <2>4 DEF ThreadTypeOK
  <2> QED  BY <2>2, <2>3, <2>4
<1>4. ASSUME NEW t \in Threads, RoomFound(t)
      PROVE  ThreadTypeOK'
  <2>1. pc[t] = "room" /\ mutex = t
    BY <1>4 DEF RoomFound, Room
  <2>2. CASE ~op[t].batch
    BY <1>4, <2>1, <2>2, LeaveTypes DEF RoomFound
  <2>3. CASE op[t].batch
    <3>1. BuildBatchGroup \in Seq(Threads)
      BY <2>1, GroupFacts DEF QueueInv, SyncTypeOK, InQueue, Working
    <3>2. /\ group' = [group EXCEPT ![t] = BuildBatchGroup]
          /\ pc' = [pc EXCEPT ![t] = "append"]
          /\ UNCHANGED <<op, allow_delay, force, done, status>>
      BY <1>4, <2>3 DEF RoomFound
    <3> HIDE DEF BuildBatchGroup
    <3> QED  BY <3>1, <3>2 DEF ThreadTypeOK, ThreadStates
  <2> QED  BY <2>2, <2>3
<1>5. ASSUME NEW t \in Threads, AddRecord(t) \/ Sync(t) \/ InsertInto(t)
      PROVE  ThreadTypeOK'
  <2>1. UNCHANGED <<op, allow_delay, force, done, group>>
    BY <1>5 DEF AddRecord, Sync, InsertInto, OnlyLogging
  <2>2. \/ pc' = pc
        \/ \E to \in {"sync", "insert", "relock"} : pc' = [pc EXCEPT ![t] = to]
    BY <1>5 DEF AddRecord, Sync, InsertInto
  <2>3. \/ status' = status
        \/ \E s \in {"ok", "error", "sync error"} : status' = [status EXCEPT ![t] = s]
    BY <1>5 DEF AddRecord, Sync, InsertInto
  <2> QED  BY <2>1, <2>2, <2>3 DEF ThreadTypeOK, ThreadStates
<1>6. ASSUME NEW t \in Threads, GroupDone(t)
      PROVE  ThreadTypeOK'
  <2> DEFINE members == {group[t][k] : k \in DOMAIN group[t]}
             s == IF status[t] = "ok" THEN "ok" ELSE "error"
  <2>1. Finish(t, members, s) /\ pc[t] # "idle" /\ s \in {"ok", "error"}
    BY <1>6 DEF GroupDone
  <2> HIDE DEF members, s
  <2>2. /\ pc' \in [Threads -> ThreadStates] /\ done' \in [Threads -> BOOLEAN]
        /\ status' \in [Threads -> {"ok", "error", "sync error"}]
    BY <2>1, FinishTypes
  <2>3. UNCHANGED <<op, allow_delay, force>> /\ group' = [group EXCEPT ![t] = <<>>]
    BY <1>6 DEF GroupDone
  <2>4. <<>> \in Seq(Threads)
    OBVIOUS
  <2> QED  BY <2>2, <2>3, <2>4 DEF ThreadTypeOK
<1>7. ASSUME UNCHANGED threadVars
      PROVE  ThreadTypeOK'
  BY <1>7 DEF threadVars, ThreadTypeOK
<1>8. ASSUME background \/ Open
      PROVE  ThreadTypeOK'
  <2>1. UNCHANGED threadVars
    BY <1>8 DEF background, BackgroundCall, BuildTable, WriteManifest, InstallMemTable,
       InstallMemTableFailed, MergeFindsImm, MergeDone, InstallMerge, MergeFailed,
       OnlyBackground, Open
  <2> QED  BY <1>7, <2>1
<1>9. ASSUME NEW kind, Crash(kind)
      PROVE  ThreadTypeOK'
  <2>1. <<>> \in Seq(Threads)
    OBVIOUS
  <2> QED  BY <1>9, <2>1 DEF Crash, ThreadTypeOK, ThreadStates, NoCall
<1>10. CASE UNCHANGED vars
  BY <1>7, <1>10 DEF vars
<1> QED  BY <1>1, <1>2, <1>3, <1>4, <1>5, <1>6, <1>8, <1>9, <1>10 DEF Next, goOn

\* The types of the queue and of the threads that sleep.
LEMMA SyncTypes ==
  ASSUME TypeOK, QueueInv, GroupInv, CallInv, [Next]_vars
  PROVE  SyncTypeOK'
<1> USE TypeParts
<1>1. ASSUME NEW t \in Threads, NEW sync, NEW batch, Write(t, sync, batch)
      PROVE  SyncTypeOK'
  BY <1>1 DEF Write, Enter, SyncTypeOK
<1>2. ASSUME NEW t \in Threads,
             Wake(t) \/ RoomDelay(t) \/ DelayOver(t) \/ RoomWait(t) \/ WaitOver(t) \/ ImmWait(t)
      PROVE  SyncTypeOK'
  <2>1. UNCHANGED <<writers_, sleeping>>
    BY <1>2 DEF Wake, RoomDelay, DelayOver, RoomWait, WaitOver, ImmWait, OnlyThread
  <2>2. mutex' = mutex \/ mutex' = t \/ mutex' = Nobody
    BY <1>2 DEF Wake, RoomDelay, DelayOver, RoomWait, WaitOver, ImmWait
  <2>3. bgSleeping' = bgSleeping \/ bgSleeping' = bgSleeping \cup {t}
    BY <1>2 DEF Wake, RoomDelay, DelayOver, RoomWait, WaitOver, ImmWait
  <2> QED  BY <2>1, <2>2, <2>3 DEF SyncTypeOK
<1>3. ASSUME NEW t \in Threads, RoomError(t) \/ RoomSwitch(t)
      PROVE  SyncTypeOK'
  <2>1. pc[t] = "room"
    BY <1>3 DEF RoomError, RoomSwitch, Room
  <2>2. LeaveWithout(t, "error") \/ UNCHANGED syncVars
    BY <1>3 DEF RoomError, RoomSwitch
  <2> QED  BY <2>1, <2>2, LeaveTypes DEF syncVars, SyncTypeOK
<1>4. ASSUME NEW t \in Threads, RoomFound(t)
      PROVE  SyncTypeOK'
  <2>1. pc[t] = "room"
    BY <1>4 DEF RoomFound, Room
  <2>2. \/ LeaveWithout(t, "ok")
        \/ mutex' = Nobody /\ UNCHANGED <<writers_, sleeping, bgSleeping>>
    BY <1>4 DEF RoomFound
  <2> QED  BY <2>1, <2>2, LeaveTypes DEF SyncTypeOK
<1>5. ASSUME UNCHANGED syncVars
      PROVE  SyncTypeOK'
  BY <1>5 DEF syncVars, SyncTypeOK
<1>6. ASSUME NEW t \in Threads, AddRecord(t) \/ Sync(t) \/ InsertInto(t)
      PROVE  SyncTypeOK'
  <2>1. UNCHANGED syncVars
    BY <1>6 DEF AddRecord, Sync, InsertInto, OnlyLogging
  <2> QED  BY <1>5, <2>1
<1>7. ASSUME NEW t \in Threads, GroupDone(t)
      PROVE  SyncTypeOK'
  <2> DEFINE members == {group[t][k] : k \in DOMAIN group[t]}
             s == IF status[t] = "ok" THEN "ok" ELSE "error"
  <2>1. Finish(t, members, s) /\ pc[t] # "idle" /\ s \in {"ok", "error"}
    BY <1>7 DEF GroupDone
  <2> HIDE DEF members, s
  <2>2. mutex' \in Threads \cup {Nobody} /\ sleeping' \subseteq Threads
    BY <2>1, FinishTypes
  <2>3. writers_' \in Seq(Threads)
    BY <1>7, GroupDoneKeepsQueue
  <2>4. bgSleeping' = bgSleeping \/ bgSleeping' = {}
    BY <1>7 DEF GroupDone, RecordBackgroundError
  <2> QED  BY <2>2, <2>3, <2>4 DEF SyncTypeOK
<1>8. ASSUME background
      PROVE  SyncTypeOK'
  <2>1. UNCHANGED <<mutex, writers_, sleeping>>
    BY <1>8 DEF background, BackgroundCall, BuildTable, WriteManifest, InstallMemTable,
       InstallMemTableFailed, MergeFindsImm, MergeDone, InstallMerge, MergeFailed,
       OnlyBackground
  <2>2. bgSleeping' = bgSleeping \/ bgSleeping' = {}
    BY <1>8 DEF background, BackgroundCall, BuildTable, WriteManifest, InstallMemTable,
       InstallMemTableFailed, MergeFindsImm, MergeDone, InstallMerge, MergeFailed,
       EndBackgroundCall, ReturnFromCompactMemTable
  <2> QED  BY <2>1, <2>2 DEF SyncTypeOK
<1>9. ASSUME NEW kind, Crash(kind)
      PROVE  SyncTypeOK'
  BY <1>9 DEF Crash, SyncTypeOK
<1>10. CASE UNCHANGED vars \/ Open
  BY <1>5, <1>10 DEF vars, Open
<1> QED  BY <1>1, <1>2, <1>3, <1>4, <1>6, <1>7, <1>8, <1>9, <1>10 DEF Next, goOn

\* Numbers given to finitely many calls have a bound.
LEMMA BoundedNumbers ==
  ASSUME NEW N \in Nat, NEW f, \A i \in 1..N : f[i] \in Nat
  PROVE  \E b \in Nat : \A i \in 1..N : f[i] <= b
<1> DEFINE B(n) == \E b \in Nat : \A i \in 1..n : f[i] <= b
           S == {n \in 0..N : ~B(n)}
<1>1. S = {}
  <2> SUFFICES ASSUME S # {}
               PROVE  FALSE
    OBVIOUS
  <2>1. PICK n \in S : \A m \in S : n <= m
    <3>1. S \in SUBSET Nat /\ S # {}
      OBVIOUS
    <3> HIDE DEF S
    <3> QED  BY <3>1, LeastNumber
  <2>2. B(0)
    <3>1. 0 \in Nat /\ \A i \in 1..0 : f[i] <= 0
      OBVIOUS
    <3> QED  BY <3>1
  <2>3. n # 0 /\ n \in 0..N /\ ~B(n)
    BY <2>2
  <2>4. n - 1 \in 0..N /\ ~(n <= n - 1)
    BY <2>3
  <2>5. B(n - 1)
    <3>1. n - 1 \notin S
      <4> HIDE DEF S
      <4> QED  BY <2>1, <2>4
    <3> QED  BY <2>4, <3>1
  <2>6. PICK b \in Nat : \A i \in 1..(n - 1) : f[i] <= b
    BY <2>5
  <2>7. n \in 1..N /\ f[n] \in Nat
    BY <2>3
  <2> DEFINE c == IF f[n] <= b THEN b ELSE f[n]
  <2>8. c \in Nat /\ b <= c /\ f[n] <= c
    BY <2>7
  <2>9. \A i \in 1..n : f[i] <= c
    <3> SUFFICES ASSUME NEW i \in 1..n
                 PROVE  f[i] <= c
      OBVIOUS
    <3>1. CASE i = n
      BY <2>8, <3>1
    <3>2. CASE i # n
      <4>1. i \in 1..(n - 1) /\ i \in 1..N
        BY <2>3, <3>2
      <4>2. f[i] <= b /\ f[i] \in Nat
        BY <2>6, <4>1
      <4> HIDE DEF c
      <4> QED  BY <2>8, <4>2
    <3> QED  BY <3>1, <3>2
  <2> HIDE DEF c
  <2> QED  BY <2>3, <2>8, <2>9
<1>2. N \in 0..N
  OBVIOUS
<1> QED  BY <1>1, <1>2

\* Recover's last sequence number is the largest there is.
LEMMA RecoveredFacts ==
  ASSUME HistoryTypeOK, manifest.sequence \in Nat, NEW ids \in SUBSET Calls
  PROVE  /\ RecoveredSequence(ids) \in Nat
         /\ manifest.sequence <= RecoveredSequence(ids)
         /\ \A i \in ids : sequence[i] + BatchCount - 1 <= RecoveredSequence(ids)
<1> DEFINE last == {sequence[i] + BatchCount - 1 : i \in ids} \cup {manifest.sequence}
<1>1. last \subseteq Nat
  BY ConstantFacts DEF HistoryTypeOK
<1>2. PICK b \in Nat : \A m \in last : m <= b
  <2>1. PICK c \in Nat : \A i \in Calls : sequence[i] <= c
    BY ConstantFacts, BoundedNumbers DEF HistoryTypeOK, Calls
  <2> DEFINE d == c + BatchCount + manifest.sequence
  <2>2. d \in Nat /\ \A m \in last : m <= d
    BY <2>1, ConstantFacts DEF HistoryTypeOK
  <2> HIDE DEF d, last
  <2> QED  BY <2>2
<1> DEFINE gaps == {b - m : m \in last}
<1>3. PICK g \in gaps : \A h \in gaps : g <= h
  <2>1. gaps \in SUBSET Nat /\ gaps # {}
    <3>1. \A m \in last : b - m \in Nat
      <4> HIDE DEF last
      <4> QED  BY <1>1, <1>2
    <3>2. manifest.sequence \in last
      OBVIOUS
    <3> HIDE DEF last
    <3> QED  BY <3>1, <3>2
  <2> HIDE DEF gaps
  <2> QED  BY <2>1, LeastNumber
<1>4. PICK n \in last : g = b - n
  OBVIOUS
<1>5. \A m \in last : m <= n
  <2> SUFFICES ASSUME NEW m \in last
               PROVE  m <= n
    OBVIOUS
  <2>1. b - n <= b - m
    BY <1>3, <1>4
  <2>2. m \in Nat /\ n \in Nat
    BY <1>1
  <2> HIDE DEF last, gaps
  <2> QED  BY <2>1, <2>2
<1> DEFINE r == CHOOSE k \in last : \A m \in last : m <= k
<1>6. r \in last /\ \A m \in last : m <= r
  <2> HIDE DEF last
  <2> QED  BY <1>5
<1>7. RecoveredSequence(ids) = r
  BY DEF RecoveredSequence
<1> HIDE DEF r
<1> QED  BY <1>1, <1>6, <1>7

-----------------------------------------------------------------------------
(* The background thread and its numbers.                                  *)

BackgroundVars == <<bgpc, nested, inputs, edit, imm_, numLevel0, manifest, open>>

\* The numbers that the background thread calculates with.
LEMMA BackgroundNumbers ==
  ASSUME TypeOK
  PROVE  /\ inputs \in Nat /\ numLevel0 \in Nat /\ manifest.level0 \in Nat
         /\ edit.removed \in Nat /\ edit.added \in {0, 1}
         /\ nested \in BOOLEAN /\ bg_error_ \in BOOLEAN /\ open \in BOOLEAN
BY TypeParts DEF BackgroundTypeOK, DataTypeOK, DescriptorType

\* Threads leave the background thread alone, except for its scheduling when
\* they switch the memtable; they may record an error.
LEMMA ThreadsLeaveBackground ==
  ASSUME TypeOK, NEW t \in Threads,
         \/ goOn(t) /\ ~(RoomSwitch(t) /\ mem_' = {} /\ imm_' = mem_)
         \/ \E sync, batch : Write(t, sync, batch)
  PROVE  UNCHANGED BackgroundVars /\ (bg_error_' = bg_error_ \/ bg_error_' = TRUE)
<1>1. CASE \E sync, batch : Write(t, sync, batch)
  BY <1>1 DEF Write, Enter, bgVars, memVars, versionVars, BackgroundVars
<1>2. CASE Wake(t) \/ RoomDelay(t) \/ DelayOver(t) \/ RoomWait(t) \/ WaitOver(t) \/ ImmWait(t)
  BY <1>2 DEF Wake, RoomDelay, DelayOver, RoomWait, WaitOver, OnlyThread, ImmWait,
     bgVars, memVars, versionVars, BackgroundVars
<1>3. CASE RoomError(t) \/ RoomFound(t) \/ (RoomSwitch(t) /\ ~(mem_' = {} /\ imm_' = mem_))
  BY <1>3 DEF RoomError, RoomFound, RoomSwitch, LeaveWithout, bgVars, memVars, versionVars,
     BackgroundVars
<1>4. CASE AddRecord(t) \/ Sync(t) \/ InsertInto(t)
  BY <1>4 DEF AddRecord, Sync, InsertInto, OnlyLogging, bgVars, versionVars, BackgroundVars
<1>5. CASE GroupDone(t)
  BY <1>5 DEF GroupDone, RecordBackgroundError, bgVars, memVars, BackgroundVars
<1> QED  BY <1>1, <1>2, <1>3, <1>4, <1>5 DEF goOn

\* Such steps keep the background invariant and types.
LEMMA BackgroundUntouched ==
  ASSUME TypeOK, BackgroundInv, UNCHANGED BackgroundVars,
         bg_error_' = bg_error_ \/ bg_error_' = TRUE
  PROVE  BackgroundInv' /\ BackgroundTypeOK'
<1>1. BackgroundTypeOK'
  BY TypeParts DEF BackgroundTypeOK, BackgroundVars
<1>2. BackgroundInv'
  BY BackgroundNumbers DEF BackgroundInv, BackgroundVars
<1> QED  BY <1>1, <1>2

\* MaybeScheduleCompaction schedules what there is to do.
LEMMA ScheduledFacts ==
  ASSUME NEW bg, NEW error \in BOOLEAN, NEW imm, NEW level0 \in Nat
  PROVE  /\ Scheduled(bg, error, imm, level0) \in {bg, "scheduled"}
         /\ Scheduled(bg, error, imm, level0) # bg =>
              bg = "idle" /\ ~error /\ (imm # NoImm \/ level0 >= 1)
<1>1. ~(level0 < L0_CompactionTrigger) => level0 >= 1
  BY ConstantFacts
<1> QED  BY <1>1 DEF Scheduled

\* A switch of memtables gives the background thread the old one.
LEMMA SwitchKeepsBackground ==
  ASSUME TypeOK, BackgroundInv, NEW t \in Threads, RoomSwitch(t), mem_' = {}, imm_' = mem_,
         UNCHANGED <<nested, inputs, edit, bg_error_, numLevel0, manifest, open>>,
         bgpc' = Scheduled(bgpc, bg_error_, mem_, numLevel0)
  PROVE  BackgroundInv' /\ BackgroundTypeOK'
<1>1. imm_' # NoImm /\ imm_ = NoImm
  <2>1. mem_ # NoImm
    BY TypeParts, NoImmIsNoTable DEF DataTypeOK
  <2> QED  BY <2>1 DEF RoomSwitch, MustWait
<1>2. bgpc' = bgpc \/ (bgpc = "idle" /\ bgpc' = "scheduled")
  BY BackgroundNumbers, ScheduledFacts
<1>3. BackgroundTypeOK'
  BY <1>2, TypeParts DEF BackgroundTypeOK
<1>4. BackgroundInv'
  BY <1>1, <1>2, BackgroundNumbers DEF BackgroundInv
<1> QED  BY <1>3, <1>4

\* What a step that ends a memtable compaction or BackgroundCall does to bgpc.
LEMMA ReturnFacts ==
  ASSUME TypeOK, NEW error \in BOOLEAN, NEW imm, NEW level0 \in Nat,
         ReturnFromCompactMemTable(error, imm, level0)
  PROVE  /\ ~nested'
         /\ \/ nested /\ bgpc' = "merging"
            \/ ~nested /\ bgpc' \in {"idle", "scheduled"}
         /\ bgpc' = "scheduled" => ~error /\ (imm # NoImm \/ level0 >= 1)
<1>1. Scheduled("idle", error, imm, level0) \in {"idle", "scheduled"}
  BY ScheduledFacts
<1>2. Scheduled("idle", error, imm, level0) = "scheduled" =>
        ~error /\ (imm # NoImm \/ level0 >= 1)
  BY ScheduledFacts
<1> QED  BY <1>1, <1>2 DEF ReturnFromCompactMemTable, EndBackgroundCall

\* The same for the end of BackgroundCall alone.
LEMMA EndCallFacts ==
  ASSUME NEW error \in BOOLEAN, NEW imm, NEW level0 \in Nat,
         EndBackgroundCall(error, imm, level0)
  PROVE  /\ bgpc' \in {"idle", "scheduled"}
         /\ bgpc' = "scheduled" => ~error /\ (imm # NoImm \/ level0 >= 1)
BY ScheduledFacts DEF EndBackgroundCall

\* A closed database has no background thread.
LEMMA BackgroundIsOpen ==
  ASSUME TypeOK, ClosedInv, bgpc # "idle"
  PROVE  open
BY DEF ClosedInv

\* Background steps: what they do to the thread's own state.
LEMMA BackgroundCallKeeps ==
  ASSUME TypeOK, BackgroundInv, ClosedInv, BackgroundCall
  PROVE  BackgroundInv' /\ BackgroundTypeOK'
<1> USE BackgroundNumbers
<1>1. /\ bgpc = "scheduled" /\ open
      /\ UNCHANGED <<nested, imm_, bg_error_, numLevel0, manifest, open>>
  BY BackgroundIsOpen DEF BackgroundCall, OnlyBackground
<1>2. CASE bg_error_
  <2>1. bgpc' \in {"idle", "scheduled"} /\ bgpc' # "scheduled" /\ UNCHANGED <<inputs, edit>>
    BY <1>2, EndCallFacts DEF BackgroundCall
  <2>2. BackgroundInv'
    BY <1>1, <1>2, <2>1 DEF BackgroundInv
  <2> QED  BY <1>1, <2>1, <2>2, TypeParts DEF BackgroundTypeOK
<1>3. CASE ~bg_error_ /\ imm_ # NoImm
  <2>1. bgpc' = "building" /\ UNCHANGED <<inputs, edit>>
    BY <1>3 DEF BackgroundCall
  <2>2. BackgroundInv'
    BY <1>1, <1>3, <2>1 DEF BackgroundInv
  <2> QED  BY <1>1, <2>1, <2>2, TypeParts DEF BackgroundTypeOK
<1>4. CASE ~bg_error_ /\ imm_ = NoImm
  <2>1. numLevel0 >= 1
    BY <1>1, <1>4 DEF BackgroundInv
  <2>2. CASE bgpc' = "merging" /\ inputs' \in 1..numLevel0 /\ UNCHANGED edit
    <3>1. BackgroundInv'
      BY <1>1, <1>4, <2>2 DEF BackgroundInv
    <3> QED  BY <1>1, <2>2, <3>1, TypeParts DEF BackgroundTypeOK
  <2>3. CASE bgpc' = "moving" /\ edit' = Edit(logNumber, {}, 0, 1) /\ UNCHANGED inputs
    <3>1. edit'.removed = 1
      BY <2>3 DEF Edit
    <3>2. BackgroundInv'
      BY <1>1, <1>4, <2>1, <2>3, <3>1 DEF BackgroundInv
    <3>3. edit' \in [log : Nat, tables : SUBSET Entries, added : {0, 1}, removed : Nat,
                     sequence : Nat]
      BY <2>3, TypeParts DEF Edit, DataTypeOK
    <3> QED  BY <1>1, <2>3, <3>2, <3>3, TypeParts DEF BackgroundTypeOK
  <2> QED  BY <1>4, <2>2, <2>3 DEF BackgroundCall, CompactionInputs
<1> QED  BY <1>2, <1>3, <1>4

\* CompactMemTable has a memtable, and keeps it when the table cannot be built.
LEMMA BuildTableKeeps ==
  ASSUME TypeOK, BackgroundInv, ClosedInv, BuildTable
  PROVE  BackgroundInv' /\ BackgroundTypeOK'
<1> USE BackgroundNumbers
<1>1. /\ bgpc = "building" /\ open /\ imm_ # NoImm
      /\ UNCHANGED <<inputs, imm_, numLevel0, manifest, open>>
  BY BackgroundIsOpen DEF BuildTable, OnlyBackground, BackgroundInv
<1>2. CASE bgpc' = "logging" /\ UNCHANGED <<nested, bg_error_>>
           /\ \E added \in {0, 1} : edit' = Edit(logfile_number_, imm_, added, 0)
  <2>1. edit'.removed = 0
    BY <1>2 DEF Edit
  <2>2. imm_ \subseteq Entries /\ logfile_number_ \in Nat /\ lastSequence \in Nat
    BY <1>1, TypeParts DEF DataTypeOK
  <2>3. edit' \in [log : Nat, tables : SUBSET Entries, added : {0, 1}, removed : Nat,
                   sequence : Nat]
    BY <1>2, <2>2 DEF Edit
  <2>4. BackgroundInv'
    BY <1>1, <1>2, <2>1 DEF BackgroundInv
  <2> QED  BY <1>1, <1>2, <2>3, <2>4, TypeParts DEF BackgroundTypeOK
<1>3. CASE bg_error_' = TRUE /\ ReturnFromCompactMemTable(TRUE, imm_, numLevel0)
           /\ UNCHANGED edit
  <2>1. /\ ~nested'
        /\ \/ nested /\ bgpc' = "merging"
           \/ ~nested /\ bgpc' \in {"idle", "scheduled"}
        /\ bgpc' # "scheduled"
    BY <1>3, ReturnFacts
  <2>2. nested' \in BOOLEAN
    BY <1>3 DEF ReturnFromCompactMemTable
  <2>3. BackgroundInv'
    BY <1>1, <1>3, <2>1 DEF BackgroundInv
  <2> QED  BY <1>1, <1>3, <2>1, <2>2, <2>3, TypeParts DEF BackgroundTypeOK
<1>4. \/ /\ \E added \in IF imm_ = {} THEN {0} ELSE {0, 1} :
              edit' = Edit(logfile_number_, imm_, added, 0)
         /\ bgpc' = "logging" /\ UNCHANGED <<nested, bg_error_>>
      \/ bg_error_' = TRUE /\ ReturnFromCompactMemTable(TRUE, imm_, numLevel0) /\ UNCHANGED edit
  BY DEF BuildTable
<1> QED  BY <1>2, <1>3, <1>4

\* What a failed LogAndApply leaves is the old descriptor or the new one, but for
\* the names of the logs.
LEMMA HalfAppliedFacts ==
  ASSUME manifest \in DescriptorType, NEW m \in HalfApplied
  PROVE  \E content \in {manifest, Applied} :
           /\ m.log = content.log /\ m.tables = content.tables
           /\ m.level0 = content.level0 /\ m.sequence = content.sequence
           /\ m.named \in {manifest.named, logfile_number_}
<1>1. PICK content \in {manifest, Applied}, n \in {manifest.named, logfile_number_} :
        m = [content EXCEPT !.named = n]
  BY DEF HalfApplied
<1>2. CASE content = manifest
  BY <1>1, <1>2 DEF DescriptorType
<1>3. CASE content = Applied
  BY <1>1, <1>3 DEF Applied
<1> QED  BY <1>1, <1>2, <1>3

\* What the descriptor says after the edit is typed, and counts at least the
\* files that the version will have.
LEMMA AppliedFacts ==
  ASSUME TypeOK, BackgroundInv, ClosedInv, bgpc \in {"logging", "merged", "moving"}
  PROVE  /\ Applied \in DescriptorType /\ HalfApplied \subseteq DescriptorType
         /\ Applied.level0 = (manifest.level0 + edit.added) - edit.removed
         /\ open /\ manifest.level0 >= numLevel0 /\ numLevel0 >= edit.removed
<1> USE BackgroundNumbers
<1>1. open /\ manifest.level0 >= numLevel0 /\ numLevel0 >= edit.removed
  BY BackgroundIsOpen DEF BackgroundInv
<1>2. (manifest.level0 + edit.added) - edit.removed \in Nat
  BY <1>1
<1>3. /\ edit.log \in Nat /\ edit.tables \subseteq Entries /\ edit.sequence \in Nat
      /\ manifest.tables \subseteq Entries /\ logfile_number_ \in Nat
      /\ manifest \in DescriptorType
  BY TypeParts DEF BackgroundTypeOK, DataTypeOK, DescriptorType
<1>4. Applied \in DescriptorType
  BY <1>2, <1>3 DEF Applied, DescriptorType
<1>5. ASSUME NEW content \in DescriptorType, NEW n \in Nat
      PROVE  [content EXCEPT !.named = n] \in DescriptorType
  BY DEF DescriptorType
<1>6. manifest.named \in Nat
  BY <1>3 DEF DescriptorType
<1>7. HalfApplied \subseteq DescriptorType
  <2> HIDE DEF Applied
  <2> QED  BY <1>3, <1>4, <1>5, <1>6 DEF HalfApplied
<1> QED  BY <1>1, <1>4, <1>7 DEF Applied

\* The descriptor is written, or may be after a failure.
LEMMA WriteManifestKeeps ==
  ASSUME TypeOK, BackgroundInv, ClosedInv, WriteManifest
  PROVE  BackgroundInv' /\ BackgroundTypeOK'
<1> USE BackgroundNumbers
<1>1. /\ bgpc \in {"logging", "merged", "moving"}
      /\ UNCHANGED <<nested, inputs, edit, imm_, bg_error_, numLevel0, open>>
  BY DEF WriteManifest, OnlyBackground
<1>2. /\ Applied.level0 = (manifest.level0 + edit.added) - edit.removed
      /\ open /\ manifest.level0 >= numLevel0 /\ numLevel0 >= edit.removed
  BY <1>1, AppliedFacts
<1>3. \/ /\ manifest' = Applied
         /\ \/ bgpc = "logging" /\ bgpc' = "install"
            \/ bgpc = "merged" /\ bgpc' = "installMerge"
            \/ bgpc = "moving" /\ bgpc' = "installMove"
      \/ /\ manifest' \in HalfApplied
         /\ bgpc' = IF bgpc = "logging" THEN "installFailed" ELSE "mergeFailed"
  BY DEF WriteManifest
<1>4. manifest'.level0 = manifest.level0 \/ manifest'.level0 = Applied.level0
  <2>1. manifest \in DescriptorType
    BY TypeParts DEF DataTypeOK
  <2> QED  BY <1>3, <2>1, HalfAppliedFacts
<1>5. manifest' = Applied => manifest'.level0 = Applied.level0
  OBVIOUS
<1> HIDE DEF Applied
<1>6. BackgroundInv'
  BY <1>1, <1>2, <1>3, <1>4, <1>5 DEF BackgroundInv
<1>7. bgpc' \in {"install", "installMerge", "installMove", "installFailed", "mergeFailed"}
  BY <1>3
<1> QED  BY <1>1, <1>6, <1>7, TypeParts DEF BackgroundTypeOK

\* The version gets the table's file; imm_ is dropped.
LEMMA InstallMemTableKeeps ==
  ASSUME TypeOK, BackgroundInv, ClosedInv, InstallMemTable
  PROVE  BackgroundInv' /\ BackgroundTypeOK'
<1> USE BackgroundNumbers
<1>1. /\ bgpc = "install" /\ open /\ imm_' = NoImm /\ edit' = NoEdit
      /\ numLevel0' = numLevel0 + edit.added
      /\ UNCHANGED <<inputs, bg_error_, manifest, open>>
  BY BackgroundIsOpen DEF InstallMemTable, OnlyBackground
<1>2. numLevel0' \in Nat
  BY <1>1
<1>3. ReturnFromCompactMemTable(bg_error_, NoImm, numLevel0')
  BY DEF InstallMemTable
<1>4. /\ ~nested'
      /\ \/ nested /\ bgpc' = "merging"
         \/ ~nested /\ bgpc' \in {"idle", "scheduled"}
      /\ bgpc' = "scheduled" => ~bg_error_ /\ numLevel0' >= 1
  BY <1>2, <1>3, ReturnFacts
<1>5. manifest.level0 >= numLevel0 + edit.added
  BY <1>1 DEF BackgroundInv
<1>6. BackgroundInv'
  BY <1>1, <1>4, <1>5 DEF BackgroundInv
<1>7. nested' \in BOOLEAN
  BY <1>3 DEF ReturnFromCompactMemTable
<1> QED  BY <1>1, <1>4, <1>6, <1>7, TypeParts DEF BackgroundTypeOK, NoEdit

\* imm_ stays when the descriptor could not be written.
LEMMA InstallMemTableFailedKeeps ==
  ASSUME TypeOK, BackgroundInv, ClosedInv, InstallMemTableFailed
  PROVE  BackgroundInv' /\ BackgroundTypeOK'
<1> USE BackgroundNumbers
<1>1. /\ bgpc = "installFailed" /\ open /\ edit' = NoEdit /\ bg_error_' = TRUE
      /\ UNCHANGED <<inputs, imm_, numLevel0, manifest, open>>
  BY BackgroundIsOpen DEF InstallMemTableFailed, OnlyBackground
<1>2. ReturnFromCompactMemTable(TRUE, imm_, numLevel0)
  BY DEF InstallMemTableFailed
<1>3. /\ ~nested'
      /\ \/ nested /\ bgpc' = "merging"
         \/ ~nested /\ bgpc' \in {"idle", "scheduled"}
      /\ bgpc' # "scheduled"
  BY <1>2, ReturnFacts
<1>4. BackgroundInv'
  BY <1>1, <1>3 DEF BackgroundInv
<1>5. nested' \in BOOLEAN
  BY <1>2 DEF ReturnFromCompactMemTable
<1> QED  BY <1>1, <1>3, <1>4, <1>5, TypeParts DEF BackgroundTypeOK, NoEdit

\* A merge lets a memtable go first, and ends with an edit that removes its inputs.
LEMMA MergeKeeps ==
  ASSUME TypeOK, BackgroundInv, ClosedInv, MergeFindsImm \/ MergeDone
  PROVE  BackgroundInv' /\ BackgroundTypeOK'
<1> USE BackgroundNumbers
<1>1. /\ bgpc = "merging" /\ open
      /\ UNCHANGED <<imm_, bg_error_, numLevel0, manifest, open>>
  BY BackgroundIsOpen DEF MergeFindsImm, MergeDone, OnlyBackground
<1>2. CASE MergeFindsImm
  <2>1. imm_ # NoImm /\ bgpc' = "building" /\ nested' = TRUE /\ UNCHANGED <<inputs, edit>>
    BY <1>2 DEF MergeFindsImm
  <2>2. BackgroundInv'
    BY <1>1, <2>1 DEF BackgroundInv
  <2> QED  BY <1>1, <2>1, <2>2, TypeParts DEF BackgroundTypeOK
<1>3. CASE MergeDone
  <2>1. /\ inputs' = 0 /\ UNCHANGED nested
        /\ \/ bgpc' = "merged" /\ edit' = Edit(logNumber, {}, 0, inputs)
           \/ bgpc' = "mergeFailed" /\ UNCHANGED edit
    BY <1>3 DEF MergeDone
  <2>2. edit' = Edit(logNumber, {}, 0, inputs) => edit'.removed = inputs
    BY DEF Edit
  <2>3. edit' \in [log : Nat, tables : SUBSET Entries, added : {0, 1}, removed : Nat,
                   sequence : Nat]
    BY <2>1, TypeParts DEF Edit, DataTypeOK, BackgroundTypeOK
  <2>4. BackgroundInv'
    BY <1>1, <2>1, <2>2 DEF BackgroundInv
  <2> QED  BY <1>1, <2>1, <2>3, <2>4, TypeParts DEF BackgroundTypeOK
<1> QED  BY <1>2, <1>3

\* The version loses the inputs of the merge, no more files than it has.
LEMMA MergeEndKeeps ==
  ASSUME TypeOK, BackgroundInv, ClosedInv, InstallMerge \/ MergeFailed
  PROVE  BackgroundInv' /\ BackgroundTypeOK' /\ numLevel0' \in Nat
<1> USE BackgroundNumbers
<1>1. /\ open /\ edit' = NoEdit
      /\ UNCHANGED <<nested, inputs, imm_, manifest, open>>
  BY BackgroundIsOpen DEF InstallMerge, MergeFailed, OnlyBackground
<1>2. CASE InstallMerge
  <2>1. /\ bgpc \in {"installMerge", "installMove"} /\ UNCHANGED bg_error_
        /\ numLevel0' = numLevel0 - edit.removed
        /\ EndBackgroundCall(bg_error_, imm_, numLevel0')
    BY <1>2 DEF InstallMerge
  <2>2. /\ edit.removed <= numLevel0 /\ manifest.level0 >= numLevel0 - edit.removed
        /\ ~nested
    BY <1>1, <2>1 DEF BackgroundInv
  <2>3. numLevel0' \in Nat
    BY <2>1, <2>2
  <2>4. /\ bgpc' \in {"idle", "scheduled"}
        /\ bgpc' = "scheduled" => ~bg_error_ /\ (imm_ # NoImm \/ numLevel0' >= 1)
    BY <2>1, <2>3, EndCallFacts
  <2>5. BackgroundInv'
    BY <1>1, <2>1, <2>2, <2>4 DEF BackgroundInv
  <2> QED  BY <1>1, <2>3, <2>4, <2>5, TypeParts DEF BackgroundTypeOK, NoEdit
<1>3. CASE MergeFailed
  <2>1. /\ bgpc = "mergeFailed" /\ bg_error_' = TRUE /\ UNCHANGED numLevel0
        /\ EndBackgroundCall(TRUE, imm_, numLevel0)
    BY <1>3 DEF MergeFailed
  <2>2. ~nested
    BY <2>1 DEF BackgroundInv
  <2>3. bgpc' \in {"idle", "scheduled"} /\ bgpc' # "scheduled"
    BY <2>1, EndCallFacts
  <2>4. BackgroundInv'
    BY <1>1, <2>1, <2>2, <2>3 DEF BackgroundInv
  <2> QED  BY <1>1, <2>1, <2>3, <2>4, TypeParts DEF BackgroundTypeOK, NoEdit
<1> QED  BY <1>2, <1>3

\* After a crash nothing is scheduled; DB::Open schedules for level 0 only.
LEMMA CrashKeepsBackground ==
  ASSUME TypeOK, NEW kind, Crash(kind)
  PROVE  BackgroundInv' /\ BackgroundTypeOK'
<1>1. /\ ~open' /\ bgpc' = "idle" /\ ~nested' /\ nested' = FALSE /\ inputs' = 0
      /\ edit' = NoEdit /\ imm_' = NoImm /\ UNCHANGED <<numLevel0, manifest>>
  BY DEF Crash, versionVars
<1>2. BackgroundTypeOK'
  BY <1>1, TypeParts DEF BackgroundTypeOK, NoEdit
<1>3. BackgroundInv'
  BY <1>1 DEF BackgroundInv
<1> QED  BY <1>2, <1>3

\* DB::Open finds the level-0 files that it writes to the descriptor.
LEMMA OpenKeepsBackground ==
  ASSUME TypeOK, BackgroundInv, ClosedInv, LogFileInv, Open, numLevel0' \in Nat
  PROVE  BackgroundInv' /\ BackgroundTypeOK'
<1> USE BackgroundNumbers
<1>1. /\ bgpc' = Scheduled("idle", FALSE, NoImm, numLevel0')
      /\ manifest'.level0 = numLevel0'
      /\ UNCHANGED <<nested, inputs, edit, imm_, bg_error_>>
  BY DEF Open, memVars
<1>2. ~nested /\ imm_ = NoImm
  BY DEF Open, ClosedInv
<1>3. \A n \in Nat : /\ Scheduled("idle", FALSE, NoImm, n) \in {"idle", "scheduled"}
                     /\ Scheduled("idle", FALSE, NoImm, n) = "scheduled" => n >= 1
  <2>1. \A n \in Nat : ~(n < L0_CompactionTrigger) => n >= 1
    BY ConstantFacts
  <2> QED  BY <2>1 DEF Scheduled
<1>4. /\ bgpc' \in {"idle", "scheduled"}
      /\ bgpc' = "scheduled" => numLevel0' >= 1
  BY <1>1, <1>3
<1>5. BackgroundTypeOK'
  BY <1>1, <1>4, TypeParts DEF BackgroundTypeOK
<1>6. ~nested' /\ manifest'.level0 >= numLevel0'
  BY <1>1, <1>2
<1>7. BackgroundInv'
  BY <1>4, <1>6 DEF BackgroundInv
<1> QED  BY <1>5, <1>7

-----------------------------------------------------------------------------
(* The logs and the other data.                                            *)

\* The types of the logs.
LogsTypeOK ==
  \A n \in DOMAIN logs : n \in Nat /\ logs[n] \in [records : Seq(Record), synced : Nat]

\* What a crash leaves of a log.
LEMMA Shortened ==
  ASSUME NEW r \in Seq(Record), NEW n \in 0..Len(r), NEW front, front = SubSeq(r, 1, n)
  PROVE  /\ front \in Seq(Record)
         /\ Len(front) = n
         /\ \A i \in 1..n : front[i] = r[i]
<1>1. \A i \in 1..n : r[i] \in Record
  OBVIOUS
<1>2. /\ front \in Seq(Record)
      /\ Len(front) = IF 1 <= n THEN n - 1 + 1 ELSE 0
      /\ \A i \in 1..(n - 1 + 1) : front[i] = r[1 + i - 1]
  BY <1>1, SubSeqProperties
<1> QED  BY <1>2

\* A record of the batches of a group is appended to the current log.
LEMMA LoggedTypes ==
  ASSUME LogsTypeOK, LogFileInv, NEW ids \in SUBSET Calls, NEW whole \in BOOLEAN,
         logs' = Logged(ids, whole), UNCHANGED logfile_number_
  PROVE  /\ LogsTypeOK' /\ LogFileInv'
         /\ DOMAIN logs' = DOMAIN logs
         /\ \A n \in DOMAIN logs : n # logfile_number_ => logs'[n] = logs[n]
         /\ logs'[logfile_number_].synced = logs[logfile_number_].synced
         /\ logs'[logfile_number_].records =
              Append(logs[logfile_number_].records, [ids |-> ids, whole |-> whole])
<1> DEFINE rec == [ids |-> ids, whole |-> whole]
           r == Append(logs[logfile_number_].records, rec)
<1>1. logfile_number_ \in DOMAIN logs /\ logs = [n \in DOMAIN logs |-> logs[n]]
  BY DEF LogFileInv
<1>2. logs[logfile_number_] \in [records : Seq(Record), synced : Nat]
  BY <1>1 DEF LogsTypeOK
<1>3. rec \in Record /\ r \in Seq(Record)
  <2>1. rec \in Record
    BY DEF Record
  <2> HIDE DEF rec
  <2> QED  BY <1>2, <2>1
<1>4. logs' = [logs EXCEPT ![logfile_number_] = [logs[logfile_number_] EXCEPT !.records = r]]
  BY <1>1 DEF Logged
<1> HIDE DEF r
<1>5. [logs[logfile_number_] EXCEPT !.records = r] \in [records : Seq(Record), synced : Nat]
  BY <1>2, <1>3
<1>6. /\ DOMAIN logs' = DOMAIN logs
      /\ \A n \in DOMAIN logs : n # logfile_number_ => logs'[n] = logs[n]
      /\ logs'[logfile_number_] = [logs[logfile_number_] EXCEPT !.records = r]
      /\ logs' = [n \in DOMAIN logs' |-> logs'[n]]
  BY <1>1, <1>4
<1>7. LogsTypeOK'
  BY <1>5, <1>6 DEF LogsTypeOK
<1>8. LogFileInv'
  BY <1>1, <1>6 DEF LogFileInv
<1>9. /\ logs'[logfile_number_].synced = logs[logfile_number_].synced
      /\ logs'[logfile_number_].records = r
  BY <1>2, <1>6
<1> QED  BY <1>6, <1>7, <1>8, <1>9 DEF r

\* Files are only deleted when they are older than the log number.
LEMMA KeptTypes ==
  ASSUME LogsTypeOK, NEW min, logs' = KeptLogs(min)
  PROVE  /\ LogsTypeOK'
         /\ DOMAIN logs' = {n \in DOMAIN logs : n >= min}
         /\ \A n \in DOMAIN logs' : logs'[n] = logs[n]
         /\ logs' = [n \in DOMAIN logs' |-> logs'[n]]
BY DEF KeptLogs, LogsTypeOK

\* How many writers of a group have a batch.
LEMMA WithBatchFacts ==
  ASSUME NEW g, NEW n \in Nat, \A k \in 1..(n + 1) : op[g[k]].batch \in BOOLEAN
  PROVE  /\ WithBatch(g, 0) = 0
         /\ WithBatch(g, n) \in Nat
         /\ WithBatch(g, n + 1) = WithBatch(g, n) + (IF op[g[n + 1]].batch THEN 1 ELSE 0)
<1> DEFINE S(m) == {k \in 1..m : op[g[k]].batch}
<1>1. IsFiniteSet(S(n))
  <2>1. IsFiniteSet(1..n)
    BY FS_Interval
  <2> QED  BY <2>1, FS_Subset
<1>2. Cardinality(S(n)) \in Nat
  BY <1>1, FS_CardinalityType
<1>3. S(0) = {} /\ WithBatch(g, 0) = 0
  <2>1. S(0) = {}
    OBVIOUS
  <2> QED  BY <2>1, FS_EmptySet DEF WithBatch
<1>4. CASE op[g[n + 1]].batch
  <2>1. S(n + 1) = S(n) \cup {n + 1} /\ n + 1 \notin S(n)
    BY <1>4
  <2>2. WithBatch(g, n) = Cardinality(S(n)) /\ WithBatch(g, n + 1) = Cardinality(S(n + 1))
    BY DEF WithBatch
  <2> HIDE DEF S
  <2>3. Cardinality(S(n + 1)) = Cardinality(S(n)) + 1
    BY <1>1, <2>1, FS_AddElement
  <2>4. WithBatch(g, n) \in Nat /\ WithBatch(g, n + 1) = WithBatch(g, n) + 1
    BY <1>2, <2>2, <2>3
  <2>5. (IF op[g[n + 1]].batch THEN 1 ELSE 0) = 1
    BY <1>4
  <2> QED  BY <1>3, <2>4, <2>5
<1>5. CASE ~op[g[n + 1]].batch
  <2>1. S(n + 1) = S(n)
    BY <1>5
  <2>2. WithBatch(g, n) = Cardinality(S(n)) /\ WithBatch(g, n + 1) = Cardinality(S(n + 1))
    BY DEF WithBatch
  <2> HIDE DEF S
  <2>3. WithBatch(g, n) \in Nat /\ WithBatch(g, n + 1) = WithBatch(g, n) + 0
    BY <1>2, <2>1, <2>2
  <2>4. (IF op[g[n + 1]].batch THEN 1 ELSE 0) = 0
    BY <1>5
  <2> QED  BY <1>3, <2>3, <2>4
<1> QED  BY <1>4, <1>5

\* The count of batches, over a whole group, is a number that grows with it.
LEMMA WithBatchNumber ==
  ASSUME ThreadTypeOK, NEW g \in Seq(Threads), NEW n \in 0..Len(g)
  PROVE  /\ WithBatch(g, n) \in Nat
         /\ n # 0 => /\ WithBatch(g, n - 1) \in Nat
                     /\ WithBatch(g, n) =
                          WithBatch(g, n - 1) + (IF op[g[n]].batch THEN 1 ELSE 0)
<1>1. CASE n = 0
  <2>1. WithBatch(g, 0) = 0
    <3>1. {k \in 1..0 : op[g[k]].batch} = {}
      OBVIOUS
    <3> QED  BY <3>1, FS_EmptySet DEF WithBatch
  <2> QED  BY <1>1, <2>1
<1>2. CASE n # 0
  <2>1. n - 1 \in Nat /\ (n - 1) + 1 = n
    BY <1>2
  <2>2. \A k \in 1..n : op[g[k]].batch \in BOOLEAN
    <3>1. \A k \in 1..n : g[k] \in Threads
      OBVIOUS
    <3>2. \A u \in Threads : op[u].batch \in BOOLEAN
      BY DEF ThreadTypeOK
    <3> QED  BY <3>1, <3>2
  <2>3. /\ WithBatch(g, n - 1) \in Nat
        /\ WithBatch(g, (n - 1) + 1) =
             WithBatch(g, n - 1) + (IF op[g[(n - 1) + 1]].batch THEN 1 ELSE 0)
    <3> DEFINE m == n - 1
    <3>1. m \in Nat /\ \A k \in 1..(m + 1) : op[g[k]].batch \in BOOLEAN
      BY <2>1, <2>2
    <3> HIDE DEF m
    <3>2. /\ WithBatch(g, m) \in Nat
          /\ WithBatch(g, m + 1) = WithBatch(g, m) + (IF op[g[m + 1]].batch THEN 1 ELSE 0)
      BY <3>1, WithBatchFacts
    <3> QED  BY <3>2 DEF m
  <2> QED  BY <1>2, <2>1, <2>3
<1> QED  BY <1>1, <1>2

\* The product of two natural numbers is one.
LEMMA ProductIsNat ==
  ASSUME NEW a \in Nat, NEW b \in Nat
  PROVE  a * b \in Nat
OBVIOUS

\* A batch of the group gets a number after the last one given out.
LEMMA NumberedFacts ==
  ASSUME ThreadTypeOK, HistoryTypeOK, lastSequence \in Nat, NEW g \in Seq(Threads), NEW i \in Calls
  PROVE  /\ NumberedIn(g, i) \in Nat
         /\ \/ NumberedIn(g, i) = sequence[i] /\ \A k \in 1..Len(g) : ~(op[g[k]].batch /\ op[g[k]].id = i)
            \/ \E k \in 1..Len(g) :
                 /\ op[g[k]].batch /\ op[g[k]].id = i
                 /\ WithBatch(g, k) \in Nat \ {0}
                 /\ NumberedIn(g, i) = SequenceOf(WithBatch(g, k))
<1> DEFINE at == {k \in DOMAIN g : op[g[k]].batch /\ op[g[k]].id = i}
<1>1. DOMAIN g = 1..Len(g)
  OBVIOUS
<1>2. CASE at = {}
  <2>1. NumberedIn(g, i) = sequence[i]
    BY <1>2 DEF NumberedIn
  <2>2. sequence[i] \in Nat
    BY DEF HistoryTypeOK
  <2> QED  BY <1>1, <1>2, <2>1, <2>2
<1>3. CASE at # {}
  <2> DEFINE k == CHOOSE j \in at : TRUE
  <2>1. k \in at
    BY <1>3
  <2>2. NumberedIn(g, i) = SequenceOf(WithBatch(g, k))
    BY <1>3 DEF NumberedIn
  <2>3. k \in 1..Len(g) /\ op[g[k]].batch /\ op[g[k]].id = i
    BY <1>1, <2>1
  <2> HIDE DEF k, at
  <2>4. WithBatch(g, k) \in Nat /\ WithBatch(g, k) # 0
    <3>1. k \in 0..Len(g) /\ k # 0
      BY <2>3
    <3>2. /\ WithBatch(g, k) \in Nat /\ WithBatch(g, k - 1) \in Nat
          /\ WithBatch(g, k) = WithBatch(g, k - 1) + (IF op[g[k]].batch THEN 1 ELSE 0)
      BY <3>1, WithBatchNumber
    <3> QED  BY <2>3, <3>2
  <2>5. SequenceOf(WithBatch(g, k)) \in Nat
    <3> DEFINE w == WithBatch(g, k)
    <3>1. w - 1 \in Nat
      BY <2>4
    <3>2. (w - 1) * BatchCount \in Nat
      BY <3>1, ProductIsNat, ConstantFacts
    <3> HIDE DEF w
    <3>3. SequenceOf(w) \in Nat
      BY <3>2 DEF SequenceOf
    <3> QED  BY <3>3 DEF w
  <2> QED  BY <2>2, <2>3, <2>4, <2>5
<1> QED  BY <1>2, <1>3

\* The parts of DataTypeOK.
LEMMA DataParts ==
  DataTypeOK <=>
    /\ mem_ \subseteq Entries /\ (imm_ = NoImm \/ imm_ \subseteq Entries)
    /\ logfile_number_ \in Nat /\ bg_error_ \in BOOLEAN
    /\ lastSequence \in Nat /\ logNumber \in Nat
    /\ tables \subseteq Entries /\ numLevel0 \in Nat
    /\ LogsTypeOK
    /\ manifest \in DescriptorType
    /\ open \in BOOLEAN
BY DEF DataTypeOK, LogsTypeOK

DataVars == <<memVars, logfile_number_, bg_error_, versionVars, logs, manifest, open>>

\* Steps that leave the data alone, but for an error.
LEMMA DataUnchanged ==
  ASSUME DataTypeOK, LogFileInv,
         UNCHANGED <<memVars, logfile_number_, versionVars, logs, manifest, open>>,
         bg_error_' = bg_error_ \/ bg_error_' = TRUE
  PROVE  DataTypeOK' /\ LogFileInv'
<1>1. LogsTypeOK' /\ LogFileInv'
  BY DEF DataTypeOK, LogsTypeOK, LogFileInv
<1> QED  BY <1>1, DataParts DEF DataTypeOK, memVars, versionVars

\* Steps that only write to a log.
LEMMA DataOfLogs ==
  ASSUME DataTypeOK, LogsTypeOK',
         UNCHANGED <<memVars, logfile_number_, bg_error_, versionVars, manifest, open>>
  PROVE  DataTypeOK'
<1>1. /\ mem_ \subseteq Entries /\ (imm_ = NoImm \/ imm_ \subseteq Entries)
      /\ logfile_number_ \in Nat /\ bg_error_ \in BOOLEAN
      /\ lastSequence \in Nat /\ logNumber \in Nat
      /\ tables \subseteq Entries /\ numLevel0 \in Nat
      /\ manifest \in DescriptorType
      /\ open \in BOOLEAN
  BY DEF DataTypeOK
<1>2. UNCHANGED <<mem_, imm_, logfile_number_, bg_error_, lastSequence, logNumber, tables,
                  numLevel0, manifest, open>>
  BY DEF memVars, versionVars
<1> QED  BY <1>1, <1>2 DEF DataTypeOK, LogsTypeOK

\* The batches that Recover can find are calls.
LEMMA ReplayedAreCalls ==
  ASSUME LogsTypeOK, NEW length,
         \A l \in DOMAIN logs : length[l] \in 0..Len(logs[l].records)
  PROVE  /\ Replayed(length) \subseteq Calls
         /\ \A l \in DOMAIN logs : Readable(logs[l].records, length[l]) \subseteq Calls
<1>1. ASSUME NEW l \in DOMAIN logs
      PROVE  Readable(logs[l].records, length[l]) \subseteq Calls
  <2>1. logs[l].records \in Seq(Record)
    BY DEF LogsTypeOK
  <2>2. \A i \in 1..length[l] : logs[l].records[i] \in Record
    BY <2>1
  <2>3. \A i \in 1..length[l] : logs[l].records[i].ids \subseteq Calls
    BY <2>2 DEF Record
  <2> QED  BY <2>3 DEF Readable
<1> QED  BY <1>1 DEF Replayed

\* The whole logs are as long as they are.
LEMMA WholeLogsLength ==
  ASSUME LogsTypeOK
  PROVE  /\ Replayed(WholeLogs) \subseteq Calls
         /\ \A l \in DOMAIN logs : WholeLogs[l] \in 0..Len(logs[l].records)
<1>1. \A l \in DOMAIN logs : WholeLogs[l] \in 0..Len(logs[l].records)
  <2>1. \A l \in DOMAIN logs : logs[l].records \in Seq(Record)
    BY DEF LogsTypeOK
  <2>2. \A l \in DOMAIN logs : Len(logs[l].records) \in Nat
    BY <2>1
  <2> QED  BY <2>2 DEF WholeLogs
<1> QED  BY <1>1, ReplayedAreCalls

\* A new log is added to the others.
LEMMA NewLogTypes ==
  ASSUME LogsTypeOK, LogFileInv, logfile_number_ \in Nat,
         logfile_number_' = logfile_number_ + 1,
         logs' = [n \in DOMAIN logs \cup {logfile_number_ + 1} |->
             IF n \in DOMAIN logs THEN logs[n] ELSE [records |-> <<>>, synced |-> 0]]
  PROVE  LogsTypeOK' /\ LogFileInv'
<1>1. [records |-> <<>>, synced |-> 0] \in [records : Seq(Record), synced : Nat]
  OBVIOUS
<1> DEFINE new == [records |-> <<>>, synced |-> 0]
<1> HIDE DEF new
<1>2. DOMAIN logs' = DOMAIN logs \cup {logfile_number_ + 1}
  OBVIOUS
<1>3. \A n \in DOMAIN logs' : logs'[n] = IF n \in DOMAIN logs THEN logs[n] ELSE new
  BY DEF new
<1>4. LogsTypeOK'
  BY <1>1, <1>2, <1>3 DEF LogsTypeOK, new
<1>5. LogFileInv'
  BY DEF LogFileInv
<1> QED  BY <1>4, <1>5

\* Threads keep the types of the data.
LEMMA ThreadsKeepData ==
  ASSUME TypeOK, QueueInv, GroupInv, CallInv, LogFileInv, NEW t \in Threads,
         goOn(t) \/ \E sync, batch : Write(t, sync, batch)
  PROVE  DataTypeOK' /\ LogFileInv'
<1> USE TypeParts
<1>1. CASE \/ Wake(t) \/ RoomError(t) \/ RoomDelay(t) \/ DelayOver(t) \/ RoomWait(t)
           \/ WaitOver(t) \/ RoomFound(t) \/ ImmWait(t)
           \/ \E sync, batch : Write(t, sync, batch)
  <2>1. UNCHANGED DataVars
    BY <1>1 DEF Wake, RoomError, RoomDelay, DelayOver, RoomWait, WaitOver, OnlyThread,
       RoomFound, ImmWait, Write, Enter, LeaveWithout, DataVars
  <2> QED  BY <2>1, DataUnchanged DEF DataVars
<1>2. CASE RoomSwitch(t)
  <2>1. CASE LeaveWithout(t, "error")
    <3>1. UNCHANGED DataVars
      BY <2>1 DEF LeaveWithout, DataVars
    <3> QED  BY <3>1, DataUnchanged DEF DataVars
  <2>2. CASE /\ logfile_number_' = logfile_number_ + 1
             /\ logs' = [n \in DOMAIN logs \cup {logfile_number_ + 1} |->
                  IF n \in DOMAIN logs THEN logs[n] ELSE [records |-> <<>>, synced |-> 0]]
             /\ imm_' = mem_ /\ mem_' = {}
             /\ UNCHANGED <<bg_error_, versionVars, manifest, open>>
    <3>1. LogsTypeOK' /\ LogFileInv'
      BY <2>2, NewLogTypes, DataParts
    <3>2. logfile_number_' \in Nat
      BY <2>2 DEF DataTypeOK
    <3> QED  BY <2>2, <3>1, <3>2, DataParts DEF DataTypeOK, versionVars
  <2> QED  BY <1>2, <2>1, <2>2 DEF RoomSwitch
<1>3. CASE AddRecord(t)
  <2>1. GroupIds(t) \subseteq Calls
    BY <1>3, GroupIdsAreCalls DEF AddRecord, Logging
  <2>2. UNCHANGED <<memVars, logfile_number_, bg_error_, versionVars, manifest, open>>
    BY <1>3 DEF AddRecord, OnlyLogging, memVars
  <2>3. \/ logs' = logs
        \/ \E ids \in SUBSET Calls : \E whole \in BOOLEAN : logs' = Logged(ids, whole)
    BY <1>3, <2>1 DEF AddRecord
  <2>4. CASE logs' = logs
    BY <2>2, <2>4, DataUnchanged
  <2>5. CASE \E ids \in SUBSET Calls : \E whole \in BOOLEAN : logs' = Logged(ids, whole)
    <3>1. LogsTypeOK' /\ LogFileInv'
      BY <2>2, <2>5, DataParts, LoggedTypes
    <3> QED  BY <2>2, <3>1, DataOfLogs
  <2> QED  BY <2>3, <2>4, <2>5
<1>4. CASE Sync(t)
  <2>1. UNCHANGED <<memVars, logfile_number_, bg_error_, versionVars, manifest, open>>
    BY <1>4 DEF Sync, OnlyLogging, memVars
  <2>2. CASE logs' = logs
    BY <2>1, <2>2, DataUnchanged
  <2>3. CASE logs' = [logs EXCEPT ![logfile_number_].synced = Len(logs[logfile_number_].records)]
    <3>1. logfile_number_ \in DOMAIN logs /\ logs = [n \in DOMAIN logs |-> logs[n]]
      BY DEF LogFileInv
    <3>2. \A n \in DOMAIN logs :
            n \in Nat /\ logs[n] \in [records : Seq(Record), synced : Nat]
      BY DEF DataTypeOK
    <3>3. Len(logs[logfile_number_].records) \in Nat
      BY <3>1, <3>2
    <3>4. LogsTypeOK' /\ LogFileInv'
      BY <2>1, <2>3, <3>1, <3>2, <3>3 DEF LogsTypeOK, LogFileInv
    <3> QED  BY <2>1, <3>4, DataOfLogs
  <2> QED  BY <1>4, <2>2, <2>3 DEF Sync
<1>5. CASE InsertInto(t)
  <2>1. GroupIds(t) \subseteq Calls
    BY <1>5, GroupIdsAreCalls DEF InsertInto, Logging
  <2>2. EntriesOf(GroupIds(t)) \subseteq Entries
    BY <2>1, EntriesOfCalls
  <2>3. \E entry \in EntriesOf(GroupIds(t)) : mem_' = mem_ \cup {entry}
    BY <1>5 DEF InsertInto
  <2>4. UNCHANGED <<imm_, logfile_number_, bg_error_, versionVars, logs, manifest, open>>
    BY <1>5 DEF InsertInto, OnlyLogging
  <2>5. LogsTypeOK' /\ LogFileInv'
    BY <2>4 DEF DataTypeOK, LogsTypeOK, LogFileInv
  <2>6. mem_' \subseteq Entries
    BY <2>2, <2>3 DEF DataTypeOK
  <2> QED  BY <2>4, <2>5, <2>6, DataParts DEF DataTypeOK, versionVars
<1>6. CASE GroupDone(t)
  <2>1. UNCHANGED <<memVars, logfile_number_, logNumber, tables, numLevel0, logs, manifest, open>>
    BY <1>6 DEF GroupDone
  <2>2. bg_error_' = bg_error_ \/ bg_error_' = TRUE
    BY <1>6 DEF GroupDone, RecordBackgroundError
  <2>3. lastSequence' \in Nat
    <3> DEFINE w == WithBatch(group[t], Len(group[t]))
    <3>1. w \in Nat
      <4>1. group[t] \in Seq(Threads)
        BY DEF ThreadTypeOK
      <4>2. Len(group[t]) \in 0..Len(group[t])
        BY <4>1
      <4> QED  BY <4>1, <4>2, WithBatchNumber
    <3>2. lastSequence' = lastSequence + BatchCount * w
      BY <1>6 DEF GroupDone
    <3> HIDE DEF w
    <3>3. BatchCount * w \in Nat
      BY <3>1, ProductIsNat, ConstantFacts
    <3> QED  BY <3>2, <3>3 DEF DataTypeOK
  <2>4. LogsTypeOK' /\ LogFileInv'
    BY <2>1 DEF DataTypeOK, LogsTypeOK, LogFileInv
  <2> QED  BY <2>1, <2>2, <2>3, <2>4, DataParts DEF DataTypeOK, memVars
<1> QED  BY <1>1, <1>2, <1>3, <1>4, <1>5, <1>6 DEF goOn

\* The background thread keeps the types of the data.
LEMMA BackgroundKeepsData ==
  ASSUME TypeOK, BackgroundInv, ClosedInv, LogFileInv, NumberInv, background
  PROVE  DataTypeOK' /\ LogFileInv'
<1> USE TypeParts
<1>1. CASE BackgroundCall \/ BuildTable \/ InstallMemTableFailed \/ MergeFindsImm
           \/ MergeDone \/ MergeFailed
  <2>1. /\ UNCHANGED <<memVars, logfile_number_, versionVars, logs, manifest, open>>
        /\ bg_error_' = bg_error_ \/ bg_error_' = TRUE
    BY <1>1 DEF BackgroundCall, BuildTable, InstallMemTableFailed, MergeFindsImm,
       MergeDone, MergeFailed, OnlyBackground, memVars, versionVars
  <2> QED  BY <2>1, DataUnchanged
<1>2. CASE WriteManifest
  <2>1. /\ UNCHANGED <<memVars, logfile_number_, bg_error_, versionVars, logs, open>>
        /\ manifest' = Applied \/ manifest' \in HalfApplied
        /\ bgpc \in {"logging", "merged", "moving"}
    BY <1>2 DEF WriteManifest, OnlyBackground, memVars, versionVars
  <2>2. Applied \in DescriptorType /\ HalfApplied \subseteq DescriptorType
    BY <2>1, AppliedFacts
  <2>3. manifest' \in DescriptorType
    BY <2>1, <2>2
  <2>4. LogsTypeOK' /\ LogFileInv'
    BY <2>1 DEF DataTypeOK, LogsTypeOK, LogFileInv
  <2>5. /\ mem_' \subseteq Entries /\ (imm_' = NoImm \/ imm_' \subseteq Entries)
        /\ logfile_number_' \in Nat /\ bg_error_' \in BOOLEAN
        /\ lastSequence' \in Nat /\ logNumber' \in Nat
        /\ tables' \subseteq Entries /\ numLevel0' \in Nat /\ open' \in BOOLEAN
    BY <2>1 DEF DataTypeOK, memVars, versionVars
  <2> QED  BY <2>3, <2>4, <2>5 DEF DataTypeOK, LogsTypeOK
<1>3. ASSUME NEW min \in Nat, min <= logfile_number_, UNCHANGED logfile_number_,
             logs' = logs \/ logs' = KeptLogs(min)
      PROVE  LogsTypeOK' /\ LogFileInv'
  <2>1. CASE logs' = logs
    BY <1>3, <2>1 DEF DataTypeOK, LogsTypeOK, LogFileInv
  <2>2. CASE logs' = KeptLogs(min)
    <3>1. /\ LogsTypeOK'
          /\ DOMAIN logs' = {n \in DOMAIN logs : n >= min}
          /\ logs' = [n \in DOMAIN logs' |-> logs'[n]]
      BY <2>2, DataParts, KeptTypes
    <3>2. logfile_number_ \in DOMAIN logs'
      BY <1>3, <3>1 DEF LogFileInv, DataTypeOK
    <3> QED  BY <1>3, <3>1, <3>2 DEF LogFileInv
  <2> QED  BY <1>3, <2>1, <2>2
<1>4. CASE InstallMemTable
  <2>1. /\ tables' = tables \cup edit.tables /\ logNumber' = edit.log
        /\ numLevel0' = numLevel0 + edit.added /\ imm_' = NoImm
        /\ logs' = logs \/ logs' = KeptLogs(edit.log)
        /\ UNCHANGED <<mem_, logfile_number_, bg_error_, lastSequence, manifest, open>>
    BY <1>4 DEF InstallMemTable, OnlyBackground
  <2>2. edit.log \in Nat /\ edit.tables \subseteq Entries /\ edit.added \in Nat
    BY DEF BackgroundTypeOK
  <2>3. LogsTypeOK' /\ LogFileInv'
    BY <1>3, <2>1, <2>2 DEF NumberInv
  <2>4. /\ mem_' \subseteq Entries /\ logfile_number_' \in Nat /\ bg_error_' \in BOOLEAN
        /\ lastSequence' \in Nat /\ logNumber' \in Nat
        /\ tables' \subseteq Entries /\ numLevel0' \in Nat /\ open' \in BOOLEAN
        /\ manifest' \in DescriptorType
    BY <2>1, <2>2 DEF DataTypeOK
  <2> QED  BY <2>1, <2>3, <2>4 DEF DataTypeOK, LogsTypeOK
<1>5. CASE InstallMerge
  <2>1. /\ logs' = logs \/ logs' = KeptLogs(logNumber)
        /\ UNCHANGED <<mem_, imm_, logfile_number_, bg_error_, lastSequence, logNumber, tables,
                       manifest, open>>
    BY <1>5 DEF InstallMerge, OnlyBackground
  <2>2. numLevel0' \in Nat
    BY <1>5, MergeEndKeeps
  <2>3. LogsTypeOK' /\ LogFileInv'
    BY <1>3, <2>1 DEF DataTypeOK, NumberInv
  <2>4. /\ mem_' \subseteq Entries /\ (imm_' = NoImm \/ imm_' \subseteq Entries)
        /\ logfile_number_' \in Nat /\ bg_error_' \in BOOLEAN
        /\ lastSequence' \in Nat /\ logNumber' \in Nat
        /\ tables' \subseteq Entries /\ open' \in BOOLEAN
        /\ manifest' \in DescriptorType
    BY <2>1 DEF DataTypeOK
  <2> QED  BY <2>2, <2>3, <2>4 DEF DataTypeOK, LogsTypeOK
<1> QED  BY <1>1, <1>2, <1>4, <1>5 DEF background

\* What a crash leaves of a log is a front of it.
LEMMA RemainsIsFront ==
  ASSUME NEW l, logs[l] \in [records : Seq(Record), synced : Nat], NEW kind,
         NEW n \in Remains(l, kind)
  PROVE  n \in 0..Len(logs[l].records)
<1>1. Len(logs[l].records) \in Nat /\ logs[l].synced \in Nat
  OBVIOUS
<1>2. n = Len(logs[l].records) \/ n \in logs[l].synced..Len(logs[l].records) \/ n = 0
  BY DEF Remains
<1> QED  BY <1>1, <1>2

\* A crash keeps a front of every log.
LEMMA CrashKeepsData ==
  ASSUME TypeOK, LogFileInv, NEW kind, Crash(kind)
  PROVE  DataTypeOK' /\ LogFileInv'
<1> USE TypeParts
<1>1. PICK length \in [DOMAIN logs -> 0..MaxCalls] :
        /\ \A l \in DOMAIN logs : length[l] \in Remains(l, kind)
        /\ logs' = [l \in DOMAIN logs |->
             [records |-> SubSeq(logs[l].records, 1, length[l]), synced |-> length[l]]]
  BY DEF Crash
<1>2. ASSUME NEW l \in DOMAIN logs
      PROVE  l \in Nat /\ logs'[l] \in [records : Seq(Record), synced : Nat]
  <2>1. l \in Nat /\ logs[l] \in [records : Seq(Record), synced : Nat]
    BY DEF DataTypeOK
  <2>2. length[l] \in 0..Len(logs[l].records) /\ length[l] \in Nat
    BY <1>1, <2>1, RemainsIsFront
  <2> DEFINE front == SubSeq(logs[l].records, 1, length[l])
  <2>3. front \in Seq(Record)
    BY <2>1, <2>2, Shortened
  <2>4. logs'[l] = [records |-> front, synced |-> length[l]]
    BY <1>1
  <2> HIDE DEF front
  <2> QED  BY <2>1, <2>2, <2>3, <2>4
<1>3. DOMAIN logs' = DOMAIN logs /\ logs' = [l \in DOMAIN logs' |-> logs'[l]]
  BY <1>1
<1>4. LogsTypeOK'
  BY <1>2, <1>3 DEF LogsTypeOK
<1>5. /\ mem_' = {} /\ imm_' = NoImm /\ bg_error_' = FALSE /\ open' = FALSE
      /\ UNCHANGED <<logfile_number_, versionVars, manifest>>
  BY DEF Crash
<1>6. LogFileInv'
  BY <1>3, <1>5 DEF LogFileInv
<1>7. /\ logfile_number_' \in Nat
      /\ lastSequence' \in Nat /\ logNumber' \in Nat
      /\ tables' \subseteq Entries /\ numLevel0' \in Nat
      /\ manifest' \in DescriptorType
  BY <1>5 DEF DataTypeOK, versionVars
<1> QED  BY <1>4, <1>5, <1>6, <1>7 DEF DataTypeOK, LogsTypeOK

\* DB::Open finds entries of calls, and begins a log.
LEMMA OpenKeepsData ==
  ASSUME TypeOK, ClosedInv, LogFileInv, Open,
         NumberInv
  PROVE  DataTypeOK' /\ LogFileInv'
<1> USE TypeParts
<1> DEFINE ids == Replayed(WholeLogs)
           found == {l \in DOMAIN logs : l >= manifest.log /\
                       Readable(logs[l].records, Len(logs[l].records)) # {}}
<1>1. /\ open' = TRUE
      /\ tables' = manifest.tables \cup EntriesOf(ids)
      /\ numLevel0' = manifest.level0 + Cardinality(found)
      /\ lastSequence' = RecoveredSequence(ids)
      /\ logfile_number_' = logfile_number_ + 1
      /\ logNumber' = logfile_number_'
      /\ manifest' = [log |-> logfile_number_', tables |-> tables', level0 |-> numLevel0',
                      sequence |-> lastSequence', named |-> logfile_number_']
      /\ logs' = [n \in {logfile_number_'} |-> [records |-> <<>>, synced |-> 0]]
      /\ UNCHANGED <<memVars, bg_error_>>
  BY DEF Open
<1>2. ids \subseteq Calls
  BY WholeLogsLength, DataParts
<1>3. Cardinality(found) \in Nat
  <2>1. IsFiniteSet(found)
    <3>1. logfile_number_ \in Nat /\ \A l \in DOMAIN logs : l \in Nat
      BY DEF DataTypeOK
    <3>2. found \subseteq 0..logfile_number_
      BY <3>1 DEF NumberInv
    <3>3. IsFiniteSet(0..logfile_number_)
      BY <3>1, FS_Interval
    <3> HIDE DEF found
    <3> QED  BY <3>2, <3>3, FS_Subset
  <2> HIDE DEF found
  <2> QED  BY <2>1, FS_CardinalityType
<1>4. manifest.tables \subseteq Entries /\ manifest.level0 \in Nat /\ manifest.sequence \in Nat
  BY DEF DataTypeOK, DescriptorType
<1>5. RecoveredSequence(ids) \in Nat
  <2> HIDE DEF ids
  <2> QED  BY <1>2, <1>4, RecoveredFacts
<1>6. EntriesOf(ids) \subseteq Entries
  <2> HIDE DEF ids
  <2> QED  BY <1>2, EntriesOfCalls
<1> HIDE DEF ids, found
<1>7. /\ tables' \subseteq Entries /\ numLevel0' \in Nat /\ lastSequence' \in Nat
      /\ logfile_number_' \in Nat /\ logNumber' \in Nat
  BY <1>1, <1>3, <1>4, <1>5, <1>6 DEF DataTypeOK
<1>8. manifest' \in DescriptorType
  BY <1>1, <1>7 DEF DescriptorType
<1>9. LogsTypeOK' /\ LogFileInv'
  <2>1. DOMAIN logs' = {logfile_number_'}
    BY <1>1
  <2>2. logs'[logfile_number_'] = [records |-> <<>>, synced |-> 0]
    BY <1>1
  <2>3. [records |-> <<>>, synced |-> 0] \in [records : Seq(Record), synced : Nat]
    OBVIOUS
  <2>4. LogsTypeOK'
    BY <1>7, <2>1, <2>2, <2>3 DEF LogsTypeOK
  <2>5. logs' = [n \in DOMAIN logs' |-> logs'[n]]
    BY <1>1
  <2> QED  BY <2>1, <2>4, <2>5 DEF LogFileInv
<1> QED  BY <1>1, <1>7, <1>8, <1>9 DEF DataTypeOK, LogsTypeOK, memVars

\* Only a switch and DB::Open give out a number, the next one.
LEMMA NumbersInductive ==
  ASSUME TypeOK, LogFileInv, NumberInv, [Next]_vars
  PROVE  NumberInv'
<1> USE TypeParts
<1>1. /\ logfile_number_ \in Nat /\ logNumber \in Nat /\ edit.log \in Nat /\ manifest.log \in Nat
      /\ \A n \in DOMAIN logs : n \in Nat
  BY DEF DataTypeOK, DescriptorType, BackgroundTypeOK
<1>2. ASSUME UNCHANGED <<logfile_number_, logNumber, manifest>>, DOMAIN logs' \subseteq DOMAIN logs,
             edit' = edit
      PROVE  NumberInv'
  BY <1>2 DEF NumberInv
<1>3. ASSUME NEW t \in Threads, \E sync, batch : Write(t, sync, batch)
      PROVE  NumberInv'
  BY <1>2, <1>3 DEF Write, Enter, versionVars, bgVars
<1>4. ASSUME NEW t \in Threads,
             \/ Wake(t) \/ RoomError(t) \/ RoomDelay(t) \/ DelayOver(t) \/ RoomWait(t)
             \/ WaitOver(t) \/ RoomFound(t) \/ ImmWait(t) \/ GroupDone(t)
      PROVE  NumberInv'
  <2>1. UNCHANGED <<logfile_number_, logNumber, manifest, logs, edit>>
    BY <1>4 DEF Wake, RoomError, RoomDelay, DelayOver, RoomWait, WaitOver, OnlyThread,
       RoomFound, ImmWait, GroupDone, LeaveWithout, versionVars, bgVars
  <2> QED  BY <1>2, <2>1
<1>5. ASSUME NEW t \in Threads, RoomSwitch(t)
      PROVE  NumberInv'
  <2>1. CASE LeaveWithout(t, "error")
    BY <1>2, <2>1 DEF LeaveWithout, versionVars, bgVars
  <2>2. CASE /\ logfile_number_' = logfile_number_ + 1
             /\ DOMAIN logs' = DOMAIN logs \cup {logfile_number_ + 1}
             /\ UNCHANGED <<logNumber, manifest, edit>>
    BY <1>1, <2>2 DEF NumberInv
  <2> QED  BY <1>5, <2>1, <2>2 DEF RoomSwitch, versionVars
<1>6. ASSUME NEW t \in Threads, AddRecord(t) \/ Sync(t) \/ InsertInto(t)
      PROVE  NumberInv'
  <2>1. UNCHANGED <<logfile_number_, logNumber, manifest, edit>>
    BY <1>6 DEF AddRecord, Sync, InsertInto, OnlyLogging, versionVars, bgVars
  <2>2. DOMAIN logs' = DOMAIN logs
    BY <1>6 DEF AddRecord, Sync, InsertInto, Logged
  <2> QED  BY <1>2, <2>1, <2>2
<1>7. ASSUME BackgroundCall \/ BuildTable \/ InstallMemTableFailed \/ MergeFindsImm
             \/ MergeDone \/ MergeFailed \/ WriteManifest
      PROVE  NumberInv'
  <2>1. UNCHANGED <<logfile_number_, logNumber, logs>>
    BY <1>7 DEF BackgroundCall, BuildTable, InstallMemTableFailed, MergeFindsImm,
       MergeDone, MergeFailed, WriteManifest, OnlyBackground
  <2>2. \/ edit' = edit \/ edit' = NoEdit
        \/ \E l \in {logNumber, logfile_number_} : \E e, a, r : edit' = Edit(l, e, a, r)
    BY <1>7 DEF BackgroundCall, BuildTable, InstallMemTableFailed, MergeFindsImm,
       MergeDone, MergeFailed, WriteManifest
  <2>3. edit'.log \in {edit.log, 0, logNumber, logfile_number_}
    BY <2>2 DEF Edit, NoEdit
  <2>4. manifest' = manifest \/ manifest' = Applied \/ manifest' \in HalfApplied
    BY <1>7 DEF BackgroundCall, BuildTable, InstallMemTableFailed, MergeFindsImm,
       MergeDone, MergeFailed, WriteManifest
  <2>5. manifest'.log \in {manifest.log, edit.log}
    <3>1. manifest \in DescriptorType /\ Applied.log = edit.log
      BY TypeParts DEF DataTypeOK, Applied
    <3> QED  BY <2>4, <3>1, HalfAppliedFacts
  <2> QED  BY <1>1, <2>1, <2>3, <2>5 DEF NumberInv
<1>8. ASSUME InstallMemTable \/ InstallMerge
      PROVE  NumberInv'
  <2>1. UNCHANGED <<logfile_number_, manifest>> /\ logNumber' \in {logNumber, edit.log}
    BY <1>8 DEF InstallMemTable, InstallMerge, OnlyBackground
  <2>2. edit'.log = 0
    BY <1>8 DEF InstallMemTable, InstallMerge, NoEdit
  <2>3. DOMAIN logs' \subseteq DOMAIN logs
    BY <1>8 DEF InstallMemTable, InstallMerge, KeptLogs
  <2> QED  BY <1>1, <2>1, <2>2, <2>3 DEF NumberInv
<1>9. ASSUME NEW kind, Crash(kind)
      PROVE  NumberInv'
  <2>1. UNCHANGED <<logfile_number_, logNumber, manifest>> /\ DOMAIN logs' = DOMAIN logs
    BY <1>9 DEF Crash, versionVars
  <2>2. edit'.log = 0
    BY <1>9 DEF Crash, NoEdit
  <2> QED  BY <1>1, <2>1, <2>2 DEF NumberInv
<1>10. ASSUME Open
       PROVE  NumberInv'
  <2>1. /\ logfile_number_' = logfile_number_ + 1
        /\ logNumber' = logfile_number_' /\ manifest'.log = logfile_number_'
        /\ DOMAIN logs' = {logfile_number_'} /\ UNCHANGED edit
    BY <1>10 DEF Open
  <2> QED  BY <1>1, <2>1 DEF NumberInv
<1>11. CASE UNCHANGED vars
  BY <1>2, <1>11 DEF vars, versionVars, bgVars
<1> QED  BY <1>3, <1>4, <1>5, <1>6, <1>7, <1>8, <1>9, <1>10, <1>11 DEF Next, goOn, background

\* Nothing runs, and nothing is in memory, until DB::Open.
LEMMA ClosedInductive ==
  ASSUME TypeOK, BackgroundInv, ClosedInv, [Next]_vars
  PROVE  ClosedInv'
<1> USE TypeParts
<1>1. ASSUME NEW t \in Threads, goOn(t) \/ \E sync, batch : Write(t, sync, batch)
      PROVE  ClosedInv'
  <2>1. open
    BY <1>1 DEF goOn, Wake, RoomError, RoomDelay, DelayOver, RoomWait, WaitOver, Room,
       RoomSwitch, RoomFound, AddRecord, Sync, InsertInto, GroupDone, ImmWait, Write,
       Enter, ClosedInv
  <2>2. open' = open
    BY <1>1 DEF goOn, Wake, RoomError, LeaveWithout, RoomDelay, DelayOver, RoomWait,
       WaitOver, OnlyThread, RoomSwitch, RoomFound, AddRecord, Sync, InsertInto,
       OnlyLogging, GroupDone, ImmWait, Write, Enter
  <2> QED  BY <2>1, <2>2 DEF ClosedInv
<1>2. ASSUME background
      PROVE  ClosedInv'
  <2>1. bgpc # "idle"
    BY <1>2 DEF background, BackgroundCall, BuildTable, WriteManifest, InstallMemTable,
       InstallMemTableFailed, MergeFindsImm, MergeDone, InstallMerge, MergeFailed
  <2>2. OnlyBackground
    BY <1>2 DEF background, BackgroundCall, BuildTable, WriteManifest, InstallMemTable,
       InstallMemTableFailed, MergeFindsImm, MergeDone, InstallMerge, MergeFailed
  <2> QED  BY <2>1, <2>2, BackgroundIsOpen DEF OnlyBackground, ClosedInv
<1>3. ASSUME Open
      PROVE  ClosedInv'
  BY <1>3 DEF Open, ClosedInv
<1>4. ASSUME NEW kind, Crash(kind)
      PROVE  ClosedInv'
  BY <1>4 DEF Crash, ClosedInv
<1>5. CASE UNCHANGED vars
  BY <1>5 DEF vars, threadVars, syncVars, bgVars, memVars, ClosedInv
<1> QED  BY <1>1, <1>2, <1>3, <1>4, <1>5 DEF Next

\* The types of the history and of the bounds.
LEMMA HistoryTypes ==
  ASSUME TypeOK, QueueInv, GroupInv, CallInv, [Next]_vars
  PROVE  HistoryTypeOK'
<1> USE TypeParts
<1>1. /\ calls \in 0..MaxCalls /\ failures \in Nat /\ crashes \in Nat
      /\ request \in [Calls -> [sync : BOOLEAN, seen : SUBSET Calls]]
      /\ sequence \in [Calls -> Nat] /\ acked \subseteq Calls
  BY DEF HistoryTypeOK
<1>2. ASSUME NEW t \in Threads, NEW sync \in BOOLEAN, NEW batch \in BOOLEAN,
             Write(t, sync, batch)
      PROVE  HistoryTypeOK'
  <2>1. /\ calls < MaxCalls /\ calls' = calls + 1
        /\ request' = [request EXCEPT ![calls + 1] = [sync |-> sync, seen |-> acked]]
        /\ UNCHANGED <<failures, crashes, sequence, acked>>
    BY <1>2 DEF Write, Enter
  <2>2. calls + 1 \in 0..MaxCalls
    BY <1>1, <2>1, ConstantFacts
  <2> QED  BY <1>1, <2>1, <2>2 DEF HistoryTypeOK
<1>3. ASSUME UNCHANGED <<calls, crashes, request>>, failures' = failures \/ failures' = failures + 1,
             sequence' \in [Calls -> Nat], acked' \subseteq Calls
      PROVE  HistoryTypeOK'
  BY <1>1, <1>3 DEF HistoryTypeOK
<1>4. ASSUME NEW t \in Threads, Wake(t)
      PROVE  HistoryTypeOK'
  <2>1. pc[t] # "idle" /\ UNCHANGED <<boundVars, request, sequence>>
    BY <1>4 DEF Wake
  <2>2. op[t].id \in Calls
    BY <2>1, CallNumber
  <2>3. acked' \subseteq Calls
    BY <1>1, <1>4, <2>2 DEF Wake, Return
  <2> QED  BY <1>1, <1>3, <2>1, <2>3 DEF boundVars
<1>5. ASSUME NEW t \in Threads, \/ RoomDelay(t) \/ DelayOver(t) \/ RoomWait(t) \/ WaitOver(t)
                                \/ AddRecord(t) \/ Sync(t) \/ InsertInto(t) \/ ImmWait(t)
      PROVE  HistoryTypeOK'
  <2>1. /\ UNCHANGED <<calls, crashes, historyVars>>
        /\ failures' = failures \/ failures' = failures + 1
    BY <1>5 DEF RoomDelay, DelayOver, RoomWait, WaitOver, OnlyThread, AddRecord, Sync,
       InsertInto, OnlyLogging, ImmWait, boundVars, historyVars, Fails
  <2> QED  BY <1>1, <1>3, <2>1 DEF historyVars
<1>6. ASSUME NEW t \in Threads, NEW s \in {"ok", "error"}, pc[t] = "room", LeaveWithout(t, s),
             failures' = failures \/ failures' = failures + 1
      PROVE  HistoryTypeOK'
  <2>1. UNCHANGED <<calls, crashes, request, sequence>>
    BY <1>6 DEF LeaveWithout
  <2>2. acked' \subseteq Calls
    BY <1>6, LeaveTypes
  <2> QED  BY <1>1, <1>3, <1>6, <2>1, <2>2
<1>7. ASSUME NEW t \in Threads, RoomError(t) \/ RoomSwitch(t)
      PROVE  HistoryTypeOK'
  <2>1. pc[t] = "room"
    BY <1>7 DEF RoomError, RoomSwitch, Room
  <2>2. CASE LeaveWithout(t, "error") /\ (failures' = failures \/ failures' = failures + 1)
    BY <1>6, <2>1, <2>2
  <2>3. CASE UNCHANGED <<boundVars, historyVars>>
    BY <1>1, <1>3, <2>3 DEF boundVars, historyVars
  <2> QED  BY <1>7, <2>2, <2>3 DEF RoomError, RoomSwitch, Fails
<1>8. ASSUME NEW t \in Threads, RoomFound(t)
      PROVE  HistoryTypeOK'
  <2>1. pc[t] = "room" /\ mutex = t
    BY <1>8 DEF RoomFound, Room
  <2>2. CASE ~op[t].batch
    BY <1>6, <1>8, <2>1, <2>2 DEF RoomFound
  <2>3. CASE op[t].batch
    <3>1. /\ sequence' = [i \in Calls |-> NumberedIn(BuildBatchGroup, i)]
          /\ UNCHANGED <<boundVars, request, acked>>
      BY <1>8, <2>3 DEF RoomFound
    <3>2. BuildBatchGroup \in Seq(Threads)
      BY <2>1, GroupFacts DEF QueueInv, SyncTypeOK, InQueue, Working
    <3>3. \A i \in Calls : NumberedIn(BuildBatchGroup, i) \in Nat
      <4> HIDE DEF BuildBatchGroup
      <4> QED  BY <3>2, NumberedFacts, DataParts
    <3>4. sequence' \in [Calls -> Nat]
      BY <3>1, <3>3
    <3> QED  BY <1>1, <1>3, <3>1, <3>4 DEF boundVars
  <2> QED  BY <2>2, <2>3
<1>9. ASSUME NEW t \in Threads, GroupDone(t)
      PROVE  HistoryTypeOK'
  <2> DEFINE members == {group[t][k] : k \in DOMAIN group[t]}
             s == IF status[t] = "ok" THEN "ok" ELSE "error"
  <2>1. Finish(t, members, s) /\ pc[t] # "idle" /\ s \in {"ok", "error"}
    BY <1>9 DEF GroupDone
  <2> HIDE DEF members, s
  <2>2. acked' \subseteq Calls
    BY <2>1, FinishTypes
  <2>3. UNCHANGED <<boundVars, request, sequence>>
    BY <1>9 DEF GroupDone
  <2> QED  BY <1>1, <1>3, <2>2, <2>3 DEF boundVars
<1>10. ASSUME background
       PROVE  HistoryTypeOK'
  <2>1. OnlyBackground /\ (failures' = failures \/ failures' = failures + 1)
    BY <1>10 DEF background, BackgroundCall, BuildTable, WriteManifest, InstallMemTable,
       InstallMemTableFailed, MergeFindsImm, MergeDone, InstallMerge, MergeFailed, Fails
  <2> QED  BY <1>1, <1>3, <2>1 DEF OnlyBackground, historyVars
<1>11. ASSUME NEW kind, Crash(kind)
       PROVE  HistoryTypeOK'
  <2>1. crashes' = crashes + 1 /\ UNCHANGED <<calls, failures, request, sequence>>
    BY <1>11 DEF Crash
  <2>2. acked' \subseteq acked
    BY <1>11 DEF Crash
  <2> QED  BY <1>1, <2>1, <2>2 DEF HistoryTypeOK
<1>12. CASE UNCHANGED vars \/ Open
  BY <1>1, <1>3, <1>12 DEF vars, Open, boundVars, historyVars
<1> QED  BY <1>2, <1>4, <1>5, <1>7, <1>8, <1>9, <1>10, <1>11, <1>12 DEF Next, goOn

-----------------------------------------------------------------------------
(* The theorems.                                                           *)

\* The background thread's numbers, in every step.
LEMMA BackgroundInductive ==
  ASSUME Inv, [Next]_vars
  PROVE  BackgroundInv' /\ BackgroundTypeOK'
<1> USE DEF Inv
<1>1. ASSUME NEW t \in Threads, goOn(t) \/ \E sync, batch : Write(t, sync, batch)
      PROVE  BackgroundInv' /\ BackgroundTypeOK'
  <2>1. CASE RoomSwitch(t) /\ mem_' = {} /\ imm_' = mem_
    <3>1. \/ /\ UNCHANGED <<nested, inputs, edit, bg_error_, numLevel0, manifest, open>>
             /\ bgpc' = Scheduled(bgpc, bg_error_, mem_, numLevel0)
          \/ UNCHANGED memVars
      BY <2>1 DEF RoomSwitch, LeaveWithout, versionVars
    <3>2. mem_ # NoImm
      BY TypeParts, NoImmIsNoTable DEF DataTypeOK
    <3>3. imm_ = NoImm
      BY <2>1 DEF RoomSwitch, MustWait
    <3>4. ~UNCHANGED memVars
      BY <2>1, <3>2, <3>3 DEF memVars
    <3> QED  BY <2>1, <3>1, <3>4, SwitchKeepsBackground
  <2>2. CASE ~(RoomSwitch(t) /\ mem_' = {} /\ imm_' = mem_)
    <3>1. UNCHANGED BackgroundVars /\ (bg_error_' = bg_error_ \/ bg_error_' = TRUE)
      BY <1>1, <2>2, ThreadsLeaveBackground
    <3> QED  BY <3>1, BackgroundUntouched
  <2> QED  BY <2>1, <2>2
<1>2. ASSUME background
      PROVE  BackgroundInv' /\ BackgroundTypeOK'
  BY <1>2, BackgroundCallKeeps, BuildTableKeeps, WriteManifestKeeps, InstallMemTableKeeps,
     InstallMemTableFailedKeeps, MergeKeeps, MergeEndKeeps DEF background
<1>3. ASSUME NEW kind, Crash(kind)
      PROVE  BackgroundInv' /\ BackgroundTypeOK'
  BY <1>3, CrashKeepsBackground
<1>4. ASSUME Open
      PROVE  BackgroundInv' /\ BackgroundTypeOK'
  <2>1. numLevel0' \in Nat
    BY <1>4, OpenKeepsData DEF DataTypeOK
  <2> QED  BY <1>4, <2>1, OpenKeepsBackground
<1>5. CASE UNCHANGED vars
  BY <1>5, BackgroundUntouched DEF vars, bgVars, memVars, versionVars, BackgroundVars
<1> QED  BY <1>1, <1>2, <1>3, <1>4, <1>5 DEF Next

\* The data's types, in every step.
LEMMA DataInductive ==
  ASSUME Inv, [Next]_vars
  PROVE  DataTypeOK' /\ LogFileInv'
<1> USE DEF Inv
<1>1. ASSUME NEW t \in Threads, goOn(t) \/ \E sync, batch : Write(t, sync, batch)
      PROVE  DataTypeOK' /\ LogFileInv'
  BY <1>1, ThreadsKeepData
<1>2. ASSUME background
      PROVE  DataTypeOK' /\ LogFileInv'
  BY <1>2, BackgroundKeepsData
<1>3. ASSUME NEW kind, Crash(kind)
      PROVE  DataTypeOK' /\ LogFileInv'
  BY <1>3, CrashKeepsData
<1>4. ASSUME Open
      PROVE  DataTypeOK' /\ LogFileInv'
  BY <1>4, OpenKeepsData
<1>5. CASE UNCHANGED vars
  BY <1>5, TypeParts, DataUnchanged DEF vars, DataVars
<1> QED  BY <1>1, <1>2, <1>3, <1>4, <1>5 DEF Next

\* DB::Open has created an empty database.
LEMMA InitInv ==
  Init => Inv
<1> SUFFICES ASSUME Init
             PROVE  Inv
  OBVIOUS
<1>1. ThreadTypeOK
  <2>1. <<>> \in Seq(Threads)
    OBVIOUS
  <2> QED  BY <2>1 DEF Init, ThreadTypeOK, ThreadStates, NoCall
<1>2. SyncTypeOK
  BY DEF Init, SyncTypeOK
<1>3. BackgroundTypeOK
  BY DEF Init, BackgroundTypeOK, NoEdit
<1>4. DataTypeOK
  <2>1. [records |-> <<>>, synced |-> 0] \in [records : Seq(Record), synced : Nat]
    OBVIOUS
  <2>2. \A n \in DOMAIN logs : n \in Nat /\ logs[n] = [records |-> <<>>, synced |-> 0]
    BY DEF Init
  <2>3. LogsTypeOK
    <3> DEFINE new == [records |-> <<>>, synced |-> 0]
    <3>1. new \in [records : Seq(Record), synced : Nat] /\ \A n \in DOMAIN logs : n \in Nat /\ logs[n] = new
      BY <2>1, <2>2
    <3> HIDE DEF new
    <3> QED  BY <3>1 DEF LogsTypeOK
  <2>4. manifest \in DescriptorType
    BY DEF Init, DescriptorType
  <2> QED  BY <2>3, <2>4, DataParts DEF Init
<1>5. HistoryTypeOK
  BY ConstantFacts DEF Init, HistoryTypeOK
<1>6. \A t \in Threads : pc[t] = "idle" /\ ~done[t] /\ ~InQueue(t)
  BY DEF Init, InQueue, Working, Logging
<1>7. QueueInv /\ GroupInv
  BY <1>6, ConstantFacts DEF Init, QueueInv, GroupInv, Working, Logging
<1>8. CallInv
  BY DEF Init, CallInv, NoCall
<1>9. BackgroundInv /\ ClosedInv
  BY DEF Init, BackgroundInv, ClosedInv
<1>10. LogFileInv /\ NumberInv
  BY DEF Init, LogFileInv, NumberInv, NoEdit
<1> QED  BY <1>1, <1>2, <1>3, <1>4, <1>5, <1>7, <1>8, <1>9, <1>10 DEF Inv, TypeOK

\* Every step keeps the invariant.
LEMMA NextInv ==
  Inv /\ [Next]_vars => Inv'
<1> SUFFICES ASSUME Inv, [Next]_vars
             PROVE  Inv'
  OBVIOUS
<1>1. TypeOK /\ QueueInv /\ GroupInv /\ CallInv /\ ClosedInv /\ LogFileInv /\ NumberInv
      /\ BackgroundInv
  BY DEF Inv
<1>2. QueueInv' /\ GroupInv'
  BY <1>1, QueueInductive
<1>3. CallInv'
  BY <1>1, TypeParts, CallsInductive
<1>4. ThreadTypeOK' /\ SyncTypeOK' /\ HistoryTypeOK'
  BY <1>1, ThreadTypes, SyncTypes, HistoryTypes
<1>5. BackgroundInv' /\ BackgroundTypeOK'
  BY BackgroundInductive
<1>6. DataTypeOK' /\ LogFileInv'
  BY DataInductive
<1>7. ClosedInv' /\ NumberInv'
  BY <1>1, ClosedInductive, NumbersInductive
<1> QED  BY <1>2, <1>3, <1>4, <1>5, <1>6, <1>7 DEF Inv, TypeOK

\* Only the writer at the head logs, and its group is the front of the queue.
LEMMA InvOneLogger ==
  Inv => OneLogger
<1> SUFFICES ASSUME Inv, NEW t \in Threads, pc[t] \in Logging
             PROVE  /\ Len(group[t]) \in 1..Len(writers_)
                    /\ group[t] = SubSeq(writers_, 1, Len(group[t]))
                    /\ group[t][1] = t
  BY DEF OneLogger
<1> DEFINE n == Len(group[t])
           front == SubSeq(writers_, 1, n)
<1>1. /\ n \in 1..Len(writers_) /\ writers_ \in Seq(Threads) /\ group[t] \in Seq(Threads)
      /\ \A k \in 1..n : group[t][k] = writers_[k]
  BY TypeParts DEF Inv, GroupInv, SyncTypeOK, ThreadTypeOK
<1>2. front \in Seq(Threads) /\ Len(front) = n /\ \A k \in 1..n : front[k] = writers_[k]
  <2>1. \A i \in 1..n : writers_[i] \in Threads
    BY <1>1
  <2>2. n \in Int /\ n >= 1
    BY <1>1
  <2> HIDE DEF n
  <2>3. /\ front \in Seq(Threads)
        /\ Len(front) = IF 1 <= n THEN n - 1 + 1 ELSE 0
        /\ \A i \in 1..(n - 1 + 1) : front[i] = writers_[1 + i - 1]
    BY <2>1, <2>2, SubSeqProperties
  <2> QED  BY <2>2, <2>3
<1>3. group[t] = front
  <2> HIDE DEF front
  <2> QED  BY <1>1, <1>2, SeqEqual
<1>4. group[t][1] = t
  BY <1>1 DEF Inv, QueueInv, Working
<1> QED  BY <1>1, <1>3, <1>4

\* Every variable keeps its type, for any number of threads, any sizes and any
\* bounds: the numbers of level-0 files and of entries do not become negative,
\* BuildBatchGroup returns a sequence of writers, and what Recover finds in the
\* logs of a crash are batches that were written.
THEOREM DBWriteTypes == Spec => []TypeOK
<1>1. Inv => TypeOK
  BY DEF Inv
<1> QED  BY <1>1, InitInv, NextInv, PTL DEF Spec

\* "&w is currently responsible for logging and protects against concurrent
\* loggers": while DBImpl::Write has the mutex released for the log and the
\* memtable, no other writer is there, and its group stays the front of the
\* queue, for any number of threads.
THEOREM DBWriteOneLogger == Spec => []OneLogger
<1> QED  BY InitInv, NextInv, InvOneLogger, PTL DEF Spec
=============================================================================
