-------------------------- MODULE PosixEnvProofs --------------------------
(***************************************************************************)
(* The lock of the database directory, the limits on files and the queue   *)
(* of the background thread, for any number of threads and processes, any  *)
(* limits and any number of scheduled items.                               *)
(***************************************************************************)
EXTENDS PosixEnv, FiniteSetTheorems, SequenceTheorems, TLAPS

-----------------------------------------------------------------------------
(* The lock.                                                               *)

LockStates == {"idle", "opened", "inserted", "refused", "holding", "denied",
               "closed", "unlocked", "removed"}

\* From its locks_.Insert to its locks_.Remove, a thread has the file in the
\* table of its process.
InTable(t) == lockpc[t] \in {"inserted", "holding", "denied", "closed", "unlocked"}

LockTypeOK ==
  /\ lockpc \in [LockThreads -> LockStates]
  /\ locked_files_ \subseteq Processes

\* The table keeps the threads of a process apart, and a holder that the kernel
\* does not know of belongs to a process that gave the lock up.
LockInv ==
  /\ LockTypeOK
  /\ \A t \in LockThreads : InTable(t) => ProcessOf[t] \in locked_files_
  /\ \A t, u \in LockThreads :
       InTable(t) /\ InTable(u) /\ ProcessOf[t] = ProcessOf[u] => t = u
  /\ \A t \in LockThreads : lockpc[t] = "holding" =>
       kernelLock = ProcessOf[t] \/ ProcessOf[t] \in gaveUp

\* A process is not the value that stands for no process.
LEMMA ProcessIsSome ==
  ASSUME NEW t \in LockThreads
  PROVE  ProcessOf[t] \in Processes /\ ProcessOf[t] # NoProcess
BY EnvAssumption DEF Processes, NoProcess

\* A step of LockFile that does not touch locks_ or the kernel's lock keeps the
\* invariant when the thread does not enter the table's critical part.
LEMMA LockFileKeeps ==
  ASSUME LockInv, NEW t \in LockThreads,
         LockFile(t) \/ LockAlreadyHeld(t) \/ LockDenied(t)
  PROVE  LockInv'
<1>1. LockTypeOK'
  BY DEF LockInv, LockTypeOK, LockFile, LockAlreadyHeld, LockDenied, LockAt, LockStates
<1>2. \A u \in LockThreads : InTable(u)' => InTable(u)
  BY DEF LockInv, LockTypeOK, LockFile, LockAlreadyHeld, LockDenied, LockAt, InTable
<1>3. \A u \in LockThreads : lockpc'[u] = "holding" => lockpc[u] = "holding"
  BY DEF LockInv, LockTypeOK, LockFile, LockAlreadyHeld, LockDenied, LockAt
<1>4. UNCHANGED <<locked_files_, kernelLock, gaveUp>>
  BY DEF LockFile, LockAlreadyHeld, LockDenied
<1> QED  BY <1>1, <1>2, <1>3, <1>4 DEF LockInv

\* locks_.Insert succeeds only when no thread of the process is in the table.
LEMMA LockInsertKeeps ==
  ASSUME LockInv, NEW t \in LockThreads, LockInsert(t)
  PROVE  LockInv'
<1>1. LockTypeOK'
  BY ProcessIsSome DEF LockInv, LockTypeOK, LockInsert, LockAt, LockStates
<1>2. \A u \in LockThreads : InTable(u)' => InTable(u) \/ u = t
  BY DEF LockInv, LockTypeOK, LockInsert, LockAt, InTable
<1>3. \A u \in LockThreads : InTable(u) => ProcessOf[u] # ProcessOf[t]
  BY DEF LockInv, LockInsert
<1>4. \A u \in LockThreads : lockpc'[u] = "holding" => lockpc[u] = "holding"
  BY DEF LockInv, LockTypeOK, LockInsert, LockAt
<1> QED  BY <1>1, <1>2, <1>3, <1>4 DEF LockInv, LockInsert

\* fcntl grants the lock only when no other process has it: every other holder
\* had lost it before.
LEMMA LockOrUnlockKeeps ==
  ASSUME LockInv, NEW t \in LockThreads, LockOrUnlock(t)
  PROVE  LockInv'
<1>1. LockTypeOK'
  BY DEF LockInv, LockTypeOK, LockOrUnlock, LockAt, LockStates
<1>2. InTable(t)
  BY DEF LockOrUnlock, LockAt, InTable
<1>3. \A u \in LockThreads : InTable(u)' => InTable(u)
  BY <1>2 DEF LockInv, LockTypeOK, LockOrUnlock, LockAt, InTable
<1>4. ASSUME NEW u \in LockThreads, lockpc'[u] = "holding"
      PROVE  kernelLock' = ProcessOf[u] \/ ProcessOf[u] \in gaveUp'
  <2>1. CASE u = t
    BY <2>1 DEF LockOrUnlock
  <2>2. CASE u # t
    <3>1. lockpc[u] = "holding" /\ InTable(u)
      BY <1>4, <2>2 DEF LockInv, LockTypeOK, LockOrUnlock, LockAt, InTable
    <3>2. ProcessOf[u] # ProcessOf[t]
      BY <1>2, <2>2, <3>1 DEF LockInv
    <3>3. ProcessOf[u] \in gaveUp
      BY <3>1, <3>2, ProcessIsSome DEF LockInv, LockOrUnlock
    <3> QED  BY <3>2, <3>3 DEF LockOrUnlock
  <2> QED  BY <2>1, <2>2
<1> QED  BY <1>1, <1>3, <1>4 DEF LockInv, LockOrUnlock

\* A close takes the kernel's lock from the process, and remembers that it did.
LEMMA CloseKeeps ==
  ASSUME LockInv, NEW t \in LockThreads,
         CloseRefused(t) \/ CloseDenied(t) \/ UnlockClose(t)
  PROVE  LockInv'
<1>1. LockTypeOK'
  BY DEF LockInv, LockTypeOK, CloseRefused, CloseDenied, UnlockClose, LockAt, LockStates
<1>2. \A u \in LockThreads : InTable(u)' => InTable(u)
  BY DEF LockInv, LockTypeOK, CloseRefused, CloseDenied, UnlockClose, LockAt, InTable
<1>3. \A u \in LockThreads : lockpc'[u] = "holding" => lockpc[u] = "holding"
  BY DEF LockInv, LockTypeOK, CloseRefused, CloseDenied, UnlockClose, LockAt
<1>4. CloseOther(ProcessOf[t]) /\ UNCHANGED locked_files_
  BY DEF CloseRefused, CloseDenied, UnlockClose
<1> QED  BY <1>1, <1>2, <1>3, <1>4 DEF LockInv, CloseOther, ClosedBy

\* locks_.Remove: the thread that leaves was its process's only one in the table.
LEMMA RemoveKeeps ==
  ASSUME LockInv, NEW t \in LockThreads, RemoveDenied(t) \/ UnlockRemove(t)
  PROVE  LockInv'
<1>1. LockTypeOK'
  BY DEF LockInv, LockTypeOK, RemoveDenied, UnlockRemove, LockAt, LockStates
<1>2. InTable(t)
  BY DEF RemoveDenied, UnlockRemove, LockAt, InTable
<1>3. \A u \in LockThreads : InTable(u)' => InTable(u) /\ u # t
  BY DEF LockInv, LockTypeOK, RemoveDenied, UnlockRemove, LockAt, InTable
<1>4. \A u \in LockThreads : lockpc'[u] = "holding" => lockpc[u] = "holding"
  BY DEF LockInv, LockTypeOK, RemoveDenied, UnlockRemove, LockAt
<1>5. \A u \in LockThreads : InTable(u)' => ProcessOf[u] # ProcessOf[t]
  BY <1>2, <1>3 DEF LockInv
<1> QED  BY <1>1, <1>3, <1>4, <1>5 DEF LockInv, RemoveDenied, UnlockRemove

\* UnlockFile gives back the kernel's lock of a process whose only holder leaves.
LEMMA UnlockFileKeeps ==
  ASSUME LockInv, NEW t \in LockThreads, UnlockFile(t)
  PROVE  LockInv'
<1>1. LockTypeOK'
  BY DEF LockInv, LockTypeOK, UnlockFile, LockAt, LockStates
<1>2. InTable(t)
  BY DEF UnlockFile, LockAt, InTable
<1>3. \A u \in LockThreads : InTable(u)' => InTable(u)
  BY DEF LockInv, LockTypeOK, UnlockFile, LockAt, InTable
<1>4. \A u \in LockThreads : lockpc'[u] = "holding" =>
        lockpc[u] = "holding" /\ InTable(u) /\ u # t
  BY DEF LockInv, LockTypeOK, UnlockFile, LockAt, InTable
<1>5. \A u \in LockThreads : lockpc'[u] = "holding" => ProcessOf[u] # ProcessOf[t]
  BY <1>2, <1>4 DEF LockInv
<1> QED  BY <1>1, <1>3, <1>4, <1>5 DEF LockInv, UnlockFile, ClosedBy

\* The end of a process: none of its threads is left in the table.
LEMMA ProcessEndsKeeps ==
  ASSUME LockInv, NEW p \in Processes, ProcessEnds(p)
  PROVE  LockInv'
<1>1. LockTypeOK'
  BY DEF LockInv, LockTypeOK, ProcessEnds, LockStates
<1>2. \A u \in LockThreads : InTable(u)' => InTable(u) /\ ProcessOf[u] # p
  BY DEF LockInv, LockTypeOK, ProcessEnds, InTable
<1>3. \A u \in LockThreads : lockpc'[u] = "holding" =>
        lockpc[u] = "holding" /\ ProcessOf[u] # p
  BY DEF LockInv, LockTypeOK, ProcessEnds
<1> QED  BY <1>1, <1>2, <1>3 DEF LockInv, ProcessEnds, ClosedBy

\* LockFile and UnlockFile exclude: two threads hold the lock of a database only
\* when they are of different processes and one of these gave the lock up by
\* closing another descriptor of the file (env_posix.cc:469-471, 492-493).
THEOREM LockIsExclusive == LockSpec => []LockExcludes
<1>1. LockInit => LockInv
  BY DEF LockInit, LockInv, LockTypeOK, LockStates, InTable
<1>2. LockInv /\ [LockNext]_lockVars => LockInv'
  <2> SUFFICES ASSUME LockInv, [LockNext]_lockVars
               PROVE  LockInv'
    OBVIOUS
  <2>1. ASSUME NEW t \in LockThreads,
               \/ LockFile(t) \/ LockInsert(t) \/ LockAlreadyHeld(t) \/ CloseRefused(t)
               \/ LockOrUnlock(t) \/ LockDenied(t) \/ CloseDenied(t) \/ RemoveDenied(t)
               \/ UnlockFile(t) \/ UnlockRemove(t) \/ UnlockClose(t)
        PROVE  LockInv'
    BY <2>1, LockFileKeeps, LockInsertKeeps, LockOrUnlockKeeps, CloseKeeps,
       RemoveKeeps, UnlockFileKeeps
  <2>2. ASSUME NEW p \in Processes, ProcessEnds(p)
        PROVE  LockInv'
    BY <2>2, ProcessEndsKeeps
  <2>3. CASE UNCHANGED lockVars
    BY <2>3 DEF lockVars, LockInv, LockTypeOK, InTable
  <2> QED  BY <2>1, <2>2, <2>3 DEF LockNext
<1>3. LockInv => LockExcludes
  <2> SUFFICES ASSUME LockInv, NEW t \in LockThreads, NEW u \in LockThreads,
                      lockpc[t] = "holding", lockpc[u] = "holding", t # u
               PROVE  /\ ProcessOf[t] # ProcessOf[u]
                      /\ {ProcessOf[t], ProcessOf[u]} \cap gaveUp # {}
    BY DEF LockExcludes
  <2>1. ProcessOf[t] # ProcessOf[u]
    BY DEF LockInv, InTable
  <2> QED  BY <2>1 DEF LockInv
<1> QED  BY <1>1, <1>2, <1>3, PTL DEF LockSpec

-----------------------------------------------------------------------------
(* The limits.                                                             *)

MmapStates == {<<"has", "mmap">>, <<"mapped">>}
FdStates == {<<"has", "fd">>, <<"open">>}
FileStates == MmapStates \cup FdStates \cup
  {<<"idle">>, <<"temporary">>, <<"acquire", "mmap">>, <<"no", "mmap">>,
   <<"acquire", "fd">>, <<"no", "fd">>}

\* The threads in one of the states.
In(states) == {t \in FileThreads : filepc[t] \in states}

FileTypeOK ==
  /\ filepc \in [FileThreads -> FileStates]
  /\ allowed_ \in [{"mmap", "fd"} -> Int]

LimitInv == FileTypeOK /\ LimitsRespected

\* The invariant in terms of In.
LEMMA LimitsAreCounts ==
  LimitsRespected <=>
    /\ Cardinality(In(MmapStates)) + allowed_["mmap"] = MmapLimit /\ allowed_["mmap"] >= 0
    /\ Cardinality(In(FdStates)) + allowed_["fd"] = FdLimit /\ allowed_["fd"] >= 0
BY DEF LimitsRespected, In, MmapStates, FdStates

\* The same after a step.
LEMMA LimitsAreCountsNext ==
  LimitsRespected' <=>
    /\ Cardinality(In(MmapStates))' + allowed_'["mmap"] = MmapLimit /\ allowed_'["mmap"] >= 0
    /\ Cardinality(In(FdStates))' + allowed_'["fd"] = FdLimit /\ allowed_'["fd"] >= 0
BY DEF LimitsRespected, In, MmapStates, FdStates

\* The limits are numbers.
LEMMA LimitsAreNumbers == MmapLimit \in Nat /\ FdLimit \in Nat
BY EnvAssumption

\* The number of the threads in a set of states is a number.
LEMMA InIsFinite ==
  ASSUME NEW states
  PROVE  IsFiniteSet(In(states)) /\ Cardinality(In(states)) \in Nat
<1>1. In(states) \in SUBSET FileThreads
  BY DEF In
<1>2. IsFiniteSet(In(states))
  BY <1>1, FS_Subset, EnvAssumption
<1> QED  BY <1>2, FS_CardinalityType

\* A thread's move changes the number by what it leaves and what it enters.
LEMMA MoveCounts ==
  ASSUME NEW states, NEW from, NEW to, NEW t \in FileThreads, FileTypeOK,
         FileAt(t, from, to)
  PROVE  Cardinality(In(states))' =
           Cardinality(In(states)) + (IF to \in states THEN 1 ELSE 0)
                                   - (IF from \in states THEN 1 ELSE 0)
<1> DEFINE rest == In(states) \ {t}
<1>1. IsFiniteSet(rest)
  BY InIsFinite, FS_RemoveElement
<1>2. Cardinality(rest) \in Nat
  BY <1>1, FS_CardinalityType
<1>3. Cardinality(rest \cup {t}) = Cardinality(rest) + 1
  BY <1>1, FS_AddElement
<1>4. In(states) = IF from \in states THEN rest \cup {t} ELSE rest
  BY DEF In, FileAt
<1>5. In(states)' = IF to \in states THEN rest \cup {t} ELSE rest
  BY DEF In, FileAt, FileTypeOK
<1>6. Cardinality(In(states)) = Cardinality(rest) + (IF from \in states THEN 1 ELSE 0)
  BY <1>2, <1>3, <1>4
<1>7. Cardinality(In(states))' = Cardinality(rest) + (IF to \in states THEN 1 ELSE 0)
  BY <1>2, <1>3, <1>5
<1> HIDE DEF rest
<1> QED  BY <1>2, <1>6, <1>7

\* The states differ.
LEMMA FileStatesDiffer ==
  /\ {<<"has", "mmap">>, <<"mapped">>} \cap
     {<<"idle">>, <<"temporary">>, <<"open">>, <<"acquire", "mmap">>, <<"no", "mmap">>,
      <<"acquire", "fd">>, <<"no", "fd">>, <<"has", "fd">>} = {}
  /\ {<<"has", "fd">>, <<"open">>} \cap
     {<<"idle">>, <<"temporary">>, <<"mapped">>, <<"acquire", "mmap">>, <<"no", "mmap">>,
      <<"acquire", "fd">>, <<"no", "fd">>, <<"has", "mmap">>} = {}
OBVIOUS

\* A step that moves a thread between states that hold nothing.
LEMMA NothingHeld ==
  ASSUME LimitInv, NEW t \in FileThreads, NEW from, NEW to, FileAt(t, from, to),
         to \in FileStates, UNCHANGED allowed_,
         from \in MmapStates <=> to \in MmapStates,
         from \in FdStates <=> to \in FdStates
  PROVE  LimitInv'
<1>1. FileTypeOK'
  BY DEF LimitInv, FileTypeOK, FileAt
<1>2. /\ Cardinality(In(MmapStates))' = Cardinality(In(MmapStates))
      /\ Cardinality(In(FdStates))' = Cardinality(In(FdStates))
  BY MoveCounts, InIsFinite DEF LimitInv
<1>3. LimitsRespected'
  BY <1>2, LimitsAreCounts, LimitsAreCountsNext DEF LimitInv
<1> QED  BY <1>1, <1>3 DEF LimitInv

\* A step that takes one of the limit "mmap", and one that gives it back.
LEMMA MmapTaken ==
  ASSUME LimitInv, NEW t \in FileThreads, NEW from, NEW to, FileAt(t, from, to),
         to \in FileStates, from \notin FdStates, to \notin FdStates,
         \/ /\ from \notin MmapStates /\ to \in MmapStates /\ allowed_["mmap"] > 0
            /\ allowed_' = [allowed_ EXCEPT !["mmap"] = @ - 1]
         \/ /\ from \in MmapStates /\ to \notin MmapStates
            /\ allowed_' = [allowed_ EXCEPT !["mmap"] = @ + 1]
  PROVE  LimitInv'
<1>1. FileTypeOK'
  BY DEF LimitInv, FileTypeOK, FileAt
<1>2. /\ Cardinality(In(MmapStates))' = Cardinality(In(MmapStates)) +
           (IF to \in MmapStates THEN 1 ELSE -1)
      /\ Cardinality(In(FdStates))' = Cardinality(In(FdStates))
  BY MoveCounts, InIsFinite DEF LimitInv
<1>3. LimitsRespected'
  BY <1>2, LimitsAreCounts, LimitsAreCountsNext, InIsFinite, LimitsAreNumbers
    DEF LimitInv, FileTypeOK
<1> QED  BY <1>1, <1>3 DEF LimitInv

\* The same of the limit "fd".
LEMMA FdTaken ==
  ASSUME LimitInv, NEW t \in FileThreads, NEW from, NEW to, FileAt(t, from, to),
         to \in FileStates, from \notin MmapStates, to \notin MmapStates,
         \/ /\ from \notin FdStates /\ to \in FdStates /\ allowed_["fd"] > 0
            /\ allowed_' = [allowed_ EXCEPT !["fd"] = @ - 1]
         \/ /\ from \in FdStates /\ to \notin FdStates
            /\ allowed_' = [allowed_ EXCEPT !["fd"] = @ + 1]
  PROVE  LimitInv'
<1>1. FileTypeOK'
  BY DEF LimitInv, FileTypeOK, FileAt
<1>2. /\ Cardinality(In(FdStates))' = Cardinality(In(FdStates)) +
           (IF to \in FdStates THEN 1 ELSE -1)
      /\ Cardinality(In(MmapStates))' = Cardinality(In(MmapStates))
  BY MoveCounts, InIsFinite DEF LimitInv
<1>3. LimitsRespected'
  BY <1>2, LimitsAreCounts, LimitsAreCountsNext, InIsFinite, LimitsAreNumbers
    DEF LimitInv, FileTypeOK
<1> QED  BY <1>1, <1>3 DEF LimitInv

\* NewRandomAccessFile and the constructors keep the invariant: the first look
\* at the limit, without the lock, decides nothing.
LEMMA OpenKeeps ==
  ASSUME LimitInv, NEW t \in FileThreads,
         \/ NewRandomAccessFile(t) \/ MmapReadableFile(t) \/ RandomAccessFile(t)
         \/ KeepDescriptor(t) \/ TemporaryDescriptor(t)
  PROVE  LimitInv'
<1> USE FileStatesDiffer DEF FileStates, MmapStates, FdStates
<1>1. CASE NewRandomAccessFile(t)
  BY <1>1, NothingHeld DEF NewRandomAccessFile
<1>2. CASE MmapReadableFile(t)
  BY <1>2, NothingHeld DEF MmapReadableFile
<1>3. CASE RandomAccessFile(t)
  BY <1>3, NothingHeld DEF RandomAccessFile
<1>4. CASE KeepDescriptor(t)
  BY <1>4, NothingHeld DEF KeepDescriptor
<1>5. CASE TemporaryDescriptor(t)
  BY <1>5, NothingHeld DEF TemporaryDescriptor
<1> QED  BY <1>1, <1>2, <1>3, <1>4, <1>5

\* Limiter::Acquire decides under the lock.
LEMMA AcquireKeeps ==
  ASSUME LimitInv, NEW t \in FileThreads, NEW limit \in {"mmap", "fd"}, Acquire(t, limit)
  PROVE  LimitInv'
<1> USE FileStatesDiffer DEF FileStates, MmapStates, FdStates
<1>1. CASE allowed_[limit] <= 0
  BY <1>1, NothingHeld DEF Acquire
<1>2. CASE ~(allowed_[limit] <= 0)
  <2>0. allowed_[limit] > 0
    BY <1>2 DEF LimitInv, FileTypeOK
  <2>1. CASE limit = "mmap"
    BY <1>2, <2>0, <2>1, MmapTaken DEF Acquire
  <2>2. CASE limit = "fd"
    BY <1>2, <2>0, <2>2, FdTaken DEF Acquire
  <2> QED  BY <2>1, <2>2
<1> QED  BY <1>1, <1>2

\* Release, by a failure or by a destructor, gives back what Acquire took.
LEMMA ReleaseKeeps ==
  ASSUME LimitInv, NEW t \in FileThreads, MmapFails(t) \/ DeleteFileObject(t)
  PROVE  LimitInv'
<1> USE FileStatesDiffer DEF FileStates, MmapStates, FdStates
<1>1. CASE MmapFails(t)
  BY <1>1, MmapTaken DEF MmapFails
<1>2. CASE FileAt(t, <<"mapped">>, <<"idle">>) /\ allowed_' = [allowed_ EXCEPT !["mmap"] = @ + 1]
  BY <1>2, MmapTaken
<1>3. CASE FileAt(t, <<"open">>, <<"idle">>) /\ allowed_' = [allowed_ EXCEPT !["fd"] = @ + 1]
  BY <1>3, FdTaken
<1>4. CASE FileAt(t, <<"temporary">>, <<"idle">>) /\ UNCHANGED allowed_
  BY <1>4, NothingHeld
<1> QED  BY <1>1, <1>2, <1>3, <1>4 DEF DeleteFileObject

\* Every mapping and every descriptor that is kept was taken from its limit, and
\* what a destructor or a failure gives back can be had again.
THEOREM LimitsHold == LimitSpec => []LimitsRespected
<1>1. LimitInit => LimitInv
  <2> SUFFICES ASSUME LimitInit
               PROVE  LimitInv
    OBVIOUS
  <2>1. FileTypeOK
    BY LimitsAreNumbers DEF LimitInit, FileTypeOK, FileStates
  <2>2. In(MmapStates) = {} /\ In(FdStates) = {}
    BY FileStatesDiffer DEF LimitInit, In, MmapStates, FdStates
  <2>3. LimitsRespected
    BY <2>2, FS_EmptySet, LimitsAreCounts, LimitsAreNumbers DEF LimitInit
  <2> QED  BY <2>1, <2>3 DEF LimitInv
<1>2. LimitInv /\ [LimitNext]_fileVars => LimitInv'
  <2>1. ASSUME LimitInv, LimitNext
        PROVE  LimitInv'
    BY <2>1, OpenKeeps, AcquireKeeps, ReleaseKeeps DEF LimitNext
  <2>2. ASSUME LimitInv, UNCHANGED fileVars
        PROVE  LimitInv'
    BY <2>2 DEF LimitInv, FileTypeOK, LimitsRespected, fileVars
  <2> QED  BY <2>1, <2>2
<1>3. LimitInv => LimitsRespected
  BY DEF LimitInv
<1> QED  BY <1>1, <1>2, <1>3, PTL DEF LimitSpec

-----------------------------------------------------------------------------
(* The background thread.                                                  *)

QueueTypeOK ==
  /\ queue_ \in Seq(Nat) /\ ran \in Seq(Nat)
  /\ scheduled \in Nat
  /\ bgthread \in {"none", "locked", "waiting", "signalled", "running"}

QueueInv == QueueTypeOK /\ NoLostWakeup

\* Counting one further is appending the next number.
LEMMA CountAppended ==
  ASSUME NEW n \in Nat
  PROVE  [i \in 1..(n + 1) |-> i] = Append([i \in 1..n |-> i], n + 1)
<1> DEFINE count == [i \in 1..n |-> i]
<1>1. count \in Seq(Nat) /\ Len(count) = n
  OBVIOUS
<1>2. DOMAIN Append(count, n + 1) = 1..(n + 1)
  BY <1>1
<1>3. \A i \in 1..(n + 1) : Append(count, n + 1)[i] = i
  BY <1>1
<1>4. Append(count, n + 1) \in [1..(n + 1) -> Nat]
  <2>1. Append(count, n + 1) \in Seq(Nat) /\ Len(Append(count, n + 1)) = n + 1
    BY <1>1, AppendProperties
  <2> QED  BY <2>1, LenProperties
<1> HIDE DEF count
<1>5. Append(count, n + 1) = [i \in 1..(n + 1) |-> Append(count, n + 1)[i]]
  BY <1>4
<1> QED  BY <1>3, <1>5 DEF count

\* Schedule signals the thread when it may wait, and the item comes last.
LEMMA ScheduleKeeps ==
  ASSUME QueueInv, Schedule
  PROVE  QueueInv'
<1>1. QueueTypeOK'
  BY DEF QueueInv, QueueTypeOK, Schedule
<1>2. bgthread' \in {"locked", "signalled", "running"}
  BY DEF QueueInv, QueueTypeOK, NoLostWakeup, Schedule
<1>3. ran' \o queue_' = Append(ran \o queue_, scheduled + 1)
  <2> DEFINE item == <<scheduled + 1>>
  <2>1. queue_' = queue_ \o item /\ ran' = ran
    BY AppendIsConcat DEF QueueInv, QueueTypeOK, Schedule
  <2>2. /\ queue_ \in Seq(Nat) /\ ran \in Seq(Nat) /\ item \in Seq(Nat)
        /\ ran \o queue_ \in Seq(Nat) /\ scheduled + 1 \in Nat
    BY DEF QueueInv, QueueTypeOK
  <2>3. Append(ran \o queue_, scheduled + 1) = (ran \o queue_) \o item
    BY <2>2, AppendIsConcat
  <2>4. (ran \o queue_) \o item = ran \o (queue_ \o item)
    BY SMTT(30), <2>2, ConcatAssociative
  <2> QED  BY <2>1, <2>3, <2>4
<1>4. ran' \o queue_' = [i \in 1..scheduled' |-> i]
  BY <1>3, CountAppended DEF QueueInv, QueueTypeOK, NoLostWakeup, Schedule
<1> QED  BY <1>1, <1>2, <1>4 DEF QueueInv, NoLostWakeup

\* BGThread waits only when the queue is empty, and takes the oldest item.
LEMMA BGThreadKeeps ==
  ASSUME QueueInv, BGThread
  PROVE  QueueInv'
<1>1. CASE queue_ = <<>>
  BY <1>1 DEF QueueInv, QueueTypeOK, NoLostWakeup, BGThread
<1>2. CASE queue_ # <<>>
  <2> DEFINE item == <<queue_[1]>>
  <2>1. /\ queue_ \in Seq(Nat) /\ ran \in Seq(Nat) /\ queue_[1] \in Nat
        /\ Tail(queue_) \in Seq(Nat) /\ item \in Seq(Nat)
    BY <1>2 DEF QueueInv, QueueTypeOK
  <2>2. queue_ = item \o Tail(queue_)
    BY <1>2, <2>1
  <2>3. queue_' = Tail(queue_) /\ ran' = ran \o item /\ bgthread' = "running"
    BY <1>2, <2>1, AppendIsConcat DEF BGThread
  <2>4. ran' \o queue_' = ran \o queue_
    BY SMTT(30), <2>1, <2>2, <2>3, ConcatAssociative
  <2>5. QueueTypeOK'
    <3>1. ran' \in Seq(Nat)
      BY <2>1, <2>3, ConcatProperties
    <3> QED  BY <2>1, <2>3, <3>1 DEF QueueInv, QueueTypeOK, BGThread
  <2> QED  BY <2>3, <2>4, <2>5 DEF QueueInv, NoLostWakeup, BGThread
<1> QED  BY <1>1, <1>2

\* The thread never sleeps while an item is queued, and the items run one by
\* one in the order of the Schedule calls (Schedule and BGThread).
THEOREM NoWakeupIsLost == QueueSpec => []NoLostWakeup
<1>1. QueueInit => QueueInv
  <2> SUFFICES ASSUME QueueInit
               PROVE  QueueInv
    OBVIOUS
  <2>1. <<>> = [i \in 1..0 |-> i] /\ <<>> \o <<>> = <<>>
    OBVIOUS
  <2> QED  BY <2>1 DEF QueueInit, QueueInv, QueueTypeOK, NoLostWakeup
<1>2. QueueInv /\ [QueueNext]_queueVars => QueueInv'
  <2> SUFFICES ASSUME QueueInv, [QueueNext]_queueVars
               PROVE  QueueInv'
    OBVIOUS
  <2>1. CASE SpuriousWakeup \/ ItemDone
    BY <2>1 DEF QueueInv, QueueTypeOK, NoLostWakeup, SpuriousWakeup, ItemDone
  <2>2. CASE UNCHANGED queueVars
    BY <2>2 DEF QueueInv, QueueTypeOK, NoLostWakeup, queueVars
  <2> QED  BY <2>1, <2>2, ScheduleKeeps, BGThreadKeeps DEF QueueNext
<1>3. QueueInv => NoLostWakeup
  BY DEF QueueInv
<1> QED  BY <1>1, <1>2, <1>3, PTL DEF QueueSpec

\* The threads of a process can rely on the limits and on the queue together.
THEOREM EnvIsSound == LimitSpec /\ QueueSpec => []EnvSound
<1>1. LimitsRespected /\ NoLostWakeup => EnvSound
  BY DEF EnvSound
<1> QED  BY <1>1, LimitsHold, NoWakeupIsLost, PTL
=============================================================================
