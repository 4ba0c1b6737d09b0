----------------------------- MODULE PosixEnv -----------------------------
(***************************************************************************)
(* What leveldb's PosixEnv (util/env_posix.cc) does between threads and    *)
(* processes: the lock of a database directory, the limits on read-only    *)
(* files and mappings, and the queue of the background thread.  The three  *)
(* share no state and are three next-state relations.                      *)
(***************************************************************************)
EXTENDS Integers, Sequences, FiniteSets

CONSTANTS
  LockThreads,   \* threads that lock and unlock the LOCK file
  ProcessOf,     \* the process of each of them
  FileThreads,   \* threads that open and close a table file
  MmapLimit, FdLimit,   \* MaxMmaps(), MaxOpenFiles()
  MaxScheduled   \* bound: calls of Schedule

ASSUME EnvAssumption ==
  /\ DOMAIN ProcessOf = LockThreads
  /\ "no process" \notin {ProcessOf[t] : t \in LockThreads}
  /\ IsFiniteSet(FileThreads)
  /\ {MmapLimit, FdLimit, MaxScheduled} \subseteq Nat

VARIABLES
  \* --- LockFile and UnlockFile
  lockpc,        \* where each thread is
  locked_files_, \* the processes whose PosixLockTable has the file
  kernelLock,    \* the process that has the fcntl lock on the file
  gaveUp,        \* history: the processes that gave up their lock when they
                 \* closed another descriptor of the file
  \* --- NewRandomAccessFile, the files it makes, and their destructors
  filepc,        \* what each thread does or has
  allowed_,      \* of mmap_limit_ and of fd_limit_
  \* --- Schedule and BGThread
  queue_,        \* items, by the number of their Schedule call
  bgthread,      \* "none", "locked" (about to test the queue), "waiting",
                 \* "signalled" (woken, without the mutex), "running"
  scheduled,     \* how many items were scheduled
  ran            \* the items that ran, in order

lockVars == <<lockpc, locked_files_, kernelLock, gaveUp>>
fileVars == <<filepc, allowed_>>
queueVars == <<queue_, bgthread, scheduled, ran>>

NoProcess == "no process"
Processes == {ProcessOf[t] : t \in LockThreads}

-----------------------------------------------------------------------------
(* The lock.  close() of any descriptor of the file gives up the process's *)
(* fcntl lock on it.                                                       *)

ClosedBy(p) == IF kernelLock = p THEN NoProcess ELSE kernelLock

\* close() of a descriptor that is not the one of the lock
CloseOther(p) ==
  /\ kernelLock' = ClosedBy(p)
  /\ gaveUp' = IF kernelLock = p THEN gaveUp \cup {p} ELSE gaveUp

LockAt(t, from, to) == lockpc[t] = from /\ lockpc' = [lockpc EXCEPT ![t] = to]

\* LockFile: open
LockFile(t) ==
  /\ LockAt(t, "idle", "opened")
  /\ UNCHANGED <<locked_files_, kernelLock, gaveUp>>

\* locks_.Insert succeeds; or the process has the lock, and the file is closed.
LockInsert(t) ==
  /\ ProcessOf[t] \notin locked_files_
  /\ LockAt(t, "opened", "inserted")
  /\ locked_files_' = locked_files_ \cup {ProcessOf[t]}
  /\ UNCHANGED <<kernelLock, gaveUp>>

LockAlreadyHeld(t) ==
  /\ ProcessOf[t] \in locked_files_
  /\ LockAt(t, "opened", "refused")
  /\ UNCHANGED <<locked_files_, kernelLock, gaveUp>>

CloseRefused(t) ==
  /\ LockAt(t, "refused", "idle")
  /\ CloseOther(ProcessOf[t])
  /\ UNCHANGED locked_files_

\* Mutant: the answer of fcntl is not looked at.
LockOrUnlockIgnored(t) ==
  /\ LockAt(t, "inserted", "holding")
  /\ kernelLock' = IF kernelLock = NoProcess THEN ProcessOf[t] ELSE kernelLock
  /\ UNCHANGED <<locked_files_, gaveUp>>

\* LockOrUnlock(fd, true): another process may have the lock.
LockOrUnlock(t) ==
  /\ kernelLock \in {NoProcess, ProcessOf[t]}
  /\ LockAt(t, "inserted", "holding")
  /\ kernelLock' = ProcessOf[t]
  /\ gaveUp' = gaveUp \ {ProcessOf[t]}
  /\ UNCHANGED locked_files_

LockDenied(t) ==
  /\ kernelLock \notin {NoProcess, ProcessOf[t]}
  /\ LockAt(t, "inserted", "denied")
  /\ UNCHANGED <<locked_files_, kernelLock, gaveUp>>

\* close, then locks_.Remove
CloseDenied(t) ==
  /\ LockAt(t, "denied", "closed")
  /\ CloseOther(ProcessOf[t])
  /\ UNCHANGED locked_files_

RemoveDenied(t) ==
  /\ LockAt(t, "closed", "idle")
  /\ locked_files_' = locked_files_ \ {ProcessOf[t]}
  /\ UNCHANGED <<kernelLock, gaveUp>>

\* UnlockFile: LockOrUnlock(fd, false), locks_.Remove, close
UnlockFile(t) ==
  /\ LockAt(t, "holding", "unlocked")
  /\ kernelLock' = ClosedBy(ProcessOf[t])
  /\ UNCHANGED <<locked_files_, gaveUp>>

UnlockRemove(t) ==
  /\ LockAt(t, "unlocked", "removed")
  /\ locked_files_' = locked_files_ \ {ProcessOf[t]}
  /\ UNCHANGED <<kernelLock, gaveUp>>

UnlockClose(t) ==
  /\ LockAt(t, "removed", "idle")
  /\ CloseOther(ProcessOf[t])
  /\ UNCHANGED locked_files_

\* The process ends: the kernel closes its files.
ProcessEnds(p) ==
  /\ \E t \in LockThreads : ProcessOf[t] = p /\ lockpc[t] # "idle"
  /\ lockpc' = [t \in LockThreads |-> IF ProcessOf[t] = p THEN "idle" ELSE lockpc[t]]
  /\ locked_files_' = locked_files_ \ {p}
  /\ kernelLock' = ClosedBy(p)
  /\ gaveUp' = gaveUp \ {p}

LockInit ==
  /\ lockpc = [t \in LockThreads |-> "idle"]
  /\ locked_files_ = {} /\ kernelLock = NoProcess /\ gaveUp = {}

LockNext ==
  \/ \E t \in LockThreads :
       \/ LockFile(t) \/ LockInsert(t) \/ LockAlreadyHeld(t) \/ CloseRefused(t)
       \/ LockOrUnlock(t) \/ LockDenied(t) \/ CloseDenied(t) \/ RemoveDenied(t)
       \/ UnlockFile(t) \/ UnlockRemove(t) \/ UnlockClose(t)
  \/ \E p \in Processes : ProcessEnds(p)

LockSpec == LockInit /\ [][LockNext]_lockVars

\* At most one of all threads of all processes holds the lock of the database:
\* locks_ keeps the threads of a process apart, fcntl the processes.  fcntl does
\* so only until the holder's process closes another descriptor of the file, as
\* LockFile does when it refuses a second thread (env_posix.cc:469-471) and
\* UnlockFile when another thread locks the file before its close
\* (env_posix.cc:492-493); that is the only way in which two can hold it.
LockExcludes ==
  \A t, u \in LockThreads :
     lockpc[t] = "holding" /\ lockpc[u] = "holding" /\ t # u =>
       /\ ProcessOf[t] # ProcessOf[u]
       /\ {ProcessOf[t], ProcessOf[u]} \cap gaveUp # {}

-----------------------------------------------------------------------------
(* The limits.  limit is "mmap" or "fd".                                   *)

FileAt(t, from, to) == filepc[t] = from /\ filepc' = [filepc EXCEPT ![t] = to]

\* NewRandomAccessFile opens the file; the first look of Acquire has no lock.
NewRandomAccessFile(t) ==
  /\ FileAt(t, <<"idle">>, IF allowed_["mmap"] > 0 THEN <<"acquire", "mmap">> ELSE <<"no", "mmap">>)
  /\ UNCHANGED allowed_

\* Mutant: the value seen without the lock is good enough.
AcquireUnchecked(t, limit) ==
  /\ FileAt(t, <<"acquire", limit>>, <<"has", limit>>)
  /\ allowed_' = [allowed_ EXCEPT ![limit] = @ - 1]

\* Limiter::Acquire under the lock
Acquire(t, limit) ==
  /\ FileAt(t, <<"acquire", limit>>, IF allowed_[limit] <= 0 THEN <<"no", limit>> ELSE <<"has", limit>>)
  /\ allowed_' = IF allowed_[limit] <= 0 THEN allowed_ ELSE [allowed_ EXCEPT ![limit] = @ - 1]

\* mmap or GetFileSize fails: Release
MmapFails(t) ==
  /\ FileAt(t, <<"has", "mmap">>, <<"idle">>)
  /\ allowed_' = [allowed_ EXCEPT !["mmap"] = @ + 1]

MmapReadableFile(t) ==
  /\ FileAt(t, <<"has", "mmap">>, <<"mapped">>)
  /\ UNCHANGED allowed_

\* PosixRandomAccessFile: keep the descriptor if the limit allows it, else open
\* the file for every read.
RandomAccessFile(t) ==
  /\ FileAt(t, <<"no", "mmap">>, IF allowed_["fd"] > 0 THEN <<"acquire", "fd">> ELSE <<"no", "fd">>)
  /\ UNCHANGED allowed_

KeepDescriptor(t) == FileAt(t, <<"has", "fd">>, <<"open">>) /\ UNCHANGED allowed_
TemporaryDescriptor(t) == FileAt(t, <<"no", "fd">>, <<"temporary">>) /\ UNCHANGED allowed_

\* The destructors
DeleteFileObject(t) ==
  \/ FileAt(t, <<"mapped">>, <<"idle">>) /\ allowed_' = [allowed_ EXCEPT !["mmap"] = @ + 1]
  \/ FileAt(t, <<"open">>, <<"idle">>) /\ allowed_' = [allowed_ EXCEPT !["fd"] = @ + 1]
  \/ FileAt(t, <<"temporary">>, <<"idle">>) /\ UNCHANGED allowed_

LimitInit ==
  /\ filepc = [t \in FileThreads |-> <<"idle">>]
  /\ allowed_ = [limit \in {"mmap", "fd"} |-> IF limit = "mmap" THEN MmapLimit ELSE FdLimit]

LimitNext ==
  \E t \in FileThreads :
    \/ NewRandomAccessFile(t) \/ (\E limit \in {"mmap", "fd"} : Acquire(t, limit))
    \/ MmapFails(t) \/ MmapReadableFile(t) \/ RandomAccessFile(t)
    \/ KeepDescriptor(t) \/ TemporaryDescriptor(t) \/ DeleteFileObject(t)

LimitSpec == LimitInit /\ [][LimitNext]_fileVars

\* No more files are mapped, and no more descriptors kept, than the limits say,
\* and what is given back can be had again.
LimitsRespected ==
  LET Has(states) == Cardinality({t \in FileThreads : filepc[t] \in states})
  IN /\ Has({<<"has", "mmap">>, <<"mapped">>}) + allowed_["mmap"] = MmapLimit /\ allowed_["mmap"] >= 0
     /\ Has({<<"has", "fd">>, <<"open">>}) + allowed_["fd"] = FdLimit /\ allowed_["fd"] >= 0

-----------------------------------------------------------------------------
(* The background thread.                                                  *)

\* Schedule: starts the thread if necessary, and signals it if the queue is empty
Schedule ==
  /\ scheduled < MaxScheduled
  /\ scheduled' = scheduled + 1
  /\ queue_' = Append(queue_, scheduled + 1)
  /\ bgthread' = CASE bgthread = "none" -> "locked"
                   [] bgthread = "waiting" /\ queue_ = <<>> -> "signalled"
                   [] OTHER -> bgthread
  /\ UNCHANGED ran

\* BGThread tests the queue with the mutex: it waits, or takes the first item.
BGThread ==
  /\ bgthread \in {"locked", "signalled"}
  /\ IF queue_ = <<>> THEN bgthread' = "waiting" /\ UNCHANGED <<queue_, ran>>
     ELSE /\ bgthread' = "running"
          /\ queue_' = Tail(queue_)
          /\ ran' = Append(ran, queue_[1])
  /\ UNCHANGED scheduled

\* pthread_cond_wait may return without a signal.
SpuriousWakeup ==
  /\ bgthread = "waiting"
  /\ bgthread' = "signalled"
  /\ UNCHANGED <<queue_, scheduled, ran>>

\* The item's function returns.
ItemDone ==
  /\ bgthread = "running"
  /\ bgthread' = "locked"
  /\ UNCHANGED <<queue_, scheduled, ran>>

QueueInit == queue_ = <<>> /\ bgthread = "none" /\ scheduled = 0 /\ ran = <<>>
QueueNext == Schedule \/ BGThread \/ SpuriousWakeup \/ ItemDone
QueueSpec == QueueInit /\ [][QueueNext]_queueVars

\* The thread does not sleep while there is work, and runs the items one by one
\* in the order of the Schedule calls.
NoLostWakeup ==
  /\ queue_ # <<>> => bgthread \in {"locked", "signalled", "running"}
  /\ ran \o queue_ = [i \in 1..scheduled |-> i]

\* What threads of a process rely on: the limits and the queue
EnvSound == LimitsRespected /\ NoLostWakeup
=============================================================================
