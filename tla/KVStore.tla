------------------------------ MODULE KVStore ------------------------------
(***************************************************************************)
(* What leveldb's DB interface promises: a map from keys to values,        *)
(* snapshots that never change, and reads (Get, iterators) that see one    *)
(* state of the map from their start to their end.                         *)
(***************************************************************************)
EXTENDS Naturals, Sequences

CONSTANTS
  Keys,     \* the user keys
  NotFound  \* what a read of an absent key returns

VARIABLES
  writes,     \* how many writes there were: the n-th one's value is n
  store,      \* the current value of every key
  snapshots,  \* the views of the snapshots, oldest first
  reading     \* the views of the reads that are under way

vars == <<writes, store, snapshots, reading>>

\* DB::Put, DB::Delete: the only steps that change what the store shows, and
\* only of one key
Put(k) ==
  /\ writes' = writes + 1
  /\ store' = [store EXCEPT ![k] = writes']
  /\ UNCHANGED <<snapshots, reading>>

Delete(k) ==
  /\ writes' = writes + 1
  /\ store' = [store EXCEPT ![k] = NotFound]
  /\ UNCHANGED <<snapshots, reading>>

\* DB::GetSnapshot
GetSnapshot ==
  /\ snapshots' = Append(snapshots, store)
  /\ UNCHANGED <<writes, store, reading>>

\* DB::ReleaseSnapshot
ReleaseSnapshot(i) ==
  /\ snapshots' = SubSeq(snapshots, 1, i - 1) \o SubSeq(snapshots, i + 1, Len(snapshots))
  /\ UNCHANGED <<writes, store, reading>>

\* DB::Get or DB::NewIterator starts, on the current state or on a snapshot.
StartRead ==
  /\ \E view \in {store} \cup {snapshots[i] : i \in DOMAIN snapshots} :
       reading' = Append(reading, view)
  /\ UNCHANGED <<writes, store, snapshots>>

\* Get returns or an iterator is deleted.
EndRead(i) ==
  /\ reading' = SubSeq(reading, 1, i - 1) \o SubSeq(reading, i + 1, Len(reading))
  /\ UNCHANGED <<writes, store, snapshots>>

Init ==
  /\ writes = 0
  /\ store = [k \in Keys |-> NotFound]
  /\ snapshots = <<>>
  /\ reading = <<>>

Next ==
  \/ \E k \in Keys : Put(k) \/ Delete(k)
  \/ GetSnapshot
  \/ \E i \in DOMAIN snapshots : ReleaseSnapshot(i)
  \/ StartRead
  \/ \E i \in DOMAIN reading : EndRead(i)

Spec == Init /\ [][Next]_vars
=============================================================================
