----------------------------- MODULE LRUCache -----------------------------
(***************************************************************************)
(* leveldb's sharded LRU cache (util/cache.cc), with the threads that use  *)
(* it the way TableCache does (db/table_cache.cc): look a file up, open it *)
(* without any lock when it is not there, insert it, release the handle in *)
(* the end.  Every method of a shard is one step under the shard's mutex.  *)
(*                                                                         *)
(* A shard is a record; handles are numbers.  handle[h].refs counts the    *)
(* cache's own reference too; a handle without references was passed to    *)
(* its deleter and freed.                                                  *)
(***************************************************************************)
EXTENDS Integers, Sequences, SequencesExt, FiniteSets, FiniteSetsExt

CONSTANTS
  kNumShards,       \* shards of the cache
  InitialLength,    \* the least length of HandleTable::list_
  Capacity,         \* capacity of the whole cache
  CacheKeys,        \* keys: numbers, each its own hash
  Charges,          \* the charges that are inserted
  CacheThreads,
  MaxHandles        \* bound: entries ever inserted

ASSUME CacheAssumption ==
  /\ {kNumShards, InitialLength} \subseteq Nat \ {0} /\ Capacity \in Nat
  /\ CacheKeys \subseteq Nat /\ Charges \subseteq Nat /\ MaxHandles \in Nat

VARIABLES
  shard_,    \* the shards
  user       \* what each thread does: TableCache::FindTable and its callers

cacheVars == <<shard_, user>>

NoHandle == 0
Resting == [pc |-> "idle", key |-> 0, handle |-> NoHandle]

\* ShardedLRUCache: the shard of a key, and the capacity of each shard
Shard(k) == k % kNumShards
PerShard == (Capacity + kNumShards - 1) \div kNumShards

-----------------------------------------------------------------------------
(* HandleTable: buckets of handles, chained in the order of next_hash.     *)

Bucket(k, length) == (k \div kNumShards) % length
EmptyTable(length) == [b \in 0..(length - 1) |-> <<>>]
TableLength(c) == Cardinality(DOMAIN c.list)
Elems(c) == MapThenSumSet(LAMBDA b : Len(c.list[b]), DOMAIN c.list)

\* FindPointer: where in its bucket's chain the entry of key k is, 0 if nowhere
FindPointer(c, k) ==
  LET chain == c.list[Bucket(k, TableLength(c))]
  IN SelectInSeq(chain, LAMBDA h : c.handle[h].key = k)

TableLookup(c, k) ==
  LET i == FindPointer(c, k)
  IN IF i = 0 THEN NoHandle ELSE c.list[Bucket(k, TableLength(c))][i]

\* Resize: every entry goes to the head of its new chain.
Resize(c) ==
  LET old == TableLength(c)
      longer == {n \in 0..Cardinality(DOMAIN c.handle) : InitialLength * 2^n >= Elems(c)}
      length == InitialLength * 2^Min(longer)
      all == FlattenSeq([i \in 1..old |-> c.list[i - 1]])
  IN [c EXCEPT !.list = [b \in 0..(length - 1) |->
        Reverse(SelectSeq(all, LAMBDA h : Bucket(c.handle[h].key, length) = b))]]

\* Insert: the new entry takes the place of the old one of its key, or is the
\* last of its chain.
TableInsert(c, h) ==
  LET k == c.handle[h].key
      b == Bucket(k, TableLength(c))
      i == FindPointer(c, k)
      inserted == [c EXCEPT !.list[b] = IF i = 0 THEN Append(@, h) ELSE [@ EXCEPT ![i] = h]]
  IN IF i = 0 /\ Elems(inserted) > TableLength(c) THEN Resize(inserted) ELSE inserted

TableRemove(c, k) ==
  LET b == Bucket(k, TableLength(c))
      i == FindPointer(c, k)
  IN IF i = 0 THEN c ELSE [c EXCEPT !.list[b] = RemoveAt(@, i)]

-----------------------------------------------------------------------------
(* LRUCache: one shard.                                                    *)

NewShard == [handle |-> <<>>, list |-> EmptyTable(InitialLength), lru |-> <<>>, in_use |-> <<>>,
             usage |-> 0]

\* LRU_Remove, from the list that has the entry
LRU_Remove(c, h) ==
  [c EXCEPT !.lru = SelectSeq(@, LAMBDA x : x # h), !.in_use = SelectSeq(@, LAMBDA x : x # h)]

\* Ref: an entry that nobody used moves to the in-use list.
Ref(c, h) ==
  LET e == c.handle[h]
      moved == IF e.refs = 1 /\ e.in_cache
               THEN [LRU_Remove(c, h) EXCEPT !.in_use = Append(@, h)] ELSE c
  IN [moved EXCEPT !.handle[h].refs = @ + 1]

\* Mutant: the entry stays on the in-use list when its last user leaves.
UnrefInPlace(c, h) == [c EXCEPT !.handle[h].refs = @ - 1]

\* Unref: an entry that nobody uses any more is freed, or becomes the newest of
\* the LRU list.
Unref(c, h) ==
  LET d == [c EXCEPT !.handle[h].refs = @ - 1]
      e == d.handle[h]
  IN IF e.in_cache /\ e.refs = 1
     THEN [LRU_Remove(d, h) EXCEPT !.lru = Append(@, h)]
     ELSE d

\* FinishErase of an entry that the table no longer has
FinishErase(c, h) ==
  IF h = NoHandle THEN c
  ELSE Unref([LRU_Remove(c, h) EXCEPT !.handle[h].in_cache = FALSE,
                                      !.usage = @ - c.handle[h].charge], h)

EraseKey(c, k) == FinishErase(TableRemove(c, k), TableLookup(c, k))

\* Mutant: one entry at most is evicted.
EvictOne(c) ==
  IF c.usage > PerShard /\ c.lru # <<>> THEN EraseKey(c, c.handle[c.lru[1]].key) ELSE c

\* The loop of Insert: the oldest entries go until the rest fits.
Evicted(c) ==
  LET after[n \in 0..Len(c.lru)] ==
        IF n = 0 THEN c
        ELSE LET d == after[n - 1]
             IN IF d.usage > PerShard /\ d.lru # <<>> THEN EraseKey(d, d.handle[d.lru[1]].key) ELSE d
  IN after[Len(c.lru)]

\* Insert: the handle has a reference of its caller and, unless the capacity is
\* 0, one of the cache; an older entry of the key leaves the cache.
Insert(c, k, charge) ==
  LET h == Len(c.handle) + 1
      new == [c EXCEPT !.handle = Append(@, [key |-> k, charge |-> charge, in_cache |-> FALSE, refs |-> 1])]
      cached == [new EXCEPT !.handle[h].in_cache = TRUE, !.handle[h].refs = 2,
                            !.in_use = Append(@, h), !.usage = @ + charge]
  IN Evicted(IF PerShard > 0 THEN FinishErase(TableInsert(cached, h), TableLookup(c, k)) ELSE new)

\* Prune: all entries that nobody uses go.
Pruned(c) ==
  LET after[n \in 0..Len(c.lru)] ==
        IF n = 0 THEN c ELSE EraseKey(after[n - 1], after[n - 1].handle[after[n - 1].lru[1]].key)
  IN after[Len(c.lru)]

-----------------------------------------------------------------------------
(* TableCache, and the DB that evicts a file's table when it deletes the   *)
(* file.                                                                   *)

\* FindTable: Lookup
FindTable(t, k) ==
  LET s == Shard(k)
      h == TableLookup(shard_[s], k)
  IN /\ user[t].pc = "idle"
     /\ shard_' = IF h = NoHandle THEN shard_ ELSE [shard_ EXCEPT ![s] = Ref(@, h)]
     /\ user' = [user EXCEPT ![t] = [pc |-> IF h = NoHandle THEN "open" ELSE "using",
                                     key |-> k, handle |-> h]]

\* ... the file cannot be opened: errors are not cached
OpenTableFails(t) ==
  /\ user[t].pc = "open"
  /\ user' = [user EXCEPT ![t] = Resting]
  /\ UNCHANGED shard_

\* ... it was opened: Insert
InsertTable(t, charge) ==
  LET s == Shard(user[t].key)
  IN /\ user[t].pc = "open"
     /\ Len(shard_[s].handle) < MaxHandles
     /\ shard_' = [shard_ EXCEPT ![s] = Insert(@, user[t].key, charge)]
     /\ user' = [user EXCEPT ![t].pc = "using", ![t].handle = Len(shard_[s].handle) + 1]

\* Get is done, or the iterator is deleted (UnrefEntry).
ReleaseTable(t) ==
  LET s == Shard(user[t].key)
  IN /\ user[t].pc = "using"
     /\ shard_' = [shard_ EXCEPT ![s] = Unref(@, user[t].handle)]
     /\ user' = [user EXCEPT ![t] = Resting]

\* TableCache::Evict, Cache::Erase
Evict(k) ==
  /\ TableLookup(shard_[Shard(k)], k) # NoHandle
  /\ shard_' = [shard_ EXCEPT ![Shard(k)] = EraseKey(@, k)]
  /\ UNCHANGED user

Prune(s) ==
  /\ shard_[s].lru # <<>>
  /\ shard_' = [shard_ EXCEPT ![s] = Pruned(@)]
  /\ UNCHANGED user

CacheInit ==
  /\ shard_ = [s \in 0..(kNumShards - 1) |-> NewShard]
  /\ user = [t \in CacheThreads |-> Resting]

CacheNext ==
  \/ \E t \in CacheThreads :
       \/ \E k \in CacheKeys : FindTable(t, k)
       \/ OpenTableFails(t)
       \/ \E charge \in Charges : InsertTable(t, charge)
       \/ ReleaseTable(t)
  \/ \E k \in CacheKeys : Evict(k)
  \/ \E s \in 0..(kNumShards - 1) : Prune(s)

CacheSpec == CacheInit /\ [][CacheNext]_cacheVars

-----------------------------------------------------------------------------
(* Properties.                                                             *)

Shards == {shard_[s] : s \in DOMAIN shard_}
InCache(c) == {h \in DOMAIN c.handle : c.handle[h].in_cache}

\* No entry is freed under a thread that uses it, and none is leaked: its
\* references are those of its users and of the cache, so that it goes to its
\* deleter exactly when the last of them is gone; and whoever holds a handle has
\* the table of the file that it asked for.
HandlesAreCounted ==
  /\ \A s \in DOMAIN shard_ : \A h \in DOMAIN shard_[s].handle :
       shard_[s].handle[h].refs =
         Cardinality({t \in CacheThreads :
                        user[t].pc = "using" /\ Shard(user[t].key) = s /\ user[t].handle = h})
         + (IF shard_[s].handle[h].in_cache THEN 1 ELSE 0)
  /\ \A t \in CacheThreads : user[t].pc = "using" =>
       shard_[Shard(user[t].key)].handle[user[t].handle].key = user[t].key

\* The hash table has exactly the entries that are in the cache, each one where
\* a lookup of its key finds it, also after it was resized; and the entries are
\* on exactly one of the two lists, those that somebody uses on the in-use list;
\* usage_ is the sum of their charges.
ListsAgree ==
  \A c \in Shards :
    /\ Elems(c) = Cardinality(InCache(c))
    /\ \A h \in InCache(c) : TableLookup(c, c.handle[h].key) = h
    /\ ToSet(c.lru) = {h \in InCache(c) : c.handle[h].refs = 1}
    /\ ToSet(c.in_use) = {h \in InCache(c) : c.handle[h].refs > 1}
    /\ Len(c.lru) + Len(c.in_use) = Cardinality(InCache(c))
    /\ c.usage = MapThenSumSet(LAMBDA h : c.handle[h].charge, InCache(c))

\* Threads that look up, open, insert, evict and release in any order never
\* break the cache.
CacheConsistent == HandlesAreCounted /\ ListsAgree

\* An insertion leaves the cache over its capacity only by entries that threads
\* still use.
InsertMakesRoom ==
  [][\A s \in DOMAIN shard_ : Len(shard_'[s].handle) > Len(shard_[s].handle) =>
       shard_'[s].usage <= PerShard \/ shard_'[s].lru = <<>>]_cacheVars
=============================================================================
