----------------------------- MODULE MemTable -----------------------------
(***************************************************************************)
(* The memtable: a skip list (db/skiplist.h) in an arena (util/arena.cc)   *)
(* to which one thread adds the entries of a batch (db/memtable.cc,        *)
(* db/write_batch.cc) while others read it without a lock.                 *)
(*                                                                         *)
(* A node is known by the sequence number of its entry; 0 is head_.  Memory *)
(* is modelled as port::AtomicPointer orders it: `past' is the history of  *)
(* the writer's stores.  A reader's load returns the value of the location *)
(* at some moment that is not before the reader's `view'; an acquire load  *)
(* moves the view to the store that it reads from, a load without barrier  *)
(* does not.  Taking the mutex moves it to where the writer last gave the  *)
(* mutex back.                                                             *)
(***************************************************************************)
EXTENDS Integers, Sequences, SequencesExt, FiniteSets, FiniteSetsExt

CONSTANTS
  UserKeys,        \* user keys: numbers
  kMaxHeight,
  ArenaBlockSize, Align, EntrySize, NodeSize, PointerSize,  \* sizes, in the arena's units
  MaxEntries,      \* bound: entries ever added
  MaxBatch,        \* bound: entries of a batch
  MaxLookups       \* bound: operations of the reader

ASSUME MemTableAssumption ==
  /\ UserKeys \subseteq Nat
  /\ {kMaxHeight, ArenaBlockSize, Align, EntrySize, NodeSize, PointerSize} \subseteq Nat \ {0}
  /\ ArenaBlockSize % Align = 0
  /\ {MaxEntries, MaxBatch, MaxLookups} \subseteq Nat

VARIABLES
  entry,        \* the entries whose insertion has begun, by sequence number
  batch,        \* the operations of the batch that are not inserted yet
  inserting,    \* SkipList::Insert of the last entry: the next level to link
  height,       \* the height of each node
  past,         \* the stores to the links and to max_height_
  synced,       \* the length of `past' when the writer last gave the mutex back
  lastSeq,      \* VersionSet::last_sequence_
  arena,
  iter          \* the reader: a Get, or an iterator and its operation

memVars_ == <<entry, batch, inserting, height, past, synced, lastSeq, arena, iter>>

head_ == 0
Null == -1       \* no node
Unset == -2      \* memory of a node before it is written
NotInserting == -1
Heights == 0..kMaxHeight - 1

\* The comparison of internal keys <<user key, sequence number>>; Null is after
\* all of them, head_ before.
Before(a, b) == a[1] < b[1] \/ (a[1] = b[1] /\ a[2] > b[2])
KeyOf(n) == <<entry[n], n>>
KeyIsAfterNode(key, n) == n # Null /\ (n = head_ \/ Before(KeyOf(n), key))

Now == past[Len(past)]

-----------------------------------------------------------------------------
(* Arena.                                                                  *)

NewArena == [blocks |-> <<>>, current |-> 0, used |-> 0, left |-> 0, usage |-> 0, given |-> {}]

\* Bytes of block b from offset o on are given out.
Give(a, b, o, bytes) == [a EXCEPT !.given = @ \cup {[block |-> b, from |-> o, to |-> o + bytes - 1]}]

AllocateNewBlock(a, bytes) ==
  [a EXCEPT !.blocks = Append(@, bytes), !.usage = @ + bytes + PointerSize]

\* AllocateFallback: a block of its own for a large piece, else a new current
\* block, whose rest the next allocations share
AllocateFallback(a, bytes) ==
  LET b == AllocateNewBlock(a, IF bytes > ArenaBlockSize \div 4 THEN bytes ELSE ArenaBlockSize)
  IN IF bytes > ArenaBlockSize \div 4
     THEN Give(b, Len(b.blocks), 0, bytes)
     ELSE Give([b EXCEPT !.current = Len(b.blocks), !.used = bytes, !.left = ArenaBlockSize - bytes],
               Len(b.blocks), 0, bytes)

Allocate(a, bytes) ==
  IF bytes <= a.left
  THEN Give([a EXCEPT !.used = @ + bytes, !.left = @ - bytes], a.current, a.used, bytes)
  ELSE AllocateFallback(a, bytes)

AllocateAligned(a, bytes) ==
  LET slop == IF a.used % Align = 0 THEN 0 ELSE Align - (a.used % Align)
      needed == bytes + slop
  IN IF needed <= a.left
     THEN Give([a EXCEPT !.used = @ + needed, !.left = @ - needed], a.current, a.used + slop, bytes)
     ELSE AllocateFallback(a, bytes)

-----------------------------------------------------------------------------
(* The writer: WriteBatchInternal::InsertInto, MemTable::Add and           *)
(* SkipList::Insert, one step for each store that a reader may see.        *)

\* DBImpl::Write has logged a batch and gives the mutex back.
StartBatch(ops) ==
  /\ batch = <<>> /\ inserting = NotInserting /\ lastSeq = Len(entry)
  /\ Len(entry) + Len(ops) <= MaxEntries
  /\ batch' = ops
  /\ synced' = Len(past)
  /\ UNCHANGED <<entry, inserting, height, past, lastSeq, arena, iter>>

\* FindGreaterOrEqual for the writer: prev[i]
PrevNode(key, i) ==
  CHOOSE x \in {head_} \cup {n \in DOMAIN height : height[n] > i /\ n # Len(entry) + 1} :
    /\ KeyIsAfterNode(key, x)
    /\ ~KeyIsAfterNode(key, Now.next[x][i])

\* MemTable::Add puts the entry and the node into the arena; Insert raises
\* max_height_ first.  The sequence number counts up from the batch's first.
Add(h) ==
  /\ batch # <<>> /\ inserting = NotInserting
  /\ entry' = Append(entry, batch[1])
  /\ batch' = Tail(batch)
  /\ height' = Append(height, h)
  /\ arena' = AllocateAligned(Allocate(arena, EntrySize), NodeSize + PointerSize * (h - 1))
  /\ past' = IF h > Now.max_height THEN Append(past, [Now EXCEPT !.max_height = h]) ELSE past
  /\ inserting' = 0
  /\ UNCHANGED <<synced, lastSeq, iter>>

\* Mutant: the node is linked into its highest list first.
LinkTopDown ==
  LET n == Len(entry)
      i == height[n] - 1 - inserting
      prev == PrevNode(KeyOf(n), i)
      linked == [Now EXCEPT !.next[n][i] = Now.next[prev][i]]
  IN /\ inserting # NotInserting
     /\ past' = past \o <<linked, [linked EXCEPT !.next[prev][i] = n]>>
     /\ inserting' = IF inserting + 1 = height[n] THEN NotInserting ELSE inserting + 1
     /\ UNCHANGED <<entry, batch, height, synced, lastSeq, arena, iter>>

\* Insert's loop: the link of the new node, then the link to it
Link ==
  LET n == Len(entry)
      i == inserting
      prev == PrevNode(KeyOf(n), i)
      linked == [Now EXCEPT !.next[n][i] = Now.next[prev][i]]
  IN /\ inserting # NotInserting
     /\ past' = past \o <<linked, [linked EXCEPT !.next[prev][i] = n]>>
     /\ inserting' = IF i + 1 = height[n] THEN NotInserting ELSE i + 1
     /\ UNCHANGED <<entry, batch, height, synced, lastSeq, arena, iter>>

\* DBImpl::Write takes the mutex again: SetLastSequence
SetLastSequence ==
  /\ batch = <<>> /\ inserting = NotInserting /\ lastSeq < Len(entry)
  /\ lastSeq' = Len(entry)
  /\ synced' = Len(past)
  /\ UNCHANGED <<entry, batch, inserting, height, past, arena, iter>>

-----------------------------------------------------------------------------
(* The reader.                                                             *)

\* What the list at a moment of the past holds
ListAt(v) ==
  LET next == past[v].next
      reach[m \in 0..Len(entry)] ==
        IF m = 0 THEN {next[head_][0]} ELSE reach[m - 1] \cup {next[n][0] : n \in reach[m - 1] \ {Null}}
  IN reach[Len(entry)] \ {Null}

NoIterator == [pc |-> "none", op |-> "none", view |-> 0, node |-> Null, left |-> MaxLookups]

\* The search starts at head_ on some level that max_height_ says, as of now or
\* of a moment since the view.
Search(op, target, view) ==
  \E v \in view..Len(past) :
    iter' = [pc |-> "search", op |-> op, target |-> target, view |-> view,
             x |-> head_, level |-> past[v].max_height - 1,
             node |-> IF op = "next" THEN iter.node ELSE Null,
             seen |-> ListAt(view), left |-> iter.left - 1]

\* DBImpl::Get and NewInternalIterator take the mutex; Get reads the last
\* sequence number there and looks up the key with it (MemTable::Get).
StartGet(k) ==
  /\ iter.pc \in {"none", "done"} /\ iter.left > 0
  /\ Search("get", <<k, lastSeq>>, synced)
  /\ UNCHANGED <<entry, batch, inserting, height, past, synced, lastSeq, arena>>

\* NewIterator, and the operations of Iterator
StartSeek(op, target) ==
  /\ iter.pc \in {"none", "done"} /\ iter.left > 0
  /\ Search(op, target, synced)
  /\ UNCHANGED <<entry, batch, inserting, height, past, synced, lastSeq, arena>>

Move(op) ==
  /\ iter.pc = "done" /\ iter.op # "get" /\ iter.node # Null /\ iter.left > 0
  /\ IF op = "prev" THEN Search("prev", KeyOf(iter.node), iter.view)
     ELSE iter' = [iter EXCEPT !.pc = "search", !.op = "next", !.target = KeyOf(iter.node),
                               !.x = iter.node, !.level = 0, !.seen = ListAt(iter.view), !.left = @ - 1]
  /\ UNCHANGED <<entry, batch, inserting, height, past, synced, lastSeq, arena>>

\* An acquire load of a link: the view moves to the store that it reads.
AcquireView(x, level, next) ==
  Max({iter.view, Min({v \in DOMAIN past : past[v].next[x][level] = next})})

\* FindGreaterOrEqual (get, seek), FindLessThan (prev), FindLast (last) and the
\* one load of Next and SeekToFirst (next, first)
Ahead(next) ==
  CASE iter.op \in {"get", "seek", "prev"} -> KeyIsAfterNode(iter.target, next)
    [] iter.op = "last" -> next # Null
    [] OTHER -> FALSE

Found(next) ==
  CASE iter.op \in {"prev", "last"} -> IF iter.x = head_ THEN Null ELSE iter.x
    [] OTHER -> next

Load(v) ==
  LET next == past[v].next[iter.x][iter.level]
      view == AcquireView(iter.x, iter.level, next)
  IN /\ iter.pc = "search"
     /\ v \in iter.view..Len(past)
     /\ iter' = CASE next = Unset -> [iter EXCEPT !.pc = "garbage"]
                  [] next # Unset /\ Ahead(next) -> [iter EXCEPT !.x = next, !.view = view]
                  [] next # Unset /\ ~Ahead(next) /\ iter.level > 0 ->
                       [iter EXCEPT !.level = @ - 1, !.view = view]
                  [] OTHER -> [iter EXCEPT !.pc = "done", !.node = Found(next), !.view = view]
     /\ UNCHANGED <<entry, batch, inserting, height, past, synced, lastSeq, arena>>

-----------------------------------------------------------------------------

MemInit ==
  /\ entry = <<>> /\ batch = <<>> /\ inserting = NotInserting /\ height = <<>>
  /\ past = <<[next |-> [n \in 0..MaxEntries |-> [i \in Heights |-> IF n = head_ THEN Null ELSE Unset]],
               max_height |-> 1]>>
  /\ synced = 1 /\ lastSeq = 0
  /\ arena = AllocateAligned(NewArena, NodeSize + PointerSize * (kMaxHeight - 1))
  /\ iter = NoIterator

MemNext ==
  \/ \E n \in 1..MaxBatch : \E ops \in [1..n -> UserKeys] : StartBatch(ops)
  \/ \E h \in 1..kMaxHeight : Add(h)
  \/ Link
  \/ SetLastSequence
  \/ \E k \in UserKeys : StartGet(k)
  \/ \E k \in UserKeys : StartSeek("seek", <<k, lastSeq>>)
  \/ \E op \in {"first", "last"} : StartSeek(op, <<0, 0>>)
  \/ \E op \in {"next", "prev"} : Move(op)
  \/ \E v \in DOMAIN past : Load(v)

MemSpec == MemInit /\ [][MemNext]_memVars_

-----------------------------------------------------------------------------
(* Properties.                                                             *)

\* A search ends where it should among the entries that were in the list when it
\* began, whatever is inserted meanwhile; and a Get finds the newest entry of its
\* key of all that the sequence number it read had published.
SearchesAreRight ==
  iter.pc = "done" =>
    LET after == {n \in iter.seen : ~Before(KeyOf(n), iter.target)}     \* at or after the target
        before == {n \in iter.seen : Before(KeyOf(n), iter.target)}
        NoneBetween(S, r) == \A n \in S : r = Null \/ n = r \/ Before(KeyOf(r), KeyOf(n))
        NoneAbove(S, r) == \A n \in S : r # Null /\ (n = r \/ Before(KeyOf(n), KeyOf(r)))
    IN CASE iter.op = "seek" -> NoneBetween(after, iter.node) /\ (iter.node = Null => after = {})
         [] iter.op = "next" -> /\ NoneBetween(after \ {iter.x}, iter.node)
                                /\ iter.node = Null => after \subseteq {iter.x}
         [] iter.op = "first" -> NoneBetween(iter.seen, iter.node) /\ (iter.node = Null => iter.seen = {})
         [] iter.op = "prev" -> NoneAbove(before, iter.node)
         [] iter.op = "last" -> NoneAbove(iter.seen, iter.node)
         [] iter.op = "get" ->
              LET mine == {n \in 1..iter.target[2] : entry[n] = iter.target[1]}
                  found == iter.node # Null /\ entry[iter.node] = iter.target[1]
              IN IF mine = {} THEN ~found ELSE iter.node = Max(mine)

\* No reader follows a link that is not written yet.
NoGarbage == iter.pc # "garbage"

\* What the arena gave out does not overlap, and stays in its blocks.
ArenaSound ==
  /\ \A p \in arena.given : p.to < arena.blocks[p.block]
  /\ \A p, q \in arena.given : p # q /\ p.block = q.block => p.to < q.from \/ q.to < p.from
  /\ \A b \in DOMAIN arena.blocks : \E p \in arena.given : p.block = b

\* All three, for any interleaving of the writer with a reader
MemTableSound == SearchesAreRight /\ NoGarbage /\ ArenaSound
=============================================================================
