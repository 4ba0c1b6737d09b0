------------------------------- MODULE Table -------------------------------
(***************************************************************************)
(* The tables of leveldb: TableBuilder cuts sorted entries into blocks     *)
(* with shared key prefixes and restart points (block_builder.cc), an      *)
(* index with shortened keys (comparator.cc, dbformat.cc) and Bloom        *)
(* filters by file offset (filter_block.cc, bloom.cc); Table reads them    *)
(* back through block iterators (block.cc), a two-level iterator           *)
(* (two_level_iterator.cc) and InternalGet (table.cc).                     *)
(*                                                                         *)
(* An internal key is the bytes of its user key and then its tag, one      *)
(* number above all bytes; a larger tag comes first.  A block keeps its    *)
(* entries and their offsets.  A block that cannot be read (I/O error,     *)
(* checksum mismatch) is bad; verify_checksums is on.                      *)
(***************************************************************************)
EXTENDS Integers, Sequences, FiniteSetsExt, SequencesExt

CONSTANTS
  MaxByte,          \* 0xff
  TableKeys,        \* the internal keys that may be added
  SeekKeys,         \* the internal keys that are looked up
  RestartInterval,  \* options.block_restart_interval
  BlockSize,        \* options.block_size
  kFilterBase,
  BitsPerKey,       \* the Bloom filter's
  MaxTableFaults    \* bound: failed appends and bad blocks

ASSUME TableAssumption ==
  /\ {RestartInterval, BlockSize, kFilterBase, BitsPerKey} \subseteq Nat \ {0}
  /\ MaxTableFaults \in Nat /\ MaxByte \in Nat

VARIABLES
  tb,       \* TableBuilder::Rep
  tfile,    \* the blocks in the file
  tadded,   \* history: the keys added
  bad,      \* the offsets of the blocks that cannot be read
  tit,      \* a two-level iterator over the table, or NoIter
  tpos,     \* history: where in tadded the iterator should be; 0 if invalid
  tgot,     \* the last InternalGet: its key and what the saver was given
  tfaults

tableVars == <<tb, tfile, tadded, bad, tit, tpos, tgot, tfaults>>

NoTag == MaxByte + 1
MaxTag == NoTag + 100          \* kMaxSequenceNumber, kValueTypeForSeek
UserKey(k) == SubSeq(k, 1, Len(k) - 1)
Tag(k) == k[Len(k)]

\* BytewiseComparatorImpl::Compare
BytesBefore(a, b) ==
  LET n == Min({Len(a), Len(b)})
      d == {i \in 1..n : a[i] # b[i]}
  IN  IF d = {} THEN Len(a) < Len(b) ELSE a[Min(d)] < b[Min(d)]

\* InternalKeyComparator::Compare
KeyLess(a, b) ==
  \/ BytesBefore(UserKey(a), UserKey(b))
  \/ UserKey(a) = UserKey(b) /\ Tag(a) > Tag(b)

CommonPrefix(a, b) ==
  Max({i \in 0..Min({Len(a), Len(b)}) : SubSeq(a, 1, i) = SubSeq(b, 1, i)})

\* Mutant: the byte is incremented without a look at the limit's
ShortenTooFar(start, limit) ==
  LET d == CommonPrefix(start, limit)
  IN  IF d = Min({Len(start), Len(limit)}) THEN start
      ELSE IF start[d + 1] < MaxByte
           THEN Append(SubSeq(start, 1, d), start[d + 1] + 1)
           ELSE start

\* BytewiseComparatorImpl::FindShortestSeparator
Shorten(start, limit) ==
  LET d == CommonPrefix(start, limit)
  IN  IF d = Min({Len(start), Len(limit)}) THEN start
      ELSE IF start[d + 1] < MaxByte /\ start[d + 1] + 1 < limit[d + 1]
           THEN Append(SubSeq(start, 1, d), start[d + 1] + 1)
           ELSE start

\* BytewiseComparatorImpl::FindShortSuccessor
Successor(key) ==
  LET c == {i \in 1..Len(key) : key[i] # MaxByte}
  IN  IF c = {} THEN key ELSE Append(SubSeq(key, 1, Min(c) - 1), key[Min(c)] + 1)

\* InternalKeyComparator: the shorter key is taken with the earliest tag
Shortened(key, tmp) ==
  IF Len(tmp) < Len(key) - 1 /\ BytesBefore(UserKey(key), tmp) THEN Append(tmp, MaxTag) ELSE key
FindShortestSeparator(start, limit) == Shortened(start, Shorten(UserKey(start), UserKey(limit)))
FindShortSuccessor(key) == Shortened(key, Successor(UserKey(key)))

-----------------------------------------------------------------------------
(* BlockBuilder.                                                           *)

EmptyBlock == [entries |-> <<>>, restarts |-> <<0>>, counter |-> 0, last |-> <<>>, size |-> 0]

\* BlockBuilder::Add; the three lengths and the value take a byte each
AddEntry(b, key, value, interval) ==
  LET restart == b.counter >= interval
      shared == IF restart THEN 0 ELSE CommonPrefix(b.last, key)
      size == 4 + Len(key) - shared
  IN  [entries |-> Append(b.entries, [at |-> b.size, next |-> b.size + size, shared |-> shared,
                                      delta |-> SubSeq(key, shared + 1, Len(key)), value |-> value]),
       restarts |-> IF restart THEN Append(b.restarts, b.size) ELSE b.restarts,
       counter |-> (IF restart THEN 0 ELSE b.counter) + 1, last |-> key, size |-> b.size + size]

CurrentSizeEstimate(b) == b.size + 4 * Len(b.restarts) + 4

(* BloomFilterPolicy; Hash is any function of the bytes.                   *)

Hash(key) == FoldLeft(LAMBDA h, c : h * 7 + c + 3, 5, key)
NumProbes == Max({1, (BitsPerKey * 69) \div 100})
Probes(key, bits) == {(Hash(key) + j * (Hash(key) \div 2 + 1)) % bits : j \in 0..(NumProbes - 1)}
\* bits below 8 stand for the code's minimum of 64
CreateFilter(keys) ==
  LET bits == ((Max({Cardinality(keys) * BitsPerKey, 8}) + 7) \div 8) * 8
  IN  [bits |-> bits, set |-> UNION {Probes(k, bits) : k \in keys}]
BloomMayMatch(key, f) == f.bits # 0 /\ Probes(key, f.bits) \subseteq f.set
EmptyFilter == [bits |-> 0, set |-> {}]

(* FilterBlockBuilder: one filter for each kFilterBase bytes of the file.  *)

\* StartBlock and GenerateFilter: the keys so far go into the first filter that is made
StartBlock(r, offset) ==
  LET index == offset \div kFilterBase
      made == index - Len(r.filters)
  IN  IF made <= 0 THEN r
      ELSE [r EXCEPT !.filters = @ \o [i \in 1..made |-> IF i = 1 /\ r.keys # {}
                                                        THEN CreateFilter(r.keys) ELSE EmptyFilter],
                     !.keys = {}]

\* FilterBlockReader::KeyMayMatch; without a filter block every key may match
KeyMayMatch(filters, offset, key) ==
  LET index == offset \div kFilterBase
  IN  index < Len(filters) => BloomMayMatch(UserKey(key), filters[index + 1])

-----------------------------------------------------------------------------
(* TableBuilder.                                                           *)

kBlockTrailerSize == 5
NewBuilder ==
  [data |-> EmptyBlock, index |-> EmptyBlock, last |-> <<>>, pending |-> FALSE, handle |-> 0,
   offset |-> 0, ok |-> TRUE, filters |-> <<>>, keys |-> {}, closed |-> FALSE]

\* WriteBlock and WriteRawBlock of a block that takes size bytes
Written(kind, at, block) == [kind |-> kind, at |-> at, block |-> block]

\* Flush; fails says whether the file's Append does
FlushBlock(r, fails) ==
  IF ~r.ok \/ r.data.entries = <<>> THEN r
  ELSE LET end == r.offset + CurrentSizeEstimate(r.data) + kBlockTrailerSize
       IN  StartBlock([r EXCEPT !.handle = r.offset, !.data = EmptyBlock, !.ok = ~fails,
                                !.pending = ~fails, !.offset = IF fails THEN @ ELSE end],
                      IF fails THEN r.offset ELSE end)

Flushed(r, fails) ==
  IF r.ok /\ ~fails /\ r.data.entries # <<>> THEN Append(tfile, Written("data", r.offset, r.data))
                                             ELSE tfile

WithIndexEntry(r, key) ==
  IF r.pending THEN [r EXCEPT !.index = AddEntry(@, key, r.handle, 1), !.pending = FALSE] ELSE r

Building == ~tb.closed /\ tit.pc = "none"

\* TableBuilder::Add
AddKeyValue(key, fails) ==
  /\ Building /\ tb.ok
  /\ tadded # <<>> => KeyLess(tadded[Len(tadded)], key)
  /\ fails => tfaults > 0
  /\ LET r1 == IF tb.pending THEN WithIndexEntry(tb, FindShortestSeparator(tb.last, key)) ELSE tb
         r2 == [r1 EXCEPT !.keys = @ \cup {UserKey(key)}, !.last = key,
                          !.data = AddEntry(@, key, Len(tadded) + 1, RestartInterval)]
         full == CurrentSizeEstimate(r2.data) >= BlockSize
     IN  /\ fails => full
         /\ tb' = IF full THEN FlushBlock(r2, fails) ELSE r2
         /\ tfile' = IF full THEN Flushed(r2, fails) ELSE tfile
  /\ tadded' = Append(tadded, key)
  /\ tfaults' = IF fails THEN tfaults - 1 ELSE tfaults
  /\ UNCHANGED <<bad, tit, tpos, tgot>>

\* TableBuilder::Finish: the last block, the filters, metaindex, index and footer.  Any of the
\* blocks may fail; the file has a footer only if none does
FinishTable(fails) ==
  /\ Building
  /\ fails => tfaults > 0 /\ tb.ok
  /\ LET r1 == FlushBlock(tb, fails)
         r2 == IF r1.ok /\ r1.keys # {}
               THEN [r1 EXCEPT !.filters = Append(@, CreateFilter(r1.keys)), !.keys = {}] ELSE r1
         r3 == IF r2.ok /\ r2.pending THEN WithIndexEntry(r2, FindShortSuccessor(r2.last)) ELSE r2
     IN  /\ tb' = [r3 EXCEPT !.closed = TRUE, !.ok = @ /\ ~fails]
         /\ tfile' = IF r3.ok /\ ~fails
                     THEN Flushed(tb, FALSE)
                            \o <<Written("filter", r3.offset, r3.filters),
                                 Written("meta", r3.offset + 1, <<>>),
                                 Written("index", r3.offset + 2, r3.index),
                                 Written("footer", r3.offset + 3, <<>>)>>
                     ELSE Flushed(tb, fails)
  /\ tfaults' = IF fails THEN tfaults - 1 ELSE tfaults
  /\ UNCHANGED <<tadded, bad, tit, tpos, tgot>>

\* External: a block can no longer be read
GoBad ==
  /\ tb.closed /\ tfaults > 0 /\ tit.pc = "none"
  /\ \E i \in 1..Len(tfile) : bad' = bad \cup {tfile[i].at}
  /\ tfaults' = tfaults - 1
  /\ UNCHANGED <<tb, tfile, tadded, tit, tpos, tgot>>

-----------------------------------------------------------------------------
(* Block::Iter.                                                            *)

BlockIter(b) ==
  [b |-> b, current |-> b.size, index |-> Len(b.restarts), key |-> <<>>, value |-> 0,
   next |-> 0, ok |-> TRUE]
ErrorIter == [BlockIter(EmptyBlock) EXCEPT !.ok = FALSE]
IterValid(it) == it.current < it.b.size
GetRestartPoint(b, i) == b.restarts[i + 1]
SeekToRestartPoint(it, i) ==
  [it EXCEPT !.key = <<>>, !.index = i, !.next = GetRestartPoint(it.b, i)]
AtEnd(it) == [it EXCEPT !.current = it.b.size, !.index = Len(it.b.restarts)]

ParseNextKey(it) ==
  LET b == it.b IN
  IF it.next >= b.size THEN AtEnd(it)
  ELSE LET e == b.entries[CHOOSE i \in 1..Len(b.entries) : b.entries[i].at = it.next]
           passed == {r \in (it.index + 1)..(Len(b.restarts) - 1) : GetRestartPoint(b, r) < e.at}
       IN  IF Len(it.key) < e.shared THEN [AtEnd(it) EXCEPT !.ok = FALSE]
           ELSE [it EXCEPT !.current = e.at, !.key = SubSeq(it.key, 1, e.shared) \o e.delta,
                           !.value = e.value, !.next = e.next, !.index = Max({it.index} \cup passed)]

\* The loop of Prev and SeekToLast: to the entry that ends at an offset
RECURSIVE ScanTo(_, _)
ScanTo(it, offset) ==
  LET n == ParseNextKey(it) IN IF IterValid(n) /\ n.next < offset THEN ScanTo(n, offset) ELSE n

\* The linear part of Seek
RECURSIVE ScanFor(_, _)
ScanFor(it, target) ==
  LET n == ParseNextKey(it)
  IN  IF IterValid(n) /\ KeyLess(n.key, target) THEN ScanFor(n, target) ELSE n

\* The key at restart point i, which the binary search reads
RestartKey(b, i) ==
  b.entries[CHOOSE j \in 1..Len(b.entries) : b.entries[j].at = GetRestartPoint(b, i)]

RECURSIVE LastRestartBefore(_, _, _, _)
LastRestartBefore(b, target, lo, hi) ==
  IF lo >= hi THEN lo
  ELSE LET mid == (lo + hi + 1) \div 2
       IN  IF KeyLess(RestartKey(b, mid).delta, target) THEN LastRestartBefore(b, target, mid, hi)
                                                        ELSE LastRestartBefore(b, target, lo, mid - 1)

\* A restart point with a shared prefix is a corruption
IterSeek(it, target) ==
  IF \E i \in 1..(Len(it.b.restarts) - 1) : RestartKey(it.b, i).shared # 0
  THEN [AtEnd(it) EXCEPT !.ok = FALSE]
  ELSE ScanFor(SeekToRestartPoint(it, LastRestartBefore(it.b, target, 0, Len(it.b.restarts) - 1)), target)
IterFirst(it) == ParseNextKey(SeekToRestartPoint(it, 0))
IterLast(it) == ScanTo(SeekToRestartPoint(it, Len(it.b.restarts) - 1), it.b.size)
IterPrev(it) ==
  LET r == {i \in 0..Min({it.index, Len(it.b.restarts) - 1}) : GetRestartPoint(it.b, i) < it.current}
  IN  IF r = {} THEN AtEnd(it) ELSE ScanTo(SeekToRestartPoint(it, Max(r)), it.current)

-----------------------------------------------------------------------------
(* Table and TwoLevelIterator.                                             *)

NoIter == [pc |-> "none"]
FileBlock(kind) == tfile[CHOOSE i \in 1..Len(tfile) : tfile[i].kind = kind]
DataBlock(at) == tfile[CHOOSE i \in 1..Len(tfile) : tfile[i].kind = "data" /\ tfile[i].at = at]

\* Table::Open needs the footer and the index block; ReadMeta forgives
CanOpen == /\ \E i \in 1..Len(tfile) : tfile[i].kind = "footer" /\ tfile[i].at \notin bad
           /\ FileBlock("index").at \notin bad
Filters == IF {FileBlock("filter").at, FileBlock("meta").at} \cap bad = {}
           THEN FileBlock("filter").block ELSE <<>>

\* BlockReader; the index entry's value is the block's handle
BlockReader(handle) ==
  IF handle \in bad THEN ErrorIter ELSE BlockIter(DataBlock(handle).block)

None == <<>>
NewTwoLevel == [pc |-> "iter", index |-> BlockIter(FileBlock("index").block), data |-> None,
                handle |-> -1, saved |-> TRUE]

\* SetDataIterator saves the error of the iterator it drops
SetDataIterator(t, d) ==
  [t EXCEPT !.data = d, !.saved = @ /\ (t.data = None \/ t.data[1].ok)]

InitDataBlock(t) ==
  IF ~IterValid(t.index) THEN SetDataIterator(t, None)
  ELSE IF t.data # None /\ t.handle = t.index.value THEN t
  ELSE [SetDataIterator(t, <<BlockReader(t.index.value)>>) EXCEPT !.handle = t.index.value]

OnData(t, Op(_)) == IF t.data = None THEN t ELSE [t EXCEPT !.data = <<Op(t.data[1])>>]
DataValid(t) == t.data # None /\ IterValid(t.data[1])

RECURSIVE SkipForward(_)
SkipForward(t) ==
  IF DataValid(t) THEN t
  ELSE IF ~IterValid(t.index) THEN SetDataIterator(t, None)
  ELSE SkipForward(OnData(InitDataBlock([t EXCEPT !.index = ParseNextKey(@)]), IterFirst))

RECURSIVE SkipBackward(_)
SkipBackward(t) ==
  IF DataValid(t) THEN t
  ELSE IF ~IterValid(t.index) THEN SetDataIterator(t, None)
  ELSE SkipBackward(OnData(InitDataBlock([t EXCEPT !.index = IterPrev(@)]), IterLast))

TwoLevelStatusOK(t) == t.index.ok /\ (t.data # None => t.data[1].ok) /\ t.saved

\* The position a reference would have
FirstAtOrAfter(key) ==
  Min({i \in 1..Len(tadded) : ~KeyLess(tadded[i], key)} \cup {Len(tadded) + 1}) % (Len(tadded) + 1)

NothingGot == [key |-> <<>>, ok |-> TRUE, value |-> 0]
MovedTo(t, pos) ==
  /\ tit' = t /\ tpos' = pos /\ tgot' = NothingGot
  /\ UNCHANGED <<tb, tfile, tadded, bad, tfaults>>

OpenTable ==
  /\ tb.closed /\ tit.pc = "none" /\ CanOpen
  /\ MovedTo(NewTwoLevel, 0)

TableSeek(key) ==
  /\ tit.pc = "iter"
  /\ LET t == InitDataBlock([tit EXCEPT !.index = IterSeek(@, key)])
     IN  MovedTo(SkipForward(OnData(t, LAMBDA it : IterSeek(it, key))), FirstAtOrAfter(key))

TableFirst ==
  /\ tit.pc = "iter"
  /\ MovedTo(SkipForward(OnData(InitDataBlock([tit EXCEPT !.index = IterFirst(@)]), IterFirst)),
          IF tadded = <<>> THEN 0 ELSE 1)

TableLast ==
  /\ tit.pc = "iter"
  /\ MovedTo(SkipBackward(OnData(InitDataBlock([tit EXCEPT !.index = IterLast(@)]), IterLast)),
          Len(tadded))

TableNext ==
  /\ tit.pc = "iter" /\ DataValid(tit)
  /\ MovedTo(SkipForward(OnData(tit, ParseNextKey)), (tpos + 1) % (Len(tadded) + 1))

TablePrev ==
  /\ tit.pc = "iter" /\ DataValid(tit)
  /\ MovedTo(SkipBackward(OnData(tit, IterPrev)), Max({tpos - 1, 0}))

\* Table::InternalGet: what the saver is given, 0 for nothing.  It has iterators of its own, so
\* it is enough to call it before the other one moves
InternalGet(key) ==
  /\ tit.pc = "iter" /\ tit = NewTwoLevel
  /\ LET i == IterSeek(BlockIter(FileBlock("index").block), key)
         d == IterSeek(BlockReader(i.value), key)
     IN  tgot' = IF ~IterValid(i) \/ ~KeyMayMatch(Filters, i.value, key)
                 THEN [key |-> key, ok |-> i.ok, value |-> 0]
                 ELSE [key |-> key, ok |-> i.ok /\ d.ok, value |-> IF IterValid(d) THEN d.value ELSE 0]
  /\ UNCHANGED <<tb, tfile, tadded, bad, tit, tpos, tfaults>>

TableInit ==
  /\ tb = NewBuilder /\ tfile = <<>> /\ tadded = <<>> /\ bad = {}
  /\ tit = NoIter /\ tpos = 0 /\ tgot = NothingGot
  /\ tfaults = MaxTableFaults

TableStep ==
  \/ \E key \in TableKeys, fails \in BOOLEAN : AddKeyValue(key, fails)
  \/ \E fails \in BOOLEAN : FinishTable(fails)
  \/ GoBad \/ OpenTable
  \/ \E key \in SeekKeys : TableSeek(key) \/ InternalGet(key)
  \/ TableFirst \/ TableLast \/ TableNext \/ TablePrev

TableSpec == TableInit /\ [][TableStep]_tableVars

-----------------------------------------------------------------------------
(* Properties.                                                             *)

\* A table iterator without an error, or over an intact file, is where its calls put it: no entry
\* is skipped or repeated at the edges of blocks and restart intervals, in either direction
\* (two_level_iterator.cc, block.cc Iter)
IteratorInPlace ==
  tit.pc = "iter" /\ (TwoLevelStatusOK(tit) \/ bad = {}) =>
    IF DataValid(tit) THEN /\ tpos # 0 /\ tit.data[1].key = tadded[tpos]
                           /\ tit.data[1].value = tpos
                      ELSE tpos = 0

\* A lookup without an error gives the newest entry of its user key that it may see, whatever
\* the index's shortened keys and the filters say (table.cc InternalGet, filter_block.cc)
LookupFinds ==
  tgot.key # <<>> /\ (tgot.ok \/ bad = {}) =>
    LET i == FirstAtOrAfter(tgot.key)
    IN  IF i # 0 /\ UserKey(tadded[i]) = UserKey(tgot.key) THEN tgot.value = i
                                                          ELSE tgot.value \in {0, i}

\* Both
TableSound == IteratorInPlace /\ LookupFinds
=============================================================================
