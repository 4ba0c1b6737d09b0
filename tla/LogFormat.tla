----------------------------- MODULE LogFormat -----------------------------
(***************************************************************************)
(* The format of leveldb's logs and descriptors (db/log_format.h): records *)
(* are cut into fragments that never cross the end of a block              *)
(* (db/log_writer.cc), and read back block by block (db/log_reader.cc).    *)
(*                                                                         *)
(* A file is a sequence of bytes, of which the model keeps what matters: a *)
(* byte of a fragment names its record, its place in the fragment (the     *)
(* header comes first), the fragment's type and length and where in the    *)
(* record its payload starts; other bytes are zeros.  A checksum matches   *)
(* iff the bytes under it are those of one fragment, in order.             *)
(***************************************************************************)
EXTENDS Integers, Sequences, SequencesExt

CONSTANTS
  kBlockSize, kHeaderSize,
  RecordSizes,     \* the sizes of the records that are added
  MaxRecords,      \* bound: records added
  MaxLogFaults     \* bound: failed appends, crashes and failed reads

ASSUME LogAssumption ==
  /\ kHeaderSize \in Nat \ {0} /\ kBlockSize \in Nat /\ kBlockSize > kHeaderSize
  /\ RecordSizes \subseteq Nat /\ MaxRecords \in Nat /\ MaxLogFaults \in Nat

VARIABLES
  logBytes,      \* the file
  block_offset_, \* Writer::block_offset_; -1 without a writer
  adding,        \* AddRecord's loop: what is left of the record; NoRecord outside
  added,         \* history: the records for which AddRecord was called
  tornAt,        \* history: where the first cut fragment or trailer ends
  logFaults,
  rd             \* a Reader

logVars == <<logBytes, block_offset_, adding, added, tornAt, logFaults, rd>>

NoRecord == [left |-> -1, begin |-> TRUE]
Clean == -1
Lost == -1
Zero == [record |-> 0, start |-> 0, at |-> 0, type |-> "zero", length |-> 0]

Fragment(record, start, type, length) ==
  [i \in 1..(kHeaderSize + length) |->
     [record |-> record, start |-> start, at |-> i, type |-> type, length |-> length]]

-----------------------------------------------------------------------------
(* log::Writer.                                                            *)

\* Writer(dest) of a new file; Writer(dest, dest_length) of one that is reused
OpenWriter ==
  /\ block_offset_ = -1 /\ rd.pc = "none"
  /\ block_offset_' = Len(logBytes) % kBlockSize
  /\ UNCHANGED <<logBytes, adding, added, tornAt, logFaults, rd>>

AddRecord(size) ==
  /\ block_offset_ # -1 /\ adding = NoRecord
  /\ Len(added) < MaxRecords
  /\ adding' = [left |-> size, begin |-> TRUE]
  /\ added' = Append(added, [size |-> size, start |-> Lost, end |-> Lost])
  /\ UNCHANGED <<logBytes, block_offset_, tornAt, logFaults, rd>>

\* One turn of AddRecord's loop: the trailer of a block with no room for a
\* header, the type of the fragment, and EmitPhysicalRecord.
Trailer == IF kBlockSize - block_offset_ < kHeaderSize THEN kBlockSize - block_offset_ ELSE 0
OffsetAfterTrailer == IF kBlockSize - block_offset_ < kHeaderSize THEN 0 ELSE block_offset_
FragmentLength ==
  LET avail == kBlockSize - OffsetAfterTrailer - kHeaderSize
  IN IF adding.left < avail THEN adding.left ELSE avail
FragmentType ==
  LET end == adding.left = FragmentLength
  IN CASE adding.begin /\ end -> "full" [] adding.begin /\ ~end -> "first"
       [] ~adding.begin /\ end -> "last" [] OTHER -> "middle"

NextFragment ==
  Fragment(Len(added), Last(added).size - adding.left, FragmentType, FragmentLength)

\* The file with n bytes of the trailer.
WithTrailer(n) == logBytes \o [i \in 1..n |-> Zero]

\* The first cut, if bytes are missing after place n
CutAt(n) == IF tornAt = Clean THEN n ELSE tornAt

\* Mutant: the writer counts the bytes of the header twice.
AdvancedTwice == OffsetAfterTrailer + kHeaderSize + kHeaderSize + FragmentLength

\* EmitPhysicalRecord: the offset after the fragment, also if an append fails
Advanced == OffsetAfterTrailer + kHeaderSize + FragmentLength

\* AddRecord ignores the result of the trailer's append: when only n bytes of it
\* are in the file, the fragment still follows.
EmitPhysicalRecord(n) ==
  /\ adding # NoRecord
  /\ \/ /\ n = Trailer
        /\ UNCHANGED <<tornAt, logFaults>>
     \/ /\ n < Trailer
        /\ logFaults < MaxLogFaults
        /\ logFaults' = logFaults + 1
        /\ tornAt' = CutAt(Len(logBytes) + n)
  /\ logBytes' = WithTrailer(n) \o NextFragment
  /\ block_offset_' = Advanced
  /\ added' = [added EXCEPT ![Len(added)] =
                 [size |-> @.size,
                  start |-> IF adding.begin THEN Len(WithTrailer(n)) ELSE @.start,
                  end |-> IF adding.left = FragmentLength THEN Len(logBytes') ELSE Lost]]
  /\ adding' = IF adding.left = FragmentLength THEN NoRecord
               ELSE [left |-> adding.left - FragmentLength, begin |-> FALSE]
  /\ UNCHANGED rd

\* An append or the flush fails after n bytes of the trailer and m of the
\* fragment: AddRecord returns the error, and block_offset_ has advanced as if
\* they were all in the file.
AppendFails(n, m) ==
  /\ adding # NoRecord
  /\ logFaults < MaxLogFaults
  /\ n <= Trailer /\ m <= Len(NextFragment)
  /\ logFaults' = logFaults + 1
  /\ logBytes' = WithTrailer(n) \o SubSeq(NextFragment, 1, m)
  /\ block_offset_' = Advanced
  /\ adding' = NoRecord
  /\ tornAt' = CutAt(IF n < Trailer THEN Len(logBytes) + n ELSE Len(logBytes'))
  /\ UNCHANGED <<added, rd>>

\* ~Writer, and the file is closed.
CloseWriter ==
  /\ block_offset_ # -1 /\ adding = NoRecord
  /\ block_offset_' = -1
  /\ UNCHANGED <<logBytes, adding, added, tornAt, logFaults, rd>>

\* The process stops, or the machine does and only a prefix of the file remains.
CrashLog(length) ==
  /\ block_offset_ # -1
  /\ logFaults < MaxLogFaults
  /\ logFaults' = logFaults + 1
  /\ length <= Len(logBytes)
  /\ logBytes' = SubSeq(logBytes, 1, length)
  /\ block_offset_' = -1
  /\ adding' = NoRecord
  \* bytes of an unfinished record remain in front of what is appended later
  /\ tornAt' = CASE tornAt # Clean /\ tornAt < length -> tornAt
                 [] length = 0 \/ \E i \in DOMAIN added : added[i].end = length -> Clean
                 [] OTHER -> length
  /\ added' = [i \in DOMAIN added |->
                 IF added[i].end > length THEN [added[i] EXCEPT !.end = Lost] ELSE added[i]]
  /\ UNCHANGED rd

-----------------------------------------------------------------------------
(* log::Reader.  `from' is where buffer_ starts in the file, `upto' where   *)
(* it ends: end_of_buffer_offset_.                                         *)

NoReader_ == [pc |-> "none"]

\* Reader(..., initial_offset) with SkipToInitialBlock
OpenReader(initial_offset) ==
  LET offset_in_block == initial_offset % kBlockSize
      start == initial_offset - offset_in_block
      skipped == IF offset_in_block > kBlockSize - (kHeaderSize - 1) THEN start + kBlockSize ELSE start
  IN /\ rd.pc = "none" /\ block_offset_ = -1
     /\ initial_offset <= Len(logBytes)
     /\ rd' = [pc |-> "read", initial |-> initial_offset, from |-> skipped, upto |-> skipped,
               eof |-> FALSE, resyncing |-> initial_offset > 0, fragmented |-> FALSE,
               scratch |-> <<>>, records |-> <<>>, drops |-> 0, failed |-> FALSE]
     /\ UNCHANGED <<logBytes, block_offset_, adding, added, tornAt, logFaults>>

\* ReportDrop of some bytes that end where buffer_ starts, and not before the
\* initial offset; r is the Reader after the drop
ReportDrop(r, bytes) ==
  IF r.from - bytes < 0 \/ r.from - bytes >= r.initial THEN [r EXCEPT !.drops = @ + 1] ELSE r

Buffered == rd.upto - rd.from

\* ReadPhysicalRecord needs the next block.
ReadBlock ==
  /\ rd.pc = "read" /\ Buffered < kHeaderSize /\ ~rd.eof
  /\ LET upto == IF rd.upto + kBlockSize <= Len(logBytes) THEN rd.upto + kBlockSize
                 ELSE IF rd.upto > Len(logBytes) THEN rd.upto ELSE Len(logBytes)
     IN rd' = [rd EXCEPT !.from = rd.upto, !.upto = upto, !.eof = upto - rd.upto < kBlockSize]
  /\ UNCHANGED <<logBytes, block_offset_, adding, added, tornAt, logFaults>>

\* The read fails: the block is dropped, and this is taken for the end.
ReadBlockFails ==
  /\ rd.pc = "read" /\ Buffered < kHeaderSize /\ ~rd.eof
  /\ logFaults < MaxLogFaults
  /\ logFaults' = logFaults + 1
  /\ rd' = [ReportDrop([rd EXCEPT !.from = rd.upto], kBlockSize) EXCEPT
              !.eof = TRUE, !.pc = "done", !.failed = TRUE]
  /\ UNCHANGED <<logBytes, block_offset_, adding, added, tornAt>>

\* The end of the file; an unfinished record is ignored.
ReadEof ==
  /\ rd.pc = "read" /\ Buffered < kHeaderSize /\ rd.eof
  /\ rd' = [rd EXCEPT !.pc = "done", !.from = rd.upto]
  /\ UNCHANGED <<logBytes, block_offset_, adding, added, tornAt, logFaults>>

\* The bytes of a physical record at buffer_'s start
Header == logBytes[rd.from + 1]
HeaderIntact ==
  \A i \in 1..kHeaderSize : logBytes[rd.from + i] = [Header EXCEPT !.at = i]
AllZero == \A i \in 1..kHeaderSize : logBytes[rd.from + i] = Zero
Fits == kHeaderSize + Header.length <= Buffered

\* Mutant: only the header is under the checksum.
HeaderMatches == HeaderIntact

\* The checksum is over the type and the payload.
ChecksumMatches ==
  \A i \in 1..(kHeaderSize + Header.length) : logBytes[rd.from + i] = [Header EXCEPT !.at = i]

\* The bytes of the record that the fragment holds
Payload == [j \in 1..Header.length |-> <<Header.record, Header.start + j>>]

\* What ReadRecord does with a bad record, which drops the rest of the buffer:
\* an unfinished record is dropped too
BadRecord(r) ==
  LET s == [r EXCEPT !.from = rd.upto, !.resyncing = FALSE, !.fragmented = FALSE, !.scratch = <<>>]
  IN IF r.fragmented THEN ReportDrop(s, Len(r.scratch)) ELSE s

\* A header with a length past the buffer: the end of the file if this is the
\* last block, else a bad record
BadLength ==
  IF rd.eof THEN [rd EXCEPT !.pc = "done", !.from = rd.upto]
  ELSE BadRecord(ReportDrop([rd EXCEPT !.from = rd.upto], Buffered))

\* Bytes that are no header may have any type and a length that fits or not;
\* their checksum does not match.
ReadBad ==
  /\ rd.pc = "read" /\ Buffered >= kHeaderSize
  /\ \/ ~AllZero /\ (HeaderIntact => ~Fits) /\ rd' = BadLength
     \/ ~HeaderIntact /\ rd' = BadRecord(rd)  \* of type kZeroType, length 0
     \/ /\ ~AllZero /\ (HeaderIntact => Fits /\ ~ChecksumMatches)
        /\ rd' = BadRecord(ReportDrop([rd EXCEPT !.from = rd.upto], Buffered))
  /\ UNCHANGED <<logBytes, block_offset_, adding, added, tornAt, logFaults>>

\* ReadRecord's loop with a physical record of type t and payload p
Take(r, t, p) ==
  LET partial == IF r.fragmented /\ r.scratch # <<>> THEN ReportDrop(r, Len(r.scratch)) ELSE r
  IN CASE r.resyncing /\ t = "middle" -> r
       [] r.resyncing /\ t = "last" -> [r EXCEPT !.resyncing = FALSE]
       [] t = "full" -> [partial EXCEPT !.records = Append(@, <<Header.record, p>>), !.fragmented = FALSE,
                                        !.scratch = <<>>, !.resyncing = FALSE]
       [] t = "first" -> [partial EXCEPT !.scratch = p, !.fragmented = TRUE, !.resyncing = FALSE]
       [] t = "middle" /\ ~r.resyncing ->
            IF r.fragmented THEN [r EXCEPT !.scratch = @ \o p] ELSE ReportDrop(r, Len(p))
       [] t = "last" /\ ~r.resyncing ->
            IF r.fragmented
            THEN [r EXCEPT !.records = Append(@, <<Header.record, r.scratch \o p>>),
                           !.fragmented = FALSE, !.scratch = <<>>]
            ELSE ReportDrop(r, Len(p))

\* The physical record is skipped if it started before the initial offset.
ReadFragment ==
  /\ rd.pc = "read" /\ Buffered >= kHeaderSize
  /\ HeaderIntact /\ ~AllZero /\ Fits /\ ChecksumMatches
  /\ LET size == kHeaderSize + Header.length
         next == [rd EXCEPT !.from = rd.from + size]
     IN rd' = IF rd.from < rd.initial
              THEN [next EXCEPT !.resyncing = FALSE]
              ELSE Take(next, Header.type, Payload)
  /\ UNCHANGED <<logBytes, block_offset_, adding, added, tornAt, logFaults>>

-----------------------------------------------------------------------------
LogInit ==
  /\ logBytes = <<>> /\ block_offset_ = 0 /\ adding = NoRecord /\ added = <<>>
  /\ tornAt = Clean /\ logFaults = 0 /\ rd = NoReader_

LogNext ==
  \/ OpenWriter
  \/ \E size \in RecordSizes : AddRecord(size)
  \/ \E n \in 0..kHeaderSize : EmitPhysicalRecord(n)
  \/ \E n \in 0..kHeaderSize, m \in 0..kBlockSize : AppendFails(n, m)
  \/ CloseWriter
  \/ \E length \in 0..Len(logBytes) : CrashLog(length)
  \/ \E initial_offset \in 0..Len(logBytes) : OpenReader(initial_offset)
  \/ ReadBlock \/ ReadBlockFails \/ ReadEof \/ ReadBad \/ ReadFragment

LogSpec == LogInit /\ [][LogNext]_logVars

-----------------------------------------------------------------------------
(* Properties.                                                             *)

\* Nothing follows a fragment that was cut: the state of a log after a crash.
Intact == tornAt \in {Clean, Len(logBytes)}

Finished == rd.pc = "done" /\ ~rd.failed

\* From any initial offset, a Reader returns all records that AddRecord wrote in
\* whole and that start there or later, in order, when the log just ends, or
\* ends in the middle of a record.
AddedAreRead ==
  Finished /\ Intact =>
    LET Whole(i) == added[i].end # Lost
        expected == SelectSeq([i \in DOMAIN added |-> i],
                              LAMBDA i : Whole(i) /\ added[i].start >= rd.initial)
    IN SelectSeq([i \in DOMAIN rd.records |-> rd.records[i][1]], Whole) = expected

\* Whatever was cut, dropped or overwritten: no Reader ever makes a record of
\* pieces.  Each one that it returns was added, byte by byte, and none is
\* returned twice or before an older one.
NoForgedRecords ==
  rd.pc # "none" =>
    /\ \A i \in DOMAIN rd.records :
         rd.records[i][2] = [j \in 1..added[rd.records[i][1]].size |-> <<rd.records[i][1], j>>]
    /\ \A i, j \in DOMAIN rd.records : i < j => rd.records[i][1] < rd.records[j][1]

\* A writer that stops anywhere in a record leaves a log whose Reader reports
\* no corruption.
CrashIsNoCorruption == Finished /\ Intact /\ rd.initial = 0 => rd.drops = 0

\* Both: what a log promises to DBImpl::Recover and to VersionSet::Recover.
LogReadsBack == AddedAreRead /\ CrashIsNoCorruption
=============================================================================
