----------------------------- MODULE LogFormat -----------------------------
(***************************************************************************)
(* The format of leveldb's logs and descriptors: log::Writer cuts records  *)
(* into fragments that do not cross a block, log::Reader puts them         *)
(* together again from what a crash, a failed write or a bad byte left.    *)
(* Bytes have an offset and no value: a fragment is recognised at its      *)
(* offset when all its bytes are there, and anything else fails its        *)
(* checksum.  The reader starts at the beginning of the file, as every     *)
(* caller in the store does.                                               *)
(***************************************************************************)
EXTENDS Integers, Sequences, FiniteSets

CONSTANTS
    BlockSize,      \* kBlockSize
    HeaderSize,     \* kHeaderSize
    Sizes,          \* lengths of the records written
    MaxRecords,     \* bound: records in one file
    MaxFaults       \* bound: short writes and damaged bytes in one file

\* A block holds a header and a byte at least: 32768 and 7 bytes in the code.
ASSUME LogAssumption ==
    /\ BlockSize \in Nat /\ HeaderSize \in Nat \ {0} /\ HeaderSize < BlockSize
    /\ Sizes \subseteq Nat /\ MaxRecords \in Nat /\ MaxFaults \in Nat

VARIABLES
    chunks,     \* the physical records written, in order
    fileLen,    \* bytes of the file
    blockOffset, \* block_offset_ of the writer
    unwritten,  \* <<>> or the record being written
    records,    \* record -> "open", "written" or "failed"
    faults,     \* short writes and damaged bytes so far
    shaken,     \* the first record whose place in the blocks is in doubt
    badBytes,   \* offsets of damaged bytes
    bufEnd,     \* end_of_buffer_offset_; -1 while the writer is at work
    bufPos,     \* where buffer_ begins
    scratch,    \* <<>> or the fragments of the record being put together
    out         \* the records read

logVars == <<chunks, fileLen, blockOffset, unwritten, records, faults, shaken, badBytes,
             bufEnd, bufPos, scratch, out>>

LogInit ==
    /\ chunks = <<>> /\ fileLen = 0 /\ blockOffset = 0 /\ unwritten = <<>> /\ records = <<>>
    /\ faults = 0 /\ shaken = MaxRecords + 1 /\ badBytes = {}
    /\ bufEnd = -1 /\ bufPos = 0 /\ scratch = <<>> /\ out = <<>>

Lesser(a, b) == IF a <= b THEN a ELSE b

-----------------------------------------------------------------------------
(* The writer. *)

Idle == bufEnd = -1 /\ unwritten = <<>>

AddRecord(n) ==
    /\ Idle /\ Len(records) < MaxRecords
    /\ records' = Append(records, "open")
    /\ unwritten' = <<[rec |-> Len(records'), left |-> n, part |-> 1]>>
    /\ UNCHANGED <<chunks, fileLen, blockOffset, faults, shaken, badBytes, bufEnd, bufPos, scratch, out>>

\* One turn of AddRecord's loop: a trailer if the header no longer fits, then as
\* much of the record as the block takes.  The file may take only some of the
\* bytes, or all of them and fail to flush; the writer counts them all, and notices
\* the error unless only the trailer failed.
EmitPhysicalRecord ==
    /\ bufEnd = -1 /\ unwritten # <<>>
    /\ LET p        == unwritten[1]
           leftover == BlockSize - blockOffset
           trailer  == IF leftover < HeaderSize THEN leftover ELSE 0
           start    == IF leftover < HeaderSize THEN 0 ELSE blockOffset
           n        == Lesser(p.left, BlockSize - start - HeaderSize)
           end      == n = p.left
           type     == IF p.part = 1 THEN (IF end THEN "full" ELSE "first")
                                     ELSE (IF end THEN "last" ELSE "middle")
           Emit(filler, bytes) ==
               /\ chunks' = Append(chunks, [at |-> fileLen + filler, len |-> n, type |-> type,
                                            rec |-> p.rec, part |-> p.part,
                                            whole |-> bytes = HeaderSize + n])
               /\ fileLen' = fileLen + filler + bytes
           GoOn ==
               /\ unwritten' = IF end THEN <<>>
                             ELSE <<[p EXCEPT !.left = @ - n, !.part = @ + 1]>>
               /\ records' = IF end THEN [records EXCEPT ![p.rec] = "written"] ELSE records
           GiveUp ==
               /\ unwritten' = <<>>
               /\ records' = [records EXCEPT ![p.rec] = "failed"]
           Fault(shifts) ==
               /\ faults < MaxFaults /\ faults' = faults + 1
               /\ shaken' = IF shifts THEN Lesser(shaken, p.rec) ELSE shaken
       IN  /\ blockOffset' = start + HeaderSize + n
           /\ \/ Emit(trailer, HeaderSize + n) /\ GoOn /\ UNCHANGED <<faults, shaken>>
              \/ \E b \in 0 .. (HeaderSize + n) :
                     Fault(b < HeaderSize + n) /\ GiveUp /\ Emit(trailer, b)
              \/ \E f \in 0 .. (trailer - 1) :
                     Fault(TRUE) /\ GoOn /\ Emit(f, HeaderSize + n)
    /\ UNCHANGED <<badBytes, bufEnd, bufPos, scratch, out>>

\* The process or the machine stops: the end of the file is lost, in the middle of
\* a record or not, and a reader opens what is there.
Crash(n) ==
    /\ bufEnd = -1
    /\ fileLen' = n /\ unwritten' = <<>>
    /\ bufEnd' = 0 /\ bufPos' = 0
    /\ UNCHANGED <<chunks, blockOffset, records, faults, shaken, badBytes, scratch, out>>

\* A byte of the file goes bad before it is read.
Damage(b) ==
    /\ bufEnd = 0 /\ faults < MaxFaults
    /\ faults' = faults + 1 /\ badBytes' = badBytes \cup {b}
    /\ UNCHANGED <<chunks, fileLen, blockOffset, unwritten, records, shaken, bufEnd, bufPos, scratch, out>>

-----------------------------------------------------------------------------
(* The reader. *)

Eof == bufEnd = fileLen /\ bufEnd % BlockSize # 0    \* the last read was short
Buffered == bufEnd - bufPos

\* ReadPhysicalRecord fetches the next block and skips the trailer of this one.
\* A last block that is full is followed by a read of nothing.
Refill ==
    /\ bufEnd >= 0 /\ Buffered < HeaderSize /\ ~Eof /\ bufEnd < fileLen
    /\ bufEnd' = Lesser(bufEnd + BlockSize, fileLen) /\ bufPos' = bufEnd
    /\ UNCHANGED <<chunks, fileLen, blockOffset, unwritten, records, faults, shaken, badBytes, scratch, out>>

\* The physical record that begins at pos and passes its checksum.
Readable ==
    {i \in DOMAIN chunks :
        LET ch  == chunks[i]
            end == ch.at + HeaderSize + ch.len
        IN  ch.at = bufPos /\ ch.whole /\ end <= bufEnd /\ badBytes \cap (ch.at .. end - 1) = {}}

Fragment(ch) == <<ch.rec, ch.part>>

\* ReadRecord on a good physical record.
ReadFragment ==
    /\ Buffered >= HeaderSize
    /\ \E i \in Readable :
           LET ch == chunks[i]
           IN  /\ bufPos' = bufPos + HeaderSize + ch.len
               /\ CASE ch.type = "full"   -> /\ out' = Append(out, <<Fragment(ch)>>)
                                             /\ scratch' = <<>>
                    [] ch.type = "first"  -> /\ scratch' = <<Fragment(ch)>>
                                             /\ UNCHANGED out
                    [] ch.type = "middle" -> /\ scratch' = IF scratch = <<>> THEN <<>>
                                                           ELSE Append(scratch, Fragment(ch))
                                             /\ UNCHANGED out
                    [] ch.type = "last"   -> /\ scratch' = <<>>
                                             /\ out' = IF scratch = <<>> THEN out
                                                       ELSE Append(out, Append(scratch, Fragment(ch)))
    /\ UNCHANGED <<chunks, fileLen, blockOffset, unwritten, records, faults, shaken, badBytes, bufEnd>>

\* Faulty variant: scratch is kept.
DropKeepsScratch ==
    /\ Buffered >= HeaderSize /\ Readable = {}
    /\ bufPos' = bufEnd
    /\ UNCHANGED <<chunks, fileLen, blockOffset, unwritten, records, faults, shaken, badBytes,
                   bufEnd, scratch, out>>

\* A length that does not fit, a checksum that does not match, zeros: the rest of
\* the block is dropped, and with it the record that was being put together.
DropBlock ==
    /\ Buffered >= HeaderSize /\ Readable = {}
    /\ bufPos' = bufEnd /\ scratch' = <<>>
    /\ UNCHANGED <<chunks, fileLen, blockOffset, unwritten, records, faults, shaken, badBytes, bufEnd, out>>

LogNext ==
    \/ \E n \in Sizes : AddRecord(n)
    \/ EmitPhysicalRecord
    \/ \E n \in 0 .. fileLen : Crash(n)
    \/ \E b \in 0 .. (fileLen - 1) : Damage(b)
    \/ Refill
    \/ ReadFragment
    \/ DropBlock

LogSpec == LogInit /\ [][LogNext]_logVars

-----------------------------------------------------------------------------
(* Properties. *)

AllRead == bufEnd = fileLen /\ Buffered < HeaderSize

ChunksOf(r)    == {i \in DOMAIN chunks : chunks[i].rec = r}
PartsOf(r)     == [n \in 1 .. Cardinality(ChunksOf(r)) |-> <<r, n>>]
EndOf(i)       == chunks[i].at + HeaderSize + chunks[i].len
BlocksOf(i)    == (chunks[i].at \div BlockSize) .. ((EndOf(i) - 1) \div BlockSize)
DamagedBlocks  == {b \div BlockSize : b \in badBytes}

\* A record that was written before the first short write, that the crash left in
\* the file, and that has no fragment in a damaged block.
Safe(r) ==
    /\ records[r] = "written" /\ r < shaken
    /\ \A i \in ChunksOf(r) : EndOf(i) <= fileLen /\ BlocksOf(i) \cap DamagedBlocks = {}

\* However the file ends and whatever byte is bad, the reader returns every safe
\* record: a bad byte costs the records of its block and no others.
SafeRecordsAreRead ==
    AllRead => \A r \in DOMAIN records : Safe(r) => \E i \in DOMAIN out : out[i] = PartsOf(r)

\* The reader never makes up a record from the fragments of two, returns none
\* twice, and keeps their order, even after a short write has shifted the blocks.
NothingInvented ==
    /\ \A i \in DOMAIN out : \E r \in DOMAIN records :
           /\ out[i] = PartsOf(r)
           /\ \E n \in ChunksOf(r) : chunks[n].type \in {"full", "last"}
    /\ \A i, j \in DOMAIN out : i < j => out[i][1][1] < out[j][1][1]

\* What the reader returns is true, and nothing that could be read is missing.
ReaderIsTrue == SafeRecordsAreRead /\ NothingInvented
=============================================================================
