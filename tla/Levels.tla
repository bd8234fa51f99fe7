------------------------------- MODULE Levels -------------------------------
(***************************************************************************)
(* The data path of leveldb's DBImpl: writes go to a memtable, a full      *)
(* memtable becomes a table file, and one background thread merges the     *)
(* files of a level into the next, while writers, readers and snapshots go *)
(* on.  Logs, the descriptor and crashes are in Recovery; the queue of     *)
(* writers and the scheduling of the background thread in WriteQueue.      *)
(***************************************************************************)
EXTENDS LevelFiles

CONSTANTS
    L0Stop,         \* config::kL0_StopWritesTrigger
    MaxSnaps,       \* bound: snapshots held at a time
    MaxOutputs,     \* bound: files one compaction writes
    CutInsideKey,   \* whether an output may be full between two entries of a key
    ManualRanges,   \* the pairs <<begin, end>> CompactRange is called with
    Reopens         \* whether the store is closed and opened again

ASSUME RangesAssumption == ManualRanges \subseteq Nat \X Nat

VARIABLES
    mem,        \* the entries of mem_
    imm,        \* <<>> or the entries of imm_
    lastSeq,    \* versions_->LastSequence()
    version,    \* versions_->current(): level -> files
    nextFile,   \* next_file_number_
    snaps,      \* sequence numbers of the snapshots held
    bg,         \* <<>> or the compaction whose work runs without the mutex
    manual      \* <<>> or the CompactRange call in progress

vars == <<mem, imm, lastSeq, version, nextFile, snaps, bg, manual>>

AllFiles(v) == UNION {v[l] : l \in Levels}

Init ==
    /\ mem = {} /\ imm = <<>> /\ lastSeq = 0
    /\ version = EmptyVersion /\ nextFile = 1
    /\ snaps = {} /\ bg = <<>> /\ manual = <<>>

-----------------------------------------------------------------------------
(* The callers. *)

Write(k, del) ==
    /\ lastSeq < MaxSeq
    /\ lastSeq' = lastSeq + 1
    /\ mem' = mem \cup {[key |-> k, seq |-> lastSeq', del |-> del]}
    /\ UNCHANGED <<imm, version, nextFile, snaps, bg, manual>>

\* GetSnapshot; a second handle on one sequence number changes nothing.
TakeSnapshot ==
    /\ lastSeq \notin snaps /\ Cardinality(snaps) < MaxSnaps
    /\ snaps' = snaps \cup {lastSeq}
    /\ UNCHANGED <<mem, imm, lastSeq, version, nextFile, bg, manual>>

ReleaseSnapshot(s) ==
    /\ s \in snaps
    /\ snaps' = snaps \ {s}
    /\ UNCHANGED <<mem, imm, lastSeq, version, nextFile, bg, manual>>

\* MakeRoomForWrite gives up a memtable that is full.
CanSwitch == imm = <<>> /\ Cardinality(version[0]) < L0Stop

SwitchMemTable ==
    /\ CanSwitch /\ mem # {}
    /\ imm' = <<mem>> /\ mem' = {}
    /\ UNCHANGED <<lastSeq, version, nextFile, snaps, bg, manual>>

\* CompactRange counts the levels with files in the range, forces the memtable
\* out, and then works down one level after the other.
CallCompactRange(r) ==
    /\ manual = <<>> /\ CanSwitch
    /\ imm' = <<mem>> /\ mem' = {}
    /\ manual' = <<[level |-> 0, from |-> r[1], begin |-> r[1], end |-> r[2],
                    top |-> Max({1} \cup {l \in Levels \ {0} :
                                             OverlapInLevel(version, l, r[1], r[2])})]>>
    /\ UNCHANGED <<lastSeq, version, nextFile, snaps, bg>>

\* The destructor and DB::Open: what the logs hold becomes files of level 0, one
\* for each log, oldest first; a compaction under way is abandoned.
Reopen ==
    /\ Reopens
    /\ LET logs   == IF imm = <<>> THEN <<mem>> ELSE <<imm[1], mem>>
           filled == {i \in DOMAIN logs : logs[i] # {}}
       IN  /\ version' = Apply(version, 0, {}, {FileOf(nextFile + i - 1, logs[i]) : i \in filled})
           /\ nextFile' = IF filled = {} THEN nextFile ELSE nextFile + Max(filled)
    /\ mem' = {} /\ imm' = <<>> /\ snaps' = {} /\ bg' = <<>> /\ manual' = <<>>
    /\ UNCHANGED lastSeq

-----------------------------------------------------------------------------
(* The background thread.  Only it changes the version. *)

\* CompactMemTable, when the thread has nothing else to do or in the middle of a
\* compaction.  A memtable without entries leaves no file.
FlushImm ==
    /\ imm # <<>>
    /\ IF imm[1] = {}
       THEN UNCHANGED <<version, nextFile>>
       ELSE LET f == FileOf(nextFile, imm[1])
            IN  /\ \E l \in PickLevels(version, f.smallest.key, f.largest.key) :
                       version' = Apply(version, l, {}, {f})
                /\ nextFile' = nextFile + 1
    /\ imm' = <<>>
    /\ UNCHANGED <<mem, lastSeq, snaps, bg, manual>>

\* BackgroundCompaction looks for work once the memtable is out of the way.
Idle == bg = <<>> /\ imm = <<>>

\* Faulty variant: snapshots are forgotten.
SmallestSnapshotNow == lastSeq

SmallestSnapshot == IF snaps = {} THEN lastSeq ELSE Min(snaps)

Compaction(l, ins, byHand) ==
    [level |-> l, in0 |-> ins[1], in1 |-> ins[2], base |-> version,
     smallest |-> SmallestSnapshot, byHand |-> byHand]

\* A single file with nothing under it moves down as it is.
TrivialMove ==
    /\ Idle
    /\ \E p \in PickCompaction(version, lastSeq) :
           /\ MovableShape(p[2])
           /\ version' = Apply(Apply(version, p[1], p[2][1], {}), p[1] + 1, {}, p[2][1])
    /\ UNCHANGED <<mem, imm, lastSeq, nextFile, snaps, bg, manual>>

StartCompaction ==
    /\ Idle
    /\ \E p \in PickCompaction(version, lastSeq) :
           /\ MovableShape(p[2]) => MoveMayBeRefused(version, p[1], p[2])
           /\ bg' = <<Compaction(p[1], p[2], FALSE)>>
    /\ UNCHANGED <<mem, imm, lastSeq, version, nextFile, snaps, manual>>

StartManual ==
    /\ Idle /\ manual # <<>>
    /\ \E p \in CompactRange(version, manual[1].level, manual[1].from, manual[1].end) :
           bg' = <<Compaction(p[1], p[2], TRUE)>>
    /\ UNCHANGED <<mem, imm, lastSeq, version, nextFile, snaps, manual>>

\* No file of the level is left in the range: the call goes on to the next level.
NextManualLevel ==
    /\ Idle /\ manual # <<>>
    /\ LET m == manual[1]
       IN  /\ CompactRange(version, m.level, m.from, m.end) = {}
           /\ manual' = IF m.level + 1 = m.top THEN <<>>
                        ELSE <<[m EXCEPT !.level = @ + 1, !.from = m.begin]>>
    /\ UNCHANGED <<mem, imm, lastSeq, version, nextFile, snaps, bg>>

\* The last of the inputs by smallest key: what is left starts at its end.
ManualEnd(c) ==
    (CHOOSE f \in c.in0 : \A g \in c.in0 : ~Before(f.smallest, g.smallest)).largest.key

\* DoCompactionWork up to InstallCompactionResults.
FinishCompaction ==
    /\ bg # <<>>
    /\ LET c    == bg[1]
           kept == Survivors(c)
           Install(outputs) ==
               /\ version' = Apply(Apply(version, c.level, c.in0, {}), c.level + 1, c.in1, outputs)
               /\ nextFile' = nextFile + Cardinality(outputs)
           OfNewKey(e) == \A f \in kept : f.key = e.key => ~Before(f, e)
           Places == IF CutInsideKey THEN kept ELSE {e \in kept : OfNewKey(e)}
       IN  /\ IF kept = {} THEN Install({})
              ELSE \E starts \in SUBSET (Places \ {FirstOf(kept)}) :
                       /\ Cardinality(starts) < MaxOutputs
                       /\ Install(Numbered(Runs(kept, starts), nextFile))
           /\ manual' = IF c.byHand THEN <<[manual[1] EXCEPT !.from = ManualEnd(c)]>>
                        ELSE manual
    /\ bg' = <<>>
    /\ UNCHANGED <<mem, imm, lastSeq, snaps>>

Next ==
    \/ \E k \in Keys, del \in BOOLEAN : Write(k, del)
    \/ TakeSnapshot
    \/ \E s \in snaps : ReleaseSnapshot(s)
    \/ SwitchMemTable
    \/ \E r \in ManualRanges : CallCompactRange(r)
    \/ Reopen
    \/ FlushImm
    \/ TrivialMove
    \/ StartCompaction
    \/ StartManual
    \/ NextManualLevel
    \/ FinishCompaction

Spec == Init /\ [][Next]_vars

-----------------------------------------------------------------------------
(* Reads. *)

\* DBImpl::Get: the memtable, the one being written out, then the files.
Get(k, s) ==
    LET held == IF imm = <<>> THEN {} ELSE imm[1]
    IN  CASE Visible(mem, k, s) # {}  -> ValueIn(mem, k, s)
          [] Visible(mem, k, s) = {} /\ Visible(held, k, s) # {} -> ValueIn(held, k, s)
          [] OTHER -> VersionGet(version, k, s)

\* What the merging iterator under a DBIter runs over.
Merged == mem \cup (IF imm = <<>> THEN {} ELSE imm[1])
              \cup UNION {f.ents : f \in AllFiles(version)}

-----------------------------------------------------------------------------
(* Properties. *)

\* Writes, snapshots and reads look like those of one ordered map with frozen
\* views: no flush, move, merge or reopening changes what any read returns.
Store == INSTANCE KVStore WITH
             writes   <- lastSeq,
             contents <- [k \in Keys |-> Get(k, lastSeq)],
             views    <- [s \in snaps |-> [k \in Keys |-> Get(k, s)]]
KeepsStore == Store!StoreSpec

\* A lookup and an iterator agree on every key, now and at every snapshot: a
\* lookup stops at the first file with an answer, an iterator merges all of them.
IteratorsAgree ==
    \A k \in Keys, s \in snaps \cup {lastSeq} : Get(k, s) = ValueIn(Merged, k, s)

\* "Entries never hop across levels": of one user key, what is in a level is newer
\* than what is in the levels below it.
EntriesNeverHop ==
    \A l, m \in Levels : l < m =>
        \A f \in version[l], g \in version[m] : \A x \in f.ents, y \in g.ents :
            x.key = y.key => x.seq > y.seq

\* "Must not overlap": the files of a level below level 0 follow one another.
LevelsDisjoint ==
    \A l \in Levels \ {0} : \A f, g \in version[l] :
        f # g => Before(f.largest, g.smallest) \/ Before(g.largest, f.smallest)
=============================================================================
