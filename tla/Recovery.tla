------------------------------ MODULE Recovery ------------------------------
(***************************************************************************)
(* What leveldb keeps in its directory, and what opening the store reads   *)
(* back: log files, table files, the descriptor (MANIFEST) and the file    *)
(* CURRENT that names it.  The process and the machine may stop at any     *)
(* step.  A process that stops leaves every write it made to a file; a     *)
(* machine that stops may lose what was not synced: the end of any log and *)
(* the last record of the descriptor.  Creating, renaming and deleting     *)
(* files is taken to survive in the order it was done.                     *)
(*                                                                         *)
(* Writes are sequence numbers; what they store, and which table file is   *)
(* in which level, is in Levels.                                           *)
(***************************************************************************)
EXTENDS Integers, Sequences, FiniteSets, Functions, FiniteSetsExt

CONSTANTS
    MaxSeq,             \* bound: writes
    MaxStops,           \* bound: times the process or the machine stops
    MaxReaders,         \* bound: versions held by iterators and lookups
    MaxFile,            \* bound: the file number up to which compactions begin
    MaxErrors,          \* bound: file errors met by the background thread
    StopWhileCreating   \* whether the machine may stop before the first
                        \* descriptor of a new store was synced

ASSUME FilesAssumption == MaxSeq \in Nat /\ StopWhileCreating \in BOOLEAN

VARIABLES
    log,        \* log files: number -> [recs, synced]
    table,      \* table files: number -> [seqs, whole]
    manifest,   \* descriptors: number -> [synced, tail], both <<>> or <<state>>
    current,    \* the descriptor CURRENT names, 0 when there is no CURRENT
    proc,       \* what the process is doing
    db,         \* the fields of VersionSet and DBImpl, while a process runs
    readers,    \* versions held by readers
    bg,         \* <<>> or the flush the background thread is in
    comp,       \* <<>> or the compaction it is in
    edit,       \* <<>> or the edit LogAndApply is writing without the mutex
    acked,      \* writes that were acknowledged and not lost with a machine
    safe,       \* those that were acknowledged with sync
    doubtful,   \* writes whose sync failed: a restart may find them or not
    stops, errors

directory == <<log, table, manifest, current>>
mind == <<db, readers, bg, comp, edit>>
ghost == <<acked, safe, doubtful>>
filesVars == <<directory, proc, mind, ghost, stops, errors>>

\* What a descriptor says after some edit.
DescState(tables, logNumber, nextFile, lastSeq) ==
    [tables |-> tables, logNumber |-> logNumber, nextFile |-> nextFile, lastSeq |-> lastSeq]

NoDb == [tables |-> {}, logNumber |-> 0, nextFile |-> 0, lastSeq |-> 0, manifestNum |-> 0,
         logfile |-> 0, mem |-> {}, imm |-> <<>>, pending |-> {}, error |-> FALSE,
         logs |-> {}, added |-> {}]

FilesInit ==
    /\ log = <<>> /\ table = <<>> /\ manifest = <<>> /\ current = 0
    /\ proc = "down" /\ db = NoDb
    /\ readers = {} /\ bg = <<>> /\ comp = <<>> /\ edit = <<>>
    /\ acked = {} /\ safe = {} /\ doubtful = {} /\ stops = 0 /\ errors = 0

-----------------------------------------------------------------------------
(* Files. *)

With(f, n, x) == [m \in DOMAIN f \cup {n} |-> IF m = n THEN x ELSE f[m]]

Unsynced(desc) == IF desc.tail = <<>> THEN desc.synced ELSE desc.tail

SyncManifest ==
    manifest' = [manifest EXCEPT ![db.manifestNum] = [synced |-> Unsynced(@), tail |-> <<>>]]

\* A file written from the beginning, named by the number it was allocated.
NewLog(n)         == log' = With(log, n, [recs |-> <<>>, synced |-> 0])
NewTable(n)       == table' = With(table, n, [seqs |-> {}, whole |-> FALSE])
WholeTable(n, ss) == table' = With(table, n, [seqs |-> ss, whole |-> TRUE])

\* Faulty variant: versions held by readers do not count.
LiveTablesOfCurrent ==
    db'.pending \cup db'.tables \cup (IF comp' = <<>> THEN {} ELSE comp'[1].base)

\* The version list: the current version and those held by readers and by the
\* compaction.
LiveTables ==
    db'.pending \cup db'.tables \cup (UNION readers)
        \cup (IF comp' = <<>> THEN {} ELSE comp'[1].base)

\* Faulty variants: only the log in use is kept; and files are deleted after an error.
DeleteWaitingLogs ==
    IF db'.error THEN UNCHANGED <<log, table, manifest>>
    ELSE /\ log' = RestrictDomain(log, LAMBDA n : n >= db'.logfile)
         /\ table' = Restrict(table, DOMAIN table \cap LiveTables)
         /\ manifest' = RestrictDomain(manifest, LAMBDA n : n >= db'.manifestNum)

DeleteAfterError ==
    /\ log' = RestrictDomain(log, LAMBDA n : n >= db'.logNumber)
    /\ table' = Restrict(table, DOMAIN table \cap LiveTables)
    /\ manifest' = RestrictDomain(manifest, LAMBDA n : n >= db'.manifestNum)

\* After an error it is not known which version was committed: nothing goes.
DeleteObsoleteFiles ==
    IF db'.error THEN UNCHANGED <<log, table, manifest>>
    ELSE /\ log' = RestrictDomain(log, LAMBDA n : n >= db'.logNumber)
         /\ table' = Restrict(table, DOMAIN table \cap LiveTables)
         /\ manifest' = RestrictDomain(manifest, LAMBDA n : n >= db'.manifestNum)

-----------------------------------------------------------------------------
(* Opening. *)

\* NewDB: a first descriptor, closed but not synced, and CURRENT.
NewDB ==
    /\ proc = "down" /\ current = 0
    /\ manifest' = With(manifest, 1,
                        [synced |-> <<>>, tail |-> <<DescState({}, 0, 2, 0)>>])
    /\ current' = 1
    /\ UNCHANGED <<log, table, proc, mind, ghost, stops, errors>>

\* VersionSet::Recover and the list of logs DBImpl::Recover makes.
OpenStore ==
    /\ proc = "down" /\ current # 0
    /\ LET found == Unsynced(manifest[current])
           st    == found[1]
       IN  IF found = <<>> \/ ~(st.tables \subseteq DOMAIN table)
           THEN /\ proc' = "failed"
                /\ UNCHANGED db
           ELSE /\ proc' = "replaying"
                /\ db' = [NoDb EXCEPT
                             !.tables = st.tables, !.logNumber = st.logNumber,
                             !.lastSeq = st.lastSeq, !.manifestNum = st.nextFile,
                             !.nextFile = st.nextFile + 1,
                             !.logs = {n \in DOMAIN log : n >= st.logNumber}]
    /\ UNCHANGED <<directory, readers, bg, comp, edit, ghost, stops, errors>>

\* Faulty variant: no MarkFileNumberUsed.
RecoverUnmarked ==
    /\ proc = "replaying" /\ db.logs # {}
    /\ LET n     == Min(db.logs)
           seqs  == Range(log[n].recs)
           built == IF seqs = {} THEN {} ELSE {db.nextFile}
       IN  /\ IF seqs = {} THEN UNCHANGED table ELSE WholeTable(db.nextFile, seqs)
           /\ db' = [db EXCEPT !.logs = @ \ {n}, !.added = @ \cup built,
                               !.nextFile = @ + Cardinality(built),
                               !.lastSeq = Max({@} \cup seqs)]
    /\ UNCHANGED <<log, manifest, current, proc, readers, bg, comp, edit, ghost, stops, errors>>

\* RecoverLogFile, the oldest log first: its records become a table.
RecoverLogFile ==
    /\ proc = "replaying" /\ db.logs # {}
    /\ LET n     == Min(db.logs)
           seqs  == Range(log[n].recs)
           built == IF seqs = {} THEN {} ELSE {db.nextFile}
           next  == db.nextFile + Cardinality(built)
       IN  /\ IF seqs = {} THEN UNCHANGED table ELSE WholeTable(db.nextFile, seqs)
           /\ db' = [db EXCEPT !.logs = @ \ {n},
                               !.added = @ \cup built,
                               !.nextFile = Max({next, n + 1}),
                               !.lastSeq = Max({@} \cup seqs)]
    /\ UNCHANGED <<log, manifest, current, proc, readers, bg, comp, edit, ghost, stops, errors>>

\* DB::Open makes a log of its own, and LogAndApply starts a new descriptor with
\* the recovered version and the edit.
StartDescriptor ==
    /\ proc = "replaying" /\ db.logs = {}
    /\ LET n  == db.nextFile
           st == DescState(db.tables \cup db.added, n, n + 1, db.lastSeq)
       IN  /\ NewLog(n)
           /\ manifest' = With(manifest, db.manifestNum, [synced |-> <<>>, tail |-> <<st>>])
           /\ db' = [db EXCEPT !.logfile = n, !.nextFile = n + 1]
    /\ proc' = "describing"
    /\ UNCHANGED <<table, current, readers, bg, comp, edit, ghost, stops, errors>>

SyncDescriptor ==
    /\ proc = "describing"
    /\ SyncManifest
    /\ proc' = "naming"
    /\ UNCHANGED <<log, table, current, mind, ghost, stops, errors>>

\* SetCurrentFile writes and syncs a temporary file and renames it.
SetCurrentFile ==
    /\ proc = "naming"
    /\ current' = db.manifestNum
    /\ db' = [db EXCEPT !.tables = @ \cup db.added, !.added = {}, !.logNumber = db.logfile]
    /\ proc' = "cleaning"
    /\ UNCHANGED <<log, table, manifest, readers, bg, comp, edit, ghost, stops, errors>>

Opened ==
    /\ proc = "cleaning"
    /\ proc' = "open"
    /\ UNCHANGED <<current, mind, ghost, stops, errors>>
    /\ DeleteObsoleteFiles

-----------------------------------------------------------------------------
(* Callers. *)

\* A record at the end of the log, synced or not.
Logged(synced) ==
    LET l == log[db.logfile]
    IN  log' = [log EXCEPT ![db.logfile] =
                   [recs   |-> Append(l.recs, db.lastSeq + 1),
                    synced |-> IF synced THEN Len(l.recs) + 1 ELSE l.synced]]

Write(sync) ==
    /\ proc = "open" /\ ~db.error /\ db.lastSeq < MaxSeq
    /\ Logged(sync)
    /\ db' = [db EXCEPT !.lastSeq = @ + 1, !.mem = @ \cup {db.lastSeq + 1}]
    /\ acked' = acked \cup {db.lastSeq + 1}
    /\ safe' = IF sync THEN safe \cup {db.lastSeq + 1} ELSE safe
    /\ UNCHANGED <<table, manifest, current, proc, readers, bg, comp, edit, doubtful, stops, errors>>

\* A sync that fails makes all later writes fail; the memtable is left alone.
WriteSyncFails ==
    /\ proc = "open" /\ ~db.error /\ db.lastSeq < MaxSeq /\ errors < MaxErrors
    /\ Logged(FALSE)
    /\ db' = [db EXCEPT !.lastSeq = @ + 1, !.error = TRUE]
    /\ doubtful' = doubtful \cup {db.lastSeq + 1}
    /\ errors' = errors + 1
    /\ UNCHANGED <<table, manifest, current, proc, readers, bg, comp, edit, acked, safe, stops>>

\* MakeRoomForWrite with a full memtable: a new log and a new memtable.
SwitchMemTable ==
    /\ proc = "open" /\ ~db.error /\ db.imm = <<>> /\ db.mem # {}
    /\ NewLog(db.nextFile)
    /\ db' = [db EXCEPT !.logfile = db.nextFile, !.nextFile = @ + 1,
                        !.imm = <<db.mem>>, !.mem = {}]
    /\ UNCHANGED <<table, manifest, current, proc, readers, bg, comp, edit, ghost, stops, errors>>

\* A lookup or an iterator takes a reference on the current version, and drops it.
HoldVersion ==
    /\ proc = "open" /\ db.tables \notin readers /\ Cardinality(readers) < MaxReaders
    /\ readers' = readers \cup {db.tables}
    /\ UNCHANGED <<directory, proc, db, bg, comp, edit, ghost, stops, errors>>

DropVersion(v) ==
    /\ proc = "open" /\ v \in readers
    /\ readers' = readers \ {v}
    /\ UNCHANGED <<directory, proc, db, bg, comp, edit, ghost, stops, errors>>

-----------------------------------------------------------------------------
(* The background thread. *)

\* After an error no work is begun, but a compaction under way goes on, and it
\* takes care of a memtable that is waiting.
Free    == proc = "open" /\ bg = <<>> /\ edit = <<>>
Working == Free /\ comp # <<>>
Resting == Free /\ comp = <<>> /\ ~db.error

\* WriteLevel0Table: a number and a file; then, with the mutex released, its
\* entries; the number is no longer pending once the file is whole.
StartFlush ==
    /\ Resting \/ Working
    /\ db.imm # <<>>
    /\ bg' = <<db.nextFile>>
    /\ NewTable(db.nextFile)
    /\ db' = [db EXCEPT !.nextFile = @ + 1, !.pending = @ \cup {db.nextFile}]
    /\ UNCHANGED <<log, manifest, current, proc, readers, comp, edit, ghost, stops, errors>>

\* CompactMemTable: the edit adds the table and lets the logs before the one now
\* in use go.
FinishFlush ==
    /\ bg # <<>>
    /\ WholeTable(bg[1], db.imm[1])
    /\ edit' = <<[add |-> {bg[1]}, del |-> {}, logNumber |-> db.logfile,
                  nextFile |-> db.nextFile, lastSeq |-> db.lastSeq, stage |-> "new"]>>
    /\ bg' = <<>>
    /\ db' = [db EXCEPT !.pending = @ \ {bg[1]}]
    /\ UNCHANGED <<log, manifest, current, proc, readers, comp, ghost, stops, errors>>

\* A compaction reads some tables of the current version, which it holds.
StartCompaction(ins) ==
    /\ Resting /\ db.imm = <<>> /\ db.nextFile <= MaxFile
    /\ comp' = <<[ins |-> ins, base |-> db.tables, out |-> db.nextFile]>>
    /\ NewTable(db.nextFile)
    /\ db' = [db EXCEPT !.nextFile = @ + 1, !.pending = @ \cup {db.nextFile}]
    /\ UNCHANGED <<log, manifest, current, proc, readers, bg, edit, ghost, stops, errors>>

\* InstallCompactionResults.  The output stays pending until the edit is applied.
FinishCompaction ==
    /\ Working
    /\ LET c == comp[1]
       IN  /\ WholeTable(c.out, UNION {table[n].seqs : n \in c.ins})
           /\ edit' = <<[add |-> {c.out}, del |-> c.ins, logNumber |-> db.logNumber,
                         nextFile |-> db.nextFile, lastSeq |-> db.lastSeq, stage |-> "new"]>>
    /\ UNCHANGED <<log, manifest, current, proc, db, readers, bg, comp, ghost, stops, errors>>

Edited(tables, e) == DescState((tables \ e.del) \cup e.add, e.logNumber, e.nextFile, e.lastSeq)

IsFlush(e) == e.del = {}

\* LogAndApply, with the mutex released: a record at the end of the descriptor,
\* and its sync.
LogEdit ==
    /\ edit # <<>> /\ edit[1].stage = "new"
    /\ LET before == Unsynced(manifest[db.manifestNum])[1].tables
       IN  manifest' = [manifest EXCEPT ![db.manifestNum].tail = <<Edited(before, edit[1])>>]
    /\ edit' = <<[edit[1] EXCEPT !.stage = "logged"]>>
    /\ UNCHANGED <<log, table, current, proc, db, readers, bg, comp, ghost, stops, errors>>

\* Faulty variant: the descriptor is not synced.
SyncEditSkipped ==
    /\ edit # <<>> /\ edit[1].stage = "logged"
    /\ edit' = <<[edit[1] EXCEPT !.stage = "synced"]>>
    /\ UNCHANGED <<directory, proc, db, readers, bg, comp, ghost, stops, errors>>

SyncEdit ==
    /\ edit # <<>> /\ edit[1].stage = "logged"
    /\ SyncManifest
    /\ edit' = <<[edit[1] EXCEPT !.stage = "synced"]>>
    /\ UNCHANGED <<log, table, current, proc, db, readers, bg, comp, ghost, stops, errors>>

\* Faulty variant: every edit lets the memtable go.
ApplyEditDropsImm ==
    /\ edit # <<>> /\ edit[1].stage = "synced"
    /\ LET st == Edited(db.tables, edit[1])
       IN  db' = [db EXCEPT !.tables = st.tables, !.logNumber = st.logNumber,
                            !.pending = @ \ edit[1].add, !.imm = <<>>]
    /\ comp' = IF IsFlush(edit[1]) THEN comp ELSE <<>>
    /\ DeleteObsoleteFiles
    /\ edit' = <<>>
    /\ UNCHANGED <<current, proc, readers, bg, ghost, stops, errors>>

\* With the mutex held again: the new version is installed, the memtable or the
\* compaction is let go, and files are deleted.
ApplyEdit ==
    /\ edit # <<>> /\ edit[1].stage = "synced"
    /\ LET e  == edit[1]
           st == Edited(db.tables, e)
       IN  /\ db' = [db EXCEPT !.tables = st.tables, !.logNumber = st.logNumber,
                               !.pending = @ \ e.add,
                               !.imm = IF IsFlush(e) THEN <<>> ELSE @]
           /\ comp' = IF IsFlush(e) THEN comp ELSE <<>>
    /\ DeleteObsoleteFiles
    /\ edit' = <<>>
    /\ UNCHANGED <<current, proc, readers, bg, ghost, stops, errors>>

\* The error of a table that cannot be written is kept; the table of a flush is
\* deleted.
TableError ==
    /\ bg # <<>> \/ Working
    /\ errors < MaxErrors /\ errors' = errors + 1
    /\ IF bg # <<>>
       THEN /\ table' = Restrict(table, DOMAIN table \ {bg[1]})
            /\ db' = [db EXCEPT !.error = TRUE, !.pending = @ \ {bg[1]}]
            /\ bg' = <<>> /\ UNCHANGED comp
       ELSE /\ db' = [db EXCEPT !.error = TRUE, !.pending = @ \ {comp[1].out}]
            /\ comp' = <<>> /\ UNCHANGED <<table, bg>>
    /\ UNCHANGED <<log, manifest, current, proc, readers, edit, ghost, stops>>

\* So is that of an edit.  Its record may be in the descriptor or not, so from now
\* on nothing is deleted.
EditError ==
    /\ edit # <<>> /\ edit[1].stage = "logged"
    /\ errors < MaxErrors /\ errors' = errors + 1
    /\ \/ UNCHANGED manifest
       \/ manifest' = [manifest EXCEPT ![db.manifestNum].tail = <<>>]
    /\ db' = [db EXCEPT !.error = TRUE, !.pending = @ \ edit[1].add]
    /\ comp' = IF IsFlush(edit[1]) THEN comp ELSE <<>>
    /\ edit' = <<>>
    /\ UNCHANGED <<log, table, current, proc, readers, bg, ghost, stops>>

-----------------------------------------------------------------------------
(* Stops. *)

Forget ==
    /\ stops < MaxStops /\ proc # "failed"
    /\ stops' = stops + 1
    /\ proc' = "down" /\ db' = NoDb
    /\ readers' = {} /\ bg' = <<>> /\ comp' = <<>> /\ edit' = <<>>
    /\ UNCHANGED errors

\* What opening the store finds in the given logs and the given descriptor state.
Restored(logs, desc) ==
    IF desc = <<>> THEN {}
    ELSE (UNION {table[n].seqs : n \in desc[1].tables \cap DOMAIN table})
         \cup (UNION {Range(logs[n].recs) : n \in {m \in DOMAIN logs : m >= desc[1].logNumber}})

Descriptor == IF current = 0 THEN <<>> ELSE Unsynced(manifest[current])
OnDisk     == Restored(log, Descriptor)

\* The process ends, by itself or not.
ProcessStops ==
    /\ Forget /\ proc # "down"
    /\ acked' = OnDisk /\ doubtful' = {}
    /\ UNCHANGED <<directory, safe>>

\* The machine ends: each log keeps some records, at least the synced ones, and a
\* record of the descriptor that was not synced is there or not.
MachineStops ==
    /\ Forget
    /\ current # 0 => manifest[current].synced # <<>> \/ StopWhileCreating
    /\ \E len \in [DOMAIN log -> 0 .. MaxSeq], lost \in BOOLEAN :
           /\ \A n \in DOMAIN log : log[n].synced <= len[n] /\ len[n] <= Len(log[n].recs)
           /\ log' = [n \in DOMAIN log |-> [recs |-> SubSeq(log[n].recs, 1, len[n]),
                                            synced |-> len[n]]]
           /\ manifest' = [n \in DOMAIN manifest |->
                              [synced |-> IF lost THEN manifest[n].synced
                                          ELSE Unsynced(manifest[n]),
                               tail |-> <<>>]]
    /\ acked' = Restored(log', IF current = 0 THEN <<>> ELSE manifest'[current].synced)
    /\ doubtful' = {}
    /\ UNCHANGED <<table, current, safe>>

FilesNext ==
    \/ NewDB \/ OpenStore \/ RecoverLogFile
    \/ StartDescriptor \/ SyncDescriptor \/ SetCurrentFile \/ Opened
    \/ \E sync \in BOOLEAN : Write(sync)
    \/ WriteSyncFails
    \/ SwitchMemTable
    \/ HoldVersion
    \/ \E v \in readers : DropVersion(v)
    \/ StartFlush \/ FinishFlush
    \/ \E ins \in (SUBSET db.tables) \ {{}} : StartCompaction(ins)
    \/ FinishCompaction
    \/ LogEdit \/ SyncEdit \/ ApplyEdit
    \/ TableError \/ EditError
    \/ ProcessStops \/ MachineStops

FilesSpec == FilesInit /\ [][FilesNext]_filesVars

-----------------------------------------------------------------------------
(* Properties. *)

\* "If it is just the process that crashes, no writes will be lost even if
\* sync==false": at every step, in the middle of a flush, of a compaction or of an
\* opening, the files hold the writes that were acknowledged, and no other but
\* those whose sync failed.
RestartFindsAll == acked \subseteq OnDisk /\ OnDisk \subseteq acked \cup doubtful

\* A write acknowledged with sync is found again whatever the machine loses, at
\* every step: with the synced part of each log, and with or without the record
\* of the descriptor that is being written.
SyncedLogs == [n \in DOMAIN log |-> [recs |-> SubSeq(log[n].recs, 1, log[n].synced)]]
SyncedSurvive ==
    /\ safe \subseteq Restored(SyncedLogs, Descriptor)
    /\ current # 0 /\ manifest[current].synced # <<>> =>
           safe \subseteq Restored(SyncedLogs, manifest[current].synced)

\* What a lookup finds in the memtables and the tables is all that was written.
ReadsComplete ==
    proc = "open" =>
        acked = db.mem \cup (IF db.imm = <<>> THEN {} ELSE db.imm[1])
                       \cup (UNION {table[n].seqs : n \in db.tables \cap DOMAIN table})

\* No table is missing, or still being written, that the current version, a
\* reader, the compaction or any state the descriptor may come back with names.
FilesPresent ==
    LET Named == (IF proc = "open" THEN db.tables ELSE {}) \cup (UNION readers)
                 \cup (IF comp = <<>> THEN {} ELSE comp[1].ins)
                 \cup (IF Descriptor = <<>> THEN {} ELSE Descriptor[1].tables)
                 \cup (IF current = 0 \/ manifest[current].synced = <<>> THEN {}
                       ELSE manifest[current].synced[1].tables)
    IN  Named \subseteq {n \in DOMAIN table : table[n].whole}

\* The next write and the next file get numbers nothing in use has: also when the
\* last process took numbers it recorded nowhere.
NumbersFresh ==
    proc = "open" =>
        /\ \A s \in OnDisk : s <= db.lastSeq
        /\ \A n \in DOMAIN log \cup db.tables \cup db.pending \cup {db.manifestNum} :
               n < db.nextFile

\* Opening never fails on what a stop left behind.
OpenSucceeds == proc # "failed"
=============================================================================
