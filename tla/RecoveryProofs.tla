--------------------------- MODULE RecoveryProofs ---------------------------
(***************************************************************************)
(* What leveldb's files hold, proved for any number of writes, stops,      *)
(* readers, files and errors.                                              *)
(***************************************************************************)
EXTENDS Recovery, FiniteSetTheorems, SequenceTheorems, WellFoundedInduction, TLAPS

-----------------------------------------------------------------------------
(* What the files hold. *)

\* The writes in some tables, in the logs from number k on, and in those logs
\* after the machine has stopped.
SeqsOf(tables, S)  == UNION {tables[n].seqs : n \in S}
LoggedFrom(logs, k) == UNION {Range(logs[n].recs) : n \in {m \in DOMAIN logs : m >= k}}
Kept(l)             == {l.recs[i] : i \in 1 .. l.synced}
KeptFrom(logs, k)   == UNION {Kept(logs[n]) : n \in {m \in DOMAIN logs : m >= k}}
WholeIn(tables, S)  == \A n \in S : n \in DOMAIN tables /\ tables[n].whole

\* What is at most one thing: a slot of a descriptor, the work of the background.
Opt(S)    == {<<>>} \cup {<<x>> : x \in S}
In(slot)  == IF slot = <<>> THEN {} ELSE {slot[1]}

\* What the descriptor in use may say after a stop, and says if only the process
\* stops.
Says(m) == In(m.synced) \cup In(m.tail)
Descs   == IF current = 0 THEN {} ELSE Says(manifest[current])
Last    == Unsynced(manifest[current])

\* The writes a restart finds from a state of the descriptor.
Found(st) == SeqsOf(table, st.tables) \cup LoggedFrom(log, st.logNumber)

-----------------------------------------------------------------------------
(* The inductive invariant. *)

Numbers    == SUBSET Nat
LogFile    == [recs : Seq(1 .. MaxSeq), synced : Nat]
TableFile  == [seqs : Numbers, whole : BOOLEAN]
DescStates == [tables : Numbers, logNumber : Nat, nextFile : Nat, lastSeq : Nat]
Manifest   == [synced : Opt(DescStates), tail : Opt(DescStates)]
Fields     == [tables : Numbers, logNumber : Nat, nextFile : Nat, lastSeq : Nat,
               manifestNum : Nat, logfile : Nat, mem : Numbers, imm : Opt(Numbers),
               pending : Numbers, error : BOOLEAN, logs : Numbers, added : Numbers]
Compaction == [ins : Numbers, base : Numbers, out : Nat]
Edit       == [add : Numbers, del : Numbers, logNumber : Nat, nextFile : Nat, lastSeq : Nat,
               stage : {"new", "logged", "synced"}]

FilesTypeOK ==
    /\ log \in [DOMAIN log -> LogFile] /\ DOMAIN log \subseteq Nat
    /\ \A n \in DOMAIN log : log[n].synced <= Len(log[n].recs)
    /\ table \in [DOMAIN table -> TableFile] /\ DOMAIN table \subseteq Nat
    /\ manifest \in [DOMAIN manifest -> Manifest] /\ DOMAIN manifest \subseteq Nat
    /\ current \in Nat /\ (current # 0 => current \in DOMAIN manifest)
    /\ proc \in {"down", "failed", "replaying", "describing", "naming", "cleaning", "open"}
    /\ db \in Fields
    /\ readers \subseteq Numbers
    /\ bg \in Opt(Nat) /\ comp \in Opt(Compaction) /\ edit \in Opt(Edit)
    /\ acked \in Numbers /\ safe \in Numbers /\ doubtful \in Numbers

\* The process holds nothing before it is open.
Idle ==
    proc # "open" =>
        /\ readers = {} /\ bg = <<>> /\ comp = <<>> /\ edit = <<>> /\ doubtful = {}
        /\ db.mem = {} /\ db.imm = <<>> /\ db.pending = {} /\ ~db.error

\* A store without a descriptor is empty, and one whose descriptor was never
\* synced holds nothing that was promised to survive.
Created ==
    /\ current = 0 => proc = "down" /\ DOMAIN log = {}
    /\ current = 0 \/ Last = <<>> => acked = {}
    /\ current = 0 \/ manifest[current].synced = <<>> => safe = {}
    /\ proc \notin {"down", "failed"} => Last # <<>>
    /\ StopWhileCreating = FALSE => proc # "failed" /\ (current # 0 => Last # <<>>)
    /\ safe \subseteq acked
    /\ proc \in {"down", "failed"} => db = NoDb

Ready == proc \in {"cleaning", "open"}

\* Every state the descriptor may come back with names whole tables, has used
\* the numbers it names, and leads to what was promised.
StateSound(st) ==
    /\ WholeIn(table, st.tables)
    /\ \A n \in st.tables : n < st.nextFile
    /\ st.logNumber < st.nextFile /\ current < st.nextFile
    /\ \A x \in SeqsOf(table, st.tables) : x <= st.lastSeq
    /\ safe \subseteq SeqsOf(table, st.tables) \cup KeptFrom(log, st.logNumber)
    /\ Ready \/ Last = <<st>> => acked \subseteq Found(st) /\ Found(st) \subseteq acked \cup doubtful

DescsSound ==
    \A st \in Descs : StateSound(st) /\ st.nextFile <= Last[1].nextFile

\* The state a new descriptor starts with.
Recovered == DescState(db.tables \cup db.added, db.logfile, db.logfile + 1, db.lastSeq)

\* While a store is opened, what was read and what is still to be read make up
\* what the descriptor and the logs say.
Replayed ==
    proc \in {"replaying", "describing", "naming"} =>
        /\ db.tables = Last[1].tables /\ db.logNumber = Last[1].logNumber
        /\ db.manifestNum = Last[1].nextFile /\ db.manifestNum < db.nextFile
        /\ \A n \in db.logs : n \in DOMAIN log /\ n >= db.logNumber
        /\ \A n \in DOMAIN log : n \in db.logs \/ n < db.nextFile
        /\ WholeIn(table, db.added)
        /\ \A n \in db.added : db.manifestNum < n /\ n < db.nextFile
        /\ SeqsOf(table, db.added) \cup UNION {Range(log[n].recs) : n \in db.logs}
             = LoggedFrom(log, db.logNumber)
        /\ \A x \in SeqsOf(table, db.tables) \cup SeqsOf(table, db.added) : x <= db.lastSeq

\* The log and the descriptor a process has begun, before CURRENT names it.
Begun ==
    proc \in {"describing", "naming"} =>
        /\ db.logs = {} /\ db.nextFile = db.logfile + 1 /\ db.manifestNum < db.logfile
        /\ db.logfile \in DOMAIN log /\ log[db.logfile].recs = <<>>
        /\ db.manifestNum \in DOMAIN manifest
        /\ manifest[db.manifestNum] =
             IF proc = "describing" THEN [synced |-> <<>>, tail |-> <<Recovered>>]
             ELSE [synced |-> <<Recovered>>, tail |-> <<>>]

\* The tables in use, and those being written.
DescTables == UNION {st.tables : st \in Descs}
BaseTables == UNION {c.base : c \in In(comp)}
NewTables  == UNION {e.add : e \in In(edit)}
Named == db.tables \cup (UNION readers) \cup DescTables \cup BaseTables \cup NewTables
Compacted == edit # <<>> /\ ~IsFlush(edit[1])
Writing == In(bg) \cup {c.out : c \in IF Compacted THEN {} ELSE In(comp)}

TablesSound ==
    /\ WholeIn(table, Named)
    /\ \A n \in Named \cup db.pending : n < db.nextFile
    /\ Writing \subseteq db.pending
    /\ Writing \cap Named = {}

\* Numbers in use are below the next ones.
Numbered ==
    /\ current = db.manifestNum /\ current < db.nextFile
    /\ manifest[current].synced # <<>>
    /\ db.logfile \in DOMAIN log /\ db.logNumber <= db.logfile /\ db.logfile < db.nextFile
    /\ \A n \in DOMAIN log : n <= db.logfile
    /\ \A st \in Descs :
           st.nextFile <= db.nextFile /\ st.logNumber <= db.logfile /\ st.lastSeq <= db.lastSeq
    /\ \A x \in acked \cup doubtful : x <= db.lastSeq

Waiting == UNION In(db.imm)

\* What was written is in the memtables and the tables, and what is in a memtable
\* is in the logs as well.
Stored ==
    /\ acked = db.mem \cup Waiting \cup SeqsOf(table, db.tables)
    /\ db.mem \subseteq Range(log[db.logfile].recs)
    /\ Waiting \subseteq LoggedFrom(log, db.logNumber)
    /\ LoggedFrom(log, db.logNumber) \subseteq acked \cup doubtful
    /\ safe \subseteq SeqsOf(table, db.tables) \cup Waiting \cup Kept(log[db.logfile])
    /\ safe \subseteq SeqsOf(table, db.tables) \cup KeptFrom(log, db.logNumber)
    /\ \A st \in Descs : SeqsOf(table, db.tables) \subseteq SeqsOf(table, st.tables)

SameVersion(st) == st.tables = db.tables /\ st.logNumber = db.logNumber

\* Without an error the descriptor and the version in memory differ by the edit
\* under way only.
Described ==
    ~db.error =>
        /\ edit = <<>> \/ edit[1].stage = "new" =>
               SameVersion(manifest[current].synced[1]) /\ manifest[current].tail = <<>>
        /\ edit # <<>> /\ edit[1].stage = "logged" =>
               /\ SameVersion(manifest[current].synced[1])
               /\ manifest[current].tail = <<Edited(db.tables, edit[1])>>
        /\ edit # <<>> /\ edit[1].stage = "synced" =>
               /\ manifest[current].synced = <<Edited(db.tables, edit[1])>>
               /\ manifest[current].tail = <<>>

WorkSound ==
    /\ bg # <<>> => edit = <<>> /\ db.imm # <<>>
    /\ bg # <<>> /\ comp # <<>> => bg[1] # comp[1].out
    /\ comp # <<>> => comp[1].ins \subseteq db.tables /\ comp[1].ins \subseteq comp[1].base
                      /\ comp[1].ins # {}

\* What an edit brings about, and that the descriptor has it once it was logged.
EditSound ==
    \A e \in In(edit) :
        /\ \A n \in e.add : n < e.nextFile
        /\ e.nextFile <= db.nextFile /\ e.lastSeq <= db.lastSeq
        /\ e.logNumber < e.nextFile /\ e.logNumber <= db.logfile
        /\ \A x \in SeqsOf(table, e.add) : x <= e.lastSeq
        /\ IsFlush(e) => /\ e.logNumber = db.logfile /\ db.imm # <<>>
                         /\ SeqsOf(table, e.add) = db.imm[1]
        /\ ~IsFlush(e) => /\ e.logNumber = db.logNumber
                          /\ comp # <<>> /\ e.del = comp[1].ins /\ e.add = {comp[1].out}
                          /\ SeqsOf(table, e.add) = SeqsOf(table, e.del)
        /\ e.stage = "new" => \A st \in Descs : st.nextFile <= e.nextFile /\ st.lastSeq <= e.lastSeq
        /\ e.stage # "new" =>
               SeqsOf(table, db.tables \cup e.add) \subseteq SeqsOf(table, Last[1].tables)
        /\ e.stage = "synced" => manifest[current].tail = <<>>

Running == TablesSound /\ Numbered /\ Stored /\ Described /\ WorkSound /\ EditSound

FilesInv ==
    FilesTypeOK /\ Idle /\ Created /\ DescsSound /\ Replayed /\ Begun /\ (Ready => Running)
-----------------------------------------------------------------------------
(* Sets of numbers, slots, tables and logs. *)

\* A nonempty set of numbers has a least one.
LEMMA Least ==
    ASSUME NEW S, S \subseteq Nat, S # {}
    PROVE  Min(S) \in S /\ \A y \in S : Min(S) <= y
<1>1. \E x \in S : \A y \in S : ~(<<y, x>> \in OpToRel(<, Nat))
  <2> DEFINE R == OpToRel(<, Nat)
  <2>1. IsWellFoundedOn(R, Nat) BY NatLessThanWellFounded
  <2> HIDE DEF R
  <2>2. \E x \in S : \A y \in S : ~(<<y, x>> \in R) BY <2>1, WFMin
  <2> QED BY <2>2 DEF R
<1>2. PICK x \in S : \A y \in S : ~(<<y, x>> \in OpToRel(<, Nat)) BY <1>1
<1>3. \A y \in S : ~(y < x)
  <2> SUFFICES ASSUME NEW y \in S, y < x PROVE FALSE OBVIOUS
  <2>1. <<y, x>> \in OpToRel(<, Nat) BY DEF OpToRel
  <2> QED BY <1>2, <2>1
<1>4. \A y \in S : x <= y
  <2> TAKE y \in S
  <2>1. x \in Nat /\ y \in Nat OBVIOUS
  <2>2. ~(y < x) BY <1>3
  <2> QED BY <2>1, <2>2
<1> QED BY <1>4 DEF Min

\* A nonempty set of numbers below a bound has a greatest one.
LEMMA Greatest ==
    ASSUME NEW S, S \subseteq Nat, S # {}, NEW b \in Nat, \A y \in S : y <= b
    PROVE  Max(S) \in S /\ \A y \in S : y <= Max(S)
<1> DEFINE T == {b - y : y \in S}
<1>1. T \subseteq Nat /\ T # {}
  <2>1. \A y \in S : b - y \in Nat
    <3> TAKE y \in S
    <3>1. y \in Nat /\ y <= b OBVIOUS
    <3> QED BY <3>1
  <2> QED BY <2>1
<1>2. Min(T) \in T /\ \A z \in T : Min(T) <= z BY <1>1, Least
<1>3. PICK x \in S : Min(T) = b - x BY <1>2
<1>4. \A y \in S : y <= x
  <2> TAKE y \in S
  <2>1. b - x <= b - y BY <1>2, <1>3
  <2>2. x \in Nat /\ y \in Nat OBVIOUS
  <2> QED BY <2>1, <2>2
<1>5. \A y \in S : x >= y
  <2> TAKE y \in S
  <2>1. x \in Nat /\ y \in Nat /\ y <= x BY <1>4
  <2> QED BY <2>1
<1>6. Max(S) \in S /\ \A y \in S : Max(S) >= y BY <1>5 DEF Max
<1>7. \A y \in S : y <= Max(S)
  <2> TAKE y \in S
  <2>1. y \in Nat /\ Max(S) \in Nat /\ Max(S) >= y BY <1>6
  <2> QED BY <2>1
<1> QED BY <1>6, <1>7

\* A slot that is filled holds one thing of its kind.
LEMMA Slot ==
    ASSUME NEW S, NEW s \in Opt(S)
    PROVE  /\ s # <<>> => s[1] \in S /\ s = <<s[1]>> /\ In(s) = {s[1]}
           /\ s = <<>> => In(s) = {}
           /\ In(s) \subseteq S
BY DEF Opt, In

\* A slot with something in it is filled, with that.
LEMMA Filled ==
    ASSUME NEW x
    PROVE  <<x>> # <<>> /\ <<x>>[1] = x /\ In(<<x>>) = {x}
BY DEF In

\* A thing or nothing fits a slot of its kind.
LEMMA InOpt ==
    ASSUME NEW S, NEW x \in S
    PROVE  <<x>> \in Opt(S) /\ <<>> \in Opt(S)
BY DEF Opt

\* Tables that are left alone hold what they held.
LEMMA SeqsSame ==
    ASSUME NEW t, NEW u, NEW S, \A n \in S : u[n] = t[n]
    PROVE  SeqsOf(u, S) = SeqsOf(t, S)
BY DEF SeqsOf

\* The writes of two sets of tables are those of both together.
LEMMA SeqsOfSets ==
    ASSUME NEW t, NEW S, NEW R
    PROVE  /\ SeqsOf(t, S \cup R) = SeqsOf(t, S) \cup SeqsOf(t, R)
           /\ S \subseteq R => SeqsOf(t, S) \subseteq SeqsOf(t, R)
           /\ SeqsOf(t, {}) = {}
           /\ \A n : SeqsOf(t, {n}) = t[n].seqs
BY DEF SeqsOf

\* Tables whose writes are in others may go.
LEMMA SeqsEdited ==
    ASSUME NEW t, NEW S, NEW D, NEW A, SeqsOf(t, A) = SeqsOf(t, D)
    PROVE  /\ SeqsOf(t, S) \subseteq SeqsOf(t, (S \ D) \cup A)
           /\ SeqsOf(t, (S \ D) \cup A) \subseteq SeqsOf(t, S) \cup SeqsOf(t, D)
<1>1. SeqsOf(t, (S \ D) \cup A) = SeqsOf(t, S \ D) \cup SeqsOf(t, D) BY SeqsOfSets
<1>2. SeqsOf(t, S \ D) \cup SeqsOf(t, D) = SeqsOf(t, S \cup D)
  <2>1. (S \ D) \cup D = S \cup D OBVIOUS
  <2> QED BY <2>1, SeqsOfSets
<1> QED BY <1>1, <1>2, SeqsOfSets

\* A write is in the logs from k on when one of those logs has it.
LEMMA InLogged ==
    ASSUME NEW logs, NEW k, NEW x
    PROVE  /\ x \in LoggedFrom(logs, k)
                 <=> \E n \in DOMAIN logs : n >= k /\ x \in Range(logs[n].recs)
           /\ x \in KeptFrom(logs, k) <=> \E n \in DOMAIN logs : n >= k /\ x \in Kept(logs[n])
BY DEF LoggedFrom, KeptFrom

\* What a log holds, and what of it a machine that stops leaves.
LEMMA KeptAreLogged ==
    ASSUME NEW l \in LogFile, l.synced <= Len(l.recs)
    PROVE  /\ Kept(l) \subseteq Range(l.recs) /\ Range(l.recs) \subseteq 1 .. MaxSeq
           /\ l.synced = Len(l.recs) => Kept(l) = Range(l.recs)
<1>1. l.recs \in Seq(1 .. MaxSeq) /\ l.synced \in Nat BY DEF LogFile
<1>2. DOMAIN l.recs = 1 .. Len(l.recs) /\ Len(l.recs) \in Nat BY <1>1
<1>3. 1 .. l.synced \subseteq DOMAIN l.recs BY <1>1, <1>2
<1>4. \A i \in DOMAIN l.recs : l.recs[i] \in 1 .. MaxSeq
  <2> DEFINE B == 1 .. MaxSeq  r == l.recs
  <2>1. r \in Seq(B) BY <1>1
  <2> HIDE DEF B, r
  <2>2. \A i \in DOMAIN r : r[i] \in B BY <2>1
  <2> QED BY <2>2 DEF B, r
<1> QED BY <1>2, <1>3, <1>4 DEF Kept, Range

\* The same logs hold the same writes.
LEMMA LogsSame ==
    ASSUME NEW k, NEW old, NEW new,
           \A n \in DOMAIN old : n >= k => n \in DOMAIN new /\ new[n] = old[n],
           \A n \in DOMAIN new : n >= k => n \in DOMAIN old
    PROVE  LoggedFrom(new, k) = LoggedFrom(old, k) /\ KeptFrom(new, k) = KeptFrom(old, k)
BY DEF LoggedFrom, KeptFrom

\* A file of the right kind may be added.
LEMMA WithType ==
    ASSUME NEW S, NEW f, f \in [DOMAIN f -> S], NEW n, NEW x \in S
    PROVE  With(f, n, x) \in [DOMAIN With(f, n, x) -> S]
BY DEF With

\* An empty log adds nothing.
Begins(old, n, new) ==
    n \notin DOMAIN old /\ new = With(old, n, [recs |-> <<>>, synced |-> 0])

\* What a new log changes: nothing of what the logs hold.
LEMMA LogsNew ==
    ASSUME NEW old, NEW n, NEW new, Begins(old, n, new)
    PROVE  /\ \A k : /\ LoggedFrom(new, k) = LoggedFrom(old, k)
                    /\ KeptFrom(new, k) = KeptFrom(old, k)
           /\ DOMAIN new = DOMAIN old \cup {n} /\ \A m \in DOMAIN old : new[m] = old[m]
           /\ new[n] = [recs |-> <<>>, synced |-> 0]
           /\ Range(new[n].recs) = {} /\ Kept(new[n]) = {}
<1> USE DEF Begins
<1>1. /\ DOMAIN new = DOMAIN old \cup {n} /\ \A m \in DOMAIN old : new[m] = old[m]
      /\ new[n] = [recs |-> <<>>, synced |-> 0]
  BY DEF With
<1>2. Range(new[n].recs) = {} /\ Kept(new[n]) = {}
  <2>1. new[n].recs = <<>> /\ new[n].synced = 0 BY <1>1
  <2>2. DOMAIN <<>> = {} /\ 1 .. 0 = {} OBVIOUS
  <2> QED BY <2>1, <2>2 DEF Range, Kept
<1>3. ASSUME NEW k
      PROVE  LoggedFrom(new, k) = LoggedFrom(old, k) /\ KeptFrom(new, k) = KeptFrom(old, k)
  <2>1. ASSUME NEW y
        PROVE  /\ y \in LoggedFrom(new, k) <=> y \in LoggedFrom(old, k)
               /\ y \in KeptFrom(new, k) <=> y \in KeptFrom(old, k)
    BY <1>1, <1>2, InLogged
  <2> QED BY <2>1
<1> QED BY <1>1, <1>2, <1>3

\* A record at the end of a log.
Appended(old, f, x, t, new) ==
    /\ old \in [DOMAIN old -> LogFile] /\ DOMAIN old \subseteq Nat
    /\ f \in DOMAIN old /\ old[f].synced <= Len(old[f].recs)
    /\ x \in 1 .. MaxSeq /\ t \in {old[f].synced, Len(old[f].recs) + 1}
    /\ new = [old EXCEPT ![f] = [recs |-> Append(old[f].recs, x), synced |-> t]]

\* What a record at the end changes: the log has one write more, and loses none.
LEMMA LogAppended ==
    ASSUME NEW old, NEW f, NEW x, NEW t, NEW new, Appended(old, f, x, t, new)
    PROVE  /\ DOMAIN new = DOMAIN old /\ new \in [DOMAIN new -> LogFile]
           /\ new[f].synced <= Len(new[f].recs)
           /\ \A n \in DOMAIN old : n # f => new[n] = old[n]
           /\ Range(new[f].recs) = Range(old[f].recs) \cup {x}
           /\ Kept(old[f]) \subseteq Kept(new[f])
           /\ t = Len(old[f].recs) + 1 => x \in Kept(new[f])
           /\ \A k \in Nat : /\ k <= f => LoggedFrom(new, k) = LoggedFrom(old, k) \cup {x}
                             /\ KeptFrom(old, k) \subseteq KeptFrom(new, k)
                             /\ t = Len(old[f].recs) + 1 /\ k <= f => x \in KeptFrom(new, k)
<1> DEFINE r == old[f].recs  q == Append(r, x)  s == old[f].synced
<1> USE DEF Appended
<1>1. r \in Seq(1 .. MaxSeq) /\ s \in Nat /\ s <= Len(r) BY DEF LogFile
<1>2. /\ q \in Seq(1 .. MaxSeq) /\ Len(q) = Len(r) + 1 /\ Len(r) \in Nat
      /\ q[Len(r) + 1] = x /\ \A i \in 1 .. Len(r) : q[i] = r[i]
  BY <1>1
<1>3. t \in Nat /\ t <= Len(q) /\ s <= t BY <1>1, <1>2 DEF r, s
<1> HIDE DEF r, q, s
<1>4. /\ DOMAIN new = DOMAIN old /\ new[f] = [recs |-> q, synced |-> t]
      /\ \A n \in DOMAIN old : n # f => new[n] = old[n]
  BY DEF r, q, s
<1>5. [recs |-> q, synced |-> t] \in LogFile BY <1>2, <1>3 DEF LogFile
<1>6. new[f].recs = q /\ new[f].synced = t BY <1>4
<1>7. new \in [DOMAIN new -> LogFile]
  <2>1. new = [n \in DOMAIN old |-> IF n = f THEN [recs |-> q, synced |-> t] ELSE old[n]]
    BY DEF r, q, s
  <2> QED BY <1>4, <1>5, <2>1
<1>8. Range(q) = Range(r) \cup {x}
  <2>1. DOMAIN q = 1 .. (Len(r) + 1) /\ DOMAIN r = 1 .. Len(r) BY <1>1, <1>2
  <2>2. 1 .. (Len(r) + 1) = (1 .. Len(r)) \cup {Len(r) + 1} BY <1>2
  <2>3. \A i \in DOMAIN r : q[i] = r[i] BY <1>2, <2>1
  <2>4. DOMAIN q = DOMAIN r \cup {Len(r) + 1} BY <2>1, <2>2
  <2>5. Range(q) = {q[i] : i \in DOMAIN r} \cup {q[Len(r) + 1]} BY <2>4 DEF Range
  <2>6. {q[i] : i \in DOMAIN r} = {r[i] : i \in DOMAIN r} BY <2>3
  <2> QED BY <1>2, <2>5, <2>6 DEF Range
<1>9. Kept(old[f]) \subseteq Kept(new[f])
  <2>1. Kept(old[f]) = {r[i] : i \in 1 .. s} BY DEF Kept, r, s
  <2>2. Kept(new[f]) = {q[i] : i \in 1 .. t} BY <1>6 DEF Kept
  <2> SUFFICES ASSUME NEW i \in 1 .. s PROVE r[i] \in {q[j] : j \in 1 .. t} BY <2>1, <2>2
  <2>3. i \in 1 .. Len(r) /\ i \in 1 .. t BY <1>1, <1>2, <1>3
  <2> QED BY <1>2, <2>3
<1>10. t = Len(r) + 1 => x \in Kept(new[f])
  <2> SUFFICES ASSUME t = Len(r) + 1 PROVE x \in {q[j] : j \in 1 .. t} BY <1>6 DEF Kept
  <2>1. t = Len(r) + 1 OBVIOUS
  <2>2. Len(r) + 1 \in 1 .. t BY <1>2, <2>1
  <2> QED BY <1>2, <2>2
<1>11. Range(new[f].recs) = Range(old[f].recs) \cup {x} BY <1>6, <1>8 DEF r
<1>12. ASSUME NEW k \in Nat, k <= f
       PROVE  /\ LoggedFrom(new, k) = LoggedFrom(old, k) \cup {x}
              /\ t = Len(r) + 1 => x \in KeptFrom(new, k)
  <2>1. f >= k BY <1>12
  <2>2. \A n \in DOMAIN old : n # f => Range(new[n].recs) = Range(old[n].recs) BY <1>4
  <2>3. ASSUME NEW y PROVE y \in LoggedFrom(new, k) <=> y \in LoggedFrom(old, k) \cup {x}
    BY <1>4, <1>11, <2>1, <2>2, InLogged
  <2> QED BY <1>4, <1>10, <2>1, <2>3, InLogged
<1>13. ASSUME NEW k \in Nat PROVE KeptFrom(old, k) \subseteq KeptFrom(new, k)
  <2>1. \A n \in DOMAIN old : Kept(old[n]) \subseteq Kept(new[n]) BY <1>4, <1>9
  <2>2. ASSUME NEW y \in KeptFrom(old, k) PROVE y \in KeptFrom(new, k)
    <3>1. PICK n \in DOMAIN old : n >= k /\ y \in Kept(old[n]) BY InLogged
    <3>2. n \in DOMAIN new /\ y \in Kept(new[n]) BY <1>4, <2>1, <3>1
    <3> QED BY <3>1, <3>2, InLogged
  <2> QED BY <2>2
<1> QED BY <1>3, <1>4, <1>6, <1>7, <1>9, <1>10, <1>11, <1>12, <1>13 DEF r

-----------------------------------------------------------------------------
(* What the descriptor says, and steps that leave the files alone. *)

\* The slots of the descriptor in use.
LEMMA DescFacts ==
    ASSUME FilesTypeOK, current # 0
    PROVE  /\ manifest[current] \in Manifest /\ Descs \subseteq DescStates
           /\ Descs = In(manifest[current].synced) \cup In(manifest[current].tail)
           /\ Last \in Opt(DescStates)
           /\ Last # <<>> => Last[1] \in Descs /\ Last[1] \in DescStates /\ Last = <<Last[1]>>
           /\ manifest[current].tail = <<>> => Last = manifest[current].synced
           /\ manifest[current].tail # <<>> => Last = manifest[current].tail
           /\ manifest[current].synced # <<>> =>
                  /\ manifest[current].synced[1] \in Descs /\ Last # <<>>
                  /\ manifest[current].synced = <<manifest[current].synced[1]>>
<1> DEFINE m == manifest[current]
<1>1. m \in Manifest BY DEF FilesTypeOK
<1>2. m.synced \in Opt(DescStates) /\ m.tail \in Opt(DescStates) BY <1>1 DEF Manifest
<1>3. /\ Descs = In(m.synced) \cup In(m.tail)
      /\ Last = IF m.tail = <<>> THEN m.synced ELSE m.tail
  BY DEF Descs, Says, Last, Unsynced
<1> HIDE DEF m
<1>4. Descs \subseteq DescStates BY <1>2, <1>3, Slot
<1>5. Last \in Opt(DescStates) BY <1>2, <1>3
<1>6. Last # <<>> => Last[1] \in Descs /\ Last[1] \in DescStates /\ Last = <<Last[1]>>
  BY <1>2, <1>3, Slot
<1>7. m.synced # <<>> => m.synced[1] \in Descs /\ Last # <<>> /\ m.synced = <<m.synced[1]>>
  BY <1>2, <1>3, Slot
<1> QED BY <1>1, <1>3, <1>4, <1>5, <1>6, <1>7 DEF m

\* A process that is opening a store or has it open has a descriptor.
LEMMA OpenFacts ==
    ASSUME FilesTypeOK, Created, proc \notin {"down", "failed"}
    PROVE  current # 0 /\ Last # <<>> /\ Last[1] \in Descs /\ Last[1] \in DescStates
           /\ current \in DOMAIN manifest /\ manifest[current] \in Manifest
<1>1. current # 0 /\ Last # <<>> BY DEF Created
<1> QED BY <1>1, DescFacts DEF FilesTypeOK

\* The tables a descriptor state names are among those the descriptor names.
LEMMA InDescTables ==
    \A st \in Descs : st.tables \subseteq DescTables
BY DEF DescTables

\* Where a table in use is named.
LEMMA InNamed ==
    ASSUME NEW n
    PROVE  n \in Named <=> \/ n \in db.tables
                           \/ \E S \in readers : n \in S
                           \/ \E st \in Descs : n \in st.tables
                           \/ comp # <<>> /\ n \in comp[1].base
                           \/ edit # <<>> /\ n \in edit[1].add
<1>1. n \in UNION readers <=> \E S \in readers : n \in S OBVIOUS
<1>2. n \in DescTables <=> \E st \in Descs : n \in st.tables BY DEF DescTables
<1>3. n \in BaseTables <=> comp # <<>> /\ n \in comp[1].base
  <2>1. n \in BaseTables <=> \E c \in In(comp) : n \in c.base BY DEF BaseTables
  <2> QED BY <2>1 DEF In
<1>4. n \in NewTables <=> edit # <<>> /\ n \in edit[1].add
  <2>1. n \in NewTables <=> \E e \in In(edit) : n \in e.add BY DEF NewTables
  <2> QED BY <2>1 DEF In
<1> QED BY <1>1, <1>2, <1>3, <1>4 DEF Named

\* The tables the descriptor may come back with are in use.
LEMMA DescTablesNamed ==
    /\ \A n \in DescTables : n \in Named
    /\ \A st \in Descs : \A n \in st.tables : n \in Named
BY InNamed DEF DescTables

\* A step that leaves the logs, the descriptors and the promises alone, and the
\* tables the descriptor names.
LEMMA DescsQuiet ==
    ASSUME FilesTypeOK, DescsSound,
           UNCHANGED <<log, manifest, current, acked, safe, doubtful>>, Ready' <=> Ready,
           \A n \in DescTables : n \in DOMAIN table => n \in DOMAIN table' /\ table'[n] = table[n]
    PROVE  /\ DescsSound' /\ Descs' = Descs /\ Last' = Last
           /\ \A st \in Descs : SeqsOf(table', st.tables) = SeqsOf(table, st.tables)
<1>1. Descs' = Descs /\ Last' = Last BY DEF Descs, Last
<1>2. ASSUME NEW st \in Descs
      PROVE  /\ SeqsOf(table', st.tables) = SeqsOf(table, st.tables)
             /\ WholeIn(table', st.tables)
  <2>1. WholeIn(table, st.tables) BY DEF DescsSound, StateSound
  <2>2. \A n \in st.tables : n \in DOMAIN table' /\ table'[n] = table[n]
    BY <2>1, InDescTables DEF WholeIn
  <2>3. SeqsOf(table', st.tables) = SeqsOf(table, st.tables) BY <2>2, SeqsSame
  <2> QED BY <2>1, <2>2, <2>3 DEF WholeIn
<1>3. ASSUME NEW st \in Descs PROVE (StateSound(st) /\ st.nextFile <= Last[1].nextFile)'
  <2>1. StateSound(st) /\ st.nextFile <= Last[1].nextFile BY DEF DescsSound
  <2>2. Found(st)' = Found(st) BY <1>2 DEF Found
  <2> QED BY <1>1, <1>2, <2>1, <2>2 DEF StateSound
<1> QED BY <1>1, <1>2, <1>3 DEF DescsSound

-----------------------------------------------------------------------------
(* Every step keeps the invariant: readers. *)

\* A reader that holds the current version adds no table to those in use.
LEMMA HoldVersionKeeps ==
    ASSUME FilesInv, HoldVersion
    PROVE  FilesInv'
<1> USE DEF FilesInv, HoldVersion, directory, ghost
<1>1. FilesTypeOK'
  <2>1. db.tables \in Numbers BY DEF FilesTypeOK, Fields
  <2> QED BY <2>1 DEF FilesTypeOK
<1>2. DescsSound' /\ Descs' = Descs /\ Last' = Last BY DescsQuiet DEF Ready
<1>3. Idle' /\ Created' /\ Replayed' /\ Begun'
  BY <1>2 DEF Idle, Created, Replayed, Begun, Recovered
<1>4. Running BY DEF Ready
<1>5. Named' = Named BY <1>2 DEF Named, DescTables, BaseTables, NewTables
<1>6. TablesSound' BY <1>4, <1>5 DEF Running, TablesSound, Writing, Compacted
<1>7. Numbered' BY <1>2, <1>4 DEF Running, Numbered
<1>8. Stored' BY <1>2, <1>4 DEF Running, Stored, Waiting
<1>9. Described' /\ WorkSound' BY <1>2, <1>4 DEF Running, Described, SameVersion, WorkSound
<1>10. EditSound' BY <1>2, <1>4 DEF Running, EditSound
<1> QED BY <1>1, <1>2, <1>3, <1>6, <1>7, <1>8, <1>9, <1>10 DEF Running

\* A version that is let go may take tables out of use.
LEMMA DropVersionKeeps ==
    ASSUME FilesInv, NEW v \in readers, DropVersion(v)
    PROVE  FilesInv'
<1> USE DEF FilesInv, DropVersion, directory, ghost
<1>1. FilesTypeOK' BY DEF FilesTypeOK
<1>2. DescsSound' /\ Descs' = Descs /\ Last' = Last BY DescsQuiet DEF Ready
<1>3. Idle' /\ Created' /\ Replayed' /\ Begun'
  BY <1>2 DEF Idle, Created, Replayed, Begun, Recovered
<1>4. Running BY DEF Ready
<1>5. Named' \subseteq Named BY <1>2 DEF Named, DescTables, BaseTables, NewTables
<1>6. TablesSound' BY <1>4, <1>5 DEF Running, TablesSound, Writing, Compacted, WholeIn
<1>7. Numbered' BY <1>2, <1>4 DEF Running, Numbered
<1>8. Stored' BY <1>2, <1>4 DEF Running, Stored, Waiting
<1>9. Described' /\ WorkSound' BY <1>2, <1>4 DEF Running, Described, SameVersion, WorkSound
<1>10. EditSound' BY <1>2, <1>4 DEF Running, EditSound
<1> QED BY <1>1, <1>2, <1>3, <1>6, <1>7, <1>8, <1>9, <1>10 DEF Running

-----------------------------------------------------------------------------
(* Writes. *)

\* A write is in the log before it is in the memtable; with a failed sync it is
\* in the log only, and doubtful.
LEMMA WriteKeeps ==
    ASSUME FilesInv, NEW sync \in BOOLEAN,
           Write(sync) \/ (WriteSyncFails /\ sync = FALSE)
    PROVE  FilesInv'
<1> DEFINE f == db.logfile  x == db.lastSeq + 1
<1> USE DEF FilesInv
<1>1. /\ proc = "open" /\ db.lastSeq < MaxSeq /\ ~db.error /\ Logged(sync)
      /\ UNCHANGED <<table, manifest, current, proc, readers, bg, comp, edit>>
      /\ \/ /\ db' = [db EXCEPT !.lastSeq = @ + 1, !.mem = @ \cup {x}]
            /\ acked' = acked \cup {x} /\ safe' = (IF sync THEN safe \cup {x} ELSE safe)
            /\ doubtful' = doubtful
         \/ /\ db' = [db EXCEPT !.lastSeq = @ + 1, !.error = TRUE]
            /\ acked' = acked /\ safe' = safe /\ doubtful' = doubtful \cup {x} /\ sync = FALSE
  BY DEF Write, WriteSyncFails
<1>2. Running /\ TablesSound /\ Numbered /\ Stored /\ Described /\ WorkSound /\ EditSound
  BY <1>1 DEF Ready, Running
<1>17. x \in 1 .. MaxSeq
  <2>1. db.lastSeq \in Nat BY DEF FilesTypeOK, Fields
  <2> QED BY <1>1, <2>1, FilesAssumption
<1>3. /\ db \in Fields /\ db' \in Fields /\ x \in 1 .. MaxSeq /\ db'.lastSeq = x
      /\ db'.tables = db.tables /\ db'.logNumber = db.logNumber /\ db'.nextFile = db.nextFile
      /\ db'.manifestNum = db.manifestNum /\ db'.logfile = f /\ db'.imm = db.imm
      /\ db'.pending = db.pending /\ db'.logs = db.logs /\ db'.added = db.added
  <2>1. db.lastSeq + 1 \in Nat /\ db.mem \cup {x} \in Numbers
    BY <1>17 DEF FilesTypeOK, Fields, Numbers
  <2> QED BY <1>1, <1>17, <2>1 DEF FilesTypeOK, Fields
<1>4. \/ /\ db'.mem = db.mem \cup {x} /\ db'.error = db.error
         /\ acked' = acked \cup {x} /\ safe' = (IF sync THEN safe \cup {x} ELSE safe)
         /\ doubtful' = doubtful
      \/ /\ db'.mem = db.mem /\ db'.error
         /\ acked' = acked /\ safe' = safe /\ doubtful' = doubtful \cup {x} /\ sync = FALSE
  BY <1>1, <1>3 DEF Fields
<1>5. /\ DOMAIN log' = DOMAIN log /\ log' \in [DOMAIN log' -> LogFile]
      /\ log'[f].synced <= Len(log'[f].recs)
      /\ \A n \in DOMAIN log : n # f => log'[n] = log[n]
      /\ Range(log'[f].recs) = Range(log[f].recs) \cup {x}
      /\ Kept(log[f]) \subseteq Kept(log'[f])
      /\ sync => x \in Kept(log'[f])
      /\ \A k \in Nat : /\ k <= f => LoggedFrom(log', k) = LoggedFrom(log, k) \cup {x}
                        /\ KeptFrom(log, k) \subseteq KeptFrom(log', k)
                        /\ sync /\ k <= f => x \in KeptFrom(log', k)
  <2>1. f \in DOMAIN log /\ DOMAIN log \subseteq Nat /\ log \in [DOMAIN log -> LogFile]
        /\ log[f].synced <= Len(log[f].recs)
    BY <1>2 DEF Numbered, FilesTypeOK
  <2> DEFINE t == IF sync THEN Len(log[f].recs) + 1 ELSE log[f].synced
  <2>2. log' = [log EXCEPT ![f] = [recs |-> Append(log[f].recs, x), synced |-> t]]
    BY <1>1 DEF Logged
  <2>3. t \in {log[f].synced, Len(log[f].recs) + 1} /\ (sync => t = Len(log[f].recs) + 1) OBVIOUS
  <2> HIDE DEF f, x, t
  <2>5. Appended(log, f, x, t, log') BY <1>17, <2>1, <2>2, <2>3 DEF Appended
  <2>4. /\ DOMAIN log' = DOMAIN log /\ log' \in [DOMAIN log' -> LogFile]
        /\ log'[f].synced <= Len(log'[f].recs)
        /\ \A n \in DOMAIN log : n # f => log'[n] = log[n]
        /\ Range(log'[f].recs) = Range(log[f].recs) \cup {x}
        /\ Kept(log[f]) \subseteq Kept(log'[f])
        /\ t = Len(log[f].recs) + 1 => x \in Kept(log'[f])
        /\ \A k \in Nat : /\ k <= f => LoggedFrom(log', k) = LoggedFrom(log, k) \cup {x}
                          /\ KeptFrom(log, k) \subseteq KeptFrom(log', k)
                          /\ t = Len(log[f].recs) + 1 /\ k <= f => x \in KeptFrom(log', k)
    BY <2>5, LogAppended
  <2> QED BY <2>3, <2>4
<1>6. /\ Descs' = Descs /\ Last' = Last /\ Named' = Named /\ Writing' = Writing /\ Waiting' = Waiting
      /\ current # 0 /\ Descs \subseteq DescStates
  BY <1>1, <1>3, OpenFacts, DescFacts
     DEF Descs, Last, Named, DescTables, BaseTables, NewTables, Writing, Compacted, Waiting
<1> HIDE DEF f, x
<1>7. FilesTypeOK'
  <2>1. acked' \in Numbers /\ safe' \in Numbers /\ doubtful' \in Numbers
    BY <1>3, <1>4 DEF FilesTypeOK, Numbers
  <2>2. \A n \in DOMAIN log' : log'[n].synced <= Len(log'[n].recs) BY <1>5 DEF FilesTypeOK
  <2> QED BY <1>1, <1>3, <1>5, <2>1, <2>2 DEF FilesTypeOK
<1>8. Idle' /\ Replayed' /\ Begun' BY <1>1 DEF Idle, Replayed, Begun
<1>9. Created' BY <1>1, <1>2, <1>4, <1>6 DEF Created, Numbered
<1>10. DescsSound'
  <2> SUFFICES ASSUME NEW st \in Descs PROVE (StateSound(st) /\ st.nextFile <= Last[1].nextFile)'
    BY <1>6 DEF DescsSound
  <2>1. StateSound(st) /\ st.nextFile <= Last[1].nextFile BY DEF DescsSound
  <2>2. st.logNumber \in Nat /\ st.logNumber <= f BY <1>2, <1>6 DEF DescStates, Numbered, f
  <2>3. LoggedFrom(log', st.logNumber) = LoggedFrom(log, st.logNumber) \cup {x} BY <1>5, <2>2
  <2>4. Found(st)' = Found(st) \cup {x} BY <1>1, <2>3 DEF Found
  <2>5. safe' \subseteq SeqsOf(table, st.tables) \cup KeptFrom(log', st.logNumber)
    BY <1>4, <1>5, <2>1, <2>2 DEF StateSound
  <2>6. acked \subseteq Found(st) /\ Found(st) \subseteq acked \cup doubtful
    BY <1>1, <2>1 DEF StateSound, Ready
  <2> QED BY <1>1, <1>4, <1>6, <2>1, <2>4, <2>5, <2>6 DEF StateSound
<1>11. TablesSound' BY <1>1, <1>2, <1>3, <1>6 DEF TablesSound
<1>12. Numbered'
  <2>1. \A y \in acked' \cup doubtful' : y <= db'.lastSeq
    <3> TAKE y \in acked' \cup doubtful'
    <3>1. y = x \/ y \in acked \cup doubtful BY <1>4
    <3>2. y \in acked \cup doubtful => y \in Nat /\ y <= db.lastSeq
      BY <1>2 DEF Numbered, FilesTypeOK, Numbers
    <3> QED BY <1>3, <3>1, <3>2 DEF Fields, x
  <2>2. \A st \in Descs : st.lastSeq <= db'.lastSeq
    <3> TAKE st \in Descs
    <3>1. st.lastSeq \in Nat /\ st.lastSeq <= db.lastSeq BY <1>2, <1>6 DEF Numbered, DescStates
    <3> QED BY <1>3, <3>1 DEF Fields, x
  <2> QED BY <1>1, <1>2, <1>3, <1>5, <1>6, <2>1, <2>2 DEF Numbered, f
<1>13. Stored'
  <2>1. db.logNumber \in Nat /\ db.logNumber <= f BY <1>2, <1>3 DEF Fields, Numbered, f
  <2>2. LoggedFrom(log', db.logNumber) = LoggedFrom(log, db.logNumber) \cup {x} BY <1>5, <2>1
  <2>3. /\ safe' \subseteq SeqsOf(table, db.tables) \cup Waiting \cup Kept(log'[f])
        /\ safe' \subseteq SeqsOf(table, db.tables) \cup KeptFrom(log', db.logNumber)
    BY <1>2, <1>4, <1>5, <2>1 DEF Stored, f
  <2>4. acked' = db'.mem \cup Waiting \cup SeqsOf(table, db.tables) BY <1>2, <1>4 DEF Stored
  <2>5. db'.mem \subseteq Range(log'[f].recs) BY <1>2, <1>4, <1>5 DEF Stored, f
  <2>6. LoggedFrom(log', db.logNumber) \subseteq acked' \cup doubtful' BY <1>2, <1>4, <2>2 DEF Stored
  <2> QED BY <1>1, <1>2, <1>3, <1>6, <2>2, <2>3, <2>4, <2>5, <2>6 DEF Stored, f
<1>14. Described' BY <1>1, <1>2, <1>3, <1>4 DEF Described, SameVersion
<1>15. WorkSound' BY <1>1, <1>2, <1>3 DEF WorkSound
<1>16. EditSound'
  <2>1. \A e \in In(edit) : e.lastSeq <= db'.lastSeq
    <3> TAKE e \in In(edit)
    <3>1. e \in Edit BY Slot DEF FilesTypeOK
    <3>2. e.lastSeq \in Nat /\ e.lastSeq <= db.lastSeq BY <1>2, <3>1 DEF EditSound, Edit
    <3> QED BY <1>3, <3>2 DEF Fields, x
  <2> QED BY <1>1, <1>2, <1>3, <1>6, <2>1 DEF EditSound, f
<1> QED BY <1>7, <1>8, <1>9, <1>10, <1>11, <1>12, <1>13, <1>14, <1>15, <1>16 DEF Running

\* The full memtable waits with its log, which stays among those to be read.
LEMMA SwitchMemTableKeeps ==
    ASSUME FilesInv, SwitchMemTable
    PROVE  FilesInv'
<1> DEFINE N == db.nextFile
<1> USE DEF FilesInv
<1>1. /\ proc = "open" /\ ~db.error /\ db.imm = <<>> /\ db.mem # {}
      /\ log' = With(log, N, [recs |-> <<>>, synced |-> 0])
      /\ UNCHANGED <<table, manifest, current, proc, readers, bg, comp, edit>>
      /\ UNCHANGED <<acked, safe, doubtful>>
  BY DEF SwitchMemTable, NewLog, ghost
<1>2. Running /\ TablesSound /\ Numbered /\ Stored /\ Described /\ WorkSound /\ EditSound
  BY <1>1 DEF Ready, Running
<1>3. /\ db \in Fields /\ db' \in Fields /\ N \in Nat /\ db'.lastSeq = db.lastSeq
      /\ db'.tables = db.tables /\ db'.logNumber = db.logNumber /\ db'.nextFile = N + 1
      /\ db'.manifestNum = db.manifestNum /\ db'.logfile = N /\ db'.imm = <<db.mem>>
      /\ db'.pending = db.pending /\ db'.logs = db.logs /\ db'.added = db.added
      /\ db'.mem = {} /\ db'.error = db.error
  <2>1. db \in Fields /\ db.nextFile + 1 \in Nat /\ <<db.mem>> \in Opt(Numbers) /\ {} \in Numbers
    BY InOpt DEF FilesTypeOK, Fields, Numbers
  <2> QED BY <2>1 DEF SwitchMemTable, Fields
<1>4. \A n \in DOMAIN log : n < N
  <2> TAKE n \in DOMAIN log
  <2>1. n \in Nat /\ db.logfile \in Nat BY <1>3 DEF FilesTypeOK, Fields
  <2> QED BY <1>2, <1>3, <2>1 DEF Numbered
<1>5. Begins(log, N, log') BY <1>1, <1>3, <1>4 DEF Begins
<1>6. /\ \A k : LoggedFrom(log', k) = LoggedFrom(log, k) /\ KeptFrom(log', k) = KeptFrom(log, k)
      /\ DOMAIN log' = DOMAIN log \cup {N} /\ \A m \in DOMAIN log : log'[m] = log[m]
      /\ log'[N] = [recs |-> <<>>, synced |-> 0]
      /\ Range(log'[N].recs) = {} /\ Kept(log'[N]) = {}
  BY <1>5, LogsNew
<1>7. /\ Descs' = Descs /\ Last' = Last /\ Named' = Named /\ Writing' = Writing
      /\ Waiting = {} /\ Waiting' = db.mem /\ current # 0 /\ Descs \subseteq DescStates
  BY <1>1, <1>3, OpenFacts, DescFacts
     DEF Descs, Last, Named, DescTables, BaseTables, NewTables, Writing, Compacted, Waiting, In
<1> HIDE DEF N
<1>8. FilesTypeOK'
  <2>1. [recs |-> <<>>, synced |-> 0] \in LogFile /\ Len(<<>>) = 0 BY DEF LogFile
  <2>2. log' \in [DOMAIN log' -> LogFile] BY <1>1, <2>1, WithType DEF FilesTypeOK
  <2>3. \A n \in DOMAIN log' : log'[n].synced <= Len(log'[n].recs) BY <1>6, <2>1 DEF FilesTypeOK
  <2> QED BY <1>1, <1>3, <1>6, <2>2, <2>3 DEF FilesTypeOK
<1>9. Idle' /\ Replayed' /\ Begun' BY <1>1 DEF Idle, Replayed, Begun
<1>10. Created' BY <1>1, <1>7 DEF Created
<1>11. DescsSound'
  <2> SUFFICES ASSUME NEW st \in Descs PROVE (StateSound(st) /\ st.nextFile <= Last[1].nextFile)'
    BY <1>7 DEF DescsSound
  <2>1. StateSound(st) /\ st.nextFile <= Last[1].nextFile BY DEF DescsSound
  <2>2. Found(st)' = Found(st) BY <1>1, <1>6 DEF Found
  <2> QED BY <1>1, <1>6, <1>7, <2>1, <2>2 DEF StateSound, Ready
<1>12. TablesSound'
  <2>1. \A n \in Named \cup db.pending : n < N + 1
    <3> TAKE n \in Named \cup db.pending
    <3>1. n < N BY <1>2 DEF TablesSound, N
    <3>2. n \in Nat BY <1>2 DEF TablesSound, WholeIn, FilesTypeOK, Fields, Numbers
    <3> QED BY <1>3, <3>1, <3>2
  <2> QED BY <1>1, <1>2, <1>3, <1>7, <2>1 DEF TablesSound
<1>13. Numbered'
  <2>1. current < N + 1 BY <1>2, <1>3 DEF Numbered, FilesTypeOK, N
  <2>2. db.logfile \in Nat /\ db.logfile < N /\ db.logNumber \in Nat /\ db.logNumber <= db.logfile
    BY <1>2, <1>3 DEF Numbered, Fields, N
  <2>3. \A st \in Descs : st.nextFile <= N + 1 /\ st.logNumber <= N /\ st.lastSeq <= db.lastSeq
    <3> TAKE st \in Descs
    <3>1. st.nextFile \in Nat /\ st.logNumber \in Nat BY <1>7 DEF DescStates
    <3>2. st.nextFile <= N /\ st.logNumber <= db.logfile /\ st.lastSeq <= db.lastSeq
      BY <1>2 DEF Numbered, N
    <3> QED BY <1>3, <2>2, <3>1, <3>2
  <2>4. \A n \in DOMAIN log' : n <= N
    <3> TAKE n \in DOMAIN log'
    <3>1. n = N \/ (n < N /\ n \in Nat) BY <1>4, <1>6 DEF FilesTypeOK
    <3> QED BY <1>3, <3>1
  <2>5. N \in DOMAIN log' /\ db.logNumber <= N /\ N < N + 1 BY <1>3, <1>6, <2>2
  <2> QED BY <1>1, <1>2, <1>3, <1>7, <2>1, <2>3, <2>4, <2>5 DEF Numbered
<1>14. Stored'
  <2>1. acked = db.mem \cup SeqsOf(table, db.tables) BY <1>2, <1>7 DEF Stored
  <2>2. db.mem \subseteq LoggedFrom(log, db.logNumber)
    <3>1. db.logfile \in DOMAIN log /\ db.logfile >= db.logNumber
      BY <1>2, <1>3 DEF Numbered, Fields
    <3>2. db.mem \subseteq Range(log[db.logfile].recs) BY <1>2 DEF Stored
    <3> QED BY <3>1, <3>2, InLogged
  <2>3. safe \subseteq SeqsOf(table, db.tables) \cup db.mem BY <2>1 DEF Created
  <2> QED BY <1>1, <1>2, <1>3, <1>6, <1>7, <2>1, <2>2, <2>3 DEF Stored
<1>15. Described' BY <1>1, <1>2, <1>3 DEF Described, SameVersion
<1>16. WorkSound' BY <1>1, <1>2, <1>3, Filled DEF WorkSound
<1>17. EditSound'
  <2> SUFFICES ASSUME NEW e \in In(edit)
               PROVE  /\ e.nextFile <= N + 1 /\ e.logNumber <= N /\ ~IsFlush(e)
    BY <1>1, <1>2, <1>3, <1>7 DEF EditSound
  <2>1. e \in Edit BY Slot DEF FilesTypeOK
  <2>2. e.nextFile \in Nat /\ e.nextFile <= N /\ e.logNumber \in Nat /\ e.logNumber <= db.logfile
    BY <1>2, <2>1 DEF EditSound, Edit, N
  <2>3. db.logfile \in Nat /\ db.logfile < N BY <1>2, <1>3 DEF Numbered, Fields, N
  <2>4. ~IsFlush(e) BY <1>1, <1>2 DEF EditSound
  <2> QED BY <1>3, <2>2, <2>3, <2>4
<1> QED BY <1>8, <1>9, <1>10, <1>11, <1>12, <1>13, <1>14, <1>15, <1>16, <1>17 DEF Running

-----------------------------------------------------------------------------
(* The background thread's tables. *)

\* A step that writes or deletes only tables nobody names.
BesideTables ==
    /\ proc = "open" /\ UNCHANGED <<log, manifest, current, proc, readers, acked, safe, doubtful>>
    /\ db' \in Fields /\ db.nextFile <= db'.nextFile
    /\ db'.tables = db.tables /\ db'.logNumber = db.logNumber /\ db'.lastSeq = db.lastSeq
    /\ db'.manifestNum = db.manifestNum /\ db'.logfile = db.logfile
    /\ db'.mem = db.mem /\ db'.imm = db.imm
    /\ \A n \in Named : n \in DOMAIN table => n \in DOMAIN table' /\ table'[n] = table[n]

\* Writing a table nothing names changes nothing that is promised.
LEMMA BesideTablesKeeps ==
    ASSUME FilesInv, BesideTables
    PROVE  /\ Idle' /\ Created' /\ DescsSound' /\ Replayed' /\ Begun' /\ Numbered' /\ Stored'
           /\ Descs' = Descs /\ Last' = Last /\ DescTables' = DescTables
           /\ Descs \subseteq DescStates /\ current # 0
           /\ WholeIn(table', Named)
           /\ \A S \in SUBSET Named : SeqsOf(table', S) = SeqsOf(table, S)
           /\ Running /\ TablesSound /\ Numbered /\ Stored /\ Described /\ WorkSound /\ EditSound
<1> USE DEF FilesInv
<1>1. /\ proc = "open"
      /\ UNCHANGED <<log, manifest, current, proc, readers, acked, safe, doubtful>>
      /\ db' \in Fields /\ db.nextFile <= db'.nextFile
      /\ db'.tables = db.tables /\ db'.logNumber = db.logNumber /\ db'.lastSeq = db.lastSeq
      /\ db'.manifestNum = db.manifestNum /\ db'.logfile = db.logfile
      /\ db'.mem = db.mem /\ db'.imm = db.imm
      /\ \A n \in Named : n \in DOMAIN table => n \in DOMAIN table' /\ table'[n] = table[n]
  BY DEF BesideTables
<1>2. Running /\ TablesSound /\ Numbered /\ Stored /\ Described /\ WorkSound /\ EditSound
  BY <1>1 DEF Ready, Running
<1>3. WholeIn(table', Named) /\ \A n \in Named : table'[n] = table[n]
  BY <1>1, <1>2 DEF TablesSound, WholeIn
<1>4. ASSUME NEW S \in SUBSET Named PROVE SeqsOf(table', S) = SeqsOf(table, S)
  <2>1. \A n \in S : table'[n] = table[n] BY <1>3
  <2> QED BY <2>1, SeqsSame
<1>5. DescsSound' /\ Descs' = Descs /\ Last' = Last
  <2>1. \A n \in DescTables : n \in DOMAIN table => n \in DOMAIN table' /\ table'[n] = table[n]
    BY <1>1, DescTablesNamed
  <2> QED BY <1>1, <2>1, DescsQuiet DEF Ready
<1>6. Descs \subseteq DescStates /\ current # 0 BY <1>1, OpenFacts, DescFacts
<1>7. DescTables' = DescTables BY <1>5 DEF DescTables
<1>8. Idle' /\ Replayed' /\ Begun' /\ Created'
  BY <1>1, <1>5 DEF Idle, Replayed, Begun, Created
<1>9. Numbered'
  <2>1. current < db'.nextFile /\ db.logfile < db'.nextFile
    BY <1>1, <1>2 DEF Numbered, FilesTypeOK, Fields
  <2>2. \A st \in Descs : st.nextFile <= db'.nextFile
    <3> TAKE st \in Descs
    <3>1. st.nextFile \in Nat /\ st.nextFile <= db.nextFile BY <1>2, <1>6 DEF Numbered, DescStates
    <3> QED BY <1>1, <3>1 DEF FilesTypeOK, Fields
  <2> QED BY <1>1, <1>2, <1>5, <2>1, <2>2 DEF Numbered
<1>10. Stored'
  <2>1. SeqsOf(table', db.tables) = SeqsOf(table, db.tables)
    <3>1. db.tables \subseteq Named BY InNamed
    <3> QED BY <1>4, <3>1
  <2>2. \A st \in Descs : SeqsOf(table', st.tables) = SeqsOf(table, st.tables)
    <3> TAKE st \in Descs
    <3>1. st.tables \subseteq Named BY DescTablesNamed
    <3> QED BY <1>4, <3>1
  <2> QED BY <1>1, <1>2, <1>5, <2>1, <2>2 DEF Stored, Waiting
<1> QED BY <1>2, <1>3, <1>4, <1>5, <1>6, <1>7, <1>8, <1>9, <1>10

\* What is in use is below the next number, and stays so.
LEMMA NumbersGrow ==
    ASSUME FilesTypeOK, TablesSound, db' \in Fields, db.nextFile <= db'.nextFile
    PROVE  /\ \A n \in Named \cup db.pending : n < db'.nextFile
           /\ \A n \in Named : n \in Nat
<1>1. \A n \in Named \cup db.pending : n \in Nat
  BY DEF TablesSound, WholeIn, FilesTypeOK, Fields, Numbers
<1>2. ASSUME NEW n \in Named \cup db.pending PROVE n < db'.nextFile
  <2>1. n \in Nat /\ n < db.nextFile BY <1>1 DEF TablesSound
  <2> QED BY <2>1 DEF FilesTypeOK, Fields
<1> QED BY <1>1, <1>2

\* A table that is begun has a number nothing in use has.
LEMMA NewTableBeside ==
    ASSUME FilesInv, proc = "open", NEW x \in TableFile, table' = With(table, db.nextFile, x),
           UNCHANGED <<log, manifest, current, proc, readers, acked, safe, doubtful>>,
           db' = [db EXCEPT !.nextFile = @ + 1, !.pending = @ \cup {db.nextFile}]
    PROVE  /\ BesideTables /\ db' \in Fields /\ db'.nextFile = db.nextFile + 1
           /\ db'.pending = db.pending \cup {db.nextFile} /\ db'.error = db.error
           /\ db.nextFile \in Nat /\ db.nextFile \notin Named /\ db.nextFile \notin db.pending
           /\ db.nextFile < db'.nextFile
           /\ table' \in [DOMAIN table' -> TableFile] /\ DOMAIN table' \subseteq Nat
<1> DEFINE N == db.nextFile
<1> USE DEF FilesInv
<1>1. db \in Fields /\ N \in Nat /\ N + 1 \in Nat /\ N < N + 1 BY DEF FilesTypeOK, Fields
<1>2. db.pending \cup {N} \in Numbers BY <1>1 DEF Fields, Numbers
<1>3. /\ db' \in Fields /\ db'.nextFile = N + 1 /\ db'.pending = db.pending \cup {N}
      /\ db'.tables = db.tables /\ db'.logNumber = db.logNumber /\ db'.lastSeq = db.lastSeq
      /\ db'.manifestNum = db.manifestNum /\ db'.logfile = db.logfile /\ db'.mem = db.mem
      /\ db'.imm = db.imm /\ db'.error = db.error
  BY <1>1, <1>2 DEF Fields
<1>4. \A n \in Named \cup db.pending : n < N BY DEF Ready, Running, TablesSound
<1>5. N \notin Named /\ N \notin db.pending
  <2>1. ~(N < N) BY <1>1
  <2> QED BY <1>4, <2>1
<1>6. table' \in [DOMAIN table' -> TableFile] BY WithType DEF FilesTypeOK
<1>7. DOMAIN table' = DOMAIN table \cup {N} /\ \A m \in DOMAIN table : m # N => table'[m] = table[m]
  <2>1. /\ DOMAIN With(table, N, x) = DOMAIN table \cup {N}
        /\ \A m \in DOMAIN table : m # N => With(table, N, x)[m] = table[m]
    BY DEF With
  <2> QED BY <2>1
<1>8. BesideTables BY <1>1, <1>3, <1>5, <1>7 DEF BesideTables
<1> QED BY <1>1, <1>3, <1>5, <1>6, <1>7, <1>8 DEF FilesTypeOK

\* The table of a flush gets a new number, which is pending.
LEMMA StartFlushKeeps ==
    ASSUME FilesInv, StartFlush
    PROVE  FilesInv'
<1> DEFINE N == db.nextFile
<1> USE DEF FilesInv
<1>1. /\ proc = "open" /\ bg = <<>> /\ edit = <<>> /\ db.imm # <<>> /\ bg' = <<N>>
      /\ table' = With(table, N, [seqs |-> {}, whole |-> FALSE])
      /\ db' = [db EXCEPT !.nextFile = @ + 1, !.pending = @ \cup {N}]
      /\ UNCHANGED <<log, manifest, current, proc, readers, comp, edit, acked, safe, doubtful>>
  BY DEF StartFlush, Resting, Working, Free, NewTable, ghost
<1>2. [seqs |-> {}, whole |-> FALSE] \in TableFile BY DEF TableFile, Numbers
<1>3. /\ BesideTables /\ db' \in Fields /\ db'.nextFile = N + 1
      /\ db'.pending = db.pending \cup {N} /\ db'.error = db.error
      /\ N \in Nat /\ N \notin Named /\ N \notin db.pending /\ N < db'.nextFile
      /\ table' \in [DOMAIN table' -> TableFile] /\ DOMAIN table' \subseteq Nat
  BY <1>1, <1>2, NewTableBeside
<1>4. /\ Idle' /\ Created' /\ DescsSound' /\ Replayed' /\ Begun' /\ Numbered' /\ Stored'
      /\ Descs' = Descs /\ Last' = Last /\ DescTables' = DescTables
      /\ WholeIn(table', Named)
      /\ TablesSound /\ Described /\ WorkSound /\ EditSound
  BY <1>3, BesideTablesKeeps
<1>5. db'.tables = db.tables /\ db'.logNumber = db.logNumber /\ db'.imm = db.imm
      /\ db.nextFile <= db'.nextFile
  BY <1>3 DEF BesideTables
<1>6. FilesTypeOK' BY <1>1, <1>3, InOpt DEF FilesTypeOK
<1>7. Named' = Named BY <1>1, <1>4, <1>5 DEF Named, BaseTables, NewTables
<1>8. In(bg') = {N} /\ bg' # <<>> /\ bg'[1] = N BY <1>1, Filled
<1>9. Writing' = {N} \cup {c.out : c \in In(comp)} /\ {c.out : c \in In(comp)} \subseteq Writing
  BY <1>1, <1>8 DEF Writing, Compacted
<1>10. TablesSound'
  <2>1. \A n \in Named \cup db'.pending : n < db'.nextFile
    BY <1>3, <1>4, <1>5, NumbersGrow
  <2> QED BY <1>3, <1>4, <1>7, <1>9, <2>1 DEF TablesSound
<1>11. Described' BY <1>1, <1>3, <1>4, <1>5 DEF Described, SameVersion, BesideTables
<1>12. WorkSound'
  <2>1. comp # <<>> => comp[1].out \in db.pending
    <3>1. comp # <<>> => comp[1].out \in {c.out : c \in In(comp)} BY DEF In
    <3> QED BY <1>4, <1>9, <3>1 DEF TablesSound
  <2> QED BY <1>1, <1>3, <1>4, <1>5, <1>8, <2>1 DEF WorkSound
<1>13. EditSound' BY <1>1 DEF EditSound, In
<1> QED BY <1>4, <1>6, <1>10, <1>11, <1>12, <1>13 DEF Running

\* The output of a compaction gets one, and its inputs are in the version it holds.
LEMMA StartCompactionKeeps ==
    ASSUME FilesInv, NEW ins \in (SUBSET db.tables) \ {{}}, StartCompaction(ins)
    PROVE  FilesInv'
<1> DEFINE N == db.nextFile
           c == [ins |-> ins, base |-> db.tables, out |-> N]
<1> USE DEF FilesInv
<1>1. /\ proc = "open" /\ bg = <<>> /\ edit = <<>> /\ comp = <<>> /\ comp' = <<c>>
      /\ table' = With(table, N, [seqs |-> {}, whole |-> FALSE])
      /\ db' = [db EXCEPT !.nextFile = @ + 1, !.pending = @ \cup {N}]
      /\ UNCHANGED <<log, manifest, current, proc, readers, bg, edit, acked, safe, doubtful>>
  BY DEF StartCompaction, Resting, Free, NewTable, ghost
<1>2. [seqs |-> {}, whole |-> FALSE] \in TableFile BY DEF TableFile, Numbers
<1>3. /\ BesideTables /\ db' \in Fields /\ db'.nextFile = N + 1
      /\ db'.pending = db.pending \cup {N} /\ db'.error = db.error
      /\ N \in Nat /\ N \notin Named /\ N \notin db.pending /\ N < db'.nextFile
      /\ table' \in [DOMAIN table' -> TableFile] /\ DOMAIN table' \subseteq Nat
  BY <1>1, <1>2, NewTableBeside
<1>4. /\ Idle' /\ Created' /\ DescsSound' /\ Replayed' /\ Begun' /\ Numbered' /\ Stored'
      /\ Descs' = Descs /\ Last' = Last /\ DescTables' = DescTables
      /\ WholeIn(table', Named)
      /\ TablesSound /\ Described /\ WorkSound /\ EditSound
  BY <1>3, BesideTablesKeeps
<1>5. db'.tables = db.tables /\ db'.logNumber = db.logNumber /\ db'.imm = db.imm
      /\ db.nextFile <= db'.nextFile
  BY <1>3 DEF BesideTables
<1>6. FilesTypeOK'
  <2>1. c \in Compaction BY <1>3 DEF Compaction, FilesTypeOK, Fields, Numbers
  <2>2. comp' \in Opt(Compaction) BY <1>1, <2>1, InOpt
  <2> QED BY <1>1, <1>3, <2>2 DEF FilesTypeOK
<1>7. /\ comp' # <<>> /\ comp'[1] = c /\ In(comp') = {c}
      /\ c.ins = ins /\ c.base = db.tables /\ c.out = N
  BY <1>1, Filled
<1>8. Named' = Named
  <2>1. BaseTables' = db.tables BY <1>7 DEF BaseTables
  <2>2. BaseTables = {} BY <1>1 DEF BaseTables, In
  <2> QED BY <1>1, <1>4, <1>5, <2>1, <2>2 DEF Named, NewTables
<1>9. Writing' = {N} BY <1>1, <1>7 DEF Writing, Compacted, In
<1>10. TablesSound'
  <2>1. \A n \in Named \cup db'.pending : n < db'.nextFile
    BY <1>3, <1>4, <1>5, NumbersGrow
  <2> QED BY <1>3, <1>4, <1>8, <1>9, <2>1 DEF TablesSound
<1>11. Described' BY <1>1, <1>3, <1>4, <1>5 DEF Described, SameVersion, BesideTables
<1>12. WorkSound' BY <1>1, <1>5, <1>7 DEF WorkSound
<1>13. EditSound' BY <1>1 DEF EditSound, In
<1> QED BY <1>4, <1>6, <1>10, <1>11, <1>12, <1>13 DEF Running

\* The table of a flush has what the memtable has before the edit names it.
LEMMA FinishFlushKeeps ==
    ASSUME FilesInv, FinishFlush
    PROVE  FilesInv'
<1> DEFINE t == bg[1]
           e == [add |-> {t}, del |-> {}, logNumber |-> db.logfile, nextFile |-> db.nextFile,
                 lastSeq |-> db.lastSeq, stage |-> "new"]
<1> USE DEF FilesInv
<1>1. /\ bg # <<>> /\ table' = With(table, t, [seqs |-> db.imm[1], whole |-> TRUE])
      /\ edit' = <<e>> /\ bg' = <<>> /\ db' = [db EXCEPT !.pending = @ \ {t}]
      /\ UNCHANGED <<log, manifest, current, proc, readers, comp, acked, safe, doubtful>>
  BY DEF FinishFlush, WholeTable, ghost
<1>2. proc = "open" BY <1>1 DEF Idle
<1>3. WorkSound /\ TablesSound /\ Numbered /\ Stored BY <1>2 DEF Ready, Running
<1>4. edit = <<>> /\ db.imm # <<>> BY <1>1, <1>3 DEF WorkSound
<1>5. t \in Nat /\ t \in Writing /\ t \notin Named /\ t \in db.pending /\ t < db.nextFile
  <2>1. t \in Nat /\ In(bg) = {t} BY <1>1, Slot DEF FilesTypeOK
  <2>2. t \in Writing BY <2>1 DEF Writing
  <2> QED BY <1>3, <2>1, <2>2 DEF TablesSound
<1>6. db.imm[1] \in Numbers /\ Waiting = db.imm[1]
  <2>1. db.imm \in Opt(Numbers) BY DEF FilesTypeOK, Fields
  <2> QED BY <1>4, <2>1, Slot DEF Waiting
<1>7. /\ db \in Fields /\ db' \in Fields /\ db'.nextFile = db.nextFile
      /\ db'.pending = db.pending \ {t} /\ db'.error = db.error
      /\ db'.tables = db.tables /\ db'.logNumber = db.logNumber /\ db'.lastSeq = db.lastSeq
      /\ db'.manifestNum = db.manifestNum /\ db'.logfile = db.logfile /\ db'.mem = db.mem
      /\ db'.imm = db.imm /\ db.nextFile <= db'.nextFile
  <2>1. /\ db \in Fields /\ db.pending \ {t} \in Numbers
        /\ db.nextFile \in Nat /\ db.nextFile <= db.nextFile
    BY DEF FilesTypeOK, Fields, Numbers
  <2> QED BY <1>1, <2>1 DEF Fields
<1>8. /\ DOMAIN table' = DOMAIN table \cup {t}
      /\ \A m \in DOMAIN table : m # t => table'[m] = table[m]
      /\ table'[t] = [seqs |-> db.imm[1], whole |-> TRUE]
  BY <1>1 DEF With
<1>9. BesideTables BY <1>1, <1>2, <1>5, <1>7, <1>8 DEF BesideTables
<1>10. /\ Idle' /\ Created' /\ DescsSound' /\ Replayed' /\ Begun' /\ Numbered' /\ Stored'
       /\ Descs' = Descs /\ Last' = Last /\ DescTables' = DescTables
       /\ Descs \subseteq DescStates /\ current # 0
       /\ WholeIn(table', Named) /\ Described
  BY <1>9, BesideTablesKeeps
<1>11. edit' # <<>> /\ edit'[1] = e /\ In(edit') = {e} /\ In(bg') = {} /\ IsFlush(e)
  BY <1>1, Filled DEF In, IsFlush
<1>12. FilesTypeOK'
  <2>1. [seqs |-> db.imm[1], whole |-> TRUE] \in TableFile BY <1>6 DEF TableFile
  <2>2. table' \in [DOMAIN table' -> TableFile] BY <1>1, <2>1, WithType DEF FilesTypeOK
  <2>3. e \in Edit BY <1>5, <1>7 DEF Edit, Fields, Numbers
  <2>4. edit' \in Opt(Edit) /\ bg' \in Opt(Nat) BY <1>1, <2>3, InOpt DEF Opt
  <2> QED BY <1>1, <1>5, <1>7, <1>8, <2>2, <2>4 DEF FilesTypeOK
<1>13. Named' = Named \cup {t}
  <2>1. NewTables' = {t} BY <1>11 DEF NewTables
  <2>2. NewTables = {} BY <1>4 DEF NewTables, In
  <2> QED BY <1>1, <1>7, <1>10, <2>1, <2>2 DEF Named, BaseTables
<1>14. Writing' = {c.out : c \in In(comp)} /\ Writing' \subseteq Writing /\ t \notin Writing'
  <2>1. Writing' = {c.out : c \in In(comp)} BY <1>1, <1>11 DEF Writing, Compacted
  <2>2. Writing' \subseteq Writing BY <1>4, <2>1 DEF Writing, Compacted
  <2>3. \A c \in In(comp) : c.out # t BY <1>1, <1>3 DEF WorkSound, In
  <2> QED BY <2>1, <2>2, <2>3
<1>15. TablesSound'
  <2>1. WholeIn(table', Named \cup {t}) BY <1>8, <1>10 DEF WholeIn
  <2>2. \A n \in Named \cup {t} \cup db'.pending : n < db'.nextFile BY <1>3, <1>5, <1>7 DEF TablesSound
  <2>3. Writing' \subseteq db'.pending /\ Writing' \cap (Named \cup {t}) = {}
    BY <1>3, <1>7, <1>14 DEF TablesSound
  <2> QED BY <1>13, <2>1, <2>2, <2>3 DEF TablesSound
<1>16. Described' BY <1>1, <1>4, <1>7, <1>10, <1>11 DEF Described, SameVersion
<1>17. WorkSound' BY <1>1, <1>3, <1>7 DEF WorkSound
<1>18. EditSound'
  <2>1. SeqsOf(table', {t}) = db.imm[1] BY <1>8, SeqsOfSets
  <2>2. \A x \in db.imm[1] : x <= db.lastSeq BY <1>3, <1>6 DEF Stored, Numbered
  <2>3. db.logfile < db.nextFile /\ db.logfile <= db.logfile /\ db.nextFile <= db.nextFile
        /\ db.lastSeq <= db.lastSeq
    BY <1>3, <1>7 DEF Numbered, Fields
  <2>4. \A st \in Descs : st.nextFile <= db.nextFile /\ st.lastSeq <= db.lastSeq
    BY <1>3 DEF Numbered
  <2>5. /\ e.add = {t} /\ e.logNumber = db.logfile /\ e.nextFile = db.nextFile
        /\ e.lastSeq = db.lastSeq /\ e.stage = "new"
    OBVIOUS
  <2> HIDE DEF e
  <2>6. \A n \in e.add : n < e.nextFile BY <1>5, <2>5
  <2>7. SeqsOf(table', e.add) = db.imm[1] /\ \A x \in SeqsOf(table', e.add) : x <= e.lastSeq
    BY <2>1, <2>2, <2>5
  <2>8. /\ e.nextFile <= db.nextFile /\ e.lastSeq <= db.lastSeq
        /\ e.logNumber < e.nextFile /\ e.logNumber <= db.logfile
        /\ \A st \in Descs : st.nextFile <= e.nextFile /\ st.lastSeq <= e.lastSeq
    BY <2>3, <2>4, <2>5
  <2> QED BY <1>4, <1>7, <1>10, <1>11, <2>5, <2>6, <2>7, <2>8 DEF EditSound
<1> QED BY <1>10, <1>12, <1>15, <1>16, <1>17, <1>18 DEF Running

\* The output of a compaction has what its inputs have before the edit names it.
LEMMA FinishCompactionKeeps ==
    ASSUME FilesInv, FinishCompaction
    PROVE  FilesInv'
<1> DEFINE c == comp[1]
           ss == UNION {table[n].seqs : n \in c.ins}
           e == [add |-> {c.out}, del |-> c.ins, logNumber |-> db.logNumber,
                 nextFile |-> db.nextFile, lastSeq |-> db.lastSeq, stage |-> "new"]
<1> USE DEF FilesInv
<1>1. /\ proc = "open" /\ bg = <<>> /\ edit = <<>> /\ comp # <<>>
      /\ table' = With(table, c.out, [seqs |-> ss, whole |-> TRUE]) /\ edit' = <<e>>
      /\ UNCHANGED <<log, manifest, current, proc, db, readers, bg, comp, acked, safe, doubtful>>
  BY DEF FinishCompaction, Working, Free, WholeTable, ghost
<1>2. ss = SeqsOf(table, c.ins) BY DEF SeqsOf
<1>3. WorkSound /\ TablesSound /\ Numbered /\ Stored BY <1>1 DEF Ready, Running
<1>4. c \in Compaction /\ c.out \in Nat /\ c.ins \subseteq db.tables /\ c.ins # {} /\ In(comp) = {c}
  <2>1. c \in Compaction /\ In(comp) = {c} BY <1>1, Slot DEF FilesTypeOK
  <2> QED BY <1>1, <1>3, <2>1 DEF WorkSound, Compaction
<1>5. c.out \in Writing /\ c.out \notin Named /\ c.out \in db.pending /\ c.out < db.nextFile
  <2>1. c.out \in Writing BY <1>1, <1>4 DEF Writing, Compacted
  <2> QED BY <1>3, <2>1 DEF TablesSound
<1>6. ss \subseteq SeqsOf(table, db.tables) /\ ss \subseteq acked
  BY <1>2, <1>3, <1>4, SeqsOfSets DEF Stored
<1> HIDE DEF ss
<1>7. /\ DOMAIN table' = DOMAIN table \cup {c.out}
      /\ \A m \in DOMAIN table : m # c.out => table'[m] = table[m]
      /\ table'[c.out] = [seqs |-> ss, whole |-> TRUE]
  BY <1>1 DEF With
<1>8. db \in Fields /\ db.nextFile <= db.nextFile BY DEF FilesTypeOK, Fields
<1>9. BesideTables BY <1>1, <1>5, <1>7, <1>8 DEF BesideTables
<1>10. /\ Idle' /\ Created' /\ DescsSound' /\ Replayed' /\ Begun' /\ Numbered' /\ Stored'
       /\ Descs' = Descs /\ Last' = Last /\ DescTables' = DescTables
       /\ Descs \subseteq DescStates /\ current # 0
       /\ WholeIn(table', Named) /\ Described
       /\ \A S \in SUBSET Named : SeqsOf(table', S) = SeqsOf(table, S)
  BY <1>9, BesideTablesKeeps
<1>11. edit' # <<>> /\ edit'[1] = e /\ In(edit') = {e} /\ ~IsFlush(e)
  BY <1>1, <1>4, Filled DEF IsFlush
<1>12. FilesTypeOK'
  <2>1. [seqs |-> ss, whole |-> TRUE] \in TableFile BY <1>6 DEF TableFile, FilesTypeOK, Numbers
  <2>2. table' \in [DOMAIN table' -> TableFile] BY <1>1, <2>1, WithType DEF FilesTypeOK
  <2>3. e \in Edit BY <1>4, <1>8 DEF Edit, Fields, Numbers, Compaction
  <2>4. edit' \in Opt(Edit) BY <1>1, <2>3, InOpt
  <2> QED BY <1>1, <1>4, <1>7, <2>2, <2>4 DEF FilesTypeOK
<1>13. Named' = Named \cup {c.out}
  <2>1. NewTables' = {c.out} BY <1>11 DEF NewTables
  <2>2. NewTables = {} BY <1>1 DEF NewTables, In
  <2> QED BY <1>1, <1>10, <2>1, <2>2 DEF Named, BaseTables
<1>14. Writing' = {} BY <1>1, <1>11 DEF Writing, Compacted, In
<1>15. TablesSound'
  <2>1. WholeIn(table', Named \cup {c.out}) BY <1>7, <1>10 DEF WholeIn
  <2>2. \A n \in Named \cup {c.out} \cup db.pending : n < db.nextFile BY <1>3, <1>5 DEF TablesSound
  <2> QED BY <1>1, <1>13, <1>14, <2>1, <2>2 DEF TablesSound
<1>16. Described' BY <1>1, <1>10, <1>11 DEF Described, SameVersion
<1>17. WorkSound' BY <1>1, <1>3 DEF WorkSound
<1>18. EditSound'
  <2>1. SeqsOf(table', {c.out}) = ss BY <1>7, SeqsOfSets
  <2>2. SeqsOf(table', c.ins) = ss
    <3>1. c.ins \subseteq Named BY <1>4, InNamed
    <3> QED BY <1>2, <1>10, <3>1
  <2>3. \A x \in ss : x <= db.lastSeq BY <1>3, <1>6 DEF Numbered
  <2>4. /\ db.logNumber <= db.logfile /\ db.logNumber < db.nextFile /\ db.nextFile <= db.nextFile
        /\ db.lastSeq <= db.lastSeq
    BY <1>3, <1>8 DEF Numbered, Fields
  <2>5. \A st \in Descs : st.nextFile <= db.nextFile /\ st.lastSeq <= db.lastSeq
    BY <1>3 DEF Numbered
  <2>6. /\ e.add = {c.out} /\ e.del = c.ins /\ e.logNumber = db.logNumber
        /\ e.nextFile = db.nextFile /\ e.lastSeq = db.lastSeq /\ e.stage = "new"
    OBVIOUS
  <2> HIDE DEF e
  <2>7. \A n \in e.add : n < e.nextFile BY <1>5, <2>6
  <2> QED BY <1>1, <1>10, <1>11, <2>1, <2>2, <2>3, <2>4, <2>5, <2>6, <2>7 DEF EditSound
<1> QED BY <1>10, <1>12, <1>15, <1>16, <1>17, <1>18 DEF Running

\* A table that could not be written is named nowhere.
LEMMA TableErrorKeeps ==
    ASSUME FilesInv, TableError
    PROVE  FilesInv'
<1> USE DEF FilesInv
<1>1. /\ bg # <<>> \/ (proc = "open" /\ bg = <<>> /\ edit = <<>> /\ comp # <<>>)
      /\ UNCHANGED <<log, manifest, current, proc, readers, edit, acked, safe, doubtful>>
      /\ \/ /\ bg # <<>> /\ table' = Restrict(table, DOMAIN table \ {bg[1]})
            /\ db' = [db EXCEPT !.error = TRUE, !.pending = @ \ {bg[1]}]
            /\ bg' = <<>> /\ comp' = comp
         \/ /\ bg = <<>> /\ db' = [db EXCEPT !.error = TRUE, !.pending = @ \ {comp[1].out}]
            /\ comp' = <<>> /\ table' = table /\ bg' = <<>>
  BY DEF TableError, Working, Free, ghost
<1>2. proc = "open" BY <1>1 DEF Idle
<1>3. WorkSound /\ TablesSound /\ Numbered /\ Stored BY <1>2 DEF Ready, Running
<1>4. edit = <<>> BY <1>1, <1>3 DEF WorkSound
<1>5. PICK t : \/ /\ bg # <<>> /\ t = bg[1] /\ comp' = comp
                  /\ table' = [n \in DOMAIN table \ {t} |-> table[n]]
               \/ bg = <<>> /\ comp # <<>> /\ t = comp[1].out /\ comp' = <<>> /\ table' = table
  BY <1>1 DEF Restrict
<1>6. db' = [db EXCEPT !.error = TRUE, !.pending = @ \ {t}] /\ bg' = <<>> BY <1>1, <1>5
<1>7. /\ db \in Fields /\ db' \in Fields /\ db'.nextFile = db.nextFile
      /\ db'.pending = db.pending \ {t} /\ db'.error
      /\ db'.tables = db.tables /\ db'.logNumber = db.logNumber /\ db'.lastSeq = db.lastSeq
      /\ db'.manifestNum = db.manifestNum /\ db'.logfile = db.logfile /\ db'.mem = db.mem
      /\ db'.imm = db.imm /\ db.nextFile <= db'.nextFile
  <2>1. /\ db \in Fields /\ db.pending \ {t} \in Numbers
        /\ db.nextFile \in Nat /\ db.nextFile <= db.nextFile
    BY DEF FilesTypeOK, Fields, Numbers
  <2> QED BY <1>6, <2>1 DEF Fields
<1>8. t \in Writing /\ t \notin Named
  <2>1. bg # <<>> => In(bg) = {bg[1]} BY DEF In
  <2>2. comp # <<>> => In(comp) = {comp[1]} BY DEF In
  <2>3. Writing = In(bg) \cup {c.out : c \in In(comp)} BY <1>4 DEF Writing, Compacted
  <2>4. t \in Writing BY <1>5, <2>1, <2>2, <2>3
  <2> QED BY <1>3, <2>4 DEF TablesSound
<1>9. \A n \in Named : n \in DOMAIN table => n \in DOMAIN table' /\ table'[n] = table[n]
  BY <1>5, <1>8
<1>10. BesideTables BY <1>1, <1>2, <1>7, <1>9 DEF BesideTables
<1>11. /\ Idle' /\ Created' /\ DescsSound' /\ Replayed' /\ Begun' /\ Numbered' /\ Stored'
       /\ Descs' = Descs /\ Last' = Last /\ DescTables' = DescTables
       /\ WholeIn(table', Named) /\ Described
  BY <1>10, BesideTablesKeeps
<1>12. FilesTypeOK'
  <2>1. table' \in [DOMAIN table' -> TableFile] /\ DOMAIN table' \subseteq Nat
    BY <1>5 DEF FilesTypeOK
  <2>2. bg' \in Opt(Nat) /\ comp' \in Opt(Compaction) BY <1>5, <1>6 DEF FilesTypeOK, Opt
  <2> QED BY <1>1, <1>7, <2>1, <2>2 DEF FilesTypeOK
<1>13. \A n \in Named' : n \in Named
  <2>1. \A n \in BaseTables' : n \in BaseTables BY <1>5 DEF BaseTables, In
  <2> QED BY <1>1, <1>7, <1>11, <2>1 DEF Named, NewTables
<1>14. Writing' \subseteq Writing /\ t \notin Writing'
  <2>1. Writing' = {c.out : c \in In(comp')} BY <1>1, <1>4, <1>6 DEF Writing, Compacted, In
  <2>2. Writing = In(bg) \cup {c.out : c \in In(comp)} BY <1>4 DEF Writing, Compacted
  <2>3. CASE bg # <<>>
    <3>1. comp' = comp BY <1>5, <2>3
    <3>2. \A c \in In(comp) : c.out # t BY <1>3, <1>5, <2>3 DEF WorkSound, In
    <3> QED BY <2>1, <2>2, <3>1, <3>2
  <2>4. CASE bg = <<>>
    <3>1. In(comp') = {} BY <1>5, <2>4 DEF In
    <3> QED BY <2>1, <3>1
  <2> QED BY <2>3, <2>4
<1>15. TablesSound'
  <2>1. WholeIn(table', Named') BY <1>11, <1>13 DEF WholeIn
  <2>2. \A n \in Named' \cup db'.pending : n < db'.nextFile BY <1>3, <1>7, <1>13 DEF TablesSound
  <2>3. Writing' \subseteq db'.pending /\ Writing' \cap Named' = {}
    BY <1>3, <1>7, <1>13, <1>14 DEF TablesSound
  <2> QED BY <2>1, <2>2, <2>3 DEF TablesSound
<1>16. Described' BY <1>7 DEF Described
<1>17. WorkSound' BY <1>3, <1>5, <1>6, <1>7 DEF WorkSound
<1>18. EditSound' BY <1>1, <1>4 DEF EditSound, In
<1> QED BY <1>11, <1>12, <1>15, <1>16, <1>17, <1>18 DEF Running

-----------------------------------------------------------------------------
(* The descriptor. *)

\* The tables of an edited version hold what those before it and the added ones
\* hold: a flush removes nothing, a compaction only what its output holds.
LEMMA EditedSeqs ==
    ASSUME NEW t, NEW S, NEW e, IsFlush(e) \/ SeqsOf(t, e.add) = SeqsOf(t, e.del)
    PROVE  SeqsOf(t, (S \ e.del) \cup e.add) = SeqsOf(t, S) \cup SeqsOf(t, e.add)
<1>1. CASE IsFlush(e)
  <2>1. (S \ e.del) \cup e.add = S \cup e.add BY <1>1 DEF IsFlush
  <2> QED BY <2>1, SeqsOfSets
<1>2. CASE SeqsOf(t, e.add) = SeqsOf(t, e.del)
  <2>1. SeqsOf(t, S) \subseteq SeqsOf(t, (S \ e.del) \cup e.add) BY <1>2, SeqsEdited
  <2>2. SeqsOf(t, (S \ e.del) \cup e.add) \subseteq SeqsOf(t, S) \cup SeqsOf(t, e.add)
    BY <1>2, SeqsEdited
  <2>3. SeqsOf(t, e.add) \subseteq SeqsOf(t, (S \ e.del) \cup e.add) BY SeqsOfSets
  <2> QED BY <2>1, <2>2, <2>3
<1> QED BY <1>1, <1>2

\* Later logs hold less.
LEMMA LogsLater ==
    ASSUME NEW logs, DOMAIN logs \subseteq Nat, NEW j \in Nat, NEW k \in Nat, j <= k
    PROVE  /\ LoggedFrom(logs, k) \subseteq LoggedFrom(logs, j)
           /\ KeptFrom(logs, k) \subseteq KeptFrom(logs, j)
<1>1. \A n \in DOMAIN logs : n >= k => n >= j
  <2> TAKE n \in DOMAIN logs
  <2>1. n \in Nat OBVIOUS
  <2> QED BY <2>1
<1>2. ASSUME NEW x
      PROVE  /\ x \in LoggedFrom(logs, k) => x \in LoggedFrom(logs, j)
             /\ x \in KeptFrom(logs, k) => x \in KeptFrom(logs, j)
  BY <1>1, InLogged
<1> QED BY <1>2

\* What is known of the edit under way.
LEMMA EditFacts ==
    ASSUME FilesInv, edit # <<>>
    PROVE  /\ proc = "open" /\ Running /\ TablesSound /\ Numbered /\ Stored /\ Described
           /\ WorkSound /\ EditSound /\ bg = <<>> /\ current # 0 /\ db \in Fields
           /\ edit[1] \in Edit /\ In(edit) = {edit[1]} /\ edit = <<edit[1]>>
           /\ Descs \subseteq DescStates /\ Last[1] \in Descs /\ Last = <<Last[1]>>
           /\ manifest[current] \in Manifest /\ current \in DOMAIN manifest
           /\ manifest[current].synced # <<>>
           /\ manifest[current].synced = <<manifest[current].synced[1]>>
           /\ manifest[current].synced[1] \in Descs
           /\ IsFlush(edit[1]) \/ SeqsOf(table, edit[1].add) = SeqsOf(table, edit[1].del)
           /\ SeqsOf(table, edit[1].add) \subseteq acked
           /\ edit[1].add \subseteq Named
<1> USE DEF FilesInv
<1>1. proc = "open" BY DEF Idle
<1>2. Running /\ TablesSound /\ Numbered /\ Stored /\ Described /\ WorkSound /\ EditSound
  BY <1>1 DEF Ready, Running
<1>3. edit[1] \in Edit /\ In(edit) = {edit[1]} /\ edit = <<edit[1]>> BY Slot DEF FilesTypeOK
<1>4. bg = <<>> BY <1>2 DEF WorkSound
<1>5. current # 0 /\ Last[1] \in Descs /\ current \in DOMAIN manifest
      /\ manifest[current] \in Manifest /\ Last # <<>>
  BY <1>1, OpenFacts
<1>6. manifest[current].synced # <<>> BY <1>2 DEF Numbered
<1>7. /\ Descs \subseteq DescStates /\ Last = <<Last[1]>> /\ manifest[current].synced[1] \in Descs
      /\ manifest[current].synced = <<manifest[current].synced[1]>>
  BY <1>5, <1>6, DescFacts
<1>8. IsFlush(edit[1]) \/ SeqsOf(table, edit[1].add) = SeqsOf(table, edit[1].del)
  BY <1>2, <1>3 DEF EditSound
<1>9. SeqsOf(table, edit[1].add) \subseteq acked
  <2>1. CASE IsFlush(edit[1])
    <3>1. db.imm # <<>> /\ SeqsOf(table, edit[1].add) = db.imm[1] BY <1>2, <1>3, <2>1 DEF EditSound
    <3>2. In(db.imm) = {db.imm[1]} BY <3>1 DEF In
    <3> QED BY <1>2, <3>1, <3>2 DEF Stored, Waiting
  <2>2. CASE ~IsFlush(edit[1])
    <3>1. /\ SeqsOf(table, edit[1].add) = SeqsOf(table, edit[1].del)
          /\ comp # <<>> /\ edit[1].del = comp[1].ins
      BY <1>2, <1>3, <2>2 DEF EditSound
    <3>2. edit[1].del \subseteq db.tables BY <1>2, <3>1 DEF WorkSound
    <3> QED BY <1>2, <3>1, <3>2, SeqsOfSets DEF Stored
  <2> QED BY <2>1, <2>2
<1>10. edit[1].add \subseteq Named BY InNamed
<1> QED BY <1>1, <1>2, <1>3, <1>4, <1>5, <1>6, <1>7, <1>8, <1>9, <1>10 DEF FilesTypeOK

\* The state an edit leads to is sound: it finds what was acknowledged, and what
\* was promised to survive.
LEMMA EditedSound ==
    ASSUME FilesInv, edit # <<>>, edit[1].stage = "new"
    PROVE  LET e  == edit[1]
               st == Edited(Last[1].tables, e)
           IN  /\ st \in DescStates /\ st.nextFile = e.nextFile
               /\ st.tables \subseteq Named
               /\ SeqsOf(table, st.tables) = SeqsOf(table, Last[1].tables) \cup SeqsOf(table, e.add)
               /\ \A n \in st.tables : n < st.nextFile
               /\ st.logNumber < st.nextFile /\ current < st.nextFile
               /\ \A x \in SeqsOf(table, st.tables) : x <= st.lastSeq
               /\ safe \subseteq SeqsOf(table, st.tables) \cup KeptFrom(log, st.logNumber)
               /\ acked \subseteq Found(st) /\ Found(st) \subseteq acked \cup doubtful
<1> DEFINE e == edit[1]  last == Last[1]  st == Edited(last.tables, e)  f == db.logfile
<1> USE DEF FilesInv
<1>1. /\ proc = "open" /\ TablesSound /\ Numbered /\ Stored /\ EditSound /\ db \in Fields
      /\ e \in Edit /\ In(edit) = {e} /\ Descs \subseteq DescStates /\ last \in Descs
      /\ last \in DescStates /\ Last = <<last>>
      /\ IsFlush(e) \/ SeqsOf(table, e.add) = SeqsOf(table, e.del)
      /\ SeqsOf(table, e.add) \subseteq acked /\ e.add \subseteq Named
  BY EditFacts
<1>2. StateSound(last) BY <1>1 DEF DescsSound
<1>3. /\ st.tables = (last.tables \ e.del) \cup e.add /\ st.logNumber = e.logNumber
      /\ st.nextFile = e.nextFile /\ st.lastSeq = e.lastSeq
  BY DEF Edited, DescState
<1>4. st \in DescStates BY <1>1 DEF Edited, DescState, DescStates, Edit, Numbers
<1> HIDE DEF st
<1>5. last.tables \subseteq Named BY <1>1, DescTablesNamed
<1>6. SeqsOf(table, st.tables) = SeqsOf(table, last.tables) \cup SeqsOf(table, e.add)
  BY <1>1, <1>3, EditedSeqs
<1>7. last.nextFile <= e.nextFile /\ last.lastSeq <= e.lastSeq BY <1>1 DEF EditSound
<1>8. \A n \in st.tables : n < e.nextFile
  <2> TAKE n \in st.tables
  <2>1. CASE n \in e.add BY <1>1, <2>1 DEF EditSound
  <2>2. CASE n \in last.tables
    <3>1. n < last.nextFile BY <1>2, <2>2 DEF StateSound
    <3>2. n \in Nat /\ last.nextFile \in Nat /\ e.nextFile \in Nat
      BY <1>1, <2>2 DEF DescStates, Numbers, Edit
    <3> QED BY <1>7, <3>1, <3>2
  <2> QED BY <1>3, <2>1, <2>2
<1>9. e.logNumber < e.nextFile BY <1>1 DEF EditSound
<1>10. current < e.nextFile
  <2>1. current < last.nextFile BY <1>2 DEF StateSound
  <2>2. current \in Nat /\ last.nextFile \in Nat /\ e.nextFile \in Nat
    BY <1>1 DEF DescStates, Edit, FilesTypeOK
  <2> QED BY <1>7, <2>1, <2>2
<1>11. \A x \in SeqsOf(table, st.tables) : x <= e.lastSeq
  <2> TAKE x \in SeqsOf(table, st.tables)
  <2>1. CASE x \in SeqsOf(table, e.add) BY <1>1, <2>1 DEF EditSound
  <2>2. CASE x \in SeqsOf(table, last.tables)
    <3>1. x <= last.lastSeq BY <1>2, <2>2 DEF StateSound
    <3>2. x \in Nat
      <4>1. x \in Found(last) BY <2>2 DEF Found
      <4>2. x \in acked \cup doubtful BY <1>1, <1>2, <4>1 DEF StateSound, Ready
      <4> QED BY <4>2 DEF FilesTypeOK, Numbers
    <3>3. last.lastSeq \in Nat /\ e.lastSeq \in Nat BY <1>1 DEF DescStates, Edit
    <3> QED BY <1>7, <3>1, <3>2, <3>3
  <2> QED BY <1>6, <2>1, <2>2
<1>12. SeqsOf(table, db.tables) \subseteq SeqsOf(table, st.tables)
       /\ SeqsOf(table, e.add) \subseteq SeqsOf(table, st.tables)
  BY <1>1, <1>6 DEF Stored
<1>13. f \in DOMAIN log /\ f \in Nat /\ db.logNumber \in Nat /\ f >= f /\ f >= db.logNumber
       /\ DOMAIN log \subseteq Nat /\ db.logNumber <= f
  BY <1>1 DEF Numbered, Fields, FilesTypeOK
<1>14. /\ db.mem \subseteq LoggedFrom(log, f) /\ Kept(log[f]) \subseteq KeptFrom(log, f)
       /\ LoggedFrom(log, f) \subseteq LoggedFrom(log, db.logNumber)
  <2>1. db.mem \subseteq Range(log[f].recs) BY <1>1 DEF Stored
  <2>2. Range(log[f].recs) \subseteq LoggedFrom(log, f) /\ Kept(log[f]) \subseteq KeptFrom(log, f)
    BY <1>13, InLogged
  <2> QED BY <1>13, <2>1, <2>2, LogsLater
<1>15. /\ safe \subseteq SeqsOf(table, st.tables) \cup KeptFrom(log, e.logNumber)
       /\ acked \subseteq SeqsOf(table, st.tables) \cup LoggedFrom(log, e.logNumber)
       /\ LoggedFrom(log, e.logNumber) \subseteq acked \cup doubtful
  <2>1. CASE IsFlush(e)
    <3>1. e.logNumber = f /\ db.imm # <<>> /\ SeqsOf(table, e.add) = db.imm[1]
      BY <1>1, <2>1 DEF EditSound
    <3>2. Waiting = SeqsOf(table, e.add) BY <3>1 DEF Waiting, In
    <3> QED BY <1>1, <1>12, <1>14, <3>1, <3>2 DEF Stored
  <2>2. CASE ~IsFlush(e)
    <3>1. e.logNumber = db.logNumber BY <1>1, <2>2 DEF EditSound
    <3> QED BY <1>1, <1>12, <1>14, <3>1 DEF Stored
  <2> QED BY <2>1, <2>2
<1>16. SeqsOf(table, st.tables) \subseteq acked \cup doubtful
  <2>1. SeqsOf(table, last.tables) \subseteq acked \cup doubtful
    BY <1>1, <1>2 DEF StateSound, Ready, Found
  <2> QED BY <1>1, <1>6, <2>1
<1>17. Found(st) = SeqsOf(table, st.tables) \cup LoggedFrom(log, e.logNumber)
  BY <1>3 DEF Found
<1>18. st.tables \subseteq Named BY <1>1, <1>3, <1>5
<1> QED
  BY <1>3, <1>4, <1>6, <1>8, <1>9, <1>10, <1>11, <1>15, <1>16, <1>17, <1>18 DEF st

\* The record of an edit, synced or not, leads to the same writes as the state
\* before it.
LEMMA LogEditKeeps ==
    ASSUME FilesInv, LogEdit
    PROVE  FilesInv'
<1> DEFINE e == edit[1]  st == Edited(Last[1].tables, e)  n == [e EXCEPT !.stage = "logged"]
           m == manifest[current]
<1> USE DEF FilesInv
<1>1. /\ edit # <<>> /\ e.stage = "new" /\ edit' = <<n>>
      /\ UNCHANGED <<log, table, current, proc, db, readers, bg, comp, acked, safe, doubtful>>
      /\ manifest' = [manifest EXCEPT ![db.manifestNum].tail =
                         <<Edited(Unsynced(manifest[db.manifestNum])[1].tables, e)>>]
  BY DEF LogEdit, ghost
<1>2. /\ proc = "open" /\ TablesSound /\ Numbered /\ Stored /\ Described
      /\ WorkSound /\ EditSound /\ bg = <<>> /\ current # 0 /\ db \in Fields
      /\ e \in Edit /\ In(edit) = {e}
      /\ Descs \subseteq DescStates /\ Last[1] \in Descs /\ Last = <<Last[1]>>
      /\ m \in Manifest /\ current \in DOMAIN manifest /\ m.synced # <<>>
      /\ m.synced = <<m.synced[1]>> /\ m.synced[1] \in Descs
      /\ e.add \subseteq Named
  BY <1>1, EditFacts
<1>3. /\ st \in DescStates /\ st.nextFile = e.nextFile /\ st.tables \subseteq Named
      /\ SeqsOf(table, st.tables) = SeqsOf(table, Last[1].tables) \cup SeqsOf(table, e.add)
      /\ \A k \in st.tables : k < st.nextFile
      /\ st.logNumber < st.nextFile /\ current < st.nextFile
      /\ \A x \in SeqsOf(table, st.tables) : x <= st.lastSeq
      /\ safe \subseteq SeqsOf(table, st.tables) \cup KeptFrom(log, st.logNumber)
      /\ acked \subseteq Found(st) /\ Found(st) \subseteq acked \cup doubtful
  BY <1>1, EditedSound
<1>4. st.logNumber = e.logNumber /\ st.lastSeq = e.lastSeq BY DEF Edited, DescState
<1>5. /\ manifest' = [manifest EXCEPT ![current].tail = <<st>>]
      /\ manifest'[current] = [m EXCEPT !.tail = <<st>>]
  BY <1>1, <1>2 DEF Numbered, Last, FilesTypeOK
<1>6. /\ n \in Edit /\ n.stage = "logged" /\ n.add = e.add /\ n.del = e.del
      /\ n.logNumber = e.logNumber /\ n.nextFile = e.nextFile /\ n.lastSeq = e.lastSeq
  BY <1>2 DEF Edit
<1>7. edit' # <<>> /\ edit'[1] = n /\ In(edit') = {n} /\ edit' \in Opt(Edit)
  BY <1>1, <1>6, Filled, InOpt
<1> HIDE DEF st, n, m
<1>8. m.synced \in Opt(DescStates) BY <1>2 DEF Manifest
<1>9. /\ manifest'[current].synced = m.synced /\ manifest'[current].tail = <<st>>
      /\ manifest'[current] \in Manifest
  <2>1. <<st>> \in Opt(DescStates) BY <1>3, InOpt
  <2> QED BY <1>2, <1>5, <2>1 DEF Manifest
<1>10. Last' = <<st>> /\ Last'[1] = st /\ Last' # <<>> /\ Descs' = {m.synced[1], st}
  <2>1. <<st>> # <<>> /\ <<st>>[1] = st /\ In(<<st>>) = {st} BY Filled
  <2>2. Last' = <<st>> BY <1>1, <1>9, <2>1 DEF Last, Unsynced
  <2>3. In(m.synced) = {m.synced[1]} BY <1>2 DEF In
  <2> QED BY <1>1, <1>2, <1>9, <2>1, <2>2, <2>3 DEF Descs, Says
<1>11. FilesTypeOK'
  <2>1. manifest' \in [DOMAIN manifest' -> Manifest] /\ DOMAIN manifest' = DOMAIN manifest
    <3>1. [m EXCEPT !.tail = <<st>>] \in Manifest BY <1>5, <1>9
    <3>2. manifest' = [manifest EXCEPT ![current] = [m EXCEPT !.tail = <<st>>]] BY <1>5 DEF m
    <3> QED BY <1>2, <3>1, <3>2 DEF FilesTypeOK
  <2> QED BY <1>1, <1>7, <2>1 DEF FilesTypeOK
<1>12. Idle' /\ Replayed' /\ Begun' BY <1>1, <1>2 DEF Idle, Replayed, Begun
<1>13. Created' BY <1>1, <1>2, <1>9, <1>10 DEF Created
<1>14. DescsSound'
  <2> SUFFICES ASSUME NEW s \in Descs' PROVE (StateSound(s) /\ s.nextFile <= Last[1].nextFile)'
    BY DEF DescsSound
  <2>1. Found(s)' = Found(s) BY <1>1 DEF Found
  <2>2. CASE s = st
    <3>1. WholeIn(table, s.tables) BY <1>2, <1>3, <2>2 DEF TablesSound, WholeIn
    <3>2. s.nextFile <= s.nextFile BY <1>3, <2>2 DEF DescStates
    <3> QED BY <1>1, <1>3, <1>10, <2>1, <2>2, <3>1, <3>2 DEF StateSound
  <2>3. CASE s = m.synced[1]
    <3>1. StateSound(s) BY <1>2, <2>3 DEF DescsSound
    <3>2. s.nextFile <= st.nextFile BY <1>1, <1>2, <1>3, <2>3 DEF EditSound
    <3> QED BY <1>1, <1>2, <1>10, <2>1, <3>1, <3>2 DEF StateSound, Ready
  <2> QED BY <1>10, <2>2, <2>3
<1>15. \A k \in Named' : k \in Named
  <2>1. NewTables' = NewTables BY <1>2, <1>6, <1>7 DEF NewTables
  <2>2. BaseTables' = BaseTables BY <1>1 DEF BaseTables
  <2>3. \A k \in DescTables' : k \in Named
    <3>1. \A k \in DescTables' : k \in m.synced[1].tables \/ k \in st.tables
      BY <1>10 DEF DescTables
    <3> QED BY <1>2, <1>3, <3>1, DescTablesNamed
  <2> QED BY <1>1, <2>1, <2>2, <2>3 DEF Named
<1>16. Writing' = Writing
  <2>1. IsFlush(n) <=> IsFlush(e) BY <1>6 DEF IsFlush
  <2> QED BY <1>1, <1>7, <2>1 DEF Writing, Compacted
<1>17. TablesSound' BY <1>1, <1>2, <1>15, <1>16 DEF TablesSound, WholeIn
<1>18. e.nextFile <= db.nextFile /\ e.lastSeq <= db.lastSeq /\ e.logNumber <= db.logfile
  BY <1>2 DEF EditSound
<1>19. Numbered'
  BY <1>1, <1>2, <1>3, <1>4, <1>9, <1>10, <1>18 DEF Numbered
<1>20. SeqsOf(table, db.tables) \subseteq SeqsOf(table, st.tables)
  BY <1>2, <1>3 DEF Stored
<1>21. Stored' BY <1>1, <1>2, <1>10, <1>20 DEF Stored, Waiting
<1>22. Described'
  <2> SUFFICES ASSUME ~db.error
               PROVE  SameVersion(m.synced[1]) /\ st = Edited(db.tables, n)
    BY <1>1, <1>6, <1>7, <1>9 DEF Described, SameVersion
  <2>1. SameVersion(m.synced[1]) /\ m.tail = <<>> BY <1>1, <1>2 DEF Described, m
  <2>2. Last[1].tables = db.tables BY <2>1 DEF Last, Unsynced, SameVersion, m
  <2> QED BY <1>6, <2>1, <2>2 DEF st, Edited
<1>23. WorkSound' BY <1>1, <1>2 DEF WorkSound
<1>24. EditSound'
  <2>1. SeqsOf(table, db.tables \cup e.add) \subseteq SeqsOf(table, st.tables)
    BY <1>3, <1>20, SeqsOfSets
  <2>2. IsFlush(n) <=> IsFlush(e) BY <1>6 DEF IsFlush
  <2>3. /\ \A k \in e.add : k < e.nextFile
        /\ e.nextFile <= db.nextFile /\ e.lastSeq <= db.lastSeq
        /\ e.logNumber < e.nextFile /\ e.logNumber <= db.logfile
        /\ \A x \in SeqsOf(table, e.add) : x <= e.lastSeq
        /\ IsFlush(e) => /\ e.logNumber = db.logfile /\ db.imm # <<>>
                         /\ SeqsOf(table, e.add) = db.imm[1]
        /\ ~IsFlush(e) => /\ e.logNumber = db.logNumber
                          /\ comp # <<>> /\ e.del = comp[1].ins /\ e.add = {comp[1].out}
                          /\ SeqsOf(table, e.add) = SeqsOf(table, e.del)
    BY <1>2 DEF EditSound
  <2> HIDE DEF e
  <2> QED BY <1>1, <1>6, <1>7, <1>10, <2>1, <2>2, <2>3 DEF EditSound
<1> QED
  BY <1>11, <1>12, <1>13, <1>14, <1>17, <1>19, <1>21, <1>22, <1>23, <1>24 DEF Running

\* Its sync leaves the newer state only.
LEMMA SyncEditKeeps ==
    ASSUME FilesInv, SyncEdit
    PROVE  FilesInv'
<1> DEFINE e == edit[1]  st == Last[1]  n == [e EXCEPT !.stage = "synced"]
           m == manifest[current]  d == [synced |-> Last, tail |-> <<>>]
<1> USE DEF FilesInv
<1>1. /\ edit # <<>> /\ e.stage = "logged" /\ edit' = <<n>>
      /\ UNCHANGED <<log, table, current, proc, db, readers, bg, comp, acked, safe, doubtful>>
      /\ manifest' = [manifest EXCEPT ![db.manifestNum] = [synced |-> Unsynced(@), tail |-> <<>>]]
  BY DEF SyncEdit, SyncManifest, ghost
<1>2. /\ proc = "open" /\ TablesSound /\ Numbered /\ Stored /\ Described
      /\ WorkSound /\ EditSound /\ bg = <<>> /\ current # 0 /\ db \in Fields
      /\ e \in Edit /\ In(edit) = {e}
      /\ Descs \subseteq DescStates /\ st \in Descs /\ Last = <<st>>
      /\ m \in Manifest /\ current \in DOMAIN manifest
  BY <1>1, EditFacts
<1>3. manifest' = [manifest EXCEPT ![current] = d] /\ manifest'[current] = d
  BY <1>1, <1>2 DEF Numbered, Last, FilesTypeOK
<1>4. /\ n \in Edit /\ n.stage = "synced" /\ n.add = e.add /\ n.del = e.del
      /\ n.logNumber = e.logNumber /\ n.nextFile = e.nextFile /\ n.lastSeq = e.lastSeq
  BY <1>2 DEF Edit
<1>5. edit' # <<>> /\ edit'[1] = n /\ In(edit') = {n} /\ edit' \in Opt(Edit)
  BY <1>1, <1>4, Filled, InOpt
<1>6. st \in DescStates /\ Last # <<>> /\ In(Last) = {st} BY <1>2, Filled
<1>7. d \in Manifest /\ d.synced = Last /\ d.tail = <<>> /\ In(d.tail) = {}
  BY <1>2, <1>6, InOpt DEF Manifest, In
<1> HIDE DEF st, n, d
<1>8. Last' = Last /\ Descs' = {st}
  <2>1. Last' = Last BY <1>1, <1>3, <1>7 DEF Last, Unsynced
  <2> QED BY <1>1, <1>2, <1>3, <1>6, <1>7, <2>1 DEF Descs, Says
<1>9. FilesTypeOK'
  <2>1. manifest' \in [DOMAIN manifest' -> Manifest] /\ DOMAIN manifest' = DOMAIN manifest
    BY <1>3, <1>7 DEF FilesTypeOK
  <2> QED BY <1>1, <1>5, <2>1 DEF FilesTypeOK
<1>10. Idle' /\ Replayed' /\ Begun' BY <1>1, <1>2 DEF Idle, Replayed, Begun
<1>11. Created' BY <1>1, <1>2, <1>3, <1>6, <1>7, <1>8 DEF Created
<1>12. DescsSound'
  <2> SUFFICES ASSUME NEW s \in Descs' PROVE (StateSound(s) /\ s.nextFile <= Last[1].nextFile)'
    BY DEF DescsSound
  <2>1. StateSound(s) /\ s.nextFile <= Last[1].nextFile BY <1>2, <1>8 DEF DescsSound
  <2>2. Found(s)' = Found(s) BY <1>1 DEF Found
  <2> QED BY <1>1, <1>2, <1>8, <2>1, <2>2 DEF StateSound, Ready
<1>13. \A k \in Named' : k \in Named
  <2>1. NewTables' = NewTables BY <1>2, <1>4, <1>5 DEF NewTables
  <2>2. BaseTables' = BaseTables BY <1>1 DEF BaseTables
  <2>3. \A k \in DescTables' : k \in DescTables BY <1>2, <1>8 DEF DescTables
  <2> QED BY <1>1, <2>1, <2>2, <2>3 DEF Named
<1>14. IsFlush(n) <=> IsFlush(e) BY <1>4 DEF IsFlush
<1>15. Writing' = Writing BY <1>1, <1>5, <1>14 DEF Writing, Compacted
<1>16. TablesSound' BY <1>1, <1>2, <1>13, <1>15 DEF TablesSound, WholeIn
<1>17. Numbered' BY <1>1, <1>2, <1>3, <1>6, <1>7, <1>8 DEF Numbered
<1>18. Stored' BY <1>1, <1>2, <1>8 DEF Stored, Waiting
<1>19. Described'
  <2> SUFFICES ASSUME ~db.error PROVE Last = <<Edited(db.tables, n)>>
    BY <1>1, <1>3, <1>4, <1>5, <1>7 DEF Described
  <2>1. m.tail = <<Edited(db.tables, e)>> BY <1>1, <1>2 DEF Described, m
  <2>2. Last = m.tail BY <2>1, Filled DEF Last, Unsynced, m
  <2> QED BY <1>4, <2>1, <2>2 DEF Edited
<1>20. WorkSound' BY <1>1, <1>2 DEF WorkSound
<1>21. EditSound'
  <2>1. /\ \A k \in e.add : k < e.nextFile
        /\ e.nextFile <= db.nextFile /\ e.lastSeq <= db.lastSeq
        /\ e.logNumber < e.nextFile /\ e.logNumber <= db.logfile
        /\ \A x \in SeqsOf(table, e.add) : x <= e.lastSeq
        /\ IsFlush(e) => /\ e.logNumber = db.logfile /\ db.imm # <<>>
                         /\ SeqsOf(table, e.add) = db.imm[1]
        /\ ~IsFlush(e) => /\ e.logNumber = db.logNumber
                          /\ comp # <<>> /\ e.del = comp[1].ins /\ e.add = {comp[1].out}
                          /\ SeqsOf(table, e.add) = SeqsOf(table, e.del)
        /\ SeqsOf(table, db.tables \cup e.add) \subseteq SeqsOf(table, Last[1].tables)
    BY <1>1, <1>2 DEF EditSound
  <2> HIDE DEF e
  <2> QED BY <1>1, <1>3, <1>4, <1>5, <1>7, <1>8, <1>14, <2>1 DEF EditSound
<1> QED
  BY <1>9, <1>10, <1>11, <1>12, <1>16, <1>17, <1>18, <1>19, <1>20, <1>21 DEF Running

\* After an error either state may come back, so both must stay sound.
LEMMA EditErrorKeeps ==
    ASSUME FilesInv, EditError
    PROVE  FilesInv'
<1> DEFINE e == edit[1]  m == manifest[current]
<1> USE DEF FilesInv
<1>1. /\ edit # <<>> /\ e.stage = "logged" /\ edit' = <<>>
      /\ manifest' = manifest \/ manifest' = [manifest EXCEPT ![db.manifestNum].tail = <<>>]
      /\ db' = [db EXCEPT !.error = TRUE, !.pending = @ \ e.add]
      /\ comp' = IF IsFlush(e) THEN comp ELSE <<>>
      /\ UNCHANGED <<log, table, current, proc, readers, bg, acked, safe, doubtful>>
  BY DEF EditError, ghost
<1>2. /\ proc = "open" /\ TablesSound /\ Numbered /\ Stored
      /\ WorkSound /\ EditSound /\ bg = <<>> /\ current # 0 /\ db \in Fields
      /\ e \in Edit /\ In(edit) = {e}
      /\ Descs \subseteq DescStates /\ Last[1] \in Descs /\ Last = <<Last[1]>>
      /\ m \in Manifest /\ current \in DOMAIN manifest /\ m.synced # <<>>
      /\ m.synced = <<m.synced[1]>> /\ m.synced[1] \in Descs
  BY <1>1, EditFacts
<1>3. /\ db' \in Fields /\ db'.nextFile = db.nextFile
      /\ db'.pending = db.pending \ e.add /\ db'.error
      /\ db'.tables = db.tables /\ db'.logNumber = db.logNumber /\ db'.lastSeq = db.lastSeq
      /\ db'.manifestNum = db.manifestNum /\ db'.logfile = db.logfile /\ db'.mem = db.mem
      /\ db'.imm = db.imm
  <2>1. db.pending \ e.add \in Numbers BY <1>2 DEF Fields, Numbers
  <2> QED BY <1>1, <1>2, <2>1 DEF Fields
<1>4. \/ manifest' = manifest
      \/ manifest' = [manifest EXCEPT ![current] = [m EXCEPT !.tail = <<>>]]
  BY <1>1, <1>2 DEF Numbered
<1>5. /\ manifest' \in [DOMAIN manifest' -> Manifest] /\ DOMAIN manifest' = DOMAIN manifest
      /\ manifest'[current].synced = m.synced
      /\ manifest'[current].tail = m.tail \/ manifest'[current].tail = <<>>
  <2>1. [m EXCEPT !.tail = <<>>] \in Manifest BY <1>2 DEF Manifest, Opt
  <2>2. [m EXCEPT !.tail = <<>>].synced = m.synced /\ [m EXCEPT !.tail = <<>>].tail = <<>>
    BY <1>2 DEF Manifest
  <2> HIDE DEF m
  <2>3. m = manifest[current] BY DEF m
  <2> QED BY <1>2, <1>4, <2>1, <2>2, <2>3 DEF FilesTypeOK
<1> HIDE DEF m
<1>6. \/ Descs' = Descs /\ Last' = Last
      \/ Descs' = {m.synced[1]} /\ Last' = m.synced
  <2>1. m.synced \in Opt(DescStates) /\ In(m.synced) = {m.synced[1]} /\ In(<<>>) = {}
    BY <1>2 DEF Manifest, In
  <2>2. CASE manifest'[current].tail = m.tail
    BY <1>1, <1>5, <2>2 DEF Descs, Says, Last, Unsynced, m
  <2>3. CASE manifest'[current].tail = <<>>
    BY <1>1, <1>2, <1>5, <2>1, <2>3 DEF Descs, Says, Last, Unsynced
  <2> QED BY <1>5, <2>2, <2>3
<1>7. Descs' \subseteq Descs /\ Last' # <<>> /\ Last'[1] \in Descs'
  <2>1. Last # <<>> /\ m.synced # <<>> BY <1>2, Filled
  <2> QED BY <1>2, <1>6, <2>1
<1>8. \A s \in Descs' : s.nextFile <= Last'[1].nextFile
  <2>1. m.synced[1].nextFile <= m.synced[1].nextFile BY <1>2 DEF DescStates
  <2> QED BY <1>6, <2>1 DEF DescsSound
<1>9. FilesTypeOK'
  <2>1. comp' \in Opt(Compaction) /\ edit' \in Opt(Edit) BY <1>1 DEF FilesTypeOK, Opt
  <2> QED BY <1>1, <1>3, <1>5, <2>1 DEF FilesTypeOK
<1>10. Idle' /\ Replayed' /\ Begun' BY <1>1, <1>2 DEF Idle, Replayed, Begun
<1>11. Created' BY <1>1, <1>2, <1>5, <1>7 DEF Created
<1>12. DescsSound'
  <2> SUFFICES ASSUME NEW s \in Descs' PROVE (StateSound(s) /\ s.nextFile <= Last[1].nextFile)'
    BY DEF DescsSound
  <2>1. StateSound(s) BY <1>7 DEF DescsSound
  <2>2. Found(s)' = Found(s) BY <1>1 DEF Found
  <2> QED BY <1>1, <1>2, <1>8, <2>1, <2>2 DEF StateSound, Ready
<1>13. \A k \in Named' : k \in Named
  <2>1. NewTables' = {} BY <1>1 DEF NewTables, In
  <2>2. \A k \in BaseTables' : k \in BaseTables BY <1>1 DEF BaseTables, In
  <2>3. \A k \in DescTables' : k \in DescTables BY <1>7 DEF DescTables
  <2> QED BY <1>1, <1>3, <2>1, <2>2, <2>3 DEF Named
<1>14. Writing' \subseteq Writing
  <2>1. In(bg') = {} /\ In(<<>>) = {} BY <1>1, <1>2 DEF In
  <2>2. CASE IsFlush(e) BY <1>1, <2>2 DEF Writing, Compacted
  <2>3. CASE ~IsFlush(e) BY <1>1, <2>1, <2>3 DEF Writing, Compacted
  <2> QED BY <2>2, <2>3
<1>15. TablesSound'
  <2>1. \A k \in e.add : k \in Named BY <1>1, EditFacts
  <2>2. Writing' \subseteq db'.pending /\ Writing' \cap Named' = {}
    BY <1>2, <1>3, <1>13, <1>14, <2>1 DEF TablesSound
  <2>3. WholeIn(table', Named') BY <1>1, <1>2, <1>13 DEF TablesSound, WholeIn
  <2>4. \A k \in Named' \cup db'.pending : k < db'.nextFile BY <1>2, <1>3, <1>13 DEF TablesSound
  <2> QED BY <2>2, <2>3, <2>4 DEF TablesSound
<1>16. Numbered' BY <1>1, <1>2, <1>3, <1>5, <1>7 DEF Numbered
<1>17. Stored' BY <1>1, <1>2, <1>3, <1>7 DEF Stored, Waiting
<1>18. Described' BY <1>3 DEF Described
<1>19. WorkSound' BY <1>1, <1>2, <1>3 DEF WorkSound
<1>20. EditSound' BY <1>1 DEF EditSound, In
<1> QED
  BY <1>9, <1>10, <1>11, <1>12, <1>15, <1>16, <1>17, <1>18, <1>19, <1>20 DEF Running

-----------------------------------------------------------------------------
(* Deleting files. *)

\* What DeleteObsoleteFiles leaves.
LEMMA FilesLeft ==
    ASSUME FilesTypeOK, DeleteObsoleteFiles
    PROVE  /\ log' \in [DOMAIN log' -> LogFile] /\ DOMAIN log' \subseteq DOMAIN log
           /\ table' \in [DOMAIN table' -> TableFile] /\ DOMAIN table' \subseteq DOMAIN table
           /\ manifest' \in [DOMAIN manifest' -> Manifest] /\ DOMAIN manifest' \subseteq DOMAIN manifest
           /\ \A n \in DOMAIN log' : log'[n] = log[n]
           /\ \A n \in DOMAIN log : n >= db'.logNumber => n \in DOMAIN log'
           /\ \A n \in DOMAIN table' : table'[n] = table[n]
           /\ \A n \in DOMAIN table : n \in LiveTables => n \in DOMAIN table'
           /\ \A n \in DOMAIN manifest' : manifest'[n] = manifest[n]
           /\ \A n \in DOMAIN manifest : n >= db'.manifestNum => n \in DOMAIN manifest'
           /\ db'.error => log' = log /\ table' = table /\ manifest' = manifest
<1>1. CASE db'.error
  <2>1. log' = log /\ table' = table /\ manifest' = manifest BY <1>1 DEF DeleteObsoleteFiles
  <2> QED BY <2>1 DEF FilesTypeOK
<1>2. CASE ~db'.error
  <2>1. /\ log' = [n \in {k \in DOMAIN log : k >= db'.logNumber} |-> log[n]]
        /\ table' = [n \in DOMAIN table \cap LiveTables |-> table[n]]
        /\ manifest' = [n \in {k \in DOMAIN manifest : k >= db'.manifestNum} |-> manifest[n]]
    BY <1>2 DEF DeleteObsoleteFiles, RestrictDomain, Restrict
  <2> HIDE DEF LiveTables
  <2>2. /\ log' \in [DOMAIN log' -> LogFile] /\ DOMAIN log' \subseteq DOMAIN log
        /\ \A n \in DOMAIN log' : log'[n] = log[n]
        /\ \A n \in DOMAIN log : n >= db'.logNumber => n \in DOMAIN log'
    BY <2>1 DEF FilesTypeOK
  <2>3. /\ table' \in [DOMAIN table' -> TableFile] /\ DOMAIN table' \subseteq DOMAIN table
        /\ \A n \in DOMAIN table' : table'[n] = table[n]
        /\ \A n \in DOMAIN table : n \in LiveTables => n \in DOMAIN table'
    BY <2>1 DEF FilesTypeOK
  <2>4. /\ manifest' \in [DOMAIN manifest' -> Manifest] /\ DOMAIN manifest' \subseteq DOMAIN manifest
        /\ \A n \in DOMAIN manifest' : manifest'[n] = manifest[n]
        /\ \A n \in DOMAIN manifest : n >= db'.manifestNum => n \in DOMAIN manifest'
    BY <2>1 DEF FilesTypeOK
  <2> QED BY <1>2, <2>2, <2>3, <2>4
<1> QED BY <1>1, <1>2

\* The version installed is the one the descriptor has, so what is deleted is
\* needed by neither.
LEMMA ApplyEditKeeps ==
    ASSUME FilesInv, ApplyEdit
    PROVE  FilesInv'
<1> DEFINE e == edit[1]  st == Last[1]  m == manifest[current]
<1> USE DEF FilesInv
<1>1. /\ edit # <<>> /\ e.stage = "synced" /\ edit' = <<>>
      /\ db' = [db EXCEPT !.tables = (db.tables \ e.del) \cup e.add, !.logNumber = e.logNumber,
                          !.pending = @ \ e.add, !.imm = IF IsFlush(e) THEN <<>> ELSE @]
      /\ comp' = (IF IsFlush(e) THEN comp ELSE <<>>)
      /\ DeleteObsoleteFiles
      /\ UNCHANGED <<current, proc, readers, bg, acked, safe, doubtful>>
  BY DEF ApplyEdit, Edited, DescState, ghost
<1>2. /\ proc = "open" /\ TablesSound /\ Numbered /\ Stored /\ Described
      /\ WorkSound /\ EditSound /\ bg = <<>> /\ current # 0 /\ db \in Fields
      /\ e \in Edit /\ In(edit) = {e}
      /\ Descs \subseteq DescStates /\ st \in Descs /\ Last = <<st>>
      /\ m \in Manifest /\ current \in DOMAIN manifest /\ m.synced # <<>>
      /\ m.synced = <<m.synced[1]>> /\ e.add \subseteq Named
  BY <1>1, EditFacts
<1>3. /\ m.tail = <<>> /\ e.logNumber \in Nat /\ e.logNumber <= db.logfile
      /\ IsFlush(e) => e.logNumber = db.logfile /\ db.imm # <<>> /\ SeqsOf(table, e.add) = db.imm[1]
      /\ ~IsFlush(e) => /\ e.logNumber = db.logNumber /\ comp # <<>> /\ e.del = comp[1].ins
                        /\ SeqsOf(table, e.add) = SeqsOf(table, e.del)
      /\ SeqsOf(table, db.tables \cup e.add) \subseteq SeqsOf(table, st.tables)
  BY <1>1, <1>2 DEF EditSound, Edit
<1>4. /\ db' \in Fields /\ db'.tables = (db.tables \ e.del) \cup e.add
      /\ db'.logNumber = e.logNumber /\ db'.pending = db.pending \ e.add
      /\ db'.imm = (IF IsFlush(e) THEN <<>> ELSE db.imm) /\ db'.error = db.error
      /\ db'.nextFile = db.nextFile /\ db'.lastSeq = db.lastSeq /\ db'.mem = db.mem
      /\ db'.manifestNum = db.manifestNum /\ db'.logfile = db.logfile
  <2>1. /\ (db.tables \ e.del) \cup e.add \in Numbers /\ db.pending \ e.add \in Numbers
        /\ (IF IsFlush(e) THEN <<>> ELSE db.imm) \in Opt(Numbers)
    BY <1>2 DEF Fields, Edit, Numbers, Opt
  <2> QED BY <1>1, <1>2, <1>3, <2>1 DEF Fields
<1>5. ~db.error => /\ st.tables = (db.tables \ e.del) \cup e.add /\ st.logNumber = e.logNumber
  BY <1>1, <1>2, <1>3, Filled DEF Described, Last, Unsynced, Edited, DescState
<1>6. /\ log' \in [DOMAIN log' -> LogFile] /\ DOMAIN log' \subseteq DOMAIN log
      /\ table' \in [DOMAIN table' -> TableFile] /\ DOMAIN table' \subseteq DOMAIN table
      /\ manifest' \in [DOMAIN manifest' -> Manifest] /\ DOMAIN manifest' \subseteq DOMAIN manifest
      /\ \A n \in DOMAIN log' : log'[n] = log[n]
      /\ \A n \in DOMAIN log : n >= e.logNumber => n \in DOMAIN log'
      /\ \A n \in DOMAIN table' : table'[n] = table[n]
      /\ \A n \in DOMAIN table : n \in LiveTables => n \in DOMAIN table'
      /\ \A n \in DOMAIN manifest' : manifest'[n] = manifest[n]
      /\ \A n \in DOMAIN manifest : n >= db.manifestNum => n \in DOMAIN manifest'
      /\ db.error => log' = log /\ table' = table /\ manifest' = manifest
  BY <1>1, <1>4, FilesLeft
<1>7. current \in DOMAIN manifest' /\ manifest'[current] = m
  <2>1. current = db.manifestNum /\ current \in Nat BY <1>2 DEF Numbered, FilesTypeOK
  <2>2. current >= db.manifestNum BY <2>1
  <2> QED BY <1>2, <1>6, <2>2
<1>8. Last' = Last /\ Descs' = Descs /\ Descs = {st}
  <2>1. Last' = Last /\ Descs' = Descs BY <1>1, <1>7 DEF Last, Descs, Says
  <2>2. Last = m.synced /\ In(m.tail) = {} BY <1>3 DEF Last, Unsynced, In
  <2>3. In(m.synced) = {st} BY <1>2, <2>2, Filled
  <2> QED BY <1>2, <2>1, <2>2, <2>3 DEF Descs, Says
<1> HIDE DEF m, st
<1>9. \A n \in Named' : n \in Named
  <2>1. NewTables' = {} BY <1>1 DEF NewTables, In
  <2>2. \A n \in BaseTables' : n \in BaseTables BY <1>1 DEF BaseTables, In
  <2>3. DescTables' = DescTables BY <1>8 DEF DescTables
  <2>4. \A n \in db'.tables : n \in Named BY <1>2, <1>4, InNamed
  <2> QED BY <1>1, <2>1, <2>2, <2>3, <2>4 DEF Named
<1>10. \A n \in Named' : n \in DOMAIN table' /\ table'[n] = table[n]
  <2> SUFFICES ASSUME NEW n \in Named' PROVE n \in DOMAIN table' BY <1>6
  <2>1. n \in DOMAIN table BY <1>2, <1>9 DEF TablesSound, WholeIn
  <2>2. CASE db.error BY <1>6, <2>1, <2>2
  <2>3. CASE ~db.error
    <3>1. NewTables' = {} BY <1>1 DEF NewTables, In
    <3>2. \A k \in BaseTables' : comp' # <<>> /\ k \in comp'[1].base BY DEF BaseTables, In
    <3>3. \A k \in DescTables' : k \in db'.tables BY <1>4, <1>5, <1>8, <2>3 DEF DescTables
    <3>4. n \in LiveTables BY <1>1, <3>1, <3>2, <3>3 DEF Named, LiveTables
    <3> QED BY <1>6, <2>1, <3>4
  <2> QED BY <2>2, <2>3
<1>11. /\ db'.tables \subseteq Named' /\ st.tables \subseteq Named'
  <2>1. st.tables \subseteq DescTables' BY <1>8 DEF DescTables
  <2> QED BY <2>1 DEF Named
<1>12. /\ SeqsOf(table', db'.tables) = SeqsOf(table, db'.tables)
       /\ SeqsOf(table', st.tables) = SeqsOf(table, st.tables)
  <2>1. \A n \in db'.tables : table'[n] = table[n] BY <1>10, <1>11
  <2>2. \A n \in st.tables : table'[n] = table[n] BY <1>10, <1>11
  <2>3. SeqsOf(table', db'.tables) = SeqsOf(table, db'.tables) BY <2>1, SeqsSame
  <2> QED BY <2>2, <2>3, SeqsSame
<1>13. /\ LoggedFrom(log', e.logNumber) = LoggedFrom(log, e.logNumber)
       /\ KeptFrom(log', e.logNumber) = KeptFrom(log, e.logNumber)
  BY <1>6, LogsSame
<1>14. /\ LoggedFrom(log', st.logNumber) = LoggedFrom(log, st.logNumber)
       /\ KeptFrom(log', st.logNumber) = KeptFrom(log, st.logNumber)
  BY <1>5, <1>6, <1>13
<1>15. FilesTypeOK'
  <2>1. comp' \in Opt(Compaction) /\ edit' \in Opt(Edit) BY <1>1 DEF FilesTypeOK, Opt
  <2>2. \A n \in DOMAIN log' : log'[n].synced <= Len(log'[n].recs) BY <1>6 DEF FilesTypeOK
  <2> QED BY <1>1, <1>4, <1>6, <1>7, <2>1, <2>2 DEF FilesTypeOK
<1>16. Idle' /\ Replayed' /\ Begun' BY <1>1, <1>2 DEF Idle, Replayed, Begun
<1>17. Created' BY <1>1, <1>2, <1>7, <1>8, Filled DEF Created
<1>18. DescsSound'
  <2> SUFFICES ASSUME NEW s \in Descs' PROVE (StateSound(s) /\ s.nextFile <= Last[1].nextFile)'
    BY DEF DescsSound
  <2>1. s = st /\ StateSound(s) /\ s.nextFile <= Last[1].nextFile BY <1>8 DEF DescsSound
  <2>2. Found(s)' = Found(s) BY <1>12, <1>14, <2>1 DEF Found
  <2>3. WholeIn(table', s.tables) BY <1>10, <1>11, <2>1 DEF StateSound, WholeIn
  <2> QED BY <1>1, <1>2, <1>8, <1>12, <1>14, <2>1, <2>2, <2>3 DEF StateSound, Ready
<1>19. TablesSound'
  <2>1. WholeIn(table', Named') BY <1>2, <1>9, <1>10 DEF TablesSound, WholeIn
  <2>2. \A n \in Named' \cup db'.pending : n < db'.nextFile BY <1>2, <1>4, <1>9 DEF TablesSound
  <2>3. Writing' \subseteq Writing
    <3>1. In(bg') = {} /\ In(<<>>) = {} BY <1>1, <1>2 DEF In
    <3>2. CASE IsFlush(e) BY <1>1, <3>2 DEF Writing, Compacted
    <3>3. CASE ~IsFlush(e) BY <1>1, <3>1, <3>3 DEF Writing, Compacted
    <3> QED BY <3>2, <3>3
  <2>4. Writing' \subseteq db'.pending /\ Writing' \cap Named' = {}
    BY <1>2, <1>4, <1>9, <2>3 DEF TablesSound
  <2> QED BY <2>1, <2>2, <2>4 DEF TablesSound
<1>20. db.logfile \in DOMAIN log' /\ log'[db.logfile] = log[db.logfile]
  <2>1. db.logfile \in DOMAIN log /\ db.logfile \in Nat BY <1>2 DEF Numbered, Fields
  <2>2. db.logfile >= e.logNumber BY <1>3, <2>1
  <2> QED BY <1>6, <2>1, <2>2
<1>21. Numbered'
  BY <1>1, <1>2, <1>3, <1>4, <1>6, <1>7, <1>8, <1>20 DEF Numbered
<1>22. SeqsOf(table, db'.tables) = SeqsOf(table, db.tables) \cup SeqsOf(table, e.add)
  BY <1>3, <1>4, EditedSeqs
<1>23. db.logNumber <= e.logNumber /\ db.logNumber \in Nat
  BY <1>2, <1>3 DEF Numbered, Fields
<1>24. LoggedFrom(log, e.logNumber) \subseteq LoggedFrom(log, db.logNumber)
  BY <1>3, <1>23, LogsLater DEF FilesTypeOK
<1>25. Stored'
  <2>1. SeqsOf(table, db'.tables) \subseteq SeqsOf(table, st.tables)
    BY <1>3, <1>22, SeqsOfSets
  <2>2. CASE IsFlush(e)
    <3>1. Waiting = SeqsOf(table, e.add) /\ Waiting' = {} /\ e.logNumber = db.logfile
      <4>1. In(db.imm) = {db.imm[1]} BY <1>3, <2>2 DEF In
      <4>2. In(db'.imm) = {} BY <1>4, <2>2 DEF In
      <4> QED BY <1>3, <2>2, <4>1, <4>2 DEF Waiting
    <3>2. Kept(log[db.logfile]) \subseteq KeptFrom(log, e.logNumber)
      <4>1. db.logfile \in DOMAIN log /\ db.logfile >= e.logNumber
        BY <1>2, <3>1 DEF Numbered, Fields
      <4> QED BY <4>1, InLogged
    <3> QED BY <1>1, <1>2, <1>4, <1>8, <1>12, <1>13, <1>20, <1>22, <1>24, <2>1, <3>1, <3>2
            DEF Stored
  <2>3. CASE ~IsFlush(e)
    <3>1. Waiting' = Waiting /\ e.logNumber = db.logNumber BY <1>3, <1>4, <2>3 DEF Waiting
    <3>2. SeqsOf(table, e.add) \subseteq SeqsOf(table, db.tables)
      <4>1. e.del \subseteq db.tables BY <1>2, <1>3, <2>3 DEF WorkSound
      <4> QED BY <1>3, <2>3, <4>1, SeqsOfSets
    <3> QED BY <1>1, <1>2, <1>4, <1>8, <1>12, <1>13, <1>20, <1>22, <2>1, <3>1, <3>2
            DEF Stored
  <2> QED BY <2>2, <2>3
<1>26. Described'
  <2>1. m.synced = Last BY <1>3 DEF Last, Unsynced, m
  <2>2. m.synced[1] = st BY <2>1 DEF st
  <2>3. manifest'[current'].synced[1] = st /\ manifest'[current'].tail = <<>>
    BY <1>1, <1>3, <1>7, <2>2
  <2>4. ~db'.error => st.tables = db'.tables /\ st.logNumber = db'.logNumber BY <1>4, <1>5
  <2> QED BY <1>1, <2>3, <2>4, Filled DEF Described, SameVersion
<1>27. WorkSound'
  <2> SUFFICES ASSUME comp' # <<>>
               PROVE  comp'[1].ins \subseteq db'.tables /\ comp'[1].ins \subseteq comp'[1].base
                      /\ comp'[1].ins # {}
    BY <1>1, <1>2 DEF WorkSound
  <2>1. IsFlush(e) /\ comp' = comp BY <1>1
  <2> QED BY <1>2, <1>4, <2>1 DEF WorkSound, IsFlush
<1>28. EditSound' BY <1>1 DEF EditSound, In
<1> QED
  BY <1>15, <1>16, <1>17, <1>18, <1>19, <1>21, <1>25, <1>26, <1>27, <1>28 DEF Running

\* What is deleted at the end of opening is named by no state of the descriptor.
LEMMA OpenedKeeps ==
    ASSUME FilesInv, Opened
    PROVE  FilesInv'
<1> DEFINE st == Last[1]  m == manifest[current]
<1> USE DEF FilesInv
<1>1. /\ proc = "cleaning" /\ proc' = "open" /\ DeleteObsoleteFiles
      /\ UNCHANGED <<current, db, readers, bg, comp, edit, acked, safe, doubtful>>
      /\ db' = db /\ comp' = comp
  BY DEF Opened, mind, ghost
<1>2. /\ Running /\ TablesSound /\ Numbered /\ Stored /\ Described
      /\ readers = {} /\ bg = <<>> /\ comp = <<>> /\ edit = <<>> /\ ~db.error /\ db \in Fields
  BY <1>1 DEF Ready, Running, Idle, FilesTypeOK
<1>3. /\ current # 0 /\ Descs \subseteq DescStates /\ st \in Descs /\ Last = <<st>>
      /\ m \in Manifest /\ current \in DOMAIN manifest /\ m.synced # <<>>
      /\ m.synced = <<m.synced[1]>>
  BY <1>1, <1>2, OpenFacts, DescFacts DEF Numbered
<1>4. SameVersion(m.synced[1]) /\ m.tail = <<>> BY <1>2 DEF Described
<1>5. Last = m.synced /\ st.tables = db.tables /\ st.logNumber = db.logNumber /\ Descs = {st}
  <2>1. Last = m.synced BY <1>4 DEF Last, Unsynced
  <2>2. In(m.synced) = {st} /\ In(m.tail) = {} BY <1>3, <1>4, <2>1 DEF In
  <2> QED BY <1>3, <1>4, <2>1, <2>2 DEF SameVersion, Descs, Says
<1>6. /\ log' \in [DOMAIN log' -> LogFile] /\ DOMAIN log' \subseteq DOMAIN log
      /\ table' \in [DOMAIN table' -> TableFile] /\ DOMAIN table' \subseteq DOMAIN table
      /\ manifest' \in [DOMAIN manifest' -> Manifest] /\ DOMAIN manifest' \subseteq DOMAIN manifest
      /\ \A n \in DOMAIN log' : log'[n] = log[n]
      /\ \A n \in DOMAIN log : n >= db.logNumber => n \in DOMAIN log'
      /\ \A n \in DOMAIN table' : table'[n] = table[n]
      /\ \A n \in DOMAIN table : n \in LiveTables => n \in DOMAIN table'
      /\ \A n \in DOMAIN manifest' : manifest'[n] = manifest[n]
      /\ \A n \in DOMAIN manifest : n >= db.manifestNum => n \in DOMAIN manifest'
  BY <1>1, FilesLeft
<1>7. current \in DOMAIN manifest' /\ manifest'[current] = m
  <2>1. current = db.manifestNum /\ current \in Nat BY <1>2 DEF Numbered, FilesTypeOK
  <2>2. current >= db.manifestNum BY <2>1
  <2> QED BY <1>3, <1>6, <2>2
<1>8. Last' = Last /\ Descs' = Descs BY <1>1, <1>7 DEF Last, Descs, Says
<1> HIDE DEF m, st
<1>9. Named = db.tables /\ Named' = db.tables
  <2>1. /\ DescTables = db.tables /\ BaseTables = {} /\ NewTables = {}
        /\ DescTables' = db.tables /\ BaseTables' = {} /\ NewTables' = {}
    BY <1>1, <1>2, <1>5, <1>8 DEF DescTables, BaseTables, NewTables, In
  <2> QED BY <1>1, <1>2, <2>1 DEF Named
<1>10. \A n \in db.tables : n \in DOMAIN table' /\ table'[n] = table[n]
  BY <1>1, <1>2, <1>6, <1>9 DEF TablesSound, WholeIn, LiveTables
<1>11. SeqsOf(table', db.tables) = SeqsOf(table, db.tables) BY <1>10, SeqsSame
<1>12. /\ LoggedFrom(log', db.logNumber) = LoggedFrom(log, db.logNumber)
       /\ KeptFrom(log', db.logNumber) = KeptFrom(log, db.logNumber)
  BY <1>6, LogsSame
<1>13. FilesTypeOK'
  <2>1. \A n \in DOMAIN log' : log'[n].synced <= Len(log'[n].recs) BY <1>6 DEF FilesTypeOK
  <2> QED BY <1>1, <1>6, <1>7, <2>1 DEF FilesTypeOK
<1>14. Idle' /\ Replayed' /\ Begun' BY <1>1 DEF Idle, Replayed, Begun
<1>15. Created' BY <1>1, <1>3, <1>7, <1>8 DEF Created
<1>16. DescsSound'
  <2> SUFFICES ASSUME NEW s \in Descs' PROVE (StateSound(s) /\ s.nextFile <= Last[1].nextFile)'
    BY DEF DescsSound
  <2>1. s = st /\ StateSound(s) /\ s.nextFile <= Last[1].nextFile BY <1>5, <1>8 DEF DescsSound
  <2>2. Found(s)' = Found(s) BY <1>5, <1>11, <1>12, <2>1 DEF Found
  <2>3. WholeIn(table', s.tables) BY <1>5, <1>10, <2>1 DEF StateSound, WholeIn
  <2> QED BY <1>1, <1>5, <1>8, <1>11, <1>12, <2>1, <2>2, <2>3 DEF StateSound, Ready
<1>17. TablesSound'
  <2>1. Writing' = Writing BY <1>1 DEF Writing, Compacted
  <2>2. WholeIn(table', db.tables) BY <1>2, <1>9, <1>10 DEF TablesSound, WholeIn
  <2> QED BY <1>1, <1>2, <1>9, <2>1, <2>2 DEF TablesSound
<1>18. db.logfile \in DOMAIN log' /\ log'[db.logfile] = log[db.logfile]
  <2>1. db.logfile \in DOMAIN log /\ db.logfile >= db.logNumber BY <1>2 DEF Numbered, Fields
  <2> QED BY <1>6, <2>1
<1>19. Numbered' BY <1>1, <1>2, <1>6, <1>7, <1>8, <1>18 DEF Numbered
<1>20. Stored' BY <1>1, <1>2, <1>5, <1>8, <1>11, <1>12, <1>18 DEF Stored, Waiting
<1>21. Described' BY <1>1, <1>2, <1>4, <1>7 DEF Described, SameVersion
<1>22. WorkSound' /\ EditSound' BY <1>1, <1>2 DEF WorkSound, EditSound, In
<1> QED
  BY <1>13, <1>14, <1>15, <1>16, <1>17, <1>19, <1>20, <1>21, <1>22 DEF Running

-----------------------------------------------------------------------------
(* Opening. *)

\* A new store is empty.
LEMMA NewDBKeeps ==
    ASSUME FilesInv, NewDB
    PROVE  FilesInv'
<1> DEFINE st == DescState({}, 0, 2, 0)  m == [synced |-> <<>>, tail |-> <<st>>]
<1> USE DEF FilesInv
<1>1. /\ proc = "down" /\ current = 0 /\ manifest' = With(manifest, 1, m) /\ current' = 1
      /\ UNCHANGED <<log, table, proc, db, readers, bg, comp, edit, acked, safe, doubtful>>
  BY DEF NewDB, mind, ghost
<1>2. /\ DOMAIN log = {} /\ acked = {} /\ safe = {} /\ doubtful = {} BY <1>1 DEF Created, Idle
<1>3. /\ st \in DescStates /\ st.tables = {} /\ st.logNumber = 0 /\ st.nextFile = 2 /\ st.lastSeq = 0
  BY DEF DescState, DescStates, Numbers
<1>4. m \in Manifest
  <2>1. <<st>> \in Opt(DescStates) /\ <<>> \in Opt(DescStates) BY <1>3, InOpt
  <2> QED BY <2>1 DEF Manifest
<1>5. m.synced = <<>> /\ m.tail = <<st>> /\ <<st>> # <<>> /\ <<st>>[1] = st /\ In(<<st>>) = {st}
      /\ In(<<>>) = {}
  BY Filled DEF In
<1> HIDE DEF st, m
<1>6. manifest'[current'] = m /\ DOMAIN manifest' = DOMAIN manifest \cup {1} BY <1>1 DEF With
<1>7. Last' = <<st>> /\ Descs' = {st}
  BY <1>1, <1>5, <1>6 DEF Last, Unsynced, Descs, Says
<1>8. FilesTypeOK'
  <2>1. manifest' \in [DOMAIN manifest' -> Manifest] BY <1>1, <1>4, WithType DEF FilesTypeOK
  <2> QED BY <1>1, <1>6, <2>1 DEF FilesTypeOK
<1>9. Idle' /\ Replayed' /\ Begun' BY <1>1 DEF Idle, Replayed, Begun
<1>10. Created' BY <1>1, <1>2, <1>5, <1>6, <1>7 DEF Created
<1>11. DescsSound'
  <2> SUFFICES ASSUME NEW s \in Descs' PROVE (StateSound(s) /\ s.nextFile <= Last[1].nextFile)'
    BY DEF DescsSound
  <2>1. s = st BY <1>7
  <2>2. SeqsOf(table', s.tables) = {} BY <1>3, <2>1, SeqsOfSets
  <2>3. LoggedFrom(log', s.logNumber) = {} BY <1>1, <1>2 DEF LoggedFrom
  <2>4. Found(s)' = {} BY <2>2, <2>3 DEF Found
  <2>5. /\ WholeIn(table, s.tables)' /\ \A n \in s.tables : n < s.nextFile
        /\ s.logNumber < s.nextFile /\ current' < s.nextFile
    BY <1>1, <1>3, <2>1 DEF WholeIn
  <2>6. s.nextFile <= Last'[1].nextFile BY <1>3, <1>5, <1>7, <2>1
  <2> QED BY <1>1, <1>2, <2>2, <2>4, <2>5, <2>6 DEF StateSound
<1>12. ~Ready' BY <1>1 DEF Ready
<1> QED BY <1>8, <1>9, <1>10, <1>11, <1>12

\* No table a descriptor names is missing when it is read.
LEMMA OpenStoreKeeps ==
    ASSUME FilesInv, OpenStore
    PROVE  FilesInv'
<1> DEFINE st == Last[1]  logs == {n \in DOMAIN log : n >= st.logNumber}
<1> USE DEF FilesInv
<1>1. /\ proc = "down" /\ current # 0
      /\ IF Last = <<>> \/ ~(st.tables \subseteq DOMAIN table)
         THEN proc' = "failed" /\ db' = db
         ELSE /\ proc' = "replaying"
              /\ db' = [NoDb EXCEPT !.tables = st.tables, !.logNumber = st.logNumber,
                          !.lastSeq = st.lastSeq, !.manifestNum = st.nextFile,
                          !.nextFile = st.nextFile + 1, !.logs = logs]
      /\ UNCHANGED <<log, table, manifest, current, readers, bg, comp, edit, acked, safe, doubtful>>
  BY DEF OpenStore, Last, directory, ghost
<1>2. db = NoDb /\ NoDb \in Fields BY <1>1 DEF Created, FilesTypeOK
<1>3. Ready' <=> Ready BY <1>1 DEF Ready
<1>4. DescsSound' /\ Descs' = Descs /\ Last' = Last BY <1>1, <1>3, DescsQuiet
<1>5. Last # <<>> => st \in Descs /\ st \in DescStates /\ Last = <<st>> BY <1>1, DescFacts
<1>6. Last # <<>> => st.tables \subseteq DOMAIN table
  BY <1>5 DEF DescsSound, StateSound, WholeIn
<1>7. ~Ready' BY <1>1 DEF Ready
<1>8. CASE Last = <<>>
  <2>1. proc' = "failed" /\ db' = NoDb BY <1>1, <1>2, <1>8
  <2>2. FilesTypeOK' BY <1>1, <1>2, <2>1 DEF FilesTypeOK
  <2>3. Idle' /\ Replayed' /\ Begun'
    BY <1>1, <1>2, <2>1 DEF Idle, Replayed, Begun
  <2>4. Created' BY <1>1, <1>4, <1>8, <2>1 DEF Created
  <2> QED BY <1>4, <1>7, <2>2, <2>3, <2>4
<1>9. CASE Last # <<>>
  <2>1. proc' = "replaying" BY <1>1, <1>6, <1>9
  <2>2. st \in DescStates /\ st.nextFile + 1 \in Nat /\ logs \in Numbers
    BY <1>5, <1>9 DEF DescStates, FilesTypeOK, Numbers
  <2>3. /\ db' \in Fields /\ db'.tables = st.tables /\ db'.logNumber = st.logNumber
        /\ db'.lastSeq = st.lastSeq /\ db'.manifestNum = st.nextFile
        /\ db'.nextFile = st.nextFile + 1 /\ db'.logs = logs
        /\ db'.mem = {} /\ db'.imm = <<>> /\ db'.pending = {} /\ ~db'.error /\ db'.added = {}
    <3>1. db' = [NoDb EXCEPT !.tables = st.tables, !.logNumber = st.logNumber,
                          !.lastSeq = st.lastSeq, !.manifestNum = st.nextFile,
                          !.nextFile = st.nextFile + 1, !.logs = logs]
      BY <1>1, <1>6, <1>9
    <3> HIDE DEF logs
    <3> QED BY <1>2, <2>2, <3>1 DEF Fields, DescStates, NoDb
  <2>4. FilesTypeOK' BY <1>1, <2>1, <2>3 DEF FilesTypeOK
  <2>5. Idle' /\ Begun' BY <1>1, <2>1, <2>3 DEF Idle, Begun
  <2>6. Created' BY <1>1, <1>4, <1>9, <2>1 DEF Created
  <2>7. Replayed'
    <3>1. st.nextFile \in Nat /\ st.logNumber \in Nat /\ st.nextFile < st.nextFile + 1
          /\ st.logNumber < st.nextFile
      BY <1>5, <1>9 DEF DescStates, DescsSound, StateSound
    <3>2. \A n \in DOMAIN log : n \in logs \/ n < st.nextFile + 1
      <4> TAKE n \in DOMAIN log
      <4>1. n \in Nat BY DEF FilesTypeOK
      <4> QED BY <3>1, <4>1
    <3>3. UNION {Range(log[n].recs) : n \in logs} = LoggedFrom(log, st.logNumber)
      BY DEF LoggedFrom
    <3>4. SeqsOf(table, {}) = {} BY SeqsOfSets
    <3>5. \A x \in SeqsOf(table, st.tables) : x <= st.lastSeq
      BY <1>5, <1>9 DEF DescsSound, StateSound
    <3> HIDE DEF st
    <3>6. /\ \A n \in db'.logs : n \in DOMAIN log' /\ n >= db'.logNumber
          /\ \A n \in DOMAIN log' : n \in db'.logs \/ n < db'.nextFile
          /\ db'.tables = Last'[1].tables /\ db'.logNumber = Last'[1].logNumber
          /\ db'.manifestNum = Last'[1].nextFile /\ db'.manifestNum < db'.nextFile
      BY <1>1, <1>4, <2>3, <3>1, <3>2 DEF st
    <3>7. WholeIn(table', db'.added) /\ \A n \in db'.added : db'.manifestNum < n /\ n < db'.nextFile
      BY <2>3 DEF WholeIn
    <3>8. /\ SeqsOf(table', db'.added) \cup UNION {Range(log'[n].recs) : n \in db'.logs}
               = LoggedFrom(log', db'.logNumber)
          /\ \A x \in SeqsOf(table', db'.tables) \cup SeqsOf(table', db'.added) : x <= db'.lastSeq
      BY <1>1, <2>3, <3>3, <3>4, <3>5
    <3> QED BY <3>6, <3>7, <3>8 DEF Replayed
  <2> QED BY <1>4, <1>7, <2>4, <2>5, <2>6, <2>7
<1> QED BY <1>8, <1>9

\* A log that was read has become a table, whose number was not used by the
\* descriptor or the logs.
LEMMA RecoverLogFileKeeps ==
    ASSUME FilesInv, RecoverLogFile
    PROVE  FilesInv'
<1> DEFINE n == Min(db.logs)  seqs == Range(log[n].recs)  N == db.nextFile
           built == IF seqs = {} THEN {} ELSE {N}
           next == N + Cardinality(built)
           F == Max({next, n + 1})  L == Max({db.lastSeq} \cup seqs)
<1> USE DEF FilesInv
<1>1. /\ proc = "replaying" /\ db.logs # {}
      /\ IF seqs = {} THEN table' = table ELSE table' = With(table, N, [seqs |-> seqs, whole |-> TRUE])
      /\ db' = [db EXCEPT !.logs = @ \ {n}, !.added = @ \cup built, !.nextFile = F, !.lastSeq = L]
      /\ UNCHANGED <<log, manifest, current, proc, readers, bg, comp, edit, acked, safe, doubtful>>
  BY DEF RecoverLogFile, WholeTable, ghost
<1>2. /\ db \in Fields /\ db.logs \subseteq Nat /\ N \in Nat /\ db.lastSeq \in Nat
      /\ db.manifestNum \in Nat /\ db.added \subseteq Nat
  BY DEF FilesTypeOK, Fields, Numbers
<1>3. n \in db.logs /\ n \in Nat /\ n \in DOMAIN log
  <2>1. n \in db.logs BY <1>1, <1>2, Least
  <2> QED BY <1>1, <1>2, <2>1 DEF Replayed
<1>4. seqs \subseteq 1 .. MaxSeq
  <2>1. log[n] \in LogFile /\ log[n].synced <= Len(log[n].recs) BY <1>3 DEF FilesTypeOK
  <2> QED BY <2>1, KeptAreLogged
<1> HIDE DEF n, seqs, built, next, F, L
<1>5. built \subseteq {N} /\ (built = {} <=> seqs = {}) /\ (seqs # {} => built = {N}) BY DEF built
<1>6. next \in Nat /\ N <= next /\ \A k \in built : k < next
  <2>1. CASE seqs = {}
    <3>1. Cardinality(built) = 0 BY <1>5, <2>1, FS_EmptySet
    <3> QED BY <1>2, <1>5, <2>1, <3>1 DEF next
  <2>2. CASE seqs # {}
    <3>1. Cardinality(built) = 1 BY <1>5, <2>2, FS_Singleton
    <3> QED BY <1>2, <1>5, <2>2, <3>1 DEF next
  <2> QED BY <2>1, <2>2
<1>7. F \in Nat /\ next <= F /\ n + 1 <= F
  <2>1. {next, n + 1} \subseteq Nat /\ next + n + 1 \in Nat
        /\ \A y \in {next, n + 1} : y <= next + n + 1
    BY <1>3, <1>6
  <2>2. {next, n + 1} # {} OBVIOUS
  <2>3. Max({next, n + 1}) \in {next, n + 1}
        /\ \A y \in {next, n + 1} : y <= Max({next, n + 1})
    BY <2>1, <2>2, Greatest
  <2> QED BY <2>1, <2>3 DEF F
<1>8. L \in Nat /\ db.lastSeq <= L /\ \A x \in seqs : x <= L
  <2> DEFINE S == {db.lastSeq} \cup seqs
  <2>1. S \subseteq Nat /\ S # {}
    <3>1. MaxSeq \in Nat BY FilesAssumption
    <3>2. \A y \in seqs : y \in Nat BY <1>4, <3>1
    <3> QED BY <1>2, <3>2
  <2>2. db.lastSeq + MaxSeq \in Nat BY <1>2, FilesAssumption
  <2>3. \A y \in S : y <= db.lastSeq + MaxSeq
    <3> TAKE y \in S
    <3>1. y = db.lastSeq \/ y \in 1 .. MaxSeq BY <1>4
    <3> QED BY <1>2, <3>1, FilesAssumption
  <2>4. L = Max(S) BY DEF L
  <2> HIDE DEF S
  <2>5. L \in S /\ \A y \in S : y <= L BY <2>1, <2>2, <2>3, <2>4, Greatest
  <2> QED BY <2>1, <2>5 DEF S
<1>9. /\ db' \in Fields /\ db'.logs = db.logs \ {n} /\ db'.added = db.added \cup built
      /\ db'.nextFile = F /\ db'.lastSeq = L /\ db'.tables = db.tables
      /\ db'.logNumber = db.logNumber /\ db'.manifestNum = db.manifestNum
      /\ db'.mem = db.mem /\ db'.imm = db.imm /\ db'.pending = db.pending /\ db'.error = db.error
  <2>1. db.logs \ {n} \in Numbers /\ db.added \cup built \in Numbers
    BY <1>2, <1>5 DEF Numbers
  <2> QED BY <1>1, <1>2, <1>7, <1>8, <2>1 DEF Fields
<1>10. \A m \in DOMAIN table : m # N => m \in DOMAIN table' /\ table'[m] = table[m]
  BY <1>1 DEF With
<1>11. seqs # {} => N \in DOMAIN table' /\ table'[N] = [seqs |-> seqs, whole |-> TRUE]
  BY <1>1 DEF With
<1>12. current # 0 /\ Last # <<>> /\ Last[1] \in Descs /\ Last[1] \in DescStates
       /\ Descs \subseteq DescStates
  BY <1>1, OpenFacts, DescFacts
<1>13. N \notin DescTables /\ N \notin db.tables /\ N \notin db.added
  <2>1. Last[1].nextFile = db.manifestNum /\ db.manifestNum < N /\ db.tables = Last[1].tables
    BY <1>1 DEF Replayed
  <2>2. ASSUME NEW st \in Descs, NEW k \in st.tables PROVE k # N
    <3>1. st.nextFile \in Nat /\ k \in Nat BY <1>12 DEF DescStates, Numbers
    <3>2. k < st.nextFile /\ st.nextFile <= db.manifestNum BY <2>1 DEF DescsSound, StateSound
    <3> QED BY <1>2, <2>1, <3>1, <3>2
  <2>3. \A k \in db.added : k < N BY <1>1 DEF Replayed
  <2> QED BY <1>2, <1>12, <2>1, <2>2, <2>3 DEF DescTables
<1>14. DescsSound' /\ Descs' = Descs /\ Last' = Last
  <2>1. Ready' <=> Ready BY <1>1 DEF Ready
  <2> QED BY <1>1, <1>10, <1>13, <2>1, DescsQuiet
<1>15. FilesTypeOK'
  <2>1. CASE seqs = {} BY <1>1, <1>9, <2>1 DEF FilesTypeOK
  <2>2. CASE seqs # {}
    <3>1. [seqs |-> seqs, whole |-> TRUE] \in TableFile
      BY <1>4, FilesAssumption DEF TableFile, Numbers
    <3>2. table' = With(table, N, [seqs |-> seqs, whole |-> TRUE]) BY <1>1, <2>2
    <3>3. table' \in [DOMAIN table' -> TableFile]
      BY <3>1, <3>2, WithType DEF FilesTypeOK
    <3>4. DOMAIN table' = DOMAIN table \cup {N} BY <3>2 DEF With
    <3> QED BY <1>1, <1>2, <1>9, <3>3, <3>4 DEF FilesTypeOK
  <2> QED BY <2>1, <2>2
<1>16. Idle' /\ Begun' BY <1>1, <1>9 DEF Idle, Begun
<1>17. Created' /\ ~Ready' BY <1>1, <1>14 DEF Created, Ready
<1>18. /\ \A m \in db.added : m \in DOMAIN table /\ m # N /\ table[m].whole
       /\ \A m \in db.tables : table'[m] = table[m]
       /\ \A m \in db.added : table'[m] = table[m]
  <2>1. WholeIn(table, db.added) /\ WholeIn(table, db.tables)
    BY <1>1, <1>12 DEF Replayed, DescsSound, StateSound
  <2> QED BY <1>10, <1>13, <2>1 DEF WholeIn
<1>19. /\ SeqsOf(table', db.tables) = SeqsOf(table, db.tables)
       /\ SeqsOf(table', db'.added) = SeqsOf(table, db.added) \cup seqs
  <2>1. /\ SeqsOf(table', db.tables) = SeqsOf(table, db.tables)
        /\ SeqsOf(table', db.added) = SeqsOf(table, db.added)
    BY <1>18, SeqsSame
  <2>2. SeqsOf(table', built) = seqs
    <3>1. CASE seqs = {} BY <1>5, <3>1, SeqsOfSets
    <3>2. CASE seqs # {} BY <1>5, <1>11, <3>2, SeqsOfSets
    <3> QED BY <3>1, <3>2
  <2> QED BY <1>9, <2>1, <2>2, SeqsOfSets
<1>20. Replayed'
  <2>1. /\ db.tables = Last[1].tables /\ db.logNumber = Last[1].logNumber
        /\ db.manifestNum = Last[1].nextFile /\ db.manifestNum < N
        /\ \A k \in db.logs : k \in DOMAIN log /\ k >= db.logNumber
        /\ \A k \in DOMAIN log : k \in db.logs \/ k < N
        /\ \A k \in db.added : db.manifestNum < k /\ k < N
        /\ SeqsOf(table, db.added) \cup UNION {Range(log[k].recs) : k \in db.logs}
             = LoggedFrom(log, db.logNumber)
        /\ \A x \in SeqsOf(table, db.tables) \cup SeqsOf(table, db.added) : x <= db.lastSeq
    BY <1>1 DEF Replayed
  <2>2. db.manifestNum < F BY <1>2, <1>6, <1>7, <2>1
  <2>3. \A k \in DOMAIN log : k \in db'.logs \/ k < F
    <3> TAKE k \in DOMAIN log
    <3>1. k \in Nat BY DEF FilesTypeOK
    <3>2. CASE k = n BY <1>3, <1>7, <3>2
    <3>3. CASE k # n BY <1>2, <1>6, <1>7, <1>9, <2>1, <3>1, <3>3
    <3> QED BY <3>2, <3>3
  <2>4. \A k \in db'.added : db.manifestNum < k /\ k < F
    <3> TAKE k \in db'.added
    <3>1. k \in db.added \/ (k \in built /\ k = N) BY <1>5, <1>9
    <3> QED BY <1>2, <1>6, <1>7, <2>1, <3>1
  <2>5. WholeIn(table', db'.added)
    <3> SUFFICES ASSUME NEW k \in db'.added PROVE k \in DOMAIN table' /\ table'[k].whole
      BY DEF WholeIn
    <3>1. CASE k \in db.added BY <1>10, <1>18, <3>1
    <3>2. CASE k \in built BY <1>5, <1>11, <3>2
    <3> QED BY <1>9, <3>1, <3>2
  <2>6. SeqsOf(table', db'.added) \cup UNION {Range(log[k].recs) : k \in db'.logs}
          = LoggedFrom(log, db.logNumber)
    <3>1. UNION {Range(log[k].recs) : k \in db.logs}
            = seqs \cup UNION {Range(log[k].recs) : k \in db.logs \ {n}}
      BY <1>3 DEF seqs
    <3> QED BY <1>9, <1>19, <2>1, <3>1
  <2>7. \A x \in SeqsOf(table', db.tables) \cup SeqsOf(table', db'.added) : x <= L
    <3> TAKE x \in SeqsOf(table', db.tables) \cup SeqsOf(table', db'.added)
    <3>1. CASE x \in seqs BY <1>8, <3>1
    <3>2. CASE x \in SeqsOf(table, db.tables) \cup SeqsOf(table, db.added)
      <4>1. x <= db.lastSeq BY <2>1, <3>2
      <4>2. x \in Nat
        <5>1. \A k \in db.tables \cup db.added : table[k].seqs \subseteq Nat
          <6>1. \A k \in db.tables \cup db.added : k \in DOMAIN table
            BY <1>1, <1>12, <1>18, <2>1 DEF DescsSound, StateSound, WholeIn
          <6> QED BY <6>1 DEF FilesTypeOK, TableFile, Numbers
        <5> QED BY <3>2, <5>1 DEF SeqsOf
      <4> QED BY <1>2, <1>8, <4>1, <4>2
    <3> QED BY <1>19, <3>1, <3>2
  <2>8. /\ \A k \in db'.logs : k \in DOMAIN log' /\ k >= db'.logNumber
        /\ \A k \in DOMAIN log' : k \in db'.logs \/ k < db'.nextFile
        /\ db'.tables = Last'[1].tables /\ db'.logNumber = Last'[1].logNumber
        /\ db'.manifestNum = Last'[1].nextFile /\ db'.manifestNum < db'.nextFile
        /\ \A k \in db'.added : db'.manifestNum < k /\ k < db'.nextFile
    BY <1>1, <1>9, <1>14, <2>1, <2>2, <2>3, <2>4
  <2>9. /\ SeqsOf(table', db'.added) \cup UNION {Range(log'[k].recs) : k \in db'.logs}
             = LoggedFrom(log', db'.logNumber)
        /\ \A x \in SeqsOf(table', db'.tables) \cup SeqsOf(table', db'.added) : x <= db'.lastSeq
    <3>1. log' = log BY <1>1
    <3>2. UNION {Range(log'[k].recs) : k \in db'.logs} = UNION {Range(log[k].recs) : k \in db'.logs}
      BY <3>1
    <3>3. LoggedFrom(log', db'.logNumber) = LoggedFrom(log, db.logNumber) BY <1>9, <3>1
    <3>4. db'.tables = db.tables /\ db'.lastSeq = L BY <1>9
    <3> QED BY <2>6, <2>7, <3>2, <3>3, <3>4
  <2> QED BY <2>5, <2>8, <2>9 DEF Replayed
<1> QED BY <1>14, <1>15, <1>16, <1>17, <1>20

\* The new log and the new descriptor have numbers nothing in use has, and CURRENT
\* names the old one.
LEMMA StartDescriptorKeeps ==
    ASSUME FilesInv, StartDescriptor
    PROVE  FilesInv'
<1> DEFINE N == db.nextFile  M == db.manifestNum
           st == DescState(db.tables \cup db.added, N, N + 1, db.lastSeq)
           d == [synced |-> <<>>, tail |-> <<st>>]
<1> USE DEF FilesInv
<1>1. /\ proc = "replaying" /\ db.logs = {} /\ proc' = "describing"
      /\ log' = With(log, N, [recs |-> <<>>, synced |-> 0])
      /\ manifest' = With(manifest, M, d)
      /\ db' = [db EXCEPT !.logfile = N, !.nextFile = N + 1]
      /\ UNCHANGED <<table, current, readers, bg, comp, edit, acked, safe, doubtful>>
  BY DEF StartDescriptor, NewLog, ghost
<1>2. /\ db \in Fields /\ N \in Nat /\ M \in Nat /\ db.lastSeq \in Nat
      /\ db.tables \cup db.added \in Numbers
  BY DEF FilesTypeOK, Fields, Numbers
<1>3. /\ db.tables = Last[1].tables /\ db.logNumber = Last[1].logNumber
      /\ M = Last[1].nextFile /\ M < N /\ \A k \in DOMAIN log : k < N
      /\ WholeIn(table, db.added) /\ \A k \in db.added : M < k /\ k < N
      /\ SeqsOf(table, db.added) \cup UNION {Range(log[k].recs) : k \in db.logs}
           = LoggedFrom(log, db.logNumber)
      /\ \A x \in SeqsOf(table, db.tables) \cup SeqsOf(table, db.added) : x <= db.lastSeq
  BY <1>1 DEF Replayed
<1>4. /\ db' \in Fields /\ db'.logfile = N /\ db'.nextFile = N + 1 /\ db'.tables = db.tables
      /\ db'.added = db.added /\ db'.logs = {} /\ db'.logNumber = db.logNumber
      /\ db'.manifestNum = M /\ db'.lastSeq = db.lastSeq /\ db'.mem = db.mem
      /\ db'.imm = db.imm /\ db'.pending = db.pending /\ db'.error = db.error
  <2>1. N + 1 \in Nat BY <1>2
  <2> QED BY <1>1, <1>2, <2>1 DEF Fields
<1>5. /\ current # 0 /\ Last # <<>> /\ Last[1] \in Descs /\ Last[1] \in DescStates
      /\ current \in DOMAIN manifest
  BY <1>1, OpenFacts
<1>6. current # M
  <2>1. current < M BY <1>3, <1>5 DEF DescsSound, StateSound
  <2>2. current \in Nat BY DEF FilesTypeOK
  <2> QED BY <1>2, <2>1, <2>2
<1>7. d \in Manifest
  <2>1. st \in DescStates BY <1>2 DEF DescState, DescStates
  <2>2. <<st>> \in Opt(DescStates) /\ <<>> \in Opt(DescStates) BY <2>1, InOpt
  <2> QED BY <2>2 DEF Manifest
<1> HIDE DEF st, d
<1>8. /\ DOMAIN manifest' = DOMAIN manifest \cup {M} /\ manifest'[M] = d
      /\ manifest'[current] = manifest[current]
  BY <1>1, <1>5, <1>6 DEF With
<1>9. Descs' = Descs /\ Last' = Last BY <1>1, <1>8 DEF Descs, Says, Last
<1>10. Begins(log, N, log')
  <2>1. N \notin DOMAIN log BY <1>2, <1>3
  <2> QED BY <1>1, <2>1 DEF Begins
<1>11. /\ \A k : LoggedFrom(log', k) = LoggedFrom(log, k) /\ KeptFrom(log', k) = KeptFrom(log, k)
       /\ DOMAIN log' = DOMAIN log \cup {N} /\ \A k \in DOMAIN log : log'[k] = log[k]
       /\ log'[N] = [recs |-> <<>>, synced |-> 0]
       /\ Range(log'[N].recs) = {} /\ Kept(log'[N]) = {}
  BY <1>10, LogsNew
<1>12. FilesTypeOK'
  <2>1. [recs |-> <<>>, synced |-> 0] \in LogFile /\ Len(<<>>) = 0 BY DEF LogFile
  <2>2. log' \in [DOMAIN log' -> LogFile] BY <1>1, <2>1, WithType DEF FilesTypeOK
  <2>3. \A k \in DOMAIN log' : log'[k].synced <= Len(log'[k].recs) BY <1>11, <2>1 DEF FilesTypeOK
  <2>4. manifest' \in [DOMAIN manifest' -> Manifest] BY <1>1, <1>7, WithType DEF FilesTypeOK
  <2> QED BY <1>1, <1>2, <1>4, <1>8, <1>11, <2>2, <2>3, <2>4 DEF FilesTypeOK
<1>13. Idle' BY <1>1, <1>4 DEF Idle
<1>14. Created' /\ ~Ready' BY <1>1, <1>5, <1>8, <1>9 DEF Created, Ready
<1>15. DescsSound'
  <2> SUFFICES ASSUME NEW s \in Descs' PROVE (StateSound(s) /\ s.nextFile <= Last[1].nextFile)'
    BY DEF DescsSound
  <2>1. StateSound(s) /\ s.nextFile <= Last[1].nextFile BY <1>9 DEF DescsSound
  <2>2. Found(s)' = Found(s) BY <1>1, <1>11 DEF Found
  <2> QED BY <1>1, <1>9, <1>11, <1>14, <2>1, <2>2 DEF StateSound
<1>16. Replayed'
  <2>1. M < N + 1 BY <1>2, <1>3
  <2>2. \A k \in DOMAIN log' : k < N + 1
    <3> TAKE k \in DOMAIN log'
    <3>1. k = N \/ (k \in Nat /\ k < N) BY <1>3, <1>11 DEF FilesTypeOK
    <3> QED BY <1>2, <3>1
  <2>3. \A k \in db.added : M < k /\ k < N + 1
    <3> TAKE k \in db.added
    <3>1. k \in Nat /\ M < k /\ k < N BY <1>2, <1>3 DEF Numbers
    <3> QED BY <1>2, <3>1
  <2>4. SeqsOf(table, db.added) = LoggedFrom(log, db.logNumber) BY <1>1, <1>3
  <2>5. UNION {Range(log'[k].recs) : k \in db'.logs} = {} BY <1>4
  <2>6. SeqsOf(table', db'.added) \cup UNION {Range(log'[k].recs) : k \in db'.logs}
          = LoggedFrom(log', db'.logNumber)
    BY <1>1, <1>4, <1>11, <2>4, <2>5
  <2>7. /\ \A k \in db'.logs : k \in DOMAIN log' /\ k >= db'.logNumber
        /\ \A k \in DOMAIN log' : k \in db'.logs \/ k < db'.nextFile
        /\ db'.tables = Last'[1].tables /\ db'.logNumber = Last'[1].logNumber
        /\ db'.manifestNum = Last'[1].nextFile /\ db'.manifestNum < db'.nextFile
        /\ \A k \in db'.added : db'.manifestNum < k /\ k < db'.nextFile
        /\ WholeIn(table', db'.added)
        /\ \A x \in SeqsOf(table', db'.tables) \cup SeqsOf(table', db'.added) : x <= db'.lastSeq
    BY <1>1, <1>3, <1>4, <1>9, <2>1, <2>2, <2>3 DEF WholeIn
  <2> QED BY <2>6, <2>7 DEF Replayed
<1>17. Begun'
  <2>1. Recovered' = st BY <1>4 DEF Recovered, st
  <2>2. manifest'[db'.manifestNum] = [synced |-> <<>>, tail |-> <<Recovered'>>]
    BY <1>4, <1>8, <2>1 DEF d
  <2> QED BY <1>1, <1>3, <1>4, <1>8, <1>11, <2>2 DEF Begun
<1> QED BY <1>12, <1>13, <1>14, <1>15, <1>16, <1>17

\* The old descriptor is in use until CURRENT is renamed.
LEMMA SyncDescriptorKeeps ==
    ASSUME FilesInv, SyncDescriptor
    PROVE  FilesInv'
<1> DEFINE M == db.manifestNum  d == [synced |-> <<Recovered>>, tail |-> <<>>]
<1> USE DEF FilesInv
<1>1. /\ proc = "describing" /\ proc' = "naming"
      /\ manifest' = [manifest EXCEPT ![M] = [synced |-> Unsynced(@), tail |-> <<>>]]
      /\ UNCHANGED <<log, table, current, db, readers, bg, comp, edit, acked, safe, doubtful>>
  BY DEF SyncDescriptor, SyncManifest, mind, ghost
<1>2. /\ M \in DOMAIN manifest /\ manifest[M] = [synced |-> <<>>, tail |-> <<Recovered>>]
      /\ db.logs = {} /\ db.nextFile = db.logfile + 1 /\ M < db.logfile
      /\ db.logfile \in DOMAIN log /\ log[db.logfile].recs = <<>>
  BY <1>1 DEF Begun
<1>3. Unsynced(manifest[M]) = <<Recovered>>
  <2>1. manifest[M].tail = <<Recovered>> BY <1>2
  <2> QED BY <2>1, Filled DEF Unsynced
<1>4. manifest' = [manifest EXCEPT ![M] = d] /\ manifest'[M] = d BY <1>1, <1>2, <1>3
<1>5. /\ current # 0 /\ Last # <<>> /\ Last[1] \in Descs /\ Last[1] \in DescStates
      /\ current \in DOMAIN manifest
  BY <1>1, OpenFacts
<1>6. current # M
  <2>1. M = Last[1].nextFile BY <1>1 DEF Replayed
  <2>2. current < M BY <1>5, <2>1 DEF DescsSound, StateSound
  <2>3. current \in Nat /\ M \in Nat BY DEF FilesTypeOK, Fields
  <2> QED BY <2>2, <2>3
<1>7. manifest'[current] = manifest[current] BY <1>4, <1>5, <1>6
<1>8. d \in Manifest
  <2>1. manifest[M] \in Manifest BY <1>2 DEF FilesTypeOK
  <2>2. manifest[M].tail \in Opt(DescStates) /\ manifest[M].tail = <<Recovered>>
    BY <1>2, <2>1 DEF Manifest
  <2>3. <<>> \in Opt(DescStates) BY DEF Opt
  <2> QED BY <2>2, <2>3 DEF Manifest
<1> HIDE DEF d
<1>9. FilesTypeOK'
  <2>1. manifest' \in [DOMAIN manifest' -> Manifest] /\ DOMAIN manifest' = DOMAIN manifest
    BY <1>4, <1>8 DEF FilesTypeOK
  <2> QED BY <1>1, <2>1 DEF FilesTypeOK
<1>10. Ready' <=> Ready BY <1>1 DEF Ready
<1>11. Descs' = Descs /\ Last' = Last BY <1>1, <1>7 DEF Descs, Says, Last
<1>12. DescsSound'
  <2> SUFFICES ASSUME NEW s \in Descs' PROVE (StateSound(s) /\ s.nextFile <= Last[1].nextFile)'
    BY DEF DescsSound
  <2>1. StateSound(s) /\ s.nextFile <= Last[1].nextFile BY <1>11 DEF DescsSound
  <2>2. Found(s)' = Found(s) BY <1>1 DEF Found
  <2> QED BY <1>1, <1>10, <1>11, <2>1, <2>2 DEF StateSound
<1>13. Idle' /\ ~Ready' BY <1>1 DEF Idle, Ready
<1>14. Created' BY <1>1, <1>5, <1>7, <1>11 DEF Created
<1>15. Replayed' BY <1>1, <1>11 DEF Replayed
<1>16. Begun'
  <2>1. Recovered' = Recovered BY <1>1 DEF Recovered
  <2>2. M \in DOMAIN manifest' BY <1>2, <1>4
  <2> QED BY <1>1, <1>2, <1>4, <2>1, <2>2 DEF Begun, d
<1> QED BY <1>9, <1>12, <1>13, <1>14, <1>15, <1>16

\* The new descriptor names the tables made from the logs, and holds all of the
\* old one and its logs.
LEMMA SetCurrentFileKeeps ==
    ASSUME FilesInv, SetCurrentFile
    PROVE  FilesInv'
<1> DEFINE M == db.manifestNum  st == Recovered  T == db.tables \cup db.added
<1> USE DEF FilesInv
<1>1. /\ proc = "naming" /\ proc' = "cleaning" /\ current' = M
      /\ db' = [db EXCEPT !.tables = @ \cup db.added, !.added = {}, !.logNumber = db.logfile]
      /\ UNCHANGED <<log, table, manifest, readers, bg, comp, edit, acked, safe, doubtful>>
  BY DEF SetCurrentFile, ghost
<1>2. /\ db \in Fields /\ M \in Nat /\ db.logfile \in Nat /\ db.nextFile \in Nat /\ T \in Numbers
      /\ db.lastSeq \in Nat
  BY DEF FilesTypeOK, Fields, Numbers
<1>3. /\ db' \in Fields /\ db'.tables = T /\ db'.logNumber = db.logfile /\ db'.logfile = db.logfile
      /\ db'.manifestNum = M /\ db'.nextFile = db.nextFile /\ db'.lastSeq = db.lastSeq
      /\ db'.mem = db.mem /\ db'.imm = db.imm /\ db'.pending = db.pending /\ db'.error = db.error
  <2>1. {} \in Numbers BY DEF Numbers
  <2> QED BY <1>1, <1>2, <2>1 DEF Fields
<1>4. /\ readers = {} /\ bg = <<>> /\ comp = <<>> /\ edit = <<>> /\ doubtful = {}
      /\ db.mem = {} /\ db.imm = <<>> /\ db.pending = {} /\ ~db.error
  BY <1>1 DEF Idle
<1>5. /\ M \in DOMAIN manifest /\ manifest[M] = [synced |-> <<st>>, tail |-> <<>>]
      /\ db.logs = {} /\ db.nextFile = db.logfile + 1 /\ M < db.logfile
      /\ db.logfile \in DOMAIN log /\ log[db.logfile].recs = <<>>
  BY <1>1 DEF Begun
<1>6. /\ db.tables = Last[1].tables /\ db.logNumber = Last[1].logNumber
      /\ M = Last[1].nextFile /\ \A k \in DOMAIN log : k < db.nextFile
      /\ WholeIn(table, db.added) /\ \A k \in db.added : k < db.nextFile
      /\ SeqsOf(table, db.added) = LoggedFrom(log, db.logNumber)
      /\ \A x \in SeqsOf(table, T) : x <= db.lastSeq
  <2>1. UNION {Range(log[k].recs) : k \in db.logs} = {} BY <1>5
  <2>2. /\ db.tables = Last[1].tables /\ db.logNumber = Last[1].logNumber
        /\ M = Last[1].nextFile /\ \A k \in DOMAIN log : k \in db.logs \/ k < db.nextFile
        /\ WholeIn(table, db.added) /\ \A k \in db.added : k < db.nextFile
        /\ SeqsOf(table, db.added) \cup UNION {Range(log[k].recs) : k \in db.logs}
             = LoggedFrom(log, db.logNumber)
        /\ \A x \in SeqsOf(table, db.tables) \cup SeqsOf(table, db.added) : x <= db.lastSeq
    BY <1>1 DEF Replayed
  <2>3. SeqsOf(table, T) = SeqsOf(table, db.tables) \cup SeqsOf(table, db.added) BY SeqsOfSets
  <2>4. SeqsOf(table, db.added) = LoggedFrom(log, db.logNumber) BY <2>1, <2>2
  <2>5. \A k \in DOMAIN log : k < db.nextFile BY <1>5, <2>2
  <2>6. \A x \in SeqsOf(table, T) : x <= db.lastSeq BY <2>2, <2>3
  <2> QED BY <2>2, <2>4, <2>5, <2>6
<1>7. /\ Last # <<>> /\ Last[1] \in Descs /\ Last[1] \in DescStates /\ current # 0 /\ Last = <<Last[1]>>
  BY <1>1, OpenFacts, DescFacts
<1>8. /\ st.tables = T /\ st.logNumber = db.logfile /\ st.nextFile = db.nextFile
      /\ st.lastSeq = db.lastSeq /\ st \in DescStates
  BY <1>2, <1>5 DEF Recovered, DescState, DescStates
<1>9. WholeIn(table, T) /\ \A k \in T : k < db.nextFile
  <2>1. WholeIn(table, db.tables) /\ \A k \in db.tables : k < M
    BY <1>6, <1>7 DEF DescsSound, StateSound
  <2>2. \A k \in db.tables : k < db.nextFile
    <3> TAKE k \in db.tables
    <3>1. k \in Nat /\ k < M BY <1>2, <2>1 DEF Numbers
    <3> QED BY <1>2, <1>5, <3>1
  <2> QED BY <1>6, <2>1, <2>2 DEF WholeIn
<1>10. LoggedFrom(log, db.logfile) = {} /\ KeptFrom(log, db.logfile) = {}
       /\ Kept(log[db.logfile]) = {} /\ Range(log[db.logfile].recs) = {}
  <2>1. \A k \in DOMAIN log : k >= db.logfile => k = db.logfile
    <3> TAKE k \in DOMAIN log
    <3>1. k \in Nat /\ k < db.logfile + 1 BY <1>5, <1>6 DEF FilesTypeOK
    <3> QED BY <1>2, <3>1
  <2>2. Range(log[db.logfile].recs) = {} BY <1>5 DEF Range
  <2>3. Kept(log[db.logfile]) = {}
    <3>1. log[db.logfile] \in LogFile /\ log[db.logfile].synced <= Len(log[db.logfile].recs)
      BY <1>5 DEF FilesTypeOK
    <3> QED BY <2>2, <3>1, KeptAreLogged
  <2>4. ASSUME NEW x PROVE x \notin LoggedFrom(log, db.logfile) /\ x \notin KeptFrom(log, db.logfile)
    BY <2>1, <2>2, <2>3, InLogged
  <2> QED BY <2>2, <2>3, <2>4
<1>11. acked = SeqsOf(table, T)
  <2>1. acked = Found(Last[1])
    <3>1. StateSound(Last[1]) BY <1>7 DEF DescsSound
    <3> QED BY <1>4, <1>7, <3>1 DEF StateSound
  <2>2. SeqsOf(table, T) = SeqsOf(table, db.tables) \cup SeqsOf(table, db.added) BY SeqsOfSets
  <2> QED BY <1>6, <2>1, <2>2 DEF Found
<1>12. safe \subseteq SeqsOf(table, T) BY <1>11 DEF Created
<1> HIDE DEF st, T
<1>13. /\ manifest'[current'].synced = <<st>> /\ manifest'[current'].tail = <<>>
       /\ Last' = <<st>> /\ Last'[1] = st /\ Descs' = {st} /\ <<st>> # <<>> /\ <<st>>[1] = st
  <2>1. manifest'[current'].synced = <<st>> /\ manifest'[current'].tail = <<>> BY <1>1, <1>5
  <2>2. <<st>> # <<>> /\ <<st>>[1] = st /\ In(<<st>>) = {st} /\ In(<<>>) = {} BY Filled DEF In
  <2>3. current' # 0
    <3>1. M > current /\ current \in Nat
      <4>1. current < M BY <1>6, <1>7 DEF DescsSound, StateSound
      <4>2. current \in Nat BY DEF FilesTypeOK
      <4> QED BY <1>2, <4>1, <4>2
    <3> QED BY <1>1, <1>2, <3>1
  <2> QED BY <2>1, <2>2, <2>3 DEF Last, Unsynced, Descs, Says
<1>14. FilesTypeOK' BY <1>1, <1>2, <1>3, <1>5 DEF FilesTypeOK
<1>15. Idle' BY <1>1, <1>3, <1>4 DEF Idle
<1>16. Replayed' /\ Begun' /\ Ready' BY <1>1 DEF Replayed, Begun, Ready
<1>17. Created'
  <2>1. current' # 0
    <3>1. current < M BY <1>6, <1>7 DEF DescsSound, StateSound
    <3>2. current \in Nat BY DEF FilesTypeOK
    <3> QED BY <1>1, <1>2, <3>1, <3>2
  <2> QED BY <1>1, <1>13, <2>1 DEF Created
<1>18. DescsSound'
  <2> SUFFICES ASSUME NEW s \in Descs' PROVE (StateSound(s) /\ s.nextFile <= Last[1].nextFile)'
    BY DEF DescsSound
  <2>1. s = st BY <1>13
  <2>2. Found(s)' = SeqsOf(table, T) BY <1>1, <1>8, <1>10, <2>1 DEF Found
  <2>3. s.nextFile <= s.nextFile /\ s.logNumber < s.nextFile /\ M < s.nextFile
    BY <1>2, <1>5, <1>8, <2>1
  <2> QED BY <1>1, <1>4, <1>6, <1>8, <1>9, <1>11, <1>12, <1>13, <2>1, <2>2, <2>3 DEF StateSound
<1>19. Named' = T
  <2>1. DescTables' = T /\ BaseTables' = {} /\ NewTables' = {}
    BY <1>1, <1>4, <1>8, <1>13 DEF DescTables, BaseTables, NewTables, In
  <2> QED BY <1>1, <1>3, <1>4, <2>1 DEF Named
<1>20. TablesSound'
  <2>1. Writing' = {} BY <1>1, <1>4 DEF Writing, Compacted, In
  <2> QED BY <1>1, <1>3, <1>4, <1>9, <1>19, <2>1 DEF TablesSound, WholeIn
<1>21. Numbered'
  <2>1. \A k \in DOMAIN log : k <= db.logfile
    <3> TAKE k \in DOMAIN log
    <3>1. k \in Nat /\ k < db.logfile + 1 BY <1>5, <1>6 DEF FilesTypeOK
    <3> QED BY <1>2, <3>1
  <2>2. M < db.nextFile /\ db.logfile <= db.logfile /\ db.logfile < db.nextFile
        /\ db.nextFile <= db.nextFile /\ db.lastSeq <= db.lastSeq
    BY <1>2, <1>5
  <2> QED BY <1>1, <1>3, <1>4, <1>5, <1>6, <1>8, <1>11, <1>13, <2>1, <2>2 DEF Numbered
<1>22. Stored'
  <2>1. Waiting' = {} BY <1>3, <1>4 DEF Waiting, In
  <2> QED BY <1>1, <1>3, <1>4, <1>8, <1>10, <1>11, <1>12, <1>13, <2>1 DEF Stored
<1>23. Described' BY <1>1, <1>3, <1>4, <1>8, <1>13 DEF Described, SameVersion
<1>24. WorkSound' /\ EditSound' BY <1>1, <1>4 DEF WorkSound, EditSound, In
<1> QED
  BY <1>14, <1>15, <1>16, <1>17, <1>18, <1>20, <1>21, <1>22, <1>23, <1>24 DEF Running

-----------------------------------------------------------------------------
(* Stops. *)

\* What opening would find, when no table is missing.
LEMMA RestoredIs ==
    ASSUME NEW logs, NEW st, st.tables \subseteq DOMAIN table
    PROVE  Restored(logs, <<st>>) = SeqsOf(table, st.tables) \cup LoggedFrom(logs, st.logNumber)
<1>1. <<st>> # <<>> /\ <<st>>[1] = st BY Filled
<1>2. st.tables \cap DOMAIN table = st.tables OBVIOUS
<1> QED BY <1>1, <1>2 DEF Restored, SeqsOf, LoggedFrom

\* What is on the disk is what the last state of the descriptor leads to.
LEMMA OnDiskIs ==
    ASSUME FilesInv, current # 0, Last # <<>>
    PROVE  OnDisk = Found(Last[1])
<1>1. Last = <<Last[1]>> /\ Last[1] \in Descs BY DescFacts DEF FilesInv
<1>2. Last[1].tables \subseteq DOMAIN table BY <1>1 DEF FilesInv, DescsSound, StateSound, WholeIn
<1>3. Descriptor = Last BY DEF Descriptor, Last
<1>4. OnDisk = Restored(log, <<Last[1]>>) BY <1>1, <1>3 DEF OnDisk
<1> QED BY <1>2, <1>4, RestoredIs DEF Found

\* What survives of the logs is part of them.
LEMMA KeptFromLogged ==
    ASSUME FilesTypeOK, NEW k
    PROVE  KeptFrom(log, k) \subseteq LoggedFrom(log, k)
<1>1. \A n \in DOMAIN log : Kept(log[n]) \subseteq Range(log[n].recs)
  BY KeptAreLogged DEF FilesTypeOK
<1>2. ASSUME NEW x \in KeptFrom(log, k) PROVE x \in LoggedFrom(log, k)
  BY <1>1, <1>2, InLogged
<1> QED BY <1>2

\* What is promised to survive is acknowledged, and is found.
LEMMA SafeFound ==
    ASSUME FilesInv, NEW st \in Descs
    PROVE  safe \subseteq Found(st)
<1>1. safe \subseteq SeqsOf(table, st.tables) \cup KeptFrom(log, st.logNumber)
  BY DEF FilesInv, DescsSound, StateSound
<1>2. KeptFrom(log, st.logNumber) \subseteq LoggedFrom(log, st.logNumber)
  BY KeptFromLogged DEF FilesInv
<1> QED BY <1>1, <1>2 DEF Found

\* What is found are numbers of writes.
LEMMA FoundNumbers ==
    ASSUME FilesTypeOK, NEW st, WholeIn(table, st.tables)
    PROVE  Found(st) \in Numbers
<1>1. ASSUME NEW x \in SeqsOf(table, st.tables) PROVE x \in Nat
  <2>1. PICK n \in st.tables : x \in table[n].seqs BY DEF SeqsOf
  <2>2. table[n] \in TableFile BY DEF FilesTypeOK, WholeIn
  <2> QED BY <2>1, <2>2 DEF TableFile, Numbers
<1>2. ASSUME NEW x \in LoggedFrom(log, st.logNumber) PROVE x \in Nat
  <2>1. PICK n \in DOMAIN log : x \in Range(log[n].recs) BY InLogged
  <2>2. log[n] \in LogFile /\ log[n].synced <= Len(log[n].recs) BY DEF FilesTypeOK
  <2>3. x \in 1 .. MaxSeq BY <2>1, <2>2, KeptAreLogged
  <2> QED BY <2>3, FilesAssumption
<1> QED BY <1>1, <1>2 DEF Found, Numbers

\* A process that stops loses nothing but what it had in memory.
LEMMA ProcessStopsKeeps ==
    ASSUME FilesInv, ProcessStops
    PROVE  FilesInv'
<1> DEFINE st == Last[1]
<1> USE DEF FilesInv
<1>1. /\ proc \notin {"down", "failed"} /\ proc' = "down" /\ db' = NoDb
      /\ readers' = {} /\ bg' = <<>> /\ comp' = <<>> /\ edit' = <<>>
      /\ acked' = OnDisk /\ doubtful' = {}
      /\ UNCHANGED <<log, table, manifest, current, safe>>
  BY DEF ProcessStops, Forget, directory
<1>2. current # 0 /\ Last # <<>> /\ st \in Descs /\ Last = <<st>> /\ StateSound(st)
  BY <1>1, OpenFacts, DescFacts DEF DescsSound
<1>3. acked' = Found(st) /\ safe \subseteq Found(st) /\ Found(st) \in Numbers
  BY <1>1, <1>2, OnDiskIs, SafeFound, FoundNumbers DEF StateSound
<1>4. Descs' = Descs /\ Last' = Last BY <1>1 DEF Descs, Last
<1> HIDE DEF st
<1>5. FilesTypeOK'
  <2>1. NoDb \in Fields /\ {} \in Numbers BY DEF NoDb, Fields, Numbers, Opt
  <2> QED BY <1>1, <1>3, <2>1 DEF FilesTypeOK, Opt
<1>6. Idle' /\ Replayed' /\ Begun' /\ ~Ready'
  BY <1>1 DEF Idle, Replayed, Begun, Ready, NoDb
<1>7. Created' BY <1>1, <1>2, <1>3, <1>4 DEF Created
<1>8. DescsSound'
  <2> SUFFICES ASSUME NEW s \in Descs' PROVE (StateSound(s) /\ s.nextFile <= Last[1].nextFile)'
    BY DEF DescsSound
  <2>1. StateSound(s) /\ s.nextFile <= Last[1].nextFile BY <1>4 DEF DescsSound
  <2>2. Found(s)' = Found(s) BY <1>1 DEF Found
  <2>3. Last = <<s>> => s = st BY <1>2, Filled
  <2> QED BY <1>1, <1>3, <1>4, <1>6, <2>1, <2>2, <2>3 DEF StateSound
<1> QED BY <1>5, <1>6, <1>7, <1>8

\* The beginning of a sequence.
LEMMA Beginning ==
    ASSUME NEW B, NEW r \in Seq(B), NEW t \in Nat, t <= Len(r)
    PROVE  /\ SubSeq(r, 1, t) \in Seq(B) /\ Len(SubSeq(r, 1, t)) = t
           /\ \A i \in 1 .. t : SubSeq(r, 1, t)[i] = r[i]
<1>1. \A i \in 1 .. t : r[i] \in B
  <2> TAKE i \in 1 .. t
  <2>1. Len(r) \in Nat /\ i \in 1 .. Len(r) OBVIOUS
  <2> QED BY <2>1
<1>0. 1 \in Int /\ t \in Int OBVIOUS
<1>2. SubSeq(r, 1, t) \in Seq(B) BY <1>0, <1>1, SubSeqProperties
<1>3. Len(SubSeq(r, 1, t)) = IF 1 <= t THEN t - 1 + 1 ELSE 0 BY <1>0, <1>1, SubSeqProperties
<1>4. Len(SubSeq(r, 1, t)) = t BY <1>3
<1>5. \A i \in 1 .. t - 1 + 1 : SubSeq(r, 1, t)[i] = r[1 + i - 1] BY <1>0, <1>1, SubSeqProperties
<1>6. \A i \in 1 .. t : SubSeq(r, 1, t)[i] = r[i]
  <2> TAKE i \in 1 .. t
  <2>1. i \in 1 .. t - 1 + 1 /\ 1 + i - 1 = i OBVIOUS
  <2> QED BY <1>5, <2>1
<1> QED BY <1>2, <1>4, <1>6

\* A machine that stops leaves the beginning of every log.
Cut(old, len, new) ==
    /\ old \in [DOMAIN old -> LogFile] /\ DOMAIN old \subseteq Nat
    /\ len \in [DOMAIN old -> 0 .. MaxSeq]
    /\ \A n \in DOMAIN old : old[n].synced <= len[n] /\ len[n] <= Len(old[n].recs)
    /\ new = [n \in DOMAIN old |-> [recs |-> SubSeq(old[n].recs, 1, len[n]), synced |-> len[n]]]

\* Logs that were cut keep what was synced, and all they hold is on the disk.
LEMMA LogsCut ==
    ASSUME NEW old, NEW len, NEW new, Cut(old, len, new)
    PROVE  /\ DOMAIN new = DOMAIN old /\ new \in [DOMAIN new -> LogFile]
           /\ \A n \in DOMAIN new : new[n].synced <= Len(new[n].recs)
           /\ \A k : KeptFrom(old, k) \subseteq KeptFrom(new, k)
                     /\ KeptFrom(new, k) = LoggedFrom(new, k)
<1> USE DEF Cut
<1>1. DOMAIN new = DOMAIN old OBVIOUS
<1>2. ASSUME NEW n \in DOMAIN old
      PROVE  /\ new[n] \in LogFile /\ new[n].synced <= Len(new[n].recs)
             /\ Kept(new[n]) = Range(new[n].recs) /\ Kept(old[n]) \subseteq Kept(new[n])
  <2> DEFINE r == old[n].recs  t == len[n]  q == SubSeq(r, 1, t)  s == old[n].synced
  <2>1. r \in Seq(1 .. MaxSeq) /\ s \in Nat /\ t \in 0 .. MaxSeq /\ s <= t /\ t <= Len(r)
    BY DEF LogFile
  <2>2. new[n] = [recs |-> q, synced |-> t] OBVIOUS
  <2>3. Kept(old[n]) = {r[i] : i \in 1 .. s} BY DEF Kept
  <2> HIDE DEF r, t, s
  <2>4. t \in Nat BY <2>1, FilesAssumption
  <2> DEFINE B == 1 .. MaxSeq
  <2>5. /\ Len(q) = t /\ q \in Seq(B) /\ DOMAIN q = 1 .. t
        /\ \A i \in 1 .. t : q[i] = r[i]
    <3> HIDE DEF B
    <3>1. r \in Seq(B) BY <2>1 DEF B
    <3>2. /\ SubSeq(r, 1, t) \in Seq(B) /\ Len(SubSeq(r, 1, t)) = t
          /\ \A i \in 1 .. t : SubSeq(r, 1, t)[i] = r[i]
      BY <2>1, <2>4, <3>1, Beginning
    <3> QED BY <3>2
  <2> HIDE DEF q
  <2>6. new[n].recs = q /\ new[n].synced = t BY <2>2
  <2>7. new[n] \in LogFile /\ new[n].synced <= Len(new[n].recs)
    <3>1. q \in Seq(1 .. MaxSeq) BY <2>5
    <3>2. t <= Len(q) BY <2>4, <2>5
    <3> QED BY <2>2, <2>4, <2>6, <3>1, <3>2 DEF LogFile
  <2>8. Kept(new[n]) = {q[i] : i \in 1 .. t} BY <2>6 DEF Kept
  <2>9. Kept(new[n]) = Range(new[n].recs) BY <2>5, <2>6, <2>8 DEF Range
  <2>10. Kept(old[n]) \subseteq Kept(new[n])
    <3> SUFFICES ASSUME NEW i \in 1 .. s PROVE r[i] \in {q[j] : j \in 1 .. t} BY <2>3, <2>8
    <3>1. i \in 1 .. t BY <2>1, <2>4
    <3> QED BY <2>5, <3>1
  <2> QED BY <2>7, <2>9, <2>10
<1>3. ASSUME NEW k
      PROVE  KeptFrom(old, k) \subseteq KeptFrom(new, k) /\ KeptFrom(new, k) = LoggedFrom(new, k)
  <2>1. ASSUME NEW x \in KeptFrom(old, k) PROVE x \in KeptFrom(new, k)
    <3>1. PICK n \in DOMAIN old : n >= k /\ x \in Kept(old[n]) BY InLogged
    <3>2. n \in DOMAIN new /\ x \in Kept(new[n]) BY <1>1, <1>2, <3>1
    <3> QED BY <3>1, <3>2, InLogged
  <2>2. \A n \in DOMAIN new : Kept(new[n]) = Range(new[n].recs) BY <1>1, <1>2
  <2>3. ASSUME NEW x PROVE x \in KeptFrom(new, k) <=> x \in LoggedFrom(new, k)
    <3>1. \A n \in DOMAIN new : x \in Kept(new[n]) <=> x \in Range(new[n].recs) BY <2>2
    <3> QED BY <3>1, InLogged
  <2> QED BY <2>1, <2>3
<1>4. new \in [DOMAIN new -> LogFile]
  <2>1. \A n \in DOMAIN new : new[n] \in LogFile BY <1>1, <1>2
  <2> QED BY <2>1
<1>5. \A n \in DOMAIN new : new[n].synced <= Len(new[n].recs) BY <1>1, <1>2
<1> HIDE DEF Cut
<1> QED BY <1>1, <1>3, <1>4, <1>5

\* A machine that stops may lose the last record of the descriptor and the ends of
\* the logs, and nothing that was synced.
LEMMA MachineStopsKeeps ==
    ASSUME FilesInv, MachineStops
    PROVE  FilesInv'
<1> USE DEF FilesInv
<1>1. /\ proc # "failed" /\ proc' = "down" /\ db' = NoDb
      /\ readers' = {} /\ bg' = <<>> /\ comp' = <<>> /\ edit' = <<>>
      /\ current # 0 => manifest[current].synced # <<>> \/ StopWhileCreating
      /\ acked' = Restored(log', IF current = 0 THEN <<>> ELSE manifest'[current].synced)
      /\ doubtful' = {} /\ UNCHANGED <<table, current, safe>>
  BY DEF MachineStops, Forget
<1>2. PICK len \in [DOMAIN log -> 0 .. MaxSeq], lost \in BOOLEAN :
           /\ \A n \in DOMAIN log : log[n].synced <= len[n] /\ len[n] <= Len(log[n].recs)
           /\ log' = [n \in DOMAIN log |-> [recs |-> SubSeq(log[n].recs, 1, len[n]),
                                            synced |-> len[n]]]
           /\ manifest' = [n \in DOMAIN manifest |->
                              [synced |-> IF lost THEN manifest[n].synced
                                          ELSE Unsynced(manifest[n]),
                               tail |-> <<>>]]
  BY DEF MachineStops
<1>3. Cut(log, len, log') BY <1>2 DEF Cut, FilesTypeOK
<1>4. /\ DOMAIN log' = DOMAIN log /\ log' \in [DOMAIN log' -> LogFile]
      /\ \A n \in DOMAIN log' : log'[n].synced <= Len(log'[n].recs)
      /\ \A k : KeptFrom(log, k) \subseteq KeptFrom(log', k)
                /\ KeptFrom(log', k) = LoggedFrom(log', k)
  BY <1>3, LogsCut
<1>5. DOMAIN manifest' = DOMAIN manifest /\ manifest' \in [DOMAIN manifest' -> Manifest]
  <2>1. ASSUME NEW n \in DOMAIN manifest PROVE manifest'[n] \in Manifest
    <3>1. manifest[n] \in Manifest BY DEF FilesTypeOK
    <3>2. (IF lost THEN manifest[n].synced ELSE Unsynced(manifest[n])) \in Opt(DescStates)
      BY <3>1 DEF Manifest, Unsynced
    <3>3. <<>> \in Opt(DescStates) BY DEF Opt
    <3> QED BY <1>2, <3>2, <3>3 DEF Manifest
  <2> QED BY <1>2, <2>1
<1> DEFINE d == manifest'[current].synced
<1>6. current # 0 => /\ d = manifest[current].synced \/ d = Last
                     /\ manifest'[current].tail = <<>>
  BY <1>2 DEF FilesTypeOK, Last
<1>7. current # 0 => d \in Opt(DescStates)
  <2>1. current # 0 => manifest'[current] \in Manifest BY <1>5 DEF FilesTypeOK
  <2> QED BY <2>1 DEF Manifest
<1> HIDE DEF d
<1>8. current # 0 => Last' = d /\ Descs' = In(d)
  <2>1. In(<<>>) = {} BY DEF In
  <2> QED BY <1>1, <1>6, <2>1 DEF Last, Descs, Says, Unsynced, d
<1>9. current = 0 => Descs' = {} BY <1>1 DEF Descs
<1>10. ASSUME NEW s \in Descs'
       PROVE  /\ current # 0 /\ s \in Descs /\ d = <<s>> /\ StateSound(s)
              /\ acked' = Found(s)' /\ safe \subseteq SeqsOf(table, s.tables) \cup KeptFrom(log', s.logNumber)
  <2>1. current # 0 BY <1>9
  <2>2. d # <<>> /\ s = d[1] /\ d = <<s>> BY <1>7, <1>8, <2>1, Slot
  <2>3. s \in Descs
    <3>1. CASE d = Last BY <2>1, <2>2, <3>1, DescFacts
    <3>2. CASE d = manifest[current].synced BY <2>1, <2>2, <3>2, DescFacts
    <3> QED BY <1>6, <2>1, <3>1, <3>2
  <2>4. StateSound(s) BY <2>3 DEF DescsSound
  <2>5. s.tables \subseteq DOMAIN table BY <2>4 DEF StateSound, WholeIn
  <2>6. acked' = Restored(log', <<s>>) BY <1>1, <2>1, <2>2 DEF d
  <2>7. acked' = Found(s)' BY <1>1, <2>5, <2>6, RestoredIs DEF Found
  <2>8. safe \subseteq SeqsOf(table, s.tables) \cup KeptFrom(log', s.logNumber)
    BY <1>4, <2>4 DEF StateSound
  <2> QED BY <2>1, <2>2, <2>3, <2>4, <2>7, <2>8
<1>11. ASSUME NEW s \in Descs' PROVE safe \subseteq acked'
  <2>1. acked' = SeqsOf(table, s.tables) \cup LoggedFrom(log', s.logNumber)
    BY <1>1, <1>10 DEF Found
  <2>2. KeptFrom(log', s.logNumber) = LoggedFrom(log', s.logNumber) BY <1>4
  <2> QED BY <1>10, <2>1, <2>2
<1>12. current = 0 \/ d = <<>> => safe = {} /\ acked' = {}
  <2>1. Restored(log', <<>>) = {} BY DEF Restored
  <2>2. current # 0 /\ d = <<>> => manifest[current].synced = <<>> BY <1>6, DescFacts
  <2> QED BY <1>1, <2>1, <2>2 DEF Created, d
<1>13. current # 0 /\ d # <<>> => d[1] \in Descs' /\ d = <<d[1]>>
  BY <1>7, <1>8, Slot
<1>14. safe \subseteq acked' BY <1>11, <1>12, <1>13
<1>15. acked' \in Numbers
  <2>1. CASE current = 0 \/ d = <<>> BY <1>12, <2>1 DEF Numbers
  <2>2. CASE current # 0 /\ d # <<>>
    <3> DEFINE s == d[1]
    <3>1. s \in Descs' BY <1>13, <2>2
    <3>2. acked' = SeqsOf(table, s.tables) \cup LoggedFrom(log', s.logNumber)
          /\ WholeIn(table, s.tables)
      BY <1>1, <1>10, <3>1 DEF Found, StateSound
    <3> HIDE DEF s
    <3>3. ASSUME NEW x \in SeqsOf(table, s.tables) PROVE x \in Nat
      <4>1. PICK n \in s.tables : x \in table[n].seqs BY DEF SeqsOf
      <4>2. table[n] \in TableFile BY <3>2 DEF FilesTypeOK, WholeIn
      <4> QED BY <4>1, <4>2 DEF TableFile, Numbers
    <3>4. ASSUME NEW x \in LoggedFrom(log', s.logNumber) PROVE x \in Nat
      <4>1. PICK n \in DOMAIN log' : x \in Range(log'[n].recs) BY InLogged
      <4>2. log'[n] \in LogFile /\ log'[n].synced <= Len(log'[n].recs) BY <1>4
      <4>3. x \in 1 .. MaxSeq BY <4>1, <4>2, KeptAreLogged
      <4> QED BY <4>3, FilesAssumption
    <3> QED BY <3>2, <3>3, <3>4 DEF Numbers
  <2> QED BY <2>1, <2>2
<1>16. FilesTypeOK'
  <2>1. NoDb \in Fields /\ {} \in Numbers BY DEF NoDb, Fields, Numbers, Opt
  <2> QED BY <1>1, <1>4, <1>5, <1>15, <2>1 DEF FilesTypeOK, Opt
<1>17. Idle' /\ Replayed' /\ Begun' /\ ~Ready'
  BY <1>1 DEF Idle, Replayed, Begun, Ready, NoDb
<1>18. Created'
  <2>1. StopWhileCreating = FALSE /\ current # 0 => d # <<>>
    <3>1. StopWhileCreating = FALSE /\ current # 0 => Last # <<>> BY DEF Created
    <3> QED BY <1>1, <1>6, <3>1
  <2>2. current' = 0 => DOMAIN log' = {} BY <1>1, <1>4 DEF Created
  <2>3. current' = 0 \/ manifest'[current'].synced = <<>> => safe' = {} BY <1>1, <1>12 DEF d
  <2>4. current' # 0 => Last' = d BY <1>1, <1>8
  <2>5. current' = 0 \/ Last' = <<>> => acked' = {} BY <1>1, <1>12, <2>4
  <2>6. safe' \subseteq acked' BY <1>1, <1>14
  <2> QED BY <1>1, <2>1, <2>2, <2>3, <2>4, <2>5, <2>6 DEF Created
<1>19. DescsSound'
  <2> SUFFICES ASSUME NEW s \in Descs' PROVE (StateSound(s) /\ s.nextFile <= Last[1].nextFile)'
    BY DEF DescsSound
  <2>1. /\ current # 0 /\ s \in Descs /\ d = <<s>> /\ StateSound(s) /\ acked' = Found(s)'
        /\ safe \subseteq SeqsOf(table, s.tables) \cup KeptFrom(log', s.logNumber)
    BY <1>10
  <2>2. Last'[1] = s BY <1>8, <2>1, Filled
  <2>3. s.nextFile <= s.nextFile BY <2>1, DescFacts DEF DescStates
  <2> QED BY <1>1, <1>17, <2>1, <2>2, <2>3 DEF StateSound
<1> QED BY <1>16, <1>17, <1>18, <1>19

-----------------------------------------------------------------------------
(* The invariant, and what it implies. *)

\* An empty directory.
LEMMA FilesInitInv ==
    ASSUME FilesInit
    PROVE  FilesInv
<1> USE DEF FilesInit
<1>1. DOMAIN <<>> = {} OBVIOUS
<1>2. FilesTypeOK
  <2>1. NoDb \in Fields /\ {} \in Numbers BY DEF NoDb, Fields, Numbers, Opt
  <2>2. /\ log \in [DOMAIN log -> LogFile] /\ table \in [DOMAIN table -> TableFile]
        /\ manifest \in [DOMAIN manifest -> Manifest]
    BY <1>1
  <2> QED BY <1>1, <2>1, <2>2 DEF FilesTypeOK, Opt
<1>3. Idle /\ Created /\ Replayed /\ Begun /\ ~Ready
  BY <1>1 DEF Idle, Created, Replayed, Begun, Ready, NoDb
<1>4. DescsSound BY DEF DescsSound, Descs
<1> QED BY <1>2, <1>3, <1>4 DEF FilesInv

\* A step of the rest of the program.
LEMMA FilesStutter ==
    ASSUME FilesInv, UNCHANGED filesVars
    PROVE  FilesInv'
<1>1. /\ log' = log /\ table' = table /\ manifest' = manifest /\ current' = current
      /\ proc' = proc /\ db' = db /\ readers' = readers /\ bg' = bg /\ comp' = comp
      /\ edit' = edit /\ acked' = acked /\ safe' = safe /\ doubtful' = doubtful
  BY DEF filesVars, directory, mind, ghost
<1> USE DEF FilesInv
<1>2. Descs' = Descs /\ Last' = Last /\ Ready' = Ready BY <1>1 DEF Descs, Says, Last, Ready
<1>3. FilesTypeOK' BY <1>1 DEF FilesTypeOK
<1>4. Idle' /\ Created' /\ Replayed' BY <1>1, <1>2 DEF Idle, Created, Replayed
<1>5. Begun' BY <1>1 DEF Begun, Recovered
<1>6. DescsSound' BY <1>1, <1>2, DescsQuiet
<1>7. Named' = Named /\ Writing' = Writing /\ Waiting' = Waiting
  BY <1>1, <1>2 DEF Named, DescTables, BaseTables, NewTables, Writing, Compacted, Waiting
<1>8. Ready => Running'
  <2> SUFFICES ASSUME Ready PROVE Running' OBVIOUS
  <2>1. TablesSound' BY <1>1, <1>7 DEF Running, TablesSound
  <2>2. Numbered' BY <1>1, <1>2 DEF Running, Numbered
  <2>3. Stored' BY <1>1, <1>2, <1>7 DEF Running, Stored
  <2>4. Described' BY <1>1 DEF Running, Described, SameVersion
  <2>5. WorkSound' BY <1>1 DEF Running, WorkSound
  <2>6. EditSound' BY <1>1, <1>2 DEF Running, EditSound
  <2> QED BY <2>1, <2>2, <2>3, <2>4, <2>5, <2>6 DEF Running
<1> QED BY <1>2, <1>3, <1>4, <1>5, <1>6, <1>8

\* Every step keeps the invariant.
LEMMA FilesStep ==
    ASSUME FilesInv, [FilesNext]_filesVars
    PROVE  FilesInv'
<1>1. CASE NewDB BY <1>1, NewDBKeeps
<1>2. CASE OpenStore BY <1>2, OpenStoreKeeps
<1>3. CASE RecoverLogFile BY <1>3, RecoverLogFileKeeps
<1>4. CASE StartDescriptor BY <1>4, StartDescriptorKeeps
<1>5. CASE SyncDescriptor BY <1>5, SyncDescriptorKeeps
<1>6. CASE SetCurrentFile BY <1>6, SetCurrentFileKeeps
<1>7. CASE Opened BY <1>7, OpenedKeeps
<1>8. ASSUME NEW sync \in BOOLEAN, Write(sync) PROVE FilesInv' BY <1>8, WriteKeeps
<1>9. CASE WriteSyncFails
  <2>1. FALSE \in BOOLEAN OBVIOUS
  <2> QED BY <1>9, <2>1, WriteKeeps
<1>10. CASE SwitchMemTable BY <1>10, SwitchMemTableKeeps
<1>11. CASE HoldVersion BY <1>11, HoldVersionKeeps
<1>12. ASSUME NEW v \in readers, DropVersion(v) PROVE FilesInv' BY <1>12, DropVersionKeeps
<1>13. CASE StartFlush BY <1>13, StartFlushKeeps
<1>14. CASE FinishFlush BY <1>14, FinishFlushKeeps
<1>15. ASSUME NEW ins \in (SUBSET db.tables) \ {{}}, StartCompaction(ins) PROVE FilesInv'
  BY <1>15, StartCompactionKeeps
<1>16. CASE FinishCompaction BY <1>16, FinishCompactionKeeps
<1>17. CASE LogEdit BY <1>17, LogEditKeeps
<1>18. CASE SyncEdit BY <1>18, SyncEditKeeps
<1>19. CASE ApplyEdit BY <1>19, ApplyEditKeeps
<1>20. CASE TableError BY <1>20, TableErrorKeeps
<1>21. CASE EditError BY <1>21, EditErrorKeeps
<1>22. CASE ProcessStops BY <1>22, ProcessStopsKeeps
<1>23. CASE MachineStops BY <1>23, MachineStopsKeeps
<1>24. CASE UNCHANGED filesVars BY <1>24, FilesStutter
<1> QED
  BY <1>1, <1>2, <1>3, <1>4, <1>5, <1>6, <1>7, <1>8, <1>9, <1>10, <1>11, <1>12, <1>13, <1>14,
     <1>15, <1>16, <1>17, <1>18, <1>19, <1>20, <1>21, <1>22, <1>23, <1>24 DEF FilesNext

\* The inductive invariant holds in every state: of opening a store, of writing,
\* flushing and compacting with the mutex released (DBImpl::Recover,
\* DBImpl::BackgroundCompaction, VersionSet::LogAndApply), and of what a stop
\* leaves on the disk.
THEOREM FilesInvariant == FilesSpec => []FilesInv
<1>1. FilesInit => FilesInv BY FilesInitInv
<1>2. FilesInv /\ [FilesNext]_filesVars => FilesInv' BY FilesStep
<1> QED BY <1>1, <1>2, PTL DEF FilesSpec

\* A stop of the process.
LEMMA WhatIsFound ==
    ASSUME FilesInv
    PROVE  RestartFindsAll
<1> USE DEF FilesInv
<1>1. CASE current = 0 \/ Last = <<>>
  <2>1. Descriptor = <<>> BY <1>1 DEF Descriptor, Last
  <2>2. OnDisk = {} BY <2>1 DEF OnDisk, Restored
  <2> QED BY <1>1, <2>2 DEF Created, RestartFindsAll
<1>2. CASE current # 0 /\ Last # <<>>
  <2>1. OnDisk = Found(Last[1]) BY <1>2, OnDiskIs
  <2>2. StateSound(Last[1]) /\ Last = <<Last[1]>> BY <1>2, DescFacts DEF DescsSound
  <2> QED BY <2>1, <2>2 DEF StateSound, RestartFindsAll
<1> QED BY <1>1, <1>2

\* "If it is just the process that crashes, no writes will be lost": whenever the
\* process stops, the logs and the tables DBImpl::Recover would read hold every
\* acknowledged write, and nothing that was never written.
THEOREM NoWriteIsLost == FilesSpec => []RestartFindsAll
<1>1. FilesInv => RestartFindsAll BY WhatIsFound
<1> QED BY <1>1, FilesInvariant, PTL

\* A stop of the machine.
LEMMA WhatIsSynced ==
    ASSUME FilesInv
    PROVE  SyncedSurvive
<1> USE DEF FilesInv
<1>1. ASSUME NEW k PROVE LoggedFrom(SyncedLogs, k) = KeptFrom(log, k)
  <2>1. DOMAIN SyncedLogs = DOMAIN log BY DEF SyncedLogs
  <2>2. ASSUME NEW n \in DOMAIN log PROVE Range(SyncedLogs[n].recs) = Kept(log[n])
    <3> DEFINE B == 1 .. MaxSeq  r == log[n].recs  t == log[n].synced
    <3>1. r \in Seq(B) /\ t \in Nat /\ t <= Len(r) BY DEF FilesTypeOK, LogFile
    <3>2. SyncedLogs[n].recs = SubSeq(r, 1, t) BY DEF SyncedLogs
    <3>3. Kept(log[n]) = {r[i] : i \in 1 .. t} BY DEF Kept
    <3> HIDE DEF B, r, t
    <3>4. /\ SubSeq(r, 1, t) \in Seq(B) /\ Len(SubSeq(r, 1, t)) = t
          /\ \A i \in 1 .. t : SubSeq(r, 1, t)[i] = r[i]
      BY <3>1, Beginning
    <3>5. DOMAIN SubSeq(r, 1, t) = 1 .. t BY <3>4
    <3> QED BY <3>2, <3>3, <3>4, <3>5 DEF Range
  <2>3. ASSUME NEW x PROVE x \in LoggedFrom(SyncedLogs, k) <=> x \in KeptFrom(log, k)
    <3>1. \A n \in DOMAIN log : x \in Kept(log[n]) <=> x \in Range(SyncedLogs[n].recs) BY <2>2
    <3> QED BY <2>1, <3>1, InLogged
  <2> QED BY <2>3
<1>2. ASSUME NEW st \in Descs PROVE safe \subseteq Restored(SyncedLogs, <<st>>)
  <2>1. StateSound(st) BY DEF DescsSound
  <2>2. st.tables \subseteq DOMAIN table BY <2>1 DEF StateSound, WholeIn
  <2> QED BY <1>1, <2>1, <2>2, RestoredIs DEF StateSound
<1>3. safe \subseteq Restored(SyncedLogs, Descriptor)
  <2>1. CASE current = 0 \/ Last = <<>>
    <3>1. safe = {}
      BY <2>1, DescFacts DEF Created
    <3> QED BY <3>1
  <2>2. CASE current # 0 /\ Last # <<>>
    <3>1. Descriptor = <<Last[1]>> /\ Last[1] \in Descs BY <2>2, DescFacts DEF Descriptor, Last
    <3> QED BY <1>2, <3>1
  <2> QED BY <2>1, <2>2
<1>4. current # 0 /\ manifest[current].synced # <<>> =>
          safe \subseteq Restored(SyncedLogs, manifest[current].synced)
  BY <1>2, DescFacts
<1> QED BY <1>3, <1>4 DEF SyncedSurvive

\* A write acknowledged with WriteOptions::sync is found after any stop: what the
\* synced part of the logs, the whole tables, and either state the descriptor may
\* come back with hold.
THEOREM SyncedWritesSurvive == FilesSpec => []SyncedSurvive
<1>1. FilesInv => SyncedSurvive BY WhatIsSynced
<1> QED BY <1>1, FilesInvariant, PTL

\* Lookups.
LEMMA WhatIsRead ==
    ASSUME FilesInv
    PROVE  ReadsComplete
<1> SUFFICES ASSUME proc = "open"
             PROVE  acked = db.mem \cup (IF db.imm = <<>> THEN {} ELSE db.imm[1])
                       \cup (UNION {table[n].seqs : n \in db.tables \cap DOMAIN table})
  BY DEF ReadsComplete
<1>1. Stored /\ TablesSound BY DEF FilesInv, Ready, Running
<1>2. db.tables \cap DOMAIN table = db.tables BY <1>1 DEF TablesSound, WholeIn, Named
<1>3. Waiting = IF db.imm = <<>> THEN {} ELSE db.imm[1] BY DEF Waiting, In
<1> QED BY <1>1, <1>2, <1>3 DEF Stored, SeqsOf

\* The memtables and the tables of the current version hold every acknowledged
\* write at every step of a flush or a compaction, so that DBImpl::Get misses
\* none while the mutex is released.
THEOREM NoReadMisses == FilesSpec => []ReadsComplete
<1>1. FilesInv => ReadsComplete BY WhatIsRead
<1> QED BY <1>1, FilesInvariant, PTL

\* Tables.
LEMMA WhatIsNamed ==
    ASSUME FilesInv
    PROVE  FilesPresent
<1> USE DEF FilesInv
<1>1. Descriptor # <<>> => current # 0 /\ Descriptor[1] \in Descs
  <2>1. current # 0 => Descriptor = Last BY DEF Descriptor, Last
  <2>2. Descriptor # <<>> => current # 0 BY DEF Descriptor
  <2> QED BY <2>1, <2>2, DescFacts
<1>2. current # 0 /\ manifest[current].synced # <<>> => manifest[current].synced[1] \in Descs
  BY DescFacts
<1>3. \A st \in Descs : \A n \in st.tables : n \in DOMAIN table /\ table[n].whole
  BY DEF DescsSound, StateSound, WholeIn
<1>4. CASE proc = "open"
  <2>1. \A n \in Named : n \in DOMAIN table /\ table[n].whole
    BY <1>4 DEF Ready, Running, TablesSound, WholeIn
  <2>2. comp # <<>> => comp[1].ins \subseteq comp[1].base
    BY <1>4 DEF Ready, Running, WorkSound
  <2>3. /\ \A n \in db.tables : n \in DOMAIN table /\ table[n].whole
        /\ \A n \in UNION readers : n \in DOMAIN table /\ table[n].whole
        /\ comp # <<>> => \A n \in comp[1].ins : n \in DOMAIN table /\ table[n].whole
    BY <2>1, <2>2, InNamed
  <2> QED BY <1>1, <1>2, <1>3, <2>3 DEF FilesPresent
<1>5. CASE proc # "open"
  <2>1. readers = {} /\ comp = <<>> BY <1>5 DEF Idle
  <2> QED BY <1>1, <1>2, <1>3, <1>5, <2>1 DEF FilesPresent
<1> QED BY <1>4, <1>5

\* DBImpl::DeleteObsoleteFiles never removes, and no version ever names before it
\* is whole, a table that the current version, a reader, the compaction or a state
\* the descriptor may come back with needs.
THEOREM NeededTablesStay == FilesSpec => []FilesPresent
<1>1. FilesInv => FilesPresent BY WhatIsNamed
<1> QED BY <1>1, FilesInvariant, PTL

\* Numbers.
LEMMA WhatIsFresh ==
    ASSUME FilesInv
    PROVE  NumbersFresh
<1> USE DEF FilesInv
<1> SUFFICES ASSUME proc = "open"
             PROVE  /\ \A s \in OnDisk : s <= db.lastSeq
                    /\ \A n \in DOMAIN log \cup db.tables \cup db.pending \cup {db.manifestNum} :
                           n < db.nextFile
  BY DEF NumbersFresh
<1>1. Running /\ Numbered /\ TablesSound BY DEF Ready, Running
<1>2. current # 0 /\ Last # <<>> /\ Last[1] \in Descs BY OpenFacts
<1>3. \A s \in OnDisk : s <= db.lastSeq
  <2>1. OnDisk \subseteq acked \cup doubtful
    BY <1>2, OnDiskIs DEF DescsSound, StateSound, Ready
  <2> QED BY <1>1, <2>1 DEF Numbered
<1>4. \A n \in DOMAIN log : n < db.nextFile
  <2> TAKE n \in DOMAIN log
  <2>1. n <= db.logfile /\ db.logfile < db.nextFile BY <1>1 DEF Numbered
  <2>2. n \in Nat /\ db.logfile \in Nat /\ db.nextFile \in Nat BY DEF FilesTypeOK, Fields
  <2> QED BY <2>1, <2>2
<1>5. \A n \in db.tables \cup db.pending : n < db.nextFile
  BY <1>1 DEF TablesSound, Named
<1> QED BY <1>1, <1>3, <1>4, <1>5 DEF Numbered

\* The next sequence number and the next file number are above everything the disk
\* holds, so that no write is hidden by an older one and no file in use is written
\* over, also when the last process recorded neither number.
THEOREM NumbersStayFresh == FilesSpec => []NumbersFresh
<1>1. FilesInv => NumbersFresh BY WhatIsFresh
<1> QED BY <1>1, FilesInvariant, PTL

\* When the machine does not stop between DBImpl::NewDB and the first sync of a
\* descriptor, VersionSet::Recover never finds the descriptor empty or a table
\* missing.
THEOREM OpeningSucceeds ==
    ASSUME StopWhileCreating = FALSE
    PROVE  FilesSpec => []OpenSucceeds
<1>1. FilesInv => OpenSucceeds BY DEF FilesInv, Created, OpenSucceeds
<1> QED BY <1>1, FilesInvariant, PTL
=============================================================================
