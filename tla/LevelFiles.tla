----------------------------- MODULE LevelFiles -----------------------------
(***************************************************************************)
(* A version of the store: the table files of each level, how a lookup     *)
(* searches them and how a compaction picks its inputs.                    *)
(*                                                                         *)
(* An entry is a user key, the sequence number of the write and whether it *)
(* is a deletion.  A file is its number and its entries, with the two      *)
(* bounds the descriptor keeps for it.  Byte sizes are left out: where the *)
(* code compares one with a limit, the model takes either outcome.         *)
(***************************************************************************)
EXTENDS Integers, FiniteSets, FiniteSetsExt

CONSTANTS
    Keys,               \* user keys, integers in comparator order
    NumLevels,          \* config::kNumLevels
    MaxMemCompactLevel, \* config::kMaxMemCompactLevel
    L0Trigger,          \* config::kL0_CompactionTrigger
    MaxSeq              \* bound: writes in one behaviour

ASSUME LevelsAssumption ==
    /\ Keys \subseteq Nat
    /\ NumLevels \in Nat /\ MaxMemCompactLevel \in 1 .. NumLevels - 2
    /\ L0Trigger \in Nat \ {0}
    /\ MaxSeq \in Nat

Levels == 0 .. NumLevels - 1

\* Greater than the number of any write.
kMaxSequenceNumber == MaxSeq + 1

\* InternalKeyComparator: user key up, sequence number down.
Before(e, f) == e.key < f.key \/ (e.key = f.key /\ e.seq > f.seq)

FirstOf(ents) == CHOOSE e \in ents : \A f \in ents : f = e \/ Before(e, f)
LastOf(ents)  == CHOOSE e \in ents : \A f \in ents : f = e \/ Before(f, e)

\* The FileMetaData of a table built from a non-empty set of entries.
FileOf(n, ents) ==
    [num |-> n, ents |-> ents, smallest |-> FirstOf(ents), largest |-> LastOf(ents)]

EmptyVersion == [l \in Levels |-> {}]

\* Builder: the files of a level without the deleted ones, with the new ones.
Apply(v, l, deleted, added) == [v EXCEPT ![l] = (@ \ deleted) \cup added]

-----------------------------------------------------------------------------
(* Searching. *)

\* The key a lookup of k at snapshot s seeks: it stands before every entry of
\* k whose sequence number is at most s, and after the newer ones.
LookupKey(k, s) == [key |-> k, seq |-> s]

\* The first file of a sorted level that ends at or after the target, as a set.
FindFile(files, target) ==
    LET ends == {f \in files : ~Before(f.largest, target)}
    IN  {f \in ends : \A g \in ends : g = f \/ Before(f.smallest, g.smallest)}

\* The files of level l a lookup opens.
Candidates(v, l, k, s) ==
    IF l = 0
    THEN {f \in v[0] : f.smallest.key <= k /\ k <= f.largest.key}
    ELSE {f \in FindFile(v[l], LookupKey(k, s)) : f.smallest.key <= k}

\* Faulty variant: level 0 from the oldest file to the newest.
SearchedBeforeOldest(h, g) == h[1] < g[1] \/ (h[1] = g[1] /\ h[2].num < g[2].num)

\* Levels in order, and level 0 from the newest file to the oldest.
SearchedBefore(h, g) == h[1] < g[1] \/ (h[1] = g[1] /\ h[2].num > g[2].num)

FirstSearched(hits) == CHOOSE h \in hits : \A g \in hits : g = h \/ SearchedBefore(h, g)

Opened(v, k, s) == UNION {{l} \X Candidates(v, l, k, s) : l \in Levels}

\* What is visible of key k at snapshot s among some entries, and the newest of it.
Visible(ents, k, s) == {e \in ents : e.key = k /\ e.seq <= s}
Newest(ents)        == CHOOSE e \in ents : \A f \in ents : f.seq <= e.seq

\* The value of an entry: the number of its write, 0 when it is a deletion.
ValueOf(e) == IF e.del THEN 0 ELSE e.seq

ValueIn(ents, k, s) ==
    LET seen == Visible(ents, k, s)
    IN  IF seen = {} THEN 0 ELSE ValueOf(Newest(seen))

\* Version::Get: the first file opened that has an entry decides.
VersionGet(v, k, s) ==
    LET hits == {h \in Opened(v, k, s) : Visible(h[2].ents, k, s) # {}}
    IN  IF hits = {} THEN 0 ELSE ValueIn(FirstSearched(hits)[2].ents, k, s)

\* UpdateStats and RecordReadSample: a file is charged when a lookup or a read
\* sample opens it first and finds a second file to open.
SeekCharged(v, lastSeq) ==
    LET Searches == {Opened(v, k, s) : k \in Keys, s \in 0 .. lastSeq}
    IN  {FirstSearched(o) : o \in {p \in Searches : Cardinality(p) > 1}}

-----------------------------------------------------------------------------
(* Overlap. *)

\* The files whose user keys meet the range from b to e.
Touching(files, b, e) == {f \in files : f.largest.key >= b /\ f.smallest.key <= e}

\* On a sorted level only the first file that could reach b is looked at.
OverlapInLevel(v, l, b, e) ==
    IF l = 0
    THEN Touching(v[0], b, e) # {}
    ELSE \E f \in FindFile(v[l], LookupKey(b, kMaxSequenceNumber)) : f.smallest.key <= e

\* Least and greatest user key of some files and a range.
LoKey(files, b) == Min({b} \cup {f.smallest.key : f \in files})
HiKey(files, e) == Max({e} \cup {f.largest.key : f \in files})

\* On level 0 every file taken may widen the range, which starts the search again.
GetOverlappingInputs(v, l, b, e) ==
    LET widened[i \in 0 .. Cardinality(v[l])] ==
            IF i = 0 THEN Touching(v[l], b, e)
            ELSE Touching(v[l], LoKey(widened[i - 1], b), HiKey(widened[i - 1], e))
    IN  IF l = 0 THEN widened[Cardinality(v[l])] ELSE Touching(v[l], b, e)

\* The files of level l under the user keys the given files span.
Under(v, l, files) ==
    LET first == CHOOSE f \in files : TRUE
    IN  GetOverlappingInputs(v, l, LoKey(files, first.smallest.key),
                                   HiKey(files, first.largest.key))

-----------------------------------------------------------------------------
(* Choosing the level of a new table and the inputs of a compaction. *)

\* Faulty variant: only the level it goes to is looked at.
PickLevelsBelow(v, b, e) ==
    {0} \cup {l \in 1 .. MaxMemCompactLevel : ~OverlapInLevel(v, l, b, e)}

\* The levels PickLevelForMemTableOutput may return for keys b to e: it goes
\* down while nothing overlaps, and may stop early over too many bytes of the
\* level after the next one.
PickLevels(v, b, e) ==
    LET Clear(l)  == ~OverlapInLevel(v, l, b, e)
        Deepest   == {l \in 0 .. MaxMemCompactLevel : \A m \in 0 .. l : Clear(m)}
        MayStop(l) == l + 2 < NumLevels /\ GetOverlappingInputs(v, l + 2, b, e) # {}
    IN  IF Deepest = {} THEN {0}
        ELSE {Max(Deepest)} \cup {l \in Deepest : MayStop(l)}

\* Faulty variant: the next level is left out.
SetupOneLevel(v, l, in0) == {<<in0, {}>>}

\* The inputs SetupOtherInputs may settle on.  The files of the level are grown
\* to those under the whole range if that takes no further file of the next
\* level, and if the result is not too large.
SetupOtherInputs(v, l, in0) ==
    LET in1  == Under(v, l + 1, in0)
        exp0 == Under(v, l, in0 \cup in1)
        exp1 == Under(v, l + 1, exp0)
        MayGrow == /\ in1 # {}
                   /\ Cardinality(exp0) > Cardinality(in0)
                   /\ Cardinality(exp1) = Cardinality(in1)
    IN  {<<in0, in1>>} \cup IF MayGrow THEN {<<exp0, exp1>>} ELSE {}

\* The levels a compaction by size may start from: level 0 by its number of
\* files, the others by their bytes.
SizeLevels(v) ==
    {l \in 0 .. NumLevels - 2 : IF l = 0 THEN Cardinality(v[0]) >= L0Trigger
                                ELSE v[l] # {}}

\* PickCompaction: the next file of a level that is too large, or a file that
\* lookups were charged with; on level 0 with all that overlap it.
PickCompaction(v, lastSeq) ==
    LET Picked == (UNION {{l} \X v[l] : l \in SizeLevels(v)}) \cup SeekCharged(v, lastSeq)
    IN  UNION {LET in0 == IF p[1] = 0 THEN Under(v, 0, {p[2]}) ELSE {p[2]}
               IN  {p[1]} \X SetupOtherInputs(v, p[1], in0) : p \in Picked}

\* CompactRange: all files of the level in the range; past level 0 the byte
\* limit may leave only the first of them.
CompactRange(v, l, b, e) ==
    LET all      == GetOverlappingInputs(v, l, b, e)
        Prefixes == IF l = 0 THEN {all}
                    ELSE {{g \in all : ~Before(f.smallest, g.smallest)} : f \in all}
    IN  IF all = {} THEN {}
        ELSE UNION {{l} \X SetupOtherInputs(v, l, in0) : in0 \in Prefixes}

\* IsTrivialMove, where the shape allows it and where it may still be refused
\* over the bytes of the grandparents.
MovableShape(ins)      == Cardinality(ins[1]) = 1 /\ ins[2] = {}
MoveMayBeRefused(v, l, ins) ==
    l + 2 < NumLevels /\ Under(v, l + 2, ins[1] \cup ins[2]) # {}

-----------------------------------------------------------------------------
(* The work of a compaction. *)

\* No file of a level below the output has the key in its range.
IsBaseLevelForKey(v, l, k) == \A m \in l + 2 .. NumLevels - 1 : Touching(v[m], k, k) = {}

\* The entries of the inputs that are not dropped: those not hidden by a newer
\* one that every snapshot sees, but for deletions with nothing left to delete.
Survivors(c) ==
    LET all == UNION {f.ents : f \in c.in0 \cup c.in1}
        Hidden(e) == \E n \in all : n.key = e.key /\ n.seq > e.seq /\ n.seq <= c.smallest
        Obsolete(e) == /\ e.del /\ e.seq <= c.smallest
                       /\ IsBaseLevelForKey(c.base, c.level, e.key)
    IN  {e \in all : ~Hidden(e) /\ ~Obsolete(e)}

\* The files those entries are written to, one for each place a file begins at.
\* A file is closed over its size or over what it overlaps two levels down.
Runs(ents, starts) ==
    LET all == {FirstOf(ents)} \cup starts
    IN  {{e \in ents : /\ ~Before(e, s)
                       /\ \A t \in all : Before(s, t) => Before(e, t)} : s \in all}

Numbered(runs, next) ==
    {FileOf(next + Cardinality({r \in runs : Before(FirstOf(r), FirstOf(x))}), x) : x \in runs}
=============================================================================
