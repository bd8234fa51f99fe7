---------------------------- MODULE SortedTable ----------------------------
(***************************************************************************)
(* One leveldb table file: TableBuilder packs sorted keys into blocks with *)
(* shared prefixes and restart points, and writes an index of shortened    *)
(* keys and filters; Block::Iter, TwoLevelIterator and Table::InternalGet  *)
(* find them again, with blocks among them that cannot be read.            *)
(*                                                                         *)
(* An internal key is the sequence of the bytes of the user key followed   *)
(* by the sequence number.  Offsets in a block count entries; offsets in   *)
(* the file count units in which FilterBase is kFilterBase.                *)
(***************************************************************************)
EXTENDS Integers, Sequences, SequencesExt, FiniteSets

CONSTANTS
    UserKeys,           \* sequences of bytes
    MaxByte,            \* 0xff
    MaxSeq,             \* bound: sequence numbers of entries
    MaxEntries,         \* bound: entries of a table
    RestartInterval,    \* block_restart_interval
    FilterBase,         \* kFilterBase
    BlockSizes          \* lengths of the blocks written

VARIABLES
    dataBlock,      \* the keys in data_block
    blocks,         \* the blocks written, with their offsets
    index,          \* the keys of index_block
    pending,        \* pending_index_entry
    offset,         \* offset of the file
    filters,        \* the filters generated: the user keys that match
    filterKeys,     \* the user keys waiting in the filter block
    phase,          \* "building", or "finished"
    bad,            \* blocks of the finished table that cannot be read
    iter,           \* the TwoLevelIterator over it
    want            \* the keys the last call should have gone to

tableVars == <<dataBlock, blocks, index, pending, offset, filters, filterKeys, phase, bad, iter, want>>

UserOf(k) == Front(k)
NumberOf(k)  == Last(k)
Top       == MaxSeq + 1                 \* kMaxSequenceNumber

\* Slice::compare: the first byte that differs decides, then the length.  Of one
\* user key the greater sequence number comes first.
Smaller(a, b) ==
    \/ IsStrictPrefix(a, b)
    \/ \E i \in 1 .. Len(a) : i <= Len(b) /\ a[i] < b[i] /\ SubSeq(a, 1, i - 1) = SubSeq(b, 1, i - 1)
Before(j, k) == Smaller(UserOf(j), UserOf(k)) \/ (UserOf(j) = UserOf(k) /\ NumberOf(j) > NumberOf(k))

Entries == {Append(u, n) : u \in UserKeys, n \in 1 .. MaxSeq}

-----------------------------------------------------------------------------
(* Shorter keys for the index. *)

Shared(a, b) ==
    LET n == IF Len(a) < Len(b) THEN Len(a) ELSE Len(b)
    IN  CHOOSE i \in 0 .. n : SubSeq(a, 1, i) = SubSeq(b, 1, i) /\ (i = n \/ a[i + 1] # b[i + 1])

Bumped(a, i) == Append(SubSeq(a, 1, i - 1), a[i] + 1)

\* BytewiseComparatorImpl, on user keys.
UserSeparator(a, b) ==
    LET i == Shared(a, b) + 1
    IN  IF i <= Len(a) /\ i <= Len(b) /\ a[i] < MaxByte /\ a[i] + 1 < b[i] THEN Bumped(a, i) ELSE a

UserSuccessor(a) ==
    IF \A i \in 1 .. Len(a) : a[i] = MaxByte THEN a
    ELSE Bumped(a, CHOOSE i \in 1 .. Len(a) :
                       a[i] # MaxByte /\ \A j \in 1 .. i - 1 : a[j] = MaxByte)

\* InternalKeyComparator: taken when it is shorter and larger, with the number that
\* comes first.
Shortened(k, u) ==
    IF Len(u) < Len(UserOf(k)) /\ Smaller(UserOf(k), u) THEN Append(u, Top) ELSE k

Separator(j, k) == Shortened(j, UserSeparator(UserOf(j), UserOf(k)))
Successor(k)    == Shortened(k, UserSuccessor(UserOf(k)))

-----------------------------------------------------------------------------
(* Blocks. *)

\* BlockBuilder::Add, for each key of ks: every interval-th starts afresh.
Block(ks, interval) ==
    [i \in DOMAIN ks |->
        LET n == IF (i - 1) % interval = 0 THEN 0 ELSE Shared(ks[i - 1], ks[i])
        IN  [shared |-> n, rest |-> SubSeq(ks[i], n + 1, Len(ks[i])),
             restart |-> (i - 1) % interval = 0]]

\* Block::Iter: the entry it is at and key_, which holds what it parsed last.
NoEntry == [i |-> 0, key |-> <<>>]

\* ParseNextKey, from entry p.i on to the next.
Parse(b, p, i) ==
    IF i > Len(b) THEN NoEntry
    ELSE [i |-> i, key |-> SubSeq(p.key, 1, b[i].shared) \o b[i].rest]

BlockNext(b, p) == Parse(b, p, p.i + 1)

RECURSIVE ParseUpTo(_, _, _)
ParseUpTo(b, p, last) == IF p.i = last THEN p ELSE ParseUpTo(b, BlockNext(b, p), last)

FromRestart(b, r) == Parse(b, NoEntry, r)

RestartBefore(b, i) == CHOOSE r \in 1 .. i - 1 :
                           b[r].restart /\ \A s \in r + 1 .. i - 1 : ~b[s].restart

BlockPrev(b, p) ==
    IF p.i = 1 THEN NoEntry ELSE ParseUpTo(b, FromRestart(b, RestartBefore(b, p.i)), p.i - 1)

BlockFirst(b) == FromRestart(b, 1)
BlockLast(b)  == ParseUpTo(b, FromRestart(b, RestartBefore(b, Len(b) + 1)), Len(b))

\* Seek: binary search among the restart points, then entry by entry.
RECURSIVE Bisect(_, _, _, _, _)
Bisect(b, points, target, left, right) ==
    LET mid == (left + right + 1) \div 2
    IN  IF left >= right THEN points[left]
        ELSE IF Before(b[points[mid]].rest, target) THEN Bisect(b, points, target, mid, right)
        ELSE Bisect(b, points, target, left, mid - 1)

RECURSIVE Scan(_, _, _)
Scan(b, p, target) ==
    IF p.i = 0 \/ ~Before(p.key, target) THEN p ELSE Scan(b, BlockNext(b, p), target)

BlockSeek(b, target) ==
    LET points == SelectSeq([i \in DOMAIN b |-> i], LAMBDA i : b[i].restart)
    IN  Scan(b, FromRestart(b, Bisect(b, points, target, 1, Len(points))), target)

-----------------------------------------------------------------------------
(* Filters. *)

\* Faulty variant: the empty filters come first.
StartBlockLast(off, ks) ==
    LET missing == off \div FilterBase - Len(filters)
    IN  IF missing <= 0
        THEN filters' = filters /\ filterKeys' = ks
        ELSE /\ filters' = filters \o [i \in 1 .. missing |-> IF i = missing THEN ks ELSE {}]
             /\ filterKeys' = {}

\* FilterBlockBuilder::StartBlock, when the file has grown to off: the keys ks go
\* to the first filter it is short of, the others are empty.
StartBlock(off, ks) ==
    LET missing == off \div FilterBase - Len(filters)
    IN  IF missing <= 0
        THEN filters' = filters /\ filterKeys' = ks
        ELSE /\ filters' = filters \o [i \in 1 .. missing |-> IF i = 1 THEN ks ELSE {}]
             /\ filterKeys' = {}

\* FilterBlockReader::KeyMayMatch, for the block at off.
Excluded(off, user) ==
    LET n == off \div FilterBase + 1
    IN  n <= Len(filters) /\ user \notin filters[n]

-----------------------------------------------------------------------------
(* The builder. *)

NoIter == [index |-> NoEntry, block |-> 0, at |-> NoEntry, error |-> FALSE]

TableInit ==
    /\ dataBlock = <<>> /\ blocks = <<>> /\ index = <<>> /\ pending = FALSE
    /\ offset = 0 /\ filters = <<>> /\ filterKeys = {}
    /\ phase = "building" /\ bad = {} /\ iter = NoIter
    /\ want = [readable |-> <<>>, whole |-> <<>>]

LastKey == IF dataBlock # <<>> THEN Last(dataBlock) ELSE Last(Last(blocks).keys)
Count   == Len(dataBlock) + FoldLeft(LAMBDA n, b : n + Len(b.keys), 0, blocks)

Flush(ks, fks, size) ==
    /\ dataBlock' = <<>> /\ pending' = TRUE
    /\ blocks' = Append(blocks, [at |-> offset, keys |-> ks])
    /\ offset' = offset + size
    /\ StartBlock(offset + size, fks)

\* Add: the index entry of the block before is only written now, and the block may
\* be large enough to be written at once.
Add(k) ==
    /\ phase = "building" /\ Count < MaxEntries /\ (Count > 0 => Before(LastKey, k))
    /\ index' = IF pending THEN Append(index, Separator(LastKey, k)) ELSE index
    /\ LET ks  == Append(dataBlock, k)
           fks == filterKeys \cup {UserOf(k)}
       IN  \/ /\ dataBlock' = ks /\ pending' = FALSE /\ filterKeys' = fks
              /\ UNCHANGED <<blocks, offset, filters>>
           \/ \E size \in BlockSizes : Flush(ks, fks, size)
    /\ UNCHANGED <<phase, bad, iter, want>>

\* Finish begins with a Flush, which does nothing when the block is empty.
LastFlush ==
    /\ phase = "building" /\ dataBlock # <<>>
    /\ \E size \in BlockSizes : Flush(dataBlock, filterKeys, size)
    /\ UNCHANGED <<index, phase, bad, iter, want>>

\* The rest of Finish; then the table is opened, and some of its blocks cannot be
\* read.
Finish(unreadable) ==
    /\ phase = "building" /\ pending
    /\ phase' = "finished" /\ pending' = FALSE
    /\ filters' = IF filterKeys # {} THEN Append(filters, filterKeys) ELSE filters
    /\ filterKeys' = {}
    /\ index' = Append(index, Successor(LastKey))
    /\ bad' = unreadable
    /\ UNCHANGED <<dataBlock, blocks, offset, iter, want>>

-----------------------------------------------------------------------------
(* The table's readers.  Entry n of the index leads to block n. *)

Index   == Block(index, 1)
Data(n) == Block(blocks[n].keys, RestartInterval)

\* Faulty variant: the status is lost.
SetDataForgets(it, n) == [it EXCEPT !.block = n, !.at = NoEntry]

\* SetDataIterator, which saves the status of the iterator it replaces.
SetData(it, n) == [it EXCEPT !.error = @ \/ it.block \in bad, !.block = n, !.at = NoEntry]

InitDataBlock(it) ==
    IF it.block # 0 /\ it.block = it.index.i THEN it ELSE SetData(it, it.index.i)

\* What an operation of the block's iterator does; an iterator of an unreadable
\* block has no entry.
Opened(it)        == it.block \notin {0} \cup bad
DataSeek(it, k)   == IF Opened(it) THEN [it EXCEPT !.at = BlockSeek(Data(it.block), k)] ELSE it
DataFirst(it)     == IF Opened(it) THEN [it EXCEPT !.at = BlockFirst(Data(it.block))] ELSE it
DataLast(it)      == IF Opened(it) THEN [it EXCEPT !.at = BlockLast(Data(it.block))] ELSE it

RECURSIVE SkipForward(_)
SkipForward(it) ==
    IF it.at # NoEntry THEN it
    ELSE IF it.index.i = 0 THEN SetData(it, 0)
    ELSE SkipForward(DataFirst(InitDataBlock([it EXCEPT !.index = BlockNext(Index, @)])))

RECURSIVE SkipBackward(_)
SkipBackward(it) ==
    IF it.at # NoEntry THEN it
    ELSE IF it.index.i = 0 THEN SetData(it, 0)
    ELSE SkipBackward(DataLast(InitDataBlock([it EXCEPT !.index = BlockPrev(Index, @)])))

\* The keys in order, of the whole table and of the blocks that can be read.
KeysOf(S)       == UNION {ToSet(blocks[n].keys) : n \in S}
FirstIn(S)      == IF S = {} THEN <<>> ELSE CHOOSE k \in S : \A j \in S \ {k} : Before(k, j)
LastIn(S)       == IF S = {} THEN <<>> ELSE CHOOSE k \in S : \A j \in S \ {k} : Before(j, k)
Wanted(Pick(_)) == want' = [readable |-> Pick(KeysOf(DOMAIN blocks \ bad)),
                            whole    |-> Pick(KeysOf(DOMAIN blocks))]

Moves(it) ==
    /\ phase = "finished"
    /\ iter' = it
    /\ UNCHANGED <<dataBlock, blocks, index, pending, offset, filters, filterKeys, phase, bad>>

Seek(k) ==
    /\ Moves(SkipForward(DataSeek(InitDataBlock([iter EXCEPT !.index = BlockSeek(Index, k)]), k)))
    /\ Wanted(LAMBDA S : FirstIn({j \in S : ~Before(j, k)}))

SeekToFirst ==
    /\ Moves(SkipForward(DataFirst(InitDataBlock([iter EXCEPT !.index = BlockFirst(Index)]))))
    /\ Wanted(LAMBDA S : FirstIn(S))

SeekToLast ==
    /\ Moves(SkipBackward(DataLast(InitDataBlock([iter EXCEPT !.index = BlockLast(Index)]))))
    /\ Wanted(LAMBDA S : LastIn(S))

Next ==
    /\ iter.at # NoEntry
    /\ Moves(SkipForward([iter EXCEPT !.at = BlockNext(Data(iter.block), @)]))
    /\ Wanted(LAMBDA S : FirstIn({j \in S : Before(iter.at.key, j)}))

Prev ==
    /\ iter.at # NoEntry
    /\ Moves(SkipBackward([iter EXCEPT !.at = BlockPrev(Data(iter.block), @)]))
    /\ Wanted(LAMBDA S : LastIn({j \in S : Before(j, iter.at.key)}))

\* InternalGet, and SaveValue's comparison of the user key: the outcomes there can
\* be, for a filter may take any key for one of its own.
NotThere == [error |-> FALSE, key |-> <<>>]

BlockGet(n, k) ==
    LET p == BlockSeek(Data(n), k)
    IN  IF n \in bad THEN [error |-> TRUE, key |-> <<>>]
        ELSE IF p = NoEntry \/ UserOf(p.key) # UserOf(k) THEN NotThere
        ELSE [error |-> FALSE, key |-> p.key]

InternalGet(k) ==
    LET n == BlockSeek(Index, k).i
    IN  IF n = 0 THEN {NotThere}
        ELSE {BlockGet(n, k)} \cup
             (IF Excluded(blocks[n].at, UserOf(k)) THEN {NotThere} ELSE {})

TableNext ==
    \/ \E k \in Entries : Add(k) \/ (phase = "finished" /\ Seek(k))
    \/ LastFlush
    \/ \E unreadable \in SUBSET DOMAIN blocks : Finish(unreadable)
    \/ phase = "finished" /\ (SeekToFirst \/ SeekToLast \/ Next \/ Prev)

TableSpec == TableInit /\ [][TableNext]_tableVars

-----------------------------------------------------------------------------
(* Properties. *)

\* A walk over the table, forwards and backwards, shows every entry of the blocks
\* that can be read, in order, with the key that was added; where it passes over an
\* unreadable block the iterator's status says so.
TableWalksAreTrue ==
    /\ iter.at.key = want.readable
    /\ want.readable # want.whole => iter.error \/ iter.block \in bad

\* Whatever the separators, restart points and filters are, a lookup finds the
\* newest entry of its key that is old enough, in the only block it looks at; it
\* fails when that block cannot be read, and does not take the next one.  (Lookups
\* do not depend on the iterator.)
LookupsAgree ==
    phase = "finished" /\ iter = NoIter =>
        \A u \in UserKeys, s \in 0 .. MaxSeq :
            LET k      == Append(u, s)
                newest == FirstIn({j \in KeysOf(DOMAIN blocks) : UserOf(j) = u /\ ~Before(j, k)})
            IN  \A r \in InternalGet(k) :
                    IF r.error THEN newest # <<>> => \E n \in bad : newest \in ToSet(blocks[n].keys)
                               ELSE r.key = newest
=============================================================================
