------------------------------ MODULE SkipList ------------------------------
(***************************************************************************)
(* The skip list under leveldb's memtable: one writer links a node level   *)
(* by level, from below, while readers walk the links without a lock.      *)
(* A node is its key.  Every link a reader follows is one step.            *)
(***************************************************************************)
EXTENDS Integers

CONSTANTS
    MaxKey,     \* keys are 1 .. MaxKey
    MaxHeight,  \* kMaxHeight
    Readers

ASSUME ListAssumption == MaxKey \in Nat /\ MaxHeight \in Nat \ {0}

VARIABLES
    next,       \* level -> node -> its next_ at that level
    maxHeight,  \* max_height_
    insert,     \* the Insert under way
    reader      \* reader -> its search and what it found

listVars == <<next, maxHeight, insert, reader>>

HeadNode == 0               \* head_
Nil    == MaxKey + 1        \* "NULL n is considered infinite"
Junk   == -1                \* a link of a node that is not set yet
Keys   == 1 .. MaxKey
Nodes  == HeadNode .. MaxKey
Levels == 0 .. MaxHeight - 1

\* What readers can reach at a level.
Linked(l) == {n \in Keys : next[l][n] # Junk}

Inserts  == [key : 0 .. MaxKey, height : 0 .. MaxHeight, level : 0 .. MaxHeight]
NoInsert == [key |-> 0, height |-> 0, level |-> 0]

Searches == [state : {"idle", "searching", "done"}, want : {"atOrAfter", "before"},
             target : 1 .. Nil, x : Nodes, level : Levels,
             there : SUBSET Keys, found : 0 .. Nil]

ListTypeOK ==
    /\ next \in [Levels -> [Nodes -> Keys \cup {Junk, Nil}]]
    /\ maxHeight \in 1 .. MaxHeight
    /\ insert \in Inserts
    /\ reader \in [Readers -> Searches]

ListInit ==
    /\ next = [l \in Levels |-> [n \in Nodes |-> IF n = HeadNode THEN Nil ELSE Junk]]
    /\ maxHeight = 1
    /\ insert = NoInsert
    /\ reader = [r \in Readers |->
                     [state |-> "idle", want |-> "before", target |-> 1, x |-> HeadNode,
                      level |-> 0, there |-> {}, found |-> 0]]

-----------------------------------------------------------------------------
(* The writer.  "Writes require external synchronization": there is one. *)

\* Insert up to its loop: the random height becomes that of the list.
StartInsert(k, h) ==
    /\ insert.key = 0 /\ k \notin Linked(0)
    /\ insert' = [key |-> k, height |-> h, level |-> 0]
    /\ maxHeight' = IF h > maxHeight THEN h ELSE maxHeight
    /\ UNCHANGED <<next, reader>>

\* Faulty variant: every level is linked as if it were new.
IsPrevHead(l, k, p) == p = HeadNode

\* prev[l]: where FindGreaterOrEqual leaves level l, head_ on a new level.
IsPrev(l, k, p) == p < k /\ (p = HeadNode \/ p \in Linked(l)) /\ next[l][p] >= k

\* One turn of the loop: the node gets its link, then the release store publishes
\* it.  Nobody can see the node at this level between the two.
LinkLevel ==
    /\ insert.key # 0
    /\ LET k == insert.key
           l == insert.level
       IN  /\ \E p \in Nodes :
                  /\ IsPrev(l, k, p)
                  /\ next' = [next EXCEPT ![l] = [@ EXCEPT ![k] = next[l][p], ![p] = k]]
           /\ insert' = IF l + 1 = insert.height THEN NoInsert
                                                 ELSE [insert EXCEPT !.level = l + 1]
    /\ UNCHANGED <<maxHeight, reader>>

-----------------------------------------------------------------------------
(* The readers. *)

StartSearch(r, want, k, from, l) ==
    /\ reader' = [reader EXCEPT ![r] =
                     [state |-> "searching", want |-> want, target |-> k, x |-> from,
                      level |-> l, there |-> Linked(0), found |-> 0]]
    /\ UNCHANGED <<next, maxHeight, insert>>

\* Seek and Contains.  max_height_ is read without a barrier: "stale values are ok".
Seek(r, k) == \E h \in 1 .. maxHeight : StartSearch(r, "atOrAfter", k, HeadNode, h - 1)

\* Prev searches for the node before the one it is at; SeekToLast, like FindLast,
\* for the node before NULL.
At(r) == reader[r].state = "done" /\ reader[r].found \in Keys
Prev(r) ==
    At(r) /\ \E h \in 1 .. maxHeight : StartSearch(r, "before", reader[r].found, HeadNode, h - 1)

SeekToLast(r) == \E h \in 1 .. maxHeight : StartSearch(r, "before", Nil, HeadNode, h - 1)

\* NextNode and SeekToFirst follow one link of level 0.
NextNode(r)    == At(r) /\ StartSearch(r, "atOrAfter", reader[r].found + 1, reader[r].found, 0)
SeekToFirst(r) == StartSearch(r, "atOrAfter", 1, HeadNode, 0)

\* One load of x->Next(level), in FindGreaterOrEqual, FindLessThan and FindLast.
Follow(r) ==
    /\ reader[r].state = "searching"
    /\ LET s == reader[r]
           n == next[s.level][s.x]
       IN  reader' = [reader EXCEPT ![r] =
               IF n < s.target  THEN [s EXCEPT !.x = n]
               ELSE IF s.level > 0 THEN [s EXCEPT !.level = s.level - 1]
               ELSE [s EXCEPT !.state = "done",
                              !.found = IF s.want = "before" THEN s.x ELSE n]]
    /\ UNCHANGED <<next, maxHeight, insert>>

Reads(r) ==
    \/ \E k \in Keys : Seek(r, k)
    \/ Prev(r) \/ SeekToLast(r) \/ NextNode(r) \/ SeekToFirst(r)

ListNext ==
    \/ \E k \in Keys, h \in 1 .. MaxHeight : StartInsert(k, h)
    \/ LinkLevel
    \/ \E r \in Readers : (reader[r].state # "searching" /\ Reads(r)) \/ Follow(r)

ListSpec == ListInit /\ [][ListNext]_listVars

-----------------------------------------------------------------------------
(* Properties. *)

\* No reader follows a link that the writer has not set: whoever gets to a node at
\* a level finds it linked there and on every level below.
NoJunkIsRead ==
    \A r \in Readers :
        reader[r].state = "searching" => next[reader[r].level][reader[r].x] # Junk

\* A search finds its place among the keys that were in the list when it began,
\* whatever is inserted meanwhile: none of them lies between the target and what
\* the search found, and what it found is a key of the list or an end of it.
SearchesMissNothing ==
    \A r \in Readers :
        LET s == reader[r]
        IN  s.state = "done" =>
              /\ s.found \in {HeadNode, Nil} \cup Linked(0)
              /\ s.want = "before" =>
                     s.found < s.target /\ \A k \in s.there : ~(s.found < k /\ k < s.target)
              /\ s.want = "atOrAfter" =>
                     s.target <= s.found /\ \A k \in s.there : ~(s.target <= k /\ k < s.found)

\* Every level is a sorted list, and a sublist of the one below it.
LevelsNest ==
    /\ \A l \in Levels \ {0} : Linked(l) \subseteq Linked(l - 1)
    /\ \A l \in Levels : \A n \in Linked(l) \cup {HeadNode} :
           /\ n < next[l][n]
           /\ next[l][n] \in Linked(l) \cup {Nil}
           /\ \A k \in Linked(l) : ~(n < k /\ k < next[l][n])
=============================================================================
