--------------------------- MODULE ReadPathProofs ---------------------------
(***************************************************************************)
(* Proofs about what a read of the store goes through: SkipList, for any   *)
(* number of keys, levels and readers, and Iterators, for any number of    *)
(* children, keys, writes and inserts under a walk.                        *)
(*                                                                         *)
(* The invariant of the list says what it looks like in the middle of an   *)
(* Insert: the node is linked at the levels below insert.level and at no   *)
(* other, so that every level is sorted and contains those above it; and   *)
(* that a search stands on a node of its level, before its target.         *)
(*                                                                         *)
(* The invariant of the iterators says which entries of the snapshot the   *)
(* children have still to go to: those from the current one on going       *)
(* forward, those up to it going back, and that the key shown is the one   *)
(* the walk has come to in the map of the snapshot.                        *)
(***************************************************************************)
EXTENDS SkipList, Iterators, FiniteSetTheorems, WellFoundedInduction, TLAPS

-----------------------------------------------------------------------------
(* The skip list. *)

\* n is followed by the next key of its level.
Follows(l, n) ==
    /\ n < next[l][n]
    /\ next[l][n] \in Linked(l) \cup {Nil}
    /\ \A k \in Linked(l) : ~(n < k /\ k < next[l][n])

LevelsSorted == \A l \in Levels : \A n \in Linked(l) \cup {HeadNode} : Follows(l, n)

LevelsShrink == \A l, m \in Levels : l <= m => Linked(m) \subseteq Linked(l)

InsertInProgress ==
    insert.key # 0 =>
        /\ insert.level \in Levels /\ insert.level < insert.height
        /\ \A l \in Levels : insert.key \in Linked(l) <=> l < insert.level

Searching(s) ==
    s.state = "searching" => s.x < s.target /\ s.x \in Linked(s.level) \cup {HeadNode}

Found(s) ==
    s.state = "done" =>
        /\ s.found \in {HeadNode, Nil} \cup Linked(0)
        /\ s.want = "before" =>
               s.found < s.target /\ \A k \in s.there : ~(s.found < k /\ k < s.target)
        /\ s.want = "atOrAfter" =>
               s.target <= s.found /\ \A k \in s.there : ~(s.target <= k /\ k < s.found)

ReadersInPlace ==
    \A r \in Readers :
        reader[r].there \subseteq Linked(0) /\ Searching(reader[r]) /\ Found(reader[r])

ListInv == ListTypeOK /\ LevelsSorted /\ LevelsShrink /\ InsertInProgress /\ ReadersInPlace

-----------------------------------------------------------------------------
\* The constants, as the provers need them.
LEMMA Ranges ==
    /\ MaxKey \in Nat /\ MaxHeight \in Nat /\ MaxHeight >= 1
    /\ HeadNode = 0 /\ Nil = MaxKey + 1 /\ Junk = -1
    /\ Keys \subseteq Nodes /\ HeadNode \in Nodes /\ HeadNode \notin Keys
    /\ \A n \in Nodes : n \in Int /\ HeadNode <= n /\ n < Nil /\ (n # HeadNode => n \in Keys)
    /\ 0 \in Levels /\ Levels \subseteq Nat
BY ListAssumption DEF HeadNode, Nil, Junk, Keys, Nodes, Levels

\* An insert under way has a key, and levels of its own height to go.
LEMMA InsertType ==
    ASSUME ListTypeOK, insert.key # 0
    PROVE  insert.key \in Keys /\ insert.level \in Nat /\ insert.height \in 0 .. MaxHeight
BY ListAssumption DEF ListTypeOK, Inserts, Keys

TurnAt(l, k, p) ==
    /\ IsPrev(l, k, p)
    /\ next' = [next EXCEPT ![l] = [@ EXCEPT ![k] = next[l][p], ![p] = k]]

\* One turn of Insert's loop, for the key k at the level l: the links that change,
\* and those that do not.
LEMMA LinksAfterTurn ==
    ASSUME ListTypeOK, InsertInProgress,
           NEW k, NEW l, k = insert.key, l = insert.level, k # 0,
           NEW p \in Nodes, TurnAt(l, k, p)
    PROVE  /\ k \in Keys /\ l \in Levels /\ p < k /\ k \notin Linked(l)
           /\ p \in Linked(l) \cup {HeadNode} /\ next[l][p] >= k
           /\ next'[l][k] = next[l][p] /\ next'[l][p] = k
           /\ \A n \in Nodes \ {k, p} : next'[l][n] = next[l][n]
           /\ \A m \in Levels \ {l} : next'[m] = next[m]
           /\ next' \in [Levels -> [Nodes -> Keys \cup {Junk, Nil}]]
<1>1. k \in Keys
  BY InsertType
<1>2. l \in Levels /\ k \notin Linked(l)
  <2>1. l \in Levels /\ (k \in Linked(l) <=> l < l)
    BY DEF InsertInProgress
  <2>2. ~(l < l)
    BY <2>1, Ranges
  <2>. QED
    BY <2>1, <2>2
<1>3. p < k /\ p \in Linked(l) \cup {HeadNode} /\ next[l][p] >= k
  BY DEF TurnAt, IsPrev
<1>4. k \in Nodes /\ k # p
  BY <1>1, <1>3, Ranges
<1>5. /\ next \in [Levels -> [Nodes -> Keys \cup {Junk, Nil}]]
      /\ next[l] \in [Nodes -> Keys \cup {Junk, Nil}]
      /\ next[l][p] \in Keys \cup {Junk, Nil}
  BY <1>2 DEF ListTypeOK
<1>. DEFINE row == [next[l] EXCEPT ![k] = next[l][p], ![p] = k]
<1>6. row \in [Nodes -> Keys \cup {Junk, Nil}]
  BY <1>1, <1>5
<1>7. next' = [next EXCEPT ![l] = row]
  BY <1>2, <1>5 DEF TurnAt
<1>8. next'[l] = row /\ \A m \in Levels \ {l} : next'[m] = next[m]
  BY <1>2, <1>5, <1>7
<1>9. next' \in [Levels -> [Nodes -> Keys \cup {Junk, Nil}]]
  BY <1>2, <1>5, <1>6, <1>7
<1>10. /\ row[k] = next[l][p] /\ row[p] = k
       /\ \A n \in Nodes \ {k, p} : row[n] = next[l][n]
  BY <1>4, <1>5
<1>. QED
  BY <1>1, <1>2, <1>3, <1>8, <1>9, <1>10

\* The node the turn starts from.
LEMMA TurnHasPrev ==
    ASSUME LinkLevel, NEW k, NEW l, k = insert.key, l = insert.level
    PROVE  k # 0 /\ \E p \in Nodes : TurnAt(l, k, p)
BY DEF LinkLevel, TurnAt

\* The turn links the key at its level, and no other key anywhere.
LEMMA LinkedAfterTurn ==
    ASSUME ListTypeOK, LevelsSorted, InsertInProgress, LinkLevel,
           NEW k, NEW l, k = insert.key, l = insert.level
    PROVE  /\ l \in Levels /\ k \in Keys /\ k \notin Linked(l)
           /\ Linked(l)' = Linked(l) \cup {k}
           /\ \A m \in Levels \ {l} : Linked(m)' = Linked(m)
           /\ next' \in [Levels -> [Nodes -> Keys \cup {Junk, Nil}]]
<1>1. PICK p \in Nodes : k # 0 /\ TurnAt(l, k, p)
  BY TurnHasPrev
<1>2. /\ k \in Keys /\ l \in Levels /\ p < k /\ k \notin Linked(l)
      /\ p \in Linked(l) \cup {HeadNode} /\ next[l][p] >= k
      /\ next'[l][k] = next[l][p] /\ next'[l][p] = k
      /\ \A n \in Nodes \ {k, p} : next'[l][n] = next[l][n]
      /\ \A m \in Levels \ {l} : next'[m] = next[m]
      /\ next' \in [Levels -> [Nodes -> Keys \cup {Junk, Nil}]]
  BY <1>1, LinksAfterTurn
<1>3. next[l][p] \in Linked(l) \cup {Nil}
  BY <1>2 DEF LevelsSorted, Follows
<1>4. next'[l][k] # Junk /\ next'[l][p] # Junk
  BY <1>2, <1>3, Ranges DEF Linked
<1>5. \A n \in Keys : next'[l][n] # Junk <=> n \in Linked(l) \/ n = k
  BY <1>2, <1>4, Ranges DEF Linked
<1>6. Linked(l)' = Linked(l) \cup {k}
  BY <1>2, <1>5 DEF Linked
<1>7. \A m \in Levels \ {l} : Linked(m)' = Linked(m)
  BY <1>2 DEF Linked
<1>. QED
  BY <1>2, <1>6, <1>7

\* The turn keeps every level sorted.
LEMMA TurnKeepsOrder ==
    ASSUME ListTypeOK, LevelsSorted, InsertInProgress, LinkLevel,
           NEW k, NEW l, k = insert.key, l = insert.level
    PROVE  LevelsSorted'
<1>1. PICK p \in Nodes : k # 0 /\ TurnAt(l, k, p)
  BY TurnHasPrev
<1>2. /\ k \in Keys /\ l \in Levels /\ p < k /\ k \notin Linked(l)
      /\ p \in Linked(l) \cup {HeadNode} /\ next[l][p] >= k
      /\ next'[l][k] = next[l][p] /\ next'[l][p] = k
      /\ \A n \in Nodes \ {k, p} : next'[l][n] = next[l][n]
      /\ \A m \in Levels \ {l} : next'[m] = next[m]
  BY <1>1, LinksAfterTurn
<1>3. /\ Linked(l)' = Linked(l) \cup {k}
      /\ \A m \in Levels \ {l} : Linked(m)' = Linked(m)
  BY LinkedAfterTurn
<1>4. SUFFICES ASSUME NEW m \in Levels, NEW n \in (Linked(m) \cup {HeadNode})'
               PROVE  Follows(m, n)'
  BY DEF LevelsSorted
<1>5. CASE m # l
  <2>1. next'[m] = next[m] /\ Linked(m)' = Linked(m) /\ n \in Linked(m) \cup {HeadNode}
    BY <1>2, <1>3, <1>5 DEF HeadNode
  <2>2. Follows(m, n)
    BY <2>1 DEF LevelsSorted
  <2>. QED
    BY <2>1, <2>2 DEF Follows, Nil
<1>6. CASE m = l
  <2>1. n = k \/ n \in Linked(l) \cup {HeadNode}
    BY <1>3, <1>6 DEF HeadNode
  <2>2. /\ p < next[l][p] /\ next[l][p] \in Linked(l) \cup {Nil}
        /\ \A j \in Linked(l) : ~(p < j /\ j < next[l][p])
    BY <1>2 DEF LevelsSorted, Follows
  <2>3. /\ Linked(l) \subseteq Keys /\ Linked(l) \subseteq Int
        /\ HeadNode < k /\ k < Nil /\ k \in Int /\ p \in Int /\ Nil \in Int
    BY <1>2, Ranges DEF Linked, Keys, HeadNode
  <2>4. next[l][p] > k /\ next[l][p] \in Int
    BY <1>2, <2>2, <2>3, Ranges
  <2>5. CASE n = k
    <3>1. next'[l][n] = next[l][p]
      BY <1>2, <2>5
    <3>2. \A j \in Linked(l) \cup {k} : ~(n < j /\ j < next[l][p])
      BY <1>2, <2>2, <2>3, <2>4, <2>5, Ranges
    <3>. QED
      BY <1>3, <1>6, <2>2, <2>4, <2>5, <3>1, <3>2 DEF Follows, Nil
  <2>6. CASE n = p
    <3>1. next'[l][n] = k
      BY <1>2, <2>6
    <3>2. \A j \in Linked(l) \cup {k} : ~(n < j /\ j < k)
      BY <1>2, <2>2, <2>3, <2>4, <2>6, Ranges
    <3>. QED
      BY <1>2, <1>3, <1>6, <2>6, <3>1, <3>2 DEF Follows, Nil
  <2>7. CASE n # k /\ n # p
    <3>1. n \in Linked(l) \cup {HeadNode} /\ n \in Nodes
      BY <2>1, <2>3, <2>7, Ranges
    <3>2. next'[l][n] = next[l][n]
      BY <1>2, <2>7, <3>1
    <3>3. /\ n < next[l][n] /\ next[l][n] \in Linked(l) \cup {Nil}
          /\ \A j \in Linked(l) : ~(n < j /\ j < next[l][n])
      BY <1>2, <3>1 DEF LevelsSorted, Follows
    <3>4. next[l][n] \in Int /\ n \in Int
      BY <2>3, <3>1, <3>3, Ranges
    <3>5. ~(n < k /\ k < next[l][n])
      <4>1. CASE n < p
        BY <1>2, <2>3, <3>1, <3>3, <3>4, <4>1, Ranges
      <4>2. CASE p < n
        BY <1>2, <2>2, <2>3, <2>4, <3>1, <3>4, <4>2, Ranges
      <4>. QED
        BY <2>3, <2>7, <3>4, <4>1, <4>2
    <3>. QED
      BY <1>3, <1>6, <3>2, <3>3, <3>5 DEF Follows, Nil
  <2>. QED
    BY <2>5, <2>6, <2>7
<1>. QED
  BY <1>5, <1>6

-----------------------------------------------------------------------------
\* The type invariant and the parts about the list, for an Insert.
LEMMA StartInsertKeeps ==
    ASSUME ListInv, NEW k \in Keys, NEW h \in 1 .. MaxHeight, StartInsert(k, h)
    PROVE  ListInv'
<1>1. UNCHANGED <<next, reader>> /\ insert' = [key |-> k, height |-> h, level |-> 0]
  BY DEF StartInsert
<1>2. ListTypeOK'
  <2>1. insert' \in Inserts
    BY <1>1, Ranges DEF Inserts, Keys
  <2>2. maxHeight' \in 1 .. MaxHeight
    BY DEF StartInsert, ListInv, ListTypeOK
  <2>. QED
    BY <1>1, <2>1, <2>2 DEF ListInv, ListTypeOK, Searches, Levels, Nodes, Keys, Nil, Junk
<1>3. \A l : Linked(l)' = Linked(l)
  BY <1>1 DEF Linked
<1>4. LevelsSorted' /\ LevelsShrink' /\ ReadersInPlace'
  BY <1>1, <1>3 DEF ListInv, LevelsSorted, LevelsShrink, ReadersInPlace, Follows, Searching,
                    Found, HeadNode, Nil
<1>5. InsertInProgress'
  <2>1. k \notin Linked(0)
    BY DEF StartInsert
  <2>2. \A l \in Levels : k \notin Linked(l)
    BY <2>1, Ranges DEF ListInv, LevelsShrink
  <2>3. \A l \in Levels : ~(l < 0)
    BY Ranges
  <2>. QED
    BY <1>1, <1>3, <2>2, <2>3, Ranges DEF InsertInProgress
<1>. QED
  BY <1>2, <1>4, <1>5 DEF ListInv

LEMMA LinkLevelKeeps ==
    ASSUME ListInv, LinkLevel
    PROVE  ListInv'
<1>. DEFINE k == insert.key
            l == insert.level
<1>1. ListTypeOK /\ LevelsSorted /\ LevelsShrink /\ InsertInProgress /\ ReadersInPlace
  BY DEF ListInv
<1>2. k # 0 /\ UNCHANGED <<maxHeight, reader>>
  BY DEF LinkLevel
<1>3. PICK key, level : key = k /\ level = l
  OBVIOUS
<1>4. /\ level \in Levels /\ key \in Keys /\ key \notin Linked(level)
      /\ Linked(level)' = Linked(level) \cup {key}
      /\ \A m \in Levels \ {level} : Linked(m)' = Linked(m)
      /\ next' \in [Levels -> [Nodes -> Keys \cup {Junk, Nil}]]
  BY <1>1, <1>3, LinkedAfterTurn
<1>5. LevelsSorted'
  BY <1>1, <1>3, TurnKeepsOrder
<1>6. \A m \in Levels : Linked(m) \subseteq Linked(m)'
  BY <1>4
<1>7. insert' = IF level + 1 = insert.height THEN NoInsert
                                              ELSE [insert EXCEPT !.level = level + 1]
  BY <1>3 DEF LinkLevel
<1>8. \A m \in Levels : key \in Linked(m) <=> m < level
  BY <1>2, <1>3, <1>1 DEF InsertInProgress
<1>9. ListTypeOK'
  <2>1. insert \in Inserts /\ level + 1 \in 0 .. MaxHeight
    BY <1>1, <1>4, Ranges DEF ListTypeOK, Levels
  <2>2. insert' \in Inserts
    BY <1>7, <2>1, Ranges DEF Inserts, NoInsert
  <2>. QED
    BY <1>1, <1>2, <1>4, <2>2 DEF ListTypeOK
<1>10. LevelsShrink'
  <2>1. SUFFICES ASSUME NEW i \in Levels, NEW j \in Levels, i <= j,
                        NEW n \in Linked(j)'
                 PROVE  n \in Linked(i)'
    BY DEF LevelsShrink, Levels
  <2>2. CASE n \in Linked(j)
    BY <1>1, <1>6, <2>1, <2>2 DEF LevelsShrink
  <2>3. CASE n \notin Linked(j)
    <3>1. j = level /\ n = key
      BY <1>4, <2>1, <2>3
    <3>2. i = level \/ i < level
      BY <2>1, <3>1, Ranges
    <3>3. CASE i < level
      BY <1>6, <1>8, <3>1, <3>3
    <3>. QED
      BY <1>4, <3>1, <3>2, <3>3
  <2>. QED
    BY <2>2, <2>3
<1>11. InsertInProgress'
  <2>1. CASE level + 1 = insert.height
    BY <1>7, <2>1 DEF InsertInProgress, NoInsert
  <2>2. CASE level + 1 # insert.height
    <3>1. insert'.key = key /\ insert'.level = level + 1
      BY <1>1, <1>3, <1>7, <2>2 DEF ListTypeOK, Inserts
    <3>2. level + 1 \in Levels /\ level + 1 < insert.height /\ insert'.height = insert.height
      <4>1. level < insert.height /\ insert.height \in 0 .. MaxHeight
        BY <1>1, <1>2, <1>3 DEF InsertInProgress, ListTypeOK, Inserts
      <4>2. insert'.height = insert.height
        BY <1>1, <1>7, <2>2 DEF ListTypeOK, Inserts
      <4>. QED
        BY <1>4, <2>2, <4>1, <4>2, Ranges DEF Levels
    <3>3. \A m \in Levels : key \in Linked(m)' <=> m < level + 1
      <4>1. SUFFICES ASSUME NEW m \in Levels PROVE key \in Linked(m)' <=> m < level + 1
        OBVIOUS
      <4>2. CASE m = level
        BY <1>4, <4>2, Ranges
      <4>3. CASE m # level
        <5>1. key \in Linked(m)' <=> m < level
          BY <1>4, <1>8, <4>3
        <5>. QED
          BY <1>4, <4>3, <5>1, Ranges
      <4>. QED
        BY <4>2, <4>3
    <3>. QED
      BY <3>1, <3>2, <3>3 DEF InsertInProgress, Levels
  <2>. QED
    BY <2>1, <2>2
<1>12. ReadersInPlace'
  <2>1. SUFFICES ASSUME NEW r \in Readers
                 PROVE  /\ reader[r].there \subseteq Linked(0)'
                        /\ Searching(reader[r])'
                        /\ Found(reader[r])'
    BY <1>2 DEF ReadersInPlace
  <2>2. reader[r].there \subseteq Linked(0) /\ Searching(reader[r]) /\ Found(reader[r])
    BY <1>1 DEF ReadersInPlace
  <2>3. reader[r] \in Searches /\ reader[r].level \in Levels
    BY <1>1 DEF ListTypeOK, Searches
  <2>4. Linked(0) \subseteq Linked(0)' /\ Linked(reader[r].level) \subseteq Linked(reader[r].level)'
    BY <1>2, <1>6, <2>3, Ranges
  <2>. QED
    BY <1>2, <2>2, <2>4 DEF Searching, Found, HeadNode, Nil
<1>. QED
  BY <1>5, <1>9, <1>10, <1>11, <1>12 DEF ListInv

-----------------------------------------------------------------------------
\* The start of a search from a node of its level, before its target.
LEMMA BeginKeeps ==
    ASSUME ListInv, NEW r \in Readers, NEW want \in {"atOrAfter", "before"},
           NEW k \in 1 .. Nil, NEW l \in Levels,
           NEW from \in Linked(l) \cup {HeadNode}, from < k,
           StartSearch(r, want, k, from, l)
    PROVE  ListInv'
<1>. DEFINE s == [state |-> "searching", want |-> want, target |-> k, x |-> from,
                  level |-> l, there |-> Linked(0), found |-> 0]
<1>1. ListTypeOK /\ LevelsSorted /\ LevelsShrink /\ InsertInProgress /\ ReadersInPlace
  BY DEF ListInv
<1>2. UNCHANGED <<next, maxHeight, insert>> /\ reader' = [reader EXCEPT ![r] = s]
  BY DEF StartSearch
<1>3. s \in Searches
  BY Ranges DEF Searches, Linked, Nil
<1>4. ListTypeOK'
  BY <1>1, <1>2, <1>3 DEF ListTypeOK
<1>5. \A m : Linked(m)' = Linked(m)
  BY <1>2 DEF Linked
<1>6. LevelsSorted' /\ LevelsShrink' /\ InsertInProgress'
  BY <1>1, <1>2, <1>5 DEF LevelsSorted, LevelsShrink, InsertInProgress, Follows, HeadNode, Nil
<1>7. ReadersInPlace'
  <2>1. SUFFICES ASSUME NEW q \in Readers
                 PROVE  /\ reader'[q].there \subseteq Linked(0)
                        /\ Searching(reader[q])'
                        /\ Found(reader[q])'
    BY <1>5 DEF ReadersInPlace
  <2>2. CASE q = r
    <3>1. reader'[q] = s
      BY <1>1, <1>2, <2>2 DEF ListTypeOK
    <3>. QED
      BY <1>5, <3>1 DEF Searching, Found, HeadNode
  <2>3. CASE q # r
    <3>1. reader'[q] = reader[q]
      BY <1>1, <1>2, <2>3 DEF ListTypeOK
    <3>. QED
      BY <1>1, <1>5, <3>1 DEF ReadersInPlace, Searching, Found, HeadNode, Nil
  <2>. QED
    BY <2>2, <2>3
<1>. QED
  BY <1>1, <1>4, <1>6, <1>7 DEF ListInv

\* Every call of a reader starts such a search.
LEMMA ReadsKeep ==
    ASSUME ListInv, NEW r \in Readers, Reads(r)
    PROVE  ListInv'
<1>1. maxHeight \in 1 .. MaxHeight
  BY DEF ListInv, ListTypeOK
<1>2. \A h \in 1 .. maxHeight : h - 1 \in Levels
  BY <1>1, Ranges DEF Levels
<1>3. \A k \in 1 .. Nil : HeadNode < k
  BY Ranges
<1>4. ASSUME At(r)
      PROVE  reader[r].found \in Keys /\ reader[r].found \in Linked(0)
  BY <1>4, Ranges DEF At, ListInv, ReadersInPlace, Found, Keys, Nil
<1>5. CASE \E k \in Keys : Seek(r, k)
  <2>1. PICK k \in Keys, h \in 1 .. maxHeight : StartSearch(r, "atOrAfter", k, HeadNode, h - 1)
    BY <1>5 DEF Seek
  <2>. QED
    BY <1>2, <1>3, <2>1, BeginKeeps, Ranges DEF Keys
<1>6. CASE Prev(r)
  <2>1. PICK h \in 1 .. maxHeight : StartSearch(r, "before", reader[r].found, HeadNode, h - 1)
    BY <1>6 DEF Prev
  <2>2. reader[r].found \in 1 .. Nil
    BY <1>4, <1>6, Ranges DEF Prev, Keys
  <2>. QED
    BY <1>2, <1>3, <2>1, <2>2, BeginKeeps
<1>7. CASE SeekToLast(r)
  <2>1. PICK h \in 1 .. maxHeight : StartSearch(r, "before", Nil, HeadNode, h - 1)
    BY <1>7 DEF SeekToLast
  <2>2. Nil \in 1 .. Nil
    BY Ranges
  <2>. QED
    BY <1>2, <1>3, <2>1, <2>2, BeginKeeps
<1>8. CASE NextNode(r)
  <2>1. StartSearch(r, "atOrAfter", reader[r].found + 1, reader[r].found, 0)
    BY <1>8 DEF NextNode
  <2>2. /\ reader[r].found \in Linked(0) /\ reader[r].found + 1 \in 1 .. Nil
        /\ reader[r].found < reader[r].found + 1
    BY <1>4, <1>8, Ranges DEF NextNode, Keys
  <2>. QED
    BY <2>1, <2>2, BeginKeeps, Ranges
<1>9. CASE SeekToFirst(r)
  <2>1. 1 \in 1 .. Nil
    BY Ranges
  <2>. QED
    BY <1>3, <1>9, <2>1, BeginKeeps, Ranges DEF SeekToFirst
<1>. QED
  BY <1>5, <1>6, <1>7, <1>8, <1>9 DEF Reads

\* One link: to a node of the level, down, or to the end of the search.
LEMMA FollowKeeps ==
    ASSUME ListInv, NEW r \in Readers, Follow(r)
    PROVE  ListInv'
<1>. DEFINE s == reader[r]
            n == next[s.level][s.x]
<1>1. ListTypeOK /\ LevelsSorted /\ LevelsShrink /\ InsertInProgress /\ ReadersInPlace
  BY DEF ListInv
<1>2. UNCHANGED <<next, maxHeight, insert>> /\ s.state = "searching"
  BY DEF Follow
<1>3. s \in Searches /\ s.level \in Levels /\ s.x \in Nodes /\ s.target \in 1 .. Nil
  BY <1>1 DEF ListTypeOK, Searches
<1>4. s.there \subseteq Linked(0) /\ s.x < s.target /\ s.x \in Linked(s.level) \cup {HeadNode}
  BY <1>1, <1>2 DEF ReadersInPlace, Searching
<1>5. Follows(s.level, s.x)
  BY <1>1, <1>3, <1>4 DEF LevelsSorted
<1>6. n \in Linked(s.level) \cup {Nil} /\ n \in 1 .. Nil
  BY <1>5, Ranges DEF Follows, Linked, Keys
<1>12. /\ s.level \in Nat /\ s.x \in Int /\ s.target \in Int /\ n \in Int
       /\ \A m : Linked(m) \subseteq Int
  <2>1. s.level \in Nat
    BY <1>3, Ranges DEF Levels
  <2>2. Nodes \subseteq Int /\ 1 .. Nil \subseteq Int
    BY Ranges
  <2>3. Keys \subseteq Int
    BY Ranges DEF Keys
  <2>4. s.x \in Int /\ s.target \in Int /\ n \in Int
    BY <1>3, <1>6, <2>2
  <2>5. \A m : Linked(m) \subseteq Int
    BY <2>3 DEF Linked
  <2>. QED
    BY <2>1, <2>4, <2>5
<1>7. \A m : Linked(m)' = Linked(m)
  BY <1>2 DEF Linked
<1>8. PICK t \in Searches :
          /\ reader' = [reader EXCEPT ![r] = t]
          /\ t.there \subseteq Linked(0) /\ Searching(t) /\ Found(t)
  <2>1. CASE n < s.target
    <3>. DEFINE t == [s EXCEPT !.x = n]
    <3>1. reader' = [reader EXCEPT ![r] = t]
      BY <2>1 DEF Follow
    <3>2. n \in Linked(s.level) /\ n \in Nodes
      BY <1>3, <1>6, <2>1, Ranges DEF Linked
    <3>3. t \in Searches
      BY <1>3, <3>2 DEF Searches
    <3>4. t.there \subseteq Linked(0) /\ Searching(t) /\ Found(t)
      BY <1>2, <1>3, <1>4, <2>1, <3>2 DEF Searches, Searching, Found
    <3>. QED
      BY <3>1, <3>3, <3>4
  <2>2. CASE ~(n < s.target) /\ s.level > 0
    <3>. DEFINE t == [s EXCEPT !.level = s.level - 1]
    <3>1. reader' = [reader EXCEPT ![r] = t]
      BY <2>2 DEF Follow
    <3>2. s.level - 1 \in Levels /\ s.level - 1 <= s.level
      BY <1>3, <2>2, Ranges DEF Levels
    <3>3. t \in Searches
      BY <1>3, <3>2 DEF Searches
    <3>4. s.x \in Linked(s.level - 1) \cup {HeadNode}
      BY <1>1, <1>3, <1>4, <3>2 DEF LevelsShrink
    <3>5. t.there \subseteq Linked(0) /\ Searching(t) /\ Found(t)
      BY <1>2, <1>3, <1>4, <3>4 DEF Searches, Searching, Found
    <3>. QED
      BY <3>1, <3>3, <3>5
  <2>3. CASE ~(n < s.target) /\ ~(s.level > 0)
    <3>. DEFINE f == IF s.want = "before" THEN s.x ELSE n
                t == [s EXCEPT !.state = "done", !.found = f]
    <3>1. reader' = [reader EXCEPT ![r] = t]
      BY <2>3 DEF Follow
    <3>2. s.level = 0
      BY <1>12, <2>3
    <3>3. f \in {HeadNode, Nil} \cup Linked(0) /\ f \in 0 .. Nil
      <4>1. s.x \in Linked(0) \cup {HeadNode} /\ n \in Linked(0) \cup {Nil}
        BY <1>4, <1>6, <3>2
      <4>2. Nodes \subseteq 0 .. Nil /\ 1 .. Nil \subseteq 0 .. Nil
        BY Ranges
      <4>3. s.x \in 0 .. Nil /\ n \in 0 .. Nil
        BY <1>3, <1>6, <4>2
      <4>. QED
        BY <4>1, <4>3
    <3>4. t \in Searches
      BY <1>3, <3>3 DEF Searches
    <3>5. /\ s.target <= n /\ s.there \subseteq Linked(0) /\ Linked(0) \subseteq Int
          /\ s.target \in Int /\ n \in Int /\ s.x \in Int
      BY <1>4, <1>12, <2>3
    <3>6. \A k \in s.there : ~(s.x < k /\ k < n)
      BY <1>5, <3>2, <3>5 DEF Follows
    <3>7. \A k \in s.there : ~(s.x < k /\ k < s.target) /\ ~(s.target <= k /\ k < n)
      BY <1>4, <3>5, <3>6
    <3>8. t.state = "done" /\ t.found = f /\ t.want = s.want /\ t.target = s.target
          /\ t.there = s.there
      BY <1>3 DEF Searches
    <3>9. Found(t)
      BY <1>4, <3>3, <3>5, <3>7, <3>8 DEF Found
    <3>. QED
      BY <1>4, <3>1, <3>4, <3>8, <3>9 DEF Searching
  <2>. QED
    BY <2>1, <2>2, <2>3
<1>9. ListTypeOK'
  BY <1>1, <1>2, <1>8 DEF ListTypeOK
<1>10. LevelsSorted' /\ LevelsShrink' /\ InsertInProgress'
  BY <1>1, <1>2, <1>7 DEF LevelsSorted, LevelsShrink, InsertInProgress, Follows, HeadNode, Nil
<1>11. ReadersInPlace'
  <2>1. SUFFICES ASSUME NEW q \in Readers
                 PROVE  /\ reader'[q].there \subseteq Linked(0)
                        /\ Searching(reader[q])'
                        /\ Found(reader[q])'
    BY <1>7 DEF ReadersInPlace
  <2>2. CASE q = r
    <3>1. reader'[q] = t
      BY <1>1, <1>8, <2>2 DEF ListTypeOK
    <3>. QED
      BY <1>7, <1>8, <3>1 DEF Searching, Found, HeadNode, Nil
  <2>3. CASE q # r
    <3>1. reader'[q] = reader[q]
      BY <1>1, <1>8, <2>3 DEF ListTypeOK
    <3>. QED
      BY <1>1, <1>7, <3>1 DEF ReadersInPlace, Searching, Found, HeadNode, Nil
  <2>. QED
    BY <2>2, <2>3
<1>. QED
  BY <1>1, <1>9, <1>10, <1>11 DEF ListInv

-----------------------------------------------------------------------------
LEMMA InitEstablishesListInv ==
    ASSUME ListInit
    PROVE  ListInv
<1>1. ListTypeOK
  BY Ranges DEF ListInit, ListTypeOK, Inserts, NoInsert, Searches
<1>2. \A l \in Levels : Linked(l) = {} /\ next[l][HeadNode] = Nil
  BY Ranges DEF ListInit, Linked
<1>3. LevelsSorted /\ LevelsShrink /\ InsertInProgress
  BY <1>2, Ranges DEF ListInit, LevelsSorted, LevelsShrink, InsertInProgress, NoInsert, Follows
<1>4. ReadersInPlace
  BY DEF ListInit, ReadersInPlace, Searching, Found
<1>. QED
  BY <1>1, <1>3, <1>4 DEF ListInv

LEMMA StepKeepsListInv ==
    ASSUME ListInv, [ListNext]_listVars
    PROVE  ListInv'
<1>1. CASE \E k \in Keys, h \in 1 .. MaxHeight : StartInsert(k, h)
  BY <1>1, StartInsertKeeps
<1>2. CASE LinkLevel
  BY <1>2, LinkLevelKeeps
<1>3. CASE \E r \in Readers : (reader[r].state # "searching" /\ Reads(r)) \/ Follow(r)
  BY <1>3, ReadsKeep, FollowKeeps
<1>4. CASE UNCHANGED listVars
  <2>1. UNCHANGED <<next, maxHeight, insert, reader>>
    BY <1>4 DEF listVars
  <2>. QED
    BY <2>1 DEF ListInv, ListTypeOK, LevelsSorted, LevelsShrink, InsertInProgress,
                ReadersInPlace, Searching, Found, Follows, Linked
<1>. QED
  BY <1>1, <1>2, <1>3, <1>4 DEF ListNext

\* The inductive invariant holds throughout.
THEOREM ListInvariant == ListSpec => []ListInv
<1>1. ListInit => ListInv
  BY InitEstablishesListInv
<1>2. ListInv /\ [ListNext]_listVars => ListInv'
  BY StepKeepsListInv
<1>. QED
  BY <1>1, <1>2, PTL DEF ListSpec

\* The variables keep their types: every link is a key, NULL or not yet set.
THEOREM ListTypes == ListSpec => []ListTypeOK
<1>1. ListInv => ListTypeOK
  BY DEF ListInv
<1>. QED
  BY <1>1, ListInvariant, PTL

\* Every level is a sorted list and a sublist of the one below it, in the middle
\* of an Insert too (skiplist.h:337-361).
THEOREM LevelsAlwaysNest == ListSpec => []LevelsNest
<1>1. ListInv => LevelsNest
  <2>1. SUFFICES ASSUME ListInv PROVE LevelsNest
    OBVIOUS
  <2>2. \A l \in Levels \ {0} : l - 1 \in Levels /\ l - 1 <= l
    BY Ranges DEF Levels
  <2>3. \A l \in Levels \ {0} : Linked(l) \subseteq Linked(l - 1)
    BY <2>1, <2>2 DEF ListInv, LevelsShrink
  <2>. QED
    BY <2>1, <2>3 DEF ListInv, LevelsSorted, Follows, LevelsNest
<1>. QED
  BY <1>1, ListInvariant, PTL

\* No reader loads a link that the writer has not stored (skiplist.h:101-117).
THEOREM JunkIsNeverRead == ListSpec => []NoJunkIsRead
<1>1. ListInv => NoJunkIsRead
  <2>1. SUFFICES ASSUME ListInv, NEW r \in Readers, reader[r].state = "searching"
                 PROVE  next[reader[r].level][reader[r].x] # Junk
    BY DEF NoJunkIsRead
  <2>2. reader[r].level \in Levels
    BY <2>1 DEF ListInv, ListTypeOK, Searches
  <2>3. Follows(reader[r].level, reader[r].x)
    BY <2>1, <2>2 DEF ListInv, ReadersInPlace, Searching, LevelsSorted
  <2>. QED
    BY <2>3, Ranges DEF Follows, Linked
<1>. QED
  BY <1>1, ListInvariant, PTL

\* A search without a lock, whatever is inserted while it runs, misses no key that
\* was in the list when it began (skiplist.h:262-322).
THEOREM NoSearchMisses == ListSpec => []SearchesMissNothing
<1>1. ListInv => SearchesMissNothing
  BY DEF ListInv, ReadersInPlace, Found, SearchesMissNothing
<1>. QED
  BY <1>1, ListInvariant, PTL

-----------------------------------------------------------------------------
(* The iterators. *)

-----------------------------------------------------------------------------
(* The invariant of a walk. *)

All  == UNION {data[c] : c \in Tables}
Seen == {e \in All : e.seq <= snapshot}

\* Every entry has its own number and is in one child; the entries beyond the
\* snapshot are those with a number of their own.
DataOK ==
    /\ data \in [Tables -> SUBSET Entry]
    /\ snapshot \in 0 .. Writes
    /\ IsFiniteSet(All) /\ Writes <= Cardinality(All)
    /\ \A e \in All : e.seq <= Cardinality(All)
    /\ \A e, f \in All : e.seq = f.seq => e = f
    /\ \A c, d \in Tables : c # d => data[c] \cap data[d] = {}

\* The entries of the snapshot the merging iterator has still to go to, and is at.
Ahead  == {e \in Seen : Valid /\ ~Before(e, Here)}
Behind == {e \in Seen : Valid /\ ~Before(Here, e)}

\* The children are where C is what they have still to go to: none has left out an
\* entry of C, and nothing of the snapshot from one's place on is missing in C.
FitsAhead(p, C) ==
    /\ p \in [Tables -> Entry \cup {Nowhere}]
    /\ \A c \in Tables : p[c] # Nowhere => p[c] \in data[c]
    /\ \A c \in Tables : \A e \in data[c] \cap C : p[c] # Nowhere /\ ~Before(e, p[c])
    /\ \A c \in Tables : \A e \in Seen : p[c] # Nowhere /\ ~Before(e, p[c]) => e \in C

FitsBehind(p, C) ==
    /\ p \in [Tables -> Entry \cup {Nowhere}]
    /\ \A c \in Tables : p[c] # Nowhere => p[c] \in data[c]
    /\ \A c \in Tables : \A e \in data[c] \cap C : p[c] # Nowhere /\ ~Before(p[c], e)
    /\ \A c \in Tables : \A e \in Seen : p[c] # Nowhere /\ ~Before(p[c], e) => e \in C

\* The current child is at the first of the places going forward, at the last going back.
ChildOK ==
    /\ forward \in BOOLEAN /\ child \in Tables \cup {0}
    /\ child = 0 => \A c \in Tables : places[c] = Nowhere
    /\ child # 0 => /\ places[child] # Nowhere
                    /\ \A c \in Tables : places[c] # Nowhere =>
                           IF forward THEN ~Before(places[c], Here) ELSE ~Before(Here, places[c])

MergeOK ==
    /\ ChildOK
    /\ IF forward THEN FitsAhead(places, Ahead) ELSE FitsBehind(places, Behind)

\* FindNextUserEntry looks for the first key of the map in C that skip does not hide.
OnTheWay(C, skip, goal) ==
    /\ \A e \in Seen \ C : \A f \in C : e.key <= skip \/ e.key < f.key
    /\ \A e \in C : e.key >= skip
    /\ \A m \in View : (NewestAt(m) \in C /\ m > skip) <=> (goal # 0 /\ m >= goal)

\* Prev has not left the entries of the key in skip.
Leaving(C, skip, goal) ==
    /\ \A e \in Seen \ C : e.key >= skip
    /\ \A m \in View : m < skip <=> (goal # 0 /\ m <= goal)

\* FindPrevUserEntry looks for the last key of the map in C, or has it in saved.
OnTheWayBack(C, saved, goal) ==
    /\ saved # Nowhere =>
           /\ saved \in Seen \ C /\ ~saved.del
           /\ \A e \in Seen \ C : e.key >= saved.key /\ (e.key = saved.key => ~Before(e, saved))
    /\ \A m \in View : (NewestAt(m) \in C \/ (saved # Nowhere /\ m = saved.key))
                           <=> (goal # 0 /\ m <= goal)

\* Where DBIter stands when it shows an entry.
AtKey(goal)   == forward /\ Valid /\ goal \in View /\ Here = NewestAt(goal)
PastKey(C, saved, goal) ==
    /\ ~forward /\ goal \in View /\ saved = NewestAt(goal)
    /\ \A e \in C : e.key < goal
    /\ \A e \in Seen \ C : e.key >= goal

WalkType ==
    [at : {"ready", "forward", "leaveKey", "backward"}, valid : BOOLEAN, reverse : BOOLEAN,
     skip : 0 .. TopKey, saved : Entry \cup {Nowhere}]

WalkOK ==
    /\ walk \in WalkType /\ wanted \in View \cup {0}
    /\ walk.at = "ready" =>
           CASE ~walk.valid                -> wanted = 0
             [] walk.valid /\ ~walk.reverse -> AtKey(wanted)
             [] walk.valid /\ walk.reverse  -> PastKey(Behind, walk.saved, wanted)
    /\ walk.at = "forward" => forward /\ ~walk.reverse /\ ~walk.valid /\ OnTheWay(Ahead, walk.skip, wanted)
    /\ walk.at = "leaveKey" => ~forward /\ Leaving(Behind, walk.skip, wanted)
    /\ walk.at = "backward" => ~forward /\ walk.reverse /\ ~walk.valid /\ OnTheWayBack(Behind, walk.saved, wanted)

\* The inductive invariant.
IterInv == DataOK /\ MergeOK /\ WalkOK

-----------------------------------------------------------------------------
(* The order of entries. *)

\* A nonempty set of numbers has a least one.
LEMMA LeastNumber ==
    ASSUME NEW S, S \subseteq Nat, S # {}
    PROVE  \E x \in S : \A y \in S : x <= y
<1>1. \E x \in S : \A y \in S : ~(<<y, x>> \in OpToRel(<, Nat))
  <2> DEFINE R == OpToRel(<, Nat)
  <2>1. IsWellFoundedOn(R, Nat) BY NatLessThanWellFounded
  <2> HIDE DEF R
  <2>2. \E x \in S : \A y \in S : ~(<<y, x>> \in R) BY <2>1, WFMin
  <2> QED BY <2>2 DEF R
<1>2. PICK x \in S : \A y \in S : ~(<<y, x>> \in OpToRel(<, Nat)) BY <1>1
<1>3. ASSUME NEW y \in S PROVE x <= y
  <2>1. x \in Nat /\ y \in Nat OBVIOUS
  <2>2. ~(y < x)
    <3>1. y < x => <<y, x>> \in OpToRel(<, Nat) BY <2>1 DEF OpToRel
    <3> QED BY <1>2, <3>1
  <2> QED BY <2>1, <2>2
<1> QED BY <1>3

\* A nonempty set of numbers below a bound has a greatest one.
LEMMA GreatestNumber ==
    ASSUME NEW S, NEW n \in Nat, S \subseteq 0 .. n, S # {}
    PROVE  \E x \in S : \A y \in S : y <= x
<1> DEFINE D == {n - y : y \in S}
<1>1. D \subseteq Nat /\ D # {}
  <2>1. \A y \in S : n - y \in Nat OBVIOUS
  <2> QED BY <2>1
<1> HIDE DEF D
<1>2. PICK d \in D : \A b \in D : d <= b BY <1>1, LeastNumber
<1>3. PICK x \in S : d = n - x BY <1>2 DEF D
<1>4. ASSUME NEW y \in S PROVE y <= x
  <2>1. n - y \in D BY DEF D
  <2>2. d <= n - y BY <1>2, <2>1
  <2>3. x \in 0 .. n /\ y \in 0 .. n BY <1>3
  <2> QED BY <1>3, <2>2, <2>3
<1> QED BY <1>3, <1>4

\* What an entry, Nowhere and the target of a seek have in common.
Points == [key : Nat, seq : Nat, del : BOOLEAN]

LEMMA PointType ==
    /\ Entry \subseteq Points /\ Nowhere \in Points
    /\ \A e \in Entry : e.key \in 1 .. TopKey /\ e.seq \in 1 .. Writes + MaxInserts /\ e.del \in BOOLEAN
    /\ Nowhere \notin Entry
BY IteratorAssumption DEF Points, Entry, Nowhere, UserKeys

\* Before is a strict order, and so is its complement transitive.
LEMMA Order ==
    ASSUME NEW a \in Points, NEW b \in Points, NEW c \in Points
    PROVE  /\ ~Before(a, a)
           /\ Before(a, b) => ~Before(b, a)
           /\ Before(a, b) /\ Before(b, c) => Before(a, c)
           /\ ~Before(a, b) /\ ~Before(b, c) => ~Before(a, c)
           /\ Before(a, b) /\ ~Before(c, b) => Before(a, c)
           /\ ~Before(b, a) /\ Before(b, c) => Before(a, c)
           /\ Before(a, b) => a.key <= b.key
           /\ a.key < b.key => Before(a, b)
           /\ ~Before(a, b) => b.key <= a.key
<1> /\ a.key \in Nat /\ a.seq \in Nat /\ b.key \in Nat /\ b.seq \in Nat
    /\ c.key \in Nat /\ c.seq \in Nat
  BY DEF Points
<1> QED BY DEF Before

LEMMA AllTyped ==
    ASSUME DataOK
    PROVE  /\ All \subseteq Entry /\ Seen \subseteq All
           /\ \A c \in Tables : data[c] \subseteq All
           /\ \A e \in All : \E c \in Tables : e \in data[c]
           /\ All \subseteq Points /\ Nowhere \notin All
BY PointType DEF DataOK, All, Seen

\* Two entries are in order one way or the other.
LEMMA Total ==
    ASSUME DataOK, NEW e \in All, NEW f \in All, e # f
    PROVE  Before(e, f) \/ Before(f, e)
<1>1. e \in Points /\ f \in Points BY AllTyped
<1>2. e.key \in Nat /\ f.key \in Nat /\ e.seq \in Nat /\ f.seq \in Nat BY <1>1 DEF Points
<1>3. e.seq # f.seq BY DEF DataOK
<1> QED BY <1>2, <1>3 DEF Before

\* The first and the last of some entries.
LEMMA FirstExists ==
    ASSUME DataOK, NEW S, S \subseteq All, S # {}
    PROVE  /\ FirstOf(S) \in S /\ FirstOf(S) # Nowhere
           /\ \A f \in S : f # FirstOf(S) => Before(FirstOf(S), f)
           /\ \A f \in S : ~Before(f, FirstOf(S))
<1>1. \E e \in S : \A f \in S \ {e} : Before(e, f)
  <2>1. \A e \in S : e \in Points /\ e.key \in Nat /\ e.seq \in 0 .. Writes + MaxInserts
    BY AllTyped, PointType DEF Points
  <2> DEFINE K == {e.key : e \in S}
  <2>2. K \subseteq Nat /\ K # {} BY <2>1
  <2> HIDE DEF K
  <2>3. PICK k \in K : \A j \in K : k <= j BY <2>2, LeastNumber
  <2> DEFINE Q == {e.seq : e \in {f \in S : f.key = k}}
  <2>4. Q \subseteq 0 .. Writes + MaxInserts /\ Q # {} BY <2>1, <2>3 DEF K
  <2>5. Writes + MaxInserts \in Nat BY IteratorAssumption
  <2> HIDE DEF Q
  <2>6. PICK q \in Q : \A j \in Q : j <= q BY <2>4, <2>5, GreatestNumber
  <2>7. PICK e \in S : e.key = k /\ e.seq = q BY <2>6 DEF Q
  <2>8. ASSUME NEW f \in S \ {e} PROVE Before(e, f)
    <3>1. k <= f.key BY <2>3 DEF K
    <3>2. f.key = k => f.seq <= q BY <2>6 DEF Q
    <3>3. Before(e, f) \/ Before(f, e) BY Total
    <3> QED BY <2>1, <2>7, <3>1, <3>2, <3>3 DEF Before
  <2> QED BY <2>8
<1>2. FirstOf(S) = CHOOSE e \in S : \A f \in S \ {e} : Before(e, f) BY DEF FirstOf
<1>3. FirstOf(S) \in S /\ \A f \in S \ {FirstOf(S)} : Before(FirstOf(S), f) BY <1>1, <1>2
<1>4. S \subseteq Points /\ Nowhere \notin S BY AllTyped
<1>5. \A f \in S : ~Before(f, FirstOf(S)) BY <1>3, <1>4, Order
<1> QED BY <1>3, <1>4, <1>5

LEMMA LastExists ==
    ASSUME DataOK, NEW S, S \subseteq All, S # {}
    PROVE  /\ LastOf(S) \in S /\ LastOf(S) # Nowhere
           /\ \A f \in S : f # LastOf(S) => Before(f, LastOf(S))
           /\ \A f \in S : ~Before(LastOf(S), f)
<1>1. \E e \in S : \A f \in S \ {e} : Before(f, e)
  <2>1. \A e \in S : e \in Points /\ e.key \in 0 .. TopKey /\ e.seq \in Nat
    BY AllTyped, PointType DEF Points
  <2> DEFINE K == {e.key : e \in S}
  <2>2. K \subseteq 0 .. TopKey /\ K # {} BY <2>1
  <2> HIDE DEF K
  <2>3. TopKey \in Nat BY IteratorAssumption
  <2>4. PICK k \in K : \A j \in K : j <= k BY <2>2, <2>3, GreatestNumber
  <2> DEFINE Q == {e.seq : e \in {f \in S : f.key = k}}
  <2>5. Q \subseteq Nat /\ Q # {} BY <2>1, <2>4 DEF K
  <2> HIDE DEF Q
  <2>6. PICK q \in Q : \A j \in Q : q <= j BY <2>5, LeastNumber
  <2>7. PICK e \in S : e.key = k /\ e.seq = q BY <2>6 DEF Q
  <2>8. ASSUME NEW f \in S \ {e} PROVE Before(f, e)
    <3>1. f.key <= k BY <2>4 DEF K
    <3>2. f.key = k => q <= f.seq BY <2>6 DEF Q
    <3>3. Before(e, f) \/ Before(f, e) BY Total
    <3> QED BY <2>1, <2>7, <3>1, <3>2, <3>3 DEF Before
  <2> QED BY <2>8
<1>2. LastOf(S) = CHOOSE e \in S : \A f \in S \ {e} : Before(f, e) BY DEF LastOf
<1>3. LastOf(S) \in S /\ \A f \in S \ {LastOf(S)} : Before(f, LastOf(S)) BY <1>1, <1>2
<1>4. S \subseteq Points /\ Nowhere \notin S BY AllTyped
<1>5. \A f \in S : ~Before(LastOf(S), f) BY <1>3, <1>4, Order
<1> QED BY <1>3, <1>4, <1>5

-----------------------------------------------------------------------------
(* The merging iterator. *)

\* Children that are at entries of theirs, or nowhere.
AtEntries(p) ==
    /\ p \in [Tables -> Points]
    /\ \A c \in Tables : p[c] # Nowhere => p[c] \in data[c]

\* FindSmallest and FindLargest.
LEMMA SmallestIs ==
    ASSUME DataOK, NEW p, AtEntries(p)
    PROVE  /\ Smallest(p) \in Tables \cup {0}
           /\ Smallest(p) = 0 => \A c \in Tables : p[c] = Nowhere
           /\ Smallest(p) # 0 =>
                  /\ Smallest(p) \in Tables /\ p[Smallest(p)] # Nowhere
                  /\ \A c \in Tables : p[c] # Nowhere => ~Before(p[c], p[Smallest(p)])
<1>1. CASE \A c \in Tables : p[c] = Nowhere BY <1>1 DEF Smallest
<1>2. CASE ~(\A c \in Tables : p[c] = Nowhere)
  <2> DEFINE S == {p[d] : d \in Tables} \ {Nowhere}
  <2>1. S \subseteq All /\ S # {} BY <1>2, AllTyped DEF AtEntries
  <2> HIDE DEF S
  <2>2. FirstOf(S) \in S /\ \A f \in S : ~Before(f, FirstOf(S)) BY <2>1, FirstExists
  <2>3. \E c \in Tables : p[c] = FirstOf(S) BY <2>2 DEF S
  <2>4. Smallest(p) = CHOOSE c \in Tables : p[c] = FirstOf(S) BY <1>2 DEF Smallest, S
  <2>5. Smallest(p) \in Tables /\ p[Smallest(p)] = FirstOf(S) BY <2>3, <2>4
  <2>6. Smallest(p) # 0 BY <2>5 DEF Tables
  <2> QED BY <2>2, <2>5, <2>6 DEF S
<1> QED BY <1>1, <1>2

LEMMA LargestIs ==
    ASSUME DataOK, NEW p, AtEntries(p)
    PROVE  /\ Largest(p) \in Tables \cup {0}
           /\ Largest(p) = 0 => \A c \in Tables : p[c] = Nowhere
           /\ Largest(p) # 0 =>
                  /\ Largest(p) \in Tables /\ p[Largest(p)] # Nowhere
                  /\ \A c \in Tables : p[c] # Nowhere => ~Before(p[Largest(p)], p[c])
<1>1. CASE \A c \in Tables : p[c] = Nowhere BY <1>1 DEF Largest
<1>2. CASE ~(\A c \in Tables : p[c] = Nowhere)
  <2> DEFINE S == {p[d] : d \in Tables} \ {Nowhere}
  <2>1. S \subseteq All /\ S # {} BY <1>2, AllTyped DEF AtEntries
  <2> HIDE DEF S
  <2>2. LastOf(S) \in S /\ \A f \in S : ~Before(LastOf(S), f) BY <2>1, LastExists
  <2>3. \E c \in Tables : p[c] = LastOf(S) BY <2>2 DEF S
  <2>4. Largest(p) = CHOOSE c \in Tables : p[c] = LastOf(S) BY <1>2 DEF Largest, S
  <2>5. Largest(p) \in Tables /\ p[Largest(p)] = LastOf(S) BY <2>3, <2>4
  <2>6. Largest(p) # 0 BY <2>5 DEF Tables
  <2> QED BY <2>2, <2>5, <2>6 DEF S
<1> QED BY <1>1, <1>2

\* With children that fit C, the merging iterator has C to go to, whatever it did before.
LEMMA GoingForward ==
    ASSUME DataOK, NEW p, NEW C \in SUBSET Seen, FitsAhead(p, C), Forward(p),
           UNCHANGED <<data, snapshot>>
    PROVE  MergeOK' /\ Ahead' = C /\ forward'
<1>1. AtEntries(p) BY PointType DEF AtEntries, FitsAhead
<1>2. places' = p /\ child' = Smallest(p) /\ forward' = TRUE BY DEF Forward
<1>3. All' = All /\ Seen' = Seen BY DEF All, Seen
<1>4. /\ child' \in Tables \cup {0}
      /\ child' = 0 => \A c \in Tables : p[c] = Nowhere
      /\ child' # 0 => /\ child' \in Tables /\ p[child'] # Nowhere
                       /\ \A c \in Tables : p[c] # Nowhere => ~Before(p[c], p[child'])
  BY <1>1, <1>2, SmallestIs
<1>5. Here' = p[child'] /\ (Valid' <=> child' # 0) BY <1>2 DEF Here, Valid
<1>6. ChildOK' BY <1>2, <1>4, <1>5 DEF ChildOK
<1>7. ASSUME NEW e \in Seen PROVE e \in C <=> Valid' /\ ~Before(e, Here')
  <2>1. PICK c \in Tables : e \in data[c] BY AllTyped
  <2>2. e \in C => p[c] # Nowhere /\ ~Before(e, p[c]) BY <2>1 DEF FitsAhead
  <2>3. e \in Points BY AllTyped
  <2>4. ASSUME e \in C PROVE Valid' /\ ~Before(e, Here')
    <3>1. Valid' /\ ~Before(p[c], p[child']) BY <1>4, <1>5, <2>2, <2>4
    <3>2. child' \in Tables BY <1>4, <1>5, <3>1
    <3>3. p[c] \in Points /\ p[child'] \in Points BY <1>1, <3>2 DEF AtEntries
    <3> QED BY <1>5, <2>2, <2>3, <2>4, <3>1, <3>3, Order
  <2>5. ASSUME Valid', ~Before(e, Here') PROVE e \in C
    <3>1. child' \in Tables /\ p[child'] # Nowhere BY <1>4, <1>5, <2>5
    <3> QED BY <1>5, <2>5, <3>1 DEF FitsAhead
  <2> QED BY <2>4, <2>5
<1>8. Ahead' = C BY <1>3, <1>7 DEF Ahead
<1>9. FitsAhead(places, Ahead)' BY <1>2, <1>3, <1>8 DEF FitsAhead
<1> QED BY <1>2, <1>6, <1>8, <1>9 DEF MergeOK

LEMMA GoingBackward ==
    ASSUME DataOK, NEW p, NEW C \in SUBSET Seen, FitsBehind(p, C), Backward(p),
           UNCHANGED <<data, snapshot>>
    PROVE  MergeOK' /\ Behind' = C /\ ~forward'
<1>1. AtEntries(p) BY PointType DEF AtEntries, FitsBehind
<1>2. places' = p /\ child' = Largest(p) /\ forward' = FALSE BY DEF Backward
<1>3. All' = All /\ Seen' = Seen BY DEF All, Seen
<1>4. /\ child' \in Tables \cup {0}
      /\ child' = 0 => \A c \in Tables : p[c] = Nowhere
      /\ child' # 0 => /\ child' \in Tables /\ p[child'] # Nowhere
                       /\ \A c \in Tables : p[c] # Nowhere => ~Before(p[child'], p[c])
  BY <1>1, <1>2, LargestIs
<1>5. Here' = p[child'] /\ (Valid' <=> child' # 0) BY <1>2 DEF Here, Valid
<1>6. ChildOK' BY <1>2, <1>4, <1>5 DEF ChildOK
<1>7. ASSUME NEW e \in Seen PROVE e \in C <=> Valid' /\ ~Before(Here', e)
  <2>1. PICK c \in Tables : e \in data[c] BY AllTyped
  <2>2. e \in C => p[c] # Nowhere /\ ~Before(p[c], e) BY <2>1 DEF FitsBehind
  <2>3. e \in Points BY AllTyped
  <2>4. ASSUME e \in C PROVE Valid' /\ ~Before(Here', e)
    <3>1. Valid' /\ ~Before(p[child'], p[c]) BY <1>4, <1>5, <2>2, <2>4
    <3>2. child' \in Tables BY <1>4, <1>5, <3>1
    <3>3. p[c] \in Points /\ p[child'] \in Points BY <1>1, <3>2 DEF AtEntries
    <3> QED BY <1>5, <2>2, <2>3, <2>4, <3>1, <3>3, Order
  <2>5. ASSUME Valid', ~Before(Here', e) PROVE e \in C
    <3>1. child' \in Tables /\ p[child'] # Nowhere BY <1>4, <1>5, <2>5
    <3> QED BY <1>5, <2>5, <3>1 DEF FitsBehind
  <2> QED BY <2>4, <2>5
<1>8. Behind' = C BY <1>3, <1>7 DEF Behind
<1>9. FitsBehind(places, Behind)' BY <1>2, <1>3, <1>8 DEF FitsBehind
<1> QED BY <1>2, <1>6, <1>8, <1>9 DEF MergeOK

\* What the iterator of a child finds from a point on, and before it.
LEMMA SeekIs ==
    ASSUME DataOK, NEW c \in Tables, NEW t \in Points
    PROVE  /\ SeekIn(c, t) # Nowhere => SeekIn(c, t) \in data[c] /\ ~Before(SeekIn(c, t), t)
           /\ \A e \in data[c] : ~Before(e, t) =>
                  SeekIn(c, t) # Nowhere /\ ~Before(e, SeekIn(c, t))
<1> DEFINE S == {f \in data[c] : ~Before(f, t)}
<1>1. SeekIn(c, t) = FirstOf(S) BY DEF SeekIn
<1>2. S \subseteq All BY AllTyped
<1>3. CASE S = {} BY <1>1, <1>3 DEF FirstOf
<1>4. CASE S # {}
  <2>1. FirstOf(S) \in S /\ FirstOf(S) # Nowhere /\ \A f \in S : ~Before(f, FirstOf(S))
    <3> HIDE DEF S
    <3> QED BY <1>2, <1>4, FirstExists
  <2> QED BY <1>1, <2>1
<1> QED BY <1>3, <1>4

LEMMA NextIs ==
    ASSUME DataOK, NEW c \in Tables, NEW t \in Points
    PROVE  /\ NextIn(c, t) # Nowhere => NextIn(c, t) \in data[c] /\ Before(t, NextIn(c, t))
           /\ \A e \in data[c] : Before(t, e) =>
                  NextIn(c, t) # Nowhere /\ ~Before(e, NextIn(c, t))
<1> DEFINE S == {f \in data[c] : Before(t, f)}
<1>1. NextIn(c, t) = FirstOf(S) BY DEF NextIn
<1>2. S \subseteq All BY AllTyped
<1>3. CASE S = {} BY <1>1, <1>3 DEF FirstOf
<1>4. CASE S # {}
  <2>1. FirstOf(S) \in S /\ FirstOf(S) # Nowhere /\ \A f \in S : ~Before(f, FirstOf(S))
    <3> HIDE DEF S
    <3> QED BY <1>2, <1>4, FirstExists
  <2> QED BY <1>1, <2>1
<1> QED BY <1>3, <1>4

LEMMA PrevIs ==
    ASSUME DataOK, NEW c \in Tables, NEW t \in Points
    PROVE  /\ PrevIn(c, t) # Nowhere => PrevIn(c, t) \in data[c] /\ Before(PrevIn(c, t), t)
           /\ \A e \in data[c] : Before(e, t) =>
                  PrevIn(c, t) # Nowhere /\ ~Before(PrevIn(c, t), e)
<1> DEFINE S == {f \in data[c] : Before(f, t)}
<1>1. PrevIn(c, t) = LastOf(S) BY DEF PrevIn
<1>2. S \subseteq All BY AllTyped
<1>3. CASE S = {} BY <1>1, <1>3 DEF LastOf
<1>4. CASE S # {}
  <2>1. LastOf(S) \in S /\ LastOf(S) # Nowhere /\ \A f \in S : ~Before(LastOf(S), f)
    <3> HIDE DEF S
    <3> QED BY <1>2, <1>4, LastExists
  <2> QED BY <1>1, <2>1
<1> QED BY <1>3, <1>4

\* How Next puts a child after the key, and how Prev puts one before it.
AfterPoint(c, t) == IF SeekIn(c, t) = t THEN NextIn(c, SeekIn(c, t)) ELSE SeekIn(c, t)
AheadOf(c, t)    == IF SeekIn(c, t) = Nowhere THEN LastOf(data[c]) ELSE PrevIn(c, SeekIn(c, t))

LEMMA AfterIs ==
    ASSUME DataOK, NEW c \in Tables, NEW t \in All
    PROVE  /\ AfterPoint(c, t) # Nowhere => AfterPoint(c, t) \in data[c] /\ Before(t, AfterPoint(c, t))
           /\ \A e \in data[c] : Before(t, e) =>
                  AfterPoint(c, t) # Nowhere /\ ~Before(e, AfterPoint(c, t))
<1>1. t \in Points /\ data[c] \subseteq All /\ All \subseteq Points BY AllTyped
<1>2. CASE SeekIn(c, t) = t
  <2>1. AfterPoint(c, t) = NextIn(c, t) BY <1>2 DEF AfterPoint
  <2> QED BY <1>1, <2>1, NextIs
<1>3. CASE SeekIn(c, t) # t
  <2>1. AfterPoint(c, t) = SeekIn(c, t) BY <1>3 DEF AfterPoint
  <2>2. SeekIn(c, t) # Nowhere => SeekIn(c, t) \in data[c] /\ ~Before(SeekIn(c, t), t)
    BY <1>1, SeekIs
  <2>3. SeekIn(c, t) # Nowhere => Before(t, SeekIn(c, t)) BY <1>1, <1>3, <2>2, Total
  <2>4. \A e \in data[c] : Before(t, e) => ~Before(e, t) BY <1>1, Order
  <2>5. \A e \in data[c] : ~Before(e, t) => SeekIn(c, t) # Nowhere /\ ~Before(e, SeekIn(c, t))
    BY <1>1, SeekIs
  <2> QED BY <2>1, <2>2, <2>3, <2>4, <2>5
<1> QED BY <1>2, <1>3

LEMMA AheadIs ==
    ASSUME DataOK, NEW c \in Tables, NEW t \in All
    PROVE  /\ AheadOf(c, t) # Nowhere => AheadOf(c, t) \in data[c] /\ Before(AheadOf(c, t), t)
           /\ \A e \in data[c] : Before(e, t) =>
                  AheadOf(c, t) # Nowhere /\ ~Before(AheadOf(c, t), e)
<1>1. t \in Points /\ data[c] \subseteq All /\ All \subseteq Points BY AllTyped
<1>2. /\ SeekIn(c, t) # Nowhere => SeekIn(c, t) \in data[c] /\ ~Before(SeekIn(c, t), t)
      /\ \A e \in data[c] : ~Before(e, t) => SeekIn(c, t) # Nowhere /\ ~Before(e, SeekIn(c, t))
  BY <1>1, SeekIs
<1>3. CASE SeekIn(c, t) = Nowhere
  <2>1. AheadOf(c, t) = LastOf(data[c]) BY <1>3 DEF AheadOf
  <2>2. \A e \in data[c] : Before(e, t) BY <1>2, <1>3
  <2>3. CASE data[c] = {} BY <2>1, <2>3 DEF LastOf
  <2>4. CASE data[c] # {} BY <1>1, <2>1, <2>2, <2>4, LastExists
  <2> QED BY <2>3, <2>4
<1>4. CASE SeekIn(c, t) # Nowhere
  <2> DEFINE s == SeekIn(c, t)
  <2>1. AheadOf(c, t) = PrevIn(c, s) BY <1>4 DEF AheadOf
  <2>2. s \in data[c] /\ s \in Points /\ ~Before(s, t) BY <1>1, <1>2, <1>4
  <2>3. /\ PrevIn(c, s) # Nowhere => PrevIn(c, s) \in data[c] /\ Before(PrevIn(c, s), s)
        /\ \A e \in data[c] : Before(e, s) => PrevIn(c, s) # Nowhere /\ ~Before(PrevIn(c, s), e)
    BY <2>2, PrevIs
  <2>4. \A e \in data[c] : Before(e, s) => Before(e, t) BY <1>2
  <2>5. \A e \in data[c] : Before(e, t) => Before(e, s) BY <1>1, <2>2, Order
  <2> QED BY <2>1, <2>3, <2>4, <2>5
<1> QED BY <1>3, <1>4

\* The operations of the merging iterator.
LEMMA MergeFirstGoes ==
    ASSUME DataOK, MergeFirst, UNCHANGED <<data, snapshot>>
    PROVE  MergeOK' /\ Ahead' = Seen /\ forward'
<1> DEFINE p == [c \in Tables |-> FirstOf(data[c])]
<1>1. \A c \in Tables : data[c] = {} => p[c] = Nowhere BY DEF FirstOf
<1>2. \A c \in Tables : data[c] # {} =>
          p[c] \in data[c] /\ p[c] # Nowhere /\ \A e \in data[c] : ~Before(e, p[c])
  BY AllTyped, FirstExists
<1>3. \A c \in Tables : p[c] \in Entry \cup {Nowhere} BY <1>1, <1>2, AllTyped
<1>4. FitsAhead(p, Seen) BY <1>1, <1>2, <1>3 DEF FitsAhead
<1>5. Forward(p) BY DEF MergeFirst
<1> HIDE DEF p
<1> QED BY <1>4, <1>5, GoingForward

LEMMA MergeLastGoes ==
    ASSUME DataOK, MergeLast, UNCHANGED <<data, snapshot>>
    PROVE  MergeOK' /\ Behind' = Seen /\ ~forward'
<1> DEFINE p == [c \in Tables |-> LastOf(data[c])]
<1>1. \A c \in Tables : data[c] = {} => p[c] = Nowhere BY DEF LastOf
<1>2. \A c \in Tables : data[c] # {} =>
          p[c] \in data[c] /\ p[c] # Nowhere /\ \A e \in data[c] : ~Before(p[c], e)
  BY AllTyped, LastExists
<1>3. \A c \in Tables : p[c] \in Entry \cup {Nowhere} BY <1>1, <1>2, AllTyped
<1>4. FitsBehind(p, Seen) BY <1>1, <1>2, <1>3 DEF FitsBehind
<1>5. Backward(p) BY DEF MergeLast
<1> HIDE DEF p
<1> QED BY <1>4, <1>5, GoingBackward

LEMMA MergeSeekGoes ==
    ASSUME DataOK, NEW t \in Points, MergeSeek(t), UNCHANGED <<data, snapshot>>
    PROVE  MergeOK' /\ Ahead' = {e \in Seen : ~Before(e, t)} /\ forward'
<1> DEFINE p == [c \in Tables |-> SeekIn(c, t)]
<1> DEFINE C == {e \in Seen : ~Before(e, t)}
<1>1. \A c \in Tables :
          /\ p[c] # Nowhere => p[c] \in data[c] /\ ~Before(p[c], t)
          /\ \A e \in data[c] : ~Before(e, t) => p[c] # Nowhere /\ ~Before(e, p[c])
  BY SeekIs
<1>2. \A c \in Tables : p[c] \in Entry \cup {Nowhere} BY <1>1, AllTyped
<1>3. \A c \in Tables : \A e \in Seen : p[c] # Nowhere /\ ~Before(e, p[c]) => e \in C
  <2>1. \A c \in Tables : p[c] \in Points BY <1>2, PointType
  <2>2. \A e \in Seen : e \in Points BY AllTyped
  <2>3. ASSUME NEW c \in Tables, NEW e \in Seen, p[c] # Nowhere, ~Before(e, p[c])
        PROVE  ~Before(e, t)
    <3>1. ~Before(p[c], t) BY <1>1, <2>3
    <3>2. e \in Points /\ p[c] \in Points BY <2>1, <2>2
    <3> HIDE DEF p
    <3> QED BY <2>3, <3>1, <3>2, Order
  <2> QED BY <2>3
<1>4. FitsAhead(p, C) BY <1>1, <1>2, <1>3 DEF FitsAhead
<1>5. Forward(p) BY DEF MergeSeek
<1>6. C \in SUBSET Seen OBVIOUS
<1> HIDE DEF p, C
<1>7. MergeOK' /\ Ahead' = C /\ forward' BY <1>4, <1>5, <1>6, GoingForward
<1> QED BY <1>7 DEF C

\* What MergeOK says of the entry the iterator is at.
LEMMA HereIs ==
    ASSUME DataOK, MergeOK, Valid
    PROVE  /\ child \in Tables /\ Here \in data[child] /\ Here \in All /\ Here \in Entry /\ Here \in Points
           /\ places \in [Tables -> Entry \cup {Nowhere}]
           /\ \A c \in Tables : places[c] # Nowhere =>
                  /\ places[c] \in data[c]
                  /\ forward => ~Before(places[c], Here)
                  /\ ~forward => ~Before(Here, places[c])
<1>1. /\ places \in [Tables -> Entry \cup {Nowhere}]
      /\ \A c \in Tables : places[c] # Nowhere => places[c] \in data[c]
  BY DEF MergeOK, FitsAhead, FitsBehind
<1>2. child \in Tables /\ places[child] # Nowhere BY DEF MergeOK, ChildOK, Valid
<1>3. Here \in data[child] BY <1>1, <1>2 DEF Here
<1>4. \A c \in Tables : places[c] # Nowhere =>
          (forward => ~Before(places[c], Here)) /\ (~forward => ~Before(Here, places[c]))
  BY DEF MergeOK, ChildOK, Valid
<1> QED BY <1>1, <1>2, <1>3, <1>4, AllTyped

LEMMA MergeNextGoes ==
    ASSUME DataOK, MergeOK, Valid, MergeNext, UNCHANGED <<data, snapshot>>
    PROVE  MergeOK' /\ Ahead' = {e \in Seen : Before(Here, e)} /\ forward'
<1> DEFINE C == {e \in Seen : Before(Here, e)}
           others == IF forward THEN places
                     ELSE [c \in Tables |-> IF c = child THEN Here ELSE AfterPoint(c, Here)]
           p == [others EXCEPT ![child] = NextIn(child, Here)]
<1>1. Forward(p) BY DEF MergeNext, AfterPoint
<1>2. p = [c \in Tables |-> IF c = child THEN NextIn(child, Here)
                            ELSE IF forward THEN places[c] ELSE AfterPoint(c, Here)]
  BY HereIs
<1> HIDE DEF p
<1>3. ASSUME NEW c \in Tables
      PROVE  /\ p[c] # Nowhere => p[c] \in data[c] /\ Before(Here, p[c])
             /\ \A e \in data[c] \cap C : p[c] # Nowhere /\ ~Before(e, p[c])
  <2>1. CASE c = child
    <3>1. p[c] = NextIn(c, Here) BY <1>2, <2>1
    <3> QED BY <3>1, HereIs, NextIs
  <2>2. CASE c # child /\ ~forward
    <3>1. p[c] = AfterPoint(c, Here) BY <1>2, <2>2
    <3> QED BY <3>1, HereIs, AfterIs
  <2>3. CASE c # child /\ forward
    <3>1. p[c] = places[c] BY <1>2, <2>3
    <3>2. ASSUME p[c] # Nowhere PROVE p[c] \in data[c] /\ Before(Here, p[c])
      <4>1. p[c] \in data[c] /\ ~Before(p[c], Here) BY <2>3, <3>1, <3>2, HereIs
      <4>2. p[c] # Here BY <2>3, <4>1, HereIs DEF DataOK
      <4>3. p[c] \in All /\ Here \in All BY <4>1, HereIs, AllTyped
      <4> QED BY <4>1, <4>2, <4>3, Total
    <3>3. ASSUME NEW e \in data[c] \cap C PROVE p[c] # Nowhere /\ ~Before(e, p[c])
      <4>1. ~Before(e, Here) BY HereIs, AllTyped, Order
      <4>2. e \in Ahead BY <4>1 DEF Ahead
      <4> QED BY <2>3, <3>1, <4>2 DEF MergeOK, FitsAhead
    <3> QED BY <3>2, <3>3
  <2> QED BY <2>1, <2>2, <2>3
<1>4. \A c \in Tables : p[c] \in Entry \cup {Nowhere} BY <1>3, AllTyped
<1>5. \A c \in Tables : \A e \in Seen : p[c] # Nowhere /\ ~Before(e, p[c]) => e \in C
  <2>1. ASSUME NEW c \in Tables, NEW e \in Seen, p[c] # Nowhere, ~Before(e, p[c])
        PROVE  Before(Here, e)
    <3>1. Before(Here, p[c]) BY <1>3, <2>1
    <3>2. e \in Points /\ p[c] \in Points /\ Here \in Points BY <1>4, HereIs, AllTyped, PointType
    <3> QED BY <2>1, <3>1, <3>2, Order
  <2> QED BY <2>1
<1>6. p \in [Tables -> Entry \cup {Nowhere}] BY <1>2, <1>4
<1>7. FitsAhead(p, C) BY <1>3, <1>5, <1>6 DEF FitsAhead
<1>8. C \in SUBSET Seen OBVIOUS
<1> HIDE DEF C
<1>9. MergeOK' /\ Ahead' = C /\ forward' BY <1>1, <1>7, <1>8, GoingForward
<1> QED BY <1>9 DEF C

LEMMA MergePrevGoes ==
    ASSUME DataOK, MergeOK, Valid, MergePrev, UNCHANGED <<data, snapshot>>
    PROVE  MergeOK' /\ Behind' = {e \in Seen : Before(e, Here)} /\ ~forward'
<1> DEFINE C == {e \in Seen : Before(e, Here)}
           others == IF forward THEN [c \in Tables |-> IF c = child THEN Here ELSE AheadOf(c, Here)]
                     ELSE places
           p == [others EXCEPT ![child] = PrevIn(child, Here)]
<1>1. Backward(p) BY DEF MergePrev, AheadOf
<1>2. p = [c \in Tables |-> IF c = child THEN PrevIn(child, Here)
                            ELSE IF forward THEN AheadOf(c, Here) ELSE places[c]]
  BY HereIs
<1> HIDE DEF p
<1>3. ASSUME NEW c \in Tables
      PROVE  /\ p[c] # Nowhere => p[c] \in data[c] /\ Before(p[c], Here)
             /\ \A e \in data[c] \cap C : p[c] # Nowhere /\ ~Before(p[c], e)
  <2>1. CASE c = child
    <3>1. p[c] = PrevIn(c, Here) BY <1>2, <2>1
    <3> QED BY <3>1, HereIs, PrevIs
  <2>2. CASE c # child /\ forward
    <3>1. p[c] = AheadOf(c, Here) BY <1>2, <2>2
    <3> QED BY <3>1, HereIs, AheadIs
  <2>3. CASE c # child /\ ~forward
    <3>1. p[c] = places[c] BY <1>2, <2>3
    <3>2. ASSUME p[c] # Nowhere PROVE p[c] \in data[c] /\ Before(p[c], Here)
      <4>1. p[c] \in data[c] /\ ~Before(Here, p[c]) BY <2>3, <3>1, <3>2, HereIs
      <4>2. p[c] # Here BY <2>3, <4>1, HereIs DEF DataOK
      <4>3. p[c] \in All /\ Here \in All BY <4>1, HereIs, AllTyped
      <4> QED BY <4>1, <4>2, <4>3, Total
    <3>3. ASSUME NEW e \in data[c] \cap C PROVE p[c] # Nowhere /\ ~Before(p[c], e)
      <4>1. ~Before(Here, e) BY HereIs, AllTyped, Order
      <4>2. e \in Behind BY <4>1 DEF Behind
      <4> QED BY <2>3, <3>1, <4>2 DEF MergeOK, FitsBehind
    <3> QED BY <3>2, <3>3
  <2> QED BY <2>1, <2>2, <2>3
<1>4. \A c \in Tables : p[c] \in Entry \cup {Nowhere} BY <1>3, AllTyped
<1>5. \A c \in Tables : \A e \in Seen : p[c] # Nowhere /\ ~Before(p[c], e) => e \in C
  <2>1. ASSUME NEW c \in Tables, NEW e \in Seen, p[c] # Nowhere, ~Before(p[c], e)
        PROVE  Before(e, Here)
    <3>1. Before(p[c], Here) BY <1>3, <2>1
    <3>2. e \in Points /\ p[c] \in Points /\ Here \in Points BY <1>4, HereIs, AllTyped, PointType
    <3> QED BY <2>1, <3>1, <3>2, Order
  <2> QED BY <2>1
<1>6. p \in [Tables -> Entry \cup {Nowhere}] BY <1>2, <1>4
<1>7. FitsBehind(p, C) BY <1>3, <1>5, <1>6 DEF FitsBehind
<1>8. C \in SUBSET Seen OBVIOUS
<1> HIDE DEF C
<1>9. MergeOK' /\ Behind' = C /\ ~forward' BY <1>1, <1>7, <1>8, GoingBackward
<1> QED BY <1>9 DEF C

-----------------------------------------------------------------------------
(* The map at the snapshot. *)

LEMMA NewestIs ==
    ASSUME DataOK, NEW k
    PROVE  /\ NewestAt(k) # Nowhere =>
                  /\ NewestAt(k) \in Seen /\ NewestAt(k).key = k
                  /\ \A e \in Seen : e.key = k => ~Before(e, NewestAt(k))
           /\ \A e \in Seen : e.key = k =>
                  /\ NewestAt(k) # Nowhere
                  /\ e # NewestAt(k) => Before(NewestAt(k), e)
<1> DEFINE S == {e \in All : e.key = k /\ e.seq <= snapshot}
<1>1. NewestAt(k) = FirstOf(S) BY DEF NewestAt, All
<1>2. S \subseteq All /\ \A e \in Seen : e.key = k => e \in S BY DEF Seen
<1>3. \A e \in S : e \in Seen /\ e.key = k BY DEF Seen
<1> HIDE DEF S
<1>4. CASE S = {} BY <1>1, <1>2, <1>4 DEF FirstOf
<1>5. CASE S # {}
  <2>1. /\ FirstOf(S) \in S /\ FirstOf(S) # Nowhere
        /\ \A f \in S : f # FirstOf(S) => Before(FirstOf(S), f)
        /\ \A f \in S : ~Before(f, FirstOf(S))
    BY <1>2, <1>5, FirstExists
  <2> QED BY <1>1, <1>2, <1>3, <2>1
<1> QED BY <1>4, <1>5

LEMMA ViewIs ==
    ASSUME DataOK, NEW m \in View
    PROVE  /\ m \in 1 .. TopKey /\ NewestAt(m) \in Seen /\ NewestAt(m) \in Entry
           /\ NewestAt(m).key = m /\ ~NewestAt(m).del
           /\ \A e \in Seen : e.key = m => ~Before(e, NewestAt(m))
           /\ \A e \in Seen : e.key = m /\ e # NewestAt(m) => Before(NewestAt(m), e)
<1>1. m \in 1 .. TopKey /\ NewestAt(m) # Nowhere /\ ~NewestAt(m).del BY DEF View, UserKeys
<1> QED BY <1>1, NewestIs, AllTyped

\* The newest entry of its key is what the map shows, unless it is a deletion.
LEMMA InView ==
    ASSUME DataOK, NEW e \in Seen, ~e.del,
           \A f \in Seen : f.key = e.key => ~Before(f, e)
    PROVE  e.key \in View /\ NewestAt(e.key) = e
<1>1. e \in Entry BY AllTyped
<1>2. e.key \in UserKeys BY <1>1 DEF Entry
<1>3. NewestAt(e.key) # Nowhere /\ NewestAt(e.key) \in Seen /\ NewestAt(e.key).key = e.key
      /\ (e # NewestAt(e.key) => Before(NewestAt(e.key), e))
  BY NewestIs
<1>4. NewestAt(e.key) = e BY <1>3
<1> QED BY <1>2, <1>3, <1>4 DEF View

\* The keys an iterator over the map would go to.
LEMMA AtOrAfterIs ==
    ASSUME DataOK, NEW k \in Int
    PROVE  /\ AtOrAfter(k) \in View \cup {0}
           /\ \A m \in View : m >= k <=> AtOrAfter(k) # 0 /\ m >= AtOrAfter(k)
<1>0. \A m \in View : m \in 1 .. TopKey /\ m \in Nat /\ m \in Int /\ m # 0
  BY DEF View, UserKeys
<1>1. CASE \A m \in View : m < k BY <1>0, <1>1 DEF AtOrAfter
<1>2. CASE ~(\A m \in View : m < k)
  <2> DEFINE S == {m \in View : m >= k}
  <2>1. S \subseteq Nat /\ S # {}
    <3>1. PICK n \in View : ~(n < k) BY <1>2
    <3>2. n >= k BY <1>0, <3>1
    <3> QED BY <1>0, <3>2
  <2> HIDE DEF S
  <2>2. PICK m \in S : \A n \in S : m <= n BY <2>1, LeastNumber
  <2>3. m \in View /\ m >= k /\ \A n \in View : n < k \/ m <= n BY <1>0, <2>2 DEF S
  <2>4. AtOrAfter(k) = CHOOSE x \in View : x >= k /\ \A n \in View : n < k \/ x <= n
    BY <1>2 DEF AtOrAfter
  <2>5. AtOrAfter(k) \in View /\ AtOrAfter(k) >= k /\ \A n \in View : n < k \/ AtOrAfter(k) <= n
    BY <2>3, <2>4
  <2>6. ASSUME NEW n \in View PROVE n >= k <=> AtOrAfter(k) # 0 /\ n >= AtOrAfter(k)
    <3> DEFINE a == AtOrAfter(k)
    <3>1. a \in Nat /\ a # 0 /\ a >= k /\ (n < k \/ a <= n) /\ n \in Nat BY <1>0, <2>5
    <3> HIDE DEF a
    <3>2. n >= k <=> a # 0 /\ n >= a BY <3>1
    <3> QED BY <3>2 DEF a
  <2> QED BY <2>5, <2>6
<1> QED BY <1>1, <1>2

LEMMA AtOrBeforeIs ==
    ASSUME DataOK, NEW k \in Int
    PROVE  /\ AtOrBefore(k) \in View \cup {0}
           /\ \A m \in View : m <= k <=> AtOrBefore(k) # 0 /\ m <= AtOrBefore(k)
<1>0. \A m \in View : m \in 1 .. TopKey /\ m \in Nat /\ m \in Int /\ m # 0
  BY DEF View, UserKeys
<1>1. CASE \A m \in View : m > k BY <1>0, <1>1 DEF AtOrBefore
<1>2. CASE ~(\A m \in View : m > k)
  <2> DEFINE S == {m \in View : m <= k}
  <2>1. S \subseteq 0 .. TopKey /\ S # {}
    <3>1. PICK n \in View : ~(n > k) BY <1>2
    <3>2. n <= k BY <1>0, <3>1
    <3>3. \A m \in S : m \in 0 .. TopKey BY <1>0
    <3> QED BY <3>2, <3>3
  <2>2. TopKey \in Nat BY IteratorAssumption
  <2> HIDE DEF S
  <2>3. PICK m \in S : \A n \in S : n <= m BY <2>1, <2>2, GreatestNumber
  <2>4. m \in View /\ m <= k /\ \A n \in View : n > k \/ m >= n BY <1>0, <2>3 DEF S
  <2>5. AtOrBefore(k) = CHOOSE x \in View : x <= k /\ \A n \in View : n > k \/ x >= n
    BY <1>2 DEF AtOrBefore
  <2>6. AtOrBefore(k) \in View /\ AtOrBefore(k) <= k /\ \A n \in View : n > k \/ AtOrBefore(k) >= n
    BY <2>4, <2>5
  <2>7. ASSUME NEW n \in View PROVE n <= k <=> AtOrBefore(k) # 0 /\ n <= AtOrBefore(k)
    <3> DEFINE a == AtOrBefore(k)
    <3>1. a \in Nat /\ a # 0 /\ a <= k /\ (n > k \/ a >= n) /\ n \in Nat BY <1>0, <2>6
    <3> HIDE DEF a
    <3>2. n <= k <=> a # 0 /\ n <= a BY <3>1
    <3> QED BY <3>2 DEF a
  <2> QED BY <2>6, <2>7
<1> QED BY <1>1, <1>2

-----------------------------------------------------------------------------
(* What a step has to establish, by the place of DBIter's call after it. *)

\* The map and what is seen of it depend on the entries up to the snapshot only.
LEMMA SameMap ==
    ASSUME UNCHANGED <<data, snapshot>>
    PROVE  All' = All /\ Seen' = Seen /\ View' = View /\ (\A m : NewestAt(m)' = NewestAt(m))
           /\ (DataOK => DataOK')
<1>1. All' = All /\ Seen' = Seen BY DEF All, Seen
<1>2. ASSUME NEW m PROVE NewestAt(m)' = NewestAt(m) BY DEF NewestAt
<1>3. View' = View BY <1>2 DEF View
<1> QED BY <1>1, <1>2, <1>3 DEF DataOK

KeptMap == Seen' = Seen /\ View' = View /\ (\A m : NewestAt(m)' = NewestAt(m))

LEMMA ForwardStep ==
    ASSUME KeptMap, DataOK', MergeOK', walk' \in WalkType, wanted' \in View \cup {0},
           walk'.at = "forward", ~walk'.reverse, ~walk'.valid, forward',
           OnTheWay(Ahead', walk'.skip, wanted')
    PROVE  IterInv'
<1>1. OnTheWay(Ahead, walk.skip, wanted)' BY DEF KeptMap, OnTheWay
<1> QED BY <1>1 DEF KeptMap, IterInv, WalkOK

LEMMA LeavingStep ==
    ASSUME KeptMap, DataOK', MergeOK', walk' \in WalkType, wanted' \in View \cup {0},
           walk'.at = "leaveKey", ~forward',
           Leaving(Behind', walk'.skip, wanted')
    PROVE  IterInv'
<1>1. Leaving(Behind, walk.skip, wanted)' BY DEF KeptMap, Leaving
<1> QED BY <1>1 DEF KeptMap, IterInv, WalkOK

LEMMA BackwardStep ==
    ASSUME KeptMap, DataOK', MergeOK', walk' \in WalkType, wanted' \in View \cup {0},
           walk'.at = "backward", walk'.reverse, ~walk'.valid, ~forward',
           OnTheWayBack(Behind', walk'.saved, wanted')
    PROVE  IterInv'
<1>1. OnTheWayBack(Behind, walk.saved, wanted)' BY DEF KeptMap, OnTheWayBack
<1> QED BY <1>1 DEF KeptMap, IterInv, WalkOK

LEMMA NothingStep ==
    ASSUME KeptMap, DataOK', MergeOK', walk' \in WalkType, wanted' = 0,
           walk'.at = "ready", ~walk'.valid
    PROVE  IterInv'
BY DEF KeptMap, IterInv, WalkOK

LEMMA AtKeyStep ==
    ASSUME KeptMap, DataOK', MergeOK', walk' \in WalkType, wanted' \in View,
           walk'.at = "ready", walk'.valid, ~walk'.reverse,
           forward', Valid', Here' = NewestAt(wanted')
    PROVE  IterInv'
<1>1. AtKey(wanted)' BY DEF KeptMap, AtKey
<1> QED BY <1>1 DEF KeptMap, IterInv, WalkOK

LEMMA PastKeyStep ==
    ASSUME KeptMap, DataOK', MergeOK', walk' \in WalkType, wanted' \in View,
           walk'.at = "ready", walk'.valid, walk'.reverse,
           ~forward', walk'.saved = NewestAt(wanted'),
           \A e \in Behind' : e.key < wanted', \A e \in Seen \ Behind' : e.key >= wanted'
    PROVE  IterInv'
<1>1. PastKey(Behind, walk.saved, wanted)' BY DEF KeptMap, PastKey
<1> QED BY <1>1 DEF KeptMap, IterInv, WalkOK

\* The records the calls start with, and the changes of a turn.
LEMMA ForwardWalk ==
    ASSUME NEW n \in 0 .. TopKey, NEW v, v = [Ready EXCEPT !.at = "forward", !.skip = n]
    PROVE  v \in WalkType /\ v.at = "forward" /\ v.skip = n /\ ~v.reverse /\ ~v.valid
BY DEF WalkType, Ready

LEMMA LeavingWalk ==
    ASSUME NEW n \in 0 .. TopKey, NEW v, v = [Ready EXCEPT !.at = "leaveKey", !.skip = n]
    PROVE  v \in WalkType /\ v.at = "leaveKey" /\ v.skip = n
BY DEF WalkType, Ready

LEMMA BackwardWalk ==
    ASSUME NEW v, v = [Ready EXCEPT !.at = "backward", !.reverse = TRUE]
    PROVE  v \in WalkType /\ v.at = "backward" /\ v.saved = Nowhere /\ v.reverse /\ ~v.valid
<1>1. 0 \in 0 .. TopKey BY IteratorAssumption
<1> QED BY <1>1 DEF WalkType, Ready

LEMMA ReadyWalk ==
    /\ Ready \in WalkType /\ Ready.at = "ready" /\ ~Ready.valid
    /\ \A v : v = [Ready EXCEPT !.valid = TRUE] =>
           v \in WalkType /\ v.at = "ready" /\ v.valid /\ ~v.reverse
<1>1. 0 \in 0 .. TopKey BY IteratorAssumption
<1> QED BY <1>1 DEF WalkType, Ready

LEMMA WalkFields ==
    ASSUME NEW u \in WalkType, NEW v
    PROVE  /\ \A n \in 0 .. TopKey : v = [u EXCEPT !.skip = n] =>
                  /\ v \in WalkType /\ v.skip = n
                  /\ v.at = u.at /\ v.valid = u.valid /\ v.reverse = u.reverse
           /\ \A e \in Entry \cup {Nowhere} : v = [u EXCEPT !.saved = e] =>
                  /\ v \in WalkType /\ v.saved = e
                  /\ v.at = u.at /\ v.valid = u.valid /\ v.reverse = u.reverse
           /\ v = [u EXCEPT !.at = "ready", !.valid = TRUE] =>
                  v \in WalkType /\ v.at = "ready" /\ v.valid /\ v.reverse = u.reverse /\ v.saved = u.saved
BY DEF WalkType

\* Seen entries of the state, typed.
LEMMA SeenTyped ==
    ASSUME DataOK
    PROVE  \A e \in Seen : /\ e \in Points /\ e \in Entry /\ e.key \in 1 .. TopKey /\ e.key \in Nat
                           /\ e.seq \in Nat /\ e.seq <= snapshot /\ e # Nowhere
<1>1. \A e \in Seen : e \in All /\ e.seq <= snapshot BY DEF Seen
<1> QED BY <1>1, AllTyped, PointType DEF Points

-----------------------------------------------------------------------------
(* The calls of DBIter. *)

LEMMA SeekStep ==
    ASSUME IterInv, NEW k \in UserKeys, DBIterSeek(k)
    PROVE  IterInv'
<1> DEFINE t == [key |-> k, seq |-> snapshot, del |-> FALSE]
           C == {e \in Seen : ~Before(e, t)}
<1>0. DataOK /\ UNCHANGED <<data, snapshot>> /\ k \in 1 .. TopKey /\ snapshot \in Nat /\ 0 \in 0 .. TopKey
  BY IteratorAssumption DEF IterInv, DataOK, DBIterSeek, UserKeys
<1>1. KeptMap /\ DataOK' BY <1>0, SameMap DEF KeptMap
<1>2. t \in Points BY <1>0 DEF Points
<1>3. t.key = k /\ t.seq = snapshot OBVIOUS
<1>4. MergeSeek(t) BY DEF DBIterSeek
<1> HIDE DEF t
<1>5. MergeOK' /\ Ahead' = C /\ forward' BY <1>0, <1>2, <1>4, MergeSeekGoes
<1>6. \A e \in Seen : e \in C <=> e.key >= k BY <1>0, <1>3, SeenTyped DEF Before
<1> HIDE DEF C
<1>7. walk' = [Ready EXCEPT !.at = "forward", !.skip = 0] BY DEF DBIterSeek, GoesForward
<1>8. /\ walk' \in WalkType /\ walk'.at = "forward" /\ walk'.skip = 0
      /\ ~walk'.reverse /\ ~walk'.valid
  BY <1>0, <1>7, ForwardWalk
<1>9. /\ wanted' \in View \cup {0}
      /\ \A m \in View : m >= k <=> wanted' # 0 /\ m >= wanted'
  BY <1>0, AtOrAfterIs DEF DBIterSeek
<1>10. OnTheWay(C, 0, wanted')
  <2>1. C \subseteq Seen BY DEF C
  <2>2. ASSUME NEW e \in Seen \ C, NEW f \in C PROVE e.key < f.key
    <3>1. ~(e.key >= k) /\ f.key >= k BY <1>6, <2>1
    <3>2. e.key \in Nat /\ f.key \in Nat /\ k \in Nat BY <1>0, <2>1, SeenTyped
    <3> QED BY <3>1, <3>2
  <2>3. \A e \in C : e.key >= 0 BY <1>0, <2>1, SeenTyped
  <2>4. ASSUME NEW m \in View PROVE (NewestAt(m) \in C /\ m > 0) <=> m >= k
    <3>1. m \in 1 .. TopKey /\ NewestAt(m) \in Seen /\ NewestAt(m).key = m BY <1>0, ViewIs
    <3>2. m > 0 BY <3>1
    <3> QED BY <1>6, <3>1, <3>2
  <2> QED BY <1>9, <2>2, <2>3, <2>4 DEF OnTheWay
<1> QED BY <1>1, <1>5, <1>8, <1>9, <1>10, ForwardStep

LEMMA SeekToFirstStep ==
    ASSUME IterInv, DBIterSeekToFirst
    PROVE  IterInv'
<1>0. DataOK /\ UNCHANGED <<data, snapshot>> /\ 0 \in 0 .. TopKey
  BY IteratorAssumption DEF IterInv, DBIterSeekToFirst
<1>1. KeptMap /\ DataOK' BY <1>0, SameMap DEF KeptMap
<1>2. MergeOK' /\ Ahead' = Seen /\ forward' BY <1>0, MergeFirstGoes DEF DBIterSeekToFirst
<1>3. walk' = [Ready EXCEPT !.at = "forward", !.skip = 0] BY DEF DBIterSeekToFirst, GoesForward
<1>4. /\ walk' \in WalkType /\ walk'.at = "forward" /\ walk'.skip = 0
      /\ ~walk'.reverse /\ ~walk'.valid
  BY <1>0, <1>3, ForwardWalk
<1>5. /\ wanted' \in View \cup {0}
      /\ \A m \in View : m >= 1 <=> wanted' # 0 /\ m >= wanted'
  BY <1>0, AtOrAfterIs DEF DBIterSeekToFirst
<1>6. OnTheWay(Seen, 0, wanted')
  <2>1. \A e \in Seen : e.key >= 0 BY <1>0, SeenTyped
  <2>2. ASSUME NEW m \in View PROVE (NewestAt(m) \in Seen /\ m > 0) <=> m >= 1
    <3>1. m \in 1 .. TopKey /\ NewestAt(m) \in Seen BY <1>0, ViewIs
    <3> QED BY <3>1
  <2> QED BY <1>5, <2>1, <2>2 DEF OnTheWay
<1> QED BY <1>1, <1>2, <1>4, <1>5, <1>6, ForwardStep

LEMMA SeekToLastStep ==
    ASSUME IterInv, DBIterSeekToLast
    PROVE  IterInv'
<1>0. DataOK /\ UNCHANGED <<data, snapshot>> /\ TopKey \in Nat
  BY IteratorAssumption DEF IterInv, DBIterSeekToLast
<1>1. KeptMap /\ DataOK' BY <1>0, SameMap DEF KeptMap
<1>2. MergeOK' /\ Behind' = Seen /\ ~forward' BY <1>0, MergeLastGoes DEF DBIterSeekToLast
<1>3. walk' = [Ready EXCEPT !.at = "backward", !.reverse = TRUE]
  BY DEF DBIterSeekToLast, GoesBackward
<1>4. /\ walk' \in WalkType /\ walk'.at = "backward" /\ walk'.saved = Nowhere
      /\ walk'.reverse /\ ~walk'.valid
  BY <1>3, BackwardWalk
<1>5. /\ wanted' \in View \cup {0}
      /\ \A m \in View : m <= TopKey <=> wanted' # 0 /\ m <= wanted'
  BY <1>0, AtOrBeforeIs DEF DBIterSeekToLast
<1>6. OnTheWayBack(Seen, Nowhere, wanted')
  <2>1. ASSUME NEW m \in View PROVE NewestAt(m) \in Seen /\ m <= TopKey
    <3>1. m \in 1 .. TopKey /\ NewestAt(m) \in Seen BY <1>0, ViewIs
    <3> QED BY <1>0, <3>1
  <2> QED BY <1>5, <2>1 DEF OnTheWayBack
<1> QED BY <1>1, <1>2, <1>4, <1>5, <1>6, BackwardStep

\* What IterInv says between calls, when there is a key to show.
LEMMA KeyIs ==
    ASSUME IterInv, walk.at = "ready", walk.valid
    PROVE  /\ Key = wanted /\ wanted \in View /\ wanted \in 1 .. TopKey /\ wanted \in 0 .. TopKey
           /\ ~walk.reverse => AtKey(wanted) /\ Here \in Seen /\ Here.key = wanted
           /\ walk.reverse  => PastKey(Behind, walk.saved, wanted)
<1>1. DataOK /\ walk \in WalkType BY DEF IterInv, WalkOK
<1>2. CASE ~walk.reverse
  <2>1. AtKey(wanted) BY <1>2 DEF IterInv, WalkOK
  <2>2. wanted \in View /\ Here = NewestAt(wanted) BY <2>1 DEF AtKey
  <2>3. Here \in Seen /\ Here.key = wanted /\ wanted \in 1 .. TopKey BY <1>1, <2>2, ViewIs
  <2> QED BY <1>2, <2>1, <2>2, <2>3 DEF Key
<1>3. CASE walk.reverse
  <2>1. PastKey(Behind, walk.saved, wanted) BY <1>3 DEF IterInv, WalkOK
  <2>2. wanted \in View /\ walk.saved = NewestAt(wanted) BY <2>1 DEF PastKey
  <2>3. walk.saved.key = wanted /\ wanted \in 1 .. TopKey BY <1>1, <2>2, ViewIs
  <2> QED BY <1>3, <2>1, <2>2, <2>3 DEF Key
<1> QED BY <1>2, <1>3

LEMMA SameMerge ==
    ASSUME MergeOK, StaysPut, UNCHANGED <<data, snapshot>>
    PROVE  /\ MergeOK' /\ Ahead' = Ahead /\ Behind' = Behind /\ forward' = forward
           /\ Here' = Here /\ Valid' = Valid
<1>1. /\ All' = All /\ Seen' = Seen
      /\ places' = places /\ child' = child /\ forward' = forward
  BY DEF StaysPut, All, Seen
<1>2. Here' = Here /\ Valid' = Valid BY <1>1 DEF Here, Valid
<1>3. Ahead' = Ahead /\ Behind' = Behind BY <1>1, <1>2 DEF Ahead, Behind
<1>4. ChildOK' BY <1>1, <1>2 DEF MergeOK, ChildOK
<1>5. forward => FitsAhead(places, Ahead)' BY <1>1, <1>3 DEF MergeOK, FitsAhead
<1>6. ~forward => FitsBehind(places, Behind)' BY <1>1, <1>3 DEF MergeOK, FitsBehind
<1> QED BY <1>1, <1>2, <1>3, <1>4, <1>5, <1>6 DEF MergeOK

LEMMA DBIterNextStep ==
    ASSUME IterInv, DBIterNext
    PROVE  IterInv'
<1>0. /\ DataOK /\ MergeOK /\ UNCHANGED <<data, snapshot>>
      /\ walk.at = "ready" /\ walk.valid /\ walk \in WalkType
  BY DEF IterInv, WalkOK, DBIterNext
<1>1. KeptMap /\ DataOK' BY <1>0, SameMap DEF KeptMap
<1>2. /\ Key = wanted /\ wanted \in View /\ wanted \in 1 .. TopKey /\ wanted \in 0 .. TopKey
      /\ ~walk.reverse => AtKey(wanted) /\ Here \in Seen /\ Here.key = wanted
      /\ walk.reverse  => PastKey(Behind, walk.saved, wanted)
  BY <1>0, KeyIs
<1>3. walk' = [Ready EXCEPT !.at = "forward", !.skip = wanted] BY <1>2 DEF DBIterNext, GoesForward
<1>4. /\ walk' \in WalkType /\ walk'.at = "forward" /\ walk'.skip = wanted
      /\ ~walk'.reverse /\ ~walk'.valid
  BY <1>2, <1>3, ForwardWalk
<1>5. /\ wanted' \in View \cup {0}
      /\ \A m \in View : m >= wanted + 1 <=> wanted' # 0 /\ m >= wanted'
  <2>1. wanted' = AtOrAfter(wanted + 1) BY <1>2 DEF DBIterNext
  <2>2. wanted + 1 \in Int BY <1>2
  <2> QED BY <1>0, <2>1, <2>2, AtOrAfterIs
\* What is ahead now are the entries of greater keys, and some of this key.
<1>6. /\ MergeOK' /\ forward' /\ Ahead' \subseteq Seen
      /\ \A e \in Ahead' : e.key >= wanted
      /\ \A e \in Seen \ Ahead' : e.key <= wanted
  <2>1. CASE ~walk.reverse
    <3>1. StaysPut BY <2>1 DEF DBIterNext
    <3>2. MergeOK' /\ Ahead' = Ahead /\ forward' = forward BY <1>0, <3>1, SameMerge
    <3>3. forward /\ Valid BY <1>2, <2>1 DEF AtKey
    <3>4. \A e \in Seen : e \in Ahead <=> ~Before(e, Here) BY <3>3 DEF Ahead
    <3>5. Here \in Seen /\ Here.key = wanted BY <1>2, <2>1
    <3>6. \A e \in Ahead : e.key >= wanted BY <1>0, <3>4, <3>5, SeenTyped, Order DEF Ahead
    <3>7. \A e \in Seen \ Ahead : e.key <= wanted BY <1>0, <3>4, <3>5, SeenTyped, Order
    <3> QED BY <3>2, <3>3, <3>6, <3>7 DEF Ahead
  <2>2. CASE walk.reverse
    <3>1. PastKey(Behind, walk.saved, wanted) BY <1>2, <2>2
    <3>2. MergeOK' /\ forward' /\ Ahead' = Seen \ Behind
      <4>1. CASE Valid
        <5>1. MergeNext BY <2>2, <4>1 DEF DBIterNext
        <5>2. MergeOK' /\ Ahead' = {e \in Seen : Before(Here, e)} /\ forward'
          BY <1>0, <4>1, <5>1, MergeNextGoes
        <5> QED BY <4>1, <5>2 DEF Behind
      <4>2. CASE ~Valid
        <5>1. MergeFirst BY <2>2, <4>2 DEF DBIterNext
        <5>2. MergeOK' /\ Ahead' = Seen /\ forward' BY <1>0, <5>1, MergeFirstGoes
        <5> QED BY <4>2, <5>2 DEF Behind
      <4> QED BY <4>1, <4>2
    <3>3. \A e \in Seen \ Behind : e.key >= wanted BY <3>1 DEF PastKey
    <3>4. \A e \in Behind : e.key < wanted BY <3>1 DEF PastKey
    <3>5. ASSUME NEW e \in Seen \ Ahead' PROVE e.key <= wanted
      <4>1. e \in Behind BY <3>2
      <4>2. e.key < wanted /\ e.key \in Nat /\ wanted \in Nat
        BY <1>0, <1>2, <3>4, <4>1, SeenTyped DEF Behind
      <4> QED BY <4>2
    <3> QED BY <3>2, <3>3, <3>5
  <2> QED BY <2>1, <2>2
<1>7. OnTheWay(Ahead', wanted, wanted')
  <2>1. \A e \in Seen \ Ahead' : \A f \in Ahead' : e.key <= wanted BY <1>6
  <2>2. ASSUME NEW m \in View PROVE (NewestAt(m) \in Ahead' /\ m > wanted) <=> m >= wanted + 1
    <3>1. m \in 1 .. TopKey /\ NewestAt(m) \in Seen /\ NewestAt(m).key = m BY <1>0, ViewIs
    <3>2. m > wanted => NewestAt(m) \in Ahead'
      <4>1. SUFFICES ASSUME m > wanted, NewestAt(m) \in Seen \ Ahead' PROVE FALSE BY <3>1
      <4>2. m <= wanted BY <1>6, <3>1, <4>1
      <4> QED BY <1>2, <3>1, <4>1, <4>2
    <3> QED BY <1>2, <3>1, <3>2
  <2> QED BY <1>5, <1>6, <2>1, <2>2 DEF OnTheWay
<1> QED BY <1>1, <1>4, <1>5, <1>6, <1>7, ForwardStep

LEMMA DBIterPrevStep ==
    ASSUME IterInv, DBIterPrev
    PROVE  IterInv'
<1>0. /\ DataOK /\ MergeOK /\ UNCHANGED <<data, snapshot>>
      /\ walk.at = "ready" /\ walk.valid /\ walk \in WalkType
  BY DEF IterInv, WalkOK, DBIterPrev
<1>1. KeptMap /\ DataOK' BY <1>0, SameMap DEF KeptMap
<1>2. /\ Key = wanted /\ wanted \in View /\ wanted \in 1 .. TopKey /\ wanted \in 0 .. TopKey
      /\ ~walk.reverse => AtKey(wanted) /\ Here \in Seen /\ Here.key = wanted
      /\ walk.reverse  => PastKey(Behind, walk.saved, wanted)
  BY <1>0, KeyIs
<1>3. /\ wanted' \in View \cup {0}
      /\ \A m \in View : m <= wanted - 1 <=> wanted' # 0 /\ m <= wanted'
  <2>1. wanted' = AtOrBefore(wanted - 1) BY <1>2 DEF DBIterPrev
  <2>2. wanted - 1 \in Int BY <1>2
  <2> QED BY <1>0, <2>1, <2>2, AtOrBeforeIs
<1>4. \A m \in View : m <= wanted - 1 <=> m < wanted
  <2>1. \A m \in View : m \in 1 .. TopKey BY <1>0, ViewIs
  <2> QED BY <1>2, <2>1
<1>5. CASE walk.reverse
  <2>1. StaysPut /\ GoesBackward BY <1>5 DEF DBIterPrev
  <2>2. MergeOK' /\ Behind' = Behind /\ forward' = forward BY <1>0, <2>1, SameMerge
  <2>3. walk' = [Ready EXCEPT !.at = "backward", !.reverse = TRUE] BY <2>1 DEF GoesBackward
  <2>4. /\ walk' \in WalkType /\ walk'.at = "backward" /\ walk'.saved = Nowhere
        /\ walk'.reverse /\ ~walk'.valid
    BY <2>3, BackwardWalk
  <2>5. /\ ~forward
        /\ \A e \in Behind : e.key < wanted
        /\ \A e \in Seen \ Behind : e.key >= wanted
    BY <1>2, <1>5 DEF PastKey
  <2>6. ASSUME NEW m \in View PROVE NewestAt(m) \in Behind <=> m < wanted
    <3>1. m \in 1 .. TopKey /\ NewestAt(m) \in Seen /\ NewestAt(m).key = m BY <1>0, ViewIs
    <3> QED BY <1>2, <2>5, <3>1
  <2>7. OnTheWayBack(Behind, Nowhere, wanted') BY <1>3, <1>4, <2>6 DEF OnTheWayBack
  <2> QED BY <1>1, <1>3, <2>2, <2>4, <2>5, <2>7, BackwardStep
<1>6. CASE ~walk.reverse
  <2>1. forward /\ Valid /\ Here \in Seen /\ Here.key = wanted BY <1>2, <1>6 DEF AtKey
  <2>2. MergePrev BY <1>6 DEF DBIterPrev
  <2>3. MergeOK' /\ Behind' = {e \in Seen : Before(e, Here)} /\ ~forward'
    BY <1>0, <2>1, <2>2, MergePrevGoes
  <2>4. walk' = [Ready EXCEPT !.at = "leaveKey", !.skip = wanted] BY <1>2, <1>6 DEF DBIterPrev
  <2>5. walk' \in WalkType /\ walk'.at = "leaveKey" /\ walk'.skip = wanted
    BY <1>2, <2>4, LeavingWalk
  <2>6. \A e \in Seen \ Behind' : e.key >= wanted BY <1>0, <2>1, <2>3, SeenTyped, Order
  <2>7. Leaving(Behind', wanted, wanted') BY <1>3, <1>4, <2>6 DEF Leaving
  <2> QED BY <1>1, <1>3, <2>3, <2>5, <2>7, LeavingStep
<1> QED BY <1>5, <1>6

-----------------------------------------------------------------------------
(* The turns of their loops. *)

LEMMA FindNextStep ==
    ASSUME IterInv, FindNext
    PROVE  IterInv'
<1>0. /\ DataOK /\ MergeOK /\ UNCHANGED <<data, snapshot>> /\ wanted' = wanted
      /\ walk.at = "forward" /\ walk \in WalkType /\ wanted \in View \cup {0}
      /\ forward /\ ~walk.reverse /\ ~walk.valid /\ OnTheWay(Ahead, walk.skip, wanted)
  BY DEF IterInv, WalkOK, FindNext
<1>1. KeptMap /\ DataOK' BY <1>0, SameMap DEF KeptMap
<1>2. \A m \in View : /\ m \in 1 .. TopKey /\ m \in Nat /\ NewestAt(m) \in Seen
                      /\ NewestAt(m).key = m /\ ~NewestAt(m).del
  BY <1>0, ViewIs
<1>3. walk.skip \in 0 .. TopKey /\ walk.skip \in Nat BY <1>0 DEF WalkType
<1>4. CASE ~Valid
  <2>1. walk' = Ready /\ StaysPut BY <1>4 DEF FindNext
  <2>2. MergeOK' BY <1>0, <2>1, SameMerge
  <2>3. Ahead = {} BY <1>4 DEF Ahead
  <2>4. wanted = 0
    <3>1. SUFFICES ASSUME wanted \in View, wanted # 0 PROVE FALSE BY <1>0
    <3>2. NewestAt(wanted) \in Ahead BY <1>0, <1>2, <3>1 DEF OnTheWay
    <3> QED BY <2>3, <3>2
  <2> QED BY <1>0, <1>1, <2>1, <2>2, <2>4, ReadyWalk, NothingStep
<1>5. CASE Valid
  <2>1. Here \in All /\ Here \in Points /\ Here \in Entry BY <1>0, <1>5, HereIs
  <2>2. Here.seq <= snapshot <=> Here \in Seen BY <2>1 DEF Seen
  <2>3. \A e \in Seen : e \in Ahead <=> ~Before(e, Here) BY <1>5 DEF Ahead
  <2>4. Here \in Seen => Here \in Ahead /\ Here.key \in Nat /\ Here.key \in 0 .. TopKey
        /\ Here.key >= walk.skip
    <3>1. Here \in Seen => Here \in Ahead BY <2>1, <2>3, Order
    <3>2. Here.key \in 1 .. TopKey BY <2>1, PointType
    <3> QED BY <1>0, <3>1, <3>2 DEF OnTheWay
  <2>5. CASE Here \in Seen /\ ~Here.del /\ ~(walk.skip # 0 /\ Here.key <= walk.skip)
    <3>1. walk' = [Ready EXCEPT !.valid = TRUE] /\ StaysPut BY <1>5, <2>2, <2>5 DEF FindNext
    <3>2. /\ MergeOK' /\ Ahead' = Ahead /\ forward' = forward
          /\ Here' = Here /\ Valid' = Valid
      BY <1>0, <3>1, SameMerge
    <3>3. Here.key > walk.skip /\ Here.key \in 1 .. TopKey BY <1>3, <2>1, <2>4, <2>5, PointType
    <3>4. Here.key \in View /\ NewestAt(Here.key) = Here
      <4>1. ASSUME NEW f \in Seen, f.key = Here.key PROVE ~Before(f, Here)
        <5>1. SUFFICES ASSUME f \in Seen \ Ahead PROVE FALSE BY <2>3
        <5>2. f.key <= walk.skip \/ f.key < Here.key BY <1>0, <2>4, <2>5, <5>1 DEF OnTheWay
        <5> QED BY <1>3, <3>3, <4>1, <5>2
      <4> QED BY <1>0, <2>5, <4>1, InView
    <3>5. wanted # 0 /\ Here.key >= wanted BY <1>0, <2>4, <2>5, <3>3, <3>4 DEF OnTheWay
    <3>6. wanted \in View /\ wanted \in Nat BY <1>0, <1>2, <3>5
    <3>7. NewestAt(wanted) \in Ahead BY <1>0, <3>5, <3>6 DEF OnTheWay
    <3>8. wanted >= Here.key
      <4>1. ~Before(NewestAt(wanted), Here) BY <1>2, <2>3, <3>6, <3>7
      <4>2. NewestAt(wanted) \in Points BY <1>0, <1>2, <3>6, SeenTyped
      <4>3. Here.key <= NewestAt(wanted).key BY <2>1, <4>1, <4>2, Order
      <4> QED BY <1>2, <3>3, <3>6, <4>3
    <3>9. wanted = Here.key BY <3>3, <3>5, <3>6, <3>8
    <3> QED BY <1>0, <1>1, <1>5, <3>1, <3>2, <3>4, <3>6, <3>9, ReadyWalk, AtKeyStep
  <2>6. CASE ~(Here \in Seen /\ ~Here.del /\ ~(walk.skip # 0 /\ Here.key <= walk.skip))
    <3> DEFINE C == {e \in Seen : Before(Here, e)}
               skip == IF Here \in Seen /\ Here.del THEN Here.key ELSE walk.skip
    <3>1. MergeNext /\ walk' = IF Here \in Seen /\ Here.del THEN [walk EXCEPT !.skip = Here.key] ELSE walk
      BY <1>5, <2>2, <2>6 DEF FindNext
    <3>2. MergeOK' /\ Ahead' = C /\ forward' BY <1>0, <1>5, <3>1, MergeNextGoes
    <3>3. walk' \in WalkType /\ walk'.skip = skip /\ walk'.at = "forward" /\ ~walk'.reverse /\ ~walk'.valid
      <4>1. CASE Here \in Seen /\ Here.del
        <5>1. walk' = [walk EXCEPT !.skip = Here.key] BY <3>1, <4>1
        <5>2. /\ walk' \in WalkType /\ walk'.skip = Here.key
              /\ walk'.at = walk.at /\ walk'.valid = walk.valid /\ walk'.reverse = walk.reverse
          BY <1>0, <2>4, <4>1, <5>1, WalkFields, ZenonT(30)
        <5> QED BY <1>0, <4>1, <5>2
      <4>2. CASE ~(Here \in Seen /\ Here.del) BY <1>0, <3>1, <4>2
      <4> QED BY <4>1, <4>2
    <3>4. skip \in Nat /\ walk.skip <= skip /\ (Here \in Seen => Here.key <= skip)
      BY <1>3, <2>4, <2>6
\* The step leaves behind at most the entry the iterator was at.
    <3>5. \A e \in Seen : e \in C <=> e \in Ahead /\ e # Here
      <4>1. \A e \in Seen : Before(Here, e) => ~Before(e, Here) /\ e # Here BY <1>0, <2>1, SeenTyped, Order
      <4>2. \A e \in Seen : ~Before(e, Here) /\ e # Here => Before(Here, e)
        BY <1>0, <2>1, AllTyped, Total
      <4> QED BY <2>3, <4>1, <4>2
    <3>6. C \subseteq Ahead BY <3>5
    <3> HIDE DEF C
    <3>7. ASSUME NEW e \in Seen \ C, NEW f \in C PROVE e.key <= skip \/ e.key < f.key
      <4>0. e.key \in Nat /\ f.key \in Nat BY <1>0, <3>6, SeenTyped DEF Ahead
      <4>1. CASE e = Here BY <3>4, <4>1
      <4>2. CASE e # Here
        <5>1. e \in Seen \ Ahead /\ f \in Ahead BY <3>5, <3>6, <4>2
        <5>2. e.key <= walk.skip \/ e.key < f.key BY <1>0, <5>1 DEF OnTheWay
        <5> HIDE DEF skip
        <5> QED BY <1>3, <3>4, <4>0, <5>2
      <4> QED BY <4>1, <4>2
    <3>8. ASSUME NEW e \in C PROVE e.key >= skip
      <4>1. e \in Ahead /\ e \in Seen BY <3>6 DEF Ahead
      <4>2. e.key >= walk.skip BY <1>0, <4>1 DEF OnTheWay
      <4>3. Here.key <= e.key BY <1>0, <2>1, <2>3, <4>1, SeenTyped, Order
      <4> QED BY <1>3, <2>4, <4>1, <4>2, <4>3, <1>0, SeenTyped
    <3>9. ASSUME NEW m \in View
          PROVE  (NewestAt(m) \in C /\ m > skip) <=> (NewestAt(m) \in Ahead /\ m > walk.skip)
      <4>1. /\ m \in Nat /\ NewestAt(m) \in Seen /\ NewestAt(m).key = m /\ ~NewestAt(m).del
            /\ \A e \in Seen : e.key = m /\ e # NewestAt(m) => Before(NewestAt(m), e)
        BY <1>0, <1>2, ViewIs
      <4>2. ASSUME NewestAt(m) \in C, m > skip PROVE NewestAt(m) \in Ahead /\ m > walk.skip
        <5> HIDE DEF skip
        <5> QED BY <1>3, <3>4, <3>6, <4>1, <4>2
      <4>3. ASSUME NewestAt(m) \in Ahead, m > walk.skip PROVE NewestAt(m) \in C /\ m > skip
        <5>1. NewestAt(m) # Here
          <6>1. SUFFICES ASSUME NewestAt(m) = Here PROVE FALSE OBVIOUS
          <6>2. Here \in Seen /\ ~Here.del /\ Here.key = m BY <4>1, <6>1
          <6> QED BY <1>3, <2>6, <4>1, <4>3, <6>2
        <5>2. NewestAt(m) \in C BY <3>5, <4>1, <4>3, <5>1
        <5>3. CASE ~(Here \in Seen /\ Here.del) BY <4>3, <5>2, <5>3
        <5>4. CASE Here \in Seen /\ Here.del
          <6>1. Here.key <= m /\ ~Before(NewestAt(m), Here)
            BY <1>0, <2>1, <2>3, <4>1, <4>3, SeenTyped, Order
          <6>2. Here.key # m BY <4>1, <5>1, <5>4, <6>1
          <6> QED BY <2>4, <4>1, <5>2, <5>4, <6>1, <6>2
        <5> QED BY <5>3, <5>4
      <4> QED BY <4>2, <4>3
    <3> HIDE DEF skip
    <3>10. OnTheWay(C, skip, wanted) BY <1>0, <3>7, <3>8, <3>9 DEF OnTheWay
    <3> QED BY <1>0, <1>1, <3>2, <3>3, <3>10, ForwardStep
  <2> QED BY <2>5, <2>6
<1> QED BY <1>4, <1>5

LEMMA LeaveKeyStep ==
    ASSUME IterInv, LeaveKey
    PROVE  IterInv'
<1>0. /\ DataOK /\ MergeOK /\ UNCHANGED <<data, snapshot>> /\ wanted' = wanted
      /\ walk.at = "leaveKey" /\ walk \in WalkType /\ wanted \in View \cup {0}
      /\ ~forward /\ Leaving(Behind, walk.skip, wanted)
  BY DEF IterInv, WalkOK, LeaveKey
<1>1. KeptMap /\ DataOK' BY <1>0, SameMap DEF KeptMap
<1>2. \A m \in View : m \in Nat /\ m # 0 /\ NewestAt(m) \in Seen /\ NewestAt(m).key = m
  BY <1>0, ViewIs
<1>3. walk.skip \in Nat BY <1>0 DEF WalkType
<1>4. CASE ~Valid
  <2>1. walk' = Ready /\ StaysPut BY <1>4 DEF LeaveKey
  <2>2. MergeOK' BY <1>0, <2>1, SameMerge
  <2>3. wanted = 0
    <3>1. SUFFICES ASSUME wanted \in View, wanted # 0 PROVE FALSE BY <1>0
    <3>2. wanted < walk.skip BY <1>0, <1>2, <3>1 DEF Leaving
    <3>3. NewestAt(wanted) \in Seen \ Behind BY <1>2, <1>4, <3>1 DEF Behind
    <3>4. wanted >= walk.skip BY <1>0, <1>2, <3>1, <3>3 DEF Leaving
    <3> QED BY <1>2, <1>3, <3>1, <3>2, <3>4
  <2> QED BY <1>0, <1>1, <2>1, <2>2, <2>3, ReadyWalk, NothingStep
<1>5. CASE Valid
  <2>1. Here \in All /\ Here \in Points BY <1>0, <1>5, HereIs
  <2>2. \A e \in Seen : e \in Behind <=> ~Before(Here, e) BY <1>5 DEF Behind
  <2>3. CASE Here.key < walk.skip
    <3>1. GoesBackward /\ StaysPut BY <1>5, <2>3 DEF LeaveKey
    <3>2. MergeOK' /\ Behind' = Behind /\ forward' = forward BY <1>0, <3>1, SameMerge
    <3>3. walk' = [Ready EXCEPT !.at = "backward", !.reverse = TRUE] BY <3>1 DEF GoesBackward
    <3>4. /\ walk' \in WalkType /\ walk'.at = "backward" /\ walk'.saved = Nowhere
          /\ walk'.reverse /\ ~walk'.valid
      BY <3>3, BackwardWalk
    <3>5. ASSUME NEW m \in View PROVE NewestAt(m) \in Behind <=> m < walk.skip
      <4>1. NewestAt(m) \in Points /\ Here.key \in Nat BY <1>0, <1>2, <2>1, SeenTyped DEF Points
      <4>2. NewestAt(m) \in Behind => m <= Here.key BY <1>2, <2>1, <2>2, <4>1, Order
      <4>3. NewestAt(m) \notin Behind => m >= walk.skip BY <1>0, <1>2 DEF Leaving
      <4> QED BY <1>2, <1>3, <2>3, <4>1, <4>2, <4>3
    <3>6. OnTheWayBack(Behind, Nowhere, wanted) BY <1>0, <3>5 DEF OnTheWayBack, Leaving
    <3> QED BY <1>0, <1>1, <3>2, <3>4, <3>6, BackwardStep
  <2>4. CASE ~(Here.key < walk.skip)
    <3>1. MergePrev /\ walk' = walk BY <1>5, <2>4 DEF LeaveKey
    <3>2. MergeOK' /\ Behind' = {e \in Seen : Before(e, Here)} /\ ~forward'
      BY <1>0, <1>5, <3>1, MergePrevGoes
    <3>3. ASSUME NEW e \in Seen \ Behind' PROVE e.key >= walk.skip
      <4>1. ~Before(e, Here) BY <3>2
      <4>2. e \in Points /\ Here.key \in Nat /\ e.key \in Nat BY <1>0, <2>1, SeenTyped DEF Points
      <4>3. Here.key <= e.key BY <2>1, <4>1, <4>2, Order
      <4> QED BY <1>3, <2>4, <4>2, <4>3
    <3>4. Leaving(Behind', walk.skip, wanted) BY <1>0, <3>3 DEF Leaving
    <3> QED BY <1>0, <1>1, <3>1, <3>2, <3>4, LeavingStep
  <2> QED BY <2>3, <2>4
<1> QED BY <1>4, <1>5

LEMMA FindPrevStep ==
    ASSUME IterInv, FindPrev
    PROVE  IterInv'
<1>0. /\ DataOK /\ MergeOK /\ UNCHANGED <<data, snapshot>> /\ wanted' = wanted
      /\ walk.at = "backward" /\ walk \in WalkType /\ wanted \in View \cup {0}
      /\ ~forward /\ walk.reverse /\ ~walk.valid /\ OnTheWayBack(Behind, walk.saved, wanted)
  BY DEF IterInv, WalkOK, FindPrev
<1>1. KeptMap /\ DataOK' BY <1>0, SameMap DEF KeptMap
<1>2. \A m \in View : /\ m \in 1 .. TopKey /\ m \in Nat /\ m # 0 /\ NewestAt(m) \in Seen
                      /\ NewestAt(m).key = m /\ ~NewestAt(m).del
  BY <1>0, ViewIs
<1> DEFINE saved == walk.saved
<1>3. saved # Nowhere =>
          /\ saved \in Seen /\ saved \notin Behind /\ ~saved.del /\ saved.key \in Nat
          /\ \A e \in Seen \ Behind : e.key >= saved.key /\ (e.key = saved.key => ~Before(e, saved))
  BY <1>0, SeenTyped DEF OnTheWayBack
<1>4. \A e \in Seen : e \in Behind <=> Valid /\ ~Before(Here, e) BY DEF Behind
<1>5. Valid => Here \in All /\ Here \in Points /\ Here \in Entry /\ Here.key \in Nat
  BY <1>0, HereIs DEF Points
<1>6. Valid => (Here.seq <= snapshot <=> Here \in Seen) BY <1>5 DEF Seen
<1>7. CASE ~Valid \/ (Here \in Seen /\ saved # Nowhere /\ Here.key < saved.key)
  <2>1. /\ walk' = IF saved = Nowhere THEN Ready ELSE [walk EXCEPT !.at = "ready", !.valid = TRUE]
        /\ StaysPut
    BY <1>6, <1>7 DEF FindPrev
  <2>2. MergeOK' /\ Behind' = Behind /\ forward' = forward BY <1>0, <2>1, SameMerge
  <2>3. CASE saved = Nowhere
    <3>1. walk' = Ready /\ Behind = {} BY <1>7, <2>1, <2>3 DEF Behind
    <3>2. wanted = 0
      <4>1. SUFFICES ASSUME wanted \in View, wanted # 0 PROVE FALSE BY <1>0
      <4>2. NewestAt(wanted) \in Behind BY <1>0, <1>2, <2>3, <4>1 DEF OnTheWayBack
      <4> QED BY <3>1, <4>2
    <3> QED BY <1>0, <1>1, <2>2, <3>1, <3>2, ReadyWalk, NothingStep
  <2>4. CASE saved # Nowhere
    <3>1. walk' = [walk EXCEPT !.at = "ready", !.valid = TRUE] BY <2>1, <2>4
    <3>2. /\ walk' \in WalkType /\ walk'.at = "ready" /\ walk'.valid /\ walk'.reverse
          /\ walk'.saved = saved
      BY <1>0, <3>1, WalkFields
    <3>3. ASSUME NEW e \in Behind PROVE e.key < saved.key
      <4>1. e \in Seen /\ e \in Points /\ e.key \in Nat BY <1>0, SeenTyped DEF Behind
      <4>2. Valid /\ ~Before(Here, e) BY <1>4, <4>1
      <4>3. e.key <= Here.key BY <1>5, <4>1, <4>2, Order
      <4> QED BY <1>3, <1>5, <1>7, <2>4, <4>1, <4>2, <4>3
    <3>4. saved.key \in View /\ NewestAt(saved.key) = saved
      <4>1. ASSUME NEW f \in Seen, f.key = saved.key PROVE ~Before(f, saved)
        <5>1. f \notin Behind BY <1>3, <2>4, <3>3, <4>1
        <5> QED BY <1>3, <2>4, <4>1, <5>1
      <4> QED BY <1>0, <1>3, <2>4, <4>1, InView
    <3>5. wanted # 0 /\ saved.key <= wanted BY <1>0, <2>4, <3>4 DEF OnTheWayBack
    <3>6. wanted \in View /\ wanted \in Nat BY <1>0, <1>2, <3>5
    <3>7. wanted = saved.key
      <4>1. NewestAt(wanted) \in Behind \/ wanted = saved.key
        BY <1>0, <3>5, <3>6 DEF OnTheWayBack
      <4>2. NewestAt(wanted) \in Behind => wanted < saved.key BY <1>2, <3>3, <3>6
      <4> QED BY <1>3, <2>4, <3>5, <3>6, <4>1, <4>2
    <3>8. \A e \in Seen \ Behind : e.key >= saved.key BY <1>3, <2>4
    <3> QED BY <1>0, <1>1, <2>2, <3>2, <3>3, <3>4, <3>6, <3>7, <3>8, PastKeyStep
  <2> QED BY <2>3, <2>4
<1>8. CASE Valid /\ ~(Here \in Seen /\ saved # Nowhere /\ Here.key < saved.key)
  <2> DEFINE C == {e \in Seen : Before(e, Here)}
             now == IF Here \notin Seen THEN saved ELSE IF Here.del THEN Nowhere ELSE Here
  <2>1. /\ walk' = IF Here \notin Seen THEN walk
                   ELSE [walk EXCEPT !.saved = IF Here.del THEN Nowhere ELSE Here]
        /\ MergePrev
    BY <1>6, <1>8 DEF FindPrev
  <2>2. MergeOK' /\ Behind' = C /\ ~forward' BY <1>0, <1>8, <2>1, MergePrevGoes
  <2>3. walk' \in WalkType /\ walk'.saved = now /\ walk'.at = "backward" /\ walk'.reverse /\ ~walk'.valid
    <3>1. CASE Here \notin Seen BY <1>0, <2>1, <3>1
    <3>2. CASE Here \in Seen
      <4>1. now \in Entry \cup {Nowhere} /\ walk' = [walk EXCEPT !.saved = now]
        BY <1>5, <1>8, <2>1, <3>2
      <4> HIDE DEF now
      <4>2. /\ walk' \in WalkType /\ walk'.saved = now
            /\ walk'.at = walk.at /\ walk'.valid = walk.valid /\ walk'.reverse = walk.reverse
        BY <1>0, <4>1, WalkFields
      <4> QED BY <1>0, <4>2
    <3> QED BY <3>1, <3>2
  <2>4. \A e \in Seen : e \in C <=> e \in Behind /\ e # Here
    <3>1. \A e \in Seen : Before(e, Here) => ~Before(Here, e) /\ e # Here
      BY <1>0, <1>5, <1>8, SeenTyped, Order
    <3>2. \A e \in Seen : ~Before(Here, e) /\ e # Here => Before(e, Here)
      BY <1>0, <1>5, <1>8, AllTyped, Total
    <3> QED BY <1>4, <1>8, <3>1, <3>2
  <2>5. C \subseteq Seen /\ Behind \subseteq Seen BY DEF Behind
  <2>6. CASE Here \notin Seen
    <3>1. C = Behind BY <2>4, <2>5, <2>6
    <3>2. now = saved BY <2>6
    <3> QED BY <1>0, <1>1, <2>2, <2>3, <3>1, <3>2, BackwardStep
  <2>7. CASE Here \in Seen
    <3>1. now = IF Here.del THEN Nowhere ELSE Here BY <2>7
    <3>2. Here \in Behind /\ Here \notin C BY <1>4, <1>5, <1>8, <2>4, <2>7, Order
\* The entry passed is the newest seen so far of the least key passed.
    <3>3. ASSUME NEW e \in Seen \ C PROVE e.key >= Here.key /\ (e.key = Here.key => ~Before(e, Here))
      <4>1. ~Before(e, Here) /\ e \in Points /\ e.key \in Nat BY <1>0, SeenTyped
      <4>2. Here.key <= e.key BY <1>5, <1>8, <4>1, Order
      <4> QED BY <1>5, <1>8, <4>1, <4>2
    <3>4. saved # Nowhere => saved.key = Here.key
      <4>1. SUFFICES ASSUME saved # Nowhere PROVE saved.key = Here.key OBVIOUS
      <4>2. ~(Here.key < saved.key) BY <1>8, <2>7, <4>1
      <4>3. Before(Here, saved) /\ saved \in Points BY <1>0, <1>3, <1>4, <1>8, <4>1, SeenTyped
      <4>4. Here.key <= saved.key BY <1>5, <1>8, <4>3, Order
      <4> QED BY <1>3, <1>5, <1>8, <4>1, <4>2, <4>4
    <3> HIDE DEF C, now
    <3>5. ASSUME NEW m \in View
          PROVE  (NewestAt(m) \in C \/ (now # Nowhere /\ m = now.key))
                     <=> (NewestAt(m) \in Behind \/ (saved # Nowhere /\ m = saved.key))
      <4>1. /\ NewestAt(m) \in Seen /\ NewestAt(m).key = m /\ ~NewestAt(m).del
            /\ \A e \in Seen : e.key = m /\ e # NewestAt(m) => Before(NewestAt(m), e)
        BY <1>0, ViewIs
      <4>2. CASE m = Here.key
        <5>1. NewestAt(m) = Here \/ Before(NewestAt(m), Here) BY <2>7, <4>1, <4>2
        <5>2. NewestAt(m) \in Behind
          <6>1. NewestAt(m) \in Points BY <1>0, <4>1, SeenTyped
          <6>2. Before(NewestAt(m), Here) => ~Before(Here, NewestAt(m)) BY <1>5, <1>8, <6>1, Order
          <6> QED BY <1>4, <1>8, <3>2, <4>1, <5>1, <6>2
        <5>3. NewestAt(m) \in C \/ (now # Nowhere /\ m = now.key)
          <6>1. CASE NewestAt(m) = Here
            <7>1. now = Here /\ Here # Nowhere BY <1>0, <2>7, <3>1, <4>1, <6>1, SeenTyped
            <7> QED BY <4>2, <7>1
          <6>2. CASE NewestAt(m) # Here BY <2>4, <4>1, <5>2, <6>2
          <6> QED BY <6>1, <6>2
        <5> QED BY <5>2, <5>3
      <4>3. CASE m # Here.key
        <5>1. ~(now # Nowhere /\ m = now.key) BY <3>1, <4>3
        <5>2. ~(saved # Nowhere /\ m = saved.key) BY <3>4, <4>3
        <5>3. NewestAt(m) # Here BY <4>1, <4>3
        <5> HIDE DEF saved
        <5> QED BY <2>4, <4>1, <5>1, <5>2, <5>3
      <4> QED BY <4>2, <4>3
    <3>6. now # Nowhere =>
              /\ now \in Seen \ C /\ ~now.del
              /\ \A e \in Seen \ C : e.key >= now.key /\ (e.key = now.key => ~Before(e, now))
      BY <2>7, <3>1, <3>2, <3>3
    <3>7. OnTheWayBack(C, now, wanted) BY <1>0, <3>5, <3>6 DEF OnTheWayBack
    <3> QED BY <1>0, <1>1, <2>2, <2>3, <3>7, BackwardStep
  <2> QED BY <2>6, <2>7
<1> QED BY <1>7, <1>8

-----------------------------------------------------------------------------
(* Writes in the middle of a walk, and the theorem. *)

LEMMA InsertStep ==
    ASSUME IterInv, NEW k \in UserKeys, NEW del \in BOOLEAN, Insert(k, del)
    PROVE  IterInv'
<1> DEFINE e0 == [key |-> k, seq |-> Cardinality(All) + 1, del |-> del]
<1>0. /\ DataOK /\ MergeOK /\ WalkOK
      /\ snapshot' = snapshot /\ places' = places /\ child' = child /\ forward' = forward
      /\ walk' = walk /\ wanted' = wanted
  BY DEF IterInv, Insert
<1>1. Cardinality(All) < Writes + MaxInserts /\ data' = [data EXCEPT ![1] = @ \cup {e0}]
  BY DEF Insert, All
<1>2. Cardinality(All) \in Nat BY <1>0, FS_CardinalityType DEF DataOK
<1>3. 1 \in Tables /\ data \in [Tables -> SUBSET Entry]
  BY <1>0, IteratorAssumption DEF Tables, DataOK
<1>4. e0 \in Entry BY <1>1, <1>2, IteratorAssumption DEF Entry
<1>5. e0.seq = Cardinality(All) + 1 OBVIOUS
<1> HIDE DEF e0
<1>6. /\ \A c \in Tables : data'[c] = IF c = 1 THEN data[c] \cup {e0} ELSE data[c]
      /\ data' \in [Tables -> SUBSET Entry]
  BY <1>1, <1>3, <1>4
<1>7. All' = All \cup {e0} BY <1>3, <1>6 DEF All
<1>8. e0 \notin All
  <2>1. \A e \in All : e.seq \in Nat /\ e.seq <= Cardinality(All)
    BY <1>0, AllTyped DEF DataOK, Points
  <2> QED BY <1>2, <1>5, <2>1
<1>9. IsFiniteSet(All') /\ Cardinality(All') = Cardinality(All) + 1
  BY <1>0, <1>7, <1>8, FS_AddElement DEF DataOK
<1>10. DataOK'
  <2>1. \A e \in All : e.seq \in Nat /\ e.seq <= Cardinality(All)
    BY <1>0, AllTyped DEF DataOK, Points
  <2>2. \A e \in All' : e.seq <= Cardinality(All') BY <1>2, <1>5, <1>7, <1>9, <2>1
  <2>3. \A e, f \in All' : e.seq = f.seq => e = f
    BY <1>0, <1>2, <1>5, <1>7, <2>1 DEF DataOK
  <2>4. \A c, d \in Tables : c # d => data'[c] \cap data'[d] = {}
    <3>1. \A c \in Tables : e0 \notin data[c] BY <1>0, <1>8, AllTyped
    <3> QED BY <1>0, <1>6, <3>1 DEF DataOK
  <2>5. Writes <= Cardinality(All') BY <1>0, <1>2, <1>9, IteratorAssumption DEF DataOK
  <2>6. snapshot' \in 0 .. Writes BY <1>0 DEF DataOK
  <2> QED BY <1>6, <1>9, <2>2, <2>3, <2>4, <2>5, <2>6 DEF DataOK
\* The new entry is beyond the snapshot.
<1>11. ~(e0.seq <= snapshot) BY <1>0, <1>2, <1>5, IteratorAssumption DEF DataOK
<1>12. Seen' = Seen BY <1>0, <1>7, <1>11 DEF Seen
<1>13. ASSUME NEW m PROVE NewestAt(m)' = NewestAt(m)
  <2>1. {e \in All' : e.key = m /\ e.seq <= snapshot'} = {e \in All : e.key = m /\ e.seq <= snapshot}
    BY <1>0, <1>7, <1>11
  <2> QED BY <2>1 DEF NewestAt, All
<1>14. View' = View BY <1>13 DEF View
<1>15. Here' = Here /\ Valid' = Valid BY <1>0 DEF Here, Valid
<1>16. Ahead' = Ahead /\ Behind' = Behind BY <1>12, <1>15 DEF Ahead, Behind
<1>17. \A c \in Tables : data[c] \subseteq data'[c] /\ data'[c] \cap Seen = data[c] \cap Seen
  BY <1>6, <1>11 DEF Seen
<1>18. ChildOK' BY <1>0, <1>15 DEF MergeOK, ChildOK
<1>19. forward => FitsAhead(places, Ahead)'
  <2>1. Ahead \subseteq Seen BY DEF Ahead
  <2> QED BY <1>0, <1>12, <1>16, <1>17, <2>1 DEF MergeOK, FitsAhead
<1>20. ~forward => FitsBehind(places, Behind)'
  <2>1. Behind \subseteq Seen BY DEF Behind
  <2> QED BY <1>0, <1>12, <1>16, <1>17, <2>1 DEF MergeOK, FitsBehind
<1>21. MergeOK' BY <1>0, <1>18, <1>19, <1>20 DEF MergeOK
<1>22. WalkOK' BY <1>0, <1>12, <1>13, <1>14, <1>15, <1>16 DEF WalkOK, AtKey, PastKey, OnTheWay, Leaving, OnTheWayBack
<1> QED BY <1>10, <1>21, <1>22 DEF IterInv

LEMMA StutterStep ==
    ASSUME IterInv, UNCHANGED iterVars
    PROVE  IterInv'
<1>1. /\ UNCHANGED <<data, snapshot>> /\ StaysPut /\ walk' = walk /\ wanted' = wanted
      /\ DataOK /\ MergeOK /\ WalkOK
  BY DEF iterVars, StaysPut, IterInv
<1>2. Seen' = Seen /\ View' = View /\ (\A m : NewestAt(m)' = NewestAt(m)) /\ DataOK'
  BY <1>1, SameMap
<1>3. /\ MergeOK' /\ Ahead' = Ahead /\ Behind' = Behind /\ forward' = forward
      /\ Here' = Here /\ Valid' = Valid
  BY <1>1, SameMerge
<1>4. WalkOK' BY <1>1, <1>2, <1>3 DEF WalkOK, AtKey, PastKey, OnTheWay, Leaving, OnTheWayBack
<1> QED BY <1>2, <1>3, <1>4 DEF IterInv

LEMMA IterInvInit ==
    ASSUME IterInit
    PROVE  IterInv
<1>1. PICK w \in [1 .. Writes -> [key : UserKeys, del : BOOLEAN, child : Tables]] :
          data = [c \in Tables |-> {[key |-> w[n].key, seq |-> n, del |-> w[n].del] :
                                        n \in {m \in 1 .. Writes : w[m].child = c}}]
  BY DEF IterInit
<1>2. /\ snapshot \in 0 .. Writes /\ places = [c \in Tables |-> Nowhere] /\ child = 0
      /\ forward = TRUE /\ walk = Ready /\ wanted = 0
  BY DEF IterInit
<1> DEFINE g == [n \in 1 .. Writes |-> [key |-> w[n].key, seq |-> n, del |-> w[n].del]]
<1>3. \A n \in 1 .. Writes : w[n].key \in UserKeys /\ w[n].del \in BOOLEAN /\ w[n].child \in Tables
  BY <1>1
<1>4. \A n \in 1 .. Writes : g[n] \in Entry /\ g[n].seq = n
  <2>1. \A n \in 1 .. Writes : n \in 1 .. Writes + MaxInserts BY IteratorAssumption
  <2> QED BY <1>3, <2>1 DEF Entry
<1>5. \A c \in Tables : data[c] = {g[n] : n \in {m \in 1 .. Writes : w[m].child = c}}
  BY <1>1
<1> HIDE DEF g
<1>6. data \in [Tables -> SUBSET Entry]
  <2>1. \A c \in Tables : data[c] \subseteq Entry BY <1>4, <1>5
  <2>2. DOMAIN data = Tables /\ data = [c \in Tables |-> data[c]] BY <1>1
  <2> QED BY <2>1, <2>2
<1>7. All = {g[n] : n \in 1 .. Writes}
  <2>1. \A e \in All : \E n \in 1 .. Writes : e = g[n] BY <1>5 DEF All
  <2>2. \A n \in 1 .. Writes : g[n] \in data[w[n].child] BY <1>3, <1>5
  <2>3. \A n \in 1 .. Writes : g[n] \in All BY <1>3, <2>2 DEF All
  <2> QED BY <2>1, <2>3
<1>8. IsFiniteSet(All) /\ Cardinality(All) = Writes
  <2>1. g \in Bijection(1 .. Writes, All)
    <3>1. g \in [1 .. Writes -> All] BY <1>7 DEF g
    <3>2. \A a, b \in 1 .. Writes : g[a] = g[b] => a = b BY <1>4
    <3>3. \A e \in All : \E n \in 1 .. Writes : g[n] = e BY <1>7
    <3> QED BY <3>1, <3>2, <3>3 DEF Bijection, Injection, Surjection, IsInjective
  <2>2. IsFiniteSet(1 .. Writes) /\ Cardinality(1 .. Writes) = Writes
    BY FS_Interval, IteratorAssumption
  <2>3. ExistsBijection(1 .. Writes, All) BY <2>1 DEF ExistsBijection
  <2> QED BY <2>2, <2>3, FS_Bijection
<1>9. DataOK
  <2>1. Writes \in Nat BY IteratorAssumption
  <2>2. \A e \in All : e.seq <= Cardinality(All) BY <1>4, <1>7, <1>8
  <2>3. \A e, f \in All : e.seq = f.seq => e = f BY <1>4, <1>7
  <2>4. ASSUME NEW c \in Tables, NEW d \in Tables, c # d PROVE data[c] \cap data[d] = {}
    <3>1. SUFFICES ASSUME NEW e, e \in data[c], e \in data[d] PROVE FALSE OBVIOUS
    <3>2. PICK m \in 1 .. Writes : w[m].child = c /\ e = g[m] BY <1>5, <3>1
    <3>3. PICK n \in 1 .. Writes : w[n].child = d /\ e = g[n] BY <1>5, <3>1
    <3>4. m = n BY <1>4, <3>2, <3>3
    <3> QED BY <2>4, <3>2, <3>3, <3>4
  <2> QED BY <1>2, <1>6, <1>8, <2>1, <2>2, <2>3, <2>4 DEF DataOK
<1>10. ~Valid /\ Ahead = {} BY <1>2 DEF Valid, Ahead
<1>11. ChildOK BY <1>2 DEF ChildOK
<1>12. FitsAhead(places, Ahead) BY <1>2, <1>10 DEF FitsAhead
<1>13. MergeOK BY <1>2, <1>11, <1>12 DEF MergeOK
<1>14. WalkOK
  <2>1. walk \in WalkType /\ walk.at = "ready" /\ ~walk.valid /\ wanted = 0 BY <1>2, ReadyWalk
  <2> QED BY <2>1 DEF WalkOK
<1> QED BY <1>9, <1>13, <1>14 DEF IterInv

LEMMA IterInvSafe ==
    ASSUME IterInv
    PROVE  IteratorShowsSnapshot
<1>1. SUFFICES ASSUME walk.at = "ready"
               PROVE  /\ walk.valid = (wanted # 0)
                      /\ walk.valid =>
                             /\ Key = wanted
                             /\ (IF walk.reverse THEN walk.saved ELSE Here) = NewestAt(wanted)
  BY DEF IteratorShowsSnapshot
<1>2. walk.valid \in BOOLEAN BY DEF IterInv, WalkOK, WalkType
<1>3. CASE ~walk.valid
  <2>1. wanted = 0 BY <1>1, <1>3 DEF IterInv, WalkOK
  <2> QED BY <1>2, <1>3, <2>1
<1>4. CASE walk.valid
  <2>1. /\ Key = wanted /\ wanted \in 1 .. TopKey
        /\ ~walk.reverse => AtKey(wanted)
        /\ walk.reverse  => PastKey(Behind, walk.saved, wanted)
    BY <1>1, <1>4, KeyIs
  <2>2. (IF walk.reverse THEN walk.saved ELSE Here) = NewestAt(wanted)
    BY <2>1 DEF AtKey, PastKey
  <2>3. wanted # 0 BY <2>1
  <2> QED BY <1>2, <1>4, <2>1, <2>2, <2>3
<1> QED BY <1>3, <1>4

\* The invariant holds of every behaviour of the iterator.
THEOREM IterInvariant == IterSpec => []IterInv
<1>1. IterInit => IterInv BY IterInvInit
<1>2. IterInv /\ [IterNext]_iterVars => IterInv'
  <2>1. SUFFICES ASSUME IterInv, [IterNext]_iterVars PROVE IterInv' OBVIOUS
  <2>2. ASSUME NEW k \in UserKeys, NEW del \in BOOLEAN, Insert(k, del) PROVE IterInv'
    BY <2>1, <2>2, InsertStep
  <2>3. ASSUME NEW k \in UserKeys, DBIterSeek(k) PROVE IterInv' BY <2>1, <2>3, SeekStep
  <2>4. CASE DBIterSeekToFirst BY <2>1, <2>4, SeekToFirstStep
  <2>5. CASE DBIterSeekToLast BY <2>1, <2>5, SeekToLastStep
  <2>6. CASE DBIterNext BY <2>1, <2>6, DBIterNextStep
  <2>7. CASE DBIterPrev BY <2>1, <2>7, DBIterPrevStep
  <2>8. CASE FindNext BY <2>1, <2>8, FindNextStep
  <2>9. CASE LeaveKey BY <2>1, <2>9, LeaveKeyStep
  <2>10. CASE FindPrev BY <2>1, <2>10, FindPrevStep
  <2>11. CASE UNCHANGED iterVars BY <2>1, <2>11, StutterStep
  <2> QED
    BY <2>1, <2>2, <2>3, <2>4, <2>5, <2>6, <2>7, <2>8, <2>9, <2>10, <2>11 DEF IterNext
<1> QED BY <1>1, <1>2, PTL DEF IterSpec

\* After any walk, in both directions and with writes in the middle of it, the
\* iterator is on the key that an iterator over the map of the snapshot would be
\* on, and shows the value that key has there.
THEOREM IteratorIsRight == IterSpec => []IteratorShowsSnapshot
BY IterInvariant, IterInvSafe, PTL
=============================================================================
