----------------------------- MODULE Iterators -----------------------------
(***************************************************************************)
(* A leveldb iterator: DBIter turns the entries of a MergingIterator over  *)
(* the memtable and the tables into the keys of one snapshot, in both      *)
(* directions, while the memtable goes on growing under it.  A call of     *)
(* DBIter is a walk of steps, one for each entry it looks at; a step runs  *)
(* one operation of the merging iterator.                                  *)
(***************************************************************************)
EXTENDS Integers, FiniteSets

CONSTANTS
    TopKey,         \* user keys are 1 .. TopKey
    Children,       \* the number of iterators merged; the first is over mem_
    Writes,         \* bound: entries when the iterator is created
    MaxInserts      \* bound: entries added to the memtable after that

\* NewInternalIterator always merges the memtable.
ASSUME IteratorAssumption ==
    /\ TopKey \in Nat /\ Writes \in Nat /\ MaxInserts \in Nat
    /\ Children \in Nat \ {0}

VARIABLES
    data,       \* child -> the entries it runs over
    snapshot,   \* sequence_
    places,     \* child -> the entry it is at, or Nowhere
    child,      \* current_, or 0
    forward,    \* MergingIterator::direction_ = kForward
    walk,       \* the fields of the DBIter and where its call is
    wanted      \* the key the last call should have gone to, or 0

iterVars == <<data, snapshot, places, child, forward, walk, wanted>>

UserKeys == 1 .. TopKey
Tables   == 1 .. Children
Entry    == [key : UserKeys, seq : 1 .. Writes + MaxInserts, del : BOOLEAN]
Nowhere  == [key |-> 0, seq |-> 0, del |-> TRUE]

\* InternalKeyComparator: increasing user key, then decreasing sequence number.
Before(a, b) == a.key < b.key \/ (a.key = b.key /\ a.seq > b.seq)

FirstOf(S) == IF S = {} THEN Nowhere ELSE CHOOSE e \in S : \A f \in S \ {e} : Before(e, f)
LastOf(S)  == IF S = {} THEN Nowhere ELSE CHOOSE e \in S : \A f \in S \ {e} : Before(f, e)

-----------------------------------------------------------------------------
(* The children, and the merging iterator over them.  An operator gives the   *)
(* new positions; FindSmallest or FindLargest then picks the current child.   *)

SeekIn(c, e) == FirstOf({f \in data[c] : ~Before(f, e)})
NextIn(c, e) == FirstOf({f \in data[c] : Before(e, f)})
PrevIn(c, e) == LastOf({f \in data[c] : Before(f, e)})

Smallest(p) == IF \A c \in Tables : p[c] = Nowhere THEN 0
               ELSE CHOOSE c \in Tables : p[c] = FirstOf({p[d] : d \in Tables} \ {Nowhere})
Largest(p)  == IF \A c \in Tables : p[c] = Nowhere THEN 0
               ELSE CHOOSE c \in Tables : p[c] = LastOf({p[d] : d \in Tables} \ {Nowhere})

Forward(p)  == places' = p /\ child' = Smallest(p) /\ forward' = TRUE
Backward(p) == places' = p /\ child' = Largest(p) /\ forward' = FALSE

MergeFirst   == Forward([c \in Tables |-> FirstOf(data[c])])
MergeLast    == Backward([c \in Tables |-> LastOf(data[c])])
MergeSeek(e) == Forward([c \in Tables |-> SeekIn(c, e)])

Valid == child # 0
Here  == places[child]

\* Next after a move backwards: the other children are put after the key.
MergeNext ==
    LET After(c) == LET e == SeekIn(c, Here) IN IF e = Here THEN NextIn(c, e) ELSE e
        others   == IF forward THEN places ELSE [c \in Tables |-> IF c = child THEN Here ELSE After(c)]
    IN  Forward([others EXCEPT ![child] = NextIn(child, Here)])

\* Faulty variant: the other children stay where they are.
MergePrevInPlace == Backward([places EXCEPT ![child] = PrevIn(child, Here)])

\* Prev after a move forwards: the other children are put before the key.
MergePrev ==
    LET Ahead(c) == LET e == SeekIn(c, Here)
                    IN  IF e = Nowhere THEN LastOf(data[c]) ELSE PrevIn(c, e)
        others   == IF forward THEN [c \in Tables |-> IF c = child THEN Here ELSE Ahead(c)] ELSE places
    IN  Backward([others EXCEPT ![child] = PrevIn(child, Here)])

StaysPut == UNCHANGED <<places, child, forward>>

-----------------------------------------------------------------------------
(* DBIter.  at = "ready" between calls; skip is saved_key_ going forward,     *)
(* saved is saved_key_ with the sequence number of saved_value_ going back.   *)

Ready == [at |-> "ready", valid |-> FALSE, reverse |-> FALSE, skip |-> 0, saved |-> Nowhere]

\* Every write has its own number, and the newer of two entries of a key is in an
\* earlier child.
IterInit ==
    /\ \E w \in [1 .. Writes -> [key : UserKeys, del : BOOLEAN, child : Tables]] :
           /\ \A m, n \in 1 .. Writes :
                  m < n /\ w[m].key = w[n].key => w[n].child <= w[m].child
           /\ data = [c \in Tables |-> {[key |-> w[n].key, seq |-> n, del |-> w[n].del] :
                                            n \in {m \in 1 .. Writes : w[m].child = c}}]
    /\ snapshot \in 0 .. Writes
    /\ places = [c \in Tables |-> Nowhere] /\ child = 0 /\ forward = TRUE
    /\ walk = Ready /\ wanted = 0

\* The map at the snapshot, from all the entries there are.
NewestAt(k)   == FirstOf({e \in UNION {data[c] : c \in Tables} : e.key = k /\ e.seq <= snapshot})
View          == {k \in UserKeys : NewestAt(k) # Nowhere /\ ~NewestAt(k).del}
AtOrAfter(k)  == IF \A m \in View : m < k THEN 0 ELSE CHOOSE m \in View : m >= k /\ \A n \in View : n < k \/ m <= n
AtOrBefore(k) == IF \A m \in View : m > k THEN 0 ELSE CHOOSE m \in View : m <= k /\ \A n \in View : n > k \/ m >= n

Key == IF walk.reverse THEN walk.saved.key ELSE Here.key

\* Another thread writes: newer than any snapshot there is.
Insert(k, del) ==
    /\ LET all == UNION {data[c] : c \in Tables}
       IN  /\ Cardinality(all) < Writes + MaxInserts
           /\ data' = [data EXCEPT ![1] = @ \cup {[key |-> k, seq |-> Cardinality(all) + 1, del |-> del]}]
    /\ UNCHANGED <<snapshot, places, child, forward, walk, wanted>>

GoesForward(skip)  == walk' = [Ready EXCEPT !.at = "forward", !.skip = skip]
GoesBackward       == walk' = [Ready EXCEPT !.at = "backward", !.reverse = TRUE]

DBIterSeek(k) ==
    /\ walk.at = "ready"
    /\ MergeSeek([key |-> k, seq |-> snapshot, del |-> FALSE])
    /\ GoesForward(0) /\ wanted' = AtOrAfter(k)
    /\ UNCHANGED <<data, snapshot>>

DBIterSeekToFirst ==
    /\ walk.at = "ready"
    /\ MergeFirst /\ GoesForward(0) /\ wanted' = AtOrAfter(1)
    /\ UNCHANGED <<data, snapshot>>

DBIterSeekToLast ==
    /\ walk.at = "ready"
    /\ MergeLast /\ GoesBackward /\ wanted' = AtOrBefore(TopKey)
    /\ UNCHANGED <<data, snapshot>>

\* Next, after a move backwards too: iter_ is then before the entries of the key.
DBIterNext ==
    /\ walk.at = "ready" /\ walk.valid
    /\ IF ~walk.reverse THEN StaysPut ELSE IF Valid THEN MergeNext ELSE MergeFirst
    /\ GoesForward(Key) /\ wanted' = AtOrAfter(Key + 1)
    /\ UNCHANGED <<data, snapshot>>

\* Prev, after a move forwards too: iter_ is then at an entry of the key.
DBIterPrev ==
    /\ walk.at = "ready" /\ walk.valid
    /\ IF walk.reverse
       THEN GoesBackward /\ StaysPut
       ELSE walk' = [Ready EXCEPT !.at = "leaveKey", !.skip = Key] /\ MergePrev
    /\ wanted' = AtOrBefore(Key - 1)
    /\ UNCHANGED <<data, snapshot>>

\* One turn of FindNextUserEntry.
FindNext ==
    /\ walk.at = "forward"
    /\ LET seen   == Valid /\ Here.seq <= snapshot
           hidden == walk.skip # 0 /\ Here.key <= walk.skip
       IN  IF ~Valid THEN walk' = Ready /\ StaysPut
           ELSE IF seen /\ ~Here.del /\ ~hidden
           THEN walk' = [Ready EXCEPT !.valid = TRUE] /\ StaysPut
           ELSE /\ walk' = IF seen /\ Here.del THEN [walk EXCEPT !.skip = Here.key] ELSE walk
                /\ MergeNext
    /\ UNCHANGED <<data, snapshot, wanted>>

\* One turn of the loop with which Prev leaves the entries of the key.
LeaveKey ==
    /\ walk.at = "leaveKey"
    /\ IF ~Valid THEN walk' = Ready /\ StaysPut
       ELSE IF Here.key < walk.skip THEN GoesBackward /\ StaysPut
       ELSE UNCHANGED walk /\ MergePrev
    /\ UNCHANGED <<data, snapshot, wanted>>

\* One turn of FindPrevUserEntry: saved holds the last entry seen, unless deleted.
FindPrev ==
    /\ walk.at = "backward"
    /\ LET seen == Valid /\ Here.seq <= snapshot
           over == ~Valid \/ (seen /\ walk.saved # Nowhere /\ Here.key < walk.saved.key)
       IN  IF over
           THEN /\ walk' = IF walk.saved = Nowhere THEN Ready
                         ELSE [walk EXCEPT !.at = "ready", !.valid = TRUE]
                /\ StaysPut
           ELSE /\ walk' = IF ~seen THEN walk
                         ELSE [walk EXCEPT !.saved = IF Here.del THEN Nowhere ELSE Here]
                /\ MergePrev
    /\ UNCHANGED <<data, snapshot, wanted>>

IterNext ==
    \/ \E k \in UserKeys, del \in BOOLEAN : Insert(k, del)
    \/ \E k \in UserKeys : DBIterSeek(k)
    \/ DBIterSeekToFirst \/ DBIterSeekToLast \/ DBIterNext \/ DBIterPrev
    \/ FindNext \/ LeaveKey \/ FindPrev

IterSpec == IterInit /\ [][IterNext]_iterVars

-----------------------------------------------------------------------------
(* Properties. *)

\* After any walk, in both directions and with writes in the middle of it, the
\* iterator is on the key that an iterator over the map of the snapshot would be
\* on, and shows the value that key has there.
IteratorShowsSnapshot ==
    walk.at = "ready" =>
        /\ walk.valid = (wanted # 0)
        /\ walk.valid =>
               /\ Key = wanted
               /\ (IF walk.reverse THEN walk.saved ELSE Here) = NewestAt(wanted)
=============================================================================
