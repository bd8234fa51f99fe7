------------------------------ MODULE KVStore ------------------------------
(***************************************************************************)
(* What leveldb::DB promises its callers, whatever it does with its files: *)
(* an ordered map, and handles that keep showing the map as it was when    *)
(* they were taken.  A value is named by the number of the write that      *)
(* stored it; 0 says that the key has no entry.                            *)
(***************************************************************************)
EXTENDS Integers

CONSTANTS
    Keys        \* user keys

VARIABLES
    writes,     \* how many writes there were
    contents,   \* what Get without a snapshot returns for each key
    views       \* snapshot -> what Get with that snapshot returns

storeVars == <<writes, contents, views>>

StoreInit ==
    /\ writes = 0
    /\ contents = [k \in Keys |-> 0]
    /\ views = <<>>

\* Put or Delete: one key gets the value of this write or none, no snapshot sees it.
StoreWrite ==
    /\ writes' = writes + 1
    /\ \E k \in Keys, value \in {0, writes + 1} :
           contents' = [contents EXCEPT ![k] = value]
    /\ UNCHANGED views

\* GetSnapshot: "iterators created with this handle will all observe a stable
\* snapshot of the current DB state".
StoreSnapshot ==
    /\ \E s \in (DOMAIN views') \ DOMAIN views :
           views' = [t \in DOMAIN views \cup {s} |->
                        IF t = s THEN contents ELSE views[t]]
    /\ UNCHANGED <<writes, contents>>

\* ReleaseSnapshot, or the store closed: the views left show what they showed.
StoreRelease ==
    /\ (DOMAIN views') \subseteq DOMAIN views
    /\ views' = [t \in DOMAIN views' |-> views[t]]
    /\ UNCHANGED <<writes, contents>>

StoreNext == StoreWrite \/ StoreSnapshot \/ StoreRelease

StoreSpec == StoreInit /\ [][StoreNext]_storeVars
=============================================================================
