------------------------------ MODULE LRUCache ------------------------------
(***************************************************************************)
(* One shard of leveldb's cache and the threads that share it the way      *)
(* TableCache and Table::BlockReader do: look a key up, read the file or   *)
(* the block on a miss while others may do the same, insert it, use it,    *)
(* release it.  Each operation of the cache runs under its mutex.  The     *)
(* hash table is a function; an address is used again after free().        *)
(***************************************************************************)
EXTENDS Integers, Sequences, FiniteSets

CONSTANTS
    Threads,
    CacheKeys,
    MaxSlot,    \* the greatest address malloc returns
    Charges,    \* sizes of what is cached
    Capacity,   \* capacity_
    Null        \* no entry

Slots == 1 .. MaxSlot

\* The fields of an LRUHandle that are not links of the lists.
LRUHandle == [key : CacheKeys, charge : Nat, refs : Nat, inCache : BOOLEAN]

ASSUME CacheAssumption ==
    /\ IsFiniteSet(Threads)
    /\ MaxSlot \in Nat /\ Capacity \in Nat /\ Charges \subseteq Nat
    /\ Null \notin CacheKeys \cup Slots \cup LRUHandle

VARIABLES
    ent,        \* address -> LRUHandle, or Null when free
    lru,        \* lru_, oldest first
    inUse,      \* in_use_
    hash,       \* key -> the entry table_ finds
    usage,      \* usage_
    holder      \* thread -> its key and the handle it holds

cacheVars == <<ent, lru, inUse, hash, usage, holder>>

FreeIn(heap) == {e \in Slots : heap[e] = Null}
FreeSlots == FreeIn(ent)

\* An address that is free, also one that was freed just now; which one of them
\* makes no difference to an entry.
Malloc == CHOOSE e \in FreeSlots : \A f \in FreeSlots : e <= f

Idling == [at |-> "idle", key |-> Null, handle |-> Null]

CacheInit ==
    /\ ent = [e \in Slots |-> Null] /\ lru = <<>> /\ inUse = {}
    /\ hash = [k \in CacheKeys |-> Null] /\ usage = 0
    /\ holder = [t \in Threads |-> Idling]

-----------------------------------------------------------------------------
(* The lists and the reference counts, on a cache c. *)

Cache == [ent |-> ent, lru |-> lru, inUse |-> inUse, table |-> hash, usage |-> usage]

Becomes(c) ==
    /\ ent' = c.ent /\ lru' = c.lru /\ inUse' = c.inUse
    /\ hash' = c.table /\ usage' = c.usage

\* A list without an element that is on it once, or not at all.
Without(list, e) ==
    LET at == CHOOSE i \in DOMAIN list : list[i] = e
    IN  IF \E i \in DOMAIN list : list[i] = e
        THEN [i \in 1 .. Len(list) - 1 |-> IF i < at THEN list[i] ELSE list[i + 1]]
        ELSE list

LRURemove(c, e) == [c EXCEPT !.lru = Without(@, e), !.inUse = @ \ {e}]

Ref(c, e) ==
    LET r == LRURemove(c, e)
        d == IF c.ent[e].refs = 1 /\ c.ent[e].inCache
             THEN [r EXCEPT !.inUse = @ \cup {e}] ELSE c
    IN  [d EXCEPT !.ent[e].refs = @ + 1]

Unref(c, e) ==
    LET d == [c EXCEPT !.ent[e].refs = @ - 1]
        r == LRURemove(d, e)
    IN  IF d.ent[e].refs = 0 THEN [d EXCEPT !.ent[e] = Null]
        ELSE IF d.ent[e].inCache /\ d.ent[e].refs = 1
        THEN [r EXCEPT !.lru = Append(@, e)]
        ELSE d

\* Faulty variant: the entry is freed, held or not.
FinishEraseFrees(c, e) ==
    IF e = Null THEN c
    ELSE [LRURemove(c, e) EXCEPT !.ent[e] = Null, !.usage = @ - c.ent[e].charge]

\* FinishErase, of an entry the table no longer finds.
FinishErase(c, e) ==
    IF e = Null THEN c
    ELSE Unref([LRURemove(c, e) EXCEPT !.ent[e].inCache = FALSE,
                                       !.usage = @ - c.ent[e].charge], e)

EraseKey(c, k) == FinishErase([c EXCEPT !.table[k] = Null], c.table[k])

\* The cache after each turn of a loop that evicts the oldest entry nobody holds.
Evictions(c) ==
    LET evict[n \in 0 .. Len(c.lru)] ==
            IF n = 0 THEN c
            ELSE LET d == evict[n - 1] IN EraseKey(d, d.ent[Head(d.lru)].key)
    IN  evict

\* Insert's loop runs while there is too much and something to evict.
EvictWhileFull(c) ==
    LET after == Evictions(c)
        Enough(n) == after[n].usage <= Capacity \/ after[n].lru = <<>>
    IN  after[CHOOSE n \in 0 .. Len(c.lru) : Enough(n) /\ \A m \in 0 .. n - 1 : ~Enough(m)]

Inserted(c, e, k, ch) ==
    LET New(n, in) == [key |-> k, charge |-> ch, refs |-> n, inCache |-> in]
        alone  == [c EXCEPT !.ent[e] = New(1, FALSE)]
        cached == [c EXCEPT !.ent[e] = New(2, TRUE), !.inUse = @ \cup {e},
                            !.usage = @ + ch, !.table[k] = e]
    IN  EvictWhileFull(IF Capacity > 0 THEN FinishErase(cached, c.table[k]) ELSE alone)

-----------------------------------------------------------------------------
(* The threads. *)

\* FindTable or BlockReader, on a hit or on a miss.
LookUp(t, k) ==
    /\ holder[t].at = "idle"
    /\ IF hash[k] # Null
       THEN /\ Becomes(Ref(Cache, hash[k]))
            /\ holder' = [holder EXCEPT ![t] = [at |-> "using", key |-> k, handle |-> hash[k]]]
       ELSE /\ holder' = [holder EXCEPT ![t] = [at |-> "reading", key |-> k, handle |-> Null]]
            /\ UNCHANGED <<ent, lru, inUse, hash, usage>>

\* The file or block was read without the mutex; another thread may have cached it.
InsertRead(t, ch) ==
    /\ holder[t].at = "reading" /\ FreeSlots # {}
    /\ Becomes(Inserted(Cache, Malloc, holder[t].key, ch))
    /\ holder' = [holder EXCEPT ![t].at = "using", ![t].handle = Malloc]

\* An error is not cached.
ReadFails(t) ==
    /\ holder[t].at = "reading"
    /\ holder' = [holder EXCEPT ![t] = Idling]
    /\ UNCHANGED <<ent, lru, inUse, hash, usage>>

ReleaseHandle(t) ==
    /\ holder[t].at = "using"
    /\ Becomes(Unref(Cache, holder[t].handle))
    /\ holder' = [holder EXCEPT ![t] = Idling]

\* TableCache::Evict, of a file that is deleted.
Erase(k) == hash[k] # Null /\ Becomes(EraseKey(Cache, k)) /\ UNCHANGED holder

Prune == lru # <<>> /\ Becomes(Evictions(Cache)[Len(lru)]) /\ UNCHANGED holder

CacheNext ==
    \/ \E t \in Threads :
           \/ \E k \in CacheKeys : LookUp(t, k)
           \/ \E ch \in Charges : InsertRead(t, ch)
           \/ ReadFails(t) \/ ReleaseHandle(t)
    \/ \E k \in CacheKeys : Erase(k)
    \/ Prune

CacheSpec == CacheInit /\ [][CacheNext]_cacheVars

-----------------------------------------------------------------------------
(* Properties. *)

Holders(e)    == {t \in Threads : holder[t].handle = e}
CachedIn(heap) == {e \in Slots \ FreeIn(heap) : heap[e].inCache}
Cached        == CachedIn(ent)

\* What the cached entries of a heap charge, over all addresses.
ChargeOf(heap) ==
    LET total[e \in 0 .. MaxSlot] ==
            IF e = 0 THEN 0
            ELSE total[e - 1] + (IF e \in CachedIn(heap) THEN heap[e].charge ELSE 0)
    IN  total[MaxSlot]

\* "The underlying entry will be kept around until all existing handles to it have
\* been released": a handle in use is what was looked up, although another thread
\* has evicted, erased or replaced it since, and its address is not used again.
HandlesStayValid ==
    \A t \in Threads : holder[t].at = "using" =>
        holder[t].handle \in Slots \ FreeSlots /\ ent[holder[t].handle].key = holder[t].key

\* "All items in the cache are in one list or the other, and never both": held
\* ones in in_use_, the others in lru_; no entry is left that nobody can find, and
\* TotalCharge() is the charge of what is cached.
ListsAndCountsAgree ==
    /\ usage = ChargeOf(ent)
    /\ \A e \in Slots \ FreeSlots :
           /\ ent[e].refs = Cardinality(Holders(e)) + (IF ent[e].inCache THEN 1 ELSE 0)
           /\ ent[e].refs > 0
    /\ inUse = {e \in Cached : ent[e].refs >= 2}
    /\ {lru[i] : i \in DOMAIN lru} = {e \in Cached : ent[e].refs = 1}
    /\ \A i, j \in DOMAIN lru : lru[i] = lru[j] => i = j
    /\ Cached = {hash[k] : k \in CacheKeys} \ {Null}
    /\ \A e \in Cached : hash[ent[e].key] = e

\* Both hold while threads look up, insert, erase, evict and release in any order.
CacheIsSound == HandlesStayValid /\ ListsAndCountsAgree
=============================================================================
