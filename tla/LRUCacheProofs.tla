---------------------------- MODULE LRUCacheProofs ----------------------------
(***************************************************************************)
(* leveldb's cache keeps its lists, its counts and every handle sound, for *)
(* any threads, keys, addresses, charges and capacity.  A cache is sound   *)
(* for the number of handles held to each of its entries; an operation     *)
(* keeps it so, one that leaves an entry the table does not find included. *)
(***************************************************************************)
EXTENDS LRUCache, TLAPS, FiniteSetTheorems, WellFoundedInduction

Heaps == [Slots -> LRUHandle \cup {Null}]

Shapes ==
    [ent : Heaps, lru : Seq(Slots), inUse : SUBSET Slots,
     table : [CacheKeys -> Slots \cup {Null}], usage : Int]

Once(list) == \A i, j \in DOMAIN list : list[i] = list[j] => i = j

On(list) == {list[i] : i \in DOMAIN list}

\* An address has a count of the handles to it.
Counts == [Slots -> Nat]

\* What an entry must be when held[e] handles to it are out.
EntrySound(c, held, e) ==
    /\ c.ent[e] = Null => held[e] = 0
    /\ c.ent[e] # Null =>
           /\ c.ent[e].refs = held[e] + (IF c.ent[e].inCache THEN 1 ELSE 0)
           /\ c.ent[e].refs > 0

ListsSound(c, held) ==
    /\ c.inUse = {e \in CachedIn(c.ent) : held[e] > 0}
    /\ On(c.lru) = {e \in CachedIn(c.ent) : held[e] = 0}
    /\ Once(c.lru)

\* The table finds what is cached, and nothing else, x aside.
TableSound(c, x) ==
    /\ \A e \in CachedIn(c.ent) \ {x} : c.table[c.ent[e].key] = e
    /\ \A k \in CacheKeys : c.table[k] # Null =>
           c.table[k] \in CachedIn(c.ent) \ {x} /\ c.ent[c.table[k]].key = k

\* A cache is sound, but for an entry x that the table does not find any more.
SoundBut(c, held, x) ==
    /\ c \in Shapes /\ held \in Counts
    /\ \A e \in Slots : EntrySound(c, held, e)
    /\ ListsSound(c, held)
    /\ TableSound(c, x)
    /\ x = Null \/ x \in CachedIn(c.ent)
    /\ c.usage = ChargeOf(c.ent)

Sound(c, held) == SoundBut(c, held, Null)

\* From c to d no entry that is held is taken for another key.
Keeps(c, d, held) == \A e \in Slots : held[e] > 0 => d.ent[e] # Null /\ d.ent[e].key = c.ent[e].key
-----------------------------------------------------------------------------
(* Numbers and sums. *)

\* A nonempty set of numbers has a least one.
LEMMA LeastNumber ==
    ASSUME NEW S, S \subseteq Nat, S # {}
    PROVE  \E x \in S : \A y \in S : x <= y
<1>1. \E x \in S : \A y \in S : ~(<<y, x>> \in OpToRel(<, Nat))
  <2> DEFINE R == OpToRel(<, Nat)
  <2>1. IsWellFoundedOn(R, Nat) BY NatLessThanWellFounded
  <2> HIDE DEF R
  <2>2. \E x \in S : \A y \in S : ~(<<y, x>> \in R) BY <2>1, WFMin
  <2> QED BY <2>2 DEF R
<1>2. PICK x \in S : \A y \in S : ~(<<y, x>> \in OpToRel(<, Nat)) BY <1>1
<1>3. ASSUME NEW y \in S PROVE x <= y
  <2>1. x \in Nat /\ y \in Nat OBVIOUS
  <2>2. ~(y < x)
    <3>1. y < x => <<y, x>> \in OpToRel(<, Nat) BY <2>1 DEF OpToRel
    <3> QED BY <1>2, <3>1
  <2> QED BY <2>1, <2>2
<1> QED BY <1>3

\* A set of numbers that has 0, and the successor of each of its members, has all.
LEMMA Induction ==
    ASSUME NEW S, 0 \in S, \A n \in Nat : n \in S => n + 1 \in S
    PROVE  Nat \subseteq S
<1> SUFFICES ASSUME Nat \ S # {} PROVE FALSE OBVIOUS
<1>1. PICK x \in Nat \ S : \A y \in Nat \ S : x <= y
  <2> DEFINE T == Nat \ S
  <2>1. T \subseteq Nat /\ T # {} OBVIOUS
  <2> HIDE DEF T
  <2>2. \E x \in T : \A y \in T : x <= y BY <2>1, LeastNumber
  <2> QED BY <2>2 DEF T
<1>2. x \in Nat /\ x \notin S /\ x # 0 OBVIOUS
<1>3. x - 1 \in Nat /\ (x - 1) + 1 = x /\ ~(x <= x - 1) BY <1>2
<1>4. x - 1 \in S BY <1>1, <1>3
<1> QED BY <1>2, <1>3, <1>4

Weight(heap, e) == IF e \in CachedIn(heap) THEN heap[e].charge ELSE 0

Sums(f, heap, m) == f = [e \in 0 .. m |-> IF e = 0 THEN 0 ELSE f[e - 1] + Weight(heap, e)]

\* What an entry charges is a number.
LEMMA WeightIs ==
    ASSUME NEW heap \in Heaps, NEW e \in Slots
    PROVE  Weight(heap, e) \in Nat
<1>1. CASE e \in CachedIn(heap)
  <2>1. heap[e] \in LRUHandle BY <1>1 DEF CachedIn, FreeIn, Heaps
  <2> QED BY <1>1, <2>1 DEF Weight, LRUHandle
<1>2. CASE e \notin CachedIn(heap) BY <1>2 DEF Weight
<1> QED BY <1>1, <1>2

\* There are partial sums up to any address.
LEMMA SumsExist ==
    ASSUME NEW heap, NEW m \in Nat
    PROVE  \E f : Sums(f, heap, m)
<1> DEFINE S == {n \in Nat : \E f : Sums(f, heap, n)}
<1>1. 0 \in S
  <2> DEFINE g == [e \in 0 .. 0 |-> 0]
  <2>1. Sums(g, heap, 0)
    <3>1. \A e \in 0 .. 0 : e = 0 OBVIOUS
    <3> QED BY <3>1 DEF Sums
  <2> QED BY <2>1
<1>2. ASSUME NEW n \in Nat, n \in S PROVE n + 1 \in S
  <2>1. PICK f : Sums(f, heap, n) BY <1>2
  <2> DEFINE g == [e \in 0 .. n + 1 |-> IF e = n + 1 THEN f[n] + Weight(heap, n + 1) ELSE f[e]]
             h == [e \in 0 .. n + 1 |-> IF e = 0 THEN 0 ELSE g[e - 1] + Weight(heap, e)]
  <2>2. ASSUME NEW e \in 0 .. n + 1 PROVE g[e] = h[e]
    <3>1. CASE e = n + 1
      <4>1. n \in 0 .. n + 1 /\ n # n + 1 /\ (n + 1) - 1 = n /\ n + 1 # 0 OBVIOUS
      <4> QED BY <3>1, <4>1
    <3>2. CASE e # n + 1
      <4>1. e \in 0 .. n BY <3>2
      <4>2. f[e] = IF e = 0 THEN 0 ELSE f[e - 1] + Weight(heap, e)
        <5> DEFINE body(i) == IF i = 0 THEN 0 ELSE f[i - 1] + Weight(heap, i)
        <5>1. f = [i \in 0 .. n |-> body(i)] BY <2>1 DEF Sums
        <5> HIDE DEF body
        <5>2. f[e] = body(e) BY <4>1, <5>1
        <5> QED BY <5>2 DEF body
      <4>3. e # 0 => e - 1 \in 0 .. n + 1 /\ e - 1 # n + 1 BY <4>1
      <4> QED BY <3>2, <4>2, <4>3
    <3> QED BY <3>1, <3>2
  <2>3. g = h
    <3>1. DOMAIN g = DOMAIN h OBVIOUS
    <3> HIDE DEF h
    <3>2. h = [e \in 0 .. n + 1 |-> h[e]] BY DEF h
    <3>3. g = [e \in 0 .. n + 1 |-> g[e]] OBVIOUS
    <3> HIDE DEF g
    <3> QED BY <2>2, <3>2, <3>3
  <2>4. Sums(g, heap, n + 1)
    <3> HIDE DEF g
    <3> QED BY <2>3 DEF Sums
  <2> HIDE DEF g
  <2> QED BY <2>4
<1> HIDE DEF S
<1>3. m \in S BY <1>1, <1>2, Induction
<1> QED BY <1>3 DEF S

\* ChargeOf is the last of the partial sums.
LEMMA ChargeOfIs ==
    ASSUME NEW heap \in Heaps
    PROVE  \E f \in [0 .. MaxSlot -> Nat] :
               /\ f[0] = 0 /\ f[MaxSlot] = ChargeOf(heap)
               /\ \A e \in Slots : f[e] = f[e - 1] + Weight(heap, e)
<1> DEFINE f == CHOOSE g : Sums(g, heap, MaxSlot)
<1>1. Sums(f, heap, MaxSlot) BY SumsExist, CacheAssumption
<1>2. ChargeOf(heap) = f[MaxSlot] BY DEF ChargeOf, Sums, Weight
<1> HIDE DEF f
<1> DEFINE body(e) == IF e = 0 THEN 0 ELSE f[e - 1] + Weight(heap, e)
<1>3. f = [e \in 0 .. MaxSlot |-> body(e)] BY <1>1 DEF Sums
<1>4. \A e \in 0 .. MaxSlot : f[e] = body(e)
  <2> HIDE DEF body
  <2> QED BY <1>3
<1>5. f[0] = 0 BY <1>4, CacheAssumption
<1>6. \A e \in Slots : f[e] = f[e - 1] + Weight(heap, e) BY <1>4, CacheAssumption DEF Slots
<1>7. \A e \in 0 .. MaxSlot : f[e] \in Nat
  <2> DEFINE S == {n \in Nat : n <= MaxSlot => f[n] \in Nat}
  <2>1. 0 \in S BY <1>5
  <2>2. ASSUME NEW n \in Nat, n \in S PROVE n + 1 \in S
    <3> SUFFICES ASSUME n + 1 <= MaxSlot PROVE f[n + 1] \in Nat OBVIOUS
    <3>1. n + 1 \in Slots /\ (n + 1) - 1 = n BY CacheAssumption DEF Slots
    <3>2. f[n] \in Nat BY <2>2, CacheAssumption
    <3>3. Weight(heap, n + 1) \in Nat BY <3>1, WeightIs
    <3>4. f[n + 1] = f[n] + Weight(heap, n + 1) BY <1>6, <3>1
    <3> QED BY <3>2, <3>3, <3>4
  <2> HIDE DEF S
  <2>3. Nat \subseteq S BY <2>1, <2>2, Induction
  <2> QED BY <2>3, CacheAssumption DEF S
<1>8. f \in [0 .. MaxSlot -> Nat]
  <2>1. f = [e \in 0 .. MaxSlot |-> f[e]]
    <3> HIDE DEF body
    <3> QED BY <1>3
  <2> QED BY <1>7, <2>1
<1> QED BY <1>2, <1>5, <1>6, <1>8

\* A heap that differs at one address charges the difference.
LEMMA ChargeChanges ==
    ASSUME NEW h \in Heaps, NEW s \in Slots, NEW g \in Heaps,
           \A e \in Slots : e # s => g[e] = h[e]
    PROVE  /\ ChargeOf(h) \in Nat /\ ChargeOf(g) \in Nat
           /\ ChargeOf(g) = (ChargeOf(h) - Weight(h, s)) + Weight(g, s)
<1>1. PICK f \in [0 .. MaxSlot -> Nat] :
          /\ f[0] = 0 /\ f[MaxSlot] = ChargeOf(h)
          /\ \A e \in Slots : f[e] = f[e - 1] + Weight(h, e)
  BY ChargeOfIs
<1>2. PICK d \in [0 .. MaxSlot -> Nat] :
          /\ d[0] = 0 /\ d[MaxSlot] = ChargeOf(g)
          /\ \A e \in Slots : d[e] = d[e - 1] + Weight(g, e)
  BY ChargeOfIs
<1>3. Weight(h, s) \in Nat /\ Weight(g, s) \in Nat BY WeightIs
<1>4. \A e \in Slots : e # s => Weight(g, e) = Weight(h, e)
  BY DEF Weight, CachedIn, FreeIn
<1> DEFINE S == {n \in Nat : n <= MaxSlot =>
                    d[n] = f[n] + (IF s <= n THEN Weight(g, s) - Weight(h, s) ELSE 0)}
<1>5. 0 \in S BY <1>1, <1>2 DEF Slots
<1>6. ASSUME NEW n \in Nat, n \in S PROVE n + 1 \in S
  <2> SUFFICES ASSUME n + 1 <= MaxSlot
               PROVE  d[n + 1] = f[n + 1] + (IF s <= n + 1 THEN Weight(g, s) - Weight(h, s) ELSE 0)
    OBVIOUS
  <2>1. n + 1 \in Slots /\ (n + 1) - 1 = n /\ n \in 0 .. MaxSlot BY CacheAssumption DEF Slots
  <2>2. d[n] = f[n] + (IF s <= n THEN Weight(g, s) - Weight(h, s) ELSE 0)
    BY <1>6, <2>1, CacheAssumption
  <2>3. d[n + 1] = d[n] + Weight(g, n + 1) /\ f[n + 1] = f[n] + Weight(h, n + 1)
    BY <1>1, <1>2, <2>1
  <2>4. d[n] \in Nat /\ f[n] \in Nat BY <2>1
  <2>5. Weight(g, n + 1) \in Nat /\ Weight(h, n + 1) \in Nat BY <2>1, WeightIs
  <2>6. s \in Nat BY DEF Slots
  <2>7. CASE n + 1 = s BY <1>3, <2>2, <2>3, <2>4, <2>6, <2>7
  <2>8. CASE n + 1 # s
    <3>1. Weight(g, n + 1) = Weight(h, n + 1) BY <1>4, <2>1, <2>8
    <3> QED BY <1>3, <2>2, <2>3, <2>4, <2>5, <2>6, <2>8, <3>1
  <2> QED BY <2>7, <2>8
<1> HIDE DEF S
<1>7. MaxSlot \in S BY <1>5, <1>6, Induction, CacheAssumption
<1>8. d[MaxSlot] = f[MaxSlot] + (Weight(g, s) - Weight(h, s))
  BY <1>7, CacheAssumption DEF S, Slots
<1>9. f[MaxSlot] \in Nat /\ d[MaxSlot] \in Nat BY CacheAssumption
<1> QED BY <1>1, <1>2, <1>3, <1>8, <1>9

\* An empty heap charges nothing.
LEMMA EmptyCharge ==
    ASSUME NEW heap \in Heaps, \A e \in Slots : heap[e] = Null
    PROVE  ChargeOf(heap) = 0
<1>1. PICK f \in [0 .. MaxSlot -> Nat] :
          /\ f[0] = 0 /\ f[MaxSlot] = ChargeOf(heap)
          /\ \A e \in Slots : f[e] = f[e - 1] + Weight(heap, e)
  BY ChargeOfIs
<1>2. \A e \in Slots : Weight(heap, e) = 0 BY DEF Weight, CachedIn, FreeIn
<1> DEFINE S == {n \in Nat : n <= MaxSlot => f[n] = 0}
<1>3. 0 \in S BY <1>1
<1>4. ASSUME NEW n \in Nat, n \in S PROVE n + 1 \in S
  <2> SUFFICES ASSUME n + 1 <= MaxSlot PROVE f[n + 1] = 0 OBVIOUS
  <2>1. n + 1 \in Slots /\ (n + 1) - 1 = n BY CacheAssumption DEF Slots
  <2>2. f[n] = 0 BY <1>4, CacheAssumption
  <2> QED BY <1>1, <1>2, <2>1, <2>2
<1> HIDE DEF S
<1>5. MaxSlot \in S BY <1>3, <1>4, Induction, CacheAssumption
<1> QED BY <1>1, <1>5 DEF S
-----------------------------------------------------------------------------
(* Lists, entries and caches. *)

\* A list that has each element once loses one of them, and keeps the others.
LEMMA WithoutIs ==
    ASSUME NEW S, NEW list \in Seq(S), Once(list), NEW e
    PROVE  /\ Without(list, e) \in Seq(S) /\ Once(Without(list, e))
           /\ On(Without(list, e)) = On(list) \ {e}
           /\ Len(Without(list, e)) = IF e \in On(list) THEN Len(list) - 1 ELSE Len(list)
<1>1. Len(list) \in Nat /\ DOMAIN list = 1 .. Len(list) OBVIOUS
<1>2. CASE e \notin On(list)
  <2>1. ~ \E i \in DOMAIN list : list[i] = e BY <1>2 DEF On
  <2>2. Without(list, e) = list BY <2>1 DEF Without
  <2> QED BY <1>2, <2>2
<1>3. CASE e \in On(list)
  <2>1. \E i \in DOMAIN list : list[i] = e BY <1>3 DEF On
  <2> DEFINE at == CHOOSE i \in DOMAIN list : list[i] = e
             w == [i \in 1 .. Len(list) - 1 |-> IF i < at THEN list[i] ELSE list[i + 1]]
  <2>2. Without(list, e) = w BY <2>1 DEF Without
  <2>3. at \in 1 .. Len(list) /\ list[at] = e BY <1>1, <2>1
  <2> HIDE DEF at
  <2>4. Len(list) - 1 \in Nat BY <1>1, <2>3
  <2>5. w \in [1 .. Len(list) - 1 -> S]
    <3>1. ASSUME NEW i \in 1 .. Len(list) - 1
          PROVE (IF i < at THEN list[i] ELSE list[i + 1]) \in S
      <4>1. i \in 1 .. Len(list) /\ i + 1 \in 1 .. Len(list) BY <1>1
      <4> QED BY <4>1
    <3> QED BY <3>1
  <2>6. w \in Seq(S) /\ Len(w) = Len(list) - 1 /\ DOMAIN w = 1 .. Len(list) - 1
    BY <2>4, <2>5
  <2>7. \A i \in 1 .. Len(list) - 1 :
            /\ w[i] = IF i < at THEN list[i] ELSE list[i + 1]
            /\ i \in 1 .. Len(list) /\ i + 1 \in 1 .. Len(list)
    BY <1>1
  <2> HIDE DEF w
  <2>8. Once(w)
    <3> SUFFICES ASSUME NEW i \in 1 .. Len(list) - 1, NEW j \in 1 .. Len(list) - 1, w[i] = w[j]
                 PROVE  i = j
      BY <2>6 DEF Once
    <3>1. \A m, n \in 1 .. Len(list) : list[m] = list[n] => m = n BY <1>1 DEF Once
    <3>2. /\ i \in Int /\ j \in Int /\ at \in Int
          /\ i \in 1 .. Len(list) /\ i + 1 \in 1 .. Len(list)
          /\ j \in 1 .. Len(list) /\ j + 1 \in 1 .. Len(list)
      BY <2>3, <2>7
    <3>3. /\ w[i] = IF i < at THEN list[i] ELSE list[i + 1]
          /\ w[j] = IF j < at THEN list[j] ELSE list[j + 1]
      BY <2>7
    <3>4. CASE i < at /\ j < at BY <3>1, <3>2, <3>3, <3>4
    <3>5. CASE i < at /\ ~(j < at)
      <4>1. list[i] = list[j + 1] BY <3>3, <3>5
      <4>2. i = j + 1 BY <3>1, <3>2, <4>1
      <4> QED BY <3>2, <3>5, <4>2
    <3>6. CASE ~(i < at) /\ j < at
      <4>1. list[i + 1] = list[j] BY <3>3, <3>6
      <4>2. i + 1 = j BY <3>1, <3>2, <4>1
      <4> QED BY <3>2, <3>6, <4>2
    <3>7. CASE ~(i < at) /\ ~(j < at)
      <4>1. list[i + 1] = list[j + 1] BY <3>3, <3>7
      <4>2. i + 1 = j + 1 BY <3>1, <3>2, <4>1
      <4> QED BY <3>2, <4>2
    <3> QED BY <3>4, <3>5, <3>6, <3>7
  <2>9. On(w) = On(list) \ {e}
    <3>1. ASSUME NEW i \in 1 .. Len(list) - 1 PROVE w[i] \in On(list) \ {e}
      <4>1. w[i] \in On(list) BY <1>1, <2>7 DEF On
      <4>2. w[i] # e BY <1>1, <2>3, <2>7 DEF Once
      <4> QED BY <4>1, <4>2
    <3>2. ASSUME NEW x \in On(list) \ {e} PROVE x \in On(w)
      <4>1. PICK j \in 1 .. Len(list) : list[j] = x BY <1>1, <3>2 DEF On
      <4>2. j # at BY <2>3, <3>2, <4>1
      <4>3. CASE j < at
        <5>1. j \in 1 .. Len(list) - 1 BY <1>1, <2>3, <4>3
        <5>2. w[j] = x BY <2>7, <4>1, <4>3, <5>1
        <5> QED BY <2>6, <5>1, <5>2 DEF On
      <4>4. CASE j > at
        <5>1. j - 1 \in 1 .. Len(list) - 1 /\ ~(j - 1 < at) /\ (j - 1) + 1 = j
          BY <1>1, <2>3, <4>4
        <5>2. w[j - 1] = x BY <2>7, <4>1, <5>1
        <5> QED BY <2>6, <5>1, <5>2 DEF On
      <4> QED BY <1>1, <2>3, <4>2, <4>3, <4>4
    <3> QED BY <2>6, <3>1, <3>2 DEF On
  <2> QED BY <1>3, <2>2, <2>6, <2>8, <2>9
<1> QED BY <1>2, <1>3

\* An element that is not on a list goes to its end.
LEMMA AppendIs ==
    ASSUME NEW S, NEW list \in Seq(S), Once(list), NEW e \in S, e \notin On(list)
    PROVE  /\ Append(list, e) \in Seq(S) /\ Once(Append(list, e))
           /\ On(Append(list, e)) = On(list) \cup {e}
<1> DEFINE a == Append(list, e)
<1>1. /\ a \in Seq(S) /\ Len(a) = Len(list) + 1 /\ Len(list) \in Nat
      /\ DOMAIN list = 1 .. Len(list) /\ DOMAIN a = 1 .. Len(list) + 1
  OBVIOUS
<1>2. a[Len(list) + 1] = e /\ \A i \in 1 .. Len(list) : a[i] = list[i] OBVIOUS
<1> HIDE DEF a
<1>3. \A i \in 1 .. Len(list) : list[i] # e BY <1>1 DEF On
<1>4. \A i \in 1 .. Len(list) + 1 : i = Len(list) + 1 \/ i \in 1 .. Len(list) BY <1>1
<1>5. Once(a) BY <1>1, <1>2, <1>3, <1>4 DEF Once
<1>6. On(a) = On(list) \cup {e}
  <2>1. On(a) \subseteq On(list) \cup {e} BY <1>1, <1>2, <1>4 DEF On
  <2>2. Len(list) + 1 \in DOMAIN a /\ \A i \in 1 .. Len(list) : i \in DOMAIN a BY <1>1
  <2>3. On(list) \subseteq On(a) BY <1>1, <1>2, <2>2 DEF On
  <2>4. e \in On(a) BY <1>2, <2>2 DEF On
  <2> QED BY <2>1, <2>3, <2>4
<1> QED BY <1>1, <1>5, <1>6 DEF a

\* An entry has the fields of an LRUHandle.
LEMMA EntryIs ==
    ASSUME NEW h \in Heaps, NEW e \in Slots
    PROVE  /\ h[e] # Null =>
                  /\ h[e] \in LRUHandle
                  /\ h[e].key \in CacheKeys /\ h[e].charge \in Nat /\ h[e].refs \in Nat
                  /\ h[e].inCache \in BOOLEAN
           /\ e \in CachedIn(h) <=> h[e] # Null /\ h[e].inCache
BY DEF Heaps, LRUHandle, CachedIn, FreeIn

\* An entry's count or mark is set, and the rest of it stays.
LEMMA HandleIs ==
    ASSUME NEW o \in LRUHandle, NEW n \in Nat
    PROVE  /\ LET h == [o EXCEPT !.refs = n]
              IN  /\ h \in LRUHandle /\ h.key = o.key /\ h.charge = o.charge
                  /\ h.refs = n /\ h.inCache = o.inCache
           /\ LET h == [o EXCEPT !.inCache = FALSE]
              IN  /\ h \in LRUHandle /\ h.key = o.key /\ h.charge = o.charge
                  /\ h.refs = o.refs /\ h.inCache = FALSE
BY DEF LRUHandle

\* No address and no key is taken for Null.
LEMMA NotNull == /\ \A e \in Slots : e # Null
                 /\ \A k \in CacheKeys : k # Null
                 /\ \A h \in LRUHandle : h # Null
BY CacheAssumption

\* A cache has its fields.
LEMMA ShapeIs ==
    ASSUME NEW c \in Shapes
    PROVE  /\ c.ent \in Heaps /\ c.lru \in Seq(Slots) /\ c.inUse \subseteq Slots
           /\ c.table \in [CacheKeys -> Slots \cup {Null}] /\ c.usage \in Int
BY DEF Shapes

\* LRURemove takes an entry off the lists.
LEMMA LRURemoveIs ==
    ASSUME NEW c \in Shapes, NEW e \in Slots, Once(c.lru)
    PROVE  LET d == LRURemove(c, e)
           IN  /\ d \in Shapes /\ d.lru = Without(c.lru, e) /\ d.inUse = c.inUse \ {e}
               /\ d.ent = c.ent /\ d.table = c.table /\ d.usage = c.usage
<1> DEFINE list == Without(c.lru, e)
           held == c.inUse \ {e}
<1>1. list \in Seq(Slots) BY ShapeIs, WithoutIs
<1>2. held \in SUBSET Slots BY ShapeIs
<1>3. LRURemove(c, e) = [c EXCEPT !.lru = list, !.inUse = held] BY DEF LRURemove, Shapes
<1> HIDE DEF list, held
<1>4. LET d == [c EXCEPT !.lru = list, !.inUse = held]
      IN  /\ d \in Shapes /\ d.lru = list /\ d.inUse = held
          /\ d.ent = c.ent /\ d.table = c.table /\ d.usage = c.usage
  BY <1>1, <1>2 DEF Shapes
<1> QED BY <1>3, <1>4 DEF list, held

\* An address of the heap gets another content, the rest stays.
LEMMA EntIs ==
    ASSUME NEW c \in Shapes, NEW e \in Slots, NEW v \in LRUHandle \cup {Null}
    PROVE  LET d == [c EXCEPT !.ent = [c.ent EXCEPT ![e] = v]]
           IN  /\ d \in Shapes /\ d.ent[e] = v /\ \A a \in Slots : a # e => d.ent[a] = c.ent[a]
               /\ d.lru = c.lru /\ d.inUse = c.inUse /\ d.table = c.table /\ d.usage = c.usage
<1> DEFINE h == [c.ent EXCEPT ![e] = v]
<1>1. c.ent \in [Slots -> LRUHandle \cup {Null}] BY ShapeIs DEF Heaps
<1>2. h \in Heaps BY <1>1 DEF Heaps
<1>3. h[e] = v /\ \A a \in Slots : a # e => h[a] = c.ent[a] BY <1>1
<1> HIDE DEF h
<1>4. LET d == [c EXCEPT !.ent = h]
      IN  /\ d \in Shapes /\ d.ent = h
          /\ d.lru = c.lru /\ d.inUse = c.inUse /\ d.table = c.table /\ d.usage = c.usage
  BY <1>2 DEF Shapes
<1> QED BY <1>3, <1>4 DEF h

\* From c and held to d and more, only the entry e and its handles changed.
Touches(c, held, d, more, e) ==
    /\ d \in Shapes /\ more \in Counts
    /\ \A a \in Slots : a # e => d.ent[a] = c.ent[a] /\ more[a] = held[a]
    /\ EntrySound(d, more, e)
    /\ d.inUse = (c.inUse \ {e}) \cup (IF e \in CachedIn(d.ent) /\ more[e] > 0 THEN {e} ELSE {})
    /\ On(d.lru) = (On(c.lru) \ {e}) \cup (IF e \in CachedIn(d.ent) /\ more[e] = 0 THEN {e} ELSE {})
    /\ Once(d.lru)
    /\ d.usage = (c.usage - Weight(c.ent, e)) + Weight(d.ent, e)

\* What is cached elsewhere stays cached.
LEMMA CachedElsewhere ==
    ASSUME NEW h \in Heaps, NEW g \in Heaps, NEW e, \A a \in Slots : a # e => g[a] = h[a]
    PROVE  CachedIn(g) \ {e} = CachedIn(h) \ {e}
BY EntryIs DEF CachedIn

\* Such a step keeps a cache sound.
LEMMA SoundAfter ==
    ASSUME NEW c, NEW held, NEW x, SoundBut(c, held, x), NEW e \in Slots,
           NEW d, NEW more, Touches(c, held, d, more, e),
           NEW y, TableSound(d, y), y = Null \/ y \in CachedIn(d.ent)
    PROVE  SoundBut(d, more, y)
<1>1. c \in Shapes /\ d \in Shapes /\ held \in Counts /\ more \in Counts BY DEF SoundBut, Touches
<1>2. c.ent \in Heaps /\ d.ent \in Heaps BY <1>1, ShapeIs
<1>3. \A a \in Slots : a # e => d.ent[a] = c.ent[a] /\ more[a] = held[a] BY DEF Touches
<1>4. \A a \in Slots : EntrySound(d, more, a)
  <2> TAKE a \in Slots
  <2>1. CASE a = e BY <2>1 DEF Touches
  <2>2. CASE a # e
    <3>1. EntrySound(c, held, a) BY DEF SoundBut
    <3>2. d.ent[a] = c.ent[a] /\ more[a] = held[a] BY <1>3, <2>2
    <3> QED BY <3>1, <3>2 DEF EntrySound
  <2> QED BY <2>1, <2>2
<1>5. CachedIn(d.ent) \ {e} = CachedIn(c.ent) \ {e} BY <1>2, <1>3, CachedElsewhere
<1>6. CachedIn(d.ent) \subseteq Slots BY DEF CachedIn
<1>7. ListsSound(d, more)
  <2>1. /\ c.inUse = {a \in CachedIn(c.ent) : held[a] > 0}
        /\ On(c.lru) = {a \in CachedIn(c.ent) : held[a] = 0}
    BY DEF SoundBut, ListsSound
  <2>2. /\ d.inUse = (c.inUse \ {e}) \cup (IF e \in CachedIn(d.ent) /\ more[e] > 0 THEN {e} ELSE {})
        /\ On(d.lru) = (On(c.lru) \ {e}) \cup (IF e \in CachedIn(d.ent) /\ more[e] = 0 THEN {e} ELSE {})
        /\ Once(d.lru)
    BY DEF Touches
  <2>3. \A a \in CachedIn(d.ent) : a # e => a \in CachedIn(c.ent) /\ more[a] = held[a]
    BY <1>3, <1>5, <1>6
  <2>4. \A a \in CachedIn(c.ent) : a # e => a \in CachedIn(d.ent) /\ more[a] = held[a]
    BY <1>3, <1>5, <1>6
  <2>5. d.inUse = {a \in CachedIn(d.ent) : more[a] > 0} BY <2>1, <2>2, <2>3, <2>4
  <2>6. On(d.lru) = {a \in CachedIn(d.ent) : more[a] = 0} BY <2>1, <2>2, <2>3, <2>4
  <2> QED BY <2>2, <2>5, <2>6 DEF ListsSound
<1>8. d.usage = ChargeOf(d.ent)
  <2>1. c.usage = ChargeOf(c.ent) BY DEF SoundBut
  <2>2. ChargeOf(d.ent) = (ChargeOf(c.ent) - Weight(c.ent, e)) + Weight(d.ent, e)
    BY <1>2, <1>3, ChargeChanges
  <2> QED BY <2>1, <2>2 DEF Touches
<1> QED BY <1>1, <1>4, <1>7, <1>8 DEF SoundBut

\* A table that stays finds what it found, when what is cached has kept its keys.
LEMMA SameTable ==
    ASSUME NEW c, NEW x, TableSound(c, x), NEW d, NEW y, d.table = c.table,
           CachedIn(d.ent) \ {y} = CachedIn(c.ent) \ {x},
           \A a \in CachedIn(d.ent) \ {y} : d.ent[a].key = c.ent[a].key
    PROVE  TableSound(d, y)
BY DEF TableSound

\* A handle more to an entry that is held, or to a cached one.
LEMMA RefSound ==
    ASSUME NEW c, NEW held, Sound(c, held), NEW e \in CachedIn(c.ent)
    PROVE  /\ Sound(Ref(c, e), [held EXCEPT ![e] = @ + 1])
           /\ Keeps(c, Ref(c, e), held)
           /\ Ref(c, e).ent[e].key = c.ent[e].key
<1>1. c \in Shapes /\ held \in Counts /\ e \in Slots BY DEF Sound, SoundBut, CachedIn
<1>2. c.ent \in Heaps /\ c.lru \in Seq(Slots) BY <1>1, ShapeIs
<1>3. c.ent[e] # Null /\ c.ent[e] \in LRUHandle /\ c.ent[e].inCache /\ c.ent[e].refs \in Nat
  BY <1>1, <1>2, EntryIs
<1>4. c.ent[e].refs = held[e] + 1 /\ held[e] \in Nat
  BY <1>1, <1>3 DEF Sound, SoundBut, EntrySound, Counts
<1>5. Once(c.lru) BY DEF Sound, SoundBut, ListsSound
<1> DEFINE h  == [c.ent[e] EXCEPT !.refs = c.ent[e].refs + 1]
           r  == LRURemove(c, e)
           b  == IF c.ent[e].refs = 1 THEN [r EXCEPT !.inUse = r.inUse \cup {e}] ELSE c
           d  == [b EXCEPT !.ent = [b.ent EXCEPT ![e] = h]]
           more == [held EXCEPT ![e] = held[e] + 1]
<1>6. h \in LRUHandle /\ h.key = c.ent[e].key /\ h.refs = c.ent[e].refs + 1
      /\ h.inCache = c.ent[e].inCache /\ h.charge = c.ent[e].charge
  <2>1. c.ent[e].refs + 1 \in Nat BY <1>3
  <2> DEFINE n == c.ent[e].refs + 1
             o == c.ent[e]
  <2>2. o \in LRUHandle /\ n \in Nat BY <1>3, <2>1
  <2>3. h = [o EXCEPT !.refs = n] OBVIOUS
  <2> HIDE DEF h, n, o
  <2>4. /\ h \in LRUHandle /\ h.key = o.key /\ h.charge = o.charge
        /\ h.refs = n /\ h.inCache = o.inCache
    BY <2>2, <2>3, HandleIs
  <2> QED BY <2>4 DEF n, o
<1>7. /\ b \in Shapes /\ b.ent = c.ent /\ b.table = c.table /\ b.usage = c.usage
      /\ b.lru = IF c.ent[e].refs = 1 THEN Without(c.lru, e) ELSE c.lru
      /\ b.inUse = IF c.ent[e].refs = 1 THEN c.inUse \cup {e} ELSE c.inUse
  <2>1. /\ r \in Shapes /\ r.lru = Without(c.lru, e) /\ r.inUse = c.inUse \ {e}
        /\ r.ent = c.ent /\ r.table = c.table /\ r.usage = c.usage
    BY <1>1, <1>5, LRURemoveIs
  <2> HIDE DEF r
  <2>2. r.inUse \cup {e} \in SUBSET Slots BY <1>1, <2>1, ShapeIs
  <2>3. LET q == [r EXCEPT !.inUse = r.inUse \cup {e}]
        IN  /\ q \in Shapes /\ q.inUse = r.inUse \cup {e}
            /\ q.lru = r.lru /\ q.ent = r.ent /\ q.table = r.table /\ q.usage = r.usage
    BY <2>1, <2>2 DEF Shapes
  <2>4. r.inUse \cup {e} = c.inUse \cup {e} BY <2>1
  <2> QED BY <1>1, <2>1, <2>3, <2>4
<1>8. Ref(c, e) = d
  <2>1. Ref(c, e) = [b EXCEPT !.ent[e].refs = @ + 1] BY <1>3 DEF Ref
  <2> HIDE DEF b
  <2>2. [b EXCEPT !.ent[e].refs = @ + 1]
            = [b EXCEPT !.ent = [b.ent EXCEPT ![e] = [b.ent[e] EXCEPT !.refs = b.ent[e].refs + 1]]]
    BY <1>1, <1>2, <1>7 DEF Shapes, Heaps
  <2> QED BY <1>7, <2>1, <2>2
<1> HIDE DEF h, b
<1>9. /\ d \in Shapes /\ d.ent[e] = h /\ \A a \in Slots : a # e => d.ent[a] = c.ent[a]
      /\ d.lru = b.lru /\ d.inUse = b.inUse /\ d.table = c.table /\ d.usage = c.usage
  <2>1. b \in Shapes /\ h \in LRUHandle \cup {Null} BY <1>6, <1>7
  <2>2. /\ d \in Shapes /\ d.ent[e] = h /\ \A a \in Slots : a # e => d.ent[a] = b.ent[a]
        /\ d.lru = b.lru /\ d.inUse = b.inUse /\ d.table = b.table /\ d.usage = b.usage
    BY <1>1, <2>1, EntIs
  <2> QED BY <1>7, <2>2
<1> HIDE DEF d
<1>10. more \in Counts /\ more[e] = held[e] + 1 /\ \A a \in Slots : a # e => more[a] = held[a]
  BY <1>1, <1>4 DEF Counts
<1> HIDE DEF more
<1>11. e \in CachedIn(d.ent) /\ h # Null
  <2>1. h # Null BY <1>6, NotNull
  <2>2. h.inCache BY <1>3, <1>6
  <2>3. d.ent \in Heaps BY <1>9, ShapeIs
  <2> QED BY <1>1, <1>9, <2>1, <2>2, <2>3, EntryIs
<1>12. Touches(c, held, d, more, e)
  <2>1. EntrySound(d, more, e)
    <3>1. d.ent[e] # Null /\ d.ent[e].refs = more[e] + 1 BY <1>4, <1>6, <1>9, <1>10, <1>11
    <3>2. (IF d.ent[e].inCache THEN 1 ELSE 0) = 1
      <4>1. d.ent \in Heaps BY <1>9, ShapeIs
      <4>2. d.ent[e].inCache BY <1>1, <1>11, <4>1, EntryIs
      <4> QED BY <4>2
    <3>3. more[e] + 1 > 0 BY <1>4, <1>10
    <3> QED BY <3>1, <3>2, <3>3 DEF EntrySound
  <2>2. /\ c.inUse = {a \in CachedIn(c.ent) : held[a] > 0}
        /\ On(c.lru) = {a \in CachedIn(c.ent) : held[a] = 0}
    BY DEF Sound, SoundBut, ListsSound
  <2>3. d.inUse = (c.inUse \ {e}) \cup {e} /\ On(d.lru) = On(c.lru) \ {e} /\ Once(d.lru)
    <3>1. CASE held[e] = 0
      <4>1. d.lru = Without(c.lru, e) /\ d.inUse = c.inUse \cup {e} BY <1>4, <1>7, <1>9, <3>1
      <4> QED BY <1>2, <1>5, <4>1, WithoutIs
    <3>2. CASE held[e] # 0
      <4>1. d.lru = c.lru /\ d.inUse = c.inUse BY <1>4, <1>7, <1>9, <3>2
      <4>2. e \in c.inUse /\ e \notin On(c.lru) BY <1>4, <2>2, <3>2
      <4> QED BY <1>5, <4>1, <4>2
    <3> QED BY <3>1, <3>2
  <2>4. Weight(d.ent, e) = Weight(c.ent, e) BY <1>6, <1>9, <1>11 DEF Weight
  <2>5. Weight(c.ent, e) \in Nat /\ c.usage \in Int BY <1>1, <1>2, WeightIs, ShapeIs
  <2>6. d.usage = (c.usage - Weight(c.ent, e)) + Weight(d.ent, e) BY <1>9, <2>4, <2>5
  <2>7. more[e] > 0 /\ more[e] # 0 BY <1>4, <1>10
  <2> QED BY <1>9, <1>10, <1>11, <2>1, <2>3, <2>6, <2>7 DEF Touches
<1>13. TableSound(d, Null)
  <2>1. CachedIn(d.ent) \ {e} = CachedIn(c.ent) \ {e}
    BY <1>1, <1>2, <1>9, ShapeIs, CachedElsewhere
  <2>2. CachedIn(d.ent) \ {Null} = CachedIn(c.ent) \ {Null} BY <1>11, <2>1
  <2>3. \A a \in CachedIn(d.ent) \ {Null} : d.ent[a].key = c.ent[a].key
    BY <1>6, <1>9 DEF CachedIn
  <2>4. TableSound(c, Null) BY DEF Sound, SoundBut
  <2> QED BY <1>9, <2>2, <2>3, <2>4, SameTable
<1>14. Sound(d, more) BY <1>1, <1>12, <1>13, SoundAfter DEF Sound
<1>15. Keeps(c, d, held)
  <2> SUFFICES ASSUME NEW a \in Slots, held[a] > 0
               PROVE  d.ent[a] # Null /\ d.ent[a].key = c.ent[a].key
    BY DEF Keeps
  <2>1. CASE a = e BY <1>6, <1>9, <1>11, <2>1
  <2>2. CASE a # e
    <3>1. held[a] \in Nat /\ held[a] # 0 BY <1>1 DEF Counts
    <3>2. c.ent[a] # Null BY <3>1 DEF Sound, SoundBut, EntrySound
    <3> QED BY <1>9, <2>2, <3>2
  <2> QED BY <2>1, <2>2
<1>16. [held EXCEPT ![e] = @ + 1] = more BY DEF more
<1> QED BY <1>6, <1>8, <1>9, <1>14, <1>15, <1>16

\* Unref frees the entry, makes it one to evict, or counts one handle less.
LEMMA UnrefIs ==
    ASSUME NEW c \in Shapes, Once(c.lru), NEW e \in Slots, c.ent[e] # Null, c.ent[e].refs > 0
    PROVE  LET d == Unref(c, e)
           IN  /\ d \in Shapes /\ d.table = c.table /\ d.usage = c.usage
               /\ \A a \in Slots : a # e => d.ent[a] = c.ent[a]
               /\ c.ent[e].refs = 1 =>
                      d.ent[e] = Null /\ d.lru = c.lru /\ d.inUse = c.inUse
               /\ c.ent[e].refs # 1 =>
                      /\ d.ent[e] \in LRUHandle /\ d.ent[e] # Null
                      /\ d.ent[e].key = c.ent[e].key /\ d.ent[e].charge = c.ent[e].charge
                      /\ d.ent[e].refs = c.ent[e].refs - 1 /\ d.ent[e].inCache = c.ent[e].inCache
                      /\ IF c.ent[e].inCache /\ c.ent[e].refs = 2
                         THEN d.lru = Append(Without(c.lru, e), e) /\ d.inUse = c.inUse \ {e}
                         ELSE d.lru = c.lru /\ d.inUse = c.inUse
<1>1. c.ent \in Heaps /\ c.lru \in Seq(Slots) /\ c.ent[e] \in LRUHandle /\ c.ent[e].refs \in Nat
  BY ShapeIs, EntryIs
<1> DEFINE n == c.ent[e].refs - 1
           o == c.ent[e]
           h == [o EXCEPT !.refs = n]
           d == [c EXCEPT !.ent = [c.ent EXCEPT ![e] = h]]
           r == LRURemove(d, e)
           q == [r EXCEPT !.lru = Append(r.lru, e)]
           z == [d EXCEPT !.ent = [d.ent EXCEPT ![e] = Null]]
<1>2. o \in LRUHandle /\ n \in Nat /\ o.refs \in Nat /\ o.refs = n + 1 BY <1>1
<1>3. [c EXCEPT !.ent[e].refs = @ - 1] = d BY <1>1 DEF Shapes, Heaps
<1> HIDE DEF n
<1>4. /\ h \in LRUHandle /\ h.key = o.key /\ h.charge = o.charge
      /\ h.refs = n /\ h.inCache = o.inCache
  BY <1>2, HandleIs
<1> HIDE DEF h
<1>5. /\ d \in Shapes /\ d.ent[e] = h /\ \A a \in Slots : a # e => d.ent[a] = c.ent[a]
      /\ d.lru = c.lru /\ d.inUse = c.inUse /\ d.table = c.table /\ d.usage = c.usage
  BY <1>4, EntIs
<1>6. Unref(c, e) = IF d.ent[e].refs = 0 THEN [d EXCEPT !.ent[e] = Null]
                    ELSE IF d.ent[e].inCache /\ d.ent[e].refs = 1
                    THEN [r EXCEPT !.lru = Append(@, e)] ELSE d
  BY <1>3 DEF Unref
<1> HIDE DEF d
<1>7. /\ r \in Shapes /\ r.lru = Without(c.lru, e) /\ r.inUse = c.inUse \ {e}
      /\ r.ent = d.ent /\ r.table = d.table /\ r.usage = d.usage
  BY <1>5, LRURemoveIs
<1> HIDE DEF r
<1>8. [r EXCEPT !.lru = Append(@, e)] = q BY <1>7 DEF Shapes
<1>9. [d EXCEPT !.ent[e] = Null] = z BY <1>5 DEF Shapes
<1>10. /\ q \in Shapes /\ q.lru = Append(Without(c.lru, e), e) /\ q.inUse = c.inUse \ {e}
       /\ q.ent = d.ent /\ q.table = c.table /\ q.usage = c.usage
  <2> DEFINE list == Append(r.lru, e)
  <2>1. list \in Seq(Slots) BY <1>7, ShapeIs
  <2>2. list = Append(Without(c.lru, e), e) BY <1>7
  <2>3. q = [r EXCEPT !.lru = list] OBVIOUS
  <2> HIDE DEF q, list
  <2>4. q \in Shapes /\ q.lru = list /\ q.inUse = r.inUse
        /\ q.ent = r.ent /\ q.table = r.table /\ q.usage = r.usage
    BY <1>7, <2>1, <2>3 DEF Shapes
  <2> QED BY <1>5, <1>7, <2>2, <2>4
<1>11. /\ z \in Shapes /\ z.ent[e] = Null /\ \A a \in Slots : a # e => z.ent[a] = c.ent[a]
       /\ z.lru = c.lru /\ z.inUse = c.inUse /\ z.table = c.table /\ z.usage = c.usage
  BY <1>5, EntIs
<1> HIDE DEF q, z
<1>12. CASE o.refs = 1
  <2>1. d.ent[e].refs = 0 BY <1>2, <1>4, <1>5, <1>12
  <2>2. Unref(c, e) = z BY <1>6, <1>9, <2>1
  <2> QED BY <1>11, <1>12, <2>2
<1>13. CASE o.refs # 1
  <2>1. d.ent[e].refs # 0 BY <1>2, <1>4, <1>5, <1>13
  <2>2. d.ent[e].refs = 1 <=> o.refs = 2 BY <1>2, <1>4, <1>5
  <2>3. h # Null BY <1>4, NotNull
  <2>4. d.ent[e].inCache = o.inCache BY <1>4, <1>5
  <2>5. d.ent[e].refs = o.refs - 1 BY <1>2, <1>4, <1>5
  <2>6. CASE o.inCache /\ o.refs = 2
    <3>1. Unref(c, e) = q BY <1>6, <1>8, <2>1, <2>2, <2>4, <2>6
    <3> QED BY <1>4, <1>5, <1>10, <1>13, <2>3, <2>5, <2>6, <3>1
  <2>7. CASE ~(o.inCache /\ o.refs = 2)
    <3>1. Unref(c, e) = d BY <1>6, <2>1, <2>2, <2>4, <2>7
    <3> QED BY <1>4, <1>5, <1>13, <2>3, <2>5, <2>7, <3>1
  <2> QED BY <2>6, <2>7
<1> QED BY <1>12, <1>13

\* A handle is released: the entry is freed if nothing else refers to it.
LEMMA UnrefSound ==
    ASSUME NEW c, NEW held, Sound(c, held), NEW e \in Slots, held[e] > 0
    PROVE  /\ Sound(Unref(c, e), [held EXCEPT ![e] = @ - 1])
           /\ Keeps(c, Unref(c, e), [held EXCEPT ![e] = @ - 1])
<1>1. c \in Shapes /\ held \in Counts /\ Once(c.lru) BY DEF Sound, SoundBut, ListsSound
<1>2. c.ent \in Heaps /\ c.lru \in Seq(Slots) BY <1>1, ShapeIs
<1>3. held[e] \in Nat /\ held[e] # 0 BY <1>1 DEF Counts
<1>4. /\ c.ent[e] # Null /\ c.ent[e].refs > 0
      /\ c.ent[e].refs = held[e] + (IF c.ent[e].inCache THEN 1 ELSE 0)
  BY <1>3 DEF Sound, SoundBut, EntrySound
<1>5. e \in CachedIn(c.ent) <=> c.ent[e].inCache BY <1>2, <1>4, EntryIs
<1> DEFINE d == Unref(c, e)
           more == [held EXCEPT ![e] = held[e] - 1]
<1>6. /\ d \in Shapes /\ d.table = c.table /\ d.usage = c.usage
      /\ \A a \in Slots : a # e => d.ent[a] = c.ent[a]
      /\ c.ent[e].refs = 1 =>
             d.ent[e] = Null /\ d.lru = c.lru /\ d.inUse = c.inUse
      /\ c.ent[e].refs # 1 =>
             /\ d.ent[e] \in LRUHandle /\ d.ent[e] # Null
             /\ d.ent[e].key = c.ent[e].key /\ d.ent[e].charge = c.ent[e].charge
             /\ d.ent[e].refs = c.ent[e].refs - 1 /\ d.ent[e].inCache = c.ent[e].inCache
             /\ IF c.ent[e].inCache /\ c.ent[e].refs = 2
                THEN d.lru = Append(Without(c.lru, e), e) /\ d.inUse = c.inUse \ {e}
                ELSE d.lru = c.lru /\ d.inUse = c.inUse
  BY <1>1, <1>4, UnrefIs
<1> HIDE DEF d
<1>7. more \in Counts /\ more[e] = held[e] - 1 /\ \A a \in Slots : a # e => more[a] = held[a]
  BY <1>1, <1>3 DEF Counts
<1>8. [held EXCEPT ![e] = @ - 1] = more OBVIOUS
<1> HIDE DEF more
<1>9. d.ent \in Heaps BY <1>6, ShapeIs
<1>10. /\ c.inUse = {a \in CachedIn(c.ent) : held[a] > 0}
       /\ On(c.lru) = {a \in CachedIn(c.ent) : held[a] = 0}
  BY DEF Sound, SoundBut, ListsSound
<1>11. e \notin On(c.lru) /\ (e \in c.inUse <=> e \in CachedIn(c.ent)) BY <1>3, <1>10
<1>12. c.usage \in Int /\ Weight(c.ent, e) \in Nat BY <1>1, <1>2, ShapeIs, WeightIs
<1>13. /\ Touches(c, held, d, more, e)
       /\ CachedIn(d.ent) = CachedIn(c.ent)
       /\ d.ent[e] # Null => d.ent[e].key = c.ent[e].key
  <2>1. CachedIn(d.ent) \ {e} = CachedIn(c.ent) \ {e} BY <1>2, <1>6, <1>9, CachedElsewhere
  <2>2. CASE c.ent[e].refs = 1
    <3>1. held[e] = 1 /\ e \notin CachedIn(c.ent)
      <4>1. CASE c.ent[e].inCache BY <1>3, <1>4, <2>2, <4>1
      <4>2. CASE ~c.ent[e].inCache BY <1>3, <1>4, <1>5, <2>2, <4>2
      <4> QED BY <4>1, <4>2
    <3>2. d.ent[e] = Null /\ d.lru = c.lru /\ d.inUse = c.inUse BY <1>6, <2>2
    <3>3. e \notin CachedIn(d.ent) BY <1>9, <3>2, EntryIs
    <3>4. CachedIn(d.ent) = CachedIn(c.ent) BY <2>1, <3>1, <3>3
    <3>5. Weight(c.ent, e) = 0 /\ Weight(d.ent, e) = 0 BY <3>1, <3>3 DEF Weight
    <3>6. d.usage = (c.usage - Weight(c.ent, e)) + Weight(d.ent, e) BY <1>6, <1>12, <3>5
    <3>7. EntrySound(d, more, e) BY <1>7, <3>1, <3>2 DEF EntrySound
    <3>8. d.inUse = c.inUse \ {e} /\ On(d.lru) = On(c.lru) \ {e} /\ Once(d.lru)
      BY <1>1, <1>11, <3>1, <3>2
    <3> QED BY <1>6, <1>7, <3>2, <3>3, <3>4, <3>6, <3>7, <3>8 DEF Touches
  <2>3. CASE c.ent[e].refs # 1
    <3>1. /\ d.ent[e] # Null /\ d.ent[e].key = c.ent[e].key
          /\ d.ent[e].charge = c.ent[e].charge
          /\ d.ent[e].refs = c.ent[e].refs - 1 /\ d.ent[e].inCache = c.ent[e].inCache
      BY <1>6, <2>3
    <3>2. e \in CachedIn(d.ent) <=> e \in CachedIn(c.ent) BY <1>5, <1>9, <3>1, EntryIs
    <3>3. CachedIn(d.ent) = CachedIn(c.ent) BY <2>1, <3>2
    <3>4. Weight(d.ent, e) = Weight(c.ent, e) BY <3>1, <3>3 DEF Weight
    <3>5. d.usage = (c.usage - Weight(c.ent, e)) + Weight(d.ent, e) BY <1>6, <1>12, <3>4
    <3>6. EntrySound(d, more, e)
      <4>1. CASE c.ent[e].inCache
        <5>1. d.ent[e].refs = more[e] + 1 /\ d.ent[e].refs > 0 BY <1>3, <1>4, <1>7, <3>1, <4>1
        <5>2. (IF d.ent[e].inCache THEN 1 ELSE 0) = 1 BY <3>1, <4>1
        <5> QED BY <3>1, <5>1, <5>2 DEF EntrySound
      <4>2. CASE ~c.ent[e].inCache
        <5>1. d.ent[e].refs = more[e] + 0 /\ d.ent[e].refs > 0
          BY <1>3, <1>4, <1>7, <2>3, <3>1, <4>2
        <5>2. (IF d.ent[e].inCache THEN 1 ELSE 0) = 0 BY <3>1, <4>2
        <5> QED BY <3>1, <5>1, <5>2 DEF EntrySound
      <4> QED BY <4>1, <4>2
    <3>7. /\ d.inUse = (c.inUse \ {e}) \cup (IF e \in CachedIn(d.ent) /\ more[e] > 0 THEN {e} ELSE {})
          /\ On(d.lru) = (On(c.lru) \ {e}) \cup (IF e \in CachedIn(d.ent) /\ more[e] = 0 THEN {e} ELSE {})
          /\ Once(d.lru)
      <4>1. CASE c.ent[e].inCache /\ c.ent[e].refs = 2
        <5>1. d.lru = Append(Without(c.lru, e), e) /\ d.inUse = c.inUse \ {e} BY <1>6, <2>3, <4>1
        <5>2. held[e] = 1 BY <1>3, <1>4, <4>1
        <5>3. more[e] = 0 /\ ~(more[e] > 0) BY <1>7, <5>2
        <5>4. /\ Without(c.lru, e) \in Seq(Slots) /\ Once(Without(c.lru, e))
              /\ On(Without(c.lru, e)) = On(c.lru) \ {e}
          BY <1>1, <1>2, WithoutIs
        <5>5. Once(d.lru) /\ On(d.lru) = (On(c.lru) \ {e}) \cup {e} BY <5>1, <5>4, AppendIs
        <5>6. e \in CachedIn(d.ent) BY <1>5, <3>2, <4>1
        <5> QED BY <5>1, <5>3, <5>5, <5>6
      <4>2. CASE c.ent[e].inCache /\ c.ent[e].refs # 2
        <5>1. d.lru = c.lru /\ d.inUse = c.inUse BY <1>6, <2>3, <4>2
        <5>2. held[e] + 1 = c.ent[e].refs BY <1>4, <4>2
        <5>3. more[e] > 0 /\ more[e] # 0 BY <1>3, <1>7, <2>3, <4>2, <5>2
        <5>4. e \in CachedIn(d.ent) /\ e \in c.inUse BY <1>5, <1>11, <3>2, <4>2
        <5> QED BY <1>1, <1>11, <5>1, <5>3, <5>4
      <4>3. CASE ~c.ent[e].inCache
        <5>1. d.lru = c.lru /\ d.inUse = c.inUse BY <1>6, <2>3, <4>3
        <5>2. e \notin CachedIn(d.ent) /\ e \notin c.inUse BY <1>5, <1>11, <3>2, <4>3
        <5> QED BY <1>1, <1>11, <5>1, <5>2
      <4> QED BY <4>1, <4>2, <4>3
    <3> QED BY <1>6, <1>7, <3>1, <3>3, <3>5, <3>6, <3>7 DEF Touches
  <2> QED BY <2>2, <2>3
<1>14. \A a \in Slots : d.ent[a] # Null => d.ent[a].key = c.ent[a].key BY <1>6, <1>13
<1>15. TableSound(d, Null)
  <2>1. \A a \in CachedIn(d.ent) \ {Null} : d.ent[a].key = c.ent[a].key
    BY <1>14 DEF CachedIn, FreeIn
  <2>2. TableSound(c, Null) BY DEF Sound, SoundBut
  <2> QED BY <1>6, <1>13, <2>1, <2>2, SameTable
<1>16. Sound(d, more) BY <1>13, <1>15, SoundAfter DEF Sound
<1>17. Keeps(c, d, more)
  <2> SUFFICES ASSUME NEW a \in Slots, more[a] > 0
               PROVE  d.ent[a] # Null /\ d.ent[a].key = c.ent[a].key
    BY DEF Keeps
  <2>1. more[a] # 0 BY <1>7 DEF Counts
  <2>2. d.ent[a] # Null BY <1>16, <2>1 DEF Sound, SoundBut, EntrySound
  <2> QED BY <1>14, <2>2
<1> QED BY <1>8, <1>16, <1>17 DEF d

\* An entry the table does not find any more leaves the cache, and memory when
\* nobody holds it.
LEMMA FinishEraseSound ==
    ASSUME NEW c, NEW held, NEW x, SoundBut(c, held, x)
    PROVE  LET d == FinishErase(c, x)
           IN  /\ Sound(d, held) /\ Keeps(c, d, held) /\ d.table = c.table
               /\ x # Null => d.lru = Without(c.lru, x)
<1>1. c \in Shapes /\ held \in Counts /\ Once(c.lru) BY DEF SoundBut, ListsSound
<1>2. c.ent \in Heaps /\ c.lru \in Seq(Slots) /\ c.usage \in Int BY <1>1, ShapeIs
<1>3. CASE x = Null
  <2>1. FinishErase(c, x) = c BY <1>3 DEF FinishErase
  <2>2. Keeps(c, c, held)
    <3>1. \A a \in Slots : held[a] > 0 => held[a] # 0 BY <1>1 DEF Counts
    <3> QED BY <3>1 DEF Keeps, SoundBut, EntrySound
  <2> QED BY <1>3, <2>1, <2>2 DEF Sound
<1>4. CASE x # Null
  <2> DEFINE d == FinishErase(c, x)
             o == c.ent[x]
             h == [o EXCEPT !.inCache = FALSE]
             r == LRURemove(c, x)
             u == c.usage - o.charge
             p == [r EXCEPT !.ent = [r.ent EXCEPT ![x] = h]]
             q == [p EXCEPT !.usage = u]
  <2>1. x \in CachedIn(c.ent) BY <1>4 DEF SoundBut
  <2>2. x \in Slots /\ o # Null /\ o \in LRUHandle /\ o.inCache /\ o.refs \in Nat /\ o.charge \in Nat
    <3>1. x \in Slots BY <2>1 DEF CachedIn
    <3> QED BY <1>2, <2>1, <3>1, EntryIs
  <2>3. o.refs = held[x] + 1 /\ held[x] \in Nat /\ o.refs > 0
    BY <1>1, <2>2 DEF SoundBut, EntrySound, Counts
  <2>4. /\ r \in Shapes /\ r.lru = Without(c.lru, x) /\ r.inUse = c.inUse \ {x}
        /\ r.ent = c.ent /\ r.table = c.table /\ r.usage = c.usage
    BY <1>1, <2>2, LRURemoveIs
  <2>5. /\ h \in LRUHandle /\ h.key = o.key /\ h.charge = o.charge
        /\ h.refs = o.refs /\ h.inCache = FALSE
    BY <2>2, <2>3, HandleIs
  <2>6. [r EXCEPT !.ent[x].inCache = FALSE, !.usage = @ - c.ent[x].charge] = q
    <3> HIDE DEF r
    <3>1. [r EXCEPT !.ent[x].inCache = FALSE, !.usage = @ - c.ent[x].charge]
              = [[r EXCEPT !.ent = [r.ent EXCEPT ![x] = [r.ent[x] EXCEPT !.inCache = FALSE]]]
                     EXCEPT !.usage = r.usage - c.ent[x].charge]
      BY <2>2, <2>4 DEF Shapes, Heaps
    <3> QED BY <2>4, <3>1
  <2>7. d = Unref(q, x) BY <1>4, <2>6 DEF FinishErase
  <2> HIDE DEF r, h, d
  <2>8. /\ p \in Shapes /\ p.ent[x] = h /\ \A a \in Slots : a # x => p.ent[a] = c.ent[a]
        /\ p.lru = r.lru /\ p.inUse = r.inUse /\ p.table = r.table /\ p.usage = r.usage
    BY <2>2, <2>4, <2>5, EntIs
  <2>9. u \in Int BY <1>2, <2>2
  <2> HIDE DEF p, u
  <2>10. /\ q \in Shapes /\ q.usage = u
         /\ q.ent = p.ent /\ q.lru = p.lru /\ q.inUse = p.inUse /\ q.table = p.table
    BY <2>8, <2>9 DEF Shapes
  <2> HIDE DEF q
  <2>11. Once(Without(c.lru, x)) /\ On(Without(c.lru, x)) = On(c.lru) \ {x}
    BY <1>1, <1>2, WithoutIs
  <2>12. /\ q.lru = Without(c.lru, x) /\ q.inUse = c.inUse \ {x} /\ q.table = c.table
         /\ Once(q.lru) /\ q.ent[x] = h
         /\ \A a \in Slots : a # x => q.ent[a] = c.ent[a]
    BY <2>4, <2>8, <2>10, <2>11
  <2>13. h # Null /\ h.refs > 0 /\ ~h.inCache BY <2>3, <2>5, NotNull
  <2>14. /\ d \in Shapes /\ d.table = q.table /\ d.usage = q.usage
         /\ \A a \in Slots : a # x => d.ent[a] = q.ent[a]
         /\ h.refs = 1 => d.ent[x] = Null /\ d.lru = q.lru /\ d.inUse = q.inUse
         /\ h.refs # 1 =>
                /\ d.ent[x] \in LRUHandle /\ d.ent[x] # Null
                /\ d.ent[x].key = h.key /\ d.ent[x].charge = h.charge
                /\ d.ent[x].refs = h.refs - 1 /\ d.ent[x].inCache = h.inCache
                /\ IF h.inCache /\ h.refs = 2
                   THEN d.lru = Append(Without(q.lru, x), x) /\ d.inUse = q.inUse \ {x}
                   ELSE d.lru = q.lru /\ d.inUse = q.inUse
    <3>1. q.ent[x] # Null /\ q.ent[x].refs > 0 BY <2>12, <2>13
    <3>2. /\ d \in Shapes /\ d.table = q.table /\ d.usage = q.usage
          /\ \A a \in Slots : a # x => d.ent[a] = q.ent[a]
          /\ q.ent[x].refs = 1 => d.ent[x] = Null /\ d.lru = q.lru /\ d.inUse = q.inUse
          /\ q.ent[x].refs # 1 =>
                 /\ d.ent[x] \in LRUHandle /\ d.ent[x] # Null
                 /\ d.ent[x].key = q.ent[x].key /\ d.ent[x].charge = q.ent[x].charge
                 /\ d.ent[x].refs = q.ent[x].refs - 1 /\ d.ent[x].inCache = q.ent[x].inCache
                 /\ IF q.ent[x].inCache /\ q.ent[x].refs = 2
                    THEN d.lru = Append(Without(q.lru, x), x) /\ d.inUse = q.inUse \ {x}
                    ELSE d.lru = q.lru /\ d.inUse = q.inUse
      BY <2>2, <2>7, <2>10, <2>12, <3>1, UnrefIs
    <3> QED BY <2>12, <3>2
  <2>15. d.lru = Without(c.lru, x) /\ d.inUse = c.inUse \ {x} BY <2>12, <2>13, <2>14
  <2>16. d.ent \in Heaps BY <2>14, ShapeIs
  <2>17. x \notin CachedIn(d.ent)
    <3>1. CASE h.refs = 1 BY <2>2, <2>14, <2>16, <3>1, EntryIs
    <3>2. CASE h.refs # 1
      <4>1. ~d.ent[x].inCache BY <2>13, <2>14, <3>2
      <4> QED BY <2>2, <2>16, <4>1, EntryIs
    <3> QED BY <3>1, <3>2
  <2>18. \A a \in Slots : a # x => d.ent[a] = c.ent[a] BY <2>12, <2>14
  <2>19. Touches(c, held, d, held, x)
    <3>1. EntrySound(d, held, x)
      <4>1. CASE h.refs = 1
        <5>1. held[x] = 0 /\ d.ent[x] = Null BY <2>3, <2>5, <2>14, <4>1
        <5> QED BY <5>1 DEF EntrySound
      <4>2. CASE h.refs # 1
        <5>1. d.ent[x] # Null /\ d.ent[x].refs = held[x] + 0 /\ d.ent[x].refs > 0
          BY <2>3, <2>5, <2>14, <4>2
        <5>2. (IF d.ent[x].inCache THEN 1 ELSE 0) = 0 BY <2>13, <2>14, <4>2
        <5> QED BY <5>1, <5>2 DEF EntrySound
      <4> QED BY <4>1, <4>2
    <3>2. Weight(c.ent, x) = o.charge /\ Weight(d.ent, x) = 0 BY <2>1, <2>17 DEF Weight
    <3>3. d.usage = (c.usage - Weight(c.ent, x)) + Weight(d.ent, x)
      <4>1. d.usage = c.usage - o.charge BY <2>10, <2>14 DEF u
      <4> QED BY <1>2, <2>2, <3>2, <4>1
    <3> QED BY <1>1, <2>11, <2>14, <2>15, <2>17, <2>18, <3>1, <3>3 DEF Touches
  <2>20. CachedIn(d.ent) \ {x} = CachedIn(c.ent) \ {x} BY <2>18 DEF CachedIn, FreeIn
  <2>21. TableSound(d, Null)
    <3>1. CachedIn(d.ent) \ {Null} = CachedIn(c.ent) \ {x}
      <4>1. Null \notin CachedIn(d.ent) BY NotNull DEF CachedIn
      <4> QED BY <2>17, <2>20, <4>1
    <3>2. \A a \in CachedIn(d.ent) \ {Null} : d.ent[a].key = c.ent[a].key
      <4>1. \A a \in CachedIn(d.ent) : a \in Slots BY DEF CachedIn
      <4>2. \A a \in CachedIn(d.ent) : a # x BY <2>17
      <4> QED BY <2>18, <4>1, <4>2
    <3>3. TableSound(c, x) /\ d.table = c.table BY <2>12, <2>14 DEF SoundBut
    <3> QED BY <3>1, <3>2, <3>3, SameTable
  <2>22. Sound(d, held) BY <2>2, <2>19, <2>21, SoundAfter DEF Sound
  <2>23. Keeps(c, d, held)
    <3> SUFFICES ASSUME NEW a \in Slots, held[a] > 0
                 PROVE  d.ent[a] # Null /\ d.ent[a].key = c.ent[a].key
      BY DEF Keeps
    <3>1. held[a] # 0 BY <1>1 DEF Counts
    <3>2. d.ent[a] # Null BY <2>22, <3>1 DEF Sound, SoundBut, EntrySound
    <3>3. CASE a # x BY <2>18, <3>2, <3>3
    <3>4. CASE a = x
      <4>1. h.refs # 1 BY <2>14, <3>2, <3>4
      <4> QED BY <2>5, <2>14, <3>2, <3>4, <4>1
    <3> QED BY <3>3, <3>4
  <2> QED BY <2>12, <2>14, <2>15, <2>22, <2>23 DEF d
<1> QED BY <1>3, <1>4

\* Erase takes a key out of the table and its entry out of the cache.
LEMMA EraseKeySound ==
    ASSUME NEW c, NEW held, Sound(c, held), NEW k \in CacheKeys
    PROVE  LET d == EraseKey(c, k)
           IN  /\ Sound(d, held) /\ Keeps(c, d, held)
               /\ c.table[k] # Null => d.lru = Without(c.lru, c.table[k])
<1> DEFINE x == c.table[k]
           table == [c.table EXCEPT ![k] = Null]
           q == [c EXCEPT !.table = table]
<1>1. c \in Shapes /\ c.table \in [CacheKeys -> Slots \cup {Null}] /\ c.ent \in Heaps
  BY ShapeIs DEF Sound, SoundBut
<1>2. table \in [CacheKeys -> Slots \cup {Null}] /\ table[k] = Null
      /\ \A j \in CacheKeys : j # k => table[j] = c.table[j]
  BY <1>1
<1>3. [c EXCEPT !.table[k] = Null] = q BY <1>1 DEF Shapes
<1> HIDE DEF table
<1>4. /\ q \in Shapes /\ q.table = table /\ q.ent = c.ent /\ q.lru = c.lru
      /\ q.inUse = c.inUse /\ q.usage = c.usage
  BY <1>1, <1>2 DEF Shapes
<1> HIDE DEF q
<1>5. TableSound(c, Null) BY DEF Sound, SoundBut
<1>6. Null \notin CachedIn(c.ent) BY NotNull DEF CachedIn
<1>7. TableSound(q, x)
  <2>1. ASSUME NEW e \in CachedIn(c.ent) \ {x} PROVE table[c.ent[e].key] = e
    <3>1. e \in Slots BY DEF CachedIn
    <3>2. c.ent[e] # Null /\ c.ent[e].key \in CacheKeys BY <1>1, <3>1, EntryIs
    <3>3. c.table[c.ent[e].key] = e BY <1>5, <1>6 DEF TableSound
    <3> QED BY <1>2, <3>2, <3>3
  <2>2. ASSUME NEW j \in CacheKeys, table[j] # Null
        PROVE  table[j] \in CachedIn(c.ent) \ {x} /\ c.ent[table[j]].key = j
    <3>1. j # k /\ table[j] = c.table[j] BY <1>2, <2>2
    <3>2. c.table[j] \in CachedIn(c.ent) /\ c.ent[c.table[j]].key = j
      BY <1>5, <2>2, <3>1 DEF TableSound
    <3>3. x # Null => c.ent[x].key = k BY <1>5 DEF TableSound
    <3>4. c.table[j] # x BY <2>2, <3>1, <3>2, <3>3
    <3> QED BY <3>1, <3>2, <3>4
  <2> QED BY <1>4, <2>1, <2>2 DEF TableSound
<1>8. SoundBut(q, held, x)
  <2>1. x = Null \/ x \in CachedIn(q.ent) BY <1>4, <1>5 DEF TableSound
  <2>2. \A e \in Slots : EntrySound(q, held, e) BY <1>4 DEF Sound, SoundBut, EntrySound
  <2>3. ListsSound(q, held) BY <1>4 DEF Sound, SoundBut, ListsSound
  <2> QED BY <1>4, <1>7, <2>1, <2>2, <2>3 DEF Sound, SoundBut
<1>9. EraseKey(c, k) = FinishErase(q, x) BY <1>3 DEF EraseKey
<1> DEFINE d == FinishErase(q, x)
<1>10. /\ Sound(d, held) /\ Keeps(q, d, held)
       /\ x # Null => d.lru = Without(q.lru, x)
  BY <1>8, FinishEraseSound
<1> HIDE DEF d
<1>11. Keeps(c, d, held) BY <1>4, <1>10 DEF Keeps
<1> QED BY <1>4, <1>9, <1>10, <1>11 DEF d

StepOf(d) == EraseKey(d, d.ent[Head(d.lru)].key)

Turns(f, c, m) == f = [n \in 0 .. m |-> IF n = 0 THEN c ELSE StepOf(f[n - 1])]

\* The turns of the loop make a function.
LEMMA TurnsExist ==
    ASSUME NEW c, NEW m \in Nat
    PROVE  \E f : Turns(f, c, m)
<1> DEFINE S == {n \in Nat : \E f : Turns(f, c, n)}
<1>1. 0 \in S
  <2> DEFINE g == [e \in 0 .. 0 |-> c]
  <2>1. Turns(g, c, 0)
    <3>1. \A e \in 0 .. 0 : e = 0 OBVIOUS
    <3> QED BY <3>1 DEF Turns
  <2> QED BY <2>1
<1>2. ASSUME NEW n \in Nat, n \in S PROVE n + 1 \in S
  <2>1. PICK f : Turns(f, c, n) BY <1>2
  <2> DEFINE g == [e \in 0 .. n + 1 |-> IF e = n + 1 THEN StepOf(f[n]) ELSE f[e]]
             h == [e \in 0 .. n + 1 |-> IF e = 0 THEN c ELSE StepOf(g[e - 1])]
  <2>2. ASSUME NEW e \in 0 .. n + 1 PROVE g[e] = h[e]
    <3>1. CASE e = n + 1
      <4>1. n \in 0 .. n + 1 /\ n # n + 1 /\ (n + 1) - 1 = n /\ n + 1 # 0 OBVIOUS
      <4> QED BY <3>1, <4>1
    <3>2. CASE e # n + 1
      <4>1. e \in 0 .. n BY <3>2
      <4>2. f[e] = IF e = 0 THEN c ELSE StepOf(f[e - 1])
        <5> DEFINE body(i) == IF i = 0 THEN c ELSE StepOf(f[i - 1])
        <5>1. f = [i \in 0 .. n |-> body(i)] BY <2>1 DEF Turns
        <5> HIDE DEF body
        <5>2. f[e] = body(e) BY <4>1, <5>1
        <5> QED BY <5>2 DEF body
      <4>3. e # 0 => e - 1 \in 0 .. n + 1 /\ e - 1 # n + 1 BY <4>1
      <4> QED BY <3>2, <4>2, <4>3
    <3> QED BY <3>1, <3>2
  <2>3. g = h
    <3> HIDE DEF h
    <3>1. h = [e \in 0 .. n + 1 |-> h[e]] BY DEF h
    <3>2. g = [e \in 0 .. n + 1 |-> g[e]] OBVIOUS
    <3> HIDE DEF g
    <3> QED BY <2>2, <3>1, <3>2
  <2>4. Turns(g, c, n + 1)
    <3> HIDE DEF g
    <3> QED BY <2>3 DEF Turns
  <2> HIDE DEF g
  <2> QED BY <2>4
<1> HIDE DEF S
<1>3. m \in S BY <1>1, <1>2, Induction
<1> QED BY <1>3 DEF S

\* After each turn the cache is sound and lru_ is one shorter.
LEMMA EvictionsSound ==
    ASSUME NEW c, NEW held, Sound(c, held), NEW n \in 0 .. Len(c.lru)
    PROVE  LET d == Evictions(c)[n]
           IN  Sound(d, held) /\ Keeps(c, d, held) /\ Len(d.lru) = Len(c.lru) - n
<1>1. c \in Shapes /\ c.lru \in Seq(Slots) /\ Len(c.lru) \in Nat
  <2>1. c \in Shapes BY DEF Sound, SoundBut
  <2> QED BY <2>1, ShapeIs
<1> DEFINE f == CHOOSE g : Turns(g, c, Len(c.lru))
<1>2. Turns(f, c, Len(c.lru)) BY <1>1, TurnsExist
<1>3. Evictions(c) = f BY DEF Evictions, Turns, StepOf
<1> HIDE DEF f
<1>4. /\ f[0] = c
      /\ \A i \in Nat : i + 1 <= Len(c.lru) => f[i + 1] = StepOf(f[i])
  <2> DEFINE body(e) == IF e = 0 THEN c ELSE StepOf(f[e - 1])
  <2>1. f = [e \in 0 .. Len(c.lru) |-> body(e)] BY <1>2 DEF Turns
  <2>2. \A e \in 0 .. Len(c.lru) : f[e] = body(e)
    <3> HIDE DEF body
    <3> QED BY <2>1
  <2>3. f[0] = c BY <1>1, <2>2
  <2>4. ASSUME NEW i \in Nat, i + 1 <= Len(c.lru) PROVE f[i + 1] = StepOf(f[i])
    <3>1. i + 1 \in 0 .. Len(c.lru) /\ i + 1 # 0 /\ (i + 1) - 1 = i BY <1>1, <2>4
    <3>2. f[i + 1] = body(i + 1) BY <2>2, <3>1
    <3> QED BY <3>1, <3>2
  <2> QED BY <2>3, <2>4
<1> DEFINE Good(i) == Sound(f[i], held) /\ Keeps(c, f[i], held) /\ Len(f[i].lru) = Len(c.lru) - i
           S == {i \in Nat : i <= Len(c.lru) => Good(i)}
<1>5. 0 \in S
  <2>1. held \in Counts BY DEF Sound, SoundBut
  <2>2. \A a \in Slots : held[a] > 0 => held[a] # 0 BY <2>1 DEF Counts
  <2>3. Keeps(c, c, held) BY <2>2 DEF Keeps, Sound, SoundBut, EntrySound
  <2> QED BY <1>1, <1>4, <2>3
<1>6. ASSUME NEW i \in Nat, i \in S PROVE i + 1 \in S
  <2> SUFFICES ASSUME i + 1 <= Len(c.lru) PROVE Good(i + 1) OBVIOUS
  <2> DEFINE d == f[i]
             e == Head(d.lru)
             k == d.ent[e].key
  <2>1. Sound(d, held) /\ Keeps(c, d, held) /\ Len(d.lru) = Len(c.lru) - i BY <1>1, <1>6
  <2> HIDE DEF Good, S
  <2>2. f[i + 1] = EraseKey(d, k) BY <1>4 DEF StepOf
  <2> HIDE DEF d
  <2>3. d \in Shapes /\ d.lru \in Seq(Slots) /\ d.ent \in Heaps /\ Once(d.lru)
    <3>1. d \in Shapes /\ Once(d.lru) BY <2>1 DEF Sound, SoundBut, ListsSound
    <3> QED BY <3>1, ShapeIs
  <2>4. Len(d.lru) > 0 /\ 1 \in DOMAIN d.lru /\ e = d.lru[1] BY <1>1, <2>1, <2>3
  <2>5. e \in On(d.lru) BY <2>4 DEF On
  <2>6. e \in CachedIn(d.ent) /\ e \in Slots
    <3>1. On(d.lru) = {a \in CachedIn(d.ent) : held[a] = 0} BY <2>1 DEF Sound, SoundBut, ListsSound
    <3> QED BY <2>5, <3>1 DEF CachedIn
  <2> HIDE DEF e
  <2>7. k \in CacheKeys /\ d.table[k] = e /\ e # Null
    <3>1. d.ent[e] # Null BY <2>3, <2>6, EntryIs
    <3>2. k \in CacheKeys BY <2>3, <2>6, <3>1, EntryIs
    <3>3. e # Null BY <2>6, NotNull
    <3>4. TableSound(d, Null) BY <2>1 DEF Sound, SoundBut
    <3>5. d.table[k] = e BY <2>6, <3>3, <3>4 DEF TableSound
    <3> QED BY <3>2, <3>3, <3>5
  <2> HIDE DEF k
  <2>8. /\ Sound(EraseKey(d, k), held) /\ Keeps(d, EraseKey(d, k), held)
        /\ d.table[k] # Null => EraseKey(d, k).lru = Without(d.lru, d.table[k])
    BY <2>1, <2>7, EraseKeySound
  <2>9. Len(Without(d.lru, e)) = Len(d.lru) - 1 BY <2>3, <2>5, WithoutIs
  <2>10. Len(f[i + 1].lru) = Len(c.lru) - (i + 1) BY <1>1, <2>1, <2>2, <2>7, <2>8, <2>9
  <2>11. Keeps(c, f[i + 1], held) BY <2>1, <2>2, <2>8 DEF Keeps
  <2> QED BY <2>2, <2>8, <2>10, <2>11 DEF Good
<1> HIDE DEF Good, S
<1>7. n \in S BY <1>1, <1>5, <1>6, Induction
<1>8. n <= Len(c.lru) BY <1>1
<1> QED BY <1>3, <1>7, <1>8 DEF Good, S

\* Insert's loop stops, at a sound cache.
LEMMA EvictWhileFullSound ==
    ASSUME NEW c, NEW held, Sound(c, held)
    PROVE  Sound(EvictWhileFull(c), held) /\ Keeps(c, EvictWhileFull(c), held)
<1> DEFINE after == Evictions(c)
           Enough(n) == after[n].usage <= Capacity \/ after[n].lru = <<>>
           P(n) == Enough(n) /\ \A m \in 0 .. n - 1 : ~Enough(m)
           S == {n \in 0 .. Len(c.lru) : Enough(n)}
<1>1. Len(c.lru) \in Nat
  <2>1. c \in Shapes BY DEF Sound, SoundBut
  <2>2. c.lru \in Seq(Slots) BY <2>1, ShapeIs
  <2> QED BY <2>2
<1>2. EvictWhileFull(c) = after[CHOOSE n \in 0 .. Len(c.lru) : P(n)] BY DEF EvictWhileFull
<1>3. \A n \in 0 .. Len(c.lru) :
          Sound(after[n], held) /\ Keeps(c, after[n], held) /\ Len(after[n].lru) = Len(c.lru) - n
  BY EvictionsSound
<1> HIDE DEF after
<1>4. Len(c.lru) \in S
  <2> DEFINE d == after[Len(c.lru)]
  <2>1. Len(c.lru) \in 0 .. Len(c.lru) BY <1>1
  <2>2. Sound(d, held) /\ Len(d.lru) = 0 BY <1>1, <1>3, <2>1
  <2> HIDE DEF d
  <2>3. d \in Shapes BY <2>2 DEF Sound, SoundBut
  <2>4. d.lru \in Seq(Slots) BY <2>3, ShapeIs
  <2>5. d.lru = <<>> BY <2>2, <2>4
  <2> QED BY <2>1, <2>5 DEF d
<1>5. PICK n \in S : \A m \in S : n <= m
  <2>1. S \subseteq Nat /\ S # {} BY <1>4
  <2> HIDE DEF S
  <2> QED BY <2>1, LeastNumber
<1>6. n \in 0 .. Len(c.lru) /\ P(n)
  <2>1. n \in 0 .. Len(c.lru) /\ Enough(n) OBVIOUS
  <2>2. ASSUME NEW m \in 0 .. n - 1 PROVE ~Enough(m)
    <3>1. m \in 0 .. Len(c.lru) /\ ~(n <= m) BY <1>1, <2>1
    <3>2. m \notin S BY <1>5, <3>1
    <3> HIDE DEF Enough
    <3> QED BY <3>1, <3>2
  <2> QED BY <2>1, <2>2
<1> HIDE DEF P
<1>7. (CHOOSE i \in 0 .. Len(c.lru) : P(i)) \in 0 .. Len(c.lru) BY <1>6
<1> QED BY <1>2, <1>3, <1>7

\* A new entry comes in, takes the place of the one its key had, and pushes others out.
LEMMA InsertedSound ==
    ASSUME NEW c, NEW held, Sound(c, held), NEW e \in Slots, c.ent[e] = Null,
           NEW k \in CacheKeys, NEW ch \in Nat
    PROVE  LET d == Inserted(c, e, k, ch)
           IN  /\ Sound(d, [held EXCEPT ![e] = @ + 1]) /\ Keeps(c, d, held)
               /\ d.ent[e].key = k
<1>1. c \in Shapes /\ held \in Counts /\ Once(c.lru) BY DEF Sound, SoundBut, ListsSound
<1>2. /\ c.ent \in Heaps /\ c.lru \in Seq(Slots) /\ c.usage \in Int /\ c.inUse \subseteq Slots
      /\ c.table \in [CacheKeys -> Slots \cup {Null}]
  BY <1>1, ShapeIs
<1>3. held[e] = 0 BY DEF Sound, SoundBut, EntrySound
<1> DEFINE more == [held EXCEPT ![e] = held[e] + 1]
           h == [key |-> k, charge |-> ch, refs |-> 1, inCache |-> FALSE]
           g == [key |-> k, charge |-> ch, refs |-> 2, inCache |-> TRUE]
           x == c.table[k]
           alone == [c EXCEPT !.ent = [c.ent EXCEPT ![e] = h]]
           b == [c EXCEPT !.ent = [c.ent EXCEPT ![e] = g]]
           inside == c.inUse \cup {e}
           u == c.usage + ch
           table == [c.table EXCEPT ![k] = e]
           cached == [b EXCEPT !.inUse = inside, !.usage = u, !.table = table]
           w == IF Capacity > 0 THEN FinishErase(cached, x) ELSE alone
<1>4. [held EXCEPT ![e] = @ + 1] = more OBVIOUS
<1>5. more \in Counts /\ more[e] = 1 /\ \A a \in Slots : a # e => more[a] = held[a]
  BY <1>1, <1>3 DEF Counts
<1>6. \A a \in Slots : held[a] \in Nat /\ (held[a] > 0 => a # e /\ more[a] > 0 /\ c.ent[a] # Null)
  BY <1>1, <1>3, <1>5 DEF Counts, Sound, SoundBut, EntrySound
<1> HIDE DEF more
<1>7. /\ h \in LRUHandle /\ h.key = k /\ h.charge = ch /\ h.refs = 1 /\ h.inCache = FALSE /\ h # Null
      /\ g \in LRUHandle /\ g.key = k /\ g.charge = ch /\ g.refs = 2 /\ g.inCache = TRUE /\ g # Null
  <2>1. h \in LRUHandle /\ g \in LRUHandle BY DEF LRUHandle
  <2> QED BY <2>1, NotNull
<1>8. /\ [c EXCEPT !.ent[e] = h] = alone
      /\ [c EXCEPT !.ent[e] = g, !.inUse = @ \cup {e}, !.usage = @ + ch, !.table[k] = e] = cached
  <2> HIDE DEF h, g
  <2> QED BY <1>1 DEF Shapes
<1>9. Inserted(c, e, k, ch) = EvictWhileFull(w) BY <1>8 DEF Inserted
<1> HIDE DEF h, g
<1>10. /\ alone \in Shapes /\ alone.ent[e] = h
       /\ \A a \in Slots : a # e => alone.ent[a] = c.ent[a]
       /\ alone.lru = c.lru /\ alone.inUse = c.inUse /\ alone.table = c.table
       /\ alone.usage = c.usage
  BY <1>1, <1>7, EntIs
<1>11. /\ b \in Shapes /\ b.ent[e] = g
       /\ \A a \in Slots : a # e => b.ent[a] = c.ent[a]
       /\ b.lru = c.lru /\ b.inUse = c.inUse /\ b.table = c.table /\ b.usage = c.usage
  BY <1>1, <1>7, EntIs
<1>12. /\ inside \in SUBSET Slots /\ u \in Int /\ table \in [CacheKeys -> Slots \cup {Null}]
       /\ table[k] = e /\ \A j \in CacheKeys : j # k => table[j] = c.table[j]
  BY <1>2
<1> HIDE DEF alone, b, u, table, inside
<1>13. /\ cached \in Shapes /\ cached.ent = b.ent /\ cached.lru = b.lru
       /\ cached.inUse = inside /\ cached.usage = u /\ cached.table = table
  BY <1>11, <1>12 DEF Shapes
<1> HIDE DEF cached
<1>14. e \notin CachedIn(c.ent) /\ e # Null /\ Null \notin CachedIn(c.ent) BY NotNull DEF CachedIn, FreeIn
<1>15. Weight(c.ent, e) = 0 BY <1>14 DEF Weight
<1>16. /\ e \notin On(c.lru) /\ e \notin c.inUse
  BY <1>14 DEF Sound, SoundBut, ListsSound
<1>17. TableSound(c, Null) BY DEF Sound, SoundBut
<1>18. CASE Capacity > 0
  <2>1. cached.ent \in Heaps /\ cached.ent[e] = g
        /\ \A a \in Slots : a # e => cached.ent[a] = c.ent[a]
    BY <1>11, <1>13, ShapeIs
  <2>2. CachedIn(cached.ent) = CachedIn(c.ent) \cup {e}
    <3>1. CachedIn(cached.ent) \ {e} = CachedIn(c.ent) \ {e} BY <2>1 DEF CachedIn, FreeIn
    <3>2. e \in CachedIn(cached.ent) BY <1>7, <2>1, EntryIs
    <3> QED BY <1>14, <3>1, <3>2
  <2>3. Touches(c, held, cached, more, e)
    <3>1. EntrySound(cached, more, e)
      <4>1. cached.ent[e] # Null /\ cached.ent[e].refs = more[e] + 1 /\ cached.ent[e].refs > 0
        BY <1>5, <1>7, <2>1
      <4>2. (IF cached.ent[e].inCache THEN 1 ELSE 0) = 1 BY <1>7, <2>1
      <4> QED BY <4>1, <4>2 DEF EntrySound
    <3>2. Weight(cached.ent, e) = ch BY <1>7, <2>1, <2>2 DEF Weight
    <3>3. cached.usage = (c.usage - Weight(c.ent, e)) + Weight(cached.ent, e)
      BY <1>2, <1>13, <1>15, <3>2 DEF u
    <3>4. /\ cached.inUse = (c.inUse \ {e}) \cup {e} /\ On(cached.lru) = On(c.lru) \ {e}
          /\ Once(cached.lru)
      BY <1>1, <1>11, <1>13, <1>16 DEF inside
    <3>5. more[e] > 0 /\ more[e] # 0 BY <1>5
    <3> QED BY <1>5, <1>13, <2>1, <2>2, <3>1, <3>3, <3>4, <3>5 DEF Touches
  <2>4. x # Null => x \in CachedIn(c.ent) /\ c.ent[x].key = k BY <1>17 DEF TableSound
  <2>5. x # e BY <1>14, <2>4
  <2>6. TableSound(cached, x)
    <3>1. ASSUME NEW a \in CachedIn(cached.ent) \ {x} PROVE table[cached.ent[a].key] = a
      <4>1. CASE a = e BY <1>7, <1>12, <2>1, <4>1
      <4>2. CASE a # e
        <5>1. a \in CachedIn(c.ent) /\ a \in Slots BY <2>2, <4>2 DEF CachedIn
        <5>2. c.ent[a] # Null /\ c.ent[a].key \in CacheKeys BY <1>2, <5>1, EntryIs
        <5>3. c.table[c.ent[a].key] = a BY <1>14, <1>17, <5>1 DEF TableSound
        <5>4. c.ent[a].key # k BY <5>3
        <5> QED BY <1>12, <2>1, <4>2, <5>1, <5>2, <5>3, <5>4
      <4> QED BY <4>1, <4>2
    <3>2. ASSUME NEW j \in CacheKeys, table[j] # Null
          PROVE  table[j] \in CachedIn(cached.ent) \ {x} /\ cached.ent[table[j]].key = j
      <4>1. CASE j = k BY <1>7, <1>12, <2>1, <2>2, <2>5, <4>1
      <4>2. CASE j # k
        <5>1. table[j] = c.table[j] BY <1>12, <4>2
        <5>2. c.table[j] \in CachedIn(c.ent) /\ c.ent[c.table[j]].key = j
          BY <1>17, <3>2, <5>1 DEF TableSound
        <5>3. c.table[j] # x /\ c.table[j] # e BY <1>14, <2>4, <4>2, <5>2, <3>2, <5>1
        <5>4. c.table[j] \in Slots BY <5>2 DEF CachedIn
        <5> QED BY <2>1, <2>2, <5>1, <5>2, <5>3, <5>4
      <4> QED BY <4>1, <4>2
    <3> QED BY <1>13, <3>1, <3>2 DEF TableSound
  <2>7. SoundBut(c, held, Null) BY DEF Sound
  <2>8. x = Null \/ x \in CachedIn(cached.ent) BY <2>2, <2>4
  <2>9. SoundBut(cached, more, x) BY <2>3, <2>6, <2>7, <2>8, SoundAfter
  <2> DEFINE d == FinishErase(cached, x)
             z == EvictWhileFull(d)
  <2>10. Sound(d, more) /\ Keeps(cached, d, more) BY <2>9, FinishEraseSound
  <2> HIDE DEF d
  <2>11. Sound(z, more) /\ Keeps(d, z, more) BY <2>10, EvictWhileFullSound
  <2>12. Inserted(c, e, k, ch) = z BY <1>9, <1>18 DEF d
  <2> HIDE DEF z
  <2>13. \A a \in Slots : more[a] > 0 => z.ent[a] # Null /\ z.ent[a].key = cached.ent[a].key
    BY <2>10, <2>11 DEF Keeps
  <2>14. Keeps(c, z, held) BY <1>6, <2>1, <2>13 DEF Keeps
  <2>15. z.ent[e].key = k
    <3>1. more[e] > 0 BY <1>5
    <3> QED BY <1>7, <2>1, <2>13, <3>1
  <2> QED BY <1>4, <2>11, <2>12, <2>14, <2>15
<1>19. CASE ~(Capacity > 0)
  <2>1. alone.ent \in Heaps BY <1>10, ShapeIs
  <2>2. CachedIn(alone.ent) = CachedIn(c.ent)
    <3>1. CachedIn(alone.ent) \ {e} = CachedIn(c.ent) \ {e} BY <1>10 DEF CachedIn, FreeIn
    <3>2. e \notin CachedIn(alone.ent)
      <4>1. ~alone.ent[e].inCache BY <1>7, <1>10
      <4> QED BY <2>1, <4>1, EntryIs
    <3> QED BY <1>14, <3>1, <3>2
  <2>3. Touches(c, held, alone, more, e)
    <3>1. EntrySound(alone, more, e)
      <4>1. alone.ent[e] # Null /\ alone.ent[e].refs = more[e] + 0 /\ alone.ent[e].refs > 0
        BY <1>5, <1>7, <1>10
      <4>2. (IF alone.ent[e].inCache THEN 1 ELSE 0) = 0 BY <1>7, <1>10
      <4> QED BY <4>1, <4>2 DEF EntrySound
    <3>2. Weight(alone.ent, e) = 0 BY <1>14, <2>2 DEF Weight
    <3>3. alone.usage = (c.usage - Weight(c.ent, e)) + Weight(alone.ent, e)
      BY <1>2, <1>10, <1>15, <3>2
    <3>4. alone.inUse = c.inUse \ {e} /\ On(alone.lru) = On(c.lru) \ {e} /\ Once(alone.lru)
      BY <1>1, <1>10, <1>16
    <3> QED BY <1>5, <1>10, <1>14, <2>2, <3>1, <3>3, <3>4 DEF Touches
  <2>4. TableSound(alone, Null)
    <3>1. \A a \in CachedIn(alone.ent) \ {Null} : alone.ent[a].key = c.ent[a].key
      <4>1. \A a \in CachedIn(c.ent) : a \in Slots BY DEF CachedIn
      <4> QED BY <1>10, <1>14, <2>2, <4>1
    <3> QED BY <1>10, <1>17, <2>2, <3>1, SameTable
  <2>5. Sound(alone, more) BY <2>3, <2>4, SoundAfter DEF Sound
  <2> DEFINE z == EvictWhileFull(alone)
  <2>6. Sound(z, more) /\ Keeps(alone, z, more) BY <2>5, EvictWhileFullSound
  <2>7. Inserted(c, e, k, ch) = z BY <1>9, <1>19
  <2> HIDE DEF z
  <2>8. Keeps(c, z, held) BY <1>6, <1>10, <2>6 DEF Keeps
  <2>9. z.ent[e].key = k
    <3>1. more[e] > 0 BY <1>5
    <3> QED BY <1>7, <1>10, <2>6, <3>1 DEF Keeps
  <2> QED BY <1>4, <2>6, <2>7, <2>8, <2>9
<1> QED BY <1>18, <1>19
-----------------------------------------------------------------------------
(* The threads. *)

Reading == [at : {"reading"}, key : CacheKeys, handle : {Null}]
Using   == [at : {"using"}, key : CacheKeys, handle : Slots]

HolderTypeOK == holder \in [Threads -> {Idling} \cup Reading \cup Using]

HoldersIn(h, e) == {t \in Threads : h[t].handle = e}

\* How many threads of h hold each entry.
HeldBy(h) == [e \in Slots |-> Cardinality(HoldersIn(h, e))]

\* The inductive invariant: the cache is sound for the handles the threads hold,
\* and each handle is of the key its thread looked up.
CacheInvariant ==
    /\ HolderTypeOK
    /\ Sound(Cache, HeldBy(holder))
    /\ \A t \in Threads : holder[t].at = "using" => ent[holder[t].handle].key = holder[t].key

\* A thread is idle, reads, or uses a handle.
LEMMA HolderIs ==
    ASSUME HolderTypeOK, NEW t \in Threads
    PROVE  /\ holder[t].at = "idle" => holder[t] = Idling /\ holder[t].handle = Null
           /\ holder[t].at = "reading" => holder[t].key \in CacheKeys /\ holder[t].handle = Null
           /\ holder[t].at = "using" => holder[t].key \in CacheKeys /\ holder[t].handle \in Slots
           /\ holder[t].at # "using" => holder[t].handle = Null
<1>1. holder[t] \in {Idling} \cup Reading \cup Using BY DEF HolderTypeOK
<1> QED BY <1>1 DEF Idling, Reading, Using

\* The threads are finitely many, those that hold an entry too.
LEMMA CountIs ==
    ASSUME NEW h, NEW e
    PROVE  IsFiniteSet(HoldersIn(h, e)) /\ Cardinality(HoldersIn(h, e)) \in Nat
<1>1. HoldersIn(h, e) \in SUBSET Threads BY DEF HoldersIn
<1>2. IsFiniteSet(HoldersIn(h, e)) BY <1>1, CacheAssumption, FS_Subset
<1> QED BY <1>2, FS_CardinalityType

\* A thread takes a handle, or gives its handle back, or neither.
LEMMA HeldChanges ==
    ASSUME NEW h, NEW t \in Threads, NEW g,
           \A s \in Threads : s # t => g[s] = h[s]
    PROVE  /\ HeldBy(h) \in Counts
           /\ h[t].handle = g[t].handle => HeldBy(g) = HeldBy(h)
           /\ h[t].handle = Null => \A e \in Slots : g[t].handle = e =>
                  HeldBy(g) = [HeldBy(h) EXCEPT ![e] = @ + 1]
           /\ g[t].handle = Null => \A e \in Slots : h[t].handle = e =>
                  HeldBy(h)[e] > 0 /\ HeldBy(g) = [HeldBy(h) EXCEPT ![e] = @ - 1]
<1>1. HeldBy(h) \in Counts BY CountIs DEF HeldBy, Counts
<1>2. h[t].handle = g[t].handle => HeldBy(g) = HeldBy(h)
  <2>1. h[t].handle = g[t].handle => \A e : HoldersIn(g, e) = HoldersIn(h, e) BY DEF HoldersIn
  <2> QED BY <2>1 DEF HeldBy
<1>3. ASSUME h[t].handle = Null, NEW e \in Slots, g[t].handle = e
      PROVE  HeldBy(g) = [HeldBy(h) EXCEPT ![e] = @ + 1]
  <2>1. e # Null BY NotNull
  <2>2. HoldersIn(g, e) = HoldersIn(h, e) \cup {t} /\ t \notin HoldersIn(h, e)
    BY <1>3, <2>1 DEF HoldersIn
  <2>3. Cardinality(HoldersIn(g, e)) = Cardinality(HoldersIn(h, e)) + 1
    BY <2>2, CountIs, FS_AddElement
  <2>4. \A a \in Slots : a # e => HoldersIn(g, a) = HoldersIn(h, a)
    BY <1>3, NotNull DEF HoldersIn
  <2> QED BY <2>3, <2>4 DEF HeldBy
<1>4. ASSUME g[t].handle = Null, NEW e \in Slots, h[t].handle = e
      PROVE  HeldBy(h)[e] > 0 /\ HeldBy(g) = [HeldBy(h) EXCEPT ![e] = @ - 1]
  <2>1. e # Null BY NotNull
  <2>2. HoldersIn(g, e) = HoldersIn(h, e) \ {t} /\ t \in HoldersIn(h, e)
    BY <1>4, <2>1 DEF HoldersIn
  <2>3. Cardinality(HoldersIn(g, e)) = Cardinality(HoldersIn(h, e)) - 1
    BY <2>2, CountIs, FS_RemoveElement
  <2>4. Cardinality(HoldersIn(g, e)) \in Nat /\ Cardinality(HoldersIn(h, e)) \in Nat BY CountIs
  <2>5. Cardinality(HoldersIn(h, e)) > 0 BY <2>3, <2>4
  <2>6. \A a \in Slots : a # e => HoldersIn(g, a) = HoldersIn(h, a)
    BY <1>4, NotNull DEF HoldersIn
  <2> QED BY <2>3, <2>5, <2>6 DEF HeldBy
<1> QED BY <1>1, <1>2, <1>3, <1>4

\* A thread that uses a handle holds it.
LEMMA UsingIsHeld ==
    ASSUME HolderTypeOK, NEW t \in Threads, holder[t].at = "using"
    PROVE  holder[t].handle \in Slots /\ HeldBy(holder)[holder[t].handle] > 0
<1> DEFINE e == holder[t].handle
<1>1. e \in Slots BY HolderIs
<1>2. t \in HoldersIn(holder, e) BY DEF HoldersIn
<1>3. Cardinality(HoldersIn(holder, e)) # 0 BY <1>2, CountIs, FS_EmptySet
<1>4. Cardinality(HoldersIn(holder, e)) > 0 BY <1>3, CountIs
<1> QED BY <1>1, <1>4 DEF HeldBy

\* What the cache becomes is the cache.
LEMMA BecomesIs ==
    ASSUME NEW c \in Shapes, Becomes(c)
    PROVE  Cache' = c
BY DEF Becomes, Cache, Shapes

\* The cache becomes d, sound for the handles held then; a thread keeps its handle,
\* one of those kept, or has one of its key.
StepsTo(d, held, kept) ==
    /\ Becomes(d) /\ Sound(d, held) /\ held = HeldBy(holder') /\ HolderTypeOK'
    /\ Keeps(Cache, d, kept)
    /\ \A t \in Threads : holder'[t].at = "using" =>
           \/ holder'[t] = holder[t] /\ kept[holder[t].handle] > 0
           \/ d.ent[holder'[t].handle].key = holder'[t].key

\* Such a step keeps the invariant.
LEMMA StepSound ==
    ASSUME CacheInvariant, NEW d, NEW held, NEW kept, StepsTo(d, held, kept)
    PROVE  CacheInvariant'
<1> USE DEF StepsTo
<1>1. d \in Shapes BY DEF Sound, SoundBut
<1>2. Cache' = d /\ ent' = d.ent BY <1>1, BecomesIs DEF Becomes
<1>3. Cache.ent = ent BY DEF Cache
<1>4. ASSUME NEW t \in Threads, holder'[t].at = "using"
      PROVE  ent'[holder'[t].handle].key = holder'[t].key
  <2>1. CASE d.ent[holder'[t].handle].key = holder'[t].key BY <1>2, <2>1
  <2>2. CASE holder'[t] = holder[t] /\ kept[holder[t].handle] > 0
    <3>1. holder[t].at = "using" BY <1>4, <2>2
    <3>2. holder[t].handle \in Slots BY <3>1, HolderIs DEF CacheInvariant
    <3>3. ent[holder[t].handle].key = holder[t].key BY <3>1 DEF CacheInvariant
    <3>4. d.ent[holder[t].handle].key = ent[holder[t].handle].key BY <1>3, <2>2, <3>2 DEF Keeps
    <3> QED BY <1>2, <2>2, <3>3, <3>4
  <2> QED BY <1>4, <2>1, <2>2
<1> QED BY <1>2, <1>4 DEF CacheInvariant

\* Initially nothing is cached and nobody holds anything.
LEMMA CacheInitially == CacheInit => CacheInvariant
<1> SUFFICES ASSUME CacheInit PROVE CacheInvariant OBVIOUS
<1>1. HolderTypeOK BY DEF CacheInit, HolderTypeOK
<1>2. \A t \in Threads : holder[t] = Idling /\ holder[t].handle = Null /\ holder[t].at = "idle"
  BY DEF CacheInit, Idling
<1>3. HeldBy(holder) = [e \in Slots |-> 0]
  <2>1. \A e \in Slots : HoldersIn(holder, e) = {} BY <1>2, NotNull DEF HoldersIn
  <2> QED BY <2>1, FS_EmptySet DEF HeldBy
<1>4. ent \in Heaps /\ \A e \in Slots : ent[e] = Null BY DEF CacheInit, Heaps
<1>5. CachedIn(ent) = {} BY <1>4 DEF CachedIn, FreeIn
<1>6. Cache.ent = ent /\ Cache.lru = <<>> /\ Cache.inUse = {} /\ Cache.usage = 0
      /\ Cache.table = [k \in CacheKeys |-> Null]
  BY DEF Cache, CacheInit
<1>7. Cache \in Shapes BY <1>4 DEF Cache, CacheInit, Shapes
<1>8. HeldBy(holder) \in Counts /\ \A e \in Slots : HeldBy(holder)[e] = 0 BY <1>3 DEF Counts
<1>9. \A e \in Slots : EntrySound(Cache, HeldBy(holder), e) BY <1>4, <1>6, <1>8 DEF EntrySound
<1>10. ListsSound(Cache, HeldBy(holder)) BY <1>5, <1>6 DEF ListsSound, On, Once
<1>11. TableSound(Cache, Null) BY <1>5, <1>6 DEF TableSound
<1>12. Cache.usage = ChargeOf(Cache.ent) BY <1>4, <1>6, EmptyCharge
<1>13. Sound(Cache, HeldBy(holder)) BY <1>7, <1>8, <1>9, <1>10, <1>11, <1>12 DEF Sound, SoundBut
<1>14. \A t \in Threads : holder[t].at # "using" BY <1>2
<1> QED BY <1>1, <1>13, <1>14 DEF CacheInvariant

\* malloc returns an address that is free, if there is one.
LEMMA MallocIs ==
    ASSUME FreeSlots # {}
    PROVE  Malloc \in Slots /\ ent[Malloc] = Null
<1>1. FreeSlots \subseteq Nat BY DEF FreeSlots, FreeIn, Slots
<1>2. \E e \in FreeSlots : \A f \in FreeSlots : e <= f
  <2> HIDE DEF FreeSlots
  <2> QED BY <1>1, LeastNumber
<1>3. Malloc \in FreeSlots
  <2> HIDE DEF FreeSlots
  <2> QED BY <1>2 DEF Malloc
<1> QED BY <1>3 DEF FreeSlots, FreeIn

\* Every step of a thread, and of the cache, keeps the invariant.
LEMMA CacheStep == CacheInvariant /\ [CacheNext]_cacheVars => CacheInvariant'
<1> SUFFICES ASSUME CacheInvariant, [CacheNext]_cacheVars PROVE CacheInvariant' OBVIOUS
<1> DEFINE held == HeldBy(holder)
<1>1. HolderTypeOK /\ Sound(Cache, held) BY DEF CacheInvariant
<1>2. Cache.ent = ent /\ Cache.table = hash /\ Cache.lru = lru BY DEF Cache
<1>3. /\ ent \in Heaps /\ hash \in [CacheKeys -> Slots \cup {Null}] /\ lru \in Seq(Slots)
      /\ Cache \in Shapes /\ held \in Counts
  <2>1. Cache \in Shapes /\ held \in Counts BY <1>1 DEF Sound, SoundBut
  <2> QED BY <1>2, <2>1, ShapeIs
<1> HIDE DEF held
<1>4. \A t \in Threads : holder[t].at = "using" => holder[t].handle \in Slots /\ held[holder[t].handle] > 0
  BY <1>1, UsingIsHeld DEF held
<1>5. ASSUME NEW t \in Threads, NEW k \in CacheKeys, LookUp(t, k) PROVE CacheInvariant'
  <2>1. holder[t] = Idling /\ holder[t].handle = Null BY <1>1, <1>5, HolderIs DEF LookUp
  <2>2. CASE hash[k] # Null
    <3> DEFINE e == hash[k]
               d == Ref(Cache, e)
               u == [at |-> "using", key |-> k, handle |-> e]
               more == [held EXCEPT ![e] = @ + 1]
    <3>1. e \in CachedIn(ent) /\ ent[e].key = k /\ e \in Slots
      <4>1. TableSound(Cache, Null) BY <1>1 DEF Sound, SoundBut
      <4>2. e \in CachedIn(ent) /\ ent[e].key = k BY <1>2, <2>2, <4>1 DEF TableSound
      <4> QED BY <4>2 DEF CachedIn
    <3>2. Becomes(d) /\ holder' = [holder EXCEPT ![t] = u] BY <1>5, <2>2 DEF LookUp
    <3> HIDE DEF e
    <3>3. Sound(d, more) /\ Keeps(Cache, d, held) /\ d.ent[e].key = ent[e].key
      BY <1>1, <1>2, <3>1, RefSound
    <3> HIDE DEF d
    <3>4. u \in Using /\ u.handle = e /\ u.key = k BY <3>1 DEF Using
    <3> HIDE DEF u
    <3>5. holder'[t] = u /\ \A s \in Threads : s # t => holder'[s] = holder[s]
      BY <1>1, <3>2 DEF HolderTypeOK
    <3>6. HolderTypeOK' BY <1>1, <3>2, <3>4 DEF HolderTypeOK
    <3>7. HeldBy(holder') = more BY <2>1, <3>1, <3>4, <3>5, HeldChanges DEF held
    <3> HIDE DEF more
    <3>8. \A s \in Threads : holder'[s].at = "using" =>
              \/ holder'[s] = holder[s] /\ held[holder[s].handle] > 0
              \/ d.ent[holder'[s].handle].key = holder'[s].key
      <4> TAKE s \in Threads
      <4>1. CASE s = t BY <3>1, <3>3, <3>4, <3>5, <4>1
      <4>2. CASE s # t BY <1>4, <3>5, <4>2
      <4> QED BY <4>1, <4>2
    <3>9. StepsTo(d, more, held) BY <3>2, <3>3, <3>6, <3>7, <3>8 DEF StepsTo
    <3> QED BY <3>9, StepSound
  <2>3. CASE hash[k] = Null
    <3> DEFINE u == [at |-> "reading", key |-> k, handle |-> Null]
    <3>1. /\ UNCHANGED <<ent, lru, inUse, hash, usage>>
          /\ holder' = [holder EXCEPT ![t] = u]
      BY <1>5, <2>3 DEF LookUp
    <3>2. u \in Reading /\ u.handle = Null /\ u.at = "reading" BY DEF Reading
    <3> HIDE DEF u
    <3>3. holder'[t] = u /\ \A s \in Threads : s # t => holder'[s] = holder[s]
      BY <1>1, <3>1 DEF HolderTypeOK
    <3>4. HolderTypeOK' BY <1>1, <3>1, <3>2 DEF HolderTypeOK
    <3>5. HeldBy(holder') = held BY <2>1, <3>2, <3>3, HeldChanges DEF held
    <3>6. Cache' = Cache BY <3>1 DEF Cache
    <3>7. \A s \in Threads : holder'[s].at = "using" => ent'[holder'[s].handle].key = holder'[s].key
      BY <3>1, <3>2, <3>3 DEF CacheInvariant
    <3> QED BY <1>1, <3>4, <3>5, <3>6, <3>7 DEF CacheInvariant
  <2> QED BY <2>2, <2>3
<1>6. ASSUME NEW t \in Threads, NEW ch \in Charges, InsertRead(t, ch) PROVE CacheInvariant'
  <2> DEFINE e == Malloc
             k == holder[t].key
             d == Inserted(Cache, e, k, ch)
             u == [[holder[t] EXCEPT !.at = "using"] EXCEPT !.handle = e]
             more == [held EXCEPT ![e] = @ + 1]
  <2>1. /\ holder[t].at = "reading" /\ FreeSlots # {} /\ Becomes(d)
        /\ holder' = [holder EXCEPT ![t].at = "using", ![t].handle = Malloc]
    BY <1>6 DEF InsertRead
  <2>2. e \in Slots /\ ent[e] = Null BY <2>1, MallocIs
  <2>3. k \in CacheKeys /\ holder[t].handle = Null BY <1>1, <2>1, HolderIs
  <2>4. ch \in Nat BY CacheAssumption
  <2> HIDE DEF e
  <2>5. Sound(d, more) /\ Keeps(Cache, d, held) /\ d.ent[e].key = k
    BY <1>1, <1>2, <2>2, <2>3, <2>4, InsertedSound
  <2> HIDE DEF d
  <2>6. holder[t] \in Reading
    <3>1. holder[t] \in {Idling} \cup Reading \cup Using BY <1>1 DEF HolderTypeOK
    <3> QED BY <2>1, <3>1 DEF Idling, Using
  <2>7. u \in Using /\ u.handle = e /\ u.key = k BY <2>2, <2>3, <2>6 DEF Using, Reading
  <2>8. holder' = [holder EXCEPT ![t] = u] BY <1>1, <2>1 DEF HolderTypeOK, e
  <2> HIDE DEF u, k
  <2>9. holder'[t] = u /\ \A s \in Threads : s # t => holder'[s] = holder[s]
    BY <1>1, <2>8 DEF HolderTypeOK
  <2>10. HolderTypeOK' BY <1>1, <2>7, <2>8 DEF HolderTypeOK
  <2>11. HeldBy(holder') = more BY <2>2, <2>3, <2>7, <2>9, HeldChanges DEF held
  <2> HIDE DEF more
  <2>12. \A s \in Threads : holder'[s].at = "using" =>
            \/ holder'[s] = holder[s] /\ held[holder[s].handle] > 0
            \/ d.ent[holder'[s].handle].key = holder'[s].key
    <3> TAKE s \in Threads
    <3>1. CASE s = t BY <2>5, <2>7, <2>9, <3>1
    <3>2. CASE s # t BY <1>4, <2>9, <3>2
    <3> QED BY <3>1, <3>2
  <2>13. StepsTo(d, more, held) BY <2>1, <2>5, <2>10, <2>11, <2>12 DEF StepsTo
  <2> QED BY <2>13, StepSound
<1>7. ASSUME NEW t \in Threads, ReadFails(t) PROVE CacheInvariant'
  <2>1. /\ holder[t].at = "reading" /\ UNCHANGED <<ent, lru, inUse, hash, usage>>
        /\ holder' = [holder EXCEPT ![t] = Idling]
    BY <1>7 DEF ReadFails
  <2>2. holder'[t] = Idling /\ \A s \in Threads : s # t => holder'[s] = holder[s]
    BY <1>1, <2>1 DEF HolderTypeOK
  <2>3. HolderTypeOK' BY <1>1, <2>1 DEF HolderTypeOK
  <2>4. holder[t].handle = Null /\ holder'[t].handle = Null /\ holder'[t].at = "idle"
    BY <1>1, <2>1, <2>2, HolderIs DEF Idling
  <2>5. HeldBy(holder') = held BY <2>2, <2>4, HeldChanges DEF held
  <2>6. Cache' = Cache BY <2>1 DEF Cache
  <2>7. \A s \in Threads : holder'[s].at = "using" => ent'[holder'[s].handle].key = holder'[s].key
    BY <2>1, <2>2, <2>4 DEF CacheInvariant
  <2> QED BY <1>1, <2>3, <2>5, <2>6, <2>7 DEF CacheInvariant
<1>8. ASSUME NEW t \in Threads, ReleaseHandle(t) PROVE CacheInvariant'
  <2> DEFINE e == holder[t].handle
             d == Unref(Cache, e)
             less == [held EXCEPT ![e] = @ - 1]
  <2>1. /\ holder[t].at = "using" /\ Becomes(d) /\ holder' = [holder EXCEPT ![t] = Idling]
    BY <1>8 DEF ReleaseHandle
  <2>2. e \in Slots /\ held[e] > 0 BY <1>4, <2>1
  <2>3. Sound(d, less) /\ Keeps(Cache, d, less) BY <1>1, <2>2, UnrefSound
  <2> HIDE DEF d
  <2>4. holder'[t] = Idling /\ \A s \in Threads : s # t => holder'[s] = holder[s]
    BY <1>1, <2>1 DEF HolderTypeOK
  <2>5. HolderTypeOK' BY <1>1, <2>1 DEF HolderTypeOK
  <2>6. holder'[t].handle = Null /\ holder'[t].at = "idle" BY <2>4 DEF Idling
  <2>7. HeldBy(holder') = less BY <2>2, <2>4, <2>6, HeldChanges DEF held
  <2> HIDE DEF less
  <2>8. ASSUME NEW s \in Threads, holder'[s].at = "using"
        PROVE  holder'[s] = holder[s] /\ less[holder[s].handle] > 0
    <3>1. holder'[s] = holder[s] BY <2>4, <2>6, <2>8
    <3>2. HeldBy(holder')[holder'[s].handle] > 0
      <4>1. HolderTypeOK' /\ holder'[s].at = "using" BY <2>5, <2>8
      <4>2. s \in HoldersIn(holder', holder'[s].handle) BY DEF HoldersIn
      <4>3. holder'[s].handle \in Slots BY <1>4, <2>8, <3>1
      <4>4. Cardinality(HoldersIn(holder', holder'[s].handle)) # 0 BY <4>2, CountIs, FS_EmptySet
      <4>5. Cardinality(HoldersIn(holder', holder'[s].handle)) > 0 BY <4>4, CountIs
      <4> QED BY <4>3, <4>5 DEF HeldBy
    <3> QED BY <2>7, <3>1, <3>2
  <2>9. StepsTo(d, less, less) BY <2>1, <2>3, <2>5, <2>7, <2>8 DEF StepsTo
  <2> QED BY <2>9, StepSound
<1>9. ASSUME NEW d, Becomes(d), Sound(d, held), Keeps(Cache, d, held), UNCHANGED holder
      PROVE  CacheInvariant'
  <2>1. HolderTypeOK' /\ HeldBy(holder') = held BY <1>1, <1>9 DEF HolderTypeOK, held
  <2>2. \A s \in Threads : holder'[s].at = "using" =>
            holder'[s] = holder[s] /\ held[holder[s].handle] > 0
    BY <1>4, <1>9
  <2>3. StepsTo(d, held, held) BY <1>9, <2>1, <2>2 DEF StepsTo
  <2> QED BY <2>3, StepSound
<1>10. ASSUME NEW k \in CacheKeys, Erase(k) PROVE CacheInvariant'
  <2> DEFINE d == EraseKey(Cache, k)
  <2>1. Becomes(d) /\ UNCHANGED holder BY <1>10 DEF Erase
  <2>2. Sound(d, held) /\ Keeps(Cache, d, held) BY <1>1, EraseKeySound
  <2> HIDE DEF d
  <2> QED BY <1>9, <2>1, <2>2
<1>11. ASSUME Prune PROVE CacheInvariant'
  <2> DEFINE n == Len(lru)
             d == Evictions(Cache)[n]
  <2>1. Becomes(d) /\ UNCHANGED holder BY <1>11 DEF Prune
  <2>2. n \in 0 .. Len(Cache.lru) BY <1>2, <1>3
  <2> HIDE DEF n
  <2>3. Sound(d, held) /\ Keeps(Cache, d, held) BY <1>1, <2>2, EvictionsSound
  <2> HIDE DEF d
  <2> QED BY <1>9, <2>1, <2>3
<1>12. CASE UNCHANGED cacheVars
  <2>1. Cache' = Cache /\ holder' = holder /\ ent' = ent BY <1>12 DEF cacheVars, Cache
  <2> QED BY <2>1 DEF CacheInvariant, HolderTypeOK
<1> QED BY <1>5, <1>6, <1>7, <1>8, <1>10, <1>11, <1>12 DEF CacheNext

\* A sound cache is what a thread relies on.
LEMMA CacheIsSoundThen == CacheInvariant => CacheIsSound
<1> SUFFICES ASSUME CacheInvariant PROVE CacheIsSound OBVIOUS
<1> DEFINE held == HeldBy(holder)
<1>1. HolderTypeOK /\ Sound(Cache, held) BY DEF CacheInvariant
<1>2. /\ Cache.ent = ent /\ Cache.table = hash /\ Cache.lru = lru
      /\ Cache.inUse = inUse /\ Cache.usage = usage
  BY DEF Cache
<1>3. /\ ent \in Heaps /\ hash \in [CacheKeys -> Slots \cup {Null}] /\ held \in Counts
  <2>1. Cache \in Shapes /\ held \in Counts BY <1>1 DEF Sound, SoundBut
  <2> QED BY <1>2, <2>1, ShapeIs
<1> HIDE DEF held
<1>4. \A e \in Slots : held[e] = Cardinality(Holders(e)) /\ held[e] \in Nat
  BY CountIs DEF held, HeldBy, HoldersIn, Holders
<1>5. \A e \in Slots \ FreeSlots :
          /\ ent[e].refs = held[e] + (IF ent[e].inCache THEN 1 ELSE 0)
          /\ ent[e].refs > 0
  BY <1>1, <1>2 DEF Sound, SoundBut, EntrySound, FreeSlots, FreeIn
<1>6. HandlesStayValid
  <2> SUFFICES ASSUME NEW t \in Threads, holder[t].at = "using"
               PROVE  holder[t].handle \in Slots \ FreeSlots /\ ent[holder[t].handle].key = holder[t].key
    BY DEF HandlesStayValid
  <2>1. holder[t].handle \in Slots /\ held[holder[t].handle] > 0 BY <1>1, UsingIsHeld DEF held
  <2>2. held[holder[t].handle] # 0 BY <1>4, <2>1
  <2>3. ent[holder[t].handle] # Null BY <1>1, <1>2, <2>1, <2>2 DEF Sound, SoundBut, EntrySound
  <2> QED BY <2>1, <2>3 DEF CacheInvariant, FreeSlots, FreeIn
<1>7. \A e \in Cached : e \in Slots \ FreeSlots /\ ent[e].refs = held[e] + 1 /\ ent[e].key \in CacheKeys
  <2> TAKE e \in Cached
  <2>1. e \in Slots \ FreeSlots BY DEF Cached, CachedIn, FreeSlots
  <2>2. ent[e] # Null /\ e \in Slots BY <2>1 DEF FreeSlots, FreeIn
  <2>3. ent[e].inCache BY <1>3, <2>2, EntryIs DEF Cached
  <2>4. ent[e].refs = held[e] + 1 BY <1>5, <2>1, <2>3
  <2> QED BY <1>3, <2>1, <2>2, <2>4, EntryIs
<1>8. /\ inUse = {e \in Cached : held[e] > 0}
      /\ On(lru) = {e \in Cached : held[e] = 0} /\ Once(lru)
  BY <1>1, <1>2 DEF Sound, SoundBut, ListsSound, Cached
<1>9. \A e \in Cached : (held[e] > 0 <=> ent[e].refs >= 2) /\ (held[e] = 0 <=> ent[e].refs = 1)
  BY <1>4, <1>7
<1>10. inUse = {e \in Cached : ent[e].refs >= 2} BY <1>8, <1>9
<1>11. {lru[i] : i \in DOMAIN lru} = {e \in Cached : ent[e].refs = 1} BY <1>8, <1>9 DEF On
<1>12. \A i, j \in DOMAIN lru : lru[i] = lru[j] => i = j BY <1>8 DEF Once
<1>13. TableSound(Cache, Null) BY <1>1 DEF Sound, SoundBut
<1>14. Null \notin Cached BY NotNull DEF Cached, CachedIn
<1>15. \A e \in Cached : hash[ent[e].key] = e BY <1>2, <1>13, <1>14 DEF TableSound, Cached
<1>16. Cached = {hash[k] : k \in CacheKeys} \ {Null}
  <2>1. \A k \in CacheKeys : hash[k] # Null => hash[k] \in Cached
    BY <1>2, <1>13 DEF TableSound, Cached
  <2> QED BY <1>7, <1>14, <1>15, <2>1
<1>17. usage = ChargeOf(ent) BY <1>1, <1>2 DEF Sound, SoundBut
<1>18. \A e \in Slots \ FreeSlots :
           /\ ent[e].refs = Cardinality(Holders(e)) + (IF ent[e].inCache THEN 1 ELSE 0)
           /\ ent[e].refs > 0
  BY <1>4, <1>5
<1>19. ListsAndCountsAgree BY <1>10, <1>11, <1>12, <1>15, <1>16, <1>17, <1>18 DEF ListsAndCountsAgree
<1> QED BY <1>6, <1>19 DEF CacheIsSound

\* A handle stays valid until it is released, whatever other threads evict, erase
\* or replace, and lists, counts, table and charge agree: for any number of
\* threads, keys, addresses and charges and any capacity.
THEOREM CacheStaysSound == CacheSpec => []CacheIsSound
<1>1. CacheSpec => []CacheInvariant BY CacheInitially, CacheStep, PTL DEF CacheSpec
<1> QED BY <1>1, CacheIsSoundThen, PTL
=============================================================================
