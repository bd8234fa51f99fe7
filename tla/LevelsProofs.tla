---------------------------- MODULE LevelsProofs ----------------------------
(***************************************************************************)
(* What the data path of leveldb guarantees for any number of levels,      *)
(* keys, writes, snapshots and output files.                               *)
(***************************************************************************)
EXTENDS Levels, FiniteSetTheorems, WellFoundedInduction, TLAPS

-----------------------------------------------------------------------------
(* The inductive invariant. *)

Entry == [key : Keys, seq : 1 .. MaxSeq, del : BOOLEAN]

\* A table: its bounds are entries of it, and no entry lies outside of them.
FileOK(f) ==
    /\ f.num \in Nat
    /\ f.ents \subseteq Entry /\ IsFiniteSet(f.ents)
    /\ f.smallest \in f.ents /\ f.largest \in f.ents
    /\ \A e \in f.ents : /\ f.smallest.key <= e.key /\ e.key <= f.largest.key
                         /\ e.key = f.largest.key => f.largest.seq <= e.seq

FilesOK(files) == IsFiniteSet(files) /\ \A f \in files : FileOK(f)

\* Two files that share no user key, nor have one between the keys of the other.
Apart(f, g) == f.largest.key < g.smallest.key \/ g.largest.key < f.smallest.key

AllApart(files) == \A f, g \in files : f # g => Apart(f, g)

\* No two entries carry the same sequence number.
Distinct(ents) == \A x, y \in ents : x.seq = y.seq => x = y

-----------------------------------------------------------------------------
(* Least and greatest. *)

\* A finite set has an element that no other stands before.
LEMMA Extreme ==
    ASSUME NEW S, IsFiniteSet(S), S # {}, NEW R,
           \A x \in S : <<x, x>> \notin R,
           \A x, y, z \in S : <<x, y>> \in R /\ <<y, z>> \in R => <<x, z>> \in R
    PROVE  \E x \in S : \A y \in S : <<y, x>> \notin R
<1> DEFINE Down(x) == {y \in S : <<y, x>> \in R}
           T == {Down(x) : x \in S}
           O == StrictSubsetOrdering(S)
           F == FiniteSubsetsOf(S)
<1>1. IsWellFoundedOn(O, F)
  BY FS_StrictSubsetOrderingWellFounded
<1>2. T \in SUBSET F /\ T # {}
  <2>1. ASSUME NEW x \in S PROVE Down(x) \in F
    <3>1. Down(x) \in SUBSET S OBVIOUS
    <3> HIDE DEF Down
    <3>2. IsFiniteSet(Down(x)) BY <3>1, FS_Subset
    <3> QED BY <3>1, <3>2 DEF FiniteSubsetsOf
  <2> HIDE DEF Down, F
  <2> QED BY <2>1
<1> HIDE DEF O, F
<1>3. PICK U \in T : \A W \in T : <<W, U>> \notin O
  BY <1>1, <1>2, WFMin
<1>4. PICK x \in S : U = Down(x)
  OBVIOUS
<1>5. ASSUME NEW y \in S, <<y, x>> \in R PROVE FALSE
  <2>1. Down(y) \in T /\ y \in Down(x) /\ y \notin Down(y) /\ Down(y) \in SUBSET S /\ Down(x) \in SUBSET S
    BY <1>5
  <2>3. Down(y) \subseteq Down(x)
    BY <1>5, Zenon
  <2> HIDE DEF Down, T
  <2>2. <<Down(y), Down(x)>> \in O
    BY <2>1, <2>3 DEF O, StrictSubsetOrdering
  <2> QED BY <2>1, <2>2, <1>3, <1>4
<1> QED BY <1>5

\* A nonempty set of numbers has a least one.
LEMMA LeastNumber ==
    ASSUME NEW S, S \subseteq Nat, S # {}
    PROVE  \E x \in S : \A y \in S : x <= y
<1>1. \E x \in S : \A y \in S : ~(<<y, x>> \in OpToRel(<, Nat))
  <2> DEFINE R == OpToRel(<, Nat)
  <2>1. IsWellFoundedOn(R, Nat) BY NatLessThanWellFounded
  <2> HIDE DEF R
  <2>2. \E x \in S : \A y \in S : ~(<<y, x>> \in R) BY <2>1, WFMin
  <2> QED BY <2>2 DEF R
<1>2. PICK x \in S : \A y \in S : ~(<<y, x>> \in OpToRel(<, Nat)) BY <1>1
<1>3. ASSUME NEW y \in S PROVE x <= y
  <2>1. x \in Nat /\ y \in Nat OBVIOUS
  <2>2. ~(y < x)
    <3>1. y < x => <<y, x>> \in OpToRel(<, Nat) BY <2>1 DEF OpToRel
    <3> QED BY <1>2, <3>1
  <2> QED BY <2>1, <2>2
<1> QED BY <1>3

\* What LeastNumber gives Min, and what a finite set gives Max.
LEMMA MinIs ==
    ASSUME NEW S, S \subseteq Nat, S # {}
    PROVE  Min(S) \in S /\ \A y \in S : Min(S) <= y
  BY LeastNumber DEF Min

LEMMA MaxIs ==
    ASSUME NEW S, S \subseteq Nat, S # {}, IsFiniteSet(S)
    PROVE  Max(S) \in S /\ \A y \in S : y <= Max(S)
<1> DEFINE R == {p \in S \X S : p[1] > p[2]}
<1>1. \A x, y \in S : <<x, y>> \in R <=> x > y OBVIOUS
<1> HIDE DEF R
<1>2. (\A x \in S : <<x, x>> \notin R)
      /\ \A x, y, z \in S : <<x, y>> \in R /\ <<y, z>> \in R => <<x, z>> \in R
  BY <1>1
<1>3. PICK x \in S : \A y \in S : <<y, x>> \notin R
  <2>1. (\A x \in S : <<x, x>> \notin R)
        /\ \A x, y, z \in S : <<x, y>> \in R /\ <<y, z>> \in R => <<x, z>> \in R
    BY <1>2
  <2> QED BY <2>1, Extreme, Zenon
<1>4. ASSUME NEW y \in S PROVE x >= y
  <2>1. ~(y > x) BY <1>1, <1>3, Zenon
  <2> QED BY <2>1
<1> QED BY <1>4 DEF Max

-----------------------------------------------------------------------------
(* Entries and files. *)

LEMMA EntryType == \A e \in Entry : e.key \in Nat /\ e.seq \in Nat /\ e.seq >= 1 /\ e.seq <= MaxSeq
                                    /\ e.key \in Keys /\ e.del \in BOOLEAN
<1>1. \A e \in Entry : e.key \in Keys /\ e.seq \in 1 .. MaxSeq /\ e.del \in BOOLEAN
  BY Zenon DEF Entry
<1>2. Keys \subseteq Nat /\ MaxSeq \in Nat
  BY LevelsAssumption DEF LevelsAssumption
<1>3. ASSUME NEW e \in Entry PROVE e.key \in Nat /\ e.seq \in Nat /\ e.seq >= 1 /\ e.seq <= MaxSeq
  <2>1. e.key \in Keys /\ e.seq \in 1 .. MaxSeq BY <1>1
  <2>2. e.key \in Nat BY <2>1, <1>2
  <2>3. e.seq \in Nat BY <2>1, <1>2
  <2>4. e.seq >= 1 /\ e.seq <= MaxSeq BY <2>1, <1>2
  <2> QED BY <2>2, <2>3, <2>4
<1> QED BY <1>1, <1>3, Zenon

LEMMA FirstAndLast ==
    ASSUME NEW S, S \subseteq Entry, IsFiniteSet(S), S # {}, Distinct(S)
    PROVE  /\ FirstOf(S) \in S /\ \A f \in S : f = FirstOf(S) \/ Before(FirstOf(S), f)
           /\ LastOf(S) \in S /\ \A f \in S : f = LastOf(S) \/ Before(f, LastOf(S))
<1> DEFINE R == {p \in S \X S : Before(p[1], p[2])}
           Q == {p \in S \X S : Before(p[2], p[1])}
<1>1. \A x, y \in S : /\ <<x, y>> \in R <=> Before(x, y)
                      /\ <<x, y>> \in Q <=> Before(y, x) OBVIOUS
<1> HIDE DEF R, Q
<1>2. /\ \A x \in S : ~Before(x, x)
      /\ \A x, y, z \in S : Before(x, y) /\ Before(y, z) => Before(x, z)
      /\ \A x, y \in S : x = y \/ Before(x, y) \/ Before(y, x)
  BY EntryType DEF Before, Distinct
<1>3. PICK a \in S : \A y \in S : <<y, a>> \notin R
  <2>1. (\A x \in S : <<x, x>> \notin R)
        /\ \A x, y, z \in S : <<x, y>> \in R /\ <<y, z>> \in R => <<x, z>> \in R
    BY <1>1, <1>2
  <2> QED BY <2>1, Extreme, Zenon
<1>4. PICK b \in S : \A y \in S : <<y, b>> \notin Q
  <2>1. (\A x \in S : <<x, x>> \notin Q)
        /\ \A x, y, z \in S : <<x, y>> \in Q /\ <<y, z>> \in Q => <<x, z>> \in Q
    BY <1>1, <1>2
  <2> QED BY <2>1, Extreme, Zenon
<1>5. \A y \in S : y = a \/ Before(a, y) BY <1>1, <1>2, <1>3
<1>6. \A y \in S : y = b \/ Before(y, b) BY <1>1, <1>2, <1>4
<1> QED BY <1>5, <1>6 DEF FirstOf, LastOf

\* A table built from entries is one.
LEMMA FileOfOK ==
    ASSUME NEW S, S \subseteq Entry, IsFiniteSet(S), S # {}, Distinct(S), NEW n \in Nat
    PROVE  FileOK(FileOf(n, S)) /\ FileOf(n, S).ents = S /\ FileOf(n, S).num = n
<1>1. /\ FirstOf(S) \in S /\ \A f \in S : f = FirstOf(S) \/ Before(FirstOf(S), f)
      /\ LastOf(S) \in S /\ \A f \in S : f = LastOf(S) \/ Before(f, LastOf(S))
  BY FirstAndLast
<1>2. \A e \in S : /\ FirstOf(S).key <= e.key /\ e.key <= LastOf(S).key
                   /\ e.key = LastOf(S).key => LastOf(S).seq <= e.seq
  BY <1>1, EntryType DEF Before
<1> QED BY <1>1, <1>2 DEF FileOK, FileOf

LEMMA FileType ==
    ASSUME NEW f, FileOK(f)
    PROVE  /\ f.num \in Nat
           /\ f.smallest.key \in Nat /\ f.largest.key \in Nat /\ f.smallest.key <= f.largest.key
           /\ f.smallest \in Entry /\ f.largest \in Entry
           /\ \A e \in f.ents : /\ e \in Entry /\ e.key \in Nat /\ e.seq \in Nat
                                /\ f.smallest.key <= e.key /\ e.key <= f.largest.key
  BY EntryType DEF FileOK

\* Files that are apart share no key.
LEMMA ApartKeys ==
    ASSUME NEW f, NEW g, FileOK(f), FileOK(g), Apart(f, g)
    PROVE  \A x \in f.ents, y \in g.ents : x.key # y.key
<1>1. f.smallest.key \in Nat /\ f.largest.key \in Nat
      /\ \A e \in f.ents : e.key \in Nat /\ f.smallest.key <= e.key /\ e.key <= f.largest.key
  BY FileType
<1>2. g.smallest.key \in Nat /\ g.largest.key \in Nat
      /\ \A e \in g.ents : e.key \in Nat /\ g.smallest.key <= e.key /\ e.key <= g.largest.key
  BY FileType
<1> QED BY <1>1, <1>2 DEF Apart

-----------------------------------------------------------------------------
(* Searching a sorted level. *)

\* On a level whose files are apart, the first that ends at or after the target
\* is the one that has the keys right there.
LEMMA FindFileIs ==
    ASSUME NEW files, FilesOK(files), AllApart(files), NEW target
    PROVE  /\ \A f \in FindFile(files, target) :
                  /\ f \in files /\ ~Before(f.largest, target)
                  /\ \A g \in files : ~Before(g.largest, target) => f.smallest.key <= g.smallest.key
           /\ \A f, g \in FindFile(files, target) : f = g
           /\ (\E f \in files : ~Before(f.largest, target)) => FindFile(files, target) # {}
<1> DEFINE ends == {f \in files : ~Before(f.largest, target)}
           R == {p \in ends \X ends : Before(p[1].smallest, p[2].smallest)}
<1>0. FindFile(files, target) = {f \in ends : \A g \in ends : g = f \/ Before(f.smallest, g.smallest)}
  BY DEF FindFile
<1>1. \A f \in ends : FileOK(f) /\ f \in files
  BY DEF FilesOK
<1>2. \A x, y \in ends : <<x, y>> \in R <=> Before(x.smallest, y.smallest)
  OBVIOUS
<1>3. IsFiniteSet(ends)
  <2>1. ends \in SUBSET files OBVIOUS
  <2> HIDE DEF ends
  <2> QED BY <2>1, FS_Subset DEF FilesOK
<1>4. \A f, g \in ends : f # g => Apart(f, g)
  BY DEF AllApart
<1>8. \A f \in ends : ~Before(f.largest, target)
  OBVIOUS
<1>9. \A f \in files : ~Before(f.largest, target) => f \in ends
  OBVIOUS
<1> HIDE DEF ends, R
<1>5. \A f, g \in ends : f # g => f.smallest.key # g.smallest.key
  <2>1. ASSUME NEW f \in ends, NEW g \in ends, f # g PROVE f.smallest.key # g.smallest.key
    <3>1. FileOK(f) /\ FileOK(g) /\ Apart(f, g) BY <2>1, <1>1, <1>4
    <3>2. f.smallest.key \in Nat /\ f.largest.key \in Nat /\ f.smallest.key <= f.largest.key
      BY <3>1, FileType
    <3>3. g.smallest.key \in Nat /\ g.largest.key \in Nat /\ g.smallest.key <= g.largest.key
      BY <3>1, FileType
    <3> QED BY <3>1, <3>2, <3>3 DEF Apart
  <2> QED BY <2>1
<1>6. \A f \in ends : f.smallest.key \in Nat /\ f.smallest.seq \in Nat
  BY <1>1, FileType, EntryType
<1>7. ASSUME ends # {}
      PROVE \E f \in ends : \A g \in ends : g = f \/ Before(f.smallest, g.smallest)
  <2>1. (\A x \in ends : <<x, x>> \notin R)
        /\ \A x, y, z \in ends : <<x, y>> \in R /\ <<y, z>> \in R => <<x, z>> \in R
    <3>1. \A x \in ends : ~Before(x.smallest, x.smallest)
      BY <1>6 DEF Before
    <3>2. ASSUME NEW x \in ends, NEW y \in ends, NEW z \in ends,
                 Before(x.smallest, y.smallest), Before(y.smallest, z.smallest)
          PROVE Before(x.smallest, z.smallest)
      BY <3>2, <1>6 DEF Before
    <3> QED BY <3>1, <3>2, <1>2
  <2>2. PICK f \in ends : \A g \in ends : <<g, f>> \notin R
    BY <2>1, <1>3, <1>7, Extreme, Zenon
  <2>3. ASSUME NEW g \in ends, g # f PROVE Before(f.smallest, g.smallest)
    <3>1. ~Before(g.smallest, f.smallest) BY <2>2, <1>2
    <3>2. g.smallest.key # f.smallest.key BY <2>3, <1>5
    <3> QED BY <3>1, <3>2, <1>6 DEF Before
  <2> QED BY <2>3
<1>10. ASSUME NEW f \in FindFile(files, target), NEW g \in ends
       PROVE f.smallest.key <= g.smallest.key
  <2>1. f \in ends /\ (g = f \/ Before(f.smallest, g.smallest)) BY <1>0
  <2> QED BY <2>1, <1>6 DEF Before
<1>11. ASSUME NEW f \in FindFile(files, target), NEW g \in FindFile(files, target) PROVE f = g
  <2>1. f \in ends /\ g \in ends BY <1>0
  <2>2. f.smallest.key <= g.smallest.key /\ g.smallest.key <= f.smallest.key BY <1>10, <2>1
  <2> QED BY <2>1, <2>2, <1>5, <1>6
<1> QED BY <1>0, <1>1, <1>7, <1>8, <1>9, <1>10, <1>11

\* The only file of a sorted level that can have k is the one a lookup opens there.
LEMMA SortedLookup ==
    ASSUME NEW files, FilesOK(files), AllApart(files), NEW k \in Nat, NEW s \in Nat,
           NEW f \in files, Visible(f.ents, k, s) # {}
    PROVE  f \in FindFile(files, LookupKey(k, s)) /\ f.smallest.key <= k
<1> DEFINE t == LookupKey(k, s)
<1>0. t.key = k /\ t.seq = s BY DEF LookupKey
<1> HIDE DEF t
<1>1. FileOK(f) BY DEF FilesOK
<1>2. PICK e \in f.ents : e.key = k /\ e.seq <= s BY DEF Visible
<1>3. f.smallest.key \in Nat /\ f.largest.key \in Nat /\ f.smallest.key <= k /\ k <= f.largest.key
  BY <1>1, <1>2, FileType
<1>4. ~Before(f.largest, t)
  <2>1. k = f.largest.key => f.largest.seq <= e.seq BY <1>1, <1>2 DEF FileOK
  <2>2. f.largest.seq \in Nat /\ e.seq \in Nat BY <1>1, FileType, EntryType
  <2> QED BY <1>0, <1>2, <1>3, <2>1, <2>2 DEF Before
<1>5. PICK g \in FindFile(files, t) : TRUE
  BY <1>4, FindFileIs
<1>6. g \in files /\ ~Before(g.largest, t) /\ g.smallest.key <= f.smallest.key
  BY <1>4, <1>5, FindFileIs
<1>7. g = f
  <2> SUFFICES ASSUME g # f PROVE FALSE OBVIOUS
  <2>1. FileOK(g) /\ Apart(f, g) BY <1>6 DEF FilesOK, AllApart
  <2>2. g.smallest.key \in Nat /\ g.largest.key \in Nat /\ g.smallest.key <= g.largest.key
    BY <2>1, FileType
  <2>3. g.largest.key < f.smallest.key
    BY <2>1, <2>2, <1>3, <1>6 DEF Apart
  <2> QED BY <2>2, <2>3, <1>3, <1>6, <1>0 DEF Before
<1> QED BY <1>3, <1>5, <1>7 DEF t

\* A level is clear of a range only if none of its files touches it.
LEMMA ClearLevel ==
    ASSUME NEW v, NEW l, NEW b \in Nat, NEW e \in Nat, b <= e,
           FilesOK(v[l]), l # 0 => AllApart(v[l]),
           ~OverlapInLevel(v, l, b, e)
    PROVE  Touching(v[l], b, e) = {}
<1> SUFFICES ASSUME l # 0, NEW f \in v[l], f.largest.key >= b, f.smallest.key <= e PROVE FALSE
  <2>1. CASE l = 0 BY <2>1 DEF OverlapInLevel
  <2> QED BY <2>1 DEF Touching
<1> DEFINE t == LookupKey(b, kMaxSequenceNumber)
<1>0. t.key = b /\ t.seq = MaxSeq + 1 BY DEF LookupKey, kMaxSequenceNumber
<1>9. \A g \in FindFile(v[l], t) : ~(g.smallest.key <= e) BY DEF OverlapInLevel
<1> HIDE DEF t
<1>1. f.largest.key \in Nat /\ f.smallest.key \in Nat /\ f.largest.seq \in Nat /\ f.largest.seq <= MaxSeq
  <2>1. FileOK(f) BY DEF FilesOK
  <2> QED BY <2>1, FileType, EntryType
<1>2. MaxSeq \in Nat BY LevelsAssumption DEF LevelsAssumption
<1>3. ~Before(f.largest, t) BY <1>0, <1>1, <1>2 DEF Before
<1>4. PICK g \in FindFile(v[l], t) : TRUE BY <1>3, FindFileIs
<1>5. g \in v[l] /\ g.smallest.key <= f.smallest.key BY <1>3, <1>4, FindFileIs
<1>6. g.smallest.key \in Nat
  <2>1. FileOK(g) BY <1>5 DEF FilesOK
  <2> QED BY <2>1, FileType
<1> QED BY <1>1, <1>4, <1>5, <1>6, <1>9

-----------------------------------------------------------------------------
(* The range of some files, and the files that touch a range. *)

LEMMA LoKeyIs ==
    ASSUME NEW files, \A f \in files : FileOK(f), NEW b \in Nat
    PROVE  /\ LoKey(files, b) \in Nat /\ LoKey(files, b) <= b
           /\ \A f \in files : LoKey(files, b) <= f.smallest.key
           /\ LoKey(files, b) = b \/ \E f \in files : LoKey(files, b) = f.smallest.key
<1> DEFINE S == {b} \cup {f.smallest.key : f \in files}
<1>1. \A f \in files : f.smallest.key \in Nat
  BY FileType
<1>2. S \subseteq Nat /\ S # {} BY <1>1
<1>3. Min(S) \in S /\ \A y \in S : Min(S) <= y
  <2> HIDE DEF S
  <2> QED BY <1>2, MinIs
<1>4. LoKey(files, b) = Min(S) BY DEF LoKey
<1>5. b \in S /\ \A f \in files : f.smallest.key \in S OBVIOUS
<1>6. \A m \in S : m = b \/ \E f \in files : m = f.smallest.key OBVIOUS
<1> HIDE DEF S
<1> QED BY <1>2, <1>3, <1>4, <1>5, <1>6

LEMMA HiKeyIs ==
    ASSUME NEW files, FilesOK(files), NEW e \in Nat
    PROVE  /\ HiKey(files, e) \in Nat /\ e <= HiKey(files, e)
           /\ \A f \in files : f.largest.key <= HiKey(files, e)
           /\ HiKey(files, e) = e \/ \E f \in files : HiKey(files, e) = f.largest.key
<1> DEFINE I == {f.largest.key : f \in files}
           S == {e} \cup I
           m == [f \in files |-> f.largest.key]
<1>1. \A f \in files : f.largest.key \in Nat
  BY FileType DEF FilesOK
<1>2. S \subseteq Nat /\ S # {} BY <1>1
<1>7. IsFiniteSet(S)
  <2>1. m \in Surjection(files, I) BY DEF Surjection
  <2>2. IsFiniteSet(files) BY DEF FilesOK
  <2> HIDE DEF m, I
  <2>3. IsFiniteSet(I) BY <2>1, <2>2, FS_Surjection
  <2>4. S = I \cup {e} OBVIOUS
  <2> HIDE DEF S
  <2> QED BY <2>3, <2>4, FS_AddElement
<1>3. Max(S) \in S /\ \A y \in S : y <= Max(S)
  <2> HIDE DEF S
  <2> QED BY <1>2, <1>7, MaxIs
<1>4. HiKey(files, e) = Max(S) BY DEF HiKey
<1>5. e \in S /\ \A f \in files : f.largest.key \in S OBVIOUS
<1>6. \A n \in S : n = e \/ \E f \in files : n = f.largest.key OBVIOUS
<1> HIDE DEF S, I, m
<1> QED BY <1>2, <1>3, <1>4, <1>5, <1>6

\* The search of level 0 that starts again with each wider range, n times.
Widening(files, b, e, n, w) ==
    w = [i \in 0 .. n |-> IF i = 0 THEN Touching(files, b, e)
                          ELSE Touching(files, LoKey(w[i - 1], b), HiKey(w[i - 1], e))]

LEMMA WideningExists ==
    ASSUME NEW files, NEW b, NEW e
    PROVE  \A n \in Nat : \E w : Widening(files, b, e, n, w)
<1> DEFINE T(x) == Touching(files, LoKey(x, b), HiKey(x, e))
           Bad == {n \in Nat : ~\E w : Widening(files, b, e, n, w)}
<1> SUFFICES ASSUME Bad # {} PROVE FALSE OBVIOUS
<1>1. PICK n \in Bad : \A m \in Bad : n <= m
  <2>1. Bad \subseteq Nat OBVIOUS
  <2> HIDE DEF Bad
  <2> QED BY <2>1, LeastNumber
<1>2. n \in Nat /\ ~\E w : Widening(files, b, e, n, w) OBVIOUS
<1>3. n # 0
  <2> DEFINE w0 == [i \in 0 .. 0 |-> Touching(files, b, e)]
  <2>1. \A i \in 0 .. 0 : i = 0 OBVIOUS
  <2>2. Widening(files, b, e, 0, w0) BY <2>1 DEF Widening
  <2> QED BY <2>2, <1>2
<1>4. n - 1 \in Nat /\ n - 1 \notin Bad BY <1>1, <1>2, <1>3
<1>5. PICK w : Widening(files, b, e, n - 1, w) BY <1>4
<1> DEFINE u == [i \in 0 .. n |-> IF i = n THEN T(w[n - 1]) ELSE w[i]]
<1>6. \A i \in 0 .. n - 1 : u[i] = w[i] /\ i \in 0 .. n /\ i # n BY <1>2, <1>3
<1>7. ASSUME NEW i \in 0 .. n
      PROVE  u[i] = IF i = 0 THEN Touching(files, b, e) ELSE T(u[i - 1])
  <2>1. CASE i = n
    <3>1. n - 1 \in 0 .. n - 1 BY <1>2, <1>3
    <3>2. u[n - 1] = w[n - 1] BY <3>1, <1>6
    <3>3. u[n] = T(w[n - 1]) BY <1>2
    <3> QED BY <2>1, <3>2, <3>3, <1>3
  <2>2. CASE i # n
    <3>1. i \in 0 .. n - 1 BY <2>2, <1>2
    <3>2. u[i] = w[i] BY <3>1, <1>6
    <3>3. w[i] = IF i = 0 THEN Touching(files, b, e) ELSE T(w[i - 1])
      BY <1>5, <3>1 DEF Widening
    <3>4. i # 0 => i - 1 \in 0 .. n - 1 BY <3>1, <1>2
    <3>5. i # 0 => u[i - 1] = w[i - 1] BY <3>4, <1>6
    <3> QED BY <3>2, <3>3, <3>5
  <2> QED BY <2>1, <2>2
<1>8. u = [i \in 0 .. n |-> IF i = 0 THEN Touching(files, b, e) ELSE T(u[i - 1])]
  <2>1. u = [i \in 0 .. n |-> u[i]] OBVIOUS
  <2> HIDE DEF u, T
  <2> QED BY <2>1, <1>7, Zenon
<1>9. Widening(files, b, e, n, u) BY <1>8 DEF Widening
<1> HIDE DEF u
<1> QED BY <1>9, <1>2

LEMMA OverlappingOnZero ==
    ASSUME NEW v, NEW b, NEW e, Cardinality(v[0]) \in Nat
    PROVE  \E w : /\ Widening(v[0], b, e, Cardinality(v[0]), w)
                  /\ GetOverlappingInputs(v, 0, b, e) = w[Cardinality(v[0])]
<1> DEFINE n == Cardinality(v[0])
           W == CHOOSE w : w = [i \in 0 .. n |->
                    IF i = 0 THEN Touching(v[0], b, e)
                    ELSE Touching(v[0], LoKey(w[i - 1], b), HiKey(w[i - 1], e))]
<1>1. \E w : Widening(v[0], b, e, n, w) BY WideningExists
<1>2. Widening(v[0], b, e, n, W) BY <1>1, Zenon DEF Widening
<1>3. GetOverlappingInputs(v, 0, b, e) = W[n] BY Zenon DEF GetOverlappingInputs
<1> QED BY <1>2, <1>3

\* What holds at 0 and is handed on upward holds up to n.
LEMMA Upward ==
    ASSUME NEW n \in Nat, NEW S, 0 \in S, \A i \in 0 .. n : i \in S /\ i < n => i + 1 \in S
    PROVE  \A i \in 0 .. n : i \in S
<1> DEFINE Bad == {i \in 0 .. n : i \notin S}
<1> SUFFICES ASSUME Bad # {} PROVE FALSE OBVIOUS
<1>1. PICK i \in Bad : \A j \in Bad : i <= j
  <2>1. Bad \subseteq Nat OBVIOUS
  <2> HIDE DEF Bad
  <2> QED BY <2>1, LeastNumber
<1>2. i \in 0 .. n /\ i \notin S /\ i # 0 OBVIOUS
<1>3. i - 1 \in 0 .. n /\ i - 1 \notin Bad /\ i - 1 < n BY <1>1, <1>2
<1>4. i - 1 \in S BY <1>3
<1>5. (i - 1) + 1 = i BY <1>2
<1> QED BY <1>2, <1>3, <1>4, <1>5

\* A set that lies in another spans no more, and more files touch a wider range.
LEMMA WiderTouches ==
    ASSUME NEW files, FilesOK(files), NEW b \in Nat, NEW e \in Nat,
           NEW A, NEW B, A \subseteq B, B \subseteq files
    PROVE  /\ Touching(files, LoKey(A, b), HiKey(A, e))
                  \subseteq Touching(files, LoKey(B, b), HiKey(B, e))
           /\ Touching(files, b, e) \subseteq Touching(files, LoKey(A, b), HiKey(A, e))
<1>1. FilesOK(A) /\ FilesOK(B)
  <2>1. IsFiniteSet(B) BY FS_Subset DEF FilesOK
  <2>2. IsFiniteSet(A) BY <2>1, FS_Subset
  <2> QED BY <2>1, <2>2 DEF FilesOK
<1>2. /\ LoKey(A, b) \in Nat /\ LoKey(A, b) <= b
      /\ LoKey(A, b) = b \/ \E f \in A : LoKey(A, b) = f.smallest.key
  BY <1>1, LoKeyIs DEF FilesOK
<1>3. LoKey(B, b) \in Nat /\ LoKey(B, b) <= b /\ \A f \in B : LoKey(B, b) <= f.smallest.key
  BY <1>1, LoKeyIs DEF FilesOK
<1>4. /\ HiKey(A, e) \in Nat /\ e <= HiKey(A, e)
      /\ HiKey(A, e) = e \/ \E f \in A : HiKey(A, e) = f.largest.key
  BY <1>1, HiKeyIs
<1>5. HiKey(B, e) \in Nat /\ e <= HiKey(B, e) /\ \A f \in B : f.largest.key <= HiKey(B, e)
  BY <1>1, HiKeyIs
<1>6. LoKey(B, b) <= LoKey(A, b) BY <1>2, <1>3
<1>7. HiKey(A, e) <= HiKey(B, e) BY <1>4, <1>5
<1>8. \A f \in files : f.smallest.key \in Nat /\ f.largest.key \in Nat
  BY FileType DEF FilesOK
<1>9. ASSUME NEW f \in files, f.largest.key >= LoKey(A, b), f.smallest.key <= HiKey(A, e)
      PROVE  f.largest.key >= LoKey(B, b) /\ f.smallest.key <= HiKey(B, e)
  BY <1>9, <1>2, <1>3, <1>4, <1>5, <1>6, <1>7, <1>8
<1>10. ASSUME NEW f \in files, f.largest.key >= b, f.smallest.key <= e
       PROVE  f.largest.key >= LoKey(A, b) /\ f.smallest.key <= HiKey(A, e)
  BY <1>10, <1>2, <1>4, <1>8
<1> QED BY <1>9, <1>10 DEF Touching

\* The widening search never loses a file, and after as many rounds as there are
\* files it has settled.
LEMMA WideningSettles ==
    ASSUME NEW files, FilesOK(files), NEW b \in Nat, NEW e \in Nat, NEW w,
           Widening(files, b, e, Cardinality(files), w)
    PROVE  LET W == w[Cardinality(files)]
           IN  W \subseteq files /\ W = Touching(files, LoKey(W, b), HiKey(W, e))
<1> DEFINE n == Cardinality(files)
           T(x) == Touching(files, LoKey(x, b), HiKey(x, e))
           S == {i \in 0 .. n : w[i] \subseteq T(w[i]) /\ (T(w[i]) = w[i] \/ Cardinality(w[i]) >= i)}
<1>1. n \in Nat BY FS_CardinalityType DEF FilesOK
<1>2. w[0] = Touching(files, b, e)
      /\ \A i \in 0 .. n : i < n => w[i + 1] = T(w[i])
  <2>1. \A i \in 0 .. n : w[i] = IF i = 0 THEN Touching(files, b, e) ELSE T(w[i - 1])
    BY DEF Widening
  <2>2. 0 \in 0 .. n BY <1>1
  <2>3. ASSUME NEW i \in 0 .. n, i < n PROVE w[i + 1] = T(w[i])
    <3>1. i + 1 \in 0 .. n /\ i + 1 # 0 /\ (i + 1) - 1 = i BY <2>3, <1>1
    <3> QED BY <2>1, <3>1
  <2> QED BY <2>1, <2>2, <2>3
<1>3. \A A : T(A) \subseteq files /\ Touching(files, b, e) \subseteq files BY DEF Touching
<1>4. \A i \in 0 .. n : w[i] \subseteq files
  <2>1. ASSUME NEW i \in 0 .. n PROVE w[i] \subseteq files
    <3>1. w[i] = IF i = 0 THEN Touching(files, b, e) ELSE T(w[i - 1]) BY DEF Widening
    <3> HIDE DEF T
    <3> QED BY <3>1, <1>3
  <2> QED BY <2>1
<1>5. \A A, B \in SUBSET files : A \subseteq B => T(A) \subseteq T(B)
  BY WiderTouches
<1>6. \A A \in SUBSET files : Touching(files, b, e) \subseteq T(A)
  BY WiderTouches
<1>7. \A A \in SUBSET files : IsFiniteSet(A) /\ Cardinality(A) \in Nat
  BY FS_Subset, FS_CardinalityType DEF FilesOK
<1> HIDE DEF T, n
<1>8. 0 \in S
  <2>1. w[0] \subseteq T(w[0]) BY <1>2, <1>4, <1>6, <1>1
  <2>2. Cardinality(w[0]) \in Nat BY <1>1, <1>4, <1>7
  <2> QED BY <2>1, <2>2, <1>1
<1>9. ASSUME NEW i \in 0 .. n, i \in S, i < n PROVE i + 1 \in S
  <2>1. w[i + 1] = T(w[i]) /\ i + 1 \in 0 .. n BY <1>9, <1>2, <1>1
  <2>2. w[i] \in SUBSET files /\ w[i + 1] \in SUBSET files BY <2>1, <1>4
  <2>3. w[i] \subseteq w[i + 1] BY <1>9, <2>1
  <2>4. w[i + 1] \subseteq T(w[i + 1]) BY <2>1, <2>2, <2>3, <1>5
  <2>5. CASE T(w[i]) = w[i]
    <3>1. T(w[i + 1]) = w[i + 1] BY <2>5, <2>1
    <3> QED BY <3>1, <2>1, <2>4
  <2>6. CASE T(w[i]) # w[i]
    <3>1. Cardinality(w[i]) >= i BY <2>6, <1>9
    <3>2. Cardinality(w[i]) # Cardinality(w[i + 1])
      BY <2>1, <2>2, <2>3, <2>6, <1>7, FS_Subset
    <3>3. Cardinality(w[i]) <= Cardinality(w[i + 1])
      BY <2>2, <2>3, <1>7, FS_Subset
    <3>4. Cardinality(w[i]) \in Nat /\ Cardinality(w[i + 1]) \in Nat BY <2>2, <1>7
    <3>5. Cardinality(w[i + 1]) >= i + 1 BY <3>1, <3>2, <3>3, <3>4
    <3> QED BY <3>5, <2>1, <2>4
  <2> QED BY <2>5, <2>6
<1>10. n \in S
  <2>1. \A i \in 0 .. n : i \in S /\ i < n => i + 1 \in S BY <1>9
  <2> HIDE DEF S
  <2>2. \A i \in 0 .. n : i \in S BY <2>1, <1>1, <1>8, Upward
  <2> QED BY <2>2, <1>1
<1>11. w[n] \subseteq files BY <1>1, <1>4
<1>12. w[n] = T(w[n])
  <2>1. CASE Cardinality(w[n]) >= n
    <3>1. Cardinality(w[n]) <= n /\ (n = Cardinality(w[n]) => files = w[n])
      BY <1>11, FS_Subset DEF FilesOK, n
    <3>2. files = w[n] BY <3>1, <2>1, <1>1, <1>7, <1>11
    <3> QED BY <3>2, <1>3, <1>10
  <2> QED BY <2>1, <1>10
<1> QED BY <1>11, <1>12 DEF T, n

\* What GetOverlappingInputs returns: on level 0 a set that nothing outside of it
\* touches, below it the files that touch the range.
LEMMA OverlappingIs ==
    ASSUME NEW v, NEW l, FilesOK(v[l]), NEW b \in Nat, NEW e \in Nat
    PROVE  LET W == GetOverlappingInputs(v, l, b, e)
           IN  /\ W \subseteq v[l] /\ Touching(v[l], b, e) \subseteq W
               /\ l # 0 => W = Touching(v[l], b, e)
               /\ l = 0 => W = Touching(v[0], LoKey(W, b), HiKey(W, e))
<1> DEFINE W == GetOverlappingInputs(v, l, b, e)
<1>1. CASE l # 0
  <2>1. W = Touching(v[l], b, e) BY <1>1, Zenon DEF GetOverlappingInputs
  <2> QED BY <1>1, <2>1 DEF Touching
<1>2. CASE l = 0
  <2>1. Cardinality(v[0]) \in Nat BY <1>2, FS_CardinalityType DEF FilesOK
  <2>2. PICK w : Widening(v[0], b, e, Cardinality(v[0]), w)
                 /\ GetOverlappingInputs(v, 0, b, e) = w[Cardinality(v[0])]
    BY <2>1, OverlappingOnZero
  <2>3. W \subseteq v[0] /\ W = Touching(v[0], LoKey(W, b), HiKey(W, e))
    BY <2>2, <1>2, WideningSettles
  <2>4. Touching(v[0], b, e) \subseteq W
    BY <2>3, <1>2, WiderTouches
  <2> QED BY <2>3, <2>4, <1>2
<1> QED BY <1>1, <1>2

-----------------------------------------------------------------------------
(* The inputs of a compaction. *)

\* Every key between two of the files is in the range of one of them.
NoGap(files) ==
    \A f, g \in files : \A k \in Nat : f.smallest.key <= k /\ k <= g.largest.key =>
        \E h \in files : h.smallest.key <= k /\ k <= h.largest.key

Sorted(v) == \A l \in Levels : FilesOK(v[l]) /\ (l # 0 => AllApart(v[l]))

\* What a compaction of level l may take: all that touches what it takes.
InputsOK(v, l, in0, in1) ==
    /\ in0 # {} /\ in0 \subseteq v[l] /\ in1 \subseteq v[l + 1]
    /\ \A f \in in0, g \in v[l] \ in0 : Apart(f, g)
    /\ \A f \in in0, g \in v[l + 1] \ in1 : Apart(f, g)

LEMMA FilesOKParts ==
    ASSUME NEW A, FilesOK(A)
    PROVE  /\ \A B \in SUBSET A : FilesOK(B)
           /\ \A B : FilesOK(B) => FilesOK(A \cup B)
<1>1. ASSUME NEW B \in SUBSET A PROVE FilesOK(B)
  BY FS_Subset DEF FilesOK
<1>2. ASSUME NEW B, FilesOK(B) PROVE FilesOK(A \cup B)
  <2>1. IsFiniteSet(A \cup B) BY <1>2, FS_Union DEF FilesOK
  <2> QED BY <1>2, <2>1 DEF FilesOK
<1> QED BY <1>1, <1>2

LEMMA ApartIrreflexive ==
    ASSUME NEW f, FileOK(f)
    PROVE  ~Apart(f, f)
<1>1. f.smallest.key \in Nat /\ f.largest.key \in Nat /\ f.smallest.key <= f.largest.key
  BY FileType
<1> QED BY <1>1 DEF Apart

\* The range some files span, and what overlaps it.
Spans(v, l, files, lo, hi) ==
    /\ \A f \in files : lo <= f.smallest.key /\ f.largest.key <= hi
    /\ \E f \in files : lo = f.smallest.key
    /\ \E f \in files : hi = f.largest.key
    /\ Under(v, l, files) = GetOverlappingInputs(v, l, lo, hi)

LEMMA UnderIs ==
    ASSUME NEW v, NEW l, FilesOK(v[l]), NEW files, FilesOK(files), files # {}
    PROVE  \E lo \in Nat, hi \in Nat : Spans(v, l, files, lo, hi)
<1> DEFINE first == CHOOSE f \in files : TRUE
           lo == LoKey(files, first.smallest.key)
           hi == HiKey(files, first.largest.key)
<1>1. first \in files OBVIOUS
<1>2. Under(v, l, files) = GetOverlappingInputs(v, l, lo, hi)
  BY DEF Under
<1> HIDE DEF first
<1>3. first.smallest.key \in Nat /\ first.largest.key \in Nat
  BY <1>1, FileType DEF FilesOK
<1>4. /\ lo \in Nat /\ \A f \in files : lo <= f.smallest.key
      /\ \E f \in files : lo = f.smallest.key
  BY <1>1, <1>3, LoKeyIs DEF FilesOK
<1>5. /\ hi \in Nat /\ \A f \in files : f.largest.key <= hi
      /\ \E f \in files : hi = f.largest.key
  BY <1>1, <1>3, HiKeyIs
<1> HIDE DEF lo, hi
<1> QED BY <1>2, <1>4, <1>5 DEF Spans

\* Nothing outside of what Under returns touches the files, nor on level 0 what it
\* returns.
LEMMA UnderCloses ==
    ASSUME NEW v, NEW l, FilesOK(v[l]), NEW files, FilesOK(files), files # {}
    PROVE  LET U == Under(v, l, files)
           IN  /\ U \subseteq v[l]
               /\ \A f \in files, g \in v[l] \ U : Apart(f, g)
               /\ l = 0 => \A f \in U, g \in v[0] \ U : Apart(f, g)
               /\ files \subseteq v[l] => files \subseteq U
<1> DEFINE U == Under(v, l, files)
<1>0. PICK lo \in Nat, hi \in Nat : Spans(v, l, files, lo, hi)
  BY UnderIs
<1>1. /\ \A f \in files : lo <= f.smallest.key /\ f.largest.key <= hi
      /\ \E f \in files : lo = f.smallest.key
      /\ \E f \in files : hi = f.largest.key
      /\ U = GetOverlappingInputs(v, l, lo, hi)
  BY <1>0 DEF Spans
<1>2. /\ U \subseteq v[l] /\ Touching(v[l], lo, hi) \subseteq U
      /\ l = 0 => U = Touching(v[0], LoKey(U, lo), HiKey(U, hi))
  BY <1>1, OverlappingIs
<1> HIDE DEF U
<1>3. \A f \in files : f.smallest.key \in Nat /\ f.largest.key \in Nat /\ FileOK(f)
  BY FileType DEF FilesOK
<1>4. \A g \in v[l] : g.smallest.key \in Nat /\ g.largest.key \in Nat /\ FileOK(g)
  BY FileType DEF FilesOK
<1>5. ASSUME NEW f \in files, NEW g \in v[l] \ U PROVE Apart(f, g)
  <2>1. ~(g.largest.key >= lo /\ g.smallest.key <= hi)
    BY <1>2 DEF Touching
  <2>2. lo <= f.smallest.key /\ f.largest.key <= hi BY <1>1
  <2> QED BY <2>1, <2>2, <1>3, <1>4 DEF Apart
<1>6. ASSUME l = 0, NEW f \in U, NEW g \in v[0] \ U PROVE Apart(f, g)
  <2>1. FilesOK(U) BY <1>2, FilesOKParts
  <2>2. LoKey(U, lo) \in Nat /\ LoKey(U, lo) <= f.smallest.key
    BY <2>1, LoKeyIs DEF FilesOK
  <2>3. HiKey(U, hi) \in Nat /\ f.largest.key <= HiKey(U, hi)
    BY <2>1, HiKeyIs
  <2>4. ~(g.largest.key >= LoKey(U, lo) /\ g.smallest.key <= HiKey(U, hi))
    BY <1>2, <1>6 DEF Touching
  <2>5. g \in v[l] /\ f \in v[l] BY <1>6, <1>2
  <2> QED BY <2>2, <2>3, <2>4, <2>5, <1>4 DEF Apart
<1>7. ASSUME files \subseteq v[l], NEW f \in files PROVE f \in U
  BY <1>3, <1>5, <1>7, ApartIrreflexive
<1> QED BY <1>2, <1>5, <1>6, <1>7 DEF U

\* Files that touch the span of others without a gap leave none either.
LEMMA NoGapGrows ==
    ASSUME NEW A, NEW B, \A f \in A \cup B : FileOK(f), NoGap(A),
           \A h \in B : \E f, g \in A : f.smallest.key <= h.largest.key
                                        /\ h.smallest.key <= g.largest.key
    PROVE  NoGap(A \cup B)
<1>1. \A f \in A \cup B : f.smallest.key \in Nat /\ f.largest.key \in Nat
  BY FileType
<1> SUFFICES ASSUME NEW f \in A \cup B, NEW g \in A \cup B, NEW k \in Nat,
                    f.smallest.key <= k, k <= g.largest.key,
                    \A h \in A \cup B : ~(h.smallest.key <= k /\ k <= h.largest.key)
             PROVE  FALSE
  BY DEF NoGap
<1>2. ~\E c, d \in A : c.smallest.key <= k /\ k <= d.largest.key
  BY DEF NoGap
<1>3. CASE \A c \in A : ~(c.smallest.key <= k)
  <2>1. f \in B BY <1>3
  <2>2. PICK c \in A : c.smallest.key <= f.largest.key BY <2>1
  <2>3. ~(c.smallest.key <= k) BY <1>3, <2>2
  <2> QED BY <2>2, <2>3, <1>1
<1>4. CASE \A d \in A : ~(k <= d.largest.key)
  <2>1. g \in B BY <1>4
  <2>2. PICK d \in A : g.smallest.key <= d.largest.key BY <2>1
  <2>3. ~(k <= d.largest.key) BY <1>4, <2>2
  <2> QED BY <2>2, <2>3, <1>1
<1> QED BY <1>2, <1>3, <1>4

LEMMA UnderNoGap ==
    ASSUME NEW v, NEW l, FilesOK(v[l]), NEW files, FilesOK(files), files # {}, NoGap(files)
    PROVE  NoGap(files \cup Under(v, l, files))
<1> DEFINE U == Under(v, l, files)
           V == v[l]
<1>0. PICK lo \in Nat, hi \in Nat : Spans(v, l, files, lo, hi)
  BY UnderIs
<1>1. /\ \A f \in files : lo <= f.smallest.key /\ f.largest.key <= hi
      /\ \E f \in files : lo = f.smallest.key
      /\ \E f \in files : hi = f.largest.key
      /\ U = GetOverlappingInputs(v, l, lo, hi)
  BY <1>0 DEF Spans
<1>2. FilesOK(V) OBVIOUS
<1> HIDE DEF U, V
<1>3. PICK cl \in files : lo = cl.smallest.key BY <1>1
<1>4. PICK ch \in files : hi = ch.largest.key BY <1>1
\* A wider search starts from what is there already.
<1>5. ASSUME NEW A, A \subseteq V, NoGap(files \cup A)
      PROVE  NoGap(files \cup A \cup Touching(V, LoKey(A, lo), HiKey(A, hi)))
  <2> DEFINE B == Touching(V, LoKey(A, lo), HiKey(A, hi))
  <2>1. FilesOK(A) BY <1>2, <1>5, FilesOKParts
  <2>2. PICK c \in files \cup A : LoKey(A, lo) = c.smallest.key
    BY <2>1, <1>3, LoKeyIs DEF FilesOK
  <2>3. PICK d \in files \cup A : HiKey(A, hi) = d.largest.key
    BY <2>1, <1>4, HiKeyIs
  <2>4. \A h \in B : c.smallest.key <= h.largest.key /\ h.smallest.key <= d.largest.key
    <3>1. \A h \in B : h \in V /\ h.largest.key >= LoKey(A, lo) /\ h.smallest.key <= HiKey(A, hi)
      BY DEF Touching
    <3> HIDE DEF B
    <3>2. \A h \in V : h.smallest.key \in Nat /\ h.largest.key \in Nat
      BY <1>2, FileType DEF FilesOK
    <3>3. c.smallest.key \in Nat /\ d.largest.key \in Nat
      BY <2>1, FileType DEF FilesOK
    <3> QED BY <3>1, <3>2, <3>3, <2>2, <2>3
  <2>5. \A f \in (files \cup A) \cup B : FileOK(f)
    BY <1>2, <2>1 DEF FilesOK, Touching
  <2> HIDE DEF B
  <2>6. NoGap((files \cup A) \cup B) BY <2>4, <2>5, <1>5, NoGapGrows
  <2> QED BY <2>6 DEF B
<1>6. NoGap(files \cup Touching(V, lo, hi))
  <2> DEFINE B == Touching(V, lo, hi)
  <2>1. \A h \in B : cl.smallest.key <= h.largest.key /\ h.smallest.key <= ch.largest.key
    <3>1. \A h \in B : h \in V /\ h.largest.key >= lo /\ h.smallest.key <= hi
      BY DEF Touching
    <3> HIDE DEF B
    <3>2. \A h \in V : h.smallest.key \in Nat /\ h.largest.key \in Nat
      BY <1>2, FileType DEF FilesOK
    <3> QED BY <3>1, <3>2, <1>3, <1>4
  <2>2. \A f \in files \cup B : FileOK(f)
    BY <1>2 DEF FilesOK, Touching
  <2> HIDE DEF B
  <2> QED BY <2>1, <2>2, NoGapGrows DEF B
<1>7. CASE l # 0
  <2>1. U = Touching(V, lo, hi) BY <1>1, <1>2, <1>7, OverlappingIs DEF V
  <2> QED BY <2>1, <1>6 DEF U
<1>8. CASE l = 0
  <2> DEFINE n == Cardinality(V)
  <2>1. n \in Nat BY <1>2, FS_CardinalityType DEF FilesOK
  <2>2. PICK w : Widening(V, lo, hi, n, w) /\ GetOverlappingInputs(v, 0, lo, hi) = w[n]
    BY <2>1, <1>8, OverlappingOnZero DEF V
  <2> DEFINE T(x) == Touching(V, LoKey(x, lo), HiKey(x, hi))
             S == {i \in 0 .. n : w[i] \subseteq V /\ w[i] \subseteq T(w[i]) /\ NoGap(files \cup w[i])}
  <2> HIDE DEF n
  <2>3. \A i \in 0 .. n : w[i] = IF i = 0 THEN Touching(V, lo, hi) ELSE T(w[i - 1])
    BY <2>2 DEF Widening
  <2>4. 0 \in S
    <3>1. w[0] = Touching(V, lo, hi) BY <2>1, <2>3
    <3>2. w[0] \subseteq V BY <3>1 DEF Touching
    <3>3. w[0] \subseteq T(w[0]) BY <3>1, <3>2, <1>2, WiderTouches
    <3> QED BY <3>1, <3>2, <3>3, <1>6, <2>1
  <2>5. ASSUME NEW i \in 0 .. n, i \in S, i < n PROVE i + 1 \in S
    <3>1. i + 1 \in 0 .. n /\ i + 1 # 0 /\ (i + 1) - 1 = i BY <2>1, <2>5
    <3>2. w[i + 1] = T(w[i]) BY <2>3, <3>1
    <3>3. NoGap(files \cup w[i] \cup w[i + 1]) BY <3>2, <2>5, <1>5
    <3>4. w[i] \subseteq w[i + 1] BY <2>5, <3>2
    <3>5. files \cup w[i] \cup w[i + 1] = files \cup w[i + 1] BY <3>4
    <3>6. w[i + 1] \subseteq V BY <3>2 DEF Touching
    <3>7. w[i + 1] \subseteq T(w[i + 1]) BY <3>2, <3>4, <3>6, <1>2, WiderTouches
    <3> QED BY <3>1, <3>3, <3>5, <3>6, <3>7
  <2>6. n \in S
    <3>1. \A i \in 0 .. n : i \in S /\ i < n => i + 1 \in S BY <2>5
    <3> HIDE DEF S
    <3>2. \A i \in 0 .. n : i \in S BY <3>1, <2>1, <2>4, Upward
    <3> QED BY <3>2, <2>1
  <2> QED BY <2>2, <2>6, <1>1, <1>8 DEF U
<1> QED BY <1>7, <1>8

\* Whatever SetupOtherInputs settles on, it leaves nothing that touches it.
LEMMA SetupIs ==
    ASSUME NEW v, Sorted(v), NEW l \in 0 .. NumLevels - 2, NEW in0, in0 \subseteq v[l], in0 # {},
           l = 0 => \A f \in in0, g \in v[0] \ in0 : Apart(f, g),
           NEW p \in SetupOtherInputs(v, l, in0)
    PROVE  /\ InputsOK(v, l, p[1], p[2])
           /\ NoGap(in0) => NoGap(p[1] \cup p[2])
<1> DEFINE in1  == Under(v, l + 1, in0)
           exp0 == Under(v, l, in0 \cup in1)
           exp1 == Under(v, l + 1, exp0)
<1>1. NumLevels \in Nat /\ l \in Levels /\ l + 1 \in Levels /\ l + 1 # 0
  BY LevelsAssumption DEF LevelsAssumption, Levels
<1>2. FilesOK(v[l]) /\ FilesOK(v[l + 1]) /\ (l # 0 => AllApart(v[l]))
  BY <1>1 DEF Sorted
<1>3. FilesOK(in0) BY <1>2, FilesOKParts
<1>4. in1 \subseteq v[l + 1] /\ \A f \in in0, g \in v[l + 1] \ in1 : Apart(f, g)
  BY <1>2, <1>3, UnderCloses
<1>5. \A f \in in0, g \in v[l] \ in0 : Apart(f, g)
  BY <1>2 DEF AllApart
<1>6. NoGap(in0) => NoGap(in0 \cup in1)
  BY <1>2, <1>3, UnderNoGap
<1>7. p = <<in0, in1>> \/ p = <<exp0, exp1>>
  BY Zenon DEF SetupOtherInputs
<1>8. CASE p = <<in0, in1>>
  <2>1. p[1] = in0 /\ p[2] = in1 BY <1>8
  <2> HIDE DEF in1
  <2> QED BY <2>1, <1>4, <1>5, <1>6 DEF InputsOK
<1>9. CASE p = <<exp0, exp1>>
  <2>0. p[1] = exp0 /\ p[2] = exp1 BY <1>9
  <2> DEFINE both == in0 \cup in1
  <2>1. FilesOK(in1) BY <1>2, <1>4, FilesOKParts
  <2>2. FilesOK(both) /\ both # {} BY <2>1, <1>3, FilesOKParts
  <2> HIDE DEF in1
  <2>3. /\ exp0 \subseteq v[l] /\ \A f \in both, g \in v[l] \ exp0 : Apart(f, g)
        /\ l = 0 => \A f \in exp0, g \in v[0] \ exp0 : Apart(f, g)
    <3> HIDE DEF both
    <3>1. exp0 = Under(v, l, both) BY DEF both
    <3> HIDE DEF exp0
    <3> QED BY <3>1, <2>2, <1>2, UnderCloses
  <2>4. NoGap(both) => NoGap(both \cup exp0)
    <3> HIDE DEF both
    <3>1. exp0 = Under(v, l, both) BY DEF both
    <3> HIDE DEF exp0
    <3> QED BY <3>1, <2>2, <1>2, UnderNoGap
  <2> HIDE DEF exp0
  <2>5. \A f \in in0 : f \in exp0
    <3>1. \A f \in in0 : ~Apart(f, f) /\ f \in v[l] BY <1>3, ApartIrreflexive DEF FilesOK
    <3> QED BY <3>1, <2>3
  <2>6. exp0 # {} /\ FilesOK(exp0) BY <2>3, <2>5, <1>2, FilesOKParts
  <2>7. exp1 \subseteq v[l + 1] /\ \A f \in exp0, g \in v[l + 1] \ exp1 : Apart(f, g)
    BY <2>6, <1>2, UnderCloses
  <2>8. \A f \in exp0, g \in v[l] \ exp0 : Apart(f, g)
    BY <2>3, <1>2 DEF AllApart
  <2>9. InputsOK(v, l, exp0, exp1)
    <3> HIDE DEF exp1
    <3> QED BY <2>3, <2>6, <2>7, <2>8 DEF InputsOK
  <2>10. ASSUME NoGap(in0) PROVE NoGap(exp0 \cup exp1)
    <3>1. NoGap(both \cup exp0) BY <1>6, <2>4, <2>10
    <3>2. both \cup exp0 = exp0 \cup in1 BY <2>5
    <3>3. PICK lo \in Nat, hi \in Nat : Spans(v, l + 1, in0, lo, hi)
      BY <1>2, <1>3, UnderIs
    <3>4. PICK lo2 \in Nat, hi2 \in Nat : Spans(v, l + 1, exp0, lo2, hi2)
      BY <1>2, <2>6, UnderIs
    <3>5. in1 = Touching(v[l + 1], lo, hi)
      <4>1. in1 = GetOverlappingInputs(v, l + 1, lo, hi) BY <3>3 DEF Spans, in1
      <4> QED BY <4>1, <1>1, <1>2, OverlappingIs
    <3>6. exp1 = Touching(v[l + 1], lo2, hi2)
      <4>1. exp1 = GetOverlappingInputs(v, l + 1, lo2, hi2) BY <3>4 DEF Spans
      <4> QED BY <4>1, <1>1, <1>2, OverlappingIs
    <3> HIDE DEF exp1, both
    <3>7. lo2 <= lo BY <3>3, <3>4, <2>5 DEF Spans
    <3>8. hi <= hi2 BY <3>3, <3>4, <2>5 DEF Spans
    <3>9. \A g \in v[l + 1] : g.smallest.key \in Nat /\ g.largest.key \in Nat /\ FileOK(g)
      BY <1>2, FileType DEF FilesOK
    <3>10. in1 \subseteq exp1
      BY <3>5, <3>6, <3>7, <3>8, <3>9 DEF Touching
    <3>11. PICK c \in exp0 : lo2 = c.smallest.key BY <3>4 DEF Spans
    <3>12. PICK d \in exp0 : hi2 = d.largest.key BY <3>4 DEF Spans
    <3>13. \A h \in exp1 : c.smallest.key <= h.largest.key /\ h.smallest.key <= d.largest.key
      <4>1. \A h \in exp1 : h \in v[l + 1] /\ h.largest.key >= lo2 /\ h.smallest.key <= hi2
        BY <3>6 DEF Touching
      <4> QED BY <4>1, <3>9, <3>11, <3>12
    <3>14. \A f \in (exp0 \cup in1) \cup exp1 : FileOK(f)
      BY <2>1, <2>6, <2>7, <3>9 DEF FilesOK
    <3>15. NoGap((exp0 \cup in1) \cup exp1)
      <4>1. NoGap(exp0 \cup in1) BY <3>1, <3>2
      <4>2. \A h \in exp1 : \E f, g \in exp0 \cup in1 : f.smallest.key <= h.largest.key
                                                     /\ h.smallest.key <= g.largest.key
        BY <3>13
      <4> QED BY <4>1, <4>2, <3>14, NoGapGrows
    <3>16. (exp0 \cup in1) \cup exp1 = exp0 \cup exp1 BY <3>10
    <3> QED BY <3>15, <3>16
  <2> HIDE DEF exp1
  <2> QED BY <2>0, <2>9, <2>10
<1> QED BY <1>7, <1>8, <1>9

\* The files a lookup opens, in the order it opens them.
NumbersDiffer(files) == \A f, g \in files : f.num = g.num => f = g

LEMMA OpenedIs ==
    ASSUME NEW v, NEW k, NEW s
    PROVE  /\ \A h \in Opened(v, k, s) : /\ h = <<h[1], h[2]>> /\ h[1] \in Levels
                                         /\ h[2] \in Candidates(v, h[1], k, s)
                                         /\ h[2] \in v[h[1]]
           /\ \A l \in Levels : \A f \in Candidates(v, l, k, s) : <<l, f>> \in Opened(v, k, s)
<1>1. \A l : Candidates(v, l, k, s) \subseteq v[l]
  BY DEF Candidates, FindFile
<1>2. ASSUME NEW h \in Opened(v, k, s)
      PROVE  /\ h = <<h[1], h[2]>> /\ h[1] \in Levels
             /\ h[2] \in Candidates(v, h[1], k, s)
  <2>1. PICK l \in Levels : h \in {l} \X Candidates(v, l, k, s)
    BY DEF Opened
  <2> QED BY <2>1
<1>3. ASSUME NEW l \in Levels, NEW f \in Candidates(v, l, k, s) PROVE <<l, f>> \in Opened(v, k, s)
  <2>1. <<l, f>> \in {l} \X Candidates(v, l, k, s) OBVIOUS
  <2> QED BY <2>1 DEF Opened
<1> QED BY <1>1, <1>2, <1>3

LEMMA OneOfALevel ==
    ASSUME NEW v, Sorted(v), NEW k, NEW s, NEW g \in Opened(v, k, s), NEW h \in Opened(v, k, s),
           g[1] = h[1], g[1] # 0
    PROVE  g = h
<1>1. /\ g = <<g[1], g[2]>> /\ h = <<h[1], h[2]>> /\ g[1] \in Levels
      /\ g[2] \in Candidates(v, g[1], k, s) /\ h[2] \in Candidates(v, g[1], k, s)
  BY OpenedIs
<1>2. g[2] \in FindFile(v[g[1]], LookupKey(k, s)) /\ h[2] \in FindFile(v[g[1]], LookupKey(k, s))
  BY <1>1 DEF Candidates
<1>3. FilesOK(v[g[1]]) /\ AllApart(v[g[1]]) BY <1>1 DEF Sorted
<1>4. g[2] = h[2] BY <1>2, <1>3, FindFileIs
<1> QED BY <1>1, <1>4

LEMMA OpenedFinite ==
    ASSUME NEW v, Sorted(v), NEW k, NEW s
    PROVE  IsFiniteSet(Opened(v, k, s))
<1> DEFINE part == [l \in Levels |-> {l} \X Candidates(v, l, k, s)]
           parts == {{l} \X Candidates(v, l, k, s) : l \in Levels}
<1>1. part \in Surjection(Levels, parts) BY DEF Surjection
<1>2. IsFiniteSet(Levels)
  BY LevelsAssumption, FS_Interval DEF LevelsAssumption, Levels
<1>3. IsFiniteSet(parts)
  <2> HIDE DEF part, parts
  <2> QED BY <1>1, <1>2, FS_Surjection
<1>4. ASSUME NEW q \in parts PROVE IsFiniteSet(q)
  <2>1. PICK l \in Levels : q = {l} \X Candidates(v, l, k, s) OBVIOUS
  <2>2. Candidates(v, l, k, s) \in SUBSET v[l] BY DEF Candidates, FindFile
  <2>3. IsFiniteSet(v[l]) BY DEF Sorted, FilesOK
  <2>4. IsFiniteSet(Candidates(v, l, k, s)) BY <2>2, <2>3, FS_Subset
  <2>5. IsFiniteSet({l}) BY FS_Singleton
  <2>6. IsFiniteSet({l} \X Candidates(v, l, k, s)) BY <2>4, <2>5, FS_Product
  <2> QED BY <2>1, <2>6
<1>5. Opened(v, k, s) = UNION parts BY DEF Opened
<1> HIDE DEF parts
<1> QED BY <1>3, <1>4, <1>5, FS_UNION

LEMMA FirstSearchedIs ==
    ASSUME NEW v, Sorted(v), NumbersDiffer(v[0]), NEW k, NEW s,
           NEW hits, hits \subseteq Opened(v, k, s), hits # {}
    PROVE  /\ FirstSearched(hits) \in hits
           /\ \A g \in hits : g = FirstSearched(hits) \/ SearchedBefore(FirstSearched(hits), g)
<1> DEFINE R == {p \in hits \X hits : SearchedBefore(p[1], p[2])}
<1>1. \A x, y \in hits : <<x, y>> \in R <=> SearchedBefore(x, y) OBVIOUS
<1> HIDE DEF R
<1>2. IsFiniteSet(hits) BY OpenedFinite, FS_Subset
<1>3. \A h \in hits : /\ h = <<h[1], h[2]>> /\ h[1] \in Levels /\ h[2] \in v[h[1]]
  BY OpenedIs
<1>4. \A h \in hits : h[1] \in Nat /\ h[2].num \in Nat
  <2>1. ASSUME NEW h \in hits PROVE h[1] \in Nat /\ h[2].num \in Nat
    <3>1. FileOK(h[2]) BY <1>3 DEF Sorted, FilesOK
    <3>2. h[1] \in Nat BY <1>3 DEF Levels
    <3> QED BY <3>1, <3>2 DEF FileOK
  <2> QED BY <2>1
<1>5. ASSUME NEW g \in hits, NEW h \in hits, g # h, g[1] = h[1] PROVE g[2].num # h[2].num
  <2>1. g[1] = 0 BY <1>5, OneOfALevel
  <2>2. g[2] # h[2] BY <1>3, <1>5
  <2> QED BY <2>1, <2>2, <1>3, <1>5 DEF NumbersDiffer
<1>6. (\A x \in hits : <<x, x>> \notin R)
      /\ \A x, y, z \in hits : <<x, y>> \in R /\ <<y, z>> \in R => <<x, z>> \in R
  <2>1. \A x \in hits : ~SearchedBefore(x, x) BY <1>4 DEF SearchedBefore
  <2>2. ASSUME NEW x \in hits, NEW y \in hits, NEW z \in hits,
               SearchedBefore(x, y), SearchedBefore(y, z)
        PROVE SearchedBefore(x, z)
    <3>1. x[1] \in Nat /\ y[1] \in Nat /\ z[1] \in Nat
          /\ x[2].num \in Nat /\ y[2].num \in Nat /\ z[2].num \in Nat BY <1>4
    <3> QED BY <3>1, <2>2 DEF SearchedBefore
  <2> QED BY <2>1, <2>2, <1>1
<1>7. PICK h \in hits : \A g \in hits : <<g, h>> \notin R
  BY <1>2, <1>6, Extreme, Zenon
<1>8. ASSUME NEW g \in hits, g # h PROVE SearchedBefore(h, g)
  <2>1. ~SearchedBefore(g, h) BY <1>1, <1>7
  <2>2. h[1] \in Nat /\ g[1] \in Nat /\ h[2].num \in Nat /\ g[2].num \in Nat BY <1>4
  <2>3. g[1] = h[1] => g[2].num # h[2].num BY <1>5, <1>8
  <2> QED BY <2>1, <2>2, <2>3 DEF SearchedBefore
<1>9. \E x \in hits : \A g \in hits : g = x \/ SearchedBefore(x, g) BY <1>8
<1> QED BY <1>9, Zenon DEF FirstSearched

\* A file that lookups are charged with has a file opened after it, so there is a
\* level below its own.
LEMMA SeekIs ==
    ASSUME NEW v, Sorted(v), NumbersDiffer(v[0]), NEW s, NEW h \in SeekCharged(v, s)
    PROVE  h = <<h[1], h[2]>> /\ h[1] \in 0 .. NumLevels - 2 /\ h[2] \in v[h[1]]
<1>1. PICK k \in Keys, t \in 0 .. s : /\ h = FirstSearched(Opened(v, k, t))
                                      /\ Cardinality(Opened(v, k, t)) > 1
  <2> DEFINE Searches == {Opened(v, k, t) : k \in Keys, t \in 0 .. s}
  <2>1. PICK o \in Searches : h = FirstSearched(o) /\ Cardinality(o) > 1
    <3>1. SeekCharged(v, s) = {FirstSearched(o) : o \in {p \in Searches : Cardinality(p) > 1}}
      BY DEF SeekCharged
    <3> HIDE DEF Searches
    <3> QED BY <3>1
  <2>2. PICK k \in Keys, t \in 0 .. s : o = Opened(v, k, t) OBVIOUS
  <2> QED BY <2>1, <2>2
<1> DEFINE o == Opened(v, k, t)
<1>2. IsFiniteSet(o) BY OpenedFinite
<1>3. o # {} /\ \E g \in o : g # h
  <2> SUFFICES ASSUME o \subseteq {h} PROVE FALSE
    <3>1. Cardinality({}) = 0 BY FS_EmptySet
    <3> HIDE DEF o
    <3> QED BY <3>1
  <2>1. IsFiniteSet({h}) /\ Cardinality({h}) = 1 BY FS_Singleton
  <2>2. o \in SUBSET {h} OBVIOUS
  <2>3. Cardinality(o) <= 1 /\ Cardinality(o) \in Nat
    <3> HIDE DEF o
    <3> QED BY <2>1, <2>2, <1>2, FS_Subset, FS_CardinalityType
  <2>4. Cardinality(o) > 1 BY <1>1
  <2> HIDE DEF o
  <2> QED BY <2>3, <2>4
<1>4. h \in o /\ \A g \in o : g = h \/ SearchedBefore(h, g)
  BY <1>1, <1>3, FirstSearchedIs
<1>5. PICK g \in o : g # h BY <1>3
<1>6. \A x \in o : x = <<x[1], x[2]>> /\ x[1] \in Levels /\ x[2] \in v[x[1]]
  BY OpenedIs
<1>7. h[1] # NumLevels - 1
  <2> SUFFICES ASSUME h[1] = NumLevels - 1 PROVE FALSE OBVIOUS
  <2>1. NumLevels \in Nat /\ NumLevels > 1 BY LevelsAssumption DEF LevelsAssumption
  <2>2. g[1] \in 0 .. NumLevels - 1 BY <1>6 DEF Levels
  <2>3. h[1] < g[1] \/ h[1] = g[1] BY <1>4, <1>5 DEF SearchedBefore
  <2>4. h[1] = g[1] /\ g[1] # 0 BY <2>1, <2>2, <2>3
  <2> QED BY <2>4, <1>4, <1>5, OneOfALevel
<1>8. h[1] \in 0 .. NumLevels - 2
  <2>1. h[1] \in 0 .. NumLevels - 1 BY <1>4, <1>6 DEF Levels
  <2>2. NumLevels \in Nat BY LevelsAssumption DEF LevelsAssumption
  <2> QED BY <2>1, <2>2, <1>7
<1> QED BY <1>4, <1>6, <1>8

LEMMA NoGapSingle ==
    ASSUME NEW f, FileOK(f)
    PROVE  NoGap({f})
  BY DEF NoGap

\* A compaction the background thread picks by itself.
LEMMA PickIs ==
    ASSUME NEW v, Sorted(v), NumbersDiffer(v[0]), NEW s, NEW q \in PickCompaction(v, s)
    PROVE  /\ q[1] \in 0 .. NumLevels - 2
           /\ InputsOK(v, q[1], q[2][1], q[2][2]) /\ NoGap(q[2][1] \cup q[2][2])
<1> DEFINE In0(p) == IF p[1] = 0 THEN Under(v, 0, {p[2]}) ELSE {p[2]}
           Picked == (UNION {{l} \X v[l] : l \in SizeLevels(v)}) \cup SeekCharged(v, s)
<1>1. PICK p \in Picked : q \in {p[1]} \X SetupOtherInputs(v, p[1], In0(p))
  <2>1. PickCompaction(v, s) = UNION {{p[1]} \X SetupOtherInputs(v, p[1], In0(p)) : p \in Picked}
    BY Zenon DEF PickCompaction
  <2> HIDE DEF Picked, In0
  <2> QED BY <2>1
<1>2. p[1] \in 0 .. NumLevels - 2 /\ p[2] \in v[p[1]]
  <2>1. CASE p \in SeekCharged(v, s) BY <2>1, SeekIs
  <2>2. CASE p \in UNION {{l} \X v[l] : l \in SizeLevels(v)}
    <3>1. PICK l \in SizeLevels(v) : p \in {l} \X v[l] BY <2>2
    <3>2. l \in 0 .. NumLevels - 2 BY DEF SizeLevels
    <3> QED BY <3>1, <3>2
  <2>3. p \in SeekCharged(v, s) \/ p \in UNION {{l} \X v[l] : l \in SizeLevels(v)}
    BY <1>1
  <2> QED BY <2>1, <2>2, <2>3, Zenon
<1> DEFINE l == p[1]
           in0 == In0(p)
<1>3. l \in Levels /\ 0 \in Levels
  BY <1>2, LevelsAssumption DEF LevelsAssumption, Levels
<1>4. FilesOK(v[l]) /\ FilesOK(v[0]) BY <1>3 DEF Sorted
<1>5. FileOK(p[2]) /\ FilesOK({p[2]})
  <2>1. FileOK(p[2]) BY <1>2, <1>4 DEF FilesOK
  <2>2. IsFiniteSet({p[2]}) BY FS_Singleton
  <2> QED BY <2>1, <2>2 DEF FilesOK
<1>6. /\ in0 \subseteq v[l] /\ in0 # {} /\ NoGap(in0)
      /\ l = 0 => \A f \in in0, g \in v[0] \ in0 : Apart(f, g)
  <2>1. CASE l = 0
    <3>1. in0 = Under(v, 0, {p[2]}) BY <2>1
    <3>2. p[2] \in v[0] BY <2>1, <1>2
    <3> HIDE DEF l, in0
    <3>3. {p[2]} \subseteq v[0] BY <3>2
    <3>4. /\ in0 \subseteq v[0] /\ \A f \in in0, g \in v[0] \ in0 : Apart(f, g)
          /\ {p[2]} \subseteq in0
      BY <3>1, <3>3, <1>4, <1>5, UnderCloses, ZenonT(40)
    <3>5. NoGap({p[2]} \cup in0) BY <3>1, <1>4, <1>5, NoGapSingle, UnderNoGap
    <3>6. {p[2]} \cup in0 = in0 BY <3>4
    <3> QED BY <3>4, <3>5, <3>6, <2>1
  <2>2. CASE l # 0
    <3>1. in0 = {p[2]} BY <2>2
    <3> HIDE DEF in0
    <3> QED BY <3>1, <2>2, <1>2, <1>5, NoGapSingle
  <2> QED BY <2>1, <2>2
<1>7. q[1] = l /\ q[2] \in SetupOtherInputs(v, l, in0)
  BY <1>1
<1> HIDE DEF in0
<1>8. l \in 0 .. NumLevels - 2 BY <1>2
<1> HIDE DEF l
<1>9. InputsOK(v, l, q[2][1], q[2][2]) /\ NoGap(q[2][1] \cup q[2][2])
  BY <1>6, <1>7, <1>8, SetupIs
<1> QED BY <1>7, <1>8, <1>9

\* A compaction for a call of CompactRange.
LEMMA CompactRangeIs ==
    ASSUME NEW v, Sorted(v), NEW l \in 0 .. NumLevels - 2, NEW b \in Nat, NEW e \in Nat,
           NEW q \in CompactRange(v, l, b, e)
    PROVE  q[1] = l /\ InputsOK(v, l, q[2][1], q[2][2])
<1> DEFINE all == GetOverlappingInputs(v, l, b, e)
           From(f) == {g \in all : ~Before(f.smallest, g.smallest)}
           Prefixes == IF l = 0 THEN {all} ELSE {From(f) : f \in all}
<1>0. l \in Levels /\ 0 \in Levels
  BY LevelsAssumption DEF LevelsAssumption, Levels
<1>1. FilesOK(v[l]) BY <1>0 DEF Sorted
<1>2. all # {} /\ \E in0 \in Prefixes : q \in {l} \X SetupOtherInputs(v, l, in0)
  <2>1. CompactRange(v, l, b, e) = IF all = {} THEN {}
                                   ELSE UNION {{l} \X SetupOtherInputs(v, l, in0) : in0 \in Prefixes}
    BY Zenon DEF CompactRange
  <2> HIDE DEF all, Prefixes
  <2> QED BY <2>1
<1>3. /\ all \subseteq v[l]
      /\ l = 0 => all = Touching(v[0], LoKey(all, b), HiKey(all, e))
  BY <1>1, OverlappingIs
<1> HIDE DEF all
<1>4. PICK in0 \in Prefixes : q \in {l} \X SetupOtherInputs(v, l, in0)
  BY <1>2
<1>5. /\ in0 \subseteq v[l] /\ in0 # {}
      /\ l = 0 => \A f \in in0, g \in v[0] \ in0 : Apart(f, g)
  <2>1. CASE l = 0
    <3>1. in0 = all BY <2>1
    <3>2. FilesOK(all) BY <1>1, <1>3, FilesOKParts
    <3>3. ASSUME NEW f \in all, NEW g \in v[0] \ all PROVE Apart(f, g)
      <4>1. LoKey(all, b) \in Nat /\ LoKey(all, b) <= f.smallest.key
        BY <3>2, LoKeyIs DEF FilesOK
      <4>2. HiKey(all, e) \in Nat /\ f.largest.key <= HiKey(all, e)
        BY <3>2, HiKeyIs
      <4>3. ~(g.largest.key >= LoKey(all, b) /\ g.smallest.key <= HiKey(all, e))
        BY <1>3, <2>1 DEF Touching
      <4>4. FileOK(g) /\ FileOK(f) BY <1>1, <2>1, <3>2 DEF FilesOK
      <4>5. g.smallest.key \in Nat /\ g.largest.key \in Nat
            /\ f.smallest.key \in Nat /\ f.largest.key \in Nat BY <4>4, FileType
      <4> QED BY <4>1, <4>2, <4>3, <4>5 DEF Apart
    <3> HIDE DEF Prefixes
    <3> QED BY <3>1, <3>3, <1>2, <1>3
  <2>2. CASE l # 0
    <3>1. PICK f \in all : in0 = From(f) BY <2>2
    <3>2. f.smallest.key \in Nat /\ f.smallest.seq \in Nat
      <4>1. FileOK(f) BY <1>1, <1>3 DEF FilesOK
      <4> QED BY <4>1, FileType, EntryType
    <3>3. f \in From(f) BY <3>2 DEF Before
    <3>4. From(f) \subseteq all OBVIOUS
    <3> HIDE DEF From, Prefixes
    <3> QED BY <3>1, <3>3, <3>4, <2>2, <1>3
  <2> QED BY <2>1, <2>2
<1> HIDE DEF Prefixes
<1>6. q[1] = l /\ q[2] \in SetupOtherInputs(v, l, in0)
  BY <1>4
<1> QED BY <1>5, <1>6, SetupIs

-----------------------------------------------------------------------------
(* What a read finds. *)

\* All of A is newer than all of B.
Newer(A, B) == \A x \in A, y \in B : x.seq > y.seq

InFiles(files) == UNION {f.ents : f \in files}

\* The files of level 0 in the order of their numbers, and the levels one under the
\* other.
ZeroInOrder(v) ==
    /\ NumbersDiffer(v[0])
    /\ \A f, g \in v[0] : f.num > g.num => Newer(f.ents, g.ents)

NeverHop(v) ==
    \A l, m \in Levels : l < m =>
        \A f \in v[l], g \in v[m] : \A x \in f.ents, y \in g.ents :
            x.key = y.key => x.seq > y.seq

LEMMA InFilesIs ==
    ASSUME NEW files
    PROVE  /\ \A f \in files : f.ents \subseteq InFiles(files)
           /\ \A x \in InFiles(files) : \E f \in files : x \in f.ents
  BY DEF InFiles

LEMMA VersionEntries ==
    ASSUME NEW v
    PROVE  /\ \A l \in Levels : \A f \in v[l] : f \in AllFiles(v) /\ f.ents \subseteq InFiles(AllFiles(v))
           /\ \A x \in InFiles(AllFiles(v)) : \E l \in Levels : \E f \in v[l] : x \in f.ents
<1>1. ASSUME NEW l \in Levels, NEW f \in v[l] PROVE f \in AllFiles(v)
  BY DEF AllFiles
<1>2. ASSUME NEW f \in AllFiles(v) PROVE \E l \in Levels : f \in v[l]
  BY DEF AllFiles
<1> QED BY <1>1, <1>2, InFilesIs

LEMMA NewestIs ==
    ASSUME NEW S, S \subseteq Entry, S # {}
    PROVE  Newest(S) \in S /\ \A f \in S : f.seq <= Newest(S).seq
<1> DEFINE D == {MaxSeq - e.seq : e \in S}
<1>0. MaxSeq \in Nat BY LevelsAssumption DEF LevelsAssumption
<1>1. \A e \in S : e.seq \in Nat /\ e.seq <= MaxSeq BY EntryType
<1>2. D \subseteq Nat /\ D # {} BY <1>0, <1>1
<1>3. PICK d \in D : \A x \in D : d <= x
  <2> HIDE DEF D
  <2> QED BY <1>2, LeastNumber
<1>4. PICK e \in S : d = MaxSeq - e.seq OBVIOUS
<1>5. ASSUME NEW f \in S PROVE f.seq <= e.seq
  <2>1. MaxSeq - f.seq \in D OBVIOUS
  <2> HIDE DEF D
  <2>2. MaxSeq - e.seq <= MaxSeq - f.seq BY <2>1, <1>3, <1>4
  <2> QED BY <2>2, <1>0, <1>1
<1> HIDE DEF D
<1> QED BY <1>5 DEF Newest

LEMMA ValueIs ==
    ASSUME NEW B, B \subseteq Entry, Distinct(B), NEW k, NEW s, NEW n \in Visible(B, k, s),
           \A f \in Visible(B, k, s) : f.seq <= n.seq
    PROVE  ValueIn(B, k, s) = ValueOf(n)
<1> DEFINE S == Visible(B, k, s)
<1>1. S \subseteq B BY DEF Visible
<1>2. n \in S OBVIOUS
<1>3. \A f \in S : f.seq <= n.seq OBVIOUS
<1>4. ValueIn(B, k, s) = IF S = {} THEN 0 ELSE ValueOf(Newest(S)) BY DEF ValueIn
<1> HIDE DEF S
<1>5. Newest(S) \in S /\ n.seq <= Newest(S).seq BY <1>1, <1>2, NewestIs
<1>6. Newest(S).seq <= n.seq BY <1>3, <1>5
<1>7. Newest(S) \in Entry /\ n \in Entry BY <1>1, <1>2, <1>5
<1>8. Newest(S).seq \in Nat /\ n.seq \in Nat BY <1>7, EntryType
<1>9. Newest(S).seq = n.seq BY <1>5, <1>6, <1>8
<1>10. Newest(S) = n BY <1>1, <1>2, <1>5, <1>9 DEF Distinct
<1> QED BY <1>2, <1>4, <1>10

\* Looking in a part of the entries is enough when it has something visible and what
\* is outside of it is older.
LEMMA ValueOfPart ==
    ASSUME NEW A, NEW B, A \subseteq B, B \subseteq Entry, Distinct(B), NEW k, NEW s,
           Visible(A, k, s) # {},
           \A x \in Visible(A, k, s), y \in Visible(B, k, s) : y \in A \/ x.seq > y.seq
    PROVE  ValueIn(A, k, s) = ValueIn(B, k, s)
<1> DEFINE S == Visible(A, k, s)
           n == Newest(S)
<1>1. S \subseteq Entry /\ S \subseteq Visible(B, k, s) BY DEF Visible
<1>2. Distinct(A) BY DEF Distinct
<1>3. n \in S /\ \A f \in S : f.seq <= n.seq
  <2>1. S # {} OBVIOUS
  <2> HIDE DEF S
  <2> QED BY <2>1, <1>1, NewestIs
<1>4. \A y \in Visible(B, k, s) : y.seq \in Nat /\ (y \in A => y \in S)
  <2>1. \A y \in Visible(B, k, s) : y \in Entry BY DEF Visible
  <2>2. \A y \in Visible(B, k, s) : y \in A => y \in S BY DEF Visible
  <2> QED BY <2>1, <2>2, EntryType
<1>5. ASSUME NEW y \in Visible(B, k, s) PROVE y.seq <= n.seq
  <2>1. n \in Visible(B, k, s) BY <1>1, <1>3
  <2>2. n.seq \in Nat /\ y.seq \in Nat BY <1>4, <2>1
  <2>3. y \in A \/ n.seq > y.seq BY <1>3
  <2> HIDE DEF n, S
  <2> QED BY <2>2, <2>3, <1>3, <1>4
<1>6. ValueIn(A, k, s) = ValueOf(n)
  <2>1. A \subseteq Entry OBVIOUS
  <2>2. n \in Visible(A, k, s) /\ \A f \in Visible(A, k, s) : f.seq <= n.seq BY <1>3
  <2> HIDE DEF n, S
  <2> QED BY <2>1, <2>2, <1>2, ValueIs
<1>7. ValueIn(B, k, s) = ValueOf(n)
  <2>1. n \in Visible(B, k, s) BY <1>1, <1>3
  <2> HIDE DEF n, S
  <2> QED BY <2>1, <1>5, ValueIs
<1> QED BY <1>6, <1>7

\* A lookup that stops at the first file with an answer finds the newest entry.
LEMMA LookupIs ==
    ASSUME NEW v, Sorted(v), ZeroInOrder(v), NeverHop(v), Distinct(InFiles(AllFiles(v))),
           NEW k \in Keys, NEW s \in Nat
    PROVE  VersionGet(v, k, s) = ValueIn(InFiles(AllFiles(v)), k, s)
<1> DEFINE B == InFiles(AllFiles(v))
           hits == {h \in Opened(v, k, s) : Visible(h[2].ents, k, s) # {}}
<1>0. k \in Nat BY LevelsAssumption DEF LevelsAssumption
<1>1. VersionGet(v, k, s) = IF hits = {} THEN 0 ELSE ValueIn(FirstSearched(hits)[2].ents, k, s)
  BY DEF VersionGet
<1>2. \A l \in Levels : FilesOK(v[l]) /\ (l # 0 => AllApart(v[l])) BY DEF Sorted
<1>3. ASSUME NEW l \in Levels, NEW f \in v[l], Visible(f.ents, k, s) # {} PROVE <<l, f>> \in hits
  <2>1. FileOK(f) BY <1>2 DEF FilesOK
  <2>2. f \in Candidates(v, l, k, s)
    <3>1. CASE l = 0
      <4>1. PICK e \in f.ents : e.key = k BY <1>3 DEF Visible
      <4>2. f.smallest.key <= k /\ k <= f.largest.key BY <2>1, <4>1, FileType
      <4> QED BY <3>1, <4>2 DEF Candidates
    <3>2. CASE l # 0
      <4>1. f \in FindFile(v[l], LookupKey(k, s)) /\ f.smallest.key <= k
        BY <1>0, <1>2, <1>3, <3>2, SortedLookup
      <4> QED BY <3>2, <4>1 DEF Candidates
    <3> QED BY <3>1, <3>2
  <2>3. <<l, f>> \in Opened(v, k, s) BY <2>2, OpenedIs
  <2> QED BY <2>3, <1>3
<1>4. \A y \in Visible(B, k, s) : y \in B /\ y.key = k /\ y.seq <= s
  BY DEF Visible
<1>5. ASSUME NEW y \in Visible(B, k, s)
      PROVE \E l \in Levels : \E f \in v[l] : y \in f.ents /\ <<l, f>> \in hits
  <2>0. PICK l \in Levels : \E f \in v[l] : y \in f.ents BY <1>4, VersionEntries
  <2>1. PICK f \in v[l] : y \in f.ents BY <2>0
  <2>2. y \in Visible(f.ents, k, s) BY <2>1, <1>4 DEF Visible
  <2> HIDE DEF hits
  <2> QED BY <2>1, <2>2, <1>3
<1>6. B \subseteq Entry
  <2>1. ASSUME NEW x \in B PROVE x \in Entry
    <3>0. PICK l \in Levels : \E f \in v[l] : x \in f.ents BY VersionEntries
    <3>1. PICK f \in v[l] : x \in f.ents BY <3>0
    <3> QED BY <3>1, <1>2 DEF FilesOK, FileOK
  <2> QED BY <2>1
<1>10. hits \subseteq Opened(v, k, s) /\ \A h \in hits : Visible(h[2].ents, k, s) # {} OBVIOUS
<1> HIDE DEF hits, B
<1>7. CASE hits = {}
  <2>1. Visible(B, k, s) = {} BY <1>5, <1>7
  <2>2. ValueIn(B, k, s) = 0 BY <2>1 DEF ValueIn
  <2> QED BY <2>2, <1>1, <1>7 DEF B
<1>8. CASE hits # {}
  <2> DEFINE h == FirstSearched(hits)
             A == h[2].ents
  <2>1. h \in hits /\ \A g \in hits : g = h \/ SearchedBefore(h, g)
    BY <1>8, <1>10, FirstSearchedIs DEF ZeroInOrder
  <2>2. h \in Opened(v, k, s) /\ Visible(A, k, s) # {} BY <2>1, <1>10
  <2>3. h[1] \in Levels /\ h[2] \in v[h[1]] BY <2>2, OpenedIs
  <2>4. A \subseteq B BY <2>3, VersionEntries DEF B
  <2>5. VersionGet(v, k, s) = ValueIn(A, k, s) BY <1>1, <1>8
  <2>6. ASSUME NEW x \in Visible(A, k, s), NEW y \in Visible(B, k, s) PROVE y \in A \/ x.seq > y.seq
    <3>0. PICK l \in Levels : \E f \in v[l] : y \in f.ents /\ <<l, f>> \in hits BY <1>5
    <3>1. PICK f \in v[l] : y \in f.ents /\ <<l, f>> \in hits BY <3>0
    <3>2. x \in A /\ x.key = y.key BY <1>4 DEF Visible
    <3>3. <<l, f>> = h \/ SearchedBefore(h, <<l, f>>) BY <2>1, <3>1
    <3>4. CASE <<l, f>> = h
      <4>1. h[2] = f BY <3>4
      <4> QED BY <4>1, <3>1
    <3>5. CASE h[1] < l
      <4> HIDE DEF h
      <4> QED BY <3>1, <3>2, <3>5, <2>3 DEF NeverHop
    <3>6. CASE h[1] = l /\ h[2].num > f.num
      <4>1. CASE l = 0
        <5> HIDE DEF h
        <5> QED BY <4>1, <3>1, <3>2, <3>6, <2>3 DEF ZeroInOrder, Newer
      <4>2. CASE l # 0
        <5>1. <<l, f>> \in Opened(v, k, s) BY <3>1, <1>10
        <5>2. <<l, f>>[1] = h[1] BY <3>6
        <5>3. <<l, f>> = h
          <6> HIDE DEF h
          <6> QED BY <5>1, <5>2, <4>2, <2>2, OneOfALevel
        <5> QED BY <5>3, <3>4
      <4> QED BY <4>1, <4>2
    <3> QED BY <3>3, <3>4, <3>5, <3>6 DEF SearchedBefore
  <2> HIDE DEF h, A
  <2>7. ValueIn(A, k, s) = ValueIn(B, k, s)
    <3>1. Distinct(B) BY DEF B
    <3> QED BY <3>1, <2>2, <2>4, <2>6, <1>6, ValueOfPart
  <2> QED BY <2>5, <2>7 DEF B
<1> QED BY <1>7, <1>8

\* Leaving out what Survivors drops changes no value at or after the smallest
\* snapshot, as long as what stays of a key beside the inputs is newer than them
\* wherever a deletion is dropped.
THEOREM SurvivorsKeepValues ==
    ASSUME NEW c, c.smallest \in Nat, NEW M, M \subseteq Entry, Distinct(M),
           NEW N, N \subseteq M,
           InFiles(c.in0 \cup c.in1) \subseteq M, Survivors(c) \subseteq N,
           M \ N \subseteq InFiles(c.in0 \cup c.in1) \ Survivors(c),
           \A x \in InFiles(c.in0 \cup c.in1), y \in N \ Survivors(c) :
               x.key = y.key /\ IsBaseLevelForKey(c.base, c.level, x.key) => y.seq > x.seq,
           NEW k, NEW s \in Nat, c.smallest <= s
    PROVE  ValueIn(N, k, s) = ValueIn(M, k, s)
<1> DEFINE all == InFiles(c.in0 \cup c.in1)
           kept == Survivors(c)
           V == Visible(M, k, s)
           W == Visible(N, k, s)
           Hidden(e) == \E n \in all : n.key = e.key /\ n.seq > e.seq /\ n.seq <= c.smallest
           Obsolete(e) == /\ e.del /\ e.seq <= c.smallest
                          /\ IsBaseLevelForKey(c.base, c.level, e.key)
<1>1. kept = {e \in all : ~Hidden(e) /\ ~Obsolete(e)}
  BY Zenon DEF Survivors, InFiles
<1>11. /\ \A e \in kept : ~Hidden(e)
       /\ \A e \in all : e \in kept \/ Hidden(e) \/ Obsolete(e)
  BY <1>1
<1>2. /\ \A y \in V : y \in M /\ y.key = k /\ y.seq <= s
      /\ \A y \in W : y \in N /\ y.key = k /\ y.seq <= s /\ y \in V
      /\ \A y \in V : y \in N => y \in W
      /\ \A y \in M : y.key = k /\ y.seq <= s => y \in V
  BY DEF Visible
<1>3. /\ V = {} => ValueIn(M, k, s) = 0
      /\ W = {} => ValueIn(N, k, s) = 0
  BY DEF ValueIn
<1>4. /\ \A n \in V : (\A f \in V : f.seq <= n.seq) => ValueIn(M, k, s) = ValueOf(n)
      /\ \A n \in W : (\A f \in W : f.seq <= n.seq) => ValueIn(N, k, s) = ValueOf(n)
  <2>1. N \subseteq Entry /\ Distinct(N) BY DEF Distinct
  <2>2. ASSUME NEW n \in V, \A f \in V : f.seq <= n.seq PROVE ValueIn(M, k, s) = ValueOf(n)
    BY <2>2, ValueIs
  <2>3. ASSUME NEW n \in W, \A f \in W : f.seq <= n.seq PROVE ValueIn(N, k, s) = ValueOf(n)
    BY <2>1, <2>3, ValueIs
  <2> QED BY <2>2, <2>3
<1>5. \A x, y \in N \cup M : x.seq \in Nat /\ (x.seq = y.seq => x = y)
  BY EntryType DEF Distinct
<1>6. \A x \in all : x \in M OBVIOUS
<1>7. \A x \in M : x \in N \/ (x \in all /\ x \notin kept) OBVIOUS
<1>8. \A x \in all : \A y \in N : y \in kept \/ ~(x.key = y.key /\ IsBaseLevelForKey(c.base, c.level, x.key))
                                  \/ y.seq > x.seq
  OBVIOUS
<1>9. V \subseteq Entry BY <1>2
<1> HIDE DEF V, W, all, kept
<1>10. CASE V = {}
  <2>1. W = {} BY <1>2, <1>10
  <2> QED BY <2>1, <1>3, <1>10
<1>12. CASE V # {}
  <2> DEFINE n == Newest(V)
  <2>1. n \in V /\ \A f \in V : f.seq <= n.seq BY <1>9, <1>12, NewestIs
  <2> HIDE DEF n
  <2>2. ValueIn(M, k, s) = ValueOf(n) BY <2>1, <1>4
  <2>3. n \in M /\ n.key = k /\ n.seq <= s /\ n.seq \in Nat BY <2>1, <1>2, <1>5
  <2>4. CASE n \in N
    <3>1. n \in W BY <2>4, <2>1, <1>2
    <3>2. \A f \in W : f.seq <= n.seq BY <2>1, <1>2
    <3> QED BY <3>1, <3>2, <2>2, <1>4
  <2>5. CASE n \notin N
    <3>1. n \in all /\ n \notin kept BY <2>3, <2>5, <1>7
    <3>2. ~Hidden(n)
      <4> SUFFICES ASSUME NEW m \in all, m.key = n.key, m.seq > n.seq, m.seq <= c.smallest PROVE FALSE
        OBVIOUS
      <4>1. m \in M /\ m.seq \in Nat BY <1>5, <1>6
      <4>2. m.seq <= s BY <4>1
      <4>3. m \in V BY <4>1, <4>2, <2>3, <1>2
      <4> QED BY <4>1, <4>3, <2>1, <2>3
    <3>3. n.del /\ n.seq <= c.smallest /\ IsBaseLevelForKey(c.base, c.level, n.key)
      BY <3>1, <3>2, <1>11
    <3>4. W = {}
      <4> SUFFICES ASSUME NEW y \in W PROVE FALSE OBVIOUS
      <4>1. y \in N /\ y.key = k /\ y \in V BY <1>2
      <4>2. y.seq <= n.seq /\ y # n /\ y.seq \in Nat BY <4>1, <2>1, <2>5, <1>5
      <4>3. y.seq < n.seq BY <4>1, <4>2, <2>3, <1>5
      <4>4. y \in kept BY <4>1, <4>3, <4>2, <3>1, <3>3, <2>3, <1>8
      <4>5. Hidden(y) BY <4>1, <4>3, <3>1, <3>3, <2>3
      <4> QED BY <4>4, <4>5, <1>11
    <3>5. ValueOf(n) = 0 BY <3>3 DEF ValueOf
    <3> QED BY <3>4, <3>5, <2>2, <1>3
  <2> QED BY <2>4, <2>5
<1> QED BY <1>10, <1>12

-----------------------------------------------------------------------------
(* The inductive invariant. *)

\* imm_, empty when there is none.
Held == IF imm = <<>> THEN {} ELSE imm[1]

ManualOK(m) ==
    /\ m \in [level : Nat, from : Nat, begin : Nat, end : Nat, top : 1 .. NumLevels - 1]
    /\ m.level < m.top

TypeInv ==
    /\ lastSeq \in 0 .. MaxSeq /\ nextFile \in Nat
    /\ mem \subseteq Entry /\ IsFiniteSet(mem)
    /\ Held \subseteq Entry /\ IsFiniteSet(Held)
    /\ snaps \subseteq 0 .. lastSeq
    /\ manual = <<>> \/ ManualOK(manual[1])

\* Every write has a number of its own, and what is in memory is newer than what is
\* in the files.
SeqInv ==
    /\ Distinct(Merged) /\ \A x \in Merged : x.seq <= lastSeq
    /\ Newer(mem, Held) /\ Newer(mem \cup Held, InFiles(AllFiles(version)))

\* The files of a version, n the next number to give.
FilesPlaced(v, n) ==
    /\ v = [l \in Levels |-> v[l]] /\ \A l \in Levels : FilesOK(v[l])
    /\ \A f \in v[0] : f.num < n
    /\ ZeroInOrder(v) /\ NeverHop(v)

FilesInv == FilesPlaced(version, nextFile)

\* A compaction whose work runs without the mutex.  What was flushed since it picked
\* its inputs is newer than them where it shares a key, and lies above them.
WorkOK(c) ==
    /\ c.level \in 0 .. NumLevels - 2
    /\ c.in0 # {} /\ c.in0 \subseteq version[c.level] /\ c.in1 \subseteq version[c.level + 1]
    /\ c.smallest \in 0 .. lastSeq /\ \A s \in snaps : c.smallest <= s
    /\ c.byHand \in BOOLEAN /\ (c.byHand => manual # <<>>)
    /\ \A f \in c.in0, g \in version[c.level] \ c.in0 :
           Apart(f, g) \/ (c.level = 0 /\ Newer(g.ents, f.ents))
    /\ \A f \in c.in0, g \in version[c.level + 1] \ c.in1 : Apart(f, g)
    /\ \A e \in InFiles(c.in0 \cup c.in1) : IsBaseLevelForKey(c.base, c.level, e.key) =>
           \A m \in c.level + 2 .. NumLevels - 1 : \A g \in version[m] : \A y \in g.ents : y.key # e.key

BgInv == bg = <<>> \/ WorkOK(bg[1])

DataInv == TypeInv /\ SeqInv /\ FilesInv /\ BgInv

\* The files of a level below level 0 share no user key.
KeysApart == \A l \in Levels \ {0} : AllApart(version[l])

LEMMA SortedVersion ==
    ASSUME FilesInv, KeysApart
    PROVE  Sorted(version)
  BY DEF FilesInv, FilesPlaced, KeysApart, Sorted

LEMMA MergedIs == Merged = mem \cup Held \cup InFiles(AllFiles(version))
  BY DEF Merged, Held, InFiles

LEMMA FileEntries ==
    ASSUME NEW v, \A l \in Levels : FilesOK(v[l])
    PROVE  InFiles(AllFiles(v)) \subseteq Entry
<1>1. ASSUME NEW x \in InFiles(AllFiles(v)) PROVE x \in Entry
  <2>1. PICK l \in Levels : \E f \in v[l] : x \in f.ents BY VersionEntries
  <2>2. PICK f \in v[l] : x \in f.ents BY <2>1
  <2> QED BY <2>2 DEF FilesOK, FileOK
<1> QED BY <1>1

LEMMA MergedEntries ==
    ASSUME TypeInv, FilesInv
    PROVE  Merged \subseteq Entry
<1>1. InFiles(AllFiles(version)) \subseteq Entry
  BY FileEntries DEF FilesInv, FilesPlaced
<1> QED BY <1>1, MergedIs DEF TypeInv

\* A read stops at the first of memtable, old memtable and files that has an answer;
\* it finds what a merge of all of them shows.
LEMMA ReadsAgree ==
    ASSUME DataInv, KeysApart, NEW k \in Keys, NEW s \in Nat
    PROVE  Get(k, s) = ValueIn(Merged, k, s)
<1> DEFINE F == InFiles(AllFiles(version))
<1>0. Merged \subseteq Entry /\ Distinct(Merged)
  BY MergedEntries DEF DataInv, SeqInv
<1>1. Distinct(Merged) /\ Merged = mem \cup Held \cup F
  BY MergedIs DEF DataInv, SeqInv
<1>2. Newer(mem, Held) /\ Newer(mem \cup Held, F) BY DEF DataInv, SeqInv
<1>3. VersionGet(version, k, s) = ValueIn(F, k, s)
  <2>1. Sorted(version) BY SortedVersion DEF DataInv
  <2>2. ZeroInOrder(version) /\ NeverHop(version) BY DEF DataInv, FilesInv, FilesPlaced
  <2>3. Distinct(F)
    <3> HIDE DEF F
    <3> QED BY <1>1 DEF Distinct
  <2> QED BY <2>1, <2>2, <2>3, LookupIs
<1>4. Get(k, s) = CASE Visible(mem, k, s) # {}  -> ValueIn(mem, k, s)
                    [] Visible(mem, k, s) = {} /\ Visible(Held, k, s) # {} -> ValueIn(Held, k, s)
                    [] OTHER -> VersionGet(version, k, s)
  BY Zenon DEF Get, Held
<1> HIDE DEF F
<1>5. CASE Visible(mem, k, s) # {}
  <2>1. Get(k, s) = ValueIn(mem, k, s) BY <1>4, <1>5
  <2>2. \A x \in Visible(mem, k, s), y \in Visible(Merged, k, s) : y \in mem \/ x.seq > y.seq
    <3>1. \A x \in Visible(mem, k, s) : x \in mem BY DEF Visible
    <3>2. \A y \in Visible(Merged, k, s) : y \in mem \/ y \in Held \/ y \in F BY <1>1 DEF Visible
    <3> QED BY <3>1, <3>2, <1>2 DEF Newer
  <2>3. mem \subseteq Merged BY <1>1
  <2>4. ValueIn(mem, k, s) = ValueIn(Merged, k, s)
    BY <2>2, <2>3, <1>0, <1>5, ValueOfPart
  <2> QED BY <2>1, <2>4
<1>6. CASE Visible(mem, k, s) = {} /\ Visible(Held, k, s) # {}
  <2>1. Get(k, s) = ValueIn(Held, k, s) BY <1>4, <1>6
  <2>2. \A x \in Visible(Held, k, s), y \in Visible(Merged, k, s) : y \in Held \/ x.seq > y.seq
    <3>1. \A x \in Visible(Held, k, s) : x \in Held BY DEF Visible
    <3>2. \A y \in Visible(Merged, k, s) : y \in Visible(mem, k, s) \/ y \in Held \/ y \in F
      BY <1>1 DEF Visible
    <3> QED BY <3>1, <3>2, <1>2, <1>6 DEF Newer
  <2>3. Held \subseteq Merged BY <1>1
  <2>4. ValueIn(Held, k, s) = ValueIn(Merged, k, s)
    BY <2>2, <2>3, <1>0, <1>6, ValueOfPart
  <2> QED BY <2>1, <2>4
<1>7. CASE Visible(mem, k, s) = {} /\ Visible(Held, k, s) = {}
  <2>1. Get(k, s) = VersionGet(version, k, s) BY <1>4, <1>7
  <2>2. Visible(Merged, k, s) = Visible(F, k, s) BY <1>1, <1>7 DEF Visible
  <2>3. ValueIn(Merged, k, s) = ValueIn(F, k, s) BY <2>2 DEF ValueIn
  <2> QED BY <2>1, <2>3, <1>3
<1> QED BY <1>5, <1>6, <1>7

-----------------------------------------------------------------------------
(* A version edited: a file added, and inputs replaced by outputs. *)

LEMMA ApplyIs ==
    ASSUME NEW v, v = [l \in Levels |-> v[l]], NEW l \in Levels, NEW D, NEW A
    PROVE  /\ Apply(v, l, D, A) = [m \in Levels |-> Apply(v, l, D, A)[m]]
           /\ Apply(v, l, D, A)[l] = (v[l] \ D) \cup A
           /\ \A m \in Levels : m # l => Apply(v, l, D, A)[m] = v[m]
  BY DEF Apply

LEMMA LevelNumbers ==
    /\ NumLevels \in Nat /\ 0 \in Levels /\ \A l \in Levels : l \in Nat
    /\ \A l \in 0 .. NumLevels - 2 : l \in Levels /\ l + 1 \in Levels /\ l + 1 # 0 /\ l < l + 1
    /\ MaxMemCompactLevel \in Nat /\ \A l \in 0 .. MaxMemCompactLevel : l \in Levels
<1>1. NumLevels \in Nat /\ MaxMemCompactLevel \in 1 .. NumLevels - 2
  BY LevelsAssumption DEF LevelsAssumption
<1> QED BY <1>1 DEF Levels

\* A new table of entries newer than all others may go where nothing above touches it.
LEMMA AddFile ==
    ASSUME NEW v, NEW n \in Nat, FilesPlaced(v, n), NEW l \in Levels, NEW f, FileOK(f),
           f.num >= n, NEW n2 \in Nat, n2 > f.num,
           Newer(f.ents, InFiles(AllFiles(v))),
           \A m \in Levels : m < l => \A g \in v[m] : Apart(f, g)
    PROVE  LET w == Apply(v, l, {}, {f})
           IN  /\ FilesPlaced(w, n2)
               /\ InFiles(AllFiles(w)) = InFiles(AllFiles(v)) \cup f.ents
               /\ w[l] = v[l] \cup {f} /\ \A m \in Levels : m # l => w[m] = v[m]
<1> DEFINE w == Apply(v, l, {}, {f})
<1>1. /\ w = [m \in Levels |-> w[m]]
      /\ w[l] = v[l] \cup {f} /\ \A m \in Levels : m # l => w[m] = v[m]
  <2>1. v = [m \in Levels |-> v[m]] BY DEF FilesPlaced
  <2> DEFINE none == {}
             one == {f}
  <2>2. w = Apply(v, l, none, one) OBVIOUS
  <2> HIDE DEF none, one, w
  <2>3. /\ w = [m \in Levels |-> w[m]] /\ w[l] = (v[l] \ none) \cup one
        /\ \A m \in Levels : m # l => w[m] = v[m]
    BY <2>1, <2>2, ApplyIs
  <2> QED BY <2>3 DEF none, one
<1> HIDE DEF w
<1>2. \A m \in Levels : \A g \in w[m] : g \in v[m] \/ (g = f /\ m = l)
  BY <1>1
<1>3. \A m \in Levels : v[m] \subseteq w[m] BY <1>1
<1>4. f.num \in Nat /\ f.ents \subseteq Entry BY DEF FileOK
<1>5. \A m \in Levels : \A g \in v[m] : /\ FileOK(g) /\ Newer(f.ents, g.ents)
  <2>1. ASSUME NEW m \in Levels, NEW g \in v[m] PROVE FileOK(g) /\ Newer(f.ents, g.ents)
    <3>1. FileOK(g) BY DEF FilesPlaced, FilesOK
    <3>2. g.ents \subseteq InFiles(AllFiles(v)) BY VersionEntries
    <3> QED BY <3>1, <3>2 DEF Newer
  <2> QED BY <2>1
<1>6. \A m \in Levels : FilesOK(w[m])
  <2>1. ASSUME NEW m \in Levels PROVE FilesOK(w[m])
    <3>1. FilesOK(v[m]) BY DEF FilesPlaced
    <3>2. FilesOK({f}) BY FS_Singleton DEF FilesOK
    <3>3. FilesOK(v[m] \cup {f}) BY <3>1, <3>2, FilesOKParts
    <3> QED BY <3>1, <3>3, <1>1
  <2> QED BY <2>1
<1>7. \A g \in v[0] : g.num < n /\ g.num \in Nat
  BY <1>5, LevelNumbers DEF FilesPlaced, FileOK
<1>8. \A g \in w[0] : g.num < n2
  BY <1>2, <1>4, <1>7, LevelNumbers
<1>9. ZeroInOrder(w)
  <2>1. ASSUME NEW g \in w[0], NEW h \in w[0], g.num = h.num PROVE g = h
    <3>1. (g \in v[0] \/ g = f) /\ (h \in v[0] \/ h = f) BY <1>2, LevelNumbers
    <3>2. g \in v[0] /\ h \in v[0] => g = h
      BY <2>1 DEF FilesPlaced, ZeroInOrder, NumbersDiffer
    <3> QED BY <3>1, <3>2, <2>1, <1>4, <1>7
  <2>2. ASSUME NEW g \in w[0], NEW h \in w[0], g.num > h.num PROVE Newer(g.ents, h.ents)
    <3>1. (g \in v[0] \/ g = f) /\ (h \in v[0] \/ h = f) BY <1>2, LevelNumbers
    <3>2. g \in v[0] /\ h \in v[0] => Newer(g.ents, h.ents)
      BY <2>2 DEF FilesPlaced, ZeroInOrder
    <3>3. h \in v[0] => Newer(f.ents, h.ents) BY <1>5, LevelNumbers
    <3>4. ~(h = f) BY <3>1, <2>2, <1>4, <1>7
    <3> QED BY <3>1, <3>2, <3>3, <3>4
  <2> QED BY <2>1, <2>2 DEF ZeroInOrder, NumbersDiffer
<1>10. NeverHop(w)
  <2> SUFFICES ASSUME NEW p \in Levels, NEW m \in Levels, p < m, NEW g \in w[p], NEW h \in w[m],
                      NEW x \in g.ents, NEW y \in h.ents, x.key = y.key
               PROVE  x.seq > y.seq
    BY DEF NeverHop
  <2>0. p \in Nat /\ m \in Nat BY LevelNumbers
  <2>1. CASE g \in v[p] /\ h \in v[m]
    BY <2>1 DEF FilesPlaced, NeverHop
  <2>2. CASE g = f /\ p = l /\ h \in v[m]
    BY <2>2, <1>5 DEF Newer
  <2>3. CASE h = f /\ m = l /\ g \in v[p]
    <3>1. Apart(f, g) /\ FileOK(g) BY <2>3, <1>5
    <3> QED BY <3>1, <2>3, ApartKeys
  <2>4. ~(p = l /\ m = l) BY <2>0
  <2> QED BY <2>1, <2>2, <2>3, <2>4, <1>2
<1>11. InFiles(AllFiles(w)) = InFiles(AllFiles(v)) \cup f.ents
  <2>1. ASSUME NEW x \in InFiles(AllFiles(w)) PROVE x \in InFiles(AllFiles(v)) \cup f.ents
    <3>0. PICK m \in Levels : \E g \in w[m] : x \in g.ents BY VersionEntries
    <3>1. PICK g \in w[m] : x \in g.ents BY <3>0
    <3>2. g \in v[m] => x \in InFiles(AllFiles(v)) BY <3>1, VersionEntries
    <3> QED BY <3>1, <3>2, <1>2
  <2>2. ASSUME NEW x \in InFiles(AllFiles(v)) PROVE x \in InFiles(AllFiles(w))
    <3>0. PICK m \in Levels : \E g \in v[m] : x \in g.ents BY VersionEntries
    <3>1. PICK g \in v[m] : x \in g.ents BY <3>0
    <3>2. g \in w[m] BY <1>3
    <3> QED BY <3>1, <3>2, VersionEntries
  <2>3. f.ents \subseteq InFiles(AllFiles(w))
    <3>1. f \in w[l] BY <1>1
    <3> QED BY <3>1, VersionEntries
  <2> QED BY <2>1, <2>2, <2>3
<1>12. FilesPlaced(w, n2) BY <1>1, <1>6, <1>8, <1>9, <1>10 DEF FilesPlaced
<1> QED BY <1>1, <1>11, <1>12 DEF w

\* The outputs of a merge may go one level below its first inputs, when what stays on
\* that level of their keys is newer.
Merge(v, l, in0, in1, outs) == Apply(Apply(v, l, in0, {}), l + 1, in1, outs)

LEMMA MergeIs ==
    ASSUME NEW v, v = [m \in Levels |-> v[m]], NEW l \in 0 .. NumLevels - 2,
           NEW in0, NEW in1, NEW outs
    PROVE  LET w == Merge(v, l, in0, in1, outs)
           IN  /\ w = [m \in Levels |-> w[m]]
               /\ w[l] = v[l] \ in0 /\ w[l + 1] = (v[l + 1] \ in1) \cup outs
               /\ \A m \in Levels : m # l /\ m # l + 1 => w[m] = v[m]
<1> DEFINE u == Apply(v, l, in0, {})
           w == Apply(u, l + 1, in1, outs)
<1>1. l \in Levels /\ l + 1 \in Levels /\ l # l + 1 BY LevelNumbers
<1>2. /\ u = [m \in Levels |-> u[m]] /\ u[l] = v[l] \ in0
      /\ \A m \in Levels : m # l => u[m] = v[m]
  BY <1>1, ApplyIs
<1> HIDE DEF u
<1>3. /\ w = [m \in Levels |-> w[m]] /\ w[l + 1] = (u[l + 1] \ in1) \cup outs
      /\ \A m \in Levels : m # l + 1 => w[m] = u[m]
  BY <1>1, <1>2, ApplyIs
<1> HIDE DEF w
<1>4. Merge(v, l, in0, in1, outs) = w BY DEF Merge, w, u
<1> QED BY <1>1, <1>2, <1>3, <1>4

LEMMA MergeKeepsPlaces ==
    ASSUME NEW v, NEW n \in Nat, FilesPlaced(v, n), NEW l \in 0 .. NumLevels - 2,
           NEW in0, NEW in1, NEW outs, in0 \subseteq v[l], in1 \subseteq v[l + 1],
           FilesOK(outs), InFiles(outs) \subseteq InFiles(in0 \cup in1),
           \A f \in in0, g \in v[l] \ in0 : \A x \in f.ents, y \in g.ents :
               x.key = y.key => y.seq > x.seq,
           NEW n2 \in Nat, n2 >= n
    PROVE  FilesPlaced(Merge(v, l, in0, in1, outs), n2)
<1> DEFINE w == Merge(v, l, in0, in1, outs)
<1>1. /\ w = [m \in Levels |-> w[m]]
      /\ w[l] = v[l] \ in0 /\ w[l + 1] = (v[l + 1] \ in1) \cup outs
      /\ \A m \in Levels : m # l /\ m # l + 1 => w[m] = v[m]
  BY MergeIs DEF FilesPlaced
<1> HIDE DEF w
<1>2. l \in Levels /\ l + 1 \in Levels /\ l \in Nat /\ l + 1 # 0 /\ 0 \in Levels BY LevelNumbers
<1>3. \A m \in Levels : \A g \in w[m] : \/ g \in v[m] /\ (m = l => g \notin in0)
                                        \/ m = l + 1 /\ g \in outs
  BY <1>1, <1>2
<1>4. \A m \in Levels : FilesOK(v[m]) /\ FilesOK(w[m])
  <2>1. ASSUME NEW m \in Levels PROVE FilesOK(v[m]) /\ FilesOK(w[m])
    <3>1. FilesOK(v[m]) BY DEF FilesPlaced
    <3>2. CASE m = l
      <4>1. w[m] \in SUBSET v[m] BY <3>2, <1>1
      <4> QED BY <4>1, <3>1, FilesOKParts
    <3>3. CASE m = l + 1
      <4>1. v[m] \ in1 \in SUBSET v[m] OBVIOUS
      <4>2. FilesOK(v[m] \ in1) BY <4>1, <3>1, FilesOKParts
      <4>3. FilesOK((v[m] \ in1) \cup outs) BY <4>2, FilesOKParts
      <4> QED BY <3>1, <4>3, <3>3, <1>1
    <3>4. CASE m # l /\ m # l + 1 BY <3>1, <3>4, <1>1
    <3> QED BY <3>2, <3>3, <3>4
  <2> QED BY <2>1
<1>5. w[0] \subseteq v[0] BY <1>1, <1>2
<1>6. \A g \in w[0] : g.num < n2
  <2>1. \A g \in v[0] : g.num < n /\ g.num \in Nat BY <1>2, <1>4 DEF FilesPlaced, FilesOK, FileOK
  <2> QED BY <2>1, <1>5
<1>7. ZeroInOrder(w) BY <1>5 DEF FilesPlaced, ZeroInOrder, NumbersDiffer
\* An entry of the outputs was in a file of the inputs.
<1>8. ASSUME NEW g \in outs, NEW x \in g.ents
      PROVE (\E h \in in0 : x \in h.ents) \/ (\E h \in in1 : x \in h.ents)
  <2>1. x \in InFiles(in0 \cup in1) BY InFilesIs
  <2>2. PICK h \in in0 \cup in1 : x \in h.ents BY <2>1, InFilesIs
  <2> QED BY <2>2
<1>9. \A p, m \in Levels : p < m => \A g \in v[p], h \in v[m] : \A x \in g.ents, y \in h.ents :
          x.key = y.key => x.seq > y.seq
  BY DEF FilesPlaced, NeverHop
<1>10. NeverHop(w)
  <2> SUFFICES ASSUME NEW p \in Levels, NEW m \in Levels, p < m, NEW g \in w[p], NEW h \in w[m],
                      NEW x \in g.ents, NEW y \in h.ents, x.key = y.key
               PROVE  x.seq > y.seq
    BY DEF NeverHop
  <2>0. p \in Nat /\ m \in Nat BY LevelNumbers
  <2>1. CASE g \in v[p] /\ h \in v[m]
    BY <2>1, <1>9
  <2>2. CASE p = l + 1 /\ g \in outs /\ h \in v[m]
    <3>1. CASE \E q \in in0 : x \in q.ents
      <4>1. PICK q \in v[l] : x \in q.ents BY <3>1
      <4>2. l < m BY <2>0, <2>2, <1>2
      <4> QED BY <4>1, <4>2, <2>2, <1>2, <1>9
    <3>2. CASE \E q \in in1 : x \in q.ents
      <4>1. PICK q \in v[l + 1] : x \in q.ents BY <3>2
      <4> QED BY <4>1, <2>2, <1>2, <1>9
    <3> QED BY <3>1, <3>2, <2>2, <1>8
  <2>3. CASE m = l + 1 /\ h \in outs /\ g \in v[p] /\ (p = l => g \notin in0)
    <3>1. CASE \E q \in in1 : y \in q.ents
      <4>1. PICK q \in v[l + 1] : y \in q.ents BY <3>1
      <4> QED BY <4>1, <2>3, <1>2, <1>9
    <3>2. CASE \E q \in in0 : y \in q.ents
      <4>1. PICK q \in in0 : y \in q.ents BY <3>2
      <4>2. q \in v[l] BY <4>1
      <4>3. CASE p = l
        <5>1. g \in v[l] \ in0 BY <4>3, <2>3
        <5> QED BY <5>1, <4>1
      <4>4. CASE p < l
        BY <4>1, <4>2, <4>4, <2>3, <1>2, <1>9
      <4>5. p = l \/ p < l BY <2>0, <2>3, <1>2
      <4> QED BY <4>3, <4>4, <4>5
    <3> QED BY <3>1, <3>2, <2>3, <1>8
  <2>4. ~(p = l + 1 /\ m = l + 1) BY <2>0
  <2> QED BY <2>1, <2>2, <2>3, <2>4, <1>3
<1>11. FilesPlaced(w, n2) BY <1>1, <1>4, <1>6, <1>7, <1>10 DEF FilesPlaced
<1> QED BY <1>11 DEF w

\* y is in a file that is not among the inputs.
Beside(v, l, in0, in1, y) ==
    \E m \in Levels : \E g \in v[m] : /\ y \in g.ents
                                      /\ m = l => g \notin in0
                                      /\ m = l + 1 => g \notin in1

\* What the files hold after a merge.
LEMMA MergeEntries ==
    ASSUME NEW v, NEW n, FilesPlaced(v, n), NEW l \in 0 .. NumLevels - 2,
           NEW in0, NEW in1, NEW outs, in0 \subseteq v[l], in1 \subseteq v[l + 1],
           InFiles(outs) \subseteq InFiles(in0 \cup in1)
    PROVE  LET A == InFiles(AllFiles(v))
               B == InFiles(AllFiles(Merge(v, l, in0, in1, outs)))
           IN  /\ B \subseteq A /\ InFiles(outs) \subseteq B /\ InFiles(in0 \cup in1) \subseteq A
               /\ A \ B \subseteq InFiles(in0 \cup in1)
               /\ \A y \in B : y \in InFiles(outs) \/ Beside(v, l, in0, in1, y)
<1> DEFINE w == Merge(v, l, in0, in1, outs)
           A == InFiles(AllFiles(v))
           B == InFiles(AllFiles(w))
<1>1. /\ w[l] = v[l] \ in0 /\ w[l + 1] = (v[l + 1] \ in1) \cup outs
      /\ \A m \in Levels : m # l /\ m # l + 1 => w[m] = v[m]
  BY MergeIs DEF FilesPlaced
<1> HIDE DEF w
<1>2. l \in Levels /\ l + 1 \in Levels /\ l \in Nat /\ l + 1 # 0 /\ l # l + 1 BY LevelNumbers
<1>3. InFiles(in0 \cup in1) \subseteq A
  <2>1. ASSUME NEW x \in InFiles(in0 \cup in1) PROVE x \in A
    <3>1. PICK h \in in0 \cup in1 : x \in h.ents BY InFilesIs
    <3>2. CASE h \in in0
      <4>1. h \in v[l] BY <3>2
      <4> QED BY <4>1, <3>1, <1>2, VersionEntries
    <3>3. CASE h \in in1
      <4>1. h \in v[l + 1] BY <3>3
      <4> QED BY <4>1, <3>1, <1>2, VersionEntries
    <3> QED BY <3>2, <3>3
  <2> QED BY <2>1
<1>4. ASSUME NEW y \in B
      PROVE y \in InFiles(outs) \/ Beside(v, l, in0, in1, y)
  <2>0. PICK m \in Levels : \E g \in w[m] : y \in g.ents BY VersionEntries
  <2>1. PICK g \in w[m] : y \in g.ents BY <2>0
  <2>2. CASE g \in outs BY <2>1, <2>2, InFilesIs
  <2>3. CASE g \notin outs
    <3>1. g \in v[m] /\ (m = l => g \notin in0) /\ (m = l + 1 => g \notin in1)
      BY <2>3, <1>1, <1>2
    <3> QED BY <3>1, <2>1 DEF Beside
  <2> QED BY <2>2, <2>3
<1>5. B \subseteq A
  <2>1. ASSUME NEW y \in B PROVE y \in A
    <3>1. CASE y \in InFiles(outs) BY <3>1, <1>3
    <3>2. CASE Beside(v, l, in0, in1, y)
      <4>1. PICK m \in Levels : \E g \in v[m] : y \in g.ents BY <3>2, Zenon DEF Beside
      <4>2. PICK g \in v[m] : y \in g.ents BY <4>1
      <4> QED BY <4>2, VersionEntries
    <3> QED BY <3>1, <3>2, <1>4
  <2> QED BY <2>1
<1>6. InFiles(outs) \subseteq B
  <2>1. ASSUME NEW y \in InFiles(outs) PROVE y \in B
    <3>1. PICK g \in outs : y \in g.ents BY InFilesIs
    <3>2. g \in w[l + 1] BY <1>1
    <3> QED BY <3>1, <3>2, <1>2, VersionEntries
  <2> QED BY <2>1
<1>7. ASSUME NEW x \in A, x \notin B PROVE x \in InFiles(in0 \cup in1)
  <2>0. PICK m \in Levels : \E g \in v[m] : x \in g.ents BY VersionEntries
  <2>1. PICK g \in v[m] : x \in g.ents BY <2>0
  <2>2. g \notin w[m] BY <2>1, <1>7, VersionEntries
  <2>3. g \in in0 \cup in1 BY <2>2, <1>1, <1>2
  <2> QED BY <2>1, <2>3, InFilesIs
<1> QED BY <1>3, <1>4, <1>5, <1>6, <1>7 DEF w

-----------------------------------------------------------------------------
(* Where a memtable goes, and what a compaction writes. *)

LEMMA PickLevelsIs ==
    ASSUME NEW v, Sorted(v), NEW b \in Nat, NEW e \in Nat, b <= e, NEW l \in PickLevels(v, b, e)
    PROVE  /\ l \in 0 .. MaxMemCompactLevel
           /\ l # 0 => \A m \in 0 .. l : Touching(v[m], b, e) = {}
<1> DEFINE Clear(m) == ~OverlapInLevel(v, m, b, e)
           Deepest == {m \in 0 .. MaxMemCompactLevel : \A p \in 0 .. m : Clear(p)}
<1>1. MaxMemCompactLevel \in Nat /\ \A m \in 0 .. MaxMemCompactLevel : m \in Levels
  BY LevelNumbers
<1>2. l \in Deepest \/ l = 0
  <2>1. CASE Deepest = {}
    BY <2>1 DEF PickLevels
  <2>2. CASE Deepest # {}
    <3>1. l = Max(Deepest) \/ l \in Deepest BY <2>2 DEF PickLevels
    <3>2. IsFiniteSet(0 .. MaxMemCompactLevel) BY <1>1, FS_Interval
    <3>3. Deepest \subseteq 0 .. MaxMemCompactLevel OBVIOUS
    <3>4. IsFiniteSet(Deepest) BY <3>2, <3>3, FS_Subset
    <3>5. Deepest \subseteq Nat BY <3>3, <1>1
    <3> HIDE DEF Deepest
    <3>6. Max(Deepest) \in Deepest BY <2>2, <3>4, <3>5, MaxIs
    <3> QED BY <3>1, <3>6
  <2> QED BY <2>1, <2>2
<1>3. ASSUME NEW m \in Levels, Clear(m) PROVE Touching(v[m], b, e) = {}
  <2>1. FilesOK(v[m]) /\ (m # 0 => AllApart(v[m])) BY DEF Sorted
  <2> QED BY <2>1, <1>3, ClearLevel
<1>4. l # 0 => \A m \in 0 .. l : Clear(m) /\ m \in 0 .. MaxMemCompactLevel
  BY <1>2, <1>1
<1> HIDE DEF Clear, Deepest
<1>5. l \in 0 .. MaxMemCompactLevel
  BY <1>2, <1>1 DEF Deepest
<1> QED BY <1>1, <1>3, <1>4, <1>5

Run(ents, all, s) == {e \in ents : /\ ~Before(e, s)
                                   /\ \A t \in all : Before(s, t) => Before(e, t)}

\* The runs: one for each place, and every entry is in one of them.
Cut(kept, runs, all) ==
    /\ \A x : x \in runs <=> \E s \in all : x = Run(kept, all, s)
    /\ IsFiniteSet(runs)
    /\ \A s \in all : s \in Run(kept, all, s) /\ s \in kept /\ Run(kept, all, s) \subseteq kept
    /\ \A e \in kept : \E s \in all : e \in Run(kept, all, s)
    /\ \A s \in all : s = FirstOf(kept) \/ Before(FirstOf(kept), s)

LEMMA RunsAre ==
    ASSUME NEW kept, kept \subseteq Entry, IsFiniteSet(kept), kept # {}, Distinct(kept),
           NEW starts, starts \subseteq kept, NEW all, all = {FirstOf(kept)} \cup starts
    PROVE  Cut(kept, Runs(kept, starts), all)
<1>1. Runs(kept, starts) = {Run(kept, all, s) : s \in all}
  BY Zenon DEF Runs, Run
<1>2. FirstOf(kept) \in kept /\ \A f \in kept : f = FirstOf(kept) \/ Before(FirstOf(kept), f)
  BY FirstAndLast
<1>3. all \subseteq kept BY <1>2
<1>4. \A e \in kept : e.key \in Nat /\ e.seq \in Nat
  BY EntryType
<1>5. \A s \in all : s \in Run(kept, all, s)
  BY <1>3, <1>4 DEF Run, Before
<1>6. IsFiniteSet(all) BY <1>3, FS_Subset
<1>7. FirstOf(kept) \in all OBVIOUS
<1>8. IsFiniteSet(Runs(kept, starts))
  <2> DEFINE g == [s \in all |-> Run(kept, all, s)]
  <2>1. g \in Surjection(all, Runs(kept, starts)) BY <1>1 DEF Surjection
  <2> QED BY <2>1, <1>6, FS_Surjection
<1>9. ASSUME NEW e \in kept PROVE \E s \in all : e \in Run(kept, all, s)
  <2> DEFINE S == {s \in all : ~Before(e, s)}
             R == {p \in S \X S : Before(p[2], p[1])}
  <2>1. FirstOf(kept) \in S
    <3>1. FirstOf(kept).key \in Nat /\ FirstOf(kept).seq \in Nat BY <1>2, <1>4
    <3>2. e.key \in Nat /\ e.seq \in Nat BY <1>4
    <3>3. e = FirstOf(kept) \/ Before(FirstOf(kept), e) BY <1>2
    <3>4. ~Before(e, FirstOf(kept)) BY <3>1, <3>2, <3>3 DEF Before
    <3> QED BY <3>4, <1>7
  <2>2. IsFiniteSet(S) /\ S \subseteq all
    <3>1. S \subseteq all OBVIOUS
    <3> HIDE DEF S
    <3> QED BY <3>1, <1>6, FS_Subset
  <2>3. \A x, y \in S : <<x, y>> \in R <=> Before(y, x) OBVIOUS
  <2>4. \A x \in S : x.key \in Nat /\ x.seq \in Nat BY <1>3, <1>4
  <2>7. \A t \in all : t \notin S => Before(e, t) OBVIOUS
  <2>8. \A s \in S : s \in all /\ ~Before(e, s) OBVIOUS
  <2> HIDE DEF R, S
  <2>5. (\A x \in S : <<x, x>> \notin R)
        /\ \A x, y, z \in S : <<x, y>> \in R /\ <<y, z>> \in R => <<x, z>> \in R
    BY <2>3, <2>4 DEF Before
  <2>6. PICK s \in S : \A y \in S : <<y, s>> \notin R
    <3>1. (\A x \in S : <<x, x>> \notin R)
          /\ \A x, y, z \in S : <<x, y>> \in R /\ <<y, z>> \in R => <<x, z>> \in R
      BY <2>5
    <3>2. S # {} BY <2>1
    <3> QED BY <3>1, <3>2, <2>2, Extreme, Zenon
  <2>9. \A t \in all : Before(s, t) => Before(e, t) BY <2>3, <2>6, <2>7
  <2> QED BY <2>8, <2>9 DEF Run
<1>10. \A s \in all : /\ s \in Run(kept, all, s) /\ s \in kept
                      /\ Run(kept, all, s) \subseteq kept
  BY <1>5, <1>3 DEF Run
<1>11. \A s \in all : s = FirstOf(kept) \/ Before(FirstOf(kept), s)
  BY <1>2, <1>3
<1>12. \A x : x \in Runs(kept, starts) <=> \E s \in all : x = Run(kept, all, s)
  BY <1>1
<1> QED BY <1>8, <1>9, <1>10, <1>11, <1>12 DEF Cut

\* A compaction writes tables that hold exactly the entries kept.
LEMMA OutputsOK ==
    ASSUME NEW kept, kept \subseteq Entry, IsFiniteSet(kept), kept # {}, Distinct(kept),
           NEW starts, starts \subseteq kept, NEW n \in Nat
    PROVE  LET outs == Numbered(Runs(kept, starts), n)
           IN  /\ FilesOK(outs) /\ InFiles(outs) = kept /\ Cardinality(outs) \in Nat
               /\ (\A s \in starts : \A f \in kept : f.key = s.key => ~Before(f, s))
                  => AllApart(outs)
<1> DEFINE all == {FirstOf(kept)} \cup starts
           runs == Runs(kept, starts)
           No(x) == n + Cardinality({r \in runs : Before(FirstOf(r), FirstOf(x))})
           outs == Numbered(runs, n)
<1>1. outs = {FileOf(No(x), x) : x \in runs} BY Zenon DEF Numbered
<1>0. all = {FirstOf(kept)} \cup starts OBVIOUS
<1> HIDE DEF all, runs, No, outs
<1>2. /\ \A x : x \in runs <=> \E s \in all : x = Run(kept, all, s)
      /\ IsFiniteSet(runs)
      /\ \A s \in all : s \in Run(kept, all, s) /\ s \in kept /\ Run(kept, all, s) \subseteq kept
      /\ \A e \in kept : \E s \in all : e \in Run(kept, all, s)
      /\ \A s \in all : s = FirstOf(kept) \/ Before(FirstOf(kept), s)
  <2>1. Cut(kept, runs, all) BY <1>0, RunsAre DEF runs
  <2> QED BY <2>1 DEF Cut
<1>3. \A x \in runs : No(x) \in Nat
  <2> SUFFICES ASSUME NEW x \in runs PROVE No(x) \in Nat OBVIOUS
  <2> DEFINE T == {r \in runs : Before(FirstOf(r), FirstOf(x))}
  <2>1. T \subseteq runs OBVIOUS
  <2> HIDE DEF T
  <2>2. IsFiniteSet(T) BY <2>1, <1>2, FS_Subset
  <2>3. Cardinality(T) \in Nat BY <2>2, FS_CardinalityType
  <2> QED BY <2>3 DEF T, No
<1>4. ASSUME NEW x \in runs
      PROVE  /\ x \subseteq kept /\ x # {}
             /\ FileOK(FileOf(No(x), x)) /\ FileOf(No(x), x).ents = x
  <2>1. PICK s \in all : x = Run(kept, all, s) BY <1>2
  <2>2. x \subseteq kept /\ x # {} BY <2>1, <1>2
  <2>3. x \subseteq Entry /\ IsFiniteSet(x) /\ Distinct(x)
    <3>1. x \subseteq Entry BY <2>2
    <3>2. IsFiniteSet(x) BY <2>2, FS_Subset
    <3>3. Distinct(x) BY <2>2 DEF Distinct
    <3> QED BY <3>1, <3>2, <3>3
  <2>4. No(x) \in Nat BY <1>3
  <2> QED BY <2>2, <2>3, <2>4, FileOfOK
<1>5. IsFiniteSet(outs)
  <2> DEFINE g == [x \in runs |-> FileOf(No(x), x)]
  <2>1. g \in Surjection(runs, outs) BY <1>1 DEF Surjection
  <2> QED BY <2>1, <1>2, FS_Surjection
<1>6. FilesOK(outs) BY <1>1, <1>4, <1>5 DEF FilesOK
<1>7. ASSUME NEW e \in InFiles(outs) PROVE e \in kept
  <2>1. PICK f \in outs : e \in f.ents BY InFilesIs
  <2>2. PICK x \in runs : f = FileOf(No(x), x) BY <1>1
  <2> QED BY <2>1, <2>2, <1>4
<1>8. ASSUME NEW e \in kept PROVE e \in InFiles(outs)
  <2>1. PICK s \in all : e \in Run(kept, all, s) BY <1>2
  <2>2. Run(kept, all, s) \in runs BY <1>2
  <2>3. PICK x \in runs : e \in x BY <2>1, <2>2
  <2>4. FileOf(No(x), x) \in outs BY <1>1
  <2> QED BY <2>3, <2>4, <1>4, InFilesIs
<1>9. Cardinality(outs) \in Nat BY <1>5, FS_CardinalityType
<1>10. ASSUME \A s \in starts : \A f \in kept : f.key = s.key => ~Before(f, s)
       PROVE  AllApart(outs)
  <2>0. \A e \in kept : e.key \in Nat /\ e.seq \in Nat BY EntryType
  <2>1. ASSUME NEW s \in all, NEW t \in all, Before(s, t),
               NEW f, NEW g, FileOK(f), FileOK(g),
               f.ents = Run(kept, all, s), g.ents = Run(kept, all, t)
        PROVE  Apart(f, g)
    <3>1. f.largest \in Run(kept, all, s) /\ g.smallest \in Run(kept, all, t)
      BY <2>1 DEF FileOK
    <3>2. f.largest \in kept /\ g.smallest \in kept /\ s \in kept /\ t \in kept BY <3>1, <1>2
    <3>3. Before(f.largest, t) /\ ~Before(g.smallest, t) BY <3>1, <2>1 DEF Run
    <3>4. t \in starts
      <4>1. t # FirstOf(kept)
        <5>1. s = FirstOf(kept) \/ Before(FirstOf(kept), s) BY <1>2
        <5> QED BY <5>1, <2>0, <2>1, <3>2 DEF Before
      <4> QED BY <4>1, <1>0
    <3>5. f.largest.key # t.key BY <3>2, <3>3, <3>4, <1>10
    <3>6. f.largest.key < t.key /\ t.key <= g.smallest.key
      BY <2>0, <3>2, <3>3, <3>5 DEF Before
    <3> QED BY <3>6, <3>2, <2>0 DEF Apart
  <2>2. ASSUME NEW f \in outs, NEW g \in outs, f # g PROVE Apart(f, g)
    <3>1. PICK x \in runs : f = FileOf(No(x), x) BY <1>1
    <3>2. PICK y \in runs : g = FileOf(No(y), y) BY <1>1
    <3>3. PICK s \in all : x = Run(kept, all, s) BY <1>2
    <3>4. PICK t \in all : y = Run(kept, all, t) BY <1>2
    <3>5. FileOK(f) /\ FileOK(g) /\ f.ents = Run(kept, all, s) /\ g.ents = Run(kept, all, t)
      BY <3>1, <3>2, <3>3, <3>4, <1>4
    <3>6. s # t BY <3>1, <3>2, <3>3, <3>4, <2>2
    <3>7. Before(s, t) \/ Before(t, s)
      <4>1. s \in kept /\ t \in kept BY <1>2
      <4>2. s.seq # t.seq BY <4>1, <3>6 DEF Distinct
      <4> QED BY <4>1, <4>2, <2>0 DEF Before
    <3>8. Before(s, t) => Apart(f, g) BY <3>5, <2>1
    <3>9. Before(t, s) => Apart(g, f) BY <3>5, <2>1
    <3> QED BY <3>7, <3>8, <3>9 DEF Apart
  <2> QED BY <2>2 DEF AllApart
<1> QED BY <1>6, <1>7, <1>8, <1>9, <1>10 DEF outs, runs

-----------------------------------------------------------------------------
(* The invariant is kept: writers, snapshots and new memtables. *)

LEMMA SmallestIs ==
    ASSUME TypeInv
    PROVE  /\ SmallestSnapshot \in 0 .. lastSeq
           /\ \A s \in snaps \cup {lastSeq} : SmallestSnapshot <= s
<1>1. lastSeq \in Nat /\ snaps \subseteq 0 .. lastSeq
  <2>1. lastSeq \in 0 .. MaxSeq /\ MaxSeq \in Nat
    BY LevelsAssumption DEF TypeInv, LevelsAssumption
  <2> QED BY <2>1 DEF TypeInv
<1>2. CASE snaps = {} BY <1>1, <1>2 DEF SmallestSnapshot
<1>3. CASE snaps # {}
  <2>1. snaps \subseteq Nat BY <1>1
  <2>2. Min(snaps) \in snaps /\ \A y \in snaps : Min(snaps) <= y BY <2>1, <1>3, MinIs
  <2> DEFINE low == Min(snaps)
  <2>3. SmallestSnapshot = low BY <1>3 DEF SmallestSnapshot
  <2>4. low \in snaps /\ \A y \in snaps : low <= y BY <2>2
  <2> HIDE DEF low
  <2>5. low \in 0 .. lastSeq BY <2>4, <1>1
  <2>6. low <= lastSeq BY <2>5, <1>1
  <2> QED BY <2>3, <2>4, <2>5, <2>6
<1> QED BY <1>2, <1>3

\* The work a compaction sets out to do.
LEMMA NewWork ==
    ASSUME TypeInv, FilesInv, NEW l \in 0 .. NumLevels - 2, NEW ins, NEW byHand \in BOOLEAN,
           InputsOK(version, l, ins[1], ins[2]), byHand => manual # <<>>
    PROVE  WorkOK(Compaction(l, ins, byHand))
<1> DEFINE c == Compaction(l, ins, byHand)
<1>1. /\ c.level = l /\ c.in0 = ins[1] /\ c.in1 = ins[2] /\ c.base = version
      /\ c.smallest = SmallestSnapshot /\ c.byHand = byHand
  BY DEF Compaction
<1> HIDE DEF c
<1>2. c.smallest \in 0 .. lastSeq /\ \A s \in snaps : c.smallest <= s
  BY <1>1, SmallestIs
<1>3. ASSUME NEW e \in InFiles(c.in0 \cup c.in1), IsBaseLevelForKey(version, l, e.key),
             NEW m \in l + 2 .. NumLevels - 1, NEW g \in version[m], NEW y \in g.ents,
             y.key = e.key
      PROVE  FALSE
  <2>1. Touching(version[m], e.key, e.key) = {} BY <1>3 DEF IsBaseLevelForKey
  <2>2. m \in Levels BY LevelNumbers DEF Levels
  <2>3. FileOK(g) BY <2>2 DEF FilesInv, FilesPlaced, FilesOK
  <2>4. g.smallest.key \in Nat /\ g.largest.key \in Nat /\ y.key \in Nat
        /\ g.smallest.key <= y.key /\ y.key <= g.largest.key
    BY <2>3, FileType
  <2>5. g \in Touching(version[m], e.key, e.key) BY <2>4, <1>3 DEF Touching
  <2> QED BY <2>1, <2>5
<1>4. /\ c.in0 # {} /\ c.in0 \subseteq version[c.level] /\ c.in1 \subseteq version[c.level + 1]
      /\ \A f \in c.in0, g \in version[c.level] \ c.in0 : Apart(f, g)
      /\ \A f \in c.in0, g \in version[c.level + 1] \ c.in1 : Apart(f, g)
  BY <1>1 DEF InputsOK
<1> QED BY <1>1, <1>2, <1>3, <1>4 DEF WorkOK, c

\* The work goes on while no file comes or goes.
LEMMA WorkStays ==
    ASSUME TypeInv, BgInv, version' = version, bg' = bg, lastSeq' \in Nat, lastSeq' >= lastSeq,
           \A s \in snaps' : s \in snaps \/ s = lastSeq,
           manual # <<>> => manual' # <<>>
    PROVE  BgInv'
<1>0. lastSeq \in Nat
  BY LevelsAssumption DEF TypeInv, LevelsAssumption
<1>1. CASE bg = <<>> BY <1>1 DEF BgInv
<1>2. CASE bg # <<>>
  <2> DEFINE c == bg[1]
  <2>1. WorkOK(c) BY <1>2 DEF BgInv
  <2>2. bg'[1] = c OBVIOUS
  <2> HIDE DEF c
  <2>3. c.smallest \in 0 .. lastSeq' /\ \A s \in snaps' : c.smallest <= s
    BY <2>1, <1>0 DEF WorkOK
  <2>4. c.byHand \in BOOLEAN /\ (c.byHand => manual' # <<>>)
    BY <2>1 DEF WorkOK
  <2>5. WorkOK(bg[1])'
    BY <2>1, <2>2, <2>3, <2>4, ZenonT(40) DEF WorkOK
  <2> QED BY <2>5 DEF BgInv
<1> QED BY <1>1, <1>2

LEMMA NumbersType ==
    ASSUME TypeInv
    PROVE  lastSeq \in Nat /\ MaxSeq \in Nat /\ lastSeq <= MaxSeq /\ nextFile \in Nat
  BY LevelsAssumption DEF TypeInv, LevelsAssumption

LEMMA WriteKeeps ==
    ASSUME DataInv, NEW k \in Keys, NEW del \in BOOLEAN, Write(k, del)
    PROVE  /\ DataInv'
           /\ Merged' = Merged \cup {[key |-> k, seq |-> lastSeq + 1, del |-> del]}
<1> DEFINE e == [key |-> k, seq |-> lastSeq + 1, del |-> del]
<1>1. /\ lastSeq < MaxSeq /\ lastSeq' = lastSeq + 1 /\ mem' = mem \cup {e}
      /\ UNCHANGED <<imm, version, nextFile, snaps, bg, manual>>
  BY DEF Write
<1>2. TypeInv /\ SeqInv /\ FilesInv /\ BgInv BY DEF DataInv
<1>3. lastSeq \in Nat /\ MaxSeq \in Nat BY <1>2, NumbersType
<1>4. e \in Entry /\ e.seq = lastSeq + 1
  <2>1. lastSeq + 1 \in 1 .. MaxSeq BY <1>1, <1>3
  <2> QED BY <2>1 DEF Entry
<1> HIDE DEF e
<1>5. Held' = Held /\ InFiles(AllFiles(version))' = InFiles(AllFiles(version))
  BY <1>1 DEF Held, InFiles, AllFiles
<1>6. Merged' = Merged \cup {e}
  <2>1. Merged' = mem' \cup Held' \cup InFiles(AllFiles(version))'
    BY <1>1 DEF Merged, Held, InFiles
  <2> QED BY <2>1, <1>1, <1>5, MergedIs
<1>7. TypeInv'
  <2>1. lastSeq' \in 0 .. MaxSeq BY <1>1, <1>3
  <2>2. mem' \subseteq Entry /\ IsFiniteSet(mem') BY <1>1, <1>2, <1>4, FS_AddElement DEF TypeInv
  <2>3. snaps' \subseteq 0 .. lastSeq' BY <1>1, <1>2, <1>3 DEF TypeInv
  <2>4. nextFile' \in Nat /\ Held' \subseteq Entry /\ IsFiniteSet(Held') BY <1>1, <1>2, <1>5 DEF TypeInv
  <2>5. manual' = <<>> \/ ManualOK(manual[1])' BY <1>1, <1>2 DEF TypeInv, ManualOK
  <2> QED BY <2>1, <2>2, <2>3, <2>4, <2>5 DEF TypeInv
<1>8. \A x \in Merged : x.seq \in Nat /\ x.seq <= lastSeq
  <2>1. Merged \subseteq Entry BY <1>2, MergedEntries
  <2> QED BY <2>1, <1>2, EntryType DEF SeqInv
<1>9. SeqInv'
  <2>1. Distinct(Merged')
    <3> SUFFICES ASSUME NEW x \in Merged \cup {e}, NEW y \in Merged \cup {e}, x.seq = y.seq
                 PROVE  x = y
      BY <1>6 DEF Distinct
    <3>1. CASE x \in Merged /\ y \in Merged BY <3>1, <1>2 DEF SeqInv, Distinct
    <3>2. CASE x = e /\ y \in Merged BY <3>2, <1>3, <1>4, <1>8
    <3>3. CASE y = e /\ x \in Merged BY <3>3, <1>3, <1>4, <1>8
    <3> QED BY <3>1, <3>2, <3>3
  <2>2. \A x \in Merged' : x.seq <= lastSeq'
    <3>1. \A x \in Merged \cup {e} : x.seq <= lastSeq + 1 BY <1>3, <1>4, <1>8
    <3> QED BY <3>1, <1>1, <1>6
  <2>3. \A y \in Held \cup InFiles(AllFiles(version)) : y.seq \in Nat /\ y.seq <= lastSeq
    BY <1>8, MergedIs
  <2>4. Newer(mem', Held')
    <3>1. Newer(mem, Held) BY <1>2 DEF SeqInv
    <3> QED BY <3>1, <2>3, <1>1, <1>3, <1>4, <1>5 DEF Newer
  <2>5. Newer(mem' \cup Held', InFiles(AllFiles(version))')
    <3>1. Newer(mem \cup Held, InFiles(AllFiles(version))) BY <1>2 DEF SeqInv
    <3> QED BY <3>1, <2>3, <1>1, <1>3, <1>4, <1>5 DEF Newer
  <2> QED BY <2>1, <2>2, <2>4, <2>5 DEF SeqInv
<1>10. FilesInv' BY <1>1, <1>2 DEF FilesInv
<1>11. BgInv'
  <2>1. lastSeq' \in Nat /\ lastSeq' >= lastSeq BY <1>1, <1>3
  <2> QED BY <2>1, <1>1, <1>2, WorkStays
<1> QED BY <1>6, <1>7, <1>9, <1>10, <1>11 DEF DataInv, e

\* Nothing is written and no file changes.
LEMMA Same ==
    ASSUME DataInv, UNCHANGED <<version, nextFile, lastSeq>>,
           mem' \cup Held' = mem \cup Held,
           mem' \subseteq Entry, IsFiniteSet(mem'), Held' \subseteq Entry, IsFiniteSet(Held'),
           Newer(mem', Held'),
           snaps' \subseteq 0 .. lastSeq, manual' = <<>> \/ ManualOK(manual[1])'
    PROVE  TypeInv' /\ SeqInv' /\ FilesInv' /\ Merged' = Merged
<1>1. TypeInv /\ SeqInv /\ FilesInv BY DEF DataInv
<1>2. InFiles(AllFiles(version))' = InFiles(AllFiles(version))
  BY DEF InFiles, AllFiles
<1>3. Merged' = Merged
  <2>1. Merged' = mem' \cup Held' \cup InFiles(AllFiles(version))'
    BY DEF Merged, Held, InFiles
  <2> QED BY <2>1, <1>2, MergedIs
<1>4. TypeInv' BY <1>1 DEF TypeInv
<1>5. SeqInv' BY <1>1, <1>2, <1>3 DEF SeqInv
<1>6. FilesInv' BY <1>1 DEF FilesInv
<1> QED BY <1>3, <1>4, <1>5, <1>6

LEMMA SnapshotsKeep ==
    ASSUME DataInv, TakeSnapshot \/ \E s \in snaps : ReleaseSnapshot(s)
    PROVE  DataInv' /\ Merged' = Merged
<1>1. /\ UNCHANGED <<mem, imm, lastSeq, version, nextFile, bg, manual>>
      /\ \A s \in snaps' : s \in snaps \/ s = lastSeq
  BY DEF TakeSnapshot, ReleaseSnapshot
<1>2. TypeInv /\ SeqInv /\ BgInv BY DEF DataInv
<1>3. lastSeq \in Nat BY <1>2, NumbersType
<1>4. Held' = Held BY <1>1 DEF Held
<1>5. snaps' \subseteq 0 .. lastSeq
  <2>1. snaps \subseteq 0 .. lastSeq BY <1>2 DEF TypeInv
  <2>2. lastSeq \in 0 .. lastSeq BY <1>3
  <2> QED BY <2>1, <2>2, <1>1
<1>6. manual' = <<>> \/ ManualOK(manual[1])' BY <1>1, <1>2 DEF TypeInv, ManualOK
<1>7. mem' \subseteq Entry /\ IsFiniteSet(mem') /\ Held' \subseteq Entry /\ IsFiniteSet(Held')
  BY <1>1, <1>2, <1>4 DEF TypeInv
<1>8. Newer(mem', Held') BY <1>1, <1>2, <1>4 DEF SeqInv
<1>9. TypeInv' /\ SeqInv' /\ FilesInv' /\ Merged' = Merged
  BY <1>1, <1>4, <1>5, <1>6, <1>7, <1>8, Same
<1>10. BgInv' BY <1>1, <1>2, <1>3, WorkStays
<1> QED BY <1>9, <1>10 DEF DataInv

\* The memtable is given up.
LEMMA SwitchIs ==
    ASSUME DataInv, imm = <<>>, imm' = <<mem>>, mem' = {},
           UNCHANGED <<lastSeq, version, nextFile, snaps, bg>>,
           manual' = <<>> \/ ManualOK(manual[1])', manual # <<>> => manual' # <<>>
    PROVE  DataInv' /\ Merged' = Merged
<1>1. TypeInv /\ SeqInv /\ BgInv BY DEF DataInv
<1>2. Held = {} /\ Held' = mem BY DEF Held
<1>3. lastSeq \in Nat BY <1>1, NumbersType
<1>4. mem' \subseteq Entry /\ IsFiniteSet(mem') /\ Held' \subseteq Entry /\ IsFiniteSet(Held')
  BY <1>1, <1>2, FS_EmptySet DEF TypeInv
<1>5. Newer(mem', Held') BY DEF Newer
<1>6. mem' \cup Held' = mem \cup Held BY <1>2
<1>7. snaps' \subseteq 0 .. lastSeq BY <1>1 DEF TypeInv
<1>8. TypeInv' /\ SeqInv' /\ FilesInv' /\ Merged' = Merged
  BY <1>4, <1>5, <1>6, <1>7, Same
<1>9. BgInv' BY <1>1, <1>3, WorkStays
<1> QED BY <1>8, <1>9 DEF DataInv

LEMMA SwitchKeeps ==
    ASSUME DataInv, SwitchMemTable
    PROVE  DataInv' /\ Merged' = Merged
<1>1. /\ imm = <<>> /\ imm' = <<mem>> /\ mem' = {}
      /\ UNCHANGED <<lastSeq, version, nextFile, snaps, bg, manual>>
  BY DEF SwitchMemTable, CanSwitch
<1>2. manual' = <<>> \/ ManualOK(manual[1])' BY <1>1 DEF DataInv, TypeInv, ManualOK
<1> QED BY <1>1, <1>2, SwitchIs

LEMMA CallCompactRangeKeeps ==
    ASSUME DataInv, NEW r \in ManualRanges, CallCompactRange(r)
    PROVE  DataInv' /\ Merged' = Merged
<1> DEFINE T == {1} \cup {l \in Levels \ {0} : OverlapInLevel(version, l, r[1], r[2])}
           m == [level |-> 0, from |-> r[1], begin |-> r[1], end |-> r[2], top |-> Max(T)]
<1>1. /\ imm = <<>> /\ imm' = <<mem>> /\ mem' = {} /\ manual = <<>> /\ manual' = <<m>>
      /\ UNCHANGED <<lastSeq, version, nextFile, snaps, bg>>
  BY DEF CallCompactRange, CanSwitch
<1>2. Max(T) \in 1 .. NumLevels - 1
  <2>1. NumLevels \in Nat /\ 1 \in 1 .. NumLevels - 1
    BY LevelsAssumption DEF LevelsAssumption
  <2>2. T \subseteq 1 .. NumLevels - 1 BY <2>1 DEF Levels
  <2>3. IsFiniteSet(1 .. NumLevels - 1) BY <2>1, FS_Interval
  <2>4. T # {} OBVIOUS
  <2> HIDE DEF T
  <2>5. IsFiniteSet(T) BY <2>2, <2>3, FS_Subset
  <2>6. T \subseteq Nat BY <2>2
  <2>7. Max(T) \in T BY <2>4, <2>5, <2>6, MaxIs
  <2> QED BY <2>2, <2>7
<1>3. r[1] \in Nat /\ r[2] \in Nat BY RangesAssumption DEF RangesAssumption
<1> HIDE DEF T
<1>4. ManualOK(m) BY <1>2, <1>3 DEF ManualOK
<1> HIDE DEF m
<1>5. ManualOK(manual[1])'
  <2>1. manual'[1] = m BY <1>1
  <2> QED BY <2>1, <1>4 DEF ManualOK
<1> QED BY <1>1, <1>5, SwitchIs

-----------------------------------------------------------------------------
(* The invariant is kept: memtables become files. *)

\* What becomes of memory and files when entries of memory move to the files.
LEMMA Moved ==
    ASSUME DataInv, lastSeq' = lastSeq, nextFile' \in Nat, FilesPlaced(version, nextFile)',
           mem' \cup Held' \subseteq mem \cup Held,
           IsFiniteSet(mem'), IsFiniteSet(Held'), Newer(mem', Held'),
           Newer(mem' \cup Held', InFiles(AllFiles(version))'),
           InFiles(AllFiles(version))' \cup mem' \cup Held' = InFiles(AllFiles(version)) \cup mem \cup Held,
           snaps' \subseteq 0 .. lastSeq, manual' = <<>> \/ ManualOK(manual[1])'
    PROVE  TypeInv' /\ SeqInv' /\ FilesInv' /\ Merged' = Merged
<1>1. TypeInv /\ SeqInv BY DEF DataInv
<1>2. Merged' = Merged
  <2>1. Merged' = mem' \cup Held' \cup InFiles(AllFiles(version))'
    BY DEF Merged, Held, InFiles
  <2> QED BY <2>1, MergedIs
<1>3. TypeInv'
  <2>1. mem' \subseteq Entry /\ Held' \subseteq Entry BY <1>1 DEF TypeInv
  <2> QED BY <2>1, <1>1 DEF TypeInv
<1>4. SeqInv' BY <1>1, <1>2 DEF SeqInv
<1>5. FilesInv' BY DEF FilesInv
<1> QED BY <1>2, <1>3, <1>4, <1>5

\* The level a new table goes to is clear, and so are those above it.
LEMMA FlushPlace ==
    ASSUME NEW v, Sorted(v), NEW f, FileOK(f),
           NEW l \in PickLevels(v, f.smallest.key, f.largest.key)
    PROVE  /\ l \in Levels
           /\ l # 0 => \A m \in Levels : m <= l => \A g \in v[m] : Apart(f, g)
<1>1. f.smallest.key \in Nat /\ f.largest.key \in Nat /\ f.smallest.key <= f.largest.key
  BY FileType
<1>2. /\ l \in 0 .. MaxMemCompactLevel
      /\ l # 0 => \A m \in 0 .. l : Touching(v[m], f.smallest.key, f.largest.key) = {}
  BY <1>1, PickLevelsIs
<1>3. l \in Levels BY <1>2, LevelNumbers
<1>4. ASSUME l # 0, NEW m \in Levels, m <= l, NEW g \in v[m] PROVE Apart(f, g)
  <2>1. m \in 0 .. l BY <1>3, <1>4, LevelNumbers
  <2>2. Touching(v[m], f.smallest.key, f.largest.key) = {} BY <2>1, <1>2, <1>4
  <2>3. ~(g.largest.key >= f.smallest.key /\ g.smallest.key <= f.largest.key)
    BY <2>2, <1>4 DEF Touching
  <2>4. FileOK(g) BY <1>4 DEF Sorted, FilesOK
  <2>5. g.smallest.key \in Nat /\ g.largest.key \in Nat BY <2>4, FileType
  <2> QED BY <2>3, <2>5, <1>1 DEF Apart
<1> QED BY <1>3, <1>4

\* A compaction under way is not disturbed by the table of a memtable.
LEMMA WorkBesideFlush ==
    ASSUME NEW c, WorkOK(c), FilesInv, NEW f, FileOK(f), NEW l \in Levels,
           Newer(f.ents, InFiles(AllFiles(version))),
           l # 0 => \A m \in Levels : m <= l => \A g \in version[m] : Apart(f, g),
           version'[l] = version[l] \cup {f},
           \A m \in Levels : m # l => version'[m] = version[m],
           UNCHANGED <<lastSeq, snaps, manual>>
    PROVE  WorkOK(c)'
<1>1. c.level \in Levels /\ c.level + 1 \in Levels /\ c.level < c.level + 1
      /\ c.level \in Nat /\ NumLevels \in Nat /\ l \in Nat
  BY LevelNumbers DEF WorkOK
<1>2. \A m \in Levels : \A g \in version'[m] : g \in version[m] \/ (g = f /\ m = l)
  OBVIOUS
<1>3. \A m \in Levels : version[m] \subseteq version'[m] OBVIOUS
<1>4. ASSUME NEW m \in Levels, m <= l, l # 0, NEW h \in version[m]
      PROVE  Apart(h, f) /\ FileOK(h)
  <2>1. FileOK(h) BY <1>4 DEF FilesInv, FilesPlaced, FilesOK
  <2>2. Apart(f, h) BY <1>4
  <2> QED BY <2>1, <2>2 DEF Apart
<1>5. c.in0 # {} /\ c.in0 \subseteq version'[c.level] /\ c.in1 \subseteq version'[c.level + 1]
  BY <1>1, <1>3 DEF WorkOK
<1>6. ASSUME NEW h \in c.in0, NEW g \in version'[c.level] \ c.in0
      PROVE  Apart(h, g) \/ (c.level = 0 /\ Newer(g.ents, h.ents))
  <2>1. CASE g \in version[c.level] BY <2>1, <1>6 DEF WorkOK
  <2>2. CASE g = f /\ c.level = l
    <3>1. h \in version[l] BY <2>2, <1>6 DEF WorkOK
    <3>2. CASE l # 0 BY <3>1, <3>2, <2>2, <1>1, <1>4
    <3>3. CASE l = 0
      <4>1. h.ents \subseteq InFiles(AllFiles(version)) BY <3>1, VersionEntries
      <4> QED BY <4>1, <3>3, <2>2 DEF Newer
    <3> QED BY <3>2, <3>3
  <2> QED BY <2>1, <2>2, <1>1, <1>2
<1>7. ASSUME NEW h \in c.in0, NEW g \in version'[c.level + 1] \ c.in1
      PROVE  Apart(h, g)
  <2>1. CASE g \in version[c.level + 1] BY <2>1, <1>7 DEF WorkOK
  <2>2. CASE g = f /\ c.level + 1 = l
    <3>1. h \in version[c.level] BY <1>7 DEF WorkOK
    <3>2. l # 0 /\ c.level <= l BY <2>2, <1>1
    <3> QED BY <3>1, <3>2, <2>2, <1>1, <1>4
  <2> QED BY <2>1, <2>2, <1>1, <1>2
<1>8. ASSUME NEW e \in InFiles(c.in0 \cup c.in1), IsBaseLevelForKey(c.base, c.level, e.key),
             NEW m \in c.level + 2 .. NumLevels - 1, NEW g \in version'[m], NEW y \in g.ents
      PROVE  y.key # e.key
  <2>0. m \in Levels BY <1>1 DEF Levels
  <2>1. CASE g \in version[m] BY <2>1, <1>8 DEF WorkOK
  <2>2. CASE g = f /\ m = l
    <3>1. PICK h \in c.in0 \cup c.in1 : e \in h.ents BY <1>8, InFilesIs
    <3>2. \E p \in Levels : p <= l /\ h \in version[p]
      <4>1. c.level <= l /\ c.level + 1 <= l BY <2>2, <1>1
      <4> QED BY <4>1, <1>1 DEF WorkOK
    <3>3. l # 0 BY <2>2, <1>1
    <3>4. Apart(h, f) /\ FileOK(h) BY <3>2, <3>3, <1>4
    <3> QED BY <3>1, <3>4, <2>2, <1>8, ApartKeys
  <2> QED BY <2>0, <2>1, <2>2, <1>2
<1>9. /\ c.level \in 0 .. NumLevels - 2
      /\ c.smallest \in 0 .. lastSeq' /\ \A s \in snaps' : c.smallest <= s
      /\ c.byHand \in BOOLEAN /\ (c.byHand => manual' # <<>>)
  BY DEF WorkOK
<1>10. \A e \in InFiles(c.in0 \cup c.in1) : IsBaseLevelForKey(c.base, c.level, e.key) =>
           \A m \in c.level + 2 .. NumLevels - 1 : \A g \in version'[m] : \A y \in g.ents : y.key # e.key
  BY <1>8
<1> QED BY <1>5, <1>6, <1>7, <1>9, <1>10 DEF WorkOK

LEMMA FlushKeeps ==
    ASSUME DataInv, KeysApart, FlushImm
    PROVE  DataInv' /\ Merged' = Merged
<1>1. TypeInv /\ SeqInv /\ FilesInv /\ BgInv BY DEF DataInv
<1>2. /\ imm # <<>> /\ imm' = <<>> /\ UNCHANGED <<mem, lastSeq, snaps, bg, manual>>
  BY DEF FlushImm
<1>3. Held = imm[1] /\ Held' = {} BY <1>2 DEF Held
<1>4. lastSeq \in Nat /\ nextFile \in Nat BY <1>1, NumbersType
<1>5. snaps' \subseteq 0 .. lastSeq /\ (manual' = <<>> \/ ManualOK(manual[1])')
  BY <1>1, <1>2 DEF TypeInv, ManualOK
<1>6. IsFiniteSet(mem') /\ IsFiniteSet(Held') /\ Newer(mem', Held')
  BY <1>1, <1>2, <1>3, FS_EmptySet DEF TypeInv, Newer
<1>7. Newer(mem \cup Held, InFiles(AllFiles(version))) /\ Newer(mem, Held) BY <1>1 DEF SeqInv
<1>8. CASE imm[1] = {}
  <2>1. UNCHANGED <<version, nextFile>> BY <1>8 DEF FlushImm
  <2>2. Held = {} BY <1>3, <1>8
  <2>3. mem' \cup Held' = mem \cup Held BY <2>2, <1>2, <1>3
  <2>4. mem' \subseteq Entry /\ Held' \subseteq Entry BY <1>1, <1>2, <1>3 DEF TypeInv
  <2>5. TypeInv' /\ SeqInv' /\ FilesInv' /\ Merged' = Merged
    BY <2>1, <2>3, <2>4, <1>2, <1>5, <1>6, Same
  <2>6. BgInv' BY <2>1, <1>1, <1>2, <1>4, WorkStays
  <2> QED BY <2>5, <2>6 DEF DataInv
<1>9. CASE imm[1] # {}
  <2> DEFINE f == FileOf(nextFile, imm[1])
  <2>1. PICK l \in PickLevels(version, f.smallest.key, f.largest.key) :
             version' = Apply(version, l, {}, {f})
    BY <1>9 DEF FlushImm
  <2>2. nextFile' = nextFile + 1 BY <1>9 DEF FlushImm
  <2>3. FileOK(f) /\ f.ents = Held /\ f.num = nextFile
    <3>1. Distinct(imm[1]) BY <1>1, <1>3, MergedIs DEF SeqInv, Distinct
    <3>2. imm[1] \subseteq Entry /\ IsFiniteSet(imm[1]) BY <1>1, <1>3 DEF TypeInv
    <3> QED BY <3>1, <3>2, <1>3, <1>4, <1>9, FileOfOK
  <2> HIDE DEF f
  <2>4. Sorted(version) BY <1>1, SortedVersion
  <2>5. /\ l \in Levels
        /\ l # 0 => \A m \in Levels : m <= l => \A g \in version[m] : Apart(f, g)
    BY <2>1, <2>3, <2>4, FlushPlace
  <2>6. Newer(f.ents, InFiles(AllFiles(version))) BY <2>3, <1>7 DEF Newer
  <2>7. nextFile' \in Nat /\ nextFile' > f.num /\ f.num >= nextFile BY <2>2, <2>3, <1>4
  <2>8. \A m \in Levels : m < l => \A g \in version[m] : Apart(f, g)
    <3>1. \A m \in Levels : m < l => m <= l /\ l # 0 BY <2>5, LevelNumbers
    <3> QED BY <3>1, <2>5
  <2>9. /\ FilesPlaced(version', nextFile')
        /\ InFiles(AllFiles(version')) = InFiles(AllFiles(version)) \cup f.ents
        /\ version'[l] = version[l] \cup {f}
        /\ \A m \in Levels : m # l => version'[m] = version[m]
    <3>1. FilesPlaced(version, nextFile) BY <1>1 DEF FilesInv
    <3> QED BY <3>1, <2>1, <2>3, <2>5, <2>6, <2>7, <2>8, <1>4, AddFile
  <2>10. InFiles(AllFiles(version))' = InFiles(AllFiles(version')) BY DEF InFiles, AllFiles
  <2>11. FilesPlaced(version, nextFile)' BY <2>9 DEF FilesPlaced, ZeroInOrder, NeverHop
  <2>12. mem' \cup Held' \subseteq mem \cup Held BY <1>2, <1>3
  <2>13. Newer(mem' \cup Held', InFiles(AllFiles(version))')
    BY <2>3, <2>9, <2>10, <1>2, <1>3, <1>7 DEF Newer
  <2>14. InFiles(AllFiles(version))' \cup mem' \cup Held' = InFiles(AllFiles(version)) \cup mem \cup Held
    BY <2>3, <2>9, <2>10, <1>2, <1>3
  <2>15. TypeInv' /\ SeqInv' /\ FilesInv' /\ Merged' = Merged
    BY <2>7, <2>11, <2>12, <2>13, <2>14, <1>2, <1>5, <1>6, Moved
  <2>16. BgInv'
    <3>1. CASE bg = <<>> BY <3>1, <1>2 DEF BgInv
    <3>2. CASE bg # <<>>
      <4>0. PICK c : c = bg[1] OBVIOUS
      <4>1. WorkOK(c) BY <4>0, <3>2, <1>1 DEF BgInv
      <4>2. bg'[1] = c BY <4>0, <1>2
      <4>3. WorkOK(c)' BY <4>1, <2>3, <2>5, <2>6, <2>9, <1>1, <1>2, WorkBesideFlush
      <4>4. WorkOK(bg[1])' BY <4>2, <4>3 DEF WorkOK
      <4> QED BY <4>4 DEF BgInv
    <3> QED BY <3>1, <3>2
  <2> QED BY <2>15, <2>16 DEF DataInv
<1> QED BY <1>8, <1>9

-----------------------------------------------------------------------------
(* The invariant is kept: the store is closed and opened again. *)

\* w is v with the table p of the entries S on level 0, if there are any.
Tabled(v, S, p, n2, w) ==
    /\ FilesPlaced(w, n2)
    /\ InFiles(AllFiles(w)) = InFiles(AllFiles(v)) \cup S
    /\ w[0] = v[0] \cup (IF S = {} THEN {} ELSE {FileOf(p, S)})
    /\ \A m \in Levels : m # 0 => w[m] = v[m]

LEMMA AddTable ==
    ASSUME NEW v, NEW n \in Nat, FilesPlaced(v, n), NEW S, S \subseteq Entry, IsFiniteSet(S),
           Distinct(S), Newer(S, InFiles(AllFiles(v))),
           NEW p \in Nat, p >= n, NEW n2 \in Nat, n2 >= n, S # {} => n2 > p
    PROVE  \E w : Tabled(v, S, p, n2, w)
<1>1. CASE S = {}
  <2>1. \A f \in v[0] : f.num \in Nat /\ f.num < n
    BY LevelNumbers DEF FilesPlaced, FilesOK, FileOK
  <2>2. FilesPlaced(v, n2) BY <2>1 DEF FilesPlaced
  <2>3. Tabled(v, S, p, n2, v) BY <2>2, <1>1 DEF Tabled
  <2> QED BY <2>3
<1>2. CASE S # {}
  <2> DEFINE f == FileOf(p, S)
             z == 0
  <2>1. FileOK(f) /\ f.ents = S /\ f.num = p BY <1>2, FileOfOK
  <2>2. \A m \in Levels : m < z => \A g \in v[m] : Apart(f, g) BY LevelNumbers
  <2>3. z \in Levels /\ z = 0 BY LevelNumbers
  <2> HIDE DEF f, z
  <2>0. PICK w : w = Apply(v, z, {}, {f}) OBVIOUS
  <2>4. /\ FilesPlaced(w, n2) /\ InFiles(AllFiles(w)) = InFiles(AllFiles(v)) \cup f.ents
        /\ w[z] = v[z] \cup {f} /\ \A m \in Levels : m # z => w[m] = v[m]
    <3>1. /\ FileOK(f) /\ Newer(f.ents, InFiles(AllFiles(v))) /\ f.num >= n /\ n2 > f.num
          /\ z \in Levels
      BY <2>1, <2>3, <1>2
    <3> QED BY <3>1, <2>0, <2>2, AddFile
  <2>5. Tabled(v, S, p, n2, w) BY <2>1, <2>3, <2>4, <1>2 DEF Tabled, f
  <2> QED BY <2>5
<1> QED BY <1>1, <1>2

\* Both memtables become files of level 0, the older one first.
LEMMA Gather ==
    ASSUME DataInv, NEW p \in Nat, NEW q \in Nat, p >= nextFile, q >= nextFile,
           Held # {} => p < q, NEW n2 \in Nat, n2 >= nextFile,
           Held # {} => p < n2, mem # {} => q < n2,
           NEW F, F = (IF Held = {} THEN {} ELSE {FileOf(p, Held)})
                        \cup (IF mem = {} THEN {} ELSE {FileOf(q, mem)})
    PROVE  /\ FilesPlaced(Apply(version, 0, {}, F), n2)
           /\ InFiles(AllFiles(Apply(version, 0, {}, F)))
                = InFiles(AllFiles(version)) \cup Held \cup mem
<1> DEFINE n1 == IF Held = {} THEN nextFile ELSE p + 1
           old == InFiles(AllFiles(version))
<1>1. TypeInv /\ SeqInv /\ FilesInv BY DEF DataInv
<1>2. nextFile \in Nat BY <1>1, NumbersType
<1>3. n1 \in Nat /\ n1 >= nextFile /\ (Held # {} => n1 > p) /\ q >= n1 /\ n2 >= n1
  BY <1>2
<1> HIDE DEF n1
<1>4. /\ Held \subseteq Entry /\ IsFiniteSet(Held) /\ Distinct(Held)
      /\ mem \subseteq Entry /\ IsFiniteSet(mem) /\ Distinct(mem)
      /\ Newer(Held, old) /\ Newer(mem, old \cup Held)
  <2>1. Distinct(Held) /\ Distinct(mem) BY <1>1, MergedIs DEF SeqInv, Distinct
  <2>2. Newer(Held, old) /\ Newer(mem, old \cup Held) BY <1>1 DEF SeqInv, Newer
  <2> QED BY <2>1, <2>2, <1>1 DEF TypeInv
<1>5. PICK v1 : Tabled(version, Held, p, n1, v1)
  <2>1. FilesPlaced(version, nextFile) BY <1>1 DEF FilesInv
  <2> QED BY <2>1, <1>2, <1>3, <1>4, AddTable
<1>6. /\ FilesPlaced(v1, n1) /\ InFiles(AllFiles(v1)) = old \cup Held
      /\ v1[0] = version[0] \cup (IF Held = {} THEN {} ELSE {FileOf(p, Held)})
      /\ \A m \in Levels : m # 0 => v1[m] = version[m]
  BY <1>5 DEF Tabled
<1>7. PICK v2 : Tabled(v1, mem, q, n2, v2)
  <2>1. Newer(mem, InFiles(AllFiles(v1))) BY <1>4, <1>6
  <2> QED BY <2>1, <1>3, <1>4, <1>6, AddTable
<1>8. /\ FilesPlaced(v2, n2) /\ InFiles(AllFiles(v2)) = old \cup Held \cup mem
      /\ v2[0] = version[0] \cup F /\ \A m \in Levels : m # 0 => v2[m] = version[m]
  BY <1>6, <1>7 DEF Tabled
<1>9. Apply(version, 0, {}, F) = v2
  <2> DEFINE none == {}
             w == Apply(version, 0, none, F)
  <2>1. version = [l \in Levels |-> version[l]] BY <1>1 DEF FilesInv, FilesPlaced
  <2>2. v2 = [l \in Levels |-> v2[l]] BY <1>8 DEF FilesPlaced
  <2>3. none = {} /\ 0 \in Levels BY LevelNumbers
  <2> HIDE DEF none
  <2>4. /\ w = [m \in Levels |-> w[m]] /\ w[0] = (version[0] \ none) \cup F
        /\ \A m \in Levels : m # 0 => w[m] = version[m]
    BY <2>1, <2>3, ApplyIs
  <2>5. w = Apply(version, 0, {}, F) BY <2>3
  <2> HIDE DEF w
  <2>6. \A m \in Levels : w[m] = v2[m] BY <2>3, <2>4, <1>8
  <2>7. [m \in Levels |-> w[m]] = [m \in Levels |-> v2[m]] BY <2>6
  <2>8. w = v2 BY <2>2, <2>4, <2>7, Zenon
  <2> QED BY <2>5, <2>8
<1> QED BY <1>8, <1>9

LEMMA ReopenKeeps ==
    ASSUME DataInv, Reopen
    PROVE  DataInv' /\ Merged' = Merged
<1> DEFINE logs == IF imm = <<>> THEN <<mem>> ELSE <<imm[1], mem>>
           filled == {i \in DOMAIN logs : logs[i] # {}}
           F == {FileOf(nextFile + i - 1, logs[i]) : i \in filled}
           p == nextFile
           q == IF imm = <<>> THEN nextFile ELSE nextFile + 1
           n2 == IF filled = {} THEN nextFile ELSE nextFile + Max(filled)
<1>1. /\ version' = Apply(version, 0, {}, F) /\ nextFile' = n2
      /\ mem' = {} /\ imm' = <<>> /\ snaps' = {} /\ bg' = <<>> /\ manual' = <<>>
      /\ lastSeq' = lastSeq
  BY DEF Reopen
<1>2. nextFile \in Nat /\ lastSeq \in Nat BY NumbersType DEF DataInv
<1>3. /\ imm = <<>> => DOMAIN logs = {1} /\ logs[1] = mem /\ Held = {}
      /\ imm # <<>> => DOMAIN logs = {1, 2} /\ logs[1] = Held /\ logs[2] = mem
  BY DEF Held
<1>4. /\ filled \subseteq {1, 2} /\ (Held # {} => 1 \in filled)
      /\ mem # {} => (IF imm = <<>> THEN 1 ELSE 2) \in filled
  BY <1>3
<1>5. F = (IF Held = {} THEN {} ELSE {FileOf(p, Held)})
            \cup (IF mem = {} THEN {} ELSE {FileOf(q, mem)})
  <2>1. nextFile + 1 - 1 = nextFile /\ nextFile + 2 - 1 = nextFile + 1 BY <1>2
  <2>2. CASE imm = <<>>
    <3>1. filled = IF mem = {} THEN {} ELSE {1} BY <2>2, <1>3
    <3>2. q = nextFile /\ Held = {} /\ logs[1] = mem BY <2>2, <1>3
    <3> HIDE DEF filled, logs, q
    <3>3. F = IF mem = {} THEN {} ELSE {FileOf(nextFile + 1 - 1, mem)} BY <3>1, <3>2
    <3> QED BY <3>2, <3>3, <2>1
  <2>3. CASE imm # <<>>
    <3>1. filled = (IF Held = {} THEN {} ELSE {1}) \cup (IF mem = {} THEN {} ELSE {2})
      BY <2>3, <1>3
    <3>2. q = nextFile + 1 /\ logs[1] = Held /\ logs[2] = mem BY <2>3, <1>3
    <3> HIDE DEF filled, logs, q
    <3>3. F = (IF Held = {} THEN {} ELSE {FileOf(nextFile + 1 - 1, Held)})
                \cup (IF mem = {} THEN {} ELSE {FileOf(nextFile + 2 - 1, mem)})
      BY <3>1, <3>2
    <3> QED BY <3>2, <3>3, <2>1
  <2> QED BY <2>2, <2>3
<1>6. filled # {} => /\ Max(filled) \in {1, 2} /\ \A i \in filled : i <= Max(filled)
  <2> HIDE DEF filled
  <2>1. filled \subseteq 1 .. 2 BY <1>4
  <2>2. IsFiniteSet(filled) /\ filled \subseteq Nat
    <3>1. filled \in SUBSET Nat /\ \A i \in filled : i <= 2 BY <2>1
    <3>2. IsFiniteSet(filled)
      <4> DEFINE two == 2
      <4>1. two \in Nat /\ \A i \in filled : i <= two BY <3>1
      <4> HIDE DEF two
      <4> QED BY <3>1, <4>1, FS_BoundedSetOfNaturals
    <3> QED BY <3>2, <2>1
  <2>3. filled # {} => Max(filled) \in filled /\ \A i \in filled : i <= Max(filled)
    BY <2>2, MaxIs
  <2> QED BY <2>3, <1>4
<1>7. p \in Nat /\ q \in Nat /\ p >= nextFile /\ q >= nextFile /\ (Held # {} => p < q)
  BY <1>2, <1>3
<1>8. n2 \in Nat /\ n2 >= nextFile /\ (Held # {} => p < n2) /\ (mem # {} => q < n2)
  <2> DEFINE top == Max(filled)
  <2>1. n2 = IF filled = {} THEN nextFile ELSE nextFile + top OBVIOUS
  <2>2. filled # {} => top \in {1, 2} /\ \A i \in filled : i <= top BY <1>6
  <2> HIDE DEF top, n2, filled
  <2> QED BY <2>1, <2>2, <1>2, <1>4
<1> HIDE DEF F, p, q, n2, filled, logs
<1>9. /\ FilesPlaced(Apply(version, 0, {}, F), n2)
      /\ InFiles(AllFiles(Apply(version, 0, {}, F))) = InFiles(AllFiles(version)) \cup Held \cup mem
  BY <1>5, <1>7, <1>8, Gather
<1>10. FilesPlaced(version, nextFile)'
  BY <1>1, <1>9 DEF FilesPlaced, ZeroInOrder, NeverHop
<1>11. InFiles(AllFiles(version))' = InFiles(AllFiles(version)) \cup Held \cup mem
  <2>1. InFiles(AllFiles(version))' = InFiles(AllFiles(version')) BY DEF InFiles, AllFiles
  <2> QED BY <2>1, <1>1, <1>9
<1>12. Held' = {} BY <1>1 DEF Held
<1>13. TypeInv' /\ SeqInv' /\ FilesInv' /\ Merged' = Merged
  <2>1. mem' \cup Held' \subseteq mem \cup Held BY <1>1, <1>12
  <2>2. /\ IsFiniteSet(mem') /\ IsFiniteSet(Held') /\ Newer(mem', Held')
        /\ Newer(mem' \cup Held', InFiles(AllFiles(version))')
    BY <1>1, <1>12, FS_EmptySet DEF Newer
  <2>3. InFiles(AllFiles(version))' \cup mem' \cup Held' = InFiles(AllFiles(version)) \cup mem \cup Held
    BY <1>1, <1>11, <1>12
  <2>4. nextFile' \in Nat BY <1>1, <1>8
  <2>5. snaps' \subseteq 0 .. lastSeq /\ (manual' = <<>> \/ ManualOK(manual[1])') BY <1>1
  <2> QED BY <2>1, <2>2, <2>3, <2>4, <2>5, <1>1, <1>10, Moved
<1>14. BgInv' BY <1>1 DEF BgInv
<1> QED BY <1>13, <1>14 DEF DataInv

-----------------------------------------------------------------------------
(* The invariant is kept: compactions. *)

LEMMA FilesFinite ==
    ASSUME NEW files, FilesOK(files)
    PROVE  IsFiniteSet(InFiles(files))
<1> DEFINE g == [f \in files |-> f.ents]
           parts == {f.ents : f \in files}
<1>1. g \in Surjection(files, parts) BY DEF Surjection
<1>2. IsFiniteSet(files) BY DEF FilesOK
<1> HIDE DEF g
<1>3. IsFiniteSet(parts) BY <1>1, <1>2, FS_Surjection
<1>4. \A T \in parts : IsFiniteSet(T) BY DEF FilesOK, FileOK
<1> HIDE DEF parts
<1>5. IsFiniteSet(UNION parts) BY <1>3, <1>4, FS_UNION
<1> QED BY <1>5 DEF InFiles, parts

LEMMA ManualEndIs ==
    ASSUME NEW c, FilesOK(c.in0), c.in0 # {}
    PROVE  ManualEnd(c) \in Nat
<1> DEFINE S == c.in0
           R == {p \in S \X S : Before(p[2].smallest, p[1].smallest)}
<1>1. \A x, y \in S : <<x, y>> \in R <=> Before(y.smallest, x.smallest) OBVIOUS
<1>2. \A x \in S : x.smallest.key \in Nat /\ x.smallest.seq \in Nat /\ x.largest.key \in Nat
  BY FileType, EntryType DEF FilesOK
<1>3. IsFiniteSet(S) /\ S # {} BY DEF FilesOK
<1> HIDE DEF R, S
<1>4. (\A x \in S : <<x, x>> \notin R)
      /\ \A x, y, z \in S : <<x, y>> \in R /\ <<y, z>> \in R => <<x, z>> \in R
  BY <1>1, <1>2 DEF Before
<1>5. PICK x \in S : \A y \in S : <<y, x>> \notin R BY <1>3, <1>4, Extreme, Zenon
<1>6. \A y \in S : ~Before(x.smallest, y.smallest) BY <1>1, <1>5
<1> DEFINE last == CHOOSE f \in S : \A g \in S : ~Before(f.smallest, g.smallest)
<1>7. last \in S BY <1>6
<1>8. ManualEnd(c) = last.largest.key BY Zenon DEF ManualEnd, S
<1> HIDE DEF last
<1> QED BY <1>2, <1>7, <1>8

\* What the files and memory hold when inputs have been replaced by outputs.
LEMMA Merging ==
    ASSUME DataInv, NEW l \in 0 .. NumLevels - 2, NEW in0, NEW in1, NEW outs,
           in0 \subseteq version[l], in1 \subseteq version[l + 1], FilesOK(outs),
           InFiles(outs) \subseteq InFiles(in0 \cup in1),
           \A f \in in0, g \in version[l] \ in0 : Apart(f, g) \/ Newer(g.ents, f.ents),
           version' = Merge(version, l, in0, in1, outs),
           nextFile' \in Nat, nextFile' >= nextFile,
           UNCHANGED <<mem, imm, lastSeq, snaps>>, bg' = <<>>,
           manual' = <<>> \/ ManualOK(manual[1])'
    PROVE  /\ DataInv'
           /\ Merged' = mem \cup Held \cup InFiles(AllFiles(version'))
<1> DEFINE A == InFiles(AllFiles(version))
           B == InFiles(AllFiles(version'))
<1>1. TypeInv /\ SeqInv /\ FilesInv BY DEF DataInv
<1>2. FilesPlaced(version, nextFile) /\ nextFile \in Nat BY <1>1 DEF FilesInv, TypeInv
<1>3. \A f \in in0, g \in version[l] \ in0 : \A x \in f.ents, y \in g.ents :
          x.key = y.key => y.seq > x.seq
  <2> SUFFICES ASSUME NEW f \in in0, NEW g \in version[l] \ in0, NEW x \in f.ents, NEW y \in g.ents,
                      x.key = y.key
               PROVE  y.seq > x.seq
    OBVIOUS
  <2>1. FileOK(f) /\ FileOK(g) BY <1>2, LevelNumbers DEF FilesPlaced, FilesOK
  <2>2. CASE Apart(f, g) BY <2>1, <2>2, ApartKeys
  <2>3. CASE Newer(g.ents, f.ents) BY <2>3 DEF Newer
  <2> QED BY <2>2, <2>3
<1>4. FilesPlaced(version', nextFile') BY <1>2, <1>3, MergeKeepsPlaces
<1>5. B \subseteq A
  <2>1. \A w : w = Merge(version, l, in0, in1, outs) => InFiles(AllFiles(w)) \subseteq A
    BY <1>2, MergeEntries
  <2> QED BY <2>1
<1>6. FilesPlaced(version, nextFile)' BY <1>4 DEF FilesPlaced, ZeroInOrder, NeverHop
<1>7. InFiles(AllFiles(version))' = B BY DEF InFiles, AllFiles
<1> HIDE DEF A, B
<1>8. Held' = Held BY DEF Held
<1>9. Merged' = mem \cup Held \cup B
  <2>1. Merged' = mem' \cup Held' \cup InFiles(AllFiles(version))'
    BY DEF Merged, Held, InFiles
  <2> QED BY <2>1, <1>7, <1>8
<1>10. Merged' \subseteq Merged
  <2>1. Merged = mem \cup Held \cup A BY MergedIs DEF A
  <2> QED BY <2>1, <1>5, <1>9
<1>11. TypeInv' BY <1>1, <1>8 DEF TypeInv
<1>12. SeqInv'
  <2>1. Distinct(Merged') /\ \A x \in Merged' : x.seq <= lastSeq'
    BY <1>1, <1>10 DEF SeqInv, Distinct
  <2>2. Newer(mem', Held') BY <1>1, <1>8 DEF SeqInv
  <2>3. Newer(mem' \cup Held', InFiles(AllFiles(version))')
    <3>1. Newer(mem \cup Held, A) BY <1>1 DEF SeqInv, A
    <3> QED BY <3>1, <1>5, <1>7, <1>8 DEF Newer
  <2> QED BY <2>1, <2>2, <2>3 DEF SeqInv
<1>13. FilesInv' BY <1>6 DEF FilesInv
<1>14. BgInv' BY DEF BgInv
<1> QED BY <1>9, <1>11, <1>12, <1>13, <1>14 DEF DataInv, B

LEMMA PickedIs ==
    ASSUME DataInv, KeysApart, NEW q \in PickCompaction(version, lastSeq)
    PROVE  /\ q[1] \in 0 .. NumLevels - 2
           /\ InputsOK(version, q[1], q[2][1], q[2][2]) /\ NoGap(q[2][1] \cup q[2][2])
<1>1. Sorted(version) BY SortedVersion DEF DataInv
<1>2. NumbersDiffer(version[0]) BY DEF DataInv, FilesInv, FilesPlaced, ZeroInOrder
<1> QED BY <1>1, <1>2, PickIs

\* A file moved down: what is where, and that nothing is gained or lost.
LEMMA MoveIs ==
    ASSUME DataInv, KeysApart, TrivialMove
    PROVE  /\ DataInv' /\ Merged' = Merged
           /\ \E l \in 0 .. NumLevels - 2 : \E in0 :
                  InputsOK(version, l, in0, {}) /\ Cardinality(in0) = 1
                  /\ version' = Merge(version, l, in0, {}, in0)
<1>1. PICK p \in PickCompaction(version, lastSeq) :
           /\ MovableShape(p[2])
           /\ version' = Apply(Apply(version, p[1], p[2][1], {}), p[1] + 1, {}, p[2][1])
  BY DEF TrivialMove
<1>2. bg = <<>> /\ UNCHANGED <<mem, imm, lastSeq, nextFile, snaps, bg, manual>>
  BY DEF TrivialMove, Idle
<1> DEFINE l == p[1]
           in0 == p[2][1]
           in1 == p[2][2]
<1>3. l \in 0 .. NumLevels - 2 /\ InputsOK(version, l, in0, in1) BY PickedIs
<1>4. in1 = {} /\ Cardinality(in0) = 1 BY <1>1 DEF MovableShape
<1>5. version' = Merge(version, l, in0, in1, in0)
  BY <1>1, <1>4 DEF Merge
<1> HIDE DEF l, in0, in1
<1>6. FilesPlaced(version, nextFile) /\ nextFile \in Nat BY DEF DataInv, FilesInv, TypeInv
<1>7. FilesOK(in0)
  <2>1. FilesOK(version[l]) BY <1>3, <1>6, LevelNumbers DEF FilesPlaced
  <2>2. in0 \in SUBSET version[l] BY <1>3 DEF InputsOK
  <2> QED BY <2>1, <2>2, FilesOKParts
<1>8. InFiles(in0) \subseteq InFiles(in0 \cup in1) BY DEF InFiles
<1>9. in0 \subseteq version[l] /\ in1 \subseteq version[l + 1]
      /\ \A f \in in0, g \in version[l] \ in0 : Apart(f, g) \/ Newer(g.ents, f.ents)
  BY <1>3 DEF InputsOK
<1>10. nextFile' \in Nat /\ nextFile' >= nextFile BY <1>2, <1>6
<1>11. manual' = <<>> \/ ManualOK(manual[1])' BY <1>2 DEF DataInv, TypeInv, ManualOK
<1>12. DataInv' /\ Merged' = mem \cup Held \cup InFiles(AllFiles(version'))
  BY <1>2, <1>3, <1>5, <1>7, <1>8, <1>9, <1>10, <1>11, Merging
<1>13. InFiles(AllFiles(version')) = InFiles(AllFiles(version))
  <2> DEFINE A == InFiles(AllFiles(version))
             B == InFiles(AllFiles(version'))
  <2>1. /\ B \subseteq A /\ InFiles(in0) \subseteq B
        /\ A \ B \subseteq InFiles(in0 \cup in1)
    <3>1. \A w : w = Merge(version, l, in0, in1, in0) =>
              /\ InFiles(AllFiles(w)) \subseteq A /\ InFiles(in0) \subseteq InFiles(AllFiles(w))
              /\ A \ InFiles(AllFiles(w)) \subseteq InFiles(in0 \cup in1)
      BY <1>3, <1>6, <1>8, <1>9, MergeEntries
    <3> QED BY <3>1, <1>5
  <2>2. InFiles(in0 \cup in1) = InFiles(in0) BY <1>4
  <2> HIDE DEF A, B
  <2>3. A \subseteq B BY <2>1, <2>2
  <2>4. A = B BY <2>1, <2>3
  <2> QED BY <2>4 DEF A, B
<1>14. Merged' = Merged BY <1>12, <1>13, MergedIs
<1>15. InputsOK(version, l, in0, {}) /\ version' = Merge(version, l, in0, {}, in0)
  BY <1>3, <1>4, <1>5
<1> QED BY <1>3, <1>4, <1>12, <1>14, <1>15

\* A compaction begins.
LEMMA StartIs ==
    ASSUME DataInv, NEW l \in 0 .. NumLevels - 2, NEW ins, NEW byHand \in BOOLEAN,
           InputsOK(version, l, ins[1], ins[2]), byHand => manual # <<>>,
           bg' = <<Compaction(l, ins, byHand)>>,
           UNCHANGED <<mem, imm, lastSeq, version, nextFile, snaps, manual>>
    PROVE  DataInv' /\ Merged' = Merged
<1>1. TypeInv /\ SeqInv /\ FilesInv BY DEF DataInv
<1>2. PICK c : c = Compaction(l, ins, byHand) OBVIOUS
<1>3. WorkOK(c) BY <1>1, <1>2, NewWork
<1>4. bg'[1] = c BY <1>2
<1>5. WorkOK(c)' BY <1>3 DEF WorkOK
<1>6. WorkOK(bg[1])' BY <1>4, <1>5, ZenonT(40) DEF WorkOK
<1>7. BgInv' BY <1>6 DEF BgInv
<1>8. Held' = Held /\ InFiles(AllFiles(version))' = InFiles(AllFiles(version))
  BY DEF Held, InFiles, AllFiles
<1>9. manual' = <<>> \/ ManualOK(manual[1])' BY <1>1 DEF TypeInv, ManualOK
<1>10. TypeInv' /\ SeqInv' /\ FilesInv' /\ Merged' = Merged
  <2>1. /\ mem' \cup Held' = mem \cup Held
        /\ mem' \subseteq Entry /\ IsFiniteSet(mem') /\ Held' \subseteq Entry /\ IsFiniteSet(Held')
        /\ snaps' \subseteq 0 .. lastSeq
    BY <1>1, <1>8 DEF TypeInv
  <2>2. Newer(mem', Held') BY <1>1, <1>8 DEF SeqInv
  <2> QED BY <2>1, <2>2, <1>9, Same
<1> QED BY <1>7, <1>10 DEF DataInv

LEMMA StartCompactionKeeps ==
    ASSUME DataInv, KeysApart, StartCompaction
    PROVE  DataInv' /\ Merged' = Merged
<1>1. PICK p \in PickCompaction(version, lastSeq) : bg' = <<Compaction(p[1], p[2], FALSE)>>
  BY DEF StartCompaction
<1>2. UNCHANGED <<mem, imm, lastSeq, version, nextFile, snaps, manual>> BY DEF StartCompaction
<1>3. p[1] \in 0 .. NumLevels - 2 /\ InputsOK(version, p[1], p[2][1], p[2][2]) BY PickedIs
<1> DEFINE no == FALSE
<1>4. no \in BOOLEAN /\ (no => manual # <<>>) /\ bg' = <<Compaction(p[1], p[2], no)>> BY <1>1
<1> HIDE DEF no
<1> QED BY <1>2, <1>3, <1>4, StartIs

LEMMA StartManualKeeps ==
    ASSUME DataInv, KeysApart, StartManual
    PROVE  DataInv' /\ Merged' = Merged
<1> DEFINE m == manual[1]
<1>1. PICK p \in CompactRange(version, m.level, m.from, m.end) :
           bg' = <<Compaction(p[1], p[2], TRUE)>>
  BY DEF StartManual
<1>2. manual # <<>> /\ UNCHANGED <<mem, imm, lastSeq, version, nextFile, snaps, manual>>
  BY DEF StartManual
<1>3. m.level \in 0 .. NumLevels - 2 /\ m.from \in Nat /\ m.end \in Nat
  <2>1. ManualOK(m) BY <1>2 DEF DataInv, TypeInv
  <2> HIDE DEF m
  <2>2. m.level \in Nat /\ m.from \in Nat /\ m.end \in Nat /\ m.top \in 1 .. NumLevels - 1
        /\ m.level < m.top
    BY <2>1 DEF ManualOK
  <2> QED BY <2>2, LevelNumbers
<1>4. Sorted(version) BY SortedVersion DEF DataInv
<1> HIDE DEF m
<1>5. p[1] = m.level /\ InputsOK(version, m.level, p[2][1], p[2][2])
  BY <1>3, <1>4, CompactRangeIs
<1> DEFINE yes == TRUE
<1>6. yes \in BOOLEAN /\ (yes => manual # <<>>) /\ bg' = <<Compaction(p[1], p[2], yes)>>
  BY <1>1, <1>2
<1> HIDE DEF yes
<1>7. p[1] \in 0 .. NumLevels - 2 /\ InputsOK(version, p[1], p[2][1], p[2][2]) BY <1>3, <1>5
<1> QED BY <1>2, <1>6, <1>7, StartIs

LEMMA NextManualLevelKeeps ==
    ASSUME DataInv, NextManualLevel
    PROVE  DataInv' /\ Merged' = Merged
<1>0. PICK m : m = manual[1] OBVIOUS
<1>1. /\ bg = <<>> /\ manual # <<>>
      /\ manual' = IF m.level + 1 = m.top THEN <<>>
                   ELSE <<[m EXCEPT !.level = @ + 1, !.from = m.begin]>>
      /\ UNCHANGED <<mem, imm, lastSeq, version, nextFile, snaps, bg>>
  BY <1>0 DEF NextManualLevel, Idle
<1>2. TypeInv /\ SeqInv BY DEF DataInv
<1>3. ManualOK(m) BY <1>0, <1>1, <1>2 DEF TypeInv
<1>4. manual' = <<>> \/ ManualOK(manual[1])'
  <2>1. CASE m.level + 1 = m.top BY <2>1, <1>1
  <2>2. CASE m.level + 1 # m.top
    <3> DEFINE n == [m EXCEPT !.level = @ + 1, !.from = m.begin]
    <3>1. m.level \in Nat /\ m.top \in Nat /\ m.level < m.top
      BY <1>3, LevelNumbers DEF ManualOK
    <3>2. n \in [level : Nat, from : Nat, begin : Nat, end : Nat, top : 1 .. NumLevels - 1]
          /\ n.level = m.level + 1 /\ n.top = m.top
      <4> DEFINE Tops == 1 .. NumLevels - 1
      <4>1. m \in [level : Nat, from : Nat, begin : Nat, end : Nat, top : Tops]
        BY <1>3 DEF ManualOK
      <4> HIDE DEF Tops
      <4>2. m.level + 1 \in Nat /\ m.begin \in Nat BY <4>1
      <4>3. n \in [level : Nat, from : Nat, begin : Nat, end : Nat, top : Tops]
        BY <4>1, <4>2
      <4>4. n.level = m.level + 1 /\ n.top = m.top BY <4>1
      <4> QED BY <4>3, <4>4 DEF Tops
    <3>3. manual'[1] = n BY <2>2, <1>1
    <3> HIDE DEF n
    <3>4. ManualOK(n) BY <3>1, <3>2, <2>2 DEF ManualOK
    <3> QED BY <3>3, <3>4 DEF ManualOK
  <2> QED BY <2>1, <2>2
<1>5. Held' = Held BY <1>1 DEF Held
<1>6. TypeInv' /\ SeqInv' /\ FilesInv' /\ Merged' = Merged
  <2>1. /\ mem' \cup Held' = mem \cup Held
        /\ mem' \subseteq Entry /\ IsFiniteSet(mem') /\ Held' \subseteq Entry /\ IsFiniteSet(Held')
        /\ snaps' \subseteq 0 .. lastSeq
    BY <1>1, <1>2, <1>5 DEF TypeInv
  <2>2. Newer(mem', Held') BY <1>1, <1>2, <1>5 DEF SeqInv
  <2> QED BY <2>1, <2>2, <1>1, <1>4, Same
<1>7. BgInv' BY <1>1 DEF BgInv
<1> QED BY <1>6, <1>7 DEF DataInv

\* The outputs of a compaction: tables of exactly the entries that survive.
LEMMA FinishIs ==
    ASSUME DataInv, FinishCompaction, NEW c, c = bg[1]
    PROVE  /\ WorkOK(c) /\ bg' = <<>>
           /\ UNCHANGED <<mem, imm, lastSeq, snaps>>
           /\ nextFile' \in Nat /\ nextFile' >= nextFile
           /\ manual' = <<>> \/ ManualOK(manual[1])'
           /\ \E outs : /\ version' = Merge(version, c.level, c.in0, c.in1, outs)
                        /\ FilesOK(outs) /\ InFiles(outs) = Survivors(c)
                        /\ ~CutInsideKey \/ (\A x, y \in Survivors(c) : x.key = y.key => x = y)
                           => AllApart(outs)
<1> DEFINE kept == Survivors(c)
           OfNewKey(e) == \A f \in kept : f.key = e.key => ~Before(f, e)
           Places == IF CutInsideKey THEN kept ELSE {e \in kept : OfNewKey(e)}
           outputs == {Numbered(Runs(kept, starts), nextFile) : starts \in SUBSET Places}
           Install(outs) ==
               /\ version' = Merge(version, c.level, c.in0, c.in1, outs)
               /\ nextFile' = nextFile + Cardinality(outs)
<1>1. TypeInv /\ SeqInv /\ FilesInv /\ BgInv BY DEF DataInv
<1>2. bg # <<>> /\ bg' = <<>> /\ UNCHANGED <<mem, imm, lastSeq, snaps>>
  BY DEF FinishCompaction
<1>3. WorkOK(c) BY <1>1, <1>2 DEF BgInv
<1>4. manual' = IF c.byHand THEN <<[manual[1] EXCEPT !.from = ManualEnd(c)]>> ELSE manual
  BY Zenon DEF FinishCompaction
<1>5. \/ kept = {} /\ Install({})
      \/ kept # {} /\ \E starts \in SUBSET Places : Install(Numbered(Runs(kept, starts), nextFile))
  BY DEF FinishCompaction, Merge
<1>6. c.level \in Levels /\ c.level + 1 \in Levels BY <1>3, LevelNumbers DEF WorkOK
<1>7. FilesOK(c.in0) /\ FilesOK(c.in0 \cup c.in1)
  <2>1. FilesOK(version[c.level]) /\ FilesOK(version[c.level + 1])
    BY <1>1, <1>6 DEF FilesInv, FilesPlaced
  <2>2. c.in0 \in SUBSET version[c.level] /\ c.in1 \in SUBSET version[c.level + 1]
    BY <1>3 DEF WorkOK
  <2>3. FilesOK(c.in0) /\ FilesOK(c.in1) BY <2>1, <2>2, FilesOKParts
  <2> QED BY <2>3, FilesOKParts
<1>8. kept \subseteq InFiles(c.in0 \cup c.in1) BY DEF Survivors, InFiles
<1>9. InFiles(c.in0 \cup c.in1) \subseteq Merged
  <2>1. ASSUME NEW x \in InFiles(c.in0 \cup c.in1) PROVE x \in InFiles(AllFiles(version))
    <3>1. PICK f \in c.in0 \cup c.in1 : x \in f.ents BY InFilesIs
    <3>2. f \in version[c.level] \/ f \in version[c.level + 1] BY <1>3 DEF WorkOK
    <3> QED BY <3>1, <3>2, <1>6, VersionEntries
  <2> QED BY <2>1, MergedIs
<1>10. kept \subseteq Entry /\ IsFiniteSet(kept) /\ Distinct(kept)
  <2> HIDE DEF kept
  <2>1. kept \subseteq Merged /\ Merged \subseteq Entry BY <1>1, <1>8, <1>9, MergedEntries
  <2>2. Distinct(kept) BY <2>1, <1>1 DEF SeqInv, Distinct
  <2>3. IsFiniteSet(InFiles(c.in0 \cup c.in1)) BY <1>7, FilesFinite
  <2>4. IsFiniteSet(kept) BY <2>3, <1>8, FS_Subset
  <2> QED BY <2>1, <2>2, <2>4
<1>11. nextFile \in Nat BY <1>1, NumbersType
<1>12. /\ Places \subseteq kept
       /\ ~CutInsideKey \/ (\A x, y \in kept : x.key = y.key => x = y) =>
             \A s \in Places : \A f \in kept : f.key = s.key => ~Before(f, s)
  <2>1. Places \subseteq kept OBVIOUS
  <2>2. ~CutInsideKey => \A s \in Places : OfNewKey(s) OBVIOUS
  <2>3. \A x \in kept : ~Before(x, x)
    <3> HIDE DEF kept
    <3>1. \A x \in kept : x.key \in Nat /\ x.seq \in Nat BY <1>10, EntryType
    <3> QED BY <3>1 DEF Before
  <2> HIDE DEF kept, Places
  <2> QED BY <2>1, <2>2, <2>3
<1> HIDE DEF kept, Places, Install
<1>13. \E outs : /\ Install(outs) /\ Cardinality(outs) \in Nat
                 /\ FilesOK(outs) /\ InFiles(outs) = kept
                 /\ ~CutInsideKey \/ (\A x, y \in kept : x.key = y.key => x = y) => AllApart(outs)
  <2>1. CASE kept = {}
    <3> DEFINE none == {}
    <3>1. /\ Install(none) /\ Cardinality(none) \in Nat
          /\ FilesOK(none) /\ InFiles(none) = kept /\ AllApart(none)
      BY <2>1, <1>5, FS_EmptySet DEF FilesOK, InFiles, AllApart
    <3> QED BY <3>1
  <2>2. CASE kept # {}
    <3>1. PICK starts \in SUBSET Places : Install(Numbered(Runs(kept, starts), nextFile))
      BY <2>2, <1>5
    <3>2. starts \subseteq kept BY <1>12
    <3>3. PICK outs : outs = Numbered(Runs(kept, starts), nextFile) OBVIOUS
    <3>4. /\ FilesOK(outs) /\ InFiles(outs) = kept /\ Cardinality(outs) \in Nat
          /\ (\A s \in starts : \A f \in kept : f.key = s.key => ~Before(f, s)) => AllApart(outs)
      BY <3>2, <3>3, <2>2, <1>10, <1>11, OutputsOK
    <3>5. ~CutInsideKey \/ (\A x, y \in kept : x.key = y.key => x = y) => AllApart(outs)
      BY <3>4, <1>12
    <3>6. Install(outs) BY <3>1, <3>3
    <3> QED BY <3>4, <3>5, <3>6
  <2> QED BY <2>1, <2>2
<1>14. PICK outs : /\ Install(outs) /\ Cardinality(outs) \in Nat
                   /\ FilesOK(outs) /\ InFiles(outs) = kept
                   /\ ~CutInsideKey \/ (\A x, y \in kept : x.key = y.key => x = y) => AllApart(outs)
  BY <1>13
<1>15. version' = Merge(version, c.level, c.in0, c.in1, outs) BY <1>14 DEF Install
<1>16. nextFile' \in Nat /\ nextFile' >= nextFile BY <1>14, <1>11 DEF Install
<1>17. manual' = <<>> \/ ManualOK(manual[1])'
  <2>0. PICK m : m = manual[1] OBVIOUS
  <2>1. CASE c.byHand
    <3>1. manual # <<>> BY <2>1, <1>3 DEF WorkOK
    <3>2. ManualOK(m) BY <3>1, <2>0, <1>1 DEF TypeInv
    <3>3. ManualEnd(c) \in Nat BY <1>3, <1>7, ManualEndIs DEF WorkOK
    <3>4. PICK to : to = ManualEnd(c) OBVIOUS
    <3> DEFINE n == [m EXCEPT !.from = to]
    <3>5. manual'[1] = n BY <2>0, <2>1, <3>4, <1>4
    <3>6. ManualOK(n)
      <4> DEFINE Tops == 1 .. NumLevels - 1
      <4>1. m \in [level : Nat, from : Nat, begin : Nat, end : Nat, top : Tops] /\ m.level < m.top
        BY <3>2 DEF ManualOK
      <4> HIDE DEF Tops
      <4>2. n \in [level : Nat, from : Nat, begin : Nat, end : Nat, top : Tops]
        BY <4>1, <3>3, <3>4
      <4>3. n.level = m.level /\ n.top = m.top BY <4>1
      <4> HIDE DEF n
      <4> QED BY <4>1, <4>2, <4>3 DEF ManualOK, Tops
    <3> HIDE DEF n
    <3> QED BY <3>5, <3>6 DEF ManualOK
  <2>2. CASE ~c.byHand
    <3>1. manual' = manual BY <2>2, <1>4
    <3> QED BY <3>1, <1>1 DEF TypeInv, ManualOK
  <2> QED BY <2>1, <2>2
<1> QED BY <1>2, <1>3, <1>14, <1>15, <1>16, <1>17 DEF kept

\* A compaction keeps what every reader sees, whatever was flushed beside it.
LEMMA FinishKeeps ==
    ASSUME DataInv, KeysApart, FinishCompaction
    PROVE  /\ DataInv'
           /\ \A k \in Keys : \A s \in snaps \cup {lastSeq} :
                  ValueIn(Merged', k, s) = ValueIn(Merged, k, s)
<1> DEFINE A == InFiles(AllFiles(version))
           B == InFiles(AllFiles(version'))
<1>0. PICK c : c = bg[1] OBVIOUS
<1>1. /\ WorkOK(c) /\ bg' = <<>>
      /\ UNCHANGED <<mem, imm, lastSeq, snaps>>
      /\ nextFile' \in Nat /\ nextFile' >= nextFile
      /\ manual' = <<>> \/ ManualOK(manual[1])'
      /\ \E outs : /\ version' = Merge(version, c.level, c.in0, c.in1, outs)
                   /\ FilesOK(outs) /\ InFiles(outs) = Survivors(c)
  BY <1>0, FinishIs
<1>2. PICK outs : /\ version' = Merge(version, c.level, c.in0, c.in1, outs)
                  /\ FilesOK(outs) /\ InFiles(outs) = Survivors(c)
  BY <1>1
<1> DEFINE all == InFiles(c.in0 \cup c.in1)
           kept == Survivors(c)
<1>3. kept \subseteq all BY DEF Survivors, InFiles
<1>4. TypeInv /\ SeqInv /\ FilesPlaced(version, nextFile) BY DEF DataInv, FilesInv
<1>5. /\ c.level \in 0 .. NumLevels - 2
      /\ c.in0 \subseteq version[c.level] /\ c.in1 \subseteq version[c.level + 1]
      /\ \A f \in c.in0, g \in version[c.level] \ c.in0 : Apart(f, g) \/ Newer(g.ents, f.ents)
      /\ \A f \in c.in0, g \in version[c.level + 1] \ c.in1 : Apart(f, g)
  BY <1>1 DEF WorkOK
<1>6. DataInv' /\ Merged' = mem \cup Held \cup B
  <2> DEFINE l == c.level
             in0 == c.in0
             in1 == c.in1
  <2>1. /\ l \in 0 .. NumLevels - 2 /\ in0 \subseteq version[l] /\ in1 \subseteq version[l + 1]
        /\ \A f \in in0, g \in version[l] \ in0 : Apart(f, g) \/ Newer(g.ents, f.ents)
        /\ version' = Merge(version, l, in0, in1, outs)
        /\ InFiles(outs) \subseteq InFiles(in0 \cup in1) /\ FilesOK(outs)
    BY <1>2, <1>3, <1>5
  <2> HIDE DEF l, in0, in1
  <2> QED BY <2>1, <1>1, Merging
<1>7. /\ B \subseteq A /\ kept \subseteq B /\ all \subseteq A /\ A \ B \subseteq all
      /\ \A y \in B : y \in kept \/ Beside(version, c.level, c.in0, c.in1, y)
  <2> DEFINE l == c.level
             in0 == c.in0
             in1 == c.in1
  <2>1. /\ l \in 0 .. NumLevels - 2 /\ in0 \subseteq version[l] /\ in1 \subseteq version[l + 1]
        /\ InFiles(outs) \subseteq InFiles(in0 \cup in1)
    BY <1>2, <1>3, <1>5
  <2>2. version' = Merge(version, l, in0, in1, outs) BY <1>2
  <2> HIDE DEF l, in0, in1
  <2>3. /\ B \subseteq A /\ InFiles(outs) \subseteq B /\ InFiles(in0 \cup in1) \subseteq A
        /\ A \ B \subseteq InFiles(in0 \cup in1)
        /\ \A y \in B : y \in InFiles(outs) \/ Beside(version, l, in0, in1, y)
    <3> DEFINE W == InFiles(AllFiles(Merge(version, l, in0, in1, outs)))
    <3>1. /\ W \subseteq A /\ InFiles(outs) \subseteq W /\ InFiles(in0 \cup in1) \subseteq A
          /\ A \ W \subseteq InFiles(in0 \cup in1)
          /\ \A y \in W : y \in InFiles(outs) \/ Beside(version, l, in0, in1, y)
      BY <2>1, <1>4, MergeEntries
    <3>2. B = W BY <2>2
    <3> HIDE DEF A, B, W
    <3> QED BY <3>1, <3>2
  <2> QED BY <2>3, <1>2 DEF l, in0, in1
<1> HIDE DEF A, B, all, kept
<1>8. Merged = mem \cup Held \cup A BY MergedIs DEF A
<1>9. ASSUME NEW x \in all, NEW y \in Merged', y \notin kept,
             x.key = y.key, IsBaseLevelForKey(c.base, c.level, x.key)
      PROVE  y.seq > x.seq
  <2>1. CASE y \in mem \cup Held
    <3>1. Newer(mem \cup Held, A) BY <1>4 DEF SeqInv, A
    <3> QED BY <3>1, <2>1, <1>7, <1>9 DEF Newer
  <2>2. CASE y \in B
    <3>0. Beside(version, c.level, c.in0, c.in1, y) BY <2>2, <1>7, <1>9
    <3>1. PICK m \in Levels : \E g \in version[m] : /\ y \in g.ents
                                                    /\ m = c.level => g \notin c.in0
                                                    /\ m = c.level + 1 => g \notin c.in1
      BY <3>0, Zenon DEF Beside
    <3>2. PICK g \in version[m] : /\ y \in g.ents
                                  /\ m = c.level => g \notin c.in0
                                  /\ m = c.level + 1 => g \notin c.in1
      BY <3>1
    <3>3. PICK h \in c.in0 \cup c.in1 : x \in h.ents BY <1>9, InFilesIs DEF all
    <3>4. c.level \in Levels /\ c.level + 1 \in Levels /\ c.level \in Nat /\ m \in Nat
          /\ NumLevels \in Nat /\ c.level + 1 # 0
      BY <1>5, LevelNumbers
    <3>5. (h \in c.in0 /\ h \in version[c.level]) \/ (h \in c.in1 /\ h \in version[c.level + 1])
      BY <3>3, <1>5
    <3>6. FileOK(g) /\ FileOK(h) BY <3>2, <3>4, <3>5, <1>4 DEF FilesPlaced, FilesOK
    <3>7. ~Apart(h, g) BY <3>2, <3>3, <3>6, <1>9, ApartKeys
    <3>8. \A p, q \in Levels : p < q => \A f \in version[p], d \in version[q] :
              \A u \in f.ents, z \in d.ents : u.key = z.key => u.seq > z.seq
      BY <1>4 DEF FilesPlaced, NeverHop
    <3>9. CASE m < c.level
      <4>1. m < c.level + 1 BY <3>4, <3>9
      <4> QED BY <4>1, <3>2, <3>3, <3>4, <3>5, <3>8, <3>9, <1>9
    <3>10. CASE m = c.level
      <4>1. CASE h \in c.in0
        <5>1. Newer(g.ents, h.ents) BY <4>1, <3>2, <3>7, <3>10, <1>5
        <5> QED BY <5>1, <3>2, <3>3 DEF Newer
      <4>2. CASE h \in version[c.level + 1]
        <5>1. m < c.level + 1 BY <3>4, <3>10
        <5> QED BY <5>1, <4>2, <3>2, <3>3, <3>4, <3>8, <1>9
      <4> QED BY <4>1, <4>2, <3>5
    <3>11. CASE m = c.level + 1
      <4>1. CASE h \in c.in0 BY <4>1, <3>2, <3>7, <3>11, <1>5
      <4>2. CASE h \in c.in1
        <5>1. AllApart(version[c.level + 1]) BY <3>4 DEF KeysApart
        <5>2. g # h /\ h \in version[c.level + 1] BY <4>2, <3>2, <3>11, <1>5
        <5> QED BY <5>1, <5>2, <3>2, <3>7, <3>11 DEF AllApart
      <4> QED BY <4>1, <4>2, <3>5
    <3>12. CASE m > c.level + 1
      <4>1. m \in c.level + 2 .. NumLevels - 1 BY <3>4, <3>12 DEF Levels
      <4>2. y.key # x.key BY <4>1, <3>2, <1>1, <1>9 DEF WorkOK, all
      <4> QED BY <4>2, <1>9
    <3> QED BY <3>4, <3>9, <3>10, <3>11, <3>12
  <2> QED BY <2>1, <2>2, <1>6, <1>9
<1>10. ASSUME NEW k \in Keys, NEW s \in snaps \cup {lastSeq}
       PROVE  ValueIn(Merged', k, s) = ValueIn(Merged, k, s)
  <2>0. PICK M, N : M = Merged /\ N = Merged' OBVIOUS
  <2>1. M \subseteq Entry /\ Distinct(M)
    BY <2>0, <1>4, MergedEntries DEF SeqInv, DataInv
  <2>2. N \subseteq M /\ all \subseteq M /\ kept \subseteq N /\ M \ N \subseteq all
    BY <2>0, <1>6, <1>7, <1>8
  <2>3. M \ N \subseteq all \ kept BY <2>2
  <2>4. \A x \in all, y \in N \ kept :
            x.key = y.key /\ IsBaseLevelForKey(c.base, c.level, x.key) => y.seq > x.seq
    BY <2>0, <1>9
  <2>5. c.smallest \in Nat /\ s \in Nat /\ c.smallest <= s
    <3>1. lastSeq \in Nat BY <1>4, NumbersType
    <3>2. c.smallest \in 0 .. lastSeq /\ \A t \in snaps : c.smallest <= t BY <1>1 DEF WorkOK
    <3>3. snaps \subseteq 0 .. lastSeq BY <1>4 DEF TypeInv
    <3> QED BY <3>1, <3>2, <3>3
  <2>6. ValueIn(N, k, s) = ValueIn(M, k, s)
    BY <2>1, <2>2, <2>3, <2>4, <2>5, SurvivorsKeepValues DEF all, kept
  <2> QED BY <2>0, <2>6
<1> QED BY <1>6, <1>10

-----------------------------------------------------------------------------
(* Every step keeps the invariant. *)

LEMMA InitHolds ==
    ASSUME Init
    PROVE  DataInv
<1>1. /\ mem = {} /\ imm = <<>> /\ lastSeq = 0 /\ version = EmptyVersion /\ nextFile = 1
      /\ snaps = {} /\ bg = <<>> /\ manual = <<>>
  BY DEF Init
<1>2. \A l \in Levels : version[l] = {} BY <1>1 DEF EmptyVersion
<1>3. version = [l \in Levels |-> version[l]] BY <1>1 DEF EmptyVersion
<1>4. Held = {} BY <1>1 DEF Held
<1>5. InFiles(AllFiles(version)) = {}
  <2>1. AllFiles(version) = {} BY <1>2 DEF AllFiles
  <2> QED BY <2>1 DEF InFiles
<1>6. Merged = {} BY <1>1, <1>4, <1>5, MergedIs
<1>7. TypeInv
  <2>1. 0 \in 0 .. MaxSeq BY LevelsAssumption DEF LevelsAssumption
  <2> QED BY <2>1, <1>1, <1>4, FS_EmptySet DEF TypeInv
<1>8. SeqInv BY <1>1, <1>4, <1>5, <1>6 DEF SeqInv, Distinct, Newer
<1>9. FilesInv
  <2>1. \A l \in Levels : FilesOK(version[l])
    <3>1. FilesOK({}) BY FS_EmptySet DEF FilesOK
    <3> QED BY <3>1, <1>2
  <2>2. version[0] = {} BY <1>2, LevelNumbers
  <2>3. ZeroInOrder(version) BY <2>2 DEF ZeroInOrder, NumbersDiffer
  <2>4. NeverHop(version) BY <1>2 DEF NeverHop
  <2> QED BY <1>3, <2>1, <2>2, <2>3, <2>4 DEF FilesInv, FilesPlaced
<1>10. BgInv BY <1>1 DEF BgInv
<1> QED BY <1>7, <1>8, <1>9, <1>10 DEF DataInv

\* The steps that leave the entries alone: all but a write, a snapshot taken, and
\* the end of a compaction.
Quiet ==
    \/ \E s \in snaps : ReleaseSnapshot(s)
    \/ SwitchMemTable \/ (\E r \in ManualRanges : CallCompactRange(r)) \/ Reopen
    \/ FlushImm \/ TrivialMove \/ StartCompaction \/ StartManual \/ NextManualLevel

LEMMA NextIs ==
    ASSUME [Next]_vars
    PROVE  \/ \E k \in Keys, del \in BOOLEAN : Write(k, del)
           \/ TakeSnapshot \/ FinishCompaction \/ Quiet \/ UNCHANGED vars
  BY Zenon DEF Next, Quiet

LEMMA QuietStep ==
    ASSUME DataInv, KeysApart, Quiet
    PROVE  DataInv' /\ Merged' = Merged /\ lastSeq' = lastSeq /\ snaps' \subseteq snaps
<1>1. CASE \E s \in snaps : ReleaseSnapshot(s)
  <2>1. DataInv' /\ Merged' = Merged BY <1>1, SnapshotsKeep
  <2> QED BY <2>1, <1>1 DEF ReleaseSnapshot
<1>2. CASE SwitchMemTable BY <1>2, SwitchKeeps DEF SwitchMemTable
<1>3. CASE \E r \in ManualRanges : CallCompactRange(r)
  <2>1. PICK r \in ManualRanges : CallCompactRange(r) BY <1>3
  <2>2. DataInv' /\ Merged' = Merged BY <2>1, CallCompactRangeKeeps
  <2> QED BY <2>1, <2>2 DEF CallCompactRange
<1>4. CASE Reopen BY <1>4, ReopenKeeps DEF Reopen
<1>5. CASE FlushImm BY <1>5, FlushKeeps DEF FlushImm
<1>6. CASE TrivialMove
  <2>1. DataInv' /\ Merged' = Merged BY <1>6, MoveIs
  <2> QED BY <2>1, <1>6 DEF TrivialMove
<1>7. CASE StartCompaction BY <1>7, StartCompactionKeeps DEF StartCompaction
<1>8. CASE StartManual BY <1>8, StartManualKeeps DEF StartManual
<1>9. CASE NextManualLevel BY <1>9, NextManualLevelKeeps DEF NextManualLevel
<1> QED BY <1>1, <1>2, <1>3, <1>4, <1>5, <1>6, <1>7, <1>8, <1>9, Zenon DEF Quiet

LEMMA StepKeeps ==
    ASSUME DataInv, KeysApart, [Next]_vars
    PROVE  DataInv'
<1>1. CASE \E k \in Keys, del \in BOOLEAN : Write(k, del) BY <1>1, WriteKeeps
<1>2. CASE TakeSnapshot BY <1>2, SnapshotsKeep
<1>3. CASE FinishCompaction BY <1>3, FinishKeeps
<1>4. CASE Quiet BY <1>4, QuietStep
<1>5. CASE UNCHANGED vars
  <2>1. UNCHANGED <<mem, imm, lastSeq, version, nextFile, snaps, bg, manual>> BY <1>5 DEF vars
  <2>2. TypeInv /\ SeqInv /\ FilesInv /\ BgInv BY DEF DataInv
  <2>3. Held' = Held /\ Merged' = Merged /\ InFiles(AllFiles(version))' = InFiles(AllFiles(version))
    BY <2>1 DEF Held, Merged, InFiles, AllFiles
  <2>4. TypeInv' BY <2>1, <2>2, <2>3 DEF TypeInv, ManualOK
  <2>5. SeqInv' BY <2>1, <2>2, <2>3 DEF SeqInv
  <2>6. FilesInv' BY <2>1, <2>2 DEF FilesInv
  <2>7. BgInv'
    <3>1. lastSeq \in Nat BY <2>2, NumbersType
    <3> QED BY <2>1, <2>2, <3>1, WorkStays
  <2> QED BY <2>4, <2>5, <2>6, <2>7 DEF DataInv
<1> QED BY <1>1, <1>2, <1>3, <1>4, <1>5, NextIs

-----------------------------------------------------------------------------
(* A store used without CompactRange, and without snapshots unless an output never  *)
(* ends inside a key: the files of a level then share no user key.                  *)

PlainUse == ManualRanges = {} /\ (MaxSnaps = 0 \/ ~CutInsideKey)

\* The inputs of a compaction leave no key between them out, and without snapshots
\* every entry of them may be hidden by a newer one.
PlainWork(c) ==
    /\ ~c.byHand /\ NoGap(c.in0 \cup c.in1)
    /\ MaxSnaps = 0 => \A e \in InFiles(c.in0 \cup c.in1) : e.seq <= c.smallest

Whole ==
    /\ KeysApart /\ manual = <<>> /\ (MaxSnaps = 0 => snaps = {})
    /\ bg = <<>> \/ PlainWork(bg[1])

\* A file whose bounds are keys of files without a gap meets only what they meet.
LEMMA InTheHull ==
    ASSUME NEW files, \A h \in files : FileOK(h), NoGap(files),
           NEW f, FileOK(f), f.ents \subseteq InFiles(files), NEW g, FileOK(g),
           \A h \in files : Apart(h, g)
    PROVE  Apart(f, g)
<1>1. /\ f.smallest.key \in Nat /\ f.largest.key \in Nat /\ f.smallest.key <= f.largest.key
      /\ g.smallest.key \in Nat /\ g.largest.key \in Nat /\ g.smallest.key <= g.largest.key
  BY FileType
<1>2. f.smallest \in InFiles(files) /\ f.largest \in InFiles(files) BY DEF FileOK
<1>3. PICK a \in files : f.smallest \in a.ents BY <1>2, InFilesIs
<1>4. PICK b \in files : f.largest \in b.ents BY <1>2, InFilesIs
<1>5. FileOK(a) /\ FileOK(b) OBVIOUS
<1>6. a.smallest.key <= f.smallest.key /\ f.largest.key <= b.largest.key
      /\ a.smallest.key \in Nat /\ b.largest.key \in Nat
  BY <1>3, <1>4, <1>5, FileType
<1>7. SUFFICES ASSUME ~Apart(f, g) PROVE FALSE OBVIOUS
<1>8. PICK k \in Nat : /\ f.smallest.key <= k /\ k <= f.largest.key
                       /\ g.smallest.key <= k /\ k <= g.largest.key
  <2>1. g.smallest.key <= f.largest.key /\ f.smallest.key <= g.largest.key
    BY <1>1, <1>7 DEF Apart
  <2>2. CASE f.smallest.key <= g.smallest.key BY <2>1, <2>2, <1>1
  <2>3. CASE g.smallest.key <= f.smallest.key BY <2>1, <2>3, <1>1
  <2> QED BY <2>2, <2>3, <1>1
<1>9. a.smallest.key <= k /\ k <= b.largest.key BY <1>1, <1>6, <1>8
<1>10. PICK h \in files : h.smallest.key <= k /\ k <= h.largest.key
  BY <1>9 DEF NoGap
<1>11. h.smallest.key \in Nat /\ h.largest.key \in Nat BY FileType
<1>12. ~Apart(h, g) BY <1>1, <1>8, <1>10, <1>11 DEF Apart
<1> QED BY <1>12

\* Without snapshots one entry of a key survives at most.
LEMMA OneSurvivor ==
    ASSUME NEW c, c.smallest \in Nat, InFiles(c.in0 \cup c.in1) \subseteq Entry,
           Distinct(InFiles(c.in0 \cup c.in1)),
           \A e \in InFiles(c.in0 \cup c.in1) : e.seq <= c.smallest
    PROVE  \A x, y \in Survivors(c) : x.key = y.key => x = y
<1> DEFINE all == InFiles(c.in0 \cup c.in1)
<1>1. \A e \in Survivors(c) : /\ e \in all
                              /\ ~(\E n \in all : n.key = e.key /\ n.seq > e.seq /\ n.seq <= c.smallest)
  BY DEF Survivors, InFiles
<1>2. \A e \in all : e.seq \in Nat BY EntryType
<1> HIDE DEF all
<1>3. SUFFICES ASSUME NEW x \in Survivors(c), NEW y \in Survivors(c), x.key = y.key, x # y
               PROVE  FALSE
  OBVIOUS
<1>4. x \in all /\ y \in all /\ x.seq # y.seq BY <1>1, <1>3 DEF Distinct, all
<1>5. x.seq <= c.smallest /\ y.seq <= c.smallest BY <1>4 DEF all
<1>6. CASE x.seq < y.seq BY <1>1, <1>3, <1>4, <1>5, <1>6, <1>2
<1>7. CASE y.seq < x.seq BY <1>1, <1>3, <1>4, <1>5, <1>7, <1>2
<1> QED BY <1>2, <1>4, <1>6, <1>7

LEMMA ApartSymmetric == \A f, g : Apart(f, g) <=> Apart(g, f)
  BY DEF Apart

\* A merge leaves the files of every level apart.
LEMMA MergeApart ==
    ASSUME DataInv, KeysApart, NEW l \in 0 .. NumLevels - 2, NEW in0, NEW in1, NEW outs,
           version' = Merge(version, l, in0, in1, outs),
           in0 \subseteq version[l], in1 \subseteq version[l + 1],
           FilesOK(outs), InFiles(outs) \subseteq InFiles(in0 \cup in1),
           NoGap(in0 \cup in1), AllApart(outs),
           \A f \in in0, g \in version[l + 1] \ in1 : Apart(f, g)
    PROVE  KeysApart'
<1>1. FilesPlaced(version, nextFile) BY DEF DataInv, FilesInv
<1>2. /\ version'[l] = version[l] \ in0 /\ version'[l + 1] = (version[l + 1] \ in1) \cup outs
      /\ \A m \in Levels : m # l /\ m # l + 1 => version'[m] = version[m]
  BY <1>1, MergeIs DEF FilesPlaced
<1>3. l \in Levels /\ l + 1 \in Levels /\ l + 1 # 0 /\ l # l + 1 BY LevelNumbers
<1>4. FilesOK(version[l]) /\ FilesOK(version[l + 1]) BY <1>1, <1>3 DEF FilesPlaced
<1>5. \A h \in in0 \cup in1 : FileOK(h) BY <1>4 DEF FilesOK
<1>6. ASSUME NEW f \in outs, NEW g \in version[l + 1] \ in1 PROVE Apart(f, g)
  <2>1. ASSUME NEW h \in in0 \cup in1 PROVE Apart(h, g)
    <3>1. CASE h \in in0 BY <3>1
    <3>2. CASE h \in in1
      <4>1. AllApart(version[l + 1]) BY <1>3 DEF KeysApart
      <4> QED BY <4>1, <3>2 DEF AllApart
    <3> QED BY <3>1, <3>2
  <2>2. f.ents \subseteq InFiles(in0 \cup in1)
    <3>1. f.ents \subseteq InFiles(outs) BY InFilesIs
    <3> QED BY <3>1
  <2>3. FileOK(f) /\ FileOK(g) BY <1>4 DEF FilesOK
  <2>4. PICK files : files = in0 \cup in1 OBVIOUS
  <2>5. /\ \A h \in files : FileOK(h) /\ Apart(h, g)
        /\ NoGap(files) /\ f.ents \subseteq InFiles(files)
    BY <2>1, <2>2, <2>4, <1>5
  <2> QED BY <2>3, <2>5, InTheHull
<1>7. ASSUME NEW m \in Levels \ {0} PROVE AllApart(version'[m])
  <2>0. AllApart(version[m]) BY DEF KeysApart
  <2>1. CASE m = l BY <2>0, <2>1, <1>2 DEF AllApart
  <2>2. CASE m = l + 1
    <3> SUFFICES ASSUME NEW f \in version'[m], NEW g \in version'[m], f # g PROVE Apart(f, g)
      BY DEF AllApart
    <3>1. (f \in version[m] \ in1 \/ f \in outs) /\ (g \in version[m] \ in1 \/ g \in outs)
      BY <2>2, <1>2
    <3>2. f \in version[m] /\ g \in version[m] => Apart(f, g) BY <2>0 DEF AllApart
    <3>3. f \in outs /\ g \in outs => Apart(f, g) BY DEF AllApart
    <3>4. f \in outs /\ g \in version[m] \ in1 => Apart(f, g) BY <2>2, <1>6
    <3>5. g \in outs /\ f \in version[m] \ in1 => Apart(g, f) BY <2>2, <1>6
    <3> QED BY <3>1, <3>2, <3>3, <3>4, <3>5, ApartSymmetric
  <2>3. CASE m # l /\ m # l + 1 BY <2>0, <2>3, <1>2
  <2> QED BY <2>1, <2>2, <2>3
<1> QED BY <1>7 DEF KeysApart, AllApart

LEMMA InitWhole ==
    ASSUME Init
    PROVE  Whole
<1>1. version = EmptyVersion /\ manual = <<>> /\ snaps = {} /\ bg = <<>> BY DEF Init
<1>2. \A l \in Levels : version[l] = {} BY <1>1 DEF EmptyVersion
<1>3. KeysApart BY <1>2 DEF KeysApart, AllApart
<1> QED BY <1>1, <1>3 DEF Whole

LEMMA SameApart ==
    ASSUME KeysApart, version' = version
    PROVE  KeysApart'
  BY DEF KeysApart, AllApart

\* What is left to show of a step that starts no compaction.
LEMMA SameWork ==
    ASSUME Whole, KeysApart', manual' = <<>>, MaxSnaps = 0 => snaps' = {},
           bg' = bg \/ bg' = <<>>
    PROVE  Whole'
<1>1. PICK c : c = bg[1] OBVIOUS
<1>2. CASE bg' = <<>> BY <1>2 DEF Whole
<1>3. CASE bg = <<>> BY <1>3 DEF Whole
<1>4. CASE bg # <<>> /\ bg' = bg
  <2>1. PlainWork(c) BY <1>1, <1>4 DEF Whole
  <2>2. bg'[1] = c BY <1>1, <1>4
  <2>3. PlainWork(bg[1])' BY <2>1, <2>2 DEF PlainWork, NoGap, InFiles
  <2> QED BY <2>3 DEF Whole
<1> QED BY <1>2, <1>3, <1>4

LEMMA FlushApart ==
    ASSUME DataInv, KeysApart, FlushImm
    PROVE  KeysApart'
<1>1. CASE imm[1] = {}
  <2>1. version' = version BY <1>1 DEF FlushImm
  <2> QED BY <2>1, SameApart
<1>2. CASE imm[1] # {}
  <2> DEFINE f == FileOf(nextFile, imm[1])
  <2>1. PICK l \in PickLevels(version, f.smallest.key, f.largest.key) :
             version' = Apply(version, l, {}, {f})
    BY <1>2 DEF FlushImm
  <2>2. FileOK(f)
    <3>1. Held = imm[1] BY DEF FlushImm, Held
    <3>2. Distinct(imm[1]) BY <3>1, MergedIs DEF DataInv, SeqInv, Distinct
    <3>3. imm[1] \subseteq Entry /\ IsFiniteSet(imm[1]) BY <3>1 DEF DataInv, TypeInv
    <3>4. nextFile \in Nat BY NumbersType DEF DataInv
    <3> QED BY <3>2, <3>3, <3>4, <1>2, FileOfOK
  <2> HIDE DEF f
  <2>3. Sorted(version) BY SortedVersion DEF DataInv
  <2>4. /\ l \in Levels
        /\ l # 0 => \A m \in Levels : m <= l => \A g \in version[m] : Apart(f, g)
    BY <2>1, <2>2, <2>3, FlushPlace
  <2>5. version'[l] = version[l] \cup {f} /\ \A m \in Levels : m # l => version'[m] = version[m]
    <3>1. version = [m \in Levels |-> version[m]] BY DEF DataInv, FilesInv, FilesPlaced
    <3> DEFINE none == {}
               one == {f}
    <3>2. version' = Apply(version, l, none, one) /\ none = {} BY <2>1
    <3> HIDE DEF none, one
    <3>3. version'[l] = (version[l] \ none) \cup one
          /\ \A m \in Levels : m # l => version'[m] = version[m]
      BY <3>1, <3>2, <2>4, ApplyIs
    <3> QED BY <3>2, <3>3 DEF one
  <2>6. ASSUME NEW m \in Levels \ {0} PROVE AllApart(version'[m])
    <3>1. AllApart(version[m]) BY DEF KeysApart
    <3>2. CASE m # l BY <3>1, <3>2, <2>5
    <3>3. CASE m = l
      <4>1. \A g \in version[m] : Apart(f, g) /\ Apart(g, f)
        <5>1. m <= l /\ l # 0 BY <3>3, <2>4, LevelNumbers
        <5> QED BY <5>1, <3>3, <2>4, ApartSymmetric
      <4> QED BY <4>1, <3>1, <3>3, <2>5 DEF AllApart
    <3> QED BY <3>2, <3>3
  <2> QED BY <2>6 DEF KeysApart, AllApart
<1> QED BY <1>1, <1>2

LEMMA ReopenApart ==
    ASSUME DataInv, KeysApart, Reopen
    PROVE  KeysApart'
<1>1. \E F : version' = Apply(version, 0, {}, F) BY DEF Reopen
<1>2. PICK F : version' = Apply(version, 0, {}, F) BY <1>1
<1>3. version = [m \in Levels |-> version[m]] BY DEF DataInv, FilesInv, FilesPlaced
<1>4. \A m \in Levels : m # 0 => version'[m] = version[m]
  BY <1>2, <1>3 DEF Apply
<1> QED BY <1>4 DEF KeysApart, AllApart

LEMMA MoveApart ==
    ASSUME DataInv, KeysApart, TrivialMove
    PROVE  KeysApart'
<1>1. PICK l \in 0 .. NumLevels - 2 : \E in0 :
           InputsOK(version, l, in0, {}) /\ Cardinality(in0) = 1
           /\ version' = Merge(version, l, in0, {}, in0)
  BY MoveIs
<1>2. PICK in0 : InputsOK(version, l, in0, {}) /\ Cardinality(in0) = 1
                 /\ version' = Merge(version, l, in0, {}, in0)
  BY <1>1
<1> DEFINE none == {}
<1>3. /\ version' = Merge(version, l, in0, none, in0)
      /\ in0 \subseteq version[l] /\ none \subseteq version[l + 1]
      /\ \A f \in in0, g \in version[l + 1] \ none : Apart(f, g)
  BY <1>2 DEF InputsOK
<1>4. FilesOK(in0)
  <2>1. FilesOK(version[l]) BY LevelNumbers DEF DataInv, FilesInv, FilesPlaced
  <2>2. in0 \in SUBSET version[l] BY <1>3
  <2> QED BY <2>1, <2>2, FilesOKParts
<1>5. PICK f : in0 = {f} BY <1>2, <1>4, FS_Singleton DEF FilesOK
<1>6. AllApart(in0) BY <1>5 DEF AllApart
<1>7. in0 \cup none = in0 OBVIOUS
<1>8. NoGap(in0 \cup none) /\ InFiles(in0) \subseteq InFiles(in0 \cup none)
  <2>1. FileOK(f) BY <1>4, <1>5 DEF FilesOK
  <2>2. NoGap(in0) BY <2>1, <1>5, NoGapSingle
  <2> QED BY <2>2, <1>7
<1> HIDE DEF none
<1> QED BY <1>3, <1>4, <1>6, <1>8, MergeApart

LEMMA FinishApart ==
    ASSUME PlainUse, DataInv, Whole, FinishCompaction
    PROVE  KeysApart'
<1>0. PICK c : c = bg[1] OBVIOUS
<1>1. WorkOK(c)
      /\ \E outs : /\ version' = Merge(version, c.level, c.in0, c.in1, outs)
                   /\ FilesOK(outs) /\ InFiles(outs) = Survivors(c)
                   /\ ~CutInsideKey \/ (\A x, y \in Survivors(c) : x.key = y.key => x = y)
                      => AllApart(outs)
  BY <1>0, FinishIs
<1>2. PICK outs : /\ version' = Merge(version, c.level, c.in0, c.in1, outs)
                  /\ FilesOK(outs) /\ InFiles(outs) = Survivors(c)
                  /\ ~CutInsideKey \/ (\A x, y \in Survivors(c) : x.key = y.key => x = y)
                     => AllApart(outs)
  BY <1>1
<1>3. PlainWork(c) /\ KeysApart BY <1>0 DEF Whole, FinishCompaction
<1> DEFINE l == c.level
           in0 == c.in0
           in1 == c.in1
           all == InFiles(in0 \cup in1)
<1>4. /\ l \in 0 .. NumLevels - 2 /\ in0 \subseteq version[l] /\ in1 \subseteq version[l + 1]
      /\ \A f \in in0, g \in version[l + 1] \ in1 : Apart(f, g)
  BY <1>1 DEF WorkOK
<1>5. NoGap(in0 \cup in1) BY <1>3 DEF PlainWork
<1>6. InFiles(outs) \subseteq all BY <1>2 DEF Survivors, InFiles
<1>7. AllApart(outs)
  <2>1. CASE ~CutInsideKey BY <2>1, <1>2
  <2>2. CASE MaxSnaps = 0
    <3>1. \A e \in all : e.seq <= c.smallest BY <2>2, <1>3 DEF PlainWork
    <3>2. all \subseteq Merged
      <4>1. l \in Levels /\ l + 1 \in Levels BY <1>4, LevelNumbers
      <4>2. ASSUME NEW x \in all PROVE x \in InFiles(AllFiles(version))
        <5>1. PICK h \in in0 \cup in1 : x \in h.ents BY InFilesIs
        <5>2. h \in version[l] \/ h \in version[l + 1] BY <1>4
        <5> QED BY <5>1, <5>2, <4>1, VersionEntries
      <4> QED BY <4>2, MergedIs
    <3>3. all \subseteq Entry /\ Distinct(all)
      <4>1. Merged \subseteq Entry /\ Distinct(Merged)
        BY MergedEntries DEF DataInv, SeqInv
      <4> HIDE DEF all
      <4> QED BY <4>1, <3>2 DEF Distinct
    <3>4. c.smallest \in Nat
      <4>1. lastSeq \in Nat BY NumbersType DEF DataInv
      <4> QED BY <4>1, <1>1 DEF WorkOK
    <3>5. \A x, y \in Survivors(c) : x.key = y.key => x = y
      BY <3>1, <3>3, <3>4, OneSurvivor
    <3> QED BY <3>5, <1>2
  <2> QED BY <2>1, <2>2 DEF PlainUse
<1>8. version' = Merge(version, l, in0, in1, outs) BY <1>2
<1> HIDE DEF l, in0, in1
<1> QED BY <1>2, <1>3, <1>4, <1>5, <1>6, <1>7, <1>8, MergeApart

LEMMA StartApart ==
    ASSUME DataInv, Whole, StartCompaction
    PROVE  Whole'
<1>1. PICK p \in PickCompaction(version, lastSeq) : bg' = <<Compaction(p[1], p[2], FALSE)>>
  BY DEF StartCompaction
<1>2. UNCHANGED <<lastSeq, version, snaps, manual>> BY DEF StartCompaction
<1>3. KeysApart /\ manual = <<>> /\ (MaxSnaps = 0 => snaps = {}) BY DEF Whole
<1>4. /\ p[1] \in 0 .. NumLevels - 2
      /\ InputsOK(version, p[1], p[2][1], p[2][2]) /\ NoGap(p[2][1] \cup p[2][2])
  BY <1>3, PickedIs
<1>5. PICK c : c = Compaction(p[1], p[2], FALSE) OBVIOUS
<1>6. /\ c.in0 = p[2][1] /\ c.in1 = p[2][2] /\ c.smallest = SmallestSnapshot /\ c.byHand = FALSE
  BY <1>5 DEF Compaction
<1>7. ASSUME MaxSnaps = 0, NEW e \in InFiles(c.in0 \cup c.in1) PROVE e.seq <= c.smallest
  <2>1. c.smallest = lastSeq BY <1>3, <1>6, <1>7 DEF SmallestSnapshot
  <2>2. PICK h \in c.in0 \cup c.in1 : e \in h.ents BY <1>7, InFilesIs
  <2>3. h \in version[p[1]] \/ h \in version[p[1] + 1] BY <2>2, <1>4, <1>6 DEF InputsOK
  <2>4. p[1] \in Levels /\ p[1] + 1 \in Levels BY <1>4, LevelNumbers
  <2>5. e \in InFiles(AllFiles(version)) BY <2>2, <2>3, <2>4, VersionEntries
  <2>6. e \in Merged BY <2>5, MergedIs
  <2> QED BY <2>1, <2>6 DEF DataInv, SeqInv
<1>8. PlainWork(c) BY <1>4, <1>6, <1>7 DEF PlainWork
<1>9. bg'[1] = c BY <1>1, <1>5
<1>10. PlainWork(bg[1])' BY <1>8, <1>9 DEF PlainWork, NoGap, InFiles
<1>11. KeysApart' BY <1>2, <1>3, SameApart
<1> QED BY <1>2, <1>3, <1>10, <1>11 DEF Whole

LEMMA WholeKeeps ==
    ASSUME PlainUse, DataInv, Whole, [Next]_vars
    PROVE  Whole'
<1>0. /\ KeysApart /\ manual = <<>> /\ (MaxSnaps = 0 => snaps = {})
      /\ bg = <<>> \/ PlainWork(bg[1])
  BY DEF Whole
<1>1. CASE \E k \in Keys, del \in BOOLEAN : Write(k, del)
  <2>1. UNCHANGED <<version, snaps, bg, manual>> BY <1>1 DEF Write
  <2> QED BY <2>1, <1>0, SameApart, SameWork
<1>2. CASE TakeSnapshot
  <2>1. UNCHANGED <<version, bg, manual>> BY <1>2 DEF TakeSnapshot
  <2>2. MaxSnaps # 0
    <3>1. Cardinality(snaps) < MaxSnaps BY <1>2 DEF TakeSnapshot
    <3>2. snaps = {} => Cardinality(snaps) = 0 BY FS_EmptySet
    <3> QED BY <3>1, <3>2, <1>0
  <2> QED BY <2>1, <2>2, <1>0, SameApart, SameWork
<1>3. CASE FinishCompaction
  <2>1. KeysApart' BY <1>3, FinishApart
  <2>2. bg' = <<>> /\ snaps' = snaps BY <1>3 DEF FinishCompaction
  <2>3. manual' = <<>>
    <3>1. bg # <<>> BY <1>3 DEF FinishCompaction
    <3>2. ~bg[1].byHand BY <3>1, <1>0 DEF PlainWork
    <3> QED BY <3>2, <1>0, <1>3 DEF FinishCompaction
  <2> QED BY <2>1, <2>2, <2>3, <1>0, SameWork
<1>4. CASE \E s \in snaps : ReleaseSnapshot(s)
  <2>1. UNCHANGED <<version, bg, manual>> /\ snaps' \subseteq snaps BY <1>4 DEF ReleaseSnapshot
  <2> QED BY <2>1, <1>0, SameApart, SameWork
<1>5. CASE SwitchMemTable
  <2>1. UNCHANGED <<version, snaps, bg, manual>> BY <1>5 DEF SwitchMemTable
  <2> QED BY <2>1, <1>0, SameApart, SameWork
<1>6. ~(\E r \in ManualRanges : CallCompactRange(r)) BY DEF PlainUse
<1>7. CASE Reopen
  <2>1. KeysApart' BY <1>0, <1>7, ReopenApart
  <2>2. bg' = <<>> /\ manual' = <<>> /\ snaps' = {} BY <1>7 DEF Reopen
  <2> QED BY <2>1, <2>2, SameWork
<1>8. CASE FlushImm
  <2>1. KeysApart' BY <1>0, <1>8, FlushApart
  <2>2. UNCHANGED <<snaps, bg, manual>> BY <1>8 DEF FlushImm
  <2> QED BY <2>1, <2>2, <1>0, SameWork
<1>9. CASE TrivialMove
  <2>1. KeysApart' BY <1>0, <1>9, MoveApart
  <2>2. UNCHANGED <<snaps, bg, manual>> BY <1>9 DEF TrivialMove
  <2> QED BY <2>1, <2>2, <1>0, SameWork
<1>10. CASE StartCompaction BY <1>10, StartApart
<1>11. ~StartManual /\ ~NextManualLevel BY <1>0 DEF StartManual, NextManualLevel
<1>12. CASE UNCHANGED vars
  <2>1. UNCHANGED <<version, snaps, bg, manual>> BY <1>12 DEF vars
  <2> QED BY <2>1, <1>0, SameApart, SameWork
<1>13. Quiet => \/ \E s \in snaps : ReleaseSnapshot(s)
                \/ SwitchMemTable \/ Reopen \/ FlushImm \/ TrivialMove \/ StartCompaction
  BY <1>6, <1>11, Zenon DEF Quiet
<1> QED BY <1>1, <1>2, <1>3, <1>4, <1>5, <1>7, <1>8, <1>9, <1>10, <1>12, <1>13, NextIs

-----------------------------------------------------------------------------
(* The theorems. *)

\* As long as the files of a level share no user key, every step keeps memory, files
\* and the work of the background thread in order.
THEOREM DataInvariant == Spec /\ []KeysApart => []DataInv
<1>1. Init => DataInv BY InitHolds
<1>2. DataInv /\ KeysApart /\ [Next]_vars => DataInv' BY StepKeeps
<1> QED BY <1>1, <1>2, PTL DEF Spec

\* A store that is used without CompactRange, and without snapshots unless an output
\* never ends inside a key, keeps the files of a level apart.
THEOREM PlainInvariant ==
    ASSUME PlainUse
    PROVE  Spec => [](DataInv /\ Whole)
<1>1. Init => DataInv /\ Whole BY InitHolds, InitWhole
<1>2. (DataInv /\ Whole) /\ [Next]_vars => (DataInv /\ Whole)'
  <2>1. Whole => KeysApart BY DEF Whole
  <2> QED BY <2>1, StepKeeps, WholeKeeps
<1> QED BY <1>1, <1>2, PTL DEF Spec

LEMMA HopsNot == DataInv => EntriesNeverHop
  BY DEF DataInv, FilesInv, FilesPlaced, NeverHop, EntriesNeverHop

LEMMA IteratorsDo == DataInv /\ KeysApart => IteratorsAgree
<1> SUFFICES ASSUME DataInv, KeysApart, NEW k \in Keys, NEW s \in snaps \cup {lastSeq}
             PROVE  Get(k, s) = ValueIn(Merged, k, s)
  BY DEF IteratorsAgree
<1>1. s \in Nat
  <2>1. lastSeq \in Nat BY NumbersType DEF DataInv
  <2>2. snaps \subseteq 0 .. lastSeq BY DEF DataInv, TypeInv
  <2> QED BY <2>1, <2>2
<1> QED BY <1>1, ReadsAgree

LEMMA ApartIsDisjoint == DataInv /\ KeysApart => LevelsDisjoint
<1> SUFFICES ASSUME DataInv, KeysApart, NEW l \in Levels \ {0}, NEW f \in version[l],
                    NEW g \in version[l], f # g
             PROVE  Before(f.largest, g.smallest) \/ Before(g.largest, f.smallest)
  BY DEF LevelsDisjoint
<1>1. Apart(f, g) BY DEF KeysApart, AllApart
<1> QED BY <1>1 DEF Apart, Before

\* "Entries never hop across levels", in any store whose levels stay apart, and so in
\* any store in plain use.
THEOREM EntriesStayAbove == Spec /\ []KeysApart => []EntriesNeverHop
  BY DataInvariant, HopsNot, PTL

THEOREM PlainEntriesStayAbove ==
    ASSUME PlainUse
    PROVE  Spec => []EntriesNeverHop
<1>1. Spec => [](DataInv /\ Whole) BY PlainInvariant
<1> QED BY <1>1, HopsNot, PTL

\* Lookups and iterators agree, although a lookup stops at the first file that has an
\* answer and opens one file of a level only.
THEOREM LookupsShowAll == Spec /\ []KeysApart => []IteratorsAgree
  BY DataInvariant, IteratorsDo, PTL

THEOREM PlainLookupsShowAll ==
    ASSUME PlainUse
    PROVE  Spec => []IteratorsAgree
<1>1. Spec => [](DataInv /\ Whole) BY PlainInvariant
<1>2. Whole => KeysApart BY DEF Whole
<1> QED BY <1>1, <1>2, IteratorsDo, PTL

\* "Must not overlap": flushes, moves, merges and reopening keep the files of every
\* level below level 0 one after the other.
THEOREM PlainLevelsDisjoint ==
    ASSUME PlainUse
    PROVE  Spec => []LevelsDisjoint
<1>1. Spec => [](DataInv /\ Whole) BY PlainInvariant
<1>2. Whole => KeysApart BY DEF Whole
<1> QED BY <1>1, <1>2, ApartIsDisjoint, PTL

-----------------------------------------------------------------------------
(* The store is one ordered map with frozen views. *)

\* What a reader at s sees of entries, and what each of some readers sees.
Shown(M, s) == [k \in Keys |-> ValueIn(M, k, s)]
ShownAll(M, S) == [s \in S |-> Shown(M, s)]

LEMMA ReadersSee ==
    DataInv /\ KeysApart =>
        /\ [k \in Keys |-> Get(k, lastSeq)] = Shown(Merged, lastSeq)
        /\ [s \in snaps |-> [k \in Keys |-> Get(k, s)]] = ShownAll(Merged, snaps)
<1> SUFFICES ASSUME DataInv, KeysApart
             PROVE  /\ [k \in Keys |-> Get(k, lastSeq)] = Shown(Merged, lastSeq)
                    /\ [s \in snaps |-> [k \in Keys |-> Get(k, s)]] = ShownAll(Merged, snaps)
  OBVIOUS
<1>1. \A k \in Keys, s \in snaps \cup {lastSeq} : Get(k, s) = ValueIn(Merged, k, s)
  BY IteratorsDo DEF IteratorsAgree
<1>2. [k \in Keys |-> Get(k, lastSeq)] = Shown(Merged, lastSeq) BY <1>1 DEF Shown
<1>3. \A s \in snaps : [k \in Keys |-> Get(k, s)] = Shown(Merged, s) BY <1>1 DEF Shown
<1>4. [s \in snaps |-> [k \in Keys |-> Get(k, s)]] = [s \in snaps |-> Shown(Merged, s)]
  BY <1>3
<1> QED BY <1>2, <1>4 DEF ShownAll

LEMMA EntriesTyped == TypeInv /\ FilesInv => Merged \subseteq Entry
  BY MergedEntries

\* A write changes what is shown of its key from its number on.
LEMMA WriteShows ==
    ASSUME DataInv, NEW k \in Keys, NEW del \in BOOLEAN, Write(k, del)
    PROVE  /\ Shown(Merged', lastSeq + 1)
                = [Shown(Merged, lastSeq) EXCEPT ![k] = IF del THEN 0 ELSE lastSeq + 1]
           /\ ShownAll(Merged', snaps) = ShownAll(Merged, snaps)
<1> DEFINE e == [key |-> k, seq |-> lastSeq + 1, del |-> del]
<1>1. DataInv' /\ Merged' = Merged \cup {e} BY WriteKeeps
<1>2. PICK M, N : M = Merged /\ N = Merged' OBVIOUS
<1>3. lastSeq \in Nat /\ snaps \subseteq 0 .. lastSeq
  BY NumbersType DEF DataInv, TypeInv
<1>4. M \subseteq Entry /\ \A x \in M : x.seq \in Nat /\ x.seq <= lastSeq
  <2>1. M \subseteq Entry BY <1>2, MergedEntries DEF DataInv
  <2> QED BY <2>1, <1>2, EntryType DEF DataInv, SeqInv
<1>5. N \subseteq Entry /\ Distinct(N)
  <2>1. Merged' \subseteq Entry
    <3>1. TypeInv' /\ FilesInv' BY <1>1 DEF DataInv
    <3>2. (TypeInv /\ FilesInv => Merged \subseteq Entry)' BY EntriesTyped, PTL
    <3> QED BY <3>1, <3>2
  <2>2. Distinct(Merged') BY <1>1 DEF DataInv, SeqInv
  <2> QED BY <1>2, <2>1, <2>2
<1>6. e.key = k /\ e.seq = lastSeq + 1 /\ e.del = del OBVIOUS
<1>7. N = M \cup {e} BY <1>1, <1>2
<1> HIDE DEF e
<1>8. ASSUME NEW j \in Keys, NEW s \in Nat, s <= lastSeq
      PROVE  ValueIn(N, j, s) = ValueIn(M, j, s)
  <2>1. Visible(N, j, s) = Visible(M, j, s) BY <1>3, <1>6, <1>7, <1>8 DEF Visible
  <2> QED BY <2>1 DEF ValueIn
<1>9. ASSUME NEW j \in Keys, j # k
      PROVE  ValueIn(N, j, lastSeq + 1) = ValueIn(M, j, lastSeq)
  <2>1. Visible(N, j, lastSeq + 1) = Visible(M, j, lastSeq)
    BY <1>3, <1>4, <1>6, <1>7, <1>9 DEF Visible
  <2> QED BY <2>1 DEF ValueIn
<1>10. ValueIn(N, k, lastSeq + 1) = IF del THEN 0 ELSE lastSeq + 1
  <2>1. e \in Visible(N, k, lastSeq + 1) BY <1>3, <1>6, <1>7 DEF Visible
  <2>2. \A f \in Visible(N, k, lastSeq + 1) : f.seq <= e.seq
    BY <1>6 DEF Visible
  <2>3. ValueIn(N, k, lastSeq + 1) = ValueOf(e) BY <2>1, <2>2, <1>5, ValueIs
  <2> QED BY <2>3, <1>6 DEF ValueOf
<1>11. Shown(N, lastSeq + 1) = [Shown(M, lastSeq) EXCEPT ![k] = IF del THEN 0 ELSE lastSeq + 1]
  BY <1>9, <1>10 DEF Shown
<1>12. ShownAll(N, snaps) = ShownAll(M, snaps)
  <2>1. \A s \in snaps : s \in Nat /\ s <= lastSeq BY <1>3
  <2>2. \A s \in snaps : Shown(N, s) = Shown(M, s) BY <2>1, <1>8 DEF Shown
  <2> QED BY <2>2 DEF ShownAll
<1> QED BY <1>2, <1>11, <1>12

\* What the readers there were still see after a step that is not a write.
LEMMA OthersShow ==
    ASSUME DataInv, KeysApart, FinishCompaction \/ Quiet \/ UNCHANGED vars
    PROVE  /\ lastSeq' = lastSeq /\ snaps' \subseteq snaps
           /\ Shown(Merged', lastSeq) = Shown(Merged, lastSeq)
           /\ \A s \in snaps : Shown(Merged', s) = Shown(Merged, s)
<1>1. CASE FinishCompaction
  <2>1. \A k \in Keys : \A s \in snaps \cup {lastSeq} : ValueIn(Merged', k, s) = ValueIn(Merged, k, s)
    BY <1>1, FinishKeeps
  <2>2. lastSeq' = lastSeq /\ snaps' = snaps BY <1>1 DEF FinishCompaction
  <2> QED BY <2>1, <2>2 DEF Shown
<1>2. CASE Quiet BY <1>2, QuietStep
<1>3. CASE UNCHANGED vars
  <2>1. UNCHANGED <<mem, imm, lastSeq, version, snaps>> BY <1>3 DEF vars
  <2>2. Merged' = Merged BY <2>1 DEF Merged, AllFiles
  <2> QED BY <2>1, <2>2
<1> QED BY <1>1, <1>2, <1>3

\* Every step is a step of the map: one write, one view taken, or views released, and
\* whatever the background thread does with the files is no step of it.
LEMMA StoreSteps ==
    ASSUME DataInv, KeysApart, DataInv', KeysApart', [Next]_vars
    PROVE  [Store!StoreNext]_(Store!storeVars)
<1> DEFINE C == [k \in Keys |-> Get(k, lastSeq)]
           V == [s \in snaps |-> [k \in Keys |-> Get(k, s)]]
<1>1. C = Shown(Merged, lastSeq) /\ V = ShownAll(Merged, snaps) BY ReadersSee
<1>2. C' = Shown(Merged', lastSeq') /\ V' = ShownAll(Merged', snaps')
  <2>1. (DataInv /\ KeysApart =>
            /\ [k \in Keys |-> Get(k, lastSeq)] = Shown(Merged, lastSeq)
            /\ [s \in snaps |-> [k \in Keys |-> Get(k, s)]] = ShownAll(Merged, snaps))'
    BY ReadersSee, PTL
  <2> QED BY <2>1 DEF Shown, ShownAll
<1>3. CASE \E k \in Keys, del \in BOOLEAN : Write(k, del)
  <2>1. PICK k \in Keys, del \in BOOLEAN : Write(k, del) BY <1>3
  <2>2. lastSeq' = lastSeq + 1 /\ snaps' = snaps BY <2>1 DEF Write
  <2>3. C' = [C EXCEPT ![k] = IF del THEN 0 ELSE lastSeq + 1] /\ V' = V
    BY <2>1, <2>2, <1>1, <1>2, WriteShows
  <2>4. Store!StoreWrite BY <2>2, <2>3 DEF Store!StoreWrite
  <2> QED BY <2>4 DEF Store!StoreNext
<1>4. CASE TakeSnapshot
  <2>1. /\ lastSeq \notin snaps /\ snaps' = snaps \cup {lastSeq} /\ lastSeq' = lastSeq
        /\ Merged' = Merged
    BY <1>4, SnapshotsKeep DEF TakeSnapshot
  <2>2. C' = C BY <2>1, <1>1, <1>2
  <2>3. DOMAIN V = snaps /\ DOMAIN V' = snaps \cup {lastSeq} BY <2>1
  <2>4. V' = [t \in snaps \cup {lastSeq} |-> IF t = lastSeq THEN C ELSE V[t]]
    <3>1. V' = [t \in snaps \cup {lastSeq} |-> Shown(Merged, t)] BY <2>1, <1>2 DEF ShownAll
    <3>2. \A t \in snaps : V[t] = Shown(Merged, t) BY <1>1 DEF ShownAll
    <3>3. C = Shown(Merged, lastSeq) BY <1>1
    <3> HIDE DEF C, V
    <3> QED BY <3>1, <3>2, <3>3
  <2> HIDE DEF C, V
  <2>5. \E s \in (DOMAIN V') \ DOMAIN V :
            V' = [t \in DOMAIN V \cup {s} |-> IF t = s THEN C ELSE V[t]]
    <3>1. lastSeq \in (DOMAIN V') \ DOMAIN V BY <2>1, <2>3
    <3>2. V' = [t \in DOMAIN V \cup {lastSeq} |-> IF t = lastSeq THEN C ELSE V[t]]
      BY <2>3, <2>4
    <3> QED BY <3>1, <3>2
  <2>6. Store!StoreSnapshot BY <2>1, <2>2, <2>5 DEF Store!StoreSnapshot, C, V
  <2> QED BY <2>6 DEF Store!StoreNext
<1>5. CASE FinishCompaction \/ Quiet \/ UNCHANGED vars
  <2>1. /\ lastSeq' = lastSeq /\ snaps' \subseteq snaps
        /\ Shown(Merged', lastSeq) = Shown(Merged, lastSeq)
        /\ \A s \in snaps : Shown(Merged', s) = Shown(Merged, s)
    BY <1>5, OthersShow
  <2>2. C' = C BY <2>1, <1>1, <1>2
  <2>3. DOMAIN V = snaps /\ DOMAIN V' = snaps' OBVIOUS
  <2>4. \A t \in snaps : V[t] = Shown(Merged, t) BY <1>1 DEF ShownAll
  <2>5. V' = [t \in snaps' |-> Shown(Merged', t)] BY <1>2 DEF ShownAll
  <2> HIDE DEF C, V
  <2>6. V' = [t \in DOMAIN V' |-> V[t]]
    <3>1. \A t \in snaps' : Shown(Merged', t) = V[t] BY <2>1, <2>4
    <3>2. [t \in snaps' |-> Shown(Merged', t)] = [t \in snaps' |-> V[t]] BY <3>1
    <3> QED BY <3>2, <2>3, <2>5
  <2>7. DOMAIN V' \subseteq DOMAIN V BY <2>1, <2>3
  <2>8. Store!StoreRelease BY <2>1, <2>2, <2>6, <2>7 DEF Store!StoreRelease, C, V
  <2> QED BY <2>8 DEF Store!StoreNext
<1> QED BY <1>3, <1>4, <1>5, NextIs

LEMMA StoreBegins ==
    ASSUME Init, DataInv
    PROVE  Store!StoreInit
<1> DEFINE C == [k \in Keys |-> Get(k, lastSeq)]
           V == [s \in snaps |-> [k \in Keys |-> Get(k, s)]]
<1>1. lastSeq = 0 /\ snaps = {} BY DEF Init
<1>2. C = [k \in Keys |-> 0]
  <2>1. KeysApart BY InitWhole DEF Whole
  <2>2. C = Shown(Merged, lastSeq) BY <2>1, ReadersSee
  <2>3. \A x \in Merged : x.seq \in Nat /\ x.seq <= 0 /\ x.seq >= 1
    BY <1>1, EntriesTyped, EntryType DEF DataInv, SeqInv
  <2>4. \A k \in Keys : Visible(Merged, k, lastSeq) = {} BY <2>3 DEF Visible
  <2>5. \A k \in Keys : ValueIn(Merged, k, lastSeq) = 0 BY <2>4 DEF ValueIn
  <2> HIDE DEF C
  <2> QED BY <2>2, <2>5 DEF Shown
<1>3. V = <<>> BY <1>1
<1> QED BY <1>1, <1>2, <1>3 DEF Store!StoreInit

\* Reads, writes and snapshots look like those of one ordered map with frozen views:
\* the store implements KVStore as long as the files of a level share no user key ...
THEOREM ImplementsStore == Spec /\ []KeysApart => KeepsStore
<1>1. Init /\ DataInv => Store!StoreInit BY StoreBegins
<1>2. DataInv /\ DataInv' /\ KeysApart /\ KeysApart' /\ [Next]_vars
      => [Store!StoreNext]_(Store!storeVars)
  BY StoreSteps
<1> QED BY <1>1, <1>2, DataInvariant, PTL DEF Spec, KeepsStore, Store!StoreSpec

\* ... and so in plain use, whatever the background thread does and however often the
\* store is closed and opened.
THEOREM PlainImplementsStore ==
    ASSUME PlainUse
    PROVE  Spec => KeepsStore
<1>1. Spec => [](DataInv /\ Whole) BY PlainInvariant
<1>2. Whole => KeysApart BY DEF Whole
<1> QED BY <1>1, <1>2, ImplementsStore, PTL
=============================================================================
