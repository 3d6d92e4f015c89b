------------------------------ MODULE DbmProofs ------------------------------
(***************************************************************************)
(* RegionsSound, ReadBack and CommittedSurvives of Dbm, for any objects,     *)
(* keys, values, block size and length of the data file.                    *)
(*                                                                         *)
(* An index may be stale, and another object may write at any time; still   *)
(* no block is ever given to two keys.  A block is given out at the end of  *)
(* the data file only (fresh), and the file never shrinks while an index    *)
(* names it; otherwise a step copies entries from one index to another, or  *)
(* shortens one in its blocks (Within).  That every entry's blocks end in   *)
(* the file's last block is what keeps fresh blocks apart from the others.  *)
(*                                                                         *)
(* So the bytes under an entry change only when its key is stored in place: *)
(* from there, what the newest object reads and what a commit has left in   *)
(* the files follow one step after the other (ValuesInv).                   *)
(***************************************************************************)
EXTENDS Dbm, SequenceTheorems, TLAPS

(* An index over a data file of n bytes. *)
Good(f, n) ==
    /\ IsIndex(f)
    /\ \A k \in DOMAIN f : /\ f[k][1] % BS = 0
                           /\ f[k][1] + f[k][2] <= n
                           /\ End(f[k]) <= Aligned(n)

DbmInv ==
    /\ dat = None \/ (dat \in Seq(Bytes) /\ Len(dat) <= MaxDat)
    /\ DOMAIN index = Handles
    /\ modified \in [Handles -> BOOLEAN] /\ readonly \in [Handles -> BOOLEAN]
    /\ Indexes # {} => dat # None
    /\ \A f \in Indexes : Good(f, Len(dat))
    /\ \A f, g \in Indexes : \A k \in DOMAIN f, l \in DOMAIN g : k # l => Apart(f[k], g[l])

-----------------------------------------------------------------------------
(* Blocks. *)

(* A block has a size. *)
LEMMA BlockSize == BS \in Nat \ {0}
  BY DbmAssumption

(* A product is no smaller than a factor. *)
LEMMA Times == ASSUME NEW a \in Nat, NEW b \in Nat, a <= b PROVE BS * a <= BS * b /\ BS * a \in Nat
  BY BlockSize

(* Division by the block size has one result. *)
LEMMA OneQuotient ==
    ASSUME NEW a \in Int, NEW b \in Int, NEW r \in 0..(BS - 1), NEW s \in 0..(BS - 1),
           BS * a + r = BS * b + s
    PROVE  a = b /\ r = s
<1>1. ASSUME NEW c \in Int, NEW d \in Int, c < d
      PROVE  BS * c + BS <= BS * d
  <2>1. d - c - 1 \in Nat /\ BS * (d - c - 1) >= 0
    BY <1>1, BlockSize
  <2> QED
    BY <2>1, BlockSize
<1>2. ~(a < b)
  BY <1>1, BlockSize
<1>3. ~(b < a)
  BY <1>1, BlockSize
<1> QED
  BY <1>2, <1>3, BlockSize

(* Division by the block size, as the prover needs it. *)
LEMMA Division ==
    ASSUME NEW x \in Nat
    PROVE  /\ x \div BS \in Nat /\ x % BS \in 0..(BS - 1)
           /\ x = BS * (x \div BS) + (x % BS)
<1>1. x \div BS \in Int
  BY BlockSize
<1>2. x \div BS >= 0
  BY BlockSize
<1>3. x % BS \in 0..(BS - 1)
  BY BlockSize
<1>4. x = BS * (x \div BS) + (x % BS)
  BY BlockSize
<1> QED
  BY <1>1, <1>2, <1>3, <1>4

(* Whole blocks in front of n bytes are so many blocks more. *)
LEMMA BlockFacts ==
    ASSUME NEW n \in Nat
    PROVE  /\ Blocks(n) \in Nat /\ Aligned(n) \in Nat
           /\ n <= Aligned(n) /\ Aligned(n) < n + BS
           /\ Aligned(n) % BS = 0
           /\ \A q \in Nat : BS * q \in Nat /\ Blocks(BS * q + n) = q + Blocks(n)
<1> USE BlockSize
<1>1. n + BS - 1 \in Nat
  OBVIOUS
<1>2. Blocks(n) \in Nat
  BY <1>1, Division DEF Blocks
<1>3. n <= Aligned(n) /\ Aligned(n) < n + BS /\ Aligned(n) \in Nat
  <2>1. n + BS - 1 = BS * Blocks(n) + ((n + BS - 1) % BS) /\ (n + BS - 1) % BS \in 0..(BS - 1)
    BY <1>1, Division DEF Blocks
  <2>2. BS * Blocks(n) \in Nat
    BY <1>2, Times
  <2> DEFINE a == BS * Blocks(n)
             r == (n + BS - 1) % BS
  <2>3. a \in Nat /\ r \in Nat /\ r <= BS - 1 /\ n + BS - 1 = a + r
    BY <2>1, <2>2
  <2> HIDE DEF a, r
  <2>4. n <= a /\ a < n + BS
    BY <2>3
  <2> QED
    BY <2>2, <2>4 DEF Aligned, a
<1>4. ASSUME NEW q \in Nat
      PROVE  BS * q \in Nat /\ Blocks(BS * q + n) = q + Blocks(n)
  <2> DEFINE x == n + BS - 1
  <2>1. BS * q \in Nat
    BY Times
  <2>2. x \in Nat /\ BS * q + x \in Nat
    BY <2>1
  <2>3. BS * q + x = BS * ((BS * q + x) \div BS) + ((BS * q + x) % BS)
    BY Division, <2>2
  <2>4. x = BS * (x \div BS) + (x % BS)
    BY Division, <2>2
  <2> DEFINE d == x \div BS
             e == (BS * q + x) \div BS
  <2>5. d \in Nat /\ e \in Nat /\ x % BS \in 0..(BS - 1) /\ (BS * q + x) % BS \in 0..(BS - 1)
    BY Division, <2>2
  <2>6. BS * (q + d) = BS * q + BS * d
    BY <2>5
  <2>7. BS * (q + d) + (x % BS) = BS * e + ((BS * q + x) % BS)
    BY <2>1, <2>2, <2>3, <2>4, <2>5, <2>6
  <2>8. q + d = e
    BY <2>5, <2>7, OneQuotient
  <2>9. BS * q + n + BS - 1 = BS * q + x
    BY <2>1
  <2> QED
    BY <2>1, <2>8, <2>9 DEF Blocks
<1>5. Aligned(n) % BS = 0
  <2>1. Aligned(n) = BS * (Aligned(n) \div BS) + (Aligned(n) % BS)
        /\ Aligned(n) \div BS \in Nat /\ Aligned(n) % BS \in 0..(BS - 1)
    BY Division, <1>3
  <2>2. BS * Blocks(n) + 0 = BS * (Aligned(n) \div BS) + (Aligned(n) % BS)
    BY <2>1, <1>2, Times DEF Aligned
  <2>3. 0 \in 0..(BS - 1)
    OBVIOUS
  <2> DEFINE a == Blocks(n)
             b == Aligned(n) \div BS
             r == Aligned(n) % BS
  <2>4. a \in Int /\ b \in Int /\ r \in 0..(BS - 1) /\ BS * a + 0 = BS * b + r
    BY <2>1, <2>2, <1>2
  <2> HIDE DEF a, b, r
  <2>5. 0 = r
    BY <2>3, <2>4, OneQuotient
  <2> QED
    BY <2>5 DEF r
<1> QED
  BY <1>2, <1>3, <1>4, <1>5

(* A longer file has no fewer blocks. *)
LEMMA BlocksGrow ==
    ASSUME NEW m \in Nat, NEW n \in Nat, m <= n
    PROVE  Blocks(m) <= Blocks(n) /\ Aligned(m) <= Aligned(n)
<1> USE BlockSize
<1>1. /\ Blocks(m) \in Nat /\ Blocks(n) \in Nat
      /\ BS * Blocks(m) < m + BS /\ n <= BS * Blocks(n)
  BY BlockFacts DEF Aligned
<1>2. ~(Blocks(n) < Blocks(m))
  <2> SUFFICES ASSUME Blocks(n) + 1 <= Blocks(m) PROVE FALSE
    BY <1>1
  <2>1. BS * (Blocks(n) + 1) <= BS * Blocks(m)
    BY <1>1, Times
  <2>2. BS * (Blocks(n) + 1) = BS * Blocks(n) + BS
    BY <1>1
  <2> QED
    BY <1>1, <2>1, <2>2, Times
<1> QED
  BY <1>1, <1>2, Times DEF Aligned

(* An entry at a block's start that lies in the file ends in its blocks. *)
LEMMA EndInFile ==
    ASSUME NEW q \in Nat, NEW s \in Nat, NEW n \in Nat, BS * q + s <= n
    PROVE  BS * q + BS * Blocks(s) <= Aligned(n)
<1>1. BS * q \in Nat /\ Blocks(BS * q + s) = q + Blocks(s) /\ Blocks(s) \in Nat
  BY BlockFacts
<1>2. Aligned(BS * q + s) = BS * q + BS * Blocks(s)
  BY <1>1, BlockSize DEF Aligned
<1>3. Aligned(BS * q + s) <= Aligned(n)
  BY <1>1, BlocksGrow
<1> QED
  BY <1>2, <1>3

-----------------------------------------------------------------------------
(* Where an entry of the next state comes from. *)

Within(k, e) ==
    \E g \in Indexes : /\ k \in DOMAIN g /\ e[1] = g[k][1]
                       /\ Blocks(e[2]) <= Blocks(g[k][2])

Fresh(e) == e[1] = Aligned(Len(dat))

(* K is the one key that may get fresh blocks, n the length of the file. *)
EntryOK(k, e, K, n) ==
    /\ k \in Keys /\ e \in Nat \X Nat /\ e[1] + e[2] <= n
    /\ Within(k, e) \/ (k = K /\ Fresh(e))

Derived(f, K, n) == \A k \in DOMAIN f : EntryOK(k, f[k], K, n)

(* An entry of today's index. *)
LEMMA OldEntry ==
    ASSUME DbmInv, dat \in Seq(Bytes), NEW g \in Indexes, NEW k \in DOMAIN g
    PROVE  /\ g[k] \in Nat \X Nat /\ g[k][1] \in Nat /\ g[k][2] \in Nat /\ k \in Keys
           /\ g[k][1] % BS = 0 /\ g[k][1] + g[k][2] <= Len(dat)
           /\ End(g[k]) <= Aligned(Len(dat)) /\ End(g[k]) \in Nat
<1>1. Good(g, Len(dat))
  BY DEF DbmInv
<1>2. g[k] \in Nat \X Nat /\ g[k][1] \in Nat /\ g[k][2] \in Nat /\ k \in Keys
  BY <1>1 DEF Good, IsIndex
<1>3. BS * Blocks(g[k][2]) \in Nat
  BY <1>2, BlockFacts DEF Aligned
<1> QED
  BY <1>1, <1>2, <1>3 DEF Good, End

(* What an entry of the next state is, wherever it comes from. *)
LEMMA NewEntry ==
    ASSUME DbmInv, dat \in Seq(Bytes), NEW K, NEW n \in Nat, NEW k, NEW e, EntryOK(k, e, K, n)
    PROVE  /\ e[1] \in Nat /\ e[2] \in Nat /\ e[1] % BS = 0
           /\ End(e) \in Nat /\ e[1] <= End(e) /\ End(e) <= Aligned(n)
<1>1. e[1] \in Nat /\ e[2] \in Nat /\ e[1] + e[2] <= n
  BY DEF EntryOK
<1>2. e[1] % BS = 0
  <2>1. CASE Within(k, e)
    BY <2>1, OldEntry DEF Within
  <2>2. CASE Fresh(e)
    <3>1. Len(dat) \in Nat
      BY LenProperties
    <3> QED
      BY <2>2, <3>1, BlockFacts DEF Fresh
  <2> QED
    BY <2>1, <2>2 DEF EntryOK
<1>3. e[1] = BS * (e[1] \div BS) /\ e[1] \div BS \in Nat
  <2> DEFINE x == e[1]
             q == x \div BS
  <2>1. x = BS * q + (x % BS) /\ q \in Nat
    BY <1>1, Division
  <2>2. x % BS = 0
    BY <1>2
  <2> HIDE DEF x, q
  <2>3. BS * q \in Nat
    BY <2>1, Times
  <2>4. x = BS * q /\ q \in Nat
    BY <2>1, <2>2, <2>3
  <2> QED
    BY <2>4 DEF x, q
<1>4. BS * Blocks(e[2]) \in Nat
  BY <1>1, BlockFacts DEF Aligned
<1>5. BS * (e[1] \div BS) + BS * Blocks(e[2]) <= Aligned(n)
  BY <1>1, <1>3, EndInFile
<1> QED
  BY <1>1, <1>2, <1>3, <1>4, <1>5 DEF End

(* Entries of different keys stay apart. *)
LEMMA StayApart ==
    ASSUME DbmInv, dat \in Seq(Bytes), NEW K, NEW n \in Nat,
           NEW k, NEW e, EntryOK(k, e, K, n),
           NEW l, NEW d, EntryOK(l, d, K, n), k # l
    PROVE  Apart(e, d)
<1>1. ASSUME NEW i, NEW c, EntryOK(i, c, K, n), NEW g \in Indexes, i \in DOMAIN g,
             c[1] = g[i][1], Blocks(c[2]) <= Blocks(g[i][2])
      PROVE  End(c) <= End(g[i])
  <2>1. c[2] \in Nat /\ g[i][2] \in Nat /\ g[i][1] \in Nat
    BY <1>1, NewEntry, OldEntry
  <2>2. Blocks(c[2]) \in Nat /\ Blocks(g[i][2]) \in Nat
    BY <2>1, BlockFacts
  <2>3. /\ BS * Blocks(c[2]) <= BS * Blocks(g[i][2])
        /\ BS * Blocks(c[2]) \in Nat /\ BS * Blocks(g[i][2]) \in Nat
    BY <1>1, <2>2, Times
  <2> QED
    BY <1>1, <2>1, <2>3 DEF End
<1>2. ASSUME NEW i, NEW c, EntryOK(i, c, K, n), Fresh(c),
             NEW j, NEW b, EntryOK(j, b, K, n), Within(j, b)
      PROVE  End(b) <= c[1]
  <2>1. PICK g \in Indexes : j \in DOMAIN g /\ b[1] = g[j][1] /\ Blocks(b[2]) <= Blocks(g[j][2])
    BY <1>2 DEF Within
  <2>2. End(b) <= End(g[j])
    BY <1>1, <1>2, <2>1
  <2>3. End(g[j]) <= Aligned(Len(dat)) /\ End(g[j]) \in Nat /\ End(b) \in Nat
    BY <1>2, <2>1, OldEntry, NewEntry
  <2>4. c[1] = Aligned(Len(dat)) /\ c[1] \in Nat
    BY <1>2, NewEntry DEF Fresh
  <2> QED
    BY <2>2, <2>3, <2>4
<1>3. CASE Within(k, e) /\ Within(l, d)
  <2>1. PICK g \in Indexes : k \in DOMAIN g /\ e[1] = g[k][1] /\ Blocks(e[2]) <= Blocks(g[k][2])
    BY <1>3 DEF Within
  <2>2. PICK h \in Indexes : l \in DOMAIN h /\ d[1] = h[l][1] /\ Blocks(d[2]) <= Blocks(h[l][2])
    BY <1>3 DEF Within
  <2>3. Apart(g[k], h[l])
    BY <2>1, <2>2 DEF DbmInv
  <2>4. End(e) <= End(g[k]) /\ End(d) <= End(h[l])
    BY <1>1, <2>1, <2>2
  <2>5. /\ End(e) \in Nat /\ End(d) \in Nat /\ End(g[k]) \in Nat /\ End(h[l]) \in Nat
        /\ e[1] \in Nat /\ d[1] \in Nat
    BY <2>1, <2>2, NewEntry, OldEntry
  <2> QED
    BY <2>1, <2>2, <2>3, <2>4, <2>5 DEF Apart
<1>4. CASE Fresh(e) /\ Within(l, d)
  BY <1>2, <1>4 DEF Apart
<1>5. CASE Within(k, e) /\ Fresh(d)
  BY <1>2, <1>5 DEF Apart
<1> QED
  BY <1>3, <1>4, <1>5 DEF EntryOK

-----------------------------------------------------------------------------
(* How the indexes of a step come about. *)

(* An index is kept as it is. *)
LEMMA KeptIndex ==
    ASSUME DbmInv, dat \in Seq(Bytes), NEW K, NEW n \in Nat, Len(dat) <= n, NEW g \in Indexes
    PROVE  Derived(g, K, n)
<1> SUFFICES ASSUME NEW k \in DOMAIN g
             PROVE  EntryOK(k, g[k], K, n)
  BY DEF Derived
<1>1. /\ g[k] \in Nat \X Nat /\ g[k][1] \in Nat /\ g[k][2] \in Nat /\ k \in Keys
      /\ g[k][1] + g[k][2] <= Len(dat)
  BY OldEntry
<1>2. Within(k, g[k])
  <2>1. Blocks(g[k][2]) \in Nat
    BY <1>1, BlockFacts
  <2> QED
    BY <2>1 DEF Within
<1>3. Len(dat) \in Nat
  BY LenProperties
<1> QED
  BY <1>1, <1>2, <1>3 DEF EntryOK

(* An index without entries, or with some of another's. *)
LEMMA PartOfIndex ==
    ASSUME NEW K, NEW n \in Nat
    PROVE  /\ Derived(Empty, K, n)
           /\ \A f, S : Derived(f, K, n) /\ S \subseteq DOMAIN f => Derived(Restrict(f, S), K, n)
<1>1. DOMAIN Empty = {}
  BY DEF Empty
<1>2. ASSUME NEW f, NEW S, Derived(f, K, n), S \subseteq DOMAIN f
      PROVE  Derived(Restrict(f, S), K, n)
  BY <1>2 DEF Derived, Restrict
<1> QED
  BY <1>1, <1>2 DEF Derived

(* An index with one entry more, or another one for a key. *)
LEMMA SetInIndex ==
    ASSUME NEW K, NEW n \in Nat, NEW f, Derived(f, K, n), NEW k, NEW e, EntryOK(k, e, K, n)
    PROVE  Derived(Set(f, k, e), K, n)
  BY DEF Derived, Set

(* The indexes after a step are the files' and the objects'. *)
LEMMA IndexesNext ==
    ASSUME DOMAIN index' = Handles, NEW f \in Indexes'
    PROVE  f # None /\ (f = dir' \/ f = bak' \/ \E h \in Handles : f = index'[h])
  BY DEF Indexes, Range

(* The same for the indexes there are. *)
LEMMA IndexesNow ==
    ASSUME DOMAIN index = Handles
    PROVE  /\ dir # None => dir \in Indexes
           /\ bak # None => bak \in Indexes
           /\ \A h \in Handles : index[h] # None => index[h] \in Indexes
  BY DEF Indexes, Range

(* While there is an index there is a data file. *)
LEMMA DataFile ==
    ASSUME DbmInv, Indexes # {}
    PROVE  dat \in Seq(Bytes) /\ Len(dat) \in Nat /\ Len(dat) <= MaxDat
  BY LenProperties DEF DbmInv

(* A step whose indexes are all derived keeps the invariant. *)
LEMMA StepKeeps ==
    ASSUME DbmInv, dat \in Seq(Bytes), dat' \in Seq(Bytes),
           Len(dat) <= Len(dat'), Len(dat') <= MaxDat,
           DOMAIN index' = Handles,
           modified' \in [Handles -> BOOLEAN], readonly' \in [Handles -> BOOLEAN],
           NEW K, \A f \in Indexes' : Derived(f, K, Len(dat'))
    PROVE  DbmInv'
<1> DEFINE n == Len(dat')
<1>1. n \in Nat /\ dat' # None
  BY LenProperties, DbmAssumption
<1>2. \A f \in Indexes' : \A k \in DOMAIN f : EntryOK(k, f[k], K, n)
  BY DEF Derived
<1>3. ASSUME NEW f \in Indexes'
      PROVE  Good(f, n)
  <2>1. IsIndex(f)
    BY <1>2 DEF EntryOK, IsIndex
  <2>2. ASSUME NEW k \in DOMAIN f
        PROVE  f[k][1] % BS = 0 /\ f[k][1] + f[k][2] <= n /\ End(f[k]) <= Aligned(n)
    <3>1. EntryOK(k, f[k], K, n)
      BY <1>2
    <3> HIDE DEF n
    <3>2. f[k][1] % BS = 0 /\ End(f[k]) <= Aligned(n)
      BY <1>1, <3>1, NewEntry, Zenon
    <3> QED
      BY <3>1, <3>2 DEF EntryOK
  <2> QED
    BY <2>1, <2>2 DEF Good
<1>4. ASSUME NEW f \in Indexes', NEW g \in Indexes', NEW k \in DOMAIN f, NEW l \in DOMAIN g, k # l
      PROVE  Apart(f[k], g[l])
  <2>1. EntryOK(k, f[k], K, n) /\ EntryOK(l, g[l], K, n)
    BY <1>2
  <2> HIDE DEF n
  <2> QED
    BY <1>1, <1>4, <2>1, StayApart
<1> QED
  BY <1>1, <1>3, <1>4 DEF DbmInv

-----------------------------------------------------------------------------
(* The data file's two changes. *)

(* A value at the end: the file grows to its blocks and then the value. *)
LEMMA AddedFile ==
    ASSUME DbmInv, dat \in Seq(Bytes)
    PROVE  /\ Len(dat) \in Nat /\ Aligned(Len(dat)) \in Nat /\ Len(dat) <= Aligned(Len(dat))
           /\ dat \o Padding(Len(dat)) \in Seq(Bytes)
           /\ Len(dat \o Padding(Len(dat))) = Aligned(Len(dat))
           /\ \A v \in Values : /\ v \in Seq(Bytes) /\ Len(v) \in Nat
                               /\ Added(v) \in Seq(Bytes)
                               /\ Len(Added(v)) = Aligned(Len(dat)) + Len(v)
<1>1. Len(dat) \in Nat
  BY LenProperties
<1>2. Aligned(Len(dat)) \in Nat /\ Len(dat) <= Aligned(Len(dat))
  BY <1>1, BlockFacts
<1> DEFINE m == Aligned(Len(dat)) - Len(dat)
           p == Padding(Len(dat))
<1>3. m \in Nat
  BY <1>1, <1>2
<1>4. p \in Seq(Bytes) /\ Len(p) = m
  <2>1. Nul \in Bytes
    BY DEF Bytes
  <2>2. p = [i \in 1..m |-> Nul]
    BY DEF Padding
  <2> HIDE DEF p, m
  <2> QED
    BY <1>3, <2>1, <2>2, IsASeq
<1>5. dat \o p \in Seq(Bytes) /\ Len(dat \o p) = Aligned(Len(dat))
  <2>1. dat \o p \in Seq(Bytes) /\ Len(dat \o p) = Len(dat) + Len(p)
    BY <1>4, ConcatProperties
  <2> QED
    BY <1>1, <1>2, <1>4, <2>1
<1>6. ASSUME NEW v \in Values
      PROVE  /\ v \in Seq(Bytes) /\ Len(v) \in Nat
             /\ Added(v) \in Seq(Bytes) /\ Len(Added(v)) = Aligned(Len(dat)) + Len(v)
  <2>1. v \in Seq(Bytes) /\ Len(v) \in Nat
    BY DbmAssumption, LenProperties
  <2> HIDE DEF p
  <2>2. (dat \o p) \o v \in Seq(Bytes) /\ Len((dat \o p) \o v) = Len(dat \o p) + Len(v)
    BY <2>1, <1>5, ConcatProperties
  <2> QED
    BY <1>5, <2>1, <2>2 DEF Added, p
<1> QED
  BY <1>1, <1>2, <1>5, <1>6

(* A value over bytes of the file: it grows by what sticks out. *)
LEMMA OverwrittenFile ==
    ASSUME dat \in Seq(Bytes), NEW v \in Values, NEW pos \in Nat, pos <= Len(dat)
    PROVE  /\ Overwritten(pos, v) \in Seq(Bytes)
           /\ Len(dat) <= Len(Overwritten(pos, v)) /\ pos + Len(v) <= Len(Overwritten(pos, v))
<1>1. v \in Seq(Bytes) /\ Len(v) \in Nat /\ Len(dat) \in Nat
  BY DbmAssumption, LenProperties
<1> DEFINE N == IF pos + Len(v) > Len(dat) THEN pos + Len(v) ELSE Len(dat)
           w == [i \in 1..N |-> IF i \in (pos + 1)..(pos + Len(v)) THEN v[i - pos] ELSE dat[i]]
<1>2. N \in Nat /\ Len(dat) <= N /\ pos + Len(v) <= N
  BY <1>1
<1>3. ASSUME NEW i \in 1..N
      PROVE  w[i] \in Bytes
  <2>1. CASE i \in (pos + 1)..(pos + Len(v))
    <3>1. i - pos \in 1..Len(v)
      BY <1>1, <1>2, <2>1
    <3>2. v[i - pos] \in Bytes
      BY <1>1, <3>1, ElementOfSeq
    <3> QED
      BY <2>1, <3>2
  <2>2. CASE i \notin (pos + 1)..(pos + Len(v))
    <3>1. i \in 1..Len(dat)
      BY <1>1, <1>2, <2>2
    <3>2. dat[i] \in Bytes
      BY <3>1, ElementOfSeq
    <3> QED
      BY <2>2, <3>2
  <2> QED
    BY <2>1, <2>2
<1>4. w \in Seq(Bytes) /\ Len(w) = N
  <2>1. w \in [1..N -> Bytes]
    BY <1>3
  <2>2. DOMAIN w = 1..N
    OBVIOUS
  <2> HIDE DEF w, N
  <2>3. w \in Seq(Bytes)
    BY <1>2, <2>1
  <2> QED
    BY <1>2, <2>2, <2>3
<1> QED
  BY <1>2, <1>4 DEF Overwritten

-----------------------------------------------------------------------------
(* The steps. *)

(* A step after which no index has an entry. *)
LEMMA BlankStep ==
    ASSUME dat' \in Seq(Bytes), Len(dat') <= MaxDat,
           DOMAIN index' = Handles,
           modified' \in [Handles -> BOOLEAN], readonly' \in [Handles -> BOOLEAN],
           \A f \in Indexes' : DOMAIN f = {}
    PROVE  DbmInv'
<1>1. dat' # None
  BY DbmAssumption
<1> QED
  BY <1>1 DEF DbmInv, Good, IsIndex

(* What a step takes from g: all of it, or a part, or nothing. *)
Part(f, g) == f = Empty \/ f = g \/ \E S \in SUBSET DOMAIN g : f = Restrict(g, S)

(* A step that makes no new entries. *)
LEMMA PartStep ==
    ASSUME DbmInv, dat \in Seq(Bytes), dat' \in Seq(Bytes),
           Len(dat) <= Len(dat'), Len(dat') <= MaxDat,
           DOMAIN index' = Handles,
           modified' \in [Handles -> BOOLEAN], readonly' \in [Handles -> BOOLEAN],
           \A f \in Indexes' : f = Empty \/ \E g \in Indexes : Part(f, g)
    PROVE  DbmInv'
<1>1. Len(dat') \in Nat
  BY LenProperties
<1>2. \A f \in Indexes' : Derived(f, Nul, Len(dat'))
  <2> SUFFICES ASSUME NEW f \in Indexes'
               PROVE  Derived(f, Nul, Len(dat'))
    OBVIOUS
  <2>1. CASE f = Empty
    BY <1>1, <2>1, PartOfIndex
  <2>2. CASE \E g \in Indexes : Part(f, g)
    <3>1. PICK g \in Indexes : Part(f, g)
      BY <2>2
    <3>2. Derived(g, Nul, Len(dat'))
      BY <1>1, KeptIndex
    <3>3. CASE \E S \in SUBSET DOMAIN g : f = Restrict(g, S)
      BY <1>1, <3>2, <3>3, PartOfIndex
    <3> QED
      BY <2>1, <3>1, <3>2, <3>3 DEF Part
  <2> QED
    BY <2>1, <2>2
<1> QED
  BY <1>2, StepKeeps

(* A new object makes the files, or reads what is there. *)
LEMMA OpenKeeps ==
    ASSUME DbmInv, NEW h \in Handles, OpenDb(h)
    PROVE  DbmInv'
<1>1. /\ modified' \in [Handles -> BOOLEAN] /\ readonly' \in [Handles -> BOOLEAN]
      /\ DOMAIN index' = Handles
  BY DEF DbmInv, OpenDb, OpenOld, OpenNew, Opened
<1>2. <<>> \in Seq(Bytes) /\ Len(<<>>) = 0 /\ DOMAIN Empty = {}
  BY EmptySeq DEF Empty
<1>3. ASSUME NEW flag \in Flags, OpenOld(h, flag)
      PROVE  DbmInv'
  <2> DEFINE idx == IF dir = None THEN Empty ELSE dir
  <2>1. /\ index' = [index EXCEPT ![h] = idx] /\ dir' = idx /\ bak' = bak
        /\ dat' = IF dat = None THEN <<>> ELSE dat
    BY <1>3 DEF OpenOld, Opened
  <2>2. ASSUME NEW f \in Indexes'
        PROVE  f # None /\ (f = idx \/ f \in Indexes)
    <3>1. f # None /\ (f = dir' \/ f = bak' \/ \E i \in Handles : f = index'[i])
      BY <1>1, IndexesNext
    <3>2. ASSUME NEW i \in Handles, f = index'[i]
          PROVE  f = idx \/ f \in Indexes
      BY <2>1, <3>1, <3>2, IndexesNow DEF DbmInv
    <3>3. f = bak' => f \in Indexes
      BY <2>1, <3>1, IndexesNow DEF DbmInv
    <3> QED
      BY <2>1, <3>1, <3>2, <3>3
  <2>3. CASE dat = None
    <3>1. Indexes = {} /\ dir = None
      BY <2>3, IndexesNow DEF DbmInv
    <3>2. \A f \in Indexes' : DOMAIN f = {}
      BY <1>2, <2>2, <3>1
    <3>3. dat' = <<>>
      BY <2>1, <2>3
    <3> QED
      BY <1>1, <1>2, <3>2, <3>3, BlankStep, DbmAssumption
  <2>4. CASE dat # None
    <3>1. dat' = dat /\ dat \in Seq(Bytes) /\ Len(dat) \in Nat /\ Len(dat) <= MaxDat
      BY <2>1, <2>4, LenProperties DEF DbmInv
    <3>2. idx = Empty \/ idx \in Indexes
      BY IndexesNow DEF DbmInv
    <3>3. \A f \in Indexes' : f = Empty \/ \E g \in Indexes : Part(f, g)
      BY <2>2, <3>2 DEF Part
    <3> QED
      BY <1>1, <3>1, <3>3, PartStep
  <2> QED
    BY <2>3, <2>4
<1>4. ASSUME OpenNew(h)
      PROVE  DbmInv'
  <2>1. /\ index' = [index EXCEPT ![h] = Empty] /\ dir' = Empty /\ bak' = None /\ dat' = <<>>
        /\ \A i \in Handles : index[i] = None
    BY <1>4 DEF OpenNew, Opened, Open
  <2>2. \A f \in Indexes' : f = Empty
    BY <1>1, <2>1, IndexesNext DEF DbmInv
  <2>3. \A f \in Indexes' : DOMAIN f = {}
    BY <1>2, <2>2
  <2> QED
    BY <1>1, <1>2, <2>1, <2>3, BlankStep, DbmAssumption
<1> QED
  BY <1>3, <1>4 DEF OpenDb

(* What a commit may leave in the index file is a part of the index. *)
LEMMA CommitParts ==
    ASSUME NEW idx, Written(idx) \/ Torn(idx)
    PROVE  bak' = dir /\ (dir' = None \/ dir' = idx \/ \E S \in SUBSET DOMAIN idx : dir' = Restrict(idx, S))
  BY DEF Written, Torn, BackedUp, Partial

(* Committing, closing, dropping, and a store that fails or a key that is  *)
(* missing, make no entries.                                               *)
LEMMA QuietKeeps ==
    ASSUME DbmInv, NEW h \in Open,
           Sync(h) \/ Close(h) \/ Drop(h) \/ AddFails(h) \/ DelMissing(h)
    PROVE  DbmInv'
<1>1. h \in Handles /\ index[h] # None /\ index[h] \in Indexes
  BY IndexesNow DEF Open, DbmInv
<1>2. dat \in Seq(Bytes) /\ Len(dat) \in Nat /\ Len(dat) <= MaxDat
  BY <1>1, DataFile
<1>3. /\ modified' \in [Handles -> BOOLEAN] /\ readonly' \in [Handles -> BOOLEAN]
      /\ DOMAIN index' = Handles
      /\ \A i \in Handles : index'[i] = None \/ index'[i] = index[i]
  BY <1>1 DEF DbmInv, Sync, Close, Drop, AddFails, DelMissing, Gone, files
<1>4. dat' \in Seq(Bytes) /\ Len(dat) <= Len(dat') /\ Len(dat') <= MaxDat
  <2>1. CASE AddFails(h)
    <3>1. dat' = dat \/ dat' = dat \o Padding(Len(dat))
      BY <2>1 DEF AddFails
    <3>2. Aligned(Len(dat)) <= MaxDat
      BY <2>1 DEF AddFails
    <3>3. /\ dat \o Padding(Len(dat)) \in Seq(Bytes)
          /\ Len(dat \o Padding(Len(dat))) = Aligned(Len(dat)) /\ Len(dat) <= Aligned(Len(dat))
      BY <1>2, AddedFile
    <3>4. CASE dat' = dat
      BY <1>2, <3>4
    <3>5. CASE dat' = dat \o Padding(Len(dat))
      <4>1. dat' \in Seq(Bytes) /\ Len(dat') = Aligned(Len(dat))
        BY ONLY <3>3, <3>5, Zenon
      <4> QED
        BY <4>1, <3>2, <3>3
    <3> QED
      BY <3>1, <3>4, <3>5
  <2>2. CASE ~AddFails(h)
    BY <1>2, <2>2 DEF Sync, Close, Drop, DelMissing, Gone, files
  <2> QED
    BY <2>1, <2>2
<1>5. \/ dir' = dir /\ bak' = bak
      \/ Written(index[h]) \/ Torn(index[h])
  BY DEF Sync, Close, Drop, AddFails, DelMissing, files
<1>6. ASSUME NEW f \in Indexes'
      PROVE  \E g \in Indexes : Part(f, g)
  <2>1. f # None /\ (f = dir' \/ f = bak' \/ \E i \in Handles : f = index'[i])
    BY <1>3, IndexesNext
  <2>2. CASE \E i \in Handles : f = index'[i]
    BY <1>3, <2>1, <2>2, IndexesNow DEF Part, DbmInv
  <2>3. CASE f = dir' \/ f = bak'
    <3>1. CASE dir' = dir /\ bak' = bak
      BY <2>1, <2>3, <3>1, IndexesNow DEF Part, DbmInv
    <3>2. CASE Written(index[h]) \/ Torn(index[h])
      <4>1. f = bak' => f \in Indexes
        BY <2>1, <3>2, CommitParts, IndexesNow DEF DbmInv
      <4>2. f = dir' => Part(f, index[h])
        BY <2>1, <3>2, CommitParts DEF Part
      <4> QED
        BY <1>1, <2>3, <4>1, <4>2 DEF Part
    <3> QED
      BY <1>5, <3>1, <3>2
  <2> QED
    BY <2>1, <2>2, <2>3
<1> QED
  BY <1>2, <1>3, <1>4, <1>6, PartStep

(* A deletion takes the key's entry, and commits the rest. *)
LEMMA DeleteKeeps ==
    ASSUME DbmInv, NEW h \in Open, NEW k \in Keys, DelItem(h, k)
    PROVE  DbmInv'
<1> DEFINE idx == Without(index[h], k)
<1>1. h \in Handles /\ index[h] # None /\ index[h] \in Indexes
  BY IndexesNow DEF Open, DbmInv
<1>2. dat \in Seq(Bytes) /\ Len(dat) \in Nat /\ Len(dat) <= MaxDat
  BY <1>1, DataFile
<1>3. /\ modified' \in [Handles -> BOOLEAN] /\ readonly' \in [Handles -> BOOLEAN]
      /\ DOMAIN index' = Handles /\ dat' = dat
      /\ \A i \in Handles : index'[i] = idx \/ index'[i] = index[i]
      /\ Written(idx) \/ Torn(idx)
  BY <1>1 DEF DbmInv, DelItem
<1>4. idx = Restrict(index[h], DOMAIN index[h] \ {k}) /\ DOMAIN idx = DOMAIN index[h] \ {k}
  BY DEF Without, Restrict
<1> HIDE DEF idx
<1>5. ASSUME NEW S \in SUBSET DOMAIN idx
      PROVE  Restrict(idx, S) = Restrict(index[h], S)
  BY <1>4 DEF Restrict
<1>6. ASSUME NEW f \in Indexes'
      PROVE  \E g \in Indexes : Part(f, g)
  <2>1. f # None /\ (f = dir' \/ f = bak' \/ \E i \in Handles : f = index'[i])
    BY <1>3, IndexesNext
  <2>2. f = idx => Part(f, index[h])
    BY <1>4 DEF Part
  <2>3. CASE \E i \in Handles : f = index'[i]
    BY <1>1, <1>3, <2>1, <2>2, <2>3, IndexesNow DEF Part, DbmInv
  <2>4. CASE f = bak'
    BY <1>3, <2>1, <2>4, CommitParts, IndexesNow DEF Part, DbmInv
  <2>5. CASE f = dir'
    <3>1. f = idx \/ \E S \in SUBSET DOMAIN idx : f = Restrict(idx, S)
      BY <1>3, <2>1, <2>5, CommitParts
    <3>2. Part(f, index[h])
      BY <1>4, <1>5, <2>2, <3>1 DEF Part
    <3> QED
      BY <1>1, <3>2
  <2> QED
    BY <2>1, <2>3, <2>4, <2>5
<1> QED
  BY <1>2, <1>3, <1>6, PartStep

(* A store gives its key fresh blocks, or writes in the ones it has.       *)
LEMMA StoreKeeps ==
    ASSUME DbmInv, NEW h \in Open, NEW k \in Keys, NEW v \in Values, SetItem(h, k, v)
    PROVE  DbmInv'
<1>1. h \in Handles /\ index[h] # None /\ index[h] \in Indexes
  BY IndexesNow DEF Open, DbmInv
<1>2. dat \in Seq(Bytes) /\ Len(dat) \in Nat /\ Len(dat) <= MaxDat /\ MaxDat \in Nat
  BY <1>1, DataFile, DbmAssumption
<1>3. v \in Seq(Bytes) /\ Len(v) \in Nat
  BY DbmAssumption, LenProperties
(* Whichever way: the new entry e is sound, and is where it is put. *)
<1>4. ASSUME NEW e, Entry(h, k, e, v), dat' \in Seq(Bytes), Len(dat) <= Len(dat'), Len(dat') <= MaxDat,
             EntryOK(k, e, k, Len(dat')),
             \/ dir' = dir
             \/ dir' = (IF dir = None THEN Empty ELSE dir)
             \/ dir' = Set(IF dir = None THEN Empty ELSE dir, k, e)
      PROVE  DbmInv'
  <2> DEFINE n == Len(dat')
             was == IF dir = None THEN Empty ELSE dir
  <2>1. n \in Nat
    BY <1>4, LenProperties
  <2>2. \A g \in Indexes : Derived(g, k, n)
    BY <1>2, <1>4, <2>1, KeptIndex
  <2>3. Derived(was, k, n)
    <3>1. CASE dir = None
      BY <2>1, <3>1, PartOfIndex
    <3>2. CASE dir # None
      BY <2>2, <3>2, IndexesNow DEF DbmInv
    <3> QED
      BY <3>1, <3>2
  <2>4. Derived(Set(was, k, e), k, n) /\ Derived(Set(index[h], k, e), k, n)
    BY <1>1, <1>4, <2>1, <2>2, <2>3, SetInIndex
  <2>5. /\ index' = [index EXCEPT ![h] = Set(index[h], k, e)] /\ bak' = bak
        /\ modified' \in [Handles -> BOOLEAN] /\ readonly' \in [Handles -> BOOLEAN]
        /\ DOMAIN index' = Handles
    BY <1>1, <1>4 DEF Entry, DbmInv
  <2>6. ASSUME NEW f \in Indexes'
        PROVE  Derived(f, k, n)
    <3> HIDE DEF n
    <3>1. f # None /\ (f = dir' \/ f = bak' \/ \E i \in Handles : f = index'[i])
      BY <2>5, IndexesNext
    <3>2. CASE \E i \in Handles : f = index'[i]
      <4>1. PICK i \in Handles : f = index'[i]
        BY <3>2
      <4>2. i # h => f \in Indexes
        BY <2>5, <3>1, <4>1, IndexesNow DEF DbmInv
      <4>3. i = h => f = Set(index[h], k, e)
        BY <1>1, <2>5, <4>1 DEF DbmInv
      <4> QED
        BY <2>2, <2>4, <4>2, <4>3
    <3>3. CASE f = bak'
      BY <2>2, <2>5, <3>1, <3>3, IndexesNow DEF DbmInv
    <3>4. CASE f = dir'
      <4>1. f = was \/ f = Set(was, k, e)
        BY <1>4, <3>1, <3>4
      <4> QED
        BY <2>3, <2>4, <4>1
    <3> QED
      BY <3>1, <3>2, <3>3, <3>4
  <2> QED
    BY <1>2, <1>4, <2>5, <2>6, StepKeeps
<1>5. ASSUME Fits(v), dat' = Added(v)
      PROVE  /\ dat' \in Seq(Bytes) /\ Len(dat) <= Len(dat') /\ Len(dat') <= MaxDat
             /\ EntryOK(k, <<Aligned(Len(dat)), Len(v)>>, k, Len(dat'))
  <2>1. /\ Aligned(Len(dat)) \in Nat /\ Len(dat) <= Aligned(Len(dat))
        /\ Added(v) \in Seq(Bytes) /\ Len(Added(v)) = Aligned(Len(dat)) + Len(v)
    BY <1>2, AddedFile
  <2> QED
    BY <1>2, <1>3, <1>5, <2>1 DEF Fits, EntryOK, Fresh
<1>6. CASE AddKey(h, k, v)
  <2>1. /\ Fits(v) /\ dat' = Added(v)
        /\ Entry(h, k, <<Aligned(Len(dat)), Len(v)>>, v)
        /\ \/ dir' = dir
           \/ dir' = (IF dir = None THEN Empty ELSE dir)
           \/ dir' = Set(IF dir = None THEN Empty ELSE dir, k, <<Aligned(Len(dat)), Len(v)>>)
    BY <1>6 DEF AddKey
  <2> QED
    BY <1>4, <1>5, <2>1
<1>7. CASE Move(h, k, v)
  <2>1. /\ Fits(v) /\ dat' = Added(v) /\ dir' = dir
        /\ Entry(h, k, <<Aligned(Len(dat)), Len(v)>>, v)
    BY <1>7 DEF Move
  <2> QED
    BY <1>4, <1>5, <2>1
<1>8. CASE SetInPlace(h, k, v)
  <2> DEFINE old == index[h][k]
  <2>1. /\ k \in DOMAIN index[h] /\ Roomy(old[2], v) /\ dir' = dir
        /\ Entry(h, k, <<old[1], Len(v)>>, v)
        /\ dat' = Overwritten(old[1], v) /\ Len(dat') <= MaxDat
    BY <1>8 DEF SetInPlace, InPlace
  <2>2. old[1] \in Nat /\ old[2] \in Nat /\ old[1] + old[2] <= Len(dat)
    BY <1>1, <1>2, <2>1, OldEntry
  <2>3. old[1] <= Len(dat)
    BY <1>2, <2>2
  <2>4. dat' \in Seq(Bytes) /\ Len(dat) <= Len(dat') /\ old[1] + Len(v) <= Len(dat')
    BY <1>2, <2>1, <2>2, <2>3, OverwrittenFile
  <2>5. Within(k, <<old[1], Len(v)>>)
    BY <1>1, <2>1 DEF Within, Roomy
  <2>6. EntryOK(k, <<old[1], Len(v)>>, k, Len(dat'))
    BY <1>3, <2>2, <2>4, <2>5 DEF EntryOK
  <2> QED
    BY <1>4, <2>1, <2>4, <2>6
<1> QED
  BY <1>6, <1>7, <1>8 DEF SetItem

-----------------------------------------------------------------------------
(* The files and objects that are not there yet have no entries. *)
LEMMA InitKeeps == Init => DbmInv
<1> SUFFICES ASSUME Init PROVE DbmInv
  OBVIOUS
<1>1. Indexes = {}
  BY DEF Init, Indexes, Range
<1> QED
  BY <1>1 DEF Init, DbmInv

(* Every step keeps the invariant. *)
LEMMA NextKeeps == DbmInv /\ [Next]_vars => DbmInv'
<1> SUFFICES ASSUME DbmInv, [Next]_vars PROVE DbmInv'
  OBVIOUS
<1>1. CASE UNCHANGED vars
  <2>1. /\ dat' = dat /\ dir' = dir /\ bak' = bak /\ index' = index
        /\ modified' = modified /\ readonly' = readonly
    BY <1>1 DEF vars, files, objects
  <2>2. Indexes' = Indexes
    BY <2>1 DEF Indexes
  <2> QED
    BY <2>1, <2>2 DEF DbmInv
<1>2. CASE Next
  BY <1>2, OpenKeeps, QuietKeeps, DeleteKeeps, StoreKeeps DEF Next, Open
<1> QED
  BY <1>1, <1>2

(* No block is ever given to two keys, whoever writes and whatever fails:  *)
(* the strengthened invariant, whose entries end in the file's blocks.     *)
THEOREM DbmInvariance == Spec => []DbmInv
<1> QED
  BY InitKeeps, NextKeeps, PTL DEF Spec

(* In every index there is, each key's value lies in the data file, and in *)
(* blocks that no other key has in any of them.                            *)
THEOREM Regions == Spec => []RegionsSound
<1>1. DbmInv => RegionsSound
  BY DEF DbmInv, RegionsSound, Good
<1> QED
  BY <1>1, DbmInvariance, PTL

(* Files and indexes are well typed, an entry begins at a block, and there *)
(* is a data file under every index.                                       *)
THEOREM TypeCorrect == Spec => []TypeOK
<1>1. DbmInv => TypeOK
  <2> SUFFICES ASSUME DbmInv PROVE TypeOK
    OBVIOUS
  <2>1. dat = None \/ Len(dat) \in 0..MaxDat
    BY LenProperties, DbmAssumption DEF DbmInv
  <2>2. dir # None \/ bak # None \/ Open # {} => dat # None
    BY IndexesNow DEF DbmInv, Open
  <2>3. ASSUME NEW f \in {dir, bak} \cup Range(index), f # None
        PROVE  IsIndex(f) /\ \A k \in DOMAIN f : f[k][1] % BS = 0
    <3>1. f \in Indexes
      BY <2>3 DEF Indexes
    <3> QED
      BY <3>1 DEF DbmInv, Good
  <2> QED
    BY <2>1, <2>2, <2>3 DEF TypeOK, DbmInv
<1> QED
  BY <1>1, DbmInvariance, PTL

-----------------------------------------------------------------------------
(* What the entries say: the bytes under them.                              *)

At(d, e) == SubSeq(d, e[1] + 1, e[1] + e[2])

(* A step leaves the value of l wherever an index has it. *)
Keeps(l) == \A f \in Indexes : l \in DOMAIN f => At(dat', f[l]) = At(dat, f[l])

(* The object opened last is open, the values it gives are the ones stored  *)
(* last, and the ones committed are in the files.                           *)
ValuesInv ==
    /\ torn \in Nat
    /\ newest = None \/ newest \in Open
    /\ ReadBack
    /\ CommittedSurvives

(* The bytes under an entry, one by one. *)
LEMMA BytesUnder ==
    ASSUME NEW s \in Seq(Bytes), NEW m \in Nat, NEW n \in Nat, m + n <= Len(s)
    PROVE  /\ SubSeq(s, m + 1, m + n) \in Seq(Bytes)
           /\ Len(SubSeq(s, m + 1, m + n)) = n
           /\ \A i \in 1..n : SubSeq(s, m + 1, m + n)[i] = s[m + i]
<1> DEFINE p == m + 1
           q == m + n
<1>1. Len(s) \in Nat /\ p \in Int /\ q \in Int
  BY LenProperties
<1>2. \A i \in p..q : s[i] \in Bytes
  <2> SUFFICES ASSUME NEW i \in p..q PROVE s[i] \in Bytes
    OBVIOUS
  <2>1. i \in 1..Len(s)
    BY <1>1
  <2> QED
    BY <2>1, ElementOfSeq
<1> HIDE DEF p, q
<1>3. /\ SubSeq(s, p, q) \in Seq(Bytes)
      /\ Len(SubSeq(s, p, q)) = IF p <= q THEN q - p + 1 ELSE 0
      /\ \A i \in 1..(q - p + 1) : SubSeq(s, p, q)[i] = s[p + i - 1]
  BY <1>1, <1>2, SubSeqProperties
<1>4. /\ q - p + 1 = n /\ (p <= q \/ n = 0)
      /\ \A i \in 1..n : p + i - 1 = m + i
  BY DEF p, q
<1>5. Len(SubSeq(s, p, q)) = n
  BY <1>3, <1>4, <1>1 DEF p, q
<1>6. \A i \in 1..n : SubSeq(s, p, q)[i] = s[m + i]
  BY <1>3, <1>4
<1> QED
  BY <1>3, <1>5, <1>6 DEF p, q

(* Files that agree under an entry give it the same value. *)
LEMMA SameBytes ==
    ASSUME NEW s \in Seq(Bytes), NEW t \in Seq(Bytes), NEW e \in Nat \X Nat,
           e[1] + e[2] <= Len(s), e[1] + e[2] <= Len(t),
           \A i \in (e[1] + 1)..(e[1] + e[2]) : s[i] = t[i]
    PROVE  At(s, e) = At(t, e)
<1> DEFINE m == e[1]
           n == e[2]
<1>1. m \in Nat /\ n \in Nat /\ m + n <= Len(s) /\ m + n <= Len(t)
  OBVIOUS
<1>2. \A i \in (m + 1)..(m + n) : s[i] = t[i]
  OBVIOUS
<1> HIDE DEF m, n
<1>3. \A i \in 1..n : s[m + i] = t[m + i]
  BY <1>1, <1>2
<1> DEFINE a == SubSeq(s, m + 1, m + n)
           b == SubSeq(t, m + 1, m + n)
<1>4. /\ a \in Seq(Bytes) /\ Len(a) = n /\ \A i \in 1..n : a[i] = s[m + i]
      /\ b \in Seq(Bytes) /\ Len(b) = n /\ \A i \in 1..n : b[i] = t[m + i]
  BY <1>1, BytesUnder
<1>5. a = b
  <2> HIDE DEF a, b
  <2>1. \A i \in 1..n : a[i] = b[i]
    BY <1>3, <1>4
  <2> QED
    BY <1>4, <2>1, SeqEqual
<1> QED
  BY <1>5 DEF At, m, n

(* The bytes that lie under an entry are its value. *)
LEMMA ValueUnder ==
    ASSUME NEW s \in Seq(Bytes), NEW m \in Nat, NEW v \in Seq(Bytes), m + Len(v) <= Len(s),
           \A i \in 1..Len(v) : s[m + i] = v[i]
    PROVE  At(s, <<m, Len(v)>>) = v
<1>1. Len(v) \in Nat
  BY LenProperties
<1>2. \A i \in 1..Len(v) : SubSeq(s, m + 1, m + Len(v))[i] = v[i]
  BY <1>1, BytesUnder
<1>3. SubSeq(s, m + 1, m + Len(v)) = v
  BY <1>1, <1>2, BytesUnder, SeqEqual
<1> QED
  BY <1>3 DEF At

-----------------------------------------------------------------------------
(* What the changes of the file leave, and what they put.                   *)

(* Padding continues the file. *)
LEMMA PaddedFile ==
    ASSUME DbmInv, dat \in Seq(Bytes)
    PROVE  \A i \in 1..Len(dat) : (dat \o Padding(Len(dat)))[i] = dat[i]
<1> DEFINE m == Aligned(Len(dat)) - Len(dat)
           p == Padding(Len(dat))
<1>1. Len(dat) \in Nat /\ Aligned(Len(dat)) \in Nat /\ Len(dat) <= Aligned(Len(dat))
  BY AddedFile
<1>2. m \in Nat
  BY <1>1
<1>3. p \in Seq(Bytes)
  <2>1. Nul \in Bytes /\ p = [i \in 1..m |-> Nul]
    BY DEF Bytes, Padding
  <2> HIDE DEF p, m
  <2> QED
    BY <1>2, <2>1, IsASeq
<1> HIDE DEF p
<1>4. Len(p) \in Nat
  BY <1>3, LenProperties
<1> SUFFICES ASSUME NEW i \in 1..Len(dat) PROVE (dat \o p)[i] = dat[i]
  BY DEF p
<1>5. i \in 1..(Len(dat) + Len(p)) /\ i <= Len(dat)
  BY <1>1, <1>4
<1> QED
  BY <1>3, <1>5, ConcatProperties

(* A file that is continued keeps every value. *)
LEMMA LongerKeeps ==
    ASSUME DbmInv, dat \in Seq(Bytes), dat' \in Seq(Bytes), Len(dat) <= Len(dat'),
           \A i \in 1..Len(dat) : dat'[i] = dat[i]
    PROVE  \A l : Keeps(l)
<1> SUFFICES ASSUME NEW l, NEW f \in Indexes, l \in DOMAIN f
             PROVE  At(dat', f[l]) = At(dat, f[l])
  BY DEF Keeps
<1>1. f[l] \in Nat \X Nat /\ f[l][1] \in Nat /\ f[l][2] \in Nat /\ f[l][1] + f[l][2] <= Len(dat)
  BY OldEntry
<1>2. Len(dat) \in Nat /\ Len(dat') \in Nat
  BY LenProperties
<1> DEFINE e == f[l]
           m == e[1]
           n == e[2]
<1>3. \A i \in (m + 1)..(m + n) : i \in 1..Len(dat)
  <2> HIDE DEF m, n
  <2> QED
    BY <1>1, <1>2 DEF m, n
<1>4. e[1] + e[2] <= Len(dat')
  <2>1. m \in Nat /\ n \in Nat /\ m + n <= Len(dat)
    BY <1>1
  <2> HIDE DEF m, n
  <2>2. m + n <= Len(dat')
    BY <2>1, <1>2
  <2> QED
    BY <2>2 DEF m, n
<1>5. \A i \in (e[1] + 1)..(e[1] + e[2]) : dat'[i] = dat[i]
  BY <1>3
<1> QED
  BY <1>1, <1>4, <1>5, SameBytes

(* A value at the end: what was in the file stays, and the value lies where *)
(* its entry says.                                                          *)
LEMMA AddedKeeps ==
    ASSUME DbmInv, dat \in Seq(Bytes), NEW v \in Values, dat' = Added(v)
    PROVE  /\ \A l : Keeps(l)
           /\ At(dat', <<Aligned(Len(dat)), Len(v)>>) = v
<1>1. /\ Len(dat) \in Nat /\ Aligned(Len(dat)) \in Nat /\ Len(dat) <= Aligned(Len(dat))
      /\ dat \o Padding(Len(dat)) \in Seq(Bytes)
      /\ Len(dat \o Padding(Len(dat))) = Aligned(Len(dat))
      /\ v \in Seq(Bytes) /\ Len(v) \in Nat
      /\ Added(v) \in Seq(Bytes) /\ Len(Added(v)) = Aligned(Len(dat)) + Len(v)
  BY AddedFile
<1>2. \A i \in 1..Len(dat) : (dat \o Padding(Len(dat)))[i] = dat[i]
  BY PaddedFile
<1> DEFINE p == dat \o Padding(Len(dat))
           a == Aligned(Len(dat))
<1>3. dat' = p \o v /\ p \in Seq(Bytes) /\ Len(p) = a
  BY <1>1 DEF Added
<1> HIDE DEF p, a
<1>4. /\ \A i \in 1..Len(p) : dat'[i] = p[i]
      /\ \A i \in 1..Len(v) : dat'[Len(p) + i] = v[i]
  <2>1. \A i \in 1..(Len(p) + Len(v)) : (p \o v)[i] = IF i <= Len(p) THEN p[i] ELSE v[i - Len(p)]
    BY <1>1, <1>3, ConcatProperties
  <2>2. Len(p) \in Nat
    BY <1>1, <1>3 DEF a
  <2>3. ASSUME NEW i \in 1..Len(p) PROVE dat'[i] = p[i]
    <3>1. i \in 1..(Len(p) + Len(v)) /\ i <= Len(p)
      BY <2>2, <1>1
    <3> QED
      BY <3>1, <2>1, <1>3
  <2>4. ASSUME NEW i \in 1..Len(v) PROVE dat'[Len(p) + i] = v[i]
    <3>1. Len(p) + i \in 1..(Len(p) + Len(v)) /\ ~(Len(p) + i <= Len(p)) /\ (Len(p) + i) - Len(p) = i
      BY <2>2, <1>1
    <3> QED
      BY <3>1, <2>1, <1>3
  <2> QED
    BY <2>3, <2>4
<1>5. dat' \in Seq(Bytes) /\ Len(dat') = a + Len(v) /\ a \in Nat /\ Len(dat) <= a
  BY <1>1 DEF a
<1>6. \A i \in 1..Len(dat) : dat'[i] = dat[i]
  <2> SUFFICES ASSUME NEW i \in 1..Len(dat) PROVE dat'[i] = dat[i]
    OBVIOUS
  <2>1. i \in 1..Len(p)
    BY <1>1, <1>3, <1>5
  <2> QED
    BY <2>1, <1>4, <1>2 DEF p
<1>7. \A l : Keeps(l)
  <2>1. Len(dat) <= Len(dat')
    BY <1>5, <1>1
  <2> QED
    BY <1>5, <1>6, <2>1, LongerKeeps
<1>8. At(dat', <<a, Len(v)>>) = v
  <2>1. a + Len(v) <= Len(dat')
    BY <1>5, <1>1
  <2> QED
    BY <1>1, <1>3, <1>4, <1>5, <2>1, ValueUnder
<1> QED
  BY <1>7, <1>8 DEF a

(* A value over an old one that has room for it: the other keys' values     *)
(* stay, as their blocks are apart from the old one's, in whatever index    *)
(* they are found.                                                          *)
LEMMA OverwrittenKeeps ==
    ASSUME DbmInv, dat \in Seq(Bytes), NEW v \in Values,
           NEW g \in Indexes, NEW k \in DOMAIN g,
           Roomy(g[k][2], v), dat' = Overwritten(g[k][1], v)
    PROVE  /\ \A l : l # k => Keeps(l)
           /\ At(dat', <<g[k][1], Len(v)>>) = v
<1> DEFINE pos == g[k][1]
           old == g[k][2]
           n == Len(v)
<1>1. /\ pos \in Nat /\ old \in Nat /\ pos + old <= Len(dat) /\ End(g[k]) \in Nat
      /\ Len(dat) \in Nat
  BY OldEntry, LenProperties
<1>2. v \in Seq(Bytes) /\ n \in Nat
  BY DbmAssumption, LenProperties
<1>3. pos <= Len(dat)
  BY <1>1
<1>4. /\ dat' \in Seq(Bytes) /\ Len(dat) <= Len(dat') /\ pos + n <= Len(dat')
      /\ Len(dat') \in Nat
  BY <1>1, <1>3, OverwrittenFile, LenProperties
<1>5. pos + n <= End(g[k])
  <2>1. Blocks(n) \in Nat /\ Blocks(old) \in Nat /\ n <= BS * Blocks(n)
    BY <1>1, <1>2, BlockFacts DEF Aligned
  <2>2. Blocks(n) <= Blocks(old)
    BY DEF Roomy
  <2>3. BS * Blocks(n) <= BS * Blocks(old) /\ BS * Blocks(n) \in Nat /\ BS * Blocks(old) \in Nat
    BY <2>1, <2>2, Times
  <2>4. End(g[k]) = pos + BS * Blocks(old)
    BY DEF End
  <2> HIDE DEF pos, old, n
  <2> QED
    BY <1>1, <1>2, <2>1, <2>3, <2>4
<1>6. ASSUME NEW i \in 1..Len(dat')
      PROVE  dat'[i] = IF i \in (pos + 1)..(pos + n) THEN v[i - pos] ELSE dat[i]
  <2> DEFINE N == IF pos + n > Len(dat) THEN pos + n ELSE Len(dat)
             w == [j \in 1..N |-> IF j \in (pos + 1)..(pos + n) THEN v[j - pos] ELSE dat[j]]
  <2>1. dat' = w
    BY DEF Overwritten
  <2>2. N \in Nat
    BY <1>1, <1>2
  <2>3. Len(w) = N
    <3>1. DOMAIN w = 1..N
      OBVIOUS
    <3>2. w \in Seq(Bytes)
      BY <1>4, <2>1
    <3> HIDE DEF w, N
    <3>3. DOMAIN w = 1..Len(w) /\ Len(w) \in Nat
      BY <3>2, LenProperties
    <3> QED
      BY <2>2, <3>1, <3>3
  <2>4. i \in 1..N
    BY <2>1, <2>3
  <2> QED
    BY <2>1, <2>4
<1>7. ASSUME NEW l, l # k, NEW f \in Indexes, l \in DOMAIN f
      PROVE  At(dat', f[l]) = At(dat, f[l])
  <2> DEFINE e == f[l]
             m == e[1]
             q == e[2]
  <2>1. e \in Nat \X Nat /\ m \in Nat /\ q \in Nat /\ m + q <= Len(dat) /\ End(e) \in Nat
    BY <1>7, OldEntry
  <2>2. m + q <= End(e)
    <3>1. Blocks(q) \in Nat /\ BS * Blocks(q) \in Nat /\ q <= BS * Blocks(q)
      BY <2>1, BlockFacts DEF Aligned
    <3>2. End(e) = m + BS * Blocks(q)
      BY DEF End
    <3> HIDE DEF m, q, e
    <3> QED
      BY <2>1, <3>1, <3>2
  <2>3. End(g[k]) <= m \/ End(e) <= pos
    BY <1>7 DEF DbmInv, Apart
  <2> DEFINE E == End(g[k])
             D == End(e)
  <2>4. ASSUME NEW i \in (m + 1)..(m + q)
        PROVE  i \in 1..Len(dat) /\ i \in 1..Len(dat') /\ i \notin (pos + 1)..(pos + n)
    <3>1. E \in Nat /\ D \in Nat /\ (E <= m \/ D <= pos) /\ pos + n <= E /\ m + q <= D
      BY <1>1, <1>5, <2>1, <2>2, <2>3
    <3> HIDE DEF m, q, e, E, D, pos, n
    <3> QED
      BY <1>1, <1>2, <1>4, <2>1, <3>1
  <2>5. \A i \in (e[1] + 1)..(e[1] + e[2]) : dat'[i] = dat[i]
    BY <2>4, <1>6
  <2>6. e[1] + e[2] <= Len(dat')
    <3>1. m + q <= Len(dat')
      <4> HIDE DEF m, q, e
      <4> QED
        BY <2>1, <1>1, <1>4
    <3> QED
      BY <3>1
  <2> QED
    BY <1>4, <2>1, <2>5, <2>6, SameBytes
<1>8. At(dat', <<pos, n>>) = v
  <2>1. ASSUME NEW i \in 1..n
        PROVE  dat'[pos + i] = v[i]
    <3> HIDE DEF pos, n
    <3>1. pos + i \in 1..Len(dat') /\ pos + i \in (pos + 1)..(pos + n) /\ (pos + i) - pos = i
      BY <1>1, <1>2, <1>4
    <3> QED
      BY <3>1, <1>6
  <2> QED
    BY <1>1, <1>2, <1>4, <2>1, ValueUnder
<1> QED
  BY <1>7, <1>8 DEF Keeps

-----------------------------------------------------------------------------
(* How the values of a step come about.                                     *)

(* An index, whole or in part or with an entry more, is not None. *)
LEMMA SomeIndex ==
    /\ Empty # None
    /\ \A f, k : IsIndex(f) => Without(f, k) # None
    /\ \A f, k, e : IsIndex(f) /\ k \in Keys /\ e \in Nat \X Nat => Set(f, k, e) # None
<1>1. Empty # None
  BY DbmAssumption, EmptySeq DEF Empty
<1>2. ASSUME NEW f, NEW k, IsIndex(f) PROVE Without(f, k) # None
  <2> DEFINE S == DOMAIN f \ {k}
  <2>1. S \in SUBSET Keys /\ Without(f, k) \in [S -> Nat \X Nat]
    BY <1>2 DEF IsIndex, Without, Restrict
  <2> HIDE DEF S
  <2> QED
    BY <2>1, DbmAssumption
<1>3. ASSUME NEW f, NEW k \in Keys, NEW e \in Nat \X Nat, IsIndex(f) PROVE Set(f, k, e) # None
  <2> DEFINE S == DOMAIN f \cup {k}
  <2>1. S \in SUBSET Keys /\ Set(f, k, e) \in [S -> Nat \X Nat]
    BY <1>3 DEF IsIndex, Set
  <2> HIDE DEF S
  <2> QED
    BY <2>1, DbmAssumption
<1> QED
  BY <1>1, <1>2, <1>3

(* A step that commits nothing and leaves the keys not touched. *)
LEMMA CommittedKept ==
    ASSUME DbmInv, ValuesInv, raced => raced', saved' = saved, torn' = torn, bak' = bak,
           touched \subseteq touched',
           \A l : l \notin touched' => Keeps(l),
           \A l : dir # None /\ l \in DOMAIN dir /\ l \notin touched' =>
                    dir' # None /\ l \in DOMAIN dir' /\ dir'[l] = dir[l]
    PROVE  CommittedSurvives'
<1> SUFFICES ASSUME ~ raced, torn < 2, NEW k \in DOMAIN saved, k \notin touched'
             PROVE  LET f == IF torn = 1 THEN bak' ELSE dir'
                    IN  f # None /\ k \in DOMAIN f /\ At(dat', f[k]) = saved[k]
  BY DEF CommittedSurvives, ValueAt, At
<1> DEFINE f == IF torn = 1 THEN bak ELSE dir
           d == IF torn = 1 THEN bak' ELSE dir'
<1>1. f # None /\ k \in DOMAIN f /\ At(dat, f[k]) = saved[k]
  BY DEF ValuesInv, CommittedSurvives, ValueAt, At
<1>2. d # None /\ k \in DOMAIN d /\ d[k] = f[k]
  BY <1>1
<1>3. f \in Indexes
  BY <1>1, IndexesNow DEF DbmInv
<1>4. At(dat', f[k]) = At(dat, f[k])
  BY <1>1, <1>3 DEF Keeps
<1> QED
  BY <1>1, <1>2, <1>4

(* A commit that raises: what the index file had is in the backup. *)
LEMMA CommittedTorn ==
    ASSUME ValuesInv, raced => raced', saved' = saved, torn' = torn + 1,
           bak' = dir, dat' = dat, touched \subseteq touched'
    PROVE  CommittedSurvives'
<1> SUFFICES ASSUME ~ raced, torn' < 2, NEW k \in DOMAIN saved, k \notin touched'
             PROVE  LET f == IF torn' = 1 THEN dir ELSE dir'
                    IN  f # None /\ k \in DOMAIN f /\ At(dat, f[k]) = saved[k]
  BY DEF CommittedSurvives, ValueAt, At
<1>1. torn = 0 /\ torn' = 1
  BY DEF ValuesInv
<1>2. dir # None /\ k \in DOMAIN dir /\ At(dat, dir[k]) = saved[k]
  BY <1>1 DEF ValuesInv, CommittedSurvives, ValueAt, At
<1> QED
  BY <1>1, <1>2

(* A commit that comes through: the values are in the index file. *)
LEMMA CommittedWritten ==
    ASSUME NEW f, NEW w, f # None, DOMAIN f = DOMAIN w,
           \A k \in DOMAIN f : At(dat, f[k]) = w[k],
           dat' = dat, dir' = f, saved' = w, torn' = 0
    PROVE  CommittedSurvives'
  BY DEF CommittedSurvives, ValueAt, At

(* What the newest object gives, and what it is expected to give. *)
Reads(f, w, d) == DOMAIN f = DOMAIN w /\ \A k \in DOMAIN f : At(d, f[k]) = w[k]

LEMMA ReadsNow ==
    ASSUME ValuesInv, newest # None, ~ raced
    PROVE  Reads(index[newest], view, dat)
  BY DEF ValuesInv, ReadBack, ValueAt, At, Reads

LEMMA ReadsNext ==
    ASSUME newest' # None /\ ~ raced' => Reads(index'[newest'], view', dat')
    PROVE  ReadBack'
  BY DEF ReadBack, ValueAt, At, Reads

(* A newest object whose index and view a step leaves gives what it gave. *)
LEMMA ReadsKept ==
    ASSUME DbmInv, ValuesInv, newest \in Open, ~ raced, \A l : Keeps(l)
    PROVE  Reads(index[newest], view, dat')
<1>1. index[newest] \in Indexes /\ newest # None
  BY IndexesNow, DbmAssumption DEF DbmInv, Open
<1>2. Reads(index[newest], view, dat)
  BY <1>1, ReadsNow
<1> QED
  BY <1>1, <1>2 DEF Reads, Keeps

(* A step by another object than the newest ends what is expected. *)
LEMMA Races ==
    ASSUME NEW h, NEW w, NEW s, NEW t, NEW n, Expect(h, w, s, t, n), torn \in Nat
    PROVE  /\ raced \/ h # newest => raced' /\ torn' = 0
           /\ ~ raced /\ h = newest => /\ raced' = FALSE /\ view' = w /\ saved' = s
                                       /\ touched' = t /\ torn' = n
  BY DEF Expect

(* Nothing is expected once an older object has written. *)
LEMMA NothingExpected ==
    ASSUME raced'
    PROVE  ReadBack' /\ CommittedSurvives'
  BY DEF ReadBack, CommittedSurvives

-----------------------------------------------------------------------------
(* The steps, and the values.                                               *)

(* An object that is opened reads the values there are. *)
LEMMA OpenReads ==
    ASSUME DbmInv, ValuesInv, NEW h \in Handles, OpenDb(h)
    PROVE  ValuesInv'
<1>1. DOMAIN index = Handles
  BY DEF DbmInv
<1>2. ASSUME NEW flag \in Flags, OpenOld(h, flag)
      PROVE  ValuesInv'
  <2> DEFINE idx == IF dir = None THEN Empty ELSE dir
  <2>1. /\ index' = [index EXCEPT ![h] = idx] /\ newest' = h
        /\ dat' = (IF dat = None THEN <<>> ELSE dat) /\ dir' = idx
        /\ view' = (IF raced THEN Empty ELSE [k \in DOMAIN idx |-> At(dat, idx[k])])
        /\ bak' = bak /\ raced' = raced /\ saved' = saved /\ touched' = touched /\ torn' = torn
    BY <1>2 DEF OpenOld, Opened, ValueAt, At
  <2>2. idx # None
    BY SomeIndex
  <2>3. index'[h] = idx /\ newest' \in Open'
    BY <1>1, <2>1, <2>2 DEF Open
  <2>4. CASE dat = None
    <3>1. Indexes = {} /\ dir = None /\ bak = None
      BY <2>4, IndexesNow DEF DbmInv
    <3>2. DOMAIN idx = {}
      BY <3>1 DEF Empty
    <3>3. ReadBack'
      <4>1. ~ raced => DOMAIN view' = DOMAIN idx
        BY <2>1
      <4> QED
        BY <2>1, <2>3, <3>2, <4>1, ReadsNext DEF Reads
    <3>4. CommittedSurvives'
      BY <2>1, <3>1, CommittedKept DEF Keeps
    <3> QED
      BY <2>1, <2>3, <3>3, <3>4 DEF ValuesInv
  <2>5. CASE dat # None
    <3>1. dat' = dat
      BY <2>1, <2>5
    <3>2. ReadBack'
      <4>1. ASSUME ~ raced PROVE Reads(idx, view', dat')
        BY <2>1, <3>1, <4>1 DEF Reads
      <4> QED
        BY <2>1, <2>3, <4>1, ReadsNext
    <3>3. CommittedSurvives'
      BY <2>1, <3>1, CommittedKept, <2>2 DEF Keeps
    <3> QED
      BY <2>1, <2>3, <3>2, <3>3 DEF ValuesInv
  <2> QED
    BY <2>4, <2>5
<1>3. ASSUME OpenNew(h)
      PROVE  ValuesInv'
  <2>1. /\ index' = [index EXCEPT ![h] = Empty] /\ newest' = h
        /\ view' = Empty /\ saved' = Empty /\ torn' = 0
    BY <1>3 DEF OpenNew, Opened
  <2>2. index'[h] = Empty /\ newest' \in Open' /\ DOMAIN Empty = {}
    BY <1>1, <2>1, SomeIndex DEF Open, Empty
  <2>3. ReadBack'
    BY <2>1, <2>2, ReadsNext DEF Reads
  <2>4. CommittedSurvives'
    BY <2>1, <2>2 DEF CommittedSurvives
  <2> QED
    BY <2>1, <2>2, <2>3, <2>4 DEF ValuesInv
<1> QED
  BY <1>2, <1>3 DEF OpenDb

(* What is expected of a commit of idx, with the view w, by the newest one. *)
LEMMA CommitReads ==
    ASSUME DbmInv, ValuesInv, NEW h \in Open, NEW idx, NEW w, NEW x, NEW T,
           h = newest /\ ~ raced => Reads(idx, w, dat),
           idx # None, touched \subseteq T, dat' = dat,
           \/ Written(idx) /\ Expect(h, x, w, {}, 0)
           \/ Torn(idx) /\ Expect(h, x, saved, T, torn + 1)
    PROVE  CommittedSurvives' /\ torn' \in Nat
<1>1. torn \in Nat
  BY DEF ValuesInv
<1>2. CASE raced \/ h # newest
  <2>1. raced' /\ torn' = 0
    BY <1>1, <1>2, Races
  <2> QED
    BY <2>1, NothingExpected
<1>3. CASE ~ raced /\ h = newest
  <2>1. CASE Written(idx) /\ Expect(h, x, w, {}, 0)
    <3>1. saved' = w /\ torn' = 0 /\ dir' = idx
      BY <1>1, <1>3, <2>1, Races DEF Written
    <3> QED
      BY <1>3, <3>1, CommittedWritten DEF Reads
  <2>2. CASE Torn(idx) /\ Expect(h, x, saved, T, torn + 1)
    <3>1. /\ saved' = saved /\ torn' = torn + 1 /\ touched' = T
          /\ bak' = dir
      BY <1>1, <1>3, <2>2, Races DEF Torn, BackedUp
    <3>2. CommittedSurvives'
      BY <1>3, <3>1, CommittedTorn
    <3> QED
      BY <1>1, <3>1, <3>2
  <2> QED
    BY <2>1, <2>2
<1> QED
  BY <1>2, <1>3

(* An object that writes and is not the newest leaves the newest open. *)
LEMMA NewestStays ==
    ASSUME DbmInv, newest = None \/ newest \in Open, newest' = newest,
           \A i \in Open : index'[i] # None
    PROVE  newest' = None \/ newest' \in Open'
  BY DEF Open

(* So does one that goes. *)
LEMMA GoneNewest ==
    ASSUME DbmInv, newest = None \/ newest \in Open, NEW h \in Open, Gone(h)
    PROVE  /\ newest' = None \/ newest' \in Open'
           /\ newest' # None => /\ newest' = newest /\ newest # h
                                /\ index'[newest] = index[newest] /\ newest \in Open
<1>1. DOMAIN index = Handles /\ h \in Handles
  BY DEF DbmInv, Open
<1>2. index' = [index EXCEPT ![h] = None] /\ newest' = IF h = newest THEN None ELSE newest
  BY DEF Gone
<1>3. \A i \in Open : i # h => index'[i] = index[i] /\ i \in Handles
  BY <1>1, <1>2 DEF Open
<1> QED
  BY <1>2, <1>3 DEF Open

(* Committing, closing, dropping, and a store that fails or a key that is   *)
(* missing, change no value.                                                *)
LEMMA QuietReads ==
    ASSUME DbmInv, ValuesInv, NEW h \in Open,
           Sync(h) \/ Close(h) \/ Drop(h) \/ AddFails(h) \/ DelMissing(h)
    PROVE  ValuesInv'
<1>1. h \in Handles /\ index[h] # None /\ DOMAIN index = Handles /\ h # None
  BY DbmAssumption DEF Open, DbmInv
<1>2. torn \in Nat /\ (newest = None \/ newest \in Open) /\ ReadBack /\ CommittedSurvives
  BY DEF ValuesInv
<1>3. h = newest /\ ~ raced => Reads(index[h], view, dat)
  BY <1>1, ReadsNow
<1>4. dat \in Seq(Bytes) /\ Len(dat) \in Nat
  BY <1>1, IndexesNow, DataFile DEF DbmInv
<1>5. CASE Sync(h)
  <2>1. /\ dat' = dat /\ index' = index /\ newest' = newest
        /\ \/ Written(index[h]) /\ Expect(h, view, view, {}, 0)
           \/ Torn(index[h]) /\ Expect(h, view, saved, touched, torn + 1)
    BY <1>5 DEF Sync
  <2>2. CommittedSurvives' /\ torn' \in Nat
    BY <1>1, <1>3, <2>1, CommitReads
  <2>3. newest' = None \/ newest' \in Open'
    BY <1>2, <2>1 DEF Open
  <2>4. ReadBack'
    <3>1. CASE raced \/ h # newest
      BY <1>2, <2>1, <3>1, Races, NothingExpected
    <3>2. CASE ~ raced /\ h = newest
      BY <1>2, <1>3, <2>1, <3>2, Races, ReadsNext
    <3> QED
      BY <3>1, <3>2
  <2> QED
    BY <2>2, <2>3, <2>4 DEF ValuesInv
<1>6. CASE Close(h)
  <2>1. dat' = dat /\ Gone(h)
    BY <1>6 DEF Close
  <2>2. /\ newest' = None \/ newest' \in Open'
        /\ newest' # None => /\ newest' = newest /\ newest # h
                             /\ index'[newest] = index[newest] /\ newest \in Open
    BY <1>2, <2>1, GoneNewest
  <2>3. CASE \/ Written(index[h]) /\ Expect(h, Empty, view, {}, 0)
             \/ Torn(index[h]) /\ Expect(h, Empty, saved, touched, torn + 1)
    <3>1. CommittedSurvives' /\ torn' \in Nat
      BY <1>1, <1>3, <2>1, <2>3, CommitReads
    <3>2. ReadBack'
      <4>1. CASE raced \/ h # newest
        BY <1>2, <2>3, <4>1, Races, NothingExpected
      <4>2. CASE h = newest
        BY <2>2, <4>2 DEF ReadBack
      <4> QED
        BY <4>1, <4>2
    <3> QED
      BY <2>2, <3>1, <3>2 DEF ValuesInv
  <2>4. CASE UNCHANGED <<dir, bak, ghosts>>
    <3>1. /\ dir' = dir /\ bak' = bak /\ raced' = raced /\ view' = view /\ saved' = saved
          /\ touched' = touched /\ torn' = torn
      BY <2>4 DEF ghosts
    <3>2. CommittedSurvives'
      BY <2>1, <3>1, CommittedKept DEF Keeps
    <3>3. ReadBack'
      BY <2>1, <2>2, <3>1, ReadsNow, ReadsNext
    <3> QED
      BY <1>2, <2>2, <3>1, <3>2, <3>3 DEF ValuesInv
  <2> QED
    BY <1>6, <2>3, <2>4 DEF Close
<1>7. CASE Drop(h)
  <2>1. /\ Gone(h) /\ dat' = dat /\ dir' = dir /\ bak' = bak /\ raced' = raced /\ view' = view
        /\ saved' = saved /\ touched' = touched /\ torn' = torn
    BY <1>7 DEF Drop, files, ghosts
  <2>2. /\ newest' = None \/ newest' \in Open'
        /\ newest' # None => /\ newest' = newest /\ newest # h
                             /\ index'[newest] = index[newest] /\ newest \in Open
    BY <1>2, <2>1, GoneNewest
  <2>3. CommittedSurvives'
    BY <2>1, CommittedKept DEF Keeps
  <2>4. ReadBack'
    BY <2>1, <2>2, ReadsNow, ReadsNext
  <2> QED
    BY <1>2, <2>1, <2>2, <2>3, <2>4 DEF ValuesInv
<1>8. CASE AddFails(h) \/ DelMissing(h)
  <2>1. /\ dir' = dir /\ bak' = bak /\ index' = index /\ newest' = newest
        /\ raced' = raced /\ view' = view /\ saved' = saved /\ touched' = touched /\ torn' = torn
    BY <1>8 DEF AddFails, DelMissing, files, ghosts
  <2>2. \A l : Keeps(l)
    <3>1. CASE dat' = dat
      BY <3>1 DEF Keeps
    <3>2. CASE dat' = dat \o Padding(Len(dat))
      <4>1. \A i \in 1..Len(dat) : dat'[i] = dat[i]
        BY <1>4, <3>2, PaddedFile
      <4>2. dat' \in Seq(Bytes) /\ Len(dat) <= Len(dat')
        <5>1. /\ dat \o Padding(Len(dat)) \in Seq(Bytes)
              /\ Len(dat \o Padding(Len(dat))) = Aligned(Len(dat)) /\ Len(dat) <= Aligned(Len(dat))
          BY <1>4, AddedFile
        <5>2. dat' \in Seq(Bytes) /\ Len(dat') = Aligned(Len(dat))
          BY ONLY <3>2, <5>1, Zenon
        <5> QED
          BY <5>1, <5>2
      <4> QED
        BY <1>4, <4>1, <4>2, LongerKeeps
    <3>3. dat' = dat \/ dat' = dat \o Padding(Len(dat))
      BY <1>8 DEF AddFails, DelMissing, files
    <3> QED
      BY <3>1, <3>2, <3>3
  <2>3. CommittedSurvives'
    BY <2>1, <2>2, CommittedKept
  <2>4. ReadBack'
    BY <1>2, <2>1, <2>2, ReadsKept, ReadsNext
  <2>5. newest' = None \/ newest' \in Open'
    BY <1>2, <2>1 DEF Open
  <2> QED
    BY <1>2, <2>1, <2>3, <2>4, <2>5 DEF ValuesInv
<1> QED
  BY <1>5, <1>6, <1>7, <1>8

(* A deletion leaves the values of the other keys. *)
LEMMA DeleteReads ==
    ASSUME DbmInv, ValuesInv, NEW h \in Open, NEW k \in Keys, DelItem(h, k)
    PROVE  ValuesInv'
<1> DEFINE idx == Without(index[h], k)
           w == Without(view, k)
<1>1. h \in Handles /\ index[h] # None /\ DOMAIN index = Handles /\ h # None
      /\ index[h] \in Indexes
  BY DbmAssumption, IndexesNow DEF Open, DbmInv
<1>2. torn \in Nat /\ (newest = None \/ newest \in Open)
  BY DEF ValuesInv
<1>3. idx # None
  BY <1>1, SomeIndex DEF DbmInv, Good
<1>4. h = newest /\ ~ raced => Reads(idx, w, dat)
  <2> SUFFICES ASSUME h = newest, ~ raced PROVE Reads(idx, w, dat)
    OBVIOUS
  <2>1. Reads(index[h], view, dat)
    BY <1>1, ReadsNow
  <2>2. /\ DOMAIN idx = DOMAIN index[h] \ {k} /\ \A l \in DOMAIN idx : idx[l] = index[h][l]
        /\ DOMAIN w = DOMAIN view \ {k} /\ \A l \in DOMAIN w : w[l] = view[l]
    BY DEF Without, Restrict
  <2> HIDE DEF idx, w
  <2> QED
    BY <2>1, <2>2 DEF Reads
<1>5. /\ index' = [index EXCEPT ![h] = idx] /\ dat' = dat /\ newest' = newest
      /\ \/ Written(idx) /\ Expect(h, w, w, {}, 0)
         \/ Torn(idx) /\ Expect(h, w, saved, touched \cup {k}, torn + 1)
  BY DEF DelItem
<1> HIDE DEF idx, w
<1>6. CommittedSurvives' /\ torn' \in Nat
  <2> DEFINE T == touched \cup {k}
  <2>1. touched \subseteq T
    OBVIOUS
  <2>2. \/ Written(idx) /\ Expect(h, w, w, {}, 0)
        \/ Torn(idx) /\ Expect(h, w, saved, T, torn + 1)
    BY <1>5
  <2> HIDE DEF T
  <2> QED
    BY <1>3, <1>4, <1>5, <2>1, <2>2, CommitReads
<1>7. newest' = None \/ newest' \in Open'
  BY <1>1, <1>2, <1>3, <1>5 DEF Open
<1>8. ReadBack'
  <2>1. CASE raced \/ h # newest
    BY <1>2, <1>5, <2>1, Races, NothingExpected
  <2>2. CASE ~ raced /\ h = newest
    <3>1. view' = w
      BY <1>2, <1>5, <2>2, Races
    <3>2. index'[h] = idx
      BY <1>1, <1>5
    <3> QED
      BY <1>4, <1>5, <2>2, <3>1, <3>2, ReadsNext
  <2> QED
    BY <2>1, <2>2
<1> QED
  BY <1>6, <1>7, <1>8 DEF ValuesInv

(* A store changes its key's value, in its fresh blocks or its own. *)
LEMMA StoreReads ==
    ASSUME DbmInv, ValuesInv, NEW h \in Open, NEW k \in Keys, NEW v \in Values, SetItem(h, k, v)
    PROVE  ValuesInv'
<1>1. h \in Handles /\ index[h] # None /\ DOMAIN index = Handles /\ h # None
      /\ index[h] \in Indexes
  BY DbmAssumption, IndexesNow DEF Open, DbmInv
<1>2. torn \in Nat /\ (newest = None \/ newest \in Open)
  BY DEF ValuesInv
<1>3. dat \in Seq(Bytes) /\ Len(dat) \in Nat
  BY <1>1, DataFile
<1>4. v \in Seq(Bytes) /\ Len(v) \in Nat
  BY DbmAssumption, LenProperties
<1>5. ASSUME NEW e, Entry(h, k, e, v), e \in Nat \X Nat,
             \A l : l # k => Keeps(l), At(dat', e) = v,
             \/ dir' = dir
             \/ dir' = (IF dir = None THEN Empty ELSE dir)
             \/ dir' = Set(IF dir = None THEN Empty ELSE dir, k, e)
      PROVE  ValuesInv'
  <2>1. /\ index' = [index EXCEPT ![h] = Set(index[h], k, e)] /\ bak' = bak /\ newest' = newest
        /\ Expect(h, Set(view, k, v), saved, touched \cup {k}, torn)
    BY <1>5 DEF Entry
  <2>2. IsIndex(index[h]) /\ (dir # None => IsIndex(dir))
    BY <1>1, IndexesNow DEF DbmInv, Good
  <2>3. index'[h] = Set(index[h], k, e) /\ index'[h] # None
    BY <1>1, <1>5, <2>1, <2>2, SomeIndex
  <2>4. newest' = None \/ newest' \in Open'
    BY <1>1, <1>2, <2>1, <2>3 DEF Open
  <2>5. CASE raced \/ h # newest
    <3>1. raced' /\ torn' = 0
      BY <1>2, <2>1, <2>5, Races
    <3> QED
      BY <2>4, <3>1, NothingExpected DEF ValuesInv
  <2>6. CASE ~ raced /\ h = newest
    <3>1. /\ view' = Set(view, k, v) /\ saved' = saved /\ touched' = touched \cup {k}
          /\ torn' = torn
      BY <1>2, <2>1, <2>6, Races
    <3>2. ReadBack'
      <4>1. Reads(index[h], view, dat)
        BY <1>1, <2>6, ReadsNow
      <4>2. Reads(Set(index[h], k, e), Set(view, k, v), dat')
        <5>1. \A l \in DOMAIN index[h] : l # k => At(dat', index[h][l]) = At(dat, index[h][l])
          BY <1>1, <1>5 DEF Keeps
        <5> QED
          BY <1>5, <4>1, <5>1 DEF Reads, Set
      <4> QED
        BY <2>1, <2>3, <2>6, <3>1, <4>2, ReadsNext
    <3>3. \A l : dir # None /\ l \in DOMAIN dir /\ l # k =>
                   dir' # None /\ l \in DOMAIN dir' /\ dir'[l] = dir[l]
      <4>1. dir # None => /\ Set(dir, k, e) # None /\ DOMAIN Set(dir, k, e) = DOMAIN dir \cup {k}
                          /\ \A l \in DOMAIN dir : l # k => Set(dir, k, e)[l] = dir[l]
        <5>1. dir # None => Set(dir, k, e) # None
          BY <1>5, <2>2, SomeIndex
        <5> QED
          BY <5>1 DEF Set
      <4> QED
        BY <1>5, <4>1
    <3>4. CommittedSurvives'
      BY <1>5, <2>1, <2>6, <3>1, <3>3, CommittedKept
    <3> QED
      BY <1>2, <2>4, <3>1, <3>2, <3>4 DEF ValuesInv
  <2> QED
    BY <2>5, <2>6
<1>6. ASSUME dat' = Added(v)
      PROVE  /\ <<Aligned(Len(dat)), Len(v)>> \in Nat \X Nat
             /\ \A l : l # k => Keeps(l)
             /\ At(dat', <<Aligned(Len(dat)), Len(v)>>) = v
  <2>1. Aligned(Len(dat)) \in Nat
    BY <1>3, AddedFile
  <2> QED
    BY <1>3, <1>4, <1>6, <2>1, AddedKeeps
<1>7. CASE AddKey(h, k, v)
  <2>1. /\ dat' = Added(v)
        /\ Entry(h, k, <<Aligned(Len(dat)), Len(v)>>, v)
        /\ \/ dir' = dir
           \/ dir' = (IF dir = None THEN Empty ELSE dir)
           \/ dir' = Set(IF dir = None THEN Empty ELSE dir, k, <<Aligned(Len(dat)), Len(v)>>)
    BY <1>7 DEF AddKey
  <2> QED
    BY <1>5, <1>6, <2>1
<1>8. CASE Move(h, k, v)
  <2>1. dat' = Added(v) /\ dir' = dir /\ Entry(h, k, <<Aligned(Len(dat)), Len(v)>>, v)
    BY <1>8 DEF Move
  <2> QED
    BY <1>5, <1>6, <2>1
<1>9. CASE SetInPlace(h, k, v)
  <2> DEFINE old == index[h][k]
  <2>1. /\ k \in DOMAIN index[h] /\ Roomy(old[2], v) /\ dir' = dir
        /\ Entry(h, k, <<old[1], Len(v)>>, v)
        /\ dat' = Overwritten(old[1], v)
    BY <1>9 DEF SetInPlace, InPlace
  <2>2. old[1] \in Nat
    BY <1>1, <1>3, <2>1, OldEntry
  <2>3. /\ \A l : l # k => Keeps(l)
        /\ At(dat', <<old[1], Len(v)>>) = v
    BY <1>1, <1>3, <2>1, OverwrittenKeeps
  <2>4. <<old[1], Len(v)>> \in Nat \X Nat
    BY <1>4, <2>2
  <2> HIDE DEF old
  <2> QED
    BY <1>5, <2>1, <2>3, <2>4
<1> QED
  BY <1>7, <1>8, <1>9 DEF SetItem

-----------------------------------------------------------------------------
(* There is nothing to read at first. *)
LEMMA InitReads == Init => ValuesInv
  BY DbmAssumption DEF Init, ValuesInv, ReadBack, CommittedSurvives, Empty

(* Every step keeps the values. *)
LEMMA NextReads == DbmInv /\ ValuesInv /\ [Next]_vars => ValuesInv'
<1> SUFFICES ASSUME DbmInv, ValuesInv, [Next]_vars PROVE ValuesInv'
  OBVIOUS
<1>1. CASE UNCHANGED vars
  BY <1>1 DEF vars, files, objects, ghosts, ValuesInv, ReadBack, CommittedSurvives, ValueAt, Open
<1>2. CASE Next
  BY <1>2, OpenReads, QuietReads, DeleteReads, StoreReads DEF Next, Open
<1> QED
  BY <1>1, <1>2

(* Whoever writes, drops or fails, the values stay under their entries: the *)
(* invariant behind the two below.                                          *)
THEOREM ValuesInvariance == Spec => [](DbmInv /\ ValuesInv)
<1>1. Init => DbmInv /\ ValuesInv
  BY InitKeeps, InitReads
<1>2. DbmInv /\ ValuesInv /\ [Next]_vars => (DbmInv /\ ValuesInv)'
  BY NextKeeps, NextReads
<1> QED
  BY <1>1, <1>2, PTL DEF Spec

(* The newest object gives for each key what was stored last, through       *)
(* overwriting in place, moving, reopening and half-done commits.           *)
THEOREM ReadsWhatWasStored == Spec => []ReadBack
<1>1. DbmInv /\ ValuesInv => ReadBack
  BY DEF ValuesInv
<1> QED
  BY <1>1, ValuesInvariance, PTL

(* A value committed and not touched since is in the index file, or in its  *)
(* backup after a commit that raised.                                       *)
THEOREM CommitsSurvive == Spec => []CommittedSurvives
<1>1. DbmInv /\ ValuesInv => CommittedSurvives
  BY DEF ValuesInv
<1> QED
  BY <1>1, ValuesInvariance, PTL
=============================================================================
