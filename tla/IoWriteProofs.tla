---------------------------- MODULE IoWriteProofs ----------------------------
(***************************************************************************)
(* FileIO and TextIOWrapper over the in-memory file system, for any names,   *)
(* bytes, texts, offsets and bounds.                                         *)
(*                                                                           *)
(* Between the nodes and the contract's files stands IoInv: nodes whose size *)
(* is within their array (Files), one raw object for each wrapper, and no    *)
(* descriptor that two wrappers have read ahead on (Table), and a wrapper    *)
(* that has read ahead and not handed out all of it holds what its file has  *)
(* there (Caches).  Characters are bytes at some places of what was read, so *)
(* that handing out characters, and telling where they end, is counting      *)
(* places.  Each operation keeps IoInv and is an operation of FileContract.  *)
(***************************************************************************)
EXTENDS IoWrite, FiniteSetTheorems, SequenceTheorems, WellFoundedInduction, TLAPS

(* A set of numbers has a least one. *)
LEMMA LeastOf ==
    ASSUME NEW S \in SUBSET Nat, S # {}
    PROVE  \E x \in S : \A y \in S : x <= y
<1>1. PICK x \in S : \A y \in S : ~ (<<y, x>> \in OpToRel(<, Nat))
  BY NatLessThanWellFounded, WFMin
<1>2. \A y \in S : ~ (y < x)
  BY <1>1 DEF OpToRel
<1> QED
  BY <1>2

(* Min is that one. *)
LEMMA MinOf ==
    ASSUME NEW S \in SUBSET Nat, S # {}
    PROVE  Min(S) \in S /\ \A y \in S : Min(S) <= y
<1>1. \E x \in S : \A y \in S : x <= y
  BY LeastOf
<1> QED
  BY <1>1 DEF Min

-----------------------------------------------------------------------------
(* Elements picked in order. *)

\* f lists S in order.
Lists(f, n, S) ==
    /\ f \in [1..n -> S]
    /\ \A i, j \in 1..n : i < j => f[i] < f[j]
    /\ \A x \in S : \E i \in 1..n : f[i] = x

(* Only one listing there is, and Nth is it. *)
LEMMA NthIs ==
    ASSUME NEW n \in Nat, NEW S \in SUBSET Int, NEW f, Lists(f, n, S)
    PROVE  /\ IsFiniteSet(S) /\ Cardinality(S) = n
           /\ \A k \in 1..n : Nth(S, k) = f[k]
<1>1. \A i, j \in 1..n : i # j => f[i] # f[j]
  <2> SUFFICES ASSUME NEW i \in 1..n, NEW j \in 1..n, i # j PROVE f[i] # f[j]
    OBVIOUS
  <2>1. f[i] \in Int /\ f[j] \in Int
    BY DEF Lists
  <2>2. i < j \/ j < i
    OBVIOUS
  <2> QED
    BY <2>1, <2>2 DEF Lists
<1>2. f \in Bijection(1..n, S)
  BY <1>1 DEF Lists, Bijection, Injection, Surjection, IsInjective
<1>3. IsFiniteSet(S) /\ Cardinality(S) = n
  BY <1>2, FS_CountingElements, FS_NatBijection DEF ExistsBijection
<1>4. ASSUME NEW k \in 1..n
      PROVE  Cardinality({j \in S : j <= f[k]}) = k
  <2> DEFINE T == {j \in S : j <= f[k]}
             g == [i \in 1..k |-> f[i]]
  <2>1. \A i \in 1..n : f[i] <= f[k] <=> i <= k
    <3> SUFFICES ASSUME NEW i \in 1..n PROVE f[i] <= f[k] <=> i <= k
      OBVIOUS
    <3>1. f[i] \in Int /\ f[k] \in Int
      BY DEF Lists
    <3>2. i < k \/ i = k \/ k < i
      OBVIOUS
    <3> QED
      BY <3>1, <3>2 DEF Lists
  <2>2. g \in [1..k -> T]
    BY <2>1 DEF Lists
  <2>3. \A x \in T : \E i \in 1..k : g[i] = x
    BY <2>1 DEF Lists
  <2>4. \A i, j \in 1..k : i # j => g[i] # g[j]
    BY <1>1
  <2>5. g \in Bijection(1..k, T)
    BY <2>2, <2>3, <2>4 DEF Bijection, Injection, Surjection, IsInjective
  <2>6. k \in Nat
    OBVIOUS
  <2> HIDE DEF g, T
  <2>7. Cardinality(T) = k
    BY <2>5, <2>6, FS_CountingElements DEF ExistsBijection
  <2> QED
    BY <2>7 DEF T
<1>5. ASSUME NEW k \in 1..n
      PROVE  Nth(S, k) = f[k]
  <2>1. f[k] \in S
    BY DEF Lists
  <2>2. ASSUME NEW x \in S, Cardinality({j \in S : j <= x}) = k PROVE x = f[k]
    <3>1. PICK i \in 1..n : f[i] = x
      BY DEF Lists
    <3>2. i = k
      BY <1>4, <2>2, <3>1
    <3> QED
      BY <3>1, <3>2
  <2> QED
    BY <1>4, <2>1, <2>2 DEF Nth
<1> QED
  BY <1>3, <1>5

(* A finite set of numbers has a listing. *)
LEMMA NthLists ==
    ASSUME NEW S \in SUBSET Int, IsFiniteSet(S)
    PROVE  /\ Cardinality(S) \in Nat
           /\ Lists([k \in 1..Cardinality(S) |-> Nth(S, k)], Cardinality(S), S)
           /\ \A x \in S : /\ Cardinality({j \in S : j <= x}) \in 1..Cardinality(S)
                           /\ Nth(S, Cardinality({j \in S : j <= x})) = x
<1> DEFINE n == Cardinality(S)
           upto(x) == {j \in S : j <= x}
           rank == [x \in S |-> Cardinality(upto(x))]
           f == [k \in 1..n |-> Nth(S, k)]
<1>1. n \in Nat /\ IsFiniteSet(1..n) /\ Cardinality(1..n) = n
  BY FS_CardinalityType, FS_Interval
<1>2. ASSUME NEW x \in S
      PROVE  IsFiniteSet(upto(x)) /\ Cardinality(upto(x)) \in 1..n
  <2>1. upto(x) \in SUBSET S /\ x \in upto(x)
    OBVIOUS
  <2>2. IsFiniteSet(upto(x)) /\ Cardinality(upto(x)) <= n
    BY <2>1, FS_Subset
  <2>3. Cardinality(upto(x)) \in Nat /\ Cardinality(upto(x)) # 0
    BY <2>1, <2>2, FS_CardinalityType, FS_EmptySet
  <2> QED
    BY <1>1, <2>2, <2>3
<1>3. ASSUME NEW x \in S, NEW y \in S, x < y
      PROVE  Cardinality(upto(x)) < Cardinality(upto(y))
  <2>1. upto(x) \in SUBSET upto(y) /\ y \in upto(y) /\ y \notin upto(x)
    <3>1. x \in Int /\ y \in Int /\ \A j \in S : j \in Int
      OBVIOUS
    <3>2. \A j \in S : j <= x => j <= y
      BY <1>3, <3>1
    <3>3. x <= y /\ y <= y /\ ~ (y <= x)
      BY <1>3, <3>1
    <3> QED
      BY <3>2, <3>3
  <2>2. IsFiniteSet(upto(y)) /\ IsFiniteSet(upto(x))
    BY <1>2
  <2> HIDE DEF upto
  <2>3. Cardinality(upto(x)) <= Cardinality(upto(y))
        /\ Cardinality(upto(x)) # Cardinality(upto(y))
    BY <2>1, <2>2, FS_Subset
  <2>4. Cardinality(upto(x)) \in Nat /\ Cardinality(upto(y)) \in Nat
    BY <2>2, FS_CardinalityType
  <2> QED
    BY <2>3, <2>4
<1>4. rank \in Injection(S, 1..n)
  <2>1. rank \in [S -> 1..n]
    BY <1>2
  <2>2. ASSUME NEW x \in S, NEW y \in S, x # y PROVE rank[x] # rank[y]
    <3>1. x \in Int /\ y \in Int /\ (x < y \/ y < x)
      BY <2>2
    <3>2. rank[x] \in Nat /\ rank[y] \in Nat
      BY <2>1
    <3>3. rank[x] < rank[y] \/ rank[y] < rank[x]
      BY <1>3, <3>1
    <3> QED
      BY <3>2, <3>3
  <2> QED
    BY <2>1, <2>2 DEF Injection, IsInjective
<1>5. rank \in Surjection(S, 1..n)
  BY <1>1, <1>4, FS_Injection
<1>6. ASSUME NEW k \in 1..n
      PROVE  Nth(S, k) \in S /\ Cardinality(upto(Nth(S, k))) = k
  <2>1. \E x \in S : Cardinality(upto(x)) = k
    BY <1>5 DEF Surjection
  <2> QED
    BY <2>1 DEF Nth
<1>7. ASSUME NEW x \in S PROVE Nth(S, Cardinality(upto(x))) = x
  <2> DEFINE k == Cardinality(upto(x))
             y == Nth(S, k)
  <2>1. k \in 1..n
    BY <1>2
  <2>2. y \in S /\ Cardinality(upto(y)) = k
    BY <1>6, <2>1
  <2>3. rank[x] = rank[y]
    BY <2>2
  <2> QED
    BY <1>4, <2>2, <2>3 DEF Injection, IsInjective
<1>8. Lists(f, n, S)
  <2>1. f \in [1..n -> S]
    BY <1>6
  <2>2. ASSUME NEW i \in 1..n, NEW j \in 1..n, i < j PROVE f[i] < f[j]
    <3>1. f[i] \in S /\ f[j] \in S /\ Cardinality(upto(f[i])) = i /\ Cardinality(upto(f[j])) = j
      BY <1>6
    <3>2. f[i] # f[j]
      BY <2>2, <3>1
    <3>3. f[j] < f[i] => j < i
      BY <1>3, <3>1
    <3>4. f[i] \in Int /\ f[j] \in Int
      BY <3>1
    <3> HIDE DEF f
    <3> QED
      BY <2>2, <3>2, <3>3, <3>4
  <2>3. ASSUME NEW x \in S PROVE \E i \in 1..n : f[i] = x
    BY <1>2, <1>7
  <2> QED
    BY <2>1, <2>2, <2>3 DEF Lists
<1> QED
  BY <1>1, <1>2, <1>7, <1>8

\* What is picked along a listing.
LEMMA PickedIs ==
    ASSUME NEW n \in Nat, NEW S \in SUBSET Int, NEW f, Lists(f, n, S), NEW s
    PROVE  Picked(s, S) = [k \in 1..n |-> s[f[k]]]
<1>1. Cardinality(S) = n /\ \A k \in 1..n : Nth(S, k) = f[k]
  BY NthIs
<1> QED
  BY <1>1 DEF Picked

\* Picking keeps the type.
LEMMA PickedType ==
    ASSUME NEW A, NEW s \in Seq(A), NEW S \in SUBSET DOMAIN s
    PROVE  Picked(s, S) \in Seq(A) /\ Len(Picked(s, S)) = Cardinality(S)
<1>1. DOMAIN s = 1..Len(s) /\ Len(s) \in Nat /\ \A i \in 1..Len(s) : s[i] \in A
  BY LenProperties
<1>2. IsFiniteSet(DOMAIN s)
  BY <1>1, FS_Interval
<1>3. IsFiniteSet(S)
  BY <1>2, FS_Subset
<1>4. S \in SUBSET Int
  BY <1>1
<1> DEFINE n == Cardinality(S)
<1>5. n \in Nat /\ Lists([k \in 1..n |-> Nth(S, k)], n, S)
  BY <1>3, <1>4, NthLists
<1>6. \A k \in 1..n : Nth(S, k) \in S
  BY <1>5 DEF Lists
<1>7. Picked(s, S) = [k \in 1..n |-> s[Nth(S, k)]]
  BY DEF Picked
<1> HIDE DEF n
<1>8. \A k \in 1..n : s[Nth(S, k)] \in A
  BY <1>1, <1>6
<1>9. [k \in 1..n |-> s[Nth(S, k)]] \in Seq(A)
  BY <1>5, <1>8
<1> QED
  BY <1>5, <1>7, <1>9 DEF n

-----------------------------------------------------------------------------
(* Texts and their bytes. *)

Starts(b) == {i \in DOMAIN b : b[i] # Trail}

\* A character begins at each byte that is no second byte.
LEMMA StartsListed ==
    ASSUME NEW b \in Seq(Byte)
    PROVE  /\ Len(b) \in Nat /\ DOMAIN b = 1..Len(b) /\ \A i \in 1..Len(b) : b[i] \in Byte
           /\ IsFiniteSet(Starts(b)) /\ Starts(b) \in SUBSET (1..Len(b))
           /\ \E n \in Nat : \E f : Lists(f, n, Starts(b))
<1>1. DOMAIN b = 1..Len(b) /\ Len(b) \in Nat /\ \A i \in 1..Len(b) : b[i] \in Byte
  BY LenProperties
<1>2. Starts(b) \in SUBSET (1..Len(b))
  BY <1>1 DEF Starts
<1>3. IsFiniteSet(1..Len(b))
  BY <1>1, FS_Interval
<1>4. IsFiniteSet(Starts(b))
  BY <1>2, <1>3, FS_Subset
<1>5. Starts(b) \in SUBSET Int
  BY <1>1, <1>2
<1> QED
  BY <1>1, <1>2, <1>4, <1>5, NthLists

\* A text is read off along the starts of its characters.
LEMMA DecodeIs ==
    ASSUME NEW b \in Seq(Byte), NEW n \in Nat, NEW f, Lists(f, n, Starts(b))
    PROVE  /\ Decode(b) = [k \in 1..n |-> b[f[k]]]
           /\ Decode(b) \in Seq(Byte \ {Trail}) /\ Len(Decode(b)) = n
<1>1. DOMAIN b = 1..Len(b) /\ Len(b) \in Nat /\ \A i \in 1..Len(b) : b[i] \in Byte
  BY LenProperties
<1>2. Starts(b) \in SUBSET Int
  BY <1>1 DEF Starts
<1>3. Decode(b) = [k \in 1..n |-> b[f[k]]]
  <2>1. Decode(b) = Picked(b, Starts(b))
    BY DEF Decode, Starts
  <2> QED
    BY <1>2, <2>1, PickedIs
<1>4. \A k \in 1..n : b[f[k]] \in Byte \ {Trail}
  BY <1>1 DEF Lists, Starts
<1>5. [k \in 1..n |-> b[f[k]]] \in Seq(Byte \ {Trail})
  BY <1>4
<1> QED
  BY <1>3, <1>5

\* A text that was decoded is encoded as it was.
LEMMA EncodeDecode ==
    ASSUME NEW b \in Seq(Byte), Decodable(b)
    PROVE  Encode(Decode(b)) = b /\ Bytelen(Decode(b)) = Len(b)
<1>1. /\ Len(b) \in Nat /\ DOMAIN b = 1..Len(b) /\ \A i \in 1..Len(b) : b[i] \in Byte
      /\ IsFiniteSet(Starts(b)) /\ Starts(b) \in SUBSET (1..Len(b))
  BY StartsListed
<1>2. PICK n \in Nat : \E f0 : Lists(f0, n, Starts(b))
  BY StartsListed
<1>3. PICK f : Lists(f, n, Starts(b))
  BY <1>2
<1> DEFINE t == Decode(b)
<1>4. t = [k \in 1..n |-> b[f[k]]] /\ t \in Seq(Byte \ {Trail}) /\ Len(t) = n
  BY <1>3, DecodeIs
<1> HIDE DEF t
<1>5. \A k \in 1..n : f[k] \in 1..Len(b) /\ b[f[k]] # Trail /\ t[k] = b[f[k]]
  BY <1>1, <1>3, <1>4 DEF Lists, Starts
<1>6. \A p \in 1..Len(b) : b[p] = Lead => p + 1 \in 1..Len(b) /\ b[p + 1] = Trail
  <2> SUFFICES ASSUME NEW p \in 1..Len(b), b[p] = Lead PROVE p + 1 \in 1..Len(b) /\ b[p + 1] = Trail
    OBVIOUS
  <2>1. p < Len(b) /\ b[p + 1] = Trail
    BY <1>1 DEF Decodable
  <2> QED
    BY <1>1, <2>1
<1>7. \A p \in 1..Len(b) : b[p] = Trail => p - 1 \in 1..Len(b) /\ b[p - 1] = Lead
  <2> SUFFICES ASSUME NEW p \in 1..Len(b), b[p] = Trail PROVE p - 1 \in 1..Len(b) /\ b[p - 1] = Lead
    OBVIOUS
  <2>1. p > 1 /\ b[p - 1] = Lead
    BY <1>1 DEF Decodable
  <2> QED
    BY <1>1, <2>1
<1> DEFINE r == [p \in Starts(b) |-> CHOOSE k \in 1..n : f[k] = p]
<1>8. \A p \in Starts(b) : r[p] \in 1..n /\ f[r[p]] = p
  BY <1>3 DEF Lists
<1>9. \A k \in 1..n : r[f[k]] = k
  <2> SUFFICES ASSUME NEW k \in 1..n PROVE r[f[k]] = k
    OBVIOUS
  <2>1. f[k] \in Starts(b)
    BY <1>3 DEF Lists
  <2>2. r[f[k]] \in 1..n /\ f[r[f[k]]] = f[k] /\ f[k] \in Int
    BY <1>1, <1>8, <2>1
  <2>3. ~ (r[f[k]] < k) /\ ~ (k < r[f[k]])
    BY <1>3, <2>2 DEF Lists
  <2> HIDE DEF r
  <2> QED
    BY <2>2, <2>3
<1>10. \A p, q \in Starts(b) : p < q => r[p] < r[q]
  <2> SUFFICES ASSUME NEW p \in Starts(b), NEW q \in Starts(b), p < q PROVE r[p] < r[q]
    OBVIOUS
  <2>1. r[p] \in 1..n /\ r[q] \in 1..n /\ f[r[p]] = p /\ f[r[q]] = q
    BY <1>8
  <2>2. p \in Int /\ q \in Int
    BY <1>1
  <2> HIDE DEF r
  <2>3. r[p] # r[q]
    BY <2>1, <2>2
  <2>4. ~ (r[q] < r[p])
    BY <1>3, <2>1, <2>2 DEF Lists
  <2> QED
    BY <2>1, <2>3, <2>4
<1> HIDE DEF r
<1>11. \A p \in 1..Len(b) : IF b[p] # Trail THEN p \in Starts(b)
                            ELSE p - 1 \in Starts(b) /\ b[p - 1] = Lead /\ p - 1 < p
  BY <1>1, <1>7, IoAssumption DEF Starts
<1> DEFINE g == [p \in 1..Len(b) |-> IF b[p] # Trail THEN 2 * r[p] - 1 ELSE 2 * r[p - 1]]
<1>12. \A p \in 1..Len(b) : g[p] \in Slots(t) /\ Spread(t)[g[p]] = b[p]
  <2> SUFFICES ASSUME NEW p \in 1..Len(b) PROVE g[p] \in Slots(t) /\ Spread(t)[g[p]] = b[p]
    OBVIOUS
  <2>1. CASE b[p] # Trail
    <3>1. r[p] \in 1..n /\ f[r[p]] = p /\ t[r[p]] = b[p]
      BY <1>5, <1>8, <1>11, <2>1
    <3>2. g[p] = 2 * r[p] - 1
      BY <2>1
    <3>3. g[p] \in 1..(2 * n) /\ g[p] % 2 = 1 /\ (g[p] + 1) \div 2 = r[p]
      BY <3>1, <3>2
    <3> HIDE DEF g
    <3> QED
      BY <1>4, <3>1, <3>3 DEF Slots, Spread
  <2>2. CASE b[p] = Trail
    <3>1. r[p - 1] \in 1..n /\ t[r[p - 1]] = Lead
      BY <1>5, <1>8, <1>11, <2>2
    <3>2. g[p] = 2 * r[p - 1]
      BY <2>2
    <3>3. g[p] \in 1..(2 * n) /\ g[p] % 2 = 0 /\ g[p] \div 2 = r[p - 1]
      BY <3>1, <3>2
    <3> HIDE DEF g
    <3> QED
      BY <1>4, <2>2, <3>1, <3>3 DEF Slots, Spread
  <2> QED
    BY <2>1, <2>2
<1>13. \A p, q \in 1..Len(b) : p < q => g[p] < g[q]
  <2> SUFFICES ASSUME NEW p \in 1..Len(b), NEW q \in 1..Len(b), p < q PROVE g[p] < g[q]
    OBVIOUS
  <2> DEFINE u == IF b[p] # Trail THEN p ELSE p - 1
             v == IF b[q] # Trail THEN q ELSE q - 1
  <2>1. u \in Starts(b) /\ v \in Starts(b) /\ u \in Int /\ v \in Int
    BY <1>1, <1>11
  <2>2. r[u] \in 1..n /\ r[v] \in 1..n
    BY <1>8, <2>1
  <2>3. u < v => r[u] < r[v]
    BY <1>10, <2>1
  <2>4. /\ g[p] = IF b[p] # Trail THEN 2 * r[u] - 1 ELSE 2 * r[u]
        /\ g[q] = IF b[q] # Trail THEN 2 * r[v] - 1 ELSE 2 * r[v]
    OBVIOUS
  <2>5. u < v \/ (u = v /\ b[p] # Trail /\ b[q] = Trail)
    BY <1>1
  <2> HIDE DEF g, u, v
  <2> QED
    BY <2>2, <2>3, <2>4, <2>5
<1>14. \A x \in Slots(t) : \E p \in 1..Len(b) : g[p] = x
  <2> SUFFICES ASSUME NEW x \in Slots(t) PROVE \E p \in 1..Len(b) : g[p] = x
    OBVIOUS
  <2>1. x \in 1..(2 * n) /\ (x % 2 = 1 \/ t[x \div 2] = Lead)
    BY <1>4 DEF Slots
  <2>2. CASE x % 2 = 1
    <3> DEFINE k == (x + 1) \div 2
    <3>1. k \in 1..n /\ 2 * k - 1 = x
      BY <2>1, <2>2
    <3> HIDE DEF k
    <3>2. f[k] \in 1..Len(b) /\ b[f[k]] # Trail /\ r[f[k]] = k
      BY <1>5, <1>9, <3>1
    <3> QED
      BY <3>1, <3>2
  <2>3. CASE x % 2 # 1
    <3> DEFINE k == x \div 2
    <3>1. k \in 1..n /\ 2 * k = x /\ t[k] = Lead
      BY <2>1, <2>3
    <3> HIDE DEF k
    <3>2. f[k] \in 1..Len(b) /\ b[f[k]] = Lead /\ r[f[k]] = k
      BY <1>5, <1>9, <3>1
    <3> DEFINE p == f[k] + 1
    <3>3. p \in 1..Len(b) /\ b[p] = Trail
      BY <1>6, <3>2
    <3>4. p - 1 = f[k]
      BY <1>1, <3>2
    <3> HIDE DEF p
    <3>5. g[p] = 2 * r[f[k]]
      BY <3>3, <3>4
    <3> QED
      BY <3>1, <3>2, <3>3, <3>5
  <2> QED
    BY <2>2, <2>3
<1>15. Lists(g, Len(b), Slots(t))
  BY <1>12, <1>13, <1>14 DEF Lists
<1>16. Slots(t) \in SUBSET Int
  BY <1>4 DEF Slots
<1>17. Encode(t) = b
  <2> HIDE DEF g
  <2>1. Encode(t) = [p \in 1..Len(b) |-> Spread(t)[g[p]]]
    BY <1>1, <1>15, <1>16, PickedIs DEF Encode
  <2>2. Encode(t) = [p \in 1..Len(b) |-> b[p]]
    BY <1>12, <2>1
  <2> QED
    BY <1>1, <2>2
<1>18. Bytelen(t) = Len(b)
  <2> DEFINE Trails == (1..Len(b)) \ Starts(b)
             Leads == {k \in DOMAIN t : t[k] = Lead}
             h == [k \in Leads |-> f[k] + 1]
  <2>1. DOMAIN t = 1..n
    BY <1>4
  <2>2. h \in [Leads -> Trails]
    BY <1>1, <1>5, <1>6, <2>1 DEF Starts
  <2>3. \A x \in Trails : \E k \in Leads : h[k] = x
    <3> SUFFICES ASSUME NEW x \in Trails PROVE \E k \in Leads : h[k] = x
      OBVIOUS
    <3>1. x \in 1..Len(b) /\ b[x] = Trail
      BY <1>1 DEF Starts
    <3>2. x - 1 \in Starts(b) /\ b[x - 1] = Lead
      BY <1>11, <3>1
    <3>3. r[x - 1] \in 1..n /\ f[r[x - 1]] = x - 1
      BY <1>8, <3>2
    <3>4. t[r[x - 1]] = Lead
      BY <1>5, <3>2, <3>3
    <3> QED
      BY <2>1, <3>1, <3>3, <3>4
  <2>4. \A k, m \in Leads : k # m => h[k] # h[m]
    <3> SUFFICES ASSUME NEW k \in Leads, NEW m \in Leads, h[k] = h[m] PROVE k = m
      OBVIOUS
    <3>1. f[k] \in 1..Len(b) /\ f[m] \in 1..Len(b) /\ r[f[k]] = k /\ r[f[m]] = m
      BY <1>5, <1>9, <2>1
    <3>2. f[k] + 1 = f[m] + 1
      OBVIOUS
    <3> QED
      BY <3>1, <3>2
  <2>5. h \in Bijection(Leads, Trails)
    BY <2>2, <2>3, <2>4 DEF Bijection, Injection, Surjection, IsInjective
  <2>6. IsFiniteSet(Leads)
    <3>1. IsFiniteSet(1..n) /\ Leads \in SUBSET (1..n)
      BY <2>1, FS_Interval
    <3> QED
      BY <3>1, FS_Subset
  <2> HIDE DEF h, Trails, Leads
  <2>7. Cardinality(Trails) = Cardinality(Leads)
    BY <2>5, <2>6, FS_Bijection DEF ExistsBijection
  <2> DEFINE All == 1..Len(b)
  <2>8. IsFiniteSet(All) /\ Cardinality(All) = Len(b)
    BY <1>1, FS_Interval
  <2>9. All \cap Starts(b) = Starts(b) /\ Trails = All \ Starts(b)
    BY <1>1 DEF Trails
  <2> HIDE DEF All
  <2>12. Cardinality(Trails) = Len(b) - Cardinality(Starts(b))
    <3>1. Cardinality(All \ Starts(b)) = Cardinality(All) - Cardinality(All \cap Starts(b))
      BY <2>8, FS_Difference
    <3> QED
      BY <2>8, <2>9, <3>1
  <2>13. Cardinality(Leads) \in Nat
    BY <2>6, FS_CardinalityType
  <2>10. Cardinality(Starts(b)) = n
    <3>1. Starts(b) \in SUBSET Int
      BY <1>1
    <3> QED
      BY <1>3, <3>1, NthIs
  <2>11. Bytelen(t) = n + Cardinality(Leads)
    BY <1>4 DEF Bytelen, Leads
  <2> QED
    BY <1>1, <2>7, <2>10, <2>11, <2>12, <2>13
<1> QED
  BY <1>17, <1>18 DEF t

\* A part of a sequence.
LEMMA PartIs ==
    ASSUME NEW A, NEW s \in Seq(A), NEW m \in 0..Len(s), NEW n \in 0..Len(s), m <= n
    PROVE  /\ SubSeq(s, m + 1, n) \in Seq(A) /\ Len(SubSeq(s, m + 1, n)) = n - m
           /\ \A x \in 1..(n - m) : SubSeq(s, m + 1, n)[x] = s[m + x]
<1> DEFINE p == m + 1
<1>1. Len(s) \in Nat /\ p \in Int /\ n \in Int /\ \A i \in 1..Len(s) : s[i] \in A
  BY LenProperties
<1>2. \A i \in p..n : s[i] \in A
  BY <1>1
<1> HIDE DEF p
<1>3. /\ SubSeq(s, p, n) \in Seq(A)
      /\ Len(SubSeq(s, p, n)) = IF p <= n THEN n - p + 1 ELSE 0
      /\ \A i \in 1..(n - p + 1) : SubSeq(s, p, n)[i] = s[p + i - 1]
  BY <1>1, <1>2, SubSeqProperties
<1>4. n - p + 1 = n - m /\ \A x \in 1..(n - m) : p + x - 1 = m + x
  BY DEF p
<1>5. Len(SubSeq(s, p, n)) = n - m
  BY <1>3, <1>1 DEF p
<1>6. \A x \in 1..(n - m) : SubSeq(s, p, n)[x] = s[m + x]
  BY <1>3, <1>4
<1> QED
  BY <1>3, <1>5, <1>6 DEF p

\* A part of a text is encoded as a part of its bytes, which begins and ends where
\* the characters before and in it do.
LEMMA PartsOf ==
    ASSUME NEW b \in Seq(Byte), Decodable(b)
    PROVE  \E e \in [0..Len(Decode(b)) -> 0..Len(b)] :
             /\ e[0] = 0
             /\ \A i, j \in 0..Len(Decode(b)) : i <= j =>
                  /\ e[i] <= e[j]
                  /\ Encode(SubSeq(Decode(b), i + 1, j)) = SubSeq(b, e[i] + 1, e[j])
                  /\ Bytelen(SubSeq(Decode(b), i + 1, j)) = e[j] - e[i]
<1>1. /\ Len(b) \in Nat /\ DOMAIN b = 1..Len(b) /\ \A i \in 1..Len(b) : b[i] \in Byte
      /\ Starts(b) \in SUBSET (1..Len(b))
  BY StartsListed
<1>2. PICK n \in Nat : \E f0 : Lists(f0, n, Starts(b))
  BY StartsListed
<1>3. PICK f : Lists(f, n, Starts(b))
  BY <1>2
<1> DEFINE t == Decode(b)
           e == [i \in 0..n |-> IF i < n THEN f[i + 1] - 1 ELSE Len(b)]
<1>4. t = [k \in 1..n |-> b[f[k]]] /\ t \in Seq(Byte \ {Trail}) /\ Len(t) = n
  BY <1>3, DecodeIs
<1> HIDE DEF t
<1>5. \A k \in 1..n : f[k] \in 1..Len(b) /\ b[f[k]] # Trail /\ t[k] = b[f[k]]
  BY <1>1, <1>3, <1>4 DEF Lists, Starts
<1>6. \A p \in 1..Len(b) : b[p] # Trail => \E k \in 1..n : f[k] = p
  BY <1>1, <1>3 DEF Lists, Starts
<1>7. \A i, j \in 1..n : i < j => f[i] < f[j]
  BY <1>3 DEF Lists
<1>8. e \in [0..n -> 0..Len(b)]
  <2> SUFFICES ASSUME NEW i \in 0..n PROVE (IF i < n THEN f[i + 1] - 1 ELSE Len(b)) \in 0..Len(b)
    OBVIOUS
  <2>1. i < n => i + 1 \in 1..n
    OBVIOUS
  <2> QED
    BY <1>1, <1>5, <2>1
<1>9. e[0] = 0
  <2>1. CASE Len(b) = 0
    <3>1. 1 \notin 1..n
      BY <1>5, <2>1
    <3> QED
      BY <2>1, <3>1
  <2>2. CASE Len(b) # 0
    <3>1. 1 \in 1..Len(b) /\ 1 \in DOMAIN b
      BY <1>1, <2>2
    <3>2. b[1] # Trail
      BY <3>1 DEF Decodable
    <3>3. PICK k \in 1..n : f[k] = 1
      BY <1>6, <3>1, <3>2
    <3>4. 1 \in 1..n /\ f[1] \in 1..Len(b)
      BY <1>5, <3>3
    <3>5. ~ (1 < k)
      BY <1>7, <3>3, <3>4
    <3>6. f[1] = 1 /\ 0 < n
      BY <3>3, <3>5
    <3> QED
      BY <3>6
  <2> QED
    BY <2>1, <2>2
\* What lies before and after an edge.
<1>10. ASSUME NEW i \in 0..n, NEW k \in 1..n
       PROVE  IF k <= i THEN f[k] <= e[i] ELSE e[i] < f[k]
  <2>1. f[k] \in 1..Len(b)
    BY <1>5
  <2>2. CASE i < n
    <3> DEFINE m == i + 1
    <3>1. m \in 1..n /\ e[i] = f[m] - 1
      BY <2>2
    <3>2. f[m] \in 1..Len(b) /\ (k < m => f[k] < f[m]) /\ (m < k => f[m] < f[k])
      BY <1>5, <1>7, <3>1
    <3>3. IF k <= i THEN k < m ELSE k = m \/ m < k
      OBVIOUS
    <3> HIDE DEF e, m
    <3> QED
      BY <2>1, <3>1, <3>2, <3>3
  <2>3. CASE ~ (i < n)
    <3>1. e[i] = Len(b) /\ k <= i
      BY <2>3
    <3> QED
      BY <2>1, <3>1
  <2> QED
    BY <2>2, <2>3
<1>11. ASSUME NEW i \in 0..n, e[i] + 1 \in 1..Len(b)
       PROVE  b[e[i] + 1] # Trail
  <2>1. i < n
    BY <1>1, <1>11
  <2> DEFINE m == i + 1
  <2>2. m \in 1..n /\ e[i] = f[m] - 1
    BY <2>1
  <2>3. f[m] \in 1..Len(b) /\ b[f[m]] # Trail
    BY <1>5, <2>2
  <2>4. e[i] + 1 = f[m]
    BY <2>2, <2>3
  <2> QED
    BY <2>3, <2>4
<1>12. \A i \in 0..n : e[i] \in 0..Len(b)
  BY <1>8
<1> HIDE DEF e
<1>13. ASSUME NEW i \in 0..n, NEW j \in 0..n, i <= j
       PROVE  e[i] <= e[j]
  <2>1. CASE i = j
    BY <1>12, <2>1
  <2>2. CASE i # j
    <3>1. j \in 1..n /\ ~ (j <= i)
      BY <1>13, <2>2
    <3>2. e[i] < f[j] /\ f[j] <= e[j] /\ f[j] \in 1..Len(b)
      BY <1>5, <1>10, <3>1
    <3> QED
      BY <1>12, <3>2
  <2> QED
    BY <2>1, <2>2
<1>14. ASSUME NEW i \in 0..n, NEW j \in 0..n, i <= j
       PROVE  /\ Encode(SubSeq(t, i + 1, j)) = SubSeq(b, e[i] + 1, e[j])
              /\ Bytelen(SubSeq(t, i + 1, j)) = e[j] - e[i]
  <2> DEFINE c == SubSeq(b, e[i] + 1, e[j])
             m == e[j] - e[i]
             u == SubSeq(t, i + 1, j)
             w == j - i
  <2>1. e[i] \in 0..Len(b) /\ e[j] \in 0..Len(b) /\ e[i] <= e[j] /\ m \in Nat /\ w \in Nat
    BY <1>12, <1>13, <1>14
  <2>2. c \in Seq(Byte) /\ Len(c) = m /\ \A x \in 1..m : c[x] = b[e[i] + x]
    BY <2>1, PartIs
  <2>3. u \in Seq(Byte \ {Trail}) /\ Len(u) = w /\ \A k \in 1..w : u[k] = t[i + k]
    BY <1>4, <1>14
  <2>4. \A x \in 1..m : e[i] + x \in 1..Len(b) /\ e[i] + x <= e[j]
    BY <1>1, <2>1
  <2> HIDE DEF c, m, u, w
  <2>5. DOMAIN c = 1..m
    BY <2>2
  <2>6. Decodable(c)
    <3> SUFFICES ASSUME NEW x \in 1..m
                 PROVE  /\ c[x] = Lead => x < m /\ c[x + 1] = Trail
                        /\ c[x] = Trail => x > 1 /\ c[x - 1] = Lead
      BY <2>2, <2>5 DEF Decodable
    <3> DEFINE p == e[i] + x
    <3>1. p \in 1..Len(b) /\ p <= e[j] /\ c[x] = b[p] /\ p \in DOMAIN b
      BY <1>1, <2>2, <2>4
    <3>2. ASSUME c[x] = Lead PROVE x < m /\ c[x + 1] = Trail
      <4>1. p < Len(b) /\ b[p + 1] = Trail
        BY <1>1, <3>1, <3>2 DEF Decodable
      <4>2. p # e[j]
        BY <1>1, <1>11, <3>1, <4>1
      <4>3. x + 1 \in 1..m
        BY <2>1, <3>1, <4>2 DEF m
      <4>4. c[x + 1] = b[e[i] + (x + 1)] /\ e[i] + (x + 1) = p + 1
        BY <2>1, <2>2, <4>3
      <4> HIDE DEF p
      <4> QED
        BY <2>1, <4>1, <4>3, <4>4
    <3>3. ASSUME c[x] = Trail PROVE x > 1 /\ c[x - 1] = Lead
      <4>1. p > 1 /\ b[p - 1] = Lead
        BY <1>1, <3>1, <3>3 DEF Decodable
      <4>2. x # 1
        BY <1>11, <3>1, <3>3
      <4>3. x - 1 \in 1..m
        BY <2>1, <4>2
      <4>4. c[x - 1] = b[e[i] + (x - 1)] /\ e[i] + (x - 1) = p - 1
        BY <2>1, <2>2, <4>3
      <4> HIDE DEF p
      <4> QED
        BY <2>1, <4>1, <4>3, <4>4
    <3> QED
      BY <3>2, <3>3
  <2> DEFINE h == [k \in 1..w |-> f[i + k] - e[i]]
  <2>7. \A k \in 1..w : /\ i + k \in 1..n /\ h[k] = f[i + k] - e[i]
                        /\ h[k] \in 1..m /\ e[i] + h[k] = f[i + k]
    <3> SUFFICES ASSUME NEW k \in 1..w
                 PROVE  /\ i + k \in 1..n /\ h[k] \in 1..m /\ e[i] + h[k] = f[i + k]
      OBVIOUS
    <3>1. i + k \in 1..n /\ i + k <= j /\ ~ (i + k <= i)
      BY <1>14 DEF w
    <3>2. e[i] < f[i + k] /\ f[i + k] <= e[j] /\ f[i + k] \in 1..Len(b)
      BY <1>5, <1>10, <3>1
    <3> QED
      BY <2>1, <3>1, <3>2 DEF m
  <2>8. Lists(h, w, Starts(c))
    <3>1. h \in [1..w -> Starts(c)]
      <4> SUFFICES ASSUME NEW k \in 1..w PROVE h[k] \in Starts(c)
        OBVIOUS
      <4>1. h[k] \in 1..m /\ c[h[k]] = b[f[i + k]]
        BY <2>2, <2>7
      <4>3. h[k] \in DOMAIN c
        BY <2>5, <4>1
      <4>2. b[f[i + k]] # Trail
        BY <1>5, <2>7
      <4> HIDE DEF h
      <4> QED
        BY <4>1, <4>2, <4>3 DEF Starts
    <3>2. ASSUME NEW k \in 1..w, NEW l \in 1..w, k < l PROVE h[k] < h[l]
      <4>1. i + k \in 1..n /\ i + l \in 1..n /\ i + k < i + l
        <5>1. i + k \in 1..n /\ i + l \in 1..n
          BY <2>7
        <5>2. i \in Int /\ k \in Int /\ l \in Int
          OBVIOUS
        <5> QED
          BY <3>2, <5>1, <5>2
      <4>2. f[i + k] < f[i + l] /\ f[i + k] \in 1..Len(b) /\ f[i + l] \in 1..Len(b)
        BY <1>5, <1>7, <4>1
      <4> QED
        BY <2>1, <2>7, <4>2
    <3>3. ASSUME NEW x \in Starts(c) PROVE \E k \in 1..w : h[k] = x
      <4>1. x \in 1..m /\ c[x] # Trail
        BY <2>5 DEF Starts
      <4>2. e[i] + x \in 1..Len(b) /\ e[i] + x <= e[j] /\ b[e[i] + x] # Trail
        BY <2>2, <2>4, <4>1
      <4>3. PICK q \in 1..n : f[q] = e[i] + x
        BY <1>6, <4>2
      <4>4. ~ (q <= i) /\ q <= j
        BY <1>10, <2>1, <4>1, <4>2, <4>3
      <4> DEFINE k == q - i
      <4>5. k \in 1..w /\ i + k = q
        BY <1>14, <4>4 DEF w
      <4>6. h[k] = f[q] - e[i]
        BY <4>5
      <4>7. h[k] = x
        BY <2>1, <4>1, <4>3, <4>6
      <4> QED
        BY <4>5, <4>7
    <3> QED
      BY <3>1, <3>2, <3>3 DEF Lists
  <2>9. Decode(c) = u
    <3> HIDE DEF h
    <3>1. Decode(c) = [k \in 1..w |-> c[h[k]]] /\ Decode(c) \in Seq(Byte \ {Trail})
          /\ Len(Decode(c)) = w
      BY <2>1, <2>2, <2>8, DecodeIs
    <3>2. \A k \in 1..w : Decode(c)[k] = u[k]
      <4> SUFFICES ASSUME NEW k \in 1..w PROVE c[h[k]] = u[k]
        BY <3>1
      <4>1. c[h[k]] = b[f[i + k]]
        BY <2>2, <2>7
      <4>2. u[k] = b[f[i + k]]
        BY <1>5, <2>3, <2>7
      <4> QED
        BY <4>1, <4>2
    <3> QED
      BY <2>3, <3>1, <3>2, SeqEqual
  <2>10. Encode(u) = c /\ Bytelen(u) = m
    BY <2>2, <2>6, <2>9, EncodeDecode
  <2> QED
    BY <2>10 DEF c, m, u
<1>15. e \in [0..n -> 0..Len(b)]
  BY <1>8
<1> QED
  BY <1>4, <1>9, <1>13, <1>14, <1>15 DEF t

\* The bytes of a text.
LEMMA EncodeType ==
    ASSUME NEW t \in Seq(Byte)
    PROVE  Encode(t) \in Seq(Byte)
<1>1. Len(t) \in Nat /\ DOMAIN t = 1..Len(t) /\ \A i \in 1..Len(t) : t[i] \in Byte
  BY LenProperties
<1> DEFINE n == 2 * Len(t)
<1>2. n \in Nat
  BY <1>1
<1>3. \A i \in 1..n : i % 2 = 1 => (i + 1) \div 2 \in 1..Len(t)
  BY <1>1
<1>4. Spread(t) \in [1..n -> Byte]
  BY <1>1, <1>3, IoAssumption DEF Spread
<1> HIDE DEF n
<1>5. Spread(t) \in Seq(Byte) /\ DOMAIN Spread(t) = 1..n
  BY <1>2, <1>4
<1>6. Slots(t) \in SUBSET (1..n)
  BY DEF Slots, n
<1> QED
  BY <1>5, <1>6, PickedType DEF Encode

\* A text has no second bytes; with or without translation.
LEMMA TextOfType ==
    ASSUME NEW b \in Seq(Byte), NEW newline
    PROVE  TextOf(b, newline) \in Seq(Byte \ {Trail})
<1> DEFINE t == Decode(b)
           kept == {i \in DOMAIN t : ~ (t[i] = LF /\ i > 1 /\ t[i - 1] = CR)}
           s == [i \in DOMAIN t |-> IF t[i] = CR THEN LF ELSE t[i]]
<1>1. t \in Seq(Byte \ {Trail})
  BY StartsListed, DecodeIs
<1> HIDE DEF t
<1>2. Len(t) \in Nat /\ DOMAIN t = 1..Len(t) /\ \A i \in 1..Len(t) : t[i] \in Byte \ {Trail}
  BY <1>1, LenProperties
<1>3. s \in Seq(Byte \ {Trail}) /\ DOMAIN s = DOMAIN t
  <2>1. LF \in Byte \ {Trail}
    BY IoAssumption
  <2> QED
    BY <1>2, <2>1
<1>4. kept \in SUBSET DOMAIN s
  BY <1>3
<1>5. Translate(t) = Picked(s, kept)
  BY DEF Translate
<1> HIDE DEF s, kept
<1>6. Translate(t) \in Seq(Byte \ {Trail})
  BY <1>3, <1>4, <1>5, PickedType
<1> QED
  BY <1>1, <1>6 DEF TextOf, t

-----------------------------------------------------------------------------
(* Nodes. *)

NodeType == [isDir : BOOLEAN, data : Seq(Byte), size : Nat]
IsNode(n) == n \in NodeType /\ n.size <= Len(n.data)

\* The bytes of a file.
Within(n) == SubSeq(n.data, 1, n.size)
FileBytes(n) == [dir |-> n.isDir, bytes |-> Within(n)]

\* What a node holds of its file is its size in bytes, and they are bytes.
LEMMA WithinIs ==
    ASSUME NEW n, IsNode(n)
    PROVE  /\ n.size \in Nat /\ Len(n.data) \in Nat
           /\ \A i \in 1..Len(n.data) : n.data[i] \in Byte
           /\ Within(n) \in Seq(Byte) /\ Len(Within(n)) = n.size
           /\ \A i \in 1..n.size : Within(n)[i] = n.data[i]
<1>1. n.data \in Seq(Byte) /\ n.size \in Nat /\ n.size <= Len(n.data)
  BY DEF IsNode, NodeType
<1>2. Len(n.data) \in Nat /\ \A i \in 1..Len(n.data) : n.data[i] \in Byte
  BY <1>1, LenProperties
<1> DEFINE s == n.data
           k == n.size
<1>3. s \in Seq(Byte) /\ k \in 0..Len(s) /\ 0 \in 0..Len(s) /\ 0 <= k
  BY <1>1, <1>2
<1> HIDE DEF s, k
<1>4. /\ SubSeq(s, 0 + 1, k) \in Seq(Byte) /\ Len(SubSeq(s, 0 + 1, k)) = k - 0
      /\ \A x \in 1..(k - 0) : SubSeq(s, 0 + 1, k)[x] = s[0 + x]
  BY <1>3, PartIs
<1>5. k - 0 = k /\ 0 + 1 = 1 /\ \A x \in 1..k : 0 + x = x
  BY <1>3
<1>6. /\ SubSeq(s, 1, k) \in Seq(Byte) /\ Len(SubSeq(s, 1, k)) = k
      /\ \A x \in 1..k : SubSeq(s, 1, k)[x] = s[x]
  BY <1>4, <1>5
<1> QED
  BY <1>1, <1>2, <1>6 DEF Within, s, k

\* A larger array has the same file in it.
LEMMA EnsureIs ==
    ASSUME NEW n, IsNode(n), NEW need \in Nat
    PROVE  LET g == EnsureCap(n, need) IN
           /\ IsNode(g) /\ g.isDir = n.isDir /\ g.size = n.size /\ need <= Len(g.data)
           /\ DOMAIN g.data = 1..Len(g.data) /\ Len(g.data) \in Nat
           /\ \A i \in 1..Len(g.data) : g.data[i] \in Byte
           /\ \A i \in 1..n.size : g.data[i] = n.data[i]
<1> DEFINE g == EnsureCap(n, need)
<1>1. n \in NodeType /\ n.size \in Nat /\ Len(n.data) \in Nat /\ n.size <= Len(n.data)
      /\ DOMAIN n.data = 1..Len(n.data) /\ \A i \in 1..Len(n.data) : n.data[i] \in Byte
  BY WithinIs, LenProperties DEF IsNode, NodeType
<1>2. CASE need <= Len(n.data)
  <2>1. g = n
    BY <1>2 DEF EnsureCap
  <2> HIDE DEF g
  <2> QED
    BY <1>1, <1>2, <2>1 DEF g, IsNode
<1>3. CASE ~ (need <= Len(n.data))
  <2> DEFINE c == Capacity(n, need)
             a == [i \in 1..c |-> IF i <= n.size THEN n.data[i] ELSE Zero]
  <2>1. c \in Nat /\ need <= c
    BY <1>1, MemFsAssumption DEF Capacity, Larger
  <2> HIDE DEF c
  <2>2. \A i \in 1..c : (IF i <= n.size THEN n.data[i] ELSE Zero) \in Byte
    BY <1>1, MemFsAssumption
  <2>3. a \in Seq(Byte) /\ Len(a) = c /\ DOMAIN a = 1..c
        /\ \A i \in 1..n.size : a[i] = n.data[i]
    BY <1>1, <1>3, <2>1, <2>2
  <2>4. g = [n EXCEPT !.data = a]
    BY <1>3 DEF EnsureCap, c
  <2> HIDE DEF a, g
  <2>5. g \in NodeType /\ g.data = a /\ g.size = n.size /\ g.isDir = n.isDir
    BY <1>1, <2>3, <2>4 DEF NodeType
  <2>6. \A i \in 1..Len(a) : a[i] \in Byte
    BY <2>3, LenProperties
  <2> QED
    BY <1>1, <1>3, <2>1, <2>3, <2>5, <2>6 DEF IsNode, g
<1> QED
  BY <1>2, <1>3

\* A write within a file changes the bytes it is asked to change.
LEMMA PutIs ==
    ASSUME NEW n, IsNode(n), NEW at \in Nat, NEW u \in Seq(Byte)
    PROVE  LET m == Put(n, at, u) IN
           /\ IsNode(m) /\ m.isDir = n.isDir /\ m.size = Larger(n.size, at + Len(u))
           /\ \A i \in 1..n.size : i <= at => m.data[i] = n.data[i]
           /\ at <= n.size => Within(m) = Contract!Overwritten(Within(n), at, u)
<1> DEFINE g == EnsureCap(n, at + Len(u))
           a == [i \in DOMAIN g.data |-> IF i \in (at + 1)..(at + Len(u)) THEN u[i - at]
                                         ELSE g.data[i]]
           z == Larger(n.size, at + Len(u))
           m == Put(n, at, u)
<1>1. n.size \in Nat /\ Len(u) \in Nat /\ \A i \in 1..Len(u) : u[i] \in Byte
  BY WithinIs, LenProperties
<1>2. /\ IsNode(g) /\ g.isDir = n.isDir /\ g.size = n.size /\ at + Len(u) <= Len(g.data)
      /\ DOMAIN g.data = 1..Len(g.data) /\ Len(g.data) \in Nat
      /\ \A i \in 1..Len(g.data) : g.data[i] \in Byte
      /\ \A i \in 1..n.size : g.data[i] = n.data[i]
  BY <1>1, EnsureIs
<1>3. m = [g EXCEPT !.data = a, !.size = z]
  BY <1>2 DEF Put
<1> HIDE DEF g, m
<1>4. g \in NodeType /\ n.size <= Len(g.data)
  BY <1>2 DEF IsNode
<1>5. \A i \in 1..Len(g.data) :
        (IF i \in (at + 1)..(at + Len(u)) THEN u[i - at] ELSE g.data[i]) \in Byte
  BY <1>1, <1>2
<1>6. a \in Seq(Byte) /\ Len(a) = Len(g.data) /\ DOMAIN a = 1..Len(g.data)
  BY <1>2, <1>5
<1>7. z \in Nat /\ z <= Len(a) /\ n.size <= z /\ at + Len(u) <= z
      /\ (z = n.size \/ z = at + Len(u))
  BY <1>1, <1>2, <1>4, <1>6 DEF Larger
<1>8. \A i \in 1..Len(g.data) :
        a[i] = IF i \in (at + 1)..(at + Len(u)) THEN u[i - at] ELSE g.data[i]
  BY <1>2
<1> HIDE DEF a, z
<1>9. m \in NodeType /\ m.data = a /\ m.size = z /\ m.isDir = n.isDir
  BY <1>2, <1>3, <1>4, <1>6, <1>7 DEF NodeType
<1>10. IsNode(m)
  BY <1>7, <1>9 DEF IsNode
<1>11. ASSUME at <= n.size
       PROVE  Within(m) = Contract!Overwritten(Within(n), at, u)
  <2> DEFINE o == Contract!Overwritten(Within(n), at, u)
  <2>1. Len(Within(n)) = n.size /\ \A i \in 1..n.size : Within(n)[i] = n.data[i]
    BY WithinIs
  <2>2. z = IF at + Len(u) > n.size THEN at + Len(u) ELSE n.size
    BY <1>1, <1>7
  <2>3. o = [i \in 1..z |-> IF i \in (at + 1)..(at + Len(u)) THEN u[i - at]
                            ELSE IF i <= n.size THEN Within(n)[i] ELSE Zero]
    BY <2>1, <2>2 DEF Contract!Overwritten
  <2>4. Within(m) \in Seq(Byte) /\ Len(Within(m)) = z /\ \A i \in 1..z : Within(m)[i] = a[i]
    BY <1>9, <1>10, WithinIs
  <2>5. ASSUME NEW i \in 1..z PROVE a[i] = o[i]
    <3>1. i \in 1..Len(g.data) /\ i \in Int
      BY <1>6, <1>7
    <3>2. CASE i \in (at + 1)..(at + Len(u))
      BY <1>8, <2>3, <3>1, <3>2
    <3>3. CASE ~ (i \in (at + 1)..(at + Len(u)))
      <4>1. i <= n.size
        BY <1>1, <1>7, <1>11, <3>1, <3>3
      <4>2. i \in 1..n.size
        BY <4>1
      <4>3. a[i] = n.data[i] /\ Within(n)[i] = n.data[i]
        BY <1>2, <1>8, <2>1, <3>1, <3>3, <4>2
      <4> QED
        BY <2>3, <3>3, <4>1, <4>3
    <3> QED
      BY <3>2, <3>3
  <2>6. Within(m) = [i \in 1..z |-> Within(m)[i]]
    BY <2>4, LenProperties
  <2>7. DOMAIN o = 1..z /\ o = [i \in 1..z |-> o[i]]
    BY <2>3
  <2> HIDE DEF o
  <2>8. [i \in 1..z |-> Within(m)[i]] = [i \in 1..z |-> o[i]]
    BY <2>4, <2>5
  <2> QED
    BY <2>6, <2>7, <2>8 DEF o
<1>12. ASSUME NEW i \in 1..n.size, i <= at PROVE m.data[i] = n.data[i]
  <2>1. i \in 1..Len(g.data) /\ ~ (i \in (at + 1)..(at + Len(u)))
    BY <1>1, <1>4, <1>2, <1>12
  <2> QED
    BY <1>2, <1>8, <1>9, <2>1
<1> QED
  BY <1>9, <1>10, <1>11, <1>12 DEF m, z

\* A file that is resized keeps its bytes, and gets zeros.
LEMMA ResizedIs ==
    ASSUME NEW n, IsNode(n), NEW len \in Nat
    PROVE  LET m == Resized(n, len) IN
           /\ IsNode(m) /\ m.isDir = n.isDir /\ m.size = len
           /\ \A i \in 1..n.size : i <= len => m.data[i] = n.data[i]
           /\ Within(m) = [i \in 1..len |-> IF i <= Len(Within(n)) THEN Within(n)[i] ELSE Zero]
<1> DEFINE g == EnsureCap(n, len)
           a == [i \in DOMAIN g.data |-> IF i \in (n.size + 1)..len THEN Zero ELSE g.data[i]]
           m == Resized(n, len)
<1>1. /\ n.size \in Nat /\ Len(Within(n)) = n.size
      /\ \A i \in 1..n.size : Within(n)[i] = n.data[i]
  BY WithinIs
<1>2. /\ IsNode(g) /\ g.isDir = n.isDir /\ g.size = n.size /\ len <= Len(g.data)
      /\ DOMAIN g.data = 1..Len(g.data) /\ Len(g.data) \in Nat
      /\ \A i \in 1..Len(g.data) : g.data[i] \in Byte
      /\ \A i \in 1..n.size : g.data[i] = n.data[i]
  BY EnsureIs
<1>3. m = [g EXCEPT !.data = a, !.size = len]
  BY DEF Resized
<1> HIDE DEF g, m
<1>4. g \in NodeType
  BY <1>2 DEF IsNode
<1>5. \A i \in 1..Len(g.data) : (IF i \in (n.size + 1)..len THEN Zero ELSE g.data[i]) \in Byte
  BY <1>2, MemFsAssumption
<1>6. a \in Seq(Byte) /\ Len(a) = Len(g.data) /\ DOMAIN a = 1..Len(g.data)
  BY <1>2, <1>5
<1>7. \A i \in 1..Len(g.data) : a[i] = IF i \in (n.size + 1)..len THEN Zero ELSE g.data[i]
  BY <1>2
<1> HIDE DEF a
<1>8. m \in NodeType /\ m.data = a /\ m.size = len /\ m.isDir = n.isDir
  BY <1>2, <1>3, <1>4, <1>6 DEF NodeType
<1>9. IsNode(m)
  BY <1>2, <1>6, <1>8 DEF IsNode
<1>10. Within(m) \in Seq(Byte) /\ Len(Within(m)) = len /\ \A i \in 1..len : Within(m)[i] = a[i]
  BY <1>8, <1>9, WithinIs
<1>11. ASSUME NEW i \in 1..len
       PROVE  a[i] = IF i <= Len(Within(n)) THEN Within(n)[i] ELSE Zero
  <2>1. i \in 1..Len(g.data) /\ i \in Int
    BY <1>2
  <2>2. CASE i <= n.size
    <3>1. i \in 1..n.size /\ ~ (i \in (n.size + 1)..len)
      BY <1>1, <2>2
    <3> QED
      BY <1>1, <1>2, <1>7, <2>1, <2>2, <3>1
  <2>3. CASE ~ (i <= n.size)
    <3>1. i \in (n.size + 1)..len
      BY <1>1, <2>3
    <3> QED
      BY <1>1, <1>7, <2>1, <2>3, <3>1
  <2> QED
    BY <2>2, <2>3
<1>12. Within(m) = [i \in 1..len |-> Within(m)[i]]
  BY <1>10, LenProperties
<1>13. Within(m) = [i \in 1..len |-> IF i <= Len(Within(n)) THEN Within(n)[i] ELSE Zero]
  BY <1>10, <1>11, <1>12
<1>14. ASSUME NEW i \in 1..n.size, i <= len PROVE m.data[i] = n.data[i]
  <2>1. i \in 1..Len(g.data) /\ ~ (i \in (n.size + 1)..len)
    BY <1>1, <1>2, <1>14
  <2> QED
    BY <1>2, <1>7, <1>8, <2>1
<1> QED
  BY <1>8, <1>9, <1>13, <1>14 DEF m

-----------------------------------------------------------------------------
(* The invariant. *)

FdType == [node : Nat, pos : Int, readable : BOOLEAN, append : BOOLEAN]
RawType == [fd : Nat, readable : BOOLEAN, closefd : BOOLEAN, closed : BOOLEAN]
TextType == [raw : Nat, newline : Newlines, cached : BOOLEAN, text : Seq(Byte \ {Trail}),
             pos : Nat, start : Nat, read : Seq(Byte), closed : BOOLEAN]

Nodes ==
    /\ inode \in Seq(NodeType)
    /\ \A i \in 1..Len(inode) : IsNode(inode[i]) /\ inode[i].size <= MaxLen

Files ==
    /\ Nodes
    /\ nodes \in [Paths -> 0..Len(inode)]
    /\ fds \in Seq(FdType)
    /\ \A d \in 1..Len(fds) : fds[d].node <= Len(inode) /\ fds[d].pos \in MinPos..MaxLen
    /\ got \in Seq(Byte)

\* Each wrapper has a raw object, each raw object a descriptor, and wrappers that
\* have read ahead have descriptors of their own.
Table ==
    /\ raws \in Seq(RawType) /\ texts \in Seq(TextType)
    /\ \A o \in 1..Len(raws) : raws[o].fd \in 1..Len(fds)
    /\ \A s \in 1..Len(texts) : /\ texts[s].raw \in 1..Len(raws)
                                /\ texts[s].pos <= Len(texts[s].text)
    /\ \A s, r \in Reading : Fd(s) = Fd(r) => s = r

\* What w read of n up to place p is still there, unless w has handed it out.
Held(w, n, p) ==
    \/ ChangesUnread
    \/ w.pos = Len(w.text)
    \/ w.read = <<>>
    \/ p <= n.size /\ w.read = SubSeq(n.data, w.start + 1, p)

\* Descriptor f is at the end of what w has read of n.
ReadsFrom(w, f, n) ==
    /\ f.pos = w.start + Len(w.read)
    /\ w.text = TextOf(w.read, w.newline) /\ Decodable(w.read)
    /\ Held(w, n, f.pos)

\* The wrappers in S hold what they read of node k after a step.
StillHeld(S, k) ==
    \A s \in S : fds[Fd(s)].node = k => Held(texts[s], inode'[k], fds[Fd(s)].pos)

Caches ==
    \A s \in Reading : /\ fds[Fd(s)].node # 0
                       /\ ReadsFrom(texts[s], fds[Fd(s)], inode[fds[Fd(s)].node])

IoInv == Files /\ Table /\ Caches

\* The objects of the tables.
LEMMA Tables ==
    ASSUME Files, Table
    PROVE  /\ Len(inode) \in Nat /\ Len(fds) \in Nat /\ Len(raws) \in Nat /\ Len(texts) \in Nat
           /\ DOMAIN inode = 1..Len(inode) /\ DOMAIN fds = 1..Len(fds)
           /\ DOMAIN raws = 1..Len(raws) /\ DOMAIN texts = 1..Len(texts)
           /\ \A i \in 1..Len(inode) : inode[i] \in NodeType
           /\ \A d \in 1..Len(fds) : fds[d] \in FdType
           /\ \A o \in 1..Len(raws) : raws[o] \in RawType
           /\ \A s \in 1..Len(texts) : texts[s] \in TextType /\ Fd(s) \in 1..Len(fds)
           /\ Reading \subseteq 1..Len(texts)
<1>1. /\ Len(inode) \in Nat /\ DOMAIN inode = 1..Len(inode)
      /\ \A i \in 1..Len(inode) : inode[i] \in NodeType
  BY LenProperties, ElementOfSeq DEF Files, Nodes
<1>2. /\ Len(fds) \in Nat /\ DOMAIN fds = 1..Len(fds)
      /\ \A d \in 1..Len(fds) : fds[d] \in FdType
  BY LenProperties, ElementOfSeq DEF Files, Nodes
<1>3. /\ Len(raws) \in Nat /\ DOMAIN raws = 1..Len(raws)
      /\ \A o \in 1..Len(raws) : raws[o] \in RawType
  BY LenProperties, ElementOfSeq DEF Table
<1>4. /\ Len(texts) \in Nat /\ DOMAIN texts = 1..Len(texts)
      /\ \A s \in 1..Len(texts) : texts[s] \in TextType
  BY LenProperties, ElementOfSeq DEF Table
<1>5. \A s \in 1..Len(texts) : Fd(s) \in 1..Len(fds)
  BY DEF Table, Fd
<1> QED
  BY <1>1, <1>2, <1>3, <1>4, <1>5 DEF Reading

\* Position is what tell() says of the wrapper that has read ahead, if any.
LEMMA PositionIs ==
    ASSUME Table, NEW d
    PROVE  /\ \A s \in Reading : Fd(s) = d => Position(d) = Tell(s)
           /\ ~ Ahead(d) => Position(d) = fds[d].pos
<1>2. ASSUME NEW s \in Reading, Fd(s) = d PROVE Position(d) = Tell(s)
  <2>1. \A r \in Reading : Fd(r) = d => r = s
    BY <1>2 DEF Table
  <2>2. s = CHOOSE r \in Reading : Fd(r) = d
    BY <1>2, <2>1
  <2>3. Ahead(d)
    BY <1>2 DEF Ahead
  <2> QED
    BY <2>2, <2>3 DEF Position
<1> QED
  BY <1>2 DEF Position

\* After a step too, a position is the place of the wrapper that read ahead,
\* or else the descriptor's.
LEMMA PositionNext ==
    ASSUME Table', NEW d
    PROVE  /\ \A s \in Reading' : Fd(s)' = d => Position(d)' = Tell(s)'
           /\ ~ Ahead(d)' => Position(d)' = fds'[d].pos
<1>2. ASSUME NEW s \in Reading', Fd(s)' = d PROVE Position(d)' = Tell(s)'
  <2>1. \A r \in Reading' : Fd(r)' = d => r = s
    BY <1>2 DEF Table
  <2>2. s = CHOOSE r \in Reading' : Fd(r)' = d
    BY <1>2, <2>1
  <2>3. Ahead(d)'
    BY <1>2 DEF Ahead
  <2> QED
    BY <2>2, <2>3 DEF Position
<1> QED
  BY <1>2 DEF Position

\* A position stays where it is while no wrapper and no call touches it.
LEMMA PositionStays ==
    ASSUME Table, Table', NEW d, fds'[d] = fds[d],
           \A s : s \in Reading' /\ Fd(s)' = d <=> s \in Reading /\ Fd(s) = d,
           \A s \in Reading : Fd(s) = d => texts'[s] = texts[s]
    PROVE  Position(d)' = Position(d)
<1>1. CASE \E s \in Reading : Fd(s) = d
  <2>1. PICK s \in Reading : Fd(s) = d
    BY <1>1
  <2>2. s \in Reading' /\ Fd(s)' = d /\ texts'[s] = texts[s]
    BY <2>1
  <2>3. Position(d) = Tell(s) /\ Position(d)' = Tell(s)'
    BY <2>1, <2>2, PositionIs, PositionNext
  <2>4. texts[s].cached /\ texts'[s].cached
    BY <2>1, <2>2 DEF Reading
  <2> QED
    BY <2>2, <2>3, <2>4 DEF Tell
<1>2. CASE ~ \E s \in Reading : Fd(s) = d
  <2>1. ~ Ahead(d) /\ ~ Ahead(d)'
    BY <1>2 DEF Ahead
  <2> QED
    BY <2>1, PositionIs, PositionNext
<1> QED
  BY <1>1, <1>2

\* The contents, when a node changes and when one is made.
LEMMA ContentsIs ==
    ASSUME Files
    PROVE  /\ DOMAIN Contents = 1..Len(inode) /\ Len(Contents) = Len(inode)
           /\ Len(inode) \in Nat
           /\ \A i \in 1..Len(inode) : Contents[i] = FileBytes(inode[i])
           /\ Contents = [i \in 1..Len(inode) |-> FileBytes(inode[i])]
<1>1. DOMAIN inode = 1..Len(inode) /\ Len(inode) \in Nat
  BY LenProperties DEF Files, Nodes
<1>2. Contents = [i \in 1..Len(inode) |-> FileBytes(inode[i])]
  BY <1>1 DEF Contents, FileBytes, Within
<1>3. Contents \in [1..Len(inode) -> {FileBytes(inode[i]) : i \in 1..Len(inode)}]
  BY <1>2
<1>4. Contents \in Seq({FileBytes(inode[i]) : i \in 1..Len(inode)})
  BY <1>1, <1>3
<1>5. Len(Contents) = Len(inode)
  BY <1>1, <1>2, <1>4
<1> QED
  BY <1>1, <1>2, <1>5

\* A step that changes one node changes one file's contents,
LEMMA ContentsNext ==
    ASSUME Files, NEW k \in 1..Len(inode), NEW m, inode' = [inode EXCEPT ![k] = m]
    PROVE  Contents' = [Contents EXCEPT ![k] = FileBytes(m)]
<1>1. DOMAIN inode = 1..Len(inode) /\ DOMAIN inode' = 1..Len(inode)
  BY LenProperties DEF Files, Nodes
<1>2. Contents' = [i \in 1..Len(inode) |-> FileBytes(inode'[i])]
  BY <1>1 DEF Contents, FileBytes, Within
<1>3. \A i \in 1..Len(inode) : inode'[i] = IF i = k THEN m ELSE inode[i]
  BY <1>1
<1>4. Contents' = [i \in 1..Len(inode) |-> IF i = k THEN FileBytes(m) ELSE FileBytes(inode[i])]
  BY <1>2, <1>3
<1>5. Contents = [i \in 1..Len(inode) |-> FileBytes(inode[i])]
  BY ContentsIs
<1> QED
  BY <1>4, <1>5

\* and one that makes a node adds the contents of a file.
LEMMA ContentsGrow ==
    ASSUME Files, NEW m, inode' = Append(inode, m)
    PROVE  Contents' = Append(Contents, FileBytes(m))
<1>1. DOMAIN inode = 1..Len(inode) /\ Len(inode) \in Nat
  BY LenProperties DEF Files, Nodes
<1>2. /\ DOMAIN inode' = 1..(Len(inode) + 1)
      /\ \A i \in 1..(Len(inode) + 1) : inode'[i] = IF i <= Len(inode) THEN inode[i] ELSE m
  BY <1>1 DEF Files, Nodes
<1>3. Contents' = [i \in 1..(Len(inode) + 1) |-> FileBytes(inode'[i])]
  BY <1>2 DEF Contents, FileBytes, Within
<1>4. Contents' = [i \in 1..(Len(inode) + 1) |->
                     IF i <= Len(inode) THEN FileBytes(inode[i]) ELSE FileBytes(m)]
  BY <1>2, <1>3
<1>5. Len(Contents) = Len(inode) /\ \A i \in 1..Len(inode) : Contents[i] = FileBytes(inode[i])
  BY ContentsIs
<1>6. Append(Contents, FileBytes(m))
        = [i \in 1..(Len(Contents) + 1) |-> IF i = Len(Contents) + 1 THEN FileBytes(m)
                                            ELSE Contents[i]]
  <2> DEFINE T == {FileBytes(inode[i]) : i \in 1..Len(inode)} \cup {FileBytes(m)}
  <2>1. Contents \in [1..Len(inode) -> T]
    BY ContentsIs
  <2>2. Contents \in Seq(T) /\ FileBytes(m) \in T
    BY <1>1, <2>1
  <2> HIDE DEF T
  <2> DEFINE a == Append(Contents, FileBytes(m))
  <2>3. /\ a \in Seq(T) /\ Len(a) = Len(Contents) + 1
        /\ \A i \in 1..Len(Contents) : a[i] = Contents[i]
        /\ a[Len(Contents) + 1] = FileBytes(m)
    BY <2>2, AppendProperties
  <2> HIDE DEF a
  <2>4. a = [i \in 1..(Len(Contents) + 1) |-> a[i]]
    BY <2>3, LenProperties
  <2>5. \A i \in 1..(Len(Contents) + 1) :
          a[i] = IF i = Len(Contents) + 1 THEN FileBytes(m) ELSE Contents[i]
    BY <1>1, <1>5, <2>3
  <2>6. a = [i \in 1..(Len(Contents) + 1) |-> IF i = Len(Contents) + 1 THEN FileBytes(m)
                                              ELSE Contents[i]]
    BY <2>4, <2>5
  <2> QED
    BY <2>6 DEF a
<1>7. \A i \in 1..(Len(inode) + 1) :
        (IF i = Len(inode) + 1 THEN FileBytes(m) ELSE Contents[i])
          = IF i <= Len(inode) THEN FileBytes(inode[i]) ELSE FileBytes(m)
  BY <1>1, <1>5
<1> QED
  BY <1>4, <1>5, <1>6, <1>7

-----------------------------------------------------------------------------
(* Steps. *)

\* A node changes.
LEMMA NodeChanges ==
    ASSUME Nodes, NEW k \in 1..Len(inode), NEW m, IsNode(m), m.size <= MaxLen,
           inode' = [inode EXCEPT ![k] = m]
    PROVE  /\ Nodes' /\ Len(inode') = Len(inode) /\ inode'[k] = m
           /\ \A i \in 1..Len(inode) : i # k => inode'[i] = inode[i]
<1>1. inode \in Seq(NodeType) /\ m \in NodeType
  BY DEF Nodes, IsNode
<1>2. /\ inode' \in Seq(NodeType) /\ Len(inode') = Len(inode)
      /\ \A j \in 1..Len(inode) : inode'[j] = IF j = k THEN m ELSE inode[j]
  BY <1>1, ExceptSeq
<1>3. \A j \in 1..Len(inode) : IsNode(inode'[j]) /\ inode'[j].size <= MaxLen
  <2> SUFFICES ASSUME NEW j \in 1..Len(inode) PROVE IsNode(inode'[j]) /\ inode'[j].size <= MaxLen
    OBVIOUS
  <2>1. CASE j = k
    <3>1. inode'[j] = m
      BY <1>2, <2>1
    <3> QED
      BY <3>1
  <2>2. CASE j # k
    <3>1. inode'[j] = inode[j] /\ IsNode(inode[j]) /\ inode[j].size <= MaxLen
      BY <1>2, <2>2 DEF Nodes
    <3> QED
      BY <3>1
  <2> QED
    BY <2>1, <2>2
<1> QED
  BY <1>2, <1>3 DEF Nodes

\* A node is made.
LEMMA NodeMade ==
    ASSUME Nodes, NEW m, IsNode(m), m.size <= MaxLen, inode' = Append(inode, m)
    PROVE  /\ Nodes' /\ Len(inode) \in Nat /\ Len(inode') = Len(inode) + 1
           /\ inode'[Len(inode) + 1] = m
           /\ \A i \in 1..Len(inode) : inode'[i] = inode[i]
<1>1. inode \in Seq(NodeType) /\ m \in NodeType /\ Len(inode) \in Nat
  BY LenProperties DEF Nodes, IsNode
<1>2. /\ inode' \in Seq(NodeType) /\ Len(inode') = Len(inode) + 1
      /\ \A i \in 1..Len(inode) : inode'[i] = inode[i]
      /\ inode'[Len(inode) + 1] = m
  BY <1>1, AppendProperties
<1>3. \A j \in 1..Len(inode') : IsNode(inode'[j]) /\ inode'[j].size <= MaxLen
  <2> SUFFICES ASSUME NEW j \in 1..Len(inode')
               PROVE IsNode(inode'[j]) /\ inode'[j].size <= MaxLen
    OBVIOUS
  <2>1. j \in 1..Len(inode) \/ j = Len(inode) + 1
    BY <1>1, <1>2
  <2>2. CASE j = Len(inode) + 1
    <3>1. inode'[j] = m
      BY <1>2, <2>2
    <3> QED
      BY <3>1
  <2>3. CASE j \in 1..Len(inode)
    <3>1. inode'[j] = inode[j] /\ IsNode(inode[j]) /\ inode[j].size <= MaxLen
      BY <1>2, <2>3 DEF Nodes
    <3> QED
      BY <3>1
  <2> QED
    BY <2>1, <2>2, <2>3
<1> QED
  BY <1>1, <1>2, <1>3 DEF Nodes

\* No node but k changes.
OnlyChanges(k) == \A i \in 1..Len(inode) : i # k => inode'[i] = inode[i]

\* Nobody who has read ahead sees what is done elsewhere.
LEMMA CachesStay ==
    ASSUME IoInv, NEW s \in Reading, texts'[s] = texts[s], Fd(s)' = Fd(s),
           fds'[Fd(s)] = fds[Fd(s)],
           Held(texts[s], inode'[fds[Fd(s)].node], fds[Fd(s)].pos)
    PROVE  /\ fds'[Fd(s)'].node # 0
           /\ ReadsFrom(texts'[s], fds'[Fd(s)'], inode'[fds'[Fd(s)'].node])
BY DEF IoInv, Caches, ReadsFrom

\* Parts of sequences that agree up to where they end.
LEMMA PartsAgree ==
    ASSUME NEW x \in Seq(Byte), NEW y \in Seq(Byte), NEW a \in Nat, NEW p \in Nat, a <= p,
           p <= Len(x), p <= Len(y), \A i \in 1..p : y[i] = x[i]
    PROVE  SubSeq(x, a + 1, p) = SubSeq(y, a + 1, p)
<1>1. Len(x) \in Nat /\ Len(y) \in Nat
  BY LenProperties
<1>2. a \in 0..Len(x) /\ p \in 0..Len(x) /\ a \in 0..Len(y) /\ p \in 0..Len(y)
  BY <1>1
<1>3. \A i \in 1..(p - a) : y[a + i] = x[a + i]
  <2>1. \A i \in 1..(p - a) : a + i \in 1..p
    OBVIOUS
  <2> QED
    BY <2>1
<1> DEFINE u == SubSeq(x, a + 1, p)
           v == SubSeq(y, a + 1, p)
<1>4. u \in Seq(Byte) /\ Len(u) = p - a /\ \A i \in 1..(p - a) : u[i] = x[a + i]
  BY <1>2, PartIs
<1>5. v \in Seq(Byte) /\ Len(v) = p - a /\ \A i \in 1..(p - a) : v[i] = y[a + i]
  BY <1>2, PartIs
<1> HIDE DEF u, v
<1>6. \A i \in 1..(p - a) : u[i] = v[i]
  BY <1>3, <1>4, <1>5
<1>7. u = v
  BY <1>4, <1>5, <1>6, SeqEqual
<1> QED
  BY <1>7 DEF u, v

\* What was read stays where it was while the bytes up to there do.
LEMMA HeldStays ==
    ASSUME NEW n, IsNode(n), NEW m, IsNode(m), NEW a \in Nat, NEW p \in Nat, a <= p,
           p <= n.size, p <= m.size, \A i \in 1..p : m.data[i] = n.data[i]
    PROVE  SubSeq(n.data, a + 1, p) = SubSeq(m.data, a + 1, p)
<1>1. n.size <= Len(n.data) /\ m.size <= Len(m.data) /\ n.data \in Seq(Byte) /\ m.data \in Seq(Byte)
      /\ Len(n.data) \in Nat /\ Len(m.data) \in Nat /\ n.size \in Nat /\ m.size \in Nat
  BY LenProperties DEF IsNode, NodeType
<1>2. p <= Len(n.data) /\ p <= Len(m.data)
  BY <1>1
<1> DEFINE x == n.data
           y == m.data
<1>3. /\ x \in Seq(Byte) /\ y \in Seq(Byte)
      /\ p <= Len(x) /\ p <= Len(y) /\ \A i \in 1..p : y[i] = x[i]
  BY <1>1, <1>2
<1> HIDE DEF x, y
<1>4. SubSeq(x, a + 1, p) = SubSeq(y, a + 1, p)
  BY <1>3, PartsAgree
<1> QED
  BY <1>4 DEF x, y

\* A wrapper that has read ahead has a file.
LEMMA NodeRead ==
    ASSUME IoInv, NEW s \in Reading
    PROVE  fds[Fd(s)].node \in 1..Len(inode) /\ Fd(s) \in 1..Len(fds)
<1>1. Fd(s) \in 1..Len(fds) /\ fds[Fd(s)] \in FdType /\ Len(inode) \in Nat
  BY Tables DEF IoInv
<1>2. fds[Fd(s)].node \in Nat /\ fds[Fd(s)].node <= Len(inode)
  BY <1>1 DEF FdType, IoInv, Files
<1>3. fds[Fd(s)].node # 0
  BY DEF IoInv, Caches
<1> QED
  BY <1>1, <1>2, <1>3

\* A change that may be made: what node k had up to place at stays.
LEMMA MayStill ==
    ASSUME IoInv, NEW k \in Nat, NEW at \in Nat, NEW S \in SUBSET Reading, MayChange(k, at, S),
           NEW m, IsNode(m), inode'[k] = m,
           \A p \in Nat : p <= at /\ p <= inode[k].size =>
                p <= m.size /\ \A i \in 1..p : m.data[i] = inode[k].data[i]
    PROVE  StillHeld(S, k)
<1> SUFFICES ASSUME NEW s \in S, fds[Fd(s)].node = k
             PROVE  Held(texts[s], inode'[k], fds[Fd(s)].pos)
  BY DEF StillHeld
<1>1. s \in Reading /\ s \in 1..Len(texts) /\ texts[s] \in TextType
  BY Tables DEF IoInv
<1>2. k \in 1..Len(inode) /\ IsNode(inode[k])
  BY <1>1, NodeRead DEF IoInv, Files, Nodes
<1>3. ReadsFrom(texts[s], fds[Fd(s)], inode[k])
  BY <1>1 DEF IoInv, Caches
<1> DEFINE p == fds[Fd(s)].pos
<1>4. p = texts[s].start + Len(texts[s].read) /\ Held(texts[s], inode[k], p)
  BY <1>3 DEF ReadsFrom
<1>5. p \in Nat
  <2>1. texts[s].start \in Nat /\ Len(texts[s].read) \in Nat
    BY <1>1, LenProperties DEF TextType
  <2> QED
    BY <1>4, <2>1
<1>6. ChangesUnread \/ texts[s].pos = Len(texts[s].text) \/ p <= at
  BY DEF MayChange
<1> DEFINE w == texts[s]
           n == inode[k]
<1>7. /\ w \in TextType /\ IsNode(n) /\ p = w.start + Len(w.read) /\ Held(w, n, p)
      /\ ChangesUnread \/ w.pos = Len(w.text) \/ p <= at
      /\ p <= at /\ p <= n.size => p <= m.size /\ \A i \in 1..p : m.data[i] = n.data[i]
  BY <1>1, <1>2, <1>4, <1>5, <1>6
<1> HIDE DEF p, w, n
<1>8. Held(w, m, p)
  <2>1. CASE ChangesUnread \/ w.pos = Len(w.text) \/ w.read = <<>>
    BY <2>1 DEF Held
  <2>2. CASE p <= at /\ p <= n.size /\ w.read = SubSeq(n.data, w.start + 1, p)
    <3>1. w.start \in Nat /\ w.start <= p
      <4>1. w.start \in Nat /\ Len(w.read) \in Nat
        BY <1>7, LenProperties DEF TextType
      <4> QED
        BY <1>7, <4>1
    <3>2. p <= m.size /\ \A i \in 1..p : m.data[i] = n.data[i]
      BY <1>7, <2>2
    <3> DEFINE a == w.start
    <3> HIDE DEF a
    <3>3. /\ IsNode(n) /\ IsNode(m) /\ a \in Nat /\ p \in Nat /\ a <= p /\ p <= n.size
          /\ p <= m.size /\ \A i \in 1..p : m.data[i] = n.data[i]
      BY <1>5, <1>7, <2>2, <3>1, <3>2 DEF a
    <3>4. SubSeq(n.data, a + 1, p) = SubSeq(m.data, a + 1, p)
      <4>1. \A b, c \in Nat :
                b <= c /\ c <= n.size /\ c <= m.size /\ (\A i \in 1..c : m.data[i] = n.data[i])
                  => SubSeq(n.data, b + 1, c) = SubSeq(m.data, b + 1, c)
        BY <3>3, HeldStays
      <4>2. a \in Nat /\ p \in Nat
        BY <3>3
      <4> QED
        BY <3>3, <4>1, <4>2
    <3> QED
      BY <2>2, <3>2, <3>4 DEF Held, a
  <2> QED
    BY <1>7, <2>1, <2>2 DEF Held
<1> QED
  BY <1>8 DEF p, w

\* The wrappers stay what they are, and those that are added have read nothing.
TextsKept ==
    /\ texts' \in Seq(TextType) /\ Len(texts) <= Len(texts')
    /\ \A s \in 1..Len(texts) : texts'[s] = texts[s]
    /\ \A s \in 1..Len(texts') :
         \/ s \in 1..Len(texts)
         \/ /\ texts'[s].raw \in 1..Len(raws') /\ texts'[s].pos <= Len(texts'[s].text)
            /\ ~ texts'[s].cached

LEMMA TextsSame ==
    ASSUME IoInv, texts' = texts
    PROVE  TextsKept
<1>1. Len(texts) \in Nat
  BY Tables DEF IoInv
<1> QED
  BY <1>1 DEF TextsKept, IoInv, Table

\* The tables of a step that keeps raw objects and wrappers.
LEMMA TableNext ==
    ASSUME IoInv, TextsKept,
           raws' \in Seq(RawType), Len(raws) <= Len(raws'),
           \A o \in 1..Len(raws') : raws'[o].fd \in 1..Len(fds'),
           \A o \in 1..Len(raws) : raws'[o].fd = raws[o].fd
    PROVE  /\ Table' /\ Reading' = Reading
           /\ \A s \in Reading : texts'[s] = texts[s] /\ Fd(s)' = Fd(s) /\ Fd(s) \in 1..Len(fds)
<1>1. /\ Len(raws) \in Nat /\ Len(texts) \in Nat /\ DOMAIN texts = 1..Len(texts)
      /\ \A s \in 1..Len(texts) : Fd(s) \in 1..Len(fds)
      /\ Reading \subseteq 1..Len(texts)
  BY Tables DEF IoInv
<1>2. Len(texts') \in Nat /\ DOMAIN texts' = 1..Len(texts') /\ Len(raws') \in Nat
  BY LenProperties DEF TextsKept
<1>3. \A s \in 1..Len(texts) : s \in 1..Len(texts')
  BY <1>1, <1>2 DEF TextsKept
<1>4. Reading' = Reading
  <2>1. \A s : s \in Reading' <=> s \in 1..Len(texts') /\ texts'[s].cached /\ ~ texts'[s].closed
    BY <1>2 DEF Reading
  <2>2. \A s : s \in Reading <=> s \in 1..Len(texts) /\ texts[s].cached /\ ~ texts[s].closed
    BY <1>1 DEF Reading
  <2>3. \A s : s \in Reading' => s \in Reading
    BY <2>1, <2>2 DEF TextsKept
  <2>4. \A s : s \in Reading => s \in Reading'
    BY <1>3, <2>1, <2>2 DEF TextsKept
  <2> QED
    BY <2>3, <2>4
<1>5. ASSUME NEW s \in 1..Len(texts)
      PROVE  /\ texts'[s] = texts[s] /\ Fd(s)' = Fd(s) /\ texts[s].raw \in 1..Len(raws')
             /\ texts[s].pos <= Len(texts[s].text)
  <2>1. texts[s].raw \in 1..Len(raws) /\ texts[s].pos <= Len(texts[s].text)
    BY DEF IoInv, Table
  <2>2. texts'[s] = texts[s]
    BY DEF TextsKept
  <2>3. raws'[texts[s].raw].fd = raws[texts[s].raw].fd
    BY <2>1
  <2>4. texts[s].raw \in 1..Len(raws')
    BY <1>1, <1>2, <2>1
  <2> QED
    BY <2>1, <2>2, <2>3, <2>4 DEF Fd
<1>6. \A s \in 1..Len(texts') : /\ texts'[s].raw \in 1..Len(raws')
                                /\ texts'[s].pos <= Len(texts'[s].text)
  <2> SUFFICES ASSUME NEW s \in 1..Len(texts')
               PROVE  texts'[s].raw \in 1..Len(raws') /\ texts'[s].pos <= Len(texts'[s].text)
    OBVIOUS
  <2>1. CASE s \in 1..Len(texts)
    BY <1>5, <2>1
  <2>2. CASE s \notin 1..Len(texts)
    BY <2>2 DEF TextsKept
  <2> QED
    BY <2>1, <2>2
<1>7. \A s, r \in Reading' : Fd(s)' = Fd(r)' => s = r
  BY <1>1, <1>4, <1>5 DEF IoInv, Table
<1>8. Table'
  BY <1>6, <1>7 DEF Table, TextsKept
<1> QED
  BY <1>1, <1>4, <1>5, <1>8

\* Those who have read ahead, after a step that changes no node but k, none of
\* them, and none of their descriptors.
LEMMA CachesNext ==
    ASSUME IoInv, NEW k \in Nat, StillHeld(Reading, k), OnlyChanges(k), Reading' = Reading,
           \A s \in Reading : /\ texts'[s] = texts[s] /\ Fd(s)' = Fd(s)
                              /\ fds'[Fd(s)] = fds[Fd(s)]
    PROVE  Caches'
<1> SUFFICES ASSUME NEW s \in Reading
             PROVE  /\ fds'[Fd(s)'].node # 0
                    /\ ReadsFrom(texts'[s], fds'[Fd(s)'], inode'[fds'[Fd(s)'].node])
  BY DEF Caches
<1>1. Held(texts[s], inode'[fds[Fd(s)].node], fds[Fd(s)].pos)
  <2>1. CASE fds[Fd(s)].node = k
    BY <2>1 DEF StillHeld
  <2>2. CASE fds[Fd(s)].node # k
    <3>1. inode'[fds[Fd(s)].node] = inode[fds[Fd(s)].node]
      BY <2>2, NodeRead DEF OnlyChanges
    <3>2. Held(texts[s], inode[fds[Fd(s)].node], fds[Fd(s)].pos)
      BY DEF IoInv, Caches, ReadsFrom
    <3> QED
      BY <3>1, <3>2
  <2> QED
    BY <2>1, <2>2
<1> QED
  BY <1>1, CachesStay

\* A step that changes no node changes none that was read.
LEMMA NoneHeld ==
    ASSUME IoInv
    PROVE  StillHeld(Reading, 0)
BY DEF IoInv, Caches, StillHeld

\* A step with a descriptor that no wrapper has read ahead on.
LEMMA RawStep ==
    ASSUME IoInv, NEW d \in 1..Len(fds), ~ Ahead(d),
           NEW f \in FdType, f.node <= Len(inode), f.pos \in MinPos..MaxLen,
           fds' = [fds EXCEPT ![d] = f],
           Nodes', Len(inode') = Len(inode),
           NEW k \in Nat, StillHeld(Reading, k), OnlyChanges(k),
           UNCHANGED nodes, TextsKept, got' \in Seq(Byte),
           raws' \in Seq(RawType), Len(raws) <= Len(raws'),
           \A o \in 1..Len(raws') : raws'[o].fd \in 1..Len(fds),
           \A o \in 1..Len(raws) : raws'[o].fd = raws[o].fd
    PROVE  /\ IoInv'
           /\ Descriptors' = [Descriptors EXCEPT ![d] = [file |-> f.node, pos |-> f.pos,
                                                         append |-> f.append]]
<1> USE DEF IoInv
<1>1. /\ Len(inode) \in Nat /\ Len(fds) \in Nat /\ Len(raws) \in Nat /\ Len(texts) \in Nat
      /\ DOMAIN inode = 1..Len(inode) /\ DOMAIN fds = 1..Len(fds)
      /\ DOMAIN texts = 1..Len(texts)
      /\ \A e \in 1..Len(fds) : fds[e] \in FdType
      /\ \A s \in 1..Len(texts) : texts[s] \in TextType /\ Fd(s) \in 1..Len(fds)
      /\ Reading \subseteq 1..Len(texts)
  BY Tables
<1>2. /\ fds' \in Seq(FdType) /\ Len(fds') = Len(fds)
      /\ \A e \in 1..Len(fds) : fds'[e] = IF e = d THEN f ELSE fds[e]
  BY <1>1, ExceptSeq DEF Files
<1>3. Files'
  <2>1. nodes' \in [Paths -> 0..Len(inode')]
    BY DEF Files
  <2>2. \A e \in 1..Len(fds) : fds'[e].node <= Len(inode') /\ fds'[e].pos \in MinPos..MaxLen
    BY <1>2 DEF Files
  <2> QED
    BY <1>2, <2>1, <2>2 DEF Files
<1>4. /\ Table' /\ Reading' = Reading
      /\ \A s \in Reading : texts'[s] = texts[s] /\ Fd(s)' = Fd(s) /\ Fd(s) \in 1..Len(fds)
  BY <1>2, TableNext
<1>7. \A s \in Reading : /\ Fd(s)' = Fd(s) /\ Fd(s) # d /\ fds'[Fd(s)] = fds[Fd(s)]
                         /\ texts'[s] = texts[s]
  BY <1>1, <1>2, <1>4 DEF Ahead
<1>8. Caches'
  BY <1>4, <1>7, CachesNext
<1>9. \A e \in 1..Len(fds) : e # d => Position(e)' = Position(e)
  <2> SUFFICES ASSUME NEW e \in 1..Len(fds), e # d PROVE Position(e)' = Position(e)
    OBVIOUS
  <2>1. fds'[e] = fds[e]
    BY <1>2
  <2>2. \A s : s \in Reading' /\ Fd(s)' = e <=> s \in Reading /\ Fd(s) = e
    BY <1>4, <1>7
  <2> QED
    BY <1>4, <1>7, <2>1, <2>2, PositionStays
<1>10. Position(d)' = f.pos
  <2>1. ~ Ahead(d)'
    BY <1>4, <1>7 DEF Ahead
  <2>2. Position(d)' = fds'[d].pos
    BY <1>4, <2>1, PositionNext
  <2>3. fds'[d] = f
    BY <1>2
  <2> QED
    BY <2>2, <2>3
<1>11. DOMAIN fds' = 1..Len(fds)
  BY <1>2, LenProperties
<1>12. Descriptors' = [e \in 1..Len(fds) |->
                         IF e = d THEN [file |-> f.node, pos |-> f.pos, append |-> f.append]
                         ELSE Descriptors[e]]
  BY <1>1, <1>2, <1>9, <1>10, <1>11 DEF Descriptors
<1>13. DOMAIN Descriptors = 1..Len(fds)
  BY <1>1 DEF Descriptors
<1> QED
  BY <1>3, <1>4, <1>8, <1>12, <1>13

\* A step with a wrapper and its descriptor.
LEMMA TextStep ==
    ASSUME IoInv, NEW s \in 1..Len(texts), \A r \in Reading : Fd(r) = Fd(s) => r = s,
           NEW f \in FdType, f.node <= Len(inode), f.pos \in MinPos..MaxLen,
           fds' = [fds EXCEPT ![Fd(s)] = f],
           Nodes', Len(inode') = Len(inode),
           NEW k \in Nat, StillHeld(Reading \ {s}, k), OnlyChanges(k),
           UNCHANGED nodes, got' \in Seq(Byte),
           NEW w \in TextType, w.raw = texts[s].raw, w.pos <= Len(w.text),
           texts' = [texts EXCEPT ![s] = w],
           w.cached /\ ~ w.closed => f.node # 0 /\ ReadsFrom(w, f, inode'[f.node]),
           raws' \in Seq(RawType), Len(raws') = Len(raws),
           \A o \in 1..Len(raws) : raws'[o].fd = raws[o].fd
    PROVE  /\ IoInv'
           /\ Descriptors' = [Descriptors EXCEPT ![Fd(s)] =
                [file |-> f.node, append |-> f.append,
                 pos |-> IF w.cached /\ ~ w.closed
                         THEN w.start + Bytelen(SubSeq(w.text, 1, w.pos)) ELSE f.pos]]
<1> USE DEF IoInv
<1>1. /\ Len(inode) \in Nat /\ Len(fds) \in Nat /\ Len(raws) \in Nat /\ Len(texts) \in Nat
      /\ DOMAIN inode = 1..Len(inode) /\ DOMAIN fds = 1..Len(fds)
      /\ DOMAIN texts = 1..Len(texts)
      /\ \A e \in 1..Len(fds) : fds[e] \in FdType
      /\ \A r \in 1..Len(texts) : texts[r] \in TextType /\ Fd(r) \in 1..Len(fds)
      /\ Reading \subseteq 1..Len(texts)
  BY Tables
<1>d. PICK d \in 1..Len(fds) : d = Fd(s)
  BY <1>1
<1>2. /\ fds' \in Seq(FdType) /\ Len(fds') = Len(fds)
      /\ \A e \in 1..Len(fds) : fds'[e] = IF e = d THEN f ELSE fds[e]
  BY <1>1, <1>d, ExceptSeq DEF Files
<1>3. Files'
  <2>1. nodes' \in [Paths -> 0..Len(inode')]
    BY DEF Files
  <2>2. \A e \in 1..Len(fds) : fds'[e].node <= Len(inode') /\ fds'[e].pos \in MinPos..MaxLen
    BY <1>2 DEF Files
  <2> QED
    BY <1>2, <2>1, <2>2 DEF Files
<1>4. /\ texts' \in Seq(TextType) /\ Len(texts') = Len(texts)
      /\ \A r \in 1..Len(texts) : texts'[r] = IF r = s THEN w ELSE texts[r]
  BY <1>1, ExceptSeq DEF Table
<1>5. \A r \in 1..Len(texts) : Fd(r)' = Fd(r)
  BY <1>4, SMTT(20) DEF Table, Fd
<1>7. \A r : r \in Reading' <=> IF r = s THEN w.cached /\ ~ w.closed ELSE r \in Reading
  <2>1. DOMAIN texts' = 1..Len(texts)
    BY <1>4, LenProperties
  <2> QED
    BY <1>1, <1>4, <2>1 DEF Reading
<1>6. Table'
  <2>1. \A r \in 1..Len(texts) : texts'[r].raw \in 1..Len(raws)
                                 /\ texts'[r].pos <= Len(texts'[r].text)
    BY <1>4 DEF Table
  <2>2. \A o \in 1..Len(raws) : raws'[o].fd \in 1..Len(fds')
    BY <1>2 DEF Table
  <2>3. \A q, r \in Reading' : Fd(q)' = Fd(r)' => q = r
    <3> SUFFICES ASSUME NEW q \in Reading', NEW r \in Reading', Fd(q)' = Fd(r)' PROVE q = r
      OBVIOUS
    <3>1. Fd(q) = Fd(r)
      BY <1>1, <1>5, <1>7
    <3>2. CASE q # s /\ r # s
      BY <1>7, <3>1, <3>2 DEF Table
    <3>3. CASE q = s \/ r = s
      BY <1>7, <3>1, <3>3
    <3> QED
      BY <3>2, <3>3
  <2> QED
    BY <1>2, <1>4, <2>1, <2>2, <2>3 DEF Table
<1>8. \A r \in Reading : r # s => /\ r \in Reading' /\ Fd(r)' = Fd(r) /\ Fd(r) # d
                                  /\ fds'[Fd(r)] = fds[Fd(r)] /\ texts'[r] = texts[r]
  <2> SUFFICES ASSUME NEW r \in Reading, r # s
               PROVE  /\ r \in Reading' /\ Fd(r)' = Fd(r) /\ Fd(r) # d
                      /\ fds'[Fd(r)] = fds[Fd(r)] /\ texts'[r] = texts[r]
    OBVIOUS
  <2>1. r \in 1..Len(texts) /\ Fd(r) \in 1..Len(fds)
    BY <1>1
  <2>2. Fd(r) # d
    BY <1>d
  <2> QED
    BY <1>2, <1>4, <1>5, <1>7, <2>1, <2>2
<1>9. fds'[d] = f /\ Fd(s)' = d /\ texts'[s] = w
  BY <1>1, <1>d, <1>2, <1>4, <1>5
<1>10. Caches'
  <2> SUFFICES ASSUME NEW r \in Reading'
               PROVE  /\ fds'[Fd(r)'].node # 0
                      /\ ReadsFrom(texts'[r], fds'[Fd(r)'], inode'[fds'[Fd(r)'].node])
    BY DEF Caches
  <2>1. CASE r = s
    BY <1>7, <1>9, <2>1
  <2>2. CASE r # s
    <3>1. r \in Reading /\ r \in 1..Len(texts)
      BY <1>1, <1>7, <2>2
    <3>2. Held(texts[r], inode'[fds[Fd(r)].node], fds[Fd(r)].pos)
      <4>1. CASE fds[Fd(r)].node = k
        BY <2>2, <3>1, <4>1 DEF StillHeld
      <4>2. CASE fds[Fd(r)].node # k
        <5>1. inode'[fds[Fd(r)].node] = inode[fds[Fd(r)].node]
          BY <3>1, <4>2, NodeRead DEF OnlyChanges
        <5>2. Held(texts[r], inode[fds[Fd(r)].node], fds[Fd(r)].pos)
          BY <3>1 DEF Caches, ReadsFrom
        <5> QED
          BY <5>1, <5>2
      <4> QED
        BY <4>1, <4>2
    <3> QED
      BY <1>8, <2>2, <3>1, <3>2, CachesStay
  <2> QED
    BY <2>1, <2>2
<1>11. \A e \in 1..Len(fds) : e # d => Position(e)' = Position(e)
  <2> SUFFICES ASSUME NEW e \in 1..Len(fds), e # d PROVE Position(e)' = Position(e)
    OBVIOUS
  <2>1. fds'[e] = fds[e]
    BY <1>2
  <2>2. \A r : r \in Reading' /\ Fd(r)' = e <=> r \in Reading /\ Fd(r) = e
    <3> SUFFICES ASSUME NEW r PROVE r \in Reading' /\ Fd(r)' = e <=> r \in Reading /\ Fd(r) = e
      OBVIOUS
    <3>1. CASE r = s
      BY <1>9, <1>d, <3>1
    <3>2. CASE r # s
      BY <1>7, <1>8, <3>2
    <3> QED
      BY <3>1, <3>2
  <2>3. \A r \in Reading : Fd(r) = e => texts'[r] = texts[r]
    BY <1>8, <1>d
  <2> QED
    BY <1>6, <2>1, <2>2, <2>3, PositionStays
<1>12. Position(d)' = IF w.cached /\ ~ w.closed
                      THEN w.start + Bytelen(SubSeq(w.text, 1, w.pos)) ELSE f.pos
  <2>1. CASE w.cached /\ ~ w.closed
    <3>1. s \in Reading' /\ Fd(s)' = d
      BY <1>7, <1>9, <2>1
    <3>2. Position(d)' = Tell(s)'
      BY <1>6, <3>1, PositionNext
    <3>3. Tell(s)' = IF texts'[s].cached
                     THEN texts'[s].start + Bytelen(SubSeq(texts'[s].text, 1, texts'[s].pos))
                     ELSE fds'[Fd(s)'].pos
      BY DEF Tell
    <3> QED
      BY <1>9, <2>1, <3>2, <3>3
  <2>2. CASE ~ (w.cached /\ ~ w.closed)
    <3>1. ~ Ahead(d)'
      <4>1. \A r \in Reading' : r \in Reading /\ r # s
        BY <1>7, <2>2
      <4>2. \A r \in Reading' : Fd(r)' # d
        BY <1>8, <4>1
      <4> QED
        BY <4>2 DEF Ahead
    <3>2. Position(d)' = fds'[d].pos
      BY <1>6, <3>1, PositionNext
    <3> QED
      BY <1>9, <2>2, <3>2
  <2> QED
    BY <2>1, <2>2
<1>13. DOMAIN fds' = 1..Len(fds)
  BY <1>2, LenProperties
<1> DEFINE x == [file |-> f.node, append |-> f.append,
                 pos |-> IF w.cached /\ ~ w.closed
                         THEN w.start + Bytelen(SubSeq(w.text, 1, w.pos)) ELSE f.pos]
           y(e) == [file |-> fds'[e].node, pos |-> Position(e)', append |-> fds'[e].append]
<1>14. Descriptors' = [e \in 1..Len(fds) |-> y(e)]
  <2>1. Descriptors' = [e \in DOMAIN fds' |-> y(e)]
    BY DEF Descriptors
  <2> QED
    BY <1>13, <2>1
<1>15. \A e \in 1..Len(fds) : y(e) = IF e = d THEN x ELSE Descriptors[e]
  <2> SUFFICES ASSUME NEW e \in 1..Len(fds) PROVE y(e) = IF e = d THEN x ELSE Descriptors[e]
    OBVIOUS
  <2>1. CASE e = d
    BY <1>9, <1>12, <2>1
  <2>2. CASE e # d
    <3>1. fds'[e] = fds[e] /\ Position(e)' = Position(e)
      BY <1>2, <1>11, <2>2
    <3>2. Descriptors[e] = [file |-> fds[e].node, pos |-> Position(e), append |-> fds[e].append]
      BY <1>1 DEF Descriptors
    <3> QED
      BY <2>2, <3>1, <3>2
  <2> QED
    BY <2>1, <2>2
<1>16. DOMAIN Descriptors = 1..Len(fds)
  BY <1>1 DEF Descriptors
<1> HIDE DEF x, y
<1>17. Descriptors' = [Descriptors EXCEPT ![d] = x]
  BY <1>14, <1>15, <1>16
<1> QED
  BY <1>3, <1>6, <1>10, <1>17, <1>d DEF x

\* A step that changes no descriptor and no object.
LEMMA NamesStep ==
    ASSUME IoInv, UNCHANGED <<fds, objects>>, Nodes', Len(inode) <= Len(inode'),
           NEW k \in Nat, StillHeld(Reading, k), OnlyChanges(k),
           nodes' \in [Paths -> 0..Len(inode')], got' \in Seq(Byte)
    PROVE  IoInv' /\ Descriptors' = Descriptors
<1>1. UNCHANGED <<raws, texts>>
  BY DEF objects
<1>2. Len(inode) \in Nat /\ Len(inode') \in Nat
  BY LenProperties DEF IoInv, Files, Nodes
<1>3. Files'
  <2>1. \A d \in 1..Len(fds) : fds[d].node <= Len(inode') /\ fds[d].pos \in MinPos..MaxLen
    <3> SUFFICES ASSUME NEW d \in 1..Len(fds)
                 PROVE  fds[d].node <= Len(inode') /\ fds[d].pos \in MinPos..MaxLen
      OBVIOUS
    <3>1. fds[d] \in FdType /\ fds[d].node <= Len(inode) /\ fds[d].pos \in MinPos..MaxLen
      BY Tables DEF IoInv, Files
    <3>2. fds[d].node \in Nat
      BY <3>1 DEF FdType
    <3> QED
      BY <1>2, <3>1, <3>2
  <2> QED
    BY <2>1 DEF IoInv, Files
<1>4. \A s : Fd(s)' = Fd(s)
  BY <1>1 DEF Fd
<1>6. Reading' = Reading
  BY <1>1 DEF Reading
<1>5. Table'
  BY <1>1, <1>4, <1>6 DEF IoInv, Table
<1>7. Caches'
  BY <1>1, <1>4, <1>6, CachesNext
<1>8. \A d : Position(d)' = Position(d)
  BY <1>1, <1>4, <1>5, <1>6, PositionStays DEF IoInv
<1>9. Descriptors' = Descriptors
  BY <1>8 DEF Descriptors
<1> QED
  BY <1>3, <1>5, <1>7, <1>9 DEF IoInv

-----------------------------------------------------------------------------
(* What a step shows of the contract. *)

\* What is read from a node's array is what its file has there.
LEMMA SliceIs ==
    ASSUME NEW n, IsNode(n), NEW p \in Nat, NEW e \in 0..n.size
    PROVE  /\ SubSeq(n.data, p + 1, e) = SubSeq(Within(n), p + 1, e)
           /\ SubSeq(n.data, p + 1, e) \in Seq(Byte)
           /\ Len(SubSeq(n.data, p + 1, e)) = IF p < e THEN e - p ELSE 0
<1>1. /\ n.size \in Nat /\ Within(n) \in Seq(Byte) /\ Len(Within(n)) = n.size
      /\ \A i \in 1..n.size : Within(n)[i] = n.data[i]
  BY WithinIs
<1>2. n.data \in Seq(Byte) /\ n.size <= Len(n.data) /\ Len(n.data) \in Nat
  BY LenProperties DEF IsNode, NodeType
<1>3. CASE p < e
  <2> DEFINE x == SubSeq(n.data, p + 1, e)
             y == SubSeq(Within(n), p + 1, e)
             t == n.data
             u == Within(n)
  <2>1. /\ t \in Seq(Byte) /\ u \in Seq(Byte) /\ p \in 0..Len(t) /\ e \in 0..Len(t)
        /\ p \in 0..Len(u) /\ e \in 0..Len(u) /\ p <= e
    BY <1>1, <1>2, <1>3
  <2> HIDE DEF t, u
  <2>2. /\ SubSeq(t, p + 1, e) \in Seq(Byte) /\ Len(SubSeq(t, p + 1, e)) = e - p
        /\ \A i \in 1..(e - p) : SubSeq(t, p + 1, e)[i] = t[p + i]
    BY <2>1, PartIs
  <2>3. /\ SubSeq(u, p + 1, e) \in Seq(Byte) /\ Len(SubSeq(u, p + 1, e)) = e - p
        /\ \A i \in 1..(e - p) : SubSeq(u, p + 1, e)[i] = u[p + i]
    BY <2>1, PartIs
  <2>4. \A i \in 1..(e - p) : p + i \in 1..n.size
    BY <1>1, <1>3
  <2>5. /\ x \in Seq(Byte) /\ Len(x) = e - p /\ y \in Seq(Byte) /\ Len(y) = e - p
        /\ \A i \in 1..(e - p) : x[i] = y[i]
    BY <1>1, <2>2, <2>3, <2>4 DEF t, u
  <2> HIDE DEF x, y
  <2>6. x = y
    BY <2>5, SeqEqual
  <2> QED
    BY <1>3, <2>5, <2>6 DEF x, y
<1>4. CASE ~ (p < e)
  <2>1. p + 1 \in Int /\ e \in Int /\ e < p + 1
    BY <1>1, <1>4
  <2>2. SubSeq(n.data, p + 1, e) = <<>> /\ SubSeq(Within(n), p + 1, e) = <<>>
    BY <2>1, SubSeqEmpty
  <2> QED
    BY <1>4, <2>2
<1> QED
  BY <1>3, <1>4

\* A descriptor and its file, as the program sees them.
LEMMA FileIs ==
    ASSUME IoInv, NEW d \in Opened
    PROVE  /\ d \in 1..Len(fds) /\ fds[d] \in FdType
           /\ fds[d].node \in 1..Len(inode) /\ Len(inode) \in Nat
           /\ fds[d].pos \in Int /\ fds[d].pos \in MinPos..MaxLen
           /\ IsNode(NodeOf(d)) /\ NodeOf(d).size \in Nat /\ NodeOf(d).size <= MaxLen
           /\ Descriptors[d] = [file |-> fds[d].node, pos |-> Position(d),
                                append |-> fds[d].append]
           /\ d \in DOMAIN Descriptors /\ d \in Contract!Opened
           /\ Contract!FileOf(d) = FileBytes(NodeOf(d))
<1>1. d \in 1..Len(fds) /\ fds[d] \in FdType /\ fds[d].node # 0 /\ DOMAIN fds = 1..Len(fds)
  BY Tables DEF IoInv, Opened
<1>2. /\ fds[d].node \in Nat /\ fds[d].node <= Len(inode)
      /\ fds[d].pos \in Int /\ fds[d].pos \in MinPos..MaxLen
      /\ Len(inode) \in Nat
  BY <1>1, Tables DEF FdType, IoInv, Files
<1>3. fds[d].node \in 1..Len(inode)
  BY <1>1, <1>2
<1>4. IsNode(NodeOf(d)) /\ NodeOf(d).size <= MaxLen
  BY <1>3 DEF IoInv, Files, Nodes, NodeOf
<1>5. NodeOf(d).size \in Nat
  BY <1>4, WithinIs
<1>6. /\ Descriptors[d] = [file |-> fds[d].node, pos |-> Position(d), append |-> fds[d].append]
      /\ d \in DOMAIN Descriptors
  BY <1>1 DEF Descriptors
<1>7. d \in Contract!Opened
  BY <1>1, <1>6 DEF Contract!Opened
<1>8. Contract!FileOf(d) = FileBytes(NodeOf(d))
  <2>1. Contents[fds[d].node] = FileBytes(inode[fds[d].node])
    BY <1>3, ContentsIs DEF IoInv
  <2> QED
    BY <1>6, <2>1 DEF Contract!FileOf, NodeOf
<1> QED
  BY <1>1, <1>2, <1>3, <1>4, <1>5, <1>6, <1>7, <1>8

\* A descriptor that is set to what it is.
LEMMA FdsKept ==
    ASSUME IoInv, NEW d \in Opened
    PROVE  fds = [fds EXCEPT ![d] = fds[d]] /\ fds = [fds EXCEPT ![d].pos = fds[d].pos]
<1>1. d \in 1..Len(fds) /\ fds[d] \in FdType
  BY FileIs
<1>2. [fds[d] EXCEPT !.pos = fds[d].pos] = fds[d]
  BY <1>1 DEF FdType
<1>3. fds \in [1..Len(fds) -> FdType]
  BY DEF IoInv, Files
<1>4. fds = [fds EXCEPT ![d] = fds[d]]
  BY <1>1, <1>3
<1> QED
  BY <1>2, <1>4

\* A position set in the table of descriptors.
LEMMA PosSet ==
    ASSUME IoInv, NEW d \in Opened, NEW p \in Int
    PROVE  LET f == [fds[d] EXCEPT !.pos = p] IN
           /\ [fds EXCEPT ![d].pos = p] = [fds EXCEPT ![d] = f]
           /\ f \in FdType /\ f.node = fds[d].node /\ f.pos = p /\ f.append = fds[d].append
           /\ [Descriptors EXCEPT ![d] = [file |-> f.node, pos |-> f.pos, append |-> f.append]]
                = [Descriptors EXCEPT ![d].pos = p]
<1>1. fds[d] \in FdType
  BY FileIs
<1>2. /\ Descriptors[d] = [file |-> fds[d].node, pos |-> Position(d), append |-> fds[d].append]
      /\ d \in DOMAIN Descriptors
  BY FileIs
<1> DEFINE f == [fds[d] EXCEPT !.pos = p]
<1>3. f \in FdType /\ f.node = fds[d].node /\ f.pos = p /\ f.append = fds[d].append
  BY <1>1 DEF FdType
<1>4. [file |-> f.node, pos |-> f.pos, append |-> f.append] = [Descriptors[d] EXCEPT !.pos = p]
  BY <1>2, <1>3
<1> QED
  BY <1>3, <1>4

\* Bytes read from the position up to place e.
LEMMA ContractReads ==
    ASSUME IoInv, NEW d \in Opened, NEW e \in 0..NodeOf(d).size, Position(d) \in Nat,
           got' = SubSeq(Within(NodeOf(d)), Position(d) + 1, e),
           Descriptors' = [Descriptors EXCEPT ![d].pos = Larger(Position(d), e)],
           Contents' = Contents, nodes' = nodes
    PROVE  Contract!Next
<1> DEFINE p == Position(d)
           b == Within(NodeOf(d))
           z == NodeOf(d).size
           n == IF p <= e THEN e - p ELSE 0
           end == IF p + n < Len(b) THEN p + n ELSE Len(b)
<1>1. /\ Descriptors[d] = [file |-> fds[d].node, pos |-> p, append |-> fds[d].append]
      /\ d \in DOMAIN Descriptors /\ d \in Contract!Opened
      /\ Contract!FileOf(d) = FileBytes(NodeOf(d))
      /\ z \in Nat /\ z <= MaxLen /\ Len(b) = z
  BY FileIs, WithinIs
<1>2. n \in MinPos..MaxLen
  BY <1>1, MemFsAssumption
<1>3. /\ p <= e => end = e
      /\ p > e => end <= p
      /\ end \in 0..z
  BY <1>1
<1>4. got' = SubSeq(b, p + 1, end)
  <2>1. CASE p <= e
    BY <1>3, <2>1
  <2>2. CASE p > e
    <3>1. p + 1 \in Int /\ e \in Int /\ end \in Int /\ e < p + 1 /\ end < p + 1
      BY <1>1, <1>3, <2>2
    <3> HIDE DEF end, p, b
    <3>2. SubSeq(b, p + 1, e) = <<>> /\ SubSeq(b, p + 1, end) = <<>>
      BY <3>1, SubSeqEmpty
    <3> QED
      BY <3>2 DEF p, b
  <2>3. p <= e \/ p > e
    BY <1>1
  <2> HIDE DEF end, p, b
  <2> QED
    BY <2>1, <2>2, <2>3
<1>5. Descriptors' = IF end > p THEN [Descriptors EXCEPT ![d].pos = end] ELSE Descriptors
  <2>1. CASE end > p
    <3>1. Larger(p, e) = end
      BY <1>1, <1>3, <2>1 DEF Larger
    <3> QED
      BY <2>1, <3>1
  <2>2. CASE ~ (end > p)
    <3>1. Larger(p, e) = p
      BY <1>1, <1>3, <2>2 DEF Larger
    <3> HIDE DEF p
    <3>2. [Descriptors[d] EXCEPT !.pos = p] = Descriptors[d]
      BY <1>1
    <3>3. [Descriptors EXCEPT ![d] = Descriptors[d]] = Descriptors
      <4> DEFINE g == Descriptors
      <4>1. g = [x \in DOMAIN g |-> g[x]]
        BY DEF Descriptors
      <4> HIDE DEF g
      <4>2. [g EXCEPT ![d] = g[d]] = g
        BY <4>1
      <4> QED
        BY <4>2 DEF g
    <3>4. Descriptors' = [Descriptors EXCEPT ![d] = [Descriptors[d] EXCEPT !.pos = p]]
      BY <3>1 DEF p
    <3> QED
      BY <2>2, <3>2, <3>3, <3>4
  <2> QED
    BY <2>1, <2>2
<1>6. Contract!Read(d, n)
  <2>1. Contract!FileOf(d).bytes = b /\ Descriptors[d].pos = p
    BY <1>1 DEF FileBytes
  <2>5. p >= 0
    OBVIOUS
  <2> HIDE DEF p, b, n
  <2>2. /\ got' = SubSeq(b, p + 1, IF p + n < Len(b) THEN p + n ELSE Len(b))
        /\ Descriptors' = IF (IF p + n < Len(b) THEN p + n ELSE Len(b)) > p
                          THEN [Descriptors EXCEPT ![d].pos =
                                    IF p + n < Len(b) THEN p + n ELSE Len(b)]
                          ELSE Descriptors
    BY <1>4, <1>5 DEF p
  <2> DEFINE x == Contract!FileOf(d).bytes
             y == Descriptors[d].pos
  <2>3. x = b /\ y = p
    BY <2>1
  <2> HIDE DEF x, y
  <2>4. /\ y >= 0
        /\ got' = SubSeq(x, y + 1, IF y + n < Len(x) THEN y + n ELSE Len(x))
        /\ Descriptors' = IF (IF y + n < Len(x) THEN y + n ELSE Len(x)) > y
                          THEN [Descriptors EXCEPT ![d].pos =
                                    IF y + n < Len(x) THEN y + n ELSE Len(x)]
                          ELSE Descriptors
    BY <2>2, <2>3, <2>5
  <2> QED
    BY <2>4 DEF Contract!Read, x, y
<1> HIDE DEF n
<1>7. Contract!Move(d)
  BY <1>2, <1>6 DEF Contract!Move
<1> QED
  BY <1>1, <1>7 DEF Contract!Next

-----------------------------------------------------------------------------
(* FileIO. *)

\* A raw object in use has a descriptor that is open where its position says.
LEMMA RawIs ==
    ASSUME IoInv, NEW o \in Raw
    PROVE  /\ o \in 1..Len(raws) /\ raws[o] \in RawType
           /\ raws[o].fd \in Opened /\ ~ Ahead(raws[o].fd)
<1>1. DOMAIN raws = 1..Len(raws) /\ \A x \in 1..Len(raws) : raws[x] \in RawType
  BY Tables DEF IoInv
<1> QED
  BY <1>1 DEF Raw

\* The raw objects stay what they are.
RawsKept ==
    /\ raws' \in Seq(RawType) /\ Len(raws) <= Len(raws')
    /\ \A o \in 1..Len(raws') : raws'[o].fd \in 1..Len(fds)
    /\ \A o \in 1..Len(raws) : raws'[o].fd = raws[o].fd

\* A step keeps the raw objects when it leaves them alone,
LEMMA RawsSame ==
    ASSUME IoInv, raws' = raws
    PROVE  RawsKept
<1>1. Len(raws) \in Nat
  BY Tables DEF IoInv
<1> QED
  BY <1>1 DEF RawsKept, IoInv, Table

\* One of them changes in something else than its descriptor.
LEMMA RawsChange ==
    ASSUME IoInv, NEW o \in 1..Len(raws), NEW r \in RawType, r.fd = raws[o].fd,
           raws' = [raws EXCEPT ![o] = r]
    PROVE  RawsKept /\ Len(raws') = Len(raws)
<1>1. Len(raws) \in Nat /\ raws \in Seq(RawType)
      /\ \A x \in 1..Len(raws) : raws[x].fd \in 1..Len(fds)
  BY Tables DEF IoInv, Table
<1>2. /\ raws' \in Seq(RawType) /\ Len(raws') = Len(raws)
      /\ \A x \in 1..Len(raws) : raws'[x] = IF x = o THEN r ELSE raws[x]
  BY <1>1, ExceptSeq
<1>3. \A x \in 1..Len(raws) : raws'[x].fd = raws[x].fd
  BY <1>2
<1> QED
  BY <1>1, <1>2, <1>3 DEF RawsKept

\* or adds one on an open descriptor.
LEMMA RawsGrow ==
    ASSUME IoInv, NEW r \in RawType, r.fd \in 1..Len(fds), raws' = Append(raws, r)
    PROVE  RawsKept
<1>1. Len(raws) \in Nat /\ raws \in Seq(RawType)
      /\ \A x \in 1..Len(raws) : raws[x].fd \in 1..Len(fds)
  BY Tables DEF IoInv, Table
<1>2. /\ raws' \in Seq(RawType) /\ Len(raws') = Len(raws) + 1
      /\ \A x \in 1..Len(raws) : raws'[x] = raws[x]
      /\ raws'[Len(raws) + 1] = r
  BY <1>1, AppendProperties
<1>3. \A x \in 1..Len(raws') : x \in 1..Len(raws) \/ x = Len(raws) + 1
  BY <1>1, <1>2
<1>4. \A x \in 1..Len(raws') : raws'[x].fd \in 1..Len(fds)
  BY <1>1, <1>2, <1>3
<1> QED
  BY <1>1, <1>2, <1>4 DEF RawsKept

\* A step that changes neither nodes nor wrappers, and sets a descriptor to f.
LEMMA RawSets ==
    ASSUME IoInv, NEW d \in Opened, ~ Ahead(d),
           NEW f \in FdType, f.node <= Len(inode), f.pos \in MinPos..MaxLen,
           fds' = [fds EXCEPT ![d] = f],
           UNCHANGED <<nodes, inode>>, got' \in Seq(Byte), RawsKept, TextsKept
    PROVE  /\ IoInv' /\ Contents' = Contents
           /\ Descriptors' = [Descriptors EXCEPT ![d] = [file |-> f.node, pos |-> f.pos,
                                                         append |-> f.append]]
<1>1. d \in 1..Len(fds)
  BY FileIs
<1>2. Nodes' /\ Len(inode') = Len(inode) /\ OnlyChanges(0)
  BY DEF Nodes, IoInv, Files, OnlyChanges
<1>3. StillHeld(Reading, 0)
  BY NoneHeld
<1>4. Contents' = Contents
  BY DEF Contents
<1>5. /\ raws' \in Seq(RawType) /\ Len(raws) <= Len(raws')
      /\ \A o \in 1..Len(raws') : raws'[o].fd \in 1..Len(fds)
      /\ \A o \in 1..Len(raws) : raws'[o].fd = raws[o].fd
  BY DEF RawsKept
<1> QED
  BY <1>1, <1>2, <1>3, <1>4, <1>5, RawStep

\* One that moves a position.
LEMMA RawMoves ==
    ASSUME IoInv, NEW d \in Opened, ~ Ahead(d), NEW p \in MinPos..MaxLen,
           fds' = [fds EXCEPT ![d].pos = p],
           UNCHANGED <<nodes, inode>>, got' \in Seq(Byte), RawsKept, TextsKept
    PROVE  /\ IoInv' /\ Contents' = Contents
           /\ Descriptors' = [Descriptors EXCEPT ![d].pos = p]
<1>0. p \in Int
  BY MemFsAssumption
<1> DEFINE f == [fds[d] EXCEPT !.pos = p]
<1>1. /\ [fds EXCEPT ![d].pos = p] = [fds EXCEPT ![d] = f]
      /\ f \in FdType /\ f.node = fds[d].node /\ f.pos = p /\ f.append = fds[d].append
      /\ [Descriptors EXCEPT ![d] = [file |-> f.node, pos |-> f.pos, append |-> f.append]]
                = [Descriptors EXCEPT ![d].pos = p]
  BY <1>0, PosSet, Zenon
<1>2. fds[d].node \in 1..Len(inode) /\ Len(inode) \in Nat
  BY FileIs, Zenon
<1> HIDE DEF f
<1>3. f.node <= Len(inode) /\ f.pos \in MinPos..MaxLen
  BY <1>1, <1>2
<1>4. fds' = [fds EXCEPT ![d] = f]
  BY <1>1
<1>5. /\ IoInv' /\ Contents' = Contents
      /\ Descriptors' = [Descriptors EXCEPT ![d] = [file |-> f.node, pos |-> f.pos,
                                                    append |-> f.append]]
  BY <1>1, <1>3, <1>4, RawSets
<1> QED
  BY <1>1, <1>5

\* One that does nothing at all is a seek to where the descriptor is.
LEMMA IdleStep ==
    ASSUME IoInv, NEW d \in Opened, ~ Ahead(d), Idle, TextsKept, RawsKept
    PROVE  IoInv' /\ Contract!Next
<1>1. fds[d].pos \in MinPos..MaxLen /\ d \in Contract!Opened
  BY FileIs
<1>2. fds' = [fds EXCEPT ![d].pos = fds[d].pos]
  BY FdsKept DEF Idle
<1>3. UNCHANGED <<nodes, inode>> /\ got' = <<>> /\ got' \in Seq(Byte)
  BY DEF Idle
<1>4. /\ IoInv' /\ Contents' = Contents
      /\ Descriptors' = [Descriptors EXCEPT ![d].pos = fds[d].pos]
  BY <1>1, <1>2, <1>3, RawMoves
<1>5. Contract!Seek(d, fds[d].pos)
  BY <1>3, <1>4 DEF Contract!Seek
<1>6. Contract!Move(d)
  BY <1>1, <1>3, <1>4, <1>5 DEF Contract!Move
<1> QED
  BY <1>1, <1>4, <1>6 DEF Contract!Next

\* Where a read of n bytes ends.
LEMMA ReadEndIs ==
    ASSUME IoInv, NEW d \in Opened, fds[d].pos >= 0, NEW n \in Nat
    PROVE  /\ ReadEnd(d, n) \in 0..NodeOf(d).size
           /\ ReadEnd(d, n) = IF fds[d].pos + n < NodeOf(d).size THEN fds[d].pos + n
                              ELSE NodeOf(d).size
<1>1. fds[d].pos \in Int /\ NodeOf(d).size \in Nat
  BY FileIs, Zenon
<1> DEFINE S == {fds[d].pos + n, NodeOf(d).size}
<1>2. S \in SUBSET Nat /\ S # {}
  BY <1>1
<1> HIDE DEF S
<1>3. Min(S) \in S /\ \A y \in S : Min(S) <= y
  BY <1>2, MinOf
<1> QED
  BY <1>1, <1>3 DEF S, ReadEnd

\* read().
LEMMA ReadStep ==
    ASSUME IoInv, NEW d \in Opened, ~ Ahead(d), NEW n \in Nat, Read(d, n), UNCHANGED objects
    PROVE  IoInv' /\ Contract!Next
<1> DEFINE e == ReadEnd(d, n)
           p == Larger(fds[d].pos, e)
<1>1. /\ IsNode(NodeOf(d)) /\ NodeOf(d).size \in Nat /\ NodeOf(d).size <= MaxLen
      /\ fds[d].pos \in Nat /\ fds[d].pos <= MaxLen /\ Position(d) = fds[d].pos
  <2>1. /\ IsNode(NodeOf(d)) /\ NodeOf(d).size \in Nat /\ NodeOf(d).size <= MaxLen
        /\ fds[d].pos \in Int /\ fds[d].pos \in MinPos..MaxLen
    BY FileIs, Zenon
  <2>2. Position(d) = fds[d].pos
    BY PositionIs DEF IoInv
  <2>3. fds[d].pos >= 0
    BY DEF Read
  <2> QED
    BY <2>1, <2>2, <2>3
<1>2. e \in 0..NodeOf(d).size
  BY <1>1, ReadEndIs
<1>3. got' = Slice(d, e) /\ fds' = [fds EXCEPT ![d].pos = p] /\ UNCHANGED <<nodes, inode>>
  BY DEF Read
<1> HIDE DEF e
<1>4. got' \in Seq(Byte) /\ got' = SubSeq(Within(NodeOf(d)), Position(d) + 1, e)
  BY <1>1, <1>2, <1>3, SliceIs DEF Slice
<1>5. p \in MinPos..MaxLen
  BY <1>1, <1>2, MemFsAssumption DEF Larger
<1>6. RawsKept
  BY RawsSame DEF objects
<1>8. TextsKept
  BY TextsSame DEF objects
<1>7. /\ IoInv' /\ Contents' = Contents
      /\ Descriptors' = [Descriptors EXCEPT ![d].pos = p]
  BY <1>3, <1>4, <1>5, <1>6, <1>8, RawMoves
<1> QED
  BY <1>1, <1>2, <1>3, <1>4, <1>7, ContractReads

\* seek().
LEMMA SeekStep ==
    ASSUME IoInv, NEW d \in Opened, ~ Ahead(d), NEW i, NEW how, Lseek(d, i, how),
           TextsKept, RawsKept
    PROVE  IoInv' /\ Contract!Next
<1> DEFINE p == SeekPos(d, i, how)
<1>1. /\ p \in MinPos..MaxLen /\ fds' = [fds EXCEPT ![d].pos = p]
      /\ UNCHANGED <<nodes, inode>> /\ got' = <<>> /\ got' \in Seq(Byte)
  BY DEF Lseek
<1> HIDE DEF p
<1>3. /\ IoInv' /\ Contents' = Contents
      /\ Descriptors' = [Descriptors EXCEPT ![d].pos = p]
  BY <1>1, RawMoves
<1>4. Contract!Seek(d, p)
  BY <1>1, <1>3 DEF Contract!Seek
<1>5. Contract!Move(d)
  BY <1>1, <1>3, <1>4 DEF Contract!Move
<1>6. d \in Contract!Opened
  BY FileIs
<1> QED
  BY <1>3, <1>5, <1>6 DEF Contract!Next

\* close().
LEMMA CloseStep ==
    ASSUME IoInv, NEW d \in Opened, ~ Ahead(d), Close(d), TextsKept, RawsKept
    PROVE  IoInv' /\ Contract!Next
<1>1. /\ fds' = [fds EXCEPT ![d] = Closed] /\ UNCHANGED <<nodes, inode>>
      /\ got' = <<>> /\ got' \in Seq(Byte)
  BY DEF Close
<1>2. Closed \in FdType /\ Closed.node = 0 /\ Closed.pos = 0 /\ Closed.append = FALSE
  BY DEF Closed, FdType
<1>3. Closed.node <= Len(inode) /\ Closed.pos \in MinPos..MaxLen
  BY <1>2, Tables, MemFsAssumption DEF IoInv
<1>4. /\ IoInv' /\ Contents' = Contents
      /\ Descriptors' = [Descriptors EXCEPT ![d] = [file |-> 0, pos |-> 0, append |-> FALSE]]
  BY <1>1, <1>2, <1>3, RawSets
<1>5. Contract!Close(d)
  BY <1>1, <1>4 DEF Contract!Close, Contract!Descriptor
<1>6. Contract!Move(d)
  BY <1>1, <1>4, <1>5 DEF Contract!Move
<1>7. d \in Contract!Opened
  BY FileIs
<1> QED
  BY <1>4, <1>6, <1>7 DEF Contract!Next

\* What may be written is bytes.
LEMMA DataIs == Chunks \cup {Encode(t) : t \in Texts} \subseteq Seq(Byte)
<1>1. Chunks \subseteq Seq(Byte) /\ Texts \subseteq Seq(Byte \ {Trail})
  BY IoAssumption
<1>2. ASSUME NEW t \in Texts PROVE Encode(t) \in Seq(Byte)
  <2>1. t \in Seq(Byte \ {Trail})
    BY <1>1
  <2>2. Seq(Byte \ {Trail}) \subseteq Seq(Byte)
    BY SMT
  <2> QED
    BY <2>1, <2>2, EncodeType
<1> QED
  BY <1>1, <1>2

\* A node changes and the file it holds with it.
LEMMA FileChanges ==
    ASSUME IoInv, NEW d \in Opened, NEW m, IsNode(m), m.size <= MaxLen,
           inode' = [inode EXCEPT ![fds[d].node] = m]
    PROVE  /\ Nodes' /\ Len(inode') = Len(inode) /\ inode'[fds[d].node] = m
           /\ \A i \in 1..Len(inode) : i # fds[d].node => inode'[i] = inode[i]
           /\ Contents' = [Contents EXCEPT ![fds[d].node] = FileBytes(m)]
<1>1. fds[d].node \in 1..Len(inode) /\ Files /\ Nodes
  BY FileIs DEF IoInv, Files
<1> DEFINE k == fds[d].node
<1>2. k \in 1..Len(inode) /\ inode' = [inode EXCEPT ![k] = m]
  BY <1>1
<1> HIDE DEF k
<1>3. /\ Nodes' /\ Len(inode') = Len(inode) /\ inode'[k] = m
      /\ \A i \in 1..Len(inode) : i # k => inode'[i] = inode[i]
  BY <1>1, <1>2, NodeChanges
<1>4. Contents' = [Contents EXCEPT ![k] = FileBytes(m)]
  BY <1>1, <1>2, ContentsNext
<1> QED
  BY <1>3, <1>4 DEF k

\* Data put at the position, or at the end.
LEMMA ContractWrites ==
    ASSUME IoInv, NEW d \in Opened, NEW u \in Chunks \cup {Encode(t) : t \in Texts}, NEW at \in Nat,
           at = IF fds[d].append THEN NodeOf(d).size ELSE Position(d),
           at <= NodeOf(d).size,
           Descriptors' = [Descriptors EXCEPT ![d].pos = at + Len(u)],
           Contents' = [Contents EXCEPT ![fds[d].node] = FileBytes(Put(NodeOf(d), at, u))],
           got' = <<>>, nodes' = nodes
    PROVE  Contract!Next
<1> DEFINE n == NodeOf(d)
           m == Put(NodeOf(d), at, u)
<1>1. /\ Descriptors[d] = [file |-> fds[d].node, pos |-> Position(d), append |-> fds[d].append]
      /\ d \in Contract!Opened
      /\ Contract!FileOf(d) = FileBytes(n)
      /\ IsNode(n) /\ Len(Within(n)) = n.size
      /\ fds[d].node \in 1..Len(inode)
  BY FileIs, WithinIs
<1>2. u \in Seq(Byte)
  BY DataIs
<1>3. m.isDir = n.isDir /\ Within(m) = Contract!Overwritten(Within(n), at, u)
  <2> HIDE DEF n
  <2>1. LET x == Put(n, at, u) IN
           /\ IsNode(x) /\ x.isDir = n.isDir /\ x.size = Larger(n.size, at + Len(u))
           /\ \A i \in 1..n.size : i <= at => x.data[i] = n.data[i]
           /\ at <= n.size => Within(x) = Contract!Overwritten(Within(n), at, u)
    BY <1>1, <1>2, PutIs
  <2> QED
    BY <2>1 DEF n
<1> DEFINE ov(b) == Contract!Overwritten(b, at, u)
<1>4. Contents[fds[d].node] = FileBytes(n)
  BY <1>1 DEF Contract!FileOf
<1>5. FileBytes(m) = [Contents[fds[d].node] EXCEPT !.bytes = ov(Contents[fds[d].node].bytes)]
  <2> HIDE DEF m, n
  <2>1. FileBytes(m) = [dir |-> n.isDir, bytes |-> ov(Within(n))]
    BY <1>3 DEF FileBytes
  <2>2. FileBytes(n) = [dir |-> n.isDir, bytes |-> Within(n)]
    BY DEF FileBytes
  <2> HIDE DEF ov
  <2> QED
    BY <1>4, <2>1, <2>2
<1>6. Contents' = [Contents EXCEPT ![fds[d].node] =
                     [Contents[fds[d].node] EXCEPT !.bytes = ov(Contents[fds[d].node].bytes)]]
  BY <1>5
<1>7. at = IF Descriptors[d].append THEN Len(Contract!FileOf(d).bytes) ELSE Descriptors[d].pos
  BY <1>1 DEF FileBytes
<1>8. Descriptors[d].file = fds[d].node
  BY <1>1
<1>9. Contract!Write(d, u)
  <2> HIDE DEF ov
  <2> DEFINE z == IF Descriptors[d].append THEN Len(Contract!FileOf(d).bytes)
                  ELSE Descriptors[d].pos
             k == Descriptors[d].file
  <2>1. z = at /\ k = fds[d].node
    BY <1>7, <1>8
  <2> HIDE DEF z, k
  <2>2. /\ got' = <<>>
        /\ Descriptors' = [Descriptors EXCEPT ![d].pos = z + Len(u)]
        /\ Contents' = [Contents EXCEPT ![k] =
                           [Contents[k] EXCEPT !.bytes = Contract!Overwritten(Contents[k].bytes, z, u)]]
    BY <1>6, <2>1 DEF ov
  <2>3. z >= 0
    BY <2>1
  <2> QED
    BY <2>2, <2>3 DEF Contract!Write, z, k
<1>10. Contract!Change(d)
  BY <1>9 DEF Contract!Change
<1> QED
  BY <1>1, <1>10 DEF Contract!Next

\* A step with a raw object that changes its file and its position.
LEMMA RawChanges ==
    ASSUME IoInv, NEW d \in Opened, ~ Ahead(d), StillHeld(Reading, fds[d].node), NEW p \in MinPos..MaxLen,
           fds' = [fds EXCEPT ![d].pos = p],
           NEW m, IsNode(m), m.size <= MaxLen,
           inode' = [inode EXCEPT ![fds[d].node] = m],
           UNCHANGED <<nodes, objects>>, got' \in Seq(Byte)
    PROVE  /\ IoInv'
           /\ Contents' = [Contents EXCEPT ![fds[d].node] = FileBytes(m)]
           /\ Descriptors' = [Descriptors EXCEPT ![d].pos = p]
<1>0. p \in Int
  BY MemFsAssumption
<1> DEFINE f == [fds[d] EXCEPT !.pos = p]
<1>1. /\ [fds EXCEPT ![d].pos = p] = [fds EXCEPT ![d] = f]
      /\ f \in FdType /\ f.node = fds[d].node /\ f.pos = p /\ f.append = fds[d].append
      /\ [Descriptors EXCEPT ![d] = [file |-> f.node, pos |-> f.pos, append |-> f.append]]
                = [Descriptors EXCEPT ![d].pos = p]
  BY <1>0, PosSet, Zenon
<1>2. fds[d].node \in 1..Len(inode) /\ Len(inode) \in Nat /\ d \in 1..Len(fds)
  BY FileIs, Zenon
<1>3. /\ Nodes' /\ Len(inode') = Len(inode)
      /\ OnlyChanges(fds[d].node)
      /\ Contents' = [Contents EXCEPT ![fds[d].node] = FileBytes(m)]
  BY FileChanges DEF OnlyChanges
<1> HIDE DEF f
<1>4. fds' = [fds EXCEPT ![d] = f] /\ f.node <= Len(inode) /\ f.pos \in MinPos..MaxLen
      /\ fds[d].node \in Nat
  BY <1>1, <1>2
<1>5. RawsKept
  BY RawsSame DEF objects
<1>6. /\ raws' \in Seq(RawType) /\ Len(raws) <= Len(raws')
      /\ \A o \in 1..Len(raws') : raws'[o].fd \in 1..Len(fds)
      /\ \A o \in 1..Len(raws) : raws'[o].fd = raws[o].fd
  BY <1>5 DEF RawsKept
<1>7. TextsKept
  BY TextsSame DEF objects
<1>8. /\ IoInv'
      /\ Descriptors' = [Descriptors EXCEPT ![d] = [file |-> f.node, pos |-> f.pos,
                                                    append |-> f.append]]
  BY <1>1, <1>2, <1>3, <1>4, <1>6, <1>7, RawStep
<1> QED
  BY <1>1, <1>3, <1>8

\* write().
LEMMA WriteStep ==
    ASSUME IoInv, NEW d \in Opened, ~ Ahead(d), NEW u \in Chunks,
           MayChange(fds[d].node, WriteAt(d, fds[d].pos), Reading), Write(d, u), UNCHANGED objects
    PROVE  IoInv' /\ (~ SeeksPastEnd => Contract!Next)
<1> DEFINE at == WriteAt(d, fds[d].pos)
           m == Put(NodeOf(d), at, u)
<1>1. /\ fds[d].node \in 1..Len(inode) /\ fds[d].pos \in Int /\ IsNode(NodeOf(d))
      /\ NodeOf(d).size \in Nat /\ NodeOf(d).size <= MaxLen
      /\ Position(d) = fds[d].pos
  BY FileIs, PositionIs DEF IoInv
<1>2. at \in Nat /\ at = IF fds[d].append THEN NodeOf(d).size ELSE Position(d)
  BY <1>1 DEF WriteAt, Write, WriteFrom
<1>3. u \in Seq(Byte) /\ Len(u) \in Nat
  BY DataIs
<1>4. /\ at + Len(u) <= MaxLen
      /\ SeeksPastEnd \/ at <= NodeOf(d).size
      /\ inode' = [inode EXCEPT ![fds[d].node] = m]
      /\ fds' = [fds EXCEPT ![d].pos = at + Len(u)]
      /\ UNCHANGED nodes /\ got' = <<>> /\ got' \in Seq(Byte)
  BY DEF Write, WriteFrom, NodeOf
<1> DEFINE p == at + Len(u)
<1>5. p \in Nat /\ p <= MaxLen /\ p \in MinPos..MaxLen
  BY <1>2, <1>3, <1>4, MemFsAssumption
<1>11. MayChange(fds[d].node, at, Reading)
  OBVIOUS
<1> HIDE DEF at
<1>6. /\ IsNode(m) /\ m.size = Larger(NodeOf(d).size, p)
      /\ \A i \in 1..NodeOf(d).size : i <= at => m.data[i] = NodeOf(d).data[i]
  BY <1>1, <1>2, <1>3, PutIs
<1>7. m.size <= MaxLen
  BY <1>1, <1>5, <1>6 DEF Larger
<1> HIDE DEF m, p
<1>12. StillHeld(Reading, fds[d].node)
  <2>1. inode'[fds[d].node] = m /\ NodeOf(d) = inode[fds[d].node] /\ fds[d].node \in Nat
    BY <1>1, <1>4, <1>6, <1>7, FileChanges DEF NodeOf
  <2>2. ASSUME NEW q \in Nat, q <= at, q <= NodeOf(d).size
        PROVE  q <= m.size /\ \A i \in 1..q : m.data[i] = NodeOf(d).data[i]
    <3>1. q <= m.size
      BY <1>1, <1>5, <1>6, <2>2 DEF Larger
    <3>2. \A i \in 1..q : i \in 1..NodeOf(d).size /\ i <= at
      BY <1>1, <1>2, <2>2
    <3> QED
      BY <1>6, <3>1, <3>2
  <2> DEFINE k == fds[d].node
             n == inode[k]
  <2>3. /\ k \in Nat /\ inode'[k] = m /\ MayChange(k, at, Reading)
        /\ \A q \in Nat : q <= at /\ q <= n.size =>
              q <= m.size /\ \A i \in 1..q : m.data[i] = n.data[i]
    BY <1>11, <2>1, <2>2
  <2> HIDE DEF k
  <2> QED
    BY <1>2, <1>6, <2>3, MayStill DEF k
<1>8. fds' = [fds EXCEPT ![d].pos = p]
  BY <1>4 DEF p
<1>9. /\ IoInv'
      /\ Contents' = [Contents EXCEPT ![fds[d].node] = FileBytes(m)]
      /\ Descriptors' = [Descriptors EXCEPT ![d].pos = p]
  BY <1>4, <1>5, <1>6, <1>7, <1>8, <1>12, RawChanges
<1>10. ASSUME ~ SeeksPastEnd PROVE Contract!Next
  <2>1. at <= NodeOf(d).size
    BY <1>4, <1>10
  <2> u \in Chunks \cup {Encode(t) : t \in Texts}
    OBVIOUS
  <2>2. /\ Contents' = [Contents EXCEPT ![fds[d].node] = FileBytes(Put(NodeOf(d), at, u))]
        /\ Descriptors' = [Descriptors EXCEPT ![d].pos = at + Len(u)]
    BY <1>9 DEF m, p
  <2> QED
    BY <1>2, <1>4, <2>1, <2>2, ContractWrites
<1> QED
  BY <1>9, <1>10

\* truncate().
LEMMA TruncateStep ==
    ASSUME IoInv, NEW d \in Opened, NEW n \in 0..MaxLen,
           MayChange(fds[d].node, n, Reading), Ftruncate(d, n), UNCHANGED objects
    PROVE  IoInv' /\ Contract!Next
<1> DEFINE m == Resized(NodeOf(d), n)
           b == Within(NodeOf(d))
           c == [i \in 1..n |-> IF i <= Len(b) THEN b[i] ELSE Zero]
<1>1. /\ fds[d].node \in 1..Len(inode) /\ IsNode(NodeOf(d)) /\ fds[d] \in FdType
      /\ d \in 1..Len(fds)
      /\ Descriptors[d] = [file |-> fds[d].node, pos |-> Position(d), append |-> fds[d].append]
      /\ d \in Contract!Opened /\ d \in DOMAIN Descriptors
      /\ Contract!FileOf(d) = FileBytes(NodeOf(d))
  BY FileIs
<1>2. n \in Nat /\ n <= MaxLen
  BY MemFsAssumption
<1>3. /\ IsNode(m) /\ m.isDir = NodeOf(d).isDir /\ m.size = n
      /\ \A i \in 1..NodeOf(d).size : i <= n => m.data[i] = NodeOf(d).data[i]
      /\ Within(m) = c
  BY <1>1, <1>2, ResizedIs
<1>4. /\ inode' = [inode EXCEPT ![fds[d].node] = m]
      /\ UNCHANGED <<nodes, fds>> /\ got' = <<>> /\ got' \in Seq(Byte)
  BY DEF Ftruncate, NodeOf
<1> HIDE DEF m, b, c
<1>6. m.size <= MaxLen
  BY <1>2, <1>3
<1>5. /\ Nodes' /\ Len(inode') = Len(inode) /\ inode'[fds[d].node] = m
      /\ OnlyChanges(fds[d].node)
      /\ Contents' = [Contents EXCEPT ![fds[d].node] = FileBytes(m)]
  BY <1>3, <1>4, <1>6, FileChanges DEF OnlyChanges
<1>16. fds[d].node \in Nat /\ NodeOf(d) = inode[fds[d].node]
  BY <1>1 DEF NodeOf
<1>17. StillHeld(Reading, fds[d].node)
  <2>1. ASSUME NEW q \in Nat, q <= n, q <= NodeOf(d).size
        PROVE  q <= m.size /\ \A i \in 1..q : m.data[i] = NodeOf(d).data[i]
    <3>1. NodeOf(d).size \in Nat
      BY <1>1, WithinIs
    <3>2. \A i \in 1..q : i \in 1..NodeOf(d).size /\ i <= n
      BY <1>2, <2>1, <3>1
    <3> QED
      BY <1>3, <2>1, <3>2
  <2> DEFINE l == fds[d].node
             x == inode[l]
  <2>2. /\ l \in Nat /\ inode'[l] = m /\ MayChange(l, n, Reading)
        /\ \A q \in Nat : q <= n /\ q <= x.size =>
              q <= m.size /\ \A i \in 1..q : m.data[i] = x.data[i]
    BY <1>5, <1>16, <2>1
  <2> HIDE DEF l
  <2> QED
    BY <1>2, <1>3, <2>2, MayStill DEF l
<1>8. IoInv' /\ Descriptors' = Descriptors
  <2>1. nodes' \in [Paths -> 0..Len(inode')] /\ Len(inode) <= Len(inode')
    BY <1>4, <1>5, Tables DEF IoInv, Files
  <2> QED
    BY <1>4, <1>5, <1>16, <1>17, <2>1, NamesStep
<1> DEFINE k == Descriptors[d].file
<1>9. k = fds[d].node
  BY <1>1
<1>10. Contents[k] = [dir |-> NodeOf(d).isDir, bytes |-> b]
  BY <1>1 DEF Contract!FileOf, FileBytes, b
<1>11. FileBytes(m) = [dir |-> NodeOf(d).isDir, bytes |-> c]
  BY <1>3 DEF FileBytes
<1> HIDE DEF k
<1>12. Contents' = [Contents EXCEPT ![k] = FileBytes(m)]
  BY <1>5, <1>9
<1>13. FileBytes(m) = [Contents[k] EXCEPT !.bytes =
                         [i \in 1..n |-> IF i <= Len(Contents[k].bytes) THEN Contents[k].bytes[i]
                                         ELSE Zero]]
  <2>1. Contents[k].bytes = b
    BY <1>10
  <2>2. c = [i \in 1..n |-> IF i <= Len(Contents[k].bytes) THEN Contents[k].bytes[i]
                                         ELSE Zero]
    BY <2>1 DEF c
  <2>3. FileBytes(m) = [Contents[k] EXCEPT !.bytes = c]
    BY <1>10, <1>11
  <2> QED
    BY <2>2, <2>3
<1>14. Contract!Truncate(d, n)
  <2>1. Contents' = [Contents EXCEPT ![k] = [Contents[k] EXCEPT !.bytes =
                         [i \in 1..n |-> IF i <= Len(Contents[k].bytes) THEN Contents[k].bytes[i]
                                         ELSE Zero]]]
    BY <1>12, <1>13
  <2> QED
    BY <1>2, <1>4, <1>8, <2>1 DEF Contract!Truncate, k
<1>15. Contract!Change(d)
  <2>1. n \in MinPos..MaxLen
    BY <1>2, MemFsAssumption
  <2> QED
    BY <1>4, <1>14, <2>1 DEF Contract!Change
<1> QED
  BY <1>1, <1>8, <1>15 DEF Contract!Next

\* How much is asked for.
LEMMA WantedIs ==
    ASSUME IoInv, NEW d \in Opened, NEW n \in Int
    PROVE  Wanted(d, n) \in Nat /\ LineLength(d, n) \in Nat
<1>1. fds[d].pos \in Int /\ NodeOf(d).size \in Nat
  BY FileIs
<1>2. Wanted(d, n) \in Nat /\ Wanted(d, -1) \in Nat
  BY <1>1 DEF Wanted, Larger
<1> DEFINE left == Wanted(d, -1)
           S == {k \in 1..left : NodeOf(d).data[fds[d].pos + k] = LF \/ k = n} \cup {left}
<1>3. S \in SUBSET Nat /\ S # {}
  BY <1>2
<1> HIDE DEF S
<1>4. Min(S) \in Nat
  BY <1>3, MinOf
<1>5. LineLength(d, n) = IF n = 0 THEN 0 ELSE Min(S)
  BY DEF LineLength, S
<1> QED
  BY <1>2, <1>4, <1>5

\* truncate() of a raw object, whoever asks for it.
LEMMA CutStep ==
    ASSUME IoInv, NEW o, raws[o].fd \in Opened, NEW n, FTruncate(o, n)
    PROVE  IoInv' /\ Contract!Next
<1>1. PICK d \in Opened : d = raws[o].fd
  OBVIOUS
<1>2. PICK m : m = IF n >= 0 THEN n ELSE fds[d].pos
  OBVIOUS
<1>3. /\ m \in 0..MaxLen /\ MayChange(fds[d].node, m, Reading)
      /\ Ftruncate(d, m) /\ UNCHANGED objects
  BY <1>1, <1>2 DEF FTruncate
<1> QED
  BY <1>3, TruncateStep

\* The steps of a raw object.
LEMMA BinaryStep ==
    ASSUME IoInv, Binary
    PROVE  IoInv' /\ (~ SeeksPastEnd => Contract!Next)
<1>1. PICK o \in Raw :
        \/ \E n \in Sizes : FRead(o, n) \/ FReadline(o, n) \/ FTruncate(o, n)
        \/ \E u \in Chunks : FWrite(o, u)
        \/ \E k \in Seeks : FSeek(o, k[1], k[2])
        \/ FClose(o)
  BY DEF Binary
<1>2. PICK d \in Opened : d = raws[o].fd /\ ~ Ahead(d)
  BY RawIs
<1>3. o \in 1..Len(raws) /\ raws[o] \in RawType
  BY RawIs
<1>4. ASSUME NEW n \in Sizes, FRead(o, n) \/ FReadline(o, n) PROVE IoInv' /\ Contract!Next
  <2>1. Wanted(d, n) \in Nat /\ LineLength(d, n) \in Nat
    BY WantedIs, IoAssumption
  <2>2. /\ UNCHANGED objects
        /\ Read(d, Wanted(d, n)) \/ Read(d, LineLength(d, n))
    BY <1>2, <1>4 DEF FRead, FReadline
  <2> QED
    BY <1>2, <2>1, <2>2, ReadStep
<1>5. ASSUME NEW n \in Sizes, FTruncate(o, n) PROVE IoInv' /\ Contract!Next
  BY <1>2, <1>5, CutStep
<1>6. ASSUME NEW u \in Chunks, FWrite(o, u)
      PROVE  IoInv' /\ (~ SeeksPastEnd => Contract!Next)
  <2>1. /\ MayChange(fds[d].node, WriteAt(d, fds[d].pos), Reading)
        /\ Write(d, u) /\ UNCHANGED objects
    BY <1>2, <1>6 DEF FWrite
  <2> QED
    BY <1>2, <2>1, WriteStep
<1>7. ASSUME NEW k \in Seeks, FSeek(o, k[1], k[2]) PROVE IoInv' /\ Contract!Next
  <2>1. Lseek(d, k[1], k[2]) /\ UNCHANGED objects
    BY <1>2, <1>7 DEF FSeek
  <2>2. RawsKept /\ TextsKept
    BY <2>1, RawsSame, TextsSame DEF objects
  <2> QED
    BY <1>2, <2>1, <2>2, SeekStep
<1>8. ASSUME FClose(o) PROVE IoInv' /\ Contract!Next
  <2>1. /\ Close(d) \/ Idle
        /\ raws' = [raws EXCEPT ![o] = [raws[o] EXCEPT !.closed = TRUE]] /\ UNCHANGED texts
    BY <1>2, <1>8 DEF FClose
  <2> DEFINE r == [raws[o] EXCEPT !.closed = TRUE]
  <2>2. r \in RawType /\ r.fd = raws[o].fd
    BY <1>3 DEF RawType
  <2> HIDE DEF r
  <2>3. raws' = [raws EXCEPT ![o] = r]
    BY <2>1 DEF r
  <2>4. RawsKept
    BY <1>3, <2>2, <2>3, RawsChange
  <2>5. TextsKept
    BY <2>1, <2>4, TextsSame
  <2> QED
    BY <1>2, <2>1, <2>4, <2>5, CloseStep, IdleStep
<1> QED
  BY <1>1, <1>4, <1>5, <1>6, <1>7, <1>8

-----------------------------------------------------------------------------
(* Names. *)

\* Nothing at all.
LEMMA StutterStep ==
    ASSUME IoInv, UNCHANGED vars
    PROVE  IoInv' /\ UNCHANGED Contract!vars
<1>1. UNCHANGED <<nodes, inode, fds, got, raws, texts>>
  BY DEF vars, fsVars
<1>2. Nodes' /\ nodes' \in [Paths -> 0..Len(inode')] /\ got' \in Seq(Byte) /\ Len(inode) <= Len(inode')
  BY <1>1, LenProperties DEF IoInv, Files, Nodes
<1>5. OnlyChanges(0)
  BY <1>1 DEF OnlyChanges
<1>3. IoInv' /\ Descriptors' = Descriptors
  BY <1>1, <1>2, <1>5, NoneHeld, NamesStep DEF objects
<1>4. Contents' = Contents
  BY <1>1 DEF Contents
<1> QED
  BY <1>1, <1>3, <1>4 DEF Contract!vars

\* The nodes the file system makes.
LEMMA FreshNode ==
    ASSUME NEW b \in BOOLEAN
    PROVE  /\ IsNode(Node(b)) /\ Node(b).size = 0 /\ Node(b).size <= MaxLen
           /\ FileBytes(Node(b)) = [dir |-> b, bytes |-> <<>>]
<1>1. Node(b) \in NodeType /\ Node(b).size = 0 /\ Node(b).data = <<>> /\ Node(b).isDir = b
  BY DEF Node, NodeType
<1>2. IsNode(Node(b))
  BY <1>1 DEF IsNode
<1>3. SubSeq(<<>>, 1, 0) = <<>>
  BY SubSeqEmpty
<1>4. FileBytes(Node(b)) = [dir |-> b, bytes |-> <<>>]
  BY <1>1, <1>3 DEF FileBytes, Within
<1> QED
  BY <1>1, <1>2, <1>4, MemFsAssumption

\* Every operation of the file system keeps the invariant and is an operation
\* of the contract.
LEMMA PosixStep ==
    ASSUME IoInv, Posix
    PROVE  IoInv' /\ Contract!Next
<1>1. /\ Len(inode) \in Nat /\ Nodes /\ Files /\ nodes \in [Paths -> 0..Len(inode)]
      /\ Len(Contents) = Len(inode)
  BY Tables, ContentsIs DEF IoInv, Files
<1>2. PICK p \in Paths :
        /\ Unlink(p) \/ Mkdir(p) \/ \E q \in Paths : Rename(p, q)
        /\ UNCHANGED objects
  BY DEF Posix
<1>3. ASSUME inode' = inode, nodes' \in [Paths -> 0..Len(inode)], got' = <<>>, UNCHANGED fds
      PROVE  IoInv' /\ Descriptors' = Descriptors /\ Contents' = Contents
  <2>1. Nodes' /\ Len(inode) <= Len(inode') /\ got' \in Seq(Byte)
    BY <1>1, <1>3 DEF Nodes
  <2>2. Contents' = Contents
    BY <1>3 DEF Contents
  <2>3. OnlyChanges(0)
    BY <1>3 DEF OnlyChanges
  <2> QED
    BY <1>2, <1>3, <2>1, <2>2, <2>3, NoneHeld, NamesStep
<1>4. CASE Unlink(p)
  <2>1. nodes' = [nodes EXCEPT ![p] = 0] /\ UNCHANGED <<inode, fds>> /\ got' = <<>> /\ nodes[p] # 0
    BY <1>4 DEF Unlink
  <2>2. nodes' \in [Paths -> 0..Len(inode)]
    BY <1>1, <2>1
  <2>3. IoInv' /\ Descriptors' = Descriptors /\ Contents' = Contents
    BY <1>3, <2>1, <2>2
  <2>4. Contract!Unlink(p)
    BY <2>1, <2>3 DEF Contract!Unlink
  <2> QED
    BY <2>3, <2>4 DEF Contract!Next
<1>5. CASE Mkdir(p)
  <2>1. /\ nodes[p] = 0 /\ nodes' = [nodes EXCEPT ![p] = Len(inode) + 1]
        /\ inode' = Append(inode, Node(TRUE)) /\ UNCHANGED fds /\ got' = <<>>
    BY <1>5 DEF Mkdir
  <2>2. /\ Nodes' /\ Len(inode') = Len(inode) + 1
        /\ \A i \in 1..Len(inode) : inode'[i] = inode[i]
    BY <1>1, <2>1, FreshNode, NodeMade
  <2>3. nodes' \in [Paths -> 0..Len(inode')] /\ Len(inode) <= Len(inode')
    BY <1>1, <2>1, <2>2
  <2>4. got' \in Seq(Byte)
    BY <2>1
  <2>8. OnlyChanges(0)
    BY <2>2 DEF OnlyChanges
  <2>5. IoInv' /\ Descriptors' = Descriptors
    BY <1>2, <2>1, <2>2, <2>3, <2>4, <2>8, NoneHeld, NamesStep
  <2>6. Contents' = Append(Contents, [dir |-> TRUE, bytes |-> <<>>])
    BY <1>1, <2>1, FreshNode, ContentsGrow
  <2>7. Contract!Mkdir(p)
    BY <1>1, <2>1, <2>5, <2>6 DEF Contract!Mkdir, Contract!Fresh
  <2> QED
    BY <2>5, <2>7 DEF Contract!Next
<1>6. ASSUME NEW q \in Paths, Rename(p, q) PROVE IoInv' /\ Contract!Next
  <2>1. /\ nodes[p] # 0 /\ nodes' = [[nodes EXCEPT ![p] = 0] EXCEPT ![q] = nodes[p]]
        /\ UNCHANGED <<inode, fds>> /\ got' = <<>>
    BY <1>6 DEF Rename
  <2>2. nodes' \in [Paths -> 0..Len(inode)]
    BY <1>1, <2>1
  <2>3. IoInv' /\ Descriptors' = Descriptors /\ Contents' = Contents
    BY <1>3, <2>1, <2>2
  <2>4. Contract!Rename(p, q)
    BY <2>1, <2>3 DEF Contract!Rename
  <2> QED
    BY <2>3, <2>4 DEF Contract!Next
<1> QED
  BY <1>2, <1>4, <1>5, <1>6

-----------------------------------------------------------------------------
(* open(). *)

\* An element more.
LEMMA AppendIs ==
    ASSUME NEW n \in Nat, NEW g, g = [i \in 1..n |-> g[i]], NEW x
    PROVE  Append(g, x) = [i \in 1..(n + 1) |-> IF i = n + 1 THEN x ELSE g[i]]
<1> DEFINE T == {g[i] : i \in 1..n} \cup {x}
<1>0. x \in T /\ \A i \in 1..n : g[i] \in T
  OBVIOUS
<1> HIDE DEF T
<1>1. g \in Seq(T)
  <2>1. g \in [1..n -> T]
    BY <1>0
  <2> QED
    BY <2>1
<1>2. Len(g) = n
  BY <1>1, LenProperties
<1> DEFINE a == Append(g, x)
<1>3. a \in Seq(T) /\ Len(a) = n + 1 /\ a[n + 1] = x /\ \A i \in 1..n : a[i] = g[i]
  BY <1>0, <1>1, <1>2, AppendProperties
<1> HIDE DEF a
<1>4. a = [i \in 1..(n + 1) |-> a[i]]
  BY <1>3, LenProperties
<1>5. \A i \in 1..(n + 1) : a[i] = IF i = n + 1 THEN x ELSE g[i]
  BY <1>3
<1> QED
  BY <1>4, <1>5 DEF a

\* A wrapper is made.
LEMMA TextsGrow ==
    ASSUME IoInv, NEW o, NEW newline \in Newlines, o \in 1..Len(raws'),
           texts' = Append(texts, Wrapper(o, newline))
    PROVE  TextsKept
<1>1. texts \in Seq(TextType) /\ Len(texts) \in Nat
  BY LenProperties DEF IoInv, Table
<1> DEFINE w == Wrapper(o, newline)
<1>2. w \in TextType /\ w.raw = o /\ w.pos = 0 /\ w.text = <<>> /\ ~ w.cached
  <2>1. <<>> \in Seq(Byte \ {Trail}) /\ <<>> \in Seq(Byte) /\ o \in Nat
    OBVIOUS
  <2> QED
    BY <2>1 DEF Wrapper, TextType
<1>3. w.pos <= Len(w.text)
  BY <1>2
<1> HIDE DEF w
<1>4. /\ texts' \in Seq(TextType) /\ Len(texts') = Len(texts) + 1
      /\ \A s \in 1..Len(texts) : texts'[s] = texts[s]
      /\ texts'[Len(texts) + 1] = w
  <2>1. texts' = Append(texts, w)
    BY DEF w
  <2> QED
    BY <1>1, <1>2, <2>1, AppendProperties
<1>5. \A s \in 1..Len(texts') : s \in 1..Len(texts) \/ s = Len(texts) + 1
  BY <1>1, <1>4
<1>6. \A s \in 1..Len(texts') :
         \/ s \in 1..Len(texts)
         \/ /\ texts'[s].raw \in 1..Len(raws') /\ texts'[s].pos <= Len(texts'[s].text)
            /\ ~ texts'[s].cached
  <2> SUFFICES ASSUME NEW s \in 1..Len(texts'), s = Len(texts) + 1
               PROVE  /\ texts'[s].raw \in 1..Len(raws')
                      /\ texts'[s].pos <= Len(texts'[s].text) /\ ~ texts'[s].cached
    BY <1>5
  <2>1. texts'[s] = w
    BY <1>4
  <2> QED
    BY <1>2, <1>3, <2>1
<1> QED
  BY <1>1, <1>4, <1>6 DEF TextsKept

\* A descriptor is made, with a raw object and perhaps a wrapper.
LEMMA OpenGrows ==
    ASSUME IoInv, NEW f \in FdType, f.node <= Len(inode'), f.pos \in MinPos..MaxLen,
           fds' = Append(fds, f),
           Nodes', Len(inode) <= Len(inode'), nodes' \in [Paths -> 0..Len(inode')],
           NEW k \in Nat, StillHeld(Reading, k), OnlyChanges(k),
           got' \in Seq(Byte),
           NEW r \in RawType, r.fd = Len(fds) + 1, raws' = Append(raws, r), TextsKept
    PROVE  /\ IoInv'
           /\ Descriptors' = Append(Descriptors, [file |-> f.node, pos |-> f.pos,
                                                  append |-> f.append])
<1>1. /\ Len(inode) \in Nat /\ Len(fds) \in Nat /\ Len(raws) \in Nat /\ Len(texts) \in Nat
      /\ DOMAIN inode = 1..Len(inode) /\ DOMAIN fds = 1..Len(fds)
      /\ DOMAIN texts = 1..Len(texts)
      /\ \A e \in 1..Len(fds) : fds[e] \in FdType
      /\ \A s \in 1..Len(texts) : texts[s] \in TextType /\ Fd(s) \in 1..Len(fds)
      /\ Reading \subseteq 1..Len(texts)
      /\ fds \in Seq(FdType) /\ raws \in Seq(RawType) /\ texts \in Seq(TextType)
  BY Tables DEF IoInv, Files, Table
<1>2. /\ fds' \in Seq(FdType) /\ Len(fds') = Len(fds) + 1
      /\ \A e \in 1..Len(fds) : fds'[e] = fds[e]
      /\ fds'[Len(fds) + 1] = f
  BY <1>1, AppendProperties
<1>3. /\ raws' \in Seq(RawType) /\ Len(raws') = Len(raws) + 1
      /\ \A o \in 1..Len(raws) : raws'[o] = raws[o]
      /\ raws'[Len(raws) + 1] = r
  BY <1>1, AppendProperties
<1>5. \A e \in 1..Len(fds') : e \in 1..Len(fds) \/ e = Len(fds) + 1
  BY <1>1, <1>2
<1>6. \A o \in 1..Len(raws') : o \in 1..Len(raws) \/ o = Len(raws) + 1
  BY <1>1, <1>3
<1>8. Files'
  <2>1. \A e \in 1..Len(fds') : fds'[e].node <= Len(inode') /\ fds'[e].pos \in MinPos..MaxLen
    <3> SUFFICES ASSUME NEW e \in 1..Len(fds')
                 PROVE  fds'[e].node <= Len(inode') /\ fds'[e].pos \in MinPos..MaxLen
      OBVIOUS
    <3>1. CASE e = Len(fds) + 1
      BY <1>2, <3>1
    <3>2. CASE e \in 1..Len(fds)
      <4>1. fds'[e] = fds[e] /\ fds[e] \in FdType /\ fds[e].node <= Len(inode)
            /\ fds[e].pos \in MinPos..MaxLen
        BY <1>1, <1>2, <3>2 DEF IoInv, Files
      <4>2. fds[e].node \in Nat /\ Len(inode') \in Nat
        BY <4>1, LenProperties DEF FdType, Nodes
      <4> QED
        BY <1>1, <4>1, <4>2
    <3> QED
      BY <1>5, <3>1, <3>2
  <2> QED
    BY <1>2, <2>1 DEF Files
<1>9. \A o \in 1..Len(raws') : raws'[o].fd \in 1..Len(fds')
  <2>1. \A o \in 1..Len(raws) : raws[o].fd \in 1..Len(fds)
    BY DEF IoInv, Table
  <2>4. 1..Len(fds) \subseteq 1..Len(fds') /\ Len(fds) + 1 \in 1..Len(fds')
    <3>1. Len(fds') = Len(fds) + 1 /\ Len(fds) \in Nat
      BY <1>1, <1>2
    <3> QED
      BY <3>1
  <2>2. \A o \in 1..Len(raws) : raws'[o].fd \in 1..Len(fds')
    <3> SUFFICES ASSUME NEW o \in 1..Len(raws) PROVE raws'[o].fd \in 1..Len(fds')
      OBVIOUS
    <3>1. raws'[o] = raws[o] /\ raws[o].fd \in 1..Len(fds)
      BY <1>3, <2>1
    <3> QED
      BY <2>4, <3>1
  <2>3. raws'[Len(raws) + 1].fd \in 1..Len(fds')
    <3>1. raws'[Len(raws) + 1] = r
      BY <1>3
    <3> QED
      BY <2>4, <3>1
  <2> QED
    BY <1>6, <2>2, <2>3
<1>10. \A o \in 1..Len(raws) : raws'[o].fd = raws[o].fd
  BY <1>3
<1>11. Len(raws) <= Len(raws') /\ raws' \in Seq(RawType)
  BY <1>1, <1>3
<1>12. /\ Table' /\ Reading' = Reading
       /\ \A s \in Reading : texts'[s] = texts[s] /\ Fd(s)' = Fd(s) /\ Fd(s) \in 1..Len(fds)
  BY <1>9, <1>10, <1>11, TableNext
<1>14. Caches'
  <2>1. \A s \in Reading : fds'[Fd(s)] = fds[Fd(s)]
    BY <1>2, <1>12
  <2> QED
    BY <1>12, <2>1, CachesNext
<1>15. \A e \in 1..Len(fds) : Position(e)' = Position(e)
  <2> SUFFICES ASSUME NEW e \in 1..Len(fds) PROVE Position(e)' = Position(e)
    OBVIOUS
  <2>1. \A s : s \in Reading' /\ Fd(s)' = e <=> s \in Reading /\ Fd(s) = e
    BY <1>12
  <2>2. fds'[e] = fds[e] /\ \A s \in Reading : Fd(s) = e => texts'[s] = texts[s]
    BY <1>2, <1>12
  <2> QED
    BY <1>12, <2>1, <2>2, PositionStays DEF IoInv
<1>e. PICK e \in Nat : e = Len(fds) + 1
  BY <1>1
<1>16. Position(e)' = f.pos
  <2>1. \A s \in Reading' : Fd(s)' # e
    BY <1>1, <1>12, <1>e
  <2>2. ~ Ahead(e)'
    BY <2>1 DEF Ahead
  <2>3. Position(e)' = fds'[e].pos
    BY <1>12, <2>2, PositionNext
  <2> QED
    BY <1>2, <1>e, <2>3
<1> DEFINE x == [file |-> f.node, pos |-> f.pos, append |-> f.append]
           y(i) == [file |-> fds'[i].node, pos |-> Position(i)', append |-> fds'[i].append]
           z(i) == [file |-> fds[i].node, pos |-> Position(i), append |-> fds[i].append]
<1>17. Descriptors' = [i \in 1..(Len(fds) + 1) |-> y(i)]
  <2>1. DOMAIN fds' = 1..(Len(fds) + 1)
    BY <1>2, LenProperties
  <2>2. Descriptors' = [i \in DOMAIN fds' |-> y(i)]
    BY DEF Descriptors
  <2> QED
    BY <2>1, <2>2
<1>18. Descriptors = [i \in 1..Len(fds) |-> z(i)]
  BY <1>1 DEF Descriptors
<1>19. \A i \in 1..Len(fds) : y(i) = z(i)
  BY <1>2, <1>15
<1>20. y(e) = x
  <2>1. fds'[e] = f
    BY <1>2, <1>e
  <2> QED
    BY <1>16, <2>1
<1> HIDE DEF x, y, z
<1>23. Append(Descriptors, x) = [i \in 1..(Len(fds) + 1) |->
                                    IF i = Len(fds) + 1 THEN x ELSE Descriptors[i]]
  <2> DEFINE n == Len(fds)
             g == Descriptors
  <2>1. n \in Nat /\ g = [i \in 1..n |-> g[i]]
    BY <1>1, <1>18
  <2> HIDE DEF n, g
  <2>2. Append(g, x) = [i \in 1..(n + 1) |-> IF i = n + 1 THEN x ELSE g[i]]
    BY <2>1, AppendIs
  <2> QED
    BY <2>2 DEF n, g
<1>24. \A i \in 1..(Len(fds) + 1) :
          y(i) = IF i = Len(fds) + 1 THEN x ELSE Descriptors[i]
  <2> SUFFICES ASSUME NEW i \in 1..(Len(fds) + 1)
               PROVE  y(i) = IF i = Len(fds) + 1 THEN x ELSE Descriptors[i]
    OBVIOUS
  <2>1. CASE i = e
    BY <1>20, <1>e, <2>1
  <2>2. CASE i # e
    <3>1. i \in 1..Len(fds) /\ i # Len(fds) + 1
      BY <1>1, <1>e, <2>2
    <3>2. Descriptors[i] = z(i)
      BY <1>18, <3>1
    <3> QED
      BY <1>19, <3>1, <3>2
  <2> QED
    BY <2>1, <2>2
<1>25. Descriptors' = Append(Descriptors, x)
  BY <1>17, <1>23, <1>24
<1> QED
  BY <1>8, <1>12, <1>14, <1>25 DEF IoInv, x

\* A path is opened, with a wrapper or without.
LEMMA PathOpens ==
    ASSUME IoInv, NEW p \in Paths, NEW mode, OpenPath(p, mode), NEW newline,
           \/ texts' = texts
           \/ newline \in Newlines /\ texts' = Append(texts, Wrapper(Len(raws'), newline))
    PROVE  IoInv' /\ Contract!Next
<1> DEFINE fl == ModeToFlags(mode)
           n == nodes'[p]
           f == [node |-> n, pos |-> IF fl.append THEN inode'[n].size ELSE 0,
                 readable |-> fl.acc # "wronly", append |-> fl.append]
           r == FileIO(Len(fds) + 1, mode, TRUE)
<1>1. /\ Len(inode) \in Nat /\ Len(fds) \in Nat /\ Len(raws) \in Nat /\ Len(texts) \in Nat
      /\ fds \in Seq(FdType) /\ Nodes /\ nodes \in [Paths -> 0..Len(inode)]
      /\ raws \in Seq(RawType) /\ Table /\ texts \in Seq(TextType) /\ Files
  BY Tables DEF IoInv, Files, Table
<1>2. /\ "w" \in mode /\ nodes[p] # 0 => MayChange(nodes[p], 0, Reading)
      /\ OpenOld(p, fl) \/ OpenNew(p, fl)
      /\ fds' = Append(fds, f) /\ got' = <<>> /\ got' \in Seq(Byte)
      /\ raws' = Append(raws, FileIO(Len(fds'), mode, TRUE))
  BY DEF OpenPath, Open
<1>3. fl.append \in BOOLEAN /\ fl.trunc \in BOOLEAN /\ (fl.trunc <=> "w" \in mode)
  <2>1. fl.append = ("a" \in mode) /\ fl.trunc = ("w" \in mode)
    BY DEF ModeToFlags
  <2>2. ("a" \in mode) \in BOOLEAN /\ ("w" \in mode) \in BOOLEAN
    OBVIOUS
  <2> HIDE DEF fl
  <2> QED
    BY <2>1, <2>2, Zenon
<1> HIDE DEF fl
<1>4. Len(fds') = Len(fds) + 1
  BY <1>1, <1>2 DEF f
<1>5. r \in RawType /\ r.fd = Len(fds) + 1 /\ raws' = Append(raws, r)
  BY <1>1, <1>2, <1>4 DEF FileIO, RawType
<1>6. Len(raws') = Len(raws) + 1
  BY <1>1, <1>5
<1>7. TextsKept
  <2>1. CASE texts' = texts
    BY <2>1, TextsSame
  <2>2. CASE newline \in Newlines /\ texts' = Append(texts, Wrapper(Len(raws'), newline))
    <3>1. Len(raws') \in 1..Len(raws')
      BY <1>1, <1>6
    <3> QED
      BY <2>2, <3>1, TextsGrow
  <2> QED
    BY <2>1, <2>2
<1> HIDE DEF r
<1>8. ASSUME Nodes', Len(inode) <= Len(inode'), nodes' \in [Paths -> 0..Len(inode')],
             n \in 1..Len(inode'), NEW k \in Nat, StillHeld(Reading, k), OnlyChanges(k)
      PROVE  /\ IoInv'
             /\ Descriptors' = Append(Descriptors, [file |-> n, pos |-> f.pos, append |-> fl.append])
  <2>1. IsNode(inode'[n]) /\ inode'[n].size <= MaxLen
    BY <1>8 DEF Nodes
  <2>2. inode'[n].size \in Nat /\ Len(inode') \in Nat
    BY <1>8, <2>1, WithinIs, LenProperties DEF Nodes
  <2> HIDE DEF n
  <2>3. f \in FdType /\ f.node = n /\ f.append = fl.append
    BY <1>3, <1>8, <2>2 DEF FdType
  <2>4. f.node <= Len(inode') /\ f.pos \in MinPos..MaxLen
    BY <1>8, <2>1, <2>2, <2>3, MemFsAssumption
  <2> HIDE DEF f
  <2>5. fds' = Append(fds, f)
    BY <1>2 DEF f, n
  <2>6. /\ IoInv'
        /\ Descriptors' = Append(Descriptors, [file |-> f.node, pos |-> f.pos,
                                               append |-> f.append])
    BY <1>2, <1>5, <1>7, <1>8, <2>3, <2>4, <2>5, OpenGrows
  <2> QED
    BY <2>3, <2>6
<1>9. CASE OpenOld(p, fl)
  <2> DEFINE k == nodes[p]
  <2>1. /\ k # 0 /\ ~ inode[k].isDir /\ UNCHANGED nodes /\ n = k
        /\ inode' = IF fl.trunc THEN [inode EXCEPT ![k] = Node(FALSE)] ELSE inode
    BY <1>9 DEF OpenOld
  <2>2. k \in 1..Len(inode) /\ k \in Nat
    BY <1>1, <2>1
  <2>3. IsNode(inode[k]) /\ Contents[k] = FileBytes(inode[k]) /\ k \in DOMAIN Contents
    BY <1>1, <2>2, ContentsIs DEF Nodes
  <2> HIDE DEF k, f, n
  <2>4. ~ Contents[k].dir
    BY <2>1, <2>3 DEF FileBytes
  <2>5. CASE fl.trunc
    <3>1. inode' = [inode EXCEPT ![k] = Node(FALSE)]
      BY <2>1, <2>5
    <3>2. /\ IsNode(Node(FALSE)) /\ Node(FALSE).size = 0 /\ Node(FALSE).size <= MaxLen
          /\ FileBytes(Node(FALSE)) = [dir |-> FALSE, bytes |-> <<>>]
      BY FreshNode
    <3>3. /\ Nodes' /\ Len(inode') = Len(inode) /\ inode'[k] = Node(FALSE)
          /\ OnlyChanges(k)
      BY <1>1, <2>2, <3>1, <3>2, NodeChanges DEF OnlyChanges
    <3>4. Contents' = [Contents EXCEPT ![k] = [dir |-> FALSE, bytes |-> <<>>]]
      BY <1>1, <2>2, <3>1, <3>2, ContentsNext
    <3>5. StillHeld(Reading, k)
      <4>1. MayChange(k, 0, Reading)
        BY <1>2, <1>3, <2>1, <2>5 DEF k
      <4>2. PICK m : m = Node(FALSE)
        OBVIOUS
      <4>3. IsNode(m) /\ inode'[k] = m /\ m.size = 0
        BY <3>2, <3>3, <4>2
      <4>4. \A q \in Nat : q <= 0 /\ q <= inode[k].size =>
                  q <= m.size /\ \A i \in 1..q : m.data[i] = inode[k].data[i]
        BY <4>3
      <4> QED
        BY <2>2, <4>1, <4>3, <4>4, MayStill
    <3>6. nodes' \in [Paths -> 0..Len(inode')] /\ n \in 1..Len(inode') /\ Len(inode) <= Len(inode')
      BY <1>1, <2>1, <2>2, <3>3
    <3>7. IoInv' /\ Descriptors' = Append(Descriptors, [file |-> n, pos |-> f.pos,
                                                        append |-> fl.append])
      BY <1>8, <2>2, <3>3, <3>5, <3>6
    <3>8. f.pos = 0
      BY <2>1, <3>2, <3>3 DEF f
    <3>9. Contents' = Contract!Emptied(k)
      <4>1. [dir |-> FALSE, bytes |-> <<>>] = [Contents[k] EXCEPT !.bytes = <<>>]
        <5> DEFINE v == inode[k].isDir
                   c == Contents[k]
        <5>1. v = FALSE
          BY <2>1, <2>3 DEF IsNode, NodeType
        <5>2. c = [dir |-> v, bytes |-> Within(inode[k])]
          BY <2>3 DEF FileBytes
        <5> HIDE DEF c, v
        <5>3. [dir |-> v, bytes |-> <<>>] = [c EXCEPT !.bytes = <<>>]
          BY <5>2
        <5>4. [dir |-> FALSE, bytes |-> <<>>] = [c EXCEPT !.bytes = <<>>]
          BY <5>1, <5>3, Zenon
        <5> QED
          BY <5>4 DEF c
      <4> QED
        BY <3>4, <4>1 DEF Contract!Emptied
    <3>10. Contents'[k].bytes = <<>>
      BY <2>3, <3>4
    <3>11. Contract!OpenOld(p, TRUE, fl.append)
      <4>1. Descriptors' = Append(Descriptors, Contract!Descriptor(nodes[p],
                              IF fl.append THEN Len(Contents'[nodes[p]].bytes) ELSE 0, fl.append))
        BY <2>1, <3>7, <3>8, <3>10 DEF Contract!Descriptor, k
      <4> QED
        BY <1>2, <2>1, <2>4, <3>9, <4>1 DEF Contract!OpenOld, k
    <3> QED
      BY <1>3, <3>7, <3>11 DEF Contract!Next
  <2>6. CASE ~ fl.trunc
    <3>1. inode' = inode
      BY <2>1, <2>6
    <3>2. Nodes' /\ Len(inode') = Len(inode) /\ OnlyChanges(0)
      BY <1>1, <3>1 DEF Nodes, OnlyChanges
    <3>3. Contents' = Contents
      BY <3>1 DEF Contents
    <3>4. StillHeld(Reading, 0)
      BY NoneHeld
    <3>5. nodes' \in [Paths -> 0..Len(inode')] /\ n \in 1..Len(inode') /\ Len(inode) <= Len(inode')
      BY <1>1, <2>1, <2>2, <3>2
    <3>6. IoInv' /\ Descriptors' = Append(Descriptors, [file |-> n, pos |-> f.pos,
                                                        append |-> fl.append])
      BY <1>8, <3>2, <3>4, <3>5
    <3>7. f.pos = IF fl.append THEN inode[k].size ELSE 0
      BY <2>1, <3>1 DEF f
    <3>8. Len(Contents[k].bytes) = inode[k].size
      BY <2>3, WithinIs DEF FileBytes
    <3>9. Contract!OpenOld(p, FALSE, fl.append)
      <4>1. Descriptors' = Append(Descriptors, Contract!Descriptor(nodes[p],
                              IF fl.append THEN Len(Contents'[nodes[p]].bytes) ELSE 0, fl.append))
        BY <2>1, <3>3, <3>6, <3>7, <3>8 DEF Contract!Descriptor, k
      <4> QED
        BY <1>2, <2>1, <2>4, <3>3, <4>1 DEF Contract!OpenOld, k
    <3> QED
      BY <1>3, <3>6, <3>9 DEF Contract!Next
  <2> QED
    BY <1>3, <2>5, <2>6
<1>10. CASE OpenNew(p, fl)
  <2> DEFINE k == Len(inode) + 1
  <2>1. /\ nodes[p] = 0 /\ inode' = Append(inode, Node(FALSE))
        /\ nodes' = [nodes EXCEPT ![p] = k]
    BY <1>10 DEF OpenNew
  <2>2. /\ IsNode(Node(FALSE)) /\ Node(FALSE).size = 0 /\ Node(FALSE).size <= MaxLen
        /\ FileBytes(Node(FALSE)) = [dir |-> FALSE, bytes |-> <<>>]
    BY FreshNode
  <2>3. /\ Nodes' /\ Len(inode') = k /\ inode'[k] = Node(FALSE)
        /\ \A i \in 1..Len(inode) : inode'[i] = inode[i]
    BY <1>1, <2>1, <2>2, NodeMade
  <2>4. Contents' = Append(Contents, [dir |-> FALSE, bytes |-> <<>>]) /\ Len(Contents) = Len(inode)
    BY <1>1, <2>1, <2>2, ContentsGrow, ContentsIs
  <2>5. n = k
    BY <1>1, <2>1
  <2>6. StillHeld(Reading, 0) /\ OnlyChanges(0)
    BY <2>3, NoneHeld DEF OnlyChanges
  <2> HIDE DEF f, n
  <2>7. nodes' \in [Paths -> 0..Len(inode')] /\ n \in 1..Len(inode') /\ Len(inode) <= Len(inode')
    BY <1>1, <2>1, <2>3, <2>5
  <2>8. IoInv' /\ Descriptors' = Append(Descriptors, [file |-> n, pos |-> f.pos,
                                                      append |-> fl.append])
    BY <1>8, <2>3, <2>6, <2>7
  <2>9. f.pos = 0
    BY <2>2, <2>3, <2>5 DEF f
  <2>10. Contract!OpenNew(p, fl.append)
    BY <1>2, <2>1, <2>4, <2>5, <2>8, <2>9 DEF Contract!OpenNew, Contract!Fresh, Contract!Descriptor
  <2> QED
    BY <1>3, <2>8, <2>10 DEF Contract!Next
<1> QED
  BY <1>2, <1>9, <1>10

\* The steps that open something.
LEMMA OpensStep ==
    ASSUME IoInv, Opens
    PROVE  IoInv' /\ Contract!Next
<1>1. ASSUME NEW p \in Paths, NEW m \in Modes, OpenBinary(p, m) PROVE IoInv' /\ Contract!Next
  BY <1>1, PathOpens DEF OpenBinary
<1>2. ASSUME NEW p \in Paths, NEW m \in Modes, NEW n \in Newlines, OpenText(p, m, n)
      PROVE  IoInv' /\ Contract!Next
  BY <1>2, PathOpens DEF OpenText
<1>3. ASSUME NEW d \in Opened, NEW m \in Modes, NEW c \in CloseFds, OpenFd(d, m, c),
             \/ UNCHANGED texts
             \/ \E n \in Newlines : texts' = Append(texts, Wrapper(Len(raws'), n))
      PROVE  IoInv' /\ Contract!Next
  <2> DEFINE r == FileIO(d, m, c)
  <2>1. /\ ~ Ahead(d) /\ raws' = Append(raws, r)
        /\ Lseek(d, 0, "end") \/ Idle
    BY <1>3 DEF OpenFd
  <2>2. d \in 1..Len(fds) /\ Len(fds) \in Nat
    BY FileIs, Tables DEF IoInv
  <2>3. r \in RawType /\ r.fd = d
    <3>1. c \in BOOLEAN /\ d \in Nat
      BY <2>2, IoAssumption
    <3> QED
      BY <3>1 DEF FileIO, RawType
  <2> HIDE DEF r
  <2>4. RawsKept
    BY <2>1, <2>2, <2>3, RawsGrow
  <2>5. Len(raws') \in 1..Len(raws')
    <3>1. Len(raws) \in Nat /\ Len(raws') = Len(raws) + 1
      BY <2>1, <2>3, Tables, AppendProperties DEF IoInv, Table
    <3> QED
      BY <3>1
  <2>6. TextsKept
    BY <1>3, <2>5, TextsSame, TextsGrow
  <2> QED
    BY <2>1, <2>4, <2>6, SeekStep, IdleStep
<1>4. ASSUME NEW d \in Opened, NEW m \in Modes, NEW c \in CloseFds,
             \/ OpenFdBinary(d, m, c)
             \/ \E n \in Newlines : OpenFdText(d, m, c, n)
      PROVE  IoInv' /\ Contract!Next
  BY <1>3, <1>4 DEF OpenFdBinary, OpenFdText
<1> QED
  BY <1>1, <1>2, <1>4 DEF Opens

-----------------------------------------------------------------------------
(* TextIOWrapper. *)

\* A wrapper in use, and its descriptor.
LEMMA TextIs ==
    ASSUME IoInv, NEW s \in Text
    PROVE  /\ s \in 1..Len(texts) /\ texts[s] \in TextType /\ ~ texts[s].closed
           /\ texts[s].pos <= Len(texts[s].text) /\ Fd(s) \in Opened
           /\ texts[s].raw \in 1..Len(raws) /\ raws[texts[s].raw] \in RawType
           /\ texts[s].cached => /\ s \in Reading /\ Position(Fd(s)) = Tell(s)
                                 /\ ReadsFrom(texts[s], fds[Fd(s)], NodeOf(Fd(s)))
           /\ ~ texts[s].cached => /\ ~ Ahead(Fd(s)) /\ Position(Fd(s)) = fds[Fd(s)].pos
                                   /\ Tell(s) = fds[Fd(s)].pos
           /\ Position(Fd(s)) = Tell(s)
           /\ \A r \in Reading : Fd(r) = Fd(s) => r = s
<1>1. /\ s \in 1..Len(texts) /\ texts[s] \in TextType /\ ~ texts[s].closed
      /\ texts[s].pos <= Len(texts[s].text) /\ Fd(s) \in Opened
      /\ texts[s].raw \in 1..Len(raws) /\ raws[texts[s].raw] \in RawType
      /\ Reading \subseteq 1..Len(texts)
  BY Tables DEF IoInv, Text, Table
<1>2. ASSUME texts[s].cached
      PROVE  /\ s \in Reading /\ Position(Fd(s)) = Tell(s)
             /\ ReadsFrom(texts[s], fds[Fd(s)], NodeOf(Fd(s)))
  <2>1. s \in Reading
    BY <1>1, <1>2 DEF Reading, Text
  <2> QED
    BY <2>1, PositionIs DEF IoInv, Caches, NodeOf
<1>3. ASSUME ~ texts[s].cached
      PROVE  /\ ~ Ahead(Fd(s)) /\ Position(Fd(s)) = fds[Fd(s)].pos
             /\ Tell(s) = fds[Fd(s)].pos
  <2>1. s \notin Reading
    BY <1>3 DEF Reading
  <2>2. \A r \in Reading : Fd(r) # Fd(s)
    BY <2>1 DEF Text
  <2>3. ~ Ahead(Fd(s))
    BY <2>2 DEF Ahead
  <2> QED
    BY <1>3, <2>3, PositionIs DEF IoInv, Tell
<1>4. \A r \in Reading : Fd(r) = Fd(s) => r = s
  BY DEF Text
<1> QED
  BY <1>1, <1>2, <1>3, <1>4

\* All that is left of the file.
LEMMA RestIs ==
    ASSUME IoInv, NEW d \in Opened, fds[d].pos >= 0
    PROVE  /\ ReadEnd(d, Wanted(d, -1)) = NodeOf(d).size
           /\ Wanted(d, -1) \in Nat
<1>0. fds[d].pos \in Int /\ NodeOf(d).size \in Nat
  BY FileIs, Zenon
<1>1. fds[d].pos \in Nat /\ NodeOf(d).size \in Nat
  BY <1>0
<1>2. Wanted(d, -1) \in Nat
  BY WantedIs
<1>3. Wanted(d, -1) = Larger(NodeOf(d).size - fds[d].pos, 0)
  BY DEF Wanted
<1>4. fds[d].pos + Wanted(d, -1) >= NodeOf(d).size
  BY <1>1, <1>3 DEF Larger
<1> QED
  BY <1>1, <1>2, <1>4, ReadEndIs

\* What ensureText makes of a wrapper.
LEMMA EnsuredIs ==
    ASSUME IoInv, NEW s \in Text, texts[s].cached \/ fds[Fd(s)].pos >= 0
    PROVE  LET w == EnsureText(s)
               d == Fd(s)
               n == NodeOf(Fd(s))
               q == w.start + Len(w.read)
           IN  /\ w \in TextType /\ w.cached /\ ~ w.closed /\ w.raw = texts[s].raw
               /\ w.newline = texts[s].newline
               /\ w.text = TextOf(w.read, w.newline) /\ w.pos <= Len(w.text)
               /\ q \in Nat /\ q <= MaxLen /\ Held(w, n, q)
               /\ q = IF texts[s].cached THEN fds[d].pos ELSE Larger(fds[d].pos, n.size)
               /\ texts[s].cached => w = texts[s]
               /\ ~ texts[s].cached => w.start = fds[d].pos /\ w.pos = 0
<1> DEFINE w == EnsureText(s)
           d == Fd(s)
           n == NodeOf(d)
           b == SubSeq(n.data, fds[d].pos + 1, n.size)
           q == w.start + Len(w.read)
<1>1. /\ s \in 1..Len(texts) /\ texts[s] \in TextType /\ ~ texts[s].closed
      /\ texts[s].pos <= Len(texts[s].text) /\ d \in Opened
  BY TextIs
<1>2. /\ IsNode(n) /\ n.size \in Nat /\ n.size <= MaxLen /\ fds[d].pos \in Int
      /\ fds[d].pos \in MinPos..MaxLen
  BY <1>1, FileIs, Zenon
<1>0. n.size \in 0..n.size /\ fds[d].pos <= MaxLen
  BY <1>2
<1>3. CASE texts[s].cached
  <2>1. w = texts[s]
    BY <1>3 DEF EnsureText
  <2>2. ReadsFrom(texts[s], fds[d], n)
    BY <1>3, TextIs
  <2>3. w.start \in Nat /\ Len(w.read) \in Nat
    BY <1>1, <2>1, LenProperties DEF TextType
  <2> HIDE DEF w, n
  <2>4. q = fds[d].pos /\ w.text = TextOf(w.read, w.newline) /\ Held(w, n, q)
    BY <2>1, <2>2 DEF ReadsFrom
  <2> QED
    BY <1>0, <1>1, <1>3, <2>1, <2>3, <2>4 DEF w, n
<1>4. CASE ~ texts[s].cached
  <2>0. fds[d].pos \in Nat
    BY <1>2, <1>4
  <2>1. Slice(d, ReadEnd(d, Wanted(d, -1))) = b
    BY <1>1, <1>4, RestIs DEF Slice
  <2>2. b \in Seq(Byte) /\ Len(b) = IF fds[d].pos < n.size THEN n.size - fds[d].pos ELSE 0
    <3> HIDE DEF n
    <3> QED
      BY <1>0, <1>2, <2>0, SliceIs
  <2>3. TextOf(b, texts[s].newline) \in Seq(Byte \ {Trail})
    <3> HIDE DEF b
    <3> QED
      BY <2>2, TextOfType
  <2> HIDE DEF b
  <2>4. w = [texts[s] EXCEPT !.cached = TRUE, !.text = TextOf(b, texts[s].newline), !.pos = 0,
                             !.start = fds[d].pos, !.read = b]
    BY <1>4, <2>1 DEF EnsureText
  <2> HIDE DEF w, n
  <2>5. /\ w \in TextType /\ w.cached /\ ~ w.closed /\ w.raw = texts[s].raw
        /\ w.newline = texts[s].newline
        /\ w.text = TextOf(b, w.newline) /\ w.pos = 0 /\ w.start = fds[d].pos /\ w.read = b
    BY <1>1, <2>0, <2>2, <2>3, <2>4 DEF TextType
  <2>6. w.pos <= Len(w.text)
    BY <2>3, <2>5, LenProperties
  <2>7. w.read = SubSeq(n.data, w.start + 1, n.size)
    BY <2>5 DEF b
  <2>8. q = Larger(fds[d].pos, n.size) /\ q <= MaxLen /\ q \in Nat
        /\ (w.start < n.size => q = n.size) /\ (~ (w.start < n.size) => Len(w.read) = 0)
    BY <1>0, <1>2, <2>0, <2>2, <2>5 DEF Larger
  <2>9. Held(w, n, q)
    <3>1. CASE w.start < n.size
      <4>1. q = n.size /\ n.size <= n.size
        BY <1>2, <2>8, <3>1
      <4> HIDE DEF q
      <4>2. q <= n.size /\ w.read = SubSeq(n.data, w.start + 1, q)
        BY <2>7, <4>1
      <4> QED
        BY <4>2 DEF Held
    <3>2. CASE ~ (w.start < n.size)
      <4>1. w.read \in Seq(Byte) /\ Len(w.read) = 0
        BY <2>2, <2>5, <2>8, <3>2
      <4> DEFINE r == w.read
      <4>2. r \in Seq(Byte) /\ Len(r) = 0
        BY <4>1
      <4> HIDE DEF r
      <4>3. r = <<>>
        BY <4>2, EmptySeq
      <4> QED
        BY <4>3 DEF Held, r
    <3> QED
      BY <3>1, <3>2
  <2> QED
    BY <1>4, <2>5, <2>6, <2>8, <2>9 DEF w, n
<1> QED
  BY <1>3, <1>4

\* A part of what is left of a file.
LEMMA PartOfRest ==
    ASSUME NEW n, IsNode(n), NEW z \in 0..n.size, NEW a \in Nat, NEW p \in Nat, NEW e \in Nat, p <= e,
           e <= IF a < z THEN z - a ELSE 0
    PROVE  SubSeq(SubSeq(n.data, a + 1, z), p + 1, e)
             = SubSeq(Within(n), a + p + 1, a + e)
<1> DEFINE r == SubSeq(n.data, a + 1, z)
           u == Within(n)
           x == SubSeq(r, p + 1, e)
           y == SubSeq(u, a + p + 1, a + e)
<1>1. /\ n.size \in Nat /\ u \in Seq(Byte) /\ Len(u) = n.size /\ z \in 0..Len(u) /\ z \in Nat
      /\ \A i \in 1..n.size : u[i] = n.data[i]
  <2>1. n.size \in Nat
    BY WithinIs
  <2> QED
    BY <2>1, WithinIs
<1>2. CASE p = e
  <2>1. p + 1 \in Int /\ e \in Int /\ e < p + 1 /\ a + p + 1 \in Int /\ a + e \in Int
        /\ a + e < a + p + 1
    BY <1>2
  <2> HIDE DEF r, u
  <2>2. x = <<>>
    BY <2>1, SubSeqEmpty
  <2> DEFINE i == a + p + 1
             j == a + e
  <2>3. i \in Int /\ j \in Int /\ j < i
    BY <2>1
  <2> HIDE DEF i, j
  <2>4. SubSeq(u, i, j) = <<>>
    BY <2>3, SubSeqEmpty
  <2> QED
    BY <2>2, <2>4 DEF r, u, i, j
<1>3. CASE p < e
  <2>1. a < z /\ e <= z - a
    BY <1>1, <1>3
  <2>2. r = SubSeq(u, a + 1, z) /\ r \in Seq(Byte) /\ Len(r) = z - a
    BY <1>1, <2>1, SliceIs
  <2>3. /\ u \in Seq(Byte) /\ a \in 0..Len(u) /\ z \in 0..Len(u) /\ a <= z
        /\ p \in 0..Len(r) /\ e \in 0..Len(r) /\ p <= e
        /\ a + p \in 0..Len(u) /\ a + e \in 0..Len(u) /\ a + p <= a + e
    BY <1>1, <1>3, <2>1, <2>2
  <2>4. r = SubSeq(u, a + 1, z) /\ z \in 0..Len(u) /\ a <= z /\ z \in Nat
    BY <1>1, <2>2, <2>3
  <2> HIDE DEF r, u
  <2>5. \A i \in 1..(z - a) : r[i] = u[a + i]
    BY <2>3, <2>4, PartIs
  <2>6. x \in Seq(Byte) /\ Len(x) = e - p /\ \A i \in 1..(e - p) : x[i] = r[p + i]
    BY <2>2, <2>3, PartIs, SMTT(20)
  <2> DEFINE k == a + p
             l == a + e
  <2>7. k \in 0..Len(u) /\ l \in 0..Len(u) /\ k <= l
    BY <2>3
  <2> HIDE DEF k, l
  <2>8. /\ SubSeq(u, k + 1, l) \in Seq(Byte) /\ Len(SubSeq(u, k + 1, l)) = l - k
        /\ \A i \in 1..(l - k) : SubSeq(u, k + 1, l)[i] = u[k + i]
    BY <2>3, <2>7, PartIs
  <2>9. l - k = e - p /\ k + 1 = a + p + 1
    BY DEF k, l
  <2>10. y \in Seq(Byte) /\ Len(y) = e - p /\ \A i \in 1..(e - p) : y[i] = u[k + i]
    BY <2>8, <2>9 DEF l
  <2>11. \A i \in 1..(e - p) : p + i \in 1..(z - a) /\ a + (p + i) = k + i
    BY <2>1, <2>4 DEF k
  <2>12. \A i \in 1..(e - p) : x[i] = y[i]
    BY <2>5, <2>6, <2>10, <2>11
  <2> HIDE DEF x, y
  <2>13. x = y
    BY <2>6, <2>10, <2>12, SeqEqual
  <2> QED
    BY <2>13 DEF x, y, r, u
<1>4. p = e \/ p < e
  OBVIOUS
<1> HIDE DEF r, u
<1> QED
  BY <1>2, <1>3, <1>4, Zenon DEF r, u

\* Only the position differs.
LEMMA PosOf ==
    ASSUME IoInv, NEW d \in Opened, NEW p
    PROVE  [Descriptors EXCEPT ![d] = [file |-> fds[d].node, append |-> fds[d].append, pos |-> p]]
             = [Descriptors EXCEPT ![d].pos = p]
<1>1. Descriptors[d] = [file |-> fds[d].node, pos |-> Position(d), append |-> fds[d].append]
  BY FileIs
<1> DEFINE c == Descriptors[d]
<1>2. c = [file |-> fds[d].node, pos |-> Position(d), append |-> fds[d].append]
  BY <1>1
<1> HIDE DEF c
<1>3. [c EXCEPT !.pos = p] = [file |-> fds[d].node, append |-> fds[d].append, pos |-> p]
  BY <1>2
<1> QED
  BY <1>3 DEF c

\* A step with wrapper s that changes no node.
LEMMA TextSets ==
    ASSUME IoInv, NEW s \in Text,
           NEW f \in FdType, f.node <= Len(inode), f.pos \in MinPos..MaxLen,
           fds' = [fds EXCEPT ![Fd(s)] = f],
           UNCHANGED <<nodes, inode>>, got' \in Seq(Byte),
           NEW w \in TextType, w.raw = texts[s].raw, w.pos <= Len(w.text),
           texts' = [texts EXCEPT ![s] = w],
           w.cached /\ ~ w.closed => f.node # 0 /\ ReadsFrom(w, f, inode[f.node]),
           raws' = raws \/ (RawsKept /\ Len(raws') = Len(raws))
    PROVE  /\ IoInv' /\ Contents' = Contents
           /\ Descriptors' = [Descriptors EXCEPT ![Fd(s)] =
                [file |-> f.node, append |-> f.append,
                 pos |-> IF w.cached /\ ~ w.closed
                         THEN w.start + Bytelen(SubSeq(w.text, 1, w.pos)) ELSE f.pos]]
<1>1. s \in 1..Len(texts) /\ \A r \in Reading : Fd(r) = Fd(s) => r = s
  BY TextIs
<1>2. Nodes' /\ Len(inode') = Len(inode) /\ OnlyChanges(0)
  BY DEF Nodes, IoInv, Files, OnlyChanges
<1>3. StillHeld(Reading \ {s}, 0)
  BY NoneHeld DEF StillHeld
<1>4. Contents' = Contents
  BY DEF Contents
<1>5. RawsKept /\ Len(raws') = Len(raws)
  BY RawsSame
<1>6. /\ raws' \in Seq(RawType) /\ Len(raws') = Len(raws)
      /\ \A o \in 1..Len(raws) : raws'[o].fd = raws[o].fd
  BY <1>5 DEF RawsKept
<1>7. w.cached /\ ~ w.closed => f.node # 0 /\ ReadsFrom(w, f, inode'[f.node])
  OBVIOUS
<1> QED
  BY <1>1, <1>2, <1>3, <1>4, <1>6, <1>7, TextStep

\* How far a text has been handed out, in bytes.
LEMMA TellIs ==
    ASSUME NEW w \in TextType, w.read \in Seq(Byte), w.text = TextOf(w.read, w.newline),
           Decodable(w.read), NoNewline \notin Newlines
    PROVE  \E e \in [0..Len(w.text) -> 0..Len(w.read)] :
             /\ e[0] = 0
             /\ \A j \in 0..Len(w.text) : Bytelen(SubSeq(w.text, 1, j)) = e[j]
             /\ \A i, j \in 0..Len(w.text) : i <= j =>
                  /\ e[i] <= e[j]
                  /\ Encode(SubSeq(w.text, i + 1, j)) = SubSeq(w.read, e[i] + 1, e[j])
<1>1. w.text = Decode(w.read)
  BY DEF TextOf, TextType
<1> DEFINE b == w.read
           t == w.text
<1>2. b \in Seq(Byte) /\ Decodable(b) /\ t = Decode(b)
  BY <1>1
<1>3. Len(t) \in Nat
  BY LenProperties DEF TextType
<1> HIDE DEF b, t
<1>4. PICK e \in [0..Len(t) -> 0..Len(b)] :
        /\ e[0] = 0
        /\ \A i, j \in 0..Len(t) : i <= j =>
             /\ e[i] <= e[j]
             /\ Encode(SubSeq(t, i + 1, j)) = SubSeq(b, e[i] + 1, e[j])
             /\ Bytelen(SubSeq(t, i + 1, j)) = e[j] - e[i]
  BY <1>2, PartsOf, SMTT(20)
<1>5. ASSUME NEW j \in 0..Len(t) PROVE Bytelen(SubSeq(t, 1, j)) = e[j]
  <2>1. 0 \in 0..Len(t) /\ 0 <= j
    BY <1>3
  <2>2. Bytelen(SubSeq(t, 0 + 1, j)) = e[j] - e[0]
    BY <1>4, <2>1
  <2>3. 0 + 1 = 1 /\ e[j] - e[0] = e[j]
    <3>1. e[j] \in Int
      BY <1>4
    <3> QED
      BY <1>4, <3>1
  <2> QED
    BY <2>2, <2>3
<1> QED
  BY <1>4, <1>5 DEF b, t

\* A translated text is no longer, in bytes, than the one it comes from.
LEMMA TranslatedIsShorter ==
    ASSUME NEW t \in Seq(Byte \ {Trail}), NEW j \in 0..Len(Translate(t))
    PROVE  \E m \in 0..Len(t) :
             /\ Bytelen(SubSeq(Translate(t), 1, j)) \in Nat
             /\ Bytelen(SubSeq(t, 1, m)) \in Nat
             /\ Bytelen(SubSeq(Translate(t), 1, j)) <= Bytelen(SubSeq(t, 1, m))
<1> DEFINE K == {i \in DOMAIN t : ~ (t[i] = LF /\ i > 1 /\ t[i - 1] = CR)}
           s == [i \in DOMAIN t |-> IF t[i] = CR THEN LF ELSE t[i]]
           u == Translate(t)
           c == Cardinality(K)
           f == [k \in 1..c |-> Nth(K, k)]
           n == Len(t)
<1>1. /\ n \in Nat /\ DOMAIN t = 1..n /\ \A i \in 1..n : t[i] \in Byte \ {Trail}
      /\ t \in Seq(Byte)
  <2>1. /\ n \in Nat /\ DOMAIN t = 1..n /\ \A i \in 1..n : t[i] \in Byte \ {Trail}
    BY LenProperties
  <2> QED
    BY <2>1
<1>2. K \in SUBSET (1..n) /\ K \in SUBSET Int /\ IsFiniteSet(K)
  <2>1. K \in SUBSET (1..n) /\ K \in SUBSET Int
    BY <1>1
  <2>2. IsFiniteSet(1..n)
    BY <1>1, FS_Interval
  <2> HIDE DEF K, n
  <2> QED
    BY <2>1, <2>2, FS_Subset
<1>3. u = Picked(s, K)
  BY DEF Translate
<1>4. c \in Nat /\ Lists(f, c, K)
  <2> HIDE DEF K
  <2> QED
    BY <1>2, NthLists
<1>5. s \in Seq(Byte) /\ DOMAIN s = 1..n /\ \A i \in 1..n : s[i] = Lead => t[i] = Lead
  <2>1. \A i \in 1..n : s[i] = IF t[i] = CR THEN LF ELSE t[i]
    BY <1>1
  <2>2. DOMAIN s = 1..n
    BY <1>1
  <2>3. LF \in Byte /\ LF # Lead
    BY IoAssumption
  <2>4. s = [i \in 1..n |-> IF t[i] = CR THEN LF ELSE t[i]]
    BY <1>1
  <2> HIDE DEF s, n
  <2>5. \A i \in 1..n : s[i] \in Byte /\ (s[i] = Lead => t[i] = Lead)
    BY <1>1, <2>1, <2>3
  <2>6. s \in Seq(Byte)
    BY <1>1, <2>4, <2>5
  <2> QED
    BY <2>2, <2>5, <2>6
<1>6. u = [k \in 1..c |-> s[f[k]]]
  <2> HIDE DEF K, f, s, u, c
  <2> QED
    BY <1>2, <1>3, <1>4, PickedIs
<1> HIDE DEF K, f, s, u, c, n
<1>7. u \in Seq(Byte) /\ Len(u) = c /\ \A i \in 1..c : f[i] \in 1..n /\ u[i] = s[f[i]]
  <2>1. \A i \in 1..c : f[i] \in 1..n
    BY <1>2, <1>4 DEF Lists
  <2>2. \A i \in 1..n : s[i] \in Byte
    BY <1>5, LenProperties
  <2>3. \A i \in 1..c : s[f[i]] \in Byte
    BY <2>1, <2>2
  <2> QED
    BY <1>4, <1>6, <2>1, <2>3
<1>8. j \in 0..c
  BY <1>7 DEF u
<1>9. CASE j = 0
  <2>1. SubSeq(u, 1, 0) = <<>> /\ SubSeq(t, 1, 0) = <<>>
    BY SubSeqEmpty
  <2>2. Bytelen(<<>>) \in Nat
    <3>1. {i \in DOMAIN (<<>>) : (<<>>)[i] = Lead} = {}
      OBVIOUS
    <3>2. Cardinality({}) = 0 /\ Len(<<>>) = 0
      BY FS_EmptySet
    <3> QED
      BY <3>1, <3>2 DEF Bytelen
  <2>3. \E m \in 0..n : /\ Bytelen(SubSeq(u, 1, j)) \in Nat
                        /\ Bytelen(SubSeq(t, 1, m)) \in Nat
                        /\ Bytelen(SubSeq(u, 1, j)) <= Bytelen(SubSeq(t, 1, m))
    <3>1. 0 \in 0..n
      BY <1>1
    <3>2. Bytelen(SubSeq(u, 1, j)) = Bytelen(<<>>) /\ Bytelen(SubSeq(t, 1, 0)) = Bytelen(<<>>)
      BY <1>9, <2>1
    <3>3. Bytelen(<<>>) <= Bytelen(<<>>)
      BY <2>2
    <3> QED
      BY <2>2, <3>1, <3>2, <3>3
  <2> QED
    BY <2>3 DEF u, n
<1>10. CASE j \in 1..c
  <2> DEFINE m == f[j]
             v == SubSeq(u, 1, j)
             x == SubSeq(t, 1, m)
             A == {i \in 1..j : u[i] = Lead}
             B == {i \in 1..m : t[i] = Lead}
  <2>1. m \in 1..n /\ j \in Nat /\ m \in Nat
    BY <1>1, <1>4, <1>7, <1>10
  <2>2. \A i \in 1..j : f[i] \in 1..m
    <3> SUFFICES ASSUME NEW i \in 1..j PROVE f[i] \in 1..m
      OBVIOUS
    <3>1. i \in 1..c /\ (i = j \/ i < j)
      BY <1>4, <1>10
    <3>2. f[i] \in 1..n
      BY <1>7, <3>1
    <3>3. i < j => f[i] < m
      BY <1>4, <1>10, <3>1 DEF Lists
    <3>4. i = j => f[i] = m
      OBVIOUS
    <3> HIDE DEF m
    <3> QED
      BY <1>1, <2>1, <3>1, <3>2, <3>3, <3>4
  <2>3. \A i, k \in 1..j : f[i] = f[k] => i = k
    <3> SUFFICES ASSUME NEW i \in 1..j, NEW k \in 1..j, i # k PROVE f[i] # f[k]
      OBVIOUS
    <3>1. i \in 1..c /\ k \in 1..c /\ (i < k \/ k < i)
      BY <1>4, <1>10
    <3>2. f[i] \in Int /\ f[k] \in Int
      BY <1>7, <3>1
    <3>3. (i < k => f[i] < f[k]) /\ (k < i => f[k] < f[i])
      BY <1>4, <3>1 DEF Lists
    <3> QED
      BY <3>1, <3>2, <3>3
  <2>4. /\ Len(v) = j /\ DOMAIN v = 1..j /\ \A i \in 1..j : v[i] = u[i]
    <3>1. v \in Seq(Byte) /\ Len(v) = j - 0 /\ \A i \in 1..(j - 0) : v[i] = u[0 + i]
      <4>1. SubSeq(u, 0 + 1, j) = v /\ 0 \in 0..Len(u) /\ j \in 0..Len(u) /\ 0 <= j
        BY <1>7, <1>8, <1>10
      <4> HIDE DEF v
      <4> QED
        BY <1>7, <4>1, PartIs
    <3> HIDE DEF v
    <3> QED
      BY <2>1, <3>1, LenProperties
  <2>5. /\ Len(x) = m /\ DOMAIN x = 1..m /\ \A i \in 1..m : x[i] = t[i]
    <3> HIDE DEF m
    <3>1. x \in Seq(Byte) /\ Len(x) = m - 0 /\ \A i \in 1..(m - 0) : x[i] = t[0 + i]
      <4>1. SubSeq(t, 0 + 1, m) = x /\ 0 \in 0..Len(t) /\ m \in 0..Len(t) /\ 0 <= m
        BY <1>1, <2>1 DEF n
      <4> HIDE DEF x
      <4> QED
        BY <1>1, <4>1, PartIs
    <3> HIDE DEF x
    <3> QED
      BY <2>1, <3>1, LenProperties
  <2> HIDE DEF m, v, x
  <2>6. IsFiniteSet(1..j) /\ Cardinality(1..j) = j /\ IsFiniteSet(1..m) /\ Cardinality(1..m) = m
    BY <1>10, <2>1, FS_Interval
  <2>7. j <= m
    <3> DEFINE g == [i \in 1..j |-> f[i]]
    <3>1. g \in Injection(1..j, 1..m)
      BY <2>2, <2>3 DEF Injection, IsInjective
    <3> HIDE DEF g
    <3> QED
      BY <2>6, <3>1, FS_Injection
  <2>8. IsFiniteSet(A) /\ IsFiniteSet(B) /\ Cardinality(A) \in Nat /\ Cardinality(B) \in Nat
    <3>1. A \in SUBSET (1..j) /\ B \in SUBSET (1..m)
      OBVIOUS
    <3> HIDE DEF A, B
    <3>2. IsFiniteSet(A) /\ IsFiniteSet(B)
      BY <2>6, <3>1, FS_Subset
    <3> QED
      BY <3>2, FS_CardinalityType
  <2>9. Cardinality(A) <= Cardinality(B)
    <3> DEFINE h == [i \in A |-> f[i]]
    <3>1. \A i \in A : f[i] \in B
      <4> SUFFICES ASSUME NEW i \in 1..j, u[i] = Lead PROVE f[i] \in 1..m /\ t[f[i]] = Lead
        OBVIOUS
      <4>1. i \in 1..c
        BY <1>4, <1>10
      <4>2. f[i] \in 1..n /\ s[f[i]] = Lead
        BY <1>7, <4>1
      <4> QED
        BY <1>5, <2>2, <4>2
    <3>2. \A i, k \in A : f[i] = f[k] => i = k
      BY <2>3
    <3> HIDE DEF A, B
    <3>3. h \in Injection(A, B)
      BY <3>1, <3>2 DEF Injection, IsInjective
    <3> HIDE DEF h
    <3> QED
      BY <2>8, <3>3, FS_Injection
  <2>10. {i \in DOMAIN v : v[i] = Lead} = A /\ {i \in DOMAIN x : x[i] = Lead} = B
    BY <2>4, <2>5
  <2> HIDE DEF A, B
  <2>11. Bytelen(v) = j + Cardinality(A) /\ Bytelen(x) = m + Cardinality(B)
    BY <2>4, <2>5, <2>10 DEF Bytelen
  <2>12. Bytelen(v) \in Nat /\ Bytelen(x) \in Nat /\ Bytelen(v) <= Bytelen(x)
    BY <2>1, <2>7, <2>8, <2>9, <2>11
  <2>13. m \in 0..n
    BY <1>1, <2>1
  <2> QED
    BY <2>12, <2>13 DEF v, x, u, n
<1> QED
  BY <1>4, <1>8, <1>9, <1>10

\* What is handed out of a text stands for no more bytes than were read.
LEMMA TellWithin ==
    ASSUME NEW w \in TextType, w.read \in Seq(Byte), w.text = TextOf(w.read, w.newline),
           Decodable(w.read), NEW j \in 0..Len(w.text)
    PROVE  Bytelen(SubSeq(w.text, 1, j)) \in 0..Len(w.read)
<1> DEFINE b == w.read
           t == Decode(b)
<1>1. b \in Seq(Byte) /\ Decodable(b) /\ Len(b) \in Nat /\ t \in Seq(Byte \ {Trail}) /\ Len(t) \in Nat
  <2>1. b \in Seq(Byte) /\ Decodable(b)
    OBVIOUS
  <2> HIDE DEF b
  <2> QED
    BY <2>1, StartsListed, DecodeIs, LenProperties
<1>0. t = Decode(b)
  OBVIOUS
<1> HIDE DEF b, t
<1>2. PICK e \in [0..Len(t) -> 0..Len(b)] :
        /\ e[0] = 0
        /\ \A i, k \in 0..Len(t) : i <= k =>
             /\ e[i] <= e[k]
             /\ Encode(SubSeq(t, i + 1, k)) = SubSeq(b, e[i] + 1, e[k])
             /\ Bytelen(SubSeq(t, i + 1, k)) = e[k] - e[i]
  <2>1. b \in Seq(Byte) /\ Decodable(b) /\ t = Decode(b)
    BY <1>0, <1>1
  <2> QED
    BY <2>1, PartsOf, SMTT(40)
<1>3. ASSUME NEW k \in 0..Len(t) PROVE Bytelen(SubSeq(t, 1, k)) \in 0..Len(b)
  <2>1. 0 \in 0..Len(t) /\ 0 <= k
    BY <1>1
  <2>2. Bytelen(SubSeq(t, 0 + 1, k)) = e[k] - e[0]
    BY <1>2, <2>1
  <2>3. 0 + 1 = 1 /\ e[k] - e[0] = e[k] /\ e[k] \in 0..Len(b)
    <3>1. e[k] \in 0..Len(b)
      BY <1>2
    <3> QED
      BY <1>1, <1>2, <3>1
  <2> QED
    BY <2>2, <2>3
<1>4. CASE w.newline # NoNewline
  <2>1. w.text = t
    BY <1>4 DEF TextOf, t, b
  <2> QED
    BY <1>3, <2>1 DEF b
<1>5. CASE w.newline = NoNewline
  <2>1. w.text = Translate(t)
    BY <1>5 DEF TextOf, t, b
  <2>2. j \in 0..Len(Translate(t))
    BY <2>1
  <2>3. PICK m \in 0..Len(t) :
             /\ Bytelen(SubSeq(Translate(t), 1, j)) \in Nat
             /\ Bytelen(SubSeq(t, 1, m)) \in Nat
             /\ Bytelen(SubSeq(Translate(t), 1, j)) <= Bytelen(SubSeq(t, 1, m))
    BY <1>1, <2>2, TranslatedIsShorter
  <2>4. Bytelen(SubSeq(t, 1, m)) \in 0..Len(b)
    BY <1>3
  <2>5. Bytelen(SubSeq(Translate(t), 1, j)) \in 0..Len(b)
    BY <1>1, <2>3, <2>4
  <2> QED
    BY <2>1, <2>5 DEF b
<1> QED
  BY <1>4, <1>5

\* A text is some bytes long.
LEMMA BytelenType ==
    ASSUME NEW t \in Seq(Byte)
    PROVE  Bytelen(t) \in Nat
<1>1. Len(t) \in Nat /\ DOMAIN t = 1..Len(t)
  BY LenProperties
<1>2. IsFiniteSet(1..Len(t))
  BY <1>1, FS_Interval
<1> DEFINE L == {i \in DOMAIN t : t[i] = Lead}
<1>3. L \in SUBSET (1..Len(t))
  BY <1>1
<1> HIDE DEF L
<1>4. Cardinality(L) \in Nat
  BY <1>2, <1>3, FS_Subset, FS_CardinalityType
<1> QED
  BY <1>1, <1>4 DEF Bytelen, L

\* The program is somewhere, before the start of its file or after it.
LEMMA PositionType ==
    ASSUME IoInv, NEW d \in Opened
    PROVE  Position(d) \in Int
<1>1. CASE ~ Ahead(d)
  BY <1>1, FileIs, PositionIs DEF IoInv
<1>2. CASE Ahead(d)
  <2>1. PICK s \in Reading : Fd(s) = d
    BY <1>2 DEF Ahead
  <2>2. /\ texts[s] \in TextType /\ texts[s].cached /\ texts[s].pos <= Len(texts[s].text)
        /\ Position(d) = Tell(s)
    BY <2>1, Tables, PositionIs DEF IoInv, Table, Reading
  <2> DEFINE t == texts[s].text
             p == texts[s].pos
             a == texts[s].start
  <2>3. t \in Seq(Byte) /\ p \in Nat /\ p <= Len(t) /\ a \in Nat /\ Len(t) \in Nat
    <3>1. t \in Seq(Byte \ {Trail}) /\ p \in Nat /\ p <= Len(t) /\ a \in Nat
      BY <2>2 DEF TextType
    <3>2. Seq(Byte \ {Trail}) \subseteq Seq(Byte)
      BY SMT
    <3> QED
      BY <3>1, <3>2, LenProperties
  <2>4. Tell(s) = a + Bytelen(SubSeq(t, 1, p))
    BY <2>2 DEF Tell
  <2> HIDE DEF t, p, a
  <2>5. SubSeq(t, 1, p) \in Seq(Byte)
    <3>1. SubSeq(t, 0 + 1, p) \in Seq(Byte)
      <4>1. 0 \in 0..Len(t) /\ p \in 0..Len(t) /\ 0 <= p
        BY <2>3
      <4> QED
        BY <2>3, <4>1, PartIs
    <3> QED
      BY <3>1
  <2>6. Bytelen(SubSeq(t, 1, p)) \in Nat
    BY <2>5, BytelenType
  <2> QED
    BY <2>2, <2>3, <2>4, <2>6
<1> QED
  BY <1>1, <1>2

\* With reads taken as seeks, the contract's steps are steps of Unread.
LEMMA ReadsAreSeeks ==
    ASSUME IoInv, Contract!Next
    PROVE  [Unread!Next]_Unread!vars
<1>1. Contract!Opened = Unread!Opened
  BY DEF Contract!Opened, Unread!Opened
<1>2. ASSUME NEW d \in Contract!Opened, Contract!Change(d)
      PROVE  Unread!Next
  <2>1. Unread!Change(d)
    BY <1>2 DEF Contract!Change, Contract!Truncate, Contract!Write, Contract!Overwritten, Contract!FileOf,
                Unread!Change, Unread!Truncate, Unread!Write, Unread!Overwritten, Unread!FileOf
  <2> QED
    BY <1>1, <2>1 DEF Unread!Next
<1>3. ASSUME NEW d \in Contract!Opened, Contract!Move(d)
      PROVE  [Unread!Next]_Unread!vars
  <2>1. UNCHANGED <<nodes, Contents>>
    BY <1>3 DEF Contract!Move
  <2>2. CASE Contract!Close(d)
    <3>1. Unread!Move(d)
      BY <2>1, <2>2 DEF Unread!Move, Contract!Close, Unread!Close, Contract!Descriptor, Unread!Descriptor
    <3> QED
      BY <1>1, <3>1 DEF Unread!Next
  <2>3. ASSUME NEW n \in MinPos..MaxLen, Descriptors' = [Descriptors EXCEPT ![d].pos = n]
        PROVE  Unread!Next
    <3>1. Unread!Seek(d, n)
      BY <2>3 DEF Unread!Seek
    <3>2. Unread!Move(d)
      BY <2>1, <3>1 DEF Unread!Move
    <3> QED
      BY <1>1, <3>2 DEF Unread!Next
  <2>4. ASSUME NEW n \in MinPos..MaxLen, Contract!Seek(d, n) PROVE Unread!Next
    BY <2>3, <2>4 DEF Contract!Seek
  <2>5. ASSUME NEW n \in MinPos..MaxLen, Contract!Read(d, n)
        PROVE  [Unread!Next]_Unread!vars
    <3>1. d \in Opened
      BY DEF Contract!Opened, Opened, Descriptors
    <3>2. /\ Descriptors[d].pos = Position(d) /\ Position(d) \in Int
          /\ Contract!FileOf(d).bytes = Within(NodeOf(d))
          /\ Len(Within(NodeOf(d))) \in Nat /\ Len(Within(NodeOf(d))) <= MaxLen
      <4>1. Descriptors[d].pos = Position(d) /\ Contract!FileOf(d) = FileBytes(NodeOf(d))
        <5>1. /\ Descriptors[d] = [file |-> fds[d].node, pos |-> Position(d),
                                    append |-> fds[d].append]
              /\ Contract!FileOf(d) = FileBytes(NodeOf(d))
          BY <3>1, FileIs
        <5> QED
          BY <5>1
      <4>2. Position(d) \in Int
        BY <3>1, PositionType
      <4>3. IsNode(NodeOf(d)) /\ NodeOf(d).size <= MaxLen
        BY <3>1, FileIs
      <4>4. Len(Within(NodeOf(d))) = NodeOf(d).size /\ NodeOf(d).size \in Nat
        BY <4>3, WithinIs
      <4> QED
        BY <4>1, <4>2, <4>3, <4>4 DEF FileBytes
    <3> DEFINE p == Descriptors[d].pos
               z == Len(Contract!FileOf(d).bytes)
               end == IF p + n < z THEN p + n ELSE z
    <3>3. /\ p >= 0
          /\ Descriptors' = IF end > p THEN [Descriptors EXCEPT ![d].pos = end] ELSE Descriptors
      BY <2>5 DEF Contract!Read
    <3>4. p \in Int /\ z \in Nat /\ z <= MaxLen
      BY <3>2
    <3> HIDE DEF p, z
    <3>5. CASE end > p
      <4>1. end \in MinPos..MaxLen
        <5>1. n \in Int /\ MinPos \in Int /\ MaxLen \in Nat
          BY MemFsAssumption
        <5>2. end \in Int /\ p < end /\ end <= z
          BY <3>4, <3>5, <5>1
        <5>3. MinPos <= 0
          BY MemFsAssumption
        <5> HIDE DEF end
        <5>4. 0 <= p
          BY <3>3
        <5> QED
          BY <3>4, <5>1, <5>2, <5>3, <5>4
      <4> QED
        BY <2>3, <3>3, <3>5, <4>1
    <3>6. CASE ~ (end > p)
      BY <2>1, <3>3, <3>6 DEF Unread!vars
    <3> QED
      BY <3>5, <3>6
  <2> QED
    BY <1>3, <2>2, <2>4, <2>5 DEF Contract!Move
<1>4. ASSUME NEW p \in Paths, Contract!Unlink(p) \/ Contract!Mkdir(p)
      PROVE  Unread!Next
  <2>1. Unread!Unlink(p) \/ Unread!Mkdir(p)
    BY <1>4 DEF Contract!Unlink, Contract!Mkdir, Contract!Fresh, Unread!Unlink, Unread!Mkdir, Unread!Fresh
  <2> QED
    BY <2>1 DEF Unread!Next
<1>5. ASSUME NEW p \in Paths, NEW q \in Paths, Contract!Rename(p, q)
      PROVE  Unread!Next
  <2>1. Unread!Rename(p, q)
    BY <1>5 DEF Contract!Rename, Unread!Rename
  <2> QED
    BY <2>1 DEF Unread!Next
<1>6. ASSUME NEW p \in Paths, NEW a \in BOOLEAN, Contract!OpenNew(p, a)
      PROVE  Unread!Next
  <2>1. Unread!OpenNew(p, a)
    BY <1>6 DEF Contract!OpenNew, Contract!Fresh, Contract!Descriptor,
                Unread!OpenNew, Unread!Fresh, Unread!Descriptor
  <2> QED
    BY <2>1 DEF Unread!Next
<1>7. ASSUME NEW p \in Paths, NEW t \in BOOLEAN, NEW a \in BOOLEAN, Contract!OpenOld(p, t, a)
      PROVE  Unread!Next
  <2>1. Unread!OpenOld(p, t, a)
    BY <1>7 DEF Contract!OpenOld, Contract!Emptied, Contract!Descriptor,
                Unread!OpenOld, Unread!Emptied, Unread!Descriptor
  <2> QED
    BY <2>1 DEF Unread!Next
<1> QED
  BY <1>2, <1>3, <1>4, <1>5, <1>6, <1>7 DEF Contract!Next

\* A seek to where the program gets to.
LEMMA UnreadSeeks ==
    ASSUME IoInv, NEW d \in Opened, NEW k \in MinPos..MaxLen,
           Descriptors' = [Descriptors EXCEPT ![d].pos = k],
           Contents' = Contents, nodes' = nodes
    PROVE  Unread!Next
<1>1. d \in Unread!Opened
  <2>1. d \in Contract!Opened
    BY FileIs
  <2> QED
    BY <2>1 DEF Contract!Opened, Unread!Opened
<1>2. Unread!Move(d)
  BY DEF Unread!Move, Unread!Seek
<1> QED
  BY <1>1, <1>2 DEF Unread!Next

\* What the files were at first, and what does not change.
LEMMA UnreadInit == ASSUME Contract!Init PROVE Unread!Init
BY DEF Contract!Init, Unread!Init

LEMMA UnreadSame == ASSUME UNCHANGED Contract!vars PROVE UNCHANGED Unread!vars
BY DEF Contract!vars, Unread!vars

\* Text handed out is bytes read.
LEMMA TakeStep ==
    ASSUME IoInv, NEW s \in Text, NEW end \in Nat,
           EnsureText(s).pos <= end, end <= Len(EnsureText(s).text), Take(s, end)
    PROVE  /\ IoInv' /\ Unread!Next
           /\ NoNewline \notin Newlines /\ ~ ChangesUnread => Contract!Next
<1> DEFINE w == EnsureText(s)
           d == Fd(s)
           n == NodeOf(d)
           q == w.start + Len(w.read)
           f == [fds[d] EXCEPT !.pos = q]
           v == [w EXCEPT !.pos = end]
<1>1. /\ w \in TextType /\ w.cached /\ ~ w.closed /\ w.raw = texts[s].raw
      /\ w.text = TextOf(w.read, w.newline) /\ w.pos <= Len(w.text)
      /\ q \in Nat /\ q <= MaxLen /\ Held(w, n, q)
      /\ q = IF texts[s].cached THEN fds[d].pos ELSE Larger(fds[d].pos, n.size)
      /\ texts[s].cached => w = texts[s]
      /\ ~ texts[s].cached => w.start = fds[d].pos /\ w.pos = 0
  BY EnsuredIs DEF Take, Readable
<1>2. /\ d \in Opened /\ fds[d] \in FdType /\ fds[d].node \in 1..Len(inode) /\ Len(inode) \in Nat
      /\ IsNode(n) /\ n.size \in Nat
      /\ n = inode[fds[d].node] /\ Position(d) = Tell(s)
      /\ texts[s].cached => s \in Reading
      /\ ~ texts[s].cached => Tell(s) = fds[d].pos
  BY TextIs, FileIs DEF NodeOf
<1>3. /\ Decodable(w.read)
      /\ texts' = [texts EXCEPT ![s] = v]
      /\ fds' = IF texts[s].cached THEN fds ELSE [fds EXCEPT ![d].pos = Larger(fds[d].pos, n.size)]
      /\ got' = Encode(SubSeq(w.text, w.pos + 1, end))
      /\ UNCHANGED <<nodes, inode, raws>>
  BY DEF Take, ReadAhead
<1> HIDE DEF w, n
<1>4. /\ w.text \in Seq(Byte \ {Trail}) /\ w.pos \in Nat /\ w.start \in Nat
      /\ w.read \in Seq(Byte) /\ Len(w.read) \in Nat /\ Len(w.text) \in Nat
  BY <1>1, LenProperties DEF TextType
<1>5. /\ v \in TextType /\ v.raw = texts[s].raw /\ v.pos = end /\ v.cached /\ ~ v.closed
      /\ v.start = w.start /\ v.read = w.read /\ v.text = w.text /\ v.newline = w.newline
  BY <1>1 DEF TextType
<1>6. f \in FdType /\ f.node = fds[d].node /\ f.pos = q /\ f.append = fds[d].append
  <2>1. q \in Int /\ fds[d] \in FdType
    BY <1>1, <1>2
  <2> HIDE DEF q, d
  <2> QED
    BY <2>1 DEF FdType
<1>7. fds' = [fds EXCEPT ![d] = f]
  <2>1. CASE texts[s].cached
    <3>1. q = fds[d].pos
      BY <1>1, <2>1
    <3>2. fds = [fds EXCEPT ![d].pos = fds[d].pos]
      BY <1>2, FdsKept
    <3> QED
      BY <1>3, <2>1, <3>1, <3>2
  <2>2. CASE ~ texts[s].cached
    <3>1. q = Larger(fds[d].pos, n.size)
      BY <1>1, <2>2
    <3> QED
      BY <1>3, <2>2, <3>1
  <2> QED
    BY <2>1, <2>2
<1> HIDE DEF v, f, q
<1>8. got' \in Seq(Byte)
  <2> DEFINE p == w.pos
             t == w.text
  <2>1. t \in Seq(Byte) /\ p \in 0..Len(t) /\ end \in 0..Len(t) /\ p <= end
    <3>1. Seq(Byte \ {Trail}) \subseteq Seq(Byte)
      BY SMT
    <3>2. w.pos <= end /\ end <= Len(w.text)
      BY DEF w
    <3> QED
      BY <1>4, <3>1, <3>2
  <2> HIDE DEF p, t
  <2>2. SubSeq(t, p + 1, end) \in Seq(Byte)
    BY <2>1, PartIs
  <2> QED
    BY <1>3, <2>2, EncodeType DEF p, t
<1>9. ReadsFrom(v, f, inode[f.node]) /\ f.node # 0
  <2>1. f.node # 0 /\ inode[f.node] = n
    BY <1>2, <1>6
  <2>2. f.pos = v.start + Len(v.read)
    BY <1>5, <1>6 DEF q
  <2>3. Held(v, n, q)
    <3>1. end <= Len(w.text)
      BY DEF w
    <3>2. w.pos = Len(w.text) => v.pos = Len(v.text)
      <4>1. w.pos <= end
        BY DEF w
      <4> QED
        BY <1>4, <1>5, <3>1, <4>1
    <3> QED
      BY <1>1, <1>5, <3>2 DEF Held
  <2> QED
    BY <1>1, <1>3, <1>5, <1>6, <2>1, <2>2, <2>3 DEF ReadsFrom
<1>10. f.node <= Len(inode) /\ f.pos \in MinPos..MaxLen /\ v.pos <= Len(v.text)
  <2>1. end <= Len(w.text)
    BY DEF w
  <2> QED
    BY <1>1, <1>2, <1>5, <1>6, <2>1, MemFsAssumption, SMTT(20)
<1>11. /\ IoInv' /\ Contents' = Contents
       /\ Descriptors' = [Descriptors EXCEPT ![d] =
                [file |-> f.node, append |-> f.append,
                 pos |-> IF v.cached /\ ~ v.closed
                         THEN v.start + Bytelen(SubSeq(v.text, 1, v.pos)) ELSE f.pos]]
  BY <1>3, <1>5, <1>6, <1>7, <1>8, <1>9, <1>10, TextSets
<1>12. Descriptors' = [Descriptors EXCEPT ![d].pos = w.start + Bytelen(SubSeq(w.text, 1, end))]
  <2> DEFINE x == w.start + Bytelen(SubSeq(w.text, 1, end))
  <2>1. Descriptors' = [Descriptors EXCEPT ![d] =
                [file |-> fds[d].node, append |-> fds[d].append, pos |-> x]]
    BY <1>5, <1>6, <1>11
  <2> HIDE DEF x, d
  <2>2. Descriptors' = [Descriptors EXCEPT ![d].pos = x]
    BY <1>2, <2>1, PosOf
  <2> QED
    BY <2>2 DEF x, d
<1>13. ASSUME NoNewline \notin Newlines, ~ ChangesUnread PROVE Contract!Next
  <2>1. PICK e \in [0..Len(w.text) -> 0..Len(w.read)] :
          /\ e[0] = 0
          /\ \A j \in 0..Len(w.text) : Bytelen(SubSeq(w.text, 1, j)) = e[j]
          /\ \A i, j \in 0..Len(w.text) : i <= j =>
               /\ e[i] <= e[j]
               /\ Encode(SubSeq(w.text, i + 1, j)) = SubSeq(w.read, e[i] + 1, e[j])
    BY <1>1, <1>3, <1>4, <1>13, TellIs
  <2> DEFINE p == e[w.pos]
             k == e[end]
  <2>2. w.pos \in 0..Len(w.text) /\ end \in 0..Len(w.text) /\ w.pos <= end
    <3>1. w.pos <= end /\ end <= Len(w.text)
      BY DEF w
    <3> QED
      BY <1>4, <3>1
  <2>3. /\ p \in 0..Len(w.read) /\ k \in 0..Len(w.read) /\ p <= k
        /\ got' = SubSeq(w.read, p + 1, k)
        /\ Bytelen(SubSeq(w.text, 1, w.pos)) = p /\ Bytelen(SubSeq(w.text, 1, end)) = k
    BY <1>3, <2>1, <2>2
  <2>4. texts[s].cached \/ w.pos = 0
    BY <1>1
  <2>5. w.pos = 0 => p = 0
    BY <2>1
  <2> HIDE DEF p, k
  <2>6. Position(d) = w.start + p
    <3>1. CASE texts[s].cached
      <4>1. w = texts[s]
        BY <1>1, <3>1
      <4>2. Tell(s) = w.start + Bytelen(SubSeq(w.text, 1, w.pos))
        BY <3>1, <4>1 DEF Tell
      <4> QED
        BY <1>2, <2>3, <4>2
    <3>2. CASE ~ texts[s].cached
      <4>1. p = 0 /\ w.start = fds[d].pos /\ Tell(s) = fds[d].pos
        BY <1>1, <1>2, <2>5, <3>2
      <4> QED
        BY <1>2, <1>4, <4>1
    <3> QED
      BY <3>1, <3>2
  <2>7. Descriptors' = [Descriptors EXCEPT ![d].pos = w.start + k]
    BY <1>12, <2>3
  <2>8. p \in Nat /\ k \in Nat /\ Position(d) \in Nat
    BY <1>4, <2>3, <2>6
  <2>9. \E x \in 0..n.size : /\ got' = SubSeq(Within(n), Position(d) + 1, x)
                             /\ Larger(Position(d), x) = w.start + k
    <3>1. CASE p = k
      <4> DEFINE r == w.read
                 c == Position(d) + 1
                 i == p + 1
                 u == Within(n)
      <4>1. k \in Int /\ i \in Int /\ k < i /\ c \in Int /\ 0 \in Int /\ 0 < c
        BY <2>8, <3>1
      <4> HIDE DEF r, c, i, u
      <4>2. SubSeq(r, i, k) = <<>> /\ SubSeq(u, c, 0) = <<>>
        BY <4>1, SubSeqEmpty
      <4>3. got' = SubSeq(u, c, 0)
        BY <2>3, <4>2 DEF r, i
      <4>4. Larger(Position(d), 0) = w.start + k /\ 0 \in 0..n.size
        BY <1>2, <2>6, <2>8, <3>1 DEF Larger
      <4> QED
        BY <4>3, <4>4 DEF c, u
    <3>2. CASE p < k
      <4>1. q <= n.size /\ w.read = SubSeq(n.data, w.start + 1, q)
        <5>1. w.pos # Len(w.text)
          <6>1. w.pos # end /\ end <= Len(w.text) /\ w.pos <= end
            BY <2>2, <2>8, <3>2 DEF p, k
          <6> QED
            BY <1>4, <6>1
        <5>2. w.read # <<>>
          <6>1. Len(w.read) # 0
            BY <1>4, <2>3, <2>8, <3>2
          <6> QED
            BY <6>1
        <5> QED
          BY <1>1, <1>13, <5>1, <5>2 DEF Held
      <4>2. q = w.start + Len(w.read) /\ q \in 0..n.size
        BY <1>1, <1>2, <4>1 DEF q
      <4> DEFINE a == w.start
      <4>3. a \in Nat /\ p <= k /\ k <= IF a < q THEN q - a ELSE 0
        BY <1>4, <2>3, <2>8, <3>2, <4>2
      <4>4. w.read = SubSeq(n.data, a + 1, q)
        BY <4>1
      <4> HIDE DEF a
      <4>5. /\ IsNode(n) /\ q \in 0..n.size /\ a \in Nat /\ p \in Nat /\ k \in Nat
            /\ p <= k /\ k <= IF a < q THEN q - a ELSE 0
        BY <1>2, <2>8, <4>2, <4>3, Zenon
      <4>6. SubSeq(SubSeq(n.data, a + 1, q), p + 1, k) = SubSeq(Within(n), a + p + 1, a + k)
        <5>1. \A z \in 0..n.size, b, c, h \in Nat : c <= h /\ h <= (IF b < z THEN z - b ELSE 0)
                 => SubSeq(SubSeq(n.data, b + 1, z), c + 1, h) = SubSeq(Within(n), b + c + 1, b + h)
          BY <4>5, PartOfRest
        <5>2. q \in 0..n.size /\ a \in Nat /\ p \in Nat /\ k \in Nat
          BY <4>5
        <5>3. p <= k /\ k <= (IF a < q THEN q - a ELSE 0)
                 => SubSeq(SubSeq(n.data, a + 1, q), p + 1, k) = SubSeq(Within(n), a + p + 1, a + k)
          BY <5>1, <5>2
        <5> QED
          BY <4>5, <5>3
      <4>7. got' = SubSeq(Within(n), a + p + 1, a + k)
        BY <2>3, <4>4, <4>6
      <4>8. Position(d) = a + p /\ a + k \in 0..n.size
        <5>1. a + k <= q
          BY <1>4, <2>3, <2>8, <4>2 DEF a
        <5>2. Position(d) = a + p
          BY <2>6 DEF a
        <5>3. n.size \in Nat /\ q <= n.size /\ q \in Nat
          BY <1>2, <4>2
        <5> QED
          BY <2>8, <4>3, <5>1, <5>2, <5>3
      <4>9. Larger(Position(d), a + k) = a + k
        BY <2>8, <3>2, <4>3, <4>8 DEF Larger
      <4>10. got' = SubSeq(Within(n), Position(d) + 1, a + k)
        BY <4>7, <4>8
      <4> QED
        BY <4>8, <4>9, <4>10 DEF a
    <3>3. p = k \/ p < k
      BY <2>3, <2>8
    <3> QED
      BY <3>1, <3>2, <3>3
  <2>10. PICK x \in 0..n.size : /\ got' = SubSeq(Within(n), Position(d) + 1, x)
                                /\ Larger(Position(d), x) = w.start + k
    BY <2>9
  <2>11. /\ x \in 0..NodeOf(d).size
         /\ got' = SubSeq(Within(NodeOf(d)), Position(d) + 1, x)
         /\ Descriptors' = [Descriptors EXCEPT ![d].pos = Larger(Position(d), x)]
    BY <2>7, <2>10 DEF n
  <2> HIDE DEF d
  <2> QED
    BY <1>2, <1>3, <1>11, <2>8, <2>11, ContractReads
<1>14. Unread!Next
  <2> DEFINE x == Bytelen(SubSeq(w.text, 1, end))
             k == w.start + x
  <2>1. end \in 0..Len(w.text)
    <3>1. end <= Len(w.text)
      BY DEF w
    <3> QED
      BY <1>4, <3>1
  <2>2. x \in 0..Len(w.read)
    BY <1>1, <1>3, <1>4, <2>1, TellWithin
  <2> HIDE DEF x
  <2>3. k \in MinPos..MaxLen
    <3>1. MinPos \in Int /\ MinPos <= 0 /\ MaxLen \in Nat
      BY MemFsAssumption
    <3>2. w.start + Len(w.read) <= MaxLen
      BY <1>1 DEF q
    <3> QED
      BY <1>4, <2>2, <3>1, <3>2
  <2>4. Descriptors' = [Descriptors EXCEPT ![d].pos = k]
    BY <1>12 DEF x
  <2> HIDE DEF k, d
  <2> QED
    BY <1>2, <1>3, <1>11, <2>3, <2>4, UnreadSeeks
<1> QED
  BY <1>11, <1>13, <1>14

\* Text that cannot be decoded was read all the same.
LEMMA FailsStep ==
    ASSUME IoInv, NEW s \in Text, TextFails(s)
    PROVE  IoInv' /\ Contract!Next
<1> DEFINE d == Fd(s)
<1>1. /\ ~ texts[s].cached /\ fds' = [fds EXCEPT ![d].pos = Larger(fds[d].pos, NodeOf(d).size)]
      /\ got' = EnsureText(s).read /\ UNCHANGED <<nodes, inode, objects>>
      /\ fds[d].pos >= 0
  BY DEF TextFails, ReadAhead, Readable
<1>2. d \in Opened /\ ~ Ahead(d)
  BY <1>1, TextIs
<1>3. got' = Slice(d, ReadEnd(d, Wanted(d, -1)))
  BY <1>1 DEF EnsureText
<1>4. ReadEnd(d, Wanted(d, -1)) = NodeOf(d).size /\ Wanted(d, -1) \in Nat
  BY <1>1, <1>2, RestIs
<1>5. Read(d, Wanted(d, -1))
  BY <1>1, <1>3, <1>4 DEF Read
<1> HIDE DEF d
<1> QED
  BY <1>1, <1>2, <1>4, <1>5, ReadStep

\* Where a read of text ends.
LEMMA EndsIn ==
    ASSUME NEW w \in TextType, w.pos <= Len(w.text), NEW n \in Int
    PROVE  LET e == IF n < 0 THEN Len(w.text) ELSE Min({Len(w.text), w.pos + n})
           IN  /\ e \in Nat /\ w.pos <= e /\ e <= Len(w.text)
               /\ LineEnd(w) \in Nat /\ w.pos <= LineEnd(w) /\ LineEnd(w) <= Len(w.text)
<1>1. w.pos \in Nat /\ Len(w.text) \in Nat /\ DOMAIN w.text = 1..Len(w.text)
  BY LenProperties DEF TextType
<1> DEFINE e == IF n < 0 THEN Len(w.text) ELSE Min({Len(w.text), w.pos + n})
<1>2. e \in Nat /\ w.pos <= e /\ e <= Len(w.text)
  <2>1. CASE n < 0
    BY <1>1, <2>1
  <2>2. CASE ~ (n < 0)
    <3> DEFINE S == {Len(w.text), w.pos + n}
    <3>1. S \in SUBSET Nat /\ S # {} /\ Len(w.text) \in S /\ \A x \in S : w.pos <= x
      BY <1>1, <2>2
    <3>2. e = Min(S)
      BY <2>2
    <3> HIDE DEF S, e
    <3>3. Min(S) \in S /\ \A y \in S : Min(S) <= y
      BY <3>1, MinOf
    <3> QED
      BY <3>1, <3>2, <3>3
  <2> QED
    BY <2>1, <2>2
<1>3. LineEnd(w) \in Nat /\ w.pos <= LineEnd(w) /\ LineEnd(w) <= Len(w.text)
  <2> DEFINE S == {i \in Terminators(w) : i > w.pos} \cup {Len(w.text)}
  <2>1. Terminators(w) \subseteq 1..Len(w.text)
    <3>1. Terminators(w) \subseteq DOMAIN w.text
      <4>1. CASE w.newline = NoNewline
        BY <4>1 DEF Terminators
      <4>2. CASE w.newline # NoNewline /\ w.newline = Untranslated
        BY <4>2 DEF Terminators
      <4>3. CASE w.newline # NoNewline /\ w.newline # Untranslated
        BY <4>3 DEF Terminators
      <4> QED
        BY <4>1, <4>2, <4>3
    <3> QED
      BY <1>1, <3>1
  <2>2. S \in SUBSET Nat /\ S # {} /\ Len(w.text) \in S /\ \A x \in S : w.pos <= x
    BY <1>1, <2>1
  <2>3. LineEnd(w) = Min(S)
    BY DEF LineEnd
  <2> HIDE DEF S
  <2>4. Min(S) \in S /\ \A y \in S : Min(S) <= y
    BY <2>2, MinOf
  <2> QED
    BY <2>2, <2>3, <2>4
<1> QED
  BY <1>2, <1>3

\* A wrapper without its text.
LEMMA UncachedIs ==
    ASSUME NEW x \in TextType, NEW c \in BOOLEAN
    PROVE  LET v == [x EXCEPT !.cached = FALSE, !.text = <<>>, !.read = <<>>,
                              !.pos = 0, !.start = 0, !.closed = c]
           IN  /\ v \in TextType /\ v.raw = x.raw /\ ~ v.cached /\ v.closed = c
               /\ v.pos <= Len(v.text)
<1> DEFINE nil == <<>>
<1>1. nil \in Seq(Byte \ {Trail}) /\ nil \in Seq(Byte) /\ Len(nil) = 0
  OBVIOUS
<1> HIDE DEF nil
<1> DEFINE v == [x EXCEPT !.cached = FALSE, !.text = nil, !.read = nil,
                          !.pos = 0, !.start = 0, !.closed = c]
<1>2. /\ v \in TextType /\ v.raw = x.raw /\ v.cached = FALSE /\ v.closed = c
      /\ v.pos = 0 /\ v.text = nil
  BY <1>1 DEF TextType
<1> QED
  BY <1>1, <1>2 DEF nil

\* A step with wrapper s that changes its file, and leaves it no text.
LEMMA TextWrites ==
    ASSUME IoInv, NEW s \in Text,
           NEW f \in FdType, f.node <= Len(inode), f.pos \in MinPos..MaxLen,
           fds' = [fds EXCEPT ![Fd(s)] = f],
           Nodes', Len(inode') = Len(inode),
           OnlyChanges(fds[Fd(s)].node), StillHeld(Reading \ {s}, fds[Fd(s)].node),
           UNCHANGED <<nodes, raws>>, got' \in Seq(Byte),
           NEW w \in TextType, w.raw = texts[s].raw, w.pos <= Len(w.text), ~ w.cached,
           texts' = [texts EXCEPT ![s] = w]
    PROVE  /\ IoInv'
           /\ Descriptors' = [Descriptors EXCEPT ![Fd(s)] =
                [file |-> f.node, append |-> f.append, pos |-> f.pos]]
<1>1. /\ s \in 1..Len(texts) /\ Fd(s) \in Opened
      /\ \A r \in Reading : Fd(r) = Fd(s) => r = s
  BY TextIs, Zenon
<1>2. fds[Fd(s)].node \in Nat
  <2>1. fds[Fd(s)].node \in 1..Len(inode)
    BY <1>1, FileIs, Zenon
  <2>2. \A i : i \in 1..Len(inode) => i \in Nat
    BY SMT
  <2> QED
    BY <2>1, <2>2, Zenon
<1>3. PICK k \in Nat : k = fds[Fd(s)].node
  BY <1>2
<1>4. OnlyChanges(k) /\ StillHeld(Reading \ {s}, k)
  BY <1>3
<1>5. /\ raws' \in Seq(RawType) /\ Len(raws') = Len(raws)
      /\ \A o \in 1..Len(raws) : raws'[o].fd = raws[o].fd
  BY DEF IoInv, Table
<1>6. w.cached /\ ~ w.closed => f.node # 0 /\ ReadsFrom(w, f, inode'[f.node])
  OBVIOUS
<1>7. UNCHANGED nodes
  OBVIOUS
<1> QED
  BY <1>1, <1>4, <1>5, <1>6, <1>7, TextStep

\* What is written through a wrapper goes where tell() says.
LEMMA TextWriteStep ==
    ASSUME IoInv, NEW s \in Text, NEW t \in Texts, TextWrite(s, t)
    PROVE  IoInv' /\ (~ SeeksPastEnd => Contract!Next)
<1> DEFINE d == Fd(s)
           n == NodeOf(d)
           at == WriteAt(d, Tell(s))
           u == Encode(t)
           m == Put(n, at, u)
           p == at + Len(u)
           f == [fds[d] EXCEPT !.pos = p]
           v == [texts[s] EXCEPT !.cached = FALSE, !.text = <<>>, !.read = <<>>,
                                 !.pos = 0, !.start = 0]
<1>1. /\ s \in 1..Len(texts) /\ texts[s] \in TextType /\ d \in Opened /\ Position(d) = Tell(s)
      /\ texts[s].pos <= Len(texts[s].text)
      /\ ~ texts[s].cached => Tell(s) = fds[d].pos
  BY TextIs
<1>2. /\ d \in 1..Len(fds) /\ fds[d] \in FdType
      /\ fds[d].node \in 1..Len(inode) /\ Len(inode) \in Nat
      /\ IsNode(n) /\ n.size \in Nat /\ n.size <= MaxLen /\ fds[d].pos \in Int
  BY <1>1, FileIs
<1>3. /\ MayChange(fds[d].node, at, Reading \ {s}) /\ at >= 0
      /\ at + Len(u) <= MaxLen
      /\ SeeksPastEnd \/ at <= n.size
      /\ inode' = [inode EXCEPT ![fds[d].node] = m]
      /\ fds' = [fds EXCEPT ![d].pos = p]
      /\ UNCHANGED nodes /\ got' = <<>> /\ got' \in Seq(Byte)
      /\ texts' = [texts EXCEPT ![s] = v] /\ UNCHANGED raws
  BY DEF TextWrite, WriteFrom, Uncached, NodeOf
<1>4. u \in Seq(Byte) /\ Len(u) \in Nat /\ u \in Chunks \cup {Encode(x) : x \in Texts}
  BY DataIs
<1> HIDE DEF u
<1>5. Tell(s) \in Int
  <2>1. CASE ~ texts[s].cached
    BY <1>1, <1>2, <2>1
  <2>2. CASE texts[s].cached
    <3> DEFINE x == SubSeq(texts[s].text, 1, texts[s].pos)
               y == texts[s].text
               k == texts[s].pos
    <3>1. y \in Seq(Byte \ {Trail}) /\ k \in 0..Len(y) /\ 0 \in 0..Len(y) /\ 0 <= k
          /\ texts[s].start \in Nat
      BY <1>1, LenProperties DEF TextType
    <3> HIDE DEF y, k
    <3>2. SubSeq(y, 0 + 1, k) \in Seq(Byte \ {Trail})
      BY <3>1, PartIs
    <3>3. x \in Seq(Byte \ {Trail})
      BY <3>2 DEF y, k
    <3> HIDE DEF x
    <3>4. Bytelen(x) \in Nat
      <4>1. Len(x) \in Nat /\ DOMAIN x = 1..Len(x)
        BY <3>3, LenProperties
      <4>2. IsFiniteSet(1..Len(x))
        BY <4>1, FS_Interval
      <4>3. IsFiniteSet({i \in DOMAIN x : x[i] = Lead})
        BY <4>1, <4>2, FS_Subset
      <4>4. Cardinality({i \in DOMAIN x : x[i] = Lead}) \in Nat
        BY <4>3, FS_CardinalityType
      <4> QED
        BY <4>1, <4>4 DEF Bytelen
    <3>5. Tell(s) = texts[s].start + Bytelen(x)
      BY <2>2 DEF Tell, x
    <3> QED
      BY <3>1, <3>4, <3>5
  <2> QED
    BY <2>1, <2>2
<1>6. at \in Nat /\ at = IF fds[d].append THEN n.size ELSE Position(d)
  BY <1>1, <1>2, <1>3, <1>5 DEF WriteAt
<1> HIDE DEF at, n
<1>7. /\ IsNode(m) /\ m.size = Larger(n.size, p)
      /\ \A i \in 1..n.size : i <= at => m.data[i] = n.data[i]
  BY <1>2, <1>4, <1>6, PutIs
<1>8. p \in Nat /\ p <= MaxLen /\ p \in MinPos..MaxLen
  BY <1>3, <1>4, <1>6, MemFsAssumption
<1>9. m.size <= MaxLen
  BY <1>2, <1>7, <1>8 DEF Larger
<1>10. /\ v \in TextType /\ v.raw = texts[s].raw /\ ~ v.cached
       /\ v.pos <= Len(v.text)
  <2>1. texts[s].closed = FALSE
    BY TextIs DEF TextType
  <2> DEFINE x == texts[s]
  <2>2. x \in TextType /\ x = [x EXCEPT !.closed = FALSE] /\ FALSE \in BOOLEAN
    BY <1>1, <2>1 DEF TextType
  <2>3. v = [x EXCEPT !.cached = FALSE, !.text = <<>>, !.read = <<>>,
                      !.pos = 0, !.start = 0, !.closed = FALSE]
    BY <2>1, <2>2 DEF TextType
  <2> HIDE DEF x, v
  <2>4. v \in TextType /\ v.raw = x.raw /\ ~ v.cached /\ v.pos <= Len(v.text)
    BY <2>2, <2>3, UncachedIs
  <2> QED
    BY <2>4 DEF x
<1>11. f \in FdType /\ f.node = fds[d].node /\ f.pos = p /\ f.append = fds[d].append
  BY <1>2, <1>8 DEF FdType
<1>12. fds' = [fds EXCEPT ![d] = f]
  BY <1>3
<1> HIDE DEF m, p, f, v
<1>13. /\ Nodes' /\ Len(inode') = Len(inode)
        /\ OnlyChanges(fds[d].node) /\ inode'[fds[d].node] = m
       /\ Contents' = [Contents EXCEPT ![fds[d].node] = FileBytes(m)]
  <2> HIDE DEF d
  <2> QED
    BY <1>1, <1>3, <1>7, <1>9, FileChanges DEF OnlyChanges
<1>14. StillHeld(Reading \ {s}, fds[d].node)
  <2>1. ASSUME NEW x \in Nat, x <= at, x <= n.size
        PROVE  x <= m.size /\ \A i \in 1..x : m.data[i] = n.data[i]
    <3>1. x <= m.size
      BY <1>2, <1>7, <1>8, <2>1 DEF Larger
    <3>2. \A i \in 1..x : i \in 1..n.size /\ i <= at
      BY <1>2, <1>6, <2>1
    <3> QED
      BY <1>7, <3>1, <3>2
  <2> DEFINE k == fds[d].node
             y == inode[k]
  <2>2. /\ k \in Nat /\ inode'[k] = m /\ MayChange(k, at, Reading \ {s})
        /\ \A x \in Nat : x <= at /\ x <= y.size =>
              x <= m.size /\ \A i \in 1..x : m.data[i] = y.data[i]
    BY <1>2, <1>3, <1>13, <2>1 DEF n, NodeOf
  <2>3. Reading \ {s} \in SUBSET Reading
    OBVIOUS
  <2> HIDE DEF k
  <2>4. StillHeld(Reading \ {s}, k)
    BY <1>6, <1>7, <2>2, <2>3, MayStill
  <2> QED
    BY <2>4 DEF k
<1>15. f.node <= Len(inode) /\ f.pos \in MinPos..MaxLen /\ fds[d].node \in Nat
  BY <1>2, <1>8, <1>11
<1>16. /\ IoInv'
       /\ Descriptors' = [Descriptors EXCEPT ![d] =
                [file |-> f.node, append |-> f.append, pos |-> f.pos]]
  <2>1. PICK x, y : x = f /\ y = v
    OBVIOUS
  <2>2. /\ x \in FdType /\ x.node <= Len(inode) /\ x.pos \in MinPos..MaxLen
        /\ y \in TextType /\ y.raw = texts[s].raw /\ y.pos <= Len(y.text) /\ ~ y.cached
        /\ fds' = [fds EXCEPT ![Fd(s)] = x] /\ texts' = [texts EXCEPT ![s] = y]
    BY <1>3, <1>10, <1>11, <1>12, <1>15, <2>1, Zenon DEF d
  <2>3. /\ Nodes' /\ Len(inode') = Len(inode)
        /\ OnlyChanges(fds[Fd(s)].node) /\ StillHeld(Reading \ {s}, fds[Fd(s)].node)
    BY <1>13, <1>14 DEF d
  <2>4. /\ IoInv'
        /\ Descriptors' = [Descriptors EXCEPT ![Fd(s)] =
                [file |-> x.node, append |-> x.append, pos |-> x.pos]]
    BY <1>3, <2>2, <2>3, TextWrites
  <2> QED
    BY <2>1, <2>4 DEF d
<1>17. Descriptors' = [Descriptors EXCEPT ![d].pos = p]
  <2>1. Descriptors' = [Descriptors EXCEPT ![d] =
                [file |-> fds[d].node, append |-> fds[d].append, pos |-> p]]
    BY <1>11, <1>16
  <2> HIDE DEF d
  <2> QED
    BY <1>1, <2>1, PosOf
<1>18. ASSUME ~ SeeksPastEnd PROVE Contract!Next
  <2>1. /\ at <= NodeOf(d).size /\ at = IF fds[d].append THEN NodeOf(d).size ELSE Position(d)
        /\ Contents' = [Contents EXCEPT ![fds[d].node] = FileBytes(Put(NodeOf(d), at, u))]
        /\ Descriptors' = [Descriptors EXCEPT ![d].pos = at + Len(u)]
    BY <1>3, <1>6, <1>13, <1>17, <1>18 DEF n, m, p
  <2> HIDE DEF d
  <2> QED
    BY <1>1, <1>3, <1>4, <1>6, <2>1, ContractWrites
<1> QED
  BY <1>16, <1>18

\* A wrapper is its fields.
LEMMA SameText ==
    ASSUME NEW a \in TextType, NEW b \in TextType, a.raw = b.raw, a.newline = b.newline,
           a.cached = b.cached, a.text = b.text, a.pos = b.pos, a.start = b.start,
           a.read = b.read, a.closed = b.closed
    PROVE  a = b
BY DEF TextType

\* The table of wrappers when s gives up its text, and when it is closed.
LEMMA UncachedTexts ==
    ASSUME IoInv, NEW s \in Text
    PROVE  \E v, u \in TextType :
             /\ v.raw = texts[s].raw /\ ~ v.cached /\ v.pos <= Len(v.text)
             /\ u.raw = texts[s].raw /\ ~ u.cached /\ u.pos <= Len(u.text)
             /\ Uncached(s) = [texts EXCEPT ![s] = v]
             /\ [Uncached(s) EXCEPT ![s].closed = TRUE] = [texts EXCEPT ![s] = u]
<1>1. /\ s \in 1..Len(texts) /\ texts[s] \in TextType /\ ~ texts[s].closed
      /\ DOMAIN texts = 1..Len(texts)
  BY TextIs, Tables, Zenon DEF IoInv
<1> DEFINE x == texts[s]
           v(c) == [x EXCEPT !.cached = FALSE, !.text = <<>>, !.read = <<>>,
                             !.pos = 0, !.start = 0, !.closed = c]
           y == [x EXCEPT !.cached = FALSE, !.text = <<>>, !.read = <<>>,
                          !.pos = 0, !.start = 0]
<1>2. x \in TextType /\ FALSE \in BOOLEAN /\ TRUE \in BOOLEAN
  BY <1>1
<1>3. \A c \in BOOLEAN : v(c) \in TextType /\ v(c).raw = x.raw /\ ~ v(c).cached
                         /\ v(c).pos <= Len(v(c).text)
  BY <1>2, UncachedIs, Zenon
<1>4. y = v(FALSE) /\ [y EXCEPT !.closed = TRUE] = v(TRUE)
  <2>1. x.closed = FALSE
    BY <1>1 DEF TextType
  <2>a. PICK no : no = FALSE
    OBVIOUS
  <2>b. PICK yes : yes = TRUE
    OBVIOUS
  <2>c. PICK nil : nil = <<>>
    OBVIOUS
  <2>d. PICK z : z = 0
    OBVIOUS
  <2>e. nil \in Seq(Byte \ {Trail}) /\ nil \in Seq(Byte) /\ z \in Nat
    BY <2>c, <2>d
  <2>f. no \in BOOLEAN /\ yes \in BOOLEAN
    BY <2>a, <2>b, Zenon
  <2> HIDE DEF x
  <2> DEFINE e == [x EXCEPT !.cached = no, !.text = nil, !.read = nil, !.pos = z, !.start = z]
             g(c) == [x EXCEPT !.cached = no, !.text = nil, !.read = nil, !.pos = z,
                               !.start = z, !.closed = c]
             h == [e EXCEPT !.closed = yes]
  <2>3. /\ e \in TextType /\ e.raw = x.raw /\ e.newline = x.newline /\ e.cached = no
        /\ e.text = nil /\ e.pos = z /\ e.start = z /\ e.read = nil /\ e.closed = x.closed
    BY <1>2, <2>e, <2>f DEF TextType
  <2>4. \A c \in BOOLEAN :
          /\ g(c) \in TextType /\ g(c).raw = x.raw /\ g(c).newline = x.newline /\ g(c).cached = no
          /\ g(c).text = nil /\ g(c).pos = z /\ g(c).start = z /\ g(c).read = nil
          /\ g(c).closed = c
    <3> SUFFICES ASSUME NEW c \in BOOLEAN
                 PROVE  /\ g(c) \in TextType /\ g(c).raw = x.raw /\ g(c).newline = x.newline
                        /\ g(c).cached = no /\ g(c).text = nil /\ g(c).pos = z
                        /\ g(c).start = z /\ g(c).read = nil /\ g(c).closed = c
      BY Zenon
    <3> QED
      BY <1>2, <2>e, <2>f DEF TextType
  <2> HIDE DEF e, g
  <2>5. /\ h \in TextType /\ h.raw = e.raw /\ h.newline = e.newline /\ h.cached = e.cached
        /\ h.text = e.text /\ h.pos = e.pos /\ h.start = e.start /\ h.read = e.read
        /\ h.closed = yes
    BY <2>3, <2>f DEF TextType
  <2> HIDE DEF h
  <2>6. e = g(no)
    <3>1. e.closed = no
      BY <2>1, <2>3, <2>a
    <3> QED
      BY <2>3, <2>4, <2>f, <3>1, SameText
  <2>7. h = g(yes)
    BY <2>3, <2>4, <2>5, <2>f, SameText
  <2> QED
    BY <2>6, <2>7, <2>a, <2>b, <2>c, <2>d, Zenon DEF e, g, h
<1>5. Uncached(s) = [texts EXCEPT ![s] = y]
  BY DEF Uncached
<1> HIDE DEF x, y, v
<1>6. [Uncached(s) EXCEPT ![s].closed = TRUE] = [texts EXCEPT ![s] = [y EXCEPT !.closed = TRUE]]
  BY <1>1, <1>5
<1>7. /\ Uncached(s) = [texts EXCEPT ![s] = v(FALSE)]
      /\ [Uncached(s) EXCEPT ![s].closed = TRUE] = [texts EXCEPT ![s] = v(TRUE)]
  BY <1>4, <1>5, <1>6, Zenon
<1> QED
  BY <1>2, <1>3, <1>7, Zenon DEF x

\* A step that takes the text from wrapper s, and sets its descriptor to f.
LEMMA TextMoves ==
    ASSUME IoInv, NEW s \in Text,
           NEW f \in FdType, f.node <= Len(inode), f.pos \in MinPos..MaxLen,
           fds' = [fds EXCEPT ![Fd(s)] = f],
           UNCHANGED <<nodes, inode>>, got' \in Seq(Byte),
           texts' = Uncached(s) \/ texts' = [Uncached(s) EXCEPT ![s].closed = TRUE],
           raws' = raws \/ (RawsKept /\ Len(raws') = Len(raws))
    PROVE  /\ IoInv' /\ Contents' = Contents
           /\ Descriptors' = [Descriptors EXCEPT ![Fd(s)] =
                [file |-> f.node, append |-> f.append, pos |-> f.pos]]
<1>1. PICK v, u \in TextType :
             /\ v.raw = texts[s].raw /\ ~ v.cached /\ v.pos <= Len(v.text)
             /\ u.raw = texts[s].raw /\ ~ u.cached /\ u.pos <= Len(u.text)
             /\ Uncached(s) = [texts EXCEPT ![s] = v]
             /\ [Uncached(s) EXCEPT ![s].closed = TRUE] = [texts EXCEPT ![s] = u]
  BY UncachedTexts, Zenon
<1>2. PICK w \in TextType : /\ w.raw = texts[s].raw /\ ~ w.cached /\ w.pos <= Len(w.text)
                            /\ texts' = [texts EXCEPT ![s] = w]
  BY <1>1, Zenon
<1>3. w.cached /\ ~ w.closed => f.node # 0 /\ ReadsFrom(w, f, inode[f.node])
  BY <1>2, Zenon
<1>4. /\ IoInv' /\ Contents' = Contents
      /\ Descriptors' = [Descriptors EXCEPT ![Fd(s)] =
                [file |-> f.node, append |-> f.append,
                 pos |-> IF w.cached /\ ~ w.closed
                         THEN w.start + Bytelen(SubSeq(w.text, 1, w.pos)) ELSE f.pos]]
  BY <1>2, <1>3, TextSets
<1> QED
  BY <1>2, <1>4

\* One that moves its position, or leaves it.
LEMMA TextRepositions ==
    ASSUME IoInv, NEW s \in Text, NEW p \in MinPos..MaxLen,
           fds' = [fds EXCEPT ![Fd(s)].pos = p],
           UNCHANGED <<nodes, inode>>, got' = <<>>,
           texts' = Uncached(s) \/ texts' = [Uncached(s) EXCEPT ![s].closed = TRUE],
           raws' = raws \/ (RawsKept /\ Len(raws') = Len(raws))
    PROVE  IoInv' /\ Contract!Next
<1>1. PICK d \in Opened : d = Fd(s)
  BY TextIs, Zenon
<1>2. p \in Int /\ got' \in Seq(Byte)
  BY MemFsAssumption
<1> DEFINE f == [fds[d] EXCEPT !.pos = p]
<1>3. /\ [fds EXCEPT ![d].pos = p] = [fds EXCEPT ![d] = f]
      /\ f \in FdType /\ f.node = fds[d].node /\ f.pos = p /\ f.append = fds[d].append
      /\ [Descriptors EXCEPT ![d] = [file |-> f.node, pos |-> f.pos, append |-> f.append]]
                = [Descriptors EXCEPT ![d].pos = p]
  BY <1>2, PosSet, Zenon
<1>4. fds[d].node \in 1..Len(inode) /\ d \in Contract!Opened
  BY FileIs, Zenon
<1> HIDE DEF f
<1>5. PICK g : g = f
  OBVIOUS
<1>6. /\ g \in FdType /\ g.node <= Len(inode) /\ g.pos \in MinPos..MaxLen
      /\ fds' = [fds EXCEPT ![Fd(s)] = g]
  <2>1. f.node <= Len(inode) /\ f.pos \in MinPos..MaxLen
    BY <1>2, <1>3, <1>4
  <2> QED
    BY <1>1, <1>3, <1>5, <2>1, Zenon
<1>7. /\ IoInv' /\ Contents' = Contents
      /\ Descriptors' = [Descriptors EXCEPT ![Fd(s)] =
                [file |-> g.node, append |-> g.append, pos |-> g.pos]]
  BY <1>2, <1>6, TextMoves
<1>8. Descriptors' = [Descriptors EXCEPT ![d].pos = p]
  BY <1>1, <1>3, <1>5, <1>7
<1>9. Contract!Seek(d, p)
  BY <1>8 DEF Contract!Seek
<1>10. Contract!Move(d)
  BY <1>7, <1>9 DEF Contract!Move
<1> QED
  BY <1>4, <1>7, <1>10 DEF Contract!Next

\* seek().
LEMMA TextSeekStep ==
    ASSUME IoInv, NEW s \in Text, NEW i, NEW how, TextSeek(s, i, how)
    PROVE  IoInv' /\ Contract!Next
<1>1. PICK p : p = SeekPos(Fd(s), i, how)
  OBVIOUS
<1>2. /\ p \in MinPos..MaxLen /\ fds' = [fds EXCEPT ![Fd(s)].pos = p]
      /\ UNCHANGED <<nodes, inode>> /\ got' = <<>>
  BY <1>1 DEF TextSeek, Lseek
<1>3. texts' = Uncached(s) /\ raws' = raws
  BY DEF TextSeek
<1> QED
  BY <1>2, <1>3, TextRepositions

\* close(), which closes the descriptor only where it is the wrapper's to close.
LEMMA TextCloseStep ==
    ASSUME IoInv, NEW s \in Text, TextClose(s)
    PROVE  IoInv' /\ Contract!Next
<1>1. PICK o, d : o = texts[s].raw /\ d = Fd(s)
  OBVIOUS
<1>2. d \in Opened /\ o \in 1..Len(raws) /\ raws[o] \in RawType
  BY <1>1, TextIs
<1>3. /\ Close(d) \/ Idle
      /\ raws' = [raws EXCEPT ![o] = [raws[o] EXCEPT !.closed = TRUE]]
      /\ texts' = [Uncached(s) EXCEPT ![s].closed = TRUE]
  BY <1>1 DEF TextClose, Fd
<1>4. RawsKept /\ Len(raws') = Len(raws)
  <2>1. PICK r : r = [raws[o] EXCEPT !.closed = TRUE]
    OBVIOUS
  <2>2. r \in RawType /\ r.fd = raws[o].fd
    BY <1>2, <2>1 DEF RawType
  <2> QED
    BY <1>2, <1>3, <2>1, <2>2, RawsChange
<1>5. CASE Close(d)
  <2>1. /\ fds' = [fds EXCEPT ![Fd(s)] = Closed] /\ UNCHANGED <<nodes, inode>>
        /\ got' = <<>> /\ got' \in Seq(Byte)
    BY <1>1, <1>5 DEF Close
  <2>2. Closed \in FdType /\ Closed.node = 0 /\ Closed.pos = 0 /\ Closed.append = FALSE
    BY DEF Closed, FdType
  <2>3. Closed.node <= Len(inode) /\ Closed.pos \in MinPos..MaxLen
    BY <2>2, Tables, MemFsAssumption DEF IoInv
  <2>4. /\ IoInv' /\ Contents' = Contents
        /\ Descriptors' = [Descriptors EXCEPT ![Fd(s)] =
                [file |-> Closed.node, append |-> Closed.append, pos |-> Closed.pos]]
    BY <1>3, <1>4, <2>1, <2>2, <2>3, TextMoves
  <2>5. Descriptors' = [Descriptors EXCEPT ![d] = [file |-> 0, append |-> FALSE, pos |-> 0]]
    BY <1>1, <2>2, <2>4
  <2>6. Contract!Close(d)
    BY <2>1, <2>5 DEF Contract!Close, Contract!Descriptor
  <2>7. Contract!Move(d)
    BY <2>1, <2>4, <2>6 DEF Contract!Move
  <2>8. d \in Contract!Opened
    BY <1>2, FileIs
  <2> QED
    BY <2>4, <2>7, <2>8 DEF Contract!Next
<1>6. CASE Idle
  <2>1. PICK p : p = fds[d].pos
    OBVIOUS
  <2>2. p \in MinPos..MaxLen
    BY <1>2, <2>1, FileIs, Zenon
  <2>3. fds' = [fds EXCEPT ![Fd(s)].pos = p] /\ UNCHANGED <<nodes, inode>> /\ got' = <<>>
    <3>1. fds = [fds EXCEPT ![d].pos = p]
      BY <1>2, <2>1, FdsKept
    <3> QED
      BY <1>1, <1>6, <3>1 DEF Idle
  <2> QED
    BY <1>3, <1>4, <2>2, <2>3, TextRepositions
<1> QED
  BY <1>3, <1>5, <1>6

\* read() and readline().
LEMMA TextReadStep ==
    ASSUME IoInv, NEW s \in Text, NEW n \in Int, TextRead(s, n) \/ TextReadline(s)
    PROVE  /\ IoInv' /\ Unread!Next
           /\ NoNewline \notin Newlines /\ ~ ChangesUnread => Contract!Next
<1> DEFINE w == EnsureText(s)
           e == IF n < 0 THEN Len(w.text) ELSE Min({Len(w.text), w.pos + n})
<1>1. w \in TextType /\ w.pos <= Len(w.text)
  BY EnsuredIs DEF TextRead, TextReadline, Take, Readable
<1>2. Take(s, e) \/ Take(s, LineEnd(w))
  BY DEF TextRead, TextReadline
<1> HIDE DEF w
<1>3. /\ e \in Nat /\ w.pos <= e /\ e <= Len(w.text)
      /\ LineEnd(w) \in Nat /\ w.pos <= LineEnd(w) /\ LineEnd(w) <= Len(w.text)
  BY <1>1, EndsIn
<1> HIDE DEF e
<1>4. \E end \in Nat : w.pos <= end /\ end <= Len(w.text) /\ Take(s, end)
  BY <1>2, <1>3
<1>5. PICK end \in Nat :
        EnsureText(s).pos <= end /\ end <= Len(EnsureText(s).text) /\ Take(s, end)
  BY <1>4 DEF w
<1> QED
  BY <1>5, TakeStep

\* The steps of a wrapper.
LEMMA TextualStep ==
    ASSUME IoInv, Textual
    PROVE  /\ IoInv'
           /\ ~ SeeksPastEnd => [Unread!Next]_Unread!vars
           /\ NoNewline \notin Newlines /\ ~ ChangesUnread /\ ~ SeeksPastEnd => Contract!Next
<1>1. PICK s \in Text :
        \/ TextFails(s)
        \/ \E n \in Sizes : TextRead(s, n) \/ TextTruncate(s, n)
        \/ TextReadline(s)
        \/ \E t \in Texts : TextWrite(s, t)
        \/ \E k \in TextSeeks : TextSeek(s, k[1], k[2])
        \/ TextClose(s)
  BY DEF Textual
<1>2. ASSUME TextFails(s) PROVE IoInv' /\ Contract!Next
  BY <1>2, FailsStep
<1>3. ASSUME NEW n \in Sizes, TextRead(s, n)
      PROVE  /\ IoInv' /\ Unread!Next
             /\ NoNewline \notin Newlines /\ ~ ChangesUnread => Contract!Next
  BY <1>3, TextReadStep, IoAssumption
<1>4. ASSUME NEW n \in Sizes, TextTruncate(s, n)
      PROVE  IoInv' /\ Contract!Next
  <2>1. raws[texts[s].raw].fd \in Opened
    BY DEF Text, Fd
  <2> QED
    BY <1>4, <2>1, CutStep DEF TextTruncate
<1>5. ASSUME TextReadline(s)
      PROVE  /\ IoInv' /\ Unread!Next
             /\ NoNewline \notin Newlines /\ ~ ChangesUnread => Contract!Next
  <2>1. 0 \in Int
    OBVIOUS
  <2> QED
    BY <1>5, <2>1, TextReadStep
<1>6. ASSUME NEW t \in Texts, TextWrite(s, t)
      PROVE  IoInv' /\ (~ SeeksPastEnd => Contract!Next)
  BY <1>6, TextWriteStep
<1>7. ASSUME NEW k \in TextSeeks, TextSeek(s, k[1], k[2]) PROVE IoInv' /\ Contract!Next
  BY <1>7, TextSeekStep
<1>8. ASSUME TextClose(s) PROVE IoInv' /\ Contract!Next
  BY <1>8, TextCloseStep
<1>9. Contract!Next => [Unread!Next]_Unread!vars
  BY ReadsAreSeeks
<1> QED
  BY <1>1, <1>2, <1>3, <1>4, <1>5, <1>6, <1>7, <1>8, <1>9, Zenon

-----------------------------------------------------------------------------
(* The theorems. *)

\* What the file system is installed with.
LEMMA InitHolds ==
    ASSUME IoInit
    PROVE  IoInv /\ Contract!Init /\ Unread!Init
<1>1. PICK n \in Nat : n = Cardinality(Dirs0)
  BY FS_CardinalityType, MemFsAssumption
<1>2. /\ nodes \in [Paths -> 0..n] /\ \A p \in Paths : nodes[p] # 0 <=> p \in Dirs0
      /\ inode = [i \in 1..n |-> Node(TRUE)]
      /\ fds = <<>> /\ got = <<>> /\ raws = <<>> /\ texts = <<>>
  BY <1>1 DEF IoInit, Init
<1>3. PICK m : m = Node(TRUE)
  OBVIOUS
<1>4. /\ IsNode(m) /\ m.size = 0 /\ m.size <= MaxLen
      /\ FileBytes(m) = [dir |-> TRUE, bytes |-> <<>>]
  BY <1>3, FreshNode
<1>5. inode \in Seq(NodeType) /\ Len(inode) = n /\ \A i \in 1..n : inode[i] = m
  <2>1. m \in NodeType /\ inode = [i \in 1..n |-> m]
    BY <1>2, <1>3, <1>4 DEF IsNode
  <2> QED
    BY <2>1
<1>6. Files
  <2>1. Nodes
    BY <1>4, <1>5 DEF Nodes
  <2>2. Len(fds) = 0 /\ fds \in Seq(FdType) /\ got \in Seq(Byte)
    BY <1>2
  <2> QED
    BY <1>2, <1>5, <2>1, <2>2 DEF Files
<1>7. Len(raws) = 0 /\ Len(texts) = 0 /\ DOMAIN texts = {} /\ DOMAIN fds = {}
  BY <1>2
<1>8. Table
  <2>1. raws \in Seq(RawType) /\ texts \in Seq(TextType)
    BY <1>2
  <2> QED
    BY <1>7, <2>1 DEF Table, Reading
<1>9. Caches
  BY <1>7 DEF Caches, Reading
<1>10. Contents = [i \in 1..Len(Contents) |-> [dir |-> TRUE, bytes |-> <<>>]]
  <2>1. /\ Len(Contents) = Len(inode) /\ Contents = [i \in 1..Len(inode) |-> FileBytes(inode[i])]
    BY <1>6, ContentsIs
  <2>2. \A i \in 1..Len(inode) : FileBytes(inode[i]) = [dir |-> TRUE, bytes |-> <<>>]
    BY <1>4, <1>5
  <2> QED
    BY <2>1, <2>2
<1>11. Descriptors = <<>>
  BY <1>7 DEF Descriptors
<1>12. nodes \in [Paths -> Nat]
  BY <1>2
<1>13. Contract!Init
  BY <1>2, <1>10, <1>11, <1>12 DEF Contract!Init
<1>14. Unread!Init
  BY <1>13, UnreadInit
<1> QED
  BY <1>6, <1>8, <1>9, <1>13, <1>14 DEF IoInv

\* Every step keeps the invariant.  Where no write starts beyond the end it
\* changes files as the contract has it; and where no wrapper translates newlines
\* and no file changes where it was read ahead, it reads them so too.
LEMMA StepHolds ==
    ASSUME IoInv, Next
    PROVE  /\ IoInv'
           /\ ~ SeeksPastEnd => [Unread!Next]_Unread!vars
           /\ NoNewline \notin Newlines /\ ~ ChangesUnread /\ ~ SeeksPastEnd => Contract!Next
<1>1. Contract!Next => [Unread!Next]_Unread!vars
  BY ReadsAreSeeks
<1> QED
  BY <1>1, PosixStep, OpensStep, BinaryStep, TextualStep, Zenon DEF Next

\* The invariant holds of every behaviour.
LEMMA InvHolds == Spec => []IoInv
<1>1. IoInit => IoInv
  BY InitHolds
<1>2. IoInv /\ [Next]_vars => IoInv'
  BY StepHolds, StutterStep
<1> QED
  BY <1>1, <1>2, PTL DEF Spec

\* The tables of the file system and of the io layer are well typed; a text is
\* never handed out beyond its end, and a descriptor whose text was read ahead
\* stands where that text ends.
THEOREM TypeCorrect == Spec => []TypeOK
<1>1. IoInv => TypeOK
  <2> SUFFICES ASSUME IoInv PROVE TypeOK
    OBVIOUS
  <2>1. /\ Len(inode) \in Nat /\ DOMAIN inode = 1..Len(inode) /\ DOMAIN fds = 1..Len(fds)
        /\ DOMAIN raws = 1..Len(raws) /\ DOMAIN texts = 1..Len(texts)
        /\ \A d \in 1..Len(fds) : fds[d] \in FdType
        /\ \A s \in 1..Len(texts) : texts[s] \in TextType
        /\ Reading \subseteq 1..Len(texts)
    BY Tables DEF IoInv
  <2>2. ASSUME NEW i \in DOMAIN inode
        PROVE  /\ inode[i].isDir \in BOOLEAN /\ inode[i].data \in Seq(Byte)
               /\ inode[i].size \in 0..Len(inode[i].data)
    <3>1. IsNode(inode[i])
      BY <2>1, <2>2 DEF IoInv, Files, Nodes
    <3> QED
      BY <3>1, LenProperties DEF IsNode, NodeType
  <2>3. ASSUME NEW d \in DOMAIN fds
        PROVE  /\ fds[d].node \in 0..Len(inode) /\ fds[d].pos \in Int
               /\ fds[d].readable \in BOOLEAN /\ fds[d].append \in BOOLEAN
    <3>1. fds[d] \in FdType /\ fds[d].node <= Len(inode)
      BY <2>1, <2>3 DEF IoInv, Files
    <3> QED
      BY <2>1, <3>1 DEF FdType
  <2>4. FsTypeOK
    BY <2>2, <2>3 DEF FsTypeOK, IoInv, Files
  <2>5. ASSUME NEW s \in DOMAIN texts
        PROVE  texts[s].raw \in DOMAIN raws /\ texts[s].pos \in 0..Len(texts[s].text)
    <3>1. /\ texts[s] \in TextType /\ texts[s].raw \in 1..Len(raws)
          /\ texts[s].pos <= Len(texts[s].text)
      BY <2>1, <2>5 DEF IoInv, Table
    <3>2. texts[s].pos \in Nat /\ Len(texts[s].text) \in Nat
      BY <3>1, LenProperties DEF TextType
    <3> QED
      BY <2>1, <3>1, <3>2
  <2>6. ASSUME NEW s \in Reading
        PROVE  fds[Fd(s)].pos = texts[s].start + Len(texts[s].read)
    BY <2>6 DEF IoInv, Caches, ReadsFrom
  <2>7. \A o \in DOMAIN raws : raws[o].fd \in DOMAIN fds
    BY <2>1 DEF IoInv, Table
  <2> QED
    BY <2>4, <2>5, <2>6, <2>7 DEF TypeOK
<1> QED
  BY <1>1, InvHolds, PTL

\* The file system and the io layer keep what FileContract promises, where no
\* write starts beyond the end of its file and no wrapper translates newlines:
\* whatever was read ahead, every read gives the bytes at the program's
\* position, and every write goes there and nowhere else.
THEOREM Refines ==
    ASSUME NoNewline \notin Newlines, ~ SeeksPastEnd, ~ ChangesUnread
    PROVE  Spec => ImplementsFiles
<1>1. IoInit => Contract!Init
  BY InitHolds
<1>2. IoInv /\ [Next]_vars => [Contract!Next]_Contract!vars
  <2>1. ASSUME IoInv, Next PROVE Contract!Next
    BY <2>1, StepHolds
  <2>2. ASSUME IoInv, UNCHANGED vars PROVE UNCHANGED Contract!vars
    BY <2>2, StutterStep
  <2> QED
    BY <2>1, <2>2
<1> QED
  BY <1>1, <1>2, InvHolds, PTL DEF Spec, ImplementsFiles, Contract!Spec

\* And whatever changes where a wrapper has read ahead, with newlines translated
\* or not, stale text or not: a write goes to the program's position, a truncate
\* cuts or lengthens its file, and no other byte changes.
THEOREM RefinesWrites ==
    ASSUME ~ SeeksPastEnd
    PROVE  Spec => ImplementsWrites
<1>1. IoInit => Unread!Init
  BY InitHolds
<1>2. IoInv /\ [Next]_vars => [Unread!Next]_Unread!vars
  <2>1. ASSUME IoInv, Next PROVE [Unread!Next]_Unread!vars
    BY <2>1, StepHolds
  <2>2. ASSUME IoInv, UNCHANGED vars PROVE UNCHANGED Unread!vars
    BY <2>2, StutterStep, UnreadSame
  <2> QED
    BY <2>1, <2>2
<1> QED
  BY <1>1, <1>2, InvHolds, PTL DEF Spec, ImplementsWrites, Unread!Spec

=============================================================================
