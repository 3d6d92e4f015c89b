--------------------------- MODULE HandlesProofs ---------------------------
(***************************************************************************)
(* Theorems of Handles for every set of objects, every number of ids, every *)
(* nesting depth and every count.  They assume HeapAboveIds, what the code *)
(* says of the heap: without it PointersDoNotAlias fails.                  *)
(*                                                                         *)
(* The argument: the invariants of Handles speak of one handle at a time   *)
(* (HandleIdentity apart), and so does what makes them inductive.  Local   *)
(* collects it: whatever owns a handle (a scope, a count, C, immortality)  *)
(* owns a bound one, nothing at or above the id counter is in use, and the *)
(* owners are kept apart as popScope needs them.                           *)
(***************************************************************************)
EXTENDS Handles, SequenceTheorems, TLAPS

\* The invariant of handle k, were its count r and C's references o.
LocalWith(k, r, o) ==
    /\ r = o \/ (r = 0 /\ k \in immortal)
    /\ handles[k] \in Val => scopeOf[k] # 0 \/ r > 0 \/ k \in immortal
    /\ scopeOf[k] # 0 \/ r > 0 \/ o > 0 \/ k \in immortal => handles[k] \in Val
    /\ freeList[k] > 0 => freeList[k] = 1 /\ handles[k] = Nil
    /\ nextHandleId <= k => handles[k] \notin Val /\ freeList[k] = 0
    /\ scopeOf[k] # 0 => k \in scopes[scopeOf[k]]
    /\ k \in immortal => scopeOf[k] = 0 /\ r = 0

Local(k) == LocalWith(k, refcounts[k], owned[k])

Inv == TypeOK /\ HandleIdentity /\ \A k \in Id : Local(k)

LEMMA InvMeaning ==
    ASSUME Inv
    PROVE  TypeOK /\ HandleIdentity /\ CountIsOwnership /\ NoLeak /\ FreeIdsAreDead
  BY HandlesAssumption
     DEF Inv, TypeOK, Local, LocalWith, CountIsOwnership, NoLeak, FreeIdsAreDead, Bound, Val

----------------------------------------------------------------------------
(* Facts about the operators the actions are built from. *)

\* The part of the type invariant about the table and its ids.
TableType ==
    /\ handles \in [Id -> Val \cup {Nil, TypeStruct}]
    /\ sentinelByObj \in [Objs -> Id \cup {0}]
    /\ nextHandleId \in FirstId..(MaxId + 1)
    /\ freeList \in [Id -> Nat]

\* What minting h for v does: h named nothing and had no owner, v had no
\* handle, and h leaves the free list or the counter passes it.
Minted(v, h) ==
    /\ handles[h] = Nil
    /\ scopeOf[h] = 0 /\ refcounts[h] = 0 /\ owned[h] = 0 /\ h \notin immortal
    /\ \A k \in Id : handles[k] # v \/ v \notin Objs
    /\ handles' = [handles EXCEPT ![h] = v]
    /\ sentinelByObj' = IF v \in Objs THEN [sentinelByObj EXCEPT ![v] = h]
                                      ELSE sentinelByObj
    /\ nextHandleId' \in FirstId..(MaxId + 1)
    /\ nextHandleId <= nextHandleId'
    /\ h < nextHandleId'
    /\ freeList' \in [Id -> Nat]
    /\ freeList'[h] = 0
    /\ \A k \in Id : k # h => freeList'[k] = freeList[k]

LEMMA MintFacts ==
    ASSUME Inv, NEW v \in Val, NEW h \in Id, Mint(v, h)
    PROVE  Minted(v, h) /\ TableType' /\ HandleIdentity'
<1>0. TypeOK /\ HandleIdentity /\ Local(h)
  BY DEF Inv
<1>1. handles[h] = Nil
  BY <1>0, HandlesAssumption DEF Mint, AllocSentinelId, Bound, Local, LocalWith
<1>2. scopeOf[h] = 0 /\ refcounts[h] = 0 /\ owned[h] = 0 /\ h \notin immortal
  BY <1>0, <1>1, HandlesAssumption DEF Local, LocalWith, TypeOK
<1>3. \A k \in Id : handles[k] # v \/ v \notin Objs
  BY <1>0 DEF Mint, Interned, HandleIdentity
<1>4. /\ nextHandleId' \in FirstId..(MaxId + 1)
      /\ nextHandleId <= nextHandleId'
      /\ h < nextHandleId'
      /\ freeList' \in [Id -> Nat]
      /\ freeList'[h] = 0
      /\ \A k \in Id : k # h => freeList'[k] = freeList[k]
  <2>0. nextHandleId \in FirstId..(MaxId + 1) /\ freeList \in [Id -> Nat]
    BY <1>0 DEF TypeOK
  <2>1. CASE freeList[h] > 0 /\ freeList' = [freeList EXCEPT ![h] = @ - 1]
             /\ UNCHANGED nextHandleId
    BY <1>0, <2>0, <2>1, HandlesAssumption DEF Local, LocalWith, Id
  <2>2. CASE /\ \A k \in Id : freeList[k] = 0
             /\ nextHandleId <= h
             /\ nextHandleId' = h + 1
             /\ UNCHANGED freeList
    BY <2>0, <2>2, HandlesAssumption DEF Id
  <2> QED
    BY <2>1, <2>2 DEF Mint, AllocSentinelId
<1>5. Minted(v, h)
  BY <1>1, <1>2, <1>3, <1>4 DEF Mint, Minted
<1>6. TableType' /\ HandleIdentity'
  BY <1>0, <1>5, HandlesAssumption DEF Minted, TableType, TypeOK, HandleIdentity
<1> QED
  BY <1>5, <1>6

\* The stack sc whose top array received h.
Tracked(sc, h) == [sc EXCEPT ![Len(sc)] = @ \cup {h}]

LEMMA TrackFacts ==
    ASSUME NEW sc \in Seq(SUBSET Id), sc # <<>>, NEW h \in Id
    PROVE  /\ Tracked(sc, h) \in Seq(SUBSET Id)
           /\ Len(Tracked(sc, h)) = Len(sc)
           /\ \A d \in 1..Len(sc) : \A x :
                  x \in Tracked(sc, h)[d] <=> x \in sc[d] \/ (d = Len(sc) /\ x = h)
<1> DEFINE n == Len(sc)
           S == SUBSET Id
           e == sc[n] \cup {h}
<1>1. n \in Nat /\ n # 0
  BY LenProperties, EmptySeq
<1>2. n \in 1..n
  BY <1>1
<1>3. e \in S
  BY <1>2, ElementOfSeq
<1>4. Tracked(sc, h) = [sc EXCEPT ![n] = e] /\ sc \in Seq(S)
  BY DEF Tracked
<1> HIDE DEF e, S
<1>5. /\ [sc EXCEPT ![n] = e] \in Seq(S)
      /\ Len([sc EXCEPT ![n] = e]) = Len(sc)
      /\ \A j \in 1..Len(sc) : [sc EXCEPT ![n] = e][j] = IF j = n THEN e ELSE sc[j]
  BY <1>2, <1>3, <1>4, ExceptSeq
<1>6. /\ Tracked(sc, h) \in Seq(SUBSET Id)
      /\ Len(Tracked(sc, h)) = Len(sc)
  BY <1>4, <1>5 DEF S
<1>7. ASSUME NEW d \in 1..Len(sc), NEW x
      PROVE  x \in Tracked(sc, h)[d] <=> x \in sc[d] \/ (d = Len(sc) /\ x = h)
  <2>1. CASE d = n
    <3>1. Tracked(sc, h)[d] = e
      BY <1>4, <1>5, <2>1
    <3> QED
      BY <2>1, <3>1 DEF e
  <2>2. CASE d # n
    <3>1. Tracked(sc, h)[d] = sc[d]
      BY <1>4, <1>5, <2>2
    <3> QED
      BY <2>2, <3>1
  <2> QED
    BY <2>1, <2>2
<1> QED
  BY <1>6, <1>7

\* wrap, run under the current stack or one with a scope more, gives a handle
\* that names v and leaves every handle with the counts it had in order.
LEMMA WrapFacts ==
    ASSUME Inv, NEW v \in Val, NEW h \in Id, NEW sc \in Seq(SUBSET Id),
           Len(scopes) <= Len(sc), \A d \in 1..Len(scopes) : sc[d] = scopes[d],
           Wrap(v, h, sc)
    PROVE  /\ TableType' /\ HandleIdentity'
           /\ scopes' \in Seq(SUBSET Id) /\ Len(scopes') = Len(sc)
           /\ scopeOf' \in [Id -> 0..Len(sc)]
           /\ immortal' \subseteq Id
           /\ handles'[h] = v
           /\ \A k \in Id : \A r, o \in Nat :
                  r = refcounts[k] /\ o = owned[k] => LocalWith(k, r, o)'
<1>0. TypeOK /\ HandleIdentity /\ \A k \in Id : Local(k)
  BY DEF Inv
<1>1. scopes \in Seq(SUBSET Id) /\ Len(scopes) \in Nat /\ Len(sc) \in Nat
  BY <1>0, LenProperties DEF TypeOK
<1>2. \A k \in Id : /\ scopeOf[k] \in 0..Len(scopes)
                    /\ refcounts[k] \in Nat /\ owned[k] \in Nat
  BY <1>0 DEF TypeOK
<1>3. CASE /\ Interned(v, h)
           /\ scopes' = sc
           /\ UNCHANGED <<handles, sentinelByObj, nextHandleId, freeList, scopeOf, immortal>>
  <2>1. TableType' /\ HandleIdentity' /\ immortal' \subseteq Id
    BY <1>0, <1>3 DEF TypeOK, TableType, HandleIdentity
  <2>2. scopeOf' \in [Id -> 0..Len(sc)]
    BY <1>0, <1>1, <1>2, <1>3 DEF TypeOK
  <2>3. handles'[h] = v
    BY <1>3 DEF Interned
  <2>4. ASSUME NEW k \in Id, NEW r \in Nat, NEW o \in Nat, r = refcounts[k], o = owned[k]
        PROVE  LocalWith(k, r, o)'
    BY <1>0, <1>1, <1>2, <1>3, <2>4 DEF Local, LocalWith
  <2> QED
    BY <1>3, <2>1, <2>2, <2>3, <2>4
<1>4. CASE /\ Mint(v, h)
           /\ ScopeTrack(h, sc)
           /\ immortal' = IF sc = <<>> THEN immortal \cup {h} ELSE immortal
  <2>0. Minted(v, h) /\ TableType' /\ HandleIdentity'
    BY <1>4, MintFacts
  <2>1. scopeOf' = [scopeOf EXCEPT ![h] = Len(sc)]
    BY <1>4 DEF ScopeTrack
  <2>2. scopeOf' \in [Id -> 0..Len(sc)]
    BY <1>0, <1>1, <1>2, <2>1 DEF TypeOK
  <2>3. immortal' \subseteq Id
    BY <1>0, <1>4 DEF TypeOK
  <2>4. handles'[h] = v
    BY <1>0, <2>0 DEF Minted, TypeOK
  <2>5. sc = <<>> <=> Len(sc) = 0
    BY EmptySeq
  <2>6. /\ scopes' \in Seq(SUBSET Id) /\ Len(scopes') = Len(sc)
        /\ \A d \in 1..Len(sc) : \A x :
               x \in scopes'[d] <=> x \in sc[d] \/ (d = Len(sc) /\ x = h)
    <3>1. CASE sc = <<>>
      BY <1>4, <2>5, <3>1 DEF ScopeTrack
    <3>2. CASE sc # <<>>
      <4>1. scopes' = Tracked(sc, h)
        BY <1>4, <3>2 DEF ScopeTrack, Tracked
      <4> QED
        BY <3>2, <4>1, TrackFacts
    <3> QED
      BY <3>1, <3>2
  <2>7. ASSUME NEW k \in Id, NEW r \in Nat, NEW o \in Nat, r = refcounts[k], o = owned[k]
        PROVE  LocalWith(k, r, o)'
    <3>0. Local(k) /\ scopeOf[k] \in 0..Len(scopes)
      BY <1>0, <1>2
    <3>1. CASE k = h
      <4>1. /\ r = 0 /\ o = 0 /\ scopeOf'[k] = Len(sc)
            /\ (k \in immortal') <=> (Len(sc) = 0)
            /\ freeList'[k] = 0 /\ ~(nextHandleId' <= k)
            /\ handles'[k] = v
        BY <1>0, <1>1, <1>4, <2>0, <2>1, <2>4, <2>5, <2>7, <3>1, HandlesAssumption
           DEF Minted, TypeOK, Id
      <4>2. Len(sc) # 0 => k \in scopes'[Len(sc)]
        BY <1>1, <2>6, <3>1
      <4> QED
        BY <1>1, <4>1, <4>2 DEF LocalWith
    <3>2. CASE k # h
      <4>1. /\ handles'[k] = handles[k] /\ scopeOf'[k] = scopeOf[k]
            /\ freeList'[k] = freeList[k]
            /\ (k \in immortal') <=> (k \in immortal)
            /\ nextHandleId' <= k => nextHandleId <= k
        BY <1>0, <1>4, <2>0, <2>1, <3>2, HandlesAssumption DEF Minted, TypeOK, Id
      <4>2. scopeOf[k] # 0 /\ k \in scopes[scopeOf[k]] => k \in scopes'[scopeOf[k]]
        BY <1>1, <2>6, <3>0
      <4> QED
        BY <2>7, <3>0, <4>1, <4>2 DEF Local, LocalWith
    <3> QED
      BY <3>1, <3>2
  <2> QED
    BY <2>0, <2>2, <2>3, <2>4, <2>6, <2>7
<1> QED
  BY <1>3, <1>4 DEF Wrap

----------------------------------------------------------------------------
(* Every action preserves the invariant. *)

\* What the typing of a step adds to the table's.
LEMMA InvFrom ==
    ASSUME TableType', HandleIdentity',
           (scopes \in Seq(SUBSET Id))', (scopeOf \in [Id -> 0..Len(scopes)])',
           (refcounts \in [Id -> Nat])', (owned \in [Id -> Nat])',
           (args \in Seq([val : Val, h : Id]))', (Len(args) = Len(scopes))',
           (immortal \subseteq Id)', (pinned \subseteq Id)',
           \A k \in Id : Local(k)'
    PROVE  Inv'
  BY DEF Inv, TypeOK, TableType

LEMMA EnterInv ==
    ASSUME Inv, NEW v \in Val, NEW h \in Id, Enter(v, h)
    PROVE  Inv'
<1> DEFINE sc == Append(scopes, {})
           Arg == [val : Val, h : Id]
           a == [val |-> v, h |-> h]
<1>0. TypeOK
  BY DEF Inv
<1>1. /\ args' = Append(args, a)
      /\ UNCHANGED <<refcounts, owned, pinned>>
      /\ Wrap(v, h, sc)
  BY DEF Enter
<1>2. args \in Seq(Arg) /\ a \in Arg /\ scopes \in Seq(SUBSET Id) /\ Len(args) = Len(scopes)
  BY <1>0 DEF TypeOK
<1>3. Len(scopes) \in Nat
  BY <1>2, LenProperties
<1>4. /\ sc \in Seq(SUBSET Id) /\ Len(sc) = Len(scopes) + 1
      /\ \A d \in 1..Len(scopes) : sc[d] = scopes[d]
  BY <1>2, AppendProperties
<1> HIDE DEF sc, Arg, a
<1>5. args' \in Seq(Arg) /\ Len(args') = Len(args) + 1
  BY <1>1, <1>2, AppendProperties
<1>6. /\ TableType' /\ HandleIdentity'
      /\ scopes' \in Seq(SUBSET Id) /\ Len(scopes') = Len(sc)
      /\ scopeOf' \in [Id -> 0..Len(sc)]
      /\ immortal' \subseteq Id
      /\ \A k \in Id : \A r, o \in Nat :
             r = refcounts[k] /\ o = owned[k] => LocalWith(k, r, o)'
  BY <1>1, <1>3, <1>4, WrapFacts
<1>7. \A k \in Id : Local(k)'
  BY <1>0, <1>1, <1>6 DEF Local, TypeOK
<1> QED
  BY <1>0, <1>1, <1>2, <1>4, <1>5, <1>6, <1>7, InvFrom DEF TypeOK, Arg

LEMMA BorrowInv ==
    ASSUME Inv, NEW v \in Val, NEW h \in Id, Borrow(v, h)
    PROVE  Inv'
<1>0. TypeOK /\ scopes \in Seq(SUBSET Id) /\ Len(scopes) \in Nat
  BY LenProperties DEF Inv, TypeOK
<1>1. UNCHANGED <<refcounts, args, owned, pinned>> /\ Wrap(v, h, scopes)
  BY DEF Borrow
<1>2. /\ TableType' /\ HandleIdentity'
      /\ scopes' \in Seq(SUBSET Id) /\ Len(scopes') = Len(scopes)
      /\ scopeOf' \in [Id -> 0..Len(scopes)]
      /\ immortal' \subseteq Id
      /\ \A k \in Id : \A r, o \in Nat :
             r = refcounts[k] /\ o = owned[k] => LocalWith(k, r, o)'
  BY <1>0, <1>1, WrapFacts
<1>3. \A k \in Id : Local(k)'
  BY <1>0, <1>1, <1>2 DEF Local, TypeOK
<1> QED
  BY <1>0, <1>1, <1>2, <1>3, InvFrom DEF TypeOK

LEMMA NewRefInv ==
    ASSUME Inv, NEW v \in Val, NEW h \in Id, NewRef(v, h)
    PROVE  Inv'
<1>0. TypeOK /\ scopes \in Seq(SUBSET Id) /\ Len(scopes) \in Nat
  BY LenProperties DEF Inv, TypeOK
<1>1. /\ UNCHANGED <<args, pinned>> /\ Wrap(v, h, scopes)
      /\ refcounts' = Incref(h, scopeOf')
      /\ owned' = [owned EXCEPT ![h] = @ + 1]
  BY DEF NewRef
<1>2. /\ TableType' /\ HandleIdentity'
      /\ scopes' \in Seq(SUBSET Id) /\ Len(scopes') = Len(scopes)
      /\ scopeOf' \in [Id -> 0..Len(scopes)]
      /\ immortal' \subseteq Id
      /\ handles'[h] = v
      /\ \A k \in Id : \A r, o \in Nat :
             r = refcounts[k] /\ o = owned[k] => LocalWith(k, r, o)'
  BY <1>0, <1>1, WrapFacts
<1>3. refcounts' \in [Id -> Nat] /\ owned' \in [Id -> Nat]
  BY <1>0, <1>1 DEF TypeOK, Incref
<1>4. ASSUME NEW k \in Id PROVE Local(k)'
  <2>0. refcounts[k] \in Nat /\ owned[k] \in Nat /\ scopeOf'[k] \in Nat
    BY <1>0, <1>2 DEF TypeOK
  <2>2. PICK r \in Nat, o \in Nat : r = refcounts[k] /\ o = owned[k] /\ LocalWith(k, r, o)'
    BY <1>2, <2>0
  <2>3. CASE k # h
    BY <1>0, <1>1, <2>2, <2>3 DEF Local, LocalWith, Incref, TypeOK
  <2>4. CASE k = h
    <3>1. refcounts'[k] = IF r > 0 THEN r + 1 ELSE IF scopeOf'[k] # 0 THEN 1 ELSE r
      BY <1>0, <1>1, <2>2, <2>4 DEF Incref, TypeOK
    <3>2. owned'[k] = o + 1
      BY <1>0, <1>1, <2>2, <2>4 DEF TypeOK
    <3> QED
      BY <1>2, <2>0, <2>2, <2>4, <3>1, <3>2 DEF Local, LocalWith
  <2> QED
    BY <2>3, <2>4
<1> QED
  BY <1>0, <1>1, <1>2, <1>3, <1>4, InvFrom DEF TypeOK

LEMMA PyIncrefInv ==
    ASSUME Inv, NEW h \in Id, PyIncref(h)
    PROVE  Inv'
<1>0. TypeOK /\ HandleIdentity /\ \A k \in Id : Local(k)
  BY DEF Inv
<1>1. /\ UNCHANGED <<handles, sentinelByObj, nextHandleId, freeList, scopes,
                     scopeOf, args, immortal, pinned>>
      /\ refcounts' = Incref(h, scopeOf)
      /\ owned' = [owned EXCEPT ![h] = @ + 1]
      /\ Holds(h)
  BY DEF PyIncref
<1>2. refcounts' \in [Id -> Nat] /\ owned' \in [Id -> Nat]
  BY <1>0, <1>1 DEF TypeOK, Incref
<1>3. TableType' /\ HandleIdentity'
  BY <1>0, <1>1 DEF TypeOK, TableType, HandleIdentity
<1>4. owned[h] > 0 \/ handles[h] \in Val
  <2>1. args # <<>> => args[Len(args)] \in [val : Val, h : Id]
    <3>1. args \in Seq([val : Val, h : Id]) /\ Len(args) \in Nat
      BY <1>0, LenProperties DEF TypeOK
    <3>2. args # <<>> => Len(args) \in 1..Len(args)
      BY <3>1, EmptySeq
    <3> QED
      BY <3>1, <3>2, ElementOfSeq
  <2> QED
    BY <1>1, <2>1 DEF Holds
<1>5. ASSUME NEW k \in Id PROVE Local(k)'
  <2>0. /\ refcounts[k] \in Nat /\ owned[k] \in Nat /\ scopeOf[k] \in Nat /\ Local(k)
    BY <1>0, LenProperties DEF TypeOK
  <2>1. CASE k # h
    BY <1>0, <1>1, <2>0, <2>1 DEF Local, LocalWith, Incref, TypeOK
  <2>2. CASE k = h
    <3>1. /\ refcounts'[k] = IF refcounts[k] > 0 THEN refcounts[k] + 1
                              ELSE IF scopeOf[k] # 0 THEN 1 ELSE refcounts[k]
          /\ owned'[k] = owned[k] + 1
      BY <1>0, <1>1, <2>2 DEF Incref, TypeOK
    <3> QED
      BY <1>1, <1>4, <2>0, <2>2, <3>1 DEF Local, LocalWith
  <2> QED
    BY <2>1, <2>2
<1> QED
  BY <1>0, <1>1, <1>2, <1>3, <1>5, InvFrom DEF TypeOK

\* Releasing handles nobody owns leaves the table typed and its identities.
LEMMA ReleaseFacts ==
    ASSUME Inv, NEW S \in SUBSET Id, ReleaseSentinels(S)
    PROVE  TableType' /\ HandleIdentity'
  BY HandlesAssumption DEF Inv, TypeOK, TableType, HandleIdentity, ReleaseSentinels, Val

LEMMA PyDecrefInv ==
    ASSUME Inv, NEW h \in Id, PyDecref(h)
    PROVE  Inv'
<1>0. TypeOK /\ HandleIdentity /\ \A k \in Id : Local(k)
  BY DEF Inv
<1>1. /\ owned[h] > 0
      /\ owned' = [owned EXCEPT ![h] = @ - 1]
      /\ refcounts' = DecrefCount(h)
      /\ UNCHANGED <<args, pinned>>
  BY DEF PyDecref
<1>2. refcounts' \in [Id -> Nat] /\ owned' \in [Id -> Nat]
  BY <1>0, <1>1 DEF TypeOK, DecrefCount
<1>3. scopes \in Seq(SUBSET Id) /\ Len(scopes) \in Nat
  BY <1>0, LenProperties DEF TypeOK
<1>4. \A k \in Id : /\ refcounts[k] \in Nat /\ owned[k] \in Nat
                    /\ scopeOf[k] \in 0..Len(scopes)
                    /\ refcounts'[k] = IF k = h /\ refcounts[k] > 0
                                       THEN refcounts[k] - 1 ELSE refcounts[k]
                    /\ owned'[k] = IF k = h THEN owned[k] - 1 ELSE owned[k]
  BY <1>0, <1>1 DEF TypeOK, DecrefCount
<1>5. CASE /\ Orphaned(h) /\ Depth > 0
           /\ ScopeTrack(h, scopes)
           /\ UNCHANGED <<handles, sentinelByObj, nextHandleId, freeList, immortal>>
  <2>1. TableType' /\ HandleIdentity'
    BY <1>0, <1>5 DEF TypeOK, TableType, HandleIdentity
  <2>2. scopes # <<>> /\ scopes' = Tracked(scopes, h)
    BY <1>3, <1>5, EmptySeq DEF Depth, ScopeTrack, Tracked
  <2>3. /\ scopes' \in Seq(SUBSET Id) /\ Len(scopes') = Len(scopes)
        /\ \A d \in 1..Len(scopes) : \A x :
               x \in scopes'[d] <=> x \in scopes[d] \/ (d = Len(scopes) /\ x = h)
    BY <1>3, <2>2, TrackFacts
  <2>4. scopeOf' = [scopeOf EXCEPT ![h] = Len(scopes)]
    BY <1>5 DEF ScopeTrack
  <2>5. scopeOf' \in [Id -> 0..Len(scopes)]
    BY <1>0, <1>3, <2>4 DEF TypeOK
  <2>6. ASSUME NEW k \in Id PROVE Local(k)'
    <3>0. Local(k)
      BY <1>0
    <3>1. CASE k = h
      <4>1. scopeOf'[k] = Len(scopes) /\ k \in scopes'[Len(scopes)]
        <5>1. scopeOf'[k] = Len(scopes)
          BY <1>0, <2>4, <3>1 DEF TypeOK
        <5>2. Len(scopes) \in 1..Len(scopes)
          BY <1>3, <1>5 DEF Depth
        <5> QED
          BY <2>3, <3>1, <5>1, <5>2
      <4>2. refcounts[k] = 1 /\ scopeOf[k] = 0
        BY <1>5, <3>1 DEF Orphaned
      <4> QED
        BY <1>3, <1>4, <1>5, <3>0, <3>1, <4>1, <4>2 DEF Local, LocalWith, Depth
    <3>2. CASE k # h
      <4>1. scopeOf'[k] = scopeOf[k]
        BY <1>0, <2>4, <3>2 DEF TypeOK
      <4>2. scopeOf[k] # 0 /\ k \in scopes[scopeOf[k]] => k \in scopes'[scopeOf[k]]
        BY <1>3, <1>4, <2>3
      <4> QED
        BY <1>4, <1>5, <3>0, <3>2, <4>1, <4>2 DEF Local, LocalWith
    <3> QED
      BY <3>1, <3>2
  <2> QED
    BY <1>0, <1>1, <1>2, <1>5, <2>1, <2>3, <2>5, <2>6, InvFrom DEF TypeOK
<1>6. CASE /\ Orphaned(h) /\ Depth = 0
           /\ ReleaseSentinels({h})
           /\ UNCHANGED <<scopes, scopeOf>>
  <2>1. TableType' /\ HandleIdentity'
    BY <1>6, ReleaseFacts
  <2>2. UNCHANGED <<nextHandleId, immortal>>
    BY <1>6 DEF ReleaseSentinels
  <2>3. ASSUME NEW k \in Id PROVE Local(k)'
    <3>0. Local(k)
      BY <1>0
    <3>1. /\ handles'[k] = IF k = h THEN Nil ELSE handles[k]
          /\ freeList'[k] = IF k = h /\ k < RecycleLimit THEN freeList[k] + 1 ELSE freeList[k]
      BY <1>6 DEF ReleaseSentinels
    <3>2. freeList[k] \in Nat /\ nextHandleId \in Int /\ k \in Int
      BY <1>0, HandlesAssumption DEF TypeOK, Id
    <3>3. k = h => refcounts[k] = 1 /\ scopeOf[k] = 0
      BY <1>6 DEF Orphaned
    <3> QED
      BY <1>4, <1>6, <2>2, <3>0, <3>1, <3>2, <3>3, HandlesAssumption DEF Local, LocalWith
  <2> QED
    BY <1>0, <1>1, <1>2, <1>6, <2>1, <2>2, <2>3, InvFrom DEF TypeOK
<1>7. CASE /\ ~Orphaned(h)
           /\ UNCHANGED <<handles, sentinelByObj, nextHandleId, freeList,
                          scopes, scopeOf, immortal>>
  <2>1. TableType' /\ HandleIdentity'
    BY <1>0, <1>7 DEF TypeOK, TableType, HandleIdentity
  <2>2. ASSUME NEW k \in Id PROVE Local(k)'
    <3>0. Local(k)
      BY <1>0
    <3>1. k = h => refcounts[k] # 1 \/ scopeOf[k] # 0
      BY <1>7 DEF Orphaned
    <3> QED
      BY <1>1, <1>4, <1>7, <3>0, <3>1 DEF Local, LocalWith
  <2> QED
    BY <1>0, <1>1, <1>2, <1>7, <2>1, <2>2, InvFrom DEF TypeOK
<1>8. Depth > 0 \/ Depth = 0
  BY <1>3 DEF Depth
<1> QED
  BY <1>5, <1>6, <1>7, <1>8 DEF PyDecref

LEMMA WrapPinnedInv ==
    ASSUME Inv, NEW v \in Val, NEW h \in Id, WrapPinned(v, h)
    PROVE  Inv'
<1>0. TypeOK /\ HandleIdentity /\ \A k \in Id : Local(k)
  BY DEF Inv
<1>1. /\ scopeOf' = [scopeOf EXCEPT ![h] = 0]
      /\ pinned' = pinned \cup {h}
      /\ immortal' = IF refcounts[h] = 0 THEN immortal \cup {h} ELSE immortal
      /\ UNCHANGED <<refcounts, args, owned>>
  BY DEF WrapPinned
<1>2. scopes \in Seq(SUBSET Id) /\ Len(scopes) \in Nat
  BY <1>0, LenProperties DEF TypeOK
<1>3. scopeOf' \in [Id -> 0..Len(scopes)] /\ immortal' \subseteq Id /\ pinned' \subseteq Id
  BY <1>0, <1>1, <1>2 DEF TypeOK
<1>4. \A k \in Id : /\ refcounts[k] \in Nat /\ owned[k] \in Nat
                    /\ scopeOf[k] \in 0..Len(scopes)
                    /\ scopeOf'[k] = IF k = h THEN 0 ELSE scopeOf[k]
                    /\ freeList[k] \in Nat
  BY <1>0, <1>1 DEF TypeOK
<1>5. CASE /\ Interned(v, h)
           /\ UNCHANGED <<handles, sentinelByObj, nextHandleId, freeList, scopes>>
  <2>1. TableType' /\ HandleIdentity'
    BY <1>0, <1>5 DEF TypeOK, TableType, HandleIdentity
  <2>2. ASSUME NEW k \in Id PROVE Local(k)'
    <3>1. handles[h] \in Val
      BY <1>5 DEF Interned
    <3> QED
      BY <1>0, <1>1, <1>4, <1>5, <3>1 DEF Local, LocalWith
  <2> QED
    BY <1>0, <1>1, <1>3, <1>5, <2>1, <2>2, InvFrom DEF TypeOK
<1>6. CASE /\ Mint(v, h)
           /\ scopes' = IF scopes = <<>> THEN scopes
                        ELSE [scopes EXCEPT ![Depth] = @ \cup {h}]
  <2>0. Minted(v, h) /\ TableType' /\ HandleIdentity'
    BY <1>6, MintFacts
  <2>1. /\ scopes' \in Seq(SUBSET Id) /\ Len(scopes') = Len(scopes)
        /\ \A d \in 1..Len(scopes) : \A x :
               x \in scopes[d] => x \in scopes'[d]
    <3>1. CASE scopes = <<>>
      BY <1>2, <1>6, <3>1
    <3>2. CASE scopes # <<>>
      <4>1. scopes' = Tracked(scopes, h)
        BY <1>6, <3>2 DEF Tracked, Depth
      <4> QED
        BY <1>2, <3>2, <4>1, TrackFacts
    <3> QED
      BY <3>1, <3>2
  <2>2. ASSUME NEW k \in Id PROVE Local(k)'
    <3>1. /\ handles'[k] = IF k = h THEN v ELSE handles[k]
          /\ nextHandleId' <= k => nextHandleId <= k /\ k # h
          /\ k = h => freeList'[k] = 0 /\ refcounts[k] = 0 /\ owned[k] = 0
          /\ k # h => freeList'[k] = freeList[k]
      BY <1>0, <2>0, HandlesAssumption DEF Minted, TypeOK, Id
    <3>2. scopeOf[k] # 0 /\ k \in scopes[scopeOf[k]] => k \in scopes'[scopeOf[k]]
      BY <1>2, <1>4, <2>1
    <3> QED
      BY <1>0, <1>1, <1>4, <3>1, <3>2 DEF Local, LocalWith
  <2> QED
    BY <1>0, <1>1, <1>3, <2>0, <2>1, <2>2, InvFrom DEF TypeOK
<1> QED
  BY <1>5, <1>6 DEF WrapPinned

LEMMA BindTypeInv ==
    ASSUME HeapAboveIds, Inv, NEW p \in TypePtrs, BindType(p)
    PROVE  Inv'
<1>0. TypeOK /\ HandleIdentity /\ \A k \in Id : Local(k)
  BY DEF Inv
<1>1. /\ nextHandleId <= p
      /\ handles' = [handles EXCEPT ![p] = TypeStruct]
      /\ UNCHANGED <<sentinelByObj, nextHandleId, freeList, scopes, scopeOf,
                     refcounts, args, owned, immortal, pinned>>
  BY DEF BindType
<1>2. p \in Id
  BY HandlesAssumption
<1>3. TableType' /\ HandleIdentity'
  BY <1>0, <1>1, <1>2, HandlesAssumption DEF TypeOK, TableType, HandleIdentity, Val
<1>4. ASSUME NEW k \in Id PROVE Local(k)'
  <2>1. handles'[k] = IF k = p THEN TypeStruct ELSE handles[k]
    BY <1>0, <1>1 DEF TypeOK
  <2>2. Local(k) /\ refcounts[k] \in Nat /\ owned[k] \in Nat /\ freeList[k] \in Nat
    BY <1>0 DEF TypeOK
  <2> QED
    BY <1>1, <2>1, <2>2, HandlesAssumption DEF Local, LocalWith
<1> QED
  BY <1>0, <1>1, <1>3, <1>4, InvFrom DEF TypeOK

\* Dropping the last element of a stack of depth > 0.
LEMMA FrontFacts ==
    ASSUME NEW S, NEW st \in Seq(S), Len(st) > 0
    PROVE  /\ SubSeq(st, 1, Len(st) - 1) \in Seq(S)
           /\ Len(SubSeq(st, 1, Len(st) - 1)) = Len(st) - 1
           /\ \A d \in 1..(Len(st) - 1) : SubSeq(st, 1, Len(st) - 1)[d] = st[d]
<1>1. Len(st) \in Nat
  BY LenProperties
<1>2. \A d \in 1..(Len(st) - 1) : st[d] \in S
  BY <1>1, ElementOfSeq
<1> DEFINE n == Len(st) - 1
<1>3. n \in Nat /\ 1 \in 1..(n + 1) /\ n \in 0..Len(st)
  BY <1>1
<1> HIDE DEF n
<1>4. \A i \in 1..n : st[i] \in S
  BY <1>2 DEF n
<1>5. /\ SubSeq(st, 1, n) \in Seq(S)
      /\ Len(SubSeq(st, 1, n)) = IF 1 <= n THEN n - 1 + 1 ELSE 0
      /\ \A i \in 1..(n - 1 + 1) : SubSeq(st, 1, n)[i] = st[1 + i - 1]
  BY <1>3, <1>4, SubSeqProperties
<1>6. Len(SubSeq(st, 1, n)) = n /\ \A i \in 1..n : SubSeq(st, 1, n)[i] = st[i]
  BY <1>3, <1>5
<1> QED
  BY <1>5, <1>6 DEF n

\* A scope closes after its call dropped a reference: arr, so, rc and ow are
\* the top array, the owners, the counts and C's references by then.
LEMMA PopFacts ==
    ASSUME Inv, Depth > 0, NEW arr \in SUBSET Id,
           NEW so \in [Id -> 0..Depth], NEW rc \in [Id -> Nat], NEW ow \in [Id -> Nat],
           PopScope(arr, so, rc), CloseFrame, owned' = ow,
           \A k \in Id :
              /\ rc[k] = ow[k] \/ (rc[k] = 0 /\ k \in immortal)
              /\ handles[k] \in Val => so[k] # 0 \/ rc[k] > 0 \/ k \in immortal
              /\ so[k] # 0 \/ rc[k] > 0 \/ ow[k] > 0 \/ k \in immortal => handles[k] \in Val
              /\ so[k] = Depth => k \in arr
              /\ so[k] # 0 /\ so[k] # Depth => k \in scopes[so[k]]
              /\ k \in immortal => so[k] = 0 /\ rc[k] = 0
    PROVE  Inv'
<1>0. TypeOK /\ HandleIdentity /\ \A k \in Id : Local(k)
  BY DEF Inv
<1>1. /\ scopes \in Seq(SUBSET Id) /\ Depth = Len(scopes) /\ Len(scopes) \in Nat
      /\ args \in Seq([val : Val, h : Id]) /\ Len(args) = Len(scopes)
  BY <1>0, LenProperties DEF TypeOK, Depth
<1> DEFINE dying == Dying(arr, so, rc)
<1>2. /\ ReleaseSentinels(dying) /\ dying \in SUBSET Id
      /\ scopes' = SubSeq(scopes, 1, Len(scopes) - 1)
      /\ scopeOf' = [h \in Id |-> IF h \in arr /\ so[h] = Depth THEN 0 ELSE so[h]]
      /\ refcounts' = rc
      /\ args' = SubSeq(args, 1, Len(args) - 1)
      /\ UNCHANGED pinned
  BY <1>1 DEF PopScope, CloseFrame, Dying
<1>3. /\ scopes' \in Seq(SUBSET Id) /\ Len(scopes') = Len(scopes) - 1
      /\ \A d \in 1..(Len(scopes) - 1) : scopes'[d] = scopes[d]
      /\ args' \in Seq([val : Val, h : Id]) /\ Len(args') = Len(args) - 1
  BY <1>1, <1>2, FrontFacts
<1>4. TableType' /\ HandleIdentity'
  BY <1>2, ReleaseFacts
<1>5. UNCHANGED <<nextHandleId, immortal>>
  BY <1>2 DEF ReleaseSentinels
<1>6. scopeOf' \in [Id -> 0..(Len(scopes) - 1)]
  BY <1>1, <1>2
<1>7. ASSUME NEW k \in Id PROVE Local(k)'
  <2>0. /\ Local(k) /\ freeList[k] \in Nat /\ nextHandleId \in Int /\ k \in Int
        /\ so[k] \in 0..Depth /\ rc[k] \in Nat /\ ow[k] \in Nat
    BY <1>0, HandlesAssumption DEF TypeOK, Id
  <2>1. k \in dying <=> so[k] = Depth /\ rc[k] = 0
    BY DEF Dying
  <2>2. /\ handles'[k] = IF k \in dying THEN Nil ELSE handles[k]
        /\ freeList'[k] = IF k \in dying /\ k < RecycleLimit
                          THEN freeList[k] + 1 ELSE freeList[k]
    BY <1>2 DEF ReleaseSentinels
  <2>3. scopeOf'[k] = IF so[k] = Depth THEN 0 ELSE so[k]
    BY <1>2
  <2> HIDE DEF dying
  <2>4. scopeOf'[k] # 0 => k \in scopes'[scopeOf'[k]]
    <3>1. CASE so[k] # 0 /\ so[k] # Depth
      <4>1. k \in scopes[so[k]] /\ so[k] \in 1..(Len(scopes) - 1)
        BY <1>1, <2>0, <3>1
      <4>2. scopes'[so[k]] = scopes[so[k]]
        BY <1>3, <4>1
      <4> QED
        BY <2>3, <3>1, <4>1, <4>2
    <3> QED
      BY <2>3, <3>1
  <2>5. CASE k \in dying
    <3>1. rc[k] = 0 /\ so[k] # 0 /\ ow[k] = 0 /\ k \notin immortal /\ handles[k] \in Val
      BY <1>1, <2>0, <2>1, <2>5
    <3>2. freeList[k] = 0 /\ nextHandleId > k
      BY <2>0, <3>1, HandlesAssumption DEF Local, LocalWith
    <3> QED
      BY <1>1, <1>2, <1>5, <2>0, <2>1, <2>2, <2>3, <2>5, <3>1, <3>2, HandlesAssumption
         DEF Local, LocalWith
  <2>6. CASE k \notin dying
    BY <1>1, <1>2, <1>5, <2>0, <2>1, <2>2, <2>3, <2>4, <2>6, HandlesAssumption
       DEF Local, LocalWith
  <2> QED
    BY <2>5, <2>6
<1> QED
  BY <1>0, <1>1, <1>2, <1>3, <1>4, <1>5, <1>6, <1>7, InvFrom DEF TypeOK

LEMMA ReturnNullInv ==
    ASSUME Inv, ReturnNull
    PROVE  Inv'
<1>0. TypeOK /\ HandleIdentity /\ \A k \in Id : Local(k)
  BY DEF Inv
<1>1. /\ scopes \in Seq(SUBSET Id) /\ Len(scopes) \in Nat
  BY <1>0, LenProperties DEF TypeOK
<1>2. /\ PopScope(scopes[Depth], scopeOf, refcounts) /\ CloseFrame /\ owned' = owned /\ Depth > 0
  BY DEF ReturnNull
<1>3. scopes[Depth] \in SUBSET Id
  BY <1>1, <1>2, ElementOfSeq DEF Depth
<1>4. /\ scopeOf \in [Id -> 0..Depth] /\ refcounts \in [Id -> Nat] /\ owned \in [Id -> Nat]
  BY <1>0 DEF TypeOK, Depth
<1>5. \A k \in Id :
         /\ refcounts[k] = owned[k] \/ (refcounts[k] = 0 /\ k \in immortal)
         /\ handles[k] \in Val => scopeOf[k] # 0 \/ refcounts[k] > 0 \/ k \in immortal
         /\ scopeOf[k] # 0 \/ refcounts[k] > 0 \/ owned[k] > 0 \/ k \in immortal
               => handles[k] \in Val
         /\ scopeOf[k] = Depth => k \in scopes[Depth]
         /\ scopeOf[k] # 0 /\ scopeOf[k] # Depth => k \in scopes[scopeOf[k]]
         /\ k \in immortal => scopeOf[k] = 0 /\ refcounts[k] = 0
  BY <1>0, <1>2 DEF Local, LocalWith
<1> QED
  BY <1>2, <1>3, <1>4, <1>5, PopFacts

LEMMA ReturnResultInv ==
    ASSUME Inv, NEW h \in Id, ReturnResult(h)
    PROVE  Inv'
<1>0. TypeOK /\ HandleIdentity /\ \A k \in Id : Local(k)
  BY DEF Inv
<1>1. /\ scopes \in Seq(SUBSET Id) /\ Len(scopes) \in Nat
  BY <1>0, LenProperties DEF TypeOK
<1> DEFINE ow == [owned EXCEPT ![h] = @ - 1]
           rc == DecrefCount(h)
<1>2. /\ owned' = ow /\ owned[h] > 0 /\ CloseFrame /\ Depth > 0
      /\ IF Orphaned(h)
         THEN PopScope(scopes[Depth] \cup {h}, [scopeOf EXCEPT ![h] = Depth], rc)
         ELSE PopScope(scopes[Depth], scopeOf, rc)
  BY DEF ReturnResult
<1>3. scopes[Depth] \in SUBSET Id
  BY <1>1, <1>2, ElementOfSeq DEF Depth
<1>4. scopeOf \in [Id -> 0..Depth] /\ Depth \in Nat
  BY <1>0, <1>1 DEF TypeOK, Depth
<1>5. rc \in [Id -> Nat] /\ ow \in [Id -> Nat]
  BY <1>0, <1>2 DEF TypeOK, DecrefCount
<1>6. \A k \in Id : /\ refcounts[k] \in Nat /\ owned[k] \in Nat
                    /\ rc[k] = IF k = h /\ refcounts[k] > 0
                               THEN refcounts[k] - 1 ELSE refcounts[k]
                    /\ ow[k] = IF k = h THEN owned[k] - 1 ELSE owned[k]
  BY <1>0 DEF TypeOK, DecrefCount
<1> HIDE DEF ow, rc
<1>7. CASE Orphaned(h)
  <2> DEFINE arr == scopes[Depth] \cup {h}
             so == [scopeOf EXCEPT ![h] = Depth]
  <2>1. PopScope(arr, so, rc)
    BY <1>2, <1>7
  <2>2. arr \in SUBSET Id /\ so \in [Id -> 0..Depth]
    BY <1>3, <1>4
  <2>3. refcounts[h] = 1 /\ scopeOf[h] = 0
    BY <1>7 DEF Orphaned
  <2>4. \A k \in Id : /\ so[k] = IF k = h THEN Depth ELSE scopeOf[k]
                      /\ k \in arr <=> k \in scopes[Depth] \/ k = h
    BY <1>4
  <2> HIDE DEF arr, so
  <2>5. \A k \in Id :
           /\ rc[k] = ow[k] \/ (rc[k] = 0 /\ k \in immortal)
           /\ handles[k] \in Val => so[k] # 0 \/ rc[k] > 0 \/ k \in immortal
           /\ so[k] # 0 \/ rc[k] > 0 \/ ow[k] > 0 \/ k \in immortal => handles[k] \in Val
           /\ so[k] = Depth => k \in arr
           /\ so[k] # 0 /\ so[k] # Depth => k \in scopes[so[k]]
           /\ k \in immortal => so[k] = 0 /\ rc[k] = 0
    BY <1>0, <1>2, <1>4, <1>6, <2>3, <2>4 DEF Local, LocalWith
  <2> QED
    BY <1>2, <1>5, <2>1, <2>2, <2>5, PopFacts
<1>8. CASE ~Orphaned(h)
  <2>1. PopScope(scopes[Depth], scopeOf, rc)
    BY <1>2, <1>8
  <2>2. refcounts[h] # 1 \/ scopeOf[h] # 0
    BY <1>8 DEF Orphaned
  <2>3. \A k \in Id :
           /\ rc[k] = ow[k] \/ (rc[k] = 0 /\ k \in immortal)
           /\ handles[k] \in Val => scopeOf[k] # 0 \/ rc[k] > 0 \/ k \in immortal
           /\ scopeOf[k] # 0 \/ rc[k] > 0 \/ ow[k] > 0 \/ k \in immortal
                 => handles[k] \in Val
           /\ scopeOf[k] = Depth => k \in scopes[Depth]
           /\ scopeOf[k] # 0 /\ scopeOf[k] # Depth => k \in scopes[scopeOf[k]]
           /\ k \in immortal => scopeOf[k] = 0 /\ rc[k] = 0
    BY <1>0, <1>2, <1>6, <2>2 DEF Local, LocalWith
  <2> QED
    BY <1>2, <1>3, <1>4, <1>5, <2>1, <2>3, PopFacts
<1> QED
  BY <1>7, <1>8

----------------------------------------------------------------------------
(* The theorems. *)

LEMMA InitInv == Init => Inv
<1> SUFFICES ASSUME Init PROVE Inv
  OBVIOUS
<1>1. /\ scopes \in Seq(SUBSET Id) /\ Len(scopes) = 0
      /\ args \in Seq([val : Val, h : Id]) /\ Len(args) = 0
  BY EmptySeq DEF Init
<1>2. scopeOf \in [Id -> 0..Len(scopes)]
  BY <1>1 DEF Init
<1>3. TypeOK
  BY <1>1, <1>2, HandlesAssumption DEF Init, TypeOK, Id
<1>4. HandleIdentity /\ \A k \in Id : Local(k)
  BY HandlesAssumption DEF Init, HandleIdentity, Local, LocalWith, Val
<1> QED
  BY <1>3, <1>4 DEF Inv

LEMMA NextInv ==
    ASSUME HeapAboveIds, Inv, [Next]_vars
    PROVE  Inv'
<1>1. CASE \E v \in Val, h \in Id : Enter(v, h)
  BY <1>1, EnterInv
<1>2. CASE \E h \in Id : ReturnResult(h)
  BY <1>2, ReturnResultInv
<1>3. CASE ReturnNull
  BY <1>3, ReturnNullInv
<1>4. CASE \E v \in Val, h \in Id : Borrow(v, h)
  BY <1>4, BorrowInv
<1>5. CASE \E v \in Val, h \in Id : NewRef(v, h)
  BY <1>5, NewRefInv
<1>6. CASE \E h \in Id : PyIncref(h)
  BY <1>6, PyIncrefInv
<1>7. CASE \E h \in Id : PyDecref(h)
  BY <1>7, PyDecrefInv
<1>8. CASE \E v \in Pinnable, h \in Id : WrapPinned(v, h)
  <2>1. Pinnable \subseteq Val
    BY HandlesAssumption DEF Val
  <2> QED
    BY <1>8, <2>1, WrapPinnedInv
<1>9. CASE \E p \in TypePtrs : BindType(p)
  BY <1>9, BindTypeInv
<1>10. CASE UNCHANGED vars
  BY <1>10 DEF vars, Inv, TypeOK, HandleIdentity, Local, LocalWith
<1> QED
  BY <1>1, <1>2, <1>3, <1>4, <1>5, <1>6, <1>7, <1>8, <1>9, <1>10 DEF Next

\* The strengthening of the invariants is inductive.
THEOREM Invariance ==
    ASSUME HeapAboveIds
    PROVE  Spec => []Inv
<1>1. Inv /\ [Next]_vars => Inv'
  BY NextInv
<1> QED
  BY InitInv, <1>1, PTL DEF Spec

\* The table, its reverse map, the stack of scopes and the counts keep their
\* types, and every owner named is a scope of the stack.
THEOREM TypeCorrect ==
    ASSUME HeapAboveIds
    PROVE  Spec => []TypeOK
  BY Invariance, InvMeaning, PTL

\* No object is ever known to C under two PyObject* values.
THEOREM Identity ==
    ASSUME HeapAboveIds
    PROVE  Spec => []HandleIdentity
  BY Invariance, InvMeaning, PTL

\* The bridge's counts are C's references: no sequence of calls, however
\* nested, makes the two drift apart.
THEOREM CountsAreExact ==
    ASSUME HeapAboveIds
    PROVE  Spec => []CountIsOwnership
  BY Invariance, InvMeaning, PTL

\* Every handle of the table has an owner.
THEOREM NothingLeaks ==
    ASSUME HeapAboveIds
    PROVE  Spec => []NoLeak
  BY Invariance, InvMeaning, PTL

\* An id on the free list is dead.
THEOREM RecycledIdsAreDead ==
    ASSUME HeapAboveIds
    PROVE  Spec => []FreeIdsAreDead
  BY Invariance, InvMeaning, PTL

----------------------------------------------------------------------------
(* What a step may do to a handle that names an object. *)

\* The step leaves k's binding alone unless nothing C relies on holds it, and
\* its owner unless its scope closes or the bridge pins it.
Kept(k) ==
    /\ \/ handles'[k] = handles[k]
       \/ /\ handles'[k] = Nil /\ owned'[k] = 0 /\ k \notin immortal
          /\ ~(scopeOf[k] \in 1..Len(scopes'))
    /\ scopeOf[k] \in 1..Len(scopes') => scopeOf'[k] = scopeOf[k] \/ k \in pinned'

LEMMA WrapKeeps ==
    ASSUME Inv, NEW v \in Val, NEW h \in Id, NEW sc, Wrap(v, h, sc),
           NEW k \in Id, handles[k] \in Val
    PROVE  Kept(k)
<1>0. TypeOK
  BY DEF Inv
<1>1. CASE UNCHANGED <<handles, scopeOf>>
  BY <1>1 DEF Kept
<1>2. CASE Mint(v, h) /\ ScopeTrack(h, sc)
  <2>1. Minted(v, h)
    BY <1>2, MintFacts
  <2>2. k # h
    BY <2>1, HandlesAssumption DEF Minted, Val
  <2> QED
    BY <1>0, <1>2, <2>1, <2>2 DEF Minted, ScopeTrack, TypeOK, Kept
<1> QED
  BY <1>1, <1>2 DEF Wrap

LEMMA PopKeeps ==
    ASSUME Inv, Depth > 0, NEW arr \in SUBSET Id, NEW so, NEW rc,
           PopScope(arr, so, rc),
           NEW k \in Id, handles[k] \in Val,
           so[k] = scopeOf[k] \/ (scopeOf[k] = 0 /\ so[k] = Depth),
           rc[k] = owned'[k] \/ (rc[k] = 0 /\ k \in immortal),
           k \in immortal => so[k] = 0
    PROVE  Kept(k)
<1>0. TypeOK
  BY DEF Inv
<1>1. /\ scopes \in Seq(SUBSET Id) /\ Len(scopes) \in Nat /\ Len(scopes) > 0
      /\ Depth = Len(scopes) /\ scopeOf[k] \in 0..Len(scopes)
  BY <1>0, LenProperties DEF TypeOK, Depth
<1>2. Len(scopes') = Len(scopes) - 1
  BY <1>1, FrontFacts DEF PopScope
<1>3. scopeOf'[k] = IF k \in arr /\ so[k] = Depth THEN 0 ELSE so[k]
  BY DEF PopScope
<1>4. handles'[k] = IF k \in Dying(arr, so, rc) THEN Nil ELSE handles[k]
  BY DEF PopScope, ReleaseSentinels
<1>5. k \in Dying(arr, so, rc) => so[k] = Depth /\ rc[k] = 0
  BY DEF Dying
<1>6. k \in Dying(arr, so, rc) =>
         /\ owned'[k] = 0 /\ k \notin immortal
         /\ ~(scopeOf[k] \in 1..Len(scopes'))
  BY <1>1, <1>2, <1>5
<1>7. scopeOf[k] \in 1..Len(scopes') => scopeOf'[k] = scopeOf[k]
  BY <1>1, <1>2, <1>3
<1> QED
  BY <1>4, <1>6, <1>7 DEF Kept

LEMMA ReturnKeeps ==
    ASSUME Inv, NEW k \in Id, handles[k] \in Val,
           ReturnNull \/ \E h \in Id : ReturnResult(h)
    PROVE  Kept(k)
<1>0. TypeOK /\ Local(k)
  BY DEF Inv
<1>1. scopes \in Seq(SUBSET Id) /\ Len(scopes) \in Nat
  BY <1>0, LenProperties DEF TypeOK
<1>2. Depth > 0 => scopes[Depth] \in SUBSET Id
  BY <1>1, ElementOfSeq DEF Depth
<1>3. CASE ReturnNull
  <2>1. PopScope(scopes[Depth], scopeOf, refcounts) /\ owned' = owned /\ Depth > 0
    BY <1>3 DEF ReturnNull
  <2>2. /\ refcounts[k] = owned'[k] \/ (refcounts[k] = 0 /\ k \in immortal)
        /\ k \in immortal => scopeOf[k] = 0
    BY <1>0, <2>1 DEF Local, LocalWith
  <2> QED
    BY <1>2, <2>1, <2>2, PopKeeps
<1>4. ASSUME NEW h \in Id, ReturnResult(h) PROVE Kept(k)
  <2> DEFINE rc == DecrefCount(h)
             so == [scopeOf EXCEPT ![h] = Depth]
  <2>1. /\ Depth > 0 /\ owned[h] > 0
        /\ owned' = [owned EXCEPT ![h] = @ - 1]
        /\ IF Orphaned(h) THEN PopScope(scopes[Depth] \cup {h}, so, rc)
                          ELSE PopScope(scopes[Depth], scopeOf, rc)
    BY <1>4 DEF ReturnResult
  <2>2. rc[k] = owned'[k] \/ (rc[k] = 0 /\ k \in immortal)
    <3>1. /\ rc[k] = IF k = h /\ refcounts[k] > 0 THEN refcounts[k] - 1 ELSE refcounts[k]
          /\ owned'[k] = IF k = h THEN owned[k] - 1 ELSE owned[k]
          /\ refcounts[k] \in Nat /\ owned[k] \in Nat
      BY <1>0, <2>1 DEF DecrefCount, TypeOK
    <3>2. refcounts[k] = owned[k] \/ (refcounts[k] = 0 /\ k \in immortal)
      BY <1>0 DEF Local, LocalWith
    <3> HIDE DEF rc
    <3> QED
      BY <2>1, <3>1, <3>2
  <2>3. k \in immortal => scopeOf[k] = 0 /\ refcounts[k] = 0
    BY <1>0 DEF Local, LocalWith
  <2>4. so[k] = IF k = h THEN Depth ELSE scopeOf[k]
    BY <1>0 DEF TypeOK
  <2> HIDE DEF rc, so
  <2>5. CASE Orphaned(h)
    <3>1. refcounts[h] = 1 /\ scopeOf[h] = 0
      BY <2>5 DEF Orphaned
    <3>2. /\ so[k] = scopeOf[k] \/ (scopeOf[k] = 0 /\ so[k] = Depth)
          /\ k \in immortal => so[k] = 0
      BY <2>3, <2>4, <3>1
    <3>3. PopScope(scopes[Depth] \cup {h}, so, rc) /\ scopes[Depth] \cup {h} \in SUBSET Id
      BY <1>2, <2>1, <2>5
    <3> QED
      BY <2>1, <2>2, <3>2, <3>3, PopKeeps
  <2>6. CASE ~Orphaned(h)
    <3>1. PopScope(scopes[Depth], scopeOf, rc)
      BY <2>1, <2>6
    <3> QED
      BY <1>2, <2>1, <2>2, <2>3, <3>1, PopKeeps
  <2> QED
    BY <2>5, <2>6
<1> QED
  BY <1>3, <1>4

LEMMA DecrefKeeps ==
    ASSUME Inv, NEW k \in Id, handles[k] \in Val, NEW h \in Id, PyDecref(h)
    PROVE  Kept(k)
<1>0. TypeOK /\ Local(k)
  BY DEF Inv
<1>1. /\ owned' = [owned EXCEPT ![h] = @ - 1] /\ owned[h] > 0
      /\ \/ Orphaned(h) /\ ScopeTrack(h, scopes) /\ UNCHANGED handles
         \/ Orphaned(h) /\ ReleaseSentinels({h}) /\ UNCHANGED <<scopes, scopeOf>>
         \/ UNCHANGED <<handles, scopes, scopeOf>>
  BY DEF PyDecref
<1>2. Orphaned(h) => refcounts[h] = 1 /\ scopeOf[h] = 0
  BY DEF Orphaned
<1>3. CASE Orphaned(h) /\ ScopeTrack(h, scopes) /\ UNCHANGED handles
  BY <1>0, <1>2, <1>3 DEF ScopeTrack, TypeOK, Kept
<1>4. CASE Orphaned(h) /\ ReleaseSentinels({h}) /\ UNCHANGED <<scopes, scopeOf>>
  <2>1. handles'[k] = IF k = h THEN Nil ELSE handles[k]
    BY <1>4 DEF ReleaseSentinels
  <2>2. k = h => owned'[k] = 0 /\ k \notin immortal /\ scopeOf[k] = 0
    BY <1>0, <1>1, <1>2, <1>4 DEF Local, LocalWith, TypeOK
  <2> QED
    BY <1>4, <2>1, <2>2 DEF Kept
<1>5. CASE UNCHANGED <<handles, scopes, scopeOf>>
  BY <1>5 DEF Kept
<1> QED
  BY <1>1, <1>3, <1>4, <1>5

LEMMA PinKeeps ==
    ASSUME Inv, NEW k \in Id, handles[k] \in Val,
           NEW v \in Val, NEW h \in Id, WrapPinned(v, h)
    PROVE  Kept(k)
<1>0. TypeOK
  BY DEF Inv
<1>1. /\ scopeOf' = [scopeOf EXCEPT ![h] = 0] /\ h \in pinned'
      /\ UNCHANGED handles \/ Mint(v, h)
  BY DEF WrapPinned
<1>2. scopeOf'[k] = scopeOf[k] \/ k \in pinned'
  BY <1>0, <1>1 DEF TypeOK
<1>3. ASSUME Mint(v, h) PROVE handles'[k] = handles[k]
  <2>1. Minted(v, h)
    BY <1>3, MintFacts
  <2> QED
    BY <1>0, <2>1, HandlesAssumption DEF Minted, Val, TypeOK
<1> QED
  BY <1>1, <1>2, <1>3 DEF Kept

LEMMA NextKeeps ==
    ASSUME HeapAboveIds, Inv, [Next]_vars, NEW k \in Id, handles[k] \in Val
    PROVE  Kept(k)
<1>1. CASE \E v \in Val, h \in Id : Enter(v, h) \/ Borrow(v, h) \/ NewRef(v, h)
  BY <1>1, WrapKeeps DEF Enter, Borrow, NewRef
<1>2. CASE ReturnNull \/ \E h \in Id : ReturnResult(h)
  BY <1>2, ReturnKeeps
<1>3. CASE \E h \in Id : PyIncref(h)
  BY <1>3 DEF PyIncref, Kept
<1>4. CASE \E h \in Id : PyDecref(h)
  BY <1>4, DecrefKeeps
<1>5. CASE \E v \in Pinnable, h \in Id : WrapPinned(v, h)
  <2>1. Pinnable \subseteq Val
    BY HandlesAssumption DEF Val
  <2> QED
    BY <1>5, <2>1, PinKeeps
<1>6. CASE \E p \in TypePtrs : BindType(p)
  <2>1. PICK p \in TypePtrs : BindType(p)
    BY <1>6
  <2>2. p \in Id /\ TypeOK /\ Local(p)
    BY HandlesAssumption DEF Inv
  <2>3. p # k
    BY <2>1, <2>2 DEF BindType, Local, LocalWith
  <2> QED
    BY <2>1, <2>2, <2>3 DEF BindType, Kept, TypeOK
<1>7. CASE UNCHANGED vars
  BY <1>7 DEF vars, Kept
<1> QED
  BY <1>1, <1>2, <1>3, <1>4, <1>5, <1>6, <1>7 DEF Next

\* What a scope owns survives every call nested in it.
THEOREM ScopesProtect ==
    ASSUME HeapAboveIds
    PROVE  Spec => ScopeProtects
<1>1. ASSUME Inv, [Next]_vars, NEW h \in Id, scopeOf[h] \in 1..Len(scopes')
      PROVE  /\ handles'[h] = handles[h]
             /\ scopeOf'[h] = scopeOf[h] \/ h \in pinned'
  <2>1. handles[h] \in Val
    <3>1. Local(h)
      BY <1>1 DEF Inv
    <3> QED
      BY <1>1, <3>1 DEF Local, LocalWith
  <2> QED
    BY <1>1, <2>1, NextKeeps DEF Kept
<1>2. Inv /\ [Next]_vars =>
        [\A h \in Id : scopeOf[h] \in 1..Len(scopes') =>
            /\ handles'[h] = handles[h]
            /\ scopeOf'[h] = scopeOf[h] \/ h \in pinned']_vars
  BY <1>1
<1> QED
  BY Invariance, <1>2, PTL DEF Spec, ScopeProtects

\* A handle C owns a reference on, or that lasts for ever, is never rebound.
THEOREM OwnedHandlesLast ==
    ASSUME HeapAboveIds
    PROVE  Spec => HeldKept
<1>1. ASSUME Inv, [Next]_vars, NEW h \in Id,
             (owned[h] > 0 /\ owned'[h] > 0) \/ h \in immortal
      PROVE  Bound(h) /\ handles'[h] = handles[h]
  <2>1. handles[h] \in Val /\ owned[h] \in Nat
    <3>1. Local(h) /\ owned[h] \in Nat
      BY <1>1 DEF Inv, TypeOK
    <3> QED
      BY <1>1, <3>1 DEF Local, LocalWith
  <2>2. Bound(h)
    BY <2>1, HandlesAssumption DEF Bound
  <2> QED
    BY <1>1, <2>1, <2>2, NextKeeps DEF Kept
<1>2. Inv /\ [Next]_vars =>
        [\A h \in Id : (owned[h] > 0 /\ owned'[h] > 0) \/ h \in immortal =>
            Bound(h) /\ handles'[h] = handles[h]]_vars
  BY <1>1
<1> QED
  BY Invariance, <1>2, PTL DEF Spec, HeldKept

----------------------------------------------------------------------------
(* The table implements its contract. *)

\* The abstract table.
barNames == [h \in Id |-> IF handles[h] = TypeStruct THEN Nil ELSE handles[h]]

\* Minting h for v grants it; finding it again does nothing, or takes a
\* reference when the call counts one.
LEMMA WrapRefines ==
    ASSUME Inv, NEW v \in Val, NEW h \in Id, NEW sc, Wrap(v, h, sc),
           owned' = owned \/ owned' = [owned EXCEPT ![h] = @ + 1]
    PROVE  [Contract!CNext]_(Contract!cvars)
<1>0. TypeOK
  BY DEF Inv
<1>1. v # Nil /\ v # TypeStruct /\ Val = Objs \cup Prims
  BY HandlesAssumption DEF Val
<1>2. CASE Interned(v, h) /\ UNCHANGED <<handles, immortal>>
  <2>1. barNames[h] # Nil /\ barNames' = barNames
    BY <1>1, <1>2 DEF Interned, barNames
  <2>2. CASE owned' = owned
    BY <1>2, <2>1, <2>2 DEF Contract!cvars, barNames
  <2>3. CASE owned' = [owned EXCEPT ![h] = @ + 1]
    <3>1. Contract!Take(h)
      BY <1>2, <2>1, <2>3 DEF Contract!Take, barNames
    <3> QED
      BY <3>1 DEF Contract!CNext
  <2> QED
    BY <2>2, <2>3
<1>3. CASE Mint(v, h) /\ (immortal' = immortal \/ immortal' = immortal \cup {h})
  <2>1. Minted(v, h)
    BY <1>3, MintFacts
  <2>2. barNames[h] = Nil /\ barNames' = [barNames EXCEPT ![h] = v]
    BY <1>0, <1>1, <2>1, HandlesAssumption DEF Minted, barNames, TypeOK
  <2>3. v \in Objs => \A g \in Id : barNames[g] # v
    BY <1>1, <2>1 DEF Minted, barNames
  <2>4. owned' = owned \/ owned' = [owned EXCEPT ![h] = 1]
    BY <1>0, <2>1 DEF Minted, TypeOK
  <2>5. Contract!Grant(h, v)
    BY <1>3, <2>2, <2>3, <2>4 DEF Contract!Grant, barNames
  <2> QED
    BY <1>1, <2>5 DEF Contract!CNext
<1> QED
  BY <1>2, <1>3 DEF Wrap

\* Releasing a set of handles that nothing holds is a drop.
LEMMA DropRefines ==
    ASSUME Inv, NEW S \in SUBSET Id, ReleaseSentinels(S),
           \A k \in S : owned'[k] = 0 /\ k \notin immortal,
           owned' = owned \/ \E h \in Id : /\ owned[h] > 0
                                          /\ owned' = [owned EXCEPT ![h] = @ - 1]
    PROVE  Contract!CNext
<1>1. UNCHANGED immortal
  BY DEF ReleaseSentinels
<1>2. barNames' = [h \in Id |-> IF h \in S THEN Nil ELSE barNames[h]]
  BY HandlesAssumption DEF ReleaseSentinels, barNames
<1>3. Contract!Drop(S)
  BY <1>1, <1>2 DEF Contract!Drop, barNames
<1> QED
  BY <1>3 DEF Contract!CNext

\* Closing a scope, likewise.
LEMMA PopRefines ==
    ASSUME Inv, NEW arr \in SUBSET Id, NEW so, NEW rc, PopScope(arr, so, rc), Depth > 0,
           \A k \in Id : /\ rc[k] = owned'[k] \/ (rc[k] = 0 /\ k \in immortal)
                         /\ k \in immortal => so[k] = 0,
           owned' = owned \/ \E h \in Id : /\ owned[h] > 0
                                          /\ owned' = [owned EXCEPT ![h] = @ - 1]
    PROVE  Contract!CNext
<1>1. /\ Dying(arr, so, rc) \in SUBSET Id
      /\ \A k \in Dying(arr, so, rc) : owned'[k] = 0 /\ k \notin immortal
  BY LenProperties DEF Dying, Depth
<1>2. ReleaseSentinels(Dying(arr, so, rc))
  BY DEF PopScope
<1> QED
  BY <1>1, <1>2, DropRefines

LEMMA ReturnRefines ==
    ASSUME Inv, ReturnNull \/ \E h \in Id : ReturnResult(h)
    PROVE  Contract!CNext
<1>0. TypeOK /\ \A k \in Id : Local(k)
  BY DEF Inv
<1>1. scopes \in Seq(SUBSET Id) /\ Len(scopes) \in Nat
  BY <1>0, LenProperties DEF TypeOK
<1>2. Depth > 0 => scopes[Depth] \in SUBSET Id
  BY <1>1, ElementOfSeq DEF Depth
<1>3. \A k \in Id : /\ refcounts[k] \in Nat /\ owned[k] \in Nat
                    /\ refcounts[k] = owned[k] \/ (refcounts[k] = 0 /\ k \in immortal)
                    /\ k \in immortal => scopeOf[k] = 0 /\ refcounts[k] = 0
  BY <1>0 DEF Local, LocalWith, TypeOK
<1>4. CASE ReturnNull
  <2>1. PopScope(scopes[Depth], scopeOf, refcounts) /\ owned' = owned /\ Depth > 0
    BY <1>4 DEF ReturnNull
  <2> QED
    BY <1>2, <1>3, <2>1, PopRefines
<1>5. ASSUME NEW h \in Id, ReturnResult(h) PROVE Contract!CNext
  <2> DEFINE rc == DecrefCount(h)
             so == [scopeOf EXCEPT ![h] = Depth]
  <2>1. /\ Depth > 0 /\ owned[h] > 0
        /\ owned' = [owned EXCEPT ![h] = @ - 1]
        /\ IF Orphaned(h) THEN PopScope(scopes[Depth] \cup {h}, so, rc)
                          ELSE PopScope(scopes[Depth], scopeOf, rc)
    BY <1>5 DEF ReturnResult
  <2>2. \A k \in Id :
           /\ rc[k] = IF k = h /\ refcounts[k] > 0 THEN refcounts[k] - 1 ELSE refcounts[k]
           /\ owned'[k] = IF k = h THEN owned[k] - 1 ELSE owned[k]
           /\ so[k] = IF k = h THEN Depth ELSE scopeOf[k]
    BY <1>0, <2>1 DEF DecrefCount, TypeOK
  <2> HIDE DEF rc, so
  <2>3. \A k \in Id : rc[k] = owned'[k] \/ (rc[k] = 0 /\ k \in immortal)
    BY <1>3, <2>1, <2>2
  <2>4. CASE Orphaned(h)
    <3>1. refcounts[h] = 1
      BY <2>4 DEF Orphaned
    <3>2. \A k \in Id : k \in immortal => so[k] = 0
      BY <1>3, <2>2, <3>1
    <3>3. PopScope(scopes[Depth] \cup {h}, so, rc) /\ scopes[Depth] \cup {h} \in SUBSET Id
      BY <1>2, <2>1, <2>4
    <3> QED
      BY <2>1, <2>3, <3>2, <3>3, PopRefines
  <2>5. CASE ~Orphaned(h)
    <3>1. PopScope(scopes[Depth], scopeOf, rc)
      BY <2>1, <2>5
    <3> QED
      BY <1>2, <1>3, <2>1, <2>3, <3>1, PopRefines
  <2> QED
    BY <2>4, <2>5
<1> QED
  BY <1>4, <1>5

LEMMA DecrefRefines ==
    ASSUME Inv, NEW h \in Id, PyDecref(h)
    PROVE  Contract!CNext
<1>0. TypeOK /\ Local(h)
  BY DEF Inv
<1>1. /\ owned' = [owned EXCEPT ![h] = @ - 1] /\ owned[h] > 0
      /\ \/ UNCHANGED <<handles, immortal>>
         \/ Orphaned(h) /\ ReleaseSentinels({h})
  BY DEF PyDecref
<1>2. CASE UNCHANGED <<handles, immortal>>
  <2>1. barNames' = [k \in Id |-> IF k \in {} THEN Nil ELSE barNames[k]]
    BY <1>2 DEF barNames
  <2>2. Contract!Drop({})
    BY <1>1, <1>2, <2>1 DEF Contract!Drop, barNames
  <2> QED
    BY <2>2 DEF Contract!CNext
<1>3. CASE Orphaned(h) /\ ReleaseSentinels({h})
  <2>1. owned'[h] = 0 /\ h \notin immortal
    BY <1>0, <1>1, <1>3 DEF Orphaned, Local, LocalWith, TypeOK
  <2> QED
    BY <1>1, <1>3, <2>1, DropRefines
<1> QED
  BY <1>1, <1>2, <1>3

LEMMA PinRefines ==
    ASSUME Inv, NEW v \in Val, NEW h \in Id, WrapPinned(v, h)
    PROVE  [Contract!CNext]_(Contract!cvars)
<1>0. TypeOK
  BY DEF Inv
<1>1. v # Nil /\ v # TypeStruct /\ Val = Objs \cup Prims
  BY HandlesAssumption DEF Val
<1>2. /\ owned' = owned
      /\ immortal' = immortal \/ immortal' = immortal \cup {h}
      /\ Mint(v, h) \/ (Interned(v, h) /\ UNCHANGED handles)
  BY DEF WrapPinned
<1>3. CASE Interned(v, h) /\ UNCHANGED handles
  <2>1. barNames[h] # Nil /\ barNames' = barNames
    BY <1>1, <1>3 DEF Interned, barNames
  <2>2. CASE immortal' = immortal
    BY <1>2, <2>1, <2>2 DEF Contract!cvars, barNames
  <2>3. CASE immortal' = immortal \cup {h}
    <3>1. Contract!Keep(h)
      BY <1>2, <2>1, <2>3 DEF Contract!Keep, barNames
    <3> QED
      BY <3>1 DEF Contract!CNext
  <2> QED
    BY <1>2, <2>2, <2>3
<1>4. CASE Mint(v, h)
  <2>1. Minted(v, h)
    BY <1>4, MintFacts
  <2>2. barNames[h] = Nil /\ barNames' = [barNames EXCEPT ![h] = v]
    BY <1>0, <1>1, <2>1, HandlesAssumption DEF Minted, barNames, TypeOK
  <2>3. v \in Objs => \A g \in Id : barNames[g] # v
    BY <1>1, <2>1 DEF Minted, barNames
  <2>4. Contract!Grant(h, v)
    BY <1>2, <2>2, <2>3 DEF Contract!Grant, barNames
  <2> QED
    BY <1>1, <2>4 DEF Contract!CNext
<1> QED
  BY <1>2, <1>3, <1>4

LEMMA NextRefines ==
    ASSUME HeapAboveIds, Inv, [Next]_vars
    PROVE  [Contract!CNext]_(Contract!cvars)
<1>0. TypeOK
  BY DEF Inv
<1>1. CASE \E v \in Val, h \in Id : Enter(v, h) \/ Borrow(v, h) \/ NewRef(v, h)
  BY <1>1, WrapRefines DEF Enter, Borrow, NewRef
<1>2. CASE ReturnNull \/ \E h \in Id : ReturnResult(h)
  BY <1>2, ReturnRefines
<1>3. ASSUME NEW h \in Id, PyIncref(h) PROVE Contract!CNext
  <2>1. PyIncref(h) /\ Inv'
    BY <1>3, PyIncrefInv
  <2>2. /\ UNCHANGED <<handles, immortal>>
        /\ owned' = [owned EXCEPT ![h] = @ + 1]
    BY <2>1 DEF PyIncref
  <2>3. owned'[h] > 0
    BY <1>0, <2>2 DEF TypeOK
  <2>4. Local(h)'
    BY <2>1 DEF Inv
  <2>5. handles[h] \in Val
    BY <2>2, <2>3, <2>4 DEF Local, LocalWith
  <2>6. barNames[h] # Nil /\ barNames' = barNames
    BY <2>2, <2>5, HandlesAssumption DEF barNames
  <2>7. Contract!Take(h)
    BY <2>2, <2>6 DEF Contract!Take, barNames
  <2> QED
    BY <2>7 DEF Contract!CNext
<1>4. CASE \E h \in Id : PyDecref(h)
  BY <1>4, DecrefRefines
<1>5. CASE \E v \in Pinnable, h \in Id : WrapPinned(v, h)
  <2>1. Pinnable \subseteq Val
    BY HandlesAssumption DEF Val
  <2> QED
    BY <1>5, <2>1, PinRefines
<1>6. ASSUME NEW p \in TypePtrs, BindType(p) PROVE UNCHANGED Contract!cvars
  <2>1. p \in Id /\ Local(p)
    BY HandlesAssumption DEF Inv
  <2>2. nextHandleId <= p /\ handles[p] # TypeStruct
    BY <1>6 DEF BindType
  <2>3. handles[p] = Nil
    BY <1>0, <2>1, <2>2 DEF Local, LocalWith, TypeOK
  <2>4. barNames' = barNames /\ UNCHANGED <<owned, immortal>>
    BY <1>0, <1>6, <2>1, <2>3 DEF BindType, barNames, TypeOK
  <2> QED
    BY <2>4 DEF Contract!cvars, barNames
<1>7. CASE UNCHANGED vars
  BY <1>7 DEF vars, Contract!cvars
<1> QED
  BY <1>1, <1>2, <1>3, <1>4, <1>5, <1>6, <1>7 DEF Next

\* Scopes, counts and recycled ids hidden, the table keeps its promise to C.
THEOREM Refinement ==
    ASSUME HeapAboveIds
    PROVE  Spec => ImplementsContract
<1>1. Init => Contract!CInit
  BY HandlesAssumption DEF Init, Contract!CInit
<1>2. Inv /\ [Next]_vars => [Contract!CNext]_(Contract!cvars)
  BY NextRefines
<1> QED
  BY Invariance, <1>1, <1>2, PTL DEF Spec, ImplementsContract, Contract!CSpec

=============================================================================
