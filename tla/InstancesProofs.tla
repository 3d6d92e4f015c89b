-------------------------- MODULE InstancesProofs --------------------------
(***************************************************************************)
(* Theorems about Instances, for any number of addresses, instances and    *)
(* references, any nesting of calls and both settings of the switches.     *)
(*                                                                         *)
(* Two inductive invariants.  Inv holds whatever the switches say: what    *)
(* the table, the watched wrappers and the registry know of an address is  *)
(* true of the struct that is there.  Strong holds with the registry off,  *)
(* as the bridge is shipped: every struct is bound, so that a count that   *)
(* reaches zero frees it, and only then.                                   *)
(***************************************************************************)
EXTENDS Instances, SequenceTheorems, TLAPS

\* A struct is the one its instance was given.
Settled ==
    \A p \in Ptrs : struct[p] # None => home[struct[p]] = p /\ wrapper[struct[p]] # "unborn"

Fresh ==
    \A g \in Gen : IF wrapper[g] = "unborn"
                   THEN /\ cref[g] = 0 /\ wref[g] = 0 /\ deallocs[g] = 0
                        /\ g \notin crossed \cup argpin \cup watched
                   ELSE home[g] \in Ptrs

\* An address is bound to the instance there or watches it, not both.
Tables ==
    \A p \in Ptrs :
        /\ Bound(p) => /\ handles[p] = struct[p] /\ demoted[p] = None
                       /\ wrapper[handles[p]] # "collected"
        /\ demoted[p] # None => demoted[p] = struct[p] /\ demoted[p] \in watched

\* The registry knows no struct that is gone.
Registry ==
    /\ \A g \in registered : Alive(g) /\ wrapper[g] # "collected"
    /\ \A g \in callbacks : Alive(g) /\ wrapper[g] = "collected"

Stores ==
    \A g \in Gen : wref[g] <= MaxStores + (IF g \in argpin THEN 1 ELSE 0)
                                        + (IF g \in crossed THEN 1 ELSE 0)

Inv == TypeOK /\ Settled /\ Fresh /\ Tables /\ Registry /\ Stores

----------------------------------------------------------------------------
(* Facts about the operators. *)

LEMMA NoneIsNoInstance == None \notin Gen
BY InstancesAssumption DEF None, Gen

LEMMA PopFrames ==
    ASSUME TypeOK, Depth > 0
    PROVE  /\ SubSeq(frames, 1, Depth - 1) \in Seq(Gen)
           /\ Len(SubSeq(frames, 1, Depth - 1)) = Depth - 1
<1> DEFINE n == Depth - 1
<1>1. frames \in Seq(Gen) /\ Depth \in Nat /\ n \in Nat
      /\ \A i \in 1..n : frames[i] \in Gen
  BY DEF TypeOK, Depth
<1>2. n = Depth - 1
  OBVIOUS
<1> HIDE DEF n
<1>3. SubSeq(frames, 1, n) \in Seq(Gen)
      /\ Len(SubSeq(frames, 1, n)) = IF 1 <= n THEN n - 1 + 1 ELSE 0
  BY <1>1, SubSeqProperties
<1> QED
  BY <1>1, <1>2, <1>3

LEMMA PushFrames ==
    ASSUME TypeOK, NEW g \in Gen
    PROVE  Append(frames, g) \in Seq(Gen) /\ Len(Append(frames, g)) = Depth + 1
BY DEF TypeOK, Depth

LEMMA IncrefType ==
    ASSUME Inv, NEW p \in Ptrs
    PROVE  Incref(p) \in [Ptrs -> Nat]
<1>1. refcounts \in [Ptrs -> Nat]
  BY DEF Inv, TypeOK
<1> QED
  BY <1>1 DEF Incref

\* What unwrap does to the tables.
LEMMA UnwrapTables ==
    ASSUME Inv, NEW p \in Ptrs
    PROVE  /\ Unwrapped(p) \in [Ptrs -> Gen \cup {None}]
           /\ Unwatched(p) \in [Ptrs -> Gen \cup {None}]
           /\ Reborn(p) \subseteq Ptrs /\ (Depth = 0 => Reborn(p) = {})
           /\ Unwrapped(p)[p] # None => Unwrapped(p)[p] = struct[p] 
           /\ \A q \in Ptrs :
                /\ Unwrapped(p)[q] # None
                     => /\ Unwrapped(p)[q] = struct[q] /\ Unwatched(p)[q] = None
                        /\ wrapper[Unwrapped(p)[q]] # "collected"
                /\ Unwatched(p)[q] # None
                     => Unwatched(p)[q] = struct[q] /\ Unwatched(p)[q] \in watched
BY DEF Inv, TypeOK, Tables, Unwrapped, Unwatched, Reborn, Recovers, Track, Bound

\* What GC_Del does at bound addresses: whatever it frees is forgotten.
Forgets(S, c) ==
    /\ struct' \in [Ptrs -> Gen \cup {None}] /\ handles' \in [Ptrs -> Gen \cup {None}]
    /\ refcounts' \in [Ptrs -> Nat] /\ demoted' = demoted
    /\ deallocs' \in [Gen -> Nat] /\ registered' \subseteq registered
    /\ \A p \in Ptrs : struct'[p] = struct[p] \/ (~c /\ p \in S /\ struct'[p] = None)
    /\ \A p \in Ptrs : handles'[p] = handles[p] \/ (~c /\ p \in S /\ handles'[p] = None)
    /\ \A p \in S : ~c => struct'[p] = None /\ handles'[p] = None
    /\ \A p \in S : struct[p] \notin registered'
    /\ \A g \in Gen : wrapper[g] = "unborn" => deallocs'[g] = deallocs[g]

LEMMA GcDelKeeps ==
    ASSUME Inv, NEW S \in SUBSET Ptrs, NEW c \in BOOLEAN, \A p \in S : Bound(p),
           GcDel(S, c)
    PROVE  Forgets(S, c)
<1>1. \A p \in S : handles[p] = struct[p] /\ struct[p] \in Gen /\ demoted[p] = None
                   /\ home[struct[p]] = p
  <2> SUFFICES ASSUME NEW p \in S
               PROVE  /\ handles[p] = struct[p] /\ struct[p] \in Gen /\ demoted[p] = None
                      /\ home[struct[p]] = p
    OBVIOUS
  <2>1. struct[p] \in Gen \cup {None}
    BY DEF Inv, TypeOK
  <2>2. handles[p] = struct[p] /\ demoted[p] = None /\ struct[p] # None
    BY DEF Inv, Tables, Bound
  <2> QED
    BY <2>1, <2>2 DEF Inv, Settled
<1>2. /\ refcounts' \in [Ptrs -> Nat] /\ demoted' = demoted
      /\ deallocs' \in [Gen -> Nat]
  BY <1>1 DEF GcDel, Uncounted, Inv, TypeOK
<1>3. /\ registered' \subseteq registered
      /\ \A p \in S : struct[p] \notin registered'
  BY <1>1 DEF GcDel, Unregistered
<1>4. /\ struct' \in [Ptrs -> Gen \cup {None}] /\ handles' \in [Ptrs -> Gen \cup {None}]
      /\ \A p \in Ptrs : struct'[p] = struct[p] \/ (~c /\ p \in S /\ struct'[p] = None)
      /\ \A p \in Ptrs : handles'[p] = handles[p] \/ (~c /\ p \in S /\ handles'[p] = None)
      /\ \A p \in S : ~c => struct'[p] = None /\ handles'[p] = None
  BY DEF GcDel, Frees, Unbinding, Inv, TypeOK
<1>5. \A g \in Gen : wrapper[g] = "unborn" => deallocs'[g] = deallocs[g]
  BY NoneIsNoInstance DEF GcDel, Inv, Settled, TypeOK
<1> QED
  BY <1>2, <1>3, <1>4, <1>5 DEF Forgets

----------------------------------------------------------------------------
(* Each action keeps Inv. *)

LEMMA NewKeeps ==
    ASSUME Inv, NEW g \in Gen, NEW p \in Ptrs, New(g, p)
    PROVE  Inv'
<1>1. handles[p] = None /\ demoted[p] = None
  BY DEF Inv, Tables, New, Bound
<1>2. wrapper[g] = "unborn" /\ g \notin crossed \cup argpin \cup watched
      /\ wref[g] = 0 /\ deallocs[g] = 0 /\ cref[g] = 0
  BY DEF Inv, Fresh, New
<1>3. \A q \in Ptrs : struct[q] # g
  BY <1>2, NoneIsNoInstance DEF Inv, Settled
<1>4. TypeOK'
  <2>1. struct' \in [Ptrs -> Gen \cup {None}] /\ handles' \in [Ptrs -> Gen \cup {None}]
    BY DEF New, Inv, TypeOK
  <2>4. refcounts' \in [Ptrs -> Nat]
    BY DEF New, Inv, TypeOK
  <2>2. born' \subseteq Ptrs /\ (Depth = 0 => born' = {})
    BY DEF New, Track, Inv, TypeOK
  <2>3. /\ home' \in [Gen -> Ptrs \cup {None}] /\ wrapper' \in [Gen -> WrapperState]
        /\ cref' \in [Gen -> 0..MaxRefs]
    BY InstancesAssumption DEF New, Inv, TypeOK, WrapperState
  <2> QED
    BY <2>1, <2>2, <2>3, <2>4 DEF New, Inv, TypeOK, Depth
<1>5. Settled'
  BY <1>3 DEF New, Inv, Settled, TypeOK
<1>6. Fresh'
  BY DEF New, Inv, Fresh, TypeOK
<1>7. Tables'
  BY <1>1, <1>3 DEF New, Inv, Tables, TypeOK, Bound
<1>8. Registry'
  <2>1. \A k \in registered \cup callbacks : k \in Gen /\ k # g
    BY <1>2 DEF Inv, TypeOK
  <2>2. \A k \in registered \cup callbacks : home[k] # p
    BY <2>1, NoneIsNoInstance DEF New, Inv, Registry, Alive
  <2>3. \A k \in registered \cup callbacks :
           home[k] \in Ptrs /\ wrapper[k] # "unborn" /\ struct[home[k]] = k
    BY <2>1 DEF Inv, Registry, Alive, Fresh
  <2>4. \A k \in registered \cup callbacks :
           home'[k] = home[k] /\ wrapper'[k] = wrapper[k] /\ struct'[home[k]] = k
    BY <2>1, <2>2, <2>3 DEF New, Inv, TypeOK
  <2> QED
    BY <2>3, <2>4 DEF New, Inv, Registry, Alive
<1>9. Stores'
  BY DEF New, Inv, Stores
<1> QED
  BY <1>4, <1>5, <1>6, <1>7, <1>8, <1>9 DEF Inv

LEMMA PyIncrefKeeps ==
    ASSUME Inv, NEW g \in Gen, PyIncref(g)
    PROVE  Inv'
<1>1. home[g] \in Ptrs
  BY DEF Inv, Fresh, PyIncref, CHolds, Alive
<1>2. TypeOK'
  <2>1. refcounts' \in [Ptrs -> Nat]
    BY <1>1, IncrefType DEF PyIncref
  <2>2. cref' \in [Gen -> 0..MaxRefs]
    BY InstancesAssumption DEF PyIncref, Inv, TypeOK
  <2> QED
    BY <2>1, <2>2 DEF PyIncref, Inv, TypeOK, Depth
<1>3. Fresh'
  BY DEF PyIncref, CHolds, Alive, Inv, Fresh, TypeOK
<1>4. Settled'
  BY DEF PyIncref, Inv, Settled
<1>5. Tables'
  BY DEF PyIncref, Inv, Tables, Bound
<1>6. Registry'
  BY DEF PyIncref, Inv, Registry, Alive
<1>7. Stores'
  BY DEF PyIncref, Inv, Stores
<1> QED
  BY <1>2, <1>3, <1>4, <1>5, <1>6, <1>7 DEF Inv

\* Counts and scopes are all a decref changes, or GC_Del does it.
LEMMA ToZeroKeeps ==
    ASSUME Inv, NEW S \in SUBSET Ptrs, ToZero(S)
    PROVE  \/ GcDel(S, FALSE) /\ UNCHANGED strays /\ \A p \in S : Bound(p)
           \/ /\ refcounts' \in [Ptrs -> Nat] /\ strays' \in [Ptrs -> 0..Depth]
              /\ UNCHANGED <<struct, handles, demoted, registered, deallocs>>
<1> DEFINE unbound == {p \in S : ~Bound(p)}
<1>1. CASE unbound = {}
  BY <1>1 DEF ToZero
<1>2. CASE unbound # {}
  <2>1. /\ refcounts' = [p \in Ptrs |-> IF p \in S THEN 0 ELSE refcounts[p]]
        /\ strays' = [p \in Ptrs |-> IF p \in unbound /\ strays[p] = 0
                                     THEN Depth ELSE strays[p]]
        /\ UNCHANGED <<struct, handles, demoted, registered, deallocs>>
    BY <1>2 DEF ToZero
  <2>2. /\ Depth \in Nat /\ refcounts \in [Ptrs -> Nat]
        /\ \A p \in Ptrs : strays[p] \in 0..Depth
    BY DEF Inv, TypeOK, Depth
  <2> HIDE DEF unbound
  <2>3. \A d \in Nat : d \in 0..d
    OBVIOUS
  <2>4. refcounts' \in [Ptrs -> Nat]
    BY <2>1, <2>2
  <2>5. strays' \in [Ptrs -> 0..Depth]
    BY <2>1, <2>2, <2>3
  <2> QED
    BY <2>1, <2>4, <2>5
<1> QED
  BY <1>1, <1>2

\* No wrapper comes to life or is collected.
Living == {"held", "dropped", "released"}
SameLife ==
    \A g \in Gen : wrapper'[g] = wrapper[g] \/ {wrapper'[g], wrapper[g]} \subseteq Living

\* What frees the structs at bound addresses of S keeps the tables.
LEMMA GcDelTables ==
    ASSUME Inv, NEW S \in SUBSET Ptrs, NEW c \in BOOLEAN, \A p \in S : Bound(p),
           GcDel(S, c), UNCHANGED <<home, watched, callbacks>>, SameLife
    PROVE  Settled' /\ Tables' /\ Registry'
<1>0. /\ \A p \in Ptrs : struct[p] \in Gen \cup {None} /\ handles[p] \in Gen \cup {None}
      /\ registered \subseteq Gen /\ callbacks \subseteq Gen
  BY DEF Inv, TypeOK
<1>5. Forgets(S, c)
  BY GcDelKeeps
<1>2. Settled'
  BY <1>0, <1>5, NoneIsNoInstance DEF Settled, Inv, Forgets, SameLife, Living
<1>3. Tables'
  BY <1>0, <1>5, NoneIsNoInstance DEF Tables, Inv, Bound, Forgets, SameLife, Living
<1>4. Registry'
  <2>1. \A g \in registered' : g \in registered /\ home[g] \in Ptrs /\ struct[home[g]] = g
                               /\ wrapper[g] # "unborn"
    BY <1>0, <1>5 DEF Inv, Registry, Alive, Fresh, Forgets
  <2>2. \A g \in callbacks : home[g] \in Ptrs /\ struct[home[g]] = g
                             /\ wrapper[g] = "collected"
    BY <1>0 DEF Inv, Registry, Alive, Fresh
  <2>3. \A g \in registered' : struct'[home[g]] = g
    BY <1>5, <2>1 DEF Forgets
  <2>4. \A g \in callbacks : home[g] \notin S
    BY <2>2 DEF Inv, Tables
  <2>5. \A g \in callbacks : struct'[home[g]] = g
    BY <1>5, <2>2, <2>4 DEF Forgets
  <2> QED
    BY <1>0, <2>1, <2>2, <2>3, <2>5 DEF Registry, Inv, Alive, SameLife, Living
<1> QED
  BY <1>2, <1>3, <1>4

\* A step that keeps the table, or binds a watched wrapper again.
LEMMA UnwrapKeeps ==
    ASSUME Inv, NEW p \in Ptrs, Unwrap(p), SameLife,
           UNCHANGED <<struct, home, frames, watched, registered, callbacks>>
    PROVE  /\ handles' \in [Ptrs -> Gen \cup {None}]
           /\ demoted' \in [Ptrs -> Gen \cup {None}]
           /\ born' \subseteq Ptrs /\ (Depth' = 0 => born' = {})
           /\ Settled' /\ Tables' /\ Registry'
<1>1. /\ \A q \in Ptrs : struct[q] \in Gen \cup {None}
      /\ registered \subseteq Gen /\ callbacks \subseteq Gen
  BY DEF Inv, TypeOK
<1>2. /\ handles' \in [Ptrs -> Gen \cup {None}]
      /\ demoted' \in [Ptrs -> Gen \cup {None}]
      /\ born' \subseteq Ptrs /\ (Depth' = 0 => born' = {})
  BY UnwrapTables DEF Unwrap, Depth
<1>3. Settled'
  BY <1>1 DEF Inv, Settled, SameLife, Living
<1>4. Tables'
  <2>1. \A q \in Ptrs :
           /\ handles'[q] # None => /\ handles'[q] = struct[q] /\ demoted'[q] = None
                                   /\ wrapper[handles'[q]] # "collected"
           /\ demoted'[q] # None => demoted'[q] = struct[q] /\ demoted'[q] \in watched
    BY UnwrapTables DEF Unwrap
  <2> QED
    BY <1>1, <2>1 DEF Tables, Bound, SameLife, Living
<1>5. Registry'
  BY <1>1 DEF Inv, Registry, Alive, SameLife, Living
<1> QED
  BY <1>2, <1>3, <1>4, <1>5

\* A step that leaves the table alone.
LEMMA IdleKeeps ==
    ASSUME Inv, SameLife,
           UNCHANGED <<struct, home, handles, demoted, watched, registered, callbacks>>
    PROVE  Settled' /\ Tables' /\ Registry'
<1>1. /\ \A q \in Ptrs : struct[q] \in Gen \cup {None}
      /\ registered \subseteq Gen /\ callbacks \subseteq Gen
  BY DEF Inv, TypeOK
<1>2. Settled'
  <2> SUFFICES ASSUME NEW p \in Ptrs, struct[p] # None
               PROVE  home[struct[p]] = p /\ wrapper'[struct[p]] # "unborn"
    BY DEF Settled
  <2>1. struct[p] \in Gen /\ home[struct[p]] = p /\ wrapper[struct[p]] # "unborn"
    BY <1>1 DEF Inv, Settled
  <2> QED
    BY <2>1 DEF SameLife, Living
<1>3. Tables'
  BY <1>1 DEF Inv, Tables, Bound, SameLife, Living
<1>4. Registry'
  BY <1>1 DEF Inv, Registry, Alive, SameLife, Living
<1> QED
  BY <1>2, <1>3, <1>4

\* A wrapper Python reaches was made, and is not collected.
LEMMA ReachesLife ==
    ASSUME Inv, NEW g \in Gen, Alive(g), Resolves(home[g]) = g, Reaches(g)
    PROVE  /\ wrapper' \in [Gen -> WrapperState] /\ SameLife
           /\ home[g] \in Ptrs /\ wrapper[g] # "unborn"
<1>1. home[g] \in Ptrs /\ wrapper[g] # "unborn" /\ g # None
  BY NoneIsNoInstance DEF Inv, Fresh, Alive
<1>2. wrapper[g] # "collected"
  BY <1>1, UnwrapTables DEF Resolves
<1>3. wrapper \in [Gen -> WrapperState]
  BY DEF Inv, TypeOK
<1> QED
  BY <1>1, <1>2, <1>3 DEF Reaches, SameLife, Living, WrapperState

LEMMA PyDecrefKeeps ==
    ASSUME Inv, NEW g \in Gen, PyDecref(g)
    PROVE  Inv'
<1> DEFINE p == home[g]
<1>1. /\ p \in Ptrs /\ wrapper[g] # "unborn"
      /\ UNCHANGED <<born, frames, home, wrapper, crossed, argpin, watched, callbacks, wref>>
  BY DEF PyDecref, Alive, Inv, Fresh
<1>2. SameLife
  BY <1>1 DEF SameLife, Living
<1>3. cref' \in [Gen -> 0..MaxRefs] /\ \A k \in Gen : k # g => cref'[k] = cref[k]
  BY InstancesAssumption DEF PyDecref, Inv, TypeOK
<1>4. Stores'
  BY <1>1 DEF Inv, Stores
<1>5. CASE refcounts[p] = 1
  <2>1. ToZero({p})
    BY <1>5 DEF PyDecref
  <2>2. CASE GcDel({p}, FALSE) /\ UNCHANGED strays /\ Bound(p)
    <3>1. Forgets({p}, FALSE)
      BY <1>1, <2>2, GcDelKeeps
    <3>2. TypeOK'
      BY <1>1, <1>3, <2>2, <3>1 DEF Inv, TypeOK, Depth, Forgets
    <3>3. Fresh'
      BY <1>1, <1>3, <3>1 DEF Inv, Fresh, Forgets
    <3>4. Settled' /\ Tables' /\ Registry'
      <4>1. {p} \in SUBSET Ptrs /\ \A q \in {p} : Bound(q)
        BY <1>1, <2>2
      <4> QED
        BY <1>1, <1>2, <2>2, <4>1, GcDelTables
    <3> QED
      BY <1>4, <3>2, <3>3, <3>4 DEF Inv
  <2>3. CASE /\ refcounts' \in [Ptrs -> Nat] /\ strays' \in [Ptrs -> 0..Depth]
             /\ UNCHANGED <<struct, handles, demoted, registered, deallocs>>
    <3>1. TypeOK'
      <4>1. Depth' = Depth
        BY <1>1 DEF Depth
      <4> QED
        BY <1>1, <1>3, <2>3, <4>1 DEF Inv, TypeOK
    <3>2. Fresh'
      BY <1>1, <1>3, <2>3 DEF Inv, Fresh
    <3> QED
      BY <1>1, <1>2, <1>4, <2>3, <3>1, <3>2, IdleKeeps DEF Inv
  <2> QED
    BY <1>1, <2>1, <2>2, <2>3, ToZeroKeeps
<1>6. CASE refcounts[p] # 1
  <2>1. refcounts' \in [Ptrs -> Nat]
        /\ UNCHANGED <<struct, handles, demoted, strays, registered, deallocs>>
    <3>1. refcounts \in [Ptrs -> Nat]
      BY DEF Inv, TypeOK
    <3> QED
      BY <1>1, <1>6, <3>1 DEF PyDecref
  <2>2. TypeOK'
    BY <1>1, <1>3, <2>1 DEF Inv, TypeOK, Depth
  <2>3. Fresh'
    BY <1>1, <1>3, <2>1 DEF Inv, Fresh
  <2> QED
    BY <1>1, <1>2, <1>4, <2>1, <2>2, <2>3, IdleKeeps DEF Inv
<1> QED
  BY <1>5, <1>6

LEMMA UseKeeps ==
    ASSUME Inv, NEW g \in Gen, Use(g)
    PROVE  Inv'
<1>1. home[g] \in Ptrs /\ SameLife
  BY DEF Use, CHolds, Alive, Inv, Fresh, SameLife, Living
<1>2. /\ handles' \in [Ptrs -> Gen \cup {None}] /\ demoted' \in [Ptrs -> Gen \cup {None}]
      /\ born' \subseteq Ptrs /\ (Depth' = 0 => born' = {})
      /\ Settled' /\ Tables' /\ Registry'
  BY <1>1, UnwrapKeeps DEF Use
<1>3. TypeOK'
  BY <1>2 DEF Use, Inv, TypeOK, Depth
<1>4. Fresh' /\ Stores'
  BY DEF Use, Inv, Fresh, Stores
<1> QED
  BY <1>2, <1>3, <1>4 DEF Inv

LEMMA StoreItemKeeps ==
    ASSUME Inv, NEW g \in Gen, StoreItem(g)
    PROVE  Inv'
<1>1. /\ wrapper' \in [Gen -> WrapperState] /\ SameLife
      /\ home[g] \in Ptrs /\ wrapper[g] # "unborn"
  BY ReachesLife DEF StoreItem, CHolds
<1>2. /\ handles' \in [Ptrs -> Gen \cup {None}] /\ demoted' \in [Ptrs -> Gen \cup {None}]
      /\ born' \subseteq Ptrs /\ (Depth' = 0 => born' = {})
      /\ Settled' /\ Tables' /\ Registry'
  BY <1>1, UnwrapKeeps DEF StoreItem
<1>3. refcounts' \in [Ptrs -> Nat]
  BY <1>1, IncrefType DEF StoreItem
<1>4. wref' \in [Gen -> 0..(MaxStores + 2)]
  BY InstancesAssumption DEF StoreItem, Inv, TypeOK
<1>5. TypeOK'
  BY <1>1, <1>2, <1>3, <1>4 DEF StoreItem, Inv, TypeOK, Depth
<1>6. Fresh'
  BY <1>1 DEF StoreItem, Inv, Fresh, TypeOK, SameLife, Living
<1>7. Stores'
  BY InstancesAssumption DEF StoreItem, Inv, Stores, TypeOK
<1> QED
  BY <1>2, <1>5, <1>6, <1>7 DEF Inv

\* What a returned reference does to the counts.
LEMMA ConsumeKeeps ==
    ASSUME Inv, NEW g \in Gen, home[g] \in Ptrs, cref[g] > 0, Consume(g)
    PROVE  /\ refcounts' \in [Ptrs -> Nat] /\ crossed' \subseteq Gen
           /\ cref' \in [Gen -> 0..MaxRefs] /\ wref' \in [Gen -> 0..(MaxStores + 2)]
           /\ crossed' = crossed \cup {g}
           /\ \A k \in Gen : k # g => cref'[k] = cref[k] /\ wref'[k] = wref[k]
           /\ UNCHANGED argpin => Stores'
<1>1. refcounts' \in [Ptrs -> Nat]
  <2>1. refcounts \in [Ptrs -> Nat]
    BY DEF Inv, TypeOK
  <2> QED
    BY <2>1 DEF Consume, Consumed
<1>2. cref' \in [Gen -> 0..MaxRefs] /\ \A k \in Gen : k # g => cref'[k] = cref[k]
  <2>1. cref \in [Gen -> 0..MaxRefs]
    BY DEF Inv, TypeOK
  <2> QED
    BY <2>1, InstancesAssumption DEF Consume
<1>3. /\ wref' \in [Gen -> 0..(MaxStores + 2)]
      /\ \A k \in Gen : k # g => wref'[k] = wref[k]
      /\ UNCHANGED argpin => Stores'
  <2>1. wref \in [Gen -> 0..(MaxStores + 2)] /\ MaxStores \in Nat
    BY InstancesAssumption DEF Inv, TypeOK
  <2>2. CASE g \in crossed
    BY <2>1, <2>2 DEF Consume, Inv, Stores
  <2>3. CASE g \notin crossed
    <3>1. wref[g] <= MaxStores + 1
      BY <2>1, <2>3 DEF Inv, Stores
    <3>2. wref' = [wref EXCEPT ![g] = @ + 1]
      BY <2>3 DEF Consume
    <3>3. wref' \in [Gen -> 0..(MaxStores + 2)]
      BY <2>1, <3>1, <3>2
    <3> QED
      BY <2>1, <2>3, <3>2, <3>3 DEF Consume, Inv, Stores
  <2> QED
    BY <2>2, <2>3
<1> QED
  BY <1>1, <1>2, <1>3 DEF Consume, Inv, TypeOK

LEMMA StealItemKeeps ==
    ASSUME Inv, NEW g \in Gen, StealItem(g)
    PROVE  Inv'
<1>1. /\ wrapper' \in [Gen -> WrapperState] /\ SameLife
      /\ home[g] \in Ptrs /\ wrapper[g] # "unborn"
  BY ReachesLife DEF StealItem
<1>2. /\ handles' \in [Ptrs -> Gen \cup {None}] /\ demoted' \in [Ptrs -> Gen \cup {None}]
      /\ born' \subseteq Ptrs /\ (Depth' = 0 => born' = {})
      /\ Settled' /\ Tables' /\ Registry'
  BY <1>1, UnwrapKeeps DEF StealItem
<1>3. /\ refcounts' \in [Ptrs -> Nat] /\ crossed' \subseteq Gen
      /\ cref' \in [Gen -> 0..MaxRefs] /\ wref' \in [Gen -> 0..(MaxStores + 2)]
      /\ crossed' = crossed \cup {g}
      /\ \A k \in Gen : k # g => cref'[k] = cref[k] /\ wref'[k] = wref[k]
      /\ Stores'
  BY <1>1, ConsumeKeeps DEF StealItem
<1>4. TypeOK'
  BY <1>1, <1>2, <1>3 DEF StealItem, Inv, TypeOK, Depth
<1>5. Fresh'
  BY <1>1, <1>3 DEF StealItem, Inv, Fresh, SameLife, Living
<1> QED
  BY <1>2, <1>3, <1>4, <1>5 DEF Inv

LEMMA CallPythonKeeps ==
    ASSUME Inv, NEW g \in Gen, CallPython(g)
    PROVE  Inv'
<1>1. /\ wrapper' \in [Gen -> WrapperState] /\ SameLife
      /\ home[g] \in Ptrs /\ wrapper[g] # "unborn"
  BY ReachesLife DEF CallPython, CHolds
<1>2. /\ handles' \in [Ptrs -> Gen \cup {None}] /\ demoted' \in [Ptrs -> Gen \cup {None}]
      /\ born' \subseteq Ptrs /\ (Depth' = 0 => born' = {})
      /\ Settled' /\ Tables' /\ Registry'
  BY <1>1, UnwrapKeeps DEF CallPython
<1>3. wref \in [Gen -> 0..(MaxStores + 2)] /\ MaxStores \in Nat
  BY InstancesAssumption DEF Inv, TypeOK
<1>4. /\ refcounts' \in [Ptrs -> Nat] /\ argpin' \subseteq Gen
      /\ wref' \in [Gen -> 0..(MaxStores + 2)] /\ Stores'
      /\ \A k \in Gen : k # g => wref'[k] = wref[k]
      /\ argpin' \subseteq argpin \cup {g}
  <2>1. CASE Callable /\ g \notin argpin
    <3>1. refcounts' \in [Ptrs -> Nat] /\ argpin' = argpin \cup {g}
          /\ wref' = [wref EXCEPT ![g] = @ + 1] /\ crossed' = crossed
      BY <1>1, <2>1, IncrefType DEF CallPython
    <3>2. wref[g] <= MaxStores + 1
      BY <1>3, <2>1 DEF Inv, Stores
    <3>3. wref' \in [Gen -> 0..(MaxStores + 2)]
      BY <1>3, <3>1, <3>2
    <3>4. argpin' \subseteq Gen
      BY <3>1 DEF Inv, TypeOK
    <3>5. Stores'
      BY <1>3, <2>1, <3>1 DEF Inv, Stores
    <3> QED
      BY <1>3, <3>1, <3>3, <3>4, <3>5
  <2>2. CASE ~(Callable /\ g \notin argpin)
    BY <2>2 DEF CallPython, Inv, TypeOK, Stores
  <2> QED
    BY <2>1, <2>2
<1>5. TypeOK'
  BY <1>1, <1>2, <1>4 DEF CallPython, Inv, TypeOK, Depth
<1>6. Fresh'
  BY <1>1, <1>4 DEF CallPython, Inv, Fresh, SameLife, Living
<1> QED
  BY <1>2, <1>4, <1>5, <1>6 DEF Inv

LEMMA CallMethodKeeps ==
    ASSUME Inv, NEW g \in Gen, CallMethod(g)
    PROVE  Inv'
<1>1. frames' \in Seq(Gen) /\ Depth' = Depth + 1 /\ Depth' <= MaxDepth /\ Depth \in Nat
  BY PushFrames, InstancesAssumption DEF CallMethod, Depth, Inv, TypeOK
<1>2. strays' \in [Ptrs -> 0..Depth'] /\ (Depth' = 0 => born' = {})
  <2>1. strays \in [Ptrs -> 0..Depth]
    BY DEF Inv, TypeOK
  <2> QED
    BY <1>1, <2>1 DEF CallMethod
<1>3. TypeOK'
  BY <1>1, <1>2 DEF CallMethod, Inv, TypeOK
<1>4. SameLife
  BY DEF CallMethod, SameLife
<1>5. Settled' /\ Tables' /\ Registry'
  BY <1>4, IdleKeeps DEF CallMethod
<1>6. Fresh' /\ Stores'
  BY DEF CallMethod, Inv, Fresh, Stores
<1> QED
  BY <1>3, <1>5, <1>6 DEF Inv

LEMMA CallWithKeeps ==
    ASSUME Inv, NEW g \in Gen, CallWith(g)
    PROVE  Inv'
<1>0. home[g] \in Ptrs /\ struct[home[g]] = g /\ wrapper[g] = "held" /\ g # None
  BY NoneIsNoInstance DEF CallWith, Alive, Inv, Fresh
<1>1. frames' \in Seq(Gen) /\ Depth' = Depth + 1 /\ Depth' <= MaxDepth /\ Depth \in Nat
  BY PushFrames, InstancesAssumption DEF CallWith, Depth, Inv, TypeOK
<1>2. strays' \in [Ptrs -> 0..Depth']
  <2>1. strays \in [Ptrs -> 0..Depth]
    BY DEF Inv, TypeOK
  <2> QED
    BY <1>1, <2>1 DEF CallWith
<1>3. born' \subseteq Ptrs
  BY <1>0 DEF CallWith, Track, Inv, TypeOK
<1>4. handles' \in [Ptrs -> Gen \cup {None}] /\ demoted' \in [Ptrs -> Gen \cup {None}]
  BY <1>0 DEF CallWith, Inv, TypeOK
<1>5. TypeOK'
  BY <1>1, <1>2, <1>3, <1>4 DEF CallWith, Inv, TypeOK
<1>6. Tables'
  BY <1>0 DEF CallWith, Inv, Tables, TypeOK, Bound
<1>7. Settled' /\ Registry'
  BY DEF CallWith, Inv, Settled, Registry, Alive
<1>8. Fresh' /\ Stores'
  BY DEF CallWith, Inv, Fresh, Stores
<1> QED
  BY <1>5, <1>6, <1>7, <1>8 DEF Inv

LEMMA DropKeeps ==
    ASSUME Inv, NEW g \in Gen, Drop(g)
    PROVE  Inv'
<1>1. wrapper \in [Gen -> WrapperState]
  BY DEF Inv, TypeOK
<1>2. wrapper' \in [Gen -> WrapperState] /\ SameLife
  BY <1>1 DEF Drop, SameLife, Living, WrapperState
<1>3. TypeOK'
  BY <1>2 DEF Drop, Inv, TypeOK, Depth
<1>4. Settled' /\ Tables' /\ Registry'
  BY <1>2, IdleKeeps DEF Drop
<1>5. Fresh'
  BY <1>2 DEF Drop, Inv, Fresh, SameLife, Living
<1>6. Stores'
  BY DEF Drop, Inv, Stores
<1> QED
  BY <1>3, <1>4, <1>5, <1>6 DEF Inv

LEMMA ReleaseSoleKeeps ==
    ASSUME Inv, NEW S \in SUBSET Gen,
           \A g \in S : /\ wrapper[g] \in {"held", "dropped"}
                        /\ home[g] \in Ptrs /\ refcounts[home[g]] = 1,
           ReleaseSole(S),
           UNCHANGED <<born, frames, home, crossed, argpin, watched, callbacks, cref>>
    PROVE  Inv'
<1> DEFINE P == {home[g] : g \in S}
<1>1. P \in SUBSET Ptrs /\ ToZero(P)
  BY DEF ReleaseSole
<1>2. wrapper' \in [Gen -> WrapperState] /\ SameLife
  <2>1. wrapper \in [Gen -> WrapperState]
    BY DEF Inv, TypeOK
  <2> QED
    BY <2>1 DEF ReleaseSole, SameLife, Living, WrapperState
<1>3. /\ wref' \in [Gen -> 0..(MaxStores + 2)]
      /\ \A g \in Gen : wref'[g] <= wref[g] /\ wref'[g] >= 0 /\ wref[g] \in Nat
  <2>1. wref \in [Gen -> 0..(MaxStores + 2)] /\ MaxStores \in Nat
    BY InstancesAssumption DEF Inv, TypeOK
  <2> QED
    BY <2>1 DEF ReleaseSole
<1>4. Stores'
  BY <1>3, InstancesAssumption DEF Inv, Stores, TypeOK
<1>5. Depth' = Depth
  BY DEF Depth
<1> HIDE DEF P
<1>6. CASE GcDel(P, FALSE) /\ UNCHANGED strays /\ \A p \in P : Bound(p)
  <2>1. Forgets(P, FALSE)
    BY <1>1, <1>6, GcDelKeeps
  <2>2. TypeOK'
    BY <1>2, <1>3, <1>5, <1>6, <2>1 DEF Inv, TypeOK, Forgets
  <2>3. Settled' /\ Tables' /\ Registry'
    BY <1>1, <1>2, <1>6, GcDelTables
  <2>4. Fresh'
    <3>1. \A g \in Gen : wrapper'[g] = "unborn" => wrapper[g] = "unborn" /\ wref'[g] = 0
      BY <1>2, <1>3 DEF SameLife, Living, Inv, Fresh
    <3>2. \A g \in Gen : wrapper'[g] # "unborn" => wrapper[g] # "unborn"
      BY <1>2 DEF SameLife, Living
    <3> QED
      BY <2>1, <3>1, <3>2 DEF Inv, Fresh, Forgets
  <2> QED
    BY <1>4, <2>2, <2>3, <2>4 DEF Inv
<1>7. CASE /\ refcounts' \in [Ptrs -> Nat] /\ strays' \in [Ptrs -> 0..Depth]
           /\ UNCHANGED <<struct, handles, demoted, registered, deallocs>>
  <2>1. TypeOK'
    BY <1>2, <1>3, <1>5, <1>7 DEF Inv, TypeOK
  <2>2. Settled' /\ Tables' /\ Registry'
    BY <1>2, <1>7, IdleKeeps
  <2>3. Fresh'
    <3>1. \A g \in Gen : wrapper'[g] = "unborn" => wrapper[g] = "unborn" /\ wref'[g] = 0
      BY <1>2, <1>3 DEF SameLife, Living, Inv, Fresh
    <3>2. \A g \in Gen : wrapper'[g] # "unborn" => wrapper[g] # "unborn"
      BY <1>2 DEF SameLife, Living
    <3> QED
      BY <1>7, <3>1, <3>2 DEF Inv, Fresh
  <2> QED
    BY <1>4, <2>1, <2>2, <2>3 DEF Inv
<1> QED
  BY <1>1, <1>6, <1>7, ToZeroKeeps

LEMMA DelKeeps ==
    ASSUME Inv, NEW g \in Gen, Del(g)
    PROVE  Inv'
<1>1. home[g] \in Ptrs
  BY DEF Del, Alive, Inv, Fresh
<1>2. {g} \in SUBSET Gen /\ \A k \in {g} : /\ wrapper[k] \in {"held", "dropped"}
                                          /\ home[k] \in Ptrs /\ refcounts[home[k]] = 1
  BY <1>1 DEF Del, Sole
<1> QED
  BY <1>2, ReleaseSoleKeeps DEF Del

LEMMA ReclaimKeeps ==
    ASSUME Inv, Reclaim
    PROVE  Inv'
<1> DEFINE S == {g \in Gen : Reclaimable(g)}
<1>1. S \in SUBSET Gen /\ \A k \in S : /\ wrapper[k] \in {"held", "dropped"}
                                      /\ home[k] \in Ptrs /\ refcounts[home[k]] = 1
  BY DEF Reclaimable, Alive, Inv, Fresh
<1>2. ReleaseSole(S)
      /\ UNCHANGED <<born, frames, home, crossed, argpin, watched, callbacks, cref>>
  BY DEF Reclaim
<1> HIDE DEF S
<1> QED
  BY <1>1, <1>2, ReleaseSoleKeeps

LEMMA GcFinalizeKeeps ==
    ASSUME Inv, NEW g \in Gen, GcFinalize(g)
    PROVE  Inv'
<1>1. home[g] \in Ptrs /\ Bound(home[g]) /\ wrapper[g] # "unborn"
  BY NoneIsNoInstance DEF GcFinalize, Alive, Bound, Inv, Fresh
<1>2. {home[g]} \in SUBSET Ptrs /\ \A p \in {home[g]} : Bound(p)
  BY <1>1
<1>3. Forgets({home[g]}, TRUE)
  BY <1>2, GcDelKeeps DEF GcFinalize
<1>4. SameLife
  BY DEF GcFinalize, SameLife
<1>5. Settled' /\ Tables' /\ Registry'
  BY <1>2, <1>4, GcDelTables DEF GcFinalize
<1>6. TypeOK'
  BY <1>3 DEF GcFinalize, Inv, TypeOK, Depth, Forgets
<1>7. Fresh'
  BY <1>3 DEF GcFinalize, Inv, Fresh, Forgets
<1>8. Stores'
  BY DEF GcFinalize, Inv, Stores
<1> QED
  BY <1>5, <1>6, <1>7, <1>8 DEF Inv

\* A table that is true of the structs, whatever a step has done to it by now.
TrueTables(hd, dm) ==
    \A p \in Ptrs :
        /\ hd[p] # None => /\ hd[p] = struct[p] /\ dm[p] = None
                          /\ wrapper[hd[p]] # "collected"
        /\ dm[p] # None => dm[p] = struct[p] /\ dm[p] \in watched

\* A scope that closes watches what it unbinds, and registers it once.
LEMMA PopKeeps ==
    ASSUME Inv, Depth > 0, SameLife,
           NEW hd \in [Ptrs -> Gen \cup {None}], NEW dm \in [Ptrs -> Gen \cup {None}],
           NEW rc \in [Ptrs -> Nat], NEW bn \in SUBSET Ptrs, TrueTables(hd, dm),
           Pop(hd, dm, rc, bn), UNCHANGED <<struct, home, callbacks>>
    PROVE  /\ handles' \in [Ptrs -> Gen \cup {None}] /\ demoted' \in [Ptrs -> Gen \cup {None}]
           /\ born' \subseteq Ptrs /\ (Depth' = 0 => born' = {})
           /\ strays' \in [Ptrs -> 0..Depth']
           /\ frames' \in Seq(Gen) /\ Depth' <= MaxDepth
           /\ registered' \subseteq watched' /\ watched' \subseteq Gen
           /\ callbacks' \subseteq watched'
           /\ \A g \in Gen : wrapper'[g] = "unborn" => g \notin watched'
           /\ Settled' /\ Tables' /\ Registry'
<1> DEFINE swept == {p \in Ptrs : strays[p] = Depth /\ rc[p] = 0}
           left == [p \in Ptrs |-> IF p \in swept THEN None ELSE hd[p]]
           goes == IF Depth > 1 THEN {}
                   ELSE {p \in bn : rc[p] = 1 /\ left[p] # None /\ wrapper[left[p]] # "released"}
<1>1. /\ handles' = [p \in Ptrs |-> IF p \in goes THEN None ELSE left[p]]
      /\ demoted' = [p \in Ptrs |-> IF p \in goes THEN left[p] ELSE dm[p]]
      /\ registered' = registered \cup {left[p] : p \in {q \in goes : left[q] \notin watched}}
      /\ watched' = watched \cup {left[p] : p \in goes}
      /\ born' = IF Depth > 1 THEN bn ELSE {}
      /\ strays' = [p \in Ptrs |-> IF strays[p] = Depth THEN 0 ELSE strays[p]]
      /\ frames' = SubSeq(frames, 1, Depth - 1)
  BY DEF Pop
<1>2. /\ \A p \in Ptrs : struct[p] \in Gen \cup {None}
      /\ registered \subseteq watched /\ watched \subseteq Gen /\ callbacks \subseteq watched
      /\ strays \in [Ptrs -> 0..Depth] /\ Depth \in Nat /\ Depth <= MaxDepth /\ MaxDepth \in Nat
  BY InstancesAssumption DEF Inv, TypeOK, Depth
<1>3. frames' \in Seq(Gen) /\ Depth' = Depth - 1 /\ Depth' <= MaxDepth
  <2>1. SubSeq(frames, 1, Depth - 1) \in Seq(Gen) /\ Len(SubSeq(frames, 1, Depth - 1)) = Depth - 1
    BY PopFrames DEF Inv
  <2>2. Depth' = Len(frames')
    BY DEF Depth
  <2> QED
    BY <1>1, <1>2, <2>1, <2>2
<1>4. \A p \in Ptrs : left[p] # None
         => /\ left[p] = struct[p] /\ dm[p] = None /\ left[p] \in Gen
            /\ wrapper[left[p]] # "collected"
  BY <1>2 DEF TrueTables
<1>5. \A p \in Ptrs : left[p] \in Gen \cup {None}
  OBVIOUS
<1>6. goes \subseteq Ptrs /\ \A p \in goes : left[p] # None
  OBVIOUS
<1> HIDE DEF swept, left, goes
<1>7. handles' \in [Ptrs -> Gen \cup {None}] /\ demoted' \in [Ptrs -> Gen \cup {None}]
  BY <1>1, <1>5
<1>8. born' \subseteq Ptrs /\ (Depth' = 0 => born' = {})
  BY <1>1, <1>2, <1>3
<1>9. strays' \in [Ptrs -> 0..Depth']
  BY <1>1, <1>2, <1>3
<1>10. registered' \subseteq watched' /\ watched' \subseteq Gen /\ callbacks' \subseteq watched'
  BY <1>1, <1>2, <1>4, <1>6
<1>11. \A g \in Gen : wrapper'[g] = "unborn" => g \notin watched'
  <2>1. \A p \in goes : wrapper[left[p]] # "unborn"
    BY <1>4, <1>6 DEF Inv, Settled
  <2> QED
    BY <1>1, <2>1 DEF Inv, Fresh, SameLife, Living
<1>12. Settled'
  BY <1>2 DEF Inv, Settled, SameLife, Living
<1>13. Tables'
  <2>1. \A p \in Ptrs : handles'[p] # None
           => /\ handles'[p] = struct[p] /\ demoted'[p] = None
              /\ wrapper[handles'[p]] # "collected"
    BY <1>1, <1>4
  <2>2. \A p \in Ptrs : demoted'[p] # None => demoted'[p] = struct[p] /\ demoted'[p] \in watched'
    BY <1>1, <1>4, <1>6 DEF TrueTables
  <2> QED
    BY <1>2, <2>1, <2>2 DEF Tables, Bound, SameLife, Living
<1>14. Registry'
  <2>1. \A g \in registered : /\ g \in Gen /\ wrapper[g] # "unborn" /\ struct[home[g]] = g
                              /\ wrapper[g] # "collected"
    BY <1>2 DEF Inv, Registry, Alive
  <2>2. \A p \in goes : /\ left[p] \in Gen /\ wrapper[left[p]] # "unborn"
                       /\ struct[home[left[p]]] = left[p] /\ wrapper[left[p]] # "collected"
    BY <1>4, <1>6 DEF Inv, Settled
  <2>3. \A g \in registered' : /\ g \in Gen /\ wrapper[g] # "unborn" /\ struct[home[g]] = g
                               /\ wrapper[g] # "collected"
    BY <1>1, <2>1, <2>2
  <2>4. \A g \in callbacks : /\ g \in Gen /\ wrapper[g] = "collected" /\ struct[home[g]] = g
    BY <1>2 DEF Inv, Registry, Alive
  <2> QED
    BY <2>3, <2>4 DEF Registry, Alive, SameLife, Living
<1> QED
  BY <1>3, <1>7, <1>8, <1>9, <1>10, <1>11, <1>12, <1>13, <1>14

LEMMA ReturnOtherKeeps ==
    ASSUME Inv, ReturnOther
    PROVE  Inv'
<1>1. /\ handles \in [Ptrs -> Gen \cup {None}] /\ demoted \in [Ptrs -> Gen \cup {None}]
      /\ refcounts \in [Ptrs -> Nat] /\ born \in SUBSET Ptrs
  BY DEF Inv, TypeOK
<1>2. TrueTables(handles, demoted)
  BY DEF TrueTables, Inv, Tables, Bound
<1>3. SameLife
  BY DEF SameLife, ReturnOther
<1>4. /\ handles' \in [Ptrs -> Gen \cup {None}] /\ demoted' \in [Ptrs -> Gen \cup {None}]
      /\ born' \subseteq Ptrs /\ (Depth' = 0 => born' = {})
      /\ strays' \in [Ptrs -> 0..Depth']
      /\ frames' \in Seq(Gen) /\ Depth' <= MaxDepth
      /\ registered' \subseteq watched' /\ watched' \subseteq Gen
      /\ callbacks' \subseteq watched'
      /\ \A g \in Gen : wrapper'[g] = "unborn" => g \notin watched'
      /\ Settled' /\ Tables' /\ Registry'
  BY <1>1, <1>2, <1>3, PopKeeps DEF ReturnOther
<1>5. TypeOK'
  BY <1>4 DEF ReturnOther, Inv, TypeOK
<1>6. Fresh' /\ Stores'
  BY <1>4 DEF ReturnOther, Inv, Fresh, Stores
<1> QED
  BY <1>4, <1>5, <1>6 DEF Inv

LEMMA ReturnResultKeeps ==
    ASSUME Inv, NEW g \in Gen, ReturnResult(g)
    PROVE  Inv'
<1> DEFINE p == home[g]
<1>1. /\ wrapper' \in [Gen -> WrapperState] /\ SameLife
      /\ p \in Ptrs /\ wrapper[g] # "unborn"
  BY ReachesLife DEF ReturnResult
<1>2. /\ refcounts' \in [Ptrs -> Nat] /\ crossed' \subseteq Gen
      /\ cref' \in [Gen -> 0..MaxRefs] /\ wref' \in [Gen -> 0..(MaxStores + 2)]
      /\ crossed' = crossed \cup {g}
      /\ \A k \in Gen : k # g => cref'[k] = cref[k] /\ wref'[k] = wref[k]
      /\ Stores'
  BY <1>1, ConsumeKeeps DEF ReturnResult
<1>3. /\ Unwrapped(p) \in [Ptrs -> Gen \cup {None}]
      /\ Unwatched(p) \in [Ptrs -> Gen \cup {None}]
      /\ Reborn(p) \in SUBSET Ptrs /\ TrueTables(Unwrapped(p), Unwatched(p))
  BY <1>1, UnwrapTables DEF TrueTables
<1>4. Consumed(g) \in [Ptrs -> Nat]
  BY <1>2 DEF ReturnResult, Consume
<1>5. /\ handles' \in [Ptrs -> Gen \cup {None}] /\ demoted' \in [Ptrs -> Gen \cup {None}]
      /\ born' \subseteq Ptrs /\ (Depth' = 0 => born' = {})
      /\ strays' \in [Ptrs -> 0..Depth']
      /\ frames' \in Seq(Gen) /\ Depth' <= MaxDepth
      /\ registered' \subseteq watched' /\ watched' \subseteq Gen
      /\ callbacks' \subseteq watched'
      /\ \A k \in Gen : wrapper'[k] = "unborn" => k \notin watched'
      /\ Settled' /\ Tables' /\ Registry'
  BY <1>1, <1>3, <1>4, PopKeeps DEF ReturnResult
<1>6. TypeOK'
  BY <1>1, <1>2, <1>5 DEF ReturnResult, Inv, TypeOK
<1>7. Fresh'
  BY <1>1, <1>2, <1>5 DEF ReturnResult, Inv, Fresh, SameLife, Living
<1> QED
  BY <1>2, <1>5, <1>6, <1>7 DEF Inv

LEMMA CollectKeeps ==
    ASSUME Inv, NEW g \in Gen, Collect(g)
    PROVE  Inv'
<1>1. /\ wrapper \in [Gen -> WrapperState] /\ registered \subseteq watched /\ watched \subseteq Gen
      /\ callbacks \subseteq watched /\ g \notin callbacks
      /\ \A p \in Ptrs : struct[p] \in Gen \cup {None} /\ handles[p] \in Gen \cup {None}
  BY DEF Collect, Inv, TypeOK, Registry
<1>2. /\ wrapper' = [wrapper EXCEPT ![g] = "collected"]
      /\ wrapper[g] \in {"dropped", "released"}
      /\ \A p \in Ptrs : handles[p] # g
      /\ UNCHANGED <<struct, handles, refcounts, demoted, born, strays, frames, home,
                     crossed, argpin, watched, cref, wref, deallocs>>
  BY DEF Collect
<1>3. /\ wrapper' \in [Gen -> WrapperState]
      /\ \A k \in Gen : k # g => wrapper'[k] = wrapper[k]
      /\ wrapper'[g] = "collected"
  BY <1>1, <1>2 DEF WrapperState
<1>4. registered' = registered \ {g} /\ callbacks' \subseteq callbacks \cup (registered \cap {g})
  BY DEF Collect
<1>5. TypeOK'
  BY <1>1, <1>2, <1>3, <1>4 DEF Inv, TypeOK, Depth
<1>6. Settled'
  BY <1>1, <1>2, <1>3 DEF Inv, Settled
<1>7. Fresh'
  BY <1>1, <1>2, <1>3 DEF Inv, Fresh
<1>8. Tables'
  BY <1>1, <1>2, <1>3 DEF Inv, Tables, Bound
<1>9. Registry'
  <2>1. \A k \in registered : k \in Gen /\ struct[home[k]] = k /\ wrapper[k] # "unborn"
                              /\ wrapper[k] # "collected"
    BY <1>1 DEF Inv, Registry, Alive
  <2>2. \A k \in callbacks : k \in Gen /\ struct[home[k]] = k /\ wrapper[k] = "collected"
    BY <1>1 DEF Inv, Registry, Alive
  <2>3. ASSUME NEW k \in callbacks'
        PROVE  struct[home[k]] = k /\ wrapper'[k] = "collected"
    <3>1. CASE k \in callbacks
      <4>1. k \in Gen /\ k # g /\ struct[home[k]] = k /\ wrapper[k] = "collected"
        BY <1>1, <2>2, <3>1
      <4> QED
        BY <1>3, <4>1
    <3>2. CASE k = g /\ g \in registered
      BY <1>3, <2>1, <3>2
    <3> QED
      BY <1>4, <3>1, <3>2
  <2> QED
    BY <1>1, <1>2, <1>3, <1>4, <2>1, <2>3 DEF Registry, Alive
<1>10. Stores'
  BY <1>2 DEF Inv, Stores
<1> QED
  BY <1>5, <1>6, <1>7, <1>8, <1>9, <1>10 DEF Inv

\* The callback finds its own struct at its address.
LEMMA CallbackFinds ==
    ASSUME Inv, NEW g \in Gen, Callback(g)
    PROVE  /\ home[g] \in Ptrs /\ struct[home[g]] = g /\ wrapper[g] = "collected"
           /\ g \notin registered
           /\ \A k \in registered \cup callbacks : k # g => home[k] # home[g]
BY DEF Callback, Inv, TypeOK, Registry, Alive, Fresh

LEMMA CallbackKeeps ==
    ASSUME Inv, NEW g \in Gen, Callback(g)
    PROVE  Inv'
<1> DEFINE p == home[g]
<1>1. /\ p \in Ptrs /\ struct[p] = g /\ wrapper[g] = "collected" /\ g \notin registered
      /\ \A k \in registered \cup callbacks : k # g => home[k] # p
  BY CallbackFinds
<1>2. /\ struct \in [Ptrs -> Gen \cup {None}] /\ handles \in [Ptrs -> Gen \cup {None}]
      /\ demoted \in [Ptrs -> Gen \cup {None}] /\ refcounts \in [Ptrs -> Nat]
      /\ deallocs \in [Gen -> Nat] /\ wref \in [Gen -> 0..(MaxStores + 2)] /\ MaxStores \in Nat
      /\ registered \subseteq Gen /\ callbacks \subseteq Gen
  BY InstancesAssumption DEF Inv, TypeOK
<1>3. /\ callbacks' = callbacks \ {g} /\ demoted' = [demoted EXCEPT ![p] = None]
      /\ UNCHANGED <<born, strays, frames, home, wrapper, crossed, argpin, registered,
                     watched, cref>>
  BY DEF Callback
<1>4. /\ refcounts' \in [Ptrs -> Nat] /\ handles' \in [Ptrs -> Gen \cup {None}]
      /\ struct' \in [Ptrs -> Gen \cup {None}] /\ deallocs' \in [Gen -> Nat]
      /\ wref' \in [Gen -> 0..(MaxStores + 2)]
      /\ \A k \in Gen : k # g => wref'[k] = wref[k] /\ deallocs'[k] = deallocs[k]
      /\ wref'[g] = 0 \/ wref'[g] = wref[g]
      /\ \A q \in Ptrs : q # p => struct'[q] = struct[q] /\ handles'[q] = handles[q]
      /\ \/ struct'[p] = None /\ handles'[p] = None
         \/ struct'[p] = g /\ handles'[p] = handles[p]
  <2>1. CASE ~Stale(p) /\ refcounts[p] = 1
    <3>1. /\ refcounts' = [refcounts EXCEPT ![p] = 0] /\ handles' = [handles EXCEPT ![p] = None]
          /\ struct' = [struct EXCEPT ![p] = None] /\ wref' = [wref EXCEPT ![g] = 0]
          /\ deallocs' = [k \in Gen |-> IF struct[p] = k THEN deallocs[k] + 1 ELSE deallocs[k]]
      BY <2>1 DEF Callback
    <3> QED
      BY <1>1, <1>2, <3>1
  <2>2. CASE ~(~Stale(p) /\ refcounts[p] = 1)
    <3>1. UNCHANGED <<refcounts, handles, struct, deallocs, wref>>
      BY <2>2 DEF Callback
    <3> QED
      BY <1>1, <1>2, <3>1
  <2> QED
    BY <2>1, <2>2
<1>5. TypeOK'
  <2>1. demoted' \in [Ptrs -> Gen \cup {None}]
    BY <1>2, <1>3
  <2>2. Depth' = Depth /\ callbacks' \subseteq callbacks
    BY <1>3 DEF Depth
  <2> QED
    BY <1>3, <1>4, <2>1, <2>2 DEF Inv, TypeOK
<1>6. Settled'
  BY <1>1, <1>3, <1>4 DEF Inv, Settled
<1>7. Fresh'
  BY <1>1, <1>3, <1>4 DEF Inv, Fresh
<1>8. Tables'
  BY <1>1, <1>2, <1>3, <1>4 DEF Inv, Tables, Bound
<1>9. Registry'
  <2>1. \A k \in registered \cup callbacks :
           k # g => home[k] \in Ptrs /\ home[k] # p /\ struct[home[k]] = k /\ wrapper[k] # "unborn"
    BY <1>1, <1>2 DEF Inv, Registry, Alive, Fresh
  <2> QED
    BY <1>1, <1>3, <1>4, <2>1 DEF Inv, Registry, Alive
<1>10. Stores'
  BY <1>2, <1>3, <1>4 DEF Inv, Stores
<1> QED
  BY <1>5, <1>6, <1>7, <1>8, <1>9, <1>10 DEF Inv

----------------------------------------------------------------------------
(* The theorems that hold with the registry on and off. *)

LEMMA InitInv == Init => Inv
<1> SUFFICES ASSUME Init PROVE Inv
  OBVIOUS
<1>1. Depth = 0 /\ frames \in Seq(Gen)
  BY DEF Init, Depth
<1>2. TypeOK
  BY <1>1, InstancesAssumption DEF Init, TypeOK, WrapperState
<1>3. Settled /\ Fresh /\ Tables /\ Registry /\ Stores
  BY InstancesAssumption DEF Init, Settled, Fresh, Tables, Registry, Stores, Bound
<1> QED
  BY <1>2, <1>3 DEF Inv

LEMMA NextInv == Inv /\ [Next]_vars => Inv'
<1> SUFFICES ASSUME Inv, [Next]_vars PROVE Inv'
  OBVIOUS
<1>1. CASE ReturnOther
  BY <1>1, ReturnOtherKeeps
<1>2. CASE Reclaim
  BY <1>2, ReclaimKeeps
<1>3. ASSUME NEW g \in Gen, NEW p \in Ptrs, New(g, p) PROVE Inv'
  BY <1>3, NewKeeps
<1>4. ASSUME NEW g \in Gen, PyIncref(g) PROVE Inv'
  BY <1>4, PyIncrefKeeps
<1>5. ASSUME NEW g \in Gen, PyDecref(g) PROVE Inv'
  BY <1>5, PyDecrefKeeps
<1>6. ASSUME NEW g \in Gen, Use(g) PROVE Inv'
  BY <1>6, UseKeeps
<1>7. ASSUME NEW g \in Gen, StoreItem(g) PROVE Inv'
  BY <1>7, StoreItemKeeps
<1>8. ASSUME NEW g \in Gen, StealItem(g) PROVE Inv'
  BY <1>8, StealItemKeeps
<1>9. ASSUME NEW g \in Gen, CallPython(g) PROVE Inv'
  BY <1>9, CallPythonKeeps
<1>10. ASSUME NEW g \in Gen, ReturnResult(g) PROVE Inv'
  BY <1>10, ReturnResultKeeps
<1>11. ASSUME NEW g \in Gen, CallMethod(g) PROVE Inv'
  BY <1>11, CallMethodKeeps
<1>12. ASSUME NEW g \in Gen, CallWith(g) PROVE Inv'
  BY <1>12, CallWithKeeps
<1>13. ASSUME NEW g \in Gen, Drop(g) PROVE Inv'
  BY <1>13, DropKeeps
<1>14. ASSUME NEW g \in Gen, Del(g) PROVE Inv'
  BY <1>14, DelKeeps
<1>15. ASSUME NEW g \in Gen, GcFinalize(g) PROVE Inv'
  BY <1>15, GcFinalizeKeeps
<1>16. ASSUME NEW g \in Gen, Collect(g) PROVE Inv'
  BY <1>16, CollectKeeps
<1>17. ASSUME NEW g \in Gen, Callback(g) PROVE Inv'
  BY <1>17, CallbackKeeps
<1>18. CASE UNCHANGED vars
  BY <1>18 DEF vars, Inv, TypeOK, Settled, Fresh, Tables, Registry, Stores, Bound, Alive, Depth
<1> QED
  BY <1>1, <1>2, <1>3, <1>4, <1>5, <1>6, <1>7, <1>8, <1>9, <1>10, <1>11, <1>12, <1>13,
     <1>14, <1>15, <1>16, <1>17, <1>18 DEF Next

\* Inv holds in every reachable state, whatever the switches say.
THEOREM InstancesInvariance == Spec => []Inv
<1>1. Init => Inv
  BY InitInv
<1>2. Inv /\ [Next]_vars => Inv'
  BY NextInv
<1> QED
  BY <1>1, <1>2, PTL DEF Spec

\* Every table keeps its type, and no address is tracked, nor handed to a
\* scope, when no C call runs.
THEOREM TypeCorrect == Spec => []TypeOK
<1>1. Inv => TypeOK
  BY DEF Inv
<1> QED
  BY <1>1, InstancesInvariance, PTL

\* With the registry on or off, the table binds an address to the wrapper of
\* the instance whose struct is there, or to none: an address malloc gives
\* again does not inherit a binding, nor a watched wrapper.
THEOREM Bindings == Spec => []BindingMatchesStruct
<1>1. Inv => BindingMatchesStruct
  BY DEF Inv, Tables, BindingMatchesStruct
<1> QED
  BY <1>1, InstancesInvariance, PTL

\* A callback of the registry, however late it runs, frees the struct it was
\* registered for and no other.
THEOREM CallbacksFreeTheirOwn == Spec => CallbackOwnStruct
<1>1. Inv /\ [Next]_vars
        => [\A g \in Gen : Callback(g)
              => \A p \in Ptrs : struct'[p] # struct[p] => struct[p] = g]_vars
  <2> SUFFICES ASSUME Inv, NEW g \in Gen, Callback(g), NEW p \in Ptrs, struct'[p] # struct[p]
               PROVE  struct[p] = g
    OBVIOUS
  <2>1. home[g] \in Ptrs /\ struct[home[g]] = g
    BY CallbackFinds
  <2>2. struct \in [Ptrs -> Gen \cup {None}]
    BY DEF Inv, TypeOK
  <2> QED
    BY <2>1, <2>2 DEF Callback
<1> QED
  BY <1>1, InstancesInvariance, PTL DEF Spec, CallbackOwnStruct

----------------------------------------------------------------------------
(* With the registry off. *)

\* Every struct is bound to its wrapper, and nothing is handed to a scope.
AllBound ==
    /\ born = {} /\ watched = {}
    /\ \A p \in Ptrs : strays[p] = 0 /\ demoted[p] = None /\ handles[p] = struct[p]

\* A struct that is there is counted, unless gc.collect() closed it: then its
\* count is gone, so that no count frees it again.
Closed ==
    \A g \in Gen : Alive(g) => /\ deallocs[g] > 0 => refcounts[home[g]] = 0
                               /\ deallocs[g] = 0 => refcounts[home[g]] > 0

Gone == \A g \in Gen : wrapper[g] = "released" => ~Alive(g)

\* What was handed to Python is counted for it.
Kept == \A g \in Gen : Alive(g) /\ g \in crossed \cup argpin => wref[g] > 0

\* Of a callable type, what Python reaches is: its arguments are pinned.
Owned ==
    Callable => /\ \A g \in Gen : wrapper[g] = "held" => wref[g] > 0
                /\ OwnedAlive /\ HeldAlive

Strong == AllBound /\ Closed /\ Gone /\ Kept /\ CountIsOwners /\ DeallocOnce /\ Owned

LEMMA Numbers ==
    ASSUME Inv, NEW g \in Gen
    PROVE  /\ cref[g] \in Nat /\ wref[g] \in Nat /\ deallocs[g] \in Nat
           /\ wrapper[g] \in WrapperState
           /\ home[g] \in Ptrs => refcounts[home[g]] \in Nat
BY InstancesAssumption DEF Inv, TypeOK

LEMMA AliveHome ==
    ASSUME Inv, NEW g \in Gen, Alive(g)
    PROVE  /\ home[g] \in Ptrs /\ struct[home[g]] = g /\ wrapper[g] # "unborn"
           /\ \A k \in Gen : Alive(k) /\ k # g => home[k] # home[g]
BY DEF Inv, Fresh, Alive

\* No watched wrapper is ever bound again.
LEMMA UnwrapIdle ==
    ASSUME Inv, Strong, NEW p \in Ptrs
    PROVE  /\ Unwrapped(p) = handles /\ Unwatched(p) = demoted /\ Reborn(p) = born
           /\ Resolves(p) = struct[p]
BY DEF Strong, AllBound, Unwrapped, Unwatched, Reborn, Resolves, Recovers

LEMMA IncrefCounts ==
    ASSUME Inv, Strong, NEW p \in Ptrs
    PROVE  /\ \A q \in Ptrs : q # p => Incref(p)[q] = refcounts[q]
           /\ refcounts[p] > 0 => Incref(p)[p] = refcounts[p] + 1
           /\ refcounts[p] = 0 => Incref(p)[p] = 0
<1>1. refcounts \in [Ptrs -> Nat] /\ strays[p] = 0
  BY DEF Inv, TypeOK, Strong, AllBound
<1> QED
  BY <1>1 DEF Incref

\* A count of an open instance is what C and Python own.
LEMMA CountOf ==
    ASSUME Inv, Strong, NEW g \in Gen, Alive(g)
    PROVE  /\ wrapper[g] # "released"
           /\ deallocs[g] = 0 => /\ refcounts[home[g]] = cref[g] + wref[g]
                                 /\ refcounts[home[g]] > 0
           /\ deallocs[g] > 0 => refcounts[home[g]] = 0
BY DEF Strong, Gone, CountIsOwners, Open, Closed

\* A step that frees nothing and closes nothing.
LEMMA QuietStrong ==
    ASSUME Inv, Strong, UNCHANGED <<struct, home, deallocs>>, SameLife,
           \A g \in Gen : wrapper'[g] = "released" => wrapper[g] = "released",
           \A p \in Ptrs : /\ refcounts[p] = 0 => refcounts'[p] = 0
                           /\ refcounts[p] > 0 => refcounts'[p] > 0,
           AllBound', Kept', CountIsOwners', Owned'
    PROVE  Strong'
<1>1. \A g \in Gen : Alive(g)' => Alive(g) /\ home[g] \in Ptrs
  BY DEF Alive, SameLife, Living, Inv, Fresh
<1>2. \A g \in Gen : Alive(g) => Alive(g)'
  BY DEF Alive, SameLife, Living
<1>3. Closed'
  BY <1>1 DEF Strong, Closed
<1>4. Gone'
  BY <1>1 DEF Strong, Gone
<1>5. DeallocOnce'
  BY <1>2 DEF Strong, DeallocOnce, SameLife, Living
<1> QED
  BY <1>3, <1>4, <1>5 DEF Strong

LEMMA NewStrong ==
    ASSUME Inv, Strong, ~ReclaimResults, NEW g \in Gen, NEW p \in Ptrs, New(g, p)
    PROVE  Strong'
<1>1. /\ struct \in [Ptrs -> Gen \cup {None}] /\ handles \in [Ptrs -> Gen \cup {None}]
      /\ refcounts \in [Ptrs -> Nat] /\ home \in [Gen -> Ptrs \cup {None}]
      /\ wrapper \in [Gen -> WrapperState] /\ cref \in [Gen -> 0..MaxRefs]
  BY DEF Inv, TypeOK
<1>2. /\ struct[p] = None /\ wrapper[g] = "unborn" /\ wref[g] = 0 /\ deallocs[g] = 0
      /\ g \notin crossed \cup argpin /\ g # None
  BY NoneIsNoInstance DEF New, Inv, Fresh
<1>3. /\ struct' = [struct EXCEPT ![p] = g] /\ handles' = [handles EXCEPT ![p] = g]
      /\ refcounts' = [refcounts EXCEPT ![p] = 1] /\ home' = [home EXCEPT ![g] = p]
      /\ wrapper' = [wrapper EXCEPT ![g] = "dropped"] /\ cref' = [cref EXCEPT ![g] = 1]
      /\ born' = Track(p, Depth)
      /\ UNCHANGED <<demoted, strays, crossed, argpin, watched, wref, deallocs>>
  BY DEF New
<1>4. /\ struct'[p] = g /\ refcounts'[p] = 1 /\ home'[g] = p /\ wrapper'[g] = "dropped"
      /\ cref'[g] = 1
      /\ \A k \in Gen : k # g => /\ home'[k] = home[k] /\ wrapper'[k] = wrapper[k]
                                 /\ cref'[k] = cref[k]
      /\ \A q \in Ptrs : q # p => /\ struct'[q] = struct[q] /\ handles'[q] = handles[q]
                                  /\ refcounts'[q] = refcounts[q]
  BY <1>1, <1>3
<1>5. AllBound'
  BY <1>1, <1>3 DEF Strong, AllBound, Track
<1>6. \A k \in Gen : k # g =>
         /\ Alive(k)' => Alive(k) /\ home[k] \in Ptrs /\ home[k] # p
         /\ Alive(k) => Alive(k)' /\ home[k] \in Ptrs /\ home[k] # p
  BY <1>2, <1>4, NoneIsNoInstance DEF Alive, Inv, Fresh
<1>7. Closed'
  BY <1>2, <1>3, <1>4, <1>6 DEF Strong, Closed
<1>8. Gone' /\ Kept'
  BY <1>2, <1>3, <1>4, <1>6 DEF Strong, Gone, Kept
<1>9. CountIsOwners'
  BY <1>2, <1>3, <1>4, <1>6 DEF Strong, CountIsOwners, Open
<1>10. DeallocOnce'
  <2>1. Alive(g)'
    BY <1>4 DEF Alive
  <2> QED
    BY <1>2, <1>3, <1>4, <1>6, <2>1 DEF Strong, DeallocOnce
<1>11. Owned'
  <2>1. Alive(g)'
    BY <1>4 DEF Alive
  <2> QED
    BY <1>2, <1>3, <1>4, <1>6, <2>1 DEF Strong, Owned, OwnedAlive, HeldAlive
<1> QED
  BY <1>5, <1>7, <1>8, <1>9, <1>10, <1>11 DEF Strong

\* A step that moves references of one instance, and frees and closes nothing:
\* its count follows, and what Python was handed stays counted.
Moves(g) ==
    /\ \A q \in Ptrs : q # home[g] => refcounts'[q] = refcounts[q]
    /\ \A k \in Gen : k # g => /\ cref'[k] = cref[k] /\ wref'[k] = wref[k]
                               /\ wrapper'[k] = wrapper[k]
    /\ wrapper'[g] \in {"held", "dropped"}
    /\ crossed' \cup argpin' \subseteq crossed \cup argpin \cup {g}
    /\ refcounts[home[g]] = 0 => refcounts'[home[g]] = 0
    /\ refcounts[home[g]] > 0 => /\ refcounts'[home[g]] > 0
                                 /\ refcounts'[home[g]] = cref'[g] + wref'[g]
    /\ g \in crossed' \cup argpin' => wref'[g] > 0
    /\ Callable => (wrapper'[g] = "held" => wref'[g] > 0)

LEMMA MovesStrong ==
    ASSUME Inv, Strong, NEW g \in Gen, Alive(g), Moves(g), AllBound',
           UNCHANGED <<struct, home, deallocs>>
    PROVE  Strong'
<1>1. /\ home[g] \in Ptrs /\ wrapper[g] # "unborn"
      /\ \A k \in Gen : Alive(k) /\ k # g => home[k] \in Ptrs /\ home[k] # home[g]
  BY AliveHome
<1>2. \A k \in Gen : (wrapper'[k] = "unborn" => wrapper[k] = "unborn")
                     /\ (wrapper[k] = "unborn" => wrapper'[k] = "unborn")
  BY <1>1 DEF Moves
<1>3. \A k \in Gen : (Alive(k)' => Alive(k)) /\ (Alive(k) => Alive(k)')
  BY <1>2 DEF Alive
<1>4. Closed'
  BY <1>1, <1>3, CountOf DEF Moves, Strong, Closed
<1>5. Gone'
  BY <1>3 DEF Moves, Strong, Gone
<1>6. Kept'
  BY <1>3 DEF Moves, Strong, Kept
<1>7. CountIsOwners'
  <2> SUFFICES ASSUME NEW k \in Gen, Alive(k), deallocs[k] = 0, wrapper'[k] # "released"
               PROVE  refcounts'[home[k]] = cref'[k] + wref'[k]
    BY <1>3 DEF CountIsOwners, Open
  <2>1. refcounts[home[k]] = cref[k] + wref[k] /\ refcounts[home[k]] > 0
    BY CountOf
  <2> QED
    BY <1>1, <2>1 DEF Moves
<1>8. DeallocOnce'
  BY <1>2, <1>3 DEF Strong, DeallocOnce
<1>9. Owned'
  <2> SUFFICES ASSUME Callable, NEW k \in Gen
               PROVE  /\ wrapper'[k] = "held" => wref'[k] > 0
                      /\ cref'[k] > 0 => Alive(k)'
                      /\ wrapper'[k] = "held" => Alive(k)'
    BY DEF Owned, OwnedAlive, HeldAlive
  <2> QED
    BY <1>3 DEF Moves, Strong, Owned, OwnedAlive, HeldAlive
<1> QED
  BY <1>4, <1>5, <1>6, <1>7, <1>8, <1>9 DEF Strong

\* What is known of an instance whose struct is there.
LEMMA AliveFacts ==
    ASSUME Inv, Strong, NEW g \in Gen, Alive(g)
    PROVE  /\ home[g] \in Ptrs /\ wrapper[g] \in {"held", "dropped"}
           /\ cref[g] \in Nat /\ wref[g] \in Nat /\ refcounts[home[g]] \in Nat
           /\ refcounts[home[g]] > 0 => refcounts[home[g]] = cref[g] + wref[g]
           /\ refcounts[home[g]] > 0 => deallocs[g] = 0
           /\ g \in crossed \cup argpin => wref[g] > 0
           /\ Callable => (wrapper[g] = "held" => wref[g] > 0)
<1>1. /\ home[g] \in Ptrs /\ struct[home[g]] = g /\ wrapper[g] # "unborn" /\ g # None
  BY AliveHome, NoneIsNoInstance
<1>2. wrapper[g] # "collected"
  BY <1>1 DEF Strong, AllBound, Inv, Tables, Bound
<1>3. /\ cref[g] \in Nat /\ wref[g] \in Nat /\ deallocs[g] \in Nat
      /\ wrapper[g] \in WrapperState /\ refcounts[home[g]] \in Nat
  BY <1>1, Numbers
<1>4. wrapper[g] # "released" /\ (deallocs[g] > 0 => refcounts[home[g]] = 0)
      /\ (deallocs[g] = 0 => refcounts[home[g]] = cref[g] + wref[g])
  BY CountOf
<1> QED
  BY <1>1, <1>2, <1>3, <1>4 DEF WrapperState, Strong, Kept, Owned

LEMMA PyIncrefStrong ==
    ASSUME Inv, Strong, NEW g \in Gen, PyIncref(g)
    PROVE  Strong'
<1>1. /\ Alive(g) /\ refcounts' = Incref(home[g]) /\ cref' = [cref EXCEPT ![g] = @ + 1]
      /\ UNCHANGED <<struct, handles, demoted, born, strays, home, wrapper, crossed,
                     argpin, watched, wref, deallocs>>
  BY DEF PyIncref, CHolds
<1>2. home[g] \in Ptrs
  BY <1>1, AliveHome
<1>3. /\ \A q \in Ptrs : q # home[g] => refcounts'[q] = refcounts[q]
      /\ refcounts[home[g]] > 0 => refcounts'[home[g]] = refcounts[home[g]] + 1
      /\ refcounts[home[g]] = 0 => refcounts'[home[g]] = 0
      /\ cref'[g] = cref[g] + 1 /\ \A k \in Gen : k # g => cref'[k] = cref[k]
  BY <1>1, <1>2, IncrefCounts DEF Inv, TypeOK
<1>4. Moves(g)
  BY <1>1, <1>3, AliveFacts DEF Moves
<1>5. AllBound'
  BY <1>1 DEF Strong, AllBound
<1> QED
  BY <1>1, <1>4, <1>5, MovesStrong

\* A reference C returns, or gives to a container, moves to Python's side.
LEMMA ConsumeMoves ==
    ASSUME Inv, Strong, NEW g \in Gen, Alive(g), cref[g] > 0, Consume(g), Reaches(g),
           UNCHANGED <<home, argpin>>
    PROVE  Moves(g)
<1> DEFINE p == home[g]
<1>1. /\ p \in Ptrs /\ cref[g] \in Nat /\ wref[g] \in Nat /\ refcounts[p] \in Nat
      /\ refcounts[p] > 0 => refcounts[p] = cref[g] + wref[g]
      /\ g \in crossed => wref[g] > 0
  BY AliveFacts
<1>2. /\ refcounts \in [Ptrs -> Nat] /\ wrapper \in [Gen -> WrapperState]
      /\ cref \in [Gen -> 0..MaxRefs] /\ wref \in [Gen -> 0..(MaxStores + 2)]
  BY DEF Inv, TypeOK
<1>3. /\ crossed' = crossed \cup {g} /\ cref'[g] = cref[g] - 1
      /\ \A k \in Gen : k # g => cref'[k] = cref[k]
      /\ wrapper'[g] = "held" /\ \A k \in Gen : k # g => wrapper'[k] = wrapper[k]
  BY <1>2 DEF Consume, Reaches
<1>4. CASE g \notin crossed
  <2>1. refcounts' = refcounts /\ wref' = [wref EXCEPT ![g] = @ + 1]
    BY <1>4 DEF Consume, Consumed, CrossedFirst
  <2> QED
    BY <1>1, <1>2, <1>3, <2>1 DEF Moves
<1>5. CASE g \in crossed
  <2>1. wref' = wref
        /\ refcounts' = IF refcounts[p] <= 1 THEN refcounts ELSE [refcounts EXCEPT ![p] = @ - 1]
    BY <1>5 DEF Consume, Consumed, CrossedFirst
  <2>2. refcounts[p] = 0 \/ refcounts[p] >= 2
    BY <1>1, <1>5
  <2>3. /\ \A q \in Ptrs : q # p => refcounts'[q] = refcounts[q]
        /\ refcounts[p] = 0 => refcounts'[p] = 0
        /\ refcounts[p] > 0 => refcounts'[p] = refcounts[p] - 1 /\ refcounts'[p] > 0
    BY <1>1, <1>2, <2>1, <2>2
  <2> QED
    BY <1>1, <1>3, <1>5, <2>1, <2>3 DEF Moves
<1> QED
  BY <1>4, <1>5

LEMMA StoreItemStrong ==
    ASSUME Inv, Strong, NEW g \in Gen, StoreItem(g)
    PROVE  Strong'
<1>1. /\ Alive(g) /\ refcounts' = Incref(home[g]) /\ wref' = [wref EXCEPT ![g] = @ + 1]
      /\ wrapper' = [wrapper EXCEPT ![g] = "held"] /\ Unwrap(home[g])
      /\ UNCHANGED <<struct, strays, home, crossed, argpin, watched, cref, deallocs>>
  BY DEF StoreItem, CHolds, Reaches
<1>2. home[g] \in Ptrs
  BY <1>1, AliveHome
<1>3. /\ \A q \in Ptrs : q # home[g] => refcounts'[q] = refcounts[q]
      /\ refcounts[home[g]] > 0 => refcounts'[home[g]] = refcounts[home[g]] + 1
      /\ refcounts[home[g]] = 0 => refcounts'[home[g]] = 0
      /\ wref'[g] = wref[g] + 1 /\ \A k \in Gen : k # g => wref'[k] = wref[k]
      /\ wrapper'[g] = "held" /\ \A k \in Gen : k # g => wrapper'[k] = wrapper[k]
  BY <1>1, <1>2, IncrefCounts DEF Inv, TypeOK
<1>4. Moves(g)
  BY <1>1, <1>3, AliveFacts DEF Moves
<1>5. UNCHANGED <<handles, demoted, born>>
  BY <1>1, <1>2, UnwrapIdle DEF Unwrap
<1>6. AllBound'
  BY <1>1, <1>5 DEF Strong, AllBound
<1> QED
  BY <1>1, <1>4, <1>6, MovesStrong

LEMMA StealItemStrong ==
    ASSUME Inv, Strong, NEW g \in Gen, StealItem(g)
    PROVE  Strong'
<1>1. /\ Alive(g) /\ Unwrap(home[g])
      /\ UNCHANGED <<struct, strays, home, argpin, watched, deallocs>>
  BY DEF StealItem
<1>2. Moves(g)
  BY <1>1, ConsumeMoves DEF StealItem
<1>3. UNCHANGED <<handles, demoted, born>>
  BY <1>1, AliveHome, UnwrapIdle DEF Unwrap
<1>4. AllBound'
  BY <1>1, <1>3 DEF Strong, AllBound
<1> QED
  BY <1>1, <1>2, <1>4, MovesStrong

LEMMA CallPythonStrong ==
    ASSUME Inv, Strong, NEW g \in Gen, CallPython(g)
    PROVE  Strong'
<1>1. /\ Alive(g) /\ wrapper' = [wrapper EXCEPT ![g] = "held"] /\ Unwrap(home[g])
      /\ UNCHANGED <<struct, strays, home, crossed, watched, cref, deallocs>>
  BY DEF CallPython, CHolds, Reaches
<1>2. home[g] \in Ptrs
  BY <1>1, AliveHome
<1>3. /\ wrapper'[g] = "held" /\ \A k \in Gen : k # g => wrapper'[k] = wrapper[k]
      /\ wref \in [Gen -> 0..(MaxStores + 2)]
  BY <1>1 DEF Inv, TypeOK
<1>4. Moves(g)
  <2>1. CASE Callable /\ g \notin argpin
    <3>1. /\ refcounts' = Incref(home[g]) /\ wref' = [wref EXCEPT ![g] = @ + 1]
          /\ argpin' = argpin \cup {g}
      BY <2>1 DEF CallPython
    <3>2. /\ \A q \in Ptrs : q # home[g] => refcounts'[q] = refcounts[q]
          /\ refcounts[home[g]] > 0 => refcounts'[home[g]] = refcounts[home[g]] + 1
          /\ refcounts[home[g]] = 0 => refcounts'[home[g]] = 0
          /\ wref'[g] = wref[g] + 1 /\ \A k \in Gen : k # g => wref'[k] = wref[k]
      BY <1>2, <1>3, <3>1, IncrefCounts
    <3> QED
      BY <1>1, <1>3, <3>1, <3>2, AliveFacts DEF Moves
  <2>2. CASE ~(Callable /\ g \notin argpin)
    <3>1. UNCHANGED <<refcounts, wref, argpin>>
      BY <2>2 DEF CallPython
    <3> QED
      BY <1>1, <1>3, <2>2, <3>1, AliveFacts DEF Moves
  <2> QED
    BY <2>1, <2>2
<1>5. UNCHANGED <<handles, demoted, born>>
  BY <1>1, <1>2, UnwrapIdle DEF Unwrap
<1>6. AllBound'
  BY <1>1, <1>5 DEF Strong, AllBound
<1> QED
  BY <1>1, <1>4, <1>6, MovesStrong

\* A scope closes: it was handed nothing, and nothing was bound during the call.
LEMMA PopStrong ==
    ASSUME Inv, Strong, Depth > 0, NEW rc \in [Ptrs -> Nat], Pop(handles, demoted, rc, {}),
           UNCHANGED struct
    PROVE  AllBound'
<1> DEFINE swept == {p \in Ptrs : strays[p] = Depth /\ rc[p] = 0}
           left == [p \in Ptrs |-> IF p \in swept THEN None ELSE handles[p]]
           goes == IF Depth > 1 THEN {}
                   ELSE {p \in {} : rc[p] = 1 /\ left[p] # None /\ wrapper[left[p]] # "released"}
<1>1. /\ handles' = [p \in Ptrs |-> IF p \in goes THEN None ELSE left[p]]
      /\ demoted' = [p \in Ptrs |-> IF p \in goes THEN left[p] ELSE demoted[p]]
      /\ watched' = watched \cup {left[p] : p \in goes}
      /\ born' = IF Depth > 1 THEN {} ELSE {}
      /\ strays' = [p \in Ptrs |-> IF strays[p] = Depth THEN 0 ELSE strays[p]]
  BY DEF Pop
<1>2. goes = {}
  OBVIOUS
<1>3. \A p \in Ptrs : strays[p] = 0 /\ demoted[p] = None /\ handles[p] = struct[p]
  BY DEF Strong, AllBound
<1>4. born' = {} /\ watched' = {}
  BY <1>1, <1>2 DEF Strong, AllBound
<1>5. \A p \in Ptrs : left[p] = struct[p]
  BY <1>3
<1> HIDE DEF swept, left, goes
<1> QED
  BY <1>1, <1>2, <1>3, <1>4, <1>5 DEF AllBound

LEMMA ReturnOtherStrong ==
    ASSUME Inv, Strong, ReturnOther
    PROVE  Strong'
<1>1. Depth > 0 /\ refcounts \in [Ptrs -> Nat] /\ born = {}
  BY DEF ReturnOther, Inv, TypeOK, Strong, AllBound
<1>2. AllBound'
  BY <1>1, PopStrong DEF ReturnOther
<1> QED
  BY <1>2, QuietStrong DEF ReturnOther, SameLife, Strong, Kept, CountIsOwners, Owned,
     OwnedAlive, HeldAlive, Open, Alive

LEMMA ReturnResultStrong ==
    ASSUME Inv, Strong, NEW g \in Gen, ReturnResult(g)
    PROVE  Strong'
<1>1. Alive(g) /\ UNCHANGED <<struct, home, argpin, deallocs>>
  BY DEF ReturnResult
<1>2. Moves(g)
  BY <1>1, ConsumeMoves DEF ReturnResult
<1>3. home[g] \in Ptrs
  BY <1>1, AliveHome
<1>4. Consumed(g) \in [Ptrs -> Nat]
  BY <1>3, ConsumeKeeps DEF ReturnResult, Consume
<1>5. Pop(handles, demoted, Consumed(g), {})
  BY <1>3, UnwrapIdle DEF ReturnResult, Strong, AllBound
<1>6. AllBound'
  BY <1>1, <1>4, <1>5, PopStrong DEF ReturnResult
<1> QED
  BY <1>1, <1>2, <1>6, MovesStrong

LEMMA CallMethodStrong ==
    ASSUME Inv, Strong, NEW g \in Gen, CallMethod(g)
    PROVE  Strong'
BY QuietStrong DEF CallMethod, SameLife, Strong, AllBound, Kept, CountIsOwners, Owned,
   OwnedAlive, HeldAlive, Open, Alive

LEMMA DropStrong ==
    ASSUME Inv, Strong, NEW g \in Gen, Drop(g)
    PROVE  Strong'
<1>1. wrapper \in [Gen -> WrapperState]
  BY DEF Inv, TypeOK
<1>2. /\ wrapper[g] = "held" /\ wrapper'[g] = "dropped"
      /\ \A k \in Gen : k # g => wrapper'[k] = wrapper[k]
  BY <1>1 DEF Drop
<1>3. UNCHANGED <<struct, handles, refcounts, demoted, born, strays, home, crossed, argpin,
                  watched, cref, wref, deallocs>>
  BY DEF Drop
<1>4. SameLife
  BY <1>2 DEF SameLife, Living
<1>5. \A k \in Gen : (Alive(k)' => Alive(k)) /\ (Alive(k) => Alive(k)')
  BY <1>2, <1>3 DEF Alive
<1>6. AllBound' /\ Kept'
  BY <1>3, <1>5 DEF Strong, AllBound, Kept
<1>7. CountIsOwners'
  BY <1>2, <1>3, <1>5 DEF Strong, CountIsOwners, Open
<1>8. Owned'
  BY <1>2, <1>3, <1>5 DEF Strong, Owned, OwnedAlive, HeldAlive
<1> QED
  BY <1>2, <1>3, <1>4, <1>6, <1>7, <1>8, QuietStrong

\* Only a wrapper whose struct is gone is collected: the others are bound.
LEMMA CollectStrong ==
    ASSUME Inv, Strong, NEW g \in Gen, Collect(g)
    PROVE  Strong'
<1>1. wrapper \in [Gen -> WrapperState]
  BY DEF Inv, TypeOK
<1>2. /\ wrapper[g] \in {"dropped", "released"} /\ wrapper'[g] = "collected"
      /\ \A k \in Gen : k # g => wrapper'[k] = wrapper[k]
      /\ \A p \in Ptrs : handles[p] # g
  BY <1>1 DEF Collect
<1>3. UNCHANGED <<struct, handles, refcounts, demoted, born, strays, home, crossed, argpin,
                  watched, cref, wref, deallocs>>
  BY DEF Collect
<1>4. ~Alive(g)
  BY <1>2, AliveHome DEF Strong, AllBound
<1>5. \A k \in Gen : (Alive(k)' => Alive(k)) /\ (Alive(k) => Alive(k)')
  BY <1>2, <1>3 DEF Alive
<1>6. AllBound' /\ Closed' /\ Kept'
  BY <1>3, <1>5 DEF Strong, AllBound, Closed, Kept
<1>7. Gone'
  BY <1>2, <1>5 DEF Strong, Gone
<1>8. CountIsOwners'
  BY <1>2, <1>3, <1>4, <1>5 DEF Strong, CountIsOwners, Open
<1>9. DeallocOnce'
  <2>1. \A k \in Gen : wrapper'[k] # "unborn" => wrapper[k] # "unborn"
    BY <1>2
  <2> QED
    BY <1>3, <1>5, <2>1 DEF Strong, DeallocOnce
<1>10. Owned'
  BY <1>2, <1>3, <1>5 DEF Strong, Owned, OwnedAlive, HeldAlive
<1> QED
  BY <1>6, <1>7, <1>8, <1>9, <1>10 DEF Strong

\* The structs of S are freed, each at its last reference.
LEMMA FreesStrong ==
    ASSUME Inv, Strong, NEW S \in SUBSET Gen,
           \A g \in S : /\ Alive(g) /\ refcounts[home[g]] = 1
                        /\ wrapper'[g] \in Living
                        /\ Callable => cref'[g] = 0 /\ wrapper'[g] # "held",
           GcDel({home[g] : g \in S}, FALSE),
           \A k \in Gen \ S : /\ cref'[k] = cref[k] /\ wref'[k] = wref[k]
                              /\ wrapper'[k] = wrapper[k],
           UNCHANGED <<born, strays, home, crossed, argpin, watched>>
    PROVE  Strong'
<1> DEFINE P == {home[g] : g \in S}
<1>1. /\ struct \in [Ptrs -> Gen \cup {None}] /\ deallocs \in [Gen -> Nat]
      /\ refcounts \in [Ptrs -> Nat]
  BY DEF Inv, TypeOK
<1>2. \A g \in S : /\ home[g] \in Ptrs /\ struct[home[g]] = g /\ wrapper[g] # "unborn"
                   /\ deallocs[g] = 0
  BY AliveFacts, AliveHome
<1>3. P \in SUBSET Ptrs /\ \A p \in P : Bound(p)
  BY <1>2, NoneIsNoInstance DEF Bound, Strong, AllBound
<1>4. \A p \in Ptrs : p \in P => struct[p] \in S
  BY <1>2
<1>5. GcDel(P, FALSE)
  OBVIOUS
<1> HIDE DEF P
<1>6. /\ \A p \in Ptrs : /\ p \in P => struct'[p] = None /\ handles'[p] = None
                         /\ p \notin P => /\ struct'[p] = struct[p] /\ handles'[p] = handles[p]
                                          /\ refcounts'[p] = refcounts[p]
      /\ \A p \in Ptrs : demoted'[p] = None
  BY <1>5 DEF GcDel, Frees, Unbinding, Uncounted, Strong, AllBound
<1>7. \A k \in Gen : deallocs'[k] = IF \E p \in P : struct[p] = k THEN deallocs[k] + 1 ELSE deallocs[k]
  BY <1>5 DEF GcDel
<1>8. \A g \in S : home[g] \in P
  BY DEF P
<1>9. \A g \in S : ~Alive(g)' /\ deallocs'[g] = 1 /\ wrapper'[g] # "unborn"
  <2> SUFFICES ASSUME NEW g \in S
               PROVE  ~Alive(g)' /\ deallocs'[g] = 1 /\ wrapper'[g] # "unborn"
    OBVIOUS
  <2>1. home[g] \in P /\ home[g] \in Ptrs /\ struct[home[g]] = g /\ deallocs[g] = 0
    BY <1>2, <1>8
  <2>2. struct'[home[g]] = None /\ g # None /\ g \in Gen
    BY <1>6, <2>1, NoneIsNoInstance
  <2>3. deallocs'[g] = 1
    BY <1>7, <2>1, <2>2
  <2> QED
    BY <2>1, <2>2, <2>3 DEF Alive, Living
<1>10. \A k \in Gen \ S : /\ deallocs'[k] = deallocs[k] /\ wrapper'[k] = wrapper[k]
                          /\ Alive(k) => home[k] \in Ptrs \ P
                          /\ (Alive(k)' => Alive(k)) /\ (Alive(k) => Alive(k)')
  <2> SUFFICES ASSUME NEW k \in Gen, k \notin S
               PROVE  /\ deallocs'[k] = deallocs[k]
                      /\ Alive(k) => home[k] \in Ptrs \ P
                      /\ (Alive(k)' => Alive(k)) /\ (Alive(k) => Alive(k)')
    OBVIOUS
  <2>1. deallocs'[k] = deallocs[k]
    BY <1>3, <1>4, <1>7
  <2>2. Alive(k) => home[k] \in Ptrs \ P
    BY <1>4, AliveHome
  <2>3. Alive(k)' => Alive(k)
    <3> SUFFICES ASSUME wrapper[k] # "unborn", struct'[home[k]] = k
                 PROVE  struct[home[k]] = k
      BY DEF Alive
    <3>1. home[k] \in Ptrs /\ k # None
      BY NoneIsNoInstance DEF Inv, Fresh
    <3> QED
      BY <1>6, <3>1
  <2>4. Alive(k) => Alive(k)'
    BY <1>6, <2>2 DEF Alive
  <2> QED
    BY <2>1, <2>2, <2>3, <2>4
<1>11. AllBound'
  <2>1. \A p \in Ptrs : handles[p] = struct[p] /\ strays[p] = 0
    BY DEF Strong, AllBound
  <2> QED
    BY <1>6, <2>1 DEF Strong, AllBound
<1>12. Closed'
  BY <1>6, <1>9, <1>10 DEF Strong, Closed
<1>13. Gone' /\ Kept'
  BY <1>9, <1>10 DEF Strong, Gone, Kept
<1>14. CountIsOwners'
  BY <1>6, <1>9, <1>10 DEF Strong, CountIsOwners, Open
<1>15. DeallocOnce'
  BY <1>9, <1>10 DEF Strong, DeallocOnce
<1>16. Owned'
  <2> SUFFICES ASSUME Callable, NEW k \in Gen
               PROVE  /\ wrapper'[k] = "held" => wref'[k] > 0
                      /\ cref'[k] > 0 => Alive(k)'
                      /\ wrapper'[k] = "held" => Alive(k)'
    BY DEF Owned, OwnedAlive, HeldAlive
  <2>1. CASE k \in S
    BY <2>1
  <2>2. CASE k \notin S
    BY <1>10, <2>2 DEF Strong, Owned, OwnedAlive, HeldAlive
  <2> QED
    BY <2>1, <2>2
<1> QED
  BY <1>11, <1>12, <1>13, <1>14, <1>15, <1>16 DEF Strong

\* A count that reaches zero frees its struct: it is bound.
LEMMA ToZeroFrees ==
    ASSUME Inv, Strong, NEW P \in SUBSET Ptrs, \A p \in P : struct[p] # None, ToZero(P)
    PROVE  GcDel(P, FALSE) /\ UNCHANGED strays
BY DEF ToZero, Bound, Strong, AllBound

LEMMA PyDecrefStrong ==
    ASSUME Inv, Strong, NEW g \in Gen, PyDecref(g)
    PROVE  Strong'
<1> DEFINE p == home[g]
<1>1. /\ Alive(g) /\ cref[g] > 0 /\ cref' = [cref EXCEPT ![g] = @ - 1]
      /\ UNCHANGED <<born, frames, home, wrapper, crossed, argpin, watched, callbacks, wref>>
  BY DEF PyDecref
<1>2. /\ p \in Ptrs /\ wrapper[g] \in {"held", "dropped"}
      /\ cref[g] \in Nat /\ wref[g] \in Nat /\ refcounts[p] \in Nat
      /\ refcounts[p] > 0 => refcounts[p] = cref[g] + wref[g]
      /\ g \in crossed \cup argpin => wref[g] > 0
      /\ Callable => (wrapper[g] = "held" => wref[g] > 0)
  BY <1>1, AliveFacts
<1>3. cref'[g] = cref[g] - 1 /\ \A k \in Gen : k # g => cref'[k] = cref[k]
  BY <1>1 DEF Inv, TypeOK
<1>4. CASE refcounts[p] = 1
  <2>1. ToZero({p}) /\ struct[p] # None
    BY <1>1, <1>4, NoneIsNoInstance DEF PyDecref, Alive
  <2>2. GcDel({p}, FALSE) /\ UNCHANGED strays
    BY <1>2, <2>1, ToZeroFrees
  <2>3. {home[k] : k \in {g}} = {p}
    OBVIOUS
  <2>4. \A k \in {g} : /\ Alive(k) /\ refcounts[home[k]] = 1 /\ wrapper'[k] \in Living
                       /\ Callable => cref'[k] = 0 /\ wrapper'[k] # "held"
    BY <1>1, <1>2, <1>3, <1>4 DEF Living
  <2> QED
    BY <1>1, <1>3, <2>2, <2>3, <2>4, FreesStrong
<1>5. CASE refcounts[p] # 1
  <2>1. /\ refcounts' = [refcounts EXCEPT ![p] = IF @ > 1 THEN @ - 1 ELSE @]
        /\ UNCHANGED <<struct, handles, demoted, strays, registered, deallocs>>
    BY <1>5 DEF PyDecref
  <2>2. /\ \A q \in Ptrs : q # p => refcounts'[q] = refcounts[q]
        /\ refcounts[p] = 0 => refcounts'[p] = 0
        /\ refcounts[p] > 0 => refcounts'[p] = refcounts[p] - 1 /\ refcounts'[p] > 0
    BY <1>2, <1>5, <2>1 DEF Inv, TypeOK
  <2>3. Moves(g)
    BY <1>1, <1>2, <1>3, <2>2 DEF Moves
  <2>4. AllBound'
    BY <1>1, <2>1 DEF Strong, AllBound
  <2> QED
    BY <1>1, <2>1, <2>3, <2>4, MovesStrong
<1> QED
  BY <1>4, <1>5

LEMMA ReleaseSoleStrong ==
    ASSUME Inv, Strong, NEW S \in SUBSET Gen,
           \A g \in S : /\ Alive(g) /\ refcounts[home[g]] = 1
                        /\ Callable => wref[g] > 0,
           ReleaseSole(S), UNCHANGED <<born, home, crossed, argpin, watched, cref>>
    PROVE  Strong'
<1>1. \A g \in S : /\ home[g] \in Ptrs /\ struct[home[g]] # None
                   /\ Callable => cref[g] = 0
  <2> SUFFICES ASSUME NEW g \in S
               PROVE  /\ home[g] \in Ptrs /\ struct[home[g]] # None
                      /\ Callable => cref[g] = 0
    OBVIOUS
  <2>1. /\ home[g] \in Ptrs /\ cref[g] \in Nat /\ wref[g] \in Nat
        /\ refcounts[home[g]] = cref[g] + wref[g]
    BY AliveFacts
  <2> QED
    BY <2>1, NoneIsNoInstance DEF Alive
<1>2. ToZero({home[g] : g \in S})
  BY DEF ReleaseSole
<1>3. GcDel({home[g] : g \in S}, FALSE) /\ UNCHANGED strays
  BY <1>1, <1>2, ToZeroFrees
<1>4. /\ \A g \in S : wrapper'[g] = "released"
      /\ \A k \in Gen \ S : wrapper'[k] = wrapper[k] /\ wref'[k] = wref[k]
  BY DEF ReleaseSole
<1> QED
  BY <1>1, <1>3, <1>4, FreesStrong DEF Living

LEMMA DelStrong ==
    ASSUME Inv, Strong, NEW g \in Gen, Del(g)
    PROVE  Strong'
<1>1. \A k \in {g} : /\ Alive(k) /\ refcounts[home[k]] = 1
                     /\ Callable => wref[k] > 0
  BY DEF Del, Sole, Strong, Owned
<1> QED
  BY <1>1, ReleaseSoleStrong DEF Del

LEMMA ReclaimStrong ==
    ASSUME Inv, Strong, Reclaim
    PROVE  Strong'
<1> DEFINE S == {g \in Gen : Reclaimable(g)}
<1>1. \A k \in S : /\ Alive(k) /\ refcounts[home[k]] = 1
                   /\ Callable => wref[k] > 0
  BY DEF Reclaimable, Strong, Kept
<1>2. ReleaseSole(S) /\ S \in SUBSET Gen
      /\ UNCHANGED <<born, home, crossed, argpin, watched, cref>>
  BY DEF Reclaim
<1> HIDE DEF S
<1> QED
  BY <1>1, <1>2, ReleaseSoleStrong

\* gc.collect() closes an instance, once: the struct stays, its count goes.
LEMMA GcFinalizeStrong ==
    ASSUME Inv, Strong, NEW g \in Gen, GcFinalize(g)
    PROVE  Strong'
<1> DEFINE p == home[g]
<1>1. /\ Alive(g) /\ deallocs[g] = 0 /\ GcDel({p}, TRUE)
      /\ UNCHANGED <<born, strays, home, wrapper, crossed, argpin, watched, cref, wref>>
  BY DEF GcFinalize
<1>2. /\ p \in Ptrs /\ struct[p] = g
      /\ \A k \in Gen : Alive(k) /\ k # g => home[k] \in Ptrs /\ home[k] # p
  BY <1>1, AliveHome
<1>3. /\ refcounts \in [Ptrs -> Nat] /\ deallocs \in [Gen -> Nat]
      /\ struct \in [Ptrs -> Gen \cup {None}]
  BY DEF Inv, TypeOK
<1>4. /\ UNCHANGED <<struct, handles>> /\ refcounts'[p] = 0
      /\ \A q \in Ptrs : q # p => refcounts'[q] = refcounts[q]
      /\ deallocs'[g] = 1 /\ \A k \in Gen : k # g => deallocs'[k] = deallocs[k]
      /\ \A q \in Ptrs : demoted'[q] = None
  BY <1>1, <1>2, <1>3 DEF GcDel, Frees, Uncounted, Strong, AllBound
<1>5. \A k \in Gen : (Alive(k)' => Alive(k)) /\ (Alive(k) => Alive(k)')
  BY <1>1, <1>4 DEF Alive
<1>6. AllBound'
  BY <1>1, <1>4 DEF Strong, AllBound
<1>7. Closed'
  BY <1>2, <1>4, <1>5, <1>1 DEF Strong, Closed
<1>8. Gone' /\ Kept'
  BY <1>1, <1>5 DEF Strong, Gone, Kept
<1>9. CountIsOwners'
  BY <1>1, <1>2, <1>4, <1>5 DEF Strong, CountIsOwners, Open
<1>10. DeallocOnce'
  BY <1>1, <1>4, <1>5 DEF Strong, DeallocOnce
<1>11. Owned'
  BY <1>1, <1>5 DEF Strong, Owned, OwnedAlive, HeldAlive
<1> QED
  BY <1>6, <1>7, <1>8, <1>9, <1>10, <1>11 DEF Strong

LEMMA InitStrong == Init => Strong
<1> SUFFICES ASSUME Init PROVE Strong
  OBVIOUS
<1>1. \A g \in Gen : ~Alive(g) /\ wrapper[g] = "unborn" /\ cref[g] = 0 /\ wref[g] = 0
                     /\ deallocs[g] = 0
  BY DEF Init, Alive
<1>2. AllBound
  BY DEF Init, AllBound
<1> QED
  BY <1>1, <1>2 DEF Strong, Closed, Gone, Kept, CountIsOwners, Open, DeallocOnce, Owned,
     OwnedAlive, HeldAlive

LEMMA NextStrong == ~ReclaimResults /\ Inv /\ Strong /\ [Next]_vars => Strong'
<1> SUFFICES ASSUME ~ReclaimResults, Inv, Strong, [Next]_vars PROVE Strong'
  OBVIOUS
<1>1. CASE ReturnOther
  BY <1>1, ReturnOtherStrong
<1>2. CASE Reclaim
  BY <1>2, ReclaimStrong
<1>3. ASSUME NEW g \in Gen, NEW p \in Ptrs, New(g, p) PROVE Strong'
  BY <1>3, NewStrong
<1>4. ASSUME NEW g \in Gen, PyIncref(g) PROVE Strong'
  BY <1>4, PyIncrefStrong
<1>5. ASSUME NEW g \in Gen, PyDecref(g) PROVE Strong'
  BY <1>5, PyDecrefStrong
<1>6. ASSUME NEW g \in Gen, Use(g) PROVE Strong'
  <2>1. Alive(g) /\ demoted[home[g]] # None
    BY <1>6 DEF Use, CHolds, Recovers
  <2> QED
    BY <2>1, AliveHome DEF Strong, AllBound
<1>7. ASSUME NEW g \in Gen, StoreItem(g) PROVE Strong'
  BY <1>7, StoreItemStrong
<1>8. ASSUME NEW g \in Gen, StealItem(g) PROVE Strong'
  BY <1>8, StealItemStrong
<1>9. ASSUME NEW g \in Gen, CallPython(g) PROVE Strong'
  BY <1>9, CallPythonStrong
<1>10. ASSUME NEW g \in Gen, ReturnResult(g) PROVE Strong'
  BY <1>10, ReturnResultStrong
<1>11. ASSUME NEW g \in Gen, CallMethod(g) PROVE Strong'
  BY <1>11, CallMethodStrong
<1>12. ASSUME NEW g \in Gen, CallWith(g) PROVE Strong'
  <2>1. Alive(g) /\ handles[home[g]] = None
    BY <1>12 DEF CallWith, Bound
  <2> QED
    BY <2>1, AliveHome, NoneIsNoInstance DEF Strong, AllBound
<1>13. ASSUME NEW g \in Gen, Drop(g) PROVE Strong'
  BY <1>13, DropStrong
<1>14. ASSUME NEW g \in Gen, Del(g) PROVE Strong'
  BY <1>14, DelStrong
<1>15. ASSUME NEW g \in Gen, GcFinalize(g) PROVE Strong'
  BY <1>15, GcFinalizeStrong
<1>16. ASSUME NEW g \in Gen, Collect(g) PROVE Strong'
  BY <1>16, CollectStrong
<1>17. ASSUME NEW g \in Gen, Callback(g) PROVE Strong'
  BY <1>17 DEF Callback, Strong, AllBound, Inv, TypeOK
<1>18. CASE UNCHANGED vars
  BY <1>18 DEF vars, Strong, AllBound, Closed, Gone, Kept, CountIsOwners, Open, DeallocOnce,
     Owned, OwnedAlive, HeldAlive, Alive
<1> QED
  BY <1>1, <1>2, <1>3, <1>4, <1>5, <1>6, <1>7, <1>8, <1>9, <1>10, <1>11, <1>12, <1>13,
     <1>14, <1>15, <1>16, <1>17, <1>18 DEF Next

\* With the registry off, Strong holds in every reachable state.
THEOREM StrongInvariance ==
    ASSUME ~ReclaimResults
    PROVE  Spec => []Strong
<1>1. Init => Strong
  BY InitStrong
<1>2. Inv /\ Strong /\ [Next]_vars => Strong'
  BY NextStrong
<1> QED
  BY <1>1, <1>2, InstancesInvariance, PTL DEF Spec

\* With the registry off, the count of every open instance is the number of
\* references C owns plus those held for Python: whatever order they are taken,
\* stolen, returned and dropped in, consumeResultRef always tells the wrapper's
\* first reference from the ones that follow.
THEOREM CountsAreExact ==
    ASSUME ~ReclaimResults
    PROVE  Spec => []CountIsOwners
<1>1. Strong => CountIsOwners
  BY DEF Strong
<1> QED
  BY <1>1, StrongInvariance, PTL

\* With the registry off, tp_dealloc runs at most once on an instance, and a
\* struct is freed only after it ran: not the count, nor del, nor gc.collect(),
\* nor a collection closes what another of them has closed.
THEOREM DestroyedOnce ==
    ASSUME ~ReclaimResults
    PROVE  Spec => []DeallocOnce
<1>1. Strong => DeallocOnce
  BY DEF Strong
<1> QED
  BY <1>1, StrongInvariance, PTL

\* With the registry off, and a type whose instances are pinned when they are
\* passed to Python, C never owns a reference on a struct that is gone.
THEOREM CReferencesAreAlive ==
    ASSUME ~ReclaimResults, Callable
    PROVE  Spec => []OwnedAlive
<1>1. Strong => OwnedAlive
  BY DEF Strong, Owned
<1> QED
  BY <1>1, StrongInvariance, PTL

\* Of such a type, a wrapper Python reaches always has its struct.
THEOREM HeldWrappersAreAlive ==
    ASSUME ~ReclaimResults, Callable
    PROVE  Spec => []HeldAlive
<1>1. Strong => HeldAlive
  BY DEF Strong, Owned
<1> QED
  BY <1>1, StrongInvariance, PTL

=============================================================================
