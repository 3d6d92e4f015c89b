------------------------------ MODULE Handles ------------------------------
(***************************************************************************)
(* The handle table of the bridge (src/src/wasthon.js): the ids C code     *)
(* sees as PyObject*, the scopes that own the ids a call mints, and the    *)
(* reference counts of the ids C keeps.                                    *)
(*                                                                         *)
(* Execution is single threaded: Python calls C (Enter), C calls the API   *)
(* (the actions in the middle), C may call Python again, which may call C  *)
(* again (Enter at a greater depth), and calls return in stack order.      *)
(* This module covers the ordinary Brython objects ("sentinel" handles);   *)
(* structs of C types appear only as addresses that take ids of the same   *)
(* key space (BindType).                                                   *)
(***************************************************************************)
EXTENDS Integers, Sequences

CONSTANTS
    Objs,           \* JS objects and functions: interned, one handle each
    Prims,          \* JS primitives (str, int, float): a handle per wrap
    Pinnable,       \* the values the bridge pins (wrapPinned)
    TypePtrs,       \* addresses malloc may return for a type struct
    FirstId,        \* the first sentinel id (15 in the code)
    MaxId,          \* bound: the largest id considered
    RecycleLimit,   \* ids below it are recycled (0x10000 in the code)
    HeapAboveIds,   \* TRUE: no struct address is reached by the id counter
    MaxDepth,       \* bound: nesting of C calls
    MaxOwned,       \* bound: references C owns on one handle
    Nil,            \* "no entry"
    TypeStruct      \* the class a type struct's address is bound to

Val == Objs \cup Prims
Id == FirstId..MaxId

ASSUME HandlesAssumption ==
    /\ FirstId \in Nat \ {0}
    /\ MaxId \in Nat /\ FirstId <= MaxId
    /\ RecycleLimit \in Nat
    /\ MaxDepth \in Nat
    /\ MaxOwned \in Nat
    /\ HeapAboveIds \in BOOLEAN
    /\ TypePtrs \subseteq Id
    /\ Pinnable \subseteq Objs \cup Prims
    /\ Objs \cap Prims = {}
    /\ Nil \notin Val
    /\ TypeStruct \notin Val
    /\ TypeStruct # Nil

VARIABLES
    handles,        \* handle -> object (WasthonRT.handles)
    sentinelByObj,  \* object -> its handle, 0 when it has none
    nextHandleId,   \* the next id never used
    freeList,       \* the recycled ids, as a multiset (their order is left out)
    scopes,         \* the stack of scope arrays, each as the set of its ids
    scopeOf,        \* handle -> the depth of the scope that owns it, 0: none
    refcounts,      \* handle -> references counted by the bridge, 0: no entry
    args,           \* ghost: per call, the argument C was given and its handle
    owned,          \* ghost: references C code owns, by the C-API's contract
    immortal,       \* ghost: handles minted or pinned to last for ever
    pinned          \* ghost: handles the bridge stored in C memory

vars == <<handles, sentinelByObj, nextHandleId, freeList, scopes, scopeOf,
          refcounts, args, owned, immortal, pinned>>

Depth == Len(scopes)
Bound(h) == handles[h] # Nil

Init ==
    /\ handles = [h \in Id |-> Nil]
    /\ sentinelByObj = [o \in Objs |-> 0]
    /\ nextHandleId = FirstId
    /\ freeList = [h \in Id |-> 0]
    /\ scopes = <<>>
    /\ scopeOf = [h \in Id |-> 0]
    /\ refcounts = [h \in Id |-> 0]
    /\ args = <<>>
    /\ owned = [h \in Id |-> 0]
    /\ immortal = {}
    /\ pinned = {}

----------------------------------------------------------------------------
(* Minting and finding ids. *)

\* A recycled id, or the first id at or above the counter that is not in use.
AllocSentinelId(h) ==
    \/ /\ freeList[h] > 0
       /\ freeList' = [freeList EXCEPT ![h] = @ - 1]
       /\ UNCHANGED nextHandleId
    \/ /\ \A k \in Id : freeList[k] = 0
       /\ nextHandleId <= h
       /\ ~Bound(h)
       /\ \A k \in nextHandleId..(h - 1) : Bound(k)
       /\ nextHandleId' = h + 1
       /\ UNCHANGED freeList

\* Mutant of Interned: every wrap mints a new handle.
InternedNever(v, h) == v # v /\ h # h

\* The interned handle of v, if it has a live one.
Interned(v, h) == /\ v \in Objs
                  /\ sentinelByObj[v] = h
                  /\ handles[h] = v

\* scope array number d of stack sc receives h; no scope active: nothing does
ScopeTrack(h, sc) ==
    /\ scopes' = IF sc = <<>> THEN sc ELSE [sc EXCEPT ![Len(sc)] = @ \cup {h}]
    /\ scopeOf' = [scopeOf EXCEPT ![h] = Len(sc)]

\* v has no live interned handle: mint h for it.
Mint(v, h) ==
    /\ \A k \in Id : ~Interned(v, k)
    /\ AllocSentinelId(h)
    /\ handles' = [handles EXCEPT ![h] = v]
    /\ sentinelByObj' = IF v \in Objs THEN [sentinelByObj EXCEPT ![v] = h]
                                      ELSE sentinelByObj

\* wrap(v) = h, run under the scope stack sc.
Wrap(v, h, sc) ==
    \/ /\ Interned(v, h)
       /\ scopes' = sc
       /\ UNCHANGED <<handles, sentinelByObj, nextHandleId, freeList, scopeOf, immortal>>
    \/ /\ Mint(v, h)
       /\ ScopeTrack(h, sc)
       /\ immortal' = IF sc = <<>> THEN immortal \cup {h} ELSE immortal

----------------------------------------------------------------------------
(* Counting. *)

\* Mutant of Incref: the first reference on a scope-owned handle is not counted.
IncrefCountedOnly(h, so) ==
    [refcounts EXCEPT ![h] = IF @ > 0 THEN @ + 1 ELSE @]

\* incref: count a counted handle, start the count of a scope-owned one,
\* leave everything else (immortal handles, type structs) alone.
Incref(h, so) ==
    [refcounts EXCEPT ![h] = IF @ > 0 THEN @ + 1
                             ELSE IF so[h] # 0 THEN 1 ELSE @]

DecrefCount(h) == [refcounts EXCEPT ![h] = IF @ > 0 THEN @ - 1 ELSE @]

\* Mutants of Orphaned: a handle that reaches zero is forgotten, or is moved to
\* the current scope although an outer one owns it.
OrphanedNever(h) == refcounts[h] < 0
OrphanedAlways(h) == refcounts[h] = 1

\* The count of h reaches zero and no scope owns h.
Orphaned(h) == refcounts[h] = 1 /\ scopeOf[h] = 0

\* releaseSentinel of every handle of S: forget the binding, recycle the id.
ReleaseSentinels(S) ==
    /\ handles' = [h \in Id |-> IF h \in S THEN Nil ELSE handles[h]]
    /\ sentinelByObj' = [o \in Objs |->
                            IF sentinelByObj[o] \in S /\ handles[sentinelByObj[o]] = o
                            THEN 0 ELSE sentinelByObj[o]]
    /\ freeList' = [h \in Id |-> IF h \in S /\ h < RecycleLimit
                                 THEN freeList[h] + 1 ELSE freeList[h]]
    /\ UNCHANGED <<nextHandleId, immortal>>

\* Mutants of Dying: the closing scope releases what C still owns, or what was
\* taken out of it.
DyingCounted(arr, so, rc) == {h \in arr : so[h] = Depth}

\* The handles popScope releases: owned by the scope that closes, not counted.
Dying(arr, so, rc) == {h \in arr : so[h] = Depth /\ rc[h] = 0}

\* Mutant of PopScope: the closed scope goes on owning the handles it kept.
PopScopeKeepsOwner(arr, so, rc) ==
    /\ ReleaseSentinels({h \in arr : so[h] = Depth /\ rc[h] = 0})
    /\ scopes' = SubSeq(scopes, 1, Depth - 1)
    /\ scopeOf' = so
    /\ refcounts' = rc

\* popScope of the top scope, whose array is arr, after a possible decref
\* left the ownership so and the counts rc.
PopScope(arr, so, rc) ==
    /\ ReleaseSentinels(Dying(arr, so, rc))
    /\ scopes' = SubSeq(scopes, 1, Depth - 1)
    /\ scopeOf' = [h \in Id |-> IF h \in arr /\ so[h] = Depth THEN 0 ELSE so[h]]
    /\ refcounts' = rc

----------------------------------------------------------------------------
(* Python calls C. *)

\* A scoped entry point wraps its argument v and calls the C function.
Enter(v, h) ==
    /\ Depth < MaxDepth
    /\ Wrap(v, h, Append(scopes, {}))
    /\ args' = Append(args, [val |-> v, h |-> h])
    /\ UNCHANGED <<refcounts, owned, pinned>>

CloseFrame == /\ args' = SubSeq(args, 1, Len(args) - 1)
              /\ UNCHANGED pinned

\* The C function returns a reference it owns: the dispatcher unwraps it,
\* drops that reference (consumeResultRef) and the scope closes.
ReturnResult(h) ==
    /\ Depth > 0
    /\ owned[h] > 0
    /\ owned' = [owned EXCEPT ![h] = @ - 1]
    /\ LET top == scopes[Depth]
       IN  IF Orphaned(h)
           THEN PopScope(top \cup {h}, [scopeOf EXCEPT ![h] = Depth], DecrefCount(h))
           ELSE PopScope(top, scopeOf, DecrefCount(h))
    /\ CloseFrame

\* The C function returns NULL: the exception is raised and the scope closes.
ReturnNull ==
    /\ Depth > 0
    /\ PopScope(scopes[Depth], scopeOf, refcounts)
    /\ CloseFrame
    /\ UNCHANGED owned

----------------------------------------------------------------------------
(* C calls the API (in a call, or at depth 0 while a module initialises). *)

\* A borrowed reference (PyDict_GetItem, PyList_GET_ITEM...).
Borrow(v, h) ==
    /\ Wrap(v, h, scopes)
    /\ UNCHANGED <<refcounts, args, owned, pinned>>

\* A new reference (constructors, PyObject_Call...): wrapNewRef.
NewRef(v, h) ==
    /\ owned[h] < MaxOwned
    /\ Wrap(v, h, scopes)
    /\ refcounts' = Incref(h, scopeOf')
    /\ owned' = [owned EXCEPT ![h] = @ + 1]
    /\ UNCHANGED <<args, pinned>>

\* C holds a valid reference to h: one it owns, or its running call's argument.
Holds(h) == \/ owned[h] > 0
            \/ /\ args # <<>>
               /\ args[Len(args)].h = h
               /\ args[Len(args)].val = handles[h]

\* Py_INCREF on a reference C holds.
PyIncref(h) ==
    /\ Holds(h)
    /\ owned[h] < MaxOwned
    /\ refcounts' = Incref(h, scopeOf)
    /\ owned' = [owned EXCEPT ![h] = @ + 1]
    /\ UNCHANGED <<handles, sentinelByObj, nextHandleId, freeList, scopes,
                   scopeOf, args, immortal, pinned>>

\* Py_DECREF of a reference C owns: an orphan moves to the current scope, or
\* is released at once when no scope is active.
PyDecref(h) ==
    /\ owned[h] > 0
    /\ owned' = [owned EXCEPT ![h] = @ - 1]
    /\ refcounts' = DecrefCount(h)
    /\ CASE Orphaned(h) /\ Depth > 0 ->
              /\ ScopeTrack(h, scopes)
              /\ UNCHANGED <<handles, sentinelByObj, nextHandleId, freeList, immortal>>
         [] Orphaned(h) /\ Depth = 0 ->
              /\ ReleaseSentinels({h})
              /\ UNCHANGED <<scopes, scopeOf>>
         [] OTHER ->
              UNCHANGED <<handles, sentinelByObj, nextHandleId, freeList,
                          scopes, scopeOf, immortal>>
    /\ UNCHANGED <<args, pinned>>

\* wrapPinned: the bridge stores the handle of v in C memory (a T_OBJECT
\* member, a type's tp_dict) and takes it out of its scope.
WrapPinned(v, h) ==
    /\ \/ /\ Interned(v, h)
          /\ UNCHANGED <<handles, sentinelByObj, nextHandleId, freeList, scopes>>
       \/ /\ Mint(v, h)
          /\ scopes' = IF scopes = <<>> THEN scopes
                       ELSE [scopes EXCEPT ![Depth] = @ \cup {h}]
    /\ scopeOf' = [scopeOf EXCEPT ![h] = 0]
    /\ pinned' = pinned \cup {h}
    /\ immortal' = IF refcounts[h] = 0 THEN immortal \cup {h} ELSE immortal
    /\ UNCHANGED <<refcounts, args, owned>>

----------------------------------------------------------------------------
(* A type struct is materialised: malloc returns address p and the class is *)
(* bound to it, whatever the table held there.  The code relies on the heap *)
(* lying above the ids it mints (HeapAboveIds).                             *)
BindType(p) ==
    /\ handles[p] # TypeStruct
    /\ HeapAboveIds => nextHandleId <= p
    /\ handles' = [handles EXCEPT ![p] = TypeStruct]
    /\ UNCHANGED <<sentinelByObj, nextHandleId, freeList, scopes, scopeOf,
                   refcounts, args, owned, immortal, pinned>>

Next ==
    \/ \E v \in Val, h \in Id : Enter(v, h)
    \/ \E h \in Id : ReturnResult(h)
    \/ ReturnNull
    \/ \E v \in Val, h \in Id : Borrow(v, h)
    \/ \E v \in Val, h \in Id : NewRef(v, h)
    \/ \E h \in Id : PyIncref(h)
    \/ \E h \in Id : PyDecref(h)
    \/ \E v \in Pinnable, h \in Id : WrapPinned(v, h)
    \/ \E p \in TypePtrs : BindType(p)

Spec == Init /\ [][Next]_vars

----------------------------------------------------------------------------
(* What must hold. *)

\* Every variable has its type; an owning scope is a scope of the stack.
TypeOK ==
    /\ handles \in [Id -> Val \cup {Nil, TypeStruct}]
    /\ sentinelByObj \in [Objs -> Id \cup {0}]
    /\ nextHandleId \in FirstId..(MaxId + 1)
    /\ freeList \in [Id -> Nat]
    /\ scopes \in Seq(SUBSET Id)
    /\ scopeOf \in [Id -> 0..Len(scopes)]
    /\ refcounts \in [Id -> Nat]
    /\ args \in Seq([val : Val, h : Id])
    /\ Len(args) = Len(scopes)
    /\ owned \in [Id -> Nat]
    /\ immortal \subseteq Id
    /\ pinned \subseteq Id

\* C compares PyObject pointers for identity: one live object never has two
\* handles, and the reverse map finds the one it has (wrap's interning).
HandleIdentity ==
    \A h \in Id : handles[h] \in Objs => sentinelByObj[handles[h]] = h

\* The bridge's count of a handle is the number of references C owns on it;
\* a handle C owns and the bridge does not count is immortal (incref's
\* "counting eligibility").
CountIsOwnership ==
    \A h \in Id : \/ refcounts[h] = owned[h]
                  \/ refcounts[h] = 0 /\ h \in immortal

\* A handle the table binds has an owner: a scope, a count, or for ever.  So
\* nothing minted by calls outlives them uncounted (the flat table of
\* tests/lifetime.py).
NoLeak ==
    \A h \in Id : handles[h] \in Val =>
        scopeOf[h] # 0 \/ refcounts[h] > 0 \/ h \in immortal

\* A recycled id is dead: it is in the list once, bound to nothing, and no
\* scope, count or C reference still names it.
FreeIdsAreDead ==
    \A h \in Id : freeList[h] > 0 =>
        /\ freeList[h] = 1
        /\ ~Bound(h)
        /\ scopeOf[h] = 0
        /\ owned[h] = 0

\* What a scope owns, no call nested in it can release, whatever it counts
\* and drops: only the closing of that scope can (incref's comment on
\* balanced INCREF/DECREF).
ScopeProtects ==
    [][\A h \in Id : scopeOf[h] \in 1..Len(scopes') =>
          /\ handles'[h] = handles[h]
          /\ scopeOf'[h] = scopeOf[h] \/ h \in pinned']_vars

\* A handle C owns, or an immortal one, goes on naming the same object.
HeldKept ==
    [][\A h \in Id : (owned[h] > 0 /\ owned'[h] > 0) \/ h \in immortal =>
          Bound(h) /\ handles'[h] = handles[h]]_vars

\* The table implements what it promises C (HandleContract): scopes, counts and
\* ids hidden, a type struct's address is not a handle C was granted.
Contract == INSTANCE HandleContract WITH
                Handle <- Id,
                names <- [h \in Id |-> IF handles[h] = TypeStruct THEN Nil ELSE handles[h]],
                forever <- immortal

ImplementsContract == Contract!CSpec

\* README.md:105, "A borrowed argument therefore lives exactly as long as the
\* C call, like CPython's borrowed references".  (Refuted: see the findings.)
BorrowedArgLives ==
    \A d \in 1..Len(args) : handles[args[d].h] = args[d].val

\* The comment of the handle table: sentinel ids "never alias real WASM
\* pointers because the C heap doesn't return such low addresses".
\* (Refuted without HeapAboveIds: see the findings.)
PointersDoNotAlias ==
    [][\A p \in TypePtrs : handles[p] \in Val => handles'[p] # TypeStruct]_vars

=============================================================================
