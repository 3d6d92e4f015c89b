----------------------------- MODULE Instances -----------------------------
(***************************************************************************)
(* The life of a C instance (src/src/wasthon.js): the struct malloc gave   *)
(* it, the Brython wrapper bound to its address, the count C and the       *)
(* wrapper share, and every path on which the struct is freed: the count,  *)
(* `del`, gc.collect(), the whole-heap collection and, when opted in, the  *)
(* FinalizationRegistry that watches the wrappers C no longer holds.       *)
(*                                                                         *)
(* Instances are numbered in the order they are allocated; an address is   *)
(* used again once its struct is freed.  C code keeps the C-API's contract *)
(* (it drops what it owns, once, and touches what it holds), and the       *)
(* marks are exact: which wrappers Python reaches is what the actions say. *)
(***************************************************************************)
EXTENDS Integers, Sequences

CONSTANTS
    Ptrs,           \* addresses malloc hands out
    MaxGen,         \* bound: instances allocated
    MaxDepth,       \* bound: nesting of C calls
    MaxRefs,        \* bound: references C owns on one instance
    MaxStores,      \* bound: references containers take on one instance
    Callable,       \* TRUE: the type is callable, so arguments are pinned
    ReclaimResults  \* the opt-in switch rt.reclaimResults

ASSUME InstancesAssumption ==
    /\ MaxGen \in Nat /\ MaxDepth \in Nat /\ MaxRefs \in Nat \ {0} /\ MaxStores \in Nat
    /\ Callable \in BOOLEAN /\ ReclaimResults \in BOOLEAN

Gen == 1..MaxGen
None == 0

VARIABLES
    struct,     \* address -> the instance whose struct is there, None: free
    handles,    \* address -> the wrapper bound to it
    refcounts,  \* address -> its count, 0: no entry
    demoted,    \* address -> the unbound wrapper the bridge watches weakly
    born,       \* addresses bound during the current outermost C call
    strays,     \* address -> depth of the scope decref handed it to, 0: none
    frames,     \* the running C calls, each the instance it was called on
    home,       \* instance -> the address it was allocated at, None: unborn
    wrapper,    \* instance -> what its wrapper is: see WrapperState
    crossed,    \* instances whose first reference went to the wrapper
    argpin,     \* callable instances pinned as a call argument
    registered, \* wrappers in the FinalizationRegistry
    watched,    \* wrappers stamped $wasthon_finreg: registered once for all
    callbacks,  \* wrappers collected, their registry callback still to run
    cref,       \* ghost: instance -> references C owns on it
    wref,       \* ghost: instance -> references held for Python
    deallocs    \* ghost: instance -> runs of its tp_dealloc

vars == <<struct, handles, refcounts, demoted, born, strays, frames, home,
          wrapper, crossed, argpin, registered, watched, callbacks, cref,
          wref, deallocs>>

\* not allocated yet, reachable from Python, not reachable from it, retyped to
\* `released` by the bridge, collected by the JavaScript GC
WrapperState == {"unborn", "held", "dropped", "released", "collected"}

Depth == Len(frames)
Bound(p) == handles[p] # None
Alive(g) == wrapper[g] # "unborn" /\ struct[home[g]] = g

Init ==
    /\ struct = [p \in Ptrs |-> None]
    /\ handles = [p \in Ptrs |-> None]
    /\ refcounts = [p \in Ptrs |-> 0]
    /\ demoted = [p \in Ptrs |-> None]
    /\ born = {}
    /\ strays = [p \in Ptrs |-> 0]
    /\ frames = <<>>
    /\ home = [g \in Gen |-> None]
    /\ wrapper = [g \in Gen |-> "unborn"]
    /\ crossed = {} /\ argpin = {}
    /\ registered = {} /\ watched = {} /\ callbacks = {}
    /\ cref = [g \in Gen |-> 0]
    /\ wref = [g \in Gen |-> 0]
    /\ deallocs = [g \in Gen |-> 0]

----------------------------------------------------------------------------
(* Binding an address to its wrapper. *)

\* Mutant of Track: what is bound while no C call runs is tracked too.
TrackAlways(p, depth) == IF ReclaimResults THEN born \cup {p} ELSE born

\* _bornTrack at that depth of calls.
Track(p, depth) == IF ReclaimResults /\ depth > 0 THEN born \cup {p} ELSE born

\* unwrap of address p: a watched wrapper that is still there is bound again.
Recovers(p) == ~Bound(p) /\ demoted[p] # None /\ wrapper[demoted[p]] # "collected"

Unwrapped(p) == IF Recovers(p) THEN [handles EXCEPT ![p] = demoted[p]] ELSE handles
Unwatched(p) == IF Recovers(p) THEN [demoted EXCEPT ![p] = None] ELSE demoted
Reborn(p)    == IF Recovers(p) THEN Track(p, Depth) ELSE born

Unwrap(p) ==
    /\ handles' = Unwrapped(p)
    /\ demoted' = Unwatched(p)
    /\ born' = Reborn(p)

\* What unwrap(p) answers, None for a null pointer.
Resolves(p) == Unwrapped(p)[p]

----------------------------------------------------------------------------
(* Counting. *)

Incref(p) ==
    [refcounts EXCEPT ![p] = IF @ > 0 THEN @ + 1 ELSE IF strays[p] # 0 THEN 1 ELSE @]

\* The counts GC_Del leaves.  Mutant: gc.collect() leaves the count behind.
UncountedIfFreed(S, conservative) ==
    [p \in Ptrs |-> IF p \in S /\ ~conservative THEN 0 ELSE refcounts[p]]
Uncounted(S, conservative) == [p \in Ptrs |-> IF p \in S THEN 0 ELSE refcounts[p]]

\* The bindings it leaves.  Mutant: the struct goes, the binding stays.
UnboundNever(S) == [p \in Ptrs |-> handles[p]]
Unbinding(S) == [p \in Ptrs |-> IF p \in S THEN None ELSE handles[p]]

\* The registry entries it leaves.  Mutant: it forgets to unregister.
UnregisteredNever(S) == {g \in registered : TRUE}
Unregistered(S) == {g \in registered : ~(home[g] \in S /\ handles[home[g]] = g)}

\* Mutant: gc.collect() frees what it closes.
FreesAlways(conservative) == conservative \in BOOLEAN
Frees(conservative) == ~conservative

\* The destructors of the structs at the addresses of S run, and end in
\* PyObject_GC_Del: the count goes, a bound and watched wrapper is watched no
\* longer, and unless gc.collect() asked for it (conservative) the binding
\* and the struct go too.
GcDel(S, conservative) ==
    /\ refcounts' = Uncounted(S, conservative)
    /\ registered' = Unregistered(S)
    /\ demoted' = [p \in Ptrs |-> IF p \in S /\ Bound(p) /\ handles[p] \in watched
                                  THEN None ELSE demoted[p]]
    /\ IF Frees(conservative)
       THEN /\ handles' = Unbinding(S)
            /\ struct' = [p \in Ptrs |-> IF p \in S THEN None ELSE struct[p]]
       ELSE UNCHANGED <<handles, struct>>
    /\ deallocs' = [g \in Gen |-> IF \E p \in S : struct[p] = g THEN deallocs[g] + 1
                                  ELSE deallocs[g]]

\* decref brings the counts of the addresses of S to zero: a bound instance is
\* destroyed; an unbound one is taken for a sentinel and handed to the scope.
ToZero(S) ==
    LET unbound == {p \in S : ~Bound(p)}
    IN  IF unbound = {} THEN GcDel(S, FALSE) /\ UNCHANGED strays
        ELSE /\ refcounts' = [p \in Ptrs |-> IF p \in S THEN 0 ELSE refcounts[p]]
             /\ strays' = [p \in Ptrs |-> IF p \in unbound /\ strays[p] = 0
                                          THEN Depth ELSE strays[p]]
             /\ UNCHANGED <<struct, handles, demoted, registered, deallocs>>

----------------------------------------------------------------------------
(* References that change hands. *)

\* Mutant of CrossedFirst: every returned reference is the wrapper's.
CrossedAlways(g) == g \in Gen

\* The first time an instance reaches Python the reference becomes its wrapper's.
CrossedFirst(g) == g \notin crossed

\* consumeResultRef: rc is what it leaves of the counts.
Consumed(g) ==
    IF CrossedFirst(g) \/ refcounts[home[g]] <= 1 THEN refcounts
    ELSE [refcounts EXCEPT ![home[g]] = @ - 1]

Consume(g) ==
    /\ refcounts' = Consumed(g)
    /\ crossed' = crossed \cup {g}
    /\ cref' = [cref EXCEPT ![g] = @ - 1]
    /\ wref' = IF g \in crossed THEN wref ELSE [wref EXCEPT ![g] = @ + 1]

\* A scope closes: hd, dm, rc and bn are the table, the watched instances,
\* the counts and the tracked addresses by then.  The outermost one unbinds
\* what was bound during the call and has a count of 1.
Pop(hd, dm, rc, bn) ==
    LET swept == {p \in Ptrs : strays[p] = Depth /\ rc[p] = 0}
        left == [p \in Ptrs |-> IF p \in swept THEN None ELSE hd[p]]
        goes == IF Depth > 1 THEN {}
                ELSE {p \in bn : rc[p] = 1 /\ left[p] # None /\ wrapper[left[p]] # "released"}
    IN  /\ handles' = [p \in Ptrs |-> IF p \in goes THEN None ELSE left[p]]
        /\ demoted' = [p \in Ptrs |-> IF p \in goes THEN left[p] ELSE dm[p]]
        /\ registered' = registered \cup {left[p] : p \in {q \in goes : left[q] \notin watched}}
        /\ watched' = watched \cup {left[p] : p \in goes}
        /\ born' = IF Depth > 1 THEN bn ELSE {}
        /\ strays' = [p \in Ptrs |-> IF strays[p] = Depth THEN 0 ELSE strays[p]]
        /\ frames' = SubSeq(frames, 1, Depth - 1)

----------------------------------------------------------------------------
(* C code: in a call, or while a module initialises. *)

\* PyObject_GC_New: malloc picks p, the count starts at 1 and is C's.
New(g, p) ==
    /\ wrapper[g] = "unborn"
    /\ \A k \in 1..(g - 1) : wrapper[k] # "unborn"
    /\ struct[p] = None
    /\ struct' = [struct EXCEPT ![p] = g]
    /\ handles' = [handles EXCEPT ![p] = g]
    /\ refcounts' = [refcounts EXCEPT ![p] = 1]
    /\ born' = Track(p, Depth)
    /\ home' = [home EXCEPT ![g] = p]
    /\ wrapper' = [wrapper EXCEPT ![g] = "dropped"]
    /\ cref' = [cref EXCEPT ![g] = 1]
    /\ UNCHANGED <<demoted, strays, frames, crossed, argpin, registered,
                   watched, callbacks, wref, deallocs>>

\* C holds a reference to g, its own or the receiver of its call, and may use
\* it: what C does to a struct that is gone is undefined, and not modelled.
CHolds(g) == /\ Alive(g)
             /\ cref[g] > 0 \/ (frames # <<>> /\ frames[Depth] = g)

PyIncref(g) ==
    /\ CHolds(g)
    /\ cref[g] < MaxRefs
    /\ refcounts' = Incref(home[g])
    /\ cref' = [cref EXCEPT ![g] = @ + 1]
    /\ UNCHANGED <<struct, handles, demoted, born, strays, frames, home, wrapper,
                   crossed, argpin, registered, watched, callbacks, wref, deallocs>>

PyDecref(g) ==
    LET p == home[g] IN
    /\ Alive(g) /\ cref[g] > 0
    /\ cref' = [cref EXCEPT ![g] = @ - 1]
    /\ IF refcounts[p] = 1 THEN ToZero({p})
       ELSE /\ refcounts' = [refcounts EXCEPT ![p] = IF @ > 1 THEN @ - 1 ELSE @]
            /\ UNCHANGED <<struct, handles, demoted, strays, registered, deallocs>>
    /\ UNCHANGED <<born, frames, home, wrapper, crossed, argpin, watched,
                   callbacks, wref>>

\* C passes g to any API function, which unwraps it.
Use(g) ==
    /\ CHolds(g)
    /\ Recovers(home[g])
    /\ Unwrap(home[g])
    /\ UNCHANGED <<struct, refcounts, strays, frames, home, wrapper, crossed, argpin,
                   registered, watched, callbacks, cref, wref, deallocs>>

Reaches(g) == wrapper' = [wrapper EXCEPT ![g] = "held"]

\* A container takes a reference of its own (PyList_Append, PyDict_SetItem,
\* PyObject_SetAttr...) and shows the wrapper to Python.
StoreItem(g) ==
    /\ CHolds(g)
    /\ Resolves(home[g]) = g /\ wrapper[g] # "released"
    /\ wref[g] < MaxStores
    /\ Unwrap(home[g])
    /\ Reaches(g)
    /\ refcounts' = Incref(home[g])
    /\ wref' = [wref EXCEPT ![g] = @ + 1]
    /\ UNCHANGED <<struct, strays, frames, home, crossed, argpin, registered,
                   watched, callbacks, cref, deallocs>>

\* A container steals the reference C owns (PyList_SetItem, PyTuple_SetItem).
StealItem(g) ==
    /\ Alive(g) /\ cref[g] > 0
    /\ Resolves(home[g]) = g /\ wrapper[g] # "released"
    /\ Unwrap(home[g])
    /\ Reaches(g)
    /\ Consume(g)
    /\ UNCHANGED <<struct, strays, frames, home, argpin, registered, watched,
                   callbacks, deallocs>>

\* C passes g as an argument to Python code, which may keep it or delete it:
\* the bridge takes a reference for it only when the type is callable.
CallPython(g) ==
    /\ CHolds(g)
    /\ Resolves(home[g]) = g /\ wrapper[g] # "released"
    /\ Unwrap(home[g])
    /\ Reaches(g)
    /\ IF Callable /\ g \notin argpin
       THEN /\ refcounts' = Incref(home[g])
            /\ wref' = [wref EXCEPT ![g] = @ + 1]
            /\ argpin' = argpin \cup {g}
       ELSE UNCHANGED <<refcounts, wref, argpin>>
    /\ UNCHANGED <<struct, strays, frames, home, crossed, registered, watched,
                   callbacks, cref, deallocs>>

\* The C function returns a reference it owns on g.
ReturnResult(g) ==
    /\ Depth > 0
    /\ Alive(g) /\ cref[g] > 0
    /\ Resolves(home[g]) = g /\ wrapper[g] # "released"
    /\ Reaches(g)
    /\ Consume(g)
    /\ Pop(Unwrapped(home[g]), Unwatched(home[g]), Consumed(g), Reborn(home[g]))
    /\ UNCHANGED <<struct, home, argpin, callbacks, deallocs>>

\* It returns something else, or raises.
ReturnOther ==
    /\ Depth > 0
    /\ Pop(handles, demoted, refcounts, born)
    /\ UNCHANGED <<struct, refcounts, home, wrapper, crossed, argpin, callbacks,
                   cref, wref, deallocs>>

----------------------------------------------------------------------------
(* Python code. *)

\* Python calls a method of g: the dispatcher reads the address off the
\* wrapper and binds nothing.
CallMethod(g) ==
    /\ Depth < MaxDepth
    /\ wrapper[g] = "held" /\ Alive(g)
    /\ frames' = Append(frames, g)
    /\ UNCHANGED <<struct, handles, refcounts, demoted, born, strays, home, wrapper,
                   crossed, argpin, registered, watched, callbacks, cref, wref, deallocs>>

\* Python passes g to a C function: wrap binds it again.
CallWith(g) ==
    LET p == home[g] IN
    /\ Depth < MaxDepth
    /\ wrapper[g] = "held" /\ Alive(g) /\ ~Bound(p)
    /\ frames' = Append(frames, g)
    /\ handles' = [handles EXCEPT ![p] = g]
    /\ demoted' = [demoted EXCEPT ![p] = None]
    /\ born' = IF demoted[p] # None THEN Track(p, Depth + 1) ELSE born
    /\ UNCHANGED <<struct, refcounts, strays, home, wrapper, crossed, argpin,
                   registered, watched, callbacks, cref, wref, deallocs>>

\* Python drops its last reference and nothing sees it.
Drop(g) ==
    /\ wrapper[g] = "held"
    /\ wrapper' = [wrapper EXCEPT ![g] = "dropped"]
    /\ UNCHANGED <<struct, handles, refcounts, demoted, born, strays, frames, home,
                   crossed, argpin, registered, watched, callbacks, cref, wref, deallocs>>

\* releaseSole's guard, and after_unbind's.
Sole(p) == refcounts[p] = 1

\* releaseSole of the instances of S, which a mark proved unreachable.
ReleaseSole(S) ==
    /\ IF \A g \in S : refcounts[home[g]] = 1 THEN ToZero({home[g] : g \in S})
       ELSE /\ refcounts' = [p \in Ptrs |-> IF \E g \in S : home[g] = p
                                            THEN refcounts[p] - 1 ELSE refcounts[p]]
            /\ UNCHANGED <<struct, handles, demoted, strays, registered, deallocs>>
    /\ wrapper' = [g \in Gen |-> IF g \in S THEN "released" ELSE wrapper[g]]
    /\ wref' = [g \in Gen |-> IF g \in S /\ wref[g] > 0 THEN wref[g] - 1 ELSE wref[g]]

\* `del` of the last name: what the count calls the wrapper's own is freed.
Del(g) ==
    /\ wrapper[g] = "held" /\ Alive(g)
    /\ Sole(home[g])
    /\ ReleaseSole({g})
    /\ UNCHANGED <<born, frames, home, crossed, argpin, watched, callbacks, cref>>

\* Mutant of Reclaimable: a count of 1 is the wrapper's.
ReclaimableUncrossed(g) ==
    /\ wrapper[g] = "dropped" /\ Alive(g) /\ handles[home[g]] = g
    /\ refcounts[home[g]] = 1

\* What $wasthon_reclaim collects: bound instances the mark does not reach,
\* whose only reference was handed to the wrapper.
Reclaimable(g) ==
    /\ wrapper[g] = "dropped" /\ Alive(g) /\ handles[home[g]] = g
    /\ refcounts[home[g]] = 1
    /\ g \in crossed

Reclaim ==
    /\ Depth = 0
    /\ \E g \in Gen : Reclaimable(g)
    /\ ReleaseSole({g \in Gen : Reclaimable(g)})
    /\ UNCHANGED <<born, frames, home, crossed, argpin, watched, callbacks, cref>>

\* gc.collect() closes an instance of a finalizable type its bounded scan did
\* not find, which proves nothing: Python, or C, may still hold it.  It closes
\* one once (gcRegistry), and a released wrapper no longer has its address.
GcFinalize(g) ==
    /\ Alive(g) /\ handles[home[g]] = g /\ wrapper[g] # "released"
    /\ deallocs[g] = 0
    /\ GcDel({home[g]}, TRUE)
    /\ UNCHANGED <<born, strays, frames, home, wrapper, crossed, argpin, watched,
                   callbacks, cref, wref>>

----------------------------------------------------------------------------
(* The JavaScript engine, between two jobs. *)

\* It collects a wrapper nothing holds.
Collect(g) ==
    /\ Depth = 0
    /\ wrapper[g] \in {"dropped", "released"}
    /\ \A p \in Ptrs : handles[p] # g
    /\ wrapper' = [wrapper EXCEPT ![g] = "collected"]
    /\ registered' = registered \ {g}
    /\ callbacks' = IF g \in registered THEN callbacks \cup {g} ELSE callbacks
    /\ UNCHANGED <<struct, handles, refcounts, demoted, born, strays, frames, home,
                   crossed, argpin, watched, cref, wref, deallocs>>

\* Bound again since, or freed by then.
Stale(p) == demoted[p] = None

\* _reclaimDead: the callback frees the struct at the address it was
\* registered with, if that is still watched and its count is still 1.
Callback(g) ==
    LET p == home[g] IN
    /\ Depth = 0
    /\ g \in callbacks
    /\ callbacks' = callbacks \ {g}
    /\ IF ~Stale(p) /\ refcounts[p] = 1
       THEN /\ refcounts' = [refcounts EXCEPT ![p] = 0]
            /\ demoted' = [demoted EXCEPT ![p] = None]
            /\ handles' = [handles EXCEPT ![p] = None]
            /\ struct' = [struct EXCEPT ![p] = None]
            /\ deallocs' = [k \in Gen |-> IF struct[p] = k THEN deallocs[k] + 1
                                          ELSE deallocs[k]]
            /\ wref' = [wref EXCEPT ![g] = 0]
       ELSE /\ demoted' = [demoted EXCEPT ![p] = None]
            /\ UNCHANGED <<refcounts, handles, struct, deallocs, wref>>
    /\ UNCHANGED <<born, strays, frames, home, wrapper, crossed, argpin, registered,
                   watched, cref>>

----------------------------------------------------------------------------
(* The specification. *)

Next ==
    \/ ReturnOther
    \/ Reclaim
    \/ \E g \in Gen :
        \/ \E p \in Ptrs : New(g, p)
        \/ PyIncref(g) \/ PyDecref(g) \/ Use(g)
        \/ StoreItem(g) \/ StealItem(g) \/ CallPython(g) \/ ReturnResult(g)
        \/ CallMethod(g) \/ CallWith(g)
        \/ Drop(g) \/ Del(g) \/ GcFinalize(g)
        \/ Collect(g) \/ Callback(g)

Spec == Init /\ [][Next]_vars

\* A C call makes finitely many nested calls and returns, at every depth; the
\* host calls $wasthon_reclaim again and again, when no C call runs.
ReturnsFrom(d) == Depth = d /\ (ReturnOther \/ \E g \in Gen : ReturnResult(g))
FairSpec == /\ Spec
            /\ \A d \in 1..MaxDepth : SF_vars(ReturnsFrom(d))
            /\ SF_vars(Reclaim)

----------------------------------------------------------------------------
(* Properties. *)

\* Every table keeps its type; addresses are tracked and handed to a scope only
\* while a C call runs.
TypeOK ==
    /\ struct \in [Ptrs -> Gen \cup {None}]
    /\ handles \in [Ptrs -> Gen \cup {None}]
    /\ refcounts \in [Ptrs -> Nat]
    /\ demoted \in [Ptrs -> Gen \cup {None}]
    /\ born \subseteq Ptrs /\ (Depth = 0 => born = {})
    /\ strays \in [Ptrs -> 0..Depth]
    /\ frames \in Seq(Gen) /\ Depth <= MaxDepth
    /\ home \in [Gen -> Ptrs \cup {None}]
    /\ wrapper \in [Gen -> WrapperState]
    /\ crossed \subseteq Gen /\ argpin \subseteq Gen
    /\ registered \subseteq watched /\ watched \subseteq Gen /\ callbacks \subseteq watched
    /\ cref \in [Gen -> 0..MaxRefs]
    /\ wref \in [Gen -> 0..(MaxStores + 2)]
    /\ deallocs \in [Gen -> Nat]

\* Nothing finalized it and Python still can reach it or never had it: the
\* bridge has not closed the instance.
Open(g) == Alive(g) /\ deallocs[g] = 0

\* refcounts is exact: the count of an open instance is what C owns plus what
\* the wrapper and its containers own.  consumeResultRef decides by
\* $wasthon_py which of the two a returned reference goes to.
CountIsOwners ==
    \A g \in Gen : Open(g) /\ wrapper[g] # "released"
                      => refcounts[home[g]] = cref[g] + wref[g]

\* Whatever del, gc.collect() and the collections between tests free, C never
\* owns a reference on a struct that is gone.
OwnedAlive == \A g \in Gen : cref[g] > 0 => Alive(g)

\* A wrapper Python reaches always has its struct: no count, no collection and
\* no registry callback frees it first.
HeldAlive == \A g \in Gen : wrapper[g] = "held" => Alive(g)

\* tp_dealloc runs at most once on an instance, and no struct is freed without.
DeallocOnce ==
    \A g \in Gen : /\ deallocs[g] <= 1
                   /\ wrapper[g] # "unborn" /\ ~Alive(g) => deallocs[g] = 1

\* The table never binds an address to the wrapper of another instance than
\* the one whose struct is there: a reused address does not inherit a binding.
BindingMatchesStruct == \A p \in Ptrs : Bound(p) => struct[p] = handles[p]

\* A registry callback frees the struct it was registered for, never the one
\* malloc has put at the same address since.
CallbackOwnStruct ==
    [][\A g \in Gen : Callback(g)
        => \A p \in Ptrs : struct'[p] # struct[p] => struct[p] = g]_vars

\* Garbage: handed to Python, dropped by it, owned by nothing else, not closed.
Garbage(g) == /\ g \in crossed /\ wrapper[g] = "dropped" /\ Open(g)
              /\ cref[g] = 0 /\ wref[g] = 1

\* Garbage is freed in the end, if the host keeps collecting between tests.
Reclaimed == \A g \in Gen : Garbage(g) ~> ~Garbage(g)

=============================================================================
