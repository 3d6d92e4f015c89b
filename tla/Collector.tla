----------------------------- MODULE Collector -----------------------------
(***************************************************************************)
(* `del`, gc.collect() and the collection between tests (src/src/          *)
(* wasthon.js, 781-1550): who is dead, in a heap that has no counts.       *)
(*                                                                         *)
(* Python objects hold each other; the bridge answers from that graph.  A  *)
(* quick walk sees what the live frames reach; the mark sees the modules'  *)
(* containers too.  `del name` runs __del__ at once on what the quick walk *)
(* does not find, and parks the rest; a settle marks what may have died,   *)
(* runs the finalizers, marks again, clears the weak references and frees  *)
(* the structs; $wasthon_reclaim frees every instance nobody reaches.      *)
(*                                                                         *)
(* __del__ and the weak references' callbacks are Python: they run in the  *)
(* middle of a settle and may bind, delete, collect.  jobs is the stack of *)
(* what is under way.  The walks finish within their bounds.               *)
(***************************************************************************)
EXTENDS Integers, FiniteSets, Sequences, SequencesExt

CONSTANTS
    Objs,               \* the program's objects
    Insts,              \* those of them that are C instances
    Dels,               \* those whose class defines __del__
    Owns,               \* what an instance's struct counts a reference to
    Nobody,             \* no object
    MayName,            \* bound: the objects that names are bound to
    MayHold,            \* bound: the attributes Python sets, as pairs
    MayKeep,            \* bound: the objects that modules keep
    MayCount,           \* bound: the objects that C counts
    MaxJobs,            \* bound: nesting of settles and the Python code they run
    MaxWait,            \* the longest backoff (1024)
    CallbacksRun,       \* TRUE: a weak reference's callback does something
    FinalizersRaise     \* TRUE: a __del__ that a settle runs may raise

ASSUME CollectorAssumption ==
    /\ IsFiniteSet(Objs)
    /\ Insts \subseteq Objs /\ Dels \subseteq Objs /\ Nobody \notin Objs
    /\ Owns \in [Insts -> SUBSET Objs]
    /\ MayName \subseteq Objs /\ MayHold \subseteq Objs \X Objs /\ MayKeep \subseteq Objs
    /\ MayCount \subseteq Objs
    /\ MaxJobs \in Nat /\ MaxWait \in Nat \ {0}
    /\ CallbacksRun \in BOOLEAN /\ FinalizersRaise \in BOOLEAN

VARIABLES
    near,           \* what the frames' names are bound to
    far,            \* what the modules' containers hold
    cheld,          \* what C counts a reference on
    holds,          \* the attributes and items of each object
    weak,           \* weakRegistry: the instances with weak references
    released,       \* the instances whose struct is freed
    pendingDel,     \* deleted, with a __del__ still to run
    pendingWeak,    \* deleted, with weak references still to clear
    wait, skip,     \* _backoff: how long to wait, how many settles are left
    judged,         \* _judgedDead
    changed,        \* a root of the collection went away since it marked
    jobs            \* what is under way, the innermost last

graph == <<near, far, cheld, holds>>
vars == <<graph, weak, released, pendingDel, pendingWeak, wait, skip, judged,
          changed, jobs>>

\* obj: whom it is about; todo, rest: what it has still to look at, now and
\* later; ran: a finalizer ran (settle), a struct went (reclaim).
Job(k, o, t, r) == [kind |-> k, obj |-> o, todo |-> t, rest |-> r, ran |-> FALSE]

Top == Last(jobs)
Replaced(stack, job) == [stack EXCEPT ![Len(stack)] = job]
Doing(k) == jobs # <<>> /\ Top.kind = k
Room == Len(jobs) < MaxJobs
Reclaiming == jobs # <<>> /\ Head(jobs).kind = "reclaim"

Init ==
    /\ near = MayName /\ far = {} /\ cheld = {}
    /\ holds = [o \in Objs |-> {}]
    /\ weak = {} /\ released = {}
    /\ pendingDel = {} /\ pendingWeak = {}
    /\ wait = [o \in Objs |-> 0] /\ skip = [o \in Objs |-> 0]
    /\ judged = Nobody /\ changed = FALSE
    /\ jobs = <<>>

----------------------------------------------------------------------------
(* The graph. *)

Struct(o) == o \in Insts \ released

\* What each holds: its own properties, and what its tp_traverse reports.
Edges == [o \in Objs |-> holds[o] \cup (IF Struct(o) THEN Owns[o] ELSE {})]

\* All that R reaches along E: what is in every set with R that has all that its
\* members hold.
ReachAlong(R, E) ==
    LET closed == {S \in SUBSET Objs : R \subseteq S /\ \A q \in S : E[q] \subseteq S}
    IN  {o \in Objs : \A S \in closed : o \in S}

Reach(R) == ReachAlong(R, Edges)

\* The self of a __del__ that runs is a name of its frame.
LocalsOf(stack) ==
    {stack[d].obj : d \in {e \in DOMAIN stack : stack[e].kind \in {"del", "finalizer"}}}
Names == near \cup LocalsOf(jobs)
Roots == Names \cup far

InCycle(o) == o \in Reach(Edges[o])
FeedsCycle(o) == \E q \in Reach(Edges[o]) : InCycle(q)

\* An instance's count: its wrapper's reference, C's and the structs'.
Count(i) == 1 + (IF i \in cheld THEN 1 ELSE 0)
              + Cardinality({j \in Insts \ released : i \in Owns[j]})
Sole(o) == Struct(o) /\ Count(o) = 1

\* An object that is no instance, and that C has a handle of.
Handled(o, structs) == o \notin Insts /\ (o \in cheld \/ \E j \in structs : o \in Owns[j])

----------------------------------------------------------------------------
(* Settling. *)

\* The wait of an object the mark found alive doubles.  Mutant: without end.
LongerUncapped(w) == IF w = 0 THEN 1 ELSE 2 * w
Longer(w) == IF w = 0 THEN 1 ELSE IF 2 * w > MaxWait THEN MaxWait ELSE 2 * w

Ticked(o) == IF skip[o] > 0 THEN skip[o] - 1 ELSE 0

\* The parked objects a settle asks about, names being the frames' names.
\* Mutant: cycles wait for ever.
ReadyAcyclic(names, collecting) ==
    {o \in pendingDel \cup pendingWeak : Ticked(o) = 0 /\ o \notin Reach(names)
        /\ ~InCycle(o) /\ collecting \in BOOLEAN}
Ready(names, collecting) ==
    {o \in pendingDel \cup pendingWeak :
        /\ Ticked(o) = 0
        /\ o \notin Reach(names)
        /\ collecting \/ ~InCycle(o)}

\* _settle, up to its first mark: cands may have died; those the mark finds are
\* left alone for a while.
Settle(stack, names, cands) ==
    LET live == cands \cap Reach(names \cup far)
        dead == cands \ live
    IN  /\ wait' = [o \in Objs |-> IF o \in live THEN Longer(wait[o]) ELSE wait[o]]
        /\ skip' = [o \in Objs |-> IF o \in live THEN Longer(wait[o]) ELSE Ticked(o)]
        /\ jobs' = Append(stack, Job("settle", Nobody, dead \cap pendingDel, dead))

\* $wasthon_after_unbind: a name of o is gone.
AfterUnbind(stack, names, o) ==
    LET pending == pendingDel \cup pendingWeak # {}
        weakHere == Struct(o) /\ o \in weak
        trigger == IF weakHere \/ Sole(o) THEN {o} ELSE {}
        held == judged # o /\ (o \in Reach(names) \/ InCycle(o))
    IN  IF trigger = {} /\ ~pending
        THEN jobs' = stack /\ UNCHANGED <<pendingWeak, wait, skip, judged>>
        ELSE /\ judged' = Nobody
             /\ IF held
                THEN /\ pendingWeak' = pendingWeak \cup (IF weakHere THEN {o} ELSE {})
                     /\ jobs' = stack
                     /\ UNCHANGED <<wait, skip>>
                ELSE /\ Settle(stack, names,
                               trigger \cup (IF pending /\ ~FeedsCycle(o)
                                             THEN Ready(names, FALSE) ELSE {}))
                     /\ UNCHANGED pendingWeak

----------------------------------------------------------------------------
(* Python code, of the program, of a __del__ or of a callback. *)

Runs == \/ jobs = <<>>
        \/ Doing("del")
        \/ Doing("finalizer")
        \/ Doing("callback") /\ CallbacksRun

\* What the running code can name, and what it can get from a weak reference.
Visible == Reach(Roots)

Bind ==
    /\ Runs
    /\ \E o \in (MayName \cap (Visible \cup (weak \ released))) \ near :
        near' = near \cup {o}
    /\ UNCHANGED <<far, cheld, holds, weak, released, pendingDel, pendingWeak, wait,
                   skip, judged, changed, jobs>>

\* A name is bound to something else, or its frame is left.
Rebind ==
    /\ Runs
    /\ \E o \in near : near' = near \ {o}
    /\ UNCHANGED <<far, cheld, holds, weak, released, pendingDel, pendingWeak, wait,
                   skip, judged, changed, jobs>>

\* A module's container takes an object in, or lets go of it.
Keep ==
    /\ Runs
    /\ \/ \E o \in (MayKeep \cap Visible) \ far : far' = far \cup {o}
       \/ \E o \in far : far' = far \ {o}
    /\ UNCHANGED <<near, cheld, holds, weak, released, pendingDel, pendingWeak, wait,
                   skip, judged, changed, jobs>>

\* An attribute is set or deleted.
SetAttr ==
    /\ Runs
    /\ LET seen == Visible
       IN  \E e \in MayHold :
             /\ e[1] \in seen /\ e[2] \in seen
             /\ holds' = [holds EXCEPT ![e[1]] = IF e[2] \in @ THEN @ \ {e[2]}
                                                               ELSE @ \cup {e[2]}]
    /\ UNCHANGED <<near, far, cheld, weak, released, pendingDel, pendingWeak, wait,
                   skip, judged, changed, jobs>>

\* C takes a reference.
CHold ==
    /\ Runs
    /\ \E o \in (MayCount \cap Visible) \ (cheld \cup released) : cheld' = cheld \cup {o}
    /\ UNCHANGED <<near, far, holds, weak, released, pendingDel, pendingWeak, wait,
                   skip, judged, changed, jobs>>

\* It drops one: that may leave a count of one, or take a handle.
CDrop ==
    /\ Runs
    /\ \E o \in cheld :
        LET owned == \E j \in Insts \ released : o \in Owns[j]
        IN  /\ cheld' = cheld \ {o}
            /\ changed' = (changed \/ (Reclaiming /\ IF o \in Insts THEN Count(o) = 2
                                                    ELSE ~owned))
    /\ UNCHANGED <<near, far, holds, weak, released, pendingDel, pendingWeak, wait,
                   skip, judged, jobs>>

\* weakref.ref(o, callback)
WeakRef ==
    /\ Runs
    /\ \E o \in ((Insts \cap Visible) \ released) \ weak : weak' = weak \cup {o}
    /\ UNCHANGED <<graph, released, pendingDel, pendingWeak, wait, skip, judged,
                   changed, jobs>>

\* `del name`, of an object with a __del__: it runs now, or later.
DelFinalizable(o) ==
    /\ Runs /\ Room /\ o \in near \cap Dels
    /\ near' = near \ {o}
    /\ IF o \in Reach((near \ {o}) \cup LocalsOf(jobs)) \/ InCycle(o)
       THEN /\ pendingDel' = pendingDel \cup {o}
            /\ UNCHANGED <<judged, jobs>>
       ELSE /\ pendingDel' = pendingDel \ {o}
            /\ judged' = o
            /\ jobs' = Append(jobs, Job("del", o, {}, {}))
    /\ UNCHANGED <<far, cheld, holds, weak, released, pendingWeak, wait, skip, changed>>

\* `del name`, of any other object.
DelPlain(o) ==
    /\ Runs /\ Room /\ o \in near \ Dels
    /\ near' = near \ {o}
    /\ AfterUnbind(jobs, (near \ {o}) \cup LocalsOf(jobs), o)
    /\ UNCHANGED <<far, cheld, holds, weak, released, pendingDel, changed>>

\* The __del__ that `del name` called returns.
Deleted ==
    /\ Doing("del")
    /\ LET below == Front(jobs)
       IN  AfterUnbind(below, near \cup LocalsOf(below), Top.obj)
    /\ UNCHANGED <<graph, weak, released, pendingDel, changed>>

\* A __del__ that a settle called returns; one that raises is ignored, and does
\* not count as run.
Finalized ==
    /\ Doing("finalizer")
    /\ \E returns \in {TRUE, ~FinalizersRaise} :
        LET below == Front(jobs)
        IN  jobs' = Replaced(below, [Last(below) EXCEPT !.ran = @ \/ returns])
    /\ UNCHANGED <<graph, weak, released, pendingDel, pendingWeak, wait, skip, judged,
                   changed>>

\* A __del__ that `del` called raises, and so does the `del`; a callback returns,
\* or raises and is ignored.
Leaves ==
    /\ Doing("del") \/ Doing("callback")
    /\ jobs' = Front(jobs)
    /\ UNCHANGED <<graph, weak, released, pendingDel, pendingWeak, wait, skip, judged,
                   changed>>

----------------------------------------------------------------------------
(* gc.collect(). *)

\* The bounded scan of $wasthon_gc_collect: the frames' names, no structs.
Scanned == ReachAlong(Names, holds)

Collect ==
    /\ Runs /\ Room
    /\ jobs' = Append(jobs, Job("sweep", Nobody, weak \ Scanned, {}))
    /\ UNCHANGED <<graph, weak, released, pendingDel, pendingWeak, wait, skip, judged,
                   changed>>

SweepOne(o) ==
    /\ Doing("sweep") /\ o \in Top.todo
    /\ LET now == Replaced(jobs, [Top EXCEPT !.todo = @ \ {o}])
       IN  jobs' = IF o \in weak THEN Append(now, Job("callback", o, {}, {})) ELSE now
    /\ weak' = weak \ {o}
    /\ UNCHANGED <<graph, released, pendingDel, pendingWeak, wait, skip, judged, changed>>

\* $wasthon_drain_pending.
Drain ==
    /\ Doing("sweep") /\ Top.todo = {}
    /\ Settle(Front(jobs), Names, Ready(Names, TRUE))
    /\ UNCHANGED <<graph, weak, released, pendingDel, pendingWeak, judged, changed>>

----------------------------------------------------------------------------
(* The rest of a settle. *)

\* The next __del__, unless another settle has run it.
Finalize(o) ==
    /\ Doing("settle") /\ o \in Top.todo
    /\ LET now == Replaced(jobs, [Top EXCEPT !.todo = @ \ {o}])
       IN  jobs' = IF o \in pendingDel THEN Append(now, Job("finalizer", o, {}, {}))
                                       ELSE now
    /\ pendingDel' = pendingDel \ {o}
    /\ UNCHANGED <<graph, weak, released, pendingWeak, wait, skip, judged, changed>>

\* What is still dead once the finalizers ran.  Mutant: the first mark decides.
StillDeadFirst(dead, ran) == IF ran THEN dead ELSE dead
StillDead(dead, ran) == IF ran THEN dead \ Reach(Roots) ELSE dead

MarkAgain ==
    /\ Doing("settle") /\ Top.todo = {}
    /\ jobs' = Append(Front(jobs), Job("free", Nobody, StillDead(Top.rest, Top.ran), {}))
    /\ UNCHANGED <<graph, weak, released, pendingDel, pendingWeak, wait, skip, judged,
                   changed>>

\* Freeing: the weak references first, then the struct.
Clear(o) ==
    /\ Doing("free") \/ Doing("reclaim")
    /\ Top.obj = Nobody /\ o \in Top.todo
    /\ LET sweeps == Doing("free") \/ Sole(o)
           cells == Struct(o) /\ o \in weak /\ sweeps
           now == Replaced(jobs, [Top EXCEPT !.todo = @ \ {o},
                                             !.obj = IF sweeps THEN o ELSE @,
                                             !.rest = IF sweeps \/ ~Struct(o) THEN @
                                                      ELSE @ \cup {o}])
       IN  /\ jobs' = IF cells THEN Append(now, Job("callback", o, {}, {})) ELSE now
           /\ weak' = IF cells THEN weak \ {o} ELSE weak
    /\ pendingWeak' = IF Doing("free") THEN pendingWeak \ {o} ELSE pendingWeak
    /\ UNCHANGED <<graph, released, pendingDel, wait, skip, judged, changed>>

\* Its tp_dealloc drops what the struct counts: a root goes when that leaves a
\* count at exactly 1, or takes a handle.  Mutant: handles alone are looked at.
RootGoesHandles(o) == \E q \in Owns[o] : Handled(q, {o})
RootGoes(o) ==
    \/ \E q \in (Owns[o] \cap Insts) \ released : Count(q) = 2
    \/ \E q \in Owns[o] : Handled(q, {o}) /\ ~Handled(q, Insts \ (released \cup {o}))

\* releaseSole.
Release ==
    /\ Doing("free") \/ Doing("reclaim")
    /\ Top.obj # Nobody
    /\ LET goes == Sole(Top.obj)
       IN  /\ released' = IF goes THEN released \cup {Top.obj} ELSE released
           /\ changed' = (changed \/ (Reclaiming /\ goes /\ RootGoes(Top.obj)))
           /\ jobs' = Replaced(jobs, [Top EXCEPT !.obj = Nobody, !.ran = @ \/ goes])
    /\ UNCHANGED <<graph, weak, pendingDel, pendingWeak, wait, skip, judged>>

Freed ==
    /\ Doing("free") /\ Top.todo = {} /\ Top.obj = Nobody
    /\ jobs' = Front(jobs)
    /\ UNCHANGED <<graph, weak, released, pendingDel, pendingWeak, wait, skip, judged,
                   changed>>

----------------------------------------------------------------------------
(* $wasthon_reclaim, between two tests. *)

\* What only its wrapper owns; the rest of the handle tables is C's.
Candidates == {i \in Insts : Sole(i)}

\* What C holds of the handle tables.
HeldByC == {o \in Objs : Handled(o, Insts \ released) \/ (Struct(o) /\ ~Sole(o))}

\* Roots of the collection.  Mutant: what waits for its __del__ is none.
CRootsNoPending == Roots \cup HeldByC
CRoots == Roots \cup HeldByC \cup pendingDel \cup pendingWeak

\* Those with a __del__ are left to their `del`.
Garbage == Candidates \ (Reach(CRoots) \cup Dels)

Reclaim ==
    /\ jobs = <<>> /\ Room
    /\ jobs' = <<Job("reclaim", Nobody, Garbage, {})>>
    /\ changed' = FALSE
    /\ UNCHANGED <<graph, weak, released, pendingDel, pendingWeak, wait, skip, judged>>

\* A round ends: another one if it freed something and left something, another
\* pass if a root went, or the end.
NextRound ==
    /\ Doing("reclaim") /\ Top.todo = {} /\ Top.obj = Nobody
    /\ IF Top.rest # {} /\ Top.ran
       THEN /\ jobs' = <<Job("reclaim", Nobody, Top.rest, {})>>
            /\ UNCHANGED changed
       ELSE IF changed
       THEN /\ jobs' = <<Job("reclaim", Nobody, Garbage, {})>>
            /\ changed' = FALSE
       ELSE jobs' = <<>> /\ UNCHANGED changed
    /\ UNCHANGED <<graph, weak, released, pendingDel, pendingWeak, wait, skip, judged>>

Step ==
    \/ Deleted \/ Finalized \/ Leaves \/ Drain \/ MarkAgain \/ Release \/ Freed \/ NextRound
    \/ \E o \in Objs : SweepOne(o) \/ Finalize(o) \/ Clear(o)

Next ==
    \/ Step \/ Collect \/ Reclaim
    \/ Bind \/ Rebind \/ Keep \/ SetAttr \/ CHold \/ CDrop \/ WeakRef
    \/ \E o \in Objs : DelFinalizable(o) \/ DelPlain(o)

Spec == Init /\ [][Next]_vars

\* What is under way goes on, at each depth, and the program collects again and
\* again when nothing else is.
FairSpec ==
    /\ Spec
    /\ \A d \in 1..(MaxJobs + 2) : SF_vars(Len(jobs) = d /\ Step)
    /\ SF_vars(jobs = <<>> /\ Collect)

----------------------------------------------------------------------------
(* Properties. *)

JobKinds == {"del", "finalizer", "callback", "sweep", "settle", "free", "reclaim"}

\* The tables hold what they are for, and a backoff is no longer than the longest.
TypeOK ==
    /\ near \subseteq MayName /\ far \subseteq MayKeep /\ cheld \subseteq MayCount
    /\ holds \in [Objs -> SUBSET Objs]
    /\ weak \subseteq Insts /\ released \subseteq Insts
    /\ pendingDel \subseteq Dels /\ pendingWeak \subseteq Insts
    /\ wait \in [Objs -> 0..MaxWait] /\ skip \in [Objs -> 0..MaxWait]
    /\ judged \in Objs \cup {Nobody} /\ changed \in BOOLEAN
    /\ jobs \in Seq([kind : JobKinds, obj : Objs \cup {Nobody}, todo : SUBSET Objs,
                     rest : SUBSET Objs, ran : BOOLEAN])

\* "Nothing is freed unless the mark proves it unreachable", at the moment it is
\* freed, whatever the finalizers in between bound; and between tests it is
\* also out of reach of what C holds and of what waits for its __del__.
FreedIsGarbage ==
    [][\A i \in released' \ released :
        i \notin Reach(Roots \cup IF Doing("reclaim") THEN cheld \cup pendingDel ELSE {})]_vars

\* A settle clears the weak references of the dead alone.
ClearedIsGarbage ==
    [][~Doing("sweep") => \A i \in weak \ weak' : i \notin Reach(Roots)]_vars

\* The collection between tests "runs to a fixed point": when it ends, another
\* mark would find nothing.
ReclaimTakesAll == [][Doing("reclaim") /\ jobs' = <<>> => Garbage = {}]_vars

\* What was deleted while something held it is settled once nothing does.
PendingSettles ==
    \A o \in Objs :
        o \in pendingDel \cup pendingWeak
            ~> (o \notin pendingDel \cup pendingWeak \/ o \in Reach(Roots))

\* A parked object is "held strongly, as CPython's refcount would": what its
\* __del__ may still use is not freed.
ParkedKeepsWhatItHolds ==
    [][\A i \in released' \ released : i \notin Reach(pendingDel)]_vars

=============================================================================
