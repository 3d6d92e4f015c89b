------------------------------- MODULE Calls -------------------------------
(***************************************************************************)
(* Calls across the boundary (src/src/wasthon.js): the error C has set and *)
(* nobody has been told of yet (pendingException), and the counter that    *)
(* keeps C's recursion off the end of the wasm stack.                      *)
(*                                                                         *)
(* One thread runs a stack of frames.  Python calls C through a trampoline *)
(* or a slot; C calls Python through an API function; a count that drops   *)
(* to zero, `del`, gc.collect() and the engine's registry run destructors, *)
(* which are C; and the death of an instance calls its weak references'    *)
(* callbacks, which are Python.  An error inside an API function that does *)
(* not catch it unwinds the C frame that called it.                        *)
(*                                                                         *)
(* C keeps CPython's rules: with an error set it calls only what may be    *)
(* called then, a destructor leaves the error it found, and an Enter of    *)
(* the guard has its Leave before the function returns.                    *)
(***************************************************************************)
EXTENDS Integers, Sequences, SequencesExt

CONSTANTS
    Errors,             \* errors C code and Python code raise
    RecursionError,     \* the error of the guard
    None,               \* no error
    Unsaved,            \* no error was fetched
    MaxFrames,          \* bound: nesting of frames
    Cap,                \* the guard's limit (4000)
    WeakReenters,       \* TRUE: a weak reference's callback may call C
    DestructorsThrow,   \* TRUE: an API function may throw through a destructor
                        \* that was started with an error set
    InitRecurses        \* TRUE: a module's initialisation enters the guard

Error == Errors \cup {RecursionError}

ASSUME CallsAssumption ==
    /\ MaxFrames \in Nat /\ Cap \in Nat
    /\ WeakReenters \in BOOLEAN /\ DestructorsThrow \in BOOLEAN
    /\ InitRecurses \in BOOLEAN
    /\ None \notin Error /\ Unsaved \notin Error /\ None # Unsaved

VARIABLES
    frames,     \* the running frames, the innermost last
    pending,    \* pendingException: the error set, None when there is none
    depth       \* _cRecursionDepth

vars == <<frames, pending, depth>>

\* Entered under a scope; init runs without one.
Scoped == {"call", "dealloc", "finalize", "reclaim"}
Destructor == {"dealloc", "finalize", "reclaim"}
InC == Scoped \cup {"init"}
InPython == {"main", "python", "callback"}

\* found: the error set when the frame started; due (ghost): the error that is
\* set by the C-API's rules; saved: what the frame fetched; entered (ghost):
\* its calls of Enter without Leave.
Frame(k, e) == [kind |-> k, found |-> e, due |-> e, saved |-> Unsaved, entered |-> 0]

Top == Last(frames)
Below == Front(frames)
Running == IF frames = <<>> THEN "main" ELSE Top.kind
CRuns == Running \in InC
Room == Len(frames) < MaxFrames

\* Python code that may call into the bridge.
Enters == /\ Running \in InPython /\ Room
          /\ Running = "callback" => WeakReenters

\* The error a frame finds, by the rules.
Due == IF frames = <<>> THEN pending ELSE Top.due

Init == frames = <<>> /\ pending = None /\ depth = 0

\* The running C frame has error e set, or none.
Report(e) == /\ pending' = e
             /\ frames' = [frames EXCEPT ![Len(frames)].due = e]

----------------------------------------------------------------------------
(* Entering C. *)

\* What a trampoline or a slot makes of the error it finds.  Mutant: it stays.
EntryKeeps(e) == IF e = None THEN None ELSE e
Entry(e) == IF e = None THEN e ELSE None

\* Python calls a C function or a slot.
Call ==
    /\ Enters
    /\ frames' = Append(frames, Frame("call", None))
    /\ pending' = Entry(pending)
    /\ UNCHANGED depth

\* The loader runs a module's PyInit and exec slots, with no scope.
LoadModule ==
    /\ frames = <<>> /\ Room
    /\ frames' = <<Frame("init", Due)>>
    /\ UNCHANGED <<pending, depth>>

\* A destructor runs: of C's own decref or of a `del`.
Dealloc ==
    /\ Room
    /\ CRuns \/ Enters
    /\ frames' = Append(frames, Frame("dealloc", Due))
    /\ UNCHANGED <<pending, depth>>

\* gc.collect() closes an instance.
GcFinalize ==
    /\ Enters
    /\ frames' = Append(frames, Frame("finalize", Due))
    /\ UNCHANGED <<pending, depth>>

\* The registry's callback, in a job of its own.
ReclaimDead ==
    /\ frames = <<>> /\ Room
    /\ frames' = <<Frame("reclaim", Due)>>
    /\ UNCHANGED <<pending, depth>>

----------------------------------------------------------------------------
(* C code. *)

\* PyErr_SetString, SetObject, Format, SetNone, _PyErr_FormatFromCause: the
\* new error replaces the one that is set.
SetError ==
    /\ CRuns
    /\ \E e \in Errors : Report(e)
    /\ UNCHANGED depth

Clear == CRuns /\ Report(None) /\ UNCHANGED depth

\* PyErr_Fetch, PyErr_GetRaisedException.
Fetch ==
    /\ CRuns /\ Top.saved = Unsaved
    /\ pending' = None
    /\ frames' = [frames EXCEPT ![Len(frames)].saved = pending,
                                ![Len(frames)].due = None]
    /\ UNCHANGED depth

\* PyErr_Restore, PyErr_SetRaisedException.
Restore ==
    /\ CRuns /\ Top.saved # Unsaved
    /\ pending' = Top.saved
    /\ frames' = [frames EXCEPT ![Len(frames)].saved = Unsaved,
                                ![Len(frames)].due = Top.saved]
    /\ UNCHANGED depth

\* _PyErr_ChainExceptions1: the error set since stays, with the saved one as
\* its context.
Chain ==
    /\ CRuns /\ Top.saved # Unsaved
    /\ pending' = IF pending # None THEN pending ELSE Top.saved
    /\ frames' = [frames EXCEPT ![Len(frames)].saved = Unsaved,
                                ![Len(frames)].due = IF @ # None THEN @ ELSE Top.saved]
    /\ UNCHANGED depth

Guards == CRuns /\ Top.due = None /\ (Top.kind = "init" => InitRecurses)

\* The guard lets C go one call deeper.  Mutant: it tests before it counts.
WithinOne(d) == d - 1 < Cap
Within(d) == d < Cap

\* Py_EnterRecursiveCall counts and succeeds, or sets the error.
EnterRecursiveCall ==
    /\ Guards
    /\ IF Within(depth)
       THEN /\ depth' = depth + 1
            /\ frames' = [frames EXCEPT ![Len(frames)].entered = @ + 1]
            /\ UNCHANGED pending
       ELSE Report(RecursionError) /\ UNCHANGED depth

LeaveRecursiveCall ==
    /\ CRuns /\ Top.entered > 0
    /\ depth' = IF depth > 0 THEN depth - 1 ELSE depth
    /\ frames' = [frames EXCEPT ![Len(frames)].entered = @ - 1]
    /\ UNCHANGED pending

\* An API function calls Python code.
CallPython ==
    /\ CRuns /\ Top.due = None /\ Room
    /\ frames' = Append(frames, Frame("python", None))
    /\ UNCHANGED <<pending, depth>>

\* A destructor frees its instance (PyObject_GC_Del): the weak references'
\* callbacks run at once, also with an error set.
CallWeak ==
    /\ Running \in Destructor /\ Room
    /\ Top.due \in {None, Top.found}
    /\ frames' = Append(frames, Frame("callback", Top.due))
    /\ UNCHANGED <<pending, depth>>

----------------------------------------------------------------------------
(* Leaving C. *)

NoScope(stack) == \A d \in DOMAIN stack : stack[d].kind \notin Scoped

\* The guard when a scope closes over the frames of stack.  Mutants: it is
\* reset by every scope; by none.
DepthAfterAlways(stack) == IF stack = stack THEN 0 ELSE depth
DepthAfterNever(stack) == IF stack = stack THEN depth ELSE 0
DepthAfter(stack) == IF NoScope(stack) THEN 0 ELSE depth

\* What a trampoline leaves set when it throws.  Mutant: what it threw.
ThrownKept(e) == e
Thrown(e) == IF e = None THEN e ELSE None

\* The error that is set once the frame f is gone: a trampoline throws it to
\* Python, gc.collect() drops it, the registry puts back what it found.
Left(f) ==
    CASE f.kind = "call" -> Thrown(pending)
      [] f.kind = "finalize" -> None
      [] f.kind = "reclaim" -> f.found
      [] OTHER -> pending

Leave ==
    /\ frames' = Below
    /\ depth' = IF Top.kind \in Scoped THEN DepthAfter(Below) ELSE depth

\* The C function returns a result, or NULL with its error set.
Return ==
    /\ CRuns /\ Top.entered = 0 /\ Top.saved = Unsaved
    /\ Top.kind \in Destructor => Top.due = Top.found
    /\ Leave
    /\ pending' = Left(Top)

\* An API function throws: no Leave, no Restore; what runs the destructors
\* swallows it, a trampoline does not look at pendingException.
Unwind ==
    /\ CRuns /\ Top.due = None
    /\ Running \in Destructor => Top.found = None \/ DestructorsThrow
    /\ Leave
    /\ pending' = IF Top.kind = "call" THEN pending ELSE Left(Top)

----------------------------------------------------------------------------
(* Python code. *)

PythonReturns ==
    /\ Running \in {"python", "callback"}
    /\ frames' = Below
    /\ UNCHANGED <<pending, depth>>

\* The API function catches what Python code raised and sets it (forwardError).
PythonRaises ==
    /\ Running = "python"
    /\ \E e \in Errors :
        /\ pending' = e
        /\ frames' = [Below EXCEPT ![Len(Below)].due = e]
    /\ UNCHANGED depth

Next ==
    \/ Call \/ LoadModule \/ Dealloc \/ GcFinalize \/ ReclaimDead
    \/ SetError \/ Clear \/ Fetch \/ Restore \/ Chain
    \/ EnterRecursiveCall \/ LeaveRecursiveCall \/ CallPython \/ CallWeak
    \/ Return \/ Unwind
    \/ PythonReturns \/ PythonRaises

Spec == Init /\ [][Next]_vars

----------------------------------------------------------------------------
(* Properties. *)

\* The frames are well formed and nest within their bound; the counter is in
\* its range.
TypeOK ==
    /\ pending \in Error \cup {None}
    /\ depth \in 0..Cap
    /\ frames \in Seq([kind : InC \cup {"python", "callback"},
                       found : Error \cup {None}, due : Error \cup {None},
                       saved : Error \cup {None, Unsaved}, entered : Nat])
    /\ Len(frames) <= MaxFrames

\* A C function finds set exactly the error it set, fetched back or was told
\* of, whatever ran in between: destructors, Python code, other C functions.
\* What the trampoline throws is therefore the function's own error.
ErrorIsDue == CRuns => pending = Top.due

\* Python code that C called never runs with an error set, so that no later
\* call mistakes it for its own.
PythonIsClean == Running = "python" => pending = None

\* total: what the calls of Enter without Leave add up to, frame by frame.
Totals(total) ==
    total[0] = 0 /\ \A d \in DOMAIN frames : total[d] = total[d - 1] + frames[d].entered

\* C's live recursion, over all the frames, never exceeds the guard's limit:
\* "the wasm one must never win".
StackBounded == \E total \in [0..Len(frames) -> 0..Cap] : Totals(total)

\* "a drifted counter must not poison later calls": with no C frame running,
\* the guard is at zero, whatever unwinds skipped.
NotPoisoned == (\A d \in DOMAIN frames : frames[d].kind \notin InC) => depth = 0

=============================================================================
