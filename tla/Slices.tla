-------------------------------- MODULE Slices --------------------------------
(***************************************************************************)
(* The items a C function visits for a slice: PySlice_Unpack followed by   *)
(* PySlice_AdjustIndices, and PySlice_GetIndicesEx over Brython's          *)
(* slice.indices, against what Python says a slice is.                     *)
(***************************************************************************)
EXTENDS Integers, FiniteSets

CONSTANTS SsizeMax,     \* the largest Py_ssize_t: 2^31 - 1 on wasm32
          None

ASSUME SlicesAssumption == SsizeMax \in Nat \ {0} /\ None \notin Int

Least(a, b)    == IF a <= b THEN a ELSE b
Greatest(a, b) == IF a <= b THEN b ELSE a

InSsize(v) == v = None \/ (-SsizeMax - 1 <= v /\ v <= SsizeMax)

(* JavaScript's v | 0, which wraps what does not fit. *)
Wrapped(v) == ((v + SsizeMax + 1) % (2 * SsizeMax + 2)) - SsizeMax - 1

StepOf(s) == IF s.step = None THEN 1 ELSE s.step

Unpacked(s) ==
    LET back == StepOf(s) < 0
    IN  [start |-> IF s.start # None THEN Wrapped(s.start)
                   ELSE IF back THEN SsizeMax ELSE 0,
         stop  |-> IF s.stop # None THEN Wrapped(s.stop)
                   ELSE IF back THEN -SsizeMax - 1 ELSE SsizeMax,
         step  |-> Wrapped(StepOf(s))]

(* Mutant: a bound that is still before the first item is left there. *)
ClampedOnce(v, len, step) ==
    IF v < 0 THEN v + len
    ELSE IF v < len THEN v ELSE IF step < 0 THEN len - 1 ELSE len

(* One bound, from a Py_ssize_t to a place among len items. *)
Clamped(v, len, step) ==
    IF v < 0
    THEN IF v + len >= 0 THEN v + len ELSE IF step < 0 THEN -1 ELSE 0
    ELSE IF v < len THEN v ELSE IF step < 0 THEN len - 1 ELSE len

Count(start, stop, step) ==
    IF step < 0
    THEN IF stop < start THEN ((start - stop - 1) \div (-step)) + 1 ELSE 0
    ELSE IF start < stop THEN ((stop - start - 1) \div step) + 1 ELSE 0

AdjustIndices(len, u) ==
    LET a == Clamped(u.start, len, u.step)
        b == Clamped(u.stop, len, u.step)
    IN  [start |-> a, stop |-> b, step |-> u.step, count |-> Count(a, b, u.step)]

(* Brython's slice.indices. *)
Indices(len, s) ==
    LET k == StepOf(s)
        low(v)  == IF v < 0 THEN Greatest(-1, v + len) ELSE Least(len - 1, v)
        high(v) == LET w == Least(len, v) IN IF w < 0 THEN Greatest(0, w + len) ELSE w
    IN  IF k < 0
        THEN [start |-> IF s.start = None THEN len - 1 ELSE low(s.start),
              stop  |-> IF s.stop = None THEN -1 ELSE low(s.stop), step |-> k]
        ELSE [start |-> IF s.start = None THEN 0 ELSE high(s.start),
              stop  |-> IF s.stop = None THEN len ELSE high(s.stop), step |-> k]

(* -(-x \div y) is the ceiling of x / y, for y > 0. *)
Ceiling(x, y) == IF y > 0 THEN -((-x) \div y) ELSE -(x \div (-y))

GetIndicesEx(len, s) ==
    LET i == Indices(len, s)
    IN  [start |-> Wrapped(i.start), stop |-> Wrapped(i.stop), step |-> Wrapped(i.step),
         count |-> Wrapped(Greatest(0, Ceiling(i.stop - i.start, i.step)))]

-----------------------------------------------------------------------------
(* The places a C loop visits, in order. *)
Visited(r) == [k \in 1..r.count |-> r.start + (k - 1) * r.step]

(* Python's definition: from one bound towards the other, by step. *)
Between(x, len, s) ==
    LET k == StepOf(s)
        at(v) == IF v < 0 THEN v + len ELSE v
        first == IF s.start = None THEN IF k > 0 THEN 0 ELSE len - 1
                 ELSE IF k > 0 THEN Greatest(at(s.start), 0) ELSE Least(at(s.start), len - 1)
        short == s.stop = None \/ (IF k > 0 THEN x < at(s.stop) ELSE x > at(s.stop))
        stride == IF k > 0 THEN k ELSE -k
    IN  /\ IF k > 0 THEN x >= first ELSE x <= first
        /\ short
        /\ (IF k > 0 THEN x - first ELSE first - x) % stride = 0

Selected(len, s) == {x \in 0..(len - 1) : Between(x, len, s)}

Agrees(len, s, r) ==
    /\ {Visited(r)[k] : k \in 1..r.count} = Selected(len, s)
    /\ r.count = Cardinality(Selected(len, s))
=============================================================================
