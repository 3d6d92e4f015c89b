------------------------------ MODULE MCBuffers ------------------------------
(* One object of each kind, two views, blocks enough for all.  States that    *)
(* differ only in which block is which are one state.                         *)
EXTENDS Buffers, TLC

CONSTANTS v1, v2

\* What a block holds, who else has it: all but its name.
At(m) == IF m \in DOMAIN heap THEN heap[m] ELSE None

Shape ==
    <<source, made, truth, cstrSize, bufLen, borrowed, Cardinality(DOMAIN heap),
      [o \in Bytes |-> At(cstr[o])], [o \in Arrays |-> At(item[o])],
      [o \in Objects |-> <<At(bufOf[o]), bufOf[o] \in owned>>],
      [s \in Slots |->
        IF views[s] = None THEN None
        ELSE LET m == views[s].buf
             IN  <<[views[s] EXCEPT !.buf = At(m)],
                   {o \in Objects : bufOf[o] = m}, {o \in Arrays : item[o] = m},
                   {t \in Slots : views[t] # None /\ views[t].buf = m}>>]>>

Symmetry == Permutations(Slots)

=============================================================================
