----------------------------- MODULE MCHandles -----------------------------
(* Handles on a small table: one object and one string compete for the ids   *)
(* 15..17, and malloc may return 16 for a type struct.                       *)
EXTENDS Handles

CONSTANTS o1, s1

Objects == {o1}
Strings == {s1}
Addresses == {16}
Pinned == {o1, s1}
None == {}

=============================================================================
