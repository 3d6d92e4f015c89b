---------------------------- MODULE MCInstances ----------------------------
(* Instances on a small heap. *)
EXTENDS Instances, TLC

CONSTANTS p1, p2

OneAddress == {p1}
TwoAddresses == {p1, p2}
Addresses == Permutations(Ptrs)

=============================================================================
