------------------------------- MODULE MCDbm -------------------------------
(* Two objects on one name, blocks of two bytes, values of up to two blocks. *)
EXTENDS Dbm, TLC

CONSTANTS h1, h2, k1, k2

SomeValues == {<<1>>, <<2, 2, 2>>}
Symmetry == Permutations({h1, h2}) \cup Permutations({k1, k2})

=============================================================================
