------------------------------ MODULE MCCalls ------------------------------
(* Calls with one error besides the guard's own, and a guard of one. *)
EXTENDS Calls

CONSTANT e1

SomeErrors == {e1}

=============================================================================
