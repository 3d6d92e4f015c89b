---------------------------- MODULE MCCollector ----------------------------
(* A heap of one object with a __del__ and one or two instances.            *)
EXTENDS Collector

CONSTANTS x, a, b

Heap == {x, a, b}
Instances == {a, b}
Finalizable == {x}

\* a is a view of b.
View == [i \in Instances |-> IF i = a THEN {b} ELSE {}]

Named == {x, a}

\* Cycles through x, and an instance x uses.
Attributes == {<<x, x>>, <<x, a>>}
Kept == {x}

\* A smaller heap, of x and one instance.
SmallHeap == {x, a}
One == {a}
Alone == [i \in One |-> {}]
None == {}

=============================================================================
