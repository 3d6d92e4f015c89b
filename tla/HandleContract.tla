--------------------------- MODULE HandleContract ---------------------------
(***************************************************************************)
(* What the handle table promises C code, without scopes, counts or id     *)
(* allocation: a PyObject* names one object from the moment C is given it  *)
(* until C has dropped every reference it owns on it, an object has one    *)
(* PyObject* at a time, and what is held for ever is never taken back.     *)
(***************************************************************************)
EXTENDS Naturals

CONSTANTS
    Handle,     \* the values a PyObject* takes
    Objs,       \* objects C compares by address
    Prims,      \* values without identity
    Nil         \* a handle that names nothing

VARIABLES
    names,      \* handle -> the object it names
    owned,      \* handle -> references C owns on it
    forever     \* handles that are never taken back

cvars == <<names, owned, forever>>

CInit ==
    /\ names = [h \in Handle |-> Nil]
    /\ owned = [h \in Handle |-> 0]
    /\ forever = {}

\* C is given a handle for v that named nothing, perhaps with a reference.
Grant(h, v) ==
    /\ names[h] = Nil
    /\ v \in Objs => \A g \in Handle : names[g] # v
    /\ names' = [names EXCEPT ![h] = v]
    /\ owned' = owned \/ owned' = [owned EXCEPT ![h] = 1]
    /\ forever' = forever \/ forever' = forever \cup {h}

\* C takes a reference on a handle that names something.
Take(h) ==
    /\ names[h] # Nil
    /\ owned' = [owned EXCEPT ![h] = @ + 1]
    /\ UNCHANGED <<names, forever>>

\* The handle will last for ever.
Keep(h) ==
    /\ names[h] # Nil
    /\ forever' = forever \cup {h}
    /\ UNCHANGED <<names, owned>>

\* C drops references; handles it owns no reference on may be taken back.
Drop(S) ==
    /\ \A h \in S : owned'[h] = 0 /\ h \notin forever
    /\ \/ owned' = owned
       \/ \E h \in Handle : /\ owned[h] > 0
                            /\ owned' = [owned EXCEPT ![h] = @ - 1]
    /\ names' = [h \in Handle |-> IF h \in S THEN Nil ELSE names[h]]
    /\ UNCHANGED forever

CNext ==
    \/ \E h \in Handle, v \in Objs \cup Prims : Grant(h, v)
    \/ \E h \in Handle : Take(h)
    \/ \E h \in Handle : Keep(h)
    \/ \E S \in SUBSET Handle : Drop(S)

CSpec == CInit /\ [][CNext]_cvars

=============================================================================
