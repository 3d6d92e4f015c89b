------------------------------- MODULE Buffers -------------------------------
(***************************************************************************)
(* The bytes C sees (src/src/wasthon.js, wasthon.c).  Brython keeps bytes   *)
(* and bytearrays in JS arrays (`source`), C works in linear memory, so     *)
(* every way across is a copy with an owner and a moment it is folded back: *)
(*   - the buffer a C producer fills, PyBytes_FromStringAndSize(NULL, n),   *)
(*     and the one PyBytes_AsString caches: `cstr`;                         *)
(*   - the buffer PyObject_GetBuffer fills and the object keeps: `bufOf`;   *)
(*   - a copy of a view's own: of a bytes still being made, and of a        *)
(*     bytearray parsed with 'w*';                                         *)
(*   - the storage of an array.array, which is in linear memory and is      *)
(*     lent: the view is then noted, by its address, in `borrowed`.         *)
(*                                                                         *)
(* C keeps to the protocol: it fills a view's struct again after releasing  *)
(* it, writes a bytes only before it hands it out, and writes through a     *)
(* view while it is the only one of its object.  Python changes an object   *)
(* that has no view.  (An object that dies leaves its buffers behind: nothing *)
(* frees them.  They are no part of the model, nor is the buffer that       *)
(* _PyBytes_Resize leaves.)                                                 *)
(*                                                                         *)
(* A view's obj is the object.  In the code it is a handle that nobody      *)
(* counts (wasthon.c 620): C is taken to keep the object's handle alive for *)
(* as long as it holds the view.  In a view held beyond its call the handle *)
(* may have died or been given to another object when PyBuffer_Release      *)
(* unwraps it (16361).                                                      *)
(***************************************************************************)
EXTENDS Integers, Sequences, FiniteSets, Functions

CONSTANTS
    Bytes, ByteArrays, Arrays,  \* the objects
    Slots,          \* addresses of Py_buffer structs
    Blocks,         \* bound: what malloc can return
    Data,           \* bytes
    Zero,           \* the byte of a fresh buffer
    MaxLen,         \* bound: length of an object
    EmptyArrays,    \* an array may be empty: its storage is NULL
    None

Objects == Bytes \cup ByteArrays \cup Arrays
Payloads == UNION {[1..n -> Data] : n \in 0..MaxLen}

PyBuffer == [obj : Objects, buf : Blocks \cup {None}, len : 0..MaxLen,
             ro : BOOLEAN, wrote : BOOLEAN, sure : BOOLEAN]

ASSUME BuffersAssumption ==
    /\ Zero \in Data /\ MaxLen \in Nat /\ EmptyArrays \in BOOLEAN
    /\ Bytes \cap ByteArrays = {} /\ Arrays \cap (Bytes \cup ByteArrays) = {}
    /\ None \notin Blocks \cup Payloads \cup PyBuffer /\ None \notin Nat

VARIABLES
    source,     \* object -> what Python reads (of an array: nothing); None
                \* before it is made
    item,       \* array -> the block of its items; None when empty
    cstr,       \* bytes -> the buffer C fills or reads; None
    cstrSize,   \* bytes -> its length, if C is to fill it; None
    bufOf,      \* object -> the buffer of its views; None
    bufLen,     \* object -> the length that buffer was made for
    heap,       \* allocated block -> its bytes
    owned,      \* buffers that are not freed on release
    views,      \* Py_buffer -> [obj, buf, len, ro], None when free; ghost: C
                \* wrote through it; it is not of a bytes still being made that C
                \* fills through AsString, which the view does not look at
    borrowed,   \* Py_buffers whose memory is the exporter's
    made,       \* bytes that C has handed out
    truth       \* ghost: object -> the bytes it holds for CPython

objects == <<source, item, made>>
chars == <<cstr, cstrSize>>
lent == <<bufOf, bufLen, owned>>
vars == <<objects, chars, lent, heap, views, borrowed, truth>>

Zeros(n) == [i \in 1..n |-> Zero]

Init == /\ source = [o \in Objects |-> IF o \in Bytes THEN None ELSE <<>>]
        /\ item = [o \in Arrays |-> None]
        /\ cstr = [o \in Bytes |-> None] /\ cstrSize = [o \in Bytes |-> None]
        /\ bufOf = [o \in Objects |-> None] /\ bufLen = [o \in Objects |-> 0]
        /\ heap = <<>> /\ owned = {}
        /\ views = [s \in Slots |-> None] /\ borrowed = {}
        /\ made = {} /\ truth = [o \in Objects |-> <<>>]

Content(o) == IF o \notin Arrays THEN source[o]
              ELSE IF item[o] = None THEN <<>> ELSE heap[item[o]]

\* malloc gives some block that is not in use of heap h; which one, nothing
\* below can tell.
Malloc(h) == CHOOSE b \in Blocks : b \notin DOMAIN h
Room == Blocks \ DOMAIN heap # {}

Alloc(h, b, x) == [c \in DOMAIN h \cup {b} |-> IF c = b THEN x ELSE h[c]]
Without(h, b) == Restrict(h, DOMAIN h \ {b})

ViewsOf(o) == {s \in Slots : views[s] # None /\ views[s].obj = o}

\* The first bytes of a buffer over what an object has.
Onto(x, y, n) == [i \in 1..(IF n > Len(x) THEN n ELSE Len(x)) |->
                     IF i <= n THEN y[i] ELSE x[i]]

----------------------------------------------------------------------------
(* Bytes, from C. *)

\* PyBytes_FromStringAndSize, with the bytes or with NULL.
BytesOf(o, x) ==
    /\ source[o] = None
    /\ source' = [source EXCEPT ![o] = x]
    /\ truth' = [truth EXCEPT ![o] = x]
    /\ UNCHANGED <<item, made, chars, lent, heap, views, borrowed>>

NewBytes(o, n) ==
    /\ source[o] = None /\ Room
    /\ cstr' = [cstr EXCEPT ![o] = Malloc(heap)]
    /\ heap' = Alloc(heap, Malloc(heap), Zeros(n))
    /\ cstrSize' = [cstrSize EXCEPT ![o] = n]
    /\ source' = [source EXCEPT ![o] = Zeros(n)]
    /\ truth' = [truth EXCEPT ![o] = Zeros(n)]
    /\ UNCHANGED <<item, made, lent, views, borrowed>>

\* PyBytes_AsString, when there is no buffer yet.
AsString(o) ==
    /\ cstr[o] = None /\ source[o] # None /\ Room
    /\ cstr' = [cstr EXCEPT ![o] = Malloc(heap)]
    /\ heap' = Alloc(heap, Malloc(heap), source[o])
    /\ UNCHANGED <<objects, cstrSize, lent, views, borrowed, truth>>

\* C writes in the bytes it is making.
Fill(o, x) ==
    /\ o \notin made /\ cstr[o] # None /\ Len(x) = Len(heap[cstr[o]])
    /\ ViewsOf(o) = {}
    /\ heap' = [heap EXCEPT ![cstr[o]] = x]
    /\ truth' = [truth EXCEPT ![o] = x]
    /\ UNCHANGED <<objects, chars, lent, views, borrowed>>

\* _PyBytes_Resize: another object takes the place of o, with what C wrote and
\* no buffer yet.  The mutant takes Python's side of it.
ResizedSource(o) == source[o]
Resized(o) ==
    LET old == IF cstr[o] # None THEN heap[cstr[o]] ELSE source[o]
    IN  IF cstrSize[o] = None \/ cstrSize[o] >= Len(old) THEN old
        ELSE SubSeq(old, 1, cstrSize[o])

\* x at length n; what is read behind a buffer whose length is not noted is
\* whatever the heap has there.
AtLength(x, n, tail) == [i \in 1..n |-> IF i <= Len(x) THEN x[i] ELSE tail[i]]
Tails(o, n) == IF cstrSize[o] = None THEN [1..n -> Data] ELSE {Zeros(n)}

Resize(o, n) ==
    /\ o \notin made /\ cstr[o] # None /\ ViewsOf(o) = {}
    /\ \E tail \in Tails(o, n) :
        /\ source' = [source EXCEPT ![o] = AtLength(Resized(o), n, tail)]
        /\ truth' = [truth EXCEPT ![o] = AtLength(@, n, tail)]
    /\ heap' = Restrict(heap, DOMAIN heap \ {cstr[o], bufOf[o]})
    /\ cstr' = [cstr EXCEPT ![o] = None]
    /\ cstrSize' = [cstrSize EXCEPT ![o] = None]
    /\ bufOf' = [bufOf EXCEPT ![o] = None]
    /\ bufLen' = [bufLen EXCEPT ![o] = 0]
    /\ owned' = owned \ {bufOf[o]}
    /\ UNCHANGED <<item, made, views, borrowed>>

\* Python gets o.  What C wrote is folded into source first; its buffer is
\* freed when o is in the result of a method or is read from a member
\* (syncBytes), kept when it is the result of a slot or an argument of
\* PyObject_CallObject (syncCstrBytes).
Folded(o) == IF cstr[o] = None THEN source[o] ELSE heap[cstr[o]]

GiveFreed(o) ==
    /\ heap' = IF cstr[o] = None THEN heap ELSE Without(heap, cstr[o])
    /\ cstr' = [cstr EXCEPT ![o] = None]

Give(o) ==
    /\ source[o] # None
    /\ source' = [source EXCEPT ![o] = Folded(o)]
    /\ made' = made \cup {o}
    /\ GiveFreed(o) \/ UNCHANGED <<heap, cstr>>
    /\ UNCHANGED <<item, cstrSize, lent, views, borrowed, truth>>

----------------------------------------------------------------------------
(* Views. *)

\* A bytes that C is to fill, or has filled: its buffer counts, not source.
Producer(o) == o \in Bytes /\ cstr[o] # None /\ cstrSize[o] # None

View(o, b, n, ro) ==
    [obj |-> o, buf |-> b, len |-> n, ro |-> ro, wrote |-> FALSE,
     sure |-> o \in Bytes => o \in made \/ Producer(o)]

\* C has a place for a view, and none out that it wrote through.
MayView(s, o) == views[s] = None /\ \A t \in ViewsOf(o) : ~ views[t].wrote

\* A view of a bytes that C fills gets a copy for itself.
PrivateCopy(s, o) ==
    /\ Producer(o) /\ Room
    /\ heap' = Alloc(heap, Malloc(heap), heap[cstr[o]])
    /\ views' = [views EXCEPT ![s] = View(o, Malloc(heap), cstrSize[o], TRUE)]
    /\ UNCHANGED <<lent, borrowed>>

\* The buffer of an earlier view is used again if it has the length.  Mutant:
\* whatever it has.
CachedAny(o, n) == bufOf[o] # None
Cached(o, n) == bufOf[o] # None /\ bufLen[o] = n

\* The buffer of o's views, brought up to date.
Buffer(o) == IF Cached(o, Len(Content(o))) THEN bufOf[o]
             ELSE Malloc(Without(heap, bufOf[o]))

Refresh(o) ==
    LET x == Content(o)
        b == Buffer(o)
    IN  \/ /\ Cached(o, Len(x))
           /\ heap' = [heap EXCEPT ![b] = x]
           /\ UNCHANGED lent
        \/ /\ ~ Cached(o, Len(x))
           /\ heap' = Alloc(Without(heap, bufOf[o]), b, x)
           /\ bufOf' = [bufOf EXCEPT ![o] = b]
           /\ bufLen' = [bufLen EXCEPT ![o] = Len(x)]
           /\ owned' = (owned \ {bufOf[o]}) \cup {b}

\* PyObject_GetBuffer.  A writable view of what is read-only is refused, with
\* the buffer made all the same (a private copy is lost).
GetBuffer(s, o, writable) ==
    LET ro == o \notin ByteArrays
    IN  /\ MayView(s, o)
        /\ \/ PrivateCopy(s, o) /\ ~ writable
           \/ /\ ~ Producer(o) /\ Room
              /\ Refresh(o)
              /\ views' = IF writable /\ ro THEN views
                          ELSE [views EXCEPT ![s] = View(o, Buffer(o), Len(Content(o)), ro)]
              /\ UNCHANGED borrowed
        /\ UNCHANGED <<objects, chars, truth>>

\* PyArg_Parse("w*"): an array lends its items; a bytearray is copied.
ParseWritable(s, o) ==
    /\ MayView(s, o)
    /\ \/ /\ o \in Arrays
          /\ views' = [views EXCEPT ![s] = View(o, item[o], Len(Content(o)), FALSE)]
          /\ borrowed' = borrowed \cup {s}
          /\ UNCHANGED heap
       \/ /\ o \in ByteArrays /\ Room
          /\ heap' = Alloc(heap, Malloc(heap), source[o])
          /\ views' = [views EXCEPT ![s] = View(o, Malloc(heap), Len(source[o]), FALSE)]
          /\ UNCHANGED borrowed
    /\ UNCHANGED <<objects, chars, lent, truth>>

\* C writes through a view.
Store(s, x) ==
    LET v == views[s]
    IN  /\ v # None
        /\ ~ v.ro /\ ViewsOf(v.obj) = {s} /\ v.len > 0 /\ Len(x) = v.len
        /\ heap' = [heap EXCEPT ![v.buf] = x]
        /\ truth' = [truth EXCEPT ![v.obj] = x]
        /\ views' = [views EXCEPT ![s].wrote = TRUE]
        /\ UNCHANGED <<objects, chars, lent, borrowed>>

\* The buffer's bytes go back.  Mutant: they do not.
WrittenBackNot(v) == UNCHANGED source
WrittenBack(v) ==
    source' = IF v.ro \/ v.obj \in Arrays THEN source
              ELSE [source EXCEPT ![v.obj] = Onto(@, heap[v.buf], v.len)]

\* A buffer the object owns stays.  Mutant: it goes.
KeptNot(b) == FALSE
Kept(b) == b \in owned

\* PyBuffer_Release.  Nothing is done for a view whose memory is NULL.  What is
\* written to is the object itself, where the code unwraps a handle.
Release(s) ==
    LET v == views[s]
    IN  /\ v # None
        /\ views' = [views EXCEPT ![s] = None]
        /\ \/ v.buf = None /\ UNCHANGED <<source, heap, borrowed>>
           \/ /\ v.buf # None /\ s \in borrowed
              /\ borrowed' = borrowed \ {s}
              /\ UNCHANGED <<source, heap>>
           \/ /\ v.buf # None /\ s \notin borrowed
              /\ WrittenBack(v)
              /\ heap' = IF Kept(v.buf) THEN heap ELSE Without(heap, v.buf)
              /\ UNCHANGED borrowed
        /\ UNCHANGED <<item, made, chars, lent, truth>>

----------------------------------------------------------------------------

\* Python stores in a bytearray or an array that has no view, at another length
\* perhaps.  (The array's part is arrayobject.c.)
PyStore(o, x) ==
    /\ ViewsOf(o) = {}
    /\ truth' = [truth EXCEPT ![o] = x]
    /\ \/ /\ o \in ByteArrays
          /\ source' = [source EXCEPT ![o] = x]
          /\ UNCHANGED <<item, heap>>
       \/ /\ o \in Arrays
          /\ x # <<>> \/ EmptyArrays
          /\ \/ /\ x = <<>> /\ item' = [item EXCEPT ![o] = None]
                /\ heap' = Without(heap, item[o])
             \/ LET b == Malloc(Without(heap, item[o]))
                IN  /\ x # <<>> /\ Room /\ item' = [item EXCEPT ![o] = b]
                    /\ heap' = Alloc(Without(heap, item[o]), b, x)
          /\ UNCHANGED source
    /\ UNCHANGED <<made, chars, lent, views, borrowed>>

\* Objects there are: an array, when it first has items, unless it may be empty.
There(o) == /\ o \in Bytes => source[o] # None
            /\ o \in Arrays => item[o] # None \/ EmptyArrays

Next ==
    \/ \E o \in Bytes : \/ \E n \in 0..MaxLen : NewBytes(o, n) \/ Resize(o, n)
                        \/ AsString(o) \/ Give(o)
                        \/ \E x \in Payloads : BytesOf(o, x) \/ Fill(o, x)
    \/ \E o \in ByteArrays \cup Arrays, x \in Payloads : PyStore(o, x)
    \/ \E s \in Slots :
        \/ Release(s)
        \/ \E x \in Payloads : Store(s, x)
        \/ \E o \in Objects : There(o) /\ (ParseWritable(s, o)
                                           \/ \E w \in BOOLEAN : GetBuffer(s, o, w))

Spec == Init /\ [][Next]_vars

----------------------------------------------------------------------------

\* Everything has its type, and a buffer the length it was made for.
TypeOK ==
    /\ source \in [Objects -> Payloads \cup {None}] /\ truth \in [Objects -> Payloads]
    /\ DOMAIN heap \subseteq Blocks /\ Range(heap) \subseteq Payloads
    /\ views \in [Slots -> PyBuffer \cup {None}]
    /\ made \subseteq Bytes /\ borrowed \subseteq Slots
    /\ \A o \in Objects : bufOf[o] # None => Len(heap[bufOf[o]]) = bufLen[o]
    /\ \A s \in Slots : views[s] # None /\ views[s].buf # None =>
        views[s].len <= Len(heap[views[s].buf])

\* The buffers that a view has for itself.
Private(s) == views[s] # None /\ views[s].buf # None
              /\ s \notin borrowed /\ views[s].buf \notin owned

\* Every allocated buffer has one owner, and is in use by nobody else: it is
\* freed once, no view is left with freed memory, and nothing leaks.
Owner == {<<"cstr", o>> : o \in {p \in Bytes : cstr[p] # None}}
         \cup {<<"buf", o>> : o \in {p \in Objects : bufOf[p] # None}}
         \cup {<<"item", o>> : o \in {p \in Arrays : item[p] # None}}
         \cup {<<"view", s>> : s \in {t \in Slots : Private(t)}}
Owns(x) == CASE x[1] = "cstr" -> cstr[x[2]] [] x[1] = "buf" -> bufOf[x[2]]
             [] x[1] = "item" -> item[x[2]] [] OTHER -> views[x[2]].buf

BuffersOwned ==
    /\ {Owns(x) : x \in Owner} = DOMAIN heap
    /\ \A x, y \in Owner : x # y => Owns(x) # Owns(y)
    /\ owned = {bufOf[o] : o \in {p \in Objects : bufOf[p] # None}}
    /\ \A s \in Slots : views[s] # None /\ views[s].buf # None =>
        \/ Private(s)
        \/ views[s].buf \in {bufOf[views[s].obj]} \cup Range(item)

\* A view shows the bytes of its object: through a cached buffer or a fresh one,
\* of a bytes that is only in C's buffer yet, of one that was folded, of an
\* object that changed since its last view.
ViewsShowTruth ==
    \A s \in Slots :
        LET v == views[s]
        IN  v # None /\ v.sure
            => /\ v.len = Len(truth[v.obj])
               /\ v.len > 0 => SubSeq(heap[v.buf], 1, v.len) = truth[v.obj]

\* An object that has no view holds what was written last, by Python or through
\* a view; a bytes, what C wrote before it handed it out.
SourceIsTruth ==
    \A o \in Objects : ViewsOf(o) = {} /\ (o \in Bytes => o \in made)
                       => Content(o) = truth[o]

=============================================================================
