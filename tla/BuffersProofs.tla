---------------------------- MODULE BuffersProofs ----------------------------
(***************************************************************************)
(* Buffers, for any objects, views, blocks and lengths, while no array is    *)
(* empty (the storage of an empty one is NULL, and a view of it leaves its   *)
(* mark behind: SourceIsTruth fails).                                        *)
(***************************************************************************)
EXTENDS Buffers, SequenceTheorems, TLAPS

-----------------------------------------------------------------------------
(* Who has a block. *)

Places == ({"cstr"} \X Bytes) \cup ({"buf"} \X Objects)
          \cup ({"item"} \X Arrays) \cup ({"view"} \X Slots)

VPtr(s) == IF Private(s) THEN views[s].buf ELSE None

ptr == [x \in Places |-> CASE x[1] = "cstr" -> cstr[x[2]] [] x[1] = "buf" -> bufOf[x[2]]
                           [] x[1] = "item" -> item[x[2]] [] OTHER -> VPtr(x[2])]

(* Every block of D has one place, and every place a block of D or none. *)
Apportioned(f, D) ==
    /\ \A x \in Places : f[x] # None => f[x] \in D
    /\ \A b \in D : \E x \in Places : f[x] = b
    /\ \A x, y \in Places : f[x] # None /\ f[x] = f[y] => x = y

Types ==
    /\ source \in [Objects -> Payloads \cup {None}] /\ truth \in [Objects -> Payloads]
    /\ item \in [Arrays -> Blocks \cup {None}] /\ cstr \in [Bytes -> Blocks \cup {None}]
    /\ cstrSize \in [Bytes -> 0..MaxLen \cup {None}]
    /\ bufOf \in [Objects -> Blocks \cup {None}] /\ bufLen \in [Objects -> 0..MaxLen]
    /\ DOMAIN heap \subseteq Blocks /\ \A b \in DOMAIN heap : heap[b] \in Payloads
    /\ views \in [Slots -> PyBuffer \cup {None}]
    /\ made \subseteq Bytes /\ borrowed \subseteq Slots
    /\ owned = {bufOf[o] : o \in {p \in Objects : bufOf[p] # None}}

(* A bytes: C's side of it is the newer one, and as long as Python's; it is  *)
(* not handed out before the two are the same.                               *)
BytesKept(o) ==
    /\ source[o] = None => cstr[o] = None /\ cstrSize[o] = None /\ o \notin made
    /\ source[o] # None => /\ truth[o] = Folded(o) /\ Len(truth[o]) = Len(source[o])
                           /\ cstrSize[o] # None => cstrSize[o] = Len(source[o])
    /\ o \in made => source[o] = truth[o]

(* A bytearray: its source is behind only of a view that C wrote through. *)
ByteArrayKept(o) ==
    /\ source[o] # None
    /\ (\A s \in ViewsOf(o) : ~ views[s].wrote) => source[o] = truth[o]

(* An array has the one storage. *)
ArrayKept(o) == Content(o) = truth[o]

(* The buffer an object keeps has the length noted for it. *)
BufferKept(o) == bufOf[o] # None => Len(heap[bufOf[o]]) = bufLen[o]

(* A view: it has memory, its own, the object's buffer or an array's items;  *)
(* of the length of the object; with the object's bytes.                     *)
ViewKept(s) ==
    LET v == views[s]
        o == v.obj
    IN  v # None =>
        /\ v.buf # None
        /\ s \in borrowed => o \in Arrays /\ v.buf = item[o]
        /\ s \notin borrowed /\ v.buf \in owned => v.buf = bufOf[o]
        /\ v.len = Len(heap[v.buf])
        /\ Content(o) # None /\ v.len = Len(Content(o))
        /\ v.sure => heap[v.buf] = truth[o]
        /\ v.wrote => ViewsOf(o) = {s}
        /\ v.ro => s \notin borrowed
        /\ o \in Bytes => v.ro
        /\ o \in ByteArrays => ~ v.ro
        /\ o \in Arrays => v.ro \/ s \in borrowed
        /\ o \notin Bytes => v.sure
        /\ o \in Bytes /\ v.sure /\ v.buf \in owned => o \in made

BInv ==
    /\ Types
    /\ Apportioned(ptr, DOMAIN heap)
    /\ \A o \in Bytes : BytesKept(o)
    /\ \A o \in ByteArrays : ByteArrayKept(o)
    /\ \A o \in Arrays : ArrayKept(o)
    /\ \A o \in Objects : BufferKept(o)
    /\ \A s \in Slots : ViewKept(s)
    /\ \A s \in borrowed : views[s] # None

-----------------------------------------------------------------------------
(* Lengths and bytes.                                                       *)

(* A payload is a sequence of bytes of at most MaxLen, and the reverse. *)
LEMMA PayloadFacts ==
    /\ \A x \in Payloads : x \in Seq(Data) /\ Len(x) \in 0..MaxLen /\ Len(x) \in Nat
                           /\ DOMAIN x = 1..Len(x) /\ x # None
    /\ \A n \in 0..MaxLen : \A x \in [1..n -> Data] : x \in Payloads /\ Len(x) = n
    /\ \A n \in 0..MaxLen : Zeros(n) \in [1..n -> Data]
    /\ <<>> \in Payloads /\ Len(<<>>) = 0
<1>1. \A n \in 0..MaxLen : n \in Nat
  BY BuffersAssumption
<1>2. ASSUME NEW n \in 0..MaxLen, NEW x \in [1..n -> Data]
      PROVE  x \in Payloads /\ Len(x) = n /\ x \in Seq(Data)
  <2>1. x \in Payloads
    BY DEF Payloads
  <2>2. x \in Seq(Data)
    BY <1>1
  <2>3. DOMAIN x = 1..n /\ DOMAIN x = 1..Len(x) /\ Len(x) \in Nat /\ n \in Nat
    BY <1>1, <2>2, LenProperties
  <2> QED
    BY <2>1, <2>2, <2>3
<1>3. ASSUME NEW x \in Payloads
      PROVE  x \in Seq(Data) /\ Len(x) \in 0..MaxLen /\ Len(x) \in Nat /\ DOMAIN x = 1..Len(x) /\ x # None
  <2>1. PICK n \in 0..MaxLen : x \in [1..n -> Data]
    BY DEF Payloads
  <2>2. x \in Seq(Data) /\ Len(x) = n
    BY <1>2, <2>1
  <2> QED
    BY <1>1, <2>1, <2>2, BuffersAssumption
<1>4. \A n \in 0..MaxLen : Zeros(n) \in [1..n -> Data]
  BY BuffersAssumption DEF Zeros
<1>5. <<>> \in Payloads /\ Len(<<>>) = 0
  <2>1. 0 \in 0..MaxLen
    BY BuffersAssumption
  <2>2. <<>> \in Seq(Data) /\ Len(<<>>) = 0
    OBVIOUS
  <2>3. <<>> \in [1..0 -> Data]
    BY <2>2
  <2> QED
    BY <1>2, <2>1, <2>3
<1> QED
  BY <1>2, <1>3, <1>4, <1>5

(* A whole buffer over an object is the buffer. *)
LEMMA OntoAll ==
    ASSUME NEW x \in Payloads, NEW y \in Payloads, Len(x) = Len(y)
    PROVE  Onto(x, y, Len(y)) = y
<1>1. /\ x \in Seq(Data) /\ y \in Seq(Data) /\ Len(y) \in Nat
  BY PayloadFacts
<1> DEFINE z == Onto(x, y, Len(y))
<1>2. z = [i \in 1..Len(y) |-> y[i]]
  BY <1>1 DEF Onto
<1>3. y = [i \in 1..Len(y) |-> y[i]]
  BY <1>1, LenProperties
<1> QED
  BY <1>2, <1>3

(* Another length makes a payload of it. *)
LEMMA AtLengthFacts ==
    ASSUME NEW x \in Payloads, NEW n \in 0..MaxLen, NEW tail \in [1..n -> Data]
    PROVE  AtLength(x, n, tail) \in Payloads /\ Len(AtLength(x, n, tail)) = n
<1>1. x \in Seq(Data) /\ Len(x) \in Nat /\ n \in Nat
  BY PayloadFacts, BuffersAssumption
<1>2. ASSUME NEW i \in 1..n PROVE (IF i <= Len(x) THEN x[i] ELSE tail[i]) \in Data
  <2>1. i <= Len(x) => x[i] \in Data
    <3>1. i <= Len(x) => i \in 1..Len(x)
      BY <1>1
    <3> QED
      BY <1>1, <3>1, ElementOfSeq
  <2> QED
    BY <2>1
<1>3. AtLength(x, n, tail) \in [1..n -> Data]
  BY <1>2 DEF AtLength
<1> QED
  BY <1>3, PayloadFacts

-----------------------------------------------------------------------------
(* Places and their blocks.                                                 *)

(* What is in a place. *)
LEMMA PtrAt ==
    /\ DOMAIN ptr = Places
    /\ \A o \in Bytes : <<"cstr", o>> \in Places /\ ptr[<<"cstr", o>>] = cstr[o]
    /\ \A o \in Objects : <<"buf", o>> \in Places /\ ptr[<<"buf", o>>] = bufOf[o]
    /\ \A o \in Arrays : <<"item", o>> \in Places /\ ptr[<<"item", o>>] = item[o]
    /\ \A s \in Slots : <<"view", s>> \in Places /\ ptr[<<"view", s>>] = VPtr(s)
<1>1. ASSUME NEW o \in Bytes PROVE <<"cstr", o>> \in Places /\ ptr[<<"cstr", o>>] = cstr[o]
  BY DEF Places, ptr
<1>2. ASSUME NEW o \in Objects PROVE <<"buf", o>> \in Places /\ ptr[<<"buf", o>>] = bufOf[o]
  BY DEF Places, ptr
<1>3. ASSUME NEW o \in Arrays PROVE <<"item", o>> \in Places /\ ptr[<<"item", o>>] = item[o]
  BY DEF Places, ptr
<1>4. ASSUME NEW s \in Slots PROVE <<"view", s>> \in Places /\ ptr[<<"view", s>>] = VPtr(s)
  BY DEF Places, ptr
<1> QED
  BY <1>1, <1>2, <1>3, <1>4 DEF ptr

(* There are no other places. *)
LEMMA PlaceKinds ==
    ASSUME NEW x \in Places
    PROVE  \/ \E o \in Bytes : x = <<"cstr", o>>
           \/ \E o \in Objects : x = <<"buf", o>>
           \/ \E o \in Arrays : x = <<"item", o>>
           \/ \E s \in Slots : x = <<"view", s>>
  BY DEF Places

(* The places differ. *)
LEMMA PlacesDiffer ==
    ASSUME NEW o, NEW p
    PROVE  /\ <<"cstr", o>> # <<"buf", p>> /\ <<"cstr", o>> # <<"item", p>>
           /\ <<"cstr", o>> # <<"view", p>> /\ <<"buf", o>> # <<"item", p>>
           /\ <<"buf", o>> # <<"view", p>> /\ <<"item", o>> # <<"view", p>>
           /\ <<"cstr", o>> = <<"cstr", p>> => o = p
           /\ <<"buf", o>> = <<"buf", p>> => o = p
           /\ <<"item", o>> = <<"item", p>> => o = p
           /\ <<"view", o>> = <<"view", p>> => o = p
  OBVIOUS

(* One place's block is given back, or another one, that nobody has, put in *)
(* it.                                                                      *)
LEMMA Repointed ==
    ASSUME NEW f, NEW D, Apportioned(f, D), None \notin D, NEW x \in Places, NEW b,
           b = None \/ b \notin D \ {f[x]},
           NEW g, \A y \in Places : g[y] = IF y = x THEN b ELSE f[y],
           NEW E, E = (D \ {f[x]}) \cup ({b} \ {None})
    PROVE  Apportioned(g, E)
<1>1. ASSUME NEW y \in Places, g[y] # None PROVE g[y] \in E
  BY <1>1 DEF Apportioned
<1>2. ASSUME NEW c \in E PROVE \E y \in Places : g[y] = c
  <2>1. CASE c = b /\ b # None
    BY <2>1
  <2>2. CASE c \in D /\ c # f[x]
    <3>1. PICK y \in Places : f[y] = c
      BY <2>2 DEF Apportioned
    <3> QED
      BY <2>2, <3>1
  <2> QED
    BY <2>1, <2>2
<1>3. ASSUME NEW y \in Places, NEW z \in Places, g[y] # None, g[y] = g[z] PROVE y = z
  BY <1>3 DEF Apportioned
<1> QED
  BY <1>1, <1>2, <1>3 DEF Apportioned

(* A block has one place: two of them are the same only if all is. *)
LEMMA OnePlace ==
    ASSUME BInv
    PROVE  /\ \A o \in Bytes : cstr[o] # None =>
                /\ cstr[o] \in DOMAIN heap
                /\ \A p \in Bytes : cstr[p] = cstr[o] => p = o
                /\ \A p \in Objects : bufOf[p] # cstr[o]
                /\ \A p \in Arrays : item[p] # cstr[o]
                /\ \A s \in Slots : VPtr(s) # cstr[o]
           /\ \A o \in Objects : bufOf[o] # None =>
                /\ bufOf[o] \in DOMAIN heap
                /\ \A p \in Objects : bufOf[p] = bufOf[o] => p = o
                /\ \A p \in Arrays : item[p] # bufOf[o]
                /\ \A s \in Slots : VPtr(s) # bufOf[o]
           /\ \A o \in Arrays : item[o] # None =>
                /\ item[o] \in DOMAIN heap
                /\ \A p \in Arrays : item[p] = item[o] => p = o
                /\ \A s \in Slots : VPtr(s) # item[o]
           /\ \A s \in Slots : VPtr(s) # None =>
                /\ VPtr(s) \in DOMAIN heap
                /\ \A t \in Slots : VPtr(t) = VPtr(s) => t = s
<1>1. /\ \A x \in Places : ptr[x] # None => ptr[x] \in DOMAIN heap
      /\ \A x, y \in Places : ptr[x] # None /\ ptr[x] = ptr[y] => x = y
  BY DEF BInv, Apportioned
<1>2. ASSUME NEW o \in Bytes, cstr[o] # None
      PROVE  /\ cstr[o] \in DOMAIN heap
             /\ \A p \in Bytes : cstr[p] = cstr[o] => p = o
             /\ \A p \in Objects : bufOf[p] # cstr[o]
             /\ \A p \in Arrays : item[p] # cstr[o]
             /\ \A s \in Slots : VPtr(s) # cstr[o]
  <2>1. <<"cstr", o>> \in Places /\ ptr[<<"cstr", o>>] = cstr[o]
    BY PtrAt
  <2>2. cstr[o] \in DOMAIN heap
    BY <1>1, <1>2, <2>1
  <2>3. ASSUME NEW p \in Bytes PROVE cstr[p] = cstr[o] => p = o
    <3>1. <<"cstr", p>> \in Places /\ ptr[<<"cstr", p>>] = cstr[p]
      BY PtrAt
    <3> QED
      BY <1>1, <1>2, <2>1, <3>1, PlacesDiffer
  <2>4. ASSUME NEW p \in Objects PROVE bufOf[p] # cstr[o]
    <3>1. <<"buf", p>> \in Places /\ ptr[<<"buf", p>>] = bufOf[p]
      BY PtrAt
    <3> QED
      BY <1>1, <1>2, <2>1, <3>1, PlacesDiffer
  <2>5. ASSUME NEW p \in Arrays PROVE item[p] # cstr[o]
    <3>1. <<"item", p>> \in Places /\ ptr[<<"item", p>>] = item[p]
      BY PtrAt
    <3> QED
      BY <1>1, <1>2, <2>1, <3>1, PlacesDiffer
  <2>6. ASSUME NEW s \in Slots PROVE VPtr(s) # cstr[o]
    <3>1. <<"view", s>> \in Places /\ ptr[<<"view", s>>] = VPtr(s)
      BY PtrAt
    <3> QED
      BY <1>1, <1>2, <2>1, <3>1, PlacesDiffer
  <2> QED
    BY <2>2, <2>3, <2>4, <2>5, <2>6
<1>3. ASSUME NEW o \in Objects, bufOf[o] # None
      PROVE  /\ bufOf[o] \in DOMAIN heap
             /\ \A p \in Objects : bufOf[p] = bufOf[o] => p = o
             /\ \A p \in Arrays : item[p] # bufOf[o]
             /\ \A s \in Slots : VPtr(s) # bufOf[o]
  <2>1. <<"buf", o>> \in Places /\ ptr[<<"buf", o>>] = bufOf[o]
    BY PtrAt
  <2>2. bufOf[o] \in DOMAIN heap
    BY <1>1, <1>3, <2>1
  <2>3. ASSUME NEW p \in Objects PROVE bufOf[p] = bufOf[o] => p = o
    <3>1. <<"buf", p>> \in Places /\ ptr[<<"buf", p>>] = bufOf[p]
      BY PtrAt
    <3> QED
      BY <1>1, <1>3, <2>1, <3>1, PlacesDiffer
  <2>4. ASSUME NEW p \in Arrays PROVE item[p] # bufOf[o]
    <3>1. <<"item", p>> \in Places /\ ptr[<<"item", p>>] = item[p]
      BY PtrAt
    <3> QED
      BY <1>1, <1>3, <2>1, <3>1, PlacesDiffer
  <2>5. ASSUME NEW s \in Slots PROVE VPtr(s) # bufOf[o]
    <3>1. <<"view", s>> \in Places /\ ptr[<<"view", s>>] = VPtr(s)
      BY PtrAt
    <3> QED
      BY <1>1, <1>3, <2>1, <3>1, PlacesDiffer
  <2> QED
    BY <2>2, <2>3, <2>4, <2>5
<1>4. ASSUME NEW o \in Arrays, item[o] # None
      PROVE  /\ item[o] \in DOMAIN heap
             /\ \A p \in Arrays : item[p] = item[o] => p = o
             /\ \A s \in Slots : VPtr(s) # item[o]
  <2>1. <<"item", o>> \in Places /\ ptr[<<"item", o>>] = item[o]
    BY PtrAt
  <2>2. item[o] \in DOMAIN heap
    BY <1>1, <1>4, <2>1
  <2>3. ASSUME NEW p \in Arrays PROVE item[p] = item[o] => p = o
    <3>1. <<"item", p>> \in Places /\ ptr[<<"item", p>>] = item[p]
      BY PtrAt
    <3> QED
      BY <1>1, <1>4, <2>1, <3>1, PlacesDiffer
  <2>4. ASSUME NEW s \in Slots PROVE VPtr(s) # item[o]
    <3>1. <<"view", s>> \in Places /\ ptr[<<"view", s>>] = VPtr(s)
      BY PtrAt
    <3> QED
      BY <1>1, <1>4, <2>1, <3>1, PlacesDiffer
  <2> QED
    BY <2>2, <2>3, <2>4
<1>5. ASSUME NEW s \in Slots, VPtr(s) # None
      PROVE  /\ VPtr(s) \in DOMAIN heap
             /\ \A t \in Slots : VPtr(t) = VPtr(s) => t = s
  <2>1. <<"view", s>> \in Places /\ ptr[<<"view", s>>] = VPtr(s)
    BY PtrAt
  <2>2. VPtr(s) \in DOMAIN heap
    BY <1>1, <1>5, <2>1
  <2>3. ASSUME NEW t \in Slots PROVE VPtr(t) = VPtr(s) => t = s
    <3>1. <<"view", t>> \in Places /\ ptr[<<"view", t>>] = VPtr(t)
      BY PtrAt
    <3> QED
      BY <1>1, <1>5, <2>1, <3>1, PlacesDiffer
  <2> QED
    BY <2>2, <2>3
<1> QED
  BY <1>2, <1>3, <1>4, <1>5

(* Where a view's memory is. *)
LEMMA ViewBlock ==
    ASSUME BInv, NEW s \in Slots, views[s] # None
    PROVE  /\ views[s] \in PyBuffer /\ views[s].obj \in Objects
           /\ views[s].buf # None /\ views[s].buf \in DOMAIN heap
           /\ heap[views[s].buf] \in Payloads
           /\ \/ /\ s \in borrowed /\ VPtr(s) = None
                 /\ views[s].obj \in Arrays /\ views[s].buf = item[views[s].obj]
              \/ /\ s \notin borrowed /\ VPtr(s) = None
                 /\ views[s].buf \in owned /\ views[s].buf = bufOf[views[s].obj]
              \/ /\ s \notin borrowed /\ VPtr(s) = views[s].buf /\ views[s].buf \notin owned
<1>1. /\ views[s] \in PyBuffer /\ views[s].obj \in Objects
  BY DEF BInv, Types, PyBuffer
<1>2. /\ views[s].buf # None
      /\ s \in borrowed => views[s].obj \in Arrays /\ views[s].buf = item[views[s].obj]
      /\ s \notin borrowed /\ views[s].buf \in owned => views[s].buf = bufOf[views[s].obj]
  BY DEF BInv, ViewKept
<1>3. CASE s \in borrowed
  <2>1. VPtr(s) = None
    BY <1>3 DEF VPtr, Private
  <2>2. views[s].buf \in DOMAIN heap
    BY <1>2, <1>3, OnePlace
  <2> QED
    BY <1>1, <1>2, <1>3, <2>1, <2>2 DEF BInv, Types
<1>4. CASE s \notin borrowed /\ views[s].buf \in owned
  <2>1. VPtr(s) = None
    BY <1>4 DEF VPtr, Private
  <2>2. views[s].buf \in DOMAIN heap
    BY <1>1, <1>2, <1>4, OnePlace
  <2> QED
    BY <1>1, <1>2, <1>4, <2>1, <2>2 DEF BInv, Types
<1>5. CASE s \notin borrowed /\ views[s].buf \notin owned
  <2>1. VPtr(s) = views[s].buf
    BY <1>2, <1>5 DEF VPtr, Private
  <2>2. views[s].buf \in DOMAIN heap
    BY <1>2, <2>1, OnePlace
  <2> QED
    BY <1>1, <1>2, <1>5, <2>1, <2>2 DEF BInv, Types
<1> QED
  BY <1>3, <1>4, <1>5

(* The buffers that are kept, and who keeps them. *)
LEMMA OwnedFacts ==
    ASSUME BInv
    PROVE  /\ None \notin owned
           /\ \A b : b \in owned => \E o \in Objects : bufOf[o] = b
           /\ \A o \in Objects : bufOf[o] # None => bufOf[o] \in owned
  BY DEF BInv, Types

(* What else a view's memory may be. *)
LEMMA ViewApart ==
    ASSUME BInv, NEW s \in Slots, views[s] # None
    PROVE  /\ \A o \in Bytes : cstr[o] # views[s].buf
           /\ \A o \in Objects : bufOf[o] = views[s].buf =>
                o = views[s].obj /\ s \notin borrowed /\ views[s].buf \in owned
           /\ \A o \in Arrays : item[o] = views[s].buf => o = views[s].obj /\ s \in borrowed
           /\ \A t \in Slots : VPtr(t) = views[s].buf => t = s
           /\ \A t \in Slots : views[t] # None /\ views[t].buf = views[s].buf =>
                t = s \/ views[t].obj = views[s].obj
<1> DEFINE o == views[s].obj
           b == views[s].buf
<1>1. /\ o \in Objects /\ b # None
      /\ \/ /\ s \in borrowed /\ VPtr(s) = None /\ o \in Arrays /\ b = item[o]
         \/ /\ s \notin borrowed /\ VPtr(s) = None /\ b \in owned /\ b = bufOf[o]
         \/ /\ s \notin borrowed /\ VPtr(s) = b /\ b \notin owned
  BY ViewBlock
<1> HIDE DEF o, b
<1>2. /\ \A p \in Bytes : cstr[p] # b
      /\ \A p \in Objects : bufOf[p] = b => p = o /\ s \notin borrowed /\ b \in owned
      /\ \A p \in Arrays : item[p] = b => p = o /\ s \in borrowed
      /\ \A t \in Slots : VPtr(t) = b => t = s
  <2>1. CASE s \in borrowed /\ VPtr(s) = None /\ o \in Arrays /\ b = item[o]
    BY <1>1, <2>1, OnePlace
  <2>2. CASE s \notin borrowed /\ VPtr(s) = None /\ b \in owned /\ b = bufOf[o]
    BY <1>1, <2>2, OnePlace
  <2>3. CASE s \notin borrowed /\ VPtr(s) = b /\ b \notin owned
    BY <1>1, <2>3, OnePlace
  <2> QED
    BY <1>1, <2>1, <2>2, <2>3
<1>3. ASSUME NEW t \in Slots, views[t] # None, views[t].buf = b
      PROVE  t = s \/ views[t].obj = o
  BY <1>2, <1>3, ViewBlock
<1> QED
  BY <1>2, <1>3 DEF o, b

-----------------------------------------------------------------------------
(* What a step leaves.                                                      *)

(* One place changes: what it had is free, what it gets is allocated. *)
LEMMA Reapportioned ==
    ASSUME BInv, NEW x \in Places, NEW b,
           \A o \in Bytes : cstr'[o] = IF x = <<"cstr", o>> THEN b ELSE cstr[o],
           \A o \in Objects : bufOf'[o] = IF x = <<"buf", o>> THEN b ELSE bufOf[o],
           \A o \in Arrays : item'[o] = IF x = <<"item", o>> THEN b ELSE item[o],
           \A s \in Slots : VPtr(s)' = IF x = <<"view", s>> THEN b ELSE VPtr(s),
           b = None \/ b \notin DOMAIN heap \ {ptr[x]},
           DOMAIN heap' = (DOMAIN heap \ {ptr[x]}) \cup ({b} \ {None})
    PROVE  Apportioned(ptr, DOMAIN heap)'
<1>1. \A y \in Places : ptr'[y] = IF y = x THEN b ELSE ptr[y]
  <2> SUFFICES ASSUME NEW y \in Places PROVE ptr'[y] = IF y = x THEN b ELSE ptr[y]
    OBVIOUS
  <2>1. ASSUME NEW o \in Bytes, y = <<"cstr", o>> PROVE ptr'[y] = IF y = x THEN b ELSE ptr[y]
    <3>1. ptr'[y] = cstr'[o] /\ ptr[y] = cstr[o]
      BY <2>1 DEF ptr, Places
    <3> QED
      BY <2>1, <3>1
  <2>2. ASSUME NEW o \in Objects, y = <<"buf", o>> PROVE ptr'[y] = IF y = x THEN b ELSE ptr[y]
    <3>1. ptr'[y] = bufOf'[o] /\ ptr[y] = bufOf[o]
      BY <2>2 DEF ptr, Places
    <3> QED
      BY <2>2, <3>1
  <2>3. ASSUME NEW o \in Arrays, y = <<"item", o>> PROVE ptr'[y] = IF y = x THEN b ELSE ptr[y]
    <3>1. ptr'[y] = item'[o] /\ ptr[y] = item[o]
      BY <2>3 DEF ptr, Places
    <3> QED
      BY <2>3, <3>1
  <2>4. ASSUME NEW s \in Slots, y = <<"view", s>> PROVE ptr'[y] = IF y = x THEN b ELSE ptr[y]
    <3>1. ptr'[y] = VPtr(s)' /\ ptr[y] = VPtr(s)
      BY <2>4 DEF ptr, Places
    <3> QED
      BY <2>4, <3>1
  <2> QED
    BY <2>1, <2>2, <2>3, <2>4, PlaceKinds
<1>2. None \notin DOMAIN heap /\ Apportioned(ptr, DOMAIN heap)
  BY BuffersAssumption DEF BInv, Types
<1> QED
  BY <1>1, <1>2, Repointed

(* No place changes. *)
LEMMA SamePlaces ==
    ASSUME BInv, cstr' = cstr, bufOf' = bufOf, item' = item,
           \A s \in Slots : VPtr(s)' = VPtr(s), DOMAIN heap' = DOMAIN heap
    PROVE  Apportioned(ptr, DOMAIN heap)'
<1>1. ptr' = ptr
  <2>1. \A s \in Slots : VPtr(s)' = VPtr(s)
    OBVIOUS
  <2>2. \A x \in Places : ptr'[x] = ptr[x]
    BY PlaceKinds DEF ptr
  <2> QED
    BY <2>2 DEF ptr
<1> QED
  BY <1>1 DEF BInv

(* A view that a step does not touch has the memory it had. *)
LEMMA SameVPtr ==
    ASSUME NEW s \in Slots, views'[s] = views[s],
           s \in borrowed' => s \in borrowed, s \in borrowed => s \in borrowed',
           views[s] # None => (views[s].buf \in owned' => views[s].buf \in owned),
           views[s] # None => (views[s].buf \in owned => views[s].buf \in owned')
    PROVE  VPtr(s)' = VPtr(s)
  BY DEF VPtr, Private

(* And is what it was. *)
LEMMA ViewStays ==
    ASSUME BInv, NEW s \in Slots, views'[s] = views[s], views[s] # None,
           s \in borrowed' => s \in borrowed, s \in borrowed => s \in borrowed',
           views[s].buf \in owned' => views[s].buf \in owned,
           s \notin borrowed /\ views[s].buf \in owned =>
                bufOf'[views[s].obj] = bufOf[views[s].obj],
           s \in borrowed => item'[views[s].obj] = item[views[s].obj],
           Len(heap'[views[s].buf]) = Len(heap[views[s].buf]),
           views[s].sure => heap'[views[s].buf] = heap[views[s].buf],
           Content(views[s].obj)' # None,
           Len(Content(views[s].obj)') = Len(Content(views[s].obj)),
           truth'[views[s].obj] = truth[views[s].obj],
           views[s].wrote => ViewsOf(views[s].obj)' = {s},
           views[s].obj \in made => views[s].obj \in made'
    PROVE  ViewKept(s)'
<1>1. ViewKept(s)
  BY DEF BInv
<1> QED
  BY <1>1 DEF ViewKept

(* An object that a step does not touch is what it was. *)
LEMMA ObjectsStay ==
    ASSUME BInv
    PROVE  /\ \A o \in Bytes :
                /\ source'[o] = source[o] /\ truth'[o] = truth[o]
                /\ cstr'[o] = cstr[o] /\ cstrSize'[o] = cstrSize[o]
                /\ o \in made' => o \in made
                /\ cstr[o] # None => heap'[cstr[o]] = heap[cstr[o]]
                => BytesKept(o)'
           /\ \A o \in ByteArrays :
                /\ source'[o] = source[o] /\ truth'[o] = truth[o]
                /\ (\A s \in ViewsOf(o)' : ~ views'[s].wrote) => \A s \in ViewsOf(o) : ~ views[s].wrote
                => ByteArrayKept(o)'
           /\ \A o \in Arrays :
                /\ item'[o] = item[o] /\ truth'[o] = truth[o]
                /\ item[o] # None => heap'[item[o]] = heap[item[o]]
                => ArrayKept(o)'
           /\ \A o \in Objects :
                /\ bufOf'[o] = bufOf[o] /\ bufLen'[o] = bufLen[o]
                /\ bufOf[o] # None => Len(heap'[bufOf[o]]) = Len(heap[bufOf[o]])
                => BufferKept(o)'
<1>1. \A o \in Bytes : BytesKept(o)
  BY DEF BInv
<1>2. \A o \in ByteArrays : ByteArrayKept(o)
  BY DEF BInv
<1>3. \A o \in Arrays : ArrayKept(o)
  BY DEF BInv
<1>4. \A o \in Objects : BufferKept(o)
  BY DEF BInv
<1>5. ASSUME NEW o \in Bytes, source'[o] = source[o], truth'[o] = truth[o],
             cstr'[o] = cstr[o], cstrSize'[o] = cstrSize[o], o \in made' => o \in made,
             cstr[o] # None => heap'[cstr[o]] = heap[cstr[o]]
      PROVE  BytesKept(o)'
  BY <1>1, <1>5 DEF BytesKept, Folded
<1>6. ASSUME NEW o \in ByteArrays, source'[o] = source[o], truth'[o] = truth[o],
             (\A s \in ViewsOf(o)' : ~ views'[s].wrote) => \A s \in ViewsOf(o) : ~ views[s].wrote
      PROVE  ByteArrayKept(o)'
  BY <1>2, <1>6 DEF ByteArrayKept
<1>7. ASSUME NEW o \in Arrays, item'[o] = item[o], truth'[o] = truth[o],
             item[o] # None => heap'[item[o]] = heap[item[o]]
      PROVE  ArrayKept(o)'
  BY <1>3, <1>7 DEF ArrayKept, Content
<1>8. ASSUME NEW o \in Objects, bufOf'[o] = bufOf[o], bufLen'[o] = bufLen[o],
             bufOf[o] # None => Len(heap'[bufOf[o]]) = Len(heap[bufOf[o]])
      PROVE  BufferKept(o)'
  BY <1>4, <1>8 DEF BufferKept
<1> QED
  BY <1>5, <1>6, <1>7, <1>8

(* What an object has. *)
LEMMA ContentFacts ==
    ASSUME BInv
    PROVE  /\ \A o \in Objects \ Arrays : Content(o) = source[o] /\ Content(o)' = source'[o]
           /\ \A o \in ByteArrays \cup Arrays : Content(o) \in Payloads
           /\ \A o \in Arrays : /\ o \notin Bytes /\ o \notin ByteArrays
                                /\ item[o] # None => Content(o) = heap[item[o]]
                                /\ item'[o] # None => Content(o)' = heap'[item'[o]]
                                /\ item'[o] = None => Content(o)' = <<>>
           /\ \A o \in Bytes : o \notin Arrays /\ o \notin ByteArrays /\ o \in Objects
           /\ \A o \in ByteArrays : o \notin Arrays /\ o \notin Bytes /\ o \in Objects
                                    /\ source[o] \in Payloads
           /\ \A o \in Arrays : o \in Objects
<1>1. /\ \A o \in Bytes : o \notin Arrays /\ o \notin ByteArrays /\ o \in Objects
      /\ \A o \in ByteArrays : o \notin Arrays /\ o \notin Bytes /\ o \in Objects
      /\ \A o \in Arrays : o \notin Bytes /\ o \notin ByteArrays /\ o \in Objects
  BY BuffersAssumption DEF Objects
<1>2. \A o \in ByteArrays : source[o] \in Payloads
  BY <1>1 DEF BInv, ByteArrayKept, Types
<1>3. ASSUME NEW o \in Arrays PROVE Content(o) \in Payloads
  <2>1. item[o] # None => heap[item[o]] \in Payloads
    BY OnePlace DEF BInv, Types
  <2> QED
    BY <2>1, PayloadFacts DEF Content
<1> QED
  BY <1>1, <1>2, <1>3 DEF Content

-----------------------------------------------------------------------------
(* Bytes.                                                                   *)

(* A bytes that is not made yet has no views. *)
LEMMA NoViewYet ==
    ASSUME BInv, NEW o \in Bytes, source[o] = None
    PROVE  /\ \A s \in Slots : views[s] # None => views[s].obj # o
           /\ cstr[o] = None /\ cstrSize[o] = None /\ o \notin made
<1>1. Content(o) = None
  BY ContentFacts
<1>2. ASSUME NEW s \in Slots, views[s] # None, views[s].obj = o PROVE FALSE
  BY <1>1, <1>2 DEF BInv, ViewKept
<1>3. BytesKept(o)
  BY DEF BInv
<1> QED
  BY <1>2, <1>3 DEF BytesKept

(* A step that is about one bytes, and what it has to show. *)
LEMMA BytesStep ==
    ASSUME BInv, NEW o \in Bytes,
           Types', Apportioned(ptr, DOMAIN heap)', BytesKept(o)', BufferKept(o)',
           \A p \in Objects : p # o => /\ source'[p] = source[p] /\ truth'[p] = truth[p]
                                       /\ bufOf'[p] = bufOf[p] /\ bufLen'[p] = bufLen[p],
           \A p \in Bytes : p # o => cstr'[p] = cstr[p] /\ cstrSize'[p] = cstrSize[p],
           \A p \in made' : p \in made \/ p = o, \A p \in made : p \in made',
           item' = item, views' = views, borrowed' = borrowed,
           owned' = owned \/ owned' = owned \ {bufOf[o]},
           \A c \in DOMAIN heap : c # cstr[o] /\ c # bufOf[o] => heap'[c] = heap[c],
           \/ ViewsOf(o) = {}
           \/ /\ truth'[o] = truth[o] /\ source'[o] # None /\ Len(source'[o]) = Len(source[o])
              /\ bufOf'[o] = bufOf[o] /\ owned' = owned
              /\ bufOf[o] # None => heap'[bufOf[o]] = heap[bufOf[o]]
    PROVE  BInv'
<1>1. o \in Objects /\ o \notin Arrays /\ o \notin ByteArrays
  BY ContentFacts
<1>2. ASSUME NEW p \in Bytes PROVE BytesKept(p)'
  <2>1. CASE p = o
    BY <2>1
  <2>2. CASE p # o
    <3>1. cstr[p] # None => cstr[p] \in DOMAIN heap /\ cstr[p] # cstr[o] /\ cstr[p] # bufOf[o]
      BY <1>1, <2>2, OnePlace
    <3>2. p \in Objects
      BY ContentFacts
    <3> QED
      BY <2>2, <3>1, <3>2, ObjectsStay
  <2> QED
    BY <2>1, <2>2
<1>3. ASSUME NEW p \in ByteArrays PROVE ByteArrayKept(p)'
  <2>1. ViewsOf(p)' = ViewsOf(p)
    BY DEF ViewsOf
  <2>2. p \in Objects /\ p # o
    BY <1>1, ContentFacts
  <2> QED
    BY <2>1, <2>2, ObjectsStay
<1>4. ASSUME NEW p \in Arrays PROVE ArrayKept(p)'
  <2>1. p \in Objects /\ p # o
    BY <1>1, ContentFacts
  <2>2. item[p] # None => item[p] \in DOMAIN heap /\ item[p] # cstr[o] /\ item[p] # bufOf[o]
    BY <1>1, OnePlace
  <2> QED
    BY <2>1, <2>2, ObjectsStay
<1>5. ASSUME NEW p \in Objects PROVE BufferKept(p)'
  <2>1. CASE p = o
    BY <2>1
  <2>2. CASE p # o
    <3>1. bufOf[p] # None => bufOf[p] \in DOMAIN heap /\ bufOf[p] # cstr[o] /\ bufOf[p] # bufOf[o]
      BY <1>1, <2>2, OnePlace
    <3> QED
      BY <2>2, <3>1, ObjectsStay
  <2> QED
    BY <2>1, <2>2
<1>6. ASSUME NEW s \in Slots PROVE ViewKept(s)'
  <2>1. CASE views[s] = None
    BY <2>1 DEF ViewKept
  <2>2. CASE views[s] # None
    <3> DEFINE p == views[s].obj
               b == views[s].buf
    <3>1. /\ p \in Objects /\ b # None /\ b \in DOMAIN heap /\ b # cstr[o]
          /\ b = bufOf[o] => p = o
          /\ s \notin borrowed /\ b \in owned => b = bufOf[p]
          /\ s \in borrowed => p \in Arrays /\ b = item[p]
      BY <1>1, <2>2, ViewBlock, ViewApart
    <3>2. p = o => ViewsOf(o) # {}
      BY <2>2 DEF ViewsOf
    <3>3. ViewKept(s) /\ ViewsOf(p)' = ViewsOf(p)
      BY DEF BInv, ViewsOf
    <3>4. heap'[b] = heap[b]
      BY <3>1, <3>2
    <3>5. Content(p)' # None /\ Len(Content(p)') = Len(Content(p)) /\ truth'[p] = truth[p]
      <4>1. Content(p) # None
        BY <2>2, <3>3 DEF ViewKept
      <4>2. CASE p = o
        BY <1>1, <3>2, <4>2, ContentFacts
      <4>3. CASE p # o /\ p \notin Arrays
        BY <3>1, <4>1, <4>3, ContentFacts
      <4>4. CASE p \in Arrays
        <5>1. ArrayKept(p) /\ ArrayKept(p)' /\ truth'[p] = truth[p]
          BY <1>1, <1>4, <3>1, <4>4 DEF BInv
        <5> QED
          BY <4>1, <5>1 DEF ArrayKept
      <4> QED
        BY <4>2, <4>3, <4>4
    <3>6. s \notin borrowed /\ b \in owned => bufOf'[p] = bufOf[p]
      BY <3>1, <3>2
    <3>7. b \in owned' => b \in owned
      OBVIOUS
    <3>8. views[s].wrote => ViewsOf(p)' = {s}
      BY <2>2, <3>3 DEF ViewKept
    <3> HIDE DEF p, b
    <3> QED
      BY <2>2, <3>4, <3>5, <3>6, <3>7, <3>8, ViewStays DEF p, b
  <2> QED
    BY <2>1, <2>2
<1>7. \A s \in borrowed' : views'[s] # None
  BY DEF BInv
<1> QED
  BY <1>2, <1>3, <1>4, <1>5, <1>6, <1>7 DEF BInv

(* The places of the views, in such a step. *)
LEMMA BytesPlaces ==
    ASSUME BInv, NEW o \in Bytes, views' = views, borrowed' = borrowed,
           owned' = owned \/ (owned' = owned \ {bufOf[o]} /\ ViewsOf(o) = {})
    PROVE  \A s \in Slots : VPtr(s)' = VPtr(s)
<1> SUFFICES ASSUME NEW s \in Slots PROVE VPtr(s)' = VPtr(s)
  OBVIOUS
<1>1. views[s] # None => (views[s].buf = bufOf[o] => views[s].obj = o)
  BY ViewApart, ContentFacts
<1>2. views[s] # None /\ views[s].obj = o => ViewsOf(o) # {}
  BY DEF ViewsOf
<1> QED
  BY <1>1, <1>2, SameVPtr

(* A new bytes with its bytes. *)
LEMMA BytesOfKeeps ==
    ASSUME BInv, NEW o \in Bytes, NEW x \in Payloads, BytesOf(o, x)
    PROVE  BInv'
<1>1. /\ source[o] = None /\ cstr[o] = None /\ cstrSize[o] = None /\ o \notin made
      /\ ViewsOf(o) = {}
  BY NoViewYet DEF BytesOf, ViewsOf
<1>2. /\ source' = [source EXCEPT ![o] = x] /\ truth' = [truth EXCEPT ![o] = x]
      /\ item' = item /\ made' = made /\ cstr' = cstr /\ cstrSize' = cstrSize
      /\ bufOf' = bufOf /\ bufLen' = bufLen /\ owned' = owned
      /\ heap' = heap /\ views' = views /\ borrowed' = borrowed
  BY DEF BytesOf, chars, lent
<1>3. Types'
  BY <1>2, ContentFacts DEF BInv, Types
<1>4. /\ source'[o] = x /\ truth'[o] = x
      /\ \A p \in Objects : p # o => source'[p] = source[p] /\ truth'[p] = truth[p]
  BY <1>2, ContentFacts DEF BInv, Types
<1>5. Apportioned(ptr, DOMAIN heap)'
  BY <1>2, SamePlaces, BytesPlaces
<1>6. BytesKept(o)'
  BY <1>1, <1>2, <1>4, PayloadFacts DEF BytesKept, Folded
<1>7. BufferKept(o)'
  BY <1>2, ObjectsStay, ContentFacts
<1> QED
  BY <1>1, <1>2, <1>3, <1>4, <1>5, <1>6, <1>7, BytesStep

(* What malloc gives. *)
LEMMA MallocFacts ==
    ASSUME NEW h, Blocks \ DOMAIN h # {}
    PROVE  Malloc(h) \in Blocks /\ Malloc(h) \notin DOMAIN h /\ Malloc(h) # None
<1>1. \E b \in Blocks : b \notin DOMAIN h
  OBVIOUS
<1>2. Malloc(h) \in Blocks /\ Malloc(h) \notin DOMAIN h
  BY <1>1 DEF Malloc
<1> QED
  BY <1>2, BuffersAssumption

(* The heap with a block more or less. *)
LEMMA HeapFacts ==
    ASSUME NEW h, NEW b, NEW x
    PROVE  /\ DOMAIN Alloc(h, b, x) = DOMAIN h \cup {b} /\ Alloc(h, b, x)[b] = x
           /\ \A c \in DOMAIN h : c # b => Alloc(h, b, x)[c] = h[c]
           /\ DOMAIN Without(h, b) = DOMAIN h \ {b}
           /\ \A c \in DOMAIN h : c # b => Without(h, b)[c] = h[c]
  BY DEF Alloc, Without, Restrict

(* A bytes gets a C string: a fresh block with x. *)
LEMMA NewChars ==
    ASSUME BInv, NEW o \in Bytes, cstr[o] = None, Room,
           NEW b, b = Malloc(heap), NEW x \in Payloads,
           cstr' = [cstr EXCEPT ![o] = b], heap' = Alloc(heap, b, x),
           item' = item, bufOf' = bufOf, owned' = owned, views' = views, borrowed' = borrowed
    PROVE  /\ b \in Blocks /\ b \notin DOMAIN heap /\ b # None
           /\ DOMAIN heap' = DOMAIN heap \cup {b} /\ heap'[b] = x
           /\ \A c \in DOMAIN heap : heap'[c] = heap[c]
           /\ \A c \in DOMAIN heap' : heap'[c] \in Payloads
           /\ cstr' \in [Bytes -> Blocks \cup {None}] /\ cstr'[o] = b
           /\ \A p \in Bytes : p # o => cstr'[p] = cstr[p]
           /\ Apportioned(ptr, DOMAIN heap)'
<1>1. b \in Blocks /\ b \notin DOMAIN heap /\ b # None
  BY MallocFacts DEF Room
<1>2. /\ DOMAIN heap' = DOMAIN heap \cup {b} /\ heap'[b] = x
      /\ \A c \in DOMAIN heap : heap'[c] = heap[c]
  BY <1>1 DEF Alloc
<1>3. \A c \in DOMAIN heap' : heap'[c] \in Payloads
  BY <1>2 DEF BInv, Types
<1>4. /\ cstr' \in [Bytes -> Blocks \cup {None}] /\ cstr'[o] = b
      /\ \A p \in Bytes : p # o => cstr'[p] = cstr[p]
  BY <1>1 DEF BInv, Types
<1>5. Apportioned(ptr, DOMAIN heap)'
  <2> DEFINE y == <<"cstr", o>>
  <2>1. y \in Places /\ ptr[y] = None
    BY PtrAt
  <2>2. \A p \in Bytes : cstr'[p] = IF y = <<"cstr", p>> THEN b ELSE cstr[p]
    BY <1>4, PlacesDiffer
  <2>3. /\ \A p : y # <<"buf", p>> /\ y # <<"item", p>> /\ y # <<"view", p>>
    BY PlacesDiffer
  <2>4. \A s \in Slots : VPtr(s)' = VPtr(s)
    BY BytesPlaces
  <2>5. DOMAIN heap' = (DOMAIN heap \ {ptr[y]}) \cup ({b} \ {None})
    BY <1>1, <1>2, <2>1, BuffersAssumption DEF BInv, Types
  <2> HIDE DEF y
  <2> QED
    BY <1>1, <2>1, <2>2, <2>3, <2>4, <2>5, Reapportioned
<1> QED
  BY <1>1, <1>2, <1>3, <1>4, <1>5

(* A new bytes that C is to fill. *)
LEMMA NewBytesKeeps ==
    ASSUME BInv, NEW o \in Bytes, NEW n \in 0..MaxLen, NewBytes(o, n)
    PROVE  BInv'
<1> DEFINE b == Malloc(heap)
           x == Zeros(n)
<1>1. /\ source[o] = None /\ cstr[o] = None /\ cstrSize[o] = None /\ o \notin made
      /\ ViewsOf(o) = {}
  BY NoViewYet DEF NewBytes, ViewsOf
<1>2. /\ source' = [source EXCEPT ![o] = x] /\ truth' = [truth EXCEPT ![o] = x]
      /\ cstr' = [cstr EXCEPT ![o] = b] /\ heap' = Alloc(heap, b, x)
      /\ cstrSize' = [cstrSize EXCEPT ![o] = n] /\ Room
      /\ item' = item /\ made' = made
      /\ bufOf' = bufOf /\ bufLen' = bufLen /\ owned' = owned
      /\ views' = views /\ borrowed' = borrowed
  BY DEF NewBytes, lent
<1>3. x \in Payloads /\ Len(x) = n /\ n \in Nat /\ x # None /\ n # None
  BY PayloadFacts, BuffersAssumption
<1> HIDE DEF b, x
<1>4. /\ b \in Blocks /\ b \notin DOMAIN heap /\ b # None
      /\ DOMAIN heap' = DOMAIN heap \cup {b} /\ heap'[b] = x
      /\ \A c \in DOMAIN heap : heap'[c] = heap[c]
      /\ \A c \in DOMAIN heap' : heap'[c] \in Payloads
      /\ cstr' \in [Bytes -> Blocks \cup {None}] /\ cstr'[o] = b
      /\ \A p \in Bytes : p # o => cstr'[p] = cstr[p]
      /\ Apportioned(ptr, DOMAIN heap)'
  BY <1>1, <1>2, <1>3, NewChars DEF b
<1>5. Types'
  BY <1>2, <1>3, <1>4, ContentFacts DEF BInv, Types
<1>6. /\ source'[o] = x /\ truth'[o] = x /\ cstrSize'[o] = n
      /\ \A p \in Objects : p # o => source'[p] = source[p] /\ truth'[p] = truth[p]
      /\ \A p \in Bytes : p # o => cstrSize'[p] = cstrSize[p]
  BY <1>2, ContentFacts DEF BInv, Types
<1>7. BytesKept(o)'
  BY <1>1, <1>2, <1>3, <1>4, <1>6 DEF BytesKept, Folded
<1>8. BufferKept(o)'
  BY <1>2, <1>4, ObjectsStay, ContentFacts, OnePlace
<1> QED
  BY <1>1, <1>2, <1>4, <1>5, <1>6, <1>7, <1>8, BytesStep

(* The C string of a bytes that has none. *)
LEMMA AsStringKeeps ==
    ASSUME BInv, NEW o \in Bytes, AsString(o)
    PROVE  BInv'
<1> DEFINE b == Malloc(heap)
           x == source[o]
<1>1. /\ cstr[o] = None /\ source[o] # None /\ Room
      /\ cstr' = [cstr EXCEPT ![o] = b] /\ heap' = Alloc(heap, b, x)
      /\ source' = source /\ item' = item /\ made' = made /\ cstrSize' = cstrSize
      /\ bufOf' = bufOf /\ bufLen' = bufLen /\ owned' = owned
      /\ views' = views /\ borrowed' = borrowed /\ truth' = truth
  BY DEF AsString, objects, lent
<1>2. x \in Payloads /\ x # None
  BY <1>1, ContentFacts DEF BInv, Types
<1>3. BytesKept(o) /\ truth[o] = x
  BY <1>1 DEF BInv, BytesKept, Folded
<1> HIDE DEF b
<1>4. /\ b \in Blocks /\ b \notin DOMAIN heap /\ b # None
      /\ DOMAIN heap' = DOMAIN heap \cup {b} /\ heap'[b] = x
      /\ \A c \in DOMAIN heap : heap'[c] = heap[c]
      /\ \A c \in DOMAIN heap' : heap'[c] \in Payloads
      /\ cstr' \in [Bytes -> Blocks \cup {None}] /\ cstr'[o] = b
      /\ \A p \in Bytes : p # o => cstr'[p] = cstr[p]
      /\ Apportioned(ptr, DOMAIN heap)'
  BY <1>1, <1>2, NewChars DEF b
<1>5. Types'
  BY <1>1, <1>4 DEF BInv, Types
<1>6. BytesKept(o)'
  BY <1>1, <1>3, <1>4 DEF BytesKept, Folded
<1>7. BufferKept(o)'
  BY <1>1, <1>4, ObjectsStay, ContentFacts, OnePlace
<1>8. bufOf[o] # None => heap'[bufOf[o]] = heap[bufOf[o]]
  BY <1>4, ContentFacts, OnePlace
<1> QED
  BY <1>1, <1>4, <1>5, <1>6, <1>7, <1>8, BytesStep

(* C writes in a bytes before it hands it out. *)
LEMMA FillKeeps ==
    ASSUME BInv, NEW o \in Bytes, NEW x \in Payloads, Fill(o, x)
    PROVE  BInv'
<1> DEFINE b == cstr[o]
<1>1. /\ o \notin made /\ b # None /\ Len(x) = Len(heap[b]) /\ ViewsOf(o) = {}
      /\ heap' = [heap EXCEPT ![b] = x] /\ truth' = [truth EXCEPT ![o] = x]
      /\ source' = source /\ item' = item /\ made' = made
      /\ cstr' = cstr /\ cstrSize' = cstrSize
      /\ bufOf' = bufOf /\ bufLen' = bufLen /\ owned' = owned
      /\ views' = views /\ borrowed' = borrowed
  BY DEF Fill, objects, chars, lent
<1>2. b \in DOMAIN heap /\ o \in Objects
  BY <1>1, OnePlace, ContentFacts
<1>3. /\ DOMAIN heap' = DOMAIN heap /\ heap'[b] = x
      /\ \A c \in DOMAIN heap : c # b => heap'[c] = heap[c]
  BY <1>1, <1>2
<1>4. /\ truth'[o] = x /\ \A p \in Objects : p # o => truth'[p] = truth[p]
  BY <1>1, <1>2 DEF BInv, Types
<1>5. Types'
  BY <1>1, <1>2, <1>3 DEF BInv, Types
<1>6. Apportioned(ptr, DOMAIN heap)'
  BY <1>1, <1>3, SamePlaces, BytesPlaces
<1>7. BytesKept(o)'
  <2>1. BytesKept(o)
    BY DEF BInv
  <2> QED
    BY <1>1, <1>3, <1>4, <2>1 DEF BytesKept, Folded
<1>8. BufferKept(o)'
  BY <1>1, <1>2, <1>3, ObjectsStay, OnePlace
<1> QED
  BY <1>1, <1>3, <1>4, <1>5, <1>6, <1>7, <1>8, BytesStep

(* Python gets a bytes. *)
LEMMA GiveKeeps ==
    ASSUME BInv, NEW o \in Bytes, Give(o)
    PROVE  BInv'
<1> DEFINE b == cstr[o]
           x == Folded(o)
<1>1. /\ source[o] # None
      /\ source' = [source EXCEPT ![o] = x] /\ made' = made \cup {o}
      /\ item' = item /\ cstrSize' = cstrSize
      /\ bufOf' = bufOf /\ bufLen' = bufLen /\ owned' = owned
      /\ views' = views /\ borrowed' = borrowed /\ truth' = truth
      /\ \/ b # None /\ heap' = Without(heap, b) /\ cstr' = [cstr EXCEPT ![o] = None]
         \/ b = None /\ heap' = heap /\ cstr' = [cstr EXCEPT ![o] = None]
         \/ heap' = heap /\ cstr' = cstr
  BY DEF Give, GiveFreed, lent
<1>2. /\ o \in Objects
      /\ b # None => b \in DOMAIN heap
      /\ truth[o] = x /\ x \in Payloads /\ x # None /\ Len(x) = Len(source[o])
      /\ cstrSize[o] # None => cstrSize[o] = Len(source[o])
  <2>1. o \in Objects /\ (b # None => b \in DOMAIN heap)
    BY OnePlace, ContentFacts
  <2>2. BytesKept(o) /\ truth[o] \in Payloads
    BY <2>1 DEF BInv, Types
  <2> QED
    BY <1>1, <2>1, <2>2, PayloadFacts DEF BytesKept
<1> HIDE DEF x
<1>3. /\ source'[o] = x /\ \A p \in Objects : p # o => source'[p] = source[p]
      /\ source' \in [Objects -> Payloads \cup {None}]
  BY <1>1, <1>2 DEF BInv, Types
<1>4. \A s \in Slots : VPtr(s)' = VPtr(s)
  BY <1>1, BytesPlaces
<1>5. /\ DOMAIN heap' \subseteq DOMAIN heap /\ \A c \in DOMAIN heap : c # b => heap'[c] = heap[c]
      /\ \A c \in DOMAIN heap' : heap'[c] = heap[c]
      /\ \A p \in Bytes : p # o => cstr'[p] = cstr[p]
      /\ cstr' \in [Bytes -> Blocks \cup {None}]
      /\ cstr'[o] = None \/ (cstr' = cstr /\ heap' = heap)
      /\ Apportioned(ptr, DOMAIN heap)'
  <2>1. CASE heap' = heap /\ cstr' = cstr
    BY <1>1, <1>4, <2>1, SamePlaces DEF BInv, Types
  <2>2. CASE b = None /\ heap' = heap /\ cstr' = [cstr EXCEPT ![o] = None]
    <3>1. cstr' = cstr
      BY <2>2 DEF BInv, Types
    <3> QED
      BY <1>1, <1>4, <2>2, <3>1, SamePlaces DEF BInv, Types
  <2>3. CASE b # None /\ heap' = Without(heap, b) /\ cstr' = [cstr EXCEPT ![o] = None]
    <3>1. /\ DOMAIN heap' = DOMAIN heap \ {b}
          /\ \A c \in DOMAIN heap : c # b => heap'[c] = heap[c]
      BY <2>3 DEF Without, Restrict
    <3>2. /\ cstr' \in [Bytes -> Blocks \cup {None}] /\ cstr'[o] = None
          /\ \A p \in Bytes : p # o => cstr'[p] = cstr[p]
      BY <2>3 DEF BInv, Types
    <3> DEFINE y == <<"cstr", o>>
    <3>3. y \in Places /\ ptr[y] = b
      BY PtrAt
    <3>4. \A p \in Bytes : cstr'[p] = IF y = <<"cstr", p>> THEN None ELSE cstr[p]
      BY <3>2, PlacesDiffer
    <3>5. \A p : y # <<"buf", p>> /\ y # <<"item", p>> /\ y # <<"view", p>>
      BY PlacesDiffer
    <3>6. DOMAIN heap' = (DOMAIN heap \ {ptr[y]}) \cup ({None} \ {None})
      BY <3>1, <3>3
    <3> HIDE DEF y
    <3>7. Apportioned(ptr, DOMAIN heap)'
      BY <1>1, <1>4, <3>3, <3>4, <3>5, <3>6, Reapportioned
    <3> QED
      BY <3>1, <3>2, <3>7
  <2> QED
    BY <1>1, <2>1, <2>2, <2>3
<1>6. Types'
  BY <1>1, <1>3, <1>5 DEF BInv, Types
<1>7. BytesKept(o)'
  <2>1. Folded(o)' = x
    BY <1>1, <1>3, <1>5 DEF Folded, x
  <2> QED
    BY <1>1, <1>2, <1>3, <1>5, <2>1 DEF BytesKept
<1>8. BufferKept(o)'
  BY <1>1, <1>2, <1>5, ObjectsStay, OnePlace
<1>9. bufOf[o] # None => heap'[bufOf[o]] = heap[bufOf[o]]
  BY <1>2, <1>5, OnePlace
<1> QED
  BY <1>1, <1>2, <1>3, <1>5, <1>6, <1>7, <1>8, <1>9, BytesStep

(* A bytes that is being made gets another length. *)
LEMMA ResizeKeeps ==
    ASSUME BInv, NEW o \in Bytes, NEW n \in 0..MaxLen, Resize(o, n)
    PROVE  BInv'
<1> DEFINE b == cstr[o]
           d == bufOf[o]
<1>1. /\ o \notin made /\ b # None /\ ViewsOf(o) = {}
      /\ heap' = Restrict(heap, DOMAIN heap \ {b, d})
      /\ cstr' = [cstr EXCEPT ![o] = None] /\ cstrSize' = [cstrSize EXCEPT ![o] = None]
      /\ bufOf' = [bufOf EXCEPT ![o] = None] /\ bufLen' = [bufLen EXCEPT ![o] = 0]
      /\ owned' = owned \ {d}
      /\ item' = item /\ made' = made /\ views' = views /\ borrowed' = borrowed
  BY DEF Resize
<1>2. o \in Objects /\ truth[o] \in Payloads /\ BytesKept(o)
  BY ContentFacts DEF BInv, Types
<1>3. source[o] # None /\ source[o] \in Payloads /\ truth[o] = heap[b] /\ Len(heap[b]) = Len(source[o])
      /\ (cstrSize[o] = None \/ cstrSize[o] = Len(heap[b])) /\ Len(source[o]) \in Nat
  <2>1. source[o] # None
    BY <1>1, <1>2 DEF BytesKept
  <2>2. source[o] \in Payloads
    BY <1>2, <2>1 DEF BInv, Types
  <2> QED
    BY <1>1, <1>2, <2>1, <2>2, PayloadFacts DEF BytesKept, Folded
<1>4. Resized(o) = truth[o]
  <2>1. cstrSize[o] = None \/ cstrSize[o] >= Len(heap[b])
    BY <1>3
  <2> QED
    BY <1>1, <1>3, <2>1 DEF Resized
<1>5. PICK tail \in Tails(o, n) : /\ source' = [source EXCEPT ![o] = AtLength(truth[o], n, tail)]
                                  /\ truth' = [truth EXCEPT ![o] = AtLength(truth[o], n, tail)]
  BY <1>4 DEF Resize
<1>6. tail \in [1..n -> Data]
  BY PayloadFacts DEF Tails
<1> DEFINE x == AtLength(truth[o], n, tail)
<1>7. x \in Payloads /\ Len(x) = n /\ x # None
  BY <1>2, <1>6, AtLengthFacts, PayloadFacts
<1>8. /\ source' = [source EXCEPT ![o] = x] /\ truth' = [truth EXCEPT ![o] = x]
  BY <1>5
<1> HIDE DEF x
<1>9. /\ source'[o] = x /\ truth'[o] = x /\ cstr'[o] = None /\ cstrSize'[o] = None
      /\ bufOf'[o] = None /\ bufLen'[o] = 0
      /\ \A p \in Objects : p # o => /\ source'[p] = source[p] /\ truth'[p] = truth[p]
                                     /\ bufOf'[p] = bufOf[p] /\ bufLen'[p] = bufLen[p]
      /\ \A p \in Bytes : p # o => cstr'[p] = cstr[p] /\ cstrSize'[p] = cstrSize[p]
  BY <1>1, <1>2, <1>8 DEF BInv, Types
<1>10. /\ DOMAIN heap' = DOMAIN heap \ {b, d}
       /\ \A c \in DOMAIN heap' : heap'[c] = heap[c]
       /\ \A c \in DOMAIN heap : c # b /\ c # d => heap'[c] = heap[c]
  BY <1>1 DEF Restrict
<1>11. owned' = {bufOf'[p] : p \in {q \in Objects : bufOf'[q] # None}}
  <2>1. ASSUME NEW p \in Objects, bufOf'[p] # None
        PROVE  bufOf'[p] \in owned'
    <3>1. p # o /\ bufOf'[p] = bufOf[p]
      BY <1>9, <2>1
    <3>2. bufOf[p] \in owned /\ bufOf[p] # d
      BY <1>2, <2>1, <3>1, OwnedFacts, OnePlace
    <3> QED
      BY <1>1, <3>1, <3>2
  <2>2. ASSUME NEW c \in owned'
        PROVE  \E p \in Objects : bufOf'[p] # None /\ c = bufOf'[p]
    <3>1. c \in owned /\ c # d
      BY <1>1
    <3>2. PICK p \in Objects : bufOf[p] = c
      BY <3>1, OwnedFacts
    <3> QED
      BY <1>9, <3>1, <3>2, OwnedFacts
  <2> QED
    BY <2>1, <2>2
<1>12. Types'
  <2>1. 0 \in 0..MaxLen
    BY BuffersAssumption
  <2>2. /\ source' \in [Objects -> Payloads \cup {None}] /\ truth' \in [Objects -> Payloads]
        /\ cstr' \in [Bytes -> Blocks \cup {None}] /\ cstrSize' \in [Bytes -> 0..MaxLen \cup {None}]
        /\ bufOf' \in [Objects -> Blocks \cup {None}] /\ bufLen' \in [Objects -> 0..MaxLen]
    BY <1>1, <1>7, <1>8, <2>1 DEF BInv, Types
  <2>3. /\ DOMAIN heap' \subseteq Blocks /\ \A c \in DOMAIN heap' : heap'[c] \in Payloads
        /\ views' \in [Slots -> PyBuffer \cup {None}]
        /\ made' \subseteq Bytes /\ borrowed' \subseteq Slots
        /\ item' \in [Arrays -> Blocks \cup {None}]
    BY <1>1, <1>10 DEF BInv, Types
  <2> QED
    BY <1>11, <2>2, <2>3 DEF Types
<1>13. Apportioned(ptr, DOMAIN heap)'
  <2> DEFINE y == <<"cstr", o>>
             z == <<"buf", o>>
             f == [w \in Places |-> IF w = y THEN None ELSE ptr[w]]
             D == DOMAIN heap \ {b}
  <2>1. y \in Places /\ z \in Places /\ y # z /\ ptr[y] = b /\ ptr[z] = d
    BY <1>2, PtrAt, PlacesDiffer
  <2>2. None \notin DOMAIN heap /\ Apportioned(ptr, DOMAIN heap)
    BY BuffersAssumption DEF BInv, Types
  <2>3. /\ \A w \in Places : f[w] = IF w = y THEN None ELSE ptr[w]
        /\ D = (DOMAIN heap \ {ptr[y]}) \cup ({None} \ {None})
    BY <2>1
  <2>4. f[z] = d
    BY <2>1
  <2>5. \A w \in Places : ptr'[w] = IF w = z THEN None ELSE f[w]
    <3> SUFFICES ASSUME NEW w \in Places PROVE ptr'[w] = IF w = z THEN None ELSE f[w]
      OBVIOUS
    <3>1. ASSUME NEW p \in Bytes, w = <<"cstr", p>> PROVE ptr'[w] = IF w = z THEN None ELSE f[w]
      <4>1. ptr'[w] = cstr'[p] /\ ptr[w] = cstr[p]
        BY <3>1 DEF ptr, Places
      <4> QED
        BY <1>9, <3>1, <4>1, PlacesDiffer
    <3>2. ASSUME NEW p \in Objects, w = <<"buf", p>> PROVE ptr'[w] = IF w = z THEN None ELSE f[w]
      <4>1. ptr'[w] = bufOf'[p] /\ ptr[w] = bufOf[p]
        BY <3>2 DEF ptr, Places
      <4> QED
        BY <1>9, <3>2, <4>1, PlacesDiffer
    <3>3. ASSUME NEW p \in Arrays, w = <<"item", p>> PROVE ptr'[w] = IF w = z THEN None ELSE f[w]
      <4>1. ptr'[w] = item[p] /\ ptr[w] = item[p]
        BY <1>1, <3>3 DEF ptr, Places
      <4> QED
        BY <3>3, <4>1, PlacesDiffer
    <3>4. ASSUME NEW s \in Slots, w = <<"view", s>> PROVE ptr'[w] = IF w = z THEN None ELSE f[w]
      <4>1. ptr'[w] = VPtr(s)' /\ ptr[w] = VPtr(s)
        BY <3>4 DEF ptr, Places
      <4>2. VPtr(s)' = VPtr(s)
        BY <1>1, BytesPlaces
      <4> QED
        BY <3>4, <4>1, <4>2, PlacesDiffer
    <3> QED
      BY <3>1, <3>2, <3>3, <3>4, PlaceKinds
  <2>6. DOMAIN heap' = (D \ {f[z]}) \cup ({None} \ {None})
    BY <1>10, <2>4
  <2> HIDE DEF y, z, f, D
  <2>7. Apportioned(f, D) /\ None \notin D
    BY <2>1, <2>2, <2>3, Repointed DEF D
  <2> QED
    BY <2>1, <2>5, <2>6, <2>7, Repointed
<1>14. BytesKept(o)'
  BY <1>1, <1>7, <1>9 DEF BytesKept, Folded
<1>15. BufferKept(o)'
  BY <1>9 DEF BufferKept
<1> QED
  BY <1>1, <1>9, <1>10, <1>12, <1>13, <1>14, <1>15, BytesStep

-----------------------------------------------------------------------------
(* Views.                                                                   *)

(* One block given back, perhaps, and one allocated for x. *)
LEMMA ReplacedBlock ==
    ASSUME BInv, Room, NEW a, NEW b, b = Malloc(Without(heap, a)), NEW x \in Payloads,
           heap' = Alloc(Without(heap, a), b, x)
    PROVE  /\ b \in Blocks /\ b # None /\ b \notin DOMAIN heap \ {a}
           /\ DOMAIN heap' = (DOMAIN heap \ {a}) \cup ({b} \ {None})
           /\ \A c : c \in DOMAIN heap' <=> (c \in DOMAIN heap /\ c # a) \/ c = b
           /\ heap'[b] = x
           /\ \A c \in DOMAIN heap : c # a => heap'[c] = heap[c]
           /\ DOMAIN heap' \subseteq Blocks /\ \A c \in DOMAIN heap' : heap'[c] \in Payloads
<1> DEFINE h == Without(heap, a)
<1>1. DOMAIN h = DOMAIN heap \ {a} /\ \A c \in DOMAIN h : h[c] = heap[c]
  BY DEF Without, Restrict
<1>2. /\ Blocks \ DOMAIN h # {} /\ heap' = Alloc(h, b, x) /\ b = Malloc(h)
  BY <1>1 DEF Room
<1> HIDE DEF h
<1>3. b \in Blocks /\ b \notin DOMAIN h /\ b # None
  BY <1>2, MallocFacts
<1>4. /\ DOMAIN heap' = DOMAIN h \cup {b} /\ heap'[b] = x
      /\ \A c \in DOMAIN h : heap'[c] = h[c]
  BY <1>2, <1>3 DEF Alloc
<1>5. DOMAIN heap \subseteq Blocks /\ \A c \in DOMAIN heap : heap[c] \in Payloads
  BY DEF BInv, Types
<1> QED
  BY <1>1, <1>3, <1>4, <1>5

(* A view that is added leaves the others; and C wrote through none of its  *)
(* object's, which shows the object up to date.                             *)
LEMMA AddedView ==
    ASSUME BInv, NEW s \in Slots, NEW o \in Objects, MayView(s, o),
           \/ views' = views
           \/ /\ views' = [views EXCEPT ![s] = views'[s]]
              /\ views'[s] # None /\ views'[s].obj = o /\ ~ views'[s].wrote
    PROVE  /\ views[s] = None /\ s \notin borrowed /\ VPtr(s) = None
           /\ \A t \in Slots : t # s => views'[t] = views[t]
           /\ \A t \in Slots : views[t] # None => views'[t] = views[t]
           /\ \A t \in Slots : views[t] # None /\ views[t].wrote => ViewsOf(views[t].obj)' = {t}
           /\ \A p \in ByteArrays :
                (\A t \in ViewsOf(p)' : ~ views'[t].wrote) => \A t \in ViewsOf(p) : ~ views[t].wrote
           /\ o \in ByteArrays \cup Arrays => Content(o) = truth[o]
<1>1. views[s] = None /\ \A t \in ViewsOf(o) : ~ views[t].wrote
  BY DEF MayView
<1>2. s \notin borrowed /\ VPtr(s) = None
  BY <1>1 DEF BInv, VPtr, Private
<1>3. views \in [Slots -> PyBuffer \cup {None}]
  BY DEF BInv, Types
<1>4. \A t \in Slots : t # s => views'[t] = views[t]
  BY <1>3
<1>5. \A t \in Slots : views[t] # None => views'[t] = views[t]
  BY <1>1, <1>4
<1>6. ASSUME NEW t \in Slots, views[t] # None, views[t].wrote
      PROVE  ViewsOf(views[t].obj)' = {t}
  <2>1. PICK p \in Objects : p = views[t].obj
    BY <1>6, ViewBlock
  <2>2. ViewsOf(p) = {t}
    BY <1>6, <2>1 DEF BInv, ViewKept
  <2>3. p # o
    BY <1>1, <1>6, <2>2
  <2>4. \A r \in Slots : r \in ViewsOf(p)' => r \in ViewsOf(p)
    BY <1>4, <1>1, <2>3 DEF ViewsOf
  <2>5. t \in ViewsOf(p)'
    BY <1>5, <1>6, <2>1 DEF ViewsOf
  <2>6. ViewsOf(p)' \subseteq Slots
    BY DEF ViewsOf
  <2>7. ViewsOf(p)' = {t}
    BY <2>2, <2>4, <2>5, <2>6
  <2>8. views'[t].obj = p
    BY <1>5, <1>6, <2>1
  <2> QED
    BY <2>7, <2>8
<1>7. ASSUME NEW p \in ByteArrays, \A t \in ViewsOf(p)' : ~ views'[t].wrote, NEW t \in ViewsOf(p)
      PROVE  ~ views[t].wrote
  <2>1. t \in Slots /\ views[t] # None /\ views[t].obj = p
    BY <1>7 DEF ViewsOf
  <2>2. views'[t] = views[t]
    BY <1>5, <2>1
  <2>3. t \in ViewsOf(p)'
    BY <2>1, <2>2 DEF ViewsOf
  <2> QED
    BY <1>7, <2>2, <2>3
<1>8. o \in ByteArrays => Content(o) = truth[o]
  BY <1>1, ContentFacts DEF BInv, ByteArrayKept
<1>9. o \in Arrays => Content(o) = truth[o]
  BY DEF BInv, ArrayKept
<1> QED
  BY <1>1, <1>2, <1>4, <1>5, <1>6, <1>7, <1>8, <1>9

(* The struct of a view. *)
LEMMA ViewFacts ==
    ASSUME NEW o \in Objects, NEW b \in Blocks, NEW n \in 0..MaxLen, NEW ro \in BOOLEAN
    PROVE  /\ View(o, b, n, ro) \in PyBuffer /\ View(o, b, n, ro) # None
           /\ View(o, b, n, ro).obj = o /\ View(o, b, n, ro).buf = b
           /\ View(o, b, n, ro).len = n /\ View(o, b, n, ro).ro = ro
           /\ ~ View(o, b, n, ro).wrote
           /\ View(o, b, n, ro).sure = (o \in Bytes => o \in made \/ Producer(o))
<1>1. View(o, b, n, ro) \in PyBuffer
  BY DEF View, PyBuffer
<1>2. View(o, b, n, ro) # None
  BY <1>1, BuffersAssumption
<1> QED
  BY <1>1, <1>2 DEF View

(* A view gets a copy of the object's bytes, x, for itself. *)
LEMMA PrivateView ==
    ASSUME BInv, NEW s \in Slots, NEW o \in Objects, MayView(s, o), Room,
           NEW x \in Payloads, x = truth[o], o \notin Arrays,
           source[o] # None, Len(source[o]) = Len(x),
           NEW ro \in BOOLEAN, o \in Bytes => ro, o \in ByteArrays => ~ ro,
           NEW b, b = Malloc(heap), heap' = Alloc(heap, b, x),
           views' = [views EXCEPT ![s] = View(o, b, Len(x), ro)],
           source' = source, item' = item, made' = made, cstr' = cstr, cstrSize' = cstrSize,
           bufOf' = bufOf, bufLen' = bufLen, owned' = owned, borrowed' = borrowed, truth' = truth
    PROVE  BInv'
<1>1. b \in Blocks /\ b \notin DOMAIN heap /\ b # None
  BY MallocFacts DEF Room
<1>2. /\ DOMAIN heap' = DOMAIN heap \cup {b} /\ heap'[b] = x
      /\ \A c \in DOMAIN heap : heap'[c] = heap[c]
  BY <1>1 DEF Alloc
<1>3. Len(x) \in 0..MaxLen
  BY PayloadFacts
<1> DEFINE v == View(o, b, Len(x), ro)
<1>4. /\ v \in PyBuffer /\ v # None /\ v.obj = o /\ v.buf = b /\ v.len = Len(x) /\ v.ro = ro
      /\ ~ v.wrote /\ v.sure = (o \in Bytes => o \in made \/ Producer(o))
  <2>1. b \in Blocks /\ Len(x) \in 0..MaxLen /\ o \in Objects /\ ro \in BOOLEAN
    BY <1>1, <1>3
  <2> QED
    BY ONLY <2>1, ViewFacts
<1>5. views \in [Slots -> PyBuffer \cup {None}]
  BY DEF BInv, Types
<1>6. views'[s] = v /\ views' = [views EXCEPT ![s] = views'[s]] /\ views' \in [Slots -> PyBuffer \cup {None}]
  BY <1>4, <1>5
<1> HIDE DEF v
<1>7. /\ views[s] = None /\ s \notin borrowed /\ VPtr(s) = None
      /\ \A t \in Slots : t # s => views'[t] = views[t]
      /\ \A t \in Slots : views[t] # None => views'[t] = views[t]
      /\ \A t \in Slots : views[t] # None /\ views[t].wrote => ViewsOf(views[t].obj)' = {t}
      /\ \A p \in ByteArrays :
            (\A t \in ViewsOf(p)' : ~ views'[t].wrote) => \A t \in ViewsOf(p) : ~ views[t].wrote
  <2>1. views'[s] # None /\ views'[s].obj = o /\ ~ views'[s].wrote
    BY <1>4, <1>6
  <2> QED
    BY <1>6, <2>1, AddedView
<1>8. Types'
  BY <1>1, <1>2, <1>6 DEF BInv, Types
<1>9. b \notin owned
  BY <1>1, OwnedFacts, OnePlace
<1>10. Apportioned(ptr, DOMAIN heap)'
  <2> DEFINE y == <<"view", s>>
  <2>1. y \in Places /\ ptr[y] = None
    BY <1>7, PtrAt
  <2>2. VPtr(s)' = b
    BY <1>1, <1>4, <1>6, <1>7, <1>9 DEF VPtr, Private
  <2>3. \A t \in Slots : VPtr(t)' = IF y = <<"view", t>> THEN b ELSE VPtr(t)
    BY <1>7, <2>2, SameVPtr, PlacesDiffer
  <2>4. \A p : y # <<"buf", p>> /\ y # <<"item", p>> /\ y # <<"cstr", p>>
    BY PlacesDiffer
  <2>5. DOMAIN heap' = (DOMAIN heap \ {ptr[y]}) \cup ({b} \ {None})
    BY <1>1, <1>2, <2>1, BuffersAssumption DEF BInv, Types
  <2> HIDE DEF y
  <2>6. /\ \A p \in Bytes : cstr'[p] = IF y = <<"cstr", p>> THEN b ELSE cstr[p]
        /\ \A p \in Objects : bufOf'[p] = IF y = <<"buf", p>> THEN b ELSE bufOf[p]
        /\ \A p \in Arrays : item'[p] = IF y = <<"item", p>> THEN b ELSE item[p]
    BY <2>4
  <2>7. b = None \/ b \notin DOMAIN heap \ {ptr[y]}
    BY <1>1
  <2> QED
    BY ONLY BInv, <2>1, <2>3, <2>5, <2>6, <2>7, Reapportioned, SMTT(60)
<1>11. \A p \in Bytes : BytesKept(p)'
  BY <1>2, ObjectsStay, OnePlace
<1>12. \A p \in ByteArrays : ByteArrayKept(p)'
  BY <1>7, ObjectsStay
<1>13. \A p \in Arrays : ArrayKept(p)'
  BY <1>2, ObjectsStay, OnePlace
<1>14. \A p \in Objects : BufferKept(p)'
  BY <1>2, ObjectsStay, OnePlace
<1>15. ASSUME NEW t \in Slots PROVE ViewKept(t)'
  <2>1. CASE t = s
    <3>1. Content(o)' = source[o]
      BY DEF Content
    <3>2. v.buf \notin owned'
      BY <1>4, <1>9
    <3>3. s \notin borrowed'
      BY <1>7
    <3>4. v.sure => heap'[b] = truth'[o]
      BY <1>2
    <3>5. /\ v.buf # None /\ v.len = Len(heap'[v.buf]) /\ Content(o)' # None
          /\ v.len = Len(Content(o)')
          /\ v.sure => heap'[v.buf] = truth'[o]
      BY <1>1, <1>2, <1>4, <3>1, <3>4
    <3>6. /\ o \in Bytes => v.ro
          /\ o \in ByteArrays => ~ v.ro
          /\ o \notin Bytes => v.sure
      BY <1>4
    <3>7. views'[s] = v /\ v.obj = o /\ ~ v.wrote
      BY <1>4, <1>6
    <3> QED
      BY <2>1, <3>2, <3>3, <3>5, <3>6, <3>7 DEF ViewKept
  <2>2. CASE t # s /\ views[t] = None
    BY <1>7, <2>2 DEF ViewKept
  <2>3. CASE t # s /\ views[t] # None
    <3>1. views[t].obj \in Objects /\ views[t].buf \in DOMAIN heap
      BY <2>3, ViewBlock
    <3> DEFINE p == views[t].obj
    <3>2. item[p] # None /\ p \in Arrays => heap'[item[p]] = heap[item[p]]
      BY <1>2, OnePlace
    <3>3. Content(p)' = Content(p)
      BY <1>7, <2>3, <3>2 DEF Content
    <3>4. Content(p) # None
      BY <2>3 DEF BInv, ViewKept
    <3>5. heap'[views[t].buf] = heap[views[t].buf]
      BY <1>2, <3>1
    <3> QED
      BY <1>7, <2>3, <3>3, <3>4, <3>5, ViewStays
  <2> QED
    BY <2>1, <2>2, <2>3
<1>16. \A t \in borrowed' : views'[t] # None
  BY <1>7 DEF BInv, Types
<1> QED
  BY <1>8, <1>10, <1>11, <1>12, <1>13, <1>14, <1>15, <1>16 DEF BInv

(* The bytes of an object, when a view of it may be made from its buffer. *)
LEMMA FreshContent ==
    ASSUME BInv, NEW s \in Slots, NEW o \in Objects, MayView(s, o), There(o)
    PROVE  /\ Content(o) \in Payloads /\ Content(o) # None
           /\ (o \in Bytes => o \in made) => Content(o) = truth[o]
<1>1. o \in Bytes => /\ source[o] \in Payloads /\ Content(o) = source[o]
                     /\ o \in made => source[o] = truth[o]
  BY ContentFacts DEF There, BInv, Types, BytesKept
<1>2. o \notin Bytes => o \in ByteArrays \cup Arrays
  BY DEF Objects
<1>3. Content(o) \in Payloads
  BY <1>1, <1>2, ContentFacts
<1>4. o \notin Bytes => Content(o) = truth[o]
  <2>1. o \in ByteArrays => Content(o) = truth[o]
    BY ContentFacts DEF BInv, ByteArrayKept, MayView
  <2> QED
    BY <1>2, <2>1 DEF BInv, ArrayKept
<1> QED
  BY <1>1, <1>3, <1>4, BuffersAssumption

(* The buffer an object keeps is brought up to date: it has x, other blocks *)
(* are what they were, and a view of it was of the same length.             *)
Refreshed(o, b, x) ==
    /\ b \in Blocks /\ b # None /\ b \notin DOMAIN heap \ {bufOf[o]}
    /\ DOMAIN heap' = (DOMAIN heap \ {bufOf[o]}) \cup ({b} \ {None})
    /\ heap'[b] = x
    /\ \A c \in DOMAIN heap : c # bufOf[o] => heap'[c] = heap[c]
    /\ DOMAIN heap' \subseteq Blocks /\ \A c \in DOMAIN heap' : heap'[c] \in Payloads
    /\ bufOf' \in [Objects -> Blocks \cup {None}] /\ bufLen' \in [Objects -> 0..MaxLen]
    /\ bufOf'[o] = b /\ bufLen'[o] = Len(x)
    /\ \A p \in Objects : p # o => bufOf'[p] = bufOf[p] /\ bufLen'[p] = bufLen[p]
    /\ owned' = {bufOf'[p] : p \in {q \in Objects : bufOf'[q] # None}}
    /\ \/ bufOf[o] = b /\ Len(heap[b]) = Len(x)
       \/ \A t \in Slots : views[t] # None => views[t].buf # bufOf[o]

LEMMA RefreshFacts ==
    ASSUME BInv, NEW o \in Objects, Content(o) \in Payloads, Room, Refresh(o),
           NEW b, b = Buffer(o), NEW x, x = Content(o)
    PROVE  Refreshed(o, b, x)
<1>1. Len(x) \in 0..MaxLen /\ x \in Payloads
  BY PayloadFacts
<1>2. /\ bufOf \in [Objects -> Blocks \cup {None}] /\ bufLen \in [Objects -> 0..MaxLen]
      /\ DOMAIN heap \subseteq Blocks /\ \A c \in DOMAIN heap : heap[c] \in Payloads
      /\ owned = {bufOf[p] : p \in {q \in Objects : bufOf[q] # None}}
  BY DEF BInv, Types
<1>3. CASE Cached(o, Len(Content(o)))
  <2>1. b = bufOf[o] /\ b # None /\ bufLen[o] = Len(x)
    BY <1>3 DEF Cached, Buffer
  <2>2. b \in DOMAIN heap /\ Len(heap[b]) = Len(x)
    BY <2>1, OnePlace DEF BInv, BufferKept
  <2>3. /\ heap' = [heap EXCEPT ![b] = x]
        /\ bufOf' = bufOf /\ bufLen' = bufLen /\ owned' = owned
    BY <1>3 DEF Refresh, lent
  <2>4. /\ DOMAIN heap' = DOMAIN heap /\ heap'[b] = x
        /\ \A c \in DOMAIN heap : c # b => heap'[c] = heap[c]
    BY <2>2, <2>3
  <2>5. DOMAIN heap' = (DOMAIN heap \ {bufOf[o]}) \cup ({b} \ {None})
    BY <2>1, <2>2, <2>4
  <2>6. \A c \in DOMAIN heap' : heap'[c] \in Payloads
    BY <1>1, <1>2, <2>4
  <2>7. /\ b \in Blocks /\ b # None /\ b \notin DOMAIN heap \ {bufOf[o]}
        /\ DOMAIN heap' \subseteq Blocks
    BY <1>2, <2>1, <2>2, <2>4
  <2>8. /\ \A c \in DOMAIN heap : c # bufOf[o] => heap'[c] = heap[c]
        /\ bufOf' \in [Objects -> Blocks \cup {None}] /\ bufLen' \in [Objects -> 0..MaxLen]
        /\ bufOf'[o] = b /\ bufLen'[o] = Len(x)
        /\ \A p \in Objects : p # o => bufOf'[p] = bufOf[p] /\ bufLen'[p] = bufLen[p]
    BY <1>2, <2>1, <2>3, <2>4
  <2>9. owned' = {bufOf'[p] : p \in {q \in Objects : bufOf'[q] # None}}
    BY <1>2, <2>3
  <2> QED
    BY <2>1, <2>2, <2>4, <2>5, <2>6, <2>7, <2>8, <2>9 DEF Refreshed
<1>4. CASE ~ Cached(o, Len(Content(o)))
  <2>0. PICK a : a = bufOf[o]
    OBVIOUS
  <2>6. b = Malloc(Without(heap, a)) /\ heap' = Alloc(Without(heap, a), b, x)
    BY <1>4, <2>0 DEF Refresh, Buffer
  <2>1. /\ bufOf' = [bufOf EXCEPT ![o] = b] /\ bufLen' = [bufLen EXCEPT ![o] = Len(x)]
        /\ owned' = (owned \ {a}) \cup {b}
    BY <1>4, <2>0 DEF Refresh, Buffer
  <2>2. /\ b \in Blocks /\ b # None /\ b \notin DOMAIN heap \ {a}
        /\ DOMAIN heap' = (DOMAIN heap \ {a}) \cup ({b} \ {None})
        /\ heap'[b] = x
        /\ \A c \in DOMAIN heap : c # a => heap'[c] = heap[c]
        /\ DOMAIN heap' \subseteq Blocks /\ \A c \in DOMAIN heap' : heap'[c] \in Payloads
    <3>1. b \in Blocks /\ b # None /\ b \notin DOMAIN heap \ {a}
      BY ONLY BInv, Room, <1>1, <2>6, ReplacedBlock
    <3>2. heap'[b] = x
      BY ONLY <2>6 DEF Alloc
    <3>5. DOMAIN heap' = (DOMAIN heap \ {a}) \cup ({b} \ {None})
      <4>1. \A c : c \in DOMAIN heap' <=> (c \in DOMAIN heap /\ c # a) \/ c = b
        BY ONLY BInv, Room, <1>1, <2>6, ReplacedBlock
      <4> QED
        BY <3>1, <4>1
    <3>3. \A c \in DOMAIN heap : c # a => heap'[c] = heap[c]
      BY ONLY BInv, Room, <1>1, <2>6, ReplacedBlock
    <3>4. DOMAIN heap' \subseteq Blocks /\ \A c \in DOMAIN heap' : heap'[c] \in Payloads
      BY ONLY BInv, Room, <1>1, <2>6, ReplacedBlock
    <3> QED
      BY <3>1, <3>2, <3>3, <3>4, <3>5
  <2>3. /\ bufOf' \in [Objects -> Blocks \cup {None}] /\ bufLen' \in [Objects -> 0..MaxLen]
        /\ bufOf'[o] = b /\ bufLen'[o] = Len(x)
        /\ \A p \in Objects : p # o => bufOf'[p] = bufOf[p] /\ bufLen'[p] = bufLen[p]
    BY <1>1, <1>2, <2>0, <2>1, <2>2
  <2>4. owned' = {bufOf'[p] : p \in {q \in Objects : bufOf'[q] # None}}
    <3>1. ASSUME NEW c \in owned' PROVE \E p \in Objects : bufOf'[p] # None /\ c = bufOf'[p]
      <4>1. CASE c = b
        BY <2>2, <2>3, <4>1
      <4>2. CASE c \in owned /\ c # a
        <5>1. PICK p \in Objects : bufOf[p] = c /\ c # None
          BY <2>0, <4>2, OwnedFacts
        <5> QED
          BY <2>0, <2>3, <4>2, <5>1
      <4> QED
        BY <2>1, <4>1, <4>2
    <3>2. ASSUME NEW p \in Objects, bufOf'[p] # None PROVE bufOf'[p] \in owned'
      <4>1. CASE p = o
        BY <2>1, <2>3, <4>1
      <4>2. CASE p # o
        <5>1. bufOf[p] # None /\ bufOf[p] \in owned /\ bufOf[p] # a
          BY <2>0, <2>3, <3>2, <4>2, OwnedFacts, OnePlace
        <5> QED
          BY <2>1, <2>3, <4>2, <5>1
      <4> QED
        BY <4>1, <4>2
    <3> QED
      BY <3>1, <3>2
  <2>5. ASSUME NEW t \in Slots, views[t] # None, views[t].buf = a PROVE FALSE
    <3>1. /\ views[t].obj = o /\ t \notin borrowed /\ a \in owned /\ a # None
      BY <2>0, <2>5, ViewApart, ViewBlock
    <3>2. Len(heap[a]) = Len(x)
      BY <2>5, <3>1 DEF BInv, ViewKept
    <3>3. bufLen[o] = Len(x)
      BY <2>0, <3>1, <3>2 DEF BInv, BufferKept
    <3> QED
      BY <1>4, <2>0, <3>1, <3>3 DEF Cached
  <2> QED
    BY <2>0, <2>2, <2>3, <2>4, <2>5 DEF Refreshed
<1> QED
  BY <1>3, <1>4

(* A view of the buffer an object keeps, or none, if it was refused. *)
LEMMA RefreshKeeps ==
    ASSUME BInv, NEW s \in Slots, NEW o \in Objects, MayView(s, o), There(o), ~ Producer(o),
           Room, Refresh(o), NEW b, b = Buffer(o), NEW x, x = Content(o),
           NEW ro \in BOOLEAN, o \in ByteArrays => ~ ro, o \notin ByteArrays => ro,
           views' = views \/ views' = [views EXCEPT ![s] = View(o, b, Len(x), ro)],
           source' = source, item' = item, made' = made, cstr' = cstr, cstrSize' = cstrSize,
           borrowed' = borrowed, truth' = truth
    PROVE  BInv'
<1> DEFINE v == View(o, b, Len(x), ro)
<1>1. /\ x \in Payloads /\ x # None /\ Len(x) \in 0..MaxLen
      /\ (o \in Bytes => o \in made) => x = truth[o]
  BY FreshContent, PayloadFacts
<1>2. views' = views \/ views' = [views EXCEPT ![s] = v]
  OBVIOUS
<1>2a. Refreshed(o, b, x)
  BY ONLY BInv, o \in Objects, Room, Refresh(o), b = Buffer(o), x = Content(o), <1>1, RefreshFacts
<1>3. /\ b \in Blocks /\ b # None /\ b \notin DOMAIN heap \ {bufOf[o]}
      /\ DOMAIN heap' = (DOMAIN heap \ {bufOf[o]}) \cup ({b} \ {None})
      /\ heap'[b] = x
      /\ \A c \in DOMAIN heap : c # bufOf[o] => heap'[c] = heap[c]
      /\ DOMAIN heap' \subseteq Blocks /\ \A c \in DOMAIN heap' : heap'[c] \in Payloads
      /\ bufOf' \in [Objects -> Blocks \cup {None}] /\ bufLen' \in [Objects -> 0..MaxLen]
      /\ bufOf'[o] = b /\ bufLen'[o] = Len(x)
      /\ \A p \in Objects : p # o => bufOf'[p] = bufOf[p] /\ bufLen'[p] = bufLen[p]
      /\ owned' = {bufOf'[p] : p \in {q \in Objects : bufOf'[q] # None}}
      /\ \/ bufOf[o] = b /\ Len(heap[b]) = Len(x)
         \/ \A t \in Slots : views[t] # None => views[t].buf # bufOf[o]
  BY <1>2a DEF Refreshed
<1>4. /\ v \in PyBuffer /\ v # None /\ v.obj = o /\ v.buf = b /\ v.len = Len(x) /\ v.ro = ro
      /\ ~ v.wrote /\ v.sure = (o \in Bytes => o \in made \/ Producer(o))
  <2>1. b \in Blocks /\ Len(x) \in 0..MaxLen /\ o \in Objects /\ ro \in BOOLEAN
    BY <1>1, <1>3
  <2> QED
    BY ONLY <2>1, ViewFacts
<1>5. views \in [Slots -> PyBuffer \cup {None}]
  BY DEF BInv, Types
<1> HIDE DEF v
<1>6. /\ views' \in [Slots -> PyBuffer \cup {None}]
      /\ views' = views \/ (views' = [views EXCEPT ![s] = v] /\ views'[s] = v)
  <2>1. views' = [views EXCEPT ![s] = v] => views' \in [Slots -> PyBuffer \cup {None}] /\ views'[s] = v
    BY <1>4, <1>5
  <2> QED
    BY <1>2, <1>5, <2>1
<1>7. /\ views[s] = None /\ s \notin borrowed /\ VPtr(s) = None
      /\ \A t \in Slots : t # s => views'[t] = views[t]
      /\ \A t \in Slots : views[t] # None => views'[t] = views[t]
      /\ \A t \in Slots : views[t] # None /\ views[t].wrote => ViewsOf(views[t].obj)' = {t}
      /\ \A p \in ByteArrays :
            (\A t \in ViewsOf(p)' : ~ views'[t].wrote) => \A t \in ViewsOf(p) : ~ views[t].wrote
  <2>1. CASE views' = views
    BY <2>1, AddedView
  <2>2. CASE views' = [views EXCEPT ![s] = v] /\ views'[s] = v
    BY <1>4, <2>2, AddedView
  <2> QED
    BY <1>6, <2>1, <2>2
<1>8. Types'
  BY <1>3, <1>6 DEF BInv, Types
<1>9. /\ b \in owned' /\ \A c : c \in owned' => c = b \/ (c \in owned /\ c # bufOf[o])
      /\ \A c \in owned : c # bufOf[o] => c \in owned'
  <2>1. b \in owned'
    BY <1>3
  <2>2. ASSUME NEW c \in owned', c # b PROVE c \in owned /\ c # bufOf[o]
    <3>1. PICK p \in Objects : bufOf'[p] # None /\ c = bufOf'[p]
      BY <1>3
    <3>2. p # o /\ bufOf[p] = c /\ c # None
      BY <1>3, <2>2, <3>1
    <3> QED
      BY <3>2, OwnedFacts, OnePlace
  <2>3. ASSUME NEW c \in owned, c # bufOf[o] PROVE c \in owned'
    <3>1. PICK p \in Objects : bufOf[p] = c /\ c # None
      BY OwnedFacts
    <3> QED
      BY <1>3, <2>3, <3>1
  <2> QED
    BY <2>1, <2>2, <2>3
(* The memory of a view there is. *)
<1>10. ASSUME NEW t \in Slots, views[t] # None
       PROVE  /\ views[t].buf \in owned' => views[t].buf \in owned
              /\ views[t].buf \in owned => views[t].buf \in owned'
              /\ views[t].buf = b => views[t].buf = bufOf[o]
              /\ views[t].buf # bufOf[o] => heap'[views[t].buf] = heap[views[t].buf]
              /\ views[t].buf = bufOf[o] => views[t].obj = o /\ bufOf[o] = b
                                            /\ Len(heap[b]) = Len(x)
  <2>1. /\ views[t].buf \in DOMAIN heap /\ views[t].buf # None
        /\ views[t].buf = bufOf[o] => views[t].obj = o /\ views[t].buf \in owned
    BY <1>10, ViewBlock, ViewApart
  <2>2. views[t].buf = b => views[t].buf = bufOf[o]
    BY <1>3, <2>1
  <2>3. views[t].buf = bufOf[o] => bufOf[o] = b /\ Len(heap[b]) = Len(x)
    BY <1>3, <1>10
  <2> QED
    BY <1>3, <1>9, <2>1, <2>2, <2>3
<1>11. VPtr(s)' = None
  <2>1. CASE views'[s] = None
    BY <2>1 DEF VPtr, Private
  <2>2. CASE views'[s] = v
    BY <1>4, <1>9, <2>2 DEF VPtr, Private
  <2> QED
    BY <1>6, <1>7, <2>1, <2>2
<1>12. \A t \in Slots : VPtr(t)' = VPtr(t)
  <2> SUFFICES ASSUME NEW t \in Slots, t # s PROVE VPtr(t)' = VPtr(t)
    BY <1>7, <1>11
  <2> QED
    BY <1>7, <1>10, SameVPtr
<1>13. Apportioned(ptr, DOMAIN heap)'
  <2> DEFINE y == <<"buf", o>>
  <2>1. y \in Places /\ ptr[y] = bufOf[o]
    BY PtrAt
  <2>2. \A p \in Objects : bufOf'[p] = IF y = <<"buf", p>> THEN b ELSE bufOf[p]
    BY <1>3, PlacesDiffer
  <2>3. \A p : y # <<"cstr", p>> /\ y # <<"item", p>> /\ y # <<"view", p>>
    BY PlacesDiffer
  <2> HIDE DEF y
  <2>4. /\ \A p \in Bytes : cstr'[p] = IF y = <<"cstr", p>> THEN b ELSE cstr[p]
        /\ \A p \in Arrays : item'[p] = IF y = <<"item", p>> THEN b ELSE item[p]
        /\ \A t \in Slots : VPtr(t)' = IF y = <<"view", t>> THEN b ELSE VPtr(t)
    BY <1>12, <2>3
  <2>5. b \notin DOMAIN heap \ {ptr[y]}
    BY <1>3, <2>1
  <2>6. DOMAIN heap' = (DOMAIN heap \ {ptr[y]}) \cup ({b} \ {None})
    BY <1>3, <2>1
  <2> QED
    BY ONLY BInv, <2>1, <2>2, <2>4, <2>5, <2>6, Reapportioned, SMTT(60)
<1>14. \A p \in Bytes : BytesKept(p)'
  BY <1>3, ObjectsStay, OnePlace
<1>15. \A p \in ByteArrays : ByteArrayKept(p)'
  BY <1>7, ObjectsStay
<1>16. \A p \in Arrays : item[p] # None => heap'[item[p]] = heap[item[p]]
  BY <1>3, OnePlace
<1>17. \A p \in Arrays : ArrayKept(p)'
  BY <1>16, ObjectsStay
<1>18. ASSUME NEW p \in Objects PROVE BufferKept(p)'
  <2>1. CASE p = o
    BY <1>3, <2>1 DEF BufferKept
  <2>2. CASE p # o
    BY <1>3, <2>2, ObjectsStay, OnePlace
  <2> QED
    BY <2>1, <2>2
<1>19. ASSUME NEW p \in Objects PROVE Content(p)' = Content(p)
  BY <1>16 DEF Content
<1>20. ASSUME NEW t \in Slots PROVE ViewKept(t)'
  <2>1. CASE views[t] # None
    <3>1. PICK p \in Objects : p = views[t].obj
      BY <2>1, ViewBlock
    <3>2. /\ views'[t] = views[t]
          /\ t \notin borrowed /\ views[t].buf \in owned => views[t].buf = bufOf[p]
          /\ t \in borrowed => p \in Arrays /\ views[t].buf = item[p]
          /\ Content(p) # None
          /\ views[t].sure => heap[views[t].buf] = truth[p]
          /\ p \in Bytes /\ views[t].sure /\ views[t].buf \in owned => p \in made
      BY <1>7, <2>1, <3>1 DEF BInv, ViewKept
    <3>3. /\ Len(heap'[views[t].buf]) = Len(heap[views[t].buf])
          /\ views[t].sure => heap'[views[t].buf] = heap[views[t].buf]
      <4>1. CASE views[t].buf # bufOf[o]
        BY <1>10, <2>1, <4>1
      <4>2. CASE views[t].buf = bufOf[o]
        <5>1. p = o /\ bufOf[o] = b /\ Len(heap[b]) = Len(x) /\ b \in owned
          BY <1>10, <2>1, <3>1, <4>2, ViewApart
        <5>2. views[t].sure => x = truth[o]
          BY <1>1, <3>2, <4>2, <5>1
        <5> QED
          BY <1>3, <3>2, <4>2, <5>1, <5>2
      <4> QED
        BY <4>1, <4>2
    <3>4. t \notin borrowed /\ views[t].buf \in owned => bufOf'[p] = bufOf[p]
      <4>1. CASE p = o
        BY <1>3, <1>10, <2>1, <3>2, <4>1
      <4>2. CASE p # o
        BY <1>3, <4>2
      <4> QED
        BY <4>1, <4>2
    <3>5. /\ Content(views[t].obj)' # None
          /\ Len(Content(views[t].obj)') = Len(Content(views[t].obj))
      BY <1>19, <3>1, <3>2
    <3>6. views[t].buf \in owned' => views[t].buf \in owned
      BY <1>10, <2>1
    <3>7. views[t].wrote => ViewsOf(views[t].obj)' = {t}
      BY <1>7, <2>1
    <3> QED
      BY <2>1, <3>1, <3>2, <3>3, <3>4, <3>5, <3>6, <3>7, ViewStays
  <2>2. CASE views'[t] = None
    BY <2>2 DEF ViewKept
  <2>3. CASE t = s /\ views'[s] = v
    <3>1. o \in Bytes /\ v.sure => o \in made
      BY <1>4
    <3>2. v.sure => heap'[v.buf] = truth'[o]
      BY <1>1, <1>3, <1>4, <3>1
    <3>3. /\ v.buf # None /\ v.len = Len(heap'[v.buf]) /\ Content(o)' # None
          /\ v.len = Len(Content(o)') /\ v.buf = bufOf'[o]
      BY <1>1, <1>3, <1>4, <1>19
    <3>4. /\ o \in Bytes => v.ro
          /\ o \in ByteArrays => ~ v.ro
          /\ o \in Arrays => v.ro
          /\ o \notin Bytes => v.sure
      BY <1>4, ContentFacts
    <3>5. s \notin borrowed' /\ views'[s] = v /\ v.obj = o /\ ~ v.wrote
      BY <1>4, <1>7, <2>3
    <3> QED
      BY <2>3, <3>1, <3>2, <3>3, <3>4, <3>5 DEF ViewKept
  <2> QED
    BY <1>6, <1>7, <2>1, <2>2, <2>3
<1>21. \A t \in borrowed' : views'[t] # None
  BY <1>7 DEF BInv, Types
<1> QED
  BY <1>8, <1>13, <1>14, <1>15, <1>17, <1>18, <1>20, <1>21 DEF BInv

(* A view: C's copy of what it fills, or the buffer the object keeps. *)
LEMMA GetBufferKeeps ==
    ASSUME BInv, NEW s \in Slots, NEW o \in Objects, NEW writable \in BOOLEAN, There(o),
           GetBuffer(s, o, writable)
    PROVE  BInv'
<1>1. /\ MayView(s, o)
      /\ source' = source /\ item' = item /\ made' = made
      /\ cstr' = cstr /\ cstrSize' = cstrSize /\ truth' = truth /\ borrowed' = borrowed
  BY DEF GetBuffer, PrivateCopy, objects, chars
<1>2. CASE PrivateCopy(s, o)
  <2>1. o \in Bytes /\ cstr[o] # None /\ cstrSize[o] # None
    BY <1>2 DEF PrivateCopy, Producer
  <2>2. PICK x : x = heap[cstr[o]]
    OBVIOUS
  <2>3. PICK b : b = Malloc(heap)
    OBVIOUS
  <2>4. x \in Payloads /\ cstr[o] \in DOMAIN heap
    BY <2>1, <2>2, OnePlace DEF BInv, Types
  <2>5. /\ source[o] # None /\ x = truth[o] /\ Len(source[o]) = Len(x)
        /\ cstrSize[o] = Len(x)
    BY <2>1, <2>2 DEF BInv, BytesKept, Folded
  <2>6. o \notin Arrays /\ o \notin ByteArrays
    BY <2>1, ContentFacts
  <2>7. /\ heap' = Alloc(heap, b, x)
        /\ views' = [views EXCEPT ![s] = View(o, b, Len(x), TRUE)]
        /\ bufOf' = bufOf /\ bufLen' = bufLen /\ owned' = owned
    BY <1>2, <2>2, <2>3, <2>5 DEF PrivateCopy, lent
  <2>8. Room
    BY <1>2 DEF PrivateCopy
  <2> QED
    BY ONLY BInv, s \in Slots, o \in Objects, <1>1, <2>3, <2>4, <2>5, <2>6, <2>7, <2>8, PrivateView
<1>3. CASE ~ PrivateCopy(s, o)
  <2>1. PICK b : b = Buffer(o)
    OBVIOUS
  <2>2. PICK x : x = Content(o)
    OBVIOUS
  <2>3. PICK ro \in BOOLEAN : (o \in ByteArrays => ~ ro) /\ (o \notin ByteArrays => ro)
    OBVIOUS
  <2>4. ro = (o \notin ByteArrays)
    BY <2>3
  <2>5. ~ Producer(o) /\ Room /\ Refresh(o)
    BY <1>3 DEF GetBuffer
  <2>6. views' = views \/ views' = [views EXCEPT ![s] = View(o, b, Len(x), ro)]
    BY <1>3, <2>1, <2>2, <2>4 DEF GetBuffer
  <2> QED
    BY ONLY BInv, s \in Slots, o \in Objects, There(o), <1>1, <2>1, <2>2, <2>3, <2>5, <2>6, RefreshKeeps
<1> QED
  BY <1>2, <1>3

(* A writable view: the items of an array, or a copy of a bytearray. *)
LEMMA ParseWritableKeeps ==
    ASSUME BInv, ~ EmptyArrays, NEW s \in Slots, NEW o \in Objects, There(o), ParseWritable(s, o)
    PROVE  BInv'
<1>1. /\ MayView(s, o)
      /\ source' = source /\ item' = item /\ made' = made
      /\ cstr' = cstr /\ cstrSize' = cstrSize /\ truth' = truth
      /\ bufOf' = bufOf /\ bufLen' = bufLen /\ owned' = owned
  BY DEF ParseWritable, objects, chars, lent
<1>2. CASE o \in ByteArrays
  <2>1. PICK x : x = source[o]
    OBVIOUS
  <2>2. PICK b : b = Malloc(heap)
    OBVIOUS
  <2>3. o \notin Arrays /\ o \notin Bytes
    BY <1>2, ContentFacts
  <2>4. x \in Payloads /\ x # None /\ x = Content(o) /\ x = truth[o]
    BY <1>1, <1>2, <2>1, <2>3, FreshContent, ContentFacts
  <2>5. /\ Room /\ heap' = Alloc(heap, b, x) /\ borrowed' = borrowed
        /\ views' = [views EXCEPT ![s] = View(o, b, Len(x), FALSE)]
    BY <2>1, <2>2, <2>3 DEF ParseWritable
  <2>6. source[o] # None /\ Len(source[o]) = Len(x)
    BY <2>1, <2>4
  <2> QED
    BY ONLY BInv, s \in Slots, o \in Objects, <1>1, <2>2, <2>3, <2>4, <2>5, <2>6, PrivateView
<1>3. CASE o \in Arrays
  <2>1. PICK x : x = Content(o)
    OBVIOUS
  <2>2. PICK b : b = item[o]
    OBVIOUS
  <2>3. b # None /\ b \in Blocks /\ b \in DOMAIN heap
    BY <1>3, <2>2, OnePlace DEF There, BInv, Types
  <2>4. x \in Payloads /\ x # None /\ x = heap[b] /\ x = truth[o] /\ o \notin Bytes
        /\ o \notin ByteArrays
    BY <1>1, <1>3, <2>1, <2>2, <2>3, FreshContent, ContentFacts
  <2>5. Len(x) \in 0..MaxLen
    BY <2>4, PayloadFacts
  <2>0. PICK ro \in BOOLEAN : ro = FALSE
    OBVIOUS
  <2> DEFINE v == View(o, b, Len(x), ro)
  <2>6. /\ v \in PyBuffer /\ v # None /\ v.obj = o /\ v.buf = b /\ v.len = Len(x) /\ v.ro = ro
        /\ ~ v.wrote /\ v.sure = (o \in Bytes => o \in made \/ Producer(o))
    <3>1. b \in Blocks /\ Len(x) \in 0..MaxLen /\ o \in Objects /\ ro \in BOOLEAN
      BY <2>0, <2>3, <2>5
    <3> QED
      BY ONLY <3>1, ViewFacts
  <2>7. views \in [Slots -> PyBuffer \cup {None}] /\ borrowed \subseteq Slots
    BY DEF BInv, Types
  <2>8. /\ views' = [views EXCEPT ![s] = v] /\ borrowed' = borrowed \cup {s} /\ heap' = heap
    BY <2>0, <2>1, <2>2, <2>4 DEF ParseWritable
  <2>9. views'[s] = v /\ views' = [views EXCEPT ![s] = views'[s]]
        /\ views' \in [Slots -> PyBuffer \cup {None}]
    BY <2>6, <2>7, <2>8
  <2> HIDE DEF v
  <2>10. /\ views[s] = None /\ s \notin borrowed /\ VPtr(s) = None
         /\ \A t \in Slots : t # s => views'[t] = views[t]
         /\ \A t \in Slots : views[t] # None => views'[t] = views[t]
         /\ \A t \in Slots : views[t] # None /\ views[t].wrote => ViewsOf(views[t].obj)' = {t}
         /\ \A p \in ByteArrays :
               (\A t \in ViewsOf(p)' : ~ views'[t].wrote) => \A t \in ViewsOf(p) : ~ views[t].wrote
    <3>1. views'[s] # None /\ views'[s].obj = o /\ ~ views'[s].wrote
      BY <2>6, <2>9
    <3> QED
      BY <1>1, <2>9, <3>1, AddedView
  <2>11. Types'
    BY <1>1, <2>7, <2>8, <2>9 DEF BInv, Types
  <2>12. \A t \in Slots : VPtr(t)' = VPtr(t)
    <3>1. VPtr(s)' = None
      BY <2>8 DEF VPtr, Private
    <3>2. ASSUME NEW t \in Slots, t # s PROVE VPtr(t)' = VPtr(t)
      BY <1>1, <2>8, <2>10, <3>2, SameVPtr
    <3> QED
      BY <2>10, <3>1, <3>2
  <2>13. Apportioned(ptr, DOMAIN heap)'
    BY <1>1, <2>8, <2>12, SamePlaces
  <2>14. \A p \in Bytes : BytesKept(p)'
    BY <1>1, <2>8, ObjectsStay
  <2>15. \A p \in ByteArrays : ByteArrayKept(p)'
    BY <1>1, <2>10, ObjectsStay
  <2>16. \A p \in Arrays : ArrayKept(p)'
    BY <1>1, <2>8, ObjectsStay
  <2>17. \A p \in Objects : BufferKept(p)'
    BY <1>1, <2>8, ObjectsStay
  <2>18. \A p : Content(p)' = Content(p)
    BY <1>1, <2>8 DEF Content
  <2>19. ASSUME NEW t \in Slots PROVE ViewKept(t)'
    <3>1. CASE t = s
      <4>1. /\ v.buf # None /\ v.len = Len(heap'[v.buf]) /\ Content(o)' # None
            /\ v.len = Len(Content(o)') /\ v.buf = item'[o] /\ heap'[v.buf] = truth'[o]
        BY <1>1, <2>1, <2>2, <2>3, <2>4, <2>6, <2>8, <2>18
      <4>2. s \in borrowed' /\ v.sure /\ ~ v.ro
        BY <2>0, <2>4, <2>6, <2>8
      <4>3. views'[s] = v /\ v.obj = o /\ ~ v.wrote
        BY <2>6, <2>9
      <4> QED
        BY <1>3, <2>4, <3>1, <4>1, <4>2, <4>3 DEF ViewKept
    <3>2. CASE t # s /\ views[t] = None
      BY <2>10, <3>2 DEF ViewKept
    <3>3. CASE t # s /\ views[t] # None
      <4>1. /\ views'[t] = views[t]
            /\ t \in borrowed' => t \in borrowed
            /\ t \in borrowed => t \in borrowed'
            /\ Content(views[t].obj)' # None
            /\ Content(views[t].obj)' = Content(views[t].obj)
            /\ views[t].wrote => ViewsOf(views[t].obj)' = {t}
        BY <2>8, <2>10, <2>18, <3>3 DEF BInv, ViewKept
      <4> QED
        BY <1>1, <2>8, <3>3, <4>1, ViewStays
    <3> QED
      BY <3>1, <3>2, <3>3
  <2>20. \A t \in borrowed' : views'[t] # None
    BY <2>6, <2>7, <2>8, <2>9, <2>10 DEF BInv
  <2> QED
    BY <2>11, <2>13, <2>14, <2>15, <2>16, <2>17, <2>19, <2>20 DEF BInv
<1> QED
  BY <1>2, <1>3 DEF ParseWritable

(* C writes through the only view of an object. *)
LEMMA StoreKeeps ==
    ASSUME BInv, NEW s \in Slots, NEW x \in Payloads, Store(s, x)
    PROVE  BInv'
<1>1. PICK v : v = views[s]
  OBVIOUS
<1>2. PICK o : o = v.obj
  OBVIOUS
<1>3. PICK b : b = v.buf
  OBVIOUS
<1>4. /\ v # None /\ ~ v.ro /\ ViewsOf(o) = {s} /\ Len(x) = v.len
      /\ heap' = [heap EXCEPT ![b] = x] /\ truth' = [truth EXCEPT ![o] = x]
      /\ views' = [views EXCEPT ![s].wrote = TRUE]
      /\ source' = source /\ item' = item /\ made' = made /\ cstr' = cstr
      /\ cstrSize' = cstrSize /\ bufOf' = bufOf /\ bufLen' = bufLen /\ owned' = owned
      /\ borrowed' = borrowed
  BY <1>1, <1>2, <1>3 DEF Store, objects, chars, lent
<1>5. /\ v \in PyBuffer /\ o \in Objects /\ b # None /\ b \in DOMAIN heap
      /\ heap[b] \in Payloads
  BY <1>1, <1>2, <1>3, <1>4, ViewBlock
<1>6. /\ s \in borrowed => o \in Arrays /\ b = item[o]
      /\ s \notin borrowed /\ b \in owned => b = bufOf[o]
      /\ v.len = Len(heap[b]) /\ Content(o) # None /\ v.len = Len(Content(o))
      /\ o \notin Bytes /\ (o \in Arrays => s \in borrowed)
      /\ v.sure /\ (o \in ByteArrays => ~ v.ro)
  BY <1>1, <1>2, <1>3, <1>4 DEF BInv, ViewKept
<1>7. /\ views \in [Slots -> PyBuffer \cup {None}] /\ truth \in [Objects -> Payloads]
      /\ DOMAIN heap \subseteq Blocks /\ \A c \in DOMAIN heap : heap[c] \in Payloads
  BY DEF BInv, Types
<1>8. PICK w : w = [v EXCEPT !.wrote = TRUE]
  OBVIOUS
<1>9. /\ w \in PyBuffer /\ w # None /\ w.obj = o /\ w.buf = b /\ w.len = v.len /\ w.ro = v.ro
      /\ w.wrote /\ w.sure = v.sure
  <2>1. w \in PyBuffer /\ w.obj = o /\ w.buf = b /\ w.len = v.len /\ w.ro = v.ro
        /\ w.wrote /\ w.sure = v.sure
    BY <1>2, <1>3, <1>5, <1>8 DEF PyBuffer
  <2> QED
    BY <2>1, BuffersAssumption
<1>10. /\ views' = [views EXCEPT ![s] = w] /\ views'[s] = w
       /\ views' \in [Slots -> PyBuffer \cup {None}]
       /\ \A t \in Slots : t # s => views'[t] = views[t]
  <2>1. views' = [views EXCEPT ![s] = w]
    BY <1>1, <1>4, <1>8
  <2> QED
    BY <1>7, <1>9, <2>1
<1>11. /\ DOMAIN heap' = DOMAIN heap /\ heap'[b] = x
       /\ \A c \in DOMAIN heap : c # b => heap'[c] = heap[c]
       /\ truth'[o] = x /\ \A p : p # o => truth'[p] = truth[p]
       /\ truth' \in [Objects -> Payloads] /\ Len(x) = Len(heap[b])
  BY <1>4, <1>5, <1>6, <1>7
<1>12. Types'
  <2>1. \A c \in DOMAIN heap' : heap'[c] \in Payloads
    BY <1>7, <1>11
  <2> QED
    BY <1>4, <1>10, <1>11, <2>1 DEF BInv, Types
<1>13. \A t \in Slots : VPtr(t)' = VPtr(t)
  <2>1. ASSUME NEW t \in Slots, t # s PROVE VPtr(t)' = VPtr(t)
    BY <1>4, <1>10, <2>1, SameVPtr
  <2>2. VPtr(s)' = VPtr(s)
    BY <1>1, <1>3, <1>4, <1>9, <1>10 DEF VPtr, Private
  <2> QED
    BY <2>1, <2>2
<1>14. Apportioned(ptr, DOMAIN heap)'
  BY <1>4, <1>11, <1>13, SamePlaces
<1>15. /\ \A p \in Bytes : cstr[p] # b
       /\ \A p \in Arrays : item[p] = b => p = o
       /\ \A t \in Slots : t # s /\ views[t] # None => views[t].buf # b /\ views[t].obj # o
  <2>1. ASSUME NEW t \in Slots, t # s, views[t] # None PROVE views[t].obj # o
    BY <1>4, <2>1 DEF ViewsOf
  <2> QED
    BY <1>1, <1>2, <1>3, <1>4, <2>1, ViewApart
<1>16. \A p \in Bytes : BytesKept(p)'
  <2> SUFFICES ASSUME NEW p \in Bytes PROVE BytesKept(p)'
    OBVIOUS
  <2>1. p # o
    BY <1>6
  <2>2. cstr[p] # None => heap'[cstr[p]] = heap[cstr[p]]
    BY <1>11, <1>15, OnePlace
  <2> QED
    BY <1>4, <1>11, <2>1, <2>2, ObjectsStay
<1>17. \A p : ViewsOf(p)' = ViewsOf(p)
  <2>1. ASSUME NEW p, NEW t \in Slots
        PROVE  (views'[t] # None /\ views'[t].obj = p) <=> (views[t] # None /\ views[t].obj = p)
    <3>1. CASE t = s
      BY <1>1, <1>2, <1>4, <1>9, <1>10, <3>1
    <3>2. CASE t # s
      BY <1>10, <3>2
    <3> QED
      BY <3>1, <3>2
  <2> QED
    BY <2>1 DEF ViewsOf
<1>18. \A p \in ByteArrays : ByteArrayKept(p)'
  <2> SUFFICES ASSUME NEW p \in ByteArrays PROVE ByteArrayKept(p)'
    OBVIOUS
  <2>1. CASE p = o
    <3>1. s \in ViewsOf(p)' /\ views'[s].wrote
      BY <1>4, <1>9, <1>10, <1>17, <2>1
    <3> QED
      BY <1>4, <3>1 DEF BInv, ByteArrayKept
  <2>2. CASE p # o
    <3>1. \A t \in ViewsOf(p) : views'[t] = views[t]
      BY <1>1, <1>2, <1>10, <2>2 DEF ViewsOf
    <3> QED
      BY <1>4, <1>11, <1>17, <2>2, <3>1, ObjectsStay
  <2> QED
    BY <2>1, <2>2
<1>19. \A p \in Arrays : p # o /\ item[p] # None => heap'[item[p]] = heap[item[p]]
  BY <1>11, <1>15, OnePlace
<1>20. \A p \in Arrays : ArrayKept(p)'
  <2> SUFFICES ASSUME NEW p \in Arrays PROVE ArrayKept(p)'
    OBVIOUS
  <2>1. CASE p = o
    <3>1. item[o] = b /\ item'[o] # None
      BY <1>4, <1>5, <1>6, <2>1
    <3> QED
      BY <1>4, <1>11, <2>1, <3>1, ContentFacts DEF ArrayKept
  <2>2. CASE p # o
    BY <1>4, <1>11, <1>19, <2>2, ObjectsStay
  <2> QED
    BY <2>1, <2>2
<1>21. \A p \in Objects : BufferKept(p)'
  <2> SUFFICES ASSUME NEW p \in Objects PROVE BufferKept(p)'
    OBVIOUS
  <2>1. bufOf[p] # None => Len(heap'[bufOf[p]]) = Len(heap[bufOf[p]])
    BY <1>11, OnePlace
  <2> QED
    BY <1>4, <2>1, ObjectsStay
<1>22. \A p \in Objects : p # o => Content(p)' = Content(p)
  BY <1>4, <1>19 DEF Content
<1>23. ASSUME NEW t \in Slots PROVE ViewKept(t)'
  <2>1. CASE t = s
    <3>1. Content(o)' # None /\ v.len = Len(Content(o)')
      <4>1. CASE o \in Arrays
        <5>1. item[o] = b /\ item'[o] # None
          BY <1>4, <1>5, <1>6, <4>1
        <5> QED
          BY <1>4, <1>11, <4>1, <5>1, ContentFacts, BuffersAssumption
      <4>2. CASE o \notin Arrays
        BY <1>4, <1>5, <1>6, <4>2, ContentFacts
      <4> QED
        BY <4>1, <4>2
    <3>2. ViewsOf(o)' = {s}
      BY <1>4, <1>17
    <3>3. heap'[b] = truth'[o] /\ v.len = Len(heap'[b])
      BY <1>4, <1>11
    <3> QED
      BY <1>4, <1>5, <1>6, <1>9, <1>10, <2>1, <3>1, <3>2, <3>3 DEF ViewKept
  <2>2. CASE t # s /\ views[t] = None
    BY <1>10, <2>2 DEF ViewKept
  <2>3. CASE t # s /\ views[t] # None
    <3>1. PICK p \in Objects : p = views[t].obj
      BY <2>3, ViewBlock
    <3>2. views[t].buf \in DOMAIN heap /\ p # o /\ views[t].buf # b /\ views'[t] = views[t]
      BY <1>10, <1>15, <2>3, <3>1, ViewBlock
    <3>3. Content(p) # None /\ (views[t].wrote => ViewsOf(p) = {t})
      BY <2>3, <3>1 DEF BInv, ViewKept
    <3>4. /\ Content(p)' = Content(p) /\ truth'[p] = truth[p]
          /\ heap'[views[t].buf] = heap[views[t].buf] /\ ViewsOf(p)' = ViewsOf(p)
      BY <1>11, <1>17, <1>22, <3>2
    <3>5. /\ Content(views[t].obj)' # None
          /\ Len(Content(views[t].obj)') = Len(Content(views[t].obj))
          /\ truth'[views[t].obj] = truth[views[t].obj]
          /\ views[t].wrote => ViewsOf(views[t].obj)' = {t}
      BY <3>1, <3>2, <3>3, <3>4
    <3> QED
      BY <1>4, <2>3, <3>2, <3>4, <3>5, ViewStays
  <2> QED
    BY <2>1, <2>2, <2>3
<1>24. \A t \in borrowed' : views'[t] # None
  BY <1>4, <1>9, <1>10 DEF BInv, Types
<1> QED
  BY <1>12, <1>14, <1>16, <1>18, <1>20, <1>21, <1>23, <1>24 DEF BInv

(* The bytes of a view go back to an object that has the length for them. *)
LEMMA ReleaseKeeps ==
    ASSUME BInv, NEW s \in Slots, Release(s)
    PROVE  BInv'
<1>1. PICK v : v = views[s]
  OBVIOUS
<1>2. PICK o : o = v.obj
  OBVIOUS
<1>3. PICK b : b = v.buf
  OBVIOUS
<1>4. PICK a : a = VPtr(s)
  OBVIOUS
<1>5. /\ v # None
      /\ views' = [views EXCEPT ![s] = None]
      /\ item' = item /\ made' = made /\ cstr' = cstr /\ cstrSize' = cstrSize
      /\ bufOf' = bufOf /\ bufLen' = bufLen /\ owned' = owned /\ truth' = truth
  BY <1>1 DEF Release, chars, lent
<1>6. /\ v \in PyBuffer /\ o \in Objects /\ b # None /\ b \in DOMAIN heap
      /\ heap[b] \in Payloads
      /\ \/ s \in borrowed /\ a = None
         \/ s \notin borrowed /\ a = None /\ b \in owned
         \/ s \notin borrowed /\ a = b /\ b \notin owned
  BY <1>1, <1>2, <1>3, <1>4, <1>5, ViewBlock
<1>7. /\ v.len = Len(heap[b]) /\ Content(o) # None /\ v.len = Len(Content(o))
      /\ v.sure => heap[b] = truth[o]
      /\ o \in Bytes => v.ro
      /\ o \notin Bytes => v.sure
      /\ s \in borrowed => o \in Arrays
  BY <1>1, <1>2, <1>3, <1>5 DEF BInv, ViewKept
<1>8. /\ views \in [Slots -> PyBuffer \cup {None}] /\ source \in [Objects -> Payloads \cup {None}]
      /\ truth \in [Objects -> Payloads] /\ borrowed \subseteq Slots
      /\ DOMAIN heap \subseteq Blocks /\ \A c \in DOMAIN heap : heap[c] \in Payloads
      /\ None \notin DOMAIN heap
  BY BuffersAssumption DEF BInv, Types
<1>9. /\ views'[s] = None /\ views' \in [Slots -> PyBuffer \cup {None}]
      /\ \A t \in Slots : t # s => views'[t] = views[t]
  BY <1>5, <1>8
(* The three ways. *)
<1>10. borrowed' = borrowed \ {s}
  <2>1. CASE s \in borrowed
    BY <1>1, <1>3, <1>6, <2>1 DEF Release
  <2>2. CASE s \notin borrowed
    BY <1>1, <1>3, <1>6, <2>2 DEF Release
  <2> QED
    BY <2>1, <2>2
<1>11. /\ source' \in [Objects -> Payloads \cup {None}]
       /\ \A p \in Objects : p # o \/ p \notin ByteArrays => source'[p] = source[p]
       /\ o \in ByteArrays => source'[o] = truth[o] /\ Len(source'[o]) = Len(source[o])
                              /\ source'[o] # None
  <2>1. CASE s \in borrowed
    <3>1. source' = source
      BY <1>1, <1>3, <1>6, <2>1 DEF Release
    <3>2. o \notin ByteArrays
      BY <1>7, <2>1, ContentFacts
    <3> QED
      BY <1>8, <3>1, <3>2
  <2>2. CASE s \notin borrowed /\ (v.ro \/ o \in Arrays)
    <3>1. source' = source
      BY <1>1, <1>2, <1>3, <1>6, <2>2 DEF Release, WrittenBack
    <3>2. o \notin ByteArrays
      <4>1. o \in ByteArrays => ~ v.ro
        BY <1>1, <1>2, <1>5 DEF BInv, ViewKept
      <4> QED
        BY <2>2, <4>1, ContentFacts
    <3> QED
      BY <1>8, <3>1, <3>2
  <2>3. CASE s \notin borrowed /\ ~ v.ro /\ o \notin Arrays
    <3>1. source' = [source EXCEPT ![o] = Onto(source[o], heap[b], v.len)]
      BY <1>1, <1>2, <1>3, <1>6, <2>3 DEF Release, WrittenBack
    <3>2. o \in ByteArrays
      BY <1>6, <1>7, <2>3 DEF Objects
    <3>3. /\ source[o] \in Payloads /\ Content(o) = source[o]
      BY <3>2, ContentFacts
    <3>4. Onto(source[o], heap[b], Len(heap[b])) = heap[b]
      <4>1. Len(source[o]) = Len(heap[b])
        BY <1>7, <3>3
      <4> QED
        BY <1>6, <3>3, <4>1, OntoAll
    <3>5. source' = [source EXCEPT ![o] = heap[b]] /\ heap[b] = truth[o]
      BY <1>7, <2>3, <3>1, <3>4
    <3>6. heap[b] # None /\ Len(heap[b]) = Len(source[o])
      BY <1>6, <1>7, <3>3, BuffersAssumption
    <3>7. /\ source'[o] = heap[b] /\ source' \in [Objects -> Payloads \cup {None}]
          /\ \A p \in Objects : p # o => source'[p] = source[p]
      BY <1>6, <1>8, <3>5
    <3> QED
      BY <3>2, <3>5, <3>6, <3>7
  <2> QED
    BY <2>1, <2>2, <2>3
<1>12. heap' = IF a = None THEN heap ELSE Without(heap, a)
  <2>1. CASE s \in borrowed
    BY <1>1, <1>3, <1>6, <2>1 DEF Release
  <2>2. CASE s \notin borrowed
    BY <1>1, <1>3, <1>6, <2>2 DEF Release, Kept
  <2> QED
    BY <2>1, <2>2
<1>13. /\ DOMAIN heap' = DOMAIN heap \ {a}
       /\ \A c \in DOMAIN heap : c # a => heap'[c] = heap[c]
  <2>1. CASE a = None
    BY <1>8, <1>12, <2>1
  <2>2. CASE a # None
    BY <1>12, <2>2 DEF Without, Restrict
  <2> QED
    BY <2>1, <2>2
<1>14. Types'
  <2>1. DOMAIN heap' \subseteq Blocks /\ \A c \in DOMAIN heap' : heap'[c] \in Payloads
    BY <1>8, <1>13
  <2> QED
    BY <1>5, <1>9, <1>10, <1>11, <2>1 DEF BInv, Types
<1>15. \A t \in Slots : VPtr(t)' = IF t = s THEN None ELSE VPtr(t)
  <2>1. ASSUME NEW t \in Slots, t # s PROVE VPtr(t)' = VPtr(t)
    BY <1>5, <1>9, <1>10, <2>1, SameVPtr
  <2>2. VPtr(s)' = None
    BY <1>9 DEF VPtr, Private
  <2> QED
    BY <2>1, <2>2
<1>16. Apportioned(ptr, DOMAIN heap)'
  <2>1. PICK y : y = <<"view", s>>
    OBVIOUS
  <2>2. y \in Places /\ ptr[y] = a
    BY <1>4, <2>1, PtrAt
  <2>3. \A t \in Slots : VPtr(t)' = IF y = <<"view", t>> THEN None ELSE VPtr(t)
    BY <1>15, <2>1, PlacesDiffer
  <2>4. \A p : y # <<"cstr", p>> /\ y # <<"item", p>> /\ y # <<"buf", p>>
    BY <2>1, PlacesDiffer
  <2>5. /\ \A p \in Bytes : cstr'[p] = IF y = <<"cstr", p>> THEN None ELSE cstr[p]
        /\ \A p \in Objects : bufOf'[p] = IF y = <<"buf", p>> THEN None ELSE bufOf[p]
        /\ \A p \in Arrays : item'[p] = IF y = <<"item", p>> THEN None ELSE item[p]
    BY <1>5, <2>4
  <2>6. DOMAIN heap' = (DOMAIN heap \ {ptr[y]}) \cup ({None} \ {None})
    BY <1>13, <2>2
  <2> QED
    BY ONLY BInv, <2>2, <2>3, <2>5, <2>6, Reapportioned, SMTT(60)
<1>17. /\ \A p \in Bytes : cstr[p] # None => heap'[cstr[p]] = heap[cstr[p]]
       /\ \A p \in Objects : bufOf[p] # None => heap'[bufOf[p]] = heap[bufOf[p]]
       /\ \A p \in Arrays : item[p] # None => heap'[item[p]] = heap[item[p]]
  BY <1>4, <1>13, OnePlace
<1>18. \A p \in Bytes : BytesKept(p)'
  <2>1. \A p \in Bytes : p \in Objects /\ p \notin ByteArrays
    BY ContentFacts
  <2> QED
    BY <1>5, <1>11, <1>17, <2>1, ObjectsStay
<1>19. \A p \in ByteArrays : ByteArrayKept(p)'
  <2> SUFFICES ASSUME NEW p \in ByteArrays PROVE ByteArrayKept(p)'
    OBVIOUS
  <2>1. CASE p = o
    BY <1>5, <1>11, <2>1 DEF ByteArrayKept
  <2>2. CASE p # o
    <3>1. \A t \in ViewsOf(p) : t \in ViewsOf(p)' /\ views'[t] = views[t]
      BY <1>1, <1>2, <1>9, <2>2 DEF ViewsOf
    <3>2. p \in Objects
      BY ContentFacts
    <3> QED
      BY <1>5, <1>11, <2>2, <3>1, <3>2, ObjectsStay
  <2> QED
    BY <2>1, <2>2
<1>20. \A p \in Arrays : ArrayKept(p)'
  BY <1>5, <1>17, ObjectsStay
<1>21. \A p \in Objects : BufferKept(p)'
  BY <1>5, <1>17, ObjectsStay
<1>22. \A p \in Objects : Content(p) # None => Content(p)' # None
                          /\ Len(Content(p)') = Len(Content(p))
  <2> SUFFICES ASSUME NEW p \in Objects, Content(p) # None
               PROVE  Content(p)' # None /\ Len(Content(p)') = Len(Content(p))
    OBVIOUS
  <2>1. CASE p \in Arrays
    BY <1>5, <1>17, <2>1 DEF Content
  <2>2. CASE p \notin Arrays
    BY <1>11, <2>2, ContentFacts
  <2> QED
    BY <2>1, <2>2
<1>23. ASSUME NEW t \in Slots PROVE ViewKept(t)'
  <2>1. CASE t = s
    BY <1>9, <2>1 DEF ViewKept
  <2>2. CASE t # s /\ views[t] = None
    BY <1>9, <2>2 DEF ViewKept
  <2>3. CASE t # s /\ views[t] # None
    <3>1. PICK p \in Objects : p = views[t].obj
      BY <2>3, ViewBlock
    <3>2. views[t].buf \in DOMAIN heap /\ views'[t] = views[t] /\ views[t].buf # a
      BY <1>4, <1>9, <2>3, ViewBlock, ViewApart
    <3>3. Content(p) # None /\ (views[t].wrote => ViewsOf(p) = {t})
      BY <2>3, <3>1 DEF BInv, ViewKept
    <3>4. heap'[views[t].buf] = heap[views[t].buf]
      BY <1>13, <3>2
    <3>5. views[t].wrote => ViewsOf(p)' = {t}
      <4>1. t \in ViewsOf(p)'
        BY <2>3, <3>1, <3>2 DEF ViewsOf
      <4>2. \A u \in ViewsOf(p)' : u \in ViewsOf(p)
        BY <1>9 DEF ViewsOf
      <4> QED
        BY <3>3, <4>1, <4>2
    <3>6. /\ Content(views[t].obj)' # None
          /\ Len(Content(views[t].obj)') = Len(Content(views[t].obj))
          /\ views[t].wrote => ViewsOf(views[t].obj)' = {t}
      BY <1>22, <3>1, <3>2, <3>3, <3>5
    <3>7. /\ t \in borrowed' => t \in borrowed
          /\ t \in borrowed => t \in borrowed'
      BY <1>10, <2>3
    <3> QED
      BY <1>5, <2>3, <3>2, <3>4, <3>6, <3>7, ViewStays
  <2> QED
    BY <2>1, <2>2, <2>3
<1>24. \A t \in borrowed' : views'[t] # None
  BY <1>8, <1>9, <1>10 DEF BInv
<1> QED
  BY <1>14, <1>16, <1>18, <1>19, <1>20, <1>21, <1>23, <1>24 DEF BInv

(* Python stores where no view looks. *)
LEMMA PyStoreKeeps ==
    ASSUME BInv, ~ EmptyArrays, NEW o \in ByteArrays \cup Arrays, NEW x \in Payloads, PyStore(o, x)
    PROVE  BInv'
<1>1. /\ ViewsOf(o) = {} /\ truth' = [truth EXCEPT ![o] = x]
      /\ made' = made /\ cstr' = cstr /\ cstrSize' = cstrSize /\ bufOf' = bufOf
      /\ bufLen' = bufLen /\ owned' = owned /\ views' = views /\ borrowed' = borrowed
  BY DEF PyStore, chars, lent
<1>2. /\ source \in [Objects -> Payloads \cup {None}] /\ truth \in [Objects -> Payloads]
      /\ item \in [Arrays -> Blocks \cup {None}]
      /\ DOMAIN heap \subseteq Blocks /\ \A c \in DOMAIN heap : heap[c] \in Payloads
  BY DEF BInv, Types
<1>3. o \in Objects /\ o \notin Bytes /\ x # None
  BY ContentFacts, BuffersAssumption
<1>4. /\ truth' \in [Objects -> Payloads] /\ truth'[o] = x
      /\ \A p \in Objects : p # o => truth'[p] = truth[p]
  BY <1>1, <1>2, <1>3
<1>5. \A t \in Slots : views[t] # None => views[t].obj # o
  BY <1>1 DEF ViewsOf
<1>6. /\ \A t \in Slots : VPtr(t)' = VPtr(t)
      /\ \A p : ViewsOf(p)' = ViewsOf(p)
  BY <1>1 DEF VPtr, Private, ViewsOf
(* Python's side, and an array's storage. *)
<1>7. /\ source' \in [Objects -> Payloads \cup {None}]
      /\ \A p \in Objects : p # o \/ o \in Arrays => source'[p] = source[p]
      /\ o \in ByteArrays => source'[o] = x
  <2>1. CASE o \in ByteArrays
    <3>1. source' = [source EXCEPT ![o] = x] /\ o \notin Arrays
      BY <2>1, ContentFacts DEF PyStore
    <3> QED
      BY <1>2, <1>3, <3>1
  <2>2. CASE o \in Arrays
    <3>1. source' = source /\ o \notin ByteArrays
      BY <2>2, ContentFacts DEF PyStore
    <3> QED
      BY <1>2, <2>2, <3>1
  <2> QED
    BY <2>1, <2>2
<1>8. PICK a : a = IF o \in Arrays THEN item[o] ELSE None
  OBVIOUS
<1>9. /\ item' \in [Arrays -> Blocks \cup {None}]
      /\ \A p \in Arrays : p # o => item'[p] = item[p]
      /\ o \in Arrays => item'[o] # None /\ heap'[item'[o]] = x
      /\ DOMAIN heap' \subseteq Blocks /\ \A c \in DOMAIN heap' : heap'[c] \in Payloads
      /\ \A c \in DOMAIN heap : c # a => heap'[c] = heap[c]
      /\ Apportioned(ptr, DOMAIN heap)'
  <2>1. CASE o \in ByteArrays
    <3>1. item' = item /\ heap' = heap /\ o \notin Arrays
      BY <2>1, ContentFacts DEF PyStore
    <3>2. Apportioned(ptr, DOMAIN heap)'
      BY <1>1, <1>6, <3>1, SamePlaces
    <3> QED
      BY <1>2, <3>1, <3>2
  <2>2. CASE o \in Arrays
    <3>1. PICK b : b = Malloc(Without(heap, a))
      OBVIOUS
    <3>2. /\ a = item[o] /\ o \notin ByteArrays
      BY <1>8, <2>2, ContentFacts
    <3>3. /\ Room /\ item' = [item EXCEPT ![o] = b]
          /\ heap' = Alloc(Without(heap, a), b, x)
      BY <3>1, <3>2 DEF PyStore
    <3>4. b = Malloc(Without(heap, a)) /\ heap' = Alloc(Without(heap, a), b, x)
      BY <3>1, <3>3
    <3>5. b \in Blocks /\ b # None /\ b \notin DOMAIN heap \ {a}
      BY ONLY BInv, x \in Payloads, <3>3, <3>4, ReplacedBlock
    <3>6. \A c : c \in DOMAIN heap' <=> (c \in DOMAIN heap /\ c # a) \/ c = b
      BY ONLY BInv, x \in Payloads, <3>3, <3>4, ReplacedBlock
    <3>7. \A c \in DOMAIN heap : c # a => heap'[c] = heap[c]
      BY ONLY BInv, x \in Payloads, <3>3, <3>4, ReplacedBlock
    <3>8. DOMAIN heap' \subseteq Blocks /\ \A c \in DOMAIN heap' : heap'[c] \in Payloads
      BY ONLY BInv, x \in Payloads, <3>3, <3>4, ReplacedBlock
    <3>9. heap'[b] = x
      BY ONLY <3>4 DEF Alloc
    <3>10. /\ item' \in [Arrays -> Blocks \cup {None}] /\ item'[o] = b
           /\ \A p \in Arrays : p # o => item'[p] = item[p]
      BY <1>2, <2>2, <3>3, <3>5
    <3>11. Apportioned(ptr, DOMAIN heap)'
      <4>1. PICK y : y = <<"item", o>>
        OBVIOUS
      <4>2. y \in Places /\ ptr[y] = a
        BY <2>2, <3>2, <4>1, PtrAt
      <4>3. \A p \in Arrays : item'[p] = IF y = <<"item", p>> THEN b ELSE item[p]
        BY <3>10, <4>1, PlacesDiffer
      <4>4. \A p : y # <<"cstr", p>> /\ y # <<"view", p>> /\ y # <<"buf", p>>
        BY <4>1, PlacesDiffer
      <4>5. /\ \A p \in Bytes : cstr'[p] = IF y = <<"cstr", p>> THEN b ELSE cstr[p]
            /\ \A p \in Objects : bufOf'[p] = IF y = <<"buf", p>> THEN b ELSE bufOf[p]
            /\ \A t \in Slots : VPtr(t)' = IF y = <<"view", t>> THEN b ELSE VPtr(t)
        BY <1>1, <1>6, <4>4
      <4>6. b \notin DOMAIN heap \ {ptr[y]}
        BY <3>5, <4>2
      <4>7. DOMAIN heap' = (DOMAIN heap \ {ptr[y]}) \cup ({b} \ {None})
        BY <3>5, <3>6, <4>2
      <4> QED
        BY ONLY BInv, <4>2, <4>3, <4>5, <4>6, <4>7, Reapportioned, SMTT(60)
    <3> QED
      BY <3>7, <3>8, <3>5, <3>9, <3>10, <3>11
  <2> QED
    BY <2>1, <2>2
<1>10. Types'
  BY <1>1, <1>4, <1>7, <1>9 DEF BInv, Types
<1>11. /\ \A p \in Bytes : cstr[p] # None => heap'[cstr[p]] = heap[cstr[p]]
       /\ \A p \in Objects : bufOf[p] # None => heap'[bufOf[p]] = heap[bufOf[p]]
       /\ \A p \in Arrays : p # o /\ item[p] # None => heap'[item[p]] = heap[item[p]]
       /\ \A t \in Slots : views[t] # None =>
            heap'[views[t].buf] = heap[views[t].buf]
  <2>1. \A t \in Slots : views[t] # None => views[t].buf \in DOMAIN heap /\ views[t].buf # a
    BY <1>5, <1>8, ViewBlock, ViewApart
  <2> QED
    BY <1>8, <1>9, <2>1, OnePlace
<1>12. \A p \in Bytes : BytesKept(p)'
  <2>1. \A p \in Bytes : p \in Objects /\ p # o
    BY <1>3, ContentFacts
  <2> QED
    BY <1>1, <1>4, <1>7, <1>11, <2>1, ObjectsStay
<1>13. \A p \in ByteArrays : ByteArrayKept(p)'
  <2> SUFFICES ASSUME NEW p \in ByteArrays PROVE ByteArrayKept(p)'
    OBVIOUS
  <2>1. CASE p = o
    BY <1>3, <1>4, <1>7, <2>1 DEF ByteArrayKept
  <2>2. CASE p # o
    <3>1. p \in Objects
      BY ContentFacts
    <3> QED
      BY <1>1, <1>4, <1>6, <1>7, <2>2, <3>1, ObjectsStay
  <2> QED
    BY <2>1, <2>2
<1>14. \A p \in Arrays : ArrayKept(p)'
  <2> SUFFICES ASSUME NEW p \in Arrays PROVE ArrayKept(p)'
    OBVIOUS
  <2>1. CASE p = o
    BY <1>4, <1>9, <2>1, ContentFacts DEF ArrayKept
  <2>2. CASE p # o
    <3>1. p \in Objects
      BY ContentFacts
    <3> QED
      BY <1>4, <1>9, <1>11, <2>2, <3>1, ObjectsStay
  <2> QED
    BY <2>1, <2>2
<1>15. \A p \in Objects : BufferKept(p)'
  BY <1>1, <1>11, ObjectsStay
<1>16. \A p \in Objects : p # o => Content(p)' = Content(p)
  BY <1>7, <1>9, <1>11 DEF Content
<1>17. ASSUME NEW t \in Slots PROVE ViewKept(t)'
  <2>1. CASE views[t] = None
    BY <1>1, <2>1 DEF ViewKept
  <2>2. CASE views[t] # None
    <3>1. PICK p \in Objects : p = views[t].obj /\ p # o
      BY <1>5, <2>2, ViewBlock
    <3>2. Content(p) # None /\ (views[t].wrote => ViewsOf(p) = {t})
          /\ (t \in borrowed => p \in Arrays)
      BY <2>2, <3>1 DEF BInv, ViewKept
    <3>3. Content(p)' = Content(p) /\ ViewsOf(p)' = ViewsOf(p) /\ truth'[p] = truth[p]
          /\ heap'[views[t].buf] = heap[views[t].buf]
          /\ (t \in borrowed => item'[p] = item[p])
      BY <1>4, <1>6, <1>9, <1>11, <1>16, <2>2, <3>1, <3>2
    <3>4. /\ Content(views[t].obj)' # None
          /\ Len(Content(views[t].obj)') = Len(Content(views[t].obj))
          /\ truth'[views[t].obj] = truth[views[t].obj]
          /\ t \in borrowed => item'[views[t].obj] = item[views[t].obj]
          /\ views[t].wrote => ViewsOf(views[t].obj)' = {t}
      BY <1>1, <3>1, <3>2, <3>3
    <3> QED
      BY <1>1, <2>2, <3>3, <3>4, ViewStays
  <2> QED
    BY <2>1, <2>2
<1>18. \A t \in borrowed' : views'[t] # None
  BY <1>1 DEF BInv
<1> QED
  BY <1>9, <1>10, <1>12, <1>13, <1>14, <1>15, <1>17, <1>18 DEF BInv

(* No step. *)
LEMMA UnchangedKeeps ==
    ASSUME BInv, UNCHANGED vars
    PROVE  BInv'
<1>1. /\ source' = source /\ item' = item /\ made' = made /\ cstr' = cstr /\ cstrSize' = cstrSize
      /\ bufOf' = bufOf /\ bufLen' = bufLen /\ owned' = owned /\ heap' = heap /\ views' = views
      /\ borrowed' = borrowed /\ truth' = truth
  BY DEF vars, objects, chars, lent
<1>2. \A s \in Slots : VPtr(s)' = VPtr(s)
  BY <1>1 DEF VPtr, Private
<1>3. /\ Types' /\ Apportioned(ptr, DOMAIN heap)'
  BY <1>1, <1>2, SamePlaces DEF BInv, Types
<1>4. /\ \A o \in Bytes : BytesKept(o)'
      /\ \A o \in ByteArrays : ByteArrayKept(o)'
      /\ \A o \in Arrays : ArrayKept(o)'
      /\ \A o \in Objects : BufferKept(o)'
  BY <1>1 DEF BInv, BytesKept, Folded, ByteArrayKept, ViewsOf, ArrayKept, Content, BufferKept
<1>5. \A s \in Slots : ViewKept(s)'
  BY <1>1 DEF BInv, ViewKept, ViewsOf, Content
<1>6. \A s \in borrowed' : views'[s] # None
  BY <1>1 DEF BInv
<1> QED
  BY <1>3, <1>4, <1>5, <1>6 DEF BInv

LEMMA InitKeeps ==
    ASSUME Init
    PROVE  BInv
<1>1. <<>> \in Payloads /\ 0 \in 0..MaxLen /\ DOMAIN heap = {} /\ <<>> # None
  BY PayloadFacts, BuffersAssumption DEF Init
<1>2. Types
  <2>1. /\ source \in [Objects -> Payloads \cup {None}] /\ truth \in [Objects -> Payloads]
        /\ item \in [Arrays -> Blocks \cup {None}] /\ cstr \in [Bytes -> Blocks \cup {None}]
        /\ cstrSize \in [Bytes -> 0..MaxLen \cup {None}]
        /\ bufOf \in [Objects -> Blocks \cup {None}] /\ bufLen \in [Objects -> 0..MaxLen]
    BY <1>1 DEF Init
  <2>2. views \in [Slots -> PyBuffer \cup {None}] /\ made \subseteq Bytes /\ borrowed \subseteq Slots
    BY DEF Init
  <2>3. owned = {bufOf[o] : o \in {p \in Objects : bufOf[p] # None}}
    BY DEF Init
  <2> QED
    BY <1>1, <2>1, <2>2, <2>3 DEF Types
<1>3. \A s \in Slots : views[s] = None /\ VPtr(s) = None
  BY DEF Init, VPtr, Private
<1>4. Apportioned(ptr, DOMAIN heap)
  <2>1. ASSUME NEW x \in Places PROVE ptr[x] = None
    <3>1. /\ \A o \in Bytes : cstr[o] = None
          /\ \A o \in Objects : bufOf[o] = None
          /\ \A o \in Arrays : item[o] = None
      BY DEF Init
    <3> QED
      BY <1>3, <3>1, PlaceKinds, PtrAt
  <2> QED
    BY <1>1, <2>1 DEF Apportioned
<1>5. \A o \in Bytes : BytesKept(o)
  BY DEF Init, BytesKept, Objects
<1>6. \A o \in ByteArrays : ByteArrayKept(o)
  BY <1>1, BuffersAssumption DEF Init, ByteArrayKept, Objects
<1>7. \A o \in Arrays : ArrayKept(o)
  BY DEF Init, ArrayKept, Content, Objects
<1>8. \A o \in Objects : BufferKept(o)
  BY DEF Init, BufferKept
<1>9. \A s \in Slots : ViewKept(s)
  BY <1>3 DEF ViewKept
<1>10. \A s \in borrowed : views[s] # None
  BY DEF Init
<1> QED
  BY <1>2, <1>4, <1>5, <1>6, <1>7, <1>8, <1>9, <1>10 DEF BInv

-----------------------------------------------------------------------------
(* Every step keeps all of it. *)

LEMMA NextKeeps ==
    ASSUME BInv, ~ EmptyArrays, Next
    PROVE  BInv'
<1>1. CASE \E o \in Bytes : \/ \E n \in 0..MaxLen : NewBytes(o, n) \/ Resize(o, n)
                            \/ AsString(o) \/ Give(o)
                            \/ \E x \in Payloads : BytesOf(o, x) \/ Fill(o, x)
  BY <1>1, NewBytesKeeps, ResizeKeeps, AsStringKeeps, GiveKeeps, BytesOfKeeps, FillKeeps
<1>2. CASE \E o \in ByteArrays \cup Arrays, x \in Payloads : PyStore(o, x)
  BY <1>2, PyStoreKeeps
<1>3. CASE \E s \in Slots :
            \/ Release(s)
            \/ \E x \in Payloads : Store(s, x)
            \/ \E o \in Objects : There(o) /\ (ParseWritable(s, o)
                                               \/ \E w \in BOOLEAN : GetBuffer(s, o, w))
  BY <1>3, ReleaseKeeps, StoreKeeps, ParseWritableKeeps, GetBufferKeeps
<1> QED
  BY <1>1, <1>2, <1>3 DEF Next

(* While no array is empty: every block has one owner, C's and Python's sides *)
(* of an object differ only where a view or an unfinished bytes explains it, *)
(* and a view shows its object.                                             *)
THEOREM BuffersInvariance ==
    ASSUME ~ EmptyArrays
    PROVE  Spec => []BInv
<1>1. Init => BInv
  BY InitKeeps
<1>2. BInv /\ [Next]_vars => BInv'
  BY NextKeeps, UnchangedKeeps
<1> QED
  BY <1>1, <1>2, PTL DEF Spec

(* TypeOK: every variable has its type, and a buffer is as long as the object *)
(* or the view takes it to be.                                              *)
THEOREM TypeCorrect ==
    ASSUME ~ EmptyArrays
    PROVE  Spec => []TypeOK
<1>1. ASSUME BInv PROVE TypeOK
  <2>1. \A o \in Objects : bufOf[o] # None => Len(heap[bufOf[o]]) = bufLen[o]
    BY <1>1 DEF BInv, BufferKept
  <2>2. \A s \in Slots : views[s] # None /\ views[s].buf # None =>
            views[s].len <= Len(heap[views[s].buf])
    <3> SUFFICES ASSUME NEW s \in Slots, views[s] # None
                 PROVE  views[s].len <= Len(heap[views[s].buf])
      OBVIOUS
    <3>1. views[s].len = Len(heap[views[s].buf])
      BY <1>1 DEF BInv, ViewKept
    <3>2. heap[views[s].buf] \in Payloads
      BY <1>1, ViewBlock
    <3> QED
      BY <3>1, <3>2, PayloadFacts
  <2>3. Range(heap) \subseteq Payloads
    BY <1>1 DEF BInv, Types, Range
  <2> QED
    BY <1>1, <2>1, <2>2, <2>3 DEF BInv, Types, TypeOK
<1> QED
  BY <1>1, BuffersInvariance, PTL

(* BuffersOwned: a block that malloc gave has one owner, the object or the    *)
(* view that is to free it; nothing leaks, and no view has freed memory.     *)
THEOREM BuffersAreOwned ==
    ASSUME ~ EmptyArrays
    PROVE  Spec => []BuffersOwned
<1>1. ASSUME BInv PROVE BuffersOwned
  <2>1. ASSUME NEW x \in Owner
        PROVE  x \in Places /\ ptr[x] # None /\ Owns(x) = ptr[x]
    <3>1. CASE \E o \in Bytes : x = <<"cstr", o>> /\ cstr[o] # None
      BY <3>1, PtrAt DEF Owns
    <3>2. CASE \E o \in Objects : x = <<"buf", o>> /\ bufOf[o] # None
      BY <3>2, PtrAt DEF Owns
    <3>3. CASE \E o \in Arrays : x = <<"item", o>> /\ item[o] # None
      BY <3>3, PtrAt DEF Owns
    <3>4. CASE \E s \in Slots : x = <<"view", s>> /\ Private(s)
      BY <3>4, PtrAt DEF Owns, VPtr, Private
    <3> QED
      BY <3>1, <3>2, <3>3, <3>4 DEF Owner
  <2>2. ASSUME NEW x \in Places, ptr[x] # None PROVE x \in Owner
    <3>1. CASE \E o \in Bytes : x = <<"cstr", o>>
      BY <2>2, <3>1, PtrAt DEF Owner
    <3>2. CASE \E o \in Objects : x = <<"buf", o>>
      BY <2>2, <3>2, PtrAt DEF Owner
    <3>3. CASE \E o \in Arrays : x = <<"item", o>>
      BY <2>2, <3>3, PtrAt DEF Owner
    <3>4. CASE \E s \in Slots : x = <<"view", s>>
      BY <2>2, <3>4, PtrAt DEF Owner, VPtr
    <3> QED
      BY <3>1, <3>2, <3>3, <3>4, PlaceKinds
  <2>3. {Owns(x) : x \in Owner} = DOMAIN heap
    <3>1. \A x \in Owner : Owns(x) \in DOMAIN heap
      BY <1>1, <2>1 DEF BInv, Apportioned
    <3>2. ASSUME NEW b \in DOMAIN heap PROVE \E x \in Owner : Owns(x) = b
      <4>1. PICK x \in Places : ptr[x] = b
        BY <1>1 DEF BInv, Apportioned
      <4>2. b # None
        BY <1>1, BuffersAssumption DEF BInv, Types
      <4> QED
        BY <2>1, <2>2, <4>1, <4>2
    <3> QED
      BY <3>1, <3>2
  <2>4. \A x, y \in Owner : x # y => Owns(x) # Owns(y)
    BY <1>1, <2>1 DEF BInv, Apportioned
  <2>5. ASSUME NEW s \in Slots, views[s] # None, views[s].buf # None, ~ Private(s)
        PROVE  views[s].buf \in {bufOf[views[s].obj]} \cup Range(item)
    <3>1. \/ views[s].obj \in Arrays /\ views[s].buf = item[views[s].obj]
          \/ views[s].buf = bufOf[views[s].obj]
      BY <1>1, <2>5, ViewBlock DEF Private
    <3>2. DOMAIN item = Arrays
      BY <1>1 DEF BInv, Types
    <3> QED
      BY <3>1, <3>2 DEF Range
  <2>6. owned = {bufOf[o] : o \in {p \in Objects : bufOf[p] # None}}
    BY <1>1 DEF BInv, Types
  <2> QED
    BY <2>3, <2>4, <2>5, <2>6 DEF BuffersOwned
<1> QED
  BY <1>1, BuffersInvariance, PTL

(* ViewsShowTruth: what C reads through a view is what CPython's object holds: *)
(* of a reused buffer, of a bytes C still fills, of one handed out.          *)
THEOREM ViewsAreTrue ==
    ASSUME ~ EmptyArrays
    PROVE  Spec => []ViewsShowTruth
<1>1. ASSUME BInv, NEW s \in Slots, views[s] # None, views[s].sure
      PROVE  /\ views[s].len = Len(truth[views[s].obj])
             /\ SubSeq(heap[views[s].buf], 1, views[s].len) = truth[views[s].obj]
  <2>1. PICK y : y = heap[views[s].buf]
    OBVIOUS
  <2>2. views[s].len = Len(y) /\ y = truth[views[s].obj]
    BY <1>1, <2>1 DEF BInv, ViewKept
  <2>3. y \in Seq(Data)
    BY <1>1, <2>1, ViewBlock, PayloadFacts
  <2>4. SubSeq(y, 1, Len(y)) = y
    BY <2>3, SubSeqFull
  <2> QED
    BY <2>1, <2>2, <2>4
<1>2. BInv => ViewsShowTruth
  BY <1>1 DEF ViewsShowTruth
<1> QED
  BY <1>2, BuffersInvariance, PTL

(* SourceIsTruth: when C has given its views back, and handed a bytes out,   *)
(* Python reads what was written last, on either side.                      *)
THEOREM SourcesAreTrue ==
    ASSUME ~ EmptyArrays
    PROVE  Spec => []SourceIsTruth
<1>1. ASSUME BInv, NEW o \in Objects, ViewsOf(o) = {}, o \in Bytes => o \in made
      PROVE  Content(o) = truth[o]
  <2>1. CASE o \in Bytes
    BY <1>1, <2>1, ContentFacts DEF BInv, BytesKept
  <2>2. CASE o \in ByteArrays
    BY <1>1, <2>2, ContentFacts DEF BInv, ByteArrayKept
  <2>3. CASE o \in Arrays
    BY <1>1, <2>3 DEF BInv, ArrayKept
  <2> QED
    BY <2>1, <2>2, <2>3 DEF Objects
<1>2. BInv => SourceIsTruth
  BY <1>1 DEF SourceIsTruth
<1> QED
  BY <1>2, BuffersInvariance, PTL

=============================================================================
