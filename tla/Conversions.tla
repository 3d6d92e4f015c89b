----------------------------- MODULE Conversions -----------------------------
(***************************************************************************)
(* What a C function does with a call before its own work: it binds the    *)
(* arguments (Arguments), and turns slices and ints into what C computes   *)
(* with (Slices, Numbers).  A behaviour is one call bound slot by slot, or *)
(* one value converted; the answer is compared with Python's definition.   *)
(***************************************************************************)
EXTENDS Arguments, Slices, Numbers

CONSTANTS SliceCalls,   \* [op, len, s] with s.step a Py_ssize_t: a slice of len items
          IntCalls      \* [op, v, n, little, signed], [op, bytes, little, signed],
                        \* [op, v, n, flags]: an int and n bytes of memory,
                        \* [op, as, v, n]: an int to be a C int of n bytes

(* Lengths and steps are Py_ssize_t's; bounds are any ints.                *)
ASSUME ConversionsAssumption ==
    /\ \A c \in SliceCalls :
        /\ c.op \in {"unpack", "indices"} /\ c.len \in 0..SsizeMax
        /\ c.s.start \in Int \cup {None} /\ c.s.stop \in Int \cup {None}
        /\ c.s.step \in (-SsizeMax - 1)..SsizeMax \cup {None}
    /\ \A c \in IntCalls :
        \/ c.op = "to" /\ c.v \in Int /\ c.n \in Nat /\ {c.little, c.signed} \subseteq BOOLEAN
        \/ c.op = "from" /\ c.bytes \in Seq(0..(Radix - 1))
                         /\ {c.little, c.signed} \subseteq BOOLEAN
        \/ c.op = "native" /\ c.v \in Int /\ c.n \in Nat
        \/ c.op = "word" /\ c.v \in Int /\ c.n \in Nat \ {0} /\ c.as \in WordKinds

VARIABLES call,         \* the value to convert, or NoCall
          out           \* what the conversion returned, or Pending

NoCall  == [op |-> "none"]
Pending == [op |-> "pending"]

convVars == <<call, out>>

(* While a value is converted, no arguments are being bound. *)
NoParser == [total |-> 0, posonly |-> 0, minpos |-> 0, maxpos |-> 0, minkw |-> 0,
             varpos |-> FALSE, format |-> FALSE]

NoArguments ==
    /\ parser = NoParser /\ nargs = 0 /\ kw = {} /\ pc = "done" /\ slot = 1
    /\ remaining = 0 /\ buf = Empty(NoParser) /\ result = "bound"

ConvertInit ==
    /\ out = Pending
    /\ \/ Init /\ call = NoCall
       \/ NoArguments /\ call \in SliceCalls \cup IntCalls

Answer(op, r) ==
    /\ call.op = op /\ out = Pending
    /\ out' = r
    /\ UNCHANGED <<call, argVars>>

ZeroStep == [op |-> "zero step"]

UnpackSlice ==
    Answer("unpack", IF StepOf(call.s) = 0 THEN ZeroStep
                     ELSE [op |-> "slice", places |-> AdjustIndices(call.len, Unpacked(call.s))])

IndicesOfSlice ==
    Answer("indices", IF StepOf(call.s) = 0 THEN ZeroStep
                      ELSE [op |-> "slice", places |-> GetIndicesEx(call.len, call.s)])

ToBytes ==
    Answer("to", [op |-> "bytes", r |-> AsByteArray(call.v, call.n, call.little, call.signed)])

FromBytes ==
    Answer("from", [op |-> "int", v |-> FromByteArray(call.bytes, call.little, call.signed)])

ToNative ==
    Answer("native", [op |-> "native", r |-> AsNativeBytes(call.v, call.n, call.flags)])

ToWord == Answer("word", [op |-> "word", r |-> AsWord(call.as, call.v, call.n)])

ConvertNext ==
    \/ Next /\ UNCHANGED convVars
    \/ UnpackSlice \/ IndicesOfSlice \/ ToBytes \/ FromBytes \/ ToNative \/ ToWord

ConvertSpec == ConvertInit /\ [][ConvertNext]_<<argVars, convVars>>

-----------------------------------------------------------------------------
(* Both ways of reading a slice give C the places Python's slice selects,  *)
(* in order and in number, so that a loop over them stays in its items; a  *)
(* zero step is refused.  PySlice_Unpack for bounds that fit a Py_ssize_t:  *)
(* it wraps one that does not (13595), where CPython clamps it.            *)
SlicesAsPython ==
    call.op \in {"unpack", "indices"} /\ out # Pending =>
        IF out = ZeroStep THEN StepOf(call.s) = 0
        ELSE call.op = "indices" \/ (InSsize(call.s.start) /\ InSsize(call.s.stop)) =>
                 Agrees(call.len, call.s, out.places)

ByteStrings(n) == [1..n -> 0..(Radix - 1)]

(* What C takes a word of n bytes for. *)
Meaning(w, n, as) ==
    IF as \in {"unsigned", "mask", "converter"} \/ 2 * w < Span(n) THEN w ELSE w - Span(n)

(* C, which sees a word, an error and a flag, takes them for the int: the   *)
(* int itself if a word can mean it; else the nearest if it clamps, the     *)
(* low bits if it masks, and otherwise an error or a flag that is true of   *)
(* the int, with the -1 that callers test for before they look at either.   *)
WordExact(as, v, n, r) ==
    LET Words == 0..(Span(n) - 1)
        told  == r.error # "none" \/ r.overflow # 0
    IN  IF \E w \in Words : Meaning(w, n, as) = v
        THEN ~told /\ Meaning(r.word, n, as) = v
        ELSE IF as \in {"mask", "clamp"}
        THEN /\ ~told
             /\ as = "mask" => (r.word - v) % Span(n) = 0
             /\ as = "clamp" => \A w \in Words : Abs(v - Meaning(r.word, n, as))
                                                 <= Abs(v - Meaning(w, n, as))
        ELSE /\ told
             /\ as # "converter" => Meaning(r.word, n, "signed") = -1
             /\ r.overflow # 0 => \A w \in Words : (v > Meaning(w, n, as)) <=> r.overflow = 1
             /\ r.error = "ValueError" => v < 0

(* An int is written when some n bytes mean it, in the order and with the  *)
(* sign asked for, and then as those bytes; else it is refused, never cut. *)
(* Bytes that are read are written back the same.  An int that becomes a   *)
(* C int is understood by C.                                               *)
BytesExact ==
    /\ call.op = "to" /\ out # Pending =>
         /\ out.r.ok <=> \E b \in ByteStrings(call.n) :
                            FromByteArray(b, call.little, call.signed) = call.v
         /\ out.r.ok => FromByteArray(out.r.bytes, call.little, call.signed) = call.v
    /\ call.op = "from" /\ out # Pending =>
         AsByteArray(out.v, Len(call.bytes), call.little, call.signed)
           = [ok |-> TRUE, bytes |-> call.bytes]
    /\ call.op = "word" /\ out # Pending => WordExact(call.as, call.v, call.n, out.r)

Reads(b, v, flags) ==
    \/ FromByteArray(b, Little(flags), TRUE) = v
    \/ UnsignedOK(flags) /\ FromByteArray(b, Little(flags), FALSE) = v

(* The size PyLong_AsNativeBytes returns tells a caller whether its n       *)
(* bytes hold the int, which they do exactly if some n bytes could, and a   *)
(* second call with that many bytes succeeds (numpy and _struct retry so).  *)
NativeSizeHonest ==
    call.op = "native" /\ out # Pending =>
        IF out.r.size < 0 THEN "nonnegative" \in call.flags /\ call.v < 0
        ELSE /\ call.n > 0 /\ out.r.size <= call.n => Reads(out.r.bytes, call.v, call.flags)
             /\ (\E b \in ByteStrings(call.n) : Reads(b, call.v, call.flags)) /\ call.n > 0
                  => out.r.size <= call.n
             /\ LET again == AsNativeBytes(call.v, out.r.size, call.flags)
                IN  again.size <= out.r.size /\ Reads(again.bytes, call.v, call.flags)
=============================================================================
