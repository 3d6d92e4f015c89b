------------------------------- MODULE Numbers -------------------------------
(***************************************************************************)
(* Python ints as bytes in linear memory: _PyLong_AsByteArray,             *)
(* _PyLong_FromByteArray and PyLong_AsNativeBytes of src/src/wasthon.js,   *)
(* and Python ints as C ints: PyLong_As* and the argument converters.      *)
(* A buffer is the sequence of its bytes, a byte has ByteBits bits, and a   *)
(* C int of n bytes is the word that C sees.                               *)
(***************************************************************************)
EXTENDS Integers, Sequences, SequencesExt

CONSTANTS ByteBits,     \* 8
          SizeofSsize   \* 4

ASSUME NumbersAssumption == ByteBits \in Nat \ {0, 1} /\ SizeofSsize \in Nat \ {0}

(* Powers of two. *)
Pow[k \in Nat] == IF k = 0 THEN 1 ELSE 2 * Pow[k - 1]

Radix    == Pow[ByteBits]
Span(n)  == Pow[n * ByteBits]           \* what n bytes tell apart

(* Mutant: as many positive numbers as negative ones. *)
FitsSignedEvenly(v, n) == 2 * v >= -Span(n) /\ 2 * v <= Span(n)

FitsSigned(v, n) == 2 * v >= -Span(n) /\ 2 * v < Span(n)
FitsUnsigned(v, n) == v >= 0 /\ v < Span(n)

(* The n low bytes of v's two's complement. *)
Bytes(v, n, little) ==
    LET u == v % Span(n)
        low == [i \in 1..n |-> (u \div Span(i - 1)) % Radix]
    IN  IF little THEN low ELSE Reverse(low)

AsByteArray(v, n, little, signed) ==
    IF IF signed THEN FitsSigned(v, n) ELSE FitsUnsigned(v, n)
    THEN [ok |-> TRUE, bytes |-> Bytes(v, n, little)]
    ELSE [ok |-> FALSE, bytes |-> <<>>]

(* The bytes of a number, read most significant first: what the first k     *)
(* come to, for every k.                                                    *)
Magnitudes(bytes) ==
    LET v[k \in 0..Len(bytes)] == IF k = 0 THEN 0 ELSE v[k - 1] * Radix + bytes[k] IN v

Magnitude(bytes) == Magnitudes(bytes)[Len(bytes)]

FromByteArray(bytes, little, signed) ==
    LET big == IF little THEN Reverse(bytes) ELSE bytes
        v   == Magnitude(big)
    IN  IF bytes # <<>> /\ signed /\ 2 * Head(big) >= Radix THEN v - Span(Len(bytes)) ELSE v

(* How many bits |v| has: the length of its binary digits. *)
BitLength(m) == CHOOSE b \in 1..(m + 1) : m < Pow[b] /\ (b = 1 \/ m >= Pow[b - 1])

Abs(v) == IF v < 0 THEN -v ELSE v

Compact(v) == Abs(v) < Pow[SizeofSsize * ByteBits - 2]

(* Mutant: the sign bit is never counted. *)
CompactSizeUnsigned(v, n, unsignedOK) ==
    IF n <= 0 \/ n > SizeofSsize THEN SizeofSsize
    ELSE IF FitsSigned(v, n) \/ (v > 0 /\ v < Span(n)) THEN n
    ELSE SizeofSsize

CompactSize(v, n, unsignedOK) ==
    IF n <= 0 \/ n > SizeofSsize THEN SizeofSsize
    ELSE IF FitsSigned(v, n) THEN n
    ELSE IF v > 0 /\ v < Span(n) THEN IF unsignedOK THEN n ELSE n + 1
    ELSE SizeofSsize

LargeSize(v, n, unsignedOK) ==
    LET nb  == BitLength(Abs(v))
        res == (nb \div ByteBits) + 1
    IN  IF n > 0 /\ res = n + 1 /\ nb % ByteBits = 0
        THEN IF v < 0 THEN IF Abs(v) = Pow[nb - 1] THEN n ELSE res
             ELSE IF unsignedOK THEN n ELSE n + 1
        ELSE res

(* The flags, by name: "default" is -1; native order is little-endian. *)
Little(flags)     == flags \cap {"default", "native", "little"} # {}
UnsignedOK(flags) == flags \cap {"default", "unsigned"} # {}

AsNativeBytes(v, n, flags) ==
    IF "nonnegative" \in flags /\ v < 0
    THEN [size |-> -1, bytes |-> <<>>]
    ELSE [size  |-> IF Compact(v) THEN CompactSize(v, n, UnsignedOK(flags))
                    ELSE LargeSize(v, n, UnsignedOK(flags)),
          bytes |-> Bytes(v, n, Little(flags))]

-----------------------------------------------------------------------------
(* A C int: the word returned or stored, the exception set, and the flag   *)
(* that PyLong_As*AndOverflow stores.                                      *)
Word(v, n)    == [word |-> v % Span(n), error |-> "none", overflow |-> 0]
Failed(n, e)  == [Word(-1, n) EXCEPT !.error = e]
Unwritten     == -1                     \* the caller's word is left as it was

(* PyLong_AsLong, AsInt, AsSsize_t, AsLongLong. *)
AsSigned(v, n) == IF FitsSigned(v, n) THEN Word(v, n) ELSE Failed(n, "OverflowError")

(* PyLong_AsUnsignedLong, AsSize_t, AsUnsignedLongLong. *)
AsUnsigned(v, n) == IF FitsUnsigned(v, n) THEN Word(v, n) ELSE Failed(n, "OverflowError")

(* PyLong_AsUnsignedLongMask. *)
AsMask(v, n) == Word(v, n)

(* PyLong_AsUInt32 and the _PyLong_U*_Converters, which answer by a status. *)
Converter(v, n) ==
    IF FitsUnsigned(v, n) THEN Word(v, n)
    ELSE [word |-> Unwritten, overflow |-> 0,
          error |-> IF v < 0 THEN "ValueError" ELSE "OverflowError"]

(* PyLong_AsLongAndOverflow, AsLongLongAndOverflow: a flag, no exception. *)
AndOverflow(v, n) ==
    IF FitsSigned(v, n) THEN Word(v, n)
    ELSE [Word(-1, n) EXCEPT !.overflow = IF v < 0 THEN -1 ELSE 1]

(* PyNumber_AsSsize_t: without an exception to raise it clamps. *)
AsIndex(v, n, exc) ==
    IF FitsSigned(v, n) THEN Word(v, n)
    ELSE IF exc THEN Failed(n, "exc")
    ELSE Word(IF v < 0 THEN -(Span(n) \div 2) ELSE (Span(n) \div 2) - 1, n)

WordKinds ==
    {"signed", "unsigned", "mask", "converter", "overflow", "index", "clamp"}

AsWord(as, v, n) ==
    CASE as = "signed"    -> AsSigned(v, n)
      [] as = "unsigned"  -> AsUnsigned(v, n)
      [] as = "mask"      -> AsMask(v, n)
      [] as = "converter" -> Converter(v, n)
      [] as = "overflow"  -> AndOverflow(v, n)
      [] as = "index"     -> AsIndex(v, n, TRUE)
      [] as = "clamp"     -> AsIndex(v, n, FALSE)
=============================================================================
