-------------------------- MODULE ConversionsProofs --------------------------
(***************************************************************************)
(* Arguments binds as Python does, for any number of parameters, any       *)
(* parser over them and any call.  Both ways of reading a slice give C the *)
(* places Python's slice selects, for any Py_ssize_t, any length, any step *)
(* and any bounds.  Ints become bytes and C ints, and bytes ints, without  *)
(* a loss that C is not told of, for any width of a byte and of a word.    *)
(*                                                                         *)
(* The loops that bind have an invariant each (ClinicLoop, FormatLoop).    *)
(* The two ways of reading a slice come to the same places (Places): each  *)
(* bound clamped to where the loop may start or end, and a count that is a *)
(* division.  Those are the multiples of the stride within a distance      *)
(* (Multiples), seen from the start in the direction of the step.  Bytes   *)
(* are the digits of the int's two's complement (Digits), one and only one *)
(* way to write it; the size of an int is the least that holds it (Sizes). *)
(***************************************************************************)
EXTENDS Conversions, FiniteSetTheorems, WellFoundedInduction, TLAPS

-----------------------------------------------------------------------------
(* Binding. *)

(* The first slot the keyword loop looks at. *)
First == Greater(Copied, parser.posonly) + 1

Scanned == First..(slot - 1)

(* What is done of the slots before the loop's. *)
Covered == \A i \in Required : i < slot => i <= Copied \/ i \in kw

(* The keyword loop of wasthon_unpack_keywords. *)
ClinicLoop ==
    /\ ~Excess /\ nargs >= MinPosOnly
    /\ slot >= First
    /\ \A i \in Slots(parser) : buf[i] = IF i < slot THEN Rightful(i) ELSE "absent"
    /\ Covered
    /\ remaining = Cardinality(kw \ Scanned)

(* The walk over a format string. *)
FormatLoop ==
    /\ ~Unexpected /\ nargs <= parser.maxpos
    /\ \A i \in Slots(parser) : i < slot => buf[i] = Rightful(i)
    /\ Covered

ArgsInv ==
    /\ ArgsTypeOK
    /\ pc = "check" => slot = 1 /\ remaining = Cardinality(kw)
    /\ pc # "done" => result = "none"
    /\ pc = "fill" => IF parser.format THEN FormatLoop ELSE ClinicLoop
    /\ pc = "rest" => ~parser.format /\ ClinicLoop /\ Ends
    /\ BindsAsPython

-----------------------------------------------------------------------------
(* What the type of a parser says of its numbers. *)
LEMMA ParserFacts ==
    ASSUME parser \in Parsers
    PROVE  /\ parser.total \in Nat /\ parser.posonly \in Nat /\ parser.minpos \in Nat
           /\ parser.maxpos \in Nat /\ parser.minkw \in Nat
           /\ parser.varpos \in BOOLEAN /\ parser.format \in BOOLEAN
           /\ parser.posonly <= parser.maxpos /\ parser.minpos <= parser.maxpos
           /\ parser.maxpos + parser.minkw <= parser.total
           /\ parser.format => parser.minkw = 0 /\ ~parser.varpos
  BY ArgumentsAssumption DEF Parsers, ParserOK

(* A call has finitely many keywords. *)
LEMMA KeywordsFinite ==
    ASSUME parser \in Parsers, kw \in SUBSET (Nameable(parser) \cup Unknown)
    PROVE  IsFiniteSet(kw)
<1>1. IsFiniteSet(Nameable(parser))
  <2>1. parser.posonly + 1 \in Int /\ parser.total \in Int
    BY ParserFacts
  <2> QED
    BY <2>1, FS_Interval, Zenon DEF Nameable
<1>2. IsFiniteSet(Nameable(parser) \cup Unknown)
  BY <1>1, ArgumentsAssumption, FS_Union
<1> QED
  BY <1>2, FS_Subset

(* The keywords left are none exactly when their count is zero. *)
LEMMA NoneLeft ==
    ASSUME parser \in Parsers, kw \in SUBSET (Nameable(parser) \cup Unknown), NEW S
    PROVE  /\ Cardinality(kw \ S) \in Nat
           /\ Cardinality(kw \ S) = 0 <=> kw \subseteq S
<1>1. IsFiniteSet(kw \ S)
  BY KeywordsFinite, FS_Difference
<1> QED
  BY <1>1, FS_CardinalityType, FS_EmptySet

(* A required parameter is one of the loop's required slots. *)
LEMMA RequiredSlots ==
    ASSUME parser \in Parsers, NEW i \in Int
    PROVE  /\ i \in Required <=> i >= 1 /\ RequiredSlot(i)
           /\ i \in Required => i \in Slots(parser) /\ i <= ReqLimit
  BY ParserFacts DEF Required, RequiredSlot, ReqLimit, Slots

(* The refusal of a call by its number of arguments is right: as many names *)
(* as there are parameters left cannot all be new and known.                *)
LEMMA CountFault ==
    ASSUME ArgsTypeOK, TooMany
    PROVE  Excess \/ Unexpected \/ GivenTwice
<1> SUFFICES ASSUME ~Excess, ~Unexpected, ~GivenTwice
             PROVE  FALSE
  OBVIOUS
<1> USE ParserFacts DEF ArgsTypeOK
<1>1. nargs \in Nat /\ ~parser.varpos /\ nargs <= parser.maxpos
  BY ArgumentsAssumption DEF TooMany, Excess
<1>2. Copied = nargs
  BY <1>1 DEF Copied, Lesser
<1>3. kw \subseteq (nargs + 1)..parser.total
  BY <1>1, <1>2 DEF Unexpected, GivenTwice, Nameable
<1>4. /\ IsFiniteSet((nargs + 1)..parser.total)
      /\ Cardinality((nargs + 1)..parser.total) = parser.total - nargs
  <2>1. nargs + 1 \in Int /\ parser.total \in Int /\ nargs <= parser.total
    BY <1>1
  <2>2. /\ IsFiniteSet((nargs + 1)..parser.total)
        /\ Cardinality((nargs + 1)..parser.total)
             = IF nargs + 1 > parser.total THEN 0 ELSE parser.total - (nargs + 1) + 1
    BY <2>1, FS_Interval, Zenon
  <2> QED
    BY <2>1, <2>2, <1>1
<1>5. Cardinality(kw) <= parser.total - nargs
  BY <1>3, <1>4, FS_Subset
<1>6. Cardinality(kw) \in Nat
  BY KeywordsFinite, FS_CardinalityType
<1> QED
  BY <1>1, <1>5, <1>6 DEF TooMany

-----------------------------------------------------------------------------
(* Before the checks nothing is done yet. *)
LEMMA InitInv == Init => ArgsInv
<1> SUFFICES ASSUME Init PROVE ArgsInv
  OBVIOUS
<1> USE DEF Init
<1>1. Cardinality(kw) \in Nat
  BY KeywordsFinite, FS_CardinalityType
<1>2. Empty(parser) \in [Slots(parser) -> Fills]
  BY DEF Empty, Fills
<1>3. ArgsTypeOK
  BY <1>1, <1>2, ParserFacts DEF ArgsTypeOK, Results
<1> QED
  BY <1>3 DEF ArgsInv, BindsAsPython

(* Facts about the numbers of the loop, in any typed state. *)
LEMMA LoopNumbers ==
    ASSUME ArgsTypeOK
    PROVE  /\ nargs \in Nat /\ slot \in Nat /\ remaining \in Nat
           /\ Copied \in Nat /\ Copied <= nargs /\ Copied <= parser.maxpos
           /\ nargs <= parser.maxpos => Copied = nargs
           /\ First \in Nat /\ First > Copied /\ First > parser.posonly
           /\ First = Copied + 1 \/ First = parser.posonly + 1
           /\ slot >= 1 /\ slot <= parser.total + 1 /\ First <= parser.total + 1
           /\ ReqLimit \in Nat /\ MinPosOnly \in Nat
           /\ \A i \in kw \cap Int : i \in Nameable(parser) /\ i \in Slots(parser) /\ i > parser.posonly
           /\ Unexpected \in BOOLEAN /\ Missing \in BOOLEAN /\ GivenTwice \in BOOLEAN
<1> USE ParserFacts, ArgumentsAssumption DEF ArgsTypeOK
<1>1. nargs \in Nat /\ slot \in Nat /\ slot >= 1 /\ slot <= parser.total + 1
  OBVIOUS
<1>2. /\ Copied \in Nat /\ Copied <= nargs /\ Copied <= parser.maxpos
      /\ nargs <= parser.maxpos => Copied = nargs
  BY <1>1 DEF Copied, Lesser
<1>3. /\ First \in Nat /\ First > Copied /\ First > parser.posonly
      /\ First = Copied + 1 \/ First = parser.posonly + 1
      /\ First <= parser.total + 1
  BY <1>2 DEF First, Greater
<1>4. ReqLimit \in Nat /\ MinPosOnly \in Nat
  BY DEF ReqLimit, MinPosOnly, Lesser
<1>5. \A i \in kw \cap Int : i \in Nameable(parser) /\ i \in Slots(parser) /\ i > parser.posonly
  BY DEF Nameable, Slots
<1> QED
  BY <1>1, <1>2, <1>3, <1>4, <1>5 DEF Unexpected, Missing, GivenTwice

(* The refusals of wasthon_unpack_keywords before its loop. *)
LEMMA RefuseInv ==
    ASSUME ArgsInv, Refuse
    PROVE  ArgsInv'
<1> USE DEF ArgsInv, Refuse, Finish
<1>1. result' \in {"count", "positional", "few"} /\ pc' = "done"
  OBVIOUS
<1>2. ArgsTypeOK'
  BY <1>1 DEF ArgsTypeOK, Results, Faults
<1>3. IsTrue(result')
  <2>1. CASE TooMany /\ result' = "count"
    BY <2>1, CountFault DEF IsTrue
  <2>2. CASE TooPositional /\ result' = "positional"
    BY <2>2 DEF IsTrue, TooPositional, Excess
  <2>3. CASE TooFew /\ result' = "few"
    <3>1. nargs < parser.posonly /\ nargs < parser.minpos
      BY <2>3, LoopNumbers, ParserFacts DEF TooFew, MinPosOnly, Lesser, ArgsTypeOK
    <3>2. nargs + 1 \in Required /\ nargs + 1 > Copied
      BY <3>1, LoopNumbers, ParserFacts DEF Required, ArgsTypeOK
    <3>3. nargs + 1 \notin kw
      BY <3>1, LoopNumbers, ParserFacts DEF ArgsTypeOK
    <3> QED
      BY <2>3, <3>2, <3>3 DEF IsTrue, Missing
  <2> QED
    BY <2>1, <2>2, <2>3
<1>4. BindsAsPython'
  BY <1>1, <1>3 DEF BindsAsPython, IsTrue, Excess, Unexpected, GivenTwice, Missing, Copied,
                    Required, Nameable
<1> QED
  BY <1>1, <1>2, <1>4

(* The positional arguments are in place, and the loop starts behind them. *)
LEMMA CopyInv ==
    ASSUME ArgsInv, Copy
    PROVE  ArgsInv'
<1> USE DEF ArgsInv, Copy
<1> USE LoopNumbers, ParserFacts DEF ArgsTypeOK
<1>1. slot' = First /\ pc' = "fill"
  BY DEF First
<1>2. ArgsTypeOK'
  <2>1. buf' \in [Slots(parser) -> Fills]
    BY DEF Fills
  <2> QED
    BY <1>1, <2>1
<1>3. Copied' = Copied /\ First' = First /\ MinPosOnly' = MinPosOnly /\ Excess' = Excess
      /\ Required' = Required /\ Scanned' = First..(slot' - 1)
  BY DEF Copied, First, MinPosOnly, Excess, Required, Scanned
<1>4. ~Excess /\ nargs >= MinPosOnly
  BY DEF Excess, TooPositional, TooFew
<1>5. \A i \in Slots(parser) : buf'[i] = IF i < slot' THEN Rightful(i) ELSE "absent"
  <2> SUFFICES ASSUME NEW i \in Slots(parser)
               PROVE  buf'[i] = IF i < slot' THEN Rightful(i) ELSE "absent"
    OBVIOUS
  <2>1. i \in Nat /\ buf'[i] = IF i <= Copied THEN "position" ELSE "absent"
    BY DEF Slots
  <2>2. CASE i > Copied /\ i < First
    <3>1. i \notin kw
      BY <2>1, <2>2
    <3> QED
      BY <2>1, <2>2, <3>1, <1>1 DEF Rightful
  <2> QED
    BY <2>1, <2>2, <1>1 DEF Rightful
<1>6. Covered'
  <2> SUFFICES ASSUME NEW i \in Required, i < First
               PROVE  i <= Copied
    BY <1>1, <1>3 DEF Covered
  <2>1. i \in Nat /\ (i <= parser.minpos \/ i > parser.maxpos)
    BY DEF Required
  <2>2. CASE i <= parser.posonly
    BY <2>1, <2>2, <1>4 DEF MinPosOnly, Copied, Lesser
  <2> QED
    BY <2>1, <2>2
<1>7. remaining' = Cardinality(kw' \ Scanned')
  <2>1. Scanned' = {}
    BY <1>1, <1>3
  <2> QED
    BY <2>1
<1>8. ClinicLoop'
  BY <1>1, <1>3, <1>4, <1>5, <1>6, <1>7 DEF ClinicLoop, Rightful
<1> QED
  BY <1>1, <1>2, <1>8 DEF BindsAsPython

(* A keyword has its slot: one fewer is left. *)
LEMMA PlaceInv ==
    ASSUME ArgsInv, Place
    PROVE  ArgsInv'
<1> USE DEF ArgsInv, Place
<1> USE LoopNumbers, ParserFacts DEF ArgsTypeOK
<1>1. ClinicLoop /\ slot \in kw /\ slot \in Slots(parser) /\ slot <= parser.total
  BY DEF Found, Ends, Slots
<1>2. /\ Copied' = Copied /\ First' = First /\ MinPosOnly' = MinPosOnly /\ Excess' = Excess
      /\ Required' = Required /\ Scanned' = Scanned \cup {slot}
  <2>1. Copied' = Copied /\ First' = First /\ MinPosOnly' = MinPosOnly /\ Excess' = Excess
        /\ Required' = Required /\ Scanned' = First..(slot' - 1)
    BY DEF Copied, First, MinPosOnly, Excess, Required, Scanned
  <2>2. First..slot = First..(slot - 1) \cup {slot}
    BY <1>1 DEF ClinicLoop
  <2> QED
    BY <2>1, <2>2 DEF Scanned
<1>3. remaining' = Cardinality(kw' \ Scanned') /\ remaining' \in Nat
  <2>1. IsFiniteSet(kw \ Scanned)
    BY KeywordsFinite, FS_Difference
  <2>2. slot \in kw \ Scanned
    BY <1>1 DEF Scanned
  <2>3. Cardinality((kw \ Scanned) \ {slot}) = Cardinality(kw \ Scanned) - 1
    BY <2>1, <2>2, FS_RemoveElement
  <2>4. kw' \ Scanned' = (kw \ Scanned) \ {slot}
    BY <1>2
  <2>5. remaining > 0 /\ remaining = Cardinality(kw \ Scanned)
    BY <1>1 DEF Found, ClinicLoop
  <2>6. Cardinality(kw' \ Scanned') = Cardinality(kw \ Scanned) - 1
    BY <2>3, <2>4, Zenon
  <2> QED
    BY <2>5, <2>6
<1>4. ArgsTypeOK'
  BY <1>1, <1>3 DEF Fills
<1>5. Rightful(slot) = "name"
  BY <1>1 DEF Rightful, ClinicLoop
<1>6. \A i \in Slots(parser) : buf'[i] = IF i < slot' THEN Rightful(i) ELSE "absent"
  BY <1>1, <1>5 DEF ClinicLoop, Slots
<1>7. Covered'
  BY <1>1, <1>2 DEF Covered, ClinicLoop, Required
<1>8. ClinicLoop'
  BY <1>1, <1>2, <1>3, <1>6, <1>7 DEF ClinicLoop, Rightful
<1> QED
  BY <1>4, <1>8 DEF BindsAsPython

(* A slot no keyword fills stays empty, or a required argument is missing. *)
LEMMA SkipInv ==
    ASSUME ArgsInv, Skip
    PROVE  ArgsInv'
<1> USE DEF ArgsInv, Skip, Finish
<1> USE LoopNumbers, ParserFacts DEF ArgsTypeOK
<1>1. ClinicLoop /\ slot \in Slots(parser) /\ slot <= parser.total
  BY DEF Ends, Slots
<1>2. /\ Copied' = Copied /\ First' = First /\ MinPosOnly' = MinPosOnly /\ Excess' = Excess
      /\ Required' = Required /\ Unexpected' = Unexpected /\ Missing' = Missing
      /\ GivenTwice' = GivenTwice
  BY DEF Copied, First, MinPosOnly, Excess, Required, Unexpected, Missing, GivenTwice, Nameable
<1>3. slot \notin kw
  <2> SUFFICES ASSUME slot \in kw PROVE FALSE
    OBVIOUS
  <2>1. remaining = 0
    BY DEF Found
  <2>2. kw \subseteq Scanned
    BY <1>1, <2>1, NoneLeft DEF ClinicLoop
  <2> QED
    BY <2>2 DEF Scanned
<1>4. slot > Copied /\ Rightful(slot) = "absent"
  BY <1>1, <1>3 DEF Rightful, ClinicLoop
<1>5. buf' \in [Slots(parser) -> Fills]
  BY DEF Fills
<1>6. CASE RequiredSlot(slot)
  <2>1. slot \in Required
    BY <1>6, RequiredSlots
  <2>2. IsTrue("missing")
    BY <2>1, <1>3, <1>4 DEF IsTrue, Missing
  <2>3. BindsAsPython'
    BY <1>2, <1>6, <2>1, <1>3, <1>4 DEF BindsAsPython, IsTrue, Missing
  <2> QED
    BY <1>5, <1>6, <2>3 DEF Results, Faults
<1>7. CASE ~RequiredSlot(slot)
  <2>1. slot' = slot + 1 /\ UNCHANGED <<parser, nargs, kw, pc, remaining, result>>
    BY <1>7
  <2>2. ArgsTypeOK'
    BY <1>1, <1>5, <2>1
  <2>3. \A i \in Slots(parser) : buf'[i] = IF i < slot' THEN Rightful(i) ELSE "absent"
    BY <1>1, <1>4, <2>1 DEF ClinicLoop, Slots
  <2>4. Covered'
    <3>1. slot \notin Required
      BY <1>7, RequiredSlots
    <3> QED
      BY <1>1, <1>2, <2>1, <3>1 DEF Covered, ClinicLoop, Required
  <2>5. kw' \ Scanned' = kw \ Scanned
    <3>1. Scanned' = First..slot
      BY <1>2, <2>1 DEF Scanned
    <3>2. First..slot = First..(slot - 1) \cup {slot}
      BY <1>1 DEF ClinicLoop
    <3> QED
      BY <1>3, <2>1, <3>1, <3>2 DEF Scanned
  <2>6. remaining' = Cardinality(kw' \ Scanned')
    <3>1. Cardinality(kw' \ Scanned') = Cardinality(kw \ Scanned)
      BY <2>5, Zenon
    <3> QED
      BY <1>1, <2>1, <3>1 DEF ClinicLoop
  <2>7. ClinicLoop'
    BY <1>1, <1>2, <2>1, <2>3, <2>4, <2>6 DEF ClinicLoop, Rightful
  <2> QED
    BY <2>1, <2>2, <2>7 DEF BindsAsPython
<1> QED
  BY <1>6, <1>7

(* The end of the loop keeps what the loop did. *)
LEMMA LeaveInv ==
    ASSUME ArgsInv, Leave
    PROVE  ArgsInv'
<1> USE DEF ArgsInv, Leave
<1>1. ArgsTypeOK'
  BY DEF ArgsTypeOK
<1>2. ClinicLoop' /\ Ends'
  BY DEF ClinicLoop, Ends, Excess, MinPosOnly, First, Copied, Rightful, Covered, Required,
         Scanned, ReqLimit
<1> QED
  BY <1>1, <1>2 DEF BindsAsPython

(* The loop is over: if no keyword is left, every slot is as Python says;  *)
(* one that is left had its slot from a position, or has none.             *)
LEMMA RestInv ==
    ASSUME ArgsInv, Rest
    PROVE  ArgsInv'
<1> USE DEF ArgsInv, Rest, Finish
<1> USE LoopNumbers, ParserFacts DEF ArgsTypeOK
<1>1. ClinicLoop /\ Ends /\ pc' = "done" /\ UNCHANGED <<parser, nargs, kw, slot, remaining, buf>>
  OBVIOUS
<1>2. /\ Copied' = Copied /\ Excess' = Excess /\ Unexpected' = Unexpected
      /\ Missing' = Missing /\ GivenTwice' = GivenTwice
  BY <1>1 DEF Copied, Excess, Unexpected, Missing, GivenTwice, Required, Nameable
<1>3. ArgsTypeOK'
  BY <1>1 DEF Results, Faults
<1>4. CASE remaining = 0
  <2>1. result' = "bound"
    BY <1>4
  <2>2. kw \subseteq Scanned
    BY <1>1, <1>4, NoneLeft DEF ClinicLoop
  <2>3. ~Unexpected
    <3>1. Scanned \subseteq Nameable(parser)
      BY DEF Scanned, Nameable
    <3> QED
      BY <2>2, <3>1, Zenon DEF Unexpected
  <2>4. ~GivenTwice
    BY <2>2 DEF GivenTwice, Scanned
  <2>5. ~Missing
    <3> SUFFICES ASSUME NEW i \in Required, i > Copied, i \notin kw
                 PROVE  FALSE
      BY DEF Missing
    <3>1. i \in Slots(parser) /\ i <= ReqLimit
      <4>1. i \in Int
        BY DEF Required
      <4> QED
        BY <4>1, RequiredSlots
    <3> QED
      BY <1>1, <3>1 DEF Ends, ClinicLoop, Covered, Slots
  <2>6. \A i \in Slots(parser) : buf[i] = Rightful(i)
    <3> SUFFICES ASSUME NEW i \in Slots(parser), i >= slot
                 PROVE  buf[i] = Rightful(i)
      BY <1>1 DEF ClinicLoop, Slots
    <3>1. i > Copied /\ i \notin kw
      BY <1>1, <2>2 DEF ClinicLoop, Scanned, Slots
    <3> QED
      BY <1>1, <3>1 DEF ClinicLoop, Rightful, Slots
  <2>7. ~Excess
    BY <1>1 DEF ClinicLoop
  <2>8. BindsAsPython'
    BY <1>1, <1>2, <2>1, <2>3, <2>4, <2>5, <2>6, <2>7 DEF BindsAsPython, Rightful
  <2> QED
    BY <1>1, <1>3, <2>8
<1>5. CASE remaining # 0
  <2>1. PICK k \in kw : k \notin Scanned
    BY <1>1, <1>5, NoneLeft DEF ClinicLoop
  <2>2. slot > parser.total
    BY <1>1, <1>5 DEF Ends
  <2>3. GivenTwice \/ Unexpected
    <3>1. CASE k \in Nameable(parser)
      <4>1. k \in Nat /\ k > parser.posonly /\ k < First
        BY <2>1, <2>2, <3>1 DEF Nameable, Scanned
      <4>2. k <= Copied
        BY <4>1
      <4> QED
        BY <3>1, <4>2 DEF GivenTwice
    <3> QED
      BY <3>1 DEF Unexpected
  <2>4. result' = (IF GivenTwice THEN "twice" ELSE "unexpected")
    BY <1>5
  <2>5. BindsAsPython'
    BY <1>1, <1>2, <2>3, <2>4 DEF BindsAsPython, IsTrue
  <2> QED
    BY <1>1, <1>3, <2>5
<1> QED
  BY <1>4, <1>5

-----------------------------------------------------------------------------
(* The walk over a format string. *)
LEMMA FormatInv ==
    ASSUME ArgsInv, RefuseFormat \/ StartFormat \/ EndFormat
    PROVE  ArgsInv'
<1> USE DEF ArgsInv
<1> USE LoopNumbers, ParserFacts DEF ArgsTypeOK
<1>1. UNCHANGED <<parser, nargs, kw, slot, remaining, buf>>
  BY DEF RefuseFormat, StartFormat, EndFormat
<1>2. /\ Copied' = Copied /\ Excess' = Excess /\ Unexpected' = Unexpected
      /\ Missing' = Missing /\ GivenTwice' = GivenTwice
  BY <1>1 DEF Copied, Excess, Unexpected, Missing, GivenTwice, Required, Nameable
<1>3. CASE RefuseFormat
  <2> USE <1>3 DEF RefuseFormat, Finish
  <2>1. pc' = "done" /\ result' \in {"unexpected", "positional"}
    OBVIOUS
  <2>2. BindsAsPython'
    BY <1>1, <1>2, <2>1 DEF BindsAsPython, IsTrue, Excess
  <2> QED
    BY <1>1, <2>1, <2>2 DEF Results, Faults
<1>4. CASE StartFormat
  <2> USE <1>4 DEF StartFormat
  <2>1. pc' = "fill" /\ slot = 1
    OBVIOUS
  <2>2. FormatLoop'
    BY <1>1, <1>2, <2>1 DEF FormatLoop, Covered, Required, Slots
  <2> QED
    BY <1>1, <2>1, <2>2 DEF BindsAsPython
<1>5. CASE EndFormat
  <2> USE <1>5 DEF EndFormat, Finish
  <2>1. FormatLoop /\ slot > parser.total /\ pc' = "done" /\ result' = "bound"
    OBVIOUS
  <2>2. ~Missing
    <3> SUFFICES ASSUME NEW i \in Required, i > Copied, i \notin kw
                 PROVE  FALSE
      BY DEF Missing
    <3>1. i \in Int
      BY DEF Required
    <3>2. i \in Slots(parser)
      BY <3>1, RequiredSlots
    <3> QED
      BY <2>1, <3>2 DEF FormatLoop, Covered, Slots
  <2>3. \A i \in Slots(parser) : buf[i] = Rightful(i)
    BY <2>1 DEF FormatLoop, Slots
  <2>4. ~Excess /\ ~Unexpected
    BY <2>1 DEF FormatLoop, Excess
  <2>5. BindsAsPython'
    BY <1>1, <1>2, <2>1, <2>2, <2>3, <2>4 DEF BindsAsPython, Rightful
  <2> QED
    BY <1>1, <2>1, <2>5 DEF Results
<1> QED
  BY <1>3, <1>4, <1>5

(* The walk fills a slot as Python does, or misses a required argument. *)
LEMMA WalkInv ==
    ASSUME ArgsInv, WalkSlot
    PROVE  ArgsInv'
<1> USE DEF ArgsInv, WalkSlot, Finish
<1> USE LoopNumbers, ParserFacts DEF ArgsTypeOK
<1>1. FormatLoop /\ slot \in Slots(parser) /\ Copied = nargs
  BY DEF FormatLoop, Slots
<1>2. /\ Copied' = Copied /\ Required' = Required /\ Unexpected' = Unexpected
      /\ Missing' = Missing
  BY DEF Copied, Required, Unexpected, Missing, Nameable
<1>3. ValueOf(slot) = Rightful(slot) /\ ValueOf(slot) \in Fills
  BY <1>1 DEF ValueOf, Rightful, Fills
<1>4. buf' \in [Slots(parser) -> Fills]
  BY <1>3
<1>5. CASE ValueOf(slot) = "absent" /\ slot <= parser.minpos
  <2>1. slot \in Required /\ slot > Copied /\ slot \notin kw
    BY <1>1, <1>5 DEF ValueOf, Required, Slots
  <2>2. Missing'
    BY <1>2, <2>1 DEF Missing
  <2>3. BindsAsPython'
    BY <1>5, <2>2 DEF BindsAsPython, IsTrue
  <2> QED
    BY <1>4, <1>5, <2>3 DEF Results, Faults
<1>6. CASE ~(ValueOf(slot) = "absent" /\ slot <= parser.minpos)
  <2>1. slot' = slot + 1 /\ UNCHANGED <<parser, nargs, kw, pc, remaining, result>>
    BY <1>6
  <2>2. \A i \in Slots(parser) : i < slot' => buf'[i] = Rightful(i)
    BY <1>1, <1>3, <2>1 DEF FormatLoop, Slots
  <2>3. slot \in Required => slot <= Copied \/ slot \in kw
    BY <1>1, <1>6 DEF Required, ValueOf
  <2>4. Covered'
    BY <1>1, <1>2, <2>1, <2>3 DEF Covered, FormatLoop, Required
  <2>5. FormatLoop'
    BY <1>1, <1>2, <2>1, <2>2, <2>4 DEF FormatLoop, Rightful
  <2> QED
    BY <1>1, <1>4, <2>1, <2>5 DEF BindsAsPython, Slots
<1> QED
  BY <1>5, <1>6

-----------------------------------------------------------------------------
(* Every step keeps the invariant. *)
LEMMA ArgsStep == ArgsInv /\ [Next]_argVars => ArgsInv'
<1> SUFFICES ASSUME ArgsInv, [Next]_argVars PROVE ArgsInv'
  OBVIOUS
<1>1. CASE UNCHANGED argVars
  BY <1>1 DEF argVars, ArgsInv, ArgsTypeOK, FormatLoop, ClinicLoop, Covered, BindsAsPython, Ends,
     Excess, Missing, Unexpected, GivenTwice, Rightful, IsTrue, Required, RequiredSlot, Copied,
     MinPosOnly, First, Scanned, ReqLimit
<1>2. CASE Next
  BY <1>2, RefuseInv, CopyInv, PlaceInv, SkipInv, LeaveInv, RestInv, FormatInv, WalkInv DEF Next
<1> QED
  BY <1>1, <1>2

(* The loop invariants of both parsers hold throughout. *)
THEOREM ArgsInvariance == Spec => []ArgsInv
<1> QED
  BY InitInv, ArgsStep, PTL DEF Spec

(* Whatever the parser and the call, a call is bound exactly when Python's  *)
(* rules bind it, each slot as they say, and an error is true of the call   *)
(* (a format string lets an argument given twice through).                  *)
THEOREM Binding == Spec => []BindsAsPython
<1>1. ArgsInv => BindsAsPython
  BY DEF ArgsInv
<1> QED
  BY <1>1, ArgsInvariance, PTL



-----------------------------------------------------------------------------
(* Division, by a positive divisor. *)

\* Quotient and remainder.
LEMMA Euclid ==
    ASSUME NEW x \in Int, NEW y \in Int, y > 0
    PROVE  /\ x \div y \in Int /\ x % y \in Int
           /\ x = y * (x \div y) + (x % y) /\ 0 <= x % y /\ x % y < y
OBVIOUS

\* They are the only ones.
LEMMA Divided ==
    ASSUME NEW y \in Nat \ {0}, NEW q \in Int, NEW r \in 0..(y - 1)
    PROVE  (y * q + r) % y = r /\ (y * q + r) \div y = q
OBVIOUS

\* The same, for a number that is given.
LEMMA DividedBy ==
    ASSUME NEW y \in Nat \ {0}, NEW q \in Int, NEW r \in 0..(y - 1), NEW x \in Int, x = q * y + r
    PROVE  x % y = r /\ x \div y = q
<1>1. q * y = y * q
  OBVIOUS
<1> QED
  BY <1>1, Divided

\* Multiples compare as their factors do.
LEMMA NoSmaller ==
    ASSUME NEW y \in Nat \ {0}, NEW q \in Int, NEW p \in Int, y * q < y * p + y
    PROVE  q <= p
OBVIOUS

\* How many multiples of k there are from 0 to below m.
HowMany(m, k) == IF m > 0 THEN ((m - 1) \div k) + 1 ELSE 0

\* There are none, or some.
LEMMA HowManyNat ==
    ASSUME NEW m \in Int, NEW k \in Int, k > 0
    PROVE  HowMany(m, k) \in Nat
<1>1. CASE m > 0
  <2>1. /\ (m - 1) \div k \in Int /\ (m - 1) % k \in Int
        /\ m - 1 = k * ((m - 1) \div k) + ((m - 1) % k) /\ (m - 1) % k < k
    BY Euclid
  <2> DEFINE q == (m - 1) \div k
             r == (m - 1) % k
  <2>2. k * 0 < k * q + k
    BY <1>1, <2>1
  <2> HIDE DEF q
  <2>3. q \in Int
    BY <2>1 DEF q
  <2>4. 0 <= q
    BY <2>2, <2>3, NoSmaller
  <2> QED
    BY <1>1, <2>3, <2>4 DEF HowMany, q
<1>2. CASE ~(m > 0)
  BY <1>2 DEF HowMany
<1> QED
  BY <1>1, <1>2

\* The i-th multiple is (i - 1) * k.
LEMMA Multiples ==
    ASSUME NEW m \in Int, NEW k \in Int, k > 0, NEW y \in Int
    PROVE  (0 <= y /\ y < m /\ y % k = 0) <=> \E i \in 1..HowMany(m, k) : y = (i - 1) * k
<1> DEFINE q == (m - 1) \div k
           r == (m - 1) % k
<1>1. q \in Int /\ r \in Int /\ m - 1 = k * q + r /\ 0 <= r /\ r < k
  BY Euclid
<1>2. HowMany(m, k) \in Nat
  BY HowManyNat
<1>3. HowMany(m, k) = IF m > 0 THEN q + 1 ELSE 0
  BY DEF HowMany
<1> HIDE DEF q, r
<1>4. ASSUME 0 <= y, y < m, y % k = 0
      PROVE  \E i \in 1..HowMany(m, k) : y = (i - 1) * k
  <2> DEFINE p == y \div k
  <2>1. p \in Int /\ y = k * p
    BY <1>4, Euclid
  <2> HIDE DEF p
  <2>2. k * 0 < k * p + k /\ k * p < k * q + k
    BY <1>1, <1>4, <2>1
  <2>3. 0 <= p
    BY <2>1, <2>2, NoSmaller
  <2>4. p <= q
    BY <1>1, <2>1, <2>2, NoSmaller
  <2>5. p + 1 \in 1..HowMany(m, k) /\ y = ((p + 1) - 1) * k
    BY <1>1, <1>3, <1>4, <2>1, <2>3, <2>4
  <2> QED
    BY <2>5
<1>5. ASSUME NEW i \in 1..HowMany(m, k), y = (i - 1) * k
      PROVE  0 <= y /\ y < m /\ y % k = 0
  <2>1. m > 0 /\ i - 1 \in 0..q
    BY <1>1, <1>2, <1>3, <1>5
  <2>2. y = k * (i - 1) + 0 /\ 0 \in 0..(k - 1)
    <3>1. i - 1 \in Int /\ (i - 1) * k = k * (i - 1) /\ k * (i - 1) \in Int
      BY <1>1, <2>1
    <3>2. 0 \in 0..(k - 1) /\ y = k * (i - 1)
      BY <1>1, <1>5, <3>1
    <3> DEFINE a == k * (i - 1)
    <3> HIDE DEF a
    <3>3. a = a + 0
      BY <3>1 DEF a
    <3> QED
      BY <3>2, <3>3 DEF a
  <2>3. y % k = 0
    <3>1. k \in Nat \ {0} /\ i - 1 \in Int
      BY <1>1, <2>1
    <3>2. (k * (i - 1) + 0) % k = 0
      BY <2>2, <3>1, Divided
    <3> QED
      BY <2>2, <3>2
  <2> DEFINE a == k * (i - 1)
             b == k * q
  <2>4. 0 <= a /\ a <= b /\ a \in Int /\ b \in Int
    BY <1>1, <2>1
  <2>5. y = a /\ m - 1 = b + r
    BY <1>1, <2>2, <2>4
  <2> HIDE DEF a, b
  <2> QED
    BY <1>1, <2>3, <2>4, <2>5
<1> QED
  BY <1>4, <1>5

\* Brython's ceiling is the same number.
LEMMA CeilingCounts ==
    ASSUME NEW m \in Int, NEW k \in Int, k > 0
    PROVE  Greatest(0, -((-m) \div k)) = HowMany(m, k)
<1> DEFINE q == (m - 1) \div k
           r == (m - 1) % k
           p == (-m) \div k
           t == (-m) % k
<1>1. q \in Int /\ r \in Int /\ m - 1 = k * q + r /\ 0 <= r /\ r < k
  BY Euclid
<1>2. p \in Int /\ t \in Int /\ -m = k * p + t /\ 0 <= t /\ t < k
  BY Euclid
<1>3. HowMany(m, k) = IF m > 0 THEN q + 1 ELSE 0
  BY DEF HowMany
<1> HIDE DEF q, r, p, t
<1>4. -p = q + 1
  <2>1. k * (-p) < k * (q + 1) + k
    BY <1>1, <1>2
  <2>2. k * q < k * (-p - 1) + k
    BY <1>1, <1>2
  <2>3. -p <= q + 1 /\ q <= -p - 1
    BY <1>1, <1>2, <2>1, <2>2, NoSmaller
  <2> QED
    BY <1>1, <1>2, <2>3
<1>5. m > 0 => q + 1 >= 1
  <2>1. HowMany(m, k) \in Nat
    BY HowManyNat
  <2> QED
    BY <1>1, <1>3, <2>1
<1>6. ~(m > 0) => q + 1 <= 0
  <2> SUFFICES ASSUME ~(m > 0) PROVE q <= -1
    BY <1>1
  <2>1. k * q < k * (-1) + k
    BY <1>1
  <2> QED
    BY <1>1, <2>1, NoSmaller
<1> QED
  BY <1>1, <1>3, <1>4, <1>5, <1>6 DEF Greatest, p

-----------------------------------------------------------------------------
(* The places. *)

\* Where the loop over s starts, and where it ends, among len items.
Start(len, s) == IF s.start = None THEN IF StepOf(s) < 0 THEN len - 1 ELSE 0
                 ELSE Clamped(s.start, len, StepOf(s))
Stop(len, s) == IF s.stop = None THEN IF StepOf(s) < 0 THEN -1 ELSE len
                ELSE Clamped(s.stop, len, StepOf(s))

\* How far it is from one to the other, and the stride.
Distance(len, s) == IF StepOf(s) < 0 THEN Start(len, s) - Stop(len, s)
                                     ELSE Stop(len, s) - Start(len, s)
Stride(s) == IF StepOf(s) < 0 THEN -StepOf(s) ELSE StepOf(s)

Places(len, s) == [start |-> Start(len, s), stop |-> Stop(len, s), step |-> StepOf(s),
                   count |-> HowMany(Distance(len, s), Stride(s))]

Bounds == Int \cup {None}
Ssize == (-SsizeMax - 1)..SsizeMax

\* A slice whose step is a Py_ssize_t other than zero.
Sliceable(len, s) ==
    /\ len \in 0..SsizeMax
    /\ s.start \in Bounds /\ s.stop \in Bounds
    /\ StepOf(s) \in Ssize /\ StepOf(s) # 0

\* What fits a Py_ssize_t is left as it is.
LEMMA WrapNothing ==
    ASSUME NEW v \in Ssize
    PROVE  Wrapped(v) = v
<1> DEFINE y == 2 * SsizeMax + 2
<1>1. SsizeMax \in Nat
  BY SlicesAssumption
<1>2. v + SsizeMax + 1 \in 0..(y - 1) /\ y \in Nat \ {0}
  BY <1>1 DEF Ssize
<1>3. y * 0 + (v + SsizeMax + 1) = v + SsizeMax + 1
  BY <1>1 DEF Ssize
<1>4. (y * 0 + (v + SsizeMax + 1)) % y = v + SsizeMax + 1
  BY <1>2, Divided
<1>5. v \in Int
  BY <1>1 DEF Ssize
<1> QED
  BY <1>1, <1>3, <1>4, <1>5 DEF Wrapped

\* The bounds of the loop are next to the items, or among them.
LEMMA PlacesInRange ==
    ASSUME NEW len, NEW s, Sliceable(len, s)
    PROVE  /\ len \in Nat /\ StepOf(s) \in Int /\ Stride(s) \in Int /\ Stride(s) > 0
           /\ Start(len, s) \in -1..len /\ Stop(len, s) \in -1..len
           /\ Distance(len, s) \in Int
<1>1. SsizeMax \in Nat /\ None \notin Int
  BY SlicesAssumption
<1>2. len \in Nat /\ StepOf(s) \in Int /\ Stride(s) \in Int /\ Stride(s) > 0
  BY <1>1 DEF Sliceable, Ssize, Stride
<1>3. Start(len, s) \in -1..len
  BY <1>1, <1>2 DEF Sliceable, Bounds, Start, Clamped
<1>4. Stop(len, s) \in -1..len
  BY <1>1, <1>2 DEF Sliceable, Bounds, Stop, Clamped
<1> QED
  BY <1>2, <1>3, <1>4 DEF Distance

\* PySlice_Unpack and PySlice_AdjustIndices.
LEMMA UnpackPlaces ==
    ASSUME NEW len, NEW s, Sliceable(len, s), InSsize(s.start), InSsize(s.stop)
    PROVE  AdjustIndices(len, Unpacked(s)) = Places(len, s)
<1> DEFINE u == Unpacked(s)
           back == StepOf(s) < 0
<1>1. SsizeMax \in Nat \ {0} /\ None \notin Int
  BY SlicesAssumption
<1>2. /\ len \in Nat /\ len <= SsizeMax /\ StepOf(s) \in Int /\ StepOf(s) # 0
      /\ StepOf(s) \in Ssize
  BY <1>1, PlacesInRange DEF Sliceable
<1>3. /\ s.start # None => s.start \in Ssize /\ s.start \in Int
      /\ s.stop # None => s.stop \in Ssize /\ s.stop \in Int
  BY <1>1 DEF Sliceable, Bounds, InSsize, Ssize
<1>4. /\ u.start = IF s.start # None THEN s.start ELSE IF back THEN SsizeMax ELSE 0
      /\ u.stop = IF s.stop # None THEN s.stop ELSE IF back THEN -SsizeMax - 1 ELSE SsizeMax
      /\ u.step = StepOf(s)
  BY <1>2, <1>3, WrapNothing DEF Unpacked
<1> HIDE DEF u
<1>5. Clamped(u.start, len, u.step) = Start(len, s)
  BY <1>1, <1>2, <1>3, <1>4 DEF Start, Clamped
<1>6. Clamped(u.stop, len, u.step) = Stop(len, s)
  BY <1>1, <1>2, <1>3, <1>4 DEF Stop, Clamped
<1>7. Start(len, s) \in Int /\ Stop(len, s) \in Int
  BY PlacesInRange
<1>8. Count(Start(len, s), Stop(len, s), StepOf(s)) = HowMany(Distance(len, s), Stride(s))
  <2> DEFINE a == Start(len, s)
             b == Stop(len, s)
             k == StepOf(s)
  <2>1. a \in Int /\ b \in Int /\ k \in Int
    BY <1>2, <1>7
  <2> HIDE DEF a, b, k
  <2>2. Count(a, b, k) = IF k < 0 THEN HowMany(a - b, -k) ELSE HowMany(b - a, k)
    BY <2>1 DEF Count, HowMany
  <2> QED
    BY <2>2 DEF a, b, k, Distance, Stride
<1> QED
  BY <1>4, <1>5, <1>6, <1>8 DEF AdjustIndices, Places, u

\* A count of places is no more than there are items.
LEMMA FewPlaces ==
    ASSUME NEW m \in Int, NEW n \in Nat, m <= n, NEW k \in Int, k > 0
    PROVE  HowMany(m, k) <= n
<1>1. CASE m > 0
  <2> DEFINE q == (m - 1) \div k
             r == (m - 1) % k
  <2>1. q \in Int /\ r \in Int /\ m - 1 = k * q + r /\ 0 <= r /\ r < k
    BY Euclid
  <2>2. HowMany(m, k) = q + 1 /\ HowMany(m, k) \in Nat
    BY <1>1, HowManyNat DEF HowMany
  <2> HIDE DEF q, r
  <2>3. q <= k * q
    <3>1. CASE q = -1
      BY <1>1, <2>1, <3>1
    <3>2. CASE q >= 0
      BY <2>1, <3>2
    <3> QED
      BY <2>1, <2>2, <3>1, <3>2
  <2> QED
    BY <2>1, <2>2, <2>3
<1>2. CASE ~(m > 0)
  BY <1>2 DEF HowMany
<1> QED
  BY <1>1, <1>2

\* PySlice_GetIndicesEx over slice.indices.
LEMMA IndicesPlaces ==
    ASSUME NEW len, NEW s, Sliceable(len, s)
    PROVE  GetIndicesEx(len, s) = Places(len, s)
<1> DEFINE i == Indices(len, s)
           k == StepOf(s)
<1>1. SsizeMax \in Nat \ {0} /\ None \notin Int
  BY SlicesAssumption
<1>2. /\ len \in Nat /\ len <= SsizeMax /\ k \in Int /\ k # 0 /\ k \in Ssize
      /\ Start(len, s) \in -1..len /\ Stop(len, s) \in -1..len
      /\ Distance(len, s) \in Int /\ Stride(s) \in Int /\ Stride(s) > 0
  BY <1>1, PlacesInRange DEF Sliceable
<1>3. /\ s.start # None => s.start \in Int
      /\ s.stop # None => s.stop \in Int
  BY DEF Sliceable, Bounds
<1>4. i.start = Start(len, s)
  BY <1>1, <1>2, <1>3 DEF Indices, Start, Clamped, Greatest, Least
<1>5. i.stop = Stop(len, s)
  BY <1>1, <1>2, <1>3 DEF Indices, Stop, Clamped, Greatest, Least
<1>6. i.step = k
  BY DEF Indices
<1> HIDE DEF i
<1>7. Wrapped(i.start) = Start(len, s) /\ Wrapped(i.stop) = Stop(len, s) /\ Wrapped(i.step) = k
  <2>1. Start(len, s) \in Ssize /\ Stop(len, s) \in Ssize
    BY <1>1, <1>2 DEF Ssize
  <2> QED
    BY <1>2, <1>4, <1>5, <1>6, <2>1, WrapNothing
<1>8. Greatest(0, Ceiling(i.stop - i.start, i.step)) = HowMany(Distance(len, s), Stride(s))
  <2> DEFINE m == Distance(len, s)
             d == Stride(s)
  <2>1. Ceiling(i.stop - i.start, i.step) = -((-m) \div d)
    <3> DEFINE a == Start(len, s)
               b == Stop(len, s)
    <3>1. a \in Int /\ b \in Int /\ k \in Int
      BY <1>2
    <3>2. Distance(len, s) = (IF k < 0 THEN a - b ELSE b - a) /\ Stride(s) = IF k < 0 THEN -k ELSE k
      BY DEF Distance, Stride
    <3> HIDE DEF a, b, k
    <3>3. -(a - b) = b - a
      BY <3>1
    <3>4. k # 0
      BY <1>2 DEF k
    <3> QED
      BY <1>4, <1>5, <1>6, <3>1, <3>2, <3>3, <3>4 DEF Ceiling, a, b
  <2> HIDE DEF m, d
  <2> QED
    BY <1>2, <2>1, CeilingCounts DEF m, d
<1>9. HowMany(Distance(len, s), Stride(s)) \in Ssize
  <2>1. HowMany(Distance(len, s), Stride(s)) \in Nat
    BY <1>2, HowManyNat
  <2>2. Distance(len, s) <= len
    BY <1>1, <1>2, <1>3 DEF Distance, Start, Stop, Clamped
  <2>3. HowMany(Distance(len, s), Stride(s)) <= len
    BY <1>2, <2>2, FewPlaces
  <2> QED
    BY <1>1, <1>2, <2>1, <2>3 DEF Ssize
<1>10. Wrapped(Greatest(0, Ceiling(i.stop - i.start, i.step)))
         = HowMany(Distance(len, s), Stride(s))
  BY <1>8, <1>9, WrapNothing
<1> QED
  BY <1>7, <1>10 DEF GetIndicesEx, Places, i

-----------------------------------------------------------------------------
(* Python's places. *)

\* Where x is, counted from the start in the direction of the step.
Offset(x, len, s) == IF StepOf(s) < 0 THEN Start(len, s) - x ELSE x - Start(len, s)

\* Python's first place, which may be past the items, and its other bound.
At(v, len) == IF v < 0 THEN v + len ELSE v
Origin(len, s) ==
    IF s.start = None THEN IF StepOf(s) > 0 THEN 0 ELSE len - 1
    ELSE IF StepOf(s) > 0 THEN Greatest(At(s.start, len), 0)
                          ELSE Least(At(s.start, len), len - 1)
Short(x, len, s) ==
    s.stop = None \/ (IF StepOf(s) > 0 THEN x < At(s.stop, len) ELSE x > At(s.stop, len))

\* Python's definition, in these words.
LEMMA BetweenParts ==
    ASSUME NEW x, NEW len, NEW s, StepOf(s) \in Int, StepOf(s) # 0
    PROVE  Between(x, len, s) <=>
             /\ IF StepOf(s) > 0 THEN x >= Origin(len, s) ELSE x <= Origin(len, s)
             /\ Short(x, len, s)
             /\ (IF StepOf(s) > 0 THEN x - Origin(len, s) ELSE Origin(len, s) - x)
                  % Stride(s) = 0
<1>1. Stride(s) = IF StepOf(s) > 0 THEN StepOf(s) ELSE -StepOf(s)
  BY DEF Stride
<1> QED
  BY <1>1 DEF Between, Origin, Short, At

\* A place is selected when it is a multiple of the stride away from the start,
\* and short of the end.
LEMMA SelectedIs ==
    ASSUME NEW len, NEW s, Sliceable(len, s), NEW x \in Int
    PROVE  x \in Selected(len, s) <=>
             /\ 0 <= Offset(x, len, s) /\ Offset(x, len, s) < Distance(len, s)
             /\ Offset(x, len, s) % Stride(s) = 0
<1> DEFINE k == StepOf(s)
           a == Start(len, s)
           b == Stop(len, s)
           o == Origin(len, s)
<1>1. /\ len \in Nat /\ k \in Int /\ k # 0 /\ None \notin Int
      /\ a \in Int /\ b \in Int
  BY SlicesAssumption, PlacesInRange DEF Sliceable
<1>2. /\ s.start # None => s.start \in Int
      /\ s.stop # None => s.stop \in Int
  BY DEF Sliceable, Bounds
<1>3. o \in Int
  BY <1>1, <1>2 DEF Origin, At, Greatest, Least
<1>4. x \in Selected(len, s) <=> x \in 0..(len - 1) /\ Between(x, len, s)
  BY DEF Selected
<1>5. CASE k > 0
  <2>1. a = IF o < len THEN o ELSE len
    BY <1>1, <1>2, <1>5 DEF Start, Origin, Clamped, At, Greatest
  <2>2. o >= 0 /\ b <= len
    BY <1>1, <1>2, <1>5 DEF Origin, At, Greatest, Stop, Clamped
  <2>3. x \in 0..(len - 1) => (Short(x, len, s) <=> x < b)
    BY <1>1, <1>2, <1>5 DEF Short, Stop, Clamped, At
  <2>4. Offset(x, len, s) = x - a /\ Distance(len, s) = b - a
    BY <1>1, <1>5 DEF Offset, Distance
  <2>5. Between(x, len, s) <=> x >= o /\ Short(x, len, s) /\ (x - o) % Stride(s) = 0
    BY <1>1, <1>5, BetweenParts
  <2> HIDE DEF a, b, o
  <2>6. ASSUME x \in 0..(len - 1), Between(x, len, s)
        PROVE  0 <= x - a /\ x - a < b - a /\ (x - a) % Stride(s) = 0
    BY <1>1, <1>3, <2>1, <2>3, <2>5, <2>6
  <2>7. ASSUME 0 <= x - a, x - a < b - a, (x - a) % Stride(s) = 0
        PROVE  x \in 0..(len - 1) /\ Between(x, len, s)
    <3>1. a >= 0 /\ x < b /\ x < len /\ a <= x
      BY <1>1, <1>3, <2>1, <2>2, <2>7
    <3>2. x \in 0..(len - 1) /\ a = o
      BY <1>1, <1>3, <2>1, <3>1
    <3> QED
      BY <2>3, <2>5, <2>7, <3>1, <3>2
  <2> QED
    BY <1>4, <2>4, <2>6, <2>7
<1>6. CASE k < 0
  <2>1. a = IF o >= 0 THEN o ELSE -1
    BY <1>1, <1>2, <1>6 DEF Start, Origin, Clamped, At, Least
  <2>2. o <= len - 1 /\ b >= -1
    BY <1>1, <1>2, <1>6 DEF Origin, At, Least, Stop, Clamped
  <2>3. x \in 0..(len - 1) => (Short(x, len, s) <=> x > b)
    BY <1>1, <1>2, <1>6 DEF Short, Stop, Clamped, At
  <2>4. Offset(x, len, s) = a - x /\ Distance(len, s) = a - b
    BY <1>1, <1>6 DEF Offset, Distance
  <2>5. Between(x, len, s) <=> x <= o /\ Short(x, len, s) /\ (o - x) % Stride(s) = 0
    BY <1>1, <1>6, BetweenParts
  <2> HIDE DEF a, b, o
  <2>6. ASSUME x \in 0..(len - 1), Between(x, len, s)
        PROVE  0 <= a - x /\ a - x < a - b /\ (a - x) % Stride(s) = 0
    BY <1>1, <1>3, <2>1, <2>3, <2>5, <2>6
  <2>7. ASSUME 0 <= a - x, a - x < a - b, (a - x) % Stride(s) = 0
        PROVE  x \in 0..(len - 1) /\ Between(x, len, s)
    <3>1. x > b /\ x >= 0 /\ x <= a
      BY <1>1, <1>3, <2>1, <2>2, <2>7
    <3>2. x \in 0..(len - 1) /\ a = o
      BY <1>1, <1>3, <2>1, <2>2, <3>1
    <3> QED
      BY <2>3, <2>5, <2>7, <3>1, <3>2
  <2> QED
    BY <1>4, <2>4, <2>6, <2>7
<1> QED
  BY <1>1, <1>5, <1>6

\* The loop visits each of Python's places, and no other, once.
LEMMA PlacesAgree ==
    ASSUME NEW len, NEW s, Sliceable(len, s)
    PROVE  Agrees(len, s, Places(len, s))
<1> DEFINE k == StepOf(s)
           a == Start(len, s)
           d == Stride(s)
           m == Distance(len, s)
           n == HowMany(m, d)
           f == Visited(Places(len, s))
           S == Selected(len, s)
<1>1. /\ k \in Int /\ d \in Int /\ d > 0 /\ m \in Int /\ a \in Int
      /\ d = IF k < 0 THEN -k ELSE k
  BY PlacesInRange DEF Stride
<1>2. n \in Nat
  BY <1>1, HowManyNat
<1>3. f = [i \in 1..n |-> a + (i - 1) * k] /\ Places(len, s).count = n
  BY DEF Visited, Places
<1>4. S \subseteq Int
  <2>1. len \in Int
    BY PlacesInRange
  <2> QED
    BY <2>1 DEF Selected
<1>5. ASSUME NEW x \in Int
      PROVE  x \in S <=> \E i \in 1..n : Offset(x, len, s) = (i - 1) * d
  <2> DEFINE y == Offset(x, len, s)
  <2>1. y \in Int
    BY <1>1 DEF Offset
  <2>2. x \in S <=> 0 <= y /\ y < m /\ y % d = 0
    BY SelectedIs
  <2>3. m \in Int /\ d \in Int /\ d > 0
    BY <1>1
  <2> HIDE DEF n, m, d, S, y
  <2>4. (0 <= y /\ y < m /\ y % d = 0) <=> \E i \in 1..HowMany(m, d) : y = (i - 1) * d
    BY <2>1, <2>3, Multiples
  <2> QED
    BY <2>2, <2>4 DEF n, y
<1>6. ASSUME NEW x \in Int, NEW i \in 1..n
      PROVE  Offset(x, len, s) = (i - 1) * d <=> x = a + (i - 1) * k
  <2>1. i \in Int
    BY <1>2
  <2>2. Offset(x, len, s) = IF k < 0 THEN a - x ELSE x - a
    BY DEF Offset
  <2> HIDE DEF a, k, d, n
  <2>3. (i - 1) * (-k) = -((i - 1) * k) /\ (i - 1) * k \in Int
    BY <1>1, <2>1
  <2> QED
    BY <1>1, <2>1, <2>2, <2>3
<1> HIDE DEF k, a, d, m, n, S
<1>7. \A i \in 1..n : f[i] = a + (i - 1) * k /\ f[i] \in Int
  BY <1>1, <1>2, <1>3
<1> HIDE DEF f
<1>8. \A x \in Int : x \in S <=> \E i \in 1..n : x = f[i]
  BY <1>5, <1>6, <1>7
<1>9. {f[i] : i \in 1..n} = S
  BY <1>4, <1>7, <1>8
<1>10. ASSUME NEW i \in 1..n, NEW j \in 1..n, f[i] = f[j] PROVE i = j
  <2>1. i \in Int /\ j \in Int /\ a + (i - 1) * k = a + (j - 1) * k
    BY <1>2, <1>7, <1>10
  <2>2. (i - 1) * k = (j - 1) * k
    <3>1. (i - 1) * k \in Int /\ (j - 1) * k \in Int
      BY <1>1, <2>1
    <3> QED
      BY <1>1, <2>1, <3>1
  <2>3. (i - j) * k = 0
    BY <1>1, <2>1, <2>2
  <2>4. k # 0
    BY <1>1
  <2>5. i - j = 0
    BY <1>1, <2>1, <2>3, <2>4
  <2> QED
    BY <2>1, <2>5
<1>11. f \in Bijection(1..n, S)
  <2>1. f \in [1..n -> S]
    BY <1>3, <1>9
  <2>2. f \in Injection(1..n, S)
    BY <1>10, <2>1 DEF Injection, IsInjective
  <2>3. f \in Surjection(1..n, S)
    BY <1>9, <2>1 DEF Surjection
  <2> QED
    BY <2>2, <2>3 DEF Bijection
<1>12. Cardinality(S) = n
  BY <1>2, <1>11, FS_CountingElements DEF ExistsBijection
<1> QED
  BY <1>3, <1>9, <1>12 DEF Agrees, S, f

-----------------------------------------------------------------------------
(* The answers. *)

\* What is answered to a slice is what the function returns for it.
SliceAnswered ==
    /\ call \in {NoCall} \cup SliceCalls \cup IntCalls
    /\ call.op = "unpack" =>
         out \in {Pending, IF StepOf(call.s) = 0 THEN ZeroStep
                  ELSE [op |-> "slice", places |-> AdjustIndices(call.len, Unpacked(call.s))]}
    /\ call.op = "indices" =>
         out \in {Pending, IF StepOf(call.s) = 0 THEN ZeroStep
                  ELSE [op |-> "slice", places |-> GetIndicesEx(call.len, call.s)]}

\* That is so at first, and no step of a conversion changes it.
LEMMA SliceAnswers ==
    /\ ConvertInit => SliceAnswered
    /\ SliceAnswered /\ [ConvertNext]_<<argVars, convVars>> => SliceAnswered'
<1>1. ConvertInit => SliceAnswered
  BY DEF ConvertInit, SliceAnswered, NoCall, Pending
<1>2. SliceAnswered /\ [ConvertNext]_<<argVars, convVars>> => SliceAnswered'
  BY DEF SliceAnswered, ConvertNext, convVars, UnpackSlice, IndicesOfSlice, ToBytes,
         FromBytes, ToNative, ToWord, Answer
<1> QED
  BY <1>1, <1>2

\* What is answered is right.
LEMMA AnswersAgree ==
    ASSUME SliceAnswered
    PROVE  SlicesAsPython
<1> SUFFICES ASSUME call.op \in {"unpack", "indices"}, out # Pending, out # ZeroStep,
                    call.op = "indices" \/ (InSsize(call.s.start) /\ InSsize(call.s.stop))
             PROVE  Agrees(call.len, call.s, out.places)
  <2>1. ASSUME out = ZeroStep, call.op \in {"unpack", "indices"} PROVE StepOf(call.s) = 0
    <3>1. out.op = "zero step"
      BY <2>1 DEF ZeroStep
    <3>2. Pending.op = "pending" /\ \A p : [op |-> "slice", places |-> p].op = "slice"
      BY DEF Pending
    <3>3. out # Pending /\ \A p : out # [op |-> "slice", places |-> p]
      BY <3>1, <3>2
    <3> QED
      BY <2>1, <3>3 DEF SliceAnswered
  <2> QED
    BY <2>1 DEF SlicesAsPython
<1>1. call \in SliceCalls /\ SsizeMax \in Nat \ {0} /\ None \notin Int
  BY ConversionsAssumption, SlicesAssumption DEF SliceAnswered, NoCall
<1>2. StepOf(call.s) # 0
  BY DEF SliceAnswered
<1>3. Sliceable(call.len, call.s)
  BY <1>1, <1>2, ConversionsAssumption DEF Sliceable, Bounds, Ssize, StepOf
<1>4. out.places = Places(call.len, call.s)
  <2>1. CASE call.op = "unpack"
    BY <1>2, <1>3, <2>1, UnpackPlaces DEF SliceAnswered
  <2>2. CASE call.op = "indices"
    BY <1>2, <1>3, <2>2, IndicesPlaces DEF SliceAnswered
  <2> QED
    BY <2>1, <2>2
<1> QED
  BY <1>3, <1>4, PlacesAgree

\* PySlice_Unpack followed by PySlice_AdjustIndices, and PySlice_GetIndicesEx, give C
\* the places that Python's slice selects, in order and in number, for any width of
\* Py_ssize_t, any length, any step and any bounds - the first two for bounds that
\* are Py_ssize_t's (13595) -, and refuse a zero step.
THEOREM SlicesAgree == ConvertSpec => []SlicesAsPython
<1> QED
  BY SliceAnswers, AnswersAgree, PTL DEF ConvertSpec

\* While a value is converted the loops that bind stand still, and a call binds as
\* Python binds it: the same for the calls of Conversions.
THEOREM CallsBind == ConvertSpec => []BindsAsPython
<1>1. NoArguments => ArgsInv
  <2> SUFFICES ASSUME NoArguments PROVE ArgsInv
    OBVIOUS
  <2>1. ArgsTypeOK
    BY ArgumentsAssumption DEF NoArguments, NoParser, ArgsTypeOK, Parsers, ParserOK, Slots, Empty,
       Results, Nameable
  <2>2. BindsAsPython
    BY DEF NoArguments, NoParser, BindsAsPython, Slots, Excess, Missing, Required, Unexpected,
       GivenTwice, TooMany, TooPositional, Copied, Nameable
  <2> QED
    BY <2>1, <2>2 DEF ArgsInv, NoArguments
<1>2. ConvertInit => ArgsInv
  BY <1>1, InitInv DEF ConvertInit
<1>3. ArgsInv /\ [ConvertNext]_<<argVars, convVars>> => ArgsInv'
  <2>1. [ConvertNext]_<<argVars, convVars>> => [Next]_argVars
    BY DEF ConvertNext, UnpackSlice, IndicesOfSlice, ToBytes, FromBytes, ToNative, ToWord, Answer
  <2> QED
    BY <2>1, ArgsStep
<1>4. ArgsInv => BindsAsPython
  BY DEF ArgsInv
<1> QED
  BY <1>2, <1>3, <1>4, PTL DEF ConvertSpec

-----------------------------------------------------------------------------
(* A set of numbers has a least one. *)
LEMMA LeastOf ==
    ASSUME NEW S \in SUBSET Nat, S # {}
    PROVE  \E x \in S : \A y \in S : x <= y
<1>1. PICK x \in S : \A y \in S : ~ (<<y, x>> \in OpToRel(<, Nat))
  BY NatLessThanWellFounded, WFMin
<1>2. \A y \in S : ~ (y < x)
  BY <1>1 DEF OpToRel
<1> QED
  BY <1>2

(* So what holds of zero and passes from each number to the next holds of all. *)
LEMMA Induction ==
    ASSUME NEW S, 0 \in S, \A n \in Nat : n \in S => n + 1 \in S
    PROVE  Nat \subseteq S
<1> DEFINE M == Nat \ S
<1> SUFFICES ASSUME M # {} PROVE FALSE
  OBVIOUS
<1>1. M \in SUBSET Nat
  OBVIOUS
<1> HIDE DEF M
<1>2. PICK x \in M : \A y \in M : x <= y
  BY <1>1, LeastOf
<1> USE DEF M
<1>3. x # 0 /\ x - 1 \in Nat /\ x - 1 < x
  BY <1>2
<1>4. x - 1 \in S /\ (x - 1) + 1 = x
  BY <1>2, <1>3
<1> QED
  BY <1>2, <1>3, <1>4

(* A table of f: g starts with 1 and doubles. *)
Doubles(g, n) == /\ DOMAIN g = 0..n /\ g[0] = 1
                 /\ \A i \in 1..n : g[i] = 2 * g[i - 1]

\* There is one for every n,
LEMMA DoublesExist == \A n \in Nat : \E g : Doubles(g, n)
<1> DEFINE S == {n \in Nat : \E g : Doubles(g, n)}
<1>1. 0 \in S
  <2>1. Doubles([i \in 0..0 |-> 1], 0)
    BY DEF Doubles
  <2> QED
    BY <2>1
<1>2. \A n \in Nat : n \in S => n + 1 \in S
  <2> SUFFICES ASSUME NEW n \in Nat, NEW g, Doubles(g, n) PROVE \E h : Doubles(h, n + 1)
    OBVIOUS
  <2> DEFINE h == [i \in 0..(n + 1) |-> IF i = n + 1 THEN 2 * g[n] ELSE g[i]]
  <2>1. DOMAIN h = 0..(n + 1) /\ h[0] = 1
    BY DEF Doubles
  <2>2. ASSUME NEW i \in 1..(n + 1) PROVE h[i] = 2 * h[i - 1]
    <3>1. CASE i = n + 1
      BY <3>1
    <3>2. CASE i # n + 1
      <4>1. i \in 1..n /\ i \in 0..(n + 1) /\ i - 1 \in 0..(n + 1) /\ i - 1 # n + 1
        BY <3>2
      <4> QED
        BY <3>2, <4>1 DEF Doubles
    <3> QED
      BY <3>1, <3>2
  <2>3. Doubles(h, n + 1)
    BY <2>1, <2>2 DEF Doubles
  <2> QED
    BY <2>3
<1> HIDE DEF S
<1>3. Nat \subseteq S
  BY <1>1, <1>2, Induction
<1> QED
  BY <1>3 DEF S

\* and any two say the same.
LEMMA DoublesAgree ==
    ASSUME NEW m \in Nat, NEW n \in Nat, NEW g, NEW h, Doubles(g, m), Doubles(h, n)
    PROVE  \A i \in Nat : i <= m /\ i <= n => g[i] = h[i]
<1> DEFINE S == {i \in Nat : i <= m /\ i <= n => g[i] = h[i]}
<1>1. 0 \in S
  BY DEF Doubles
<1>2. \A i \in Nat : i \in S => i + 1 \in S
  <2> SUFFICES ASSUME NEW i \in Nat, i \in S, i + 1 <= m, i + 1 <= n PROVE g[i + 1] = h[i + 1]
    OBVIOUS
  <2>1. i + 1 \in 1..m /\ i + 1 \in 1..n /\ (i + 1) - 1 = i /\ g[i] = h[i]
    OBVIOUS
  <2> QED
    BY <2>1 DEF Doubles
<1> HIDE DEF S
<1>3. Nat \subseteq S
  BY <1>1, <1>2, Induction
<1> QED
  BY <1>3 DEF S

(* What Pow is defined to be. *)
LEMMA PowIs == Pow = [k \in Nat |-> IF k = 0 THEN 1 ELSE 2 * Pow[k - 1]]
<1> DEFINE T(n) == CHOOSE g : Doubles(g, n)
           P == [k \in Nat |-> T(k)[k]]
<1>1. \A n \in Nat : Doubles(T(n), n)
  BY DoublesExist
<1>2. P = [k \in Nat |-> IF k = 0 THEN 1 ELSE 2 * P[k - 1]]
  <2>1. ASSUME NEW k \in Nat PROVE P[k] = IF k = 0 THEN 1 ELSE 2 * P[k - 1]
    <3>1. CASE k = 0
      BY <1>1, <3>1 DEF Doubles
    <3>2. CASE k # 0
      <4>1. k - 1 \in Nat /\ k \in 1..k /\ k - 1 <= k /\ k - 1 <= k - 1
        BY <3>2
      <4>2. Doubles(T(k), k) /\ Doubles(T(k - 1), k - 1)
        BY <1>1, <4>1
      <4> HIDE DEF T
      <4>3. T(k)[k] = 2 * T(k)[k - 1]
        BY <4>1, <4>2 DEF Doubles
      <4>4. T(k)[k - 1] = T(k - 1)[k - 1]
        BY <4>1, <4>2, DoublesAgree
      <4> QED
        BY <3>2, <4>1, <4>3, <4>4
    <3> QED
      BY <3>1, <3>2
  <2>2. P = [k \in Nat |-> P[k]]
    OBVIOUS
  <2> HIDE DEF P
  <2> QED
    BY <2>1, <2>2, Zenon
<1> HIDE DEF P
<1>3. \E f : f = [k \in Nat |-> IF k = 0 THEN 1 ELSE 2 * f[k - 1]]
  BY <1>2
<1> QED
  BY <1>3 DEF Pow

\* So Pow starts with 1 and doubles;
LEMMA PowNext == Pow[0] = 1 /\ \A k \in Nat : Pow[k + 1] = 2 * Pow[k]
<1>1. ASSUME NEW k \in Nat PROVE Pow[k + 1] = 2 * Pow[k]
  <2>1. k + 1 \in Nat /\ k + 1 # 0 /\ (k + 1) - 1 = k
    OBVIOUS
  <2> QED
    BY <2>1, PowIs
<1> QED
  BY <1>1, PowIs

\* its values are positive,
LEMMA PowNat == \A k \in Nat : Pow[k] \in Nat \ {0}
<1> DEFINE S == {k \in Nat : Pow[k] \in Nat \ {0}}
<1>1. 0 \in S
  BY PowNext
<1>2. \A k \in Nat : k \in S => k + 1 \in S
  BY PowNext
<1> HIDE DEF S
<1>3. Nat \subseteq S
  BY <1>1, <1>2, Induction
<1> QED
  BY <1>3 DEF S

\* multiply as their exponents add,
LEMMA PowSum == \A j, k \in Nat : Pow[j + k] = Pow[j] * Pow[k]
<1> SUFFICES ASSUME NEW j \in Nat PROVE \A k \in Nat : Pow[j + k] = Pow[j] * Pow[k]
  OBVIOUS
<1> DEFINE S == {k \in Nat : Pow[j + k] = Pow[j] * Pow[k]}
<1>1. 0 \in S
  BY PowNext, PowNat
<1>2. \A k \in Nat : k \in S => k + 1 \in S
  <2> SUFFICES ASSUME NEW k \in Nat, k \in S PROVE k + 1 \in S
    OBVIOUS
  <2>1. j + k \in Nat /\ j + (k + 1) = (j + k) + 1
    OBVIOUS
  <2>2. Pow[j + (k + 1)] = 2 * Pow[j + k] /\ Pow[k + 1] = 2 * Pow[k]
    BY <2>1, PowNext
  <2>3. Pow[j + k] = Pow[j] * Pow[k]
    OBVIOUS
  <2>4. Pow[j] \in Nat /\ Pow[k] \in Nat
    BY PowNat
  <2>5. 2 * (Pow[j] * Pow[k]) = Pow[j] * (2 * Pow[k])
    BY <2>4
  <2> QED
    BY <2>2, <2>3, <2>5
<1> HIDE DEF S
<1>3. Nat \subseteq S
  BY <1>1, <1>2, Induction
<1> QED
  BY <1>3 DEF S

\* and grow.
LEMMA PowGrows == \A j, k \in Nat : j <= k => Pow[j] <= Pow[k]
<1> SUFFICES ASSUME NEW j \in Nat, NEW k \in Nat, j <= k PROVE Pow[j] <= Pow[k]
  OBVIOUS
<1>1. k - j \in Nat /\ j + (k - j) = k
  OBVIOUS
<1>2. Pow[k] = Pow[j] * Pow[k - j]
  BY <1>1, PowSum
<1> DEFINE a == Pow[j]
           b == Pow[k - j]
<1>3. a \in Nat \ {0} /\ b \in Nat \ {0}
  BY <1>1, PowNat
<1> HIDE DEF a, b
<1>4. a <= a * b
  BY <1>3
<1> QED
  BY <1>2, <1>4 DEF a, b

(* Numbers of bits are less than their powers. *)
LEMMA PowAbove == \A k \in Nat : k < Pow[k]
<1> DEFINE S == {k \in Nat : k < Pow[k]}
<1>1. 0 \in S
  BY PowNext
<1>2. \A k \in Nat : k \in S => k + 1 \in S
  BY PowNext, PowNat
<1> HIDE DEF S
<1>3. Nat \subseteq S
  BY <1>1, <1>2, Induction
<1> QED
  BY <1>3 DEF S

-----------------------------------------------------------------------------
(* Bytes. *)

Byte == 0..(Radix - 1)

\* A byte has an even number of values, and each byte multiplies the span by it.
LEMMA RadixIs ==
    /\ Radix \in Nat \ {0, 1} /\ Span(0) = 1
    /\ \A n \in Nat : /\ Span(n) \in Nat \ {0}
                      /\ Span(n + 1) = Radix * Span(n)
    /\ \E h \in Nat \ {0} : Radix = 2 * h
<1>1. ByteBits \in Nat \ {0, 1} /\ ByteBits - 1 \in Nat /\ (ByteBits - 1) + 1 = ByteBits
  BY NumbersAssumption
<1>2. Radix = 2 * Pow[ByteBits - 1] /\ Pow[ByteBits - 1] \in Nat \ {0}
  BY <1>1, PowNext, PowNat DEF Radix
<1>3. Span(0) = 1
  <2>1. 0 * ByteBits = 0
    BY <1>1
  <2> QED
    BY <2>1, PowNext DEF Span
<1>4. ASSUME NEW n \in Nat
      PROVE  Span(n) \in Nat \ {0} /\ Span(n + 1) = Radix * Span(n)
  <2>1. n * ByteBits \in Nat
    BY <1>1
  <2>2. (n + 1) * ByteBits = ByteBits + n * ByteBits
    BY <1>1
  <2> QED
    BY <1>1, <2>1, <2>2, PowNat, PowSum DEF Span, Radix
<1>5. Radix \in Nat \ {0, 1}
  BY <1>2
<1>6. \E h \in Nat \ {0} : Radix = 2 * h
  BY <1>2
<1> QED
  BY <1>3, <1>4, <1>5, <1>6

\* Dividing twice is dividing by the product.
LEMMA DividedTwice ==
    ASSUME NEW x \in Nat, NEW a \in Nat \ {0}, NEW b \in Nat \ {0}
    PROVE  (x \div a) \div b = x \div (b * a)
<1> DEFINE q == x \div a
           r == x % a
           p == q \div b
           t == q % b
<1>1. q \in Int /\ r \in Int /\ x = a * q + r /\ 0 <= r /\ r < a
  BY Euclid
<1> HIDE DEF q, r
<1>2. p \in Int /\ t \in Int /\ q = b * p + t /\ 0 <= t /\ t < b
  BY <1>1, Euclid
<1> HIDE DEF p, t
<1> DEFINE s == a * t + r
           c == b * a
<1>3. s \in Int /\ 0 <= s
  <2>1. 0 <= a * t /\ a * t \in Int
    BY <1>2
  <2> QED
    BY <1>1, <2>1
<1>4. c \in Nat \ {0} /\ s < c
  <2>1. t <= b - 1
    BY <1>2
  <2>2. a * t <= a * (b - 1)
    BY <1>2, <2>1
  <2>3. a * (b - 1) = b * a - a
    OBVIOUS
  <2>4. a * t \in Int /\ b * a \in Int /\ b * a > 0
    BY <1>2
  <2> QED
    BY <1>1, <2>2, <2>3, <2>4
<1>5. x = c * p + s
  <2>1. a * (b * p + t) = (b * a) * p + a * t
    BY <1>2
  <2>2. a * t \in Int /\ (b * a) * p \in Int
    BY <1>2
  <2> QED
    BY <1>1, <1>2, <2>1, <2>2
<1> HIDE DEF s, c
<1>6. s \in 0..(c - 1)
  BY <1>3, <1>4
<1>7. x \div c = p
  BY <1>2, <1>4, <1>5, <1>6, Divided
<1> QED
  BY <1>7 DEF c, p, q

(* A table of the magnitudes of the beginnings of b. *)
Adds(g, n, b) == /\ DOMAIN g = 0..n /\ g[0] = 0
                 /\ \A i \in 1..n : g[i] = g[i - 1] * Radix + b[i]

\* There is one for every n,
LEMMA AddsExist == ASSUME NEW b PROVE \A n \in Nat : \E g : Adds(g, n, b)
<1> DEFINE S == {n \in Nat : \E g : Adds(g, n, b)}
<1>1. 0 \in S
  <2>1. Adds([i \in 0..0 |-> 0], 0, b)
    BY DEF Adds
  <2> QED
    BY <2>1
<1>2. \A n \in Nat : n \in S => n + 1 \in S
  <2> SUFFICES ASSUME NEW n \in Nat, NEW g, Adds(g, n, b) PROVE \E h : Adds(h, n + 1, b)
    OBVIOUS
  <2> DEFINE h == [i \in 0..(n + 1) |-> IF i = n + 1 THEN g[n] * Radix + b[i] ELSE g[i]]
  <2>1. DOMAIN h = 0..(n + 1) /\ h[0] = 0
    BY DEF Adds
  <2>2. ASSUME NEW i \in 1..(n + 1) PROVE h[i] = h[i - 1] * Radix + b[i]
    <3>1. CASE i = n + 1
      BY <3>1
    <3>2. CASE i # n + 1
      <4>1. i \in 1..n /\ i \in 0..(n + 1) /\ i - 1 \in 0..(n + 1) /\ i - 1 # n + 1
        BY <3>2
      <4> QED
        BY <3>2, <4>1 DEF Adds
    <3> QED
      BY <3>1, <3>2
  <2>3. Adds(h, n + 1, b)
    BY <2>1, <2>2 DEF Adds
  <2> QED
    BY <2>3
<1> HIDE DEF S
<1>3. Nat \subseteq S
  BY <1>1, <1>2, Induction
<1> QED
  BY <1>3 DEF S

\* and Magnitudes is one.
LEMMA MagnitudesAre ==
    ASSUME NEW b, Len(b) \in Nat
    PROVE  Adds(Magnitudes(b), Len(b), b)
<1>1. PICK g : Adds(g, Len(b), b)
  BY AddsExist
<1> DEFINE h == [k \in 0..Len(b) |-> g[k]]
<1>2. h = [k \in 0..Len(b) |-> IF k = 0 THEN 0 ELSE h[k - 1] * Radix + b[k]]
  <2>1. ASSUME NEW k \in 0..Len(b)
        PROVE  h[k] = IF k = 0 THEN 0 ELSE h[k - 1] * Radix + b[k]
    <3>1. k # 0 => k \in 1..Len(b) /\ k - 1 \in 0..Len(b)
      OBVIOUS
    <3> QED
      BY <1>1, <3>1 DEF Adds
  <2>2. h = [k \in 0..Len(b) |-> h[k]]
    OBVIOUS
  <2> HIDE DEF h
  <2> QED
    BY <2>1, <2>2, Zenon
<1> HIDE DEF h
<1>3. \E f : f = [k \in 0..Len(b) |-> IF k = 0 THEN 0 ELSE f[k - 1] * Radix + b[k]]
  BY <1>2
<1> DEFINE f == Magnitudes(b)
<1>4. f = [k \in 0..Len(b) |-> IF k = 0 THEN 0 ELSE f[k - 1] * Radix + b[k]]
  BY <1>3 DEF Magnitudes
<1> HIDE DEF f
<1>5. Adds(f, Len(b), b)
  BY <1>4 DEF Adds
<1> QED
  BY <1>5 DEF f

(* Every beginning of b is a number of as many bytes. *)
LEMMA MagnitudesBound ==
    ASSUME NEW b \in Seq(Byte)
    PROVE  \A k \in 0..Len(b) : Magnitudes(b)[k] \in 0..(Span(k) - 1)
<1> DEFINE f == Magnitudes(b)
           S == {k \in Nat : k <= Len(b) => f[k] \in 0..(Span(k) - 1)}
<1>1. Len(b) \in Nat /\ \A i \in 1..Len(b) : b[i] \in Byte
  OBVIOUS
<1>2. Adds(f, Len(b), b)
  BY <1>1, MagnitudesAre
<1> HIDE DEF f
<1>3. 0 \in S
  <2>1. f[0] = 0 /\ Span(0) = 1
    BY <1>2, RadixIs DEF Adds
  <2> QED
    BY <2>1
<1>4. \A k \in Nat : k \in S => k + 1 \in S
  <2> SUFFICES ASSUME NEW k \in Nat, k \in S, k + 1 <= Len(b)
               PROVE  f[k + 1] \in 0..(Span(k + 1) - 1)
    OBVIOUS
  <2>1. k + 1 \in 1..Len(b) /\ (k + 1) - 1 = k /\ k <= Len(b)
    BY <1>1
  <2>2. f[k + 1] = f[k] * Radix + b[k + 1] /\ b[k + 1] \in 0..(Radix - 1)
    BY <1>1, <1>2, <2>1 DEF Adds, Byte
  <2>3. f[k] \in Nat /\ f[k] <= Span(k) - 1
    BY <2>1, RadixIs
  <2>4. Radix \in Nat \ {0} /\ Span(k) \in Nat \ {0} /\ Span(k + 1) = Radix * Span(k)
    BY RadixIs
  <2> DEFINE m == f[k]
             s == Span(k)
             r == Radix
             c == b[k + 1]
  <2>5. m \in Nat /\ s \in Nat \ {0} /\ r \in Nat \ {0} /\ m <= s - 1 /\ c \in 0..(r - 1)
    BY <2>2, <2>3, <2>4
  <2> HIDE DEF m, s, r, c
  <2>6. m * r <= (s - 1) * r
    BY <2>5
  <2>7. (s - 1) * r = r * s - r
    BY <2>5
  <2>8. m * r \in Nat /\ r * s \in Nat
    BY <2>5
  <2>9. m * r + c \in 0..(r * s - 1)
    BY <2>5, <2>6, <2>7, <2>8
  <2> QED
    BY <2>2, <2>4, <2>9 DEF m, s, r, c
<1> HIDE DEF S
<1>5. Nat \subseteq S
  BY <1>3, <1>4, Induction
<1> QED
  BY <1>1, <1>5 DEF S, f

(* What is left of the whole without its last bytes is the magnitude of the rest. *)
LEMMA MagnitudeCut ==
    ASSUME NEW b \in Seq(Byte)
    PROVE  \A j \in 0..Len(b) : Magnitude(b) \div Span(j) = Magnitudes(b)[Len(b) - j]
<1> DEFINE f == Magnitudes(b)
           n == Len(b)
           S == {j \in Nat : j <= n => f[n] \div Span(j) = f[n - j]}
<1>1. n \in Nat /\ \A i \in 1..n : b[i] \in Byte
  OBVIOUS
<1>2. Adds(f, n, b)
  BY <1>1, MagnitudesAre
<1>3. \A k \in 0..n : f[k] \in Nat
  BY <1>1, MagnitudesBound, RadixIs
<1> HIDE DEF f, n
<1>4. 0 \in S
  <2>1. f[n] \in Nat /\ n - 0 = n /\ Span(0) = 1
    BY <1>1, <1>3, RadixIs
  <2>2. f[n] \div 1 = f[n]
    BY <2>1
  <2> QED
    BY <2>1, <2>2
<1>5. \A j \in Nat : j \in S => j + 1 \in S
  <2> SUFFICES ASSUME NEW j \in Nat, j \in S, j + 1 <= n
               PROVE  f[n] \div Span(j + 1) = f[n - (j + 1)]
    OBVIOUS
  <2> DEFINE k == n - j
  <2>1. k \in 1..n /\ n \in 0..n /\ k \in 0..n /\ k - 1 \in 0..n /\ n - (j + 1) = k - 1 /\ j <= n
    BY <1>1
  <2>2. f[n] \div Span(j) = f[k]
    BY <2>1
  <2> HIDE DEF k
  <2>3. f[k] = f[k - 1] * Radix + b[k] /\ b[k] \in 0..(Radix - 1)
    BY <1>1, <1>2, <2>1 DEF Adds, Byte
  <2>4. f[k - 1] \in Nat /\ f[k] \in Nat /\ f[n] \in Nat
    BY <1>3, <2>1
  <2>5. Radix \in Nat \ {0} /\ Span(j) \in Nat \ {0} /\ Span(j + 1) = Radix * Span(j)
    BY RadixIs
  <2> DEFINE x == f[k]
             y == Radix
             q == f[k - 1]
             r == b[k]
  <2>6. y \in Nat \ {0} /\ q \in Int /\ r \in 0..(y - 1) /\ x \in Int /\ x = q * y + r
    BY <2>3, <2>4, <2>5
  <2> HIDE DEF x, y, q, r
  <2>7. x \div y = q
    BY <2>6, DividedBy
  <2> USE DEF x, y, q, r
  <2>8. (f[n] \div Span(j)) \div Radix = f[n] \div (Radix * Span(j))
    BY <2>4, <2>5, DividedTwice
  <2> QED
    BY <2>1, <2>2, <2>5, <2>7, <2>8
<1> HIDE DEF S
<1>6. Nat \subseteq S
  BY <1>4, <1>5, Induction
<1> QED
  BY <1>1, <1>6 DEF S, f, n, Magnitude

(* The bytes of u, most significant first. *)
Digits(u, n) == [i \in 1..n |-> (u \div Span(n - i)) % Radix]

\* They are bytes.
LEMMA DigitsAre ==
    ASSUME NEW u \in Int, NEW n \in Nat
    PROVE  Digits(u, n) \in Seq(Byte) /\ Len(Digits(u, n)) = n
<1>1. ASSUME NEW i \in 1..n PROVE (u \div Span(n - i)) % Radix \in Byte
  <2>1. n - i \in Nat
    OBVIOUS
  <2>2. Span(n - i) \in Nat \ {0} /\ Radix \in Nat \ {0}
    BY <2>1, RadixIs
  <2>3. u \div Span(n - i) \in Int
    BY <2>2, Euclid
  <2> QED
    BY <2>2, <2>3, Euclid DEF Byte
<1> QED
  BY <1>1 DEF Digits

(* They are the digits of u: *)
LEMMA DigitsMean ==
    ASSUME NEW n \in Nat, NEW u \in 0..(Span(n) - 1)
    PROVE  Magnitude(Digits(u, n)) = u
<1> DEFINE b == Digits(u, n)
           f == Magnitudes(b)
           S == {k \in Nat : k <= n => f[k] = u \div Span(n - k)}
<1>1. u \in Nat /\ u < Span(n)
  BY RadixIs
<1>2. Len(b) = n /\ \A i \in 1..n : b[i] = (u \div Span(n - i)) % Radix
  BY <1>1, DigitsAre DEF Digits
<1> HIDE DEF b
<1>3. Adds(f, n, b)
  BY <1>2, MagnitudesAre
<1> HIDE DEF f
<1>4. 0 \in S
  <2>1. Span(n) \in Nat \ {0} /\ n - 0 = n /\ u = Span(n) * 0 + u
    BY <1>1, RadixIs
  <2>2. u \div Span(n) = 0
    BY <1>1, <2>1, Divided
  <2> QED
    BY <1>3, <2>1, <2>2 DEF Adds
<1>5. \A k \in Nat : k \in S => k + 1 \in S
  <2> SUFFICES ASSUME NEW k \in Nat, k \in S, k + 1 <= n
               PROVE  f[k + 1] = u \div Span(n - (k + 1))
    OBVIOUS
  <2> DEFINE j == n - (k + 1)
             x == u \div Span(j)
  <2>1. k + 1 \in 1..n /\ (k + 1) - 1 = k /\ j \in Nat /\ n - k = j + 1 /\ k <= n
    OBVIOUS
  <2>2. f[k + 1] = f[k] * Radix + (x % Radix)
    BY <1>2, <1>3, <2>1 DEF Adds
  <2>3. f[k] = u \div Span(j + 1)
    BY <2>1
  <2> HIDE DEF j
  <2>4. Radix \in Nat \ {0} /\ Span(j) \in Nat \ {0} /\ Span(j + 1) = Radix * Span(j)
    BY <2>1, RadixIs
  <2>5. x \in Int
    BY <1>1, <2>4, Euclid
  <2>6. x \div Radix = f[k]
    BY <1>1, <2>3, <2>4, DividedTwice
  <2> HIDE DEF x
  <2>7. x = Radix * (x \div Radix) + (x % Radix) /\ x \div Radix \in Int
    BY <2>4, <2>5, Euclid
  <2>8. f[k] * Radix = Radix * f[k]
    BY <2>4, <2>6, <2>7
  <2> QED
    BY <2>2, <2>6, <2>7, <2>8 DEF j, x
<1> HIDE DEF S
<1>6. Nat \subseteq S
  BY <1>4, <1>5, Induction
<1>7. f[n] = u \div Span(0)
  <2>1. n - n = 0
    OBVIOUS
  <2> QED
    BY <1>6, <2>1 DEF S
<1>8. u \div Span(0) = u
  BY <1>1, RadixIs
<1> QED
  BY <1>2, <1>7, <1>8 DEF Magnitude, f, b

(* and a number's only ones. *)
LEMMA DigitsOnly ==
    ASSUME NEW b \in Seq(Byte)
    PROVE  Digits(Magnitude(b), Len(b)) = b
<1> DEFINE f == Magnitudes(b)
           n == Len(b)
           u == Magnitude(b)
<1>1. n \in Nat /\ \A i \in 1..n : b[i] \in Byte
  OBVIOUS
<1>2. Adds(f, n, b)
  BY <1>1, MagnitudesAre
<1>3. \A k \in 0..n : f[k] \in Nat
  BY <1>1, MagnitudesBound, RadixIs
<1>4. \A j \in 0..n : u \div Span(j) = f[n - j]
  BY MagnitudeCut
<1>5. b = [i \in 1..n |-> b[i]]
  OBVIOUS
<1> HIDE DEF f, n, u
<1>6. ASSUME NEW i \in 1..n PROVE (u \div Span(n - i)) % Radix = b[i]
  <2>1. n - i \in 0..n /\ n - (n - i) = i /\ i - 1 \in 0..n /\ i \in 0..n
    BY <1>1
  <2>2. u \div Span(n - i) = f[i - 1] * Radix + b[i] /\ b[i] \in 0..(Radix - 1)
    BY <1>1, <1>2, <1>4, <2>1 DEF Adds, Byte
  <2>3. f[i - 1] \in Int /\ f[i] \in Int
    BY <1>3, <2>1
  <2>4. f[i] = f[i - 1] * Radix + b[i] /\ u \div Span(n - i) = f[i]
    BY <1>2, <1>4, <2>1 DEF Adds
  <2> DEFINE x == f[i]
             y == Radix
             q == f[i - 1]
             r == b[i]
  <2>5. y \in Nat \ {0} /\ q \in Int /\ r \in 0..(y - 1) /\ x \in Int /\ x = q * y + r
    BY <2>2, <2>3, <2>4, RadixIs
  <2> HIDE DEF x, y, q, r
  <2>6. x % y = r
    BY <2>5, DividedBy
  <2> USE DEF x, y, q, r
  <2> QED
    BY <2>4, <2>6
<1>7. Digits(u, n) = [i \in 1..n |-> b[i]]
  BY <1>6 DEF Digits
<1> QED
  BY <1>5, <1>7 DEF u, n

-----------------------------------------------------------------------------
(* Ints as bytes. *)

Big(b, little) == IF little THEN Reverse(b) ELSE b

(* What n bytes that come to m mean with a sign. *)
Signed(m, n) == IF 2 * m >= Span(n) THEN m - Span(n) ELSE m

Means(m, n, signed) == IF signed THEN Signed(m, n) ELSE m
Fits(v, n, signed) == IF signed THEN FitsSigned(v, n) ELSE FitsUnsigned(v, n)

\* Reversing keeps the bytes, and twice is not at all.
LEMMA BigIs ==
    ASSUME NEW b \in Seq(Byte), NEW little
    PROVE  /\ Big(b, little) \in Seq(Byte) /\ Len(Big(b, little)) = Len(b)
           /\ Big(Big(b, little), little) = b
<1>1. Len(b) \in Nat /\ \A i \in 1..Len(b) : b[i] \in Byte
  OBVIOUS
<1> DEFINE n == Len(b)
           r == Reverse(b)
<1>2. r = [i \in 1..n |-> b[(n - i) + 1]]
  BY DEF Reverse
<1>3. \A i \in 1..n : (n - i) + 1 \in 1..n /\ (n - ((n - i) + 1)) + 1 = i
  BY <1>1
<1> HIDE DEF r
<1>4. r \in Seq(Byte) /\ Len(r) = n
  <2>1. \A i \in 1..n : b[(n - i) + 1] \in Byte
    BY <1>1, <1>3
  <2> QED
    BY <1>1, <1>2, <2>1
<1>5. Reverse(r) = b
  <2>1. Reverse(r) = [i \in 1..n |-> r[(n - i) + 1]]
    BY <1>4 DEF Reverse
  <2>2. \A i \in 1..n : r[(n - i) + 1] = b[i]
    BY <1>1, <1>2, <1>3
  <2>3. b = [i \in 1..n |-> b[i]]
    OBVIOUS
  <2> QED
    BY <2>1, <2>2, <2>3
<1> QED
  BY <1>4, <1>5 DEF Big, r

\* The whole is a number of as many bytes.
LEMMA MagnitudeNat ==
    ASSUME NEW b \in Seq(Byte)
    PROVE  Magnitude(b) \in 0..(Span(Len(b)) - 1)
<1>1. Len(b) \in 0..Len(b)
  OBVIOUS
<1> QED
  BY <1>1, MagnitudesBound DEF Magnitude

(* The first byte's top bit tells the half a number is in. *)
LEMMA TopBit ==
    ASSUME NEW b \in Seq(Byte), b # <<>>
    PROVE  2 * Head(b) >= Radix <=> 2 * Magnitude(b) >= Span(Len(b))
<1> DEFINE n == Len(b)
           u == Magnitude(b)
           s == Span(n - 1)
           d == b[1]
<1>1. n \in Nat \ {0} /\ Head(b) = d /\ d \in Byte /\ n - 1 \in 0..n /\ (n - 1) + 1 = n
  OBVIOUS
<1>2. Adds(Magnitudes(b), n, b)
  BY <1>1, MagnitudesAre
<1>3. u \div s = Magnitudes(b)[n - (n - 1)]
  BY <1>1, MagnitudeCut
<1>4. Magnitudes(b)[1] = Magnitudes(b)[0] * Radix + d /\ Magnitudes(b)[0] = 0
  <2>1. 1 \in 1..n /\ 1 - 1 = 0
    BY <1>1
  <2> QED
    BY <1>2, <2>1 DEF Adds
<1>5. PICK h \in Nat \ {0} : Radix = 2 * h
  BY RadixIs
<1>6. s \in Nat \ {0} /\ Span(n) = Radix * s
  <2>1. n - 1 \in Nat
    BY <1>1
  <2> QED
    BY <1>1, <2>1, RadixIs
<1>7. u \in Nat
  BY <1>1, MagnitudeNat, RadixIs
<1>8. d \in Nat /\ u \div s = d
  <2>1. n - (n - 1) = 1 /\ d \in Nat /\ Radix \in Nat
    BY <1>1, RadixIs DEF Byte
  <2> QED
    BY <1>3, <1>4, <2>1
<1> HIDE DEF n, u, s, d
<1> DEFINE r == u % s
<1>9. u = s * d + r /\ r \in Int /\ 0 <= r /\ r < s
  BY <1>6, <1>7, <1>8, Euclid
<1> HIDE DEF r
<1>10. Span(n) = 2 * (s * h)
  BY <1>5, <1>6
<1>11. s * d \in Int /\ s * h \in Int
  BY <1>5, <1>6, <1>8
<1>12. ASSUME d >= h PROVE s * d >= s * h
  BY <1>5, <1>6, <1>8, <1>12
<1>13. ASSUME d < h PROVE s * d + r < s * h
  <2>1. d <= h - 1
    BY <1>5, <1>8, <1>13
  <2>2. s * d <= s * (h - 1)
    BY <1>5, <1>6, <1>8, <2>1
  <2>3. s * (h - 1) = s * h - s
    BY <1>5, <1>6
  <2> QED
    BY <1>6, <1>9, <1>11, <2>2, <2>3
<1>14. 2 * d >= Radix <=> d >= h
  BY <1>5, <1>8
<1>15. 2 * u >= Span(n) <=> u >= s * h
  BY <1>7, <1>10, <1>11
<1>16. u >= s * h <=> d >= h
  BY <1>5, <1>8, <1>9, <1>11, <1>12, <1>13
<1> QED
  BY <1>1, <1>14, <1>15, <1>16 DEF n, u, d

(* What _PyLong_FromByteArray gives. *)
LEMMA FromIs ==
    ASSUME NEW b \in Seq(Byte), NEW little \in BOOLEAN, NEW signed \in BOOLEAN
    PROVE  FromByteArray(b, little, signed)
             = Means(Magnitude(Big(b, little)), Len(b), signed)
<1> DEFINE g == Big(b, little)
           v == Magnitude(g)
<1>1. g \in Seq(Byte) /\ Len(g) = Len(b)
  BY BigIs
<1>2. FromByteArray(b, little, signed)
        = IF b # <<>> /\ signed /\ 2 * Head(g) >= Radix THEN v - Span(Len(b)) ELSE v
  BY DEF FromByteArray, Big
<1>3. v \in 0..(Span(Len(b)) - 1) /\ Span(Len(b)) \in Nat
  BY <1>1, MagnitudeNat, RadixIs
<1> HIDE DEF g, v
<1>4. CASE b = <<>>
  <2>1. Len(b) = 0 /\ Span(0) = 1
    BY <1>4, RadixIs
  <2>2. ~ (2 * v >= Span(Len(b)))
    BY <1>3, <2>1
  <2> QED
    BY <1>2, <1>4, <2>2 DEF Means, Signed, v, g
<1>5. CASE b # <<>>
  <2>1. g # <<>>
    BY <1>1, <1>5
  <2>2. 2 * Head(g) >= Radix <=> 2 * v >= Span(Len(b))
    BY <1>1, <2>1, TopBit DEF v
  <2> QED
    BY <1>2, <1>5, <2>2 DEF Means, Signed, v, g
<1> QED
  BY <1>4, <1>5

(* The bytes written are the digits of the int's two's complement. *)
LEMMA BytesAre ==
    ASSUME NEW v \in Int, NEW n \in Nat, NEW little \in BOOLEAN
    PROVE  /\ Bytes(v, n, little) = Big(Digits(v % Span(n), n), little)
           /\ v % Span(n) \in 0..(Span(n) - 1)
<1> DEFINE u == v % Span(n)
           low == [i \in 1..n |-> (u \div Span(i - 1)) % Radix]
           d == Digits(u, n)
<1>1. u \in 0..(Span(n) - 1)
  BY RadixIs, Euclid
<1>2. d \in Seq(Byte) /\ Len(d) = n
  BY <1>1, DigitsAre, RadixIs
<1>3. Bytes(v, n, little) = IF little THEN low ELSE Reverse(low)
  BY DEF Bytes
<1>4. low = Reverse(d)
  <2>1. Reverse(d) = [i \in 1..n |-> d[(n - i) + 1]]
    BY <1>2 DEF Reverse
  <2>2. ASSUME NEW i \in 1..n PROVE d[(n - i) + 1] = (u \div Span(i - 1)) % Radix
    <3>1. (n - i) + 1 \in 1..n /\ n - ((n - i) + 1) = i - 1
      OBVIOUS
    <3> QED
      BY <3>1 DEF Digits
  <2> QED
    BY <2>1, <2>2
<1>5. Reverse(Reverse(d)) = d
  BY <1>2, BigIs DEF Big
<1> HIDE DEF low, d
<1> QED
  BY <1>1, <1>3, <1>4, <1>5 DEF Big, d

(* The low bits of an int that fits, *)
LEMMA LowBits ==
    ASSUME NEW s \in Nat \ {0}, NEW v \in Int
    PROVE  /\ v \in 0..(s - 1) => v % s = v
           /\ v \in (-s)..(-1) => v % s = v + s
<1>1. ASSUME v \in 0..(s - 1) PROVE v % s = v
  <2>1. v = 0 * s + v
    OBVIOUS
  <2> QED
    BY <1>1, <2>1, DividedBy
<1>2. ASSUME v \in (-s)..(-1) PROVE v % s = v + s
  <2>1. v + s \in 0..(s - 1) /\ v = (-1) * s + (v + s)
    BY <1>2
  <2> QED
    BY <2>1, DividedBy
<1> QED
  BY <1>1, <1>2

(* mean it, *)
LEMMA FitsMeans ==
    ASSUME NEW v \in Int, NEW n \in Nat, NEW signed \in BOOLEAN, Fits(v, n, signed)
    PROVE  Means(v % Span(n), n, signed) = v
<1> DEFINE s == Span(n)
<1>1. s \in Nat \ {0}
  BY RadixIs
<1>2. CASE signed
  <2>1. 2 * v >= -s /\ 2 * v < s
    BY <1>2 DEF Fits, FitsSigned
  <2>2. Means(v % s, n, signed) = IF 2 * (v % s) >= s THEN (v % s) - s ELSE v % s
    BY <1>2 DEF Means, Signed
  <2> HIDE DEF s
  <2>3. CASE v >= 0
    <3>1. v % s = v
      BY <1>1, <2>1, <2>3, LowBits
    <3> QED
      BY <1>1, <2>1, <2>2, <3>1 DEF s
  <2>4. CASE v < 0
    <3>0. v \in (-s)..(-1)
      BY <1>1, <2>1, <2>4
    <3>1. v % s = v + s
      BY <1>1, <3>0, LowBits
    <3> QED
      BY <1>1, <2>1, <2>2, <3>1 DEF s
  <2> QED
    BY <2>3, <2>4
<1>3. CASE ~ signed
  <2>1. v \in 0..(s - 1)
    BY <1>1, <1>3 DEF Fits, FitsUnsigned
  <2> HIDE DEF s
  <2>2. v % s = v
    BY <1>1, <2>1, LowBits
  <2> QED
    BY <1>3, <2>2 DEF Means, s
<1> QED
  BY <1>2, <1>3

(* and what they mean fits. *)
LEMMA MeansFits ==
    ASSUME NEW n \in Nat, NEW m \in 0..(Span(n) - 1), NEW signed \in BOOLEAN
    PROVE  LET v == Means(m, n, signed)
           IN  v \in Int /\ Fits(v, n, signed) /\ v % Span(n) = m
<1> DEFINE s == Span(n)
           v == Means(m, n, signed)
<1>1. s \in Nat \ {0} /\ m \in 0..(s - 1)
  BY RadixIs
<1>2. v = IF signed /\ 2 * m >= s THEN m - s ELSE m
  BY DEF Means, Signed
<1>3. Fits(v, n, signed) <=> IF signed THEN 2 * v >= -s /\ 2 * v < s ELSE v >= 0 /\ v < s
  BY DEF Fits, FitsSigned, FitsUnsigned
<1> HIDE DEF s, v
<1>4. v \in Int /\ Fits(v, n, signed)
  BY <1>1, <1>2, <1>3
<1>5. v % s = m
  <2>1. CASE v = m
    BY <1>1, <2>1, LowBits
  <2>2. CASE v = m - s
    <3>1. v \in (-s)..(-1) /\ v + s = m
      BY <1>1, <2>2
    <3> QED
      BY <1>1, <3>1, LowBits
  <2> QED
    BY <1>2, <2>1, <2>2
<1> QED
  BY <1>4, <1>5 DEF s, v

\* The strings of n bytes are the sequences of that length.
LEMMA ByteStringsAre ==
    ASSUME NEW n \in Nat
    PROVE  \A b : b \in ByteStrings(n) <=> b \in Seq(Byte) /\ Len(b) = n
<1>1. ByteStrings(n) = [1..n -> Byte]
  BY DEF ByteStrings, Byte
<1>2. \A b : b \in [1..n -> Byte] <=> b \in Seq(Byte) /\ Len(b) = n
  OBVIOUS
<1> QED
  BY <1>1, <1>2

(* Bytes that are written mean the int if it fits, *)
LEMMA WrittenMeans ==
    ASSUME NEW v \in Int, NEW n \in Nat, NEW little \in BOOLEAN, NEW signed \in BOOLEAN
    PROVE  /\ Bytes(v, n, little) \in ByteStrings(n)
           /\ FromByteArray(Bytes(v, n, little), little, signed)
                = Means(v % Span(n), n, signed)
<1> DEFINE u == v % Span(n)
           d == Digits(u, n)
           b == Bytes(v, n, little)
<1>1. u \in 0..(Span(n) - 1) /\ b = Big(d, little)
  BY BytesAre
<1>2. u \in Int /\ Span(n) \in Nat
  BY <1>1, RadixIs
<1> HIDE DEF u, b
<1>3. d \in Seq(Byte) /\ Len(d) = n
  BY <1>2, DigitsAre
<1> HIDE DEF d
<1>4. b \in Seq(Byte) /\ Len(b) = n /\ Big(b, little) = d
  BY <1>1, <1>3, BigIs
<1>5. Magnitude(d) = u
  BY <1>1, DigitsMean DEF d
<1>6. b \in ByteStrings(n)
  BY <1>4, ByteStringsAre
<1>7. FromByteArray(b, little, signed) = Means(u, n, signed)
  BY <1>4, <1>5, FromIs
<1> QED
  BY <1>6, <1>7 DEF u, b

(* and bytes that are read are the ones that are written for what they mean. *)
LEMMA ReadIsWritten ==
    ASSUME NEW b \in Seq(Byte), NEW little \in BOOLEAN, NEW signed \in BOOLEAN
    PROVE  LET v == FromByteArray(b, little, signed)
           IN  v \in Int /\ Fits(v, Len(b), signed) /\ Bytes(v, Len(b), little) = b
<1> DEFINE v == FromByteArray(b, little, signed)
           g == Big(b, little)
           m == Magnitude(g)
           n == Len(b)
<1>1. n \in Nat /\ g \in Seq(Byte) /\ Len(g) = n /\ Big(g, little) = b
  BY BigIs
<1>2. v = Means(m, n, signed)
  BY FromIs
<1>3. m \in 0..(Span(n) - 1) /\ Digits(m, n) = g
  <2>1. Magnitude(g) \in 0..(Span(Len(g)) - 1) /\ Digits(Magnitude(g), Len(g)) = g
    BY <1>1, MagnitudeNat, DigitsOnly
  <2> QED
    BY <1>1, <2>1
<1> HIDE DEF v, g, m, n
<1>4. v \in Int /\ Fits(v, n, signed) /\ v % Span(n) = m
  BY <1>1, <1>2, <1>3, MeansFits
<1>5. Bytes(v, n, little) = b
  BY <1>1, <1>3, <1>4, BytesAre
<1> QED
  BY <1>4, <1>5 DEF v, n

(* So some n bytes mean an int when it fits. *)
LEMMA SomeBytes ==
    ASSUME NEW v \in Int, NEW n \in Nat, NEW little \in BOOLEAN, NEW signed \in BOOLEAN
    PROVE  /\ (\E b \in ByteStrings(n) : FromByteArray(b, little, signed) = v)
                <=> Fits(v, n, signed)
           /\ Fits(v, n, signed)
                => FromByteArray(Bytes(v, n, little), little, signed) = v
<1>1. ASSUME NEW b \in ByteStrings(n), FromByteArray(b, little, signed) = v
      PROVE  Fits(v, n, signed)
  <2>1. b \in Seq(Byte) /\ Len(b) = n
    BY ByteStringsAre
  <2> QED
    BY <1>1, <2>1, ReadIsWritten
<1>2. ASSUME Fits(v, n, signed)
      PROVE  FromByteArray(Bytes(v, n, little), little, signed) = v
  BY <1>2, FitsMeans, WrittenMeans
<1>3. Bytes(v, n, little) \in ByteStrings(n)
  BY WrittenMeans
<1> QED
  BY <1>1, <1>2, <1>3

-----------------------------------------------------------------------------
(* Ints as C ints. *)

(* A word of n bytes means an int as a C type when that fits, and then it is its  *)
(* low bits.                                                                      *)
Sign(as) == as \notin {"unsigned", "mask", "converter"}

\* What a word is taken for.
LEMMA MeaningIs ==
    ASSUME NEW w \in Int, NEW n \in Nat, NEW as
    PROVE  Meaning(w, n, as) = Means(w, n, Sign(as)) /\ Sign(as) \in BOOLEAN
<1>1. Span(n) \in Nat
  BY RadixIs
<1>2. CASE as \in {"unsigned", "mask", "converter"}
  BY <1>2 DEF Meaning, Means, Sign
<1>3. CASE as \notin {"unsigned", "mask", "converter"}
  <2>1. Means(w, n, Sign(as)) = Signed(w, n)
    BY <1>3 DEF Means, Sign
  <2>2. Meaning(w, n, as) = IF 2 * w < Span(n) THEN w ELSE w - Span(n)
    BY <1>3 DEF Meaning
  <2>3. Signed(w, n) = IF 2 * w < Span(n) THEN w ELSE w - Span(n)
    BY <1>1 DEF Signed
  <2> QED
    BY <2>1, <2>2, <2>3 DEF Sign
<1> QED
  BY <1>2, <1>3

\* Some word of n bytes means an int exactly when it fits, and then its low bits do.
LEMMA SomeWord ==
    ASSUME NEW v \in Int, NEW n \in Nat, NEW as
    PROVE  /\ \A w \in 0..(Span(n) - 1) : /\ Meaning(w, n, as) \in Int
                                          /\ Fits(Meaning(w, n, as), n, Sign(as))
           /\ (\E w \in 0..(Span(n) - 1) : Meaning(w, n, as) = v) <=> Fits(v, n, Sign(as))
           /\ Fits(v, n, Sign(as)) => Meaning(v % Span(n), n, as) = v
<1>1. Span(n) \in Nat \ {0} /\ v % Span(n) \in 0..(Span(n) - 1)
  BY RadixIs, Euclid
<1>2. ASSUME NEW w \in 0..(Span(n) - 1)
      PROVE  Meaning(w, n, as) \in Int /\ Fits(Meaning(w, n, as), n, Sign(as))
  <2>1. w \in Int
    BY <1>1
  <2>2. Meaning(w, n, as) = Means(w, n, Sign(as)) /\ Sign(as) \in BOOLEAN
    BY <2>1, MeaningIs
  <2> QED
    BY <2>2, MeansFits
<1>3. ASSUME Fits(v, n, Sign(as)) PROVE Meaning(v % Span(n), n, as) = v
  <2>1. v % Span(n) \in Int
    BY <1>1
  <2>2. Meaning(v % Span(n), n, as) = Means(v % Span(n), n, Sign(as)) /\ Sign(as) \in BOOLEAN
    BY <2>1, MeaningIs
  <2> QED
    BY <1>3, <2>2, FitsMeans
<1> QED
  BY <1>1, <1>2, <1>3

(* A word of at least one byte has two halves, and -1 in the upper one. *)
LEMMA Halves ==
    ASSUME NEW n \in Nat \ {0}
    PROVE  \E h \in Nat \ {0} : Span(n) = 2 * h /\ Span(n) \div 2 = h
<1>1. n - 1 \in Nat /\ (n - 1) + 1 = n
  OBVIOUS
<1>2. Span(n) = Radix * Span(n - 1) /\ Span(n - 1) \in Nat \ {0}
  BY <1>1, RadixIs
<1>3. PICK k \in Nat \ {0} : Radix = 2 * k
  BY RadixIs
<1> DEFINE h == k * Span(n - 1)
<1>4. h \in Nat \ {0} /\ Span(n) = 2 * h
  BY <1>2, <1>3
<1> HIDE DEF h
<1>5. Span(n) \div 2 = h
  BY <1>4
<1> QED
  BY <1>4, <1>5

\* All bits set are -1.
LEMMA MinusOne ==
    ASSUME NEW n \in Nat \ {0}
    PROVE  Meaning((-1) % Span(n), n, "signed") = -1
<1>1. PICK h \in Nat \ {0} : Span(n) = 2 * h
  BY Halves
<1>2. Fits(-1, n, Sign("signed"))
  BY <1>1 DEF Fits, FitsSigned, Sign
<1> QED
  BY <1>2, SomeWord

\* Each way from an int to a C int is exact.
LEMMA WordsExact ==
    ASSUME NEW v \in Int, NEW n \in Nat \ {0}, NEW as \in WordKinds
    PROVE  WordExact(as, v, n, AsWord(as, v, n))
<1> DEFINE r == AsWord(as, v, n)
           Words == 0..(Span(n) - 1)
           told == r.error # "none" \/ r.overflow # 0
<1>1. n \in Nat /\ Span(n) \in Nat \ {0}
  BY RadixIs
<1>2. PICK h \in Nat \ {0} : Span(n) = 2 * h /\ Span(n) \div 2 = h
  BY Halves
<1>3. (\E w \in Words : Meaning(w, n, as) = v) <=> Fits(v, n, Sign(as))
  BY <1>1, SomeWord
<1>4. \A w \in Words : /\ Meaning(w, n, as) \in Int
                       /\ Fits(Meaning(w, n, as), n, Sign(as))
  BY <1>1, SomeWord
<1>5. CASE Fits(v, n, Sign(as))
  <2>1. r = Word(v, n)
    BY <1>5 DEF Fits, Sign, WordKinds, AsWord, AsSigned, AsUnsigned, AsMask, Converter,
                AndOverflow, AsIndex
  <2>2. r.word = v % Span(n) /\ ~ told
    BY <2>1 DEF Word
  <2>3. Meaning(v % Span(n), n, as) = v
    BY <1>1, <1>5, SomeWord
  <2> QED
    BY <1>3, <1>5, <2>2, <2>3 DEF WordExact
<1>6. CASE ~ Fits(v, n, Sign(as)) /\ as = "mask"
  <2>1. r = Word(v, n)
    BY <1>6 DEF AsWord, AsMask
  <2>2. r.word = v % Span(n) /\ ~ told
    BY <2>1 DEF Word
  <2> DEFINE s == Span(n)
             q == v \div s
             m == v % s
  <2>0. s \in Nat \ {0}
    BY <1>1
  <2> HIDE DEF s
  <2>3. q \in Int /\ m \in Int /\ v = s * q + m
    BY <2>0, Euclid
  <2> HIDE DEF q, m
  <2> DEFINE x == m - v
             p == -q
  <2>4. x = p * s + 0 /\ 0 \in 0..(s - 1) /\ x \in Int /\ p \in Int
    BY <2>0, <2>3
  <2> HIDE DEF x, p
  <2>5. x % s = 0
    BY <2>0, <2>4, DividedBy
  <2> USE DEF s, m, x
  <2> QED
    BY <1>3, <1>6, <2>2, <2>5 DEF WordExact
<1>7. CASE ~ Fits(v, n, Sign(as)) /\ as = "clamp"
  <2> DEFINE e == IF v < 0 THEN -h ELSE h - 1
  <2>1. ~ (2 * v >= -(2 * h) /\ 2 * v < 2 * h)
    BY <1>2, <1>7 DEF Fits, FitsSigned, Sign
  <2>2. r = Word(e, n)
    BY <1>2, <1>7, <2>1 DEF AsWord, AsIndex, FitsSigned
  <2>3. r.word = e % Span(n) /\ ~ told
    BY <2>2 DEF Word
  <2>4. e \in Int /\ Fits(e, n, Sign(as))
    BY <1>2, <1>7 DEF Fits, FitsSigned, Sign
  <2> HIDE DEF e
  <2>7. Meaning(e % Span(n), n, as) = e
    BY <1>1, <2>4, SomeWord
  <2>5. Meaning(r.word, n, as) = e
    BY <2>3, <2>7
  <2>6. ASSUME NEW w \in Words PROVE Abs(v - e) <= Abs(v - Meaning(w, n, as))
    <3> DEFINE x == Meaning(w, n, as)
    <3>1. x \in Int /\ 2 * x >= -(2 * h) /\ 2 * x < 2 * h
      BY <1>2, <1>4, <1>7 DEF Fits, FitsSigned, Sign
    <3> HIDE DEF x
    <3>2. Abs(v - e) <= Abs(v - x)
      BY <2>1, <3>1 DEF Abs, e
    <3> QED
      BY <3>2 DEF x
  <2> QED
    BY <1>3, <1>7, <2>3, <2>5, <2>6 DEF WordExact
<1>8. CASE ~ Fits(v, n, Sign(as)) /\ as \notin {"mask", "clamp"}
  <2>1. as # "converter" => r.word = (-1) % Span(n)
    BY <1>8 DEF Fits, Sign, WordKinds, AsWord, AsSigned, AsUnsigned, AndOverflow, AsIndex,
                Failed, Word
  <2>2. /\ told
        /\ r.overflow # 0 => as = "overflow" /\ r.overflow = IF v < 0 THEN -1 ELSE 1
        /\ r.error = "ValueError" => v < 0
    <3>1. CASE as \in {"signed", "unsigned", "index"}
      <4>1. \E e \in {"OverflowError", "exc"} : r = Failed(n, e)
        BY <1>8, <3>1 DEF Fits, Sign, AsWord, AsSigned, AsUnsigned, AsIndex
      <4>2. r.overflow = 0 /\ r.error \in {"OverflowError", "exc"}
        BY <4>1 DEF Failed, Word
      <4> QED
        BY <4>2
    <3>2. CASE as = "converter"
      <4>1. r = [word |-> Unwritten, overflow |-> 0,
                 error |-> IF v < 0 THEN "ValueError" ELSE "OverflowError"]
        BY <1>8, <3>2 DEF Fits, Sign, AsWord, Converter
      <4>2. r.overflow = 0 /\ r.error = IF v < 0 THEN "ValueError" ELSE "OverflowError"
        BY <4>1
      <4> QED
        BY <4>2
    <3>3. CASE as = "overflow"
      <4>1. r = [Word(-1, n) EXCEPT !.overflow = IF v < 0 THEN -1 ELSE 1]
        BY <1>8, <3>3 DEF Fits, Sign, AsWord, AndOverflow
      <4>2. r.error = "none" /\ r.overflow = IF v < 0 THEN -1 ELSE 1
        BY <4>1 DEF Word
      <4> QED
        BY <3>3, <4>2
    <3> QED
      BY <1>8, <3>1, <3>2, <3>3 DEF WordKinds
  <2> HIDE DEF r
  <2>3. ASSUME as = "overflow", NEW w \in Words
        PROVE  (v > Meaning(w, n, as)) <=> ~ (v < 0)
    <3> DEFINE x == Meaning(w, n, as)
    <3>1. x \in Int /\ 2 * x >= -(2 * h) /\ 2 * x < 2 * h
      BY <1>2, <1>4, <2>3 DEF Fits, FitsSigned, Sign
    <3>2. ~ (2 * v >= -(2 * h) /\ 2 * v < 2 * h)
      BY <1>2, <1>8, <2>3 DEF Fits, FitsSigned, Sign
    <3> HIDE DEF x
    <3>3. (v > x) <=> ~ (v < 0)
      BY <3>1, <3>2
    <3> QED
      BY <3>3 DEF x
  <2>4. r.overflow # 0 => \A w \in Words : (v > Meaning(w, n, as)) <=> r.overflow = 1
    <3> SUFFICES ASSUME r.overflow # 0, NEW w \in Words
                 PROVE  (v > Meaning(w, n, as)) <=> r.overflow = 1
      OBVIOUS
    <3>1. (v > Meaning(w, n, as)) <=> ~ (v < 0)
      BY <2>2, <2>3
    <3>2. r.overflow = 1 <=> ~ (v < 0)
      BY <2>2
    <3> QED
      BY <3>1, <3>2
  <2> USE DEF r
  <2>5. as # "converter" => Meaning(r.word, n, "signed") = -1
    BY <2>1, MinusOne
  <2> QED
    BY <1>3, <1>8, <2>2, <2>4, <2>5 DEF WordExact
<1> QED
  BY <1>5, <1>6, <1>7, <1>8

-----------------------------------------------------------------------------
(* The size of an int in bytes. *)

Held(v, n, unsignedOK) == FitsSigned(v, n) \/ (unsignedOK /\ FitsUnsigned(v, n))

(* The size that PyLong_AsNativeBytes returns. *)
Size(v, n, unsignedOK) ==
    IF Compact(v) THEN CompactSize(v, n, unsignedOK) ELSE LargeSize(v, n, unsignedOK)

\* There is a length.
LEMMA BitLengthIs ==
    ASSUME NEW m \in Nat
    PROVE  LET b == BitLength(m)
           IN  b \in Nat \ {0} /\ m < Pow[b] /\ (b = 1 \/ m >= Pow[b - 1])
<1> DEFINE S == {b \in Nat : b # 0 /\ m < Pow[b]}
<1>1. m + 1 \in S
  <2>1. m + 1 \in Nat /\ Pow[m + 1] \in Nat /\ m + 1 < Pow[m + 1]
    BY PowAbove, PowNat
  <2> QED
    BY <2>1
<1>2. PICK b \in S : \A c \in S : b <= c
  <2>1. S \in SUBSET Nat /\ S # {}
    BY <1>1
  <2> HIDE DEF S
  <2> QED
    BY <2>1, LeastOf
<1>3. b \in Nat \ {0} /\ m < Pow[b] /\ b <= m + 1
  BY <1>1, <1>2
<1>4. CASE b = 1
  <2>1. b \in 1..(m + 1) /\ m < Pow[b] /\ (b = 1 \/ m >= Pow[b - 1])
    BY <1>3, <1>4
  <2> QED
    BY <2>1 DEF BitLength
<1>5. CASE b # 1
  <2>1. b - 1 \in Nat \ {0} /\ b - 1 < b
    BY <1>3, <1>5
  <2>2. Pow[b - 1] \in Nat
    BY <2>1, PowNat
  <2>3. m >= Pow[b - 1]
    BY <1>2, <2>1, <2>2
  <2>4. b \in 1..(m + 1) /\ m < Pow[b] /\ (b = 1 \/ m >= Pow[b - 1])
    BY <1>3, <2>3
  <2> QED
    BY <2>4 DEF BitLength
<1> QED
  BY <1>4, <1>5

\* More bytes tell more apart.
LEMMA SpanGrows ==
    ASSUME NEW n \in Nat, NEW m \in Nat
    PROVE  /\ n <= m => Span(n) <= Span(m)
           /\ n < m => 2 * Span(n) <= Span(m)
<1> DEFINE S == {k \in Nat : Span(n) <= Span(n + k)}
<1>1. 0 \in S
  <2>1. n + 0 = n /\ Span(n) \in Nat
    BY RadixIs
  <2> QED
    BY <2>1
<1>2. ASSUME NEW i \in Nat
      PROVE  2 * Span(i) <= Span(i + 1) /\ Span(i) \in Nat /\ Span(i + 1) \in Nat
  <2> DEFINE s == Span(i)
  <2>1. s \in Nat \ {0} /\ Span(i + 1) = Radix * s
    BY RadixIs
  <2>2. PICK h \in Nat \ {0} : Radix = 2 * h
    BY RadixIs
  <2> HIDE DEF s
  <2>3. Radix * s = 2 * (h * s)
    BY <2>1, <2>2
  <2>4. h * s >= s /\ h * s \in Nat
    BY <2>1, <2>2
  <2> QED
    BY <2>1, <2>3, <2>4 DEF s
<1>3. \A k \in Nat : k \in S => k + 1 \in S
  <2> SUFFICES ASSUME NEW k \in Nat, k \in S PROVE k + 1 \in S
    OBVIOUS
  <2>1. n + k \in Nat /\ n + (k + 1) = (n + k) + 1
    OBVIOUS
  <2>2. Span(n + k) <= Span(n + (k + 1)) /\ Span(n + k) \in Nat /\ Span(n + (k + 1)) \in Nat
    BY <1>2, <2>1
  <2>3. Span(n) <= Span(n + k) /\ Span(n) \in Nat
    BY <1>2
  <2> QED
    BY <2>2, <2>3
<1> HIDE DEF S
<1>4. Nat \subseteq S
  BY <1>1, <1>3, Induction
<1>5. ASSUME n <= m PROVE Span(n) <= Span(m)
  <2>1. m - n \in Nat /\ n + (m - n) = m
    BY <1>5
  <2> QED
    BY <1>4, <2>1 DEF S
<1>6. ASSUME n < m PROVE 2 * Span(n) <= Span(m)
  <2> DEFINE k == m - 1
  <2>1. k \in Nat /\ k - n \in Nat /\ n + (k - n) = k /\ k + 1 = m
    BY <1>6
  <2> HIDE DEF k
  <2>2. Span(n) <= Span(k)
    BY <1>4, <2>1 DEF S
  <2>3. 2 * Span(k) <= Span(m) /\ Span(k) \in Nat /\ Span(m) \in Nat /\ Span(n) \in Nat
    BY <1>2, <2>1
  <2> QED
    BY <2>2, <2>3
<1> QED
  BY <1>5, <1>6

\* What fits, fits more bytes, and with a sign one more.
LEMMA FitsGrows ==
    ASSUME NEW v \in Int, NEW n \in Nat, NEW m \in Nat
    PROVE  /\ n <= m /\ FitsSigned(v, n) => FitsSigned(v, m)
           /\ n < m /\ FitsUnsigned(v, n) => FitsSigned(v, m)
<1>1. Span(n) \in Nat /\ Span(m) \in Nat
  BY RadixIs
<1> QED
  BY <1>1, SpanGrows DEF FitsSigned, FitsUnsigned

\* Some n bytes read as an int exactly when they hold it, and then those written do.
LEMMA HeldIs ==
    ASSUME NEW v \in Int, NEW n \in Nat, NEW flags
    PROVE  /\ (\E b \in ByteStrings(n) : Reads(b, v, flags)) <=> Held(v, n, UnsignedOK(flags))
           /\ Held(v, n, UnsignedOK(flags)) => Reads(Bytes(v, n, Little(flags)), v, flags)
<1> DEFINE l == Little(flags)
           b0 == Bytes(v, n, l)
<1>1. l \in BOOLEAN
  BY DEF Little
<1> HIDE DEF l
<1>2. ASSUME NEW signed \in BOOLEAN
      PROVE  /\ (\E b \in ByteStrings(n) : FromByteArray(b, l, signed) = v)
                  <=> Fits(v, n, signed)
             /\ Fits(v, n, signed) => FromByteArray(b0, l, signed) = v
  BY <1>1, SomeBytes
<1>3. /\ (\E b \in ByteStrings(n) : FromByteArray(b, l, TRUE) = v) <=> FitsSigned(v, n)
      /\ FitsSigned(v, n) => FromByteArray(b0, l, TRUE) = v
  BY <1>2 DEF Fits
<1>4. /\ (\E b \in ByteStrings(n) : FromByteArray(b, l, FALSE) = v) <=> FitsUnsigned(v, n)
      /\ FitsUnsigned(v, n) => FromByteArray(b0, l, FALSE) = v
  BY <1>2 DEF Fits
<1>5. \A b : Reads(b, v, flags) <=> \/ FromByteArray(b, l, TRUE) = v
                                    \/ UnsignedOK(flags) /\ FromByteArray(b, l, FALSE) = v
  BY DEF Reads, l
<1> HIDE DEF b0
<1>6. (\E b \in ByteStrings(n) : Reads(b, v, flags)) <=> Held(v, n, UnsignedOK(flags))
  BY <1>3, <1>4, <1>5 DEF Held
<1>7. Held(v, n, UnsignedOK(flags)) => Reads(b0, v, flags)
  BY <1>3, <1>4, <1>5 DEF Held
<1> QED
  BY <1>6, <1>7 DEF b0, l

\* A compact int fits a Py_ssize_t with its sign.
LEMMA CompactFits ==
    ASSUME NEW v \in Int, Compact(v)
    PROVE  FitsSigned(v, SizeofSsize)
<1> DEFINE k == SizeofSsize * ByteBits - 2
           p == Pow[k]
<1>1. SizeofSsize \in Nat \ {0} /\ ByteBits \in Nat \ {0, 1}
  BY NumbersAssumption
<1>2. SizeofSsize * ByteBits \in Nat /\ SizeofSsize * ByteBits >= 2
  BY <1>1
<1>3. k \in Nat /\ SizeofSsize * ByteBits = (k + 1) + 1
  BY <1>2
<1> HIDE DEF k
<1>4. p \in Nat /\ Span(SizeofSsize) = 4 * p
  <2>1. Pow[k + 1] = 2 * Pow[k] /\ Pow[(k + 1) + 1] = 2 * Pow[k + 1] /\ Pow[k] \in Nat
    BY <1>3, PowNext, PowNat
  <2> QED
    BY <1>3, <2>1 DEF Span
<1>5. Abs(v) < p
  BY DEF Compact, k
<1> HIDE DEF p
<1> QED
  BY <1>4, <1>5 DEF FitsSigned, Abs

\* The size of a compact int holds it, and is at most n if n bytes do.
LEMMA CompactSizes ==
    ASSUME NEW v \in Int, NEW n \in Nat, NEW u \in BOOLEAN, Compact(v)
    PROVE  LET size == CompactSize(v, n, u)
           IN  /\ size \in Nat \ {0} /\ Held(v, size, u)
               /\ n > 0 => (size <= n <=> Held(v, n, u))
<1> DEFINE k == SizeofSsize
           size == CompactSize(v, n, u)
<1>1. k \in Nat \ {0} /\ Span(n) \in Nat \ {0} /\ n + 1 \in Nat \ {0}
  BY NumbersAssumption, RadixIs
<1>2. FitsSigned(v, k)
  BY CompactFits
<1>3. size = IF n <= 0 \/ n > k THEN k
             ELSE IF FitsSigned(v, n) THEN n
             ELSE IF v > 0 /\ v < Span(n) THEN IF u THEN n ELSE n + 1
             ELSE k
  BY DEF CompactSize
<1>4. Held(v, k, u)
  BY <1>2 DEF Held
<1> HIDE DEF size, k
<1>5. CASE n = 0
  BY <1>1, <1>3, <1>4, <1>5 DEF size
<1>6. CASE n > k
  <2>1. Held(v, n, u)
    BY <1>1, <1>2, <1>6, FitsGrows DEF Held
  <2> QED
    BY <1>1, <1>3, <1>4, <1>6, <2>1 DEF size
<1>7. CASE n > 0 /\ n <= k /\ FitsSigned(v, n)
  <2>1. size = n /\ Held(v, n, u)
    BY <1>1, <1>3, <1>7 DEF Held
  <2> QED
    BY <1>7, <2>1 DEF size
<1>8. CASE n > 0 /\ n <= k /\ ~ FitsSigned(v, n) /\ v > 0 /\ v < Span(n)
  <2>1. size = IF u THEN n ELSE n + 1
    BY <1>1, <1>3, <1>8
  <2>2. FitsUnsigned(v, n)
    BY <1>8 DEF FitsUnsigned
  <2>3. FitsSigned(v, n + 1)
    BY <1>1, <2>2, FitsGrows
  <2>4. CASE u
    BY <1>8, <2>1, <2>2, <2>4 DEF Held, size
  <2>5. CASE ~ u
    BY <1>1, <1>8, <2>1, <2>3, <2>5 DEF Held, size
  <2> QED
    BY <2>4, <2>5
<1>9. CASE n > 0 /\ n <= k /\ ~ FitsSigned(v, n) /\ ~ (v > 0 /\ v < Span(n))
  <2>1. size = k
    BY <1>1, <1>3, <1>9
  <2>2. n < k
    BY <1>1, <1>2, <1>9
  <2>3. ~ FitsUnsigned(v, n)
    BY <1>1, <1>9 DEF FitsSigned, FitsUnsigned
  <2>4. ~ Held(v, n, u)
    BY <1>9, <2>3 DEF Held
  <2> QED
    BY <1>1, <1>4, <2>1, <2>2, <2>4 DEF size
<1> QED
  BY <1>1, <1>5, <1>6, <1>7, <1>8, <1>9

\* The same of a large one.
LEMMA LargeSizes ==
    ASSUME NEW v \in Int, NEW n \in Nat, NEW u \in BOOLEAN, ~ Compact(v)
    PROVE  LET size == LargeSize(v, n, u)
           IN  /\ size \in Nat \ {0} /\ Held(v, size, u)
               /\ n > 0 => (size <= n <=> Held(v, n, u))
<1> DEFINE size == LargeSize(v, n, u)
           m == Abs(v)
           nb == BitLength(m)
           q == nb \div ByteBits
           t == nb % ByteBits
           res == q + 1
           s == Span(n)
<1>1. SizeofSsize \in Nat \ {0} /\ ByteBits \in Nat \ {0, 1}
  BY NumbersAssumption
<1>2. m \in Nat /\ m = (IF v < 0 THEN -v ELSE v) /\ m >= 1
  <2>1. m \in Nat /\ m = IF v < 0 THEN -v ELSE v
    BY DEF Abs
  <2>2. SizeofSsize * ByteBits \in Nat /\ SizeofSsize * ByteBits >= 2
    BY <1>1
  <2>3. SizeofSsize * ByteBits - 2 \in Nat
    BY <2>2
  <2>4. Pow[SizeofSsize * ByteBits - 2] \in Nat \ {0}
    BY <2>3, PowNat
  <2> QED
    BY <2>1, <2>4 DEF Compact
<1>3. size = IF n > 0 /\ res = n + 1 /\ t = 0
             THEN IF v < 0 THEN IF m = Pow[nb - 1] THEN n ELSE res
                  ELSE IF u THEN n ELSE n + 1
             ELSE res
  BY DEF LargeSize
<1> HIDE DEF m, size
<1>4. nb \in Nat \ {0} /\ m < Pow[nb] /\ (nb = 1 \/ m >= Pow[nb - 1])
  BY <1>2, BitLengthIs
<1> HIDE DEF nb
<1>5. nb - 1 \in Nat /\ (nb - 1) + 1 = nb /\ Pow[nb] = 2 * Pow[nb - 1] /\ Pow[nb - 1] \in Nat
  BY <1>4, PowNext, PowNat
<1>6. Pow[nb - 1] <= m
  <2>1. CASE nb = 1
    BY <1>2, <2>1, PowNext
  <2> QED
    BY <1>2, <1>4, <1>5, <2>1
<1>7. q \in Nat /\ t \in Nat /\ nb = ByteBits * q + t /\ t < ByteBits
  <2>1. q \in Int /\ t \in Int /\ nb = ByteBits * q + t /\ 0 <= t /\ t < ByteBits
    BY <1>1, <1>4, Euclid
  <2> HIDE DEF q, t
  <2>2. ByteBits * 0 < ByteBits * q + ByteBits
    BY <1>1, <1>4, <2>1
  <2>3. 0 <= q
    BY <1>1, <2>1, <2>2, NoSmaller
  <2> QED
    BY <2>1, <2>3
<1> HIDE DEF q, t
<1>8. res \in Nat \ {0} /\ s \in Nat \ {0} /\ s = Pow[n * ByteBits] /\ n * ByteBits \in Nat
  <2>1. n * ByteBits \in Nat
    BY <1>1
  <2> QED
    BY <1>7, <2>1, RadixIs DEF Span
<1> HIDE DEF s
(* The int has its size, sign bit included. *)
<1>9. FitsSigned(v, res)
  <2>1. res * ByteBits \in Nat /\ res * ByteBits = ByteBits * q + ByteBits
    BY <1>1, <1>7
  <2>2. nb + 1 <= res * ByteBits /\ nb + 1 \in Nat
    BY <1>1, <1>4, <1>7, <2>1
  <2>3. Pow[nb + 1] <= Pow[res * ByteBits]
    BY <2>1, <2>2, PowGrows
  <2>4. Pow[nb + 1] = 2 * Pow[nb] /\ Pow[nb] \in Nat
    BY <1>4, PowNext, PowNat
  <2>5. Span(res) \in Nat /\ Span(res) = Pow[res * ByteBits]
    BY <1>8, RadixIs DEF Span
  <2>6. 2 * m < Span(res)
    BY <1>2, <1>4, <2>3, <2>4, <2>5
  <2> QED
    BY <1>2, <2>5, <2>6 DEF FitsSigned
<1>10. Held(v, res, u)
  BY <1>9 DEF Held
(* With fewer bits than it has, or none to spare for a sign, it is not held. *)
<1>11. ASSUME m >= s PROVE ~ Held(v, n, u)
  <2>1. ~ FitsSigned(v, n)
    BY <1>2, <1>8, <1>11 DEF FitsSigned, s
  <2>2. ~ FitsUnsigned(v, n)
    BY <1>2, <1>8, <1>11 DEF FitsUnsigned, s
  <2> QED
    BY <2>1, <2>2 DEF Held
<1>12. CASE n >= res
  <2>1. Held(v, n, u)
    BY <1>8, <1>9, <1>12, FitsGrows DEF Held
  <2>2. size = res
    BY <1>3, <1>8, <1>12
  <2> QED
    BY <1>8, <1>10, <1>12, <2>1, <2>2 DEF size
<1>13. CASE n < res /\ n * ByteBits <= nb - 1
  <2>1. Pow[n * ByteBits] <= Pow[nb - 1]
    BY <1>5, <1>8, <1>13, PowGrows
  <2>2. m >= s
    BY <1>2, <1>5, <1>6, <1>8, <2>1
  <2>3. ~ Held(v, n, u)
    BY <1>11, <2>2
  <2>4. ~ (n > 0 /\ res = n + 1 /\ t = 0)
    <3> SUFFICES ASSUME res = n + 1, t = 0 PROVE FALSE
      OBVIOUS
    <3>1. n = q /\ nb = ByteBits * q
      BY <1>1, <1>7
    <3>2. ByteBits * q = n * ByteBits
      BY <1>1, <1>7, <3>1
    <3> QED
      BY <1>4, <1>8, <1>13, <3>1, <3>2
  <2>5. size = res
    BY <1>3, <2>4
  <2> QED
    BY <1>8, <1>10, <1>13, <2>3, <2>5 DEF size
(* The case between: as many bits as n bytes have. *)
<1>14. CASE n < res /\ ~ (n * ByteBits <= nb - 1)
  <2>1. n = q
    <3>1. n <= q
      BY <1>7, <1>14
    <3>2. ByteBits * q < ByteBits * n + ByteBits
      BY <1>1, <1>4, <1>7, <1>8, <1>14
    <3> SUFFICES ASSUME n < q PROVE FALSE
      BY <1>7, <3>1
    <3>3. n + 1 <= q
      BY <1>7
    <3>4. ByteBits * (n + 1) <= ByteBits * q
      BY <1>1, <1>7, <3>3
    <3> QED
      BY <1>1, <1>7, <3>2, <3>4
  <2>2. n * ByteBits = ByteBits * q
    BY <1>1, <1>7, <2>1
  <2>3. nb = n * ByteBits /\ t = 0
    BY <1>1, <1>4, <1>7, <1>8, <1>14, <2>2
  <2>4. n > 0 /\ res = n + 1
    BY <1>1, <1>4, <1>7, <2>1, <2>3
  <2>5. m < s /\ 2 * m >= s /\ s = 2 * Pow[nb - 1]
    BY <1>2, <1>4, <1>5, <1>6, <1>8, <2>3
  <2>6. CASE v < 0 /\ m = Pow[nb - 1]
    <3>1. size = n
      BY <1>3, <2>3, <2>4, <2>6
    <3>2. Held(v, n, u)
      BY <1>2, <1>8, <2>5, <2>6 DEF Held, FitsSigned, s
    <3> QED
      BY <2>4, <3>1, <3>2 DEF size
  <2>7. CASE v < 0 /\ m # Pow[nb - 1]
    <3>1. size = res
      BY <1>3, <2>3, <2>4, <2>7
    <3>2. ~ FitsSigned(v, n) /\ ~ FitsUnsigned(v, n)
      BY <1>2, <1>5, <1>6, <1>8, <2>5, <2>7 DEF FitsSigned, FitsUnsigned, s
    <3>3. ~ Held(v, n, u)
      BY <3>2 DEF Held
    <3> QED
      BY <1>8, <1>10, <1>14, <3>1, <3>3 DEF size
  <2>8. CASE ~ (v < 0)
    <3>1. size = IF u THEN n ELSE res
      BY <1>3, <2>3, <2>4, <2>8
    <3>2. ~ FitsSigned(v, n) /\ FitsUnsigned(v, n)
      BY <1>2, <1>8, <2>5, <2>8 DEF FitsSigned, FitsUnsigned, s
    <3>3. CASE u
      <4>1. size = n /\ Held(v, n, u)
        BY <3>1, <3>2, <3>3 DEF Held
      <4> QED
        BY <2>4, <4>1 DEF size
    <3>4. CASE ~ u
      <4>1. size = res /\ ~ Held(v, n, u)
        BY <3>1, <3>2, <3>4 DEF Held
      <4> QED
        BY <1>8, <1>10, <1>14, <4>1 DEF size
    <3> QED
      BY <3>3, <3>4
  <2> QED
    BY <2>6, <2>7, <2>8
<1> QED
  BY <1>8, <1>12, <1>13, <1>14

(* The size is the least that holds the int, as far as n bytes can tell. *)
LEMMA Sizes ==
    ASSUME NEW v \in Int, NEW n \in Nat, NEW u \in BOOLEAN
    PROVE  /\ Size(v, n, u) \in Nat \ {0} /\ Held(v, Size(v, n, u), u)
           /\ n > 0 => (Size(v, n, u) <= n <=> Held(v, n, u))
BY CompactSizes, LargeSizes DEF Size

\* So a caller that looks at the size knows whether its bytes hold the int.
LEMMA NativeHonest ==
    ASSUME NEW v \in Int, NEW n \in Nat, NEW flags
    PROVE  LET r == AsNativeBytes(v, n, flags)
               again == AsNativeBytes(v, r.size, flags)
           IN  IF r.size < 0 THEN "nonnegative" \in flags /\ v < 0
               ELSE /\ n > 0 /\ r.size <= n => Reads(r.bytes, v, flags)
                    /\ (\E b \in ByteStrings(n) : Reads(b, v, flags)) /\ n > 0
                         => r.size <= n
                    /\ again.size <= r.size /\ Reads(again.bytes, v, flags)
<1> DEFINE r == AsNativeBytes(v, n, flags)
           u == UnsignedOK(flags)
           k == Size(v, n, u)
           again == AsNativeBytes(v, r.size, flags)
<1>1. u \in BOOLEAN
  BY DEF UnsignedOK
<1>2. CASE "nonnegative" \in flags /\ v < 0
  <2>1. r.size = -1
    BY <1>2 DEF AsNativeBytes
  <2> QED
    BY <1>2, <2>1
<1>3. CASE ~ ("nonnegative" \in flags /\ v < 0)
  <2>1. \A x : AsNativeBytes(v, x, flags)
                 = [size |-> Size(v, x, u), bytes |-> Bytes(v, x, Little(flags))]
    BY <1>3 DEF AsNativeBytes, Size
  <2>2. r.size = k /\ r.bytes = Bytes(v, n, Little(flags))
    BY <2>1
  <2>3. again.size = Size(v, k, u) /\ again.bytes = Bytes(v, k, Little(flags))
    BY <2>1, <2>2
  <2>4. k \in Nat \ {0} /\ Held(v, k, u) /\ (n > 0 => (k <= n <=> Held(v, n, u)))
    BY <1>1, Sizes
  <2> HIDE DEF k, r, again
  <2>5. Size(v, k, u) <= k
    BY <1>1, <2>4, Sizes
  <2>6. Reads(Bytes(v, k, Little(flags)), v, flags)
    BY <2>4, HeldIs
  <2>7. /\ (\E b \in ByteStrings(n) : Reads(b, v, flags)) <=> Held(v, n, u)
        /\ Held(v, n, u) => Reads(Bytes(v, n, Little(flags)), v, flags)
    BY HeldIs
  <2>8. ~ (r.size < 0)
    BY <2>2, <2>4
  <2> QED
    BY <2>2, <2>3, <2>4, <2>5, <2>6, <2>7, <2>8 DEF r, again
<1> QED
  BY <1>2, <1>3

-----------------------------------------------------------------------------
(* The answers. *)

\* What is answered to an int is what the function returns for it.
IntAnswered ==
    /\ call \in {NoCall} \cup SliceCalls \cup IntCalls
    /\ call.op = "to" =>
         out \in {Pending, [op |-> "bytes",
                            r |-> AsByteArray(call.v, call.n, call.little, call.signed)]}
    /\ call.op = "from" =>
         out \in {Pending, [op |-> "int",
                            v |-> FromByteArray(call.bytes, call.little, call.signed)]}
    /\ call.op = "native" =>
         out \in {Pending, [op |-> "native", r |-> AsNativeBytes(call.v, call.n, call.flags)]}
    /\ call.op = "word" =>
         out \in {Pending, [op |-> "word", r |-> AsWord(call.as, call.v, call.n)]}

\* That is so at first, and no step of a conversion changes it.
LEMMA IntAnswers ==
    /\ ConvertInit => IntAnswered
    /\ IntAnswered /\ [ConvertNext]_<<argVars, convVars>> => IntAnswered'
<1>1. ConvertInit => IntAnswered
  BY DEF ConvertInit, IntAnswered, NoCall, Pending
<1>2. IntAnswered /\ [ConvertNext]_<<argVars, convVars>> => IntAnswered'
  BY DEF IntAnswered, ConvertNext, convVars, UnpackSlice, IndicesOfSlice, ToBytes,
         FromBytes, ToNative, ToWord, Answer
<1> QED
  BY <1>1, <1>2

\* What a call is, by its kind.
LEMMA IntCallIs ==
    ASSUME IntAnswered
    PROVE  /\ call.op = "to" => /\ call.v \in Int /\ call.n \in Nat
                                /\ call.little \in BOOLEAN /\ call.signed \in BOOLEAN
           /\ call.op = "from" => /\ call.bytes \in Seq(Byte)
                                  /\ call.little \in BOOLEAN /\ call.signed \in BOOLEAN
           /\ call.op = "native" => call.v \in Int /\ call.n \in Nat
           /\ call.op = "word" => call.v \in Int /\ call.n \in Nat \ {0} /\ call.as \in WordKinds
BY ConversionsAssumption DEF IntAnswered, NoCall, Byte

\* What is answered is exact,
LEMMA AnswersExact ==
    ASSUME IntAnswered
    PROVE  BytesExact
<1>1. ASSUME call.op = "to", out # Pending
      PROVE  /\ out.r.ok <=> \E b \in ByteStrings(call.n) :
                                FromByteArray(b, call.little, call.signed) = call.v
             /\ out.r.ok => FromByteArray(out.r.bytes, call.little, call.signed) = call.v
  <2> DEFINE v == call.v
             n == call.n
             little == call.little
             signed == call.signed
  <2>1. v \in Int /\ n \in Nat /\ little \in BOOLEAN /\ signed \in BOOLEAN
    BY <1>1, IntCallIs
  <2>2. out.r = AsByteArray(v, n, little, signed)
    BY <1>1 DEF IntAnswered
  <2> HIDE DEF v, n, little, signed
  <2>3. out.r = IF Fits(v, n, signed) THEN [ok |-> TRUE, bytes |-> Bytes(v, n, little)]
                ELSE [ok |-> FALSE, bytes |-> <<>>]
    BY <2>2 DEF AsByteArray, Fits
  <2>4. /\ (\E b \in ByteStrings(n) : FromByteArray(b, little, signed) = v)
             <=> Fits(v, n, signed)
        /\ Fits(v, n, signed) => FromByteArray(Bytes(v, n, little), little, signed) = v
    BY <2>1, SomeBytes
  <2>5. CASE Fits(v, n, signed)
    <3>1. out.r.ok = TRUE /\ out.r.bytes = Bytes(v, n, little)
      BY <2>3, <2>5
    <3> QED
      BY <2>4, <2>5, <3>1 DEF v, n, little, signed
  <2>6. CASE ~ Fits(v, n, signed)
    <3>1. out.r.ok = FALSE
      BY <2>3, <2>6
    <3> QED
      BY <2>4, <2>6, <3>1 DEF v, n, little, signed
  <2> QED
    BY <2>5, <2>6
<1>2. ASSUME call.op = "from", out # Pending
      PROVE  AsByteArray(out.v, Len(call.bytes), call.little, call.signed)
               = [ok |-> TRUE, bytes |-> call.bytes]
  <2> DEFINE b == call.bytes
             little == call.little
             signed == call.signed
             v == FromByteArray(b, little, signed)
  <2>1. b \in Seq(Byte) /\ little \in BOOLEAN /\ signed \in BOOLEAN
    BY <1>2, IntCallIs
  <2>2. out.v = v
    BY <1>2 DEF IntAnswered
  <2> HIDE DEF b, little, signed
  <2>3. v \in Int /\ Fits(v, Len(b), signed) /\ Bytes(v, Len(b), little) = b
    BY <2>1, ReadIsWritten
  <2> HIDE DEF v
  <2>4. AsByteArray(v, Len(b), little, signed) = [ok |-> TRUE, bytes |-> b]
    BY <2>3 DEF AsByteArray, Fits
  <2> QED
    BY <2>2, <2>4 DEF b, little, signed
<1>3. ASSUME call.op = "word", out # Pending
      PROVE  WordExact(call.as, call.v, call.n, out.r)
  <2>1. call.v \in Int /\ call.n \in Nat \ {0} /\ call.as \in WordKinds
    BY <1>3, IntCallIs
  <2>2. out.r = AsWord(call.as, call.v, call.n)
    BY <1>3 DEF IntAnswered
  <2> QED
    BY <2>1, <2>2, WordsExact
<1> QED
  BY <1>1, <1>2, <1>3 DEF BytesExact

\* and the sizes are honest.
LEMMA AnswersHonest ==
    ASSUME IntAnswered
    PROVE  NativeSizeHonest
<1> SUFFICES ASSUME call.op = "native", out # Pending
             PROVE  NativeSizeHonest
  BY DEF NativeSizeHonest
<1>1. call.v \in Int /\ call.n \in Nat
  BY IntCallIs
<1>2. out.r = AsNativeBytes(call.v, call.n, call.flags)
  BY DEF IntAnswered
<1> QED
  BY <1>1, <1>2, NativeHonest DEF NativeSizeHonest

\* Ints become bytes, and bytes ints, without a loss that is not reported, for any
\* number of bits in a byte, any int and any number of bytes: _PyLong_AsByteArray and
\* _PyLong_FromByteArray undo each other in either order and with either sign, an int
\* is refused only where no bytes mean it, and C takes the word, the error and the flag
\* of PyLong_As* and of the converters for the int.
THEOREM IntsAreExact == ConvertSpec => []BytesExact
<1> QED
  BY IntAnswers, AnswersExact, PTL DEF ConvertSpec

\* The size PyLong_AsNativeBytes returns is at most n exactly if n bytes hold the int,
\* and a second call with that many bytes succeeds, for any int, n, flags and width of
\* Py_ssize_t.
THEOREM SizesAreHonest == ConvertSpec => []NativeSizeHonest
<1> QED
  BY IntAnswers, AnswersHonest, PTL DEF ConvertSpec

==============================================================================
