------------------------------ MODULE Arguments ------------------------------
(***************************************************************************)
(* How a call's arguments reach the parameters of a C function: the loop   *)
(* of wasthon_unpack_keywords, for functions generated by Argument Clinic, *)
(* and that of PyArg_ParseTupleAndKeywords, for those with a format        *)
(* string, both in src/src/wasthon.js.                                     *)
(*                                                                         *)
(* A parameter is a number, its slot, and its keyword is the same number;  *)
(* a keyword that names no parameter, or a positional-only one, is in      *)
(* Unknown.  A slot says how it was filled, which also says with what: a   *)
(* position fills the slot of its own number.                              *)
(***************************************************************************)
EXTENDS Integers, FiniteSets

CONSTANTS MaxParams,    \* bound: the parameters of a function
          MaxArgs,      \* bound: the positional arguments of a call
          Unknown       \* keywords that are not one of the function's

ASSUME ArgumentsAssumption ==
    /\ MaxParams \in Nat /\ MaxArgs \in Nat
    /\ IsFiniteSet(Unknown) /\ Unknown \cap Int = {}

VARIABLES parser,       \* what Argument Clinic, or a format string, says of the parameters
          nargs,        \* how many positional arguments the call has
          kw,           \* the keywords it has
          pc,           \* "check", "fill", "rest" or "done"
          slot,         \* the loop's next slot
          remaining,    \* keywords not bound yet
          buf,          \* how each slot is filled
          result        \* "none" until done, then "bound" or the error

argVars == <<parser, nargs, kw, pc, slot, remaining, buf, result>>

Fills   == {"absent", "position", "name"}
Faults  == {"count", "positional", "few", "missing", "twice", "unexpected"}
Results == {"none", "bound"} \cup Faults

(***************************************************************************)
(* posonly parameters have no keyword, the first minpos are required,      *)
(* maxpos can be given by position, minkw keyword-only ones are required   *)
(* and come first among theirs; varpos is a *args.  A format string has    *)
(* "|" after the required ones and "$" before the keyword-only ones, which *)
(* are then optional.                                                      *)
(***************************************************************************)
ParserOK(p) ==
    /\ p.posonly <= p.maxpos /\ p.minpos <= p.maxpos
    /\ p.maxpos + p.minkw <= p.total
    /\ p.format => p.minkw = 0 /\ ~p.varpos

Parsers == {p \in [total : 0..MaxParams, posonly : 0..MaxParams, minpos : 0..MaxParams,
                   maxpos : 0..MaxParams, minkw : 0..MaxParams,
                   varpos : BOOLEAN, format : BOOLEAN] : ParserOK(p)}

Lesser(a, b)  == IF a <= b THEN a ELSE b
Greater(a, b) == IF a <= b THEN b ELSE a

Slots(p)    == 1..p.total
Nameable(p) == (p.posonly + 1)..p.total
Copied      == Lesser(nargs, parser.maxpos)
MinPosOnly  == Lesser(parser.posonly, parser.minpos)
ReqLimit    == IF parser.minkw > 0 THEN parser.maxpos + parser.minkw ELSE parser.minpos
Empty(p)    == [i \in Slots(p) |-> "absent"]

Init ==
    /\ parser \in Parsers
    /\ nargs \in 0..MaxArgs
    /\ kw \in SUBSET (Nameable(parser) \cup Unknown)
    /\ pc = "check"
    /\ slot = 1
    /\ remaining = Cardinality(kw)
    /\ buf = Empty(parser)
    /\ result = "none"

Finish(r) == pc' = "done" /\ result' = r

-----------------------------------------------------------------------------
(* wasthon_unpack_keywords *)

TooMany       == ~parser.varpos /\ nargs + Cardinality(kw) > parser.total
TooPositional == ~parser.varpos /\ nargs > parser.maxpos
TooFew        == nargs < MinPosOnly

Refuse ==
    /\ pc = "check" /\ ~parser.format
    /\ \/ TooMany /\ Finish("count")
       \/ ~TooMany /\ TooPositional /\ Finish("positional")
       \/ ~TooMany /\ ~TooPositional /\ TooFew /\ Finish("few")
    /\ UNCHANGED <<parser, nargs, kw, slot, remaining, buf>>

Copy ==
    /\ pc = "check" /\ ~parser.format
    /\ ~TooMany /\ ~TooPositional /\ ~TooFew
    /\ buf' = [i \in Slots(parser) |-> IF i <= Copied THEN "position" ELSE "absent"]
    /\ slot' = Greater(Copied, parser.posonly) + 1
    /\ pc' = "fill"
    /\ UNCHANGED <<parser, nargs, kw, remaining, result>>

(* Mutant: the loop ends with the last keyword. *)
EndsEarly == slot > parser.total \/ remaining = 0

(* The loop ends at the last slot, or where nothing is left to place and   *)
(* no later slot is required.                                              *)
Ends == slot > parser.total \/ (remaining = 0 /\ slot > ReqLimit)

RequiredSlot(i) == i <= parser.minpos \/ (parser.maxpos < i /\ i <= ReqLimit)

Found == remaining > 0 /\ slot \in kw

Place ==
    /\ pc = "fill" /\ ~parser.format /\ ~Ends /\ Found
    /\ buf' = [buf EXCEPT ![slot] = "name"]
    /\ remaining' = remaining - 1
    /\ slot' = slot + 1
    /\ UNCHANGED <<parser, nargs, kw, pc, result>>

Skip ==
    /\ pc = "fill" /\ ~parser.format /\ ~Ends /\ ~Found
    /\ buf' = [buf EXCEPT ![slot] = "absent"]
    /\ IF RequiredSlot(slot)
       THEN Finish("missing") /\ UNCHANGED slot
       ELSE slot' = slot + 1 /\ UNCHANGED <<pc, result>>
    /\ UNCHANGED <<parser, nargs, kw, remaining>>

Leave ==
    /\ pc = "fill" /\ ~parser.format /\ Ends
    /\ pc' = "rest"
    /\ UNCHANGED <<parser, nargs, kw, slot, remaining, buf, result>>

GivenTwice == \E i \in kw \cap Nameable(parser) : i <= Copied

(* Keywords that no slot took: one that a position had, or one unknown. *)
Rest ==
    /\ pc = "rest"
    /\ Finish(IF remaining = 0 THEN "bound" ELSE IF GivenTwice THEN "twice" ELSE "unexpected")
    /\ UNCHANGED <<parser, nargs, kw, slot, remaining, buf>>

-----------------------------------------------------------------------------
(* PyArg_ParseTupleAndKeywords *)

Unexpected == kw \ Nameable(parser) # {}

RefuseFormat ==
    /\ pc = "check" /\ parser.format
    /\ \/ Unexpected /\ Finish("unexpected")
       \/ ~Unexpected /\ nargs > parser.maxpos /\ Finish("positional")
    /\ UNCHANGED <<parser, nargs, kw, slot, remaining, buf>>

StartFormat ==
    /\ pc = "check" /\ parser.format /\ ~Unexpected /\ nargs <= parser.maxpos
    /\ pc' = "fill"
    /\ UNCHANGED <<parser, nargs, kw, slot, remaining, buf, result>>

(* What the walk finds for a slot: a position first. *)
ValueOf(i) == IF i <= nargs THEN "position"
              ELSE IF i \in kw THEN "name" ELSE "absent"

WalkSlot ==
    /\ pc = "fill" /\ parser.format /\ slot <= parser.total
    /\ buf' = [buf EXCEPT ![slot] = ValueOf(slot)]
    /\ IF ValueOf(slot) = "absent" /\ slot <= parser.minpos
       THEN Finish("missing") /\ UNCHANGED slot
       ELSE slot' = slot + 1 /\ UNCHANGED <<pc, result>>
    /\ UNCHANGED <<parser, nargs, kw, remaining>>

EndFormat ==
    /\ pc = "fill" /\ parser.format /\ slot > parser.total
    /\ Finish("bound")
    /\ UNCHANGED <<parser, nargs, kw, slot, remaining, buf>>

-----------------------------------------------------------------------------
Next ==
    \/ Refuse \/ Copy \/ Place \/ Skip \/ Leave \/ Rest
    \/ RefuseFormat \/ StartFormat \/ WalkSlot \/ EndFormat

Spec == Init /\ [][Next]_argVars

-----------------------------------------------------------------------------
(* What Python's call rules say of the same call. *)

Required == 1..parser.minpos \cup (parser.maxpos + 1)..(parser.maxpos + parser.minkw)

Excess  == ~parser.varpos /\ nargs > parser.maxpos
Missing == \E i \in Required : i > Copied /\ i \notin kw

Rightful(i) == IF i <= Copied THEN "position"
               ELSE IF i \in kw THEN "name" ELSE "absent"

(* The faults each error may stand for. *)
IsTrue(r) ==
    CASE r = "count" -> Excess \/ Unexpected \/ GivenTwice
      [] r = "positional" -> Excess
      [] r \in {"few", "missing"} -> Missing
      [] r = "twice" -> GivenTwice
      [] r = "unexpected" -> Unexpected
      [] OTHER -> FALSE

ArgsTypeOK ==
    /\ parser \in Parsers
    /\ nargs \in 0..MaxArgs
    /\ kw \in SUBSET (Nameable(parser) \cup Unknown)
    /\ pc \in {"check", "fill", "rest", "done"}
    /\ slot \in 1..(parser.total + 1)
    /\ remaining \in Nat
    /\ buf \in [Slots(parser) -> Fills]
    /\ result \in Results

(* A call that Python's rules accept is bound, each slot as they say, and   *)
(* one they refuse is refused with an error that is true of it, whatever    *)
(* the parser, however many arguments come by position and by name.  The    *)
(* walk over a format string lets one fault through: an argument given      *)
(* twice, whose position wins (11938).                                      *)
BindsAsPython ==
    pc = "done" =>
        IF result = "bound"
        THEN /\ ~Excess /\ ~Unexpected /\ ~Missing
             /\ GivenTwice => parser.format
             /\ \A i \in Slots(parser) : buf[i] = Rightful(i)
        ELSE IsTrue(result)
=============================================================================
