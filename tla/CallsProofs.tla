---------------------------- MODULE CallsProofs ----------------------------
(***************************************************************************)
(* Theorems about Calls, for any errors, nesting and limit of the guard.   *)
(*                                                                         *)
(* That a C function finds the error it set is not inductive: it does not  *)
(* say what the frames below expect.  Linked does: a frame started with    *)
(* the error the frame below it expects to find again, and each kind of    *)
(* frame is found only where the bridge starts it.                         *)
(***************************************************************************)
EXTENDS Calls, SequenceTheorems, TLAPS

FrameType == [kind : InC \cup {"python", "callback"},
              found : Error \cup {None}, due : Error \cup {None},
              saved : Error \cup {None, Unsaved}, entered : Nat]

Link(s, d) ==
    /\ s[d].kind \in {"python", "callback"}
          => d > 1 /\ s[d - 1].kind \in InC /\ s[d].due = s[d].found
    /\ s[d].kind \in {"python", "call"} => s[d].found = None
    /\ s[d].kind \in {"init", "reclaim"} => d = 1
    /\ s[d].kind = "finalize" /\ d > 1 => s[d].found = None
    /\ d > 1 => s[d].found = s[d - 1].due

Linked(s) == \A d \in 1..Len(s) : Link(s, d)

\* Whatever runs, the error set is the one it is due.
Synced == frames # <<>> => pending = Top.due

\* Outside every scope the guard is at zero.
AtRest == NoScope(frames) => depth = 0

Inv == TypeOK /\ Linked(frames) /\ Synced

----------------------------------------------------------------------------
(* The stack. *)

LEMMA PushFrame ==
    ASSUME NEW s \in Seq(FrameType), NEW f \in FrameType
    PROVE  /\ Append(s, f) \in Seq(FrameType)
           /\ Len(Append(s, f)) = Len(s) + 1
           /\ Append(s, f)[Len(s) + 1] = f
           /\ \A d \in 1..Len(s) : Append(s, f)[d] = s[d]
           /\ Append(s, f) # <<>>
           /\ Last(Append(s, f)) = f
BY DEF Last

LEMMA PopFrame ==
    ASSUME NEW s \in Seq(FrameType), s # <<>>
    PROVE  /\ Front(s) \in Seq(FrameType)
           /\ Len(Front(s)) = Len(s) - 1
           /\ \A d \in 1..(Len(s) - 1) : Front(s)[d] = s[d]
           /\ Len(s) \in Nat /\ Len(s) > 0
           /\ Last(s) = s[Len(s)] /\ Last(s) \in FrameType
           /\ Front(s) # <<>> => Last(Front(s)) = s[Len(s) - 1] /\ Len(s) > 1
<1>1. Len(s) \in Nat /\ Len(s) > 0 /\ \A d \in 1..Len(s) : s[d] \in FrameType
  OBVIOUS
<1> DEFINE n == Len(s) - 1
<1>2. n \in Nat /\ \A i \in 1..n : s[i] \in FrameType
  BY <1>1
<1>3. /\ SubSeq(s, 1, Len(s) - 1) \in Seq(FrameType)
      /\ Len(SubSeq(s, 1, Len(s) - 1)) = Len(s) - 1
      /\ \A d \in 1..(Len(s) - 1) : SubSeq(s, 1, Len(s) - 1)[d] = s[d]
  <2>1. n = Len(s) - 1
    OBVIOUS
  <2> HIDE DEF n
  <2>2. /\ SubSeq(s, 1, n) \in Seq(FrameType)
        /\ Len(SubSeq(s, 1, n)) = IF 1 <= n THEN n - 1 + 1 ELSE 0
        /\ \A i \in 1..(n - 1 + 1) : SubSeq(s, 1, n)[i] = s[1 + i - 1]
    BY <1>2, SubSeqProperties
  <2>3. Len(SubSeq(s, 1, n)) = n /\ \A i \in 1..n : SubSeq(s, 1, n)[i] = s[i]
    BY <1>2, <2>2
  <2> QED
    BY <2>1, <2>2, <2>3
<1>4. Front(s) # <<>> => Len(Front(s)) > 0
  BY <1>3 DEF Front
<1>5. Last(s) = s[Len(s)] /\ Last(s) \in FrameType
  BY <1>1 DEF Last
<1>6. Len(Front(s)) > 0 => Last(Front(s)) = s[Len(s) - 1] /\ Len(s) > 1
  BY <1>1, <1>3 DEF Front, Last
<1> QED
  BY <1>1, <1>3, <1>4, <1>5, <1>6 DEF Front

LEMMA SetFrame ==
    ASSUME NEW s \in Seq(FrameType), s # <<>>, NEW f \in FrameType
    PROVE  /\ [s EXCEPT ![Len(s)] = f] \in Seq(FrameType)
           /\ Len([s EXCEPT ![Len(s)] = f]) = Len(s)
           /\ [s EXCEPT ![Len(s)] = f][Len(s)] = f
           /\ \A d \in 1..(Len(s) - 1) : [s EXCEPT ![Len(s)] = f][d] = s[d]
           /\ [s EXCEPT ![Len(s)] = f] # <<>>
           /\ Last([s EXCEPT ![Len(s)] = f]) = f
BY DEF Last

\* A C frame of the right kind on top of a stack keeps it linked.
LEMMA PushLinked ==
    ASSUME NEW s \in Seq(FrameType), Linked(s), NEW f \in FrameType,
           Len(s) > 0 => f.found = Last(s).due,
           f.kind \in {"python", "callback"}
              => Len(s) > 0 /\ Last(s).kind \in InC /\ f.due = f.found,
           f.kind \in {"python", "call"} => f.found = None,
           f.kind \in {"init", "reclaim"} => Len(s) = 0,
           f.kind = "finalize" /\ Len(s) > 0 => f.found = None
    PROVE  Linked(Append(s, f))
<1> DEFINE t == Append(s, f)
<1>1. /\ Len(t) = Len(s) + 1 /\ Len(s) \in Nat
      /\ t[Len(s) + 1] = f
      /\ \A d \in 1..Len(s) : t[d] = s[d]
  BY PushFrame
<1>2. Len(s) > 0 => t[Len(s)] = Last(s)
  BY <1>1 DEF Last
<1> HIDE DEF t
<1>3. SUFFICES ASSUME NEW d \in 1..Len(t) PROVE Link(t, d)
  BY DEF Linked, t
<1>4. CASE d = Len(s) + 1
  BY <1>1, <1>2, <1>4 DEF Link
<1>5. CASE d \in 1..Len(s)
  <2>1. Link(s, d)
    BY <1>5 DEF Linked
  <2>2. t[d] = s[d] /\ (d > 1 => t[d - 1] = s[d - 1])
    BY <1>1, <1>5
  <2> QED
    BY <2>1, <2>2 DEF Link
<1> QED
  BY <1>1, <1>3, <1>4, <1>5

\* A stack stays linked when its top goes.
LEMMA PopLinked ==
    ASSUME NEW s \in Seq(FrameType), s # <<>>, Linked(s)
    PROVE  Linked(Front(s))
<1> DEFINE t == Front(s)
<1>1. /\ Len(t) = Len(s) - 1 /\ Len(s) \in Nat
      /\ \A d \in 1..(Len(s) - 1) : t[d] = s[d]
  BY PopFrame
<1> HIDE DEF t
<1>2. SUFFICES ASSUME NEW d \in 1..Len(t) PROVE Link(t, d)
  BY DEF Linked, t
<1>3. Link(s, d)
  BY <1>1 DEF Linked
<1>4. t[d] = s[d] /\ (d > 1 => t[d - 1] = s[d - 1])
  BY <1>1
<1> QED
  BY <1>3, <1>4 DEF Link

\* A stack stays linked when the C frame on top of it expects another error.
LEMMA SetLinked ==
    ASSUME NEW s \in Seq(FrameType), s # <<>>, Linked(s), NEW f \in FrameType,
           Last(s).kind \in InC, f.kind = Last(s).kind, f.found = Last(s).found
    PROVE  Linked([s EXCEPT ![Len(s)] = f])
<1> DEFINE t == [s EXCEPT ![Len(s)] = f]
<1>1. /\ Len(t) = Len(s) /\ Len(s) \in Nat
      /\ t[Len(s)] = f
      /\ \A d \in 1..(Len(s) - 1) : t[d] = s[d]
  BY SetFrame
<1> HIDE DEF t
<1>2. SUFFICES ASSUME NEW d \in 1..Len(t) PROVE Link(t, d)
  BY DEF Linked, t
<1>3. Link(s, d)
  BY <1>1 DEF Linked
<1>4. /\ t[d].kind = s[d].kind /\ t[d].found = s[d].found
      /\ d > 1 => t[d - 1] = s[d - 1]
      /\ s[d].kind \in {"python", "callback"} => t[d].due = s[d].due
  BY <1>1 DEF Last, InC, Scoped
<1> QED
  BY <1>3, <1>4 DEF Link

----------------------------------------------------------------------------
(* The steps. *)

\* A frame that is pushed leaves the error it was started with set.
LEMMA PushInv ==
    ASSUME Inv, NEW k, NEW e \in Error \cup {None}, NEW p \in Error \cup {None},
           k \in InC \cup {"python", "callback"}, Room,
           frames' = Append(frames, Frame(k, e)), pending' = p, UNCHANGED depth,
           p = e,
           frames # <<>> => e = Top.due,
           k \in {"python", "callback"} => frames # <<>> /\ Top.kind \in InC,
           k \in {"python", "call"} => e = None,
           k \in {"init", "reclaim"} => frames = <<>>,
           k = "finalize" /\ frames # <<>> => e = None
    PROVE  Inv'
<1> DEFINE f == Frame(k, e)
<1>1. frames \in Seq(FrameType) /\ f \in FrameType
  BY DEF Inv, TypeOK, FrameType, Frame
<1>2. /\ f.kind = k /\ f.found = e /\ f.due = e
  BY DEF Frame
<1>3. Len(frames) > 0 <=> frames # <<>>
  BY <1>1
<1>4. Linked(frames)'
  <2>1. Linked(Append(frames, f))
    <3> HIDE DEF f
    <3> QED
      BY <1>1, <1>2, <1>3, PushLinked DEF Inv, Top
  <2> QED
    BY <2>1
<1>5. TypeOK'
  <2>1. frames' \in Seq(FrameType) /\ Len(frames') = Len(frames) + 1
    BY <1>1, PushFrame
  <2> QED
    BY <1>1, <2>1, CallsAssumption DEF Inv, TypeOK, Room, FrameType
<1>6. Synced'
  <2>1. Last(frames') = f
    BY <1>1, PushFrame
  <2> QED
    BY <1>2, <2>1 DEF Synced, Top
<1> QED
  BY <1>4, <1>5, <1>6 DEF Inv

\* A running C frame that reports, fetches or counts.
LEMMA SetInv ==
    ASSUME Inv, CRuns, NEW f \in FrameType,
           frames' = [frames EXCEPT ![Len(frames)] = f],
           f.kind = Top.kind, f.found = Top.found,
           pending' = f.due, depth' \in 0..Cap
    PROVE  Inv'
<1>1. frames \in Seq(FrameType) /\ frames # <<>> /\ Last(frames).kind \in InC
  BY DEF Inv, TypeOK, FrameType, CRuns, Running, Top, InC, Scoped
<1>2. Linked(frames)'
  <2>1. Linked([frames EXCEPT ![Len(frames)] = f])
    BY <1>1, SetLinked DEF Inv, Top
  <2> QED
    BY <2>1
<1>3. /\ frames' \in Seq(FrameType) /\ Len(frames') = Len(frames)
      /\ Last(frames') = f
  BY <1>1, SetFrame
<1>4. TypeOK'
  BY <1>3 DEF Inv, TypeOK, FrameType
<1>5. Synced'
  BY <1>3 DEF Synced, Top
<1> QED
  BY <1>2, <1>4, <1>5 DEF Inv

\* A frame that goes leaves the error the one below it expects.
LEMMA PopInv ==
    ASSUME Inv, frames # <<>>, frames' = Below, depth' \in 0..Cap,
           pending' \in Error \cup {None},
           Len(frames) > 1 => pending' = Top.found
    PROVE  Inv'
<1>1. frames \in Seq(FrameType) /\ Linked(frames)
  BY DEF Inv, TypeOK, FrameType
<1>2. /\ frames' \in Seq(FrameType) /\ Len(frames') = Len(frames) - 1
      /\ Len(frames) \in Nat /\ Len(frames) > 0
      /\ Top = frames[Len(frames)]
      /\ frames' # <<>> => Last(frames') = frames[Len(frames) - 1] /\ Len(frames) > 1
  BY <1>1, PopFrame DEF Below, Top
<1>3. Linked(frames)'
  <2>1. Linked(Front(frames))
    BY <1>1, PopLinked
  <2> QED
    BY <2>1 DEF Below
<1>4. TypeOK'
  BY <1>2, CallsAssumption DEF Inv, TypeOK, FrameType
<1>5. Synced'
  <2>1. Len(frames) > 1 => Top.found = frames[Len(frames) - 1].due
    BY <1>1, <1>2 DEF Linked, Link
  <2> QED
    BY <1>2, <2>1 DEF Synced, Top
<1> QED
  BY <1>3, <1>4, <1>5 DEF Inv

----------------------------------------------------------------------------
(* The invariant. *)

\* What the invariant says of the running frame.
LEMMA TopFacts ==
    ASSUME Inv, frames # <<>>
    PROVE  /\ frames \in Seq(FrameType) /\ Len(frames) \in Nat /\ Len(frames) > 0
           /\ Top = frames[Len(frames)] /\ Top \in FrameType
           /\ pending = Top.due
           /\ Top.kind \in {"python", "callback"}
                 => Len(frames) > 1 /\ Top.due = Top.found
           /\ Top.kind \in {"python", "call"} => Top.found = None
           /\ Top.kind \in {"init", "reclaim"} => Len(frames) = 1
           /\ Top.kind = "finalize" /\ Len(frames) > 1 => Top.found = None
<1>1. frames \in Seq(FrameType) /\ Linked(frames) /\ pending = Top.due
  BY DEF Inv, TypeOK, FrameType, Synced
<1>2. /\ Len(frames) \in Nat /\ Len(frames) > 0
      /\ Top = frames[Len(frames)] /\ Top \in FrameType
  BY <1>1, PopFrame DEF Top
<1>3. Link(frames, Len(frames))
  BY <1>1, <1>2 DEF Linked
<1> QED
  BY <1>1, <1>2, <1>3 DEF Link

\* A running C frame is on the stack.
LEMMA CFrame == CRuns => frames # <<>> /\ Top.kind \in InC
BY DEF CRuns, Running, InC, Scoped

\* Python that enters the bridge has no error set, or is the main program.
LEMMA EntersClean ==
    ASSUME Inv, ~WeakReenters, Enters, frames # <<>>
    PROVE  Top.due = None
<1>1. Top.kind \in {"main", "python"}
  BY DEF Enters, Running, InPython
<1>2. Top.kind # "main"
  BY TopFacts DEF FrameType, InC, Scoped
<1> QED
  BY <1>1, <1>2, TopFacts

LEMMA DueType ==
    ASSUME Inv
    PROVE  Due \in Error \cup {None} /\ Due = pending
BY TopFacts DEF Due, Inv, TypeOK, FrameType

\* Before the first call there is no frame and no error.
THEOREM InitInv == Init => Inv
<1> SUFFICES ASSUME Init PROVE Inv
  OBVIOUS
<1>1. frames = <<>> /\ frames \in Seq(FrameType) /\ Len(frames) = 0
  BY DEF Init
<1> QED
  BY <1>1, CallsAssumption DEF Init, Inv, TypeOK, Linked, Synced, FrameType

\* Every step keeps the invariant when the weak references' callbacks leave the
\* bridge alone and nothing throws through a destructor that found an error.
THEOREM StepInv ==
    ASSUME Inv, [Next]_vars, ~WeakReenters, ~DestructorsThrow
    PROVE  Inv'
<1>0. depth \in 0..Cap /\ Cap \in Nat /\ pending \in Error \cup {None}
  BY CallsAssumption DEF Inv, TypeOK
<1>1. CASE UNCHANGED vars
  BY <1>1 DEF vars, Inv, TypeOK, Linked, Synced, Link, Top
<1>2. CASE Call
  <2>1. pending' = None
    BY <1>2 DEF Call, Entry
  <2>2. frames # <<>> => Top.due = None
    BY <1>2, EntersClean DEF Call
  <2> QED
    BY <1>2, <2>1, <2>2, PushInv DEF Call, InC, Scoped, Enters
<1>3. CASE LoadModule
  <2>1. frames' = Append(frames, Frame("init", Due))
    BY <1>3 DEF LoadModule
  <2> QED
    BY <1>0, <1>3, <2>1, DueType, PushInv DEF LoadModule, InC, Scoped
<1>4. CASE Dealloc
  BY <1>0, <1>4, DueType, PushInv DEF Dealloc, InC, Scoped, Due, Enters
<1>5. CASE GcFinalize
  <2>1. frames # <<>> => Due = None
    BY <1>5, EntersClean DEF GcFinalize, Due
  <2> QED
    BY <1>0, <1>5, <2>1, DueType, PushInv DEF GcFinalize, InC, Scoped, Due, Enters
<1>6. CASE ReclaimDead
  <2>1. frames' = Append(frames, Frame("reclaim", Due))
    BY <1>6 DEF ReclaimDead
  <2> QED
    BY <1>0, <1>6, <2>1, DueType, PushInv DEF ReclaimDead, InC, Scoped
<1>7. ASSUME NEW e \in Error \cup {None}, CRuns, Report(e), UNCHANGED depth
      PROVE  Inv'
  <2> DEFINE f == [Top EXCEPT !.due = e]
  <2>1. f \in FrameType /\ f.kind = Top.kind /\ f.found = Top.found /\ f.due = e
    BY <1>7, TopFacts, CFrame DEF FrameType
  <2>2. frames' = [frames EXCEPT ![Len(frames)] = f]
    BY <1>7, TopFacts, CFrame DEF Report
  <2> QED
    BY <1>0, <1>7, <2>1, <2>2, SetInv DEF Report
<1>8. CASE SetError
  BY <1>7, <1>8 DEF SetError, Error
<1>9. CASE Clear
  BY <1>7, <1>9 DEF Clear
<1>10. CASE Fetch
  <2> DEFINE f == [Top EXCEPT !.saved = pending, !.due = None]
  <2>1. f \in FrameType /\ f.kind = Top.kind /\ f.found = Top.found /\ f.due = None
    BY <1>0, <1>10, TopFacts, CFrame DEF FrameType, Fetch
  <2>2. frames' = [frames EXCEPT ![Len(frames)] = f]
    BY <1>10, TopFacts, CFrame DEF Fetch
  <2> QED
    BY <1>0, <1>10, <2>1, <2>2, SetInv DEF Fetch
<1>11. CASE Restore
  <2> DEFINE f == [Top EXCEPT !.saved = Unsaved, !.due = Top.saved]
  <2>1. /\ f \in FrameType /\ f.kind = Top.kind /\ f.found = Top.found
        /\ f.due = Top.saved
    BY <1>11, TopFacts, CFrame DEF FrameType, Restore
  <2>2. frames' = [frames EXCEPT ![Len(frames)] = f]
    BY <1>11, TopFacts, CFrame DEF Restore
  <2> QED
    BY <1>0, <1>11, <2>1, <2>2, SetInv DEF Restore
<1>12. CASE Chain
  <2> DEFINE due == IF Top.due # None THEN Top.due ELSE Top.saved
             f == [Top EXCEPT !.saved = Unsaved, !.due = due]
  <2>1. /\ f \in FrameType /\ f.kind = Top.kind /\ f.found = Top.found
        /\ f.due = due
    BY <1>12, TopFacts, CFrame DEF FrameType, Chain
  <2>2. frames' = [frames EXCEPT ![Len(frames)] = f]
    BY <1>12, TopFacts, CFrame DEF Chain
  <2>3. pending' = due
    BY <1>12, TopFacts, CFrame DEF Chain
  <2> QED
    BY <1>0, <1>12, <2>1, <2>2, <2>3, SetInv DEF Chain
<1>13. CASE EnterRecursiveCall
  <2>1. CASE ~Within(depth)
    BY <1>7, <1>13, <2>1 DEF EnterRecursiveCall, Guards, Error
  <2>2. CASE Within(depth)
    <3> DEFINE f == [Top EXCEPT !.entered = @ + 1]
    <3>1. /\ f \in FrameType /\ f.kind = Top.kind /\ f.found = Top.found
          /\ f.due = Top.due
      BY <1>13, TopFacts, CFrame DEF FrameType, EnterRecursiveCall, Guards
    <3>2. frames' = [frames EXCEPT ![Len(frames)] = f]
      BY <1>13, <2>2, TopFacts, CFrame DEF EnterRecursiveCall, Guards
    <3>3. depth' \in 0..Cap /\ pending' = Top.due
      BY <1>0, <1>13, <2>2, TopFacts, CFrame DEF EnterRecursiveCall, Guards, Within
    <3> QED
      BY <1>13, <3>1, <3>2, <3>3, SetInv DEF EnterRecursiveCall, Guards
  <2> QED
    BY <2>1, <2>2
<1>14. CASE LeaveRecursiveCall
  <2> DEFINE f == [Top EXCEPT !.entered = @ - 1]
  <2>1. /\ f \in FrameType /\ f.kind = Top.kind /\ f.found = Top.found
        /\ f.due = Top.due
    BY <1>14, TopFacts, CFrame DEF FrameType, LeaveRecursiveCall
  <2>2. frames' = [frames EXCEPT ![Len(frames)] = f]
    BY <1>14, TopFacts, CFrame DEF LeaveRecursiveCall
  <2>3. depth' \in 0..Cap /\ pending' = Top.due
    BY <1>0, <1>14, TopFacts, CFrame DEF LeaveRecursiveCall
  <2> QED
    BY <1>14, <2>1, <2>2, <2>3, SetInv DEF LeaveRecursiveCall
<1>15. CASE CallPython
  BY <1>0, <1>15, CFrame, TopFacts, PushInv DEF CallPython
<1>16. CASE CallWeak
  <2>1. CRuns
    BY <1>16 DEF CallWeak, CRuns, InC, Scoped, Destructor
  <2>2. Top.due \in Error \cup {None}
    BY <2>1, CFrame, TopFacts DEF FrameType
  <2> QED
    BY <1>0, <1>16, <2>1, <2>2, CFrame, TopFacts, PushInv DEF CallWeak
<1>17. ASSUME CRuns, Leave PROVE depth' \in 0..Cap
  BY <1>0, <1>17 DEF Leave, DepthAfter
<1>18. CASE Return
  <2>1. /\ pending' \in Error \cup {None}
        /\ Len(frames) > 1 => pending' = Top.found
    <3>1. Top \in FrameType /\ Top.kind \in InC
      BY <1>18, CFrame, TopFacts DEF Return
    <3>2. pending' = Left(Top) /\ (Top.kind \in Destructor => Top.due = Top.found)
      BY <1>18 DEF Return
    <3>3. CASE Top.kind = "call"
      BY <1>18, <3>2, <3>3, CFrame, TopFacts DEF Return, Left, Thrown
    <3>4. CASE Top.kind = "init"
      <4>1. Len(frames) = 1
        BY <1>18, <3>4, CFrame, TopFacts DEF Return
      <4>2. Left(Top) = pending
        BY <3>4 DEF Left
      <4> QED
        BY <1>0, <3>2, <4>1, <4>2
    <3>5. CASE Top.kind = "dealloc"
      BY <1>0, <1>18, <3>2, <3>5, CFrame, TopFacts DEF Return, Left, Destructor
    <3>6. CASE Top.kind = "finalize"
      BY <1>18, <3>2, <3>6, CFrame, TopFacts DEF Return, Left
    <3>7. CASE Top.kind = "reclaim"
      BY <3>1, <3>2, <3>7 DEF Left, FrameType
    <3> QED
      BY <3>1, <3>3, <3>4, <3>5, <3>6, <3>7 DEF InC, Scoped
  <2> QED
    BY <1>17, <1>18, <2>1, CFrame, PopInv DEF Return, Leave
<1>19. CASE Unwind
  <2>1. /\ pending' \in Error \cup {None}
        /\ Len(frames) > 1 => pending' = Top.found
    <3>1. Top \in FrameType /\ Top.kind \in InC /\ pending = None
      BY <1>19, CFrame, TopFacts DEF Unwind
    <3>2. /\ pending' = IF Top.kind = "call" THEN pending ELSE Left(Top)
          /\ Top.kind \in Destructor => Top.found = None
      BY <1>19, CFrame DEF Unwind, Running
    <3>3. CASE Top.kind = "call"
      BY <1>19, <3>1, <3>2, <3>3, CFrame, TopFacts DEF Unwind
    <3>4. CASE Top.kind = "init"
      <4>1. Len(frames) = 1
        BY <1>19, <3>4, CFrame, TopFacts DEF Unwind
      <4>2. Left(Top) = pending
        BY <3>4 DEF Left
      <4> QED
        BY <3>1, <3>2, <3>4, <4>1, <4>2
    <3>5. CASE Top.kind \in {"dealloc", "finalize", "reclaim"}
      BY <3>1, <3>2, <3>5 DEF Left, Destructor
    <3> QED
      BY <3>1, <3>3, <3>4, <3>5 DEF InC, Scoped
  <2> QED
    BY <1>17, <1>19, <2>1, CFrame, PopInv DEF Unwind, Leave
<1>20. CASE PythonReturns
  <2>1. frames # <<>> /\ Top.kind \in {"python", "callback"}
    BY <1>20 DEF PythonReturns, Running
  <2> QED
    BY <1>0, <1>20, <2>1, TopFacts, PopInv DEF PythonReturns
<1>21. CASE PythonRaises
  <2>1. frames # <<>> /\ Top.kind = "python"
    BY <1>21 DEF PythonRaises, Running
  <2> DEFINE t == Below
  <2>2. /\ t \in Seq(FrameType) /\ t # <<>> /\ Linked(t)
        /\ Len(t) = Len(frames) - 1
    BY <2>1, TopFacts, PopFrame, PopLinked DEF Below, Inv
  <2>3. Last(t) \in FrameType /\ Last(t) = t[Len(t)] /\ Last(t).kind \in InC
    <3>1. frames[Len(frames) - 1].kind \in InC
      BY <2>1, TopFacts DEF Inv, Linked, Link
    <3>2. Last(t) = frames[Len(frames) - 1]
      BY <2>1, <2>2, TopFacts, PopFrame DEF Below
    <3> QED
      BY <2>2, <3>1, <3>2, PopFrame
  <2> HIDE DEF t
  <2>4. PICK e \in Errors : /\ pending' = e
                            /\ frames' = [t EXCEPT ![Len(t)].due = e]
    BY <1>21 DEF PythonRaises, t
  <2> DEFINE f == [Last(t) EXCEPT !.due = e]
  <2>5. /\ f \in FrameType /\ f.kind = Last(t).kind /\ f.found = Last(t).found
        /\ f.due = e
    BY <2>3, <2>4 DEF FrameType, Error
  <2>6. frames' = [t EXCEPT ![Len(t)] = f]
    BY <2>3, <2>4
  <2> HIDE DEF f
  <2>7. /\ frames' \in Seq(FrameType) /\ Len(frames') = Len(t)
        /\ Last(frames') = f
    BY <2>2, <2>5, <2>6, SetFrame
  <2>8. Linked(frames)'
    <3>1. Linked([t EXCEPT ![Len(t)] = f])
      BY <2>2, <2>3, <2>5, SetLinked
    <3> QED
      BY <2>6, <3>1
  <2>9. TypeOK'
    <3>1. Len(frames) \in Nat /\ Len(frames) <= MaxFrames /\ MaxFrames \in Nat
      BY <2>1, TopFacts, CallsAssumption DEF Inv, TypeOK
    <3>2. Len(frames') <= MaxFrames
      BY <2>2, <2>7, <3>1
    <3>3. depth' \in 0..Cap /\ pending' \in Error \cup {None}
      BY <1>0, <1>21, <2>4 DEF PythonRaises, Error
    <3> QED
      BY <2>7, <3>2, <3>3 DEF TypeOK, FrameType
  <2> QED
    BY <2>4, <2>5, <2>7, <2>8, <2>9 DEF Inv, Synced, Top
<1> QED
  BY <1>1, <1>2, <1>3, <1>4, <1>5, <1>6, <1>8, <1>9, <1>10, <1>11, <1>12, <1>13,
     <1>14, <1>15, <1>16, <1>18, <1>19, <1>20, <1>21 DEF Next

\* Inv holds in every reachable state, while callbacks and destructors behave.
THEOREM Invariance ==
    ASSUME ~WeakReenters, ~DestructorsThrow
    PROVE  Spec => []Inv
<1>1. Inv /\ [Next]_vars => Inv'
  BY StepInv
<1> QED
  BY InitInv, <1>1, PTL DEF Spec

----------------------------------------------------------------------------
(* The properties. *)

LEMMA InvMeaning == Inv => TypeOK /\ ErrorIsDue /\ PythonIsClean
<1> SUFFICES ASSUME Inv PROVE ErrorIsDue /\ PythonIsClean
  BY DEF Inv
<1>1. ErrorIsDue
  BY CFrame, TopFacts DEF ErrorIsDue
<1>2. PythonIsClean
  BY TopFacts DEF PythonIsClean, Running
<1> QED
  BY <1>1, <1>2

\* A C function finds set exactly the error it is due, whatever destructors,
\* Python code and other C functions ran in between.
THEOREM ErrorsArrive ==
    ASSUME ~WeakReenters, ~DestructorsThrow
    PROVE  Spec => []ErrorIsDue
BY Invariance, InvMeaning, PTL

\* No error is set while Python code that C called runs.
THEOREM PythonStaysClean ==
    ASSUME ~WeakReenters, ~DestructorsThrow
    PROVE  Spec => []PythonIsClean
BY Invariance, InvMeaning, PTL

----------------------------------------------------------------------------
(* The guard. *)

LEMMA PopNoScope ==
    ASSUME NEW s \in Seq(FrameType), s # <<>>, NoScope(Front(s)),
           Last(s).kind \notin Scoped
    PROVE  NoScope(s)
<1> SUFFICES ASSUME NEW d \in 1..Len(s) PROVE s[d].kind \notin Scoped
  BY DEF NoScope
<1>1. /\ Len(Front(s)) = Len(s) - 1 /\ Front(s) \in Seq(FrameType)
      /\ \A i \in 1..(Len(s) - 1) : Front(s)[i] = s[i]
      /\ Len(s) \in Nat /\ Last(s) = s[Len(s)]
  BY PopFrame
<1>2. CASE d = Len(s)
  BY <1>1, <1>2
<1>3. CASE d \in 1..(Len(s) - 1)
  <2>1. d \in DOMAIN Front(s)
    BY <1>1, <1>3
  <2> QED
    BY <1>1, <1>3, <2>1 DEF NoScope
<1> QED
  BY <1>1, <1>2, <1>3

\* What a step does to the stack and to the counter.
Pushes(f) ==
    /\ frames' = Append(frames, f) /\ Room /\ f.entered = 0 /\ depth' = depth
    /\ f.kind = "python" => frames # <<>>

Counts(f) ==
    \/ f.entered = Top.entered /\ depth' = depth
    \/ /\ f.entered = Top.entered + 1 /\ depth < Cap /\ depth' = depth + 1
       /\ Top.kind = "init" => InitRecurses
    \/ /\ Top.entered > 0 /\ f.entered = Top.entered - 1
       /\ depth' = IF depth > 0 THEN depth - 1 ELSE depth

Sets(f) ==
    /\ frames # <<>> /\ Top.kind \in InC
    /\ frames' = [frames EXCEPT ![Len(frames)] = f] /\ f.kind = Top.kind
    /\ Counts(f)

Pops ==
    /\ frames # <<>> /\ frames' = Below
    /\ \/ Top.kind \in Scoped /\ depth' = DepthAfter(Below)
       \/ Top.kind \notin Scoped /\ depth' = depth

Raises(f) ==
    /\ frames # <<>> /\ Top.kind = "python" /\ Below # <<>>
    /\ frames' = [Below EXCEPT ![Len(Below)] = f]
    /\ f.kind = Last(Below).kind /\ f.entered = Last(Below).entered /\ depth' = depth

\* The frames are well formed, and Python code never lies at the bottom: it was
\* called from C.
Typed ==
    /\ TypeOK
    /\ \A d \in 1..Len(frames) : frames[d].kind = "python" => d > 1

LEMMA TypedTop ==
    ASSUME Typed, frames # <<>>
    PROVE  /\ frames \in Seq(FrameType) /\ Len(frames) \in Nat /\ Len(frames) > 0
           /\ Top = frames[Len(frames)] /\ Top \in FrameType
           /\ Top.kind = "python" => Len(frames) > 1
<1>1. frames \in Seq(FrameType)
  BY DEF Typed, TypeOK, FrameType
<1> QED
  BY <1>1, PopFrame DEF Top, Typed

LEMMA PushShape ==
    ASSUME Room, NEW k \in InC \cup {"python", "callback"}, NEW e \in Error \cup {None},
           frames' = Append(frames, Frame(k, e)), UNCHANGED depth,
           k = "python" => frames # <<>>
    PROVE  \E f \in FrameType : Pushes(f)
<1>1. Frame(k, e) \in FrameType /\ Frame(k, e).entered = 0 /\ Frame(k, e).kind = k
  BY DEF Frame, FrameType
<1> QED
  BY <1>1 DEF Pushes

LEMMA ReportShape ==
    ASSUME Typed, CRuns, NEW e \in Error \cup {None}, Report(e), UNCHANGED depth
    PROVE  \E f \in FrameType : Sets(f)
<1> DEFINE f == [Top EXCEPT !.due = e]
<1>1. f \in FrameType /\ f.kind = Top.kind /\ f.entered = Top.entered
  BY TypedTop, CFrame DEF FrameType
<1>2. frames' = [frames EXCEPT ![Len(frames)] = f]
  BY TypedTop, CFrame DEF Report
<1> QED
  BY <1>1, <1>2, CFrame DEF Sets, Counts

LEMMA StepShape ==
    ASSUME Typed, Next
    PROVE  /\ pending' \in Error \cup {None}
           /\ \/ \E f \in FrameType : Pushes(f)
              \/ \E f \in FrameType : Sets(f)
              \/ Pops
              \/ \E f \in FrameType : Raises(f)
<1> DEFINE Shape == \/ \E f \in FrameType : Pushes(f)
                    \/ \E f \in FrameType : Sets(f)
                    \/ Pops
                    \/ \E f \in FrameType : Raises(f)
<1>0. depth \in 0..Cap /\ Cap \in Nat /\ pending \in Error \cup {None}
  BY CallsAssumption DEF Typed, TypeOK
<1>1. Due \in Error \cup {None}
  BY <1>0, TypedTop DEF Due, FrameType
<1>2. ASSUME CRuns
      PROVE  /\ Top \in FrameType /\ frames # <<>> /\ Top.kind \in InC
             /\ frames \in Seq(FrameType) /\ Len(frames) \in Nat /\ Len(frames) > 0
             /\ Top = frames[Len(frames)]
  BY <1>2, TypedTop, CFrame
<1>3. CASE Call
  BY <1>0, <1>3, PushShape DEF Call, Enters, Entry, InC, Scoped
<1>4. CASE LoadModule
  <2>1. frames' = Append(frames, Frame("init", Due))
    BY <1>4 DEF LoadModule
  <2> QED
    BY <1>0, <1>1, <1>4, <2>1, PushShape DEF LoadModule, InC, Scoped
<1>5. CASE Dealloc
  BY <1>0, <1>1, <1>5, PushShape DEF Dealloc, InC, Scoped
<1>6. CASE GcFinalize
  BY <1>0, <1>1, <1>6, PushShape DEF GcFinalize, Enters, InC, Scoped
<1>7. CASE ReclaimDead
  <2>1. frames' = Append(frames, Frame("reclaim", Due))
    BY <1>7 DEF ReclaimDead
  <2> QED
    BY <1>0, <1>1, <1>7, <2>1, PushShape DEF ReclaimDead, InC, Scoped
<1>8. CASE SetError
  <2>1. PICK e \in Errors : Report(e)
    BY <1>8 DEF SetError
  <2> QED
    BY <1>8, <2>1, ReportShape DEF SetError, Error, Report
<1>9. CASE Clear
  BY <1>9, ReportShape DEF Clear, Report
<1>10. CASE Fetch
  <2> DEFINE f == [Top EXCEPT !.saved = pending, !.due = None]
  <2>1. f \in FrameType /\ f.kind = Top.kind /\ f.entered = Top.entered
    BY <1>0, <1>2, <1>10 DEF FrameType, Fetch
  <2>2. frames' = [frames EXCEPT ![Len(frames)] = f]
    BY <1>2, <1>10 DEF Fetch
  <2> QED
    BY <1>2, <1>10, <2>1, <2>2 DEF Fetch, Sets, Counts
<1>11. CASE Restore
  <2> DEFINE f == [Top EXCEPT !.saved = Unsaved, !.due = Top.saved]
  <2>1. f \in FrameType /\ f.kind = Top.kind /\ f.entered = Top.entered
    BY <1>2, <1>11 DEF FrameType, Restore
  <2>2. frames' = [frames EXCEPT ![Len(frames)] = f]
    BY <1>2, <1>11 DEF Restore
  <2>3. pending' \in Error \cup {None}
    BY <1>2, <1>11 DEF FrameType, Restore
  <2> QED
    BY <1>2, <1>11, <2>1, <2>2, <2>3 DEF Restore, Sets, Counts
<1>12. CASE Chain
  <2> DEFINE due == IF Top.due # None THEN Top.due ELSE Top.saved
             f == [Top EXCEPT !.saved = Unsaved, !.due = due]
  <2>1. f \in FrameType /\ f.kind = Top.kind /\ f.entered = Top.entered
    BY <1>2, <1>12 DEF FrameType, Chain
  <2>2. frames' = [frames EXCEPT ![Len(frames)] = f]
    BY <1>2, <1>12 DEF Chain
  <2>3. pending' \in Error \cup {None}
    BY <1>0, <1>2, <1>12 DEF FrameType, Chain
  <2> QED
    BY <1>2, <1>12, <2>1, <2>2, <2>3 DEF Chain, Sets, Counts
<1>13. CASE EnterRecursiveCall
  <2>1. CASE ~Within(depth)
    BY <1>13, <2>1, ReportShape DEF EnterRecursiveCall, Guards, Error, Report
  <2>2. CASE Within(depth)
    <3> DEFINE f == [Top EXCEPT !.entered = @ + 1]
    <3>1. f \in FrameType /\ f.kind = Top.kind /\ f.entered = Top.entered + 1
      BY <1>2, <1>13 DEF FrameType, EnterRecursiveCall, Guards
    <3>2. frames' = [frames EXCEPT ![Len(frames)] = f]
      BY <1>2, <1>13, <2>2 DEF EnterRecursiveCall, Guards
    <3> QED
      BY <1>0, <1>2, <1>13, <2>2, <3>1, <3>2
      DEF EnterRecursiveCall, Guards, Within, Sets, Counts
  <2> QED
    BY <2>1, <2>2
<1>14. CASE LeaveRecursiveCall
  <2> DEFINE f == [Top EXCEPT !.entered = @ - 1]
  <2>0. Top \in FrameType /\ Top.entered - 1 \in Nat
    <3>1. Top \in FrameType /\ Top.entered \in Nat /\ Top.entered > 0
      BY <1>2, <1>14 DEF FrameType, LeaveRecursiveCall
    <3> QED
      BY <3>1
  <2>1. f \in FrameType /\ f.kind = Top.kind /\ f.entered = Top.entered - 1
    BY <2>0 DEF FrameType
  <2>2. frames' = [frames EXCEPT ![Len(frames)] = f]
    BY <1>2, <1>14 DEF LeaveRecursiveCall
  <2> QED
    BY <1>0, <1>2, <1>14, <2>1, <2>2 DEF LeaveRecursiveCall, Sets, Counts
<1>15. CASE CallPython
  BY <1>0, <1>2, <1>15, PushShape DEF CallPython
<1>16. CASE CallWeak
  <2>1. CRuns
    BY <1>16 DEF CallWeak, CRuns, InC, Scoped, Destructor
  <2>2. Top.due \in Error \cup {None}
    BY <1>2, <2>1 DEF FrameType
  <2> QED
    BY <1>0, <1>16, <2>2, PushShape DEF CallWeak
<1>17. CASE Return \/ Unwind
  <2>1. CRuns /\ Leave /\ pending' \in {pending, Left(Top)}
    BY <1>17 DEF Return, Unwind
  <2>2. Left(Top) \in Error \cup {None}
    BY <1>0, <1>2, <2>1 DEF Left, Thrown, FrameType
  <2>3. Pops
    BY <1>2, <2>1 DEF Leave, Pops
  <2> QED
    BY <1>0, <2>1, <2>2, <2>3
<1>18. CASE PythonReturns
  BY <1>0, <1>18 DEF PythonReturns, Running, Scoped, Pops
<1>19. CASE PythonRaises
  <2>1. frames # <<>> /\ Top.kind = "python"
    BY <1>19 DEF PythonRaises, Running
  <2> DEFINE t == Below
  <2>2. t \in Seq(FrameType) /\ Len(t) = Len(frames) - 1 /\ Len(frames) > 1
    BY <2>1, TypedTop, PopFrame DEF Below
  <2> HIDE DEF t
  <2>3. t # <<>> /\ Last(t) \in FrameType /\ Last(t) = t[Len(t)]
    BY <2>2, PopFrame
  <2>4. PICK e \in Errors : pending' = e /\ frames' = [t EXCEPT ![Len(t)].due = e]
    BY <1>19 DEF PythonRaises, t
  <2> DEFINE f == [Last(t) EXCEPT !.due = e]
  <2>5. f \in FrameType /\ f.kind = Last(t).kind /\ f.entered = Last(t).entered
    BY <2>3, <2>4 DEF FrameType, Error
  <2>6. frames' = [t EXCEPT ![Len(t)] = f]
    BY <2>3, <2>4
  <2> HIDE DEF f
  <2>7. Raises(f)
    BY <1>19, <2>1, <2>3, <2>5, <2>6 DEF Raises, t, PythonRaises
  <2> QED
    BY <2>4, <2>5, <2>7 DEF Error
<1> HIDE DEF Shape
<1> QED
  BY <1>3, <1>4, <1>5, <1>6, <1>7, <1>8, <1>9, <1>10, <1>11, <1>12, <1>13, <1>14, <1>15,
     <1>16, <1>17, <1>18, <1>19 DEF Next

\* The frame that runs after a step, and the frames below it.
LEMMA TypedStep ==
    ASSUME Typed, [Next]_vars
    PROVE  Typed'
<1>0. frames \in Seq(FrameType) /\ depth \in 0..Cap /\ Cap \in Nat /\ MaxFrames \in Nat
      /\ Len(frames) \in Nat /\ Len(frames) <= MaxFrames
  BY CallsAssumption DEF Typed, TypeOK, FrameType
<1>1. CASE UNCHANGED vars
  BY <1>1 DEF vars, Typed, TypeOK
<1>2. CASE Next
  <2>1. pending' \in Error \cup {None}
    BY <1>2, StepShape
  <2>2. ASSUME NEW f \in FrameType, Pushes(f) PROVE Typed'
    <3>1. /\ frames' \in Seq(FrameType) /\ Len(frames') = Len(frames) + 1
          /\ frames'[Len(frames) + 1] = f
          /\ \A d \in 1..Len(frames) : frames'[d] = frames[d]
      BY <1>0, <2>2, PushFrame DEF Pushes
    <3>2. Len(frames') <= MaxFrames /\ depth' \in 0..Cap
      BY <1>0, <2>2, <3>1 DEF Pushes, Room
    <3>3. f.kind = "python" => Len(frames) > 0
      BY <1>0, <2>2 DEF Pushes
    <3> QED
      BY <1>0, <2>1, <3>1, <3>2, <3>3 DEF Typed, TypeOK, FrameType
  <2>3. ASSUME NEW f \in FrameType, Sets(f) PROVE Typed'
    <3>1. /\ frames' \in Seq(FrameType) /\ Len(frames') = Len(frames)
          /\ frames'[Len(frames)] = f
          /\ \A d \in 1..(Len(frames) - 1) : frames'[d] = frames[d]
      BY <1>0, <2>3, SetFrame DEF Sets
    <3>2. depth' \in 0..Cap
      BY <1>0, <2>3 DEF Sets, Counts
    <3>3. f.kind # "python"
      BY <2>3 DEF Sets, InC, Scoped
    <3> QED
      BY <1>0, <2>1, <3>1, <3>2, <3>3 DEF Typed, TypeOK, FrameType
  <2>4. ASSUME Pops PROVE Typed'
    <3>1. /\ frames' \in Seq(FrameType) /\ Len(frames') = Len(frames) - 1
          /\ \A d \in 1..(Len(frames) - 1) : frames'[d] = frames[d]
      BY <1>0, <2>4, PopFrame DEF Pops, Below
    <3>2. depth' \in 0..Cap
      BY <1>0, <2>4 DEF Pops, DepthAfter
    <3> QED
      BY <1>0, <2>1, <3>1, <3>2 DEF Typed, TypeOK, FrameType
  <2>5. ASSUME NEW f \in FrameType, Raises(f) PROVE Typed'
    <3>1. /\ Below \in Seq(FrameType) /\ Len(Below) = Len(frames) - 1 /\ Below # <<>>
          /\ \A d \in 1..(Len(frames) - 1) : Below[d] = frames[d]
          /\ Last(Below) = Below[Len(Below)]
      BY <1>0, <2>5, PopFrame DEF Raises, Below
    <3>2. /\ frames' \in Seq(FrameType) /\ Len(frames') = Len(Below)
          /\ frames'[Len(Below)] = f
          /\ \A d \in 1..(Len(Below) - 1) : frames'[d] = Below[d]
      BY <2>5, <3>1, SetFrame DEF Raises
    <3>3. f.kind = Below[Len(Below)].kind /\ depth' = depth
      BY <2>5, <3>1 DEF Raises
    <3>4. \A d \in 1..Len(frames') : d \in 1..Len(frames) /\ frames'[d].kind = frames[d].kind
      BY <1>0, <3>1, <3>2, <3>3
    <3>5. Len(frames') <= MaxFrames
      BY <1>0, <3>1, <3>2
    <3> QED
      BY <1>0, <2>1, <3>2, <3>3, <3>4, <3>5 DEF Typed, TypeOK, FrameType
  <2> QED
    BY <1>2, <2>2, <2>3, <2>4, <2>5, StepShape
<1> QED
  BY <1>1, <1>2

\* Frames, error and counter are typed whatever callbacks and destructors do.
THEOREM TypedInvariance == Spec => []Typed
<1>1. Init => Typed
  <2> SUFFICES ASSUME Init PROVE Typed
    OBVIOUS
  <2>1. frames = <<>> /\ frames \in Seq(FrameType) /\ Len(frames) = 0
    BY DEF Init
  <2> QED
    BY <2>1, CallsAssumption DEF Init, Typed, TypeOK, FrameType
<1>2. Typed /\ [Next]_vars => Typed'
  BY TypedStep
<1> QED
  BY <1>1, <1>2, PTL DEF Spec

\* The frames stay well formed and the counter in its range, for any errors and
\* any nesting, whatever callbacks and destructors do.
THEOREM TypeCorrect == Spec => []TypeOK
<1>1. Typed => TypeOK
  BY DEF Typed
<1> QED
  BY <1>1, TypedInvariance, PTL

\* Outside every scope the guard is at zero: what an initialisation, which has
\* no scope, does not count, no scope need take back.
THEOREM RestStep ==
    ASSUME Typed, AtRest, [Next]_vars, ~InitRecurses
    PROVE  AtRest'
<1> SUFFICES ASSUME NoScope(frames') PROVE depth' = 0
  BY DEF AtRest
<1>0. frames \in Seq(FrameType) /\ depth \in 0..Cap
  BY DEF Typed, TypeOK, FrameType
<1>1. CASE UNCHANGED vars
  BY <1>1 DEF vars, AtRest
<1>2. ASSUME NEW f \in FrameType, Pushes(f) PROVE depth' = 0
  <2>1. NoScope(frames)
    BY <1>0, <1>2, PushFrame DEF NoScope, Pushes
  <2> QED
    BY <1>2, <2>1 DEF AtRest, Pushes
<1>3. ASSUME NEW f \in FrameType, Sets(f) PROVE depth' = 0
  <2>1. /\ Len(frames') = Len(frames) /\ frames'[Len(frames)] = f
        /\ \A d \in 1..(Len(frames) - 1) : frames'[d] = frames[d]
    BY <1>0, <1>3, SetFrame DEF Sets
  <2>2. /\ Len(frames) \in Nat /\ Len(frames) > 0 /\ Top = frames[Len(frames)]
        /\ f.kind = Top.kind
    BY <1>3, TypedTop DEF Sets
  <2>3. NoScope(frames)
    BY <1>0, <2>1, <2>2 DEF NoScope
  <2>4. Top.kind = "init" /\ depth = 0
    BY <1>0, <1>3, <2>2, <2>3 DEF NoScope, AtRest, Sets, InC
  <2> QED
    BY <1>3, <2>4 DEF Sets, Counts
<1>4. ASSUME Pops PROVE depth' = 0
  <2>1. frames' = Below /\ NoScope(Below) /\ frames # <<>>
    BY <1>4 DEF Pops
  <2>2. CASE Top.kind \in Scoped
    BY <1>4, <2>1, <2>2 DEF Pops, DepthAfter
  <2>3. CASE Top.kind \notin Scoped
    <3>1. NoScope(frames)
      BY <1>0, <2>1, <2>3, PopNoScope DEF Below, Top
    <3> QED
      BY <1>4, <2>3, <3>1 DEF Pops, AtRest
  <2> QED
    BY <2>2, <2>3
<1>5. ASSUME NEW f \in FrameType, Raises(f) PROVE depth' = 0
  <2>1. /\ Below \in Seq(FrameType) /\ Below # <<>> /\ Last(Below) = Below[Len(Below)]
        /\ Len(Below) \in Nat /\ Len(Below) > 0
    BY <1>0, <1>5, PopFrame DEF Raises, Below
  <2>2. /\ Len(frames') = Len(Below) /\ frames'[Len(Below)] = f /\ frames' \in Seq(FrameType)
        /\ \A d \in 1..(Len(Below) - 1) : frames'[d] = Below[d]
    BY <1>5, <2>1, SetFrame DEF Raises
  <2>3. NoScope(Below)
    BY <1>5, <2>1, <2>2 DEF NoScope, Raises
  <2>4. NoScope(frames)
    BY <1>0, <1>5, <2>3, PopNoScope DEF Raises, Below, Top, Scoped
  <2> QED
    BY <1>5, <2>4 DEF AtRest, Raises
<1> QED
  BY <1>1, <1>2, <1>3, <1>4, <1>5, StepShape

\* With no C frame running the guard is at zero, whatever unwound its frames, so
\* a drifted counter refuses no later call.
THEOREM GuardRecovers ==
    ASSUME ~InitRecurses
    PROVE  Spec => []NotPoisoned
<1>1. Init => AtRest
  BY DEF Init, AtRest
<1>2. Typed /\ AtRest /\ [Next]_vars => AtRest'
  BY RestStep
<1>3. AtRest => NotPoisoned
  BY DEF AtRest, NotPoisoned, NoScope, InC
<1> QED
  BY TypedInvariance, <1>1, <1>2, <1>3, PTL DEF Spec

----------------------------------------------------------------------------
(* The limit. *)

\* Only what runs under a scope enters the guard.
Plain == \A d \in 1..Len(frames) : frames[d].kind \notin Scoped => frames[d].entered = 0

\* The counter is no less than C's recursion, over all the frames.
Sums(total) ==
    /\ Totals(total) /\ total[Len(frames)] <= depth
    /\ \A c, d \in 0..Len(frames) : c <= d => total[c] <= total[d]

Counted == \E total \in [0..Len(frames) -> Nat] : Sums(total)

LEMMA PlainStep ==
    ASSUME Typed, Plain, Next, ~InitRecurses
    PROVE  Plain'
<1>0. frames \in Seq(FrameType) /\ Len(frames) \in Nat
  BY DEF Typed, TypeOK, FrameType
<1>2. ASSUME NEW f \in FrameType, Pushes(f) PROVE Plain'
  <2>1. /\ Len(frames') = Len(frames) + 1 /\ frames'[Len(frames) + 1] = f /\ f.entered = 0
        /\ \A d \in 1..Len(frames) : frames'[d] = frames[d]
    BY <1>0, <1>2, PushFrame DEF Pushes
  <2> QED
    BY <1>0, <2>1 DEF Plain
<1>3. ASSUME NEW f \in FrameType, Sets(f) PROVE Plain'
  <2>1. /\ Len(frames') = Len(frames) /\ frames'[Len(frames)] = f
        /\ \A d \in 1..(Len(frames) - 1) : frames'[d] = frames[d]
    BY <1>0, <1>3, SetFrame DEF Sets
  <2>2. /\ Len(frames) > 0 /\ Top = frames[Len(frames)] /\ f.kind = Top.kind
        /\ Top.kind \in InC
    BY <1>3, TypedTop DEF Sets
  <2>3. f.kind \notin Scoped => Top.kind = "init" /\ Top.entered = 0
    BY <1>0, <2>2 DEF Plain, InC
  <2>4. f.kind \notin Scoped => f.entered = 0
    BY <1>3, <2>3 DEF Sets, Counts
  <2> QED
    BY <1>0, <2>1, <2>4 DEF Plain
<1>4. ASSUME Pops PROVE Plain'
  <2>1. /\ Len(frames') = Len(frames) - 1
        /\ \A d \in 1..(Len(frames) - 1) : frames'[d] = frames[d]
    BY <1>0, <1>4, PopFrame DEF Pops, Below
  <2> QED
    BY <1>0, <2>1 DEF Plain
<1>5. ASSUME NEW f \in FrameType, Raises(f) PROVE Plain'
  <2>1. /\ Below \in Seq(FrameType) /\ Len(Below) = Len(frames) - 1 /\ Below # <<>>
        /\ \A d \in 1..(Len(frames) - 1) : Below[d] = frames[d]
        /\ Last(Below) = Below[Len(Below)] /\ Len(Below) > 0
    BY <1>0, <1>5, PopFrame DEF Raises, Below
  <2>2. /\ Len(frames') = Len(Below) /\ frames'[Len(Below)] = f
        /\ \A d \in 1..(Len(Below) - 1) : frames'[d] = Below[d]
    BY <1>5, <2>1, SetFrame DEF Raises
  <2>3. \A d \in 1..Len(frames') : /\ d \in 1..Len(frames)
                                   /\ frames'[d].kind = frames[d].kind
                                   /\ frames'[d].entered = frames[d].entered
    BY <1>0, <1>5, <2>1, <2>2 DEF Raises
  <2> QED
    BY <2>3 DEF Plain
<1> QED
  BY <1>2, <1>3, <1>4, <1>5, StepShape

LEMMA CountedStep ==
    ASSUME Typed, Plain, Counted, Next, ~InitRecurses
    PROVE  Counted'
<1> DEFINE n == Len(frames)
<1>9. frames \in Seq(FrameType)
  BY DEF Typed, TypeOK, FrameType
<1>0. n \in Nat /\ depth \in Nat /\ DOMAIN frames = 1..n
      /\ \A d \in 1..n : frames[d] \in FrameType /\ frames[d].entered \in Nat
  <2>1. n \in Nat /\ DOMAIN frames = 1..n /\ \A d \in 1..n : frames[d] \in FrameType
    BY <1>9
  <2>2. \A f \in FrameType : f.entered \in Nat
    BY DEF FrameType
  <2>3. depth \in Nat
    BY CallsAssumption DEF Typed, TypeOK
  <2> QED
    BY <2>1, <2>2, <2>3
<1>1. PICK total \in [0..n -> Nat] :
           /\ total[0] = 0 /\ \A d \in 1..n : total[d] = total[d - 1] + frames[d].entered
           /\ total[n] <= depth
           /\ \A c, d \in 0..n : c <= d => total[c] <= total[d]
  BY <1>0 DEF Counted, Sums, Totals
<1>2. ASSUME NEW f \in FrameType, Pushes(f) PROVE Counted'
  <2>1. /\ frames' \in Seq(FrameType) /\ Len(frames') = n + 1 /\ frames'[n + 1] = f
        /\ f.entered = 0 /\ depth' = depth
        /\ \A d \in 1..n : frames'[d] = frames[d]
    BY <1>9, <1>2, PushFrame DEF Pushes
  <2> DEFINE t == [d \in 0..(n + 1) |-> IF d <= n THEN total[d] ELSE total[n]]
  <2> HIDE DEF n
  <2>2. t \in [0..(n + 1) -> Nat] /\ t[0] = 0 /\ t[n + 1] <= depth
        /\ \A c, d \in 0..(n + 1) : c <= d => t[c] <= t[d]
    BY <1>0, <1>1
  <2>3. \A d \in 1..(n + 1) : t[d] = t[d - 1] + frames'[d].entered
    BY <1>0, <1>1, <2>1
  <2>4. DOMAIN frames' = 1..(n + 1)
    BY <2>1
  <2> HIDE DEF t
  <2> QED
    BY <2>1, <2>2, <2>3, <2>4 DEF Counted, Sums, Totals
<1>3. ASSUME NEW f \in FrameType, Sets(f) PROVE Counted'
  <2>1. /\ frames' \in Seq(FrameType) /\ Len(frames') = n /\ frames'[n] = f
        /\ \A d \in 1..(n - 1) : frames'[d] = frames[d]
    BY <1>9, <1>3, SetFrame DEF Sets
  <2>2. /\ n > 0 /\ Top = frames[n] /\ Counts(f)
        /\ DOMAIN frames' = 1..n
    <3>1. n > 0 /\ Top = frames[n] /\ Counts(f)
      BY <1>3, TypedTop DEF Sets
    <3>2. DOMAIN frames' = 1..n
      BY <2>1
    <3> QED
      BY <3>1, <3>2
  <2>3. f.entered \in Nat
    BY DEF FrameType
  <2> DEFINE t == [d \in 0..n |-> IF d = n THEN total[n - 1] + f.entered ELSE total[d]]
  <2> HIDE DEF n
  <2>4. /\ total[n] = total[n - 1] + Top.entered /\ total[n - 1] \in Nat /\ total[n] \in Nat
        /\ Top.entered \in Nat
    BY <1>0, <1>1, <2>2
  <2> DEFINE a == total[n - 1]
             b == Top.entered
             c == f.entered
  <2>5. a + c <= depth' /\ depth' \in Nat
    <3>1. /\ a \in Nat /\ b \in Nat /\ c \in Nat /\ depth \in Nat /\ a + b <= depth
          /\ \/ c = b /\ depth' = depth
             \/ c = b + 1 /\ depth' = depth + 1
             \/ b > 0 /\ c = b - 1 /\ depth' = IF depth > 0 THEN depth - 1 ELSE depth
      BY <1>0, <1>1, <2>2, <2>3, <2>4 DEF Counts
    <3> HIDE DEF a, b, c
    <3> QED
      BY <3>1
  <2> HIDE DEF a, b, c
  <2>6. t \in [0..n -> Nat] /\ t[0] = 0 /\ t[n] <= depth'
    BY <1>0, <1>1, <2>2, <2>3, <2>4, <2>5 DEF a, c
  <2>7. ASSUME NEW i \in 0..n, NEW j \in 0..n, i <= j
        PROVE  t[i] <= t[j]
    <3>1. CASE j < n
      BY <1>0, <1>1, <2>7, <3>1
    <3>2. CASE j = n /\ i < n
      <4>1. total[i] <= total[n - 1] /\ total[i] \in Nat /\ i \in 0..n /\ n - 1 \in 0..n
        BY <1>0, <1>1, <2>2, <3>2
      <4>2. t[i] = total[i] /\ t[j] = total[n - 1] + f.entered
        BY <3>2
      <4> HIDE DEF t
      <4> QED
        BY <2>3, <2>4, <4>1, <4>2
    <3>3. CASE j = n /\ i = n
      BY <2>6, <3>3
    <3> QED
      BY <1>0, <2>7, <3>1, <3>2, <3>3
  <2>8. ASSUME NEW i \in 1..n
        PROVE  t[i] = t[i - 1] + frames'[i].entered
    <3>1. t[i - 1] = total[i - 1]
      BY <1>0, <2>8
    <3>2. CASE i = n
      BY <2>1, <3>1, <3>2
    <3>3. CASE i # n
      <4>1. i \in 1..(n - 1)
        BY <1>0, <3>3
      <4>2. t[i] = total[i] /\ frames'[i] = frames[i]
        BY <2>1, <3>3, <4>1
      <4> QED
        BY <1>1, <3>1, <4>2
    <3> QED
      BY <3>2, <3>3
  <2> HIDE DEF t
  <2> QED
    BY <2>1, <2>2, <2>6, <2>7, <2>8 DEF Counted, Sums, Totals
<1>4. ASSUME NEW s \in Seq(FrameType), frames' = s, n > 0, Len(s) = n - 1, depth' = depth,
             \A d \in 1..(n - 1) : s[d].entered = frames[d].entered
      PROVE  Counted'
  <2> DEFINE t == [d \in 0..(n - 1) |-> total[d]]
  <2>1. DOMAIN frames' = 1..(n - 1) /\ Len(frames') = n - 1
    BY <1>4
  <2> HIDE DEF n
  <2>2. t \in [0..(n - 1) -> Nat] /\ t[0] = 0
        /\ \A c, d \in 0..(n - 1) : c <= d => t[c] <= t[d]
    BY <1>0, <1>1, <1>4
  <2>3. t[n - 1] <= depth'
    <3>1. total[n - 1] <= total[n] /\ total[n - 1] \in Nat /\ total[n] \in Nat
      BY <1>0, <1>1, <1>4
    <3> QED
      BY <1>0, <1>1, <1>4, <3>1
  <2>4. \A d \in 1..(n - 1) : t[d] = t[d - 1] + frames'[d].entered
    BY <1>0, <1>1, <1>4
  <2> HIDE DEF t
  <2> QED
    BY <2>1, <2>2, <2>3, <2>4 DEF Counted, Sums, Totals
<1>5. ASSUME Pops PROVE Counted'
  <2>1. /\ frames' \in Seq(FrameType) /\ Len(frames') = n - 1 /\ n > 0
        /\ \A d \in 1..(n - 1) : frames'[d] = frames[d]
    BY <1>9, <1>5, PopFrame DEF Pops, Below
  <2>2. CASE depth' = depth
    BY <1>4, <2>1, <2>2
  <2>3. CASE depth' # depth
    <3>1. NoScope(frames') /\ depth' = 0
      BY <1>5, <2>3 DEF Pops, DepthAfter
    <3>2. Plain'
      BY PlainStep
    <3> DEFINE t == [d \in 0..(n - 1) |-> 0]
    <3>3. DOMAIN frames' = 1..(n - 1)
      BY <2>1
    <3>4. \A d \in 1..(n - 1) : frames'[d].entered = 0
      BY <2>1, <3>1, <3>2, <3>3 DEF NoScope, Plain
    <3> HIDE DEF n
    <3>5. t \in [0..(n - 1) -> Nat] /\ t[0] = 0 /\ t[n - 1] <= depth'
          /\ \A c, d \in 0..(n - 1) : c <= d => t[c] <= t[d]
      BY <1>0, <2>1, <3>1
    <3>6. \A d \in 1..(n - 1) : t[d] = t[d - 1] + frames'[d].entered
      BY <1>0, <2>1, <3>4
    <3> HIDE DEF t
    <3> QED
      BY <2>1, <3>3, <3>5, <3>6 DEF Counted, Sums, Totals
  <2> QED
    BY <2>2, <2>3
<1>6. ASSUME NEW f \in FrameType, Raises(f) PROVE Counted'
  <2>1. /\ Below \in Seq(FrameType) /\ Len(Below) = n - 1 /\ Below # <<>> /\ n > 0
        /\ \A d \in 1..(n - 1) : Below[d] = frames[d]
        /\ Last(Below) = Below[Len(Below)] /\ Len(Below) > 0
    BY <1>9, <1>6, PopFrame DEF Raises, Below
  <2>2. /\ frames' \in Seq(FrameType) /\ Len(frames') = Len(Below) /\ frames'[Len(Below)] = f
        /\ \A d \in 1..(Len(Below) - 1) : frames'[d] = Below[d]
    BY <1>6, <2>1, SetFrame DEF Raises
  <2>3. depth' = depth /\ f.entered = Below[n - 1].entered
    BY <1>6, <2>1 DEF Raises
  <2> HIDE DEF n
  <2>4. \A d \in 1..(n - 1) : frames'[d].entered = frames[d].entered
    <3>1. ASSUME NEW d \in 1..(n - 1) PROVE frames'[d].entered = frames[d].entered
      <4>1. Below[d] = frames[d]
        BY <2>1
      <4>2. CASE d = n - 1
        <5>1. frames'[d] = f
          BY <2>1, <2>2, <4>2
        <5>2. f.entered = Below[d].entered
          BY <2>3, <4>2
        <5> QED
          BY <4>1, <5>1, <5>2
      <4>3. CASE d # n - 1
        <5>1. n \in Nat /\ d \in 1..(Len(Below) - 1)
          BY <1>0, <2>1, <4>3
        <5>2. frames'[d] = Below[d]
          BY <2>2, <5>1
        <5> QED
          BY <4>1, <5>2
      <4> QED
        BY <4>2, <4>3
    <3> QED
      BY <3>1
  <2> QED
    BY <1>4, <2>1, <2>2, <2>3, <2>4
<1> QED
  BY <1>2, <1>3, <1>5, <1>6, StepShape

\* The Enters without Leave of all the frames never add up to more than the
\* limit: the counter runs ahead of them after an unwind, never behind.
THEOREM StackStaysBounded ==
    ASSUME ~InitRecurses
    PROVE  Spec => []StackBounded
<1> DEFINE I == Plain /\ Counted
<1>1. Init => I
  <2> SUFFICES ASSUME Init PROVE I
    OBVIOUS
  <2>1. Len(frames) = 0 /\ DOMAIN frames = {} /\ depth = 0
    BY DEF Init
  <2>2. Plain
    BY <2>1 DEF Plain
  <2>3. [d \in 0..0 |-> 0] \in [0..Len(frames) -> Nat] /\ Sums([d \in 0..0 |-> 0])
    BY <2>1 DEF Sums, Totals
  <2> QED
    BY <2>2, <2>3 DEF Counted
<1>2. Typed /\ I /\ [Next]_vars => I'
  <2> SUFFICES ASSUME Typed, I, [Next]_vars PROVE I'
    OBVIOUS
  <2>1. CASE UNCHANGED vars
    BY <2>1 DEF vars, Plain, Counted, Sums, Totals
  <2>2. CASE Next
    BY <2>2, PlainStep, CountedStep
  <2> QED
    BY <2>1, <2>2
<1>3. Typed /\ I => StackBounded
  <2> SUFFICES ASSUME Typed, Counted PROVE StackBounded
    OBVIOUS
  <2>1. PICK total \in [0..Len(frames) -> Nat] : Sums(total)
    BY DEF Counted
  <2>2. Len(frames) \in Nat /\ depth \in 0..Cap /\ Cap \in Nat
    BY CallsAssumption DEF Typed, TypeOK
  <2>3. \A d \in 0..Len(frames) : total[d] \in 0..Cap
    BY <2>1, <2>2 DEF Sums
  <2>4. total \in [0..Len(frames) -> 0..Cap]
    BY <2>3
  <2> QED
    BY <2>1, <2>4 DEF StackBounded, Sums
<1> QED
  BY <1>1, <1>2, <1>3, TypedInvariance, PTL DEF Spec

=============================================================================
