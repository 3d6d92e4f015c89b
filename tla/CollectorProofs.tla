-------------------------- MODULE CollectorProofs --------------------------
(***************************************************************************)
(* Theorems about Collector, for any heap, nesting and backoff.            *)
(*                                                                         *)
(* A settle marks, lets Python run, marks again and frees: what it frees   *)
(* is dead because nothing changes the roots between its last mark and the *)
(* frees.  Inv says so of the innermost job alone (Safe): whom it frees or *)
(* may free is out of reach.  A settle that is not innermost has a __del__ *)
(* running above it, so that when it is innermost again ran is TRUE and it *)
(* marks again before it frees.  That argument needs the nesting (Nested): *)
(* a job other than a callback starts on code only, so that no settle lies *)
(* under another without code in between.  Freeing takes edges away, which *)
(* only makes less reachable (ReachMono).                                  *)
(*                                                                         *)
(* It also needs both switches off.  A callback runs in the middle of the  *)
(* frees, and a __del__ that raises leaves ran FALSE: in either case what  *)
(* it bound may be freed.                                                  *)
(*                                                                         *)
(* That the collection between tests leaves nothing is another invariant,  *)
(* of its only job (Gathered): unless a root went, in which case it marks  *)
(* again, all the garbage there is is garbage it has still to look at.     *)
(***************************************************************************)
EXTENDS Collector, SequenceTheorems, FiniteSetTheorems, TLAPS

JobType == [kind : JobKinds, obj : Objs \cup {Nobody}, todo : SUBSET Objs,
            rest : SUBSET Objs, ran : BOOLEAN]

Python == {"del", "finalizer"}

\* The jobs that are code, which may start others.
Code == Python \cup IF CallbacksRun THEN {"callback"} ELSE {}

\* What the d-th job of a stack sits on.
Sits(s, d) ==
    /\ s[d].kind \in {"del", "sweep", "settle", "free"}
          => d = 1 \/ s[d - 1].kind \in Code
    /\ s[d].kind = "finalizer" => d > 1 /\ s[d - 1].kind = "settle"
    /\ s[d].kind = "callback" => d > 1 /\ s[d - 1].kind \in {"sweep", "free", "reclaim"}
    /\ s[d].kind = "reclaim" => d = 1

Nested(s) == \A d \in 1..Len(s) : Sits(s, d)

\* Whom a job frees, or may free.
Doomed(j) == {o \in Objs : o \in j.todo \cup j.rest \/ o = j.obj}

\* The roots of the collection between tests that do not change while it runs.
Kept == Roots \cup cheld \cup pendingDel

\* A is what the roots reach, B what those of the collection do.
SafeJob(j, A, B) ==
    /\ j.kind = "free" \/ (j.kind = "settle" /\ ~j.ran) => Doomed(j) \cap A = {}
    /\ j.kind = "reclaim" => Doomed(j) \cap B = {}

\* What the innermost job frees is dead.  Those further out have Python running
\* above them, and mark again when it is done.
Current(s) == IF Last(s).kind = "callback" THEN s[Len(s) - 1] ELSE Last(s)
Safe == jobs # <<>> => SafeJob(Current(jobs), Reach(Roots), Reach(Kept))

\* A struct that C counts is there.
CountedStay == cheld \cap released = {}

Shape == TypeOK /\ Nested(jobs) /\ CountedStay
Inv == Shape /\ Safe

----------------------------------------------------------------------------
(* The graph. *)

LEMMA ReachMono ==
    ASSUME NEW R, NEW S, R \subseteq S, NEW E, NEW F, \A q \in Objs : F[q] \subseteq E[q]
    PROVE  ReachAlong(R, F) \subseteq ReachAlong(S, E)
<1> SUFFICES ASSUME NEW o \in ReachAlong(R, F), NEW C \in SUBSET Objs,
                    S \subseteq C, \A q \in C : E[q] \subseteq C
             PROVE  o \in C
  BY DEF ReachAlong
<1>1. R \subseteq C /\ \A q \in C : F[q] \subseteq C
  OBVIOUS
<1> QED
  BY <1>1 DEF ReachAlong

\* Freeing takes edges away, and nothing else here adds any.
LEMMA SameReach ==
    ASSUME UNCHANGED <<holds, released>>, NEW R
    PROVE  Reach(R)' = Reach(R)
BY DEF Reach, Edges, Struct

LEMMA LessReach ==
    ASSUME UNCHANGED holds, released \subseteq released', Roots' = Roots
    PROVE  Reach(Roots)' \subseteq Reach(Roots)
<1>1. \A q \in Objs : Edges'[q] \subseteq Edges[q]
  BY DEF Edges, Struct
<1>2. ReachAlong(Roots', Edges') \subseteq ReachAlong(Roots, Edges)
  BY <1>1, ReachMono
<1> QED
  BY <1>2 DEF Reach

----------------------------------------------------------------------------
(* The stack. *)

LEMMA PushJob ==
    ASSUME NEW s \in Seq(JobType), NEW f \in JobType
    PROVE  /\ Append(s, f) \in Seq(JobType)
           /\ Len(Append(s, f)) = Len(s) + 1
           /\ Append(s, f)[Len(s) + 1] = f
           /\ \A d \in 1..Len(s) : Append(s, f)[d] = s[d]
           /\ Append(s, f) # <<>>
           /\ Last(Append(s, f)) = f
BY DEF Last

LEMMA PopJob ==
    ASSUME NEW s \in Seq(JobType), s # <<>>
    PROVE  /\ Front(s) \in Seq(JobType)
           /\ Len(Front(s)) = Len(s) - 1
           /\ \A d \in 1..(Len(s) - 1) : Front(s)[d] = s[d]
           /\ Len(s) \in Nat /\ Len(s) > 0
           /\ Last(s) = s[Len(s)] /\ Last(s) \in JobType
           /\ Front(s) # <<>> => Last(Front(s)) = s[Len(s) - 1] /\ Len(s) > 1
<1>1. Len(s) \in Nat /\ Len(s) > 0 /\ \A d \in 1..Len(s) : s[d] \in JobType
  OBVIOUS
<1> DEFINE n == Len(s) - 1
<1>2. n \in Nat /\ \A i \in 1..n : s[i] \in JobType
  BY <1>1
<1>3. /\ SubSeq(s, 1, Len(s) - 1) \in Seq(JobType)
      /\ Len(SubSeq(s, 1, Len(s) - 1)) = Len(s) - 1
      /\ \A d \in 1..(Len(s) - 1) : SubSeq(s, 1, Len(s) - 1)[d] = s[d]
  <2>1. n = Len(s) - 1
    OBVIOUS
  <2> HIDE DEF n
  <2>2. /\ SubSeq(s, 1, n) \in Seq(JobType)
        /\ Len(SubSeq(s, 1, n)) = IF 1 <= n THEN n - 1 + 1 ELSE 0
        /\ \A i \in 1..(n - 1 + 1) : SubSeq(s, 1, n)[i] = s[1 + i - 1]
    BY <1>2, SubSeqProperties
  <2>3. Len(SubSeq(s, 1, n)) = n /\ \A i \in 1..n : SubSeq(s, 1, n)[i] = s[i]
    BY <1>2, <2>2
  <2> QED
    BY <2>1, <2>2, <2>3
<1>4. Front(s) # <<>> => Len(Front(s)) > 0
  BY <1>3 DEF Front
<1>5. Last(s) = s[Len(s)] /\ Last(s) \in JobType
  BY <1>1 DEF Last
<1>6. Len(Front(s)) > 0 => Last(Front(s)) = s[Len(s) - 1] /\ Len(s) > 1
  BY <1>1, <1>3 DEF Front, Last
<1> QED
  BY <1>1, <1>3, <1>4, <1>5, <1>6 DEF Front

LEMMA SetJob ==
    ASSUME NEW s \in Seq(JobType), s # <<>>, NEW j \in JobType
    PROVE  /\ Replaced(s, j) \in Seq(JobType)
           /\ Len(Replaced(s, j)) = Len(s)
           /\ Replaced(s, j)[Len(s)] = j
           /\ \A d \in 1..(Len(s) - 1) : Replaced(s, j)[d] = s[d]
           /\ Replaced(s, j) # <<>>
           /\ Last(Replaced(s, j)) = j
BY DEF Last, Replaced

\* A job of the right kind on top of a stack.
LEMMA PushNested ==
    ASSUME NEW s \in Seq(JobType), Nested(s), NEW j \in JobType,
           j.kind \in {"del", "sweep", "settle", "free"}
              => s = <<>> \/ Last(s).kind \in Code,
           j.kind = "finalizer" => s # <<>> /\ Last(s).kind = "settle",
           j.kind = "callback" => s # <<>> /\ Last(s).kind \in {"sweep", "free", "reclaim"},
           j.kind = "reclaim" => s = <<>>
    PROVE  Nested(Append(s, j))
<1> DEFINE t == Append(s, j)
<1>1. /\ Len(t) = Len(s) + 1 /\ Len(s) \in Nat
      /\ t[Len(s) + 1] = j
      /\ \A d \in 1..Len(s) : t[d] = s[d]
  BY PushJob
<1>2. s # <<>> => Len(s) > 0 /\ t[Len(s)] = Last(s)
  BY <1>1 DEF Last
<1>3. s = <<>> => Len(s) = 0
  OBVIOUS
<1> HIDE DEF t
<1>4. SUFFICES ASSUME NEW d \in 1..Len(t) PROVE Sits(t, d)
  BY DEF Nested, t
<1>5. CASE d = Len(s) + 1
  BY <1>1, <1>2, <1>3, <1>5 DEF Sits
<1>6. CASE d \in 1..Len(s)
  <2>1. Sits(s, d)
    BY <1>6 DEF Nested
  <2>2. t[d] = s[d] /\ (d > 1 => t[d - 1] = s[d - 1])
    BY <1>1, <1>6
  <2> QED
    BY <2>1, <2>2, <1>6 DEF Sits
<1> QED
  BY <1>1, <1>4, <1>5, <1>6

LEMMA PopNested ==
    ASSUME NEW s \in Seq(JobType), s # <<>>, Nested(s)
    PROVE  Nested(Front(s))
<1> DEFINE t == Front(s)
<1>1. /\ Len(t) = Len(s) - 1 /\ Len(s) \in Nat
      /\ \A d \in 1..(Len(s) - 1) : t[d] = s[d]
  BY PopJob
<1> HIDE DEF t
<1>2. SUFFICES ASSUME NEW d \in 1..Len(t) PROVE Sits(t, d)
  BY DEF Nested, t
<1>3. Sits(s, d)
  BY <1>1 DEF Nested
<1>4. t[d] = s[d] /\ (d > 1 => t[d - 1] = s[d - 1])
  BY <1>1
<1> QED
  BY <1>3, <1>4 DEF Sits

\* The top job goes on.
LEMMA SetNested ==
    ASSUME NEW s \in Seq(JobType), s # <<>>, Nested(s), NEW j \in JobType,
           j.kind = Last(s).kind
    PROVE  Nested(Replaced(s, j))
<1> DEFINE t == Replaced(s, j)
<1>1. /\ Len(t) = Len(s) /\ Len(s) \in Nat
      /\ t[Len(s)] = j
      /\ \A d \in 1..(Len(s) - 1) : t[d] = s[d]
  BY SetJob
<1> HIDE DEF t
<1>2. SUFFICES ASSUME NEW d \in 1..Len(t) PROVE Sits(t, d)
  BY DEF Nested, t
<1>3. Sits(s, d)
  BY <1>1 DEF Nested
<1>4. t[d].kind = s[d].kind /\ (d > 1 => t[d - 1] = s[d - 1])
  BY <1>1 DEF Last
<1> QED
  BY <1>3, <1>4 DEF Sits

\* Only __del__ adds a local.
LEMMA PushLocals ==
    ASSUME NEW s \in Seq(JobType), NEW j \in JobType, j.kind \notin Python
    PROVE  LocalsOf(Append(s, j)) = LocalsOf(s)
<1> DEFINE t == Append(s, j)
<1>1. /\ t \in Seq(JobType)
      /\ Len(t) = Len(s) + 1 /\ Len(s) \in Nat
      /\ t[Len(s) + 1] = j
      /\ \A d \in 1..Len(s) : t[d] = s[d]
  BY PushJob
<1>2. DOMAIN t = 1..Len(t) /\ DOMAIN s = 1..Len(s)
  BY <1>1
<1> HIDE DEF t
<1>3. LocalsOf(t) = LocalsOf(s)
  BY <1>1, <1>2 DEF LocalsOf, Python
<1> QED
  BY <1>3 DEF t

LEMMA PopLocals ==
    ASSUME NEW s \in Seq(JobType), s # <<>>, Last(s).kind \notin Python
    PROVE  LocalsOf(Front(s)) = LocalsOf(s)
<1> DEFINE t == Front(s)
<1>1. /\ t \in Seq(JobType)
      /\ Len(t) = Len(s) - 1 /\ Len(s) \in Nat
      /\ s[Len(s)].kind \notin Python
      /\ \A d \in 1..(Len(s) - 1) : t[d] = s[d]
  BY PopJob
<1>2. DOMAIN t = 1..Len(t) /\ DOMAIN s = 1..Len(s)
  BY <1>1
<1> HIDE DEF t
<1>3. LocalsOf(t) = LocalsOf(s)
  BY <1>1, <1>2 DEF LocalsOf, Python
<1> QED
  BY <1>3 DEF t

LEMMA SetLocals ==
    ASSUME NEW s \in Seq(JobType), s # <<>>, NEW j \in JobType,
           j.kind = Last(s).kind, j.kind \notin Python
    PROVE  LocalsOf(Replaced(s, j)) = LocalsOf(s)
<1> DEFINE t == Replaced(s, j)
<1>1. /\ t \in Seq(JobType)
      /\ Len(t) = Len(s) /\ Len(s) \in Nat
      /\ t[Len(s)] = j /\ s[Len(s)].kind \notin Python
      /\ \A d \in 1..(Len(s) - 1) : t[d] = s[d]
  BY SetJob DEF Last
<1>2. DOMAIN t = 1..Len(t) /\ DOMAIN s = 1..Len(s)
  BY <1>1
<1> HIDE DEF t
<1>3. LocalsOf(t) = LocalsOf(s)
  BY <1>1, <1>2 DEF LocalsOf, Python
<1> QED
  BY <1>3 DEF t

----------------------------------------------------------------------------
(* Types and nesting. *)

\* The type invariant but for the stack.
Tables ==
    /\ near \subseteq MayName /\ far \subseteq MayKeep /\ cheld \subseteq MayCount
    /\ holds \in [Objs -> SUBSET Objs]
    /\ weak \subseteq Insts /\ released \subseteq Insts
    /\ pendingDel \subseteq Dels /\ pendingWeak \subseteq Insts
    /\ wait \in [Objs -> 0..MaxWait] /\ skip \in [Objs -> 0..MaxWait]
    /\ judged \in Objs \cup {Nobody} /\ changed \in BOOLEAN

Stack(s) == s \in Seq(JobType) /\ Nested(s)

LEMMA ShapeParts ==
    /\ Shape <=> Tables /\ Stack(jobs) /\ CountedStay
    /\ Shape' <=> Tables' /\ Stack(jobs)' /\ CountedStay'
BY DEF Shape, TypeOK, Tables, Stack, JobType

LEMMA MakeJob ==
    ASSUME NEW k \in JobKinds, NEW o \in Objs \cup {Nobody},
           NEW t \in SUBSET Objs, NEW r \in SUBSET Objs
    PROVE  /\ Job(k, o, t, r) \in JobType
           /\ Job(k, o, t, r).kind = k /\ Job(k, o, t, r).obj = o
           /\ Job(k, o, t, r).todo = t /\ Job(k, o, t, r).rest = r
           /\ Job(k, o, t, r).ran = FALSE
BY DEF Job, JobType

LEMMA TopFacts ==
    ASSUME Stack(jobs), jobs # <<>>
    PROVE  /\ Len(jobs) \in Nat /\ Len(jobs) > 0
           /\ Top = jobs[Len(jobs)] /\ Top \in JobType
           /\ Stack(Front(jobs))
           /\ Top.kind \in {"del", "sweep", "settle", "free"}
                 => Front(jobs) = <<>> \/ Last(Front(jobs)).kind \in Code
           /\ Top.kind = "finalizer"
                 => Front(jobs) # <<>> /\ Last(Front(jobs)).kind = "settle"
           /\ Top.kind = "callback"
                 => /\ Front(jobs) # <<>>
                    /\ Last(Front(jobs)) = jobs[Len(jobs) - 1]
                    /\ Last(Front(jobs)).kind \in {"sweep", "free", "reclaim"}
           /\ Top.kind = "reclaim" => Len(jobs) = 1 /\ Front(jobs) = <<>>
<1>1. /\ Len(jobs) \in Nat /\ Len(jobs) > 0
      /\ Top = jobs[Len(jobs)] /\ Top \in JobType
      /\ Front(jobs) \in Seq(JobType) /\ Len(Front(jobs)) = Len(jobs) - 1
      /\ Front(jobs) # <<>> => Last(Front(jobs)) = jobs[Len(jobs) - 1] /\ Len(jobs) > 1
  BY PopJob DEF Stack, Top
<1>2. Stack(Front(jobs))
  BY <1>1, PopNested DEF Stack
<1>3. Sits(jobs, Len(jobs))
  BY <1>1 DEF Stack, Nested
<1>4. Front(jobs) = <<>> <=> Len(jobs) = 1
  BY <1>1
<1> QED
  BY <1>1, <1>2, <1>3, <1>4 DEF Sits

LEMMA PushStack ==
    ASSUME NEW s, Stack(s), NEW j \in JobType,
           j.kind \in {"del", "sweep", "settle", "free"}
              => s = <<>> \/ Last(s).kind \in Code,
           j.kind = "finalizer" => s # <<>> /\ Last(s).kind = "settle",
           j.kind = "callback" => s # <<>> /\ Last(s).kind \in {"sweep", "free", "reclaim"},
           j.kind = "reclaim" => s = <<>>
    PROVE  Stack(Append(s, j)) /\ Append(s, j) # <<>> /\ Last(Append(s, j)) = j
BY PushJob, PushNested DEF Stack

LEMMA SetStack ==
    ASSUME NEW s, Stack(s), s # <<>>, NEW j \in JobType, j.kind = Last(s).kind
    PROVE  Stack(Replaced(s, j)) /\ Replaced(s, j) # <<>> /\ Last(Replaced(s, j)) = j
BY SetJob, SetNested DEF Stack

\* Settling, whatever the candidates.
LEMMA SettleShape ==
    ASSUME Tables, NEW s, Stack(s), s = <<>> \/ Last(s).kind \in Code,
           NEW names, NEW cands \in SUBSET Objs, Settle(s, names, cands)
    PROVE  /\ Stack(jobs)'
           /\ wait' \in [Objs -> 0..MaxWait] /\ skip' \in [Objs -> 0..MaxWait]
<1> DEFINE live == cands \cap Reach(names \cup far)
           dead == cands \ live
           j == Job("settle", Nobody, dead \cap pendingDel, dead)
<1>1. \A w \in 0..MaxWait : Longer(w) \in 0..MaxWait
  BY CollectorAssumption DEF Longer
<1>2. \A o \in Objs : Ticked(o) \in 0..MaxWait
  BY CollectorAssumption DEF Ticked, Tables
<1>3. wait' \in [Objs -> 0..MaxWait] /\ skip' \in [Objs -> 0..MaxWait]
  BY <1>1, <1>2 DEF Settle, Tables
<1>4. j \in JobType /\ j.kind = "settle"
  <2>1. dead \in SUBSET Objs /\ dead \cap pendingDel \in SUBSET Objs
    OBVIOUS
  <2> HIDE DEF dead
  <2> QED
    BY <2>1 DEF Job, JobType, JobKinds
<1>5. jobs' = Append(s, j)
  BY DEF Settle
<1>6. Stack(Append(s, j))
  <2> HIDE DEF j
  <2> QED
    BY <1>4, PushStack
<1>7. Stack(jobs)'
  BY <1>5, <1>6
<1> QED
  BY <1>3, <1>7

LEMMA UnbindShape ==
    ASSUME Tables, NEW s, Stack(s), s = <<>> \/ Last(s).kind \in Code,
           NEW names, NEW o, AfterUnbind(s, names, o)
    PROVE  /\ Stack(jobs)'
           /\ wait' \in [Objs -> 0..MaxWait] /\ skip' \in [Objs -> 0..MaxWait]
           /\ pendingWeak' \subseteq Insts /\ judged' \in Objs \cup {Nobody}
<1> DEFINE pending == pendingDel \cup pendingWeak # {}
           weakHere == Struct(o) /\ o \in weak
           trigger == IF weakHere \/ Sole(o) THEN {o} ELSE {}
           cands == trigger \cup (IF pending /\ ~FeedsCycle(o) THEN Ready(names, FALSE)
                                                            ELSE {})
<1>1. cands \in SUBSET Objs
  BY CollectorAssumption DEF Ready, Tables, Struct, Sole
<1>2. CASE jobs' = s /\ UNCHANGED <<wait, skip>>
  <2>1. Stack(jobs)'
    BY <1>2
  <2>2. pendingWeak' \subseteq Insts /\ judged' \in Objs \cup {Nobody}
    BY <1>2 DEF AfterUnbind, Tables, Struct
  <2> QED
    BY <1>2, <2>1, <2>2 DEF Tables
<1>3. CASE Settle(s, names, cands) /\ judged' = Nobody /\ UNCHANGED pendingWeak
  BY <1>1, <1>3, SettleShape DEF Tables
<1> QED
  BY <1>2, <1>3 DEF AfterUnbind

LEMMA MakeCallback ==
    ASSUME NEW o \in Objs
    PROVE  /\ Job("callback", o, {}, {}) \in JobType
           /\ Job("callback", o, {}, {}).kind = "callback"
BY DEF Job, JobType, JobKinds

LEMMA MakeFinalizer ==
    ASSUME NEW o \in Objs
    PROVE  /\ Job("finalizer", o, {}, {}) \in JobType
           /\ Job("finalizer", o, {}, {}).kind = "finalizer"
BY DEF Job, JobType, JobKinds

\* An instance with the wrapper's count alone has none of C's.
LEMMA SoleUncounted ==
    ASSUME Tables, NEW o
    PROVE  Sole(o) \in BOOLEAN /\ (Sole(o) => o \in Insts \ cheld)
<1> DEFINE owners == {j \in Insts \ released : o \in Owns[j]}
<1>1. IsFiniteSet(owners) /\ Cardinality(owners) \in Nat
  BY CollectorAssumption, FS_Subset, FS_CardinalityType
<1> HIDE DEF owners
<1>2. Count(o) = 1 + (IF o \in cheld THEN 1 ELSE 0) + Cardinality(owners)
  BY DEF Count, owners
<1> QED
  BY <1>1, <1>2 DEF Sole, Struct

LEMMA ReclaimStack ==
    ASSUME NEW t \in SUBSET Objs
    PROVE  Stack(<<Job("reclaim", Nobody, t, {})>>)
<1> DEFINE j == Job("reclaim", Nobody, t, {})
<1>1. j \in JobType /\ j.kind = "reclaim"
  BY DEF Job, JobType, JobKinds
<1>2. Stack(<<>>)
  BY DEF Stack, Nested
<1> HIDE DEF j
<1>3. Stack(Append(<<>>, j))
  BY <1>1, <1>2, PushStack
<1>4. Append(<<>>, j) = <<j>>
  OBVIOUS
<1> QED
  BY <1>3, <1>4 DEF j

\* The top job has one thing less to look at.
LEMMA Shrinks ==
    ASSUME Stack(jobs), jobs # <<>>, NEW o
    PROVE  LET j == [Top EXCEPT !.todo = @ \ {o}]
           IN  /\ j \in JobType /\ Stack(Replaced(jobs, j)) /\ Replaced(jobs, j) # <<>>
               /\ Last(Replaced(jobs, j)) = j /\ j.kind = Top.kind
               /\ Last(Replaced(jobs, j)).kind = Top.kind
<1> DEFINE j == [Top EXCEPT !.todo = @ \ {o}]
<1>1. j \in JobType /\ j.kind = Top.kind
  BY TopFacts DEF JobType
<1> HIDE DEF j
<1>2. /\ Stack(Replaced(jobs, j)) /\ Replaced(jobs, j) # <<>>
      /\ Last(Replaced(jobs, j)) = j
  BY <1>1, SetStack DEF Top
<1> QED
  BY <1>1, <1>2 DEF j

\* Clear leaves the job its kind, and all it names are ones it named.
LEMMA ClearTop ==
    ASSUME Stack(jobs), NEW o \in Objs, Clear(o)
    PROVE  \E j \in JobType :
             /\ j.kind = Top.kind /\ Doomed(j) \subseteq Doomed(Top)
             /\ \/ jobs' = Replaced(jobs, j)
                \/ jobs' = Append(Replaced(jobs, j), Job("callback", o, {}, {}))
<1> DEFINE sweeps == Doing("free") \/ Sole(o)
           j == [Top EXCEPT !.todo = @ \ {o},
                            !.obj = IF sweeps THEN o ELSE @,
                            !.rest = IF sweeps \/ ~Struct(o) THEN @ ELSE @ \cup {o}]
<1>1. jobs # <<>> /\ o \in Top.todo
  BY DEF Clear, Doing
<1>2. Top \in JobType
  BY <1>1, TopFacts
<1>3. j \in JobType /\ j.kind = Top.kind
  BY <1>2 DEF JobType
<1>4. Doomed(j) \subseteq Doomed(Top)
  BY <1>1, <1>2 DEF Doomed, JobType
<1>5. \/ jobs' = Replaced(jobs, j)
      \/ jobs' = Append(Replaced(jobs, j), Job("callback", o, {}, {}))
  BY DEF Clear
<1> QED
  BY <1>3, <1>4, <1>5

\* Code that runs is on top.
LEMMA RunsOn ==
    ASSUME Runs
    PROVE  jobs = <<>> \/ Last(jobs).kind \in Code
BY DEF Runs, Doing, Code, Python, Top

\* Every step keeps the types and the nesting, whatever the switches.
THEOREM StepShape ==
    ASSUME Shape, [Next]_vars
    PROVE  Shape'
<1>a. Tables /\ Stack(jobs) /\ CountedStay
  BY ShapeParts
<1>b. ASSUME UNCHANGED <<near, far, cheld, holds, released>>,
             weak' \subseteq weak, pendingDel' \subseteq pendingDel,
             pendingWeak' \subseteq pendingWeak, UNCHANGED <<wait, skip, judged>>,
             changed' \in BOOLEAN
      PROVE  Tables' /\ CountedStay'
  BY <1>a, <1>b DEF Tables, CountedStay
<1>1. CASE UNCHANGED vars
  BY <1>1 DEF vars, graph, Shape, TypeOK, Nested, Sits, CountedStay
<1>2. CASE Bind
  <2>1. Tables' /\ CountedStay'
    BY <1>2, <1>a, CollectorAssumption DEF Bind, graph, Tables, CountedStay
  <2>2. Stack(jobs)'
    BY <1>2, <1>a DEF Bind
  <2> QED
    BY <2>1, <2>2, ShapeParts
<1>3. CASE Rebind
  <2>1. Tables' /\ CountedStay'
    BY <1>3, <1>a, CollectorAssumption DEF Rebind, graph, Tables, CountedStay
  <2>2. Stack(jobs)'
    BY <1>3, <1>a DEF Rebind
  <2> QED
    BY <2>1, <2>2, ShapeParts
<1>4. CASE Keep
  <2>1. Tables' /\ CountedStay'
    BY <1>4, <1>a, CollectorAssumption DEF Keep, graph, Tables, CountedStay
  <2>2. Stack(jobs)'
    BY <1>4, <1>a DEF Keep
  <2> QED
    BY <2>1, <2>2, ShapeParts
<1>5. CASE SetAttr
  <2>1. Tables' /\ CountedStay'
    BY <1>5, <1>a, CollectorAssumption DEF SetAttr, graph, Tables, CountedStay,
           Visible, Reach, ReachAlong
  <2>2. Stack(jobs)'
    BY <1>5, <1>a DEF SetAttr
  <2> QED
    BY <2>1, <2>2, ShapeParts
<1>6. CASE CHold
  <2>1. Tables' /\ CountedStay'
    BY <1>6, <1>a, CollectorAssumption DEF CHold, graph, Tables, CountedStay
  <2>2. Stack(jobs)'
    BY <1>6, <1>a DEF CHold
  <2> QED
    BY <2>1, <2>2, ShapeParts
<1>7. CASE CDrop
  <2>1. Tables' /\ CountedStay'
    BY <1>7, <1>a, CollectorAssumption DEF CDrop, graph, Tables, CountedStay
  <2>2. Stack(jobs)'
    BY <1>7, <1>a DEF CDrop
  <2> QED
    BY <2>1, <2>2, ShapeParts
<1>8. CASE WeakRef
  <2>1. Tables' /\ CountedStay'
    BY <1>8, <1>a, CollectorAssumption DEF WeakRef, graph, Tables, CountedStay,
           Reach, ReachAlong, Visible
  <2>2. Stack(jobs)'
    BY <1>8, <1>a DEF WeakRef
  <2> QED
    BY <2>1, <2>2, ShapeParts
<1>9. CASE \E o \in Objs : DelFinalizable(o)
  <2>1. PICK o \in Objs : DelFinalizable(o)
    BY <1>9
  <2>2. Tables' /\ CountedStay'
    BY <2>1, <1>a DEF DelFinalizable, Tables, CountedStay
  <2>3. jobs = <<>> \/ Last(jobs).kind \in Code
    BY <2>1, RunsOn DEF DelFinalizable
  <2>4. /\ Job("del", o, {}, {}) \in JobType
        /\ Job("del", o, {}, {}).kind = "del"
    BY DEF Job, JobType, JobKinds
  <2>5. Stack(Append(jobs, Job("del", o, {}, {})))
    BY <1>a, <2>3, <2>4, PushStack
  <2>6. Stack(jobs)'
    BY <2>1, <2>5, <1>a DEF DelFinalizable
  <2> QED
    BY <2>2, <2>6, ShapeParts
<1>10. CASE \E o \in Objs : DelPlain(o)
  <2>1. PICK o \in Objs : DelPlain(o)
    BY <1>10
  <2>2. jobs = <<>> \/ Last(jobs).kind \in Code
    BY <2>1, RunsOn DEF DelPlain
  <2>3. AfterUnbind(jobs, (near \ {o}) \cup LocalsOf(jobs), o)
    BY <2>1 DEF DelPlain
  <2>4. /\ Stack(jobs)'
        /\ wait' \in [Objs -> 0..MaxWait] /\ skip' \in [Objs -> 0..MaxWait]
        /\ pendingWeak' \subseteq Insts /\ judged' \in Objs \cup {Nobody}
    BY <1>a, <2>2, <2>3, UnbindShape
  <2>5. Tables' /\ CountedStay'
    BY <2>1, <2>4, <1>a DEF DelPlain, Tables, CountedStay
  <2> QED
    BY <2>4, <2>5, ShapeParts
<1>11. CASE Deleted
  <2>1. jobs # <<>> /\ Top.kind = "del"
    BY <1>11 DEF Deleted, Doing
  <2>2. /\ Stack(Front(jobs)) /\ Top \in JobType
        /\ Front(jobs) = <<>> \/ Last(Front(jobs)).kind \in Code
    BY <1>a, <2>1, TopFacts
  <2>4. AfterUnbind(Front(jobs), near \cup LocalsOf(Front(jobs)), Top.obj)
    BY <1>11 DEF Deleted
  <2>5. /\ Stack(jobs)'
        /\ wait' \in [Objs -> 0..MaxWait] /\ skip' \in [Objs -> 0..MaxWait]
        /\ pendingWeak' \subseteq Insts /\ judged' \in Objs \cup {Nobody}
    BY <1>a, <2>2, <2>4, UnbindShape
  <2>6. Tables' /\ CountedStay'
    BY <1>11, <2>5, <1>a DEF Deleted, graph, Tables, CountedStay
  <2> QED
    BY <2>5, <2>6, ShapeParts
<1>12. CASE Finalized
  <2>1. jobs # <<>> /\ Top.kind = "finalizer"
    BY <1>12 DEF Finalized, Doing
  <2>2. /\ Stack(Front(jobs)) /\ Front(jobs) # <<>>
    BY <1>a, <2>1, TopFacts
  <2>3. PICK returns \in {TRUE, ~FinalizersRaise} :
          jobs' = Replaced(Front(jobs), [Last(Front(jobs)) EXCEPT !.ran = @ \/ returns])
    BY <1>12 DEF Finalized
  <2> DEFINE j == [Last(Front(jobs)) EXCEPT !.ran = @ \/ returns]
  <2>4. Last(Front(jobs)) \in JobType
    BY <2>2, PopJob DEF Stack
  <2>5. j \in JobType /\ j.kind = Last(Front(jobs)).kind
    BY <2>4, CollectorAssumption DEF JobType
  <2>6. Stack(Replaced(Front(jobs), j))
    <3> HIDE DEF j
    <3> QED
      BY <2>2, <2>5, SetStack
  <2>7. Stack(jobs)'
    BY <2>3, <2>6
  <2> QED
    BY <1>12, <1>a, <1>b, <2>7, ShapeParts DEF Finalized, graph, Tables
<1>13. CASE Leaves
  <2>1. jobs # <<>> /\ jobs' = Front(jobs)
    BY <1>13 DEF Leaves, Doing
  <2>2. Stack(jobs)'
    BY <1>a, <2>1, TopFacts
  <2> QED
    BY <1>13, <1>a, <1>b, <2>2, ShapeParts DEF Leaves, graph, Tables
<1>14. CASE Collect
  <2>1. jobs = <<>> \/ Last(jobs).kind \in Code
    BY <1>14, RunsOn DEF Collect
  <2> DEFINE j == Job("sweep", Nobody, weak \ Scanned, {})
  <2>2. j \in JobType /\ j.kind = "sweep"
    BY <1>a, CollectorAssumption DEF Job, JobType, JobKinds, Tables
  <2>3. jobs' = Append(jobs, j)
    BY <1>14 DEF Collect
  <2>4. Stack(Append(jobs, j))
    <3> HIDE DEF j
    <3> QED
      BY <1>a, <2>1, <2>2, PushStack
  <2>5. Stack(jobs)'
    BY <2>3, <2>4
  <2> QED
    BY <1>14, <1>a, <1>b, <2>5, ShapeParts DEF Collect, graph, Tables
<1>15. CASE Drain
  <2>1. jobs # <<>> /\ Top.kind = "sweep"
    BY <1>15 DEF Drain, Doing
  <2>2. /\ Stack(Front(jobs))
        /\ Front(jobs) = <<>> \/ Last(Front(jobs)).kind \in Code
    BY <1>a, <2>1, TopFacts
  <2>3. Ready(Names, TRUE) \in SUBSET Objs
    BY <1>a, CollectorAssumption DEF Ready, Tables
  <2>4. Settle(Front(jobs), Names, Ready(Names, TRUE))
    BY <1>15 DEF Drain
  <2>5. /\ Stack(jobs)'
        /\ wait' \in [Objs -> 0..MaxWait] /\ skip' \in [Objs -> 0..MaxWait]
    BY <1>a, <2>2, <2>3, <2>4, SettleShape
  <2>6. Tables' /\ CountedStay'
    BY <1>15, <1>a, <2>5 DEF Drain, graph, Tables, CountedStay
  <2> QED
    BY <2>5, <2>6, ShapeParts
<1>16. CASE MarkAgain
  <2>1. jobs # <<>> /\ Top.kind = "settle"
    BY <1>16 DEF MarkAgain, Doing
  <2>2. /\ Stack(Front(jobs)) /\ Top \in JobType
        /\ Front(jobs) = <<>> \/ Last(Front(jobs)).kind \in Code
    BY <1>a, <2>1, TopFacts
  <2> DEFINE j == Job("free", Nobody, StillDead(Top.rest, Top.ran), {})
  <2>3. j \in JobType /\ j.kind = "free"
    BY <2>2 DEF Job, JobType, JobKinds, StillDead
  <2>4. jobs' = Append(Front(jobs), j)
    BY <1>16 DEF MarkAgain
  <2>5. Stack(Append(Front(jobs), j))
    <3> HIDE DEF j
    <3> QED
      BY <2>2, <2>3, PushStack
  <2>6. Stack(jobs)'
    BY <2>4, <2>5
  <2> QED
    BY <1>16, <1>a, <1>b, <2>6, ShapeParts DEF MarkAgain, graph, Tables
<1>17. CASE Release
  <2>1. jobs # <<>>
    BY <1>17 DEF Release, Doing
  <2> DEFINE j == [Top EXCEPT !.obj = Nobody, !.ran = @ \/ Sole(Top.obj)]
  <2>2. Top \in JobType
    BY <1>a, <2>1, TopFacts
  <2>3. Sole(Top.obj) \in BOOLEAN /\ (Sole(Top.obj) => Top.obj \in Insts \ cheld)
    BY <1>a, SoleUncounted
  <2>4. j \in JobType /\ j.kind = Last(jobs).kind
    BY <2>2, <2>3 DEF JobType, Top
  <2>5. jobs' = Replaced(jobs, j)
    BY <1>17 DEF Release
  <2>6. Stack(Replaced(jobs, j))
    <3> HIDE DEF j
    <3> QED
      BY <1>a, <2>1, <2>4, SetStack
  <2>7. Stack(jobs)'
    BY <2>5, <2>6
  <2>8. changed' \in BOOLEAN
    BY <1>17, <1>a DEF Release, Tables
  <2>9. released' \subseteq Insts /\ CountedStay'
    BY <1>17, <1>a, <2>3 DEF Release, graph, Tables, CountedStay
  <2>10. Tables'
    BY <1>17, <1>a, <2>8, <2>9 DEF Release, graph, Tables
  <2> QED
    BY <2>7, <2>9, <2>10, ShapeParts
<1>18. CASE Freed
  <2>1. jobs # <<>> /\ jobs' = Front(jobs)
    BY <1>18 DEF Freed, Doing
  <2>2. Stack(jobs)'
    BY <1>a, <2>1, TopFacts
  <2> QED
    BY <1>18, <1>a, <1>b, <2>2, ShapeParts DEF Freed, graph, Tables
<1>19. CASE Reclaim
  <2>1. jobs' = <<Job("reclaim", Nobody, Garbage, {})>>
    BY <1>19 DEF Reclaim
  <2>2. Garbage \in SUBSET Objs
    BY CollectorAssumption DEF Garbage, Candidates
  <2>3. Stack(jobs)'
    BY <2>1, <2>2, ReclaimStack
  <2> QED
    BY <1>19, <1>a, <1>b, <2>3, ShapeParts DEF Reclaim, graph, Tables
<1>20. CASE NextRound
  <2>1. jobs # <<>>
    BY <1>20 DEF NextRound, Doing
  <2>2. Top.rest \in SUBSET Objs
    BY <1>a, <2>1, TopFacts DEF JobType
  <2>3. Garbage \in SUBSET Objs
    BY CollectorAssumption DEF Garbage, Candidates
  <2>4. \/ jobs' = <<Job("reclaim", Nobody, Top.rest, {})>>
        \/ jobs' = <<Job("reclaim", Nobody, Garbage, {})>>
        \/ jobs' = <<>>
    BY <1>20 DEF NextRound
  <2>5. Stack(<<>>)
    BY DEF Stack, Nested
  <2>6. Stack(jobs)'
    BY <2>2, <2>3, <2>4, <2>5, ReclaimStack
  <2>7. changed' \in BOOLEAN
    BY <1>20, <1>a DEF NextRound, Tables
  <2> QED
    BY <1>20, <1>a, <1>b, <2>6, <2>7, ShapeParts DEF NextRound, graph, Tables
<1>21. CASE \E o \in Objs : SweepOne(o) \/ Finalize(o) \/ Clear(o)
  <2>1. PICK o \in Objs : SweepOne(o) \/ Finalize(o) \/ Clear(o)
    BY <1>21
  <2>2. CASE SweepOne(o)
    <3>1. jobs # <<>> /\ Top.kind = "sweep"
      BY <2>2 DEF SweepOne, Doing
    <3> DEFINE j == [Top EXCEPT !.todo = @ \ {o}]
    <3>2. Stack(Replaced(jobs, j)) /\ Replaced(jobs, j) # <<>>
          /\ Last(Replaced(jobs, j)).kind = "sweep"
      BY <1>a, <3>1, Shrinks
    <3>3. Stack(Append(Replaced(jobs, j), Job("callback", o, {}, {})))
      BY <3>2, MakeCallback, PushStack
    <3>4. Stack(jobs)'
      BY <2>2, <3>2, <3>3 DEF SweepOne
    <3> QED
      BY <2>2, <1>a, <1>b, <3>4, ShapeParts DEF SweepOne, graph, Tables
  <2>3. CASE Finalize(o)
    <3>1. jobs # <<>> /\ Top.kind = "settle"
      BY <2>3 DEF Finalize, Doing
    <3> DEFINE j == [Top EXCEPT !.todo = @ \ {o}]
    <3>2. Stack(Replaced(jobs, j)) /\ Replaced(jobs, j) # <<>>
          /\ Last(Replaced(jobs, j)).kind = "settle"
      BY <1>a, <3>1, Shrinks
    <3>3. Stack(Append(Replaced(jobs, j), Job("finalizer", o, {}, {})))
      BY <3>2, MakeFinalizer, PushStack
    <3>4. Stack(jobs)'
      BY <2>3, <3>2, <3>3 DEF Finalize
    <3> QED
      BY <2>3, <1>a, <1>b, <3>4, ShapeParts DEF Finalize, graph, Tables
  <2>4. CASE Clear(o)
    <3>1. jobs # <<>> /\ Top.kind \in {"free", "reclaim"}
      BY <2>4 DEF Clear, Doing
    <3>2. PICK j \in JobType :
            /\ j.kind = Top.kind
            /\ \/ jobs' = Replaced(jobs, j)
               \/ jobs' = Append(Replaced(jobs, j), Job("callback", o, {}, {}))
      BY <1>a, <2>1, <2>4, <3>1, ClearTop
    <3>3. Stack(Replaced(jobs, j)) /\ Replaced(jobs, j) # <<>>
          /\ Last(Replaced(jobs, j)) = j
      BY <1>a, <3>1, <3>2, SetStack DEF Top
    <3>4. Stack(Append(Replaced(jobs, j), Job("callback", o, {}, {})))
      BY <3>1, <3>2, <3>3, MakeCallback, PushStack
    <3>5. Stack(jobs)'
      BY <3>2, <3>3, <3>4
    <3>6. weak' \subseteq weak /\ pendingWeak' \subseteq pendingWeak
      BY <2>4 DEF Clear
    <3> QED
      BY <2>4, <1>a, <1>b, <3>5, <3>6, ShapeParts DEF Clear, graph, Tables
  <2> QED
    BY <2>1, <2>2, <2>3, <2>4
<1> QED
  BY <1>1, <1>2, <1>3, <1>4, <1>5, <1>6, <1>7, <1>8, <1>9, <1>10, <1>11, <1>12, <1>13,
     <1>14, <1>15, <1>16, <1>17, <1>18, <1>19, <1>20, <1>21 DEF Next, Step

----------------------------------------------------------------------------
(* What is freed is dead. *)

LEMMA SafeParts ==
    /\ Safe <=> (jobs # <<>> => SafeJob(Current(jobs), Reach(Roots), Reach(Kept)))
    /\ Safe' <=> (jobs' # <<>> => SafeJob(Current(jobs'), Reach(Roots)', Reach(Kept)'))
BY DEF Safe

\* Python, and a sweep, free nothing.
LEMMA NothingDoomed ==
    ASSUME jobs' = <<>> \/ Last(jobs').kind \in {"del", "finalizer", "sweep"}
    PROVE  Safe'
BY SafeParts DEF Current, SafeJob

LEMMA RootsStay ==
    ASSUME UNCHANGED <<near, far, cheld, holds, pendingDel>>, released \subseteq released',
           LocalsOf(jobs') = LocalsOf(jobs)
    PROVE  Reach(Roots)' \subseteq Reach(Roots) /\ Reach(Kept)' \subseteq Reach(Kept)
<1>1. \A q \in Objs : Edges'[q] \subseteq Edges[q]
  BY DEF Edges, Struct
<1>2. Roots' = Roots /\ Kept' = Kept
  BY DEF Roots, Names, Kept
<1>3. /\ ReachAlong(Roots', Edges') \subseteq ReachAlong(Roots, Edges)
      /\ ReachAlong(Kept', Edges') \subseteq ReachAlong(Kept, Edges)
  BY <1>1, <1>2, ReachMono
<1> QED
  BY <1>3 DEF Reach

\* What was safe stays safe, when it names no more and less is reached.
LEMMA StaysSafe ==
    ASSUME NEW A, NEW B, NEW C, NEW D, C \subseteq A, D \subseteq B, NEW j, NEW k,
           SafeJob(j, A, B), k.kind = j.kind, Doomed(k) \subseteq Doomed(j),
           k.kind = "settle" => k.ran = j.ran
    PROVE  SafeJob(k, C, D)
BY DEF SafeJob

LEMMA SettleSafe ==
    ASSUME NEW s, Stack(s), NEW names, NEW cands \in SUBSET Objs, Settle(s, names, cands),
           UNCHANGED <<far, holds, released>>, near' \cup LocalsOf(s) = names
    PROVE  Safe'
<1> DEFINE dead == cands \ (cands \cap Reach(names \cup far))
           j == Job("settle", Nobody, dead \cap pendingDel, dead)
<1>1. jobs' = Append(s, j)
  BY DEF Settle
<1>2. j \in JobType /\ j.kind = "settle" /\ Doomed(j) = dead
  <2>1. dead \in SUBSET Objs /\ dead \cap pendingDel \in SUBSET Objs
    OBVIOUS
  <2> HIDE DEF dead
  <2> QED
    BY <2>1, CollectorAssumption DEF Job, JobType, JobKinds, Doomed
<1>3. jobs' # <<>> /\ Last(jobs') = j /\ LocalsOf(jobs') = LocalsOf(s)
  <2> HIDE DEF j
  <2> QED
    BY <1>1, <1>2, PushJob, PushLocals DEF Stack, Python
<1>4. Reach(Roots)' = Reach(names \cup far)
  <2>1. Roots' = names \cup far
    BY <1>3 DEF Roots, Names
  <2>2. Edges' = Edges
    BY DEF Edges, Struct
  <2> QED
    BY <2>1, <2>2 DEF Reach
<1>5. Doomed(j) \cap Reach(Roots)' = {}
  BY <1>2, <1>4
<1> HIDE DEF j
<1>6. SafeJob(Current(jobs'), Reach(Roots)', Reach(Kept)')
  BY <1>2, <1>3, <1>5 DEF Current, SafeJob
<1> QED
  BY <1>6, SafeParts

LEMMA UnbindSafe ==
    ASSUME ~CallbacksRun, Tables, NEW s, Stack(s), s = <<>> \/ Last(s).kind \in Code,
           NEW names, NEW o, AfterUnbind(s, names, o),
           UNCHANGED <<far, holds, released>>, near' \cup LocalsOf(s) = names
    PROVE  Safe'
<1> DEFINE pending == pendingDel \cup pendingWeak # {}
           weakHere == Struct(o) /\ o \in weak
           trigger == IF weakHere \/ Sole(o) THEN {o} ELSE {}
           cands == trigger \cup (IF pending /\ ~FeedsCycle(o) THEN Ready(names, FALSE)
                                                            ELSE {})
<1>1. cands \in SUBSET Objs
  BY CollectorAssumption DEF Ready, Tables, Struct, Sole
<1>2. CASE jobs' = s
  BY <1>2, NothingDoomed DEF Code, Python
<1>3. CASE Settle(s, names, cands)
  BY <1>1, <1>3, SettleSafe
<1> QED
  BY <1>2, <1>3 DEF AfterUnbind

\* What C counts is a root of the collection, and so is what waits.
LEMMA KeptAreRoots ==
    ASSUME Tables, CountedStay
    PROVE  Kept \subseteq CRoots /\ Reach(Kept) \subseteq Reach(CRoots)
<1>1. ASSUME NEW o \in cheld PROVE o \in HeldByC
  <2>1. o \in Objs
    BY CollectorAssumption DEF Tables
  <2>2. CASE o \notin Insts
    BY <2>1, <2>2 DEF HeldByC, Handled
  <2>3. CASE o \in Insts
    <3>1. Struct(o) /\ ~Sole(o)
      BY <2>3, SoleUncounted DEF CountedStay, Struct
    <3> QED
      BY <2>1, <3>1 DEF HeldByC
  <2> QED
    BY <2>2, <2>3
<1>2. Kept \subseteq CRoots
  BY <1>1 DEF Kept, CRoots
<1>3. \A q \in Objs : Edges[q] \subseteq Edges[q]
  OBVIOUS
<1>4. ReachAlong(Kept, Edges) \subseteq ReachAlong(CRoots, Edges)
  BY <1>2, <1>3, ReachMono
<1> QED
  BY <1>2, <1>4 DEF Reach

\* The collection starts, or starts again, with what its mark did not reach, or
\* with what an earlier round left.
LEMMA ReclaimSafe ==
    ASSUME NEW t \in SUBSET Objs, t \cap Reach(Kept) = {},
           jobs' = <<Job("reclaim", Nobody, t, {})>>, LocalsOf(jobs) = LocalsOf(<<>>),
           UNCHANGED <<near, far, cheld, holds, pendingDel, released>>
    PROVE  Safe'
<1> DEFINE j == Job("reclaim", Nobody, t, {})
<1>1. j \in JobType /\ j.kind = "reclaim" /\ Doomed(j) = t
  BY CollectorAssumption DEF Job, JobType, JobKinds, Doomed
<1> HIDE DEF j
<1>2. jobs' = <<j>> /\ <<j>> = Append(<<>>, j)
  BY DEF j
<1>3. Last(jobs') = j
  BY <1>2 DEF Last
<1>4. LocalsOf(jobs') = LocalsOf(jobs)
  <2>1. <<>> \in Seq(JobType) /\ j.kind \notin Python
    BY <1>1 DEF Python
  <2>2. LocalsOf(Append(<<>>, j)) = LocalsOf(<<>>)
    BY <1>1, <2>1, PushLocals
  <2> QED
    BY <1>2, <2>2
<1>5. Reach(Kept)' \subseteq Reach(Kept)
  BY <1>4, RootsStay
<1>6. SafeJob(Current(jobs'), Reach(Roots)', Reach(Kept)')
  BY <1>1, <1>3, <1>5 DEF Current, SafeJob
<1> QED
  BY <1>6, SafeParts

\* A callback on a job that goes on leaves that job the one that frees.
LEMMA CallbackOn ==
    ASSUME NEW s \in Seq(JobType), s # <<>>, NEW o \in Objs,
           Last(s).kind # "callback"
    PROVE  LET t == Append(s, Job("callback", o, {}, {}))
           IN  t # <<>> /\ Current(t) = Current(s) /\ LocalsOf(t) = LocalsOf(s)
<1> DEFINE c == Job("callback", o, {}, {})
           t == Append(s, c)
<1>1. c \in JobType /\ c.kind = "callback"
  BY MakeCallback
<1> HIDE DEF c
<1>2. /\ Len(t) = Len(s) + 1 /\ Len(s) \in Nat /\ Len(s) > 0 /\ t # <<>> /\ Last(t) = c
      /\ \A d \in 1..Len(s) : t[d] = s[d]
  BY <1>1, PushJob
<1>3. t[Len(t) - 1] = s[Len(s)]
  BY <1>2
<1>4. Current(t) = Last(s) /\ Current(s) = Last(s)
  BY <1>1, <1>2, <1>3 DEF Current, Last
<1>5. LocalsOf(t) = LocalsOf(s)
  BY <1>1, PushLocals DEF Python
<1> QED
  BY <1>2, <1>4, <1>5 DEF c

\* The job on top goes on, with or without a callback, and names no more than it
\* did.
LEMMA GoesOn ==
    ASSUME Stack(jobs), Safe, jobs # <<>>, NEW j \in JobType, NEW o \in Objs,
           Top.kind \notin Python \cup {"callback"},
           j.kind = Top.kind, Doomed(j) \subseteq Doomed(Top),
           j.kind = "settle" => j.ran = Top.ran,
           \/ jobs' = Replaced(jobs, j)
           \/ jobs' = Append(Replaced(jobs, j), Job("callback", o, {}, {})),
           UNCHANGED <<near, far, cheld, holds, pendingDel>>,
           released \subseteq released'
    PROVE  Safe'
<1> DEFINE s == Replaced(jobs, j)
<1>1. s \in Seq(JobType) /\ s # <<>> /\ Last(s) = j /\ LocalsOf(s) = LocalsOf(jobs)
  BY SetJob, SetLocals DEF Stack, Top
<1> HIDE DEF s
<1>2. jobs' = s \/ jobs' = Append(s, Job("callback", o, {}, {}))
  BY DEF s
<1>3. jobs' # <<>> /\ Current(jobs') = j /\ LocalsOf(jobs') = LocalsOf(jobs)
  <2>1. Last(s).kind # "callback" /\ Current(s) = j
    BY <1>1 DEF Current
  <2> QED
    BY <1>1, <1>2, <2>1, CallbackOn
<1>4. Current(jobs) = Top
  BY DEF Current, Top
<1>5. Reach(Roots)' \subseteq Reach(Roots) /\ Reach(Kept)' \subseteq Reach(Kept)
  BY <1>3, RootsStay
<1>6. SafeJob(j, Reach(Roots)', Reach(Kept)')
  BY <1>4, <1>5, SafeParts, StaysSafe
<1> QED
  BY <1>3, <1>6, SafeParts

\* Every step keeps the innermost job from freeing what is reached.
THEOREM StepSafe ==
    ASSUME Inv, [Next]_vars, ~CallbacksRun, ~FinalizersRaise
    PROVE  Safe'
<1>a. Tables /\ Stack(jobs) /\ CountedStay /\ Safe
  BY ShapeParts DEF Inv
<1>b. ASSUME Runs, UNCHANGED jobs PROVE Safe'
  BY <1>b, RunsOn, NothingDoomed DEF Code, Python
<1>1. CASE UNCHANGED vars
  <2>1. UNCHANGED <<jobs, near, far, cheld, holds, pendingDel, released>>
    BY <1>1 DEF vars, graph
  <2>2. Reach(Roots)' = Reach(Roots) /\ Reach(Kept)' = Reach(Kept)
    BY <2>1 DEF Reach, Edges, Struct, Roots, Names, Kept
  <2> QED
    BY <1>a, <2>1, <2>2, SafeParts
<1>2. CASE Bind \/ Rebind \/ Keep \/ SetAttr \/ CHold \/ CDrop \/ WeakRef
  BY <1>2, <1>b DEF Bind, Rebind, Keep, SetAttr, CHold, CDrop, WeakRef
<1>3. CASE \E o \in Objs : DelFinalizable(o)
  <2>1. PICK o \in Objs : DelFinalizable(o)
    BY <1>3
  <2>2. /\ Job("del", o, {}, {}) \in JobType
        /\ Job("del", o, {}, {}).kind = "del"
    BY DEF Job, JobType, JobKinds
  <2>3. Last(Append(jobs, Job("del", o, {}, {}))) = Job("del", o, {}, {})
    BY <1>a, <2>2, PushJob DEF Stack
  <2>4. Runs /\ (UNCHANGED jobs \/ Last(jobs').kind = "del")
    BY <2>1, <2>2, <2>3 DEF DelFinalizable
  <2> QED
    BY <1>b, <2>4, NothingDoomed
<1>4. CASE \E o \in Objs : DelPlain(o)
  <2>1. PICK o \in Objs : DelPlain(o)
    BY <1>4
  <2>2. jobs = <<>> \/ Last(jobs).kind \in Code
    BY <2>1, RunsOn DEF DelPlain
  <2>3. /\ AfterUnbind(jobs, (near \ {o}) \cup LocalsOf(jobs), o)
        /\ UNCHANGED <<far, holds, released>> /\ near' = near \ {o}
    BY <2>1 DEF DelPlain
  <2> QED
    BY <1>a, <2>2, <2>3, UnbindSafe
<1>5. CASE Deleted
  <2>1. jobs # <<>> /\ Top.kind = "del"
    BY <1>5 DEF Deleted, Doing
  <2>2. /\ Stack(Front(jobs))
        /\ Front(jobs) = <<>> \/ Last(Front(jobs)).kind \in Code
    BY <1>a, <2>1, TopFacts
  <2>3. /\ AfterUnbind(Front(jobs), near \cup LocalsOf(Front(jobs)), Top.obj)
        /\ UNCHANGED <<near, far, holds, released>>
    BY <1>5 DEF Deleted, graph
  <2> QED
    BY <1>a, <2>2, <2>3, UnbindSafe
<1>6. CASE Finalized
  <2>1. jobs # <<>> /\ Top.kind = "finalizer"
    BY <1>6 DEF Finalized, Doing
  <2> DEFINE below == Front(jobs)
             j == [Last(below) EXCEPT !.ran = TRUE]
  <2>2. below \in Seq(JobType) /\ below # <<>> /\ Last(below).kind = "settle"
    BY <1>a, <2>1, TopFacts DEF Stack
  <2>3. jobs' = Replaced(below, j)
    <3>1. PICK returns \in {TRUE, ~FinalizersRaise} :
            jobs' = Replaced(below, [Last(below) EXCEPT !.ran = @ \/ returns])
      BY <1>6 DEF Finalized
    <3>2. returns = TRUE
      BY <3>1
    <3>3. Last(below) \in JobType
      BY <2>2, PopJob
    <3>4. [Last(below) EXCEPT !.ran = @ \/ returns] = j
      BY <3>2, <3>3 DEF JobType
    <3> QED
      BY <3>1, <3>4
  <2>4. Last(below) \in JobType
    BY <2>2, PopJob
  <2>5. j \in JobType /\ j.kind = "settle" /\ j.ran
    BY <2>2, <2>4 DEF JobType
  <2>6. jobs' # <<>> /\ Last(jobs') = j
    <3> HIDE DEF j, below
    <3> QED
      BY <2>2, <2>3, <2>5, SetJob
  <2>7. SafeJob(Current(jobs'), Reach(Roots)', Reach(Kept)')
    <3> HIDE DEF j
    <3> QED
      BY <2>5, <2>6 DEF Current, SafeJob
  <2> QED
    BY <2>7, SafeParts
<1>7. CASE Leaves
  <2>1. jobs # <<>> /\ Top.kind \in {"del", "callback"} /\ jobs' = Front(jobs)
    BY <1>7 DEF Leaves, Doing
  <2>2. CASE Top.kind = "del"
    BY <1>a, <2>1, <2>2, TopFacts, NothingDoomed DEF Code, Python
  <2>3. CASE Top.kind = "callback"
    <3>1. /\ Front(jobs) # <<>> /\ Last(Front(jobs)) = jobs[Len(jobs) - 1]
          /\ Last(Front(jobs)).kind \in {"sweep", "free", "reclaim"}
      BY <1>a, <2>1, <2>3, TopFacts
    <3>2. Current(jobs) = Last(jobs') /\ Current(jobs') = Last(jobs')
      BY <2>1, <2>3, <3>1 DEF Current, Top
    <3>3. LocalsOf(jobs') = LocalsOf(jobs)
      BY <1>a, <2>1, <2>3, PopLocals DEF Stack, Top, Python
    <3>4. Reach(Roots)' \subseteq Reach(Roots) /\ Reach(Kept)' \subseteq Reach(Kept)
      BY <1>7, <3>3, RootsStay DEF Leaves, graph
    <3>5. SafeJob(Current(jobs'), Reach(Roots)', Reach(Kept)')
      BY <1>a, <2>1, <3>2, <3>4, SafeParts, StaysSafe
    <3> QED
      BY <3>5, SafeParts
  <2> QED
    BY <2>1, <2>2, <2>3
<1>8. CASE Collect
  <2> DEFINE j == Job("sweep", Nobody, weak \ Scanned, {})
  <2>1. j \in JobType /\ j.kind = "sweep"
    BY <1>a, CollectorAssumption DEF Job, JobType, JobKinds, Tables
  <2>2. jobs' = Append(jobs, j)
    BY <1>8 DEF Collect
  <2>3. Last(jobs').kind = "sweep"
    <3> HIDE DEF j
    <3> QED
      BY <1>a, <2>1, <2>2, PushJob DEF Stack
  <2> QED
    BY <2>3, NothingDoomed
<1>9. CASE Drain
  <2>1. jobs # <<>> /\ Top.kind = "sweep"
    BY <1>9 DEF Drain, Doing
  <2>2. Stack(Front(jobs)) /\ LocalsOf(Front(jobs)) = LocalsOf(jobs)
    BY <1>a, <2>1, TopFacts, PopLocals DEF Stack, Top, Python
  <2>3. Ready(Names, TRUE) \in SUBSET Objs
    BY <1>a, CollectorAssumption DEF Ready, Tables
  <2>4. /\ Settle(Front(jobs), Names, Ready(Names, TRUE))
        /\ UNCHANGED <<near, far, holds, released>>
    BY <1>9 DEF Drain, graph
  <2>5. near' \cup LocalsOf(Front(jobs)) = Names
    BY <2>2, <2>4 DEF Names
  <2> QED
    BY <2>2, <2>3, <2>4, <2>5, SettleSafe
<1>10. CASE MarkAgain
  <2>1. jobs # <<>> /\ Top.kind = "settle"
    BY <1>10 DEF MarkAgain, Doing
  <2>2. /\ Front(jobs) \in Seq(JobType) /\ Top \in JobType
        /\ LocalsOf(Front(jobs)) = LocalsOf(jobs)
    BY <1>a, <2>1, TopFacts, PopLocals DEF Stack, Top, Python
  <2> DEFINE j == Job("free", Nobody, StillDead(Top.rest, Top.ran), {})
  <2>3. j \in JobType /\ j.kind = "free" /\ Doomed(j) = StillDead(Top.rest, Top.ran)
    BY <2>2, CollectorAssumption DEF Job, JobType, JobKinds, StillDead, Doomed
  <2>4. jobs' = Append(Front(jobs), j)
    BY <1>10 DEF MarkAgain
  <2>5. SafeJob(Top, Reach(Roots), Reach(Kept))
    BY <1>a, <2>1, SafeParts DEF Current, Top
  <2>6. Doomed(j) \cap Reach(Roots) = {}
    BY <2>1, <2>2, <2>3, <2>5 DEF SafeJob, StillDead, Doomed, JobType
  <2> HIDE DEF j
  <2>7. jobs' # <<>> /\ Last(jobs') = j /\ LocalsOf(jobs') = LocalsOf(jobs)
    BY <2>2, <2>3, <2>4, PushJob, PushLocals DEF Python
  <2>8. Reach(Roots)' \subseteq Reach(Roots)
    BY <1>10, <2>7, RootsStay DEF MarkAgain, graph
  <2>9. SafeJob(Current(jobs'), Reach(Roots)', Reach(Kept)')
    BY <2>3, <2>6, <2>7, <2>8 DEF Current, SafeJob
  <2> QED
    BY <2>9, SafeParts
<1>11. CASE Release
  <2>1. jobs # <<>> /\ Top.kind \in {"free", "reclaim"}
    BY <1>11 DEF Release, Doing
  <2> DEFINE j == [Top EXCEPT !.obj = Nobody, !.ran = @ \/ Sole(Top.obj)]
  <2>2. Top \in JobType /\ Sole(Top.obj) \in BOOLEAN
    BY <1>a, <2>1, TopFacts, SoleUncounted
  <2>3. j \in JobType /\ j.kind = Top.kind /\ Doomed(j) \subseteq Doomed(Top)
    BY <2>2, CollectorAssumption DEF JobType, Doomed
  <2>4. jobs' = Replaced(jobs, j)
    BY <1>11 DEF Release
  <2>5. /\ UNCHANGED <<near, far, cheld, holds, pendingDel>>
        /\ released \subseteq released'
    BY <1>11 DEF Release, graph
  <2>6. Top.obj \in Objs
    BY <1>11, <2>2 DEF Release, JobType
  <2> HIDE DEF j
  <2> QED
    BY <1>a, <2>1, <2>3, <2>4, <2>5, <2>6, GoesOn DEF Python
<1>12. CASE Freed
  <2>1. jobs # <<>> /\ Top.kind = "free" /\ jobs' = Front(jobs)
    BY <1>12 DEF Freed, Doing
  <2> QED
    BY <1>a, <2>1, TopFacts, NothingDoomed DEF Code, Python
<1>13. Garbage \in SUBSET Objs /\ Garbage \cap Reach(Kept) = {}
  BY <1>a, KeptAreRoots, CollectorAssumption DEF Garbage, Candidates
<1>14. CASE Reclaim
  <2>1. /\ jobs = <<>> /\ jobs' = <<Job("reclaim", Nobody, Garbage, {})>>
        /\ UNCHANGED <<near, far, cheld, holds, pendingDel, released>>
    BY <1>14 DEF Reclaim, graph
  <2> QED
    BY <1>13, <2>1, ReclaimSafe
<1>15. CASE NextRound
  <2>1. /\ jobs # <<>> /\ Top.kind = "reclaim"
        /\ UNCHANGED <<near, far, cheld, holds, pendingDel, released>>
    BY <1>15 DEF NextRound, Doing, graph
  <2>2. LocalsOf(jobs) = LocalsOf(<<>>)
    BY <1>a, <2>1, TopFacts, PopLocals DEF Stack, Top, Python
  <2>3. Top.rest \in SUBSET Objs /\ Top.rest \cap Reach(Kept) = {}
    <3>1. SafeJob(Top, Reach(Roots), Reach(Kept))
      BY <1>a, <2>1, SafeParts DEF Current, Top
    <3>2. Top \in JobType
      BY <1>a, <2>1, TopFacts
    <3> QED
      BY <2>1, <3>1, <3>2 DEF SafeJob, Doomed, JobType
  <2>4. \/ jobs' = <<Job("reclaim", Nobody, Top.rest, {})>>
        \/ jobs' = <<Job("reclaim", Nobody, Garbage, {})>>
        \/ jobs' = <<>>
    BY <1>15 DEF NextRound
  <2> QED
    BY <1>13, <2>1, <2>2, <2>3, <2>4, ReclaimSafe, NothingDoomed
<1>16. ASSUME NEW o \in Objs, SweepOne(o) PROVE Safe'
  <2>1. jobs # <<>> /\ Top.kind = "sweep"
    BY <1>16 DEF SweepOne, Doing
  <2> DEFINE j == [Top EXCEPT !.todo = @ \ {o}]
  <2>2. j \in JobType /\ j.kind = Top.kind
    BY <1>a, <2>1, Shrinks
  <2>3. Doomed(j) \subseteq Doomed(Top)
    BY <1>a, <2>1, TopFacts DEF Doomed, JobType
  <2>4. \/ jobs' = Replaced(jobs, j)
        \/ jobs' = Append(Replaced(jobs, j), Job("callback", o, {}, {}))
    BY <1>16 DEF SweepOne
  <2>5. /\ UNCHANGED <<near, far, cheld, holds, pendingDel>>
        /\ released \subseteq released'
    BY <1>16 DEF SweepOne, graph
  <2> HIDE DEF j
  <2> QED
    BY <1>a, <2>1, <2>2, <2>3, <2>4, <2>5, GoesOn DEF Python
<1>17. ASSUME NEW o \in Objs, Finalize(o) PROVE Safe'
  <2>1. jobs # <<>> /\ Top.kind = "settle"
    BY <1>17 DEF Finalize, Doing
  <2> DEFINE j == [Top EXCEPT !.todo = @ \ {o}]
  <2>2. j \in JobType /\ j.kind = Top.kind /\ Stack(Replaced(jobs, j))
    BY <1>a, <2>1, Shrinks
  <2>3. Doomed(j) \subseteq Doomed(Top) /\ j.ran = Top.ran
    BY <1>a, <2>1, TopFacts DEF Doomed, JobType
  <2> HIDE DEF j
  <2>4. CASE o \in pendingDel
    <3>1. jobs' = Append(Replaced(jobs, j), Job("finalizer", o, {}, {}))
      BY <1>17, <2>4 DEF Finalize, j
    <3>2. Last(jobs').kind = "finalizer"
      BY <2>2, <3>1, MakeFinalizer, PushJob DEF Stack
    <3> QED
      BY <3>2, NothingDoomed
  <2>5. CASE o \notin pendingDel
    <3>1. /\ jobs' = Replaced(jobs, j)
          /\ UNCHANGED <<near, far, cheld, holds, pendingDel>>
          /\ released \subseteq released'
      BY <1>17, <2>5 DEF Finalize, graph, j
    <3> QED
      BY <1>a, <2>1, <2>2, <2>3, <3>1, GoesOn DEF Python
  <2> QED
    BY <2>4, <2>5
<1>18. ASSUME NEW o \in Objs, Clear(o) PROVE Safe'
  <2>1. /\ jobs # <<>> /\ Top.kind \in {"free", "reclaim"}
        /\ UNCHANGED <<near, far, cheld, holds, pendingDel>>
        /\ released \subseteq released'
    BY <1>18 DEF Clear, Doing, graph
  <2>2. PICK j \in JobType :
          /\ j.kind = Top.kind /\ Doomed(j) \subseteq Doomed(Top)
          /\ \/ jobs' = Replaced(jobs, j)
             \/ jobs' = Append(Replaced(jobs, j), Job("callback", o, {}, {}))
    BY <1>18, <1>a, ClearTop
  <2> QED
    BY <1>a, <2>1, <2>2, GoesOn DEF Python
<1> QED
  BY <1>1, <1>2, <1>3, <1>4, <1>5, <1>6, <1>7, <1>8, <1>9, <1>10, <1>11, <1>12, <1>14,
     <1>15, <1>16, <1>17, <1>18 DEF Next, Step

----------------------------------------------------------------------------
(* The invariant and what follows from it. *)

LEMMA InitInv ==
    ASSUME Init
    PROVE  Inv
<1>1. wait \in [Objs -> 0..MaxWait] /\ skip \in [Objs -> 0..MaxWait]
  BY CollectorAssumption DEF Init
<1>2. jobs = <<>> /\ jobs \in Seq(JobType)
  BY DEF Init
<1>3. Tables
  BY <1>1, CollectorAssumption DEF Init, Tables
<1>4. Nested(jobs) /\ CountedStay /\ Safe
  BY <1>2 DEF Init, Nested, CountedStay, Safe
<1> QED
  BY <1>2, <1>3, <1>4, ShapeParts DEF Inv, Stack

LEMMA Invariance ==
    ASSUME ~CallbacksRun, ~FinalizersRaise
    PROVE  Spec => []Inv
<1>1. Inv /\ [Next]_vars => Inv'
  BY StepShape, StepSafe DEF Inv
<1> QED
  BY InitInv, <1>1, PTL DEF Spec

\* The tables hold what they are for, a backoff is no longer than the longest, and
\* the stack of what is under way is one of jobs (TypeOK), whatever Python does in
\* the middle of a settle and whether or not it raises.
THEOREM TypeCorrect == Spec => []TypeOK
<1>1. Init => Shape
  BY InitInv DEF Inv
<1>2. Shape /\ [Next]_vars => Shape'
  BY StepShape
<1>3. Shape => TypeOK
  BY DEF Shape
<1> QED
  BY <1>1, <1>2, <1>3, PTL DEF Spec

\* releaseSole frees nothing that a frame, a module's container, C (between tests)
\* or an object that waits for its __del__ (between tests) reaches, when callbacks
\* do nothing and no __del__ raises; whatever a __del__ binds, keeps or drops, and
\* however settles nest in it.
THEOREM FreedAreGarbage ==
    ASSUME ~CallbacksRun, ~FinalizersRaise
    PROVE  Spec => FreedIsGarbage
<1> DEFINE A(i) == i \notin Reach(Roots \cup IF Doing("reclaim")
                                            THEN cheld \cup pendingDel ELSE {})
           Step1 == \A i \in released' \ released : A(i)
<1>1. Inv /\ [Next]_vars => [Step1]_vars
  <2> SUFFICES ASSUME Inv, [Next]_vars, NEW i \in released' \ released
               PROVE  A(i)
    OBVIOUS
  <2>1. Release
    BY DEF Next, Step, vars, graph, Bind, Rebind, Keep, SetAttr, CHold, CDrop, WeakRef,
           DelFinalizable, DelPlain, Deleted, Finalized, Leaves, Drain, MarkAgain, Freed,
           NextRound, SweepOne, Finalize, Clear, Collect, Reclaim
  <2>2. i = Top.obj /\ i # Nobody /\ jobs # <<>> /\ Top.kind \in {"free", "reclaim"}
    BY <2>1 DEF Release, Doing
  <2>3. Top \in JobType
    BY <2>2, ShapeParts, TopFacts DEF Inv
  <2>4. i \in Doomed(Top)
    BY <2>2, <2>3 DEF Doomed, JobType
  <2>5. SafeJob(Top, Reach(Roots), Reach(Kept))
    BY <2>2, SafeParts DEF Inv, Current, Top
  <2>6. CASE Top.kind = "free"
    <3>1. Roots \cup {} = Roots
      OBVIOUS
    <3>2. i \notin Reach(Roots)
      BY <2>4, <2>5, <2>6 DEF SafeJob
    <3> QED
      BY <2>6, <3>1, <3>2 DEF Doing
  <2>7. CASE Top.kind = "reclaim"
    <3>1. Roots \cup (cheld \cup pendingDel) = Kept
      BY DEF Kept
    <3>2. i \notin Reach(Kept)
      BY <2>4, <2>5, <2>7 DEF SafeJob
    <3> QED
      BY <2>2, <2>7, <3>1, <3>2 DEF Doing
  <2> QED
    BY <2>2, <2>6, <2>7
<1>2. [][Step1]_vars => FreedIsGarbage
  BY DEF FreedIsGarbage
<1>3. Spec => [][Step1]_vars
  <2> HIDE DEF Step1
  <2> QED
    BY <1>1, Invariance, PTL DEF Spec
<1> QED
  BY <1>2, <1>3

\* A settle, and the collection between tests, clear the weak references of nothing
\* that a frame or a module's container reaches, on the same two assumptions: a
\* callback is told of the death of the dead alone.
THEOREM ClearedAreGarbage ==
    ASSUME ~CallbacksRun, ~FinalizersRaise
    PROVE  Spec => ClearedIsGarbage
<1> DEFINE Step1 == ~Doing("sweep") => \A i \in weak \ weak' : i \notin Reach(Roots)
<1>1. Inv /\ [Next]_vars => [Step1]_vars
  <2> SUFFICES ASSUME Inv, [Next]_vars, ~Doing("sweep"), NEW i \in weak \ weak'
               PROVE  i \notin Reach(Roots)
    OBVIOUS
  <2>1. \E o \in Objs : Clear(o)
    BY DEF Next, Step, vars, graph, Bind, Rebind, Keep, SetAttr, CHold, CDrop, WeakRef,
           DelFinalizable, DelPlain, Deleted, Finalized, Leaves, Drain, MarkAgain, Freed,
           NextRound, SweepOne, Finalize, Release, Collect, Reclaim
  <2>2. PICK o \in Objs : Clear(o)
    BY <2>1
  <2>3. i = o /\ o \in Top.todo /\ jobs # <<>> /\ Top.kind \in {"free", "reclaim"}
    BY <2>2 DEF Clear, Doing
  <2>4. i \in Doomed(Top)
    BY <2>3 DEF Doomed
  <2>5. SafeJob(Top, Reach(Roots), Reach(Kept))
    BY <2>3, SafeParts DEF Inv, Current, Top
  <2>6. Reach(Roots) \subseteq Reach(Kept)
    <3>1. Roots \subseteq Kept /\ \A q \in Objs : Edges[q] \subseteq Edges[q]
      BY DEF Kept
    <3>2. ReachAlong(Roots, Edges) \subseteq ReachAlong(Kept, Edges)
      BY <3>1, ReachMono
    <3> QED
      BY <3>2 DEF Reach
  <2> QED
    BY <2>3, <2>4, <2>5, <2>6 DEF SafeJob
<1>2. [][Step1]_vars => ClearedIsGarbage
  BY DEF ClearedIsGarbage
<1>3. Spec => [][Step1]_vars
  <2> HIDE DEF Step1
  <2> QED
    BY <1>1, Invariance, PTL DEF Spec
<1> QED
  BY <1>2, <1>3
----------------------------------------------------------------------------
(* The collection between tests leaves nothing. *)

\* What the collection under way has still to look at is out of reach; what it has
\* chosen only its wrapper owns; what it put off, before it freed anything, more
\* than that owns; and, unless a root went, that is all the garbage there is.
Gathered(j) ==
    /\ Doomed(j) \cap Reach(CRoots) = {}
    /\ j.obj # Nobody => Sole(j.obj)
    /\ ~j.ran => \A o \in j.rest : ~Sole(o)
    /\ ~changed => Garbage \subseteq Doomed(j)

Collecting(s) == s # <<>> /\ Current(s).kind = "reclaim"
Gathers == Collecting(jobs) => Gathered(Current(jobs))

\* Freeing o takes its struct's references from the counts.
LEMMA CountAfter ==
    ASSUME Tables, NEW o \in Insts \ released, UNCHANGED cheld,
           released' = released \cup {o}, NEW q
    PROVE  /\ Count(q) \in Nat \ {0} /\ Count(q)' \in Nat \ {0}
           /\ Count(q)' = IF q \in Owns[o] THEN Count(q) - 1 ELSE Count(q)
<1> DEFINE owners == {j \in Insts \ released : q \in Owns[j]}
           after == {j \in Insts \ released' : q \in Owns[j]}
<1>1. IsFiniteSet(owners) /\ Cardinality(owners) \in Nat
  BY CollectorAssumption, FS_Subset, FS_CardinalityType
<1>2. after = owners \ {o}
  OBVIOUS
<1>3. o \in owners <=> q \in Owns[o]
  OBVIOUS
<1> HIDE DEF owners, after
<1>4. /\ Cardinality(after) = IF o \in owners THEN Cardinality(owners) - 1
                                              ELSE Cardinality(owners)
      /\ IsFiniteSet(after) /\ Cardinality(after) \in Nat
  BY <1>1, <1>2, FS_RemoveElement, FS_CardinalityType
<1>5. /\ Count(q) = 1 + (IF q \in cheld THEN 1 ELSE 0) + Cardinality(owners)
      /\ Count(q)' = 1 + (IF q \in cheld THEN 1 ELSE 0) + Cardinality(after)
  BY DEF Count, owners, after
<1> QED
  BY <1>1, <1>3, <1>4, <1>5

\* Freeing an instance out of the roots' reach makes no root and reaches no more;
\* if none of the roots was its own, it leaves no garbage that was none.
LEMMA FreeOne ==
    ASSUME Tables, Tables', NEW o, Sole(o), o \notin Reach(CRoots),
           released' = released \cup {o}, LocalsOf(jobs') = LocalsOf(jobs),
           UNCHANGED <<near, far, cheld, holds, pendingDel, pendingWeak>>
    PROVE  /\ Reach(CRoots)' \subseteq Reach(CRoots)
           /\ \A q : q # o /\ Sole(q) => Sole(q)'
           /\ ~RootGoes(o) => Garbage' \subseteq Garbage \ {o}
<1>1. o \in Insts \ released /\ Count(o) = 1
  BY DEF Sole, Struct
<1>2. /\ Insts \subseteq Objs
      /\ \A q : Struct(q)' <=> Struct(q) /\ q # o
  BY <1>1, CollectorAssumption DEF Struct
<1>3. \A q : /\ Count(q) \in Nat \ {0} /\ Count(q)' \in Nat \ {0}
             /\ Count(q)' = IF q \in Owns[o] THEN Count(q) - 1 ELSE Count(q)
  BY <1>1, CountAfter
<1>4. \A q : q # o /\ Sole(q) => Sole(q)'
  BY <1>2, <1>3 DEF Sole
<1>5. Roots' = Roots
  BY DEF Roots, Names
<1>6. HeldByC' \subseteq HeldByC
  <2>1. ASSUME NEW q \in HeldByC' PROVE q \in HeldByC
    <3>1. CASE Handled(q, Insts \ released)'
      BY <3>1, <2>1 DEF HeldByC, Handled
    <3>2. CASE Struct(q)' /\ ~Sole(q)'
      <4>1. Struct(q) /\ ~Sole(q)
        BY <1>2, <1>4, <3>2
      <4> QED
        BY <2>1, <4>1 DEF HeldByC
    <3> QED
      BY <2>1, <3>1, <3>2 DEF HeldByC
  <2> QED
    BY <2>1
<1>7. CRoots' \subseteq CRoots
  BY <1>5, <1>6 DEF CRoots
<1>8. \A q \in Objs : Edges'[q] \subseteq Edges[q]
  BY <1>2 DEF Edges
<1>9. ReachAlong(CRoots', Edges') \subseteq ReachAlong(CRoots, Edges)
  BY <1>7, <1>8, ReachMono
<1>10. ASSUME ~RootGoes(o) PROVE Garbage' \subseteq Garbage \ {o}
  <2>1. HeldByC \subseteq HeldByC'
    <3>1. ASSUME NEW q \in HeldByC PROVE q \in HeldByC'
      <4>1. CASE Handled(q, Insts \ released)
        <5>1. Handled(q, Insts \ (released \cup {o}))
          BY <1>1, <1>10, <4>1 DEF Handled, RootGoes
        <5>2. Handled(q, Insts \ released)'
          BY <5>1 DEF Handled
        <5> QED
          BY <3>1, <5>2 DEF HeldByC
      <4>2. CASE Struct(q) /\ ~Sole(q)
        <5>1. q # o /\ Struct(q)' /\ Count(q) # 1
          BY <1>2, <4>2 DEF Sole
        <5>2. q \in Owns[o] => Count(q) # 2
          BY <1>10, <4>2 DEF RootGoes, Struct
        <5>3. Count(q)' # 1
          BY <1>3, <5>1, <5>2
        <5>4. ~Sole(q)'
          BY <5>3 DEF Sole
        <5> QED
          BY <3>1, <5>1, <5>4 DEF HeldByC
      <4> QED
        BY <3>1, <4>1, <4>2 DEF HeldByC
    <3> QED
      BY <3>1
  <2>2. CRoots \subseteq CRoots'
    BY <1>5, <2>1 DEF CRoots
  <2>3. Reach(CRoots) \subseteq Reach(CRoots)'
    <3> SUFFICES ASSUME NEW q \in ReachAlong(CRoots, Edges), NEW C \in SUBSET Objs,
                        CRoots' \subseteq C, \A p \in C : Edges'[p] \subseteq C
                 PROVE  q \in C
      BY DEF Reach, ReachAlong
    <3> DEFINE D == C \cap ReachAlong(CRoots, Edges)
    <3>1. CRoots \subseteq D
      <4>1. CRoots \subseteq C
        BY <2>2
      <4>2. \A x \in CRoots : x \in ReachAlong(CRoots, Edges)
        BY <4>1 DEF ReachAlong
      <4> QED
        BY <4>1, <4>2
    <3>2. ASSUME NEW p \in D PROVE Edges[p] \subseteq D
      <4>1. p \in Objs /\ p # o
        BY DEF Reach
      <4>2. Edges'[p] = Edges[p]
        BY <1>2, <4>1 DEF Edges
      <4>3. Edges[p] \subseteq Objs
        BY <4>1, CollectorAssumption DEF Edges, Tables, Struct
      <4>4. \A x \in Edges[p] : x \in ReachAlong(CRoots, Edges)
        BY <4>3 DEF ReachAlong
      <4> QED
        BY <4>2, <4>4
    <3>3. D \in SUBSET Objs
      OBVIOUS
    <3>4. q \in D
      BY <3>1, <3>2, <3>3 DEF ReachAlong
    <3> QED
      BY <3>4
  <2>4. ASSUME NEW q, Sole(q)' PROVE Sole(q) /\ q # o
    <3>1. Struct(q) /\ q # o /\ Count(q)' = 1
      BY <1>2, <2>4 DEF Sole
    <3>2. Count(q) = 1
      BY <1>3, <1>10, <3>1 DEF RootGoes, Struct
    <3> QED
      BY <3>1, <3>2 DEF Sole
  <2> QED
    BY <2>3, <2>4 DEF Garbage, Candidates
<1> QED
  BY <1>4, <1>9, <1>10 DEF Reach

\* While it is under way nothing runs but the callbacks it starts.
LEMMA OnlyCollecting ==
    ASSUME Tables, Stack(jobs), ~CallbacksRun, Collecting(jobs), Next
    PROVE  /\ \/ NextRound \/ Release \/ Leaves
              \/ \E o \in Objs : Clear(o)
           /\ Top.kind \in {"reclaim", "callback"}
<1>1. jobs # <<>> /\ Top.kind \in {"reclaim", "callback"}
  BY DEF Collecting, Current, Top
<1>2. ~Runs
  BY <1>1 DEF Runs, Doing
<1>3. jobs # <<>> => ~Reclaim
  BY DEF Reclaim
<1> QED
  BY <1>1, <1>2, <1>3 DEF Next, Step, Bind, Rebind, Keep, SetAttr, CHold, CDrop, WeakRef,
     DelFinalizable, DelPlain, Collect, Deleted, Finalized, Drain, MarkAgain, Freed,
     SweepOne, Finalize, Doing

\* What does not collect starts to by Reclaim alone.
LEMMA StartsCollecting ==
    ASSUME Tables, Stack(jobs), ~CallbacksRun, ~Collecting(jobs), Collecting(jobs'), Next
    PROVE  Reclaim
<1> DEFINE Other(s) == s = <<>> \/ Last(s).kind \notin {"reclaim", "callback"}
<1>a. ASSUME Other(jobs') PROVE FALSE
  BY <1>a DEF Collecting, Current
<1>b. ASSUME UNCHANGED jobs PROVE FALSE
  BY <1>b DEF Collecting
<1>c. ASSUME NEW s, s \in Seq(JobType), NEW k \in JobKinds \ {"reclaim", "callback"},
             NEW o \in Objs \cup {Nobody}, NEW t \in SUBSET Objs, NEW r \in SUBSET Objs,
             jobs' = Append(s, Job(k, o, t, r))
      PROVE  FALSE
  <2> DEFINE j == Job(k, o, t, r)
  <2>1. j \in JobType /\ j.kind = k
    BY <1>c DEF Job, JobType
  <2> HIDE DEF j
  <2>2. Last(Append(s, j)).kind = k
    BY <1>c, <2>1, PushJob
  <2>3. jobs' = Append(s, j)
    BY <1>c DEF j
  <2> QED
    BY <1>a, <1>c, <2>2, <2>3
<1>d. jobs \in Seq(JobType)
  BY DEF Stack
<1>e. ASSUME NEW s, Stack(s), s = <<>> \/ Last(s).kind \in Code,
             jobs' = s \/ \E cands \in SUBSET Objs : \E names : Settle(s, names, cands)
      PROVE  FALSE
  <2>1. CASE jobs' = s
    BY <1>a, <1>e, <2>1 DEF Code, Python
  <2>2. ASSUME NEW cands \in SUBSET Objs, NEW names, Settle(s, names, cands) PROVE FALSE
    <3> DEFINE dead == cands \ (cands \cap Reach(names \cup far))
    <3>1. jobs' = Append(s, Job("settle", Nobody, dead \cap pendingDel, dead))
      BY <2>2 DEF Settle
    <3>2. dead \cap pendingDel \in SUBSET Objs /\ dead \in SUBSET Objs
      OBVIOUS
    <3> HIDE DEF dead
    <3> QED
      BY <1>c, <1>e, <3>1, <3>2 DEF Stack, JobKinds
  <2> QED
    BY <1>e, <2>1, <2>2
<1>f. ASSUME NEW s, Stack(s), s = <<>> \/ Last(s).kind \in Code, NEW names, NEW o,
             AfterUnbind(s, names, o)
      PROVE  FALSE
  <2> DEFINE cands == (IF (Struct(o) /\ o \in weak) \/ Sole(o) THEN {o} ELSE {})
                        \cup (IF pendingDel \cup pendingWeak # {} /\ ~FeedsCycle(o)
                              THEN Ready(names, FALSE) ELSE {})
  <2>1. cands \in SUBSET Objs
    BY CollectorAssumption DEF Ready, Tables, Struct, Sole
  <2>2. jobs' = s \/ Settle(s, names, cands)
    BY <1>f DEF AfterUnbind
  <2> HIDE DEF cands
  <2> QED
    BY <1>e, <1>f, <2>1, <2>2
<1>1. CASE Bind \/ Rebind \/ Keep \/ SetAttr \/ CHold \/ CDrop \/ WeakRef
  BY <1>1, <1>b DEF Bind, Rebind, Keep, SetAttr, CHold, CDrop, WeakRef
<1>2. ASSUME NEW o \in Objs, DelFinalizable(o) PROVE FALSE
  <2>1. UNCHANGED jobs \/ jobs' = Append(jobs, Job("del", o, {}, {}))
    BY <1>2 DEF DelFinalizable
  <2> QED
    BY <1>b, <1>c, <1>d, <2>1 DEF JobKinds
<1>3. ASSUME NEW o \in Objs, DelPlain(o) PROVE FALSE
  BY <1>3, <1>f, RunsOn DEF DelPlain
<1>4. CASE Deleted
  <2>1. jobs # <<>> /\ Top.kind = "del"
    BY <1>4 DEF Deleted, Doing
  <2> QED
    BY <1>4, <1>f, <2>1, TopFacts DEF Deleted
<1>5. CASE Finalized
  <2>1. jobs # <<>> /\ Top.kind = "finalizer"
    BY <1>5 DEF Finalized, Doing
  <2>2. /\ Stack(Front(jobs)) /\ Front(jobs) # <<>> /\ Last(Front(jobs)).kind = "settle"
        /\ Last(Front(jobs)) \in JobType
    BY <2>1, TopFacts, PopJob DEF Stack
  <2>3. PICK returns \in {TRUE, ~FinalizersRaise} :
          jobs' = Replaced(Front(jobs), [Last(Front(jobs)) EXCEPT !.ran = @ \/ returns])
    BY <1>5 DEF Finalized
  <2> DEFINE j == [Last(Front(jobs)) EXCEPT !.ran = @ \/ returns]
  <2>4. j \in JobType /\ j.kind = "settle"
    BY <2>2, CollectorAssumption DEF JobType
  <2> HIDE DEF j
  <2>5. Last(jobs') = j
    BY <2>2, <2>3, <2>4, SetStack DEF j
  <2> QED
    BY <1>a, <2>4, <2>5
<1>6. CASE Leaves
  <2>1. jobs # <<>> /\ Top.kind \in {"del", "callback"} /\ jobs' = Front(jobs)
    BY <1>6 DEF Leaves, Doing
  <2>2. CASE Top.kind = "del"
    BY <1>a, <2>1, <2>2, TopFacts DEF Code, Python
  <2>3. CASE Top.kind = "callback"
    <3>1. Front(jobs) # <<>> /\ Last(Front(jobs)) = jobs[Len(jobs) - 1]
          /\ Last(Front(jobs)).kind # "callback"
      BY <2>1, <2>3, TopFacts
    <3> QED
      BY <2>1, <2>3, <3>1 DEF Collecting, Current, Top
  <2> QED
    BY <2>1, <2>2, <2>3
<1>7. CASE Collect
  <2>1. jobs' = Append(jobs, Job("sweep", Nobody, weak \ Scanned, {}))
    BY <1>7 DEF Collect
  <2>2. weak \ Scanned \in SUBSET Objs
    BY CollectorAssumption DEF Tables
  <2>3. "sweep" \in JobKinds \ {"reclaim", "callback"} /\ {} \in SUBSET Objs
    BY DEF JobKinds
  <2> QED
    BY <1>c, <1>d, <2>1, <2>2, <2>3
<1>8. CASE Drain
  <2>1. jobs # <<>> /\ Top.kind = "sweep"
    BY <1>8 DEF Drain, Doing
  <2>2. Ready(Names, TRUE) \in SUBSET Objs
    BY CollectorAssumption DEF Ready, Tables
  <2>3. Settle(Front(jobs), Names, Ready(Names, TRUE))
    BY <1>8 DEF Drain
  <2> QED
    BY <1>e, <2>1, <2>2, <2>3, TopFacts
<1>9. CASE MarkAgain
  <2>1. jobs # <<>> /\ Top.kind = "settle"
    BY <1>9 DEF MarkAgain, Doing
  <2>2. Stack(Front(jobs)) /\ Top \in JobType
    BY <2>1, TopFacts
  <2>3. StillDead(Top.rest, Top.ran) \in SUBSET Objs
    BY <2>2 DEF StillDead, JobType
  <2>4. jobs' = Append(Front(jobs), Job("free", Nobody, StillDead(Top.rest, Top.ran), {}))
    BY <1>9 DEF MarkAgain
  <2>5. "free" \in JobKinds \ {"reclaim", "callback"} /\ {} \in SUBSET Objs
    BY DEF JobKinds
  <2> QED
    BY <1>c, <2>2, <2>3, <2>4, <2>5 DEF Stack
<1>g. ASSUME jobs # <<>>, Top.kind \notin {"reclaim", "callback"},
             NEW j \in JobType, j.kind = Top.kind, NEW o \in Objs,
             \/ jobs' = Replaced(jobs, j)
             \/ jobs' = Append(Replaced(jobs, j), Job("callback", o, {}, {}))
      PROVE  FALSE
  <2> DEFINE s == Replaced(jobs, j)
  <2>1. s \in Seq(JobType) /\ s # <<>> /\ Last(s) = j
    BY <1>g, SetJob DEF Stack, Top
  <2> HIDE DEF s
  <2>2. Current(s).kind = j.kind
    BY <1>g, <2>1 DEF Current
  <2>3. Current(Append(s, Job("callback", o, {}, {}))) = Current(s)
    BY <1>g, <2>1, CallbackOn
  <2>4. Current(jobs').kind = j.kind
    BY <1>g, <2>2, <2>3 DEF s
  <2> QED
    BY <1>g, <2>4 DEF Collecting
<1>10. ASSUME NEW o \in Objs, SweepOne(o) PROVE FALSE
  <2>1. jobs # <<>> /\ Top.kind = "sweep"
    BY <1>10 DEF SweepOne, Doing
  <2> DEFINE j == [Top EXCEPT !.todo = @ \ {o}]
  <2>2. j \in JobType /\ j.kind = Top.kind
    BY <2>1, Shrinks
  <2>3. \/ jobs' = Replaced(jobs, j)
        \/ jobs' = Append(Replaced(jobs, j), Job("callback", o, {}, {}))
    BY <1>10 DEF SweepOne
  <2> HIDE DEF j
  <2> QED
    BY <1>g, <2>1, <2>2, <2>3
<1>11. ASSUME NEW o \in Objs, Finalize(o) PROVE FALSE
  <2>1. jobs # <<>> /\ Top.kind = "settle"
    BY <1>11 DEF Finalize, Doing
  <2> DEFINE j == [Top EXCEPT !.todo = @ \ {o}]
  <2>2. j \in JobType /\ j.kind = Top.kind /\ Stack(Replaced(jobs, j))
    BY <2>1, Shrinks
  <2>3. \/ jobs' = Replaced(jobs, j)
        \/ jobs' = Append(Replaced(jobs, j), Job("finalizer", o, {}, {}))
    BY <1>11 DEF Finalize
  <2> HIDE DEF j
  <2> QED
    BY <1>c, <1>g, <2>1, <2>2, <2>3 DEF Stack, JobKinds
<1>12. ASSUME NEW o \in Objs, Clear(o) PROVE FALSE
  <2>1. jobs # <<>> /\ Top.kind = "free"
    BY <1>12 DEF Clear, Doing, Collecting, Current, Top
  <2>2. PICK j \in JobType :
          /\ j.kind = Top.kind
          /\ \/ jobs' = Replaced(jobs, j)
             \/ jobs' = Append(Replaced(jobs, j), Job("callback", o, {}, {}))
    BY <1>12, <2>1, ClearTop
  <2> QED
    BY <1>g, <2>1, <2>2
<1>13. CASE Release
  <2>1. jobs # <<>> /\ Top.kind = "free"
    BY <1>13 DEF Release, Doing, Collecting, Current, Top
  <2> DEFINE j == [Top EXCEPT !.obj = Nobody, !.ran = @ \/ Sole(Top.obj)]
  <2>2. Top \in JobType /\ Sole(Top.obj) \in BOOLEAN
    BY <2>1, TopFacts, SoleUncounted
  <2>3. j \in JobType /\ j.kind = Top.kind
    BY <2>2 DEF JobType
  <2>4. jobs' = Replaced(jobs, j) /\ Top.obj \in Objs
    BY <1>13, <2>2 DEF Release, JobType
  <2> HIDE DEF j
  <2> QED
    BY <1>g, <2>1, <2>3, <2>4
<1>14. CASE Freed
  <2>1. jobs # <<>> /\ Top.kind = "free" /\ jobs' = Front(jobs)
    BY <1>14 DEF Freed, Doing
  <2> QED
    BY <1>a, <2>1, TopFacts DEF Code, Python
<1>15. ~NextRound
  BY DEF NextRound, Doing, Collecting, Current, Top
<1> QED
  BY <1>1, <1>2, <1>3, <1>4, <1>5, <1>6, <1>7, <1>8, <1>9, <1>10, <1>11, <1>12, <1>13,
     <1>14, <1>15 DEF Next, Step

\* Garbage is a matter of the graph, of what is freed and of what waits.
LEMMA GarbageStays ==
    ASSUME UNCHANGED <<near, far, cheld, holds, released, pendingDel, pendingWeak>>,
           LocalsOf(jobs') = LocalsOf(jobs)
    PROVE  /\ Garbage' = Garbage /\ Reach(CRoots)' = Reach(CRoots)
           /\ \A q : Sole(q)' = Sole(q)
<1>1. \A q : Sole(q)' = Sole(q) /\ Struct(q)' = Struct(q)
  BY DEF Sole, Count, Struct
<1>2. CRoots' = CRoots
  BY <1>1 DEF CRoots, Roots, Names, HeldByC, Handled
<1>3. Reach(CRoots)' = Reach(CRoots)
  BY <1>2 DEF Reach, Edges, Struct
<1> QED
  BY <1>1, <1>3 DEF Garbage, Candidates

\* A round starts with what it has to look at and nothing else.
LEMMA RoundStarts ==
    ASSUME NEW t \in SUBSET Objs, LocalsOf(jobs) = LocalsOf(<<>>),
           jobs' = <<Job("reclaim", Nobody, t, {})>>
    PROVE  /\ LocalsOf(jobs') = LocalsOf(jobs)
           /\ Current(jobs').obj = Nobody /\ Current(jobs').rest = {}
           /\ Doomed(Current(jobs')) = t
<1> DEFINE j == Job("reclaim", Nobody, t, {})
<1>1. /\ j \in JobType /\ j.kind = "reclaim" /\ Doomed(j) = t
      /\ j.obj = Nobody /\ j.rest = {}
  BY CollectorAssumption DEF Job, JobType, JobKinds, Doomed
<1> HIDE DEF j
<1>2. jobs' = <<j>> /\ <<j>> = Append(<<>>, j)
  BY DEF j
<1>3. Current(jobs') = j
  BY <1>1, <1>2 DEF Current, Last
<1>4. LocalsOf(Append(<<>>, j)) = LocalsOf(<<>>)
  <2>1. <<>> \in Seq(JobType) /\ j.kind \notin Python
    BY <1>1 DEF Python
  <2> QED
    BY <1>1, <2>1, PushLocals
<1> QED
  BY <1>1, <1>2, <1>3, <1>4

\* The job on top goes on, with or without a callback.
LEMMA TopGoesOn ==
    ASSUME Stack(jobs), jobs # <<>>, Top.kind = "reclaim", NEW j \in JobType,
           j.kind = "reclaim", NEW o \in Objs,
           \/ jobs' = Replaced(jobs, j)
           \/ jobs' = Append(Replaced(jobs, j), Job("callback", o, {}, {}))
    PROVE  Current(jobs') = j /\ LocalsOf(jobs') = LocalsOf(jobs)
<1> DEFINE s == Replaced(jobs, j)
<1>1. s \in Seq(JobType) /\ s # <<>> /\ Last(s) = j /\ LocalsOf(s) = LocalsOf(jobs)
  BY SetJob, SetLocals DEF Stack, Top, Python
<1> HIDE DEF s
<1>2. jobs' = s \/ jobs' = Append(s, Job("callback", o, {}, {}))
  BY DEF s
<1>3. Last(s).kind # "callback" /\ Current(s) = j
  BY <1>1 DEF Current
<1> QED
  BY <1>1, <1>2, <1>3, CallbackOn

\* Every step keeps the collection complete: a round starts with all the garbage, or
\* with what the last one put off, and no free makes garbage that it does not notice.
THEOREM StepGathers ==
    ASSUME Shape, Shape', Gathers, [Next]_vars, ~CallbacksRun
    PROVE  Gathers'
<1>a. Tables /\ Stack(jobs) /\ Tables'
  BY ShapeParts
<1>b. ASSUME NEW j, Collecting(jobs') => Current(jobs') = j,
             Doomed(j) \cap Reach(CRoots)' = {}, j.obj # Nobody => Sole(j.obj)',
             ~j.ran => \A o \in j.rest : ~Sole(o)', ~changed' => Garbage' \subseteq Doomed(j)
      PROVE  Gathers'
  BY <1>b DEF Gathers, Gathered
<1>c. Garbage \in SUBSET Objs
  BY CollectorAssumption DEF Garbage, Candidates
<1>d. ASSUME Collecting(jobs), Top.kind = "reclaim"
      PROVE  /\ jobs # <<>> /\ Top \in JobType /\ Current(jobs) = Top /\ Gathered(Top)
             /\ LocalsOf(jobs) = LocalsOf(<<>>) /\ Reclaiming
  <2>1. jobs # <<>> /\ Current(jobs) = Top
    BY <1>d DEF Collecting, Current, Top
  <2>2. Top \in JobType /\ Len(jobs) = 1 /\ Front(jobs) = <<>>
    BY <1>a, <1>d, <2>1, TopFacts
  <2>3. LocalsOf(jobs) = LocalsOf(<<>>)
    BY <1>a, <1>d, <2>1, <2>2, PopLocals DEF Stack, Top, Python
  <2>4. Head(jobs) = Top
    BY <1>a, <2>1, <2>2 DEF Top, Last, Stack
  <2> QED
    BY <1>d, <2>1, <2>2, <2>3, <2>4 DEF Gathers, Reclaiming
<1>1. CASE UNCHANGED vars
  <2>1. /\ UNCHANGED <<near, far, cheld, holds, released, pendingDel, pendingWeak>>
        /\ UNCHANGED <<jobs, changed>>
    BY <1>1 DEF vars, graph
  <2>2. Garbage' = Garbage /\ Reach(CRoots)' = Reach(CRoots) /\ \A q : Sole(q)' = Sole(q)
    BY <2>1, GarbageStays
  <2> QED
    BY <1>b, <2>1, <2>2 DEF Gathers, Gathered
<1>2. CASE Next /\ Collecting(jobs') /\ ~Collecting(jobs)
  <2>1. Reclaim
    BY <1>a, <1>2, StartsCollecting
  <2>2. /\ jobs = <<>> /\ jobs' = <<Job("reclaim", Nobody, Garbage, {})>> /\ ~changed'
        /\ UNCHANGED <<near, far, cheld, holds, released, pendingDel, pendingWeak>>
    BY <2>1 DEF Reclaim, graph
  <2>3. /\ LocalsOf(jobs') = LocalsOf(jobs) /\ Current(jobs').obj = Nobody
        /\ Current(jobs').rest = {} /\ Doomed(Current(jobs')) = Garbage
    BY <1>c, <2>2, RoundStarts
  <2>4. Garbage' = Garbage /\ Reach(CRoots)' = Reach(CRoots)
    BY <2>2, <2>3, GarbageStays
  <2> QED
    BY <1>b, <2>2, <2>3, <2>4 DEF Gathered, Garbage
<1>3. CASE NextRound /\ Collecting(jobs)
  <2>1. /\ Top.kind = "reclaim" /\ Top.todo = {} /\ Top.obj = Nobody
        /\ UNCHANGED <<near, far, cheld, holds, released, pendingDel, pendingWeak>>
    BY <1>3 DEF NextRound, Doing, graph
  <2>2. /\ Top \in JobType /\ Gathered(Top) /\ LocalsOf(jobs) = LocalsOf(<<>>)
    BY <1>3, <1>d, <2>1
  <2>3. Doomed(Top) = Top.rest /\ Top.rest \in SUBSET Objs
    BY <2>1, <2>2, CollectorAssumption DEF Doomed, JobType
  <2>4. ASSUME NEW t \in SUBSET Objs, jobs' = <<Job("reclaim", Nobody, t, {})>>,
               t \cap Reach(CRoots) = {}, ~changed' => Garbage \subseteq t
        PROVE  Gathers'
    <3>1. /\ LocalsOf(jobs') = LocalsOf(jobs) /\ Current(jobs').obj = Nobody
          /\ Current(jobs').rest = {} /\ Doomed(Current(jobs')) = t
      BY <2>2, <2>4, RoundStarts
    <3>2. Garbage' = Garbage /\ Reach(CRoots)' = Reach(CRoots)
      BY <2>1, <3>1, GarbageStays
    <3> QED
      BY <1>b, <2>4, <3>1, <3>2 DEF Gathered
  <2>5. Garbage \cap Reach(CRoots) = {}
    BY DEF Garbage
  <2>6. CASE Top.rest # {} /\ Top.ran
    BY <1>3, <2>2, <2>3, <2>4, <2>6 DEF NextRound, Gathered
  <2>7. CASE ~(Top.rest # {} /\ Top.ran) /\ changed
    BY <1>3, <1>c, <2>4, <2>5, <2>7 DEF NextRound
  <2>8. CASE ~(Top.rest # {} /\ Top.ran) /\ ~changed
    BY <1>3, <2>8 DEF NextRound, Collecting, Gathers
  <2> QED
    BY <2>6, <2>7, <2>8
<1>4. CASE Leaves /\ Collecting(jobs)
  <2>1. /\ jobs # <<>> /\ jobs' = Front(jobs) /\ Top.kind = "callback"
        /\ UNCHANGED <<near, far, cheld, holds, released, pendingDel, pendingWeak>>
        /\ UNCHANGED changed
    BY <1>4 DEF Leaves, Doing, graph, Collecting, Current, Top
  <2>2. /\ Front(jobs) # <<>> /\ Last(Front(jobs)) = jobs[Len(jobs) - 1]
        /\ Last(Front(jobs)).kind # "callback"
    BY <1>a, <2>1, TopFacts
  <2>3. Current(jobs') = Current(jobs)
    BY <2>1, <2>2 DEF Current, Top
  <2>4. LocalsOf(jobs') = LocalsOf(jobs)
    BY <1>a, <2>1, PopLocals DEF Stack, Top, Python
  <2>5. Garbage' = Garbage /\ Reach(CRoots)' = Reach(CRoots) /\ \A q : Sole(q)' = Sole(q)
    BY <2>1, <2>4, GarbageStays
  <2> QED
    BY <1>4, <1>b, <2>1, <2>3, <2>5 DEF Gathers, Gathered
<1>5. ASSUME NEW o \in Objs, Clear(o), Collecting(jobs) PROVE Gathers'
  <2>1. /\ Top.kind = "reclaim" /\ Top.obj = Nobody /\ o \in Top.todo
        /\ UNCHANGED <<near, far, cheld, holds, released, pendingDel, pendingWeak>>
        /\ UNCHANGED changed
    BY <1>5 DEF Clear, Doing, graph, Collecting, Current, Top
  <2>2. jobs # <<>> /\ Top \in JobType /\ Gathered(Top)
    BY <1>5, <1>d, <2>1
  <2> DEFINE j == [Top EXCEPT !.todo = @ \ {o},
                              !.obj = IF Sole(o) THEN o ELSE @,
                              !.rest = IF Sole(o) \/ ~Struct(o) THEN @ ELSE @ \cup {o}]
  <2>3. \/ jobs' = Replaced(jobs, j)
        \/ jobs' = Append(Replaced(jobs, j), Job("callback", o, {}, {}))
    BY <1>5, <2>1 DEF Clear, Doing
  <2>4. /\ j \in JobType /\ j.kind = "reclaim" /\ j.ran = Top.ran
        /\ j.obj = (IF Sole(o) THEN o ELSE Nobody)
        /\ j.todo = Top.todo \ {o}
        /\ j.rest = IF Sole(o) \/ ~Struct(o) THEN Top.rest ELSE Top.rest \cup {o}
    BY <2>1, <2>2 DEF JobType
  <2> HIDE DEF j
  <2>5. Current(jobs') = j /\ LocalsOf(jobs') = LocalsOf(jobs)
    BY <1>a, <2>1, <2>2, <2>3, <2>4, TopGoesOn
  <2>6. Garbage' = Garbage /\ Reach(CRoots)' = Reach(CRoots) /\ \A q : Sole(q)' = Sole(q)
    BY <2>1, <2>5, GarbageStays
  <2>7. /\ Doomed(j) \subseteq Doomed(Top)
        /\ Garbage \cap Doomed(Top) \subseteq Doomed(j)
    <3>1. Doomed(j) \subseteq Doomed(Top)
      BY <2>1, <2>4 DEF Doomed
    <3>2. ASSUME NEW q \in Garbage \cap Doomed(Top) PROVE q \in Doomed(j)
      <4>1. Sole(q) /\ q \in Objs /\ q # Nobody
        BY CollectorAssumption DEF Garbage, Candidates
      <4> QED
        BY <2>1, <2>4, <3>2, <4>1 DEF Doomed
    <3> QED
      BY <3>1, <3>2
  <2>8. ~Top.ran => \A q \in j.rest : ~Sole(q)
    BY <2>2, <2>4 DEF Gathered
  <2>9. j.obj # Nobody => Sole(j.obj)
    BY <2>4
  <2> QED
    BY <1>b, <2>1, <2>2, <2>4, <2>5, <2>6, <2>7, <2>8, <2>9 DEF Gathered
<1>6. CASE Release /\ Collecting(jobs)
  <2>1. /\ Top.kind = "reclaim" /\ Top.obj # Nobody
        /\ UNCHANGED <<near, far, cheld, holds, pendingDel, pendingWeak>>
    BY <1>6 DEF Release, Doing, graph, Collecting, Current, Top
  <2>2. jobs # <<>> /\ Top \in JobType /\ Gathered(Top) /\ Reclaiming
    BY <1>6, <1>d, <2>1
  <2>3. Sole(Top.obj) /\ Top.obj \in Objs
    BY <2>1, <2>2 DEF Gathered, JobType
  <2> DEFINE j == [Top EXCEPT !.obj = Nobody, !.ran = TRUE]
  <2>4. /\ released' = released \cup {Top.obj}
        /\ changed' = (changed \/ RootGoes(Top.obj))
        /\ jobs' = Replaced(jobs, j)
    <3>1. [Top EXCEPT !.obj = Nobody, !.ran = @ \/ Sole(Top.obj)] = j
      BY <2>2, <2>3 DEF JobType
    <3> QED
      BY <1>6, <2>2, <2>3, <3>1 DEF Release
  <2>5. /\ j \in JobType /\ j.kind = "reclaim" /\ j.ran /\ j.obj = Nobody
        /\ Doomed(Top) \ {Top.obj} \subseteq Doomed(j) /\ Doomed(j) \subseteq Doomed(Top)
    BY <2>1, <2>2, CollectorAssumption DEF JobType, Doomed
  <2> HIDE DEF j
  <2>6. Current(jobs') = j /\ LocalsOf(jobs') = LocalsOf(jobs)
    BY <1>a, <2>1, <2>2, <2>3, <2>4, <2>5, TopGoesOn
  <2>7. Top.obj \notin Reach(CRoots)
    BY <2>2, <2>3 DEF Gathered, Doomed
  <2>8. /\ Reach(CRoots)' \subseteq Reach(CRoots)
        /\ ~RootGoes(Top.obj) => Garbage' \subseteq Garbage \ {Top.obj}
    BY <1>a, <2>1, <2>3, <2>4, <2>6, <2>7, FreeOne
  <2>9. ~changed' => Garbage' \subseteq Doomed(j)
    BY <2>2, <2>4, <2>5, <2>8 DEF Gathered
  <2>10. Doomed(j) \cap Reach(CRoots)' = {}
    BY <2>2, <2>5, <2>8 DEF Gathered
  <2> QED
    BY <1>b, <2>5, <2>6, <2>9, <2>10 DEF Gathered
<1>7. CASE ~Collecting(jobs')
  BY <1>7 DEF Gathers
<1> QED
  BY <1>a, <1>1, <1>2, <1>3, <1>4, <1>5, <1>6, <1>7, OnlyCollecting

\* When the collection between tests ends, another mark would find nothing: whatever
\* was Python's garbage when it started, or became garbage as other structs went, is
\* freed, in every order of the frees.  Callbacks do nothing; a __del__ may raise.
THEOREM ReclaimIsComplete ==
    ASSUME ~CallbacksRun
    PROVE  Spec => ReclaimTakesAll
<1> DEFINE Step1 == Doing("reclaim") /\ jobs' = <<>> => Garbage = {}
           I == Shape /\ Gathers
<1>1. Init => I
  <2>1. Init => Shape
    BY InitInv DEF Inv
  <2>2. Init => Gathers
    BY DEF Init, Gathers, Collecting
  <2> QED
    BY <2>1, <2>2
<1>2. I /\ [Next]_vars => I'
  <2>1. Shape /\ [Next]_vars => Shape'
    BY StepShape
  <2>2. Shape /\ Shape' /\ Gathers /\ [Next]_vars => Gathers'
    BY StepGathers
  <2> QED
    BY <2>1, <2>2
<1>3. I /\ [Next]_vars => [Step1]_vars
  <2> SUFFICES ASSUME Shape, Gathers, Next, Doing("reclaim"), jobs' = <<>>
               PROVE  Garbage = {}
    BY DEF vars, Doing
  <2>1. Tables /\ Stack(jobs) /\ jobs # <<>> /\ Top.kind = "reclaim"
    BY ShapeParts DEF Doing
  <2>2. Current(jobs) = Top /\ Collecting(jobs) /\ Gathered(Top) /\ Top \in JobType
    BY <2>1, TopFacts DEF Current, Collecting, Top, Gathers
  <2>3. NextRound
    <3>1. ASSUME NEW o \in Objs, Clear(o) PROVE FALSE
      <4>1. PICK j \in JobType :
              /\ j.kind = Top.kind
              /\ \/ jobs' = Replaced(jobs, j)
                 \/ jobs' = Append(Replaced(jobs, j), Job("callback", o, {}, {}))
        BY <2>1, <3>1, ClearTop
      <4>2. Replaced(jobs, j) \in Seq(JobType) /\ Replaced(jobs, j) # <<>>
        BY <2>1, <4>1, SetJob DEF Stack
      <4>3. Append(Replaced(jobs, j), Job("callback", o, {}, {})) # <<>>
        BY <4>2, MakeCallback, PushJob
      <4> QED
        BY <4>1, <4>2, <4>3
    <3>2. ASSUME Release PROVE FALSE
      <4> DEFINE j == [Top EXCEPT !.obj = Nobody, !.ran = @ \/ Sole(Top.obj)]
      <4>1. Sole(Top.obj) \in BOOLEAN
        BY <2>1, SoleUncounted
      <4>2. j \in JobType
        BY <2>2, <4>1 DEF JobType
      <4>3. jobs' = Replaced(jobs, j)
        BY <3>2 DEF Release
      <4> HIDE DEF j
      <4> QED
        BY <2>1, <4>2, <4>3, SetJob DEF Stack
    <3>3. ~Leaves
      BY <2>1 DEF Leaves, Doing
    <3> QED
      BY <2>1, <2>2, <3>1, <3>2, <3>3, OnlyCollecting
  <2>4. /\ Top.todo = {} /\ Top.obj = Nobody
        /\ ~changed /\ (Top.rest = {} \/ ~Top.ran)
    BY <2>3 DEF NextRound
  <2>5. Garbage \subseteq Top.rest
    BY <2>2, <2>4, CollectorAssumption DEF Gathered, Doomed
  <2>6. \A q \in Garbage : Sole(q)
    BY DEF Garbage, Candidates
  <2> QED
    BY <2>2, <2>4, <2>5, <2>6 DEF Gathered
<1>4. [][Step1]_vars => ReclaimTakesAll
  BY DEF ReclaimTakesAll
<1>5. Spec => [][Step1]_vars
  <2> HIDE DEF Step1, I
  <2> QED
    BY <1>1, <1>2, <1>3, PTL DEF Spec
<1> QED
  BY <1>4, <1>5

=============================================================================
