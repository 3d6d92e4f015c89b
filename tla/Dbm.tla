-------------------------------- MODULE Dbm --------------------------------
(***************************************************************************)
(* The dbm package Brython gets (src/loader/wasthon-dbm.js): dbm.dumb, a    *)
(* dictionary in files.  The values lie in spam.dat, each from the start of *)
(* a block; spam.dir is the index, key by key (position, size); spam.bak is *)
(* the index before the last commit.  An open database has the index in    *)
(* memory, and spam.dir is out of step with it until it commits.            *)
(*                                                                         *)
(* Nothing ties a database object to its files: another one may be open on *)
(* them, and an object that is dropped without close() (Brython does not   *)
(* run __del__ then) never commits.  A call may raise half-way, where it    *)
(* opens or writes a file.                                                   *)
(*                                                                         *)
(* An index file is the function its lines make of it, a later line of a   *)
(* key counting; a value is a sequence of bytes.                             *)
(***************************************************************************)
EXTENDS Integers, Sequences, FiniteSets, Functions

CONSTANTS
    Handles,    \* database objects on one file name
    Keys,
    Values,     \* the values stored, sequences of bytes
    Flags,      \* flags of open() other than 'n'
    Nul,        \* the byte of the padding
    BS,         \* _BLOCKSIZE (512)
    None,       \* no file; no index: the object is closed
    MaxDat,     \* bound: length of spam.dat
    MaxTorn     \* bound: commits in a row that raise

Bytes == {Nul} \cup UNION {Range(v) : v \in Values}

ASSUME DbmAssumption ==
    /\ BS \in Nat \ {0} /\ MaxDat \in Nat /\ MaxTorn \in Nat
    /\ \A v \in Values : v \in Seq(Bytes)
    /\ None \notin Handles /\ None \notin Seq(Bytes)
    /\ \A S \in SUBSET Keys : None \notin [S -> Nat \X Nat]

VARIABLES
    dat, dir, bak,  \* the files; None when there is none
    index,      \* object -> key -> <<position, size>>; None when closed
    modified,   \* object -> the index has changed since it was read or written
    readonly,   \* object -> opened with flag 'r'
    newest,     \* ghost: the object opened last, while it is open
    raced,      \* ghost: an older object has written since the files were made
    view,       \* ghost: key -> the value newest has for the program
    saved,      \* ghost: key -> value, at the last commit that came through
    touched,    \* ghost: keys stored or deleted since
    torn        \* ghost: commits that have raised since

files == <<dat, dir, bak>>
objects == <<index, modified, readonly, newest>>
ghosts == <<raced, view, saved, touched, torn>>
vars == <<files, objects, ghosts>>

Empty == <<>>   \* no keys
Open == {h \in Handles : index[h] # None}
Set(f, k, x) == [i \in DOMAIN f \cup {k} |-> IF i = k THEN x ELSE f[i]]
Without(f, k) == Restrict(f, DOMAIN f \ {k})

Init == /\ dat = None /\ dir = None /\ bak = None
        /\ index = [h \in Handles |-> None]
        /\ modified = [h \in Handles |-> FALSE]
        /\ readonly = [h \in Handles |-> FALSE]
        /\ newest = None
        /\ raced = FALSE /\ view = Empty /\ saved = Empty /\ touched = {} /\ torn = 0

\* What the program expects after a step of h; nothing, once an older object
\* has written.
Expect(h, w, s, t, n) ==
    LET race == raced \/ h # newest
    IN  /\ raced' = race
        /\ view' = IF race THEN Empty ELSE w
        /\ saved' = IF race THEN Empty ELSE s
        /\ touched' = IF race THEN {} ELSE t
        /\ torn' = IF race THEN 0 ELSE n

----------------------------------------------------------------------------
(* The data file. *)

Blocks(n) == (n + BS - 1) \div BS

\* Where the next value goes.  Mutant: right behind the last one.
AlignedUnpadded(n) == n
Aligned(n) == BS * Blocks(n)

Padding(n) == [i \in 1..(Aligned(n) - n) |-> Nul]

\* _addval: padded to a block, the value at the end.
Added(v) == dat \o Padding(Len(dat)) \o v

\* _setval: over what is there.
Overwritten(pos, v) ==
    [i \in 1..(IF pos + Len(v) > Len(dat) THEN pos + Len(v) ELSE Len(dat)) |->
        IF i \in (pos + 1)..(pos + Len(v)) THEN v[i - pos] ELSE dat[i]]

ValueAt(e) == SubSeq(dat, e[1] + 1, e[1] + e[2])

----------------------------------------------------------------------------
(* Opening: _create and _update. *)

Opened(h, flag, idx) ==
    /\ index' = [index EXCEPT ![h] = idx]
    /\ readonly' = [readonly EXCEPT ![h] = flag = "r"]
    /\ newest' = h
    /\ UNCHANGED modified

\* The files are there, or are made.  With flag 'c' a missing spam.dir is made
\* empty, whatever spam.bak has.
OpenOld(h, flag) ==
    LET idx == IF dir = None THEN Empty ELSE dir
    IN  /\ flag = "c" \/ (dat # None /\ dir # None)
        /\ Opened(h, flag, idx)
        /\ dat' = IF dat = None THEN <<>> ELSE dat
        /\ dir' = idx
        /\ view' = IF raced THEN Empty ELSE [k \in DOMAIN idx |-> ValueAt(idx[k])]
        /\ UNCHANGED <<bak, raced, saved, touched, torn>>

\* Flag 'n' removes the files first; no other object is open on them.
OpenNew(h) ==
    /\ Open = {}
    /\ Opened(h, "n", Empty)
    /\ dat' = <<>> /\ dir' = Empty /\ bak' = None
    /\ raced' = FALSE /\ view' = Empty /\ saved' = Empty /\ touched' = {} /\ torn' = 0

OpenDb(h) ==
    /\ h \notin Open
    /\ \/ \E flag \in Flags : OpenOld(h, flag)
       \/ OpenNew(h)

----------------------------------------------------------------------------
(* _commit. *)

\* What a commit of idx leaves of the index file: nothing when it cannot be
\* opened, or the entries written before one raises.
Partial(idx) ==
    {None} \cup {Restrict(idx, S) : S \in (SUBSET DOMAIN idx) \ {DOMAIN idx}}

\* The backup is dropped, the index file becomes the backup.  Mutant: the index
\* file is written in place.
BackedUpNot == UNCHANGED bak
BackedUp == bak' = dir

\* Write idx.
Written(idx) == BackedUp /\ dir' = idx

\* The same, raising half-way.
Torn(idx) == torn < MaxTorn /\ BackedUp /\ dir' \in Partial(idx)

Sync(h) ==
    /\ modified[h]
    /\ \/ /\ Written(index[h])
          /\ modified' = [modified EXCEPT ![h] = FALSE]
          /\ Expect(h, view, view, {}, 0)
       \/ /\ Torn(index[h])
          /\ UNCHANGED modified
          /\ Expect(h, view, saved, touched, torn + 1)
    /\ UNCHANGED <<dat, index, readonly, newest>>

\* The object is gone.
Gone(h) == /\ index' = [index EXCEPT ![h] = None]
           /\ modified' = [modified EXCEPT ![h] = FALSE]
           /\ readonly' = [readonly EXCEPT ![h] = FALSE]
           /\ newest' = IF h = newest THEN None ELSE newest

\* It is closed also when its commit raises.
Close(h) ==
    /\ \/ /\ modified[h] /\ Written(index[h])
          /\ Expect(h, Empty, view, {}, 0)
       \/ /\ modified[h] /\ Torn(index[h])
          /\ Expect(h, Empty, saved, touched, torn + 1)
       \/ ~ modified[h] /\ UNCHANGED <<dir, bak, ghosts>>
    /\ Gone(h)
    /\ UNCHANGED dat

\* Dropped without close().
Drop(h) == Gone(h) /\ UNCHANGED <<files, ghosts>>

----------------------------------------------------------------------------
(* Storing. *)

Fits(v) == Len(Added(v)) <= MaxDat

\* An entry for k in memory.
Entry(h, k, e, v) == /\ index' = [index EXCEPT ![h] = Set(@, k, e)]
                     /\ modified' = [modified EXCEPT ![h] = TRUE]
                     /\ Expect(h, Set(view, k, v), saved, touched \cup {k}, torn)
                     /\ UNCHANGED <<bak, readonly, newest>>

\* __setitem__ of a new key: the value at the end, a line more in the index
\* file, unless that raises; then it may have been made.
AddKey(h, k, v) ==
    LET e == <<Aligned(Len(dat)), Len(v)>>
    IN  /\ k \notin DOMAIN index[h] /\ Fits(v)
        /\ dat' = Added(v)
        /\ LET was == IF dir = None THEN Empty ELSE dir
           IN  dir' \in {dir, was, Set(was, k, e)}
        /\ Entry(h, k, e, v)

\* The same for any new key, raising before the value is there: the file is
\* padded at most.
AddFails(h) ==
    /\ ~ readonly[h] /\ Keys \ DOMAIN index[h] # {} /\ Aligned(Len(dat)) <= MaxDat
    /\ dat' \in {dat, dat \o Padding(Len(dat))}
    /\ modified' = [modified EXCEPT ![h] = TRUE]
    /\ UNCHANGED <<dir, bak, index, readonly, newest, ghosts>>

\* Room enough in the blocks of the old value.  Mutant: one block more.
RoomyMore(old, v) == Blocks(Len(v)) <= Blocks(old) + 1
Roomy(old, v) == Blocks(Len(v)) <= Blocks(old)

\* Mutant: the old size.
InPlaceOldSize(e, v) == e
InPlace(e, v) == <<e[1], Len(v)>>

\* __setitem__ of a key that is there: in its place if there is room, else at
\* the end; the index file learns of it at the next commit.
SetInPlace(h, k, v) ==
    /\ k \in DOMAIN index[h] /\ Roomy(index[h][k][2], v)
    /\ Len(Overwritten(index[h][k][1], v)) <= MaxDat
    /\ dat' = Overwritten(index[h][k][1], v)
    /\ UNCHANGED dir
    /\ Entry(h, k, InPlace(index[h][k], v), v)

Move(h, k, v) ==
    /\ k \in DOMAIN index[h] /\ ~ Roomy(index[h][k][2], v) /\ Fits(v)
    /\ dat' = Added(v)
    /\ UNCHANGED dir
    /\ Entry(h, k, <<Aligned(Len(dat)), Len(v)>>, v)

SetItem(h, k, v) ==
    /\ ~ readonly[h]
    /\ AddKey(h, k, v) \/ SetInPlace(h, k, v) \/ Move(h, k, v)

\* __delitem__ commits.
DelItem(h, k) ==
    LET idx == Without(index[h], k)
        w == Without(view, k)
    IN  /\ ~ readonly[h] /\ k \in DOMAIN index[h]
        /\ index' = [index EXCEPT ![h] = idx]
        /\ \/ /\ Written(idx)
              /\ modified' = [modified EXCEPT ![h] = FALSE]
              /\ Expect(h, w, w, {}, 0)
           \/ /\ Torn(idx)
              /\ modified' = [modified EXCEPT ![h] = TRUE]
              /\ Expect(h, w, saved, touched \cup {k}, torn + 1)
        /\ UNCHANGED <<dat, readonly, newest>>

\* A KeyError, and the index counts as modified.
DelMissing(h) ==
    /\ ~ readonly[h] /\ Keys \ DOMAIN index[h] # {}
    /\ modified' = [modified EXCEPT ![h] = TRUE]
    /\ UNCHANGED <<files, index, readonly, newest, ghosts>>

Next ==
    \/ \E h \in Handles : OpenDb(h)
    \/ \E h \in Open :
        \/ Sync(h) \/ Close(h) \/ Drop(h) \/ AddFails(h) \/ DelMissing(h)
        \/ \E k \in Keys : DelItem(h, k) \/ \E v \in Values : SetItem(h, k, v)

Spec == Init /\ [][Next]_vars

----------------------------------------------------------------------------

IsIndex(f) == /\ DOMAIN f \subseteq Keys
              /\ \A k \in DOMAIN f : f[k] \in Nat \X Nat

\* Files and indexes are well typed, and an entry begins at a block.
TypeOK ==
    /\ dat = None \/ Len(dat) \in 0..MaxDat
    /\ \A f \in {dir, bak} \cup Range(index) :
        f # None => /\ IsIndex(f)
                    /\ \A k \in DOMAIN f : f[k][1] % BS = 0
    /\ modified \in [Handles -> BOOLEAN] /\ readonly \in [Handles -> BOOLEAN]
    /\ dir # None \/ bak # None \/ Open # {} => dat # None

\* Where the blocks of an entry end.
End(e) == e[1] + BS * Blocks(e[2])
Apart(e, f) == End(e) <= f[1] \/ End(f) <= e[1]

\* The indexes there are, in memory and in files.
Indexes == {f \in {dir, bak} \cup Range(index) : f # None}

\* No two keys share a block, in whatever index the one and the other are found:
\* of open objects, of the index file or its backup, after drops, half-done
\* commits and objects that take turns.  And every value lies in the file.
RegionsSound ==
    \A f, g \in Indexes : \A k \in DOMAIN f, l \in DOMAIN g :
        /\ f[k][1] + f[k][2] <= Len(dat)
        /\ k # l => Apart(f[k], g[l])

\* The newest object gives for each key what was stored last.
ReadBack ==
    newest # None /\ ~ raced =>
        /\ DOMAIN index[newest] = DOMAIN view
        /\ \A k \in DOMAIN index[newest] : ValueAt(index[newest][k]) = view[k]

\* A key that was not touched since the last commit has its value in the index
\* file, or in the backup when the next commit has not come through.  (The one
\* after that drops the backup.)
CommittedSurvives ==
    ~ raced /\ torn < 2 => \A k \in DOMAIN saved \ touched :
        LET f == IF torn = 1 THEN bak ELSE dir
        IN  f # None /\ k \in DOMAIN f /\ ValueAt(f[k]) = saved[k]

=============================================================================
