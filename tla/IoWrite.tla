------------------------------ MODULE IoWrite ------------------------------
(***************************************************************************)
(* The writable io layer (src/loader/wasthon-io-write.js) over the file    *)
(* system of MemFs: FileIO is a descriptor, a TextIOWrapper decodes all     *)
(* that is left of the file at its first read and hands out parts of that  *)
(* text.  While it has one, the descriptor stands at the end of the file,  *)
(* and where the program is in it is start + the bytes of the text taken.  *)
(*                                                                         *)
(* A text is a sequence of characters: the bytes of Byte other than Trail,   *)
(* where Lead stands for the character that takes two bytes, Lead Trail.     *)
(***************************************************************************)
EXTENDS MemFs

CONSTANTS
    CR, LF, Lead, Trail, \* bytes
    Modes,          \* modes of open(), as sets of the letters r w a x +
    Newlines,       \* newline arguments: NoNewline (None), "" or a text
    NoNewline, Untranslated,
    Chunks,         \* what is written to binary files
    Texts,          \* what is written to text files
    Sizes,          \* arguments of read(): a count, or -1
    Seeks, TextSeeks,   \* arguments of seek(): <<offset, whence>>
    CloseFds,       \* arguments closefd of open() on a descriptor
    ChangesUnread,  \* TRUE: a file may change where it was read ahead
    MaxRaws, MaxTexts   \* bounds: objects ever made

ASSUME IoAssumption ==
    /\ {CR, LF, Lead, Trail} \subseteq Byte
    /\ Lead # Trail /\ {Lead, Trail} \cap {CR, LF} = {}
    /\ Chunks \subseteq Seq(Byte) /\ Texts \subseteq Seq(Byte \ {Trail})
    /\ Sizes \subseteq Int
    /\ Seeks \cup TextSeeks \subseteq Int \X {"set", "cur", "end"}
    /\ CloseFds \subseteq BOOLEAN /\ ChangesUnread \in BOOLEAN

VARIABLES
    raws,       \* FileIO objects: [fd, readable, closefd, closed]
    texts       \* TextIOWrappers: [raw, newline, cached, text, pos, start,
                \* closed]; read (ghost): the bytes text was decoded from

vars == <<fsVars, raws, texts>>
objects == <<raws, texts>>

IoInit == Init /\ raws = <<>> /\ texts = <<>>

----------------------------------------------------------------------------
(* Characters. *)

\* Every Lead has its Trail.
Decodable(b) == \A i \in DOMAIN b :
    /\ b[i] = Lead => i < Len(b) /\ b[i + 1] = Trail
    /\ b[i] = Trail => i > 1 /\ b[i - 1] = Lead

\* The elements of s whose places are in S, in their order.
Nth(S, k) == CHOOSE i \in S : Cardinality({j \in S : j <= i}) = k
Picked(s, S) == [k \in 1..Cardinality(S) |-> s[Nth(S, k)]]

Decode(b) == Picked(b, {i \in DOMAIN b : b[i] # Trail})

\* Of two slots for each character, the first ones and the second ones of Lead.
Spread(t) == [i \in 1..(2 * Len(t)) |-> IF i % 2 = 1 THEN t[(i + 1) \div 2] ELSE Trail]
Slots(t)  == {i \in 1..(2 * Len(t)) : i % 2 = 1 \/ t[i \div 2] = Lead}
Encode(t) == Picked(Spread(t), Slots(t))

\* CR LF and CR become LF.
Translate(t) ==
    LET kept == {i \in DOMAIN t : ~ (t[i] = LF /\ i > 1 /\ t[i - 1] = CR)}
    IN  Picked([i \in DOMAIN t |-> IF t[i] = CR THEN LF ELSE t[i]], kept)

TextOf(b, newline) == IF newline = NoNewline THEN Translate(Decode(b)) ELSE Decode(b)

Bytelen(t) == Len(t) + Cardinality({i \in DOMAIN t : t[i] = Lead})

----------------------------------------------------------------------------
(* Who may do what: the program uses no descriptor that is closed, and one   *)
(* that was read ahead only through the wrapper that did.  Unless            *)
(* ChangesUnread, no file changes where a wrapper has read it ahead and has  *)
(* text left to hand out; the wrapper itself checks nothing of the kind.     *)

Fd(s) == raws[texts[s].raw].fd
Reading == {s \in DOMAIN texts : texts[s].cached /\ ~ texts[s].closed}
Ahead(d) == \E s \in Reading : Fd(s) = d
Raw == {o \in DOMAIN raws : ~ raws[o].closed /\ raws[o].fd \in Opened /\ ~ Ahead(raws[o].fd)}
Text == {s \in DOMAIN texts : /\ ~ texts[s].closed /\ ~ raws[texts[s].raw].closed
                              /\ Fd(s) \in Opened
                              /\ \A r \in Reading : Fd(r) = Fd(s) => r = s}

\* What follows byte k of node n may change, as far as the wrappers in S go.
MayChange(n, k, S) ==
    \/ ChangesUnread
    \/ \A s \in S : \/ fds[Fd(s)].node # n \/ fds[Fd(s)].pos <= k
                    \/ texts[s].pos = Len(texts[s].text)

\* The file system is left alone.
Idle == UNCHANGED <<nodes, inode, fds>> /\ got' = <<>>

----------------------------------------------------------------------------
(* open(). *)

\* modeToFlags.
ModeToFlags(mode) ==
    [creat |-> mode \cap {"w", "a", "x"} # {}, excl |-> "x" \in mode,
     trunc |-> "w" \in mode, append |-> "a" \in mode,
     acc |-> IF "+" \in mode THEN "rdwr"
             ELSE IF mode \cap {"w", "a", "x"} # {} THEN "wronly" ELSE "rdonly"]

FileIO(fd, mode, closefd) ==
    [fd |-> fd, readable |-> mode \cap {"r", "+"} # {}, closefd |-> closefd, closed |-> FALSE]

Wrapper(o, newline) ==
    [raw |-> o, newline |-> newline, cached |-> FALSE, text |-> <<>>, pos |-> 0,
     start |-> 0, read |-> <<>>, closed |-> FALSE]

\* A path: a read of one the file system does not have is Brython's own.
\* sys.open leaves an appending descriptor where the lseek of tp_init puts it.
OpenPath(p, mode) ==
    /\ Len(raws) < MaxRaws
    /\ "w" \in mode /\ nodes[p] # 0 => MayChange(nodes[p], 0, Reading)
    /\ Open(p, ModeToFlags(mode))
    /\ raws' = Append(raws, FileIO(Len(fds'), mode, TRUE))

OpenBinary(p, mode) == OpenPath(p, mode) /\ UNCHANGED texts

OpenText(p, mode, newline) ==
    /\ Len(texts) < MaxTexts
    /\ OpenPath(p, mode)
    /\ texts' = Append(texts, Wrapper(Len(raws'), newline))

\* A descriptor, as tempfile has it; the mode is not compared with its flags.
OpenFd(d, mode, closefd) ==
    /\ Len(raws) < MaxRaws /\ ~ Ahead(d)
    /\ raws' = Append(raws, FileIO(d, mode, closefd))
    /\ IF "a" \in mode THEN Lseek(d, 0, "end") ELSE Idle

OpenFdBinary(d, mode, closefd) == OpenFd(d, mode, closefd) /\ UNCHANGED texts

OpenFdText(d, mode, closefd, newline) ==
    /\ Len(texts) < MaxTexts
    /\ OpenFd(d, mode, closefd)
    /\ texts' = Append(texts, Wrapper(Len(raws'), newline))

----------------------------------------------------------------------------
(* FileIO. *)

\* What read() asks sys.read for: by default all there is from here on.
Wanted(d, size) ==
    IF size >= 0 THEN size ELSE Larger(NodeOf(d).size - fds[d].pos, 0)

FRead(o, size) == /\ raws[o].readable
                  /\ Read(raws[o].fd, Wanted(raws[o].fd, size))
                  /\ UNCHANGED objects

\* Byte by byte up to a line feed or the limit.
LineLength(d, lim) ==
    LET left == Wanted(d, -1)
        ends == {k \in 1..left : \/ NodeOf(d).data[fds[d].pos + k] = LF
                                 \/ k = lim}
    IN  IF lim = 0 THEN 0 ELSE Min(ends \cup {left})

FReadline(o, lim) == /\ raws[o].readable
                     /\ Read(raws[o].fd, LineLength(raws[o].fd, lim))
                     /\ UNCHANGED objects

FWrite(o, u8) ==
    LET d == raws[o].fd
    IN  /\ MayChange(fds[d].node, WriteAt(d, fds[d].pos), Reading)
        /\ Write(d, u8)
        /\ UNCHANGED objects

FSeek(o, pos, how) == Lseek(raws[o].fd, pos, how) /\ UNCHANGED objects

\* Without a size, at the position.  Assumed: not before the start, where the code
\* makes a file of a negative size.
FTruncate(o, size) ==
    LET d == raws[o].fd
        n == IF size >= 0 THEN size ELSE fds[d].pos
    IN  /\ n \in 0..MaxLen /\ MayChange(fds[d].node, n, Reading)
        /\ Ftruncate(d, n)
        /\ UNCHANGED objects

FClose(o) ==
    /\ IF raws[o].closefd THEN Close(raws[o].fd) ELSE Idle
    /\ raws' = [raws EXCEPT ![o].closed = TRUE]
    /\ UNCHANGED texts

----------------------------------------------------------------------------
(* TextIOWrapper. *)

\* ensureText: the wrapper with the text it reads from, decoded now unless it
\* has one.  Mutant: it is taken to start where the file does.
EnsureTextFromZero(s) ==
    LET w == texts[s]
        d == Fd(s)
        b == Slice(d, ReadEnd(d, Wanted(d, -1)))
    IN  IF w.cached THEN w
        ELSE [w EXCEPT !.cached = TRUE, !.text = TextOf(b, w.newline), !.pos = 0,
                       !.start = 0, !.read = b]
EnsureText(s) ==
    LET w == texts[s]
        d == Fd(s)
        b == Slice(d, ReadEnd(d, Wanted(d, -1)))
    IN  IF w.cached THEN w
        ELSE [w EXCEPT !.cached = TRUE, !.text = TextOf(b, w.newline), !.pos = 0,
                       !.start = fds[d].pos, !.read = b]

\* Where the descriptor stands after that.
ReadAhead(s) == LET d == Fd(s)
                IN  [fds EXCEPT ![d].pos = Larger(@, NodeOf(d).size)]

\* ensureReadable; where it reads from, as for Read.
Readable(s) == raws[texts[s].raw].readable /\ fds[Fd(s)].pos >= 0

\* Hand out the text up to index end.
Take(s, end) ==
    LET w == EnsureText(s)
    IN  /\ texts[s].cached \/ Readable(s)
        /\ Decodable(w.read)
        /\ texts' = [texts EXCEPT ![s] = [w EXCEPT !.pos = end]]
        /\ fds' = IF texts[s].cached THEN fds ELSE ReadAhead(s)
        /\ got' = Encode(SubSeq(w.text, w.pos + 1, end))
        /\ UNCHANGED <<nodes, inode, raws>>

\* A text that is cut in a character: the read has moved the descriptor when
\* decoding raises.
TextFails(s) ==
    LET b == EnsureText(s).read
    IN  /\ Readable(s) /\ ~ texts[s].cached /\ ~ Decodable(b)
        /\ fds' = ReadAhead(s)
        /\ got' = b
        /\ UNCHANGED <<nodes, inode, objects>>

TextRead(s, size) ==
    LET w == EnsureText(s)
    IN  Take(s, IF size < 0 THEN Len(w.text) ELSE Min({Len(w.text), w.pos + size}))

\* The end of the line that begins after pos, for each newline mode.
Terminators(w) ==
    LET t == w.text
        at(i, c) == i <= Len(t) /\ t[i] = c
    IN  CASE w.newline = NoNewline    -> {i \in DOMAIN t : t[i] = LF}
          [] w.newline = Untranslated ->
                {i \in DOMAIN t : t[i] = LF \/ (t[i] = CR /\ ~ at(i + 1, LF))}
          [] OTHER ->
                {i \in DOMAIN t : /\ i >= Len(w.newline)
                                  /\ SubSeq(t, i - Len(w.newline) + 1, i) = w.newline
                                  /\ i - Len(w.newline) >= w.pos}
LineEnd(w) == Min({i \in Terminators(w) : i > w.pos} \cup {Len(w.text)})

TextReadline(s) == Take(s, LineEnd(EnsureText(s)))

\* tell(): where the text handed out so far ends.
Tell(s) == IF texts[s].cached
           THEN texts[s].start + Bytelen(SubSeq(texts[s].text, 1, texts[s].pos))
           ELSE fds[Fd(s)].pos

Uncached(s) == [texts EXCEPT ![s] = [@ EXCEPT !.cached = FALSE, !.text = <<>>, !.read = <<>>,
                                              !.pos = 0, !.start = 0]]

\* What follows is written where reading stopped.  Mutant: where the
\* descriptor is, which has read ahead.
TextWriteNoSync(s, t) == /\ WriteFrom(Fd(s), fds[Fd(s)].pos, Encode(t))
                         /\ texts' = Uncached(s)
                         /\ UNCHANGED raws
TextWrite(s, t) == /\ MayChange(fds[Fd(s)].node, WriteAt(Fd(s), Tell(s)), Reading \ {s})
                   /\ WriteFrom(Fd(s), Tell(s), Encode(t))
                   /\ texts' = Uncached(s)
                   /\ UNCHANGED raws

TextSeek(s, pos, how) == /\ Lseek(Fd(s), pos, how)
                         /\ texts' = Uncached(s)
                         /\ UNCHANGED raws

\* The raw object's, at its position, and the text stays as it was.
TextTruncate(s, size) == FTruncate(texts[s].raw, size)

TextClose(s) ==
    LET o == texts[s].raw
    IN  /\ IF raws[o].closefd /\ ~ raws[o].closed THEN Close(raws[o].fd) ELSE Idle
        /\ raws' = [raws EXCEPT ![o].closed = TRUE]
        /\ texts' = [Uncached(s) EXCEPT ![s].closed = TRUE]

----------------------------------------------------------------------------

\* The directories that were there at first stay.
Posix == \E p \in Paths \ Dirs0 :
    /\ \/ Unlink(p) \/ Mkdir(p)
       \/ \E q \in Paths \ Dirs0 : Rename(p, q)
    /\ UNCHANGED objects

Opens == \/ \E p \in Paths, m \in Modes :
                OpenBinary(p, m) \/ \E n \in Newlines : OpenText(p, m, n)
         \/ \E d \in Opened, m \in Modes, c \in CloseFds :
                \/ OpenFdBinary(d, m, c)
                \/ \E n \in Newlines : OpenFdText(d, m, c, n)

Binary == \E o \in Raw :
    \/ \E n \in Sizes : FRead(o, n) \/ FReadline(o, n) \/ FTruncate(o, n)
    \/ \E u \in Chunks : FWrite(o, u)
    \/ \E k \in Seeks : FSeek(o, k[1], k[2])
    \/ FClose(o)

Textual == \E s \in Text :
    \/ TextFails(s)
    \/ \E n \in Sizes : TextRead(s, n) \/ TextTruncate(s, n)
    \/ TextReadline(s)
    \/ \E t \in Texts : TextWrite(s, t)
    \/ \E k \in TextSeeks : TextSeek(s, k[1], k[2])
    \/ TextClose(s)

Next == Posix \/ Opens \/ Binary \/ Textual

Spec == IoInit /\ [][Next]_vars

----------------------------------------------------------------------------

\* The tables and objects are well typed; what a wrapper has handed out is part
\* of its text, and its descriptor is at the end of what it has read.
TypeOK ==
    /\ FsTypeOK
    /\ \A o \in DOMAIN raws : raws[o].fd \in DOMAIN fds
    /\ \A s \in DOMAIN texts : /\ texts[s].raw \in DOMAIN raws
                               /\ texts[s].pos \in 0..Len(texts[s].text)
    /\ \A s \in Reading : fds[Fd(s)].pos = texts[s].start + Len(texts[s].read)

\* Where the program is in the file of a descriptor.
Position(d) == IF Ahead(d) THEN Tell(CHOOSE s \in Reading : Fd(s) = d) ELSE fds[d].pos

Descriptors == [d \in DOMAIN fds |-> [file |-> fds[d].node, pos |-> Position(d),
                                      append |-> fds[d].append]]

\* A file system with caches in two layers is one without: a descriptor's
\* position is where its text has been read to, whatever was read ahead; every
\* read gives the bytes there, and every write goes there.
Contract == INSTANCE FileContract WITH
    Data <- Chunks \cup {Encode(t) : t \in Texts},
    Offsets <- MinPos..MaxLen,
    names <- nodes,
    files <- Contents,
    desc <- Descriptors
ImplementsFiles == Contract!Spec

\* Whatever a wrapper has in its text, stale or translated, files change as the
\* contract says: a write goes where tell() is, a truncate cuts or lengthens, and
\* neither touches another byte.  What is read is left open.
Unread == INSTANCE FileContract WITH
    Data <- Chunks \cup {Encode(t) : t \in Texts},
    Offsets <- MinPos..MaxLen,
    names <- nodes,
    files <- Contents,
    desc <- Descriptors,
    got <- <<>>
ImplementsWrites == Unread!Spec

\* The bytes that the first k characters of b's text stand for.
Consumed(b, newline, k) ==
    Max({n \in 0..Len(b) : Len(TextOf(SubSeq(b, 1, n), newline)) <= k})

\* tell(), and the place a write goes to, is the end of what was handed out.
TellIsTrue == \A s \in Reading :
    Tell(s) = texts[s].start + Consumed(texts[s].read, texts[s].newline, texts[s].pos)

=============================================================================
