---------------------------- MODULE FileContract ----------------------------
(***************************************************************************)
(* What a file system and the io layer over it promise, whatever they      *)
(* cache or reserve.  A name means a file; a file is a sequence of bytes;   *)
(* an open descriptor is one position in one file.  A read gives the bytes *)
(* at the position, a write puts bytes there and nowhere else.  A position *)
(* may lie before the file or after it; before it, nothing is read or       *)
(* written.  A file without a name lives on for the descriptors that have   *)
(* it open.                                                                 *)
(***************************************************************************)
EXTENDS Integers, Sequences

CONSTANTS Paths,    \* the names
          Data,     \* what may be written at once
          Offsets,  \* positions and lengths that may be asked for
          Zero,     \* the byte nobody wrote
          Dirs0     \* the names of the directories there are at first

VARIABLES names,    \* path -> the file it names, 0 when it names none
          files,    \* the files made so far: [dir, bytes]
          desc,     \* the descriptors opened so far: [file, pos, append]
          got       \* what the last step read

vars == <<names, files, desc, got>>

Opened == {d \in DOMAIN desc : desc[d].file # 0}
FileOf(d) == files[desc[d].file]

Init == /\ names \in [Paths -> Nat]
        /\ \A p \in Paths : names[p] # 0 <=> p \in Dirs0
        /\ files = [i \in 1..Len(files) |-> [dir |-> TRUE, bytes |-> <<>>]]
        /\ desc = <<>> /\ got = <<>>

Fresh(dir) == Append(files, [dir |-> dir, bytes |-> <<>>])
Emptied(f) == [files EXCEPT ![f].bytes = <<>>]
Descriptor(f, pos, append) == [file |-> f, pos |-> pos, append |-> append]

\* Open the file p names; an appending descriptor starts at its end.
OpenOld(p, trunc, append) ==
    /\ names[p] # 0 /\ UNCHANGED names /\ got' = <<>>
    /\ ~ files[names[p]].dir
    /\ files' = IF trunc THEN Emptied(names[p]) ELSE files
    /\ desc' = Append(desc, Descriptor(names[p],
                     IF append THEN Len(files'[names[p]].bytes) ELSE 0, append))

OpenNew(p, append) ==
    /\ names[p] = 0 /\ got' = <<>>
    /\ names' = [names EXCEPT ![p] = Len(files) + 1]
    /\ files' = Fresh(FALSE)
    /\ desc' = Append(desc, Descriptor(Len(files) + 1, 0, append))

Close(d) == /\ got' = <<>>
            /\ desc' = [desc EXCEPT ![d] = Descriptor(0, 0, FALSE)]

\* The next k bytes, or as many as there are.
Read(d, k) ==
    LET b == FileOf(d).bytes
        end == IF desc[d].pos + k < Len(b) THEN desc[d].pos + k ELSE Len(b)
    IN  /\ desc[d].pos >= 0
        /\ got' = SubSeq(b, desc[d].pos + 1, end)
        /\ desc' = IF end > desc[d].pos THEN [desc EXCEPT ![d].pos = end] ELSE desc

Overwritten(b, at, u8) ==
    [i \in 1..(IF at + Len(u8) > Len(b) THEN at + Len(u8) ELSE Len(b)) |->
        IF i \in (at + 1)..(at + Len(u8)) THEN u8[i - at]
        ELSE IF i <= Len(b) THEN b[i] ELSE Zero]

Write(d, u8) ==
    LET at == IF desc[d].append THEN Len(FileOf(d).bytes) ELSE desc[d].pos
    IN  /\ at >= 0 /\ got' = <<>>
        /\ desc' = [desc EXCEPT ![d].pos = at + Len(u8)]
        /\ files' = [files EXCEPT ![desc[d].file].bytes = Overwritten(@, at, u8)]

Seek(d, pos) == /\ got' = <<>>
                /\ desc' = [desc EXCEPT ![d].pos = pos]

Truncate(d, len) ==
    /\ len >= 0 /\ got' = <<>> /\ UNCHANGED desc
    /\ files' = [files EXCEPT ![desc[d].file].bytes =
                    [i \in 1..len |-> IF i <= Len(@) THEN @[i] ELSE Zero]]

Unlink(p) == /\ names[p] # 0
             /\ names' = [names EXCEPT ![p] = 0]
             /\ UNCHANGED <<files, desc>> /\ got' = <<>>

Mkdir(p) == /\ names[p] = 0
            /\ names' = [names EXCEPT ![p] = Len(files) + 1]
            /\ files' = Fresh(TRUE)
            /\ UNCHANGED desc /\ got' = <<>>

Rename(p, q) == /\ names[p] # 0
                /\ names' = [names EXCEPT ![p] = 0, ![q] = names[p]]
                /\ UNCHANGED <<files, desc>> /\ got' = <<>>

\* No file and no name changes.
Move(d) == /\ UNCHANGED <<names, files>>
           /\ Close(d) \/ \E n \in Offsets : Seek(d, n) \/ Read(d, n)

\* Only files change.
Change(d) == /\ UNCHANGED names
             /\ \/ \E n \in Offsets : Truncate(d, n)
                \/ \E u \in Data : Write(d, u)

Next ==
    \/ \E d \in Opened : Move(d) \/ Change(d)
    \/ \E p \in Paths : \/ Unlink(p) \/ Mkdir(p)
                        \/ \E q \in Paths : Rename(p, q)
                        \/ \E a \in BOOLEAN : \/ OpenNew(p, a)
                                               \/ \E t \in BOOLEAN : OpenOld(p, t, a)

Spec == Init /\ [][Next]_vars

=============================================================================
