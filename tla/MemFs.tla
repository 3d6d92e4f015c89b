------------------------------- MODULE MemFs -------------------------------
(***************************************************************************)
(* The in-memory file system (src/loader/wasthon-fs-mem.js): what          *)
(* Brython's posix module becomes in a page.                                *)
(*                                                                         *)
(* A node's bytes sit in an array that is longer than the file: writing    *)
(* within it moves no byte, and shrinking the file leaves them there.       *)
(* Names and descriptors refer to the node, so that unlinking or renaming  *)
(* changes nothing for who has it open.  A call that raises changes        *)
(* nothing, and is no step.                                                  *)
(***************************************************************************)
EXTENDS Integers, Sequences, FiniteSets, FiniteSetsExt

CONSTANTS
    Paths,          \* normalised paths
    Parent,         \* path -> its directory
    Dirs0,          \* the directories made at installation
    Byte, Zero,     \* what files are made of; the byte of a fresh array
    MinCap,         \* the first capacity of a node (64)
    SeeksPastEnd,   \* TRUE: a write may start beyond the end of its file
    MaxLen,         \* bound: length of a file, highest position
    MinPos,         \* bound: lowest position, before the start of the file
    MaxNodes,       \* bound: nodes ever made
    MaxFds          \* bound: descriptors ever opened

ASSUME MemFsAssumption ==
    /\ Dirs0 \subseteq Paths /\ Parent \in [Paths -> Paths]
    /\ IsFiniteSet(Dirs0) /\ Zero \in Byte
    /\ MinCap \in Nat \ {0} /\ MaxLen \in Nat /\ MaxNodes \in Nat /\ MaxFds \in Nat
    /\ SeeksPastEnd \in BOOLEAN /\ MinPos \in Int /\ MinPos <= 0

VARIABLES
    nodes,      \* path -> index of its node, 0 when there is none
    inode,      \* the nodes made so far: [isDir, data, size]
    fds,        \* the descriptors opened so far: [node, pos, readable, append],
                \* node 0 once closed
    got         \* what the last step read

fsVars == <<nodes, inode, fds, got>>

Node(isDir) == [isDir |-> isDir, data |-> <<>>, size |-> 0]

Init == /\ nodes \in {f \in [Paths -> 0..Cardinality(Dirs0)] :
                        /\ \A p \in Paths : f[p] # 0 <=> p \in Dirs0
                        /\ \A p, q \in Dirs0 : f[p] = f[q] => p = q}
        /\ inode = [i \in 1..Cardinality(Dirs0) |-> Node(TRUE)]
        /\ fds = <<>> /\ got = <<>>

Opened == {d \in DOMAIN fds : fds[d].node # 0}
NodeOf(d) == inode[fds[d].node]
Larger(a, b) == IF a > b THEN a ELSE b

----------------------------------------------------------------------------
(* The array of a node. *)

Capacity(n, need) ==
    Larger(need, IF n.data = <<>> THEN MinCap ELSE 2 * Len(n.data))

\* Room for need bytes; a new array has the file's bytes and nothing else.
EnsureCap(n, need) ==
    IF need <= Len(n.data) THEN n
    ELSE [n EXCEPT !.data = [i \in 1..Capacity(n, need) |->
                                IF i <= n.size THEN n.data[i] ELSE Zero]]

Put(n, pos, u8) ==
    LET g == EnsureCap(n, pos + Len(u8))
    IN  [g EXCEPT !.data = [i \in DOMAIN g.data |->
                              IF i \in (pos + 1)..(pos + Len(u8)) THEN u8[i - pos]
                              ELSE g.data[i]],
                  !.size = Larger(@, pos + Len(u8))]

\* Growing fills with zeros what the array has beyond the file.
Resized(n, len) ==
    LET g == EnsureCap(n, len)
    IN  [g EXCEPT !.data = [i \in DOMAIN g.data |->
                              IF i \in (n.size + 1)..len THEN Zero ELSE g.data[i]],
                  !.size = len]

----------------------------------------------------------------------------
(* The calls. *)

\* fl: the open flags, [creat, excl, trunc, append, acc].
OpenOld(p, fl) ==
    /\ nodes[p] # 0 /\ ~ inode[nodes[p]].isDir
    /\ ~ (fl.creat /\ fl.excl)
    /\ inode' = IF fl.trunc THEN [inode EXCEPT ![nodes[p]] = Node(FALSE)] ELSE inode
    /\ UNCHANGED nodes

OpenNew(p, fl) ==
    /\ nodes[p] = 0 /\ fl.creat /\ nodes[Parent[p]] # 0
    /\ Len(inode) < MaxNodes
    /\ inode' = Append(inode, Node(FALSE))
    /\ nodes' = [nodes EXCEPT ![p] = Len(inode) + 1]

Open(p, fl) ==
    /\ Len(fds) < MaxFds
    /\ OpenOld(p, fl) \/ OpenNew(p, fl)
    /\ fds' = Append(fds, [node |-> nodes'[p],
                           pos |-> IF fl.append THEN inode'[nodes'[p]].size ELSE 0,
                           readable |-> fl.acc # "wronly",
                           append |-> fl.append])
    /\ got' = <<>>

Closed == [node |-> 0, pos |-> 0, readable |-> FALSE, append |-> FALSE]

Close(d) == /\ fds' = [fds EXCEPT ![d] = Closed]
            /\ UNCHANGED <<nodes, inode>> /\ got' = <<>>

\* Up to n bytes from the position; none beyond the end.  Assumed: the position is
\* in the file or after it (before the start, the code counts from the array's end).
ReadEnd(d, n) == Min({fds[d].pos + n, NodeOf(d).size})
Slice(d, end) == SubSeq(NodeOf(d).data, fds[d].pos + 1, end)

Read(d, n) ==
    LET end == ReadEnd(d, n)
    IN  /\ fds[d].pos >= 0
        /\ got' = Slice(d, end)
        /\ fds' = [fds EXCEPT ![d].pos = Larger(@, end)]
        /\ UNCHANGED <<nodes, inode>>

\* Where a write starts.
WriteAt(d, pos) == IF fds[d].append THEN NodeOf(d).size ELSE pos

\* Nothing checks whether the descriptor was opened for writing.  Before the start
\* of the file it raises.
WriteFrom(d, pos, u8) ==
    LET at == WriteAt(d, pos)
    IN  /\ at >= 0 /\ at + Len(u8) <= MaxLen
        /\ SeeksPastEnd \/ at <= NodeOf(d).size
        /\ inode' = [inode EXCEPT ![fds[d].node] = Put(@, at, u8)]
        /\ fds' = [fds EXCEPT ![d].pos = at + Len(u8)]
        /\ UNCHANGED nodes /\ got' = <<>>
Write(d, u8) == WriteFrom(d, fds[d].pos, u8)

\* The position lseek sets; nothing keeps it within the file.
SeekPos(d, pos, how) ==
    CASE how = "set" -> pos
      [] how = "cur" -> fds[d].pos + pos
      [] how = "end" -> NodeOf(d).size + pos

Lseek(d, pos, how) ==
    /\ SeekPos(d, pos, how) \in MinPos..MaxLen
    /\ fds' = [fds EXCEPT ![d].pos = SeekPos(d, pos, how)]
    /\ UNCHANGED <<nodes, inode>> /\ got' = <<>>

Ftruncate(d, len) ==
    /\ inode' = [inode EXCEPT ![fds[d].node] = Resized(@, len)]
    /\ UNCHANGED <<nodes, fds>> /\ got' = <<>>

\* Also rmdir: neither looks at what it removes, nor at what is below it.
Unlink(p) == /\ nodes[p] # 0
             /\ nodes' = [nodes EXCEPT ![p] = 0]
             /\ UNCHANGED <<inode, fds>> /\ got' = <<>>

Mkdir(p) == /\ nodes[p] = 0 /\ Len(inode) < MaxNodes
            /\ nodes' = [nodes EXCEPT ![p] = Len(inode) + 1]
            /\ inode' = Append(inode, Node(TRUE))
            /\ UNCHANGED fds /\ got' = <<>>

\* One key moves: what a directory has in it stays under the old paths.
Rename(p, q) == /\ nodes[p] # 0
                /\ nodes' = [[nodes EXCEPT ![p] = 0] EXCEPT ![q] = nodes[p]]
                /\ UNCHANGED <<inode, fds>> /\ got' = <<>>

----------------------------------------------------------------------------

\* The tables are well typed, and a node's array is as long as its file.
FsTypeOK ==
    /\ nodes \in [Paths -> 0..Len(inode)]
    /\ \A i \in DOMAIN inode : /\ inode[i].isDir \in BOOLEAN
                               /\ inode[i].data \in Seq(Byte)
                               /\ inode[i].size \in 0..Len(inode[i].data)
    /\ \A d \in DOMAIN fds : /\ fds[d].node \in 0..Len(inode)
                             /\ fds[d].pos \in Int
                             /\ fds[d].readable \in BOOLEAN
                             /\ fds[d].append \in BOOLEAN
    /\ got \in Seq(Byte)

\* The contract: the file is the part of the array within its size.
Contents == [i \in DOMAIN inode |->
                [dir |-> inode[i].isDir, bytes |-> SubSeq(inode[i].data, 1, inode[i].size)]]

=============================================================================
