----------------------------- MODULE MCIoWrite -----------------------------
(* A directory with two names in it; two wrappers, or one and another object. *)
EXTENDS IoWrite, SequencesExt

CONSTANTS root, file1, file2

SomePaths == {root, file1, file2}
SomeParents == root :> root @@ file1 :> root @@ file2 :> root
SomeDirs == {root}
SomeModes == {{"r", "+"}, {"w", "+"}, {"a", "+"}}
SomeChunks == {<<Lead, Trail>>}
SomeSizes == {-1, 1}
SomeSeeks == {<<0, "set">>, <<-1, "cur">>}
SomeTextSeeks == {<<1, "set">>, <<0, "end">>}
SomeTexts == {<<LF>>}
SomeNewlines == {Untranslated}
LowestPos == -1
Names == Permutations({file1, file2})

\* IoWrite decodes, encodes and translates by places; the same for a text
\* that is filtered and joined, of up to four characters.
TextsUpTo(n, S) == UNION {[1..k -> S] : k \in 0..n}
Kept(t) == SetToSortSeq({i \in DOMAIN t : ~ (t[i] = LF /\ i > 1 /\ t[i - 1] = CR)}, <)

ASSUME ByPlaces ==
    /\ \A b \in TextsUpTo(4, Byte) : Decode(b) = SelectSeq(b, LAMBDA c : c # Trail)
    /\ \A t \in TextsUpTo(4, Byte \ {Trail}) :
         /\ Encode(t) = FlattenSeq([i \in DOMAIN t |->
                                      IF t[i] = Lead THEN <<Lead, Trail>> ELSE <<t[i]>>])
         /\ Translate(t) = [i \in DOMAIN Kept(t) |->
                               IF t[Kept(t)[i]] = CR THEN LF ELSE t[Kept(t)[i]]]
         /\ Bytelen(t) = Len(Encode(t))

\* All but what a step read, which no later step uses, and files that have
\* neither a name nor a descriptor.
Living == {nodes[p] : p \in Paths} \cup {fds[d].node : d \in DOMAIN fds}
State == <<nodes, fds, raws, texts,
           [i \in DOMAIN inode |-> IF i \in Living THEN inode[i] ELSE Node(TRUE)]>>

\* Bounds: with two files there is no text wrapper; with two files, or a wrapper
\* and another object, no file has had more than two bytes; with two wrappers
\* nothing is unlinked or closed, and no position is before the start.
Small ==
    /\ Len(inode) = MaxNodes => texts = <<>>
    /\ Len(inode) = MaxNodes \/ (texts # <<>> /\ Len(raws) = MaxRaws) =>
         \A i \in DOMAIN inode : Len(inode[i].data) <= 2
    /\ Len(texts) = 2 =>
         /\ \A d \in DOMAIN fds : fds[d].pos >= 0 /\ \E p \in Paths : nodes[p] = fds[d].node
         /\ \A o \in DOMAIN raws : ~ raws[o].closed

=============================================================================
