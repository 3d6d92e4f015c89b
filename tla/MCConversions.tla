---------------------------- MODULE MCConversions ----------------------------
EXTENDS Conversions

(* Four items, bounds from beyond one end to beyond the other, all steps   *)
(* that can matter, with a Py_ssize_t of four bits; some bounds exceed it. *)
MCBounds == {None} \cup -10..9
MCSlices == [start : MCBounds, stop : MCBounds, step : {None, -8, 7} \cup -3..3]
MCSliceCalls == [op : {"unpack", "indices"}, len : {0, 1, 4}, s : MCSlices]

(* Bytes of two bits and a Py_ssize_t of two bytes. *)
MCFlags == {{"default"}} \cup SUBSET {"little", "unsigned", "nonnegative"} \cup {{"native"}}
MCIntCalls ==
    [op : {"to"}, v : -40..70, n : 1..3, little : BOOLEAN, signed : BOOLEAN]
      \cup [op : {"from"}, bytes : UNION {ByteStrings(n) : n \in 1..3},
            little : BOOLEAN, signed : BOOLEAN]
      \cup [op : {"native"}, v : -70..70, n : 0..4, flags : MCFlags]
      \cup [op : {"word"}, v : -70..70, n : 1..3, as : WordKinds]
=============================================================================
