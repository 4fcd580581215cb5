---------------------------- MODULE MCFileTools -----------------------------
(***************************************************************************)
(* Three windows to choose from: with a copy window, a checksum and two    *)
(* sections worth compressing; without them, at the hard limit; and one    *)
(* beyond it.  Lengths of 4 and more take two bytes.                       *)
(***************************************************************************)
EXTENDS FileTools

Lens(d, i, a) == [x \in Section |-> CASE x = "data" -> d [] x = "inst" -> i [] x = "addr" -> a]

MCWindows == {
    [source |-> TRUE, copy |-> [len |-> 5, offset |-> 1], adler32 |-> "sum", target_len |-> 1, lens |-> Lens(4, 4, 0)],
    [source |-> FALSE, adler32 |-> Absent, target_len |-> HardMax, lens |-> Lens(2, 4, 0)],
    [source |-> FALSE, adler32 |-> "sum", target_len |-> HardMax + 1, lens |-> Lens(0, 2, 0)]}

\* All shorter, none, and some
MCPackings == {Lens(2, 2, 2), Lens(4, 5, 4), Lens(4, 3, 2)}
MCApps == {NoApp, [name |-> "old", len |-> 4]}
MCNewApp == [name |-> "new", len |-> 0]
=============================================================================
