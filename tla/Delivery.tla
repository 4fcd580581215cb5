------------------------------ MODULE Delivery ------------------------------
(***************************************************************************)
(* What encoding a target and decoding the delta promises its user: the    *)
(* output is at all times a prefix of the target, it is never taken back,  *)
(* and decoding reports success with less than the target only if the     *)
(* encoder stopped with an error or the delta was damaged on the way.      *)
(***************************************************************************)
EXTENDS Integers, Sequences, SequencesExt

VARIABLES
  given,    \* the target, as far as it was given to the encoder
  out,      \* the output
  faulty,   \* an error or damage occurred
  result    \* "running", "ok" or "error"

dvars == <<given, out, faulty, result>>

Init == given = <<>> /\ out = <<>> /\ faulty = FALSE /\ result = "running"

\* The output goes on, inside the target.
Extends == IsPrefix(out, out') /\ IsPrefix(out', given)

Give ==
  /\ result = "running" /\ IsPrefix(given, given')
  /\ faulty' \in {faulty, TRUE}
  /\ UNCHANGED <<out, result>>

Fault ==
  /\ result = "running" /\ faulty' = TRUE
  /\ UNCHANGED <<given, out, result>>

Deliver ==
  /\ result = "running" /\ Extends
  /\ UNCHANGED <<given, faulty, result>>

Stop ==
  /\ result = "running" /\ Extends
  /\ result' \in {"ok", "error"}
  /\ result' = "ok" => faulty \/ out' = given
  /\ UNCHANGED <<given, faulty>>

Next == Give \/ Fault \/ Deliver \/ Stop

Spec == Init /\ [][Next]_dvars
=============================================================================
