---------------------------- MODULE OptimizePass ----------------------------
(***************************************************************************)
(* pipeline::optimize on its own, for any list of instructions that meets  *)
(* its documented precondition: they cover the target exactly.  The match  *)
(* engine gives it few kinds of lists; the function is public and takes    *)
(* them all, empty instructions and ADDs with runs anywhere in them.       *)
(***************************************************************************)
EXTENDS Pipeline

CONSTANTS
  Bytes,        \* values of a byte
  SourceLen,    \* length of the source
  TargetLen,    \* length of the target
  MaxInsts      \* bound: instructions in the list

VARIABLES
  source, target,
  insts,        \* the list so far
  at,           \* target position behind it
  result        \* what optimize returned; <<>> before

vars == <<source, target, insts, at, result>>

\* An instruction is true at a position of the target when a decoder accepts
\* it there and finds the target's bytes.  An ADD takes them from the target.
TrueAt(inst, p) ==
  CASE inst.op = "add" -> TRUE
    [] inst.op = "run" -> \A k \in 1 .. inst.len : target[p + k] = target[p + 1]
    [] OTHER -> /\ inst.addr < SourceLen + p
                /\ inst.addr < SourceLen => inst.addr + inst.len <= SourceLen
                /\ \A k \in 1 .. inst.len : (source \o target)[inst.addr + k] = target[p + k]

Init ==
  /\ source \in [1 .. SourceLen -> Bytes]
  /\ target \in [1 .. TargetLen -> Bytes]
  /\ insts = <<>> /\ at = 0 /\ result = <<>>

Give(inst) ==
  /\ result = <<>>
  /\ Len(insts) < MaxInsts
  /\ TrueAt(inst, at)
  /\ insts' = Append(insts, inst)
  /\ at' = at + inst.len
  /\ UNCHANGED <<source, target, result>>

CallOptimize ==
  /\ result = <<>>
  /\ at = TargetLen
  /\ result' = Optimize(insts, target)
  /\ UNCHANGED <<source, target, insts, at>>

Next ==
  \/ \E n \in 0 .. TargetLen - at : Give(Inst("add", n, 0)) \/ Give(Inst("run", n, 0))
  \/ \E n \in 0 .. TargetLen - at, a \in 0 .. SourceLen + at - 1 : Give(Inst("copy", n, a))
  \/ CallOptimize

Spec == Init /\ [][Next]_vars
-----------------------------------------------------------------------------
TypeOK ==
  /\ at \in 0 .. TargetLen
  /\ \A i \in 1 .. Len(result) :
       /\ result[i].op \in {"add", "run", "copy"}
       /\ result[i].len \in 1 .. TargetLen

NonEmpty == SelectSeq(insts, LAMBDA inst : inst.len > 0)

\* What optimize returns means what it was given, instruction by instruction,
\* unless two neighbours are there that must not be merged.
MeaningKept ==
  (~ \E i \in 1 .. Len(NonEmpty) - 1 : ContraryMerge(SourceLen, target, NonEmpty, i)) =>
    \A i \in 1 .. Len(result) : TrueAt(result[i], Starts(result)[i])

\* "same coverage guarantee" (optimize): the result adds up to the target,
\* whatever was merged or split.  No instruction is empty (TypeOK), no two ADDs
\* are neighbours, and no ADD holds a run that should have been split out.
OptimizedShape ==
  result # <<>> =>
    /\ TypeOK
    /\ Starts(result)[Len(result) + 1] = TargetLen
    /\ \A i \in 1 .. Len(result) : result[i].op = "add" =>
         /\ i < Len(result) => result[i + 1].op # "add"
         /\ LET data == SubSeq(target, Starts(result)[i] + 1, Starts(result)[i + 1])
            IN  \A j \in 0 .. Len(data) - 1 : RunAt(data, j) < MinRun
=============================================================================
