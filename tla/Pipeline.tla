------------------------------ MODULE Pipeline ------------------------------
(***************************************************************************)
(* pipeline::optimize (src/src/compress/pipeline.rs): between the match    *)
(* engine and the window encoder, neighbouring instructions are merged and *)
(* runs inside ADDs are split out.                                         *)
(***************************************************************************)
EXTENDS MatchTables

\* Mutant: COPYs are merged wherever they read from.
CanCoalesceAny(a, b) == a.op = b.op

\* try_coalesce: the merged instruction, or none.  A RUN has no byte of its
\* own: it takes the target byte at its position when it is emitted.
CanCoalesce(a, b) ==
  /\ a.op = b.op
  /\ a.op = "copy" => b.addr = a.addr + a.len

\* Mutant: instructions of length zero are kept.
CoalesceEmpty(done, inst) ==
  IF done # <<>> /\ CanCoalesce(Last(done), inst)
    THEN [done EXCEPT ![Len(done)].len = @ + inst.len]
  ELSE Append(done, inst)

Coalesce(done, inst) ==
  IF inst.len = 0 THEN done
  ELSE IF done # <<>> /\ CanCoalesce(Last(done), inst)
    THEN [done EXCEPT ![Len(done)].len = @ + inst.len]
  ELSE Append(done, inst)

\* Length of the run that starts at i.
RunAt(data, i) == RunLength(data, i, data[i + 1], Len(data) - i)

\* Mutant: a run of exactly MinRun bytes does not stop an ADD.
AddEndLate(data, i) ==
  LET stop[j \in 0 .. Len(data)] ==
        IF j = Len(data) \/ RunAt(data, j) > MinRun THEN j ELSE stop[j + RunAt(data, j)]
  IN  stop[i + RunAt(data, i)]

\* Where an ADD that starts at i has to stop: at the next run that is long
\* enough, reached run by run, or at the end.
AddEnd(data, i) ==
  LET stop[j \in 0 .. Len(data)] ==
        IF j = Len(data) \/ RunAt(data, j) >= MinRun THEN j ELSE stop[j + RunAt(data, j)]
  IN  stop[i + RunAt(data, i)]

\* Mutant: a run that starts an ADD is taken to fill it.
SplitAddFirst(data) ==
  IF data # <<>> /\ RunAt(data, 0) >= MinRun
    THEN <<Inst("run", Len(data), 0)>>
    ELSE <<Inst("add", Len(data), 0)>>

\* split_add_with_runs.
SplitAdd(data) ==
  LET n == Len(data)
      split[i \in 0 .. n] ==
        IF i = n THEN <<>>
        ELSE IF n - i < MinRun THEN <<Inst("add", n - i, 0)>>
        ELSE IF RunAt(data, i) >= MinRun
          THEN <<Inst("run", RunAt(data, i), 0)>> \o split[i + RunAt(data, i)]
        ELSE <<Inst("add", AddEnd(data, i) - i, 0)>> \o split[AddEnd(data, i)]
  IN  split[0]

\* split_add_runs, with the target position of the next instruction.
SplitStep(acc, inst, bytes) ==
  [insts |-> acc.insts \o (IF inst.op = "add"
                             THEN SplitAdd(SubSeq(bytes, acc.at + 1, acc.at + inst.len))
                             ELSE <<inst>>),
   at |-> acc.at + inst.len]

Optimize(insts, bytes) ==
  FoldLeft(LAMBDA acc, inst : SplitStep(acc, inst, bytes), [insts |-> <<>>, at |-> 0],
           FoldLeft(Coalesce, <<>>, insts)).insts
-----------------------------------------------------------------------------
\* Target position of each instruction, and the position behind the last.
Starts(insts) ==
  LET at[i \in 1 .. Len(insts) + 1] == IF i = 1 THEN 0 ELSE at[i - 1] + insts[i - 1].len
  IN  at

\* The two merges that change what instructions i and i + 1 mean: two RUNs of
\* different bytes, and a COPY up to the end of the source with one from the
\* start of the target.
ContraryMerge(srcLen, bytes, insts, i) ==
  \/ /\ insts[i].op = "run" /\ insts[i + 1].op = "run"
     /\ bytes[Starts(insts)[i] + 1] # bytes[Starts(insts)[i + 1] + 1]
  \/ /\ insts[i].op = "copy" /\ insts[i + 1].op = "copy"
     /\ insts[i].addr < srcLen
     /\ insts[i].addr + insts[i].len = srcLen
     /\ insts[i + 1].addr = srcLen
=============================================================================
