-------------------------- MODULE CommandsResults ---------------------------
(***************************************************************************)
(* SuccessIsTrue and NothingTouchedEarly of Commands for any number of     *)
(* processes, files, commands and patches.                                 *)
(***************************************************************************)
EXTENDS CommandsMerge

\* The writing steps.  The label behind the output belongs to the command.
LEMMA AfterOutputFits ==
  ASSUME NEW j
  PROVE  /\ AfterOutput(j) \in {"flush", "skim", "stream"}
         /\ AfterOutput(j) = "flush" <=> j.cmd = "merge"
         /\ AfterOutput(j) = "skim" => j.cmd = "encode" /\ j.check
BY DEF AfterOutput

\* The test of the output reads and writes nothing.
LEMMA CheckOutputGood ==
  ASSUME SInv, NEW p \in Procs, CheckOutput(p)
  PROVE  LabelFits(p)' /\ (Undisturbed(p)' => Good(p)')
<1>0. pc[p] = "output" /\ KeepFiles /\ UNCHANGED <<job, began, src, cur>>
  BY DEF CheckOutput
<1>1. CASE End(p, 1)
  BY <1>0, <1>1, FailGood
<1>2. ASSUME NEW l \in {"create", "flush", "skim", "stream"}, Goto(p, l),
             l # "create" => NoFile(job[p]) /\ l = AfterOutput(job[p])
      PROVE  LabelFits(p)' /\ (Undisturbed(p)' => Good(p)')
  <2>1. pc'[p] = l
    BY <1>2 DEF Goto, SInv, IInv, Types
  <2>2. LabelFits(p)'
    BY <1>0, <1>2, <2>1, AfterOutputFits DEF LabelFits, SInv
  <2>3. ASSUME Undisturbed(p) PROVE SourceRead(p)' /\ InputsRead(p)' /\ Writing(p)'
    <3>1. SourceRead(p) /\ InputsRead(p)
      BY <2>3 DEF SInv, Good
    <3>2. SourceRead(p)'
      BY <1>0, <2>1, <3>1 DEF SourceRead
    <3>3. InputsRead(p)'
      BY <1>0, <2>1, <3>1 DEF InputsRead
    <3>4. l = "flush" => Result(p, cur[p])
      BY <1>0, <1>2, <3>1, AfterOutputFits DEF InputsRead, Result, OntoInput
    <3>5. Writing(p)'
      BY <1>0, <1>2, <2>1, <3>4 DEF Writing, Result
    <3> QED
      BY <3>2, <3>3, <3>5
  <2>4. Patched(p)' /\ Delivered(p)'
    BY <2>1 DEF Patched, Delivered
  <2> QED
    BY <1>0, <2>1, <2>2, <2>3, <2>4, QuietGood
<1>3. CASE Goto(p, "create")
  BY <1>2, <1>3
<1>4. CASE NoFile(job[p]) /\ Goto(p, AfterOutput(job[p]))
  BY <1>2, <1>4, AfterOutputFits
<1> QED
  BY <1>1, <1>3, <1>4 DEF CheckOutput

\* What writing the output does to the process that writes it.
LEMMA PutOwn ==
  ASSUME SInv, NEW p \in Procs, NEW c, NEW m, Put(p, c, m), UNCHANGED <<job, began>>,
         pc[p] # "idle", pc'[p] # "idle", ~ NoFile(job[p])
  PROVE  /\ fs'[job[p].output] = c
         /\ holds'[p] = m
         /\ Undisturbed(p)' = Undisturbed(p)
         /\ Undisturbed(p) /\ Readable(job[p], began[p])
              /\ (job[p].cmd = "merge" => Means(job[p], began[p]) # {}) => Touched(p)'
<1>1. job[p].output \in Paths
  BY DEF NoFile, SInv, IInv, Types, JobType, NoJob
<1>2. fs'[job[p].output] = c /\ holds'[p] = m
  BY <1>1 DEF Put, SInv, IInv, Types
<1>3. Undisturbed(p)' = Undisturbed(p)
  BY DEF Put, Undisturbed, SInv, IInv, Types
<1> QED
  BY <1>2, <1>3 DEF Touched

\* Only the output is emptied, and all that is needed was read or is open.
LEMMA CreateOutputGood ==
  ASSUME SInv, NEW p \in Procs, CreateOutput(p)
  PROVE  LabelFits(p)' /\ (Undisturbed(p)' => Good(p)')
<1> DEFINE l == AfterOutput(job[p])
<1>0. pc[p] = "create" /\ UNCHANGED <<job, began, src, cur>> /\ Put(p, Empty, TRUE)
  BY DEF CreateOutput
<1>1. pc'[p] = l /\ l \in {"flush", "skim", "stream"}
  BY AfterOutputFits DEF CreateOutput, Goto, SInv, IInv, Types
<1>2. ~ NoFile(job[p])
  BY <1>0 DEF SInv, IInv, Place
<1>3. /\ fs'[job[p].output] = Empty /\ holds'[p]
      /\ Undisturbed(p)' = Undisturbed(p)
  BY <1>0, <1>1, <1>2, PutOwn
<1>4. LabelFits(p)'
  BY <1>0, <1>1, AfterOutputFits DEF LabelFits, SInv
<1>5. ASSUME Undisturbed(p) PROVE Good(p)'
  <2>1. SourceRead(p) /\ InputsRead(p)
    BY <1>5 DEF SInv, Good
  <2>2. SourceRead(p)'
    BY <1>0, <1>1, <2>1 DEF SourceRead
  <2>3. InputsRead(p)'
    BY <1>0, <1>1, <2>1 DEF InputsRead
  <2>4. l = "flush" => Result(p, cur[p])
    BY <1>0, <2>1, AfterOutputFits DEF InputsRead, Result, OntoInput
  <2>5. Writing(p)'
    BY <1>0, <1>1, <1>3, <2>4 DEF Writing, Result
  <2>6. Patched(p)' /\ Delivered(p)'
    BY <1>1 DEF Patched, Delivered
  <2>7. Touched(p)'
    BY <1>0, <1>1, <1>2, <1>5, <2>1, PutOwn DEF InputsRead
  <2> QED
    BY <2>2, <2>3, <2>5, <2>6, <2>7 DEF Good
<1> QED
  BY <1>3, <1>4, <1>5

\* encode --check-only promises nothing of its file.
LEMMA SkimGood ==
  ASSUME SInv, NEW p \in Procs, Skim(p)
  PROVE  LabelFits(p)' /\ (Undisturbed(p)' => Good(p)')
<1>0. pc[p] = "skim" /\ KeepFiles /\ UNCHANGED <<job, began>>
  BY DEF Skim
<1>1. pc'[p] = "end"
  BY DEF Skim, End, SInv, IInv, Types
<1>2. job[p].cmd = "encode" /\ job[p].check
  BY <1>0 DEF SInv, LabelFits
<1>3. LabelFits(p)'
  BY <1>0, <1>1 DEF LabelFits, SInv
<1>4. SourceRead(p)' /\ InputsRead(p)' /\ Patched(p)' /\ Writing(p)' /\ Delivered(p)'
  BY <1>0, <1>1, <1>2 DEF SourceRead, InputsRead, Patched, Writing, Delivered
<1> QED
  BY <1>0, <1>1, <1>3, <1>4, QuietGood

\* What the loop over the input gives, when it does not fail, is right.
LEMMA StreamResult ==
  ASSUME SInv, NEW p \in Procs, Undisturbed(p), pc[p] = "stream",
         NEW c \in Outcomes(job[p], src[p], fs[job[p].inputs[1]]), c # Absent
  PROVE  Result(p, c)
<1> DEFINE in == job[p].inputs[1]
<1>1. /\ job[p].cmd # "merge"
      /\ Readable(job[p], began[p])
      /\ job[p].cmd # "recode" => src[p] = SourceOf(job[p], began[p])
  BY DEF SInv, LabelFits, Good, InputsRead, SourceRead
<1>2. in \in Files(job[p]) \cap Paths
  <2>1. job[p].inputs \in Seq(Paths) /\ Len(job[p].inputs) = 1
    BY <1>1 DEF SInv, LabelFits, IInv, Types, JobType
  <2> QED
    BY <2>1 DEF Files
<1>3. CASE OntoInput(job[p])
  <2>1. fs[in] = Empty
    BY <1>3 DEF OntoInput, SInv, Good, Writing
  <2>2. Empty[1] = "empty" /\ Part[1] = "part"
    BY DEF Empty, Part
  <2>3. Recoded(Empty) = {Absent}
    BY <2>2 DEF Recoded
  <2>4. job[p].cmd \in Encoding
    BY <2>1, <2>3, NothingDecoded DEF Outcomes
  <2> QED
    BY <1>1, <1>3, <2>1, <2>4 DEF Outcomes, Result, Encoding, Decoding
<1>4. CASE ~ OntoInput(job[p])
  <2>1. fs[in] = began[p][in]
    BY <1>1, <1>2, <1>4 DEF OntoInput, SInv, IInv, Changes, Cause
  <2>2. Outcomes(job[p], src[p], fs[in]) = Outcomes(job[p], SourceOf(job[p], began[p]), began[p][in])
    BY <1>1, <2>1 DEF Outcomes, Encoding, Decoding
  <2>3. Means(job[p], began[p]) = Outcomes(job[p], SourceOf(job[p], began[p]), began[p][in]) \ {Absent}
    BY <1>1 DEF Means
  <2> QED
    BY <1>4, <2>2, <2>3 DEF Result
<1> QED
  BY <1>3, <1>4

\* The loop, with some of its output in the file or none.
LEMMA StreamGood ==
  ASSUME SInv, NEW p \in Procs, Stream(p)
  PROVE  LabelFits(p)' /\ (Undisturbed(p)' => Good(p)')
<1>0. pc[p] = "stream" /\ UNCHANGED <<job, began, src>>
  BY DEF Stream
<1>1. PICK c \in Outcomes(job[p], src[p], fs[job[p].inputs[1]]) :
        /\ cur' = [cur EXCEPT ![p] = c]
        /\ IF c = Absent THEN End(p, 1) ELSE Goto(p, "flush")
  BY DEF Stream
<1>2. /\ cur'[p] = c
      /\ c = Absent => pc'[p] = "end" /\ code'[p] = 1
      /\ c # Absent => pc'[p] = "flush"
  BY <1>1 DEF End, Goto, SInv, IInv, Types, Types2
<1>3. LabelFits(p)'
  BY <1>0, <1>2 DEF LabelFits, SInv
<1>4. /\ Undisturbed(p)' = Undisturbed(p)
      /\ holds'[p] = holds[p]
      /\ Undisturbed(p) => Touched(p)'
  <2>1. CASE KeepFiles
    BY <1>0, <1>2, <2>1 DEF KeepFiles, Undisturbed, SInv, Good, Touched
  <2>2. CASE ~ NoFile(job[p]) /\ Put(p, Part, holds[p])
    <3>1. Undisturbed(p) => Readable(job[p], began[p]) /\ job[p].cmd # "merge"
      BY <1>0 DEF SInv, LabelFits, Good, InputsRead
    <3> QED
      BY <1>0, <1>2, <2>2, <3>1, PutOwn
  <2> QED
    BY <2>1, <2>2 DEF Stream
<1>5. ASSUME Undisturbed(p) PROVE Good(p)'
  <2>1. SourceRead(p) /\ InputsRead(p) /\ Writing(p) /\ job[p].cmd # "merge"
    BY <1>0, <1>5 DEF SInv, Good, LabelFits
  <2>2. SourceRead(p)'
    BY <1>0, <1>2, <2>1 DEF SourceRead
  <2>3. InputsRead(p)'
    BY <1>0, <1>2, <2>1 DEF InputsRead
  <2>4. c # Absent => Result(p, c)
    BY <1>0, <1>5, StreamResult
  <2>5. Writing(p)'
    BY <1>0, <1>2, <1>4, <2>1, <2>4 DEF Writing, Result
  <2>6. Patched(p)' /\ Delivered(p)'
    BY <1>2 DEF Patched, Delivered
  <2> QED
    BY <1>4, <1>5, <2>2, <2>3, <2>5, <2>6 DEF Good
<1> QED
  BY <1>3, <1>4, <1>5

\* The last of the output is written and the command ends with 0.
LEMMA FlushGood ==
  ASSUME SInv, NEW p \in Procs, Flush(p)
  PROVE  LabelFits(p)' /\ (Undisturbed(p)' => Good(p)')
<1>0. pc[p] = "flush" /\ UNCHANGED <<job, began>>
  BY DEF Flush
<1>1. pc'[p] = "end"
  BY DEF Flush, End, SInv, IInv, Types
<1>2. LabelFits(p)'
  BY <1>0, <1>1 DEF LabelFits, SInv
<1>3. SourceRead(p)' /\ InputsRead(p)' /\ Patched(p)' /\ Writing(p)'
  BY <1>1 DEF SourceRead, InputsRead, Patched, Writing
<1>4. Undisturbed(p) => Result(p, cur[p])
  BY <1>0 DEF SInv, Good, Writing
<1>5. job[p].check => job[p].cmd = "decode" /\ NoFile(job[p])
  BY <1>0 DEF SInv, IInv, Place, Types, JobType, NoJob, NoFile
<1>6. Undisturbed(p) /\ job[p].check => Means(job[p], began[p]) # {}
  BY <1>4, <1>5 DEF Result, OntoInput
<1>7. CASE NoFile(job[p])
  <2>1. KeepFiles /\ (~ job[p].check => said'[p] = cur[p])
    BY <1>7 DEF Flush, SInv, Types2
  <2>2. Undisturbed(p) => Delivered(p)'
    BY <1>0, <1>4, <1>6, <1>7, <2>1 DEF Delivered, Result
  <2> QED
    BY <1>0, <1>1, <1>2, <1>3, <2>1, <2>2, QuietGood
<1>8. CASE ~ NoFile(job[p])
  <2>1. Put(p, IF holds[p] THEN cur[p] ELSE Part, holds[p])
    BY <1>8 DEF Flush
  <2>2. /\ fs'[job[p].output] = IF holds[p] THEN cur[p] ELSE Part
        /\ Undisturbed(p)' = Undisturbed(p)
    BY <1>0, <1>1, <1>8, <2>1, PutOwn
  <2>3. ASSUME Undisturbed(p) PROVE Delivered(p)' /\ Touched(p)'
    <3>1. holds[p] /\ InputsRead(p)
      BY <1>0, <1>8, <2>3 DEF SInv, Good, Writing
    <3>2. Delivered(p)'
      BY <1>0, <1>4, <1>6, <1>8, <2>2, <2>3, <3>1 DEF Delivered, Result
    <3>3. Touched(p)'
      BY <1>0, <1>1, <1>8, <2>1, <2>3, <3>1, PutOwn DEF InputsRead
    <3> QED
      BY <3>2, <3>3
  <2> QED
    BY <1>2, <1>3, <2>2, <2>3 DEF Good
<1> QED
  BY <1>7, <1>8
-----------------------------------------------------------------------------
\* What a command is to read is what is there when it starts.
LEMMA StartSInv ==
  ASSUME SInv, NEW p \in Procs, NEW j \in Jobs[p], Start(p, j)
  PROVE  SInv'
<1> DEFINE drop == j.stdout /\ j.output # NoPath /\ ~ j.quiet
           k    == [j EXCEPT !.output = IF drop THEN NoPath ELSE @]
           l    == CASE j.cmd = "merge" -> "usage" [] j.cmd = "recode" -> "open"
                     [] OTHER -> "source"
<1>0. IInv'
  BY StartIInv DEF SInv
<1>1. /\ pc[p] = "idle" /\ KeepFiles /\ UNCHANGED <<src, cur, step, said, code>>
      /\ job' = [job EXCEPT ![p] = k]
      /\ began' = [began EXCEPT ![p] = fs]
      /\ pc' = [pc EXCEPT ![p] = l]
  BY DEF Start, Goto
<1>2. job'[p] = k /\ began'[p] = fs /\ pc'[p] = l /\ fs' = fs
  BY <1>1 DEF SInv, IInv, Types, KeepFiles
<1>3. Apart(p) /\ Types2' /\ \A q \in Procs \ {p} : Private(q)
  BY <1>1 DEF Apart, Private, SInv, Types2, IInv, Types
<1>4. k.cmd = j.cmd /\ k # NoJob
  BY JobAssumption DEF JobType, NoJob
<1>5. LabelFits(p)'
  <2>1. /\ l \in {"usage", "open", "source"}
        /\ l = "usage" => k.cmd = "merge"
        /\ l = "open" => k.cmd = "recode"
        /\ l = "source" => k.cmd \notin {"merge", "recode"}
    BY <1>4
  <2>2. step'[p] = 0
    BY <1>1 DEF SInv, LabelFits
  <2> HIDE DEF k, l
  <2> QED
    BY <1>2, <1>4, <2>1, <2>2 DEF LabelFits
<1>6. Good(p)'
  BY <1>2, <1>4 DEF Good, SourceRead, InputsRead, Patched, Writing, Delivered, Touched
<1> QED
  BY <1>0, <1>3, <1>5, <1>6, OthersGood DEF SInv

\* Every step keeps what has been read and what is to be written right.
LEMMA StepSInv ==
  ASSUME SInv, NEW p \in Procs, Step(p) \/ Fails(p)
  PROVE  SInv'
<1>1. IInv'
  BY StepIInv DEF SInv
<1>2. ASSUME Fails(p) PROVE LabelFits(p)' /\ (Undisturbed(p)' => Good(p)')
  <2>1. KeepFiles /\ UNCHANGED <<job, began>> /\ pc[p] # "idle" /\ End(p, 1)
    BY <1>2 DEF Fails, Active
  <2> QED
    BY <2>1, FailGood
<1>3. LabelFits(p)' /\ (Undisturbed(p)' => Good(p)')
  BY <1>2, ReadSourceGood, OpenInputGood, CheckOutputGood, CreateOutputGood, SkimGood,
     StreamGood, FlushGood, MergeUsageGood, MergePatchGood, MergeEncodeGood DEF Step
<1> QED
  BY <1>1, <1>3, Local, OthersGood DEF SInv

\* The second invariant is inductive.
LEMMA NextSInv == SInv /\ [Next]_vars => SInv'
<1> SUFFICES ASSUME SInv, [Next]_vars PROVE SInv'
  OBVIOUS
<1>1. CASE Next
  BY <1>1, StartSInv, StepSInv DEF Next
<1>2. CASE UNCHANGED vars
  <2>1. IInv' /\ Types2'
    BY <1>2, NextIInv DEF SInv, Types2, vars
  <2>2. ASSUME NEW p \in Procs PROVE LabelFits(p)' /\ (Undisturbed(p)' => Good(p)')
    BY <1>2 DEF SInv, LabelFits, Undisturbed, Good, SourceRead, InputsRead, Patched, Writing,
                Delivered, Touched, Result, vars
  <2> QED
    BY <2>1, <2>2 DEF SInv
<1> QED
  BY <1>1, <1>2

\* What an undisturbed process read is what its files were when it started.
THEOREM ReadsWhatWasThere == Spec => []SInv
BY InitSInv, NextSInv, PTL DEF Spec

\* A command that ends with 0 delivered all of what its files meant when it
\* was started (cmd_encode, cmd_decode, cmd_recode, cmd_merge, encode_file,
\* decode_file), for any number of processes, of files and of patches.
THEOREM ZeroMeansDelivered == Spec => []SuccessIsTrue
<1>1. SInv => SuccessIsTrue
  BY DEF SInv, Good, Delivered, Result, SuccessIsTrue, Ended
<1> QED
  BY <1>1, ReadsWhatWasThere, PTL

\* A command that could not read its files, or merge one of its patches, left
\* all files as they were (the early returns of the six functions).
THEOREM FailsBeforeTouching == Spec => []NothingTouchedEarly
<1>1. SInv => NothingTouchedEarly
  BY DEF SInv, IInv, Changes, Cause, Good, Touched, NothingTouchedEarly
<1> QED
  BY <1>1, ReadsWhatWasThere, PTL
=============================================================================
