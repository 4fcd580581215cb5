--------------------------- MODULE CommandsReads ----------------------------
(***************************************************************************)
(* What an undisturbed process has read is what its files were when it was *)
(* started; the invariant says, by label, what it has read so far and what *)
(* it is about to write.  Here the invariant and the steps that read;      *)
(* CommandsMerge has those of merge, CommandsResults the steps that write  *)
(* and the theorems.                                                       *)
(***************************************************************************)
EXTENDS CommandsProofs

Types2 ==
  /\ DOMAIN src = Procs /\ DOMAIN cur = Procs /\ DOMAIN step = Procs
  /\ DOMAIN code = Procs /\ DOMAIN said = Procs

\* The command a label belongs to.
LabelFits(p) ==
  /\ pc[p] \in {"source", "open", "skim", "stream"} => job[p].cmd # "merge"
  /\ pc[p] = "source" => job[p].cmd # "recode"
  /\ pc[p] \in {"usage", "patch"} => job[p].cmd = "merge"
  /\ pc[p] = "skim" => job[p].cmd = "encode" /\ job[p].check
  /\ pc[p] # "idle" => job[p] # NoJob
  /\ pc[p] \in {"idle", "usage"} => step[p] = 0
  /\ pc[p] = "patch" => Len(job[p].inputs) > 1

SourceRead(p) ==
  pc[p] \in {"open", "output", "create", "stream", "flush"} /\ job[p].cmd \notin {"recode", "merge"} =>
    src[p] = SourceOf(job[p], began[p]) /\ src[p] # Absent

\* From the test of the output on, all that is needed could be read.
InputsRead(p) ==
  /\ pc[p] \in {"output", "create", "skim", "stream", "flush"} => Readable(job[p], began[p])
  /\ pc[p] \in {"output", "create", "flush"} /\ job[p].cmd = "merge" =>
       cur[p] \in Means(job[p], began[p])

Patched(p) ==
  pc[p] = "patch" =>
    /\ step[p] \in 0 .. Len(job[p].inputs)
    /\ step[p] > 0 =>
         /\ SourceOf(job[p], began[p]) # Absent
         /\ \A i \in 1 .. step[p] : began[p][job[p].inputs[i]] # Absent
         /\ cur[p] \in Chain(began[p], job[p].inputs, SourceOf(job[p], began[p]), step[p])

\* What is about to be written, and into which file.
Result(p, c) ==
  IF OntoInput(job[p])
    THEN job[p].cmd \in Encoding /\ c = Delta(SourceOf(job[p], began[p]), Empty)
    ELSE c \in Means(job[p], began[p])

Writing(p) ==
  /\ pc[p] = "stream" /\ ~ NoFile(job[p]) => fs[job[p].output] = Empty
  /\ pc[p] \in {"stream", "flush"} /\ ~ NoFile(job[p]) => holds[p]
  /\ pc[p] = "flush" => Result(p, cur[p])

Delivered(p) ==
  pc[p] = "end" /\ code[p] = 0 =>
    IF job[p].check
      THEN job[p].cmd = "decode" => Means(job[p], began[p]) # {}
      ELSE Result(p, IF NoFile(job[p]) THEN said[p] ELSE fs[job[p].output])

Touched(p) ==
  \A x \in Files(job[p]) \cap Paths : fs[x] # began[p][x] =>
    /\ Readable(job[p], began[p])
    /\ job[p].cmd = "merge" => Means(job[p], began[p]) # {}

Good(p) ==
  SourceRead(p) /\ InputsRead(p) /\ Patched(p) /\ Writing(p) /\ Delivered(p) /\ Touched(p)

SInv ==
  /\ IInv
  /\ Types2
  /\ \A p \in Procs : LabelFits(p) /\ (Undisturbed(p) => Good(p))

\* Before it starts a process has read nothing.
LEMMA InitSInv == Init => SInv
<1> SUFFICES ASSUME Init PROVE SInv
  OBVIOUS
<1>1. IInv
  BY InitIInv
<1>2. Types2
  BY DEF Init, Types2
<1>3. ASSUME NEW p \in Procs PROVE LabelFits(p) /\ ~ Undisturbed(p)
  BY DEF Init, LabelFits, Undisturbed
<1> QED
  BY <1>1, <1>2, <1>3 DEF SInv

\* The local state of the others.
Private(q) ==
  /\ src'[q] = src[q] /\ cur'[q] = cur[q] /\ step'[q] = step[q]
  /\ code'[q] = code[q] /\ said'[q] = said[q]

\* What a process has read stays right while others run.
LEMMA OthersGood ==
  ASSUME SInv, NEW p \in Procs, Apart(p), NEW q \in Procs \ {p}, Private(q)
  PROVE  LabelFits(q)' /\ (Undisturbed(q)' => Good(q)')
<1>1. LabelFits(q)'
  BY DEF SInv, LabelFits, Apart, Private
<1>2. ASSUME Undisturbed(q)' PROVE Good(q)'
  <2>0. pc'[q] = pc[q] /\ job'[q] = job[q] /\ began'[q] = began[q]
    BY DEF Apart
  <2>1. Undisturbed(q)
    BY <1>2 DEF Undisturbed, Apart, KeepFiles, Put, SInv, IInv, Types
  <2>2. /\ \A x \in Files(job[q]) \cap Paths : fs'[x] = fs[x]
        /\ holds[q] => holds'[q]
    <3>1. CASE KeepFiles
      BY <3>1 DEF KeepFiles
    <3>2. CASE \E c, m : Put(p, c, m)
      <4> PICK c, m : Put(p, c, m)
        BY <3>2
      <4>1. job[p].output \notin Files(job[q])
        BY <1>2, <2>1 DEF Put, Undisturbed
      <4>2. job[q].output # job[p].output
        BY <4>1 DEF Files
      <4> QED
        BY <4>1, <4>2 DEF Put, SInv, IInv, Types
    <3> QED
      BY <3>1, <3>2 DEF Apart
  <2>3. ~ NoFile(job[q]) => job[q].output \in Files(job[q]) \cap Paths
    BY DEF NoFile, Files, SInv, IInv, Types, JobType, NoJob
  <2>4. Good(q)
    BY <2>1 DEF SInv
  <2>5. SourceRead(q)' /\ InputsRead(q)' /\ Patched(q)'
    BY <2>0, <2>4 DEF Good, SourceRead, InputsRead, Patched, Private
  <2>6. ASSUME NEW c PROVE Result(q, c)' = Result(q, c)
    BY <2>0 DEF Result
  <2>7. Writing(q)' /\ Delivered(q)'
    BY <2>0, <2>2, <2>3, <2>4, <2>6 DEF Good, Writing, Delivered, Private, Result
  <2>8. Touched(q)'
    BY <2>0, <2>2, <2>4 DEF Good, Touched
  <2> QED
    BY <2>5, <2>7, <2>8 DEF Good
<1> QED
  BY <1>1, <1>2

\* A step of a running process changes only its own entries.
LEMMA Local ==
  ASSUME SInv, NEW p \in Procs, Step(p) \/ Fails(p)
  PROVE  /\ UNCHANGED <<job, began>>
         /\ Apart(p)
         /\ \A q \in Procs \ {p} : Private(q)
         /\ Types2'
<1> USE DEF SInv, IInv, Types, Types2, Apart, Private
<1>1. CASE ReadSource(p)
  BY <1>1 DEF ReadSource, End, Goto
<1>2. CASE OpenInput(p)
  BY <1>2 DEF OpenInput, End, Goto
<1>3. CASE CheckOutput(p)
  BY <1>3 DEF CheckOutput, End, Goto
<1>4. CASE CreateOutput(p)
  BY <1>4 DEF CreateOutput, End, Goto
<1>5. CASE Skim(p)
  BY <1>5 DEF Skim, End, Goto
<1>6. CASE Stream(p)
  BY <1>6 DEF Stream, End, Goto
<1>7. CASE Flush(p)
  BY <1>7 DEF Flush, End, Goto
<1>8. CASE MergeUsage(p)
  BY <1>8 DEF MergeUsage, End, Goto
<1>9. CASE MergePatch(p)
  BY <1>9 DEF MergePatch, End, Goto
<1>10. CASE MergeEncode(p)
  BY <1>10 DEF MergeEncode, End, Goto
<1>11. CASE Fails(p)
  BY <1>11 DEF Fails, End, Goto
<1> QED
  BY <1>1, <1>2, <1>3, <1>4, <1>5, <1>6, <1>7, <1>8, <1>9, <1>10, <1>11 DEF Step

\* Before the output is created a process finds its files as they were.
LEMMA FilesSame ==
  ASSUME SInv, NEW p \in Procs, Undisturbed(p), pc[p] \notin Late
  PROVE  /\ \A x \in Files(job[p]) \cap Paths : fs[x] = began[p][x]
         /\ ContentOf(job[p].source) = SourceOf(job[p], began[p])
         /\ \A i \in 1 .. Len(job[p].inputs) :
              fs[job[p].inputs[i]] = began[p][job[p].inputs[i]]
<1>1. \A x \in Files(job[p]) \cap Paths : fs[x] = began[p][x]
  BY DEF SInv, IInv, Changes, Cause, Late
<1>2. job[p].source # NoPath => job[p].source \in Files(job[p]) \cap Paths
  BY DEF SInv, IInv, Types, JobType, NoJob, Files
<1>3. \A i \in 1 .. Len(job[p].inputs) : job[p].inputs[i] \in Files(job[p]) \cap Paths
  BY DEF SInv, IInv, Types, JobType, NoJob, Files
<1> QED
  BY <1>1, <1>2, <1>3 DEF ContentOf, SourceOf

\* A step that writes no file, seen from the process that takes it.
LEMMA QuietGood ==
  ASSUME SInv, NEW p \in Procs, KeepFiles, UNCHANGED <<job, began>>,
         pc[p] # "idle", pc'[p] # "idle",
         LabelFits(p)',
         Undisturbed(p) => SourceRead(p)' /\ InputsRead(p)' /\ Patched(p)' /\ Writing(p)'
                             /\ Delivered(p)'
  PROVE  LabelFits(p)' /\ (Undisturbed(p)' => Good(p)')
<1>1. Undisturbed(p)' = Undisturbed(p)
  BY DEF Undisturbed, KeepFiles
<1>2. Undisturbed(p) => Touched(p)'
  BY DEF SInv, Good, Touched, KeepFiles
<1> QED
  BY <1>1, <1>2 DEF Good

\* A failing call leaves the process with nothing to promise.
LEMMA FailGood ==
  ASSUME SInv, NEW p \in Procs, KeepFiles, UNCHANGED <<job, began>>,
         pc[p] # "idle", End(p, 1)
  PROVE  LabelFits(p)' /\ (Undisturbed(p)' => Good(p)')
<1>1. pc'[p] = "end" /\ code'[p] = 1
  BY DEF End, SInv, IInv, Types, Types2
<1>2. LabelFits(p)'
  BY <1>1 DEF LabelFits, SInv
<1>3. SourceRead(p)' /\ InputsRead(p)' /\ Patched(p)' /\ Writing(p)' /\ Delivered(p)'
  BY <1>1 DEF SourceRead, InputsRead, Patched, Writing, Delivered
<1> QED
  BY <1>1, <1>2, <1>3, QuietGood
-----------------------------------------------------------------------------
\* The reading steps.  The source is read as it was.
LEMMA ReadSourceGood ==
  ASSUME SInv, NEW p \in Procs, ReadSource(p)
  PROVE  LabelFits(p)' /\ (Undisturbed(p)' => Good(p)')
<1>0. pc[p] = "source" /\ KeepFiles /\ UNCHANGED <<job, began>>
  BY DEF ReadSource
<1>1. CASE End(p, 1)
  BY <1>0, <1>1, FailGood
<1>2. CASE src'[p] # Absent /\ Goto(p, "open")
  <2>1. pc'[p] = "open" /\ src'[p] = ContentOf(job[p].source)
    BY <1>2 DEF ReadSource, Goto, SInv, IInv, Types, Types2
  <2>2. LabelFits(p)'
    BY <1>0, <2>1 DEF LabelFits, SInv
  <2>3. ASSUME Undisturbed(p) PROVE SourceRead(p)'
    BY <1>0, <1>2, <2>1, <2>3, FilesSame DEF SourceRead, Late
  <2>4. InputsRead(p)' /\ Patched(p)' /\ Writing(p)' /\ Delivered(p)'
    BY <2>1 DEF InputsRead, Patched, Writing, Delivered
  <2> QED
    BY <1>0, <2>1, <2>2, <2>3, <2>4, QuietGood
<1> QED
  BY <1>1, <1>2 DEF ReadSource

\* The input was there when the command was started.
LEMMA OpenInputGood ==
  ASSUME SInv, NEW p \in Procs, OpenInput(p)
  PROVE  LabelFits(p)' /\ (Undisturbed(p)' => Good(p)')
<1>0. pc[p] = "open" /\ KeepFiles /\ UNCHANGED <<job, began, src>>
  BY DEF OpenInput
<1>1. CASE End(p, 1)
  BY <1>0, <1>1, FailGood
<1>2. CASE fs[job[p].inputs[1]] # Absent /\ Goto(p, "output")
  <2>1. pc'[p] = "output"
    BY <1>2 DEF Goto, SInv, IInv, Types
  <2>2. job[p].cmd # "merge" /\ Len(job[p].inputs) = 1
    BY <1>0 DEF SInv, LabelFits, IInv, Types, JobType
  <2>3. LabelFits(p)'
    BY <1>0, <2>1 DEF LabelFits, SInv
  <2>4. ASSUME Undisturbed(p) PROVE SourceRead(p)' /\ InputsRead(p)'
    <3>1. began[p][job[p].inputs[1]] # Absent
      BY <1>0, <1>2, <2>2, <2>4, FilesSame DEF Late
    <3>2. job[p].cmd # "recode" =>
            src[p] = SourceOf(job[p], began[p]) /\ src[p] # Absent
      BY <1>0, <2>2, <2>4 DEF SInv, Good, SourceRead
    <3>3. Readable(job[p], began[p])
      BY <2>2, <3>1, <3>2 DEF Readable
    <3> QED
      BY <1>0, <2>2, <3>2, <3>3 DEF SourceRead, InputsRead
  <2>5. Patched(p)' /\ Writing(p)' /\ Delivered(p)'
    BY <2>1 DEF Patched, Writing, Delivered
  <2> QED
    BY <1>0, <2>1, <2>3, <2>4, <2>5, QuietGood
<1> QED
  BY <1>1, <1>2 DEF OpenInput
=============================================================================
