--------------------------- MODULE CommandsProofs ---------------------------
(***************************************************************************)
(* KeptWithoutForce and AskedNotToWrite of Commands for any number of      *)
(* processes, files and commands.                                          *)
(***************************************************************************)
EXTENDS Commands, TLAPS

Types ==
  /\ DOMAIN fs = Paths
  /\ pc \in [Procs -> Labels]
  /\ job \in [Procs -> JobType]
  /\ holds \in [Procs -> BOOLEAN]
  /\ disturbed \in [Procs -> BOOLEAN]
  /\ DOMAIN began = Procs

\* Why a file of an undisturbed process may differ from what it was.
Cause(p, x) ==
  /\ x = job[p].output
  /\ ~ NoFile(job[p])
  /\ MayReplace(job[p]) \/ began[p][x] = Absent
  /\ job[p].check => fs[x] = Empty
  /\ pc[p] \in {"skim", "stream", "flush", "end"}

Changes(p) ==
  Undisturbed(p) =>
    \A x \in Files(job[p]) \cap Paths : fs[x] = began[p][x] \/ Cause(p, x)

\* What the labels before and behind File::create know.
Place(p) ==
  /\ pc[p] = "idle" => job[p] = NoJob
  /\ job[p].stdout /\ job[p].output # NoPath => job[p].quiet
  /\ pc[p] = "create" => ~ NoFile(job[p])
  /\ pc[p] \in {"create", "stream", "flush"} /\ ~ NoFile(job[p]) /\ Undisturbed(p) =>
       MayReplace(job[p]) \/ began[p][job[p].output] = Absent
  /\ pc[p] \in {"stream", "flush"} => ~ (job[p].cmd = "encode" /\ job[p].check)

IInv == Types /\ \A p \in Procs : Changes(p) /\ Place(p)
-----------------------------------------------------------------------------
\* Nothing is changed before a process starts.
LEMMA InitIInv == Init => IInv
<1> SUFFICES ASSUME Init PROVE IInv
  OBVIOUS
<1>1. NoJob \in JobType
  BY DEF NoJob, JobType
<1>2. Types
  BY <1>1, JobAssumption DEF Init, Types, Labels
<1>3. ASSUME NEW p \in Procs PROVE Changes(p) /\ Place(p)
  BY DEF Init, Changes, Place, Undisturbed, NoJob
<1> QED
  BY <1>2, <1>3 DEF IInv

\* How a step of one process looks to the others: it leaves their own state
\* alone, and if it writes a file of theirs they are disturbed.
Apart(p) ==
  /\ \A q \in Procs \ {p} : pc'[q] = pc[q] /\ job'[q] = job[q] /\ began'[q] = began[q]
  /\ KeepFiles \/ \E c, m : Put(p, c, m)

\* A step of one process leaves the invariant of every other.
LEMMA OthersKept ==
  ASSUME IInv, NEW p \in Procs, Apart(p), NEW q \in Procs \ {p}
  PROVE  Changes(q)' /\ Place(q)'
<1>1. disturbed[q] => disturbed'[q]
  BY DEF Apart, KeepFiles, Put, IInv, Types
<1>2. Undisturbed(q)' => Undisturbed(q)
  BY <1>1 DEF Undisturbed, Apart
<1>3. ASSUME Undisturbed(q)', NEW x \in Files(job[q]) \cap Paths PROVE fs'[x] = fs[x]
  <2>1. CASE KeepFiles
    BY <2>1 DEF KeepFiles
  <2>2. CASE \E c, m : Put(p, c, m)
    <3> PICK c, m : Put(p, c, m)
      BY <2>2
    <3>1. pc[q] # "idle"
      BY <1>2, <1>3 DEF Undisturbed
    <3>2. job[p].output # x
      BY <1>3, <3>1 DEF Put, Undisturbed
    <3> QED
      BY <3>2 DEF Put, IInv, Types
  <2> QED
    BY <2>1, <2>2 DEF Apart
<1>4. Changes(q)'
  <2> SUFFICES ASSUME Undisturbed(q)', NEW x \in Files(job[q]) \cap Paths
               PROVE  fs'[x] = began'[q][x] \/ Cause(q, x)'
    BY DEF Changes, Apart
  <2>1. fs[x] = began[q][x] \/ Cause(q, x)
    BY <1>2 DEF IInv, Changes
  <2> QED
    BY <2>1, <1>3 DEF Cause, Apart
<1>5. Place(q)'
  BY <1>2 DEF IInv, Place, Apart
<1> QED
  BY <1>4, <1>5
-----------------------------------------------------------------------------
Late == {"skim", "stream", "flush", "end"}

\* A step of a running process that writes no file keeps the invariant when
\* its new label is one it may come to.
LEMMA QuietStep ==
  ASSUME IInv, NEW p \in Procs, NEW l \in Labels \ {"idle"},
         KeepFiles, UNCHANGED <<job, began>>,
         pc[p] # "idle", pc' = [pc EXCEPT ![p] = l],
         pc[p] \in Late => l \in Late,
         l = "create" => /\ ~ NoFile(job[p])
                         /\ MayReplace(job[p]) \/ fs[job[p].output] = Absent
                         /\ pc[p] \notin Late,
         l \in {"stream", "flush"} =>
           /\ ~ (job[p].cmd = "encode" /\ job[p].check)
           /\ NoFile(job[p]) \/ pc[p] \in {"stream", "flush"}
  PROVE  IInv'
<1>1. Types'
  BY DEF IInv, Types, KeepFiles
<1>2. Apart(p)
  BY DEF Apart, IInv, Types
<1>3. pc'[p] = l
  BY DEF IInv, Types
<1>4. Undisturbed(p)' = Undisturbed(p)
  BY <1>3 DEF Undisturbed, KeepFiles
<1>5. Changes(p)'
  BY <1>3, <1>4 DEF IInv, Changes, Cause, KeepFiles, Late
<1>6. Place(p)'
  <2>1. ASSUME l = "create", Undisturbed(p)
        PROVE  MayReplace(job[p]) \/ began[p][job[p].output] = Absent
    <3>1. job[p].output \in Files(job[p]) \cap Paths
      BY <2>1 DEF NoFile, Files, IInv, Types, JobType, NoJob
    <3>2. fs[job[p].output] = began[p][job[p].output]
      BY <2>1, <3>1 DEF IInv, Changes, Cause, Late
    <3> QED
      BY <2>1, <3>2
  <2> QED
    BY <1>3, <1>4, <2>1 DEF IInv, Place
<1> QED
  BY <1>1, <1>2, <1>5, <1>6, OthersKept DEF IInv

\* So does a step that writes the output of a process that may.
LEMMA WriteStep ==
  ASSUME IInv, NEW p \in Procs, NEW l \in Late, NEW c, NEW m \in BOOLEAN,
         Put(p, c, m), UNCHANGED <<job, began>>,
         pc[p] # "idle", pc' = [pc EXCEPT ![p] = l],
         ~ NoFile(job[p]),
         Undisturbed(p) => MayReplace(job[p]) \/ began[p][job[p].output] = Absent,
         job[p].check => c = Empty,
         l \in {"stream", "flush"} => ~ (job[p].cmd = "encode" /\ job[p].check)
  PROVE  IInv'
<1>1. l \in Labels \ {"idle", "create"}
  BY DEF Late, Labels
<1>2. Types'
  <2>1. disturbed' \in [Procs -> BOOLEAN] /\ holds' \in [Procs -> BOOLEAN]
    BY DEF Put, IInv, Types
  <2> QED
    BY <1>1, <2>1 DEF IInv, Types, Put
<1>3. Apart(p)
  BY DEF Apart, IInv, Types
<1>4. pc'[p] = l
  BY DEF IInv, Types
<1>5. Undisturbed(p)' = Undisturbed(p)
  BY <1>1, <1>4 DEF Undisturbed, Put, IInv, Types
<1>6. Changes(p)'
  <2> SUFFICES ASSUME Undisturbed(p), NEW x \in Files(job[p]) \cap Paths
               PROVE  fs'[x] = began[p][x] \/ Cause(p, x)'
    BY <1>5 DEF Changes
  <2>1. CASE x = job[p].output
    <3>1. fs'[x] = c
      BY <2>1 DEF Put, IInv, Types
    <3> QED
      BY <1>4, <2>1, <3>1 DEF Cause, Late
  <2>2. CASE x # job[p].output
    <3>1. fs'[x] = fs[x]
      BY <2>2 DEF Put, IInv, Types
    <3>2. fs[x] = began[p][x]
      BY <2>2 DEF IInv, Changes, Cause
    <3> QED
      BY <3>1, <3>2
  <2> QED
    BY <2>1, <2>2
<1>7. Place(p)'
  BY <1>1, <1>4, <1>5 DEF IInv, Place
<1> QED
  BY <1>2, <1>3, <1>6, <1>7, OthersKept DEF IInv
-----------------------------------------------------------------------------
\* Starting a command changes no file.
LEMMA StartIInv ==
  ASSUME IInv, NEW p \in Procs, NEW j \in Jobs[p], Start(p, j)
  PROVE  IInv'
<1> DEFINE drop == j.stdout /\ j.output # NoPath /\ ~ j.quiet
           k    == [j EXCEPT !.output = IF drop THEN NoPath ELSE @]
<1>1. /\ pc[p] = "idle"
      /\ job' = [job EXCEPT ![p] = k]
      /\ began' = [began EXCEPT ![p] = fs]
      /\ KeepFiles
  BY DEF Start
<1>2. k \in JobType
  BY JobAssumption DEF JobType
<1>3. PICK l \in {"usage", "open", "source"} : pc' = [pc EXCEPT ![p] = l]
  BY DEF Start, Goto
<1>4. Types'
  BY <1>1, <1>2, <1>3 DEF IInv, Types, KeepFiles, Labels
<1>5. Apart(p)
  BY <1>1, <1>3 DEF Apart, IInv, Types
<1>6. job'[p] = k /\ began'[p] = fs /\ pc'[p] = l /\ fs' = fs
  BY <1>1, <1>3 DEF IInv, Types, KeepFiles
<1>7. Changes(p)'
  BY <1>6 DEF Changes
<1>8. k.stdout /\ k.output # NoPath => k.quiet
  BY JobAssumption DEF JobType
<1>9. Place(p)'
  BY <1>6, <1>8 DEF Place
<1> QED
  BY <1>4, <1>5, <1>7, <1>9, OthersKept DEF IInv

\* One case per action: it writes no file, or the output it may write.
LEMMA StepIInv ==
  ASSUME IInv, NEW p \in Procs, Step(p) \/ Fails(p)
  PROVE  IInv'
<1> USE DEF Late, Labels
<1>1. CASE ReadSource(p)
  <2>1. PICK l \in {"end", "open"} : pc' = [pc EXCEPT ![p] = l]
    BY <1>1 DEF ReadSource, End, Goto
  <2> QED
    BY <1>1, <2>1, QuietStep DEF ReadSource
<1>2. CASE OpenInput(p)
  <2>1. PICK l \in {"end", "output"} : pc' = [pc EXCEPT ![p] = l]
    BY <1>2 DEF OpenInput, End, Goto
  <2> QED
    BY <1>2, <2>1, QuietStep DEF OpenInput
<1>3. CASE CheckOutput(p)
  <2>0. pc[p] = "output" /\ KeepFiles /\ UNCHANGED <<job, began>>
    BY <1>3 DEF CheckOutput
  <2>1. CASE NoFile(job[p])
    <3>1. pc' = [pc EXCEPT ![p] = AfterOutput(job[p])]
      BY <1>3, <2>1 DEF CheckOutput, Goto
    <3>2. /\ AfterOutput(job[p]) \in {"flush", "skim", "stream"}
          /\ job[p].cmd = "encode" /\ job[p].check => AfterOutput(job[p]) = "skim"
      BY DEF AfterOutput
    <3> QED
      BY <2>0, <2>1, <3>1, <3>2, QuietStep
  <2>2. CASE ~ NoFile(job[p]) /\ fs[job[p].output] # Absent /\ ~ MayReplace(job[p])
    <3>1. pc' = [pc EXCEPT ![p] = "end"]
      BY <1>3, <2>2 DEF CheckOutput, End
    <3> QED
      BY <2>0, <3>1, QuietStep
  <2>3. CASE ~ NoFile(job[p]) /\ (fs[job[p].output] = Absent \/ MayReplace(job[p]))
    <3>1. pc' = [pc EXCEPT ![p] = "create"]
      BY <1>3, <2>3 DEF CheckOutput, Goto
    <3> QED
      BY <2>0, <2>3, <3>1, QuietStep
  <2> QED
    BY <2>1, <2>2, <2>3
<1>4. CASE CreateOutput(p)
  <2>1. /\ AfterOutput(job[p]) \in {"flush", "skim", "stream"}
        /\ job[p].cmd = "encode" /\ job[p].check => AfterOutput(job[p]) = "skim"
    BY DEF AfterOutput
  <2>2. /\ pc[p] = "create" /\ UNCHANGED <<job, began>> /\ Put(p, Empty, TRUE)
        /\ pc' = [pc EXCEPT ![p] = AfterOutput(job[p])]
    BY <1>4 DEF CreateOutput, Goto
  <2>3. /\ ~ NoFile(job[p])
        /\ Undisturbed(p) => MayReplace(job[p]) \/ began[p][job[p].output] = Absent
    BY <2>2 DEF IInv, Place
  <2> QED
    BY <2>1, <2>2, <2>3, WriteStep
<1>5. CASE Skim(p)
  BY <1>5, QuietStep DEF Skim, End
<1>6. ASSUME pc[p] \in {"stream", "flush"}, NEW c, Put(p, c, holds[p]),
             UNCHANGED <<job, began>>, ~ NoFile(job[p]),
             NEW l \in {"flush", "end"}, pc' = [pc EXCEPT ![p] = l]
      PROVE  IInv'
  <2>1. /\ Undisturbed(p) => MayReplace(job[p]) \/ began[p][job[p].output] = Absent
        /\ ~ (job[p].cmd = "encode" /\ job[p].check)
    BY <1>6 DEF IInv, Place
  <2>2. ~ job[p].check
    BY <1>6, <2>1 DEF NoFile, IInv, Types, JobType, NoJob
  <2>3. holds[p] \in BOOLEAN
    BY DEF IInv, Types
  <2> QED
    BY <1>6, <2>1, <2>2, <2>3, WriteStep
<1>7. CASE Stream(p)
  <2>1. PICK l \in {"flush", "end"} : pc' = [pc EXCEPT ![p] = l]
    BY <1>7 DEF Stream, End, Goto
  <2>2. pc[p] = "stream" /\ UNCHANGED <<job, began>>
    BY <1>7 DEF Stream
  <2>3. CASE KeepFiles
    <3>1. ~ (job[p].cmd = "encode" /\ job[p].check)
      BY <2>2 DEF IInv, Place
    <3> QED
      BY <2>1, <2>2, <2>3, <3>1, QuietStep
  <2>4. CASE ~ NoFile(job[p]) /\ Put(p, Part, holds[p])
    BY <2>1, <2>2, <2>4, <1>6
  <2> QED
    BY <1>7, <2>3, <2>4 DEF Stream
<1>8. CASE Flush(p)
  <2>1. pc[p] = "flush" /\ UNCHANGED <<job, began>> /\ pc' = [pc EXCEPT ![p] = "end"]
    BY <1>8 DEF Flush, End
  <2>2. CASE NoFile(job[p])
    <3>1. KeepFiles
      BY <1>8, <2>2 DEF Flush
    <3> QED
      BY <2>1, <3>1, QuietStep
  <2>3. CASE ~ NoFile(job[p])
    <3>1. PICK c : Put(p, c, holds[p])
      BY <1>8, <2>3 DEF Flush
    <3> QED
      BY <2>1, <2>3, <3>1, <1>6
  <2> QED
    BY <2>2, <2>3
<1>9. CASE MergeUsage(p)
  <2>1. PICK l \in {"end", "patch"} : pc' = [pc EXCEPT ![p] = l]
    BY <1>9 DEF MergeUsage, End, Goto
  <2> QED
    BY <1>9, <2>1, QuietStep DEF MergeUsage
<1>10. CASE MergePatch(p)
  <2>1. PICK l \in {"end", "patch"} : pc' = [pc EXCEPT ![p] = l]
    BY <1>10 DEF MergePatch, End, Goto
  <2> QED
    BY <1>10, <2>1, QuietStep DEF MergePatch
<1>11. CASE MergeEncode(p)
  <2>1. PICK l \in {"end", "output"} : pc' = [pc EXCEPT ![p] = l]
    BY <1>11 DEF MergeEncode, End, Goto
  <2> QED
    BY <1>11, <2>1, QuietStep DEF MergeEncode
<1>12. CASE Fails(p)
  BY <1>12, QuietStep DEF Fails, End, Active
<1> QED
  BY <1>1, <1>2, <1>3, <1>4, <1>5, <1>7, <1>8, <1>9, <1>10, <1>11, <1>12 DEF Step
-----------------------------------------------------------------------------
\* The invariant is inductive.
LEMMA NextIInv == IInv /\ [Next]_vars => IInv'
<1> SUFFICES ASSUME IInv, [Next]_vars PROVE IInv'
  OBVIOUS
<1>1. CASE Next
  BY <1>1, StartIInv, StepIInv DEF Next
<1>2. CASE UNCHANGED vars
  <2>1. Types'
    BY <1>2 DEF IInv, Types, vars
  <2>2. ASSUME NEW p \in Procs PROVE Changes(p)' /\ Place(p)'
    BY <1>2 DEF IInv, Changes, Place, Cause, Undisturbed, vars
  <2> QED
    BY <2>1, <2>2 DEF IInv
<1> QED
  BY <1>1, <1>2

\* Every file that a process changes has a cause, at every step.
THEOREM ChangesHaveCause == Spec => []IInv
BY InitIInv, NextIInv, PTL DEF Spec

\* No command without -f changes a file that was there when it was started,
\* unless another process wrote one of its files (cmd_encode, cmd_decode,
\* cmd_recode, cmd_merge).
THEOREM ForceIsNeeded == Spec => []KeptWithoutForce
<1>1. IInv => KeptWithoutForce
  BY DEF IInv, Changes, Cause, MayReplace, KeptWithoutForce
<1> QED
  BY <1>1, ChangesHaveCause, PTL

\* -c and --check-only keep files as AskedNotToWrite says (run, the writers
\* of cmd_encode, cmd_decode and cmd_recode, output_path of cmd_merge).
THEOREM OptionsAreHeeded == Spec => []AskedNotToWrite
<1>1. ASSUME IInv, NEW p \in Procs, NEW x \in Files(job[p]) \cap Paths,
             Undisturbed(p), fs[x] # began[p][x]
      PROVE  /\ job[p].stdout => job[p].cmd = "merge" /\ job[p].quiet
             /\ job[p].check => job[p].cmd = "encode" /\ fs[x] = Empty
  <2>1. Cause(p, x) /\ Place(p) /\ job[p] \in JobType
    BY <1>1 DEF IInv, Changes, Types
  <2> QED
    BY <2>1 DEF Cause, Place, NoFile, JobType, NoJob
<1>2. IInv => AskedNotToWrite
  BY <1>1 DEF AskedNotToWrite
<1> QED
  BY <1>2, ChangesHaveCause, PTL
=============================================================================
