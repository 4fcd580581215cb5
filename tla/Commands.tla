------------------------------ MODULE Commands ------------------------------
(***************************************************************************)
(* What the commands (src/src/cli.rs: encode, decode, recode, merge) and   *)
(* the functions on files (src/src/io.rs: encode_file, decode_file) do to  *)
(* the files they are given.  Processes run one command each, on the same  *)
(* file system; any path may be given in any place, a call may fail and a  *)
(* process may be killed between any two calls.                            *)
(*                                                                         *)
(* A content is what a file means.  What encoding, decoding and recoding   *)
(* make of their bytes is the subject of DeltaStream and FileTools.        *)
(***************************************************************************)
EXTENDS Integers, Sequences

CONSTANTS
  Procs,        \* processes
  Paths,        \* names of files
  Disks,        \* the file systems to begin with
  Jobs          \* the commands each process may be given

\* Contents: bytes that are no delta, a delta that turns one content into
\* another, and a file of which only a part was written.
Absent      == <<"absent">>
Empty       == <<"empty">>
Part        == <<"part">>
Data(v)     == <<"data", v>>
Delta(a, b) == <<"delta", a, b>>
NoPath      == "none"

VARIABLES
  fs,           \* content of each path
  job,          \* the command of each process
  pc,           \* where it is
  src,          \* the source it read
  cur,          \* merge: current_source; the others: what is to be written
  step,         \* merge: patches applied
  code,         \* exit code; 0 until it ended
  said,         \* what it wrote to stdout; Absent if nothing
  holds,        \* nobody else wrote its output since it created the file
  began,        \* history: the file system when it started
  disturbed     \* history: another process wrote one of its files since

vars == <<fs, job, pc, src, cur, step, code, said, holds, began, disturbed>>

NoJob == [cmd |-> "none", source |-> NoPath, inputs |-> <<>>, output |-> NoPath,
          force |-> FALSE, stdout |-> FALSE, quiet |-> FALSE, check |-> FALSE,
          verify |-> TRUE]

JobType ==
  {NoJob} \cup
  {j \in [cmd : {"encode", "decode", "recode", "merge", "encode_file", "decode_file"},
          source : Paths \cup {NoPath}, inputs : Seq(Paths), output : Paths \cup {NoPath},
          force : BOOLEAN, stdout : BOOLEAN, quiet : BOOLEAN, check : BOOLEAN,
          verify : BOOLEAN] :
     /\ j.check => j.cmd \in {"encode", "decode"}
     /\ j.cmd # "merge" => Len(j.inputs) = 1}

\* Only encode and decode have --check-only, only merge takes several inputs.
ASSUME JobAssumption ==
  /\ NoPath \notin Paths
  /\ \A p \in Procs : Jobs[p] \subseteq JobType \ {NoJob}
  /\ \A disk \in Disks : DOMAIN disk = Paths

Library   == {"encode_file", "decode_file"}
Encoding  == {"encode", "encode_file"}
Decoding  == {"decode", "decode_file"}

Ended(p)  == pc[p] = "end"
Active(p) == pc[p] \notin {"idle", "end"}
Files(j)  == {j.source, j.output} \cup {j.inputs[i] : i \in 1 .. Len(j.inputs)}

Init ==
  /\ fs \in Disks
  /\ job = [p \in Procs |-> NoJob]
  /\ pc = [p \in Procs |-> "idle"]
  /\ src = [p \in Procs |-> Empty]
  /\ cur = [p \in Procs |-> Empty]
  /\ step = [p \in Procs |-> 0]
  /\ code = [p \in Procs |-> 0]
  /\ said = [p \in Procs |-> Absent]
  /\ holds = [p \in Procs |-> FALSE]
  /\ began = [p \in Procs |-> fs]
  /\ disturbed = [p \in Procs |-> FALSE]
-----------------------------------------------------------------------------
\* What a delta gives with a source, as a set; Absent: decoding fails.
\* With another source than its own, a delta that copies nothing still gives
\* its target, one that does fails its checksum or, unverified, gives
\* something else.  A part of a delta may end between two windows.
Decoded(delta, source, verify) ==
  CASE delta[1] = "delta" /\ source = delta[2] -> {delta[3]}
    [] delta[1] = "delta" /\ verify            -> {delta[3], Absent}
    [] delta[1] = "delta"                      -> {delta[3], Part, Absent}
    [] delta = Part                            -> {Part, Absent}
    [] OTHER                                   -> {Absent}

Recoded(delta) ==
  CASE delta[1] = "delta" -> {delta}
    [] delta = Part       -> {Part, Absent}
    [] OTHER              -> {Absent}

\* What reading the input to its end and finishing gives; Absent: an error.
Outcomes(j, source, input) ==
  CASE j.cmd \in Encoding -> {Delta(source, input)}
    [] j.cmd \in Decoding -> Decoded(input, source, j.verify)
    [] OTHER              -> Recoded(input)

End(p, c) ==
  /\ pc' = [pc EXCEPT ![p] = "end"]
  /\ code' = [code EXCEPT ![p] = c]

Goto(p, label) ==
  /\ pc' = [pc EXCEPT ![p] = label]
  /\ UNCHANGED code

\* The output file gets a new content.  A process that has the file open
\* goes on at its own offset: what it writes then is no longer all of it.
Put(p, content, mine) ==
  LET x == job[p].output
  IN  /\ fs' = [fs EXCEPT ![x] = content]
      /\ holds' = [q \in Procs |-> IF q = p THEN mine ELSE
                                   holds[q] /\ job[q].output # x]
      /\ disturbed' = [q \in Procs |-> disturbed[q] \/
                        (q # p /\ pc[q] # "idle" /\ x \in Files(job[q]))]

KeepFiles == UNCHANGED <<fs, holds, disturbed>>
-----------------------------------------------------------------------------
\* run: "-c" drops the name of the output, but only when it may say so.
Start(p, j) ==
  LET drop == j.stdout /\ j.output # NoPath /\ ~ j.quiet
  IN  /\ pc[p] = "idle"
      /\ job' = [job EXCEPT ![p] = [j EXCEPT !.output = IF drop THEN NoPath ELSE @]]
      /\ began' = [began EXCEPT ![p] = fs]
      /\ Goto(p, CASE j.cmd = "merge"  -> "usage"
                   [] j.cmd = "recode" -> "open"
                   [] OTHER            -> "source")
      /\ KeepFiles
      /\ UNCHANGED <<src, cur, step, said>>

ContentOf(path) == IF path = NoPath THEN Empty ELSE fs[path]

\* Mutant: a source that is not there is taken for an empty one.
ReadSourceOptional(p) ==
  /\ pc[p] = "source"
  /\ src' = [src EXCEPT ![p] = IF ContentOf(job[p].source) = Absent THEN Empty
                              ELSE ContentOf(job[p].source)]
  /\ Goto(p, "open")
  /\ KeepFiles
  /\ UNCHANGED <<job, cur, step, said, began>>

\* The source is read to its end before anything else is opened.
ReadSource(p) ==
  /\ pc[p] = "source"
  /\ src' = [src EXCEPT ![p] = ContentOf(job[p].source)]
  /\ IF src'[p] = Absent THEN End(p, 1) ELSE Goto(p, "open")
  /\ KeepFiles
  /\ UNCHANGED <<job, cur, step, said, began>>

\* The input is opened; nothing is read of it yet.
OpenInput(p) ==
  /\ pc[p] = "open"
  /\ IF fs[job[p].inputs[1]] = Absent THEN End(p, 1) ELSE Goto(p, "output")
  /\ KeepFiles
  /\ UNCHANGED <<job, src, cur, step, said, began>>

\* Mutant: a name for the output goes before -c, as it does for merge.
NoFileByName(j) ==
  \/ j.output = NoPath
  \/ j.check /\ j.cmd = "decode"

\* No file is to be written.  merge does not look at use_stdout once there is
\* a name, and decode looks at no_output first, encode after it made the file.
NoFile(j) ==
  \/ j.output = NoPath
  \/ j.stdout /\ j.cmd # "merge"
  \/ j.check /\ j.cmd = "decode"

\* Mutant: merge writes its result over anything.
MayReplaceMerge(j) == j.force \/ j.cmd \in Library \cup {"merge"}

MayReplace(j) == j.force \/ j.cmd \in Library

AfterOutput(j) ==
  CASE j.cmd = "merge"              -> "flush"
    [] j.cmd = "encode" /\ j.check  -> "skim"
    [] OTHER                        -> "stream"

\* path.exists() && !force, a call of its own before File::create.
CheckOutput(p) ==
  /\ pc[p] = "output"
  /\ CASE NoFile(job[p]) -> Goto(p, AfterOutput(job[p]))
       [] ~ NoFile(job[p]) /\ fs[job[p].output] # Absent /\ ~ MayReplace(job[p]) -> End(p, 1)
       [] OTHER -> Goto(p, "create")
  /\ KeepFiles
  /\ UNCHANGED <<job, src, cur, step, said, began>>

\* File::create, and the first half of fs::write, truncate the file.
CreateOutput(p) ==
  /\ pc[p] = "create"
  /\ Put(p, Empty, TRUE)
  /\ Goto(p, AfterOutput(job[p]))
  /\ UNCHANGED <<job, src, cur, step, said, began>>

\* encode --check-only reads the input for its size.
Skim(p) ==
  /\ pc[p] = "skim"
  /\ End(p, 0)
  /\ KeepFiles
  /\ UNCHANGED <<job, src, cur, step, said, began>>

\* Mutant: the source is read when it is needed, behind the output's creation.
StreamLateSource(p) ==
  /\ pc[p] = "stream"
  /\ \E c \in Outcomes(job[p], ContentOf(job[p].source), fs[job[p].inputs[1]]) :
       /\ cur' = [cur EXCEPT ![p] = c]
       /\ IF c = Absent THEN End(p, 1) ELSE Goto(p, "flush")
  /\ KeepFiles \/ (~ NoFile(job[p]) /\ Put(p, Part, holds[p]))
  /\ UNCHANGED <<job, src, step, said, began>>

\* Mutant: an error in the loop is not looked at.
StreamErrorIgnored(p) ==
  /\ pc[p] = "stream"
  /\ \E c \in Outcomes(job[p], src[p], fs[job[p].inputs[1]]) :
       cur' = [cur EXCEPT ![p] = c]
  /\ Goto(p, "flush")
  /\ KeepFiles \/ (~ NoFile(job[p]) /\ Put(p, Part, holds[p]))
  /\ UNCHANGED <<job, src, step, said, began>>

\* The loop over the input: some of the output is in the file, or none, when
\* it ends or fails.
Stream(p) ==
  /\ pc[p] = "stream"
  /\ \E c \in Outcomes(job[p], src[p], fs[job[p].inputs[1]]) :
       /\ cur' = [cur EXCEPT ![p] = c]
       /\ IF c = Absent THEN End(p, 1) ELSE Goto(p, "flush")
  /\ KeepFiles \/ (~ NoFile(job[p]) /\ Put(p, Part, holds[p]))
  /\ UNCHANGED <<job, src, step, said, began>>

Flush(p) ==
  /\ pc[p] = "flush"
  /\ End(p, 0)
  /\ IF NoFile(job[p])
       THEN /\ said' = [said EXCEPT ![p] = IF job[p].check /\ job[p].cmd = "decode" THEN Absent ELSE cur[p]]
            /\ KeepFiles
       ELSE /\ Put(p, IF holds[p] THEN cur[p] ELSE Part, holds[p])
            /\ UNCHANGED said
  /\ UNCHANGED <<job, src, cur, step, began>>
-----------------------------------------------------------------------------
\* cmd_merge, up to the first file it opens.
MergeUsage(p) ==
  /\ pc[p] = "usage"
  /\ IF Len(job[p].inputs) < 2 \/ (job[p].output = NoPath /\ ~ job[p].stdout)
       THEN End(p, 1)
       ELSE Goto(p, "patch")
  /\ KeepFiles
  /\ UNCHANGED <<job, src, cur, step, said, began>>

\* One turn of the chain: the patch is read, then the source if it is the
\* first, and decoded in memory.
MergePatch(p) ==
  LET from == IF step[p] = 0 THEN ContentOf(job[p].source) ELSE cur[p]
  IN  /\ pc[p] = "patch"
      /\ step[p] < Len(job[p].inputs)
      /\ step' = [step EXCEPT ![p] = @ + 1]
      /\ \E c \in IF from = Absent THEN {Absent}
                  ELSE Decoded(fs[job[p].inputs[step[p] + 1]], from, TRUE) :
           /\ cur' = [cur EXCEPT ![p] = c]
           /\ IF c = Absent THEN End(p, 1) ELSE Goto(p, "patch")
      /\ KeepFiles
      /\ UNCHANGED <<job, src, said, began>>

\* The source is read again and the last target encoded against it, in memory.
MergeEncode(p) ==
  /\ pc[p] = "patch"
  /\ step[p] = Len(job[p].inputs)
  /\ src' = [src EXCEPT ![p] = ContentOf(job[p].source)]
  /\ cur' = [cur EXCEPT ![p] = Delta(src'[p], @)]
  /\ IF src'[p] = Absent THEN End(p, 1) ELSE Goto(p, "output")
  /\ KeepFiles
  /\ UNCHANGED <<job, step, said, began>>

\* A call fails, or the process is killed: it ends where it is.
Fails(p) ==
  /\ Active(p)
  /\ End(p, 1)
  /\ KeepFiles
  /\ UNCHANGED <<job, src, cur, step, said, began>>

Step(p) ==
  \/ ReadSource(p) \/ OpenInput(p) \/ CheckOutput(p) \/ CreateOutput(p)
  \/ Skim(p) \/ Stream(p) \/ Flush(p)
  \/ MergeUsage(p) \/ MergePatch(p) \/ MergeEncode(p)

Next ==
  \E p \in Procs :
    \/ \E j \in Jobs[p] : Start(p, j)
    \/ Step(p)
    \/ Fails(p)

Spec == Init /\ [][Next]_vars
-----------------------------------------------------------------------------
Labels == {"idle", "source", "open", "output", "create", "skim", "stream", "flush",
           "usage", "patch", "end"}

TypeOK ==
  /\ pc \in [Procs -> Labels]
  /\ code \in [Procs -> {0, 1}]
  /\ \A p \in Procs :
       /\ pc[p] = "idle" => job[p] = NoJob
       /\ step[p] \in 0 .. Len(job[p].inputs)
       /\ pc[p] = "create" => job[p].output \in Paths
       /\ pc[p] = "flush" => cur[p] # Absent
       /\ holds[p] => job[p].output \in Paths /\ fs[job[p].output] # Absent
  /\ \A x \in Paths : fs[x] = Absent => \A p \in Procs : began[p][x] = Absent

SourceOf(j, disk) == IF j.source = NoPath THEN Empty ELSE disk[j.source]

\* The files that have to be there before the output is made.
Readable(j, disk) ==
  /\ j.cmd # "recode" => SourceOf(j, disk) # Absent
  /\ \A i \in 1 .. Len(j.inputs) : disk[j.inputs[i]] # Absent

\* What the first n patches of a chain make of a source, one target after
\* the other.
Targets(disk) == {Part} \cup {disk[x][3] : x \in {y \in Paths : disk[y][1] = "delta"}}

IsChain(disk, patches, from, t, n) ==
  /\ t[0] = from
  /\ \A i \in 1 .. n : t[i] \in Decoded(disk[patches[i]], t[i - 1], TRUE) \ {Absent}

Chain(disk, patches, from, n) ==
  {t[n] : t \in {f \in [0 .. n -> {from} \cup Targets(disk)] : IsChain(disk, patches, from, f, n)}}

\* What a command can rightly deliver from the files of a disk: nothing when
\* one is missing or does not decode.
Means(j, disk) ==
  LET s == SourceOf(j, disk)
  IN  CASE ~ Readable(j, disk) -> {}
        [] Readable(j, disk) /\ j.cmd = "merge" ->
             {Delta(s, c) : c \in Chain(disk, j.inputs, s, Len(j.inputs))}
        [] OTHER -> Outcomes(j, s, disk[j.inputs[1]]) \ {Absent}

Undisturbed(p) == pc[p] # "idle" /\ ~ disturbed[p]

\* The command streams its input into the very file it reads.
OntoInput(j) == ~ NoFile(j) /\ j.cmd # "merge" /\ j.output = j.inputs[1]

\* A command that ended with 0 delivered all of what its files meant when it
\* was started, even if its source is its output, or merge's patch is; and
\* decode --check-only found a delta that decodes.  The one exception is an
\* input that is the output: created before it is read, it is lost, decode
\* and recode fail and encode succeeds with the delta of an empty target.
SuccessIsTrue ==
  \A p \in Procs :
    LET j   == job[p]
        got == IF NoFile(j) THEN said[p] ELSE fs[j.output]
    IN  Undisturbed(p) /\ Ended(p) /\ code[p] = 0 =>
          CASE j.check -> j.cmd = "decode" => Means(j, began[p]) # {}
            [] ~ j.check /\ OntoInput(j) ->
                 j.cmd \in Encoding /\ got = Delta(SourceOf(j, began[p]), Empty)
            [] OTHER -> got \in Means(j, began[p])

\* "output file exists, use -f to overwrite": no command without -f changes a
\* file that was there when it was started, wherever it fails, unless another
\* process wrote it between path.exists and File::create.
KeptWithoutForce ==
  \A p \in Procs : \A x \in Files(job[p]) \cap Paths :
    Undisturbed(p) /\ ~ job[p].force /\ job[p].cmd \notin Library /\ began[p][x] # Absent
      => fs[x] = began[p][x]

\* A command that cannot read its source or one of its inputs has not touched
\* its output, and merge has not before every patch decoded.
NothingTouchedEarly ==
  \A p \in Procs : \A x \in Files(job[p]) \cap Paths :
    Undisturbed(p) /\ fs[x] # began[p][x] =>
      /\ x = job[p].output
      /\ Readable(job[p], began[p])
      /\ job[p].cmd = "merge" => Means(job[p], began[p]) # {}

\* With -c no file is written, whatever name is given for the output, by any
\* command but merge --quiet; decode --check-only writes none, and encode
\* --check-only puts nothing into the one it makes.
AskedNotToWrite ==
  \A p \in Procs : \A x \in Files(job[p]) \cap Paths :
    LET j == job[p]
    IN  Undisturbed(p) /\ fs[x] # began[p][x] =>
          /\ j.stdout => j.cmd = "merge" /\ j.quiet
          /\ j.check => j.cmd = "encode" /\ fs[x] = Empty
=============================================================================
