--------------------------- MODULE CommandsMerge ----------------------------
(***************************************************************************)
(* What cmd_merge has made of its source after some patches is what a      *)
(* chain of them gives, and what it encodes is what the whole chain means. *)
(***************************************************************************)
EXTENDS CommandsReads

\* A chain grows by what its next patch gives.
LEMMA ChainStep ==
  ASSUME NEW disk, NEW patches \in Seq(Paths), NEW from, NEW n \in Nat,
         n < Len(patches), NEW c \in Chain(disk, patches, from, n),
         NEW d \in Decoded(disk[patches[n + 1]], c, TRUE), d # Absent
  PROVE  d \in Chain(disk, patches, from, n + 1)
<1>1. PICK f \in [0 .. n -> {from} \cup Targets(disk)] :
        IsChain(disk, patches, from, f, n) /\ c = f[n]
  BY DEF Chain
<1>2. patches[n + 1] \in Paths
  OBVIOUS
<1>3. d \in Targets(disk)
  <2>1. CASE disk[patches[n + 1]][1] = "delta"
    BY <1>2, <2>1 DEF Decoded, Targets
  <2>2. CASE disk[patches[n + 1]][1] # "delta"
    BY <2>2 DEF Decoded, Targets
  <2> QED
    BY <2>1, <2>2
<1> DEFINE g == [i \in 0 .. n + 1 |-> IF i = n + 1 THEN d ELSE f[i]]
<1>4. g \in [0 .. n + 1 -> {from} \cup Targets(disk)]
  BY <1>3
<1>5. g[0] = from
  BY <1>1 DEF IsChain
<1>6. ASSUME NEW i \in 1 .. n + 1
      PROVE  g[i] \in Decoded(disk[patches[i]], g[i - 1], TRUE) \ {Absent}
  <2>1. CASE i = n + 1
    <3>1. g[i] = d /\ g[i - 1] = c
      BY <1>1, <2>1
    <3> QED
      BY <2>1, <3>1
  <2>2. CASE i # n + 1
    <3>1. i \in 1 .. n /\ g[i] = f[i] /\ g[i - 1] = f[i - 1]
      BY <2>2
    <3> QED
      BY <1>1, <3>1 DEF IsChain
  <2> QED
    BY <2>1, <2>2
<1>7. IsChain(disk, patches, from, g, n + 1)
  BY <1>5, <1>6 DEF IsChain
<1>8. g[n + 1] = d
  OBVIOUS
<1> QED
  BY <1>4, <1>7, <1>8 DEF Chain

\* A file that is not there, or is empty, is no delta.
LEMMA NothingDecoded ==
  ASSUME NEW source, NEW verify
  PROVE  Decoded(Absent, source, verify) = {Absent} /\ Decoded(Empty, source, verify) = {Absent}
<1>1. Absent[1] = "absent" /\ Empty[1] = "empty" /\ Part[1] = "part"
  BY DEF Absent, Empty, Part
<1>2. Absent[1] # "delta" /\ Absent # Part /\ Empty[1] # "delta" /\ Empty # Part
  BY <1>1
<1> QED
  BY <1>2 DEF Decoded

\* No patch leaves the source as it is.
LEMMA ChainStart ==
  ASSUME NEW disk, NEW patches, NEW from
  PROVE  from \in Chain(disk, patches, from, 0)
<1> DEFINE f == [i \in 0 .. 0 |-> from]
<1>1. f \in [0 .. 0 -> {from} \cup Targets(disk)] /\ f[0] = from
  OBVIOUS
<1>2. IsChain(disk, patches, from, f, 0)
  BY <1>1 DEF IsChain
<1> QED
  BY <1>1, <1>2 DEF Chain
-----------------------------------------------------------------------------
\* merge begins with no patch applied.
LEMMA MergeUsageGood ==
  ASSUME SInv, NEW p \in Procs, MergeUsage(p)
  PROVE  LabelFits(p)' /\ (Undisturbed(p)' => Good(p)')
<1>0. pc[p] = "usage" /\ KeepFiles /\ UNCHANGED <<job, began, step>>
  BY DEF MergeUsage
<1>1. CASE End(p, 1)
  BY <1>0, <1>1, FailGood
<1>2. CASE ~ (Len(job[p].inputs) < 2) /\ Goto(p, "patch")
  <2>1. pc'[p] = "patch"
    BY <1>2 DEF Goto, SInv, IInv, Types
  <2>2. Len(job[p].inputs) \in Nat /\ step[p] = 0
    BY <1>0 DEF SInv, LabelFits, IInv, Types, JobType, NoJob
  <2>3. LabelFits(p)'
    BY <1>0, <1>2, <2>1, <2>2 DEF LabelFits, SInv
  <2>4. Patched(p)'
    BY <1>0, <2>2 DEF Patched
  <2>5. SourceRead(p)' /\ InputsRead(p)'
    BY <2>1 DEF SourceRead, InputsRead
  <2>6. Writing(p)' /\ Delivered(p)'
    BY <2>1 DEF Writing, Delivered
  <2> QED
    BY <1>0, <2>1, <2>3, <2>4, <2>5, <2>6, QuietGood
<1> QED
  BY <1>1, <1>2 DEF MergeUsage

\* One more patch of the chain, applied to what the last one gave.
LEMMA MergePatchGood ==
  ASSUME SInv, NEW p \in Procs, MergePatch(p)
  PROVE  LabelFits(p)' /\ (Undisturbed(p)' => Good(p)')
<1> DEFINE inputs == job[p].inputs
           n      == step[p]
           from   == IF n = 0 THEN ContentOf(job[p].source) ELSE cur[p]
           start  == SourceOf(job[p], began[p])
<1>0. pc[p] = "patch" /\ KeepFiles /\ UNCHANGED <<job, began>> /\ n < Len(inputs)
  BY DEF MergePatch
<1>1. PICK c \in IF from = Absent THEN {Absent}
                 ELSE Decoded(fs[inputs[n + 1]], from, TRUE) :
        /\ cur' = [cur EXCEPT ![p] = c]
        /\ IF c = Absent THEN End(p, 1) ELSE Goto(p, "patch")
  BY DEF MergePatch
<1>2. CASE c = Absent
  BY <1>0, <1>1, <1>2, FailGood
<1>3. CASE c # Absent
  <2>1. pc'[p] = "patch" /\ cur'[p] = c /\ step'[p] = n + 1
    BY <1>1, <1>3 DEF MergePatch, Goto, SInv, IInv, Types, Types2
  <2>2. LabelFits(p)'
    BY <1>0, <2>1 DEF LabelFits, SInv
  <2>3. ASSUME Undisturbed(p) PROVE Patched(p)'
    <3>1. /\ n \in 0 .. Len(inputs)
          /\ n > 0 => /\ start # Absent
                      /\ \A i \in 1 .. n : began[p][inputs[i]] # Absent
                      /\ cur[p] \in Chain(began[p], inputs, start, n)
      BY <1>0, <2>3 DEF SInv, Good, Patched
    <3>2. inputs \in Seq(Paths)
      BY <1>0 DEF SInv, LabelFits, IInv, Types, JobType
    <3>3. n \in Nat /\ n + 1 \in 1 .. Len(inputs)
      BY <1>0, <3>1, <3>2
    <3>4. /\ ContentOf(job[p].source) = start
          /\ fs[inputs[n + 1]] = began[p][inputs[n + 1]]
      BY <1>0, <2>3, <3>3, FilesSame DEF Late
    <3>5. from # Absent /\ c \in Decoded(began[p][inputs[n + 1]], from, TRUE)
      BY <1>1, <1>3, <3>4
    <3>6. start # Absent /\ from \in Chain(began[p], inputs, start, n)
      BY <3>1, <3>3, <3>4, <3>5, ChainStart
    <3>7. c \in Chain(began[p], inputs, start, n + 1)
      BY <1>0, <1>3, <3>2, <3>3, <3>5, <3>6, ChainStep
    <3>8. began[p][inputs[n + 1]] # Absent
      BY <1>3, <3>5, NothingDecoded
    <3>9. \A i \in 1 .. n + 1 : began[p][inputs[i]] # Absent
      BY <3>1, <3>3, <3>8
    <3> QED
      BY <1>0, <2>1, <3>3, <3>6, <3>7, <3>9 DEF Patched
  <2>4. SourceRead(p)' /\ InputsRead(p)' /\ Writing(p)' /\ Delivered(p)'
    BY <2>1 DEF SourceRead, InputsRead, Writing, Delivered
  <2> QED
    BY <1>0, <2>1, <2>2, <2>3, <2>4, QuietGood
<1> QED
  BY <1>2, <1>3

\* The merged delta is from the source to the end of the chain.
LEMMA MergeEncodeGood ==
  ASSUME SInv, NEW p \in Procs, MergeEncode(p)
  PROVE  LabelFits(p)' /\ (Undisturbed(p)' => Good(p)')
<1> DEFINE inputs == job[p].inputs
           start  == SourceOf(job[p], began[p])
<1>0. pc[p] = "patch" /\ KeepFiles /\ UNCHANGED <<job, began>> /\ step[p] = Len(inputs)
  BY DEF MergeEncode
<1>1. CASE End(p, 1)
  BY <1>0, <1>1, FailGood
<1>2. CASE Goto(p, "output")
  <2>1. /\ pc'[p] = "output"
        /\ cur'[p] = Delta(ContentOf(job[p].source), cur[p])
    BY <1>2 DEF MergeEncode, Goto, SInv, IInv, Types, Types2
  <2>2. job[p].cmd = "merge" /\ Len(inputs) > 1
    BY <1>0 DEF SInv, LabelFits
  <2>3. LabelFits(p)'
    BY <1>0, <2>1 DEF LabelFits, SInv
  <2>4. ASSUME Undisturbed(p) PROVE InputsRead(p)'
    <3>1. ContentOf(job[p].source) = start
      BY <1>0, <2>4, FilesSame DEF Late
    <3>2. Len(inputs) \in Nat
      BY DEF SInv, IInv, Types, JobType, NoJob
    <3>3. /\ start # Absent
          /\ \A i \in 1 .. Len(inputs) : began[p][inputs[i]] # Absent
          /\ cur[p] \in Chain(began[p], inputs, start, Len(inputs))
      BY <1>0, <2>2, <2>4, <3>2 DEF SInv, Good, Patched
    <3>4. Readable(job[p], began[p])
      BY <3>3 DEF Readable
    <3>5. cur'[p] \in Means(job[p], began[p])
      BY <2>1, <2>2, <3>1, <3>3, <3>4 DEF Means
    <3> QED
      BY <1>0, <3>4, <3>5 DEF InputsRead
  <2>5. SourceRead(p)' /\ Patched(p)' /\ Writing(p)' /\ Delivered(p)'
    BY <1>0, <2>1, <2>2 DEF SourceRead, Patched, Writing, Delivered
  <2> QED
    BY <1>0, <2>1, <2>3, <2>4, <2>5, QuietGood
<1> QED
  BY <1>1, <1>2 DEF MergeEncode
=============================================================================
