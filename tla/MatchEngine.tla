----------------------------- MODULE MatchEngine ----------------------------
(***************************************************************************)
(* MatchEngine::find_matches (src/src/hash/matching.rs): a scan over one   *)
(* target window after another that looks for runs, for matches in the     *)
(* source and for matches in the window itself, and turns what it found    *)
(* into instructions.                                                      *)
(*                                                                         *)
(* One step is one round of the scan's loop.  The matcher's parameters are *)
(* constants; in the code SmallLook = MinMatch = 4, MinRun = 8 and         *)
(* LargeLook = 9.  The source is a slice in memory, as every caller in the *)
(* crate has it; an empty one is passed as no source at all.               *)
(***************************************************************************)
EXTENDS MatchTables

CONSTANTS
  Bytes,         \* values of a byte
  SourceLens,    \* lengths of the source
  TargetLens,    \* lengths of a target window
  MaxWindows,    \* bound: windows in a behaviour
  ShortTarget,   \* bound: length of the windows when there is more than one
  MinMatch, SmallLook, LargeLook, LargeStep,
  SmallChain, SmallLChain, MaxLazy, LongEnough,
  Far,           \* distance from which a match of MinMatch bytes is not worth it
  Farther        \* and one of MinMatch + 1 bytes

VARIABLES
  source,
  large,      \* large_table, filled once
  srcPos,     \* match_srcpos
  window,     \* number of the window
  target,     \* bytes of the window
  phase,      \* "idle", "scan" or "done"
  s           \* the local variables of find_matches

vars == <<source, large, srcPos, window, target, phase, s>>

Strings(lens) == UNION {[1 .. n -> Bytes] : n \in lens}
HasSource == source # <<>>

\* A match; the code marks a run by the address u64::MAX.
Match(kind, pos, len, addr) == [kind |-> kind, pos |-> pos, len |-> len, addr |-> addr]
End(m) == m.pos + m.len

(***************************************************************************)
(* The scan's state.  run is the length runL and the byte runC of the run  *)
(* that ends the SmallLook bytes at pos; lcksum is the rolling checksum of  *)
(* the LargeLook bytes at pos; turn says what this round has done so far:  *)
(* nothing, found a match but goes on looking (skip_min_match_decay), or   *)
(* jumped behind a match (continue).                                       *)
(***************************************************************************)
NewScan == [pos |-> 0, minMatch |-> MinMatch, matches |-> <<>>, runL |-> 0, runC |-> 0,
            lcksum |-> 0, small |-> EmptySmall, turn |-> "try"]

InScan(bytes, pos) == pos + SmallLook <= Len(bytes)
SmallBucket(pos) == Bucket(SmallCksum(target, pos, SmallLook))
LargeFits(bytes, pos) == HasSource /\ pos + LargeLook <= Len(bytes)

\* Mutant: the run is not counted afresh after a jump.
ScanFromOldRun(sc, bytes, p) ==
  IF ~ InScan(bytes, p) THEN [sc EXCEPT !.pos = p]
  ELSE [sc EXCEPT !.pos = p, !.runC = bytes[p + SmallLook],
                  !.lcksum = IF LargeFits(bytes, p) THEN LargeCksum(bytes, p, LargeLook) ELSE @]

\* comprun at p, with the checksum: done afresh at the start and at a jump.
ScanFrom(sc, bytes, p) ==
  IF ~ InScan(bytes, p) THEN [sc EXCEPT !.pos = p]
  ELSE LET last == bytes[p + SmallLook]
       IN  [sc EXCEPT !.pos = p,
                      !.runC = last,
                      !.runL = Max({n \in 1 .. SmallLook :
                                 \A k \in 0 .. n - 1 : bytes[p + SmallLook - k] = last}),
                      !.lcksum = IF LargeFits(bytes, p) THEN LargeCksum(bytes, p, LargeLook) ELSE @]

TryLazy(len, pos) == MaxLazy > 0 /\ len < MaxLazy /\ pos + len + 2 <= Len(target)

\* A match of len bytes from pos on: jump behind it, or look on for a better.
Accept(sc, m, len) ==
  LET kept == [sc EXCEPT !.matches = Append(@, m)]
  IN  IF TryLazy(len, sc.pos)
        THEN [kept EXCEPT !.minMatch = len, !.turn = "lazy"]
        ELSE [ScanFrom(kept, target, sc.pos + len)
                EXCEPT !.minMatch = MinMatch, !.turn = "jumped"]

TryRun(sc) ==
  LET rest  == sc.pos + SmallLook
      total == SmallLook + RunLength(target, rest, sc.runC, Len(target) - rest)
  IN  IF sc.runL = SmallLook /\ total >= sc.minMatch /\ total >= MinRun
        THEN Accept(sc, Match("run", sc.pos, total, 0), total)
        ELSE sc

\* Backward extension may cover earlier matches: those at its end are erased.
EraseFrom(matches, pos) ==
  SubSeq(matches, 1, Max({0} \cup {i \in 1 .. Len(matches) : matches[i].pos < pos}))

\* Mutant: a match extended backwards keeps the address it was found at.
TryLargeFrom(sc) ==
  IF ~ LargeFits(target, sc.pos) \/ large[Bucket(sc.lcksum)] = 0 THEN sc
  ELSE LET from == large[Bucket(sc.lcksum)] - 1
           fwd  == ForwardMatch(source, from, target, sc.pos,
                                Min({Len(target) - sc.pos, Len(source) - from}))
           back == BackwardMatch(source, from, target, sc.pos, Min({sc.pos, from}))
           m    == Match("source", sc.pos - back, back + fwd, from)
       IN  IF fwd < MinMatch \/ fwd < sc.minMatch THEN sc
           ELSE Accept(IF back > 0 THEN [sc EXCEPT !.matches = EraseFrom(@, m.pos)] ELSE sc,
                       m, fwd)

TryLarge(sc) ==
  IF ~ LargeFits(target, sc.pos) \/ large[Bucket(sc.lcksum)] = 0 THEN sc
  ELSE LET from == large[Bucket(sc.lcksum)] - 1
           fwd  == ForwardMatch(source, from, target, sc.pos,
                                Min({Len(target) - sc.pos, Len(source) - from}))
           back == BackwardMatch(source, from, target, sc.pos, Min({sc.pos, from}))
           m    == Match("source", sc.pos - back, back + fwd, from - back)
       IN  IF fwd < MinMatch \/ fwd < sc.minMatch THEN sc
           ELSE Accept(IF back > 0 THEN [sc EXCEPT !.matches = EraseFrom(@, m.pos)] ELSE sc,
                       m, fwd)

\* One link of the chain walked by small_match.
ChainStep(sc, c) ==
  IF c.stop \/ c.base >= sc.pos THEN [c EXCEPT !.stop = TRUE]
  ELSE LET len  == ForwardMatch(target, c.base, target, sc.pos, Len(target) - sc.pos)
           best == IF len > c.len THEN [c EXCEPT !.len = len, !.at = c.base] ELSE c
           prev == ChainPrev(sc.small, c.base, sc.pos)
       IN  IF prev = 0 \/ (len > c.len /\ (len >= LongEnough \/ sc.pos + len >= Len(target)))
             THEN [best EXCEPT !.stop = TRUE]
             ELSE [best EXCEPT !.base = prev - 1]

SmallMatch(sc) ==
  LET head  == sc.small.head[SmallBucket(sc.pos)]
      links == IF sc.minMatch > MinMatch THEN SmallLChain ELSE SmallChain
  IN  FoldLeft(LAMBDA c, i : ChainStep(sc, c),
               [base |-> head - 1, len |-> 0, at |-> 0, stop |-> head = 0],
               [i \in 1 .. links |-> i])

\* The position is inserted after the search and whatever it found.
TrySmall(sc) ==
  LET c   == SmallMatch(sc)
      ins == [sc EXCEPT !.small = SmallInsert(@, SmallBucket(sc.pos), sc.pos)]
  IN  IF c.len >= MinMatch /\ c.len >= sc.minMatch
         /\ ~ (c.len = MinMatch /\ sc.pos - c.at >= Far)
         /\ ~ (c.len = MinMatch + 1 /\ sc.pos - c.at >= Farther)
        THEN Accept(ins, Match("self", sc.pos, c.len, c.at), c.len)
        ELSE ins

\* Mutant: min_match falls at every byte without a match.
AdvanceDecaying(sc) ==
  LET p    == sc.pos + 1
      next == target[p + SmallLook]
      slid == [sc EXCEPT !.pos = p, !.minMatch = IF sc.turn # "lazy" THEN @ - 1 ELSE @]
  IN  IF ~ InScan(target, p) THEN slid
      ELSE [slid EXCEPT !.runL = IF next = sc.runC THEN @ + 1 ELSE 1,
                        !.runC = next,
                        !.lcksum = IF LargeFits(target, p)
                                     THEN LargeUpdate(@, target, sc.pos, LargeLook) ELSE @]

\* One byte on, with the run and the checksum brought up to date.
AdvanceOne(sc) ==
  LET p    == sc.pos + 1
      next == target[p + SmallLook]
      slid == [sc EXCEPT !.pos = p,
                 !.minMatch = IF sc.turn # "lazy" /\ @ > MinMatch THEN @ - 1 ELSE @]
  IN  IF ~ InScan(target, p) THEN slid
      ELSE [slid EXCEPT !.runL = IF next = sc.runC THEN @ + 1 ELSE 1,
                        !.runC = next,
                        !.lcksum = IF LargeFits(target, p)
                                     THEN LargeUpdate(@, target, sc.pos, LargeLook) ELSE @]

\* A round: the three searches, each only if none before it jumped.
Unless(sc, after(_)) == IF sc.turn = "jumped" THEN sc ELSE after(sc)

ScanRound(sc) ==
  [Unless(Unless(Unless(TryRun(sc), TryLarge), TrySmall), AdvanceOne) EXCEPT !.turn = "try"]

\* The probe at match_srcpos before the loop.
ProbeLen(bytes) ==
  IF srcPos >= Len(source) THEN 0
  ELSE ForwardMatch(source, srcPos, bytes, 0, Min({Len(bytes), Len(source) - srcPos}))

\* Mutant: the small table is not reset for a new window.
ProbeStaleTable(bytes) ==
  LET sc == ScanFrom([NewScan EXCEPT !.small = s.small], bytes, 0)
      n  == ProbeLen(bytes)
  IN  IF ~ InScan(bytes, 0) \/ n < MinMatch THEN sc
      ELSE ScanFrom([sc EXCEPT !.matches = <<Match("source", 0, n, srcPos)>>], bytes, n)

\* Mutant: the probed match is taken to be at the start of the source.
ProbeAtZero(bytes) ==
  LET sc == ScanFrom(NewScan, bytes, 0)
      n  == ProbeLen(bytes)
  IN  IF ~ InScan(bytes, 0) \/ n < MinMatch THEN sc
      ELSE ScanFrom([sc EXCEPT !.matches = <<Match("source", 0, n, 0)>>], bytes, n)

Probe(bytes) ==
  LET sc == ScanFrom(NewScan, bytes, 0)
      n  == ProbeLen(bytes)
  IN  IF ~ InScan(bytes, 0) \/ n < MinMatch THEN sc
      ELSE ScanFrom([sc EXCEPT !.matches = <<Match("source", 0, n, srcPos)>>], bytes, n)

ProbeTakesAll(bytes) == InScan(bytes, 0) /\ ProbeLen(bytes) >= MinMatch /\ ProbeLen(bytes) = Len(bytes)
-----------------------------------------------------------------------------
(***************************************************************************)
(* matches_to_instructions.                                                *)
(***************************************************************************)
\* Mutant: a better match does not displace those it overlaps.
SiftBeside(kept, m) ==
  IF kept = <<>> THEN <<m>>
  ELSE IF m.pos >= End(Last(kept)) \/ m.len > Last(kept).len THEN Append(kept, m)
  ELSE kept

Sift(kept, m) ==
  LET beaten(k) == End(k) > m.pos /\ m.len > k.len
      rest == SubSeq(kept, 1, Max({0} \cup {i \in 1 .. Len(kept) : ~ beaten(kept[i])}))
  IN  IF rest = <<>> THEN <<m>>
      ELSE IF m.pos >= End(Last(rest)) \/ m.len > Last(rest).len THEN Append(rest, m)
      ELSE rest

Sifted(matches) == FoldLeft(Sift, <<>>, matches)

AddGap(from, to) == IF from < to THEN <<Inst("add", to - from, 0)>> ELSE <<>>

\* Mutant: the address of a self-copy is its target position.
MatchInstInTarget(m) ==
  IF m.kind = "run" THEN Inst("run", m.len, 0) ELSE Inst("copy", m.len, m.addr)

\* Addresses of self-copies are counted behind the source.
MatchInst(m) ==
  CASE m.kind = "run"    -> Inst("run", m.len, 0)
    [] m.kind = "source" -> Inst("copy", m.len, m.addr)
    [] OTHER             -> Inst("copy", m.len, Len(source) + m.addr)

EmitMatch(acc, m) ==
  IF m.pos < acc.to THEN acc
  ELSE [insts |-> Append(acc.insts \o AddGap(acc.to, m.pos), MatchInst(m)), to |-> End(m)]

Instructions(matches) ==
  LET acc == FoldLeft(EmitMatch, [insts |-> <<>>, to |-> 0], Sifted(matches))
  IN  acc.insts \o AddGap(acc.to, Len(target))
-----------------------------------------------------------------------------
Init ==
  /\ source \in Strings(SourceLens)
  /\ large = IndexSource(source, LargeLook, LargeStep)
  /\ srcPos = 0 /\ window = 0 /\ target = <<>>
  /\ phase = "idle" /\ s = NewScan

Begin(bytes) ==
  /\ phase # "scan"
  /\ window < MaxWindows
  /\ window > 0 => Len(target) <= ShortTarget /\ Len(bytes) <= ShortTarget
  /\ window' = window + 1
  /\ target' = bytes
  /\ s' = Probe(bytes)
  /\ srcPos' = IF ProbeTakesAll(bytes) THEN srcPos + Len(bytes) ELSE srcPos
  /\ phase' = "scan"
  /\ UNCHANGED <<source, large>>

Scan ==
  /\ phase = "scan"
  /\ InScan(target, s.pos)
  /\ s' = ScanRound(s)
  /\ UNCHANGED <<source, large, srcPos, window, target, phase>>

Done ==
  /\ phase = "scan"
  /\ ~ InScan(target, s.pos)
  /\ phase' = "done"
  /\ UNCHANGED <<source, large, srcPos, window, target, s>>

Next ==
  \/ \E bytes \in Strings(TargetLens) : Begin(bytes)
  \/ Scan
  \/ Done

Spec == Init /\ [][Next]_vars
-----------------------------------------------------------------------------
TypeOK ==
  /\ phase \in {"idle", "scan", "done"}
  /\ srcPos \in 0 .. Len(source)
  /\ s.pos \in 0 .. Len(target) /\ s.minMatch >= MinMatch /\ s.runL \in Nat
  /\ \A b \in DOMAIN large : large[b] \in 0 .. Len(source)

\* What a match claims: the bytes it stands for are there.
TrueMatch(m) ==
  /\ m.len > 0 /\ End(m) <= Len(target)
  /\ CASE m.kind = "run" -> \A k \in 1 .. m.len : target[m.pos + k] = target[m.pos + 1]
       [] m.kind = "source" ->
            /\ m.addr + m.len <= Len(source)
            /\ \A k \in 1 .. m.len : target[m.pos + k] = source[m.addr + k]
       [] OTHER ->
            /\ m.addr < m.pos
            /\ \A k \in 1 .. m.len : target[m.pos + k] = target[m.addr + k]

\* Every match the scan keeps is true, whatever collides in the tables and
\* however far a match was extended backwards.
MatchesTrue == \A i \in 1 .. Len(s.matches) : TrueMatch(s.matches[i])

\* The run and checksum carried from byte to byte are those of the bytes at
\* pos: a round uses neither a run nor a checksum left from before a jump.  The
\* length a match must have never falls below MIN_MATCH, and match_srcpos stays
\* inside the source (TypeOK).
ScanStateFresh ==
  /\ TypeOK
  /\ phase = "scan" /\ InScan(target, s.pos) =>
       /\ (s.runL >= SmallLook) <=>
            (\A k \in 1 .. SmallLook : target[s.pos + k] = s.runC)
       /\ s.runC = target[s.pos + SmallLook]
       /\ LargeFits(target, s.pos) => s.lcksum = LargeCksum(target, s.pos, LargeLook)

\* Comparing by blocks, of whatever width, finds what comparing byte by byte
\* finds: the agreeing bytes up to the first difference, forwards, backwards
\* and in a run.
ComparisonsExact ==
  phase = "scan" =>
    \A lanes \in {<<4, 2>>, <<3, 3>>, <<2, 2>>}, q \in 0 .. s.pos :
      LET max   == Len(target) - s.pos
          ahead == {k \in 1 .. max : target[q + k] = target[s.pos + k]}
          run   == {k \in 1 .. max : target[s.pos + k] = target[q + 1]}
          back  == {k \in 1 .. q : target[q - k + 1] = target[s.pos - k + 1]}
      IN  \A cmp \in {<<ahead, max>>, <<run, max>>, <<back, q>>} :
            BlockScan(cmp[1], cmp[2], lanes[1], lanes[2])
              = Max({n \in 0 .. cmp[2] : 1 .. n \subseteq cmp[1]})

\* From any head, the chain goes to strictly older positions of this window
\* and of the same bucket, however often the circular prev buffer was
\* overwritten and whatever the window before left.
ChainSound ==
  \A b \in 0 .. Buckets - 1 :
    LET walk[n \in 0 .. PrevSize] ==
          IF n = 0 THEN s.small.head[b]
          ELSE IF walk[n - 1] = 0 THEN 0
          ELSE ChainPrev(s.small, walk[n - 1] - 1, s.pos)
    IN  \A n \in 0 .. PrevSize : walk[n] # 0 =>
          /\ walk[n] - 1 < s.pos
          /\ SmallBucket(walk[n] - 1) = b
          /\ n > 0 => walk[n] < walk[n - 1]

\* Sifting leaves matches in order that do not overlap, so that none of them
\* is skipped when the instructions are emitted.
SiftedDisjoint ==
  LET kept == Sifted(s.matches)
  IN  \A i \in 1 .. Len(kept) - 1 : End(kept[i]) <= kept[i + 1].pos

\* Bytes an instruction stands for, at position `at' of the target.
InstBytes(inst, at) ==
  [k \in 1 .. inst.len |->
     CASE inst.op = "add" -> target[at + k]
       [] inst.op = "run" -> target[at + 1]
       [] inst.addr < Len(source) -> source[inst.addr + k]
       [] OTHER -> target[inst.addr - Len(source) + k]]

LegalAt(inst, at) ==
  inst.op = "copy" =>
    /\ inst.addr < Len(source) + at
    /\ inst.addr < Len(source) => inst.addr + inst.len <= Len(source)

\* The instructions cover the window exactly and mean its bytes; a COPY reads
\* only what the decoder will have, and does not cross from the source into
\* the target.
InstructionsRebuild ==
  phase = "done" =>
    LET insts == Instructions(s.matches)
        at[i \in 1 .. Len(insts) + 1] == IF i = 1 THEN 0 ELSE at[i - 1] + insts[i - 1].len
    IN  /\ at[Len(insts) + 1] = Len(target)
        /\ \A i \in 1 .. Len(insts) :
             /\ insts[i].len > 0
             /\ LegalAt(insts[i], at[i])
             /\ InstBytes(insts[i], at[i]) = SubSeq(target, at[i] + 1, at[i + 1])
=============================================================================
