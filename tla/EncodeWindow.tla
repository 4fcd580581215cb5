---------------------------- MODULE EncodeWindow ----------------------------
(***************************************************************************)
(* A target window all the way: match engine, pipeline, window encoder,    *)
(* and back through the decoder.  DeltaEncoder::encode_window              *)
(* (src/src/compress/encoder.rs) runs the pipeline, encode_with_options    *)
(* (src/src/engine.rs) does not; at level 0 the former does without the    *)
(* match engine too.  All use the whole source as the source window.       *)
(***************************************************************************)
EXTENDS MatchEngine, Pipeline, WindowEncoder, WindowDecoder

VARIABLES
  caller,       \* "stream" (DeltaEncoder), "level 0" or "memory" (engine.rs)
  w,            \* the encoded window; <<>> before there is one
  d             \* its decoder

pathVars == <<vars, caller, w, d>>
Optimizing == caller = "stream"

PathInit ==
  /\ Init
  /\ caller \in {"stream", "level 0", "memory"}
  /\ w = <<>> /\ d = NewDecoder(<<>>)

RawInsts == Instructions(s.matches)
Insts == IF Optimizing THEN Optimize(RawInsts, target) ELSE RawInsts

\* emit_instructions, the same in both files.
EmitInst(acc, inst) ==
  [at |-> acc.at + inst.len,
   e  |-> CASE inst.op = "add" -> EncAdd(acc.e, SubSeq(target, acc.at + 1, acc.at + inst.len))
            [] inst.op = "run" -> EncRun(acc.e, inst.len, target[acc.at + 1])
            [] OTHER           -> EncCopy(acc.e, inst.len, inst.addr)]

EmitInstructions(insts) ==
  FoldLeft(EmitInst, [at |-> 0, e |-> NewEncoder(Len(source), 0)], insts).e

BeginPath(bytes) ==
  /\ d.status # "running" \/ window = 0
  /\ caller # "level 0"
  /\ Begin(bytes)
  /\ w' = <<>>
  /\ d' = NewDecoder(<<>>)
  /\ UNCHANGED caller

\* Level 0: the window is one ADD, as it is when a scan finds nothing.
BeginPlain(bytes) ==
  /\ d.status # "running" \/ window = 0
  /\ caller = "level 0"
  /\ window < MaxWindows
  /\ window' = window + 1
  /\ target' = bytes
  /\ phase' = "done"
  /\ w' = <<>>
  /\ d' = NewDecoder(<<>>)
  /\ UNCHANGED <<source, large, srcPos, s, caller>>

ScanPath ==
  /\ Scan \/ Done
  /\ UNCHANGED <<caller, w, d>>

Encode1 ==
  /\ phase = "done" /\ w = <<>>
  /\ w' = FinishSections(EmitInstructions(Insts), target)
  /\ UNCHANGED <<vars, caller, d>>

Decode1 ==
  /\ w # <<>> /\ d.status = "running"
  /\ d' = IF d.ipos < Len(w.inst) THEN DecodeOpcode(d, w, source) ELSE DecodeEnd(d, w)
  /\ UNCHANGED <<vars, caller, w>>

PathNext ==
  \/ \E bytes \in Strings(TargetLens) : BeginPath(bytes) \/ BeginPlain(bytes)
  \/ ScanPath
  \/ Encode1
  \/ Decode1

PathSpec == PathInit /\ [][PathNext]_pathVars
-----------------------------------------------------------------------------
\* "adjacent RUNs in the match engine output always have the same byte since
\* they come from contiguous target positions with identical bytes"
\* (pipeline.rs, try_coalesce).
AdjacentRunsSameByte ==
  phase = "done" =>
    \A i \in 1 .. Len(RawInsts) - 1 :
      RawInsts[i].op = "run" /\ RawInsts[i + 1].op = "run" =>
        target[Starts(RawInsts)[i] + 1] = target[Starts(RawInsts)[i + 1] + 1]

\* A COPY address in "0..source_window_len for source copies" (encoder.rs,
\* copy) stays a source copy: after the pipeline, no COPY that starts in the
\* source runs on into the target, which the decoder refuses.
CopiesStayInSource ==
  phase = "done" =>
    \A i \in 1 .. Len(Insts) :
      Insts[i].op = "copy" /\ Insts[i].addr < Len(source)
        => Insts[i].addr + Insts[i].len <= Len(source)

\* Whatever source and target, the decoder accepts the window and rebuilds
\* the target: always without the pipeline, and with it as long as the engine
\* gives it neither two RUNs of different bytes in a row nor a COPY up to the
\* end of the source followed by one from the start of the target.
DecodedIsTarget ==
  w # <<>> /\ ~ (Optimizing /\ \E i \in 1 .. Len(RawInsts) - 1 :
                  ContraryMerge(Len(source), target, RawInsts, i)) =>
    /\ d.status \in {"running", "done"}
    /\ IsPrefix(d.out, target)
    /\ d.status = "done" => d.out = target
=============================================================================
