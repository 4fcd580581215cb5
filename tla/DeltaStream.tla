----------------------------- MODULE DeltaStream ----------------------------
(***************************************************************************)
(* A whole delta: DeltaEncoder (src/src/compress/encoder.rs) cuts what it  *)
(* is given into windows and writes them behind a file header; the delta   *)
(* may be cut short or damaged; DeltaDecoder (src/src/compress/decoder.rs) *)
(* decodes it window by window into a writer.                              *)
(*                                                                         *)
(* Byte i of the target is the number i.  A window on the wire is two      *)
(* units, its header and its body: what is inside is the business of       *)
(* EncodeWindow, and the checksum, on by default, is taken to find damage. *)
(* Every caller in the crate stops at the first error.                     *)
(*                                                                         *)
(* A delta is made by one of four calls: DeltaEncoder fed piece by piece   *)
(* ("stream"), encode_all, which feeds it once ("all"),                    *)
(* encode_all_parallel ("parallel"), and encode_with_options of            *)
(* src/src/engine.rs, which writes to memory ("memory").                   *)
(***************************************************************************)
EXTENDS Integers, Sequences, SequencesExt

CONSTANTS
  WindowSizes,  \* values of the option window_size
  MinWindow,    \* the least window the one-shot calls ask for (64)
  Chunks,       \* lengths of the pieces given to write_target
  MaxBytes,     \* bound: length of the target
  MaxFaults     \* bound: times the delta is damaged or cut

ASSUME SizesAssumption == WindowSizes \subseteq Nat \ {0} /\ MinWindow \in Nat \ {0}

VARIABLES
  job,             \* the call, its target's length and its option window_size
  ready,           \* chunks encoded by the workers, in the order they were done
  bytesIn,         \* bytes_in; target_offset
  buffer,          \* bytes waiting for a window to fill
  headerWritten,   \* header_written of the StreamEncoder
  windows,         \* windows_written
  enc,             \* "open", "finished" or "error"
  reported,        \* what finish returned as the number of windows
  wire,            \* the delta
  faults,          \* faults so far
  rpos,            \* units the decoder has read
  headerRead,      \* file_header.is_some()
  out,             \* what the decoder's writer holds
  decoded,         \* bytes_decoded
  decodedWindows,  \* windows_decoded
  result           \* of decode_to: "running", "ok" or "error"

encVars == <<job, ready, bytesIn, buffer, headerWritten, windows, enc, reported>>
decVars == <<rpos, headerRead, out, decoded, decodedWindows, result>>
vars == <<encVars, wire, faults, decVars>>

Bytes(from, to) == [i \in 1 .. to - from |-> from + i]
Target == Bytes(0, bytesIn)

Unit(kind, bytes) == [kind |-> kind, bytes |-> bytes, good |-> TRUE]
FileHeader == <<Unit("file", <<>>)>>
Part == <<Unit("part", <<>>)>>         \* a unit that breaks off
WindowUnits(bytes) == <<Unit("head", <<>>), Unit("body", bytes)>>

\* encode_all caps the size of its windows, encode_all_parallel has a floor too.
Capped == IF job.n < job.size THEN Max({job.n, MinWindow}) ELSE job.size

WindowSize ==
  CASE job.call \in {"stream", "memory"} -> job.size
    [] job.call = "all" -> Capped
    [] job.call = "parallel" -> Max({Capped, MinWindow})

\* encode_all_parallel leaves an empty target to encode_all.
OneWrite == job.call = "all" \/ (job.call = "parallel" /\ job.n = 0)

Jobs == [call : {"stream"}, n : {0}, size : WindowSizes]
          \cup [call : {"all", "parallel", "memory"}, n : 0 .. MaxBytes, size : WindowSizes]

Init ==
  /\ job \in Jobs /\ ready = <<>>
  /\ bytesIn = 0 /\ buffer = <<>> /\ headerWritten = FALSE /\ windows = 0
  /\ enc = "open" /\ reported = 0 /\ wire = <<>> /\ faults = 0
  /\ rpos = 0 /\ headerRead = FALSE /\ out = <<>> /\ decoded = 0
  /\ decodedWindows = 0 /\ result = "running"

(***************************************************************************)
(* Encoding.                                                               *)
(***************************************************************************)
\* The windows a call of write_target completes: the buffered one if the data
\* fill it, then full windows straight from the data.
Taken(data) ==
  IF buffer = <<>> THEN 0 ELSE Min({WindowSize - Len(buffer), Len(data)})

Filled(data) == buffer \o SubSeq(data, 1, Taken(data))
Fills(data) == buffer # <<>> /\ Len(Filled(data)) = WindowSize
FullWindows(data) == (Len(data) - Taken(data)) \div WindowSize

Completed(data) ==
  (IF Fills(data) THEN <<Filled(data)>> ELSE <<>>)
    \o [k \in 1 .. FullWindows(data) |->
          SubSeq(data, Taken(data) + (k - 1) * WindowSize + 1, Taken(data) + k * WindowSize)]

\* Mutant: the buffer is not cleared when it was written.
KeptFilled(data) ==
  Filled(data) \o SubSeq(data, Taken(data) + FullWindows(data) * WindowSize + 1, Len(data))

\* Mutant: what is left behind full windows is not buffered.
KeptNoTail(data) == IF Fills(data) THEN <<>> ELSE Filled(data)

Kept(data) ==
  (IF Fills(data) THEN <<>> ELSE Filled(data))
    \o SubSeq(data, Taken(data) + FullWindows(data) * WindowSize + 1, Len(data))

\* write_raw_window for each window: the file header goes before the first.
UnitsOf(ws) ==
  (IF headerWritten \/ ws = <<>> THEN <<>> ELSE FileHeader)
    \o FlattenSeq([k \in 1 .. Len(ws) |-> WindowUnits(ws[k])])

MayWrite(n) ==
  \/ job.call = "stream" /\ bytesIn + n <= MaxBytes
  \/ OneWrite /\ bytesIn = 0 /\ n = job.n

WriteTarget(n) ==
  LET data == Bytes(bytesIn, bytesIn + n)
  IN  /\ enc = "open" /\ MayWrite(n)
      /\ bytesIn' = bytesIn + n
      /\ buffer' = Kept(data)
      /\ headerWritten' = (headerWritten \/ Completed(data) # <<>>)
      /\ windows' = windows + Len(Completed(data))
      /\ wire' = wire \o UnitsOf(Completed(data))
      /\ UNCHANGED <<job, ready, enc, reported, faults, decVars>>

\* The windows finish writes: the rest of the buffer, or one empty window if
\* there was none at all.  Only the former is counted.
LastWindows == IF buffer # <<>> \/ windows = 0 THEN <<buffer>> ELSE <<>>

MayFinish == job.call = "stream" \/ (OneWrite /\ bytesIn = job.n)

Finish ==
  /\ enc = "open" /\ MayFinish
  /\ enc' = "finished"
  /\ windows' = IF buffer # <<>> THEN windows + 1 ELSE windows
  /\ reported' = windows'
  /\ buffer' = <<>>
  /\ headerWritten' = TRUE
  /\ wire' = wire \o UnitsOf(LastWindows)
  /\ UNCHANGED <<job, ready, bytesIn, faults, decVars>>

BodiesOf(units) == SelectSeq(units, LAMBDA u : u.kind = "body")

\* The writer fails in write_target or finish: some of the units are there,
\* the next one not or in part.  The buffer was taken and is lost.
Fails(units) ==
  /\ \E k \in 0 .. Len(units) - 1, tail \in {<<>>, Part} :
       /\ wire' = wire \o SubSeq(units, 1, k) \o tail
       /\ headerWritten' = (headerWritten \/ k > 0)
       /\ windows' = windows + Len(BodiesOf(SubSeq(units, 1, k)))
  /\ enc' = "error"
  /\ buffer' = <<>>
  /\ UNCHANGED <<job, ready, reported, faults, decVars>>

WriteTargetFails(n) ==
  /\ enc = "open" /\ MayWrite(n)
  /\ Fails(UnitsOf(Completed(Bytes(bytesIn, bytesIn + n))))
  /\ bytesIn' = bytesIn + n

FinishFails ==
  /\ enc = "open" /\ MayFinish
  /\ Fails(UnitsOf(LastWindows))
  /\ UNCHANGED bytesIn

\* The last flush fails, with every unit written.
FlushFails ==
  /\ enc = "open" /\ MayFinish
  /\ enc' = "error"
  /\ windows' = IF buffer # <<>> THEN windows + 1 ELSE windows
  /\ buffer' = <<>>
  /\ headerWritten' = TRUE
  /\ wire' = wire \o UnitsOf(LastWindows)
  /\ UNCHANGED <<job, ready, bytesIn, reported, faults, decVars>>

(***************************************************************************)
(* Encoding in parallel: every chunk of the target is a task, done in any  *)
(* order; the results are collected by chunk and only then written.        *)
(***************************************************************************)
Parallel == job.call = "parallel" /\ job.n > 0 /\ enc = "open"
ChunkCount == (job.n + WindowSize - 1) \div WindowSize
Chunk(k) == Bytes((k - 1) * WindowSize, Min({k * WindowSize, job.n}))

\* Mutant: what is ready is written.
AnyReady == bytesIn = job.n /\ Len(ready) > 0

\* Mutant: the count of chunks is one too high if they are all full.
AllReadyOneMore == bytesIn = job.n /\ Len(ready) = job.n \div WindowSize + 1

AllReady == bytesIn = job.n /\ Len(ready) = ChunkCount

SplitTarget ==
  /\ Parallel /\ bytesIn = 0
  /\ bytesIn' = job.n
  /\ UNCHANGED <<job, ready, buffer, headerWritten, windows, enc, reported, wire, faults, decVars>>

EncodeChunk(k) ==
  /\ Parallel /\ bytesIn = job.n
  /\ k \in 1 .. ChunkCount /\ k \notin Range(ready)
  /\ ready' = Append(ready, k)
  /\ UNCHANGED <<job, bytesIn, buffer, headerWritten, windows, enc, reported, wire, faults, decVars>>

\* A task fails, in the secondary compressor: the call returns its error and
\* what the other tasks did is dropped.
ChunkFails ==
  /\ Parallel /\ bytesIn = job.n /\ Len(ready) < ChunkCount
  /\ enc' = "error"
  /\ UNCHANGED <<job, ready, bytesIn, buffer, headerWritten, windows, reported, wire, faults, decVars>>

\* Mutant: the windows are collected in the order they were done.
CollectedAsDone == [k \in 1 .. Len(ready) |-> Chunk(ready[k])]

Collected == [k \in 1 .. Len(ready) |-> Chunk(k)]

WriteCollected ==
  /\ Parallel /\ AllReady
  /\ enc' = "finished"
  /\ headerWritten' = TRUE
  /\ wire' = wire \o UnitsOf(Collected)
  /\ UNCHANGED <<job, ready, bytesIn, buffer, windows, reported, faults, decVars>>

WriteCollectedFails ==
  /\ Parallel /\ AllReady
  /\ Fails(UnitsOf(Collected))
  /\ UNCHANGED bytesIn

(***************************************************************************)
(* Encoding to memory: window by window, with no buffer and no way to fail *)
(***************************************************************************)
InMemory == job.call = "memory" /\ enc = "open"

WindowEnd == Min({bytesIn + WindowSize, job.n})

MemoryWindow ==
  /\ InMemory /\ bytesIn < job.n
  /\ bytesIn' = WindowEnd
  /\ headerWritten' = TRUE
  /\ wire' = wire \o UnitsOf(<<Bytes(bytesIn, WindowEnd)>>)
  /\ UNCHANGED <<job, ready, buffer, windows, enc, reported, faults, decVars>>

\* An empty target gets one empty window.
MemoryFinish ==
  /\ InMemory /\ bytesIn = job.n
  /\ enc' = "finished"
  /\ headerWritten' = TRUE
  /\ wire' = wire \o UnitsOf(IF job.n = 0 THEN <<<<>>>> ELSE <<>>)
  /\ UNCHANGED <<job, ready, bytesIn, buffer, windows, reported, faults, decVars>>

(***************************************************************************)
(* On the way.                                                             *)
(***************************************************************************)
Lose(k) ==
  /\ wire' \in {SubSeq(wire, 1, k), SubSeq(wire, 1, k) \o Part}
  /\ UNCHANGED <<encVars, decVars>>

Spoil(k) ==
  /\ wire[k + 1].kind = "body"
  /\ wire' = [wire EXCEPT ![k + 1].good = FALSE, ![k + 1].bytes = [i \in DOMAIN @ |-> 0]]
  /\ UNCHANGED <<encVars, decVars>>

Fault ==
  /\ enc # "open" /\ rpos = 0 /\ result = "running"
  /\ faults < MaxFaults
  /\ faults' = faults + 1
  /\ \E k \in 0 .. Len(wire) - 1 : Lose(k) \/ Spoil(k)

(***************************************************************************)
(* Decoding: calls of decode_window_to, until one returns None or an error *)
(***************************************************************************)
Decoding == enc # "open" /\ result = "running"
Has(k, kind) == k <= Len(wire) /\ wire[k].kind = kind

\* Units read before the window header of this call.
AtWindow == IF headerRead THEN rpos ELSE 1
HeaderOK == headerRead \/ Has(1, "file")

Ends(r) ==
  /\ result' = r
  /\ headerRead' = HeaderOK
  /\ UNCHANGED <<encVars, wire, faults, rpos, decoded, decodedWindows>>

BadHeader == Decoding /\ ~ HeaderOK /\ Ends("error") /\ UNCHANGED out

\* Mutant: a delta of nothing but the file header is not at its end.
EndOfStreamLate == Decoding /\ headerRead /\ AtWindow = Len(wire) /\ Ends("ok") /\ UNCHANGED out

\* No byte is left where a window would start: that is the end.
EndOfStream == Decoding /\ HeaderOK /\ AtWindow = Len(wire) /\ Ends("ok") /\ UNCHANGED out

\* Mutant: the checksum is not looked at.
WindowUnchecked == Has(AtWindow + 1, "head") /\ Has(AtWindow + 2, "body")

WindowOK == /\ Has(AtWindow + 1, "head")
            /\ Has(AtWindow + 2, "body")
            /\ wire[AtWindow + 2].good

BadWindow ==
  Decoding /\ HeaderOK /\ AtWindow < Len(wire) /\ ~ WindowOK /\ Ends("error") /\ UNCHANGED out

\* Mutant: every window is counted as a full one.
DecodeCountsFull ==
  /\ Decoding /\ HeaderOK /\ WindowOK
  /\ out' = out \o wire[AtWindow + 2].bytes
  /\ decoded' = decoded + WindowSize
  /\ decodedWindows' = decodedWindows + 1
  /\ rpos' = AtWindow + 2
  /\ headerRead' = TRUE
  /\ UNCHANGED <<encVars, wire, faults, result>>

DecodeWindowTo ==
  /\ Decoding /\ HeaderOK /\ WindowOK
  /\ LET bytes == wire[AtWindow + 2].bytes
     IN  /\ out' = out \o bytes
         /\ decoded' = decoded + Len(bytes)
  /\ decodedWindows' = decodedWindows + 1
  /\ rpos' = AtWindow + 2
  /\ headerRead' = TRUE
  /\ UNCHANGED <<encVars, wire, faults, result>>

\* write_all fails with part of the window written; nothing is counted.
OutputFails ==
  /\ Decoding /\ HeaderOK /\ WindowOK
  /\ LET bytes == wire[AtWindow + 2].bytes
     IN  \E n \in 0 .. Len(bytes) - 1 : out' = out \o SubSeq(bytes, 1, n)
  /\ Ends("error")

DecodeCall == BadHeader \/ EndOfStream \/ BadWindow \/ DecodeWindowTo \/ OutputFails

\* The steps of the calls that encode a whole target.
EncodeCall ==
  \/ OneWrite /\ (WriteTarget(job.n) \/ Finish)
  \/ SplitTarget
  \/ \E k \in 1 .. MaxBytes : EncodeChunk(k)
  \/ WriteCollected
  \/ MemoryWindow
  \/ MemoryFinish

Next ==
  \/ \E n \in Chunks : WriteTarget(n) \/ WriteTargetFails(n)
  \/ EncodeCall
  \/ OneWrite /\ WriteTargetFails(job.n)
  \/ ChunkFails
  \/ WriteCollectedFails
  \/ Finish
  \/ FinishFails
  \/ FlushFails
  \/ Fault
  \/ DecodeCall

\* decode_to calls decode_window_to until it is done; a call that encodes a
\* whole target goes on by itself, the worker pool taking every task.
Spec == Init /\ [][Next]_vars /\ WF_vars(EncodeCall) /\ WF_vars(DecodeCall)
-----------------------------------------------------------------------------
TypeOK ==
  /\ job \in Jobs /\ IsInjective(ready) /\ Range(ready) \subseteq 1 .. MaxBytes
  /\ bytesIn \in 0 .. MaxBytes /\ Len(buffer) < WindowSize
  /\ headerWritten \in BOOLEAN /\ windows \in Nat
  /\ enc \in {"open", "finished", "error"} /\ result \in {"running", "ok", "error"}
  /\ rpos \in 0 .. Len(wire) /\ headerRead \in BOOLEAN
  /\ faults \in 0 .. MaxFaults /\ decoded \in Nat

Bodies == BodiesOf(wire)

\* However the target is cut into calls of write_target, in whatever order the
\* workers are done and whichever call is used, the windows written and the
\* bytes still buffered are the target, in order and without gaps; all windows
\* but the last are full, so they depend on the target and the window size
\* alone.  The buffer never holds a full window between calls (TypeOK).
WindowsPartition ==
  /\ TypeOK
  /\ enc # "error" /\ faults = 0 /\ (job.call = "parallel" => enc = "finished") =>
       /\ FlattenSeq([k \in 1 .. Len(Bodies) |-> Bodies[k].bytes]) \o buffer = Target
       /\ \A k \in 1 .. Len(Bodies) - 1 : Len(Bodies[k].bytes) = WindowSize
       /\ enc = "open" /\ job.call # "memory" => \A k \in 1 .. Len(Bodies) : Len(Bodies[k].bytes) = WindowSize
       /\ enc = "finished" => Len(Bodies) = Max({1, (bytesIn + WindowSize - 1) \div WindowSize})
       /\ wire # <<>> => wire[1].kind = "file"

\* A parallel call has written nothing as long as a chunk is not encoded: if
\* the compressor fails in one of them, the writer is as it was.
NothingBeforeAll ==
  job.call = "parallel" /\ job.n > 0 /\ wire # <<>> => Range(ready) = 1 .. ChunkCount

\* The counters describe the writers.  Every byte the decoder counted was
\* written, and what was written and not counted is part of one window whose
\* write failed.  The encoder reports the windows it wrote, but for the one of
\* an empty target.
CountersAgree ==
  /\ decoded <= Len(out)
  /\ decoded < Len(out) => result = "error" /\ Len(out) - decoded < WindowSize
  /\ result = "ok" => decodedWindows = Len(Bodies)
  /\ enc = "finished" /\ faults = 0 /\ (job.call = "stream" \/ OneWrite) =>
       reported = IF bytesIn = 0 THEN 0 ELSE Len(Bodies)

\* The delta delivers the target as Delivery promises.
Promise == INSTANCE Delivery WITH
  given <- Target, faulty <- (faults > 0 \/ enc = "error")

Delivers == Promise!Spec

\* Decoding ends, with success or with an error, on a delta in any condition.
DecodingEnds == (enc # "open") ~> (result # "running")

\* A call that is given the whole target comes to its end, whatever the
\* window size: every round of its loop takes bytes from the target.
EncodingEnds == job.call # "stream" ~> enc # "open"
=============================================================================
