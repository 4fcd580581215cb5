----------------------------- MODULE WindowCodec ----------------------------
(***************************************************************************)
(* One window through the format: a caller gives instructions to a         *)
(* WindowEncoder, the finished sections are decoded into the target and    *)
(* listed by an InstructionIterator.                                       *)
(*                                                                         *)
(* The codec never looks at a byte, so literal bytes are all different and *)
(* different from the source's: a byte that ends up in the wrong place is  *)
(* seen.                                                                   *)
(***************************************************************************)
EXTENDS WindowEncoder, WindowDecoder

CONSTANTS
  SourceLen,     \* bytes of the source
  SrcOffsets,    \* offsets the source window may have; it runs to the end
  Adds,          \* lengths of ADD instructions
  Runs,          \* lengths of RUN instructions
  Copies,        \* lengths of COPY instructions
  Addrs,         \* COPY addresses, counted from 0 and back from here
  Bases,         \* bytes already in the output buffer
  MaxInsts,      \* bound: instructions of a window of any kind
  LongCopy,      \* length of the COPYs of a window of COPYs only
  MaxCopies      \* bound: COPYs of such a window

VARIABLES
  phase,     \* "encode", then "decode"
  e,         \* the WindowEncoder
  target,    \* the bytes the instructions stand for
  prog,      \* the instructions given to the encoder
  w,         \* the finished window
  d,         \* the decoder
  it         \* the InstructionIterator

vars == <<phase, e, target, prog, w, d, it>>

Source == [i \in 1 .. SourceLen |-> -i]
Literal(n) == [i \in 1 .. n |-> e.tlen + i]

Init ==
  /\ phase = "encode"
  /\ \E off \in SrcOffsets : e = NewEncoder(SourceLen - off, off)
  /\ target = <<>> /\ prog = <<>> /\ w = <<>>
  /\ \E b \in Bases : d = NewDecoder([i \in 1 .. b |-> 0])
  /\ it = NewIterator

\* The programs looked at: any short one, and longer ones of COPYs only, which
\* bring addresses back that have left the NEAR slots.
InBounds(p) ==
  \/ Len(p) <= MaxInsts
  \/ /\ Len(p) <= MaxCopies
     /\ \A i \in 1 .. Len(p) : p[i].op = XD3_CPY /\ p[i].len = LongCopy /\ p[i].addr > 0

Given(op, len, addr, bytes) ==
  /\ phase = "encode"
  /\ prog' = Append(prog, [op |-> op, len |-> len, addr |-> addr])
  /\ InBounds(prog')
  /\ target' = target \o bytes
  /\ UNCHANGED <<phase, w, d, it>>

Add(n) ==
  /\ Given(XD3_ADD, n, 0, Literal(n))
  /\ e' = EncAdd(e, Literal(n))

Run(n) ==
  /\ Given(XD3_RUN, n, 0, [i \in 1 .. n |-> e.tlen + 1])
  /\ e' = EncRun(e, n, e.tlen + 1)

\* What a COPY stands for: n bytes of source window and target from addr on,
\* a self-copy that reaches its own output repeating what lies before it.
Meant(addr, n) ==
  IF addr < e.srcLen
    THEN [i \in 1 .. n |-> Source[e.srcOffset + addr + i]]
    ELSE LET from == addr - e.srcLen
         IN  [i \in 1 .. n |-> target[from + 1 + ((i - 1) % (Len(target) - from))]]

\* The callers' part of the contract of copy: an address before here, and a
\* source copy that stays in the source window.
CopyAllowed(addr, n) ==
  /\ addr \in 0 .. EncHere(e) - 1
  /\ addr < e.srcLen => addr + n <= e.srcLen

Copy(n, addr) ==
  /\ CopyAllowed(addr, n)
  /\ Given(XD3_CPY, n, addr, Meant(addr, n))
  /\ e' = EncCopy(e, n, addr)

Finish ==
  /\ phase = "encode"
  /\ phase' = "decode"
  /\ w' = FinishSections(e, target)
  /\ UNCHANGED <<e, target, prog, d, it>>

Decode ==
  /\ phase = "decode"
  /\ d.status = "running"
  /\ d' = IF d.ipos < Len(w.inst) THEN DecodeOpcode(d, w, Source) ELSE DecodeEnd(d, w)
  /\ UNCHANGED <<phase, e, target, prog, w, it>>

\* The listing runs on its own; after the decoder here, to keep the runs small.
List ==
  /\ phase = "decode"
  /\ d.status # "running"
  /\ IterMore(it, w)
  /\ it' = IterNext(it, w)
  /\ UNCHANGED <<phase, e, target, prog, w, d>>

Next ==
  \/ \E n \in Adds : Add(n)
  \/ \E n \in Runs : Run(n)
  \/ \E n \in Copies, a \in Addrs : Copy(n, a) \/ Copy(n, EncHere(e) - a)
  \/ Finish
  \/ Decode
  \/ List

Spec == Init /\ [][Next]_vars
-----------------------------------------------------------------------------
Statuses == {"running", "done", "data underflow", "size underflow", "addr underflow",
             "invalid addr", "spans boundary", "source underflow", "size mismatch",
             "checksum mismatch"}

TypeOK ==
  /\ phase \in {"encode", "decode"}
  /\ e.cache \in Cache /\ Len(e.pending) <= 1 /\ e.tlen \in Nat
  /\ \A i \in 1 .. Len(e.inst) : e.inst[i] \in Nat
  /\ d.cache \in Cache /\ d.status \in Statuses

\* Whatever mix of instructions is given, packed in pairs or not, decoding
\* rebuilds exactly what they stand for, after every opcode and at the end,
\* behind whatever the output buffer already held.
DecodeRebuilds ==
  /\ d.status \in {"running", "done"}
  /\ IsPrefix(Written(d), target)
  /\ d.status = "done" => Written(d) = target

\* target_pos and the output buffer advance together: here is right when an
\* address is decoded, and a self-copy never reads past the output.
PositionsAgree == TypeOK /\ d.tpos = Len(d.out) - d.base

\* A decoded window leaves nothing in its sections: no unit is written that
\* the decoder does not take.
SectionsConsumed ==
  d.status = "done" =>
    /\ d.ipos = Len(w.inst) /\ d.dpos = Len(w.data) /\ d.apos = Len(w.addr)

\* The listing shows the instructions that were given, in order and with
\* their addresses, however the opcodes pack them.
ListingIsProgram ==
  /\ IsPrefix(it.list, prog)
  /\ (phase = "decode" /\ d.status # "running" /\ ~ IterMore(it, w)) => it.list = prog
=============================================================================
