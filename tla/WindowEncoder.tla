---------------------------- MODULE WindowEncoder ---------------------------
(***************************************************************************)
(* WindowEncoder (src/src/vcdiff/encoder.rs): instructions in, the DATA,   *)
(* INST and ADDR sections of one window out.  An encoder is a record; each *)
(* method is an operator from encoder to encoder.                          *)
(*                                                                         *)
(* A section is a sequence of the units the decoder takes from it: DATA of *)
(* bytes, INST of opcodes and of sizes (a size follows an opcode whose     *)
(* table entry has size 0), ADDR of values (varint or SAME byte).          *)
(***************************************************************************)
EXTENDS AddressCache, CodeTable

\* new: srcLen and srcOffset are the SourceWindow, 0 and 0 when there is none.
NewEncoder(srcLen, srcOffset) ==
  [data |-> <<>>, inst |-> <<>>, addr |-> <<>>,
   cache |-> FreshCache, pending |-> <<>>, tlen |-> 0,
   srcLen |-> srcLen, srcOffset |-> srcOffset]

EncHere(e) == e.srcLen + e.tlen

\* emit_opcode_single: the size is written only when the table has none.
SingleUnits(inst) ==
  IF DefaultCodeTable[Code1(inst)].size1 = 0
    THEN <<Code1(inst), inst.size>> ELSE <<Code1(inst)>>

FlushPending(e) ==
  IF e.pending = <<>> THEN e
  ELSE [e EXCEPT !.inst = @ \o SingleUnits(e.pending[1]), !.pending = <<>>]

\* Mutant: the pending instruction is not taken when it is packed.
EmitKeepsPending(e, inst) ==
  IF Code2(e.pending, inst) # NoCode
    THEN [e EXCEPT !.inst = Append(@, Code2(e.pending, inst))]
    ELSE [FlushPending(e) EXCEPT !.pending = <<inst>>]

\* Mutant: instructions queue up behind one that is not packed.
EmitQueueing(e, inst) ==
  IF Code2(e.pending, inst) # NoCode
    THEN [e EXCEPT !.inst = Append(@, Code2(e.pending, inst)), !.pending = <<>>]
    ELSE [e EXCEPT !.pending = Append(@, inst)]

\* emit_instruction: pack with the pending instruction, or queue.
EmitInstruction(e, inst) ==
  IF Code2(e.pending, inst) # NoCode
    THEN [e EXCEPT !.inst = Append(@, Code2(e.pending, inst)), !.pending = <<>>]
    ELSE [FlushPending(e) EXCEPT !.pending = <<inst>>]

Advance(e, n) == [e EXCEPT !.tlen = @ + n]

EncAdd(e, bytes) ==
  IF bytes = <<>> THEN e
  ELSE Advance(EmitInstruction([e EXCEPT !.data = @ \o bytes],
                               [type |-> XD3_ADD, size |-> Len(bytes)]),
               Len(bytes))

\* Mutant: the byte of a RUN is stored as often as it occurs.
EncRunAll(e, n, byte) ==
  IF n = 0 THEN e
  ELSE Advance(EmitInstruction([e EXCEPT !.data = @ \o [i \in 1 .. n |-> byte]],
                               [type |-> XD3_RUN, size |-> n]), n)

EncRun(e, n, byte) ==
  IF n = 0 THEN e
  ELSE Advance(EmitInstruction([e EXCEPT !.data = Append(@, byte)],
                               [type |-> XD3_RUN, size |-> n]), n)

\* copy: the address goes to its section before the opcode is chosen, since
\* the mode it takes is part of the instruction.
EncCopy(e, n, addr) ==
  IF n = 0 THEN e
  ELSE LET form == Encode(e.cache, addr, EncHere(e))
       IN  Advance(EmitInstruction([e EXCEPT !.addr = Append(@, form.val),
                                             !.cache = Update(@, addr)],
                                   [type |-> XD3_CPY + form.mode, size |-> n]), n)

\* finish_sections, and what assemble puts in the window header.  The Adler-32
\* of the target bytes is taken to identify them.
FinishSections(e, target) ==
  LET f == FlushPending(e)
  IN  [data |-> f.data, inst |-> f.inst, addr |-> f.addr,
       copyLen |-> f.srcLen, copyOffset |-> f.srcOffset,
       targetLen |-> f.tlen, adler |-> target]
=============================================================================
