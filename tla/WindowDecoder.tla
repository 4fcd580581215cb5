---------------------------- MODULE WindowDecoder ---------------------------
(***************************************************************************)
(* decode_window_with_cache and InstructionIterator                        *)
(* (src/src/vcdiff/decoder.rs): two readers of the sections of a window,   *)
(* one that rebuilds the target and one that lists the instructions.       *)
(*                                                                         *)
(* A reader is a record with the number of units it has taken from each    *)
(* section.  w is the window: its sections and its header fields.          *)
(***************************************************************************)
EXTENDS AddressCache, CodeTable

\* output may already hold earlier windows: base is where this one starts.
NewDecoder(output) ==
  [ipos |-> 0, dpos |-> 0, apos |-> 0, tpos |-> 0, cache |-> FreshCache,
   out |-> output, base |-> Len(output), status |-> "running"]

Fail(d, why) == [d EXCEPT !.status = why]

\* A size of 0 in the table means that it is the next unit of INST.
TakesSize(size) == size = 0
HasSize(d, w, size) == TakesSize(size) => d.ipos < Len(w.inst)
HalfSize(d, w, size) == IF TakesSize(size) THEN w.inst[d.ipos + 1] ELSE size

AfterSize(d, size) == IF TakesSize(size) THEN [d EXCEPT !.ipos = @ + 1] ELSE d

Produce(d, bytes) == [d EXCEPT !.out = @ \o bytes, !.tpos = @ + Len(bytes)]

\* Mutant: a RUN moves the position by one.
DecRunOne(d, w, n) ==
  IF d.dpos >= Len(w.data) THEN Fail(d, "data underflow")
  ELSE [d EXCEPT !.out = @ \o [i \in 1 .. n |-> w.data[d.dpos + 1]],
                 !.tpos = @ + 1, !.dpos = @ + 1]

DecRun(d, w, n) ==
  IF d.dpos >= Len(w.data) THEN Fail(d, "data underflow")
  ELSE [Produce(d, [i \in 1 .. n |-> w.data[d.dpos + 1]]) EXCEPT !.dpos = @ + 1]

DecAdd(d, w, n) ==
  IF d.dpos + n > Len(w.data) THEN Fail(d, "data underflow")
  ELSE [Produce(d, SubSeq(w.data, d.dpos + 1, d.dpos + n)) EXCEPT !.dpos = @ + n]

\* source_slice and read_source; the caller has checked that the bytes exist.
ReadSource(source, offset, n) == SubSeq(source, offset + 1, offset + n)

\* Mutant: an overlapping copy reads what was there before it.
SelfCopyBlock(out, from, n) == out \o SubSeq(out, from + 1, Min({Len(out), from + n}))

\* Self-copy: in one piece when the bytes are all there, else byte by byte so
\* that each read sees the bytes just written.
SelfCopy(out, from, n) ==
  IF from + n <= Len(out)
    THEN out \o SubSeq(out, from + 1, from + n)
    ELSE FoldLeft(LAMBDA o, i : Append(o, o[from + i]), out, [i \in 1 .. n |-> i])

DecCopy(d, w, mode, n, source) ==
  LET here == w.copyLen + d.tpos
      addr == DecodedAddr(d.cache, mode, w.addr[d.apos + 1], here)
      read == [d EXCEPT !.apos = @ + 1, !.cache = Update(@, addr)]
      from == w.copyOffset + addr
  IN  IF d.apos >= Len(w.addr) THEN Fail(d, "addr underflow")
      ELSE IF ~ ValidAddr(addr, here) THEN Fail(d, "invalid addr")
      ELSE IF addr < w.copyLen /\ addr + n > w.copyLen THEN Fail(read, "spans boundary")
      ELSE IF addr >= w.copyLen
        THEN [read EXCEPT !.out = SelfCopy(@, d.base + (addr - w.copyLen), n),
                          !.tpos = @ + n]
      ELSE IF from + n > Len(source) THEN Fail(read, "source underflow")
      ELSE Produce(read, ReadSource(source, from, n))

\* execute_half_instruction, skipped for NOOP and after an error.
ExecuteHalf(d, w, type, size, source) ==
  IF d.status # "running" \/ type = XD3_NOOP THEN d
  ELSE IF ~ HasSize(d, w, size) THEN Fail(d, "size underflow")
  ELSE LET n == HalfSize(d, w, size)
           e == AfterSize(d, size)
       IN  CASE type = XD3_RUN -> DecRun(e, w, n)
             [] type = XD3_ADD -> DecAdd(e, w, n)
             [] OTHER -> DecCopy(e, w, type - XD3_CPY, n, source)

\* One round of the loop: an opcode, its first half, its second half.
DecodeOpcode(d, w, source) ==
  LET entry == DefaultCodeTable[w.inst[d.ipos + 1]]
      first == ExecuteHalf([d EXCEPT !.ipos = @ + 1], w, entry.type1, entry.size1, source)
  IN  ExecuteHalf(first, w, entry.type2, entry.size2, source)

Written(d) == SubSeq(d.out, d.base + 1, Len(d.out))

\* After the loop: the length, then the checksum.
DecodeEnd(d, w) ==
  [d EXCEPT !.status =
     IF Len(Written(d)) # w.targetLen THEN "size mismatch"
     ELSE IF Written(d) # w.adler THEN "checksum mismatch"
     ELSE "done"]

-----------------------------------------------------------------------------
\* InstructionIterator: second is the half kept back from a double opcode.
NewIterator == [ipos |-> 0, apos |-> 0, tpos |-> 0, cache |-> FreshCache,
                second |-> <<>>, list |-> <<>>]

\* resolve_half, on sections an encoder wrote (no underflow).
ResolveHalf(it, w, type, size) ==
  LET n    == HalfSize(it, w, size)
      mode == type - XD3_CPY
      addr == DecodedAddr(it.cache, mode, w.addr[it.apos + 1], w.copyLen + it.tpos)
      e    == [AfterSize(it, size) EXCEPT !.tpos = @ + n]
  IN  IF type \in {XD3_RUN, XD3_ADD}
        THEN [e EXCEPT !.list = Append(@, [op |-> type, len |-> n, addr |-> 0])]
        ELSE [e EXCEPT !.list = Append(@, [op |-> XD3_CPY, len |-> n, addr |-> addr]),
                       !.apos = @ + 1,
                       !.cache = Update(@, addr)]

\* Mutant: the second half of a double opcode is not kept.
IterNextFirst(it, w) ==
  LET entry == DefaultCodeTable[w.inst[it.ipos + 1]]
  IN  ResolveHalf([it EXCEPT !.ipos = @ + 1], w, entry.type1, entry.size1)

\* next(): the half kept back, or the first half of the next opcode.
IterNext(it, w) ==
  IF it.second # <<>>
    THEN ResolveHalf([it EXCEPT !.second = <<>>], w, it.second[1], it.second[2])
    ELSE LET entry == DefaultCodeTable[w.inst[it.ipos + 1]]
         IN  ResolveHalf([it EXCEPT !.ipos = @ + 1,
                                    !.second = IF entry.type2 = XD3_NOOP THEN <<>>
                                               ELSE <<entry.type2, entry.size2>>],
                         w, entry.type1, entry.size1)

IterMore(it, w) == it.second # <<>> \/ it.ipos < Len(w.inst)
=============================================================================
