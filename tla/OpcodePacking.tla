---------------------------- MODULE OpcodePacking ---------------------------
(***************************************************************************)
(* Instructions into opcodes and back, for every type of the code table:   *)
(* WindowEncoder::emit_instruction on one side, the opcode loop of         *)
(* decode_window_with_cache on the other.  WindowCodec runs the same       *)
(* operators with real addresses, but it takes many COPYs to bring the     *)
(* address cache to a SAME mode; here the type is given.                   *)
(***************************************************************************)
EXTENDS WindowEncoder, WindowDecoder

CONSTANTS
  Sizes,      \* instruction sizes; from 1 past the largest in the table
  MaxInsts    \* bound: instructions of the window

VARIABLES
  e,          \* the encoder; only inst and pending are used
  given,      \* the instructions it was given
  finished,   \* finish_sections was called
  r,          \* the reader: a decoder of which only ipos is used
  halves      \* the instructions the reader found

vars == <<e, given, finished, r, halves>>

\* ADD, RUN and COPY in each mode.
Types == XD3_ADD .. XD3_CPY + CpyModes - 1

Init ==
  /\ e = NewEncoder(0, 0) /\ given = <<>> /\ finished = FALSE
  /\ r = NewDecoder(<<>>) /\ halves = <<>>

Emit(inst) ==
  /\ ~ finished
  /\ Len(given) < MaxInsts
  /\ e' = EmitInstruction(e, inst)
  /\ given' = Append(given, inst)
  /\ UNCHANGED <<finished, r, halves>>

Finish ==
  /\ ~ finished
  /\ finished' = TRUE
  /\ e' = FlushPending(e)
  /\ UNCHANGED <<given, r, halves>>

Half(type, size) == IF type = XD3_NOOP THEN <<>> ELSE <<[type |-> type, size |-> size]>>

\* One opcode: a size unit follows for each half that has size 0.
ReadOpcode ==
  /\ finished
  /\ r.ipos < Len(e.inst)
  /\ LET entry  == DefaultCodeTable[e.inst[r.ipos + 1]]
         opened == [r EXCEPT !.ipos = @ + 1]
         first  == Half(entry.type1, HalfSize(opened, e, entry.size1))
         middle == AfterSize(opened, entry.size1)
     IN  IF entry.type2 = XD3_NOOP
           THEN /\ halves' = halves \o first
                /\ r' = middle
           ELSE /\ halves' = halves \o first
                             \o Half(entry.type2, HalfSize(middle, e, entry.size2))
                /\ r' = AfterSize(middle, entry.size2)
  /\ UNCHANGED <<e, given, finished>>

Next ==
  \/ \E t \in Types, n \in Sizes : Emit([type |-> t, size |-> n])
  \/ Finish
  \/ ReadOpcode

Spec == Init /\ [][Next]_vars
-----------------------------------------------------------------------------
TypeOK ==
  /\ e.pending = <<>> \/ (Len(e.pending) = 1 /\ e.pending[1].type \in Types)
  /\ \A i \in 1 .. Len(e.inst) : e.inst[i] \in Nat
  /\ finished \in BOOLEAN
  /\ r.ipos \in 0 .. Len(e.inst)

\* The opcodes and sizes in the instruction section mean the instructions
\* given, in order: the arithmetic of choose_instruction and the loops of
\* build_default_code_table agree, and packing neither drops, repeats nor
\* reorders an instruction.  At most one instruction is ever pending (TypeOK).
OpcodesMeanProgram ==
  /\ TypeOK
  /\ IsPrefix(halves, given)
  /\ (finished /\ r.ipos = Len(e.inst)) => halves = given

\* The encoder uses all of the table: whatever is pending, its opcode is the
\* one made for its size if there is one, else the one that is followed by a
\* size; and every opcode made for it and a second instruction is the one
\* choose_instruction picks when that instruction comes.
TableIsChoice ==
  /\ DOMAIN DefaultCodeTable = 0 .. 255
  /\ e.pending # <<>> =>
       LET p     == e.pending[1]
           exact == {op \in 0 .. 255 : DefaultCodeTable[op] = Single(p.type, p.size)}
           pairs == {op \in 0 .. 255 : LET entry == DefaultCodeTable[op]
                                      IN  /\ entry.type1 = p.type /\ entry.size1 = p.size
                                          /\ entry.type2 # XD3_NOOP}
       IN  /\ IF exact # {} THEN exact = {Code1(p)}
                            ELSE DefaultCodeTable[Code1(p)] = Single(p.type, 0)
           /\ \A op \in pairs :
                LET entry == DefaultCodeTable[op]
                IN  Code2(e.pending, [type |-> entry.type2, size |-> entry.size2]) = op
=============================================================================
