------------------------------ MODULE CodeTable -----------------------------
(***************************************************************************)
(* The 256-entry default code table of RFC 3284 and the encoder's choice   *)
(* of opcodes (src/src/vcdiff/code_table.rs).  The decoder reads the table *)
(* and never the arithmetic of choose_instruction; the encoder does the    *)
(* reverse, so the two must agree on all 256 entries.                      *)
(***************************************************************************)
EXTENDS Integers, Sequences, SequencesExt

XD3_NOOP == 0
XD3_ADD  == 1
XD3_RUN  == 2
XD3_CPY  == 3
MIN_MATCH == 4

AddSizes == 17
CpySizes == 15
CpyModes == 9
NearLimit == 6            \* modes below it are SELF, HERE and NEAR

Single(type, size) == [type1 |-> type, size1 |-> size, type2 |-> XD3_NOOP, size2 |-> 0]
Double(t1, s1, t2, s2) == [type1 |-> t1, size1 |-> s1, type2 |-> t2, size2 |-> s2]

\* <<f(lo), ..., f(hi)>>: one for loop of build_default_code_table.
Each(lo, hi, f(_)) == [i \in 1 .. hi - lo + 1 |-> f(lo + i - 1)]

CopySingles(mode) ==
  <<Single(XD3_CPY + mode, 0)>>
    \o Each(MIN_MATCH, MIN_MATCH + CpySizes - 1, LAMBDA n : Single(XD3_CPY + mode, n))

\* Mutant: SAME modes pack COPYs of 4 to 6 bytes as the others do.
AddCopiesLong(mode) ==
  FlattenSeq(Each(1, 4, LAMBDA add :
    Each(MIN_MATCH, 6, LAMBDA cpy : Double(XD3_ADD, add, XD3_CPY + mode, cpy))))

AddCopies(mode) ==
  FlattenSeq(Each(1, 4, LAMBDA add :
    Each(MIN_MATCH, IF mode < NearLimit THEN 6 ELSE 4,
         LAMBDA cpy : Double(XD3_ADD, add, XD3_CPY + mode, cpy))))

CopyAdds(mode) == <<Double(XD3_CPY + mode, 4, XD3_ADD, 1)>>

CodeEntries ==
  <<Single(XD3_RUN, 0), Single(XD3_ADD, 0)>>
    \o Each(1, AddSizes, LAMBDA n : Single(XD3_ADD, n))
    \o FlattenSeq(Each(0, CpyModes - 1, CopySingles))
    \o FlattenSeq(Each(0, CpyModes - 1, AddCopies))
    \o FlattenSeq(Each(0, CpyModes - 1, CopyAdds))

\* default_code_table: built once, indexed by opcode.
DefaultCodeTable == [op \in 0 .. Len(CodeEntries) - 1 |-> CodeEntries[op + 1]]

(***************************************************************************)
(* choose_instruction.  An instruction is [type, size]; the pending one is *)
(* a sequence of length at most one.  code2 is NoCode when no opcode packs *)
(* the pending instruction with this one.                                  *)
(***************************************************************************)
NoCode == -1

Code1(inst) ==
  CASE inst.type = XD3_RUN -> 0
    [] inst.type = XD3_ADD -> IF inst.size <= 17 THEN 1 + inst.size ELSE 1
    [] OTHER -> 19 + 16 * (inst.type - XD3_CPY)
                  + (IF inst.size \in 4 .. 18 THEN inst.size - 3 ELSE 0)

PackCopyAdd(prev, inst) ==
  /\ inst.type = XD3_ADD /\ inst.size = 1
  /\ prev.type >= XD3_CPY /\ prev.size = 4

PackAddNearCopy(prev, inst) ==
  /\ inst.type >= XD3_CPY /\ inst.size \in 4 .. 6 /\ inst.type - XD3_CPY <= 5
  /\ prev.type = XD3_ADD /\ prev.size <= 4

PackAddSameCopy(prev, inst) ==
  /\ inst.type >= XD3_CPY /\ inst.size = 4 /\ inst.type - XD3_CPY >= 6
  /\ prev.type = XD3_ADD /\ prev.size <= 4

Code2(pending, inst) ==
  IF pending = <<>> THEN NoCode
  ELSE LET prev == pending[1]
           mode == inst.type - XD3_CPY
       IN  CASE PackCopyAdd(prev, inst) -> 247 + (prev.type - XD3_CPY)
             [] PackAddNearCopy(prev, inst) ->
                  163 + mode * 12 + 3 * (prev.size - 1) + (inst.size - 4)
             [] PackAddSameCopy(prev, inst) ->
                  235 + (mode - 6) * 4 + (prev.size - 1)
             [] OTHER -> NoCode
=============================================================================
