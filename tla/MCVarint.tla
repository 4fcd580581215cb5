------------------------------ MODULE MCVarint ------------------------------
(***************************************************************************)
(* A 5-bit u64 and a 3-bit u32 in digits of 2 bits: like 64 and 32 in      *)
(* digits of 7, the widths are no multiples of the digit and leave one bit *)
(* and more than one value for the first byte.  All numbers are written,   *)
(* all byte strings up to one byte more than the longest number are read.  *)
(***************************************************************************)
EXTENDS Varint

AllNumbers == 0 .. Wide - 1
AllStrings == SeqOf(Byte, MaxLen + 1)
FewTails == SeqOf(Byte, 1)
=============================================================================
