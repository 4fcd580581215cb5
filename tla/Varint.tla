------------------------------- MODULE Varint -------------------------------
(***************************************************************************)
(* The variable-length integers of vcdiff/varint.rs: every length, offset  *)
(* and address of a delta is one of them.                                  *)
(*                                                                         *)
(* encode_u64 fills its scratch buffer from the end, one base-Radix digit  *)
(* per turn, marks every byte as followed by another and clears the mark   *)
(* of the last one.  The readers (read_u64, read_u32, read_usize over a    *)
(* slice and their stream_ forms over a Read) take a byte per turn, refuse *)
(* before a shift that would lose bits, and stop at the first byte without *)
(* the mark.                                                               *)
(*                                                                         *)
(* A behaviour either writes a number and reads the stream it was written  *)
(* to, in which other bytes follow or which was cut short, or reads a byte *)
(* string of any origin.  A byte is its digit and its mark (bit 7).        *)
(***************************************************************************)
EXTENDS Integers, Sequences, SequencesExt, FiniteSetsExt

CONSTANTS
    Shift, Radix,               \* 7 and 128: bits and values of a digit
    WideBits, Wide,             \* 64 and 2^64: u64
    NarrowBits, Narrow,         \* 32 and 2^32: u32
    MaxLen, NarrowLen,          \* 10 and 5: the longest u64 and u32
    Numbers,                    \* the numbers written
    Foreign, Tails              \* byte strings read, and what follows a number

VARIABLES
    kind,       \* the reader: "u64", "u32", "usize" of either width
    origin,     \* "written" by encode_u64 or "foreign"
    num,        \* the number to write
    rest,       \* the `num` that encode_u64 shifts right
    buf,        \* the bytes in the scratch buffer, from index i on
    quots,      \* history: the value of `num` at the turn that made each byte
    wire,       \* what the reader is given
    pos,        \* bytes the reader has taken
    val,        \* its accumulator
    pc          \* "write", "clear", "read", then the result of the reader

vars == <<kind, origin, num, rest, buf, quots, wire, pos, val, pc>>
writer == <<kind, origin, num, rest, buf, quots>>

ASSUME WidthAssumption ==
    /\ Shift \in Nat \ {0} /\ Radix = 2^Shift
    /\ WideBits \in Nat /\ Wide = 2^WideBits
    /\ NarrowBits \in Nat /\ Narrow = 2^NarrowBits
    /\ Shift < NarrowBits /\ NarrowBits < WideBits
    /\ MaxLen = (WideBits + Shift - 1) \div Shift
    /\ NarrowLen = (NarrowBits + Shift - 1) \div Shift

\* The part of WidthAssumption that the proofs use: a shift by one digit is
\* exact at both widths.
ASSUME DigitAssumption ==
    /\ Radix \in Nat /\ Radix > 1
    /\ Wide \in Nat /\ Wide % Radix = 0 /\ Wide > 0
    /\ Narrow \in Nat /\ Narrow % Radix = 0 /\ 0 < Narrow /\ Narrow <= Wide

Byte == [digit : 0 .. Radix - 1, more : BOOLEAN]

ASSUME StreamAssumption ==
    Numbers \subseteq 0 .. Wide - 1 /\ Foreign \subseteq Seq(Byte) /\ Tails \subseteq Seq(Byte)

Kinds == {"u64", "u32", "usize64", "usize32"}
Results == {"ok", "overflow", "underflow"}

----------------------------------------------------------------------------
(* Lengths *)

\* 64 - leading_zeros, at least 1
BitLength(n) == Max({1} \cup {b \in 1 .. WideBits : n >= 2^(b - 1)})

\* bits / 7 rounded down
sizeof_u64Floor(n) == Min({Max({BitLength(n) \div Shift, 1}), MaxLen})

sizeof_u64(n) == Min({(BitLength(n) + Shift - 1) \div Shift, MaxLen})

sizeof_u32(n) == Min({(BitLength(n) + Shift - 1) \div Shift, NarrowLen})

----------------------------------------------------------------------------
(* encode_u64 and write_u64, write_u32, write_usize *)

\* the loop tests `num` before the shift: one digit too many
EncodeDigitOnceMore ==
    /\ pc = "write"
    /\ buf' = <<[digit |-> rest % Radix, more |-> TRUE]>> \o buf
    /\ quots' = <<rest>> \o quots
    /\ rest' = rest \div Radix
    /\ pc' = IF rest = 0 THEN "clear" ELSE "write"
    /\ UNCHANGED <<kind, origin, num, wire, pos, val>>

\* the bytes before the last are not marked
EncodeDigitUnmarked ==
    /\ pc = "write"
    /\ buf' = <<[digit |-> rest % Radix, more |-> FALSE]>> \o buf
    /\ quots' = <<rest>> \o quots
    /\ rest' = rest \div Radix
    /\ pc' = IF rest' = 0 THEN "clear" ELSE "write"
    /\ UNCHANGED <<kind, origin, num, wire, pos, val>>

\* One turn of the loop
EncodeDigit ==
    /\ pc = "write"
    /\ buf' = <<[digit |-> rest % Radix, more |-> TRUE]>> \o buf
    /\ quots' = <<rest>> \o quots
    /\ rest' = rest \div Radix
    /\ pc' = IF rest' = 0 THEN "clear" ELSE "write"
    /\ UNCHANGED <<kind, origin, num, wire, pos, val>>

\* the mark of the last byte stays
WrittenMarked == buf

\* The mark of the last byte is cleared
Written == [buf EXCEPT ![Len(buf)].more = FALSE]

\* The bytes from i on are written; the stream the reader is given holds them
\* before other bytes, or was cut among them.
WriteAll ==
    /\ pc = "clear"
    /\ buf' = Written
    /\ \/ \E t \in Tails : wire' = buf' \o t
       \/ \E k \in 0 .. Len(buf) - 1 : wire' = SubSeq(buf', 1, k)
    /\ pc' = "read"
    /\ UNCHANGED <<kind, origin, num, rest, quots, pos, val>>

----------------------------------------------------------------------------
(* read_u64, read_u32 and their stream forms *)

\* The width of the accumulator: usize is read as u64 and narrowed at the end
Limit == IF kind = "u32" THEN Narrow ELSE Wide

\* try_from in read_usize and stream_read_usize
UsizeLimit == IF kind \in {"u32", "usize32"} THEN Narrow ELSE Wide

\* the highest bits only: the guard lets a value through that loses a bit
WouldOverflowLate == val >= 2 * (Limit \div Radix)

\* val & OVERFLOW_MASK # 0: one of the bits the next shift would lose is set
WouldOverflow == val >= Limit \div Radix

\* The loop ran out of bytes
ReadEnd ==
    /\ pc = "read" /\ pos = Len(wire)
    /\ pc' = "underflow"
    /\ UNCHANGED <<writer, wire, pos, val>>

ReadOverflow ==
    /\ pc = "read" /\ pos < Len(wire)
    /\ WouldOverflow
    /\ pc' = "overflow"
    /\ UNCHANGED <<writer, wire, pos, val>>

\* the narrowing of read_usize left out
ReadByteNoNarrow ==
    /\ pc = "read" /\ pos < Len(wire)
    /\ ~WouldOverflow
    /\ val' = (val * Radix + wire[pos + 1].digit) % Limit
    /\ pos' = pos + 1
    /\ pc' = IF wire[pos + 1].more THEN "read" ELSE "ok"
    /\ UNCHANGED <<writer, wire>>

\* A byte joins the accumulator; the one without the mark ends the number,
\* which then must fit its type.
ReadByte ==
    /\ pc = "read" /\ pos < Len(wire)
    /\ ~WouldOverflow
    /\ val' = (val * Radix + wire[pos + 1].digit) % Limit
    /\ pos' = pos + 1
    /\ pc' = IF wire[pos + 1].more THEN "read"
             ELSE IF val' < UsizeLimit THEN "ok" ELSE "overflow"
    /\ UNCHANGED <<writer, wire>>

----------------------------------------------------------------------------

Init ==
    /\ kind \in Kinds
    /\ buf = <<>> /\ quots = <<>> /\ pos = 0 /\ val = 0
    /\ \/ /\ origin = "written" /\ pc = "write"
          /\ num \in Numbers /\ rest = num /\ wire = <<>>
       \/ /\ origin = "foreign" /\ pc = "read"
          /\ wire \in Foreign /\ num = 0 /\ rest = 0

Next == EncodeDigit \/ WriteAll \/ ReadEnd \/ ReadOverflow \/ ReadByte

Spec == Init /\ [][Next]_vars

----------------------------------------------------------------------------
(* Properties *)

\* The value of a byte string: its digits in base Radix, most significant first
ValueOf(s) == FoldLeft(LAMBDA v, b : v * Radix + b.digit, 0, s)

TypeOK ==
    /\ kind \in Kinds /\ origin \in {"written", "foreign"}
    /\ num \in 0 .. Wide - 1 /\ rest \in 0 .. Wide - 1
    /\ buf \in Seq(Byte) /\ Len(buf) <= MaxLen
    /\ quots \in Seq(0 .. Wide - 1) /\ Len(quots) = Len(buf)
    /\ wire \in Seq(Byte)
    /\ pos \in 0 .. Len(wire) /\ val \in 0 .. Limit - 1
    /\ pc \in {"write", "clear", "read"} \cup Results

\* What encode_u64 writes, any reader reads back: the number itself with the
\* bytes of the number consumed and none of those that follow, or Overflow
\* when, and only when, the number does not fit the reader's type.
ReadsBack ==
    origin = "written" /\ pc \in Results /\ Len(wire) >= Len(buf)
    => IF num < UsizeLimit
       THEN pc = "ok" /\ val = num /\ pos = Len(buf)
       ELSE pc = "overflow"

\* A number whose last byte is lost is never read as another number.
CutNoticed ==
    origin = "written" /\ Len(wire) < Len(buf) => pc # "ok"

\* A reader accepts a byte string of any origin exactly when its first number
\* is complete and fits the type, and gives its exact value: nothing is lost
\* in a shift, and padding with leading zero digits is accepted at any length.
ForeignExact ==
    pc \in Results =>
    LET ends == {n \in 1 .. Len(wire) : ~wire[n].more}
        own == SubSeq(wire, 1, Min(ends))
    IN  IF ends = {} THEN pc = IF \E n \in 1 .. Len(wire) - 1 :
                                      ValueOf(SubSeq(wire, 1, n)) >= Limit \div Radix
                               THEN "overflow" ELSE "underflow"
        ELSE IF ValueOf(own) < UsizeLimit
             THEN pc = "ok" /\ val = ValueOf(own) /\ pos = Len(own)
             ELSE pc = "overflow"

\* sizeof_u64 and sizeof_u32, from which the encoder computes enc_len before
\* it writes a window header, give the length encode_u64 produces.  The scratch
\* buffer is never too short for what is put in it, and the accumulator of a
\* reader keeps its width (TypeOK).
SizeMatches ==
    /\ TypeOK
    /\ origin = "written" /\ pc \notin {"write", "clear"}
       => /\ Len(buf) = sizeof_u64(num)
          /\ num < Narrow => Len(buf) = sizeof_u32(num)

=============================================================================
