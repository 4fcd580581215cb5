---------------------------- MODULE VarintProofs ----------------------------
(***************************************************************************)
(* For every radix and every pair of widths that hold a whole number of    *)
(* shifts, a number written by encode_u64 is read back by every reader or  *)
(* refused when it does not fit, and is never read from a cut stream.      *)
(*                                                                         *)
(* Neither property is inductive.  What makes them so is `quots': byte j   *)
(* carries the last digit of quots[j], each quots[j] is quots[j+1] without *)
(* that digit, the last is the number and the first has one digit.  So the *)
(* accumulator of a reader that has taken j bytes is quots[j], which needs *)
(* no power of the radix to say.                                           *)
(***************************************************************************)
EXTENDS Varint, TLAPS

\* The types that the steps need; the length of the buffer is left to TLC.
Shape ==
    /\ kind \in Kinds /\ origin \in {"written", "foreign"}
    /\ num \in 0 .. Wide - 1 /\ rest \in Nat
    /\ buf \in Seq(Byte) /\ quots \in Seq(Nat) /\ Len(quots) = Len(buf)
    /\ wire \in Seq(Byte)
    /\ pos \in 0 .. Len(wire) /\ val \in 0 .. Limit - 1
    /\ pc \in {"write", "clear", "read"} \cup Results
    /\ pc \in {"write", "clear"} => origin = "written"

\* The bytes in the buffer are the digits of the number.
Digits ==
    /\ \A j \in 1 .. Len(buf) : buf[j].digit = quots[j] % Radix /\ quots[j] <= num
    /\ \A j \in 1 .. Len(buf) - 1 : quots[j] = quots[j + 1] \div Radix
    /\ Len(buf) = 0 => rest = num
    /\ Len(buf) > 0 => quots[Len(buf)] = num /\ rest = quots[1] \div Radix

\* What is in the buffer before it is written,
Writing ==
    pc \in {"write", "clear"} =>
        /\ pos = 0 /\ val = 0
        /\ \A j \in 1 .. Len(buf) : buf[j].more
        /\ pc = "clear" => rest = 0 /\ Len(buf) > 0

\* and how the reader stands after.
Reading ==
    pc \notin {"write", "clear"} =>
        /\ rest = 0 /\ Len(buf) > 0
        /\ \A j \in 1 .. Len(buf) : buf[j].more = (j < Len(buf))
        /\ \A j \in 1 .. Len(buf) : j <= Len(wire) => wire[j] = buf[j]
        /\ pc = "read" => pos < Len(buf) /\ val = IF pos = 0 THEN 0 ELSE quots[pos]
        /\ pc = "ok" => pos = Len(buf) /\ val = num /\ num < UsizeLimit
        /\ pc = "overflow" => num >= UsizeLimit
        /\ pc = "underflow" => Len(wire) < Len(buf)

IInv == Shape /\ (origin = "written" => Digits /\ Writing /\ Reading)

-----------------------------------------------------------------------------
(* Arithmetic *)

\* Dropping the last digit and putting it back.
LEMMA DropDigit ==
    ASSUME NEW a \in Nat, NEW r \in Nat, r > 0
    PROVE  /\ a % r \in 0 .. r - 1 /\ a \div r \in Nat
           /\ (a \div r) * r + (a % r) = a
           /\ a \div r <= a
<1>1. a % r \in 0 .. r - 1 /\ a \div r \in Nat /\ (a \div r) * r + (a % r) = a
    OBVIOUS
<1>2. \A x \in Nat : x <= x * r
    OBVIOUS
<1> QED BY <1>1, <1>2

\* A product is monotonic in its first factor.
LEMMA ScaleUp ==
    ASSUME NEW a \in Nat, NEW b \in Nat, NEW r \in Nat, a <= b
    PROVE  a * r <= b * r
    OBVIOUS

\* The overflow mask at a width that is a multiple of the radix: a value below
\* it takes another digit without loss, any other does not fit with one more.
LEMMA MaskExact ==
    ASSUME NEW v \in Nat, NEW d \in 0 .. Radix - 1, NEW lim \in Nat,
           lim % Radix = 0, lim > 0
    PROVE  /\ lim \div Radix > 0
           /\ v < lim \div Radix => v * Radix + d \in 0 .. lim - 1
           /\ v >= lim \div Radix => v * Radix + d >= lim
<1> DEFINE top == lim \div Radix
<1>1. Radix \in Nat /\ Radix > 0
    BY DigitAssumption
<1>2. top \in Nat /\ top * Radix = lim
    BY <1>1, DropDigit
<1>3. top > 0
    BY <1>1, <1>2
<1> HIDE DEF top
<1>4. ASSUME v < top PROVE v * Radix + d \in 0 .. lim - 1
    <2>1. (v + 1) * Radix <= top * Radix
        BY <1>1, <1>2, <1>4, ScaleUp
    <2>2. (v + 1) * Radix = v * Radix + Radix
        BY <1>1
    <2>3. v * Radix \in Nat
        BY <1>1
    <2> QED BY <1>1, <1>2, <2>1, <2>2, <2>3
<1>5. ASSUME v >= top PROVE v * Radix + d >= lim
    <2>1. top * Radix <= v * Radix
        BY <1>1, <1>2, <1>5, ScaleUp
    <2>2. v * Radix \in Nat
        BY <1>1
    <2> QED BY <1>1, <1>2, <2>1, <2>2
<1> QED BY <1>3, <1>4, <1>5 DEF top

\* Both widths are such widths.
LEMMA Widths ==
    ASSUME kind \in Kinds
    PROVE  /\ Limit \in Nat /\ Limit % Radix = 0 /\ Limit > 0
           /\ UsizeLimit \in Nat /\ UsizeLimit <= Limit
    BY DigitAssumption DEF Limit, UsizeLimit, Kinds


-----------------------------------------------------------------------------
(* The invariant *)

\* Nothing is written or read at the start.
LEMMA InitIInv == Init => IInv
<1> SUFFICES ASSUME Init PROVE IInv
    OBVIOUS
<1>1. Shape
    <2>1. kind \in Kinds
        BY DEF Init
    <2>2. Limit \in Nat /\ Limit > 0
        BY <2>1, Widths
    <2>3. wire \in Seq(Byte)
        <3>1. CASE wire = <<>>
            BY <3>1
        <3>2. CASE wire \in Foreign
            BY <3>2, StreamAssumption
        <3> QED BY <3>1, <3>2 DEF Init
    <2>4. num \in 0 .. Wide - 1 /\ rest \in Nat
        <3>1. CASE num \in Numbers /\ rest = num
            BY <3>1, StreamAssumption, DigitAssumption
        <3>2. CASE num = 0 /\ rest = 0
            BY <3>2, DigitAssumption
        <3> QED BY <3>1, <3>2 DEF Init
    <2> QED BY <2>1, <2>2, <2>3, <2>4 DEF Init, Shape, Results
<1>2. origin = "written" => Digits /\ Writing /\ Reading
    BY DEF Init, Digits, Writing, Reading
<1> QED BY <1>1, <1>2 DEF IInv

\* A turn of the loop of encode_u64 puts the next digit before the others.
LEMMA EncodeDigitIInv == IInv /\ EncodeDigit => IInv'
<1> SUFFICES ASSUME IInv, EncodeDigit PROVE IInv'
    OBVIOUS
<1> DEFINE b == [digit |-> rest % Radix, more |-> TRUE]
<1>1. Radix \in Nat /\ Radix > 0
    BY DigitAssumption
<1>2. /\ buf \in Seq(Byte) /\ quots \in Seq(Nat) /\ Len(quots) = Len(buf)
      /\ rest \in Nat /\ num \in Nat
    BY DigitAssumption DEF IInv, Shape
<1>3. b \in Byte /\ rest \div Radix \in Nat
    BY <1>1, <1>2, DropDigit DEF Byte
<1>4. /\ buf' = <<b>> \o buf /\ quots' = <<rest>> \o quots
      /\ rest' = rest \div Radix /\ pc' \in {"clear", "write"}
      /\ pc' = "clear" => rest' = 0
      /\ UNCHANGED <<kind, origin, num, wire, pos, val>> /\ pc = "write"
    BY DEF EncodeDigit
<1> HIDE DEF b
<1>5. /\ buf' \in Seq(Byte) /\ Len(buf') = Len(buf) + 1
      /\ buf'[1] = b /\ \A j \in 2 .. Len(buf) + 1 : buf'[j] = buf[j - 1]
    BY <1>2, <1>3, <1>4
<1>6. /\ quots' \in Seq(Nat) /\ Len(quots') = Len(buf) + 1
      /\ quots'[1] = rest /\ \A j \in 2 .. Len(buf) + 1 : quots'[j] = quots[j - 1]
    BY <1>2, <1>4, SMTT(20)
<1>7. Shape'
    BY <1>2, <1>3, <1>4, <1>5, <1>6 DEF IInv, Shape, Limit
<1>8. ASSUME origin = "written" PROVE Digits'
    <2>1. Digits
        BY <1>8 DEF IInv
    <2>2. rest <= num
        <3>1. CASE Len(buf) = 0
            BY <3>1, <1>2, <2>1 DEF Digits
        <3>2. CASE Len(buf) # 0
            <4>1. quots[1] \in Nat /\ quots[1] <= num /\ rest = quots[1] \div Radix
                BY <3>2, <1>2, <2>1 DEF Digits
            <4>2. quots[1] \div Radix <= quots[1]
                BY <1>1, <4>1, DropDigit
            <4> QED BY <1>2, <4>1, <4>2
        <3> QED BY <3>1, <3>2
    <2>3. b.digit = rest % Radix
        BY DEF b
    <2>4. \A j \in 1 .. Len(buf') : buf'[j].digit = quots'[j] % Radix /\ quots'[j] <= num'
        <3> SUFFICES ASSUME NEW j \in 1 .. Len(buf')
                     PROVE  buf'[j].digit = quots'[j] % Radix /\ quots'[j] <= num'
            OBVIOUS
        <3>1. CASE j = 1
            BY <3>1, <1>4, <1>5, <1>6, <2>2, <2>3, SMTT(20)
        <3>2. CASE j # 1
            <4>1. j \in 2 .. Len(buf) + 1 /\ j - 1 \in 1 .. Len(buf)
                BY <3>2, <1>2, <1>5
            <4> QED BY <4>1, <1>4, <1>5, <1>6, <2>1, SMTT(20) DEF Digits
        <3> QED BY <3>1, <3>2
    <2>5. \A j \in 1 .. Len(buf') - 1 : quots'[j] = quots'[j + 1] \div Radix
        <3> SUFFICES ASSUME NEW j \in 1 .. Len(buf)
                     PROVE  quots'[j] = quots'[j + 1] \div Radix
            BY <1>2, <1>5
        <3>1. quots'[j + 1] = quots[j]
            BY <1>2, <1>6
        <3>2. CASE j = 1
            BY <3>1, <3>2, <1>2, <1>6, <2>1, SMTT(20) DEF Digits
        <3>3. CASE j # 1
            <4>1. j \in 2 .. Len(buf) + 1 /\ j - 1 \in 1 .. Len(buf) - 1 /\ j - 1 + 1 = j
                BY <3>3, <1>2
            <4> QED BY <4>1, <3>1, <1>6, <2>1, SMTT(20) DEF Digits
        <3> QED BY <3>2, <3>3
    <2>6. quots'[Len(buf')] = num'
        <3>1. CASE Len(buf) = 0
            BY <3>1, <1>4, <1>5, <1>6, <2>1, SMTT(20) DEF Digits
        <3>2. CASE Len(buf) # 0
            <4>1. Len(buf) + 1 \in 2 .. Len(buf) + 1 /\ Len(buf) > 0 /\ Len(buf) + 1 - 1 = Len(buf)
                BY <3>2, <1>2
            <4>2. quots'[Len(buf) + 1] = quots[Len(buf) + 1 - 1]
                BY <4>1, <1>6
            <4> QED BY <4>1, <4>2, <1>4, <1>5, <2>1 DEF Digits
        <3> QED BY <3>1, <3>2
    <2> QED BY <2>4, <2>5, <2>6, <1>2, <1>4, <1>5, <1>6, SMTT(20) DEF Digits
<1>9. ASSUME origin = "written" PROVE Writing' /\ Reading'
    <2>1. Writing
        BY <1>9 DEF IInv
    <2>2. \A j \in 1 .. Len(buf') : buf'[j].more
        <3> SUFFICES ASSUME NEW j \in 1 .. Len(buf') PROVE buf'[j].more
            OBVIOUS
        <3>1. CASE j = 1
            BY <3>1, <1>5 DEF b
        <3>2. CASE j # 1
            <4>1. j \in 2 .. Len(buf) + 1 /\ j - 1 \in 1 .. Len(buf)
                BY <3>2, <1>2, <1>5
            <4> QED BY <4>1, <1>4, <1>5, <2>1, SMTT(20) DEF Writing
        <3> QED BY <3>1, <3>2
    <2> QED BY <2>1, <2>2, <1>2, <1>4, <1>5, SMTT(20) DEF Writing, Reading
<1> QED BY <1>4, <1>7, <1>8, <1>9 DEF IInv

\* write_all: the buffer leaves with its last mark cleared.
LEMMA WriteAllIInv == IInv /\ WriteAll => IInv'
<1> SUFFICES ASSUME IInv, WriteAll PROVE IInv'
    OBVIOUS
<1>1. /\ buf \in Seq(Byte) /\ quots \in Seq(Nat) /\ Len(quots) = Len(buf)
      /\ pc = "clear" /\ pc' = "read" /\ buf' = Written
      /\ UNCHANGED <<kind, origin, num, rest, quots, pos, val>>
    BY DEF IInv, Shape, WriteAll
<1>2. /\ buf' \in Seq(Byte) /\ Len(buf') = Len(buf)
      /\ \A j \in 1 .. Len(buf) : /\ buf'[j].digit = buf[j].digit
                                  /\ j # Len(buf) => buf'[j] = buf[j]
                                  /\ j = Len(buf) => ~buf'[j].more
    <2>1. ASSUME NEW j \in 1 .. Len(buf)
          PROVE  /\ Written[j] = IF j = Len(buf) THEN [buf[j] EXCEPT !.more = FALSE] ELSE buf[j]
                 /\ Written[j] \in Byte
        <3>1. buf[j] \in Byte
            BY <1>1
        <3>2. Written[j] = IF j = Len(buf) THEN [buf[j] EXCEPT !.more = FALSE] ELSE buf[j]
            <4>1. Len(buf) \in Nat /\ DOMAIN buf = 1 .. Len(buf)
                BY <1>1
            <4> QED BY <4>1, Zenon DEF Written
        <3>3. [buf[j] EXCEPT !.more = FALSE] \in Byte
            BY <3>1 DEF Byte
        <3> QED BY <3>1, <3>2, <3>3
    <2>2. DOMAIN Written = 1 .. Len(buf)
        BY <1>1 DEF Written
    <2>3. Written = [j \in 1 .. Len(buf) |-> Written[j]]
        BY <1>1, <2>2 DEF Written
    <2>4. Written \in Seq(Byte) /\ Len(Written) = Len(buf)
        BY <1>1, <2>1, <2>2, <2>3
    <2> QED BY <1>1, <2>1, <2>4 DEF Byte
<1>3. /\ wire' \in Seq(Byte)
      /\ \A j \in 1 .. Len(buf) : j <= Len(wire') => wire'[j] = buf'[j]
    <2>1. CASE \E t \in Tails : wire' = buf' \o t
        BY <2>1, <1>1, <1>2, StreamAssumption
    <2>2. CASE \E k \in 0 .. Len(buf) - 1 : wire' = SubSeq(buf', 1, k)
        BY <2>2, <1>1, <1>2
    <2> QED BY <2>1, <2>2 DEF WriteAll
<1>4. origin = "written"
    BY <1>1 DEF IInv, Shape
<1>5. IInv'
    <2>1. Digits /\ Writing
        BY <1>4 DEF IInv
    <2>2. pos = 0 /\ val = 0 /\ rest = 0 /\ Len(buf) > 0 /\ \A j \in 1 .. Len(buf) : buf[j].more
        BY <1>1, <2>1 DEF Writing
    <2>3. Shape'
        BY <1>1, <1>2, <1>3, <2>2 DEF IInv, Shape, Limit
    <2>4. Digits'
        BY <1>1, <1>2, <2>1 DEF Digits
    <2>5. \A j \in 1 .. Len(buf') : buf'[j].more = (j < Len(buf'))
        <3> SUFFICES ASSUME NEW j \in 1 .. Len(buf) PROVE buf'[j].more = (j < Len(buf))
            BY <1>2
        <3>1. buf'[j].more \in BOOLEAN
            <4>1. buf'[j] \in Byte
                BY <1>2
            <4> QED BY <4>1 DEF Byte
        <3>2. CASE j = Len(buf)
            BY <3>1, <3>2, <1>1, <1>2
        <3>3. CASE j # Len(buf)
            <4>1. j < Len(buf)
                BY <3>3, <1>1
            <4>2. buf'[j].more
                BY <3>3, <1>2, <2>2
            <4> QED BY <3>1, <4>1, <4>2
        <3> QED BY <3>2, <3>3
    <2>6. Writing' /\ Reading'
        BY <1>1, <1>2, <1>3, <2>2, <2>5 DEF Writing, Reading
    <2> QED BY <2>3, <2>4, <2>6 DEF IInv
<1> QED BY <1>5

\* The end of the input before the last byte: the stream was cut.
LEMMA ReadEndIInv == IInv /\ ReadEnd => IInv'
    BY DEF IInv, ReadEnd, Shape, Digits, Writing, Reading, writer, Limit, UsizeLimit, Results

\* The mask refuses only a number that does not fit.
LEMMA ReadOverflowIInv == IInv /\ ReadOverflow => IInv'
<1> SUFFICES ASSUME IInv, ReadOverflow PROVE IInv'
    OBVIOUS
<1>1. /\ pc = "read" /\ pc' = "overflow" /\ val >= Limit \div Radix /\ pos < Len(wire)
      /\ UNCHANGED <<kind, origin, num, rest, buf, quots, wire, pos, val>>
    BY DEF ReadOverflow, WouldOverflow, writer
<1>2. Shape'
    BY <1>1 DEF IInv, Shape, Limit, Results
<1>3. ASSUME origin = "written" PROVE num >= UsizeLimit
    <2>1. Digits /\ Reading /\ kind \in Kinds /\ num \in Nat /\ pos \in Nat /\ buf \in Seq(Byte)
            /\ quots \in Seq(Nat) /\ Len(quots) = Len(buf) /\ val \in Nat
        BY <1>3, DigitAssumption, Widths DEF IInv, Shape
    <2>2. Limit \div Radix > 0
        BY <2>1, Widths, MaskExact, DigitAssumption
    <2>3. pos > 0 /\ pos < Len(buf) /\ val = quots[pos]
        BY <1>1, <2>1, <2>2, Widths, DropDigit, DigitAssumption DEF Reading
    <2>4. pos + 1 \in 1 .. Len(buf) /\ pos \in 1 .. Len(buf) - 1
        BY <2>1, <2>3
    <2>5. quots[pos + 1] \in Nat /\ quots[pos + 1] <= num /\ val = quots[pos + 1] \div Radix
        BY <2>1, <2>3, <2>4 DEF Digits
    <2>6. /\ val * Radix + (quots[pos + 1] % Radix) = quots[pos + 1]
          /\ quots[pos + 1] % Radix \in 0 .. Radix - 1
        <3>1. Radix \in Nat /\ Radix > 0
            BY DigitAssumption
        <3> QED BY <2>5, <3>1, DropDigit
    <2>7. quots[pos + 1] >= Limit
        BY <1>1, <2>1, <2>6, MaskExact, Widths
    <2> QED BY <2>1, <2>5, <2>7, Widths
<1>4. ASSUME origin = "written" PROVE Digits' /\ Writing' /\ Reading'
    BY <1>1, <1>3, <1>4 DEF IInv, Digits, Writing, Reading, UsizeLimit
<1> QED BY <1>1, <1>2, <1>4 DEF IInv

\* A byte joins the accumulator, which becomes the next quotient; at the last
\* byte that is the number.
LEMMA ReadByteIInv == IInv /\ ReadByte => IInv'
<1> SUFFICES ASSUME IInv, ReadByte PROVE IInv'
    OBVIOUS
<1> DEFINE d == wire[pos + 1].digit
           v == val * Radix + d
<1>1. /\ kind \in Kinds /\ pos \in Nat /\ wire \in Seq(Byte)
      /\ buf \in Seq(Byte) /\ quots \in Seq(Nat) /\ Len(quots) = Len(buf)
      /\ num \in Nat
    BY DigitAssumption DEF IInv, Shape
<1>2. /\ pc = "read" /\ pos < Len(wire) /\ val < Limit \div Radix
      /\ UNCHANGED <<kind, origin, num, rest, buf, quots, wire>>
      /\ pos' = pos + 1
    <2>1. val \in Nat /\ Limit \div Radix \in Nat
        <3>1. Radix \in Nat /\ Radix > 0 /\ Limit \in Nat
            BY <1>1, DigitAssumption, Widths
        <3>2. Limit \div Radix \in Nat
            BY <3>1, DropDigit
        <3> QED BY <3>1, <3>2 DEF IInv, Shape
    <2> QED BY <2>1 DEF ReadByte, WouldOverflow, writer
<1>3. wire[pos + 1] \in Byte /\ d \in 0 .. Radix - 1
    <2>1. wire[pos + 1] \in Byte
        BY <1>1, <1>2
    <2> QED BY <2>1 DEF Byte
<1>4. val \in Nat /\ v \in 0 .. Limit - 1 /\ Limit \in Nat /\ Limit > 0
    <2>1. val \in Nat /\ Limit \in Nat /\ Limit % Radix = 0 /\ Limit > 0
        BY <1>1, Widths DEF IInv, Shape
    <2> QED BY <1>2, <1>3, <2>1, MaskExact
<1>5. val' = v
    <2>1. val' = v % Limit
        BY DEF ReadByte
    <2>2. v % Limit = v
        BY <1>4
    <2> QED BY <2>1, <2>2
<1>6. pc' = IF wire[pos + 1].more THEN "read" ELSE IF v < UsizeLimit THEN "ok" ELSE "overflow"
    BY <1>5 DEF ReadByte
<1> HIDE DEF v
<1>7. Shape'
    BY <1>1, <1>2, <1>4, <1>5, <1>6, SMTT(20) DEF IInv, Shape, Limit, Results
<1>8. ASSUME origin = "written" PROVE Digits' /\ Writing' /\ Reading'
    <2>1. Digits /\ Reading
        BY <1>8 DEF IInv
    <2>2. /\ pos < Len(buf) /\ val = IF pos = 0 THEN 0 ELSE quots[pos]
          /\ pos + 1 \in 1 .. Len(buf) /\ rest = 0
        BY <1>1, <1>2, <2>1 DEF Reading
    <2>3. wire[pos + 1] = buf[pos + 1] /\ wire[pos + 1].more = (pos + 1 < Len(buf))
        BY <1>1, <1>2, <2>1, <2>2, SMTT(20) DEF Reading
    <2>4. quots[pos + 1] \in Nat /\ d = quots[pos + 1] % Radix
        BY <1>1, <2>1, <2>2, <2>3, SMTT(20) DEF Digits
    <2>5. val = quots[pos + 1] \div Radix
        <3>1. CASE pos = 0
            BY <3>1, <1>1, <2>1, <2>2, SMTT(20) DEF Digits
        <3>2. CASE pos # 0
            <4>1. pos \in 1 .. Len(buf) - 1
                BY <3>2, <1>1, <2>2
            <4> QED BY <3>2, <4>1, <2>1, <2>2, SMTT(20) DEF Digits
        <3> QED BY <3>1, <3>2
    <2>6. v = quots[pos + 1]
        <3>1. Radix \in Nat /\ Radix > 0
            BY DigitAssumption
        <3> QED BY <3>1, <2>4, <2>5, DropDigit DEF v
    <2>7. Digits'
        BY <1>2, <2>1 DEF Digits
    <2>8. CASE wire[pos + 1].more
        <3>1. pc' = "read" /\ pos + 1 < Len(buf)
            BY <1>6, <2>3, <2>8
        <3>2. val' = IF pos' = 0 THEN 0 ELSE quots'[pos']
            BY <1>1, <1>2, <1>5, <2>6
        <3> QED BY <1>1, <1>2, <2>1, <2>2, <2>7, <3>1, <3>2 DEF Writing, Reading
    <2>9. CASE ~wire[pos + 1].more
        <3>1. pos + 1 = Len(buf)
            <4>1. ~(pos + 1 < Len(buf))
                BY <2>3, <2>9, Zenon
            <4> QED BY <1>1, <2>2, <4>1
        <3>2. v = num
            BY <1>1, <2>1, <2>2, <2>6, <3>1, SMTT(20) DEF Digits
        <3>3. pc' = IF num < UsizeLimit THEN "ok" ELSE "overflow"
            BY <1>6, <2>9, <3>2
        <3>4. UsizeLimit' = UsizeLimit /\ UsizeLimit \in Nat
            BY <1>1, <1>2, Widths DEF UsizeLimit
        <3>5. pc' \in {"ok", "overflow"} /\ pos' = Len(buf') /\ val' = num'
            BY <1>1, <1>2, <1>5, <3>1, <3>2, <3>3, SMTT(20)
        <3>6. pc' = "ok" => num' < UsizeLimit'
            BY <1>2, <3>3, <3>4
        <3>7. pc' = "overflow" => num' >= UsizeLimit'
            BY <1>1, <1>2, <3>3, <3>4
        <3>8. /\ rest' = 0 /\ Len(buf') > 0
              /\ \A j \in 1 .. Len(buf') : buf'[j].more = (j < Len(buf'))
              /\ \A j \in 1 .. Len(buf') : j <= Len(wire') => wire'[j] = buf'[j]
            BY <1>2, <2>1, <2>2 DEF Reading
        <3> QED BY <2>7, <3>5, <3>6, <3>7, <3>8 DEF Writing, Reading
    <2> QED BY <2>8, <2>9
<1> QED BY <1>2, <1>7, <1>8 DEF IInv

\* The invariant holds throughout.
THEOREM Invariant == Spec => []IInv
<1>1. IInv /\ UNCHANGED vars => IInv'
    BY DEF IInv, vars, Shape, Digits, Writing, Reading, Limit, UsizeLimit
<1>2. IInv /\ [Next]_vars => IInv'
    BY <1>1, EncodeDigitIInv, WriteAllIInv, ReadEndIInv, ReadOverflowIInv, ReadByteIInv DEF Next
<1> QED BY <1>2, InitIInv, PTL DEF Spec

\* What encode_u64 writes, every reader gives back, with the bytes of the
\* number consumed, or refuses with Overflow when it does not fit its type:
\* for every radix and every two widths.
THEOREM WrittenReadsBack == Spec => []ReadsBack
<1>1. IInv => ReadsBack
    BY Widths, DigitAssumption DEF IInv, Shape, Reading, ReadsBack, Results
<1> QED BY <1>1, Invariant, PTL

\* A number whose last byte is lost is never read as a number.
THEOREM CutIsNoticed == Spec => []CutNoticed
<1>1. IInv => CutNoticed
    BY DEF IInv, Shape, Reading, CutNoticed
<1> QED BY <1>1, Invariant, PTL
=============================================================================
