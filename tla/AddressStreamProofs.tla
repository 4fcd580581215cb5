------------------------ MODULE AddressStreamProofs -------------------------
(***************************************************************************)
(* Proofs about AddressStream, for every size of the two caches, every     *)
(* short limit and every set of window and instruction lengths.            *)
(*                                                                         *)
(* The heart is EncodeDecode: with the same cache and position, decode     *)
(* undoes encode.  What makes it an invariant of the stream is that the    *)
(* two caches really are the same at that point (CachesInStep), which is   *)
(* inductive only together with Recorded: the history `sent' tells, for    *)
(* each item still on the wire, the cache and the position before it, and  *)
(* those after it are what the decoder will compute.                       *)
(***************************************************************************)
EXTENDS AddressStream, TLAPS, WellFoundedInduction, NaturalsInduction, SequenceTheorems

-----------------------------------------------------------------------------
(* Numbers.                                                                *)

\* Quotient and remainder of the division used to index the SAME cache.
LEMMA DivMod ==
  ASSUME NEW a \in Nat, NEW w \in Nat \ {0}
  PROVE  /\ a % w \in 0 .. w - 1
         /\ a \div w \in Nat
         /\ (a \div w) * w + (a % w) = a
  OBVIOUS

\* Multiplication by a natural number is monotonic.
LEMMA TimesMonotonic ==
  ASSUME NEW a \in Nat, NEW b \in Nat, NEW w \in Nat, a <= b
  PROVE  a * w <= b * w
  OBVIOUS

\* A number below s groups of w entries lies in one of the first s groups.
LEMMA GroupBound ==
  ASSUME NEW a \in Nat, NEW s \in Nat, NEW w \in Nat \ {0}, a < s * w
  PROVE  a \div w \in 0 .. s - 1
<1>1. (a \div w) * w <= a
  BY DivMod
<1>2. a \div w \in Nat
  BY DivMod
<1>3. ASSUME s <= a \div w PROVE FALSE
  <2>1. s * w <= (a \div w) * w
    BY <1>2, <1>3, TimesMonotonic
  <2> QED BY <1>1, <1>2, <2>1
<1> QED BY <1>2, <1>3

\* Min picks a least element of a nonempty set of natural numbers.
LEMMA MinIn ==
  ASSUME NEW S \in SUBSET Nat, S # {}
  PROVE  /\ Min(S) \in S
         /\ \A y \in S : Min(S) <= y
<1>1. PICK x \in S : \A y \in S : ~ (<<y, x>> \in OpToRel(<, Nat))
  BY NatLessThanWellFounded, WFMin
<1>2. ASSUME NEW y \in S PROVE x <= y
  <2>1. ~ (y < x)
    BY <1>1 DEF OpToRel
  <2> QED BY <2>1
<1> QED
  BY <1>2 DEF Min

-----------------------------------------------------------------------------
(* The cache.                                                              *)

\* An address has its place in the SAME cache, in one of the SSame groups.
LEMMA SameIndex ==
  ASSUME NEW addr \in Nat, SSame > 0
  PROVE  /\ SameSize \in Nat \ {0}
         /\ addr % SameSize \in 0 .. SameSize - 1
         /\ (addr % SameSize) \div SameWidth \in 0 .. SSame - 1
         /\ (addr % SameSize) % SameWidth \in 0 .. SameWidth - 1
         /\ ((addr % SameSize) \div SameWidth) * SameWidth
               + ((addr % SameSize) % SameWidth) = addr % SameSize
<1>1. SameSize \in Nat \ {0}
  BY CacheSizes DEF SameSize
<1>2. addr % SameSize \in 0 .. SameSize - 1
  BY <1>1, DivMod
<1>3. (addr % SameSize) \div SameWidth \in 0 .. SSame - 1
  <2>1. addr % SameSize \in Nat /\ addr % SameSize < SSame * SameWidth
    BY <1>1, <1>2 DEF SameSize
  <2> QED BY <2>1, GroupBound, CacheSizes
<1> QED BY <1>1, <1>2, <1>3, DivMod, CacheSizes

\* with_sizes and init give a cache of the right shape.
LEMMA FreshCacheType == FreshCache \in Cache
  BY CacheSizes DEF FreshCache, Cache

\* update keeps the shape: its two indices are in bounds.
LEMMA UpdateType ==
  ASSUME NEW c \in Cache, NEW addr \in Nat
  PROVE  Update(c, addr) \in Cache
<1>1. SNear > 0 => (c.next + 1) % SNear \in 0 .. SNear - 1
  <2>1. c.next + 1 \in Nat
    BY CacheSizes DEF Cache
  <2> QED BY <2>1, CacheSizes, DivMod
<1> QED
  BY <1>1, CacheSizes, SameIndex DEF Cache, Update

\* Every usable mode gives back the address from the value it is written with.
LEMMA VarintFormDecodes ==
  ASSUME NEW c \in Cache, NEW here \in Nat, NEW addr \in 0 .. here - 1,
         NEW m \in Usable(c, addr)
  PROVE  /\ m \in 0 .. SameStart - 1
         /\ Distance(c, addr, here, m) \in Nat
         /\ DecodedAddr(c, m, Distance(c, addr, here, m), here) = addr
<1> USE CacheSizes DEF VCD_SELF, VCD_HERE
<1>1. m \in 0 .. SameStart - 1
  BY DEF Usable, VarintModes
<1>2. CASE m = 0
  BY <1>1, <1>2 DEF Distance, DecodedAddr
<1>3. CASE m = 1
  BY <1>1, <1>3 DEF Distance, DecodedAddr
<1>4. CASE m \notin {0, 1}
  <2>1. m \in 2 .. SameStart - 1 /\ m - 2 \in 0 .. SNear - 1
    BY <1>1, <1>4 DEF SameStart
  <2>2. c.near[m - 2] \in Nat /\ c.near[m - 2] <= addr
    BY <1>4, <2>1 DEF Usable, Cache
  <2>3. Distance(c, addr, here, m) = addr - c.near[m - 2]
    BY <1>4 DEF Distance
  <2>4. DecodedAddr(c, m, addr - c.near[m - 2], here) = c.near[m - 2] + (addr - c.near[m - 2])
    BY <1>4, <2>1 DEF DecodedAddr
  <2> QED BY <1>1, <2>2, <2>3, <2>4
<1> QED BY <1>2, <1>3, <1>4

\* decode undoes encode: with the same cache and position the decoder gets
\* the encoder's address back, whichever mode encode preferred; and what is
\* written fits the format.
THEOREM EncodeDecode ==
  ASSUME NEW c \in Cache, NEW here \in Nat, NEW addr \in 0 .. here - 1
  PROVE  /\ Encode(c, addr, here).mode \in 0 .. ModeCount - 1
         /\ Encode(c, addr, here).val \in Nat
         /\ Encode(c, addr, here).mode >= SameStart
              => Encode(c, addr, here).val < SameWidth
         /\ DecodedAddr(c, Encode(c, addr, here).mode,
                           Encode(c, addr, here).val, here) = addr
<1> DEFINE short == ShortModes(c, addr, here)
           nearest == NearestModes(c, addr, here)
           idx == addr % SameSize
<1> SameStart \in Nat /\ ModeCount = SameStart + SSame /\ SSame \in Nat
  BY CacheSizes DEF SameStart, ModeCount
<1>1. ASSUME NEW m \in Usable(c, addr),
             Encode(c, addr, here) = VarintForm(c, addr, here, m)
      PROVE  /\ Encode(c, addr, here).mode = m
             /\ Encode(c, addr, here).val = Distance(c, addr, here, m)
             /\ m < SameStart
  BY <1>1, VarintFormDecodes DEF VarintForm
<1>2. CASE short # {}
  <2>1. short \in SUBSET Nat /\ short \subseteq Usable(c, addr)
    BY DEF ShortModes, Usable, VarintModes
  <2>2. Min(short) \in Usable(c, addr)
    BY <1>2, <2>1, MinIn
  <2>3. Encode(c, addr, here) = VarintForm(c, addr, here, Min(short))
    BY <1>2 DEF Encode
  <2> QED BY <1>1, <2>2, <2>3, VarintFormDecodes
<1>3. CASE short = {} /\ SameHit(c, addr)
  <2>1. /\ Encode(c, addr, here).mode = SameStart + (idx \div SameWidth)
        /\ Encode(c, addr, here).val = idx % SameWidth
    BY <1>3 DEF Encode
  <2>2. /\ idx \div SameWidth \in 0 .. SSame - 1
        /\ idx % SameWidth \in 0 .. SameWidth - 1
        /\ (idx \div SameWidth) * SameWidth + (idx % SameWidth) = idx
    BY <1>3, SameIndex, CacheSizes DEF SameHit
  <2>3. c.same[idx] = addr
    BY <1>3 DEF SameHit
  <2> HIDE DEF idx
  <2>4. ASSUME NEW g \in 0 .. SSame - 1, NEW v \in Nat
        PROVE  DecodedAddr(c, SameStart + g, v, here) = c.same[g * SameWidth + v]
    <3>1. (SameStart + g) - SameStart = g
      OBVIOUS
    <3>2. SameStart + g # 0 /\ SameStart + g # 1 /\ SameStart + g \notin 2 .. SameStart - 1
      BY CacheSizes DEF SameStart
    <3> QED BY <3>1, <3>2 DEF DecodedAddr, VCD_SELF, VCD_HERE
  <2>5. DecodedAddr(c, SameStart + (idx \div SameWidth), idx % SameWidth, here) = addr
    BY <2>2, <2>3, <2>4
  <2> QED BY <2>1, <2>2, <2>5, CacheSizes
<1>4. CASE short = {} /\ ~ SameHit(c, addr)
  <2> DEFINE D == {Distance(c, addr, here, m) : m \in Usable(c, addr)}
  <2>1. D \in SUBSET Nat
    BY VarintFormDecodes
  <2>2. VCD_SELF \in Usable(c, addr)
    BY CacheSizes DEF Usable, VarintModes, VCD_SELF, SameStart
  <2>3. D # {}
    BY <2>2
  <2>4. PICK m \in Usable(c, addr) : Distance(c, addr, here, m) = Min(D)
    BY <2>1, <2>3, MinIn
  <2>5. m \in nearest
    BY <2>1, <2>3, <2>4, MinIn DEF NearestModes
  <2>6. nearest \in SUBSET Nat /\ nearest \subseteq Usable(c, addr)
    BY DEF NearestModes, Usable, VarintModes
  <2>7. Min(nearest) \in Usable(c, addr)
    BY <2>5, <2>6, MinIn
  <2>8. Encode(c, addr, here) = VarintForm(c, addr, here, Min(nearest))
    BY <1>4 DEF Encode
  <2> QED BY <1>1, <2>7, <2>8, VarintFormDecodes
<1> QED BY <1>2, <1>3, <1>4

-----------------------------------------------------------------------------
(* The stream.                                                             *)

\* Cache and position before item i; past the end, the encoder's present ones.
CacheBefore(i) == IF i <= Len(wire) THEN sent[i].cache ELSE enc
HereBefore(i)  == IF i <= Len(wire) THEN sent[i].here ELSE encHere

\* What the decoder will make of item i, if it starts where the encoder was.
RecordedItem(i) ==
  CASE wire[i].kind = "window" ->
         /\ sent[i].addr = 0
         /\ CacheBefore(i + 1) = FreshCache
         /\ HereBefore(i + 1) = wire[i].len
    [] wire[i].kind = "literal" ->
         /\ sent[i].addr = 0
         /\ CacheBefore(i + 1) = sent[i].cache
         /\ HereBefore(i + 1) = sent[i].here + wire[i].len
    [] OTHER ->
         /\ sent[i].addr \in 0 .. sent[i].here - 1
         /\ wire[i].mode = Encode(sent[i].cache, sent[i].addr, sent[i].here).mode
         /\ wire[i].val = Encode(sent[i].cache, sent[i].addr, sent[i].here).val
         /\ CacheBefore(i + 1) = Update(sent[i].cache, sent[i].addr)
         /\ HereBefore(i + 1) = sent[i].here + wire[i].len

Recorded ==
  /\ Len(sent) = Len(wire)
  /\ \A i \in 1 .. Len(wire) : RecordedItem(i)

InStep == dec = CacheBefore(pos + 1) /\ decHere = HereBefore(pos + 1)

StreamInv ==
  /\ TypeOK
  /\ Recorded
  /\ InStep
  /\ AddressesSurvive
  /\ FormsFit

\* The fields of a recorded item have their types.
LEMMA SentFields ==
  ASSUME TypeOK, NEW i \in 1 .. Len(sent)
  PROVE  sent[i].addr \in Nat /\ sent[i].cache \in Cache /\ sent[i].here \in Nat
<1>1. sent \in Seq(Sent)
  BY DEF TypeOK
<1>2. sent[i] \in Sent
  BY <1>1
<1> QED BY <1>2 DEF Sent

\* The inductive form of `in step' gives the invariant the runs check.
LEMMA InStepIsCachesInStep ==
  ASSUME TypeOK, AddressesSurvive, Recorded
  PROVE  InStep <=> CachesInStep
  BY DEF InStep, CachesInStep, CacheBefore, HereBefore, TypeOK, AddressesSurvive, Recorded

\* Appending an item, with the cache and position before it as history, keeps
\* the history right for all earlier items.
LEMMA WriteKeepsRecord ==
  ASSUME TypeOK, Recorded, InStep, AddressesSurvive, FormsFit,
         NEW kind \in {"window", "literal", "copy"}, NEW len \in Nat,
         NEW mode \in 0 .. ModeCount - 1, NEW val \in Nat, NEW addr \in Nat,
         mode >= SameStart => val < SameWidth,
         Write(kind, len, mode, val, addr),
         enc' \in Cache, encHere' \in Nat,
         UNCHANGED decVars,
         NEW last \in Nat, last = Len(wire) + 1, RecordedItem(last)'
  PROVE  StreamInv'
<1> DEFINE n == Len(wire)
<1>1. /\ wire' \in Seq(Item) /\ Len(wire') = n + 1 /\ n \in Nat
      /\ \A i \in 1 .. n : wire'[i] = wire[i]
      /\ wire'[n + 1] = [kind |-> kind, len |-> len, mode |-> mode, val |-> val]
  BY CacheSizes DEF Write, TypeOK, Item, ModeCount
<1>2. /\ sent' \in Seq(Sent) /\ Len(sent') = n + 1
      /\ \A i \in 1 .. n : sent'[i] = sent[i]
      /\ sent'[n + 1] = [addr |-> addr, cache |-> enc, here |-> encHere]
  <2> DEFINE s == [addr |-> addr, cache |-> enc, here |-> encHere]
  <2>1. s \in Sent
    BY DEF TypeOK, Sent
  <2>2. sent \in Seq(Sent) /\ Len(sent) = n /\ sent' = Append(sent, s)
    BY DEF Write, TypeOK, Recorded
  <2> HIDE DEF s, n
  <2>3. /\ sent' \in Seq(Sent) /\ Len(sent') = n + 1
        /\ \A i \in 1 .. n : sent'[i] = sent[i]
        /\ sent'[n + 1] = s
    BY <2>1, <2>2, AppendProperties
  <2> QED BY <2>3 DEF s, n
<1>3. TypeOK'
  BY <1>1, <1>2 DEF TypeOK, decVars
<1>4. ASSUME NEW i \in 1 .. n + 1
      PROVE  CacheBefore(i)' = CacheBefore(i) /\ HereBefore(i)' = HereBefore(i)
  BY <1>1, <1>2 DEF CacheBefore, HereBefore
<1>5. ASSUME NEW i \in 1 .. n PROVE RecordedItem(i)'
  <2>1. RecordedItem(i)
    BY DEF Recorded
  <2>2. wire'[i] = wire[i] /\ sent'[i] = sent[i] /\ i \in 1 .. n + 1 /\ i + 1 \in 1 .. n + 1
    BY <1>1, <1>2
  <2>3. CacheBefore(i + 1)' = CacheBefore(i + 1) /\ HereBefore(i + 1)' = HereBefore(i + 1)
    BY <1>4, <2>2 DEF CacheBefore, HereBefore
  <2> QED BY <2>1, <2>2, <2>3 DEF RecordedItem
<1>6. Recorded'
  BY <1>1, <1>2, <1>5 DEF Recorded
<1>7. InStep' /\ AddressesSurvive'
  <2>1. pos \in Nat /\ pos + 1 \in 1 .. n + 1 /\ pos <= n
    BY DEF TypeOK, AddressesSurvive, Recorded
  <2>2. InStep'
    BY <1>1, <1>2, <2>1 DEF InStep, CacheBefore, HereBefore, decVars
  <2>3. AddressesSurvive'
    BY <1>1, <1>2, <2>1 DEF AddressesSurvive, Recorded, decVars
  <2> QED BY <2>2, <2>3
<1>8. FormsFit'
  BY <1>1, CacheSizes DEF FormsFit, ModeCount
<1> QED BY <1>3, <1>6, <1>7, <1>8 DEF StreamInv

\* The inductive invariant holds before anything is written or read.
LEMMA InitInv == Init => StreamInv
<1> SUFFICES ASSUME Init PROVE StreamInv
  OBVIOUS
<1>1. TypeOK
  <2>1. wire \in Seq(Item) /\ sent \in Seq(Sent) /\ got \in Seq(Nat)
    BY DEF Init
  <2> QED BY <2>1, FreshCacheType DEF Init, TypeOK
<1>2. Len(wire) = 0 /\ Len(sent) = 0 /\ Len(got) = 0 /\ pos = 0
  BY DEF Init
<1>3. Recorded /\ FormsFit
  BY <1>2 DEF Recorded, FormsFit
<1>4. InStep
  BY <1>2 DEF Init, InStep, CacheBefore, HereBefore
<1>5. AddressesSurvive
  BY <1>2 DEF Init, AddressesSurvive
<1> QED BY <1>1, <1>3, <1>4, <1>5 DEF StreamInv

\* WindowEncoder::new keeps the inductive invariant.
LEMMA BeginWindowInv ==
  ASSUME StreamInv, NEW n \in SourceLens, BeginWindow(n)
  PROVE  StreamInv'
<1> DEFINE last == Len(wire) + 1
<1>1. n \in Nat /\ last \in Nat
  BY StreamInputs DEF StreamInv, TypeOK
<1>2. PICK k \in Nat : k = Len(wire) + 1
  BY <1>1
<1>3. wire \in Seq(Item) /\ sent \in Seq(Sent) /\ Len(sent) = Len(wire)
  BY DEF StreamInv, TypeOK, Recorded
<1>4. /\ Len(wire') = k /\ wire'[k].kind = "window" /\ wire'[k].len = n
      /\ Len(sent') = k /\ sent'[k].addr = 0
  BY <1>2, <1>3 DEF BeginWindow, Write
<1>5. RecordedItem(k)'
  BY <1>2, <1>4 DEF RecordedItem, CacheBefore, HereBefore, BeginWindow
<1> QED
  BY <1>1, <1>2, <1>5, WriteKeepsRecord, FreshCacheType, CacheSizes
  DEF StreamInv, BeginWindow, ModeCount, SameStart

\* WindowEncoder::add and run keep the inductive invariant.
LEMMA WriteLiteralInv ==
  ASSUME StreamInv, NEW n \in Lens, WriteLiteral(n)
  PROVE  StreamInv'
<1>1. n \in Nat /\ encHere \in Nat /\ enc \in Cache
  BY StreamInputs DEF StreamInv, TypeOK
<1>2. PICK k \in Nat : k = Len(wire) + 1
  BY DEF StreamInv, TypeOK
<1>3. wire \in Seq(Item) /\ sent \in Seq(Sent) /\ Len(sent) = Len(wire)
  BY DEF StreamInv, TypeOK, Recorded
<1>4. /\ Len(wire') = k /\ wire'[k].kind = "literal" /\ wire'[k].len = n
      /\ Len(sent') = k /\ sent'[k].addr = 0 /\ sent'[k].cache = enc
      /\ sent'[k].here = encHere
  BY <1>2, <1>3 DEF WriteLiteral, Write
<1>5. RecordedItem(k)'
  BY <1>2, <1>4 DEF RecordedItem, CacheBefore, HereBefore, WriteLiteral
<1> QED
  BY <1>1, <1>2, <1>5, WriteKeepsRecord, CacheSizes
  DEF StreamInv, WriteLiteral, ModeCount, SameStart

\* WindowEncoder::copy keeps the inductive invariant.
LEMMA WriteCopyInv ==
  ASSUME StreamInv, NEW n \in Lens, NEW addr \in 0 .. encHere - 1, WriteCopy(addr, n)
  PROVE  StreamInv'
<1> DEFINE form == Encode(enc, addr, encHere)
<1>1. n \in Nat /\ encHere \in Nat /\ enc \in Cache /\ addr \in Nat
  BY StreamInputs DEF StreamInv, TypeOK
<1>2. PICK k \in Nat : k = Len(wire) + 1
  BY DEF StreamInv, TypeOK
<1>3. wire \in Seq(Item) /\ sent \in Seq(Sent) /\ Len(sent) = Len(wire)
  BY DEF StreamInv, TypeOK, Recorded
<1>4. /\ form.mode \in 0 .. ModeCount - 1 /\ form.val \in Nat
      /\ form.mode >= SameStart => form.val < SameWidth
  BY <1>1, EncodeDecode
<1>5. Write("copy", n, form.mode, form.val, addr)
  BY DEF WriteCopy
<1>6. enc' = Update(enc, addr) /\ encHere' = encHere + n /\ UNCHANGED decVars
  BY DEF WriteCopy
<1>7. enc' \in Cache /\ encHere' \in Nat
  BY <1>1, <1>6, UpdateType
<1> HIDE DEF form
<1>8. /\ Len(wire') = k /\ wire'[k].kind = "copy" /\ wire'[k].len = n
      /\ wire'[k].mode = form.mode /\ wire'[k].val = form.val
      /\ Len(sent') = k /\ sent'[k].addr = addr /\ sent'[k].cache = enc
      /\ sent'[k].here = encHere
  BY <1>2, <1>3, <1>5 DEF Write
<1>9. RecordedItem(k)'
  <2>1. CacheBefore(k + 1)' = enc' /\ HereBefore(k + 1)' = encHere'
    BY <1>2, <1>8 DEF CacheBefore, HereBefore
  <2> QED BY <1>6, <1>8, <2>1 DEF RecordedItem, form
<1> QED
  BY <1>1, <1>2, <1>4, <1>5, <1>6, <1>7, <1>9, WriteKeepsRecord DEF StreamInv

\* The decoder moves past one item and lands where the encoder was after it.
LEMMA ConsumeKeepsStep ==
  ASSUME StreamInv, ~ failed, pos < Len(wire),
         Consume(sent[pos + 1].addr),
         dec' = CacheBefore(pos + 2), decHere' = HereBefore(pos + 2)
  PROVE  StreamInv'
<1>1. /\ pos \in Nat /\ pos + 1 \in 1 .. Len(wire) /\ Len(sent) = Len(wire)
      /\ Len(wire) \in Nat
      /\ sent \in Seq(Sent) /\ got \in Seq(Nat) /\ Len(got) = pos
  BY DEF StreamInv, TypeOK, Recorded, AddressesSurvive
<1>2. UNCHANGED <<failed, enc, encHere, wire, sent>> /\ pos' = pos + 1
  BY DEF Consume, encVars
<1>3. sent[pos + 1].addr \in Nat
  BY <1>1, SentFields DEF StreamInv
<1>4. /\ got' \in Seq(Nat) /\ Len(got') = pos + 1
      /\ \A i \in 1 .. pos : got'[i] = got[i]
      /\ got'[pos + 1] = sent[pos + 1].addr
  BY <1>1, <1>3 DEF Consume
<1>5. CacheBefore(pos + 2) \in Cache /\ HereBefore(pos + 2) \in Nat
  <2>1. CASE pos + 2 <= Len(wire)
    BY <1>1, <2>1, SentFields DEF CacheBefore, HereBefore, StreamInv
  <2>2. CASE ~ (pos + 2 <= Len(wire))
    BY <2>2 DEF CacheBefore, HereBefore, StreamInv, TypeOK
  <2> QED BY <2>1, <2>2
<1>6. TypeOK'
  BY <1>1, <1>2, <1>4, <1>5 DEF StreamInv, TypeOK
<1>7. Recorded' /\ FormsFit'
  BY <1>2 DEF StreamInv, Recorded, RecordedItem, CacheBefore, HereBefore, FormsFit
<1>8. InStep'
  <2>1. pos' + 1 = pos + 2
    BY <1>1, <1>2
  <2> QED BY <1>2, <2>1 DEF InStep, CacheBefore, HereBefore
<1>9. AddressesSurvive'
  BY <1>1, <1>2, <1>4 DEF StreamInv, AddressesSurvive
<1> QED BY <1>6, <1>7, <1>8, <1>9 DEF StreamInv

\* Whatever item the decoder reads, the inductive invariant is kept: for a COPY
\* this is where EncodeDecode is used.
LEMMA ReadInv ==
  ASSUME StreamInv, Read
  PROVE  StreamInv'
<1> DEFINE i == pos + 1
           item == wire[i]
<1>1. /\ ~ failed /\ pos < Len(wire)
      /\ i \in 1 .. Len(wire) /\ i + 1 = pos + 2 /\ pos \in Nat
      /\ item.kind \in {"window", "literal", "copy"}
  <2>1. /\ ~ failed /\ pos < Len(wire) /\ pos \in Nat /\ wire \in Seq(Item)
        /\ Len(wire) \in Nat
    BY DEF Read, StreamInv, TypeOK
  <2>2. i \in 1 .. Len(wire) /\ i + 1 = pos + 2
    BY <2>1
  <2>3. item \in Item
    BY <2>1, <2>2
  <2> QED BY <2>1, <2>2, <2>3 DEF Item
<1>2. RecordedItem(i) /\ Len(sent) = Len(wire)
  BY <1>1 DEF StreamInv, Recorded
<1>3. dec = sent[i].cache /\ decHere = sent[i].here
  BY <1>1 DEF StreamInv, InStep, CacheBefore, HereBefore
<1>4. sent[i].cache \in Cache /\ sent[i].here \in Nat
  BY <1>1, <1>2, SentFields DEF StreamInv
<1> HIDE DEF i
<1>5. CASE ReadWindow(item)
  <2>1. /\ sent[i].addr = 0 /\ CacheBefore(i + 1) = FreshCache
        /\ HereBefore(i + 1) = item.len
    BY <1>2, <1>5 DEF RecordedItem, ReadWindow
  <2> QED BY <1>1, <1>5, <2>1, ConsumeKeepsStep DEF ReadWindow, i
<1>6. CASE ReadLiteral(item)
  <2>1. /\ sent[i].addr = 0 /\ CacheBefore(i + 1) = sent[i].cache
        /\ HereBefore(i + 1) = sent[i].here + item.len
    BY <1>2, <1>6 DEF RecordedItem, ReadLiteral
  <2> QED BY <1>1, <1>3, <1>6, <2>1, ConsumeKeepsStep DEF ReadLiteral, i
<1>7. CASE ReadCopy(item)
  <2>1. /\ sent[i].addr \in 0 .. sent[i].here - 1
        /\ item.mode = Encode(sent[i].cache, sent[i].addr, sent[i].here).mode
        /\ item.val = Encode(sent[i].cache, sent[i].addr, sent[i].here).val
        /\ CacheBefore(i + 1) = Update(sent[i].cache, sent[i].addr)
        /\ HereBefore(i + 1) = sent[i].here + item.len
    BY <1>2, <1>7 DEF RecordedItem, ReadCopy
  <2>2. DecodedAddr(dec, item.mode, item.val, decHere) = sent[i].addr
    BY <1>3, <1>4, <2>1, EncodeDecode
  <2>3. ValidAddr(sent[i].addr, decHere)
    BY <1>3, <1>4, <2>1 DEF ValidAddr
  <2>4. /\ dec' = Update(dec, sent[i].addr)
        /\ decHere' = decHere + item.len
        /\ Consume(sent[i].addr)
    BY <1>7, <2>2, <2>3 DEF ReadCopy
  <2> QED BY <1>1, <1>3, <2>1, <2>4, ConsumeKeepsStep DEF i
<1> QED BY <1>5, <1>6, <1>7 DEF Read, i

\* Every step of either side keeps the inductive invariant.
LEMMA StreamInvInductive == StreamInv /\ [Next]_vars => StreamInv'
<1> SUFFICES ASSUME StreamInv, [Next]_vars PROVE StreamInv'
  OBVIOUS
<1>1. CASE UNCHANGED vars
  BY <1>1
  DEF vars, StreamInv, TypeOK, Recorded, RecordedItem, InStep, CacheBefore,
      HereBefore, AddressesSurvive, FormsFit
<1> QED
  BY <1>1, BeginWindowInv, WriteLiteralInv, WriteCopyInv, ReadInv DEF Next

\* The inductive invariant holds in every reachable state.
LEMMA StreamInvHolds == Spec => []StreamInv
  BY InitInv, StreamInvInductive, PTL DEF Spec

\* The state of both sides stays well formed; in particular update never
\* indexes outside the NEAR or the SAME cache.
THEOREM TypeCorrect == Spec => []TypeOK
<1>1. StreamInv => TypeOK
  BY DEF StreamInv
<1> QED BY <1>1, StreamInvHolds, PTL

\* At every point of every stream the decoder's cache and position are those
\* the encoder had at the same item.
THEOREM CachesStayInStep == Spec => []CachesInStep
<1>1. StreamInv => CachesInStep
  BY InStepIsCachesInStep DEF StreamInv
<1> QED BY <1>1, StreamInvHolds, PTL

\* No COPY address the encoder writes is refused or read as another address.
THEOREM NoAddressLost == Spec => []AddressesSurvive
<1>1. StreamInv => AddressesSurvive
  BY DEF StreamInv
<1> QED BY <1>1, StreamInvHolds, PTL

\* Every mode written is a mode of the code table, every SAME value a byte.
THEOREM EveryFormFits == Spec => []FormsFit
<1>1. StreamInv => FormsFit
  BY DEF StreamInv
<1> QED BY <1>1, StreamInvHolds, PTL
=============================================================================
