----------------------------- MODULE MatchTables ----------------------------
(***************************************************************************)
(* The two hash tables of the match engine (src/src/hash/table.rs), and    *)
(* the checksums and byte comparisons it is built on                       *)
(* (src/src/hash/rolling.rs).                                              *)
(*                                                                         *)
(* Positions count from 0; a table stores position + 1, and 0 for an empty *)
(* slot (HASH_CKOFFSET).  Byte i of the code is element i + 1 of a         *)
(* sequence.  Checksums are words of two halves: 32 and 16 bits in the     *)
(* code, CkHalf * CkHalf and CkHalf values here.                           *)
(***************************************************************************)
EXTENDS Integers, Sequences, SequencesExt

CONSTANTS
  CkHalf,      \* values of half a checksum (2^16); a power of two
  Wide, Half,  \* bytes compared at a time (32 and 16, 16 and 16, or 8 and 8)
  Buckets,     \* buckets of either table (HashCfg.size), a power of two
  PrevSize,    \* entries of the prev array; 0 when there is no chaining
  MaxStored,   \* largest value a slot can hold (u32::MAX)
  MinRun       \* shortest run worth a RUN instruction (MIN_RUN)

CkWord == CkHalf * CkHalf
-----------------------------------------------------------------------------
(***************************************************************************)
(* Checksums.                                                              *)
(***************************************************************************)
\* small_cksum: the bytes read as one number, times an odd constant.
SmallCksum(bytes, pos, look) ==
  (11 * FoldLeft(LAMBDA acc, b : 2 * acc + b, 0, SubSeq(bytes, pos + 1, pos + look))) % CkWord

\* SINGLE_HASH: a fixed table of half words; any table will do.
SingleHash(b) == (3 * b + 3) % CkHalf

\* LargeHash::checksum: the sum of the permuted bytes and the sum of those
\* sums, in words that wrap, cut down to a half each.
LargeCksum(bytes, pos, look) ==
  LET sums == FoldLeft(LAMBDA acc, b :
                         LET low == (acc.low + SingleHash(b)) % CkWord
                         IN  [low |-> low, high |-> (acc.high + low) % CkWord],
                       [low |-> 0, high |-> 0], SubSeq(bytes, pos + 1, pos + look))
  IN  CkHalf * (sums.high % CkHalf) + (sums.low % CkHalf)

\* Mutant: the byte that leaves is taken out of the high half only once.
LargeUpdateOnce(ck, bytes, pos, look) ==
  LET old  == SingleHash(bytes[pos + 1])
      low  == (ck - old + SingleHash(bytes[pos + look + 1])) % CkHalf
      high == ((ck \div CkHalf) - old + low) % CkHalf
  IN  CkHalf * high + low

\* LargeHash::update: the byte at pos leaves, the one at pos + look comes in.
LargeUpdate(ck, bytes, pos, look) ==
  LET old  == SingleHash(bytes[pos + 1])
      low  == (ck - old + SingleHash(bytes[pos + look + 1])) % CkHalf
      high == ((ck \div CkHalf) - old * look + low) % CkHalf
  IN  CkHalf * high + low

\* Bitwise exclusive or, of numbers below 2^8.
Xor(a, b) ==
  FoldLeft(LAMBDA acc, i : 2 * acc + (((a \div 2 ^ (8 - i)) + (b \div 2 ^ (8 - i))) % 2), 0,
           <<1, 2, 3, 4, 5, 6, 7, 8>>)

\* HashCfg::bucket: the top bits of a checksum over its bottom bits.
Bucket(ck) == Xor(ck \div (CkWord \div Buckets), ck % Buckets)
-----------------------------------------------------------------------------
(***************************************************************************)
(* Comparisons.  `same' is the set of offsets, from 1 on in the direction  *)
(* of the comparison, at which the bytes agree.                            *)
(***************************************************************************)
\* Mutant: a block with a difference counts up to and with the differing byte.
BlockScanOver(same, n, wide, half) ==
  LET scan[i \in 0 .. n] ==
        LET block(w) == i + 1 .. i + w
        IN  IF i + wide <= n
              THEN IF block(wide) \subseteq same THEN scan[i + wide] ELSE Min(block(wide) \ same)
            ELSE IF i + half <= n
              THEN IF block(half) \subseteq same THEN scan[i + half] ELSE Min(block(half) \ same) - 1
            ELSE IF i + 1 \in same THEN scan[i + 1] ELSE i
  IN  scan[0]

\* How many offsets in a row agree, by wide blocks, then at most one half
\* block, then single bytes; the first difference inside a block is found
\* from its mask.
BlockScan(same, n, wide, half) ==
  LET scan[i \in 0 .. n] ==
        LET block(w) == i + 1 .. i + w
        IN  IF i + wide <= n
              THEN IF block(wide) \subseteq same THEN scan[i + wide] ELSE Min(block(wide) \ same) - 1
            ELSE IF i + half <= n
              THEN IF block(half) \subseteq same THEN scan[i + half] ELSE Min(block(half) \ same) - 1
            ELSE IF i + 1 \in same THEN scan[i + 1] ELSE i
  IN  scan[0]

\* forward_match: length of the common prefix of a from i on and b from j on.
ForwardMatch(a, i, b, j, max) ==
  BlockScan({k \in 1 .. max : a[i + k] = b[j + k]}, max, Wide, Half)

\* backward_match: length of the common suffix before i and before j.
BackwardMatch(a, i, b, j, max) ==
  BlockScan({k \in 1 .. max : a[i - k + 1] = b[j - k + 1]}, max, Wide, Half)

\* find_run_length: how many bytes from pos on equal c.
RunLength(bytes, pos, c, max) ==
  BlockScan({k \in 1 .. max : bytes[pos + k] = c}, max, Wide, Half)
-----------------------------------------------------------------------------
\* An instruction of the engine and of the pipeline; addr is 0 but for a COPY.
Inst(op, len, addr) == [op |-> op, len |-> len, addr |-> addr]

-----------------------------------------------------------------------------
\* SmallTable: the newest position of each bucket, and for each position the
\* one it displaced, in a circular buffer.
EmptySmall ==
  [head |-> [b \in 0 .. Buckets - 1 |-> 0],
   prev |-> [i \in 0 .. PrevSize - 1 |-> 0]]

SmallInsert(t, b, pos) ==
  IF pos + 1 > MaxStored THEN t
  ELSE [head |-> [t.head EXCEPT ![b] = pos + 1],
        prev |-> IF PrevSize > 0 THEN [t.prev EXCEPT ![pos % PrevSize] = t.head[b]]
                                 ELSE t.prev]

\* Mutant: the distance of what the slot holds is not checked.
ChainPrevAnyAge(t, pos, input) ==
  IF PrevSize = 0 THEN 0
  ELSE LET v == t.prev[pos % PrevSize]
       IN  IF v = 0 \/ v - 1 > pos THEN 0 ELSE v

\* chain_prev: the stored value of the position before pos, 0 when the chain
\* ends.  The slot may have been taken over by a newer position, so what is
\* found there counts only if it is not newer than pos and still covered by
\* the buffer.
ChainPrev(t, pos, input) ==
  IF PrevSize = 0 THEN 0
  ELSE LET v == t.prev[pos % PrevSize]
       IN  IF v = 0 \/ v - 1 > pos \/ input - (v - 1) > PrevSize - 1 THEN 0 ELSE v

-----------------------------------------------------------------------------
\* index_source: positions are inserted from the end of the source backwards,
\* `step' apart, so the earliest of a bucket stays.
IndexedPositions(source, look, step) ==
  {p \in 0 .. Len(source) - look : (Len(source) - look - p) % step = 0}

IndexSource(source, look, step) ==
  [b \in 0 .. Buckets - 1 |->
     LET here == {p \in IndexedPositions(source, look, step) :
                    Bucket(LargeCksum(source, p, look)) = b}
     IN  IF here = {} THEN 0 ELSE Min(here) + 1]
=============================================================================
