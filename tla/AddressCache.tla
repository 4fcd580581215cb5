---------------------------- MODULE AddressCache ----------------------------
(***************************************************************************)
(* The NEAR and SAME address caches of one VCDIFF window                   *)
(* (src/src/vcdiff/address_cache.rs).  The encoder turns the address of a  *)
(* COPY into a mode and a value; the decoder, whose own cache has seen the *)
(* same addresses, turns them back.                                        *)
(*                                                                         *)
(* The sizes are parameters.  The code uses SNear = 4, SSame = 3,          *)
(* SameWidth = 256 (the values of a byte) and ShortMax = 127 (the largest  *)
(* value of a one-byte varint).  A value is kept as the number it stands   *)
(* for; how many bytes a varint takes matters only up to ShortMax.         *)
(***************************************************************************)
EXTENDS Integers, FiniteSetsExt

CONSTANTS
  SNear,       \* slots of the NEAR cache (s_near)
  SSame,       \* groups of the SAME cache (s_same)
  SameWidth,   \* entries of one SAME group, one per value of a byte
  ShortMax     \* largest value that takes one byte as a varint

ASSUME CacheSizes ==
  /\ SNear \in Nat
  /\ SSame \in Nat
  /\ SameWidth \in Nat \ {0}
  /\ ShortMax \in Nat

VCD_SELF == 0
VCD_HERE == 1

SameStart == 2 + SNear
SameSize  == SSame * SameWidth
ModeCount == 2 + SNear + SSame

\* The modes whose value is a varint: SELF, HERE and one per NEAR slot.
VarintModes == 0 .. SameStart - 1

Cache == [near: [0 .. SNear - 1 -> Nat],
          same: [0 .. SameSize - 1 -> Nat],
          next: IF SNear > 0 THEN 0 .. SNear - 1 ELSE {0}]

\* with_sizes and init: every entry zero.
FreshCache == [near |-> [i \in 0 .. SNear - 1 |-> 0],
               same |-> [i \in 0 .. SameSize - 1 |-> 0],
               next |-> 0]

\* Mutant: the next NEAR slot does not wrap around.
UpdateNoWrap(c, addr) ==
  [near |-> IF SNear > 0 THEN [c.near EXCEPT ![c.next] = addr] ELSE c.near,
   same |-> IF SSame > 0 THEN [c.same EXCEPT ![addr % SameSize] = addr]
                         ELSE c.same,
   next |-> IF SNear > 0 THEN c.next + 1 ELSE c.next]

Update(c, addr) ==
  [near |-> IF SNear > 0 THEN [c.near EXCEPT ![c.next] = addr] ELSE c.near,
   same |-> IF SSame > 0 THEN [c.same EXCEPT ![addr % SameSize] = addr]
                         ELSE c.same,
   next |-> IF SNear > 0 THEN (c.next + 1) % SNear ELSE c.next]

(***************************************************************************)
(* Encoding.  The code tries SELF, HERE and the NEAR slots in this order,  *)
(* keeps the strictly smallest value seen so far and returns as soon as    *)
(* that value is short.  So a short value wins by its place in the order,  *)
(* a long one by its size, and SAME is looked at only when no value is     *)
(* short.                                                                  *)
(***************************************************************************)
Usable(c, addr) ==
  {m \in VarintModes : m \in {VCD_SELF, VCD_HERE} \/ c.near[m - 2] <= addr}

Distance(c, addr, here, m) ==
  CASE m = VCD_SELF -> addr
    [] m = VCD_HERE -> here - addr
    [] OTHER        -> addr - c.near[m - 2]

ShortModes(c, addr, here) ==
  {m \in Usable(c, addr) : Distance(c, addr, here, m) <= ShortMax}

NearestModes(c, addr, here) ==
  {m \in Usable(c, addr) : \A k \in Usable(c, addr) :
      Distance(c, addr, here, m) <= Distance(c, addr, here, k)}

\* Mutant: the SAME entry is used without comparing the address in it.
SameHitAny(c, addr) == SSame > 0 /\ c.same[addr % SameSize] # 0

SameHit(c, addr) == SSame > 0 /\ c.same[addr % SameSize] = addr

VarintForm(c, addr, here, m) ==
  [mode |-> m, val |-> Distance(c, addr, here, m)]

\* Mutant: the SAME value is the whole index, not its byte.
EncodeWideSame(c, addr, here) ==
  IF ShortModes(c, addr, here) # {}
    THEN VarintForm(c, addr, here, Min(ShortModes(c, addr, here)))
  ELSE IF SameHit(c, addr)
    THEN [mode |-> SameStart + (addr % SameSize) \div SameWidth, val |-> addr % SameSize]
  ELSE VarintForm(c, addr, here, Min(NearestModes(c, addr, here)))

\* encode: the mode and the value written to the address section.  The cache
\* update that ends every path of the code is Update(c, addr).
Encode(c, addr, here) ==
  IF ShortModes(c, addr, here) # {}
    THEN VarintForm(c, addr, here, Min(ShortModes(c, addr, here)))
  ELSE IF SameHit(c, addr)
    THEN [mode |-> SameStart + (addr % SameSize) \div SameWidth,
          val  |-> (addr % SameSize) % SameWidth]
  ELSE VarintForm(c, addr, here, Min(NearestModes(c, addr, here)))

\* Mutant: the SAME entries are addressed without the width of a group.
DecodedAddrNarrow(c, mode, val, here) ==
  CASE mode = VCD_SELF  -> val
    [] mode = VCD_HERE  -> here - val
    [] mode \in 2 .. SameStart - 1 -> c.near[mode - 2] + val
    [] OTHER -> c.same[(mode - SameStart) + val]

\* decode, up to its last test: the address meant by a mode and a value.
\* HERE may fall below zero, NEAR and SELF above here: both are refused by
\* ValidAddr.  (A NEAR sum past 64 bits is also past here.)
DecodedAddr(c, mode, val, here) ==
  CASE mode = VCD_SELF  -> val
    [] mode = VCD_HERE  -> here - val
    [] mode \in 2 .. SameStart - 1 -> c.near[mode - 2] + val
    [] OTHER -> c.same[(mode - SameStart) * SameWidth + val]

\* The check at the end of decode; the cache is updated only when it holds.
ValidAddr(addr, here) == 0 <= addr /\ addr < here
=============================================================================
