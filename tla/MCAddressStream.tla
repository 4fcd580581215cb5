--------------------------- MODULE MCAddressStream --------------------------
EXTENDS AddressStream, SequencesExt

\* Mutant: a later mode replaces an equally good one.
TryModeLater(c, addr, here, best, m) ==
  IF best.val <= ShortMax \/ m \notin Usable(c, addr)
     \/ Distance(c, addr, here, m) > best.val
    THEN best
    ELSE VarintForm(c, addr, here, m)

\* encode as the code computes it: one pass over SELF, HERE and the NEAR
\* slots with the best value so far, left as soon as that value is short.
TryMode(c, addr, here, best, m) ==
  IF best.val <= ShortMax \/ m \notin Usable(c, addr)
     \/ Distance(c, addr, here, m) >= best.val
    THEN best
    ELSE VarintForm(c, addr, here, m)

EncodeLoop(c, addr, here) ==
  LET best == FoldLeft(LAMBDA b, m : TryMode(c, addr, here, b, m),
                       [mode |-> VCD_SELF, val |-> addr],
                       [i \in 1 .. SNear + 1 |-> i])
      idx  == addr % SameSize
  IN  IF best.val > ShortMax /\ SSame > 0 /\ c.same[idx] = addr
        THEN [mode |-> SameStart + idx \div SameWidth, val |-> idx % SameWidth]
        ELSE best

\* Whatever the cache holds, the mode and value that Encode defines by what
\* is best are the ones the loop of encode arrives at.
EncodeIsTheLoop ==
  \A addr \in 0 .. encHere - 1 :
    Encode(enc, addr, encHere) = EncodeLoop(enc, addr, encHere)
=============================================================================
