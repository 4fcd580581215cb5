---------------------------- MODULE AddressStream ---------------------------
(***************************************************************************)
(* The address caches at work: WindowEncoder writes the instructions of    *)
(* one window after the other, decode_window_with_cache reads them.  Each  *)
(* side has a cache and a position (`here') of its own, and nothing but    *)
(* the stream keeps them in step.                                          *)
(*                                                                         *)
(* An item of the stream is the start of a window with the length of its   *)
(* source window, an ADD or RUN (a `literal': only its length matters      *)
(* here), or a COPY with its mode and value.                               *)
(***************************************************************************)
EXTENDS AddressCache, Sequences

CONSTANTS
  SourceLens,   \* lengths a source window may have
  Lens,         \* lengths an instruction may have
  MaxItems      \* bound: items written in a behaviour

ASSUME StreamInputs ==
  /\ SourceLens \subseteq Nat
  /\ Lens \subseteq Nat \ {0}
  /\ MaxItems \in Nat

VARIABLES
  enc,       \* WindowEncoder.acache
  encHere,   \* WindowEncoder::here()
  wire,      \* the stream
  dec,       \* StreamDecoder.acache
  decHere,   \* copy_window_len + target_pos
  pos,       \* items the decoder has consumed
  failed,    \* decode returned InvalidAddr
  got,       \* the address the decoder found for each item consumed
  sent       \* history: what the encoder meant by each item of wire

vars == <<enc, encHere, wire, dec, decHere, pos, failed, got, sent>>
encVars == <<enc, encHere, wire, sent>>
decVars == <<dec, decHere, pos, failed, got>>

Item == [kind: {"window", "literal", "copy"}, len: Nat, mode: Nat, val: Nat]
Sent == [addr: Nat, cache: Cache, here: Nat]

Init ==
  /\ enc = FreshCache /\ encHere = 0 /\ wire = <<>> /\ sent = <<>>
  /\ dec = FreshCache /\ decHere = 0 /\ pos = 0 /\ failed = FALSE /\ got = <<>>

Write(kind, len, mode, val, addr) ==
  /\ Len(wire) < MaxItems
  /\ wire' = Append(wire, [kind |-> kind, len |-> len, mode |-> mode, val |-> val])
  /\ sent' = Append(sent, [addr |-> addr, cache |-> enc, here |-> encHere])

\* WindowEncoder::new: a new encoder, hence a new cache, for each window.
BeginWindow(srcLen) ==
  /\ Write("window", srcLen, 0, 0, 0)
  /\ enc' = FreshCache
  /\ encHere' = srcLen
  /\ UNCHANGED decVars

\* WindowEncoder::add and run.
WriteLiteral(len) ==
  /\ wire # <<>>
  /\ Write("literal", len, 0, 0, 0)
  /\ encHere' = encHere + len
  /\ UNCHANGED <<enc, decVars>>

\* WindowEncoder::copy.  That addr < here is the debug_assert of encode.
WriteCopy(addr, len) ==
  /\ wire # <<>>
  /\ LET form == Encode(enc, addr, encHere)
     IN  Write("copy", len, form.mode, form.val, addr)
  /\ enc' = Update(enc, addr)
  /\ encHere' = encHere + len
  /\ UNCHANGED decVars

Consume(addr) ==
  /\ got' = Append(got, addr)
  /\ pos' = pos + 1
  /\ UNCHANGED <<failed, encVars>>

\* Mutant: the cache is kept from one window to the next.
ReadWindowStale(item) ==
  /\ item.kind = "window"
  /\ decHere' = item.len
  /\ Consume(0)
  /\ UNCHANGED dec

\* The start of decode_window_with_cache: acache.init(), target_pos = 0.
ReadWindow(item) ==
  /\ item.kind = "window"
  /\ dec' = FreshCache
  /\ decHere' = item.len
  /\ Consume(0)

\* execute_half_instruction on ADD or RUN.
ReadLiteral(item) ==
  /\ item.kind = "literal"
  /\ decHere' = decHere + item.len
  /\ Consume(0)
  /\ UNCHANGED dec

\* execute_half_instruction on COPY, address part.  A refused address ends
\* the decoding of the stream; the cache is then left as it was.
ReadCopy(item) ==
  LET addr == DecodedAddr(dec, item.mode, item.val, decHere)
  IN  /\ item.kind = "copy"
      /\ IF ValidAddr(addr, decHere)
           THEN /\ dec' = Update(dec, addr)
                /\ decHere' = decHere + item.len
                /\ Consume(addr)
           ELSE /\ failed' = TRUE
                /\ UNCHANGED <<dec, decHere, pos, got, encVars>>

Read ==
  /\ ~ failed
  /\ pos < Len(wire)
  /\ LET item == wire[pos + 1]
     IN  \/ ReadWindow(item)
         \/ ReadLiteral(item)
         \/ ReadCopy(item)

Next ==
  \/ \E n \in SourceLens : BeginWindow(n)
  \/ \E n \in Lens : WriteLiteral(n)
  \/ \E n \in Lens, addr \in 0 .. encHere - 1 : WriteCopy(addr, n)
  \/ Read

Spec == Init /\ [][Next]_vars
-----------------------------------------------------------------------------
TypeOK ==
  /\ enc \in Cache /\ dec \in Cache
  /\ encHere \in Nat /\ decHere \in Nat
  /\ wire \in Seq(Item) /\ sent \in Seq(Sent)
  /\ pos \in Nat /\ got \in Seq(Nat)
  /\ failed \in BOOLEAN

\* The decoder is where the encoder was: before it reads an item, its cache
\* and its position are those the encoder had before it wrote that item.
\* This is what the two separate calls of update (address_cache.rs) and the
\* init at each window start are there for.
CachesInStep ==
  IF pos < Len(wire)
    THEN dec = sent[pos + 1].cache /\ decHere = sent[pos + 1].here
    ELSE dec = enc /\ decHere = encHere

\* Every COPY address survives: decode never refuses what encode wrote, and
\* finds for each item the address the encoder was given.
AddressesSurvive ==
  /\ ~ failed
  /\ Len(got) = pos /\ pos <= Len(sent)
  /\ \A i \in 1 .. pos : got[i] = sent[i].addr

\* What is written fits the format: the mode is one of the code table's COPY
\* modes and a SAME value is a byte.
FormsFit ==
  \A i \in 1 .. Len(wire) :
    /\ wire[i].mode < ModeCount
    /\ wire[i].mode >= SameStart => wire[i].val < SameWidth
=============================================================================
