----------------------------- MODULE DeltaFile ------------------------------
(***************************************************************************)
(* The file format as functions: the file header and the window header     *)
(* (vcdiff/header.rs), the assembly of a window (vcdiff/encoder.rs) and    *)
(* the secondary compression of its sections (compress/secondary.rs).      *)
(*                                                                         *)
(* A file is its header, its windows and the number of bytes that are      *)
(* there: every field has its encoded length, so a file that was cut lacks *)
(* the fields that end beyond that number.  The contents of a section are  *)
(* a name; what the format computes with are its lengths.                  *)
(***************************************************************************)
EXTENDS Integers, Sequences, SequencesExt, FiniteSetsExt

CONSTANTS
    Base,           \* 128: numbers below take one byte
    MinCompress,    \* MIN_COMPRESS_SIZE, 32
    HardMax         \* HARD_MAX_WINSIZE, 2^24

ASSUME FormatAssumption == Base > 1 /\ MinCompress \in Nat /\ HardMax \in Nat

Absent == "absent"
NoApp == [name |-> Absent, len |-> 0]
Section == {"data", "inst", "addr"}

\* sizeof_u64, as checked in Varint
SizeOf(n) == CHOOSE k \in 1 .. 10 : n < Base^k /\ (k = 1 \/ n >= Base^(k - 1))

----------------------------------------------------------------------------
(* The file header: indicator flags, secondary compressor and application  *)
(* header.  "invalid" stands for a wrong magic number, version or bit.     *)

DefaultHeader == [hdr_ind |-> {}, id |-> Absent, app |-> NoApp]

SetSecondaryId(h, id) == [h EXCEPT !.hdr_ind = @ \cup {"secondary"}, !.id = id]

SetAppHeader(h, app) == [h EXCEPT !.hdr_ind = @ \cup {"appheader"}, !.app = app]

\* What FileHeader::encode writes; an application header has a length
HeaderBytes(h) ==
    5 + (IF "secondary" \in h.hdr_ind THEN 1 ELSE 0)
      + (IF "appheader" \in h.hdr_ind THEN SizeOf(h.app.len) + h.app.len ELSE 0)

\* FileHeader::decode returns a header
HeaderDecodes(f) ==
    /\ "invalid" \notin f.hdr.hdr_ind
    /\ "codetable" \notin f.hdr.hdr_ind
    /\ f.len >= HeaderBytes(f.hdr)

----------------------------------------------------------------------------
(* The window header *)

SumLens(lens) == lens["data"] + lens["inst"] + lens["addr"]
SizeOfLens(lens) == SizeOf(lens["data"]) + SizeOf(lens["inst"]) + SizeOf(lens["addr"])

HasCopy(wh) == wh.win_ind \cap {"source", "target"} # {}

\* Mutant: the four bytes of the checksum are forgotten
ComputeEncLenPlain(wh) ==
    SizeOf(wh.target_len) + 1 + SizeOfLens(wh.lens) + SumLens(wh.lens)

ComputeEncLen(wh) ==
    SizeOf(wh.target_len) + 1 + SizeOfLens(wh.lens) + SumLens(wh.lens)
      + (IF "adler32" \in wh.win_ind THEN 4 ELSE 0)

\* What WindowHeader::encode writes, up to and after the field enc_len
BytesToEncLen(wh) ==
    1 + SizeOf(wh.enc_len)
      + (IF HasCopy(wh) THEN SizeOf(wh.copy.len) + SizeOf(wh.copy.offset) ELSE 0)

BytesAfterEncLen(wh) ==
    SizeOf(wh.target_len) + 1 + SizeOfLens(wh.lens)
      + (IF "adler32" \in wh.win_ind /\ wh.adler32 # Absent THEN 4 ELSE 0)

WindowHeaderBytes(wh) == BytesToEncLen(wh) + BytesAfterEncLen(wh)

\* Mutant: the redundancy check left out
HeaderPlausible(wh, room) ==
    /\ room >= WindowHeaderBytes(wh)
    /\ "invalid" \notin wh.win_ind \cup wh.del_ind
    /\ ~({"source", "target"} \subseteq wh.win_ind)
    /\ wh.target_len <= HardMax

\* WindowHeader::decode returns a header, of the `room' bytes from its start on
WindowHeaderDecodes(wh, room) ==
    /\ room >= WindowHeaderBytes(wh)
    /\ "invalid" \notin wh.win_ind \cup wh.del_ind
    /\ ~({"source", "target"} \subseteq wh.win_ind)
    /\ wh.target_len <= HardMax
    /\ wh.enc_len = ComputeEncLen(wh)

----------------------------------------------------------------------------
(* Sections: a name, a length, the compressor applied and the length of    *)
(* the result.                                                             *)

Garbled == <<0, "data">>
Plain(name, n) == [name |-> name, len |-> n, by |-> Absent, size |-> n]
Sizes(ss) == [x \in Section |-> ss[x].size]

\* should_compress: NoCompression (id 0) never does
ShouldCompress(b, s) == b # "null" /\ s.len >= MinCompress

\* compress_section, where the compressor returns n bytes
CompressSection(b, s, n) ==
    IF ShouldCompress(b, s) /\ n < s.len THEN [s EXCEPT !.by = b, !.size = n] ELSE s

\* compress_sections: a flag for every section that became shorter
CompressSections(b, ss, n) ==
    LET comp == [x \in Section |-> CompressSection(b, ss[x], n[x])]
        del == {x \in Section : comp[x].size < ss[x].len}
    IN  [sect |-> [x \in Section |-> IF x \in del THEN comp[x] ELSE ss[x]], del_ind |-> del]

\* The decompressor of a back end undoes its own compression only
Decompress(id, s) ==
    IF s.by = id THEN Plain(s.name, s.len) ELSE [s EXCEPT !.name = Garbled]

\* backend_for_id finds a back end; `known' are those the build has
BackendForId(id, known) == id \in known

\* Mutant: every section goes through the decompressor
DecompressAll(ss, del, id) ==
    IF del = {} THEN ss ELSE [x \in Section |-> Decompress(id, ss[x])]

\* decompress_sections
DecompressSections(ss, del, id) ==
    [x \in Section |-> IF x \in del THEN Decompress(id, ss[x]) ELSE ss[x]]

----------------------------------------------------------------------------
(* Windows and files *)

\* The header that goes before sections, with enc_len computed at the end
WithEncLen(wh) == [wh EXCEPT !.enc_len = ComputeEncLen(wh)]

\* WindowSections::assemble
Assemble(w, comp) ==
    [head |-> WithEncLen(
        [win_ind |-> (IF w.source THEN {"source"} ELSE {})
                       \cup (IF w.adler32 # Absent THEN {"adler32"} ELSE {}),
         copy |-> IF w.source THEN w.copy ELSE [len |-> 0, offset |-> 0],
         enc_len |-> 0, target_len |-> w.target_len, del_ind |-> comp.del_ind,
         lens |-> Sizes(comp.sect), adler32 |-> w.adler32]),
     sect |-> comp.sect]

WindowBytes(w) == WindowHeaderBytes(w.head) + SumLens(Sizes(w.sect))

\* Where window k starts; the end of the file for the one after the last
Start(f, k) ==
    FoldLeft(LAMBDA n, w : n + WindowBytes(w), HeaderBytes(f.hdr), SubSeq(f.windows, 1, k - 1))

FileBytes(f) == Start(f, Len(f.windows) + 1)
=============================================================================
