----------------------------- MODULE FileTools ------------------------------
(***************************************************************************)
(* A delta file and the programs that read it: an encoder writes it, the   *)
(* file may be damaged once, and then any sequence of decode, recode       *)
(* (cmd_recode of cli.rs, whose output takes the file's place) and the     *)
(* three print commands (cmd_print) is run on it.                          *)
(*                                                                         *)
(* The program that reads is a loop over windows; each round is one        *)
(* action, with what it reads, decompresses, compresses and writes.        *)
(***************************************************************************)
EXTENDS DeltaFile

CONSTANTS
    Windows,        \* window contents the encoder is given
    Packings,       \* lengths the compressors return for the three sections
    Apps, NewApp,   \* application headers of the encoder, and the one recode sets
    Known,          \* back ends of the build that reads
    MaxWindows      \* bound: windows of a file

VARIABLES
    given,      \* the windows it was given
    file,       \* the delta file
    app,        \* the application header the user has asked for
    damage,     \* what happened to the file
    job,        \* the program that runs on it and its options
    status,     \* "encoding", "made", "idle", "running", "ok" or "failed"
    pos,        \* windows read: window_num
    got,        \* their contents
    out,        \* what recode has written
    shown       \* what print shows: the header's size and each window's offset

vars == <<given, file, app, damage, job, status, pos, got, out, shown>>
readVars == <<pos, got, out, shown>>

\* "other": a back end of the caller, of another program or of a build with
\* other features, that backend_for_id does not know; "null": NoCompression
Compressors == {Absent, "lzma", "zlib", "other", "null"}
Tools == {"decode", "recode", "printdelta", "printhdrs", "printhdr"}

NoJob == [tool |-> Absent, by |-> Absent, app |-> Absent]
Jobs == [tool : Tools \ {"recode"}, by : {Absent}, app : {Absent}]
          \cup [tool : {"recode"}, by : {Absent} \cup Known, app : {"keep", "drop", "set"}]

\* The options of recode change what it writes, not what it reads
DamagedJobs == {j \in Jobs : j.by = Absent /\ j.app \in {Absent, "keep"}}

NoFile(h) == [hdr |-> h, windows |-> <<>>, len |-> 0]

Init ==
    /\ app \in Apps
    /\ \E by \in Compressors :
         LET h == IF by = Absent THEN DefaultHeader ELSE SetSecondaryId(DefaultHeader, by)
         IN  file = NoFile(IF app = NoApp THEN h ELSE SetAppHeader(h, app))
    /\ given = <<>> /\ damage = "none" /\ job = NoJob /\ status = "encoding"
    /\ pos = 0 /\ got = <<>> /\ out = NoFile(DefaultHeader) /\ shown = <<>>

----------------------------------------------------------------------------
(* Encoding.  Only another program makes windows that copy from the target *)

PlainSections(w) == [x \in Section |-> Plain(<<Len(given) + 1, x>>, w.lens[x])]

Seal(f) == [f EXCEPT !.len = FileBytes(f)]

AddWindow(f, w) == [f EXCEPT !.windows = Append(@, w)]

\* The windows of another encoder
Foreign(w) == [w EXCEPT !.head.win_ind = (@ \ {"source"}) \cup {"target"}]

EncodeWindow(w) ==
    LET raw == PlainSections(w)
        by == file.hdr.id
    IN  /\ status = "encoding" /\ Len(given) < MaxWindows
        /\ \E n \in Packings :
             LET comp == IF by = Absent THEN [sect |-> raw, del_ind |-> {}]
                         ELSE CompressSections(by, raw, n)
                 made == Assemble(w, comp)
             IN  \E wire \in {made} \cup (IF by = "other" /\ w.source
                                          THEN {Foreign(made)} ELSE {}) :
                   /\ file' = AddWindow(file, wire)
                   /\ given' = Append(given, [head |-> wire.head, sect |-> raw])
        /\ UNCHANGED <<app, damage, job, status, readVars>>

FinishFile ==
    /\ status = "encoding"
    /\ file' = Seal(file)
    /\ status' = "made"
    /\ UNCHANGED <<given, app, damage, job, readVars>>

----------------------------------------------------------------------------
(* Damage: the end is lost, or a field is overwritten in place.            *)

Undamaged == status = "made" /\ damage = "none"

Cut ==
    /\ Undamaged
    /\ \E n \in 0 .. file.len - 1 : file' = [file EXCEPT !.len = n]
    /\ damage' = "cut"
    /\ UNCHANGED <<given, app, job, status, readVars>>

\* Another value of the same encoded length in place of n
Others(n) == {m \in {n - 1, n + 1} \cap Nat : SizeOf(m) = SizeOf(n)}

Overwrite ==
    /\ Undamaged
    /\ \/ /\ file' = [file EXCEPT !.hdr.hdr_ind = @ \cup {"invalid"}]
          /\ damage' = "bits"
       \/ \E k \in 1 .. Len(file.windows) :
            \/ \E f \in {"win_ind", "del_ind"} :
                 /\ file' = [file EXCEPT !.windows[k].head[f] = @ \cup {"invalid"}]
                 /\ damage' = "bits"
            \/ \E x \in Section : \E m \in Others(file.windows[k].head.lens[x]) :
                 /\ file' = [file EXCEPT !.windows[k].head.lens[x] = m]
                 /\ damage' = "length"
            \/ \E m \in Others(file.windows[k].head.enc_len) :
                 /\ file' = [file EXCEPT !.windows[k].head.enc_len = m]
                 /\ damage' = "length"
    /\ UNCHANGED <<given, app, job, status, readVars>>

----------------------------------------------------------------------------
(* The header *)

\* out_hdr of cmd_recode
OutHeader(j) ==
    LET h == IF j.by = Absent THEN DefaultHeader ELSE SetSecondaryId(DefaultHeader, j.by)
        a == CASE j.app = "drop" -> NoApp
               [] j.app = "keep" -> file.hdr.app
               [] j.app = "set" -> NewApp
    IN  IF a = NoApp THEN h ELSE SetAppHeader(h, a)

\* Mutant: without the byte of the compressor.
ShownHeaderPlain(h) ==
    5 + (IF "appheader" \in h.hdr_ind THEN SizeOf(h.app.len) + h.app.len ELSE 0)

\* hdr_size of cmd_print
ShownHeader(h) ==
    5 + (IF "secondary" \in h.hdr_ind THEN 1 ELSE 0)
      + (IF "appheader" \in h.hdr_ind THEN SizeOf(h.app.len) + h.app.len ELSE 0)

Open ==
    /\ status \in {"made", "idle"}
    /\ \E j \in IF damage = "none" THEN Jobs ELSE DamagedJobs :
         /\ job' = j
         /\ status' = IF HeaderDecodes(file) THEN "running" ELSE "failed"
         /\ out' = NoFile(IF j.tool = "recode" /\ HeaderDecodes(file)
                          THEN OutHeader(j) ELSE DefaultHeader)
         /\ shown' = IF j.tool \in {"printdelta", "printhdrs", "printhdr"} /\ HeaderDecodes(file)
                     THEN <<ShownHeader(file.hdr)>> ELSE <<>>
    /\ UNCHANGED <<given, file, app, damage, pos, got>>

----------------------------------------------------------------------------
(* A window *)

Running == status = "running"
At == Start(file, pos + 1)
Room == IF file.len > At THEN file.len - At ELSE 0
Win == file.windows[pos + 1]

\* print_hdr stops behind the first window
MoreWindows == Running /\ Room > 0 /\ ~(job.tool = "printhdr" /\ pos > 0)

HeaderRead == WindowHeaderDecodes(Win.head, Room)

\* read_exact of the three sections, or the skipping of cmd_print
SectionsRead == Room >= WindowHeaderBytes(Win.head) + SumLens(Win.head.lens)

\* What is read is what was written if the lengths are right
Taken ==
    IF Win.head.lens = Sizes(Win.sect) THEN Win.sect
    ELSE [x \in Section |-> Plain(Garbled, Win.head.lens[x])]

\* Mutant: the back end is looked up whether it is needed or not.
DecompressesKnown == file.hdr.id = Absent \/ BackendForId(file.hdr.id, Known)

\* The test of del_ind before decompress_sections, and its error
Decompresses == Win.head.del_ind = {} \/ BackendForId(file.hdr.id, Known)

\* decode_window of the StreamDecoder refuses VCD_TARGET
Acceptable ==
    /\ HeaderRead
    /\ job.tool = "decode" => "target" \notin Win.head.win_ind
    /\ SectionsRead
    /\ job.tool \in {"decode", "recode", "printdelta"} => Decompresses

Raw == DecompressSections(Taken, Win.head.del_ind, file.hdr.id)

\* Mutant: the flags of the old window are kept.
NewHeadOldFlags(comp) == WithEncLen([Win.head EXCEPT !.lens = Sizes(comp.sect)])

\* new_wh of cmd_recode
NewHead(comp) ==
    WithEncLen([Win.head EXCEPT !.enc_len = 0, !.del_ind = comp.del_ind,
                                !.lens = Sizes(comp.sect)])

\* Mutant: the window is not counted.
AdvanceUncounted ==
    /\ pos' = pos
    /\ got' = Append(got, [head |-> Win.head, sect |-> Raw])
    /\ UNCHANGED <<given, file, app, damage, job, status>>

Advance ==
    /\ pos' = pos + 1
    /\ got' = Append(got, [head |-> Win.head, sect |-> IF job.tool \in {"printhdrs", "printhdr"}
                                                       THEN Taken ELSE Raw])
    /\ UNCHANGED <<given, file, app, damage, job, status>>

DecodeWindow ==
    /\ MoreWindows /\ job.tool = "decode" /\ Acceptable
    /\ Advance
    /\ UNCHANGED <<out, shown>>

RecodeWindow ==
    /\ MoreWindows /\ job.tool = "recode" /\ Acceptable
    /\ \E n \in Packings :
         LET comp == IF job.by = Absent THEN [sect |-> Raw, del_ind |-> {}]
                     ELSE CompressSections(job.by, Raw, n)
         IN  out' = AddWindow(out, [head |-> NewHead(comp), sect |-> comp.sect])
    /\ Advance
    /\ UNCHANGED shown

\* target_offset of cmd_print
ShownOffset == IF pos = 0 THEN 0 ELSE shown[pos + 1] + file.windows[pos].head.target_len

PrintWindow ==
    /\ MoreWindows /\ job.tool \in {"printdelta", "printhdrs", "printhdr"} /\ Acceptable
    /\ Advance
    /\ shown' = Append(shown, ShownOffset)
    /\ UNCHANGED out

BadWindow ==
    /\ MoreWindows /\ ~Acceptable
    /\ status' = "failed"
    /\ UNCHANGED <<given, file, app, damage, job, readVars>>

\* A compressor or the output fails
RecodeFails ==
    /\ Running /\ job.tool = "recode"
    /\ status' = "failed"
    /\ UNCHANGED <<given, file, app, damage, job, readVars>>

\* What the user wants after a recode
Asked == CASE job.tool # "recode" \/ job.app = "keep" -> app
           [] job.app = "drop" -> NoApp
           [] job.app = "set" -> NewApp

\* Flush and exit 0; the recoded file takes the place of the other.
Close ==
    /\ Running /\ ~MoreWindows
    /\ status' = "ok"
    /\ file' = IF job.tool = "recode" THEN Seal(out) ELSE file
    /\ app' = Asked
    /\ UNCHANGED <<given, damage, job, readVars>>

\* Another program may be run on the file
Leave ==
    /\ status \in {"ok", "failed"} /\ damage = "none"
    /\ status' = "idle" /\ job' = NoJob
    /\ pos' = 0 /\ got' = <<>> /\ out' = NoFile(DefaultHeader) /\ shown' = <<>>
    /\ UNCHANGED <<given, file, app, damage>>

Next ==
    \/ \E w \in Windows : EncodeWindow(w)
    \/ FinishFile \/ Cut \/ Overwrite
    \/ Open \/ DecodeWindow \/ RecodeWindow \/ PrintWindow
    \/ BadWindow \/ RecodeFails \/ Close \/ Leave

Spec == Init /\ [][Next]_vars

----------------------------------------------------------------------------
(* Properties *)

TypeOK ==
    /\ app \in Apps \cup {NewApp, NoApp}
    /\ damage \in {"none", "cut", "bits", "length"}
    /\ job = NoJob \/ job \in Jobs
    /\ status \in {"encoding", "made", "idle", "running", "ok", "failed"}
    /\ file.len \in Nat /\ pos \in 0 .. Len(file.windows) /\ Len(got) = pos
    /\ Len(given) <= MaxWindows

\* What is the same in all deltas of one target
Fields(wh) == <<wh.win_ind, wh.copy, wh.target_len, wh.adler32>>

\* However often a delta was recoded, with whatever back ends, a program that
\* reads it window by window finds the copy windows, target lengths and
\* checksums that the encoder was given, and in their order; one that uses the
\* sections finds them as they were before any compression.  If it ends well
\* it has found all of them.  The application header is the one last asked for.
\* A program's count of windows is that of the windows it found (TypeOK).
Intact ==
    /\ TypeOK
    /\ \A k \in 1 .. Len(got) :
         /\ Fields(got[k].head) = Fields(given[k].head)
         /\ job.tool \in {"decode", "recode", "printdelta"} => got[k].sect = given[k].sect
    /\ status = "ok" /\ damage = "none" /\ job.tool # "printhdr" => Len(got) = Len(given)
    /\ status # "encoding" => file.hdr.app = app

\* A file, complete or not: the bytes behind enc_len are as many as it says,
\* a section is flagged exactly when it is compressed, which is by the
\* compressor of the file header, and only where it saves bytes.
Truthful(f) ==
    \A k \in 1 .. Len(f.windows) :
        LET w == f.windows[k]
        IN  /\ w.head.enc_len = BytesAfterEncLen(w.head) + SumLens(Sizes(w.sect))
            /\ \A x \in Section :
                 /\ w.head.lens[x] = w.sect[x].size
                 /\ w.sect[x].by = IF x \in w.head.del_ind THEN f.hdr.id ELSE Absent
                 /\ x \in w.head.del_ind => w.sect[x].size < w.sect[x].len

\* Every file that the encoder or recode writes, the part of it that a recode
\* leaves behind when it fails included, is truthful about itself.
FilesTruthful ==
    /\ damage \in {"none", "cut"} => Truthful(file)
    /\ Truthful(out)

\* What is needed to read a file to its end with a program
Readable(tool) ==
    \A k \in 1 .. Len(file.windows) :
        LET wh == file.windows[k].head
        IN  /\ wh.target_len <= HardMax
            /\ tool = "decode" => "target" \notin wh.win_ind
            /\ tool \in {"decode", "recode", "printdelta"} /\ wh.del_ind # {} => file.hdr.id \in Known

\* An undamaged file is refused for three reasons only: a window beyond the
\* hard limit, which the encoder does not enforce, a window that copies from
\* the target, or a compressed section of a back end the build lacks.  A
\* compressor named in the header of a file that has no compressed section,
\* unknown or NoCompression, is no reason.
ReadableAccepted ==
    damage = "none" /\ status = "failed" /\ job.tool # "recode" => ~Readable(job.tool)

\* A damaged file is never read to its end with success, by a program that
\* reads all of it, unless it was cut between two windows.
DamageNoticed ==
    damage # "none" /\ status = "ok" /\ job.tool \notin {Absent, "printhdr"} =>
        /\ damage = "cut"
        /\ \/ job.tool = "recode"
           \/ \E k \in 1 .. Len(file.windows) + 1 : file.len = Start(file, k)
           \/ file.len = FileBytes(file)

\* The print commands show the size of the file header and the offset of each
\* window in the target as they are.
ShownTrue ==
    shown # <<>> =>
        /\ shown[1] = HeaderBytes(file.hdr)
        /\ \A k \in 1 .. Len(shown) - 1 :
             shown[k + 1] = FoldLeft(LAMBDA n, w : n + w.head.target_len, 0, SubSeq(given, 1, k - 1))
=============================================================================
