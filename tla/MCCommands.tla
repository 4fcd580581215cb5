----------------------------- MODULE MCCommands -----------------------------
(***************************************************************************)
(* One process with every command on aliased and missing files, next to    *)
(* one that writes the same files.                                         *)
(***************************************************************************)
EXTENDS Commands

Old == Data(1)
New == Data(2)

MCProcs == {"p", "q"}
MCPaths == {"a", "b", "c"}

Disk(a, b, c) == [x \in MCPaths |-> CASE x = "a" -> a [] x = "b" -> b [] OTHER -> c]

\* A source, a patch for it, and a second patch, one for another source, the
\* target itself, or nothing.
MCDisks ==
  {Disk(Old, Delta(Old, New), c) :
     c \in {Absent, Delta(New, Old), Delta(Old, New), New}}
  \cup {Disk(Absent, Delta(Empty, Old), Delta(Old, New))}

Job(cmd, source, inputs, output) ==
  [NoJob EXCEPT !.cmd = cmd, !.source = source, !.inputs = inputs, !.output = output]

Forced(js)   == {[j EXCEPT !.force = f] : f \in BOOLEAN, j \in js}
Stdout(js)   == js \cup {[j EXCEPT !.stdout = TRUE, !.quiet = q] : q \in BOOLEAN, j \in js}
Checked(js)  == {[j EXCEPT !.check = f] : f \in BOOLEAN, j \in js}
Verified(js) == {[j EXCEPT !.verify = f] : f \in BOOLEAN, j \in js}

Streams(cmd, sources, outputs) ==
  {Job(cmd, s, <<i>>, o) : s \in sources, i \in {"b", "c"}, o \in outputs}

AnyPath == MCPaths \cup {NoPath}

Wide ==
  Checked(Stdout(Forced(Streams("encode", {"a", NoPath}, AnyPath))))
  \cup Checked(Stdout(Forced(Streams("decode", {"a", NoPath}, AnyPath))))
  \cup Verified(Forced(Streams("decode", {"a", "c"}, MCPaths)))
  \cup Stdout(Forced(Streams("recode", {NoPath}, AnyPath)))
  \cup Streams("encode_file", {"a"}, MCPaths)
  \cup Streams("decode_file", {"a"}, MCPaths)
  \cup Stdout(Forced({Job("merge", s, i, o) :
         s \in {"a", NoPath}, i \in {<<"b">>, <<"b", "c">>}, o \in AnyPath}))

MCJobs ==
  [p \in MCProcs |->
     IF p = "p" THEN Wide
     ELSE {Job("encode_file", "a", <<"b">>, "c"), Job("decode", "a", <<"b">>, "c"),
           [Job("merge", "a", <<"b", "c">>, "a") EXCEPT !.force = TRUE]}]
=============================================================================
