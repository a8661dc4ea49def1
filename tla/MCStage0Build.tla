----------------------------- MODULE MCStage0Build -----------------------------
(* Model-checking instance of Stage0Build: two processes, one edit, a      *)
(* source that fails when it runs and one that does not assemble beside    *)
(* the one init writes, and package files that differ from init's in one   *)
(* line, in the order of the lines, by lines twice or behind "end".        *)
EXTENDS Stage0Build

line(f, v) == [f |-> f, v |-> v]
file(lines) == [k |-> "lines", lines |-> lines]
Without(s, i) == SubSeq(s, 1, i - 1) \o SubSeq(s, i + 1, Len(s))

Refused == {file(Without(HelloLines, i)) : i \in {1, 3, 9}}
             \cup {file(Append(HelloLines, l)) :
                     l \in {line("version", "1"), line("type", "program"), line("dep", "1"),
                            line("what", ""), line("target", "wasm"), line("runtime", "big"),
                            line("type", "library"), line("type", "build-script")}}
Accepted == {HelloFile,
             file(<<line("blank", "")>> \o Without(HelloLines, 7) \o <<line("comment", "")>>),
             file(<<line("blank", ""), line("end", "")>> \o Without(HelloLines, 9)
                    \o <<line("requires-none", ""), line("requires", {"heap"}),
                         line("target", "host"), line("panic", ""), line("package", "other")>>),
             file(Without(HelloLines, 9) \o <<line("requires", {"none"}), line("end", "")>>)}

MCManifests == Refused \cup Accepted \cup {NoFile, [k |-> "unreadable", lines |-> << >>]}
source(id, fault) == [id |-> id, fault |-> fault]
MCSources == {source(1, "status"), source(2, "nasm")}
=============================================================================
