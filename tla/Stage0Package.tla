---------------------------- MODULE Stage0Package ----------------------------
(***************************************************************************)
(* The package file of the Rust stage-0 compiler                           *)
(* (src/prototypes/rust_stage0/src/package.rs).  A line of surf.pkg is     *)
(* [f, v]: its field and what the code tells apart of its values.  The     *)
(* values of "requires" are a set of capabilities; a line with nothing but *)
(* "requires none" has the field "requires-none", and "none" is a          *)
(* capability like any other when more stands behind it.  A version is     *)
(* "semver" or not.                                                        *)
(***************************************************************************)
EXTENDS Naturals, Sequences, FiniteSets

Absent == "absent"
Fields == {"package", "version", "type", "target", "runtime"}  \* no package is without them
Types == {"executable", "library", "build-script"}
Ignored == {"blank", "comment", "panic", "budget", "link"}

Blank == [package |-> Absent, version |-> Absent, type |-> Absent, target |-> Absent,
          runtime |-> Absent, entry |-> Absent, requires |-> {}, deps |-> 0, end |-> FALSE,
          errors |-> << >>]
Bad(p) == [p EXCEPT !.errors = Append(@, "E0902")]

(* One round of the loop over the lines; a later line replaces an earlier. *)
parse_line(p, line) ==
  CASE line.f \in {"package", "target", "runtime", "entry"} -> [p EXCEPT ![line.f] = line.v]
    [] line.f = "version" -> IF line.v = "semver" THEN [p EXCEPT !.version = line.v] ELSE Bad(p)
    [] line.f = "type" -> IF line.v \in Types THEN [p EXCEPT !.type = line.v] ELSE Bad(p)
    [] line.f = "requires-none" -> [p EXCEPT !.requires = {}]
    [] line.f = "requires" -> [p EXCEPT !.requires = @ \cup line.v]
    [] line.f = "dep" -> IF line.v = "semver" THEN [p EXCEPT !.deps = @ + 1] ELSE Bad(p)
    [] line.f = "end" -> [p EXCEPT !.end = TRUE]
    [] line.f \in Ignored -> p
    [] OTHER -> Bad(p)

(* The loop: what is known behind the first n lines. *)
read_lines(lines) ==
  LET read[n \in 0..Len(lines)] == IF n = 0 THEN Blank ELSE parse_line(read[n - 1], lines[n])
  IN read[Len(lines)]

If(condition, code) == IF condition THEN <<code>> ELSE << >>
Absentees(p) == {f \in Fields : p[f] = Absent}
(* Mutant: nobody asks for the end. *)
Missing_NoEnd(p) == [i \in 1 .. Cardinality(Absentees(p)) |-> "E0902"]

(* One code for a missing end and for every missing field. *)
Missing(p) == If(~p.end, "E0902") \o [i \in 1 .. Cardinality(Absentees(p)) |-> "E0902"]

entry_source(type) == CASE type = "executable" -> "src/main.snapsurf"
                        [] type = "library" -> "src/lib.snapsurf"
                        [] OTHER -> "build.snapsurf"

(* parse_package_text: the package, with the codes that refuse it.  src    *)
(* says whether there is a src directory, files what the package contains. *)
parse_package_text(lines, src, files) ==
  LET p == read_lines(lines)
      all == p.errors \o Missing(p)
  IN [p EXCEPT !.errors =
        CASE all # << >> -> all
          [] all = << >> /\ p.target \notin {"linux-x86_64", "host"} -> <<"E0904">>
          [] all = << >> /\ p.target \in {"linux-x86_64", "host"}
               /\ p.runtime \notin {"tiny", "none"} -> <<"E0904">>
          [] OTHER -> If((~src /\ p.type # "build-script") \/ entry_source(p.type) \notin files,
                         "E0903")]

(* Package::load: no file, a file that is no text, or its lines. *)
load(file, src, files) ==
  CASE file.k = "none" -> [Blank EXCEPT !.errors = <<"E0901">>]
    [] file.k = "unreadable" -> [Blank EXCEPT !.errors = <<"E0902">>]
    [] file.k = "lines" -> parse_package_text(file.lines, src, files)
-----------------------------------------------------------------------------
(* What surf.pkg says, without reading it line by line: the last line of a *)
(* field is its value, and the capabilities are those required behind the  *)
(* last "requires none".                                                   *)
WellFormed(line) ==
  CASE line.f \in {"version", "dep"} -> line.v = "semver"
    [] line.f = "type" -> line.v \in Types
    [] OTHER -> line.f \in {"package", "target", "runtime", "entry", "requires", "requires-none", "end"}
                             \cup Ignored
Lines(lines, f) == {i \in DOMAIN lines : lines[i].f = f}
IsLast(lines, i) == \A j \in Lines(lines, lines[i].f) : j <= i
SaysField(lines, f, value) == \E i \in Lines(lines, f) : IsLast(lines, i) /\ lines[i].v = value
SaysRequires(lines) ==
  {cap \in UNION {lines[i].v : i \in Lines(lines, "requires")} :
     \E i \in Lines(lines, "requires") :
        cap \in lines[i].v /\ \A j \in Lines(lines, "requires-none") : j < i}
SaysPackage(lines, p) ==
  /\ \A f \in Fields : SaysField(lines, f, p[f])
  /\ p.requires = SaysRequires(lines)

(* A file has to have every field and an "end", of lines that are well     *)
(* formed.  The grammar (docs/syntax_grammar.ebnf:144) wants more: each of *)
(* these lines once, the fields in their order in front of all the others, *)
(* and "end" behind them.  The code does not ask for that: a file that is  *)
(* Misplaced is accepted.                                                  *)
Complete(lines) ==
  /\ \A i \in DOMAIN lines : WellFormed(lines[i])
  /\ \A f \in Fields \cup {"end"} : Lines(lines, f) # {}
Place(f) == CASE f = "package" -> 1 [] f = "version" -> 2 [] f = "type" -> 3 [] f = "target" -> 4
              [] f = "runtime" -> 5 [] f = "end" -> 7 [] OTHER -> 6
InOrder(lines) ==
  \A i, j \in DOMAIN lines \ (Lines(lines, "blank") \cup Lines(lines, "comment")) :
    i < j => /\ Place(lines[i].f) <= Place(lines[j].f)
             /\ lines[i].f \in Fields \cup {"end"} => lines[j].f # lines[i].f
Grammatical(lines) == Complete(lines) /\ InOrder(lines)
Misplaced(lines) == Complete(lines) /\ ~InOrder(lines)
=============================================================================
