------------------------------ MODULE Stage0Build ------------------------------
(***************************************************************************)
(* The commands of the Rust stage-0 compiler (main.rs, driver.rs,          *)
(* source.rs) and the files they share.  Each process runs one command on  *)
(* the same package; processes overlap, any of them may be killed between  *)
(* two of its file operations (the assembler or linker it has called goes  *)
(* on), an operation may fail, and somebody edits the source.  A source is *)
(* [id, fault]: which text it is, and the first thing that is wrong with   *)
(* it.  The lexer, the parser and the check are one step here: they have   *)
(* modules of their own.                                                   *)
(***************************************************************************)
EXTENDS Stage0Package

CONSTANTS Procs,      \* the processes
          Names,      \* the names a package may have
          Manifests,  \* what surf.pkg may be at the start
          Sources,    \* what the source may be
          Edits       \* bound on the edits

VARIABLES manifest,   \* surf.pkg
          src,        \* whether there is a src directory
          main,       \* src/main.snapsurf
          dir,        \* whether there is a build directory
          asm, obj, bin,  \* build/<name>.asm, build/<name>.o and build/<name>
          proc,       \* the processes
          edits       \* edits so far

files == <<manifest, src, main>>
build == <<dir, asm, obj, bin>>
vars == <<files, build, proc, edits>>

(* A file of a build: none, cut short, or made of a source. *)
None == [id |-> 0, fault |-> "none"]
Cut == [id |-> 0, fault |-> "cut"]
Hello == [id |-> 9, fault |-> "ok"]
EmptySource == [id |-> 8, fault |-> "sema"]   \* no main
HelloLines == <<[f |-> "package", v |-> "hello"], [f |-> "version", v |-> "semver"],
                [f |-> "type", v |-> "executable"], [f |-> "target", v |-> "linux-x86_64"],
                [f |-> "runtime", v |-> "tiny"], [f |-> "entry", v |-> "main"],
                [f |-> "requires", v |-> {"syscall"}], [f |-> "dep", v |-> "semver"],
                [f |-> "end", v |-> ""]>>
NoFile == [k |-> "none", lines |-> << >>]
EmptyFile == [k |-> "lines", lines |-> << >>]
HelloFile == [k |-> "lines", lines |-> HelloLines]

(* What a package file may be: a field that is there has a value, and the  *)
(* package one of the names.                                               *)
HasValues(line) ==
  /\ line.f = "package" => line.v \in Names
  /\ line.f \in {"target", "runtime", "entry"} => line.v # Absent
PackageFile(file) ==
  \/ file.k \in {"none", "unreadable"}
  \/ /\ file.k = "lines" /\ Len(file.lines) \in Nat
     /\ DOMAIN file.lines = 1 .. Len(file.lines)
     /\ \A i \in DOMAIN file.lines : HasValues(file.lines[i])

(* The two files an init has created and not written yet are told from     *)
(* those somebody wrote, and a source from what is not one.                *)
ASSUME BuildAssumption ==
  /\ "hello" \in Names /\ Absent \notin Names
  /\ \A file \in Manifests : PackageFile(file) /\ file # EmptyFile
  /\ {None, Cut, EmptySource} \cap Sources = {}

(* "check" also stands for emit asm, which prints what it compiled; "help" *)
(* for a command line real_main does not know.                             *)
Commands == {"init", "check", "build", "run", "clean", "help"}
Compiling == {"check", "build", "run"}
Unstarted == [pc |-> "idle", cmd |-> "", pkg |-> Blank, unit |-> None, ran |-> None, exit |-> 0,
              diags |-> << >>, alone |-> TRUE]

Pc(p) == proc[p].pc
At(p, pc) == Pc(p) = pc
Ended == {"exited", "killed"}
Active(p) == Pc(p) \notin Ended \cup {"idle"}   \* also what a killed one has left running
Name(p) == proc[p].pkg.package

(* The files are those of an executable package; what the others read, a   *)
(* library or a build script, is not there.                                *)
FilesOf == IF main # None THEN {"src/main.snapsurf"} ELSE {}

Move(p, pc) == proc' = [proc EXCEPT ![p].pc = pc]
(* What a process leaves behind when it ends: its exit code and what it    *)
(* printed; ran is the binary it has run.                                  *)
Leaves(p, pc, code, diags, ran) ==
  proc' = [proc EXCEPT ![p] = [Unstarted EXCEPT !.pc = pc, !.cmd = proc[p].cmd, !.exit = code,
                                                !.diags = diags, !.ran = ran]]
Exit(p, code, diags) == Leaves(p, "exited", code, diags, None)
(* Mutant: a failure is not printed. *)
Fail_Silent(p, code) == Exit(p, 1, << >>)

Fail(p, code) == Exit(p, 1, <<code>>)

(* An operation of the system fails: nothing, or nothing more, is done.    *)
IoError(p) == Fail(p, "E9000") /\ UNCHANGED <<files, build>>
-----------------------------------------------------------------------------
(* real_main: from now on p and the processes under way disturb each other.*)
start(p, cmd) ==
  /\ At(p, "idle")
  /\ LET others == {q \in Procs : Active(q)}
         first == CASE cmd = "init" -> "mksrc" [] cmd \in Compiling -> "load"
                    [] cmd = "clean" -> "clean" [] OTHER -> "exited"
     IN proc' = [q \in Procs |->
          IF q = p THEN [proc[p] EXCEPT !.pc = first, !.cmd = cmd, !.alone = others = {},
                                        !.exit = IF cmd = "help" THEN 2 ELSE 0]
          ELSE IF q \in others THEN [proc[q] EXCEPT !.alone = FALSE] ELSE proc[q]]
  /\ UNCHANGED <<files, build>>

(* Mutant: a package with a src directory is taken to have its surf.pkg. *)
mksrc_SrcMeansPackage(p) == /\ At(p, "mksrc")
                            /\ src' = TRUE /\ Move(p, IF src THEN "main" ELSE "pkg")
                            /\ UNCHANGED <<manifest, main, build>>

(* init: each of the two files is written unless it is there.  Whether it  *)
(* is there is one question, fs::write another step: it creates the file   *)
(* or empties the one that is there by then, and fills it afterwards.      *)
mksrc(p) == /\ At(p, "mksrc")
            /\ \/ src' = TRUE /\ Move(p, "pkg") /\ UNCHANGED <<manifest, main, build>>
               \/ IoError(p)
create_pkg(p) ==
  /\ At(p, "pkg")
  /\ Move(p, IF manifest = NoFile THEN "open pkg" ELSE "main")
  /\ UNCHANGED <<files, build>>
open_pkg(p) ==
  /\ At(p, "open pkg")
  /\ \/ manifest' = EmptyFile /\ Move(p, "write pkg") /\ UNCHANGED <<src, main, build>>
     \/ IoError(p)
write_pkg(p) ==
  /\ At(p, "write pkg")
  /\ \/ manifest' = HelloFile /\ Move(p, "main") /\ UNCHANGED <<src, main, build>>
     \/ IoError(p)
create_main(p) ==
  /\ At(p, "main")
  /\ IF main = None THEN Move(p, "open main") ELSE Exit(p, 0, << >>)
  /\ UNCHANGED <<files, build>>
open_main(p) ==
  /\ At(p, "open main")
  /\ \/ main' = EmptySource /\ Move(p, "write main") /\ UNCHANGED <<manifest, src, build>>
     \/ IoError(p)

(* Behind an edit the file may be another one than was opened, or be gone: *)
(* what is written goes nowhere then.                                      *)
write_main(p) ==
  /\ At(p, "write main")
  /\ \/ /\ main' \in IF main = None THEN {None} ELSE IF edits = 0 THEN {Hello} ELSE {main, Hello}
        /\ Exit(p, 0, << >>) /\ UNCHANGED <<manifest, src, build>>
     \/ IoError(p)
-----------------------------------------------------------------------------
(* compile_package: Package::load looks whether the source is there, and   *)
(* only then the source is read.                                           *)
LoadPackage(p) ==
  /\ At(p, "load")
  /\ \E pkg \in {load(manifest, src, FilesOf)} :
       IF pkg.errors # << >> THEN Exit(p, 1, pkg.errors)
       ELSE proc' = [proc EXCEPT ![p].pc = "source", ![p].pkg = pkg]
  /\ UNCHANGED <<files, build>>

(* SourceFile::load_snapsurf, then the lexer, the parser and the check,    *)
(* each only when the one before reported nothing.                         *)
Refusal == [bom |-> "E0001", utf8 |-> "E0002", lex |-> "E0101", parse |-> "E0206", sema |-> "E0902"]
Compile(p) ==
  /\ At(p, "source")
  /\ \/ /\ main # None
        /\ IF main.fault \in DOMAIN Refusal THEN Fail(p, Refusal[main.fault])
           ELSE IF proc[p].cmd = "check" THEN Exit(p, 0, << >>)
           ELSE proc' = [proc EXCEPT ![p].pc = "mkdir", ![p].unit = main]
        /\ UNCHANGED <<files, build>>
     \/ IoError(p)
-----------------------------------------------------------------------------
(* run_build. *)
create_build_dir(p) ==
  /\ At(p, "mkdir")
  /\ \/ dir' = TRUE /\ Move(p, "asm") /\ UNCHANGED <<files, asm, obj, bin>>
     \/ IoError(p)

(* fs::write empties the file and then fills it; a file that was filled by *)
(* somebody else in between is overwritten from its start.                 *)
open_asm(p) ==
  /\ At(p, "asm")
  /\ \/ dir /\ asm' = [asm EXCEPT ![Name(p)] = Cut] /\ Move(p, "write asm")
          /\ UNCHANGED <<files, dir, obj, bin>>
     \/ IoError(p)
write_asm(p) ==
  /\ At(p, "write asm")
  /\ \/ /\ asm' \in {[asm EXCEPT ![Name(p)] = f] :
                      f \in IF asm[Name(p)] = Cut THEN {proc[p].unit}
                            ELSE IF asm[Name(p)] = None THEN {None} ELSE {proc[p].unit, Cut}}
        /\ Move(p, "nasm")
        /\ UNCHANGED <<files, dir, obj, bin>>
     \/ IoError(p)

(* nasm and ld make their output of their input; one they cannot use they  *)
(* refuse, and the output stays as it was or is removed.                   *)
Made(in) == IF in \in {None, Cut} THEN {Cut} ELSE {in}
Usable(in) == in # None /\ in.fault # "nasm"
Assembles(p) ==
  /\ dir /\ Usable(asm[Name(p)])
  /\ obj' \in {[obj EXCEPT ![Name(p)] = f] : f \in Made(asm[Name(p)])}
  /\ UNCHANGED <<files, dir, asm, bin>>
AssemblyFails(p) == /\ obj' \in {obj, [obj EXCEPT ![Name(p)] = None]}
                    /\ UNCHANGED <<files, dir, asm, bin>>

(* Mutants: the status of nasm is not looked at; a failure is tried again. *)
nasm_IgnoresStatus(p) == /\ At(p, "nasm")
                         /\ Assembles(p) \/ AssemblyFails(p)
                         /\ Move(p, "ld")
nasm_Retries(p) == /\ At(p, "nasm")
                   /\ \/ Assembles(p) /\ Move(p, "ld")
                      \/ AssemblyFails(p) /\ Move(p, "asm")

nasm(p) == /\ At(p, "nasm")
           /\ \/ Assembles(p) /\ Move(p, "ld")
              \/ AssemblyFails(p) /\ Fail(p, "E9000")

Links(p) == /\ dir /\ obj[Name(p)] # None
            /\ bin' = [bin EXCEPT ![Name(p)] = obj[Name(p)]]
            /\ UNCHANGED <<files, dir, asm, obj>>
LinkFails(p) == /\ bin' \in {bin, [bin EXCEPT ![Name(p)] = None]}
                /\ UNCHANGED <<files, dir, asm, obj>>
ld(p) ==
  /\ At(p, "ld")
  /\ \/ Links(p) /\ IF proc[p].cmd = "run" THEN Move(p, "exec") ELSE Exit(p, 0, << >>)
     \/ LinkFails(p) /\ Fail(p, "E9000")

(* run_executable: the program of the build directory, whatever it is now. *)
exec(p) ==
  /\ At(p, "exec")
  /\ \/ /\ bin[Name(p)] # None
        /\ LET code == IF bin[Name(p)].fault = "status" THEN 1 ELSE 0
           IN Leaves(p, "exited", code, If(code = 1, "E9000"), bin[Name(p)])
        /\ UNCHANGED <<files, build>>
     \/ IoError(p)

clean(p) ==
  /\ At(p, "clean")
  /\ \/ /\ dir' = FALSE /\ asm' = [n \in Names |-> None] /\ obj' = asm' /\ bin' = asm'
        /\ Exit(p, 0, << >>) /\ UNCHANGED files
     \/ /\ dir   \* one of the files is gone, the rest is still there
        /\ \/ asm' = [n \in Names |-> None] /\ UNCHANGED <<obj, bin>>
           \/ bin' = [n \in Names |-> None] /\ UNCHANGED <<asm, obj>>
        /\ Fail(p, "E9000") /\ UNCHANGED <<files, dir>>
-----------------------------------------------------------------------------
(* Outside of the program: a process is killed, the source is edited.  The *)
(* nasm or ld a killed process has started is a process of its own and     *)
(* makes its output, or not, with nobody to look at its status.            *)
Kill(p) == /\ Active(p)
           /\ \/ Leaves(p, "killed", 0, << >>, None)
              \/ At(p, "nasm") /\ Move(p, "left nasm")
              \/ At(p, "ld") /\ Move(p, "left ld")
           /\ UNCHANGED <<files, build, edits>>
Outlives(p) ==
  /\ \/ At(p, "left nasm") /\ (Assembles(p) \/ AssemblyFails(p))
     \/ At(p, "left ld") /\ (Links(p) \/ LinkFails(p))
  /\ Leaves(p, "killed", 0, << >>, None)
Edit == /\ src /\ edits < Edits
        /\ main' \in (Sources \cup {None}) \ {main}
        /\ edits' = edits + 1
        /\ UNCHANGED <<manifest, src, build, proc>>

Step(p) ==
  /\ \/ mksrc(p) \/ create_pkg(p) \/ open_pkg(p) \/ write_pkg(p)
     \/ create_main(p) \/ open_main(p) \/ write_main(p)
     \/ LoadPackage(p) \/ Compile(p) \/ create_build_dir(p) \/ open_asm(p) \/ write_asm(p)
     \/ nasm(p) \/ ld(p) \/ exec(p) \/ clean(p) \/ Outlives(p)
  /\ UNCHANGED edits

Init == /\ manifest \in Manifests
        /\ main \in Sources \cup {None}
        /\ src = (main # None)
        /\ dir = FALSE /\ asm = [n \in Names |-> None] /\ obj = asm /\ bin = asm
        /\ proc = [p \in Procs |-> Unstarted]
        /\ edits = 0
Start(p) == \E cmd \in Commands : start(p, cmd) /\ UNCHANGED edits
Next == (\E p \in Procs : Start(p) \/ Step(p) \/ Kill(p)) \/ Edit

(* A process that runs goes on; nobody has to start, kill or edit one.     *)
Spec == Init /\ [][Next]_vars /\ \A p \in Procs : WF_vars(Step(p))
-----------------------------------------------------------------------------
(* The state is well formed, and what a process reported is its exit code. *)
BuildTypeOK ==
  /\ manifest.k \in {"none", "unreadable", "lines"}
  /\ \A f \in {asm, obj, bin} : f \in [Names -> Sources \cup {None, Cut, Hello}]
  /\ \A p \in Procs : At(p, "exited") => (proc[p].exit = 1 <=> proc[p].diags # << >>)

(* The package a process is about to load: a file of the grammar's form is *)
(* accepted, and as what it says; against the grammar those are accepted   *)
(* that are Misplaced, as their last lines say; and no other.  So it is    *)
(* for these that "surf.pkg must end with end" (package.rs:134) fails.     *)
Loading == manifest.k = "lines" /\ \E p \in Procs : At(p, "load")
Loaded == load(manifest, src, FilesOf)
Malformed(pkg) == \E i \in DOMAIN pkg.errors : pkg.errors[i] = "E0902"
ManifestAsWritten ==
  Loading =>
    LET lines == manifest.lines
        accepted == ~Malformed(Loaded)
    IN /\ Grammatical(lines) => accepted
       /\ accepted => (Grammatical(lines) \/ Misplaced(lines)) /\ SaysPackage(lines, Loaded)
       /\ ~accepted => ~Complete(lines)

(* A build nobody disturbed (no process under way beside it, nor an        *)
(* assembler or linker a killed one has left) that exits 0 leaves the      *)
(* assembly, the object and the binary of the source it read, and a run    *)
(* has run that binary.                                                    *)
Succeeds(p) == Active(p) /\ proc'[p].pc = "exited" /\ proc'[p].exit = 0
SuccessIsCurrent ==
  [][\A p \in Procs : Succeeds(p) /\ proc[p].alone /\ proc[p].cmd \in {"build", "run"} =>
       LET unit == proc[p].unit
       IN /\ asm'[Name(p)] = unit /\ obj'[Name(p)] = unit /\ bin'[Name(p)] = unit
          /\ proc[p].cmd = "run" => proc'[p].ran = unit]_vars

(* An init that exits 0 leaves a package the compiler accepts, unless      *)
(* another init was cut short or somebody wrote one of the files himself.  *)
InitLeavesAPackage ==
  \A p \in Procs :
    At(p, "exited") /\ proc[p].cmd = "init" /\ proc[p].exit = 0 /\ edits = 0 =>
      /\ src /\ manifest # NoFile /\ main # None
      /\ manifest = EmptyFile \/ main = EmptySource =>
           \E q \in Procs \ {p} : proc[q].cmd = "init" /\ ~(At(q, "exited") /\ proc[q].exit = 0)

(* Every command that was started ends. *)
CommandsEnd == \A p \in Procs : Active(p) ~> Pc(p) \in Ended
=============================================================================
