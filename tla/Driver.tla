------------------------------- MODULE Driver -------------------------------
(***************************************************************************)
(* The surf command line: check, emit-asm, build, build-raw and build-fasm *)
(* (main.asm), the files they write under build/ (emit_main_asm,           *)
(* emit_raw_binary_asm, emit_fasm_direct_asm) and the assembler they run   *)
(* (sys/process.asm).                                                      *)
(*                                                                         *)
(* Several surf processes may run at once, or one after another, and any   *)
(* of them may be killed, which leaves the assembler it has started:       *)
(* build/ is all they share.  A file is the sequence of the pieces written *)
(* to it, each known by its package; a process writes at its own offset,   *)
(* so two that write one file interleave.  The front end is one step that  *)
(* succeeds or fails.  Commands that only print are left out.              *)
(***************************************************************************)
EXTENDS Integers, Sequences

CONSTANTS
  Procs,     (* surf processes, each runs one command                      *)
  Packages,
  Size,      (* pieces the emitter writes for a package                    *)
  Hole       (* what a file reads where nothing was written                *)

ASSUME DriverAssumption ==
  /\ Size \in [Packages -> Nat \ {0}]
  /\ Hole \notin Packages

VARIABLES
  asm,   (* build/main.asm, build/raw.asm and build/fasm.asm by backend    *)
  bin,   (* build/hello, build/raw.bin and build/fasm.bin                  *)
  proc

vars == <<asm, bin, proc>>

Backends == {"hello", "raw", "fasm"}
Commands == [op : {"check", "emit"}, backend : {"hello"}] \cup [op : {"build"}, backend : Backends]

(* An "orphan" is the child of a killed surf before its execve, "adrift"   *)
(* the assembler of one.                                                   *)
Places == {"start", "front", "open", "write", "fork", "primary", "fallback", "assemble",
           "exited", "killed", "orphan", "adrift"}

(* "sent" counts the pieces emitted, "off" is the offset of out_fd,        *)
(* "source" what the assembler read, "status" the exit code.  "alone" is a *)
(* history: nobody else has written to its files, and no write of its own  *)
(* was lost.                                                               *)
Proc == [pc : Places, cmd : Commands, pkg : Packages, sent : Nat, off : Nat,
         source : Seq(Packages \cup {Hole}), status : {0, 1}, alone : BOOLEAN]

Whole(pkg) == [i \in 1 .. Size[pkg] |-> pkg]

At(p, pc) == proc[p].pc = pc
Backend(p) == proc[p].cmd.backend
Move(p, pc) == proc' = [proc EXCEPT ![p].pc = pc]
Exit(p, code) == proc' = [proc EXCEPT ![p].pc = "exited", ![p].status = code]

(* The processes after p has written a file of its backend.                *)
Disturbed(p) ==
  [q \in Procs |->
     IF q # p /\ Backend(q) = Backend(p) THEN [proc[q] EXCEPT !.alone = FALSE] ELSE proc[q]]

-----------------------------------------------------------------------------
_start(p, cmd, pkg) ==
  /\ At(p, "start")
  /\ proc' = [proc EXCEPT ![p] = [@ EXCEPT !.pc = "front", !.cmd = cmd, !.pkg = pkg, !.alone = TRUE]]
  /\ UNCHANGED <<asm, bin>>

compile_package(p) ==
  /\ At(p, "front")
  /\ \/ Exit(p, 1)
     \/ IF proc[p].cmd.op = "check" THEN Exit(p, 0) ELSE Move(p, "open")
  /\ UNCHANGED <<asm, bin>>

Truncated_Keeps(b) == asm

Truncated(b) == [asm EXCEPT ![b] = << >>]

(* The file is opened with O_TRUNC.                                        *)
OpenAsm(p) ==
  /\ At(p, "open")
  /\ \/ /\ asm' = Truncated(Backend(p))
        /\ proc' = [Disturbed(p) EXCEPT ![p].pc = "write"]
     \/ Exit(p, 1) /\ UNCHANGED asm
  /\ UNCHANGED bin

Written_Appends(file, off, piece) == Append(file, piece)

Written(file, off, piece) ==
  [i \in 1 .. IF off + 1 > Len(file) THEN off + 1 ELSE Len(file) |->
     IF i = off + 1 THEN piece ELSE IF i <= Len(file) THEN file[i] ELSE Hole]

(* write_all does not look at what the write returns: a piece the file     *)
(* system refuses is lost and the emission goes on.                        *)
WriteAsm(p) ==
  /\ At(p, "write") /\ proc[p].sent < Size[proc[p].pkg]
  /\ \/ /\ asm' = [asm EXCEPT ![Backend(p)] = Written(@, proc[p].off, proc[p].pkg)]
        /\ proc' = [Disturbed(p) EXCEPT ![p].sent = @ + 1, ![p].off = @ + 1]
     \/ /\ proc' = [proc EXCEPT ![p].sent = @ + 1, ![p].alone = FALSE]
        /\ UNCHANGED asm
  /\ UNCHANGED bin

(* A construct the emitter does not support ends the emission where it is. *)
EmitFails(p) ==
  /\ At(p, "write")
  /\ Exit(p, 1)
  /\ UNCHANGED <<asm, bin>>

CloseAsm(p) ==
  /\ At(p, "write") /\ proc[p].sent = Size[proc[p].pkg]
  /\ IF proc[p].cmd.op = "emit" THEN Exit(p, 0) ELSE Move(p, "fork")
  /\ UNCHANGED <<asm, bin>>

-----------------------------------------------------------------------------
(* run_fasm_build and its two copies: run_tool with /usr/local/bin/fasm,   *)
(* then, when that cannot be started, with the fallback path.              *)

Fork(p) ==
  /\ At(p, "fork")
  /\ Exit(p, 1) \/ Move(p, "primary")
  /\ UNCHANGED <<asm, bin>>

(* execve, and the assembler reads the file.                               *)
Exec(p) ==
  /\ proc[p].pc \in {"primary", "fallback"}
  /\ proc' = [proc EXCEPT ![p] = [@ EXCEPT !.pc = "assemble", !.source = asm[Backend(p)]]]
  /\ UNCHANGED <<asm, bin>>

(* The child exits with 127 when execve fails, a status of 32512.          *)
ExecFails(p) ==
  /\ \/ At(p, "primary") /\ (Exit(p, 1) \/ Move(p, "fallback"))
     \/ At(p, "fallback") /\ Exit(p, 1)
  /\ UNCHANGED <<asm, bin>>

Assemble(p) ==
  /\ At(p, "assemble")
  /\ bin' = [bin EXCEPT ![Backend(p)] = proc[p].source]
  /\ proc' = [Disturbed(p) EXCEPT ![p] = [@ EXCEPT !.pc = "exited", !.status = 0]]
  /\ UNCHANGED asm

AfterFailure_StartsOver(p) == Move(p, "fork")

AfterFailure(p) == Exit(p, 1)

(* The assembler reports an error and writes nothing: any other status than*)
(* 32512 is final.                                                         *)
AssembleFails(p) ==
  /\ At(p, "assemble")
  /\ AfterFailure(p)
  /\ UNCHANGED <<asm, bin>>

(* A signal ends surf alone, or its child as well.                         *)
Kill(p) ==
  /\ proc[p].pc \notin {"start", "exited", "killed"}
  /\ \/ Move(p, "killed")
     \/ proc[p].pc \in {"primary", "fallback"} /\ Move(p, "orphan")
     \/ At(p, "assemble") /\ Move(p, "adrift")
  /\ UNCHANGED <<asm, bin>>

(* The child of a killed surf goes on, with nobody to wait for it: no      *)
(* second path is tried.                                                   *)
Outlives(p) ==
  \/ /\ At(p, "orphan")
     /\ proc' = [proc EXCEPT ![p] = [@ EXCEPT !.pc = "adrift", !.source = asm[Backend(p)]]]
     /\ UNCHANGED <<asm, bin>>
  \/ /\ At(p, "adrift")
     /\ bin' = [bin EXCEPT ![Backend(p)] = proc[p].source]
     /\ proc' = [Disturbed(p) EXCEPT ![p].pc = "killed"]
     /\ UNCHANGED asm
  \/ /\ proc[p].pc \in {"orphan", "adrift"}
     /\ Move(p, "killed")
     /\ UNCHANGED <<asm, bin>>

-----------------------------------------------------------------------------
Init ==
  /\ asm = [b \in Backends |-> << >>]
  /\ bin = [b \in Backends |-> << >>]
  /\ \E pkg \in Packages :
       proc = [p \in Procs |-> [pc |-> "start", cmd |-> [op |-> "check", backend |-> "hello"],
                                pkg |-> pkg, sent |-> 0, off |-> 0, source |-> << >>,
                                status |-> 1, alone |-> FALSE]]

Work(p) ==
  \/ compile_package(p)
  \/ OpenAsm(p)
  \/ WriteAsm(p)
  \/ EmitFails(p)
  \/ CloseAsm(p)
  \/ Fork(p)
  \/ Exec(p)
  \/ ExecFails(p)
  \/ Assemble(p)
  \/ AssembleFails(p)
  \/ Outlives(p)

Next ==
  \E p \in Procs :
    \/ \E cmd \in Commands, pkg \in Packages : _start(p, cmd, pkg)
    \/ Work(p)
    \/ Kill(p)

(* A process that is not killed is scheduled, and an assembler ends.       *)
Spec == Init /\ [][Next]_vars /\ \A p \in Procs : WF_vars(Work(p))

-----------------------------------------------------------------------------
(* Types; and a file never outgrows the package it was written for.        *)
DriverTypeOK ==
  /\ asm \in [Backends -> Seq(Packages \cup {Hole})]
  /\ bin \in [Backends -> Seq(Packages \cup {Hole})]
  /\ \A b \in Backends : \E g \in Packages : Len(asm[b]) <= Size[g]
  /\ proc \in [Procs -> Proc]

Succeeded(p) == At(p, "exited") /\ proc[p].status = 0

(* A build that reports success leaves its own package's binary, whole,    *)
(* whatever earlier or killed runs left under build/, and whatever the     *)
(* other backends are building, as long as no other run of surf, nor the   *)
(* assembler of a killed one, wrote the same files meanwhile and the file  *)
(* system took every write.                                                *)
FreshBinary ==
  \A p \in Procs :
    Succeeded(p) /\ proc[p].alone /\ proc[p].cmd.op = "build" => bin[Backend(p)] = Whole(proc[p].pkg)

(* Every command that is not killed exits, and what a killed one has left  *)
(* running ends.                                                           *)
Terminates == \A p \in Procs : At(p, "front") ~> proc[p].pc \in {"exited", "killed"}
=============================================================================
