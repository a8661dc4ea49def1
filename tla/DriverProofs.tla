---------------------------- MODULE DriverProofs ----------------------------
(***************************************************************************)
(* What is proved of the surf command line: its files hold what their      *)
(* types say and no more than a package, and a build that reports success  *)
(* with nobody else at its files leaves the whole binary of its package.   *)
(***************************************************************************)
EXTENDS Driver, SequenceTheorems, TLAPS

Piece == Packages \cup {Hole}

(* The types, without the bound on the length.                             *)
Typed ==
  /\ asm \in [Backends -> Seq(Piece)]
  /\ bin \in [Backends -> Seq(Piece)]
  /\ proc \in [Procs -> Proc]

(* No process is further in its file than in its package, and one that has *)
(* not begun to write has not counted either.                              *)
Counted(r) ==
  /\ r.off <= r.sent
  /\ r.sent <= Size[r.pkg]
  /\ r.pc \in {"start", "front", "open"} => r.sent = 0 /\ r.off = 0

(* No file is longer than some package.                                    *)
Fits == \A b \in Backends : \E g \in Packages : Len(asm[b]) <= Size[g]

(* What a process that was left alone has made of its files so far.        *)
OwnWork(r, a, b) ==
  r.alone =>
    /\ r.pc = "write" => r.off = r.sent /\ a = [i \in 1 .. r.sent |-> r.pkg]
    /\ r.pc \in {"fork", "primary", "fallback"} => a = Whole(r.pkg)
    /\ r.pc = "assemble" => r.source = Whole(r.pkg)
    /\ r.pc = "exited" /\ r.status = 0 /\ r.cmd.op = "build" => b = Whole(r.pkg)

DriverInv ==
  /\ Typed
  /\ Fits
  /\ \A p \in Procs : Counted(proc[p]) /\ OwnWork(proc[p], asm[Backend(p)], bin[Backend(p)])
-----------------------------------------------------------------------------
USE DriverAssumption

(* A step that only p takes part in: r is what it becomes.                 *)
LEMMA QuietStep ==
  ASSUME DriverInv, NEW p \in Procs, NEW r \in Proc,
         proc' = [proc EXCEPT ![p] = r], UNCHANGED <<asm, bin>>,
         Counted(r), OwnWork(r, asm[r.cmd.backend], bin[r.cmd.backend])
  PROVE  DriverInv'
<1>1. proc \in [Procs -> Proc]
  BY DEF DriverInv, Typed
<1>2. proc'[p] = r /\ \A q \in Procs \ {p} : proc'[q] = proc[q]
  BY <1>1
<1>3. Typed' /\ Fits'
  BY <1>1 DEF DriverInv, Typed, Fits
<1>4. \A q \in Procs : Counted(proc[q]) /\ OwnWork(proc[q], asm[Backend(q)], bin[Backend(q)])
  BY DEF DriverInv
<1>5. ASSUME NEW q \in Procs
      PROVE  Counted(proc'[q]) /\ OwnWork(proc'[q], asm[proc'[q].cmd.backend], bin[proc'[q].cmd.backend])
  BY <1>2, <1>4 DEF Backend
<1> QED BY <1>3, <1>5 DEF DriverInv, Backend, Counted, OwnWork

(* A step that writes a file: every process of the same backend sees it.   *)
LEMMA WritingStep ==
  ASSUME DriverInv, NEW p \in Procs, NEW r \in Proc,
         proc' = [Disturbed(p) EXCEPT ![p] = r],
         r.cmd.backend = Backend(p),
         NEW a \in Seq(Piece), NEW b \in Seq(Piece),
         asm' = [asm EXCEPT ![Backend(p)] = a],
         bin' = [bin EXCEPT ![Backend(p)] = b],
         \E g \in Packages : Len(a) <= Size[g],
         Counted(r), OwnWork(r, a, b)
  PROVE  DriverInv'
<1>1. proc \in [Procs -> Proc] /\ asm \in [Backends -> Seq(Piece)] /\ bin \in [Backends -> Seq(Piece)]
  BY DEF DriverInv, Typed
<1>2. \A q \in Procs : Backend(q) \in Backends
  BY <1>1 DEF Proc, Commands, Backend, Backends
<1>3. proc'[p] = r
  BY <1>1 DEF Disturbed
<1>4. \A q \in Procs \ {p} : Backend(q) = Backend(p) => proc'[q] = [proc[q] EXCEPT !.alone = FALSE]
  BY <1>1 DEF Disturbed
<1>5. \A q \in Procs \ {p} : Backend(q) # Backend(p) => proc'[q] = proc[q]
  BY <1>1 DEF Disturbed
<1>6. ASSUME NEW q \in Procs \ {p}
      PROVE  /\ [proc[q] EXCEPT !.alone = FALSE] \in Proc
             /\ Counted([proc[q] EXCEPT !.alone = FALSE])
             /\ [proc[q] EXCEPT !.alone = FALSE].cmd = proc[q].cmd
             /\ [proc[q] EXCEPT !.alone = FALSE].alone = FALSE
  <2>1. proc[q] \in Proc /\ Counted(proc[q])
    BY <1>1 DEF DriverInv
  <2> QED BY <2>1 DEF Proc, Counted
<1>7. ASSUME NEW q \in Procs
      PROVE  proc'[q] \in Proc
  <2>1. CASE q = p
    BY <2>1, <1>3
  <2>2. CASE q # p /\ Backend(q) = Backend(p)
    <3>1. proc'[q] = [proc[q] EXCEPT !.alone = FALSE]
      BY <2>2, <1>4, Zenon
    <3> QED BY <2>2, <3>1, <1>6, Zenon
  <2>3. CASE q # p /\ Backend(q) # Backend(p)
    BY <2>3, <1>1, <1>5
  <2> QED BY <2>1, <2>2, <2>3
<1>8. proc' \in [Procs -> Proc]
  <2>1. proc' = [q \in Procs |-> proc'[q]]
    BY DEF Disturbed
  <2> QED BY <2>1, <1>7
<1>9. asm'[Backend(p)] = a /\ bin'[Backend(p)] = b
  BY <1>1, <1>2
<1>10. \A c \in Backends \ {Backend(p)} : asm'[c] = asm[c] /\ bin'[c] = bin[c]
  BY <1>1
<1>11. Typed'
  BY <1>1, <1>2, <1>8 DEF Typed
<1>12. Fits'
  BY <1>9, <1>10 DEF DriverInv, Fits
<1>13. ASSUME NEW q \in Procs
       PROVE  /\ Counted(proc'[q])
              /\ OwnWork(proc'[q], asm'[proc'[q].cmd.backend], bin'[proc'[q].cmd.backend])
  <2>1. CASE q = p
    BY <2>1, <1>3, <1>9
  <2>2. CASE q # p /\ Backend(q) = Backend(p)
    <3>1. proc'[q] = [proc[q] EXCEPT !.alone = FALSE]
      BY <2>2, <1>4, Zenon
    <3>2. Counted(proc'[q]) /\ proc'[q].alone = FALSE
      BY <2>2, <3>1, <1>6, Zenon
    <3> QED BY <3>2 DEF OwnWork
  <2>3. CASE q # p /\ Backend(q) # Backend(p)
    <3>1. Counted(proc[q]) /\ OwnWork(proc[q], asm[Backend(q)], bin[Backend(q)])
      BY DEF DriverInv
    <3> QED BY <3>1, <2>3, <1>2, <1>5, <1>10 DEF Backend
  <2> QED BY <2>1, <2>2, <2>3
<1> QED BY <1>11, <1>12, <1>13 DEF DriverInv, Backend, Counted, OwnWork

(* One piece written at an offset inside the file.                         *)
LEMMA WrittenEffect ==
  ASSUME NEW file \in Seq(Piece), NEW off \in Nat, NEW piece \in Packages
  PROVE  /\ Written(file, off, piece) \in Seq(Piece)
         /\ Len(Written(file, off, piece)) = IF off + 1 > Len(file) THEN off + 1 ELSE Len(file)
         /\ (file = [i \in 1 .. off |-> piece]) =>
              Written(file, off, piece) = [i \in 1 .. off + 1 |-> piece]
<1> DEFINE m == IF off + 1 > Len(file) THEN off + 1 ELSE Len(file)
           w == Written(file, off, piece)
<1>1. m \in Nat /\ off + 1 \in 1 .. m
  OBVIOUS
<1>2. \A i \in 1 .. m : w[i] = IF i = off + 1 THEN piece ELSE IF i <= Len(file) THEN file[i] ELSE Hole
  BY DEF Written
<1>3. \A i \in 1 .. m : w[i] \in Piece
  BY <1>1, <1>2 DEF Piece
<1>4. w = [i \in 1 .. m |-> w[i]]
  BY DEF Written
<1>5. w \in Seq(Piece) /\ Len(w) = m
  <2>1. w \in [1 .. m -> Piece]
    BY <1>3, <1>4
  <2> HIDE DEF m, w
  <2> QED BY <1>1, <2>1
<1>6. ASSUME file = [i \in 1 .. off |-> piece]
      PROVE  w = [i \in 1 .. off + 1 |-> piece]
  <2>1. Len(file) = off
    <3>1. Len([i \in 1 .. off |-> piece]) = off
      OBVIOUS
    <3> QED BY <1>6, <3>1
  <2>2. m = off + 1
    BY <2>1
  <2>3. \A i \in 1 .. off + 1 : w[i] = piece
    BY <1>2, <1>6, <2>1, <2>2
  <2> QED BY <1>4, <2>2, <2>3
<1> QED BY <1>5, <1>6
-----------------------------------------------------------------------------
(* What is known of the process that moves.                                *)
LEMMA Mover ==
  ASSUME DriverInv, NEW p \in Procs
  PROVE  /\ proc \in [Procs -> Proc] /\ proc[p] \in Proc
         /\ proc[p].cmd.backend \in Backends
         /\ proc[p].pkg \in Packages /\ Size[proc[p].pkg] \in Nat \ {0}
         /\ Counted(proc[p])
         /\ OwnWork(proc[p], asm[proc[p].cmd.backend], bin[proc[p].cmd.backend])
         /\ asm[proc[p].cmd.backend] \in Seq(Piece) /\ bin[proc[p].cmd.backend] \in Seq(Piece)
<1>1. proc \in [Procs -> Proc] /\ proc[p] \in Proc
  BY DEF DriverInv, Typed
<1>2. proc[p].cmd.backend \in Backends /\ proc[p].pkg \in Packages
  BY <1>1 DEF Proc, Commands, Backends
<1>3. Counted(proc[p]) /\ OwnWork(proc[p], asm[proc[p].cmd.backend], bin[proc[p].cmd.backend])
  BY DEF DriverInv, Backend
<1> QED BY <1>1, <1>2, <1>3 DEF DriverInv, Typed

(* A process ends with a code; with 0 only when it has nothing to answer   *)
(* for, or has built what it was asked for.                                *)
LEMMA ExitKeeps ==
  ASSUME DriverInv, NEW p \in Procs, NEW code \in {0, 1}, Exit(p, code), UNCHANGED <<asm, bin>>,
         code = 0 => proc[p].cmd.op # "build"
  PROVE  DriverInv'
<1> DEFINE r == [proc[p] EXCEPT !.pc = "exited", !.status = code]
<1>1. proc' = [proc EXCEPT ![p] = r]
  BY Mover DEF Exit
<1>2. r \in Proc /\ Counted(r)
  BY Mover DEF Proc, Places, Counted
<1>3. r.pc = "exited" /\ r.status = code /\ r.cmd = proc[p].cmd
  BY Mover DEF Proc
<1>4. OwnWork(r, asm[r.cmd.backend], bin[r.cmd.backend])
  BY <1>3 DEF OwnWork
<1> HIDE DEF r
<1> QED BY <1>1, <1>2, <1>4, QuietStep

(* A process goes on, and what is said of it there was already true.       *)
LEMMA MoveKeeps ==
  ASSUME DriverInv, NEW p \in Procs, NEW pc \in Places, Move(p, pc), UNCHANGED <<asm, bin>>,
         pc \in {"open", "killed", "orphan", "adrift", "fork", "primary", "fallback"},
         pc = "open" => proc[p].pc = "front",
         pc = "fork" => proc[p].pc = "write" /\ proc[p].sent = Size[proc[p].pkg],
         pc \in {"primary", "fallback"} => proc[p].pc \in {"fork", "primary"}
  PROVE  DriverInv'
<1> DEFINE r == [proc[p] EXCEPT !.pc = pc]
<1>1. proc' = [proc EXCEPT ![p] = r]
  BY Mover DEF Move
<1>2. r \in Proc
  BY Mover DEF Proc
<1>3. /\ r.pc = pc /\ r.cmd = proc[p].cmd /\ r.pkg = proc[p].pkg /\ r.sent = proc[p].sent
      /\ r.off = proc[p].off /\ r.alone = proc[p].alone
  BY Mover DEF Proc
<1>4. Counted(r)
  BY <1>3, Mover DEF Counted
<1>5. OwnWork(r, asm[r.cmd.backend], bin[r.cmd.backend])
  BY <1>3, Mover DEF OwnWork, Whole
<1> HIDE DEF r
<1> QED BY <1>1, <1>2, <1>4, <1>5, QuietStep

LEMMA StartKeeps ==
  ASSUME DriverInv, NEW p \in Procs, NEW cmd \in Commands, NEW pkg \in Packages,
         _start(p, cmd, pkg)
  PROVE  DriverInv'
<1> DEFINE r == [proc[p] EXCEPT !.pc = "front", !.cmd = cmd, !.pkg = pkg, !.alone = TRUE]
<1>1. proc' = [proc EXCEPT ![p] = r] /\ UNCHANGED <<asm, bin>> /\ proc[p].pc = "start"
  BY DEF _start, At
<1>2. r \in Proc
  BY Mover DEF Proc, Places
<1>3. r.pc = "front" /\ r.sent = proc[p].sent /\ r.off = proc[p].off /\ r.pkg = pkg
  BY Mover DEF Proc
<1>4. Counted(r)
  BY <1>1, <1>3, Mover DEF Counted
<1>5. OwnWork(r, asm[r.cmd.backend], bin[r.cmd.backend])
  BY <1>3 DEF OwnWork
<1> HIDE DEF r
<1> QED BY <1>1, <1>2, <1>4, <1>5, QuietStep

LEMMA OpenKeeps ==
  ASSUME DriverInv, NEW p \in Procs, OpenAsm(p)
  PROVE  DriverInv'
<1>1. CASE Exit(p, 1) /\ UNCHANGED asm
  BY <1>1, ExitKeeps DEF OpenAsm
<1>2. CASE asm' = Truncated(Backend(p)) /\ proc' = [Disturbed(p) EXCEPT ![p].pc = "write"]
  <2> DEFINE r == [proc[p] EXCEPT !.pc = "write"]
  <2>1. proc' = [Disturbed(p) EXCEPT ![p] = r]
    BY <1>2 DEF Disturbed
  <2>2. r \in Proc
    BY Mover DEF Proc, Places
  <2>3. /\ r.pc = "write" /\ r.cmd = proc[p].cmd /\ r.pkg = proc[p].pkg
        /\ r.sent = proc[p].sent /\ r.off = proc[p].off
    BY Mover DEF Proc
  <2>4. r.sent = 0 /\ r.off = 0 /\ Counted(r)
    BY <2>3, Mover DEF OpenAsm, At, Counted
  <2>5. OwnWork(r, << >>, bin[Backend(p)])
    BY <2>3, <2>4 DEF OwnWork
  <2>6. asm' = [asm EXCEPT ![Backend(p)] = << >>] /\ bin' = [bin EXCEPT ![Backend(p)] = bin[Backend(p)]]
    BY <1>2 DEF OpenAsm, Truncated, DriverInv, Typed
  <2>7. << >> \in Seq(Piece) /\ \E g \in Packages : Len(<< >>) <= Size[g]
    BY Mover
  <2>8. r.cmd.backend = Backend(p) /\ bin[Backend(p)] \in Seq(Piece)
    BY <2>3, Mover DEF Backend
  <2> HIDE DEF r
  <2> QED BY <2>1, <2>2, <2>4, <2>5, <2>6, <2>7, <2>8, WritingStep
<1> QED BY <1>1, <1>2 DEF OpenAsm

LEMMA WriteKeeps ==
  ASSUME DriverInv, NEW p \in Procs, WriteAsm(p)
  PROVE  DriverInv'
<1>0. proc[p].pc = "write" /\ proc[p].sent < Size[proc[p].pkg] /\ bin' = bin
  BY DEF WriteAsm, At
<1>1. CASE /\ proc' = [proc EXCEPT ![p].sent = @ + 1, ![p].alone = FALSE]
           /\ UNCHANGED asm
  <2> DEFINE r == [proc[p] EXCEPT !.sent = proc[p].sent + 1, !.alone = FALSE]
  <2>1. proc' = [proc EXCEPT ![p] = r] /\ UNCHANGED <<asm, bin>>
    BY <1>0, <1>1, Mover DEF Proc
  <2>2. r \in Proc
    <3>1. proc[p] \in Proc
      BY Mover
    <3>2. proc[p].sent + 1 \in Nat /\ proc[p].off + 1 \in Nat
      BY <3>1 DEF Proc
    <3> QED BY <3>1, <3>2 DEF Proc
  <2>3. /\ r.pc = "write" /\ r.pkg = proc[p].pkg /\ r.sent = proc[p].sent + 1
        /\ r.off = proc[p].off /\ r.alone = FALSE
    BY <1>0, Mover DEF Proc
  <2>4. proc[p].sent \in Nat /\ proc[p].off \in Nat
    BY Mover DEF Proc
  <2>5. Counted(r)
    BY <1>0, <2>3, <2>4, Mover DEF Counted
  <2>6. OwnWork(r, asm[r.cmd.backend], bin[r.cmd.backend])
    BY <2>3 DEF OwnWork
  <2> HIDE DEF r
  <2> QED BY <2>1, <2>2, <2>5, <2>6, QuietStep
<1>2. CASE /\ asm' = [asm EXCEPT ![Backend(p)] = Written(@, proc[p].off, proc[p].pkg)]
           /\ proc' = [Disturbed(p) EXCEPT ![p].sent = @ + 1, ![p].off = @ + 1]
  <2> DEFINE r == [proc[p] EXCEPT !.sent = proc[p].sent + 1, !.off = proc[p].off + 1]
             old == asm[Backend(p)]
             new == Written(old, proc[p].off, proc[p].pkg)
  <2>1. proc' = [Disturbed(p) EXCEPT ![p] = r]
    BY <1>2, Mover DEF Disturbed, Proc
  <2>2. r \in Proc
    <3>1. proc[p] \in Proc
      BY Mover
    <3>2. proc[p].sent + 1 \in Nat /\ proc[p].off + 1 \in Nat
      BY <3>1 DEF Proc
    <3> QED BY <3>1, <3>2 DEF Proc
  <2>3. /\ r.pc = "write" /\ r.cmd = proc[p].cmd /\ r.pkg = proc[p].pkg
        /\ r.sent = proc[p].sent + 1 /\ r.off = proc[p].off + 1 /\ r.alone = proc[p].alone
    BY <1>0, Mover DEF Proc
  <2>4. proc[p].sent \in Nat /\ proc[p].off \in Nat
    BY Mover DEF Proc
  <2>5. Counted(r) /\ proc[p].off + 1 <= Size[proc[p].pkg]
    BY <1>0, <2>3, <2>4, Mover DEF Counted
  <2>6. /\ new \in Seq(Piece)
        /\ Len(new) = IF proc[p].off + 1 > Len(old) THEN proc[p].off + 1 ELSE Len(old)
        /\ old = [i \in 1 .. proc[p].off |-> proc[p].pkg] =>
             new = [i \in 1 .. proc[p].off + 1 |-> proc[p].pkg]
    <3>1. old \in Seq(Piece) /\ proc[p].pkg \in Packages
      BY Mover DEF Backend
    <3> HIDE DEF old
    <3> QED BY <2>4, <3>1, WrittenEffect
  <2>7. \E g \in Packages : Len(new) <= Size[g]
    <3>1. PICK g \in Packages : Len(old) <= Size[g]
      BY Mover DEF DriverInv, Fits, Backend
    <3>2. CASE proc[p].off + 1 > Len(old)
      BY <2>5, <2>6, <3>2, Mover
    <3>3. CASE ~(proc[p].off + 1 > Len(old))
      BY <2>6, <3>1, <3>3
    <3> QED BY <3>2, <3>3
  <2>8. OwnWork(r, new, bin[Backend(p)])
    <3>1. ASSUME r.alone
          PROVE  r.off = r.sent /\ new = [i \in 1 .. r.sent |-> r.pkg]
      <4>1. proc[p].off = proc[p].sent /\ old = [i \in 1 .. proc[p].sent |-> proc[p].pkg]
        BY <1>0, <2>3, <3>1, Mover DEF OwnWork, Backend
      <4> HIDE DEF new, old, r
      <4> QED BY <2>3, <2>6, <4>1
    <3> QED BY <2>3, <3>1 DEF OwnWork
  <2>9. asm' = [asm EXCEPT ![Backend(p)] = new] /\ bin' = [bin EXCEPT ![Backend(p)] = bin[Backend(p)]]
    BY <1>0, <1>2 DEF DriverInv, Typed
  <2>10. r.cmd.backend = Backend(p) /\ bin[Backend(p)] \in Seq(Piece)
    BY <2>3, Mover DEF Backend
  <2> HIDE DEF r, new
  <2> QED BY <2>1, <2>2, <2>5, <2>6, <2>7, <2>8, <2>9, <2>10, WritingStep
<1> QED BY <1>1, <1>2 DEF WriteAsm

(* The assembler, waited for or not, reads the file of its backend.        *)
LEMMA ReadKeeps ==
  ASSUME DriverInv, NEW p \in Procs, NEW pc \in {"assemble", "adrift"},
         proc' = [proc EXCEPT ![p] = [@ EXCEPT !.pc = pc, !.source = asm[Backend(p)]]],
         UNCHANGED <<asm, bin>>,
         pc = "assemble" => proc[p].pc \in {"primary", "fallback"}
  PROVE  DriverInv'
<1> DEFINE r == [proc[p] EXCEPT !.pc = pc, !.source = asm[Backend(p)]]
<1>1. proc' = [proc EXCEPT ![p] = r]
  OBVIOUS
<1>2. r \in Proc
  BY Mover DEF Proc, Places, Piece, Backend
<1>3. /\ r.pc = pc /\ r.cmd = proc[p].cmd /\ r.pkg = proc[p].pkg /\ r.sent = proc[p].sent
      /\ r.off = proc[p].off /\ r.alone = proc[p].alone /\ r.source = asm[Backend(p)]
  BY Mover DEF Proc
<1>4. Counted(r)
  BY <1>3, Mover DEF Counted
<1>5. OwnWork(r, asm[r.cmd.backend], bin[r.cmd.backend])
  BY <1>3, Mover DEF OwnWork, Backend
<1> HIDE DEF r
<1> QED BY <1>1, <1>2, <1>4, <1>5, QuietStep

(* It writes its output; surf exits with 0, or was killed before.          *)
LEMMA OutputKeeps ==
  ASSUME DriverInv, NEW p \in Procs, NEW pc \in {"exited", "killed"}, NEW code \in {0, 1},
         proc' = [Disturbed(p) EXCEPT ![p] = [@ EXCEPT !.pc = pc, !.status = code]],
         bin' = [bin EXCEPT ![Backend(p)] = proc[p].source], UNCHANGED asm,
         pc = "exited" => proc[p].pc = "assemble"
  PROVE  DriverInv'
<1> DEFINE r == [proc[p] EXCEPT !.pc = pc, !.status = code]
<1>1. /\ proc' = [Disturbed(p) EXCEPT ![p] = r]
      /\ asm' = [asm EXCEPT ![Backend(p)] = asm[Backend(p)]]
  BY DEF Disturbed, DriverInv, Typed
<1>2. r \in Proc
  BY Mover DEF Proc, Places
<1>3. /\ r.pc = pc /\ r.cmd = proc[p].cmd /\ r.pkg = proc[p].pkg /\ r.sent = proc[p].sent
      /\ r.off = proc[p].off /\ r.alone = proc[p].alone
  BY Mover DEF Proc
<1>4. Counted(r)
  BY <1>3, Mover DEF Counted
<1>5. OwnWork(r, asm[Backend(p)], proc[p].source)
  BY <1>3, Mover DEF OwnWork
<1>6. proc[p].source \in Seq(Piece) /\ asm[Backend(p)] \in Seq(Piece)
  BY Mover DEF Proc, Piece, Backend
<1>7. \E g \in Packages : Len(asm[Backend(p)]) <= Size[g]
  BY Mover DEF DriverInv, Fits, Backend
<1>8. r.cmd.backend = Backend(p)
  BY <1>3 DEF Backend
<1> HIDE DEF r
<1> QED BY <1>1, <1>2, <1>4, <1>5, <1>6, <1>7, <1>8, WritingStep

(* The assembler of a killed surf.                                         *)
LEMMA OutlivesKeeps ==
  ASSUME DriverInv, NEW p \in Procs, Outlives(p)
  PROVE  DriverInv'
<1>1. CASE /\ proc' = [proc EXCEPT ![p] = [@ EXCEPT !.pc = "adrift", !.source = asm[Backend(p)]]]
           /\ UNCHANGED <<asm, bin>>
  BY <1>1, ReadKeeps
<1>2. CASE /\ bin' = [bin EXCEPT ![Backend(p)] = proc[p].source]
           /\ proc' = [Disturbed(p) EXCEPT ![p].pc = "killed"]
           /\ UNCHANGED asm
  <2>1. PICK code \in {0, 1} : code = proc[p].status
    BY Mover DEF Proc
  <2>2. Disturbed(p)[p] = proc[p] /\ DOMAIN proc[p] = DOMAIN [proc[p] EXCEPT !.pc = "killed"]
    BY DEF Disturbed
  <2>3. [proc[p] EXCEPT !.pc = "killed"] = [proc[p] EXCEPT !.pc = "killed", !.status = code]
    BY <2>1, Mover DEF Proc
  <2>4. proc' = [Disturbed(p) EXCEPT ![p] = [@ EXCEPT !.pc = "killed", !.status = code]]
    BY <1>2, <2>2, <2>3
  <2> QED BY <1>2, <2>4, OutputKeeps
<1>3. CASE Move(p, "killed") /\ UNCHANGED <<asm, bin>>
  BY <1>3, MoveKeeps DEF Places
<1> QED BY <1>1, <1>2, <1>3 DEF Outlives
-----------------------------------------------------------------------------
LEMMA DriverInitial == Init => DriverInv
<1> SUFFICES ASSUME Init PROVE DriverInv
  OBVIOUS
<1> DEFINE R(pkg) == [pc |-> "start", cmd |-> [op |-> "check", backend |-> "hello"],
                      pkg |-> pkg, sent |-> 0, off |-> 0, source |-> << >>,
                      status |-> 1, alone |-> FALSE]
<1>1. PICK pkg \in Packages : proc = [p \in Procs |-> R(pkg)]
  BY DEF Init
<1>2. R(pkg) \in Proc
  BY DEF Proc, Places, Commands
<1>3. Typed
  <2>1. << >> \in Seq(Piece)
    OBVIOUS
  <2> HIDE DEF R
  <2> QED BY <1>1, <1>2, <2>1 DEF Init, Typed
<1>4. Fits
  <2>1. \A b \in Backends : Len(asm[b]) = 0
    BY DEF Init
  <2> QED BY <2>1 DEF Fits
<1>5. Counted(R(pkg))
  BY DEF Counted
<1>6. ASSUME NEW p \in Procs
      PROVE  Counted(proc[p]) /\ OwnWork(proc[p], asm[Backend(p)], bin[Backend(p)])
  <2>1. proc[p] = R(pkg) /\ R(pkg).alone = FALSE
    BY <1>1
  <2> QED BY <1>5, <2>1 DEF OwnWork
<1> QED BY <1>3, <1>4, <1>6 DEF DriverInv

LEMMA DriverStep == DriverInv /\ [Next]_vars => DriverInv'
<1> SUFFICES ASSUME DriverInv, [Next]_vars PROVE DriverInv'
  OBVIOUS
<1>1. CASE UNCHANGED vars
  BY <1>1 DEF vars, DriverInv, Typed, Fits, Counted, OwnWork, Backend
<1>2. ASSUME NEW p \in Procs, NEW cmd \in Commands, NEW pkg \in Packages, _start(p, cmd, pkg)
      PROVE  DriverInv'
  BY <1>2, StartKeeps
<1>3. ASSUME NEW p \in Procs, Kill(p)
      PROVE  DriverInv'
  BY <1>3, MoveKeeps DEF Kill, Places, At
<1>4. ASSUME NEW p \in Procs, Work(p)
      PROVE  DriverInv'
  <2>1. CASE compile_package(p)
    BY <2>1, ExitKeeps, MoveKeeps DEF compile_package, At, Places
  <2>2. CASE OpenAsm(p)
    BY <2>2, OpenKeeps
  <2>3. CASE WriteAsm(p)
    BY <2>3, WriteKeeps
  <2>4. CASE EmitFails(p)
    BY <2>4, ExitKeeps DEF EmitFails
  <2>5. CASE CloseAsm(p)
    BY <2>5, ExitKeeps, MoveKeeps DEF CloseAsm, At, Places
  <2>6. CASE Fork(p)
    BY <2>6, ExitKeeps, MoveKeeps DEF Fork, At, Places
  <2>7. CASE Exec(p)
    BY <2>7, ReadKeeps DEF Exec
  <2>8. CASE ExecFails(p)
    BY <2>8, ExitKeeps, MoveKeeps DEF ExecFails, At, Places
  <2>9. CASE Assemble(p)
    BY <2>9, OutputKeeps DEF Assemble, At
  <2>10. CASE AssembleFails(p)
    BY <2>10, ExitKeeps DEF AssembleFails, AfterFailure
  <2>11. CASE Outlives(p)
    BY <2>11, OutlivesKeeps
  <2> QED BY <1>4, <2>1, <2>2, <2>3, <2>4, <2>5, <2>6, <2>7, <2>8, <2>9, <2>10, <2>11 DEF Work
<1> QED BY <1>1, <1>2, <1>3, <1>4 DEF Next

(* The inductive invariant: what each process, left alone, has made of its *)
(* files, at every point of its run.                                       *)
THEOREM DriverInvariance == Spec => []DriverInv
BY DriverInitial, DriverStep, PTL DEF Spec

(* The files hold pieces and are never longer than a package (emit_main_asm*)
(* and its copies, O_TRUNC and the offset of the write).                   *)
THEOREM DriverTypeCorrect == Spec => []DriverTypeOK
<1>1. DriverInv => DriverTypeOK
  BY DEF DriverInv, Typed, Fits, DriverTypeOK, Piece
<1> QED BY <1>1, DriverInvariance, PTL

(* A build that reports success, left alone at its files, leaves the whole *)
(* binary of its own package (build, build-raw and build-fasm of main.asm, *)
(* run_tool of process.asm), whatever was killed or failed before it.      *)
THEOREM BuildsAreFresh == Spec => []FreshBinary
<1>1. DriverInv => FreshBinary
  BY DEF DriverInv, FreshBinary, OwnWork, Succeeded, At, Backend
<1> QED BY <1>1, DriverInvariance, PTL
=============================================================================
