------------------------------ MODULE Lowering ------------------------------
(***************************************************************************)
(* What happens to a function the checker accepted: the symbol table is    *)
(* emptied and rebuilt "flat (no scoping) for the emitter"                 *)
(* (semantic_rebuild_function_for_emit), then the emitter walks the same   *)
(* tree and looks every name up in that flat table.                        *)
(*                                                                         *)
(* The module continues FnCheck on the same variables, as the code does.   *)
(* compile_package also rebuilds the table of main once before any         *)
(* emission; emit_function empties it and rebuilds it again, so one        *)
(* rebuild per function is modelled.                                       *)
(***************************************************************************)
EXTENDS FnCheck

CONSTANT FieldCount  (* by type: the fields of a struct, 0 for another type *)

ASSUME LowerAssumption == FieldCount \in [Types -> Nat]

VARIABLES
  stage,          (* "check", "rebuild", "emit", then "done" or "failed"   *)
  pos,            (* the statement of prog the walk is at                  *)
  diagnostics,    (* diagnostics the rebuild printed                       *)
  frame,          (* bytes the prologue reserves below rbp                 *)
  label_counter,
  loop_labels,    (* break_label_stack and continue_label_stack            *)
  emit_nest,      (* the emitter's own recursion: blocks and their labels  *)
  access          (* history, the load or store that was just emitted       *)

lowerVars == <<stage, pos, diagnostics, frame, label_counter, loop_labels, emit_nest, access>>
vars == <<checkVars, lowerVars>>

Labels == [brk : Nat, cont : Nat]
Emitting == [kind : BlockKinds, brk : Nat, cont : Nat]

(* The variable accessed, as an index of the table; whether the word of a  *)
(* variable, an element of an array or a field; the slot addressed.        *)
Accesses == [var : Int, part : {"word", "element", "field"}, slot : Int]
NoAccess == [var |-> -1, part |-> "word", slot |-> 0]

Here == prog[pos]
Ended == pos > Len(prog)
Step == pos' = pos + 1

Check ==
  /\ stage = "check"
  /\ CheckNext
  /\ UNCHANGED lowerVars

-----------------------------------------------------------------------------
(* The rebuild.  rebuild_stmt_flat ignores what symbol_add returns: the    *)
(* diagnostic is printed and the declaration is left out of the table.     *)
(* A parameter that cannot be added fails the function.                    *)

Redeclares_TopLevelOnly(s) == s.op \in {"param", "decl"} /\ s.depth = 1

Redeclares(s) == s.op \in {"param", "decl"}

StartRebuild ==
  /\ stage = "check" /\ phase = "accepted"
  /\ stage' = "rebuild" /\ pos' = 1
  /\ SymbolsReset
  /\ loop_depth' = 0
  /\ UNCHANGED <<phase, nest, prog, diagnostics, frame, label_counter, loop_labels, emit_nest, access>>

ReAdd ==
  /\ stage = "rebuild" /\ ~Ended
  /\ Redeclares(Here) /\ CanAdd(Here.name)
  /\ AddSymbol(Here.name, Here.mut, Here.type, Here.bind)
  /\ Step
  /\ UNCHANGED <<phase, nest, loop_depth, prog, stage, diagnostics, frame, label_counter,
                 loop_labels, emit_nest, access>>

rebuild_stmt_flat ==
  /\ stage = "rebuild" /\ ~Ended
  /\ Redeclares(Here) => ~CanAdd(Here.name)
  /\ IF Here.op = "param"
     THEN stage' = "failed" /\ diagnostics' = diagnostics + 1
     ELSE /\ diagnostics' = IF Redeclares(Here) THEN diagnostics + 1 ELSE diagnostics
          /\ UNCHANGED stage
  /\ Step
  /\ UNCHANGED <<checkVars, frame, label_counter, loop_labels, emit_nest, access>>

(* Bytes of the prologue's "sub rsp": whole slots, rounded up to 16.       *)
FrameBytes == ((8 * local_count + 15) \div 16) * 16

StartEmit ==
  /\ stage = "rebuild" /\ Ended
  /\ stage' = "emit" /\ pos' = 1
  /\ frame' = FrameBytes
  /\ UNCHANGED <<checkVars, diagnostics, label_counter, loop_labels, emit_nest, access>>

-----------------------------------------------------------------------------
(* The emitter's walk.                                                     *)

References == {"param", "decl", "assign", "use"}

(* "slot" is the last of the slots of a variable, the one at the lowest    *)
(* address: the elements of an array lie above it and are found from it    *)
(* upwards, the fields of a struct are looked for downwards.               *)
Words(i) == {[var |-> i, part |-> "word", slot |-> sym[i].slot]}

Elements_Downwards(i) ==
  {[var |-> i, part |-> "element", slot |-> sym[i].slot + k] : k \in 1 .. SlotCount[sym[i].type] - 1}

Elements(i) ==
  {[var |-> i, part |-> "element", slot |-> sym[i].slot - k] : k \in 1 .. SlotCount[sym[i].type] - 1}

FieldsOf(i) ==
  {[var |-> i, part |-> "field", slot |-> sym[i].slot + k] : k \in 0 .. FieldCount[sym[i].type] - 1}

(* A load or a store of a local, which an expression may load part of: the *)
(* slot comes from the flat table, and a name it does not hold fails the   *)
(* emission.                                                               *)
EmitAccess ==
  /\ stage = "emit" /\ ~Ended /\ Here.op \in References
  /\ LET i == symbol_find(Here.name) - 1 IN
     IF symbol_find(Here.name) = 0 THEN stage' = "failed" /\ UNCHANGED access
     ELSE /\ access' \in Words(i) \cup IF Here.op = "use" THEN Elements(i) \cup FieldsOf(i) ELSE {}
          /\ UNCHANGED stage
  /\ Step
  /\ UNCHANGED <<checkVars, diagnostics, frame, label_counter, loop_labels, emit_nest>>

(* loop_context_push drops the labels of a loop nested too deeply.         *)
loop_context_push(l) ==
  loop_labels' = IF Len(loop_labels) >= SCOPE_CAP THEN loop_labels ELSE Append(loop_labels, l)

loop_context_pop_Keeps == UNCHANGED loop_labels

loop_context_pop ==
  loop_labels' = IF loop_labels = << >> THEN loop_labels
                 ELSE SubSeq(loop_labels, 1, Len(loop_labels) - 1)

(* Each construct takes two labels: r13 (else, or loop top) then r14 (end).*)
EmitOpen ==
  /\ stage = "emit" /\ ~Ended /\ Here.op = "open"
  /\ LET l == [brk |-> label_counter + 1, cont |-> label_counter] IN
     /\ emit_nest' = Append(emit_nest, [kind |-> Here.kind, brk |-> l.brk, cont |-> l.cont])
     /\ IF Here.kind \in LoopKinds THEN loop_context_push(l) ELSE UNCHANGED loop_labels
  /\ label_counter' = label_counter + 2
  /\ Step
  /\ access' = NoAccess
  /\ UNCHANGED <<checkVars, stage, diagnostics, frame>>

EmitClose ==
  /\ stage = "emit" /\ ~Ended /\ Here.op = "close"
  /\ emit_nest' = SubSeq(emit_nest, 1, Len(emit_nest) - 1)
  /\ IF emit_nest[Len(emit_nest)].kind \in LoopKinds THEN loop_context_pop ELSE UNCHANGED loop_labels
  /\ Step
  /\ access' = NoAccess
  /\ UNCHANGED <<checkVars, stage, diagnostics, frame, label_counter>>

(* emit_break_stmt and emit_continue_stmt: a jump to the top of the stack. *)
EmitJump ==
  /\ stage = "emit" /\ ~Ended /\ Here.op = "jump"
  /\ IF loop_labels = << >> THEN stage' = "failed" ELSE UNCHANGED stage
  /\ Step
  /\ access' = NoAccess
  /\ UNCHANGED <<checkVars, diagnostics, frame, label_counter, loop_labels, emit_nest>>

(* An else and a ret emit code that touches none of this state.            *)
EmitOther ==
  /\ stage = "emit" /\ ~Ended /\ Here.op \in {"else", "ret"}
  /\ Step
  /\ access' = NoAccess
  /\ UNCHANGED <<checkVars, stage, diagnostics, frame, label_counter, loop_labels, emit_nest>>

EndEmit ==
  /\ stage = "emit" /\ Ended
  /\ stage' = "done"
  /\ access' = NoAccess
  /\ UNCHANGED <<checkVars, pos, diagnostics, frame, label_counter, loop_labels, emit_nest>>

-----------------------------------------------------------------------------
LowerInit ==
  /\ Init
  /\ stage = "check" /\ pos = 1 /\ diagnostics = 0 /\ frame = 0
  /\ label_counter = 0 /\ loop_labels = << >> /\ emit_nest = << >> /\ access = NoAccess

Next ==
  \/ Check
  \/ StartRebuild
  \/ ReAdd
  \/ rebuild_stmt_flat
  \/ StartEmit
  \/ EmitAccess
  \/ EmitOpen
  \/ EmitClose
  \/ EmitJump
  \/ EmitOther
  \/ EndEmit

LowerSpec == LowerInit /\ [][Next]_vars

-----------------------------------------------------------------------------
LowerTypeOK ==
  /\ TypeOK
  /\ stage \in {"check", "rebuild", "emit", "done", "failed"}
  /\ pos \in Nat \ {0} /\ diagnostics \in Nat /\ frame \in Nat /\ label_counter \in Nat
  /\ loop_labels \in Seq(Labels)
  /\ emit_nest \in Seq(Emitting)
  /\ access \in Accesses

(* Every slot the emitted code can address lies inside the stack space its *)
(* prologue reserved, and that space keeps rsp 16-byte aligned for calls.  *)
FrameHoldsLocals ==
  stage \in {"emit", "done"} =>
    /\ frame % 16 = 0
    /\ \A i \in 0 .. sym_count - 1 : 8 * sym[i].slot <= frame

(* The slots the table reserves for a variable.                            *)
OwnSlots(i) == sym[i].slot - SlotCount[sym[i].type] + 1 .. sym[i].slot

(* Loads and stores of variables and loads of array elements stay inside   *)
(* the slots of their variable, which are no other live variable's and lie *)
(* in the frame.  A field is read downwards from the one slot a struct is  *)
(* given (emitter_expr .field_access): every field but the first leaves it.*)
AccessesOwnSlots ==
  /\ FrameHoldsLocals
  /\ stage \in {"emit", "done"} /\ access # NoAccess =>
       \/ access.slot \in OwnSlots(access.var)
       \/ access.part = "field" /\ access.slot > sym[access.var].slot

(* A break or continue jumps to the labels of the innermost open loop: the *)
(* emitter's label stacks, which drop what does not fit, never lose a loop *)
(* of a function the checker's scope limit let through.                    *)
OpenLoops == LoopBlocks(emit_nest)

JumpsTargetInnermostLoop ==
  stage = "emit" /\ OpenLoops # {} =>
    /\ loop_labels # << >>
    /\ LET inner == emit_nest[Latest(OpenLoops)] IN
       loop_labels[Len(loop_labels)] = [brk |-> inner.brk, cont |-> inner.cont]

(* The emitter's table binds each name to the declaration the checker bound*)
(* it to, so a value is read from the slot it was stored in.               *)
ResolvesAsChecked ==
  stage = "emit" /\ ~Ended /\ Here.op \in References =>
    /\ symbol_find(Here.name) # 0
    /\ sym[symbol_find(Here.name) - 1].decl = Here.bind

(* A function that declares each name once, and no more of them than the   *)
(* table holds.                                                            *)
FlatSafe ==
  /\ Cardinality(Declarations) <= SYM_CAP
  /\ \A p, q \in Declarations : prog[p].name = prog[q].name => p = q

(* For such a function the flat table is as good as the scoped one: all    *)
(* names resolve as checked, nothing is reported and emission succeeds.    *)
FlatTableFaithful ==
  FlatSafe => ResolvesAsChecked /\ diagnostics = 0 /\ stage # "failed"
=============================================================================
