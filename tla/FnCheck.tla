------------------------------ MODULE FnCheck ------------------------------
(***************************************************************************)
(* The semantic check of one function (semantic_check_function and the     *)
(* statement walk under it) over its symbol table, scope stack and loop    *)
(* depth.  The checker recurses over the tree of the function; here the    *)
(* tree arrives statement by statement, chosen freely, and "nest" is the   *)
(* call stack of semantic_block activations.                               *)
(*                                                                         *)
(* "prog" records the walk.  It is the tree the later passes walk again,   *)
(* and the history the properties compare the table with.  Expressions are *)
(* the variable references they hold, in the order they are evaluated;     *)
(* a type error is a rejection that touches none of this state and is left *)
(* out.                                                                    *)
(***************************************************************************)
EXTENDS Symbols, Sequences, FiniteSets

CONSTANT MaxStmts  (* bound on the length of a function *)

ASSUME FnCheckAssumption == MaxStmts \in Nat

VARIABLES
  phase,       (* "params", "body", then "accepted" or "rejected"          *)
  nest,        (* open blocks, the function's own first                    *)
  loop_depth,  (* semantic_loop_depth                                      *)
  prog

checkVars == <<sym, sym_count, slot_cursor, local_count, scope_base, scope_depth,
               phase, nest, loop_depth, prog>>

LoopKinds == {"while", "loop"}
BlockKinds == {"fn", "then", "else"} \cup LoopKinds

(* "rets" is semantic_block_returns of the block so far, "then_rets" that  *)
(* of the then-block of the if an else belongs to, "loops" the loop depth  *)
(* at which the block was entered.                                         *)
Block(kind, then_rets, loops) ==
  [kind |-> kind, rets |-> FALSE, then_rets |-> then_rets, loops |-> loops]

(* The statements "prog" records; "depth" is the scope depth they sit at.  *)
Stmts ==
  [op : {"param", "decl"}, name : Names, bind : Nat, depth : Nat, mut : BOOLEAN, type : Types]
    \cup [op : {"use", "assign"}, name : Names, bind : Nat, depth : Nat]
    \cup [op : {"open"}, kind : BlockKinds, depth : Nat]
    \cup [op : {"else", "close", "jump", "ret"}, depth : Nat]

Top == nest[Len(nest)]

Room == Len(prog) < MaxStmts

Stmt(op, n, bind) == [op |-> op, name |-> n, bind |-> bind, depth |-> scope_depth]

Record(s) == prog' = Append(prog, s)

Reject ==
  /\ phase' = "rejected"
  /\ UNCHANGED <<sym, sym_count, slot_cursor, local_count, scope_base, scope_depth,
                 nest, loop_depth, prog>>

-----------------------------------------------------------------------------
(* Declarations: a parameter, bound before the body, or a let/mut.         *)

Declare(op, n, m, t) ==
  IF CanAdd(n)
  THEN /\ AddSymbol(n, m, t, Len(prog) + 1)
       /\ Record([op |-> op, name |-> n, bind |-> Len(prog) + 1,
                  depth |-> scope_depth, mut |-> m, type |-> t])
       /\ UNCHANGED <<phase, nest, loop_depth>>
  ELSE Reject

semantic_bind_params(n, t) ==
  /\ phase = "params" /\ Room
  /\ Declare("param", n, FALSE, t)

StartBody ==
  /\ phase = "params"
  /\ phase' = "body"
  /\ UNCHANGED <<sym, sym_count, slot_cursor, local_count, scope_base, scope_depth,
                 nest, loop_depth, prog>>

semantic_decl_stmt(n, m, t) ==
  /\ phase = "body" /\ Room
  /\ Declare("decl", n, m, t)

-----------------------------------------------------------------------------
(* References: E0503 when the name is not found, E0504 when the target of  *)
(* an assignment is immutable.                                             *)

Refer(op, n) ==
  /\ Record(Stmt(op, n, sym[symbol_find(n) - 1].decl))
  /\ UNCHANGED <<sym, sym_count, slot_cursor, local_count, scope_base, scope_depth,
                 phase, nest, loop_depth>>

VarRef(n) ==
  /\ phase = "body" /\ Room
  /\ IF symbol_find(n) = 0 THEN Reject ELSE Refer("use", n)

semantic_assign_stmt(n) ==
  /\ phase = "body" /\ Room
  /\ IF symbol_find(n) = 0 THEN Reject
     ELSE IF ~sym[symbol_find(n) - 1].mut THEN Reject
     ELSE Refer("assign", n)

-----------------------------------------------------------------------------
(* Blocks.  The scope is pushed first, then the loop depth is raised.      *)

Open(kind, loops) ==
  /\ scope_push
  /\ nest' = Append(nest, Block(kind, FALSE, loop_depth))
  /\ loop_depth' = loops
  /\ Record([op |-> "open", kind |-> kind, depth |-> scope_depth])
  /\ UNCHANGED phase

semantic_if_stmt ==
  /\ phase = "body" /\ Room
  /\ IF CanPush THEN Open("then", loop_depth) ELSE Reject

semantic_loop_enter == loop_depth < SCOPE_CAP

semantic_loop_stmt(kind) ==
  /\ phase = "body" /\ Room
  /\ IF CanPush /\ semantic_loop_enter THEN Open(kind, loop_depth + 1) ELSE Reject

ElseBlock ==
  /\ phase = "body" /\ Room
  /\ Top.kind = "then"
  /\ ScopeNext
  /\ nest' = [nest EXCEPT ![Len(nest)] = Block("else", Top.rets, loop_depth)]
  /\ Record([op |-> "else", depth |-> scope_depth - 1])
  /\ UNCHANGED <<phase, loop_depth>>

(* The if returns when it has an else and both its blocks return.          *)
semantic_stmt_returns(b) == b.kind = "else" /\ b.rets /\ b.then_rets

semantic_loop_leave(kind) == IF kind \in LoopKinds THEN loop_depth - 1 ELSE loop_depth

CloseBlock ==
  /\ phase = "body" /\ Room
  /\ Top.kind # "fn"
  /\ scope_pop
  /\ nest' = [i \in 1 .. Len(nest) - 1 |->
                IF i = Len(nest) - 1
                THEN [nest[i] EXCEPT !.rets = @ \/ semantic_stmt_returns(Top)]
                ELSE nest[i]]
  /\ loop_depth' = semantic_loop_leave(Top.kind)
  /\ Record([op |-> "close", depth |-> scope_depth - 1])
  /\ UNCHANGED phase

-----------------------------------------------------------------------------
(* break and continue share one handler: E0507 outside a loop.             *)
semantic_loop_control_stmt ==
  /\ phase = "body" /\ Room
  /\ IF loop_depth = 0 THEN Reject
     ELSE /\ Record([op |-> "jump", depth |-> scope_depth])
          /\ UNCHANGED <<sym, sym_count, slot_cursor, local_count, scope_base, scope_depth,
                         phase, nest, loop_depth>>

semantic_ret_stmt ==
  /\ phase = "body" /\ Room
  /\ nest' = [nest EXCEPT ![Len(nest)].rets = TRUE]
  /\ Record([op |-> "ret", depth |-> scope_depth])
  /\ UNCHANGED <<sym, sym_count, slot_cursor, local_count, scope_base, scope_depth,
                 phase, loop_depth>>

(* The end of semantic_check_function: E0403 unless the block returns.     *)
EndFunction ==
  /\ phase = "body"
  /\ Top.kind = "fn"
  /\ scope_pop
  /\ phase' = IF Top.rets THEN "accepted" ELSE "rejected"
  /\ UNCHANGED <<nest, loop_depth, prog>>

-----------------------------------------------------------------------------
(* semantic_check_function resets the table and pushes the root scope.     *)
Init ==
  /\ sym = Emptied /\ sym_count = 0
  /\ slot_cursor = 0 /\ local_count = 0
  /\ scope_base = [k \in 0 .. 0 |-> [sym |-> 0, slot |-> 0]] /\ scope_depth = 1
  /\ phase = "params"
  /\ nest = <<Block("fn", FALSE, 0)>>
  /\ loop_depth = 0
  /\ prog = << >>

CheckNext ==
  \/ \E n \in Names, t \in Types : semantic_bind_params(n, t)
  \/ StartBody
  \/ \E n \in Names, m \in BOOLEAN, t \in Types : semantic_decl_stmt(n, m, t)
  \/ \E n \in Names : VarRef(n)
  \/ \E n \in Names : semantic_assign_stmt(n)
  \/ semantic_if_stmt
  \/ \E kind \in LoopKinds : semantic_loop_stmt(kind)
  \/ ElseBlock
  \/ CloseBlock
  \/ semantic_loop_control_stmt
  \/ semantic_ret_stmt
  \/ EndFunction

Spec == Init /\ [][CheckNext]_checkVars

-----------------------------------------------------------------------------
(* Types of the variables.  A reference records the statement it binds to. *)
TypeOK ==
  /\ SymbolsTypeOK
  /\ phase \in {"params", "body", "accepted", "rejected"}
  /\ nest \in Seq([kind : BlockKinds, rets : BOOLEAN, then_rets : BOOLEAN, loops : Nat])
  /\ Len(nest) > 0
  /\ loop_depth \in Nat
  /\ prog \in Seq(Stmts)

Declarations == {p \in 1 .. Len(prog) : prog[p].op \in {"param", "decl"}}

(* Reference definition, from the history alone: a declaration is visible  *)
(* until a later statement sits in an enclosing scope.                     *)
VisibleDecls(n) ==
  {d \in Declarations :
     /\ prog[d].name = n
     /\ \A p \in d .. Len(prog) : prog[p].depth >= prog[d].depth}

(* A name resolves to the latest declaration still in scope, and to nothing*)
(* when there is none: the table, cut and refilled, always agrees with the *)
(* block structure of the function.                                        *)
ResolvesLexically ==
  phase = "body" =>
    \A n \in Names :
      IF VisibleDecls(n) = {} THEN symbol_find(n) = 0
      ELSE /\ symbol_find(n) # 0
           /\ sym[symbol_find(n) - 1].decl = Latest(VisibleDecls(n))

LoopBlocks(blocks) == {i \in 1 .. Len(blocks) : blocks[i].kind \in LoopKinds}

(* semantic_loop_depth is the number of open loops, so break and continue  *)
(* are accepted exactly inside one, and it cannot exceed the scope depth.  *)
LoopDepthExact ==
  phase = "body" =>
    /\ loop_depth = Cardinality(LoopBlocks(nest))
    /\ loop_depth < scope_depth
=============================================================================
