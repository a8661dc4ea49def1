------------------------------ MODULE Symbols ------------------------------
(***************************************************************************)
(* The fixed-capacity symbol table and scope stack of the FASM compiler    *)
(* (semantic_symbols.asm, semantic_scope.asm).                             *)
(*                                                                         *)
(* The code keeps parallel arrays sym_start/sym_len, sym_mut, sym_type and *)
(* sym_slot indexed 0 .. SYM_CAP-1, and scope_sym_base/scope_slot_base     *)
(* indexed 0 .. SCOPE_CAP-1.  Entries at or past the counter are never     *)
(* read before they are written again, so the functions below keep the     *)
(* live entries only.  A name is a model value: the code compares the      *)
(* bytes of the two spans, token_text_eq.                                  *)
(*                                                                         *)
(* The operators are the subroutines.  The passes that call them, FnCheck  *)
(* and Lowering, supply the specification.  An operator named X_Y is a     *)
(* faulty variant of X, used to test that the properties notice the fault. *)
(***************************************************************************)
EXTENDS Integers

CONSTANTS
  Names,      (* identifiers a function may declare                        *)
  Types,      (* types a local may have                                    *)
  SlotCount,  (* type_slot_count: 8-byte stack slots a value of a type has *)
  SYM_CAP,    (* capacity of the symbol table (64)                         *)
  SCOPE_CAP   (* capacity of the scope stack (32)                          *)

ASSUME SymbolsAssumption ==
  /\ SYM_CAP \in Nat
  /\ SCOPE_CAP \in Nat \ {0}
  /\ SlotCount \in [Types -> Nat \ {0}]

VARIABLES
  sym,          (* 0 .. sym_count-1 -> Symbol                              *)
  sym_count,
  slot_cursor,  (* last slot handed out in the current scope               *)
  local_count,  (* high-water mark of slot_cursor: sizes the stack frame   *)
  scope_base,   (* 0 .. scope_depth-1 -> the counters saved at each push   *)
  scope_depth

symVars == <<sym, sym_count, slot_cursor, local_count, scope_base, scope_depth>>

(* "decl" is the statement that declared the symbol.  The code has no such *)
(* field; it identifies the binding a lookup finds.                        *)
Symbol == [name : Names, mut : BOOLEAN, type : Types, slot : Nat, decl : Nat]

(* semantic_reset_symbols *)
Emptied == [i \in {} |-> 0]

SymbolsReset ==
  /\ sym' = Emptied /\ sym_count' = 0
  /\ slot_cursor' = 0 /\ local_count' = 0
  /\ scope_base' = Emptied /\ scope_depth' = 0

-----------------------------------------------------------------------------
(* Lookup scans downwards and returns the index plus one, 0 when absent.   *)

Latest(S) == CHOOSE i \in S : \A j \in S : j <= i

Named(n, base) == {i \in base .. sym_count - 1 : sym[i].name = n}

FindFrom(n, base) ==
  IF Named(n, base) = {} THEN 0 ELSE Latest(Named(n, base)) + 1

symbol_find(n) == FindFrom(n, 0)

CurrentBase == IF scope_depth = 0 THEN 0 ELSE scope_base[scope_depth - 1].sym

symbol_find_current_scope(n) == FindFrom(n, CurrentBase)

-----------------------------------------------------------------------------
(* symbol_add reports E0502 for a name the current scope already has, then *)
(* E0505 for a full table, and changes nothing in either case.             *)

Duplicate(n) == symbol_find_current_scope(n) # 0

TableFull_OffByOne == sym_count > SYM_CAP

TableFull == sym_count >= SYM_CAP

CanAdd(n) == ~Duplicate(n) /\ ~TableFull

AddSymbol_OneSlotEach(n, m, t, d) ==
  LET top == slot_cursor + 1 IN
  /\ sym' = [i \in 0 .. sym_count |->
               IF i = sym_count
               THEN [name |-> n, mut |-> m, type |-> t, slot |-> top, decl |-> d]
               ELSE sym[i]]
  /\ sym_count' = sym_count + 1
  /\ slot_cursor' = top
  /\ local_count' = IF top <= local_count THEN local_count ELSE top
  /\ UNCHANGED <<scope_base, scope_depth>>

AddSymbol(n, m, t, d) ==
  LET top == slot_cursor + SlotCount[t] IN
  /\ sym' = [i \in 0 .. sym_count |->
               IF i = sym_count
               THEN [name |-> n, mut |-> m, type |-> t, slot |-> top, decl |-> d]
               ELSE sym[i]]
  /\ sym_count' = sym_count + 1
  /\ slot_cursor' = top
  /\ local_count' = IF top <= local_count THEN local_count ELSE top
  /\ UNCHANGED <<scope_base, scope_depth>>

-----------------------------------------------------------------------------
(* scope_push reports E0506 when the stack is full.                        *)

CanPush == scope_depth < SCOPE_CAP

scope_push ==
  /\ scope_base' = [k \in 0 .. scope_depth |->
                      IF k = scope_depth
                      THEN [sym |-> sym_count, slot |-> slot_cursor]
                      ELSE scope_base[k]]
  /\ scope_depth' = scope_depth + 1
  /\ UNCHANGED <<sym, sym_count, slot_cursor, local_count>>

(* Dropping the symbols of the innermost scope, its base is kept.          *)
ScopeCut_KeepsSymbols ==
  /\ slot_cursor' = scope_base[scope_depth - 1].slot
  /\ UNCHANGED <<sym, sym_count, local_count>>

ScopeCut ==
  LET base == scope_base[scope_depth - 1] IN
  /\ sym' = [i \in 0 .. base.sym - 1 |-> sym[i]]
  /\ sym_count' = base.sym
  /\ slot_cursor' = base.slot
  /\ UNCHANGED local_count

scope_pop ==
  /\ ScopeCut
  /\ scope_depth' = scope_depth - 1
  /\ scope_base' = [k \in 0 .. scope_depth - 2 |-> scope_base[k]]

(* scope_pop immediately followed by scope_push, between the two blocks of *)
(* an if: the base it saves is the one it has just restored.               *)
ScopeNext == ScopeCut /\ UNCHANGED <<scope_base, scope_depth>>
-----------------------------------------------------------------------------
SymbolsTypeOK ==
  /\ sym_count \in 0 .. SYM_CAP
  /\ sym \in [0 .. sym_count - 1 -> Symbol]
  /\ slot_cursor \in Nat /\ local_count \in Nat
  /\ scope_depth \in 0 .. SCOPE_CAP
  /\ scope_base \in [0 .. scope_depth - 1 -> [sym : Nat, slot : Nat]]

(* Two live locals never share a stack slot, and every slot in use lies in *)
(* the frame that local_count sizes: scope_pop gives back exactly the slots*)
(* its scope took, whatever was declared, popped and declared again.       *)
LiveSlotsDisjoint ==
  \A i \in 0 .. sym_count - 1 :
    /\ sym[i].slot <= local_count
    /\ sym[i].slot - SlotCount[sym[i].type] >= 0
    /\ \A j \in 0 .. i - 1 : sym[j].slot <= sym[i].slot - SlotCount[sym[i].type]

(* The scope an index of the table belongs to.                             *)
ScopeOf(i) == {k \in 0 .. scope_depth - 1 : scope_base[k].sym <= i}

(* No scope ever holds two symbols of one name, although the duplicate test*)
(* of symbol_add looks at the innermost scope only and scopes are cut and  *)
(* refilled (E0502).                                                       *)
NoDuplicateInScope ==
  \A i, j \in 0 .. sym_count - 1 :
    i # j /\ ScopeOf(i) = ScopeOf(j) => sym[i].name # sym[j].name
=============================================================================
