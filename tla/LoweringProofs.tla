--------------------------- MODULE LoweringProofs ---------------------------
(***************************************************************************)
(* What the later passes keep of an accepted function, for every function, *)
(* every size of the tables and every type.                                *)
(*                                                                         *)
(* LInv carries the checker's own invariants through the rebuild and the   *)
(* emission, which no longer check anything: that the record of the walk   *)
(* is well nested (RecordInv) is what keeps the emitter's label stacks     *)
(* from ever being full, or empty at a break.                              *)
(***************************************************************************)
EXTENDS Lowering, WellFoundedInduction, SequenceTheorems, FiniteSetTheorems, TLAPS
-----------------------------------------------------------------------------
(***************************************************************************)
(* The check of a function keeps the symbol table sound, whatever the      *)
(* function is: any length, any names, types and capacities.               *)
(*                                                                         *)
(* IInv adds to the table's own invariant the two facts about the walk the *)
(* scope and loop operations need.  As many blocks are open as scopes, the *)
(* first of them the function's, so a block that can be closed has a scope *)
(* to pop and a base to return to.  The loop depth counts the open loops,  *)
(* so leaving one never takes it below zero.                               *)
(*                                                                         *)
(* First what each symbol table operation preserves, for every capacity,   *)
(* every set of types and every slot count.  The table's invariant,        *)
(* TableInv, is TypeOK and the two safety properties, made inductive by    *)
(* ScopesNested: the counters a scope saved bound what lies below the      *)
(* scope, so cutting the table back to them loses nothing of the enclosing *)
(* scopes.                                                                 *)
(***************************************************************************)

-----------------------------------------------------------------------------
(* The symbol table.                                                       *)

SlotsBelowCursor ==
  /\ slot_cursor <= local_count
  /\ \A i \in 0 .. sym_count - 1 : sym[i].slot <= slot_cursor

ScopesNested ==
  \A k \in 0 .. scope_depth - 1 :
    /\ scope_base[k].sym <= sym_count
    /\ scope_base[k].slot <= slot_cursor
    /\ \A i \in 0 .. scope_base[k].sym - 1 : sym[i].slot <= scope_base[k].slot
    /\ \A j \in 0 .. k : /\ scope_base[j].sym <= scope_base[k].sym
                         /\ scope_base[j].slot <= scope_base[k].slot

TableInv ==
  /\ SymbolsTypeOK
  /\ SlotsBelowCursor
  /\ ScopesNested
  /\ LiveSlotsDisjoint
  /\ NoDuplicateInScope

-----------------------------------------------------------------------------
(* A nonempty set of indices below a bound has a largest element, so the   *)
(* downward scan of a lookup stops at it.                                  *)

Less == OpToRel(<, Nat)

LEMMA LessIsWellFounded == IsWellFoundedOn(Less, Nat)
  BY NatLessThanWellFounded DEF Less

LEMMA LessDef == Less = {ss \in Nat \X Nat : ss[1] < ss[2]}
  BY DEF Less, OpToRel

LEMMA LatestIsMaximum ==
  ASSUME NEW c \in Nat, NEW S, S \subseteq 0 .. c - 1, S # {}
  PROVE  Latest(S) \in S /\ \A j \in S : j <= Latest(S)
<1> DEFINE T == {c - i : i \in S}
<1>1. T \subseteq Nat /\ T # {}
  OBVIOUS
<1>2. PICK x \in T : \A y \in T : <<y, x>> \notin Less
  <2> HIDE DEF T
  <2> QED BY <1>1, LessIsWellFounded, WFMin, Zenon
<1>3. \A y \in T : ~(y < x)
  BY <1>1, <1>2, LessDef
<1>4. PICK m \in S : x = c - m
  OBVIOUS
<1>5. \A j \in S : j <= m
  <2> SUFFICES ASSUME NEW j \in S PROVE j <= m
    OBVIOUS
  <2>1. ~(c - j < c - m)
    BY <1>3, <1>4
  <2> QED BY <2>1
<1> QED BY <1>5 DEF Latest

(* A lookup that returns an index plus one returns that of a live symbol   *)
(* with the name, and one that returns 0 found none.                       *)
LEMMA FindFromFinds ==
  ASSUME SymbolsTypeOK, NEW n, NEW base \in Nat
  PROVE  /\ FindFrom(n, base) # 0 =>
              /\ FindFrom(n, base) - 1 \in base .. sym_count - 1
              /\ sym[FindFrom(n, base) - 1].name = n
         /\ FindFrom(n, base) = 0 => Named(n, base) = {}
<1>1. Named(n, base) \subseteq 0 .. sym_count - 1 /\ sym_count \in Nat
  BY SymbolsAssumption DEF Named, SymbolsTypeOK
<1>2. CASE Named(n, base) = {}
  BY <1>2 DEF FindFrom
<1>3. CASE Named(n, base) # {}
  <2>1. Latest(Named(n, base)) \in Named(n, base)
    BY <1>1, <1>3, LatestIsMaximum
  <2> QED BY <1>1, <1>3, <2>1 DEF FindFrom, Named
<1> QED BY <1>2, <1>3

-----------------------------------------------------------------------------
(* ScopesNested and the types, for one scope at a time.                    *)
LEMMA BaseFacts ==
  ASSUME TableInv, NEW k \in 0 .. scope_depth - 1
  PROVE  /\ scope_depth \in Nat /\ sym_count \in Nat
         /\ slot_cursor \in Nat /\ local_count \in Nat
         /\ scope_base[k] \in [sym : Nat, slot : Nat]
         /\ scope_base[k].sym \in 0 .. sym_count
         /\ scope_base[k].slot \in 0 .. slot_cursor
         /\ \A i \in 0 .. scope_base[k].sym - 1 :
              /\ i \in 0 .. sym_count - 1
              /\ sym[i].slot <= scope_base[k].slot
         /\ \A j \in 0 .. k : /\ j \in 0 .. scope_depth - 1
                              /\ scope_base[j].sym <= scope_base[k].sym
                              /\ scope_base[j].slot <= scope_base[k].slot
<1>1. scope_depth \in Nat /\ sym_count \in Nat
  BY SymbolsAssumption DEF TableInv, SymbolsTypeOK
<1>2. scope_base[k].sym \in 0 .. sym_count /\ scope_base[k].slot \in 0 .. slot_cursor
  BY <1>1 DEF TableInv, SymbolsTypeOK, ScopesNested
<1>3. \A i \in 0 .. scope_base[k].sym - 1 : i \in 0 .. sym_count - 1
  BY <1>1, <1>2
<1>4. \A j \in 0 .. k : j \in 0 .. scope_depth - 1
  BY <1>1
<1> QED BY <1>1, <1>2, <1>3, <1>4 DEF TableInv, SymbolsTypeOK, ScopesNested

LEMMA CurrentBaseType ==
  ASSUME TableInv
  PROVE  /\ CurrentBase \in 0 .. sym_count
         /\ \A k \in 0 .. scope_depth - 1 : scope_base[k].sym <= CurrentBase
  BY SymbolsAssumption DEF TableInv, SymbolsTypeOK, ScopesNested, CurrentBase

(* symbol_add, when it does not report a diagnostic.                       *)
LEMMA AddSymbolKeepsTable ==
  ASSUME TableInv,
         NEW n \in Names, NEW m \in BOOLEAN, NEW t \in Types, NEW d \in Nat,
         CanAdd(n), AddSymbol(n, m, t, d)
  PROVE  TableInv'
<1> DEFINE top == slot_cursor + SlotCount[t]
           new == [name |-> n, mut |-> m, type |-> t, slot |-> top, decl |-> d]
<1>1. SlotCount[t] \in Nat \ {0} /\ slot_cursor \in Nat /\ top \in Nat
  BY SymbolsAssumption DEF TableInv, SymbolsTypeOK
<1>2. sym_count \in Nat /\ sym_count < SYM_CAP /\ sym_count' = sym_count + 1
  BY SymbolsAssumption DEF TableInv, SymbolsTypeOK, CanAdd, TableFull, AddSymbol
<1>3. /\ sym'[sym_count] = new
      /\ \A i \in 0 .. sym_count - 1 : sym'[i] = sym[i]
      /\ sym' = [i \in 0 .. sym_count |-> IF i = sym_count THEN new ELSE sym[i]]
  BY <1>2 DEF AddSymbol
<1>4. /\ slot_cursor' = top
      /\ local_count' \in Nat /\ top <= local_count' /\ local_count <= local_count'
      /\ scope_base' = scope_base /\ scope_depth' = scope_depth
  BY <1>1 DEF AddSymbol, TableInv, SymbolsTypeOK
<1> HIDE DEF top
<1>5. SymbolsTypeOK'
  <2>1. new \in Symbol
    BY <1>1 DEF Symbol
  <2>2. \A i \in 0 .. sym_count - 1 : sym[i] \in Symbol
    BY DEF TableInv, SymbolsTypeOK
  <2> HIDE DEF new
  <2>3. sym' \in [0 .. sym_count' - 1 -> Symbol]
    BY <1>2, <1>3, <2>1, <2>2
  <2> QED BY <1>1, <1>2, <1>4, <2>3, SymbolsAssumption DEF TableInv, SymbolsTypeOK
<1>6. SlotsBelowCursor'
  BY <1>1, <1>2, <1>3, <1>4 DEF TableInv, SymbolsTypeOK, Symbol, SlotsBelowCursor, top
<1>7. ScopesNested'
  <2> SUFFICES ASSUME NEW k \in 0 .. scope_depth - 1
               PROVE  /\ scope_base[k].sym <= sym_count'
                      /\ scope_base[k].slot <= slot_cursor'
                      /\ \A i \in 0 .. scope_base[k].sym - 1 : sym'[i].slot <= scope_base[k].slot
                      /\ \A j \in 0 .. k : /\ scope_base[j].sym <= scope_base[k].sym
                                           /\ scope_base[j].slot <= scope_base[k].slot
    BY <1>4 DEF ScopesNested
  <2>1. \A i \in 0 .. scope_base[k].sym - 1 : sym'[i].slot <= scope_base[k].slot
    BY <1>3, BaseFacts
  <2>2. scope_base[k].sym <= sym_count' /\ scope_base[k].slot <= slot_cursor'
    BY <1>1, <1>2, <1>4, BaseFacts DEF top
  <2> QED BY <2>1, <2>2, BaseFacts
<1>8. LiveSlotsDisjoint'
  <2> SUFFICES ASSUME NEW i \in 0 .. sym_count
               PROVE  /\ sym'[i].slot <= local_count'
                      /\ sym'[i].slot - SlotCount[sym'[i].type] >= 0
                      /\ \A j \in 0 .. i - 1 :
                           sym'[j].slot <= sym'[i].slot - SlotCount[sym'[i].type]
    BY <1>2 DEF LiveSlotsDisjoint
  <2>1. CASE i = sym_count
    <3>1. sym'[i].slot = top /\ sym'[i].type = t
      BY <1>3, <2>1
    <3>2. \A j \in 0 .. i - 1 : sym'[j].slot <= slot_cursor
      BY <1>3, <2>1 DEF TableInv, SlotsBelowCursor
    <3> QED BY <1>1, <1>4, <3>1, <3>2 DEF top
  <2>2. CASE i \in 0 .. sym_count - 1
    <3>1. /\ sym'[i] = sym[i]
          /\ \A j \in 0 .. i - 1 : sym'[j] = sym[j]
      BY <1>2, <1>3, <2>2
    <3>2. sym[i].slot \in Nat /\ local_count \in Nat
      BY <2>2 DEF TableInv, SymbolsTypeOK, Symbol
    <3> QED BY <1>4, <2>2, <3>1, <3>2 DEF TableInv, LiveSlotsDisjoint
  <2> QED BY <1>2, <2>1, <2>2
<1>9. NoDuplicateInScope'
  <2>1. \A i \in 0 .. sym_count : ScopeOf(i)' = ScopeOf(i)
    BY <1>4 DEF ScopeOf
  <2>2. \A i \in 0 .. sym_count - 1 : ScopeOf(i) = ScopeOf(sym_count) => sym[i].name # n
    <3> SUFFICES ASSUME NEW i \in 0 .. sym_count - 1, ScopeOf(i) = ScopeOf(sym_count),
                        sym[i].name = n
                 PROVE  FALSE
      OBVIOUS
    <3>1. CurrentBase <= i
      <4>1. CASE scope_depth = 0
        BY <4>1 DEF CurrentBase
      <4>2. CASE scope_depth # 0
        <5>1. scope_depth - 1 \in 0 .. scope_depth - 1
          BY <4>2, SymbolsAssumption DEF TableInv, SymbolsTypeOK
        <5>2. scope_depth - 1 \in ScopeOf(sym_count)
          BY <5>1 DEF TableInv, ScopesNested, ScopeOf
        <5>3. scope_base[scope_depth - 1].sym <= i
          BY <5>2 DEF ScopeOf
        <5> QED BY <4>2, <5>3 DEF CurrentBase
      <4> QED BY <4>1, <4>2
    <3>2. Named(n, CurrentBase) = {}
      BY CurrentBaseType, FindFromFinds
         DEF TableInv, CanAdd, Duplicate, symbol_find_current_scope
    <3> QED BY <1>2, <3>1, <3>2, CurrentBaseType DEF Named
  <2> QED BY <1>2, <1>3, <2>1, <2>2 DEF TableInv, NoDuplicateInScope
<1> QED BY <1>5, <1>6, <1>7, <1>8, <1>9 DEF TableInv

-----------------------------------------------------------------------------
LEMMA ScopePushKeepsTable ==
  ASSUME TableInv, CanPush, scope_push
  PROVE  TableInv'
<1>1. /\ scope_depth \in Nat /\ sym_count \in Nat /\ slot_cursor \in Nat
      /\ scope_depth' = scope_depth + 1 /\ scope_depth < SCOPE_CAP
      /\ sym' = sym /\ sym_count' = sym_count
      /\ slot_cursor' = slot_cursor /\ local_count' = local_count
  BY SymbolsAssumption DEF TableInv, SymbolsTypeOK, CanPush, scope_push
<1>2. /\ scope_base'[scope_depth] = [sym |-> sym_count, slot |-> slot_cursor]
      /\ \A k \in 0 .. scope_depth - 1 : scope_base'[k] = scope_base[k]
      /\ scope_base' \in [0 .. scope_depth -> [sym : Nat, slot : Nat]]
  BY <1>1 DEF TableInv, SymbolsTypeOK, scope_push
<1>3. SymbolsTypeOK'
  BY <1>1, <1>2, SymbolsAssumption DEF TableInv, SymbolsTypeOK
<1>4. SlotsBelowCursor' /\ LiveSlotsDisjoint'
  BY <1>1 DEF TableInv, SlotsBelowCursor, LiveSlotsDisjoint
<1>5. ScopesNested'
  <2> SUFFICES ASSUME NEW k \in 0 .. scope_depth
               PROVE  /\ scope_base'[k].sym <= sym_count
                      /\ scope_base'[k].slot <= slot_cursor
                      /\ \A i \in 0 .. scope_base'[k].sym - 1 :
                           sym[i].slot <= scope_base'[k].slot
                      /\ \A j \in 0 .. k : /\ scope_base'[j].sym <= scope_base'[k].sym
                                           /\ scope_base'[j].slot <= scope_base'[k].slot
    BY <1>1 DEF ScopesNested
  <2>1. CASE k = scope_depth
    <3>1. scope_base'[k].sym = sym_count /\ scope_base'[k].slot = slot_cursor
      BY <1>2, <2>1
    <3>2. \A j \in 0 .. k : j = k \/ j \in 0 .. scope_depth - 1
      BY <1>1, <2>1
    <3>3. \A j \in 0 .. k : scope_base'[j].sym <= sym_count /\ scope_base'[j].slot <= slot_cursor
      <4> SUFFICES ASSUME NEW j \in 0 .. k
                   PROVE  scope_base'[j].sym <= sym_count /\ scope_base'[j].slot <= slot_cursor
        OBVIOUS
      <4>1. CASE j = k
        BY <1>1, <3>1, <4>1
      <4>2. CASE j \in 0 .. scope_depth - 1
        <5>1. scope_base'[j] = scope_base[j]
          BY <1>2, <4>2
        <5>2. scope_base[j].sym <= sym_count /\ scope_base[j].slot <= slot_cursor
          BY <4>2 DEF TableInv, ScopesNested
        <5> QED BY <5>1, <5>2
      <4> QED BY <3>2, <4>1, <4>2
    <3> QED BY <1>1, <3>1, <3>3 DEF TableInv, SlotsBelowCursor
  <2>2. CASE k \in 0 .. scope_depth - 1
    <3>1. \A j \in 0 .. k : scope_base'[j] = scope_base[j]
      BY <1>1, <1>2, <2>2
    <3> QED BY <1>1, <2>2, <3>1, BaseFacts
  <2> QED BY <1>1, <2>1, <2>2
<1>6. NoDuplicateInScope'
  <2>1. ASSUME NEW i \in 0 .. sym_count - 1
        PROVE  ScopeOf(i)' = ScopeOf(i)
    <3>1. ~(scope_base'[scope_depth].sym <= i)
      BY <1>1, <1>2
    <3>2. \A k \in 0 .. scope_depth - 1 : scope_base'[k] = scope_base[k]
      BY <1>1, <1>2
    <3>3. \A k : k \in 0 .. scope_depth' - 1 <=> k = scope_depth \/ k \in 0 .. scope_depth - 1
      BY <1>1, <1>2
    <3>4. \A k : k \in ScopeOf(i)' <=> k \in ScopeOf(i)
      BY <3>1, <3>2, <3>3, Zenon DEF ScopeOf
    <3> QED BY <3>4, Zenon
  <2> QED BY <1>1, <2>1 DEF TableInv, NoDuplicateInScope
<1> QED BY <1>3, <1>4, <1>5, <1>6 DEF TableInv

(* Cutting the table back to the innermost base, whether the scope is then *)
(* closed (depth one less) or reused for the else block (depth kept).      *)
LEMMA ScopeCutKeepsTable ==
  ASSUME TableInv, ScopeCut, scope_depth > 0,
         NEW d, d \in {scope_depth, scope_depth - 1}, scope_depth' = d,
         scope_base' = [k \in 0 .. d - 1 |-> scope_base[k]]
  PROVE  TableInv'
<1> DEFINE base == scope_base[scope_depth - 1]
<1>0. scope_depth \in Nat /\ d \in Nat /\ scope_depth - 1 <= d /\ d <= scope_depth
  BY SymbolsAssumption DEF TableInv, SymbolsTypeOK
<1>1. /\ scope_depth \in Nat /\ sym_count \in Nat /\ slot_cursor \in Nat
      /\ local_count \in Nat
      /\ base \in [sym : Nat, slot : Nat]
      /\ base.sym \in 0 .. sym_count /\ base.slot <= slot_cursor
      /\ \A i \in 0 .. base.sym - 1 : sym[i].slot <= base.slot
  BY SymbolsAssumption DEF TableInv, SymbolsTypeOK, ScopesNested
<1>2. /\ sym_count' = base.sym /\ slot_cursor' = base.slot /\ local_count' = local_count
      /\ \A i \in 0 .. base.sym - 1 : sym'[i] = sym[i]
      /\ sym' = [i \in 0 .. base.sym - 1 |-> sym[i]]
  BY DEF ScopeCut
<1>3. \A k \in 0 .. d - 1 :
        /\ k \in 0 .. scope_depth - 1
        /\ scope_base'[k] = scope_base[k]
        /\ scope_base[k].sym <= base.sym /\ scope_base[k].slot <= base.slot
  <2> SUFFICES ASSUME NEW k \in 0 .. d - 1
               PROVE  /\ k \in 0 .. scope_depth - 1
                      /\ scope_base'[k] = scope_base[k]
                      /\ scope_base[k].sym <= base.sym /\ scope_base[k].slot <= base.slot
    OBVIOUS
  <2>1. k \in 0 .. scope_depth - 1
    BY <1>0
  <2>2. scope_depth - 1 \in 0 .. scope_depth - 1 /\ k \in 0 .. scope_depth - 1
    BY <1>1, <2>1
  <2> QED BY <2>2, BaseFacts
<1> HIDE DEF base
<1>4. SymbolsTypeOK'
  <2>1. sym' \in [0 .. sym_count' - 1 -> Symbol]
    BY <1>1, <1>2 DEF TableInv, SymbolsTypeOK
  <2>2. scope_base' \in [0 .. d - 1 -> [sym : Nat, slot : Nat]]
    BY <1>1, <1>3 DEF TableInv, SymbolsTypeOK
  <2> QED BY <1>1, <1>2, <2>1, <2>2, SymbolsAssumption DEF TableInv, SymbolsTypeOK
<1>5. SlotsBelowCursor'
  BY <1>1, <1>2 DEF TableInv, SlotsBelowCursor
<1>6. ScopesNested'
  <2> SUFFICES ASSUME NEW k \in 0 .. d - 1
               PROVE  /\ scope_base[k].sym <= base.sym
                      /\ scope_base[k].slot <= base.slot
                      /\ \A i \in 0 .. scope_base[k].sym - 1 : sym'[i].slot <= scope_base[k].slot
                      /\ \A j \in 0 .. k : /\ scope_base'[j].sym <= scope_base[k].sym
                                           /\ scope_base'[j].slot <= scope_base[k].slot
    BY <1>2, <1>3 DEF ScopesNested
  <2>1. k \in 0 .. scope_depth - 1 /\ scope_base[k].sym \in Nat
    BY <1>3, BaseFacts
  <2>2. \A j \in 0 .. k : j \in 0 .. d - 1
    BY <1>0
  <2>3. \A i \in 0 .. scope_base[k].sym - 1 : i \in 0 .. base.sym - 1
    BY <1>1, <1>3, <2>1
  <2>4. \A i \in 0 .. scope_base[k].sym - 1 : sym'[i] = sym[i]
    BY <1>2, <2>3
  <2> QED BY <1>3, <2>1, <2>2, <2>4, BaseFacts
<1>7. LiveSlotsDisjoint'
  BY <1>1, <1>2 DEF TableInv, LiveSlotsDisjoint
<1>8. NoDuplicateInScope'
  <2>1. \A i \in 0 .. base.sym - 1 : ScopeOf(i)' = ScopeOf(i)
    <3> SUFFICES ASSUME NEW i \in 0 .. base.sym - 1,
                        NEW k \in 0 .. scope_depth - 1, scope_base[k].sym <= i
                 PROVE  k \in 0 .. d - 1
      BY <1>3 DEF ScopeOf
    <3>1. k # scope_depth - 1
      BY <1>1 DEF base
    <3>2. CASE d = scope_depth
      BY <3>2
    <3>3. CASE d = scope_depth - 1
      BY <1>0, <3>1, <3>3
    <3> QED BY <3>2, <3>3
  <2> QED BY <1>1, <1>2, <2>1 DEF TableInv, NoDuplicateInScope
<1> QED BY <1>4, <1>5, <1>6, <1>7, <1>8 DEF TableInv

LEMMA ScopePopKeepsTable ==
  ASSUME TableInv, scope_pop, scope_depth > 0
  PROVE  TableInv'
<1>1. scope_base' = [k \in 0 .. (scope_depth - 1) - 1 |-> scope_base[k]]
  <2>1. (scope_depth - 1) - 1 = scope_depth - 2
    BY SymbolsAssumption DEF TableInv, SymbolsTypeOK
  <2> QED BY <2>1 DEF scope_pop
<1> QED BY <1>1, ScopeCutKeepsTable DEF scope_pop

LEMMA ScopeNextKeepsTable ==
  ASSUME TableInv, ScopeNext, scope_depth > 0
  PROVE  TableInv'
<1>1. scope_base' = [k \in 0 .. scope_depth - 1 |-> scope_base[k]]
  BY DEF TableInv, SymbolsTypeOK, ScopeNext
<1> QED BY <1>1, ScopeCutKeepsTable DEF ScopeNext

-----------------------------------------------------------------------------
(* The walk.                                                               *)

NestMatchesScopes ==
  phase \in {"params", "body"} => /\ Len(nest) = scope_depth
                                  /\ nest[1].kind = "fn"

LoopsCounted ==
  phase \in {"params", "body"} => loop_depth = Cardinality(LoopBlocks(nest))

IInv ==
  /\ TypeOK
  /\ TableInv
  /\ NestMatchesScopes
  /\ LoopsCounted

BlockRecord == [kind : BlockKinds, rets : BOOLEAN, then_rets : BOOLEAN, loops : Nat]

-----------------------------------------------------------------------------
(* How the set of open loops changes with the blocks.                      *)

LEMMA LoopBlocksFinite ==
  ASSUME NEW blocks, Len(blocks) \in Nat
  PROVE  /\ IsFiniteSet(LoopBlocks(blocks))
         /\ Cardinality(LoopBlocks(blocks)) \in Nat
<1>1. IsFiniteSet(1 .. Len(blocks))
  BY FS_Interval
<1>2. LoopBlocks(blocks) \in SUBSET (1 .. Len(blocks))
  BY DEF LoopBlocks
<1> QED BY <1>1, <1>2, FS_Subset, FS_CardinalityType

(* Blocks of the same kinds, and one more at the end.                      *)
LEMMA LoopBlocksGrow ==
  ASSUME NEW old, NEW new, Len(old) \in Nat, Len(new) = Len(old) + 1,
         \A i \in 1 .. Len(old) : new[i].kind = old[i].kind
  PROVE  /\ LoopBlocks(new) = IF new[Len(new)].kind \in LoopKinds
                              THEN LoopBlocks(old) \cup {Len(new)} ELSE LoopBlocks(old)
         /\ Cardinality(LoopBlocks(new)) =
              IF new[Len(new)].kind \in LoopKinds
              THEN Cardinality(LoopBlocks(old)) + 1 ELSE Cardinality(LoopBlocks(old))
<1>1. Len(new) \notin LoopBlocks(old)
  BY DEF LoopBlocks
<1>2. \A i : i \in 1 .. Len(new) <=> i \in 1 .. Len(old) \/ i = Len(new)
  OBVIOUS
<1>3. LoopBlocks(new) = IF new[Len(new)].kind \in LoopKinds
                        THEN LoopBlocks(old) \cup {Len(new)} ELSE LoopBlocks(old)
  BY <1>1, <1>2 DEF LoopBlocks
<1>4. IsFiniteSet(LoopBlocks(old))
  BY LoopBlocksFinite
<1>5. Cardinality(LoopBlocks(old) \cup {Len(new)}) = Cardinality(LoopBlocks(old)) + 1
  BY <1>1, <1>4, FS_AddElement
<1> QED BY <1>3, <1>5

LEMMA LoopBlocksSame ==
  ASSUME NEW old, NEW new, Len(old) = Len(new),
         \A i \in 1 .. Len(old) : new[i].kind \in LoopKinds <=> old[i].kind \in LoopKinds
  PROVE  LoopBlocks(new) = LoopBlocks(old)
  BY DEF LoopBlocks

-----------------------------------------------------------------------------
(* Appending to the history and opening a block.                           *)

LEMMA RecordType ==
  ASSUME TypeOK, NEW s \in Stmts, Record(s)
  PROVE  prog' \in Seq(Stmts)
  BY AppendProperties DEF TypeOK, Record

LEMMA RejectKeepsIInv ==
  ASSUME IInv, Reject
  PROVE  IInv'
<1>1. TableInv'
  BY DEF IInv, Reject, TableInv, SymbolsTypeOK, SlotsBelowCursor, ScopesNested,
         LiveSlotsDisjoint, NoDuplicateInScope, ScopeOf
<1>2. TypeOK'
  BY <1>1 DEF IInv, Reject, TypeOK, TableInv
<1> QED BY <1>1, <1>2 DEF IInv, Reject, NestMatchesScopes, LoopsCounted

(* Steps that leave the table alone.                                       *)
LEMMA TableUnchanged ==
  ASSUME TableInv, UNCHANGED symVars
  PROVE  TableInv'
  BY DEF symVars, TableInv, SymbolsTypeOK, SlotsBelowCursor, ScopesNested,
         LiveSlotsDisjoint, NoDuplicateInScope, ScopeOf

LEMMA DeclareKeepsIInv ==
  ASSUME IInv, phase \in {"params", "body"},
         NEW op \in {"param", "decl"}, NEW n \in Names, NEW m \in BOOLEAN, NEW t \in Types,
         Declare(op, n, m, t)
  PROVE  IInv'
<1>1. CASE ~CanAdd(n)
  BY <1>1, RejectKeepsIInv DEF Declare
<1>2. CASE CanAdd(n)
  <2> DEFINE d == Len(prog) + 1
             s == [op |-> op, name |-> n, bind |-> d, depth |-> scope_depth,
                   mut |-> m, type |-> t]
  <2>1. /\ AddSymbol(n, m, t, d) /\ Record(s)
        /\ UNCHANGED <<phase, nest, loop_depth>>
    BY <1>2 DEF Declare
  <2>2. d \in Nat /\ scope_depth \in Nat
    BY LenProperties, SymbolsAssumption DEF IInv, TypeOK, SymbolsTypeOK
  <2>3. s \in Stmts
    BY <2>2 DEF Stmts
  <2> HIDE DEF d, s
  <2>4. prog' \in Seq(Stmts)
    BY <2>1, <2>3, RecordType DEF IInv
  <2>5. TableInv'
    BY <1>2, <2>1, <2>2, AddSymbolKeepsTable DEF IInv
  <2>6. TypeOK'
    BY <2>1, <2>4, <2>5 DEF IInv, TypeOK, TableInv
  <2>7. scope_depth' = scope_depth
    BY <2>1 DEF AddSymbol
  <2> QED BY <2>1, <2>5, <2>6, <2>7 DEF IInv, NestMatchesScopes, LoopsCounted
<1> QED BY <1>1, <1>2

LEMMA ReferKeepsIInv ==
  ASSUME IInv, NEW op \in {"use", "assign"}, NEW n \in Names,
         symbol_find(n) # 0, Refer(op, n)
  PROVE  IInv'
<1> DEFINE i == symbol_find(n) - 1
           s == Stmt(op, n, sym[i].decl)
<1>1. i \in 0 .. sym_count - 1
  BY FindFromFinds DEF IInv, TypeOK, symbol_find
<1>2. sym[i].decl \in Nat /\ scope_depth \in Nat
  BY <1>1, SymbolsAssumption DEF IInv, TypeOK, SymbolsTypeOK, Symbol
<1>3. s \in Stmts
  BY <1>2 DEF Stmt, Stmts
<1>4. Record(s) /\ UNCHANGED <<phase, nest, loop_depth>> /\ UNCHANGED symVars
  BY DEF Refer, symVars
<1> HIDE DEF s
<1>5. prog' \in Seq(Stmts)
  BY <1>3, <1>4, RecordType DEF IInv
<1>6. TableInv'
  BY <1>4, TableUnchanged DEF IInv
<1>7. TypeOK'
  BY <1>4, <1>5, <1>6 DEF IInv, TypeOK, TableInv
<1> QED BY <1>4, <1>6, <1>7 DEF IInv, NestMatchesScopes, LoopsCounted, symVars

LEMMA OpenKeepsIInv ==
  ASSUME IInv, CanPush, phase = "body",
         NEW kind \in BlockKinds \ {"fn"},
         NEW loops, loops = IF kind \in LoopKinds THEN loop_depth + 1 ELSE loop_depth,
         Open(kind, loops)
  PROVE  IInv'
<1> DEFINE b == Block(kind, FALSE, loop_depth)
           s == [op |-> "open", kind |-> kind, depth |-> scope_depth]
<1>1. scope_depth \in Nat /\ loop_depth \in Nat /\ nest \in Seq(BlockRecord) /\ Len(nest) > 0
  BY SymbolsAssumption DEF IInv, TypeOK, SymbolsTypeOK, BlockRecord
<1>2. b \in BlockRecord /\ s \in Stmts
  BY <1>1 DEF Block, BlockRecord, Stmts
<1>3. /\ scope_push /\ Record(s)
      /\ nest' = Append(nest, b) /\ loop_depth' = loops /\ phase' = phase
  BY DEF Open
<1> HIDE DEF b, s
<1>4. /\ nest' \in Seq(BlockRecord) /\ Len(nest') = Len(nest) + 1
      /\ nest'[1] = nest[1]
  BY <1>1, <1>2, <1>3, AppendProperties, LenProperties
<1>5. TableInv'
  BY <1>3, ScopePushKeepsTable DEF IInv
<1>6. prog' \in Seq(Stmts)
  BY <1>2, <1>3, RecordType DEF IInv
<1>7. TypeOK'
  BY <1>1, <1>3, <1>4, <1>5, <1>6, LenProperties DEF IInv, TypeOK, TableInv, BlockRecord
<1>8. NestMatchesScopes'
  BY <1>3, <1>4 DEF IInv, NestMatchesScopes, scope_push
<1>9. LoopsCounted'
  <2>1. b.kind = kind
    BY DEF b, Block
  <2>2. /\ \A i \in 1 .. Len(nest) : nest'[i] = nest[i]
        /\ nest'[Len(nest')] = b
    BY <1>1, <1>2, <1>3, <1>4, AppendProperties
  <2>3. Len(nest) \in Nat
    BY <1>1, LenProperties
  <2>4. Cardinality(LoopBlocks(nest')) =
          IF kind \in LoopKinds THEN Cardinality(LoopBlocks(nest)) + 1
          ELSE Cardinality(LoopBlocks(nest))
    BY <1>4, <2>1, <2>2, <2>3, LoopBlocksGrow
  <2> QED BY <1>3, <2>4 DEF IInv, LoopsCounted
<1> QED BY <1>5, <1>7, <1>8, <1>9 DEF IInv

-----------------------------------------------------------------------------
(* The statements that stay in the innermost block, or leave it.           *)

LEMMA TopFacts ==
  ASSUME IInv
  PROVE  /\ nest \in Seq(BlockRecord) /\ Len(nest) \in Nat \ {0}
         /\ scope_depth \in Nat /\ loop_depth \in Nat
         /\ Top \in BlockRecord
         /\ \A i \in 1 .. Len(nest) : nest[i] \in BlockRecord
         /\ phase = "body" => scope_depth = Len(nest) /\ nest[1].kind = "fn"
         /\ phase = "body" /\ Top.kind # "fn" => Len(nest) > 1
<1>1. /\ nest \in Seq(BlockRecord) /\ Len(nest) \in Nat \ {0}
      /\ scope_depth \in Nat /\ loop_depth \in Nat
  BY SymbolsAssumption, LenProperties DEF IInv, TypeOK, SymbolsTypeOK, BlockRecord
<1>2. \A i \in 1 .. Len(nest) : nest[i] \in BlockRecord
  BY <1>1, ElementOfSeq
<1>3. Len(nest) \in 1 .. Len(nest)
  BY <1>1
<1> QED BY <1>1, <1>2, <1>3 DEF Top, IInv, NestMatchesScopes

LEMMA ElseKeepsIInv ==
  ASSUME IInv, ElseBlock
  PROVE  IInv'
<1> DEFINE b == Block("else", Top.rets, loop_depth)
           s == [op |-> "else", depth |-> scope_depth - 1]
<1>1. /\ phase = "body" /\ Top.kind = "then" /\ ScopeNext /\ Record(s)
      /\ nest' = [nest EXCEPT ![Len(nest)] = b]
      /\ UNCHANGED <<phase, loop_depth>>
  BY DEF ElseBlock
<1>2. /\ scope_depth = Len(nest) /\ Len(nest) \in Nat /\ Len(nest) > 1
      /\ nest \in Seq(BlockRecord) /\ nest[1].kind = "fn"
  BY <1>1, TopFacts
<1>3. b \in BlockRecord /\ s \in Stmts
  BY <1>2, TopFacts DEF Block, BlockRecord, BlockKinds, Stmts
<1> HIDE DEF b, s
<1>4. nest' \in Seq(BlockRecord) /\ Len(nest') = Len(nest) /\ nest'[1] = nest[1]
  BY <1>1, <1>2, <1>3, ExceptSeq
<1>5. TableInv'
  BY <1>1, <1>2, ScopeNextKeepsTable DEF IInv
<1>6. prog' \in Seq(Stmts)
  BY <1>1, <1>3, RecordType DEF IInv
<1>7. TypeOK'
  BY <1>1, <1>2, <1>4, <1>5, <1>6 DEF IInv, TypeOK, TableInv, BlockRecord
<1>8. LoopsCounted'
  <2>1. b.kind = "else" /\ nest[Len(nest)].kind = "then"
    BY <1>1 DEF b, Block, Top
  <2>2. \A i \in 1 .. Len(nest) : nest'[i] = IF i = Len(nest) THEN b ELSE nest[i]
    BY <1>1, <1>2, <1>3, ExceptSeq
  <2>3. LoopBlocks(nest') = LoopBlocks(nest)
    BY <1>4, <2>1, <2>2, LoopBlocksSame DEF LoopKinds
  <2> QED BY <1>1, <2>3 DEF IInv, LoopsCounted
<1> QED BY <1>1, <1>2, <1>4, <1>5, <1>7, <1>8 DEF IInv, NestMatchesScopes, ScopeNext

LEMMA CloseKeepsIInv ==
  ASSUME IInv, CloseBlock
  PROVE  IInv'
<1> DEFINE s == [op |-> "close", depth |-> scope_depth - 1]
           parent == [nest[Len(nest) - 1] EXCEPT !.rets = @ \/ semantic_stmt_returns(Top)]
<1>1. /\ phase = "body" /\ Top.kind # "fn" /\ scope_pop /\ Record(s)
      /\ nest' = [i \in 1 .. Len(nest) - 1 |-> IF i = Len(nest) - 1 THEN parent ELSE nest[i]]
      /\ phase' = phase
  BY DEF CloseBlock
<1>2. /\ scope_depth = Len(nest) /\ Len(nest) \in Nat /\ Len(nest) > 1
      /\ nest[1].kind = "fn" /\ Len(nest) - 1 \in Nat \ {0}
  BY <1>1, TopFacts
<1>3. s \in Stmts
  BY <1>2 DEF Stmts
<1>4. parent \in BlockRecord /\ parent.kind = nest[Len(nest) - 1].kind
  <2>1. nest[Len(nest) - 1] \in BlockRecord
    BY <1>2, TopFacts
  <2> QED BY <2>1 DEF BlockRecord, semantic_stmt_returns
<1> HIDE DEF s, parent
<1>5. /\ nest' \in [1 .. Len(nest) - 1 -> BlockRecord]
      /\ nest'[1].kind = "fn"
  BY <1>1, <1>2, <1>4, TopFacts
<1>6. nest' \in Seq(BlockRecord) /\ Len(nest') = Len(nest) - 1
  <2> DEFINE l == Len(nest) - 1
  <2>1. l \in Nat /\ nest' \in [1 .. l -> BlockRecord]
    BY <1>2, <1>5
  <2> HIDE DEF l
  <2>2. nest' \in Seq(BlockRecord)
    BY <2>1, SeqDef
  <2>3. Len(nest') = l
    BY <2>1, <2>2, LenProperties
  <2> QED BY <2>2, <2>3 DEF l
<1>7. TableInv'
  BY <1>1, <1>2, ScopePopKeepsTable DEF IInv
<1>8. prog' \in Seq(Stmts)
  BY <1>1, <1>3, RecordType DEF IInv
<1>9. LoopsCounted' /\ loop_depth' \in Nat
  <2>1. \A i \in 1 .. Len(nest) - 1 : nest'[i].kind = nest[i].kind
    BY <1>1, <1>2, <1>4
  <2>2. Cardinality(LoopBlocks(nest)) =
          IF Top.kind \in LoopKinds THEN Cardinality(LoopBlocks(nest')) + 1
          ELSE Cardinality(LoopBlocks(nest'))
    <3>1. Len(nest') \in Nat /\ Len(nest) = Len(nest') + 1
      BY <1>2, <1>6
    <3>2. \A i \in 1 .. Len(nest') : nest[i].kind = nest'[i].kind
      BY <1>6, <2>1
    <3> QED BY <3>1, <3>2, LoopBlocksGrow DEF Top
  <2>3. Cardinality(LoopBlocks(nest')) \in Nat
    BY <1>2, <1>6, LoopBlocksFinite
  <2>4. loop_depth' = Cardinality(LoopBlocks(nest'))
    BY <1>1, <2>2, <2>3 DEF IInv, LoopsCounted, CloseBlock, semantic_loop_leave
  <2> QED BY <2>3, <2>4 DEF LoopsCounted
<1>10. TypeOK'
  BY <1>1, <1>2, <1>6, <1>7, <1>8, <1>9 DEF IInv, TypeOK, TableInv, BlockRecord
<1> QED BY <1>1, <1>2, <1>5, <1>6, <1>7, <1>9, <1>10 DEF IInv, NestMatchesScopes, scope_pop

LEMMA JumpKeepsIInv ==
  ASSUME IInv, semantic_loop_control_stmt
  PROVE  IInv'
<1>1. CASE loop_depth = 0
  BY <1>1, RejectKeepsIInv DEF semantic_loop_control_stmt
<1>2. CASE loop_depth # 0
  <2> DEFINE s == [op |-> "jump", depth |-> scope_depth]
  <2>1. Record(s) /\ UNCHANGED symVars /\ UNCHANGED <<phase, nest, loop_depth>>
    BY <1>2 DEF semantic_loop_control_stmt, symVars
  <2>2. s \in Stmts
    BY TopFacts DEF Stmts
  <2> HIDE DEF s
  <2>3. TableInv' /\ prog' \in Seq(Stmts)
    BY <2>1, <2>2, RecordType, TableUnchanged DEF IInv
  <2> QED BY <2>1, <2>3 DEF IInv, TypeOK, TableInv, NestMatchesScopes, LoopsCounted, symVars
<1> QED BY <1>1, <1>2

LEMMA RetKeepsIInv ==
  ASSUME IInv, semantic_ret_stmt
  PROVE  IInv'
<1> DEFINE s == [op |-> "ret", depth |-> scope_depth]
           b == [nest[Len(nest)] EXCEPT !.rets = TRUE]
<1>1. /\ phase = "body" /\ Record(s)
      /\ nest' = [nest EXCEPT ![Len(nest)] = b]
      /\ UNCHANGED symVars /\ UNCHANGED <<phase, loop_depth>>
  BY DEF semantic_ret_stmt, symVars
<1>2. s \in Stmts /\ b \in BlockRecord /\ b.kind = nest[Len(nest)].kind
  BY TopFacts DEF Stmts, BlockRecord, Top
<1> HIDE DEF s, b
<1>3. nest' \in Seq(BlockRecord) /\ Len(nest') = Len(nest) /\ nest'[1].kind = nest[1].kind
  BY <1>1, <1>2, ExceptSeq, TopFacts
<1>4. TableInv' /\ prog' \in Seq(Stmts)
  BY <1>1, <1>2, RecordType, TableUnchanged DEF IInv
<1>5. TypeOK'
  BY <1>1, <1>3, <1>4, TopFacts DEF IInv, TypeOK, TableInv, BlockRecord
<1>6. LoopsCounted'
  <2>1. \A i \in 1 .. Len(nest) : nest'[i].kind = nest[i].kind
    BY <1>1, <1>2, ExceptSeq, TopFacts
  <2>2. LoopBlocks(nest') = LoopBlocks(nest)
    BY <1>3, <2>1, LoopBlocksSame
  <2> QED BY <1>1, <2>2 DEF IInv, LoopsCounted
<1> QED BY <1>1, <1>3, <1>4, <1>5, <1>6 DEF IInv, NestMatchesScopes, symVars

LEMMA EndKeepsIInv ==
  ASSUME IInv, EndFunction
  PROVE  IInv'
<1>1. /\ phase = "body" /\ scope_pop /\ phase' \in {"accepted", "rejected"}
      /\ UNCHANGED <<nest, loop_depth, prog>>
  BY DEF EndFunction
<1>2. TableInv'
  BY <1>1, TopFacts, ScopePopKeepsTable DEF IInv
<1> QED BY <1>1, <1>2 DEF IInv, TypeOK, TableInv, NestMatchesScopes, LoopsCounted

-----------------------------------------------------------------------------
LEMMA InitIInv == Init => IInv
<1> SUFFICES ASSUME Init PROVE IInv
  OBVIOUS
<1> DEFINE root == Block("fn", FALSE, 0)
<1>1. /\ sym_count = 0 /\ slot_cursor = 0 /\ local_count = 0 /\ scope_depth = 1
      /\ scope_base = [k \in 0 .. 0 |-> [sym |-> 0, slot |-> 0]]
      /\ sym \in [0 .. -1 -> Symbol]
      /\ phase = "params" /\ nest = <<root>> /\ loop_depth = 0 /\ prog = << >>
  BY DEF Init, Emptied
<1>2. SymbolsTypeOK
  BY <1>1, SymbolsAssumption DEF SymbolsTypeOK
<1>3. TableInv
  BY <1>1, <1>2 DEF TableInv, SlotsBelowCursor, ScopesNested, LiveSlotsDisjoint,
                    NoDuplicateInScope
<1>4. root \in BlockRecord /\ root.kind = "fn"
  BY DEF Block, BlockRecord, BlockKinds
<1> HIDE DEF root
<1>5. nest \in Seq(BlockRecord) /\ Len(nest) = 1 /\ nest[1] = root
  BY <1>1, <1>4
<1>6. TypeOK
  BY <1>1, <1>2, <1>5 DEF TypeOK, BlockRecord
<1>7. LoopsCounted
  <2>1. LoopBlocks(nest) = {}
    BY <1>4, <1>5 DEF LoopBlocks, LoopKinds
  <2> QED BY <1>1, <2>1, FS_EmptySet DEF LoopsCounted
<1> QED BY <1>1, <1>3, <1>4, <1>5, <1>6, <1>7 DEF IInv, NestMatchesScopes

LEMMA NextIInv == IInv /\ [CheckNext]_checkVars => IInv'
<1> SUFFICES ASSUME IInv, [CheckNext]_checkVars PROVE IInv'
  OBVIOUS
<1>1. ASSUME NEW n \in Names, NEW t \in Types, semantic_bind_params(n, t)
      PROVE  IInv'
  BY <1>1, DeclareKeepsIInv DEF semantic_bind_params
<1>2. CASE StartBody
  <2>1. TableInv'
    BY <1>2, TableUnchanged DEF IInv, StartBody, symVars
  <2> QED BY <1>2, <2>1 DEF IInv, StartBody, TypeOK, TableInv, NestMatchesScopes, LoopsCounted
<1>3. ASSUME NEW n \in Names, NEW m \in BOOLEAN, NEW t \in Types, semantic_decl_stmt(n, m, t)
      PROVE  IInv'
  BY <1>3, DeclareKeepsIInv DEF semantic_decl_stmt
<1>4. ASSUME NEW n \in Names, VarRef(n)
      PROVE  IInv'
  BY <1>4, RejectKeepsIInv, ReferKeepsIInv DEF VarRef
<1>5. ASSUME NEW n \in Names, semantic_assign_stmt(n)
      PROVE  IInv'
  BY <1>5, RejectKeepsIInv, ReferKeepsIInv DEF semantic_assign_stmt
<1>6. CASE semantic_if_stmt
  <2>1. "then" \in BlockKinds \ {"fn"} /\ "then" \notin LoopKinds
    BY DEF BlockKinds, LoopKinds
  <2> QED BY <1>6, <2>1, RejectKeepsIInv, OpenKeepsIInv DEF semantic_if_stmt
<1>7. ASSUME NEW kind \in LoopKinds, semantic_loop_stmt(kind)
      PROVE  IInv'
  <2>1. kind \in BlockKinds \ {"fn"}
    BY DEF BlockKinds, LoopKinds
  <2> QED BY <1>7, <2>1, RejectKeepsIInv, OpenKeepsIInv DEF semantic_loop_stmt
<1>8. CASE ElseBlock
  BY <1>8, ElseKeepsIInv
<1>9. CASE CloseBlock
  BY <1>9, CloseKeepsIInv
<1>10. CASE semantic_loop_control_stmt
  BY <1>10, JumpKeepsIInv
<1>11. CASE semantic_ret_stmt
  BY <1>11, RetKeepsIInv
<1>12. CASE EndFunction
  BY <1>12, EndKeepsIInv
<1>13. CASE UNCHANGED checkVars
  <2>1. TableInv'
    BY <1>13, TableUnchanged DEF IInv, checkVars, symVars
  <2> QED BY <1>13, <2>1 DEF IInv, checkVars, TypeOK, TableInv, NestMatchesScopes, LoopsCounted
<1> QED BY <1>1, <1>2, <1>3, <1>4, <1>5, <1>6, <1>7, <1>8, <1>9, <1>10, <1>11, <1>12, <1>13
        DEF CheckNext

(* The checker's tables satisfy IInv in every reachable state.             *)
THEOREM Invariance == Spec => []IInv
  BY InitIInv, NextIInv, PTL DEF Spec

-----------------------------------------------------------------------------
(* The check of a function never leaves the declared types: the table stays*)
(* within SYM_CAP, the scope stack within SCOPE_CAP, and no scope_pop or   *)
(* semantic_loop_leave takes a counter below zero.                         *)
THEOREM TypeCorrect == Spec => []TypeOK
<1>1. IInv => TypeOK
  BY DEF IInv
<1> QED BY <1>1, Invariance, PTL

(* No two live locals of a function share a stack slot, and all of them lie*)
(* within the local_count slots its frame is given.                        *)
THEOREM SlotsNeverOverlap == Spec => []LiveSlotsDisjoint
<1>1. IInv => LiveSlotsDisjoint
  BY DEF IInv, TableInv
<1> QED BY <1>1, Invariance, PTL

(* No scope of an accepted prefix declares a name twice.                   *)
THEOREM NamesUniqueInScope == Spec => []NoDuplicateInScope
<1>1. IInv => NoDuplicateInScope
  BY DEF IInv, TableInv
<1> QED BY <1>1, Invariance, PTL

(* semantic_loop_depth counts the open loops exactly, and is always smaller*)
(* than the scope depth: loop_enter's own limit, SCOPE_CAP, is never the   *)
(* one that rejects a function.                                            *)
THEOREM LoopDepthCounted == Spec => []LoopDepthExact
<1>1. IInv => LoopDepthExact
  <2> SUFFICES ASSUME IInv, phase = "body"
               PROVE  Cardinality(LoopBlocks(nest)) < Len(nest)
    BY TopFacts DEF IInv, LoopsCounted, LoopDepthExact
  <2>1. Len(nest) \in Nat \ {0} /\ nest[1].kind = "fn"
    BY TopFacts
  <2>2. LoopBlocks(nest) \in SUBSET (2 .. Len(nest))
    BY <2>1 DEF LoopBlocks, LoopKinds
  <2>3. IsFiniteSet(2 .. Len(nest)) /\ Cardinality(2 .. Len(nest)) = Len(nest) - 1
    BY <2>1, FS_Interval
  <2>4. Cardinality(LoopBlocks(nest)) <= Len(nest) - 1
    BY <2>2, <2>3, FS_Subset
  <2>5. Cardinality(LoopBlocks(nest)) \in Nat
    BY <2>1, LoopBlocksFinite
  <2> QED BY <2>1, <2>4, <2>5
<1> QED BY <1>1, Invariance, PTL
-----------------------------------------------------------------------------
(* What the walk has recorded.  The first part is about the record alone   *)
(* and stays true in the later passes, the second relates it to the table  *)
(* and to the open blocks while the function is checked.                   *)
Live == phase \in {"params", "body"}

(* The scope depth before and after a statement.                           *)
EntryDepth(s) == IF s.op \in {"else", "close"} THEN s.depth + 1 ELSE s.depth
ExitDepth(s) == IF s.op \in {"open", "else"} THEN s.depth + 1 ELSE s.depth
DepthAfter(k) == IF k = 0 THEN 1 ELSE ExitDepth(prog[k])

(* Each statement starts at the depth the one before left, and no block    *)
(* opens where the scope stack is full.                                    *)
DepthsLinked ==
  \A k \in 1 .. Len(prog) :
    /\ EntryDepth(prog[k]) = DepthAfter(k - 1)
    /\ prog[k].depth > 0
    /\ prog[k].op = "open" => prog[k].depth < SCOPE_CAP

(* A reference is bound to a declaration of its name, a declaration to     *)
(* itself.                                                                 *)
BindsDeclared ==
  \A k \in 1 .. Len(prog) :
    /\ k \in Declarations => prog[k].bind = k
    /\ prog[k].op \in {"use", "assign"} =>
         /\ prog[k].bind \in Declarations
         /\ prog[prog[k].bind].name = prog[k].name

(* A loop was opened at q and is still open behind the statement k.        *)
LoopOpenAt(q, k) ==
  /\ prog[q].op = "open" /\ prog[q].kind \in LoopKinds
  /\ \A r \in q + 1 .. k : prog[r].depth > prog[q].depth

JumpsInLoops ==
  \A k \in 1 .. Len(prog) :
    prog[k].op = "jump" => \E q \in 1 .. k - 1 : LoopOpenAt(q, k)

RecordInv == DepthsLinked /\ BindsDeclared /\ JumpsInLoops

IsVisible(d) == \A p \in d .. Len(prog) : prog[p].depth >= prog[d].depth

(* IsVisible in the next state, of a declaration that may itself be primed.*)
VisibleNext(d) == \A p \in d .. Len(prog') : prog'[p].depth >= prog'[d].depth

(* The symbols of the table are the visible declarations, in their order.  *)
SymbolsVisible ==
  \A i \in 0 .. sym_count - 1 :
    /\ sym[i].decl \in Declarations
    /\ prog[sym[i].decl].name = sym[i].name
    /\ IsVisible(sym[i].decl)
VisibleHaveSymbols ==
  \A d \in Declarations : IsVisible(d) => \E i \in 0 .. sym_count - 1 : sym[i].decl = d
SymbolsInOrder ==
  \A i, j \in 0 .. sym_count - 1 : i < j => sym[i].decl < sym[j].decl

(* The base of a scope separates the symbols by the depth they were        *)
(* declared at.                                                            *)
BasesMatchDepths ==
  \A i \in 0 .. sym_count - 1 :
    /\ prog[sym[i].decl].depth <= scope_depth
    /\ \A k \in 0 .. scope_depth - 1 :
         i < scope_base[k].sym <=> prog[sym[i].decl].depth <= k

(* An open loop was opened by a statement of its depth.                    *)
LoopsRecorded ==
  \A i \in LoopBlocks(nest) :
    \E q \in 1 .. Len(prog) : LoopOpenAt(q, Len(prog)) /\ prog[q].depth = i - 1

TableMatchesRecord ==
  /\ DepthAfter(Len(prog)) = scope_depth
  /\ SymbolsVisible
  /\ VisibleHaveSymbols
  /\ SymbolsInOrder
  /\ BasesMatchDepths
  /\ LoopsRecorded

HInv ==
  /\ RecordInv
  /\ Live => TableMatchesRecord

-----------------------------------------------------------------------------
(* One more statement in the record.                                       *)

LEMMA RecordFacts ==
  ASSUME TypeOK, NEW s \in Stmts, Record(s)
  PROVE  /\ Len(prog) \in Nat /\ Len(prog') = Len(prog) + 1
         /\ \A k \in 1 .. Len(prog) : prog'[k] = prog[k] /\ prog[k] \in Stmts
         /\ prog'[Len(prog) + 1] = s
         /\ s.depth \in Nat
         /\ \A k \in 1 .. Len(prog) : prog[k].depth \in Nat
<1>1. prog \in Seq(Stmts)
  BY DEF TypeOK
<1>2. \A t \in Stmts : t.depth \in Nat
  BY DEF Stmts
<1> QED BY <1>1, <1>2, AppendProperties, LenProperties, ElementOfSeq DEF Record

LEMMA DeclarationsAfter ==
  ASSUME TypeOK, NEW s \in Stmts, Record(s)
  PROVE  Declarations' = IF s.op \in {"param", "decl"} THEN Declarations \cup {Len(prog) + 1}
                         ELSE Declarations
  BY RecordFacts DEF Declarations

(* n is the length before: a constant, which the prime leaves alone.       *)
LEMMA VisibleAfter ==
  ASSUME TypeOK, NEW s \in Stmts, Record(s), NEW n, n = Len(prog)
  PROVE  /\ \A d \in 1 .. n : VisibleNext(d) <=> IsVisible(d) /\ prog[d].depth <= s.depth
         /\ VisibleNext(n + 1)
<1>1. ASSUME NEW d \in 1 .. n
      PROVE  VisibleNext(d) <=> IsVisible(d) /\ prog[d].depth <= s.depth
  <2>1. \A p : p \in d .. Len(prog') <=> p \in d .. Len(prog) \/ p = Len(prog) + 1
    BY RecordFacts
  <2>2. \A p \in d .. Len(prog) : p \in 1 .. Len(prog)
    BY RecordFacts
  <2> QED BY <2>1, <2>2, RecordFacts DEF IsVisible, VisibleNext
<1>2. VisibleNext(n + 1)
  BY RecordFacts DEF IsVisible, VisibleNext
<1> QED BY <1>1, <1>2

LEMMA LoopOpenAfter ==
  ASSUME TypeOK, NEW s \in Stmts, Record(s), NEW n, n = Len(prog), NEW q \in 1 .. n
  PROVE  /\ \A k \in 1 .. n : LoopOpenAt(q, k)' <=> LoopOpenAt(q, k)
         /\ LoopOpenAt(q, n + 1)' <=> LoopOpenAt(q, n) /\ s.depth > prog[q].depth
<1>1. n \in Nat /\ n \in 1 .. n
  BY RecordFacts
<1>2. \A k \in 1 .. n : \A r \in q + 1 .. k : r \in 1 .. n
  BY <1>1
<1>3. \A r : r \in q + 1 .. n + 1 <=> r \in q + 1 .. n \/ r = n + 1
  BY <1>1
<1>4. \A k \in 1 .. n : LoopOpenAt(q, k)' <=> LoopOpenAt(q, k)
  BY <1>1, <1>2, RecordFacts DEF LoopOpenAt
<1>5. LoopOpenAt(q, n + 1)' <=> LoopOpenAt(q, n) /\ s.depth > prog[q].depth
  BY <1>1, <1>2, <1>3, RecordFacts DEF LoopOpenAt
<1> QED BY <1>4, <1>5

LEMMA RecordKeepsRecordInv ==
  ASSUME TypeOK, RecordInv, NEW s \in Stmts, Record(s),
         EntryDepth(s) = DepthAfter(Len(prog)), s.depth > 0,
         s.op = "open" => s.depth < SCOPE_CAP,
         s.op \in {"param", "decl"} => s.bind = Len(prog) + 1,
         s.op \in {"use", "assign"} =>
           s.bind \in Declarations /\ prog[s.bind].name = s.name,
         s.op = "jump" => \E q \in 1 .. Len(prog) :
                            LoopOpenAt(q, Len(prog)) /\ s.depth > prog[q].depth
  PROVE  /\ RecordInv'
         /\ DepthAfter(Len(prog))' = ExitDepth(s)
<1> PICK n : n = Len(prog)
  OBVIOUS
<1>1. /\ n \in Nat /\ Len(prog') = n + 1
      /\ \A k \in 1 .. n : prog'[k] = prog[k]
      /\ prog'[n + 1] = s
  BY RecordFacts
<1>2. \A k : k \in 1 .. n + 1 <=> k \in 1 .. n \/ k = n + 1
  BY <1>1
<1>3. \A k \in 0 .. n : DepthAfter(k)' = DepthAfter(k)
  BY <1>1 DEF DepthAfter
<1>4. DepthsLinked'
  <2>1. \A k \in 1 .. n : k - 1 \in 0 .. n
    BY <1>1
  <2>2. \A k \in 1 .. n : EntryDepth(prog'[k]) = DepthAfter(k - 1)'
    BY <1>1, <1>3, <2>1 DEF RecordInv, DepthsLinked
  <2>3. EntryDepth(prog'[n + 1]) = DepthAfter((n + 1) - 1)'
    BY <1>1, <1>3
  <2> QED BY <1>1, <1>2, <2>2, <2>3 DEF RecordInv, DepthsLinked
<1>5. BindsDeclared'
  <2>1. \A d \in Declarations : d \in 1 .. n /\ prog'[d].name = prog[d].name /\ d \in Declarations'
    BY <1>1, DeclarationsAfter DEF Declarations
  <2> QED BY <1>1, <1>2, <2>1, DeclarationsAfter DEF RecordInv, BindsDeclared
<1>6. JumpsInLoops'
  <2> SUFFICES ASSUME NEW k \in 1 .. n + 1, prog'[k].op = "jump"
               PROVE  \E q \in 1 .. k - 1 : LoopOpenAt(q, k)'
    BY <1>1 DEF JumpsInLoops
  <2>1. CASE k \in 1 .. n
    <3>1. PICK q \in 1 .. k - 1 : LoopOpenAt(q, k)
      BY <1>1, <2>1 DEF RecordInv, JumpsInLoops
    <3>2. q \in 1 .. Len(prog)
      BY <1>1, <2>1
    <3> QED BY <2>1, <3>1, <3>2, LoopOpenAfter
  <2>2. CASE k = n + 1
    <3>1. PICK q \in 1 .. n : LoopOpenAt(q, n) /\ s.depth > prog[q].depth
      BY <1>1, <2>2
    <3>2. LoopOpenAt(q, n + 1)'
      BY <3>1, LoopOpenAfter
    <3>3. q \in 1 .. k - 1
      BY <1>1, <2>2
    <3> QED BY <2>2, <3>2, <3>3
  <2> QED BY <1>2, <2>1, <2>2
<1>7. DepthAfter(Len(prog))' = ExitDepth(s)
  BY <1>1 DEF DepthAfter
<1> QED BY <1>4, <1>5, <1>6, <1>7 DEF RecordInv

LEMMA LoopsRecordedAfter ==
  ASSUME TypeOK, LoopsRecorded, NEW s \in Stmts, Record(s),
         \A i \in LoopBlocks(nest)' :
            /\ i \in Nat
            /\ \/ i \in LoopBlocks(nest) /\ i <= s.depth
               \/ s.op = "open" /\ s.kind \in LoopKinds /\ s.depth = i - 1
  PROVE  LoopsRecorded'
<1> PICK n : n = Len(prog)
  OBVIOUS
<1>1. n \in Nat /\ Len(prog') = n + 1 /\ s.depth \in Nat
  BY RecordFacts
<1> SUFFICES ASSUME NEW i \in LoopBlocks(nest)'
             PROVE  \E q \in 1 .. n + 1 : LoopOpenAt(q, n + 1)' /\ prog'[q].depth = i - 1
  BY <1>1 DEF LoopsRecorded
<1>2. CASE i \in LoopBlocks(nest) /\ i <= s.depth
  <2>1. PICK q \in 1 .. n : LoopOpenAt(q, n) /\ prog[q].depth = i - 1
    BY <1>2 DEF LoopsRecorded
  <2>2. prog'[q] = prog[q] /\ prog[q].depth \in Nat
    BY RecordFacts
  <2>3. i \in Nat
    OBVIOUS
  <2>4. s.depth > prog[q].depth
    BY <1>1, <1>2, <2>1, <2>2, <2>3
  <2>5. LoopOpenAt(q, n + 1)'
    BY <2>1, <2>4, LoopOpenAfter
  <2> QED BY <1>1, <2>1, <2>2, <2>5
<1>3. CASE s.op = "open" /\ s.kind \in LoopKinds /\ s.depth = i - 1
  <2>1. LoopOpenAt(n + 1, n + 1)'
    BY <1>1, <1>3, RecordFacts DEF LoopOpenAt
  <2>2. prog'[n + 1].depth = i - 1 /\ n + 1 \in 1 .. n + 1
    BY <1>1, <1>3, RecordFacts
  <2> QED BY <2>1, <2>2
<1> QED BY <1>2, <1>3

-----------------------------------------------------------------------------
(* The four ways the record and the table change together.                 *)

(* What the invariants say in every one of them.                           *)
LEMMA LiveFacts ==
  ASSUME IInv, HInv, Live
  PROVE  /\ TypeOK /\ TableInv /\ RecordInv /\ TableMatchesRecord
         /\ sym_count \in Nat
         /\ scope_depth \in Nat \ {0} /\ Len(nest) = scope_depth /\ Len(prog) \in Nat
         /\ \A i \in 0 .. sym_count - 1 : sym[i] \in Symbol
         /\ \A i \in 0 .. sym_count - 1 : sym[i].decl \in 1 .. Len(prog)
         /\ \A k \in 0 .. scope_depth - 1 : scope_base[k].sym \in 0 .. sym_count
         /\ LoopBlocks(nest) \subseteq 1 .. scope_depth
<1>1. TypeOK /\ TableInv /\ RecordInv /\ TableMatchesRecord /\ sym_count \in Nat
  BY SymbolsAssumption DEF IInv, HInv, TypeOK, SymbolsTypeOK
<1>2. scope_depth \in Nat \ {0} /\ Len(nest) = scope_depth /\ Len(prog) \in Nat
  BY TopFacts, LenProperties, <1>1 DEF IInv, NestMatchesScopes, Live, TypeOK
<1>3. \A i \in 0 .. sym_count - 1 : sym[i] \in Symbol
  BY <1>1 DEF TypeOK, SymbolsTypeOK
<1>4. \A i \in 0 .. sym_count - 1 : sym[i].decl \in 1 .. Len(prog)
  BY <1>1 DEF TableMatchesRecord, SymbolsVisible, Declarations
<1>5. \A k \in 0 .. scope_depth - 1 : scope_base[k].sym \in 0 .. sym_count
  BY <1>1, BaseFacts
<1>6. LoopBlocks(nest) \subseteq 1 .. scope_depth
  BY <1>2 DEF LoopBlocks
<1> QED BY <1>1, <1>2, <1>3, <1>4, <1>5, <1>6

(* The record a live symbol has.                                           *)
LEMMA LiveSymbols ==
  ASSUME IInv, HInv, Live, NEW i \in 0 .. sym_count - 1
  PROVE  /\ sym[i].decl \in Declarations /\ sym[i].decl \in 1 .. Len(prog)
         /\ prog[sym[i].decl].name = sym[i].name
         /\ IsVisible(sym[i].decl)
         /\ prog[sym[i].decl].depth <= scope_depth
         /\ \A k \in 0 .. scope_depth - 1 :
              i < scope_base[k].sym <=> prog[sym[i].decl].depth <= k
         /\ \A j \in 0 .. sym_count - 1 : i < j => sym[i].decl < sym[j].decl
<1>1. TableMatchesRecord
  BY DEF HInv
<1>2. SymbolsVisible /\ SymbolsInOrder /\ BasesMatchDepths
  BY <1>1 DEF TableMatchesRecord
<1> QED BY <1>2 DEF SymbolsVisible, SymbolsInOrder, BasesMatchDepths, Declarations

LEMMA RejectKeepsHInv ==
  ASSUME HInv, Reject
  PROVE  HInv'
  BY DEF HInv, Reject, Live, RecordInv, DepthsLinked, BindsDeclared, JumpsInLoops, DepthAfter,
         Declarations, LoopOpenAt

(* A statement that starts where the walk is.                              *)
LEMMA StatementKeepsRecordInv ==
  ASSUME IInv, HInv, Live, NEW s \in Stmts, Record(s),
         EntryDepth(s) = scope_depth, s.depth > 0,
         s.op = "open" => s.depth < SCOPE_CAP,
         s.op \in {"param", "decl"} => s.bind = Len(prog) + 1,
         s.op \in {"use", "assign"} =>
           \E i \in 0 .. sym_count - 1 : s.bind = sym[i].decl /\ s.name = sym[i].name,
         s.op = "jump" => loop_depth # 0
  PROVE  RecordInv' /\ DepthAfter(Len(prog))' = ExitDepth(s)
<1>1. TypeOK /\ RecordInv /\ TableMatchesRecord
  BY LiveFacts
<1>2. EntryDepth(s) = DepthAfter(Len(prog))
  BY <1>1 DEF TableMatchesRecord
<1>3. s.op \in {"use", "assign"} => s.bind \in Declarations /\ prog[s.bind].name = s.name
  BY <1>1 DEF TableMatchesRecord, SymbolsVisible
<1>4. s.op = "jump" => \E q \in 1 .. Len(prog) :
                         LoopOpenAt(q, Len(prog)) /\ s.depth > prog[q].depth
  <2> SUFFICES ASSUME s.op = "jump"
               PROVE  \E q \in 1 .. Len(prog) : LoopOpenAt(q, Len(prog)) /\ s.depth > prog[q].depth
    OBVIOUS
  <2>1. LoopBlocks(nest) # {}
    BY FS_EmptySet DEF IInv, LoopsCounted, Live
  <2>2. PICK i \in LoopBlocks(nest) : TRUE
    BY <2>1
  <2>3. PICK q \in 1 .. Len(prog) : LoopOpenAt(q, Len(prog)) /\ prog[q].depth = i - 1
    BY <1>1 DEF TableMatchesRecord, LoopsRecorded
  <2>4. s.depth = scope_depth /\ i \in 1 .. scope_depth
    BY <2>2, LiveFacts DEF EntryDepth
  <2> QED BY <2>3, <2>4, LiveFacts
<1> QED BY <1>1, <1>2, <1>3, <1>4, RecordKeepsRecordInv

LEMMA DeclareKeepsHInv ==
  ASSUME IInv, HInv, Live,
         NEW op \in {"param", "decl"}, NEW n \in Names, NEW m \in BOOLEAN, NEW t \in Types,
         Declare(op, n, m, t)
  PROVE  HInv'
<1>1. CASE ~CanAdd(n)
  BY <1>1, RejectKeepsHInv DEF Declare
<1>2. CASE CanAdd(n)
  <2> DEFINE d == Len(prog) + 1
             s == [op |-> op, name |-> n, bind |-> d, depth |-> scope_depth,
                   mut |-> m, type |-> t]
  <2>1. /\ AddSymbol(n, m, t, d) /\ Record(s)
        /\ UNCHANGED <<phase, nest, loop_depth>>
    BY <1>2 DEF Declare
  <2>2. d \in Nat /\ scope_depth \in Nat \ {0}
    BY LiveFacts
  <2>3. s \in Stmts
    BY <2>2 DEF Stmts
  <2>4. /\ s.op \in {"param", "decl"} /\ s.depth = scope_depth /\ s.name = n /\ s.bind = d
        /\ EntryDepth(s) = scope_depth /\ ExitDepth(s) = scope_depth
    BY DEF EntryDepth, ExitDepth
  <2> HIDE DEF s
  <2>5. RecordInv' /\ DepthAfter(Len(prog))' = scope_depth
    BY <2>1, <2>2, <2>3, <2>4, StatementKeepsRecordInv
  <2>6. PICK l : l = Len(prog)
    OBVIOUS
  <2>7. /\ sym_count' = sym_count + 1 /\ scope_depth' = scope_depth /\ scope_base' = scope_base
        /\ \A i \in 0 .. sym_count - 1 : sym'[i] = sym[i]
        /\ sym'[sym_count].name = n /\ sym'[sym_count].decl = l + 1
        /\ \A i \in 0 .. sym_count' - 1 : i \in 0 .. sym_count - 1 \/ i = sym_count
    BY <2>1, <2>6, LiveFacts DEF AddSymbol
  <2>8. /\ Declarations' = Declarations \cup {l + 1}
        /\ prog'[l + 1] = s /\ \A k \in 1 .. l : prog'[k] = prog[k]
        /\ VisibleNext(l + 1)
        /\ \A k \in 1 .. l : VisibleNext(k) <=> IsVisible(k) /\ prog[k].depth <= scope_depth
    BY <2>1, <2>3, <2>4, <2>6, DeclarationsAfter, RecordFacts, VisibleAfter, LiveFacts
  <2>a. sym_count \in Nat /\ l \in Nat /\ scope_depth \in Nat
    BY <2>6, LiveFacts
  <2>b. ASSUME NEW i \in 0 .. sym_count - 1
        PROVE  /\ sym'[i] = sym[i] /\ sym[i].decl \in 1 .. l /\ sym[i].decl \in Declarations
               /\ prog'[sym[i].decl] = prog[sym[i].decl]
    BY <2>6, <2>7, <2>8, LiveSymbols
  <2>9. SymbolsVisible'
    <3> SUFFICES ASSUME NEW i \in 0 .. sym_count' - 1
                 PROVE  /\ sym'[i].decl \in Declarations'
                        /\ prog'[sym'[i].decl].name = sym'[i].name
                        /\ VisibleNext(sym'[i].decl)
      BY DEF SymbolsVisible, IsVisible, VisibleNext
    <3>1. CASE i = sym_count
      BY <2>4, <2>7, <2>8, <3>1
    <3>2. CASE i \in 0 .. sym_count - 1
      BY <2>8, <2>b, <3>2, LiveSymbols
    <3> QED BY <2>7, <3>1, <3>2
  <2>10. VisibleHaveSymbols'
    <3> SUFFICES ASSUME NEW e \in Declarations', VisibleNext(e)
                 PROVE  \E i \in 0 .. sym_count' - 1 : sym'[i].decl = e
      BY DEF VisibleHaveSymbols, IsVisible, VisibleNext
    <3>1. CASE e = l + 1
      BY <2>7, <3>1, LiveFacts
    <3>2. CASE e \in Declarations
      <4>1. IsVisible(e)
        BY <2>6, <2>8, <3>2 DEF Declarations
      <4>2. PICK i \in 0 .. sym_count - 1 : sym[i].decl = e
        BY <3>2, <4>1, LiveFacts DEF TableMatchesRecord, VisibleHaveSymbols
      <4> QED BY <2>7, <4>2, LiveFacts
    <3> QED BY <2>8, <3>1, <3>2
  <2>11. SymbolsInOrder'
    <3> SUFFICES ASSUME NEW i \in 0 .. sym_count' - 1, NEW j \in 0 .. sym_count' - 1, i < j
                 PROVE  sym'[i].decl < sym'[j].decl
      BY DEF SymbolsInOrder
    <3>1. i \in 0 .. sym_count - 1
      BY <2>7, <2>a
    <3>2. CASE j = sym_count
      BY <2>7, <2>a, <2>b, <3>1, <3>2
    <3>3. CASE j \in 0 .. sym_count - 1
      BY <2>b, <3>1, <3>3, LiveSymbols
    <3> QED BY <2>7, <3>2, <3>3
  <2>12. BasesMatchDepths'
    <3> SUFFICES ASSUME NEW i \in 0 .. sym_count' - 1
                 PROVE  /\ prog'[sym'[i].decl].depth <= scope_depth
                        /\ \A k \in 0 .. scope_depth - 1 :
                             i < scope_base[k].sym <=> prog'[sym'[i].decl].depth <= k
      BY <2>7 DEF BasesMatchDepths
    <3>1. CASE i = sym_count
      <4>1. \A k \in 0 .. scope_depth - 1 : scope_base[k].sym \in 0 .. sym_count
        BY LiveFacts
      <4>2. prog'[sym'[i].decl].depth = scope_depth
        BY <2>4, <2>7, <2>8, <3>1
      <4> QED BY <2>a, <3>1, <4>1, <4>2
    <3>2. CASE i \in 0 .. sym_count - 1
      BY <2>b, <3>2, LiveSymbols
    <3> QED BY <2>7, <3>1, <3>2
  <2>13. LoopsRecorded'
    BY <2>1, <2>3, <2>4, LiveFacts, LoopsRecordedAfter DEF TableMatchesRecord
  <2> QED BY <2>1, <2>5, <2>7, <2>9, <2>10, <2>11, <2>12, <2>13
          DEF HInv, TableMatchesRecord
<1> QED BY <1>1, <1>2

(* Every other statement keeps a prefix of the symbols: those declared no  *)
(* deeper than where it sits.                                              *)
LEMMA PrefixKeepsHInv ==
  ASSUME IInv, HInv, Live, NEW s \in Stmts, Record(s), s.op \notin {"param", "decl"},
         RecordInv', DepthAfter(Len(prog))' = scope_depth',
         sym_count' \in Nat, sym_count' <= sym_count,
         \A i \in 0 .. sym_count' - 1 : sym'[i] = sym[i],
         \A i \in 0 .. sym_count - 1 : i < sym_count' <=> prog[sym[i].decl].depth <= s.depth,
         scope_depth' \in Nat, s.depth <= scope_depth',
         \A k \in 0 .. scope_depth' - 1 :
            \/ k \in 0 .. scope_depth - 1 /\ scope_base'[k].sym = scope_base[k].sym
            \/ scope_base'[k].sym = sym_count' /\ k >= s.depth,
         LoopsRecorded'
  PROVE  HInv'
<1> PICK l : l = Len(prog)
  OBVIOUS
<1>0. l \in Nat /\ sym_count \in Nat /\ scope_depth \in Nat /\ s.depth \in Nat
  BY LiveFacts, RecordFacts
<1>1. /\ Declarations' = Declarations
      /\ \A k \in 1 .. l : prog'[k] = prog[k] /\ prog[k].depth \in Nat
      /\ \A k \in 1 .. l : VisibleNext(k) <=> IsVisible(k) /\ prog[k].depth <= s.depth
  BY LiveFacts, DeclarationsAfter, RecordFacts, VisibleAfter
<1>2. ASSUME NEW i \in 0 .. sym_count' - 1
      PROVE  /\ i \in 0 .. sym_count - 1 /\ sym'[i] = sym[i]
             /\ sym[i].decl \in 1 .. l /\ sym[i].decl \in Declarations'
             /\ prog'[sym[i].decl] = prog[sym[i].decl]
             /\ prog[sym[i].decl].depth <= s.depth /\ prog[sym[i].decl].depth \in Nat
  <2>1. i \in 0 .. sym_count - 1 /\ i < sym_count'
    BY <1>0
  <2> QED BY <1>1, <2>1, LiveSymbols
<1>3. SymbolsVisible'
  <2> SUFFICES ASSUME NEW i \in 0 .. sym_count' - 1
               PROVE  /\ sym'[i].decl \in Declarations'
                      /\ prog'[sym'[i].decl].name = sym'[i].name
                      /\ VisibleNext(sym'[i].decl)
    BY DEF SymbolsVisible, IsVisible, VisibleNext
  <2> QED BY <1>1, <1>2, LiveSymbols
<1>4. VisibleHaveSymbols'
  <2> SUFFICES ASSUME NEW e \in Declarations', VisibleNext(e)
               PROVE  \E i \in 0 .. sym_count' - 1 : sym'[i].decl = e
    BY DEF VisibleHaveSymbols, IsVisible, VisibleNext
  <2>1. e \in Declarations /\ e \in 1 .. l /\ IsVisible(e) /\ prog[e].depth <= s.depth
    BY <1>1 DEF Declarations
  <2>2. PICK i \in 0 .. sym_count - 1 : sym[i].decl = e
    BY <2>1 DEF HInv, TableMatchesRecord, VisibleHaveSymbols
  <2>3. i < sym_count'
    BY <2>1, <2>2
  <2>4. i \in 0 .. sym_count' - 1
    BY <1>0, <2>3
  <2> QED BY <2>2, <2>4
<1>5. SymbolsInOrder'
  <2> SUFFICES ASSUME NEW i \in 0 .. sym_count' - 1, NEW j \in 0 .. sym_count' - 1, i < j
               PROVE  sym'[i].decl < sym'[j].decl
    BY DEF SymbolsInOrder
  <2> QED BY <1>2, LiveSymbols
<1>6. BasesMatchDepths'
  <2> SUFFICES ASSUME NEW i \in 0 .. sym_count' - 1
               PROVE  /\ prog'[sym'[i].decl].depth <= scope_depth'
                      /\ \A k \in 0 .. scope_depth' - 1 :
                           i < scope_base'[k].sym <=> prog'[sym'[i].decl].depth <= k
    BY DEF BasesMatchDepths
  <2>1. prog'[sym'[i].decl] = prog[sym[i].decl]
    BY <1>2
  <2>0. PICK e \in Nat : e = prog[sym[i].decl].depth /\ e <= s.depth
    BY <1>2
  <2>2. e <= scope_depth'
    BY <1>0, <2>0
  <2>3. ASSUME NEW k \in 0 .. scope_depth' - 1
        PROVE  i < scope_base'[k].sym <=> prog[sym[i].decl].depth <= k
    <3>1. CASE k \in 0 .. scope_depth - 1 /\ scope_base'[k].sym = scope_base[k].sym
      BY <1>2, <3>1, LiveSymbols
    <3>2. CASE scope_base'[k].sym = sym_count' /\ k >= s.depth
      <4>1. i \in Int /\ k \in Int /\ i < sym_count' /\ e <= k
        BY <1>0, <2>0, <3>2
      <4> QED BY <2>0, <3>2, <4>1
    <3> QED BY <3>1, <3>2
  <2> QED BY <2>0, <2>1, <2>2, <2>3
<1> QED BY <1>3, <1>4, <1>5, <1>6 DEF HInv, TableMatchesRecord

(* A reference, a jump or a return leaves the table and the blocks alone.  *)
LEMMA PlainKeepsHInv ==
  ASSUME IInv, HInv, Live, NEW s \in Stmts, Record(s), UNCHANGED symVars,
         s.op \in {"use", "assign", "jump", "ret"}, s.depth = scope_depth,
         s.op \in {"use", "assign"} =>
           \E i \in 0 .. sym_count - 1 : s.bind = sym[i].decl /\ s.name = sym[i].name,
         s.op = "jump" => loop_depth # 0,
         LoopBlocks(nest)' = LoopBlocks(nest)
  PROVE  HInv'
<1>1. /\ sym_count \in Nat /\ scope_depth \in Nat \ {0}
      /\ TypeOK /\ LoopsRecorded /\ LoopBlocks(nest) \subseteq 1 .. scope_depth
  BY LiveFacts DEF TableMatchesRecord
<1>2. EntryDepth(s) = scope_depth /\ ExitDepth(s) = scope_depth
  BY DEF EntryDepth, ExitDepth
<1>3. RecordInv' /\ DepthAfter(Len(prog))' = scope_depth
  BY <1>1, <1>2, StatementKeepsRecordInv
<1>4. LoopsRecorded'
  BY <1>1, LoopsRecordedAfter
<1>5. \A i \in 0 .. sym_count - 1 : i < sym_count /\ prog[sym[i].decl].depth <= scope_depth
  BY <1>1, LiveSymbols
<1> QED BY <1>1, <1>3, <1>4, <1>5, PrefixKeepsHInv DEF symVars

LEMMA OpenKeepsHInv ==
  ASSUME IInv, HInv, Live, CanPush, NEW kind \in BlockKinds \ {"fn"},
         NEW loops, Open(kind, loops)
  PROVE  HInv'
<1> DEFINE s == [op |-> "open", kind |-> kind, depth |-> scope_depth]
<1>1. /\ sym_count \in Nat /\ scope_depth \in Nat \ {0} /\ Len(nest) = scope_depth
      /\ TypeOK /\ LoopsRecorded /\ nest \in Seq(BlockRecord)
      /\ LoopBlocks(nest) \subseteq 1 .. scope_depth
  BY LiveFacts, TopFacts DEF TableMatchesRecord
<1>2. /\ scope_push /\ Record(s) /\ nest' = Append(nest, Block(kind, FALSE, loop_depth))
  BY DEF Open
<1>3. s \in Stmts /\ s.op = "open" /\ s.kind = kind /\ s.depth = scope_depth
  BY <1>1 DEF Stmts
<1>4. EntryDepth(s) = scope_depth /\ ExitDepth(s) = scope_depth + 1
  BY DEF EntryDepth, ExitDepth
<1> HIDE DEF s
<1>5. RecordInv' /\ DepthAfter(Len(prog))' = scope_depth + 1
  BY <1>1, <1>2, <1>3, <1>4, StatementKeepsRecordInv DEF CanPush
<1>6. LoopsRecorded'
  <2>1. Block(kind, FALSE, loop_depth) \in BlockRecord
    BY TopFacts DEF Block, BlockRecord
  <2>2. /\ Len(nest') = scope_depth + 1
        /\ \A i \in 1 .. scope_depth : nest'[i] = nest[i]
        /\ nest'[scope_depth + 1].kind = kind
    BY <1>1, <1>2, <2>1, AppendProperties DEF Block
  <2>3. \A i : i \in 1 .. scope_depth + 1 => i \in 1 .. scope_depth \/ i = scope_depth + 1
    BY <1>1
  <2>4. \A i \in LoopBlocks(nest)' :
          \/ i \in LoopBlocks(nest) /\ i \in 1 .. scope_depth
          \/ kind \in LoopKinds /\ i = scope_depth + 1
    BY <1>1, <2>2, <2>3 DEF LoopBlocks
  <2>5. \A i \in LoopBlocks(nest)' :
          /\ i \in Nat
          /\ \/ i \in LoopBlocks(nest) /\ i <= s.depth
             \/ s.op = "open" /\ s.kind \in LoopKinds /\ s.depth = i - 1
    BY <1>1, <1>3, <2>4
  <2> QED BY <1>1, <1>2, <1>3, <2>5, LoopsRecordedAfter
<1>7. \A i \in 0 .. sym_count - 1 : i < sym_count /\ prog[sym[i].decl].depth <= scope_depth
  BY <1>1, LiveSymbols
<1>8. /\ sym' = sym /\ sym_count' = sym_count /\ scope_depth' = scope_depth + 1
      /\ \A k \in 0 .. scope_depth' - 1 :
            \/ k \in 0 .. scope_depth - 1 /\ scope_base'[k].sym = scope_base[k].sym
            \/ scope_base'[k].sym = sym_count' /\ k >= s.depth
  BY <1>1, <1>2, <1>3 DEF scope_push
<1> QED BY <1>1, <1>2, <1>3, <1>5, <1>6, <1>7, <1>8, PrefixKeepsHInv

(* An else or the end of a block: the symbols of the scope it leaves go.   *)
LEMMA CutKeepsHInv ==
  ASSUME IInv, HInv, Live, NEW s \in Stmts, Record(s), s.op \in {"else", "close"},
         s.depth = scope_depth - 1, scope_depth > 1, ScopeCut,
         s.op = "else" => scope_base' = scope_base /\ scope_depth' = scope_depth,
         s.op = "close" => /\ scope_base' = [k \in 0 .. scope_depth - 2 |-> scope_base[k]]
                           /\ scope_depth' = scope_depth - 1,
         \A i \in LoopBlocks(nest)' : i \in LoopBlocks(nest) /\ i < scope_depth
  PROVE  HInv'
<1> DEFINE base == scope_base[scope_depth - 1]
<1>1. /\ sym_count \in Nat /\ scope_depth \in Nat \ {0}
      /\ TypeOK /\ LoopsRecorded /\ base.sym \in 0 .. sym_count
      /\ LoopBlocks(nest) \subseteq 1 .. scope_depth
  BY LiveFacts DEF TableMatchesRecord
<1>2. EntryDepth(s) = scope_depth /\ ExitDepth(s) = scope_depth'
  BY <1>1 DEF EntryDepth, ExitDepth
<1>3. RecordInv' /\ DepthAfter(Len(prog))' = scope_depth'
  BY <1>1, <1>2, StatementKeepsRecordInv
<1>4. LoopsRecorded'
  <2>1. \A i \in LoopBlocks(nest)' : i \in Nat /\ i \in LoopBlocks(nest) /\ i <= s.depth
    BY <1>1
  <2> QED BY <1>1, <2>1, LoopsRecordedAfter
<1>5. sym_count' = base.sym /\ \A i \in 0 .. sym_count' - 1 : sym'[i] = sym[i]
  BY DEF ScopeCut
<1>6. \A i \in 0 .. sym_count - 1 : i < base.sym <=> prog[sym[i].decl].depth <= s.depth
  BY <1>1, LiveSymbols
<1>7. /\ scope_depth' \in Nat /\ s.depth <= scope_depth'
      /\ \A k \in 0 .. scope_depth' - 1 :
            k \in 0 .. scope_depth - 1 /\ scope_base'[k].sym = scope_base[k].sym
  BY <1>1
<1> HIDE DEF base
<1> QED BY <1>1, <1>3, <1>4, <1>5, <1>6, <1>7, PrefixKeepsHInv

-----------------------------------------------------------------------------
LEMMA DeadKeepsHInv ==
  ASSUME HInv, UNCHANGED prog, ~Live'
  PROVE  HInv'
  BY DEF HInv, Live, RecordInv, DepthsLinked, BindsDeclared, JumpsInLoops, DepthAfter,
         Declarations, LoopOpenAt

(* The walk does not move, as between the parameters and the body.         *)
LEMMA StillKeepsHInv ==
  ASSUME HInv, UNCHANGED <<prog, nest>>, UNCHANGED symVars, Live' => Live
  PROVE  HInv'
<1>1. RecordInv' = RecordInv
  BY DEF RecordInv, DepthsLinked, BindsDeclared, JumpsInLoops, DepthAfter, Declarations, LoopOpenAt
<1>2. LoopsRecorded' = LoopsRecorded
  BY DEF LoopsRecorded, LoopOpenAt, LoopBlocks
<1>3. /\ DepthAfter(Len(prog))' = DepthAfter(Len(prog))
      /\ \A d \in Declarations : IsVisible(d)' = IsVisible(d)
      /\ Declarations' = Declarations /\ prog' = prog
      /\ scope_depth' = scope_depth /\ sym' = sym /\ sym_count' = sym_count
      /\ scope_base' = scope_base
  BY DEF DepthAfter, symVars, IsVisible, Declarations
<1>4. SymbolsInOrder' = SymbolsInOrder /\ BasesMatchDepths' = BasesMatchDepths
  BY <1>3 DEF SymbolsInOrder, BasesMatchDepths
<1>5. SymbolsVisible' = SymbolsVisible /\ VisibleHaveSymbols' = VisibleHaveSymbols
  BY <1>3 DEF SymbolsVisible, VisibleHaveSymbols, IsVisible, Declarations
<1>6. TableMatchesRecord' = TableMatchesRecord
  BY <1>2, <1>3, <1>4, <1>5 DEF TableMatchesRecord
<1> QED BY <1>1, <1>6 DEF HInv

LEMMA ReferKeepsHInv ==
  ASSUME IInv, HInv, Live, NEW op \in {"use", "assign"}, NEW n \in Names,
         symbol_find(n) # 0, Refer(op, n)
  PROVE  HInv'
<1> DEFINE i == symbol_find(n) - 1
           s == Stmt(op, n, sym[i].decl)
<1>1. i \in 0 .. sym_count - 1 /\ sym[i].name = n
  BY FindFromFinds DEF IInv, TypeOK, symbol_find
<1>2. sym[i].decl \in Nat /\ scope_depth \in Nat
  BY <1>1, SymbolsAssumption DEF IInv, TypeOK, SymbolsTypeOK, Symbol
<1>3. s \in Stmts
  BY <1>2 DEF Stmt, Stmts
<1>4. /\ s.op = op /\ s.depth = scope_depth /\ s.bind = sym[i].decl /\ s.name = n
      /\ Record(s) /\ UNCHANGED symVars /\ nest' = nest
  BY DEF Refer, symVars, Stmt
<1> HIDE DEF s, i
<1>5. LoopBlocks(nest)' = LoopBlocks(nest)
  BY <1>4 DEF LoopBlocks
<1> QED BY <1>1, <1>3, <1>4, <1>5, PlainKeepsHInv

LEMMA JumpKeepsHInv ==
  ASSUME IInv, HInv, semantic_loop_control_stmt
  PROVE  HInv'
<1>1. CASE loop_depth = 0
  BY <1>1, RejectKeepsHInv DEF semantic_loop_control_stmt
<1>2. CASE loop_depth # 0
  <2> DEFINE s == [op |-> "jump", depth |-> scope_depth]
  <2>1. /\ Record(s) /\ UNCHANGED symVars /\ nest' = nest /\ Live
        /\ s.op = "jump" /\ s.depth = scope_depth
    BY <1>2 DEF semantic_loop_control_stmt, symVars, Live
  <2>2. s \in Stmts
    BY TopFacts DEF Stmts
  <2> HIDE DEF s
  <2>3. LoopBlocks(nest)' = LoopBlocks(nest)
    BY <2>1 DEF LoopBlocks
  <2> QED BY <1>2, <2>1, <2>2, <2>3, PlainKeepsHInv
<1> QED BY <1>1, <1>2

LEMMA RetKeepsHInv ==
  ASSUME IInv, HInv, semantic_ret_stmt
  PROVE  HInv'
<1> DEFINE s == [op |-> "ret", depth |-> scope_depth]
           b == [nest[Len(nest)] EXCEPT !.rets = TRUE]
<1>1. /\ Live /\ Record(s) /\ s.op = "ret" /\ s.depth = scope_depth
      /\ nest' = [nest EXCEPT ![Len(nest)] = b] /\ UNCHANGED symVars
  BY DEF semantic_ret_stmt, symVars, Live
<1>2. s \in Stmts /\ b \in BlockRecord /\ b.kind = nest[Len(nest)].kind
  BY TopFacts DEF Stmts, BlockRecord, Top
<1> HIDE DEF s, b
<1>3. Len(nest') = Len(nest) /\ \A i \in 1 .. Len(nest) : nest'[i].kind = nest[i].kind
  BY <1>1, <1>2, ExceptSeq, TopFacts
<1>4. LoopBlocks(nest)' = LoopBlocks(nest)
  BY <1>3 DEF LoopBlocks
<1> QED BY <1>1, <1>2, <1>4, PlainKeepsHInv

LEMMA ElseKeepsHInv ==
  ASSUME IInv, HInv, ElseBlock
  PROVE  HInv'
<1> DEFINE s == [op |-> "else", depth |-> scope_depth - 1]
           b == Block("else", Top.rets, loop_depth)
<1>1. /\ phase = "body" /\ Top.kind = "then" /\ ScopeCut /\ Record(s)
      /\ s.op = "else" /\ s.depth = scope_depth - 1
      /\ scope_base' = scope_base /\ scope_depth' = scope_depth
      /\ nest' = [nest EXCEPT ![Len(nest)] = b]
  BY DEF ElseBlock, ScopeNext
<1>2. /\ scope_depth = Len(nest) /\ Len(nest) \in Nat /\ Len(nest) > 1
      /\ nest \in Seq(BlockRecord)
  BY <1>1, TopFacts
<1>3. b \in BlockRecord /\ s \in Stmts /\ b.kind = "else"
  BY <1>2, TopFacts DEF Block, BlockRecord, BlockKinds, Stmts
<1> HIDE DEF s, b
<1>4. \A i \in LoopBlocks(nest)' : i \in LoopBlocks(nest) /\ i < scope_depth
  <2>1. Len(nest') = Len(nest)
    BY <1>1, <1>2, <1>3, ExceptSeq
  <2>2. \A i \in 1 .. Len(nest) : nest'[i] = IF i = Len(nest) THEN b ELSE nest[i]
    BY <1>1, <1>2, <1>3, ExceptSeq
  <2> QED BY <1>2, <1>3, <2>1, <2>2 DEF LoopBlocks, LoopKinds
<1> QED BY <1>1, <1>2, <1>3, <1>4, CutKeepsHInv DEF Live

LEMMA CloseKeepsHInv ==
  ASSUME IInv, HInv, CloseBlock
  PROVE  HInv'
<1> DEFINE s == [op |-> "close", depth |-> scope_depth - 1]
           parent == [nest[Len(nest) - 1] EXCEPT !.rets = @ \/ semantic_stmt_returns(Top)]
<1>1. /\ phase = "body" /\ Top.kind # "fn" /\ ScopeCut /\ Record(s)
      /\ s.op = "close" /\ s.depth = scope_depth - 1
      /\ scope_base' = [k \in 0 .. scope_depth - 2 |-> scope_base[k]]
      /\ scope_depth' = scope_depth - 1
      /\ nest' = [i \in 1 .. Len(nest) - 1 |-> IF i = Len(nest) - 1 THEN parent ELSE nest[i]]
  BY DEF CloseBlock, scope_pop
<1>2. scope_depth = Len(nest) /\ Len(nest) \in Nat /\ Len(nest) > 1
  BY <1>1, TopFacts
<1>3. s \in Stmts
  BY <1>2 DEF Stmts
<1>4. parent.kind = nest[Len(nest) - 1].kind
  <2>1. nest[Len(nest) - 1] \in BlockRecord
    BY <1>2, TopFacts
  <2> QED BY <2>1 DEF BlockRecord, semantic_stmt_returns
<1> HIDE DEF s, parent
<1>5. Len(nest') = Len(nest) - 1
  <2> DEFINE m == Len(nest) - 1
  <2>1. m \in Nat /\ nest' = [i \in 1 .. m |-> IF i = m THEN parent ELSE nest[i]]
    BY <1>1, <1>2
  <2> HIDE DEF m
  <2>2. Len(nest') = m
    BY <2>1
  <2> QED BY <2>2 DEF m
<1>6. \A i \in LoopBlocks(nest)' : i \in LoopBlocks(nest) /\ i < scope_depth
  BY <1>1, <1>2, <1>4, <1>5 DEF LoopBlocks
<1> QED BY <1>1, <1>2, <1>3, <1>6, CutKeepsHInv DEF Live

-----------------------------------------------------------------------------
LEMMA InitHInv == Init => HInv
<1> SUFFICES ASSUME Init PROVE HInv
  OBVIOUS
<1>1. /\ prog = << >> /\ Len(prog) = 0 /\ scope_depth = 1 /\ sym_count = 0
      /\ Len(nest) = 1 /\ nest[1].kind = "fn"
  BY DEF Init, Block
<1>2. RecordInv
  BY <1>1 DEF RecordInv, DepthsLinked, BindsDeclared, JumpsInLoops
<1>3. TableMatchesRecord
  BY <1>1 DEF TableMatchesRecord, DepthAfter, SymbolsVisible, VisibleHaveSymbols, SymbolsInOrder,
              BasesMatchDepths, LoopsRecorded, Declarations, LoopBlocks, LoopKinds
<1> QED BY <1>2, <1>3 DEF HInv

LEMMA NextHInv == IInv /\ HInv /\ [CheckNext]_checkVars => HInv'
<1> SUFFICES ASSUME IInv, HInv, [CheckNext]_checkVars PROVE HInv'
  OBVIOUS
<1>1. ASSUME NEW n \in Names, NEW t \in Types, semantic_bind_params(n, t)
      PROVE  HInv'
  BY <1>1, DeclareKeepsHInv DEF semantic_bind_params, Live
<1>2. CASE StartBody
  BY <1>2, StillKeepsHInv DEF StartBody, symVars, Live
<1>3. ASSUME NEW n \in Names, NEW m \in BOOLEAN, NEW t \in Types, semantic_decl_stmt(n, m, t)
      PROVE  HInv'
  BY <1>3, DeclareKeepsHInv DEF semantic_decl_stmt, Live
<1>4. ASSUME NEW n \in Names, VarRef(n)
      PROVE  HInv'
  BY <1>4, RejectKeepsHInv, ReferKeepsHInv DEF VarRef, Live
<1>5. ASSUME NEW n \in Names, semantic_assign_stmt(n)
      PROVE  HInv'
  BY <1>5, RejectKeepsHInv, ReferKeepsHInv DEF semantic_assign_stmt, Live
<1>6. CASE semantic_if_stmt
  <2>1. "then" \in BlockKinds \ {"fn"}
    BY DEF BlockKinds
  <2> QED BY <1>6, <2>1, RejectKeepsHInv, OpenKeepsHInv DEF semantic_if_stmt, Live
<1>7. ASSUME NEW kind \in LoopKinds, semantic_loop_stmt(kind)
      PROVE  HInv'
  <2>1. kind \in BlockKinds \ {"fn"}
    BY DEF BlockKinds, LoopKinds
  <2> QED BY <1>7, <2>1, RejectKeepsHInv, OpenKeepsHInv DEF semantic_loop_stmt, Live
<1>8. CASE ElseBlock
  BY <1>8, ElseKeepsHInv
<1>9. CASE CloseBlock
  BY <1>9, CloseKeepsHInv
<1>10. CASE semantic_loop_control_stmt
  BY <1>10, JumpKeepsHInv
<1>11. CASE semantic_ret_stmt
  BY <1>11, RetKeepsHInv
<1>12. CASE EndFunction
  BY <1>12, DeadKeepsHInv DEF EndFunction, Live
<1>13. CASE UNCHANGED checkVars
  BY <1>13, StillKeepsHInv DEF checkVars, symVars, Live
<1> QED BY <1>1, <1>2, <1>3, <1>4, <1>5, <1>6, <1>7, <1>8, <1>9, <1>10, <1>11, <1>12, <1>13
        DEF CheckNext

(* The record of the walk, and the table against it, in every reachable    *)
(* state.                                                                  *)
THEOREM HistoryInvariance == Spec => [](IInv /\ HInv)
  BY InitIInv, NextIInv, InitHInv, NextHInv, PTL DEF Spec

(* What the symbol table finds is what the block structure says.           *)
LEMMA ResolvesInState == IInv /\ HInv => ResolvesLexically
<1> SUFFICES ASSUME IInv, HInv, phase = "body", NEW n \in Names
             PROVE  IF VisibleDecls(n) = {} THEN symbol_find(n) = 0
                    ELSE /\ symbol_find(n) # 0
                         /\ sym[symbol_find(n) - 1].decl = Latest(VisibleDecls(n))
  BY DEF ResolvesLexically
<1> DEFINE V == VisibleDecls(n)
           N == Named(n, 0)
<1>1. Live /\ SymbolsTypeOK /\ sym_count \in Nat /\ Len(prog) \in Nat /\ VisibleHaveSymbols
  BY LiveFacts DEF Live, TypeOK, TableMatchesRecord
<1>2. V = {d \in Declarations : prog[d].name = n /\ IsVisible(d)}
  BY DEF VisibleDecls, IsVisible
<1>3. \A i : i \in N <=> i \in 0 .. sym_count - 1 /\ sym[i].name = n
  BY DEF Named
<1>4. \A i \in N : sym[i].decl \in V
  BY <1>1, <1>2, <1>3, LiveSymbols
<1>5. \A d \in V : \E i \in N : sym[i].decl = d
  <2> SUFFICES ASSUME NEW d \in V PROVE \E i \in N : sym[i].decl = d
    OBVIOUS
  <2>1. PICK i \in 0 .. sym_count - 1 : sym[i].decl = d
    BY <1>1, <1>2 DEF VisibleHaveSymbols
  <2>2. sym[i].name = n
    BY <1>1, <1>2, <2>1, LiveSymbols
  <2> QED BY <1>3, <2>1, <2>2
<1>6. PICK c \in Nat : V \subseteq 0 .. c - 1 /\ \A d \in V : d \in Nat
  <2> PICK c \in Nat : c = Len(prog) + 1
    BY <1>1
  <2>1. V \subseteq 0 .. c - 1 /\ \A d \in V : d \in Nat
    BY <1>1, <1>2 DEF Declarations
  <2> QED BY <2>1
<1>7. N \subseteq 0 .. sym_count - 1 /\ \A i \in N : i \in Nat
  BY <1>1, <1>3
<1>8. symbol_find(n) = IF N = {} THEN 0 ELSE Latest(N) + 1
  BY DEF symbol_find, FindFrom
<1> HIDE DEF V, N
<1>9. CASE V = {}
  BY <1>4, <1>8, <1>9 DEF V
<1>10. CASE V # {}
  <2>1. N # {}
    BY <1>5, <1>10
  <2>2. Latest(N) \in N /\ \A j \in N : j <= Latest(N)
    BY <1>1, <1>7, <2>1, LatestIsMaximum
  <2>3. Latest(V) \in V /\ \A j \in V : j <= Latest(V)
    BY <1>6, <1>10, LatestIsMaximum
  <2>4. PICK i \in N : sym[i].decl = Latest(V)
    BY <1>5, <2>3
  <2>5. sym[Latest(N)].decl \in V /\ sym[Latest(N)].decl <= Latest(V)
    BY <1>4, <2>2, <2>3
  <2>6. i = Latest(N)
    <3>1. /\ i \in 0 .. sym_count - 1 /\ Latest(N) \in 0 .. sym_count - 1
          /\ i <= Latest(N) /\ sym_count \in Nat
      BY <1>1, <1>7, <2>2
    <3>2. i < Latest(N) => sym[i].decl < sym[Latest(N)].decl
      BY <1>1, <3>1, LiveSymbols
    <3>3. sym[i].decl \in Nat /\ sym[Latest(N)].decl \in Nat
      <4>1. sym[i].decl \in V /\ sym[Latest(N)].decl \in V
        BY <1>4, <2>2
      <4> QED BY <1>6, <4>1
    <3> QED BY <2>4, <2>5, <3>1, <3>2, <3>3
  <2>7. Latest(N) + 1 # 0 /\ (Latest(N) + 1) - 1 = Latest(N)
    <3>1. Latest(N) \in Nat
      BY <1>1, <1>7, <2>2
    <3> QED BY <3>1
  <2>8. symbol_find(n) # 0 /\ symbol_find(n) - 1 = Latest(N)
    BY <1>8, <2>1, <2>7
  <2> QED BY <1>10, <2>4, <2>6, <2>8 DEF V
<1> QED BY <1>9, <1>10

(* A name resolves to the latest declaration of it that is still in scope, *)
(* and is reported undeclared exactly when there is none: cutting a scope's*)
(* symbols and refilling their places never lets a lookup find another     *)
(* block's local, whatever the function.                                   *)
THEOREM NamesResolveLexically == Spec => []ResolvesLexically
  BY HistoryInvariance, ResolvesInState, PTL

-----------------------------------------------------------------------------
(* The later passes.                                                       *)

(* The table of the later passes is flat.                                  *)
PassInv ==
  /\ stage # "check" => ~Live /\ scope_depth = 0
  /\ stage = "check" => diagnostics = 0
  /\ stage \in {"check", "rebuild"} =>
       access = NoAccess /\ loop_labels = << >> /\ emit_nest = << >>
  /\ stage \in {"emit", "done"} => frame = FrameBytes

(* The emitter's recursion is as deep as the checker's was at the same     *)
(* statement, and an open loop of the record is a loop there too.          *)
NestFollowsRecord ==
  stage = "emit" =>
    /\ pos <= Len(prog) + 1
    /\ Len(emit_nest) + 1 = DepthAfter(pos - 1)
    /\ \A q \in 1 .. pos - 1 :
         LoopOpenAt(q, pos - 1) => prog[q].depth \in LoopBlocks(emit_nest)

(* The labels of a loop are on the stack at its rank among the open loops. *)
Rank(blocks, i) == Cardinality({j \in LoopBlocks(blocks) : j <= i})

LabelsOf(b) == [brk |-> b.brk, cont |-> b.cont]

LabelsMatch(labels, blocks) ==
  /\ Len(labels) = Cardinality(LoopBlocks(blocks))
  /\ \A i \in LoopBlocks(blocks) : labels[Rank(blocks, i)] = LabelsOf(blocks[i])

LabelsMatchLoops == stage = "emit" => LabelsMatch(loop_labels, emit_nest)

(* The declarations the rebuild has passed, each with its symbol.          *)
Rebuilt == {d \in Declarations : stage = "rebuild" => d < pos}

FlatInv ==
  FlatSafe =>
    /\ diagnostics = 0 /\ stage # "failed"
    /\ stage \in {"rebuild", "emit"} =>
         /\ sym_count = Cardinality(Rebuilt)
         /\ \A i \in 0 .. sym_count - 1 :
              sym[i].decl \in Rebuilt /\ sym[i].name = prog[sym[i].decl].name
         /\ \A d \in Rebuilt : \E i \in 0 .. sym_count - 1 : sym[i].decl = d

LInv ==
  /\ LowerTypeOK
  /\ IInv
  /\ HInv
  /\ PassInv
  /\ AccessesOwnSlots
  /\ NestFollowsRecord
  /\ LabelsMatchLoops
  /\ FlatInv

-----------------------------------------------------------------------------
(* The prologue's rounding, and what it leaves room for.                   *)

LEMMA RoundsUp ==
  ASSUME NEW n \in Nat
  PROVE  /\ ((n + 15) \div 16) * 16 \in Nat
         /\ (((n + 15) \div 16) * 16) % 16 = 0
         /\ n <= ((n + 15) \div 16) * 16
<1>1. PICK k \in Nat : k = (n + 15) \div 16
  OBVIOUS
<1>2. n <= k * 16
  BY <1>1
<1>3. (k * 16) % 16 = 0
  OBVIOUS
<1> QED BY <1>1, <1>2, <1>3

LEMMA FrameHolds == TableInv /\ PassInv => FrameHoldsLocals
<1> SUFFICES ASSUME TableInv, PassInv, stage \in {"emit", "done"} PROVE FrameHoldsLocals
  BY DEF FrameHoldsLocals
<1>1. local_count \in Nat /\ 8 * local_count \in Nat
  BY DEF TableInv, SymbolsTypeOK
<1>2. frame % 16 = 0 /\ 8 * local_count <= frame /\ frame \in Nat
  BY <1>1, RoundsUp DEF PassInv, FrameBytes
<1>3. ASSUME NEW i \in 0 .. sym_count - 1
      PROVE  8 * sym[i].slot <= frame
  <2>1. sym[i].slot \in Nat /\ sym[i].slot <= local_count
    BY DEF TableInv, SymbolsTypeOK, LiveSlotsDisjoint, Symbol
  <2> QED BY <1>1, <1>2, <2>1
<1> QED BY <1>2, <1>3 DEF FrameHoldsLocals

-----------------------------------------------------------------------------
(* The symbol table and the record, through all the passes.                *)

LEMMA ResetKeepsTables ==
  ASSUME LInv, StartRebuild
  PROVE  IInv' /\ HInv'
<1>1. /\ sym' = Emptied /\ sym_count' = 0 /\ slot_cursor' = 0 /\ local_count' = 0
      /\ scope_base' = Emptied /\ scope_depth' = 0
      /\ loop_depth' = 0 /\ UNCHANGED <<phase, nest, prog>> /\ phase = "accepted"
  BY DEF StartRebuild, SymbolsReset
<1>2. SymbolsTypeOK'
  BY <1>1, SymbolsAssumption DEF SymbolsTypeOK, Emptied
<1>3. TableInv'
  BY <1>1, <1>2 DEF TableInv, SlotsBelowCursor, ScopesNested, LiveSlotsDisjoint, NoDuplicateInScope
<1>4. IInv'
  BY <1>1, <1>2, <1>3 DEF LInv, IInv, TypeOK, NestMatchesScopes, LoopsCounted
<1>5. HInv'
  BY <1>1, DeadKeepsHInv DEF LInv, Live
<1> QED BY <1>4, <1>5

(* What the walks know of the statement they are at.                       *)
LEMMA HereFacts ==
  ASSUME LInv, ~Ended
  PROVE  /\ prog \in Seq(Stmts) /\ Len(prog) \in Nat
         /\ pos \in 1 .. Len(prog) /\ Here \in Stmts /\ Here = prog[pos]
<1>1. prog \in Seq(Stmts) /\ Len(prog) \in Nat /\ pos \in Nat \ {0}
  BY LenProperties DEF LInv, LowerTypeOK, TypeOK
<1>2. pos \in 1 .. Len(prog)
  BY <1>1 DEF Ended
<1> QED BY <1>1, <1>2, ElementOfSeq DEF Here

LEMMA ReAddKeepsTables ==
  ASSUME LInv, ReAdd
  PROVE  IInv' /\ HInv'
<1> DEFINE s == Here
<1>1. /\ stage = "rebuild" /\ s.op \in {"param", "decl"} /\ CanAdd(s.name)
      /\ AddSymbol(s.name, s.mut, s.type, s.bind)
      /\ UNCHANGED <<phase, nest, loop_depth, prog>>
  BY DEF ReAdd, Redeclares
<1>2. s \in Stmts
  BY HereFacts DEF ReAdd
<1>3. s.name \in Names /\ s.mut \in BOOLEAN /\ s.type \in Types /\ s.bind \in Nat
  BY <1>1, <1>2 DEF Stmts
<1> HIDE DEF s
<1>4. TableInv'
  BY <1>1, <1>3, AddSymbolKeepsTable DEF LInv, IInv
<1>5. ~Live
  BY <1>1 DEF LInv, PassInv
<1>6. IInv'
  BY <1>1, <1>4, <1>5 DEF LInv, IInv, TypeOK, TableInv, NestMatchesScopes, LoopsCounted, Live
<1>7. HInv'
  BY <1>1, <1>5, DeadKeepsHInv DEF LInv, Live
<1> QED BY <1>6, <1>7

LEMMA NextKeepsTables ==
  ASSUME LInv, [Next]_vars
  PROVE  IInv' /\ HInv'
<1>1. ASSUME [CheckNext]_checkVars PROVE IInv' /\ HInv'
  BY <1>1, NextIInv, NextHInv DEF LInv
<1>2. CASE Check
  BY <1>1, <1>2 DEF Check
<1>3. CASE StartRebuild
  BY <1>3, ResetKeepsTables
<1>4. CASE ReAdd
  BY <1>4, ReAddKeepsTables
<1>5. CASE \/ rebuild_stmt_flat \/ StartEmit \/ EmitAccess \/ EmitOpen \/ EmitClose
           \/ EmitJump \/ EmitOther \/ EndEmit
  <2>1. UNCHANGED checkVars
    BY <1>5 DEF rebuild_stmt_flat, StartEmit, EmitAccess, EmitOpen, EmitClose,
                EmitJump, EmitOther, EndEmit
  <2> QED BY <1>1, <2>1
<1>6. CASE UNCHANGED vars
  BY <1>1, <1>6 DEF vars
<1> QED BY <1>2, <1>3, <1>4, <1>5, <1>6 DEF Next

-----------------------------------------------------------------------------
(* The slots the emitted code addresses.                                   *)

(* A live symbol, as the emitter reads it.                                 *)
LEMMA LiveSymbolSlots ==
  ASSUME LInv, NEW i \in 0 .. sym_count - 1
  PROVE  /\ sym[i].slot \in Nat /\ SlotCount[sym[i].type] \in Nat \ {0}
         /\ FieldCount[sym[i].type] \in Nat
         /\ sym[i].slot - SlotCount[sym[i].type] >= 0
<1>1. sym[i] \in Symbol
  BY DEF LInv, IInv, TableInv, SymbolsTypeOK
<1> QED BY <1>1, SymbolsAssumption, LowerAssumption
        DEF LInv, IInv, TableInv, LiveSlotsDisjoint, Symbol

LEMMA WordStaysInside ==
  ASSUME LInv, NEW i \in 0 .. sym_count - 1, NEW a \in Words(i) \cup Elements(i) \cup FieldsOf(i)
  PROVE  /\ a \in Accesses /\ a.var = i
         /\ \/ a.slot \in OwnSlots(i)
            \/ a.part = "field" /\ a.slot > sym[i].slot
<1> PICK s, c, f : s = sym[i].slot /\ c = SlotCount[sym[i].type] /\ f = FieldCount[sym[i].type]
  OBVIOUS
<1>1. s \in Nat /\ c \in Nat \ {0} /\ f \in Nat /\ s - c >= 0
  BY LiveSymbolSlots
<1>2. i \in Int
  OBVIOUS
<1>3. CASE a \in Words(i)
  BY <1>1, <1>2, <1>3 DEF Words, Accesses, OwnSlots
<1>4. CASE a \in Elements(i)
  <2>1. PICK k \in 1 .. c - 1 : a = [var |-> i, part |-> "element", slot |-> s - k]
    BY <1>4 DEF Elements
  <2>2. s - k \in Nat /\ s - k \in s - c + 1 .. s
    BY <1>1
  <2> QED BY <1>2, <2>1, <2>2 DEF Accesses, OwnSlots
<1>5. CASE a \in FieldsOf(i)
  <2>1. PICK k \in 0 .. f - 1 : a = [var |-> i, part |-> "field", slot |-> s + k]
    BY <1>5 DEF FieldsOf
  <2>2. s + k \in Nat /\ (s + k \in s - c + 1 .. s \/ s + k > s)
    BY <1>1
  <2> QED BY <1>2, <2>1, <2>2 DEF Accesses, OwnSlots
<1> QED BY <1>3, <1>4, <1>5

LEMMA EmitAccessInside ==
  ASSUME LInv, EmitAccess, symbol_find(Here.name) # 0
  PROVE  /\ access' \in Accesses
         /\ \/ access'.slot \in OwnSlots(access'.var)
            \/ access'.part = "field" /\ access'.slot > sym[access'.var].slot
<1> DEFINE i == symbol_find(Here.name) - 1
<1>1. i \in 0 .. sym_count - 1
  BY FindFromFinds DEF LInv, IInv, TypeOK, symbol_find
<1>2. access' \in Words(i) \cup Elements(i) \cup FieldsOf(i)
  BY DEF EmitAccess
<1> HIDE DEF i
<1> QED BY <1>1, <1>2, WordStaysInside

LEMMA NoAccessType == NoAccess \in Accesses
  BY DEF NoAccess, Accesses

LEMMA NextKeepsPassInv ==
  ASSUME LInv, [Next]_vars
  PROVE  PassInv'
<1>1. CASE Check
  BY <1>1 DEF Check, LInv, PassInv, lowerVars
<1>2. CASE StartRebuild
  BY <1>2 DEF StartRebuild, LInv, PassInv, SymbolsReset, Live
<1>3. CASE ReAdd
  BY <1>3 DEF ReAdd, LInv, PassInv, AddSymbol, Live
<1>4. CASE UNCHANGED checkVars /\ ~Check
  <2>1. /\ Live' = Live /\ scope_depth' = scope_depth /\ FrameBytes' = FrameBytes
    BY <1>4 DEF checkVars, Live, FrameBytes
  <2>2. CASE rebuild_stmt_flat \/ StartEmit \/ UNCHANGED vars
    BY <2>1, <2>2 DEF rebuild_stmt_flat, StartEmit, vars, lowerVars, LInv, PassInv
  <2>3. CASE EmitAccess \/ EmitOpen \/ EmitClose \/ EmitJump \/ EmitOther \/ EndEmit
    BY <2>1, <2>3 DEF EmitAccess, EmitOpen, EmitClose, EmitJump, EmitOther, EndEmit, LInv, PassInv
  <2>4. CASE ReAdd \/ StartRebuild
    BY <1>2, <1>3, <2>4
  <2> QED BY <1>4, <2>2, <2>3, <2>4 DEF Next
<1>5. rebuild_stmt_flat \/ StartEmit \/ EmitAccess \/ EmitOpen \/ EmitClose \/ EmitJump
        \/ EmitOther \/ EndEmit \/ UNCHANGED vars => UNCHANGED checkVars
  BY DEF rebuild_stmt_flat, StartEmit, EmitAccess, EmitOpen, EmitClose, EmitJump, EmitOther,
         EndEmit, vars
<1> QED BY <1>1, <1>2, <1>3, <1>4, <1>5 DEF Next

LEMMA NextKeepsAccesses ==
  ASSUME LInv, [Next]_vars
  PROVE  access' \in Accesses /\ AccessesOwnSlots'
<1>1. FrameHoldsLocals'
  <2>1. TableInv' /\ PassInv'
    BY NextKeepsTables, NextKeepsPassInv DEF IInv
  <2> QED BY <2>1, FrameHolds, PTL
<1>2. access \in Accesses
  BY DEF LInv, LowerTypeOK
<1>3. CASE access' = NoAccess
  BY <1>1, <1>3, NoAccessType DEF AccessesOwnSlots, NoAccess
<1>4. CASE access' = access /\ stage' = "failed"
  BY <1>1, <1>2, <1>4 DEF AccessesOwnSlots
<1>5. CASE access' = access /\ sym' = sym /\ stage' = stage
  BY <1>1, <1>2, <1>5 DEF AccessesOwnSlots, LInv, OwnSlots
<1>6. CASE EmitAccess
  <2>1. CASE symbol_find(Here.name) = 0
    BY <1>4, <1>6, <2>1 DEF EmitAccess
  <2>2. CASE symbol_find(Here.name) # 0
    <3>1. sym' = sym
      BY <1>6 DEF EmitAccess, checkVars
    <3> QED BY <1>1, <1>6, <2>2, <3>1, EmitAccessInside DEF AccessesOwnSlots, OwnSlots
  <2> QED BY <2>1, <2>2
<1>7. CASE Check \/ StartRebuild \/ ReAdd \/ rebuild_stmt_flat \/ StartEmit
  <2>1. access = NoAccess
    BY <1>7 DEF Check, StartRebuild, ReAdd, rebuild_stmt_flat, StartEmit, LInv, PassInv
  <2> QED BY <1>3, <1>7, <2>1
          DEF Check, StartRebuild, ReAdd, rebuild_stmt_flat, StartEmit, lowerVars
<1>8. CASE EmitOpen \/ EmitClose \/ EmitJump \/ EmitOther \/ EndEmit
  BY <1>3, <1>8 DEF EmitOpen, EmitClose, EmitJump, EmitOther, EndEmit
<1>9. CASE UNCHANGED vars
  BY <1>5, <1>9 DEF vars, lowerVars, checkVars
<1> QED BY <1>6, <1>7, <1>8, <1>9 DEF Next

-----------------------------------------------------------------------------
(* The emitter's label stack against its open blocks.                      *)

LEMMA RankFacts ==
  ASSUME NEW blocks, Len(blocks) \in Nat, NEW i \in LoopBlocks(blocks)
  PROVE  Rank(blocks, i) \in 1 .. Cardinality(LoopBlocks(blocks))
<1> DEFINE S == {j \in LoopBlocks(blocks) : j <= i}
<1>1. S \in SUBSET LoopBlocks(blocks) /\ i \in S
  BY DEF LoopBlocks
<1> HIDE DEF S
<1>2. IsFiniteSet(LoopBlocks(blocks)) /\ Cardinality(LoopBlocks(blocks)) \in Nat
  BY LoopBlocksFinite
<1>3. IsFiniteSet(S) /\ Cardinality(S) \in Nat /\ Cardinality(S) <= Cardinality(LoopBlocks(blocks))
  BY <1>1, <1>2, FS_Subset, FS_CardinalityType
<1>4. Cardinality(S) # 0
  BY <1>1, <1>3, FS_EmptySet
<1>5. Rank(blocks, i) = Cardinality(S)
  BY DEF Rank, S
<1> QED BY <1>2, <1>3, <1>4, <1>5

(* The blocks of old, and one more.                                        *)
LEMMA RankGrows ==
  ASSUME NEW old, NEW new, Len(old) \in Nat, Len(new) = Len(old) + 1,
         \A i \in 1 .. Len(old) : new[i].kind = old[i].kind
  PROVE  /\ \A i \in LoopBlocks(old) : Rank(new, i) = Rank(old, i)
         /\ new[Len(new)].kind \in LoopKinds =>
              Rank(new, Len(new)) = Cardinality(LoopBlocks(old)) + 1
<1>1. LoopBlocks(new) = IF new[Len(new)].kind \in LoopKinds
                        THEN LoopBlocks(old) \cup {Len(new)} ELSE LoopBlocks(old)
  BY LoopBlocksGrow
<1>2. \A i \in LoopBlocks(old) : i \in Int /\ i < Len(new)
  BY DEF LoopBlocks
<1>3. ASSUME NEW i \in LoopBlocks(old)
      PROVE  {j \in LoopBlocks(new) : j <= i} = {j \in LoopBlocks(old) : j <= i}
  BY <1>1, <1>2
<1>4. \A i \in LoopBlocks(old) : Rank(new, i) = Rank(old, i)
  BY <1>3 DEF Rank
<1>5. ASSUME new[Len(new)].kind \in LoopKinds
      PROVE  Rank(new, Len(new)) = Cardinality(LoopBlocks(old)) + 1
  <2>1. {j \in LoopBlocks(new) : j <= Len(new)} = LoopBlocks(new)
    BY DEF LoopBlocks
  <2> QED BY <1>5, <2>1, LoopBlocksGrow DEF Rank
<1> QED BY <1>4, <1>5

LEMMA OpenMatches ==
  ASSUME NEW blocks \in Seq(Emitting), NEW labels \in Seq(Labels), NEW b \in Emitting,
         LabelsMatch(labels, blocks)
  PROVE  LabelsMatch(IF b.kind \in LoopKinds THEN Append(labels, LabelsOf(b)) ELSE labels,
                     Append(blocks, b))
<1> PICK new : new = Append(blocks, b)
  OBVIOUS
<1> PICK n \in Nat : n = Len(blocks)
  BY LenProperties
<1>1. /\ Len(new) = n + 1 /\ new[n + 1] = b
      /\ \A i \in 1 .. n : new[i] = blocks[i]
  BY AppendProperties
<1>2. /\ LoopBlocks(new) = IF b.kind \in LoopKinds THEN LoopBlocks(blocks) \cup {n + 1}
                           ELSE LoopBlocks(blocks)
      /\ Cardinality(LoopBlocks(new)) = IF b.kind \in LoopKinds
                                        THEN Cardinality(LoopBlocks(blocks)) + 1
                                        ELSE Cardinality(LoopBlocks(blocks))
  <2>1. /\ Len(blocks) \in Nat /\ Len(new) = Len(blocks) + 1
        /\ \A i \in 1 .. Len(blocks) : new[i].kind = blocks[i].kind
    BY <1>1
  <2>2. /\ LoopBlocks(new) = IF new[Len(new)].kind \in LoopKinds
                             THEN LoopBlocks(blocks) \cup {Len(new)} ELSE LoopBlocks(blocks)
        /\ Cardinality(LoopBlocks(new)) = IF new[Len(new)].kind \in LoopKinds
                                          THEN Cardinality(LoopBlocks(blocks)) + 1
                                          ELSE Cardinality(LoopBlocks(blocks))
    BY <2>1, LoopBlocksGrow
  <2>3. Len(new) = n + 1 /\ new[Len(new)] = b
    BY <1>1
  <2> QED BY <2>2, <2>3
<1>3. /\ \A i \in LoopBlocks(blocks) : Rank(new, i) = Rank(blocks, i)
      /\ b.kind \in LoopKinds => Rank(new, n + 1) = Cardinality(LoopBlocks(blocks)) + 1
  BY <1>1, RankGrows
<1>4. \A i \in LoopBlocks(blocks) : /\ new[i] = blocks[i]
                                    /\ Rank(new, i) \in 1 .. Len(labels)
  BY <1>1, <1>3, RankFacts DEF LoopBlocks, LabelsMatch
<1>5. CASE b.kind \notin LoopKinds
  BY <1>2, <1>3, <1>4, <1>5 DEF LabelsMatch
<1>6. CASE b.kind \in LoopKinds
  <2>1. LabelsOf(b) \in Labels
    BY DEF LabelsOf, Labels, Emitting
  <2> PICK more : more = Append(labels, LabelsOf(b))
    OBVIOUS
  <2>2. /\ Len(more) = Len(labels) + 1 /\ more[Len(labels) + 1] = LabelsOf(b)
        /\ \A k \in 1 .. Len(labels) : more[k] = labels[k]
    BY <2>1, AppendProperties
  <2>3. \A i \in LoopBlocks(blocks) : more[Rank(new, i)] = LabelsOf(new[i])
    BY <1>3, <1>4, <2>2 DEF LabelsMatch
  <2>4. more[Rank(new, n + 1)] = LabelsOf(new[n + 1])
    BY <1>1, <1>3, <1>6, <2>2 DEF LabelsMatch
  <2> QED BY <1>2, <1>6, <2>2, <2>3, <2>4 DEF LabelsMatch
<1> QED BY <1>5, <1>6

LEMMA CloseMatches ==
  ASSUME NEW blocks \in Seq(Emitting), NEW labels \in Seq(Labels), blocks # << >>,
         LabelsMatch(labels, blocks)
  PROVE  /\ LabelsMatch(IF blocks[Len(blocks)].kind \in LoopKinds
                        THEN SubSeq(labels, 1, Len(labels) - 1) ELSE labels,
                        SubSeq(blocks, 1, Len(blocks) - 1))
         /\ blocks[Len(blocks)].kind \in LoopKinds => labels # << >>
<1> PICK n \in Nat : n = Len(blocks) - 1
  BY LenProperties, EmptySeq
<1> PICK new, b : new = SubSeq(blocks, 1, n) /\ b = blocks[n + 1]
  OBVIOUS
<1>1. /\ Len(new) = n /\ Len(blocks) = n + 1
      /\ \A i \in 1 .. n : new[i] = blocks[i]
  <2>1. Len(blocks) = n + 1
    BY LenProperties
  <2>2. \A i \in 1 .. n : blocks[i] \in Emitting
    BY <2>1, ElementOfSeq
  <2>3. /\ Len(new) = IF 1 <= n THEN n - 1 + 1 ELSE 0
        /\ \A i \in 1 .. n - 1 + 1 : new[i] = blocks[1 + i - 1]
    BY <2>2, SubSeqProperties
  <2> QED BY <2>1, <2>3
<1>2. /\ LoopBlocks(blocks) = IF b.kind \in LoopKinds THEN LoopBlocks(new) \cup {n + 1}
                              ELSE LoopBlocks(new)
      /\ Cardinality(LoopBlocks(blocks)) = IF b.kind \in LoopKinds
                                           THEN Cardinality(LoopBlocks(new)) + 1
                                           ELSE Cardinality(LoopBlocks(new))
  <2>1. /\ Len(new) \in Nat /\ Len(blocks) = Len(new) + 1
        /\ \A i \in 1 .. Len(new) : blocks[i].kind = new[i].kind
    BY <1>1
  <2>2. /\ LoopBlocks(blocks) = IF blocks[Len(blocks)].kind \in LoopKinds
                                THEN LoopBlocks(new) \cup {Len(blocks)} ELSE LoopBlocks(new)
        /\ Cardinality(LoopBlocks(blocks)) = IF blocks[Len(blocks)].kind \in LoopKinds
                                             THEN Cardinality(LoopBlocks(new)) + 1
                                             ELSE Cardinality(LoopBlocks(new))
    BY <2>1, LoopBlocksGrow
  <2>3. Len(blocks) = n + 1 /\ blocks[Len(blocks)] = b
    BY <1>1
  <2> QED BY <2>2, <2>3
<1>3. \A i \in LoopBlocks(new) : Rank(blocks, i) = Rank(new, i)
  BY <1>1, RankGrows
<1>4. \A i \in LoopBlocks(new) : /\ new[i] = blocks[i] /\ i \in LoopBlocks(blocks)
                                 /\ Rank(new, i) \in 1 .. Cardinality(LoopBlocks(new))
  <2>1. Len(new) \in Nat
    BY <1>1
  <2>2. \A i \in LoopBlocks(new) : Rank(new, i) \in 1 .. Cardinality(LoopBlocks(new))
    BY <2>1, RankFacts
  <2>3. \A i \in LoopBlocks(new) : i \in 1 .. n /\ i \in LoopBlocks(blocks)
    BY <1>1, <1>2 DEF LoopBlocks
  <2> QED BY <1>1, <2>2, <2>3
<1>5. CASE b.kind \notin LoopKinds
  BY <1>1, <1>2, <1>3, <1>4, <1>5 DEF LabelsMatch
<1>6. CASE b.kind \in LoopKinds
  <2> PICK m \in Nat : m = Cardinality(LoopBlocks(new))
    BY <1>1, LoopBlocksFinite
  <2>1. Len(labels) = m + 1 /\ Len(labels) - 1 = m
    BY <1>2, <1>6 DEF LabelsMatch
  <2> PICK fewer : fewer = SubSeq(labels, 1, m)
    OBVIOUS
  <2>2. Len(fewer) = m /\ \A k \in 1 .. m : fewer[k] = labels[k]
    BY <2>1, SubSeqProperties
  <2>3. ASSUME NEW i \in LoopBlocks(new)
        PROVE  fewer[Rank(new, i)] = LabelsOf(new[i])
    <3>1. labels[Rank(blocks, i)] = LabelsOf(blocks[i])
      BY <1>4 DEF LabelsMatch
    <3>2. Rank(blocks, i) = Rank(new, i) /\ new[i] = blocks[i] /\ Rank(new, i) \in 1 .. m
      BY <1>3, <1>4
    <3> QED BY <2>2, <3>1, <3>2
  <2>4. labels # << >>
    BY <2>1, LenProperties
  <2> QED BY <1>1, <1>6, <2>1, <2>2, <2>3, <2>4 DEF LabelsMatch
<1> QED BY <1>5, <1>6

(* The top of the stack belongs to the innermost loop.                     *)
LEMMA TopLabelsMatch ==
  ASSUME NEW blocks \in Seq(Emitting), NEW labels \in Seq(Labels),
         LabelsMatch(labels, blocks), LoopBlocks(blocks) # {}
  PROVE  /\ labels # << >>
         /\ labels[Len(labels)] = LabelsOf(blocks[Latest(LoopBlocks(blocks))])
<1> PICK c \in Nat : c = Len(blocks) + 1
  BY LenProperties
<1>1. LoopBlocks(blocks) \subseteq 0 .. c - 1
  BY DEF LoopBlocks
<1> PICK m : m = Latest(LoopBlocks(blocks))
  OBVIOUS
<1>2. m \in LoopBlocks(blocks) /\ \A j \in LoopBlocks(blocks) : j <= m
  BY <1>1, LatestIsMaximum
<1>3. Rank(blocks, m) = Len(labels)
  <2>1. {j \in LoopBlocks(blocks) : j <= m} = LoopBlocks(blocks)
    BY <1>2
  <2> QED BY <2>1 DEF Rank, LabelsMatch
<1>4. Len(labels) # 0
  <2>1. Rank(blocks, m) \in 1 .. Cardinality(LoopBlocks(blocks))
    BY <1>2, RankFacts, LenProperties
  <2> QED BY <1>3, <2>1
<1> QED BY <1>2, <1>3, <1>4 DEF LabelsMatch

-----------------------------------------------------------------------------
(* The emitter's walk against the record.                                  *)

LEMMA WalkFacts ==
  ASSUME LInv, stage = "emit", ~Ended
  PROVE  /\ pos \in 1 .. Len(prog) /\ Here \in Stmts /\ Here.depth \in Nat \ {0}
         /\ Len(emit_nest) \in Nat /\ EntryDepth(Here) = Len(emit_nest) + 1
         /\ Here.op = "open" => Here.depth < SCOPE_CAP
         /\ DepthAfter(pos) = ExitDepth(Here)
<1>1. pos \in 1 .. Len(prog) /\ Here \in Stmts /\ Here = prog[pos] /\ Len(prog) \in Nat
  BY HereFacts
<1>2. Here.depth \in Nat
  BY <1>1 DEF Stmts
<1>3. Len(emit_nest) \in Nat
  BY LenProperties DEF LInv, LowerTypeOK
<1>4. Len(emit_nest) + 1 = DepthAfter(pos - 1)
  BY DEF LInv, NestFollowsRecord
<1>5. /\ EntryDepth(Here) = DepthAfter(pos - 1) /\ Here.depth > 0
      /\ Here.op = "open" => Here.depth < SCOPE_CAP
  BY <1>1 DEF LInv, HInv, RecordInv, DepthsLinked
<1>6. DepthAfter(pos) = ExitDepth(Here)
  BY <1>1 DEF DepthAfter
<1> QED BY <1>1, <1>2, <1>3, <1>4, <1>5, <1>6

(* One statement further in the walk.                                      *)
LEMMA StepFollowsRecord ==
  ASSUME LInv, stage = "emit", ~Ended, Step, UNCHANGED prog,
         Len(emit_nest') + 1 = ExitDepth(Here),
         \A i \in LoopBlocks(emit_nest) : i < Here.depth => i \in LoopBlocks(emit_nest'),
         Here.op = "open" /\ Here.kind \in LoopKinds => Here.depth \in LoopBlocks(emit_nest')
  PROVE  NestFollowsRecord'
<1> PICK p : p = pos
  OBVIOUS
<1>1. /\ p \in 1 .. Len(prog) /\ Len(prog) \in Nat /\ Here = prog[p]
      /\ DepthAfter(p) = ExitDepth(Here)
  BY WalkFacts, HereFacts
<1>2. pos' = p + 1 /\ pos' - 1 = p
  BY <1>1 DEF Step
<1>4. ASSUME NEW q \in 1 .. p, LoopOpenAt(q, p)
      PROVE  prog[q].depth \in LoopBlocks(emit_nest')
  <2>1. CASE q = p
    BY <1>1, <1>4, <2>1 DEF LoopOpenAt
  <2>2. CASE q # p
    <3>1. q \in 1 .. p - 1 /\ LoopOpenAt(q, p - 1) /\ prog[p].depth > prog[q].depth
      BY <1>1, <1>4, <2>2 DEF LoopOpenAt
    <3>2. prog[q].depth \in LoopBlocks(emit_nest)
      BY <3>1 DEF LInv, NestFollowsRecord
    <3>3. prog[q].depth < Here.depth
      <4>1. Here.depth \in Nat /\ prog[q].depth \in Int
        BY <3>2, WalkFacts DEF LoopBlocks
      <4> QED BY <1>1, <3>1, <4>1
    <3> QED BY <3>2, <3>3
  <2> QED BY <2>1, <2>2
<1>5. DepthAfter(pos - 1)' = DepthAfter(p)
  BY <1>2 DEF DepthAfter
<1>6. ASSUME NEW q, LoopOpenAt(q, pos - 1)'
      PROVE  LoopOpenAt(q, p)
  BY <1>2, <1>6 DEF LoopOpenAt
<1>7. \A q \in 1 .. pos' - 1 : LoopOpenAt(q, pos - 1)' => prog'[q].depth \in LoopBlocks(emit_nest')
  BY <1>2, <1>4, <1>6
<1>3. pos' <= Len(prog') + 1
  BY <1>1, <1>2
<1> QED BY <1>1, <1>3, <1>5, <1>7 DEF NestFollowsRecord

(* The walk, the label stack and the types that go with them.              *)
WalkInv ==
  /\ NestFollowsRecord
  /\ LabelsMatchLoops
  /\ loop_labels \in Seq(Labels)
  /\ emit_nest \in Seq(Emitting)

LEMMA CountTo ==
  ASSUME NEW n \in Nat
  PROVE  Cardinality(1 .. n) = n
  BY FS_Interval

LEMMA OpenKeepsWalk ==
  ASSUME LInv, EmitOpen
  PROVE  WalkInv'
<1> DEFINE l == [brk |-> label_counter + 1, cont |-> label_counter]
           b == [kind |-> Here.kind, brk |-> l.brk, cont |-> l.cont]
<1>1. /\ stage = "emit" /\ ~Ended /\ Here.op = "open" /\ stage' = "emit" /\ Step /\ prog' = prog
      /\ emit_nest' = Append(emit_nest, b)
      /\ IF b.kind \in LoopKinds THEN loop_context_push(l) ELSE UNCHANGED loop_labels
  BY DEF EmitOpen, checkVars
<1>2. /\ Here \in Stmts /\ Here.depth \in Nat \ {0} /\ Here.depth < SCOPE_CAP
      /\ Len(emit_nest) \in Nat /\ Len(emit_nest) + 1 = Here.depth
      /\ ExitDepth(Here) = Here.depth + 1
  BY <1>1, WalkFacts DEF EntryDepth, ExitDepth
<1>3. /\ emit_nest \in Seq(Emitting) /\ loop_labels \in Seq(Labels) /\ label_counter \in Nat
      /\ LabelsMatch(loop_labels, emit_nest)
  BY <1>1 DEF LInv, LowerTypeOK, LabelsMatchLoops
<1>4. b \in Emitting /\ l \in Labels /\ LabelsOf(b) = l /\ b.kind = Here.kind
  BY <1>1, <1>2, <1>3 DEF Stmts, Emitting, Labels, LabelsOf
<1> HIDE DEF b, l
<1>5. Len(loop_labels) < SCOPE_CAP
  <2> PICK n \in Nat : n = Len(emit_nest)
    BY <1>2
  <2>1. LoopBlocks(emit_nest) \in SUBSET (1 .. n)
    BY DEF LoopBlocks
  <2>2. Cardinality(LoopBlocks(emit_nest)) <= Len(emit_nest)
    <3>1. IsFiniteSet(1 .. n)
      BY FS_Interval
    <3>2. Cardinality(1 .. n) = n
      BY CountTo
    <3>3. Cardinality(LoopBlocks(emit_nest)) <= Cardinality(1 .. n)
      BY <2>1, <3>1, FS_Subset
    <3> QED BY <3>2, <3>3
  <2>3. Cardinality(LoopBlocks(emit_nest)) \in Nat
    BY <1>2, LoopBlocksFinite
  <2> QED BY <1>2, <1>3, <2>2, <2>3, SymbolsAssumption DEF LabelsMatch
<1>6. loop_labels' = IF b.kind \in LoopKinds THEN Append(loop_labels, LabelsOf(b)) ELSE loop_labels
  <2>1. Len(loop_labels) \in Nat
    BY <1>3, LenProperties
  <2> QED BY <1>1, <1>4, <1>5, <2>1, SymbolsAssumption DEF loop_context_push
<1>7. LabelsMatch(loop_labels', emit_nest')
  BY <1>1, <1>3, <1>4, <1>6, OpenMatches
<1>8. emit_nest' \in Seq(Emitting) /\ loop_labels' \in Seq(Labels)
  BY <1>1, <1>3, <1>4, <1>6, AppendProperties
<1>9. NestFollowsRecord'
  <2>1. /\ Len(emit_nest') = Here.depth /\ emit_nest'[Here.depth] = b
        /\ \A i \in 1 .. Len(emit_nest) : emit_nest'[i] = emit_nest[i]
    BY <1>1, <1>2, <1>3, <1>4, AppendProperties
  <2>2. \A i \in LoopBlocks(emit_nest) : i < Here.depth => i \in LoopBlocks(emit_nest')
    BY <1>2, <2>1 DEF LoopBlocks
  <2>3. Here.kind \in LoopKinds => Here.depth \in LoopBlocks(emit_nest')
    BY <1>2, <1>4, <2>1 DEF LoopBlocks
  <2> QED BY <1>1, <1>2, <2>1, <2>2, <2>3, StepFollowsRecord
<1> QED BY <1>1, <1>7, <1>8, <1>9 DEF WalkInv, LabelsMatchLoops, LabelsMatch, Rank, LoopBlocks

LEMMA CloseKeepsWalk ==
  ASSUME LInv, EmitClose
  PROVE  WalkInv'
<1>1. /\ stage = "emit" /\ ~Ended /\ Here.op = "close" /\ stage' = "emit" /\ Step /\ prog' = prog
      /\ emit_nest' = SubSeq(emit_nest, 1, Len(emit_nest) - 1)
      /\ IF emit_nest[Len(emit_nest)].kind \in LoopKinds
         THEN loop_context_pop ELSE UNCHANGED loop_labels
  BY DEF EmitClose, checkVars
<1>2. /\ Here.depth \in Nat \ {0} /\ Len(emit_nest) \in Nat /\ Len(emit_nest) = Here.depth
      /\ ExitDepth(Here) = Here.depth
  BY <1>1, WalkFacts DEF EntryDepth, ExitDepth
<1>3. /\ emit_nest \in Seq(Emitting) /\ loop_labels \in Seq(Labels)
      /\ LabelsMatch(loop_labels, emit_nest) /\ emit_nest # << >>
  BY <1>1, <1>2, EmptySeq DEF LInv, LowerTypeOK, LabelsMatchLoops
<1>4. /\ LabelsMatch(IF emit_nest[Len(emit_nest)].kind \in LoopKinds
                     THEN SubSeq(loop_labels, 1, Len(loop_labels) - 1) ELSE loop_labels, emit_nest')
      /\ emit_nest[Len(emit_nest)].kind \in LoopKinds => loop_labels # << >>
  BY <1>1, <1>3, CloseMatches
<1>5. /\ LabelsMatch(loop_labels', emit_nest')
      /\ loop_labels' \in {loop_labels, SubSeq(loop_labels, 1, Len(loop_labels) - 1)}
  BY <1>1, <1>4 DEF loop_context_pop
<1>6. /\ emit_nest' \in Seq(Emitting) /\ Len(emit_nest') = Here.depth - 1
      /\ \A i \in 1 .. Here.depth - 1 : emit_nest'[i] = emit_nest[i]
  <2> PICK n \in Nat : n = Here.depth - 1
    BY <1>2
  <2>1. \A i \in 1 .. n : emit_nest[i] \in Emitting
    BY <1>2, <1>3, ElementOfSeq
  <2>2. /\ emit_nest' \in Seq(Emitting) /\ Len(emit_nest') = IF 1 <= n THEN n - 1 + 1 ELSE 0
        /\ \A i \in 1 .. n - 1 + 1 : emit_nest'[i] = emit_nest[1 + i - 1]
    BY <1>1, <1>2, <2>1, SubSeqProperties
  <2> QED BY <2>2
<1>7. loop_labels' \in Seq(Labels)
  <2> PICK n : n = Len(loop_labels) - 1
    OBVIOUS
  <2>1. n \in Int /\ \A i \in 1 .. n : loop_labels[i] \in Labels
    BY <1>3, LenProperties, ElementOfSeq
  <2>2. SubSeq(loop_labels, 1, n) \in Seq(Labels)
    BY <2>1, SubSeqProperties
  <2> QED BY <1>3, <1>5, <2>2
<1>8. NestFollowsRecord'
  <2>1. Len(emit_nest') + 1 = ExitDepth(Here)
    BY <1>2, <1>6
  <2>2. \A i \in LoopBlocks(emit_nest) : i < Here.depth => i \in LoopBlocks(emit_nest')
    BY <1>2, <1>6 DEF LoopBlocks
  <2> QED BY <1>1, <2>1, <2>2, StepFollowsRecord
<1> QED BY <1>1, <1>5, <1>6, <1>7, <1>8 DEF WalkInv, LabelsMatchLoops, LabelsMatch, Rank, LoopBlocks

(* Every other statement leaves the emitter's blocks alone.                *)
LEMMA StayKeepsWalk ==
  ASSUME LInv, stage = "emit", ~Ended, Step, UNCHANGED <<prog, emit_nest, loop_labels>>,
         Here.op \in References \cup {"jump", "else", "ret"}
  PROVE  WalkInv'
<1>1. EntryDepth(Here) = ExitDepth(Here)
  BY DEF EntryDepth, ExitDepth, References
<1>2. Here.op # "open"
  BY DEF References
<1>3. Len(emit_nest') + 1 = ExitDepth(Here)
  BY <1>1, WalkFacts
<1>4. LoopBlocks(emit_nest') = LoopBlocks(emit_nest)
  OBVIOUS
<1>5. NestFollowsRecord'
  BY <1>2, <1>3, <1>4, StepFollowsRecord
<1> QED BY <1>5 DEF WalkInv, LInv, LowerTypeOK, LabelsMatchLoops, LabelsMatch, Rank, LoopBlocks

LEMMA NextKeepsWalk ==
  ASSUME LInv, [Next]_vars
  PROVE  WalkInv'
<1>1. CASE Check \/ StartRebuild \/ ReAdd \/ rebuild_stmt_flat
  <2>1. stage' # "emit" /\ UNCHANGED <<loop_labels, emit_nest>>
    BY <1>1 DEF Check, StartRebuild, ReAdd, rebuild_stmt_flat, lowerVars
  <2> QED BY <2>1 DEF WalkInv, LInv, LowerTypeOK, NestFollowsRecord, LabelsMatchLoops
<1>2. CASE StartEmit
  <2>1. /\ pos' = 1 /\ prog' = prog /\ loop_labels' = << >> /\ emit_nest' = << >>
        /\ Len(prog) \in Nat
    BY <1>2, LenProperties DEF StartEmit, LInv, PassInv, LowerTypeOK, TypeOK, checkVars
  <2>2. LoopBlocks(emit_nest') = {} /\ Len(emit_nest') = 0 /\ Len(loop_labels') = 0
    BY <2>1 DEF LoopBlocks
  <2>3. NestFollowsRecord'
    BY <2>1, <2>2 DEF NestFollowsRecord, DepthAfter
  <2>4. LabelsMatch(loop_labels', emit_nest')
    BY <2>2, FS_EmptySet DEF LabelsMatch
  <2>5. loop_labels' \in Seq(Labels) /\ emit_nest' \in Seq(Emitting)
    BY <2>1
  <2> QED BY <2>3, <2>4, <2>5 DEF WalkInv, LabelsMatchLoops, LabelsMatch, Rank, LoopBlocks
<1>3. CASE EmitAccess \/ EmitJump \/ EmitOther
  <2>1. /\ stage = "emit" /\ ~Ended /\ Step /\ UNCHANGED <<prog, emit_nest, loop_labels>>
        /\ Here.op \in References \cup {"jump", "else", "ret"}
    BY <1>3 DEF EmitAccess, EmitJump, EmitOther, checkVars
  <2> QED BY <2>1, StayKeepsWalk
<1>4. CASE EmitOpen
  BY <1>4, OpenKeepsWalk
<1>5. CASE EmitClose
  BY <1>5, CloseKeepsWalk
<1>6. CASE EndEmit
  <2>1. stage' # "emit" /\ UNCHANGED <<loop_labels, emit_nest>>
    BY <1>6 DEF EndEmit
  <2> QED BY <2>1 DEF WalkInv, LInv, LowerTypeOK, NestFollowsRecord, LabelsMatchLoops
<1>7. CASE UNCHANGED vars
  BY <1>7 DEF WalkInv, LInv, LowerTypeOK, NestFollowsRecord, LabelsMatchLoops, LabelsMatch, Rank,
              LoopBlocks, vars, lowerVars, checkVars, DepthAfter, LoopOpenAt
<1> QED BY <1>1, <1>2, <1>3, <1>4, <1>5, <1>6, <1>7 DEF Next

LEMMA NextKeepsTypes ==
  ASSUME LInv, [Next]_vars
  PROVE  LowerTypeOK'
<1>1. TypeOK' /\ access' \in Accesses /\ loop_labels' \in Seq(Labels) /\ emit_nest' \in Seq(Emitting)
  BY NextKeepsTables, NextKeepsAccesses, NextKeepsWalk DEF IInv, WalkInv
<1>2. pos \in Nat \ {0} /\ diagnostics \in Nat /\ frame \in Nat /\ label_counter \in Nat
      /\ stage \in {"check", "rebuild", "emit", "done", "failed"}
  BY DEF LInv, LowerTypeOK
<1>3. FrameBytes \in Nat
  <2>1. 8 * local_count \in Nat
    BY DEF LInv, IInv, TableInv, SymbolsTypeOK
  <2> QED BY <2>1, RoundsUp DEF FrameBytes
<1>4. pos' \in Nat \ {0} /\ diagnostics' \in Nat /\ frame' \in Nat /\ label_counter' \in Nat
      /\ stage' \in {"check", "rebuild", "emit", "done", "failed"}
  <2>1. CASE Check \/ StartRebuild \/ ReAdd \/ rebuild_stmt_flat \/ StartEmit \/ UNCHANGED vars
    BY <1>2, <1>3, <2>1 DEF Check, StartRebuild, ReAdd, rebuild_stmt_flat, StartEmit, vars,
                            lowerVars, Step
  <2>2. CASE EmitAccess \/ EmitOpen \/ EmitClose \/ EmitJump \/ EmitOther \/ EndEmit
    BY <1>2, <2>2 DEF EmitAccess, EmitOpen, EmitClose, EmitJump, EmitOther, EndEmit, Step
  <2> QED BY <2>1, <2>2 DEF Next
<1> QED BY <1>1, <1>4 DEF LowerTypeOK

-----------------------------------------------------------------------------
(* The flat table of a function that declares each name once.              *)

LEMMA DeclarationsFinite ==
  ASSUME LInv
  PROVE  /\ IsFiniteSet(Declarations) /\ IsFiniteSet(Rebuilt)
         /\ Cardinality(Declarations) \in Nat /\ Cardinality(Rebuilt) \in Nat
         /\ Len(prog) \in Nat
<1>1. Len(prog) \in Nat
  BY LenProperties DEF LInv, LowerTypeOK, TypeOK
<1>2. IsFiniteSet(1 .. Len(prog))
  BY <1>1, FS_Interval
<1>3. Declarations \in SUBSET (1 .. Len(prog)) /\ Rebuilt \in SUBSET Declarations
  BY DEF Declarations, Rebuilt
<1>4. IsFiniteSet(Declarations)
  BY <1>2, <1>3, FS_Subset
<1>5. IsFiniteSet(Rebuilt)
  BY <1>3, <1>4, FS_Subset
<1> QED BY <1>1, <1>4, <1>5, FS_CardinalityType

(* The rebuild reports nothing.                                            *)
LEMMA FlatCanAdd ==
  ASSUME LInv, FlatSafe, stage = "rebuild", ~Ended, Redeclares(Here)
  PROVE  /\ CanAdd(Here.name)
         /\ pos \in Declarations /\ Here.bind = pos
         /\ pos \notin Rebuilt
<1>1. pos \in 1 .. Len(prog) /\ Here = prog[pos]
  BY HereFacts
<1>2. pos \in Declarations /\ pos \notin Rebuilt
  BY <1>1 DEF Declarations, Redeclares, Rebuilt
<1>3. Here.bind = pos
  BY <1>1, <1>2 DEF LInv, HInv, RecordInv, BindsDeclared
<1>4. ~Duplicate(Here.name)
  <2> SUFFICES ASSUME Duplicate(Here.name) PROVE FALSE
    OBVIOUS
  <2>1. FindFrom(Here.name, 0) # 0 /\ SymbolsTypeOK
    BY DEF Duplicate, symbol_find_current_scope, CurrentBase, LInv, PassInv, IInv, TypeOK
  <2>2. PICK i \in 0 .. sym_count - 1 : sym[i].name = Here.name
    BY <2>1, FindFromFinds
  <2>3. sym[i].decl \in Rebuilt /\ prog[sym[i].decl].name = prog[pos].name
    BY <1>1, <2>2 DEF LInv, FlatInv
  <2>4. sym[i].decl = pos
    BY <1>2, <2>3 DEF FlatSafe, Rebuilt
  <2> QED BY <1>2, <2>3, <2>4
<1>5. ~TableFull
  <2>1. Rebuilt \cup {pos} \in SUBSET Declarations
    BY <1>2 DEF Rebuilt
  <2>2. Cardinality(Rebuilt \cup {pos}) = Cardinality(Rebuilt) + 1
    BY <1>2, DeclarationsFinite, FS_AddElement
  <2>3. Cardinality(Rebuilt \cup {pos}) <= Cardinality(Declarations)
    BY <2>1, DeclarationsFinite, FS_Subset
  <2>4. sym_count = Cardinality(Rebuilt) /\ Cardinality(Declarations) <= SYM_CAP
    BY DEF LInv, FlatInv, FlatSafe
  <2> QED BY <2>2, <2>3, <2>4, DeclarationsFinite, SymbolsAssumption DEF TableFull
<1> QED BY <1>2, <1>3, <1>4, <1>5 DEF CanAdd

(* A reference finds the symbol the checker bound it to.                   *)
LEMMA FlatResolves ==
  ASSUME LInv, FlatSafe, stage = "emit", ~Ended, Here.op \in References
  PROVE  /\ symbol_find(Here.name) # 0
         /\ sym[symbol_find(Here.name) - 1].decl = Here.bind
<1> DEFINE n == Here.name
<1>1. pos \in 1 .. Len(prog) /\ Here = prog[pos]
  BY HereFacts
<1>2. Here.bind \in Declarations /\ prog[Here.bind].name = n
  <2>1. pos \in Declarations => Here.bind = pos
    BY <1>1 DEF LInv, HInv, RecordInv, BindsDeclared
  <2>2. Here.op \in {"use", "assign"} => Here.bind \in Declarations /\ prog[Here.bind].name = n
    BY <1>1 DEF LInv, HInv, RecordInv, BindsDeclared
  <2>3. pos \in Declarations \/ Here.op \in {"use", "assign"}
    BY <1>1 DEF Declarations, References
  <2> QED BY <1>1, <2>1, <2>2, <2>3
<1>3. Rebuilt = Declarations
  BY DEF Rebuilt
<1>4. PICK i \in 0 .. sym_count - 1 : sym[i].decl = Here.bind
  BY <1>2, <1>3 DEF LInv, FlatInv
<1>5. sym[i].name = n
  BY <1>2, <1>4 DEF LInv, FlatInv
<1>6. SymbolsTypeOK /\ i \in Named(n, 0)
  BY <1>5 DEF LInv, IInv, TypeOK, Named
<1>7. symbol_find(n) # 0
  BY <1>6, FindFromFinds DEF symbol_find
<1> PICK k : k = symbol_find(n) - 1
  OBVIOUS
<1>8. k \in 0 .. sym_count - 1 /\ sym[k].name = n
  BY <1>6, <1>7, FindFromFinds DEF symbol_find
<1>9. sym[k].decl \in Declarations /\ prog[sym[k].decl].name = n
  BY <1>3, <1>8 DEF LInv, FlatInv
<1>10. sym[k].decl = Here.bind
  BY <1>2, <1>9 DEF FlatSafe
<1> QED BY <1>7, <1>10

(* A break or continue has a loop to leave.                                *)
LEMMA JumpHasLabels ==
  ASSUME LInv, stage = "emit", ~Ended, Here.op = "jump"
  PROVE  loop_labels # << >>
<1>1. pos \in 1 .. Len(prog) /\ Here = prog[pos] /\ Len(prog) \in Nat
  BY HereFacts
<1>2. PICK q \in 1 .. pos - 1 : LoopOpenAt(q, pos)
  BY <1>1 DEF LInv, HInv, RecordInv, JumpsInLoops
<1>3. LoopOpenAt(q, pos - 1)
  BY <1>1, <1>2 DEF LoopOpenAt
<1>4. LoopBlocks(emit_nest) # {}
  BY <1>2, <1>3 DEF LInv, NestFollowsRecord
<1>5. /\ emit_nest \in Seq(Emitting) /\ loop_labels \in Seq(Labels)
      /\ LabelsMatch(loop_labels, emit_nest)
  BY DEF LInv, LowerTypeOK, LabelsMatchLoops
<1> QED BY <1>4, <1>5, TopLabelsMatch

LEMMA ReAddKeepsFlat ==
  ASSUME LInv, ReAdd
  PROVE  FlatInv'
<1>1. /\ stage = "rebuild" /\ ~Ended /\ Redeclares(Here)
      /\ AddSymbol(Here.name, Here.mut, Here.type, Here.bind)
      /\ pos' = pos + 1 /\ stage' = stage /\ prog' = prog /\ diagnostics' = diagnostics
  BY DEF ReAdd, Step
<1>2. Declarations' = Declarations /\ FlatSafe' = FlatSafe
  BY <1>1 DEF Declarations, FlatSafe
<1> SUFFICES ASSUME FlatSafe PROVE FlatInv'
  BY <1>2 DEF FlatInv
<1>3. pos \in Declarations /\ Here.bind = pos /\ pos \notin Rebuilt /\ pos \in Int /\ Here = prog[pos]
  BY <1>1, FlatCanAdd, HereFacts
<1>4. Rebuilt' = Rebuilt \cup {pos}
  <2>1. \A d \in Declarations : d \in Int
    BY DEF Declarations
  <2>2. \A d \in Declarations : d < pos + 1 <=> d < pos \/ d = pos
    <3>1. \A d, p \in Int : d < p + 1 <=> d < p \/ d = p
      OBVIOUS
    <3>2. pos \in Int
      BY <1>3
    <3> QED BY <2>1, <3>1, <3>2
  <2>3. Rebuilt' = {d \in Declarations : d < pos + 1}
    BY <1>1, <1>2 DEF Rebuilt
  <2>4. Rebuilt = {d \in Declarations : d < pos}
    BY <1>1 DEF Rebuilt
  <2> QED BY <1>3, <2>2, <2>3, <2>4
<1>5. /\ diagnostics = 0 /\ sym_count = Cardinality(Rebuilt)
      /\ \A i \in 0 .. sym_count - 1 :
           sym[i].decl \in Rebuilt /\ sym[i].name = prog[sym[i].decl].name
      /\ \A d \in Rebuilt : \E i \in 0 .. sym_count - 1 : sym[i].decl = d
  BY <1>1 DEF LInv, FlatInv
<1>6. Cardinality(Rebuilt') = Cardinality(Rebuilt) + 1
  BY <1>3, <1>4, DeclarationsFinite, FS_AddElement
<1>7. /\ sym_count \in Nat /\ sym_count' = sym_count + 1
      /\ \A i \in 0 .. sym_count - 1 : sym'[i] = sym[i]
      /\ sym'[sym_count].decl = pos /\ sym'[sym_count].name = prog[pos].name
      /\ \A i : i \in 0 .. sym_count' - 1 <=> i \in 0 .. sym_count - 1 \/ i = sym_count
  <2>1. sym_count \in Nat
    BY <1>5, DeclarationsFinite
  <2> QED BY <1>1, <1>3, <2>1 DEF AddSymbol
<1>8. ASSUME NEW i \in 0 .. sym_count' - 1
      PROVE  sym'[i].decl \in Rebuilt' /\ sym'[i].name = prog[sym'[i].decl].name
  BY <1>4, <1>5, <1>7
<1>9. ASSUME NEW d \in Rebuilt'
      PROVE  \E i \in 0 .. sym_count' - 1 : sym'[i].decl = d
  BY <1>4, <1>5, <1>7
<1> QED BY <1>1, <1>5, <1>6, <1>7, <1>8, <1>9 DEF FlatInv

LEMMA SkipKeepsFlat ==
  ASSUME LInv, rebuild_stmt_flat
  PROVE  FlatInv'
<1>1. /\ stage = "rebuild" /\ ~Ended
      /\ Redeclares(Here) => ~CanAdd(Here.name)
      /\ pos' = pos + 1 /\ prog' = prog /\ UNCHANGED <<sym, sym_count>>
  BY DEF rebuild_stmt_flat, Step, checkVars
<1>2. Declarations' = Declarations /\ FlatSafe' = FlatSafe
  BY <1>1 DEF Declarations, FlatSafe
<1> SUFFICES ASSUME FlatSafe PROVE FlatInv'
  BY <1>2 DEF FlatInv
<1>3. ~Redeclares(Here)
  BY <1>1, FlatCanAdd
<1>4. stage' = stage /\ diagnostics' = diagnostics
  BY <1>3 DEF rebuild_stmt_flat, Redeclares
<1>5. Rebuilt' = Rebuilt
  <2>1. pos \notin Declarations /\ pos \in Int /\ \A d \in Declarations : d \in Int
    BY <1>1, <1>3, HereFacts DEF Declarations, Redeclares
  <2>2. \A d \in Declarations : d < pos + 1 <=> d < pos
    BY <2>1
  <2> QED BY <1>1, <1>2, <1>4, <2>2 DEF Rebuilt
<1> QED BY <1>1, <1>4, <1>5 DEF LInv, FlatInv

LEMMA NextKeepsFlat ==
  ASSUME LInv, [Next]_vars
  PROVE  FlatInv'
<1>1. CASE Check
  BY <1>1 DEF Check, lowerVars, LInv, PassInv, FlatInv
<1>2. CASE StartRebuild
  <2>1. /\ stage' = "rebuild" /\ pos' = 1 /\ sym_count' = 0 /\ diagnostics' = 0
    BY <1>2 DEF StartRebuild, SymbolsReset, LInv, PassInv
  <2>2. Rebuilt' = {}
    BY <2>1 DEF Rebuilt, Declarations
  <2>3. Cardinality(Rebuilt') = 0
    BY <2>2, FS_EmptySet
  <2> QED BY <2>1, <2>2, <2>3 DEF FlatInv
<1>3. CASE ReAdd
  BY <1>3, ReAddKeepsFlat
<1>4. CASE rebuild_stmt_flat
  BY <1>4, SkipKeepsFlat
<1>5. CASE UNCHANGED <<checkVars, diagnostics>> /\ ~rebuild_stmt_flat /\ ~ReAdd /\ ~Check
                                               /\ ~StartRebuild
  <2>1. /\ Declarations' = Declarations /\ FlatSafe' = FlatSafe
        /\ UNCHANGED <<sym, sym_count, prog, diagnostics>>
    BY <1>5 DEF Declarations, FlatSafe, checkVars
  <2> SUFFICES ASSUME FlatSafe PROVE FlatInv'
    BY <2>1 DEF FlatInv
  <2>2. diagnostics = 0 /\ stage # "failed"
    BY DEF LInv, FlatInv
  <2>3. CASE StartEmit
    <3>1. Rebuilt = Declarations /\ Rebuilt' = Declarations
      <4>1. \A d \in Declarations : d \in 1 .. Len(prog)
        BY DEF Declarations
      <4>2. pos \in Nat /\ Len(prog) \in Nat /\ pos > Len(prog)
        BY <2>3, DeclarationsFinite DEF StartEmit, Ended, LInv, LowerTypeOK
      <4>3. \A d \in Declarations : d < pos
        BY <4>1, <4>2
      <4> QED BY <2>1, <2>3, <4>3 DEF StartEmit, Rebuilt
    <3> QED BY <2>1, <2>2, <2>3, <3>1 DEF StartEmit, LInv, FlatInv
  <2>4. CASE EmitAccess \/ EmitOpen \/ EmitClose \/ EmitJump \/ EmitOther
    <3>1. stage = "emit" /\ stage' = "emit"
      BY <2>4, FlatResolves, JumpHasLabels DEF EmitAccess, EmitOpen, EmitClose, EmitJump, EmitOther
    <3>2. Rebuilt' = Rebuilt
      BY <2>1, <3>1 DEF Rebuilt
    <3> QED BY <2>1, <2>2, <3>1, <3>2 DEF LInv, FlatInv
  <2>5. CASE EndEmit
    BY <2>1, <2>2, <2>5 DEF EndEmit, FlatInv
  <2>6. CASE UNCHANGED vars
    <3>1. Rebuilt' = Rebuilt /\ stage' = stage
      BY <2>1, <2>6 DEF Rebuilt, vars, lowerVars
    <3> QED BY <2>1, <2>2, <3>1 DEF LInv, FlatInv
  <2> QED BY <1>5, <2>3, <2>4, <2>5, <2>6 DEF Next
<1>6. StartEmit \/ EmitAccess \/ EmitOpen \/ EmitClose \/ EmitJump \/ EmitOther \/ EndEmit
        \/ UNCHANGED vars => UNCHANGED <<checkVars, diagnostics>>
  BY DEF StartEmit, EmitAccess, EmitOpen, EmitClose, EmitJump, EmitOther, EndEmit, vars, lowerVars
<1> QED BY <1>1, <1>2, <1>3, <1>4, <1>5, <1>6 DEF Next

-----------------------------------------------------------------------------
LEMMA InitLInv == LowerInit => LInv
<1> SUFFICES ASSUME LowerInit PROVE LInv
  OBVIOUS
<1>1. /\ IInv /\ HInv /\ TypeOK
      /\ stage = "check" /\ pos = 1 /\ diagnostics = 0 /\ frame = 0
      /\ label_counter = 0 /\ loop_labels = << >> /\ emit_nest = << >> /\ access = NoAccess
  BY InitIInv, InitHInv DEF LowerInit, IInv
<1>2. LowerTypeOK
  BY <1>1, NoAccessType DEF LowerTypeOK
<1>3. PassInv /\ AccessesOwnSlots
  BY <1>1 DEF PassInv, AccessesOwnSlots, FrameHoldsLocals
<1> QED BY <1>1, <1>2, <1>3 DEF LInv, NestFollowsRecord, LabelsMatchLoops, FlatInv

LEMMA NextLInv == LInv /\ [Next]_vars => LInv'
  BY NextKeepsTypes, NextKeepsTables, NextKeepsPassInv, NextKeepsAccesses, NextKeepsWalk,
     NextKeepsFlat DEF LInv, WalkInv

(* LInv holds in every reachable state of the check, the rebuild and the   *)
(* emission.                                                               *)
THEOREM LowerInvariance == LowerSpec => []LInv
  BY InitLInv, NextLInv, PTL DEF LowerSpec

-----------------------------------------------------------------------------
(* The later passes, too, stay within the declared types: the rebuild never*)
(* overfills the table and the emitter's stacks keep their shape.          *)
THEOREM LowerTypeCorrect == LowerSpec => []LowerTypeOK
<1>1. LInv => LowerTypeOK
  BY DEF LInv
<1> QED BY <1>1, LowerInvariance, PTL

(* In the flat table no less than in the scoped one, no two variables share*)
(* a slot and all lie within local_count.                                  *)
THEOREM LowerSlotsNeverOverlap == LowerSpec => []LiveSlotsDisjoint
<1>1. LInv => LiveSlotsDisjoint
  BY DEF LInv, IInv, TableInv
<1> QED BY <1>1, LowerInvariance, PTL

(* The check resolves names lexically in the whole compilation.            *)
THEOREM LowerResolvesLexically == LowerSpec => []ResolvesLexically
<1>1. LInv => ResolvesLexically
  BY ResolvesInState DEF LInv
<1> QED BY <1>1, LowerInvariance, PTL

(* A load or store of emit_function stays inside the slots of its variable *)
(* and inside the frame, fields of a struct past the first excepted, and   *)
(* the frame keeps rsp 16-byte aligned.                                    *)
THEOREM AccessesStayInside == LowerSpec => []AccessesOwnSlots
<1>1. LInv => AccessesOwnSlots
  BY DEF LInv
<1> QED BY <1>1, LowerInvariance, PTL

(* break and continue jump to the labels of the innermost open loop: for no*)
(* accepted function does loop_context_push ever drop a loop's labels.     *)
THEOREM JumpsGoInnermost == LowerSpec => []JumpsTargetInnermostLoop
<1>1. LInv => JumpsTargetInnermostLoop
  <2> SUFFICES ASSUME LInv, stage = "emit", OpenLoops # {} PROVE JumpsTargetInnermostLoop
    BY DEF JumpsTargetInnermostLoop
  <2>1. /\ emit_nest \in Seq(Emitting) /\ loop_labels \in Seq(Labels)
        /\ LabelsMatch(loop_labels, emit_nest)
    BY DEF LInv, LowerTypeOK, LabelsMatchLoops
  <2> QED BY <2>1, TopLabelsMatch DEF JumpsTargetInnermostLoop, OpenLoops, LabelsOf
<1> QED BY <1>1, LowerInvariance, PTL

(* For a function that declares each name once the rebuild and the emission*)
(* succeed without a diagnostic, and every reference is emitted with the   *)
(* variable the checker bound it to.                                       *)
THEOREM FlatTableSuffices == LowerSpec => []FlatTableFaithful
<1>1. LInv => FlatTableFaithful
  BY FlatResolves DEF FlatTableFaithful, ResolvesAsChecked, LInv, FlatInv
<1> QED BY <1>1, LowerInvariance, PTL

=============================================================================
