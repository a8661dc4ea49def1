------------------------------ MODULE AstArena ------------------------------
(***************************************************************************)
(* The AST arena of the FASM compiler (ast.asm): at most AST_CAP nodes,    *)
(* named by their index from 1, 0 being "no node".  A node heads the chain *)
(* of its children with "child" and continues its own chain with "next".   *)
(*                                                                         *)
(* The operators are functions of an arena, so a parser action chains the  *)
(* calls its handler makes.  "err" is ast_error_flag.  "calls" and "kids"  *)
(* are not in the code: they record how many nodes were asked for and the  *)
(* children each node is meant to have, for the properties to compare.     *)
(***************************************************************************)
EXTENDS Integers, Sequences

CONSTANT AST_CAP  (* 1024 *)

ASSUME AstAssumption == AST_CAP \in Nat \ {0}

(* The kinds a parser gives, those it treats alike under one name.         *)
NodeKinds == {"source", "fn", "path", "block", "ident", "expr", "stmt", "if", "while", "loop", "unsafe"}

Ids(a) == 1 .. Len(a.nodes)

(* Some nodes are created around a child that exists already.              *)
Node(kind, child) == [kind |-> kind, child |-> child, next |-> 0]

Alone(k) == IF k = 0 THEN << >> ELSE <<k>>

FreshId_Unbounded(a) == Len(a.nodes) + 1

FreshId(a) == IF Len(a.nodes) >= AST_CAP THEN 0 ELSE Len(a.nodes) + 1

Overflow_Unreported(a) == [a EXCEPT !.calls = @ + 1]

Overflow(a) == [a EXCEPT !.err = TRUE, !.calls = @ + 1]

(* The arena after ast_new; FreshId of the arena before it is what it      *)
(* returns.                                                                *)
ast_new(a, kind, child) ==
  IF FreshId(a) = 0 THEN Overflow(a)
  ELSE [a EXCEPT !.nodes = Append(@, Node(kind, child)),
                 !.kids = Append(@, Alone(child)),
                 !.calls = @ + 1]

(* Steps along a chain of siblings: Walk(a, c)[k] is k links after c.      *)
Walk(a, c) ==
  LET w[k \in 0 .. Len(a.nodes)] ==
        IF k = 0 THEN c ELSE IF w[k - 1] = 0 THEN 0 ELSE a.nodes[w[k - 1]].next
  IN w

ChainEnds(a, c) == Walk(a, c)[Len(a.nodes)] = 0

(* The chain as a sequence, for a chain that ends.                         *)
Chain(a, c) ==
  LET w == Walk(a, c)
      length == CHOOSE k \in 0 .. Len(a.nodes) : w[k] = 0 /\ \A j \in 0 .. k - 1 : w[j] # 0
  IN [k \in 1 .. length |-> w[k - 1]]

Children(a, p) == Chain(a, a.nodes[p].child)

(* Joined after the first child, whatever followed it.                     *)
ast_append_child_AfterFirst(a, p, c) ==
  IF p = 0 \/ c = 0 THEN a
  ELSE IF a.nodes[p].child = 0 THEN [a EXCEPT !.nodes[p].child = c]
  ELSE [a EXCEPT !.nodes[a.nodes[p].child].next = c]

(* ast_append_child: nothing when either node is missing, otherwise a link *)
(* from the parent or from its last child.                                 *)
ast_append_child(a, p, c) ==
  IF p = 0 \/ c = 0 THEN a
  ELSE IF a.nodes[p].child = 0 THEN [a EXCEPT !.nodes[p].child = c]
  ELSE LET siblings == Children(a, p) IN [a EXCEPT !.nodes[siblings[Len(siblings)]].next = c]

AppendAll(a, p, cs) ==
  LET f[i \in 0 .. Len(cs)] == IF i = 0 THEN a ELSE ast_append_child(f[i - 1], p, cs[i])
  IN f[Len(cs)]

(* History: the children p is meant to have.                               *)
Meant(a, p, cs) ==
  IF p = 0 THEN a ELSE [a EXCEPT !.kids[p] = @ \o cs]
=============================================================================
