------------------------------ MODULE Stage0Expr ------------------------------
(***************************************************************************)
(* The expression parser of the Rust stage-0 compiler                      *)
(* (src/prototypes/rust_stage0/src/parser.rs): recursive descent with a    *)
(* binding power, as operators on a token sequence.  A token is its kind,  *)
(* which is all the parser branches on.  Every operator takes the index of *)
(* the current token; what it returns is what it parsed, the index behind  *)
(* it and the codes of the errors it reported, in order.  The operators    *)
(* that call each other return the set of their results, of which there is *)
(* always one.                                                             *)
(***************************************************************************)
EXTENDS Naturals, Sequences, TLC

CONSTANT Sources    \* the token sequences that are parsed, each ended by Eof

VARIABLE tokens     \* the one being parsed

Trivia == {"Newline", "Comment"}

(* Reading and passing a token: the last one is never passed. *)
At(i, kind) == tokens[i] = kind
bump(i) == IF i < Len(tokens) THEN i + 1 ELSE i
peek_kind(i) == IF i + 1 <= Len(tokens) THEN tokens[i + 1] ELSE "Eof"

(* expect consumes the token of that kind, or reports and consumes none. *)
expect(i, kind) == IF At(i, kind) THEN [next |-> bump(i), errs |-> << >>]
                                  ELSE [next |-> i, errs |-> <<"E0206">>]

Parsed(node, next, errs) == [node |-> node, next |-> next, errs |-> errs]

(* The operators with their left binding power; the right one is higher by *)
(* one, so that an operator associates to the left.                        *)
Level == [k \in {"Star", "Slash", "Percent"} |-> 7] @@ [k \in {"Plus", "Minus"} |-> 6]
           @@ [k \in {"Lt", "LtEq", "Gt", "GtEq"} |-> 5] @@ [k \in {"EqEq", "BangEq"} |-> 4]
           @@ ("And" :> 3) @@ ("Or" :> 2)
current_binop(i) == tokens[i] \in DOMAIN Level

(* Mutant: a prefix operator takes a sum as its operand. *)
PrefixLevel_Weak == 6

(* A prefix operator takes its operand at this binding power. *)
PrefixLevel == 8
Prefix == {"Not", "Minus"}

starts_arg(i) ==
  tokens[i] \in {"IntLit", "StrLit", "True", "False", "Ident", "LParen"} \cup Prefix
-----------------------------------------------------------------------------
(* A path has one separator throughout.  p is the path read so far, with   *)
(* the number of its segments.                                             *)
RECURSIVE PathTail(_, _)
PathTail(p, i) ==
  IF tokens[i] \notin {"Dot", "Slash"} THEN Parsed(p, i, << >>)
  ELSE IF p.sep \notin {"Single", tokens[i]} THEN Parsed(p, i, <<"E0206">>)
  ELSE LET q == [p EXCEPT !.sep = tokens[i]]
           seg == expect(bump(i), "Ident")
       IN IF seg.errs # << >> THEN Parsed(q, seg.next, seg.errs)
          ELSE PathTail([q EXCEPT !.segments = @ + 1], seg.next)

(* The caller stands before an identifier. *)
parse_path(i) == PathTail([k |-> "path", segments |-> 1, sep |-> "Single"], bump(i))

RECURSIVE parse_expr(_, _), parse_prefix(_), parse_primary(_), Args(_, _), Binaries(_, _)

parse_primary(i) ==
  CASE tokens[i] \in {"IntLit", "StrLit", "True", "False"} ->
         {Parsed([k |-> "lit", lit |-> tokens[i]], bump(i), << >>)}
    [] At(i, "Ident") -> {parse_path(i)}
    [] At(i, "LParen") ->
         {LET close == expect(inner.next, "RParen")
          IN Parsed(inner.node, close.next, inner.errs \o close.errs)
            : inner \in parse_expr(bump(i), 0)}
    [] OTHER -> {Parsed([k |-> "error"], bump(i), <<"E0206">>)}

parse_prefix(i) ==
  IF tokens[i] \notin Prefix THEN parse_primary(i)
  ELSE {Parsed([k |-> "unary", op |-> tokens[i], expr |-> e.node], e.next, e.errs)
          : e \in parse_expr(bump(i), PrefixLevel)}

(* The arguments of a call follow without separators; each is a prefix     *)
(* expression, so a minus starts an argument.  call is what was read.      *)
Args(call, i) ==
  IF ~starts_arg(i) THEN {call}
  ELSE UNION {Args(Parsed([call.node EXCEPT !.args = Append(@, arg.node)],
                          arg.next, call.errs \o arg.errs), arg.next)
                : arg \in parse_prefix(i)}

finish_call(lhs) ==
  IF lhs.node.k # "path" \/ ~starts_arg(lhs.next) THEN {lhs}
  ELSE Args([lhs EXCEPT !.node = [k |-> "call", callee |-> lhs.node, args |-> << >>]], lhs.next)

(* The loop over the operators that bind at least as tightly as min_bp. *)
Binaries(lhs, min_bp) ==
  LET i == lhs.next IN
  IF ~current_binop(i) THEN {lhs}
  ELSE IF Level[tokens[i]] < min_bp THEN {lhs}
  ELSE UNION {Binaries(Parsed([k |-> "binary", op |-> tokens[i],
                               left |-> lhs.node, right |-> rhs.node],
                              rhs.next, lhs.errs \o rhs.errs), min_bp)
                : rhs \in parse_expr(bump(i), Level[tokens[i]] + 1)}

parse_expr(i, min_bp) ==
  UNION {Binaries(lhs, min_bp) : lhs \in UNION {finish_call(p) : p \in parse_prefix(i)}}
-----------------------------------------------------------------------------
(* The remaining leaves of the grammar. *)
parse_type_ref(i) ==
  LET star == At(i, "Star")
      name == expect(IF star THEN bump(i) ELSE i, "Ident")
  IN Parsed([ptr |-> star], name.next, name.errs)

(* The first index from i on whose token is in `stops`; Eof is in all. *)
Until(stops, i) == CHOOSE j \in i..Len(tokens) :
                     /\ tokens[j] \in stops \cup {"Eof"}
                     /\ \A h \in i..(j - 1) : tokens[h] \notin stops \cup {"Eof"}

is_statement_boundary(i) == tokens[i] \in {"Newline", "End", "Else", "Eof"}

(* Mutant: the comments behind a statement are not passed. *)
consume_statement_end_NewlinesOnly(i) == CHOOSE j \in i..Len(tokens) :
                                           /\ tokens[j] # "Newline"
                                           /\ \A h \in i..(j - 1) : tokens[h] = "Newline"

consume_statement_end(i) == CHOOSE j \in i..Len(tokens) :
                              /\ tokens[j] \notin Trivia
                              /\ \A h \in i..(j - 1) : tokens[h] \in Trivia

synchronize_statement(i) ==
  Until({"Newline", "End", "Else", "Fn", "Let", "Mut", "If", "Loop", "While", "Ret"}, i)
synchronize_item(i) == Until({"Fn", "Use"}, i)
=============================================================================
