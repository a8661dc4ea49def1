----------------------------- MODULE Stage0Parser -----------------------------
(***************************************************************************)
(* Items, blocks and statements in the parser of the Rust stage-0 compiler *)
(* (src/prototypes/rust_stage0/src/parser.rs), with its error recovery.    *)
(* The call stack of the recursive descent is `frames`, the blocks that    *)
(* are open; the syntax tree is written in preorder to `tree`, a block     *)
(* from its opening node to its "end".  One action is one turn of the loop *)
(* over the items or over the statements of the innermost block; it leaves *)
(* the index behind the newlines and comments, as every turn does.         *)
(***************************************************************************)
EXTENDS Stage0Expr, FiniteSets
LOCAL INSTANCE SequencesExt  \* FlattenSeq

CONSTANT ErrorCap   \* how many diagnostics are kept before "too many errors"

ASSUME SourcesAssumption ==
  /\ ErrorCap \in Nat
  /\ \A s \in Sources : s # << >> /\ \A i \in 1..Len(s) : s[i] = "Eof" <=> i = Len(s)

VARIABLES index,        \* the current token
          frames,       \* the kinds of the open blocks, the innermost last
          tree,         \* the nodes, in preorder
          diagnostics,  \* the codes reported
          done          \* parse has returned

vars == <<tokens, index, frames, tree, diagnostics, done>>

Blocks == {"fn", "if", "else", "loop", "while", "unsafe"}

(* error: past the cap one E9999 is reported, then nothing any more. *)
Reported(codes) == LET all == diagnostics \o codes
                   IN IF Len(all) <= ErrorCap THEN all
                      ELSE Append(SubSeq(all, 1, ErrorCap), "E9999")

(* A turn of a loop: the nodes it adds, where it stops, what it reports.   *)
Turn(nodes, next, errs) ==
  \E turn \in {Parsed(nodes, next, errs)} :
    /\ index' = consume_statement_end(turn.next)
    /\ tree' = tree \o turn.node
    /\ diagnostics' = Reported(turn.errs)
    /\ UNCHANGED <<tokens, done>>

AtItem == ~done /\ frames = << >>
AtStatement == ~done /\ frames # << >> /\ tokens[index] \notin {"Eof", "End", "Else"}
Innermost == frames[Len(frames)]
Open(block) == frames' = Append(frames, block)
-----------------------------------------------------------------------------
(* The loop over the items. *)
parse_use ==
  /\ AtItem /\ At(index, "Use")
  /\ LET name == expect(bump(index), "Ident")
         path == parse_path(bump(index))
     IN IF name.errs # << >> THEN Turn(<< >>, name.next, name.errs)
        ELSE Turn(<<[k |-> "use", path |-> path.node]>>, path.next, path.errs)
  /\ UNCHANGED frames

(* The parameters: a name and a type each, up to the arrow or the line end *)
RECURSIVE Params(_, _)
Params(types, i) ==
  LET type == parse_type_ref(bump(i))
      Bad(at, errs) == Parsed(types, synchronize_statement(at), errs \o <<"E0206">>)
  IN IF tokens[i] \in {"Arrow", "Eof", "Newline"} THEN Parsed(types, i, << >>)
     ELSE IF ~At(i, "Ident") THEN Bad(i, expect(i, "Ident").errs)
     ELSE IF type.errs # << >> THEN Bad(type.next, type.errs)
     ELSE Params(Append(types, type.node), type.next)

(* The header of a function.  When a part is missing the function is given *)
(* up and the parser goes on at the next item; parameters that cannot be   *)
(* read are only reported.                                                 *)
parse_fn_item ==
  /\ AtItem
  /\ At(index, "Fn") \/ (At(index, "Unsafe") /\ peek_kind(index) = "Fn")
  /\ \E name \in {expect(bump(IF At(index, "Fn") THEN index ELSE bump(index)), "Ident")} :
     \E params \in {Params(<< >>, name.next)} :
     \E arrow \in {expect(params.next, "Arrow")} :
     \E ret \in {parse_type_ref(arrow.next)} :
       LET node == [k |-> "fn", unsafe |-> At(index, "Unsafe"),
                    params |-> params.node, ret |-> ret.node]
           GiveUp(at, errs) == /\ Turn(<< >>, synchronize_item(at), errs)
                               /\ UNCHANGED frames
       IN IF name.errs # << >> THEN GiveUp(name.next, name.errs \o <<"E0201">>)
          ELSE IF arrow.errs # << >>
                 THEN GiveUp(arrow.next, params.errs \o arrow.errs \o <<"E0202">>)
          ELSE IF ret.errs # << >>
                 THEN GiveUp(ret.next, params.errs \o ret.errs \o <<"E0202">>)
          ELSE Turn(<<node>>, ret.next, params.errs) /\ Open("fn")

(* unsafe with no fn behind it: expect(Fn) fails, parse_fn_item returns,   *)
(* and the loop over the items finds the same token again.                 *)
UnsafeItem == /\ AtItem /\ At(index, "Unsafe") /\ peek_kind(index) # "Fn"
              /\ Turn(<< >>, index, expect(index, "Fn").errs)
              /\ UNCHANGED frames

(* Mutant: the token that starts no item is reported and kept. *)
StrayToken_Stays ==
  /\ AtItem /\ tokens[index] \notin {"Use", "Fn", "Unsafe", "Eof"}
  /\ Turn(<< >>, index, <<"E0206">>)
  /\ UNCHANGED frames

(* A token that starts no item is passed. *)
StrayToken ==
  /\ AtItem /\ tokens[index] \notin {"Use", "Fn", "Unsafe", "Eof"}
  /\ Turn(<< >>, bump(index),
          <<CASE At(index, "End") -> "E0204" [] At(index, "Else") -> "E0205"
              [] OTHER -> "E0206">>)
  /\ UNCHANGED frames

Finish == /\ AtItem /\ At(index, "Eof")
          /\ done' = TRUE
          /\ UNCHANGED <<tokens, index, frames, tree, diagnostics>>
-----------------------------------------------------------------------------
(* The loop over the statements of a block.  A statement that consumed     *)
(* nothing would be passed with E0207.                                     *)
Statement(nodes, next, errs) ==
  IF next = index THEN Turn(nodes, bump(index), errs \o <<"E0207">>)
                  ELSE Turn(nodes, next, errs)

(* let and mut: what is missing leaves the rest of the line unread. *)
parse_var ==
  /\ AtStatement /\ tokens[index] \in {"Let", "Mut"}
  /\ \E name \in {expect(bump(index), "Ident")} :
     \E type \in {parse_type_ref(name.next)} :
     \E eq \in {expect(type.next, "Eq")} :
     \E expr \in parse_expr(eq.next, 0) :
     LET node == [k |-> "var", mutable |-> At(index, "Mut"), type |-> type.node,
                  expr |-> expr.node]
         FirstBad == IF name.errs # << >> THEN name
                     ELSE IF type.errs # << >> THEN type ELSE eq
     IN IF FirstBad.errs # << >> THEN Statement(<< >>, FirstBad.next, FirstBad.errs)
        ELSE Statement(<<node>>, expr.next, expr.errs)
  /\ UNCHANGED frames

parse_assign ==
  /\ AtStatement /\ At(index, "Ident") /\ peek_kind(index) = "Eq"
  /\ \E expr \in parse_expr(bump(bump(index)), 0) :
        Statement(<<[k |-> "assign", expr |-> expr.node]>>, expr.next, expr.errs)
  /\ UNCHANGED frames

parse_ret ==
  /\ AtStatement /\ At(index, "Ret")
  /\ \E expr \in parse_expr(bump(index), 0) :
        IF is_statement_boundary(bump(index))
          THEN Statement(<<[k |-> "ret"]>>, bump(index), << >>)
          ELSE Statement(<<[k |-> "ret", expr |-> expr.node]>>, expr.next, expr.errs)
  /\ UNCHANGED frames

LoopControl ==
  /\ AtStatement /\ tokens[index] \in {"Break", "Continue"}
  /\ Statement(<<[k |-> tokens[index]]>>, bump(index), << >>)
  /\ UNCHANGED frames

(* if and while: a condition, an arrow and a block. *)
parse_condition ==
  /\ AtStatement /\ tokens[index] \in {"If", "While"}
  /\ \E cond \in parse_expr(bump(index), 0) :
     LET arrow == expect(cond.next, "Arrow")
         block == IF At(index, "If") THEN "if" ELSE "while"
     IN /\ Statement(<<[k |-> block, cond |-> cond.node]>>, arrow.next,
                     cond.errs \o arrow.errs)
        /\ Open(block)

(* loop and, when an arrow follows, unsafe. *)
parse_loop ==
  /\ AtStatement
  /\ At(index, "Loop") \/ (At(index, "Unsafe") /\ peek_kind(index) = "Arrow")
  /\ LET arrow == expect(bump(index), "Arrow")
         block == IF At(index, "Loop") THEN "loop" ELSE "unsafe"
     IN Statement(<<[k |-> block]>>, arrow.next, arrow.errs) /\ Open(block)

StartsStatement == \/ tokens[index] \in {"Let", "Mut", "Ret", "Break", "Continue",
                                         "If", "While", "Loop"}
                   \/ At(index, "Unsafe") /\ peek_kind(index) = "Arrow"
                   \/ At(index, "Ident") /\ peek_kind(index) = "Eq"

parse_expr_stmt ==
  /\ AtStatement /\ ~StartsStatement
  /\ \E expr \in parse_expr(index, 0) :
        Statement(<<[k |-> "expr", expr |-> expr.node]>>, expr.next, expr.errs)
  /\ UNCHANGED frames
-----------------------------------------------------------------------------
(* The end of a block. *)
AtBlockEnd == ~done /\ frames # << >> /\ tokens[index] \in {"Eof", "End", "Else"}

(* Mutant: the else block is opened inside the then block. *)
ElseBlock_Inside ==
  /\ AtBlockEnd /\ At(index, "Else") /\ Innermost = "if"
  /\ LET arrow == expect(bump(index), "Arrow")
     IN Turn(<<[k |-> "else"]>>, arrow.next, arrow.errs)
  /\ Open("else")

(* The then block of an if may be followed by an else block. *)
ElseBlock ==
  /\ AtBlockEnd /\ At(index, "Else") /\ Innermost = "if"
  /\ LET arrow == expect(bump(index), "Arrow")
     IN Turn(<<[k |-> "else"]>>, arrow.next, arrow.errs)
  /\ frames' = [frames EXCEPT ![Len(frames)] = "else"]

(* Mutant: a block that is not ended is closed without a diagnostic. *)
EndBlock_Silent ==
  /\ AtBlockEnd
  /\ ~(At(index, "Else") /\ Innermost = "if")
  /\ Turn(<<[k |-> "end"]>>, expect(index, "End").next, << >>)
  /\ frames' = SubSeq(frames, 1, Len(frames) - 1)

(* Every other block wants its end here; without it the block is closed    *)
(* all the same and the token is left to the block around it.              *)
EndBlock ==
  /\ AtBlockEnd
  /\ ~(At(index, "Else") /\ Innermost = "if")
  /\ LET end == expect(index, "End")
     IN Turn(<<[k |-> "end"]>>, end.next,
             IF end.errs = << >> THEN << >> ELSE end.errs \o <<"E0203">>)
  /\ frames' = SubSeq(frames, 1, Len(frames) - 1)
-----------------------------------------------------------------------------
Init == /\ tokens \in Sources
        /\ index = consume_statement_end(1)
        /\ frames = << >> /\ tree = << >> /\ diagnostics = << >>
        /\ done = FALSE

Items == parse_use \/ parse_fn_item \/ UnsafeItem \/ StrayToken \/ Finish
Statements == parse_var \/ parse_assign \/ parse_ret \/ LoopControl
                \/ parse_condition \/ parse_loop \/ parse_expr_stmt
Next == Items \/ Statements \/ ElseBlock \/ EndBlock

(* parse is one loop in one thread: it runs on while it can. *)
ParseSpec == Init /\ [][Next]_vars /\ WF_vars(Next)
-----------------------------------------------------------------------------
(* The blocks that the nodes leave open, when `open` were before them. *)
RECURSIVE OpenAfter(_, _)
OpenAfter(open, nodes) ==
  IF nodes = << >> THEN open
  ELSE LET k == nodes[1].k IN
       OpenAfter(CASE k = "else" -> [open EXCEPT ![Len(open)] = "else"]
                   [] k = "end" -> SubSeq(open, 1, Len(open) - 1)
                   [] k \in Blocks \ {"else"} -> Append(open, k)
                   [] OTHER -> open,
                 Tail(nodes))

(* The index stands on a token that is no newline or comment, at most one  *)
(* diagnostic more than the cap is kept, and the open frames are the       *)
(* blocks the tree has not ended, after any error.                         *)
Stage0ParserTypeOK ==
  /\ index \in 1..Len(tokens) /\ tokens[index] \notin Trivia
  /\ Len(diagnostics) <= ErrorCap + 1
  /\ OpenAfter(<< >>, tree) = frames
  /\ done \in BOOLEAN
-----------------------------------------------------------------------------
(* What the nodes say was written; parentheses leave no node.              *)
TypeTokens(type) == (IF type.ptr THEN <<"Star">> ELSE << >>) \o <<"Ident">>

RECURSIVE ExprTokens(_)
ExprTokens(e) ==
  CASE e.k = "lit" -> <<e.lit>>
    [] e.k = "path" -> [i \in 1..(2 * e.segments - 1) |-> IF i % 2 = 1 THEN "Ident" ELSE e.sep]
    [] e.k = "unary" -> <<e.op>> \o ExprTokens(e.expr)
    [] e.k = "binary" -> ExprTokens(e.left) \o <<e.op>> \o ExprTokens(e.right)
    [] e.k = "call" -> ExprTokens(e.callee)
                         \o FlattenSeq([i \in 1..Len(e.args) |-> ExprTokens(e.args[i])])
    [] OTHER -> <<"Error">>

OptionalExpr(n) == IF "expr" \in DOMAIN n THEN ExprTokens(n.expr) ELSE << >>

NodeTokens(n) ==
  CASE n.k = "use" -> <<"Use">> \o ExprTokens(n.path)
    [] n.k = "fn" ->
         (IF n.unsafe THEN <<"Unsafe">> ELSE << >>) \o <<"Fn", "Ident">>
           \o FlattenSeq([i \in 1..Len(n.params) |-> <<"Ident">> \o TypeTokens(n.params[i])])
           \o <<"Arrow">> \o TypeTokens(n.ret)
    [] n.k = "var" -> <<IF n.mutable THEN "Mut" ELSE "Let", "Ident">>
                        \o TypeTokens(n.type) \o <<"Eq">> \o ExprTokens(n.expr)
    [] n.k = "assign" -> <<"Ident", "Eq">> \o ExprTokens(n.expr)
    [] n.k = "ret" -> <<"Ret">> \o OptionalExpr(n)
    [] n.k \in {"if", "while"} -> <<IF n.k = "if" THEN "If" ELSE "While">>
                                    \o ExprTokens(n.cond) \o <<"Arrow">>
    [] n.k = "expr" -> ExprTokens(n.expr)
    [] n.k = "else" -> <<"Else", "Arrow">>
    [] n.k = "loop" -> <<"Loop", "Arrow">>
    [] n.k = "unsafe" -> <<"Unsafe", "Arrow">>
    [] n.k = "end" -> <<"End">>
    [] OTHER -> <<n.k>>

(* A program without a diagnostic is read whole: its tree gives back the   *)
(* tokens as they were written, none passed over, none moved to another    *)
(* block (every handler and every recovery that must report).              *)
AcceptedReadsBack ==
  done /\ diagnostics = << >> =>
    FlattenSeq([i \in 1..Len(tree) |-> NodeTokens(tree[i])])
      = SelectSeq(tokens, LAMBDA t : t \notin Trivia \cup {"LParen", "RParen", "Eof"})

RECURSIVE SubExprs(_)
SubExprs(e) ==
  {e} \cup CASE e.k = "unary" -> SubExprs(e.expr)
             [] e.k = "binary" -> SubExprs(e.left) \cup SubExprs(e.right)
             [] e.k = "call" -> UNION {SubExprs(e.args[i]) : i \in 1..Len(e.args)}
             [] OTHER -> {}

ExprsOf(n) == IF "expr" \in DOMAIN n THEN SubExprs(n.expr)
              ELSE IF "cond" \in DOMAIN n THEN SubExprs(n.cond) ELSE {}

(* Without parentheses a tree groups by binding power: no operand of an    *)
(* operator is a weaker one, equal ones group to the left, and neither a   *)
(* prefix operator nor an argument takes an operator with it.              *)
OperatorsBind ==
  "LParen" \notin {tokens[i] : i \in 1..Len(tokens)} =>
    \A i \in 1..Len(tree) : \A e \in ExprsOf(tree[i]) :
      /\ e.k = "binary" /\ e.left.k = "binary" => Level[e.left.op] >= Level[e.op]
      /\ e.k = "binary" /\ e.right.k = "binary" => Level[e.right.op] > Level[e.op]
      /\ e.k = "unary" => e.expr.k # "binary"
      /\ e.k = "call" => \A a \in 1..Len(e.args) : e.args[a].k \notin {"binary", "call"}
-----------------------------------------------------------------------------
(* The language, one item or statement a line, as a grammar: what a line   *)
(* is, and how the lines nest.                                             *)
IsPath(s) == /\ Len(s) % 2 = 1
             /\ \A i \in 1..Len(s) : IF i % 2 = 1 THEN s[i] = "Ident"
                                     ELSE s[i] = s[2] /\ s[i] \in {"Dot", "Slash"}
IsType(s) == s \in {<<"Ident">>, <<"Star", "Ident">>}

RECURSIVE IsExpr(_), IsAtom(_), IsTerm(_), IsArguments(_)
Cut(s, i) == SubSeq(s, i, Len(s))
IsAtom(s) == \/ Len(s) = 1 /\ s[1] \in {"IntLit", "StrLit", "True", "False"}
             \/ IsPath(s)
             \/ Len(s) > 2 /\ s[1] = "LParen" /\ s[Len(s)] = "RParen"
                  /\ IsExpr(SubSeq(s, 2, Len(s) - 1))
IsArguments(s) ==
  \/ s = << >>
  \/ \E i \in 1..Len(s) : /\ \/ IsAtom(SubSeq(s, 1, i))
                             \/ s[1] \in Prefix /\ IsTerm(SubSeq(s, 2, i))
                          /\ IsArguments(Cut(s, i + 1))
IsTerm(s) == \/ IsAtom(s)
             \/ \E i \in 1..Len(s) : IsPath(SubSeq(s, 1, i)) /\ IsArguments(Cut(s, i + 1))
             \/ Len(s) > 1 /\ s[1] \in Prefix /\ IsTerm(Cut(s, 2))
IsExpr(s) == \/ IsTerm(s)
             \/ \E i \in 1..Len(s) : /\ s[i] \in DOMAIN Level
                                     /\ IsExpr(SubSeq(s, 1, i - 1)) /\ IsTerm(Cut(s, i + 1))

RECURSIVE AreParams(_)
AreParams(s) == s = << >> \/ \E i \in {2, 3} : /\ i <= Len(s) /\ s[1] = "Ident"
                                               /\ IsType(SubSeq(s, 2, i))
                                               /\ AreParams(Cut(s, i + 1))
IsFnLine(s) == \E i \in 3..Len(s) : /\ s[1] = "Fn" /\ s[2] = "Ident" /\ s[i] = "Arrow"
                                    /\ AreParams(SubSeq(s, 3, i - 1)) /\ IsType(Cut(s, i + 1))
IsVarLine(s) == \E i \in {4, 5} : /\ i < Len(s) /\ s[1] \in {"Let", "Mut"} /\ s[2] = "Ident"
                                  /\ IsType(SubSeq(s, 3, i - 1)) /\ s[i] = "Eq"
                                  /\ IsExpr(Cut(s, i + 1))
IsSimple(s) == \/ s \in {<<"Ret">>, <<"Break">>, <<"Continue">>}
               \/ IsVarLine(s) \/ IsExpr(s)
               \/ Len(s) > 1 /\ s[1] = "Ret" /\ IsExpr(Cut(s, 2))
               \/ Len(s) > 2 /\ s[1] = "Ident" /\ s[2] = "Eq" /\ IsExpr(Cut(s, 3))

LineKind(s) ==
  CASE s = << >> -> "blank"
    [] s = <<"End">> -> "end"
    [] s = <<"Else", "Arrow">> -> "else"
    [] s = <<"Loop", "Arrow">> -> "loop"
    [] s = <<"Unsafe", "Arrow">> -> "unsafe"
    [] s[1] = "Use" /\ IsPath(Cut(s, 2)) -> "use"
    [] IsFnLine(s) \/ (s[1] = "Unsafe" /\ IsFnLine(Cut(s, 2))) -> "fn"
    [] s[1] \in {"If", "While"} /\ s[Len(s)] = "Arrow" /\ IsExpr(SubSeq(s, 2, Len(s) - 1)) ->
         IF s[1] = "If" THEN "if" ELSE "while"
    [] IsSimple(s) -> "simple"
    [] OTHER -> "bad"

(* The blocks open behind a line; <<"bad">> when the line cannot be here. *)
Nest(open, kind) ==
  CASE kind = "blank" -> open
    [] open = << >> -> IF kind = "use" THEN open ELSE IF kind = "fn" THEN <<"fn">> ELSE <<"bad">>
    [] open[Len(open)] = "bad" \/ kind \in {"bad", "use", "fn"} -> <<"bad">>
    [] kind = "end" -> SubSeq(open, 1, Len(open) - 1)
    [] kind = "else" -> IF open[Len(open)] = "if" THEN [open EXCEPT ![Len(open)] = "else"]
                        ELSE <<"bad">>
    [] kind \in Blocks -> Append(open, kind)
    [] OTHER -> open

RECURSIVE Nested(_, _)
Nested(open, i) ==
  IF i > Len(tokens) THEN open
  ELSE LET end == Until({"Newline"}, i)
           line == SelectSeq(SubSeq(tokens, i, end - 1), LAMBDA t : t # "Comment")
       IN Nested(Nest(open, LineKind(line)), end + 1)
IsProgram == Nested(<< >>, 1) = << >>

(* Two places where the parser is narrower than that grammar: a comment    *)
(* behind a bare ret is taken for its value (is_statement_boundary does    *)
(* not know comments), and a slash behind a name always continues a path.  *)
CommentBehindRet == \E i \in 2..Len(tokens) : tokens[i - 1] = "Ret" /\ tokens[i] = "Comment"
SlashBehindName == \E i \in 2..Len(tokens) : tokens[i - 1] = "Ident" /\ tokens[i] = "Slash"

(* A program written by the grammar, one statement a line, is accepted:    *)
(* no handler or recovery reports an error that is not there.              *)
GrammaticalIsAccepted ==
  done /\ IsProgram /\ ~CommentBehindRet /\ ~SlashBehindName => diagnostics = << >>
-----------------------------------------------------------------------------
(* The parser stays where it is for ever before this token. *)
StuckAtUnsafe == /\ frames = << >>
                 /\ tokens[index] = "Unsafe" /\ peek_kind(index) # "Fn"

(* On every token sequence the parser returns, or it has come to an unsafe *)
(* with no fn behind it where an item should be.                           *)
EndsOrStuckAtUnsafe == <>(done \/ StuckAtUnsafe)

(* The parser returns whatever it is given (parser.rs, parse_block guards  *)
(* its loop with E0207 "parser made no progress"; tests/foundation.rs      *)
(* parses a corpus of invalid texts): violated by the loop over the items. *)
ParserEnds == <>done
=============================================================================
