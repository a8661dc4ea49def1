------------------------------- MODULE Parser -------------------------------
(***************************************************************************)
(* The statement parser of the FASM compiler: parse_block and              *)
(* parse_block_inner with the handlers they dispatch to, for the body of   *)
(* one function.                                                           *)
(*                                                                         *)
(* The parser is recursive descent in assembly.  A handler keeps what it   *)
(* needs across the recursive call in registers it pushes, in registers it *)
(* does not push, and in the global words tmp_ast_a and ast_block_node, and*)
(* which of the three decides what survives.  "frames" is the call stack.  *)
(* One action is the handler of one token; a leaf statement is one token   *)
(* and an expression one node.  A syntax error ends the parse and is left  *)
(* out, except where a terminator is in the wrong place.  ast_call_stmt and*)
(* ast_ret_stmt, which later passes read, are left out.                    *)
(***************************************************************************)
EXTENDS AstArena

CONSTANTS
  ArraySizes,  (* sizes in array types                                     *)
  MaxTokens    (* bound on the statements and terminators of a function    *)

(* The arena at the first token of a body: source file, function, its name *)
(* and its block.                                                          *)
Header ==
  [nodes |-> <<Node("source", 2), Node("fn", 3), [kind |-> "path", child |-> 0, next |-> 4],
               Node("block", 0)>>,
   kids |-> << <<2>>, <<3, 4>>, << >>, << >> >>, err |-> FALSE, calls |-> 4]

Body == 4

ASSUME ParserAssumption ==
  /\ ArraySizes \subseteq Nat
  /\ MaxTokens \in Nat
  /\ AST_CAP >= Body

VARIABLES
  ast,
  ast_block_node,  (* the block statements are appended to                 *)
  tmp_ast_a,
  frames,
  returned,        (* what parse_elif_tail hands back, 0 while parsing     *)
  phase,           (* "parsing", then "accepted", "rejected" or "failed"   *)
  tokens,          (* consumed so far                                      *)
  plain            (* history: nothing a handler still needs was lost      *)

vars == <<ast, ast_block_node, tmp_ast_a, frames, returned, phase, tokens, plain>>

(* A handler waiting for the block it opened.  "rbx" is the block to go    *)
(* back to, "cond" and "block" the nodes it pushed, "then" the first block *)
(* of an if once the second is open.  "if" and "else" are parse_if_stmt,   *)
(* "elif" and "elifelse" parse_elif_tail, "ifwait" and "elifwait" the same *)
(* two while they wait for the tail they called.                           *)
FrameKinds == {"fn", "if", "else", "ifwait", "elif", "elifelse", "elifwait", "while", "loop", "unsafe"}

Frame(kind, rbx, cond, block, then) ==
  [kind |-> kind, rbx |-> rbx, cond |-> cond, block |-> block, then |-> then]

Top == frames[Len(frames)]
Popped == SubSeq(frames, 1, Len(frames) - 1)
WithTop(f) == Append(Popped, f)

Token == phase = "parsing" /\ returned = 0 /\ tokens < MaxTokens /\ tokens' = tokens + 1

Fail(a) ==
  /\ ast' = a /\ phase' = "failed"
  /\ UNCHANGED <<ast_block_node, tmp_ast_a, frames, returned, plain>>

-----------------------------------------------------------------------------
(* Leaf statements.                                                        *)

Statement(a, s, cs) ==
  LET linked == AppendAll(a, s, cs) IN
  ast' = Meant(Meant(ast_append_child(linked, ast_block_node, s), s, cs), Top.block, <<s>>)

(* parse_ret_stmt, parse_print_stmt, parse_eprint_stmt and parse_asm_stmt: *)
(* the node is created around its expression.  Only asm checks that it was.*)
ExprStmt(checked) ==
  /\ Token
  /\ LET e == FreshId(ast)
         a == ast_new(ast, "expr", 0)
         s == FreshId(a)
         b == ast_new(a, "stmt", e)
     IN IF e = 0 \/ (checked /\ s = 0) THEN Fail(b)
        ELSE /\ Statement(b, s, << >>)
             /\ UNCHANGED <<ast_block_node, tmp_ast_a, frames, returned, phase, plain>>

parse_break_stmt ==
  /\ Token
  /\ Statement(ast_new(ast, "stmt", 0), FreshId(ast), << >>)
  /\ UNCHANGED <<ast_block_node, tmp_ast_a, frames, returned, phase, plain>>

(* tmp_ast_a is still to be read by an if whose second part is open.       *)
TempNeeded == \E i \in 1 .. Len(frames) : frames[i].kind \in {"else", "ifwait"}

(* An identifier in tmp_ast_a, then an expression: let, mut, assignment.   *)
NamedStmt(a, init) ==
  LET i == FreshId(a)
      b == ast_new(a, "ident", 0)
      e == IF init THEN FreshId(b) ELSE 0
      c == IF init THEN ast_new(b, "expr", 0) ELSE b
      s == FreshId(c)
  IN IF i = 0 \/ (init /\ e = 0) THEN Fail(c)
     ELSE /\ Statement(ast_new(c, "stmt", 0), s, IF init THEN <<i, e>> ELSE <<i>>)
          /\ tmp_ast_a' = i
          /\ plain' = (plain /\ ~TempNeeded)
          /\ UNCHANGED <<ast_block_node, frames, returned, phase>>

parse_assign_stmt == Token /\ NamedStmt(ast, TRUE)

parse_decl_stmt(init) == Token /\ NamedStmt(ast, init)

(* What a size names when a handler takes it for a node: nothing, or a node*)
(* whose child is another node.  The child of an identifier or a literal is*)
(* the index of a token.                                                   *)
NamesNode(a, size) ==
  size = 0 \/ (size \in Ids(a) /\ a.nodes[size].kind \notin {"ident", "expr"})

(* A declaration of array type, without initializer: parse_array_type      *)
(* leaves the size in rbx, which the enclosing handler has not pushed.  An *)
(* unsafe block has, and the function body does not use it.  Sizes that do *)
(* not name a node yet, or one that has no nodes for children, are left out*)
(* where the handler uses them.                                            *)
ArrayDecl(size) ==
  /\ Token
  /\ LET i == FreshId(ast)
         a == ast_new(ast, "ident", 0)
         n == FreshId(a)
         b == ast_new(a, "expr", 0)
         used == Top.kind \notin {"fn", "unsafe"}
     IN IF i = 0 \/ n = 0 THEN Fail(b)
        ELSE /\ Statement(ast_new(b, "stmt", 0), FreshId(b), <<i>>)
             /\ tmp_ast_a' = i
             /\ plain' = (plain /\ ~TempNeeded /\ ~used)
             /\ used => NamesNode(ast', size)
             /\ frames' = IF used THEN [frames EXCEPT ![Len(frames)].rbx = size] ELSE frames
             /\ UNCHANGED <<ast_block_node, returned, phase>>

(* io.write: a path and three literals, none of them checked.              *)
parse_call_stmt ==
  /\ Token
  /\ LET a == ast_new(ast, "path", 0)
         b == ast_new(a, "expr", 0)
         c == ast_new(b, "expr", 0)
         d == ast_new(c, "expr", 0)
     IN /\ Statement(ast_new(d, "stmt", 0), FreshId(d),
                     <<FreshId(ast), FreshId(a), FreshId(b), FreshId(c)>>)
        /\ tmp_ast_a' = FreshId(a)
  /\ plain' = (plain /\ ~TempNeeded)
  /\ UNCHANGED <<ast_block_node, frames, returned, phase>>

-----------------------------------------------------------------------------
(* Statements that open a block.                                           *)

Enter(kind, cond, a) ==
  /\ ast' = ast_new(a, "block", 0)
  /\ frames' = Append(frames, Frame(kind, ast_block_node, cond, FreshId(a), 0))
  /\ ast_block_node' = FreshId(a)
  /\ UNCHANGED <<returned, phase>>

OpenWithCondition(kind) ==
  /\ Token
  /\ IF FreshId(ast) = 0 THEN Fail(ast_new(ast, "expr", 0))
     ELSE /\ Enter(kind, FreshId(ast), ast_new(ast, "expr", 0))
          /\ UNCHANGED <<tmp_ast_a, plain>>

OpenLoop ==
  /\ Token
  /\ Enter("loop", 0, ast)
  /\ UNCHANGED <<tmp_ast_a, plain>>

OpenUnsafe ==
  /\ Token
  /\ IF FreshId(ast) = 0 THEN Fail(ast_new(ast, "block", 0))
     ELSE /\ Enter("unsafe", 0, ast)
          /\ plain' = FALSE
          /\ UNCHANGED tmp_ast_a

-----------------------------------------------------------------------------
(* Terminators.  parse_block_inner stops at any of the three; each handler *)
(* looks, or does not look, at which one it was.                           *)

Terminators == {"end", "else", "elif"}

Restored(f) == f.rbx

(* The compound node, with its parts, appended to the block in rbx.        *)
Finish(kind, a, parts, meant) ==
  LET s == FreshId(a)
      b == AppendAll(ast_new(a, kind, 0), s, parts)
  IN /\ ast' = Meant(Meant(ast_append_child(b, Top.rbx, s), s, meant),
                     frames[Len(frames) - 1].block, <<s>>)
     /\ frames' = Popped
     /\ ast_block_node' = Restored(Top)

EndFunction(t) ==
  /\ Token /\ Top.kind = "fn"
  /\ IF t # "end" THEN Fail(ast)
     ELSE /\ phase' = IF ast.err THEN "rejected" ELSE "accepted"
          /\ UNCHANGED <<ast, ast_block_node, tmp_ast_a, frames, returned, plain>>

EndIf ==
  /\ Token /\ Top.kind = "if"
  /\ Finish("if", ast, <<Top.cond, Top.block>>, <<Top.cond, Top.block>>)
  /\ UNCHANGED <<tmp_ast_a, returned, phase, plain>>

ElseBlockNode_Reused(a) == Top.block

ElseBlockNode(a) == FreshId(a)

(* The second block of an if.  parse_if_stmt puts the first in tmp_ast_a,  *)
(* parse_elif_tail keeps it in a register it pushes.                       *)
Else ==
  /\ Token /\ Top.kind \in {"if", "elif"}
  /\ LET kind == IF Top.kind = "if" THEN "else" ELSE "elifelse" IN
     frames' = WithTop(Frame(kind, Top.rbx, Top.cond, ElseBlockNode(ast), Top.block))
  /\ ast' = ast_new(ast, "block", 0)
  /\ ast_block_node' = ElseBlockNode(ast)
  /\ IF Top.kind = "if"
     THEN tmp_ast_a' = Top.block /\ plain' = (plain /\ ~TempNeeded)
     ELSE UNCHANGED <<tmp_ast_a, plain>>
  /\ UNCHANGED <<returned, phase>>

EndElse(t) ==
  /\ Token /\ Top.kind = "else"
  /\ Finish("if", ast, <<Top.cond, tmp_ast_a, Top.block>>, <<Top.cond, Top.then, Top.block>>)
  /\ UNCHANGED <<tmp_ast_a, returned, phase, plain>>

EndWhile(t) ==
  /\ Token /\ Top.kind = "while"
  /\ Finish("while", ast, <<Top.cond, Top.block>>, <<Top.cond, Top.block>>)
  /\ UNCHANGED <<tmp_ast_a, returned, phase, plain>>

EndLoop(t) ==
  /\ Token /\ Top.kind = "loop"
  /\ Finish("loop", ast, <<Top.block>>, <<Top.block>>)
  /\ UNCHANGED <<tmp_ast_a, returned, phase, plain>>

(* parse_unsafe_block appends the unsafe node to the block it has just     *)
(* parsed, and returns with rbx changed under the enclosing handler.       *)
EndUnsafe(t) ==
  /\ Token /\ Top.kind = "unsafe"
  /\ LET u == FreshId(ast)
         a == ast_new(ast, "unsafe", Top.block)
         below == frames[Len(frames) - 1]
     IN IF t # "end" \/ u = 0 THEN Fail(IF t # "end" THEN ast ELSE a)
        ELSE /\ ast' = Meant(ast_append_child(a, ast_block_node, u), below.block, <<u>>)
             /\ frames' = IF below.kind = "unsafe" THEN Popped
                          ELSE [Popped EXCEPT ![Len(frames) - 1].rbx = Top.rbx]
             /\ ast_block_node' = Top.rbx
             /\ UNCHANGED <<tmp_ast_a, returned, phase, plain>>

-----------------------------------------------------------------------------
(* elif is rewritten as an if alone in an else block.  The handler waits   *)
(* for parse_elif_tail, which hands back the if it built.                  *)
Elif ==
  /\ Token /\ Top.kind \in {"if", "elif"}
  /\ LET cond == FreshId(ast)
         a == ast_new(ast, "expr", 0)
         waiting == Frame(IF Top.kind = "if" THEN "ifwait" ELSE "elifwait", Top.rbx, Top.cond,
                          Top.block, Top.block)
     IN IF cond = 0 THEN Fail(a)
        ELSE /\ ast' = ast_new(a, "block", 0)
             /\ frames' = Append(WithTop(waiting), Frame("elif", ast_block_node, cond, FreshId(a), 0))
             /\ ast_block_node' = FreshId(a)
             /\ IF Top.kind = "if"
                THEN tmp_ast_a' = Top.block /\ plain' = (plain /\ ~TempNeeded)
                ELSE UNCHANGED <<tmp_ast_a, plain>>
             /\ UNCHANGED <<returned, phase>>

(* The if a tail builds is handed back, 0 when the arena is full.          *)
HandBack(a, parts) ==
  LET s == FreshId(a) IN
  IF s = 0 THEN Fail(ast_new(a, "if", 0))
  ELSE /\ ast' = Meant(AppendAll(ast_new(a, "if", 0), s, parts), s, parts)
       /\ returned' = s
       /\ frames' = Popped
       /\ ast_block_node' = Restored(Top)
       /\ UNCHANGED <<tmp_ast_a, phase, plain>>

EndTail(t) ==
  /\ Token
  /\ \/ Top.kind = "elif" /\ t = "end" /\ HandBack(ast, <<Top.cond, Top.block>>)
     \/ Top.kind = "elifelse" /\ HandBack(ast, <<Top.cond, Top.then, Top.block>>)

Wrapped == Meant(ast_append_child(ast_new(ast, "block", 0), FreshId(ast), returned),
                 FreshId(ast), <<returned>>)

ResumeTail ==
  /\ phase = "parsing" /\ returned # 0 /\ Top.kind = "elifwait"
  /\ HandBack(Wrapped, <<Top.cond, Top.then, FreshId(ast)>>)
  /\ UNCHANGED tokens

ResumeIf ==
  /\ phase = "parsing" /\ returned # 0 /\ Top.kind = "ifwait"
  /\ Finish("if", Wrapped, <<Top.cond, tmp_ast_a, FreshId(ast)>>,
            <<Top.cond, Top.then, FreshId(ast)>>)
  /\ returned' = 0
  /\ UNCHANGED <<tmp_ast_a, phase, plain, tokens>>

-----------------------------------------------------------------------------
Init ==
  /\ ast = Header
  /\ ast_block_node = Body /\ tmp_ast_a = 0
  /\ frames = <<Frame("fn", 0, 0, Body, 0)>>
  /\ returned = 0 /\ phase = "parsing" /\ tokens = 0 /\ plain = TRUE

Next ==
  \/ \E checked \in BOOLEAN : ExprStmt(checked)
  \/ parse_break_stmt
  \/ parse_assign_stmt
  \/ \E init \in BOOLEAN : parse_decl_stmt(init)
  \/ \E size \in ArraySizes : ArrayDecl(size)
  \/ parse_call_stmt
  \/ \E kind \in {"if", "while"} : OpenWithCondition(kind)
  \/ OpenLoop
  \/ OpenUnsafe
  \/ EndIf
  \/ Else
  \/ Elif
  \/ \E t \in Terminators :
       \/ EndFunction(t)
       \/ EndElse(t)
       \/ EndWhile(t)
       \/ EndLoop(t)
       \/ EndUnsafe(t)
       \/ EndTail(t)
  \/ ResumeTail
  \/ ResumeIf

Spec == Init /\ [][Next]_vars

-----------------------------------------------------------------------------
NodeIds == 0 .. AST_CAP

ParserTypeOK ==
  /\ ast.nodes \in Seq([kind : NodeKinds, child : NodeIds, next : NodeIds])
  /\ Len(ast.nodes) <= AST_CAP
  /\ ast.kids \in Seq(Seq(NodeIds)) /\ Len(ast.kids) = Len(ast.nodes)
  /\ ast.err \in BOOLEAN /\ ast.calls \in Nat
  /\ {ast_block_node, tmp_ast_a, returned} \subseteq NodeIds
  /\ frames \in Seq([kind : FrameKinds, rbx : NodeIds, cond : NodeIds, block : NodeIds,
                     then : NodeIds])
  /\ phase \in {"parsing", "accepted", "rejected", "failed"}
  /\ tokens \in 0 .. MaxTokens /\ plain \in BOOLEAN

(* ast_append_child always comes to the end of the chain it walks: linking *)
(* nodes by their index never closes a ring, whatever the handlers lost to *)
(* each other, also when a handler takes an array size for a node it names *)
(* (NamesNode).                                                            *)
ChainsEnd == \A i \in Ids(ast) : ChainEnds(ast, ast.nodes[i].child)

(* The tree has the shape of the program, as long as no handler's state was*)
(* overwritten in the recursive call: statements in order in the block they*)
(* were written in, parts of an if, while or loop in their places.         *)
TreeAsWritten ==
  plain /\ ~ast.err => \A i \in Ids(ast) : Children(ast, i) = ast.kids[i]

(* A program is accepted only when every node it needs was allocated, even *)
(* though most handlers go on with a node they did not get: the overflow is*)
(* a flag that semantic_check_subset reads when the parse is over.         *)
AcceptedIsComplete == phase = "accepted" => ast.calls = Len(ast.nodes)
=============================================================================
