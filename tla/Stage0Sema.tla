------------------------------ MODULE Stage0Sema ------------------------------
(***************************************************************************)
(* The semantic check of the Rust stage-0 compiler                         *)
(* (src/prototypes/rust_stage0/src/sema.rs).  The package and the headers  *)
(* of its functions are chosen at the start; the bodies are written while  *)
(* they are checked, one node of the tree at a time, and recorded in       *)
(* `program` in preorder, a block from its opening node to its "end".      *)
(* Names, types and literals are members of small sets.                    *)
(***************************************************************************)
EXTENDS Integers, Sequences, FiniteSets
Seqs == INSTANCE SequencesExt  \* FlattenSeq
Ext == INSTANCE FiniteSetsExt  \* Max, Min

CONSTANTS Packages,     \* [type, requires, items]: an item is a function's header,
                        \* the nodes that may be written in its body, and how many
          Expressions,  \* the expressions of these nodes, with their operands
          Height,       \* the height of each as a tree
          Largest,      \* the largest literal of each integer type
          MaxErrors     \* bound on the diagnostics before the writer gives up

VARIABLES package,      \* the package: its type, capabilities and functions
          phase,        \* "register", "bodies", "checked"; later the back end's
          item,         \* the header that is looked at
          functions,    \* Checker.functions: the signatures by name
          program,      \* the nodes written so far
          vars,         \* FnCtx.vars: the variables by name
          loopDepth,    \* FnCtx.loop_depth
          unsafeDepth,  \* FnCtx.unsafe_depth
          blocks,       \* the open blocks with what block_returns found in them
          diagnostics   \* the codes reported

semaVars == <<package, phase, item, functions, program, vars,
              loopDepth, unsafeDepth, blocks, diagnostics>>

items == package.items
requires == package.requires

Nothing == [x \in {} |-> x]
Has(f, x) == x \in DOMAIN f
With(f, x, value) == [y \in DOMAIN f \cup {x} |-> IF y = x THEN value ELSE f[y]]
If(condition, code) == IF condition THEN <<code>> ELSE << >>
-----------------------------------------------------------------------------
(* Expressions and nodes. *)
Arithmetic == {"Add", "Sub", "Mul", "Div", "Mod"}
Comparison == {"Eq", "NotEq", "Lt", "LtEq", "Gt", "GtEq"}

Operands(e) == CASE e.k = "unary" -> {e.expr}
                 [] e.k = "binary" -> {e.left, e.right}
                 [] e.k = "call" -> {e.args[i] : i \in 1..Len(e.args)}
                 [] OTHER -> {}

SubExprs[e \in Expressions] == {e} \cup UNION {SubExprs[x] : x \in Operands(e)}

IsExpression(e) ==
  /\ e.k \in {"int", "str", "bool", "ident", "path", "unary", "binary", "call"}
  /\ e.k = "binary" => e.op \in Arithmetic \cup Comparison \cup {"And", "Or"}
  /\ e.k = "call" => e.args \in Seq(Expressions)
  /\ \A x \in Operands(e) : x \in Expressions /\ Height[x] < Height[e]

(* What may be written in a body; a block starts with one of the last four. *)
IsStatement(s) ==
  /\ s.k \in {"var", "assign", "ret", "expr", "break", "continue",
              "if", "while", "loop", "unsafe"}
  /\ s.k \in {"var", "assign", "expr"} => Has(s, "expr")
  /\ Has(s, "expr") => s.expr \in Expressions /\ s.k \in {"var", "assign", "expr", "ret"}
  /\ Has(s, "cond") => s.cond \in Expressions
  /\ Has(s, "cond") <=> s.k \in {"if", "while"}

(* A name has no dot, so no function is called like the two builtins. *)
IsHeader(h) ==
  /\ h.params \in Seq({h.params[i] : i \in DOMAIN h.params})
  /\ h.unsafe \in BOOLEAN
  /\ h.name \notin {"io.write", "mem.alloc"}
  /\ \A s \in h.body : IsStatement(s)

(* Expressions are finite trees. *)
ASSUME SemaAssumption ==
  /\ Height \in [Expressions -> Nat]
  /\ \A e \in Expressions : IsExpression(e)
  /\ \A p \in Packages : /\ p.items \in Seq({p.items[i] : i \in DOMAIN p.items})
                          /\ \A i \in DOMAIN p.items : IsHeader(p.items[i])
-----------------------------------------------------------------------------
(* Ty: a named type, an integer literal with its value, or an error. *)
Named(name) == [t |-> "Named", name |-> name]
IntLiteral(value) == [t |-> "IntLiteral", value |-> value]
TyError == [t |-> "Error"]

is_integer_type(name) == name \in DOMAIN Largest
literal_fits(value, type) == value <= Largest[type]

is_bool(ty) == ty = Named("bool")
is_str(ty) == ty = Named("str_static")
is_numeric_or_literal(ty) ==
  ty.t = "IntLiteral" \/ (ty.t = "Named" /\ is_integer_type(ty.name))

(* Both operands are integers: the named type wins, the left one first. *)
merge_numeric(left, right) == IF left.t = "Named" THEN left
                              ELSE IF right.t = "Named" THEN right ELSE IntLiteral(0)
compatible_loose(left, right) ==
  left = right \/ (is_numeric_or_literal(left) /\ is_numeric_or_literal(right))


(* The codes require_type reports. *)
require_type(expected, actual) ==
  IF actual.t = "IntLiteral" /\ is_integer_type(expected)
    THEN If(~literal_fits(actual.value, expected), "E4001")
    ELSE If(actual # TyError /\ actual # Named(expected), "E0402")
-----------------------------------------------------------------------------
(* The type of an expression and the codes it reports. *)
Typed(ty, errs) == [ty |-> ty, errs |-> errs]

UnsafeCall(sig) == If(sig.unsafe /\ unsafeDepth = 0, "E0701")

binary_type(op, left, right) ==
  LET numbers == is_numeric_or_literal(left) /\ is_numeric_or_literal(right)
  IN IF op \in Arithmetic
       THEN IF is_str(left) \/ is_str(right) THEN Typed(TyError, <<"E3001">>)
            ELSE IF ~numbers THEN Typed(TyError, <<"E0402">>)
            ELSE Typed(merge_numeric(left, right), << >>)
     ELSE IF op \in Comparison
       THEN Typed(Named("bool"), If(~compatible_loose(left, right), "E0402"))
     ELSE Typed(Named("bool"), If(~is_bool(left) \/ ~is_bool(right), "E0402"))

(* args: what expr_type says of the arguments.  It is asked of those of a  *)
(* call with as many as are expected, and of none of mem.alloc.            *)
call_type(callee, args) ==
  CASE callee = "io.write" ->
         Typed(Named("void"),
               If("syscall" \notin requires, "E2001")
                 \o IF Len(args) # 3 THEN <<"E0404">>
                    ELSE args[1].errs \o args[2].errs \o args[3].errs
                           \o If(~(/\ is_numeric_or_literal(args[1].ty)
                                   /\ is_str(args[2].ty)
                                   /\ is_numeric_or_literal(args[3].ty)), "E0402"))
    [] callee = "mem.alloc" ->
         Typed(Named("*u8"),
               If("heap" \notin requires, "E0801") \o If(unsafeDepth = 0, "E0701")
                 \o If(Len(args) # 1, "E0404"))
    [] callee \notin {"io.write", "mem.alloc"} /\ Has(functions, callee) ->
         LET sig == functions[callee]
         IN Typed(Named(sig.ret),
                  UnsafeCall(sig)
                    \o IF Len(sig.params) # Len(args) THEN <<"E0404">>
                       ELSE Seqs!FlattenSeq([i \in 1..Len(args) |->
                              args[i].errs \o require_type(sig.params[i], args[i].ty)]))
    [] OTHER -> Typed(TyError, <<"E0403">>)

(* Mutant: a function named without arguments may be unsafe. *)
ident_type_UnsafeAnywhere(name) ==
  IF Has(vars, name) THEN Typed(Named(vars[name].type), << >>)
  ELSE IF Has(functions, name)
         THEN Typed(Named(functions[name].ret), If(functions[name].params # << >>, "E0404"))
  ELSE Typed(TyError, <<"E0401">>)

(* A name is a variable first, then a function without parameters. *)
ident_type(name) ==
  IF Has(vars, name) THEN Typed(Named(vars[name].type), << >>)
  ELSE IF Has(functions, name)
         THEN Typed(Named(functions[name].ret),
                    If(functions[name].params # << >>, "E0404") \o UnsafeCall(functions[name]))
  ELSE Typed(TyError, <<"E0401">>)

unary_type(op, e) ==
  IF op = "Not" THEN Typed(Named("bool"), e.errs \o If(~is_bool(e.ty), "E0402"))
                ELSE Typed(e.ty, e.errs \o If(~is_numeric_or_literal(e.ty), "E0402"))

(* t is what expr_type says of the operands. *)
type_from(e, t) ==
  CASE e.k = "int" -> Typed(IntLiteral(e.value), << >>)
    [] e.k = "str" -> Typed(Named("str_static"), << >>)
    [] e.k = "bool" -> Typed(Named("bool"), << >>)
    [] e.k = "ident" -> ident_type(e.name)
    [] e.k = "path" -> Typed(TyError, <<"E0403">>)
    [] e.k = "unary" -> unary_type(e.op, t[e.expr])
    [] e.k = "call" -> call_type(e.callee, [i \in 1..Len(e.args) |-> t[e.args[i]]])
    [] e.k = "binary" ->
         LET both == binary_type(e.op, t[e.left].ty, t[e.right].ty)
         IN Typed(both.ty, t[e.left].errs \o t[e.right].errs \o both.errs)

expr_type[e \in Expressions] == type_from(e, [x \in Operands(e) |-> expr_type[x]])

RequireExpr(type, e) == LET t == expr_type[e] IN t.errs \o require_type(type, t.ty)
-----------------------------------------------------------------------------
(* The first pass over the items: the signatures, then main. *)
Header == items[item]

Report(codes) == diagnostics' = diagnostics \o codes

Signature(h) == [params |-> [i \in 1..Len(h.params) |-> h.params[i].type],
                 ret |-> h.ret, unsafe |-> h.unsafe]

RegisterFn ==
  /\ phase = "register" /\ item <= Len(items)
  /\ IF Has(functions, Header.name)
       THEN Report(<<"E4202">>) /\ UNCHANGED functions
       ELSE /\ functions' = With(functions, Header.name, Signature(Header))
            /\ Report(If(Header.unsafe /\ "unsafe" \notin requires, "E0801"))
  /\ item' = item + 1
  /\ UNCHANGED <<package, phase, program, vars, loopDepth, unsafeDepth, blocks>>

MainSignature == [params |-> << >>, ret |-> "i32", unsafe |-> FALSE]

(* Mutant: an executable without main is not refused. *)
CheckMain_Optional ==
  /\ phase = "register" /\ item > Len(items)
  /\ Report(If(Has(functions, "main") /\ functions["main"] # MainSignature, "E0902"))
  /\ phase' = "bodies" /\ item' = 1
  /\ UNCHANGED <<package, functions, program, vars, loopDepth, unsafeDepth, blocks>>

CheckMain ==
  /\ phase = "register" /\ item > Len(items)
  /\ Report(If(/\ package.type = "executable"
               /\ Has(functions, "main") => functions["main"] # MainSignature, "E0902"))
  /\ phase' = "bodies" /\ item' = 1
  /\ UNCHANGED <<package, functions, program, vars, loopDepth, unsafeDepth, blocks>>
-----------------------------------------------------------------------------
(* The second pass: the bodies. *)
InBody == phase = "bodies" /\ blocks # << >>
Block(k) == [k |-> k, returns |-> FALSE, then |-> FALSE]
Inner == blocks[Len(blocks)]
Outer == SubSeq(blocks, 1, Len(blocks) - 1)
WithInner(b) == Append(Outer, b)

Write(node) == program' = Append(program, node)

(* The writer stops at the bounds, but for the ends of the open blocks. *)
BodyLength == Len(program) - Ext!Max({i \in DOMAIN program : program[i].k = "fn"})
MayWrite == BodyLength + Len(blocks) <= Header.size /\ Len(diagnostics) < MaxErrors

FirstNamed(params, name) == CHOOSE i \in 1..Len(params) :
                              /\ params[i].name = name
                              /\ \A j \in 1..(i - 1) : params[j].name # name
ParamNames == {Header.params[i].name : i \in 1..Len(Header.params)}

FnNode(h) == [k |-> "fn", name |-> h.name, params |-> h.params,
              ret |-> h.ret, unsafe |-> h.unsafe]

(* check_fn: a repeated parameter is reported and its first one stays. *)
check_fn ==
  /\ phase = "bodies" /\ blocks = << >> /\ item <= Len(items)
  /\ vars' = [n \in ParamNames |->
               [type |-> Header.params[FirstNamed(Header.params, n)].type, mutable |-> FALSE]]
  /\ Report(Seqs!FlattenSeq([i \in 1..Len(Header.params) |->
               If(FirstNamed(Header.params, Header.params[i].name) # i, "E4202")]))
  /\ loopDepth' = 0
  /\ unsafeDepth' = IF Header.unsafe THEN 1 ELSE 0
  /\ blocks' = <<Block("fn")>>
  /\ Write(FnNode(Header))
  /\ UNCHANGED <<package, phase, item, functions>>

(* Mutant: a variable is declared before its initialiser is looked at. *)
declare_var_First(s) ==
  /\ s.k = "var"
  /\ IF Has(vars, s.name)
       THEN Report(<<"E4202">>) /\ UNCHANGED vars
       ELSE /\ Report(IF s.expr = [k |-> "ident", name |-> s.name] THEN << >>
                      ELSE RequireExpr(s.type, s.expr))
            /\ vars' = With(vars, s.name, [type |-> s.type, mutable |-> s.mutable])
  /\ UNCHANGED <<loopDepth, unsafeDepth, blocks>>

(* let and mut: a name declared before, anywhere in the function, is       *)
(* refused before its initialiser is looked at.                            *)
declare_var(s) ==
  /\ s.k = "var"
  /\ IF Has(vars, s.name)
       THEN Report(<<"E4202">>) /\ UNCHANGED vars
       ELSE /\ Report(RequireExpr(s.type, s.expr))
            /\ vars' = With(vars, s.name, [type |-> s.type, mutable |-> s.mutable])
  /\ UNCHANGED <<loopDepth, unsafeDepth, blocks>>

check_assign(s) ==
  /\ s.k = "assign"
  /\ Report(IF ~Has(vars, s.name) THEN <<"E0401">>
            ELSE If(~vars[s.name].mutable, "E4201") \o RequireExpr(vars[s.name].type, s.expr))
  /\ UNCHANGED <<vars, loopDepth, unsafeDepth, blocks>>

check_ret(s) ==
  /\ s.k = "ret"
  /\ Report(IF Header.ret = "void" THEN If(Has(s, "expr"), "E0402")
            ELSE IF Has(s, "expr") THEN RequireExpr(Header.ret, s.expr) ELSE <<"E0402">>)
  /\ blocks' = WithInner([Inner EXCEPT !.returns = TRUE])
  /\ UNCHANGED <<vars, loopDepth, unsafeDepth>>

check_expr_stmt(s) == /\ s.k = "expr"
                      /\ Report(expr_type[s.expr].errs)
                      /\ UNCHANGED <<vars, loopDepth, unsafeDepth, blocks>>

check_jump(s) ==
  /\ s.k \in {"break", "continue"}
  /\ Report(If(loopDepth = 0, IF s.k = "break" THEN "E0501" ELSE "E0502"))
  /\ UNCHANGED <<vars, loopDepth, unsafeDepth, blocks>>

(* if, while, loop and unsafe open a block; none of them opens a scope. *)
check_open(s) ==
  /\ s.k \in {"if", "while", "loop", "unsafe"}
  /\ Report(IF Has(s, "cond")
              THEN expr_type[s.cond].errs \o If(~is_bool(expr_type[s.cond].ty), "E4301")
              ELSE If(s.k = "unsafe" /\ "unsafe" \notin requires, "E0801"))
  /\ blocks' = Append(blocks, Block(s.k))
  /\ loopDepth' = IF s.k \in {"while", "loop"} THEN loopDepth + 1 ELSE loopDepth
  /\ unsafeDepth' = IF s.k = "unsafe" THEN unsafeDepth + 1 ELSE unsafeDepth
  /\ UNCHANGED vars

check_stmt ==
  /\ InBody /\ MayWrite
  /\ \E s \in Header.body :
       /\ Write(s)
       /\ \/ declare_var(s) \/ check_assign(s) \/ check_ret(s) \/ check_expr_stmt(s)
          \/ check_jump(s) \/ check_open(s)
  /\ UNCHANGED <<package, phase, item, functions>>

(* From the then block of an if to its else block. *)
ElseBlock ==
  /\ InBody /\ MayWrite /\ Inner.k = "if"
  /\ Write([k |-> "else"])
  /\ blocks' = WithInner([Block("else") EXCEPT !.then = Inner.returns])
  /\ UNCHANGED <<package, phase, item, functions, vars, loopDepth, unsafeDepth, diagnostics>>

(* stmt_returns: an if returns when it has an else and both blocks do; a   *)
(* loop, a while and an unsafe block never do.                             *)
stmt_returns == Inner.k = "else" /\ Inner.then /\ Inner.returns

EndBlock ==
  /\ InBody /\ Len(blocks) > 1
  /\ Write([k |-> "end"])
  /\ blocks' = [Outer EXCEPT ![Len(Outer)].returns = @ \/ stmt_returns]
  /\ loopDepth' = IF Inner.k \in {"while", "loop"} THEN loopDepth - 1 ELSE loopDepth
  /\ unsafeDepth' = IF Inner.k = "unsafe" THEN unsafeDepth - 1 ELSE unsafeDepth
  /\ UNCHANGED <<package, phase, item, functions, vars, diagnostics>>

(* The end of check_fn. *)
EndFn ==
  /\ InBody /\ Len(blocks) = 1
  /\ Write([k |-> "end"])
  /\ Report(If(Header.ret # "void" /\ ~Inner.returns, "E4101"))
  /\ blocks' = << >> /\ item' = item + 1
  /\ UNCHANGED <<package, phase, functions, vars, loopDepth, unsafeDepth>>

(* check_program returns; with a diagnostic the driver goes no further. *)
Checked ==
  /\ phase = "bodies" /\ blocks = << >> /\ item > Len(items)
  /\ phase' = "checked"
  /\ UNCHANGED <<package, item, functions, program, vars, loopDepth, unsafeDepth,
                 blocks, diagnostics>>

SemaInit ==
  /\ package \in Packages
  /\ phase = "register" /\ item = 1
  /\ functions = Nothing /\ program = << >> /\ vars = Nothing
  /\ loopDepth = 0 /\ unsafeDepth = 0 /\ blocks = << >> /\ diagnostics = << >>

SemaNext == \/ RegisterFn \/ CheckMain \/ check_fn \/ check_stmt
            \/ ElseBlock \/ EndBlock \/ EndFn \/ Checked

Accepted == phase = "checked" /\ diagnostics = << >>
-----------------------------------------------------------------------------
(* The counters of the check are the depths of the open blocks, whatever   *)
(* was reported, and outside the bodies no block is open.                  *)
SemaTypeOK ==
  /\ item \in 1..(Len(items) + 1)
  /\ blocks # << >> => phase = "bodies"
  /\ InBody => /\ loopDepth = Cardinality({i \in DOMAIN blocks : blocks[i].k \in {"loop", "while"}})
               /\ unsafeDepth = Cardinality({i \in DOMAIN blocks : blocks[i].k = "unsafe"})
                                   + IF Header.unsafe THEN 1 ELSE 0
=============================================================================
