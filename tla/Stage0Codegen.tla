---------------------------- MODULE Stage0Codegen ----------------------------
(***************************************************************************)
(* The code generator of the Rust stage-0 compiler                         *)
(* (src/prototypes/rust_stage0/src/codegen.rs).  It walks the nodes of a   *)
(* program the semantic check accepted and appends lines of assembly.  A   *)
(* line is [op, arg, of, fn]: what it does, with what, the node and the    *)
(* function it was emitted for.  A few lines that belong together, such as *)
(* a comparison with zero and the jump on its result, are one line here.   *)
(***************************************************************************)
EXTENDS Stage0Sema

CONSTANT Regs  \* the registers of the arguments: rdi, rsi, rdx, rcx, r8, r9

ASSUME GenAssumption == Regs \in Seq({Regs[i] : i \in DOMAIN Regs})

VARIABLES gen,      \* the node to emit next
          env,      \* FnEnv.locals: the slot below rbp of each name
          labels,   \* the open blocks with their labels
          labelId,  \* Codegen.label_id
          code      \* Codegen.asm

genVars == <<gen, env, labels, labelId, code>>

Node == program[gen]
Line(op, arg) == <<op, arg>>
LastFn(i) == Ext!Max({j \in 1..i : program[j].k = "fn"})
FnOf(i) == program[LastFn(i)]

(* Lines emitted for the node that is walked over. *)
Emit(lines) ==
  code' = code \o [i \in 1..Len(lines) |->
                    [op |-> lines[i][1], arg |-> lines[i][2], of |-> gen, fn |-> FnOf(gen).name]]
-----------------------------------------------------------------------------
(* The lines of an expression: its value is left in rax. *)
Pushed(lines) == lines \o <<Line("push", "rax")>>

(* The arguments, of which args are the lines, are on the stack, the last  *)
(* one on top.                                                             *)
emit_call(callee, args) ==
  Seqs!FlattenSeq([i \in 1..Len(args) |-> Pushed(args[i])])
    \o IF callee = "io.write"
         THEN <<Line("pop", "rdx"), Line("pop", "rsi"), Line("pop", "rdi"),
                Line("write", ""), Line("imm", 0)>>
         ELSE LET idx(i) == Len(args) + 1 - i
              IN Seqs!FlattenSeq([i \in 1..Len(args) |->
                    IF idx(i) <= Len(Regs) THEN <<Line("pop", Regs[idx(i)])>> ELSE << >>])
                   \o <<Line("call", callee)>>

(* A name is one of the function's slots first, then a function. *)
emit_ident(name) == CASE Has(env, name) -> Line("load", env[name])
                      [] ~Has(env, name) /\ Has(functions, name) -> Line("call", name)
                      [] OTHER -> Line("imm", 0)

(* The line of an operator: arithmetic, or a comparison with its set. *)
operation(op) ==
  CASE op = "Add" -> Line("alu", "add") [] op = "Sub" -> Line("alu", "sub")
    [] op = "Mul" -> Line("alu", "imul")
    [] op = "Div" -> Line("idiv", "rax") [] op = "Mod" -> Line("idiv", "rdx")
    [] op = "Eq" -> Line("cmp", "sete") [] op = "NotEq" -> Line("cmp", "setne")
    [] op = "Lt" -> Line("cmp", "setl") [] op = "LtEq" -> Line("cmp", "setle")
    [] op = "Gt" -> Line("cmp", "setg") [] op = "GtEq" -> Line("cmp", "setge")
    [] op = "And" -> Line("alu", "and") [] op = "Or" -> Line("alu", "or")

(* code_of: the lines of the operands. *)
emit_from(e, code_of) ==
  CASE e.k = "int" -> <<Line("imm", e.value)>>
    [] e.k = "bool" -> <<Line("flag", e.value)>>
    [] e.k = "str" -> <<Line("lea", "string")>>
    [] e.k = "ident" -> <<emit_ident(e.name)>>
    [] e.k = "path" -> <<Line("imm", 0)>>
    [] e.k = "unary" -> code_of[e.expr] \o <<Line(IF e.op = "Neg" THEN "neg" ELSE "not", "rax")>>
    [] e.k = "call" -> emit_call(e.callee, [i \in 1..Len(e.args) |-> code_of[e.args[i]]])
    [] e.k = "binary" -> Pushed(code_of[e.left]) \o code_of[e.right]
                           \o <<Line("mov rbx", "rax"), Line("pop", "rax"), operation(e.op)>>

emit_expr[e \in Expressions] == emit_from(e, [x \in Operands(e) |-> emit_expr[x]])
-----------------------------------------------------------------------------
Emitting == phase = "emit" /\ gen <= Len(program)
Step == gen' = gen + 1 /\ UNCHANGED semaVars

(* Codegen::emit up to the functions: the start of the program. *)
StartEmit ==
  /\ Accepted
  /\ phase' = "emit" /\ gen' = 1
  /\ code' = [i \in 1..2 |-> [op |-> <<"call", "exit">>[i], arg |-> <<"main", "rax">>[i],
                              of |-> 0, fn |-> "_start"]]
  /\ UNCHANGED <<package, item, functions, program, vars, loopDepth, unsafeDepth, blocks,
                 diagnostics, env, labels, labelId>>

(* collect_locals: the parameters, then every let and mut of the body in   *)
(* its order, each name once; a name of a block stays the function's.  A   *)
(* name is declared at a place, the parameters before the body.            *)
collect_locals(i) ==
  LET params == program[i].params
      body == {j \in (i + 1)..Len(program) : program[j].k = "var" /\ LastFn(j) = i}
      declared == {<<params[p].name, p - Len(params)>> : p \in 1..Len(params)}
                    \cup {<<program[j].name, j>> : j \in body}
      names == {d[1] : d \in declared}
      first == [n \in names |-> Ext!Min({d[2] : d \in {c \in declared : c[1] = n}})]
  IN [n \in names |-> Cardinality({m \in names : first[m] <= first[n]})]

align16(words) == IF words % 2 = 0 THEN words ELSE words + 1

Label(prefix, id) == <<prefix, id>>

emit_fn ==
  /\ Emitting /\ Node.k = "fn"
  /\ env' = collect_locals(gen)
  /\ labelId' = labelId + 1
  /\ labels' = <<[k |-> "fn", end |-> Label("fn_end", labelId)]>>
  /\ Emit(<<Line("label", Label("fn", Node.name)), Line("enter", align16(Cardinality(DOMAIN env')))>>
            \o [i \in 1..(IF Len(Node.params) <= Len(Regs) THEN Len(Node.params) ELSE Len(Regs)) |->
                 Line("spill", [slot |-> env'[Node.params[i].name], reg |-> Regs[i]])])
  /\ Step

(* let, mut and the assignment. *)
EmitStore ==
  /\ Emitting /\ Node.k \in {"var", "assign"}
  /\ Emit(emit_expr[Node.expr] \o <<Line("store", env[Node.name])>>)
  /\ Step /\ UNCHANGED <<env, labels, labelId>>

(* Mutant: a ret returns at once, from the frame as it is. *)
EmitRet_AtOnce ==
  /\ Emitting /\ Node.k = "ret"
  /\ Emit((IF Has(Node, "expr") THEN emit_expr[Node.expr] ELSE <<Line("imm", 0)>>)
            \o <<Line("ret", "")>>)
  /\ Step /\ UNCHANGED <<env, labels, labelId>>

EmitRet ==
  /\ Emitting /\ Node.k = "ret"
  /\ Emit((IF Has(Node, "expr") THEN emit_expr[Node.expr] ELSE <<Line("imm", 0)>>)
            \o <<Line("jmp", labels[1].end)>>)
  /\ Step /\ UNCHANGED <<env, labels, labelId>>

EmitExprStmt ==
  /\ Emitting /\ Node.k = "expr"
  /\ Emit(emit_expr[Node.expr])
  /\ Step /\ UNCHANGED <<env, labels, labelId>>

(* The balance of openings and ends between two nodes of a function. *)
Opening == {"if", "while", "loop", "unsafe"}
Depth(i, j) == Cardinality({h \in i..j : program[h].k \in Opening})
                 - Cardinality({h \in i..j : program[h].k = "end"})
HasElse(i) == \E j \in (i + 1)..Len(program) :
                /\ program[j].k = "else"
                /\ \A h \in i..(j - 1) : Depth(i, h) >= 1
                /\ Depth(i, j) = 1

OpenLabels(k) == labels' = Append(labels, [k |-> k, start |-> Label(k, labelId),
                                           end |-> Label(k, labelId + 1)])

EmitIf ==
  /\ Emitting /\ Node.k = "if"
  /\ labelId' = labelId + 2
  /\ OpenLabels("if")
  /\ Emit(emit_expr[Node.cond]
            \o <<Line("je", Label("if", IF HasElse(gen) THEN labelId ELSE labelId + 1))>>)
  /\ Step /\ UNCHANGED env

(* The labels of the innermost block. *)
Top == labels[Len(labels)]
Below == SubSeq(labels, 1, Len(labels) - 1)

EmitElse ==
  /\ Emitting /\ Node.k = "else"
  /\ labels' = Append(Below, [Top EXCEPT !.k = "else"])
  /\ Emit(<<Line("jmp", Top.end), Line("label", Top.start)>>)
  /\ Step /\ UNCHANGED <<env, labelId>>

EmitLoop ==
  /\ Emitting /\ Node.k \in {"loop", "while"}
  /\ labelId' = labelId + 2
  /\ OpenLabels(Node.k)
  /\ Emit(<<Line("label", Label(Node.k, labelId))>>
            \o IF Node.k = "loop" THEN << >>
               ELSE emit_expr[Node.cond] \o <<Line("je", Label("while", labelId + 1))>>)
  /\ Step /\ UNCHANGED env

(* Mutant: an unsafe block is walked over, and its end ends another block. *)
EmitUnsafe_NoBlock ==
  /\ Emitting /\ Node.k = "unsafe"
  /\ Step /\ UNCHANGED <<env, labels, labelId, code>>

EmitUnsafe ==
  /\ Emitting /\ Node.k = "unsafe"
  /\ labels' = Append(labels, [k |-> "unsafe"])
  /\ Step /\ UNCHANGED <<env, labelId, code>>

(* Mutant: break and continue take the outermost loop. *)
EmitJump_Outermost ==
  /\ Emitting /\ Node.k \in {"break", "continue"}
  /\ LET loops == {i \in DOMAIN labels : labels[i].k \in {"loop", "while"}}
         outer == labels[Ext!Min(loops)]
     IN Emit(<<Line("jmp", IF Node.k = "break" THEN outer.end ELSE outer.start)>>)
  /\ Step /\ UNCHANGED <<env, labels, labelId>>

(* The innermost loop is the last one of break_labels and continue_labels. *)
EmitJump ==
  /\ Emitting /\ Node.k \in {"break", "continue"}
  /\ LET loops == {i \in DOMAIN labels : labels[i].k \in {"loop", "while"}}
         inner == labels[Ext!Max(loops)]
     IN Emit(IF loops = {} THEN << >>
             ELSE <<Line("jmp", IF Node.k = "break" THEN inner.end ELSE inner.start)>>)
  /\ Step /\ UNCHANGED <<env, labels, labelId>>

EmitEnd ==
  /\ Emitting /\ Node.k = "end"
  /\ Emit(CASE Top.k = "if" -> <<Line("jmp", Top.end), Line("label", Top.end)>>
            [] Top.k = "else" -> <<Line("label", Top.end)>>
            [] Top.k \in {"loop", "while"} -> <<Line("jmp", Top.start), Line("label", Top.end)>>
            [] Top.k = "unsafe" -> << >>
            [] Top.k = "fn" -> (IF FnOf(gen).ret = "void" THEN <<Line("imm", 0)>> ELSE << >>)
                                 \o <<Line("label", Top.end), Line("leave", ""), Line("ret", "")>>)
  /\ labels' = Below
  /\ Step /\ UNCHANGED <<env, labelId>>

(* The if with an else emits its jump over the else block after the then   *)
(* block (EmitElse), the one without it at its end.                        *)

GenInit == gen = 0 /\ env = Nothing /\ labels = << >> /\ labelId = 0 /\ code = << >>

GenNext == \/ StartEmit \/ emit_fn \/ EmitStore \/ EmitRet \/ EmitExprStmt \/ EmitIf
           \/ EmitElse \/ EmitLoop \/ EmitUnsafe \/ EmitJump \/ EmitEnd
-----------------------------------------------------------------------------
(* The check and the generator follow the same blocks: the counters of the *)
(* check are their depths, and when the program was accepted, the labels   *)
(* of the generator are used up where a function starts and at the end,    *)
(* and nowhere else, a jump finds its loop and an else its if.             *)
GenTypeOK ==
  /\ SemaTypeOK
  /\ phase = "emit" =>
       /\ gen \in 1..(Len(program) + 1)
       /\ labels = << >> <=> (gen > Len(program) \/ Node.k = "fn")
       /\ gen <= Len(program) =>
            /\ Node.k \in {"break", "continue"} =>
                 \E i \in DOMAIN labels : labels[i].k \in {"loop", "while"}
            /\ Node.k = "else" => Top.k = "if"
=============================================================================
