------------------------------ MODULE ExprCode ------------------------------
(***************************************************************************)
(* The code generated for the expressions of one function (emit_expr and   *)
(* the handlers it dispatches to, emitter_expr.asm and                     *)
(* emitter/comparison.asm) together with what that code does when it runs. *)
(*                                                                         *)
(* The generator recurses over the tree of an expression and writes code   *)
(* that keeps its result in rax and everything it still needs on the stack.*)
(* The tree arrives node by node, chosen freely, in the order the generator*)
(* visits it; "frames" is the generator's recursion.  The code has no jumps*)
(* around pushes and pops, so it is run as it is written.  A machine word  *)
(* is known by the node whose value it is, Junk when it is not the value of*)
(* a node: an operator or a call applied to anything but the values of its *)
(* operands yields Junk.  Struct literals, which leave the value of their  *)
(* last field, and fields of anything but a variable are left out.         *)
(***************************************************************************)
EXTENDS Integers, Sequences

CONSTANTS
  ARG_REGS,  (* rdi, rsi, rdx, rcx, r8, r9: 6                              *)
  MaxNodes   (* bound on the nodes of the expressions of a function        *)

ASSUME ExprAssumption == ARG_REGS \in Nat \ {0} /\ MaxNodes \in Nat

VARIABLES
  frames,         (* handlers waiting for an operand                       *)
  phase,          (* "visit" a node, "return" to a handler, "pop", "failed" *)
  nodes,          (* nodes visited so far, also the name of the last       *)
  tmp_arg_count,
  rax,
  stack,          (* words pushed below the locals                         *)
  eaten,          (* words of locals the code has popped                   *)
  call,           (* the last call that ran                                *)
  result,         (* the node last returned                                *)
  matched         (* history, see Matched                                  *)

vars == <<frames, phase, nodes, tmp_arg_count, rax, stack, eaten, call, result, matched>>

Junk == 0
Words == 0 .. MaxNodes
Ops == {"operator", "call"}

(* The handlers that are no calls: how many operands each emits, with a    *)
(* push after every one but the last, and how many words the code it writes*)
(* after them pops.  io.write and io.read emit their last argument first.  *)
emit_unary                      == [operands |-> 1, pops |-> 0]
emit_deref                      == [operands |-> 1, pops |-> 0]
emit_one_arg_math_builtin       == [operands |-> 1, pops |-> 0]
emit_abs_builtin                == [operands |-> 1, pops |-> 0]
emit_bitcount_builtin           == [operands |-> 1, pops |-> 0]
emit_io_close_builtin           == [operands |-> 1, pops |-> 0]
emit_binary_expr                == [operands |-> 2, pops |-> 1]
emit_pow                        == [operands |-> 2, pops |-> 1]
emit_checked_arithmetic         == [operands |-> 2, pops |-> 1]
emit_comparison_expr            == [operands |-> 2, pops |-> 1]
emit_logical_expr               == [operands |-> 2, pops |-> 1]
emit_array_index                == [operands |-> 2, pops |-> 1]
emit_addr_of_element            == [operands |-> 2, pops |-> 1]
emit_two_arg_math_builtin       == [operands |-> 2, pops |-> 1]
emit_wrapping_pow_builtin       == [operands |-> 2, pops |-> 1]
emit_wrapping_div_mod_builtin   == [operands |-> 2, pops |-> 1]
emit_saturating_div_mod_builtin == [operands |-> 2, pops |-> 1]
emit_saturating_pow_builtin     == [operands |-> 2, pops |-> 1]
emit_io_open_builtin            == [operands |-> 2, pops |-> 1]
emit_clamp_builtin              == [operands |-> 3, pops |-> 2]
emit_io_write_builtin           == [operands |-> 3, pops |-> 2]
emit_io_read_builtin            == [operands |-> 3, pops |-> 2]

Handlers ==
  {emit_unary, emit_deref, emit_one_arg_math_builtin, emit_abs_builtin,
   emit_bitcount_builtin, emit_io_close_builtin, emit_binary_expr,
   emit_pow, emit_checked_arithmetic, emit_comparison_expr, emit_logical_expr, emit_array_index,
   emit_addr_of_element, emit_two_arg_math_builtin,
   emit_wrapping_pow_builtin, emit_wrapping_div_mod_builtin,
   emit_saturating_div_mod_builtin, emit_saturating_pow_builtin,
   emit_io_open_builtin, emit_clamp_builtin, emit_io_write_builtin,
   emit_io_read_builtin}

(* "arity" is the number of operands, "vals" the ones already emitted,     *)
(* "pops" the words the handler's code pops in the end.  For the           *)
(* properties, "base" is the height of the stack when the handler was      *)
(* entered and "nested" tells whether a call was met among its operands.   *)
Frame(op, arity, pops) ==
  [op |-> op, arity |-> arity, pops |-> pops, node |-> nodes + 1, vals |-> << >>,
   base |-> Len(stack), nested |-> FALSE]

Top == frames[Len(frames)]
Popped == SubSeq(frames, 1, Len(frames) - 1)

(* The arguments the source has and the ones the registers held; whether   *)
(* the first have calls in them.                                           *)
Call == [meant : Seq(Words), passed : Seq(Words), nested : BOOLEAN]
NoCall == [meant |-> << >>, passed |-> << >>, nested |-> FALSE]

Node == phase = "visit" /\ nodes < MaxNodes /\ nodes' = nodes + 1

-----------------------------------------------------------------------------
(* A literal, a local, or two literals folded into one: rax is loaded.     *)
emit_mov_rax_imm ==
  /\ Node
  /\ rax' = nodes + 1 /\ result' = nodes + 1 /\ phase' = "return"
  /\ UNCHANGED <<frames, tmp_arg_count, stack, eaten, call, matched>>

OpenOperator(h) ==
  /\ Node
  /\ frames' = Append(frames, Frame("operator", h.operands, h.pops))
  /\ UNCHANGED <<phase, tmp_arg_count, rax, stack, eaten, call, result, matched>>

(* The innermost call the next node is an operand of, 0 when there is none.*)
Enclosing ==
  LET calls == {i \in 1 .. Len(frames) : frames[i].op = "call"} IN
  IF calls = {} THEN 0 ELSE CHOOSE i \in calls : \A j \in calls : j <= i

(* A call among the arguments of another leaves its own count behind; the  *)
(* count is right for the outer call when both are the same.               *)
Matched(argc) == Enclosing = 0 \/ argc = Len(frames[Enclosing].vals)

CountAtCall_Kept == tmp_arg_count

CountAtCall == 0

OpenCall(argc) ==
  /\ Node
  /\ tmp_arg_count' = CountAtCall
  /\ matched' = (matched /\ Matched(argc))
  /\ frames' = Append([i \in 1 .. Len(frames) |-> [frames[i] EXCEPT !.nested = TRUE]],
                      Frame("call", argc, 0))
  /\ phase' = IF argc = 0 THEN "pop" ELSE "visit"
  /\ UNCHANGED <<rax, stack, eaten, call, result>>

-----------------------------------------------------------------------------
(* The handler goes on when its operand has been emitted.                  *)

Pushed == Append(stack, rax)

(* The value of the node when the words the code uses are the operands'.   *)
Value(f, used) == IF used = f.vals THEN f.node ELSE Junk

Done(f, used) ==
  /\ rax' = Value(f, used)
  /\ result' = f.node
  /\ frames' = Popped
  /\ phase' = "return"

Receive(f) == [f EXCEPT !.vals = Append(@, result)]

MoreOperands_OneMore(f) == Len(f.vals) <= f.arity

MoreOperands(f) == Len(f.vals) < f.arity

(* An operand that is not the last waits on the stack.                     *)
Operand ==
  /\ phase = "return" /\ frames # << >> /\ Top.op = "operator"
  /\ MoreOperands(Receive(Top))
  /\ stack' = Pushed
  /\ frames' = Append(Popped, Receive(Top))
  /\ phase' = "visit"
  /\ UNCHANGED <<nodes, tmp_arg_count, rax, eaten, call, result, matched>>

(* Where the words are popped from when the stack holds fewer than n.      *)
Word(i) == IF i \in 1 .. Len(stack) THEN stack[i] ELSE Junk

PopWords(n) ==
  IF n <= Len(stack)
  THEN stack' = SubSeq(stack, 1, Len(stack) - n) /\ UNCHANGED eaten
  ELSE stack' = << >> /\ eaten' = eaten + n - Len(stack)

(* The code of the operator finds its last operand in rax and pops the     *)
(* others.                                                                 *)
OperatorResult ==
  /\ phase = "return" /\ frames # << >> /\ Top.op = "operator"
  /\ ~MoreOperands(Receive(Top))
  /\ PopWords(Top.pops)
  /\ Done(Receive(Top), [k \in 1 .. Top.pops + 1 |->
                          IF k <= Top.pops THEN Word(Len(stack) - Top.pops + k) ELSE rax])
  /\ UNCHANGED <<nodes, tmp_arg_count, call, matched>>

(* An argument is pushed and counted.                                      *)
Argument ==
  /\ phase = "return" /\ frames # << >> /\ Top.op = "call"
  /\ stack' = Pushed
  /\ tmp_arg_count' = tmp_arg_count + 1
  /\ frames' = Append(Popped, Receive(Top))
  /\ phase' = IF MoreOperands(Receive(Top)) THEN "visit" ELSE "pop"
  /\ UNCHANGED <<nodes, rax, eaten, call, result, matched>>

Passed_Swapped(n, arity) == [k \in 1 .. arity |-> IF k <= n THEN Word(Len(stack) + 1 - k) ELSE Junk]

(* The counted words are popped, the last into the last register; registers*)
(* past them hold whatever they held.                                      *)
Passed(n, arity) == [k \in 1 .. arity |-> IF k <= n THEN Word(Len(stack) - n + k) ELSE Junk]

emit_fn_call_expr ==
  /\ phase = "pop"
  /\ IF tmp_arg_count > ARG_REGS
     THEN /\ phase' = "failed"
          /\ UNCHANGED <<frames, rax, stack, eaten, call, result>>
     ELSE LET passed == Passed(tmp_arg_count, Top.arity) IN
          /\ PopWords(tmp_arg_count)
          /\ call' = [meant |-> Top.vals, passed |-> passed, nested |-> Top.nested]
          /\ Done(Top, passed)
  /\ UNCHANGED <<nodes, tmp_arg_count, matched>>

(* The statement takes rax; the next one begins with the stack as it is.   *)
NextExpr ==
  /\ phase = "return" /\ frames = << >>
  /\ phase' = "visit"
  /\ UNCHANGED <<frames, nodes, tmp_arg_count, rax, stack, eaten, call, result, matched>>

-----------------------------------------------------------------------------
Init ==
  /\ frames = << >> /\ phase = "visit" /\ nodes = 0 /\ tmp_arg_count = 0
  /\ rax = Junk /\ stack = << >> /\ eaten = 0
  /\ call = NoCall /\ result = 0 /\ matched = TRUE

Next ==
  \/ emit_mov_rax_imm
  \/ \E h \in Handlers : OpenOperator(h)
  \/ \E argc \in 0 .. ARG_REGS : OpenCall(argc)
  \/ Operand
  \/ OperatorResult
  \/ Argument
  \/ emit_fn_call_expr
  \/ NextExpr

Spec == Init /\ [][Next]_vars

-----------------------------------------------------------------------------
Frames ==
  [op : Ops, arity : Nat, pops : Nat, node : Words, vals : Seq(Words), base : Nat, nested : BOOLEAN]

(* Types; and no handler is given an operand its node does not have.       *)
ExprTypeOK ==
  /\ frames \in Seq(Frames)
  /\ \A i \in 1 .. Len(frames) : Len(frames[i].vals) <= frames[i].arity
  /\ phase \in {"visit", "return"} /\ frames # << >> => Len(Top.vals) < Top.arity
  /\ phase \in {"visit", "return", "pop", "failed"}
  /\ {nodes, rax, result} \subseteq Words
  /\ tmp_arg_count \in Nat /\ eaten \in Nat
  /\ stack \in Seq(Words)
  /\ call \in Call
  /\ matched \in BOOLEAN

(* Where the operands that handler i has pushed end.                       *)
Height(i) == frames[i].base + Len(frames[i].vals)

(* The operands of handler i, and nothing else until the next handler's.   *)
OperandsInPlace(i) ==
  /\ Height(i) = IF i = Len(frames) THEN Len(stack) ELSE frames[i + 1].base
  /\ Height(i) <= Len(stack)
  /\ \A k \in 1 .. Len(frames[i].vals) : stack[frames[i].base + k] = frames[i].vals[k]

(* The generated code computes the expression: wherever the generator is in*)
(* its recursion, the stack holds exactly the operands its waiting handlers*)
(* have pushed, no local has been touched, and a finished node leaves its  *)
(* value in rax.  This is so as long as every call among the arguments of  *)
(* another happens to have as many arguments as stand before it there.     *)
CodeComputesValue ==
  matched =>
    /\ frames = << >> => stack = << >>
    /\ frames # << >> => frames[1].base = 0
    /\ \A i \in 1 .. Len(frames) : OperandsInPlace(i)
    /\ eaten = 0
    /\ call.passed = call.meant
    /\ phase = "return" => rax = result
    /\ phase # "failed"

(* A call with no call among its arguments passes them in order, even where*)
(* the code around it has gone wrong.                                      *)
InnermostCallsRight == ~call.nested => call.passed = call.meant

(* "Integer argument registers in order" (docs/hardware/                   *)
(* intel_register_discipline.sfile), and an argument is any expression     *)
(* (docs/syntax_grammar.ebnf): every call passes the values of its own     *)
(* arguments.                                                              *)
CallsPassTheirArguments == call.passed = call.meant
=============================================================================
