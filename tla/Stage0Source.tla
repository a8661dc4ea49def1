----------------------------- MODULE Stage0Source -----------------------------
(***************************************************************************)
(* What the program the Rust stage-0 compiler accepted promises to do: the *)
(* statements of main run in the order they are written, a name is the     *)
(* variable declared above it or else a function, operands are evaluated   *)
(* from left to right and all of them, and words wrap.  One step is one    *)
(* statement.  The other functions are a single ret, whose value a call    *)
(* is.  A variable holds zero until its declaration has run.               *)
(***************************************************************************)
EXTENDS Sequences, FiniteSets, Words
LOCAL INSTANCE FiniteSetsExt  \* Min, Max

VARIABLES prog,    \* the nodes, a block from its opening node to its "end"
          at,      \* the statement of main to run next; 0 when it has exited
          env,     \* the values of main's variables
          result   \* "none", the "value" of a ret, the "exit" status, a "trap"

vars == <<prog, at, env, result>>

NoResult == [k |-> "none", v |-> 0]
-----------------------------------------------------------------------------
(* The shape of the program. *)
Opens(k) == k \in {"fn", "if", "while", "loop", "unsafe"}
Level(p, i, j) == Cardinality({h \in i..j : Opens(p[h].k)})
                    - Cardinality({h \in i..j : p[h].k = "end"})
EndOf(p, i) == Min({j \in i..Len(p) : Level(p, i, j) = 0})
FnAt(p, name) == CHOOSE i \in DOMAIN p : p[i].k = "fn" /\ p[i].name = name
MainFn(p) == FnAt(p, "main")
MainEnd(p) == EndOf(p, MainFn(p))
ElseOf(p, i) == {j \in i..EndOf(p, i) : p[j].k = "else" /\ Level(p, i, j) = 1}

(* The block a node is in: the opening node of the innermost one. *)
Around(p, i) == Max({j \in 1..(i - 1) : Opens(p[j].k) /\ EndOf(p, j) >= i})
LoopsAround(p, i) == {j \in 1..(i - 1) : p[j].k \in {"while", "loop"} /\ EndOf(p, j) > i}

(* Nothing happens at the opening of a loop or of an unsafe block, nor at  *)
(* the end of an unsafe block or of an else.                               *)
Silent(p, i) == \/ p[i].k \in {"loop", "unsafe"}
                \/ /\ p[i].k = "end"
                   /\ p[Around(p, i)].k = "unsafe" \/ ElseOf(p, Around(p, i)) # {}
Land(p, i) == Min({j \in i..Len(p) : ~Silent(p, j)})
-----------------------------------------------------------------------------
(* Values: a word that was computed, or a trap on the way. *)
Value(n) == [ok |-> TRUE, v |-> n]
Trap == [ok |-> FALSE, v |-> 0]

Apply(op, a, b) ==
  CASE op = "Add" -> Value(Wrap(a + b))
    [] op = "Sub" -> Value(Wrap(a - b))
    [] op = "Mul" -> Value(Wrap(a * b))
    [] op \in {"Div", "Mod"} /\ DivisionTraps(a, b) -> Trap
    [] op = "Div" -> Value(Quotient(a, b))
    [] op = "Mod" -> Value(Remainder(a, b))
    [] op = "Eq" -> Value(Bit(a = b))
    [] op = "NotEq" -> Value(Bit(a # b))
    [] op = "Lt" -> Value(Bit(a < b))
    [] op = "LtEq" -> Value(Bit(a <= b))
    [] op = "Gt" -> Value(Bit(a > b))
    [] op = "GtEq" -> Value(Bit(a >= b))
    [] op = "And" -> Value(Bit(a = 1 /\ b = 1))
    [] op = "Or" -> Value(Bit(a = 1 \/ b = 1))

RECURSIVE Eval(_, _)

CallValue(name, args) ==
  LET f == prog[FnAt(prog, name)]
      body == prog[FnAt(prog, name) + 1]
  IN IF body.k = "ret" /\ "expr" \in DOMAIN body
       THEN Eval(body.expr, [n \in {f.params[i].name : i \in 1..Len(args)} |->
                  args[CHOOSE i \in 1..Len(args) : f.params[i].name = n].v])
       ELSE Value(0)

Eval(e, scope) ==
  CASE e.k = "int" -> Value(e.value)
    [] e.k = "bool" -> Value(Bit(e.value))
    [] e.k = "str" -> Value(0)  \* an address
    [] e.k = "ident" -> IF e.name \in DOMAIN scope THEN Value(scope[e.name])
                                                    ELSE CallValue(e.name, << >>)
    [] e.k = "unary" ->
         LET a == Eval(e.expr, scope)
         IN IF ~a.ok THEN Trap ELSE Value(IF e.op = "Neg" THEN Wrap(-a.v) ELSE Bit(a.v = 0))
    [] e.k = "binary" ->
         LET a == Eval(e.left, scope)
             b == Eval(e.right, scope)
         IN IF a.ok /\ b.ok THEN Apply(e.op, a.v, b.v) ELSE Trap
    [] e.k = "call" ->
         LET args == [i \in 1..Len(e.args) |-> Eval(e.args[i], scope)]
         IN IF \E i \in 1..Len(args) : ~args[i].ok THEN Trap
            ELSE IF e.callee = "io.write" THEN Value(0) ELSE CallValue(e.callee, args)
-----------------------------------------------------------------------------
Names(p) == {p[i].name : i \in {j \in MainFn(p)..MainEnd(p) : p[j].k = "var"}}

(* The variables declared above the statement that runs. *)
Scope == [n \in {m \in Names(prog) : \E i \in MainFn(prog)..(at - 1) :
                                       prog[i].k = "var" /\ prog[i].name = m} |-> env[n]]

Statement == prog[at]
Running == prog # << >> /\ at # 0 /\ result = NoResult
Now(e) == Eval(e, Scope)
GoTo(i) == at' = Land(prog, i) /\ UNCHANGED <<prog, result>>

Load == /\ prog = << >> /\ prog' # << >>
        /\ at' = Land(prog', MainFn(prog') + 1)
        /\ env' = [n \in Names(prog') |-> 0]
        /\ result' = NoResult

Store == /\ Running /\ Statement.k \in {"var", "assign"}
         /\ Now(Statement.expr).ok
         /\ env' = [env EXCEPT ![Statement.name] = Now(Statement.expr).v]
         /\ GoTo(at + 1)

Branch == /\ Running /\ Statement.k \in {"if", "while"}
          /\ Now(Statement.cond).ok
          /\ GoTo(IF Now(Statement.cond).v # 0 THEN at + 1
                  ELSE IF ElseOf(prog, at) # {} THEN Min(ElseOf(prog, at)) + 1
                  ELSE EndOf(prog, at) + 1)
          /\ UNCHANGED env

(* A block has run: the then block skips the else, a loop starts again. *)
Leave == /\ Running /\ Statement.k \in {"else", "end"} /\ at # MainEnd(prog)
         /\ LET block == Around(prog, at)
            IN GoTo(IF prog[block].k \in {"while", "loop"} THEN block
                    ELSE EndOf(prog, block) + 1)
         /\ UNCHANGED env

Jump == /\ Running /\ Statement.k \in {"break", "continue"}
        /\ LET loop == Max(LoopsAround(prog, at))
           IN GoTo(IF Statement.k = "break" THEN EndOf(prog, loop) + 1 ELSE loop)
        /\ UNCHANGED env

Evaluate == /\ Running /\ Statement.k = "expr"
            /\ Now(Statement.expr).ok
            /\ GoTo(at + 1)
            /\ UNCHANGED env

Ret == /\ Running /\ Statement.k = "ret"
       /\ Now(Statement.expr).ok
       /\ result' = [k |-> "value", v |-> Now(Statement.expr).v]
       /\ at' = MainEnd(prog)
       /\ UNCHANGED <<prog, env>>

Fails == /\ Running
         /\ \/ Statement.k \in {"var", "assign", "expr", "ret"} /\ ~Now(Statement.expr).ok
            \/ Statement.k \in {"if", "while"} /\ ~Now(Statement.cond).ok
         /\ result' = [k |-> "trap", v |-> 0]
         /\ UNCHANGED <<prog, at, env>>

Exit == /\ at # 0 /\ result.k = "value"
        /\ result' = [k |-> "exit", v |-> Low(result.v)]
        /\ at' = 0
        /\ UNCHANGED <<prog, env>>

Init == prog = << >> /\ at = 0 /\ env = << >> /\ result = NoResult
Next == Load \/ Store \/ Branch \/ Leave \/ Jump \/ Evaluate \/ Ret \/ Fails \/ Exit
Spec == Init /\ [][Next]_vars
=============================================================================
