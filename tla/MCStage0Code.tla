----------------------------- MODULE MCStage0Code -----------------------------
(* Model-checking instance of the back half of the stage-0 compiler: a     *)
(* package for each group of constructs.  Words have four bits and the     *)
(* integer types are scaled with them; two registers carry arguments.      *)
EXTENDS Stage0Correctness, TLC

MCLargest == ("i8" :> 1) @@ ("u8" :> 3) @@ ("i32" :> 7)
MCRegs == <<"rdi", "rsi">>

int(n) == [k |-> "int", value |-> n]
yes == [k |-> "bool", value |-> TRUE]
str == [k |-> "str"]
id(n) == [k |-> "ident", name |-> n]
bin(op, a, b) == [k |-> "binary", op |-> op, left |-> a, right |-> b]
un(op, a) == [k |-> "unary", op |-> op, expr |-> a]
call(f, args) == [k |-> "call", callee |-> f, args |-> args]

let(n, type, e) == [k |-> "var", mutable |-> FALSE, name |-> n, type |-> type, expr |-> e]
mut(n, type, e) == [k |-> "var", mutable |-> TRUE, name |-> n, type |-> type, expr |-> e]
set(n, e) == [k |-> "assign", name |-> n, expr |-> e]
ret(e) == [k |-> "ret", expr |-> e]
do(e) == [k |-> "expr", expr |-> e]
block(k) == [k |-> k]
when(k, e) == [k |-> k, cond |-> e]

param(n, type) == [name |-> n, type |-> type]
fn(n, params, r, body) == [name |-> n, params |-> params, ret |-> r, unsafe |-> FALSE,
                           body |-> body, size |-> 1]
main(size, body) == [fn("main", << >>, "i32", body) EXCEPT !.size = size]
package_(requires_, items_) == [type |-> "executable", requires |-> requires_, items |-> items_]

x == id("x")
y == id("y")

(* Arithmetic: the order of operands, nested calls, division. *)
two == fn("two", <<param("a", "i32"), param("b", "i32")>>, "i32",
          {ret(bin("Sub", id("a"), id("b")))})
seven == fn("seven", << >>, "i32", {ret(int(7))})
Exprs == {bin(op, bin("Add", x, int(3)), bin("Sub", int(1), x)) : op \in Arithmetic}
           \cup {call("two", <<x, call("two", <<int(1), id("seven")>>)>>),
                 bin("Mul", un("Neg", call("two", <<int(2), x>>)), id("seven"))}
Conds == {bin(op, x, int(2)) : op \in Comparison}
           \cup {bin("And", yes, un("Not", bin("Lt", x, int(1)))), bin("Or", yes, yes)}
Numbers == package_({"none"}, <<seven, two,
              main(3, {mut("x", "i32", int(1)), mut("x", "i32", int(5)), mut("x", "i32", un("Neg", int(6)))}
                     \cup {ret(e) : e \in Exprs} \cup {set("x", e) : e \in Exprs})>>)

(* Control: nested blocks, jumps out of them, returns on every path. *)
Control == package_({}, <<main(7, {mut("x", "i32", int(1)), when("while", bin("LtEq", x, int(1))),
                               when("if", bin("NotEq", x, int(2))), block("loop"),
                               block("break"), block("continue"),
                               set("x", bin("Add", x, int(1))), ret(x)})>>)
Comparisons == package_({}, <<main(5, {let("x", "i32", int(2)), let("x", "i8", int(1)), ret(int(0)),
                                   let("y", "bool", bin("Eq", x, x)), when("if", y)}
                                     \cup {when("if", c) : c \in Conds})>>)

(* Names and types: what is accepted, and what of it holds when it runs. *)
Names == package_({}, <<main(6, {mut("x", "bool", yes), mut("y", "u8", int(3)), let("y", "i32", y), let("x", "i8", y),
                             let("y", "i32", x), set("y", bin("Add", y, int(9))), set("x", int(1)),
                             when("if", x), when("if", un("Not", yes)), block("unsafe"), ret(y), ret(int(0)), ret(id("z"))}),
                       fn("id", <<param("a", "bool")>>, "bool", {ret(id("a"))})>>)

(* Strings, system calls and capabilities. *)
write == call("io.write", <<int(1), str, int(2)>>)
risky == [fn("risky", << >>, "i32", {ret(int(1)), do(write)}) EXCEPT !.unsafe = TRUE]
Uses_ == {do(write), do(call("io.write", <<int(1)>>)), do(call("mem.alloc", <<int(1)>>)),
          do(id("risky")), do(call("risky", << >>)), block("unsafe"), ret(int(0)),
          let("x", "str_static", str)}
Capable == {package_(r, <<risky, main(5, Uses_)>>) :
              r \in {{"syscall"}, {"unsafe"}, {"syscall", "unsafe", "heap"}}}
Library == [package_({}, <<fn("lib", << >>, "void", {block("ret"), let("x", "i32", int(1))})>>)
             EXCEPT !.type = "library"]

(* The headers. *)
Broken == {package_({}, h) : h \in {<<seven>>, <<two, two, main(1, {ret(int(0))})>>,
             <<fn("main", <<param("a", "i32"), param("a", "i32")>>, "i32", {ret(id("a"))})>>}}

(* A variable of main with the name of a function. *)
MCClash == {package_({}, <<seven, main(3, {let("x", "i32", id("seven")),
                                           let("seven", "i32", int(1)), ret(x)})>>)}

(* A library may have a main, unsafe or not, which its start calls. *)
Started == [package_({"unsafe"}, <<[main(1, {ret(int(0))}) EXCEPT !.unsafe = TRUE]>>)
              EXCEPT !.type = "library"]

(* A function with a name nasm takes for a register. *)
MCReserved == {"rax", "_start"}
Register == package_({}, <<fn("rax", << >>, "i32", {ret(int(1))}), main(1, {ret(id("rax"))})>>)

(* What is read before it is written, also by a function that is not main: *)
(* variables of blocks that were left or not entered, names of functions   *)
(* that are variables further down, a parameter without a register.        *)
pick == fn("pick", <<param("a", "bool")>>, "i32",
           {when("if", id("a")), when("while", id("a")), block("loop"), block("break"),
            let("x", "i32", id("seven")), let("seven", "i32", int(1)), ret(x)})
Blocks == package_({}, <<seven, [pick EXCEPT !.size = 6],
                         main(1, {ret(call("pick", <<bin("Eq", int(0), int(1))>>)),
                                  ret(call("pick", <<yes>>))})>>)
third == fn("third", <<param("a", "i32"), param("b", "i32"), param("c", "i32")>>, "i32",
            {ret(id("c"))})
Spilled == package_({}, <<third, main(1, {ret(call("third", <<int(1), int(2), int(3)>>))})>>)

MCPackages == {Started, Numbers, Control, Comparisons, Names, Library, Register, Blocks, Spilled}
                \cup Capable \cup Broken \cup MCClash

(* The expressions of all of them, with their operands. *)
RECURSIVE Closure(_), HeightOf(_)
Closure(S) == LET next == S \cup UNION {Operands(e) : e \in S}
              IN IF next = S THEN S ELSE Closure(next)
HeightOf(e) == IF Operands(e) = {} THEN 0 ELSE 1 + Ext!Max({HeightOf(o) : o \in Operands(e)})

Written == UNION {UNION {h.body : h \in {p.items[i] : i \in DOMAIN p.items}}
                    : p \in MCPackages}
MCExpressions == Closure({s.expr : s \in {n \in Written : Has(n, "expr")}}
                           \cup {s.cond : s \in {n \in Written : Has(n, "cond")}})
MCHeight == [e \in MCExpressions |-> HeightOf(e)]
=============================================================================
