----------------------------- MODULE Stage0Machine -----------------------------
(***************************************************************************)
(* The code of Stage0Codegen assembled, linked and run.  The processor,    *)
(* nasm and ld are not in the repository: they are modelled as far as the  *)
(* emitted lines use them.  A value is [t, v]: what kind of thing it is    *)
(* and the word itself; the kind is not in the machine, it lets properties *)
(* tell an integer from a return address.  Memory is a stack of words.     *)
(***************************************************************************)
EXTENDS Stage0Codegen, Words

CONSTANTS Memory,   \* the words of the stack, a bound on it
          Reserved  \* the names nasm takes for itself: registers, instructions and
                    \* directives; and _start, which the code defines already

ASSUME MachineAssumption == Memory \in Nat

VARIABLES pc, regs, mem,
          rsp, rbp,  \* as indexes of mem; the stack grows down from Memory
          calls      \* history: the return addresses of the calls under way

machineVars == <<pc, regs, mem, rsp, rbp, calls>>
compilerVars == <<package, item, functions, program, vars, loopDepth, unsafeDepth, blocks,
                  diagnostics, genVars>>
allVars == <<semaVars, genVars, machineVars>>

Val(type, v) == [t |-> type, v |-> v]
Unwritten(v) == Val("unwritten", v)
RegNames == {Regs[i] : i \in DOMAIN Regs} \cup {"rax", "rbx", "rdi", "rsi", "rdx"}
-----------------------------------------------------------------------------
(* nasm and ld.  A label of a string is local to the function before the   *)
(* data, the last one; the label of a function is its name, and global.    *)
Globals == {code[i].fn : i \in {j \in DOMAIN code : code[j].op = "enter"}}
Rejected == {i \in DOMAIN code :
                \/ code[i].op = "enter" /\ code[i].fn \in Reserved
                \/ code[i].op = "call" /\ code[i].arg \notin Globals
                \/ code[i].op = "lea" /\ code[i].fn # code[Len(code)].fn}

(* A label is where the line after it is. *)
At(i) == Ext!Min({j \in i..Len(code) : code[j].op # "label"})
LabelAt(fn, label) == At(CHOOSE i \in DOMAIN code :
                           code[i].op = "label" /\ code[i].fn = fn /\ code[i].arg = label)
Entry(name) == LabelAt(name, Label("fn", name))

Assemble ==
  /\ phase = "emit" /\ gen > Len(program)
  /\ IF Rejected = {} THEN phase' = "run" /\ pc' = 1
                     ELSE phase' = "unassembled" /\ UNCHANGED pc
  /\ UNCHANGED <<compilerVars, regs, mem, rsp, rbp, calls>>
-----------------------------------------------------------------------------
Running == phase = "run"
I == code[pc]
Is(op) == Running /\ I.op = op
rax == regs["rax"]
rbx == regs["rbx"]
GoOn == pc' = At(pc + 1) /\ UNCHANGED <<compilerVars, phase>>
Set(r, value) == regs' = [regs EXCEPT ![r] = value]
StackSame == UNCHANGED <<mem, rsp, rbp, calls>>
Computes(value) == Set("rax", value) /\ StackSame /\ GoOn

(* A result made of a value nobody wrote is of any kind. *)
Loose(t) == t \in {"unwritten", "any"}
Of(type, a, b) == IF Loose(a.t) \/ Loose(b.t) THEN "any" ELSE type

Immediate == Is("imm") /\ Computes(Val("int", I.arg))
Flag == Is("flag") /\ Computes(Val("bool", Bit(I.arg)))
Lea == Is("lea") /\ Computes(Val("str", 0))  \* an address, never looked at
Negate == Is("neg") /\ Computes(Val(Of("int", rax, rax), Wrap(-rax.v)))
Complement == Is("not") /\ Computes(Val(Of("bool", rax, rax), Bit(rax.v = 0)))
SaveRight == Is("mov rbx") /\ Set("rbx", rax) /\ StackSame /\ GoOn

(* and, or: of one bit. *)
Arith(op, a, b) == CASE op = "add" -> Wrap(a + b)
                     [] op = "sub" -> Wrap(a - b)
                     [] op = "imul" -> Wrap(a * b)
                     [] op = "and" -> Bit(a # 0 /\ b # 0)
                     [] op = "or" -> Bit(a # 0 \/ b # 0)
Alu == Is("alu") /\ Computes(Val(Of(IF I.arg \in {"and", "or"} THEN "bool" ELSE "int", rax, rbx),
                                 Arith(I.arg, rax.v, rbx.v)))

Holds(cc, a, b) == CASE cc = "sete" -> a = b   [] cc = "setne" -> a # b
                     [] cc = "setl" -> a < b   [] cc = "setle" -> a <= b
                     [] cc = "setg" -> a > b   [] cc = "setge" -> a >= b
Compare == Is("cmp") /\ Computes(Val(Of("bool", rax, rbx), Bit(Holds(I.arg, rax.v, rbx.v))))

Divide == /\ Is("idiv") /\ ~DivisionTraps(rax.v, rbx.v)
          /\ Computes(Val(Of("int", rax, rbx), IF I.arg = "rax" THEN Quotient(rax.v, rbx.v)
                                                                ELSE Remainder(rax.v, rbx.v)))
DivideTrap == /\ Is("idiv") /\ DivisionTraps(rax.v, rbx.v)
              /\ phase' = "trapped"
              /\ UNCHANGED <<compilerVars, machineVars>>

(* Slots: a value that was loaded unwritten is written when it is stored. *)
Load == Is("load") /\ Computes(mem[rbp - I.arg])
Stored(value) == IF value.t = "unwritten" THEN Val("any", value.v) ELSE value
PutSlot(slot, value) == /\ mem' = [mem EXCEPT ![rbp - slot] = Stored(value)]
                        /\ UNCHANGED <<regs, rsp, rbp, calls>> /\ GoOn
Store == Is("store") /\ PutSlot(I.arg, rax)
Spill == Is("spill") /\ PutSlot(I.arg.slot, regs[I.arg.reg])

(* The stack ends: a program that would need more of it stops there. *)
Push == /\ Is("push") /\ rsp > 1
        /\ mem' = [mem EXCEPT ![rsp - 1] = Stored(rax)] /\ rsp' = rsp - 1
        /\ UNCHANGED <<regs, rbp, calls>> /\ GoOn
Pop == /\ Is("pop")
       /\ Set(I.arg, mem[rsp]) /\ rsp' = rsp + 1
       /\ UNCHANGED <<mem, rbp, calls>> /\ GoOn

Goto(i) == pc' = i /\ UNCHANGED <<compilerVars, phase, regs>>
Jmp == Is("jmp") /\ Goto(LabelAt(I.fn, I.arg)) /\ StackSame
Je == Is("je") /\ Goto(IF rax.v = 0 THEN LabelAt(I.fn, I.arg) ELSE At(pc + 1)) /\ StackSame

Call == /\ Is("call") /\ rsp > 1
        /\ mem' = [mem EXCEPT ![rsp - 1] = Val("ret", pc + 1)] /\ rsp' = rsp - 1
        /\ calls' = Append(calls, pc + 1)
        /\ Goto(Entry(I.arg)) /\ UNCHANGED rbp

(* The words of a new frame keep what is in them. *)
Enter == /\ Is("enter") /\ rsp > 1 + I.arg
         /\ rbp' = rsp - 1 /\ rsp' = rsp - 1 - I.arg
         /\ mem' = [i \in 1..Memory |-> CASE i = rsp - 1 -> Val("rbp", rbp)
                                          [] i \in rsp'..(rsp - 2) -> Unwritten(mem[i].v)
                                          [] OTHER -> mem[i]]
         /\ UNCHANGED <<regs, calls>> /\ GoOn
Leave == /\ Is("leave")
         /\ rsp' = rbp + 1 /\ rbp' = mem[rbp].v
         /\ UNCHANGED <<mem, regs, calls>> /\ GoOn
Return == /\ Is("ret")
          /\ rsp' = rsp + 1
          /\ calls' = SubSeq(calls, 1, Len(calls) - 1)
          /\ Goto(At(mem[rsp].v)) /\ UNCHANGED <<mem, rbp>>

(* The write system call leaves its own result in rax. *)
SysWrite == Is("write") /\ Computes(Val("any", 0))
Exit == /\ Is("exit")
        /\ phase' = "exited" /\ UNCHANGED <<compilerVars, machineVars>>
-----------------------------------------------------------------------------
MachineInit ==
  /\ SemaInit /\ GenInit
  /\ pc = 0 /\ rsp = Memory + 1 /\ rbp = 0 /\ calls = << >>
  /\ regs = [r \in RegNames |-> Unwritten(0)]
  /\ mem = [i \in 1..Memory |-> Unwritten(0)]

Execute == \/ Immediate \/ Flag \/ Lea \/ Negate \/ Complement \/ SaveRight \/ Alu \/ Compare
           \/ Divide \/ DivideTrap \/ Load \/ Store \/ Spill \/ Push \/ Pop \/ Jmp \/ Je
           \/ Call \/ Enter \/ Leave \/ Return \/ SysWrite \/ Exit

MachineNext == \/ SemaNext /\ UNCHANGED <<genVars, machineVars>>
               \/ GenNext /\ UNCHANGED machineVars
               \/ Assemble
               \/ Execute
MachineSpec == MachineInit /\ [][MachineNext]_allVars
-----------------------------------------------------------------------------
(* Properties. *)

(* Every line works on operands of the kind it is for: the check's types   *)
(* are what the slots and registers hold when the program runs, and an     *)
(* integer or a boolean that was stored is a word.                         *)
Kind(type) == CASE type = "bool" -> "bool" [] type = "str_static" -> "str" [] OTHER -> "int"
DeclaredType(fn, slot) ==
  LET i == CHOOSE j \in DOMAIN program : program[j].k = "fn" /\ program[j].name = fn
      slots == collect_locals(i)
      name == CHOOSE n \in DOMAIN slots : slots[n] = slot
      params == {j \in DOMAIN program[i].params : program[i].params[j].name = name}
  IN IF params # {} THEN program[i].params[Ext!Min(params)].type
     ELSE program[Ext!Min({j \in i..Len(program) : program[j].k = "var" /\ program[j].name = name})].type
IsA(value, kind) == Loose(value.t) \/ value.t = kind

(* A slot nothing was stored to is read for three reasons only: the block  *)
(* of the variable has been left, where the check still knows its name;    *)
(* the variable is declared further down, and the check took the name for  *)
(* that of a function; it is a parameter no register was left for.         *)
Declares(j, name, i) == /\ program[j].k = "var" /\ program[j].name = name
                        /\ LastFn(j) = LastFn(i)
ScopeLeft(name, i) == \E j \in 1..(i - 1) :
                        /\ Declares(j, name, i)
                        /\ \E h \in j..(i - 1) :
                             \/ Depth(j, h) < 0
                             \/ Depth(j, h) = 0 /\ program[h].k = "else"
TakenForFunction(name, i) == /\ Has(functions, name)
                             /\ \A j \in 1..(i - 1) : ~Declares(j, name, i)
                             /\ \E j \in i..Len(program) : Declares(j, name, i)
NoRegister(name, i) == \E n \in DOMAIN FnOf(i).params :
                         n > Len(Regs) /\ FnOf(i).params[n].name = name
ReadsUnwritten == Is("load") /\ mem[rbp - I.arg].t = "unwritten"
Read == LET slots == collect_locals(LastFn(I.of)) IN CHOOSE n \in DOMAIN slots : slots[n] = I.arg
UnwrittenOnlyIfKnown == ReadsUnwritten => \/ ScopeLeft(Read, I.of)
                                          \/ TakenForFunction(Read, I.of)
                                          \/ NoRegister(Read, I.of)

(* No variable is read before its declaration has stored its value.        *)
AlwaysInitialized == ~ReadsUnwritten

(* An accepted program is refused by the assembler or the linker for four  *)
(* reasons only: a string outside the last function, mem.alloc, which no   *)
(* file defines, a package that is no executable and has no main, whose    *)
(* start still calls it, and a function with a name nasm takes for itself. *)
Parts(i) == CASE Has(program[i], "expr") -> SubExprs[program[i].expr]
              [] Has(program[i], "cond") -> SubExprs[program[i].cond]
              [] OTHER -> {}
KnownReason ==
  \/ package.type # "executable" /\ ~Has(functions, "main")
  \/ \E i \in DOMAIN program : program[i].k = "fn" /\ program[i].name \in Reserved
  \/ \E i \in DOMAIN program : \E e \in Parts(i) :
       \/ e.k = "call" /\ e.callee = "mem.alloc"
       \/ e.k = "str" /\ FnOf(i) # FnOf(Len(program))
AssemblesUnlessKnown == phase \in {"run", "unassembled"} =>
                          (phase = "unassembled" <=> KnownReason)

(* A program that runs has a line that writes only when its package        *)
(* requires syscall, and a call of an unsafe function only when it         *)
(* requires unsafe, and in an unsafe block or another unsafe function; but *)
(* the start of what is no executable calls a main of any kind.            *)
InUnsafe(i) == \/ FnOf(i).unsafe
               \/ \E j \in 1..(i - 1) : /\ program[j].k = "unsafe"
                                        /\ \A h \in j..i : Depth(j, h) >= 1
CapabilitiesRespected ==
  phase = "run" => \A l \in {code[i] : i \in DOMAIN code} :
    /\ l.op = "write" => "syscall" \in requires
    /\ l.op = "call" /\ functions[l.arg].unsafe =>
         /\ "unsafe" \in requires
         /\ IF l.of = 0 THEN package.type # "executable" ELSE InUnsafe(l.of)

(* The machine executes lines of the code only and keeps the stack pointer *)
(* in the stack, with a word on it for a line that pops one; a return goes *)
(* back behind its call, and between two statements nothing but the frame  *)
(* is on the stack.  This is for packages with a register for each         *)
(* parameter: emit_call pushes the arguments past the registers, and       *)
(* nothing pops them.                                                      *)
RegistersDo == \A i \in DOMAIN package.items : Len(package.items[i].params) <= Len(Regs)
FrameSize(fn) == code[CHOOSE i \in DOMAIN code : code[i].op = "enter" /\ code[i].fn = fn].arg
StackBalanced == RegistersDo =>
  /\ rsp \in 1..(IF Is("pop") \/ Is("ret") THEN Memory ELSE Memory + 1)
  /\ Running => pc \in DOMAIN code /\ I.op # "label"
  /\ Is("ret") => mem[rsp] = Val("ret", calls[Len(calls)])
  /\ Is("store") \/ Is("jmp") \/ Is("je") => rsp = rbp - FrameSize(I.fn)

(* What it takes for every program and not only those of an instance:      *)
(* functions have a register for each parameter, since emit_call pushes    *)
(* the arguments past the registers and nothing pops them.                 *)
FewParameters ==
  \A p \in Packages : \A i \in DOMAIN p.items : Len(p.items[i].params) <= Len(Regs)
=============================================================================
