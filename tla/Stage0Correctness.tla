--------------------------- MODULE Stage0Correctness ---------------------------
(***************************************************************************)
(* The Rust stage-0 compiler is correct: what the machine does with the    *)
(* code it generates is what Stage0Source says the program promises.       *)
(***************************************************************************)
EXTENDS Stage0Machine

(* What Stage0Source sees of the machine: the statement main executes or   *)
(* waits in, the slots of its frame, and rax once it leaves.               *)
MainIndex == CHOOSE i \in DOMAIN program : program[i].k = "fn" /\ program[i].name = "main"
MainSlots == collect_locals(MainIndex)
MainPc == IF Len(calls) >= 2 THEN calls[2] - 1 ELSE pc
MainLines == {j \in DOMAIN code : /\ code[j].fn = "main" /\ code[j].op # "label"
                                  /\ code[j].of # MainIndex}
(* The programs Stage0Source has a meaning for: no variable has the name of*)
(* a function, each parameter has a register, and the functions other than *)
(* main are a single ret.                                                  *)
NamesApart == \A i \in DOMAIN program : program[i].k = "var" => ~Has(functions, program[i].name)
OthersReturn == \A i \in DOMAIN program :
                  program[i].k = "fn" => program[i].name = "main" \/ program[i + 1].k = "ret"
Loaded == phase \in {"run", "trapped", "exited"} /\ NamesApart /\ RegistersDo /\ OthersReturn
Leaving == MainPc = 2 \/ (MainPc \in MainLines /\ code[MainPc].op \in {"leave", "ret"})
MainFrame == Memory - 1

StatementOfMain == CASE MainPc = 2 -> code[Ext!Max(MainLines)].of
                     [] MainPc \in MainLines -> code[MainPc].of
                     [] OTHER -> code[Ext!Min(MainLines)].of

Promised == INSTANCE Stage0Source WITH
  prog <- IF Loaded THEN program ELSE << >>,
  at <- IF Loaded /\ phase # "exited" THEN StatementOfMain ELSE 0,
  env <- IF Loaded THEN [n \in DOMAIN MainSlots |-> mem[MainFrame - MainSlots[n]].v] ELSE << >>,
  result <- CASE ~Loaded -> [k |-> "none", v |-> 0]
              [] phase = "trapped" -> [k |-> "trap", v |-> 0]
              [] phase = "exited" -> [k |-> "exit", v |-> Low(rax.v)]
              [] phase = "run" /\ Leaving -> [k |-> "value", v |-> rax.v]
              [] OTHER -> [k |-> "none", v |-> 0]

(* The code does what the program says, statement by statement: every line *)
(* it executes is a step of the source or changes nothing the source has.  *)
(* This is for the programs of NamesApart, RegistersDo and OthersReturn.   *)
RunsAsWritten == Promised!Spec
=============================================================================
