----------------------------- MODULE FnRegistry -----------------------------
(***************************************************************************)
(* The function registry of the FASM compiler and the calls checked        *)
(* against it (semantic.asm): semantic_check_subset registers every        *)
(* function of the file, checks main, then checks the bodies.  The bodies  *)
(* are the calls they hold, chosen freely.                                 *)
(*                                                                         *)
(* The compiler holds the whole file before it registers the first         *)
(* function; here each function is chosen when it is registered, which the *)
(* code cannot tell.  Builtins, tried when the registry has no such name,  *)
(* are left out.                                                           *)
(***************************************************************************)
EXTENDS Integers, Sequences

CONSTANTS
  FnNames,     (* names a function may have or be called by                *)
  Main,        (* the name "main"                                          *)
  Types,       (* type ids                                                 *)
  I32,         (* the type main returns                                    *)
  Ill,         (* what semantic_expr_type says of an ill-typed argument    *)
  FN_REG_CAP,  (* capacity of the registry (256)                           *)
  ARG_REGS,    (* most parameters a function may have (6)                  *)
  MaxArgs      (* bound on the parameters and arguments that are tried     *)

ASSUME RegistryAssumption ==
  /\ Main \in FnNames
  /\ I32 \in Types
  /\ Ill \notin Types
  /\ FN_REG_CAP \in Nat /\ ARG_REGS \in Nat /\ MaxArgs \in Nat

VARIABLES
  decls,        (* the function nodes of the file, in order                *)
  fn_registry,  (* name, node, parameter count and return type by index    *)
  ast_main_fn,  (* the node of main, 0 when none is registered             *)
  phase,        (* "register", "check", then "rejected"                    *)
  call          (* the last call checked                                   *)

vars == <<decls, fn_registry, ast_main_fn, phase, call>>

TypeLists(T) == UNION {[1 .. n -> T] : n \in 0 .. MaxArgs}

Decl == [name : FnNames, params : TypeLists(Types), ret : Types]
Entry == [name : FnNames, node : Nat, param_count : Nat, ret : Types]
Call == [name : FnNames, args : TypeLists(Types \cup {Ill}), ok : BOOLEAN]
NoCall == [name |-> Main, args |-> << >>, ok |-> FALSE]

-----------------------------------------------------------------------------
Least(S) == CHOOSE i \in S : \A j \in S : i <= j

Entries(n) == {i \in 1 .. Len(fn_registry) : fn_registry[i].name = n}

(* The index plus one of the code, 0 when absent.                          *)
semantic_find_function(n) == IF Entries(n) = {} THEN 0 ELSE Least(Entries(n))

Registrable_OneMore(d) ==
  /\ semantic_find_function(d.name) = 0
  /\ Len(fn_registry) <= FN_REG_CAP
  /\ Len(d.params) <= ARG_REGS

Registrable_Again(d) == Len(fn_registry) < FN_REG_CAP /\ Len(d.params) <= ARG_REGS

(* Duplicate name, full registry, too many parameters.                     *)
Registrable(d) ==
  /\ semantic_find_function(d.name) = 0
  /\ Len(fn_registry) < FN_REG_CAP
  /\ Len(d.params) <= ARG_REGS

semantic_register_function(d) ==
  /\ phase = "register"
  /\ decls' = Append(decls, d)
  /\ IF Registrable(d)
     THEN /\ fn_registry' = Append(fn_registry, [name |-> d.name, node |-> Len(decls) + 1,
                                                 param_count |-> Len(d.params), ret |-> d.ret])
          /\ ast_main_fn' = IF d.name = Main THEN Len(decls) + 1 ELSE ast_main_fn
          /\ UNCHANGED phase
     ELSE /\ phase' = "rejected"
          /\ UNCHANGED <<fn_registry, ast_main_fn>>
  /\ UNCHANGED call

(* E0401 and E0402.                                                        *)
GoodMain ==
  /\ ast_main_fn # 0
  /\ decls[ast_main_fn].params = << >>
  /\ decls[ast_main_fn].ret = I32

EndRegistration ==
  /\ phase = "register"
  /\ phase' = IF GoodMain THEN "check" ELSE "rejected"
  /\ UNCHANGED <<decls, fn_registry, ast_main_fn, call>>

-----------------------------------------------------------------------------
(* The parameters semantic_fn_call_type compares the arguments with.  The  *)
(* register it takes for the index of the callee holds the number of       *)
(* parameters, so they are those of the function registered argc-th.  An   *)
(* index past the registry, or none, reads node 0, which has no parameters.*)
ParamsCompared(args) ==
  IF Len(args) \in 1 .. Len(fn_registry)
  THEN decls[fn_registry[Len(args)].node].params
  ELSE << >>

(* The walk stops with the shorter list.  When the parameters of a function*)
(* that has some run out first, the next argument is typed against the     *)
(* block of the function, which matches anything, and the rest are not.    *)
TypesAccepted(args, params) ==
  /\ \A k \in 1 .. Len(args) : k <= Len(params) => args[k] = params[k]
  /\ Len(params) \in 1 .. Len(args) - 1 => args[Len(params) + 1] # Ill

CountMatches_AtMost(n, args) == Len(args) <= fn_registry[semantic_find_function(n)].param_count

CountMatches(n, args) == Len(args) = fn_registry[semantic_find_function(n)].param_count

semantic_fn_call_type(n, args) ==
  /\ phase = "check"
  /\ LET ok == /\ semantic_find_function(n) # 0
               /\ CountMatches(n, args)
               /\ TypesAccepted(args, ParamsCompared(args))
     IN /\ call' = [name |-> n, args |-> args, ok |-> ok]
        /\ phase' = IF ok THEN "check" ELSE "rejected"
  /\ UNCHANGED <<decls, fn_registry, ast_main_fn>>

-----------------------------------------------------------------------------
Init ==
  /\ decls = << >> /\ fn_registry = << >> /\ ast_main_fn = 0
  /\ phase = "register" /\ call = NoCall

Next ==
  \/ \E d \in Decl : semantic_register_function(d)
  \/ EndRegistration
  \/ \E n \in FnNames, args \in TypeLists(Types \cup {Ill}) : semantic_fn_call_type(n, args)

Spec == Init /\ [][Next]_vars

-----------------------------------------------------------------------------
RegistryTypeOK ==
  /\ decls \in Seq(Decl)
  /\ fn_registry \in Seq(Entry) /\ Len(fn_registry) <= FN_REG_CAP
  /\ ast_main_fn \in 0 .. Len(decls)
  /\ phase \in {"register", "check", "rejected"}
  /\ call \in Call

Declared(n) == {i \in 1 .. Len(decls) : decls[i].name = n}

(* Once the bodies are checked, a name finds the one function of that name,*)
(* wherever in the file it is, with its parameter count and return type:   *)
(* forward and mutually recursive calls resolve like any other.            *)
RegistryFaithful ==
  phase = "check" =>
    \A n \in FnNames :
      LET i == semantic_find_function(n) IN
      IF i = 0 THEN Declared(n) = {}
      ELSE /\ Declared(n) = {fn_registry[i].node}
           /\ fn_registry[i].param_count = Len(decls[fn_registry[i].node].params)
           /\ fn_registry[i].ret = decls[fn_registry[i].node].ret

Checked == phase # "register" /\ call # NoCall

(* A call that is accepted names a declared function and gives it as many  *)
(* arguments as it has parameters, so the registers the callee spills are  *)
(* the ones the caller loaded.                                             *)
ArityChecked ==
  Checked /\ call.ok =>
    \E i \in Declared(call.name) : Len(call.args) = Len(decls[i].params)
=============================================================================
