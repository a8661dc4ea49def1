-------------------------- MODULE FnRegistryProofs --------------------------
(***************************************************************************)
(* Proofs about FnRegistry, for any capacity, any number of parameters and *)
(* any file.                                                               *)
(***************************************************************************)
EXTENDS FnRegistry, SequenceTheorems, TLAPS

-----------------------------------------------------------------------------
(* The inductive invariant.                                                *)

(* Until something is rejected, the registry is the file, entry by entry.  *)
Registered ==
  phase # "rejected" =>
    /\ Len(fn_registry) = Len(decls)
    /\ \A i \in 1 .. Len(decls) :
         /\ fn_registry[i].name = decls[i].name
         /\ fn_registry[i].node = i
         /\ fn_registry[i].param_count = Len(decls[i].params)
         /\ fn_registry[i].ret = decls[i].ret

UniqueEntries ==
  \A i, j \in 1 .. Len(fn_registry) : fn_registry[i].name = fn_registry[j].name => i = j

(* An accepted call was checked against a complete registry.               *)
AcceptedCall ==
  call.ok => phase = "check" /\ \E i \in Declared(call.name) : Len(call.args) = Len(decls[i].params)

IInv == RegistryTypeOK /\ Registered /\ UniqueEntries /\ AcceptedCall

-----------------------------------------------------------------------------
(* Lemmas about the lookup.                                                *)

(* Lists of at most MaxArgs types are sequences.                           *)
LEMMA TypeListsAreSeqs ==
  ASSUME NEW T, NEW s \in TypeLists(T)
  PROVE  s \in Seq(T) /\ Len(s) \in Nat
<1>1. PICK n \in 0 .. MaxArgs : s \in [1 .. n -> T]
  BY DEF TypeLists
<1>2. n \in Nat
  BY RegistryAssumption
<1>3. s \in Seq(T)
  BY <1>1, <1>2, SeqDef
<1> QED BY <1>3, LenProperties

(* In a registry without duplicates semantic_find_function answers 0 for a *)
(* name it does not hold, the index of the name otherwise.                 *)
LEMMA FindIsTheEntry ==
  ASSUME RegistryTypeOK, UniqueEntries, NEW n
  PROVE  /\ semantic_find_function(n) = 0 <=> Entries(n) = {}
         /\ \A i \in Entries(n) : semantic_find_function(n) = i
<1>0. Len(fn_registry) \in Nat
  BY LenProperties DEF RegistryTypeOK
<1>1. Entries(n) \subseteq 1 .. Len(fn_registry)
  BY DEF Entries
<1>2. ASSUME NEW i \in Entries(n) PROVE semantic_find_function(n) = i
  <2>1. Entries(n) = {i}
    BY <1>2 DEF Entries, UniqueEntries
  <2>2. i \in Int
    BY <1>0, <1>1, <1>2
  <2>3. i <= i
    BY <2>2
  <2>4. Least({i}) = i
    BY <2>3 DEF Least
  <2> QED BY <2>1, <2>4 DEF semantic_find_function
<1>3. Entries(n) = {} => semantic_find_function(n) = 0
  BY DEF semantic_find_function
<1>4. ASSUME NEW i \in Entries(n) PROVE semantic_find_function(n) # 0
  BY <1>0, <1>1, <1>2, <1>4
<1> QED BY <1>2, <1>3, <1>4

(* While nothing is rejected, the entries of a name are its declarations.  *)
LEMMA EntriesAreDeclarations ==
  ASSUME Registered, phase # "rejected", NEW n
  PROVE  Entries(n) = Declared(n)
BY DEF Registered, Entries, Declared

-----------------------------------------------------------------------------
(* Initiation and consecution.                                             *)

LEMMA InitIInv == Init => IInv
<1> SUFFICES ASSUME Init PROVE IInv
  OBVIOUS
<1>1. NoCall \in Call
  <2>1. << >> \in [1 .. 0 -> Types \cup {Ill}]
    OBVIOUS
  <2>2. << >> \in TypeLists(Types \cup {Ill})
    BY <2>1, RegistryAssumption DEF TypeLists
  <2> QED BY <2>2, RegistryAssumption DEF NoCall, Call
<1>2. RegistryTypeOK
  BY <1>1, RegistryAssumption, EmptySeq DEF Init, RegistryTypeOK
<1>3. Registered /\ UniqueEntries
  BY EmptySeq DEF Init, Registered, UniqueEntries
<1>4. AcceptedCall
  BY DEF Init, AcceptedCall, NoCall
<1> QED BY <1>2, <1>3, <1>4 DEF IInv

LEMMA RegisterPreservesIInv ==
  ASSUME IInv, NEW d \in Decl, semantic_register_function(d)
  PROVE  IInv'
<1> DEFINE e == [name |-> d.name, node |-> Len(decls) + 1,
                 param_count |-> Len(d.params), ret |-> d.ret]
<1>1. /\ decls \in Seq(Decl) /\ fn_registry \in Seq(Entry)
      /\ Len(decls) \in Nat /\ Len(fn_registry) \in Nat
  BY LenProperties DEF IInv, RegistryTypeOK
<1>2. /\ decls' \in Seq(Decl) /\ Len(decls') = Len(decls) + 1
      /\ \A i \in 1 .. Len(decls) : decls'[i] = decls[i]
      /\ decls'[Len(decls) + 1] = d
  BY <1>1, AppendProperties DEF semantic_register_function
<1>3. e \in Entry
  <2>1. Len(d.params) \in Nat
    BY TypeListsAreSeqs DEF Decl
  <2> QED BY <1>1, <2>1 DEF Decl, Entry
<1>4. ~call.ok /\ call' = call
  BY DEF semantic_register_function, IInv, AcceptedCall
<1>5. CASE Registrable(d)
  <2>1. /\ fn_registry' = Append(fn_registry, e) /\ phase' = phase
        /\ ast_main_fn' = IF d.name = Main THEN Len(decls) + 1 ELSE ast_main_fn
    BY <1>5 DEF semantic_register_function
  <2>2. /\ fn_registry' \in Seq(Entry) /\ Len(fn_registry') = Len(fn_registry) + 1
        /\ \A i \in 1 .. Len(fn_registry) : fn_registry'[i] = fn_registry[i]
        /\ fn_registry'[Len(fn_registry) + 1] = e
    BY <1>1, <1>3, <2>1, AppendProperties
  <2>3. RegistryTypeOK'
    BY <1>1, <1>2, <1>4, <1>5, <2>1, <2>2, RegistryAssumption
    DEF RegistryTypeOK, IInv, Registrable
  <2>4. Registered'
    BY <1>1, <1>2, <2>1, <2>2 DEF Registered, IInv
  <2>5. UniqueEntries'
    <3>1. Entries(d.name) = {}
      BY <1>5, FindIsTheEntry DEF Registrable, IInv
    <3>2. \A i \in 1 .. Len(fn_registry) : fn_registry[i].name # d.name
      BY <3>1 DEF Entries
    <3>3. e.name = d.name
      OBVIOUS
    <3> HIDE DEF e
    <3> SUFFICES ASSUME NEW i \in 1 .. Len(fn_registry) + 1, NEW j \in 1 .. Len(fn_registry) + 1,
                        fn_registry'[i].name = fn_registry'[j].name
                 PROVE  i = j
      BY <2>2 DEF UniqueEntries
    <3>4. CASE i \in 1 .. Len(fn_registry) /\ j \in 1 .. Len(fn_registry)
      BY <2>2, <3>4 DEF IInv, UniqueEntries
    <3>5. CASE i = Len(fn_registry) + 1 \/ j = Len(fn_registry) + 1
      BY <1>1, <2>2, <3>2, <3>3, <3>5
    <3> QED BY <1>1, <3>4, <3>5
  <2> QED BY <1>4, <2>3, <2>4, <2>5 DEF IInv, AcceptedCall
<1>6. CASE ~Registrable(d)
  <2>1. phase' = "rejected" /\ UNCHANGED <<fn_registry, ast_main_fn>>
    BY <1>6 DEF semantic_register_function
  <2> QED BY <1>1, <1>2, <1>4, <2>1
          DEF IInv, RegistryTypeOK, Registered, UniqueEntries, AcceptedCall
<1> QED BY <1>5, <1>6

LEMMA EndRegistrationPreservesIInv ==
  ASSUME IInv, EndRegistration PROVE IInv'
<1>1. ~call.ok
  BY DEF EndRegistration, IInv, AcceptedCall
<1>2. phase' \in {"check", "rejected"} /\ phase = "register"
  BY DEF EndRegistration
<1>3. RegistryTypeOK'
  BY <1>2 DEF EndRegistration, IInv, RegistryTypeOK
<1>4. Registered' /\ UniqueEntries' /\ AcceptedCall'
  BY <1>1, <1>2 DEF EndRegistration, IInv, Registered, UniqueEntries, AcceptedCall
<1> QED BY <1>3, <1>4 DEF IInv

LEMMA CallPreservesIInv ==
  ASSUME IInv, NEW n \in FnNames, NEW args \in TypeLists(Types \cup {Ill}),
         semantic_fn_call_type(n, args)
  PROVE  IInv'
<1> DEFINE ok == /\ semantic_find_function(n) # 0
                 /\ CountMatches(n, args)
                 /\ TypesAccepted(args, ParamsCompared(args))
<1>1. /\ phase = "check" /\ UNCHANGED <<decls, fn_registry, ast_main_fn>>
      /\ call' = [name |-> n, args |-> args, ok |-> ok]
      /\ phase' = IF ok THEN "check" ELSE "rejected"
  BY DEF semantic_fn_call_type
<1>2. ok \in BOOLEAN
  OBVIOUS
<1> HIDE DEF ok
<1>3. RegistryTypeOK'
  <2>1. call' \in Call
    BY <1>1, <1>2 DEF Call
  <2> QED BY <1>1, <2>1 DEF IInv, RegistryTypeOK
<1>4. Registered' /\ UniqueEntries'
  BY <1>1 DEF IInv, Registered, UniqueEntries
<1>5. AcceptedCall'
  <2> SUFFICES ASSUME ok PROVE AcceptedCall'
    BY <1>1 DEF AcceptedCall
  <2>1. PICK i \in Entries(n) : semantic_find_function(n) = i
    BY FindIsTheEntry DEF IInv, ok
  <2>2. i \in Declared(n)
    BY <1>1, <2>1, EntriesAreDeclarations DEF IInv
  <2>3. Len(args) = Len(decls[i].params)
    <3>1. Len(args) = fn_registry[i].param_count
      BY <2>1 DEF ok, CountMatches
    <3> QED BY <1>1, <2>2, <3>1 DEF IInv, Registered, Declared
  <2> QED BY <1>1, <2>2, <2>3 DEF AcceptedCall, Declared
<1> QED BY <1>3, <1>4, <1>5 DEF IInv

LEMMA NextIInv == IInv /\ [Next]_vars => IInv'
<1> SUFFICES ASSUME IInv, [Next]_vars PROVE IInv'
  OBVIOUS
<1>1. CASE \E d \in Decl : semantic_register_function(d)
  BY <1>1, RegisterPreservesIInv
<1>2. CASE EndRegistration
  BY <1>2, EndRegistrationPreservesIInv
<1>3. CASE \E n \in FnNames, args \in TypeLists(Types \cup {Ill}) : semantic_fn_call_type(n, args)
  BY <1>3, CallPreservesIInv
<1>4. CASE UNCHANGED vars
  BY <1>4 DEF vars, IInv, RegistryTypeOK, Registered, UniqueEntries, AcceptedCall, Declared
<1> QED BY <1>1, <1>2, <1>3, <1>4 DEF Next

-----------------------------------------------------------------------------
(* The theorems.                                                           *)

(* The inductive invariant of registration and call check.                 *)
THEOREM RegistryInvariance == Spec => []IInv
BY InitIInv, NextIInv, PTL DEF Spec

(* Files, registry and calls keep their types, and the registry never      *)
(* outgrows its capacity (semantic_register_function).                     *)
THEOREM RegistryTypeCorrect == Spec => []RegistryTypeOK
BY RegistryInvariance, PTL DEF IInv

(* Once the bodies are checked a name finds the one function declared with *)
(* it, with its parameter count and return type, wherever in the file.     *)
THEOREM RegistryIsFaithful == Spec => []RegistryFaithful
<1>1. IInv => RegistryFaithful
  <2> SUFFICES ASSUME IInv, phase = "check", NEW n \in FnNames
               PROVE  LET i == semantic_find_function(n) IN
                      IF i = 0 THEN Declared(n) = {}
                      ELSE /\ Declared(n) = {fn_registry[i].node}
                           /\ fn_registry[i].param_count = Len(decls[fn_registry[i].node].params)
                           /\ fn_registry[i].ret = decls[fn_registry[i].node].ret
    BY DEF RegistryFaithful
  <2>1. Entries(n) = Declared(n)
    BY EntriesAreDeclarations DEF IInv
  <2>2. CASE Entries(n) = {}
    BY <2>1, <2>2, FindIsTheEntry DEF IInv
  <2>3. ASSUME NEW i \in Entries(n)
        PROVE  /\ semantic_find_function(n) = i /\ i # 0
               /\ Declared(n) = {i}
               /\ fn_registry[i].node = i
               /\ fn_registry[i].param_count = Len(decls[i].params)
               /\ fn_registry[i].ret = decls[i].ret
    <3>1. semantic_find_function(n) = i /\ i # 0
      BY <2>3, FindIsTheEntry DEF IInv
    <3>2. Entries(n) = {i}
      BY <2>3 DEF Entries, IInv, UniqueEntries
    <3>3. i \in 1 .. Len(decls)
      BY <2>1, <2>3 DEF Declared
    <3> QED BY <2>1, <3>1, <3>2, <3>3 DEF IInv, Registered
  <2> QED BY <2>2, <2>3
<1> QED BY <1>1, RegistryInvariance, PTL

(* A call that is accepted has as many arguments as the function it names  *)
(* has parameters.                                                         *)
THEOREM ArityIsChecked == Spec => []ArityChecked
<1>1. IInv => ArityChecked
  BY DEF IInv, AcceptedCall, ArityChecked
<1> QED BY <1>1, RegistryInvariance, PTL
=============================================================================
