-------------------------- MODULE Stage0MachineProofs --------------------------
(***************************************************************************)
(* What is proved of the back half of the Rust stage-0 compiler, for every *)
(* package, every set of expressions, every number of registers and every  *)
(* size of the stack: the counters of the check and the labels of the      *)
(* generator follow the blocks of the program, an accepted program uses    *)
(* what its package requires and no more, and the assembler and the linker *)
(* refuse it for the known reasons only, and its code keeps the stack      *)
(* balanced when each parameter has a register.                            *)
(***************************************************************************)
EXTENDS Stage0Machine, SequenceTheorems, FiniteSetTheorems, NaturalsInduction,
        WellFoundedInduction, TLAPS

(* Every set of numbers that is not empty has a least one. *)
Less == OpToRel(<, Nat)
LEMMA LeastOf ==
  ASSUME NEW S \in SUBSET Nat, S # {}
  PROVE  \E m \in S : \A k \in S : m <= k
<1>1. IsWellFoundedOn(Less, Nat)
  BY NatLessThanWellFounded DEF Less
<1>2. PICK m \in S : \A k \in S : ~(<<k, m>> \in Less)
  BY <1>1, WFMin, Zenon
<1>3. \A k \in S : ~(k < m)
  BY <1>2 DEF Less, OpToRel
<1> QED BY <1>3
-----------------------------------------------------------------------------
(* Expressions are finite: what holds of an expression whose operands it   *)
(* holds of holds of every expression.                                     *)
LEMMA ExprFacts ==
  ASSUME NEW e \in Expressions
  PROVE  /\ IsExpression(e)
         /\ Height[e] \in Nat
         /\ \A x \in Operands(e) : x \in Expressions /\ Height[x] < Height[e]
  BY SemaAssumption DEF IsExpression

LEMMA ExprInduction ==
  ASSUME NEW S, \A e \in Expressions : Operands(e) \subseteq S => e \in S
  PROVE  Expressions \subseteq S
<1> DEFINE Bad == {e \in Expressions : e \notin S}
           Heights == {Height[e] : e \in Bad}
<1>1. SUFFICES ASSUME Bad # {} PROVE FALSE
  OBVIOUS
<1>2. Heights \in SUBSET Nat /\ Heights # {}
  BY <1>1, ExprFacts
<1>3. PICK m \in Heights : \A k \in Heights : m <= k
  <2> HIDE DEF Heights
  <2> QED BY <1>2, LeastOf
<1>4. PICK e \in Bad : Height[e] = m
  BY <1>3
<1>5. \A x \in Operands(e) : x \in S
  <2> SUFFICES ASSUME NEW x \in Operands(e), x \notin S PROVE FALSE
    OBVIOUS
  <2>1. x \in Expressions /\ Height[x] < Height[e] /\ Height[x] \in Nat /\ Height[e] \in Nat
    BY ExprFacts
  <2>2. Height[x] \in Heights
    BY <2>1
  <2> QED BY <1>3, <1>4, <2>1, <2>2
<1> QED BY <1>4, <1>5
-----------------------------------------------------------------------------
(* A function of the expressions may be defined by what it is at their     *)
(* operands: body[<<f, e>>] is its value at e when it is f at the operands. *)
Recursive(V, body) ==
  /\ body \in [[Expressions -> V] \X Expressions -> V]
  /\ \A f, g \in [Expressions -> V], e \in Expressions :
       (\A x \in Operands(e) : f[x] = g[x]) => body[<<f, e>>] = body[<<g, e>>]

(* f is what is asked for below a height. *)
Solves(V, body, n, f) ==
  /\ f \in [Expressions -> V]
  /\ \A e \in Expressions : Height[e] < n => f[e] = body[<<f, e>>]

LEMMA SolutionsExist ==
  ASSUME NEW V, V # {}, NEW body, Recursive(V, body), NEW n \in Nat
  PROVE  \E f : Solves(V, body, n, f)
<1> DEFINE Without == {k \in Nat : ~ \E f : Solves(V, body, k, f)}
<1>1. SUFFICES ASSUME Without # {} PROVE FALSE
  OBVIOUS
<1>2. PICK m \in Without : \A k \in Without : m <= k
  BY <1>1, LeastOf, Zenon
<1>3. CASE m = 0
  <2>1. PICK v : v \in V
    OBVIOUS
  <2> DEFINE f == [e \in Expressions |-> v]
  <2>2. f \in [Expressions -> V]
    BY <2>1
  <2>3. \A e \in Expressions : ~(Height[e] < 0)
    BY ExprFacts
  <2>4. Solves(V, body, m, f)
    BY <1>3, <2>2, <2>3 DEF Solves
  <2> QED BY <1>2, <2>4
<1>4. CASE m # 0
  <2>1. m - 1 \in Nat /\ m - 1 < m /\ m \in Nat
    BY <1>4
  <2>2. m - 1 \notin Without
    BY <1>2, <2>1
  <2>3. PICK f : Solves(V, body, m - 1, f)
    BY <2>1, <2>2
  <2> DEFINE g == [e \in Expressions |-> body[<<f, e>>]]
  <2>4. g \in [Expressions -> V]
    BY <2>3 DEF Solves, Recursive
  <2>5. \A e \in Expressions : Height[e] < m => g[e] = body[<<g, e>>]
    <3> SUFFICES ASSUME NEW e \in Expressions, Height[e] < m PROVE g[e] = body[<<g, e>>]
      OBVIOUS
    <3>1. \A x \in Operands(e) : x \in Expressions /\ Height[x] < m - 1
      BY ExprFacts, <2>1
    <3>2. \A x \in Operands(e) : f[x] = g[x]
      BY <2>3, <3>1 DEF Solves
    <3> HIDE DEF g
    <3>3. body[<<f, e>>] = body[<<g, e>>]
      BY <2>3, <2>4, <3>2 DEF Solves, Recursive
    <3> QED BY <3>3 DEF g
  <2>6. Solves(V, body, m, g)
    BY <2>4, <2>5 DEF Solves
  <2> QED BY <1>2, <2>6
<1> QED BY <1>3, <1>4

LEMMA SolutionsAgree ==
  ASSUME NEW V, NEW body, Recursive(V, body), NEW n \in Nat, NEW k \in Nat,
         NEW f, NEW g, Solves(V, body, n, f), Solves(V, body, k, g),
         NEW e \in Expressions, Height[e] < n, Height[e] < k
  PROVE  f[e] = g[e]
<1> DEFINE S == {x \in Expressions : Height[x] < n /\ Height[x] < k => f[x] = g[x]}
<1>1. ASSUME NEW x \in Expressions, Operands(x) \subseteq S, Height[x] < n, Height[x] < k
      PROVE  f[x] = g[x]
  <2>1. \A y \in Operands(x) : y \in Expressions /\ Height[y] < n /\ Height[y] < k
    BY <1>1, ExprFacts
  <2>2. \A y \in Operands(x) : f[y] = g[y]
    BY <1>1, <2>1
  <2>3. body[<<f, x>>] = body[<<g, x>>]
    BY <2>2 DEF Solves, Recursive
  <2> QED BY <1>1, <2>3 DEF Solves
<1>2. Expressions \subseteq S
  <2>1. \A x \in Expressions : Operands(x) \subseteq S => x \in S
    BY <1>1
  <2> HIDE DEF S
  <2> QED BY <2>1, ExprInduction
<1> QED BY <1>2

LEMMA RecursiveFunction ==
  ASSUME NEW V, V # {}, NEW body, Recursive(V, body)
  PROVE  \E h \in [Expressions -> V] : \A e \in Expressions : h[e] = body[<<h, e>>]
<1> DEFINE F == [n \in Nat |-> CHOOSE f : Solves(V, body, n, f)]
           h == [e \in Expressions |-> F[Height[e] + 1][e]]
<1>1. \A n \in Nat : Solves(V, body, n, F[n])
  BY SolutionsExist
<1> HIDE DEF F
<1>2. \A e \in Expressions : Height[e] + 1 \in Nat /\ Height[e] < Height[e] + 1
  BY ExprFacts
<1>3. h \in [Expressions -> V]
  BY <1>1, <1>2 DEF Solves
<1>4. ASSUME NEW e \in Expressions PROVE h[e] = body[<<h, e>>]
  <2> DEFINE n == Height[e] + 1
  <2>1. n \in Nat /\ Height[e] < n
    BY <1>2
  <2>2. Solves(V, body, n, F[n])
    BY <1>1, <2>1
  <2>3. ASSUME NEW x \in Operands(e) PROVE F[n][x] = h[x]
    <3>1. x \in Expressions /\ Height[x] < n /\ Height[x] + 1 \in Nat /\ Height[x] < Height[x] + 1
      BY ExprFacts
    <3>2. Solves(V, body, Height[x] + 1, F[Height[x] + 1])
      BY <1>1, <3>1
    <3> HIDE DEF n, h
    <3>3. F[n][x] = F[Height[x] + 1][x]
      BY <2>1, <2>2, <3>1, <3>2, SolutionsAgree
    <3> QED BY <3>1, <3>3 DEF h
  <2>4. h[e] = F[n][e]
    OBVIOUS
  <2> HIDE DEF n, h
  <2>5. F[n][e] = body[<<F[n], e>>]
    BY <2>1, <2>2 DEF Solves
  <2>6. body[<<F[n], e>>] = body[<<h, e>>]
    BY <1>3, <2>2, <2>3 DEF Solves, Recursive
  <2> QED BY <2>4, <2>5, <2>6
<1> HIDE DEF h
<1> QED BY <1>3, <1>4
-----------------------------------------------------------------------------
(* Sequences. *)
Elems(s) == {s[i] : i \in 1..Len(s)}

LEMMA ElemsEmpty ==
  ASSUME NEW S, NEW s \in Seq(S)
  PROVE  /\ s = << >> <=> Elems(s) = {}
         /\ Elems(s) \subseteq S
         /\ Elems(<< >>) = {}
<1>1. Len(s) = 0 <=> 1..Len(s) = {}
  <2>1. Len(s) \in Nat
    OBVIOUS
  <2>2. Len(s) # 0 => 1 \in 1..Len(s)
    BY <2>1
  <2>3. Len(s) = 0 => 1..Len(s) = {}
    OBVIOUS
  <2> QED BY <2>2, <2>3
<1>2. s = << >> <=> Len(s) = 0
  BY EmptySeq
<1>3. Elems(s) = {} <=> 1..Len(s) = {}
  BY DEF Elems
<1>4. Elems(s) \subseteq S
  BY DEF Elems
<1>5. Elems(<< >>) = {}
  BY DEF Elems
<1> QED BY <1>1, <1>2, <1>3, <1>4, <1>5

LEMMA ElemsConcat ==
  ASSUME NEW S, NEW s \in Seq(S), NEW t \in Seq(S)
  PROVE  /\ s \o t \in Seq(S)
         /\ Elems(s \o t) = Elems(s) \cup Elems(t)
         /\ s \o t = << >> <=> s = << >> /\ t = << >>
<1>1. s \o t \in Seq(S) /\ Len(s \o t) = Len(s) + Len(t) /\ Len(s) \in Nat /\ Len(t) \in Nat
  OBVIOUS
<1>2. \A i \in 1..Len(s) : (s \o t)[i] = s[i] /\ i \in 1..Len(s \o t)
  BY <1>1
<1>3. \A i \in 1..Len(t) : (s \o t)[Len(s) + i] = t[i] /\ Len(s) + i \in 1..Len(s \o t)
  BY <1>1
<1>4. \A i \in 1..Len(s \o t) : i \in 1..Len(s) \/ \E j \in 1..Len(t) : i = Len(s) + j
  <2> TAKE i \in 1..Len(s \o t)
  <2>1. i \in 1..Len(s) \/ (i - Len(s) \in 1..Len(t) /\ i = Len(s) + (i - Len(s)))
    BY <1>1
  <2> QED BY <2>1
<1>5. Elems(s \o t) = Elems(s) \cup Elems(t)
  <2>1. ASSUME NEW x \in Elems(s \o t) PROVE x \in Elems(s) \cup Elems(t)
    <3>1. PICK i \in 1..Len(s \o t) : x = (s \o t)[i]
      BY DEF Elems
    <3>2. CASE i \in 1..Len(s)
      BY <1>2, <3>1, <3>2 DEF Elems
    <3>3. CASE \E j \in 1..Len(t) : i = Len(s) + j
      <4>1. PICK j \in 1..Len(t) : i = Len(s) + j
        BY <3>3
      <4>2. x = t[j]
        BY <1>3, <3>1, <4>1
      <4> QED BY <4>2 DEF Elems
    <3> QED BY <1>4, <3>2, <3>3
  <2>2. ASSUME NEW x \in Elems(s) PROVE x \in Elems(s \o t)
    BY <1>2 DEF Elems
  <2>3. ASSUME NEW x \in Elems(t) PROVE x \in Elems(s \o t)
    BY <1>3 DEF Elems
  <2> QED BY <2>1, <2>2, <2>3
<1>6. s \o t = << >> <=> s = << >> /\ t = << >>
  BY <1>1, EmptySeq
<1> QED BY <1>1, <1>5, <1>6

LEMMA ElemsOne ==
  ASSUME NEW x
  PROVE  Elems(<<x>>) = {x}
<1>1. Len(<<x>>) = 1 /\ <<x>>[1] = x /\ 1..1 = {1}
  OBVIOUS
<1> QED BY <1>1 DEF Elems

(* The function FlattenSeq is computed by, up to a length. *)
IsFlat(f, ss, n) ==
  f = [i \in 1..n |-> IF i = 1 THEN ss[i] ELSE f[i - 1] \o ss[i]]

LEMMA FlatExists ==
  ASSUME NEW ss, NEW n \in Nat
  PROVE  \E f : IsFlat(f, ss, n)
<1> DEFINE Without == {k \in Nat : ~ \E f : IsFlat(f, ss, k)}
<1>1. SUFFICES ASSUME Without # {} PROVE FALSE
  OBVIOUS
<1>2. PICK m \in Without : \A k \in Without : m <= k
  BY <1>1, LeastOf, Zenon
<1>3. CASE m = 0
  <2> DEFINE f == [i \in 1..m |-> 0]
  <2>1. IsFlat(f, ss, m)
    BY <1>3 DEF IsFlat
  <2> QED BY <2>1, <1>2
<1>4. CASE m # 0
  <2>1. m \in Nat /\ m - 1 \in Nat /\ m - 1 < m
    BY <1>4
  <2>2. PICK f : IsFlat(f, ss, m - 1)
    BY <1>2, <2>1
  <2> DEFINE g == [i \in 1..m |-> IF i = m THEN IF m = 1 THEN ss[m] ELSE f[m - 1] \o ss[m]
                                  ELSE f[i]]
  <2>3. \A i \in 1..m : g[i] = IF i = 1 THEN ss[i] ELSE g[i - 1] \o ss[i]
    <3> TAKE i \in 1..m
    <3>1. CASE i = m
      <4>1. m # 1 => m - 1 \in 1..m /\ m - 1 # m
        BY <2>1
      <4>2. m # 1 => g[m - 1] = f[m - 1]
        BY <4>1
      <4> QED BY <3>1, <4>2
    <3>2. CASE i # m
      <4>1. i \in 1..(m - 1)
        BY <2>1, <3>2
      <4>2. f[i] = IF i = 1 THEN ss[i] ELSE f[i - 1] \o ss[i]
        BY <2>2, <4>1 DEF IsFlat
      <4>3. i # 1 => i - 1 \in 1..m /\ i - 1 # m
        BY <2>1
      <4> QED BY <3>2, <4>2, <4>3
    <3> QED BY <3>1, <3>2
  <2>4. IsFlat(g, ss, m)
    BY <2>3 DEF IsFlat
  <2> QED BY <2>4, <1>2
<1> QED BY <1>3, <1>4

(* A flattened sequence has the elements of the sequences it is made of. *)
LEMMA FlattenFacts ==
  ASSUME NEW S, NEW ss \in Seq(Seq(S)), NEW flat, flat = Seqs!FlattenSeq(ss)
  PROVE  /\ flat \in Seq(S)
         /\ Elems(flat) = UNION {Elems(ss[i]) : i \in 1..Len(ss)}
         /\ flat = << >> <=> \A i \in 1..Len(ss) : ss[i] = << >>
<1> DEFINE n == Len(ss)
<1>1. n \in Nat /\ \A i \in 1..n : ss[i] \in Seq(S)
  OBVIOUS
<1>2. CASE n = 0
  <2>1. flat = << >> /\ 1..n = {}
    BY <1>2, EmptySeq DEF Seqs!FlattenSeq
  <2> QED BY <2>1, ElemsEmpty
<1>3. CASE n # 0
  <2> DEFINE f == CHOOSE h : IsFlat(h, ss, n)
  <2>1. IsFlat(f, ss, n)
    BY <1>1, FlatExists
  <2>2. flat = f[n]
    BY <1>3 DEF Seqs!FlattenSeq, IsFlat
  <2> HIDE DEF f
  <2> DEFINE Good(k) == /\ f[k] \in Seq(S)
                        /\ Elems(f[k]) = UNION {Elems(ss[i]) : i \in 1..k}
             Bad == {k \in Nat : k \in 1..n /\ ~Good(k)}
  <2>3. Bad = {}
    <3> SUFFICES ASSUME Bad # {} PROVE FALSE
      OBVIOUS
    <3>1. PICK m \in Bad : \A k \in Bad : m <= k
      BY LeastOf, Zenon
    <3>2. m \in 1..n /\ n \in Nat /\ m \in Nat
      BY <1>1, <3>1
    <3>3. f[m] = IF m = 1 THEN ss[m] ELSE f[m - 1] \o ss[m]
      BY <2>1, <3>2 DEF IsFlat
    <3>4. CASE m = 1
      <4>1. f[m] = ss[1] /\ 1..m = {1}
        BY <3>3, <3>4
      <4>2. Good(m)
        BY <1>1, <3>2, <3>4, <4>1
      <4> QED BY <3>1, <4>2
    <3>5. CASE m # 1
      <4>1. m - 1 \in 1..n /\ m - 1 \in Nat /\ m - 1 < m /\ 1..m = 1..(m - 1) \cup {m}
        BY <3>2, <3>5
      <4>2. Good(m - 1)
        <5>1. ~(m <= m - 1)
          BY <3>2
        <5>2. m - 1 \notin Bad
          BY <3>1, <5>1
        <5> QED BY <4>1, <5>2
      <4>3. ss[m] \in Seq(S) /\ f[m] = f[m - 1] \o ss[m]
        BY <1>1, <3>2, <3>3, <3>5
      <4>4. f[m] \in Seq(S) /\ Elems(f[m]) = Elems(f[m - 1]) \cup Elems(ss[m])
        BY <4>2, <4>3, ElemsConcat
      <4>5. Good(m)
        BY <4>1, <4>2, <4>4, SMTT(40)
      <4> QED BY <3>1, <4>5
    <3> QED BY <3>4, <3>5
  <2>4. n \in 1..n /\ n \in Nat
    BY <1>1, <1>3
  <2>5. flat \in Seq(S) /\ Elems(flat) = UNION {Elems(ss[i]) : i \in 1..n}
    BY <2>2, <2>3, <2>4
  <2>6. flat = << >> <=> Elems(flat) = {}
    BY <2>5, ElemsEmpty
  <2>7. \A i \in 1..n : ss[i] = << >> <=> Elems(ss[i]) = {}
    BY <1>1, ElemsEmpty
  <2>8. Elems(flat) = {} <=> \A i \in 1..n : Elems(ss[i]) = {}
    <3> HIDE DEF n
    <3>1. Elems(flat) = UNION {Elems(ss[i]) : i \in 1..n}
      BY <2>5
    <3>2. ASSUME Elems(flat) = {}, NEW i \in 1..n PROVE Elems(ss[i]) = {}
      BY <3>1, <3>2
    <3>3. ASSUME \A i \in 1..n : Elems(ss[i]) = {} PROVE Elems(flat) = {}
      BY <3>1, <3>3
    <3> QED BY <3>2, <3>3
  <2>9. flat = << >> <=> \A i \in 1..n : ss[i] = << >>
    BY <2>6, <2>7, <2>8
  <2> QED BY <2>5, <2>9
<1> QED BY <1>2, <1>3
-----------------------------------------------------------------------------
(* The expressions in an expression. *)
SubBody(f, e) == {e} \cup UNION {f[x] : x \in Operands(e)}
IsSubExprs(f) == f = [e \in Expressions |-> SubBody(f, e)]

LEMMA SubExprsExist == \E f : IsSubExprs(f)
<1> DEFINE V == SUBSET Expressions
           body == [p \in [Expressions -> V] \X Expressions |-> SubBody(p[1], p[2])]
<1>1. V # {}
  OBVIOUS
<1>2. ASSUME NEW f \in [Expressions -> V], NEW e \in Expressions PROVE SubBody(f, e) \in V
  BY ExprFacts DEF SubBody
<1>3. \A f \in [Expressions -> V], e \in Expressions : body[<<f, e>>] = SubBody(f, e)
  OBVIOUS
<1>4. body \in [[Expressions -> V] \X Expressions -> V]
  BY <1>2
<1>5. \A f, g \in [Expressions -> V], e \in Expressions :
        (\A x \in Operands(e) : f[x] = g[x]) => SubBody(f, e) = SubBody(g, e)
  BY DEF SubBody
<1> HIDE DEF body
<1>6. Recursive(V, body)
  BY <1>3, <1>4, <1>5 DEF Recursive
<1> HIDE DEF V
<1>7. PICK h \in [Expressions -> V] : \A e \in Expressions : h[e] = body[<<h, e>>]
  BY <1>1, <1>6, RecursiveFunction
<1>8. h = [e \in Expressions |-> SubBody(h, e)]
  BY <1>3, <1>7
<1> QED BY <1>8 DEF IsSubExprs

LEMMA SubExprsIs ==
  \A e \in Expressions : SubExprs[e] = {e} \cup UNION {SubExprs[x] : x \in Operands(e)}
<1> PICK f : f = CHOOSE h : IsSubExprs(h)
  OBVIOUS
<1>1. IsSubExprs(f)
  BY SubExprsExist
<1>2. SubExprs = f
  BY DEF SubExprs, IsSubExprs, SubBody
<1>3. \A e \in Expressions : f[e] = SubBody(f, e)
  BY <1>1 DEF IsSubExprs
<1> QED BY <1>2, <1>3 DEF SubBody

LEMMA SubExprsFacts ==
  ASSUME NEW e \in Expressions
  PROVE  /\ e \in SubExprs[e]
         /\ SubExprs[e] \subseteq Expressions
         /\ \A x \in Operands(e) : SubExprs[x] \subseteq SubExprs[e]
<1> DEFINE S == {x \in Expressions : SubExprs[x] \subseteq Expressions}
<1>1. \A x \in Expressions : Operands(x) \subseteq S => x \in S
  BY SubExprsIs
<1>2. Expressions \subseteq S
  <2> HIDE DEF S
  <2> QED BY <1>1, ExprInduction
<1> QED BY <1>2, SubExprsIs
-----------------------------------------------------------------------------
(* What the check says of an expression. *)
CodeNames == {"E0401", "E0402", "E0403", "E0404", "E0501", "E0502", "E0701", "E0801", "E0902",
              "E2001", "E3001", "E4001", "E4101", "E4201", "E4202", "E4301"}
Codes == Seq(CodeNames)
Tys == {TyError, Named("bool"), Named("void"), Named("*u8"), Named("str_static"), IntLiteral(0)}
         \cup {IntLiteral(e.value) : e \in Expressions}
         \cup {Named(functions[n].ret) : n \in DOMAIN functions}
         \cup {Named(vars[n].type) : n \in DOMAIN vars}
Typings == [ty : Tys, errs : Codes]

LEMMA CodesTyped ==
  /\ \A x \in CodeNames : <<x>> \in Codes /\ <<x>> # << >>
  /\ << >> \in Codes
  /\ \A s, t \in Codes : s \o t \in Codes /\ (s \o t = << >> <=> s = << >> /\ t = << >>)
<1>1. ASSUME NEW x \in CodeNames PROVE <<x>> \in Codes /\ <<x>> # << >>
  <2>1. <<x>> \in Codes
    BY DEF Codes
  <2>2. Len(<<x>>) = 1 /\ Len(<< >>) = 0
    OBVIOUS
  <2> QED BY <2>1, <2>2
<1>2. << >> \in Codes
  BY DEF Codes
<1>3. \A s, t \in Codes : s \o t \in Codes /\ (s \o t = << >> <=> s = << >> /\ t = << >>)
  BY ElemsConcat DEF Codes
<1> QED BY <1>1, <1>2, <1>3

LEMMA RequireTyped ==
  ASSUME NEW type, NEW ty
  PROVE  require_type(type, ty) \in Codes
<1>1. << >> \in Codes /\ <<"E4001">> \in Codes /\ <<"E0402">> \in Codes
  BY CodesTyped DEF CodeNames
<1> QED BY <1>1 DEF require_type, If

LEMMA UnsafeTyped ==
  ASSUME NEW sig
  PROVE  UnsafeCall(sig) \in Codes
<1>1. << >> \in Codes /\ <<"E0701">> \in Codes
  BY CodesTyped DEF CodeNames
<1> QED BY <1>1 DEF UnsafeCall, If

LEMMA TypingOf ==
  ASSUME NEW ty \in Tys, NEW errs \in Codes
  PROVE  /\ Typed(ty, errs) \in Typings
         /\ Typed(ty, errs).ty = ty /\ Typed(ty, errs).errs = errs
BY DEF Typed, Typings

LEMMA CallTyped ==
  ASSUME NEW callee, NEW args \in Seq(Typings)
  PROVE  call_type(callee, args) \in Typings
<1>1. \A i \in 1..Len(args) : args[i].errs \in Codes
  <2>1. \A a \in Typings : a.errs \in Codes
    BY DEF Typings
  <2> QED BY <2>1
<1>2. CASE callee = "io.write"
  <2> DEFINE first == If("syscall" \notin requires, "E2001")
             kinds == If(~(/\ is_numeric_or_literal(args[1].ty)
                           /\ is_str(args[2].ty)
                           /\ is_numeric_or_literal(args[3].ty)), "E0402")
             rest == IF Len(args) # 3 THEN <<"E0404">>
                     ELSE args[1].errs \o args[2].errs \o args[3].errs \o kinds
  <2>1. first \in Codes /\ kinds \in Codes
    <3>1. << >> \in Codes /\ <<"E2001">> \in Codes /\ <<"E0402">> \in Codes
      BY CodesTyped DEF CodeNames
    <3> QED BY <3>1 DEF If
  <2>2. Len(args) = 3 => args[1].errs \in Codes /\ args[2].errs \in Codes /\ args[3].errs \in Codes
    BY <1>1
  <2> HIDE DEF first, kinds
  <2>3. rest \in Codes
    <3>1. <<"E0404">> \in Codes
      BY CodesTyped DEF CodeNames
    <3>2. CASE Len(args) = 3
      BY <2>1, <2>2, <3>2, CodesTyped
    <3> QED BY <3>1, <3>2
  <2> HIDE DEF rest
  <2>4. first \o rest \in Codes
    BY <2>1, <2>3, CodesTyped
  <2>5. Named("void") \in Tys
    BY DEF Tys
  <2>6. call_type(callee, args) = Typed(Named("void"), first \o rest)
    BY <1>2 DEF call_type, first, rest, kinds
  <2> QED BY <2>4, <2>5, <2>6, TypingOf
<1>3. CASE callee = "mem.alloc"
  <2> DEFINE errs == If("heap" \notin requires, "E0801") \o If(unsafeDepth = 0, "E0701")
                       \o If(Len(args) # 1, "E0404")
  <2>1. errs \in Codes
    <3>1. << >> \in Codes /\ <<"E0801">> \in Codes /\ <<"E0701">> \in Codes /\ <<"E0404">> \in Codes
      BY CodesTyped DEF CodeNames
    <3>2. /\ If("heap" \notin requires, "E0801") \in Codes
          /\ If(unsafeDepth = 0, "E0701") \in Codes
          /\ If(Len(args) # 1, "E0404") \in Codes
      BY <3>1 DEF If
    <3> QED BY <3>2, CodesTyped, Zenon
  <2>2. Named("*u8") \in Tys
    BY DEF Tys
  <2>3. call_type(callee, args) = Typed(Named("*u8"), errs)
    BY <1>3 DEF call_type
  <2> HIDE DEF errs
  <2> QED BY <2>1, <2>2, <2>3, TypingOf
<1>4. CASE callee \notin {"io.write", "mem.alloc"} /\ Has(functions, callee)
  <2> DEFINE sig == functions[callee]
             ss == [i \in 1..Len(args) |->
                      args[i].errs \o require_type(sig.params[i], args[i].ty)]
             rest == IF Len(sig.params) # Len(args) THEN <<"E0404">> ELSE Seqs!FlattenSeq(ss)
  <2>1. \A i \in 1..Len(args) : args[i].errs \o require_type(sig.params[i], args[i].ty) \in Codes
    BY <1>1, CodesTyped, RequireTyped
  <2>2. ss \in Seq(Seq(CodeNames))
    BY <2>1 DEF Codes
  <2>3. Seqs!FlattenSeq(ss) \in Codes
    <3> HIDE DEF ss
    <3> QED BY <2>2, FlattenFacts DEF Codes
  <2>4. rest \in Codes
    <3> HIDE DEF ss, sig
    <3>1. <<"E0404">> \in Codes
      BY CodesTyped DEF CodeNames
    <3> QED BY <2>3, <3>1
  <2>5. Named(sig.ret) \in Tys
    BY <1>4 DEF Tys, Has
  <2>6. call_type(callee, args) = Typed(Named(sig.ret), UnsafeCall(sig) \o rest)
    BY <1>4 DEF call_type
  <2> HIDE DEF rest, sig
  <2>7. UnsafeCall(sig) \o rest \in Codes
    BY <2>4, CodesTyped, UnsafeTyped
  <2> QED BY <2>5, <2>6, <2>7, TypingOf
<1>5. CASE callee \notin {"io.write", "mem.alloc"} /\ ~Has(functions, callee)
  <2>1. call_type(callee, args) = Typed(TyError, <<"E0403">>)
    BY <1>5 DEF call_type
  <2>2. <<"E0403">> \in Codes
    BY CodesTyped DEF CodeNames
  <2>3. TyError \in Tys
    BY DEF Tys
  <2> QED BY <2>1, <2>2, <2>3, TypingOf
<1> QED BY <1>2, <1>3, <1>4, <1>5

TypeBody(f, e) == type_from(e, [x \in Operands(e) |-> f[x]])

LEMMA IdentTyped ==
  ASSUME NEW name
  PROVE  ident_type(name) \in Typings
<1>0. << >> \in Codes /\ <<"E0401">> \in Codes /\ <<"E0404">> \in Codes
  BY CodesTyped DEF CodeNames
<1>1. CASE Has(vars, name)
  <2>1. Named(vars[name].type) \in Tys
    BY <1>1 DEF Tys, Has
  <2>2. ident_type(name) = Typed(Named(vars[name].type), << >>)
    BY <1>1 DEF ident_type
  <2> QED BY <1>0, <2>1, <2>2, TypingOf
<1>2. CASE ~Has(vars, name) /\ Has(functions, name)
  <2> DEFINE errs == If(functions[name].params # << >>, "E0404") \o UnsafeCall(functions[name])
  <2>1. Named(functions[name].ret) \in Tys
    BY <1>2 DEF Tys, Has
  <2>2. If(functions[name].params # << >>, "E0404") \in Codes
    BY <1>0 DEF If
  <2>3. errs \in Codes
    BY <2>2, UnsafeTyped, CodesTyped
  <2>4. ident_type(name) = Typed(Named(functions[name].ret), errs)
    BY <1>2 DEF ident_type
  <2> HIDE DEF errs
  <2> QED BY <2>1, <2>3, <2>4, TypingOf
<1>3. CASE ~Has(vars, name) /\ ~Has(functions, name)
  <2>1. ident_type(name) = Typed(TyError, <<"E0401">>)
    BY <1>3 DEF ident_type
  <2>2. TyError \in Tys
    BY DEF Tys
  <2> QED BY <1>0, <2>1, <2>2, TypingOf
<1> QED BY <1>1, <1>2, <1>3

LEMMA UnaryTyped ==
  ASSUME NEW op, NEW t \in Typings
  PROVE  unary_type(op, t) \in Typings
<1>1. t.ty \in Tys /\ t.errs \in Codes /\ Named("bool") \in Tys
  BY DEF Typings, Tys
<1>2. << >> \in Codes /\ <<"E0402">> \in Codes
  BY CodesTyped DEF CodeNames
<1>3. If(~is_bool(t.ty), "E0402") \in Codes /\ If(~is_numeric_or_literal(t.ty), "E0402") \in Codes
  BY <1>2 DEF If
<1>4. /\ t.errs \o If(~is_bool(t.ty), "E0402") \in Codes
      /\ t.errs \o If(~is_numeric_or_literal(t.ty), "E0402") \in Codes
  BY <1>1, <1>3, CodesTyped, Zenon
<1> QED BY <1>1, <1>4, TypingOf DEF unary_type

LEMMA BinaryTyped ==
  ASSUME NEW op, NEW left \in Tys, NEW right \in Tys
  PROVE  binary_type(op, left, right) \in Typings
<1>1. << >> \in Codes /\ <<"E0402">> \in Codes /\ <<"E3001">> \in Codes
  BY CodesTyped DEF CodeNames
<1>2. Named("bool") \in Tys /\ TyError \in Tys /\ merge_numeric(left, right) \in Tys
  BY DEF Tys, merge_numeric
<1>3. /\ If(~compatible_loose(left, right), "E0402") \in Codes
      /\ If(~is_bool(left) \/ ~is_bool(right), "E0402") \in Codes
  BY <1>1 DEF If
<1>4. /\ Typed(TyError, <<"E3001">>) \in Typings
      /\ Typed(TyError, <<"E0402">>) \in Typings
      /\ Typed(merge_numeric(left, right), << >>) \in Typings
      /\ Typed(Named("bool"), If(~compatible_loose(left, right), "E0402")) \in Typings
      /\ Typed(Named("bool"), If(~is_bool(left) \/ ~is_bool(right), "E0402")) \in Typings
  BY <1>1, <1>2, <1>3, TypingOf
<1> QED BY <1>4 DEF binary_type

LEMMA FromTyped ==
  ASSUME NEW e \in Expressions, NEW t \in [Operands(e) -> Typings]
  PROVE  type_from(e, t) \in Typings
<1>1. IsExpression(e) /\ \A x \in Operands(e) : t[x] \in Typings
  BY ExprFacts
<1>2. << >> \in Codes /\ <<"E0403">> \in Codes
  BY CodesTyped DEF CodeNames
<1>3. CASE e.k = "int"
  <2>1. IntLiteral(e.value) \in Tys
    BY DEF Tys
  <2> QED BY <1>2, <1>3, <2>1, TypingOf DEF type_from
<1>4. CASE e.k = "str"
  <2>1. Named("str_static") \in Tys
    BY DEF Tys
  <2> QED BY <1>2, <1>4, <2>1, TypingOf DEF type_from
<1>5. CASE e.k = "bool"
  <2>1. Named("bool") \in Tys
    BY DEF Tys
  <2> QED BY <1>2, <1>5, <2>1, TypingOf DEF type_from
<1>6. CASE e.k = "ident"
  BY <1>6, IdentTyped DEF type_from
<1>7. CASE e.k = "path"
  <2>1. TyError \in Tys
    BY DEF Tys
  <2> QED BY <1>2, <1>7, <2>1, TypingOf DEF type_from
<1>8. CASE e.k = "unary"
  <2>1. t[e.expr] \in Typings
    BY <1>1, <1>8 DEF Operands
  <2> QED BY <1>8, <2>1, UnaryTyped DEF type_from
<1>9. CASE e.k = "call"
  <2> DEFINE args == [i \in 1..Len(e.args) |-> t[e.args[i]]]
  <2>1. \A i \in 1..Len(e.args) : t[e.args[i]] \in Typings
    BY <1>1, <1>9 DEF Operands
  <2>2. Len(e.args) \in Nat
    BY <1>1, <1>9 DEF IsExpression
  <2>3. args \in Seq(Typings)
    BY <2>1, <2>2
  <2>4. type_from(e, t) = call_type(e.callee, args)
    BY <1>9 DEF type_from
  <2> HIDE DEF args
  <2> QED BY <2>3, <2>4, CallTyped
<1>10. CASE e.k = "binary"
  <2> PICK left, right : left = t[e.left] /\ right = t[e.right]
    OBVIOUS
  <2> DEFINE both == binary_type(e.op, left.ty, right.ty)
  <2>1. left \in Typings /\ right \in Typings
    BY <1>1, <1>10 DEF Operands
  <2>2. left.ty \in Tys /\ right.ty \in Tys /\ left.errs \in Codes /\ right.errs \in Codes
    BY <2>1 DEF Typings
  <2>3. type_from(e, t) = Typed(both.ty, left.errs \o right.errs \o both.errs)
    BY <1>10 DEF type_from
  <2>4. both \in Typings
    BY <2>2, BinaryTyped
  <2> HIDE DEF both
  <2>5. both.ty \in Tys /\ both.errs \in Codes
    BY <2>4 DEF Typings
  <2>6. left.errs \o right.errs \o both.errs \in Codes
    BY <2>2, <2>5, CodesTyped
  <2> QED BY <2>3, <2>5, <2>6, TypingOf
<1> QED BY <1>1, <1>3, <1>4, <1>5, <1>6, <1>7, <1>8, <1>9, <1>10 DEF IsExpression

IsExprType(f) == f = [e \in Expressions |-> TypeBody(f, e)]

LEMMA ExprTypeExists == \E f : IsExprType(f)
<1> DEFINE V == Typings
           body == [p \in [Expressions -> V] \X Expressions |-> TypeBody(p[1], p[2])]
<1>1. V # {}
  <2>1. Typed(TyError, << >>) \in V
    BY CodesTyped, TypingOf DEF Tys
  <2> QED BY <2>1
<1>2. ASSUME NEW f \in [Expressions -> V], NEW e \in Expressions PROVE TypeBody(f, e) \in V
  <2>1. [x \in Operands(e) |-> f[x]] \in [Operands(e) -> Typings]
    BY ExprFacts
  <2> QED BY <2>1, FromTyped DEF TypeBody
<1>3. \A f \in [Expressions -> V], e \in Expressions : body[<<f, e>>] = TypeBody(f, e)
  OBVIOUS
<1>4. body \in [[Expressions -> V] \X Expressions -> V]
  BY <1>2
<1>5. ASSUME NEW f, NEW g, NEW e, \A x \in Operands(e) : f[x] = g[x]
      PROVE  TypeBody(f, e) = TypeBody(g, e)
  <2>1. [x \in Operands(e) |-> f[x]] = [x \in Operands(e) |-> g[x]]
    BY <1>5
  <2> QED BY <2>1 DEF TypeBody
<1> HIDE DEF body
<1>6. Recursive(V, body)
  BY <1>3, <1>4, <1>5 DEF Recursive
<1> HIDE DEF V
<1>7. PICK h \in [Expressions -> V] : \A e \in Expressions : h[e] = body[<<h, e>>]
  BY <1>1, <1>6, RecursiveFunction
<1>8. h = [e \in Expressions |-> TypeBody(h, e)]
  BY <1>3, <1>7
<1> QED BY <1>8 DEF IsExprType

LEMMA ExprTypeIs ==
  ASSUME NEW e \in Expressions, NEW t, t = [x \in Operands(e) |-> expr_type[x]]
  PROVE  /\ expr_type[e] = type_from(e, t)
         /\ expr_type[e] \in Typings
         /\ t \in [Operands(e) -> Typings]
<1> PICK f : f = CHOOSE h : IsExprType(h)
  OBVIOUS
<1>1. IsExprType(f)
  BY ExprTypeExists
<1>2. expr_type = f
  BY DEF expr_type, IsExprType, TypeBody
<1>3. \A y \in Expressions : f[y] = TypeBody(f, y)
  BY <1>1 DEF IsExprType
<1> DEFINE S == {y \in Expressions : f[y] \in Typings}
<1>4. Expressions \subseteq S
  <2>1. ASSUME NEW y \in Expressions, Operands(y) \subseteq S PROVE f[y] \in Typings
    <3>1. [x \in Operands(y) |-> f[x]] \in [Operands(y) -> Typings]
      BY <2>1
    <3> QED BY <1>3, <3>1, FromTyped DEF TypeBody
  <2>2. \A y \in Expressions : Operands(y) \subseteq S => y \in S
    BY <2>1
  <2> HIDE DEF S
  <2> QED BY <2>2, ExprInduction
<1>5. t \in [Operands(e) -> Typings]
  BY <1>2, <1>4, ExprFacts
<1>6. expr_type[e] = TypeBody(expr_type, e) /\ expr_type[e] \in Typings
  BY <1>2, <1>3, <1>4
<1>7. TypeBody(expr_type, e) = type_from(e, t)
  BY DEF TypeBody
<1> QED BY <1>5, <1>6, <1>7

(* What no diagnostic lets an expression use, where it is checked; the     *)
(* arguments of mem.alloc are looked at nowhere.                           *)
IsAlloc(e) == e.k = "call" /\ e.callee = "mem.alloc"
MayCall(name) == name \in DOMAIN functions /\ (functions[name].unsafe => unsafeDepth # 0)
Allowed(e) ==
  /\ e.k = "call" /\ e.callee = "io.write" => "syscall" \in requires /\ Len(e.args) = 3
  /\ e.k = "call" /\ e.callee \notin {"io.write", "mem.alloc"} =>
       MayCall(e.callee) /\ Len(e.args) = Len(functions[e.callee].params)
  /\ e.k = "ident" /\ e.name \notin DOMAIN vars => MayCall(e.name)

LEMMA IfEmpty ==
  /\ If("syscall" \notin requires, "E2001") \in Codes
  /\ If("syscall" \notin requires, "E2001") = << >> => "syscall" \in requires
  /\ \A sig : UnsafeCall(sig) = << >> => (sig.unsafe => unsafeDepth # 0)
<1>1. << >> \in Codes /\ <<"E2001">> \in Codes /\ <<"E0701">> # << >> /\ <<"E2001">> # << >>
  BY CodesTyped DEF CodeNames
<1>2. \A sig : UnsafeCall(sig) = << >> => (sig.unsafe => unsafeDepth # 0)
  BY <1>1 DEF UnsafeCall, If
<1> QED BY <1>1, <1>2 DEF If

LEMMA CallChecked ==
  ASSUME NEW callee, callee # "mem.alloc", NEW args \in Seq(Typings),
         call_type(callee, args).errs = << >>
  PROVE  /\ \A i \in 1..Len(args) : args[i].errs = << >>
         /\ callee = "io.write" => "syscall" \in requires /\ Len(args) = 3
         /\ callee # "io.write" => MayCall(callee) /\ Len(args) = Len(functions[callee].params)
<1>1. \A i \in 1..Len(args) : args[i].errs \in Codes
  <2>1. \A a \in Typings : a.errs \in Codes
    BY DEF Typings
  <2> QED BY <2>1
<1>0. <<"E0404">> \in Codes /\ <<"E0403">> \in Codes /\ <<"E0404">> # << >> /\ <<"E0403">> # << >>
  BY CodesTyped DEF CodeNames
<1>2. CASE callee = "io.write"
  <2> PICK first : first = If("syscall" \notin requires, "E2001")
    OBVIOUS
  <2> PICK kinds : kinds = If(~(/\ is_numeric_or_literal(args[1].ty)
                                /\ is_str(args[2].ty)
                                /\ is_numeric_or_literal(args[3].ty)), "E0402")
    OBVIOUS
  <2> PICK rest : rest = IF Len(args) # 3 THEN <<"E0404">>
                         ELSE args[1].errs \o args[2].errs \o args[3].errs \o kinds
    OBVIOUS
  <2>1. first \in Codes
    BY IfEmpty
  <2>2. kinds \in Codes
    <3>1. << >> \in Codes /\ <<"E0402">> \in Codes
      BY CodesTyped DEF CodeNames
    <3> QED BY <3>1 DEF If
  <2>3. Len(args) = 3 => args[1].errs \in Codes /\ args[2].errs \in Codes /\ args[3].errs \in Codes
    BY <1>1
  <2>4. rest \in Codes
    BY <1>0, <2>2, <2>3, CodesTyped
  <2>5. call_type(callee, args) = Typed(Named("void"), first \o rest)
    BY <1>2 DEF call_type
  <2>6. first \o rest = << >>
    BY <2>5 DEF Typed
  <2>7. first = << >> /\ rest = << >>
    BY <2>1, <2>4, <2>6, CodesTyped
  <2>8. Len(args) = 3
    BY <1>0, <2>7
  <2>9. args[1].errs = << >> /\ args[2].errs = << >> /\ args[3].errs = << >>
    <3>1. args[1].errs \o args[2].errs \o args[3].errs \o kinds = << >>
      BY <2>7, <2>8
    <3>2. args[1].errs \o args[2].errs \o args[3].errs \in Codes
      BY <2>3, <2>8, CodesTyped
    <3>3. args[1].errs \o args[2].errs \in Codes
      BY <2>3, <2>8, CodesTyped
    <3>4. args[1].errs \o args[2].errs \o args[3].errs = << >>
      BY <2>2, <3>1, <3>2, CodesTyped
    <3>5. args[1].errs \o args[2].errs = << >> /\ args[3].errs = << >>
      BY <2>3, <2>8, <3>3, <3>4, CodesTyped
    <3> QED BY <2>3, <2>8, <3>5, CodesTyped
  <2>10. \A i \in 1..Len(args) : i = 1 \/ i = 2 \/ i = 3
    BY <2>8
  <2>11. "syscall" \in requires
    BY <2>7, IfEmpty
  <2> QED BY <1>2, <2>8, <2>9, <2>10, <2>11
<1>3. CASE callee # "io.write" /\ Has(functions, callee)
  <2> PICK sig : sig = functions[callee]
    OBVIOUS
  <2> DEFINE ss == [i \in 1..Len(args) |->
                      args[i].errs \o require_type(sig.params[i], args[i].ty)]
  <2>0. \A i \in 1..Len(args) : args[i].errs \o require_type(sig.params[i], args[i].ty) \in Codes
    BY <1>1, CodesTyped, RequireTyped
  <2>1. \A i \in 1..Len(args) : ss[i] = args[i].errs \o require_type(sig.params[i], args[i].ty)
    OBVIOUS
  <2>2. ss \in Seq(Codes) /\ Len(ss) = Len(args)
    <3>1. Len(args) \in Nat
      OBVIOUS
    <3> QED BY <2>0, <3>1
  <2> PICK rest : rest = IF Len(sig.params) # Len(args) THEN <<"E0404">> ELSE Seqs!FlattenSeq(ss)
    OBVIOUS
  <2>3. call_type(callee, args) = Typed(Named(sig.ret), UnsafeCall(sig) \o rest)
    BY <1>3 DEF call_type
  <2>4. UnsafeCall(sig) \o rest = << >>
    BY <2>3 DEF Typed
  <2> HIDE DEF ss
  <2>5. Seqs!FlattenSeq(ss) \in Codes
    BY <2>2, FlattenFacts DEF Codes
  <2>6. UnsafeCall(sig) \in Codes /\ rest \in Codes
    BY <1>0, <2>5, UnsafeTyped
  <2>7. UnsafeCall(sig) = << >> /\ rest = << >>
    BY <2>4, <2>6, CodesTyped
  <2>8. Seqs!FlattenSeq(ss) = << >>
    BY <1>0, <2>7
  <2>9. \A i \in 1..Len(args) : ss[i] = << >>
    BY <2>2, <2>8, FlattenFacts DEF Codes
  <2>10. \A i \in 1..Len(args) : args[i].errs = << >>
    BY <1>1, <2>1, <2>9, CodesTyped, RequireTyped, ZenonT(60)
  <2>11. sig.unsafe => unsafeDepth # 0
    BY <2>7, IfEmpty
  <2>12. Len(sig.params) = Len(args)
    BY <1>0, <2>7
  <2> QED BY <1>3, <2>10, <2>11, <2>12 DEF MayCall, Has
<1>4. CASE callee # "io.write" /\ ~Has(functions, callee)
  <2>1. call_type(callee, args) = Typed(TyError, <<"E0403">>)
    BY <1>4 DEF call_type
  <2> QED BY <1>0, <2>1 DEF Typed
<1> QED BY <1>2, <1>3, <1>4

LEMMA IdentChecked ==
  ASSUME NEW name, ident_type(name).errs = << >>, name \notin DOMAIN vars
  PROVE  MayCall(name)
<1>0. << >> \in Codes /\ <<"E0404">> \in Codes /\ <<"E0401">> # << >>
  BY CodesTyped DEF CodeNames
<1>1. CASE Has(functions, name)
  <2> PICK first : first = If(functions[name].params # << >>, "E0404")
    OBVIOUS
  <2>1. first \in Codes
    BY <1>0 DEF If
  <2>2. ident_type(name) = Typed(Named(functions[name].ret), first \o UnsafeCall(functions[name]))
    BY <1>1 DEF ident_type, Has
  <2>3. first \o UnsafeCall(functions[name]) = << >>
    BY <2>2 DEF Typed
  <2>4. UnsafeCall(functions[name]) = << >>
    BY <2>1, <2>3, UnsafeTyped, CodesTyped
  <2> QED BY <1>1, <2>4, IfEmpty DEF MayCall, Has
<1>2. CASE ~Has(functions, name)
  <2>1. ident_type(name) = Typed(TyError, <<"E0401">>)
    BY <1>2 DEF ident_type, Has
  <2> QED BY <1>0, <2>1 DEF Typed
<1> QED BY <1>1, <1>2

(* An expression without a diagnostic, and its operands. *)
LEMMA OwnChecked ==
  ASSUME NEW e \in Expressions, expr_type[e].errs = << >>, ~IsAlloc(e)
  PROVE  /\ Allowed(e)
         /\ \A x \in Operands(e) : expr_type[x].errs = << >>
<1> PICK t : t = [x \in Operands(e) |-> expr_type[x]]
  OBVIOUS
<1>1. expr_type[e] = type_from(e, t) /\ t \in [Operands(e) -> Typings] /\ IsExpression(e)
  BY ExprTypeIs, ExprFacts
<1>2. type_from(e, t).errs = << >>
  BY <1>1
<1>3. \A x \in Operands(e) : t[x] = expr_type[x] /\ t[x] \in Typings
  BY <1>1
<1>4. \A a \in Typings : a.errs \in Codes /\ a.ty \in Tys
  BY DEF Typings
<1>5. CASE e.k \in {"int", "str", "bool", "path"}
  BY <1>5 DEF Allowed, Operands
<1>6. CASE e.k = "ident"
  <2>1. ident_type(e.name).errs = << >>
    BY <1>2, <1>6 DEF type_from
  <2> QED BY <1>6, <2>1, IdentChecked DEF Allowed, Operands
<1>7. CASE e.k = "unary"
  <2>1. unary_type(e.op, t[e.expr]).errs = << >>
    BY <1>2, <1>7 DEF type_from
  <2>2. t[e.expr].errs \in Codes
    BY <1>3, <1>4, <1>7 DEF Operands
  <2>3. PICK more \in Codes : unary_type(e.op, t[e.expr]).errs = t[e.expr].errs \o more
    <3>1. << >> \in Codes /\ <<"E0402">> \in Codes
      BY CodesTyped DEF CodeNames
    <3>2. /\ If(~is_bool(t[e.expr].ty), "E0402") \in Codes
          /\ If(~is_numeric_or_literal(t[e.expr].ty), "E0402") \in Codes
      BY <3>1 DEF If
    <3> QED BY <3>2 DEF unary_type, Typed
  <2>4. t[e.expr].errs = << >>
    BY <2>1, <2>2, <2>3, CodesTyped
  <2> QED BY <1>3, <1>7, <2>4 DEF Allowed, Operands
<1>8. CASE e.k = "binary"
  <2> PICK left, right : left = t[e.left] /\ right = t[e.right]
    OBVIOUS
  <2> PICK both : both = binary_type(e.op, left.ty, right.ty)
    OBVIOUS
  <2>1. left \in Typings /\ right \in Typings
    BY <1>3, <1>8 DEF Operands
  <2>2. left.errs \in Codes /\ right.errs \in Codes /\ both.errs \in Codes
    BY <1>4, <2>1, BinaryTyped
  <2>3. left.errs \o right.errs \o both.errs = << >>
    BY <1>2, <1>8 DEF type_from, Typed
  <2>4. left.errs \o right.errs \in Codes
    BY <2>2, CodesTyped
  <2>5. left.errs \o right.errs = << >>
    BY <2>2, <2>3, <2>4, CodesTyped
  <2>6. left.errs = << >> /\ right.errs = << >>
    BY <2>2, <2>5, CodesTyped
  <2> QED BY <1>3, <1>8, <2>6 DEF Allowed, Operands
<1>9. CASE e.k = "call"
  <2> DEFINE args == [i \in 1..Len(e.args) |-> t[e.args[i]]]
  <2>1. \A i \in 1..Len(e.args) : t[e.args[i]] \in Typings
    BY <1>3, <1>9 DEF Operands
  <2>2. Len(e.args) \in Nat
    BY <1>1, <1>9 DEF IsExpression
  <2>3. args \in Seq(Typings) /\ Len(args) = Len(e.args)
    BY <2>1, <2>2
  <2>4. call_type(e.callee, args).errs = << >>
    BY <1>2, <1>9 DEF type_from
  <2>5. \A i \in 1..Len(e.args) : args[i] = t[e.args[i]]
    OBVIOUS
  <2> HIDE DEF args
  <2>6. e.callee # "mem.alloc"
    BY <1>9 DEF IsAlloc
  <2>7. /\ \A i \in 1..Len(args) : args[i].errs = << >>
        /\ e.callee = "io.write" => "syscall" \in requires /\ Len(args) = 3
        /\ e.callee # "io.write" =>
             MayCall(e.callee) /\ Len(args) = Len(functions[e.callee].params)
    BY <2>3, <2>4, <2>6, CallChecked
  <2>8. Allowed(e)
    BY <1>9, <2>3, <2>7 DEF Allowed
  <2>9. \A x \in Operands(e) : expr_type[x].errs = << >>
    <3> TAKE x \in Operands(e)
    <3>1. PICK i \in 1..Len(e.args) : x = e.args[i]
      BY <1>9 DEF Operands
    <3> QED BY <1>3, <2>3, <2>5, <2>7, <3>1
  <2> QED BY <2>8, <2>9
<1> QED BY <1>1, <1>5, <1>6, <1>7, <1>8, <1>9 DEF IsExpression

(* An expression without a diagnostic uses nothing that is not allowed,    *)
(* as long as there is no mem.alloc in it.                                 *)
LEMMA ExprChecked ==
  ASSUME NEW e \in Expressions, expr_type[e].errs = << >>, \A x \in SubExprs[e] : ~IsAlloc(x)
  PROVE  \A x \in SubExprs[e] : Allowed(x)
<1> DEFINE Clean(y) == expr_type[y].errs = << >> /\ \A x \in SubExprs[y] : ~IsAlloc(x)
           S == {y \in Expressions : Clean(y) => \A x \in SubExprs[y] : Allowed(x)}
<1>1. ASSUME NEW y \in Expressions, Operands(y) \subseteq S, Clean(y), NEW x \in SubExprs[y]
      PROVE  Allowed(x)
  <2>1. Allowed(y) /\ \A z \in Operands(y) : expr_type[z].errs = << >>
    BY <1>1, OwnChecked, SubExprsFacts
  <2>2. \A z \in Operands(y) : Clean(z)
    BY <1>1, <2>1, SubExprsFacts
  <2>3. x = y \/ \E z \in Operands(y) : x \in SubExprs[z]
    BY <1>1, SubExprsIs
  <2> QED BY <1>1, <2>1, <2>2, <2>3
<1>2. \A y \in Expressions : Operands(y) \subseteq S => y \in S
  BY <1>1
<1> HIDE DEF S
<1>3. Expressions \subseteq S
  BY <1>2, ExprInduction
<1> QED BY <1>3 DEF S
-----------------------------------------------------------------------------
(* The lines of an expression. *)
Quiet == {"imm", "flag", "load", "push", "pop", "neg", "not", "mov rbx", "alu", "idiv", "cmp"}
LineOps == Quiet \cup {"lea", "call", "write"}
LineArgs == {0, "", "string", "rax", "rdx", "rsi", "rdi", "add", "sub", "imul", "and", "or",
             "sete", "setne", "setl", "setle", "setg", "setge"}
              \cup {Regs[i] : i \in Nat} \cup {env[n] : n \in DOMAIN env}
              \cup {e.value : e \in Expressions} \cup {e.name : e \in Expressions}
              \cup {e.callee : e \in Expressions}
Lines == LineOps \X LineArgs
LineSeqs == Seq(Lines)

LEMMA LinesConcat ==
  /\ << >> \in LineSeqs /\ Elems(<< >>) = {}
  /\ \A x \in Lines : <<x>> \in LineSeqs
  /\ \A s, t \in LineSeqs : s \o t \in LineSeqs /\ Elems(s \o t) = Elems(s) \cup Elems(t)
<1>1. \A x \in Lines : <<x>> \in LineSeqs
  BY DEF LineSeqs
<1>2. << >> \in LineSeqs /\ Elems(<< >>) = {}
  BY DEF LineSeqs, Elems
<1> QED BY <1>1, <1>2, ElemsConcat DEF LineSeqs

LEMMA LineOf ==
  ASSUME NEW op \in LineOps, NEW arg \in LineArgs
  PROVE  /\ Line(op, arg) \in Lines /\ Line(op, arg)[1] = op
         /\ <<Line(op, arg)>> \in LineSeqs
         /\ Elems(<<Line(op, arg)>>) = {Line(op, arg)}
<1>1. Line(op, arg) \in Lines /\ Line(op, arg)[1] = op
  BY DEF Line, Lines
<1> QED BY <1>1, ElemsOne, LinesConcat

(* The lines an expression adds to those of its operands. *)
OwnLine(e, l) ==
  \/ l[1] \in Quiet
  \/ e.k = "call" /\ e.callee = "io.write" /\ l = Line("write", "")
  \/ e.k = "call" /\ e.callee # "io.write" /\ l = Line("call", e.callee)
  \/ e.k = "str" /\ l = Line("lea", "string")
  \/ e.k = "ident" /\ e.name \notin DOMAIN env /\ e.name \in DOMAIN functions /\ l = Line("call", e.name)
HasOwn(e, s) ==
  /\ e.k = "call" /\ e.callee # "io.write" => Line("call", e.callee) \in Elems(s)
  /\ e.k = "str" => Line("lea", "string") \in Elems(s)

LEMMA PushedLines ==
  ASSUME NEW s \in LineSeqs
  PROVE  Pushed(s) \in LineSeqs /\ Elems(Pushed(s)) = Elems(s) \cup {Line("push", "rax")}
<1>1. <<Line("push", "rax")>> \in LineSeqs /\ Elems(<<Line("push", "rax")>>) = {Line("push", "rax")}
  <2>1. "push" \in LineOps /\ "rax" \in LineArgs
    BY DEF LineOps, Quiet, LineArgs
  <2> QED BY <2>1, LineOf
<1> QED BY <1>1, LinesConcat DEF Pushed

ArgPop(j) == IF j <= Len(Regs) THEN <<Line("pop", Regs[j])>> ELSE << >>

LEMMA FiveLines ==
  ASSUME NEW a \in Lines, NEW b \in Lines, NEW c \in Lines, NEW d \in Lines, NEW e \in Lines,
         NEW s, s = <<a, b, c, d, e>>
  PROVE  s \in LineSeqs /\ Elems(s) = {a, b, c, d, e}
<1>1. Len(s) = 5 /\ s[1] = a /\ s[2] = b /\ s[3] = c /\ s[4] = d /\ s[5] = e
  OBVIOUS
<1>2. s \in LineSeqs
  BY DEF LineSeqs
<1>3. 1..5 = {1, 2, 3, 4, 5}
  OBVIOUS
<1>4. Elems(s) = {s[i] : i \in {1, 2, 3, 4, 5}}
  BY <1>1, <1>3 DEF Elems
<1> HIDE DEF Elems
<1> QED BY <1>1, <1>2, <1>4

LEMMA CallLines ==
  ASSUME NEW callee \in LineArgs, NEW args \in Seq(LineSeqs), NEW s, s = emit_call(callee, args)
  PROVE  /\ s \in LineSeqs
         /\ \A i \in 1..Len(args) : Elems(args[i]) \subseteq Elems(s)
         /\ \A l \in Elems(s) : \/ \E i \in 1..Len(args) : l \in Elems(args[i])
                                \/ l[1] \in Quiet
                                \/ callee = "io.write" /\ l = Line("write", "")
                                \/ callee # "io.write" /\ l = Line("call", callee)
         /\ callee # "io.write" => Line("call", callee) \in Elems(s)
<1> DEFINE ss == [i \in 1..Len(args) |-> Pushed(args[i])]
<1>1. Len(args) \in Nat /\ \A i \in 1..Len(args) : args[i] \in LineSeqs
  OBVIOUS
<1>2. \A i \in 1..Len(args) : /\ Pushed(args[i]) \in LineSeqs
                              /\ Elems(Pushed(args[i])) = Elems(args[i]) \cup {Line("push", "rax")}
  BY <1>1, PushedLines
<1>3. ss \in Seq(LineSeqs) /\ Len(ss) = Len(args)
  BY <1>1, <1>2
<1>4. \A i \in 1..Len(args) : Elems(ss[i]) = Elems(args[i]) \cup {Line("push", "rax")}
  BY <1>2
<1> PICK first : first = Seqs!FlattenSeq(ss)
  OBVIOUS
<1> HIDE DEF ss
<1>5. first \in LineSeqs /\ Elems(first) = UNION {Elems(ss[i]) : i \in 1..Len(args)}
  BY <1>3, FlattenFacts DEF LineSeqs
<1>6. \A i \in 1..Len(args) : Elems(args[i]) \subseteq Elems(first)
  BY <1>4, <1>5
<1>7. ASSUME NEW l \in Elems(first)
      PROVE  (\E i \in 1..Len(args) : l \in Elems(args[i])) \/ l[1] \in Quiet
  <2>1. PICK i \in 1..Len(args) : l \in Elems(ss[i])
    BY <1>5
  <2>2. Line("push", "rax")[1] \in Quiet
    BY DEF Line, Quiet
  <2>3. l \in Elems(args[i]) \/ l = Line("push", "rax")
    BY <1>4, <2>1
  <2> QED BY <2>2, <2>3
<1>8. CASE callee = "io.write"
  <2>0. PICK rest : rest = <<Line("pop", "rdx"), Line("pop", "rsi"), Line("pop", "rdi"),
                             Line("write", ""), Line("imm", 0)>>
    OBVIOUS
  <2>1. /\ Line("pop", "rdx") \in Lines /\ Line("pop", "rsi") \in Lines /\ Line("pop", "rdi") \in Lines
        /\ Line("write", "") \in Lines /\ Line("imm", 0) \in Lines
    <3>1. /\ "pop" \in LineOps /\ "write" \in LineOps /\ "imm" \in LineOps
          /\ "rdx" \in LineArgs /\ "rsi" \in LineArgs /\ "rdi" \in LineArgs
          /\ "" \in LineArgs /\ 0 \in LineArgs
      BY DEF LineOps, Quiet, LineArgs
    <3> QED BY <3>1, LineOf
  <2>2. /\ rest \in LineSeqs
        /\ Elems(rest) = {Line("pop", "rdx"), Line("pop", "rsi"), Line("pop", "rdi"),
                          Line("write", ""), Line("imm", 0)}
    <3>1. PICK a, b, c, d, e : /\ a = Line("pop", "rdx") /\ b = Line("pop", "rsi") /\ c = Line("pop", "rdi")
                               /\ d = Line("write", "") /\ e = Line("imm", 0)
      OBVIOUS
    <3>2. a \in Lines /\ b \in Lines /\ c \in Lines /\ d \in Lines /\ e \in Lines
      BY <2>1, <3>1
    <3>3. rest = <<a, b, c, d, e>>
      BY <2>0, <3>1
    <3>4. rest \in LineSeqs /\ Elems(rest) = {a, b, c, d, e}
      BY <3>2, <3>3, FiveLines
    <3> QED BY <3>1, <3>4
  <2>9. rest \in LineSeqs /\ first \in LineSeqs
    BY <1>5, <2>2
  <2>3. \A l \in Elems(rest) : l[1] \in Quiet \/ l = Line("write", "")
    <3>1. /\ Line("pop", "rdx")[1] \in Quiet /\ Line("pop", "rsi")[1] \in Quiet
          /\ Line("pop", "rdi")[1] \in Quiet /\ Line("imm", 0)[1] \in Quiet
      BY DEF Line, Quiet
    <3> QED BY <2>2, <3>1
  <2>4. s = first \o rest
    BY <1>8, <2>0 DEF emit_call, ss
  <2>5. s \in LineSeqs /\ Elems(s) = Elems(first) \cup Elems(rest)
    BY <2>4, <2>9, LinesConcat
  <2> QED BY <1>6, <1>7, <1>8, <2>3, <2>5
<1>9. CASE callee # "io.write"
  <2> DEFINE pops == [i \in 1..Len(args) |-> ArgPop(Len(args) + 1 - i)]
  <2>1. ASSUME NEW i \in 1..Len(args)
        PROVE  /\ ArgPop(Len(args) + 1 - i) \in LineSeqs
               /\ \A l \in Elems(ArgPop(Len(args) + 1 - i)) : l[1] \in Quiet
    <3> PICK j : j = Len(args) + 1 - i
      OBVIOUS
    <3>1. j \in Nat
      BY <1>1
    <3>2. Regs[j] \in LineArgs /\ "pop" \in LineOps /\ "pop" \in Quiet
      BY <3>1 DEF LineArgs, LineOps, Quiet
    <3>3. /\ <<Line("pop", Regs[j])>> \in LineSeqs /\ Line("pop", Regs[j])[1] = "pop"
          /\ Elems(<<Line("pop", Regs[j])>>) = {Line("pop", Regs[j])}
      BY <3>2, LineOf
    <3>4. << >> \in LineSeqs /\ Elems(<< >>) = {}
      BY LinesConcat
    <3>5. CASE j <= Len(Regs)
      BY <3>2, <3>3, <3>5 DEF ArgPop
    <3>6. CASE ~(j <= Len(Regs))
      BY <3>4, <3>6 DEF ArgPop
    <3> QED BY <3>5, <3>6
  <2>2. pops \in Seq(LineSeqs) /\ Len(pops) = Len(args)
    BY <1>1, <2>1
  <2>3. \A i \in 1..Len(args) : pops[i] = ArgPop(Len(args) + 1 - i)
    OBVIOUS
  <2> PICK mid : mid = Seqs!FlattenSeq(pops)
    OBVIOUS
  <2>4. s = first \o (mid \o <<Line("call", callee)>>)
    BY <1>9 DEF emit_call, ss, ArgPop
  <2> HIDE DEF pops
  <2>5. mid \in LineSeqs /\ Elems(mid) = UNION {Elems(pops[i]) : i \in 1..Len(args)}
    BY <2>2, FlattenFacts DEF LineSeqs
  <2>6. \A l \in Elems(mid) : l[1] \in Quiet
    BY <2>1, <2>3, <2>5
  <2>7. <<Line("call", callee)>> \in LineSeqs /\ Elems(<<Line("call", callee)>>) = {Line("call", callee)}
    <3>1. "call" \in LineOps
      BY DEF LineOps
    <3> QED BY <3>1, LineOf
  <2>10. PICK rest : rest = mid \o <<Line("call", callee)>>
    OBVIOUS
  <2>8. rest \in LineSeqs /\ Elems(rest) = Elems(mid) \cup {Line("call", callee)}
    BY <2>5, <2>7, <2>10, LinesConcat
  <2>9. s \in LineSeqs /\ Elems(s) = Elems(first) \cup Elems(rest)
    BY <1>5, <2>4, <2>8, <2>10, LinesConcat
  <2> QED BY <1>6, <1>7, <1>9, <2>6, <2>8, <2>9
<1> QED BY <1>8, <1>9

(* One line, or two sequences of them, in terms of what they hold. *)
LEMMA FromLines ==
  ASSUME NEW e \in Expressions, NEW t \in [Operands(e) -> LineSeqs], NEW s, s = emit_from(e, t)
  PROVE  /\ s \in LineSeqs
         /\ \A x \in Operands(e) : Elems(t[x]) \subseteq Elems(s)
         /\ \A l \in Elems(s) : OwnLine(e, l) \/ \E x \in Operands(e) : l \in Elems(t[x])
         /\ HasOwn(e, s)
<1>1. IsExpression(e) /\ \A x \in Operands(e) : t[x] \in LineSeqs
  BY ExprFacts
<1>2. /\ "imm" \in LineOps /\ "flag" \in LineOps /\ "lea" \in LineOps /\ "load" \in LineOps
      /\ "call" \in LineOps /\ "neg" \in LineOps /\ "not" \in LineOps /\ "mov rbx" \in LineOps
      /\ "pop" \in LineOps /\ "alu" \in LineOps /\ "idiv" \in LineOps /\ "cmp" \in LineOps
      /\ 0 \in LineArgs /\ "string" \in LineArgs /\ "rax" \in LineArgs
      /\ e.value \in LineArgs /\ e.name \in LineArgs /\ e.callee \in LineArgs
  BY DEF LineOps, Quiet, LineArgs
<1>3. ASSUME NEW op \in LineOps, NEW arg \in LineArgs, s = <<Line(op, arg)>>, Operands(e) = {},
             OwnLine(e, Line(op, arg)), e.k # "call", e.k = "str" => Line(op, arg) = Line("lea", "string")
      PROVE  /\ s \in LineSeqs
             /\ \A x \in Operands(e) : Elems(t[x]) \subseteq Elems(s)
             /\ \A l \in Elems(s) : OwnLine(e, l) \/ \E x \in Operands(e) : l \in Elems(t[x])
             /\ HasOwn(e, s)
  <2>1. s \in LineSeqs /\ Elems(s) = {Line(op, arg)}
    BY <1>3, LineOf
  <2> QED BY <1>3, <2>1 DEF HasOwn
<1>4. CASE e.k \in {"int", "bool", "path"}
  <2>1. Operands(e) = {}
    BY <1>4 DEF Operands
  <2>2. \E op \in {"imm", "flag"}, arg \in LineArgs : s = <<Line(op, arg)>>
    BY <1>2, <1>4 DEF emit_from
  <2>3. PICK op \in {"imm", "flag"}, arg \in LineArgs : s = <<Line(op, arg)>>
    BY <2>2
  <2>4. OwnLine(e, Line(op, arg)) /\ op \in LineOps
    BY DEF OwnLine, Line, Quiet, LineOps
  <2> QED BY <1>3, <1>4, <2>1, <2>3, <2>4
<1>5. CASE e.k = "str"
  <2>1. Operands(e) = {} /\ s = <<Line("lea", "string")>> /\ OwnLine(e, Line("lea", "string"))
    BY <1>5 DEF Operands, emit_from, OwnLine
  <2> QED BY <1>2, <1>3, <1>5, <2>1
<1>6. CASE e.k = "ident"
  <2>1. Operands(e) = {} /\ s = <<emit_ident(e.name)>>
    BY <1>6 DEF Operands, emit_from
  <2>2. CASE e.name \in DOMAIN env
    <3>1. emit_ident(e.name) = Line("load", env[e.name]) /\ env[e.name] \in LineArgs
      BY <2>2 DEF emit_ident, Has, LineArgs
    <3>2. OwnLine(e, Line("load", env[e.name]))
      BY DEF OwnLine, Line, Quiet
    <3> QED BY <1>2, <1>3, <1>6, <2>1, <3>1, <3>2
  <2>3. CASE e.name \notin DOMAIN env /\ e.name \in DOMAIN functions
    <3>1. emit_ident(e.name) = Line("call", e.name)
      BY <2>3 DEF emit_ident, Has
    <3>2. OwnLine(e, Line("call", e.name))
      BY <1>6, <2>3 DEF OwnLine
    <3> QED BY <1>2, <1>3, <1>6, <2>1, <3>1, <3>2
  <2>4. CASE e.name \notin DOMAIN env /\ e.name \notin DOMAIN functions
    <3>1. emit_ident(e.name) = Line("imm", 0)
      BY <2>4 DEF emit_ident, Has
    <3>2. OwnLine(e, Line("imm", 0))
      BY DEF OwnLine, Line, Quiet
    <3> QED BY <1>2, <1>3, <1>6, <2>1, <3>1, <3>2
  <2> QED BY <2>2, <2>3, <2>4
<1>7. CASE e.k = "unary"
  <2>1. Operands(e) = {e.expr} /\ t[e.expr] \in LineSeqs
    BY <1>1, <1>7 DEF Operands
  <2>2. PICK op \in {"neg", "not"} : s = t[e.expr] \o <<Line(op, "rax")>>
    BY <1>7 DEF emit_from
  <2>3. op \in LineOps /\ OwnLine(e, Line(op, "rax"))
    BY DEF OwnLine, Line, Quiet, LineOps
  <2>4. <<Line(op, "rax")>> \in LineSeqs /\ Elems(<<Line(op, "rax")>>) = {Line(op, "rax")}
    BY <1>2, <2>3, LineOf
  <2>5. s \in LineSeqs /\ Elems(s) = Elems(t[e.expr]) \cup {Line(op, "rax")}
    BY <2>1, <2>2, <2>4, LinesConcat
  <2> QED BY <1>7, <2>1, <2>3, <2>5 DEF HasOwn
<1>8. CASE e.k = "binary"
  <2>1. Operands(e) = {e.left, e.right} /\ t[e.left] \in LineSeqs /\ t[e.right] \in LineSeqs
    BY <1>1, <1>8 DEF Operands
  <2>2. PICK op \in {"alu", "idiv", "cmp"}, arg \in LineArgs : operation(e.op) = Line(op, arg)
    <3>1. e.op \in Arithmetic \cup Comparison \cup {"And", "Or"}
      BY <1>1, <1>8 DEF IsExpression
    <3>2. /\ "add" \in LineArgs /\ "sub" \in LineArgs /\ "imul" \in LineArgs /\ "rax" \in LineArgs
          /\ "rdx" \in LineArgs /\ "sete" \in LineArgs /\ "setne" \in LineArgs /\ "setl" \in LineArgs
          /\ "setle" \in LineArgs /\ "setg" \in LineArgs /\ "setge" \in LineArgs
          /\ "and" \in LineArgs /\ "or" \in LineArgs
      BY DEF LineArgs
    <3> QED BY <3>1, <3>2 DEF operation, Arithmetic, Comparison
  <2>3. PICK a, b, c : a = Line("mov rbx", "rax") /\ b = Line("pop", "rax") /\ c = Line(op, arg)
    OBVIOUS
  <2>4. a \in Lines /\ b \in Lines /\ c \in Lines /\ a[1] \in Quiet /\ b[1] \in Quiet /\ c[1] \in Quiet
    <3>1. op \in LineOps /\ op \in Quiet /\ "mov rbx" \in Quiet /\ "pop" \in Quiet
          /\ "mov rbx" \in LineOps /\ "pop" \in LineOps
      BY DEF LineOps, Quiet
    <3>2. Line("mov rbx", "rax") \in Lines /\ Line("pop", "rax") \in Lines /\ Line(op, arg) \in Lines
      BY <1>2, <3>1, LineOf
    <3>3. a[1] = "mov rbx" /\ b[1] = "pop" /\ c[1] = op
      BY <2>3 DEF Line
    <3> QED BY <2>3, <3>1, <3>2, <3>3
  <2>5. PICK r : r = <<a, b, c>>
    OBVIOUS
  <2>6. r \in LineSeqs /\ Elems(r) = {a, b, c}
    <3>1. Len(r) = 3 /\ r[1] = a /\ r[2] = b /\ r[3] = c
      BY <2>5
    <3>2. r \in LineSeqs
      BY <2>4, <2>5 DEF LineSeqs
    <3>3. 1..3 = {1, 2, 3}
      OBVIOUS
    <3>4. Elems(r) = {r[i] : i \in {1, 2, 3}}
      BY <3>1, <3>3 DEF Elems
    <3> HIDE DEF Elems
    <3> QED BY <3>1, <3>2, <3>4
  <2>7. s = (Pushed(t[e.left]) \o t[e.right]) \o r
    BY <1>8, <2>2, <2>3, <2>5 DEF emit_from
  <2>8. PICK left, both : left = Pushed(t[e.left]) /\ both = left \o t[e.right]
    OBVIOUS
  <2>9. left \in LineSeqs /\ Elems(left) = Elems(t[e.left]) \cup {Line("push", "rax")}
    BY <2>1, <2>8, PushedLines
  <2>10. both \in LineSeqs /\ Elems(both) = Elems(left) \cup Elems(t[e.right])
    BY <2>1, <2>8, <2>9, LinesConcat
  <2>11. s = both \o r
    BY <2>7, <2>8
  <2>12. s \in LineSeqs /\ Elems(s) = Elems(both) \cup Elems(r)
    BY <2>6, <2>10, <2>11, LinesConcat
  <2>13. \A l \in {a, b, c, Line("push", "rax")} : OwnLine(e, l)
    <3>1. Line("push", "rax")[1] \in Quiet
      BY DEF Line, Quiet
    <3> QED BY <2>4, <3>1 DEF OwnLine
  <2>14. Elems(s) = Elems(t[e.left]) \cup Elems(t[e.right]) \cup {a, b, c, Line("push", "rax")}
    BY <2>6, <2>9, <2>10, <2>12
  <2> QED BY <1>8, <2>1, <2>12, <2>13, <2>14 DEF HasOwn
<1>9. CASE e.k = "call"
  <2> DEFINE args == [i \in 1..Len(e.args) |-> t[e.args[i]]]
  <2>1. \A i \in 1..Len(e.args) : t[e.args[i]] \in LineSeqs
    BY <1>1, <1>9 DEF Operands
  <2>2. Len(e.args) \in Nat
    BY <1>1, <1>9 DEF IsExpression
  <2>3. args \in Seq(LineSeqs) /\ Len(args) = Len(e.args)
    BY <2>1, <2>2
  <2>4. s = emit_call(e.callee, args)
    BY <1>9 DEF emit_from
  <2>5. \A i \in 1..Len(e.args) : args[i] = t[e.args[i]]
    OBVIOUS
  <2> HIDE DEF args
  <2>6. /\ s \in LineSeqs
        /\ \A i \in 1..Len(args) : Elems(args[i]) \subseteq Elems(s)
        /\ \A l \in Elems(s) : \/ \E i \in 1..Len(args) : l \in Elems(args[i])
                               \/ l[1] \in Quiet
                               \/ e.callee = "io.write" /\ l = Line("write", "")
                               \/ e.callee # "io.write" /\ l = Line("call", e.callee)
        /\ e.callee # "io.write" => Line("call", e.callee) \in Elems(s)
    BY <1>2, <2>3, <2>4, CallLines
  <2>7. HasOwn(e, s)
    BY <1>9, <2>6 DEF HasOwn
  <2>8. \A x \in Operands(e) : \E i \in 1..Len(args) : t[x] = args[i]
    BY <1>9, <2>3, <2>5 DEF Operands
  <2>9. \A i \in 1..Len(args) : \E x \in Operands(e) : t[x] = args[i]
    BY <1>9, <2>3, <2>5 DEF Operands
  <2>10. \A x \in Operands(e) : Elems(t[x]) \subseteq Elems(s)
    BY <2>6, <2>8
  <2>11. ASSUME NEW l \in Elems(s) PROVE OwnLine(e, l) \/ \E x \in Operands(e) : l \in Elems(t[x])
    <3>1. CASE \E i \in 1..Len(args) : l \in Elems(args[i])
      BY <2>9, <3>1
    <3>2. CASE ~ \E i \in 1..Len(args) : l \in Elems(args[i])
      BY <1>9, <2>6, <3>2 DEF OwnLine
    <3> QED BY <3>1, <3>2
  <2> QED BY <2>6, <2>7, <2>10, <2>11
<1> QED BY <1>1, <1>4, <1>5, <1>6, <1>7, <1>8, <1>9 DEF IsExpression

EmitBody(f, e) == emit_from(e, [x \in Operands(e) |-> f[x]])
IsEmitExpr(f) == f = [e \in Expressions |-> EmitBody(f, e)]

LEMMA EmitExprExists == \E f : IsEmitExpr(f)
<1> DEFINE body == [p \in [Expressions -> LineSeqs] \X Expressions |-> EmitBody(p[1], p[2])]
<1>1. LineSeqs # {}
  BY LinesConcat
<1>2. ASSUME NEW f \in [Expressions -> LineSeqs], NEW e \in Expressions PROVE EmitBody(f, e) \in LineSeqs
  <2>1. [x \in Operands(e) |-> f[x]] \in [Operands(e) -> LineSeqs]
    BY ExprFacts
  <2> QED BY <2>1, FromLines DEF EmitBody
<1>3. \A f \in [Expressions -> LineSeqs], e \in Expressions : body[<<f, e>>] = EmitBody(f, e)
  OBVIOUS
<1>4. body \in [[Expressions -> LineSeqs] \X Expressions -> LineSeqs]
  BY <1>2
<1>5. ASSUME NEW f, NEW g, NEW e, \A x \in Operands(e) : f[x] = g[x]
      PROVE  EmitBody(f, e) = EmitBody(g, e)
  <2>1. [x \in Operands(e) |-> f[x]] = [x \in Operands(e) |-> g[x]]
    BY <1>5
  <2> QED BY <2>1 DEF EmitBody
<1> HIDE DEF body
<1>6. Recursive(LineSeqs, body)
  BY <1>3, <1>4, <1>5 DEF Recursive
<1>7. PICK h \in [Expressions -> LineSeqs] : \A e \in Expressions : h[e] = body[<<h, e>>]
  BY <1>1, <1>6, RecursiveFunction
<1>8. h = [e \in Expressions |-> EmitBody(h, e)]
  BY <1>3, <1>7
<1> QED BY <1>8 DEF IsEmitExpr

LEMMA EmitExprIs ==
  ASSUME NEW e \in Expressions, NEW t, t = [x \in Operands(e) |-> emit_expr[x]]
  PROVE  /\ emit_expr[e] = emit_from(e, t)
         /\ emit_expr[e] \in LineSeqs
         /\ t \in [Operands(e) -> LineSeqs]
<1> PICK f : f = CHOOSE h : IsEmitExpr(h)
  OBVIOUS
<1>1. IsEmitExpr(f)
  BY EmitExprExists
<1>2. emit_expr = f
  BY DEF emit_expr, IsEmitExpr, EmitBody
<1>3. \A y \in Expressions : f[y] = EmitBody(f, y)
  BY <1>1 DEF IsEmitExpr
<1> DEFINE S == {y \in Expressions : f[y] \in LineSeqs}
<1>4. Expressions \subseteq S
  <2>1. ASSUME NEW y \in Expressions, Operands(y) \subseteq S PROVE f[y] \in LineSeqs
    <3>1. [x \in Operands(y) |-> f[x]] \in [Operands(y) -> LineSeqs]
      BY <2>1
    <3> QED BY <1>3, <3>1, FromLines DEF EmitBody
  <2>2. \A y \in Expressions : Operands(y) \subseteq S => y \in S
    BY <2>1
  <2> HIDE DEF S
  <2> QED BY <2>2, ExprInduction
<1>5. t \in [Operands(e) -> LineSeqs]
  BY <1>2, <1>4, ExprFacts
<1>6. emit_expr[e] = EmitBody(emit_expr, e) /\ emit_expr[e] \in LineSeqs
  BY <1>2, <1>3, <1>4
<1>7. EmitBody(emit_expr, e) = emit_from(e, t)
  BY DEF EmitBody
<1> QED BY <1>5, <1>6, <1>7

(* The calls, writes and strings of an expression are those of the         *)
(* expressions in it, and all calls and strings of these are there.        *)
LEMMA ExprLines ==
  ASSUME NEW e \in Expressions
  PROVE  /\ emit_expr[e] \in LineSeqs
         /\ \A l \in Elems(emit_expr[e]) : \E x \in SubExprs[e] : OwnLine(x, l)
         /\ \A x \in SubExprs[e] : HasOwn(x, emit_expr[e])
<1> DEFINE Come(y) == \A l \in Elems(emit_expr[y]) : \E x \in SubExprs[y] : OwnLine(x, l)
           Stay(y) == \A x \in SubExprs[y] : HasOwn(x, emit_expr[y])
           S == {y \in Expressions : Come(y) /\ Stay(y)}
<1>1. ASSUME NEW y \in Expressions, Operands(y) \subseteq S PROVE Come(y) /\ Stay(y)
  <2> PICK t : t = [x \in Operands(y) |-> emit_expr[x]]
    OBVIOUS
  <2>1. emit_expr[y] = emit_from(y, t) /\ t \in [Operands(y) -> LineSeqs]
    BY EmitExprIs
  <2>2. \A x \in Operands(y) : t[x] = emit_expr[x]
    OBVIOUS
  <2>3. /\ \A x \in Operands(y) : Elems(emit_expr[x]) \subseteq Elems(emit_expr[y])
        /\ \A l \in Elems(emit_expr[y]) : OwnLine(y, l) \/ \E x \in Operands(y) : l \in Elems(emit_expr[x])
        /\ HasOwn(y, emit_expr[y])
    BY <2>1, <2>2, FromLines
  <2>4. Come(y)
    <3> SUFFICES ASSUME NEW l \in Elems(emit_expr[y]) PROVE \E x \in SubExprs[y] : OwnLine(x, l)
      OBVIOUS
    <3>1. CASE OwnLine(y, l)
      BY <3>1, SubExprsFacts
    <3>2. CASE \E x \in Operands(y) : l \in Elems(emit_expr[x])
      BY <1>1, <3>2, SubExprsFacts
    <3> QED BY <2>3, <3>1, <3>2
  <2>5. Stay(y)
    <3> SUFFICES ASSUME NEW x \in SubExprs[y] PROVE HasOwn(x, emit_expr[y])
      OBVIOUS
    <3>1. x = y \/ \E z \in Operands(y) : x \in SubExprs[z]
      BY SubExprsIs
    <3>2. ASSUME NEW z \in Operands(y), x \in SubExprs[z] PROVE HasOwn(x, emit_expr[y])
      BY <1>1, <2>3, <3>2 DEF HasOwn
    <3> QED BY <2>3, <3>1, <3>2
  <2> QED BY <2>4, <2>5
<1>2. \A y \in Expressions : Operands(y) \subseteq S => y \in S
  BY <1>1
<1> HIDE DEF S
<1>3. Expressions \subseteq S
  BY <1>2, ExprInduction
<1>4. emit_expr[e] \in LineSeqs
  BY EmitExprIs
<1> QED BY <1>3, <1>4 DEF S
-----------------------------------------------------------------------------
(* Sequences of anything. *)
IsSeq(s) == s \in Seq(Elems(s))

LEMMA SeqFacts ==
  ASSUME NEW s, IsSeq(s)
  PROVE  /\ Len(s) \in Nat
         /\ DOMAIN s = 1..Len(s)
         /\ s = << >> <=> Len(s) = 0
BY EmptySeq DEF IsSeq

LEMMA IsSeqOf ==
  ASSUME NEW S, NEW s \in Seq(S)
  PROVE  IsSeq(s)
<1>1. Len(s) \in Nat /\ \A i \in 1..Len(s) : s[i] \in Elems(s)
  BY DEF Elems
<1>2. s = [i \in 1..Len(s) |-> s[i]]
  OBVIOUS
<1>3. s \in [1..Len(s) -> Elems(s)]
  BY <1>1, <1>2
<1> QED BY <1>1, <1>3 DEF IsSeq

LEMMA ConcatFacts ==
  ASSUME NEW s, NEW t, IsSeq(s), IsSeq(t)
  PROVE  /\ IsSeq(s \o t)
         /\ Elems(s \o t) = Elems(s) \cup Elems(t)
         /\ s \o t = << >> <=> s = << >> /\ t = << >>
         /\ Len(s \o t) = Len(s) + Len(t)
         /\ t # << >> => (s \o t)[Len(s \o t)] = t[Len(t)]
         /\ t = << >> => s \o t = s
<1> PICK S : S = Elems(s) \cup Elems(t)
  OBVIOUS
<1>1. s \in Seq(S) /\ t \in Seq(S)
  BY DEF IsSeq
<1>2. s \o t \in Seq(S)
  BY <1>1
<1>3. /\ Elems(s \o t) = Elems(s) \cup Elems(t)
      /\ s \o t = << >> <=> s = << >> /\ t = << >>
  BY <1>1, ElemsConcat
<1>4. Len(s \o t) = Len(s) + Len(t)
  BY <1>1
<1>5. t # << >> => (s \o t)[Len(s \o t)] = t[Len(t)]
  <2>1. t # << >> => Len(t) \in 1..Len(t)
    BY SeqFacts
  <2> QED BY <1>1, <2>1
<1>6. t = << >> => s \o t = s
  BY <1>1
<1> QED BY <1>2, <1>3, <1>4, <1>5, <1>6, IsSeqOf

LEMMA AppendFacts ==
  ASSUME NEW s, IsSeq(s), NEW x
  PROVE  /\ IsSeq(Append(s, x))
         /\ Len(Append(s, x)) = Len(s) + 1
         /\ Append(s, x)[Len(s) + 1] = x
         /\ \A i \in 1..Len(s) : Append(s, x)[i] = s[i]
<1> PICK S : S = Elems(s) \cup {x}
  OBVIOUS
<1>1. s \in Seq(S) /\ x \in S
  BY DEF IsSeq
<1>2. Append(s, x) \in Seq(S) /\ Len(Append(s, x)) = Len(s) + 1
  BY <1>1
<1>3. Append(s, x)[Len(s) + 1] = x
  BY <1>1
<1>4. \A i \in 1..Len(s) : Append(s, x)[i] = s[i]
  BY <1>1
<1>5. IsSeq(Append(s, x))
  BY <1>2, IsSeqOf
<1> QED BY <1>2, <1>3, <1>4, <1>5

LEMMA FrontFacts ==
  ASSUME NEW s, IsSeq(s), s # << >>, NEW t, t = SubSeq(s, 1, Len(s) - 1)
  PROVE  /\ IsSeq(t)
         /\ Len(t) = Len(s) - 1
         /\ \A i \in 1..Len(t) : t[i] = s[i]
         /\ s = Append(t, s[Len(s)])
<1> PICK S : S = Elems(s)
  OBVIOUS
<1>1. s \in Seq(S) /\ Len(s) \in Nat /\ Len(s) > 0
  BY SeqFacts DEF IsSeq
<1>2. t \in Seq(S) /\ Len(t) = Len(s) - 1 /\ \A i \in 1..Len(t) : t[i] = s[i]
  <2> PICK m : m = Len(s) - 1
    OBVIOUS
  <2>1. m \in Nat /\ \A i \in 1..m : i \in 1..Len(s)
    BY <1>1
  <2>2. \A i \in 1..m : s[i] \in S
    BY <1>1, <2>1
  <2>3. t = [i \in 1..m |-> s[i]]
    BY <1>1, <2>1
  <2>4. t \in Seq(S)
    BY <2>1, <2>2, <2>3
  <2>5. Len(t) = m
    BY <2>1, <2>3
  <2> QED BY <2>3, <2>4, <2>5
<1>3. s = Append(t, s[Len(s)])
  <2> PICK x : x = s[Len(s)]
    OBVIOUS
  <2>1. x \in S
    BY <1>1
  <2>2. Append(t, x) \in Seq(S) /\ Len(Append(t, x)) = Len(s)
    BY <1>1, <1>2, <2>1
  <2>3. \A i \in 1..Len(s) : Append(t, x)[i] = s[i]
    BY <1>1, <1>2, <2>1
  <2> QED BY <1>1, <2>2, <2>3
<1> QED BY <1>2, <1>3, IsSeqOf
-----------------------------------------------------------------------------
(* How many members of a sequence are of some kinds. *)
KindsIn(s, K) == {i \in DOMAIN s : s[i].k \in K}
Follows(s, t) == Len(s) = Len(t) /\ \A i \in 1..Len(s) : s[i].k = t[i].k

LEMMA CountFacts ==
  ASSUME NEW s, IsSeq(s), NEW K
  PROVE  /\ IsFiniteSet(KindsIn(s, K))
         /\ Cardinality(KindsIn(s, K)) \in Nat
         /\ Cardinality(KindsIn(s, K)) = 0 <=> \A i \in 1..Len(s) : s[i].k \notin K
<1>1. IsFiniteSet(1..Len(s))
  BY SeqFacts, FS_Interval
<1>2. KindsIn(s, K) \in SUBSET (1..Len(s))
  BY SeqFacts DEF KindsIn
<1>3. IsFiniteSet(KindsIn(s, K))
  BY <1>1, <1>2, FS_Subset
<1>4. Cardinality(KindsIn(s, K)) \in Nat /\ (Cardinality(KindsIn(s, K)) = 0 <=> KindsIn(s, K) = {})
  BY <1>3, FS_CardinalityType, FS_EmptySet
<1>5. KindsIn(s, K) = {} <=> \A i \in 1..Len(s) : s[i].k \notin K
  BY SeqFacts DEF KindsIn
<1> QED BY <1>3, <1>4, <1>5

LEMMA CountAppend ==
  ASSUME NEW s, IsSeq(s), NEW x, NEW K
  PROVE  /\ x.k \in K => Cardinality(KindsIn(Append(s, x), K)) = Cardinality(KindsIn(s, K)) + 1
         /\ x.k \notin K => Cardinality(KindsIn(Append(s, x), K)) = Cardinality(KindsIn(s, K))
<1> PICK t : t = Append(s, x)
  OBVIOUS
<1>1. /\ IsSeq(t) /\ Len(s) \in Nat /\ Len(t) = Len(s) + 1 /\ t[Len(s) + 1] = x
      /\ \A i \in 1..Len(s) : t[i] = s[i]
      /\ DOMAIN s = 1..Len(s) /\ DOMAIN t = 1..(Len(s) + 1)
  BY AppendFacts, SeqFacts
<1>2. CASE x.k \in K
  <2>1. KindsIn(t, K) = KindsIn(s, K) \cup {Len(s) + 1}
    BY <1>1, <1>2 DEF KindsIn
  <2>2. Len(s) + 1 \notin KindsIn(s, K)
    BY <1>1 DEF KindsIn
  <2> QED BY <1>2, <2>1, <2>2, CountFacts, FS_AddElement
<1>3. CASE x.k \notin K
  <2>1. KindsIn(t, K) = KindsIn(s, K)
    BY <1>1, <1>3 DEF KindsIn
  <2> QED BY <1>3, <2>1
<1> QED BY <1>2, <1>3

LEMMA CountSame ==
  ASSUME NEW s, NEW t, IsSeq(s), IsSeq(t), Follows(s, t), NEW K
  PROVE  KindsIn(s, K) = KindsIn(t, K)
BY SeqFacts DEF Follows, KindsIn

(* The largest of some numbers. *)
LEMMA MaxFacts ==
  ASSUME NEW n \in Nat, NEW S \in SUBSET (1..n), S # {}
  PROVE  Ext!Max(S) \in S /\ \A i \in S : i <= Ext!Max(S)
<1> DEFINE T == {n - i : i \in S}
<1>1. T \in SUBSET Nat /\ T # {}
  <2>1. \A i \in S : n - i \in Nat
    OBVIOUS
  <2>2. PICK i \in S : TRUE
    OBVIOUS
  <2> QED BY <2>1, <2>2
<1>2. PICK m \in T : \A k \in T : m <= k
  <2> HIDE DEF T
  <2> QED BY <1>1, LeastOf
<1>3. PICK x \in S : m = n - x
  OBVIOUS
<1>4. \A y \in S : x >= y
  <2> TAKE y \in S
  <2>1. n - y \in T
    OBVIOUS
  <2> QED BY <1>2, <1>3, <2>1
<1> QED BY <1>3, <1>4 DEF Ext!Max
-----------------------------------------------------------------------------
(* Programs: what is said of the nodes of p stays so when q has one more.  *)
LastFnOf(p, i) == Ext!Max({j \in 1..i : p[j].k = "fn"})
DepthOf(p, i, j) == Cardinality({h \in i..j : p[h].k \in Opening})
                      - Cardinality({h \in i..j : p[h].k = "end"})
LocalsOf(p, i) ==
  {p[i].params[m].name : m \in 1..Len(p[i].params)}
    \cup {p[j].name : j \in {h \in (i + 1)..Len(p) : p[h].k = "var" /\ LastFnOf(p, h) = i}}
OpenAt(p, j, i) == \A h \in j..i : DepthOf(p, j, h) >= 1
UnsafeAt(p, i) ==
  \/ p[LastFnOf(p, i)].unsafe
  \/ \E j \in 1..(i - 1) : p[j].k = "unsafe" /\ OpenAt(p, j, i)
FnFirst(p) == IsSeq(p) /\ (p # << >> => p[1].k = "fn")
Grows(p, x, q) == FnFirst(p) /\ (p = << >> => x.k = "fn") /\ q = Append(p, x)

LEMMA LastFnFacts ==
  ASSUME NEW p, FnFirst(p), NEW i \in 1..Len(p)
  PROVE  /\ LastFnOf(p, i) \in 1..i
         /\ p[LastFnOf(p, i)].k = "fn"
         /\ \A j \in 1..i : p[j].k = "fn" => j <= LastFnOf(p, i)
<1> DEFINE S == {j \in 1..i : p[j].k = "fn"}
<1>1. Len(p) \in Nat /\ i \in Nat /\ 1 \in 1..i
  BY SeqFacts DEF FnFirst
<1>2. p # << >>
  BY <1>1, SeqFacts DEF FnFirst
<1>3. 1 \in S /\ S \in SUBSET (1..i)
  BY <1>1, <1>2 DEF FnFirst
<1>4. S # {}
  BY <1>3
<1>5. Ext!Max(S) \in S /\ \A j \in S : j <= Ext!Max(S)
  <2> HIDE DEF S
  <2> QED BY <1>1, <1>3, <1>4, MaxFacts
<1> QED BY <1>5 DEF LastFnOf

LEMMA LastFnNext ==
  ASSUME NEW p, FnFirst(p), NEW i \in Nat, i + 1 \in 1..Len(p)
  PROVE  /\ p[i + 1].k = "fn" => LastFnOf(p, i + 1) = i + 1
         /\ p[i + 1].k # "fn" => LastFnOf(p, i + 1) = LastFnOf(p, i)
<1>1. CASE p[i + 1].k = "fn"
  <2>1. LastFnOf(p, i + 1) \in 1..(i + 1) /\ i + 1 <= LastFnOf(p, i + 1)
    BY <1>1, LastFnFacts
  <2> QED BY <1>1, <2>1
<1>2. CASE p[i + 1].k # "fn"
  <2>1. {j \in 1..(i + 1) : p[j].k = "fn"} = {j \in 1..i : p[j].k = "fn"}
    BY <1>2
  <2> QED BY <1>2, <2>1 DEF LastFnOf
<1> QED BY <1>1, <1>2

LEMMA DepthNext ==
  ASSUME NEW p, NEW i \in Nat, NEW j \in Nat, i <= j + 1
  PROVE  /\ DepthOf(p, i, j) \in Int
         /\ p[j + 1].k \in Opening => DepthOf(p, i, j + 1) = DepthOf(p, i, j) + 1
         /\ p[j + 1].k = "end" => DepthOf(p, i, j + 1) = DepthOf(p, i, j) - 1
         /\ p[j + 1].k \notin Opening \cup {"end"} => DepthOf(p, i, j + 1) = DepthOf(p, i, j)
         /\ DepthOf(p, j + 1, j) = 0
<1> DEFINE Up(n) == {h \in i..n : p[h].k \in Opening}
           Down(n) == {h \in i..n : p[h].k = "end"}
<1>1. /\ IsFiniteSet(Up(j)) /\ IsFiniteSet(Down(j))
      /\ Cardinality(Up(j)) \in Nat /\ Cardinality(Down(j)) \in Nat
  <2>1. IsFiniteSet(i..j) /\ Up(j) \in SUBSET (i..j) /\ Down(j) \in SUBSET (i..j)
    BY FS_Interval
  <2> HIDE DEF Up, Down
  <2> QED BY <2>1, FS_Subset, FS_CardinalityType
<1>2. j + 1 \notin Up(j) /\ j + 1 \notin Down(j)
  OBVIOUS
<1>3. /\ p[j + 1].k \in Opening => Up(j + 1) = Up(j) \cup {j + 1}
      /\ p[j + 1].k \notin Opening => Up(j + 1) = Up(j)
      /\ p[j + 1].k = "end" => Down(j + 1) = Down(j) \cup {j + 1}
      /\ p[j + 1].k # "end" => Down(j + 1) = Down(j)
  OBVIOUS
<1>4. DepthOf(p, i, j) = Cardinality(Up(j)) - Cardinality(Down(j))
  BY DEF DepthOf
<1>5. DepthOf(p, i, j + 1) = Cardinality(Up(j + 1)) - Cardinality(Down(j + 1))
  BY DEF DepthOf
<1>6. "end" \notin Opening
  BY DEF Opening
<1>7. DepthOf(p, j + 1, j) = 0
  <2>1. (j + 1)..j = {}
    OBVIOUS
  <2>2. PICK up, down : /\ up = {h \in (j + 1)..j : p[h].k \in Opening}
                        /\ down = {h \in (j + 1)..j : p[h].k = "end"}
    OBVIOUS
  <2>3. up = {} /\ down = {}
    BY <2>1, <2>2
  <2>4. Cardinality(up) - Cardinality(down) = 0
    BY <2>3, FS_EmptySet
  <2> QED BY <2>2, <2>4 DEF DepthOf
<1> HIDE DEF Up, Down
<1>8. /\ Cardinality(Up(j) \cup {j + 1}) = Cardinality(Up(j)) + 1
      /\ Cardinality(Down(j) \cup {j + 1}) = Cardinality(Down(j)) + 1
  BY <1>1, <1>2, FS_AddElement
<1>9. DepthOf(p, i, j) \in Int
  BY <1>1, <1>4
<1>13. PICK a, b, c, d : /\ a = Cardinality(Up(j)) /\ b = Cardinality(Down(j))
                         /\ c = Cardinality(Up(j + 1)) /\ d = Cardinality(Down(j + 1))
  OBVIOUS
<1>14. a \in Nat /\ b \in Nat /\ DepthOf(p, i, j) = a - b /\ DepthOf(p, i, j + 1) = c - d
  BY <1>1, <1>4, <1>5, <1>13
<1>10. CASE p[j + 1].k \in Opening
  <2>1. p[j + 1].k # "end"
    BY <1>6, <1>10
  <2>2. c = a + 1 /\ d = b
    BY <1>3, <1>8, <1>10, <1>13, <2>1
  <2>3. DepthOf(p, i, j + 1) = DepthOf(p, i, j) + 1
    BY <1>14, <2>2
  <2> QED BY <1>7, <1>9, <1>10, <2>1, <2>3
<1>11. CASE p[j + 1].k = "end"
  <2>1. p[j + 1].k \notin Opening
    BY <1>6, <1>11
  <2>2. c = a /\ d = b + 1
    BY <1>3, <1>8, <1>11, <1>13, <2>1
  <2>3. DepthOf(p, i, j + 1) = DepthOf(p, i, j) - 1
    BY <1>14, <2>2
  <2> QED BY <1>7, <1>9, <1>11, <2>1, <2>3
<1>12. CASE p[j + 1].k \notin Opening \cup {"end"}
  BY <1>1, <1>3, <1>4, <1>5, <1>6, <1>7, <1>8, <1>9, <1>12
<1> QED BY <1>10, <1>11, <1>12

LEMMA Grown ==
  ASSUME NEW p, NEW x, NEW q, Grows(p, x, q)
  PROVE  /\ FnFirst(p) /\ FnFirst(q) /\ Len(p) \in Nat /\ Len(q) = Len(p) + 1 /\ q[Len(p) + 1] = x
         /\ \A i \in 1..Len(p) : /\ q[i] = p[i]
                                 /\ LastFnOf(q, i) = LastFnOf(p, i)
                                 /\ LocalsOf(p, i) \subseteq LocalsOf(q, i)
                                 /\ UnsafeAt(p, i) => UnsafeAt(q, i)
                                 /\ \A h \in 1..Len(p) : DepthOf(q, i, h) = DepthOf(p, i, h)
<1>1. /\ IsSeq(q) /\ Len(p) \in Nat /\ Len(q) = Len(p) + 1 /\ q[Len(p) + 1] = x
      /\ \A i \in 1..Len(p) : q[i] = p[i]
  BY AppendFacts, SeqFacts DEF FnFirst, Grows
<1>0. FnFirst(p)
  BY DEF Grows
<1>2. FnFirst(q)
  BY <1>1, SeqFacts DEF FnFirst, Grows
<1>3. ASSUME NEW i \in 1..Len(p) PROVE LastFnOf(q, i) = LastFnOf(p, i)
  <2>1. {j \in 1..i : q[j].k = "fn"} = {j \in 1..i : p[j].k = "fn"}
    BY <1>1
  <2> QED BY <2>1 DEF LastFnOf
<1>4. ASSUME NEW i \in 1..Len(p), NEW h \in 1..Len(p) PROVE DepthOf(q, i, h) = DepthOf(p, i, h)
  <2>1. \A j \in i..h : q[j] = p[j]
    BY <1>1
  <2>2. /\ {j \in i..h : q[j].k \in Opening} = {j \in i..h : p[j].k \in Opening}
        /\ {j \in i..h : q[j].k = "end"} = {j \in i..h : p[j].k = "end"}
    BY <2>1
  <2> QED BY <2>2 DEF DepthOf
<1>5. ASSUME NEW i \in 1..Len(p) PROVE LocalsOf(p, i) \subseteq LocalsOf(q, i)
  <2>1. \A j \in (i + 1)..Len(p) : /\ j \in (i + 1)..Len(q) /\ j \in 1..Len(p)
    BY <1>1
  <2>2. {p[j].name : j \in {h \in (i + 1)..Len(p) : p[h].k = "var" /\ LastFnOf(p, h) = i}}
          \subseteq {q[j].name : j \in {h \in (i + 1)..Len(q) : q[h].k = "var" /\ LastFnOf(q, h) = i}}
    BY <1>1, <1>3, <2>1
  <2>3. p[i] = q[i]
    BY <1>1
  <2> QED BY <2>2, <2>3 DEF LocalsOf
<1>6. ASSUME NEW i \in 1..Len(p), UnsafeAt(p, i) PROVE UnsafeAt(q, i)
  <2>1. CASE p[LastFnOf(p, i)].unsafe
    <3>1. LastFnOf(p, i) \in 1..Len(p)
      BY <1>0, <1>1, LastFnFacts
    <3> QED BY <1>1, <1>3, <2>1, <3>1 DEF UnsafeAt
  <2>2. CASE \E j \in 1..(i - 1) : p[j].k = "unsafe" /\ OpenAt(p, j, i)
    <3>1. PICK j \in 1..(i - 1) : p[j].k = "unsafe" /\ OpenAt(p, j, i)
      BY <2>2
    <3>2. j \in 1..Len(p) /\ \A h \in j..i : h \in 1..Len(p)
      BY <1>1
    <3>3. q[j].k = "unsafe" /\ OpenAt(q, j, i)
      BY <1>1, <1>4, <3>1, <3>2 DEF OpenAt
    <3> QED BY <3>3 DEF UnsafeAt
  <2> QED BY <1>6, <2>1, <2>2 DEF UnsafeAt
<1> QED BY <1>0, <1>1, <1>2, <1>3, <1>4, <1>5, <1>6

(* The definitions of the model that these stand for. *)
LEMMA ProgramNames ==
  ASSUME NEW i
  PROVE  /\ LastFn(i) = LastFnOf(program, i)
         /\ FnOf(i) = program[LastFnOf(program, i)]
         /\ InUnsafe(i) <=> UnsafeAt(program, i)
         /\ DOMAIN collect_locals(i) = LocalsOf(program, i)
<1>1. \A j : LastFn(j) = LastFnOf(program, j)
  BY DEF LastFn, LastFnOf
<1>2. \A j, h : Depth(j, h) = DepthOf(program, j, h)
  BY DEF Depth, DepthOf
<1>3. FnOf(i) = program[LastFnOf(program, i)]
  BY <1>1 DEF FnOf
<1>4. InUnsafe(i) <=> UnsafeAt(program, i)
  BY <1>2, <1>3 DEF InUnsafe, UnsafeAt, OpenAt
<1>5. DOMAIN collect_locals(i) = LocalsOf(program, i)
  <2> DEFINE params == program[i].params
             body == {j \in (i + 1)..Len(program) : program[j].k = "var" /\ LastFn(j) = i}
             declared == {<<params[p].name, p - Len(params)>> : p \in 1..Len(params)}
                           \cup {<<program[j].name, j>> : j \in body}
  <2>1. DOMAIN collect_locals(i) = {d[1] : d \in declared}
    BY DEF collect_locals
  <2>2. {d[1] : d \in declared} = {params[p].name : p \in 1..Len(params)} \cup {program[j].name : j \in body}
    <3>1. ASSUME NEW d \in declared
          PROVE  d[1] \in {params[p].name : p \in 1..Len(params)} \cup {program[j].name : j \in body}
      <4> HIDE DEF params, body
      <4> QED OBVIOUS
    <3>2. ASSUME NEW p \in 1..Len(params) PROVE \E d \in declared : d[1] = params[p].name
      <4>1. <<params[p].name, p - Len(params)>> \in declared
        <5> HIDE DEF params, body
        <5> QED OBVIOUS
      <4> HIDE DEF declared, params
      <4> QED BY <4>1
    <3>3. ASSUME NEW j \in body PROVE \E d \in declared : d[1] = program[j].name
      <4>1. <<program[j].name, j>> \in declared
        <5> HIDE DEF params, body
        <5> QED OBVIOUS
      <4> HIDE DEF declared, body
      <4> QED BY <4>1
    <3> HIDE DEF declared, params, body
    <3> QED BY <3>1, <3>2, <3>3
  <2>3. body = {j \in (i + 1)..Len(program) : program[j].k = "var" /\ LastFnOf(program, j) = i}
    BY <1>1
  <2> HIDE DEF declared, body
  <2> QED BY <2>1, <2>2, <2>3 DEF LocalsOf
<1> QED BY <1>1, <1>3, <1>4, <1>5
-----------------------------------------------------------------------------
(* The open blocks: what a node does to them, and where each was opened.   *)
(* s and t are the blocks, or the labels, before and after a node of kind  *)
(* k.                                                                      *)
SameKinds(s, t, n) == \A i \in 1..n : s[i].k = t[i].k
Walks(s, k, t) ==
  /\ k = "fn" => Len(s) = 0 /\ Len(t) = 1 /\ t[1].k = "fn"
  /\ k \in Opening => /\ Len(s) > 0 /\ Len(t) = Len(s) + 1
                      /\ t[Len(s) + 1].k = k /\ SameKinds(s, t, Len(s))
  /\ k = "else" => /\ Len(s) > 0 /\ Len(t) = Len(s) /\ s[Len(s)].k = "if"
                   /\ t[Len(s)].k = "else" /\ SameKinds(s, t, Len(s) - 1)
  /\ k = "end" => Len(s) > 0 /\ Len(t) = Len(s) - 1 /\ SameKinds(s, t, Len(s) - 1)
  /\ k \notin Opening \cup {"fn", "else", "end"} =>
       Len(s) > 0 /\ Len(t) = Len(s) /\ SameKinds(s, t, Len(s))

Opened(p, s, b, j) ==
  /\ s[b].k = "unsafe" => p[j].k = "unsafe"
  /\ OpenAt(p, j, Len(p))
  /\ DepthOf(p, j, Len(p)) = Len(s) - b + 1
AllOpened(p, s) ==
  /\ Len(s) > 0 => s[1].k = "fn"
  /\ \A b \in 2..Len(s) : \E j \in 1..Len(p) : Opened(p, s, b, j)

LEMMA OpenNext ==
  ASSUME NEW p, NEW x, NEW q, Grows(p, x, q), NEW j \in 1..Len(p), OpenAt(p, j, Len(p)), DepthOf(q, j, Len(q)) >= 1
  PROVE  OpenAt(q, j, Len(q))
<1>1. /\ Len(p) \in Nat /\ Len(q) = Len(p) + 1
      /\ \A h \in 1..Len(p) : DepthOf(q, j, h) = DepthOf(p, j, h)
  BY Grown
<1>2. \A h \in j..Len(q) : (h \in 1..Len(p) /\ h \in j..Len(p)) \/ h = Len(q)
  BY <1>1
<1> QED BY <1>1, <1>2 DEF OpenAt

LEMMA OpenedNext ==
  ASSUME NEW p, NEW x, NEW q, Grows(p, x, q), NEW s, IsSeq(s), AllOpened(p, s),
         NEW t, IsSeq(t), Walks(s, x.k, t)
  PROVE  AllOpened(q, t)
<1>1. /\ Len(p) \in Nat /\ Len(q) = Len(p) + 1 /\ q[Len(p) + 1] = x
      /\ Len(s) \in Nat /\ Len(t) \in Nat
      /\ \A i \in 1..Len(p) : q[i] = p[i] /\ \A h \in 1..Len(p) : DepthOf(q, i, h) = DepthOf(p, i, h)
  BY Grown, SeqFacts
<1>2. ASSUME NEW b \in 2..Len(s), NEW j \in 1..Len(p), Opened(p, s, b, j), b \in 2..Len(t),
             t[b].k = "unsafe" => s[b].k = "unsafe",
             \/ x.k \in Opening /\ Len(t) = Len(s) + 1
             \/ x.k = "end" /\ Len(t) = Len(s) - 1
             \/ x.k \notin Opening \cup {"end"} /\ Len(t) = Len(s)
      PROVE  Opened(q, t, b, j) /\ j \in 1..Len(q)
  <2>1. /\ DepthOf(p, j, Len(p)) = Len(s) - b + 1
        /\ OpenAt(p, j, Len(p))
        /\ DepthOf(q, j, Len(p)) = DepthOf(p, j, Len(p))
    BY <1>1, <1>2 DEF Opened
  <2>2. DepthOf(q, j, Len(q)) = Len(t) - b + 1
    <3>0. j \in Nat /\ j <= Len(p) + 1
      BY <1>1
    <3>4. /\ x.k \in Opening => DepthOf(q, j, Len(p) + 1) = DepthOf(q, j, Len(p)) + 1
          /\ x.k = "end" => DepthOf(q, j, Len(p) + 1) = DepthOf(q, j, Len(p)) - 1
          /\ x.k \notin Opening \cup {"end"} => DepthOf(q, j, Len(p) + 1) = DepthOf(q, j, Len(p))
      BY <1>1, <3>0, DepthNext
    <3>1. /\ x.k \in Opening => DepthOf(q, j, Len(q)) = DepthOf(q, j, Len(p)) + 1
          /\ x.k = "end" => DepthOf(q, j, Len(q)) = DepthOf(q, j, Len(p)) - 1
          /\ x.k \notin Opening \cup {"end"} => DepthOf(q, j, Len(q)) = DepthOf(q, j, Len(p))
      BY <1>1, <3>4
    <3>2. "end" \notin Opening
      BY DEF Opening
    <3> QED BY <1>1, <1>2, <2>1, <3>1, <3>2
  <2>3. DepthOf(q, j, Len(q)) >= 1
    BY <1>1, <1>2, <2>2
  <2>4. OpenAt(q, j, Len(q))
    BY <2>1, <2>3, OpenNext
  <2>5. t[b].k = "unsafe" => q[j].k = "unsafe"
    BY <1>1, <1>2 DEF Opened
  <2> QED BY <1>1, <2>2, <2>4, <2>5 DEF Opened
<1>3. CASE x.k = "fn"
  <2>1. Len(t) = 1 /\ t[1].k = "fn"
    BY <1>3 DEF Walks
  <2> QED BY <2>1 DEF AllOpened
<1>4. CASE x.k \in Opening
  <2>1. /\ Len(s) > 0 /\ Len(t) = Len(s) + 1 /\ t[Len(s) + 1].k = x.k
        /\ \A i \in 1..Len(s) : s[i].k = t[i].k
    BY <1>4 DEF Walks, SameKinds
  <2>2. t[1].k = "fn"
    BY <1>1, <2>1 DEF AllOpened
  <2>3. ASSUME NEW b \in 2..Len(t) PROVE \E j \in 1..Len(q) : Opened(q, t, b, j)
    <3>1. CASE b \in 2..Len(s)
      <4>1. PICK j \in 1..Len(p) : Opened(p, s, b, j)
        BY <3>1 DEF AllOpened
      <4>2. t[b].k = "unsafe" => s[b].k = "unsafe"
        BY <2>1, <3>1
      <4> QED BY <1>2, <1>4, <2>1, <2>3, <3>1, <4>1, <4>2
    <3>2. CASE b = Len(s) + 1
      <4>1. PICK n : n = Len(p) + 1
        OBVIOUS
      <4>8. PICK m \in Nat : m = Len(p)
        BY <1>1
      <4>10. DepthOf(q, m + 1, m) = 0 /\ DepthOf(q, m + 1, m + 1) = DepthOf(q, m + 1, m) + 1
        <5>1. m + 1 \in Nat /\ m + 1 <= m + 1 /\ q[m + 1].k \in Opening
          BY <1>1, <1>4, <4>8
        <5> QED BY <5>1, DepthNext
      <4>2. DepthOf(q, n, Len(p)) = 0 /\ DepthOf(q, n, n) = DepthOf(q, n, Len(p)) + 1
        BY <4>1, <4>8, <4>10
      <4>3. DepthOf(q, n, n) = 1
        BY <4>2
      <4>4. n \in 1..Len(q) /\ Len(q) = n /\ q[n].k = x.k
        BY <1>1, <4>1
      <4>5. OpenAt(q, n, n)
        BY <4>3, <4>4 DEF OpenAt
      <4>6. Len(t) - b + 1 = 1
        BY <1>1, <2>1, <3>2
      <4>7. Opened(q, t, b, n)
        BY <2>1, <3>2, <4>3, <4>4, <4>5, <4>6 DEF Opened
      <4> QED BY <4>4, <4>7
    <3> QED BY <1>1, <2>1, <3>1, <3>2
  <2> QED BY <2>2, <2>3 DEF AllOpened
<1>5. CASE x.k \notin Opening \cup {"fn"}
  <2>1. /\ \A b \in 2..Len(t) : b \in 2..Len(s) /\ (t[b].k = "unsafe" => s[b].k = "unsafe")
        /\ x.k = "end" => Len(t) = Len(s) - 1
        /\ x.k # "end" => Len(t) = Len(s)
        /\ Len(t) > 0 => s[1].k = t[1].k
    <3>1. CASE x.k = "end"
      BY <1>1, <3>1 DEF Walks, SameKinds
    <3>2. CASE x.k = "else"
      <4>1. /\ Len(s) > 0 /\ Len(t) = Len(s) /\ s[Len(s)].k = "if" /\ t[Len(s)].k = "else"
            /\ \A i \in 1..(Len(s) - 1) : s[i].k = t[i].k
        BY <3>2 DEF Walks, SameKinds
      <4>2. Len(s) # 1
        BY <4>1 DEF AllOpened
      <4>3. \A b \in 2..Len(t) : b \in 2..Len(s) /\ (b \in 1..(Len(s) - 1) \/ b = Len(s))
        BY <1>1, <4>1
      <4>4. 1 \in 1..(Len(s) - 1)
        BY <1>1, <4>1, <4>2
      <4> QED BY <3>2, <4>1, <4>3, <4>4
    <3>3. CASE x.k \notin {"end", "else"}
      BY <1>1, <1>5, <3>3 DEF Walks, SameKinds
    <3> QED BY <3>1, <3>2, <3>3
  <2>2. Len(t) > 0 => t[1].k = "fn"
    BY <1>1, <2>1 DEF AllOpened
  <2>3. ASSUME NEW b \in 2..Len(t) PROVE \E j \in 1..Len(q) : Opened(q, t, b, j)
    <3>1. PICK j \in 1..Len(p) : Opened(p, s, b, j)
      BY <2>1 DEF AllOpened
    <3> QED BY <1>2, <1>5, <2>1, <2>3, <3>1
  <2> QED BY <2>2, <2>3 DEF AllOpened
<1> QED BY <1>3, <1>4, <1>5

FnNodes(p) == {p[i] : i \in {j \in 1..Len(p) : p[j].k = "fn"}}
OwnFn(p) == LastFnOf(p, Len(p))

LEMMA BodyNext ==
  ASSUME NEW p, NEW x, NEW q, Grows(p, x, q), p # << >>, x.k # "fn"
  PROVE  /\ OwnFn(p) \in 1..Len(p) /\ OwnFn(q) = OwnFn(p) /\ q[OwnFn(q)] = p[OwnFn(p)]
         /\ LocalsOf(p, OwnFn(p)) \subseteq LocalsOf(q, OwnFn(q))
         /\ x.k = "var" => x.name \in LocalsOf(q, OwnFn(q))
         /\ FnNodes(q) = FnNodes(p)
<1>1. /\ FnFirst(p) /\ FnFirst(q) /\ Len(p) \in Nat /\ Len(q) = Len(p) + 1 /\ q[Len(p) + 1] = x
      /\ \A i \in 1..Len(p) : q[i] = p[i] /\ LocalsOf(p, i) \subseteq LocalsOf(q, i)
                              /\ LastFnOf(q, i) = LastFnOf(p, i)
  BY Grown
<1>2. Len(p) \in 1..Len(p) /\ Len(p) + 1 \in 1..Len(q)
  BY <1>1, SeqFacts DEF FnFirst
<1>3. LastFnOf(q, Len(p) + 1) = LastFnOf(q, Len(p))
  BY <1>1, <1>2, LastFnNext
<1>4. OwnFn(q) = OwnFn(p) /\ OwnFn(p) \in 1..Len(p)
  BY <1>1, <1>2, <1>3, LastFnFacts DEF OwnFn
<1>5. x.k = "var" => x.name \in LocalsOf(q, OwnFn(q))
  <2>1. Len(q) \in (OwnFn(q) + 1)..Len(q) /\ q[Len(q)] = x /\ LastFnOf(q, Len(q)) = OwnFn(q)
    BY <1>1, <1>4 DEF OwnFn
  <2> QED BY <2>1 DEF LocalsOf
<1>6. FnNodes(q) = FnNodes(p)
  <2>1. {j \in 1..Len(q) : q[j].k = "fn"} = {j \in 1..Len(p) : p[j].k = "fn"}
    BY <1>1
  <2> QED BY <1>1, <2>1 DEF FnNodes
<1> QED BY <1>1, <1>4, <1>5, <1>6

LEMMA FnNext ==
  ASSUME NEW p, NEW x, NEW q, Grows(p, x, q), x.k = "fn"
  PROVE  /\ OwnFn(q) = Len(q) /\ q[OwnFn(q)] = x
         /\ FnNodes(q) = FnNodes(p) \cup {x}
         /\ {x.params[m].name : m \in 1..Len(x.params)} \subseteq LocalsOf(q, OwnFn(q))
<1>1. /\ FnFirst(q) /\ Len(p) \in Nat /\ Len(q) = Len(p) + 1 /\ q[Len(p) + 1] = x
      /\ \A i \in 1..Len(p) : q[i] = p[i]
  BY Grown
<1>2. OwnFn(q) = Len(q)
  <2>1. Len(p) + 1 \in 1..Len(q) /\ q[Len(p) + 1].k = "fn"
    BY <1>1
  <2> QED BY <1>1, <2>1, LastFnNext DEF OwnFn
<1>3. FnNodes(q) = FnNodes(p) \cup {x}
  <2>1. {j \in 1..Len(q) : q[j].k = "fn"} = {j \in 1..Len(p) : p[j].k = "fn"} \cup {Len(q)}
    BY <1>1
  <2> QED BY <1>1, <2>1 DEF FnNodes
<1>4. {x.params[m].name : m \in 1..Len(x.params)} \subseteq LocalsOf(q, OwnFn(q))
  BY <1>1, <1>2 DEF LocalsOf
<1> QED BY <1>1, <1>2, <1>3, <1>4

LEMMA UnsafeNext ==
  ASSUME NEW p, NEW x, NEW q, Grows(p, x, q), p # << >>, x.k \notin {"fn", "end"},
         NEW s, IsSeq(s), AllOpened(p, s),
         p[OwnFn(p)].unsafe \/ \E b \in 1..Len(s) : s[b].k = "unsafe"
  PROVE  UnsafeAt(q, Len(q))
<1>1. /\ Len(p) \in Nat /\ Len(s) \in Nat /\ Len(q) = Len(p) + 1 /\ q[Len(p) + 1] = x
      /\ \A i \in 1..Len(p) : q[i] = p[i]
                              /\ \A h \in 1..Len(p) : DepthOf(q, i, h) = DepthOf(p, i, h)
  BY Grown, SeqFacts
<1>2. CASE p[OwnFn(p)].unsafe
  BY <1>2, BodyNext DEF UnsafeAt, OwnFn
<1>3. CASE \E b \in 1..Len(s) : s[b].k = "unsafe"
  <2>1. PICK b \in 1..Len(s) : s[b].k = "unsafe"
    BY <1>3
  <2>2. b \in 2..Len(s)
    <3>1. b # 1
      BY <1>1, <2>1 DEF AllOpened
    <3> QED BY <1>1, <3>1
  <2>3. PICK j \in 1..Len(p) : Opened(p, s, b, j)
    BY <2>2 DEF AllOpened
  <2>4. /\ q[j].k = "unsafe" /\ OpenAt(p, j, Len(p))
        /\ DepthOf(q, j, Len(p)) = Len(s) - b + 1
    BY <1>1, <2>1, <2>3 DEF Opened
  <2>5. j \in Nat /\ j <= Len(p) + 1
    BY <1>1
  <2>11. Len(s) - b + 1 \in Nat /\ Len(s) - b + 1 >= 1
    BY <1>1, <2>2
  <2>6. PICK d \in Nat : d = Len(s) - b + 1 /\ d >= 1
    BY <2>11
  <2>9. DepthOf(q, j, Len(p)) = d
    BY <2>4, <2>6
  <2>10. DepthOf(q, j, Len(p) + 1) = d \/ DepthOf(q, j, Len(p) + 1) = d + 1
    <3>1. /\ x.k \in Opening => DepthOf(q, j, Len(p) + 1) = DepthOf(q, j, Len(p)) + 1
          /\ x.k \notin Opening \cup {"end"} => DepthOf(q, j, Len(p) + 1) = DepthOf(q, j, Len(p))
      BY <1>1, <2>5, DepthNext, ZenonT(60)
    <3> QED BY <2>9, <3>1
  <2>7. DepthOf(q, j, Len(q)) >= 1
    BY <1>1, <2>6, <2>10
  <2>8. OpenAt(q, j, Len(q))
    BY <2>4, <2>7, OpenNext
  <2> QED BY <1>1, <2>4, <2>8 DEF UnsafeAt
<1> QED BY <1>2, <1>3
-----------------------------------------------------------------------------
(* The semantic check.  What its variables hold, and what a program        *)
(* without a diagnostic has.                                               *)
BlockKinds == {"fn", "if", "else", "while", "loop", "unsafe"}
Blocks == [k : BlockKinds, returns : BOOLEAN, then : BOOLEAN]
Jumps == {"break", "continue"}
Loops == {"loop", "while"}

LoopsIn(s) == Cardinality(KindsIn(s, Loops))
UnsafeIn(s) == Cardinality(KindsIn(s, {"unsafe"}))
Counted == /\ loopDepth = LoopsIn(blocks)
           /\ unsafeDepth = UnsafeIn(blocks) + IF Header.unsafe THEN 1 ELSE 0

SemaInv ==
  /\ package \in Packages
  /\ item \in 1..(Len(items) + 1)
  /\ phase \notin {"register", "bodies"} => item = Len(items) + 1
  /\ blocks \in Seq(Blocks)
  /\ blocks # << >> => phase = "bodies" /\ item <= Len(items) /\ Counted
  /\ diagnostics \in Codes

Registered == IF phase = "register" THEN item - 1 ELSE Len(items)
NamesDiffer == \A i, j \in 1..Registered : items[i].name = items[j].name => i = j
MainIsMain == package.type = "executable" /\ phase # "register" =>
                "main" \in DOMAIN functions /\ functions["main"] = MainSignature
RegInv ==
  /\ DOMAIN functions = {items[i].name : i \in 1..Registered}
  /\ diagnostics = << >> =>
       /\ \A f \in DOMAIN functions : functions[f].unsafe => "unsafe" \in requires
       /\ NamesDiffer
       /\ MainIsMain
  /\ \A f \in DOMAIN functions : \E i \in 1..Registered : functions[f] = Signature(items[i])

PartsOf(node) == CASE Has(node, "expr") -> SubExprs[node.expr]
                   [] Has(node, "cond") -> SubExprs[node.cond]
                   [] OTHER -> {}
CallOK(name, p, i) == name \in DOMAIN functions /\ (functions[name].unsafe => UnsafeAt(p, i))
UseOK(e, p, i) ==
  /\ e.k = "call" /\ e.callee = "io.write" => "syscall" \in requires /\ Len(e.args) = 3
  /\ e.k = "call" /\ e.callee # "io.write" =>
       CallOK(e.callee, p, i) /\ Len(e.args) = Len(functions[e.callee].params)
  /\ e.k = "ident" /\ e.name \notin LocalsOf(p, LastFnOf(p, i)) => CallOK(e.name, p, i)
NodeOK(p, i) ==
  /\ p[i].k = "assign" => p[i].name \in LocalsOf(p, LastFnOf(p, i))
  /\ (\A e \in PartsOf(p[i]) : ~IsAlloc(e)) => \A e \in PartsOf(p[i]) : UseOK(e, p, i)
FnsDiffer(p) == \A i, j \in 1..Len(p) :
                  p[i].k = "fn" /\ p[j].k = "fn" /\ p[i].name = p[j].name => i = j

IsNode(node) == IsStatement(node) \/ node = [k |-> "else"] \/ node = [k |-> "end"]
Begun == IF phase = "register" THEN 0 ELSE IF blocks = << >> THEN item - 1 ELSE item
BodyInv ==
  /\ FnFirst(program)
  /\ phase = "register" => program = << >>
  /\ FnNodes(program) = {FnNode(items[j]) : j \in 1..Begun}
  /\ \A i \in 1..Len(program) : program[i].k # "fn" => IsNode(program[i])
  /\ blocks # << >> => /\ program # << >> /\ program[OwnFn(program)] = FnNode(Header)
                       /\ DOMAIN vars \subseteq LocalsOf(program, OwnFn(program))
  /\ AllOpened(program, blocks)
  /\ diagnostics = << >> => FnsDiffer(program) /\ \A i \in 1..Len(program) : NodeOK(program, i)

(* The blocks at every node, up to the last one. *)
NodeWalks(s, k, t, errs) ==
  /\ Walks(s, k, t)
  /\ errs = << >> /\ k \in Jumps => \E i \in 1..Len(s) : s[i].k \in Loops
IsHistory(h, p, s, errs) ==
  /\ Len(h[0]) = 0 /\ h[Len(p)] = s
  /\ \A n \in 0..Len(p) : IsSeq(h[n])
  /\ \A n \in 1..Len(p) : NodeWalks(h[n - 1], p[n].k, h[n], errs)
History(h) == IsHistory(h, program, blocks, diagnostics)
HistInv == \E h : History(h) /\ (phase = "emit" => Follows(labels, h[gen - 1]))

(* The generator: where a line comes from, and that nothing is left out.   *)
NameOf(i) == program[LastFnOf(program, i)].name
Source(e, l) ==
  /\ l.op = "write" => e.k = "call" /\ e.callee = "io.write"
  /\ l.op = "lea" => e.k = "str"
  /\ l.op = "call" =>
       \/ e.k = "call" /\ e.callee # "io.write" /\ l.arg = e.callee
       \/ /\ e.k = "ident" /\ e.name \notin LocalsOf(program, LastFnOf(program, l.of))
          /\ e.name \in DOMAIN functions /\ l.arg = e.name
LineOK(l) ==
  \/ l.of = 0 /\ l.fn = "_start" /\ (l.op = "exit" \/ (l.op = "call" /\ l.arg = "main"))
  \/ /\ l.of \in 1..(gen - 1) /\ l.fn = NameOf(l.of)
     /\ l.op \in {"write", "call", "lea"} => \E e \in PartsOf(program[l.of]) : Source(e, l)
     /\ l.op = "enter" => program[l.of].k = "fn"
NodeEmitted(i) ==
  /\ program[i].k = "fn" => \E l \in Elems(code) : l.op = "enter" /\ l.fn = program[i].name
  /\ \A e \in PartsOf(program[i]) :
       /\ e.k = "call" /\ e.callee # "io.write" =>
            \E l \in Elems(code) : l.op = "call" /\ l.arg = e.callee
       /\ e.k = "str" => \E l \in Elems(code) : l.op = "lea" /\ l.fn = NameOf(i)
CodeInv ==
  /\ IsSeq(code) /\ Len(code) > 0
  /\ \A l \in Elems(code) : LineOK(l)
  /\ \E l \in Elems(code) : l.op = "call" /\ l.arg = "main"
  /\ \A i \in 1..(gen - 1) : NodeEmitted(i)
  /\ gen > 1 => code[Len(code)].fn = NameOf(gen - 1)

FrontEnd == {"register", "bodies", "checked"}
AfterLoad == {"run", "trapped", "exited"}
Labelled(ls) == IsSeq(ls) /\ \A l \in Elems(ls) : "k" \in DOMAIN l /\ l.k \in BlockKinds
GenInv ==
  /\ phase \in FrontEnd \cup {"emit", "unassembled"} \cup AfterLoad
  /\ phase \in FrontEnd => labels = << >>
  /\ phase \notin FrontEnd =>
       /\ diagnostics = << >>
       /\ gen \in 1..(Len(program) + 1)
       /\ phase # "emit" => gen = Len(program) + 1
       /\ CodeInv
       /\ phase = "emit" => /\ Labelled(labels)
                            /\ gen > 1 => DOMAIN env = LocalsOf(program, LastFnOf(program, gen - 1))
       /\ phase \in AfterLoad => Rejected = {}
       /\ phase = "unassembled" => Rejected # {}
-----------------------------------------------------------------------------
(* What each step of the check reports. *)
LEMMA Reported ==
  ASSUME diagnostics \in Codes, NEW codes \in Codes, Report(codes)
  PROVE  /\ diagnostics' \in Codes
         /\ diagnostics' = << >> => diagnostics = << >> /\ codes = << >>
BY CodesTyped DEF Report

LEMMA ItemsFacts ==
  ASSUME SemaInv
  PROVE  /\ Len(items) \in Nat /\ item \in Nat /\ item >= 1 /\ item <= Len(items) + 1
         /\ \A i \in 1..Len(items) : IsHeader(items[i])
<1>1. items \in Seq({items[i] : i \in DOMAIN items}) /\ \A i \in DOMAIN items : IsHeader(items[i])
  BY SemaAssumption DEF SemaInv, items
<1>2. Len(items) \in Nat /\ DOMAIN items = 1..Len(items)
  BY <1>1
<1> QED BY <1>1, <1>2 DEF SemaInv

LEMMA RequireExprFacts ==
  ASSUME NEW e \in Expressions, NEW type
  PROVE  /\ RequireExpr(type, e) \in Codes
         /\ RequireExpr(type, e) = << >> => expr_type[e].errs = << >>
<1>1. expr_type[e] \in Typings
  BY ExprTypeIs
<1>2. expr_type[e].errs \in Codes
  BY <1>1 DEF Typings
<1>3. require_type(type, expr_type[e].ty) \in Codes
  BY RequireTyped
<1> QED BY <1>2, <1>3, CodesTyped DEF RequireExpr

(* The statements: what no diagnostic means of each. *)
StmtClean(s) ==
  /\ Has(s, "expr") => expr_type[s.expr].errs = << >>
  /\ Has(s, "cond") => expr_type[s.cond].errs = << >>
  /\ s.k \in Jumps => loopDepth # 0
  /\ s.k = "assign" => s.name \in DOMAIN vars

LEMMA StmtReported ==
  ASSUME diagnostics \in Codes, NEW s, IsStatement(s),
         \/ declare_var(s) \/ check_assign(s) \/ check_ret(s) \/ check_expr_stmt(s)
         \/ check_jump(s) \/ check_open(s)
  PROVE  /\ diagnostics' \in Codes
         /\ diagnostics' = << >> => diagnostics = << >> /\ StmtClean(s)
<1>1. /\ << >> \in Codes /\ <<"E4202">> \in Codes /\ <<"E0401">> \in Codes /\ <<"E4201">> \in Codes
      /\ <<"E0402">> \in Codes /\ <<"E0501">> \in Codes /\ <<"E0502">> \in Codes
      /\ <<"E4301">> \in Codes /\ <<"E0801">> \in Codes
  BY CodesTyped DEF CodeNames
<1>2. /\ <<"E4202">> # << >> /\ <<"E0401">> # << >> /\ <<"E0402">> # << >> /\ <<"E0501">> # << >>
      /\ <<"E0502">> # << >>
  BY CodesTyped DEF CodeNames
<1>3. SUFFICES \E codes \in Codes : Report(codes) /\ (codes = << >> => StmtClean(s))
  BY Reported
<1>4. /\ s.k \in {"var", "assign", "expr"} => Has(s, "expr") /\ ~Has(s, "cond") /\ s.expr \in Expressions
      /\ s.k = "ret" => ~Has(s, "cond") /\ (Has(s, "expr") => s.expr \in Expressions)
      /\ s.k \in Jumps \cup {"loop", "unsafe"} => ~Has(s, "expr") /\ ~Has(s, "cond")
      /\ s.k \in {"if", "while"} => ~Has(s, "expr") /\ Has(s, "cond") /\ s.cond \in Expressions
  BY DEF IsStatement, Jumps
<1>5. CASE declare_var(s)
  <2>1. s.k = "var" /\ s.k \notin Jumps /\ s.k # "assign" /\ s.expr \in Expressions /\ ~Has(s, "cond")
    BY <1>4, <1>5 DEF declare_var, Jumps
  <2>2. CASE Has(vars, s.name)
    <3>1. Report(<<"E4202">>)
      BY <1>5, <2>2 DEF declare_var
    <3> QED BY <1>1, <1>2, <3>1
  <2>3. CASE ~Has(vars, s.name)
    <3>1. Report(RequireExpr(s.type, s.expr))
      BY <1>5, <2>3 DEF declare_var
    <3> QED BY <2>1, <3>1, RequireExprFacts DEF StmtClean
  <2> QED BY <2>2, <2>3
<1>6. CASE check_assign(s)
  <2>1. s.k = "assign" /\ s.k \notin Jumps /\ s.expr \in Expressions /\ ~Has(s, "cond")
    BY <1>4, <1>6 DEF check_assign, Jumps
  <2>2. CASE ~Has(vars, s.name)
    <3>1. Report(<<"E0401">>)
      BY <1>6, <2>2 DEF check_assign
    <3> QED BY <1>1, <1>2, <3>1
  <2>3. CASE Has(vars, s.name)
    <3> PICK first, second : /\ first = If(~vars[s.name].mutable, "E4201")
                             /\ second = RequireExpr(vars[s.name].type, s.expr)
      OBVIOUS
    <3>1. first \in Codes
      BY <1>1 DEF If
    <3>2. second \in Codes /\ (second = << >> => expr_type[s.expr].errs = << >>)
      BY <2>1, RequireExprFacts
    <3>3. Report(first \o second)
      BY <1>6, <2>3 DEF check_assign
    <3>4. first \o second \in Codes /\ (first \o second = << >> => second = << >>)
      BY <3>1, <3>2, CodesTyped
    <3> QED BY <2>1, <2>3, <3>2, <3>3, <3>4 DEF StmtClean, Has
  <2> QED BY <2>2, <2>3
<1>7. CASE check_ret(s)
  <2>1. /\ s.k = "ret" /\ s.k \notin Jumps /\ s.k # "assign" /\ ~Has(s, "cond")
        /\ Has(s, "expr") => s.expr \in Expressions
    BY <1>4, <1>7 DEF check_ret, Jumps
  <2>2. CASE Header.ret = "void"
    <3> PICK codes : codes = If(Has(s, "expr"), "E0402")
      OBVIOUS
    <3>1. Report(codes)
      BY <1>7, <2>2 DEF check_ret
    <3>2. codes \in Codes /\ (codes = << >> => ~Has(s, "expr"))
      BY <1>1, <1>2 DEF If
    <3> QED BY <2>1, <3>1, <3>2 DEF StmtClean
  <2>3. CASE Header.ret # "void" /\ Has(s, "expr")
    <3>1. Report(RequireExpr(Header.ret, s.expr))
      BY <1>7, <2>3 DEF check_ret
    <3> QED BY <2>1, <2>3, <3>1, RequireExprFacts DEF StmtClean
  <2>4. CASE Header.ret # "void" /\ ~Has(s, "expr")
    <3>1. Report(<<"E0402">>)
      BY <1>7, <2>4 DEF check_ret
    <3> QED BY <1>1, <1>2, <3>1
  <2> QED BY <2>2, <2>3, <2>4
<1>8. CASE check_expr_stmt(s)
  <2>1. s.k = "expr" /\ s.k \notin Jumps /\ s.k # "assign" /\ s.expr \in Expressions /\ ~Has(s, "cond")
    BY <1>4, <1>8 DEF check_expr_stmt, Jumps
  <2>2. Report(expr_type[s.expr].errs)
    BY <1>8 DEF check_expr_stmt
  <2>3. expr_type[s.expr].errs \in Codes
    <3>1. expr_type[s.expr] \in Typings
      BY <2>1, ExprTypeIs
    <3> QED BY <3>1 DEF Typings
  <2> QED BY <2>1, <2>2, <2>3 DEF StmtClean
<1>9. CASE check_jump(s)
  <2> PICK code_ : code_ = IF s.k = "break" THEN "E0501" ELSE "E0502"
    OBVIOUS
  <2> PICK codes : codes = If(loopDepth = 0, code_)
    OBVIOUS
  <2>1. s.k \in Jumps /\ s.k # "assign" /\ ~Has(s, "expr") /\ ~Has(s, "cond")
    BY <1>4, <1>9 DEF check_jump, Jumps
  <2>2. Report(codes)
    BY <1>9 DEF check_jump
  <2>3. codes \in Codes /\ (codes = << >> => loopDepth # 0)
    BY <1>1, <1>2 DEF If
  <2> QED BY <2>1, <2>2, <2>3 DEF StmtClean
<1>10. CASE check_open(s)
  <2>1. s.k \notin Jumps /\ s.k # "assign" /\ ~Has(s, "expr") /\ (Has(s, "cond") => s.cond \in Expressions)
    BY <1>4, <1>10 DEF check_open, Jumps
  <2>2. CASE Has(s, "cond")
    <3> PICK first, second : /\ first = expr_type[s.cond].errs
                             /\ second = If(~is_bool(expr_type[s.cond].ty), "E4301")
      OBVIOUS
    <3>1. second \in Codes
      BY <1>1 DEF If
    <3>2. first \in Codes
      <4>1. expr_type[s.cond] \in Typings
        BY <2>1, <2>2, ExprTypeIs
      <4> QED BY <4>1 DEF Typings
    <3>3. Report(first \o second)
      BY <1>10, <2>2 DEF check_open
    <3>4. first \o second \in Codes /\ (first \o second = << >> => first = << >>)
      BY <3>1, <3>2, CodesTyped
    <3> QED BY <2>1, <3>2, <3>3, <3>4 DEF StmtClean
  <2>3. CASE ~Has(s, "cond")
    <3> PICK codes : codes = If(s.k = "unsafe" /\ "unsafe" \notin requires, "E0801")
      OBVIOUS
    <3>1. codes \in Codes
      BY <1>1 DEF If
    <3>2. Report(codes)
      BY <1>10, <2>3 DEF check_open
    <3> QED BY <2>1, <2>3, <3>1, <3>2 DEF StmtClean
  <2> QED BY <2>2, <2>3
<1> QED BY <1>5, <1>6, <1>7, <1>8, <1>9, <1>10
-----------------------------------------------------------------------------
(* What each step does to the blocks and the counters. *)
LEMMA BlocksFacts ==
  ASSUME blocks \in Seq(Blocks)
  PROVE  /\ IsSeq(blocks) /\ Len(blocks) \in Nat
         /\ blocks # << >> => /\ Len(blocks) > 0 /\ Inner \in Blocks
                              /\ Outer \in Seq(Blocks) /\ Len(Outer) = Len(blocks) - 1
                              /\ \A i \in 1..Len(Outer) : Outer[i] = blocks[i]
                              /\ blocks = Append(Outer, Inner)
<1>1. IsSeq(blocks) /\ Len(blocks) \in Nat
  BY IsSeqOf
<1>2. ASSUME blocks # << >>
      PROVE  /\ Len(blocks) > 0 /\ Inner \in Blocks
             /\ Outer \in Seq(Blocks) /\ Len(Outer) = Len(blocks) - 1
             /\ \A i \in 1..Len(Outer) : Outer[i] = blocks[i]
             /\ blocks = Append(Outer, Inner)
  <2>1. Len(blocks) > 0
    BY <1>1, <1>2, SeqFacts
  <2>2. Inner \in Blocks
    <3>1. Len(blocks) \in 1..Len(blocks)
      BY <1>1, <2>1
    <3> QED BY <3>1 DEF Inner
  <2>3. /\ IsSeq(Outer) /\ Len(Outer) = Len(blocks) - 1 /\ \A i \in 1..Len(Outer) : Outer[i] = blocks[i]
        /\ blocks = Append(Outer, Inner)
    BY <1>1, <1>2, FrontFacts DEF Outer, Inner
  <2>4. Outer \in Seq(Blocks)
    <3>1. \A i \in 1..Len(Outer) : Outer[i] \in Blocks
      BY <1>1, <2>3
    <3>2. Elems(Outer) \subseteq Blocks
      BY <3>1 DEF Elems
    <3> QED BY <2>3, <3>2 DEF IsSeq
  <2> QED BY <2>1, <2>2, <2>3, <2>4
<1> QED BY <1>1, <1>2

LEMMA BlockFacts ==
  ASSUME NEW k \in BlockKinds
  PROVE  Block(k) \in Blocks /\ Block(k).k = k
BY DEF Block, Blocks

LEMMA WithInnerFacts ==
  ASSUME blocks \in Seq(Blocks), blocks # << >>, NEW b \in Blocks, NEW t, t = WithInner(b)
  PROVE  /\ t \in Seq(Blocks) /\ Len(t) = Len(blocks) /\ t[Len(blocks)] = b
         /\ \A i \in 1..(Len(blocks) - 1) : t[i] = blocks[i]
         /\ t = Append(Outer, b)
<1>1. /\ Len(blocks) \in Nat /\ Outer \in Seq(Blocks) /\ Len(Outer) = Len(blocks) - 1
      /\ \A i \in 1..Len(Outer) : Outer[i] = blocks[i]
  BY BlocksFacts
<1>2. t = Append(Outer, b)
  BY DEF WithInner
<1>3. t \in Seq(Blocks)
  BY <1>1, <1>2
<1>4. IsSeq(Outer)
  BY <1>1, IsSeqOf
<1>5. /\ Len(t) = Len(Outer) + 1 /\ t[Len(Outer) + 1] = b
      /\ \A i \in 1..Len(Outer) : t[i] = Outer[i]
  BY <1>2, <1>4, AppendFacts
<1> QED BY <1>1, <1>2, <1>3, <1>5

Depths(s, unsafe) ==
  /\ loopDepth' = LoopsIn(s)
  /\ unsafeDepth' = UnsafeIn(s) + IF unsafe THEN 1 ELSE 0

LEMMA DepthsAppend ==
  ASSUME NEW s, IsSeq(s), NEW x, NEW t, t = Append(s, x)
  PROVE  /\ LoopsIn(s) \in Nat /\ UnsafeIn(s) \in Nat
         /\ x.k \in Loops => LoopsIn(t) = LoopsIn(s) + 1
         /\ x.k \notin Loops => LoopsIn(t) = LoopsIn(s)
         /\ x.k = "unsafe" => UnsafeIn(t) = UnsafeIn(s) + 1
         /\ x.k # "unsafe" => UnsafeIn(t) = UnsafeIn(s)
<1>1. \A K : /\ Cardinality(KindsIn(s, K)) \in Nat
             /\ x.k \in K => Cardinality(KindsIn(t, K)) = Cardinality(KindsIn(s, K)) + 1
             /\ x.k \notin K => Cardinality(KindsIn(t, K)) = Cardinality(KindsIn(s, K))
  <2> TAKE K
  <2>1. Cardinality(KindsIn(s, K)) \in Nat
    BY CountFacts
  <2>2. /\ x.k \in K => Cardinality(KindsIn(t, K)) = Cardinality(KindsIn(s, K)) + 1
        /\ x.k \notin K => Cardinality(KindsIn(t, K)) = Cardinality(KindsIn(s, K))
    BY CountAppend
  <2> QED BY <2>1, <2>2
<1>2. x.k \in {"unsafe"} <=> x.k = "unsafe"
  OBVIOUS
<1> QED BY <1>1, <1>2, Zenon DEF LoopsIn, UnsafeIn

LEMMA StmtBlocks ==
  ASSUME blocks \in Seq(Blocks), blocks # << >>, Counted, NEW s, IsStatement(s),
         \/ declare_var(s) \/ check_assign(s) \/ check_ret(s) \/ check_expr_stmt(s)
         \/ check_jump(s) \/ check_open(s)
  PROVE  /\ blocks' \in Seq(Blocks)
         /\ Walks(blocks, s.k, blocks')
         /\ Depths(blocks', Header.unsafe)
<1>1. /\ Len(blocks) \in Nat /\ Len(blocks) > 0 /\ Inner \in Blocks /\ IsSeq(blocks)
  BY BlocksFacts
<1>2. CASE /\ UNCHANGED <<loopDepth, unsafeDepth, blocks>>
           /\ s.k \notin Opening \cup {"fn", "else", "end"}
  <2>1. Walks(blocks, s.k, blocks')
    BY <1>1, <1>2 DEF Walks, SameKinds
  <2> QED BY <1>2, <2>1 DEF Depths, Counted
<1>3. CASE check_ret(s)
  <2> PICK b : b = [Inner EXCEPT !.returns = TRUE]
    OBVIOUS
  <2>1. b \in Blocks /\ b.k = Inner.k
    BY <1>1 DEF Blocks
  <2>2. blocks' = WithInner(b) /\ UNCHANGED <<loopDepth, unsafeDepth>> /\ s.k = "ret"
    BY <1>3 DEF check_ret
  <2>3. /\ blocks' \in Seq(Blocks) /\ Len(blocks') = Len(blocks) /\ blocks'[Len(blocks)] = b
        /\ \A i \in 1..(Len(blocks) - 1) : blocks'[i] = blocks[i]
    BY <2>1, <2>2, WithInnerFacts
  <2>4. \A i \in 1..Len(blocks) : blocks'[i].k = blocks[i].k
    <3>1. \A i \in 1..Len(blocks) : i \in 1..(Len(blocks) - 1) \/ i = Len(blocks)
      BY <1>1
    <3> QED BY <2>1, <2>3, <3>1 DEF Inner
  <2>5. Walks(blocks, s.k, blocks')
    BY <1>1, <2>2, <2>3, <2>4 DEF Walks, SameKinds, Opening
  <2>6. IsSeq(blocks')
    BY <2>3, IsSeqOf
  <2>7. Follows(blocks, blocks')
    BY <2>3, <2>4 DEF Follows
  <2>8. LoopsIn(blocks) = LoopsIn(blocks') /\ UnsafeIn(blocks) = UnsafeIn(blocks')
    BY <1>1, <2>6, <2>7, CountSame DEF LoopsIn, UnsafeIn
  <2> QED BY <2>2, <2>3, <2>5, <2>8 DEF Depths, Counted
<1>4. CASE check_open(s)
  <2>1. /\ s.k \in Opening /\ blocks' = Append(blocks, Block(s.k))
        /\ loopDepth' = IF s.k \in {"while", "loop"} THEN loopDepth + 1 ELSE loopDepth
        /\ unsafeDepth' = IF s.k = "unsafe" THEN unsafeDepth + 1 ELSE unsafeDepth
    BY <1>4 DEF check_open, Opening
  <2>2. Block(s.k) \in Blocks /\ Block(s.k).k = s.k
    <3>1. s.k \in BlockKinds
      BY <2>1 DEF Opening, BlockKinds
    <3> QED BY <3>1, BlockFacts
  <2>3. blocks' \in Seq(Blocks)
    BY <2>1, <2>2
  <2>4. /\ Len(blocks') = Len(blocks) + 1 /\ blocks'[Len(blocks) + 1] = Block(s.k)
        /\ \A i \in 1..Len(blocks) : blocks'[i] = blocks[i]
    BY <1>1, <2>1, AppendFacts
  <2>5. Walks(blocks, s.k, blocks')
    <3>1. s.k \notin {"fn", "else", "end"}
      BY <2>1 DEF Opening
    <3> QED BY <1>1, <2>1, <2>2, <2>4, <3>1 DEF Walks, SameKinds
  <2>6. PICK x : x = Block(s.k)
    OBVIOUS
  <2>10. x.k = s.k
    BY <2>2, <2>6
  <2>7. /\ LoopsIn(blocks) \in Nat /\ UnsafeIn(blocks) \in Nat
        /\ x.k \in Loops => LoopsIn(blocks') = LoopsIn(blocks) + 1
        /\ x.k \notin Loops => LoopsIn(blocks') = LoopsIn(blocks)
        /\ x.k = "unsafe" => UnsafeIn(blocks') = UnsafeIn(blocks) + 1
        /\ x.k # "unsafe" => UnsafeIn(blocks') = UnsafeIn(blocks)
    BY <1>1, <2>1, <2>6, DepthsAppend
  <2>11. loopDepth' = LoopsIn(blocks')
    BY <2>1, <2>7, <2>10 DEF Counted, Loops
  <2>12. unsafeDepth' = UnsafeIn(blocks') + IF Header.unsafe THEN 1 ELSE 0
    BY <2>1, <2>7, <2>10 DEF Counted
  <2> QED BY <2>3, <2>5, <2>11, <2>12 DEF Depths
<1>5. CASE declare_var(s) \/ check_assign(s) \/ check_expr_stmt(s) \/ check_jump(s)
  <2>1. UNCHANGED <<loopDepth, unsafeDepth, blocks>>
    BY <1>5 DEF declare_var, check_assign, check_expr_stmt, check_jump
  <2>2. s.k \in {"var", "assign", "expr", "break", "continue"}
    BY <1>5 DEF declare_var, check_assign, check_expr_stmt, check_jump
  <2>3. s.k \notin Opening \cup {"fn", "else", "end"}
    BY <2>2 DEF Opening
  <2> QED BY <1>2, <2>1, <2>3
<1> QED BY <1>3, <1>4, <1>5

LEMMA FnBlocks ==
  ASSUME check_fn
  PROVE  /\ blocks' \in Seq(Blocks) /\ Walks(blocks, "fn", blocks') /\ Depths(blocks', Header.unsafe)
<1> PICK b : b = Block("fn")
  OBVIOUS
<1>1. b \in Blocks /\ b.k = "fn"
  <2>1. "fn" \in BlockKinds
    BY DEF BlockKinds
  <2> QED BY <2>1, BlockFacts
<1>2. /\ blocks = << >> /\ blocks' = <<b>> /\ loopDepth' = 0
      /\ unsafeDepth' = IF Header.unsafe THEN 1 ELSE 0
  BY DEF check_fn
<1>3. blocks' \in Seq(Blocks) /\ Len(blocks') = 1 /\ blocks'[1] = b /\ Len(blocks) = 0
  BY <1>1, <1>2
<1>4. Walks(blocks, "fn", blocks')
  BY <1>1, <1>3 DEF Walks, Opening
<1>5. IsSeq(<< >>) /\ LoopsIn(<< >>) = 0 /\ UnsafeIn(<< >>) = 0
  <2>1. KindsIn(<< >>, Loops) = {} /\ KindsIn(<< >>, {"unsafe"}) = {}
    BY DEF KindsIn
  <2>2. IsSeq(<< >>)
    BY DEF IsSeq
  <2> QED BY <2>1, <2>2, FS_EmptySet DEF LoopsIn, UnsafeIn
<1>6. LoopsIn(<<b>>) = 0 /\ UnsafeIn(<<b>>) = 0
  <2>0. PICK none, one : none = << >> /\ one = <<b>>
    OBVIOUS
  <2>1. one = Append(none, b)
    BY <2>0
  <2>2. b.k \notin Loops /\ b.k # "unsafe"
    BY <1>1 DEF Loops
  <2>3. IsSeq(none) /\ LoopsIn(none) = 0 /\ UnsafeIn(none) = 0
    BY <1>5, <2>0
  <2>4. LoopsIn(one) = 0 /\ UnsafeIn(one) = 0
    BY <2>1, <2>2, <2>3, DepthsAppend
  <2> QED BY <2>0, <2>4
<1> QED BY <1>2, <1>3, <1>4, <1>6 DEF Depths

LEMMA ElseBlocks ==
  ASSUME blocks \in Seq(Blocks), Counted, ElseBlock
  PROVE  /\ blocks' \in Seq(Blocks) /\ Walks(blocks, "else", blocks') /\ Depths(blocks', Header.unsafe)
<1>0. blocks # << >> /\ Inner.k = "if" /\ UNCHANGED <<loopDepth, unsafeDepth>>
  BY DEF ElseBlock, InBody
<1>1. /\ Len(blocks) \in Nat /\ Len(blocks) > 0 /\ Inner \in Blocks /\ IsSeq(blocks)
      /\ Outer \in Seq(Blocks) /\ blocks = Append(Outer, Inner)
  BY <1>0, BlocksFacts
<1> PICK b : b = [Block("else") EXCEPT !.then = Inner.returns]
  OBVIOUS
<1>2. b \in Blocks /\ b.k = "else"
  BY <1>1 DEF Block, Blocks, BlockKinds
<1>3. blocks' = WithInner(b)
  BY DEF ElseBlock
<1>4. /\ blocks' \in Seq(Blocks) /\ Len(blocks') = Len(blocks) /\ blocks'[Len(blocks)] = b
      /\ \A i \in 1..(Len(blocks) - 1) : blocks'[i] = blocks[i]
      /\ blocks' = Append(Outer, b)
  BY <1>0, <1>2, <1>3, WithInnerFacts, ZenonT(60)
<1>5. Walks(blocks, "else", blocks')
  <2>1. blocks[Len(blocks)].k = "if"
    BY <1>0 DEF Inner
  <2> QED BY <1>1, <1>2, <1>4, <2>1 DEF Walks, SameKinds, Opening
<1>6. IsSeq(Outer)
  BY <1>1, IsSeqOf
<1>7. LoopsIn(blocks) = LoopsIn(Outer) /\ UnsafeIn(blocks) = UnsafeIn(Outer)
  BY <1>0, <1>1, <1>6, DepthsAppend DEF Loops
<1>8. LoopsIn(blocks') = LoopsIn(Outer) /\ UnsafeIn(blocks') = UnsafeIn(Outer)
  BY <1>2, <1>4, <1>6, DepthsAppend DEF Loops
<1> QED BY <1>0, <1>4, <1>5, <1>7, <1>8 DEF Depths, Counted

LEMMA EndBlocks ==
  ASSUME blocks \in Seq(Blocks), Counted, EndBlock
  PROVE  /\ blocks' \in Seq(Blocks) /\ Walks(blocks, "end", blocks') /\ Depths(blocks', Header.unsafe)
         /\ Len(blocks') > 0
<1>0. blocks # << >> /\ Len(blocks) > 1
  BY DEF EndBlock, InBody
<1>1. /\ Len(blocks) \in Nat /\ Inner \in Blocks /\ IsSeq(blocks)
      /\ Outer \in Seq(Blocks) /\ Len(Outer) = Len(blocks) - 1
      /\ \A i \in 1..Len(Outer) : Outer[i] = blocks[i]
      /\ blocks = Append(Outer, Inner)
  BY <1>0, BlocksFacts
<1> PICK n \in 1..Len(Outer) : n = Len(Outer)
  BY <1>0, <1>1
<1> PICK b : b = [Outer[n] EXCEPT !.returns = @ \/ stmt_returns]
  OBVIOUS
<1>2. b \in Blocks /\ b.k = Outer[n].k
  <2>1. Outer[n] \in Blocks
    BY <1>1
  <2>2. (Outer[n].returns \/ stmt_returns) \in BOOLEAN
    OBVIOUS
  <2> QED BY <2>1, <2>2 DEF Blocks
<1>3. blocks' = [Outer EXCEPT ![n] = b]
  BY DEF EndBlock
<1>4. /\ blocks' \in Seq(Blocks) /\ Len(blocks') = Len(Outer)
      /\ \A i \in 1..Len(Outer) : blocks'[i].k = Outer[i].k
  BY <1>1, <1>2, <1>3
<1>5. Walks(blocks, "end", blocks')
  BY <1>0, <1>1, <1>4 DEF Walks, SameKinds, Opening
<1>6. IsSeq(Outer) /\ IsSeq(blocks')
  BY <1>1, <1>4, IsSeqOf
<1>7. Follows(Outer, blocks')
  BY <1>4 DEF Follows
<1>8. LoopsIn(blocks') = LoopsIn(Outer) /\ UnsafeIn(blocks') = UnsafeIn(Outer)
  BY <1>6, <1>7, CountSame DEF LoopsIn, UnsafeIn
<1>9. /\ LoopsIn(Outer) \in Nat /\ UnsafeIn(Outer) \in Nat
      /\ Inner.k \in Loops => LoopsIn(blocks) = LoopsIn(Outer) + 1
      /\ Inner.k \notin Loops => LoopsIn(blocks) = LoopsIn(Outer)
      /\ Inner.k = "unsafe" => UnsafeIn(blocks) = UnsafeIn(Outer) + 1
      /\ Inner.k # "unsafe" => UnsafeIn(blocks) = UnsafeIn(Outer)
  BY <1>1, <1>6, DepthsAppend
<1>10. /\ loopDepth' = IF Inner.k \in {"while", "loop"} THEN loopDepth - 1 ELSE loopDepth
       /\ unsafeDepth' = IF Inner.k = "unsafe" THEN unsafeDepth - 1 ELSE unsafeDepth
  BY DEF EndBlock
<1>11. loopDepth' = LoopsIn(blocks')
  BY <1>8, <1>9, <1>10 DEF Counted, Loops
<1>12. unsafeDepth' = UnsafeIn(blocks') + IF Header.unsafe THEN 1 ELSE 0
  BY <1>8, <1>9, <1>10 DEF Counted
<1> QED BY <1>0, <1>1, <1>4, <1>5, <1>11, <1>12 DEF Depths
-----------------------------------------------------------------------------
(* What every step that writes a node does. *)
Wrote(x) ==
  /\ phase = "bodies" /\ item <= Len(items)
  /\ Grows(program, x, program')
  /\ UNCHANGED <<package, phase, functions>>
  /\ blocks' \in Seq(Blocks) /\ Walks(blocks, x.k, blocks')
  /\ diagnostics' \in Codes
  /\ diagnostics' = << >> =>
       /\ diagnostics = << >> /\ NodeOK(program', Len(program'))
       /\ x.k \in Jumps => \E i \in 1..Len(blocks) : blocks[i].k \in Loops
  /\ IF x.k = "fn" THEN x = FnNode(Header) ELSE IsNode(x)
  /\ IF blocks' = << >> THEN item' = item + 1
     ELSE /\ item' = item /\ Depths(blocks', Header.unsafe)
          /\ DOMAIN vars' \subseteq LocalsOf(program', OwnFn(program'))

LEMMA OldNodes ==
  ASSUME NEW p, NEW x, NEW q, Grows(p, x, q), NEW i \in 1..Len(p), NodeOK(p, i)
  PROVE  NodeOK(q, i)
<1>1. /\ FnFirst(p) /\ Len(p) \in Nat /\ q[i] = p[i] /\ LastFnOf(q, i) = LastFnOf(p, i)
      /\ UnsafeAt(p, i) => UnsafeAt(q, i)
  BY Grown
<1>2. LocalsOf(p, LastFnOf(p, i)) \subseteq LocalsOf(q, LastFnOf(q, i))
  <2>1. LastFnOf(p, i) \in 1..Len(p)
    BY <1>1, LastFnFacts
  <2> QED BY <1>1, <2>1, Grown
<1>3. ASSUME NEW e, UseOK(e, p, i) PROVE UseOK(e, q, i)
  BY <1>1, <1>2, <1>3 DEF UseOK, CallOK
<1> QED BY <1>1, <1>2, <1>3 DEF NodeOK

LEMMA NoParts ==
  ASSUME NEW q, NEW i, PartsOf(q[i]) = {}, q[i].k # "assign"
  PROVE  NodeOK(q, i)
BY DEF NodeOK

LEMMA UnsafeDepth ==
  ASSUME SemaInv, BodyInv, InBody, unsafeDepth # 0
  PROVE  program[OwnFn(program)].unsafe \/ \E b \in 1..Len(blocks) : blocks[b].k = "unsafe"
<1>1. Counted /\ program[OwnFn(program)] = FnNode(Header) /\ IsSeq(blocks)
  BY BlocksFacts DEF SemaInv, BodyInv, InBody
<1>2. CASE Header.unsafe
  BY <1>1, <1>2 DEF FnNode
<1>3. CASE ~Header.unsafe
  <2>1. UnsafeIn(blocks) \in Nat /\ unsafeDepth = UnsafeIn(blocks) + 0
    BY <1>1, <1>3, CountFacts DEF Counted, UnsafeIn
  <2>2. Cardinality(KindsIn(blocks, {"unsafe"})) # 0
    BY <2>1 DEF UnsafeIn
  <2> QED BY <1>1, <2>2, CountFacts
<1> QED BY <1>2, <1>3

LEMMA NodeChecked ==
  ASSUME SemaInv, BodyInv, InBody, NEW s, IsStatement(s), StmtClean(s), s.k \notin {"fn", "end"},
         NEW q, Grows(program, s, q)
  PROVE  NodeOK(q, Len(q))
<1>1. q[Len(q)] = s
  BY Grown
<1>2. program # << >> /\ DOMAIN vars \subseteq LocalsOf(program, OwnFn(program))
      /\ AllOpened(program, blocks) /\ IsSeq(blocks)
  BY BlocksFacts DEF SemaInv, BodyInv, InBody
<1>3. DOMAIN vars \subseteq LocalsOf(q, LastFnOf(q, Len(q)))
  BY <1>2, BodyNext DEF OwnFn
<1>4. unsafeDepth # 0 => UnsafeAt(q, Len(q))
  BY <1>2, UnsafeDepth, UnsafeNext
<1>5. SUFFICES ASSUME \A e \in PartsOf(s) : ~IsAlloc(e) PROVE \A e \in PartsOf(s) : Allowed(e)
  <2>1. ASSUME NEW e, Allowed(e), ~IsAlloc(e) PROVE UseOK(e, q, Len(q))
    BY <1>3, <1>4, <2>1 DEF Allowed, MayCall, UseOK, CallOK, IsAlloc
  <2>2. s.k = "assign" => s.name \in LocalsOf(q, LastFnOf(q, Len(q)))
    BY <1>3 DEF StmtClean
  <2> QED BY <1>1, <2>1, <2>2 DEF NodeOK
<1>6. CASE Has(s, "expr")
  <2>1. PartsOf(s) = SubExprs[s.expr]
    BY <1>6 DEF PartsOf, IsStatement
  <2>2. s.expr \in Expressions /\ expr_type[s.expr].errs = << >>
    BY <1>6 DEF IsStatement, StmtClean
  <2> QED BY <1>5, <2>1, <2>2, ExprChecked
<1>7. CASE ~Has(s, "expr") /\ Has(s, "cond")
  <2>1. PartsOf(s) = SubExprs[s.cond]
    BY <1>7 DEF PartsOf
  <2>2. s.cond \in Expressions /\ expr_type[s.cond].errs = << >>
    BY <1>7 DEF IsStatement, StmtClean
  <2> QED BY <1>5, <2>1, <2>2, ExprChecked
<1>8. CASE ~Has(s, "expr") /\ ~Has(s, "cond")
  BY <1>8 DEF PartsOf
<1> QED BY <1>6, <1>7, <1>8

LEMMA HeaderFacts ==
  ASSUME SemaInv, item <= Len(items)
  PROVE  IsHeader(Header) /\ Len(Header.params) \in Nat
<1>1. IsHeader(Header)
  BY ItemsFacts DEF Header
<1> QED BY <1>1 DEF IsHeader

LEMMA FnWrote ==
  ASSUME SemaInv, BodyInv, check_fn
  PROVE  Wrote(FnNode(Header))
<1> PICK x : x = FnNode(Header)
  OBVIOUS
<1>1. /\ x.k = "fn" /\ x.params = Header.params /\ ~Has(x, "expr") /\ ~Has(x, "cond")
  BY DEF FnNode, Has
<1>2. /\ phase = "bodies" /\ item <= Len(items) /\ program' = Append(program, x)
      /\ UNCHANGED <<package, phase, functions, item>>
  BY DEF check_fn, Write
<1>3. Grows(program, x, program')
  BY <1>1, <1>2 DEF Grows, BodyInv
<1>4. blocks' \in Seq(Blocks) /\ Walks(blocks, "fn", blocks') /\ Depths(blocks', Header.unsafe)
  BY FnBlocks
<1>5. diagnostics' \in Codes /\ (diagnostics' = << >> => diagnostics = << >>)
  <2> DEFINE codes == [i \in 1..Len(Header.params) |->
                         If(FirstNamed(Header.params, Header.params[i].name) # i, "E4202")]
  <2>1. Len(Header.params) \in Nat
    BY <1>2, HeaderFacts
  <2>2. << >> \in Codes /\ <<"E4202">> \in Codes
    BY CodesTyped DEF CodeNames
  <2>3. \A i \in 1..Len(Header.params) :
          If(FirstNamed(Header.params, Header.params[i].name) # i, "E4202") \in Codes
    BY <2>2 DEF If
  <2>4. codes \in Seq(Codes)
    BY <2>1, <2>3
  <2>5. Report(Seqs!FlattenSeq(codes))
    BY DEF check_fn
  <2> HIDE DEF codes
  <2>6. Seqs!FlattenSeq(codes) \in Codes
    BY <2>4, FlattenFacts DEF Codes
  <2> QED BY <2>5, <2>6, Reported DEF SemaInv
<1>6. NodeOK(program', Len(program'))
  <2>1. program'[Len(program')] = x
    BY <1>3, Grown
  <2> QED BY <1>1, <2>1, NoParts DEF PartsOf
<1>7. DOMAIN vars' \subseteq LocalsOf(program', OwnFn(program'))
  <2>1. DOMAIN vars' = {Header.params[i].name : i \in 1..Len(Header.params)}
    BY DEF check_fn, ParamNames
  <2> QED BY <1>1, <1>3, <2>1, FnNext
<1>8. x.k \notin Jumps
  BY <1>1 DEF Jumps
<1>9. blocks' # << >>
  BY DEF check_fn
<1>10. Wrote(x)
  BY <1>1, <1>2, <1>3, <1>4, <1>5, <1>6, <1>7, <1>8, <1>9 DEF Wrote
<1> QED BY <1>10

LEMMA InBodyFacts ==
  ASSUME SemaInv, BodyInv, InBody
  PROVE  /\ phase = "bodies" /\ item <= Len(items) /\ blocks # << >> /\ Counted
         /\ blocks \in Seq(Blocks) /\ IsSeq(blocks) /\ Len(blocks) \in Nat /\ Len(blocks) > 0
         /\ program # << >> /\ FnFirst(program)
         /\ DOMAIN vars \subseteq LocalsOf(program, OwnFn(program))
         /\ IsHeader(Header)
BY BlocksFacts, HeaderFacts DEF SemaInv, BodyInv, InBody

LEMMA StmtWrote ==
  ASSUME SemaInv, BodyInv, check_stmt
  PROVE  \E s : Wrote(s)
<1>1. PICK s \in Header.body : /\ Write(s)
                               /\ \/ declare_var(s) \/ check_assign(s) \/ check_ret(s) \/ check_expr_stmt(s)
                                  \/ check_jump(s) \/ check_open(s)
  BY DEF check_stmt
<1>2. InBody /\ UNCHANGED <<package, phase, item, functions>>
  BY DEF check_stmt
<1>3. /\ phase = "bodies" /\ item <= Len(items) /\ blocks # << >> /\ Counted
      /\ blocks \in Seq(Blocks) /\ IsSeq(blocks) /\ Len(blocks) \in Nat
      /\ program # << >> /\ FnFirst(program)
      /\ DOMAIN vars \subseteq LocalsOf(program, OwnFn(program))
      /\ IsHeader(Header)
  BY <1>2, InBodyFacts
<1>4. IsStatement(s) /\ s.k \notin {"fn", "else", "end"}
  <2>1. IsStatement(s)
    BY <1>3 DEF IsHeader
  <2> QED BY <2>1 DEF IsStatement
<1>5. Grows(program, s, program')
  BY <1>1, <1>3 DEF Grows, Write
<1>6. /\ blocks' \in Seq(Blocks) /\ Walks(blocks, s.k, blocks') /\ Depths(blocks', Header.unsafe)
  BY <1>1, <1>3, <1>4, StmtBlocks
<1>7. /\ diagnostics' \in Codes
      /\ diagnostics' = << >> => diagnostics = << >> /\ StmtClean(s)
  BY <1>1, <1>4, StmtReported DEF SemaInv
<1>8. diagnostics' = << >> => NodeOK(program', Len(program'))
  BY <1>2, <1>4, <1>5, <1>7, NodeChecked
<1>9. diagnostics' = << >> /\ s.k \in Jumps => \E i \in 1..Len(blocks) : blocks[i].k \in Loops
  <2>1. SUFFICES ASSUME loopDepth # 0 PROVE \E i \in 1..Len(blocks) : blocks[i].k \in Loops
    BY <1>7 DEF StmtClean
  <2> QED BY <1>3, <2>1, CountFacts DEF Counted, LoopsIn
<1>10. blocks' # << >>
  <2>1. IsSeq(blocks')
    BY <1>6, IsSeqOf
  <2>2. Len(blocks') > 0
    BY <1>3, <1>4, <1>6 DEF Walks
  <2> QED BY <2>1, <2>2, SeqFacts
<1>11. DOMAIN vars' \subseteq LocalsOf(program', OwnFn(program'))
  <2>1. /\ LocalsOf(program, OwnFn(program)) \subseteq LocalsOf(program', OwnFn(program'))
        /\ s.k = "var" => s.name \in LocalsOf(program', OwnFn(program'))
    BY <1>3, <1>4, <1>5, BodyNext
  <2>2. DOMAIN vars' \subseteq DOMAIN vars \/ (s.k = "var" /\ DOMAIN vars' = DOMAIN vars \cup {s.name})
    BY <1>1 DEF declare_var, check_assign, check_ret, check_expr_stmt, check_jump, check_open, With
  <2> QED BY <1>3, <2>1, <2>2
<1>12. Wrote(s)
  BY <1>2, <1>3, <1>4, <1>5, <1>6, <1>7, <1>8, <1>9, <1>10, <1>11 DEF Wrote, IsNode
<1> QED BY <1>12

LEMMA EndsWrote ==
  ASSUME SemaInv, BodyInv, ElseBlock \/ EndBlock \/ EndFn
  PROVE  \E s : Wrote(s)
<1>0. /\ phase = "bodies" /\ item <= Len(items) /\ blocks # << >> /\ Counted
      /\ blocks \in Seq(Blocks) /\ Len(blocks) \in Nat /\ Len(blocks) > 0
      /\ program # << >> /\ FnFirst(program) /\ IsHeader(Header)
      /\ DOMAIN vars \subseteq LocalsOf(program, OwnFn(program))
  BY InBodyFacts DEF ElseBlock, EndBlock, EndFn
<1>1. ASSUME NEW s, s = [k |-> "else"] \/ s = [k |-> "end"], Write(s)
      PROVE  /\ Grows(program, s, program') /\ IsNode(s) /\ s.k \notin Jumps /\ s.k # "fn"
             /\ NodeOK(program', Len(program'))
             /\ LocalsOf(program, OwnFn(program)) \subseteq LocalsOf(program', OwnFn(program'))
  <2>1. Grows(program, s, program') /\ s.k \notin Jumps /\ s.k # "fn"
    BY <1>0, <1>1 DEF Grows, Write, Jumps
  <2>2. program'[Len(program')] = s
    BY <2>1, Grown
  <2>3. PartsOf(s) = {} /\ s.k # "assign"
    BY <1>1 DEF PartsOf, Has
  <2>4. NodeOK(program', Len(program'))
    BY <2>2, <2>3, NoParts
  <2> QED BY <1>0, <1>1, <2>1, <2>4, BodyNext DEF IsNode
<1>2. CASE ElseBlock
  <2> PICK s : s = [k |-> "else"]
    OBVIOUS
  <2>1. Write(s) /\ s.k = "else" /\ UNCHANGED <<package, phase, item, functions, vars, diagnostics>>
    BY <1>2 DEF ElseBlock
  <2>2. /\ blocks' \in Seq(Blocks) /\ Walks(blocks, "else", blocks') /\ Depths(blocks', Header.unsafe)
    BY <1>0, <1>2, ElseBlocks
  <2>3. blocks' # << >>
    <3>1. IsSeq(blocks')
      BY <2>2, IsSeqOf
    <3>2. Len(blocks') > 0
      BY <1>0, <2>2 DEF Walks
    <3> QED BY <3>1, <3>2, SeqFacts
  <2>4. Wrote(s)
    BY <1>0, <1>1, <2>1, <2>2, <2>3 DEF Wrote, SemaInv
  <2> QED BY <2>4
<1>3. CASE EndBlock
  <2> PICK s : s = [k |-> "end"]
    OBVIOUS
  <2>1. Write(s) /\ s.k = "end" /\ UNCHANGED <<package, phase, item, functions, vars, diagnostics>>
    BY <1>3 DEF EndBlock
  <2>2. /\ blocks' \in Seq(Blocks) /\ Walks(blocks, "end", blocks') /\ Depths(blocks', Header.unsafe)
        /\ Len(blocks') > 0
    BY <1>0, <1>3, EndBlocks
  <2>3. blocks' # << >>
    <3>1. IsSeq(blocks')
      BY <2>2, IsSeqOf
    <3> QED BY <2>2, <3>1, SeqFacts
  <2>4. Wrote(s)
    BY <1>0, <1>1, <2>1, <2>2, <2>3 DEF Wrote, SemaInv
  <2> QED BY <2>4
<1>4. CASE EndFn
  <2> PICK s : s = [k |-> "end"]
    OBVIOUS
  <2>1. /\ Write(s) /\ s.k = "end" /\ UNCHANGED <<package, phase, functions, vars>>
        /\ blocks' = << >> /\ item' = item + 1 /\ Len(blocks) = 1
    BY <1>4 DEF EndFn
  <2>2. blocks' \in Seq(Blocks) /\ Len(blocks') = 0
    BY <2>1
  <2>3. Walks(blocks, "end", blocks')
    BY <2>1, <2>2 DEF Walks, SameKinds, Opening
  <2>4. diagnostics' \in Codes /\ (diagnostics' = << >> => diagnostics = << >>)
    <3> PICK codes : codes = If(Header.ret # "void" /\ ~Inner.returns, "E4101")
      OBVIOUS
    <3>1. << >> \in Codes /\ <<"E4101">> \in Codes
      BY CodesTyped DEF CodeNames
    <3>2. codes \in Codes
      BY <3>1 DEF If
    <3>3. Report(codes)
      BY <1>4 DEF EndFn
    <3> QED BY <3>2, <3>3, Reported DEF SemaInv
  <2>5. Wrote(s)
    BY <1>0, <1>1, <2>1, <2>2, <2>3, <2>4 DEF Wrote
  <2> QED BY <2>5
<1> QED BY <1>2, <1>3, <1>4
-----------------------------------------------------------------------------
(* The invariants of the check, step by step. *)
LEMMA WroteSema ==
  ASSUME SemaInv, NEW x, Wrote(x)
  PROVE  SemaInv'
<1>1. /\ UNCHANGED <<package, phase>> /\ phase = "bodies" /\ item <= Len(items) /\ items' = items
      /\ blocks' \in Seq(Blocks) /\ diagnostics' \in Codes
  BY DEF Wrote, items
<1>2. Len(items) \in Nat /\ item \in Nat /\ item >= 1
  BY ItemsFacts
<1>3. CASE blocks' = << >>
  <2>1. item' = item + 1
    BY <1>3 DEF Wrote
  <2> QED BY <1>1, <1>2, <1>3, <2>1 DEF SemaInv
<1>4. CASE blocks' # << >>
  <2>1. item' = item /\ Depths(blocks', Header.unsafe)
    BY <1>4 DEF Wrote
  <2>2. Header' = Header
    BY <1>1, <2>1 DEF Header
  <2>3. Counted'
    BY <2>1, <2>2 DEF Counted, Depths
  <2> QED BY <1>1, <1>2, <2>1, <2>3 DEF SemaInv
<1> QED BY <1>3, <1>4

LEMMA WroteReg ==
  ASSUME SemaInv, RegInv, NEW x, Wrote(x)
  PROVE  RegInv'
<1>1. /\ UNCHANGED <<package, phase, functions>> /\ phase = "bodies"
      /\ items' = items /\ requires' = requires
      /\ diagnostics' = << >> => diagnostics = << >>
  BY DEF Wrote, items, requires
<1>2. Registered = Len(items) /\ Registered' = Len(items)
  BY <1>1 DEF Registered
<1>3. NamesDiffer => NamesDiffer'
  BY <1>1, <1>2 DEF NamesDiffer
<1>4. MainIsMain => MainIsMain'
  BY <1>1 DEF MainIsMain, MainSignature
<1> QED BY <1>1, <1>2, <1>3, <1>4 DEF RegInv

LEMMA NodeOKSame ==
  ASSUME UNCHANGED <<package, functions>>, NEW p, NEW i
  PROVE  NodeOK(p, i)' <=> NodeOK(p, i)
BY DEF NodeOK, UseOK, CallOK, requires

LEMMA WroteBody ==
  ASSUME SemaInv, RegInv, BodyInv, NEW x, Wrote(x)
  PROVE  BodyInv'
<1>1. /\ UNCHANGED <<package, phase, functions>> /\ phase = "bodies" /\ item <= Len(items)
      /\ items' = items /\ requires' = requires
      /\ Grows(program, x, program') /\ Walks(blocks, x.k, blocks')
      /\ IsSeq(blocks) /\ IsSeq(blocks') /\ Len(blocks) \in Nat
  BY IsSeqOf, BlocksFacts DEF Wrote, items, requires, SemaInv
<1>2. Len(items) \in Nat /\ item \in Nat /\ item >= 1
  BY ItemsFacts
<1> PICK q : q = program'
  OBVIOUS
<1>3. /\ FnFirst(program) /\ FnFirst(q) /\ Len(program) \in Nat /\ Len(q) = Len(program) + 1
      /\ q[Len(program) + 1] = x
      /\ \A i \in 1..Len(program) : q[i] = program[i]
  BY <1>1, Grown
<1>4. FnNodes(q) = {FnNode(items[j]) : j \in 1..Begun'}
  <2>0. FnNodes(program) = {FnNode(items[j]) : j \in 1..Begun}
    BY DEF BodyInv
  <2>1. CASE x.k = "fn"
    <3>1. x = FnNode(Header) /\ Len(blocks) = 0 /\ Len(blocks') = 1
      BY <1>1, <2>1 DEF Wrote, Walks
    <3>2. blocks = << >> /\ blocks' # << >>
      <4>1. blocks = << >>
        BY <1>1, <3>1, SeqFacts
      <4>2. PICK t : t = blocks'
        OBVIOUS
      <4>3. t # << >>
        BY <3>1, <4>2
      <4> QED BY <4>1, <4>2, <4>3
    <3>3. Begun = item - 1 /\ Begun' = item
      BY <1>1, <3>2 DEF Begun, Wrote
    <3>4. 1..item = 1..(item - 1) \cup {item}
      BY <1>2
    <3>5. FnNodes(q) = FnNodes(program) \cup {x}
      BY <1>1, <2>1, FnNext
    <3> QED BY <2>0, <3>1, <3>3, <3>4, <3>5 DEF Header
  <2>2. CASE x.k # "fn"
    <3>1. Len(blocks) > 0
      BY <1>1, <2>2 DEF Walks
    <3>2. blocks # << >>
      BY <1>1, <3>1, SeqFacts
    <3>3. Begun = item /\ Begun' = item
      BY <1>1, <1>2, <3>2 DEF Begun, Wrote
    <3>4. program # << >>
      BY <3>2 DEF BodyInv
    <3>5. FnNodes(q) = FnNodes(program)
      BY <1>1, <2>2, <3>4, BodyNext
    <3> QED BY <2>0, <3>3, <3>5
  <2> QED BY <2>1, <2>2
<1>5. \A i \in 1..Len(q) : q[i].k # "fn" => IsNode(q[i])
  <2>1. ASSUME NEW i \in 1..Len(q), q[i].k # "fn" PROVE IsNode(q[i])
    <3>1. CASE i \in 1..Len(program)
      BY <1>3, <2>1, <3>1 DEF BodyInv
    <3>2. CASE i = Len(program) + 1
      BY <1>3, <2>1, <3>2 DEF Wrote
    <3> QED BY <1>3, <3>1, <3>2
  <2> QED BY <2>1
<1>6. ASSUME blocks' # << >>
      PROVE  /\ q # << >> /\ q[OwnFn(q)] = FnNode(Header)'
             /\ DOMAIN vars' \subseteq LocalsOf(q, OwnFn(q))
  <2>1. item' = item /\ DOMAIN vars' \subseteq LocalsOf(program', OwnFn(program'))
    BY <1>6 DEF Wrote
  <2>2. Header' = Header
    BY <1>1, <2>1 DEF Header
  <2>3. FnNode(Header)' = FnNode(Header)
    BY <2>2 DEF FnNode
  <2>4. q # << >>
    BY <1>3, SeqFacts DEF FnFirst
  <2>5. CASE x.k = "fn"
    <3>1. q[OwnFn(q)] = x /\ x = FnNode(Header)
      BY <1>1, <2>5, FnNext DEF Wrote
    <3> QED BY <2>1, <2>3, <2>4, <3>1
  <2>6. CASE x.k # "fn"
    <3>1. Len(blocks) > 0
      BY <1>1, <2>6 DEF Walks
    <3>2. blocks # << >>
      BY <1>1, <3>1, SeqFacts
    <3>3. program # << >> /\ program[OwnFn(program)] = FnNode(Header)
      BY <3>2 DEF BodyInv
    <3>4. q[OwnFn(q)] = program[OwnFn(program)]
      BY <1>1, <2>6, <3>3, BodyNext
    <3> QED BY <2>1, <2>3, <2>4, <3>3, <3>4
  <2> QED BY <2>5, <2>6
<1>7. AllOpened(q, blocks')
  BY <1>1, OpenedNext DEF BodyInv
<1>8. ASSUME diagnostics' = << >>, NEW i \in 1..Len(q) PROVE NodeOK(q, i)
  <2>1. CASE i \in 1..Len(program)
    <3>1. NodeOK(program, i)
      BY <1>8, <2>1 DEF Wrote, BodyInv
    <3> QED BY <1>1, <2>1, <3>1, OldNodes
  <2>2. CASE i = Len(program) + 1
    BY <1>3, <1>8, <2>2 DEF Wrote
  <2> QED BY <1>3, <2>1, <2>2
<1>9. \A i : NodeOK(program, i)' <=> NodeOK(q, i)
  BY <1>1 DEF NodeOK, UseOK, CallOK
<1>10. diagnostics' = << >> => \A i \in 1..Len(program') : NodeOK(program, i)'
  BY <1>8, <1>9
<1>11. FnFirst(program)' /\ (phase' = "register" => program' = << >>)
  BY <1>1, <1>3 DEF FnFirst, Elems, IsSeq
<1>12. FnNodes(program)' = {FnNode(items[j]) : j \in 1..Begun}'
  BY <1>1, <1>4 DEF FnNodes, FnNode
<1>13. ASSUME diagnostics' = << >> PROVE FnsDiffer(q)
  <2>1. diagnostics = << >> /\ FnsDiffer(program) /\ NamesDiffer /\ Registered = Len(items)
    BY <1>1, <1>13 DEF Wrote, BodyInv, RegInv, Registered
  <2>2. CASE x.k = "fn"
    <3>1. x = FnNode(Header) /\ Len(blocks) = 0
      BY <1>1, <2>2 DEF Wrote, Walks
    <3>2. blocks = << >>
      BY <1>1, <3>1, SeqFacts
    <3>3. Begun = item - 1
      BY <1>1, <3>2 DEF Begun
    <3>4. ASSUME NEW i \in 1..Len(program), program[i].k = "fn"
          PROVE  program[i].name # x.name
      <4>1. program[i] \in FnNodes(program)
        BY <3>4 DEF FnNodes
      <4>2. PICK j \in 1..(item - 1) : program[i] = FnNode(items[j])
        BY <3>3, <4>1 DEF BodyInv
      <4>3. items[j].name # items[item].name
        BY <1>1, <1>2, <2>1 DEF NamesDiffer
      <4> QED BY <3>1, <4>2, <4>3 DEF FnNode, Header
    <3> QED BY <1>3, <2>1, <3>4 DEF FnsDiffer
  <2>3. CASE x.k # "fn"
    BY <1>3, <2>1, <2>3 DEF FnsDiffer
  <2> QED BY <2>2, <2>3
<1>14. diagnostics' = << >> => FnsDiffer(program')
  BY <1>13
<1> QED BY <1>5, <1>6, <1>7, <1>10, <1>11, <1>12, <1>14 DEF BodyInv, FnsDiffer

Continues(p, s, d, x, q, t, e) ==
  Grows(p, x, q) /\ IsSeq(t) /\ NodeWalks(s, x.k, t, e) /\ (e = << >> => d = << >>)

LEMMA HistoryNext ==
  ASSUME NEW p, NEW s, NEW d, NEW x, NEW q, NEW t, NEW e, Continues(p, s, d, x, q, t, e),
         NEW h, IsHistory(h, p, s, d)
  PROVE  \E g : IsHistory(g, q, t, e)
<1>0. Grows(p, x, q) /\ IsSeq(t) /\ NodeWalks(s, x.k, t, e) /\ (e = << >> => d = << >>)
  BY DEF Continues
<1> PICK n \in Nat : n = Len(p)
  BY <1>0, Grown
<1>1. /\ Len(q) = n + 1 /\ q[n + 1] = x /\ \A i \in 1..n : q[i] = p[i]
  BY <1>0, Grown
<1>2. /\ Len(h[0]) = 0 /\ h[n] = s
      /\ \A m \in 0..n : IsSeq(h[m])
      /\ \A m \in 1..n : NodeWalks(h[m - 1], p[m].k, h[m], d)
  BY DEF IsHistory
<1> PICK g : g = [m \in 0..(n + 1) |-> IF m = n + 1 THEN t ELSE h[m]]
  OBVIOUS
<1>3. g[n + 1] = t /\ \A m \in 0..n : g[m] = h[m]
  OBVIOUS
<1>4. Len(g[0]) = 0
  BY <1>2, <1>3
<1>5. ASSUME NEW m \in 0..(n + 1) PROVE IsSeq(g[m])
  <2>1. m \in 0..n \/ m = n + 1
    OBVIOUS
  <2> QED BY <1>0, <1>2, <1>3, <2>1
<1>6. ASSUME NEW m \in 1..(n + 1) PROVE NodeWalks(g[m - 1], q[m].k, g[m], e)
  <2>0. m \in 1..n \/ m = n + 1
    OBVIOUS
  <2>1. CASE m \in 1..n
    <3>1. g[m - 1] = h[m - 1] /\ g[m] = h[m] /\ q[m] = p[m]
      BY <1>1, <1>3, <2>1
    <3>2. NodeWalks(h[m - 1], p[m].k, h[m], d)
      BY <1>2, <2>1
    <3>3. NodeWalks(h[m - 1], p[m].k, h[m], e)
      BY <1>0, <3>2 DEF NodeWalks
    <3> QED BY <3>1, <3>3
  <2>2. CASE m = n + 1
    <3>1. m - 1 = n /\ n \in 0..n
      BY <2>2
    <3>2. g[m - 1] = s /\ g[m] = t /\ q[m] = x
      BY <1>1, <1>2, <1>3, <2>2, <3>1
    <3> QED BY <1>0, <3>2
  <2> QED BY <2>0, <2>1, <2>2
<1>7. IsHistory(g, q, t, e)
  BY <1>1, <1>3, <1>4, <1>5, <1>6 DEF IsHistory
<1> QED BY <1>7

LEMMA WroteHist ==
  ASSUME SemaInv, BodyInv, HistInv, NEW x, Wrote(x)
  PROVE  HistInv'
<1>1. PICK h : IsHistory(h, program, blocks, diagnostics)
  BY DEF HistInv, History
<1>2. /\ phase' = "bodies"
      /\ Continues(program, blocks, diagnostics, x, program', blocks', diagnostics')
  BY IsSeqOf DEF Wrote, NodeWalks, Continues
<1>3. \E g : IsHistory(g, program', blocks', diagnostics')
  BY <1>1, <1>2, HistoryNext
<1>4. PICK g : History(g)'
  BY <1>3 DEF History
<1> QED BY <1>2, <1>4 DEF HistInv

LEMMA RegisterSema ==
  ASSUME SemaInv, RegisterFn \/ CheckMain
  PROVE  SemaInv'
<1>1. phase = "register" /\ UNCHANGED <<package, blocks>> /\ items' = items /\ blocks = << >>
  BY DEF RegisterFn, CheckMain, SemaInv, items
<1>2. Len(items) \in Nat /\ item \in Nat /\ item >= 1 /\ item <= Len(items) + 1
  BY ItemsFacts
<1>3. diagnostics' \in Codes
  <2>1. << >> \in Codes /\ <<"E4202">> \in Codes /\ <<"E0801">> \in Codes /\ <<"E0902">> \in Codes
    BY CodesTyped DEF CodeNames
  <2>2. \E codes \in Codes : Report(codes)
    <3>1. CASE RegisterFn
      <4>1. CASE Has(functions, Header.name)
        BY <2>1, <3>1, <4>1 DEF RegisterFn
      <4>2. CASE ~Has(functions, Header.name)
        <5>1. Report(If(Header.unsafe /\ "unsafe" \notin requires, "E0801"))
          BY <3>1, <4>2 DEF RegisterFn
        <5> QED BY <2>1, <5>1 DEF If
      <4> QED BY <4>1, <4>2
    <3>2. CASE CheckMain
      <4>1. \E b : Report(If(b, "E0902"))
        BY <3>2 DEF CheckMain
      <4> QED BY <2>1, <4>1 DEF If
    <3> QED BY <3>1, <3>2
  <2> QED BY <2>2, Reported DEF SemaInv
<1>4. item' \in 1..(Len(items) + 1) /\ phase' \in {"register", "bodies"}
  <2>1. \/ item <= Len(items) /\ item' = item + 1 /\ phase' = "register"
        \/ item' = 1 /\ phase' = "bodies"
    BY <1>1 DEF RegisterFn, CheckMain
  <2> QED BY <1>2, <2>1
<1> QED BY <1>1, <1>3, <1>4 DEF SemaInv

LEMMA RegisterReg ==
  ASSUME SemaInv, RegInv, RegisterFn
  PROVE  RegInv'
<1>1. /\ phase = "register" /\ phase' = "register" /\ UNCHANGED package
      /\ items' = items /\ requires' = requires /\ item <= Len(items) /\ item' = item + 1
  BY DEF RegisterFn, items, requires
<1>2. Len(items) \in Nat /\ item \in Nat /\ item >= 1
  BY ItemsFacts
<1>3. Registered = item - 1 /\ Registered' = item /\ 1..item = 1..(item - 1) \cup {item}
  BY <1>1, <1>2 DEF Registered
<1>4. Header = items[item] /\ Header' = items[item + 1]
  BY <1>1 DEF Header
<1>5. DOMAIN functions = {items[i].name : i \in 1..(item - 1)}
  BY <1>3 DEF RegInv
<1>6. MainIsMain'
  BY <1>1 DEF MainIsMain
<1>9. \A i : Signature(items'[i]) = Signature(items[i]) /\ Signature(items'[i]) = Signature(items[i])'
  BY <1>1 DEF Signature
<1>7. CASE Has(functions, Header.name)
  <2>1. functions' = functions
    BY <1>7 DEF RegisterFn
  <2>2. DOMAIN functions' = {items[i].name : i \in 1..item}
    BY <1>3, <1>4, <1>5, <1>7, <2>1 DEF Has
  <2>3. diagnostics' # << >>
    <3>1. Report(<<"E4202">>) /\ <<"E4202">> \in Codes /\ <<"E4202">> # << >>
      BY <1>7, CodesTyped DEF RegisterFn, CodeNames
    <3> QED BY <3>1, Reported DEF SemaInv
  <2>4. \A f \in DOMAIN functions : \E i \in 1..item : functions[f] = Signature(items[i])
    BY <1>3 DEF RegInv
  <2> QED BY <1>1, <1>3, <1>9, <2>1, <2>2, <2>3, <2>4 DEF RegInv
<1>8. CASE ~Has(functions, Header.name)
  <2>1. functions' = With(functions, Header.name, Signature(Header))
    BY <1>8 DEF RegisterFn
  <2>2. /\ DOMAIN functions' = DOMAIN functions \cup {Header.name}
        /\ functions'[Header.name] = Signature(Header)
        /\ \A f \in DOMAIN functions : f # Header.name => functions'[f] = functions[f]
    BY <2>1 DEF With
  <2>3. DOMAIN functions' = {items[i].name : i \in 1..item}
    BY <1>3, <1>4, <1>5, <2>2
  <2>4. ASSUME diagnostics' = << >>
        PROVE  diagnostics = << >> /\ (Header.unsafe => "unsafe" \in requires)
    <3>1. Report(If(Header.unsafe /\ "unsafe" \notin requires, "E0801"))
      BY <1>8 DEF RegisterFn
    <3>2. << >> \in Codes /\ <<"E0801">> \in Codes /\ <<"E0801">> # << >>
      BY CodesTyped DEF CodeNames
    <3>3. If(Header.unsafe /\ "unsafe" \notin requires, "E0801") \in Codes
      BY <3>2 DEF If
    <3>4. /\ diagnostics = << >>
          /\ If(Header.unsafe /\ "unsafe" \notin requires, "E0801") = << >>
      BY <2>4, <3>1, <3>3, Reported DEF SemaInv
    <3> QED BY <3>2, <3>4 DEF If
  <2>5. ASSUME diagnostics' = << >>, NEW f \in DOMAIN functions', functions'[f].unsafe
        PROVE  "unsafe" \in requires
    <3>1. CASE f = Header.name
      BY <2>2, <2>4, <2>5, <3>1 DEF Signature
    <3>2. CASE f # Header.name
      BY <2>2, <2>4, <2>5, <3>2 DEF RegInv
    <3> QED BY <3>1, <3>2
  <2>6. diagnostics' = << >> => NamesDiffer'
    <3>1. SUFFICES ASSUME diagnostics' = << >>, NEW i \in 1..item, NEW j \in 1..item,
                          items[i].name = items[j].name
                   PROVE  i = j
      BY <1>1, <1>3 DEF NamesDiffer
    <3>2. NamesDiffer
      BY <2>4, <3>1 DEF RegInv
    <3>3. \A k \in 1..(item - 1) : items[k].name # items[item].name
      BY <1>4, <1>5, <1>8 DEF Has
    <3> QED BY <1>3, <3>1, <3>2, <3>3 DEF NamesDiffer
  <2>7. \A f \in DOMAIN functions' : \E i \in 1..item : functions'[f] = Signature(items[i])
    <3> TAKE f \in DOMAIN functions'
    <3>2. CASE f = Header.name
      BY <1>2, <1>4, <2>2, <3>2
    <3>3. CASE f # Header.name
      <4>1. f \in DOMAIN functions /\ functions'[f] = functions[f]
        BY <2>2, <3>3
      <4>2. PICK i \in 1..(item - 1) : functions[f] = Signature(items[i])
        BY <1>3, <4>1 DEF RegInv
      <4> QED BY <1>3, <4>1, <4>2
    <3> QED BY <3>2, <3>3
  <2> QED BY <1>1, <1>3, <1>6, <1>9, <2>3, <2>5, <2>6, <2>7 DEF RegInv
<1> QED BY <1>7, <1>8

LEMMA CheckMainReg ==
  ASSUME SemaInv, RegInv, CheckMain
  PROVE  RegInv'
<1>1. /\ phase = "register" /\ phase' = "bodies" /\ UNCHANGED <<package, functions>>
      /\ items' = items /\ requires' = requires /\ item > Len(items)
  BY DEF CheckMain, items, requires
<1>2. Len(items) \in Nat /\ item \in Nat /\ item <= Len(items) + 1
  BY ItemsFacts
<1>3. Registered = Len(items) /\ Registered' = Len(items)
  BY <1>1, <1>2 DEF Registered
<1>4. PICK bad : /\ Report(If(bad, "E0902"))
                 /\ bad <=> /\ package.type = "executable"
                            /\ Has(functions, "main") => functions["main"] # MainSignature
  BY DEF CheckMain
<1>5. ASSUME diagnostics' = << >> PROVE diagnostics = << >> /\ ~bad
  <2>1. << >> \in Codes /\ <<"E0902">> \in Codes /\ <<"E0902">> # << >>
    BY CodesTyped DEF CodeNames
  <2>2. If(bad, "E0902") \in Codes
    BY <2>1 DEF If
  <2>3. diagnostics = << >> /\ If(bad, "E0902") = << >>
    BY <1>4, <1>5, <2>2, Reported DEF SemaInv
  <2> QED BY <2>1, <2>3 DEF If
<1>6. diagnostics' = << >> => MainIsMain'
  BY <1>1, <1>4, <1>5 DEF MainIsMain, Has, MainSignature
<1>7. diagnostics' = << >> => NamesDiffer'
  BY <1>1, <1>3, <1>5 DEF NamesDiffer, RegInv
<1> QED BY <1>1, <1>3, <1>5, <1>6, <1>7 DEF RegInv

LEMMA RegisterBody ==
  ASSUME SemaInv, BodyInv, HistInv, RegisterFn \/ CheckMain
  PROVE  BodyInv' /\ HistInv'
<1>1. /\ phase = "register" /\ phase' \in {"register", "bodies"} /\ phase' # "emit"
      /\ blocks = << >> /\ program = << >>
      /\ UNCHANGED <<package, blocks, program>> /\ items' = items
      /\ phase' = "bodies" => item' = 1
  BY DEF RegisterFn, CheckMain, SemaInv, BodyInv, items
<1>2. Begun = 0 /\ Begun' = 0
  BY <1>1 DEF Begun
<1>3. BodyInv'
  <2>1. FnFirst(program)' /\ AllOpened(program, blocks)'
    BY <1>1 DEF BodyInv, FnFirst, IsSeq, Elems, AllOpened, Opened, OpenAt
  <2>2. FnNodes(program) = {FnNode(items[j]) : j \in 1..0}
    BY <1>2 DEF BodyInv
  <2>3. (FnNodes(program) = {FnNode(items[j]) : j \in 1..Begun})'
    BY <1>1, <1>2, <2>2 DEF FnNodes, FnNode
  <2>4. program' = << >> /\ blocks' = << >>
    BY <1>1
  <2>5. 1..Len(program') = {}
    BY <2>4
  <2>6. FnsDiffer(program)'
    BY <2>5 DEF FnsDiffer
  <2> QED BY <2>1, <2>3, <2>4, <2>5, <2>6 DEF BodyInv
<1>4. HistInv'
  <2>1. PICK h : IsHistory(h, program, blocks, diagnostics)
    BY DEF HistInv, History
  <2>2. 1..Len(program) = {}
    BY <1>1
  <2>3. IsHistory(h, program, blocks, diagnostics')
    BY <2>1, <2>2 DEF IsHistory
  <2>4. History(h)'
    BY <1>1, <2>3 DEF History
  <2> QED BY <1>1, <2>4 DEF HistInv
<1> QED BY <1>3, <1>4

(* Behind the check its variables stay, but for the phase. *)
Rests == UNCHANGED <<package, item, functions, program, vars, loopDepth, unsafeDepth, blocks,
                     diagnostics>>

LEMMA RestsInv ==
  ASSUME SemaInv, RegInv, BodyInv, Rests, phase # "register", item = Len(items) + 1,
         phase' \notin {"register", "bodies"}
  PROVE  SemaInv' /\ RegInv' /\ BodyInv'
<1>1. /\ items' = items /\ requires' = requires /\ Rests
  BY DEF Rests, items, requires
<1>2. Len(items) \in Nat
  BY ItemsFacts
<1>3. blocks = << >>
  BY <1>2 DEF SemaInv
<1>4. SemaInv'
  BY <1>1, <1>3 DEF SemaInv, Rests
<1>5. Registered' = Registered /\ Begun' = Begun
  BY <1>1, <1>3 DEF Registered, Begun, Rests
<1>6. RegInv'
  <2>1. NamesDiffer => NamesDiffer'
    BY <1>1, <1>5 DEF NamesDiffer
  <2>2. MainIsMain => MainIsMain'
    BY <1>1 DEF MainIsMain, MainSignature, Rests
  <2> QED BY <1>1, <1>5, <2>1, <2>2 DEF RegInv, Rests
<1>7. BodyInv'
  <2>1. program' = program /\ blocks' = << >> /\ diagnostics' = diagnostics /\ package' = package
        /\ functions' = functions
    BY <1>1, <1>3 DEF Rests
  <2>2. FnFirst(program)' /\ AllOpened(program, blocks)'
    BY <1>3, <2>1 DEF BodyInv, FnFirst, IsSeq, Elems, AllOpened, Opened, OpenAt
  <2>3. (FnNodes(program) = {FnNode(items[j]) : j \in 1..Begun})'
    <3>1. FnNodes(program) = {FnNode(items[j]) : j \in 1..Begun}
      BY DEF BodyInv
    <3> QED BY <1>1, <1>5, <2>1, <3>1 DEF FnNodes, FnNode
  <2>4. diagnostics' = << >> => \A i \in 1..Len(program') : NodeOK(program, i)'
    <3>1. ASSUME NEW i PROVE NodeOK(program, i)' <=> NodeOK(program, i)
      BY <2>1 DEF NodeOK, UseOK, CallOK, requires
    <3> QED BY <2>1, <3>1 DEF BodyInv
  <2>5. \A i \in 1..Len(program') : program'[i].k # "fn" => IsNode(program'[i])
    BY <2>1 DEF BodyInv
  <2> QED BY <2>1, <2>2, <2>3, <2>4, <2>5 DEF BodyInv
<1> QED BY <1>4, <1>6, <1>7

CheckInv == SemaInv /\ RegInv /\ BodyInv /\ HistInv

LEMMA CheckInit ==
  ASSUME MachineInit
  PROVE  CheckInv /\ GenInv
<1>1. /\ package \in Packages /\ phase = "register" /\ item = 1
      /\ functions = Nothing /\ program = << >> /\ blocks = << >> /\ diagnostics = << >>
      /\ labels = << >>
  BY DEF MachineInit, SemaInit, GenInit
<1>2. Len(items) \in Nat
  BY <1>1, SemaAssumption DEF items
<1>3. SemaInv
  BY <1>1, <1>2, CodesTyped DEF SemaInv
<1>4. 1..Registered = {} /\ 1..Begun = {} /\ Registered = 0 /\ 1..Len(program) = {}
  BY <1>1 DEF Registered, Begun
<1>5. RegInv
  <2>1. NamesDiffer /\ MainIsMain
    BY <1>1, <1>4 DEF NamesDiffer, MainIsMain
  <2>2. DOMAIN functions = {}
    BY <1>1 DEF Nothing
  <2> QED BY <1>4, <2>1, <2>2 DEF RegInv
<1>6. BodyInv
  <2>1. FnFirst(program) /\ AllOpened(program, blocks)
    <3>1. << >> \in Seq({}) /\ Elems(<< >>) = {}
      BY DEF Elems
    <3> QED BY <1>1, <3>1 DEF FnFirst, IsSeq, AllOpened
  <2>2. FnNodes(program) = {} /\ {FnNode(items[j]) : j \in 1..Begun} = {}
    BY <1>4 DEF FnNodes
  <2>3. FnsDiffer(program)
    BY <1>4 DEF FnsDiffer
  <2> QED BY <1>1, <1>4, <2>1, <2>2, <2>3 DEF BodyInv
<1>7. HistInv
  <2> PICK h : h = [n \in {0} |-> << >>]
    OBVIOUS
  <2>1. IsSeq(<< >>)
    BY DEF IsSeq, Elems
  <2>2. h[0] = << >> /\ Len(program) = 0 /\ 0..0 = {0}
    BY <1>1
  <2>3. IsHistory(h, program, blocks, diagnostics)
    BY <1>1, <1>4, <2>1, <2>2 DEF IsHistory
  <2> QED BY <1>1, <2>3 DEF HistInv, History
<1>8. GenInv
  BY <1>1 DEF GenInv, FrontEnd
<1> QED BY <1>3, <1>5, <1>6, <1>7, <1>8 DEF CheckInv

LEMMA CheckSteps ==
  ASSUME CheckInv, GenInv, SemaNext, UNCHANGED genVars
  PROVE  CheckInv' /\ GenInv'
<1>1. SemaInv /\ RegInv /\ BodyInv /\ HistInv
  BY DEF CheckInv
<1>2. GenInv'
  <2>1. phase \in FrontEnd /\ phase' \in FrontEnd
    BY DEF SemaNext, RegisterFn, CheckMain, check_fn, check_stmt, ElseBlock, EndBlock, EndFn, Checked,
           InBody, FrontEnd
  <2>2. labels' = << >>
    BY <2>1 DEF GenInv, genVars
  <2> QED BY <2>1, <2>2 DEF GenInv
<1>3. CASE \E x : Wrote(x)
  BY <1>1, <1>3, WroteSema, WroteReg, WroteBody, WroteHist, <1>2 DEF CheckInv
<1>4. CASE RegisterFn
  BY <1>1, <1>2, <1>4, RegisterSema, RegisterReg, RegisterBody DEF CheckInv
<1>5. CASE CheckMain
  BY <1>1, <1>2, <1>5, RegisterSema, CheckMainReg, RegisterBody DEF CheckInv
<1>6. CASE check_fn
  BY <1>1, <1>3, <1>6, FnWrote
<1>7. CASE check_stmt
  BY <1>1, <1>3, <1>7, StmtWrote
<1>8. CASE ElseBlock \/ EndBlock \/ EndFn
  BY <1>1, <1>3, <1>8, EndsWrote
<1>9. CASE Checked
  <2>1. /\ phase = "bodies" /\ phase' = "checked" /\ item > Len(items) /\ blocks = << >> /\ Rests
    BY <1>9 DEF Checked, Rests
  <2>2. item = Len(items) + 1
    BY <1>1, <2>1, ItemsFacts
  <2>3. SemaInv' /\ RegInv' /\ BodyInv'
    BY <1>1, <2>1, <2>2, RestsInv
  <2>4. HistInv'
    <3>1. PICK h : IsHistory(h, program, blocks, diagnostics)
      BY <1>1 DEF HistInv, History
    <3>2. IsHistory(h, program', blocks', diagnostics')
      BY <2>1, <3>1 DEF Rests
    <3>3. History(h)'
      BY <3>2 DEF History
    <3> QED BY <2>1, <3>3 DEF HistInv
  <2> QED BY <1>2, <2>3, <2>4 DEF CheckInv
<1> QED BY <1>4, <1>5, <1>6, <1>7, <1>8, <1>9 DEF SemaNext
-----------------------------------------------------------------------------
(* The lines a node is emitted as.                                         *)
Plain(l) == l[1] \notin {"write", "call", "lea", "enter"}
NodeLines(lines) ==
  /\ IsSeq(lines)
  /\ \A l \in Elems(lines) : /\ l[1] \in {"write", "call", "lea"} =>
                                  \E e \in PartsOf(Node) : OwnLine(e, l)
                             /\ l[1] = "enter" => Node.k = "fn"
  /\ \A e \in PartsOf(Node) : HasOwn(e, lines)
  /\ Node.k = "fn" => lines # << >> /\ \E l \in Elems(lines) : l[1] = "enter"

LEMMA FewLines ==
  /\ IsSeq(<< >>) /\ Elems(<< >>) = {}
  /\ \A a : IsSeq(<<a>>) /\ Elems(<<a>>) = {a}
  /\ \A a, b : IsSeq(<<a, b>>) /\ Elems(<<a, b>>) = {a, b}
  /\ \A a, b, c : IsSeq(<<a, b, c>>) /\ Elems(<<a, b, c>>) = {a, b, c}
<1>1. IsSeq(<< >>) /\ Elems(<< >>) = {}
  BY DEF IsSeq, Elems
<1>2. ASSUME NEW a PROVE IsSeq(<<a>>) /\ Elems(<<a>>) = {a}
  <2>1. Elems(<<a>>) = {a}
    BY ElemsOne
  <2> QED BY <2>1 DEF IsSeq
<1>3. ASSUME NEW a, NEW b PROVE IsSeq(<<a, b>>) /\ Elems(<<a, b>>) = {a, b}
  <2> PICK s : s = <<a, b>>
    OBVIOUS
  <2>1. Len(s) = 2 /\ s[1] = a /\ s[2] = b /\ s \in Seq({a, b}) /\ 1..2 = {1, 2}
    OBVIOUS
  <2>2. Elems(s) = {a, b}
    BY <2>1 DEF Elems
  <2> QED BY <2>1, <2>2 DEF IsSeq
<1>4. ASSUME NEW a, NEW b, NEW c PROVE IsSeq(<<a, b, c>>) /\ Elems(<<a, b, c>>) = {a, b, c}
  <2> PICK s : s = <<a, b, c>>
    OBVIOUS
  <2>1. Len(s) = 3 /\ s[1] = a /\ s[2] = b /\ s[3] = c /\ s \in Seq({a, b, c}) /\ 1..3 = {1, 2, 3}
    OBVIOUS
  <2>2. Elems(s) = {a, b, c}
    BY <2>1 DEF Elems
  <2> QED BY <2>1, <2>2 DEF IsSeq
<1> QED BY <1>1, <1>2, <1>3, <1>4

LEMMA LineIs ==
  ASSUME NEW op, NEW arg
  PROVE  /\ Line(op, arg)[1] = op /\ Line(op, arg)[2] = arg
         /\ op \notin {"write", "call", "lea", "enter"} => Plain(Line(op, arg))
BY DEF Line, Plain

LEMMA PlainNode ==
  ASSUME PartsOf(Node) = {}, Node.k # "fn", NEW lines, IsSeq(lines),
         \A l \in Elems(lines) : Plain(l)
  PROVE  NodeLines(lines)
BY DEF NodeLines, Plain

LEMMA ExprNode ==
  ASSUME NEW e \in Expressions, PartsOf(Node) = SubExprs[e], Node.k # "fn",
         NEW lines, IsSeq(lines), Elems(emit_expr[e]) \subseteq Elems(lines),
         \A l \in Elems(lines) : l \in Elems(emit_expr[e]) \/ Plain(l)
  PROVE  NodeLines(lines)
<1>1. /\ \A l \in Elems(emit_expr[e]) : \E x \in SubExprs[e] : OwnLine(x, l)
      /\ \A x \in SubExprs[e] : HasOwn(x, emit_expr[e])
  BY ExprLines
<1>2. \A x \in PartsOf(Node) : HasOwn(x, lines)
  BY <1>1 DEF HasOwn
<1>3. ASSUME NEW l \in Elems(lines), ~Plain(l)
      PROVE  (\E x \in PartsOf(Node) : OwnLine(x, l)) /\ l[1] # "enter"
  <2>1. PICK x \in SubExprs[e] : OwnLine(x, l)
    BY <1>1, <1>3
  <2>2. l[1] # "enter"
    <3>1. l[1] \in Quiet \/ l[1] \in {"write", "call", "lea"}
      <4>1. /\ Line("write", "")[1] = "write" /\ Line("lea", "string")[1] = "lea"
            /\ Line("call", x.callee)[1] = "call" /\ Line("call", x.name)[1] = "call"
        BY LineIs
      <4> QED BY <2>1, <4>1 DEF OwnLine
    <3> QED BY <3>1 DEF Quiet
  <2> QED BY <2>1, <2>2
<1> QED BY <1>2, <1>3 DEF NodeLines, Plain

LEMMA NodeFacts ==
  ASSUME SemaInv, BodyInv, GenInv, Emitting
  PROVE  /\ gen \in Nat /\ gen \in 1..Len(program)
         /\ Node.k = "fn" => PartsOf(Node) = {} /\ Len(Node.params) \in Nat
         /\ Node.k \in {"var", "assign", "expr"} \/ (Node.k = "ret" /\ Has(Node, "expr")) =>
              Node.expr \in Expressions /\ PartsOf(Node) = SubExprs[Node.expr]
         /\ Node.k \in {"if", "while"} =>
              Node.cond \in Expressions /\ PartsOf(Node) = SubExprs[Node.cond]
         /\ Node.k = "ret" /\ ~Has(Node, "expr") => PartsOf(Node) = {}
         /\ Node.k \in {"loop", "unsafe", "break", "continue", "else", "end"} => PartsOf(Node) = {}
<1>1. FnFirst(program)
  BY DEF BodyInv
<1>2. Len(program) \in Nat
  BY <1>1, SeqFacts DEF FnFirst
<1>3. gen \in Nat /\ gen \in 1..Len(program)
  BY <1>2 DEF GenInv, Emitting, FrontEnd
<1>4. CASE Node.k = "fn"
  <2>1. Node \in FnNodes(program)
    BY <1>3, <1>4 DEF FnNodes, Node
  <2>2. phase = "emit"
    BY DEF Emitting
  <2>3. item = Len(items) + 1 /\ blocks = << >>
    BY <2>2 DEF SemaInv
  <2>4. PICK j \in 1..Len(items) : Node = FnNode(items[j])
    <3>1. Begun = Len(items)
      BY <2>2, <2>3, ItemsFacts DEF Begun
    <3> QED BY <2>1, <3>1 DEF BodyInv
  <2>5. IsHeader(items[j])
    BY ItemsFacts
  <2>6. Len(Node.params) \in Nat
    BY <2>4, <2>5 DEF IsHeader, FnNode
  <2>7. ~Has(Node, "expr") /\ ~Has(Node, "cond")
    BY <2>4 DEF FnNode, Has
  <2> QED BY <1>3, <1>4, <2>6, <2>7 DEF PartsOf
<1>5. CASE Node.k # "fn"
  <2>1. IsNode(Node)
    BY <1>3, <1>5 DEF BodyInv, Node
  <2>2. CASE IsStatement(Node)
    <3>1. /\ Node.k \in {"var", "assign", "expr"} => Has(Node, "expr")
          /\ Has(Node, "expr") => Node.expr \in Expressions
          /\ Has(Node, "expr") => Node.k \in {"var", "assign", "expr", "ret"}
          /\ Has(Node, "cond") => Node.cond \in Expressions
          /\ Has(Node, "cond") <=> Node.k \in {"if", "while"}
      BY <2>2 DEF IsStatement
    <3>2. /\ Has(Node, "expr") /\ ~Has(Node, "cond") => PartsOf(Node) = SubExprs[Node.expr]
          /\ Has(Node, "cond") /\ ~Has(Node, "expr") => PartsOf(Node) = SubExprs[Node.cond]
          /\ ~Has(Node, "cond") /\ ~Has(Node, "expr") => PartsOf(Node) = {}
      BY DEF PartsOf
    <3> QED BY <1>3, <1>5, <3>1, <3>2
  <2>3. CASE Node = [k |-> "else"] \/ Node = [k |-> "end"]
    <3>1. ~Has(Node, "expr") /\ ~Has(Node, "cond") /\ Node.k \in {"else", "end"}
      BY <2>3 DEF Has
    <3> QED BY <1>3, <3>1 DEF PartsOf
  <2> QED BY <2>1, <2>2, <2>3 DEF IsNode
<1> QED BY <1>4, <1>5

(* What each action of the generator does with its node. *)
Walked(lines) ==
  /\ Emitting /\ gen' = gen + 1 /\ Rests /\ phase' = phase
  /\ NodeLines(lines) /\ (Emit(lines) \/ (lines = << >> /\ code' = code))
  /\ Walks(labels, Node.k, labels') /\ Labelled(labels')
  /\ IF Node.k = "fn" THEN DOMAIN env' = LocalsOf(program, gen) ELSE env' = env

LineRec(l, i, f) == [op |-> l[1], arg |-> l[2], of |-> i, fn |-> f]

LEMMA EmitFacts ==
  ASSUME NEW lines, IsSeq(lines), IsSeq(code), Len(code) > 0,
         Emit(lines) \/ (lines = << >> /\ code' = code)
  PROVE  /\ IsSeq(code') /\ Len(code') > 0
         /\ Elems(code') = Elems(code) \cup {LineRec(l, gen, NameOf(gen)) : l \in Elems(lines)}
         /\ lines = << >> => code'[Len(code')] = code[Len(code)]
         /\ lines # << >> => code'[Len(code')].fn = NameOf(gen)
<1>1. CASE lines = << >> /\ code' = code
  BY <1>1, FewLines
<1>2. CASE Emit(lines)
  <2>1. FnOf(gen).name = NameOf(gen)
    BY ProgramNames DEF NameOf
  <2> PICK t : t = [i \in 1..Len(lines) |-> LineRec(lines[i], gen, NameOf(gen))]
    OBVIOUS
  <2>2. code' = code \o t
    BY <1>2, <2>1 DEF Emit, LineRec
  <2>3. Len(lines) \in Nat /\ (lines = << >> <=> Len(lines) = 0)
    BY SeqFacts
  <2>4. t \in Seq({LineRec(lines[i], gen, NameOf(gen)) : i \in 1..Len(lines)}) /\ Len(t) = Len(lines)
    BY <2>3
  <2>5. IsSeq(t)
    BY <2>4, IsSeqOf
  <2>6. Elems(t) = {LineRec(l, gen, NameOf(gen)) : l \in Elems(lines)}
    BY <2>4, ZenonT(60) DEF Elems
  <2>7. t = << >> <=> lines = << >>
    BY <2>3, <2>4, <2>5, SeqFacts
  <2>8. /\ IsSeq(code') /\ Elems(code') = Elems(code) \cup Elems(t)
        /\ Len(code') = Len(code) + Len(t)
        /\ t # << >> => code'[Len(code')] = t[Len(t)]
        /\ t = << >> => code' = code
    <3> PICK c : c = code \o t
      OBVIOUS
    <3>2. /\ IsSeq(code \o t) /\ Elems(code \o t) = Elems(code) \cup Elems(t)
          /\ Len(code \o t) = Len(code) + Len(t)
          /\ t # << >> => (code \o t)[Len(code \o t)] = t[Len(t)]
          /\ t = << >> => code \o t = code
      BY ONLY <2>5, ConcatFacts, IsSeq(code)
    <3>1. /\ IsSeq(c) /\ Elems(c) = Elems(code) \cup Elems(t)
          /\ Len(c) = Len(code) + Len(t)
          /\ t # << >> => c[Len(c)] = t[Len(t)]
          /\ t = << >> => c = code
      BY <3>2
    <3> QED BY <2>2, <3>1
  <2>9. Len(code') > 0
    BY <2>3, <2>4, <2>8, SeqFacts
  <2>10. lines # << >> => code'[Len(code')].fn = NameOf(gen)
    <3>1. lines # << >> => t[Len(t)] = LineRec(lines[Len(lines)], gen, NameOf(gen))
      BY <2>3, <2>4
    <3> QED BY <2>7, <2>8, <3>1 DEF LineRec
  <2> QED BY <2>6, <2>7, <2>8, <2>9, <2>10
<1> QED BY <1>1, <1>2

LEMMA FollowsNext ==
  ASSUME NEW s, NEW k, NEW t, NEW u, NEW v, IsSeq(s), IsSeq(t), IsSeq(u), IsSeq(v),
         Follows(u, s), Walks(s, k, t), Walks(u, k, v)
  PROVE  Follows(v, t)
<1>1. /\ Len(s) \in Nat /\ Len(u) = Len(s) /\ \A i \in 1..Len(s) : u[i].k = s[i].k
  BY SeqFacts DEF Follows
<1>2. Len(v) = Len(t) /\ Len(t) \in Nat
  BY <1>1, SeqFacts DEF Walks
<1>3. ASSUME NEW i \in 1..Len(t) PROVE v[i].k = t[i].k
  <2>1. CASE k = "fn"
    BY <1>2, <1>3, <2>1 DEF Walks
  <2>2. CASE k \in Opening
    <3>1. i \in 1..Len(s) \/ i = Len(s) + 1
      BY <1>1, <1>3, <2>2 DEF Walks
    <3> QED BY <1>1, <2>2, <3>1 DEF Walks, SameKinds
  <2>3. CASE k = "else"
    <3>1. i \in 1..(Len(s) - 1) \/ i = Len(s)
      BY <1>1, <1>3, <2>3 DEF Walks
    <3>2. i \in 1..Len(s)
      BY <1>1, <1>3, <2>3 DEF Walks
    <3> QED BY <1>1, <2>3, <3>1, <3>2 DEF Walks, SameKinds
  <2>4. CASE k = "end"
    <3>1. i \in 1..(Len(s) - 1) /\ i \in 1..Len(s)
      BY <1>1, <1>3, <2>4 DEF Walks
    <3> QED BY <1>1, <2>4, <3>1 DEF Walks, SameKinds
  <2>5. CASE k \notin Opening \cup {"fn", "else", "end"}
    <3>1. i \in 1..Len(s)
      BY <1>1, <1>3, <2>5 DEF Walks
    <3> QED BY <1>1, <2>5, <3>1 DEF Walks, SameKinds
  <2> QED BY <2>1, <2>2, <2>3, <2>4, <2>5
<1> QED BY <1>2, <1>3 DEF Follows

LEMMA WalkedHist ==
  ASSUME BodyInv, HistInv, GenInv, NEW lines, Walked(lines)
  PROVE  HistInv'
<1>1. PICK h : History(h) /\ Follows(labels, h[gen - 1])
  BY DEF HistInv, Walked, Emitting
<1>2. FnFirst(program) /\ Len(program) \in Nat
  BY SeqFacts DEF BodyInv, FnFirst
<1>3. gen \in 1..Len(program) /\ gen \in Nat /\ gen - 1 \in 0..Len(program) /\ gen \in 0..Len(program)
  BY <1>2 DEF Walked, Emitting, GenInv, FrontEnd
<1>4. IsSeq(h[gen - 1]) /\ IsSeq(h[gen]) /\ Walks(h[gen - 1], Node.k, h[gen])
  BY <1>1, <1>3 DEF History, IsHistory, NodeWalks, Node
<1>5. IsSeq(labels) /\ IsSeq(labels') /\ Walks(labels, Node.k, labels')
  BY DEF Walked, GenInv, Emitting, Labelled, FrontEnd
<1>6. Follows(labels', h[gen])
  BY <1>1, <1>4, <1>5, FollowsNext
<1>7. History(h)'
  <2>1. program' = program /\ blocks' = blocks /\ diagnostics' = diagnostics
    BY DEF Walked, Rests
  <2>2. IsHistory(h, program, blocks, diagnostics)
    BY <1>1 DEF History
  <2>3. IsHistory(h, program', blocks', diagnostics')
    BY <2>1, <2>2
  <2> QED BY <2>3 DEF History
<1>8. gen' - 1 = gen
  BY <1>3 DEF Walked
<1> QED BY <1>6, <1>7, <1>8 DEF HistInv

LEMMA WalkedCode ==
  ASSUME SemaInv, BodyInv, GenInv, NEW lines, Walked(lines)
  PROVE  GenInv'
<1>1. /\ phase = "emit" /\ phase' = "emit" /\ program' = program /\ functions' = functions
      /\ diagnostics' = << >> /\ gen' = gen + 1 /\ CodeInv /\ Labelled(labels')
      /\ gen > 1 => DOMAIN env = LocalsOf(program, LastFnOf(program, gen - 1))
  BY DEF Walked, Rests, Emitting, GenInv, FrontEnd
<1>2. gen \in Nat /\ gen \in 1..Len(program)
  BY NodeFacts DEF Walked
<1>3. FnFirst(program) /\ Len(program) \in Nat
  BY SeqFacts DEF BodyInv, FnFirst
<1>4. /\ Node.k = "fn" => LastFnOf(program, gen) = gen
      /\ Node.k # "fn" => gen > 1 /\ LastFnOf(program, gen) = LastFnOf(program, gen - 1)
  <2>1. gen - 1 \in Nat /\ (gen - 1) + 1 = gen
    BY <1>2
  <2>2. Node.k # "fn" => gen # 1
    BY <1>2, <1>3, SeqFacts DEF FnFirst, Node
  <2> PICK m \in Nat : m = gen - 1 /\ m + 1 = gen
    BY <2>1
  <2>3. /\ program[m + 1].k = "fn" => LastFnOf(program, m + 1) = m + 1
        /\ program[m + 1].k # "fn" => LastFnOf(program, m + 1) = LastFnOf(program, m)
    BY <1>2, <1>3, LastFnNext
  <2> QED BY <1>2, <2>2, <2>3 DEF Node
<1>5. DOMAIN env' = LocalsOf(program, LastFnOf(program, gen))
  <2>1. CASE Node.k = "fn"
    BY <1>4, <2>1 DEF Walked
  <2>2. CASE Node.k # "fn"
    BY <1>1, <1>4, <2>2 DEF Walked
  <2> QED BY <2>1, <2>2
<1>6. gen' - 1 = gen /\ gen' > 1 /\ gen' \in 1..(Len(program) + 1) /\ 1..(gen' - 1) = 1..gen
  BY <1>1, <1>2, <1>3
<1>7. NodeLines(lines) /\ IsSeq(lines) /\ IsSeq(code) /\ Len(code) > 0
  BY <1>1 DEF Walked, NodeLines, CodeInv
<1>8. /\ IsSeq(code') /\ Len(code') > 0
      /\ Elems(code') = Elems(code) \cup {LineRec(l, gen, NameOf(gen)) : l \in Elems(lines)}
      /\ lines = << >> => code'[Len(code')] = code[Len(code)]
      /\ lines # << >> => code'[Len(code')].fn = NameOf(gen)
  BY <1>7, EmitFacts DEF Walked
<1>9. \A i : NameOf(i)' = NameOf(i)
  BY <1>1 DEF NameOf
<1>10. ASSUME NEW l \in Elems(code') PROVE LineOK(l)'
  <2>1. CASE l \in Elems(code)
    <3>1. LineOK(l)
      BY <1>1, <2>1 DEF CodeInv
    <3>2. \A e : Source(e, l) => Source(e, l)'
      BY <1>1 DEF Source
    <3>3. \A i \in 1..(gen - 1) : i \in 1..(gen' - 1)
      <4>1. \A i \in 1..(gen - 1) : i \in 1..gen
        BY <1>2
      <4> QED BY <1>6, <4>1
    <3> QED BY <1>1, <1>9, <3>1, <3>2, <3>3 DEF LineOK
  <2>2. CASE l \in {LineRec(r, gen, NameOf(gen)) : r \in Elems(lines)}
    <3>1. PICK r \in Elems(lines) : l = LineRec(r, gen, NameOf(gen))
      BY <2>2
    <3>2. l.op = r[1] /\ l.arg = r[2] /\ l.of = gen /\ l.fn = NameOf(gen)
      BY <3>1 DEF LineRec
    <3>3. /\ r[1] \in {"write", "call", "lea"} => \E e \in PartsOf(Node) : OwnLine(e, r)
          /\ r[1] = "enter" => Node.k = "fn"
      BY <1>7 DEF NodeLines
    <3>4. ASSUME r[1] \in {"write", "call", "lea"}, NEW e \in PartsOf(Node), OwnLine(e, r) PROVE Source(e, l)'
      <4>1. \/ e.k = "call" /\ e.callee = "io.write" /\ r[1] = "write"
            \/ e.k = "call" /\ e.callee # "io.write" /\ r[1] = "call" /\ r[2] = e.callee
            \/ e.k = "str" /\ r[1] = "lea"
            \/ e.k = "ident" /\ e.name \notin DOMAIN env /\ e.name \in DOMAIN functions
                 /\ r[1] = "call" /\ r[2] = e.name
        <5>1. /\ Line("write", "")[1] = "write" /\ Line("lea", "string")[1] = "lea"
              /\ Line("call", e.callee)[1] = "call" /\ Line("call", e.callee)[2] = e.callee
              /\ Line("call", e.name)[1] = "call" /\ Line("call", e.name)[2] = e.name
          BY LineIs
        <5>2. r[1] \notin Quiet
          BY <3>4 DEF Quiet
        <5> QED BY <3>4, <5>1, <5>2 DEF OwnLine
      <4>2. DOMAIN env = LocalsOf(program, LastFnOf(program, gen))
        <5>1. Node.k # "fn"
          BY <3>4, NodeFacts DEF Walked
        <5> QED BY <1>5, <5>1 DEF Walked
      <4> QED BY <1>1, <3>2, <4>1, <4>2 DEF Source
    <3>5. r[1] \in {"write", "call", "lea"} => \E e \in PartsOf(program'[gen]) : Source(e, l)'
      BY <1>1, <3>3, <3>4 DEF Node
    <3> QED BY <1>1, <1>2, <1>6, <1>9, <3>2, <3>3, <3>5 DEF LineOK, Node
  <2> QED BY <1>8, <2>1, <2>2
<1>11. ASSUME NEW i \in 1..(gen' - 1) PROVE NodeEmitted(i)'
  <2>1. Elems(code) \subseteq Elems(code')
    BY <1>8
  <2>2. CASE i \in 1..(gen - 1)
    <3>1. NodeEmitted(i)
      BY <1>1, <2>2 DEF CodeInv
    <3> QED BY <1>1, <1>9, <2>1, <3>1 DEF NodeEmitted
  <2>3. CASE i = gen
    <3>1. /\ \A e \in PartsOf(Node) : HasOwn(e, lines)
          /\ Node.k = "fn" => \E r \in Elems(lines) : r[1] = "enter"
      BY <1>7 DEF NodeLines
    <3>2. \A r \in Elems(lines) : \E l \in Elems(code') :
            l.op = r[1] /\ l.arg = r[2] /\ l.fn = NameOf(gen)
      <4> SUFFICES ASSUME NEW r \in Elems(lines)
                   PROVE  \E l \in Elems(code') : l.op = r[1] /\ l.arg = r[2] /\ l.fn = NameOf(gen)
        OBVIOUS
      <4>1. LineRec(r, gen, NameOf(gen)) \in Elems(code')
        BY <1>8
      <4> QED BY <4>1 DEF LineRec
    <3>3. Node.k = "fn" => \E l \in Elems(code') : l.op = "enter" /\ l.fn = Node.name
      <4>1. Node.k = "fn" => NameOf(gen) = Node.name
        BY <1>4 DEF NameOf, Node
      <4> QED BY <3>1, <3>2, <4>1
    <3>4. ASSUME NEW e \in PartsOf(Node)
          PROVE  /\ e.k = "call" /\ e.callee # "io.write" =>
                      \E l \in Elems(code') : l.op = "call" /\ l.arg = e.callee
                 /\ e.k = "str" => \E l \in Elems(code') : l.op = "lea" /\ l.fn = NameOf(gen)
      <4>1. /\ e.k = "call" /\ e.callee # "io.write" => Line("call", e.callee) \in Elems(lines)
            /\ e.k = "str" => Line("lea", "string") \in Elems(lines)
        BY <3>1 DEF HasOwn
      <4>2. /\ Line("call", e.callee)[1] = "call" /\ Line("call", e.callee)[2] = e.callee
            /\ Line("lea", "string")[1] = "lea"
        BY LineIs
      <4> QED BY <3>2, <4>1, <4>2
    <3> QED BY <1>1, <1>9, <2>3, <3>3, <3>4 DEF NodeEmitted, Node
  <2>4. i \in 1..gen
    BY <1>6, <1>11
  <2>5. i \in 1..(gen - 1) \/ i = gen
    BY <1>2, <2>4
  <2> QED BY <2>2, <2>3, <2>5
<1>12. code'[Len(code')].fn = NameOf(gen)
  <2>1. CASE lines = << >>
    <3>1. Node.k # "fn"
      BY <1>7, <2>1 DEF NodeLines
    <3>2. NameOf(gen) = NameOf(gen - 1) /\ gen > 1
      BY <1>4, <3>1 DEF NameOf
    <3> QED BY <1>1, <1>8, <2>1, <3>2 DEF CodeInv
  <2>2. CASE lines # << >>
    BY <1>8, <2>2
  <2> QED BY <2>1, <2>2
<1>13. CodeInv'
  <2>1. \E l \in Elems(code') : l.op = "call" /\ l.arg = "main"
    BY <1>1, <1>8 DEF CodeInv
  <2> QED BY <1>6, <1>8, <1>9, <1>10, <1>11, <1>12, <2>1 DEF CodeInv, IsSeq, Elems
<1>14. (gen > 1 => DOMAIN env = LocalsOf(program, LastFnOf(program, gen - 1)))'
  BY <1>1, <1>5, <1>6
<1> QED BY <1>1, <1>6, <1>13, <1>14 DEF GenInv, FrontEnd, AfterLoad

(* The labels of a program the check accepted. *)
LEMMA LabelFacts ==
  ASSUME SemaInv, BodyInv, HistInv, GenInv, Emitting
  PROVE  /\ Labelled(labels) /\ IsSeq(labels) /\ Len(labels) \in Nat
         /\ IF Node.k = "fn" THEN Len(labels) = 0 ELSE Len(labels) > 0
         /\ Node.k = "else" => Top.k = "if"
         /\ Node.k \in Jumps => \E i \in 1..Len(labels) : labels[i].k \in Loops
<1>1. PICK h : History(h) /\ Follows(labels, h[gen - 1])
  BY DEF HistInv, Emitting
<1>2. gen \in Nat /\ gen \in 1..Len(program)
  BY NodeFacts
<1> PICK s : s = h[gen - 1]
  OBVIOUS
<1>3. NodeWalks(s, Node.k, h[gen], diagnostics)
  BY <1>1, <1>2 DEF History, IsHistory, Node
<1>4. Labelled(labels) /\ diagnostics = << >>
  BY DEF GenInv, Emitting, FrontEnd
<1>5. IsSeq(labels) /\ Len(labels) \in Nat
  BY <1>4, SeqFacts DEF Labelled
<1>6. /\ IF Node.k = "fn" THEN Len(s) = 0 ELSE Len(s) > 0
      /\ Node.k = "else" => s[Len(s)].k = "if"
  BY <1>3 DEF NodeWalks, Walks
<1>7. Node.k \in Jumps => \E i \in 1..Len(s) : s[i].k \in Loops
  BY <1>3, <1>4 DEF NodeWalks
<1>8. Len(labels) = Len(s) /\ \A i \in 1..Len(s) : labels[i].k = s[i].k
  BY <1>1 DEF Follows
<1>9. Len(s) > 0 => Len(s) \in 1..Len(s)
  BY <1>5, <1>8
<1> QED BY <1>4, <1>5, <1>6, <1>7, <1>8, <1>9 DEF Top

LEMMA AppendLabels ==
  ASSUME Labelled(labels), Len(labels) > 0, NEW r, r.k \in Opening, "k" \in DOMAIN r,
         labels' = Append(labels, r)
  PROVE  Walks(labels, r.k, labels') /\ Labelled(labels')
<1>1. IsSeq(labels) /\ Len(labels) \in Nat
  BY SeqFacts DEF Labelled
<1> PICK t : t = Append(labels, r)
  OBVIOUS
<1>2. /\ IsSeq(t) /\ Len(t) = Len(labels) + 1 /\ t[Len(labels) + 1] = r
      /\ \A i \in 1..Len(labels) : t[i] = labels[i]
  BY <1>1, AppendFacts
<1>3. r.k \notin {"fn", "else", "end"} /\ r.k \in BlockKinds
  BY DEF Opening, BlockKinds
<1>4. Walks(labels, r.k, t)
  BY <1>1, <1>2, <1>3 DEF Walks, SameKinds
<1>5. Labelled(t)
  <2>1. ASSUME NEW i \in 1..Len(t) PROVE "k" \in DOMAIN t[i] /\ t[i].k \in BlockKinds
    <3>1. i \in 1..Len(labels) \/ i = Len(labels) + 1
      BY <1>1, <1>2
    <3> QED BY <1>2, <1>3, <3>1 DEF Labelled, Elems
  <2> QED BY <1>2, <2>1 DEF Labelled, Elems
<1> QED BY <1>4, <1>5

LEMMA BelowLabels ==
  ASSUME Labelled(labels), Len(labels) > 0
  PROVE  Walks(labels, "end", Below) /\ Labelled(Below)
<1>1. IsSeq(labels) /\ Len(labels) \in Nat /\ labels # << >>
  BY SeqFacts DEF Labelled
<1> PICK t : t = SubSeq(labels, 1, Len(labels) - 1)
  OBVIOUS
<1>2. /\ IsSeq(t) /\ Len(t) = Len(labels) - 1 /\ \A i \in 1..Len(t) : t[i] = labels[i]
  BY <1>1, FrontFacts
<1>3. Below = t
  BY DEF Below
<1>4. Walks(labels, "end", t)
  BY <1>1, <1>2 DEF Walks, SameKinds, Opening
<1>5. Labelled(t)
  <2>1. \A i \in 1..Len(t) : i \in 1..Len(labels)
    BY <1>1, <1>2
  <2> QED BY <1>2, <2>1 DEF Labelled, Elems
<1> QED BY <1>3, <1>4, <1>5

LEMMA ElseLabels ==
  ASSUME Labelled(labels), Len(labels) > 0, Top.k = "if",
         labels' = Append(Below, [Top EXCEPT !.k = "else"])
  PROVE  Walks(labels, "else", labels') /\ Labelled(labels')
<1>1. IsSeq(labels) /\ Len(labels) \in Nat
  BY SeqFacts DEF Labelled
<1> PICK b : b = Below
  OBVIOUS
<1> PICK r : r = [Top EXCEPT !.k = "else"]
  OBVIOUS
<1>2. Labelled(b) /\ IsSeq(b) /\ Len(b) = Len(labels) - 1 /\ SameKinds(labels, b, Len(labels) - 1)
  <2>1. Walks(labels, "end", b) /\ Labelled(b)
    BY BelowLabels
  <2> QED BY <2>1 DEF Walks, Labelled
<1>3. "k" \in DOMAIN Top
  <2>1. Top \in Elems(labels)
    BY <1>1 DEF Top, Elems
  <2> QED BY <2>1 DEF Labelled
<1>4. "k" \in DOMAIN r /\ r.k = "else"
  BY <1>3
<1> PICK t : t = Append(b, r)
  OBVIOUS
<1>5. /\ IsSeq(t) /\ Len(t) = Len(b) + 1 /\ t[Len(b) + 1] = r /\ \A i \in 1..Len(b) : t[i] = b[i]
  BY <1>2, AppendFacts
<1>6. Len(t) = Len(labels) /\ t[Len(labels)].k = "else" /\ SameKinds(labels, t, Len(labels) - 1)
  BY <1>1, <1>2, <1>4, <1>5 DEF SameKinds
<1>7. Walks(labels, "else", t)
  BY <1>6 DEF Walks, Opening, Top
<1>8. Labelled(t)
  <2>1. ASSUME NEW i \in 1..Len(t) PROVE "k" \in DOMAIN t[i] /\ t[i].k \in BlockKinds
    <3>1. i \in 1..Len(b) \/ i = Len(b) + 1
      BY <1>1, <1>2, <1>5
    <3>2. "else" \in BlockKinds
      BY DEF BlockKinds
    <3> QED BY <1>2, <1>4, <1>5, <3>1, <3>2 DEF Labelled, Elems
  <2> QED BY <1>5, <2>1 DEF Labelled, Elems
<1> QED BY <1>7, <1>8

LEMMA SameLabels ==
  ASSUME Labelled(labels), Len(labels) > 0, NEW k, k \notin Opening \cup {"fn", "else", "end"},
         labels' = labels
  PROVE  Walks(labels, k, labels') /\ Labelled(labels')
BY DEF Walks, SameKinds

GenContext == SemaInv /\ BodyInv /\ HistInv /\ GenInv

LEMMA StepRests ==
  ASSUME Step
  PROVE  gen' = gen + 1 /\ Rests /\ phase' = phase
BY DEF Step, semaVars, Rests

LEMMA ExprThen ==
  ASSUME NEW e \in Expressions, PartsOf(Node) = SubExprs[e], Node.k # "fn", NEW l, Plain(l)
  PROVE  /\ NodeLines(emit_expr[e] \o <<l>>)
         /\ IsSeq(emit_expr[e] \o <<l>>)
         /\ Elems(emit_expr[e] \o <<l>>) = Elems(emit_expr[e]) \cup {l}
<1> PICK s : s = emit_expr[e]
  OBVIOUS
<1> PICK t : t = <<l>>
  OBVIOUS
<1>1. IsSeq(s)
  BY ExprLines, IsSeqOf DEF LineSeqs
<1>2. IsSeq(t) /\ Elems(t) = {l}
  BY FewLines
<1>3. IsSeq(s \o t) /\ Elems(s \o t) = Elems(s) \cup Elems(t)
  BY ONLY <1>1, <1>2, ConcatFacts
<1>4. NodeLines(s \o t)
  <2>1. IsSeq(s \o t) /\ Elems(s) \subseteq Elems(s \o t)
    BY <1>3
  <2>2. \A x \in Elems(s \o t) : x \in Elems(s) \/ Plain(x)
    BY <1>2, <1>3
  <2> QED BY <2>1, <2>2, ExprNode
<1> QED BY <1>2, <1>3, <1>4

LEMMA JustExpr ==
  ASSUME NEW e \in Expressions, PartsOf(Node) = SubExprs[e], Node.k # "fn"
  PROVE  NodeLines(emit_expr[e])
<1>1. IsSeq(emit_expr[e])
  BY ExprLines, IsSeqOf DEF LineSeqs
<1> QED BY <1>1, ExprNode

LEMMA StoreWalked ==
  ASSUME GenContext, EmitStore
  PROVE  \E lines : Walked(lines)
<1>1. /\ Emitting /\ Node.k \in {"var", "assign"}
      /\ Emit(emit_expr[Node.expr] \o <<Line("store", env[Node.name])>>)
      /\ Step /\ env' = env /\ labels' = labels
  BY DEF EmitStore
<1>2. Node.expr \in Expressions /\ PartsOf(Node) = SubExprs[Node.expr]
  BY <1>1, NodeFacts DEF GenContext
<1>3. Labelled(labels) /\ Len(labels) > 0
  BY <1>1, LabelFacts DEF GenContext
<1>4. Node.k \notin Opening \cup {"fn", "else", "end"}
  BY <1>1 DEF Opening
<1>5. NodeLines(emit_expr[Node.expr] \o <<Line("store", env[Node.name])>>)
  <2>1. Plain(Line("store", env[Node.name]))
    BY LineIs
  <2> QED BY <1>2, <1>4, <2>1, ExprThen
<1>6. Walked(emit_expr[Node.expr] \o <<Line("store", env[Node.name])>>)
  BY <1>1, <1>3, <1>4, <1>5, SameLabels, StepRests DEF Walked
<1> QED BY <1>6

LEMMA RetWalked ==
  ASSUME GenContext, EmitRet
  PROVE  \E lines : Walked(lines)
<1>1. /\ Emitting /\ Node.k = "ret"
      /\ Emit((IF Has(Node, "expr") THEN emit_expr[Node.expr] ELSE <<Line("imm", 0)>>)
                \o <<Line("jmp", labels[1].end)>>)
      /\ Step /\ env' = env /\ labels' = labels
  BY DEF EmitRet
<1>2. /\ Has(Node, "expr") => Node.expr \in Expressions /\ PartsOf(Node) = SubExprs[Node.expr]
      /\ ~Has(Node, "expr") => PartsOf(Node) = {}
  BY <1>1, NodeFacts DEF GenContext
<1>3. Labelled(labels) /\ Len(labels) > 0
  BY <1>1, LabelFacts DEF GenContext
<1>4. Node.k \notin Opening \cup {"fn", "else", "end"}
  BY <1>1 DEF Opening
<1>5. \E lines : Emit(lines) /\ NodeLines(lines)
  <2>1. Plain(Line("jmp", labels[1].end)) /\ Plain(Line("imm", 0))
    BY LineIs
  <2>2. CASE Has(Node, "expr")
    <3>1. NodeLines(emit_expr[Node.expr] \o <<Line("jmp", labels[1].end)>>)
      BY <1>2, <1>4, <2>1, <2>2, ExprThen
    <3>2. Emit(emit_expr[Node.expr] \o <<Line("jmp", labels[1].end)>>)
      BY <1>1, <2>2
    <3> QED BY <3>1, <3>2
  <2>3. CASE ~Has(Node, "expr")
    <3> PICK s : s = <<Line("imm", 0)>>
      OBVIOUS
    <3> PICK t : t = <<Line("jmp", labels[1].end)>>
      OBVIOUS
    <3>1. Emit(s \o t)
      BY <1>1, <2>3
    <3>2. IsSeq(s) /\ IsSeq(t) /\ Elems(s) = {Line("imm", 0)} /\ Elems(t) = {Line("jmp", labels[1].end)}
      BY FewLines
    <3>3. IsSeq(s \o t) /\ Elems(s \o t) = Elems(s) \cup Elems(t)
      BY ONLY <3>2, ConcatFacts
    <3>4. NodeLines(s \o t)
      BY <1>2, <1>4, <2>1, <2>3, <3>2, <3>3, PlainNode
    <3> QED BY <3>1, <3>4
  <2> QED BY <2>2, <2>3
<1>6. PICK lines : Emit(lines) /\ NodeLines(lines)
  BY <1>5
<1>7. Walked(lines)
  BY <1>1, <1>3, <1>4, <1>6, SameLabels, StepRests DEF Walked
<1> QED BY <1>7

LEMMA ExprStmtWalked ==
  ASSUME GenContext, EmitExprStmt
  PROVE  \E lines : Walked(lines)
<1>1. /\ Emitting /\ Node.k = "expr" /\ Emit(emit_expr[Node.expr])
      /\ Step /\ env' = env /\ labels' = labels
  BY DEF EmitExprStmt
<1>2. Node.expr \in Expressions /\ PartsOf(Node) = SubExprs[Node.expr]
  BY <1>1, NodeFacts DEF GenContext
<1>3. Labelled(labels) /\ Len(labels) > 0
  BY <1>1, LabelFacts DEF GenContext
<1>4. Node.k \notin Opening \cup {"fn", "else", "end"}
  BY <1>1 DEF Opening
<1>5. NodeLines(emit_expr[Node.expr])
  BY <1>2, <1>4, JustExpr
<1>6. Walked(emit_expr[Node.expr])
  BY <1>1, <1>3, <1>4, <1>5, SameLabels, StepRests DEF Walked
<1> QED BY <1>6

LEMMA IfWalked ==
  ASSUME GenContext, EmitIf
  PROVE  \E lines : Walked(lines)
<1>1. /\ Emitting /\ Node.k = "if" /\ OpenLabels("if") /\ Step /\ env' = env
  BY DEF EmitIf
<1>2. PICK l : Plain(l) /\ Emit(emit_expr[Node.cond] \o <<l>>)
  <2> PICK l : l = Line("je", Label("if", IF HasElse(gen) THEN labelId ELSE labelId + 1))
    OBVIOUS
  <2>1. Plain(l)
    BY LineIs
  <2>2. Emit(emit_expr[Node.cond] \o <<l>>)
    BY DEF EmitIf
  <2> QED BY <2>1, <2>2
<1>3. Node.cond \in Expressions /\ PartsOf(Node) = SubExprs[Node.cond]
  BY <1>1, NodeFacts DEF GenContext
<1>4. Labelled(labels) /\ Len(labels) > 0
  BY <1>1, LabelFacts DEF GenContext
<1>5. NodeLines(emit_expr[Node.cond] \o <<l>>)
  BY <1>1, <1>2, <1>3, ExprThen
<1>6. Walks(labels, Node.k, labels') /\ Labelled(labels')
  <2> PICK r : r = [k |-> "if", start |-> Label("if", labelId), end |-> Label("if", labelId + 1)]
    OBVIOUS
  <2>1. r.k = "if" /\ "k" \in DOMAIN r
    OBVIOUS
  <2>2. labels' = Append(labels, r) /\ r.k \in Opening
    BY <1>1, <2>1 DEF OpenLabels, Opening
  <2> QED BY <1>1, <1>4, <2>1, <2>2, AppendLabels
<1>7. Walked(emit_expr[Node.cond] \o <<l>>)
  BY <1>1, <1>2, <1>5, <1>6, StepRests DEF Walked
<1> QED BY <1>7

LEMMA ElseWalked ==
  ASSUME GenContext, EmitElse
  PROVE  \E lines : Walked(lines)
<1>1. /\ Emitting /\ Node.k = "else" /\ Step /\ env' = env
      /\ labels' = Append(Below, [Top EXCEPT !.k = "else"])
      /\ Emit(<<Line("jmp", Top.end), Line("label", Top.start)>>)
  BY DEF EmitElse
<1>2. PartsOf(Node) = {}
  BY <1>1, NodeFacts DEF GenContext
<1>3. Labelled(labels) /\ Len(labels) > 0 /\ Top.k = "if"
  BY <1>1, LabelFacts DEF GenContext
<1>4. Walks(labels, "else", labels') /\ Labelled(labels')
  BY <1>1, <1>3, ElseLabels
<1>5. NodeLines(<<Line("jmp", Top.end), Line("label", Top.start)>>)
  <2> PICK a : a = Line("jmp", Top.end)
    OBVIOUS
  <2> PICK b : b = Line("label", Top.start)
    OBVIOUS
  <2>1. Plain(a) /\ Plain(b)
    BY LineIs
  <2>2. IsSeq(<<a, b>>) /\ Elems(<<a, b>>) = {a, b}
    BY FewLines
  <2>3. NodeLines(<<a, b>>)
    BY <1>1, <1>2, <2>1, <2>2, PlainNode
  <2> QED BY <2>3
<1>6. Walked(<<Line("jmp", Top.end), Line("label", Top.start)>>)
  BY <1>1, <1>4, <1>5, StepRests DEF Walked
<1> QED BY <1>6

LEMMA LoopWalked ==
  ASSUME GenContext, EmitLoop
  PROVE  \E lines : Walked(lines)
<1>1. /\ Emitting /\ Node.k \in {"loop", "while"} /\ OpenLabels(Node.k) /\ Step /\ env' = env
  BY DEF EmitLoop
<1>2. Labelled(labels) /\ Len(labels) > 0
  BY <1>1, LabelFacts DEF GenContext
<1>3. Walks(labels, Node.k, labels') /\ Labelled(labels')
  <2> PICK k : k = Node.k
    OBVIOUS
  <2> PICK r : r = [k |-> k, start |-> Label(k, labelId), end |-> Label(k, labelId + 1)]
    OBVIOUS
  <2>1. r.k = k /\ "k" \in DOMAIN r
    OBVIOUS
  <2>2. labels' = Append(labels, r) /\ r.k \in Opening
    BY <1>1, <2>1 DEF OpenLabels, Opening
  <2>3. Walks(labels, r.k, labels') /\ Labelled(labels')
    BY <1>2, <2>1, <2>2, AppendLabels
  <2> QED BY <2>1, <2>3
<1> PICK a : a = Line("label", Label(Node.k, labelId))
  OBVIOUS
<1>4. Plain(a) /\ IsSeq(<<a>>) /\ Elems(<<a>>) = {a}
  BY LineIs, FewLines
<1>5. \E lines : Emit(lines) /\ NodeLines(lines)
  <2>1. CASE Node.k = "loop"
    <3>1. Emit(<<a>> \o << >>)
      BY <2>1 DEF EmitLoop
    <3>2. PartsOf(Node) = {}
      BY <1>1, <2>1, NodeFacts DEF GenContext
    <3>3. IsSeq(<<a>> \o << >>) /\ Elems(<<a>> \o << >>) = {a}
      <4>1. IsSeq(<< >>) /\ Elems(<< >>) = {}
        BY FewLines
      <4> PICK s : s = <<a>>
        OBVIOUS
      <4> PICK t : t = << >>
        OBVIOUS
      <4>2. IsSeq(s) /\ IsSeq(t) /\ Elems(s) = {a} /\ Elems(t) = {}
        BY <1>4, <4>1
      <4>3. IsSeq(s \o t) /\ Elems(s \o t) = Elems(s) \cup Elems(t)
        BY ONLY <4>2, ConcatFacts
      <4> QED BY <4>2, <4>3
    <3>4. NodeLines(<<a>> \o << >>)
      BY <1>4, <2>1, <3>2, <3>3, PlainNode
    <3> QED BY <3>1, <3>4
  <2>2. CASE Node.k = "while"
    <3> PICK l : l = Line("je", Label("while", labelId + 1))
      OBVIOUS
    <3> PICK s : s = emit_expr[Node.cond] \o <<l>>
      OBVIOUS
    <3>1. Emit(<<a>> \o s)
      BY <2>2 DEF EmitLoop
    <3>2. Node.cond \in Expressions /\ PartsOf(Node) = SubExprs[Node.cond]
      BY <1>1, <2>2, NodeFacts DEF GenContext
    <3>3. Plain(l)
      BY LineIs
    <3>4. IsSeq(s) /\ Elems(s) = Elems(emit_expr[Node.cond]) \cup {l}
      BY <2>2, <3>2, <3>3, ExprThen
    <3> PICK t : t = <<a>>
      OBVIOUS
    <3>5. IsSeq(t) /\ Elems(t) = {a}
      BY <1>4
    <3>6. IsSeq(t \o s) /\ Elems(t \o s) = Elems(t) \cup Elems(s)
      BY ONLY <3>4, <3>5, ConcatFacts
    <3>7. NodeLines(t \o s)
      <4>1. Elems(emit_expr[Node.cond]) \subseteq Elems(t \o s)
        BY <3>4, <3>6
      <4>2. \A x \in Elems(t \o s) : x \in Elems(emit_expr[Node.cond]) \/ Plain(x)
        BY <1>4, <3>3, <3>4, <3>5, <3>6
      <4>3. Node.k # "fn"
        BY <2>2
      <4> QED BY <3>2, <3>6, <4>1, <4>2, <4>3, ExprNode
    <3> QED BY <3>1, <3>7
  <2> QED BY <1>1, <2>1, <2>2
<1>6. PICK lines : Emit(lines) /\ NodeLines(lines)
  BY <1>5
<1>7. Node.k # "fn"
  BY <1>1
<1>8. Walked(lines)
  BY <1>1, <1>3, <1>6, <1>7, StepRests DEF Walked
<1> QED BY <1>8

LEMMA UnsafeWalked ==
  ASSUME GenContext, EmitUnsafe
  PROVE  \E lines : Walked(lines)
<1>1. /\ Emitting /\ Node.k = "unsafe" /\ Step /\ env' = env /\ code' = code
      /\ labels' = Append(labels, [k |-> "unsafe"])
  BY DEF EmitUnsafe
<1>2. PartsOf(Node) = {}
  BY <1>1, NodeFacts DEF GenContext
<1>3. Labelled(labels) /\ Len(labels) > 0
  BY <1>1, LabelFacts DEF GenContext
<1>4. Walks(labels, "unsafe", labels') /\ Labelled(labels')
  <2> PICK r : r = [k |-> "unsafe"]
    OBVIOUS
  <2>1. r.k = "unsafe" /\ "k" \in DOMAIN r /\ r.k \in Opening
    BY DEF Opening
  <2>2. Walks(labels, r.k, labels') /\ Labelled(labels')
    BY <1>1, <1>3, <2>1, AppendLabels
  <2> QED BY <2>1, <2>2
<1>5. NodeLines(<< >>)
  BY <1>1, <1>2, FewLines, PlainNode
<1>6. Walked(<< >>)
  BY <1>1, <1>4, <1>5, StepRests DEF Walked
<1> QED BY <1>6

LEMMA JumpWalked ==
  ASSUME GenContext, EmitJump
  PROVE  \E lines : Walked(lines)
<1>1. /\ Emitting /\ Node.k \in {"break", "continue"} /\ Step /\ env' = env /\ labels' = labels
  BY DEF EmitJump
<1>2. PartsOf(Node) = {}
  BY <1>1, NodeFacts DEF GenContext
<1>3. Labelled(labels) /\ Len(labels) > 0
  BY <1>1, LabelFacts DEF GenContext
<1>4. Node.k \notin Opening \cup {"fn", "else", "end"}
  BY <1>1 DEF Opening
<1>5. PICK lines : Emit(lines) /\ (lines = << >> \/ \E target : lines = <<Line("jmp", target)>>)
  <2> DEFINE loops == {i \in DOMAIN labels : labels[i].k \in {"loop", "while"}}
             inner == labels[Ext!Max(loops)]
             target == IF Node.k = "break" THEN inner.end ELSE inner.start
  <2>1. Emit(IF loops = {} THEN << >> ELSE <<Line("jmp", target)>>)
    BY DEF EmitJump
  <2> HIDE DEF loops, target
  <2> QED BY <2>1
<1>6. NodeLines(lines)
  <2>1. CASE lines = << >>
    BY <1>2, <1>4, <2>1, FewLines, PlainNode
  <2>2. CASE \E target : lines = <<Line("jmp", target)>>
    <3>1. PICK target : lines = <<Line("jmp", target)>>
      BY <2>2
    <3> PICK l : l = Line("jmp", target)
      OBVIOUS
    <3>2. Plain(l) /\ IsSeq(<<l>>) /\ Elems(<<l>>) = {l}
      BY LineIs, FewLines
    <3>3. NodeLines(<<l>>)
      BY <1>2, <1>4, <3>2, PlainNode
    <3> QED BY <3>1, <3>3
  <2> QED BY <1>5, <2>1, <2>2
<1>7. Walked(lines)
  BY <1>1, <1>3, <1>4, <1>5, <1>6, SameLabels, StepRests DEF Walked
<1> QED BY <1>7

LEMMA EndWalked ==
  ASSUME GenContext, EmitEnd
  PROVE  \E lines : Walked(lines)
<1>1. Emitting /\ Node.k = "end" /\ Step /\ env' = env /\ labels' = Below
  BY DEF EmitEnd
<1>2. PartsOf(Node) = {}
  BY <1>1, NodeFacts DEF GenContext
<1>3. Labelled(labels) /\ Len(labels) > 0 /\ IsSeq(labels) /\ Len(labels) \in Nat
  BY <1>1, LabelFacts DEF GenContext
<1>4. Walks(labels, "end", labels') /\ Labelled(labels')
  BY <1>1, <1>3, BelowLabels
<1> DEFINE PlainLines(lines) == IsSeq(lines) /\ \A l \in Elems(lines) : Plain(l)
<1>5. /\ PlainLines(<< >>)
      /\ \A a : Plain(a) => PlainLines(<<a>>)
      /\ \A a, b : Plain(a) /\ Plain(b) => PlainLines(<<a, b>>)
      /\ \A a, b, c : Plain(a) /\ Plain(b) /\ Plain(c) => PlainLines(<<a, b, c>>)
  BY FewLines
<1>6. PICK lines : Emit(lines) /\ PlainLines(lines)
  <2>1. Top.k \in BlockKinds
    BY <1>3 DEF Labelled, Top, Elems
  <2>2. /\ Plain(Line("jmp", Top.end)) /\ Plain(Line("label", Top.end)) /\ Plain(Line("jmp", Top.start))
        /\ Plain(Line("imm", 0)) /\ Plain(Line("leave", "")) /\ Plain(Line("ret", ""))
    BY LineIs
  <2> HIDE DEF PlainLines
  <2>3. CASE Top.k = "if"
    <3>1. Emit(<<Line("jmp", Top.end), Line("label", Top.end)>>)
      BY <2>3 DEF EmitEnd
    <3> QED BY <1>5, <2>2, <3>1
  <2>4. CASE Top.k = "else"
    <3>1. Emit(<<Line("label", Top.end)>>)
      BY <2>4 DEF EmitEnd
    <3> QED BY <1>5, <2>2, <3>1
  <2>5. CASE Top.k \in {"loop", "while"}
    <3>1. Emit(<<Line("jmp", Top.start), Line("label", Top.end)>>)
      BY <2>5 DEF EmitEnd
    <3> QED BY <1>5, <2>2, <3>1
  <2>6. CASE Top.k = "unsafe"
    <3>1. Emit(<< >>)
      BY <2>6 DEF EmitEnd
    <3> QED BY <1>5, <3>1
  <2>7. CASE Top.k = "fn"
    <3> PICK s : s = IF FnOf(gen).ret = "void" THEN <<Line("imm", 0)>> ELSE << >>
      OBVIOUS
    <3> PICK t : t = <<Line("label", Top.end), Line("leave", ""), Line("ret", "")>>
      OBVIOUS
    <3>1. Emit(s \o t)
      BY <2>7 DEF EmitEnd
    <3>2. PlainLines(s) /\ PlainLines(t)
      BY <1>5, <2>2
    <3>3. IsSeq(s) /\ IsSeq(t)
      BY <3>2 DEF PlainLines
    <3>4. IsSeq(s \o t) /\ Elems(s \o t) = Elems(s) \cup Elems(t)
      BY ONLY <3>3, ConcatFacts
    <3>5. PlainLines(s \o t)
      BY <3>2, <3>4 DEF PlainLines
    <3> QED BY <3>1, <3>5
  <2> QED BY <2>1, <2>3, <2>4, <2>5, <2>6, <2>7 DEF BlockKinds
<1>7. NodeLines(lines)
  BY <1>1, <1>2, <1>6, PlainNode
<1>8. Walked(lines)
  BY <1>1, <1>4, <1>6, <1>7, StepRests DEF Walked
<1> QED BY <1>8

LEMMA FnWalked ==
  ASSUME GenContext, emit_fn
  PROVE  \E lines : Walked(lines)
<1>1. /\ Emitting /\ Node.k = "fn" /\ Step /\ env' = collect_locals(gen)
      /\ labels' = <<[k |-> "fn", end |-> Label("fn_end", labelId)]>>
  BY DEF emit_fn
<1>2. PartsOf(Node) = {} /\ Len(Node.params) \in Nat
  BY <1>1, NodeFacts DEF GenContext
<1>3. Len(labels) = 0
  BY <1>1, LabelFacts DEF GenContext
<1>4. Walks(labels, "fn", labels') /\ Labelled(labels')
  <2> PICK r : r = [k |-> "fn", end |-> Label("fn_end", labelId)]
    OBVIOUS
  <2>1. r.k = "fn" /\ "k" \in DOMAIN r
    OBVIOUS
  <2> PICK t : t = <<r>>
    OBVIOUS
  <2>2. Len(t) = 1 /\ t[1] = r /\ IsSeq(t) /\ Elems(t) = {r}
    BY FewLines
  <2>3. Walks(labels, "fn", t)
    BY <1>3, <2>1, <2>2 DEF Walks, Opening
  <2>4. Labelled(t)
    BY <2>1, <2>2 DEF Labelled, BlockKinds
  <2>5. labels' = t
    BY <1>1
  <2> QED BY <2>3, <2>4, <2>5
<1>5. DOMAIN env' = LocalsOf(program, gen)
  BY <1>1, ProgramNames
<1> PICK a : a = Line("label", Label("fn", Node.name))
  OBVIOUS
<1> PICK b : b = Line("enter", align16(Cardinality(DOMAIN env')))
  OBVIOUS
<1> PICK n : n = IF Len(Node.params) <= Len(Regs) THEN Len(Node.params) ELSE Len(Regs)
  OBVIOUS
<1> DEFINE spill(i) == Line("spill", [slot |-> env'[Node.params[i].name], reg |-> Regs[i]])
<1> PICK spills : spills = [i \in 1..n |-> spill(i)]
  OBVIOUS
<1>6. Emit(<<a, b>> \o spills)
  BY DEF emit_fn
<1>7. n \in Nat
  <2>1. Len(Regs) \in Nat
    BY GenAssumption
  <2> QED BY <1>2, <2>1
<1>8. IsSeq(spills) /\ \A l \in Elems(spills) : Plain(l)
  <2>2. \A i \in 1..n : Plain(spills[i])
    BY LineIs
  <2> HIDE DEF spill
  <2>1. spills \in Seq({spill(i) : i \in 1..n}) /\ Len(spills) = n
    BY <1>7
  <2> QED BY <2>1, <2>2, IsSeqOf DEF Elems
<1> PICK s : s = <<a, b>>
  OBVIOUS
<1>9. IsSeq(s) /\ Elems(s) = {a, b} /\ s # << >>
  <2>1. Len(s) = 2
    OBVIOUS
  <2> QED BY <2>1, FewLines, SeqFacts
<1>10. /\ IsSeq(s \o spills) /\ Elems(s \o spills) = Elems(s) \cup Elems(spills)
       /\ s \o spills = << >> <=> s = << >> /\ spills = << >>
  BY ONLY <1>8, <1>9, ConcatFacts
<1>11. Plain(a) /\ b[1] = "enter"
  BY LineIs
<1>12. NodeLines(s \o spills)
  BY <1>1, <1>2, <1>8, <1>9, <1>10, <1>11 DEF NodeLines, Plain
<1>13. Emit(s \o spills)
  BY <1>6
<1>14. Walked(s \o spills)
  BY <1>1, <1>4, <1>5, <1>12, <1>13, StepRests DEF Walked
<1> QED BY <1>14

LEMMA StartSteps ==
  ASSUME CheckInv, GenInv, StartEmit
  PROVE  CheckInv' /\ GenInv'
<1>1. /\ phase = "checked" /\ diagnostics = << >> /\ phase' = "emit" /\ gen' = 1 /\ Rests
      /\ env' = env /\ labels' = labels /\ program' = program /\ diagnostics' = << >>
      /\ code' = [i \in 1..2 |-> [op |-> <<"call", "exit">>[i], arg |-> <<"main", "rax">>[i],
                                  of |-> 0, fn |-> "_start"]]
  BY DEF StartEmit, Accepted, Rests
<1>2. SemaInv /\ RegInv /\ BodyInv /\ HistInv
  BY DEF CheckInv
<1>3. item = Len(items) + 1
  BY <1>1, <1>2 DEF SemaInv
<1>4. SemaInv' /\ RegInv' /\ BodyInv'
  BY <1>1, <1>2, <1>3, RestsInv
<1>5. labels = << >>
  BY <1>1 DEF GenInv, FrontEnd
<1>6. HistInv'
  <2>1. PICK h : IsHistory(h, program, blocks, diagnostics)
    BY <1>2 DEF HistInv, History
  <2>2. IsHistory(h, program', blocks', diagnostics')
    BY <1>1, <2>1 DEF Rests
  <2>3. Follows(<< >>, h[0])
    <3>1. Len(h[0]) = 0
      BY <2>1 DEF IsHistory
    <3> QED BY <3>1 DEF Follows
  <2>4. gen' - 1 = 0 /\ labels' = << >>
    BY <1>1, <1>5
  <2> QED BY <2>2, <2>3, <2>4 DEF HistInv, History
<1>7. Len(program) \in Nat
  BY <1>2, SeqFacts DEF BodyInv, FnFirst
<1>8. CodeInv'
  <2> PICK r : r = [op |-> "call", arg |-> "main", of |-> 0, fn |-> "_start"]
    OBVIOUS
  <2> PICK x : x = [op |-> "exit", arg |-> "rax", of |-> 0, fn |-> "_start"]
    OBVIOUS
  <2> PICK c : c = code'
    OBVIOUS
  <2>1. c = [i \in 1..2 |-> IF i = 1 THEN r ELSE x]
    <3>1. \A i \in 1..2 : i = 1 \/ i = 2
      OBVIOUS
    <3> QED BY <1>1, <3>1
  <2>2. c \in Seq({r, x}) /\ Len(c) = 2
    BY <2>1
  <2>3. 1..2 = {1, 2} /\ c[1] = r /\ c[2] = x
    BY <2>1
  <2>4. IsSeq(c) /\ Elems(c) = {r, x}
    BY <2>2, <2>3, IsSeqOf DEF Elems
  <2>5. IsSeq(code)' /\ Len(code') > 0 /\ Elems(code)' = {r, x}
    BY <2>2, <2>4 DEF IsSeq, Elems
  <2>6. LineOK(r)' /\ LineOK(x)'
    BY DEF LineOK
  <2>7. 1..(gen' - 1) = {} /\ ~(gen' > 1)
    BY <1>1
  <2>8. \E l \in {r, x} : l.op = "call" /\ l.arg = "main"
    OBVIOUS
  <2> QED BY <2>5, <2>6, <2>7, <2>8 DEF CodeInv
<1>9. GenInv'
  <2>1. Labelled(labels)'
    BY <1>1, <1>5, FewLines DEF Labelled, IsSeq, Elems
  <2>2. gen' \in 1..(Len(program') + 1) /\ ~(gen' > 1)
    BY <1>1, <1>7
  <2> QED BY <1>1, <1>8, <2>1, <2>2 DEF GenInv, FrontEnd, AfterLoad
<1> QED BY <1>4, <1>6, <1>9 DEF CheckInv

LEMMA GenSteps ==
  ASSUME CheckInv, GenInv, GenNext
  PROVE  CheckInv' /\ GenInv'
<1>1. GenContext /\ SemaInv /\ RegInv /\ BodyInv /\ HistInv
  BY DEF CheckInv, GenContext
<1>2. ASSUME NEW lines, Walked(lines) PROVE CheckInv' /\ GenInv'
  <2>1. phase = "emit" /\ phase' = "emit" /\ Rests
    BY <1>2 DEF Walked, Emitting
  <2>2. item = Len(items) + 1
    BY <1>1, <2>1 DEF SemaInv
  <2>3. SemaInv' /\ RegInv' /\ BodyInv'
    BY <1>1, <2>1, <2>2, RestsInv
  <2>4. HistInv'
    BY <1>1, <1>2, WalkedHist
  <2>5. GenInv'
    BY <1>1, <1>2, WalkedCode
  <2> QED BY <2>3, <2>4, <2>5 DEF CheckInv
<1>3. CASE StartEmit
  BY <1>3, StartSteps
<1>4. CASE emit_fn
  BY <1>1, <1>2, <1>4, FnWalked
<1>5. CASE EmitStore
  BY <1>1, <1>2, <1>5, StoreWalked
<1>6. CASE EmitRet
  BY <1>1, <1>2, <1>6, RetWalked
<1>7. CASE EmitExprStmt
  BY <1>1, <1>2, <1>7, ExprStmtWalked
<1>8. CASE EmitIf
  BY <1>1, <1>2, <1>8, IfWalked
<1>9. CASE EmitElse
  BY <1>1, <1>2, <1>9, ElseWalked
<1>10. CASE EmitLoop
  BY <1>1, <1>2, <1>10, LoopWalked
<1>11. CASE EmitUnsafe
  BY <1>1, <1>2, <1>11, UnsafeWalked
<1>12. CASE EmitJump
  BY <1>1, <1>2, <1>12, JumpWalked
<1>13. CASE EmitEnd
  BY <1>1, <1>2, <1>13, EndWalked
<1> QED BY <1>3, <1>4, <1>5, <1>6, <1>7, <1>8, <1>9, <1>10, <1>11, <1>12, <1>13 DEF GenNext
-----------------------------------------------------------------------------
(* The assembler and the machine change nothing of the compiler.           *)
LEMMA CodeSame ==
  ASSUME UNCHANGED <<package, functions, program, gen, code>>
  PROVE  /\ CodeInv => CodeInv'
         /\ Rejected' = Rejected
<1>1. Rejected' = Rejected
  BY DEF Rejected, Globals
<1>2. \A i : NameOf(i)' = NameOf(i)
  BY DEF NameOf
<1>3. Elems(code)' = Elems(code)
  BY DEF Elems
<1>4. ASSUME NEW l, LineOK(l) PROVE LineOK(l)'
  <2>1. \A e : Source(e, l) => Source(e, l)'
    BY DEF Source
  <2> QED BY <1>2, <1>4, <2>1 DEF LineOK
<1>5. ASSUME NEW i, NodeEmitted(i) PROVE NodeEmitted(i)'
  BY <1>2, <1>3, <1>5 DEF NodeEmitted
<1>6. ASSUME CodeInv PROVE CodeInv'
  BY <1>2, <1>3, <1>4, <1>5, <1>6 DEF CodeInv, IsSeq
<1> QED BY <1>1, <1>6

LEMMA ExecuteKeeps ==
  ASSUME Execute
  PROVE  phase = "run" /\ phase' \in AfterLoad /\ UNCHANGED compilerVars
<1>1. CASE \/ Immediate \/ Flag \/ Lea \/ Negate \/ Complement \/ SaveRight \/ Alu \/ Compare
           \/ Divide \/ Load \/ SysWrite \/ Store \/ Spill \/ Push \/ Pop \/ Enter \/ Leave
  <2>1. Running /\ GoOn
    BY <1>1 DEF Immediate, Flag, Lea, Negate, Complement, SaveRight, Alu, Compare, Divide, Load,
         SysWrite, Store, Spill, Push, Pop, Enter, Leave, Computes, PutSlot, Is
  <2> QED BY <2>1 DEF Running, GoOn, AfterLoad
<1>2. CASE Jmp \/ Je \/ Call \/ Return
  <2>1. Running /\ \E i : Goto(i)
    BY <1>2 DEF Jmp, Je, Call, Return, Is
  <2> QED BY <2>1 DEF Running, Goto, AfterLoad
<1>3. CASE DivideTrap \/ Exit
  BY <1>3 DEF DivideTrap, Exit, Is, Running, AfterLoad
<1> QED BY <1>1, <1>2, <1>3 DEF Execute

LEMMA MachineSteps ==
  ASSUME CheckInv, GenInv, Assemble \/ Execute
  PROVE  CheckInv' /\ GenInv'
<1>1. SemaInv /\ RegInv /\ BodyInv /\ HistInv
  BY DEF CheckInv
<1>2. UNCHANGED compilerVars
  BY ExecuteKeeps DEF Assemble
<1>3. Rests /\ UNCHANGED genVars
  BY <1>2 DEF compilerVars, Rests
<1>4. /\ gen' = gen /\ code' = code /\ program' = program /\ functions' = functions /\ package' = package
      /\ diagnostics' = diagnostics /\ blocks' = blocks
  BY <1>3 DEF Rests, genVars
<1>5. \/ /\ phase = "emit" /\ gen > Len(program)
         /\ (phase' = "run" /\ Rejected = {}) \/ (phase' = "unassembled" /\ Rejected # {})
      \/ phase = "run" /\ phase' \in AfterLoad
  BY ExecuteKeeps DEF Assemble
<1>6. phase \notin FrontEnd /\ phase' \in {"unassembled"} \cup AfterLoad
  BY <1>5 DEF FrontEnd, AfterLoad
<1>7. item = Len(items) + 1
  BY <1>1, <1>6 DEF SemaInv, FrontEnd
<1>8. SemaInv' /\ RegInv' /\ BodyInv'
  BY <1>1, <1>3, <1>6, <1>7, RestsInv DEF FrontEnd, AfterLoad
<1>9. HistInv'
  <2>1. PICK h : IsHistory(h, program, blocks, diagnostics)
    BY <1>1 DEF HistInv, History
  <2>2. History(h)'
    BY <1>4, <2>1 DEF History
  <2>3. phase' # "emit"
    BY <1>6 DEF AfterLoad
  <2> QED BY <2>2, <2>3 DEF HistInv
<1>10. GenInv'
  <2>1. diagnostics = << >> /\ gen \in 1..(Len(program) + 1) /\ CodeInv
    BY <1>6 DEF GenInv
  <2>2. Len(program) \in Nat
    BY <1>1, SeqFacts DEF BodyInv, FnFirst
  <2>3. gen = Len(program) + 1
    BY <1>5, <2>1, <2>2 DEF GenInv, FrontEnd, AfterLoad
  <2>4. CodeInv' /\ Rejected' = Rejected
    BY <1>4, <2>1, CodeSame
  <2>5. /\ phase' \in AfterLoad => Rejected = {}
        /\ phase' = "unassembled" => Rejected # {}
    BY <1>5 DEF GenInv, FrontEnd, AfterLoad
  <2>6. phase' \notin FrontEnd /\ phase' # "emit"
    BY <1>6 DEF FrontEnd, AfterLoad
  <2> QED BY <1>4, <1>6, <2>1, <2>3, <2>4, <2>5, <2>6 DEF GenInv
<1> QED BY <1>8, <1>9, <1>10 DEF CheckInv

LEMMA Stutters ==
  ASSUME CheckInv, GenInv, UNCHANGED allVars
  PROVE  CheckInv' /\ GenInv'
<1>1. SemaInv /\ RegInv /\ BodyInv /\ HistInv
  BY DEF CheckInv
<1>2. /\ UNCHANGED <<package, phase, item, functions, program, vars, loopDepth, unsafeDepth, blocks,
                     diagnostics>>
      /\ UNCHANGED <<gen, env, labels, code>>
  BY DEF allVars, semaVars, genVars
<1>3. items' = items /\ requires' = requires
  BY <1>2 DEF items, requires
<1>4. SemaInv'
  BY <1>1, <1>2, <1>3 DEF SemaInv, Counted, LoopsIn, UnsafeIn, KindsIn, Header
<1>5. Registered' = Registered /\ Begun' = Begun
  BY <1>2, <1>3 DEF Registered, Begun
<1>6. RegInv'
  <2>1. NamesDiffer => NamesDiffer'
    BY <1>3, <1>5 DEF NamesDiffer
  <2>2. MainIsMain => MainIsMain'
    BY <1>2 DEF MainIsMain, MainSignature
  <2> QED BY <1>1, <1>2, <1>3, <1>5, <2>1, <2>2 DEF RegInv
<1>7. BodyInv'
  <2>1. FnFirst(program)' /\ AllOpened(program, blocks)'
    <3>1. FnFirst(program) /\ AllOpened(program, blocks)
      BY <1>1 DEF BodyInv
    <3>2. FnFirst(program)'
      BY <1>2, <3>1 DEF FnFirst, IsSeq, Elems
    <3> QED BY <1>2, <3>1, <3>2 DEF AllOpened, Opened, OpenAt
  <2>2. (FnNodes(program) = {FnNode(items[j]) : j \in 1..Begun})'
    <3>1. FnNodes(program) = {FnNode(items[j]) : j \in 1..Begun}
      BY <1>1 DEF BodyInv
    <3> QED BY <1>2, <1>3, <1>5, <3>1 DEF FnNodes, FnNode
  <2>3. diagnostics' = << >> => \A i \in 1..Len(program') : NodeOK(program, i)'
    <3>1. ASSUME NEW i PROVE NodeOK(program, i)' <=> NodeOK(program, i)
      BY <1>2 DEF NodeOK, UseOK, CallOK, requires
    <3> QED BY <1>1, <1>2, <3>1 DEF BodyInv
  <2>4. blocks' # << >> => /\ program' # << >> /\ program'[OwnFn(program)'] = FnNode(Header)'
                           /\ DOMAIN vars' \subseteq LocalsOf(program, OwnFn(program))'
    <3>1. FnNode(Header)' = FnNode(Header) /\ OwnFn(program)' = OwnFn(program)
          /\ LocalsOf(program, OwnFn(program))' = LocalsOf(program, OwnFn(program))
      BY <1>2, <1>3 DEF FnNode, Header, OwnFn, LocalsOf, LastFnOf
    <3> QED BY <1>1, <1>2, <3>1 DEF BodyInv
  <2> QED BY <1>1, <1>2, <2>1, <2>2, <2>3, <2>4 DEF BodyInv
<1>8. HistInv'
  <2>1. PICK h : History(h) /\ (phase = "emit" => Follows(labels, h[gen - 1]))
    BY <1>1 DEF HistInv
  <2>2. IsHistory(h, program', blocks', diagnostics')
    BY <1>2, <2>1 DEF History
  <2>3. History(h)' /\ (phase' = "emit" => Follows(labels', h[gen' - 1]))
    BY <1>2, <2>1, <2>2 DEF History
  <2> QED BY <2>3 DEF HistInv
<1>9. GenInv'
  <2>1. (CodeInv => CodeInv') /\ Rejected' = Rejected
    BY <1>2, CodeSame
  <2>2. Labelled(labels) => Labelled(labels')
    BY <1>2
  <2>3. LocalsOf(program, LastFnOf(program, gen - 1))' = LocalsOf(program, LastFnOf(program, gen - 1))
    BY <1>2 DEF LocalsOf, LastFnOf
  <2> QED BY <1>2, <2>1, <2>2, <2>3 DEF GenInv, Labelled, IsSeq, Elems
<1> QED BY <1>4, <1>6, <1>7, <1>8, <1>9 DEF CheckInv

(* The strengthening: what the check, the generator and the assembler      *)
(* keep together.                                                          *)
IInv == CheckInv /\ GenInv

LEMMA IInvInit == MachineInit => IInv
BY CheckInit DEF IInv

LEMMA IInvNext == IInv /\ [MachineNext]_allVars => IInv'
<1> SUFFICES ASSUME CheckInv, GenInv, [MachineNext]_allVars
             PROVE  CheckInv' /\ GenInv'
  BY DEF IInv
<1>1. CASE SemaNext /\ UNCHANGED <<genVars, machineVars>>
  BY <1>1, CheckSteps
<1>2. CASE GenNext /\ UNCHANGED machineVars
  BY <1>2, GenSteps
<1>3. CASE Assemble \/ Execute
  BY <1>3, MachineSteps
<1>4. CASE UNCHANGED allVars
  BY <1>4, Stutters
<1> QED BY <1>1, <1>2, <1>3, <1>4 DEF MachineNext

(* What the check, the generator and the assembler keep together, in every *)
(* behaviour of the compiler and of the machine that runs its code.        *)
THEOREM MachineKeepsIInv == MachineSpec => []IInv
BY IInvInit, IInvNext, PTL DEF MachineSpec
-----------------------------------------------------------------------------
(* The properties.                                                         *)
LEMMA SemaTypeOf == IInv => SemaTypeOK
<1> SUFFICES ASSUME SemaInv PROVE SemaTypeOK
  BY DEF IInv, CheckInv
<1>1. KindsIn(blocks, Loops) = {i \in DOMAIN blocks : blocks[i].k \in {"loop", "while"}}
  BY DEF KindsIn, Loops
<1>2. KindsIn(blocks, {"unsafe"}) = {i \in DOMAIN blocks : blocks[i].k = "unsafe"}
  BY DEF KindsIn
<1>3. InBody => /\ loopDepth = Cardinality(KindsIn(blocks, Loops))
                /\ unsafeDepth = Cardinality(KindsIn(blocks, {"unsafe"}))
                                   + IF Header.unsafe THEN 1 ELSE 0
  BY DEF InBody, SemaInv, Counted, LoopsIn, UnsafeIn
<1> QED BY <1>1, <1>2, <1>3 DEF SemaTypeOK, SemaInv

LEMMA GenTypeOf == IInv => GenTypeOK
<1> SUFFICES ASSUME GenContext, phase = "emit", SemaTypeOK PROVE GenTypeOK
  BY SemaTypeOf DEF IInv, CheckInv, GenContext, GenTypeOK
<1>1. SemaInv /\ BodyInv /\ HistInv /\ GenInv
  BY DEF GenContext
<1>2. Len(program) \in Nat
  BY <1>1, SeqFacts DEF BodyInv, FnFirst
<1>3. gen \in 1..(Len(program) + 1)
  BY <1>1 DEF GenInv, FrontEnd
<1>4. CASE gen <= Len(program)
  <2>1. /\ IsSeq(labels) /\ Len(labels) \in Nat
        /\ IF Node.k = "fn" THEN Len(labels) = 0 ELSE Len(labels) > 0
        /\ Node.k = "else" => Top.k = "if"
        /\ Node.k \in Jumps => \E i \in 1..Len(labels) : labels[i].k \in Loops
    BY <1>1, <1>4, LabelFacts DEF Emitting
  <2>2. labels = << >> <=> Len(labels) = 0
    BY <2>1, SeqFacts
  <2>3. DOMAIN labels = 1..Len(labels)
    BY <2>1, SeqFacts
  <2>4. ~(gen > Len(program))
    BY <1>2, <1>3, <1>4
  <2> QED BY <1>3, <2>1, <2>2, <2>3, <2>4 DEF GenTypeOK, Jumps, Loops
<1>5. CASE gen = Len(program) + 1
  <2>1. PICK h : History(h) /\ Follows(labels, h[gen - 1])
    BY <1>1 DEF HistInv
  <2>2. gen - 1 = Len(program)
    BY <1>2, <1>5
  <2>3. h[Len(program)] = blocks /\ blocks = << >>
    BY <1>1, <2>1 DEF History, IsHistory, SemaInv
  <2>4. Len(labels) = 0
    BY <2>1, <2>2, <2>3 DEF Follows
  <2>5. labels = << >>
    BY <1>1, <2>4, SeqFacts DEF GenInv, FrontEnd, Labelled
  <2>6. gen > Len(program) /\ ~(gen <= Len(program))
    BY <1>2, <1>5
  <2> QED BY <1>3, <2>5, <2>6 DEF GenTypeOK
<1> QED BY <1>2, <1>3, <1>4, <1>5

(* The functions the code defines are the ones of the package.             *)
Done == /\ SemaInv /\ RegInv /\ BodyInv /\ CodeInv
        /\ phase \in {"run", "unassembled"} /\ diagnostics = << >> /\ gen = Len(program) + 1

LEMMA DoneFacts ==
  ASSUME Done
  PROVE  /\ FnFirst(program) /\ Len(program) \in Nat /\ gen - 1 = Len(program)
         /\ Registered = Len(items)
         /\ DOMAIN functions = {items[j].name : j \in 1..Len(items)}
         /\ FnNodes(program) = {FnNode(items[j]) : j \in 1..Len(items)}
         /\ \A i \in 1..Len(program) : program[LastFnOf(program, i)] \in FnNodes(program)
<1>1. FnFirst(program) /\ Len(program) \in Nat /\ gen - 1 = Len(program)
  BY SeqFacts DEF Done, BodyInv, FnFirst
<1>2. Registered = Len(items)
  BY DEF Done, Registered
<1>3. Begun = Len(items)
  <2>1. item = Len(items) + 1 /\ blocks = << >> /\ phase # "register"
    BY DEF Done, SemaInv
  <2>2. Len(items) \in Nat
    BY ItemsFacts DEF Done
  <2> QED BY <2>1, <2>2 DEF Begun
<1>4. ASSUME NEW i \in 1..Len(program) PROVE program[LastFnOf(program, i)] \in FnNodes(program)
  <2>1. LastFnOf(program, i) \in 1..Len(program) /\ program[LastFnOf(program, i)].k = "fn"
    BY <1>1, LastFnFacts
  <2> QED BY <2>1 DEF FnNodes
<1> QED BY <1>1, <1>2, <1>3, <1>4 DEF Done, RegInv, BodyInv

LEMMA GlobalsAre ==
  ASSUME Done
  PROVE  Globals = DOMAIN functions
<1>1. Globals = {l.fn : l \in {c \in Elems(code) : c.op = "enter"}}
  <2>1. IsSeq(code) /\ DOMAIN code = 1..Len(code)
    BY SeqFacts DEF Done, CodeInv
  <2> QED BY <2>1 DEF Globals, Elems
<1>2. ASSUME NEW l \in Elems(code), l.op = "enter" PROVE l.fn \in DOMAIN functions
  <2>1. LineOK(l)
    BY DEF Done, CodeInv
  <2>2. l.of \in 1..(gen - 1) /\ l.fn = NameOf(l.of)
    BY <1>2, <2>1 DEF LineOK
  <2>3. program[LastFnOf(program, l.of)] \in FnNodes(program)
    BY <2>2, DoneFacts
  <2>4. PICK j \in 1..Len(items) : program[LastFnOf(program, l.of)] = FnNode(items[j])
    BY <2>3, DoneFacts
  <2>5. l.fn = items[j].name
    BY <2>2, <2>4 DEF NameOf, FnNode
  <2> QED BY <2>5, DoneFacts
<1>3. ASSUME NEW f \in DOMAIN functions PROVE \E l \in Elems(code) : l.op = "enter" /\ l.fn = f
  <2>1. PICK j \in 1..Len(items) : f = items[j].name
    BY DoneFacts
  <2>2. FnNode(items[j]) \in FnNodes(program)
    BY DoneFacts
  <2>3. PICK i \in 1..Len(program) : program[i].k = "fn" /\ program[i] = FnNode(items[j])
    BY <2>2 DEF FnNodes
  <2>4. NodeEmitted(i)
    BY <2>3, DoneFacts DEF Done, CodeInv
  <2>5. program[i].name = f
    BY <2>1, <2>3 DEF FnNode
  <2> QED BY <2>3, <2>4, <2>5 DEF NodeEmitted
<1> QED BY <1>1, <1>2, <1>3

LEMMA SameName ==
  ASSUME Done, NEW i \in 1..Len(program), NEW j \in 1..Len(program), NameOf(i) = NameOf(j)
  PROVE  FnOf(i) = FnOf(j)
<1>1. PICK a \in 1..Len(items) : program[LastFnOf(program, i)] = FnNode(items[a])
  BY DoneFacts
<1>2. PICK b \in 1..Len(items) : program[LastFnOf(program, j)] = FnNode(items[b])
  BY DoneFacts
<1>3. items[a].name = items[b].name
  BY <1>1, <1>2 DEF NameOf, FnNode
<1>4. a = b
  BY <1>3, DoneFacts DEF Done, RegInv, NamesDiffer
<1> QED BY <1>1, <1>2, <1>4, ProgramNames

LEMMA PartsAre ==
  ASSUME NEW i
  PROVE  Parts(i) = PartsOf(program[i])
BY DEF Parts, PartsOf

(* A node without mem.alloc does with its names what it may.               *)
LEMMA NodeUses ==
  ASSUME Done, NEW i \in 1..Len(program), \A e \in PartsOf(program[i]) : ~IsAlloc(e),
         NEW e \in PartsOf(program[i])
  PROVE  UseOK(e, program, i)
BY DEF Done, BodyInv, NodeOK

LEMMA RejectedKnown ==
  ASSUME Done, Rejected # {}
  PROVE  KnownReason
<1>1. PICK n \in DOMAIN code : \/ code[n].op = "enter" /\ code[n].fn \in Reserved
                               \/ code[n].op = "call" /\ code[n].arg \notin Globals
                               \/ code[n].op = "lea" /\ code[n].fn # code[Len(code)].fn
  BY DEF Rejected
<1> PICK l : l = code[n]
  OBVIOUS
<1>2. l \in Elems(code) /\ LineOK(l)
  <2>1. DOMAIN code = 1..Len(code)
    BY SeqFacts DEF Done, CodeInv
  <2> QED BY <2>1 DEF Elems, Done, CodeInv
<1>3. CASE l.of = 0 /\ l.fn = "_start" /\ (l.op = "exit" \/ (l.op = "call" /\ l.arg = "main"))
  <2>1. "main" \notin DOMAIN functions
    BY <1>1, <1>3, GlobalsAre
  <2>2. package.type # "executable"
    BY <2>1 DEF Done, RegInv, MainIsMain
  <2> QED BY <2>1, <2>2 DEF KnownReason, Has
<1>4. CASE l.op = "enter" /\ l.fn \in Reserved
  <2>1. l.of \in 1..(gen - 1) /\ l.fn = NameOf(l.of)
    BY <1>2, <1>4 DEF LineOK
  <2>2. l.of \in 1..Len(program) /\ FnFirst(program)
    BY <2>1, DoneFacts
  <2>3. /\ LastFnOf(program, l.of) \in 1..Len(program)
        /\ program[LastFnOf(program, l.of)].k = "fn"
    BY <2>2, LastFnFacts
  <2>4. LastFnOf(program, l.of) \in DOMAIN program
    BY <2>2, <2>3, SeqFacts DEF FnFirst
  <2>5. program[LastFnOf(program, l.of)].name \in Reserved
    BY <1>4, <2>1 DEF NameOf
  <2> QED BY <2>3, <2>4, <2>5 DEF KnownReason
<1>5. CASE l.of \in 1..(gen - 1) /\ l.fn = NameOf(l.of) /\ l.op \in {"call", "lea"}
           /\ \E e \in PartsOf(program[l.of]) : Source(e, l)
  <2>1. l.of \in 1..Len(program) /\ l.of \in DOMAIN program
    BY <1>5, DoneFacts, SeqFacts DEF FnFirst
  <2>2. PICK e \in PartsOf(program[l.of]) : Source(e, l)
    BY <1>5
  <2>3. CASE l.op = "call"
    <3>1. l.arg \notin DOMAIN functions
      BY <1>1, <2>3, GlobalsAre
    <3>2. e.k = "call" /\ e.callee # "io.write" /\ l.arg = e.callee
      BY <2>2, <2>3, <3>1 DEF Source
    <3>3. \E x \in PartsOf(program[l.of]) : IsAlloc(x)
      <4> SUFFICES ASSUME \A x \in PartsOf(program[l.of]) : ~IsAlloc(x) PROVE FALSE
        OBVIOUS
      <4>1. UseOK(e, program, l.of)
        BY <2>1, NodeUses
      <4> QED BY <3>1, <3>2, <4>1 DEF UseOK, CallOK
    <3> QED BY <2>1, <3>3, PartsAre DEF KnownReason, IsAlloc
  <2>4. CASE l.op = "lea"
    <3>1. e.k = "str"
      BY <2>2, <2>4 DEF Source
    <3>2. gen > 1
      BY <1>5, DoneFacts DEF Done
    <3>3. NameOf(l.of) # NameOf(Len(program))
      BY <1>1, <1>5, <2>4, <3>2, DoneFacts DEF Done, CodeInv
    <3>4. FnOf(l.of) # FnOf(Len(program))
      BY <3>3, ProgramNames DEF NameOf
    <3> QED BY <2>1, <3>1, <3>4, PartsAre DEF KnownReason
  <2> QED BY <1>5, <2>3, <2>4
<1>6. \/ l.op = "enter" /\ l.fn \in Reserved
     \/ l.op \in {"call", "lea"}
  BY <1>1
<1> QED BY <1>2, <1>3, <1>5, <1>4, <1>6 DEF LineOK

LEMMA KnownRejected ==
  ASSUME Done, KnownReason
  PROVE  Rejected # {}
<1>1. DOMAIN code = 1..Len(code) /\ DOMAIN program = 1..Len(program)
  BY SeqFacts, DoneFacts DEF Done, CodeInv, FnFirst
<1>2. SUFFICES \E l \in Elems(code) : \/ l.op = "enter" /\ l.fn \in Reserved
                                      \/ l.op = "call" /\ l.arg \notin Globals
                                      \/ l.op = "lea" /\ l.fn # code[Len(code)].fn
  BY <1>1 DEF Rejected, Elems
<1>3. CASE package.type # "executable" /\ ~Has(functions, "main")
  <2>1. PICK l \in Elems(code) : l.op = "call" /\ l.arg = "main"
    BY DEF Done, CodeInv
  <2>2. l.arg \notin Globals
    BY <1>3, <2>1, GlobalsAre DEF Has
  <2> QED BY <2>1, <2>2
<1>4. ASSUME NEW i \in 1..Len(program), NEW e \in PartsOf(program[i]),
             e.k = "call", e.callee = "mem.alloc"
      PROVE  \E l \in Elems(code) : l.op = "call" /\ l.arg \notin Globals
  <2>1. NodeEmitted(i)
    BY <1>4, DoneFacts DEF Done, CodeInv
  <2>2. "mem.alloc" # "io.write"
    OBVIOUS
  <2>3. PICK l \in Elems(code) : l.op = "call" /\ l.arg = "mem.alloc"
    BY <1>4, <2>1, <2>2 DEF NodeEmitted
  <2>4. "mem.alloc" \notin DOMAIN functions
    <3>1. \A j \in 1..Len(items) : items[j].name # "mem.alloc"
      BY ItemsFacts DEF Done, IsHeader
    <3> QED BY <3>1, DoneFacts
  <2> QED BY <2>3, <2>4, GlobalsAre
<1>5. ASSUME NEW i \in 1..Len(program), NEW e \in PartsOf(program[i]),
             e.k = "str", FnOf(i) # FnOf(Len(program))
      PROVE  \E l \in Elems(code) : l.op = "lea" /\ l.fn # code[Len(code)].fn
  <2>1. NodeEmitted(i)
    BY <1>5, DoneFacts DEF Done, CodeInv
  <2>2. PICK l \in Elems(code) : l.op = "lea" /\ l.fn = NameOf(i)
    BY <1>5, <2>1 DEF NodeEmitted
  <2>3. Len(program) \in 1..Len(program) /\ gen > 1
    BY <1>5, DoneFacts DEF Done
  <2>4. code[Len(code)].fn = NameOf(Len(program))
    BY <2>3, DoneFacts DEF Done, CodeInv
  <2>5. NameOf(i) # NameOf(Len(program))
    BY <1>5, <2>3, SameName
  <2> QED BY <2>2, <2>4, <2>5
<1>6. ASSUME NEW i \in 1..Len(program), program[i].k = "fn", program[i].name \in Reserved
      PROVE  \E l \in Elems(code) : l.op = "enter" /\ l.fn \in Reserved
  <2>1. NodeEmitted(i)
    BY <1>6, DoneFacts DEF Done, CodeInv
  <2> QED BY <1>6, <2>1 DEF NodeEmitted
<1>7. \/ package.type # "executable" /\ ~Has(functions, "main")
      \/ \E i \in 1..Len(program) : program[i].k = "fn" /\ program[i].name \in Reserved
      \/ \E i \in 1..Len(program) : \E e \in PartsOf(program[i]) :
           \/ e.k = "call" /\ e.callee = "mem.alloc"
           \/ e.k = "str" /\ FnOf(i) # FnOf(Len(program))
  BY <1>1, PartsAre DEF KnownReason
<1> QED BY <1>3, <1>4, <1>5, <1>7, <1>6

LEMMA DoneIs ==
  ASSUME IInv, phase \in {"run", "unassembled"}
  PROVE  Done /\ (phase = "run" <=> Rejected = {})
<1>1. phase \notin FrontEnd /\ phase # "emit"
  BY DEF FrontEnd
<1> QED BY <1>1 DEF Done, IInv, CheckInv, GenInv, AfterLoad

LEMMA AssemblesOf == IInv => AssemblesUnlessKnown
<1> SUFFICES ASSUME IInv, phase \in {"run", "unassembled"}
             PROVE  phase = "unassembled" <=> KnownReason
  BY DEF AssemblesUnlessKnown
<1>1. Done /\ (phase = "run" <=> Rejected = {})
  BY DoneIs
<1>2. Rejected # {} <=> KnownReason
  BY <1>1, RejectedKnown, KnownRejected
<1>3. "run" # "unassembled"
  OBVIOUS
<1> QED BY <1>1, <1>2, <1>3

LEMMA CapabilitiesOf == IInv => CapabilitiesRespected
<1> SUFFICES ASSUME IInv, phase = "run", NEW n \in DOMAIN code, NEW l, l = code[n]
             PROVE  /\ l.op = "write" => "syscall" \in requires
                    /\ l.op = "call" /\ functions[l.arg].unsafe =>
                         /\ "unsafe" \in requires
                         /\ IF l.of = 0 THEN package.type # "executable" ELSE InUnsafe(l.of)
  BY DEF CapabilitiesRespected
<1>1. Done /\ Rejected = {}
  BY DoneIs
<1>2. LineOK(l)
  <2>1. DOMAIN code = 1..Len(code)
    BY <1>1, SeqFacts DEF Done, CodeInv
  <2> QED BY <1>1, <2>1 DEF Elems, Done, CodeInv
<1>3. ~KnownReason
  BY <1>1, KnownRejected
<1>4. l.op = "call" => l.arg \in DOMAIN functions
  <2>1. l.op = "call" => l.arg \in Globals
    BY <1>1 DEF Rejected
  <2> QED BY <1>1, <2>1, GlobalsAre
<1>5. l.op = "call" /\ functions[l.arg].unsafe => "unsafe" \in requires
  BY <1>1, <1>4 DEF Done, RegInv
<1>6. CASE l.of = 0 /\ l.fn = "_start" /\ (l.op = "exit" \/ (l.op = "call" /\ l.arg = "main"))
  <2>1. package.type = "executable" => ~functions["main"].unsafe
    <3>1. package.type = "executable" => functions["main"] = MainSignature
      BY <1>1 DEF Done, RegInv, MainIsMain
    <3> QED BY <3>1 DEF MainSignature
  <2>2. l.op # "write"
    BY <1>6
  <2> QED BY <1>5, <1>6, <2>1, <2>2
<1>7. CASE l.of \in 1..(gen - 1) /\ l.fn = NameOf(l.of)
           /\ (l.op \in {"write", "call", "lea"} => \E e \in PartsOf(program[l.of]) : Source(e, l))
  <2>1. l.of \in 1..Len(program) /\ l.of \in DOMAIN program /\ l.of # 0
    BY <1>1, <1>7, DoneFacts, SeqFacts DEF FnFirst
  <2>2. \A x \in PartsOf(program[l.of]) : ~IsAlloc(x)
    BY <1>3, <2>1, PartsAre DEF KnownReason, IsAlloc
  <2>3. ASSUME l.op = "write" PROVE "syscall" \in requires
    <3>1. PICK e \in PartsOf(program[l.of]) : e.k = "call" /\ e.callee = "io.write"
      BY <1>7, <2>3 DEF Source
    <3>2. UseOK(e, program, l.of)
      BY <1>1, <2>1, <2>2, NodeUses
    <3> QED BY <3>1, <3>2 DEF UseOK
  <2>4. ASSUME l.op = "call", functions[l.arg].unsafe PROVE InUnsafe(l.of)
    <3>1. PICK e \in PartsOf(program[l.of]) : Source(e, l)
      BY <1>7, <2>4
    <3>2. UseOK(e, program, l.of)
      BY <1>1, <2>1, <2>2, NodeUses
    <3>3. CallOK(l.arg, program, l.of)
      BY <2>4, <3>1, <3>2 DEF Source, UseOK
    <3>4. UnsafeAt(program, l.of)
      BY <2>4, <3>3 DEF CallOK
    <3> QED BY <3>4, ProgramNames
  <2> QED BY <1>5, <2>1, <2>3, <2>4
<1> QED BY <1>2, <1>6, <1>7 DEF LineOK

(* The depths the check counts are those of the blocks that are open,      *)
(* whatever the package, its functions and their bodies are (check_stmt).  *)
THEOREM SemaTyped == MachineSpec => []SemaTypeOK
BY MachineKeepsIInv, SemaTypeOf, PTL

(* The generator's stacks of labels follow the blocks of every program     *)
(* without a diagnostic, as the counters of the check do: no break,        *)
(* continue or else is emitted without its loop or if, and nothing stays   *)
(* open (emit_stmt).                                                       *)
THEOREM GenTyped == MachineSpec => []GenTypeOK
BY MachineKeepsIInv, GenTypeOf, PTL

(* Of every program without a diagnostic the code assembles and links,     *)
(* but for the four reasons the property names.                            *)
THEOREM Assembles == MachineSpec => []AssemblesUnlessKnown
BY MachineKeepsIInv, AssemblesOf, PTL

(* No code that runs writes without syscall, or calls an unsafe function   *)
(* without unsafe or outside an unsafe block.                              *)
THEOREM CapabilitiesKept == MachineSpec => []CapabilitiesRespected
BY MachineKeepsIInv, CapabilitiesOf, PTL
-----------------------------------------------------------------------------
(* The stack.  What a line needs on it and leaves, counted in words above  *)
(* the frame: -1 where the frame is not there yet or no more.              *)
Eff(op) == CASE op \in {"push", "enter"} -> 1
             [] op \in {"pop", "leave", "exit"} -> -1
             [] OTHER -> 0
Fits(op, arg, x) ==
  /\ op \in {"enter", "ret"} => x = -1
  /\ op = "label" => x = IF arg[1] = "fn" THEN -1 ELSE 0
  /\ op \in {"store", "spill", "jmp", "je", "leave", "exit"} => x = 0
  /\ op = "pop" => x >= 1
  /\ op \notin {"enter", "ret", "label"} => x >= 0
StepsTo(op, arg, x, y) == y = x + Eff(op) /\ Fits(op, arg, x)

(* The lines s take a stack of a words to one of b. *)
IsDepths(s, d) == /\ d \in [1..(Len(s) + 1) -> Int]
                  /\ \A i \in 1..Len(s) : StepsTo(s[i][1], s[i][2], d[i], d[i + 1])
Bal(s, a, b) == \E d : IsDepths(s, d) /\ d[1] = a /\ d[Len(s) + 1] = b

LEMMA BalNone ==
  ASSUME NEW a \in Int
  PROVE  Bal(<< >>, a, a)
<1> PICK d : d = [i \in 1..1 |-> a]
  OBVIOUS
<1>1. Len(<< >>) = 0 /\ 1..0 = {}
  OBVIOUS
<1>2. IsDepths(<< >>, d)
  BY <1>1 DEF IsDepths
<1> QED BY <1>1, <1>2 DEF Bal

LEMMA BalOne ==
  ASSUME NEW op, NEW arg, NEW a \in Int, Fits(op, arg, a)
  PROVE  Bal(<<Line(op, arg)>>, a, a + Eff(op))
<1>1. Eff(op) \in Int
  BY DEF Eff
<1> PICK s : s = <<Line(op, arg)>>
  OBVIOUS
<1> PICK d : d = [i \in 1..2 |-> IF i = 1 THEN a ELSE a + Eff(op)]
  OBVIOUS
<1>2. Len(s) = 1 /\ s[1][1] = op /\ s[1][2] = arg
  BY LineIs
<1>3. IsDepths(s, d)
  BY <1>1, <1>2 DEF IsDepths, StepsTo
<1>4. Bal(s, a, a + Eff(op))
  BY <1>2, <1>3 DEF Bal
<1> QED BY <1>4

LEMMA BalConcat ==
  ASSUME NEW s, NEW t, IsSeq(s), IsSeq(t), NEW a, NEW b, NEW c, Bal(s, a, b), Bal(t, b, c)
  PROVE  IsSeq(s \o t) /\ Bal(s \o t, a, c)
<1>1. Len(s) \in Nat /\ Len(t) \in Nat /\ IsSeq(s \o t) /\ Len(s \o t) = Len(s) + Len(t)
  BY SeqFacts, ConcatFacts
<1>2. /\ \A i \in 1..Len(s) : (s \o t)[i] = s[i]
      /\ \A i \in 1..Len(t) : (s \o t)[Len(s) + i] = t[i]
  BY DEF IsSeq
<1>3. PICK d : IsDepths(s, d) /\ d[1] = a /\ d[Len(s) + 1] = b
  BY DEF Bal
<1>4. PICK e : IsDepths(t, e) /\ e[1] = b /\ e[Len(t) + 1] = c
  BY DEF Bal
<1> PICK u : u = s \o t
  OBVIOUS
<1> PICK f : f = [i \in 1..(Len(u) + 1) |-> IF i <= Len(s) THEN d[i] ELSE e[i - Len(s)]]
  OBVIOUS
<1>5. f \in [1..(Len(u) + 1) -> Int]
  <2>1. ASSUME NEW i \in 1..(Len(u) + 1) PROVE f[i] \in Int
    <3>1. CASE i <= Len(s)
      BY <1>1, <1>3, <3>1, SMTT(40) DEF IsDepths
    <3>2. CASE i > Len(s)
      <4>1. i - Len(s) \in 1..(Len(t) + 1)
        BY <1>1, <3>2
      <4> QED BY <1>1, <1>4, <3>2, <4>1, SMTT(40) DEF IsDepths
    <3> QED BY <1>1, <3>1, <3>2
  <2> QED BY <2>1
<1>6. \A i \in 1..Len(s) : f[i] = d[i] /\ f[i + 1] = d[i + 1]
  <2> TAKE i \in 1..Len(s)
  <2>1. i \in 1..(Len(u) + 1) /\ i + 1 \in 1..(Len(u) + 1) /\ i <= Len(s)
    BY <1>1
  <2>2. i + 1 > Len(s) => i + 1 = Len(s) + 1 /\ (i + 1) - Len(s) = 1
    BY <1>1
  <2> QED BY <1>1, <1>3, <1>4, <2>1, <2>2
<1>7. \A i \in 1..(Len(t) + 1) : f[Len(s) + i] = e[i]
  <2> TAKE i \in 1..(Len(t) + 1)
  <2>1. Len(s) + i \in 1..(Len(u) + 1) /\ ~(Len(s) + i <= Len(s)) /\ (Len(s) + i) - Len(s) = i
    BY <1>1
  <2> QED BY <2>1
<1>8. ASSUME NEW i \in 1..Len(u) PROVE StepsTo(u[i][1], u[i][2], f[i], f[i + 1])
  <2>1. CASE i \in 1..Len(s)
    BY <1>2, <1>3, <1>6, <2>1 DEF IsDepths
  <2>2. CASE i \notin 1..Len(s)
    <3>1. PICK j \in 1..Len(t) : i = Len(s) + j
      BY <1>1, <2>2
    <3>2. j \in 1..(Len(t) + 1) /\ j + 1 \in 1..(Len(t) + 1) /\ i + 1 = Len(s) + (j + 1)
      BY <1>1, <3>1
    <3>3. u[i] = t[j] /\ f[i] = e[j] /\ f[i + 1] = e[j + 1]
      BY <1>2, <1>7, <3>1, <3>2
    <3> QED BY <1>4, <3>3 DEF IsDepths
  <2> QED BY <2>1, <2>2
<1>9. f[1] = a /\ f[Len(u) + 1] = c
  <2>1. Len(s) = 0 => f[1] = a
    BY <1>1, <1>3, <1>4, <1>7
  <2>2. Len(s) # 0 => f[1] = a
    BY <1>1, <1>3, <1>6
  <2>3. Len(u) + 1 = Len(s) + (Len(t) + 1) /\ Len(t) + 1 \in 1..(Len(t) + 1)
    BY <1>1
  <2> QED BY <1>4, <1>7, <2>1, <2>2, <2>3
<1> QED BY <1>1, <1>5, <1>8, <1>9 DEF Bal, IsDepths

(* Pieces that follow each other, where x[i] is how deep piece i ends. *)
LEMMA BalFlatten ==
  ASSUME NEW S, NEW ss \in Seq(Seq(S)), NEW x \in [0..Len(ss) -> Int],
         \A i \in 1..Len(ss) : Bal(ss[i], x[i - 1], x[i])
  PROVE  Bal(Seqs!FlattenSeq(ss), x[0], x[Len(ss)])
<1> DEFINE n == Len(ss)
<1>1. n \in Nat /\ \A i \in 1..n : ss[i] \in Seq(S)
  OBVIOUS
<1> PICK flat : flat = Seqs!FlattenSeq(ss)
  OBVIOUS
<1>2. CASE n = 0
  <2>1. flat = << >>
    BY <1>2, EmptySeq DEF Seqs!FlattenSeq
  <2> QED BY <1>2, <2>1, BalNone
<1>3. CASE n # 0
  <2> DEFINE f == CHOOSE h : IsFlat(h, ss, n)
  <2>1. IsFlat(f, ss, n)
    BY <1>1, FlatExists
  <2>2. flat = f[n]
    BY <1>3 DEF Seqs!FlattenSeq, IsFlat
  <2> HIDE DEF f
  <2> DEFINE Good(k) == IsSeq(f[k]) /\ Bal(f[k], x[0], x[k])
             Bad == {k \in Nat : k \in 1..n /\ ~Good(k)}
  <2>3. Bad = {}
    <3> SUFFICES ASSUME Bad # {} PROVE FALSE
      OBVIOUS
    <3>1. PICK m \in Bad : \A k \in Bad : m <= k
      BY LeastOf, Zenon
    <3>2. m \in 1..n /\ n \in Nat /\ m \in Nat
      BY <1>1, <3>1
    <3>3. f[m] = IF m = 1 THEN ss[m] ELSE f[m - 1] \o ss[m]
      BY <2>1, <3>2 DEF IsFlat
    <3>4. IsSeq(ss[m]) /\ Bal(ss[m], x[m - 1], x[m])
      BY <1>1, <3>2, IsSeqOf
    <3>5. CASE m = 1
      <4>1. m - 1 = 0
        BY <3>5
      <4>2. Good(m)
        BY <3>3, <3>4, <3>5, <4>1
      <4> QED BY <3>1, <4>2
    <3>6. CASE m # 1
      <4>1. m - 1 \in 1..n /\ m - 1 \in Nat /\ ~(m <= m - 1)
        BY <3>2, <3>6
      <4>2. m - 1 \notin Bad
        BY <3>1, <4>1
      <4>3. Good(m - 1)
        BY <4>1, <4>2
      <4>4. Good(m)
        <5> HIDE DEF n
        <5>1. IsSeq(f[m - 1] \o ss[m]) /\ Bal(f[m - 1] \o ss[m], x[0], x[m])
          BY ONLY <3>4, <4>3, BalConcat
        <5> QED BY <3>3, <3>6, <5>1
      <4> QED BY <3>1, <4>4
    <3> QED BY <3>5, <3>6
  <2>4. n \in 1..n /\ n \in Nat
    BY <1>1, <1>3
  <2> QED BY <2>2, <2>3, <2>4
<1> QED BY <1>2, <1>3
-----------------------------------------------------------------------------
(* Expressions leave the stack as it is, when every call in them has as    *)
(* many arguments as there are registers or fewer.                         *)
Even(s) == \A k \in Nat : Bal(s, k, k)
FewArgs(e) == e.k = "call" => IF e.callee = "io.write" THEN Len(e.args) = 3
                              ELSE Len(e.args) <= Len(Regs)

LEMMA EvenOp ==
  ASSUME NEW op \in LineOps, op # "push", op # "pop", NEW arg, NEW k \in Nat
  PROVE  Fits(op, arg, k) /\ k \in Int /\ k + Eff(op) = k /\ StepsTo(op, arg, k, k)
<1>1. op \notin {"push", "pop", "enter", "ret", "label", "store", "spill", "jmp", "je", "leave", "exit"}
  BY DEF LineOps, Quiet
<1> QED BY <1>1 DEF Fits, Eff, StepsTo

LEMMA EvenLine ==
  ASSUME NEW op \in LineOps, op # "push", op # "pop", NEW arg
  PROVE  Even(<<Line(op, arg)>>)
<1>1. \A k \in Nat : Fits(op, arg, k) /\ k \in Int /\ k + Eff(op) = k
  BY EvenOp
<1>2. ASSUME NEW k \in Nat PROVE Bal(<<Line(op, arg)>>, k, k)
  <2>1. Fits(op, arg, k) /\ k \in Int /\ k + Eff(op) = k
    BY <1>1
  <2>2. Bal(<<Line(op, arg)>>, k, k + Eff(op))
    BY <2>1, BalOne
  <2> QED BY <2>1, <2>2
<1> QED BY <1>2 DEF Even

LEMMA PushBal ==
  ASSUME NEW s, IsSeq(s), Even(s), NEW k \in Nat
  PROVE  IsSeq(Pushed(s)) /\ Bal(Pushed(s), k, k + 1)
<1>1. Fits("push", "rax", k) /\ Eff("push") = 1 /\ k \in Int
  BY DEF Fits, Eff
<1>2. Bal(<<Line("push", "rax")>>, k, k + 1)
  BY <1>1, BalOne
<1>3. Bal(s, k, k)
  BY DEF Even
<1> PICK t : t = <<Line("push", "rax")>>
  OBVIOUS
<1>4. IsSeq(t)
  BY FewLines
<1>5. IsSeq(s \o t) /\ Bal(s \o t, k, k + 1)
  BY <1>2, <1>3, <1>4, BalConcat
<1> QED BY <1>5 DEF Pushed

LEMMA PopBal ==
  ASSUME NEW arg, NEW k \in Nat
  PROVE  Bal(<<Line("pop", arg)>>, k + 1, k)
<1>1. Fits("pop", arg, k + 1) /\ k + 1 \in Int /\ (k + 1) + Eff("pop") = k
  BY DEF Fits, Eff
<1>2. Bal(<<Line("pop", arg)>>, k + 1, (k + 1) + Eff("pop"))
  BY <1>1, BalOne
<1> QED BY <1>1, <1>2

LEMMA WriteBal ==
  ASSUME NEW k \in Nat, NEW a, NEW b, NEW c, NEW d, NEW e,
         a[1] = "pop", b[1] = "pop", c[1] = "pop", d[1] = "write", e[1] = "imm"
  PROVE  Bal(<<a, b, c, d, e>>, k + 3, k)
<1> PICK s : s = <<a, b, c, d, e>>
  OBVIOUS
<1>1. Len(s) = 5 /\ s[1] = a /\ s[2] = b /\ s[3] = c /\ s[4] = d /\ s[5] = e
  OBVIOUS
<1> PICK x : x = [i \in 1..6 |-> IF i <= 4 THEN k + 4 - i ELSE k]
  OBVIOUS
<1>2. ASSUME NEW i \in 1..5 PROVE StepsTo(s[i][1], s[i][2], x[i], x[i + 1])
  <2>1. CASE i \in 1..3
    <3>1. s[i][1] = "pop"
      BY <1>1, <2>1
    <3>2. x[i] = k + 4 - i /\ x[i + 1] = k + 4 - (i + 1)
      BY <2>1
    <3> QED BY <2>1, <3>1, <3>2 DEF StepsTo, Fits, Eff
  <2>2. CASE i \in {4, 5}
    <3>1. s[i][1] \in {"write", "imm"} /\ x[i] = k /\ x[i + 1] = k
      BY <1>1, <2>2
    <3> QED BY <3>1 DEF StepsTo, Fits, Eff
  <2> QED BY <2>1, <2>2
<1>3. x \in [1..6 -> Int] /\ x[1] = k + 3 /\ x[6] = k
  OBVIOUS
<1>4. Bal(s, k + 3, k)
  <2>1. 5 + 1 = 6
    OBVIOUS
  <2>2. IsDepths(s, x)
    BY <1>1, <1>2, <1>3, <2>1 DEF IsDepths
  <2> QED BY <1>1, <1>3, <2>1, <2>2 DEF Bal
<1> QED BY <1>4

LEMMA OperateBal ==
  ASSUME NEW k \in Nat, NEW a, NEW b, NEW c,
         a[1] \in LineOps \ {"push", "pop"}, b[1] = "pop", c[1] \in LineOps \ {"push", "pop"}
  PROVE  Bal(<<a, b, c>>, k + 1, k)
<1> PICK s : s = <<a, b, c>>
  OBVIOUS
<1>1. Len(s) = 3 /\ s[1] = a /\ s[2] = b /\ s[3] = c
  OBVIOUS
<1> PICK x : x = [i \in 1..4 |-> IF i <= 2 THEN k + 1 ELSE k]
  OBVIOUS
<1>2. x \in [1..4 -> Int] /\ x[1] = k + 1 /\ x[2] = k + 1 /\ x[3] = k /\ x[4] = k
  OBVIOUS
<1>3. /\ StepsTo(s[1][1], s[1][2], k + 1, k + 1) /\ StepsTo(s[2][1], s[2][2], k + 1, k)
      /\ StepsTo(s[3][1], s[3][2], k, k)
  <2>1. \A arg : StepsTo("pop", arg, k + 1, k)
    BY DEF StepsTo, Fits, Eff
  <2>2. k + 1 \in Nat
    OBVIOUS
  <2> QED BY <1>1, <2>1, <2>2, EvenOp
<1>4. ASSUME NEW i \in 1..3 PROVE StepsTo(s[i][1], s[i][2], x[i], x[i + 1])
  <2>1. i = 1 \/ i = 2 \/ i = 3
    OBVIOUS
  <2>2. 1 + 1 = 2 /\ 2 + 1 = 3 /\ 3 + 1 = 4
    OBVIOUS
  <2> QED BY <1>2, <1>3, <2>1, <2>2
<1>5. Bal(s, k + 1, k)
  <2>1. 3 + 1 = 4
    OBVIOUS
  <2>2. IsDepths(s, x)
    BY <1>1, <1>2, <1>4, <2>1 DEF IsDepths
  <2> QED BY <1>1, <1>2, <2>1, <2>2 DEF Bal
<1> QED BY <1>5

LEMMA CallBal ==
  ASSUME NEW callee, NEW args \in Seq(LineSeqs),
         \A i \in 1..Len(args) : Even(args[i]),
         IF callee = "io.write" THEN Len(args) = 3 ELSE Len(args) <= Len(Regs)
  PROVE  Even(emit_call(callee, args))
<1> PICK ss : ss = [i \in 1..Len(args) |-> Pushed(args[i])]
  OBVIOUS
<1> PICK first : first = Seqs!FlattenSeq(ss)
  OBVIOUS
<1>1. Len(args) \in Nat /\ \A i \in 1..Len(args) : args[i] \in LineSeqs
  OBVIOUS
<1>2. \A i \in 1..Len(args) : Pushed(args[i]) \in LineSeqs
  BY <1>1, PushedLines
<1>3. ss \in Seq(LineSeqs) /\ Len(ss) = Len(args)
  BY <1>1, <1>2
<1>4. IsSeq(first)
  BY <1>3, FlattenFacts, IsSeqOf DEF LineSeqs
<1>5. ASSUME NEW k \in Nat PROVE Bal(first, k, k + Len(args))
  <2> PICK x : x = [i \in 0..Len(ss) |-> k + i]
    OBVIOUS
  <2>1. ASSUME NEW i \in 1..Len(ss) PROVE Bal(ss[i], x[i - 1], x[i])
    <3>1. /\ x[i - 1] = k + (i - 1) /\ x[i] = (k + (i - 1)) + 1 /\ k + (i - 1) \in Nat
          /\ ss[i] = Pushed(args[i])
      BY <1>1, <1>3
    <3>2. IsSeq(args[i])
      BY <1>1, <1>3, IsSeqOf DEF LineSeqs
    <3>3. Bal(Pushed(args[i]), k + (i - 1), (k + (i - 1)) + 1)
      BY <1>3, <3>1, <3>2, PushBal
    <3> QED BY <3>1, <3>3
  <2>2. x \in [0..Len(ss) -> Int] /\ x[0] = k /\ x[Len(ss)] = k + Len(args)
    BY <1>1, <1>3
  <2>3. Bal(Seqs!FlattenSeq(ss), x[0], x[Len(ss)])
    BY <1>3, <2>1, <2>2, BalFlatten DEF LineSeqs
  <2> QED BY <2>2, <2>3
<1>6. CASE callee = "io.write"
  <2> PICK a, b, c, d, e : /\ a = Line("pop", "rdx") /\ b = Line("pop", "rsi") /\ c = Line("pop", "rdi")
                           /\ d = Line("write", "") /\ e = Line("imm", 0)
    OBVIOUS
  <2>1. a[1] = "pop" /\ b[1] = "pop" /\ c[1] = "pop" /\ d[1] = "write" /\ e[1] = "imm"
    BY LineIs
  <2> PICK rest : rest = <<a, b, c, d, e>>
    OBVIOUS
  <2>2. emit_call(callee, args) = first \o rest
    BY <1>6 DEF emit_call
  <2>3. IsSeq(rest)
    <3> PICK S : S = {a, b, c, d, e}
      OBVIOUS
    <3>1. a \in S /\ b \in S /\ c \in S /\ d \in S /\ e \in S
      OBVIOUS
    <3>2. <<a, b, c, d, e>> \in Seq(S)
      BY ONLY <3>1
    <3> QED BY <3>2, IsSeqOf
  <2>4. ASSUME NEW k \in Nat PROVE Bal(first \o rest, k, k)
    <3>1. Bal(first, k, k + 3)
      BY <1>5, <1>6
    <3>2. Bal(rest, k + 3, k)
      BY <2>1, WriteBal
    <3> QED BY <1>4, <2>3, <3>1, <3>2, BalConcat
  <2> QED BY <2>2, <2>4 DEF Even
<1>7. CASE callee # "io.write"
  <2> PICK pops : pops = [i \in 1..Len(args) |-> ArgPop(Len(args) + 1 - i)]
    OBVIOUS
  <2> PICK mid : mid = Seqs!FlattenSeq(pops)
    OBVIOUS
  <2> PICK call : call = <<Line("call", callee)>>
    OBVIOUS
  <2>1. \A i \in 1..Len(args) : pops[i] = <<Line("pop", Regs[Len(args) + 1 - i])>>
    <3>1. \A i \in 1..Len(args) : Len(args) + 1 - i <= Len(args)
      BY <1>1
    <3>2. Len(Regs) \in Nat
      BY GenAssumption
    <3>3. \A i \in 1..Len(args) : Len(args) + 1 - i <= Len(Regs)
      BY <1>1, <1>7, <3>1, <3>2
    <3> QED BY <3>3 DEF ArgPop
  <2>2. pops \in Seq(LineSeqs) /\ Len(pops) = Len(args)
    <3>1. ASSUME NEW i \in 1..Len(args) PROVE pops[i] \in LineSeqs
      <4>1. Len(args) + 1 - i \in Nat /\ "pop" \in LineOps
        BY <1>1 DEF LineOps, Quiet
      <4>2. Regs[Len(args) + 1 - i] \in LineArgs
        BY <4>1 DEF LineArgs
      <4> QED BY <2>1, <4>1, <4>2, LineOf
    <3> QED BY <1>1, <3>1
  <2>3. emit_call(callee, args) = first \o (mid \o call)
    BY <1>7 DEF emit_call, ArgPop
  <2>4. IsSeq(mid) /\ IsSeq(call)
    <3>1. IsSeq(mid)
      BY <2>2, FlattenFacts, IsSeqOf DEF LineSeqs
    <3> QED BY <3>1, FewLines
  <2>5. ASSUME NEW k \in Nat PROVE Bal(first \o (mid \o call), k, k)
    <3> PICK x : x = [i \in 0..Len(pops) |-> k + (Len(args) - i)]
      OBVIOUS
    <3>1. ASSUME NEW i \in 1..Len(pops) PROVE Bal(pops[i], x[i - 1], x[i])
      <4>1. /\ x[i - 1] = (k + (Len(args) - i)) + 1 /\ x[i] = k + (Len(args) - i)
            /\ k + (Len(args) - i) \in Nat
        BY <1>1, <2>2
      <4> QED BY <2>1, <2>2, <4>1, PopBal
    <3>2. x \in [0..Len(pops) -> Int] /\ x[0] = k + Len(args) /\ x[Len(pops)] = k
      BY <1>1, <2>2
    <3>3. Bal(mid, k + Len(args), k)
      <4>1. Bal(Seqs!FlattenSeq(pops), x[0], x[Len(pops)])
        BY <2>2, <3>1, <3>2, BalFlatten DEF LineSeqs
      <4> QED BY <3>2, <4>1
    <3>4. Bal(call, k, k)
      BY EvenLine DEF Even, LineOps
    <3>5. IsSeq(mid \o call) /\ Bal(mid \o call, k + Len(args), k)
      BY <2>4, <3>3, <3>4, BalConcat
    <3>6. Bal(first, k, k + Len(args))
      BY <1>5
    <3> QED
      <4> PICK rest : rest = mid \o call
        OBVIOUS
      <4> QED BY <1>4, <3>5, <3>6, BalConcat
  <2> QED BY <2>3, <2>5 DEF Even
<1> QED BY <1>6, <1>7

LEMMA FromEven ==
  ASSUME NEW e \in Expressions, FewArgs(e), NEW t \in [Operands(e) -> LineSeqs],
         \A x \in Operands(e) : Even(t[x])
  PROVE  Even(emit_from(e, t))
<1>1. IsExpression(e) /\ \A x \in Operands(e) : t[x] \in LineSeqs /\ IsSeq(t[x])
  BY ExprFacts, IsSeqOf DEF LineSeqs
<1> PICK s : s = emit_from(e, t)
  OBVIOUS
<1>2. /\ "imm" \in LineOps /\ "flag" \in LineOps /\ "lea" \in LineOps /\ "load" \in LineOps
      /\ "call" \in LineOps /\ "neg" \in LineOps /\ "not" \in LineOps /\ "mov rbx" \in LineOps
      /\ "alu" \in LineOps /\ "idiv" \in LineOps /\ "cmp" \in LineOps
  BY DEF LineOps, Quiet
<1>3. CASE e.k \in {"int", "bool", "str", "path", "ident"}
  <2>1. \E op \in LineOps \ {"push", "pop"} : \E arg : s = <<Line(op, arg)>>
    <3>1. CASE e.k = "ident"
      <4>1. s = <<emit_ident(e.name)>>
        BY <3>1 DEF emit_from
      <4>2. \E op \in LineOps \ {"push", "pop"} : \E arg : emit_ident(e.name) = Line(op, arg)
        <5>1. Has(env, e.name) => emit_ident(e.name) = Line("load", env[e.name])
          BY DEF emit_ident
        <5>2. ~Has(env, e.name) /\ Has(functions, e.name) => emit_ident(e.name) = Line("call", e.name)
          BY DEF emit_ident
        <5>3. ~Has(env, e.name) /\ ~Has(functions, e.name) => emit_ident(e.name) = Line("imm", 0)
          BY DEF emit_ident
        <5> QED BY <1>2, <5>1, <5>2, <5>3
      <4> QED BY <4>1, <4>2
    <3>2. CASE e.k # "ident"
      BY <1>2, <1>3, <3>2 DEF emit_from
    <3> QED BY <3>1, <3>2
  <2>2. PICK op \in LineOps \ {"push", "pop"} : \E arg : s = <<Line(op, arg)>>
    BY <2>1
  <2>3. PICK arg : s = <<Line(op, arg)>>
    BY <2>2
  <2> QED BY <2>2, <2>3, EvenLine
<1>4. CASE e.k = "unary"
  <2>1. Operands(e) = {e.expr}
    BY <1>4 DEF Operands
  <2>2. PICK op \in {"neg", "not"} : s = t[e.expr] \o <<Line(op, "rax")>>
    BY <1>4 DEF emit_from
  <2> PICK l : l = <<Line(op, "rax")>>
    OBVIOUS
  <2>3. Even(l) /\ IsSeq(l)
    BY <1>2, EvenLine, FewLines
  <2>4. ASSUME NEW k \in Nat PROVE Bal(s, k, k)
    <3>1. Bal(t[e.expr], k, k) /\ Bal(l, k, k) /\ IsSeq(t[e.expr]) /\ IsSeq(l)
      BY <1>1, <2>1, <2>3 DEF Even
    <3>2. Bal(t[e.expr] \o l, k, k)
      BY ONLY <3>1, BalConcat
    <3> QED BY <2>2, <3>2
  <2> QED BY <2>4 DEF Even
<1>5. CASE e.k = "binary"
  <2>1. Operands(e) = {e.left, e.right}
    BY <1>5 DEF Operands
  <2>2. PICK op \in {"alu", "idiv", "cmp"} : \E arg : operation(e.op) = Line(op, arg)
    <3>1. e.op \in Arithmetic \cup Comparison \cup {"And", "Or"}
      BY <1>1, <1>5 DEF IsExpression
    <3> QED BY <3>1 DEF operation, Arithmetic, Comparison
  <2>9. PICK arg : operation(e.op) = Line(op, arg)
    BY <2>2
  <2>3. PICK a, b, c : a = Line("mov rbx", "rax") /\ b = Line("pop", "rax") /\ c = Line(op, arg)
    OBVIOUS
  <2> PICK r : r = <<a, b, c>>
    OBVIOUS
  <2>4. a[1] = "mov rbx" /\ b[1] = "pop" /\ c[1] = op
    BY <2>3, LineIs
  <2>8. "mov rbx" \notin {"push", "pop"} /\ op \notin {"push", "pop"} /\ IsSeq(r)
    BY FewLines
  <2> PICK x, y : x = Pushed(t[e.left]) /\ y = t[e.right]
    OBVIOUS
  <2>5. s = (x \o y) \o r
    BY <1>5, <2>9, <2>3 DEF emit_from
  <2>6. IsSeq(x) /\ IsSeq(y)
    BY <1>1, <2>1, PushBal
  <2>7. ASSUME NEW k \in Nat PROVE Bal(s, k, k)
    <3>1. Bal(x, k, k + 1) /\ Bal(y, k + 1, k + 1) /\ k + 1 \in Nat
      BY <1>1, <2>1, PushBal DEF Even
    <3>2. IsSeq(x \o y) /\ Bal(x \o y, k, k + 1)
      BY ONLY <2>6, <3>1, BalConcat
    <3>7. Bal(r, k + 1, k)
      BY <1>2, <2>4, <2>8, OperateBal
    <3> PICK z : z = x \o y
      OBVIOUS
    <3>8. Bal(z \o r, k, k)
      BY <2>8, <3>2, <3>7, BalConcat
    <3> QED BY <2>5, <3>8
  <2> QED BY <2>7 DEF Even
<1>6. CASE e.k = "call"
  <2> PICK args : args = [i \in 1..Len(e.args) |-> t[e.args[i]]]
    OBVIOUS
  <2>1. \A i \in 1..Len(e.args) : e.args[i] \in Operands(e)
    BY <1>6 DEF Operands
  <2>2. Len(e.args) \in Nat
    BY <1>1, <1>6 DEF IsExpression
  <2>3. args \in Seq(LineSeqs) /\ Len(args) = Len(e.args)
    BY <1>1, <2>1, <2>2
  <2>4. s = emit_call(e.callee, args)
    BY <1>6 DEF emit_from
  <2>5. \A i \in 1..Len(args) : Even(args[i])
    BY <2>1, <2>3
  <2>6. IF e.callee = "io.write" THEN Len(args) = 3 ELSE Len(args) <= Len(Regs)
    BY <1>6, <2>3 DEF FewArgs
  <2> QED BY <2>3, <2>4, <2>5, <2>6, CallBal
<1> QED BY <1>1, <1>3, <1>4, <1>5, <1>6 DEF IsExpression

LEMMA ExprEven ==
  ASSUME NEW e \in Expressions, \A x \in SubExprs[e] : FewArgs(x)
  PROVE  Even(emit_expr[e])
<1> DEFINE S == {x \in Expressions : (\A y \in SubExprs[x] : FewArgs(y)) => Even(emit_expr[x])}
<1>1. ASSUME NEW x \in Expressions, Operands(x) \subseteq S, \A y \in SubExprs[x] : FewArgs(y)
      PROVE  Even(emit_expr[x])
  <2> PICK t : t = [y \in Operands(x) |-> emit_expr[y]]
    OBVIOUS
  <2>1. emit_expr[x] = emit_from(x, t) /\ t \in [Operands(x) -> LineSeqs]
    BY EmitExprIs
  <2>2. FewArgs(x) /\ \A y \in Operands(x) : SubExprs[y] \subseteq SubExprs[x]
    BY <1>1, SubExprsFacts
  <2>3. \A y \in Operands(x) : Even(t[y])
    BY <1>1, <2>2
  <2> QED BY <2>1, <2>2, <2>3, FromEven
<1>2. Expressions \subseteq S
  <2>1. \A x \in Expressions : Operands(x) \subseteq S => x \in S
    BY <1>1
  <2> HIDE DEF S
  <2> QED BY <2>1, ExprInduction
<1> QED BY <1>2
-----------------------------------------------------------------------------
(* The labels that are still to come.  A block's own label comes at its    *)
(* end, the one in front of an else block when the if has one: node i      *)
(* opened block b of n, and its else is not among the nodes up to g.       *)
ElseOf(p, i) == \E j \in (i + 1)..Len(p) :
                  /\ p[j].k = "else"
                  /\ \A h \in i..(j - 1) : DepthOf(p, i, h) >= 1
                  /\ DepthOf(p, i, j) = 1
Awaits(p, n, b, g) ==
  \E i \in 1..g : /\ \A h \in i..g : DepthOf(p, i, h) >= 1
                  /\ DepthOf(p, i, g) = n - b + 1
                  /\ \A j \in (i + 1)..g : p[j].k = "else" => DepthOf(p, i, j) # 1
                  /\ ElseOf(p, i)
Pending(p, ls, g) ==
  {ls[b].end : b \in {c \in 1..Len(ls) : ls[c].k # "unsafe"}}
    \cup {ls[b].start : b \in {c \in 1..Len(ls) : ls[c].k = "if" /\ Awaits(p, Len(ls), c, g)}}

LEMMA AwaitsNext ==
  ASSUME NEW p, NEW n \in Nat, NEW b \in 1..n, NEW g \in Nat, Awaits(p, n, b, g)
  PROVE  /\ p[g + 1].k \in Opening => Awaits(p, n + 1, b, g + 1)
         /\ p[g + 1].k \notin Opening \cup {"else", "end"} => Awaits(p, n, b, g + 1)
         /\ p[g + 1].k = "else" /\ b < n => Awaits(p, n, b, g + 1)
         /\ p[g + 1].k = "end" => b < n /\ Awaits(p, n - 1, b, g + 1)
<1>1. PICK i \in 1..g : /\ \A h \in i..g : DepthOf(p, i, h) >= 1
                        /\ DepthOf(p, i, g) = n - b + 1
                        /\ \A j \in (i + 1)..g : p[j].k = "else" => DepthOf(p, i, j) # 1
                        /\ ElseOf(p, i)
  BY Zenon DEF Awaits
<1> DEFINE k == p[g + 1].k
           d == DepthOf(p, i, g + 1)
<1>2. /\ d \in Int
      /\ k \in Opening => d = n - b + 1 + 1
      /\ k = "end" => d = n - b + 1 - 1
      /\ k \notin Opening \cup {"end"} => d = n - b + 1
      /\ i \in Nat /\ i <= g /\ i <= g + 1
  <2>1. i \in Nat /\ i <= g + 1 /\ i <= (g + 1) + 1 /\ g + 1 \in Nat /\ i <= g
    OBVIOUS
  <2>2. DepthOf(p, i, g + 1) \in Int
    BY <2>1, DepthNext
  <2>3. /\ k \in Opening => d = DepthOf(p, i, g) + 1
        /\ k = "end" => d = DepthOf(p, i, g) - 1
        /\ k \notin Opening \cup {"end"} => d = DepthOf(p, i, g)
    BY <2>1, DepthNext
  <2> QED BY <1>1, <2>1, <2>2, <2>3
<1>3. "else" \notin Opening /\ "end" \notin Opening
  BY DEF Opening
<1>4. ASSUME d >= 1, k = "else" => d # 1, NEW m, d = m - b + 1
      PROVE  Awaits(p, m, b, g + 1)
  <2>1. ASSUME NEW h \in i..(g + 1) PROVE DepthOf(p, i, h) >= 1
    <3>1. h \in i..g \/ h = g + 1
      BY <1>2
    <3> QED BY <1>1, <1>4, <3>1
  <2>2. ASSUME NEW j \in (i + 1)..(g + 1), p[j].k = "else" PROVE DepthOf(p, i, j) # 1
    <3>1. j \in (i + 1)..g \/ j = g + 1
      BY <1>2
    <3> QED BY <1>1, <1>4, <2>2, <3>1
  <2>3. i \in 1..(g + 1)
    BY <1>2
  <2> HIDE DEF d
  <2> QED BY <1>1, <1>4, <2>1, <2>2, <2>3 DEF Awaits, d
<1>5. ASSUME k = "end" PROVE b < n
  <2>1. SUFFICES ASSUME b = n PROVE FALSE
    OBVIOUS
  <2>2. d = 0
    BY <1>2, <1>5, <2>1
  <2>3. PICK j \in (i + 1)..Len(p) : /\ p[j].k = "else"
                                     /\ \A h \in i..(j - 1) : DepthOf(p, i, h) >= 1
                                     /\ DepthOf(p, i, j) = 1
    BY <1>1 DEF ElseOf
  <2>4. CASE j <= g
    <3>1. j \in (i + 1)..g
      BY <1>2, <2>4
    <3> QED BY <1>1, <2>3, <3>1
  <2>5. CASE j = g + 1
    BY <1>5, <2>3, <2>5
  <2>6. CASE j > g + 1
    <3>1. g + 1 \in i..(j - 1)
      BY <1>2, <2>6
    <3>2. DepthOf(p, i, g + 1) >= 1
      BY <2>3, <3>1
    <3> QED BY <2>2, <3>2
  <2> QED BY <1>2, <2>4, <2>5, <2>6
<1>6. k \in Opening => Awaits(p, n + 1, b, g + 1)
  BY <1>2, <1>3, <1>4
<1>7. k \notin Opening \cup {"else", "end"} => Awaits(p, n, b, g + 1)
  BY <1>2, <1>4
<1>8. k = "else" /\ b < n => Awaits(p, n, b, g + 1)
  BY <1>2, <1>3, <1>4
<1>9. k = "end" => Awaits(p, n - 1, b, g + 1)
  BY <1>2, <1>4, <1>5
<1> QED BY <1>5, <1>6, <1>7, <1>8, <1>9

LEMMA AwaitsNew ==
  ASSUME NEW p, NEW n \in Nat, NEW g \in Nat, p[g + 1].k \in Opening, ElseOf(p, g + 1)
  PROVE  Awaits(p, n + 1, n + 1, g + 1)
<1>1. DepthOf(p, g + 1, g + 1) = 1
  <2>1. DepthOf(p, g + 1, g) = 0 /\ DepthOf(p, g + 1, g + 1) = DepthOf(p, g + 1, g) + 1
    <3>1. g + 1 \in Nat /\ g + 1 <= g + 1
      OBVIOUS
    <3> QED BY <3>1, DepthNext
  <2> QED BY <2>1
<1>2. \A h \in (g + 1)..(g + 1) : DepthOf(p, g + 1, h) >= 1
  BY <1>1
<1>3. ((g + 1) + 1)..(g + 1) = {} /\ g + 1 \in 1..(g + 1) /\ (n + 1) - (n + 1) + 1 = 1
  OBVIOUS
<1>4. \A j \in ((g + 1) + 1)..(g + 1) : p[j].k = "else" => DepthOf(p, g + 1, j) # 1
  BY <1>3
<1> QED BY <1>1, <1>2, <1>3, <1>4 DEF Awaits

(* What a step does to the labels to come.  Most keep them. *)
LEMMA PendingSame ==
  ASSUME NEW p, NEW ls, IsSeq(ls), NEW g \in Nat, p[g + 1].k \notin Opening \cup {"else", "end"}
  PROVE  Pending(p, ls, g) \subseteq Pending(p, ls, g + 1)
<1>1. Len(ls) \in Nat
  BY SeqFacts
<1>2. \A b \in 1..Len(ls) : Awaits(p, Len(ls), b, g) => Awaits(p, Len(ls), b, g + 1)
  BY <1>1, AwaitsNext
<1> QED BY <1>2 DEF Pending

LEMMA PendingOpen ==
  ASSUME NEW p, NEW ls, IsSeq(ls), NEW g \in Nat, p[g + 1].k \in Opening, NEW r,
         NEW t, t = Append(ls, r)
  PROVE  /\ Pending(p, ls, g) \subseteq Pending(p, t, g + 1)
         /\ r.k # "unsafe" => r.end \in Pending(p, t, g + 1)
         /\ r.k = "if" /\ ElseOf(p, g + 1) => r.start \in Pending(p, t, g + 1)
<1>1. /\ Len(ls) \in Nat /\ Len(t) = Len(ls) + 1 /\ t[Len(ls) + 1] = r
      /\ \A i \in 1..Len(ls) : t[i] = ls[i]
  BY SeqFacts, AppendFacts
<1>2. \A b \in 1..Len(ls) : Awaits(p, Len(ls), b, g) => Awaits(p, Len(t), b, g + 1)
  BY <1>1, AwaitsNext
<1>3. \A b \in 1..Len(ls) : b \in 1..Len(t)
  BY <1>1
<1>4. Len(ls) + 1 \in 1..Len(t)
  BY <1>1
<1>5. ElseOf(p, g + 1) => Awaits(p, Len(t), Len(ls) + 1, g + 1)
  BY <1>1, AwaitsNew
<1> QED BY <1>1, <1>2, <1>3, <1>4, <1>5 DEF Pending

LEMMA PendingElse ==
  ASSUME NEW p, NEW ls, IsSeq(ls), ls # << >>, NEW g \in Nat, p[g + 1].k = "else",
         NEW r, r.k = "else", r.end = ls[Len(ls)].end, NEW t, IsSeq(t), Len(t) = Len(ls),
         t[Len(ls)] = r, \A i \in 1..(Len(ls) - 1) : t[i] = ls[i]
  PROVE  /\ Pending(p, ls, g) \subseteq Pending(p, t, g + 1) \cup {ls[Len(ls)].start}
         /\ ls[Len(ls)].end \in Pending(p, t, g + 1)
<1>1. Len(ls) \in Nat /\ Len(ls) # 0 /\ Len(ls) \in 1..Len(ls)
  BY SeqFacts
<1>2. \A b \in 1..Len(ls) : b # Len(ls) /\ Awaits(p, Len(ls), b, g) => Awaits(p, Len(t), b, g + 1)
  BY <1>1, AwaitsNext
<1>3. \A b \in 1..Len(ls) : b = Len(ls) \/ b \in 1..(Len(ls) - 1)
  BY <1>1
<1>4. ls[Len(ls)].end \in Pending(p, t, g + 1)
  BY <1>1 DEF Pending
<1>5. ASSUME NEW b \in 1..Len(ls), ls[b].k # "unsafe" PROVE ls[b].end \in Pending(p, t, g + 1)
  BY <1>3, <1>4, <1>5 DEF Pending
<1>6. ASSUME NEW b \in 1..Len(ls), ls[b].k = "if", Awaits(p, Len(ls), b, g), b # Len(ls)
      PROVE  ls[b].start \in Pending(p, t, g + 1)
  BY <1>2, <1>3, <1>6 DEF Pending
<1> QED BY <1>4, <1>5, <1>6, ZenonT(60) DEF Pending

LEMMA PendingEnd ==
  ASSUME NEW p, NEW ls, IsSeq(ls), ls # << >>, NEW g \in Nat, p[g + 1].k = "end",
         NEW t, IsSeq(t), Len(t) = Len(ls) - 1, \A i \in 1..Len(t) : t[i] = ls[i]
  PROVE  \A x \in Pending(p, ls, g) :
           x \in Pending(p, t, g + 1) \/ (ls[Len(ls)].k # "unsafe" /\ x = ls[Len(ls)].end)
<1>1. Len(ls) \in Nat /\ Len(ls) # 0
  BY SeqFacts
<1>2. ASSUME NEW b \in 1..Len(ls), Awaits(p, Len(ls), b, g)
      PROVE  b # Len(ls) /\ Awaits(p, Len(t), b, g + 1)
  <2>1. b < Len(ls) /\ Awaits(p, Len(ls) - 1, b, g + 1)
    BY <1>1, <1>2, AwaitsNext
  <2> QED BY <1>1, <2>1
<1>3. \A b \in 1..Len(ls) : b = Len(ls) \/ b \in 1..Len(t)
  BY <1>1
<1>4. ASSUME NEW b \in 1..Len(ls), ls[b].k # "unsafe", b # Len(ls)
      PROVE  ls[b].end \in Pending(p, t, g + 1)
  BY <1>3, <1>4 DEF Pending
<1>5. ASSUME NEW b \in 1..Len(ls), ls[b].k = "if", Awaits(p, Len(ls), b, g)
      PROVE  ls[b].start \in Pending(p, t, g + 1)
  BY <1>2, <1>3, <1>5 DEF Pending
<1> QED BY <1>4, <1>5 DEF Pending
-----------------------------------------------------------------------------
(* The shape of the code while it grows: how deep the stack is in front of *)
(* each line, that a function's lines follow each other to its ret, that   *)
(* the slots lie in the frame, and that every jump has its label or will.  *)
FrameOf(p, i) == align16(Cardinality(LocalsOf(p, i)))
HasLabel(c, f, t) == \E l \in Elems(c) : l.op = "label" /\ l.fn = f /\ l.arg = t
LineFits(p, c, l) ==
  /\ l.op = "enter" => l.arg = FrameOf(p, l.of) /\ HasLabel(c, l.fn, Label("fn", l.fn))
  /\ l.op = "store" => l.arg \in 1..FrameOf(p, LastFnOf(p, l.of))
  /\ l.op = "spill" => l.arg.slot \in 1..FrameOf(p, LastFnOf(p, l.of))
  /\ l.op \in {"jmp", "je"} => l.arg[1] # "fn"
Lands(p, ls, g, c, l) ==
  l.op \in {"jmp", "je"} => \/ HasLabel(c, l.fn, l.arg)
                            \/ l.fn = p[LastFnOf(p, g)].name /\ l.arg \in Pending(p, ls, g)
LabelForm(r) ==
  /\ r.k # "unsafe" => "end" \in DOMAIN r /\ r.end[1] # "fn"
  /\ r.k \in {"if", "loop", "while"} => "start" \in DOMAIN r /\ r.start[1] # "fn"

Ends == {"ret", "exit"}
Ordered(c, n) ==
  /\ Len(c) >= 2 /\ c[1].op = "call" /\ c[2].op = "exit"
  /\ \A i \in 1..Len(c) : c[i].of = 0 <=> i <= 2
  /\ \A i \in 1..(Len(c) - 1) : c[i].op \in Ends \/ c[i + 1].fn = c[i].fn
  /\ c[Len(c)].op \in Ends <=> n = 0
CodeDepths(c, d) ==
  /\ d \in [1..(Len(c) + 1) -> Int]
  /\ \A i \in 1..Len(c) : StepsTo(c[i].op, c[i].arg, d[i], d[i + 1])
Level(n) == IF n = 0 THEN -1 ELSE 0
Slots(e, frame) == \A n \in DOMAIN e : e[n] \in 1..frame

Shape ==
  /\ \E d : CodeDepths(code, d) /\ d[1] = 0 /\ d[Len(code) + 1] = Level(Len(labels))
  /\ Ordered(code, Len(labels))
  /\ \A l \in Elems(code) : LineFits(program, code, l) /\ Lands(program, labels, gen - 1, code, l)
  /\ \A b \in 1..Len(labels) :
       /\ LabelForm(labels[b]) /\ (labels[b].k = "fn" <=> b = 1)
       /\ labels[b].k \in Loops => HasLabel(code, NameOf(gen - 1), labels[b].start)
  /\ Len(labels) > 0 => Slots(env, FrameOf(program, LastFnOf(program, gen - 1)))

(* What the lines of a node add to it. *)
LoopStart(t) == \E b \in 1..Len(labels) : labels[b].k \in Loops /\ t = labels[b].start
PairFits(lines, l) ==
  /\ l[1] = "enter" => l[2] = FrameOf(program, gen) /\ Line("label", Label("fn", NameOf(gen))) \in Elems(lines)
  /\ l[1] = "store" => l[2] \in 1..FrameOf(program, LastFnOf(program, gen))
  /\ l[1] = "spill" => l[2].slot \in 1..FrameOf(program, LastFnOf(program, gen))
  /\ l[1] \in {"jmp", "je"} => l[2][1] # "fn"
PairLands(lines, l) ==
  l[1] \in {"jmp", "je"} => \/ l[2] \in Pending(program, labels', gen)
                            \/ Line("label", l[2]) \in Elems(lines)
                            \/ LoopStart(l[2])
LinesOrdered(lines, n, m) ==
  /\ \A i \in 1..Len(lines) : lines[i][1] \in Ends => i = Len(lines) /\ m = 0
  /\ m = 0 => lines # << >> /\ lines[Len(lines)][1] \in Ends
  /\ n = 0 => lines # << >>
Adds(lines) ==
  /\ IsSeq(lines) /\ IsSeq(labels')
  /\ Bal(lines, Level(Len(labels)), Level(Len(labels')))
  /\ LinesOrdered(lines, Len(labels), Len(labels'))
  /\ \A l \in Elems(lines) : PairFits(lines, l) /\ PairLands(lines, l)
  /\ \A t \in Pending(program, labels, gen - 1) :
       t \in Pending(program, labels', gen) \/ Line("label", t) \in Elems(lines)
  /\ \A b \in 1..Len(labels') :
       /\ LabelForm(labels'[b]) /\ (labels'[b].k = "fn" <=> b = 1)
       /\ labels'[b].k \in Loops => \/ Line("label", labels'[b].start) \in Elems(lines)
                                    \/ LoopStart(labels'[b].start)
  /\ Len(labels') > 0 => Slots(env', FrameOf(program, LastFnOf(program, gen)))

(* The code c with the lines of a node. *)
Extends(c, lines, g, f, c2) ==
  /\ IsSeq(c) /\ IsSeq(c2) /\ IsSeq(lines)
  /\ Len(c2) = Len(c) + Len(lines)
  /\ \A i \in 1..Len(c) : c2[i] = c[i]
  /\ \A i \in 1..Len(lines) : c2[Len(c) + i] = LineRec(lines[i], g, f)

LEMMA RecIs ==
  ASSUME NEW l, NEW i, NEW f
  PROVE  /\ LineRec(l, i, f).op = l[1] /\ LineRec(l, i, f).arg = l[2]
         /\ LineRec(l, i, f).of = i /\ LineRec(l, i, f).fn = f
BY DEF LineRec

LEMMA EmitAt ==
  ASSUME NEW lines, IsSeq(lines), IsSeq(code), Len(code) > 0,
         Emit(lines) \/ (lines = << >> /\ code' = code)
  PROVE  Extends(code, lines, gen, NameOf(gen), code')
<1>1. IsSeq(code') /\ Len(lines) \in Nat /\ Len(code) \in Nat /\ (lines = << >> => Len(lines) = 0)
  BY EmitFacts, SeqFacts
<1>2. CASE lines = << >> /\ code' = code
  BY <1>1, <1>2 DEF Extends
<1>3. CASE Emit(lines)
  <2>1. FnOf(gen).name = NameOf(gen)
    BY ProgramNames DEF NameOf
  <2> PICK t : t = [i \in 1..Len(lines) |-> LineRec(lines[i], gen, NameOf(gen))]
    OBVIOUS
  <2>2. code' = code \o t
    BY <1>3, <2>1 DEF Emit, LineRec
  <2>3. t \in Seq({LineRec(lines[i], gen, NameOf(gen)) : i \in 1..Len(lines)}) /\ Len(t) = Len(lines)
    BY <1>1
  <2>4. IsSeq(t)
    BY <2>3, IsSeqOf
  <2>5. /\ Len(code \o t) = Len(code) + Len(t)
        /\ \A i \in 1..Len(code) : (code \o t)[i] = code[i]
        /\ \A i \in 1..Len(t) : (code \o t)[Len(code) + i] = t[i]
    BY <2>4 DEF IsSeq
  <2> QED BY <1>1, <2>2, <2>3, <2>5 DEF Extends
<1> QED BY <1>2, <1>3

LEMMA DepthsExtend ==
  ASSUME NEW c, NEW lines, NEW g, NEW f, NEW c2, Extends(c, lines, g, f, c2),
         NEW d, CodeDepths(c, d), NEW a, NEW b, d[1] = a, NEW x, d[Len(c) + 1] = x, Bal(lines, x, b)
  PROVE  \E e : CodeDepths(c2, e) /\ e[1] = a /\ e[Len(c2) + 1] = b
<1> PICK s : s = [i \in 1..Len(c) |-> Line(c[i].op, c[i].arg)]
  OBVIOUS
<1>1. Len(c) \in Nat /\ Len(lines) \in Nat /\ IsSeq(lines)
  BY SeqFacts DEF Extends
<1>2. Len(s) = Len(c) /\ \A i \in 1..Len(c) : s[i][1] = c[i].op /\ s[i][2] = c[i].arg
  BY <1>1, LineIs
<1>3. IsSeq(s)
  <2>1. s \in Seq({Line(c[i].op, c[i].arg) : i \in 1..Len(c)})
    BY <1>1
  <2> QED BY <2>1, IsSeqOf
<1>4. Bal(s, a, x)
  BY <1>2 DEF Bal, IsDepths, CodeDepths
<1>5. Bal(s \o lines, a, b)
  BY <1>1, <1>3, <1>4, BalConcat
<1> PICK u : u = s \o lines
  OBVIOUS
<1>6. Len(u) = Len(c2)
  BY <1>1, <1>2, <1>3, ConcatFacts DEF Extends
<1>7. PICK e : IsDepths(u, e) /\ e[1] = a /\ e[Len(u) + 1] = b
  BY <1>5 DEF Bal
<1>8. ASSUME NEW i \in 1..Len(c2) PROVE u[i][1] = c2[i].op /\ u[i][2] = c2[i].arg
  <2>1. CASE i \in 1..Len(c)
    <3>1. u[i] = s[i]
      BY <1>2, <1>3, <2>1 DEF IsSeq
    <3> QED BY <1>2, <2>1, <3>1 DEF Extends
  <2>2. CASE i \notin 1..Len(c)
    <3>1. PICK j \in 1..Len(lines) : i = Len(c) + j
      BY <1>1, <2>2 DEF Extends
    <3>2. u[i] = lines[j]
      BY <1>1, <1>2, <1>3, <3>1 DEF IsSeq
    <3>3. c2[i] = LineRec(lines[j], g, f)
      BY <3>1 DEF Extends
    <3> PICK l : l = lines[j]
      OBVIOUS
    <3>4. c2[i].op = l[1] /\ c2[i].arg = l[2]
      BY <3>3, RecIs
    <3> QED BY <3>2, <3>4
  <2> QED BY <2>1, <2>2
<1>9. CodeDepths(c2, e)
  BY <1>6, <1>7, <1>8 DEF CodeDepths, IsDepths
<1> QED BY <1>6, <1>7, <1>9

LEMMA OrderExtends ==
  ASSUME NEW c, NEW lines, NEW g, NEW f, NEW c2, Extends(c, lines, g, f, c2),
         NEW n \in Nat, NEW m \in Nat, Ordered(c, n), LinesOrdered(lines, n, m),
         n # 0 => c[Len(c)].fn = f, g \in Nat, g # 0
  PROVE  Ordered(c2, m)
<1>1. Len(c) \in Nat /\ Len(lines) \in Nat /\ Len(c) >= 2 /\ (lines = << >> <=> Len(lines) = 0)
      /\ Len(c2) = Len(c) + Len(lines)
  BY SeqFacts DEF Extends, Ordered
<1>2. /\ \A i \in 1..Len(c) : c2[i] = c[i]
      /\ \A i \in 1..Len(lines) : /\ c2[Len(c) + i].op = lines[i][1] /\ c2[Len(c) + i].fn = f
                                 /\ c2[Len(c) + i].of = g
  BY RecIs DEF Extends
<1>3. Len(c2) >= 2 /\ c2[1].op = "call" /\ c2[2].op = "exit"
  <2>1. 1 \in 1..Len(c) /\ 2 \in 1..Len(c)
    BY <1>1
  <2> QED BY <1>1, <1>2, <2>1 DEF Ordered
<1>4. ASSUME NEW i \in 1..(Len(c2) - 1), c2[i].op \notin Ends PROVE c2[i + 1].fn = c2[i].fn
  <2>1. CASE i < Len(c)
    <3>1. i \in 1..(Len(c) - 1) /\ i \in 1..Len(c) /\ i + 1 \in 1..Len(c)
      BY <1>1, <2>1
    <3> QED BY <1>2, <1>4, <3>1 DEF Ordered
  <2>2. CASE i = Len(c)
    <3>1. i \in 1..Len(c) /\ 1 \in 1..Len(lines)
      BY <1>1, <2>2
    <3>2. c[i].op \notin Ends
      BY <1>2, <1>4, <3>1
    <3>3. n # 0
      BY <2>2, <3>2 DEF Ordered
    <3> QED BY <1>2, <2>2, <3>1, <3>3
  <2>3. CASE i > Len(c)
    <3>0. i - Len(c) \in 1..Len(lines) /\ i = Len(c) + (i - Len(c))
      BY <1>1, <2>3
    <3>1. PICK j \in 1..Len(lines) : i = Len(c) + j
      BY <3>0
    <3>2. j + 1 \in 1..Len(lines) /\ i + 1 = Len(c) + (j + 1)
      BY <1>1, <3>1
    <3> QED BY <1>2, <3>1, <3>2
  <2> QED BY <1>1, <2>1, <2>2, <2>3
<1>5. c2[Len(c2)].op \in Ends <=> m = 0
  <2>1. CASE Len(lines) = 0
    <3>1. n # 0 /\ m # 0
      BY <1>1, <2>1 DEF LinesOrdered
    <3>2. Len(c) \in 1..Len(c) /\ Len(c2) = Len(c)
      BY <1>1, <2>1
    <3> QED BY <1>2, <3>1, <3>2 DEF Ordered
  <2>2. CASE Len(lines) # 0
    <3>1. Len(lines) \in 1..Len(lines)
      BY <1>1, <2>2
    <3> QED BY <1>1, <1>2, <3>1 DEF LinesOrdered
  <2> QED BY <2>1, <2>2
<1>6. ASSUME NEW i \in 1..Len(c2) PROVE c2[i].of = 0 <=> i <= 2
  <2>1. CASE i \in 1..Len(c)
    BY <1>2, <2>1 DEF Ordered
  <2>2. CASE i \notin 1..Len(c)
    <3>0. i - Len(c) \in 1..Len(lines) /\ i = Len(c) + (i - Len(c))
      BY <1>1, <2>2
    <3>1. PICK j \in 1..Len(lines) : i = Len(c) + j
      BY <3>0
    <3> QED BY <1>1, <1>2, <3>1
  <2> QED BY <2>1, <2>2
<1> QED BY <1>3, <1>4, <1>5, <1>6 DEF Ordered

(* In a function: the node belongs to the one the last node belongs to.    *)
LEMMA SameFunction ==
  ASSUME GenContext, Emitting
  PROVE  /\ gen \in Nat /\ gen - 1 \in Nat /\ (gen - 1) + 1 = gen /\ gen \in 1..Len(program)
         /\ IsSeq(labels) /\ Len(labels) \in Nat /\ (Len(labels) = 0 <=> Node.k = "fn")
         /\ Len(labels) > 0 => gen > 1 /\ LastFnOf(program, gen) = LastFnOf(program, gen - 1)
         /\ Node.k = "fn" => LastFnOf(program, gen) = gen
<1>1. gen \in Nat /\ gen \in 1..Len(program) /\ FnFirst(program)
  BY NodeFacts DEF GenContext, BodyInv
<1>2. IsSeq(labels) /\ Len(labels) \in Nat /\ (Len(labels) = 0 <=> Node.k = "fn")
  BY LabelFacts DEF GenContext
<1>3. gen - 1 \in Nat /\ (gen - 1) + 1 = gen
  BY <1>1
<1> PICK m \in Nat : m = gen - 1 /\ m + 1 = gen
  BY <1>3
<1>4. /\ program[m + 1].k = "fn" => LastFnOf(program, m + 1) = m + 1
      /\ program[m + 1].k # "fn" => LastFnOf(program, m + 1) = LastFnOf(program, m)
  BY <1>1, LastFnNext
<1>5. Node.k # "fn" => gen # 1
  BY <1>1, SeqFacts DEF FnFirst, Node
<1> QED BY <1>1, <1>2, <1>3, <1>4, <1>5 DEF Node

LEMMA ShapeNext ==
  ASSUME GenContext, Emitting, Shape, NEW lines, Adds(lines),
         Emit(lines) \/ (lines = << >> /\ code' = code), gen' = gen + 1, program' = program
  PROVE  Shape'
<1>1. /\ gen \in Nat /\ gen - 1 \in Nat /\ gen \in 1..Len(program)
      /\ IsSeq(labels) /\ Len(labels) \in Nat /\ (Len(labels) = 0 <=> Node.k = "fn")
      /\ Len(labels) > 0 => gen > 1 /\ NameOf(gen) = NameOf(gen - 1)
                            /\ LastFnOf(program, gen) = LastFnOf(program, gen - 1)
  BY SameFunction DEF NameOf
<1>2. CodeInv /\ IsSeq(code) /\ Len(code) > 0 /\ IsSeq(lines) /\ IsSeq(labels') /\ Len(labels') \in Nat
  BY SeqFacts DEF GenContext, GenInv, CodeInv, Emitting, FrontEnd, Adds
<1>3. Extends(code, lines, gen, NameOf(gen), code')
  BY <1>2, EmitAt
<1>4. Elems(code') = Elems(code) \cup {LineRec(l, gen, NameOf(gen)) : l \in Elems(lines)}
  BY <1>2, EmitFacts
<1>5. \E e : CodeDepths(code', e) /\ e[1] = 0 /\ e[Len(code') + 1] = Level(Len(labels'))
  <2>1. PICK d : CodeDepths(code, d) /\ d[1] = 0 /\ d[Len(code) + 1] = Level(Len(labels))
    BY DEF Shape
  <2>2. Bal(lines, Level(Len(labels)), Level(Len(labels')))
    BY DEF Adds
  <2> QED BY <1>3, <2>1, <2>2, DepthsExtend
<1>6. Ordered(code', Len(labels'))
  <2>1. Ordered(code, Len(labels)) /\ LinesOrdered(lines, Len(labels), Len(labels'))
    BY DEF Shape, Adds
  <2>2. Len(labels) # 0 => code[Len(code)].fn = NameOf(gen)
    BY <1>1, <1>2 DEF CodeInv
  <2>3. gen \in Nat /\ gen # 0
    BY <1>1
  <2> QED BY <1>1, <1>2, <1>3, <2>1, <2>2, <2>3, OrderExtends
<1>7. /\ \A f, t : HasLabel(code, f, t) => HasLabel(code', f, t)
      /\ \A t : Line("label", t) \in Elems(lines) => HasLabel(code', NameOf(gen), t)
  <2>1. ASSUME NEW t, Line("label", t) \in Elems(lines) PROVE HasLabel(code', NameOf(gen), t)
    <3> PICK l : l = LineRec(Line("label", t), gen, NameOf(gen))
      OBVIOUS
    <3>1. l \in Elems(code')
      BY <1>4, <2>1
    <3>2. l.op = "label" /\ l.arg = t /\ l.fn = NameOf(gen)
      BY RecIs, LineIs
    <3> QED BY <3>1, <3>2 DEF HasLabel
  <2> QED BY <1>4, <2>1 DEF HasLabel
<1>8. ASSUME NEW t, LoopStart(t) PROVE HasLabel(code', NameOf(gen), t)
  <2>1. PICK b \in 1..Len(labels) : labels[b].k \in Loops /\ t = labels[b].start
    BY <1>8 DEF LoopStart
  <2>2. Len(labels) > 0
    BY <1>1, <2>1
  <2>3. HasLabel(code, NameOf(gen - 1), t)
    BY <2>1 DEF Shape
  <2> QED BY <1>1, <1>7, <2>2, <2>3
<1>9. ASSUME NEW l \in Elems(code)
      PROVE  LineFits(program, code', l) /\ Lands(program, labels', gen, code', l)
  <2>1. LineFits(program, code, l) /\ Lands(program, labels, gen - 1, code, l)
    BY DEF Shape
  <2>2. LineFits(program, code', l)
    BY <1>7, <2>1 DEF LineFits
  <2>3. CASE l.op \notin {"jmp", "je"} \/ HasLabel(code, l.fn, l.arg)
    BY <1>7, <2>2, <2>3 DEF Lands
  <2>4. CASE l.op \in {"jmp", "je"} /\ ~HasLabel(code, l.fn, l.arg)
    <3>1. l.fn = NameOf(gen - 1) /\ l.arg \in Pending(program, labels, gen - 1)
      BY <2>1, <2>4 DEF Lands, NameOf
    <3>2. Len(labels) > 0
      BY <1>1, <3>1 DEF Pending
    <3>3. l.fn = NameOf(gen)
      BY <1>1, <3>1, <3>2
    <3>4. l.arg \in Pending(program, labels', gen) \/ Line("label", l.arg) \in Elems(lines)
      BY <3>1 DEF Adds
    <3>5. Line("label", l.arg) \in Elems(lines) => HasLabel(code', l.fn, l.arg)
      BY <1>7, <3>3
    <3> QED BY <2>2, <3>3, <3>4, <3>5 DEF Lands, NameOf
  <2> QED BY <2>3, <2>4
<1>10. ASSUME NEW r \in Elems(lines), NEW l, l = LineRec(r, gen, NameOf(gen))
       PROVE  LineFits(program, code', l) /\ Lands(program, labels', gen, code', l)
  <2>1. l.op = r[1] /\ l.arg = r[2] /\ l.of = gen /\ l.fn = NameOf(gen)
    BY <1>10, RecIs
  <2>2. PairFits(lines, r) /\ PairLands(lines, r)
    BY DEF Adds
  <2>3. LineFits(program, code', l)
    BY <1>7, <2>1, <2>2 DEF LineFits, PairFits
  <2>4. Lands(program, labels', gen, code', l)
    BY <1>7, <1>8, <2>1, <2>2 DEF Lands, PairLands, NameOf
  <2> QED BY <2>3, <2>4
<1>11. \A l \in Elems(code') : LineFits(program, code', l) /\ Lands(program, labels', gen, code', l)
  BY <1>4, <1>9, <1>10
<1>12. \A b \in 1..Len(labels') :
         /\ LabelForm(labels'[b]) /\ (labels'[b].k = "fn" <=> b = 1)
         /\ labels'[b].k \in Loops => HasLabel(code', NameOf(gen), labels'[b].start)
  BY <1>7, <1>8 DEF Adds
<1>13. Len(labels') > 0 => Slots(env', FrameOf(program, LastFnOf(program, gen)))
  BY DEF Adds
<1>14. gen' - 1 = gen /\ program' = program
  BY <1>1
<1>15. \A i : NameOf(i)' = NameOf(i)
  BY DEF NameOf
<1>16. /\ \A l \in Elems(code') :
             LineFits(program', code', l) /\ Lands(program', labels', gen' - 1, code', l)
       /\ Len(labels') > 0 => Slots(env', FrameOf(program', LastFnOf(program', gen' - 1)))
  BY <1>11, <1>13, <1>14
<1>17. \A b \in 1..Len(labels') :
         /\ LabelForm(labels'[b]) /\ (labels'[b].k = "fn" <=> b = 1)
         /\ labels'[b].k \in Loops => HasLabel(code', program'[LastFnOf(program', gen' - 1)].name,
                                                labels'[b].start)
  BY <1>12, <1>14 DEF NameOf
<1> HIDE <1>14
<1> QED BY <1>5, <1>6, <1>16, <1>17 DEF Shape, NameOf
-----------------------------------------------------------------------------
(* What each action of the generator adds, in a program whose functions    *)
(* have a register for each parameter and that allocates nothing.          *)
NoAllocs == \A i \in 1..Len(program) : \A e \in PartsOf(program[i]) : ~IsAlloc(e)
Sound == GenContext /\ RegInv /\ Shape /\ NoAllocs /\ FewParameters

LEMMA NodeFew ==
  ASSUME Sound, Emitting
  PROVE  /\ \A e \in PartsOf(Node) : FewArgs(e)
         /\ NodeOK(program, gen)
<1>1. gen \in 1..Len(program) /\ diagnostics = << >>
  BY NodeFacts DEF Sound, GenContext, GenInv, Emitting, FrontEnd
<1>2. NodeOK(program, gen) /\ \A e \in PartsOf(Node) : UseOK(e, program, gen)
  BY <1>1 DEF Sound, GenContext, BodyInv, NodeOK, NoAllocs, Node
<1>3. ASSUME NEW f \in DOMAIN functions PROVE Len(functions[f].params) <= Len(Regs)
  <2>1. PICK i \in 1..Registered : functions[f] = Signature(items[i])
    BY DEF Sound, RegInv
  <2>2. i \in 1..Len(items) /\ i \in DOMAIN items
    BY ItemsFacts DEF Sound, GenContext, Registered, Emitting, SemaInv
  <2>3. Len(items[i].params) \in Nat
    BY <2>2, ItemsFacts DEF Sound, GenContext, IsHeader
  <2>4. Len(functions[f].params) = Len(items[i].params)
    BY <2>1, <2>3 DEF Signature
  <2> QED BY <2>2, <2>4 DEF Sound, FewParameters, GenContext, SemaInv, items
<1>4. ASSUME NEW e \in PartsOf(Node) PROVE FewArgs(e)
  <2>1. UseOK(e, program, gen)
    BY <1>2
  <2>2. e.k = "call" /\ e.callee # "io.write" =>
          e.callee \in DOMAIN functions /\ Len(e.args) = Len(functions[e.callee].params)
    BY <2>1 DEF UseOK, CallOK
  <2>3. e.k = "call" /\ e.callee = "io.write" => Len(e.args) = 3
    BY <2>1 DEF UseOK
  <2> QED BY <1>3, <2>2, <2>3 DEF FewArgs
<1> QED BY <1>2, <1>4

(* The lines that compute a value. *)
Value(s) == IsSeq(s) /\ Even(s) /\ \A l \in Elems(s) : l[1] \in LineOps

LEMMA NodeValue ==
  ASSUME Sound, Emitting, NEW e \in Expressions, PartsOf(Node) = SubExprs[e]
  PROVE  Value(emit_expr[e])
<1>1. Even(emit_expr[e])
  BY NodeFew, ExprEven
<1>2. emit_expr[e] \in LineSeqs
  BY ExprLines
<1>3. IsSeq(emit_expr[e])
  BY <1>2, IsSeqOf DEF LineSeqs
<1>4. Elems(emit_expr[e]) \subseteq Lines
  BY <1>2, ElemsEmpty DEF LineSeqs
<1> QED BY <1>1, <1>3, <1>4 DEF Value, Lines

LEMMA OneValue ==
  /\ Value(<<Line("imm", 0)>>)
  /\ Value(<< >>)
<1>1. Even(<<Line("imm", 0)>>)
  BY EvenLine DEF LineOps, Quiet
<1> PICK l : l = Line("imm", 0)
  OBVIOUS
<1>2. IsSeq(<<l>>) /\ Elems(<<l>>) = {l} /\ l[1] = "imm"
  BY FewLines, LineIs
<1>3. Even(<< >>)
  BY BalNone DEF Even
<1>4. "imm" \in LineOps
  BY DEF LineOps, Quiet
<1> QED BY <1>1, <1>2, <1>3, <1>4, FewLines DEF Value

LEMMA ValueFits ==
  ASSUME NEW s, Value(s), NEW l \in Elems(s), NEW lines
  PROVE  PairFits(lines, l) /\ PairLands(lines, l) /\ l[1] \notin Ends /\ l[1] # "label"
<1>1. l[1] \notin {"enter", "store", "spill", "jmp", "je", "ret", "exit", "label"}
  BY DEF Value, LineOps, Quiet
<1> QED BY <1>1 DEF PairFits, PairLands, Ends

(* A value and a line that works on it. *)
LEMMA ValueThen ==
  ASSUME NEW s, Value(s), NEW op, op \in {"store", "jmp", "je"}, NEW arg
  PROVE  /\ IsSeq(s \o <<Line(op, arg)>>)
         /\ Bal(s \o <<Line(op, arg)>>, 0, 0)
         /\ Elems(s \o <<Line(op, arg)>>) = Elems(s) \cup {Line(op, arg)}
<1>1. Fits(op, arg, 0) /\ Eff(op) = 0 /\ 0 + 0 = 0 /\ 0 \in Int /\ 0 \in Nat
  BY DEF Fits, Eff
<1>2. Bal(<<Line(op, arg)>>, 0, 0)
  <2>1. Bal(<<Line(op, arg)>>, 0, 0 + Eff(op))
    BY <1>1, BalOne
  <2> QED BY <1>1, <2>1
<1> PICK l : l = Line(op, arg)
  OBVIOUS
<1> PICK t : t = <<l>>
  OBVIOUS
<1>3. IsSeq(t) /\ Elems(t) = {l} /\ Bal(t, 0, 0) /\ IsSeq(s) /\ Bal(s, 0, 0)
  BY <1>1, <1>2, FewLines DEF Value, Even
<1>4. IsSeq(s \o t) /\ Bal(s \o t, 0, 0) /\ Elems(s \o t) = Elems(s) \cup Elems(t)
  BY ONLY <1>3, BalConcat, ConcatFacts
<1> QED BY <1>3, <1>4

(* Steps within the open blocks, and steps that open one. *)
InnerLines(lines) ==
  /\ IsSeq(lines) /\ Bal(lines, 0, 0)
  /\ \A l \in Elems(lines) : PairFits(lines, l) /\ PairLands(lines, l) /\ l[1] \notin Ends

LEMMA InnerOrdered ==
  ASSUME NEW lines, InnerLines(lines), NEW n \in Nat, n # 0, NEW m \in Nat, m # 0
  PROVE  LinesOrdered(lines, n, m) /\ Level(n) = 0 /\ Level(m) = 0
BY DEF InnerLines, LinesOrdered, Level, Elems

LEMMA AddsSame ==
  ASSUME Sound, Emitting, labels' = labels, env' = env,
         Node.k \notin Opening \cup {"fn", "else", "end"}, NEW lines, InnerLines(lines)
  PROVE  Adds(lines)
<1>1. /\ gen - 1 \in Nat /\ (gen - 1) + 1 = gen /\ IsSeq(labels) /\ Len(labels) \in Nat
      /\ Len(labels) # 0 /\ LastFnOf(program, gen) = LastFnOf(program, gen - 1)
  BY SameFunction DEF Sound
<1>2. Pending(program, labels, gen - 1) \subseteq Pending(program, labels', gen)
  <2> PICK g \in Nat : g = gen - 1 /\ g + 1 = gen
    BY <1>1
  <2>1. Pending(program, labels, g) \subseteq Pending(program, labels, g + 1)
    BY <1>1, PendingSame DEF Node
  <2> QED BY <2>1
<1>3. LinesOrdered(lines, Len(labels), Len(labels')) /\ Level(Len(labels)) = 0 /\ Level(Len(labels')) = 0
  BY <1>1, InnerOrdered
<1>4. \A b \in 1..Len(labels') :
        /\ LabelForm(labels'[b]) /\ (labels'[b].k = "fn" <=> b = 1)
        /\ labels'[b].k \in Loops => LoopStart(labels'[b].start)
  BY DEF Sound, Shape, LoopStart
<1>5. Slots(env', FrameOf(program, LastFnOf(program, gen)))
  BY <1>1 DEF Sound, Shape
<1> QED BY <1>1, <1>2, <1>3, <1>4, <1>5 DEF Adds, InnerLines

LEMMA AddsOpen ==
  ASSUME Sound, Emitting, env' = env, Node.k \in Opening,
         NEW r, labels' = Append(labels, r), LabelForm(r), r.k # "fn", NEW lines, InnerLines(lines),
         r.k \in Loops => Line("label", r.start) \in Elems(lines)
  PROVE  Adds(lines)
<1>1. /\ gen - 1 \in Nat /\ (gen - 1) + 1 = gen /\ IsSeq(labels) /\ Len(labels) \in Nat
      /\ Len(labels) # 0 /\ LastFnOf(program, gen) = LastFnOf(program, gen - 1)
  BY SameFunction DEF Sound, Opening
<1>2. /\ IsSeq(labels') /\ Len(labels') = Len(labels) + 1 /\ labels'[Len(labels) + 1] = r
      /\ \A i \in 1..Len(labels) : labels'[i] = labels[i]
  BY <1>1, AppendFacts
<1>3. Pending(program, labels, gen - 1) \subseteq Pending(program, labels', gen)
  <2> PICK g \in Nat : g = gen - 1 /\ g + 1 = gen
    BY <1>1
  <2>1. program[g + 1].k \in Opening
    BY DEF Node
  <2>2. Pending(program, labels, g) \subseteq Pending(program, labels', g + 1)
    BY <1>1, <2>1, PendingOpen
  <2> QED BY <2>2
<1>4. LinesOrdered(lines, Len(labels), Len(labels')) /\ Level(Len(labels)) = 0 /\ Level(Len(labels')) = 0
  BY <1>1, <1>2, InnerOrdered
<1>5. ASSUME NEW b \in 1..Len(labels')
      PROVE  /\ LabelForm(labels'[b]) /\ (labels'[b].k = "fn" <=> b = 1)
             /\ labels'[b].k \in Loops => \/ Line("label", labels'[b].start) \in Elems(lines)
                                          \/ LoopStart(labels'[b].start)
  <2>1. CASE b \in 1..Len(labels)
    BY <1>2, <2>1 DEF Sound, Shape, LoopStart
  <2>2. CASE b = Len(labels) + 1
    BY <1>1, <1>2, <2>2
  <2> QED BY <1>1, <1>2, <2>1, <2>2
<1>6. Slots(env', FrameOf(program, LastFnOf(program, gen)))
  BY <1>1 DEF Sound, Shape
<1> QED BY <1>1, <1>2, <1>3, <1>4, <1>5, <1>6 DEF Adds, InnerLines

Adding == \E lines : Adds(lines) /\ (Emit(lines) \/ (lines = << >> /\ code' = code))

LEMMA StoreAdds ==
  ASSUME Sound, EmitStore
  PROVE  Adding
<1> PICK s : s = emit_expr[Node.expr]
  OBVIOUS
<1> PICK l : l = Line("store", env[Node.name])
  OBVIOUS
<1>1. /\ Emitting /\ Node.k \in {"var", "assign"} /\ Emit(s \o <<l>>)
      /\ Step /\ env' = env /\ labels' = labels
  BY DEF EmitStore
<1>2. Value(s)
  BY <1>1, NodeFacts, NodeValue DEF Sound, GenContext
<1>3. /\ IsSeq(s \o <<l>>) /\ Bal(s \o <<l>>, 0, 0) /\ Elems(s \o <<l>>) = Elems(s) \cup {l}
      /\ l[1] = "store" /\ l[2] = env[Node.name]
  BY <1>2, ValueThen, LineIs
<1>4. Node.k \notin Opening \cup {"fn", "else", "end"}
  BY <1>1 DEF Opening
<1>5. /\ gen \in 1..Len(program) /\ Len(labels) > 0 /\ gen > 1
      /\ LastFnOf(program, gen) = LastFnOf(program, gen - 1) /\ FnFirst(program)
  BY <1>1, <1>4, SameFunction DEF Sound, GenContext, BodyInv
<1>6. Node.name \in LocalsOf(program, LastFnOf(program, gen))
  <2>1. CASE Node.k = "assign"
    BY <1>1, <2>1, NodeFew DEF NodeOK, Node
  <2>2. CASE Node.k = "var"
    <3> PICK f : f = LastFnOf(program, gen)
      OBVIOUS
    <3>1. f \in 1..gen /\ program[f].k = "fn" /\ program[gen].k = "var"
      BY <1>5, <2>2, LastFnFacts DEF Node
    <3>2. f # gen
      BY <3>1
    <3>3. gen \in {h \in (f + 1)..Len(program) : program[h].k = "var" /\ LastFnOf(program, h) = f}
      BY <1>5, <3>1, <3>2
    <3> QED BY <3>3 DEF LocalsOf, Node
  <2> QED BY <1>1, <2>1, <2>2
<1>7. env[Node.name] \in 1..FrameOf(program, LastFnOf(program, gen))
  <2>1. DOMAIN env = LocalsOf(program, LastFnOf(program, gen))
    BY <1>1, <1>5 DEF Sound, GenContext, GenInv, Emitting, FrontEnd
  <2>2. Slots(env, FrameOf(program, LastFnOf(program, gen)))
    BY <1>5 DEF Sound, Shape
  <2> QED BY <1>6, <2>1, <2>2 DEF Slots
<1>8. InnerLines(s \o <<l>>)
  <2>1. PairFits(s \o <<l>>, l) /\ PairLands(s \o <<l>>, l) /\ l[1] \notin Ends
    BY <1>3, <1>7 DEF PairFits, PairLands, Ends
  <2>2. \A x \in Elems(s) : PairFits(s \o <<l>>, x) /\ PairLands(s \o <<l>>, x) /\ x[1] \notin Ends
    BY <1>2, ValueFits
  <2> QED BY <1>3, <2>1, <2>2 DEF InnerLines
<1>9. Adds(s \o <<l>>)
  BY <1>1, <1>4, <1>8, AddsSame
<1> QED BY <1>1, <1>9 DEF Adding

(* The labels an action jumps to. *)
LEMMA FormOf ==
  ASSUME Sound, NEW b \in 1..Len(labels)
  PROVE  /\ LabelForm(labels[b]) /\ (labels[b].k = "fn" <=> b = 1)
         /\ labels[b].k # "unsafe" => labels[b].end \in Pending(program, labels, gen - 1)
         /\ labels[b].k \in Loops => LoopStart(labels[b].start)
BY DEF Sound, Shape, Pending, LoopStart

LEMMA JumpLine ==
  ASSUME Sound, Emitting, labels' = labels, Node.k \notin Opening \cup {"fn", "else", "end"},
         NEW op \in {"jmp", "je"}, NEW t, t[1] # "fn", NEW lines,
         LoopStart(t) \/ t \in Pending(program, labels, gen - 1)
  PROVE  PairFits(lines, Line(op, t)) /\ PairLands(lines, Line(op, t)) /\ Line(op, t)[1] \notin Ends
<1>1. /\ gen - 1 \in Nat /\ (gen - 1) + 1 = gen /\ IsSeq(labels)
  BY SameFunction DEF Sound
<1>2. Pending(program, labels, gen - 1) \subseteq Pending(program, labels', gen)
  <2> PICK g \in Nat : g = gen - 1 /\ g + 1 = gen
    BY <1>1
  <2>1. Pending(program, labels, g) \subseteq Pending(program, labels, g + 1)
    BY <1>1, PendingSame DEF Node
  <2> QED BY <2>1
<1> PICK l : l = Line(op, t)
  OBVIOUS
<1>3. l[1] = op /\ l[2] = t
  BY LineIs
<1>4. PairFits(lines, l) /\ PairLands(lines, l) /\ l[1] \notin Ends
  BY <1>2, <1>3 DEF PairFits, PairLands, Ends
<1> QED BY <1>4

LEMMA RetAdds ==
  ASSUME Sound, EmitRet
  PROVE  Adding
<1> PICK s : s = IF Has(Node, "expr") THEN emit_expr[Node.expr] ELSE <<Line("imm", 0)>>
  OBVIOUS
<1> PICK l : l = Line("jmp", labels[1].end)
  OBVIOUS
<1>1. Emitting /\ Node.k = "ret" /\ Emit(s \o <<l>>) /\ Step /\ env' = env /\ labels' = labels
  BY DEF EmitRet
<1>2. Value(s)
  BY <1>1, NodeFacts, NodeValue, OneValue DEF Sound, GenContext
<1>3. IsSeq(s \o <<l>>) /\ Bal(s \o <<l>>, 0, 0) /\ Elems(s \o <<l>>) = Elems(s) \cup {l}
  BY <1>2, ValueThen
<1>4. Node.k \notin Opening \cup {"fn", "else", "end"}
  BY <1>1 DEF Opening
<1>5. labels[1].end \in Pending(program, labels, gen - 1) /\ labels[1].end[1] # "fn"
  <2>1. 1 \in 1..Len(labels)
    BY <1>1, <1>4, SameFunction DEF Sound
  <2>2. labels[1].k = "fn"
    BY <2>1, FormOf
  <2> QED BY <2>1, <2>2, FormOf DEF LabelForm
<1>6. InnerLines(s \o <<l>>)
  <2>1. PairFits(s \o <<l>>, l) /\ PairLands(s \o <<l>>, l) /\ l[1] \notin Ends
    BY <1>1, <1>4, <1>5, JumpLine
  <2>2. \A x \in Elems(s) : PairFits(s \o <<l>>, x) /\ PairLands(s \o <<l>>, x) /\ x[1] \notin Ends
    BY <1>2, ValueFits
  <2> QED BY <1>3, <2>1, <2>2 DEF InnerLines
<1>7. Adds(s \o <<l>>)
  BY <1>1, <1>4, <1>6, AddsSame
<1> QED BY <1>1, <1>7 DEF Adding

LEMMA ValueInner ==
  ASSUME NEW s, Value(s)
  PROVE  InnerLines(s)
<1>1. \A x \in Elems(s) : PairFits(s, x) /\ PairLands(s, x) /\ x[1] \notin Ends
  BY ValueFits
<1>2. IsSeq(s) /\ Bal(s, 0, 0)
  BY DEF Value, Even
<1> QED BY <1>1, <1>2 DEF InnerLines

LEMMA ExprStmtAdds ==
  ASSUME Sound, EmitExprStmt
  PROVE  Adding
<1>1. /\ Emitting /\ Node.k = "expr" /\ Emit(emit_expr[Node.expr]) /\ env' = env /\ labels' = labels
  BY DEF EmitExprStmt
<1>2. InnerLines(emit_expr[Node.expr])
  BY <1>1, NodeFacts, NodeValue, ValueInner DEF Sound, GenContext
<1>3. Node.k \notin Opening \cup {"fn", "else", "end"}
  BY <1>1 DEF Opening
<1>4. Adds(emit_expr[Node.expr])
  BY <1>1, <1>2, <1>3, AddsSame
<1> QED BY <1>1, <1>4 DEF Adding

LEMMA JumpAdds ==
  ASSUME Sound, EmitJump
  PROVE  Adding
<1>1. Emitting /\ Node.k \in {"break", "continue"} /\ env' = env /\ labels' = labels
  BY DEF EmitJump
<1>2. IsSeq(labels) /\ Len(labels) \in Nat /\ DOMAIN labels = 1..Len(labels)
  BY <1>1, SameFunction, SeqFacts DEF Sound
<1>3. Node.k \notin Opening \cup {"fn", "else", "end"}
  BY <1>1 DEF Opening
<1> PICK loops : loops = {i \in DOMAIN labels : labels[i].k \in {"loop", "while"}}
  OBVIOUS
<1> PICK inner : inner = labels[Ext!Max(loops)]
  OBVIOUS
<1> PICK target : target = IF Node.k = "break" THEN inner.end ELSE inner.start
  OBVIOUS
<1>4. Emit(IF loops = {} THEN << >> ELSE <<Line("jmp", target)>>)
  BY DEF EmitJump
<1>5. CASE loops = {}
  <2>1. InnerLines(<< >>)
    BY OneValue, ValueInner
  <2>2. Adds(<< >>)
    BY <1>1, <1>3, <2>1, AddsSame
  <2> QED BY <1>4, <1>5, <2>2 DEF Adding
<1>6. CASE loops # {}
  <2>1. PICK b \in 1..Len(labels) : b = Ext!Max(loops) /\ labels[b].k \in Loops
    BY <1>2, <1>6, MaxFacts DEF Loops
  <2>2. /\ labels[b].k # "unsafe" /\ LabelForm(labels[b])
        /\ labels[b].end \in Pending(program, labels, gen - 1)
        /\ LoopStart(labels[b].start)
    BY <2>1, FormOf DEF Loops
  <2>3. target[1] # "fn" /\ (LoopStart(target) \/ target \in Pending(program, labels, gen - 1))
    BY <2>1, <2>2 DEF LabelForm, Loops
  <2> PICK l : l = Line("jmp", target)
    OBVIOUS
  <2>4. \A lines : PairFits(lines, l) /\ PairLands(lines, l) /\ l[1] \notin Ends
    BY <1>1, <1>3, <2>3, JumpLine
  <2>5. IsSeq(<<l>>) /\ Elems(<<l>>) = {l}
    BY FewLines
  <2>6. Bal(<<l>>, 0, 0)
    <3>1. Fits("jmp", target, 0) /\ Eff("jmp") = 0 /\ 0 + 0 = 0 /\ 0 \in Int
      BY DEF Fits, Eff
    <3>2. Bal(<<Line("jmp", target)>>, 0, 0 + Eff("jmp"))
      BY <3>1, BalOne, SMTT(40)
    <3> QED BY <3>1, <3>2
  <2>7. InnerLines(<<l>>)
    BY <2>4, <2>5, <2>6 DEF InnerLines
  <2>8. Adds(<<l>>)
    BY <1>1, <1>3, <2>7, AddsSame
  <2> QED BY <1>4, <1>6, <2>8 DEF Adding
<1> QED BY <1>5, <1>6

LEMMA LabelIs ==
  ASSUME NEW prefix, NEW id
  PROVE  Label(prefix, id)[1] = prefix
BY DEF Label

(* A block that is opened with its labels. *)
LEMMA OpensLabels ==
  ASSUME Sound, Emitting, Node.k \in {"if", "loop", "while"}, OpenLabels(Node.k),
         NEW start, start = Label(Node.k, labelId), NEW end, end = Label(Node.k, labelId + 1)
  PROVE  \E r : /\ labels' = Append(labels, r) /\ LabelForm(r) /\ r.k = Node.k
                /\ r.start = start /\ r.end = end /\ r.k # "fn" /\ Node.k \in Opening
                /\ start[1] # "fn" /\ end[1] # "fn"
                /\ end \in Pending(program, labels', gen)
                /\ Node.k = "if" /\ HasElse(gen) => start \in Pending(program, labels', gen)
<1> PICK k : k = Node.k
  OBVIOUS
<1> PICK r : r = [k |-> k, start |-> start, end |-> end]
  OBVIOUS
<1>1. /\ r.k = k /\ r.start = start /\ r.end = end /\ "start" \in DOMAIN r /\ "end" \in DOMAIN r
  OBVIOUS
<1>2. labels' = Append(labels, r)
  BY DEF OpenLabels
<1>3. k \notin {"fn", "unsafe"} /\ k \in Opening
  BY DEF Opening
<1>4. start[1] # "fn" /\ end[1] # "fn"
  BY <1>3, LabelIs
<1>5. LabelForm(r)
  BY <1>1, <1>4 DEF LabelForm
<1>6. /\ end \in Pending(program, labels', gen)
      /\ k = "if" /\ ElseOf(program, gen) => start \in Pending(program, labels', gen)
  <2>1. gen - 1 \in Nat /\ (gen - 1) + 1 = gen /\ IsSeq(labels)
    BY SameFunction DEF Sound
  <2> PICK g \in Nat : g = gen - 1 /\ g + 1 = gen
    BY <2>1
  <2>2. program[g + 1].k \in Opening
    BY <1>3 DEF Node
  <2>3. /\ r.k # "unsafe" => r.end \in Pending(program, labels', g + 1)
        /\ r.k = "if" /\ ElseOf(program, g + 1) => r.start \in Pending(program, labels', g + 1)
    BY <1>2, <2>1, <2>2, PendingOpen
  <2> QED BY <1>1, <1>3, <2>3
<1>7. HasElse(gen) => ElseOf(program, gen)
  BY DEF HasElse, ElseOf, Depth, DepthOf
<1> QED BY <1>1, <1>2, <1>3, <1>4, <1>5, <1>6, <1>7

LEMMA NextJump ==
  ASSUME NEW op \in {"jmp", "je"}, NEW t, t[1] # "fn", NEW lines, t \in Pending(program, labels', gen)
  PROVE  PairFits(lines, Line(op, t)) /\ PairLands(lines, Line(op, t)) /\ Line(op, t)[1] \notin Ends
<1> PICK l : l = Line(op, t)
  OBVIOUS
<1>1. l[1] = op /\ l[2] = t
  BY LineIs
<1>2. PairFits(lines, l) /\ PairLands(lines, l) /\ l[1] \notin Ends
  BY <1>1 DEF PairFits, PairLands, Ends
<1> QED BY <1>2

LEMMA LabelLine ==
  ASSUME NEW t, t[1] # "fn", NEW lines
  PROVE  /\ PairFits(lines, Line("label", t)) /\ PairLands(lines, Line("label", t))
         /\ Line("label", t)[1] \notin Ends
         /\ Bal(<<Line("label", t)>>, 0, 0)
<1> PICK l : l = Line("label", t)
  OBVIOUS
<1>1. l[1] = "label"
  BY LineIs
<1>2. PairFits(lines, l) /\ PairLands(lines, l) /\ l[1] \notin Ends
  BY <1>1 DEF PairFits, PairLands, Ends
<1>3. Fits("label", t, 0) /\ Eff("label") = 0 /\ 0 + 0 = 0 /\ 0 \in Int
  BY DEF Fits, Eff
<1>4. Bal(<<Line("label", t)>>, 0, 0 + Eff("label"))
  BY <1>3, BalOne
<1> QED BY <1>2, <1>3, <1>4

LEMMA IfAdds ==
  ASSUME Sound, EmitIf
  PROVE  Adding
<1>1. Emitting /\ Node.k = "if" /\ OpenLabels("if") /\ Step /\ env' = env
  BY DEF EmitIf
<1> PICK start, end : start = Label(Node.k, labelId) /\ end = Label(Node.k, labelId + 1)
  OBVIOUS
<1>2. PICK r : /\ labels' = Append(labels, r) /\ LabelForm(r) /\ r.k = Node.k
               /\ r.start = start /\ r.end = end /\ r.k # "fn" /\ Node.k \in Opening
               /\ start[1] # "fn" /\ end[1] # "fn"
               /\ end \in Pending(program, labels', gen)
               /\ Node.k = "if" /\ HasElse(gen) => start \in Pending(program, labels', gen)
  BY <1>1, OpensLabels
<1> PICK t : t = IF HasElse(gen) THEN start ELSE end
  OBVIOUS
<1> PICK s : s = emit_expr[Node.cond]
  OBVIOUS
<1> PICK l : l = Line("je", t)
  OBVIOUS
<1>3. Emit(s \o <<l>>)
  <2>1. t = Label("if", IF HasElse(gen) THEN labelId ELSE labelId + 1)
    BY <1>1
  <2> QED BY <2>1 DEF EmitIf
<1>4. Value(s)
  BY <1>1, NodeFacts, NodeValue DEF Sound, GenContext
<1>5. IsSeq(s \o <<l>>) /\ Bal(s \o <<l>>, 0, 0) /\ Elems(s \o <<l>>) = Elems(s) \cup {l}
  BY <1>4, ValueThen
<1>6. InnerLines(s \o <<l>>)
  <2>1. PairFits(s \o <<l>>, l) /\ PairLands(s \o <<l>>, l) /\ l[1] \notin Ends
    <3>1. t[1] # "fn" /\ t \in Pending(program, labels', gen)
      BY <1>1, <1>2
    <3> QED BY <3>1, NextJump
  <2>2. \A x \in Elems(s) : PairFits(s \o <<l>>, x) /\ PairLands(s \o <<l>>, x) /\ x[1] \notin Ends
    BY <1>4, ValueFits
  <2> QED BY <1>5, <2>1, <2>2 DEF InnerLines
<1>7. r.k \notin Loops
  BY <1>1, <1>2 DEF Loops
<1>8. Adds(s \o <<l>>)
  BY <1>1, <1>2, <1>6, <1>7, AddsOpen
<1> QED BY <1>3, <1>8 DEF Adding

LEMMA LoopAdds ==
  ASSUME Sound, EmitLoop
  PROVE  Adding
<1>1. Emitting /\ Node.k \in {"loop", "while"} /\ OpenLabels(Node.k) /\ Step /\ env' = env
  BY DEF EmitLoop
<1> PICK start, end : start = Label(Node.k, labelId) /\ end = Label(Node.k, labelId + 1)
  OBVIOUS
<1>2. PICK r : /\ labels' = Append(labels, r) /\ LabelForm(r) /\ r.k = Node.k
               /\ r.start = start /\ r.end = end /\ r.k # "fn" /\ Node.k \in Opening
               /\ start[1] # "fn" /\ end[1] # "fn"
               /\ end \in Pending(program, labels', gen)
  BY <1>1, OpensLabels
<1> PICK a : a = Line("label", start)
  OBVIOUS
<1> PICK s : s = <<a>>
  OBVIOUS
<1>3. IsSeq(s) /\ Elems(s) = {a} /\ Bal(s, 0, 0)
  BY <1>2, FewLines, LabelLine
<1>4. PICK t : /\ Emit(s \o t) /\ IsSeq(t) /\ Bal(t, 0, 0)
               /\ \A lines : \A x \in Elems(t) : PairFits(lines, x) /\ PairLands(lines, x) /\ x[1] \notin Ends
  <2>1. CASE Node.k = "loop"
    <3>1. Emit(s \o << >>)
      BY <2>1 DEF EmitLoop
    <3>2. IsSeq(<< >>) /\ Elems(<< >>) = {} /\ Bal(<< >>, 0, 0)
      BY FewLines, BalNone
    <3> QED BY <3>1, <3>2
  <2>2. CASE Node.k = "while"
    <3> PICK v : v = emit_expr[Node.cond]
      OBVIOUS
    <3> PICK l : l = Line("je", end)
      OBVIOUS
    <3>1. Value(v)
      BY <1>1, <2>2, NodeFacts, NodeValue DEF Sound, GenContext
    <3>2. IsSeq(v \o <<l>>) /\ Bal(v \o <<l>>, 0, 0) /\ Elems(v \o <<l>>) = Elems(v) \cup {l}
      BY <3>1, ValueThen
    <3>3. \A lines : PairFits(lines, l) /\ PairLands(lines, l) /\ l[1] \notin Ends
      BY <1>2, NextJump
    <3>4. \A lines : \A x \in Elems(v) : PairFits(lines, x) /\ PairLands(lines, x) /\ x[1] \notin Ends
      BY <3>1, ValueFits
    <3>5. Emit(s \o (v \o <<l>>))
      <4>1. end = Label("while", labelId + 1)
        BY <2>2
      <4> QED BY <2>2, <4>1 DEF EmitLoop
    <3> QED BY <3>2, <3>3, <3>4, <3>5
  <2> QED BY <1>1, <2>1, <2>2
<1>5. IsSeq(s \o t) /\ Bal(s \o t, 0, 0) /\ Elems(s \o t) = Elems(s) \cup Elems(t)
  BY ONLY <1>3, <1>4, BalConcat, ConcatFacts
<1>6. InnerLines(s \o t)
  <2>1. PairFits(s \o t, a) /\ PairLands(s \o t, a) /\ a[1] \notin Ends
    BY <1>2, LabelLine
  <2> QED BY <1>3, <1>4, <1>5, <2>1 DEF InnerLines
<1>7. Line("label", r.start) \in Elems(s \o t)
  BY <1>2, <1>3, <1>5
<1>8. Adds(s \o t)
  BY <1>1, <1>2, <1>6, <1>7, AddsOpen
<1> QED BY <1>4, <1>8 DEF Adding

LEMMA UnsafeAdds ==
  ASSUME Sound, EmitUnsafe
  PROVE  Adding
<1>1. /\ Emitting /\ Node.k = "unsafe" /\ Step /\ env' = env /\ code' = code
      /\ labels' = Append(labels, [k |-> "unsafe"])
  BY DEF EmitUnsafe
<1> PICK r : r = [k |-> "unsafe"]
  OBVIOUS
<1>2. LabelForm(r) /\ r.k # "fn" /\ r.k \notin Loops
  BY DEF LabelForm, Loops
<1>3. InnerLines(<< >>)
  BY OneValue, ValueInner
<1>4. Node.k \in Opening
  BY <1>1 DEF Opening
<1>5. Adds(<< >>)
  BY <1>1, <1>2, <1>3, <1>4, AddsOpen
<1> QED BY <1>1, <1>5 DEF Adding

LEMMA FlatBal ==
  ASSUME NEW op \in {"jmp", "je", "store", "spill", "imm"}, NEW arg
  PROVE  Bal(<<Line(op, arg)>>, 0, 0)
<1>1. Fits(op, arg, 0) /\ Eff(op) = 0 /\ 0 + 0 = 0 /\ 0 \in Int
  BY DEF Fits, Eff
<1>2. Bal(<<Line(op, arg)>>, 0, 0 + Eff(op))
  BY <1>1, BalOne
<1> QED BY <1>1, <1>2

LEMMA TwoBal ==
  ASSUME NEW l, NEW m, NEW a, NEW b, NEW c, Bal(<<l>>, a, b), Bal(<<m>>, b, c)
  PROVE  Bal(<<l, m>>, a, c)
<1> PICK s : s = <<l>>
  OBVIOUS
<1> PICK t : t = <<m>>
  OBVIOUS
<1>1. IsSeq(s) /\ IsSeq(t) /\ Bal(s, a, b) /\ Bal(t, b, c)
  BY FewLines
<1>2. Bal(s \o t, a, c)
  BY ONLY <1>1, BalConcat
<1>3. s \o t = <<l, m>>
  <2> PICK S : S = {l, m}
    OBVIOUS
  <2> PICK u : u = <<l, m>>
    OBVIOUS
  <2>1. s \in Seq(S) /\ t \in Seq(S) /\ u \in Seq(S) /\ Len(s) = 1 /\ Len(t) = 1 /\ Len(u) = 2
    OBVIOUS
  <2>2. s[1] = l /\ t[1] = m /\ u[1] = l /\ u[2] = m
    OBVIOUS
  <2>3. s \o t \in Seq(S) /\ Len(s \o t) = 2 /\ (s \o t)[1] = s[1] /\ (s \o t)[2] = t[1]
    <3>1. /\ s \o t \in Seq(S) /\ Len(s \o t) = Len(s) + Len(t)
          /\ \A i \in 1..Len(s) : (s \o t)[i] = s[i]
          /\ \A i \in 1..Len(t) : (s \o t)[Len(s) + i] = t[i]
      <4>1. s \in Seq(S) /\ t \in Seq(S)
        BY <2>1
      <4> QED BY ONLY <4>1
    <3>2. 1 \in 1..Len(s) /\ 1 \in 1..Len(t) /\ Len(s) + 1 = 2 /\ Len(s) + Len(t) = 2
      BY <2>1
    <3> QED BY <3>1, <3>2
  <2>4. \A i \in 1..Len(s \o t) : (s \o t)[i] = u[i]
    <3>1. \A i \in 1..2 : i = 1 \/ i = 2
      OBVIOUS
    <3> QED BY <2>2, <2>3, <3>1
  <2>5. Len(s \o t) = Len(u)
    BY <2>1, <2>3
  <2>6. s \o t = u
    BY ONLY <2>1, <2>3, <2>4, <2>5, SeqEqual
  <2> QED BY <2>6
<1> QED BY <1>2, <1>3

LEMMA ElseAdds ==
  ASSUME Sound, EmitElse
  PROVE  Adding
<1>1. /\ Emitting /\ Node.k = "else" /\ env' = env
      /\ labels' = Append(Below, [Top EXCEPT !.k = "else"])
      /\ Emit(<<Line("jmp", Top.end), Line("label", Top.start)>>)
  BY DEF EmitElse
<1>2. /\ Labelled(labels) /\ IsSeq(labels) /\ Len(labels) \in Nat /\ Len(labels) > 0 /\ labels # << >>
      /\ Top.k = "if"
  BY <1>1, LabelFacts, SeqFacts DEF Sound, GenContext
<1>3. /\ gen - 1 \in Nat /\ (gen - 1) + 1 = gen
      /\ LastFnOf(program, gen) = LastFnOf(program, gen - 1)
  BY <1>1, <1>2, SameFunction DEF Sound
<1> PICK n : n = Len(labels)
  OBVIOUS
<1> PICK r : r = [Top EXCEPT !.k = "else"]
  OBVIOUS
<1>4. n \in 1..n /\ n \in 1..Len(labels) /\ Top = labels[n]
  BY <1>2 DEF Top
<1>5. LabelForm(Top) /\ n # 1 /\ "k" \in DOMAIN Top
  <2>1. LabelForm(labels[n]) /\ (labels[n].k = "fn" <=> n = 1)
    BY <1>4, FormOf
  <2> QED BY <1>2, <1>4, <2>1 DEF Labelled, Elems
<1>6. "end" \in DOMAIN Top /\ Top.end[1] # "fn" /\ Top.start[1] # "fn"
  BY <1>2, <1>5 DEF LabelForm
<1>7. r.k = "else" /\ r.end = Top.end /\ "end" \in DOMAIN r
  BY <1>5, <1>6
<1>8. LabelForm(r)
  BY <1>6, <1>7 DEF LabelForm
<1>9. /\ IsSeq(labels') /\ Len(labels') = n /\ labels'[n] = r
      /\ \A i \in 1..(n - 1) : labels'[i] = labels[i]
  <2>1. IsSeq(Below) /\ Len(Below) = n - 1 /\ \A i \in 1..Len(Below) : Below[i] = labels[i]
    BY <1>2, FrontFacts DEF Below
  <2>2. labels' = Append(Below, r)
    BY <1>1
  <2>3. /\ IsSeq(Append(Below, r)) /\ Len(Append(Below, r)) = Len(Below) + 1
        /\ Append(Below, r)[Len(Below) + 1] = r
        /\ \A i \in 1..Len(Below) : Append(Below, r)[i] = Below[i]
    BY <2>1, AppendFacts
  <2>4. Len(Below) + 1 = n
    BY <1>2, <2>1
  <2> HIDE DEF Below
  <2> QED BY <2>1, <2>2, <2>3, <2>4
<1>10. /\ \A x \in Pending(program, labels, gen - 1) : x \in Pending(program, labels', gen) \/ x = Top.start
       /\ Top.end \in Pending(program, labels', gen)
  <2> PICK g \in Nat : g = gen - 1 /\ g + 1 = gen
    BY <1>3
  <2>1. program[g + 1].k = "else"
    BY <1>1 DEF Node
  <2>2. r.end = labels[Len(labels)].end /\ Len(labels') = Len(labels) /\ labels'[Len(labels)] = r
        /\ \A i \in 1..(Len(labels) - 1) : labels'[i] = labels[i]
    BY <1>4, <1>7, <1>9
  <2>3. /\ Pending(program, labels, g) \subseteq Pending(program, labels', g + 1) \cup {labels[Len(labels)].start}
        /\ labels[Len(labels)].end \in Pending(program, labels', g + 1)
    BY <1>2, <1>7, <1>9, <2>1, <2>2, PendingElse
  <2> QED BY <1>4, <2>3
<1> PICK a : a = Line("jmp", Top.end)
  OBVIOUS
<1> PICK b : b = Line("label", Top.start)
  OBVIOUS
<1> PICK lines : lines = <<a, b>>
  OBVIOUS
<1>11. IsSeq(lines) /\ Elems(lines) = {a, b} /\ Bal(lines, 0, 0)
  <2>1. Bal(<<a>>, 0, 0) /\ Bal(<<b>>, 0, 0)
    BY <1>6, FlatBal, LabelLine
  <2> QED BY <2>1, TwoBal, FewLines
<1>12. InnerLines(lines)
  <2>1. PairFits(lines, a) /\ PairLands(lines, a) /\ a[1] \notin Ends
    BY <1>6, <1>10, NextJump
  <2>2. PairFits(lines, b) /\ PairLands(lines, b) /\ b[1] \notin Ends
    BY <1>6, LabelLine
  <2> QED BY <1>11, <2>1, <2>2 DEF InnerLines
<1>13. LinesOrdered(lines, Len(labels), Len(labels')) /\ Level(Len(labels)) = 0 /\ Level(Len(labels')) = 0
  BY <1>2, <1>9, <1>12, InnerOrdered
<1>14. ASSUME NEW i \in 1..Len(labels')
       PROVE  /\ LabelForm(labels'[i]) /\ (labels'[i].k = "fn" <=> i = 1)
              /\ labels'[i].k \in Loops => LoopStart(labels'[i].start)
  <2>1. CASE i = n
    BY <1>5, <1>7, <1>8, <1>9, <2>1 DEF Loops
  <2>2. CASE i # n
    <3>1. i \in 1..(n - 1) /\ i \in 1..Len(labels)
      BY <1>2, <1>9, <2>2
    <3>2. labels'[i] = labels[i]
      BY <1>9, <3>1
    <3>3. /\ LabelForm(labels[i]) /\ (labels[i].k = "fn" <=> i = 1)
          /\ labels[i].k \in Loops => LoopStart(labels[i].start)
      BY <3>1, FormOf
    <3> QED BY <3>2, <3>3
  <2> QED BY <2>1, <2>2
<1>15. Slots(env', FrameOf(program, LastFnOf(program, gen)))
  BY <1>1, <1>2, <1>3 DEF Sound, Shape
<1>16. \A t \in Pending(program, labels, gen - 1) :
         t \in Pending(program, labels', gen) \/ Line("label", t) \in Elems(lines)
  BY <1>10, <1>11
<1>17. Adds(lines)
  BY <1>9, <1>12, <1>13, <1>14, <1>15, <1>16 DEF Adds, InnerLines
<1> QED BY <1>1, <1>17 DEF Adding

(* The end of a block but for the function: lines with its label. *)
LEMMA AddsEnd ==
  ASSUME Sound, Emitting, Node.k = "end", labels' = Below, env' = env, Top.k # "fn",
         NEW lines, InnerLines(lines), Top.k # "unsafe" => Line("label", Top.end) \in Elems(lines)
  PROVE  Adds(lines)
<1>1. /\ IsSeq(labels) /\ Len(labels) \in Nat /\ Len(labels) > 0 /\ labels # << >>
      /\ gen - 1 \in Nat /\ (gen - 1) + 1 = gen
      /\ LastFnOf(program, gen) = LastFnOf(program, gen - 1)
  BY SameFunction, SeqFacts DEF Sound
<1>2. /\ IsSeq(labels') /\ Len(labels') = Len(labels) - 1 /\ \A i \in 1..Len(labels') : labels'[i] = labels[i]
  BY <1>1, FrontFacts DEF Below
<1>3. Len(labels) # 1
  <2>1. Len(labels) \in 1..Len(labels)
    BY <1>1
  <2> QED BY <2>1, FormOf DEF Top
<1>4. \A x \in Pending(program, labels, gen - 1) :
        x \in Pending(program, labels', gen) \/ (Top.k # "unsafe" /\ x = Top.end)
  <2> PICK g \in Nat : g = gen - 1 /\ g + 1 = gen
    BY <1>1
  <2>1. program[g + 1].k = "end"
    BY DEF Node
  <2> PICK t : t = labels'
    OBVIOUS
  <2>2. IsSeq(t) /\ Len(t) = Len(labels) - 1 /\ \A i \in 1..Len(t) : t[i] = labels[i]
    BY <1>2
  <2>3. \A x \in Pending(program, labels, g) :
          \/ x \in Pending(program, t, g + 1)
          \/ labels[Len(labels)].k # "unsafe" /\ x = labels[Len(labels)].end
    BY ONLY g \in Nat, <1>1, <2>1, <2>2, PendingEnd, ZenonT(60)
  <2> QED BY <2>3 DEF Top
<1>5. LinesOrdered(lines, Len(labels), Len(labels')) /\ Level(Len(labels)) = 0 /\ Level(Len(labels')) = 0
  BY <1>1, <1>2, <1>3, InnerOrdered
<1>6. \A b \in 1..Len(labels') :
        /\ LabelForm(labels'[b]) /\ (labels'[b].k = "fn" <=> b = 1)
        /\ labels'[b].k \in Loops => LoopStart(labels'[b].start)
  <2>1. \A b \in 1..Len(labels') : b \in 1..Len(labels)
    BY <1>1, <1>2
  <2> QED BY <1>2, <2>1, FormOf
<1>7. Slots(env', FrameOf(program, LastFnOf(program, gen)))
  BY <1>1 DEF Sound, Shape
<1> QED BY <1>2, <1>4, <1>5, <1>6, <1>7 DEF Adds, InnerLines

LEMMA ReturnBal ==
  ASSUME NEW a, NEW b, NEW c, a[1] = "label", a[2][1] # "fn", b[1] = "leave", c[1] = "ret"
  PROVE  Bal(<<a, b, c>>, 0, -1)
<1> PICK s : s = <<a, b, c>>
  OBVIOUS
<1>1. Len(s) = 3 /\ s[1] = a /\ s[2] = b /\ s[3] = c
  OBVIOUS
<1> PICK x : x = [i \in 1..4 |-> IF i <= 2 THEN 0 ELSE -1]
  OBVIOUS
<1>2. x \in [1..4 -> Int] /\ x[1] = 0 /\ x[2] = 0 /\ x[3] = -1 /\ x[4] = -1
  OBVIOUS
<1>4. StepsTo(a[1], a[2], 0, 0) /\ StepsTo(b[1], b[2], 0, -1) /\ StepsTo(c[1], c[2], -1, -1)
  BY DEF StepsTo, Fits, Eff
<1>5. ASSUME NEW i \in 1..3 PROVE StepsTo(s[i][1], s[i][2], x[i], x[i + 1])
  <2>1. i = 1 \/ i = 2 \/ i = 3
    OBVIOUS
  <2>2. 1 + 1 = 2 /\ 2 + 1 = 3 /\ 3 + 1 = 4
    OBVIOUS
  <2> QED BY <1>1, <1>2, <1>4, <2>1, <2>2
<1>6. Bal(s, 0, -1)
  <2>1. 3 + 1 = 4
    OBVIOUS
  <2>2. IsDepths(s, x)
    BY <1>1, <1>2, <1>5, <2>1 DEF IsDepths
  <2> QED BY <1>1, <1>2, <2>1, <2>2 DEF Bal
<1> QED BY <1>6

(* The end of the function. *)
LEMMA ReturnAdds ==
  ASSUME Sound, EmitEnd, Top.k = "fn"
  PROVE  Adding
<1>1. Emitting /\ Node.k = "end" /\ labels' = Below
  BY DEF EmitEnd
<1> PICK s : s = IF FnOf(gen).ret = "void" THEN <<Line("imm", 0)>> ELSE << >>
  OBVIOUS
<1>7. PICK a, b, c : /\ Emit(s \o <<a, b, c>>) /\ a = Line("label", Top.end)
                     /\ a[1] = "label" /\ b[1] = "leave" /\ c[1] = "ret" /\ a[2] = Top.end
  <2> DEFINE a == Line("label", Top.end)
             b == Line("leave", "")
             c == Line("ret", "")
  <2>1. Emit(s \o <<a, b, c>>)
    BY DEF EmitEnd
  <2>2. a[1] = "label" /\ b[1] = "leave" /\ c[1] = "ret" /\ a[2] = Top.end
    BY LineIs, ZenonT(60)
  <2>3. a = Line("label", Top.end)
    OBVIOUS
  <2> HIDE DEF a, b, c
  <2> QED BY <2>1, <2>2, <2>3
<1> PICK t : t = <<a, b, c>>
  OBVIOUS
<1>2. Emit(s \o t)
  BY <1>7
<1>3. Value(s)
  BY OneValue
<1>4. /\ IsSeq(labels) /\ Len(labels) \in Nat /\ Len(labels) > 0 /\ labels # << >>
      /\ gen - 1 \in Nat /\ (gen - 1) + 1 = gen
  BY <1>1, SameFunction, SeqFacts DEF Sound
<1>5. Len(labels) = 1 /\ Top.end[1] # "fn"
  <2>1. Len(labels) \in 1..Len(labels)
    BY <1>4
  <2> QED BY <2>1, FormOf DEF Top, LabelForm
<1>6. IsSeq(labels') /\ Len(labels') = 0
  <2> PICK q : q = labels'
    OBVIOUS
  <2>1. q = SubSeq(labels, 1, Len(labels) - 1)
    BY <1>1 DEF Below
  <2>2. IsSeq(q) /\ Len(q) = Len(labels) - 1
    BY ONLY <1>4, <2>1, FrontFacts
  <2> QED BY <1>5, <2>2
<1>8. IsSeq(t) /\ Elems(t) = {a, b, c} /\ Bal(t, 0, -1)
  BY <1>5, <1>7, FewLines, ReturnBal
<1>9. Len(t) = 3 /\ t[1] = a /\ t[2] = b /\ t[3] = c
  OBVIOUS
<1>10. IsSeq(s) /\ Len(s) \in Nat /\ Bal(s, 0, 0)
  BY <1>3, SeqFacts DEF Value, Even
<1>11. /\ IsSeq(s \o t) /\ Bal(s \o t, 0, -1) /\ Elems(s \o t) = Elems(s) \cup Elems(t)
       /\ Len(s \o t) = Len(s) + Len(t)
       /\ \A i \in 1..Len(s) : (s \o t)[i] = s[i]
       /\ \A i \in 1..Len(t) : (s \o t)[Len(s) + i] = t[i]
  <2>1. \A i \in 1..Len(s) : (s \o t)[i] = s[i]
    BY <1>8, <1>10 DEF IsSeq
  <2>2. \A i \in 1..Len(t) : (s \o t)[Len(s) + i] = t[i]
    BY <1>8, <1>10 DEF IsSeq
  <2> QED BY ONLY <1>8, <1>10, <2>1, <2>2, BalConcat, ConcatFacts
<1> PICK lines : lines = s \o t
  OBVIOUS
<1>12. LinesOrdered(lines, 1, 0)
  <2>1. ASSUME NEW i \in 1..Len(lines), lines[i][1] \in Ends PROVE i = Len(lines)
    <3>1. CASE i \in 1..Len(s)
      <4>1. lines[i] = s[i] /\ s[i] \in Elems(s)
        BY <1>11, <3>1 DEF Elems
      <4> QED BY <1>3, <2>1, <4>1, ValueFits
    <3>2. CASE i \notin 1..Len(s)
      <4>1. i - Len(s) \in 1..3 /\ i = Len(s) + (i - Len(s))
        BY <1>9, <1>10, <1>11, <3>2
      <4>2. PICK j \in 1..3 : i = Len(s) + j
        BY <4>1
      <4>3. lines[i] = t[j]
        BY <1>9, <1>11, <4>2
      <4>4. j = 3
        <5>1. j = 1 \/ j = 2 \/ j = 3
          OBVIOUS
        <5> QED BY <1>7, <1>9, <2>1, <4>3, <5>1 DEF Ends
      <4> QED BY <1>9, <1>10, <1>11, <4>2, <4>4
    <3> QED BY <3>1, <3>2
  <2>2. lines # << >> /\ lines[Len(lines)][1] = "ret"
    <3>1. Len(lines) = Len(s) + 3 /\ 3 \in 1..Len(t) /\ Len(lines) # 0
      BY <1>9, <1>10, <1>11
    <3>2. lines[Len(lines)] = c
      BY <1>9, <1>11, <3>1
    <3> QED BY <1>7, <1>11, <3>1, <3>2, SeqFacts
  <2> QED BY <2>1, <2>2 DEF LinesOrdered, Ends
<1>13. ASSUME NEW l \in Elems(lines) PROVE PairFits(lines, l) /\ PairLands(lines, l)
  <2>1. CASE l \in Elems(s)
    BY <1>3, <2>1, ValueFits
  <2>2. CASE l \in {a, b, c}
    <3>1. l[1] \in {"label", "leave", "ret"}
      BY <1>7, <2>2
    <3> QED BY <3>1 DEF PairFits, PairLands
  <2> QED BY <1>8, <1>11, <2>1, <2>2
<1>14. \A x \in Pending(program, labels, gen - 1) : Line("label", x) \in Elems(lines)
  <2> PICK g \in Nat : g = gen - 1 /\ g + 1 = gen
    BY <1>4
  <2>1. program[g + 1].k = "end"
    BY <1>1 DEF Node
  <2>2. Len(labels') = Len(labels) - 1 /\ \A i \in 1..Len(labels') : labels'[i] = labels[i]
    BY <1>5, <1>6
  <2> PICK q : q = labels'
    OBVIOUS
  <2>6. IsSeq(q) /\ Len(q) = Len(labels) - 1 /\ \A i \in 1..Len(q) : q[i] = labels[i]
    BY <1>6, <2>2
  <2>3. \A x \in Pending(program, labels, g) :
          \/ x \in Pending(program, q, g + 1)
          \/ labels[Len(labels)].k # "unsafe" /\ x = labels[Len(labels)].end
    BY ONLY g \in Nat, <1>4, <2>1, <2>6, PendingEnd, ZenonT(60)
  <2>4. Pending(program, q, g + 1) = {}
    BY <1>6 DEF Pending
  <2>5. Line("label", Top.end) \in Elems(lines)
    BY <1>7, <1>8, <1>11
  <2> QED BY <2>3, <2>4, <2>5 DEF Top
<1>15. Level(Len(labels)) = 0 /\ Level(Len(labels')) = -1
  BY <1>5, <1>6 DEF Level
<1>16. Adds(lines)
  <2>1. IsSeq(lines) /\ Bal(lines, Level(Len(labels)), Level(Len(labels')))
    BY <1>11, <1>15
  <2>2. LinesOrdered(lines, Len(labels), Len(labels')) /\ 1..Len(labels') = {} /\ ~(Len(labels') > 0)
    <3>1. 1..0 = {} /\ ~(0 > 0)
      OBVIOUS
    <3>2. Len(labels) = 1 /\ Len(labels') = 0
      BY <1>5, <1>6
    <3> QED BY ONLY <1>12, <3>1, <3>2, Zenon
  <2> QED BY <1>6, <1>13, <1>14, <2>1, <2>2 DEF Adds
<1> QED BY <1>2, <1>16 DEF Adding

LEMMA EndAdds ==
  ASSUME Sound, EmitEnd
  PROVE  Adding
<1>1. Emitting /\ Node.k = "end" /\ env' = env /\ labels' = Below
  BY DEF EmitEnd
<1>2. Labelled(labels) /\ Len(labels) > 0 /\ IsSeq(labels) /\ Len(labels) \in Nat
  BY <1>1, LabelFacts DEF Sound, GenContext
<1>3. /\ Top.k \in BlockKinds /\ LabelForm(Top) /\ (Top.k \in Loops => LoopStart(Top.start))
  <2>1. Len(labels) \in 1..Len(labels)
    BY <1>2
  <2> QED BY <1>2, <2>1, FormOf DEF Labelled, Top, Elems
<1> PICK a : a = Line("label", Top.end)
  OBVIOUS
<1>4. CASE Top.k = "fn"
  BY <1>4, ReturnAdds
<1>5. CASE Top.k = "unsafe"
  <2>1. Emit(<< >>)
    BY <1>5 DEF EmitEnd
  <2>2. Adds(<< >>)
    BY <1>1, <1>5, OneValue, ValueInner, AddsEnd
  <2> QED BY <2>1, <2>2 DEF Adding
<1>6. CASE Top.k \notin {"fn", "unsafe"}
  <2>1. Top.end[1] # "fn"
    BY <1>3, <1>6 DEF LabelForm
  <2>2. \A lines : PairFits(lines, a) /\ PairLands(lines, a) /\ a[1] \notin Ends
    BY <2>1, LabelLine
  <2>3. Bal(<<a>>, 0, 0)
    BY <2>1, LabelLine
  <2>4. CASE Top.k = "else"
    <3>1. Emit(<<a>>)
      BY <2>4 DEF EmitEnd
    <3>2. IsSeq(<<a>>) /\ Elems(<<a>>) = {a}
      BY FewLines
    <3>3. InnerLines(<<a>>)
      BY <2>2, <2>3, <3>2 DEF InnerLines
    <3>4. Adds(<<a>>)
      BY <1>1, <2>4, <3>2, <3>3, AddsEnd
    <3> QED BY <3>1, <3>4 DEF Adding
  <2>5. CASE Top.k # "else"
    <3> PICK t : t = IF Top.k = "if" THEN Top.end ELSE Top.start
      OBVIOUS
    <3> PICK j : j = Line("jmp", t)
      OBVIOUS
    <3> PICK lines : lines = <<j, a>>
      OBVIOUS
    <3>1. Emit(lines)
      BY <1>3, <1>6, <2>5 DEF EmitEnd, BlockKinds
    <3>2. IsSeq(lines) /\ Elems(lines) = {j, a} /\ Bal(lines, 0, 0)
      BY <2>3, FlatBal, TwoBal, FewLines
    <3>3. /\ Top.k # "if" => Top.k \in Loops
          /\ Top.k = "if" => t = Top.end
          /\ Top.k # "if" => t = Top.start
      BY <1>3, <1>6, <2>5 DEF BlockKinds, Loops
    <3>4. t[1] # "fn" /\ (LoopStart(t) \/ Line("label", t) \in Elems(lines))
      BY <1>3, <1>6, <2>1, <3>2, <3>3 DEF LabelForm, Loops
    <3>5. j[1] = "jmp" /\ j[2] = t
      BY LineIs
    <3>6. PairFits(lines, j) /\ PairLands(lines, j) /\ j[1] \notin Ends
      BY <3>4, <3>5 DEF PairFits, PairLands, Ends
    <3>7. InnerLines(lines)
      BY <2>2, <3>2, <3>6 DEF InnerLines
    <3>8. Adds(lines)
      BY <1>1, <1>6, <3>2, <3>7, AddsEnd
    <3> QED BY <3>1, <3>8 DEF Adding
  <2> QED BY <2>4, <2>5
<1> QED BY <1>4, <1>5, <1>6

(* Every name of a function has a slot in its frame. *)
LEMMA LeastInt ==
  ASSUME NEW S \in SUBSET Int, S # {}, NEW low \in Int, \A x \in S : low <= x
  PROVE  Ext!Min(S) \in S
<1> PICK T : T = {x - low : x \in S}
  OBVIOUS
<1>1. T \in SUBSET Nat /\ T # {}
  <2>1. ASSUME NEW x \in S PROVE x - low \in Nat
    <3>1. x \in Int /\ low <= x
      OBVIOUS
    <3> QED BY <3>1
  <2> QED BY <2>1
<1>2. PICK m \in T : \A k \in T : m <= k
  BY <1>1, LeastOf
<1>3. m + low \in S /\ \A x \in S : m + low <= x
  <2>1. PICK y \in S : m = y - low
    BY <1>2
  <2>2. \A x \in S : x - low \in T
    OBVIOUS
  <2>3. m + low = y
    BY <2>1
  <2>4. ASSUME NEW x \in S PROVE m + low <= x
    <3>1. m <= x - low
      BY <1>2, <2>2
    <3> QED BY <2>1, <3>1
  <2> QED BY <2>3, <2>4
<1>4. \E x \in S : \A y \in S : x <= y
  BY <1>3
<1> QED BY <1>4 DEF Ext!Min

LEMMA ImageFinite ==
  ASSUME NEW S, IsFiniteSet(S), NEW f, NEW T, T = {f[x] : x \in S}
  PROVE  IsFiniteSet(T)
<1> PICK g : g = [x \in S |-> f[x]]
  OBVIOUS
<1>1. g \in Surjection(S, T)
  BY DEF Surjection
<1> QED BY <1>1, FS_Surjection

LEMMA LocalsFinite ==
  ASSUME NEW i \in Nat, Len(program[i].params) \in Nat, Len(program) \in Nat
  PROVE  IsFiniteSet(LocalsOf(program, i)) /\ FrameOf(program, i) \in Nat
<1> PICK a, b : /\ a = [m \in 1..Len(program[i].params) |-> program[i].params[m].name]
                /\ b = [j \in 1..Len(program) |-> program[j].name]
  OBVIOUS
<1> PICK P, B : /\ P = 1..Len(program[i].params)
                /\ B = {h \in (i + 1)..Len(program) : program[h].k = "var" /\ LastFnOf(program, h) = i}
  OBVIOUS
<1> PICK X, Y : X = {a[m] : m \in P} /\ Y = {b[j] : j \in B}
  OBVIOUS
<1>1. IsFiniteSet(P)
  <2>1. 1 \in Int /\ Len(program[i].params) \in Int
    OBVIOUS
  <2> QED BY <2>1, FS_Interval
<1>2. IsFiniteSet(B)
  <2> PICK C : C = (i + 1)..Len(program)
    OBVIOUS
  <2>1. i + 1 \in Int /\ Len(program) \in Int /\ B \in SUBSET C
    OBVIOUS
  <2>2. IsFiniteSet(C)
    BY <2>1, FS_Interval
  <2> QED BY <2>1, <2>2, FS_Subset
<1>3. IsFiniteSet(X) /\ IsFiniteSet(Y)
  BY ONLY <1>1, <1>2, X = {a[m] : m \in P} /\ Y = {b[j] : j \in B}, ImageFinite
<1>4. B \subseteq 1..Len(program)
  OBVIOUS
<1>5. LocalsOf(program, i) = X \cup Y
  BY <1>4 DEF LocalsOf
<1>6. IsFiniteSet(X \cup Y)
  BY ONLY <1>3, FS_Union, Zenon
<1>7. FrameOf(program, i) \in Nat
  BY <1>5, <1>6, FS_CardinalityType DEF FrameOf, align16
<1> QED BY <1>5, <1>6, <1>7

LEMMA LocalsSlots ==
  ASSUME NEW i \in Nat, Len(program[i].params) \in Nat, Len(program) \in Nat
  PROVE  Slots(collect_locals(i), FrameOf(program, i))
<1> DEFINE params == program[i].params
           body == {j \in (i + 1)..Len(program) : program[j].k = "var" /\ LastFn(j) = i}
           early == {<<params[p].name, p - Len(params)>> : p \in 1..Len(params)}
           late == {<<program[j].name, j>> : j \in body}
           declared == early \cup late
           names == {d[1] : d \in declared}
           first == [n \in names |-> Ext!Min({d[2] : d \in {c \in declared : c[1] = n}})]
           upto(n) == {m \in names : first[m] <= first[n]}
<1>1. collect_locals(i) = [n \in names |-> Cardinality(upto(n))]
  BY DEF collect_locals
<1>2. names = LocalsOf(program, i)
  BY <1>1, ProgramNames
<1>3. \A d \in declared : d[2] \in Int /\ 0 - Len(params) <= d[2]
  <2>1. \A d \in early : d[2] \in Int /\ 0 - Len(params) <= d[2]
    OBVIOUS
  <2>2. \A d \in late : d[2] \in Int /\ 0 - Len(params) <= d[2]
    OBVIOUS
  <2> QED BY <2>1, <2>2
<1>4. IsFiniteSet(names)
  BY <1>2, LocalsFinite
<1>5. ASSUME NEW n \in names PROVE first[n] \in Int
  <2> PICK S : S = {d[2] : d \in {c \in declared : c[1] = n}}
    OBVIOUS
  <2>1. S \in SUBSET Int /\ \A x \in S : 0 - Len(params) <= x
    BY <1>3
  <2>2. S # {}
    OBVIOUS
  <2>3. 0 - Len(params) \in Int
    OBVIOUS
  <2>4. Ext!Min(S) \in S
    BY <2>1, <2>2, <2>3, LeastInt
  <2>5. first[n] = Ext!Min(S)
    OBVIOUS
  <2> QED BY <2>1, <2>4, <2>5
<1>6. ASSUME NEW n \in names PROVE Cardinality(upto(n)) \in 1..Cardinality(names)
  <2> HIDE DEF names, first
  <2>1. n \in upto(n)
    <3>1. first[n] <= first[n]
      BY <1>5
    <3> QED BY <3>1
  <2>2. upto(n) \subseteq names
    OBVIOUS
  <2> HIDE DEF upto
  <2> PICK U : U = upto(n)
    OBVIOUS
  <2>3. IsFiniteSet(U) /\ Cardinality(U) <= Cardinality(names)
    BY <1>4, <2>2, FS_Subset
  <2>4. Cardinality(U) \in Nat /\ Cardinality(names) \in Nat /\ Cardinality(U) # 0
    BY <1>4, <2>1, <2>3, FS_CardinalityType, FS_EmptySet
  <2> QED BY <2>3, <2>4
<1>7. FrameOf(program, i) \in Nat /\ FrameOf(program, i) >= Cardinality(names)
  <2>1. Cardinality(names) \in Nat
    BY <1>4, FS_CardinalityType
  <2> HIDE DEF names
  <2> QED BY <1>2, <2>1 DEF FrameOf, align16
<1> HIDE DEF names, upto
<1>8. Cardinality(names) \in Nat
  BY <1>4, FS_CardinalityType
<1> QED BY <1>1, <1>6, <1>7, <1>8 DEF Slots

LEMMA FnAdds ==
  ASSUME Sound, emit_fn
  PROVE  Adding
<1>1. /\ Emitting /\ Node.k = "fn" /\ env' = collect_locals(gen)
      /\ labels' = <<[k |-> "fn", end |-> Label("fn_end", labelId)]>>
  BY DEF emit_fn
<1>2. Len(Node.params) \in Nat /\ gen \in Nat /\ gen \in 1..Len(program)
  BY <1>1, NodeFacts DEF Sound, GenContext
<1>3. Len(labels) = 0 /\ LastFnOf(program, gen) = gen /\ NameOf(gen) = Node.name
  BY <1>1, SameFunction DEF Sound, NameOf, Node
<1> PICK r : r = [k |-> "fn", end |-> Label("fn_end", labelId)]
  OBVIOUS
<1>4. /\ IsSeq(labels') /\ Len(labels') = 1 /\ labels'[1] = r
      /\ LabelForm(r) /\ r.k = "fn" /\ r.k \notin Loops
  <2> PICK q : q = <<r>>
    OBVIOUS
  <2>1. Len(q) = 1 /\ q[1] = r /\ IsSeq(q)
    BY FewLines
  <2>2. "end" \in DOMAIN r /\ r.end = Label("fn_end", labelId) /\ r.k = "fn"
    OBVIOUS
  <2>3. r.end[1] # "fn"
    BY <2>2, LabelIs
  <2> QED BY <1>1, <2>1, <2>2, <2>3 DEF LabelForm, Loops
<1> PICK frame : frame = FrameOf(program, gen)
  OBVIOUS
<1>5. /\ DOMAIN env' = LocalsOf(program, gen) /\ Slots(env', frame)
      /\ align16(Cardinality(DOMAIN env')) = frame
  <2>1. DOMAIN env' = LocalsOf(program, gen)
    BY <1>1, ProgramNames
  <2>2. Len(program) \in Nat
    BY SeqFacts DEF Sound, GenContext, BodyInv, FnFirst
  <2>3. Slots(collect_locals(gen), FrameOf(program, gen))
    BY <1>2, <2>2, LocalsSlots DEF Node
  <2> QED BY <1>1, <2>1, <2>3 DEF FrameOf
<1> PICK a : a = Line("label", Label("fn", Node.name))
  OBVIOUS
<1> PICK b : b = Line("enter", frame)
  OBVIOUS
<1> PICK n : n = IF Len(Node.params) <= Len(Regs) THEN Len(Node.params) ELSE Len(Regs)
  OBVIOUS
<1> DEFINE spill(i) == Line("spill", [slot |-> env'[Node.params[i].name], reg |-> Regs[i]])
<1> PICK spills : spills = [i \in 1..n |-> spill(i)]
  OBVIOUS
<1>6. Emit(<<a, b>> \o spills)
  BY <1>5 DEF emit_fn
<1>7. n \in Nat /\ \A i \in 1..n : i \in 1..Len(Node.params)
  <2>1. Len(Regs) \in Nat
    BY GenAssumption
  <2> QED BY <1>2, <2>1
<1>8. \A i \in 1..n : spill(i)[1] = "spill" /\ spill(i)[2].slot \in 1..frame
  <2> TAKE i \in 1..n
  <2>1. Node.params[i].name \in LocalsOf(program, gen)
    BY <1>7 DEF LocalsOf, Node
  <2>2. env'[Node.params[i].name] \in 1..frame
    BY <1>5, <2>1 DEF Slots
  <2> PICK x : x = [slot |-> env'[Node.params[i].name], reg |-> Regs[i]]
    OBVIOUS
  <2>3. x.slot = env'[Node.params[i].name]
    OBVIOUS
  <2>4. Line("spill", x)[1] = "spill" /\ Line("spill", x)[2] = x
    BY LineIs
  <2> QED BY <2>2, <2>3, <2>4
<1>9. Len(spills) = n /\ \A i \in 1..n : spills[i] = spill(i)
  BY <1>7
<1> HIDE DEF spill
<1>10. IsSeq(spills) /\ \A l \in Elems(spills) : l[1] = "spill" /\ l[2].slot \in 1..frame
  <2>1. spills \in Seq({spill(i) : i \in 1..n})
    BY <1>7
  <2> QED BY <1>8, <1>9, <2>1, IsSeqOf DEF Elems
<1>11. Bal(spills, 0, 0)
  <2> PICK d : d = [i \in 1..(n + 1) |-> 0]
    OBVIOUS
  <2>1. d \in [1..(n + 1) -> Int] /\ d[1] = 0 /\ d[n + 1] = 0 /\ \A i \in 1..n : d[i] = 0 /\ d[i + 1] = 0
    BY <1>7
  <2>2. \A arg : StepsTo("spill", arg, 0, 0)
    BY DEF StepsTo, Fits, Eff
  <2>3. \A i \in 1..n : StepsTo(spills[i][1], spills[i][2], d[i], d[i + 1])
    BY <1>8, <1>9, <2>1, <2>2
  <2>4. IsDepths(spills, d)
    BY <1>9, <2>1, <2>3 DEF IsDepths
  <2> QED BY <1>9, <2>1, <2>4 DEF Bal
<1>12. a[1] = "label" /\ a[2] = Label("fn", Node.name) /\ a[2][1] = "fn" /\ b[1] = "enter" /\ b[2] = frame
  BY LineIs, LabelIs
<1> PICK s : s = <<a, b>>
  OBVIOUS
<1>13. IsSeq(s) /\ Elems(s) = {a, b} /\ Bal(s, -1, 0) /\ s # << >>
  <2>1. Bal(<<a>>, -1, -1)
    <3>1. Fits("label", Label("fn", Node.name), -1) /\ Eff("label") = 0 /\ -1 + 0 = -1 /\ -1 \in Int
      BY LabelIs DEF Fits, Eff
    <3>2. Bal(<<Line("label", Label("fn", Node.name))>>, -1, -1 + Eff("label"))
      BY <3>1, BalOne
    <3> QED BY <3>1, <3>2
  <2>2. Bal(<<b>>, -1, 0)
    <3>1. Fits("enter", frame, -1) /\ Eff("enter") = 1 /\ -1 + 1 = 0 /\ -1 \in Int
      BY DEF Fits, Eff
    <3>2. Bal(<<Line("enter", frame)>>, -1, -1 + Eff("enter"))
      BY <3>1, BalOne
    <3> QED BY <3>1, <3>2
  <2>3. Bal(<<a, b>>, -1, 0)
    BY ONLY <2>1, <2>2, TwoBal
  <2>4. Len(s) = 2
    OBVIOUS
  <2> QED BY <2>3, <2>4, FewLines
<1>14. IsSeq(s \o spills) /\ Bal(s \o spills, -1, 0) /\ Elems(s \o spills) = Elems(s) \cup Elems(spills)
  BY ONLY <1>10, <1>11, <1>13, BalConcat, ConcatFacts
<1> PICK lines : lines = s \o spills
  OBVIOUS
<1>15. ASSUME NEW l \in Elems(lines)
       PROVE  PairFits(lines, l) /\ PairLands(lines, l) /\ l[1] \notin Ends
  <2>1. CASE l = a
    BY <1>12, <2>1 DEF PairFits, PairLands, Ends
  <2>2. CASE l = b
    <3>1. Line("label", Label("fn", NameOf(gen))) \in Elems(lines)
      BY <1>3, <1>13, <1>14
    <3> QED BY <1>12, <2>2, <3>1 DEF PairFits, PairLands, Ends
  <2>3. CASE l \in Elems(spills)
    BY <1>3, <1>10, <2>3 DEF PairFits, PairLands, Ends
  <2> QED BY <1>13, <1>14, <2>1, <2>2, <2>3
<1>16. LinesOrdered(lines, 0, 1)
  <2>1. lines # << >>
    BY ONLY lines = s \o spills, <1>10, <1>13, ConcatFacts
  <2>2. \A i \in 1..Len(lines) : lines[i][1] \notin Ends
    BY <1>15, ZenonT(60) DEF Elems
  <2>3. 0 # 1
    OBVIOUS
  <2> QED BY <2>1, <2>2, <2>3, ZenonT(60) DEF LinesOrdered
<1>17. Pending(program, labels, gen - 1) = {}
  <2>1. 1..Len(labels) = {}
    BY <1>3
  <2> QED BY <2>1 DEF Pending
<1>18. Level(Len(labels)) = -1 /\ Level(Len(labels')) = 0
  BY <1>3, <1>4 DEF Level
<1>19. \A i \in 1..Len(labels') :
         LabelForm(labels'[i]) /\ (labels'[i].k = "fn" <=> i = 1) /\ labels'[i].k \notin Loops
  BY <1>4
<1>20. Adds(lines)
  <2>1. IsSeq(lines) /\ Bal(lines, Level(Len(labels)), Level(Len(labels')))
    BY <1>14, <1>18
  <2>2. LinesOrdered(lines, Len(labels), Len(labels'))
    <3>1. Len(labels) = 0 /\ Len(labels') = 1
      BY <1>3, <1>4
    <3> QED BY ONLY <1>16, <3>1
  <2>3. Slots(env', FrameOf(program, LastFnOf(program, gen)))
    BY <1>3, <1>5
  <2> QED BY <1>4, <1>15, <1>17, <1>19, <2>1, <2>2, <2>3 DEF Adds
<1> QED BY <1>6, <1>20 DEF Adding

(* The shape is there from the start of the generator to the end.  The     *)
(* functions stay the ones of the package throughout.                      *)
LEMMA StartShape ==
  ASSUME CheckInv, GenInv, StartEmit
  PROVE  Shape'
<1>1. /\ gen' = 1 /\ labels' = << >>
      /\ code' = [i \in 1..2 |-> [op |-> <<"call", "exit">>[i], arg |-> <<"main", "rax">>[i],
                                  of |-> 0, fn |-> "_start"]]
  BY DEF StartEmit, Accepted, GenInv, FrontEnd
<1> PICK r : r = [op |-> "call", arg |-> "main", of |-> 0, fn |-> "_start"]
  OBVIOUS
<1> PICK x : x = [op |-> "exit", arg |-> "rax", of |-> 0, fn |-> "_start"]
  OBVIOUS
<1>2. /\ r.op = "call" /\ r.of = 0 /\ r.fn = "_start"
      /\ x.op = "exit" /\ x.of = 0 /\ x.fn = "_start"
  OBVIOUS
<1> PICK c : c = code'
  OBVIOUS
<1>3. c = [i \in 1..2 |-> IF i = 1 THEN r ELSE x]
  <2>1. \A i \in 1..2 : i = 1 \/ i = 2
    OBVIOUS
  <2> QED BY <1>1, <2>1
<1>4. Len(c) = 2 /\ c[1] = r /\ c[2] = x /\ 1..2 = {1, 2}
  BY <1>3
<1>5. Elems(c) = {r, x}
  BY <1>4 DEF Elems
<1>6. Len(labels') = 0
  BY <1>1
<1> PICK d : d = [i \in 1..3 |-> IF i = 3 THEN -1 ELSE 0]
  OBVIOUS
<1>7. CodeDepths(c, d) /\ d[1] = 0 /\ d[Len(c) + 1] = -1
  <2>1. d \in [1..3 -> Int] /\ d[1] = 0 /\ d[2] = 0 /\ d[3] = -1
    OBVIOUS
  <2>2. \A arg : StepsTo("call", arg, 0, 0) /\ StepsTo("exit", arg, 0, -1)
    BY DEF StepsTo, Eff, Fits
  <2> QED BY <1>2, <1>4, <2>1, <2>2 DEF CodeDepths
<1>8. Ordered(c, 0)
  BY <1>2, <1>4 DEF Ordered, Ends
<1>9. \A l \in Elems(c) : LineFits(program', c, l) /\ Lands(program', labels', gen' - 1, c, l)
  BY <1>2, <1>5 DEF LineFits, Lands
<1>10. 1..0 = {} /\ ~(0 > 0) /\ Level(0) = -1
  BY DEF Level
<1> QED BY <1>6, <1>7, <1>8, <1>9, <1>10 DEF Shape

ShapeInv == /\ phase \notin FrontEnd /\ NoAllocs => Shape
            /\ phase \in AfterLoad => labels = << >>

LEMMA ShapeKept ==
  ASSUME UNCHANGED <<program, gen, env, labels, code>>, Shape
  PROVE  Shape'
<1>1. Elems(code)' = Elems(code) /\ NameOf(gen - 1)' = NameOf(gen - 1)
  BY DEF Elems, NameOf
<1> QED BY <1>1 DEF Shape

LEMMA SemaPhases ==
  ASSUME IInv, SemaNext
  PROVE  phase \in FrontEnd /\ phase' \in FrontEnd
<1>1. SemaInv /\ BodyInv
  BY DEF IInv, CheckInv
<1>2. ASSUME NEW x, Wrote(x) PROVE phase \in FrontEnd /\ phase' \in FrontEnd
  BY <1>2 DEF Wrote, FrontEnd
<1>3. CASE RegisterFn \/ CheckMain \/ Checked
  <2>1. phase' \in {phase, "bodies", "checked"} /\ phase \in FrontEnd
    BY <1>3 DEF RegisterFn, CheckMain, Checked, FrontEnd
  <2> QED BY <2>1 DEF FrontEnd
<1>4. CASE check_fn \/ check_stmt \/ ElseBlock \/ EndBlock \/ EndFn
  BY <1>1, <1>2, <1>4, FnWrote, StmtWrote, EndsWrote
<1> QED BY <1>3, <1>4 DEF SemaNext

LEMMA GenPhases ==
  ASSUME GenNext
  PROVE  phase \notin AfterLoad /\ phase' = "emit"
BY StepRests DEF GenNext, StartEmit, Accepted, emit_fn, EmitStore, EmitRet, EmitExprStmt, EmitIf, EmitElse,
   EmitLoop, EmitUnsafe, EmitJump, EmitEnd, Emitting, AfterLoad

LEMMA ShapeSteps ==
  ASSUME FewParameters, IInv, ShapeInv, [MachineNext]_allVars
  PROVE  ShapeInv'
<1>1. CheckInv /\ GenInv /\ GenContext /\ RegInv
  BY DEF IInv, CheckInv, GenContext
<1>0. phase' \in AfterLoad => labels' = << >>
  <2>1. CASE Assemble
    <3>1. labels' = labels /\ phase = "emit" /\ gen > Len(program)
      BY <2>1 DEF Assemble, compilerVars, genVars
    <3> QED BY <3>1, GenTypeOf DEF GenTypeOK
  <2>2. CASE Execute
    <3>1. labels' = labels /\ phase \in AfterLoad
      BY <2>2, ExecuteKeeps DEF compilerVars, genVars, AfterLoad
    <3> QED BY <3>1 DEF ShapeInv
  <2>3. CASE UNCHANGED allVars
    BY <2>3 DEF ShapeInv, allVars, semaVars, genVars
  <2>4. CASE SemaNext
    BY <2>4, SemaPhases DEF FrontEnd, AfterLoad
  <2>5. CASE GenNext
    BY <2>5, GenPhases DEF AfterLoad
  <2> QED BY <2>1, <2>2, <2>3, <2>4, <2>5 DEF MachineNext
<1> SUFFICES ASSUME phase' \notin FrontEnd, NoAllocs'
             PROVE  Shape'
  BY <1>0 DEF ShapeInv
<1>2. CASE UNCHANGED <<program, gen, env, labels, code>> /\ phase \notin FrontEnd
  <2>1. NoAllocs
    BY <1>2 DEF NoAllocs, PartsOf
  <2> QED BY <1>2, <2>1, ShapeKept DEF ShapeInv
<1>3. CASE SemaNext /\ UNCHANGED <<genVars, machineVars>>
  BY <1>3, SemaPhases
<1>4. CASE GenNext /\ UNCHANGED machineVars
  <2>1. CASE StartEmit
    BY <1>1, <2>1, StartShape
  <2>2. ASSUME Emitting, Step, Sound => Adding PROVE Shape'
    <3>1. gen' = gen + 1 /\ program' = program
      BY <2>2, StepRests DEF Rests
    <3>2. NoAllocs
      BY <3>1 DEF NoAllocs, PartsOf
    <3>3. phase \notin FrontEnd
      BY <2>2 DEF Emitting, FrontEnd
    <3>4. Sound
      BY <1>1, <3>2, <3>3 DEF Sound, ShapeInv
    <3>5. PICK lines : Adds(lines) /\ (Emit(lines) \/ (lines = << >> /\ code' = code))
      BY <2>2, <3>4 DEF Adding
    <3> QED BY <1>1, <2>2, <3>1, <3>4, <3>5, ShapeNext DEF Sound
  <2>3. CASE emit_fn
    BY <2>2, <2>3, FnAdds DEF emit_fn
  <2>4. CASE EmitStore
    BY <2>2, <2>4, StoreAdds DEF EmitStore
  <2>5. CASE EmitRet
    BY <2>2, <2>5, RetAdds DEF EmitRet
  <2>6. CASE EmitExprStmt
    BY <2>2, <2>6, ExprStmtAdds DEF EmitExprStmt
  <2>7. CASE EmitIf
    BY <2>2, <2>7, IfAdds DEF EmitIf
  <2>8. CASE EmitElse
    BY <2>2, <2>8, ElseAdds DEF EmitElse
  <2>9. CASE EmitLoop
    BY <2>2, <2>9, LoopAdds DEF EmitLoop
  <2>10. CASE EmitUnsafe
    BY <2>2, <2>10, UnsafeAdds DEF EmitUnsafe
  <2>11. CASE EmitJump
    BY <2>2, <2>11, JumpAdds DEF EmitJump
  <2>12. CASE EmitEnd
    BY <2>2, <2>12, EndAdds DEF EmitEnd
  <2> QED BY <1>4, <2>1, <2>3, <2>4, <2>5, <2>6, <2>7, <2>8, <2>9, <2>10, <2>11, <2>12 DEF GenNext
<1>5. CASE Assemble
  BY <1>2, <1>5 DEF Assemble, compilerVars, genVars, FrontEnd
<1>6. CASE Execute
  BY <1>2, <1>6, ExecuteKeeps DEF compilerVars, genVars, FrontEnd
<1>7. CASE UNCHANGED allVars
  BY <1>2, <1>7 DEF allVars, semaVars, genVars
<1> QED BY <1>3, <1>4, <1>5, <1>6, <1>7 DEF MachineNext

(* The code of a program that runs: F is the size of the frame and d the   *)
(* depth of the stack at each line.                                        *)
CodeRuns(c, F, d) ==
  /\ IsSeq(c) /\ F \in [1..Len(c) -> Nat]
  /\ CodeDepths(c, d) /\ d[1] = 0
  /\ Ordered(c, 0)
  /\ \A i \in 1..Len(c) : c[i].of = 0 => F[i] = 0
  /\ \A i, j \in 1..Len(c) : c[i].fn = c[j].fn /\ (c[i].of = 0 <=> c[j].of = 0) => F[i] = F[j]
  /\ \A i \in 1..Len(c) :
       /\ c[i].of # 0 => \E j \in 1..Len(c) : c[j].op = "enter" /\ c[j].fn = c[i].fn
       /\ c[i].op = "enter" => c[i].arg = F[i]
       /\ c[i].op = "store" => c[i].arg \in 1..F[i]
       /\ c[i].op = "spill" => c[i].arg.slot \in 1..F[i]
       /\ c[i].op \in {"jmp", "je"} => c[i].arg[1] # "fn" /\ HasLabel(c, c[i].fn, c[i].arg)
       /\ c[i].op = "call" => HasLabel(c, c[i].arg, Label("fn", c[i].arg))

LEMMA RunShape ==
  ASSUME IInv, ShapeInv, phase = "run"
  PROVE  Done /\ Rejected = {} /\ Shape /\ labels = << >>
<1>1. Done /\ Rejected = {} /\ phase \notin FrontEnd /\ phase \in AfterLoad
  BY DoneIs DEF FrontEnd, AfterLoad
<1>2. DOMAIN program = 1..Len(program)
  BY <1>1, SeqFacts, DoneFacts DEF FnFirst
<1>3. ~KnownReason
  BY <1>1, KnownRejected
<1>4. NoAllocs
  <2> SUFFICES ASSUME NEW i \in 1..Len(program), NEW e \in PartsOf(program[i]), IsAlloc(e)
               PROVE  KnownReason
    BY <1>3 DEF NoAllocs
  <2> QED BY <1>2, PartsAre DEF KnownReason, IsAlloc
<1> QED BY <1>1, <1>4 DEF ShapeInv

LEMMA FrameNat ==
  ASSUME Done, NEW i \in 1..Len(program)
  PROVE  LastFnOf(program, i) \in 1..Len(program) /\ FrameOf(program, LastFnOf(program, i)) \in Nat
<1>1. FnFirst(program) /\ Len(program) \in Nat
  BY DoneFacts
<1>2. LastFnOf(program, i) \in 1..Len(program) /\ LastFnOf(program, i) \in Nat
  BY <1>1, LastFnFacts
<1>3. PICK j \in 1..Len(items) : program[LastFnOf(program, i)] = FnNode(items[j])
  BY DoneFacts
<1>4. Len(program[LastFnOf(program, i)].params) \in Nat
  <2>1. IsHeader(items[j])
    BY ItemsFacts DEF Done
  <2>2. Len(items[j].params) \in Nat
    BY <2>1 DEF IsHeader
  <2>3. program[LastFnOf(program, i)].params = items[j].params
    BY <1>3 DEF FnNode
  <2> QED BY <2>2, <2>3
<1> QED BY <1>1, <1>2, <1>4, LocalsFinite

LEMMA RunCode ==
  ASSUME IInv, ShapeInv, phase = "run"
  PROVE  \E F, d : CodeRuns(code, F, d)
<1>1. Done /\ Rejected = {} /\ Shape /\ labels = << >>
  BY RunShape
<1>2. FnFirst(program) /\ Len(program) \in Nat /\ gen - 1 = Len(program)
  BY <1>1, DoneFacts
<1>3. IsSeq(code) /\ Len(code) \in Nat /\ DOMAIN code = 1..Len(code)
  BY <1>1, SeqFacts DEF Done, CodeInv
<1>4. Len(labels) = 0 /\ Level(Len(labels)) = -1 /\ 1..Len(labels) = {}
  BY <1>1 DEF Level
<1> PICK d : CodeDepths(code, d) /\ d[1] = 0
  BY <1>1 DEF Shape
<1> PICK F : F = [i \in 1..Len(code) |->
                    IF code[i].of = 0 THEN 0 ELSE FrameOf(program, LastFnOf(program, code[i].of))]
  OBVIOUS
<1>5. Ordered(code, 0)
  BY <1>1, <1>4 DEF Shape
<1>6. ASSUME NEW i \in 1..Len(code)
      PROVE  code[i] \in Elems(code) /\ LineOK(code[i]) /\ LineFits(program, code, code[i])
  BY <1>1 DEF Elems, Done, CodeInv, Shape
<1>7. ASSUME NEW i \in 1..Len(code), code[i].of # 0
      PROVE  /\ code[i].of \in 1..Len(program) /\ code[i].fn = NameOf(code[i].of)
             /\ code[i].op = "enter" => program[code[i].of].k = "fn"
  BY <1>2, <1>6, <1>7 DEF LineOK
<1>8. F \in [1..Len(code) -> Nat]
  <2>1. ASSUME NEW i \in 1..Len(code) PROVE F[i] \in Nat
    BY <1>1, <1>7, FrameNat
  <2> QED BY <2>1
<1>9. ASSUME NEW i \in 1..Len(code), NEW j \in 1..Len(code),
             code[i].fn = code[j].fn, code[i].of = 0 <=> code[j].of = 0
      PROVE  F[i] = F[j]
  <2>1. CASE code[i].of = 0
    BY <1>9, <2>1
  <2>2. CASE code[i].of # 0
    <3> PICK a, b : a = LastFnOf(program, code[i].of) /\ b = LastFnOf(program, code[j].of)
      OBVIOUS
    <3>1. /\ a \in 1..Len(program) /\ program[a].k = "fn"
          /\ b \in 1..Len(program) /\ program[b].k = "fn"
      BY <1>2, <1>7, <1>9, <2>2, LastFnFacts
    <3>2. program[a].name = program[b].name
      BY <1>7, <1>9, <2>2 DEF NameOf
    <3>3. a = b
      BY <1>1, <3>1, <3>2 DEF Done, BodyInv, FnsDiffer
    <3> QED BY <1>9, <2>2, <3>3
  <2> QED BY <2>1, <2>2
<1>10. ASSUME NEW i \in 1..Len(code), code[i].of # 0
       PROVE  \E j \in 1..Len(code) : code[j].op = "enter" /\ code[j].fn = code[i].fn
  <2> PICK a : a = LastFnOf(program, code[i].of)
    OBVIOUS
  <2>1. a \in 1..Len(program) /\ program[a].k = "fn" /\ program[a].name = code[i].fn
    BY <1>2, <1>7, <1>10, LastFnFacts DEF NameOf
  <2>2. NodeEmitted(a)
    BY <1>1, <1>2, <2>1 DEF Done, CodeInv
  <2>3. \E l \in Elems(code) : l.op = "enter" /\ l.fn = code[i].fn
    BY <2>1, <2>2 DEF NodeEmitted
  <2> QED BY <2>3 DEF Elems
<1>11. ASSUME NEW i \in 1..Len(code), code[i].op \in {"enter", "store", "spill", "jmp", "je"}
       PROVE  code[i].of # 0
  BY <1>5, <1>11 DEF Ordered
<1>12. ASSUME NEW i \in 1..Len(code)
       PROVE  /\ code[i].op = "enter" => code[i].arg = F[i]
              /\ code[i].op = "store" => code[i].arg \in 1..F[i]
              /\ code[i].op = "spill" => code[i].arg.slot \in 1..F[i]
              /\ code[i].op \in {"jmp", "je"} => code[i].arg[1] # "fn"
  <2>1. code[i].op = "enter" => LastFnOf(program, code[i].of) = code[i].of
    <3> SUFFICES ASSUME code[i].op = "enter"
                 PROVE  LastFnOf(program, code[i].of) = code[i].of
      OBVIOUS
    <3>1. code[i].of \in 1..Len(program) /\ program[code[i].of].k = "fn"
      BY <1>7, <1>11
    <3>2. LastFnOf(program, code[i].of) \in 1..code[i].of /\ code[i].of <= LastFnOf(program, code[i].of)
      BY <1>2, <3>1, LastFnFacts
    <3> QED BY <1>2, <3>1, <3>2
  <2> QED BY <1>6, <1>11, <2>1 DEF LineFits
<1>13. ASSUME NEW i \in 1..Len(code), code[i].op \in {"jmp", "je"}
       PROVE  HasLabel(code, code[i].fn, code[i].arg)
  <2>1. Lands(program, labels, gen - 1, code, code[i])
    BY <1>1, <1>6 DEF Shape
  <2>2. Pending(program, labels, gen - 1) = {}
    BY <1>4 DEF Pending
  <2> QED BY <1>13, <2>1, <2>2 DEF Lands
<1>14. ASSUME NEW i \in 1..Len(code), code[i].op = "call"
       PROVE  HasLabel(code, code[i].arg, Label("fn", code[i].arg))
  <2>1. code[i].arg \in Globals
    BY <1>1, <1>3, <1>14 DEF Rejected
  <2>2. PICK j \in 1..Len(code) : code[j].op = "enter" /\ code[j].fn = code[i].arg
    BY <1>3, <2>1 DEF Globals
  <2> QED BY <1>6, <2>2 DEF LineFits
<1>15. \A i \in 1..Len(code) : code[i].of = 0 => F[i] = 0
  OBVIOUS
<1> QED BY <1>3, <1>5, <1>8, <1>9, <1>10, <1>12, <1>13, <1>14, <1>15 DEF CodeRuns

(* A label is where the next line is that is none. *)
LEMMA AtFacts ==
  ASSUME NEW F, NEW d, CodeRuns(code, F, d), NEW i \in 1..Len(code)
  PROVE  /\ At(i) \in 1..Len(code) /\ code[At(i)].op # "label"
         /\ d[At(i)] = d[i] /\ F[At(i)] = F[i] /\ code[At(i)].fn = code[i].fn
         /\ code[At(i)].of = 0 <=> code[i].of = 0
<1>1. Len(code) \in Nat /\ DOMAIN code = 1..Len(code)
  BY SeqFacts DEF CodeRuns
<1> PICK S : S = {j \in i..Len(code) : code[j].op # "label"}
  OBVIOUS
<1>2. S \in SUBSET Nat /\ Len(code) \in S
  BY <1>1 DEF CodeRuns, Ordered, Ends
<1> PICK a : a = At(i)
  OBVIOUS
<1>3. a \in S /\ \A j \in S : a <= j
  <2>1. \E x \in S : \A y \in S : x <= y
    BY <1>2, LeastOf
  <2>2. a = Ext!Min(S)
    BY DEF At
  <2> QED BY <2>1, <2>2 DEF Ext!Min
<1>4. a \in i..Len(code) /\ code[a].op # "label" /\ \A j \in i..(a - 1) : code[j].op = "label"
  BY <1>1, <1>3
<1> DEFINE Same(j) == d[j] = d[i] /\ code[j].fn = code[i].fn /\ (code[j].of = 0 <=> code[i].of = 0)
<1> PICK T : T = {j \in i..a : ~Same(j)}
  OBVIOUS
<1>5. T = {}
  <2> SUFFICES ASSUME T # {}
               PROVE  FALSE
    OBVIOUS
  <2>1. T \in SUBSET Nat
    BY <1>1, <1>4
  <2>2. PICK m \in T : \A k \in T : m <= k
    BY <2>1, LeastOf
  <2>3. m # i
    BY <2>2
  <2>4. m - 1 \in i..(a - 1) /\ m \in i..a /\ m - 1 \in 1..(Len(code) - 1) /\ (m - 1) + 1 = m
    BY <1>1, <1>4, <2>2, <2>3
  <2>5. Same(m - 1)
    BY <1>4, <2>2, <2>4
  <2>6. code[m - 1].op = "label"
    BY <1>4, <2>4
  <2>7. code[m].fn = code[m - 1].fn
    BY <2>4, <2>6 DEF CodeRuns, Ordered, Ends
  <2>8. d[m] = d[m - 1]
    <3>1. StepsTo("label", code[m - 1].arg, d[m - 1], d[m])
      BY <1>1, <2>4, <2>6 DEF CodeRuns, CodeDepths
    <3>2. d[m - 1] \in Int
      BY <1>1, <2>4, SMTT(40) DEF CodeRuns, CodeDepths
    <3> QED BY <3>1, <3>2 DEF StepsTo, Eff
  <2>9. code[m].of # 0 /\ code[m - 1].of # 0
    <3>1. m - 1 # 1 /\ m - 1 # 2
      BY <2>6 DEF CodeRuns, Ordered
    <3>2. m - 1 > 2 /\ m > 2 /\ m \in 1..Len(code) /\ m - 1 \in 1..Len(code)
      BY <1>1, <2>4, <3>1
    <3> QED BY <3>2 DEF CodeRuns, Ordered
  <2> QED BY <2>2, <2>5, <2>7, <2>8, <2>9
<1>6. a \in 1..Len(code) /\ Same(a)
  BY <1>1, <1>4, <1>5
<1>7. F[a] = F[i]
  BY <1>6 DEF CodeRuns
<1> QED BY <1>4, <1>6, <1>7

(* The stack while the program runs.  s are the calls under way and B[k]   *)
(* the base of the frame of the kth, under its return address: the call    *)
(* was made with the frame under it and what the line of the call had      *)
(* pushed, and a frame holds the base of the one under it once it is       *)
(* entered.                                                                *)
BaseOf(B, k) == IF k = 0 THEN 0 ELSE B[k]
Frames(c, F, d, B, s, m) ==
  /\ IsSeq(s) /\ B \in [0..Len(s) -> Int] /\ B[0] = Memory + 1
  /\ \A k \in 1..Len(s) :
       /\ s[k] \in Int /\ s[k] - 1 \in 1..Len(c) /\ c[s[k] - 1].op = "call"
       /\ c[s[k] - 1].of = 0 <=> k = 1
       /\ m[B[k] + 1] = Val("ret", s[k])
       /\ B[k] + 2 = B[k - 1] - F[s[k] - 1] - d[s[k] - 1]
       /\ k < Len(s) => m[B[k]] = Val("rbp", BaseOf(B, k - 1))
  /\ \A j, k \in 0..Len(s) : j < k => B[k] + 2 <= B[j]

(* The pointers in front of line i. *)
Entered(c, F, d, B, n, m, i, sp, bp) ==
  /\ d[i] >= 0 /\ sp = B[n] - F[i] - d[i] /\ bp = BaseOf(B, n)
  /\ n > 0 => m[B[n]] = Val("rbp", BaseOf(B, n - 1))
Called(d, B, n, i, sp, bp) == d[i] = -1 /\ n > 0 /\ sp = B[n] + 1 /\ bp = BaseOf(B, n - 1)
Points(c, F, d, B, n, m, i, sp, bp) ==
  /\ i \in 1..Len(c) /\ (c[i].of = 0 <=> n = 0) /\ sp >= 1
  /\ Entered(c, F, d, B, n, m, i, sp, bp) \/ Called(d, B, n, i, sp, bp)
RunStack(c, F, d, B, s, m, i, sp, bp) ==
  Frames(c, F, d, B, s, m) /\ Points(c, F, d, B, Len(s), m, i, sp, bp)
IsMemory(m) == m = [i \in 1..Memory |-> m[i]]

StackAt(F, d, B) == /\ CodeRuns(code, F, d) /\ IsMemory(mem) /\ code[pc].op # "label"
                    /\ RunStack(code, F, d, B, calls, mem, pc, rsp, rbp)
StackNext(F, d) == /\ IsMemory(mem') /\ code[pc'].op # "label"
                   /\ \E B : RunStack(code, F, d, B, calls', mem', pc', rsp', rbp')

LEMMA FramesFacts ==
  ASSUME NEW c, NEW F, NEW d, NEW B, NEW s, NEW m, Frames(c, F, d, B, s, m)
  PROVE  /\ Len(s) \in Nat /\ \A k \in 0..Len(s) : B[k] \in Int /\ B[k] <= Memory + 1 /\ B[k] >= B[Len(s)]
         /\ Len(s) > 0 => B[Len(s)] <= Memory - 1
<1>1. Len(s) \in Nat /\ Memory \in Int /\ B[0] = Memory + 1
  BY SeqFacts, MachineAssumption DEF Frames
<1>2. ASSUME NEW k \in 0..Len(s) PROVE B[k] \in Int
  BY DEF Frames
<1>3. \A j, k \in 0..Len(s) : j < k => B[k] + 2 <= B[j]
  BY DEF Frames
<1>4. ASSUME NEW k \in 0..Len(s) PROVE B[k] <= Memory + 1
  <2>1. 0 \in 0..Len(s) /\ (k = 0 \/ 0 < k)
    BY <1>1
  <2> QED BY <1>1, <1>2, <1>3, <2>1
<1>5. ASSUME NEW k \in 0..Len(s) PROVE B[k] >= B[Len(s)]
  <2>1. Len(s) \in 0..Len(s) /\ (k = Len(s) \/ k < Len(s))
    BY <1>1
  <2>2. B[k] \in Int /\ B[Len(s)] \in Int
    BY <1>2, <2>1
  <2>3. CASE k < Len(s)
    <3>1. B[Len(s)] + 2 <= B[k]
      BY <1>3, <2>1, <2>3
    <3> QED BY <2>2, <3>1
  <2> QED BY <2>1, <2>2, <2>3
<1>6. Len(s) > 0 => B[Len(s)] <= Memory - 1
  <2> SUFFICES ASSUME Len(s) > 0
               PROVE  B[Len(s)] <= Memory - 1
    OBVIOUS
  <2>1. 0 \in 0..Len(s) /\ Len(s) \in 0..Len(s) /\ 0 < Len(s)
    BY <1>1
  <2>2. B[Len(s)] + 2 <= B[0] /\ B[Len(s)] \in Int
    BY <1>2, <1>3, <2>1
  <2> QED BY <1>1, <2>2
<1> QED BY <1>1, <1>2, <1>4, <1>5, <1>6

LEMMA StackBound ==
  ASSUME NEW F, NEW d, CodeRuns(code, F, d), NEW B, NEW s, NEW m, NEW i, NEW sp, NEW bp,
         RunStack(code, F, d, B, s, m, i, sp, bp)
  PROVE  /\ sp \in 1..(Memory + 1) /\ i \in 1..Len(code)
         /\ code[i].op \in {"pop", "ret"} => sp \in 1..Memory
<1>1. Len(s) \in Nat /\ Memory \in Int /\ Len(code) \in Nat
  BY FramesFacts, MachineAssumption, SeqFacts DEF RunStack, CodeRuns
<1>2. B[Len(s)] \in Int /\ B[Len(s)] <= Memory + 1 /\ (Len(s) > 0 => B[Len(s)] <= Memory - 1)
  BY <1>1, FramesFacts DEF RunStack
<1>3. i \in 1..Len(code) /\ sp >= 1
  BY DEF RunStack, Points
<1>4. F[i] \in Nat /\ d[i] \in Int /\ StepsTo(code[i].op, code[i].arg, d[i], d[i + 1])
  BY <1>1, <1>3 DEF CodeRuns, CodeDepths
<1>5. CASE d[i] >= 0 /\ sp = B[Len(s)] - F[i] - d[i]
  <2>1. code[i].op \in {"pop", "ret"} => d[i] >= 1
    BY <1>4, <1>5 DEF StepsTo, Fits
  <2> QED BY <1>1, <1>2, <1>3, <1>4, <1>5, <2>1, SMTT(40)
<1>6. CASE Len(s) > 0 /\ sp = B[Len(s)] + 1
  BY <1>1, <1>2, <1>3, <1>6
<1> QED BY <1>5, <1>6 DEF RunStack, Points, Entered, Called

LEMMA BaseTop ==
  ASSUME NEW B, NEW n \in Nat, n > 0
  PROVE  BaseOf(B, n) = B[n]
BY DEF BaseOf

(* The line after one that the program goes on from. *)
LEMMA NextLine ==
  ASSUME NEW F, NEW d, CodeRuns(code, F, d), NEW i \in 1..Len(code), code[i].op \notin Ends
  PROVE  /\ i + 1 \in 1..Len(code) /\ F[i + 1] = F[i] /\ F[i] \in Nat
         /\ code[i + 1].of = 0 <=> code[i].of = 0
         /\ d[i] \in Int /\ StepsTo(code[i].op, code[i].arg, d[i], d[i + 1])
         /\ d[i + 1] = d[i] + Eff(code[i].op)
<1>1. Len(code) \in Nat /\ i # Len(code)
  BY SeqFacts DEF CodeRuns, Ordered
<1>2. i \in 1..(Len(code) - 1) /\ i + 1 \in 1..Len(code)
  BY <1>1
<1>3. code[i + 1].fn = code[i].fn
  BY <1>2 DEF CodeRuns, Ordered
<1>4. code[i + 1].of = 0 <=> code[i].of = 0
  <2>1. i # 2
    BY DEF CodeRuns, Ordered, Ends
  <2>2. i + 1 <= 2 <=> i <= 2
    BY <1>2, <2>1
  <2> QED BY <1>2, <2>2 DEF CodeRuns, Ordered
<1>5. F[i + 1] = F[i] /\ F[i] \in Nat
  BY <1>2, <1>3, <1>4 DEF CodeRuns
<1>6. d[i] \in Int /\ StepsTo(code[i].op, code[i].arg, d[i], d[i + 1])
  <2>1. CodeDepths(code, d)
    BY DEF CodeRuns
  <2>2. d \in [1..(Len(code) + 1) -> Int]
    BY <2>1 DEF CodeDepths
  <2>3. StepsTo(code[i].op, code[i].arg, d[i], d[i + 1])
    BY <2>1 DEF CodeDepths
  <2>4. i \in 1..(Len(code) + 1)
    BY <1>1
  <2>5. d[i] \in Int
    BY ONLY <2>2, <2>4
  <2> QED BY <2>3, <2>5
<1> QED BY <1>2, <1>4, <1>5, <1>6 DEF StepsTo

(* The frames keep their words when nothing above the last base is written. *)
LEMMA FramesKept ==
  ASSUME NEW c, NEW F, NEW d, NEW B, NEW s, NEW m, Frames(c, F, d, B, s, m),
         NEW w, \A a \in 1..Memory : Len(s) > 0 /\ a > B[Len(s)] => w[a] = m[a],
         Len(s) > 0 => B[Len(s)] >= 0
  PROVE  Frames(c, F, d, B, s, w)
<1>1. Len(s) \in Nat /\ \A k \in 0..Len(s) : B[k] \in Int /\ B[k] >= B[Len(s)]
  BY FramesFacts
<1>2. Memory \in Nat /\ B[0] = Memory + 1 /\ \A j, k \in 0..Len(s) : j < k => B[k] + 2 <= B[j]
  BY MachineAssumption DEF Frames
<1>3. ASSUME NEW k \in 1..Len(s)
      PROVE  w[B[k] + 1] = m[B[k] + 1] /\ (k < Len(s) => w[B[k]] = m[B[k]])
  <2>1. k \in 0..Len(s) /\ 0 \in 0..Len(s) /\ Len(s) \in 0..Len(s) /\ Len(s) > 0 /\ 0 < k
    BY <1>1
  <2>2. B[k] \in Int /\ B[Len(s)] \in Int /\ B[k] >= B[Len(s)] /\ B[Len(s)] >= 0
    BY <1>1, <2>1
  <2>3. B[k] + 2 <= B[0]
    BY <1>2, <2>1
  <2>4. B[k] + 1 \in 1..Memory /\ B[k] + 1 > B[Len(s)]
    BY <1>2, <2>2, <2>3
  <2>5. k < Len(s) => B[k] \in 1..Memory /\ B[k] > B[Len(s)]
    <3>1. k < Len(s) => B[Len(s)] + 2 <= B[k]
      BY <1>2, <2>1
    <3> QED BY <1>2, <2>2, <2>3, <3>1
  <2> QED BY <2>1, <2>4, <2>5
<1> QED BY <1>3 DEF Frames

(* Lines that work within the frame of their function. *)
Within(op) == op \notin {"call", "enter", "exit", "jmp", "label", "leave", "ret"}

LEMMA StackSameAt ==
  ASSUME NEW F, NEW d, CodeRuns(code, F, d), NEW B, NEW s, NEW m, NEW i, NEW sp, NEW bp,
         RunStack(code, F, d, B, s, m, i, sp, bp)
  PROVE  /\ RunStack(code, F, d, B, s, m, At(i), sp, bp)
         /\ code[At(i)].op # "label"
<1>1. i \in 1..Len(code)
  BY DEF RunStack, Points
<1> PICK a : a = At(i)
  OBVIOUS
<1>2. /\ a \in 1..Len(code) /\ code[a].op # "label" /\ d[a] = d[i] /\ F[a] = F[i]
      /\ code[a].of = 0 <=> code[i].of = 0
  BY <1>1, AtFacts
<1> QED BY <1>2 DEF RunStack, Points, Entered, Called

LEMMA StackWithin ==
  ASSUME NEW F, NEW d, CodeRuns(code, F, d), NEW B, NEW s, NEW m, NEW i, NEW sp, NEW bp,
         RunStack(code, F, d, B, s, m, i, sp, bp), Within(code[i].op),
         NEW w, \A a \in Int : Len(s) > 0 /\ a >= B[Len(s)] => w[a] = m[a],
         sp - Eff(code[i].op) >= 1
  PROVE  RunStack(code, F, d, B, s, w, i + 1, sp - Eff(code[i].op), bp)
<1>1. i \in 1..Len(code) /\ Len(s) \in Nat /\ B[Len(s)] \in Int
  BY FramesFacts DEF RunStack, Points
<1>2. code[i].op \notin Ends
  BY DEF Ends, Within
<1>3. /\ i + 1 \in 1..Len(code) /\ F[i + 1] = F[i] /\ F[i] \in Nat
      /\ code[i + 1].of = 0 <=> code[i].of = 0
      /\ d[i] \in Int /\ StepsTo(code[i].op, code[i].arg, d[i], d[i + 1])
      /\ d[i + 1] = d[i] + Eff(code[i].op)
  BY <1>1, <1>2, NextLine
<1>4. d[i] >= 0 /\ Eff(code[i].op) \in Int /\ d[i + 1] >= 0
  <2>1. d[i] >= 0 /\ (code[i].op = "pop" => d[i] >= 1)
    BY <1>3 DEF StepsTo, Fits, Within
  <2>2. Eff(code[i].op) \in {-1, 0, 1} /\ (Eff(code[i].op) = -1 => code[i].op = "pop")
    BY DEF Eff, Within
  <2> QED BY <1>3, <2>1, <2>2
<1>5. Entered(code, F, d, B, Len(s), m, i, sp, bp)
  BY <1>3, <1>4 DEF RunStack, Points, Called
<1>6. Frames(code, F, d, B, s, w) /\ (Len(s) > 0 => w[B[Len(s)]] = m[B[Len(s)]])
  <2>1. B[Len(s)] >= 0
    BY <1>1, <1>3, <1>4, <1>5 DEF Entered, RunStack, Points
  <2> QED BY <1>1, <2>1, FramesKept DEF RunStack
<1>7. sp - Eff(code[i].op) = B[Len(s)] - F[i + 1] - d[i + 1]
  BY <1>1, <1>3, <1>4, <1>5, SMTT(40) DEF Entered
<1>8. Entered(code, F, d, B, Len(s), w, i + 1, sp - Eff(code[i].op), bp)
  BY <1>4, <1>5, <1>6, <1>7 DEF Entered
<1> QED BY <1>3, <1>6, <1>8 DEF RunStack, Points

(* What the steps of the machine do to the stack. *)
LEMMA GoesOn ==
  ASSUME NEW F, NEW d, NEW B, StackAt(F, d, B), Within(code[pc].op), GoOn,
         calls' = calls, rbp' = rbp, rsp' = rsp - Eff(code[pc].op), rsp' >= 1, IsMemory(mem'),
         \A a \in Int : Len(calls) > 0 /\ a >= B[Len(calls)] => mem'[a] = mem[a]
  PROVE  StackNext(F, d)
<1>1. RunStack(code, F, d, B, calls, mem', pc + 1, rsp', rbp)
  BY StackWithin DEF StackAt
<1>2. pc' = At(pc + 1)
  BY DEF GoOn
<1>3. RunStack(code, F, d, B, calls, mem', pc', rsp', rbp) /\ code[pc'].op # "label"
  BY <1>1, <1>2, StackSameAt DEF StackAt
<1> QED BY <1>3 DEF StackNext

LEMMA PointersAre ==
  ASSUME NEW F, NEW d, NEW B, StackAt(F, d, B)
  PROVE  /\ pc \in 1..Len(code) /\ rsp \in 1..(Memory + 1) /\ Len(calls) \in Nat /\ Memory \in Nat
         /\ B[Len(calls)] \in Int /\ B[Len(calls)] <= Memory + 1
         /\ F[pc] \in Nat /\ d[pc] \in Int /\ StepsTo(code[pc].op, code[pc].arg, d[pc], d[pc + 1])
         /\ Entered(code, F, d, B, Len(calls), mem, pc, rsp, rbp) \/ Called(d, B, Len(calls), pc, rsp, rbp)
<1>1. pc \in 1..Len(code) /\ rsp \in 1..(Memory + 1)
  BY StackBound DEF StackAt
<1>2. Len(code) \in Nat
  BY SeqFacts DEF StackAt, CodeRuns
<1>3. F[pc] \in Nat /\ d[pc] \in Int /\ StepsTo(code[pc].op, code[pc].arg, d[pc], d[pc + 1])
  <2>1. CodeRuns(code, F, d)
    BY DEF StackAt
  <2>2. /\ F \in [1..Len(code) -> Nat] /\ d \in [1..(Len(code) + 1) -> Int]
        /\ \A i \in 1..Len(code) : StepsTo(code[i].op, code[i].arg, d[i], d[i + 1])
    BY <2>1 DEF CodeRuns, CodeDepths
  <2> QED BY <1>1, <1>2, <2>2
<1>4. Len(calls) \in Nat /\ B[Len(calls)] \in Int /\ B[Len(calls)] <= Memory + 1
  BY FramesFacts DEF StackAt, RunStack
<1> QED BY <1>1, <1>3, <1>4, MachineAssumption DEF StackAt, RunStack, Points

LEMMA StillSteps ==
  ASSUME NEW F, NEW d, NEW B, StackAt(F, d, B), StackSame, GoOn, Within(code[pc].op),
         Eff(code[pc].op) = 0
  PROVE  StackNext(F, d)
<1>1. /\ calls' = calls /\ rbp' = rbp /\ rsp' = rsp - Eff(code[pc].op) /\ rsp' >= 1 /\ IsMemory(mem')
      /\ mem' = mem
  BY PointersAre DEF StackSame, StackAt
<1> QED BY <1>1, GoesOn

LEMMA ComputeSteps ==
  ASSUME NEW F, NEW d, NEW B, StackAt(F, d, B),
         \/ Immediate \/ Flag \/ Lea \/ Negate \/ Complement \/ SaveRight \/ Alu \/ Compare
         \/ Divide \/ Load \/ SysWrite
  PROVE  StackNext(F, d)
<1>1. StackSame /\ GoOn
  BY DEF Immediate, Flag, Lea, Negate, Complement, SaveRight, Alu, Compare, Divide, Load, SysWrite,
       Computes
<1>2. I.op \in {"imm", "flag", "lea", "neg", "not", "alu", "cmp", "idiv", "load", "write"} \/ I.op = "mov rbx"
  BY DEF Immediate, Flag, Lea, Negate, Complement, SaveRight, Alu, Compare, Divide, Load, SysWrite, Is
<1>3. Within(code[pc].op) /\ code[pc].op \notin {"push", "pop"}
  <2>1. "mov rbx" \notin {"call", "enter", "exit", "jmp", "label", "leave", "ret", "push", "pop"}
    OBVIOUS
  <2> QED BY <1>2, <2>1, Zenon DEF I, Within
<1>4. Eff(code[pc].op) = 0
  BY ONLY <1>3 DEF Within, Eff
<1> QED BY <1>1, <1>3, <1>4, StillSteps

LEMMA SlotSteps ==
  ASSUME NEW F, NEW d, NEW B, StackAt(F, d, B), Store \/ Spill
  PROVE  StackNext(F, d)
<1>1. PICK slot, value : PutSlot(slot, value) /\ slot \in 1..F[pc]
  <2>1. CASE Store
    <3>1. PutSlot(I.arg, rax) /\ code[pc].op = "store"
      BY <2>1 DEF Store, Is, I
    <3>2. I.arg \in 1..F[pc]
      BY <3>1, PointersAre DEF StackAt, CodeRuns, I
    <3> QED BY <3>1, <3>2
  <2>2. CASE Spill
    <3>1. PutSlot(I.arg.slot, regs[I.arg.reg]) /\ code[pc].op = "spill"
      BY <2>2 DEF Spill, Is, I
    <3>2. I.arg.slot \in 1..F[pc]
      BY <3>1, PointersAre DEF StackAt, CodeRuns, I
    <3> QED BY <3>1, <3>2
  <2> QED BY <2>1, <2>2
<1>2. code[pc].op \in {"store", "spill"}
  BY DEF Store, Spill, Is, I
<1>3. Within(code[pc].op) /\ Eff(code[pc].op) = 0
  BY ONLY <1>2 DEF Within, Eff
<1>4. mem' = [mem EXCEPT ![rbp - slot] = Stored(value)] /\ calls' = calls /\ rbp' = rbp /\ rsp' = rsp /\ GoOn
  BY <1>1 DEF PutSlot
<1>5. IsMemory(mem')
  BY <1>4 DEF StackAt, IsMemory
<1>6. ASSUME NEW a \in Int, Len(calls) > 0, a >= B[Len(calls)] PROVE mem'[a] = mem[a]
  <2>1. d[pc] = 0
    BY <1>2, PointersAre DEF StepsTo, Fits
  <2>2. rbp = B[Len(calls)]
    BY <1>6, <2>1, PointersAre, BaseTop DEF Entered, Called
  <2>3. rbp - slot # a
    BY <1>1, <1>6, <2>2, PointersAre
  <2> QED BY <1>4, <2>3 DEF StackAt, IsMemory
<1>7. rsp' = rsp - Eff(code[pc].op) /\ rsp' >= 1
  BY <1>3, <1>4, PointersAre
<1> QED BY <1>3, <1>4, <1>5, <1>6, <1>7, GoesOn

LEMMA PushSteps ==
  ASSUME NEW F, NEW d, NEW B, StackAt(F, d, B), Push
  PROVE  StackNext(F, d)
<1>1. code[pc].op = "push" /\ rsp > 1 /\ calls' = calls /\ rbp' = rbp /\ rsp' = rsp - 1 /\ GoOn
  BY DEF Push, Is, I
<1>2. PICK value : mem' = [mem EXCEPT ![rsp - 1] = value]
  BY DEF Push
<1>3. Within(code[pc].op) /\ Eff(code[pc].op) = 1
  BY ONLY <1>1 DEF Within, Eff
<1>4. IsMemory(mem')
  BY <1>2 DEF StackAt, IsMemory
<1>5. ASSUME NEW a \in Int, Len(calls) > 0, a >= B[Len(calls)] PROVE mem'[a] = mem[a]
  <2>1. d[pc] >= 0
    BY <1>1, PointersAre DEF StepsTo, Fits
  <2>2. rsp = B[Len(calls)] - F[pc] - d[pc]
    BY <2>1, PointersAre DEF Entered, Called
  <2>3. rsp - 1 # a
    BY <1>5, <2>1, <2>2, PointersAre, SMTT(40)
  <2> QED BY <1>2, <2>3 DEF StackAt, IsMemory
<1>6. rsp' = rsp - Eff(code[pc].op) /\ rsp' >= 1
  BY <1>1, <1>3, PointersAre
<1> QED BY <1>1, <1>3, <1>4, <1>5, <1>6, GoesOn

LEMMA PopSteps ==
  ASSUME NEW F, NEW d, NEW B, StackAt(F, d, B), Pop
  PROVE  StackNext(F, d)
<1>1. code[pc].op = "pop" /\ calls' = calls /\ rbp' = rbp /\ rsp' = rsp + 1 /\ mem' = mem /\ GoOn
  BY DEF Pop, Is, I
<1>2. Within(code[pc].op) /\ Eff(code[pc].op) = -1
  BY ONLY <1>1 DEF Within, Eff
<1>3. rsp' = rsp - Eff(code[pc].op) /\ rsp' >= 1
  BY <1>1, <1>2, PointersAre
<1> QED BY <1>1, <1>2, <1>3, GoesOn DEF StackAt

LEMMA FrameSame ==
  ASSUME NEW F, NEW d, CodeRuns(code, F, d), NEW i \in 1..Len(code), NEW j \in 1..Len(code),
         code[i].fn = code[j].fn, code[i].of = 0 <=> code[j].of = 0
  PROVE  F[i] = F[j]
BY DEF CodeRuns

(* A label is in the code once it is jumped to. *)
LEMMA TargetFacts ==
  ASSUME NEW F, NEW d, CodeRuns(code, F, d), NEW f, NEW t, HasLabel(code, f, t)
  PROVE  \E j \in 1..Len(code) : /\ LabelAt(f, t) = At(j) /\ code[j].fn = f /\ code[j].of # 0
                                 /\ d[j] = IF t[1] = "fn" THEN -1 ELSE 0
<1>1. DOMAIN code = 1..Len(code) /\ Len(code) \in Nat
  BY SeqFacts DEF CodeRuns
<1>2. \E i \in 1..Len(code) : code[i].op = "label" /\ code[i].fn = f /\ code[i].arg = t
  BY DEF HasLabel, Elems
<1> PICK j : j = CHOOSE i \in DOMAIN code : code[i].op = "label" /\ code[i].fn = f /\ code[i].arg = t
  OBVIOUS
<1>3. j \in 1..Len(code) /\ code[j].op = "label" /\ code[j].fn = f /\ code[j].arg = t
  BY <1>1, <1>2
<1>4. LabelAt(f, t) = At(j)
  BY DEF LabelAt
<1>5. StepsTo(code[j].op, code[j].arg, d[j], d[j + 1])
  BY <1>3 DEF CodeRuns, CodeDepths
<1>6. d[j] = IF t[1] = "fn" THEN -1 ELSE 0
  BY <1>3, <1>5 DEF StepsTo, Fits
<1>7. code[j].of # 0
  <2>1. j # 1 /\ j # 2
    BY <1>3 DEF CodeRuns, Ordered
  <2>2. ~(j <= 2)
    BY <1>1, <1>3, <2>1
  <2> QED BY <1>3, <2>2 DEF CodeRuns, Ordered
<1> QED BY <1>3, <1>4, <1>6, <1>7

LEMMA JumpSteps ==
  ASSUME NEW F, NEW d, NEW B, StackAt(F, d, B), code[pc].op \in {"jmp", "je"},
         StackSame, pc' = LabelAt(code[pc].fn, code[pc].arg)
  PROVE  StackNext(F, d)
<1>1. d[pc] = 0
  BY PointersAre DEF StepsTo, Fits
<1>2. code[pc].of # 0
  <2>1. pc # 1 /\ pc # 2
    BY DEF StackAt, CodeRuns, Ordered
  <2>2. pc \in 1..Len(code) /\ ~(pc <= 2)
    BY <2>1, PointersAre
  <2> QED BY <2>2 DEF StackAt, CodeRuns, Ordered
<1>3. code[pc].arg[1] # "fn" /\ HasLabel(code, code[pc].fn, code[pc].arg)
  BY PointersAre, ZenonT(60) DEF StackAt, CodeRuns
<1>4. PICK j \in 1..Len(code) : pc' = At(j) /\ code[j].fn = code[pc].fn /\ code[j].of # 0 /\ d[j] = 0
  BY <1>3, TargetFacts DEF StackAt
<1>5. F[j] = F[pc]
  BY <1>2, <1>4, PointersAre, FrameSame DEF StackAt
<1>6. RunStack(code, F, d, B, calls, mem, j, rsp, rbp)
  BY <1>1, <1>2, <1>4, <1>5 DEF StackAt, RunStack, Points, Entered, Called
<1>7. RunStack(code, F, d, B, calls, mem, pc', rsp, rbp) /\ code[pc'].op # "label"
  BY <1>4, <1>6, StackSameAt DEF StackAt
<1>8. calls' = calls /\ rbp' = rbp /\ rsp' = rsp /\ mem' = mem
  BY DEF StackSame
<1> QED BY <1>7, <1>8 DEF StackNext, StackAt

LEMMA JmpJeSteps ==
  ASSUME NEW F, NEW d, NEW B, StackAt(F, d, B), Jmp \/ Je
  PROVE  StackNext(F, d)
<1>1. StackSame /\ code[pc].op \in {"jmp", "je"}
  BY DEF Jmp, Je, Is, I
<1>2. CASE pc' = LabelAt(code[pc].fn, code[pc].arg)
  BY <1>1, <1>2, JumpSteps
<1>3. CASE Je /\ pc' = At(pc + 1)
  <2>1. code[pc].op = "je"
    BY <1>3 DEF Je, Is, I
  <2>2. Within(code[pc].op) /\ Eff(code[pc].op) = 0
    BY ONLY <2>1 DEF Within, Eff
  <2>3. GoOn
    BY <1>3 DEF GoOn, Je, Goto
  <2> QED BY <1>1, <2>2, <2>3, StillSteps
<1> QED BY <1>2, <1>3 DEF Jmp, Je, Goto, I

LEMMA EnterSteps ==
  ASSUME NEW F, NEW d, NEW B, StackAt(F, d, B), Enter
  PROVE  StackNext(F, d)
<1> PICK n : n = Len(calls)
  OBVIOUS
<1>1. code[pc].op = "enter" /\ d[pc] = -1 /\ code[pc].arg = F[pc] /\ code[pc].op \notin Ends
  <2>1. code[pc].op = "enter"
    BY DEF Enter, Is, I
  <2>2. d[pc] = -1
    BY <2>1, PointersAre DEF StepsTo, Fits
  <2> QED BY <2>1, <2>2, PointersAre, SMTT(40) DEF StackAt, CodeRuns, Ends
<1>2. n \in Nat /\ n > 0 /\ rsp = B[n] + 1 /\ rbp = BaseOf(B, n - 1) /\ B[n] \in Int
  BY <1>1, PointersAre DEF Entered, Called
<1>3. /\ rsp > 1 + F[pc] /\ rbp' = rsp - 1 /\ rsp' = rsp - 1 - F[pc] /\ calls' = calls
      /\ mem' = [i \in 1..Memory |-> CASE i = rsp - 1 -> Val("rbp", rbp)
                                       [] i \in rsp'..(rsp - 2) -> Unwritten(mem[i].v)
                                       [] OTHER -> mem[i]]
      /\ pc' = At(pc + 1)
  BY <1>1 DEF Enter, GoOn, I
<1>4. /\ pc \in 1..Len(code) /\ F[pc] \in Nat /\ Memory \in Nat /\ rsp \in 1..(Memory + 1)
      /\ B[n] >= 1 /\ B[n] <= Memory /\ rsp' >= 1 /\ rsp' = B[n] - F[pc] /\ rsp - 1 = B[n]
  <2>1. pc \in 1..Len(code) /\ F[pc] \in Nat /\ Memory \in Nat /\ rsp \in 1..(Memory + 1)
    BY PointersAre
  <2>2. rsp > 1 + F[pc] /\ rsp' = rsp - 1 - F[pc]
    BY <1>3
  <2> PICK f, b, r, r2 : f = F[pc] /\ b = B[n] /\ r = rsp /\ r2 = rsp'
    OBVIOUS
  <2>3. f \in Nat /\ b \in Int /\ Memory \in Nat /\ r \in 1..(Memory + 1) /\ r > 1 + f /\ r2 = r - 1 - f /\ r = b + 1
    BY <1>2, <2>1, <2>2
  <2>4. b >= 1 /\ b <= Memory /\ r2 >= 1 /\ r2 = b - f /\ r - 1 = b
    BY ONLY <2>3
  <2> QED BY <2>1, <2>4
<1>5. mem'[B[n]] = Val("rbp", BaseOf(B, n - 1))
  BY <1>2, <1>3, <1>4
<1>6. \A a \in 1..Memory : a > B[n] => mem'[a] = mem[a]
  <2>1. \A a \in 1..Memory : a > B[n] => a # rsp - 1 /\ a \notin rsp'..(rsp - 2)
    BY <1>2, <1>4, SMTT(40)
  <2> QED BY <1>3, <2>1
<1>7. Frames(code, F, d, B, calls, mem')
  BY <1>4, <1>6, FramesKept DEF StackAt, RunStack
<1>8. /\ pc + 1 \in 1..Len(code) /\ F[pc + 1] = F[pc] /\ (code[pc + 1].of = 0 <=> code[pc].of = 0)
      /\ d[pc + 1] = 0
  <2>1. /\ pc + 1 \in 1..Len(code) /\ F[pc + 1] = F[pc] /\ (code[pc + 1].of = 0 <=> code[pc].of = 0)
        /\ d[pc + 1] = d[pc] + Eff(code[pc].op)
    BY <1>1, <1>4, NextLine DEF StackAt
  <2> QED BY <1>1, <2>1 DEF Eff
<1>9. RunStack(code, F, d, B, calls, mem', pc + 1, rsp', rbp')
  <2>1. rbp' = BaseOf(B, n)
    BY <1>2, <1>3, <1>4, BaseTop
  <2>2. Entered(code, F, d, B, n, mem', pc + 1, rsp', rbp')
    BY <1>4, <1>5, <1>8, <2>1 DEF Entered
  <2>3. code[pc].of = 0 <=> n = 0
    BY DEF StackAt, RunStack, Points
  <2> QED BY <1>4, <1>7, <1>8, <2>2, <2>3 DEF RunStack, Points
<1>10. RunStack(code, F, d, B, calls, mem', pc', rsp', rbp') /\ code[pc'].op # "label"
  BY <1>3, <1>9, StackSameAt DEF StackAt
<1>11. IsMemory(mem')
  BY <1>3 DEF IsMemory
<1> QED BY <1>3, <1>10, <1>11 DEF StackNext

LEMMA LeaveSteps ==
  ASSUME NEW F, NEW d, NEW B, StackAt(F, d, B), Leave
  PROVE  StackNext(F, d)
<1> PICK n : n = Len(calls)
  OBVIOUS
<1>1. code[pc].op = "leave" /\ d[pc] = 0 /\ code[pc].op \notin Ends
  <2>1. code[pc].op = "leave"
    BY DEF Leave, Is, I
  <2> QED BY <2>1, PointersAre DEF StepsTo, Fits, Ends
<1>2. /\ rsp' = rbp + 1 /\ rbp' = mem[rbp].v /\ calls' = calls /\ mem' = mem /\ pc' = At(pc + 1)
  BY DEF Leave, GoOn
<1>3. code[pc].of # 0 /\ n > 0 /\ n \in Nat
  <2>1. pc # 1 /\ pc # 2
    BY <1>1 DEF StackAt, CodeRuns, Ordered
  <2>2. pc \in 1..Len(code) /\ ~(pc <= 2)
    BY <2>1, PointersAre
  <2> QED BY <2>2, PointersAre DEF StackAt, CodeRuns, Ordered, RunStack, Points
<1>4. Entered(code, F, d, B, n, mem, pc, rsp, rbp)
  BY <1>1, PointersAre DEF Called
<1>5. rbp = B[n] /\ B[n] \in Int /\ B[n] >= 1 /\ rbp' = BaseOf(B, n - 1)
  <2>1. rbp = B[n] /\ mem[B[n]] = Val("rbp", BaseOf(B, n - 1)) /\ rsp = B[n] - F[pc] - 0
    BY <1>1, <1>3, <1>4, BaseTop DEF Entered
  <2> QED BY <1>2, <2>1, PointersAre, SMTT(40) DEF Val
<1>6. /\ pc + 1 \in 1..Len(code) /\ (code[pc + 1].of = 0 <=> code[pc].of = 0)
      /\ d[pc + 1] = -1
  <2>1. /\ pc + 1 \in 1..Len(code) /\ (code[pc + 1].of = 0 <=> code[pc].of = 0)
        /\ d[pc + 1] = d[pc] + Eff(code[pc].op)
    BY <1>1, PointersAre, NextLine DEF StackAt
  <2> QED BY <1>1, <2>1 DEF Eff
<1>7. RunStack(code, F, d, B, calls, mem, pc + 1, rsp', rbp')
  <2>1. Called(d, B, n, pc + 1, rsp', rbp') /\ rsp' >= 1
    BY <1>2, <1>3, <1>5, <1>6 DEF Called
  <2> QED BY <1>3, <1>6, <2>1 DEF RunStack, Points, StackAt
<1>8. RunStack(code, F, d, B, calls, mem, pc', rsp', rbp') /\ code[pc'].op # "label"
  BY <1>2, <1>7, StackSameAt DEF StackAt
<1> QED BY <1>2, <1>8 DEF StackNext, StackAt

LEMMA CallSteps ==
  ASSUME NEW F, NEW d, NEW B, StackAt(F, d, B), Call
  PROVE  StackNext(F, d)
<1> PICK n, s, t : n = Len(calls) /\ s = calls /\ t = Append(calls, pc + 1)
  OBVIOUS
<1>1. /\ code[pc].op = "call" /\ rsp > 1 /\ rsp' = rsp - 1 /\ calls' = t /\ rbp' = rbp
      /\ mem' = [mem EXCEPT ![rsp - 1] = Val("ret", pc + 1)] /\ pc' = Entry(code[pc].arg)
  BY DEF Call, Is, I, Goto
<1>2. d[pc] >= 0
  BY <1>1, PointersAre DEF StepsTo, Fits
<1>3. /\ n \in Nat /\ pc \in 1..Len(code) /\ Memory \in Nat /\ rsp \in 1..(Memory + 1)
      /\ F[pc] \in Nat /\ d[pc] \in Int /\ B[n] \in Int
      /\ Entered(code, F, d, B, n, mem, pc, rsp, rbp)
  BY <1>2, PointersAre DEF Called
<1>4. rsp = B[n] - F[pc] - d[pc] /\ rbp = BaseOf(B, n) /\ rsp <= B[n]
      /\ (n > 0 => mem[B[n]] = Val("rbp", BaseOf(B, n - 1)))
  <2>1. rsp = B[n] - F[pc] - d[pc]
    BY <1>3 DEF Entered
  <2>2. rsp <= B[n]
    BY ONLY <1>2, <1>3, <2>1
  <2> QED BY <1>3, <2>1, <2>2 DEF Entered
<1>5. IsSeq(s) /\ IsSeq(t) /\ Len(t) = n + 1 /\ t[n + 1] = pc + 1 /\ \A k \in 1..n : t[k] = s[k]
  <2>1. IsSeq(calls)
    BY DEF StackAt, RunStack, Frames
  <2> QED BY <2>1, AppendFacts
<1> PICK C : C = [k \in 0..(n + 1) |-> IF k = n + 1 THEN rsp - 2 ELSE B[k]]
  OBVIOUS
<1>6. /\ C \in [0..(n + 1) -> Int] /\ C[n + 1] = rsp - 2 /\ \A k \in 0..n : C[k] = B[k] /\ B[k] \in Int
  <2>1. \A k \in 0..n : B[k] \in Int
    BY FramesFacts DEF StackAt, RunStack
  <2>2. rsp - 2 \in Int /\ n + 1 \in 0..(n + 1) /\ \A k \in 0..n : k \in 0..(n + 1) /\ k # n + 1
    BY <1>3
  <2> QED BY <2>1, <2>2
<1>7. Frames(code, F, d, B, s, mem')
  <2>1. \A a \in 1..Memory : a > B[n] => a # rsp - 1
    BY <1>3, <1>4
  <2>2. \A a \in 1..Memory : a > B[n] => mem'[a] = mem[a]
    BY <1>1, <2>1 DEF StackAt, IsMemory
  <2>3. B[n] >= 0
    BY <1>3, <1>4
  <2> QED BY <2>2, <2>3, FramesKept DEF StackAt, RunStack
<1>8. /\ mem'[rsp - 1] = Val("ret", pc + 1)
      /\ n > 0 => mem'[B[n]] = Val("rbp", BaseOf(B, n - 1))
  <2>1. rsp - 1 \in 1..Memory /\ rsp - 1 # B[n]
    BY <1>1, <1>3, <1>4, SMTT(40)
  <2>2. rsp - 1 \in DOMAIN mem
    BY <2>1 DEF StackAt, IsMemory
  <2>3. mem'[rsp - 1] = Val("ret", pc + 1)
    BY <1>1, <2>2 DEF StackAt, IsMemory
  <2>4. n > 0 => B[n] \in 1..Memory
    <3>1. n > 0 => B[n] <= Memory - 1
      BY FramesFacts DEF StackAt, RunStack
    <3> QED BY <1>3, <1>4, <3>1
  <2>5. n > 0 => mem'[B[n]] = mem[B[n]]
    BY <1>1, <2>1, <2>4 DEF StackAt, IsMemory
  <2> QED BY <1>4, <2>3, <2>5
<1>9. code[pc].of = 0 <=> n = 0
  BY DEF StackAt, RunStack, Points
<1>10. Frames(code, F, d, C, t, mem')
  <2>1. C[0] = Memory + 1
    BY <1>3, <1>6 DEF StackAt, RunStack, Frames
  <2>2. \A k \in 0..n : BaseOf(C, k) = BaseOf(B, k)
    BY <1>6 DEF BaseOf
  <2> DEFINE Frame(b, u, k, m) ==
        /\ u[k] \in Int /\ u[k] - 1 \in 1..Len(code) /\ code[u[k] - 1].op = "call"
        /\ code[u[k] - 1].of = 0 <=> k = 1
        /\ mem'[b[k] + 1] = Val("ret", u[k])
        /\ b[k] + 2 = b[k - 1] - F[u[k] - 1] - d[u[k] - 1]
        /\ k < m => mem'[b[k]] = Val("rbp", BaseOf(b, k - 1))
  <2>3. ASSUME NEW k \in 1..n PROVE Frame(C, t, k, n + 1)
    <3>1. Frame(B, s, k, n)
      BY <1>7 DEF Frames
    <3>2. t[k] = s[k] /\ C[k] = B[k] /\ C[k - 1] = B[k - 1] /\ BaseOf(C, k - 1) = BaseOf(B, k - 1)
      <4>1. k \in 0..n /\ k - 1 \in 0..n
        BY <1>3
      <4> QED BY <1>5, <1>6, <2>2, <4>1
    <3>3. k < n \/ (k = n /\ n > 0)
      BY <1>3
    <3> QED BY <1>8, <3>1, <3>2, <3>3
  <2>4. Frame(C, t, n + 1, n + 1)
    <3>1. t[n + 1] = pc + 1 /\ (pc + 1) - 1 = pc /\ pc + 1 \in Int /\ (n + 1 = 1 <=> n = 0)
      BY <1>3, <1>5
    <3>2. C[n + 1] + 1 = rsp - 1 /\ C[n + 1] + 2 = rsp /\ C[(n + 1) - 1] = B[n]
      BY <1>3, <1>6
    <3>3. ~(n + 1 < n + 1)
      BY <1>3
    <3> QED BY <1>1, <1>3, <1>4, <1>8, <1>9, <3>1, <3>2, <3>3
  <2> HIDE DEF Frame
  <2>5. ASSUME NEW k \in 1..Len(t) PROVE Frame(C, t, k, Len(t))
    <3>1. k \in 1..n \/ k = n + 1
      BY <1>3, <1>5
    <3> QED BY <1>5, <2>3, <2>4, <3>1
  <2>6. ASSUME NEW j \in 0..Len(t), NEW k \in 0..Len(t), j < k PROVE C[k] + 2 <= C[j]
    <3>1. j \in 0..n /\ (k \in 0..n \/ k = n + 1)
      BY <1>3, <1>5, <2>6
    <3>2. CASE k \in 0..n
      <4>1. B[k] + 2 <= B[j]
        BY <1>7, <2>6, <3>1, <3>2 DEF Frames
      <4> QED BY <1>6, <3>1, <3>2, <4>1
    <3>3. CASE k = n + 1
      <4>1. B[j] >= B[n]
        BY <1>7, <3>1, FramesFacts
      <4>2. C[k] = rsp - 2 /\ C[j] = B[j] /\ B[j] \in Int
        BY <1>6, <3>1, <3>3
      <4> QED BY <1>3, <1>4, <4>1, <4>2, SMTT(40)
    <3> QED BY <3>1, <3>2, <3>3
  <2> USE DEF Frame
  <2> QED BY <1>5, <1>6, <2>1, <2>5, <2>6 DEF Frames
<1>11. HasLabel(code, code[pc].arg, Label("fn", code[pc].arg))
  BY <1>1, <1>3 DEF StackAt, CodeRuns
<1>12. PICK j \in 1..Len(code) : pc' = At(j) /\ code[j].of # 0 /\ d[j] = -1
  <2>1. Label("fn", code[pc].arg)[1] = "fn"
    BY LabelIs
  <2> QED BY <1>1, <1>11, <2>1, TargetFacts DEF StackAt, Entry
<1>13. RunStack(code, F, d, C, t, mem', j, rsp', rbp')
  <2>1. Called(d, C, n + 1, j, rsp', rbp')
    <3>1. (n + 1) - 1 = n /\ n + 1 > 0 /\ rsp' = C[n + 1] + 1 /\ BaseOf(C, n) = BaseOf(B, n)
      BY <1>1, <1>3, <1>6 DEF BaseOf
    <3> QED BY <1>1, <1>4, <1>12, <3>1 DEF Called
  <2>2. rsp' >= 1 /\ n + 1 # 0
    BY <1>1, <1>3
  <2> QED BY <1>5, <1>10, <1>12, <2>1, <2>2 DEF RunStack, Points
<1>14. RunStack(code, F, d, C, t, mem', pc', rsp', rbp') /\ code[pc'].op # "label"
  BY <1>12, <1>13, StackSameAt DEF StackAt
<1>15. IsMemory(mem')
  BY <1>1 DEF StackAt, IsMemory
<1> QED BY <1>1, <1>14, <1>15 DEF StackNext

LEMMA ReturnSteps ==
  ASSUME NEW F, NEW d, NEW B, StackAt(F, d, B), Return
  PROVE  StackNext(F, d)
<1> PICK n, s, t : n = Len(calls) /\ s = calls /\ t = SubSeq(calls, 1, Len(calls) - 1)
  OBVIOUS
<1>1. /\ code[pc].op = "ret" /\ rsp' = rsp + 1 /\ calls' = t /\ rbp' = rbp /\ mem' = mem
      /\ pc' = At(mem[rsp].v)
  BY DEF Return, Is, I, Goto
<1>2. d[pc] = -1
  BY <1>1, PointersAre DEF StepsTo, Fits
<1>3. n \in Nat /\ n > 0 /\ rsp = B[n] + 1 /\ rbp = BaseOf(B, n - 1) /\ B[n] \in Int /\ rsp >= 1
  BY <1>2, PointersAre DEF Entered, Called
<1>4. Frames(code, F, d, B, s, mem)
  BY DEF StackAt, RunStack
<1>5. IsSeq(t) /\ Len(t) = n - 1 /\ \A k \in 1..(n - 1) : t[k] = s[k]
  <2>1. IsSeq(calls) /\ calls # << >>
    BY <1>3, <1>4, SeqFacts DEF Frames
  <2> QED BY <2>1, FrontFacts
<1>6. n \in 1..n /\ n - 1 \in 0..n /\ n \in 0..n
  BY <1>3
<1> PICK x : x = s[n]
  OBVIOUS
<1>7. /\ x \in Int /\ x - 1 \in 1..Len(code) /\ code[x - 1].op = "call" /\ (code[x - 1].of = 0 <=> n = 1)
      /\ mem[rsp] = Val("ret", x) /\ B[n] + 2 = B[n - 1] - F[x - 1] - d[x - 1]
      /\ B[n - 1] \in Int
  BY <1>3, <1>4, <1>6 DEF Frames
<1>8. pc' = At(x)
  BY <1>1, <1>7 DEF Val
<1>9. /\ x \in 1..Len(code) /\ F[x] = F[x - 1] /\ F[x] \in Nat /\ (code[x].of = 0 <=> code[x - 1].of = 0)
      /\ d[x] = d[x - 1] /\ d[x] \in Int /\ d[x] >= 0
  <2> PICK y : y = x - 1
    OBVIOUS
  <2>1. y \in 1..Len(code) /\ code[y].op \notin Ends /\ y + 1 = x
    BY <1>7 DEF Ends
  <2>4. CodeRuns(code, F, d)
    BY DEF StackAt
  <2>5. /\ y + 1 \in 1..Len(code) /\ F[y + 1] = F[y] /\ F[y] \in Nat
        /\ (code[y + 1].of = 0 <=> code[y].of = 0)
        /\ d[y] \in Int /\ StepsTo(code[y].op, code[y].arg, d[y], d[y + 1])
    BY ONLY <2>1, <2>4, NextLine
  <2>2. /\ x \in 1..Len(code) /\ F[x] = F[x - 1] /\ F[x - 1] \in Nat
        /\ (code[x].of = 0 <=> code[x - 1].of = 0)
        /\ d[x - 1] \in Int /\ StepsTo(code[x - 1].op, code[x - 1].arg, d[x - 1], d[x])
    BY <2>1, <2>5
  <2>3. d[x - 1] >= 0 /\ d[x] = d[x - 1]
    BY <1>7, <2>2 DEF StepsTo, Fits, Eff
  <2> QED BY <2>2, <2>3
<1> PICK C : C = [k \in 0..(n - 1) |-> B[k]]
  OBVIOUS
<1>10. C \in [0..(n - 1) -> Int] /\ \A k \in 0..(n - 1) : C[k] = B[k] /\ BaseOf(C, k) = BaseOf(B, k) /\ k \in 0..n
  <2>1. \A k \in 0..n : B[k] \in Int
    BY <1>4, FramesFacts
  <2>2. \A k \in 0..(n - 1) : k \in 0..n
    BY <1>3
  <2> QED BY <2>1, <2>2 DEF BaseOf
<1>11. Frames(code, F, d, C, t, mem)
  <2>1. C[0] = Memory + 1
    BY <1>3, <1>4, <1>10 DEF Frames
  <2>2. ASSUME NEW k \in 1..Len(t)
        PROVE  /\ t[k] \in Int /\ t[k] - 1 \in 1..Len(code) /\ code[t[k] - 1].op = "call"
               /\ code[t[k] - 1].of = 0 <=> k = 1
               /\ mem[C[k] + 1] = Val("ret", t[k])
               /\ C[k] + 2 = C[k - 1] - F[t[k] - 1] - d[t[k] - 1]
               /\ k < Len(t) => mem[C[k]] = Val("rbp", BaseOf(C, k - 1))
    <3>1. k \in 1..(n - 1) /\ k \in 1..n /\ k \in 0..(n - 1) /\ k - 1 \in 0..(n - 1) /\ k < n
      BY <1>3, <1>5
    <3>2. t[k] = s[k] /\ C[k] = B[k] /\ C[k - 1] = B[k - 1] /\ BaseOf(C, k - 1) = BaseOf(B, k - 1)
      BY <1>5, <1>10, <3>1
    <3> QED BY <1>4, <3>1, <3>2, ZenonT(60) DEF Frames
  <2>3. ASSUME NEW j \in 0..Len(t), NEW k \in 0..Len(t), j < k PROVE C[k] + 2 <= C[j]
    <3>1. j \in 0..(n - 1) /\ k \in 0..(n - 1)
      BY <1>5
    <3> QED BY <1>4, <1>10, <2>3, <3>1 DEF Frames
  <2> QED BY <1>5, <1>10, <2>1, <2>2, <2>3 DEF Frames
<1>12. Entered(code, F, d, C, n - 1, mem, x, rsp', rbp')
  <2>1. n - 1 \in 0..(n - 1)
    BY <1>3
  <2>2. rsp' = C[n - 1] - F[x] - d[x]
    <3>1. rsp' = B[n] + 2
      BY <1>1, <1>3
    <3> QED BY <1>7, <1>9, <1>10, <2>1, <3>1
  <2>3. rbp' = BaseOf(C, n - 1)
    BY <1>1, <1>3, <1>10, <2>1
  <2>4. n - 1 > 0 => mem[C[n - 1]] = Val("rbp", BaseOf(C, (n - 1) - 1))
    <3> SUFFICES ASSUME n - 1 > 0
                 PROVE  mem[C[n - 1]] = Val("rbp", BaseOf(C, (n - 1) - 1))
      OBVIOUS
    <3>1. n - 1 \in 1..n /\ n - 1 < n /\ (n - 1) - 1 \in 0..(n - 1)
      BY <1>3
    <3>2. mem[B[n - 1]] = Val("rbp", BaseOf(B, (n - 1) - 1))
      BY <1>4, <3>1 DEF Frames
    <3> QED BY <1>10, <2>1, <3>1, <3>2
  <2> QED BY <1>9, <2>2, <2>3, <2>4 DEF Entered
<1>13. RunStack(code, F, d, C, t, mem, x, rsp', rbp')
  <2>1. rsp' >= 1 /\ (code[x].of = 0 <=> n - 1 = 0)
    BY <1>1, <1>3, <1>7, <1>9, SMTT(40)
  <2> QED BY <1>5, <1>9, <1>11, <1>12, <2>1 DEF RunStack, Points
<1>14. RunStack(code, F, d, C, t, mem, pc', rsp', rbp') /\ code[pc'].op # "label"
  BY <1>8, <1>13, StackSameAt DEF StackAt
<1> QED BY <1>1, <1>14 DEF StackNext, StackAt

LEMMA StackSteps ==
  ASSUME NEW F, NEW d, NEW B, StackAt(F, d, B), Execute
  PROVE  \/ StackNext(F, d)
         \/ phase' # "run" /\ UNCHANGED machineVars
<1>1. CASE \/ Immediate \/ Flag \/ Lea \/ Negate \/ Complement \/ SaveRight \/ Alu \/ Compare
           \/ Divide \/ Load \/ SysWrite
  BY <1>1, ComputeSteps
<1>2. CASE Store \/ Spill
  BY <1>2, SlotSteps
<1>3. CASE Push
  BY <1>3, PushSteps
<1>4. CASE Pop
  BY <1>4, PopSteps
<1>5. CASE Jmp \/ Je
  BY <1>5, JmpJeSteps
<1>6. CASE Call
  BY <1>6, CallSteps
<1>7. CASE Enter
  BY <1>7, EnterSteps
<1>8. CASE Leave
  BY <1>8, LeaveSteps
<1>9. CASE Return
  BY <1>9, ReturnSteps
<1>10. CASE DivideTrap \/ Exit
  BY <1>10 DEF DivideTrap, Exit
<1> QED BY <1>1, <1>2, <1>3, <1>4, <1>5, <1>6, <1>7, <1>8, <1>9, <1>10 DEF Execute

(* What the machine keeps of its stack. *)
StackInv ==
  /\ IsMemory(mem) /\ rsp \in 1..(Memory + 1)
  /\ phase \notin AfterLoad => rsp = Memory + 1 /\ rbp = 0 /\ calls = << >>
  /\ phase = "run" => \A F, d : CodeRuns(code, F, d) => \E B : StackAt(F, d, B)

LEMMA StackInit ==
  ASSUME MachineInit
  PROVE  ShapeInv /\ StackInv
<1>1. phase = "register"
  BY DEF MachineInit, SemaInit
<1>2. phase \in FrontEnd /\ phase \notin AfterLoad /\ phase # "run"
  BY <1>1 DEF FrontEnd, AfterLoad
<1>3. IsMemory(mem) /\ rsp = Memory + 1 /\ rbp = 0 /\ calls = << >>
  BY DEF MachineInit, IsMemory
<1>4. rsp \in 1..(Memory + 1)
  BY <1>3, MachineAssumption
<1> QED BY <1>2, <1>3, <1>4 DEF ShapeInv, StackInv

(* The machine starts in the start of the program, with an empty stack. *)
LEMMA LoadStack ==
  ASSUME StackInv, Assemble
  PROVE  StackInv'
<1>1. /\ rsp = Memory + 1 /\ rbp = 0 /\ calls = << >> /\ IsMemory(mem) /\ code' = code
      /\ rsp' = rsp /\ rbp' = rbp /\ calls' = calls /\ mem' = mem
  BY DEF StackInv, Assemble, AfterLoad, compilerVars, genVars
<1>2. phase' = "run" => pc' = 1
  BY DEF Assemble
<1>3. ASSUME phase' = "run", NEW F, NEW d, CodeRuns(code, F, d)
      PROVE  \E B : RunStack(code, F, d, B, << >>, mem, 1, rsp, rbp) /\ code[1].op # "label"
  <2> PICK B : B = [k \in 0..0 |-> Memory + 1]
    OBVIOUS
  <2>1. Memory + 1 \in Int /\ Memory + 1 >= 1 /\ 0..0 = {0} /\ 1..0 = {} /\ Len(<< >>) = 0
    BY MachineAssumption
  <2>2. IsSeq(<< >>) /\ B \in [0..0 -> Int] /\ B[0] = Memory + 1
    BY <2>1, FewLines
  <2>3. Frames(code, F, d, B, << >>, mem)
    BY <2>1, <2>2 DEF Frames
  <2>4. Len(code) \in Nat /\ Len(code) >= 2 /\ code[1].op = "call" /\ d[1] = 0
    BY <1>3, SeqFacts DEF CodeRuns, Ordered
  <2>5. 1 \in 1..Len(code)
    BY <2>4
  <2>6. code[1].of = 0
    BY <1>3, <2>5 DEF CodeRuns, Ordered
  <2>7. F[1] = 0
    BY <1>3, <2>5, <2>6 DEF CodeRuns
  <2>8. Entered(code, F, d, B, 0, mem, 1, rsp, rbp)
    BY <1>1, <2>1, <2>2, <2>4, <2>7 DEF Entered, BaseOf
  <2>9. rsp >= 1
    BY <1>1, <2>1
  <2>10. Points(code, F, d, B, 0, mem, 1, rsp, rbp)
    BY <2>5, <2>6, <2>8, <2>9 DEF Points
  <2> QED BY <2>1, <2>3, <2>4, <2>10 DEF RunStack
<1>4. rsp \in 1..(Memory + 1)
  BY DEF StackInv
<1>5. ASSUME phase' = "run", NEW F, NEW d, CodeRuns(code', F, d)
      PROVE  \E B : StackAt(F, d, B)'
  BY <1>1, <1>2, <1>3, <1>5 DEF StackAt
<1> QED BY <1>1, <1>4, <1>5 DEF StackInv, IsMemory

LEMMA ExecuteStack ==
  ASSUME IInv, ShapeInv, StackInv, Execute
  PROVE  StackInv'
<1>1. phase = "run" /\ phase' \in AfterLoad /\ code' = code
  BY ExecuteKeeps DEF compilerVars, genVars
<1>2. ASSUME NEW F, NEW d, CodeRuns(code, F, d)
      PROVE  StackNext(F, d) \/ (phase' # "run" /\ UNCHANGED machineVars)
  BY <1>1, <1>2, StackSteps DEF StackInv
<1>3. IsMemory(mem') /\ rsp' \in 1..(Memory + 1)
  <2>1. PICK F, d : CodeRuns(code, F, d)
    BY <1>1, RunCode
  <2>2. CASE StackNext(F, d)
    BY <2>1, <2>2, StackBound DEF StackNext
  <2>3. CASE UNCHANGED machineVars
    BY <2>3 DEF StackInv, machineVars
  <2> QED BY <1>2, <2>1, <2>2, <2>3
<1>4. ASSUME phase' = "run", NEW F, NEW d, CodeRuns(code', F, d)
      PROVE  \E B : StackAt(F, d, B)'
  <2>1. StackNext(F, d)
    BY <1>1, <1>2, <1>4
  <2> QED BY <1>1, <1>4, <2>1 DEF StackNext, StackAt
<1> QED BY <1>1, <1>3, <1>4 DEF StackInv, IsMemory

LEMMA StackInvNext ==
  ASSUME IInv, ShapeInv, StackInv, [MachineNext]_allVars
  PROVE  StackInv'
<1>1. CASE /\ UNCHANGED machineVars
           /\ phase \notin AfterLoad /\ phase' \notin AfterLoad
  <2>1. mem' = mem /\ rsp' = rsp /\ rbp' = rbp /\ calls' = calls /\ phase' # "run"
    BY <1>1 DEF machineVars, AfterLoad
  <2> QED BY <1>1, <2>1 DEF StackInv, IsMemory
<1>2. CASE SemaNext /\ UNCHANGED <<genVars, machineVars>>
  BY <1>1, <1>2, SemaPhases DEF FrontEnd, AfterLoad
<1>3. CASE GenNext /\ UNCHANGED machineVars
  BY <1>1, <1>3, GenPhases DEF AfterLoad
<1>4. CASE Assemble
  BY <1>4, LoadStack
<1>5. CASE Execute
  BY <1>5, ExecuteStack
<1>6. CASE UNCHANGED allVars
  <2>1. /\ mem' = mem /\ rsp' = rsp /\ rbp' = rbp /\ calls' = calls /\ pc' = pc
        /\ phase' = phase /\ code' = code
    BY <1>6 DEF allVars, semaVars, genVars, machineVars
  <2> QED BY <2>1 DEF StackInv, StackAt, IsMemory
<1> QED BY <1>2, <1>3, <1>4, <1>5, <1>6 DEF MachineNext

(* The strengthening with the stack. *)
StackIInv == IInv /\ ShapeInv /\ StackInv

LEMMA StackIInvNext ==
  ASSUME FewParameters
  PROVE  StackIInv /\ [MachineNext]_allVars => StackIInv'
<1> SUFFICES ASSUME StackIInv, [MachineNext]_allVars
             PROVE  StackIInv'
  OBVIOUS
<1>1. IInv /\ ShapeInv /\ StackInv
  BY DEF StackIInv
<1> QED BY <1>1, IInvNext, ShapeSteps, StackInvNext DEF StackIInv

LEMMA StackOf == StackIInv => StackBalanced
<1> SUFFICES ASSUME IInv, ShapeInv, StackInv
             PROVE  StackBalanced
  BY DEF StackIInv
<1>1. rsp \in 1..(Memory + 1)
  BY DEF StackInv
<1>2. CASE phase # "run"
  BY <1>1, <1>2 DEF StackBalanced, Is, Running
<1>3. CASE phase = "run"
  <2> PICK F, d : CodeRuns(code, F, d)
    BY <1>3, RunCode
  <2> PICK B : StackAt(F, d, B)
    BY <1>3 DEF StackInv
  <2> PICK n : n = Len(calls)
    OBVIOUS
  <2>1. /\ pc \in 1..Len(code) /\ n \in Nat /\ F[pc] \in Nat /\ B[n] \in Int
        /\ StepsTo(code[pc].op, code[pc].arg, d[pc], d[pc + 1])
        /\ Entered(code, F, d, B, n, mem, pc, rsp, rbp) \/ Called(d, B, n, pc, rsp, rbp)
    BY PointersAre
  <2>2. DOMAIN code = 1..Len(code) /\ Len(code) \in Nat
    BY SeqFacts DEF CodeRuns
  <2>3. pc \in DOMAIN code /\ I.op # "label"
    BY <2>1, <2>2 DEF StackAt, I
  <2>4. Is("pop") \/ Is("ret") => rsp \in 1..Memory
    <3>1. code[pc].op \in {"pop", "ret"} => rsp \in 1..Memory
      BY StackBound DEF StackAt
    <3> QED BY <3>1 DEF Is, I
  <2>5. Is("ret") => mem[rsp] = Val("ret", calls[n])
    <3> SUFFICES ASSUME code[pc].op = "ret"
                 PROVE  mem[rsp] = Val("ret", calls[n])
      BY DEF Is, I
    <3>1. d[pc] = -1
      BY <2>1 DEF StepsTo, Fits
    <3>2. n > 0 /\ rsp = B[n] + 1
      BY <2>1, <3>1 DEF Entered, Called
    <3>3. n \in 1..n
      BY <2>1, <3>2
    <3> QED BY <3>2, <3>3 DEF StackAt, RunStack, Frames
  <2>6. Is("store") \/ Is("jmp") \/ Is("je") => rsp = rbp - FrameSize(I.fn)
    <3> SUFFICES ASSUME code[pc].op \in {"store", "jmp", "je"}
                 PROVE  rsp = rbp - FrameSize(I.fn)
      BY DEF Is, I
    <3>1. d[pc] = 0
      BY <2>1 DEF StepsTo, Fits
    <3>2. code[pc].of # 0
      <4>1. pc # 1 /\ pc # 2
        BY DEF CodeRuns, Ordered
      <4>2. ~(pc <= 2)
        BY <2>1, <4>1
      <4> QED BY <2>1, <4>2 DEF CodeRuns, Ordered
    <3>3. n > 0
      BY <2>1, <3>2 DEF StackAt, RunStack, Points
    <3>4. rsp = B[n] - F[pc] /\ rbp = B[n]
      BY <2>1, <3>1, <3>3, BaseTop DEF Entered, Called
    <3>5. \E i \in 1..Len(code) : code[i].op = "enter" /\ code[i].fn = code[pc].fn
      BY <2>1, <3>2 DEF CodeRuns
    <3> PICK e : e = CHOOSE i \in DOMAIN code : code[i].op = "enter" /\ code[i].fn = code[pc].fn
      OBVIOUS
    <3>6. e \in 1..Len(code) /\ code[e].op = "enter" /\ code[e].fn = code[pc].fn
      BY <2>2, <3>5
    <3>7. code[e].of # 0
      <4>1. e # 1 /\ e # 2
        BY <3>6 DEF CodeRuns, Ordered
      <4>2. ~(e <= 2)
        BY <3>6, <4>1
      <4> QED BY <3>6, <4>2 DEF CodeRuns, Ordered
    <3>8. F[e] = F[pc]
      BY <2>1, <3>2, <3>6, <3>7, FrameSame
    <3>9. FrameSize(I.fn) = code[e].arg
      BY DEF FrameSize, I
    <3>10. code[e].arg = F[e]
      BY <3>6 DEF CodeRuns
    <3> QED BY <3>4, <3>8, <3>9, <3>10
  <2> QED BY <1>1, <2>3, <2>4, <2>5, <2>6 DEF StackBalanced
<1> QED BY <1>2, <1>3

(* In every behaviour of every program whose functions have a register for *)
(* each parameter, the machine stays in the code and the stack pointer in  *)
(* the stack, every return goes back behind its call, and between two      *)
(* statements nothing but the frame is on the stack (emit_call, emit_fn,   *)
(* emit_binary, emit_stmt).                                                *)
THEOREM StackKept == FewParameters => (MachineSpec => []StackBalanced)
<1> SUFFICES ASSUME FewParameters
             PROVE  MachineSpec => []StackBalanced
  OBVIOUS
<1>1. MachineInit => StackIInv
  BY IInvInit, StackInit DEF StackIInv
<1>2. StackIInv /\ [MachineNext]_allVars => StackIInv'
  BY StackIInvNext
<1>3. StackIInv => StackBalanced
  BY StackOf
<1> QED BY <1>1, <1>2, <1>3, PTL DEF MachineSpec
=============================================================================
