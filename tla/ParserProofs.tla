---------------------------- MODULE ParserProofs ----------------------------
(***************************************************************************)
(* What is proved of the statement parser, for every function and every    *)
(* capacity of the arena: its types, that no chain of siblings is ever a   *)
(* ring, that an accepted tree is complete, and that a tree has the shape  *)
(* of the program when no handler's state was overwritten.                 *)
(***************************************************************************)
EXTENDS Parser, WellFoundedInduction, SequenceTheorems, TLAPS

NodeType == [kind : NodeKinds, child : Nat, next : Nat]

(* An arena: the links name its nodes, and unless it has overflowed every  *)
(* node that was asked for is there.                                       *)
Arena(a) ==
  /\ a \in [nodes : Seq(NodeType), kids : Seq(Seq(NodeIds)), err : BOOLEAN, calls : Nat]
  /\ Len(a.nodes) <= AST_CAP /\ Len(a.kids) = Len(a.nodes)
  /\ \A i \in Ids(a) : /\ a.nodes[i].child \in 0 .. Len(a.nodes)
                       /\ a.nodes[i].next \in 0 .. Len(a.nodes)
  /\ a.err \/ a.calls = Len(a.nodes)

(* No chain of siblings is a ring: there is a rank that falls along it.    *)
Ranking(a, r) ==
  /\ r \in [Ids(a) -> Ids(a)]
  /\ \A m, n \in Ids(a) : r[m] = r[n] => m = n
  /\ \A n \in Ids(a) : a.nodes[n].next # 0 => r[a.nodes[n].next] < r[n]
Ranked(a) == \E r : Ranking(a, r)

(* A node that is not in the tree yet.                                     *)
Free(a, n) ==
  /\ n \in Ids(a) /\ a.nodes[n].next = 0
  /\ \A m \in Ids(a) : a.nodes[m].child # n /\ a.nodes[m].next # n

Good(a, F) == Arena(a) /\ Ranked(a) /\ \A n \in F : Free(a, n)

(* What linking keeps, when the nodes in F are still free behind it. *)
Kept(a, b, F) ==
  /\ Good(b, F) /\ Len(b.nodes) = Len(a.nodes)
  /\ b.kids = a.kids /\ b.err = a.err

(* The chains are the sequences k: the children of p, in order, are k[p],  *)
(* and no node is listed twice.                                            *)
Chained(ns, head, s) ==
  /\ s \in Seq(Nat) /\ Len(s) \in Nat
  /\ \A i \in 1 .. Len(s) : s[i] \in 1 .. Len(ns)
  /\ \A i \in 1 .. Len(s) : i # Len(s) => ns[s[i]].next = s[i + 1]
  /\ Len(s) # 0 => head = s[1] /\ ns[s[Len(s)]].next = 0
  /\ Len(s) = 0 => head = 0

Shape(ns, k) ==
  /\ k \in Seq(Seq(Nat)) /\ Len(k) = Len(ns)
  /\ \A p \in 1 .. Len(ns) : Chained(ns, ns[p].child, k[p])
  /\ \A p, q \in 1 .. Len(ns) : \A i \in 1 .. Len(k[p]), j \in 1 .. Len(k[q]) :
       k[p][i] = k[q][j] => p = q /\ i = j

(* Every set of numbers that is not empty has a least one. *)
Less == OpToRel(<, Nat)
LEMMA LeastOf ==
  ASSUME NEW S \in SUBSET Nat, S # {}
  PROVE  \E m \in S : \A k \in S : m <= k
<1>1. IsWellFoundedOn(Less, Nat)
  BY NatLessThanWellFounded DEF Less
<1>2. PICK m \in S : \A k \in S : ~(<<k, m>> \in Less)
  BY <1>1, WFMin, Zenon
<1>3. \A k \in S : ~(k < m)
  BY <1>2 DEF Less, OpToRel
<1> QED BY <1>3
-----------------------------------------------------------------------------
(* One more node.                                                          *)

LEMMA ArenaParts ==
  ASSUME NEW a, Arena(a)
  PROVE  /\ a = [nodes |-> a.nodes, kids |-> a.kids, err |-> a.err, calls |-> a.calls]
         /\ a.nodes \in Seq(NodeType) /\ Len(a.nodes) \in Nat /\ Ids(a) = 1 .. Len(a.nodes)
         /\ a.kids \in Seq(Seq(NodeIds)) /\ Len(a.kids) \in Nat
         /\ a.err \in BOOLEAN /\ a.calls \in Nat
         /\ AST_CAP \in Nat /\ Len(a.nodes) <= AST_CAP
         /\ \A n \in Ids(a) : /\ a.nodes[n] \in NodeType
                              /\ a.nodes[n] = [kind |-> a.nodes[n].kind, child |-> a.nodes[n].child,
                                               next |-> a.nodes[n].next]
<1>1. /\ a.nodes \in Seq(NodeType) /\ Len(a.nodes) \in Nat
      /\ a.kids \in Seq(Seq(NodeIds)) /\ Len(a.kids) \in Nat
      /\ a.err \in BOOLEAN /\ a.calls \in Nat
      /\ a = [nodes |-> a.nodes, kids |-> a.kids, err |-> a.err, calls |-> a.calls]
  BY DEF Arena
<1>2. \A n \in 1 .. Len(a.nodes) : a.nodes[n] \in NodeType
  BY <1>1
<1> QED BY <1>1, <1>2, AstAssumption DEF Arena, Ids, NodeType

LEMMA NewFull ==
  ASSUME NEW a, NEW F, Good(a, F), FreshId(a) = 0, NEW kind, NEW child
  PROVE  /\ Good(ast_new(a, kind, child), F)
         /\ ast_new(a, kind, child).nodes = a.nodes /\ ast_new(a, kind, child).err = TRUE
         /\ ast_new(a, kind, child).kids = a.kids
<1> DEFINE b == ast_new(a, kind, child)
<1>0. a = [nodes |-> a.nodes, kids |-> a.kids, err |-> a.err, calls |-> a.calls]
  BY ArenaParts DEF Good
<1>1. b = [nodes |-> a.nodes, kids |-> a.kids, err |-> TRUE, calls |-> a.calls + 1]
  BY <1>0 DEF ast_new, Overflow
<1> HIDE DEF b
<1>2. b.nodes = a.nodes /\ b.kids = a.kids /\ b.err = TRUE /\ Ids(b) = Ids(a)
  BY <1>1 DEF Ids
<1>3. Arena(b)
  BY <1>1, <1>2, ArenaParts DEF Arena, Good
<1>4. Ranked(b) /\ \A n \in F : Free(b, n)
  BY <1>2 DEF Good, Ranked, Ranking, Free
<1> QED BY <1>2, <1>3, <1>4 DEF Good, b

LEMMA NewRoom ==
  ASSUME NEW a, NEW F, Good(a, F), FreshId(a) # 0,
         NEW kind \in NodeKinds, NEW child \in 0 .. Len(a.nodes)
  PROVE  /\ FreshId(a) = Len(a.nodes) + 1 /\ FreshId(a) \notin F
         /\ Good(ast_new(a, kind, child), (F \ {child}) \cup {FreshId(a)})
         /\ ast_new(a, kind, child).nodes = Append(a.nodes, Node(kind, child))
         /\ ast_new(a, kind, child).kids = Append(a.kids, Alone(child))
         /\ ast_new(a, kind, child).err = a.err
<1> DEFINE b == ast_new(a, kind, child)
           s == Len(a.nodes) + 1
<1>0. /\ FreshId(a) = s /\ s <= AST_CAP /\ Arena(a)
      /\ a = [nodes |-> a.nodes, kids |-> a.kids, err |-> a.err, calls |-> a.calls]
  BY ArenaParts DEF FreshId, Good
<1>1. b = [nodes |-> Append(a.nodes, Node(kind, child)), kids |-> Append(a.kids, Alone(child)),
           err |-> a.err, calls |-> a.calls + 1]
  BY <1>0 DEF ast_new
<1> HIDE DEF b
<1>2. Node(kind, child) \in NodeType /\ Alone(child) \in Seq(NodeIds)
  <2>1. child \in Nat /\ child \in NodeIds
    BY <1>0, ArenaParts DEF NodeIds
  <2> QED BY <2>1 DEF Node, NodeType, Alone
<1>3. /\ b.nodes \in Seq(NodeType) /\ Len(b.nodes) = s
      /\ b.nodes[s] = Node(kind, child)
      /\ \A i \in Ids(a) : b.nodes[i] = a.nodes[i]
  BY <1>0, <1>1, <1>2, ArenaParts DEF Ids
<1>4. b.kids \in Seq(Seq(NodeIds)) /\ Len(b.kids) = s /\ b.calls \in Nat /\ b.err \in BOOLEAN
  <2>1. Len(a.kids) = Len(a.nodes)
    BY <1>0 DEF Arena
  <2> QED BY <1>0, <1>1, <1>2, <2>1, ArenaParts
<1>5. /\ \A i \in Ids(b) : i \in Ids(a) \/ i = s
      /\ \A i \in Ids(a) : i \in Ids(b)
      /\ s \in Ids(b) /\ s \notin Ids(a) /\ s # 0
  BY <1>0, <1>3, ArenaParts DEF Ids
<1>6. /\ \A i \in Ids(a) : a.nodes[i].child \in 0 .. Len(a.nodes) /\ a.nodes[i].next \in 0 .. Len(a.nodes)
      /\ Node(kind, child).child = child /\ Node(kind, child).next = 0
  BY <1>0 DEF Arena, Node
<1>7. Arena(b)
  <2>1. b \in [nodes : Seq(NodeType), kids : Seq(Seq(NodeIds)), err : BOOLEAN, calls : Nat]
    BY <1>1, <1>3, <1>4
  <2>2. ASSUME NEW i \in Ids(b)
        PROVE  b.nodes[i].child \in 0 .. s /\ b.nodes[i].next \in 0 .. s
    <3>1. CASE i \in Ids(a)
      BY <1>0, <1>3, <1>6, <3>1, ArenaParts
    <3>2. CASE i = s
      BY <1>0, <1>3, <1>6, <3>2, ArenaParts
    <3> QED BY <1>5, <3>1, <3>2
  <2>3. b.err \/ b.calls = s
    BY <1>0, <1>1, ArenaParts DEF Arena
  <2> QED BY <1>0, <1>3, <1>4, <2>1, <2>2, <2>3 DEF Arena
<1>8. Ranked(b)
  <2>1. PICK r : Ranking(a, r)
    BY DEF Good, Ranked
  <2> DEFINE q == [n \in Ids(b) |-> IF n = s THEN s ELSE r[n]]
  <2>2. q \in [Ids(b) -> Ids(b)]
    BY <1>5, <2>1 DEF Ranking
  <2>3. \A m, n \in Ids(b) : q[m] = q[n] => m = n
    BY <1>5, <2>1 DEF Ranking
  <2>4. ASSUME NEW n \in Ids(b), b.nodes[n].next # 0
        PROVE  q[b.nodes[n].next] < q[n]
    <3>1. n \in Ids(a)
      BY <1>3, <1>5, <1>6, <2>4
    <3>2. b.nodes[n].next = a.nodes[n].next /\ a.nodes[n].next \in Ids(a)
      BY <1>3, <1>6, <2>4, <3>1 DEF Ids
    <3> QED BY <1>5, <2>1, <2>4, <3>1, <3>2 DEF Ranking
  <2> QED BY <2>2, <2>3, <2>4 DEF Ranked, Ranking
<1>9. ASSUME NEW n \in F \ {child}
      PROVE  Free(b, n)
  BY <1>3, <1>5, <1>6 DEF Good, Free
<1>10. Free(b, s)
  <2>1. s # child /\ \A i \in Ids(a) : a.nodes[i].child # s /\ a.nodes[i].next # s
    BY <1>0, <1>6, ArenaParts
  <2> QED BY <1>3, <1>5, <1>6, <2>1 DEF Free
<1>11. s \notin F
  BY <1>5 DEF Good, Free
<1>12. Good(b, (F \ {child}) \cup {s})
  <2>1. \A n \in (F \ {child}) \cup {s} : Free(b, n)
    BY <1>9, <1>10
  <2> QED BY <1>7, <1>8, <2>1 DEF Good
<1>13. /\ b.nodes = Append(a.nodes, Node(kind, child)) /\ b.kids = Append(a.kids, Alone(child))
       /\ b.err = a.err
  BY <1>1
<1> QED BY <1>0, <1>11, <1>12, <1>13 DEF b

(* A last child alone is a chain. *)
LEMMA ChainedOne ==
  ASSUME NEW ns, NEW c \in 1 .. Len(ns), Len(ns) \in Nat, ns[c].next = 0
  PROVE  Chained(ns, c, <<c>>)
<1>1. <<c>> \in Seq(Nat) /\ Len(<<c>>) = 1 /\ <<c>>[1] = c
  OBVIOUS
<1> DEFINE s == <<c>>
<1> HIDE DEF s
<1>2. s \in Seq(Nat) /\ Len(s) = 1 /\ s[1] = c
  BY <1>1 DEF s
<1>3. Chained(ns, c, s)
  BY <1>2 DEF Chained
<1> QED BY <1>3 DEF s

(* No node is listed twice. *)
LEMMA ShapeOnce ==
  ASSUME NEW ns, NEW k, Shape(ns, k), NEW p \in 1 .. Len(ns), NEW q \in 1 .. Len(ns),
         NEW i \in 1 .. Len(k[p]), NEW j \in 1 .. Len(k[q]), k[p][i] = k[q][j]
  PROVE  p = q /\ i = j
<1>1. \A u, v \in 1 .. Len(ns) : \A x \in 1 .. Len(k[u]), y \in 1 .. Len(k[v]) :
        k[u][x] = k[v][y] => u = v /\ x = y
  BY DEF Shape
<1> QED BY <1>1, Zenon

(* A node that is not in the tree is nobody's listed child. *)
LEMMA FreeUnlisted ==
  ASSUME NEW a, NEW k, NEW c, Arena(a), Shape(a.nodes, k), Free(a, c)
  PROVE  \A p \in Ids(a) : \A i \in 1 .. Len(k[p]) : k[p][i] # c
<1> SUFFICES ASSUME NEW p \in Ids(a), NEW i \in 1 .. Len(k[p]), k[p][i] = c
             PROVE  FALSE
  OBVIOUS
<1>0. p \in 1 .. Len(a.nodes)
  BY DEF Ids
<1>1. Chained(a.nodes, a.nodes[p].child, k[p])
  BY <1>0 DEF Shape
<1>2. CASE i = 1
  <2>1. a.nodes[p].child = c
    BY <1>1, <1>2 DEF Chained
  <2> QED BY <2>1 DEF Free
<1>3. CASE i # 1
  <2>1. i - 1 \in 1 .. Len(k[p]) /\ i - 1 # Len(k[p]) /\ i - 1 + 1 = i
    BY <1>1, <1>3 DEF Chained
  <2>2. k[p][i - 1] \in Ids(a) /\ a.nodes[k[p][i - 1]].next = k[p][i]
    BY <1>1, <2>1 DEF Ids, Chained
  <2> QED BY <2>2 DEF Free
<1> QED BY <1>2, <1>3

(* One more node keeps the shape: it has its child, or none, and is not in *)
(* the tree yet.                                                           *)
LEMMA NewShape ==
  ASSUME NEW a, NEW k, Arena(a), Shape(a.nodes, k), NEW kind, NEW c \in Nat,
         c # 0 => Free(a, c)
  PROVE  Shape(Append(a.nodes, Node(kind, c)), Append(k, Alone(c)))
<1> DEFINE N == Len(a.nodes)
           ns == Append(a.nodes, Node(kind, c))
           h == Append(k, Alone(c))
<1>1. /\ N \in Nat /\ Len(ns) = N + 1 /\ ns[N + 1] = Node(kind, c)
      /\ \A i \in 1 .. N : ns[i] = a.nodes[i]
  BY ArenaParts
<1>2. /\ Alone(c) \in Seq(Nat) /\ Len(Alone(c)) = (IF c = 0 THEN 0 ELSE 1)
      /\ c # 0 => Alone(c)[1] = c
  BY DEF Alone
<1>3. k \in Seq(Seq(Nat)) /\ Len(k) = N
  BY DEF Shape
<1>4. /\ h \in Seq(Seq(Nat)) /\ Len(h) = N + 1 /\ h[N + 1] = Alone(c)
      /\ \A i \in 1 .. N : h[i] = k[i] /\ k[i] \in Seq(Nat) /\ Len(k[i]) \in Nat
  BY <1>1, <1>2, <1>3
<1> HIDE DEF ns, h
<1>5. ASSUME NEW p \in 1 .. N + 1
      PROVE  Chained(ns, ns[p].child, h[p])
  <2>1. CASE p = N + 1
    <3>1. ns[p].child = c
      BY <1>1, <2>1 DEF Node
    <3>2. c # 0 => c \in 1 .. N /\ a.nodes[c].next = 0
      BY DEF Free, Ids
    <3>3. CASE c = 0
      BY <1>1, <1>2, <1>4, <2>1, <3>1, <3>3 DEF Chained
    <3>4. CASE c # 0
      <4>1. ns[c].next = 0 /\ c \in 1 .. Len(ns) /\ Len(ns) \in Nat
        BY <1>1, <3>2, <3>4
      <4>2. h[p] = <<c>>
        BY <1>4, <2>1, <3>4 DEF Alone
      <4> QED BY <3>1, <4>1, <4>2, ChainedOne
    <3> QED BY <3>3, <3>4
  <2>2. CASE p # N + 1
    <3>1. p \in 1 .. N
      BY <1>1, <2>2
    <3>2. Chained(a.nodes, a.nodes[p].child, k[p])
      BY <3>1 DEF Shape
    <3>3. \A i \in 1 .. Len(k[p]) : k[p][i] \in 1 .. N /\ k[p][i] \in 1 .. N + 1
      BY <1>1, <3>2 DEF Chained
    <3>4. Len(k[p]) # 0 => k[p][Len(k[p])] \in 1 .. N
      BY <3>2, <3>3 DEF Chained
    <3>5. Chained(ns, a.nodes[p].child, k[p])
      BY <1>1, <3>2, <3>3, <3>4 DEF Chained
    <3> QED BY <1>1, <1>4, <3>1, <3>5
  <2> QED BY <2>1, <2>2
<1>6. ASSUME NEW p \in 1 .. N, NEW i \in 1 .. Len(h[p]), NEW j \in 1 .. Len(h[N + 1])
      PROVE  h[p][i] # h[N + 1][j]
  <2>1. c # 0 /\ h[N + 1][j] = c
    BY <1>2, <1>4
  <2>2. Free(a, c) /\ p \in Ids(a)
    BY <2>1 DEF Ids
  <2>3. \A x \in 1 .. Len(k[p]) : k[p][x] # c
    BY <2>2, FreeUnlisted
  <2> QED BY <1>4, <2>1, <2>3
<1>7. ASSUME NEW p \in 1 .. N + 1, NEW q \in 1 .. N + 1,
             NEW i \in 1 .. Len(h[p]), NEW j \in 1 .. Len(h[q]), h[p][i] = h[q][j]
      PROVE  p = q /\ i = j
  <2>1. CASE p \in 1 .. N /\ q \in 1 .. N
    <3>1. h[p] = k[p] /\ h[q] = k[q] /\ k[p][i] = k[q][j]
      BY <1>4, <1>7, <2>1
    <3> QED BY <2>1, <3>1, ShapeOnce
  <2>2. CASE p = N + 1 /\ q = N + 1
    <3>1. Len(h[N + 1]) \in {0, 1}
      BY <1>2, <1>4
    <3>2. Len(h[p]) \in {0, 1} /\ Len(h[q]) \in {0, 1}
      BY <2>2, <3>1, Zenon
    <3>3. \A n \in {0, 1} : \A m \in 1 .. n : m = 1
      OBVIOUS
    <3>4. i = 1 /\ j = 1
      BY <3>2, <3>3, Zenon
    <3> QED BY <2>2, <3>4, Zenon
  <2>3. CASE p \in 1 .. N /\ q = N + 1
    BY <1>6, <1>7, <2>3
  <2>4. CASE p = N + 1 /\ q \in 1 .. N
    BY <1>6, <1>7, <2>4
  <2> QED BY <1>1, <2>1, <2>2, <2>3, <2>4
<1>8. Shape(ns, h)
  BY <1>1, <1>4, <1>5, <1>7 DEF Shape
<1> QED BY <1>8 DEF ns, h

(* ast_new, whether there is room or not. *)
LEMMA New ==
  ASSUME NEW a, NEW F, Good(a, F), NEW kind \in NodeKinds, NEW child \in 0 .. Len(a.nodes)
  PROVE  /\ FreshId(a) \in {0, Len(a.nodes) + 1} /\ FreshId(a) \notin F
         /\ Good(ast_new(a, kind, child), (F \ {child}) \cup ({FreshId(a)} \ {0}))
         /\ Len(ast_new(a, kind, child).nodes) = Len(a.nodes) + IF FreshId(a) = 0 THEN 0 ELSE 1
         /\ ~ast_new(a, kind, child).err => FreshId(a) # 0 /\ ~a.err
         /\ /\ Shape(a.nodes, a.kids) /\ ~ast_new(a, kind, child).err
            /\ child # 0 => Free(a, child)
            => Shape(ast_new(a, kind, child).nodes, ast_new(a, kind, child).kids)
<1>a. Arena(a) /\ a.nodes \in Seq(NodeType) /\ Len(a.nodes) \in Nat
  BY ArenaParts DEF Good
<1>1. CASE FreshId(a) = 0
  <2>1. 0 \notin F
    BY <1>a DEF Good, Free, Ids
  <2>2. Good(ast_new(a, kind, child), F \ {child})
    BY <1>1, NewFull DEF Good
  <2>3. F \ {child} = (F \ {child}) \cup ({FreshId(a)} \ {0})
    BY <1>1
  <2>4. /\ ast_new(a, kind, child).nodes = a.nodes /\ ast_new(a, kind, child).err = TRUE
    BY <1>1, NewFull
  <2>5. Good(ast_new(a, kind, child), (F \ {child}) \cup ({FreshId(a)} \ {0}))
    BY <2>2, <2>3
  <2> QED BY <1>1, <1>a, <2>1, <2>4, <2>5
<1>2. CASE FreshId(a) # 0
  <2> DEFINE b == ast_new(a, kind, child)
  <2>1. /\ FreshId(a) = Len(a.nodes) + 1 /\ FreshId(a) \notin F
        /\ Good(b, (F \ {child}) \cup {FreshId(a)})
        /\ b.nodes = Append(a.nodes, Node(kind, child))
        /\ b.kids = Append(a.kids, Alone(child))
        /\ b.err = a.err
    BY <1>2, NewRoom
  <2> HIDE DEF b
  <2>2. {FreshId(a)} = {FreshId(a)} \ {0}
    BY <1>2
  <2>3. Good(b, (F \ {child}) \cup ({FreshId(a)} \ {0}))
    BY <2>1, <2>2
  <2>4. Len(b.nodes) = Len(a.nodes) + 1
    BY <1>a, <2>1
  <2>5. ASSUME Shape(a.nodes, a.kids), child # 0 => Free(a, child)
        PROVE  Shape(b.nodes, b.kids)
    <3>1. child \in Nat
      BY <1>a
    <3>2. Shape(Append(a.nodes, Node(kind, child)), Append(a.kids, Alone(child)))
      BY <1>a, <2>5, <3>1, NewShape
    <3> QED BY <2>1, <3>2
  <2> QED BY <1>2, <2>1, <2>3, <2>4, <2>5 DEF b
<1> QED BY <1>1, <1>2
-----------------------------------------------------------------------------
(* Chains.                                                                 *)

(* Counting up to n. *)
LEMMA UpTo ==
  ASSUME NEW n \in Nat, NEW T, 0 \in T, \A k \in 0 .. n : k # n /\ k \in T => k + 1 \in T
  PROVE  \A k \in 0 .. n : k \in T
<1> DEFINE Out == {k \in 0 .. n : k \notin T}
<1>1. SUFFICES ASSUME Out # {} PROVE FALSE
  OBVIOUS
<1>2. Out \in SUBSET Nat
  OBVIOUS
<1>3. PICK m \in Out : \A k \in Out : m <= k
  BY <1>1, <1>2, LeastOf, Zenon
<1>4. m \in 0 .. n /\ m \notin T /\ m # 0
  BY <1>3
<1>5. m - 1 \in 0 .. n /\ m - 1 # n /\ m - 1 + 1 = m /\ m - 1 < m
  BY <1>4
<1>6. m - 1 \in T
  BY <1>3, <1>5
<1> QED BY <1>4, <1>5, <1>6

(* w is what the first m links lead to. *)
IsWalk(a, c, w, m) ==
  w = [k \in 0 .. m |-> IF k = 0 THEN c ELSE IF w[k - 1] = 0 THEN 0 ELSE a.nodes[w[k - 1]].next]

LEMMA WalkExists ==
  ASSUME NEW a, NEW c, NEW n \in Nat
  PROVE  \E w : IsWalk(a, c, w, n)
<1> DEFINE T == {k \in 0 .. n : \E w : IsWalk(a, c, w, k)}
<1>1. 0 \in T
  <2> DEFINE w == [k \in 0 .. 0 |-> c]
  <2>1. IsWalk(a, c, w, 0)
    BY DEF IsWalk
  <2> QED BY <2>1
<1>2. ASSUME NEW k \in 0 .. n, k # n, k \in T
      PROVE  k + 1 \in T
  <2>1. PICK w : IsWalk(a, c, w, k)
    BY <1>2
  <2> DEFINE v == [i \in 0 .. k + 1 |->
                     IF i = k + 1 THEN (IF w[k] = 0 THEN 0 ELSE a.nodes[w[k]].next) ELSE w[i]]
  <2>2. ASSUME NEW i \in 0 .. k + 1
        PROVE  v[i] = IF i = 0 THEN c ELSE IF v[i - 1] = 0 THEN 0 ELSE a.nodes[v[i - 1]].next
    <3>1. CASE i = k + 1
      <4>1. i # 0 /\ i - 1 = k /\ k \in 0 .. k + 1 /\ k # k + 1
        BY <3>1
      <4> QED BY <3>1, <4>1
    <3>2. CASE i # k + 1
      <4>1. i \in 0 .. k
        BY <3>2
      <4>2. w[i] = IF i = 0 THEN c ELSE IF w[i - 1] = 0 THEN 0 ELSE a.nodes[w[i - 1]].next
        BY <4>1, <2>1 DEF IsWalk
      <4>3. i # 0 => i - 1 \in 0 .. k + 1 /\ i - 1 # k + 1
        BY <4>1
      <4> QED BY <3>2, <4>2, <4>3
    <3> QED BY <3>1, <3>2
  <2>3. IsWalk(a, c, v, k + 1)
    BY <2>2 DEF IsWalk
  <2>4. k + 1 \in 0 .. n
    BY <1>2
  <2> QED BY <2>3, <2>4
<1> HIDE DEF T
<1>3. \A k \in 0 .. n : k \in T
  BY <1>1, <1>2, UpTo
<1> QED BY <1>3 DEF T

LEMMA WalkIs ==
  ASSUME NEW a, NEW c, Len(a.nodes) \in Nat
  PROVE  /\ Walk(a, c)[0] = c
         /\ \A k \in 0 .. Len(a.nodes) : k # 0 =>
              Walk(a, c)[k] = IF Walk(a, c)[k - 1] = 0 THEN 0 ELSE a.nodes[Walk(a, c)[k - 1]].next
<1>1. PICK g : g = CHOOSE h : IsWalk(a, c, h, Len(a.nodes))
  OBVIOUS
<1>2. IsWalk(a, c, g, Len(a.nodes))
  BY <1>1, WalkExists
<1> DEFINE w[k \in 0 .. Len(a.nodes)] ==
             IF k = 0 THEN c ELSE IF w[k - 1] = 0 THEN 0 ELSE a.nodes[w[k - 1]].next
<1>3. w = g
  BY <1>1 DEF IsWalk
<1>4. Walk(a, c) = w
  BY DEF Walk
<1>5. IsWalk(a, c, Walk(a, c), Len(a.nodes))
  BY <1>2, <1>3, <1>4
<1> DEFINE x == Walk(a, c)
<1> HIDE DEF x
<1>6. IsWalk(a, c, x, Len(a.nodes))
  BY <1>5 DEF x
<1>7. /\ x[0] = c
      /\ \A k \in 0 .. Len(a.nodes) : k # 0 =>
              x[k] = IF x[k - 1] = 0 THEN 0 ELSE a.nodes[x[k - 1]].next
  <2> DEFINE D == 0 .. Len(a.nodes)
  <2>1. 0 \in D
    OBVIOUS
  <2> HIDE DEF D
  <2>2. x = [k \in D |-> IF k = 0 THEN c ELSE IF x[k - 1] = 0 THEN 0 ELSE a.nodes[x[k - 1]].next]
    BY <1>6 DEF IsWalk, D
  <2>3. \A k \in D : x[k] = IF k = 0 THEN c ELSE IF x[k - 1] = 0 THEN 0 ELSE a.nodes[x[k - 1]].next
    BY <2>2, Zenon
  <2>4. x[0] = c
    BY <2>1, <2>3
  <2>5. \A k \in D : k # 0 => x[k] = IF x[k - 1] = 0 THEN 0 ELSE a.nodes[x[k - 1]].next
    BY <2>3
  <2> QED BY <2>4, <2>5 DEF D
<1> QED BY <1>7 DEF x

(* A walk stays in the arena, goes down in rank, and so comes to its end. *)
LEMMA WalkEnds ==
  ASSUME NEW a, Arena(a), Ranked(a), NEW c \in 0 .. Len(a.nodes)
  PROVE  /\ \A k \in 0 .. Len(a.nodes) : Walk(a, c)[k] \in 0 .. Len(a.nodes)
         /\ ChainEnds(a, c)
<1> DEFINE N == Len(a.nodes)
           x == Walk(a, c)
<1>0. N \in Nat /\ \A i \in 1 .. N : a.nodes[i].next \in 0 .. N
  BY ArenaParts DEF Arena, Ids
<1>1. x[0] = c /\ \A k \in 0 .. N : k # 0 => x[k] = IF x[k - 1] = 0 THEN 0 ELSE a.nodes[x[k - 1]].next
  BY <1>0, WalkIs
<1>e. ChainEnds(a, c) <=> x[N] = 0
  BY DEF ChainEnds
<1>2. PICK r : Ranking(a, r)
  BY DEF Ranked
<1>3. /\ \A n \in 1 .. N : r[n] \in 1 .. N
      /\ \A n \in 1 .. N : a.nodes[n].next # 0 => r[a.nodes[n].next] < r[n]
  BY <1>2 DEF Ranking, Ids
<1> HIDE DEF x
<1> DEFINE T == {k \in 0 .. N : x[k] \in 0 .. N /\ (x[k] # 0 => r[x[k]] <= N - k)}
<1>4. 0 \in T
  BY <1>0, <1>1, <1>3
<1>5. ASSUME NEW k \in 0 .. N, k # N, k \in T
      PROVE  k + 1 \in T
  <2>1. k + 1 \in 0 .. N /\ k + 1 # 0 /\ k + 1 - 1 = k
    BY <1>0, <1>5
  <2>2. x[k + 1] = IF x[k] = 0 THEN 0 ELSE a.nodes[x[k]].next
    BY <1>1, <2>1
  <2>3. CASE x[k] = 0
    BY <1>0, <2>1, <2>2, <2>3
  <2>4. CASE x[k] # 0
    <3>1. x[k] \in 1 .. N /\ r[x[k]] <= N - k
      BY <1>0, <1>5, <2>4
    <3>2. x[k + 1] \in 0 .. N /\ r[x[k]] \in 1 .. N
      BY <1>0, <1>3, <2>2, <2>4, <3>1
    <3>3. CASE x[k + 1] = 0
      BY <2>1, <3>2, <3>3
    <3>4. CASE x[k + 1] # 0
      <4>1. r[x[k + 1]] < r[x[k]]
        BY <1>3, <2>2, <2>4, <3>1, <3>4
      <4>2. r[x[k + 1]] \in 1 .. N
        BY <1>0, <1>3, <3>2, <3>4
      <4>3. r[x[k + 1]] <= N - (k + 1)
        BY <1>0, <1>5, <3>1, <3>2, <4>1, <4>2
      <4> QED BY <2>1, <3>2, <4>3
    <3> QED BY <3>3, <3>4
  <2> QED BY <2>3, <2>4
<1> HIDE DEF T
<1>6. \A k \in 0 .. N : k \in T
  BY <1>0, <1>4, <1>5, UpTo
<1>7. \A k \in 0 .. N : x[k] \in 0 .. N /\ (x[k] # 0 => r[x[k]] <= N - k)
  BY <1>6 DEF T
<1>8. x[N] = 0
  <2>1. SUFFICES ASSUME x[N] # 0 PROVE FALSE
    OBVIOUS
  <2>2. N \in 0 .. N /\ x[N] \in 1 .. N /\ r[x[N]] <= N - N
    BY <1>0, <1>7, <2>1
  <2>3. r[x[N]] \in 1 .. N
    BY <1>3, <2>2
  <2> QED BY <1>0, <2>2, <2>3
<1> QED BY <1>e, <1>7, <1>8 DEF x

(* The chain from c is the walk up to its end. *)
LEMMA ChainIs ==
  ASSUME NEW a, Arena(a), Ranked(a), NEW c \in 0 .. Len(a.nodes)
  PROVE  \E n \in 0 .. Len(a.nodes) :
           /\ Walk(a, c)[n] = 0 /\ \A j \in 0 .. n - 1 : Walk(a, c)[j] # 0
           /\ Chain(a, c) = [k \in 1 .. n |-> Walk(a, c)[k - 1]]
<1> DEFINE N == Len(a.nodes)
           x == Walk(a, c)
           Is(k) == x[k] = 0 /\ \A j \in 0 .. k - 1 : x[j] # 0
           n == CHOOSE k \in 0 .. N : Is(k)
<1>1. N \in Nat
  BY ArenaParts
<1>2. x[N] = 0
  BY WalkEnds DEF ChainEnds
<1>3. Chain(a, c) = [k \in 1 .. n |-> x[k - 1]]
  BY DEF Chain
<1> HIDE DEF x
<1>4. \E k \in 0 .. N : Is(k)
  <2> DEFINE S == {k \in 0 .. N : x[k] = 0}
  <2>1. S # {} /\ S \in SUBSET Nat
    BY <1>1, <1>2
  <2>2. PICK m \in S : \A k \in S : m <= k
    BY <2>1, LeastOf, Zenon
  <2>3. \A j \in 0 .. m - 1 : j \in 0 .. N /\ ~(m <= j)
    BY <1>1, <2>2
  <2>4. m \in 0 .. N /\ x[m] = 0
    BY <2>2
  <2>5. \A j \in 0 .. m - 1 : x[j] # 0
    BY <2>2, <2>3
  <2> QED BY <2>4, <2>5
<1>5. n \in 0 .. N /\ Is(n)
  BY <1>4, Zenon
<1> HIDE DEF n
<1> QED BY <1>3, <1>5 DEF x

(* A listed chain is what ast_append_child walks. *)
LEMMA ChainListed ==
  ASSUME NEW a, Arena(a), Ranked(a), NEW c \in 0 .. Len(a.nodes), NEW s, Chained(a.nodes, c, s)
  PROVE  Chain(a, c) = s
<1> DEFINE N == Len(a.nodes)
           x == Walk(a, c)
<1>1. N \in Nat
  BY ArenaParts
<1>2. x[0] = c /\ \A k \in 0 .. N : k # 0 => x[k] = IF x[k - 1] = 0 THEN 0 ELSE a.nodes[x[k - 1]].next
  BY <1>1, WalkIs
<1>3. PICK n \in 0 .. N : /\ x[n] = 0 /\ \A j \in 0 .. n - 1 : x[j] # 0
                          /\ Chain(a, c) = [k \in 1 .. n |-> x[k - 1]]
  BY ChainIs
<1>x. x[N] = 0
  BY WalkEnds DEF ChainEnds
<1> HIDE DEF x
<1>4. s \in Seq(Nat) /\ Len(s) \in Nat /\ \A i \in 1 .. Len(s) : s[i] \in 1 .. N
  BY DEF Chained
<1> DEFINE T == {k \in 0 .. N : k < Len(s) => x[k] = s[k + 1]}
<1>5. 0 \in T
  BY <1>1, <1>2, <1>4 DEF Chained
<1>6. ASSUME NEW k \in 0 .. N, k # N, k \in T
      PROVE  k + 1 \in T
  <2>1. k + 1 \in 0 .. N /\ k + 1 # 0 /\ k + 1 - 1 = k
    BY <1>1, <1>6
  <2>2. SUFFICES ASSUME k + 1 < Len(s) PROVE x[k + 1] = s[k + 1 + 1]
    BY <2>1
  <2>3. k < Len(s) /\ k + 1 \in 1 .. Len(s) /\ k + 1 # Len(s)
    BY <1>4, <2>2
  <2>4. x[k] = s[k + 1] /\ s[k + 1] # 0
    BY <1>4, <1>6, <2>3
  <2>5. x[k + 1] = a.nodes[s[k + 1]].next
    BY <1>2, <2>1, <2>4
  <2> QED BY <2>3, <2>5 DEF Chained
<1> HIDE DEF T
<1>7. \A k \in 0 .. N : k \in T
  BY <1>1, <1>5, <1>6, UpTo
<1>8. \A k \in 0 .. N : k < Len(s) => x[k] = s[k + 1] /\ x[k] # 0
  <2> SUFFICES ASSUME NEW k \in 0 .. N, k < Len(s) PROVE x[k] = s[k + 1] /\ x[k] # 0
    OBVIOUS
  <2>1. k + 1 \in 1 .. Len(s) /\ x[k] = s[k + 1]
    BY <1>4, <1>7 DEF T
  <2> QED BY <1>4, <2>1
<1>9. Len(s) <= N
  <2>1. N \in 0 .. N
    BY <1>1
  <2>2. ~(N < Len(s))
    BY <2>1, <1>8, <1>x, Zenon
  <2> QED BY <1>1, <1>4, <2>2
<1>10. x[Len(s)] = 0
  <2>1. CASE Len(s) = 0
    BY <1>2, <2>1 DEF Chained
  <2>2. CASE Len(s) # 0
    <3>1. /\ Len(s) \in 0 .. N /\ Len(s) - 1 \in 0 .. N /\ Len(s) - 1 < Len(s)
          /\ Len(s) - 1 + 1 = Len(s) /\ Len(s) \in 1 .. Len(s)
      BY <1>1, <1>4, <1>9, <2>2
    <3>2. x[Len(s) - 1] = s[Len(s)] /\ s[Len(s)] # 0
      BY <1>8, <3>1
    <3>3. x[Len(s)] = a.nodes[s[Len(s)]].next
      BY <1>2, <2>2, <3>1, <3>2
    <3> QED BY <2>2, <3>3 DEF Chained
  <2> QED BY <2>1, <2>2
<1>11. n = Len(s)
  <2>1. ~(n < Len(s))
    BY <1>1, <1>3, <1>8
  <2>2. ~(Len(s) < n)
    <3>1. Len(s) < n => Len(s) \in 0 .. n - 1
      BY <1>4
    <3> QED BY <1>3, <1>10, <3>1
  <2> QED BY <1>4, <2>1, <2>2
<1>12. \A k \in 1 .. Len(s) : x[k - 1] = s[k]
  <2> SUFFICES ASSUME NEW k \in 1 .. Len(s) PROVE x[k - 1] = s[k]
    OBVIOUS
  <2>1. k - 1 \in 0 .. N /\ k - 1 < Len(s) /\ k - 1 + 1 = k
    BY <1>1, <1>4, <1>9
  <2> QED BY <1>8, <2>1
<1>13. s = [k \in 1 .. Len(s) |-> s[k]]
  BY <1>4
<1>14. [k \in 1 .. Len(s) |-> x[k - 1]] = [k \in 1 .. Len(s) |-> s[k]]
  BY <1>12
<1> QED BY <1>3, <1>11, <1>13, <1>14

(* The node ast_append_child comes to: the last of the children p has. *)
LEMMA LastSibling ==
  ASSUME NEW a, Arena(a), Ranked(a), NEW p \in Ids(a), a.nodes[p].child # 0
  PROVE  LET s == Children(a, p)
             x == s[Len(s)]
         IN /\ x \in Ids(a) /\ a.nodes[x].next = 0
            /\ x = a.nodes[p].child \/ \E m \in Ids(a) : a.nodes[m].next = x
<1> DEFINE N == Len(a.nodes)
           c == a.nodes[p].child
           w == Walk(a, c)
           s == Children(a, p)
<1>1. N \in Nat /\ c \in 0 .. N /\ c # 0
  BY ArenaParts DEF Arena
<1>2. w[0] = c /\ \A k \in 0 .. N : k # 0 => w[k] = IF w[k - 1] = 0 THEN 0 ELSE a.nodes[w[k - 1]].next
  BY <1>1, WalkIs
<1>3. PICK n \in 0 .. N : /\ w[n] = 0 /\ \A j \in 0 .. n - 1 : w[j] # 0
                          /\ Chain(a, c) = [k \in 1 .. n |-> w[k - 1]]
  BY <1>1, ChainIs
<1>4. \A k \in 0 .. N : w[k] \in 0 .. N
  BY <1>1, WalkEnds
<1>5. s = [k \in 1 .. n |-> w[k - 1]]
  BY <1>3 DEF Children
<1> HIDE DEF w, s, c
<1>6. /\ n # 0 /\ n \in Nat /\ n - 1 \in 0 .. N /\ n - 1 \in 0 .. n - 1 /\ n \in 1 .. n
      /\ n - 1 # n
  BY <1>1, <1>2, <1>3
<1>7. s \in Seq(0 .. N) /\ Len(s) = n /\ s[n] = w[n - 1]
  <2>1. \A k \in 1 .. n : w[k - 1] \in 0 .. N
    BY <1>1, <1>4
  <2> QED BY <1>5, <1>6, <2>1
<1>8. w[n - 1] \in Ids(a)
  BY <1>1, <1>3, <1>4, <1>6 DEF Ids
<1>9. a.nodes[w[n - 1]].next = 0
  BY <1>2, <1>3, <1>6
<1>10. w[n - 1] = c \/ \E m \in Ids(a) : a.nodes[m].next = w[n - 1]
  <2>1. CASE n = 1
    BY <1>2, <2>1
  <2>2. CASE n # 1
    <3>1. n - 2 \in 0 .. N /\ n - 2 \in 0 .. n - 1 /\ n - 1 # 0 /\ n - 1 - 1 = n - 2
      BY <1>1, <1>6, <2>2
    <3>2. w[n - 2] \in Ids(a)
      BY <1>1, <1>3, <1>4, <3>1 DEF Ids
    <3>3. w[n - 1] = a.nodes[w[n - 2]].next
      BY <1>2, <1>3, <1>6, <3>1
    <3> QED BY <3>2, <3>3
  <2> QED BY <2>1, <2>2
<1>11. s[Len(s)] = w[n - 1]
  BY <1>7
<1>12. /\ s[Len(s)] \in Ids(a) /\ a.nodes[s[Len(s)]].next = 0
       /\ s[Len(s)] = c \/ \E m \in Ids(a) : a.nodes[m].next = s[Len(s)]
  BY <1>8, <1>9, <1>10, <1>11, Zenon
<1> QED BY <1>12 DEF s, c
-----------------------------------------------------------------------------
(* Linking a node.                                                         *)
SetChild(a, p, c) == [a EXCEPT !.nodes[p].child = c]
SetNext(a, x, c) == [a EXCEPT !.nodes[x].next = c]

(* One link of one node changes. *)
Relinked(a, b, n, child, next) ==
  /\ Arena(b) /\ Len(b.nodes) = Len(a.nodes) /\ Ids(b) = Ids(a)
  /\ b.kids = a.kids /\ b.err = a.err
  /\ \A i \in Ids(a) : i # n => b.nodes[i] = a.nodes[i]
  /\ b.nodes[n].child = child /\ b.nodes[n].next = next

LEMMA Relink ==
  ASSUME NEW a, Arena(a), NEW n \in Ids(a), NEW child \in 0 .. Len(a.nodes),
         NEW next \in 0 .. Len(a.nodes), NEW b,
         b = [nodes |-> [a.nodes EXCEPT ![n] = [kind |-> a.nodes[n].kind, child |-> child,
                                                next |-> next]],
              kids |-> a.kids, err |-> a.err, calls |-> a.calls]
  PROVE  Relinked(a, b, n, child, next)
<1> DEFINE e == [kind |-> a.nodes[n].kind, child |-> child, next |-> next]
           ns == [a.nodes EXCEPT ![n] = e]
<1>1. /\ a.nodes \in Seq(NodeType) /\ Len(a.nodes) \in Nat /\ n \in 1 .. Len(a.nodes)
      /\ a.nodes[n] \in NodeType
  BY ArenaParts DEF Ids
<1>2. child \in Nat /\ next \in Nat /\ a.nodes[n].kind \in NodeKinds
  BY <1>1 DEF NodeType
<1>3. e \in NodeType /\ e.child = child /\ e.next = next
  BY <1>2 DEF NodeType
<1> HIDE DEF e
<1>4. /\ ns \in Seq(NodeType) /\ Len(ns) = Len(a.nodes) /\ ns[n] = e
      /\ \A i \in 1 .. Len(a.nodes) : i # n => ns[i] = a.nodes[i]
  BY <1>1, <1>3
<1> HIDE DEF ns
<1>5. b = [nodes |-> ns, kids |-> a.kids, err |-> a.err, calls |-> a.calls]
  BY DEF ns, e
<1>6. b.nodes = ns /\ b.kids = a.kids /\ b.err = a.err /\ b.calls = a.calls
  BY <1>5
<1>7. Ids(b) = Ids(a)
  BY <1>4, <1>6 DEF Ids
<1>8. b \in [nodes : Seq(NodeType), kids : Seq(Seq(NodeIds)), err : BOOLEAN, calls : Nat]
  BY <1>4, <1>5, ArenaParts
<1>9. ASSUME NEW i \in 1 .. Len(a.nodes)
      PROVE  ns[i].child \in 0 .. Len(a.nodes) /\ ns[i].next \in 0 .. Len(a.nodes)
  <2>1. CASE i = n
    BY <1>3, <1>4, <2>1
  <2>2. CASE i # n
    BY <1>4, <2>2 DEF Arena, Ids
  <2> QED BY <2>1, <2>2
<1>10. Arena(b)
  BY <1>4, <1>6, <1>8, <1>9 DEF Arena, Ids
<1> QED BY <1>3, <1>4, <1>6, <1>7, <1>10 DEF Relinked, Ids

LEMMA SetChildIs ==
  ASSUME NEW a, Arena(a), NEW p \in Ids(a), NEW c \in 0 .. Len(a.nodes)
  PROVE  Relinked(a, SetChild(a, p, c), p, c, a.nodes[p].next)
<1> DEFINE n == a.nodes[p]
           b == SetChild(a, p, c)
<1>1. /\ a = [nodes |-> a.nodes, kids |-> a.kids, err |-> a.err, calls |-> a.calls]
      /\ n = [kind |-> n.kind, child |-> n.child, next |-> n.next]
      /\ n.next \in 0 .. Len(a.nodes)
  BY ArenaParts DEF Arena
<1> HIDE DEF n
<1>2. [n EXCEPT !.child = c] = [kind |-> n.kind, child |-> c, next |-> n.next]
  BY <1>1
<1>3. b = [nodes |-> [a.nodes EXCEPT ![p] = [n EXCEPT !.child = c]], kids |-> a.kids,
           err |-> a.err, calls |-> a.calls]
  BY <1>1 DEF SetChild, n
<1>4. b = [nodes |-> [a.nodes EXCEPT ![p] = [kind |-> n.kind, child |-> c, next |-> n.next]],
           kids |-> a.kids, err |-> a.err, calls |-> a.calls]
  BY <1>2, <1>3
<1> HIDE DEF b
<1>5. Relinked(a, b, p, c, n.next)
  BY <1>1, <1>4, Relink DEF n
<1> QED BY <1>5 DEF b, n

LEMMA SetNextIs ==
  ASSUME NEW a, Arena(a), NEW x \in Ids(a), NEW c \in 0 .. Len(a.nodes)
  PROVE  Relinked(a, SetNext(a, x, c), x, a.nodes[x].child, c)
<1> DEFINE n == a.nodes[x]
           b == SetNext(a, x, c)
<1>1. /\ a = [nodes |-> a.nodes, kids |-> a.kids, err |-> a.err, calls |-> a.calls]
      /\ n = [kind |-> n.kind, child |-> n.child, next |-> n.next]
      /\ n.child \in 0 .. Len(a.nodes)
  BY ArenaParts DEF Arena
<1> HIDE DEF n
<1>2. [n EXCEPT !.next = c] = [kind |-> n.kind, child |-> n.child, next |-> c]
  BY <1>1
<1>3. b = [nodes |-> [a.nodes EXCEPT ![x] = [n EXCEPT !.next = c]], kids |-> a.kids,
           err |-> a.err, calls |-> a.calls]
  BY <1>1 DEF SetNext, n
<1>4. b = [nodes |-> [a.nodes EXCEPT ![x] = [kind |-> n.kind, child |-> n.child, next |-> c]],
           kids |-> a.kids, err |-> a.err, calls |-> a.calls]
  BY <1>2, <1>3
<1> HIDE DEF b
<1>5. Relinked(a, b, x, n.child, c)
  BY <1>1, <1>4, Relink DEF n
<1> QED BY <1>5 DEF b, n

(* Making room below z, and closing the gap above it, keep the order. *)
Raise(x, z) == IF x < z THEN x + 1 ELSE x
Lower(x, z) == IF z < x THEN x - 1 ELSE x

LEMMA RaiseOrder ==
  \A n \in Nat : \A x, y, z \in 1 .. n : x # z /\ y # z =>
    /\ Raise(x, z) \in 1 .. n /\ 1 < Raise(x, z)
    /\ Raise(x, z) = Raise(y, z) => x = y
    /\ x < y => Raise(x, z) < Raise(y, z)
BY DEF Raise

LEMMA LowerOrder ==
  \A n \in Nat : \A x, y, z \in 1 .. n : x # z /\ y # z =>
    /\ Lower(x, z) \in 1 .. n /\ Lower(x, z) < n
    /\ Lower(x, z) = Lower(y, z) => x = y
    /\ x < y => Lower(x, z) < Lower(y, z)
BY DEF Lower

(* A node linked as a child has no later one, so it goes below all others. *)
LEMMA RankBelow ==
  ASSUME NEW a, Arena(a), Ranked(a), NEW c \in Ids(a), NEW b, Ids(b) = Ids(a),
         b.nodes[c].next = 0,
         \A n \in Ids(a) : b.nodes[n].next \in {a.nodes[n].next, c}
  PROVE  Ranked(b)
<1> DEFINE N == Len(a.nodes)
<1>1. N \in Nat /\ Ids(a) = 1 .. N /\ \A i \in 1 .. N : a.nodes[i].next \in 0 .. N
  BY ArenaParts DEF Arena, Ids
<1>2. PICK r : Ranking(a, r)
  BY DEF Ranked
<1> DEFINE q == [n \in 1 .. N |-> IF n = c THEN 1 ELSE Raise(r[n], r[c])]
<1>3. /\ \A n \in 1 .. N : r[n] \in 1 .. N
      /\ \A m, n \in 1 .. N : r[m] = r[n] => m = n
      /\ \A n \in 1 .. N : a.nodes[n].next # 0 => r[a.nodes[n].next] < r[n]
  BY <1>1, <1>2 DEF Ranking
<1>4. c \in 1 .. N /\ r[c] \in 1 .. N /\ 1 \in 1 .. N
  BY <1>1, <1>3
<1>5. ASSUME NEW m \in 1 .. N, NEW n \in 1 .. N, m # c, n # c
      PROVE  /\ q[m] = Raise(r[m], r[c]) /\ q[m] \in 1 .. N /\ 1 < q[m]
             /\ q[m] = q[n] => m = n
             /\ r[m] < r[n] => q[m] < q[n]
  <2>1. r[m] \in 1 .. N /\ r[n] \in 1 .. N /\ r[m] # r[c] /\ r[n] # r[c]
    BY <1>3, <1>4, <1>5
  <2>2. q[m] = Raise(r[m], r[c]) /\ q[n] = Raise(r[n], r[c])
    BY <1>5
  <2>3. /\ Raise(r[m], r[c]) \in 1 .. N /\ 1 < Raise(r[m], r[c])
        /\ Raise(r[m], r[c]) = Raise(r[n], r[c]) => r[m] = r[n]
        /\ r[m] < r[n] => Raise(r[m], r[c]) < Raise(r[n], r[c])
    BY <1>1, <1>4, <2>1, RaiseOrder
  <2> QED BY <1>3, <2>2, <2>3
<1>6. q[c] = 1
  BY <1>4
<1>7. q \in [1 .. N -> 1 .. N]
  <2>1. \A n \in 1 .. N : q[n] \in 1 .. N
    BY <1>4, <1>5, <1>6
  <2> QED BY <2>1
<1> HIDE DEF q
<1>8. ASSUME NEW m \in 1 .. N, NEW n \in 1 .. N, q[m] = q[n]
      PROVE  m = n
  <2>1. \A i \in 1 .. N : i # c => q[i] # 1
    BY <1>1, <1>5
  <2> QED BY <1>5, <1>6, <1>8, <2>1
<1>9. ASSUME NEW n \in 1 .. N, b.nodes[n].next # 0
      PROVE  q[b.nodes[n].next] < q[n]
  <2>1. n # c
    BY <1>9
  <2>2. CASE b.nodes[n].next = c
    BY <1>5, <1>6, <2>1, <2>2
  <2>3. CASE b.nodes[n].next # c
    <3>1. /\ b.nodes[n].next = a.nodes[n].next
          /\ a.nodes[n].next \in 1 .. N /\ a.nodes[n].next # c
      BY <1>1, <1>9, <2>3
    <3>2. r[a.nodes[n].next] < r[n]
      BY <1>1, <1>3, <3>1
    <3>3. q[a.nodes[n].next] < q[n]
      BY <1>5, <2>1, <3>1, <3>2
    <3> QED BY <3>1, <3>3
  <2> QED BY <2>2, <2>3
<1>10. Ranking(b, q)
  BY <1>1, <1>7, <1>8, <1>9 DEF Ranking
<1> QED BY <1>10 DEF Ranked

(* A node nobody continues to goes above all others. *)
LEMMA RankAbove ==
  ASSUME NEW a, Arena(a), Ranked(a), NEW x \in Ids(a), NEW b, Ids(b) = Ids(a),
         b.nodes[x].next # x, b.nodes[x].next \in 0 .. Len(a.nodes),
         \A n \in Ids(a) : n # x => b.nodes[n].next = a.nodes[n].next /\ a.nodes[n].next # x
  PROVE  Ranked(b)
<1> DEFINE N == Len(a.nodes)
<1>1. N \in Nat /\ Ids(a) = 1 .. N /\ \A i \in 1 .. N : a.nodes[i].next \in 0 .. N
  BY ArenaParts DEF Arena, Ids
<1>2. PICK r : Ranking(a, r)
  BY DEF Ranked
<1> DEFINE q == [n \in 1 .. N |-> IF n = x THEN N ELSE Lower(r[n], r[x])]
<1>3. /\ \A n \in 1 .. N : r[n] \in 1 .. N
      /\ \A m, n \in 1 .. N : r[m] = r[n] => m = n
      /\ \A n \in 1 .. N : a.nodes[n].next # 0 => r[a.nodes[n].next] < r[n]
  BY <1>1, <1>2 DEF Ranking
<1>4. x \in 1 .. N /\ r[x] \in 1 .. N /\ N \in 1 .. N
  BY <1>1, <1>3
<1>5. ASSUME NEW m \in 1 .. N, NEW n \in 1 .. N, m # x, n # x
      PROVE  /\ q[m] = Lower(r[m], r[x]) /\ q[m] \in 1 .. N /\ q[m] < N
             /\ q[m] = q[n] => m = n
             /\ r[m] < r[n] => q[m] < q[n]
  <2>1. r[m] \in 1 .. N /\ r[n] \in 1 .. N /\ r[m] # r[x] /\ r[n] # r[x]
    BY <1>3, <1>4, <1>5
  <2>2. q[m] = Lower(r[m], r[x]) /\ q[n] = Lower(r[n], r[x])
    BY <1>5
  <2>3. /\ Lower(r[m], r[x]) \in 1 .. N /\ Lower(r[m], r[x]) < N
        /\ Lower(r[m], r[x]) = Lower(r[n], r[x]) => r[m] = r[n]
        /\ r[m] < r[n] => Lower(r[m], r[x]) < Lower(r[n], r[x])
    BY <1>1, <1>4, <2>1, LowerOrder
  <2> QED BY <1>3, <2>2, <2>3
<1>6. q[x] = N
  BY <1>4
<1>7. q \in [1 .. N -> 1 .. N]
  <2>1. \A n \in 1 .. N : q[n] \in 1 .. N
    BY <1>4, <1>5, <1>6
  <2> QED BY <2>1
<1> HIDE DEF q
<1>8. ASSUME NEW m \in 1 .. N, NEW n \in 1 .. N, q[m] = q[n]
      PROVE  m = n
  <2>1. \A i \in 1 .. N : i # x => q[i] # N
    BY <1>1, <1>5
  <2> QED BY <1>5, <1>6, <1>8, <2>1
<1>9. ASSUME NEW n \in 1 .. N, b.nodes[n].next # 0
      PROVE  q[b.nodes[n].next] < q[n]
  <2>1. CASE n = x
    <3>1. b.nodes[x].next \in 1 .. N /\ b.nodes[x].next # x
      BY <1>9, <1>1, <2>1
    <3> QED BY <1>5, <1>6, <2>1, <3>1
  <2>2. CASE n # x
    <3>1. /\ b.nodes[n].next = a.nodes[n].next
          /\ a.nodes[n].next \in 1 .. N /\ a.nodes[n].next # x
      BY <1>1, <1>9, <2>2
    <3>2. r[a.nodes[n].next] < r[n]
      BY <1>1, <1>3, <3>1
    <3>3. q[a.nodes[n].next] < q[n]
      BY <1>5, <2>2, <3>1, <3>2
    <3> QED BY <3>1, <3>3
  <2> QED BY <2>1, <2>2
<1>10. Ranking(b, q)
  BY <1>1, <1>7, <1>8, <1>9 DEF Ranking
<1> QED BY <1>10 DEF Ranked

(* What ast_append_child does, as one changed link. *)
LEMMA AppendIs ==
  ASSUME NEW a, Arena(a), Ranked(a), NEW p \in 0 .. Len(a.nodes), NEW c \in 0 .. Len(a.nodes)
  PROVE  LET b == ast_append_child(a, p, c) IN
         /\ p = 0 \/ c = 0 => b = a
         /\ p # 0 /\ c # 0 /\ a.nodes[p].child = 0 => Relinked(a, b, p, c, a.nodes[p].next)
         /\ p # 0 /\ c # 0 /\ a.nodes[p].child # 0 =>
              \E x \in Ids(a) :
                /\ x = Children(a, p)[Len(Children(a, p))] /\ a.nodes[x].next = 0
                /\ x = a.nodes[p].child \/ \E m \in Ids(a) : a.nodes[m].next = x
                /\ Relinked(a, b, x, a.nodes[x].child, c)
<1> DEFINE b == ast_append_child(a, p, c)
<1>0. p # 0 => p \in Ids(a)
  BY ArenaParts DEF Ids
<1>1. CASE p = 0 \/ c = 0
  <2>1. b = a
    BY <1>1 DEF ast_append_child
  <2> QED BY <1>1, <2>1
<1>2. CASE p # 0 /\ c # 0 /\ a.nodes[p].child = 0
  <2>1. b = SetChild(a, p, c)
    BY <1>2 DEF ast_append_child, SetChild
  <2>2. Relinked(a, b, p, c, a.nodes[p].next)
    BY <1>0, <1>2, <2>1, SetChildIs
  <2> QED BY <1>2, <2>2
<1>3. CASE p # 0 /\ c # 0 /\ a.nodes[p].child # 0
  <2> DEFINE x == Children(a, p)[Len(Children(a, p))]
  <2>1. b = SetNext(a, x, c)
    BY <1>3 DEF ast_append_child, SetNext
  <2>2. /\ x \in Ids(a) /\ a.nodes[x].next = 0
        /\ x = a.nodes[p].child \/ \E m \in Ids(a) : a.nodes[m].next = x
    BY <1>0, <1>3, LastSibling
  <2>3. Relinked(a, b, x, a.nodes[x].child, c)
    BY <2>1, <2>2, SetNextIs
  <2> QED BY <1>3, <2>2, <2>3
<1> QED BY <1>1, <1>2, <1>3

(* Linking a free node keeps the arena good. *)
LEMMA LinkFree ==
  ASSUME NEW a, NEW F, Good(a, F), NEW p \in 0 .. Len(a.nodes), NEW c \in F \cup {0}
  PROVE  Kept(a, ast_append_child(a, p, c), F \ {c})
<1> DEFINE b == ast_append_child(a, p, c)
<1>1. /\ Arena(a) /\ Ranked(a) /\ Len(a.nodes) \in Nat /\ Ids(a) = 1 .. Len(a.nodes)
      /\ \A n \in F : Free(a, n)
      /\ \A n \in F : Free(a, n) => n \in Ids(a)
  BY ArenaParts DEF Good, Free
<1>2. c \in 0 .. Len(a.nodes)
  BY <1>1
<1>3. CASE p = 0 \/ c = 0
  <2>1. b = a
    BY <1>1, <1>2, <1>3, AppendIs
  <2> QED BY <1>1, <2>1 DEF Good, Kept
<1>4. ASSUME p # 0, c # 0, NEW n \in Ids(a), NEW child, NEW next,
             Relinked(a, b, n, child, next),
             n \notin F \/ next = a.nodes[n].next,
             child \in {a.nodes[n].child, c}, next \in {a.nodes[n].next, c}, Ranked(b)
      PROVE  Good(b, F \ {c}) /\ Len(b.nodes) = Len(a.nodes) /\ b.kids = a.kids /\ b.err = a.err
  <2> HIDE DEF b
  <2>1. /\ Arena(b) /\ Len(b.nodes) = Len(a.nodes) /\ Ids(b) = Ids(a)
        /\ b.kids = a.kids /\ b.err = a.err
        /\ \A i \in Ids(a) : i # n => b.nodes[i] = a.nodes[i]
        /\ b.nodes[n].child = child /\ b.nodes[n].next = next
    BY <1>4 DEF Relinked
  <2>2. ASSUME NEW f \in F \ {c}
        PROVE  Free(b, f)
    <3>1. /\ f \in Ids(a) /\ a.nodes[f].next = 0 /\ f # c
          /\ \A m \in Ids(a) : a.nodes[m].child # f /\ a.nodes[m].next # f
      BY <1>1 DEF Free
    <3>2. b.nodes[f].next = 0
      BY <1>4, <2>1, <3>1
    <3>3. ASSUME NEW m \in Ids(a)
          PROVE  b.nodes[m].child # f /\ b.nodes[m].next # f
      <4>1. CASE m = n
        BY <1>4, <2>1, <3>1, <4>1
      <4>2. CASE m # n
        BY <2>1, <3>1, <4>2
      <4> QED BY <4>1, <4>2
    <3> QED BY <2>1, <3>1, <3>2, <3>3 DEF Free
  <2> QED BY <1>4, <2>1, <2>2 DEF Good
<1>5. CASE p # 0 /\ c # 0 /\ a.nodes[p].child = 0
  <2>1. Relinked(a, b, p, c, a.nodes[p].next) /\ p \in Ids(a)
    BY <1>1, <1>2, <1>5, AppendIs
  <2> HIDE DEF b
  <2>2. Ranked(b)
    <3>1. PICK r : Ranking(a, r)
      BY <1>1 DEF Ranked
    <3>2. Ids(b) = Ids(a) /\ \A i \in Ids(a) : b.nodes[i].next = a.nodes[i].next
      BY <2>1 DEF Relinked
    <3>3. Ranking(b, r)
      BY <3>1, <3>2 DEF Ranking
    <3> QED BY <3>3 DEF Ranked
  <2>9. Good(b, F \ {c}) /\ Len(b.nodes) = Len(a.nodes) /\ b.kids = a.kids /\ b.err = a.err
    BY <1>4, <1>5, <2>1, <2>2
  <2> QED BY <2>9 DEF b, Kept
<1>6. CASE p # 0 /\ c # 0 /\ a.nodes[p].child # 0
  <2>1. PICK x \in Ids(a) :
          /\ a.nodes[x].next = 0
          /\ x = a.nodes[p].child \/ \E m \in Ids(a) : a.nodes[m].next = x
          /\ Relinked(a, b, x, a.nodes[x].child, c)
    BY <1>1, <1>2, <1>6, AppendIs
  <2> HIDE DEF b
  <2>2. x \notin F /\ p \in Ids(a)
    <3>1. p \in Ids(a)
      BY <1>1, <1>6
    <3> QED BY <1>1, <2>1, <3>1 DEF Free
  <2>3. c \in Ids(a) /\ c # x /\ a.nodes[c].next = 0
    BY <1>1, <1>6, <2>2 DEF Free
  <2>4. Ranked(b)
    <3>1. Ids(b) = Ids(a) /\ b.nodes[c].next = 0
      BY <2>1, <2>3 DEF Relinked
    <3>2. \A n \in Ids(a) : b.nodes[n].next \in {a.nodes[n].next, c}
      BY <2>1 DEF Relinked
    <3> QED BY <1>1, <2>3, <3>1, <3>2, RankBelow
  <2>9. Good(b, F \ {c}) /\ Len(b.nodes) = Len(a.nodes) /\ b.kids = a.kids /\ b.err = a.err
    BY <1>4, <1>6, <2>1, <2>2, <2>4
  <2> QED BY <2>9 DEF b, Kept
<1> QED BY <1>3, <1>5, <1>6 DEF Kept

(* The same chain, in an arena that differs elsewhere. *)
LEMMA ChainedSame ==
  ASSUME NEW ns, NEW ms, NEW h, NEW s, Chained(ns, h, s), Len(ms) = Len(ns),
         \A i \in 1 .. Len(s) : ms[s[i]].next = ns[s[i]].next
  PROVE  Chained(ms, h, s)
<1>1. Len(s) # 0 => Len(s) \in 1 .. Len(s)
  BY DEF Chained
<1> QED BY <1>1 DEF Chained

(* One more child at the end. *)
LEMMA ChainedLonger ==
  ASSUME NEW ns, NEW ms, NEW h, NEW g, NEW s, Chained(ns, h, s), Len(ms) = Len(ns), Len(ns) \in Nat,
         NEW c \in 1 .. Len(ns), ms[c].next = 0,
         g = IF Len(s) = 0 THEN c ELSE h,
         \A i \in 1 .. Len(s) : ms[s[i]].next = IF i = Len(s) THEN c ELSE ns[s[i]].next
  PROVE  Chained(ms, g, Append(s, c))
<1> DEFINE t == Append(s, c)
<1>1. s \in Seq(Nat) /\ Len(s) \in Nat /\ c \in Nat
  BY DEF Chained
<1>2. /\ t \in Seq(Nat) /\ Len(t) = Len(s) + 1 /\ t[Len(s) + 1] = c
      /\ \A i \in 1 .. Len(s) : t[i] = s[i]
  BY <1>1
<1> HIDE DEF t
<1>3. ASSUME NEW i \in 1 .. Len(t)
      PROVE  t[i] \in 1 .. Len(ms) /\ (i # Len(t) => ms[t[i]].next = t[i + 1])
  <2>1. CASE i = Len(t)
    BY <1>1, <1>2, <2>1
  <2>2. CASE i # Len(t)
    <3>1. i \in 1 .. Len(s) /\ t[i] = s[i] /\ s[i] \in 1 .. Len(ns)
      BY <1>1, <1>2, <2>2 DEF Chained
    <3>2. CASE i = Len(s)
      BY <1>1, <1>2, <3>1, <3>2
    <3>3. CASE i # Len(s)
      <4>1. i + 1 \in 1 .. Len(s) /\ ns[s[i]].next = s[i + 1]
        BY <1>1, <3>1, <3>3 DEF Chained
      <4> QED BY <1>2, <3>1, <3>3, <4>1
    <3> QED BY <3>2, <3>3
  <2> QED BY <2>1, <2>2
<1>4. Len(t) # 0 /\ Len(t) \in Nat /\ ms[t[Len(t)]].next = 0
  BY <1>1, <1>2
<1>5. g = t[1]
  <2>1. CASE Len(s) = 0
    BY <1>2, <2>1
  <2>2. CASE Len(s) # 0
    <3>1. 1 \in 1 .. Len(s) /\ h = s[1]
      BY <1>1, <2>2 DEF Chained
    <3> QED BY <1>2, <2>2, <3>1
  <2> QED BY <2>1, <2>2
<1>6. Chained(ms, g, t)
  BY <1>2, <1>3, <1>4, <1>5 DEF Chained
<1> QED BY <1>6 DEF t

LEMMA LinkShape ==
  ASSUME NEW a, NEW F, Good(a, F), NEW p \in Ids(a), NEW c \in F, NEW k, Shape(a.nodes, k)
  PROVE  Shape(ast_append_child(a, p, c).nodes, [k EXCEPT ![p] = Append(@, c)])
<1> DEFINE b == ast_append_child(a, p, c)
           N == Len(a.nodes)
           h == [k EXCEPT ![p] = Append(@, c)]
<1>1. /\ Arena(a) /\ Ranked(a) /\ N \in Nat /\ Ids(a) = 1 .. N /\ Free(a, c)
      /\ c \in 1 .. N /\ a.nodes[c].next = 0 /\ p \in 1 .. N /\ p # 0 /\ c # 0
      /\ p \in 0 .. N /\ c \in 0 .. N
  <2>1. /\ Arena(a) /\ Ranked(a) /\ N \in Nat /\ Ids(a) = 1 .. N /\ Free(a, c)
    BY ArenaParts DEF Good
  <2> QED BY <2>1 DEF Free
<1>2. k \in Seq(Seq(Nat)) /\ Len(k) = N /\ \A q \in 1 .. N : Chained(a.nodes, a.nodes[q].child, k[q])
  BY DEF Shape
<1>3. \A q \in 1 .. N : k[q] \in Seq(Nat) /\ Len(k[q]) \in Nat
  BY <1>2 DEF Chained
<1>4. /\ h \in Seq(Seq(Nat)) /\ Len(h) = N /\ h[p] = Append(k[p], c)
      /\ \A q \in 1 .. N : q # p => h[q] = k[q]
  BY <1>1, <1>2, <1>3
<1>5. /\ Len(h[p]) = Len(k[p]) + 1 /\ h[p][Len(k[p]) + 1] = c
      /\ \A i \in 1 .. Len(k[p]) : h[p][i] = k[p][i]
  BY <1>1, <1>3, <1>4
<1>6. \A q \in 1 .. N : \A i \in 1 .. Len(k[q]) : k[q][i] # c
  BY <1>1, FreeUnlisted
<1> HIDE DEF h
<1>7. ASSUME NEW u \in 1 .. N, NEW v \in 1 .. N, NEW i \in 1 .. Len(h[u]), NEW j \in 1 .. Len(h[v]),
             h[u][i] = h[v][j]
      PROVE  u = v /\ i = j
  <2> DEFINE Old(w, n) == n \in 1 .. Len(k[w]) /\ h[w][n] = k[w][n]
             Last(w, n) == w = p /\ n = Len(k[p]) + 1 /\ h[w][n] = c
  <2>1. ASSUME NEW w \in 1 .. N, NEW n \in 1 .. Len(h[w])
        PROVE  Old(w, n) \/ Last(w, n)
    <3>1. CASE w = p
      BY <1>1, <1>3, <1>5, <3>1
    <3>2. CASE w # p
      BY <1>4, <3>2
    <3> QED BY <3>1, <3>2
  <2>2. CASE Old(u, i) /\ Old(v, j)
    <3>1. k[u][i] = k[v][j] /\ i \in 1 .. Len(k[u]) /\ j \in 1 .. Len(k[v])
      BY <1>7, <2>2
    <3> QED BY <3>1, ShapeOnce
  <2>3. CASE Last(u, i) /\ Last(v, j)
    BY <2>3
  <2>4. CASE Old(u, i) /\ Last(v, j)
    BY <1>6, <1>7, <2>4
  <2>5. CASE Last(u, i) /\ Old(v, j)
    BY <1>6, <1>7, <2>5
  <2>6. (Old(u, i) \/ Last(u, i)) /\ (Old(v, j) \/ Last(v, j))
    BY <2>1
  <2> HIDE DEF Old, Last
  <2> QED BY <2>2, <2>3, <2>4, <2>5, <2>6, Zenon
<1>8. ASSUME Len(b.nodes) = N,
             \A q \in 1 .. N : q # p => b.nodes[q].child = a.nodes[q].child,
             b.nodes[p].child = (IF Len(k[p]) = 0 THEN c ELSE a.nodes[p].child),
             b.nodes[c].next = 0,
             \A q \in 1 .. N : \A i \in 1 .. Len(k[q]) :
               b.nodes[k[q][i]].next = IF q = p /\ i = Len(k[p]) THEN c ELSE a.nodes[k[q][i]].next
      PROVE  Shape(b.nodes, h)
  <2> HIDE DEF b
  <2>1. ASSUME NEW q \in 1 .. N
        PROVE  Chained(b.nodes, b.nodes[q].child, h[q])
    <3>1. Chained(a.nodes, a.nodes[q].child, k[q])
      BY <1>2
    <3>2. CASE q = p
      <4>1. \A i \in 1 .. Len(k[p]) : b.nodes[k[p][i]].next =
                                       IF i = Len(k[p]) THEN c ELSE a.nodes[k[p][i]].next
        BY <1>1, <1>8
      <4>2. Chained(b.nodes, b.nodes[p].child, Append(k[p], c))
        BY <1>1, <1>8, <3>1, <3>2, <4>1, ChainedLonger
      <4> QED BY <1>4, <3>2, <4>2
    <3>3. CASE q # p
      <4>1. \A i \in 1 .. Len(k[q]) : b.nodes[k[q][i]].next = a.nodes[k[q][i]].next
        BY <1>8, <3>3
      <4>2. Chained(b.nodes, a.nodes[q].child, k[q])
        BY <1>8, <3>1, <4>1, ChainedSame
      <4> QED BY <1>4, <1>8, <3>3, <4>2
    <3> QED BY <3>2, <3>3
  <2>2. \A u, v \in 1 .. N : \A i \in 1 .. Len(h[u]), j \in 1 .. Len(h[v]) :
          h[u][i] = h[v][j] => u = v /\ i = j
    BY <1>7, Zenon
  <2>3. \A q \in 1 .. N : Chained(b.nodes, b.nodes[q].child, h[q])
    BY <2>1, Zenon
  <2>4. Len(h) = Len(b.nodes) /\ N = Len(b.nodes) /\ h \in Seq(Seq(Nat))
    BY <1>4, <1>8
  <2> QED BY <2>2, <2>3, <2>4, Zenon DEF Shape
<1>9. CASE a.nodes[p].child = 0
  <2>1. Relinked(a, b, p, c, a.nodes[p].next)
    BY <1>1, <1>9, AppendIs
  <2> HIDE DEF b
  <2>2. /\ Len(b.nodes) = N
        /\ \A q \in 1 .. N : q # p => b.nodes[q] = a.nodes[q]
        /\ b.nodes[p].child = c /\ b.nodes[p].next = a.nodes[p].next
    BY <1>1, <2>1 DEF Relinked
  <2>3. Len(k[p]) = 0
    <3>1. Chained(a.nodes, a.nodes[p].child, k[p]) /\ Len(k[p]) \in Nat
      BY <1>1, <1>2, <1>3
    <3>2. Len(k[p]) # 0 => 1 \in 1 .. Len(k[p]) /\ k[p][1] = a.nodes[p].child /\ k[p][1] \in 1 .. N
      BY <3>1 DEF Chained
    <3> QED BY <1>9, <3>2
  <2>4. \A q \in 1 .. N : b.nodes[q].next = a.nodes[q].next
    BY <2>2
  <2>5. \A q \in 1 .. N : \A i \in 1 .. Len(k[q]) :
          /\ b.nodes[k[q][i]].next = a.nodes[k[q][i]].next
          /\ ~(q = p /\ i = Len(k[p]))
    <3> SUFFICES ASSUME NEW q \in 1 .. N, NEW i \in 1 .. Len(k[q])
                 PROVE  /\ b.nodes[k[q][i]].next = a.nodes[k[q][i]].next
                        /\ ~(q = p /\ i = Len(k[p]))
      OBVIOUS
    <3>1. k[q][i] \in 1 .. N
      BY <1>2 DEF Chained
    <3>2. q = p => i # Len(k[p])
      BY <2>3
    <3> QED BY <2>4, <3>1, <3>2
  <2>6. b.nodes[c].next = 0
    BY <1>1, <2>4
  <2>7. Shape(b.nodes, h)
    BY <1>8, <2>2, <2>3, <2>5, <2>6
  <2> QED BY <2>7 DEF b, h
<1>10. CASE a.nodes[p].child # 0
  <2>1. PICK x \in Ids(a) : /\ x = Children(a, p)[Len(Children(a, p))]
                            /\ Relinked(a, b, x, a.nodes[x].child, c)
    BY <1>1, <1>10, AppendIs
  <2> HIDE DEF b
  <2>2. /\ Len(b.nodes) = N /\ \A q \in 1 .. N : b.nodes[q].child = a.nodes[q].child
        /\ \A q \in 1 .. N : b.nodes[q].next = IF q = x THEN c ELSE a.nodes[q].next
    BY <1>1, <2>1 DEF Relinked
  <2>3. Chained(a.nodes, a.nodes[p].child, k[p]) /\ Len(k[p]) \in Nat /\ a.nodes[p].child \in 0 .. N
    BY <1>1, <1>2, <1>3 DEF Arena
  <2>4. Len(k[p]) # 0
    BY <1>10, <2>3 DEF Chained
  <2>5. Len(k[p]) \in 1 .. Len(k[p]) /\ x = k[p][Len(k[p])]
    <3>1. Chain(a, a.nodes[p].child) = k[p]
      BY <1>1, <2>3, ChainListed
    <3> QED BY <2>1, <2>3, <2>4, <3>1 DEF Children
  <2>6. x # c
    BY <1>1, <1>6, <2>5
  <2>7. b.nodes[c].next = 0
    BY <1>1, <2>2, <2>6
  <2>8. ASSUME NEW q \in 1 .. N, NEW i \in 1 .. Len(k[q])
        PROVE  b.nodes[k[q][i]].next = IF q = p /\ i = Len(k[p]) THEN c ELSE a.nodes[k[q][i]].next
    <3>1. k[q][i] \in 1 .. N
      BY <1>2 DEF Chained
    <3>2. CASE q = p /\ i = Len(k[p])
      BY <2>2, <2>5, <3>1, <3>2
    <3>3. CASE ~(q = p /\ i = Len(k[p]))
      <4>1. k[q][i] # x
        <5>1. k[q][i] = k[p][Len(k[p])] => q = p /\ i = Len(k[p])
          BY <1>1, <2>5, ShapeOnce
        <5> QED BY <2>5, <3>3, <5>1
      <4> QED BY <2>2, <3>1, <3>3, <4>1
    <3> QED BY <3>2, <3>3
  <2>9. Shape(b.nodes, h)
    BY <1>1, <1>8, <2>2, <2>4, <2>7, <2>8
  <2> QED BY <2>9 DEF b, h
<1> QED BY <1>9, <1>10
-----------------------------------------------------------------------------
(* Linking several nodes.                                                  *)

(* f is the arena behind the first m of the nodes cs. *)
IsLinking(a, p, cs, f, m) ==
  f = [i \in 0 .. m |-> IF i = 0 THEN a ELSE ast_append_child(f[i - 1], p, cs[i])]

LEMMA LinkingExists ==
  ASSUME NEW a, NEW p, NEW cs, NEW n \in Nat
  PROVE  \E f : IsLinking(a, p, cs, f, n)
<1> DEFINE T == {k \in 0 .. n : \E f : IsLinking(a, p, cs, f, k)}
<1>1. 0 \in T
  <2> DEFINE f == [k \in 0 .. 0 |-> a]
  <2>1. IsLinking(a, p, cs, f, 0)
    BY DEF IsLinking
  <2> QED BY <2>1
<1>2. ASSUME NEW k \in 0 .. n, k # n, k \in T
      PROVE  k + 1 \in T
  <2>1. PICK f : IsLinking(a, p, cs, f, k)
    BY <1>2
  <2> DEFINE g == [i \in 0 .. k + 1 |->
                     IF i = k + 1 THEN ast_append_child(f[k], p, cs[k + 1]) ELSE f[i]]
  <2>2. ASSUME NEW i \in 0 .. k + 1
        PROVE  g[i] = IF i = 0 THEN a ELSE ast_append_child(g[i - 1], p, cs[i])
    <3>1. CASE i = k + 1
      <4>1. i # 0 /\ i - 1 = k /\ k \in 0 .. k + 1 /\ k # k + 1
        BY <3>1
      <4> QED BY <3>1, <4>1
    <3>2. CASE i # k + 1
      <4>1. i \in 0 .. k
        BY <3>2
      <4>2. f[i] = IF i = 0 THEN a ELSE ast_append_child(f[i - 1], p, cs[i])
        BY <4>1, <2>1 DEF IsLinking
      <4>3. i # 0 => i - 1 \in 0 .. k + 1 /\ i - 1 # k + 1
        BY <4>1
      <4> QED BY <3>2, <4>2, <4>3
    <3> QED BY <3>1, <3>2
  <2>3. IsLinking(a, p, cs, g, k + 1)
    BY <2>2 DEF IsLinking
  <2>4. k + 1 \in 0 .. n
    BY <1>2
  <2> QED BY <2>3, <2>4
<1> HIDE DEF T
<1>3. \A k \in 0 .. n : k \in T
  BY <1>1, <1>2, UpTo
<1> QED BY <1>3 DEF T

LEMMA AppendAllIs ==
  ASSUME NEW a, NEW p, NEW cs, Len(cs) \in Nat
  PROVE  \E f : /\ f[0] = a /\ AppendAll(a, p, cs) = f[Len(cs)]
                /\ \A i \in 0 .. Len(cs) : i # 0 => f[i] = ast_append_child(f[i - 1], p, cs[i])
<1>1. PICK g : g = CHOOSE h : IsLinking(a, p, cs, h, Len(cs))
  OBVIOUS
<1>2. IsLinking(a, p, cs, g, Len(cs))
  BY <1>1, LinkingExists
<1> DEFINE f[i \in 0 .. Len(cs)] == IF i = 0 THEN a ELSE ast_append_child(f[i - 1], p, cs[i])
<1>3. f = g
  BY <1>1 DEF IsLinking
<1>4. AppendAll(a, p, cs) = f[Len(cs)]
  BY DEF AppendAll
<1>5. AppendAll(a, p, cs) = g[Len(cs)]
  BY <1>3, <1>4
<1> DEFINE D == 0 .. Len(cs)
<1>6. 0 \in D
  OBVIOUS
<1> HIDE DEF D
<1>7. g = [i \in D |-> IF i = 0 THEN a ELSE ast_append_child(g[i - 1], p, cs[i])]
  BY <1>2 DEF IsLinking, D
<1>8. \A i \in D : g[i] = IF i = 0 THEN a ELSE ast_append_child(g[i - 1], p, cs[i])
  BY <1>7, Zenon
<1>9. g[0] = a /\ \A i \in D : i # 0 => g[i] = ast_append_child(g[i - 1], p, cs[i])
  BY <1>6, <1>8
<1> QED BY <1>5, <1>9 DEF D

LEMMA ConcatOne ==
  ASSUME NEW s \in Seq(Nat), NEW u \in Seq(Nat), NEW c \in Nat
  PROVE  s \o (u \o <<c>>) = Append(s \o u, c)
<1> DEFINE w == <<c>>
<1>1. w \in Seq(Nat) /\ s \o u \in Seq(Nat)
  OBVIOUS
<1>3. Append(s \o u, c) = (s \o u) \o w
  BY <1>1, AppendIsConcat
<1> HIDE DEF w
<1>2. (s \o u) \o w = s \o (u \o w)
  BY <1>1, ConcatAssociative
<1> QED BY <1>2, <1>3 DEF w

Each(cs) == {cs[i] : i \in 1 .. Len(cs)}
Once(cs) == \A i, j \in 1 .. Len(cs) : cs[i] = cs[j] /\ cs[i] # 0 => i = j
Whole(cs) == \A i \in 1 .. Len(cs) : cs[i] # 0

Longer(k, p, cs) == [k EXCEPT ![p] = @ \o cs]

LEMMA SubSeqOne ==
  ASSUME NEW s \in Seq(Nat), NEW k \in Nat, k + 1 \in 1 .. Len(s)
  PROVE  SubSeq(s, 1, k + 1) = SubSeq(s, 1, k) \o <<s[k + 1]>>
<1>1. 1 \in 1 .. Len(s) /\ k + 1 \in 1 .. Len(s) /\ (k + 1) - 1 = k
  OBVIOUS
<1> DEFINE n == k + 1
<1>2. n \in 1 .. Len(s) /\ n - 1 = k
  BY <1>1
<1> HIDE DEF n
<1>3. SubSeq(s, 1, n) = SubSeq(s, 1, n - 1) \o <<s[n]>>
  BY <1>1, <1>2, SubSeqRecursiveSecond
<1>4. SubSeq(s, 1, n) = SubSeq(s, 1, k) \o <<s[n]>>
  BY <1>2, <1>3
<1> QED BY <1>4 DEF n

(* Several free nodes, each linked once or missing. *)
LEMMA LinkAll ==
  ASSUME NEW a, NEW F, Good(a, F), NEW p \in 0 .. Len(a.nodes), NEW cs \in Seq(F \cup {0}),
         Once(cs)
  PROVE  /\ Kept(a, AppendAll(a, p, cs), F \ Each(cs))
         /\ p # 0 /\ Shape(a.nodes, a.kids) /\ Whole(cs)
            => Shape(AppendAll(a, p, cs).nodes, Longer(a.kids, p, cs))
<1> DEFINE N == Len(a.nodes)
           L == Len(cs)
           Gone(k) == {cs[i] : i \in 1 .. k}
           Tree == p # 0 /\ Shape(a.nodes, a.kids) /\ \A i \in 1 .. Len(cs) : cs[i] # 0
           Grown(k) == [a.kids EXCEPT ![p] = @ \o SubSeq(cs, 1, k)]
<1>1. /\ L \in Nat /\ \A i \in 1 .. L : cs[i] \in F \cup {0}
      /\ \A i, j \in 1 .. L : cs[i] = cs[j] /\ cs[i] # 0 => i = j
  BY DEF Once
<1>2. PICK f : /\ f[0] = a /\ AppendAll(a, p, cs) = f[L]
               /\ \A i \in 0 .. L : i # 0 => f[i] = ast_append_child(f[i - 1], p, cs[i])
  BY <1>1, AppendAllIs
<1>a. /\ Arena(a) /\ N \in Nat /\ Ids(a) = 1 .. N /\ Len(a.kids) = N /\ a.kids \in Seq(Seq(NodeIds))
  BY ArenaParts DEF Good, Arena
<1>b. Tree => /\ p \in 1 .. N /\ a.kids[p] \in Seq(Nat) /\ a.kids \in Seq(Seq(Nat))
              /\ cs \in Seq(Nat)
  <2>1. Tree => cs \in Seq(Nat)
    <3>1. \A i \in 1 .. L : cs[i] \in F => cs[i] \in Nat
      BY <1>a DEF Good, Free
    <3>2. Tree => \A i \in 1 .. L : cs[i] \in Nat
      BY <1>1, <3>1
    <3> QED BY <1>1, <3>2
  <2> QED BY <1>a, <2>1 DEF Shape
<1> DEFINE T == {k \in 0 .. L : /\ Good(f[k], F \ Gone(k)) /\ Len(f[k].nodes) = N
                                /\ f[k].kids = a.kids /\ f[k].err = a.err
                                /\ Tree => Shape(f[k].nodes, Grown(k))}
<1>3. 0 \in T
  <2>1. F \ Gone(0) = F
    OBVIOUS
  <2>2. Tree => Grown(0) = a.kids
    <3> SUFFICES ASSUME Tree PROVE Grown(0) = a.kids
      OBVIOUS
    <3>1. SubSeq(cs, 1, 0) = << >>
      BY SubSeqEmpty
    <3>2. a.kids[p] \o << >> = a.kids[p]
      BY <1>b
    <3>3. [a.kids EXCEPT ![p] = a.kids[p]] = a.kids
      BY <1>b
    <3> QED BY <3>1, <3>2, <3>3
  <2> HIDE DEF Gone, Grown
  <2>3. 0 \in 0 .. L
    BY <1>1
  <2>4. Tree => Shape(a.nodes, Grown(0))
    BY <2>2
  <2> QED BY <1>2, <2>1, <2>3, <2>4
<1>4. ASSUME NEW k \in 0 .. L, k # L, k \in T
      PROVE  k + 1 \in T
  <2>1. k + 1 \in 0 .. L /\ k + 1 \in 1 .. L /\ k + 1 # 0 /\ k + 1 - 1 = k
    BY <1>1, <1>4
  <2>2. f[k + 1] = ast_append_child(f[k], p, cs[k + 1])
    BY <1>2, <2>1
  <2>3. /\ Good(f[k], F \ Gone(k)) /\ Len(f[k].nodes) = N
        /\ f[k].kids = a.kids /\ f[k].err = a.err
        /\ Tree => Shape(f[k].nodes, Grown(k))
    BY <1>4
  <2>4. cs[k + 1] \in (F \ Gone(k)) \cup {0}
    <3>1. \A i \in 1 .. k : i \in 1 .. L /\ i # k + 1
      BY <2>1
    <3>2. \A i \in 1 .. k : cs[i] # cs[k + 1] \/ cs[k + 1] = 0
      BY <1>1, <2>1, <3>1
    <3> QED BY <1>1, <2>1, <3>2
  <2>5. (F \ Gone(k)) \ {cs[k + 1]} = F \ Gone(k + 1)
    <3>1. \A i \in 1 .. k + 1 : i \in 1 .. k \/ i = k + 1
      BY <2>1
    <3>2. \A i \in 1 .. k : i \in 1 .. k + 1
      BY <2>1
    <3>3. k + 1 \in 1 .. k + 1
      BY <2>1
    <3> QED BY <3>1, <3>2, <3>3
  <2>6. Tree => Grown(k + 1) = [Grown(k) EXCEPT ![p] = Append(@, cs[k + 1])]
    <3> SUFFICES ASSUME Tree PROVE Grown(k + 1) = [Grown(k) EXCEPT ![p] = Append(@, cs[k + 1])]
      OBVIOUS
    <3> DEFINE s == a.kids[p]
               u == SubSeq(cs, 1, k)
    <3>1. /\ p \in 1 .. N /\ s \in Seq(Nat) /\ cs \in Seq(Nat) /\ a.kids \in Seq(Seq(Nat))
          /\ Len(a.kids) = N
      BY <1>a, <1>b
    <3>2. u \in Seq(Nat) /\ cs[k + 1] \in Nat
      <4>1. \A i \in 1 .. k : cs[i] \in Nat
        BY <1>1, <2>1, <3>1
      <4>2. k \in Int
        OBVIOUS
      <4> QED BY <1>1, <2>1, <3>1, <4>1, <4>2, SubSeqProperties
    <3>3. SubSeq(cs, 1, k + 1) = u \o <<cs[k + 1]>>
      BY <1>1, <2>1, <3>1, SubSeqOne
    <3> HIDE DEF u
    <3>4. s \o (u \o <<cs[k + 1]>>) = Append(s \o u, cs[k + 1])
      BY <3>1, <3>2, ConcatOne
    <3>5. Grown(k) = [a.kids EXCEPT ![p] = s \o u] /\ Grown(k)[p] = s \o u
      <4>1. Grown(k) = [a.kids EXCEPT ![p] = s \o u]
        BY DEF u
      <4>2. \A v : [a.kids EXCEPT ![p] = v][p] = v
        BY <3>1
      <4> HIDE DEF Grown, s
      <4> QED BY <4>1, <4>2
    <3>6. Grown(k + 1) = [a.kids EXCEPT ![p] = Append(s \o u, cs[k + 1])]
      BY <3>3, <3>4
    <3> HIDE DEF s
    <3>7. [[a.kids EXCEPT ![p] = s \o u] EXCEPT ![p] = Append(s \o u, cs[k + 1])]
            = [a.kids EXCEPT ![p] = Append(s \o u, cs[k + 1])]
      BY <3>1
    <3> HIDE DEF Grown
    <3> QED BY <3>5, <3>6, <3>7
  <2> HIDE DEF Gone, Grown
  <2>7. /\ Good(f[k + 1], F \ Gone(k + 1)) /\ Len(f[k + 1].nodes) = N
        /\ f[k + 1].kids = a.kids /\ f[k + 1].err = a.err
    <3>1. p \in 0 .. Len(f[k].nodes)
      BY <2>3
    <3> DEFINE g == f[k]
               G == F \ Gone(k)
    <3>2. Good(g, G) /\ p \in 0 .. Len(g.nodes) /\ cs[k + 1] \in G \cup {0}
      BY <2>3, <2>4, <3>1
    <3> HIDE DEF g, G
    <3>3. Kept(g, ast_append_child(g, p, cs[k + 1]), G \ {cs[k + 1]})
      BY <3>2, LinkFree
    <3> QED BY <2>2, <2>3, <2>5, <3>3 DEF g, G, Kept
  <2>8. ASSUME Tree PROVE Shape(f[k + 1].nodes, Grown(k + 1))
    <3>1. cs[k + 1] # 0 /\ cs[k + 1] \in F \ Gone(k)
      BY <2>1, <2>4, <2>8
    <3>2. Shape(f[k].nodes, Grown(k))
      BY <2>3, <2>8
    <3>3. p \in Ids(f[k])
      BY <1>b, <2>3, <2>8 DEF Ids
    <3>4. Shape(ast_append_child(f[k], p, cs[k + 1]).nodes,
                [Grown(k) EXCEPT ![p] = Append(@, cs[k + 1])])
      BY <2>3, <3>1, <3>2, <3>3, LinkShape
    <3> QED BY <2>2, <2>6, <2>8, <3>4
  <2> QED BY <2>1, <2>7, <2>8
<1> HIDE DEF T
<1>5. L \in T
  <2>1. \A k \in 0 .. L : k \in T
    BY <1>1, <1>3, <1>4, UpTo
  <2> QED BY <1>1, <2>1
<1>6. /\ Good(f[L], F \ Gone(L)) /\ Len(f[L].nodes) = N
      /\ f[L].kids = a.kids /\ f[L].err = a.err
      /\ Tree => Shape(f[L].nodes, Grown(L))
  BY <1>5 DEF T
<1>7. Tree => Grown(L) = [a.kids EXCEPT ![p] = @ \o cs]
  <2>1. Tree => SubSeq(cs, 1, L) = cs
    BY <1>b, SubSeqFull
  <2> QED BY <2>1
<1>8. Kept(a, AppendAll(a, p, cs), F \ Each(cs))
  BY <1>2, <1>6 DEF Kept, Each
<1> QED BY <1>2, <1>6, <1>7, <1>8 DEF Longer, Whole

LEMMA AppendAllThree ==
  ASSUME NEW a, NEW p, NEW x, NEW y, NEW z,
         NEW b, b = ast_append_child(a, p, x), NEW c, c = ast_append_child(b, p, y)
  PROVE  AppendAll(a, p, <<x, y, z>>) = ast_append_child(c, p, z)
<1> DEFINE cs == <<x, y, z>>
<1>1. Len(cs) = 3 /\ cs[1] = x /\ cs[2] = y /\ cs[3] = z
  OBVIOUS
<1> HIDE DEF cs
<1>2. PICK f : /\ f[0] = a /\ AppendAll(a, p, cs) = f[Len(cs)]
               /\ \A i \in 0 .. Len(cs) : i # 0 => f[i] = ast_append_child(f[i - 1], p, cs[i])
  <2>1. Len(cs) \in Nat
    BY <1>1
  <2> QED BY <2>1, AppendAllIs
<1>3. /\ f[0] = a /\ AppendAll(a, p, cs) = f[3]
      /\ \A i \in 0 .. 3 : i # 0 => f[i] = ast_append_child(f[i - 1], p, cs[i])
  BY <1>1, <1>2
<1>4. f[1] = b
  BY <1>1, <1>3
<1>5. f[2] = c
  BY <1>1, <1>3, <1>4
<1>6. f[3] = ast_append_child(c, p, z)
  BY <1>1, <1>3, <1>5
<1> QED BY <1>3, <1>6 DEF cs

(* What tmp_ast_a names is linked behind a condition that is new: whatever *)
(* that node is, and whatever already follows it, no ring comes of it.     *)
LEMMA LinkTemp ==
  ASSUME NEW a, NEW F, Good(a, F), NEW p \in 0 .. Len(a.nodes), p # 0 => a.nodes[p].child = 0,
         NEW x \in F, NEW y \in (F \ {x}) \cup {0}, NEW t \in 0 .. Len(a.nodes), t \notin F
  PROVE  Kept(a, AppendAll(a, p, <<x, t, y>>), F \ {x, y})
<1> DEFINE N == Len(a.nodes)
           b == ast_append_child(a, p, x)
           c == ast_append_child(b, p, t)
           d == ast_append_child(c, p, y)
<1>1. /\ Arena(a) /\ Ranked(a) /\ N \in Nat /\ Ids(a) = 1 .. N /\ Free(a, x)
      /\ x \in 1 .. N /\ x # 0 /\ a.nodes[x].next = 0 /\ x # t /\ t \in 0 .. N /\ x \in 0 .. N
  <2>1. Arena(a) /\ Ranked(a) /\ N \in Nat /\ Ids(a) = 1 .. N /\ Free(a, x)
    BY ArenaParts DEF Good
  <2> QED BY <2>1 DEF Free
<1>2. AppendAll(a, p, <<x, t, y>>) = d
  BY AppendAllThree
<1>3. Good(b, F \ {x}) /\ Len(b.nodes) = N /\ b.kids = a.kids /\ b.err = a.err
  <2>1. x \in F \cup {0}
    OBVIOUS
  <2> QED BY <2>1, LinkFree DEF Kept
<1>4. Good(c, F \ {x}) /\ Len(c.nodes) = N /\ c.kids = a.kids /\ c.err = a.err
  <2>0. Arena(b) /\ Ranked(b) /\ Ids(b) = 1 .. N /\ p \in 0 .. Len(b.nodes) /\ t \in 0 .. Len(b.nodes)
    BY <1>1, <1>3 DEF Good, Ids
  <2>1. CASE p = 0 \/ t = 0
    <3>1. c = b
      BY <2>0, <2>1, AppendIs
    <3> QED BY <1>3, <3>1
  <2>2. CASE p # 0 /\ t # 0
    <3>1. Relinked(a, b, p, x, a.nodes[p].next)
      BY <1>1, <2>2, AppendIs
    <3> HIDE DEF b
    <3>2. /\ p \in 1 .. N /\ b.nodes[p].child = x
          /\ \A i \in 1 .. N : b.nodes[i].next = a.nodes[i].next
      BY <1>1, <2>2, <3>1 DEF Relinked
    <3>3. /\ b.nodes[x].next = 0
          /\ \A i \in 1 .. N : b.nodes[i].next # x
      BY <1>1, <3>2 DEF Free
    <3>4. PICK z \in Ids(b) : /\ z = Children(b, p)[Len(Children(b, p))]
                              /\ Relinked(b, c, z, b.nodes[z].child, t)
      <4>1. b.nodes[p].child # 0
        BY <1>1, <3>2
      <4> QED BY <2>0, <2>2, <4>1, AppendIs
    <3>5. z = x
      <4>1. Chained(b.nodes, x, <<x>>)
        BY <1>1, <1>3, <3>3, ChainedOne
      <4>2. x \in 0 .. Len(b.nodes)
        BY <1>1, <1>3
      <4>3. Chain(b, x) = <<x>>
        BY <2>0, <4>1, <4>2, ChainListed
      <4>4. Children(b, p) = <<x>>
        BY <3>2, <4>3 DEF Children
      <4> QED BY <3>4, <4>4
    <3> HIDE DEF c
    <3>6. /\ Arena(c) /\ Len(c.nodes) = N /\ Ids(c) = 1 .. N
          /\ c.kids = b.kids /\ c.err = b.err
          /\ \A i \in 1 .. N : i # x => c.nodes[i] = b.nodes[i]
          /\ c.nodes[x].child = b.nodes[x].child /\ c.nodes[x].next = t
      BY <1>1, <1>3, <2>0, <3>4, <3>5 DEF Relinked
    <3>7. Ranked(c)
      <4>1. x \in Ids(b) /\ Ids(c) = Ids(b) /\ c.nodes[x].next # x /\ c.nodes[x].next \in 0 .. Len(b.nodes)
        BY <1>1, <1>3, <2>0, <3>6
      <4>2. \A n \in Ids(b) : n # x => c.nodes[n].next = b.nodes[n].next /\ b.nodes[n].next # x
        BY <2>0, <3>3, <3>6
      <4> QED BY <2>0, <4>1, <4>2, RankAbove
    <3>8. ASSUME NEW f \in F \ {x}
          PROVE  Free(c, f)
      <4>1. /\ f \in 1 .. N /\ b.nodes[f].next = 0 /\ f # x /\ f # t
            /\ \A m \in 1 .. N : b.nodes[m].child # f /\ b.nodes[m].next # f
        BY <1>3, <2>0 DEF Good, Free
      <4>2. c.nodes[f].next = 0
        BY <3>6, <4>1
      <4>3. ASSUME NEW m \in 1 .. N
            PROVE  c.nodes[m].child # f /\ c.nodes[m].next # f
        <5>1. CASE m = x
          BY <1>1, <3>6, <4>1, <5>1
        <5>2. CASE m # x
          BY <3>6, <4>1, <5>2
        <5> QED BY <5>1, <5>2
      <4> QED BY <3>6, <4>1, <4>2, <4>3 DEF Free
    <3> QED BY <1>3, <3>6, <3>7, <3>8 DEF Good
  <2> QED BY <2>1, <2>2
<1>5. Good(d, (F \ {x}) \ {y}) /\ Len(d.nodes) = N /\ d.kids = a.kids /\ d.err = a.err
  <2>1. p \in 0 .. Len(c.nodes)
    BY <1>4
  <2> HIDE DEF c
  <2> QED BY <1>4, <2>1, LinkFree DEF Kept
<1>6. (F \ {x}) \ {y} = F \ {x, y}
  OBVIOUS
<1> HIDE DEF b, c, d
<1> QED BY <1>2, <1>5, <1>6 DEF Kept

(* The history of the children meant changes nothing else. *)
Remeant(a, b, F, p, cs) ==
  /\ Good(b, F) /\ b.nodes = a.nodes /\ b.err = a.err
  /\ p # 0 => b.kids = Longer(a.kids, p, cs)

LEMMA MeantIs ==
  ASSUME NEW a, NEW F, Good(a, F), NEW p \in 0 .. Len(a.nodes), NEW cs \in Seq(NodeIds)
  PROVE  Remeant(a, Meant(a, p, cs), F, p, cs)
<1> DEFINE b == Meant(a, p, cs)
<1>1. /\ a = [nodes |-> a.nodes, kids |-> a.kids, err |-> a.err, calls |-> a.calls]
      /\ Arena(a) /\ Len(a.nodes) \in Nat /\ a.kids \in Seq(Seq(NodeIds)) /\ Len(a.kids) = Len(a.nodes)
  BY ArenaParts DEF Good, Arena
<1>2. CASE p = 0
  BY <1>2 DEF Meant, Remeant
<1>3. CASE p # 0
  <2> DEFINE k == [a.kids EXCEPT ![p] = @ \o cs]
  <2>1. b = [nodes |-> a.nodes, kids |-> k, err |-> a.err, calls |-> a.calls]
    BY <1>1, <1>3 DEF Meant
  <2>2. k \in Seq(Seq(NodeIds)) /\ Len(k) = Len(a.nodes)
    <3>1. p \in 1 .. Len(a.kids)
      BY <1>1, <1>3
    <3>2. a.kids[p] \o cs \in Seq(NodeIds)
      BY <1>1, <3>1
    <3> QED BY <1>1, <3>1, <3>2
  <2> HIDE DEF b, k
  <2>3. b.nodes = a.nodes /\ b.kids = k /\ b.err = a.err /\ b.calls = a.calls /\ Ids(b) = Ids(a)
    BY <2>1 DEF Ids
  <2>4. Arena(b)
    <3>1. b \in [nodes : Seq(NodeType), kids : Seq(Seq(NodeIds)), err : BOOLEAN, calls : Nat]
      BY <1>1, <2>1, <2>2, ArenaParts
    <3> QED BY <1>1, <2>2, <2>3, <3>1 DEF Arena
  <2>5. Good(b, F)
    BY <2>3, <2>4 DEF Good, Ranked, Ranking, Free
  <2> QED BY <2>3, <2>5 DEF b, k, Remeant, Longer
<1> QED BY <1>2, <1>3
-----------------------------------------------------------------------------
(* A statement: a new node with its parts, appended to the block p and     *)
(* meant to be in the block q.                                             *)
Placed(a, s, cs, p, ms, q) ==
  Meant(Meant(ast_append_child(AppendAll(a, s, cs), p, s), s, ms), q, <<s>>)

LEMMA NodesInArena ==
  ASSUME NEW a, NEW F, Good(a, F), NEW cs \in Seq(F \cup {0})
  PROVE  cs \in Seq(0 .. Len(a.nodes)) /\ cs \in Seq(NodeIds)
<1>1. Len(a.nodes) \in Nat /\ Len(a.nodes) <= AST_CAP /\ AST_CAP \in Nat
  BY ArenaParts DEF Good
<1>2. \A n \in F \cup {0} : n \in 0 .. Len(a.nodes) /\ n \in NodeIds
  BY <1>1 DEF Good, Free, Ids, NodeIds
<1>3. /\ F \cup {0} \subseteq 0 .. Len(a.nodes) /\ F \cup {0} \subseteq NodeIds
  BY <1>2
<1> QED BY <1>3, SeqMonotonic

(* What placing it does, when its parts are free. *)
Placing(a, b, F, s, cs, p, q) ==
  /\ Good(b, F \ ({s} \cup Each(cs))) /\ Len(b.nodes) = Len(a.nodes) /\ b.err = a.err
  /\ Shape(a.nodes, a.kids) /\ s # 0 /\ Whole(cs) /\ p = q /\ p # 0 => Shape(b.nodes, b.kids)

LEMMA PlacedFree ==
  ASSUME NEW a, NEW F, Good(a, F), NEW s \in F \cup {0}, NEW cs \in Seq((F \ {s}) \cup {0}), Once(cs),
         NEW p \in 0 .. Len(a.nodes), NEW q \in 0 .. Len(a.nodes)
  PROVE  Placing(a, Placed(a, s, cs, p, cs, q), F, s, cs, p, q)
<1> DEFINE N == Len(a.nodes)
           b == AppendAll(a, s, cs)
           c == ast_append_child(b, p, s)
           d == Meant(c, s, cs)
           e == Meant(d, q, <<s>>)
           G == F \ Each(cs)
           Tree == Shape(a.nodes, a.kids) /\ s # 0 /\ Whole(cs) /\ p = q /\ p # 0
           k == Longer(a.kids, s, cs)
<1>1. /\ Arena(a) /\ N \in Nat /\ Ids(a) = 1 .. N /\ s \in 0 .. N /\ s \in NodeIds /\ s \in Nat
      /\ N <= AST_CAP /\ Len(a.kids) = N /\ a.kids \in Seq(Seq(NodeIds))
  <2>1. Arena(a) /\ N \in Nat /\ Ids(a) = 1 .. N /\ N <= AST_CAP /\ AST_CAP \in Nat
    BY ArenaParts DEF Good
  <2>2. s \in 0 .. N
    BY <2>1 DEF Good, Free
  <2>3. Len(a.kids) = N /\ a.kids \in Seq(Seq(NodeIds))
    BY <2>1 DEF Arena
  <2> QED BY <2>1, <2>2, <2>3 DEF NodeIds
<1>2. cs \in Seq(F \cup {0}) /\ cs \in Seq(NodeIds) /\ Len(cs) \in Nat
  <2>1. cs \in Seq(F \cup {0})
    <3>1. (F \ {s}) \cup {0} \subseteq F \cup {0}
      OBVIOUS
    <3> QED BY <3>1, SeqMonotonic
  <2>2. cs \in Seq(NodeIds)
    BY <2>1, NodesInArena
  <2> QED BY <2>1, <2>2
<1>3. Kept(a, b, G) /\ (Tree => Shape(b.nodes, k))
  <2>1. /\ Kept(a, b, F \ Each(cs))
        /\ s # 0 /\ Shape(a.nodes, a.kids) /\ Whole(cs) => Shape(b.nodes, k)
    BY <1>1, <1>2, LinkAll
  <2> QED BY <2>1
<1>4. s \in G \cup {0}
  <2>1. \A i \in 1 .. Len(cs) : cs[i] # s \/ s = 0
    <3>1. \A i \in 1 .. Len(cs) : cs[i] \in (F \ {s}) \cup {0}
      BY <1>2
    <3> QED BY <3>1
  <2> QED BY <2>1 DEF Each
<1> HIDE DEF b
<1>5. Kept(a, c, G \ {s})
  <2>1. p \in 0 .. Len(b.nodes) /\ Good(b, G)
    BY <1>3 DEF Kept
  <2>2. Kept(b, c, G \ {s})
    BY <1>4, <2>1, LinkFree
  <2> QED BY <1>3, <2>2 DEF Kept
<1>6. ASSUME Tree PROVE Shape(c.nodes, [k EXCEPT ![p] = Append(@, s)])
  <2>1. p \in Ids(b) /\ s \in G
    BY <1>1, <1>3, <1>4, <1>6 DEF Ids, Kept
  <2>2. Good(b, G) /\ Shape(b.nodes, k)
    BY <1>3, <1>6 DEF Kept
  <2> HIDE DEF k, b, G
  <2> QED BY <2>1, <2>2, LinkShape
<1> HIDE DEF c, G
<1>7. /\ Good(d, G \ {s}) /\ d.nodes = c.nodes /\ d.err = c.err
      /\ s # 0 => d.kids = k
  <2>1. s \in 0 .. Len(c.nodes) /\ Good(c, G \ {s}) /\ c.kids = a.kids
    BY <1>1, <1>5 DEF Kept
  <2>2. Remeant(c, d, G \ {s}, s, cs)
    BY <1>2, <2>1, MeantIs
  <2> QED BY <2>1, <2>2 DEF Remeant
<1> HIDE DEF d
<1>8. /\ Good(e, G \ {s}) /\ e.nodes = d.nodes /\ e.err = d.err
      /\ q # 0 => e.kids = Longer(d.kids, q, <<s>>)
  <2>1. q \in 0 .. Len(d.nodes) /\ <<s>> \in Seq(NodeIds) /\ Good(d, G \ {s})
    BY <1>1, <1>5, <1>7 DEF Kept
  <2>2. Remeant(d, e, G \ {s}, q, <<s>>)
    BY <2>1, MeantIs
  <2> QED BY <2>2 DEF Remeant
<1>9. Tree => e.kids = [k EXCEPT ![p] = Append(@, s)]
  <2> SUFFICES ASSUME Tree PROVE e.kids = [k EXCEPT ![p] = Append(@, s)]
    OBVIOUS
  <2>1. e.kids = [k EXCEPT ![p] = @ \o <<s>>]
    BY <1>7, <1>8 DEF Longer
  <2>2. k[p] \in Seq(NodeIds)
    <3>1. s \in 1 .. N /\ p \in 1 .. N
      BY <1>1
    <3>2. a.kids[s] \o cs \in Seq(NodeIds)
      BY <1>1, <1>2, <3>1
    <3>3. k \in Seq(Seq(NodeIds)) /\ Len(k) = N
      BY <1>1, <3>1, <3>2 DEF Longer
    <3> QED BY <3>1, <3>3
  <2>3. Append(k[p], s) = k[p] \o <<s>>
    BY <1>1, <2>2, AppendIsConcat
  <2> HIDE DEF k
  <2> QED BY <2>1, <2>3
<1>10. G \ {s} = F \ ({s} \cup Each(cs))
  BY DEF G
<1>11. Placed(a, s, cs, p, cs, q) = e
  BY DEF Placed, b, c, d
<1>12. /\ Good(e, F \ ({s} \cup Each(cs))) /\ Len(e.nodes) = N /\ e.err = a.err
       /\ Tree => Shape(e.nodes, e.kids)
  <2> HIDE DEF e
  <2>1. Good(e, F \ ({s} \cup Each(cs)))
    BY <1>8, <1>10
  <2> QED BY <1>3, <1>5, <1>6, <1>7, <1>8, <1>9, <2>1 DEF Kept
<1> HIDE DEF e
<1>13. Placing(a, e, F, s, cs, p, q)
  BY <1>12 DEF Placing
<1> QED BY <1>11, <1>13

(* The same with tmp_ast_a among the parts. *)
Steady(a, b, F) == Good(b, F) /\ Len(b.nodes) = Len(a.nodes) /\ b.err = a.err

LEMMA PlacedTemp ==
  ASSUME NEW a, NEW F, Good(a, F), NEW s \in F \cup {0}, s # 0 => a.nodes[s].child = 0,
         NEW x \in F \ {s}, NEW y \in (F \ {s, x}) \cup {0}, NEW t \in 0 .. Len(a.nodes), t \notin F,
         NEW p \in 0 .. Len(a.nodes), NEW q \in 0 .. Len(a.nodes), NEW ms \in Seq(NodeIds)
  PROVE  Steady(a, Placed(a, s, <<x, t, y>>, p, ms, q), F \ {s, x, y})
<1> DEFINE N == Len(a.nodes)
           b == AppendAll(a, s, <<x, t, y>>)
           c == ast_append_child(b, p, s)
           d == Meant(c, s, ms)
           e == Meant(d, q, <<s>>)
<1>1. N \in Nat /\ s \in 0 .. N /\ s \in NodeIds
  <2>1. Arena(a) /\ N \in Nat /\ Ids(a) = 1 .. N /\ N <= AST_CAP /\ AST_CAP \in Nat
    BY ArenaParts DEF Good
  <2>2. s \in 0 .. N
    BY <2>1 DEF Good, Free
  <2> QED BY <2>1, <2>2 DEF NodeIds
<1>2. Good(b, F \ {x, y}) /\ Len(b.nodes) = N /\ b.err = a.err
  <2>1. x \in F /\ y \in (F \ {x}) \cup {0}
    OBVIOUS
  <2>2. Kept(a, b, F \ {x, y})
    BY <1>1, <2>1, LinkTemp
  <2> QED BY <2>2 DEF Kept
<1>3. s \in (F \ {x, y}) \cup {0}
  OBVIOUS
<1> HIDE DEF b
<1>4. Good(c, (F \ {x, y}) \ {s}) /\ Len(c.nodes) = N /\ c.err = a.err
  <2>1. p \in 0 .. Len(b.nodes)
    BY <1>2
  <2>2. Kept(b, c, (F \ {x, y}) \ {s})
    BY <1>2, <1>3, <2>1, LinkFree
  <2> QED BY <1>2, <2>2 DEF Kept
<1> HIDE DEF c
<1>5. Good(d, (F \ {x, y}) \ {s}) /\ d.nodes = c.nodes /\ d.err = a.err
  <2>1. s \in 0 .. Len(c.nodes)
    BY <1>1, <1>4
  <2>2. Remeant(c, d, (F \ {x, y}) \ {s}, s, ms)
    BY <1>4, <2>1, MeantIs
  <2> QED BY <1>4, <2>2 DEF Remeant
<1> HIDE DEF d
<1>6. Good(e, (F \ {x, y}) \ {s}) /\ e.nodes = d.nodes /\ e.err = a.err
  <2>1. q \in 0 .. Len(d.nodes) /\ <<s>> \in Seq(NodeIds)
    BY <1>1, <1>4, <1>5
  <2>2. Remeant(d, e, (F \ {x, y}) \ {s}, q, <<s>>)
    BY <1>5, <2>1, MeantIs
  <2> QED BY <1>5, <2>2 DEF Remeant
<1>7. (F \ {x, y}) \ {s} = F \ {s, x, y}
  OBVIOUS
<1>8. Placed(a, s, <<x, t, y>>, p, ms, q) = e
  BY DEF Placed, b, c, d
<1> HIDE DEF e
<1>9. Steady(a, e, F \ {s, x, y})
  <2>1. Good(e, F \ {s, x, y})
    BY <1>6, <1>7
  <2> QED BY <1>4, <1>5, <1>6, <2>1 DEF Steady
<1> QED BY <1>8, <1>9
-----------------------------------------------------------------------------
(* Whole handlers.  An arena behind another one, with the nodes in F free. *)
Later(a, b, F) ==
  Good(b, F) /\ Len(a.nodes) <= Len(b.nodes) /\ (b.err \in BOOLEAN) /\ (a.err => b.err)

WithNew(a, b, n, F, child) ==
  /\ Later(a, b, (F \ {child}) \cup ({n} \ {0}))
  /\ n \in 0 .. Len(b.nodes) /\ n \notin F /\ (n # 0 => n = Len(a.nodes) + 1)
  /\ n # 0 => b.nodes[n].child = child
  /\ n = 0 => b.err
  /\ Shape(a.nodes, a.kids) /\ ~b.err /\ (child # 0 => Free(a, child)) => Shape(b.nodes, b.kids)

LEMMA NewIs ==
  ASSUME NEW a, NEW F, Good(a, F), NEW kind \in NodeKinds, NEW child \in F \cup {0}
  PROVE  WithNew(a, ast_new(a, kind, child), FreshId(a), F, child)
<1> DEFINE b == ast_new(a, kind, child)
           n == FreshId(a)
           N == Len(a.nodes)
           G == (F \ {child}) \cup ({n} \ {0})
<1>1. /\ Arena(a) /\ N \in Nat /\ a.nodes \in Seq(NodeType) /\ a.err \in BOOLEAN
      /\ child \in 0 .. N
  <2>1. Arena(a) /\ N \in Nat /\ a.nodes \in Seq(NodeType) /\ a.err \in BOOLEAN
    BY ArenaParts DEF Good
  <2>2. \A i \in F : i \in 1 .. N
    BY DEF Good, Free, Ids
  <2> QED BY <2>1, <2>2
<1>2. /\ n \in {0, N + 1} /\ n \notin F
      /\ Good(b, G)
      /\ Len(b.nodes) = N + IF n = 0 THEN 0 ELSE 1
      /\ ~b.err => n # 0 /\ ~a.err
      /\ Shape(a.nodes, a.kids) /\ ~b.err /\ (child # 0 => Free(a, child)) => Shape(b.nodes, b.kids)
  BY <1>1, New
<1>3. b.err \in BOOLEAN
  BY <1>2, ArenaParts DEF Good
<1>4. n # 0 => b.nodes[n].child = child
  <2> SUFFICES ASSUME n # 0 PROVE b.nodes[n].child = child
    OBVIOUS
  <2>1. n = N + 1 /\ b.nodes = Append(a.nodes, Node(kind, child))
    BY <1>1, NewRoom
  <2> QED BY <1>1, <2>1 DEF Node
<1>5. n \in 0 .. Len(b.nodes) /\ N <= Len(b.nodes)
  <2>1. CASE n = 0
    BY <1>1, <1>2, <2>1
  <2>2. CASE n # 0
    <3>1. n = N + 1 /\ Len(b.nodes) = N + 1
      BY <1>2, <2>2
    <3> HIDE DEF b, n, N
    <3> QED BY <1>1, <3>1
  <2> QED BY <2>1, <2>2
<1> HIDE DEF b, n, G
<1>6. Later(a, b, G)
  BY <1>1, <1>2, <1>3, <1>5 DEF Later
<1> QED BY <1>1, <1>2, <1>3, <1>4, <1>5, <1>6 DEF WithNew, b, n, G

(* One statement: its node, with the parts cs, in the block p. *)
Finished(a, b, F, cs, p, q) ==
  /\ Later(a, b, F)
  /\ Shape(a.nodes, a.kids) /\ ~b.err /\ Whole(cs) /\ p = q /\ p # 0 => Shape(b.nodes, b.kids)

LEMMA FinishFree ==
  ASSUME NEW a, NEW F, Good(a, F), NEW kind \in NodeKinds, NEW child \in F \cup {0},
         NEW cs \in Seq((F \ {child}) \cup {0}), Once(cs),
         NEW p \in 0 .. Len(a.nodes), NEW q \in 0 .. Len(a.nodes)
  PROVE  Finished(a, Placed(ast_new(a, kind, child), FreshId(a), cs, p, cs, q),
                  F \ ({child} \cup Each(cs)), cs, p, q)
<1> DEFINE c == ast_new(a, kind, child)
           s == FreshId(a)
           b == Placed(c, s, cs, p, cs, q)
           G == (F \ {child}) \cup ({s} \ {0})
<1>1. WithNew(a, c, s, F, child)
  BY NewIs
<1>2. child # 0 => Free(a, child)
  BY DEF Good
<1>n. Len(a.nodes) \in Nat
  BY ArenaParts DEF Good
<1> HIDE DEF c, s, G
<1>3. Good(c, G) /\ s \in G \cup {0} /\ Len(a.nodes) <= Len(c.nodes) /\ s \notin F
  BY <1>1 DEF WithNew, Later, G
<1>4. cs \in Seq((G \ {s}) \cup {0})
  <2>1. (F \ {child}) \cup {0} \subseteq (G \ {s}) \cup {0}
    BY <1>3 DEF G
  <2> QED BY <2>1, SeqMonotonic
<1>5. p \in 0 .. Len(c.nodes) /\ q \in 0 .. Len(c.nodes)
  <2>1. Len(c.nodes) \in Nat
    BY <1>3, ArenaParts DEF Good
  <2> QED BY <1>n, <1>3, <2>1
<1>6. /\ Good(b, G \ ({s} \cup Each(cs))) /\ Len(b.nodes) = Len(c.nodes) /\ b.err = c.err
      /\ Shape(c.nodes, c.kids) /\ s # 0 /\ Whole(cs) /\ p = q /\ p # 0 => Shape(b.nodes, b.kids)
  <2>1. Placing(c, b, G, s, cs, p, q)
    BY <1>3, <1>4, <1>5, PlacedFree
  <2> HIDE DEF b
  <2> QED BY <2>1 DEF Placing
<1>7. G \ ({s} \cup Each(cs)) = F \ ({child} \cup Each(cs))
  BY <1>3 DEF G
<1> HIDE DEF b
<1>8. Later(a, b, F \ ({child} \cup Each(cs)))
  <2>1. Good(b, F \ ({child} \cup Each(cs)))
    BY <1>6, <1>7
  <2> QED BY <1>1, <1>6, <2>1 DEF WithNew, Later
<1>9. ASSUME Shape(a.nodes, a.kids), ~b.err, Whole(cs), p = q, p # 0
      PROVE  Shape(b.nodes, b.kids)
  <2>1. ~c.err /\ s # 0
    BY <1>1, <1>6, <1>9 DEF WithNew
  <2>2. Shape(c.nodes, c.kids)
    BY <1>1, <1>2, <1>9, <2>1 DEF WithNew
  <2> QED BY <1>6, <1>9, <2>1, <2>2
<1>10. Finished(a, b, F \ ({child} \cup Each(cs)), cs, p, q)
  BY <1>8, <1>9 DEF Finished
<1> QED BY <1>10 DEF b, c, s

LEMMA FinishTemp ==
  ASSUME NEW a, NEW F, Good(a, F), NEW kind \in NodeKinds, NEW x \in F, NEW y \in (F \ {x}) \cup {0},
         NEW t \in 0 .. Len(a.nodes), t \notin F, NEW ms \in Seq(NodeIds),
         NEW p \in 0 .. Len(a.nodes), NEW q \in 0 .. Len(a.nodes)
  PROVE  Later(a, Placed(ast_new(a, kind, 0), FreshId(a), <<x, t, y>>, p, ms, q), F \ {x, y})
<1> DEFINE c == ast_new(a, kind, 0)
           s == FreshId(a)
           b == Placed(c, s, <<x, t, y>>, p, ms, q)
           G == (F \ {0}) \cup ({s} \ {0})
<1>1. WithNew(a, c, s, F, 0)
  BY NewIs
<1>n. Len(a.nodes) \in Nat /\ 0 \notin F
  BY ArenaParts DEF Good, Free, Ids
<1> HIDE DEF c, s, G
<1>3. /\ Good(c, G) /\ s \in G \cup {0} /\ Len(a.nodes) <= Len(c.nodes) /\ s \notin F
      /\ s # 0 => c.nodes[s].child = 0 /\ s = Len(a.nodes) + 1
  BY <1>1 DEF WithNew, Later, G
<1>4. x \in G \ {s} /\ y \in (G \ {s, x}) \cup {0}
  BY <1>n, <1>3 DEF G
<1>5. /\ p \in 0 .. Len(c.nodes) /\ q \in 0 .. Len(c.nodes) /\ t \in 0 .. Len(c.nodes)
  <2>1. Len(c.nodes) \in Nat
    BY <1>3, ArenaParts DEF Good
  <2> QED BY <1>n, <1>3, <2>1
<1>6. t \notin G
  BY <1>n, <1>3 DEF G
<1>7. Good(b, G \ {s, x, y}) /\ Len(b.nodes) = Len(c.nodes) /\ b.err = c.err
  <2>1. Steady(c, b, G \ {s, x, y})
    BY <1>3, <1>4, <1>5, <1>6, PlacedTemp
  <2> HIDE DEF b
  <2> QED BY <2>1 DEF Steady
<1>8. G \ {s, x, y} = F \ {x, y}
  BY <1>n, <1>3 DEF G
<1> HIDE DEF b
<1>9. Later(a, b, F \ {x, y})
  <2>1. Good(b, F \ {x, y})
    BY <1>7, <1>8
  <2> QED BY <1>1, <1>7, <2>1 DEF WithNew, Later
<1> QED BY <1>9 DEF b, c, s

(* A node with its parts that is in no block yet. *)
Built(a, kind, cs) == Meant(AppendAll(ast_new(a, kind, 0), FreshId(a), cs), FreshId(a), cs)

Making(a, b, n, F, cs) ==
  /\ Later(a, b, (F \ Each(cs)) \cup ({n} \ {0}))
  /\ n \in 0 .. Len(b.nodes) /\ (n # 0 => n = Len(a.nodes) + 1) /\ (n = 0 => b.err)
  /\ Shape(a.nodes, a.kids) /\ ~b.err /\ Whole(cs) => Shape(b.nodes, b.kids)

LEMMA BuildFree ==
  ASSUME NEW a, NEW F, Good(a, F), NEW kind \in NodeKinds, NEW cs \in Seq(F \cup {0}), Once(cs)
  PROVE  Making(a, Built(a, kind, cs), FreshId(a), F, cs)
<1> DEFINE c == ast_new(a, kind, 0)
           s == FreshId(a)
           d == AppendAll(c, s, cs)
           b == Meant(d, s, cs)
           G == (F \ {0}) \cup ({s} \ {0})
<1>1. WithNew(a, c, s, F, 0)
  BY NewIs
<1>n. 0 \notin F
  BY ArenaParts DEF Good, Free, Ids
<1> HIDE DEF c, s, G
<1>2. /\ Good(c, G) /\ s \in 0 .. Len(c.nodes) /\ s \notin F
      /\ F \cup {0} \subseteq G \cup {0}
  BY <1>1, <1>n DEF WithNew, Later, G
<1>3. cs \in Seq(G \cup {0}) /\ cs \in Seq(NodeIds)
  <2>1. cs \in Seq(G \cup {0})
    BY <1>2, SeqMonotonic
  <2> QED BY <1>2, <2>1, NodesInArena
<1>4. /\ Kept(c, d, G \ Each(cs))
      /\ s # 0 /\ Shape(c.nodes, c.kids) /\ Whole(cs) => Shape(d.nodes, Longer(c.kids, s, cs))
  BY <1>2, <1>3, LinkAll
<1> HIDE DEF d
<1>5. Remeant(d, b, G \ Each(cs), s, cs)
  <2>1. s \in 0 .. Len(d.nodes) /\ Good(d, G \ Each(cs))
    BY <1>2, <1>4 DEF Kept
  <2> QED BY <1>3, <2>1, MeantIs
<1> HIDE DEF b
<1>6. G \ Each(cs) = (F \ Each(cs)) \cup ({s} \ {0})
  <2>1. s \notin Each(cs) \/ s = 0
    <3>1. \A i \in 1 .. Len(cs) : cs[i] \in F \cup {0}
      OBVIOUS
    <3> QED BY <1>2, <3>1 DEF Each
  <2> QED BY <1>n, <2>1 DEF G
<1>7. Later(a, b, (F \ Each(cs)) \cup ({s} \ {0}))
  <2>1. Good(b, (F \ Each(cs)) \cup ({s} \ {0}))
    BY <1>5, <1>6 DEF Remeant
  <2> QED BY <1>1, <1>4, <1>5, <2>1 DEF WithNew, Later, Kept, Remeant
<1>8. /\ s \in 0 .. Len(b.nodes) /\ (s # 0 => s = Len(a.nodes) + 1) /\ (s = 0 => b.err)
  BY <1>1, <1>4, <1>5 DEF WithNew, Kept, Remeant
<1>9. ASSUME Shape(a.nodes, a.kids), ~b.err, Whole(cs)
      PROVE  Shape(b.nodes, b.kids)
  <2>1. ~c.err /\ s # 0
    BY <1>1, <1>4, <1>5, <1>9 DEF WithNew, Kept, Remeant
  <2>2. Shape(c.nodes, c.kids)
    BY <1>1, <1>9, <2>1 DEF WithNew
  <2> QED BY <1>4, <1>5, <1>9, <2>1, <2>2 DEF Kept, Remeant
<1>10. Built(a, kind, cs) = b
  BY DEF Built, b, c, d, s
<1>11. Making(a, b, s, F, cs)
  BY <1>7, <1>8, <1>9 DEF Making
<1> QED BY <1>10, <1>11 DEF s
-----------------------------------------------------------------------------
(* The call stack.  A handler holds the nodes it has yet to link: they are *)
(* free, and no two handlers hold the same one.                            *)
FrameType(n) == [kind : FrameKinds, rbx : 0 .. n, cond : 0 .. n, block : 0 .. n, then : 0 .. n]

Held(f) ==
  ({f.cond} \cup (IF f.kind \in {"fn", "ifwait", "elifwait"} THEN {} ELSE {f.block})
    \cup (IF f.kind \in {"elifelse", "elifwait"} THEN {f.then} ELSE {})) \ {0}
HeldAll(fs) == UNION {Held(fs[i]) : i \in 1 .. Len(fs)}

Distinct(f) ==
  /\ f.kind \notin {"fn", "loop", "unsafe"} => f.cond # 0
  /\ f.block # 0 => f.block # f.cond
  /\ f.then # 0 => f.then # f.cond
  /\ f.kind = "elifelse" /\ f.then # 0 => f.then # f.block

Stack(fs, n) ==
  /\ fs \in Seq(FrameType(n)) /\ fs # << >>
  /\ \A i \in 1 .. Len(fs) : (fs[i].kind = "fn" <=> i = 1) /\ Distinct(fs[i])
  /\ \A i, j \in 1 .. Len(fs) : i # j => Held(fs[i]) \cap Held(fs[j]) = {}

(* What no handler's state was overwritten means: each returns to the block*)
(* below its own, and tmp_ast_a is the first block of the one if that      *)
(* still needs it.                                                         *)
Nested(fs, b) ==
  /\ b = fs[Len(fs)].block
  /\ \A i \in 2 .. Len(fs) : fs[i].rbx = fs[i - 1].block /\ fs[i].kind # "unsafe"

Waits(f) == f.kind \in {"else", "ifwait"}
Waiting(fs) == \E i \in 1 .. Len(fs) : Waits(fs[i])
TempOf(fs, t) ==
  \A i \in 1 .. Len(fs) : Waits(fs[i]) =>
    fs[i].then = t /\ \A j \in 1 .. Len(fs) : Waits(fs[j]) => i = j

(* Every block that was asked for is there. *)
Blocked(f) == f.block # 0 /\ (f.kind \in {"elifelse", "elifwait"} => f.then # 0)
Complete(fs) == \A i \in 1 .. Len(fs) : Blocked(fs[i])

LEMMA LastOrBefore ==
  ASSUME NEW S, NEW ps \in Seq(S), NEW f
  PROVE  /\ Len(Append(ps, f)) = Len(ps) + 1 /\ Len(ps) \in Nat
         /\ Append(ps, f)[Len(ps) + 1] = f
         /\ \A i \in 1 .. Len(ps) : Append(ps, f)[i] = ps[i]
         /\ 1 .. Len(ps) + 1 = 1 .. Len(ps) \cup {Len(ps) + 1}
         /\ Len(ps) + 1 \notin 1 .. Len(ps)
<1>1. /\ ps \in Seq(S \cup {f}) /\ f \in S \cup {f} /\ Len(ps) \in Nat
  <2>1. S \subseteq S \cup {f}
    OBVIOUS
  <2> QED BY <2>1, SeqMonotonic
<1>2. /\ Len(Append(ps, f)) = Len(ps) + 1 /\ Append(ps, f)[Len(ps) + 1] = f
      /\ \A i \in 1 .. Len(ps) : Append(ps, f)[i] = ps[i]
  BY <1>1, AppendProperties
<1> QED BY <1>1, <1>2

(* A stack with one more frame. *)
OnTop(fs, ps, f) ==
  /\ HeldAll(fs) = HeldAll(ps) \cup Held(f)
  /\ Waiting(fs) <=> Waiting(ps) \/ Waits(f)
  /\ Complete(fs) <=> Complete(ps) /\ Blocked(f)
  /\ \A t : TempOf(fs, t) <=> TempOf(ps, t) /\ (Waits(f) => f.then = t /\ ~Waiting(ps))

LEMMA FrameOnTop ==
  ASSUME NEW S, NEW ps \in Seq(S), NEW f
  PROVE  OnTop(Append(ps, f), ps, f)
<1> DEFINE fs == Append(ps, f)
           I == 1 .. Len(ps)
           l == Len(ps) + 1
<1>1. /\ 1 .. Len(fs) = I \cup {l} /\ l \notin I /\ fs[l] = f
      /\ \A i \in I : fs[i] = ps[i]
  BY LastOrBefore
<1> HIDE DEF fs, l
<1>2. HeldAll(fs) = HeldAll(ps) \cup Held(f)
  <2>1. \A x : x \in HeldAll(fs) <=> \E i \in I \cup {l} : x \in Held(fs[i])
    BY <1>1 DEF HeldAll
  <2>2. \A x : x \in HeldAll(ps) <=> \E i \in I : x \in Held(ps[i])
    BY DEF HeldAll
  <2> QED BY <1>1, <2>1, <2>2
<1>3. Waiting(fs) <=> Waiting(ps) \/ Waits(f)
  BY <1>1 DEF Waiting
<1>4. Complete(fs) <=> Complete(ps) /\ Blocked(f)
  BY <1>1 DEF Complete
<1>5. ASSUME NEW t
      PROVE  TempOf(fs, t) <=> TempOf(ps, t) /\ (Waits(f) => f.then = t /\ ~Waiting(ps))
  BY <1>1 DEF TempOf, Waiting
<1> QED BY <1>2, <1>3, <1>4, <1>5 DEF OnTop, fs

LEMMA NestedOnTop ==
  ASSUME NEW S, NEW ps \in Seq(S), ps # << >>, NEW f, NEW b
  PROVE  Nested(Append(ps, f), b) <=>
           /\ b = f.block /\ f.rbx = ps[Len(ps)].block /\ f.kind # "unsafe"
           /\ Nested(ps, f.rbx)
<1> DEFINE fs == Append(ps, f)
           l == Len(ps) + 1
<1>1. Len(ps) \in Nat /\ Len(ps) # 0
  BY EmptySeq
<1>2. /\ Len(fs) = l /\ fs[l] = f /\ \A i \in 1 .. Len(ps) : fs[i] = ps[i]
  BY LastOrBefore
<1>3. /\ 2 .. l = 2 .. Len(ps) \cup {l} /\ l - 1 = Len(ps)
      /\ \A i \in 2 .. Len(ps) : i \in 1 .. Len(ps) /\ i - 1 \in 1 .. Len(ps)
      /\ Len(ps) \in 1 .. Len(ps)
  BY <1>1
<1> HIDE DEF fs, l
<1> QED BY <1>2, <1>3 DEF Nested, fs

LEMMA StackOnTop ==
  ASSUME NEW n \in Nat, NEW S, NEW ps \in Seq(S), ps # << >>, NEW f
  PROVE  Stack(Append(ps, f), n) <=>
           /\ Stack(ps, n) /\ f \in FrameType(n) /\ f.kind # "fn" /\ Distinct(f)
           /\ HeldAll(ps) \cap Held(f) = {}
<1> DEFINE fs == Append(ps, f)
           I == 1 .. Len(ps)
           l == Len(ps) + 1
<1>1. /\ Len(fs) = l /\ 1 .. Len(fs) = I \cup {l} /\ l \notin I /\ fs[l] = f
      /\ \A i \in I : fs[i] = ps[i]
  BY LastOrBefore
<1>2. l # 1 /\ Len(ps) \in Nat /\ l - 1 = Len(ps)
  <2>1. Len(ps) \in Nat /\ Len(ps) # 0
    BY EmptySeq
  <2> QED BY <2>1
<1>3. fs \in Seq(FrameType(n)) <=> ps \in Seq(FrameType(n)) /\ f \in FrameType(n)
  <2>1. ASSUME fs \in Seq(FrameType(n)) PROVE ps \in Seq(FrameType(n)) /\ f \in FrameType(n)
    <3>1. \A i \in I \cup {l} : fs[i] \in FrameType(n)
      BY <1>1, <2>1, ElementOfSeq
    <3>2. \A i \in I : ps[i] \in FrameType(n)
      BY <1>1, <3>1
    <3>3. ps \in Seq(FrameType(n))
      BY <3>2, SeqDef, LenProperties
    <3> QED BY <1>1, <3>1, <3>3
  <2>2. ASSUME ps \in Seq(FrameType(n)), f \in FrameType(n) PROVE fs \in Seq(FrameType(n))
    BY <2>2, AppendProperties
  <2> QED BY <2>1, <2>2
<1>4. fs # << >>
  BY <1>1, <1>2, EmptySeq
<1>5. (\A i \in 1 .. Len(fs) : (fs[i].kind = "fn" <=> i = 1) /\ Distinct(fs[i]))
      <=> /\ \A i \in I : (ps[i].kind = "fn" <=> i = 1) /\ Distinct(ps[i])
          /\ f.kind # "fn" /\ Distinct(f)
  <2> HIDE DEF fs, l, I
  <2> QED BY <1>1, <1>2
<1>6. (\A i, j \in 1 .. Len(fs) : i # j => Held(fs[i]) \cap Held(fs[j]) = {})
      <=> /\ \A i, j \in I : i # j => Held(ps[i]) \cap Held(ps[j]) = {}
          /\ \A i \in I : Held(ps[i]) \cap Held(f) = {}
  <2> HIDE DEF fs, l, I
  <2>1. \A i \in I : i # l
    BY <1>1
  <2>2. \A i \in I : Held(f) \cap Held(ps[i]) = Held(ps[i]) \cap Held(f)
    OBVIOUS
  <2> QED BY <1>1, <2>1, <2>2, Zenon
<1>7. (\A i \in I : Held(ps[i]) \cap Held(f) = {}) <=> HeldAll(ps) \cap Held(f) = {}
  <2>1. \A x : x \in HeldAll(ps) <=> \E i \in I : x \in Held(ps[i])
    BY DEF HeldAll
  <2> QED BY <2>1
<1> HIDE DEF fs
<1>8. Stack(fs, n) <=>
           /\ Stack(ps, n) /\ f \in FrameType(n) /\ f.kind # "fn" /\ Distinct(f)
           /\ HeldAll(ps) \cap Held(f) = {}
  BY <1>3, <1>4, <1>5, <1>6, <1>7, Zenon DEF Stack, I
<1> QED BY <1>8 DEF fs

LEMMA StackGrows ==
  ASSUME NEW n \in Nat, NEW m \in Nat, n <= m, NEW fs, Stack(fs, n)
  PROVE  Stack(fs, m)
<1>1. 0 .. n \subseteq 0 .. m
  OBVIOUS
<1>2. FrameType(n) \subseteq FrameType(m)
  BY <1>1 DEF FrameType
<1>3. fs \in Seq(FrameType(m))
  BY <1>2, SeqMonotonic DEF Stack
<1> QED BY <1>3 DEF Stack

(* The frames below the top one. *)
Splits(S, fs, ps) ==
  /\ ps \in Seq(S) /\ ps # << >> /\ Len(ps) = Len(fs) - 1
  /\ ps[Len(ps)] = fs[Len(fs) - 1] /\ fs = Append(ps, fs[Len(fs)])

LEMMA Popping ==
  ASSUME NEW S, NEW fs \in Seq(S), Len(fs) >= 2
  PROVE  Splits(S, fs, SubSeq(fs, 1, Len(fs) - 1))
<1> DEFINE ps == SubSeq(fs, 1, Len(fs) - 1)
           l == Len(fs)
           gs == Append(ps, fs[l])
<1>1. l \in Nat /\ l >= 2
  OBVIOUS
<1>2. /\ ps \in Seq(S) /\ Len(ps) = l - 1
      /\ \A i \in 1 .. l - 1 : ps[i] = fs[i]
  BY <1>1, SubSeqProperties
<1>3. fs[l] \in S
  BY <1>1, ElementOfSeq
<1> HIDE DEF ps
<1>4. ps # << >>
  BY <1>1, <1>2, EmptySeq
<1>5. /\ gs \in Seq(S) /\ Len(gs) = Len(ps) + 1 /\ gs[Len(ps) + 1] = fs[l]
      /\ \A i \in 1 .. Len(ps) : gs[i] = ps[i]
  BY <1>2, <1>3, AppendProperties
<1> HIDE DEF gs, l
<1>6. Len(gs) = l /\ gs[l] = fs[l]
  BY <1>1, <1>2, <1>5
<1>7. ASSUME NEW i \in 1 .. l PROVE gs[i] = fs[i]
  <2>1. i = l \/ i \in 1 .. l - 1
    BY <1>1
  <2>2. CASE i \in 1 .. l - 1
    BY <1>2, <1>5, <2>2
  <2> QED BY <1>6, <2>1, <2>2
<1>8. gs = fs
  <2>1. Len(gs) = Len(fs) /\ \A i \in 1 .. Len(gs) : gs[i] = fs[i]
    BY <1>6, <1>7 DEF l
  <2> QED BY <1>5, <2>1, SeqEqual
<1>9. ps[Len(ps)] = fs[l - 1]
  BY <1>1, <1>2
<1> QED BY <1>2, <1>4, <1>8, <1>9 DEF Splits, ps, gs, l
-----------------------------------------------------------------------------
(* The state of a parse that goes on.  Needed are the nodes some handler   *)
(* has yet to link, tmp_ast_a among them while it can be trusted.          *)
Needed(a, fs, t, r, pl) ==
  HeldAll(fs) \cup ({r} \ {0}) \cup (IF pl /\ ~a.err /\ Waiting(fs) THEN {t} ELSE {})

Keep(a, fs, b, t, r, pl) ==
  /\ Good(a, Needed(a, fs, t, r, pl)) /\ Body <= Len(a.nodes)
  /\ Stack(fs, Len(a.nodes))
  /\ b \in 0 .. Len(a.nodes) /\ t \in 0 .. Len(a.nodes) /\ r \in 0 .. Len(a.nodes)
  /\ t \notin HeldAll(fs) /\ r \notin HeldAll(fs) /\ (r # 0 => r # t)
  /\ pl => Nested(fs, b) /\ TempOf(fs, t)
  /\ ~a.err => Complete(fs)
  /\ pl /\ ~a.err => Shape(a.nodes, a.kids)

(* The arena with some new nodes in it, each of them free. *)
Fresh(a, b, F, ns) ==
  /\ Later(a, b, F \cup (Each(ns) \ {0}))
  /\ ns \in Seq(0 .. Len(b.nodes)) /\ Once(ns)
  /\ \A n \in Each(ns) : n # 0 => n \notin F /\ n > Len(a.nodes)
  /\ ~b.err => 0 \notin Each(ns)
  /\ Shape(a.nodes, a.kids) /\ ~b.err => Shape(b.nodes, b.kids)

LEMMA GoodLess ==
  ASSUME NEW a, NEW F, Good(a, F), NEW G \in SUBSET F
  PROVE  Good(a, G)
BY DEF Good

LEMMA FreshNone ==
  ASSUME NEW a, NEW F, Good(a, F)
  PROVE  Fresh(a, a, F, << >>)
<1>1. Each(<< >>) = {} /\ Once(<< >>) /\ << >> \in Seq(0 .. Len(a.nodes))
  BY DEF Each, Once
<1>2. F \cup ({} \ {0}) = F
  OBVIOUS
<1>3. Len(a.nodes) <= Len(a.nodes) /\ a.err \in BOOLEAN
  BY ArenaParts DEF Good
<1> QED BY <1>1, <1>2, <1>3 DEF Fresh, Later

LEMMA EachAppend ==
  ASSUME NEW S, NEW ns \in Seq(S), NEW n
  PROVE  /\ Each(Append(ns, n)) = Each(ns) \cup {n}
         /\ Once(ns) /\ (n # 0 => n \notin Each(ns)) => Once(Append(ns, n))
<1> DEFINE ms == Append(ns, n)
           I == 1 .. Len(ns)
           l == Len(ns) + 1
<1>1. /\ 1 .. Len(ms) = I \cup {l} /\ l \notin I /\ ms[l] = n
      /\ \A i \in I : ms[i] = ns[i]
  BY LastOrBefore
<1> HIDE DEF ms, l, I
<1>2. Each(ms) = Each(ns) \cup {n}
  <2>1. \A x : x \in Each(ns) <=> \E i \in I : x = ns[i]
    BY DEF Each, I
  <2>2. \A x : x \in Each(ms) <=> \E i \in I \cup {l} : x = ms[i]
    BY <1>1 DEF Each
  <2> QED BY <1>1, <2>1, <2>2
<1>3. ASSUME Once(ns), n # 0 => n \notin Each(ns)
      PROVE  Once(ms)
  <2>1. \A i \in I : ns[i] \in Each(ns)
    BY DEF Each, I
  <2>2. \A i, j \in I : ns[i] = ns[j] /\ ns[i] # 0 => i = j
    BY <1>3 DEF Once, I
  <2>3. \A i, j \in I \cup {l} : ms[i] = ms[j] /\ ms[i] # 0 => i = j
    BY <1>1, <1>3, <2>1, <2>2
  <2> QED BY <1>1, <2>3 DEF Once
<1> QED BY <1>2, <1>3 DEF ms

LEMMA FreshOne ==
  ASSUME NEW a, NEW b, NEW F, NEW ns, Good(a, F), Fresh(a, b, F, ns), NEW kind \in NodeKinds
  PROVE  Fresh(a, ast_new(b, kind, 0), F, Append(ns, FreshId(b)))
<1> DEFINE c == ast_new(b, kind, 0)
           n == FreshId(b)
           G == F \cup (Each(ns) \ {0})
           H == F \cup (Each(Append(ns, n)) \ {0})
<1>1. /\ Good(b, G) /\ Len(a.nodes) <= Len(b.nodes) /\ (a.err => b.err)
      /\ ns \in Seq(0 .. Len(b.nodes)) /\ Once(ns)
  BY DEF Fresh, Later
<1>2. WithNew(b, c, n, G, 0)
  BY <1>1, NewIs
<1>3. /\ 0 \notin G /\ Len(a.nodes) \in Nat /\ Len(b.nodes) \in Nat
  BY <1>1, ArenaParts DEF Good, Free, Ids
<1> HIDE DEF c, n, G, H
<1>4. /\ Good(c, (G \ {0}) \cup ({n} \ {0})) /\ Len(b.nodes) <= Len(c.nodes) /\ c.err \in BOOLEAN
      /\ (b.err => c.err) /\ n \in 0 .. Len(c.nodes) /\ n \notin G
      /\ (n # 0 => n = Len(b.nodes) + 1) /\ (n = 0 => c.err)
      /\ Shape(b.nodes, b.kids) /\ ~c.err => Shape(c.nodes, c.kids)
  BY <1>2 DEF WithNew, Later
<1>5. Len(c.nodes) \in Nat
  BY <1>4, ArenaParts DEF Good
<1>6. Each(Append(ns, n)) = Each(ns) \cup {n}
  BY <1>1, EachAppend
<1>7. (G \ {0}) \cup ({n} \ {0}) = H
  BY <1>3, <1>6 DEF G, H
<1>8. Append(ns, n) \in Seq(0 .. Len(c.nodes))
  <2>1. 0 .. Len(b.nodes) \subseteq 0 .. Len(c.nodes)
    BY <1>3, <1>4, <1>5
  <2>2. ns \in Seq(0 .. Len(c.nodes))
    BY <1>1, <2>1, SeqMonotonic
  <2> QED BY <1>4, <2>2, AppendProperties
<1>9. Once(Append(ns, n))
  <2>1. n # 0 => n \notin Each(ns)
    BY <1>4 DEF G
  <2> QED BY <1>1, <2>1, EachAppend
<1>10. ASSUME NEW m \in Each(Append(ns, n)), m # 0
       PROVE  m \notin F /\ m > Len(a.nodes)
  <2>1. CASE m \in Each(ns)
    BY <1>10, <2>1 DEF Fresh
  <2>2. CASE m = n
    <3>1. n # 0 /\ n = Len(b.nodes) + 1 /\ n \notin F
      BY <1>4, <1>10, <2>2 DEF G
    <3> QED BY <1>1, <1>3, <2>2, <3>1
  <2> QED BY <1>6, <1>10, <2>1, <2>2
<1>11. ~c.err => 0 \notin Each(Append(ns, n))
  BY <1>4, <1>6 DEF Fresh
<1>12. Shape(a.nodes, a.kids) /\ ~c.err => Shape(c.nodes, c.kids)
  BY <1>4 DEF Fresh
<1>13. Later(a, c, H)
  <2>1. Len(a.nodes) <= Len(c.nodes)
    BY <1>1, <1>3, <1>4, <1>5
  <2> QED BY <1>1, <1>4, <1>7, <2>1 DEF Later
<1>14. Fresh(a, c, F, Append(ns, n))
  BY <1>8, <1>9, <1>10, <1>11, <1>12, <1>13 DEF Fresh, H
<1> QED BY <1>14 DEF c, n

LEMMA KeepFacts ==
  ASSUME NEW a, NEW fs, NEW b, NEW t, NEW r, NEW pl \in BOOLEAN, Keep(a, fs, b, t, r, pl)
  PROVE  /\ Good(a, Needed(a, fs, t, r, pl)) /\ Len(a.nodes) \in Nat /\ a.err \in BOOLEAN
         /\ 0 \notin HeldAll(fs) /\ 0 \notin Needed(a, fs, t, r, pl)
         /\ HeldAll(fs) \subseteq Needed(a, fs, t, r, pl)
         /\ fs \in Seq(FrameType(Len(a.nodes))) /\ Len(fs) \in Nat /\ Len(fs) # 0
         /\ fs[Len(fs)] \in FrameType(Len(a.nodes))
         /\ fs[Len(fs)].block \in 0 .. Len(a.nodes) /\ fs[Len(fs)].rbx \in 0 .. Len(a.nodes)
<1>1. Good(a, Needed(a, fs, t, r, pl)) /\ Len(a.nodes) \in Nat /\ a.err \in BOOLEAN
  BY ArenaParts DEF Keep, Good
<1>2. 0 \notin Needed(a, fs, t, r, pl)
  BY <1>1 DEF Good, Free, Ids
<1>3. HeldAll(fs) \subseteq Needed(a, fs, t, r, pl)
  BY DEF Needed
<1>4. fs \in Seq(FrameType(Len(a.nodes))) /\ Len(fs) \in Nat /\ Len(fs) # 0
  BY EmptySeq DEF Keep, Stack
<1>5. fs[Len(fs)] \in FrameType(Len(a.nodes))
  <2>1. Len(fs) \in 1 .. Len(fs)
    BY <1>4
  <2> QED BY <1>4, <2>1, ElementOfSeq
<1> QED BY <1>1, <1>2, <1>3, <1>4, <1>5 DEF FrameType
-----------------------------------------------------------------------------
(* What the handlers keep.  First the leaf statements.                     *)
Leaf(a, fs, t, pl, c, ns, child, cs, u, pm) ==
  /\ Fresh(a, c, Needed(a, fs, t, 0, pl), ns)
  /\ child \in Each(ns) \cup {0} /\ cs \in Seq(Each(ns)) /\ Once(cs)
  /\ child # 0 => child \notin Each(cs)
  /\ pm \in BOOLEAN
  /\ (u = t /\ pm = pl) \/ (u \in Each(ns) /\ (pm => pl /\ ~Waiting(fs)))

LEMMA LeafKeeps ==
  ASSUME NEW a, NEW fs, NEW b, NEW t, NEW pl \in BOOLEAN, Keep(a, fs, b, t, 0, pl),
         NEW c, NEW ns, NEW child, NEW cs, NEW u, NEW pm, Leaf(a, fs, t, pl, c, ns, child, cs, u, pm),
         NEW kind \in NodeKinds
  PROVE  Keep(Placed(ast_new(c, kind, child), FreshId(c), cs, b, cs, fs[Len(fs)].block),
              fs, b, u, 0, pm)
<1> DEFINE N == Len(a.nodes)
           F == Needed(a, fs, t, 0, pl)
           G == F \cup (Each(ns) \ {0})
           q == fs[Len(fs)].block
           d == Placed(ast_new(c, kind, child), FreshId(c), cs, b, cs, q)
           H == G \ ({child} \cup Each(cs))
<1>0. /\ Fresh(a, c, F, ns)
      /\ child \in Each(ns) \cup {0} /\ cs \in Seq(Each(ns)) /\ Once(cs)
      /\ child # 0 => child \notin Each(cs)
      /\ pm \in BOOLEAN
      /\ (u = t /\ pm = pl) \/ (u \in Each(ns) /\ (pm => pl /\ ~Waiting(fs)))
  BY DEF Leaf
<1>1. /\ Good(a, F) /\ N \in Nat /\ a.err \in BOOLEAN /\ 0 \notin F /\ HeldAll(fs) \subseteq F
      /\ q \in 0 .. N /\ b \in 0 .. N /\ Len(fs) \in Nat /\ Len(fs) # 0 /\ t \in 0 .. N
  BY KeepFacts DEF Keep
<1>2. /\ Good(c, G) /\ N <= Len(c.nodes) /\ c.err \in BOOLEAN /\ (a.err => c.err)
      /\ ns \in Seq(0 .. Len(c.nodes)) /\ (~c.err => 0 \notin Each(ns))
      /\ \A n \in Each(ns) : n \notin F /\ n \in 0 .. Len(c.nodes)
      /\ Shape(a.nodes, a.kids) /\ ~c.err => Shape(c.nodes, c.kids)
  <2>1. \A n \in Each(ns) : n \in 0 .. Len(c.nodes)
    BY <1>0 DEF Fresh, Each
  <2> QED BY <1>0, <1>1, <2>1 DEF Fresh, Later
<1>3. Len(c.nodes) \in Nat
  BY <1>2, ArenaParts DEF Good
<1> HIDE DEF d, q, F, G, H
<1>4. Finished(c, d, H, cs, b, q)
  <2>1. child \in G \cup {0}
    BY <1>0 DEF G
  <2>2. cs \in Seq((G \ {child}) \cup {0})
    <3>1. \A i \in 1 .. Len(cs) : cs[i] \in Each(cs) /\ cs[i] \in Each(ns)
      BY <1>0 DEF Each
    <3>2. \A i \in 1 .. Len(cs) : cs[i] \in (G \ {child}) \cup {0}
      BY <1>0, <3>1 DEF G
    <3> QED BY <1>0, <3>2, SeqDef, LenProperties
  <2>3. b \in 0 .. Len(c.nodes) /\ q \in 0 .. Len(c.nodes)
    BY <1>1, <1>2, <1>3
  <2> QED BY <1>0, <1>2, <2>1, <2>2, <2>3, FinishFree DEF d, H
<1>5. /\ Good(d, H) /\ Len(c.nodes) <= Len(d.nodes) /\ d.err \in BOOLEAN /\ (c.err => d.err)
      /\ Shape(c.nodes, c.kids) /\ ~d.err /\ Whole(cs) /\ b = q /\ b # 0 => Shape(d.nodes, d.kids)
  BY <1>4 DEF Finished, Later
<1>6. Len(d.nodes) \in Nat /\ N <= Len(d.nodes)
  <2>1. Len(d.nodes) \in Nat
    BY <1>5, ArenaParts DEF Good
  <2> QED BY <1>1, <1>2, <1>3, <1>5, <2>1
<1>7. Needed(d, fs, u, 0, pm) \subseteq F
  BY <1>0, <1>2, <1>5 DEF Needed, F
<1>8. Good(d, Needed(d, fs, u, 0, pm))
  <2>1. \A i \in Each(cs) : i \in Each(ns)
    BY <1>0 DEF Each
  <2>2. F \subseteq H
    BY <1>0, <1>1, <1>2, <2>1 DEF G, H
  <2>3. Needed(d, fs, u, 0, pm) \in SUBSET H
    BY <1>7, <2>2
  <2> QED BY <1>5, <2>3, GoodLess
<1>9. Stack(fs, Len(d.nodes)) /\ Body <= Len(d.nodes)
  <2>1. Body \in Nat
    BY DEF Body
  <2>2. Stack(fs, N) /\ Body <= N
    BY DEF Keep
  <2> QED BY <1>1, <1>6, <2>1, <2>2, StackGrows
<1>10. b \in 0 .. Len(d.nodes) /\ u \in 0 .. Len(d.nodes) /\ 0 \in 0 .. Len(d.nodes)
  <2>1. u \in 0 .. Len(c.nodes) /\ b \in 0 .. Len(c.nodes)
    <3>1. CASE u = t
      BY <1>1, <1>2, <1>3, <3>1
    <3>2. CASE u \in Each(ns)
      BY <1>1, <1>2, <1>3, <3>2
    <3> QED BY <1>0, <3>1, <3>2
  <2> QED BY <1>3, <1>5, <1>6, <2>1
<1>11. u \notin HeldAll(fs) /\ 0 \notin HeldAll(fs)
  <2>1. t \notin HeldAll(fs)
    BY DEF Keep
  <2> QED BY <1>0, <1>1, <1>2, <2>1
<1>12. ASSUME pm PROVE Nested(fs, b) /\ TempOf(fs, u)
  <2>1. pl
    BY <1>0, <1>12
  <2>2. Nested(fs, b) /\ TempOf(fs, t)
    BY <2>1 DEF Keep
  <2>3. u = t \/ ~Waiting(fs)
    BY <1>0, <1>12
  <2> QED BY <2>2, <2>3 DEF TempOf, Waiting
<1>13. ~d.err => Complete(fs)
  BY <1>2, <1>5 DEF Keep
<1>14. ASSUME pm, ~d.err PROVE Shape(d.nodes, d.kids)
  <2>1. pl /\ ~a.err /\ ~c.err
    BY <1>0, <1>2, <1>5, <1>14
  <2>2. Shape(a.nodes, a.kids) /\ Nested(fs, b) /\ Complete(fs)
    BY <2>1 DEF Keep
  <2>3. b = q /\ q # 0
    <3>1. Len(fs) \in 1 .. Len(fs)
      BY <1>1
    <3> QED BY <2>2, <3>1 DEF Nested, Complete, Blocked, q
  <2>4. Whole(cs)
    <3>1. \A i \in 1 .. Len(cs) : cs[i] \in Each(ns)
      BY <1>0
    <3> QED BY <1>2, <2>1, <3>1 DEF Whole
  <2> QED BY <1>2, <1>5, <1>14, <2>1, <2>2, <2>3, <2>4
<1>15. Keep(d, fs, b, u, 0, pm)
  BY <1>8, <1>9, <1>10, <1>11, <1>12, <1>13, <1>14 DEF Keep
<1> QED BY <1>15 DEF d, q
-----------------------------------------------------------------------------
(* The state of a parse, with the top frame apart.                         *)
Upper(a, ps, f, b, t, pl) ==
  /\ Stack(ps, Len(a.nodes)) /\ f \in FrameType(Len(a.nodes)) /\ f.kind # "fn" /\ Distinct(f)
  /\ HeldAll(ps) \cap Held(f) = {}
  /\ pl => /\ b = f.block /\ f.rbx = ps[Len(ps)].block /\ f.kind # "unsafe" /\ Nested(ps, f.rbx)
           /\ TempOf(ps, t) /\ (Waits(f) => f.then = t /\ ~Waiting(ps))
  /\ ~a.err => Complete(ps) /\ Blocked(f)

LEMMA UpperIs ==
  ASSUME NEW a, NEW S, NEW ps \in Seq(S), ps # << >>, NEW f, NEW b, NEW t, NEW pl, Len(a.nodes) \in Nat
  PROVE  /\ Stack(Append(ps, f), Len(a.nodes))
         /\ pl => Nested(Append(ps, f), b) /\ TempOf(Append(ps, f), t)
         /\ ~a.err => Complete(Append(ps, f))
         <=> Upper(a, ps, f, b, t, pl)
<1>1. Stack(Append(ps, f), Len(a.nodes)) <=>
           /\ Stack(ps, Len(a.nodes)) /\ f \in FrameType(Len(a.nodes)) /\ f.kind # "fn" /\ Distinct(f)
           /\ HeldAll(ps) \cap Held(f) = {}
  BY StackOnTop
<1>2. Nested(Append(ps, f), b) <=>
           /\ b = f.block /\ f.rbx = ps[Len(ps)].block /\ f.kind # "unsafe"
           /\ Nested(ps, f.rbx)
  BY NestedOnTop
<1>3. /\ TempOf(Append(ps, f), t) <=> TempOf(ps, t) /\ (Waits(f) => f.then = t /\ ~Waiting(ps))
      /\ Complete(Append(ps, f)) <=> Complete(ps) /\ Blocked(f)
  BY FrameOnTop DEF OnTop
<1> QED BY <1>1, <1>2, <1>3, Zenon DEF Upper

(* The frames of a parse, below and at the top. *)
Parted(a, fs, b, t, r, pl, ps, f) ==
  /\ Splits(FrameType(Len(a.nodes)), fs, ps) /\ f = fs[Len(fs)] /\ Len(fs) >= 2
  /\ Upper(a, ps, f, b, t, pl)
  /\ HeldAll(fs) = HeldAll(ps) \cup Held(f)
  /\ Waiting(fs) <=> Waiting(ps) \/ Waits(f)
  /\ ps[Len(ps)].block \in 0 .. Len(a.nodes)

LEMMA KeepParted ==
  ASSUME NEW a, NEW fs, NEW b, NEW t, NEW r, NEW pl \in BOOLEAN, Keep(a, fs, b, t, r, pl),
         fs[Len(fs)].kind # "fn"
  PROVE  Parted(a, fs, b, t, r, pl, SubSeq(fs, 1, Len(fs) - 1), fs[Len(fs)])
<1> DEFINE ps == SubSeq(fs, 1, Len(fs) - 1)
           f == fs[Len(fs)]
           S == FrameType(Len(a.nodes))
<1>1. fs \in Seq(S) /\ Len(fs) \in Nat /\ Len(fs) # 0 /\ Len(a.nodes) \in Nat
  BY KeepFacts
<1>2. Len(fs) >= 2
  <2>1. Len(fs) \in 1 .. Len(fs)
    BY <1>1
  <2>2. Len(fs) # 1
    BY <2>1 DEF Keep, Stack
  <2>3. \A n \in Nat : n # 0 /\ n # 1 => n >= 2
    OBVIOUS
  <2> QED BY <1>1, <2>2, <2>3, Zenon
<1>3. Splits(S, fs, ps)
  BY <1>1, <1>2, Popping
<1> HIDE DEF ps, f, S
<1>4. ps \in Seq(S) /\ ps # << >> /\ fs = Append(ps, f)
  BY <1>3 DEF Splits, f
<1>5. Upper(a, ps, f, b, t, pl)
  <2>1. /\ Stack(Append(ps, f), Len(a.nodes))
        /\ pl => Nested(Append(ps, f), b) /\ TempOf(Append(ps, f), t)
        /\ ~a.err => Complete(Append(ps, f))
    BY <1>4 DEF Keep
  <2> QED BY <1>1, <1>4, <2>1, UpperIs
<1>6. /\ HeldAll(fs) = HeldAll(ps) \cup Held(f)
      /\ Waiting(fs) <=> Waiting(ps) \/ Waits(f)
  <2>1. OnTop(fs, ps, f)
    BY <1>4, FrameOnTop
  <2> QED BY <2>1 DEF OnTop
<1>7. ps[Len(ps)].block \in 0 .. Len(a.nodes)
  <2>1. Len(ps) \in 1 .. Len(ps)
    BY <1>4, EmptySeq
  <2>2. ps[Len(ps)] \in S
    BY <1>4, <2>1, ElementOfSeq
  <2> QED BY <2>2 DEF S, FrameType
<1> QED BY <1>2, <1>3, <1>5, <1>6, <1>7 DEF Parted, ps, f, S

LEMMA Onto ==
  ASSUME NEW a, NEW S, NEW ps \in Seq(S), ps # << >>, NEW f, NEW b, NEW t, NEW pl, Len(a.nodes) \in Nat,
         Upper(a, ps, f, b, t, pl),
         NEW G, Good(a, G), HeldAll(ps) \subseteq G, Held(f) \subseteq G,
         pl /\ ~a.err /\ (Waiting(ps) \/ Waits(f)) => t \in G,
         Body <= Len(a.nodes), b \in 0 .. Len(a.nodes), t \in 0 .. Len(a.nodes),
         t \notin HeldAll(ps), t \notin Held(f), pl /\ ~a.err => Shape(a.nodes, a.kids)
  PROVE  Keep(a, Append(ps, f), b, t, 0, pl)
<1> DEFINE fs == Append(ps, f)
<1>1. /\ HeldAll(fs) = HeldAll(ps) \cup Held(f)
      /\ Waiting(fs) <=> Waiting(ps) \/ Waits(f)
  BY FrameOnTop DEF OnTop
<1>2. /\ Stack(fs, Len(a.nodes))
      /\ pl => Nested(fs, b) /\ TempOf(fs, t)
      /\ ~a.err => Complete(fs)
  BY UpperIs
<1> HIDE DEF fs
<1>3. 0 \notin G
  BY DEF Good, Free, Ids
<1>4. Needed(a, fs, t, 0, pl) \in SUBSET G
  BY <1>1 DEF Needed
<1>5. Good(a, Needed(a, fs, t, 0, pl))
  BY <1>4, GoodLess
<1>6. t \notin HeldAll(fs) /\ 0 \notin HeldAll(fs) /\ 0 \in 0 .. Len(a.nodes)
  BY <1>1, <1>3
<1>7. Keep(a, fs, b, t, 0, pl)
  BY <1>2, <1>5, <1>6 DEF Keep
<1> QED BY <1>7 DEF fs

(* A statement that opens a block.                                         *)
LEMMA OpenKeeps ==
  ASSUME NEW a, NEW fs, NEW b, NEW t, NEW pl \in BOOLEAN, Keep(a, fs, b, t, 0, pl),
         NEW c, NEW ns, Fresh(a, c, Needed(a, fs, t, 0, pl), ns),
         NEW cond \in Each(ns) \cup {0}, NEW n \in Each(ns), n # 0 => n # cond,
         NEW kind \in {"if", "while", "loop", "unsafe", "elif"},
         kind \notin {"loop", "unsafe"} => cond # 0,
         NEW pm \in BOOLEAN, pm => pl /\ kind # "unsafe"
  PROVE  Keep(c, Append(fs, Frame(kind, b, cond, n, 0)), n, t, 0, pm)
<1> DEFINE N == Len(a.nodes)
           F == Needed(a, fs, t, 0, pl)
           G == F \cup (Each(ns) \ {0})
           f == Frame(kind, b, cond, n, 0)
<1>1. /\ Good(a, F) /\ N \in Nat /\ a.err \in BOOLEAN /\ 0 \notin F /\ HeldAll(fs) \subseteq F
      /\ b \in 0 .. N /\ t \in 0 .. N /\ fs \in Seq(FrameType(N)) /\ fs # << >>
      /\ Stack(fs, N) /\ Body <= N /\ t \notin HeldAll(fs)
  BY KeepFacts DEF Keep, Stack
<1>2. /\ Good(c, G) /\ N <= Len(c.nodes) /\ c.err \in BOOLEAN /\ (a.err => c.err)
      /\ (~c.err => 0 \notin Each(ns))
      /\ \A m \in Each(ns) : m # 0 => m \notin F /\ m > N
      /\ \A m \in Each(ns) : m \in 0 .. Len(c.nodes)
      /\ Shape(a.nodes, a.kids) /\ ~c.err => Shape(c.nodes, c.kids)
  <2>1. \A m \in Each(ns) : m \in 0 .. Len(c.nodes)
    BY DEF Fresh, Each
  <2> QED BY <2>1 DEF Fresh, Later
<1>3. Len(c.nodes) \in Nat
  BY <1>2, ArenaParts DEF Good
<1>4. /\ f.kind = kind /\ f.rbx = b /\ f.cond = cond /\ f.block = n /\ f.then = 0
      /\ f = [kind |-> kind, rbx |-> b, cond |-> cond, block |-> n, then |-> 0]
  BY DEF Frame
<1> HIDE DEF F, G, f, N
<1>5. 0 .. N \subseteq 0 .. Len(c.nodes) /\ 0 \in 0 .. Len(c.nodes)
  BY <1>1, <1>2, <1>3
<1>6. Held(f) \subseteq {cond, n} \ {0}
  BY <1>4 DEF Held
<1>7. \A m \in Held(f) : m \in Each(ns) /\ m # 0
  BY <1>6
<1>8. f \in FrameType(Len(c.nodes))
  <2>1. b \in 0 .. Len(c.nodes) /\ cond \in 0 .. Len(c.nodes) /\ n \in 0 .. Len(c.nodes)
    BY <1>1, <1>2, <1>5
  <2>2. kind \in FrameKinds
    BY DEF FrameKinds
  <2> QED BY <1>4, <1>5, <2>1, <2>2 DEF FrameType
<1>9. Distinct(f) /\ f.kind # "fn" /\ ~Waits(f)
  BY <1>4 DEF Distinct, Waits
<1>10. HeldAll(fs) \cap Held(f) = {}
  BY <1>1, <1>2, <1>7
<1>11. Stack(fs, Len(c.nodes))
  BY <1>1, <1>2, <1>3, StackGrows
<1>12. ASSUME pm
       PROVE  /\ n = f.block /\ f.rbx = fs[Len(fs)].block /\ f.kind # "unsafe" /\ Nested(fs, f.rbx)
              /\ TempOf(fs, t)
  <2>1. Nested(fs, b) /\ TempOf(fs, t) /\ kind # "unsafe"
    BY <1>12 DEF Keep
  <2> QED BY <1>4, <2>1 DEF Nested
<1>13. ASSUME ~c.err PROVE Complete(fs) /\ Blocked(f)
  <2>1. Complete(fs) /\ n # 0
    BY <1>2, <1>13 DEF Keep
  <2> QED BY <1>4, <2>1 DEF Blocked
<1>14. Upper(c, fs, f, n, t, pm)
  BY <1>8, <1>9, <1>10, <1>11, <1>12, <1>13 DEF Upper
<1>15. HeldAll(fs) \subseteq G /\ Held(f) \subseteq G
  BY <1>1, <1>7 DEF G
<1>16. pm /\ ~c.err /\ (Waiting(fs) \/ Waits(f)) => t \in G
  BY <1>2, <1>9 DEF G, F, Needed
<1>17. n \in 0 .. Len(c.nodes) /\ t \in 0 .. Len(c.nodes) /\ Body <= Len(c.nodes)
  <2>1. Body \in Nat
    BY DEF Body
  <2> QED BY <1>1, <1>2, <1>3, <1>5, <2>1
<1>18. t \notin Held(f)
  <2>1. \A m \in Held(f) : m > N
    BY <1>2, <1>7
  <2> QED BY <1>1, <2>1
<1>19. pm /\ ~c.err => Shape(c.nodes, c.kids)
  BY <1>2 DEF Keep
<1>20. Keep(c, Append(fs, f), n, t, 0, pm)
  BY <1>1, <1>2, <1>3, <1>14, <1>15, <1>16, <1>17, <1>18, <1>19, Onto
<1> QED BY <1>20 DEF f

(* The first block of an if is parsed: parse_if_stmt puts it in tmp_ast_a, *)
(* parse_elif_tail keeps it.                                               *)
Awaiting(f) ==
  Frame(IF f.kind = "if" THEN "ifwait" ELSE "elifwait", f.rbx, f.cond, f.block, f.block)

LEMMA WaitKeeps ==
  ASSUME NEW a, NEW fs, NEW b, NEW t, NEW pl \in BOOLEAN, Keep(a, fs, b, t, 0, pl),
         NEW f, f = fs[Len(fs)], f.kind \in {"if", "elif"},
         NEW u, NEW pm \in BOOLEAN,
         IF f.kind = "if" THEN u = f.block /\ pm = (pl /\ ~Waiting(fs)) ELSE u = t /\ pm = pl
  PROVE  Keep(a, Append(SubSeq(fs, 1, Len(fs) - 1), Awaiting(f)), b, u, 0, pm)
<1> DEFINE N == Len(a.nodes)
           F == Needed(a, fs, t, 0, pl)
           ps == SubSeq(fs, 1, Len(fs) - 1)
           g == Awaiting(f)
<1>1. /\ Good(a, F) /\ N \in Nat /\ a.err \in BOOLEAN /\ 0 \notin F /\ HeldAll(fs) \subseteq F
      /\ b \in 0 .. N /\ t \in 0 .. N /\ Body <= N /\ t \notin HeldAll(fs)
  BY KeepFacts DEF Keep
<1>2. Parted(a, fs, b, t, 0, pl, ps, f)
  BY KeepParted
<1> HIDE DEF ps, F, N, g
<1>3. /\ ps \in Seq(FrameType(N)) /\ ps # << >> /\ Upper(a, ps, f, b, t, pl)
      /\ HeldAll(fs) = HeldAll(ps) \cup Held(f)
      /\ Waiting(fs) <=> Waiting(ps) \/ Waits(f)
  BY <1>2 DEF Parted, Splits, N
<1>4. /\ Stack(ps, N) /\ f \in FrameType(N) /\ Distinct(f)
      /\ HeldAll(ps) \cap Held(f) = {}
  BY <1>3 DEF Upper, N
<1>5. /\ f.rbx \in 0 .. N /\ f.cond \in 0 .. N /\ f.block \in 0 .. N /\ f.kind \in FrameKinds
  BY <1>4 DEF FrameType
<1>6. g = [kind |-> IF f.kind = "if" THEN "ifwait" ELSE "elifwait", rbx |-> f.rbx,
           cond |-> f.cond, block |-> f.block, then |-> f.block]
  BY DEF g, Awaiting, Frame
<1>7. /\ g.kind = (IF f.kind = "if" THEN "ifwait" ELSE "elifwait") /\ g.rbx = f.rbx
      /\ g.cond = f.cond /\ g.block = f.block /\ g.then = f.block
  BY <1>6
<1>8. /\ Held(f) = {f.cond, f.block} \ {0} /\ f.cond # 0
      /\ f.block # 0 => f.block # f.cond
  BY <1>4 DEF Held, Distinct
<1>9. Held(g) = IF f.kind = "if" THEN {f.cond} ELSE {f.cond, f.block} \ {0}
  BY <1>7, <1>8 DEF Held
<1>10. Held(g) \subseteq Held(f) /\ g.kind # "fn" /\ Distinct(g) /\ (Waits(g) <=> f.kind = "if")
  BY <1>7, <1>8, <1>9 DEF Distinct, Waits
<1>11. g \in FrameType(N)
  <2>1. g.kind \in FrameKinds
    BY <1>7 DEF FrameKinds
  <2> QED BY <1>5, <1>6, <1>7, <2>1 DEF FrameType
<1>12. ~Waits(f)
  BY DEF Waits
<1>13. ASSUME pm
       PROVE  /\ b = g.block /\ g.rbx = ps[Len(ps)].block /\ g.kind # "unsafe" /\ Nested(ps, g.rbx)
              /\ TempOf(ps, u) /\ (Waits(g) => g.then = u /\ ~Waiting(ps))
  <2>1. /\ pl /\ b = f.block /\ f.rbx = ps[Len(ps)].block /\ Nested(ps, f.rbx) /\ TempOf(ps, t)
        /\ f.kind = "if" => u = f.block /\ ~Waiting(ps)
        /\ f.kind # "if" => u = t
    BY <1>3, <1>13 DEF Upper
  <2>2. TempOf(ps, u)
    BY <2>1 DEF TempOf, Waiting
  <2>3. g.kind # "unsafe"
    BY <1>7
  <2> QED BY <1>7, <1>10, <2>1, <2>2, <2>3
<1>14. ASSUME ~a.err PROVE Complete(ps) /\ Blocked(g)
  BY <1>3, <1>7, <1>14 DEF Upper, Blocked
<1>15. Upper(a, ps, g, b, u, pm)
  BY <1>4, <1>10, <1>11, <1>13, <1>14 DEF Upper, N
<1>16. HeldAll(ps) \subseteq F /\ Held(g) \subseteq F
  BY <1>1, <1>3, <1>10
<1>17. ASSUME pm, ~a.err, Waiting(ps) \/ Waits(g) PROVE u \in F
  <2>1. CASE f.kind = "if"
    <3>1. u = f.block /\ u # 0
      BY <1>3, <1>17, <2>1 DEF Upper, Blocked
    <3> QED BY <1>1, <1>3, <1>8, <3>1
  <2>2. CASE f.kind # "if"
    <3>1. u = t /\ pl /\ Waiting(fs)
      BY <1>3, <1>10, <1>17, <2>2
    <3> QED BY <1>17, <3>1 DEF F, Needed
  <2> QED BY <2>1, <2>2
<1>18. u \in 0 .. N /\ u \notin HeldAll(ps) /\ u \notin Held(g)
  <2>1. CASE f.kind = "if"
    <3>1. f.block \notin HeldAll(ps)
      BY <1>1, <1>3, <1>4, <1>8
    <3> QED BY <1>5, <1>8, <1>9, <2>1, <3>1
  <2>2. CASE f.kind # "if"
    BY <1>1, <1>3, <1>10, <2>2
  <2> QED BY <2>1, <2>2
<1>19. pm /\ ~a.err => Shape(a.nodes, a.kids)
  BY DEF Keep
<1>20. Keep(a, Append(ps, g), b, u, 0, pm)
  <2> HIDE DEF N
  <2>1. Len(a.nodes) \in Nat /\ Body <= Len(a.nodes) /\ b \in 0 .. Len(a.nodes) /\ u \in 0 .. Len(a.nodes)
    BY <1>1, <1>18 DEF N
  <2> QED BY <1>1, <1>3, <1>15, <1>16, <1>17, <1>18, <1>19, <2>1, Onto
<1> QED BY <1>20 DEF ps, g

(* The second block of an if is opened. *)
Opened(g, n) ==
  Frame(IF g.kind = "ifwait" THEN "else" ELSE "elifelse", g.rbx, g.cond, n, g.then)

LEMMA SecondKeeps ==
  ASSUME NEW a, NEW S, NEW ps \in Seq(S), ps # << >>, NEW g, NEW b, NEW t, NEW pl \in BOOLEAN,
         Keep(a, Append(ps, g), b, t, 0, pl), g.kind \in {"ifwait", "elifwait"},
         NEW c, NEW ns, Fresh(a, c, Needed(a, Append(ps, g), t, 0, pl), ns), NEW n \in Each(ns)
  PROVE  Keep(c, Append(ps, Opened(g, n)), n, t, 0, pl)
<1> DEFINE N == Len(a.nodes)
           fs == Append(ps, g)
           F == Needed(a, fs, t, 0, pl)
           G == F \cup (Each(ns) \ {0})
           h == Opened(g, n)
<1> HIDE DEF fs
<1>0. Keep(a, fs, b, t, 0, pl) /\ Fresh(a, c, F, ns)
  BY DEF fs
<1>1. /\ Good(a, F) /\ N \in Nat /\ a.err \in BOOLEAN /\ 0 \notin F /\ HeldAll(fs) \subseteq F
      /\ b \in 0 .. N /\ t \in 0 .. N /\ Body <= N /\ t \notin HeldAll(fs)
  BY <1>0, KeepFacts DEF Keep
<1> HIDE DEF F, G, h, N
<1>2. /\ Good(c, G) /\ N <= Len(c.nodes) /\ c.err \in BOOLEAN /\ (a.err => c.err)
      /\ (~c.err => 0 \notin Each(ns))
      /\ \A m \in Each(ns) : m # 0 => m \notin F /\ m > N
      /\ \A m \in Each(ns) : m \in 0 .. Len(c.nodes)
      /\ Shape(a.nodes, a.kids) /\ ~c.err => Shape(c.nodes, c.kids)
  <2>1. \A m \in Each(ns) : m \in 0 .. Len(c.nodes)
    BY <1>0 DEF Fresh, Each
  <2> QED BY <1>0, <2>1 DEF Fresh, Later, G, N
<1>3. Len(c.nodes) \in Nat
  BY <1>2, ArenaParts DEF Good
<1>4. /\ Upper(a, ps, g, b, t, pl)
      /\ HeldAll(fs) = HeldAll(ps) \cup Held(g)
      /\ Waiting(fs) <=> Waiting(ps) \/ Waits(g)
  <2>1. OnTop(fs, ps, g)
    BY FrameOnTop DEF fs
  <2>2. /\ Stack(fs, N) /\ (pl => Nested(fs, b) /\ TempOf(fs, t)) /\ (~a.err => Complete(fs))
    BY <1>0 DEF Keep, N
  <2> QED BY <1>1, <2>1, <2>2, UpperIs DEF OnTop, fs, N
<1>5. /\ Stack(ps, N) /\ g \in FrameType(N) /\ Distinct(g)
      /\ HeldAll(ps) \cap Held(g) = {}
  BY <1>4 DEF Upper, N
<1>6. g.rbx \in 0 .. N /\ g.cond \in 0 .. N /\ g.then \in 0 .. N
  BY <1>5 DEF FrameType
<1>7. h = [kind |-> IF g.kind = "ifwait" THEN "else" ELSE "elifelse", rbx |-> g.rbx,
           cond |-> g.cond, block |-> n, then |-> g.then]
  BY DEF h, Opened, Frame
<1>8. /\ h.kind = (IF g.kind = "ifwait" THEN "else" ELSE "elifelse") /\ h.rbx = g.rbx
      /\ h.cond = g.cond /\ h.block = n /\ h.then = g.then
  BY <1>7
<1>9. n # 0 => n # g.cond /\ n # g.then
  BY <1>1, <1>2, <1>6
<1>10. /\ Held(h) = Held(g) \cup ({n} \ {0})
       /\ h.kind # "fn" /\ Distinct(h) /\ (Waits(h) <=> Waits(g))
       /\ ~Waits(g) <=> g.kind = "elifwait"
  BY <1>5, <1>8, <1>9 DEF Held, Distinct, Waits
<1>11. h \in FrameType(Len(c.nodes))
  <2>1. 0 .. N \subseteq 0 .. Len(c.nodes)
    BY <1>1, <1>2, <1>3
  <2>2. h.kind \in FrameKinds
    BY <1>8 DEF FrameKinds
  <2> QED BY <1>2, <1>6, <1>7, <1>8, <2>1, <2>2 DEF FrameType
<1>12. HeldAll(ps) \cap Held(h) = {}
  <2>1. n # 0 => n \notin HeldAll(ps)
    BY <1>1, <1>2, <1>4
  <2> QED BY <1>5, <1>10, <2>1
<1>13. Stack(ps, Len(c.nodes))
  BY <1>1, <1>2, <1>3, <1>5, StackGrows
<1>14. ASSUME pl
       PROVE  /\ n = h.block /\ h.rbx = ps[Len(ps)].block /\ h.kind # "unsafe" /\ Nested(ps, h.rbx)
              /\ TempOf(ps, t) /\ (Waits(h) => h.then = t /\ ~Waiting(ps))
  <2>1. /\ g.rbx = ps[Len(ps)].block /\ Nested(ps, g.rbx) /\ TempOf(ps, t)
        /\ Waits(g) => g.then = t /\ ~Waiting(ps)
    BY <1>4, <1>14 DEF Upper
  <2>2. h.kind # "unsafe"
    BY <1>8
  <2> QED BY <1>8, <1>10, <2>1, <2>2
<1>15. ASSUME ~c.err PROVE Complete(ps) /\ Blocked(h)
  <2>1. Complete(ps) /\ Blocked(g) /\ n # 0
    BY <1>2, <1>4, <1>15 DEF Upper
  <2>2. h.kind \in {"elifelse", "elifwait"} => g.kind = "elifwait"
    BY <1>8
  <2> QED BY <1>8, <2>1, <2>2 DEF Blocked
<1>16. Upper(c, ps, h, n, t, pl)
  BY <1>10, <1>11, <1>12, <1>13, <1>14, <1>15 DEF Upper
<1>17. HeldAll(ps) \subseteq G /\ Held(h) \subseteq G
  BY <1>1, <1>4, <1>10 DEF G
<1>18. pl /\ ~c.err /\ (Waiting(ps) \/ Waits(h)) => t \in G
  BY <1>2, <1>4, <1>10 DEF G, F, Needed
<1>19. n \in 0 .. Len(c.nodes) /\ t \in 0 .. Len(c.nodes) /\ Body <= Len(c.nodes)
  <2>1. Body \in Nat
    BY DEF Body
  <2> QED BY <1>1, <1>2, <1>3, <2>1
<1>20. t \notin HeldAll(ps) /\ t \notin Held(h)
  <2>1. n # 0 => n # t
    BY <1>1, <1>2
  <2> QED BY <1>1, <1>4, <1>10, <2>1
<1>21. pl /\ ~c.err => Shape(c.nodes, c.kids)
  BY <1>0, <1>2 DEF Keep
<1>22. Keep(c, Append(ps, h), n, t, 0, pl)
  BY <1>1, <1>2, <1>3, <1>16, <1>17, <1>18, <1>19, <1>20, <1>21, Onto
<1> QED BY <1>22 DEF h

(* A handler that returns to the one below. *)
Dropping(a, fs, t, pl, f, ps, d, H, r) ==
  /\ f = fs[Len(fs)] /\ f.kind # "fn" /\ ps = SubSeq(fs, 1, Len(fs) - 1)
  /\ Later(a, d, H) /\ HeldAll(ps) \subseteq H
  /\ pl /\ ~d.err /\ Waiting(ps) => t \in H
  /\ r \in H \cup {0} /\ r \notin HeldAll(ps) /\ (r # 0 => r # t)
  /\ pl /\ ~d.err => Shape(d.nodes, d.kids)

LEMMA DropKeeps ==
  ASSUME NEW a, NEW fs, NEW b, NEW t, NEW pl \in BOOLEAN, Keep(a, fs, b, t, 0, pl),
         NEW f, NEW ps, NEW d, NEW H, NEW r, Dropping(a, fs, t, pl, f, ps, d, H, r)
  PROVE  Keep(d, ps, f.rbx, t, r, pl)
<1> DEFINE N == Len(a.nodes)
<1>0. /\ f = fs[Len(fs)] /\ f.kind # "fn" /\ ps = SubSeq(fs, 1, Len(fs) - 1)
      /\ Later(a, d, H) /\ HeldAll(ps) \subseteq H
      /\ pl /\ ~d.err /\ Waiting(ps) => t \in H
      /\ r \in H \cup {0} /\ r \notin HeldAll(ps) /\ (r # 0 => r # t)
      /\ pl /\ ~d.err => Shape(d.nodes, d.kids)
  BY DEF Dropping
<1>1. N \in Nat /\ t \in 0 .. N /\ Body <= N /\ t \notin HeldAll(fs)
  BY KeepFacts DEF Keep
<1>2. Parted(a, fs, b, t, 0, pl, ps, f)
  BY <1>0, KeepParted
<1>3. /\ Good(d, H) /\ N <= Len(d.nodes) /\ (a.err => d.err)
      /\ Len(d.nodes) \in Nat /\ 0 \notin H
  <2>1. Good(d, H) /\ N <= Len(d.nodes) /\ (a.err => d.err)
    BY <1>0 DEF Later
  <2> QED BY <2>1, ArenaParts DEF Good, Free, Ids
<1> HIDE DEF N
<1>4. /\ Upper(a, ps, f, b, t, pl) /\ HeldAll(fs) = HeldAll(ps) \cup Held(f)
  BY <1>2 DEF Parted
<1>5. /\ Stack(ps, N) /\ f \in FrameType(N)
  BY <1>4 DEF Upper, N
<1>6. Stack(ps, Len(d.nodes))
  BY <1>1, <1>3, <1>5, StackGrows
<1>7. /\ f.rbx \in 0 .. Len(d.nodes) /\ t \in 0 .. Len(d.nodes) /\ r \in 0 .. Len(d.nodes)
      /\ Body <= Len(d.nodes)
  <2>1. 0 .. N \subseteq 0 .. Len(d.nodes)
    BY <1>1, <1>3
  <2>2. f.rbx \in 0 .. N
    BY <1>5 DEF FrameType
  <2>3. r \in 0 .. Len(d.nodes)
    BY <1>0, <1>3 DEF Good, Free, Ids
  <2>4. Body \in Nat
    BY DEF Body
  <2>5. Body <= Len(d.nodes)
    BY <1>1, <1>3, <2>4
  <2> QED BY <1>1, <2>1, <2>2, <2>3, <2>5
<1>8. Needed(d, ps, t, r, pl) \in SUBSET H
  BY <1>0 DEF Needed
<1>9. Good(d, Needed(d, ps, t, r, pl))
  BY <1>3, <1>8, GoodLess
<1>10. t \notin HeldAll(ps)
  BY <1>1, <1>4
<1>11. pl => Nested(ps, f.rbx) /\ TempOf(ps, t)
  BY <1>4 DEF Upper
<1>12. ~d.err => Complete(ps)
  BY <1>3, <1>4 DEF Upper
<1> QED BY <1>0, <1>6, <1>7, <1>9, <1>10, <1>11, <1>12 DEF Keep

(* The parts of a statement are among the nodes its handler holds, and     *)
(* those it has just made.                                                 *)
PartsOf(M, ns, a, cs) ==
  /\ cs \in Seq(M \cup Each(ns) \cup {0}) /\ Once(cs)
  /\ ~a.err => Whole(cs)

LEMMA PartsAre ==
  ASSUME NEW M, NEW ns, NEW a, NEW cs, PartsOf(M, ns, a, cs), NEW F, M \subseteq F
  PROVE  /\ cs \in Seq((F \cup (Each(ns) \ {0})) \cup {0})
         /\ Each(cs) \subseteq M \cup Each(ns) \cup {0}
<1>1. M \cup Each(ns) \cup {0} \subseteq (F \cup (Each(ns) \ {0})) \cup {0}
  OBVIOUS
<1>2. cs \in Seq((F \cup (Each(ns) \ {0})) \cup {0})
  BY <1>1, SeqMonotonic DEF PartsOf
<1>3. Each(cs) \subseteq M \cup Each(ns) \cup {0}
  BY DEF PartsOf, Each
<1> QED BY <1>2, <1>3

(* An if, a while or a loop at its end. *)
Ending(a, fs, t, pl, f, ps, c, ns, cs) ==
  /\ f = fs[Len(fs)] /\ f.kind # "fn" /\ ps = SubSeq(fs, 1, Len(fs) - 1)
  /\ Fresh(a, c, Needed(a, fs, t, 0, pl), ns)
  /\ \E M \in SUBSET Needed(a, fs, t, 0, pl) : M \cap HeldAll(ps) = {} /\ PartsOf(M, ns, c, cs)
  /\ pl /\ ~c.err /\ Waiting(ps) => t \notin Each(cs)

LEMMA EndKeeps ==
  ASSUME NEW a, NEW fs, NEW b, NEW t, NEW pl \in BOOLEAN, Keep(a, fs, b, t, 0, pl),
         NEW f, NEW ps, NEW c, NEW ns, NEW cs, Ending(a, fs, t, pl, f, ps, c, ns, cs),
         NEW kind \in NodeKinds
  PROVE  Keep(Placed(ast_new(c, kind, 0), FreshId(c), cs, f.rbx, cs, fs[Len(fs) - 1].block),
              ps, f.rbx, t, 0, pl)
<1> DEFINE N == Len(a.nodes)
           F == Needed(a, fs, t, 0, pl)
           G == F \cup (Each(ns) \ {0})
           p == f.rbx
           q == ps[Len(ps)].block
           d == Placed(ast_new(c, kind, 0), FreshId(c), cs, p, cs, q)
           H == G \ ({0} \cup Each(cs))
<1>0. /\ f = fs[Len(fs)] /\ f.kind # "fn" /\ ps = SubSeq(fs, 1, Len(fs) - 1)
      /\ Fresh(a, c, F, ns)
      /\ pl /\ ~c.err /\ Waiting(ps) => t \notin Each(cs)
  BY DEF Ending
<1>m. PICK M \in SUBSET F : M \cap HeldAll(ps) = {} /\ PartsOf(M, ns, c, cs)
  BY DEF Ending
<1>1. /\ Good(a, F) /\ N \in Nat /\ a.err \in BOOLEAN /\ 0 \notin F /\ HeldAll(fs) \subseteq F
      /\ t \in 0 .. N /\ t \notin HeldAll(fs)
  BY KeepFacts DEF Keep
<1>2. Parted(a, fs, b, t, 0, pl, ps, f)
  BY <1>0, KeepParted
<1> HIDE DEF F, G, H, d, N
<1>3. /\ Good(c, G) /\ N <= Len(c.nodes) /\ c.err \in BOOLEAN /\ (a.err => c.err)
      /\ \A m \in Each(ns) : m # 0 => m \notin F /\ m > N
      /\ Shape(a.nodes, a.kids) /\ ~c.err => Shape(c.nodes, c.kids)
      /\ Len(c.nodes) \in Nat
  <2>1. Good(c, G)
    BY <1>0 DEF Fresh, Later, G
  <2> QED BY <1>0, <2>1, ArenaParts DEF Fresh, Later, N, Good
<1>4. /\ q = fs[Len(fs) - 1].block /\ q \in 0 .. N /\ p \in 0 .. N
      /\ Upper(a, ps, f, b, t, pl) /\ HeldAll(fs) = HeldAll(ps) \cup Held(f)
      /\ (Waiting(ps) => Waiting(fs)) /\ HeldAll(ps) \cap Held(f) = {}
      /\ ps \in Seq(FrameType(N)) /\ ps # << >>
  <2>1. f \in FrameType(N)
    BY <1>2 DEF Parted, Upper, N
  <2>2. p \in 0 .. N
    BY <2>1 DEF FrameType
  <2> QED BY <1>2, <2>2 DEF Parted, Splits, Upper, N
<1> HIDE DEF p, q
<1>5. cs \in Seq(G \cup {0}) /\ Each(cs) \subseteq M \cup Each(ns) \cup {0}
  <2>1. M \subseteq F
    BY <1>m
  <2> QED BY <1>m, <2>1, PartsAre DEF G
<1>6. Finished(c, d, H, cs, p, q)
  <2>1. (G \ {0}) \cup {0} = G \cup {0} /\ 0 \in G \cup {0}
    OBVIOUS
  <2>2. cs \in Seq((G \ {0}) \cup {0}) /\ Once(cs)
    BY <1>5, <1>m, <2>1 DEF PartsOf
  <2>3. p \in 0 .. Len(c.nodes) /\ q \in 0 .. Len(c.nodes)
    BY <1>1, <1>3, <1>4
  <2> QED BY <1>3, <2>1, <2>2, <2>3, FinishFree DEF d, H
<1>7. /\ Later(c, d, H) /\ (c.err => d.err)
      /\ Shape(c.nodes, c.kids) /\ ~d.err /\ Whole(cs) /\ p = q /\ p # 0 => Shape(d.nodes, d.kids)
  BY <1>6 DEF Finished, Later
<1>8. Later(a, d, H)
  <2>1. Len(d.nodes) \in Nat
    BY <1>7, ArenaParts DEF Later, Good
  <2>2. N <= Len(d.nodes)
    BY <1>1, <1>3, <1>7, <2>1 DEF Later
  <2> QED BY <1>3, <1>7, <2>2 DEF Later, N
<1>9. HeldAll(ps) \subseteq H
  BY <1>1, <1>m, <1>3, <1>4, <1>5 DEF G, H
<1>10. ASSUME pl, ~d.err, Waiting(ps) PROVE t \in H
  <2>1. ~c.err /\ ~a.err /\ Waiting(fs)
    BY <1>3, <1>4, <1>7, <1>10
  <2>2. t \in F /\ t \notin Each(cs)
    BY <1>0, <1>10, <2>1 DEF F, Needed
  <2> QED BY <1>1, <2>2 DEF G, H
<1>11. ASSUME pl, ~d.err PROVE Shape(d.nodes, d.kids)
  <2>1. ~c.err /\ ~a.err
    BY <1>3, <1>7, <1>11
  <2>2. Shape(c.nodes, c.kids) /\ Whole(cs)
    BY <1>3, <1>m, <1>11, <2>1 DEF Keep, PartsOf
  <2>3. p = q /\ Complete(ps)
    BY <1>4, <1>11, <2>1 DEF Upper, p, q
  <2>4. q # 0
    <3>1. Len(ps) \in 1 .. Len(ps)
      BY <1>4, EmptySeq
    <3> QED BY <2>3, <3>1 DEF Complete, Blocked, q
  <2> QED BY <1>7, <1>11, <2>2, <2>3, <2>4
<1>12. 0 \notin HeldAll(ps)
  BY <1>1, <1>4
<1>13. Dropping(a, fs, t, pl, f, ps, d, H, 0)
  BY <1>0, <1>8, <1>9, <1>10, <1>11, <1>12 DEF Dropping
<1>14. Keep(d, ps, f.rbx, t, 0, pl)
  BY <1>13, DropKeeps
<1> QED BY <1>4, <1>14 DEF d, p

LEMMA Three ==
  ASSUME NEW x, NEW y, NEW z
  PROVE  /\ Each(<<x, y, z>>) = {x, y, z}
         /\ x # y /\ y # z /\ x # z => Once(<<x, y, z>>)
         /\ x # 0 /\ y # 0 /\ z # 0 => Whole(<<x, y, z>>)
         /\ \A M : x \in M /\ y \in M /\ z \in M => <<x, y, z>> \in Seq(M)
<1>1. Len(<<x, y, z>>) = 3 /\ 1 .. 3 = {1, 2, 3}
  OBVIOUS
<1>2. /\ <<x, y, z>>[1] = x /\ <<x, y, z>>[2] = y /\ <<x, y, z>>[3] = z
  OBVIOUS
<1>3. \A M : x \in M /\ y \in M /\ z \in M => <<x, y, z>> \in Seq(M)
  OBVIOUS
<1> QED BY <1>1, <1>2, <1>3 DEF Each, Once, Whole

LEMMA Two ==
  ASSUME NEW x, NEW y
  PROVE  /\ Each(<<x, y>>) = {x, y}
         /\ x # y => Once(<<x, y>>)
         /\ x # 0 /\ y # 0 => Whole(<<x, y>>)
         /\ \A M : x \in M /\ y \in M => <<x, y>> \in Seq(M)
<1>1. Len(<<x, y>>) = 2 /\ 1 .. 2 = {1, 2} /\ <<x, y>>[1] = x /\ <<x, y>>[2] = y
  OBVIOUS
<1>2. \A M : x \in M /\ y \in M => <<x, y>> \in Seq(M)
  OBVIOUS
<1> QED BY <1>1, <1>2 DEF Each, Once, Whole

LEMMA One ==
  ASSUME NEW x
  PROVE  /\ Each(<<x>>) = {x} /\ Once(<<x>>)
         /\ x # 0 => Whole(<<x>>)
         /\ \A M : x \in M => <<x>> \in Seq(M)
<1>1. Len(<<x>>) = 1 /\ 1 .. 1 = {1} /\ <<x>>[1] = x
  OBVIOUS
<1>2. \A M : x \in M => <<x>> \in Seq(M)
  OBVIOUS
<1> QED BY <1>1, <1>2 DEF Each, Once, Whole

(* An if with a second part at its end: its first block is read from       *)
(* tmp_ast_a.                                                              *)
LEMMA EndTempKeeps ==
  ASSUME NEW a, NEW fs, NEW b, NEW t, NEW pl \in BOOLEAN, Keep(a, fs, b, t, 0, pl),
         NEW f, f = fs[Len(fs)], Waits(f), NEW ps, ps = SubSeq(fs, 1, Len(fs) - 1),
         NEW c, NEW ns, Fresh(a, c, Needed(a, fs, t, 0, pl), ns),
         NEW kind \in NodeKinds, NEW y \in Held(f) \cup Each(ns) \cup {0}, y # f.cond, ~c.err => y # 0
  PROVE  Keep(Placed(ast_new(c, kind, 0), FreshId(c), <<f.cond, t, y>>, f.rbx,
                     <<f.cond, f.then, y>>, fs[Len(fs) - 1].block),
              ps, f.rbx, t, 0, pl)
<1> DEFINE N == Len(a.nodes)
           F == Needed(a, fs, t, 0, pl)
           p == f.rbx
           q == fs[Len(fs) - 1].block
           x == f.cond
           ms == <<x, f.then, y>>
           d == Placed(ast_new(c, kind, 0), FreshId(c), <<x, t, y>>, p, ms, q)
<1>1. /\ Good(a, F) /\ N \in Nat /\ N <= AST_CAP /\ AST_CAP \in Nat /\ a.err \in BOOLEAN /\ 0 \notin F
      /\ HeldAll(fs) \subseteq F /\ t \in 0 .. N /\ t \notin HeldAll(fs)
  BY KeepFacts, ArenaParts DEF Keep, Good
<1>f. f.kind # "fn"
  BY DEF Waits
<1>2. Parted(a, fs, b, t, 0, pl, ps, f)
  BY <1>f, KeepParted
<1> HIDE DEF F, d, N
<1>3. /\ Good(c, F \cup (Each(ns) \ {0})) /\ N <= Len(c.nodes) /\ c.err \in BOOLEAN /\ (a.err => c.err)
      /\ \A m \in Each(ns) : m # 0 => m \notin F /\ m > N
      /\ Len(c.nodes) \in Nat /\ Len(c.nodes) <= AST_CAP
  <2>1. Good(c, F \cup (Each(ns) \ {0}))
    BY DEF Fresh, Later, F
  <2> QED BY <2>1, ArenaParts DEF Fresh, Later, F, N, Good
<1>4. /\ q \in 0 .. N /\ Upper(a, ps, f, b, t, pl) /\ HeldAll(fs) = HeldAll(ps) \cup Held(f)
      /\ Waiting(fs) /\ HeldAll(ps) \cap Held(f) = {}
      /\ f \in FrameType(N) /\ Distinct(f)
  BY <1>2 DEF Parted, Splits, Upper, N
<1>5. /\ p \in 0 .. N /\ x \in 0 .. N /\ f.then \in 0 .. N
      /\ x # 0 /\ x \in Held(f)
  BY <1>4 DEF FrameType, Distinct, Held, Waits
<1> HIDE DEF p, q, x
<1>6. CASE pl /\ ~c.err
  <2>1. ~a.err /\ f.then = t /\ ~Waiting(ps) /\ y # 0
    BY <1>3, <1>4, <1>6 DEF Upper
  <2>2. t \in F
    BY <1>4, <1>6, <2>1 DEF F, Needed
  <2> DEFINE M == Held(f) \cup {t}
             cs == <<x, t, y>>
  <2>3. M \in SUBSET F /\ M \cap HeldAll(ps) = {}
    BY <1>1, <1>4, <2>2
  <2>4. x # t /\ y # t /\ t # 0 /\ y # x
    <3>1. t \notin Each(ns)
      BY <1>1, <1>3, <2>2
    <3>2. t \notin Held(f)
      BY <1>1, <1>4
    <3> QED BY <1>1, <1>5, <2>1, <2>2, <3>1, <3>2 DEF x
  <2>5. PartsOf(M, ns, c, cs)
    <3>1. x \in M \cup Each(ns) \cup {0} /\ t \in M \cup Each(ns) \cup {0} /\ y \in M \cup Each(ns) \cup {0}
      BY <1>5
    <3> HIDE DEF M
    <3> QED BY <1>5, <2>1, <2>4, <3>1, Three DEF PartsOf
  <2> HIDE DEF M, cs
  <2>7. Keep(Placed(ast_new(c, kind, 0), FreshId(c), cs, f.rbx, cs, fs[Len(fs) - 1].block),
             ps, f.rbx, t, 0, pl)
    <3>1. M \in SUBSET Needed(a, fs, t, 0, pl) /\ M \cap HeldAll(ps) = {}
      BY <2>3 DEF F
    <3>2. Ending(a, fs, t, pl, f, ps, c, ns, cs)
      BY <1>f, <2>1, <2>5, <3>1 DEF Ending
    <3> QED BY <3>2, EndKeeps
  <2> QED BY <2>1, <2>7 DEF cs, p, q, x
<1>7. CASE ~(pl /\ ~c.err)
  <2> DEFINE G == HeldAll(fs) \cup (Each(ns) \ {0})
             H == G \ {x, y}
  <2>1. Good(c, G)
    <3>1. G \in SUBSET (F \cup (Each(ns) \ {0}))
      BY <1>1
    <3> QED BY <1>3, <3>1, GoodLess
  <2>2. x \in G /\ y \in (G \ {x}) \cup {0} /\ t \notin G
    <3>1. t \notin Each(ns) \ {0}
      BY <1>1, <1>3
    <3> QED BY <1>1, <1>4, <1>5, <3>1 DEF x
  <2>3. /\ t \in 0 .. Len(c.nodes) /\ p \in 0 .. Len(c.nodes) /\ q \in 0 .. Len(c.nodes)
    BY <1>1, <1>3, <1>4, <1>5
  <2>4. ms \in Seq(NodeIds)
    <3>1. y \in 0 .. Len(c.nodes)
      BY <1>3, <2>1, <2>2 DEF Good, Free, Ids
    <3>2. x \in NodeIds /\ f.then \in NodeIds /\ y \in NodeIds
      BY <1>1, <1>3, <1>5, <3>1 DEF NodeIds
    <3> QED BY <3>2, Three
  <2> HIDE DEF G, ms
  <2>5. Later(c, d, H)
    BY <2>1, <2>2, <2>3, <2>4, FinishTemp DEF d
  <2>6. Later(a, d, H)
    <3>1. Len(d.nodes) \in Nat
      BY <2>5, ArenaParts DEF Later, Good
    <3>2. N <= Len(d.nodes)
      BY <1>1, <1>3, <2>5, <3>1 DEF Later
    <3> QED BY <1>3, <2>5, <3>2 DEF Later, N
  <2>7. HeldAll(ps) \subseteq H
    BY <1>1, <1>3, <1>4, <1>5 DEF G
  <2>8. ~(pl /\ ~d.err)
    BY <1>7, <2>5 DEF Later
  <2>9. 0 \notin HeldAll(ps) /\ 0 \in H \cup {0}
    BY <1>1, <1>4
  <2> HIDE DEF H
  <2>10. Keep(d, ps, f.rbx, t, 0, pl)
    <3>1. Dropping(a, fs, t, pl, f, ps, d, H, 0)
      BY <1>f, <2>6, <2>7, <2>8, <2>9 DEF Dropping
    <3> QED BY <3>1, DropKeeps
  <2> QED BY <2>10 DEF d, p, q, x, ms
<1> QED BY <1>6, <1>7

-----------------------------------------------------------------------------
(* The if of a tail, handed back to the handler that waits for it.         *)
LEMMA AppendAllOne ==
  ASSUME NEW a, NEW p, NEW c
  PROVE  AppendAll(a, p, <<c>>) = ast_append_child(a, p, c)
<1> DEFINE cs == <<c>>
<1>1. Len(cs) = 1 /\ cs[1] = c
  OBVIOUS
<1> HIDE DEF cs
<1>2. PICK f : /\ f[0] = a /\ AppendAll(a, p, cs) = f[Len(cs)]
               /\ \A i \in 0 .. Len(cs) : i # 0 => f[i] = ast_append_child(f[i - 1], p, cs[i])
  <2>1. Len(cs) \in Nat
    BY <1>1
  <2> QED BY <2>1, AppendAllIs
<1>3. f[1] = ast_append_child(a, p, c)
  BY <1>1, <1>2
<1> QED BY <1>1, <1>2, <1>3 DEF cs

LEMMA HandBackKeeps ==
  ASSUME NEW a, NEW fs, NEW b, NEW t, NEW pl \in BOOLEAN, Keep(a, fs, b, t, 0, pl),
         NEW f, NEW ps, NEW c, NEW ns, NEW cs, Ending(a, fs, t, pl, f, ps, c, ns, cs),
         NEW kind \in NodeKinds, FreshId(c) # 0
  PROVE  Keep(Built(c, kind, cs), ps, f.rbx, t, FreshId(c), pl)
<1> DEFINE N == Len(a.nodes)
           F == Needed(a, fs, t, 0, pl)
           G == F \cup (Each(ns) \ {0})
           d == Built(c, kind, cs)
           n == FreshId(c)
           H == (G \ Each(cs)) \cup ({n} \ {0})
<1> HIDE DEF F, G, H, d, n
<1>0. /\ f = fs[Len(fs)] /\ f.kind # "fn" /\ ps = SubSeq(fs, 1, Len(fs) - 1)
      /\ Fresh(a, c, F, ns)
      /\ pl /\ ~c.err /\ Waiting(ps) => t \notin Each(cs)
  BY DEF Ending, F
<1>m. PICK M \in SUBSET F : M \cap HeldAll(ps) = {} /\ PartsOf(M, ns, c, cs)
  BY DEF Ending, F
<1>1. /\ Good(a, F) /\ N \in Nat /\ a.err \in BOOLEAN /\ 0 \notin F /\ HeldAll(fs) \subseteq F
      /\ t \in 0 .. N /\ t \notin HeldAll(fs)
  BY KeepFacts DEF Keep, F
<1>2. Parted(a, fs, b, t, 0, pl, ps, f)
  BY <1>0, KeepParted
<1> HIDE DEF N
<1>3. /\ Good(c, G) /\ N <= Len(c.nodes) /\ c.err \in BOOLEAN /\ (a.err => c.err)
      /\ \A m \in Each(ns) : m # 0 => m \notin F /\ m > N
      /\ Shape(a.nodes, a.kids) /\ ~c.err => Shape(c.nodes, c.kids)
      /\ Len(c.nodes) \in Nat
  <2>1. Good(c, G)
    BY <1>0 DEF Fresh, Later, G
  <2> QED BY <1>0, <2>1, ArenaParts DEF Fresh, Later, N, Good
<1>4. /\ HeldAll(fs) = HeldAll(ps) \cup Held(f)
      /\ (Waiting(ps) => Waiting(fs)) /\ HeldAll(ps) \cap Held(f) = {}
  BY <1>2 DEF Parted, Upper
<1>5. cs \in Seq(G \cup {0}) /\ Each(cs) \subseteq M \cup Each(ns) \cup {0}
  <2>1. M \subseteq F
    BY <1>m
  <2> QED BY <1>m, <2>1, PartsAre DEF G
<1>6. Making(c, d, n, G, cs)
  BY <1>3, <1>5, <1>m, BuildFree DEF PartsOf, d, n
<1>7. /\ Later(c, d, H) /\ (c.err => d.err) /\ n = Len(c.nodes) + 1 /\ n # 0
      /\ Shape(c.nodes, c.kids) /\ ~d.err /\ Whole(cs) => Shape(d.nodes, d.kids)
  BY <1>6 DEF Making, Later, H, n
<1>8. Later(a, d, H)
  <2>1. Len(d.nodes) \in Nat
    BY <1>7, ArenaParts DEF Later, Good
  <2>2. N <= Len(d.nodes)
    BY <1>1, <1>3, <1>7, <2>1 DEF Later
  <2> QED BY <1>3, <1>7, <2>2 DEF Later, N
<1>9. HeldAll(ps) \subseteq H
  BY <1>1, <1>m, <1>3, <1>4, <1>5 DEF G, H
<1>10. ASSUME pl, ~d.err, Waiting(ps) PROVE t \in H
  <2>1. ~c.err /\ ~a.err /\ Waiting(fs)
    BY <1>3, <1>4, <1>7, <1>10
  <2>2. t \in F /\ t \notin Each(cs)
    BY <1>0, <1>10, <2>1 DEF F, Needed
  <2> QED BY <1>1, <2>2 DEF G, H
<1>11. ASSUME pl, ~d.err PROVE Shape(d.nodes, d.kids)
  <2>1. ~c.err /\ ~a.err
    BY <1>3, <1>7, <1>11
  <2>2. Shape(c.nodes, c.kids) /\ Whole(cs)
    BY <1>3, <1>m, <1>11, <2>1 DEF Keep, PartsOf
  <2> QED BY <1>7, <1>11, <2>2
<1>12. n \in H \cup {0} /\ n # t /\ n \notin HeldAll(ps)
  <2>1. \A m \in F : m \in 1 .. N
    BY <1>1 DEF Good, Free, Ids, N
  <2>2. n \notin F /\ n # t
    BY <1>1, <1>3, <1>7, <2>1
  <2> QED BY <1>1, <1>4, <1>7, <2>2 DEF H
<1>13. Dropping(a, fs, t, pl, f, ps, d, H, n)
  BY <1>0, <1>7, <1>8, <1>9, <1>10, <1>11, <1>12 DEF Dropping
<1>14. Keep(d, ps, f.rbx, t, n, pl)
  BY <1>13, DropKeeps
<1> QED BY <1>14 DEF d, n

(* The if that was handed back, alone in a block of its own. *)
LEMMA WrapIs ==
  ASSUME NEW a, NEW fs, NEW b, NEW t, NEW r, NEW pl \in BOOLEAN, Keep(a, fs, b, t, r, pl), r # 0,
         NEW kind \in NodeKinds
  PROVE  /\ Keep(a, fs, b, t, 0, pl)
         /\ Fresh(a, Built(a, kind, <<r>>), Needed(a, fs, t, 0, pl), <<FreshId(a)>>)
<1> DEFINE F == Needed(a, fs, t, r, pl)
           E == Needed(a, fs, t, 0, pl)
           c == Built(a, kind, <<r>>)
           w == FreshId(a)
<1>1. /\ Good(a, F) /\ Len(a.nodes) \in Nat /\ r \notin HeldAll(fs) /\ r # t /\ 0 \notin HeldAll(fs)
      /\ 0 \in 0 .. Len(a.nodes)
  <2>1. Good(a, F) /\ Len(a.nodes) \in Nat /\ 0 \notin HeldAll(fs)
    BY KeepFacts
  <2>2. r \notin HeldAll(fs) /\ r # t
    BY DEF Keep
  <2> QED BY <2>1, <2>2
<1>2. E = F \ {r} /\ r \in F
  BY <1>1 DEF Needed
<1> HIDE DEF F, E, c, w
<1>3. Keep(a, fs, b, t, 0, pl)
  <2>1. E \in SUBSET F
    BY <1>2
  <2>2. Good(a, E)
    BY <1>1, <2>1, GoodLess
  <2> QED BY <1>1, <2>2 DEF Keep, E
<1>4. Making(a, c, w, F, <<r>>)
  <2>1. <<r>> \in Seq(F \cup {0}) /\ Once(<<r>>)
    BY <1>2, One
  <2> QED BY <1>1, <2>1, BuildFree DEF c, w
<1>5. /\ Later(a, c, (F \ {r}) \cup ({w} \ {0})) /\ w \in 0 .. Len(c.nodes)
      /\ w # 0 => w = Len(a.nodes) + 1
      /\ w = 0 => c.err
      /\ Shape(a.nodes, a.kids) /\ ~c.err => Shape(c.nodes, c.kids)
  <2>1. Each(<<r>>) = {r} /\ Whole(<<r>>)
    BY One
  <2> QED BY <1>4, <2>1 DEF Making
<1>6. Each(<<w>>) = {w} /\ Once(<<w>>) /\ <<w>> \in Seq(0 .. Len(c.nodes))
  BY <1>5, One
<1>7. w # 0 => w \notin E /\ w > Len(a.nodes)
  <2>1. \A m \in F : m \in 1 .. Len(a.nodes)
    BY <1>1 DEF Good, Free, Ids
  <2> QED BY <1>1, <1>2, <1>5, <2>1
<1>8. Fresh(a, c, E, <<w>>)
  BY <1>2, <1>5, <1>6, <1>7 DEF Fresh
<1> QED BY <1>3, <1>8 DEF E, c, w
-----------------------------------------------------------------------------
(* A handler's rbx overwritten: never in a plain parse.                    *)
SameButRbx(f, g, v) ==
  /\ g.kind = f.kind /\ g.cond = f.cond /\ g.block = f.block /\ g.then = f.then
  /\ g = [kind |-> f.kind, rbx |-> v, cond |-> f.cond, block |-> f.block, then |-> f.then]

LEMMA FrameExcept ==
  ASSUME NEW S, NEW f \in [kind : FrameKinds, rbx : S, cond : S, block : S, then : S], NEW v
  PROVE  [f EXCEPT !.rbx = v]
           = [kind |-> f.kind, rbx |-> v, cond |-> f.cond, block |-> f.block, then |-> f.then]
OBVIOUS

LEMMA RbxIs ==
  ASSUME NEW n, NEW fs \in Seq(FrameType(n)), NEW i \in 1 .. Len(fs), NEW v \in 0 .. n
  PROVE  LET gs == [fs EXCEPT ![i].rbx = v] IN
         /\ gs \in Seq(FrameType(n)) /\ Len(gs) = Len(fs)
         /\ SameButRbx(fs[i], gs[i], v)
         /\ \A j \in 1 .. Len(fs) : j # i => gs[j] = fs[j]
<1> DEFINE f == fs[i]
           g == [f EXCEPT !.rbx = v]
           gs == [fs EXCEPT ![i] = g]
<1>1. f \in FrameType(n)
  BY ElementOfSeq
<1>2. g = [kind |-> f.kind, rbx |-> v, cond |-> f.cond, block |-> f.block, then |-> f.then]
  BY <1>1, FrameExcept DEF FrameType
<1>3. g \in FrameType(n)
  BY <1>1, <1>2 DEF FrameType
<1>4. [fs EXCEPT ![i].rbx = v] = gs
  OBVIOUS
<1> HIDE DEF g, f
<1>5. /\ gs \in Seq(FrameType(n)) /\ Len(gs) = Len(fs)
      /\ \A j \in 1 .. Len(fs) : gs[j] = IF j = i THEN g ELSE fs[j]
  BY <1>3, ExceptSeq
<1> HIDE DEF gs
<1>6. SameButRbx(f, gs[i], v)
  BY <1>2, <1>5 DEF SameButRbx
<1> QED BY <1>4, <1>5, <1>6 DEF f

LEMMA RbxKeeps ==
  ASSUME NEW a, NEW fs, NEW b, NEW t, NEW pl \in BOOLEAN, Keep(a, fs, b, t, 0, pl),
         NEW i \in 1 .. Len(fs), NEW v \in 0 .. Len(a.nodes)
  PROVE  Keep(a, [fs EXCEPT ![i].rbx = v], b, t, 0, FALSE)
<1> DEFINE n == Len(a.nodes)
           gs == [fs EXCEPT ![i].rbx = v]
           I == 1 .. Len(fs)
<1>1. /\ fs \in Seq(FrameType(n)) /\ Good(a, Needed(a, fs, t, 0, pl))
      /\ HeldAll(fs) \subseteq Needed(a, fs, t, 0, pl)
  BY KeepFacts
<1>2. /\ gs \in Seq(FrameType(n)) /\ Len(gs) = Len(fs) /\ SameButRbx(fs[i], gs[i], v)
      /\ \A j \in I : j # i => gs[j] = fs[j]
  BY <1>1, RbxIs
<1> HIDE DEF gs
<1>3. \A j \in I : Held(gs[j]) = Held(fs[j])
  <2>1. Held(gs[i]) = Held(fs[i])
    BY <1>2 DEF SameButRbx, Held
  <2> QED BY <1>2, <2>1
<1>4. \A j \in I : /\ gs[j].kind = fs[j].kind
                   /\ (Distinct(fs[j]) => Distinct(gs[j]))
                   /\ (Blocked(fs[j]) => Blocked(gs[j]))
  <2>1. /\ gs[i].kind = fs[i].kind /\ (Distinct(fs[i]) => Distinct(gs[i]))
        /\ (Blocked(fs[i]) => Blocked(gs[i]))
    BY <1>2 DEF SameButRbx, Distinct, Blocked
  <2> QED BY <1>2, <2>1
<1>5. HeldAll(gs) = HeldAll(fs)
  BY <1>2, <1>3 DEF HeldAll
<1>6. Stack(gs, n)
  <2>1. /\ fs # << >> /\ \A j \in I : (fs[j].kind = "fn" <=> j = 1) /\ Distinct(fs[j])
        /\ \A j, k \in I : j # k => Held(fs[j]) \cap Held(fs[k]) = {}
    BY DEF Keep, Stack
  <2>2. gs # << >>
    <3>1. Len(fs) # 0
      BY <1>1, <2>1, EmptySeq
    <3> QED BY <1>2, <3>1, EmptySeq
  <2> HIDE DEF I
  <2>3. \A j \in I : (gs[j].kind = "fn" <=> j = 1) /\ Distinct(gs[j])
    BY <1>4, <2>1
  <2>4. \A j, k \in I : j # k => Held(gs[j]) \cap Held(gs[k]) = {}
    BY <1>3, <2>1
  <2> QED BY <1>2, <2>2, <2>3, <2>4 DEF Stack, I
<1>7. ~a.err => Complete(gs)
  <2>1. ~a.err => \A j \in I : Blocked(fs[j])
    BY DEF Keep, Complete
  <2> QED BY <1>2, <1>4, <2>1 DEF Complete
<1>8. Needed(a, gs, t, 0, FALSE) = HeldAll(gs)
  BY DEF Needed
<1>9. Good(a, Needed(a, gs, t, 0, FALSE))
  <2>1. HeldAll(gs) \in SUBSET Needed(a, fs, t, 0, pl)
    BY <1>1, <1>5
  <2> QED BY <1>1, <1>8, <2>1, GoodLess
<1>10. /\ Body <= n /\ b \in 0 .. n /\ t \in 0 .. n /\ 0 \in 0 .. n
       /\ t \notin HeldAll(gs) /\ 0 \notin HeldAll(gs)
  BY <1>5 DEF Keep
<1>11. Keep(a, gs, b, t, 0, FALSE)
  BY <1>6, <1>7, <1>9, <1>10 DEF Keep
<1> QED BY <1>11 DEF gs

(* An unsafe block at its end. *)
LEMMA UnsafeKeeps ==
  ASSUME NEW a, NEW fs, NEW b, NEW t, NEW pl \in BOOLEAN, Keep(a, fs, b, t, 0, pl),
         NEW f, f = fs[Len(fs)], f.kind = "unsafe", NEW ps, ps = SubSeq(fs, 1, Len(fs) - 1),
         NEW kind \in NodeKinds, NEW q, q = fs[Len(fs) - 1].block
  PROVE  /\ ~pl
         /\ Keep(Meant(ast_append_child(ast_new(a, kind, f.block), b, FreshId(a)), q, <<FreshId(a)>>),
                 ps, f.rbx, t, 0, pl)
<1> DEFINE N == Len(a.nodes)
           F == Needed(a, fs, t, 0, pl)
           u == FreshId(a)
           c == ast_new(a, kind, f.block)
           d == ast_append_child(c, b, u)
           e == Meant(d, q, <<u>>)
           G == (F \ {f.block}) \cup ({u} \ {0})
           H == F \ {f.block}
<1> HIDE DEF F, u, c, d, e, G, H
<1>1. /\ Good(a, F) /\ N \in Nat /\ 0 \notin F /\ HeldAll(fs) \subseteq F
      /\ t \in 0 .. N /\ t \notin HeldAll(fs) /\ b \in 0 .. N /\ N <= AST_CAP /\ AST_CAP \in Nat
  BY KeepFacts, ArenaParts DEF Keep, F, Good
<1>f. f.kind # "fn"
  OBVIOUS
<1>2. Parted(a, fs, b, t, 0, pl, ps, f)
  BY <1>f, KeepParted
<1>3. /\ Upper(a, ps, f, b, t, pl) /\ HeldAll(fs) = HeldAll(ps) \cup Held(f)
      /\ HeldAll(ps) \cap Held(f) = {} /\ q \in 0 .. N /\ f \in FrameType(N)
  BY <1>2 DEF Parted, Splits, Upper
<1> HIDE DEF N
<1>4. ~pl
  BY <1>3 DEF Upper
<1>5. f.block \in F \cup {0} /\ (f.block # 0 => f.block \notin HeldAll(ps))
  <2>1. f.block # 0 => f.block \in Held(f)
    BY DEF Held
  <2> QED BY <1>1, <1>3, <2>1
<1>6. WithNew(a, c, u, F, f.block)
  BY <1>1, <1>5, NewIs DEF c, u
<1>7. Later(a, c, G) /\ u \in 0 .. Len(c.nodes) /\ u \notin F /\ Good(c, G) /\ N <= Len(c.nodes)
  BY <1>6 DEF WithNew, Later, G, N
<1>8. Len(c.nodes) \in Nat /\ Len(c.nodes) <= AST_CAP
  BY <1>7, ArenaParts DEF Good
<1>9. Kept(c, d, G \ {u})
  <2>1. b \in 0 .. Len(c.nodes) /\ u \in G \cup {0}
    BY <1>1, <1>7, <1>8 DEF G
  <2> QED BY <1>7, <2>1, LinkFree DEF d
<1>10. Remeant(d, e, G \ {u}, q, <<u>>)
  <2>1. q \in 0 .. Len(d.nodes)
    BY <1>1, <1>3, <1>7, <1>8, <1>9 DEF Kept
  <2>2. <<u>> \in Seq(NodeIds)
    <3>1. u \in NodeIds
      BY <1>1, <1>7, <1>8 DEF NodeIds
    <3> QED BY <3>1
  <2>3. Good(d, G \ {u})
    BY <1>9 DEF Kept
  <2> QED BY <2>1, <2>2, <2>3, MeantIs DEF e
<1>11. Later(a, e, H)
  <2>1. G \ {u} = H
    BY <1>7 DEF G, H
  <2> QED BY <1>7, <1>9, <1>10, <2>1 DEF Later, Kept, Remeant
<1>12. HeldAll(ps) \subseteq H
  BY <1>1, <1>3, <1>5 DEF H
<1>13. Dropping(a, fs, t, pl, f, ps, e, H, 0)
  <2>1. 0 \notin HeldAll(ps)
    BY <1>1, <1>3
  <2> QED BY <1>f, <1>4, <1>11, <1>12, <2>1 DEF Dropping
<1>14. Keep(e, ps, f.rbx, t, 0, pl)
  BY <1>13, DropKeeps
<1> QED BY <1>4, <1>14 DEF c, d, e, u
-----------------------------------------------------------------------------
(* The invariant.  A parse that has failed keeps its arena in order, but   *)
(* may have linked nodes its frames still hold.                            *)
Settled(a, fs, b, t, r, pl) ==
  /\ Good(a, {}) /\ (pl /\ ~a.err => Shape(a.nodes, a.kids))
  /\ Stack(fs, Len(a.nodes))
  /\ b \in 0 .. Len(a.nodes) /\ t \in 0 .. Len(a.nodes) /\ r \in 0 .. Len(a.nodes)

ParserInv ==
  /\ Settled(ast, frames, ast_block_node, tmp_ast_a, returned, plain)
  /\ phase \in {"parsing", "accepted", "rejected", "failed"}
  /\ tokens \in 0 .. MaxTokens /\ plain \in BOOLEAN
  /\ phase = "accepted" => ~ast.err
  /\ phase = "parsing" => Keep(ast, frames, ast_block_node, tmp_ast_a, returned, plain)

LEMMA Kinds ==
  /\ "expr" \in NodeKinds /\ "ident" \in NodeKinds /\ "path" \in NodeKinds /\ "block" \in NodeKinds
  /\ "stmt" \in NodeKinds /\ "if" \in NodeKinds /\ "while" \in NodeKinds /\ "loop" \in NodeKinds
  /\ "unsafe" \in NodeKinds
BY DEF NodeKinds

LEMMA KeepSettled ==
  ASSUME NEW a, NEW fs, NEW b, NEW t, NEW r, NEW pl, Keep(a, fs, b, t, r, pl)
  PROVE  Settled(a, fs, b, t, r, pl)
BY DEF Keep, Settled, Good

LEMMA StopSettled ==
  ASSUME NEW a, NEW fs, NEW b, NEW t, NEW r, NEW pl, Keep(a, fs, b, t, r, pl),
         NEW c, NEW F, Later(a, c, F), pl /\ ~c.err => Shape(c.nodes, c.kids)
  PROVE  Settled(c, fs, b, t, r, pl)
<1>1. Good(c, {}) /\ Len(a.nodes) <= Len(c.nodes)
  BY DEF Later, Good
<1>2. Len(a.nodes) \in Nat /\ Len(c.nodes) \in Nat
  BY <1>1, ArenaParts DEF Keep, Good
<1>3. Stack(fs, Len(c.nodes))
  BY <1>1, <1>2, StackGrows DEF Keep
<1>4. 0 .. Len(a.nodes) \subseteq 0 .. Len(c.nodes)
  BY <1>1, <1>2
<1>5. b \in 0 .. Len(c.nodes) /\ t \in 0 .. Len(c.nodes) /\ r \in 0 .. Len(c.nodes)
  BY <1>4 DEF Keep
<1> QED BY <1>1, <1>3, <1>5 DEF Settled

LEMMA FreshSettled ==
  ASSUME NEW a, NEW fs, NEW b, NEW t, NEW r, NEW pl \in BOOLEAN, Keep(a, fs, b, t, r, pl),
         NEW c, NEW F, NEW ns, Fresh(a, c, F, ns)
  PROVE  Settled(c, fs, b, t, r, pl)
<1>1. Later(a, c, F \cup (Each(ns) \ {0})) /\ (a.err => c.err)
  BY DEF Fresh, Later
<1>2. a.err \in BOOLEAN /\ c.err \in BOOLEAN
  BY <1>1, KeepFacts DEF Later
<1>3. pl /\ ~c.err => Shape(c.nodes, c.kids)
  BY <1>1, <1>2 DEF Keep, Fresh
<1> QED BY <1>1, <1>3, StopSettled

(* How an action ends: the parse goes on, or it stops. *)
LEMMA GoesOn ==
  ASSUME phase' = "parsing", tokens' \in 0 .. MaxTokens, plain' \in BOOLEAN,
         Keep(ast', frames', ast_block_node', tmp_ast_a', returned', plain')
  PROVE  ParserInv'
<1>1. Settled(ast', frames', ast_block_node', tmp_ast_a', returned', plain')
  BY KeepSettled
<1>2. phase' # "accepted"
  OBVIOUS
<1> QED BY <1>1, <1>2 DEF ParserInv

LEMMA Stops ==
  ASSUME NEW a, Fail(a), tokens' \in 0 .. MaxTokens, plain \in BOOLEAN,
         Settled(a, frames, ast_block_node, tmp_ast_a, returned, plain)
  PROVE  ParserInv'
<1>1. /\ ast' = a /\ phase' = "failed" /\ ast_block_node' = ast_block_node /\ tmp_ast_a' = tmp_ast_a
      /\ frames' = frames /\ returned' = returned /\ plain' = plain
  BY DEF Fail
<1>2. phase' # "accepted" /\ phase' # "parsing"
  BY <1>1
<1> QED BY <1>1, <1>2 DEF ParserInv

LEMMA TokenStep ==
  ASSUME ParserInv, Token
  PROVE  /\ phase = "parsing" /\ returned = 0 /\ tokens' \in 0 .. MaxTokens /\ plain \in BOOLEAN
         /\ Keep(ast, frames, ast_block_node, tmp_ast_a, 0, plain)
         /\ Good(ast, Needed(ast, frames, tmp_ast_a, 0, plain))
<1>1. phase = "parsing" /\ returned = 0 /\ tokens < MaxTokens /\ tokens' = tokens + 1
      /\ tokens \in 0 .. MaxTokens /\ plain \in BOOLEAN
  BY DEF Token, ParserInv
<1>2. tokens' \in 0 .. MaxTokens
  <2>1. \A m \in Nat : \A n \in 0 .. m : n < m => n + 1 \in 0 .. m
    OBVIOUS
  <2>2. MaxTokens \in Nat
    BY ParserAssumption
  <2> QED BY <1>1, <2>1, <2>2
<1>3. Keep(ast, frames, ast_block_node, tmp_ast_a, 0, plain)
  BY <1>1 DEF ParserInv
<1> QED BY <1>1, <1>2, <1>3, KeepFacts

(* New nodes, one after the other. *)
LEMMA OneNew ==
  ASSUME NEW a, NEW F, Good(a, F), NEW k \in NodeKinds
  PROVE  Fresh(a, ast_new(a, k, 0), F, <<FreshId(a)>>)
<1>1. Append(<< >>, FreshId(a)) = <<FreshId(a)>>
  OBVIOUS
<1>2. Fresh(a, a, F, << >>)
  BY FreshNone
<1>3. Fresh(a, ast_new(a, k, 0), F, Append(<< >>, FreshId(a)))
  BY <1>2, FreshOne
<1> QED BY <1>1, <1>3

LEMMA InARow ==
  ASSUME NEW S, NEW s \in Seq(S), NEW x \in S, NEW r \in Seq(S), Len(r) = Len(s) + 1,
         \A i \in 1 .. Len(s) : r[i] = s[i], r[Len(s) + 1] = x
  PROVE  Append(s, x) = r
<1> DEFINE q == Append(s, x)
<1>1. /\ q \in Seq(S) /\ Len(q) = Len(s) + 1 /\ \A i \in 1 .. Len(s) : q[i] = s[i]
      /\ q[Len(s) + 1] = x
  BY AppendProperties
<1>2. Len(s) \in Nat
  OBVIOUS
<1> HIDE DEF q
<1>3. \A i \in 1 .. Len(q) : q[i] = r[i]
  <2>1. \A n \in Nat : \A i \in 1 .. n + 1 : i \in 1 .. n \/ i = n + 1
    OBVIOUS
  <2>2. \A i \in 1 .. Len(q) : i \in 1 .. Len(s) \/ i = Len(s) + 1
    BY <1>1, <1>2, <2>1
  <2> QED BY <1>1, <2>2
<1>4. q = r
  BY <1>1, <1>3, SeqEqual
<1> QED BY <1>4 DEF q

LEMMA TwoInARow ==
  ASSUME NEW x, NEW y
  PROVE  Append(<<x>>, y) = <<x, y>>
<1> DEFINE S == {x, y}
<1>1. <<x>> \in Seq(S) /\ <<x, y>> \in Seq(S) /\ y \in S
  OBVIOUS
<1>2. Len(<<x>>) = 1 /\ Len(<<x, y>>) = 2 /\ <<x>>[1] = x /\ <<x, y>>[1] = x /\ <<x, y>>[2] = y
  OBVIOUS
<1> HIDE DEF S
<1>3. /\ Len(<<x, y>>) = Len(<<x>>) + 1
      /\ \A i \in 1 .. Len(<<x>>) : <<x, y>>[i] = <<x>>[i]
      /\ <<x, y>>[Len(<<x>>) + 1] = y
  BY <1>2
<1> QED BY <1>1, <1>3, InARow

LEMMA ThreeInARow ==
  ASSUME NEW x, NEW y, NEW z
  PROVE  Append(<<x, y>>, z) = <<x, y, z>>
<1> DEFINE S == {x, y, z}
<1>1. <<x, y>> \in Seq(S) /\ <<x, y, z>> \in Seq(S) /\ z \in S
  OBVIOUS
<1>2. /\ Len(<<x, y>>) = 2 /\ Len(<<x, y, z>>) = 3
      /\ <<x, y>>[1] = x /\ <<x, y>>[2] = y
      /\ <<x, y, z>>[1] = x /\ <<x, y, z>>[2] = y /\ <<x, y, z>>[3] = z
  OBVIOUS
<1> HIDE DEF S
<1>3. /\ Len(<<x, y, z>>) = Len(<<x, y>>) + 1
      /\ \A i \in 1 .. Len(<<x, y>>) : <<x, y, z>>[i] = <<x, y>>[i]
      /\ <<x, y, z>>[Len(<<x, y>>) + 1] = z
  <2>1. 1 .. 2 = {1, 2}
    OBVIOUS
  <2> QED BY <1>2, <2>1
<1> QED BY <1>1, <1>3, InARow

LEMMA FourInARow ==
  ASSUME NEW x, NEW y, NEW z, NEW w
  PROVE  /\ Append(<<x, y, z>>, w) = <<x, y, z, w>>
         /\ Each(<<x, y, z, w>>) = {x, y, z, w}
         /\ <<x, y, z, w>> \in Seq(Each(<<x, y, z, w>>))
<1> DEFINE S == {x, y, z, w}
           s == <<x, y, z>>
           r == <<x, y, z, w>>
<1>1. s \in Seq(S) /\ r \in Seq(S) /\ w \in S
  OBVIOUS
<1>2. /\ Len(s) = 3 /\ Len(r) = 4 /\ s[1] = x /\ s[2] = y /\ s[3] = z
      /\ r[1] = x /\ r[2] = y /\ r[3] = z /\ r[4] = w
  OBVIOUS
<1>3. 1 .. 3 = {1, 2, 3} /\ 1 .. 4 = {1, 2, 3, 4}
  OBVIOUS
<1>4. Each(r) = S
  BY <1>2, <1>3 DEF Each
<1> HIDE DEF S, r, s
<1>5. /\ Len(r) = Len(s) + 1 /\ \A i \in 1 .. Len(s) : r[i] = s[i]
      /\ r[Len(s) + 1] = w
  BY <1>2, <1>3
<1>6. Append(s, w) = r
  BY <1>1, <1>5, InARow
<1> QED BY <1>1, <1>4, <1>6 DEF r, s, S

LEMMA TwoNew ==
  ASSUME NEW a, NEW F, Good(a, F), NEW k \in NodeKinds, NEW l \in NodeKinds,
         NEW b, b = ast_new(a, k, 0)
  PROVE  Fresh(a, ast_new(b, l, 0), F, <<FreshId(a), FreshId(b)>>)
<1> DEFINE ns == <<FreshId(a)>>
<1>1. Append(ns, FreshId(b)) = <<FreshId(a), FreshId(b)>>
  BY TwoInARow
<1>2. Fresh(a, b, F, ns)
  BY OneNew
<1> HIDE DEF ns
<1>3. Fresh(a, ast_new(b, l, 0), F, Append(ns, FreshId(b)))
  BY <1>2, FreshOne
<1> QED BY <1>1, <1>3

LEMMA FourthInARow ==
  ASSUME NEW x, NEW y, NEW z, NEW w
  PROVE  Append(<<x, y, z>>, w) = <<x, y, z, w>>
BY FourInARow

LEMMA FourNew ==
  ASSUME NEW a, NEW F, Good(a, F), NEW k \in NodeKinds, NEW l \in NodeKinds,
         NEW b, b = ast_new(a, k, 0), NEW c, c = ast_new(b, l, 0), NEW d, d = ast_new(c, l, 0)
  PROVE  Fresh(a, ast_new(d, l, 0), F, <<FreshId(a), FreshId(b), FreshId(c), FreshId(d)>>)
<1> DEFINE ns == <<FreshId(a), FreshId(b)>>
           ms == Append(ns, FreshId(c))
<1>1. Append(ms, FreshId(d)) = <<FreshId(a), FreshId(b), FreshId(c), FreshId(d)>>
  <2>1. ms = <<FreshId(a), FreshId(b), FreshId(c)>>
    BY ThreeInARow
  <2>2. Append(<<FreshId(a), FreshId(b), FreshId(c)>>, FreshId(d))
          = <<FreshId(a), FreshId(b), FreshId(c), FreshId(d)>>
    BY FourthInARow
  <2> QED BY <2>1, <2>2
<1>2. Fresh(a, c, F, ns)
  BY TwoNew
<1> HIDE DEF ns
<1>3. Fresh(a, d, F, ms)
  BY <1>2, FreshOne
<1> HIDE DEF ms
<1>4. Fresh(a, ast_new(d, l, 0), F, Append(ms, FreshId(d)))
  BY <1>3, FreshOne
<1> QED BY <1>1, <1>4

-----------------------------------------------------------------------------
(* The actions, one lemma each.  First the leaf statements.                *)
LEMMA LeafStep ==
  ASSUME ParserInv, Token,
         NEW c, NEW ns, NEW child, NEW cs, NEW u, NEW pm,
         Leaf(ast, frames, tmp_ast_a, plain, c, ns, child, cs, u, pm),
         NEW kind \in NodeKinds, Statement(ast_new(c, kind, child), FreshId(c), cs)
  PROVE  Keep(ast', frames, ast_block_node, u, 0, pm)
<1>1. Keep(ast, frames, ast_block_node, tmp_ast_a, 0, plain) /\ plain \in BOOLEAN
  BY TokenStep
<1>2. Keep(Placed(ast_new(c, kind, child), FreshId(c), cs, ast_block_node, cs, frames[Len(frames)].block),
           frames, ast_block_node, u, 0, pm)
  BY <1>1, LeafKeeps
<1>3. ast' = Placed(ast_new(c, kind, child), FreshId(c), cs, ast_block_node, cs, frames[Len(frames)].block)
  BY DEF Statement, Placed, Top
<1> QED BY <1>2, <1>3

LEMMA NoParts ==
  ASSUME NEW S
  PROVE  << >> \in Seq(S) /\ Once(<< >>) /\ Each(<< >>) = {}
BY DEF Once, Each

LEMMA ExprStmtKeeps ==
  ASSUME ParserInv, NEW checked \in BOOLEAN, ExprStmt(checked)
  PROVE  ParserInv'
<1> DEFINE e == FreshId(ast)
           a == ast_new(ast, "expr", 0)
           s == FreshId(a)
           b == ast_new(a, "stmt", e)
           F == Needed(ast, frames, tmp_ast_a, 0, plain)
           ns == <<e>>
<1>1. /\ Token
      /\ IF e = 0 \/ (checked /\ s = 0) THEN Fail(b)
         ELSE /\ Statement(b, s, << >>)
              /\ UNCHANGED <<ast_block_node, tmp_ast_a, frames, returned, phase, plain>>
  BY DEF ExprStmt
<1>2. /\ phase = "parsing" /\ returned = 0 /\ tokens' \in 0 .. MaxTokens /\ plain \in BOOLEAN
      /\ Keep(ast, frames, ast_block_node, tmp_ast_a, 0, plain) /\ Good(ast, F)
  BY <1>1, TokenStep
<1>3. Fresh(ast, a, F, ns)
  BY <1>2, OneNew, Kinds
<1>4. Each(ns) = {e}
  BY One
<1> HIDE DEF e, a, F, ns
<1>5. CASE e = 0 \/ (checked /\ s = 0)
  <2>1. Good(a, F \cup ({e} \ {0})) /\ Later(ast, a, F \cup ({e} \ {0})) /\ e \in (F \cup ({e} \ {0})) \cup {0}
        /\ (e = 0 => a.err)
    <3>1. Later(ast, a, F \cup ({e} \ {0})) /\ (~a.err => 0 \notin {e})
      BY <1>3, <1>4 DEF Fresh
    <3> QED BY <3>1 DEF Later
  <2>2. WithNew(a, b, s, F \cup ({e} \ {0}), e)
    BY <2>1, NewIs, Kinds
  <2> DEFINE G == ((F \cup ({e} \ {0})) \ {e}) \cup ({s} \ {0})
  <2>3. Later(a, b, G) /\ (s = 0 => b.err)
    BY <2>2 DEF WithNew
  <2> HIDE DEF b, s, G
  <2>4. Later(ast, b, G) /\ b.err
    <3>1. Len(ast.nodes) \in Nat /\ Len(a.nodes) \in Nat /\ Len(b.nodes) \in Nat
          /\ ast.err \in BOOLEAN /\ a.err \in BOOLEAN /\ b.err \in BOOLEAN
      BY <1>2, <2>1, <2>3, ArenaParts DEF Later, Good
    <3>2. \A l, m, n \in Nat : l <= m /\ m <= n => l <= n
      OBVIOUS
    <3>3. Len(ast.nodes) <= Len(b.nodes)
      BY <2>1, <2>3, <3>1, <3>2 DEF Later
    <3>4. b.err
      BY <1>5, <2>1, <2>3, <3>1 DEF Later
    <3> QED BY <2>3, <3>1, <3>3, <3>4 DEF Later
  <2>5. Settled(b, frames, ast_block_node, tmp_ast_a, 0, plain)
    BY <1>2, <2>4, StopSettled
  <2> QED BY <1>1, <1>2, <1>5, <2>5, Stops
<1>6. CASE ~(e = 0 \/ (checked /\ s = 0))
  <2>1. Leaf(ast, frames, tmp_ast_a, plain, a, ns, e, << >>, tmp_ast_a, plain)
    <3>1. /\ << >> \in Seq(Each(ns)) /\ Once(<< >>) /\ Each(<< >>) = {}
      BY NoParts
    <3> QED BY <1>2, <1>3, <1>4, <3>1 DEF Leaf, F
  <2>2. Statement(b, s, << >>)
    BY <1>1, <1>6
  <2>3. Keep(ast', frames, ast_block_node, tmp_ast_a, 0, plain)
    BY <1>1, <2>1, <2>2, LeafStep, Kinds
  <2> QED BY <1>1, <1>2, <1>6, <2>3, GoesOn
<1> QED BY <1>5, <1>6

LEMMA BreakKeeps ==
  ASSUME ParserInv, parse_break_stmt
  PROVE  ParserInv'
<1>1. /\ Token /\ Statement(ast_new(ast, "stmt", 0), FreshId(ast), << >>)
      /\ UNCHANGED <<ast_block_node, tmp_ast_a, frames, returned, phase, plain>>
  BY DEF parse_break_stmt
<1>2. /\ phase = "parsing" /\ returned = 0 /\ tokens' \in 0 .. MaxTokens /\ plain \in BOOLEAN
      /\ Good(ast, Needed(ast, frames, tmp_ast_a, 0, plain))
  BY <1>1, TokenStep
<1>3. Leaf(ast, frames, tmp_ast_a, plain, ast, << >>, 0, << >>, tmp_ast_a, plain)
  <2>1. Fresh(ast, ast, Needed(ast, frames, tmp_ast_a, 0, plain), << >>)
    BY <1>2, FreshNone
  <2>2. << >> \in Seq(Each(<< >>)) /\ Once(<< >>)
    BY NoParts
  <2> QED BY <1>2, <2>1, <2>2 DEF Leaf
<1>4. Keep(ast', frames, ast_block_node, tmp_ast_a, 0, plain)
  BY <1>1, <1>3, LeafStep, Kinds
<1> QED BY <1>1, <1>2, <1>4, GoesOn

(* Statements that leave a node of their own in tmp_ast_a. *)
LEMMA NamingKeeps ==
  ASSUME ParserInv, Token,
         NEW c, NEW ns, Fresh(ast, c, Needed(ast, frames, tmp_ast_a, 0, plain), ns),
         NEW cs \in Seq(Each(ns)), Once(cs), NEW u \in Each(ns),
         Statement(ast_new(c, "stmt", 0), FreshId(c), cs),
         NEW pm, pm = (plain /\ ~TempNeeded)
  PROVE  pm \in BOOLEAN /\ Keep(ast', frames, ast_block_node, u, 0, pm)
<1>1. pm \in BOOLEAN
  BY Zenon
<1>2. pm => plain /\ ~Waiting(frames)
  BY DEF TempNeeded, Waiting, Waits
<1>3. Leaf(ast, frames, tmp_ast_a, plain, c, ns, 0, cs, u, pm)
  BY <1>1, <1>2 DEF Leaf
<1>4. Keep(ast', frames, ast_block_node, u, 0, pm)
  BY <1>3, LeafStep, Kinds
<1> QED BY <1>1, <1>4

(* What the name, and the expression, of a statement are made into. *)
LEMMA NamesAre ==
  ASSUME NEW a, NEW F, Good(a, F), NEW init \in BOOLEAN,
         NEW i, i = FreshId(a), NEW b, b = ast_new(a, "ident", 0),
         NEW c, c = (IF init THEN ast_new(b, "expr", 0) ELSE b),
         NEW cs, cs = (IF init THEN <<i, (IF init THEN FreshId(b) ELSE 0)>> ELSE <<i>>)
  PROVE  Fresh(a, c, F, cs) /\ cs \in Seq(Each(cs)) /\ Once(cs) /\ i \in Each(cs)
<1>1. CASE init
  <2> DEFINE e == FreshId(b)
  <2>1. cs = <<i, e>> /\ c = ast_new(b, "expr", 0)
    BY <1>1
  <2>2. Fresh(a, ast_new(b, "expr", 0), F, <<FreshId(a), e>>)
    BY TwoNew, Kinds
  <2> HIDE DEF e
  <2>3. Each(cs) = {i, e} /\ (i \in {i, e} /\ e \in {i, e} => <<i, e>> \in Seq({i, e}))
    BY <2>1, Two
  <2>4. Once(cs)
    BY <2>1, <2>2 DEF Fresh
  <2> QED BY <2>1, <2>2, <2>3, <2>4
<1>2. CASE ~init
  <2>1. cs = <<i>> /\ c = b
    BY <1>2
  <2>2. Fresh(a, b, F, <<i>>)
    BY OneNew, Kinds
  <2>3. Each(cs) = {i} /\ (i \in {i} => <<i>> \in Seq({i})) /\ Once(cs)
    BY <2>1, One
  <2> QED BY <2>1, <2>2, <2>3
<1> QED BY <1>1, <1>2

LEMMA NamedKeeps ==
  ASSUME ParserInv, Token, NEW init \in BOOLEAN, NamedStmt(ast, init)
  PROVE  ParserInv'
<1> DEFINE i == FreshId(ast)
           b == ast_new(ast, "ident", 0)
           e == IF init THEN FreshId(b) ELSE 0
           c == IF init THEN ast_new(b, "expr", 0) ELSE b
           s == FreshId(c)
           cs == IF init THEN <<i, e>> ELSE <<i>>
           F == Needed(ast, frames, tmp_ast_a, 0, plain)
<1>1. IF i = 0 \/ (init /\ e = 0) THEN Fail(c)
      ELSE /\ Statement(ast_new(c, "stmt", 0), s, cs)
           /\ tmp_ast_a' = i
           /\ plain' = (plain /\ ~TempNeeded)
           /\ UNCHANGED <<ast_block_node, frames, returned, phase>>
  BY DEF NamedStmt
<1>2. /\ phase = "parsing" /\ returned = 0 /\ tokens' \in 0 .. MaxTokens /\ plain \in BOOLEAN
      /\ Keep(ast, frames, ast_block_node, tmp_ast_a, 0, plain) /\ Good(ast, F)
  BY TokenStep
<1>3. Fresh(ast, c, F, cs) /\ cs \in Seq(Each(cs)) /\ Once(cs) /\ i \in Each(cs)
  BY <1>2, NamesAre
<1> HIDE DEF i, e, c, cs, F
<1>4. CASE i = 0 \/ (init /\ e = 0)
  <2>1. Settled(c, frames, ast_block_node, tmp_ast_a, 0, plain)
    BY <1>2, <1>3, FreshSettled
  <2> QED BY <1>1, <1>2, <1>4, <2>1, Stops
<1>5. CASE ~(i = 0 \/ (init /\ e = 0))
  <2>1. Statement(ast_new(c, "stmt", 0), FreshId(c), cs)
    BY <1>1, <1>5
  <2>2. plain' = (plain /\ ~TempNeeded) /\ tmp_ast_a' = i
        /\ UNCHANGED <<ast_block_node, frames, returned, phase>>
    BY <1>1, <1>5
  <2>3. plain' \in BOOLEAN /\ Keep(ast', frames, ast_block_node, i, 0, plain')
    BY <1>3, <2>1, <2>2, NamingKeeps DEF F
  <2> QED BY <1>2, <2>2, <2>3, GoesOn
<1> QED BY <1>4, <1>5

LEMMA CallKeeps ==
  ASSUME ParserInv, parse_call_stmt
  PROVE  ParserInv'
<1> DEFINE a == ast_new(ast, "path", 0)
           b == ast_new(a, "expr", 0)
           c == ast_new(b, "expr", 0)
           d == ast_new(c, "expr", 0)
           cs == <<FreshId(ast), FreshId(a), FreshId(b), FreshId(c)>>
           F == Needed(ast, frames, tmp_ast_a, 0, plain)
<1>1. /\ Token /\ Statement(ast_new(d, "stmt", 0), FreshId(d), cs)
      /\ tmp_ast_a' = FreshId(a) /\ plain' = (plain /\ ~TempNeeded)
      /\ UNCHANGED <<ast_block_node, frames, returned, phase>>
  BY DEF parse_call_stmt
<1>2. /\ phase = "parsing" /\ returned = 0 /\ tokens' \in 0 .. MaxTokens /\ plain \in BOOLEAN
      /\ Keep(ast, frames, ast_block_node, tmp_ast_a, 0, plain) /\ Good(ast, F)
  BY <1>1, TokenStep
<1>3. Fresh(ast, d, F, cs)
  BY <1>2, FourNew, Kinds
<1>4. cs \in Seq(Each(cs)) /\ Each(cs) = {FreshId(ast), FreshId(a), FreshId(b), FreshId(c)}
  BY FourInARow
<1>5. FreshId(a) \in Each(cs)
  BY <1>4
<1>6. Once(cs)
  BY <1>3 DEF Fresh
<1> HIDE DEF a, d, cs, F
<1>7. plain' \in BOOLEAN /\ Keep(ast', frames, ast_block_node, FreshId(a), 0, plain')
  BY <1>1, <1>3, <1>4, <1>5, <1>6, NamingKeeps DEF F
<1> QED BY <1>1, <1>2, <1>7, GoesOn

LEMMA ArrayKeeps ==
  ASSUME ParserInv, NEW size \in ArraySizes, ArrayDecl(size)
  PROVE  ParserInv'
<1> DEFINE i == FreshId(ast)
           a == ast_new(ast, "ident", 0)
           n == FreshId(a)
           b == ast_new(a, "expr", 0)
           used == Top.kind \notin {"fn", "unsafe"}
           F == Needed(ast, frames, tmp_ast_a, 0, plain)
           pm == plain /\ ~TempNeeded
<1>1. /\ Token
      /\ IF i = 0 \/ n = 0 THEN Fail(b)
         ELSE /\ Statement(ast_new(b, "stmt", 0), FreshId(b), <<i>>)
              /\ tmp_ast_a' = i
              /\ plain' = (plain /\ ~TempNeeded /\ ~used)
              /\ used => NamesNode(ast', size)
              /\ frames' = IF used THEN [frames EXCEPT ![Len(frames)].rbx = size] ELSE frames
              /\ UNCHANGED <<ast_block_node, returned, phase>>
  BY DEF ArrayDecl
<1>2. /\ phase = "parsing" /\ returned = 0 /\ tokens' \in 0 .. MaxTokens /\ plain \in BOOLEAN
      /\ Keep(ast, frames, ast_block_node, tmp_ast_a, 0, plain) /\ Good(ast, F)
  BY <1>1, TokenStep
<1>3. Fresh(ast, b, F, <<i, n>>)
  BY <1>2, TwoNew, Kinds
<1>4. /\ i \in Each(<<i, n>>) /\ <<i>> \in Seq(Each(<<i, n>>)) /\ Once(<<i>>)
  <2>1. Each(<<i, n>>) = {i, n}
    BY Two
  <2>2. i \in {i, n}
    OBVIOUS
  <2> HIDE DEF i, n
  <2>3. <<i>> \in Seq({i, n}) /\ Once(<<i>>)
    BY <2>2, One
  <2> QED BY <2>1, <2>2, <2>3
<1> HIDE DEF i, n, b, F, pm
<1>5. CASE i = 0 \/ n = 0
  <2>1. Settled(b, frames, ast_block_node, tmp_ast_a, 0, plain)
    BY <1>2, <1>3, FreshSettled
  <2> QED BY <1>1, <1>2, <1>5, <2>1, Stops
<1>6. CASE ~(i = 0 \/ n = 0)
  <2>1. Statement(ast_new(b, "stmt", 0), FreshId(b), <<i>>)
    BY <1>1, <1>6
  <2>2. tmp_ast_a' = i /\ UNCHANGED <<ast_block_node, returned, phase>>
    BY <1>1, <1>6
  <2>3. pm \in BOOLEAN /\ Keep(ast', frames, ast_block_node, i, 0, pm)
    BY <1>1, <1>3, <1>4, <2>1, NamingKeeps DEF F, pm
  <2>4. CASE used
    <3>1. plain' = FALSE /\ frames' = [frames EXCEPT ![Len(frames)].rbx = size]
      BY <1>1, <1>6, <2>4
    <3>2. Len(frames) \in 1 .. Len(frames) /\ size \in 0 .. Len(ast'.nodes)
      <4>1. Len(frames) \in Nat /\ Len(frames) # 0 /\ Len(ast'.nodes) \in Nat
        BY <2>3, KeepFacts DEF Keep
      <4>2. size = 0 \/ size \in 1 .. Len(ast'.nodes)
        BY <1>1, <1>6, <2>4 DEF NamesNode, Ids
      <4> QED BY <4>1, <4>2
    <3>3. Keep(ast', [frames EXCEPT ![Len(frames)].rbx = size], ast_block_node, i, 0, FALSE)
      BY <2>3, <3>2, RbxKeeps
    <3> QED BY <1>2, <2>2, <3>1, <3>3, GoesOn
  <2>5. CASE ~used
    <3>1. plain' = pm /\ frames' = frames
      BY <1>1, <1>6, <2>5 DEF pm
    <3> QED BY <1>2, <2>2, <2>3, <3>1, GoesOn
  <2> QED BY <2>4, <2>5
<1> QED BY <1>5, <1>6

-----------------------------------------------------------------------------
(* Statements that open a block. *)
LEMMA TwoApart ==
  ASSUME NEW x, NEW y, Once(<<x, y>>)
  PROVE  /\ y # 0 => y # x
         /\ x \in Each(<<x, y>>) /\ y \in Each(<<x, y>>)
<1>1. Len(<<x, y>>) = 2 /\ 1 \in 1 .. 2 /\ 2 \in 1 .. 2 /\ 1 # 2
      /\ <<x, y>>[1] = x /\ <<x, y>>[2] = y
  OBVIOUS
<1>2. y # 0 => y # x
  BY <1>1 DEF Once
<1>3. Each(<<x, y>>) = {x, y}
  BY Two
<1> QED BY <1>2, <1>3

LEMMA ConditionKeeps ==
  ASSUME ParserInv, NEW kind \in {"if", "while"}, OpenWithCondition(kind)
  PROVE  ParserInv'
<1> DEFINE x == FreshId(ast)
           a == ast_new(ast, "expr", 0)
           n == FreshId(a)
           c == ast_new(a, "block", 0)
           ns == <<x, n>>
           F == Needed(ast, frames, tmp_ast_a, 0, plain)
<1>1. /\ Token
      /\ IF x = 0 THEN Fail(a)
         ELSE /\ ast' = c /\ ast_block_node' = n
              /\ frames' = Append(frames, Frame(kind, ast_block_node, x, n, 0))
              /\ UNCHANGED <<returned, phase, tmp_ast_a, plain>>
  BY DEF OpenWithCondition, Enter
<1>2. /\ phase = "parsing" /\ returned = 0 /\ tokens' \in 0 .. MaxTokens /\ plain \in BOOLEAN
      /\ Keep(ast, frames, ast_block_node, tmp_ast_a, 0, plain) /\ Good(ast, F)
  BY <1>1, TokenStep
<1>3. Fresh(ast, a, F, <<x>>)
  BY <1>2, OneNew, Kinds
<1>4. Fresh(ast, c, F, ns)
  BY <1>2, TwoNew, Kinds
<1>5. (n # 0 => n # x) /\ x \in Each(ns) /\ n \in Each(ns)
  BY <1>4, TwoApart DEF Fresh
<1> HIDE DEF x, a, n, c, ns, F
<1>6. CASE x = 0
  <2>1. Settled(a, frames, ast_block_node, tmp_ast_a, 0, plain)
    BY <1>2, <1>3, FreshSettled
  <2> QED BY <1>1, <1>2, <1>6, <2>1, Stops
<1>7. CASE x # 0
  <2>1. kind \in {"if", "while", "loop", "unsafe", "elif"} /\ kind # "unsafe"
    OBVIOUS
  <2>2. x \in Each(ns) \cup {0}
    BY <1>5
  <2>3. Keep(c, Append(frames, Frame(kind, ast_block_node, x, n, 0)), n, tmp_ast_a, 0, plain)
    BY <1>2, <1>4, <1>5, <1>7, <2>1, <2>2, OpenKeeps DEF F
  <2> QED BY <1>1, <1>2, <1>7, <2>3, GoesOn
<1> QED BY <1>6, <1>7

LEMMA LoopKeeps ==
  ASSUME ParserInv, OpenLoop
  PROVE  ParserInv'
<1> DEFINE n == FreshId(ast)
           c == ast_new(ast, "block", 0)
           ns == <<n>>
           F == Needed(ast, frames, tmp_ast_a, 0, plain)
<1>1. /\ Token /\ ast' = c /\ ast_block_node' = n
      /\ frames' = Append(frames, Frame("loop", ast_block_node, 0, n, 0))
      /\ UNCHANGED <<returned, phase, tmp_ast_a, plain>>
  BY DEF OpenLoop, Enter
<1>2. /\ phase = "parsing" /\ returned = 0 /\ tokens' \in 0 .. MaxTokens /\ plain \in BOOLEAN
      /\ Keep(ast, frames, ast_block_node, tmp_ast_a, 0, plain) /\ Good(ast, F)
  BY <1>1, TokenStep
<1>3. Fresh(ast, c, F, ns)
  BY <1>2, OneNew, Kinds
<1>4. n \in Each(ns) /\ 0 \in Each(ns) \cup {0}
  BY One
<1> HIDE DEF n, c, ns, F
<1>5. Keep(c, Append(frames, Frame("loop", ast_block_node, 0, n, 0)), n, tmp_ast_a, 0, plain)
  BY <1>2, <1>3, <1>4, OpenKeeps DEF F
<1> QED BY <1>1, <1>2, <1>5, GoesOn

LEMMA UnsafeOpens ==
  ASSUME ParserInv, OpenUnsafe
  PROVE  ParserInv'
<1> DEFINE n == FreshId(ast)
           c == ast_new(ast, "block", 0)
           ns == <<n>>
           F == Needed(ast, frames, tmp_ast_a, 0, plain)
<1>1. /\ Token
      /\ IF n = 0 THEN Fail(c)
         ELSE /\ ast' = c /\ ast_block_node' = n
              /\ frames' = Append(frames, Frame("unsafe", ast_block_node, 0, n, 0))
              /\ plain' = FALSE
              /\ UNCHANGED <<returned, phase, tmp_ast_a>>
  BY DEF OpenUnsafe, Enter
<1>2. /\ phase = "parsing" /\ returned = 0 /\ tokens' \in 0 .. MaxTokens /\ plain \in BOOLEAN
      /\ Keep(ast, frames, ast_block_node, tmp_ast_a, 0, plain) /\ Good(ast, F)
  BY <1>1, TokenStep
<1>3. Fresh(ast, c, F, ns)
  BY <1>2, OneNew, Kinds
<1>4. n \in Each(ns) /\ 0 \in Each(ns) \cup {0}
  BY One
<1> HIDE DEF n, c, ns, F
<1>5. CASE n = 0
  <2>1. Settled(c, frames, ast_block_node, tmp_ast_a, 0, plain)
    BY <1>2, <1>3, FreshSettled
  <2> QED BY <1>1, <1>2, <1>5, <2>1, Stops
<1>6. CASE n # 0
  <2>1. Keep(c, Append(frames, Frame("unsafe", ast_block_node, 0, n, 0)), n, tmp_ast_a, 0, FALSE)
    BY <1>2, <1>3, <1>4, OpenKeeps DEF F
  <2> QED BY <1>1, <1>2, <1>6, <2>1, GoesOn
<1> QED BY <1>5, <1>6

-----------------------------------------------------------------------------
(* Terminators. *)
LEMMA LaterLater ==
  ASSUME NEW a, NEW b, NEW c, NEW F, NEW G, Arena(a), a.err \in BOOLEAN, Later(a, b, F), Later(b, c, G)
  PROVE  Later(a, c, G)
<1>1. Len(a.nodes) \in Nat /\ Len(b.nodes) \in Nat /\ Len(c.nodes) \in Nat
      /\ b.err \in BOOLEAN /\ c.err \in BOOLEAN
  BY ArenaParts DEF Later, Good
<1>2. \A l, m, n \in Nat : l <= m /\ m <= n => l <= n
  OBVIOUS
<1>3. Len(a.nodes) <= Len(c.nodes)
  BY <1>1, <1>2 DEF Later
<1>4. a.err => c.err
  BY <1>1 DEF Later
<1> QED BY <1>1, <1>3, <1>4 DEF Later

(* A node that a handler looks for and does not get. *)
LEMMA OverflowSettled ==
  ASSUME NEW a, NEW fs, NEW b, NEW t, NEW r, NEW pl \in BOOLEAN, Keep(a, fs, b, t, r, pl),
         NEW c, NEW F, Later(a, c, F), NEW child \in F \cup {0}, NEW kind \in NodeKinds,
         FreshId(c) = 0
  PROVE  Settled(ast_new(c, kind, child), fs, b, t, r, pl)
<1> DEFINE d == ast_new(c, kind, child)
           n == FreshId(c)
           G == (F \ {child}) \cup ({n} \ {0})
<1>1. WithNew(c, d, n, F, child)
  BY NewIs DEF Later
<1>2. Later(c, d, G) /\ d.err
  BY <1>1 DEF WithNew
<1> HIDE DEF d, n, G
<1>3. Arena(a) /\ a.err \in BOOLEAN
  BY ArenaParts DEF Keep, Good
<1>4. Later(a, d, G)
  BY <1>2, <1>3, LaterLater
<1>5. Settled(d, fs, b, t, r, pl)
  BY <1>2, <1>4, StopSettled
<1> QED BY <1>5 DEF d

LEMMA EndFunctionKeeps ==
  ASSUME ParserInv, NEW t, EndFunction(t)
  PROVE  ParserInv'
<1>1. /\ Token
      /\ IF t # "end" THEN Fail(ast)
         ELSE /\ phase' = IF ast.err THEN "rejected" ELSE "accepted"
              /\ UNCHANGED <<ast, ast_block_node, tmp_ast_a, frames, returned, plain>>
  BY DEF EndFunction
<1>2. /\ tokens' \in 0 .. MaxTokens /\ plain \in BOOLEAN
      /\ Settled(ast, frames, ast_block_node, tmp_ast_a, returned, plain)
  BY <1>1, TokenStep DEF ParserInv
<1>3. CASE t # "end"
  BY <1>1, <1>2, <1>3, Stops
<1>4. CASE t = "end"
  <2>1. /\ phase' \in {"rejected", "accepted"} /\ (phase' = "accepted" => ~ast'.err)
        /\ UNCHANGED <<ast, ast_block_node, tmp_ast_a, frames, returned, plain>>
    BY <1>1, <1>4
  <2> QED BY <1>2, <2>1 DEF ParserInv
<1> QED BY <1>3, <1>4

(* The parts of a statement, as its handler has kept them. *)
LEMMA EndingIs ==
  ASSUME NEW a, NEW fs, NEW b, NEW t, NEW pl \in BOOLEAN, Keep(a, fs, b, t, 0, pl),
         NEW f, f = fs[Len(fs)], f.kind # "fn", NEW ps, ps = SubSeq(fs, 1, Len(fs) - 1),
         NEW c, NEW ns, Fresh(a, c, Needed(a, fs, t, 0, pl), ns),
         NEW cs \in Seq(Held(f) \cup Each(ns) \cup {0}), Once(cs), ~c.err => Whole(cs)
  PROVE  Ending(a, fs, t, pl, f, ps, c, ns, cs)
<1> DEFINE F == Needed(a, fs, t, 0, pl)
           M == Held(f)
<1>1. Parted(a, fs, b, t, 0, pl, ps, f)
  BY KeepParted
<1>2. /\ HeldAll(ps) \cap M = {} /\ M \subseteq HeldAll(fs) /\ (Waiting(ps) => Waiting(fs))
  BY <1>1 DEF Parted, Upper
<1>3. /\ HeldAll(fs) \subseteq F /\ 0 \notin F /\ t \notin HeldAll(fs) /\ a.err \in BOOLEAN
  BY KeepFacts DEF Keep
<1>4. PartsOf(M, ns, c, cs)
  BY DEF PartsOf
<1>5. Each(cs) \subseteq M \cup Each(ns) \cup {0}
  BY DEF Each
<1>6. pl /\ ~c.err /\ Waiting(ps) => t \notin Each(cs)
  <2> SUFFICES ASSUME pl, ~c.err, Waiting(ps) PROVE t \notin Each(cs)
    OBVIOUS
  <2>1. ~a.err
    BY <1>3 DEF Fresh, Later
  <2>2. t \in F
    BY <1>2, <2>1 DEF Needed
  <2>3. t \notin M /\ t # 0
    BY <1>2, <1>3, <2>2
  <2>4. t \notin Each(ns)
    BY <2>2, <2>3 DEF Fresh
  <2> QED BY <1>5, <2>3, <2>4
<1>7. M \in SUBSET F /\ M \cap HeldAll(ps) = {}
  BY <1>2, <1>3
<1> HIDE DEF M, F
<1> QED BY <1>4, <1>6, <1>7 DEF Ending, F

LEMMA OnceTwo ==
  ASSUME NEW x, NEW y, x # 0, y # 0 => y # x
  PROVE  Once(<<x, y>>)
BY Two

LEMMA OnceThree ==
  ASSUME NEW x, NEW y, NEW z, x # 0, y # 0 => y # x, z # 0 => z # x /\ z # y
  PROVE  Once(<<x, y, z>>)
<1>1. Len(<<x, y, z>>) = 3 /\ 1 .. 3 = {1, 2, 3}
  OBVIOUS
<1>2. /\ <<x, y, z>>[1] = x /\ <<x, y, z>>[2] = y /\ <<x, y, z>>[3] = z
  OBVIOUS
<1> QED BY <1>1, <1>2 DEF Once

(* What a handler with a condition has kept. *)
LEMMA PairKept ==
  ASSUME NEW a, NEW fs, NEW b, NEW t, NEW r, NEW pl \in BOOLEAN, Keep(a, fs, b, t, r, pl),
         NEW f, f = fs[Len(fs)], f.kind \notin {"fn", "loop", "unsafe"}
  PROVE  /\ f.cond # 0 /\ f.cond \in Held(f)
         /\ f.block # 0 => f.block # f.cond
         /\ f.then # 0 => f.then # f.cond
         /\ f.kind = "elifelse" /\ f.block # 0 => f.block # f.then
         /\ f.kind \notin {"ifwait", "elifwait"} => f.block \in Held(f) \cup {0}
         /\ f.kind \in {"elifelse", "elifwait"} => f.then \in Held(f) \cup {0}
         /\ ~a.err => f.block # 0 /\ (f.kind \in {"elifelse", "elifwait"} => f.then # 0)
<1>1. Parted(a, fs, b, t, r, pl, SubSeq(fs, 1, Len(fs) - 1), f)
  BY KeepParted
<1>2. Distinct(f) /\ (~a.err => Blocked(f))
  BY <1>1 DEF Parted, Upper
<1>3. f.cond # 0
  BY <1>2 DEF Distinct
<1>4. /\ f.block # 0 => f.block # f.cond
      /\ f.then # 0 => f.then # f.cond
      /\ f.kind = "elifelse" /\ f.block # 0 => f.block # f.then
  BY <1>2 DEF Distinct
<1>5. ~a.err => f.block # 0 /\ (f.kind \in {"elifelse", "elifwait"} => f.then # 0)
  BY <1>2 DEF Blocked
<1>6. /\ f.cond \in Held(f)
      /\ f.kind \notin {"ifwait", "elifwait"} => f.block \in Held(f) \cup {0}
      /\ f.kind \in {"elifelse", "elifwait"} => f.then \in Held(f) \cup {0}
  BY <1>3 DEF Held
<1> QED BY <1>3, <1>4, <1>5, <1>6

LEMMA FinishStep ==
  ASSUME ParserInv, Token, Top.kind # "fn", NEW kind \in NodeKinds,
         NEW cs \in Seq(Held(Top) \cup {0}), Once(cs), ~ast.err => Whole(cs),
         Finish(kind, ast, cs, cs), UNCHANGED <<tmp_ast_a, returned, phase, plain>>
  PROVE  ParserInv'
<1> DEFINE F == Needed(ast, frames, tmp_ast_a, 0, plain)
           f == Top
           ps == Popped
<1>1. /\ phase = "parsing" /\ returned = 0 /\ tokens' \in 0 .. MaxTokens /\ plain \in BOOLEAN
      /\ Keep(ast, frames, ast_block_node, tmp_ast_a, 0, plain) /\ Good(ast, F)
  BY TokenStep
<1>2. f = frames[Len(frames)] /\ ps = SubSeq(frames, 1, Len(frames) - 1)
  BY DEF Top, Popped
<1>3. /\ ast' = Placed(ast_new(ast, kind, 0), FreshId(ast), cs, f.rbx, cs, frames[Len(frames) - 1].block)
      /\ frames' = ps /\ ast_block_node' = f.rbx
  BY DEF Finish, Placed, Restored
<1>4. Fresh(ast, ast, F, << >>)
  BY <1>1, FreshNone
<1>5. cs \in Seq(Held(f) \cup Each(<< >>) \cup {0})
  <2>1. Held(f) \cup Each(<< >>) \cup {0} = Held(f) \cup {0}
    BY NoParts
  <2> QED BY <2>1
<1> HIDE DEF f, ps, F
<1>6. f.kind # "fn"
  BY DEF f
<1>7. Ending(ast, frames, tmp_ast_a, plain, f, ps, ast, << >>, cs)
  BY <1>1, <1>2, <1>4, <1>5, <1>6, EndingIs DEF F
<1>8. Keep(ast', ps, f.rbx, tmp_ast_a, 0, plain)
  BY <1>1, <1>3, <1>7, EndKeeps
<1> QED BY <1>1, <1>3, <1>8, GoesOn

LEMMA EndPairKeeps ==
  ASSUME ParserInv, Token, NEW kind \in {"if", "while"}, Top.kind = kind,
         Finish(kind, ast, <<Top.cond, Top.block>>, <<Top.cond, Top.block>>),
         UNCHANGED <<tmp_ast_a, returned, phase, plain>>
  PROVE  ParserInv'
<1> DEFINE f == Top
           x == f.cond
           y == f.block
<1>1. plain \in BOOLEAN /\ Keep(ast, frames, ast_block_node, tmp_ast_a, 0, plain)
  BY TokenStep
<1>2. f = frames[Len(frames)]
  BY DEF Top
<1>3. f.kind \notin {"fn", "loop", "unsafe", "ifwait", "elifwait"} /\ f.kind # "fn"
  OBVIOUS
<1> HIDE DEF f
<1>4. /\ x # 0 /\ x \in Held(f) /\ (y # 0 => y # x) /\ y \in Held(f) \cup {0}
      /\ (~ast.err => y # 0)
  BY <1>1, <1>2, <1>3, PairKept
<1>5. kind \in NodeKinds
  BY Kinds
<1> HIDE DEF x, y
<1>6. /\ x \in Held(f) \cup {0} /\ y \in Held(f) \cup {0}
  BY <1>4
<1>7. <<x, y>> \in Seq(Held(f) \cup {0}) /\ Once(<<x, y>>) /\ (~ast.err => Whole(<<x, y>>))
  BY <1>4, <1>6, OnceTwo, Two
<1>8. Finish(kind, ast, <<x, y>>, <<x, y>>)
  BY DEF x, y, f
<1> QED BY <1>3, <1>5, <1>7, <1>8, FinishStep DEF f

LEMMA EndLoopKeeps ==
  ASSUME ParserInv, NEW t, EndLoop(t)
  PROVE  ParserInv'
<1> DEFINE f == Top
           y == f.block
<1>1. /\ Token /\ f.kind = "loop" /\ Finish("loop", ast, <<y>>, <<y>>)
      /\ UNCHANGED <<tmp_ast_a, returned, phase, plain>>
  BY DEF EndLoop
<1>2. plain \in BOOLEAN /\ Keep(ast, frames, ast_block_node, tmp_ast_a, 0, plain)
  BY <1>1, TokenStep
<1>3. f = frames[Len(frames)]
  BY DEF Top
<1> HIDE DEF f
<1>4. f.kind # "fn"
  BY <1>1
<1>5. ~ast.err => y # 0
  <2>1. Parted(ast, frames, ast_block_node, tmp_ast_a, 0, plain, SubSeq(frames, 1, Len(frames) - 1), f)
    BY <1>2, <1>3, <1>4, KeepParted
  <2> QED BY <2>1 DEF Parted, Upper, Blocked
<1>6. y \in Held(f) \cup {0}
  BY <1>1 DEF Held
<1> HIDE DEF y
<1>7. <<y>> \in Seq(Held(f) \cup {0}) /\ Once(<<y>>) /\ (~ast.err => Whole(<<y>>))
  BY <1>5, <1>6, One
<1> QED BY <1>1, <1>4, <1>7, FinishStep, Kinds DEF f

(* An if with a second part. *)
LEMMA TempStep ==
  ASSUME phase = "parsing", tokens' \in 0 .. MaxTokens, plain \in BOOLEAN,
         Keep(ast, frames, ast_block_node, tmp_ast_a, 0, plain),
         Waits(Top), NEW c, NEW ns, Fresh(ast, c, Needed(ast, frames, tmp_ast_a, 0, plain), ns),
         NEW y \in Held(Top) \cup Each(ns) \cup {0}, y # Top.cond, ~c.err => y # 0,
         Finish("if", c, <<Top.cond, tmp_ast_a, y>>, <<Top.cond, Top.then, y>>),
         UNCHANGED <<tmp_ast_a, phase, plain>>, returned' = 0
  PROVE  ParserInv'
<1> DEFINE f == Top
           ps == Popped
           F == Needed(ast, frames, tmp_ast_a, 0, plain)
<1>1. f = frames[Len(frames)] /\ ps = SubSeq(frames, 1, Len(frames) - 1)
  BY DEF Top, Popped
<1>2. /\ ast' = Placed(ast_new(c, "if", 0), FreshId(c), <<f.cond, tmp_ast_a, y>>, f.rbx,
                       <<f.cond, f.then, y>>, frames[Len(frames) - 1].block)
      /\ frames' = ps /\ ast_block_node' = f.rbx
  BY DEF Finish, Placed, Restored
<1>3. Waits(f) /\ y \in Held(f) \cup Each(ns) \cup {0} /\ y # f.cond
  OBVIOUS
<1> HIDE DEF f, ps
<1>4. Keep(ast', ps, f.rbx, tmp_ast_a, 0, plain)
  BY <1>1, <1>2, <1>3, EndTempKeeps, Kinds
<1> QED BY <1>2, <1>4, GoesOn

LEMMA EndElseKeeps ==
  ASSUME ParserInv, NEW t, EndElse(t)
  PROVE  ParserInv'
<1> DEFINE f == Top
           y == f.block
           F == Needed(ast, frames, tmp_ast_a, 0, plain)
<1>1. /\ Token /\ f.kind = "else"
      /\ Finish("if", ast, <<f.cond, tmp_ast_a, y>>, <<f.cond, f.then, y>>)
      /\ UNCHANGED <<tmp_ast_a, returned, phase, plain>>
  BY DEF EndElse
<1>2. /\ phase = "parsing" /\ returned = 0 /\ tokens' \in 0 .. MaxTokens /\ plain \in BOOLEAN
      /\ Keep(ast, frames, ast_block_node, tmp_ast_a, 0, plain) /\ Good(ast, F)
  BY <1>1, TokenStep
<1>3. f = frames[Len(frames)]
  BY DEF Top
<1>4. Fresh(ast, ast, F, << >>)
  BY <1>2, FreshNone
<1> HIDE DEF f, F
<1>5. Waits(f) /\ f.kind \notin {"fn", "loop", "unsafe", "ifwait", "elifwait"}
  BY <1>1 DEF Waits
<1>6. /\ f.cond # 0 /\ (y # 0 => y # f.cond) /\ y \in Held(f) \cup {0} /\ (~ast.err => y # 0)
  BY <1>2, <1>3, <1>5, PairKept
<1>7. y \in Held(f) \cup Each(<< >>) \cup {0} /\ y # f.cond
  BY <1>6
<1> QED BY <1>1, <1>2, <1>4, <1>5, <1>6, <1>7, TempStep DEF f, F

LEMMA WrappedIs == Wrapped = Built(ast, "block", <<returned>>)
<1>1. AppendAll(ast_new(ast, "block", 0), FreshId(ast), <<returned>>)
        = ast_append_child(ast_new(ast, "block", 0), FreshId(ast), returned)
  BY AppendAllOne
<1> QED BY <1>1 DEF Wrapped, Built

(* A handler that goes on with the if it was handed. *)
LEMMA Resumes ==
  ASSUME ParserInv, phase = "parsing", returned # 0, UNCHANGED tokens
  PROVE  /\ tokens' \in 0 .. MaxTokens /\ plain \in BOOLEAN
         /\ Keep(ast, frames, ast_block_node, tmp_ast_a, returned, plain)
         /\ Keep(ast, frames, ast_block_node, tmp_ast_a, 0, plain)
         /\ Fresh(ast, Wrapped, Needed(ast, frames, tmp_ast_a, 0, plain), <<FreshId(ast)>>)
<1>1. /\ tokens' \in 0 .. MaxTokens /\ plain \in BOOLEAN
      /\ Keep(ast, frames, ast_block_node, tmp_ast_a, returned, plain)
  BY DEF ParserInv
<1>2. /\ Keep(ast, frames, ast_block_node, tmp_ast_a, 0, plain)
      /\ Fresh(ast, Built(ast, "block", <<returned>>), Needed(ast, frames, tmp_ast_a, 0, plain), <<FreshId(ast)>>)
  BY <1>1, WrapIs, Kinds
<1> QED BY <1>1, <1>2, WrappedIs

LEMMA WrapperIs ==
  ASSUME NEW a, NEW fs, NEW b, NEW t, NEW pl \in BOOLEAN, Keep(a, fs, b, t, 0, pl),
         NEW c, NEW w, Fresh(a, c, Needed(a, fs, t, 0, pl), <<w>>)
  PROVE  /\ w \in Each(<<w>>) /\ (~c.err => w # 0)
         /\ \A x \in HeldAll(fs) : w # x
<1>1. Each(<<w>>) = {w}
  BY One
<1>2. (~c.err => w # 0) /\ (w # 0 => w \notin Needed(a, fs, t, 0, pl))
  BY <1>1 DEF Fresh
<1>3. HeldAll(fs) \subseteq Needed(a, fs, t, 0, pl) /\ 0 \notin HeldAll(fs)
  BY KeepFacts
<1> QED BY <1>1, <1>2, <1>3

LEMMA HeldOnTop ==
  ASSUME NEW a, NEW fs, NEW b, NEW t, NEW r, NEW pl \in BOOLEAN, Keep(a, fs, b, t, r, pl),
         NEW f, f = fs[Len(fs)], f.kind # "fn"
  PROVE  Held(f) \subseteq HeldAll(fs)
<1>1. Parted(a, fs, b, t, r, pl, SubSeq(fs, 1, Len(fs) - 1), f)
  BY KeepParted
<1> QED BY <1>1 DEF Parted

LEMMA ResumeIfKeeps ==
  ASSUME ParserInv, ResumeIf
  PROVE  ParserInv'
<1> DEFINE f == Top
           w == FreshId(ast)
           c == Wrapped
           ns == <<w>>
           F == Needed(ast, frames, tmp_ast_a, 0, plain)
<1>1. /\ phase = "parsing" /\ returned # 0 /\ f.kind = "ifwait"
      /\ Finish("if", c, <<f.cond, tmp_ast_a, w>>, <<f.cond, f.then, w>>)
      /\ returned' = 0 /\ UNCHANGED <<tmp_ast_a, phase, plain, tokens>>
  BY DEF ResumeIf
<1>2. /\ tokens' \in 0 .. MaxTokens /\ plain \in BOOLEAN
      /\ Keep(ast, frames, ast_block_node, tmp_ast_a, 0, plain) /\ Fresh(ast, c, F, ns)
  BY <1>1, Resumes
<1>3. f = frames[Len(frames)]
  BY DEF Top
<1>4. /\ w \in Each(ns) /\ (~c.err => w # 0) /\ \A x \in HeldAll(frames) : w # x
  BY <1>2, WrapperIs
<1> HIDE DEF f, w, c, ns, F
<1>5. Waits(f) /\ f.kind \notin {"fn", "loop", "unsafe"} /\ f.kind # "fn"
  BY <1>1 DEF Waits
<1>6. f.cond \in Held(f) /\ Held(f) \subseteq HeldAll(frames)
  BY <1>2, <1>3, <1>5, PairKept, HeldOnTop
<1>7. w \in Held(f) \cup Each(ns) \cup {0} /\ w # f.cond
  BY <1>4, <1>6
<1> QED BY <1>1, <1>2, <1>4, <1>5, <1>7, TempStep DEF f, F

(* A tail that hands back its if. *)
LEMMA HandBackStep ==
  ASSUME phase = "parsing", tokens' \in 0 .. MaxTokens, plain \in BOOLEAN,
         Keep(ast, frames, ast_block_node, tmp_ast_a, returned, plain),
         Keep(ast, frames, ast_block_node, tmp_ast_a, 0, plain), Top.kind # "fn",
         NEW c, NEW ns, Fresh(ast, c, Needed(ast, frames, tmp_ast_a, 0, plain), ns),
         NEW cs \in Seq(Held(Top) \cup Each(ns) \cup {0}), Once(cs), ~c.err => Whole(cs),
         HandBack(c, cs)
  PROVE  ParserInv'
<1> DEFINE F == Needed(ast, frames, tmp_ast_a, 0, plain)
           f == Top
           ps == Popped
           s == FreshId(c)
<1>1. IF s = 0 THEN Fail(ast_new(c, "if", 0))
      ELSE /\ ast' = Built(c, "if", cs) /\ returned' = s /\ frames' = ps /\ ast_block_node' = f.rbx
           /\ UNCHANGED <<tmp_ast_a, phase, plain>>
  BY DEF HandBack, Built, Restored
<1>2. f = frames[Len(frames)] /\ ps = SubSeq(frames, 1, Len(frames) - 1)
      /\ f.kind # "fn" /\ cs \in Seq(Held(f) \cup Each(ns) \cup {0})
  BY DEF Top, Popped
<1> HIDE DEF f, ps, s
<1>3. CASE s = 0
  <2>1. Later(ast, c, F \cup (Each(ns) \ {0}))
    BY DEF Fresh
  <2> DEFINE G == F \cup (Each(ns) \ {0})
  <2>2. 0 \in G \cup {0} /\ Later(ast, c, G)
    BY <2>1
  <2> HIDE DEF G
  <2>3. Settled(ast_new(c, "if", 0), frames, ast_block_node, tmp_ast_a, returned, plain)
    BY <1>3, <2>2, OverflowSettled, Kinds DEF s
  <2> QED BY <1>1, <1>3, <2>3, Stops
<1>4. CASE s # 0
  <2>1. Ending(ast, frames, tmp_ast_a, plain, f, ps, c, ns, cs)
    BY <1>2, EndingIs
  <2>2. Keep(Built(c, "if", cs), ps, f.rbx, tmp_ast_a, s, plain)
    BY <1>4, <2>1, HandBackKeeps, Kinds DEF s
  <2> QED BY <1>1, <1>4, <2>2, GoesOn
<1> QED BY <1>3, <1>4

LEMMA EndTailKeeps ==
  ASSUME ParserInv, NEW t, EndTail(t)
  PROVE  ParserInv'
<1> DEFINE f == Top
           x == f.cond
           y == f.block
           z == f.then
           F == Needed(ast, frames, tmp_ast_a, 0, plain)
<1>1. /\ Token
      /\ \/ f.kind = "elif" /\ HandBack(ast, <<x, y>>)
         \/ f.kind = "elifelse" /\ HandBack(ast, <<x, z, y>>)
  BY DEF EndTail
<1>2. /\ phase = "parsing" /\ returned = 0 /\ tokens' \in 0 .. MaxTokens /\ plain \in BOOLEAN
      /\ Keep(ast, frames, ast_block_node, tmp_ast_a, 0, plain) /\ Good(ast, F)
  BY <1>1, TokenStep
<1>3. f = frames[Len(frames)]
  BY DEF Top
<1>4. Fresh(ast, ast, F, << >>)
  BY <1>2, FreshNone
<1>n. Each(<< >>) = {}
  BY NoParts
<1> HIDE DEF f, F
<1>5. /\ f.kind \notin {"fn", "loop", "unsafe", "ifwait", "elifwait"} /\ f.kind # "fn"
  BY <1>1
<1>6. /\ x # 0 /\ x \in Held(f) /\ (y # 0 => y # x) /\ y \in Held(f) \cup {0} /\ (z # 0 => z # x)
      /\ (f.kind = "elifelse" => z \in Held(f) \cup {0} /\ (y # 0 => y # z))
      /\ (~ast.err => y # 0 /\ (f.kind = "elifelse" => z # 0))
  BY <1>2, <1>3, <1>5, PairKept
<1> HIDE DEF x, y, z
<1> DEFINE M == Held(f) \cup Each(<< >>) \cup {0}
<1>7. x \in M /\ y \in M /\ (f.kind = "elifelse" => z \in M)
  BY <1>6
<1> HIDE DEF M
<1>8. CASE f.kind = "elif" /\ HandBack(ast, <<x, y>>)
  <2>1. <<x, y>> \in Seq(M) /\ Once(<<x, y>>) /\ (~ast.err => Whole(<<x, y>>))
    BY <1>6, <1>7, OnceTwo, Two
  <2> QED BY <1>2, <1>4, <1>5, <1>8, <2>1, HandBackStep DEF f, F, M
<1>9. CASE f.kind = "elifelse" /\ HandBack(ast, <<x, z, y>>)
  <2>1. <<x, z, y>> \in Seq(M) /\ Once(<<x, z, y>>) /\ (~ast.err => Whole(<<x, z, y>>))
    BY <1>6, <1>7, <1>9, OnceThree, Three
  <2> QED BY <1>2, <1>4, <1>5, <1>9, <2>1, HandBackStep DEF f, F, M
<1> QED BY <1>1, <1>8, <1>9

LEMMA ResumeTailKeeps ==
  ASSUME ParserInv, ResumeTail
  PROVE  ParserInv'
<1> DEFINE f == Top
           x == f.cond
           z == f.then
           w == FreshId(ast)
           c == Wrapped
           ns == <<w>>
           F == Needed(ast, frames, tmp_ast_a, 0, plain)
<1>1. /\ phase = "parsing" /\ returned # 0 /\ f.kind = "elifwait"
      /\ HandBack(c, <<x, z, w>>) /\ UNCHANGED tokens
  BY DEF ResumeTail
<1>2. /\ tokens' \in 0 .. MaxTokens /\ plain \in BOOLEAN
      /\ Keep(ast, frames, ast_block_node, tmp_ast_a, returned, plain)
      /\ Keep(ast, frames, ast_block_node, tmp_ast_a, 0, plain) /\ Fresh(ast, c, F, ns)
  BY <1>1, Resumes
<1>3. f = frames[Len(frames)]
  BY DEF Top
<1>4. /\ w \in Each(ns) /\ (~c.err => w # 0) /\ \A v \in HeldAll(frames) : w # v
  BY <1>2, WrapperIs
<1> HIDE DEF f, w, c, ns, F
<1>5. f.kind \notin {"fn", "loop", "unsafe"} /\ f.kind \in {"elifelse", "elifwait"} /\ f.kind # "fn"
  BY <1>1
<1>6. /\ x # 0 /\ x \in Held(f) /\ (z # 0 => z # x) /\ z \in Held(f) \cup {0}
      /\ (~ast.err => z # 0) /\ Held(f) \subseteq HeldAll(frames)
  BY <1>2, <1>3, <1>5, PairKept, HeldOnTop
<1>7. ~c.err => ~ast.err
  BY <1>2 DEF Fresh, Later
<1> HIDE DEF x, z
<1> DEFINE M == Held(f) \cup Each(ns) \cup {0}
<1>8. x \in M /\ z \in M /\ w \in M
  BY <1>4, <1>6
<1>9. (w # 0 => w # x /\ w # z)
  BY <1>4, <1>6
<1> HIDE DEF M
<1>10. <<x, z, w>> \in Seq(M) /\ Once(<<x, z, w>>) /\ (~c.err => Whole(<<x, z, w>>))
  BY <1>4, <1>6, <1>7, <1>8, <1>9, OnceThree, Three
<1> QED BY <1>1, <1>2, <1>5, <1>10, HandBackStep DEF f, F, M

(* The first block of an if is parsed and a second part follows. *)
LEMMA WaitStep ==
  ASSUME ParserInv, Token, Top.kind \in {"if", "elif"},
         IF Top.kind = "if" THEN tmp_ast_a' = Top.block /\ plain' = (plain /\ ~TempNeeded)
         ELSE UNCHANGED <<tmp_ast_a, plain>>
  PROVE  /\ plain' \in BOOLEAN
         /\ Keep(ast, Append(Popped, Awaiting(Top)), ast_block_node, tmp_ast_a', 0, plain')
         /\ \E S : Popped \in Seq(S) /\ Popped # << >>
<1> DEFINE f == Top
           ps == Popped
<1>1. plain \in BOOLEAN /\ Keep(ast, frames, ast_block_node, tmp_ast_a, 0, plain)
  BY TokenStep
<1>2. f = frames[Len(frames)] /\ ps = SubSeq(frames, 1, Len(frames) - 1)
      /\ f.kind \in {"if", "elif"} /\ f.kind # "fn"
  BY DEF Top, Popped
<1>3. TempNeeded <=> Waiting(frames)
  BY DEF TempNeeded, Waiting, Waits
<1>4. IF f.kind = "if" THEN tmp_ast_a' = f.block /\ plain' = (plain /\ ~Waiting(frames))
      ELSE tmp_ast_a' = tmp_ast_a /\ plain' = plain
  <2>1. CASE f.kind = "if"
    BY <1>3, <2>1, Zenon
  <2>2. CASE f.kind # "if"
    BY <2>2
  <2> QED BY <2>1, <2>2
<1> HIDE DEF f, ps
<1>5. plain' \in BOOLEAN
  <2>1. (plain /\ ~Waiting(frames)) \in BOOLEAN
    BY Zenon
  <2> QED BY <1>1, <1>4, <2>1
<1>6. Keep(ast, Append(ps, Awaiting(f)), ast_block_node, tmp_ast_a', 0, plain')
  BY <1>1, <1>2, <1>4, <1>5, WaitKeeps
<1>7. \E S : ps \in Seq(S) /\ ps # << >>
  <2>1. Parted(ast, frames, ast_block_node, tmp_ast_a, 0, plain, ps, f)
    BY <1>1, <1>2, KeepParted
  <2> QED BY <2>1 DEF Parted, Splits
<1> QED BY <1>5, <1>6, <1>7 DEF f, ps

LEMMA ElseKeeps ==
  ASSUME ParserInv, Else
  PROVE  ParserInv'
<1> DEFINE f == Top
           g == Awaiting(f)
           ps == Popped
           n == FreshId(ast)
           c == ast_new(ast, "block", 0)
           ns == <<n>>
           h == Frame(IF f.kind = "if" THEN "else" ELSE "elifelse", f.rbx, f.cond, n, f.block)
           fs == Append(ps, g)
           F == Needed(ast, fs, tmp_ast_a', 0, plain')
<1>1. /\ Token /\ f.kind \in {"if", "elif"}
      /\ frames' = Append(ps, h) /\ ast' = c /\ ast_block_node' = n
      /\ IF f.kind = "if" THEN tmp_ast_a' = f.block /\ plain' = (plain /\ ~TempNeeded)
         ELSE UNCHANGED <<tmp_ast_a, plain>>
      /\ UNCHANGED <<returned, phase>>
  BY DEF Else, WithTop, ElseBlockNode
<1>2. /\ phase = "parsing" /\ returned = 0 /\ tokens' \in 0 .. MaxTokens
  BY <1>1, TokenStep
<1>3. /\ plain' \in BOOLEAN /\ Keep(ast, fs, ast_block_node, tmp_ast_a', 0, plain')
      /\ \E S : ps \in Seq(S) /\ ps # << >>
  BY <1>1, WaitStep
<1>4. PICK S : ps \in Seq(S) /\ ps # << >>
  BY <1>3
<1>5. g.kind \in {"ifwait", "elifwait"} /\ h = Opened(g, n)
  <2>1. CASE f.kind = "if"
    BY <2>1 DEF Awaiting, Opened, Frame
  <2>2. CASE f.kind = "elif"
    BY <2>2 DEF Awaiting, Opened, Frame
  <2> QED BY <1>1, <2>1, <2>2
<1>6. Good(ast, F)
  BY <1>3, KeepFacts
<1>7. Fresh(ast, c, F, ns)
  BY <1>6, OneNew, Kinds
<1>8. n \in Each(ns)
  BY One
<1> HIDE DEF f, g, ps, n, c, ns, h
<1>9. Keep(c, Append(ps, Opened(g, n)), n, tmp_ast_a', 0, plain')
  BY <1>3, <1>4, <1>5, <1>7, <1>8, SecondKeeps
<1> QED BY <1>1, <1>2, <1>3, <1>5, <1>9, GoesOn

LEMMA ElifKeeps ==
  ASSUME ParserInv, Elif
  PROVE  ParserInv'
<1> DEFINE f == Top
           g == Awaiting(f)
           ps == Popped
           x == FreshId(ast)
           a == ast_new(ast, "expr", 0)
           n == FreshId(a)
           c == ast_new(a, "block", 0)
           ns == <<x, n>>
           fs == Append(ps, g)
           F == Needed(ast, fs, tmp_ast_a', 0, plain')
           E == Needed(ast, frames, tmp_ast_a, 0, plain)
<1>1. /\ Token /\ f.kind \in {"if", "elif"}
      /\ IF x = 0 THEN Fail(a)
         ELSE /\ ast' = c /\ ast_block_node' = n
              /\ frames' = Append(fs, Frame("elif", ast_block_node, x, n, 0))
              /\ IF f.kind = "if" THEN tmp_ast_a' = f.block /\ plain' = (plain /\ ~TempNeeded)
                 ELSE UNCHANGED <<tmp_ast_a, plain>>
              /\ UNCHANGED <<returned, phase>>
  BY DEF Elif, WithTop, Awaiting
<1>2. /\ phase = "parsing" /\ returned = 0 /\ tokens' \in 0 .. MaxTokens /\ plain \in BOOLEAN
      /\ Keep(ast, frames, ast_block_node, tmp_ast_a, 0, plain) /\ Good(ast, E)
  BY <1>1, TokenStep
<1> HIDE DEF f
<1>3. CASE x = 0
  <2>1. Fresh(ast, a, E, <<x>>)
    BY <1>2, OneNew, Kinds
  <2> HIDE DEF x, a, E
  <2>2. Settled(a, frames, ast_block_node, tmp_ast_a, 0, plain)
    BY <1>2, <2>1, FreshSettled
  <2> QED BY <1>1, <1>2, <1>3, <2>2, Stops
<1>4. CASE x # 0
  <2>1. plain' \in BOOLEAN /\ Keep(ast, fs, ast_block_node, tmp_ast_a', 0, plain')
    BY <1>1, <1>4, WaitStep DEF f
  <2>2. Good(ast, F)
    BY <2>1, KeepFacts
  <2>3. Fresh(ast, c, F, ns)
    BY <2>2, TwoNew, Kinds
  <2>4. (n # 0 => n # x) /\ x \in Each(ns) /\ n \in Each(ns)
    BY <2>3, TwoApart DEF Fresh
  <2> HIDE DEF x, a, n, c, ns, fs
  <2>5. x \in Each(ns) \cup {0} /\ "elif" \in {"if", "while", "loop", "unsafe", "elif"}
    BY <2>4
  <2>6. Keep(c, Append(fs, Frame("elif", ast_block_node, x, n, 0)), n, tmp_ast_a', 0, plain')
    BY <1>4, <2>1, <2>3, <2>4, <2>5, OpenKeeps
  <2> QED BY <1>1, <1>2, <1>4, <2>1, <2>6, GoesOn
<1> QED BY <1>3, <1>4

LEMMA EndUnsafeKeeps ==
  ASSUME ParserInv, NEW t, EndUnsafe(t)
  PROVE  ParserInv'
<1> DEFINE f == Top
           ps == Popped
           u == FreshId(ast)
           a == ast_new(ast, "unsafe", f.block)
           below == frames[Len(frames) - 1]
           d == Meant(ast_append_child(a, ast_block_node, u), below.block, <<u>>)
           F == Needed(ast, frames, tmp_ast_a, 0, plain)
           gs == [ps EXCEPT ![Len(frames) - 1].rbx = f.rbx]
<1>1. /\ Token /\ f.kind = "unsafe"
      /\ IF t # "end" \/ u = 0 THEN Fail(IF t # "end" THEN ast ELSE a)
         ELSE /\ ast' = d /\ frames' = (IF below.kind = "unsafe" THEN ps ELSE gs)
              /\ ast_block_node' = f.rbx
              /\ UNCHANGED <<tmp_ast_a, returned, phase, plain>>
  BY DEF EndUnsafe
<1>2. /\ phase = "parsing" /\ returned = 0 /\ tokens' \in 0 .. MaxTokens /\ plain \in BOOLEAN
      /\ Keep(ast, frames, ast_block_node, tmp_ast_a, 0, plain) /\ Good(ast, F)
  BY <1>1, TokenStep
<1>3. f = frames[Len(frames)] /\ ps = SubSeq(frames, 1, Len(frames) - 1)
  BY DEF Top, Popped
<1> HIDE DEF f, ps, gs
<1>4. f.kind # "fn"
  BY <1>1
<1>5. ~plain /\ Keep(d, ps, f.rbx, tmp_ast_a, 0, plain)
  BY <1>1, <1>2, <1>3, UnsafeKeeps, Kinds
<1> HIDE DEF d
<1>6. CASE t # "end"
  <2>1. Settled(ast, frames, ast_block_node, tmp_ast_a, 0, plain)
    BY <1>2, KeepSettled
  <2> QED BY <1>1, <1>2, <1>6, <2>1, Stops
<1>7. CASE t = "end" /\ u = 0
  <2>1. f.block \in F \cup {0}
    <3>1. Held(f) \subseteq F
      BY <1>2, <1>3, <1>4, HeldOnTop, KeepFacts
    <3>2. f.block # 0 => f.block \in Held(f)
      BY <1>1 DEF Held
    <3> QED BY <3>1, <3>2
  <2>2. Later(ast, ast, F)
    <3>1. Len(ast.nodes) <= Len(ast.nodes) /\ ast.err \in BOOLEAN
      BY <1>2, KeepFacts
    <3> QED BY <1>2, <3>1 DEF Later
  <2> HIDE DEF F
  <2>3. Settled(a, frames, ast_block_node, tmp_ast_a, 0, plain)
    BY <1>2, <1>7, <2>1, <2>2, OverflowSettled, Kinds
  <2> QED BY <1>1, <1>2, <1>7, <2>3, Stops
<1>8. CASE ~(t # "end" \/ u = 0)
  <2>1. ast' = d /\ ast_block_node' = f.rbx /\ UNCHANGED <<tmp_ast_a, returned, phase, plain>>
    BY <1>1, <1>8
  <2>2. CASE below.kind = "unsafe"
    <3>1. frames' = ps
      BY <1>1, <1>8, <2>2
    <3> QED BY <1>2, <1>5, <2>1, <3>1, GoesOn
  <2>3. CASE below.kind # "unsafe"
    <3>1. frames' = gs
      BY <1>1, <1>8, <2>3
    <3>2. Len(frames) - 1 \in 1 .. Len(ps) /\ f.rbx \in 0 .. Len(d.nodes)
      <4>1. Parted(ast, frames, ast_block_node, tmp_ast_a, 0, plain, ps, f)
        BY <1>2, <1>3, <1>4, KeepParted
      <4>2. Len(ps) = Len(frames) - 1 /\ Len(frames) >= 2 /\ Len(frames) \in Nat
        BY <1>2, <4>1, KeepFacts DEF Parted, Splits
      <4> QED BY <1>5, <4>2 DEF Keep
    <3>3. plain = FALSE /\ FALSE \in BOOLEAN
      BY <1>2, <1>5
    <3>4. Keep(d, gs, f.rbx, tmp_ast_a, 0, FALSE)
      BY <1>2, <1>5, <3>2, RbxKeeps DEF gs
    <3> QED BY <1>2, <2>1, <3>1, <3>3, <3>4, GoesOn
  <2> QED BY <2>2, <2>3
<1> QED BY <1>6, <1>7, <1>8

-----------------------------------------------------------------------------
(* The arena at the first token. *)
LEMMA HeaderNodes ==
  /\ Header.nodes \in Seq(NodeType) /\ Len(Header.nodes) = 4
  /\ Header.nodes[1].child = 2 /\ Header.nodes[1].next = 0
  /\ Header.nodes[2].child = 3 /\ Header.nodes[2].next = 0
  /\ Header.nodes[3].child = 0 /\ Header.nodes[3].next = 4
  /\ Header.nodes[4].child = 0 /\ Header.nodes[4].next = 0
<1> DEFINE n1 == Node("source", 2)
           n2 == Node("fn", 3)
           n3 == [kind |-> "path", child |-> 0, next |-> 4]
           n4 == Node("block", 0)
<1>1. /\ n1 \in NodeType /\ n2 \in NodeType /\ n3 \in NodeType /\ n4 \in NodeType
      /\ n1.child = 2 /\ n1.next = 0 /\ n2.child = 3 /\ n2.next = 0
      /\ n3.child = 0 /\ n3.next = 4 /\ n4.child = 0 /\ n4.next = 0
  BY DEF Node, NodeType, NodeKinds
<1>2. Header.nodes = <<n1, n2, n3, n4>>
  BY DEF Header
<1> HIDE DEF n1, n2, n3, n4
<1>3. /\ <<n1, n2, n3, n4>> \in Seq(NodeType) /\ Len(<<n1, n2, n3, n4>>) = 4
      /\ <<n1, n2, n3, n4>>[1] = n1 /\ <<n1, n2, n3, n4>>[2] = n2
      /\ <<n1, n2, n3, n4>>[3] = n3 /\ <<n1, n2, n3, n4>>[4] = n4
  BY <1>1
<1> QED BY <1>1, <1>2, <1>3

LEMMA HeaderKids ==
  /\ Header.kids \in Seq(Seq(NodeIds)) /\ Header.kids \in Seq(Seq(Nat)) /\ Len(Header.kids) = 4
  /\ Header.kids[1] = <<2>> /\ Header.kids[2] = <<3, 4>>
  /\ Header.kids[3] = << >> /\ Header.kids[4] = << >>
<1>1. {2, 3, 4} \subseteq NodeIds /\ {2, 3, 4} \subseteq Nat
  BY ParserAssumption, AstAssumption DEF NodeIds, Body
<1>2. /\ <<2>> \in Seq(NodeIds) /\ <<3, 4>> \in Seq(NodeIds) /\ << >> \in Seq(NodeIds)
      /\ <<2>> \in Seq(Nat) /\ <<3, 4>> \in Seq(Nat) /\ << >> \in Seq(Nat)
  BY <1>1
<1> DEFINE x == <<2>>
           y == <<3, 4>>
           z == << >>
<1>3. Header.kids = <<x, y, z, z>>
  BY DEF Header
<1> HIDE DEF x, y, z
<1>4. \A S : x \in S /\ y \in S /\ z \in S => <<x, y, z, z>> \in Seq(S)
  OBVIOUS
<1>5. x \in Seq(NodeIds) /\ y \in Seq(NodeIds) /\ z \in Seq(NodeIds)
      /\ x \in Seq(Nat) /\ y \in Seq(Nat) /\ z \in Seq(Nat)
  BY <1>2 DEF x, y, z
<1>6. /\ Len(<<x, y, z, z>>) = 4 /\ <<x, y, z, z>>[1] = x /\ <<x, y, z, z>>[2] = y
      /\ <<x, y, z, z>>[3] = z /\ <<x, y, z, z>>[4] = z
  OBVIOUS
<1>7. <<x, y, z, z>> \in Seq(Seq(NodeIds)) /\ <<x, y, z, z>> \in Seq(Seq(Nat))
  BY <1>4, <1>5
<1> QED BY <1>3, <1>6, <1>7 DEF x, y, z

LEMMA HeaderGood == Good(Header, {}) /\ Shape(Header.nodes, Header.kids) /\ ~Header.err
<1>0. 1 .. 4 = {1, 2, 3, 4} /\ Ids(Header) = 1 .. 4
  BY HeaderNodes DEF Ids
<1>1. Header.err = FALSE /\ Header.calls = 4
      /\ Header = [nodes |-> Header.nodes, kids |-> Header.kids, err |-> FALSE, calls |-> 4]
  BY DEF Header
<1>2. Arena(Header)
  <2>1. 4 <= AST_CAP
    BY ParserAssumption DEF Body
  <2>2. Header \in [nodes : Seq(NodeType), kids : Seq(Seq(NodeIds)), err : BOOLEAN, calls : Nat]
    <3>1. \A x \in Seq(NodeType), y \in Seq(Seq(NodeIds)) :
            [nodes |-> x, kids |-> y, err |-> FALSE, calls |-> 4]
              \in [nodes : Seq(NodeType), kids : Seq(Seq(NodeIds)), err : BOOLEAN, calls : Nat]
      OBVIOUS
    <3>2. Header.nodes \in Seq(NodeType) /\ Header.kids \in Seq(Seq(NodeIds))
      BY HeaderNodes, HeaderKids
    <3> QED BY <1>1, <3>1, <3>2, Zenon
  <2> QED BY <1>0, <1>1, <2>1, <2>2, HeaderNodes, HeaderKids DEF Arena
<1>3. Ranked(Header)
  <2> DEFINE r == [i \in 1 .. 4 |-> 5 - i]
  <2>1. r \in [1 .. 4 -> 1 .. 4] /\ (\A m, n \in 1 .. 4 : r[m] = r[n] => m = n) /\ r[4] < r[3]
    OBVIOUS
  <2> HIDE DEF r
  <2>2. \A n \in 1 .. 4 : Header.nodes[n].next # 0 => r[Header.nodes[n].next] < r[n]
    BY <1>0, <2>1, HeaderNodes
  <2>3. Ranking(Header, r)
    BY <1>0, <2>1, <2>2 DEF Ranking
  <2> QED BY <2>3 DEF Ranked
<1>4. Shape(Header.nodes, Header.kids)
  <2>1. \A p \in 1 .. 4 : Chained(Header.nodes, Header.nodes[p].child, Header.kids[p])
    <3>1. Chained(Header.nodes, 2, <<2>>)
      <4>1. <<2>> \in Seq(Nat) /\ Len(<<2>>) = 1 /\ <<2>>[1] = 2 /\ 1 .. 1 = {1}
        OBVIOUS
      <4> QED BY <4>1, HeaderNodes DEF Chained
    <3>2. Chained(Header.nodes, 3, <<3, 4>>)
      <4>1. <<3, 4>> \in Seq(Nat) /\ Len(<<3, 4>>) = 2 /\ <<3, 4>>[1] = 3 /\ <<3, 4>>[2] = 4 /\ 1 .. 2 = {1, 2}
        OBVIOUS
      <4> QED BY <4>1, HeaderNodes DEF Chained
    <3>3. Chained(Header.nodes, 0, << >>)
      <4>1. << >> \in Seq(Nat) /\ Len(<< >>) = 0 /\ 1 .. 0 = {}
        OBVIOUS
      <4> QED BY <4>1 DEF Chained
    <3> QED BY <1>0, <3>1, <3>2, <3>3, HeaderNodes, HeaderKids
  <2>2. \A p, q \in 1 .. 4 : \A i \in 1 .. Len(Header.kids[p]), j \in 1 .. Len(Header.kids[q]) :
          Header.kids[p][i] = Header.kids[q][j] => p = q /\ i = j
    <3>1. /\ Len(<<2>>) = 1 /\ <<2>>[1] = 2 /\ Len(<<3, 4>>) = 2 /\ <<3, 4>>[1] = 3 /\ <<3, 4>>[2] = 4
          /\ Len(<< >>) = 0 /\ 1 .. 0 = {} /\ 1 .. 1 = {1} /\ 1 .. 2 = {1, 2}
      OBVIOUS
    <3>2. \A p \in 1 .. 4 : \A i \in 1 .. Len(Header.kids[p]) :
            (p = 1 /\ i = 1 /\ Header.kids[p][i] = 2) \/ (p = 2 /\ i = 1 /\ Header.kids[p][i] = 3)
              \/ (p = 2 /\ i = 2 /\ Header.kids[p][i] = 4)
      <4>1. \A i \in 1 .. Len(Header.kids[1]) : i = 1 /\ Header.kids[1][i] = 2
        BY <3>1, HeaderKids
      <4>2. \A i \in 1 .. Len(Header.kids[2]) :
              (i = 1 /\ Header.kids[2][i] = 3) \/ (i = 2 /\ Header.kids[2][i] = 4)
        <5>1. Len(Header.kids[2]) = 2 /\ Header.kids[2][1] = 3 /\ Header.kids[2][2] = 4
          BY <3>1, HeaderKids
        <5> QED BY <3>1, <5>1
      <4>3. 1 .. Len(Header.kids[3]) = {} /\ 1 .. Len(Header.kids[4]) = {}
        BY <3>1, HeaderKids
      <4> QED BY <1>0, <4>1, <4>2, <4>3
    <3> QED BY <3>2
  <2> QED BY <2>1, <2>2, HeaderNodes, HeaderKids DEF Shape
<1> QED BY <1>1, <1>2, <1>3, <1>4 DEF Good

LEMMA ParserStarts ==
  ASSUME Init
  PROVE  ParserInv
<1> DEFINE f == Frame("fn", 0, 0, Body, 0)
           fs == <<f>>
<1>1. /\ ast = Header /\ ast_block_node = Body /\ tmp_ast_a = 0 /\ frames = fs
      /\ returned = 0 /\ phase = "parsing" /\ tokens = 0 /\ plain = TRUE
  BY DEF Init
<1>2. /\ f \in FrameType(4) /\ Held(f) = {} /\ Distinct(f) /\ Blocked(f) /\ ~Waits(f)
      /\ f.kind = "fn" /\ f.block = 4
  BY DEF f, Frame, FrameType, FrameKinds, Held, Distinct, Blocked, Waits, Body
<1> HIDE DEF f
<1>3. Len(fs) = 1 /\ fs[1] = f /\ 1 .. 1 = {1} /\ 2 .. 1 = {} /\ fs \in Seq(FrameType(4)) /\ fs # << >>
  BY <1>2
<1> HIDE DEF fs
<1>4. HeldAll(fs) = {} /\ ~Waiting(fs) /\ Complete(fs) /\ TempOf(fs, 0) /\ Nested(fs, 4)
  <2>1. HeldAll(fs) = {}
    BY <1>2, <1>3 DEF HeldAll
  <2>2. ~Waiting(fs) /\ Complete(fs) /\ TempOf(fs, 0)
    BY <1>2, <1>3 DEF Waiting, Complete, TempOf
  <2>3. Nested(fs, 4)
    BY <1>2, <1>3 DEF Nested
  <2> QED BY <2>1, <2>2, <2>3
<1>5. Stack(fs, 4)
  BY <1>2, <1>3 DEF Stack
<1>6. Needed(Header, fs, 0, 0, TRUE) = {}
  BY <1>4 DEF Needed
<1>7. Keep(Header, fs, Body, 0, 0, TRUE)
  <2>1. Good(Header, Needed(Header, fs, 0, 0, TRUE)) /\ Stack(fs, Len(Header.nodes))
    BY <1>5, <1>6, HeaderGood, HeaderNodes
  <2>2. /\ Body <= Len(Header.nodes) /\ Body \in 0 .. Len(Header.nodes) /\ 0 \in 0 .. Len(Header.nodes)
        /\ Body = 4
    BY HeaderNodes DEF Body
  <2>3. 0 \notin HeldAll(fs) /\ Nested(fs, Body) /\ TempOf(fs, 0) /\ Complete(fs)
    BY <1>4, <2>2
  <2>4. Shape(Header.nodes, Header.kids)
    BY HeaderGood
  <2> QED BY <2>1, <2>2, <2>3, <2>4 DEF Keep
<1>8. Settled(Header, fs, Body, 0, 0, TRUE)
  BY <1>7, KeepSettled
<1>9. 0 \in 0 .. MaxTokens /\ TRUE \in BOOLEAN
  BY ParserAssumption
<1> QED BY <1>1, <1>7, <1>8, <1>9 DEF ParserInv

-----------------------------------------------------------------------------
LEMMA SequenceOf ==
  ASSUME NEW S, NEW T, NEW s \in Seq(S), \A i \in 1 .. Len(s) : s[i] \in T
  PROVE  s \in Seq(T)
OBVIOUS

(* Every step keeps the invariant. *)
LEMMA ParserGoesOn ==
  ASSUME ParserInv, [Next]_vars
  PROVE  ParserInv'
<1>1. CASE UNCHANGED vars
  BY <1>1 DEF ParserInv, vars
<1>2. CASE \E checked \in BOOLEAN : ExprStmt(checked)
  BY <1>2, ExprStmtKeeps
<1>3. CASE parse_break_stmt
  BY <1>3, BreakKeeps
<1>4. CASE parse_assign_stmt
  <2>1. Token /\ NamedStmt(ast, TRUE) /\ TRUE \in BOOLEAN
    BY <1>4 DEF parse_assign_stmt
  <2> QED BY <2>1, NamedKeeps
<1>5. CASE \E init \in BOOLEAN : parse_decl_stmt(init)
  <2>1. PICK init \in BOOLEAN : Token /\ NamedStmt(ast, init)
    BY <1>5 DEF parse_decl_stmt
  <2> QED BY <2>1, NamedKeeps
<1>6. CASE \E size \in ArraySizes : ArrayDecl(size)
  BY <1>6, ArrayKeeps
<1>7. CASE parse_call_stmt
  BY <1>7, CallKeeps
<1>8. CASE \E kind \in {"if", "while"} : OpenWithCondition(kind)
  BY <1>8, ConditionKeeps
<1>9. CASE OpenLoop
  BY <1>9, LoopKeeps
<1>10. CASE OpenUnsafe
  BY <1>10, UnsafeOpens
<1>11. CASE EndIf
  <2>1. /\ Token /\ Top.kind = "if" /\ "if" \in {"if", "while"}
        /\ Finish("if", ast, <<Top.cond, Top.block>>, <<Top.cond, Top.block>>)
        /\ UNCHANGED <<tmp_ast_a, returned, phase, plain>>
    BY <1>11 DEF EndIf
  <2> QED BY <2>1, EndPairKeeps
<1>12. CASE Else
  BY <1>12, ElseKeeps
<1>13. CASE Elif
  BY <1>13, ElifKeeps
<1>14. CASE \E t \in Terminators : EndFunction(t)
  BY <1>14, EndFunctionKeeps
<1>15. CASE \E t \in Terminators : EndElse(t)
  BY <1>15, EndElseKeeps
<1>16. CASE \E t \in Terminators : EndWhile(t)
  <2>1. /\ Token /\ Top.kind = "while" /\ "while" \in {"if", "while"}
        /\ Finish("while", ast, <<Top.cond, Top.block>>, <<Top.cond, Top.block>>)
        /\ UNCHANGED <<tmp_ast_a, returned, phase, plain>>
    BY <1>16 DEF EndWhile
  <2> QED BY <2>1, EndPairKeeps
<1>17. CASE \E t \in Terminators : EndLoop(t)
  BY <1>17, EndLoopKeeps
<1>18. CASE \E t \in Terminators : EndUnsafe(t)
  BY <1>18, EndUnsafeKeeps
<1>19. CASE \E t \in Terminators : EndTail(t)
  BY <1>19, EndTailKeeps
<1>20. CASE ResumeTail
  BY <1>20, ResumeTailKeeps
<1>21. CASE ResumeIf
  BY <1>21, ResumeIfKeeps
<1> QED
  BY <1>1, <1>2, <1>3, <1>4, <1>5, <1>6, <1>7, <1>8, <1>9, <1>10, <1>11, <1>12, <1>13, <1>14,
     <1>15, <1>16, <1>17, <1>18, <1>19, <1>20, <1>21 DEF Next

(* The invariant of the parser is inductive: while the parse goes on, the  *)
(* nodes that the handlers, parse_elif_tail's result and, as long as it can*)
(* be trusted, tmp_ast_a stand for are free and distinct, sibling links    *)
(* fall in a rank, and a tree no handler lost is the one that was written. *)
THEOREM ParserInvariant == Spec => []ParserInv
<1>1. Init => ParserInv
  BY ParserStarts
<1>2. ParserInv /\ [Next]_vars => ParserInv'
  BY ParserGoesOn
<1> QED BY <1>1, <1>2, PTL DEF Spec

(* The variables keep their types: the arena never outgrows AST_CAP, and   *)
(* every link, every frame and every global names a node of it or none.    *)
THEOREM ParserTypeCorrect == Spec => []ParserTypeOK
<1>1. ParserInv => ParserTypeOK
  <2> SUFFICES ASSUME ParserInv PROVE ParserTypeOK
    OBVIOUS
  <2>1. Settled(ast, frames, ast_block_node, tmp_ast_a, returned, plain)
    BY DEF ParserInv
  <2>2. Arena(ast)
    BY <2>1 DEF Settled, Good
  <2>3. /\ ast.kids \in Seq(Seq(NodeIds)) /\ Len(ast.kids) = Len(ast.nodes)
        /\ ast.err \in BOOLEAN /\ ast.calls \in Nat
        /\ Len(ast.nodes) \in Nat /\ Len(ast.nodes) <= AST_CAP /\ AST_CAP \in Nat
    BY <2>2, ArenaParts DEF Arena
  <2>4. 0 .. Len(ast.nodes) \subseteq NodeIds
    BY <2>3 DEF NodeIds
  <2>5. ast.nodes \in Seq([kind : NodeKinds, child : NodeIds, next : NodeIds])
    <3>1. \A i \in 1 .. Len(ast.nodes) :
            ast.nodes[i] \in [kind : NodeKinds, child : NodeIds, next : NodeIds]
      <4> SUFFICES ASSUME NEW i \in 1 .. Len(ast.nodes)
                   PROVE  ast.nodes[i] \in [kind : NodeKinds, child : NodeIds, next : NodeIds]
        OBVIOUS
      <4> DEFINE n == ast.nodes[i]
      <4>1. n \in NodeType /\ n.child \in NodeIds /\ n.next \in NodeIds
        BY <2>2, <2>4, ArenaParts DEF Arena, Ids
      <4> HIDE DEF n
      <4>2. n \in [kind : NodeKinds, child : NodeIds, next : NodeIds]
        BY <4>1 DEF NodeType
      <4> QED BY <4>2 DEF n
    <3>2. ast.nodes \in Seq(NodeType)
      BY <2>2, ArenaParts
    <3> QED BY <3>1, <3>2, SequenceOf
  <2>6. frames \in Seq([kind : FrameKinds, rbx : NodeIds, cond : NodeIds, block : NodeIds,
                        then : NodeIds])
    <3>1. frames \in Seq(FrameType(Len(ast.nodes)))
      BY <2>1 DEF Settled, Stack
    <3>2. FrameType(Len(ast.nodes)) \subseteq
            [kind : FrameKinds, rbx : NodeIds, cond : NodeIds, block : NodeIds, then : NodeIds]
      BY <2>4 DEF FrameType
    <3> QED BY <3>1, <3>2, SeqMonotonic
  <2>7. {ast_block_node, tmp_ast_a, returned} \subseteq NodeIds
    BY <2>1, <2>4 DEF Settled
  <2> QED BY <2>3, <2>5, <2>6, <2>7 DEF ParserTypeOK, ParserInv
<1> QED BY <1>1, ParserInvariant, PTL

(* In functions whose array sizes, where a handler takes one for a node,   *)
(* name one that is there and has nodes for children (NamesNode), or none: *)
(* ast_append_child always comes to the end of the chain it walks.  No     *)
(* sequence of such statements and terminators closes a ring of siblings,  *)
(* whatever registers and globals the handlers lost on the way.  Nothing   *)
(* is said of other sizes, with which the code appends to a node created   *)
(* later, to memory past the arena, or behind the node that has the index  *)
(* of a token.                                                             *)
THEOREM ChainsAlwaysEnd == Spec => []ChainsEnd
<1>1. ParserInv => ChainsEnd
  <2> SUFFICES ASSUME ParserInv, NEW i \in Ids(ast) PROVE ChainEnds(ast, ast.nodes[i].child)
    BY DEF ChainsEnd
  <2>1. Arena(ast) /\ Ranked(ast)
    BY DEF ParserInv, Settled, Good
  <2>2. ast.nodes[i].child \in 0 .. Len(ast.nodes)
    BY <2>1 DEF Arena
  <2> QED BY <2>1, <2>2, WalkEnds
<1> QED BY <1>1, ParserInvariant, PTL

(* As long as no handler's state was overwritten and the arena had room,   *)
(* the children of every node are the ones the program put there, in order.*)
THEOREM TreeIsAsWritten == Spec => []TreeAsWritten
<1>1. ParserInv => TreeAsWritten
  <2> SUFFICES ASSUME ParserInv, plain, ~ast.err, NEW i \in Ids(ast)
               PROVE  Children(ast, i) = ast.kids[i]
    BY DEF TreeAsWritten
  <2>1. Arena(ast) /\ Ranked(ast) /\ Shape(ast.nodes, ast.kids)
    BY DEF ParserInv, Settled, Good
  <2>2. ast.nodes[i].child \in 0 .. Len(ast.nodes)
    BY <2>1 DEF Arena
  <2>3. Chained(ast.nodes, ast.nodes[i].child, ast.kids[i])
    BY <2>1 DEF Shape, Ids
  <2> QED BY <2>1, <2>2, <2>3, ChainListed DEF Children
<1> QED BY <1>1, ParserInvariant, PTL

(* A program is accepted only when every node that was asked for is in the *)
(* arena: an overflow no handler looked at is still seen at the end.       *)
THEOREM AcceptedAreComplete == Spec => []AcceptedIsComplete
<1>1. ParserInv => AcceptedIsComplete
  BY DEF ParserInv, AcceptedIsComplete, Settled, Good, Arena
<1> QED BY <1>1, ParserInvariant, PTL
=============================================================================
