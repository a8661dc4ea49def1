--------------------------- MODULE Stage0BuildProofs ---------------------------
(***************************************************************************)
(* What is proved of the commands of the Rust stage-0 compiler: that the   *)
(* package a process loads is the one surf.pkg says, that a build nobody   *)
(* disturbed leaves what it was asked for, and that an init which ends     *)
(* well leaves a package.                                                  *)
(***************************************************************************)
EXTENDS Stage0Build, Integers, FiniteSetTheorems, NaturalsInduction, WellFoundedInduction, TLAPS

(* Every set of numbers that is not empty has a least one. *)
Less == OpToRel(<, Nat)
LEMMA LeastOf ==
  ASSUME NEW S \in SUBSET Nat, S # {}
  PROVE  \E m \in S : \A k \in S : m <= k
<1>1. IsWellFoundedOn(Less, Nat)
  BY NatLessThanWellFounded DEF Less
<1>2. PICK m \in S : \A k \in S : ~(<<k, m>> \in Less)
  BY <1>1, WFMin, Zenon
<1>3. \A k \in S : ~(k < m)
  BY <1>2 DEF Less, OpToRel
<1> QED BY <1>3
-----------------------------------------------------------------------------
(* Reading the lines: f holds what is known behind each of the first m. *)
IsRead(f, lines, m) ==
  f = [n \in 0 .. m |-> IF n = 0 THEN Blank ELSE parse_line(f[n - 1], lines[n])]

(* There is such a function for every number of lines. *)
LEMMA ReadExists ==
  ASSUME NEW lines, NEW m \in Nat
  PROVE  \E f : IsRead(f, lines, m)
<1> DEFINE Short == {k \in Nat : ~ \E f : IsRead(f, lines, k)}
<1>1. SUFFICES ASSUME Short # {} PROVE FALSE
  OBVIOUS
<1>2. PICK k \in Short : \A j \in Short : k <= j
  BY <1>1, LeastOf, Zenon
<1>3. CASE k = 0
  <2> DEFINE f == [n \in 0 .. k |-> Blank]
  <2>1. IsRead(f, lines, k)
    BY <1>3 DEF IsRead
  <2> QED BY <2>1, <1>2
<1>4. CASE k # 0
  <2>1. k - 1 \in Nat /\ k - 1 < k /\ k \in Nat
    BY <1>2, <1>4
  <2>2. k - 1 \notin Short
    BY <2>1, <1>2
  <2>3. PICK f : IsRead(f, lines, k - 1)
    BY <2>1, <2>2
  <2> DEFINE g == [n \in 0 .. k |-> IF n = k THEN parse_line(f[k - 1], lines[k]) ELSE f[n]]
  <2>4. ASSUME NEW n \in 0 .. k
        PROVE  g[n] = IF n = 0 THEN Blank ELSE parse_line(g[n - 1], lines[n])
    <3>1. CASE n = k
      BY <3>1, <2>1, <1>4
    <3>2. CASE n # k
      <4>1. n \in 0 .. k - 1
        BY <3>2, <2>1
      <4>2. f[n] = IF n = 0 THEN Blank ELSE parse_line(f[n - 1], lines[n])
        BY <4>1, <2>3 DEF IsRead
      <4>3. n # 0 => n - 1 \in 0 .. k /\ n - 1 # k
        BY <2>1
      <4> QED BY <3>2, <4>2, <4>3
    <3> QED BY <3>1, <3>2
  <2>5. IsRead(g, lines, k)
    BY <2>4 DEF IsRead
  <2> QED BY <2>5, <1>2
<1> QED BY <1>3, <1>4

(* read_lines is the last value of one. *)
LEMMA ReadLines ==
  ASSUME NEW lines, Len(lines) \in Nat
  PROVE  \E g : IsRead(g, lines, Len(lines)) /\ read_lines(lines) = g[Len(lines)]
<1>1. PICK g : g = CHOOSE h : IsRead(h, lines, Len(lines))
  OBVIOUS
<1>2. IsRead(g, lines, Len(lines))
  BY <1>1, ReadExists
<1> DEFINE rd[n \in 0 .. Len(lines)] == IF n = 0 THEN Blank ELSE parse_line(rd[n - 1], lines[n])
<1>3. rd = g
  BY <1>1 DEF IsRead
<1>4. read_lines(lines) = rd[Len(lines)]
  BY DEF read_lines
<1>5. read_lines(lines) = g[Len(lines)]
  BY <1>3, <1>4
<1> QED BY <1>2, <1>5
-----------------------------------------------------------------------------
(* What is known behind the first n lines: with nothing to report every    *)
(* one of them is well formed, and each field is absent or the last of its *)
(* lines.                                                                  *)
IsPackage(p) ==
  /\ DOMAIN p = {"package", "version", "type", "target", "runtime", "entry", "requires", "deps",
                 "end", "errors"}
  /\ p.errors \in Seq({"E0902"})

FieldKnown(p, lines, n, f) ==
  \/ /\ p[f] = Absent
     /\ \A i \in 1 .. n : lines[i].f # f
  \/ /\ p[f] # Absent
     /\ \E i \in 1 .. n : /\ lines[i].f = f /\ lines[i].v = p[f]
                          /\ \A j \in 1 .. n : lines[j].f = f => j <= i

Required(lines, n, cap) ==
  \E i \in 1 .. n :
    /\ lines[i].f = "requires" /\ cap \in lines[i].v
    /\ \A j \in 1 .. n : lines[j].f = "requires-none" => j < i

Known(p, lines, n) ==
  /\ IsPackage(p)
  /\ p.errors = << >> <=> \A i \in 1 .. n : WellFormed(lines[i])
  /\ p.end \in BOOLEAN
  /\ p.end <=> \E i \in 1 .. n : lines[i].f = "end"
  /\ p.errors = << >> => \A f \in Fields : FieldKnown(p, lines, n, f)
  /\ \A cap : cap \in p.requires <=> Required(lines, n, cap)

LEMMA BlankKnown ==
  ASSUME NEW lines
  PROVE  Known(Blank, lines, 0)
<1>1. 1 .. 0 = {}
  OBVIOUS
<1>2. IsPackage(Blank)
  BY DEF IsPackage, Blank
<1>3. \A f \in Fields : FieldKnown(Blank, lines, 0, f)
  BY <1>1 DEF FieldKnown, Blank, Fields
<1>4. \A cap : cap \in Blank.requires <=> Required(lines, 0, cap)
  BY <1>1 DEF Required, Blank
<1> QED BY <1>1, <1>2, <1>3, <1>4 DEF Known, Blank

(* A field keeps what is known of it behind a line of another field.       *)
LEMMA FieldStays ==
  ASSUME NEW p, NEW q, NEW lines, NEW n \in Nat, NEW f,
         FieldKnown(p, lines, n, f), q[f] = p[f], lines[n + 1].f # f
  PROVE  FieldKnown(q, lines, n + 1, f)
<1>1. \A i \in 1 .. n + 1 : i \in 1 .. n \/ i = n + 1
  OBVIOUS
<1>2. \A i \in 1 .. n : i \in 1 .. n + 1
  OBVIOUS
<1>3. CASE p[f] = Absent /\ \A i \in 1 .. n : lines[i].f # f
  BY <1>1, <1>3 DEF FieldKnown
<1>4. CASE p[f] # Absent
  <2>1. PICK i \in 1 .. n : /\ lines[i].f = f /\ lines[i].v = p[f]
                            /\ \A j \in 1 .. n : lines[j].f = f => j <= i
    BY <1>4 DEF FieldKnown
  <2>2. \A j \in 1 .. n + 1 : lines[j].f = f => j <= i
    BY <2>1, <1>1
  <2> QED BY <1>2, <1>4, <2>1, <2>2 DEF FieldKnown
<1> QED BY <1>3, <1>4 DEF FieldKnown

(* It is the value of a line of its own behind that line.                  *)
LEMMA FieldReplaced ==
  ASSUME NEW q, NEW lines, NEW n \in Nat, NEW f,
         lines[n + 1].f = f, q[f] = lines[n + 1].v, q[f] # Absent
  PROVE  FieldKnown(q, lines, n + 1, f)
<1>1. n + 1 \in 1 .. n + 1 /\ \A j \in 1 .. n + 1 : j <= n + 1
  OBVIOUS
<1> QED BY <1>1 DEF FieldKnown

(* The capabilities behind a line that requires some, one that requires    *)
(* none and one of another field.                                          *)
LEMMA RequiredBehind ==
  ASSUME NEW lines, NEW n \in Nat, NEW cap
  PROVE  Required(lines, n + 1, cap) <=>
           \/ lines[n + 1].f = "requires" /\ cap \in lines[n + 1].v
           \/ lines[n + 1].f # "requires-none" /\ Required(lines, n, cap)
<1>1. \A i \in 1 .. n + 1 : i \in 1 .. n \/ i = n + 1
  OBVIOUS
<1>2. /\ n + 1 \in 1 .. n + 1
      /\ \A i \in 1 .. n : i \in 1 .. n + 1 /\ i < n + 1 /\ ~(n + 1 < i)
  OBVIOUS
<1>3. ~(n + 1 < n + 1)
  OBVIOUS
<1>4. CASE lines[n + 1].f \notin {"requires", "requires-none"}
  BY <1>1, <1>2, <1>4 DEF Required
<1>5. CASE lines[n + 1].f = "requires-none"
  BY <1>1, <1>2, <1>3, <1>5 DEF Required
<1>6. CASE lines[n + 1].f = "requires"
  BY <1>1, <1>2, <1>6 DEF Required
<1> QED BY <1>4, <1>5, <1>6

LEMMA AppendIsSeq ==
  ASSUME NEW S, NEW s \in Seq(S), NEW e \in S
  PROVE  Append(s, e) \in Seq(S) /\ Append(s, e) # << >>
<1>1. Append(s, e) \in Seq(S) /\ Len(Append(s, e)) = Len(s) + 1 /\ Len(s) \in Nat
  OBVIOUS
<1>2. Len(<< >>) = 0
  OBVIOUS
<1> QED BY <1>1, <1>2

(* A line that is not well formed is reported and changes nothing else.    *)
LEMMA KnownBehindBad ==
  ASSUME NEW p, NEW lines, NEW n \in Nat, Known(p, lines, n),
         ~WellFormed(lines[n + 1]), lines[n + 1].f \notin {"requires", "requires-none", "end"}
  PROVE  Known(Bad(p), lines, n + 1)
<1> DEFINE q == Bad(p)
<1>1. /\ IsPackage(q) /\ q.errors # << >>
      /\ q.end = p.end /\ q.requires = p.requires
  <2>1. IsPackage(p)
    BY DEF Known
  <2>2. /\ DOMAIN q = DOMAIN p
        /\ q.errors = Append(p.errors, "E0902")
        /\ q.end = p.end /\ q.requires = p.requires
    BY <2>1 DEF IsPackage, Bad
  <2>3. /\ Append(p.errors, "E0902") \in Seq({"E0902"})
        /\ Append(p.errors, "E0902") # << >>
    <3>1. p.errors \in Seq({"E0902"}) /\ "E0902" \in {"E0902"}
      BY <2>1 DEF IsPackage
    <3> QED BY <3>1, AppendIsSeq, Zenon
  <2> HIDE DEF q
  <2> QED BY <2>1, <2>2, <2>3 DEF IsPackage
<1>2. \A i \in 1 .. n + 1 : i \in 1 .. n \/ i = n + 1
  OBVIOUS
<1>3. n + 1 \in 1 .. n + 1 /\ \A i \in 1 .. n : i \in 1 .. n + 1
  OBVIOUS
<1>4. q.end <=> \E i \in 1 .. n + 1 : lines[i].f = "end"
  BY <1>1, <1>2, <1>3 DEF Known
<1>5. \A cap : cap \in q.requires <=> Required(lines, n + 1, cap)
  BY <1>1, RequiredBehind DEF Known
<1> QED BY <1>1, <1>3, <1>4, <1>5 DEF Known

(* A line that is well formed sets its own field and no other.             *)
LEMMA KnownBehindGood ==
  ASSUME NEW p, NEW q, NEW lines, NEW n \in Nat, NEW line, line = lines[n + 1],
         Known(p, lines, n), IsPackage(q), WellFormed(line), q.errors = p.errors,
         q.end = IF line.f = "end" THEN TRUE ELSE p.end,
         q.requires = IF line.f = "requires-none" THEN {}
                      ELSE IF line.f = "requires" THEN p.requires \cup line.v ELSE p.requires,
         \A f \in Fields : IF f = line.f THEN q[f] = line.v /\ line.v # Absent ELSE q[f] = p[f]
  PROVE  Known(q, lines, n + 1)
<1>1. \A i \in 1 .. n + 1 : i \in 1 .. n \/ i = n + 1
  OBVIOUS
<1>2. n + 1 \in 1 .. n + 1 /\ \A i \in 1 .. n : i \in 1 .. n + 1
  OBVIOUS
<1>3. q.end \in BOOLEAN /\ (q.end <=> \E i \in 1 .. n + 1 : lines[i].f = "end")
  BY <1>1, <1>2 DEF Known
<1>4. q.errors = << >> <=> \A i \in 1 .. n + 1 : WellFormed(lines[i])
  BY <1>1, <1>2 DEF Known
<1>5. \A cap : cap \in q.requires <=> Required(lines, n + 1, cap)
  <2> SUFFICES ASSUME NEW cap PROVE cap \in q.requires <=> Required(lines, n + 1, cap)
    OBVIOUS
  <2>1. cap \in p.requires <=> Required(lines, n, cap)
    BY DEF Known
  <2>2. CASE line.f \notin {"requires", "requires-none"}
    BY <2>1, <2>2, RequiredBehind
  <2>3. CASE line.f = "requires-none"
    BY <2>1, <2>3, RequiredBehind
  <2>4. CASE line.f = "requires"
    BY <2>1, <2>4, RequiredBehind
  <2> QED BY <2>2, <2>3, <2>4
<1>6. ASSUME q.errors = << >>, NEW f \in Fields
      PROVE  FieldKnown(q, lines, n + 1, f)
  <2>1. CASE f = line.f
    BY <2>1, FieldReplaced
  <2>2. CASE f # line.f
    <3>1. FieldKnown(p, lines, n, f) /\ q[f] = p[f]
      BY <1>6, <2>2 DEF Known
    <3> QED BY <2>2, <3>1, FieldStays
  <2> QED BY <2>1, <2>2
<1> QED BY <1>3, <1>4, <1>5, <1>6 DEF Known

(* What one line does, field by field.                                     *)
LEMMA ParseLine ==
  ASSUME NEW p, NEW line
  PROVE
    /\ line.f = "package"
         => parse_line(p, line) = [p EXCEPT !.package = line.v]
    /\ line.f = "target"
         => parse_line(p, line) = [p EXCEPT !.target = line.v]
    /\ line.f = "runtime"
         => parse_line(p, line) = [p EXCEPT !.runtime = line.v]
    /\ line.f = "entry"
         => parse_line(p, line) = [p EXCEPT !.entry = line.v]
    /\ line.f = "version" /\ line.v = "semver"
         => parse_line(p, line) = [p EXCEPT !.version = line.v]
    /\ line.f = "version" /\ line.v # "semver"
         => parse_line(p, line) = Bad(p)
    /\ line.f = "type" /\ line.v \in Types
         => parse_line(p, line) = [p EXCEPT !.type = line.v]
    /\ line.f = "type" /\ line.v \notin Types
         => parse_line(p, line) = Bad(p)
    /\ line.f = "requires-none"
         => parse_line(p, line) = [p EXCEPT !.requires = {}]
    /\ line.f = "requires"
         => parse_line(p, line) = [p EXCEPT !.requires = p.requires \cup line.v]
    /\ line.f = "dep" /\ line.v = "semver"
         => parse_line(p, line) = [p EXCEPT !.deps = p.deps + 1]
    /\ line.f = "dep" /\ line.v # "semver"
         => parse_line(p, line) = Bad(p)
    /\ line.f = "end"
         => parse_line(p, line) = [p EXCEPT !.end = TRUE]
    /\ line.f \in Ignored
         => parse_line(p, line) = p
    /\ line.f \notin {"package", "target", "runtime", "entry", "version", "type", "requires", "requires-none",
                      "dep", "end"} \cup Ignored
         => parse_line(p, line) = Bad(p)
<1> DEFINE named == [p EXCEPT ![line.f] = line.v]
           version == IF line.v = "semver" THEN [p EXCEPT !.version = line.v] ELSE Bad(p)
           type == IF line.v \in Types THEN [p EXCEPT !.type = line.v] ELSE Bad(p)
           none == [p EXCEPT !.requires = {}]
           requires == [p EXCEPT !.requires = p.requires \cup line.v]
           dep == IF line.v = "semver" THEN [p EXCEPT !.deps = p.deps + 1] ELSE Bad(p)
           end == [p EXCEPT !.end = TRUE]
           bad == Bad(p)
<1>1. parse_line(p, line) =
        CASE line.f \in {"package", "target", "runtime", "entry"} -> named
          [] line.f = "version" -> version
          [] line.f = "type" -> type
          [] line.f = "requires-none" -> none
          [] line.f = "requires" -> requires
          [] line.f = "dep" -> dep
          [] line.f = "end" -> end
          [] line.f \in Ignored -> p
          [] OTHER -> bad
  BY DEF parse_line
<1>2. /\ line.f = "package" => named = [p EXCEPT !.package = line.v]
      /\ line.f = "target" => named = [p EXCEPT !.target = line.v]
      /\ line.f = "runtime" => named = [p EXCEPT !.runtime = line.v]
      /\ line.f = "entry" => named = [p EXCEPT !.entry = line.v]
  OBVIOUS
<1>3. /\ line.v = "semver" => version = [p EXCEPT !.version = line.v] /\ dep = [p EXCEPT !.deps = p.deps + 1]
      /\ line.v # "semver" => version = Bad(p) /\ dep = Bad(p)
  OBVIOUS
<1>4. /\ line.v \in Types => type = [p EXCEPT !.type = line.v]
      /\ line.v \notin Types => type = Bad(p)
  OBVIOUS
<1> HIDE DEF named, version, type, none, requires, dep, end, bad
<1>5. /\ line.f \in {"package", "target", "runtime", "entry"} => parse_line(p, line) = named
      /\ line.f = "version" => parse_line(p, line) = version
      /\ line.f = "type" => parse_line(p, line) = type
      /\ line.f = "requires-none" => parse_line(p, line) = none
      /\ line.f = "requires" => parse_line(p, line) = requires
      /\ line.f = "dep" => parse_line(p, line) = dep
      /\ line.f = "end" => parse_line(p, line) = end
      /\ line.f \in Ignored => parse_line(p, line) = p
      /\ line.f \notin {"package", "target", "runtime", "entry", "version", "type", "requires",
                        "requires-none", "dep", "end"} \cup Ignored => parse_line(p, line) = bad
  BY <1>1 DEF Ignored
<1> QED
  BY <1>2, <1>3, <1>4, <1>5 DEF none, requires, end, bad

(* One round of the loop.                                                  *)
LEMMA ParseKnown ==
  ASSUME NEW p, NEW lines, NEW n \in Nat, NEW line, line = lines[n + 1],
         Known(p, lines, n), HasValues(line), Absent \notin Names
  PROVE  Known(parse_line(p, line), lines, n + 1)
<1> DEFINE q == parse_line(p, line)
<1>1. IsPackage(p)
  BY DEF Known
<1>2. CASE ~WellFormed(line)
  <2>1. q = Bad(p) /\ line.f \notin {"requires", "requires-none", "end"}
    BY <1>2, ParseLine DEF WellFormed
  <2> QED BY <1>2, <2>1, KnownBehindBad
<1>3. CASE WellFormed(line)
  <2>1. line.f \in {"package", "target", "runtime", "entry", "requires", "requires-none", "end", "version",
                   "dep", "type"} \cup Ignored
    BY <1>3 DEF WellFormed
  <2>2. line.f \in {"package", "target", "runtime", "entry"} => line.v # Absent
    BY DEF HasValues
  <2>3. CASE line.f = "package"
    <3>1. q = [p EXCEPT !.package = line.v]
      BY <2>3, ParseLine
    <3> QED BY <1>1, <1>3, <2>2, <2>3, <3>1, KnownBehindGood DEF IsPackage, Fields
  <2>4. CASE line.f = "target"
    <3>1. q = [p EXCEPT !.target = line.v]
      BY <2>4, ParseLine
    <3> QED BY <1>1, <1>3, <2>2, <2>4, <3>1, KnownBehindGood DEF IsPackage, Fields
  <2>5. CASE line.f = "runtime"
    <3>1. q = [p EXCEPT !.runtime = line.v]
      BY <2>5, ParseLine
    <3> QED BY <1>1, <1>3, <2>2, <2>5, <3>1, KnownBehindGood DEF IsPackage, Fields
  <2>6. CASE line.f = "entry"
    <3>1. q = [p EXCEPT !.entry = line.v]
      BY <2>6, ParseLine
    <3> QED BY <1>1, <1>3, <2>2, <2>6, <3>1, KnownBehindGood DEF IsPackage, Fields
  <2>7. CASE line.f = "requires"
    <3>1. q = [p EXCEPT !.requires = p.requires \cup line.v]
      BY <2>7, ParseLine
    <3> QED BY <1>1, <1>3, <2>2, <2>7, <3>1, KnownBehindGood DEF IsPackage, Fields
  <2>13. CASE line.f = "requires-none"
    <3>1. q = [p EXCEPT !.requires = {}]
      BY <2>13, ParseLine
    <3> QED BY <1>1, <1>3, <2>2, <2>13, <3>1, KnownBehindGood DEF IsPackage, Fields
  <2>8. CASE line.f = "end"
    <3>1. q = [p EXCEPT !.end = TRUE]
      BY <2>8, ParseLine
    <3> QED BY <1>1, <1>3, <2>2, <2>8, <3>1, KnownBehindGood DEF IsPackage, Fields
  <2>9. CASE line.f = "version"
    <3>1. q = [p EXCEPT !.version = line.v] /\ line.v # Absent
      BY <1>3, <2>9, ParseLine DEF WellFormed, Absent
    <3> QED BY <1>1, <1>3, <2>2, <2>9, <3>1, KnownBehindGood DEF IsPackage, Fields
  <2>10. CASE line.f = "type"
    <3>1. q = [p EXCEPT !.type = line.v] /\ line.v # Absent
      BY <1>3, <2>10, ParseLine DEF WellFormed, Types, Absent
    <3> QED BY <1>1, <1>3, <2>2, <2>10, <3>1, KnownBehindGood DEF IsPackage, Fields
  <2>11. CASE line.f = "dep"
    <3>1. q = [p EXCEPT !.deps = p.deps + 1]
      BY <1>3, <2>11, ParseLine DEF WellFormed
    <3> QED BY <1>1, <1>3, <2>2, <2>11, <3>1, KnownBehindGood DEF IsPackage, Fields
  <2>12. CASE line.f \in Ignored
    <3>1. q = p
      BY <2>12 DEF parse_line, Ignored
    <3>2. line.f \notin Fields \cup {"end", "requires", "requires-none"}
      BY <2>12 DEF Ignored, Fields
    <3> QED BY <1>1, <1>3, <3>1, <3>2, KnownBehindGood DEF IsPackage, Fields
  <2> QED BY <2>1, <2>3, <2>4, <2>5, <2>6, <2>7, <2>8, <2>9, <2>10, <2>11, <2>12,
            <2>13
<1> QED BY <1>2, <1>3

LEMMA ReadKnown ==
  ASSUME NEW lines, Len(lines) \in Nat, \A i \in 1 .. Len(lines) : HasValues(lines[i]),
         Absent \notin Names
  PROVE  Known(read_lines(lines), lines, Len(lines))
<1>1. PICK g : IsRead(g, lines, Len(lines)) /\ read_lines(lines) = g[Len(lines)]
  BY ReadLines
<1> DEFINE Unknown == {n \in Nat : n <= Len(lines) /\ ~Known(g[n], lines, n)}
<1>2. SUFFICES ASSUME Unknown # {} PROVE FALSE
  BY <1>1
<1>3. PICK n \in Unknown : \A k \in Unknown : n <= k
  BY <1>2, LeastOf, Zenon
<1>4. n \in Nat /\ n \in 0 .. Len(lines) /\ ~Known(g[n], lines, n)
  BY <1>3
<1>5. g[n] = IF n = 0 THEN Blank ELSE parse_line(g[n - 1], lines[n])
  BY <1>1, <1>4 DEF IsRead
<1>6. n # 0
  BY <1>4, <1>5, BlankKnown
<1>7. PICK m \in Nat : m = n - 1
  BY <1>4, <1>6
<1>8. m < n /\ m + 1 = n /\ m <= Len(lines) /\ n \in 1 .. Len(lines)
  BY <1>4, <1>7
<1>9. Known(g[m], lines, m)
  BY <1>3, <1>4, <1>8
<1>10. Known(parse_line(g[m], lines[n]), lines, n)
  BY <1>8, <1>9, ParseKnown
<1> QED BY <1>4, <1>5, <1>6, <1>7, <1>10

(* What is missing is asked for, and nothing else.                         *)
LEMMA MissingFields ==
  ASSUME NEW p, p.end \in BOOLEAN
  PROVE  /\ Missing(p) \in Seq({"E0902"})
         /\ Missing(p) = << >> <=> p.end /\ Absentees(p) = {}
<1> DEFINE n == Cardinality(Absentees(p))
           fields == [i \in 1 .. n |-> "E0902"]
<1>1. IsFiniteSet(Fields)
  <2>1. IsFiniteSet({} \cup {"package"})
    BY FS_EmptySet, FS_AddElement
  <2>2. IsFiniteSet(({} \cup {"package"}) \cup {"version"})
    BY <2>1, FS_AddElement
  <2>3. IsFiniteSet((({} \cup {"package"}) \cup {"version"}) \cup {"type"})
    BY <2>2, FS_AddElement
  <2>4. IsFiniteSet(((({} \cup {"package"}) \cup {"version"}) \cup {"type"}) \cup {"target"})
    BY <2>3, FS_AddElement
  <2>5. IsFiniteSet((((({} \cup {"package"}) \cup {"version"}) \cup {"type"}) \cup {"target"})
                      \cup {"runtime"})
    BY <2>4, FS_AddElement
  <2>6. Fields = (((({} \cup {"package"}) \cup {"version"}) \cup {"type"}) \cup {"target"})
                   \cup {"runtime"}
    BY DEF Fields
  <2> QED BY <2>5, <2>6
<1>2. IsFiniteSet(Absentees(p))
  BY <1>1, FS_Subset DEF Absentees
<1>3. n \in Nat /\ (n = 0 <=> Absentees(p) = {})
  BY <1>2, FS_CardinalityType, FS_EmptySet
<1> HIDE DEF n
<1>4. fields \in Seq({"E0902"}) /\ Len(fields) = n
  BY <1>3
<1>5. CASE p.end
  <2>1. If(~p.end, "E0902") = << >>
    BY <1>5 DEF If
  <2>2. Missing(p) = << >> \o fields
    BY <2>1 DEF Missing, n
  <2> HIDE DEF fields
  <2>3. Missing(p) = fields
    BY <1>4, <2>2
  <2>4. fields = << >> <=> n = 0
    BY <1>4
  <2> QED BY <1>3, <1>4, <1>5, <2>3, <2>4
<1>6. CASE ~p.end
  <2>1. If(~p.end, "E0902") = <<"E0902">>
    BY <1>6 DEF If
  <2>2. Missing(p) = <<"E0902">> \o fields
    BY <2>1 DEF Missing, n
  <2> HIDE DEF fields
  <2>3. Missing(p) \in Seq({"E0902"}) /\ Len(Missing(p)) = 1 + n
    BY <1>3, <1>4, <2>2
  <2>4. Missing(p) # << >>
    BY <1>3, <2>3
  <2> QED BY <1>6, <2>3, <2>4
<1> QED BY <1>5, <1>6

(* The package that is loaded from a file of lines.                        *)
LEMMA ParseText ==
  ASSUME NEW lines, NEW s, NEW contents, Len(lines) \in Nat, DOMAIN lines = 1 .. Len(lines),
         \A i \in DOMAIN lines : HasValues(lines[i]), Absent \notin Names,
         NEW pkg, pkg = parse_package_text(lines, s, contents)
  PROVE  /\ pkg.errors = << >> => pkg.package \in Names
         /\ \/ Complete(lines) /\ SaysPackage(lines, pkg) /\ ~Malformed(pkg)
            \/ pkg.errors # << >> /\ Malformed(pkg) /\ ~Complete(lines)
<1> DEFINE p == read_lines(lines)
           all == p.errors \o Missing(p)
<1>1. Known(p, lines, Len(lines))
  BY ReadKnown
<1> HIDE DEF p
<1>2. IsPackage(p)
  BY <1>1 DEF Known
<1>3. /\ Missing(p) \in Seq({"E0902"})
      /\ Missing(p) = << >> <=> p.end /\ Absentees(p) = {}
  BY <1>1, MissingFields DEF Known
<1>4. /\ all \in Seq({"E0902"})
      /\ all = << >> <=> p.errors = << >> /\ Missing(p) = << >>
  BY <1>2, <1>3 DEF IsPackage
<1>5. pkg = [p EXCEPT !.errors =
        CASE all # << >> -> all
          [] all = << >> /\ p.target \notin {"linux-x86_64", "host"} -> <<"E0904">>
          [] all = << >> /\ p.target \in {"linux-x86_64", "host"}
               /\ p.runtime \notin {"tiny", "none"} -> <<"E0904">>
          [] OTHER -> If((~s /\ p.type # "build-script") \/ entry_source(p.type) \notin contents,
                         "E0903")]
  BY DEF p, parse_package_text
<1> HIDE DEF all
<1>6. \A i \in 1 .. Len(lines) : i \in DOMAIN lines
  OBVIOUS
<1>7. CASE all # << >>
  <2>1. pkg = [p EXCEPT !.errors = all]
    BY <1>5, <1>7
  <2>2. pkg.errors = all
    BY <2>1, <1>2 DEF IsPackage
  <2>3. ASSUME p.errors = << >>
        PROVE  \E f \in Fields \cup {"end"} : Lines(lines, f) = {}
    <3>1. ~p.end \/ Absentees(p) # {}
      BY <1>3, <1>4, <1>7, <2>3
    <3>2. CASE ~p.end
      BY <1>1, <3>2 DEF Known, Lines
    <3>3. CASE Absentees(p) # {}
      <4>1. PICK f \in Fields : p[f] = Absent
        BY <3>3 DEF Absentees
      <4>2. FieldKnown(p, lines, Len(lines), f)
        BY <1>1, <2>3 DEF Known
      <4>3. Lines(lines, f) = {}
        BY <4>1, <4>2 DEF FieldKnown, Lines
      <4> QED BY <4>3
    <3> QED BY <3>1, <3>2, <3>3
  <2>4. p.errors # << >> => \E i \in DOMAIN lines : ~WellFormed(lines[i])
    BY <1>1 DEF Known
  <2>5. 1 \in DOMAIN all /\ all[1] = "E0902"
    BY <1>4, <1>7
  <2> QED BY <1>7, <2>2, <2>3, <2>4, <2>5 DEF Malformed, Complete
<1>8. CASE all = << >>
  <2>1. p.errors = << >> /\ p.end /\ Absentees(p) = {}
    BY <1>3, <1>4, <1>8
  <2>2. PICK errors : /\ pkg = [p EXCEPT !.errors = errors]
                      /\ errors \in {<<"E0904">>, <<"E0903">>, << >>}
    BY <1>5, <1>8 DEF If
  <2>3. /\ pkg.errors = errors /\ pkg.requires = p.requires
        /\ \A f \in Fields : pkg[f] = p[f]
    BY <1>2, <2>2 DEF IsPackage, Fields
  <2>4. \A i \in DOMAIN errors : errors[i] # "E0902"
    BY <2>2
  <2>5. ASSUME NEW f \in Fields
        PROVE  /\ SaysField(lines, f, p[f])
               /\ \E i \in DOMAIN lines : lines[i].f = f /\ lines[i].v = p[f]
    <3>1. p[f] # Absent
      BY <2>1 DEF Absentees
    <3>2. PICK i \in 1 .. Len(lines) : /\ lines[i].f = f /\ lines[i].v = p[f]
                                       /\ \A j \in 1 .. Len(lines) : lines[j].f = f => j <= i
      BY <1>1, <2>1, <3>1 DEF Known, FieldKnown
    <3> QED BY <3>2 DEF SaysField, IsLast, Lines
  <2>6. p.package \in Names
    BY <2>5 DEF Fields, HasValues
  <2>7. p.requires = SaysRequires(lines)
    <3>1. ASSUME NEW cap
          PROVE  Required(lines, Len(lines), cap) <=> cap \in SaysRequires(lines)
      BY DEF Required, SaysRequires, Lines
    <3>2. \A cap : cap \in p.requires <=> cap \in SaysRequires(lines)
      BY <1>1, <3>1 DEF Known
    <3> QED BY <3>2
  <2>8. /\ \A i \in DOMAIN lines : WellFormed(lines[i])
        /\ Lines(lines, "end") # {}
    BY <1>1, <2>1 DEF Known, Lines
  <2>9. SaysPackage(lines, pkg)
    BY <2>3, <2>5, <2>7 DEF SaysPackage
  <2>11. Complete(lines)
    <3>1. \A f \in Fields : Lines(lines, f) # {}
      BY <2>5 DEF Lines
    <3> QED BY <2>8, <3>1 DEF Complete
  <2>10. pkg.package \in Names
    BY <2>3, <2>6 DEF Fields
  <2> QED BY <2>3, <2>4, <2>9, <2>10, <2>11 DEF Malformed
<1> QED BY <1>7, <1>8

(* Package::load: what is accepted has a name, and ManifestAsWritten.      *)
LEMMA LoadNames ==
  ASSUME NEW file, PackageFile(file), NEW s, NEW contents, Absent \notin Names,
         load(file, s, contents).errors = << >>
  PROVE  load(file, s, contents).package \in Names
<1>1. CASE file.k = "none"
  BY <1>1 DEF load, Blank
<1>2. CASE file.k = "unreadable"
  BY <1>2 DEF load, Blank
<1>3. CASE file.k = "lines"
  <2>1. load(file, s, contents) = parse_package_text(file.lines, s, contents)
    BY <1>3 DEF load
  <2>2. /\ Len(file.lines) \in Nat /\ DOMAIN file.lines = 1 .. Len(file.lines)
        /\ \A i \in DOMAIN file.lines : HasValues(file.lines[i])
    BY <1>3 DEF PackageFile
  <2> QED BY <2>1, <2>2, ParseText
<1> QED BY <1>1, <1>2, <1>3 DEF PackageFile

LEMMA LoadsAsWritten ==
  ASSUME PackageFile(manifest), Absent \notin Names
  PROVE  ManifestAsWritten
<1> SUFFICES ASSUME Loading
             PROVE  LET lines == manifest.lines
                        accepted == ~Malformed(Loaded)
                    IN /\ Grammatical(lines) => accepted
                       /\ accepted => (Grammatical(lines) \/ Misplaced(lines)) /\ SaysPackage(lines, Loaded)
                       /\ ~accepted => ~Complete(lines)
  BY DEF ManifestAsWritten
<1>1. manifest.k = "lines" /\ Loaded = parse_package_text(manifest.lines, src, FilesOf)
  BY DEF Loading, Loaded, load
<1>2. /\ Len(manifest.lines) \in Nat /\ DOMAIN manifest.lines = 1 .. Len(manifest.lines)
      /\ \A i \in DOMAIN manifest.lines : HasValues(manifest.lines[i])
  BY <1>1 DEF PackageFile
<1>3. \/ Complete(manifest.lines) /\ SaysPackage(manifest.lines, Loaded) /\ ~Malformed(Loaded)
      \/ Malformed(Loaded) /\ ~Complete(manifest.lines)
  BY <1>1, <1>2, ParseText
<1> QED BY <1>3 DEF Grammatical, Misplaced

(* The file of init is one.                                                *)
LEMMA HelloIsPackage ==
  ASSUME "hello" \in Names
  PROVE  PackageFile(HelloFile) /\ PackageFile(EmptyFile)
<1>1. HelloFile.k = "lines" /\ HelloFile.lines = HelloLines
  BY DEF HelloFile
<1>2. Len(HelloLines) = 9 /\ DOMAIN HelloLines = 1 .. 9
  BY DEF HelloLines
<1>3. /\ HelloLines[1].f = "package" /\ HelloLines[1].v = "hello"
      /\ HelloLines[2].f = "version"
      /\ HelloLines[3].f = "type"
      /\ HelloLines[4].f = "target" /\ HelloLines[4].v = "linux-x86_64"
      /\ HelloLines[5].f = "runtime" /\ HelloLines[5].v = "tiny"
      /\ HelloLines[6].f = "entry" /\ HelloLines[6].v = "main"
      /\ HelloLines[7].f = "requires"
      /\ HelloLines[8].f = "dep"
      /\ HelloLines[9].f = "end"
  BY DEF HelloLines
<1>4. \A i \in 1 .. 9 : i = 1 \/ i = 2 \/ i = 3 \/ i = 4 \/ i = 5 \/ i = 6 \/ i = 7 \/ i = 8 \/ i = 9
  OBVIOUS
<1>5. \A i \in 1 .. 9 : HasValues(HelloLines[i])
  BY <1>3, <1>4 DEF HasValues, Absent
<1>6. PackageFile(HelloFile)
  BY <1>1, <1>2, <1>5 DEF PackageFile
<1>7. PackageFile(EmptyFile)
  BY DEF PackageFile, EmptyFile
<1> QED BY <1>6, <1>7
-----------------------------------------------------------------------------
(* The inductive invariant.  First what each process is: which command it  *)
(* runs at which step, that a package it has loaded has one of the names,  *)
(* and that what it builds from is a source, and a sound one.              *)
Writing == {"mksrc", "pkg", "open pkg", "write pkg", "main", "open main", "write main"}
Building == {"mkdir", "asm", "write asm", "nasm", "ld", "exec"}
Left == {"left nasm", "left ld"}
ProcOK(r) ==
  /\ DOMAIN r = {"pc", "cmd", "pkg", "unit", "ran", "exit", "diags", "alone"}
  /\ r.pc \in {"idle", "exited", "killed", "load", "source", "clean"} \cup Writing \cup Building \cup Left
  /\ r.pc \in Writing => r.cmd = "init"
  /\ r.pc = "clean" => r.cmd = "clean"
  /\ r.pc \in {"load", "source"} => r.cmd \in Compiling
  /\ r.pc \in Building \cup Left => r.cmd \in {"build", "run"} /\ r.unit \in Sources \cup {Hello}
  /\ r.pc = "exec" => r.cmd = "run"
  /\ r.pc \in {"source"} \cup Building \cup Left => r.pkg.package \in Names
  /\ r.pc = "exited" => (r.exit = 1 <=> r.diags # << >>)
  /\ r.pc # "exited" => r.diags = << >>
ProcsOK == DOMAIN proc = Procs /\ \A p \in Procs : ProcOK(proc[p])

(* The files of the package and those of its builds.                       *)
FilesOK ==
  /\ PackageFile(manifest)
  /\ main \in Sources \cup {None, Hello, EmptySource}
  /\ src \in BOOLEAN
Contents == Sources \cup {None, Cut, Hello}
BuildsOK ==
  /\ asm \in [Names -> Contents] /\ obj \in [Names -> Contents] /\ bin \in [Names -> Contents]
  /\ dir \in BOOLEAN
  /\ ~dir => \A n \in Names : asm[n] = None /\ obj[n] = None /\ bin[n] = None

(* Of two processes under way neither is alone; one that is alone finds    *)
(* its own work in the build directory.                                    *)
TwoAreNotAlone ==
  \A p, q \in Procs : Active(p) /\ Active(q) /\ p # q => ~proc[p].alone
OwnWork(p) ==
  /\ Pc(p) = "write asm" => asm[Name(p)] = Cut
  /\ Pc(p) \in {"nasm", "ld", "exec"} => asm[Name(p)] = proc[p].unit
  /\ Pc(p) \in {"ld", "exec"} => obj[Name(p)] = proc[p].unit
  /\ Pc(p) = "exec" => bin[Name(p)] = proc[p].unit
AloneFindsOwnWork == \A p \in Procs : proc[p].alone => OwnWork(p)

(* An init under way or done has what it made so far; a file that is still *)
(* empty has an init that is about to write it or did not end well.        *)
InitMade(r) ==
  r.cmd = "init" =>
    /\ r.pc \in Writing \ {"mksrc"} \/ (r.pc = "exited" /\ r.exit = 0) => src
    /\ r.pc \in {"write pkg", "main", "open main", "write main"} \/ (r.pc = "exited" /\ r.exit = 0)
         => manifest # NoFile
    /\ edits = 0 /\ (r.pc = "write main" \/ (r.pc = "exited" /\ r.exit = 0)) => main # None
EmptyFor(r, pc) ==
  r.cmd = "init" /\ (r.pc \in {pc, "killed"} \/ (r.pc = "exited" /\ r.exit # 0))
InitsMade ==
  /\ \A p \in Procs : InitMade(proc[p])
  /\ manifest = EmptyFile => \E q \in Procs : EmptyFor(proc[q], "write pkg")
  /\ edits = 0 /\ main = EmptySource => \E q \in Procs : EmptyFor(proc[q], "write main")

BuildInv ==
  /\ ProcsOK /\ FilesOK /\ BuildsOK
  /\ TwoAreNotAlone /\ AloneFindsOwnWork /\ InitsMade
  /\ edits \in Nat
-----------------------------------------------------------------------------
(* What a step does to the processes.                                      *)
Initialises(p) == \/ mksrc(p) \/ create_pkg(p) \/ open_pkg(p) \/ write_pkg(p)
                  \/ create_main(p) \/ open_main(p) \/ write_main(p)
OthersKept(p) == DOMAIN proc' = Procs /\ \A q \in Procs \ {p} : proc'[q] = proc[q]

LEMMA MoveEffect ==
  ASSUME ProcsOK, NEW p \in Procs, NEW pc, Move(p, pc)
  PROVE  /\ OthersKept(p) /\ DOMAIN proc'[p] = DOMAIN proc[p]
         /\ proc'[p].pc = pc /\ proc'[p].cmd = proc[p].cmd /\ proc'[p].pkg = proc[p].pkg
         /\ proc'[p].unit = proc[p].unit /\ proc'[p].exit = proc[p].exit
         /\ proc'[p].diags = proc[p].diags /\ proc'[p].alone = proc[p].alone
  BY DEF Move, OthersKept, ProcsOK, ProcOK

LEMMA LeavesEffect ==
  ASSUME ProcsOK, NEW p \in Procs, NEW pc, NEW code, NEW diags, NEW ran,
         Leaves(p, pc, code, diags, ran)
  PROVE  /\ OthersKept(p) /\ DOMAIN proc'[p] = DOMAIN proc[p]
         /\ proc'[p].pc = pc /\ proc'[p].cmd = proc[p].cmd /\ proc'[p].exit = code
         /\ proc'[p].diags = diags /\ proc'[p].ran = ran
<1> DEFINE r == [Unstarted EXCEPT !.pc = pc, !.cmd = proc[p].cmd, !.exit = code,
                                  !.diags = diags, !.ran = ran]
<1>1. /\ DOMAIN r = {"pc", "cmd", "pkg", "unit", "ran", "exit", "diags", "alone"}
      /\ r.pc = pc /\ r.cmd = proc[p].cmd /\ r.exit = code /\ r.diags = diags /\ r.ran = ran
  BY DEF Unstarted
<1>2. proc' = [proc EXCEPT ![p] = r]
  BY DEF Leaves
<1> HIDE DEF r
<1>3. proc'[p] = r /\ OthersKept(p)
  BY <1>2 DEF OthersKept, ProcsOK
<1> QED BY <1>1, <1>3 DEF ProcsOK, ProcOK

(* A process that fails, whatever else it does.                            *)
LEMMA FailEffect ==
  ASSUME ProcsOK, NEW p \in Procs, NEW code, Fail(p, code)
  PROVE  /\ OthersKept(p) /\ DOMAIN proc'[p] = DOMAIN proc[p]
         /\ proc'[p].pc = "exited" /\ proc'[p].cmd = proc[p].cmd /\ proc'[p].exit = 1
         /\ proc'[p].diags # << >>
<1>1. <<code>> # << >>
  OBVIOUS
<1>2. Leaves(p, "exited", 1, <<code>>, None)
  BY DEF Fail, Exit
<1> QED BY <1>1, <1>2, LeavesEffect

LEMMA ExitEffect ==
  ASSUME ProcsOK, NEW p \in Procs, NEW code, NEW diags, Exit(p, code, diags)
  PROVE  /\ OthersKept(p) /\ DOMAIN proc'[p] = DOMAIN proc[p]
         /\ proc'[p].pc = "exited" /\ proc'[p].cmd = proc[p].cmd /\ proc'[p].exit = code
         /\ proc'[p].diags = diags
  BY LeavesEffect DEF Exit

LEMMA StartEffect ==
  ASSUME ProcsOK, NEW p \in Procs, NEW cmd \in Commands, start(p, cmd)
  PROVE  /\ DOMAIN proc' = Procs /\ Pc(p) = "idle"
         /\ UNCHANGED <<files, build>>
         /\ \A q \in Procs \ {p} :
              /\ DOMAIN proc'[q] = DOMAIN proc[q]
              /\ proc'[q].pc = proc[q].pc /\ proc'[q].cmd = proc[q].cmd /\ proc'[q].pkg = proc[q].pkg
              /\ proc'[q].unit = proc[q].unit /\ proc'[q].exit = proc[q].exit
              /\ proc'[q].diags = proc[q].diags
              /\ proc'[q].alone = IF Active(q) THEN FALSE ELSE proc[q].alone
         /\ DOMAIN proc'[p] = DOMAIN proc[p]
         /\ proc'[p].pc = CASE cmd = "init" -> "mksrc" [] cmd \in Compiling -> "load"
                            [] cmd = "clean" -> "clean" [] OTHER -> "exited"
         /\ proc'[p].cmd = cmd /\ proc'[p].pkg = proc[p].pkg /\ proc'[p].unit = proc[p].unit
         /\ proc'[p].exit = IF cmd = "help" THEN 2 ELSE 0
         /\ proc'[p].diags = proc[p].diags
         /\ proc'[p].alone = ({q \in Procs : Active(q)} = {})
<1> DEFINE first == CASE cmd = "init" -> "mksrc" [] cmd \in Compiling -> "load"
                      [] cmd = "clean" -> "clean" [] OTHER -> "exited"
           code == IF cmd = "help" THEN 2 ELSE 0
           others == {q \in Procs : Active(q)}
           none == others = {}
<1>1. /\ At(p, "idle") /\ UNCHANGED <<files, build>>
      /\ proc' = [q \in Procs |->
           IF q = p THEN [proc[p] EXCEPT !.pc = first, !.cmd = cmd, !.alone = none, !.exit = code]
           ELSE IF q \in others THEN [proc[q] EXCEPT !.alone = FALSE] ELSE proc[q]]
  BY DEF start
<1>2. \A q : q \in others <=> q \in Procs /\ Active(q)
  OBVIOUS
<1> HIDE DEF first, code, others, none
<1>3. proc'[p] = [proc[p] EXCEPT !.pc = first, !.cmd = cmd, !.alone = none, !.exit = code]
  BY <1>1
<1>4. \A q \in Procs \ {p} :
        proc'[q] = IF q \in others THEN [proc[q] EXCEPT !.alone = FALSE] ELSE proc[q]
  BY <1>1
<1>5. \A q \in Procs \ {p} :
        /\ DOMAIN proc'[q] = DOMAIN proc[q]
        /\ proc'[q].pc = proc[q].pc /\ proc'[q].cmd = proc[q].cmd /\ proc'[q].pkg = proc[q].pkg
        /\ proc'[q].unit = proc[q].unit /\ proc'[q].exit = proc[q].exit
        /\ proc'[q].diags = proc[q].diags
        /\ proc'[q].alone = IF Active(q) THEN FALSE ELSE proc[q].alone
  <2> SUFFICES ASSUME NEW q \in Procs \ {p}
               PROVE  /\ DOMAIN proc'[q] = DOMAIN proc[q]
                      /\ proc'[q].pc = proc[q].pc /\ proc'[q].cmd = proc[q].cmd
                      /\ proc'[q].pkg = proc[q].pkg
                      /\ proc'[q].unit = proc[q].unit /\ proc'[q].exit = proc[q].exit
                      /\ proc'[q].diags = proc[q].diags
                      /\ proc'[q].alone = IF Active(q) THEN FALSE ELSE proc[q].alone
    OBVIOUS
  <2>1. CASE Active(q)
    <3>1. proc'[q] = [proc[q] EXCEPT !.alone = FALSE]
      BY <1>2, <1>4, <2>1
    <3> QED BY <2>1, <3>1 DEF ProcsOK, ProcOK
  <2>2. CASE ~Active(q)
    BY <1>2, <1>4, <2>2
  <2> QED BY <2>1, <2>2
<1>6. /\ DOMAIN proc'[p] = DOMAIN proc[p]
      /\ proc'[p].pc = first /\ proc'[p].cmd = cmd /\ proc'[p].alone = none /\ proc'[p].exit = code
      /\ proc'[p].pkg = proc[p].pkg /\ proc'[p].unit = proc[p].unit /\ proc'[p].diags = proc[p].diags
  BY <1>3 DEF ProcsOK, ProcOK
<1>7. DOMAIN proc' = Procs
  BY <1>1
<1> QED BY <1>1, <1>5, <1>6, <1>7 DEF At, first, code, none, others

LEMMA StartKeeps ==
  ASSUME ProcsOK, NEW p \in Procs, Start(p)
  PROVE  Pc(p) = "idle" /\ \A q \in Procs \ {p} : proc'[q].pc = proc[q].pc
<1>1. PICK cmd \in Commands : start(p, cmd)
  BY DEF Start
<1> QED BY <1>1, StartEffect

(* Loading and compiling: the process ends, or it has what it needs next.  *)
LEMMA LoadEffect ==
  ASSUME ProcsOK, FilesOK, Absent \notin Names, NEW p \in Procs, LoadPackage(p)
  PROVE  /\ OthersKept(p) /\ DOMAIN proc'[p] = DOMAIN proc[p] /\ UNCHANGED <<files, build>>
         /\ Pc(p) = "load" /\ proc'[p].cmd = proc[p].cmd
         /\ \/ proc'[p].pc = "exited" /\ proc'[p].exit = 1 /\ proc'[p].diags # << >>
            \/ /\ proc'[p].pc = "source" /\ proc'[p].pkg.package \in Names
               /\ proc'[p].diags = proc[p].diags /\ proc'[p].alone = proc[p].alone
<1>1. PICK pkg \in {load(manifest, src, FilesOf)} :
        IF pkg.errors # << >> THEN Exit(p, 1, pkg.errors)
        ELSE proc' = [proc EXCEPT ![p].pc = "source", ![p].pkg = pkg]
  BY DEF LoadPackage
<1>2. At(p, "load") /\ UNCHANGED <<files, build>>
  BY DEF LoadPackage
<1>3. CASE pkg.errors # << >>
  BY <1>1, <1>2, <1>3, ExitEffect DEF At
<1>4. CASE pkg.errors = << >>
  <2>1. pkg.package \in Names
    BY <1>1, <1>4, LoadNames DEF FilesOK
  <2>2. proc' = [proc EXCEPT ![p].pc = "source", ![p].pkg = pkg]
    BY <1>1, <1>4
  <2>3. /\ OthersKept(p) /\ DOMAIN proc'[p] = DOMAIN proc[p]
        /\ proc'[p].pc = "source" /\ proc'[p].pkg = pkg /\ proc'[p].cmd = proc[p].cmd
        /\ proc'[p].diags = proc[p].diags /\ proc'[p].alone = proc[p].alone
    BY <2>2 DEF OthersKept, ProcsOK, ProcOK
  <2> QED BY <1>2, <2>1, <2>3 DEF At
<1> QED BY <1>3, <1>4

LEMMA CompileEffect ==
  ASSUME ProcsOK, FilesOK, NEW p \in Procs, Compile(p)
  PROVE  /\ OthersKept(p) /\ DOMAIN proc'[p] = DOMAIN proc[p] /\ UNCHANGED <<files, build>>
         /\ Pc(p) = "source" /\ proc'[p].cmd = proc[p].cmd
         /\ \/ proc'[p].pc = "exited" /\ proc'[p].exit = 1 /\ proc'[p].diags # << >>
            \/ /\ proc'[p].pc = "exited" /\ proc'[p].exit = 0 /\ proc'[p].diags = << >>
               /\ proc[p].cmd = "check"
            \/ /\ proc'[p].pc = "mkdir" /\ proc'[p].unit = main /\ main \in Sources \cup {Hello}
               /\ proc[p].cmd # "check" /\ proc'[p].pkg = proc[p].pkg
               /\ proc'[p].diags = proc[p].diags /\ proc'[p].alone = proc[p].alone
<1>1. At(p, "source")
  BY DEF Compile
<1>2. CASE IoError(p)
  BY <1>1, <1>2, FailEffect DEF IoError, At
<1>3. CASE /\ main # None /\ main.fault \in DOMAIN Refusal
           /\ Fail(p, Refusal[main.fault]) /\ UNCHANGED <<files, build>>
  BY <1>1, <1>3, FailEffect DEF At
<1>4. CASE /\ main.fault \notin DOMAIN Refusal /\ proc[p].cmd = "check"
           /\ Exit(p, 0, << >>) /\ UNCHANGED <<files, build>>
  BY <1>1, <1>4, ExitEffect DEF At
<1>5. CASE /\ main # None /\ main.fault \notin DOMAIN Refusal /\ proc[p].cmd # "check"
           /\ proc' = [proc EXCEPT ![p].pc = "mkdir", ![p].unit = main]
           /\ UNCHANGED <<files, build>>
  <2>1. main \in Sources \cup {Hello}
    BY <1>5 DEF FilesOK, EmptySource, Refusal
  <2>2. /\ OthersKept(p) /\ DOMAIN proc'[p] = DOMAIN proc[p]
        /\ proc'[p].pc = "mkdir" /\ proc'[p].unit = main /\ proc'[p].cmd = proc[p].cmd
        /\ proc'[p].pkg = proc[p].pkg
        /\ proc'[p].diags = proc[p].diags /\ proc'[p].alone = proc[p].alone
    BY <1>5 DEF OthersKept, ProcsOK, ProcOK
  <2> QED BY <1>1, <1>5, <2>1, <2>2 DEF At
<1> QED BY <1>2, <1>3, <1>4, <1>5 DEF Compile
-----------------------------------------------------------------------------
(* What a process is, behind every step.                                   *)
LEMMA MovedOK ==
  ASSUME NEW r, NEW s, ProcOK(r), DOMAIN s = DOMAIN r, s.cmd = r.cmd, s.pkg = r.pkg, s.unit = r.unit,
         s.diags = r.diags,
         \/ r.pc \in Writing /\ s.pc \in Writing
         \/ r.pc \in Building /\ s.pc \in Building \cup Left /\ (s.pc = "exec" => r.cmd = "run")
  PROVE  ProcOK(s)
<1>1. CASE r.pc \in Writing /\ s.pc \in Writing
  BY <1>1 DEF ProcOK, Writing, Building, Left
<1>2. CASE r.pc \in Building /\ s.pc \in Building \cup Left /\ (s.pc = "exec" => r.cmd = "run")
  BY <1>2 DEF ProcOK, Writing, Building, Left
<1> QED BY <1>1, <1>2

LEMMA LeftOK ==
  ASSUME NEW s, DOMAIN s = {"pc", "cmd", "pkg", "unit", "ran", "exit", "diags", "alone"},
         s.pc \in {"exited", "killed"}, s.pc = "killed" => s.diags = << >>,
         s.exit = 1 <=> s.diags # << >>
  PROVE  ProcOK(s)
  BY DEF ProcOK, Writing, Building, Left

LEMMA StartedOK ==
  ASSUME ProcsOK, NEW p \in Procs, NEW cmd \in Commands, start(p, cmd)
  PROVE  ProcsOK'
<1>1. ASSUME NEW q \in Procs \ {p}
      PROVE  ProcOK(proc'[q])
  <2>1. ProcOK(proc[q])
    BY DEF ProcsOK
  <2>2. /\ DOMAIN proc'[q] = DOMAIN proc[q]
        /\ proc'[q].pc = proc[q].pc /\ proc'[q].cmd = proc[q].cmd /\ proc'[q].pkg = proc[q].pkg
        /\ proc'[q].unit = proc[q].unit /\ proc'[q].exit = proc[q].exit
        /\ proc'[q].diags = proc[q].diags
    BY StartEffect
  <2> QED BY <2>1, <2>2 DEF ProcOK
<1>2. ProcOK(proc'[p])
  <2>1. ProcOK(proc[p])
    BY DEF ProcsOK
  <2>2. /\ Pc(p) = "idle"
        /\ DOMAIN proc'[p] = DOMAIN proc[p]
        /\ proc'[p].pc = CASE cmd = "init" -> "mksrc" [] cmd \in Compiling -> "load"
                           [] cmd = "clean" -> "clean" [] OTHER -> "exited"
        /\ proc'[p].cmd = cmd /\ proc'[p].exit = IF cmd = "help" THEN 2 ELSE 0
        /\ proc'[p].diags = proc[p].diags
    BY StartEffect
  <2>3. proc'[p].diags = << >>
    BY <2>1, <2>2 DEF ProcOK, Pc
  <2>4. /\ cmd = "init" => proc'[p].pc = "mksrc"
        /\ cmd \in Compiling => proc'[p].pc = "load"
        /\ cmd = "clean" => proc'[p].pc = "clean"
        /\ cmd = "help" => proc'[p].pc = "exited"
    BY <2>2 DEF Compiling
  <2>5. DOMAIN proc'[p] = {"pc", "cmd", "pkg", "unit", "ran", "exit", "diags", "alone"}
    BY <2>1, <2>2 DEF ProcOK
  <2> QED BY <2>2, <2>3, <2>4, <2>5 DEF ProcOK, Commands, Compiling, Writing, Building, Left
<1>3. DOMAIN proc' = Procs
  BY StartEffect
<1> QED BY <1>1, <1>2, <1>3 DEF ProcsOK

LEMMA ProcsStep ==
  ASSUME ProcsOK, FilesOK, Absent \notin Names, NEW p \in Procs, Start(p) \/ Step(p) \/ Kill(p)
  PROVE  ProcsOK'
<1>1. ProcOK(proc[p])
  BY DEF ProcsOK
<1>2. DOMAIN proc[p] = {"pc", "cmd", "pkg", "unit", "ran", "exit", "diags", "alone"}
  BY <1>1 DEF ProcOK
<1>3. ASSUME OthersKept(p), ProcOK(proc'[p])
      PROVE  ProcsOK'
  BY <1>3 DEF ProcsOK, OthersKept
<1>4. ASSUME NEW pc, Move(p, pc),
             \/ Pc(p) \in Writing /\ pc \in Writing
             \/ Pc(p) \in Building /\ pc \in Building \cup Left /\ (pc = "exec" => proc[p].cmd = "run")
      PROVE  ProcsOK'
  <2>1. /\ OthersKept(p) /\ DOMAIN proc'[p] = DOMAIN proc[p]
        /\ proc'[p].pc = pc /\ proc'[p].cmd = proc[p].cmd /\ proc'[p].pkg = proc[p].pkg
        /\ proc'[p].unit = proc[p].unit /\ proc'[p].diags = proc[p].diags
    BY <1>4, MoveEffect
  <2>2. ProcOK(proc'[p])
    BY <1>1, <1>4, <2>1, MovedOK DEF Pc
  <2> QED BY <1>3, <2>1, <2>2
<1>5. ASSUME NEW code, Fail(p, code)
      PROVE  ProcsOK'
  <2>1. /\ OthersKept(p) /\ DOMAIN proc'[p] = DOMAIN proc[p]
        /\ proc'[p].pc = "exited" /\ proc'[p].exit = 1 /\ proc'[p].diags # << >>
    BY <1>5, FailEffect
  <2>2. ProcOK(proc'[p])
    BY <1>2, <2>1, LeftOK
  <2> QED BY <1>3, <2>1, <2>2
<1>6. ASSUME NEW pc \in {"exited", "killed"}, NEW code, NEW diags, NEW ran,
             Leaves(p, pc, code, diags, ran), pc = "killed" => diags = << >>,
             code = 1 <=> diags # << >>
      PROVE  ProcsOK'
  <2>1. /\ OthersKept(p) /\ DOMAIN proc'[p] = DOMAIN proc[p]
        /\ proc'[p].pc = pc /\ proc'[p].exit = code /\ proc'[p].diags = diags
    BY <1>6, LeavesEffect
  <2>2. ProcOK(proc'[p])
    BY <1>2, <1>6, <2>1, LeftOK
  <2> QED BY <1>3, <2>1, <2>2
<1>7. ASSUME Exit(p, 0, << >>)
      PROVE  ProcsOK'
  BY <1>6, <1>7 DEF Exit
<1>8. IoError(p) => ProcsOK'
  BY <1>5 DEF IoError
<1>9. CASE Start(p)
  BY <1>9, StartedOK DEF Start
<1>10. CASE Kill(p)
  <2>1. CASE Leaves(p, "killed", 0, << >>, None)
    BY <1>6, <2>1
  <2>2. ASSUME NEW pc \in Left, Move(p, pc), Pc(p) \in Building
        PROVE  ProcsOK'
    <3>1. pc \in Building \cup Left /\ pc # "exec"
      BY DEF Left
    <3> QED BY <1>4, <2>2, <3>1
  <2> QED BY <1>10, <2>1, <2>2 DEF Kill, At, Building, Left
<1>17. CASE Outlives(p)
  <2>1. Leaves(p, "killed", 0, << >>, None)
    BY <1>17 DEF Outlives
  <2> QED BY <1>6, <2>1
<1>11. CASE Initialises(p)
  <2>1. CASE mksrc(p)
    BY <1>4, <1>8, <2>1 DEF mksrc, At, Writing
  <2>2. CASE create_pkg(p)
    <3>1. At(p, "pkg") /\ \E pc \in {"open pkg", "main"} : Move(p, pc)
      BY <2>2 DEF create_pkg
    <3> QED BY <1>4, <3>1 DEF At, Writing
  <2>3. CASE open_pkg(p)
    BY <1>4, <1>8, <2>3 DEF open_pkg, At, Writing
  <2>4. CASE write_pkg(p)
    BY <1>4, <1>8, <2>4 DEF write_pkg, At, Writing
  <2>5. CASE create_main(p)
    BY <1>4, <1>7, <2>5 DEF create_main, At, Writing
  <2>6. CASE open_main(p)
    BY <1>4, <1>8, <2>6 DEF open_main, At, Writing
  <2>7. CASE write_main(p)
    BY <1>7, <1>8, <2>7 DEF write_main
  <2> QED BY <1>11, <2>1, <2>2, <2>3, <2>4, <2>5, <2>6, <2>7 DEF Initialises
<1>12. CASE LoadPackage(p)
  <2>1. /\ OthersKept(p) /\ DOMAIN proc'[p] = DOMAIN proc[p] /\ Pc(p) = "load"
        /\ proc'[p].cmd = proc[p].cmd
        /\ \/ proc'[p].pc = "exited" /\ proc'[p].exit = 1 /\ proc'[p].diags # << >>
           \/ /\ proc'[p].pc = "source" /\ proc'[p].pkg.package \in Names
              /\ proc'[p].diags = proc[p].diags
    BY <1>12, LoadEffect
  <2>2. CASE proc'[p].pc = "exited" /\ proc'[p].exit = 1 /\ proc'[p].diags # << >>
    BY <1>2, <1>3, <2>1, <2>2, LeftOK
  <2>3. CASE /\ proc'[p].pc = "source" /\ proc'[p].pkg.package \in Names
             /\ proc'[p].diags = proc[p].diags
    <3>1. ProcOK(proc'[p])
      BY <1>1, <2>1, <2>3 DEF ProcOK, Pc, Writing, Building, Left
    <3> QED BY <1>3, <2>1, <3>1
  <2> QED BY <2>1, <2>2, <2>3
<1>13. CASE Compile(p)
  <2>1. /\ OthersKept(p) /\ DOMAIN proc'[p] = DOMAIN proc[p] /\ Pc(p) = "source"
        /\ proc'[p].cmd = proc[p].cmd
        /\ \/ proc'[p].pc = "exited" /\ proc'[p].exit = 1 /\ proc'[p].diags # << >>
           \/ proc'[p].pc = "exited" /\ proc'[p].exit = 0 /\ proc'[p].diags = << >>
           \/ /\ proc'[p].pc = "mkdir" /\ proc'[p].unit \in Sources \cup {Hello}
              /\ proc[p].cmd # "check" /\ proc'[p].pkg = proc[p].pkg
              /\ proc'[p].diags = proc[p].diags
    BY <1>13, CompileEffect
  <2>2. CASE proc'[p].pc = "exited" /\ (proc'[p].exit = 1 <=> proc'[p].diags # << >>)
    BY <1>2, <1>3, <2>1, <2>2, LeftOK
  <2>3. CASE /\ proc'[p].pc = "mkdir" /\ proc'[p].unit \in Sources \cup {Hello}
             /\ proc[p].cmd # "check" /\ proc'[p].pkg = proc[p].pkg
             /\ proc'[p].diags = proc[p].diags
    <3>1. ProcOK(proc'[p])
      BY <1>1, <2>1, <2>3 DEF ProcOK, Pc, Writing, Building, Left, Compiling
    <3> QED BY <1>3, <2>1, <3>1
  <2> QED BY <2>1, <2>2, <2>3
<1>14. CASE create_build_dir(p) \/ open_asm(p) \/ write_asm(p) \/ nasm(p) \/ ld(p)
  <2>1. CASE create_build_dir(p)
    BY <1>4, <1>8, <2>1 DEF create_build_dir, At, Building
  <2>2. CASE open_asm(p)
    BY <1>4, <1>8, <2>2 DEF open_asm, At, Building
  <2>3. CASE write_asm(p)
    <3>1. At(p, "write asm") /\ (Move(p, "nasm") \/ IoError(p))
      BY <2>3 DEF write_asm
    <3> QED BY <1>4, <1>8, <3>1 DEF At, Building
  <2>4. CASE nasm(p)
    <3>1. At(p, "nasm") /\ (Move(p, "ld") \/ Fail(p, "E9000"))
      BY <2>4 DEF nasm
    <3> QED BY <1>4, <1>5, <3>1 DEF At, Building
  <2>5. CASE ld(p)
    <3>1. /\ At(p, "ld")
          /\ \/ proc[p].cmd = "run" /\ Move(p, "exec")
             \/ Exit(p, 0, << >>)
             \/ Fail(p, "E9000")
      BY <2>5 DEF ld
    <3> QED BY <1>4, <1>5, <1>7, <3>1 DEF At, Building
  <2> QED BY <1>14, <2>1, <2>2, <2>3, <2>4, <2>5
<1>15. CASE exec(p)
  <2>1. CASE IoError(p)
    BY <1>8, <2>1
  <2>2. CASE ~IoError(p)
    <3>1. PICK code \in {0, 1} : Leaves(p, "exited", code, If(code = 1, "E9000"), bin[Name(p)])
      BY <1>15, <2>2 DEF exec
    <3>2. code = 1 <=> If(code = 1, "E9000") # << >>
      BY DEF If
    <3> QED BY <1>6, <3>1, <3>2
  <2> QED BY <2>1, <2>2
<1>16. CASE clean(p)
  <2>1. Exit(p, 0, << >>) \/ Fail(p, "E9000")
    BY <1>16 DEF clean
  <2> QED BY <1>5, <1>7, <2>1
<1> QED
  BY <1>9, <1>10, <1>11, <1>12, <1>13, <1>14, <1>15, <1>16, <1>17 DEF Step, Initialises
-----------------------------------------------------------------------------
(* The files, behind every step.                                           *)
LEMMA FilesEffect ==
  ASSUME NEW p \in Procs, Start(p) \/ Step(p) \/ Kill(p)
  PROVE  /\ manifest' \in {manifest, EmptyFile, HelloFile}
         /\ main' \in {main, EmptySource, Hello}
         /\ src' \in {src, TRUE}
<1>1. CASE Initialises(p)
  BY <1>1 DEF Initialises, mksrc, create_pkg, open_pkg, write_pkg, create_main, open_main, write_main, IoError, files
<1>2. CASE ~Initialises(p)
  <2>1. UNCHANGED files
    <3>1. CASE Start(p)
      BY <3>1 DEF Start, start
    <3>2. CASE LoadPackage(p) \/ Compile(p)
      BY <3>2 DEF LoadPackage, Compile, IoError
    <3>3. CASE create_build_dir(p) \/ open_asm(p) \/ write_asm(p) \/ nasm(p) \/ ld(p)
      BY <3>3 DEF create_build_dir, open_asm, write_asm, nasm, ld, Assembles, AssemblyFails,
                    Links, LinkFails, IoError
    <3>4. CASE exec(p) \/ clean(p) \/ Kill(p)
      BY <3>4 DEF exec, clean, Kill, IoError
    <3>5. CASE Outlives(p)
      BY <3>5 DEF Outlives, Assembles, AssemblyFails, Links, LinkFails
    <3> QED BY <1>2, <3>1, <3>2, <3>3, <3>4, <3>5 DEF Step, Initialises
  <2> QED BY <2>1 DEF files
<1> QED BY <1>1, <1>2

LEMMA FilesStep ==
  ASSUME FilesOK, "hello" \in Names, Next
  PROVE  FilesOK'
<1>1. /\ manifest' \in {manifest, EmptyFile, HelloFile}
      /\ main' \in Sources \cup {main, None, EmptySource, Hello}
      /\ src' \in {src, TRUE}
  <2>1. CASE Edit
    BY <2>1 DEF Edit
  <2> QED BY <2>1, FilesEffect DEF Next
<1>2. PackageFile(manifest')
  BY <1>1, HelloIsPackage DEF FilesOK
<1> QED BY <1>1, <1>2 DEF FilesOK

(* A build file is replaced by one that may stand there.                   *)
LEMMA ReplacedOK ==
  ASSUME NEW f \in [Names -> Contents], NEW n \in Names, NEW c \in Contents
  PROVE  /\ [f EXCEPT ![n] = c] \in [Names -> Contents]
         /\ [f EXCEPT ![n] = c][n] = c
         /\ \A m \in Names : m # n => [f EXCEPT ![n] = c][m] = f[m]
  OBVIOUS

LEMMA BuildsStep ==
  ASSUME ProcsOK, BuildsOK, NEW p \in Procs, Start(p) \/ Step(p) \/ Kill(p)
  PROVE  BuildsOK'
<1>1. UNCHANGED build => BuildsOK'
  BY DEF build, BuildsOK
<1>2. None \in Contents /\ Cut \in Contents
  BY DEF Contents
<1>3. Pc(p) \in Building \cup Left => Name(p) \in Names /\ proc[p].unit \in Contents
  BY DEF ProcsOK, ProcOK, Pc, Name, Contents
<1>4. CASE Start(p) \/ Kill(p) \/ LoadPackage(p) \/ Compile(p) \/ exec(p)
  <2>1. UNCHANGED build
    BY <1>4 DEF Start, start, Kill, LoadPackage, Compile, exec, IoError
  <2> QED BY <1>1, <2>1
<1>5. CASE Initialises(p)
  <2>1. UNCHANGED build
    BY <1>5 DEF Initialises, mksrc, create_pkg, open_pkg, write_pkg, create_main, open_main, write_main, IoError
  <2> QED BY <1>1, <2>1
<1>6. CASE create_build_dir(p)
  BY <1>1, <1>6 DEF create_build_dir, IoError, BuildsOK
<1>7. CASE open_asm(p)
  <2>1. CASE dir /\ asm' = [asm EXCEPT ![Name(p)] = Cut] /\ UNCHANGED <<dir, obj, bin>>
    <3>1. Name(p) \in Names
      BY <1>3, <1>7 DEF open_asm, At, Building
    <3>2. asm' \in [Names -> Contents]
      BY <1>2, <2>1, <3>1, ReplacedOK DEF BuildsOK
    <3> QED BY <2>1, <3>2 DEF BuildsOK
  <2> QED BY <1>1, <1>7, <2>1 DEF open_asm, IoError
<1>8. CASE write_asm(p)
  <2>1. CASE IoError(p)
    BY <1>1, <2>1 DEF IoError
  <2>2. CASE ~IoError(p)
    <3>1. Name(p) \in Names /\ proc[p].unit \in Contents
      BY <1>3, <1>8 DEF write_asm, At, Building
    <3>2. PICK f : /\ asm' = [asm EXCEPT ![Name(p)] = f]
                   /\ f \in {proc[p].unit, Cut, None}
                   /\ asm[Name(p)] = None => f = None
      <4>1. PICK f \in IF asm[Name(p)] = Cut THEN {proc[p].unit}
                       ELSE IF asm[Name(p)] = None THEN {None} ELSE {proc[p].unit, Cut} :
              asm' = [asm EXCEPT ![Name(p)] = f]
        BY <1>8, <2>2 DEF write_asm
      <4>2. Cut # None
        BY DEF Cut, None
      <4> QED BY <4>1, <4>2
    <3>3. UNCHANGED <<dir, obj, bin>>
      BY <1>8, <2>2 DEF write_asm
    <3>4. f \in Contents
      BY <1>2, <3>1, <3>2
    <3>5. asm' \in [Names -> Contents] /\ asm'[Name(p)] = f
          /\ \A n \in Names : n # Name(p) => asm'[n] = asm[n]
      BY <3>1, <3>2, <3>4, ReplacedOK DEF BuildsOK
    <3> QED BY <3>1, <3>2, <3>3, <3>5 DEF BuildsOK
  <2> QED BY <2>1, <2>2
<1>9. CASE nasm(p) \/ (Outlives(p) /\ At(p, "left nasm"))
  <2>1. Name(p) \in Names
    BY <1>3, <1>9 DEF nasm, At, Building, Left
  <2>2. PICK f : /\ obj' = [obj EXCEPT ![Name(p)] = f] \/ obj' = obj
                 /\ f \in Made(asm[Name(p)]) \cup {None}
                 /\ f # None => dir
    BY <1>9 DEF nasm, Outlives, At, Assembles, AssemblyFails
  <2>3. UNCHANGED <<dir, asm, bin>>
    BY <1>9 DEF nasm, Outlives, At, Assembles, AssemblyFails
  <2>4. f \in Contents
    BY <1>2, <2>1, <2>2 DEF Made, BuildsOK
  <2>5. obj' \in [Names -> Contents] /\ (obj'[Name(p)] = f \/ obj'[Name(p)] = obj[Name(p)])
        /\ \A n \in Names : n # Name(p) => obj'[n] = obj[n]
    BY <2>1, <2>2, <2>4, ReplacedOK DEF BuildsOK
  <2> QED BY <2>1, <2>2, <2>3, <2>5 DEF BuildsOK
<1>10. CASE ld(p) \/ (Outlives(p) /\ At(p, "left ld"))
  <2>1. Name(p) \in Names
    BY <1>3, <1>10 DEF ld, At, Building, Left
  <2>2. PICK f : /\ bin' = [bin EXCEPT ![Name(p)] = f] \/ bin' = bin
                 /\ f \in {obj[Name(p)], None}
                 /\ f # None => dir
    BY <1>10 DEF ld, Outlives, At, Links, LinkFails
  <2>3. UNCHANGED <<dir, asm, obj>>
    BY <1>10 DEF ld, Outlives, At, Links, LinkFails
  <2>4. f \in Contents
    BY <1>2, <2>1, <2>2 DEF BuildsOK
  <2>5. bin' \in [Names -> Contents] /\ (bin'[Name(p)] = f \/ bin'[Name(p)] = bin[Name(p)])
        /\ \A n \in Names : n # Name(p) => bin'[n] = bin[n]
    BY <2>1, <2>2, <2>4, ReplacedOK DEF BuildsOK
  <2> QED BY <2>1, <2>2, <2>3, <2>5 DEF BuildsOK
<1>11. CASE clean(p)
  <2> DEFINE empty == [n \in Names |-> None]
  <2>1. empty \in [Names -> Contents] /\ \A n \in Names : empty[n] = None
    BY <1>2
  <2>2. /\ asm' \in {asm, empty} /\ obj' \in {obj, empty} /\ bin' \in {bin, empty}
        /\ dir' \in {dir, FALSE}
        /\ ~dir' => asm' = empty /\ obj' = empty /\ bin' = empty
    <3>1. CASE dir' = FALSE /\ asm' = empty /\ obj' = asm' /\ bin' = asm'
      BY <3>1
    <3>2. CASE /\ dir /\ dir' = dir
               /\ \/ asm' = empty /\ obj' = obj /\ bin' = bin
                  \/ bin' = empty /\ asm' = asm /\ obj' = obj
      BY <3>2
    <3> QED BY <1>11, <3>1, <3>2 DEF clean
  <2> HIDE DEF empty
  <2> QED BY <2>1, <2>2 DEF BuildsOK
<1> QED
  BY <1>4, <1>5, <1>6, <1>7, <1>8, <1>9, <1>10, <1>11 DEF Step, Initialises, Outlives
-----------------------------------------------------------------------------
(* A step is that of a process under way; it goes on as alone as it was.   *)
LEMMA StepEffect ==
  ASSUME ProcsOK, FilesOK, Absent \notin Names, NEW p \in Procs, Step(p) \/ Kill(p)
  PROVE  /\ OthersKept(p) /\ Active(p) /\ proc'[p].cmd = proc[p].cmd
         /\ proc'[p].pc \in Ended \/ proc'[p].alone = proc[p].alone
<1>1. ASSUME NEW pc, Move(p, pc), Pc(p) \notin Ended \cup {"idle"}
      PROVE  /\ OthersKept(p) /\ Active(p) /\ proc'[p].cmd = proc[p].cmd
             /\ proc'[p].pc \in Ended \/ proc'[p].alone = proc[p].alone
  BY <1>1, MoveEffect DEF Active
<1>2. ASSUME NEW code, Fail(p, code), Pc(p) \notin Ended \cup {"idle"}
      PROVE  /\ OthersKept(p) /\ Active(p) /\ proc'[p].cmd = proc[p].cmd
             /\ proc'[p].pc \in Ended \/ proc'[p].alone = proc[p].alone
  BY <1>2, FailEffect DEF Active, Ended
<1>3. ASSUME NEW pc \in Ended, NEW code, NEW diags, NEW ran, Leaves(p, pc, code, diags, ran),
             Pc(p) \notin Ended \cup {"idle"}
      PROVE  /\ OthersKept(p) /\ Active(p) /\ proc'[p].cmd = proc[p].cmd
             /\ proc'[p].pc \in Ended \/ proc'[p].alone = proc[p].alone
  BY <1>3, LeavesEffect DEF Active
<1>4. ASSUME Exit(p, 0, << >>), Pc(p) \notin Ended \cup {"idle"}
      PROVE  /\ OthersKept(p) /\ Active(p) /\ proc'[p].cmd = proc[p].cmd
             /\ proc'[p].pc \in Ended \/ proc'[p].alone = proc[p].alone
  BY <1>3, <1>4 DEF Exit, Ended
<1>5. CASE Kill(p)
  BY <1>1, <1>3, <1>5 DEF Kill, Active, Ended
<1>11. CASE Outlives(p)
  BY <1>3, <1>11 DEF Outlives, At, Ended
<1>6. CASE LoadPackage(p)
  BY <1>6, LoadEffect DEF Active, Ended
<1>7. CASE Compile(p)
  BY <1>7, CompileEffect DEF Active, Ended
<1>8. CASE exec(p)
  <2>1. CASE IoError(p)
    BY <1>2, <1>8, <2>1 DEF exec, IoError, At, Ended
  <2>2. CASE ~IoError(p)
    <3>1. PICK code : Leaves(p, "exited", code, If(code = 1, "E9000"), bin[Name(p)])
      BY <1>8, <2>2 DEF exec
    <3> QED BY <1>3, <1>8, <3>1 DEF exec, At, Ended
  <2> QED BY <2>1, <2>2
<1>9. CASE Initialises(p)
  <2>1. Pc(p) \in Writing
    BY <1>9 DEF Initialises, mksrc, create_pkg, open_pkg, write_pkg, create_main, open_main, write_main,
              At, Writing
  <2>2. \/ \E pc : Move(p, pc)
        \/ \E code : Fail(p, code)
        \/ Exit(p, 0, << >>)
    BY <1>9 DEF Initialises, mksrc, create_pkg, open_pkg, write_pkg, create_main, open_main, write_main, IoError
  <2> QED BY <1>1, <1>2, <1>4, <2>1, <2>2 DEF Writing, Ended
<1>10. CASE create_build_dir(p) \/ open_asm(p) \/ write_asm(p) \/ nasm(p) \/ ld(p) \/ clean(p)
  <2>1. Pc(p) \in Building \cup {"clean"}
    BY <1>10 DEF create_build_dir, open_asm, write_asm, nasm, ld, clean, At, Building
  <2>2. \/ \E pc : Move(p, pc)
        \/ \E code : Fail(p, code)
        \/ Exit(p, 0, << >>)
    BY <1>10 DEF create_build_dir, open_asm, write_asm, nasm, ld, clean, IoError
  <2> QED BY <1>1, <1>2, <1>4, <2>1, <2>2 DEF Building, Ended
<1> QED
  BY <1>5, <1>6, <1>7, <1>8, <1>9, <1>10, <1>11 DEF Step, Initialises

LEMMA AloneStep ==
  ASSUME ProcsOK, FilesOK, Absent \notin Names, TwoAreNotAlone, NEW p \in Procs,
         Start(p) \/ Step(p) \/ Kill(p)
  PROVE  TwoAreNotAlone'
<1> SUFFICES ASSUME NEW a \in Procs, NEW b \in Procs, a # b,
                    proc'[a].pc \notin Ended \cup {"idle"}, proc'[b].pc \notin Ended \cup {"idle"}
             PROVE  ~proc'[a].alone
  BY DEF TwoAreNotAlone, Active, Pc
<1>1. CASE Start(p)
  <2>1. PICK cmd \in Commands : start(p, cmd)
    BY <1>1 DEF Start
  <2>2. \A q \in Procs \ {p} : /\ proc'[q].pc = proc[q].pc
                               /\ Active(q) => proc'[q].alone = FALSE
    BY <2>1, StartEffect
  <2>3. CASE a # p
    BY <2>2, <2>3 DEF Active, Pc
  <2>4. CASE a = p
    <3>1. Active(b)
      BY <2>2, <2>4 DEF Active, Pc
    <3>2. {q \in Procs : Active(q)} # {}
      BY <3>1
    <3>3. proc'[p].alone = ({q \in Procs : Active(q)} = {})
      BY <2>1, StartEffect
    <3> QED BY <2>4, <3>2, <3>3, Zenon
  <2> QED BY <2>3, <2>4
<1>2. CASE Step(p) \/ Kill(p)
  <2>1. /\ OthersKept(p) /\ Active(p)
        /\ proc'[p].pc \in Ended \/ proc'[p].alone = proc[p].alone
    BY <1>2, StepEffect
  <2>2. Active(a) /\ Active(b)
    BY <2>1 DEF OthersKept, Active, Pc
  <2>3. ~proc[a].alone
    BY <2>2 DEF TwoAreNotAlone
  <2> QED BY <2>1, <2>3 DEF OthersKept
<1> QED BY <1>1, <1>2

(* A process that is alone goes on finding its own work.                   *)
LEMMA OwnWorkStep ==
  ASSUME ProcsOK, FilesOK, BuildsOK, TwoAreNotAlone, AloneFindsOwnWork,
         BuildAssumption, NEW p \in Procs, Start(p) \/ Step(p) \/ Kill(p)
  PROVE  AloneFindsOwnWork'
<1> SUFFICES ASSUME NEW a \in Procs, proc'[a].alone,
                    proc'[a].pc \in {"write asm", "nasm", "ld", "exec"}
             PROVE  OwnWork(a)'
  BY DEF AloneFindsOwnWork, OwnWork, Pc
<1> USE DEF BuildAssumption
<1>1. CASE Start(p)
  <2>1. PICK cmd \in Commands : start(p, cmd)
    BY <1>1 DEF Start
  <2>2. CASE a = p
    <3>1. proc'[p].pc = CASE cmd = "init" -> "mksrc" [] cmd \in Compiling -> "load"
                          [] cmd = "clean" -> "clean" [] OTHER -> "exited"
      BY <2>1, StartEffect
    <3> QED BY <2>2, <3>1 DEF Commands, Compiling
  <2>3. CASE a # p
    <3>1. /\ proc'[a].pc = proc[a].pc
          /\ Active(a) => proc'[a].alone = FALSE
      BY <2>1, <2>3, StartEffect
    <3>2. Active(a)
      BY <3>1 DEF Active, Pc, Ended
    <3> QED BY <3>1, <3>2
  <2> QED BY <2>2, <2>3
<1>2. CASE (Step(p) \/ Kill(p)) /\ a # p
  <2>1. OthersKept(p) /\ Active(p)
    BY <1>2, StepEffect
  <2>2. proc[a].alone /\ Active(a)
    BY <1>2, <2>1 DEF OthersKept, Active, Pc, Ended
  <2> QED BY <1>2, <2>1, <2>2 DEF TwoAreNotAlone
<1>3. CASE (Kill(p) \/ Outlives(p)) /\ a = p
  <2>1. proc'[p].pc \in {"killed"} \cup Left
    BY <1>3, LeavesEffect, MoveEffect DEF Kill, Outlives, Left
  <2> QED BY <1>3, <2>1 DEF Left
<1>4. CASE Step(p) /\ ~Outlives(p) /\ a = p
  <2>1. proc[p].alone /\ OwnWork(p)
    <3>1. proc[p].alone
      BY <1>4, StepEffect DEF Ended
    <3> QED BY <3>1 DEF AloneFindsOwnWork
  <2>2. Pc(p) \in Building => Name(p) \in Names /\ proc[p].unit \notin {None, Cut}
    <3>1. Pc(p) \in Building => Name(p) \in Names /\ proc[p].unit \in Sources \cup {Hello}
      BY DEF ProcsOK, ProcOK, Pc, Name
    <3>2. Hello # None /\ Hello # Cut
      BY DEF Hello, None, Cut
    <3> QED BY <3>1, <3>2
  <2>3. ASSUME NEW code, Fail(p, code)
        PROVE  FALSE
    BY <1>4, <2>3, FailEffect
  <2>4. ASSUME NEW code, NEW diags, NEW ran, Leaves(p, "exited", code, diags, ran)
        PROVE  FALSE
    <3>1. proc'[p].pc = "exited"
      BY <2>4, LeavesEffect
    <3> QED BY <1>4, <3>1
  <2>5. ASSUME NEW pc, Move(p, pc)
        PROVE  /\ proc'[p].pc = pc /\ proc'[p].pkg = proc[p].pkg /\ proc'[p].unit = proc[p].unit
    BY <2>5, MoveEffect
  <2>6. ~IoError(p)
    BY <2>3 DEF IoError
  <2>8. CASE Initialises(p)
    <3>1. PICK pc \in Writing : Move(p, pc)
      BY <2>4, <2>6, <2>8 DEF Initialises, mksrc, create_pkg, open_pkg, write_pkg, create_main, open_main, write_main, Exit, Writing
    <3>2. proc'[p].pc \in Writing
      BY <2>5, <3>1
    <3> QED BY <1>4, <3>2 DEF Writing
  <2>9. CASE LoadPackage(p) \/ Compile(p)
    <3>1. proc'[p].pc \in {"exited", "source", "mkdir"}
      BY <2>9, LoadEffect, CompileEffect
    <3> QED BY <1>4, <3>1
  <2>10. CASE create_build_dir(p)
    <3>1. proc'[p].pc = "asm"
      BY <2>5, <2>6, <2>10 DEF create_build_dir
    <3> QED BY <1>4, <3>1
  <2>11. CASE open_asm(p)
    <3>1. Move(p, "write asm") /\ asm' = [asm EXCEPT ![Name(p)] = Cut] /\ Pc(p) = "asm"
      BY <2>6, <2>11 DEF open_asm, At
    <3>2. asm'[Name(p)] = Cut
      BY <2>2, <3>1 DEF BuildsOK, Building
    <3>5. proc'[p].pc = "write asm" /\ proc'[p].pkg = proc[p].pkg /\ proc'[p].unit = proc[p].unit
      BY <2>5, <3>1
    <3> QED BY <1>4, <3>1, <3>2, <3>5 DEF OwnWork, Pc, Name
  <2>12. CASE write_asm(p)
    <3>1. Pc(p) = "write asm" /\ Name(p) \in Names /\ asm[Name(p)] = Cut
      BY <2>1, <2>2, <2>12 DEF write_asm, At, OwnWork, Building
    <3>2. /\ Move(p, "nasm")
          /\ asm' \in {[asm EXCEPT ![Name(p)] = f] :
                        f \in IF asm[Name(p)] = Cut THEN {proc[p].unit}
                              ELSE IF asm[Name(p)] = None THEN {None} ELSE {proc[p].unit, Cut}}
      BY <2>6, <2>12 DEF write_asm
    <3>3. asm' = [asm EXCEPT ![Name(p)] = proc[p].unit]
      BY <3>1, <3>2
    <3>4. asm'[Name(p)] = proc[p].unit
      BY <3>1, <3>3 DEF BuildsOK
    <3>5. proc'[p].pc = "nasm" /\ proc'[p].pkg = proc[p].pkg /\ proc'[p].unit = proc[p].unit
      BY <2>5, <3>2
    <3> QED BY <1>4, <3>2, <3>4, <3>5 DEF OwnWork, Pc, Name
  <2>13. CASE nasm(p)
    <3>1. /\ Pc(p) = "nasm" /\ Name(p) \in Names /\ proc[p].unit \notin {None, Cut}
          /\ asm[Name(p)] = proc[p].unit
      BY <2>1, <2>2, <2>13 DEF nasm, At, OwnWork, Building
    <3>2. /\ Move(p, "ld") /\ asm' = asm
          /\ obj' \in {[obj EXCEPT ![Name(p)] = f] : f \in Made(asm[Name(p)])}
      BY <2>3, <2>13 DEF nasm, Assembles
    <3>3. obj'[Name(p)] = proc[p].unit
      BY <3>1, <3>2 DEF BuildsOK, Made
    <3>5. proc'[p].pc = "ld" /\ proc'[p].pkg = proc[p].pkg /\ proc'[p].unit = proc[p].unit
      BY <2>5, <3>2
    <3> QED BY <1>4, <3>1, <3>2, <3>3, <3>5 DEF OwnWork, Pc, Name
  <2>14. CASE ld(p)
    <3>1. /\ Pc(p) = "ld" /\ Name(p) \in Names
          /\ asm[Name(p)] = proc[p].unit /\ obj[Name(p)] = proc[p].unit
      BY <2>1, <2>2, <2>14 DEF ld, At, OwnWork, Building
    <3>2. /\ Move(p, "exec") /\ asm' = asm /\ obj' = obj
          /\ bin' = [bin EXCEPT ![Name(p)] = obj[Name(p)]]
      BY <2>3, <2>4, <2>14 DEF ld, Links, Exit
    <3>3. bin'[Name(p)] = proc[p].unit
      BY <3>1, <3>2 DEF BuildsOK
    <3>5. proc'[p].pc = "exec" /\ proc'[p].pkg = proc[p].pkg /\ proc'[p].unit = proc[p].unit
      BY <2>5, <3>2
    <3> QED BY <1>4, <3>1, <3>2, <3>3, <3>5 DEF OwnWork, Pc, Name
  <2>15. CASE exec(p)
    BY <2>4, <2>6, <2>15 DEF exec
  <2>16. CASE clean(p)
    BY <2>3, <2>4, <2>16 DEF clean, Exit
  <2> QED
    BY <1>4, <2>8, <2>9, <2>10, <2>11, <2>12, <2>13, <2>14, <2>15, <2>16 DEF Step, Initialises
<1> QED BY <1>1, <1>2, <1>3, <1>4

(* What the inits have made so far stays, and an empty file keeps the init *)
(* that is to write it.                                                    *)
LEMMA EmptyKept ==
  ASSUME NEW p \in Procs, NEW q \in Procs \ {p}, NEW pc, OthersKept(p), EmptyFor(proc[q], pc)
  PROVE  EmptyFor(proc'[q], pc)
  BY DEF OthersKept, EmptyFor

LEMMA InitsStarted ==
  ASSUME ProcsOK, InitsMade, NEW p \in Procs, NEW cmd \in Commands, start(p, cmd), UNCHANGED edits
  PROVE  InitsMade'
<1>1. manifest' = manifest /\ src' = src /\ main' = main
  BY StartEffect DEF files
<1>2. /\ Pc(p) = "idle"
      /\ \A q \in Procs \ {p} : /\ proc'[q].pc = proc[q].pc /\ proc'[q].cmd = proc[q].cmd
                                /\ proc'[q].exit = proc[q].exit
      /\ proc'[p].cmd = cmd
      /\ proc'[p].pc = CASE cmd = "init" -> "mksrc" [] cmd \in Compiling -> "load"
                         [] cmd = "clean" -> "clean" [] OTHER -> "exited"
  BY StartEffect
<1>3. proc'[p].cmd = "init" => proc'[p].pc = "mksrc"
  BY <1>2 DEF Compiling
<1>4. ASSUME NEW q \in Procs
      PROVE  InitMade(proc[q])'
  <2>1. CASE q = p
    BY <1>3, <2>1 DEF InitMade, Writing
  <2>2. CASE q # p
    <3>1. InitMade(proc[q])
      BY DEF InitsMade
    <3> QED BY <1>1, <1>2, <2>2, <3>1 DEF InitMade
  <2> QED BY <2>1, <2>2
<1>5. ASSUME NEW pc \in {"write pkg", "write main"}, NEW q \in Procs, EmptyFor(proc[q], pc)
      PROVE  EmptyFor(proc'[q], pc)
  <2>1. q # p
    BY <1>2, <1>5 DEF EmptyFor, Pc
  <2> QED BY <1>2, <1>5, <2>1 DEF EmptyFor
<1>6. manifest' = EmptyFile => \E q \in Procs : EmptyFor(proc'[q], "write pkg")
  BY <1>1, <1>5 DEF InitsMade
<1>7. edits' = 0 /\ main' = EmptySource => \E q \in Procs : EmptyFor(proc'[q], "write main")
  BY <1>1, <1>5 DEF InitsMade
<1> QED BY <1>4, <1>6, <1>7 DEF InitsMade

(* One step of a process under way: what the init it may be has made.      *)
LEMMA OwnInit ==
  ASSUME ProcsOK, FilesOK, InitsMade, Absent \notin Names, NEW p \in Procs, Step(p) \/ Kill(p),
         UNCHANGED edits
  PROVE  /\ InitMade(proc[p])'
         /\ manifest' = EmptyFile => \/ EmptyFor(proc'[p], "write pkg")
                                     \/ manifest = EmptyFile /\ ~EmptyFor(proc[p], "write pkg")
         /\ edits = 0 /\ main' = EmptySource =>
              \/ EmptyFor(proc'[p], "write main")
              \/ main = EmptySource /\ ~EmptyFor(proc[p], "write main")
<1>1. /\ proc'[p].cmd = proc[p].cmd /\ Active(p)
  BY StepEffect
<1>2. InitMade(proc[p]) /\ ProcOK(proc[p])
  BY DEF InitsMade, ProcsOK
<1>3. /\ manifest' \in {manifest, EmptyFile, HelloFile}
      /\ main' \in {main, EmptySource, Hello}
      /\ src' \in {src, TRUE}
  BY FilesEffect
<1>4. /\ EmptyFile # NoFile /\ HelloFile # NoFile /\ HelloFile # EmptyFile
      /\ EmptySource # None /\ Hello # None /\ Hello # EmptySource
  <2>1. EmptyFile.k # NoFile.k /\ HelloFile.k # NoFile.k
    BY DEF EmptyFile, HelloFile, NoFile
  <2>2. HelloFile.lines # EmptyFile.lines
    <3>1. Len(HelloLines) = 9 /\ Len(<< >>) = 0
      BY DEF HelloLines
    <3> QED BY <3>1 DEF EmptyFile, HelloFile
  <2>3. EmptySource # None /\ Hello # None /\ Hello # EmptySource
    BY DEF EmptySource, None, Hello
  <2> QED BY <2>1, <2>2, <2>3
<1>5. ASSUME NEW code, Fail(p, code)
      PROVE  proc'[p].pc = "exited" /\ proc'[p].exit = 1
  BY <1>5, FailEffect
<1>6. ASSUME Exit(p, 0, << >>)
      PROVE  proc'[p].pc = "exited" /\ proc'[p].exit = 0
  BY <1>6, ExitEffect
<1>7. ASSUME NEW pc, Move(p, pc)
      PROVE  proc'[p].pc = pc
  BY <1>7, MoveEffect
<1>8. ASSUME proc[p].cmd # "init", manifest' = manifest, main' = main
      PROVE  /\ InitMade(proc[p])' /\ ~EmptyFor(proc[p], "write pkg") /\ ~EmptyFor(proc[p], "write main")
  BY <1>1, <1>8 DEF InitMade, EmptyFor
<1>9. CASE ~(Initialises(p) \/ Kill(p))
  <2>1. Pc(p) \in {"load", "source", "clean"} \cup Building \cup Left /\ UNCHANGED files
    <3>1. CASE LoadPackage(p) \/ Compile(p) \/ exec(p) \/ clean(p)
      BY <3>1 DEF LoadPackage, Compile, exec, clean, IoError, At, Building
    <3>2. CASE create_build_dir(p) \/ open_asm(p) \/ write_asm(p) \/ nasm(p) \/ ld(p)
      BY <3>2 DEF create_build_dir, open_asm, write_asm, nasm, ld, Assembles,
                    AssemblyFails, Links, LinkFails, IoError, At, Building
    <3>3. CASE Outlives(p)
      BY <3>3 DEF Outlives, Assembles, AssemblyFails, Links, LinkFails, At, Left
    <3> QED BY <1>9, <3>1, <3>2, <3>3 DEF Step, Initialises
  <2>2. proc[p].cmd # "init"
    BY <1>2, <2>1 DEF ProcOK, Pc, Compiling
  <2> QED BY <1>8, <2>1, <2>2 DEF files
<1>10. CASE Kill(p)
  <2>1. UNCHANGED files /\ (proc'[p].pc = "killed" \/ Pc(p) \in Building)
    BY <1>10, LeavesEffect DEF Kill, At, Building
  <2>2. Pc(p) \in Building => proc[p].cmd # "init"
    BY <1>2 DEF ProcOK, Pc
  <2>3. CASE proc'[p].pc = "killed"
    BY <1>1, <2>1, <2>3 DEF InitMade, EmptyFor, Writing, files
  <2> QED BY <1>8, <2>1, <2>2, <2>3 DEF files
<1>11. CASE IoError(p)
  <2>1. proc'[p].pc = "exited" /\ proc'[p].exit = 1 /\ UNCHANGED files
    BY <1>5, <1>11 DEF IoError
  <2>2. InitMade(proc[p])'
    BY <1>1, <2>1 DEF InitMade, Writing
  <2>3. ASSUME NEW pc
        PROVE  EmptyFor(proc'[p], pc) \/ ~EmptyFor(proc[p], pc)
    BY <1>1, <2>1 DEF EmptyFor
  <2> QED BY <2>1, <2>2, <2>3 DEF files
<1>12. CASE mksrc(p) /\ ~IoError(p)
  <2>1. /\ Pc(p) = "mksrc" /\ proc'[p].pc = "pkg" /\ src' = TRUE
        /\ manifest' = manifest /\ main' = main
    BY <1>7, <1>12 DEF mksrc, At
  <2> QED BY <2>1 DEF InitMade, EmptyFor, Writing, Pc
<1>13. CASE create_pkg(p)
  <2>1. /\ Pc(p) = "pkg" /\ proc[p].cmd = "init" /\ src
    BY <1>2, <1>13 DEF create_pkg, At, Pc, ProcOK, InitMade, Writing
  <2>2. /\ src' = src /\ main' = main /\ manifest' = manifest
        /\ \/ manifest # NoFile /\ proc'[p].pc = "main"
           \/ proc'[p].pc = "open pkg"
    BY <1>7, <1>13 DEF create_pkg, files
  <2> QED BY <1>1, <1>4, <2>1, <2>2 DEF InitMade, EmptyFor, Writing, Pc
<1>17. CASE open_pkg(p) /\ ~IoError(p)
  <2>1. /\ Pc(p) = "open pkg" /\ proc[p].cmd = "init" /\ src
    BY <1>2, <1>17 DEF open_pkg, At, Pc, ProcOK, InitMade, Writing
  <2>2. src' = src /\ main' = main /\ proc'[p].pc = "write pkg" /\ manifest' = EmptyFile
    BY <1>7, <1>17 DEF open_pkg
  <2> QED BY <1>1, <1>4, <2>1, <2>2 DEF InitMade, EmptyFor, Writing, Pc
<1>14. CASE write_pkg(p) /\ ~IoError(p)
  <2>1. /\ Pc(p) = "write pkg" /\ proc[p].cmd = "init" /\ src
    BY <1>2, <1>14 DEF write_pkg, At, Pc, ProcOK, InitMade, Writing
  <2>2. src' = src /\ main' = main /\ manifest' = HelloFile /\ proc'[p].pc = "main"
    BY <1>7, <1>14 DEF write_pkg
  <2> QED BY <1>1, <1>4, <2>1, <2>2 DEF InitMade, EmptyFor, Writing, Pc
<1>15. CASE create_main(p)
  <2>1. /\ Pc(p) = "main" /\ proc[p].cmd = "init" /\ src /\ manifest # NoFile
    BY <1>2, <1>15 DEF create_main, At, Pc, ProcOK, InitMade, Writing
  <2>2. /\ src' = src /\ manifest' = manifest /\ main' = main
        /\ \/ main # None /\ proc'[p].pc = "exited" /\ proc'[p].exit = 0
           \/ proc'[p].pc = "open main"
    BY <1>6, <1>7, <1>15 DEF create_main, files
  <2> QED BY <1>1, <1>4, <2>1, <2>2 DEF InitMade, EmptyFor, Writing, Pc
<1>18. CASE open_main(p) /\ ~IoError(p)
  <2>1. /\ Pc(p) = "open main" /\ proc[p].cmd = "init" /\ src /\ manifest # NoFile
    BY <1>2, <1>18 DEF open_main, At, Pc, ProcOK, InitMade, Writing
  <2>2. src' = src /\ manifest' = manifest /\ proc'[p].pc = "write main" /\ main' = EmptySource
    BY <1>7, <1>18 DEF open_main
  <2> QED BY <1>1, <1>4, <2>1, <2>2 DEF InitMade, EmptyFor, Writing, Pc
<1>16. CASE write_main(p) /\ ~IoError(p)
  <2>1. /\ Pc(p) = "write main" /\ proc[p].cmd = "init" /\ src /\ manifest # NoFile
        /\ edits = 0 => main # None
    BY <1>2, <1>16 DEF write_main, At, Pc, ProcOK, InitMade, Writing
  <2>2. /\ src' = src /\ manifest' = manifest /\ (edits = 0 => main' = Hello)
        /\ proc'[p].pc = "exited" /\ proc'[p].exit = 0
    <3>1. /\ src' = src /\ manifest' = manifest /\ Exit(p, 0, << >>)
          /\ main' \in IF main = None THEN {None} ELSE IF edits = 0 THEN {Hello} ELSE {main, Hello}
      BY <1>16 DEF write_main
    <3> QED BY <1>6, <2>1, <3>1
  <2> QED BY <1>1, <1>4, <2>1, <2>2 DEF InitMade, EmptyFor, Writing, Pc
<1> QED
  BY <1>9, <1>10, <1>11, <1>12, <1>13, <1>14, <1>15, <1>16, <1>17, <1>18 DEF Initialises

LEMMA InitsStep ==
  ASSUME ProcsOK, FilesOK, InitsMade, Absent \notin Names, NEW p \in Procs,
         Start(p) \/ Step(p) \/ Kill(p)
  PROVE  InitsMade'
<1>1. CASE Start(p)
  BY <1>1, InitsStarted DEF Start
<1>2. CASE Step(p) \/ Kill(p)
  <2>1. UNCHANGED edits /\ OthersKept(p)
    BY <1>2, StepEffect DEF Step, Kill
  <2>2. /\ InitMade(proc[p])'
        /\ manifest' = EmptyFile => \/ EmptyFor(proc'[p], "write pkg")
                                    \/ manifest = EmptyFile /\ ~EmptyFor(proc[p], "write pkg")
        /\ edits = 0 /\ main' = EmptySource =>
             \/ EmptyFor(proc'[p], "write main")
             \/ main = EmptySource /\ ~EmptyFor(proc[p], "write main")
    BY <1>2, <2>1, OwnInit
  <2>3. ASSUME NEW q \in Procs \ {p}
        PROVE  InitMade(proc[q])'
    <3>1. /\ manifest # NoFile => manifest' # NoFile
          /\ main # None => main' # None
          /\ src => src'
      <4>1. EmptyFile.k # NoFile.k /\ HelloFile.k # NoFile.k
        BY DEF EmptyFile, HelloFile, NoFile
      <4>2. EmptySource # None /\ Hello # None
        BY DEF EmptySource, None, Hello
      <4> QED BY <1>2, <4>1, <4>2, FilesEffect
    <3>2. InitMade(proc[q]) /\ proc'[q] = proc[q]
      BY <2>1 DEF InitsMade, OthersKept
    <3> QED BY <2>1, <3>1, <3>2 DEF InitMade
  <2>4. manifest' = EmptyFile => \E q \in Procs : EmptyFor(proc'[q], "write pkg")
    BY <2>1, <2>2, EmptyKept DEF InitsMade
  <2>5. edits' = 0 /\ main' = EmptySource => \E q \in Procs : EmptyFor(proc'[q], "write main")
    BY <2>1, <2>2, EmptyKept DEF InitsMade
  <2> QED BY <2>2, <2>3, <2>4, <2>5 DEF InitsMade
<1> QED BY <1>1, <1>2
-----------------------------------------------------------------------------
(* The source is edited.                                                   *)
LEMMA EditStep ==
  ASSUME BuildInv, "hello" \in Names, Edit
  PROVE  BuildInv'
<1>1. UNCHANGED <<manifest, src, dir, asm, obj, bin, proc>> /\ edits' = edits + 1
  BY DEF Edit, build
<1>2. FilesOK'
  BY FilesStep DEF BuildInv, Next
<1>3. edits' \in Nat /\ edits' # 0
  BY <1>1 DEF BuildInv
<1>4. ProcsOK' /\ BuildsOK'
  BY <1>1 DEF BuildInv, ProcsOK, BuildsOK
<1>5. TwoAreNotAlone' /\ AloneFindsOwnWork'
  BY <1>1 DEF BuildInv, TwoAreNotAlone, AloneFindsOwnWork, OwnWork, Active, Pc, Name
<1>6. InitsMade'
  BY <1>1, <1>3 DEF BuildInv, InitsMade, InitMade, EmptyFor
<1> QED BY <1>2, <1>3, <1>4, <1>5, <1>6 DEF BuildInv

LEMMA BuildInit ==
  ASSUME BuildAssumption, Init
  PROVE  BuildInv
<1>1. \A p \in Procs : proc[p] = Unstarted
  BY DEF Init
<1>2. ProcOK(Unstarted)
  BY DEF ProcOK, Unstarted, Writing, Building, Left
<1>3. ProcsOK
  BY <1>1, <1>2 DEF Init, ProcsOK
<1>4. FilesOK
  BY DEF Init, FilesOK, BuildAssumption
<1>5. None \in Contents /\ (dir = FALSE /\ asm = [n \in Names |-> None] /\ obj = asm /\ bin = asm)
  BY DEF Init, Contents
<1>6. BuildsOK
  BY <1>5 DEF BuildsOK
<1>7. \A p \in Procs : Pc(p) = "idle" /\ proc[p].cmd = ""
  <2>1. Unstarted.pc = "idle" /\ Unstarted.cmd = ""
    BY DEF Unstarted
  <2> QED BY <1>1, <2>1 DEF Pc
<1>8. TwoAreNotAlone /\ AloneFindsOwnWork
  BY <1>7 DEF TwoAreNotAlone, AloneFindsOwnWork, OwnWork, Active
<1>9. InitsMade
  <2>1. manifest # EmptyFile
    BY DEF Init, BuildAssumption
  <2>2. main # EmptySource
    BY DEF Init, BuildAssumption, EmptySource, None
  <2> QED BY <1>7, <2>1, <2>2 DEF InitsMade, InitMade
<1> QED BY <1>3, <1>4, <1>6, <1>8, <1>9 DEF BuildInv, Init

LEMMA BuildStep ==
  ASSUME BuildAssumption, BuildInv, [Next]_vars
  PROVE  BuildInv'
<1>1. "hello" \in Names /\ Absent \notin Names
  BY DEF BuildAssumption
<1>2. CASE Edit
  BY <1>1, <1>2, EditStep
<1>3. ASSUME NEW p \in Procs, Start(p) \/ Step(p) \/ Kill(p)
      PROVE  BuildInv'
  <2>1. ProcsOK /\ FilesOK /\ BuildsOK /\ TwoAreNotAlone /\ AloneFindsOwnWork /\ InitsMade
    BY DEF BuildInv
  <2>2. ProcsOK'
    BY <1>1, <1>3, <2>1, ProcsStep
  <2>3. FilesOK'
    BY <1>1, <1>3, <2>1, FilesStep DEF Next
  <2>4. BuildsOK'
    BY <1>3, <2>1, BuildsStep
  <2>5. TwoAreNotAlone'
    BY <1>1, <1>3, <2>1, AloneStep
  <2>6. AloneFindsOwnWork'
    BY <1>3, <2>1, OwnWorkStep
  <2>7. InitsMade'
    BY <1>1, <1>3, <2>1, InitsStep
  <2>8. edits' \in Nat
    BY <1>3 DEF BuildInv, Start, Step, Kill
  <2> QED BY <2>2, <2>3, <2>4, <2>5, <2>6, <2>7, <2>8 DEF BuildInv
<1>4. CASE UNCHANGED vars
  <2>1. UNCHANGED <<manifest, src, main, dir, asm, obj, bin, proc, edits>>
    BY <1>4 DEF vars, files, build
  <2>2. ProcsOK' /\ FilesOK' /\ BuildsOK' /\ edits' \in Nat
    BY <2>1 DEF BuildInv, ProcsOK, FilesOK, BuildsOK
  <2>3. TwoAreNotAlone' /\ AloneFindsOwnWork'
    BY <2>1 DEF BuildInv, TwoAreNotAlone, AloneFindsOwnWork, OwnWork, Active, Pc, Name
  <2>4. InitsMade'
    BY <2>1 DEF BuildInv, InitsMade, InitMade, EmptyFor
  <2> QED BY <2>2, <2>3, <2>4 DEF BuildInv
<1> QED BY <1>2, <1>3, <1>4 DEF Next

(* The invariant of the commands: what every process is, that one which is *)
(* alone finds its own work, and that an empty file has an init.           *)
THEOREM BuildInvariance == Spec => []BuildInv
<1>1. Init => BuildInv
  BY BuildInit, BuildAssumption
<1>2. BuildInv /\ [Next]_vars => BuildInv'
  BY BuildStep, BuildAssumption
<1> QED BY <1>1, <1>2, PTL DEF Spec

(* BuildTypeOK: the files are what they may be, and an exit code of 1      *)
(* comes with something printed.                                           *)
THEOREM BuildTypeCorrect == Spec => []BuildTypeOK
<1>1. BuildInv => BuildTypeOK
  <2> SUFFICES ASSUME BuildInv PROVE BuildTypeOK
    OBVIOUS
  <2>1. manifest.k \in {"none", "unreadable", "lines"}
    BY DEF BuildInv, FilesOK, PackageFile
  <2>2. \A f \in {asm, obj, bin} : f \in [Names -> Sources \cup {None, Cut, Hello}]
    BY DEF BuildInv, BuildsOK, Contents
  <2>4. \A p \in Procs : At(p, "exited") => (proc[p].exit = 1 <=> proc[p].diags # << >>)
    BY DEF BuildInv, ProcsOK, ProcOK, At, Pc
  <2> QED BY <2>1, <2>2, <2>4 DEF BuildTypeOK
<1> QED BY <1>1, BuildInvariance, PTL

(* ManifestAsWritten: a package file of the grammar's form is accepted and *)
(* loaded as what it says; the others that are accepted are complete and   *)
(* Misplaced, and mean their last lines; for files of any length.          *)
THEOREM PackagesLoadAsWritten == Spec => []ManifestAsWritten
<1>1. BuildInv => ManifestAsWritten
  BY LoadsAsWritten, BuildAssumption DEF BuildInv, FilesOK, BuildAssumption
<1> QED BY <1>1, BuildInvariance, PTL

(* InitLeavesAPackage: an init that ends well leaves both files, and one   *)
(* that is empty is the work of another init that did not.                 *)
THEOREM InitsLeaveAPackage == Spec => []InitLeavesAPackage
<1>1. BuildInv => InitLeavesAPackage
  <2> SUFFICES ASSUME BuildInv, NEW p \in Procs,
                      At(p, "exited"), proc[p].cmd = "init", proc[p].exit = 0, edits = 0
               PROVE  /\ src /\ manifest # NoFile /\ main # None
                      /\ manifest = EmptyFile \/ main = EmptySource =>
                           \E q \in Procs \ {p} :
                             proc[q].cmd = "init" /\ ~(At(q, "exited") /\ proc[q].exit = 0)
    BY DEF InitLeavesAPackage
  <2>1. src /\ manifest # NoFile /\ main # None
    BY DEF BuildInv, InitsMade, InitMade, At, Pc
  <2>2. ASSUME NEW pc \in {"write pkg", "write main"}, NEW q \in Procs, EmptyFor(proc[q], pc)
        PROVE  q # p /\ proc[q].cmd = "init" /\ ~(At(q, "exited") /\ proc[q].exit = 0)
    BY <2>2 DEF EmptyFor, At, Pc
  <2> QED BY <2>1, <2>2 DEF BuildInv, InitsMade
<1> QED BY <1>1, BuildInvariance, PTL

(* SuccessIsCurrent: a build nobody disturbed that exits 0 leaves the      *)
(* assembly, the object and the binary of the source it read, and a run    *)
(* has run that binary.                                                    *)
THEOREM SuccessfulBuildsAreCurrent == Spec => SuccessIsCurrent
<1> DEFINE Current(p) ==
      Succeeds(p) /\ proc[p].alone /\ proc[p].cmd \in {"build", "run"} =>
        LET unit == proc[p].unit
        IN /\ asm'[Name(p)] = unit /\ obj'[Name(p)] = unit /\ bin'[Name(p)] = unit
           /\ proc[p].cmd = "run" => proc'[p].ran = unit
<1>1. ASSUME BuildInv, [Next]_vars, NEW p \in Procs
      PROVE  Current(p)
  <2> SUFFICES ASSUME proc[p].pc \notin Ended \cup {"idle"}, proc'[p].pc = "exited", proc'[p].exit = 0,
                      proc[p].alone, proc[p].cmd \in {"build", "run"}
               PROVE  /\ asm'[Name(p)] = proc[p].unit /\ obj'[Name(p)] = proc[p].unit
                      /\ bin'[Name(p)] = proc[p].unit
                      /\ proc[p].cmd = "run" => proc'[p].ran = proc[p].unit
    BY DEF Succeeds, Active, Pc
  <2>1. /\ ProcsOK /\ FilesOK /\ BuildsOK /\ Absent \notin Names
        /\ ProcOK(proc[p]) /\ OwnWork(p)
    BY <1>1, BuildAssumption DEF BuildInv, ProcsOK, AloneFindsOwnWork, BuildAssumption
  <2>2. Step(p)
    <3>1. proc' # proc
      BY DEF Ended
    <3>2. PICK q \in Procs : Start(q) \/ Step(q) \/ Kill(q)
      BY <1>1, <3>1 DEF Next, Edit, vars
    <3>3. CASE Start(q)
      <4>1. ProcsOK
        BY <2>1
      <4>2. Pc(q) = "idle" /\ \A r \in Procs \ {q} : proc'[r].pc = proc[r].pc
        BY <3>3, <4>1, StartKeeps
      <4> QED BY <4>2 DEF Ended, Pc
    <3>4. CASE Kill(q)
      <4>1. OthersKept(q) /\ proc'[q].pc # "exited"
        <5>1. \/ Leaves(q, "killed", 0, << >>, None)
              \/ Move(q, "left nasm")
              \/ Move(q, "left ld")
          BY <3>4 DEF Kill
        <5>2. ProcsOK
          BY <2>1
        <5>3. CASE Leaves(q, "killed", 0, << >>, None)
          BY <5>2, <5>3, LeavesEffect
        <5>4. CASE Move(q, "left nasm")
          <6>1. OthersKept(q) /\ proc'[q].pc = "left nasm"
            BY <5>2, <5>4, MoveEffect
          <6> QED BY <6>1
        <5>5. CASE Move(q, "left ld")
          <6>1. OthersKept(q) /\ proc'[q].pc = "left ld"
            BY <5>2, <5>5, MoveEffect
          <6> QED BY <6>1
        <5> QED BY <5>1, <5>3, <5>4, <5>5
      <4> QED BY <4>1 DEF OthersKept, Ended
    <3>5. CASE Step(q)
      <4>1. OthersKept(q)
        BY <2>1, <3>5, StepEffect
      <4> QED BY <3>5, <4>1 DEF OthersKept, Ended
    <3> QED BY <3>2, <3>3, <3>4, <3>5
  <2>3. ASSUME NEW code, Fail(p, code)
        PROVE  FALSE
    <3>1. proc'[p].exit = 1
      BY <2>1, <2>3, FailEffect
    <3> QED BY <3>1
  <2>4. ASSUME NEW pc \in Writing \cup Building, Move(p, pc)
        PROVE  FALSE
    <3>1. proc'[p].pc = pc
      BY <2>1, <2>4, MoveEffect
    <3> QED BY <3>1 DEF Writing, Building
  <2>5. ~IoError(p)
    BY <2>3 DEF IoError
  <2>11. CASE Outlives(p)
    <3>1. proc'[p].pc = "killed"
      BY <2>1, <2>11, LeavesEffect DEF Outlives
    <3> QED BY <3>1
  <2>6. CASE Initialises(p) \/ clean(p)
    <3>1. Pc(p) \in Writing \cup {"clean"}
      BY <2>6 DEF Initialises, mksrc, create_pkg, open_pkg, write_pkg, create_main, open_main, write_main, clean, At, Writing
    <3> QED BY <2>1, <3>1 DEF ProcOK, Pc
  <2>7. CASE LoadPackage(p) \/ Compile(p)
    <3>1. proc'[p].pc = "exited" => proc'[p].exit = 1 \/ proc[p].cmd = "check"
      BY <2>1, <2>7, LoadEffect, CompileEffect
    <3> QED BY <3>1
  <2>8. CASE create_build_dir(p) \/ open_asm(p) \/ write_asm(p) \/ nasm(p)
    <3>1. \E pc \in Building : Move(p, pc)
      BY <2>3, <2>5, <2>8 DEF create_build_dir, open_asm, write_asm, nasm, Building
    <3> QED BY <2>4, <3>1
  <2>9. CASE ld(p)
    <3>1. /\ Pc(p) = "ld" /\ Name(p) \in Names
          /\ asm[Name(p)] = proc[p].unit /\ obj[Name(p)] = proc[p].unit
      BY <2>1, <2>9 DEF ld, At, OwnWork, Building, ProcOK, Pc, Name
    <3>2. /\ asm' = asm /\ obj' = obj /\ proc[p].cmd # "run"
          /\ bin' = [bin EXCEPT ![Name(p)] = obj[Name(p)]]
      BY <2>3, <2>4, <2>9 DEF ld, Links, Building
    <3>3. bin'[Name(p)] = proc[p].unit
      BY <2>1, <3>1, <3>2 DEF BuildsOK
    <3> QED BY <3>1, <3>2, <3>3
  <2>10. CASE exec(p)
    <3>1. /\ Pc(p) = "exec" /\ asm[Name(p)] = proc[p].unit /\ obj[Name(p)] = proc[p].unit
          /\ bin[Name(p)] = proc[p].unit
      BY <2>1, <2>10 DEF exec, At, OwnWork
    <3>2. UNCHANGED build /\ \E code, diags : Leaves(p, "exited", code, diags, bin[Name(p)])
      BY <2>5, <2>10 DEF exec
    <3>3. proc'[p].ran = bin[Name(p)]
      BY <2>1, <3>2, LeavesEffect
    <3> QED BY <3>1, <3>2, <3>3 DEF build
  <2> QED BY <2>2, <2>6, <2>7, <2>8, <2>9, <2>10, <2>11 DEF Step, Initialises
<1>2. BuildInv /\ [Next]_vars => \A p \in Procs : Current(p)
  BY <1>1
<1>3. BuildInv /\ [Next]_vars => [\A p \in Procs : Current(p)]_vars
  BY <1>2
<1> QED BY <1>3, BuildInvariance, PTL DEF Spec, SuccessIsCurrent
=============================================================================
