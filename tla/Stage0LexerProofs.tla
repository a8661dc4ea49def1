------------------------- MODULE Stage0LexerProofs -------------------------
(***************************************************************************)
(* What is proved of the lexer of the Rust stage-0 compiler, for every     *)
(* text: the tokens tile it, line and column are those of the byte, an     *)
(* integer raises E1003 exactly when it is not one, and the one panic is   *)
(* where it is said to be.                                                 *)
(***************************************************************************)
EXTENDS Stage0Lexer, Integers, FiniteSetTheorems, NaturalsInduction,
        WellFoundedInduction, SequenceTheorems, TLAPS

(* The handlers that are loops, and their diagnostics.                     *)
Handlers == {"ident", "int", "string", "byte", "line", "block"}
Codes == {"E0101", "E0102", "E1001", "E1002", "E1003"}

Position == [byte : Nat, line : Nat, column : Nat]
TokenType == [kind : Kinds \cup {"Eof"}, from : Nat, to : Nat]
DiagnosticType == [code : Codes, from : Nat, to : Nat]
NumberType == [base : {2, 10, 16}, digits : Nat, digit : BOOLEAN, underscore : BOOLEAN,
               saw : BOOLEAN]

LexTypeOK ==
  /\ text \in Seq(Bytes)
  /\ pos \in Position /\ start \in Position
  /\ tokens \in Seq(TokenType)
  /\ diagnostics \in Seq(DiagnosticType)
  /\ mode \in Handlers \cup {"scan"}
  /\ number \in NumberType
  /\ status \in {"running", "done", "panic"}

(* Line and column of a position, as PositionExact has them.               *)
Breaking(n) == {i \in 1 .. n : EndsLine(i)}
Latest(S) == IF S = {} THEN 0 ELSE CHOOSE i \in S : \A j \in S : j <= i
Exact(p) ==
  /\ p.line = 1 + Cardinality(Breaking(p.byte))
  /\ p.column = 1 + p.byte - Latest(Breaking(p.byte))
  /\ p.byte > 0 => ~(text[p.byte] = "cr" /\ ~EndsLine(p.byte))

(* A position of the text.                                                 *)
Standing(p) == p \in Position /\ p.byte <= Len(text) /\ Exact(p)

(* What the tokens cover, as the tape has it.                              *)
Covered == IF mode = "scan" THEN pos.byte ELSE start.byte

(* A handler has read something, or is about to read a digit.              *)
Reading ==
  mode # "scan" =>
    \/ start.byte < pos.byte
    \/ mode = "int" /\ start.byte = pos.byte /\ peek(pos) \in Digits

(* Nothing was reported, and no token made, of what is not covered; only   *)
(* the handler that runs reports from where it started.                    *)
Behind ==
  /\ \A j \in 1 .. Len(diagnostics) :
       diagnostics[j].from <= Covered /\ (mode = "scan" => diagnostics[j].from < Covered)
  /\ \A i \in 1 .. Len(tokens) :
       tokens[i].kind # "Eof" => tokens[i].from < tokens[i].to /\ tokens[i].to <= Covered

(* The bytes of a number so far.                                           *)
Wrong(from) == \E j \in 1 .. Len(diagnostics) :
                 diagnostics[j].code = "E1003" /\ diagnostics[j].from = from
BaseAt(b) ==
  IF text[b + 1] # "0" \/ ~(b + 2 <= Len(text)) THEN 10
  ELSE IF text[b + 2] = "x" THEN 16 ELSE IF text[b + 2] = "b" THEN 2 ELSE 10
IsDigitOf(base, i) == digit_value(text[i]) < base
BadByte(base, digits, i) ==
  /\ ~IsDigitOf(base, i)
  /\ ~(text[i] = "_" /\ digits + 1 < i /\ IsDigitOf(base, i - 1))

(* A number with a fault so far has a byte that is one; in one without, the*)
(* flags say what the last byte was.                                       *)
NumberRead ==
  mode = "int" =>
    /\ start.byte < Len(text) /\ text[start.byte + 1] \in Digits
    /\ number.base = BaseAt(start.byte)
    /\ number.digits = start.byte + (IF number.base = 10 THEN 0 ELSE 2)
    /\ number.digits <= pos.byte
    /\ IF Wrong(start.byte)
         THEN \E i \in number.digits + 1 .. pos.byte : BadByte(number.base, number.digits, i)
         ELSE /\ \A i \in number.digits + 1 .. pos.byte : ~BadByte(number.base, number.digits, i)
              /\ number.saw <=> number.digits < pos.byte
              /\ number.digit <=> /\ number.digits < pos.byte
                                  /\ IsDigitOf(number.base, pos.byte)
              /\ number.underscore <=> number.digits < pos.byte /\ text[pos.byte] = "_"

LexInv ==
  /\ LexTypeOK
  /\ Standing(pos)
  /\ Reading
  /\ Behind
  /\ NumberRead
  /\ IntegersAsWritten
  /\ status = "panic" => PanicsAtHex
-----------------------------------------------------------------------------
(* Lines and columns.                                                      *)

Less == OpToRel(<, Nat)

(* Every set of numbers that is not empty has a least one.                 *)
LEMMA LeastNumber ==
  ASSUME NEW S \in SUBSET Nat, S # {}
  PROVE  \E m \in S : \A k \in S : m <= k
<1>1. IsWellFoundedOn(Less, Nat)
  BY NatLessThanWellFounded DEF Less
<1>2. PICK m \in S : \A k \in S : ~(<<k, m>> \in Less)
  BY <1>1, WFMin, Zenon
<1>3. \A k \in S : ~(k < m)
  BY <1>2 DEF Less, OpToRel
<1> QED BY <1>3

(* Latest is the largest member.                                           *)
LEMMA LatestIs ==
  ASSUME NEW S \in SUBSET Nat, NEW m \in S, \A j \in S : j <= m
  PROVE  Latest(S) = m
<1>1. \E i \in S : \A j \in S : j <= i
  OBVIOUS
<1>2. PICK k : k = CHOOSE i \in S : \A j \in S : j <= i
  OBVIOUS
<1>3. k \in S /\ \A j \in S : j <= k
  BY <1>1, <1>2
<1>4. k = m
  BY <1>3
<1> QED BY <1>2, <1>4 DEF Latest

LEMMA LatestExists ==
  ASSUME NEW n \in Nat, NEW S \in SUBSET (1 .. n)
  PROVE  Latest(S) \in Nat
<1>1. CASE S = {}
  BY <1>1 DEF Latest
<1>2. CASE S # {}
  <2> DEFINE Above == {k \in Nat : \A j \in S : j <= k}
  <2>1. n \in Above
    OBVIOUS
  <2>2. PICK m \in Above : \A k \in Above : m <= k
    BY <2>1, LeastNumber, Zenon
  <2>3. m \in S
    <3>1. SUFFICES ASSUME m \notin S PROVE FALSE
      OBVIOUS
    <3>2. m # 0
      <4>1. PICK j \in S : j \in 1 .. n
        BY <1>2
      <4>2. j <= m
        BY <2>2, <4>1
      <4> QED BY <4>1, <4>2
    <3>3. \A j \in S : j <= m - 1
      BY <2>2, <3>1
    <3>4. m - 1 \in Above
      BY <2>2, <3>2, <3>3
    <3> QED BY <2>2, <3>4
  <2>4. Latest(S) = m
    BY <2>2, <2>3, LatestIs
  <2> QED BY <2>2, <2>4
<1> QED BY <1>1, <1>2

LEMMA BreakingGrows ==
  ASSUME NEW n \in Nat
  PROVE  /\ Cardinality(Breaking(n)) \in Nat /\ Latest(Breaking(n)) \in Nat
         /\ EndsLine(n + 1) => /\ Cardinality(Breaking(n + 1)) = Cardinality(Breaking(n)) + 1
                               /\ Latest(Breaking(n + 1)) = n + 1
         /\ ~EndsLine(n + 1) => Breaking(n + 1) = Breaking(n)
<1>1. Breaking(n) \in SUBSET (1 .. n)
  BY DEF Breaking
<1>2. IsFiniteSet(Breaking(n)) /\ Cardinality(Breaking(n)) \in Nat
  <2>1. IsFiniteSet(1 .. n)
    BY FS_Interval
  <2>2. IsFiniteSet(Breaking(n))
    BY <1>1, <2>1, FS_Subset
  <2> QED BY <2>2, FS_CardinalityType
<1>3. Latest(Breaking(n)) \in Nat
  BY <1>1, LatestExists
<1>4. n + 1 \notin Breaking(n)
  BY <1>1
<1>5. ASSUME EndsLine(n + 1)
      PROVE  Breaking(n + 1) = Breaking(n) \cup {n + 1}
  <2>1. 1 .. n + 1 = (1 .. n) \cup {n + 1}
    OBVIOUS
  <2> QED BY <1>5, <2>1 DEF Breaking
<1>6. ASSUME EndsLine(n + 1)
      PROVE  Cardinality(Breaking(n + 1)) = Cardinality(Breaking(n)) + 1
  BY <1>2, <1>4, <1>5, <1>6, FS_AddElement
<1>7. ASSUME EndsLine(n + 1)
      PROVE  Latest(Breaking(n + 1)) = n + 1
  <2>1. Breaking(n + 1) \in SUBSET Nat /\ n + 1 \in Breaking(n + 1)
    BY <1>1, <1>5, <1>7
  <2>2. \A j \in Breaking(n + 1) : j <= n + 1
    BY <1>1, <1>5, <1>7
  <2> QED BY <2>1, <2>2, LatestIs
<1>8. ASSUME ~EndsLine(n + 1)
      PROVE  Breaking(n + 1) = Breaking(n)
  <2>1. 1 .. n + 1 = (1 .. n) \cup {n + 1}
    OBVIOUS
  <2> QED BY <1>8, <2>1 DEF Breaking
<1> QED BY <1>2, <1>3, <1>6, <1>7, <1>8

(* One byte, or a CR and its LF, further.                                  *)
LEMMA AdvanceStands ==
  ASSUME text \in Seq(Bytes), NEW p, Standing(p), p.byte < Len(text)
  PROVE  /\ Standing(advance(p))
         /\ advance(p).byte = IF peek(p) = "cr" /\ peek_next(p) = "lf" THEN p.byte + 2
                              ELSE p.byte + 1
<1> DEFINE n == p.byte
<1>0. /\ p \in Position /\ n \in Nat /\ p.line \in Nat /\ p.column \in Nat /\ Len(text) \in Nat
      /\ p = [byte |-> p.byte, line |-> p.line, column |-> p.column]
  BY DEF Standing, Position
<1>1. peek(p) = text[n + 1] /\ (peek_next(p) = "lf" <=> n + 2 <= Len(text) /\ text[n + 2] = "lf")
  BY <1>0 DEF peek, is_eof, peek_next
<1>2. /\ p.line = 1 + Cardinality(Breaking(n)) /\ p.column = 1 + n - Latest(Breaking(n))
  BY DEF Standing, Exact
<1>3. Cardinality(Breaking(n)) \in Nat /\ Latest(Breaking(n)) \in Nat
  BY <1>0, BreakingGrows
<1>4. ASSUME NEW m \in {n + 1, n + 2}, m <= Len(text), EndsLine(m),
             Breaking(m - 1) = Breaking(n)
      PROVE  Standing([byte |-> m, line |-> p.line + 1, column |-> 1])
  <2>1. m - 1 \in Nat /\ (m - 1) + 1 = m /\ m \in Nat
    BY <1>0
  <2>2. Cardinality(Breaking(m)) = Cardinality(Breaking(n)) + 1 /\ Latest(Breaking(m)) = m
    BY <1>4, <2>1, BreakingGrows
  <2> DEFINE q == [byte |-> m, line |-> p.line + 1, column |-> 1]
  <2>3. q \in Position
    BY <1>0, <2>1 DEF Position
  <2>4. q.line = 1 + Cardinality(Breaking(q.byte)) /\ q.column = 1 + q.byte - Latest(Breaking(q.byte))
    BY <1>0, <1>2, <1>3, <2>1, <2>2
  <2>5. Exact(q)
    BY <1>4, <2>4 DEF Exact
  <2> QED BY <1>4, <2>3, <2>5 DEF Standing
<1>5. CASE peek(p) = "lf"
  <2>1. EndsLine(n + 1)
    BY <1>1, <1>5 DEF EndsLine
  <2>2. advance(p) = [byte |-> n + 1, line |-> p.line + 1, column |-> 1]
    BY <1>5 DEF advance
  <2>3. Breaking((n + 1) - 1) = Breaking(n) /\ n + 1 <= Len(text)
    BY <1>0
  <2> QED BY <1>4, <1>5, <2>1, <2>2, <2>3
<1>6. CASE peek(p) = "cr" /\ peek_next(p) = "lf"
  <2>1. EndsLine(n + 2) /\ n + 2 <= Len(text)
    BY <1>1, <1>6 DEF EndsLine
  <2>2. ~EndsLine(n + 1)
    BY <1>0, <1>1, <1>6 DEF EndsLine
  <2>3. advance(p) = [byte |-> n + 2, line |-> p.line + 1, column |-> 1]
    BY <1>6 DEF advance
  <2>4. (n + 2) - 1 = n + 1
    BY <1>0
  <2>5. Breaking((n + 2) - 1) = Breaking(n)
    BY <1>0, <2>2, <2>4, BreakingGrows
  <2> QED BY <1>4, <1>6, <2>1, <2>3, <2>5
<1>7. CASE peek(p) = "cr" /\ peek_next(p) # "lf"
  <2>1. EndsLine(n + 1)
    BY <1>0, <1>1, <1>7 DEF EndsLine
  <2>2. advance(p) = [byte |-> n + 1, line |-> p.line + 1, column |-> 1]
    BY <1>7 DEF advance
  <2>3. Breaking((n + 1) - 1) = Breaking(n) /\ n + 1 <= Len(text)
    BY <1>0
  <2> QED BY <1>4, <1>7, <2>1, <2>2, <2>3
<1>8. CASE peek(p) \notin {"lf", "cr"}
  <2>1. ~EndsLine(n + 1)
    BY <1>1, <1>8 DEF EndsLine
  <2>2. advance(p) = [p EXCEPT !.byte = n + 1, !.column = p.column + 1]
    BY <1>8 DEF advance
  <2>3. advance(p) = [byte |-> n + 1, line |-> p.line, column |-> p.column + 1]
    BY <1>0, <2>2
  <2>4. Breaking(n + 1) = Breaking(n)
    BY <1>0, <2>1, BreakingGrows
  <2>5. text[n + 1] # "cr" /\ n + 1 <= Len(text)
    BY <1>0, <1>1, <1>8
  <2> DEFINE q == [byte |-> n + 1, line |-> p.line, column |-> p.column + 1]
  <2>6. q \in Position
    BY <1>0 DEF Position
  <2>7. q.line = 1 + Cardinality(Breaking(q.byte)) /\ q.column = 1 + q.byte - Latest(Breaking(q.byte))
    BY <1>0, <1>2, <1>3, <2>4
  <2>8. Exact(q)
    BY <2>5, <2>7 DEF Exact
  <2> QED BY <1>0, <1>8, <2>3, <2>5, <2>6, <2>8 DEF Standing
<1> QED BY <1>5, <1>6, <1>7, <1>8
-----------------------------------------------------------------------------
(* What the lexer sees.                                                    *)

LEMMA Sight ==
  ASSUME text \in Seq(Bytes), NEW p \in Position
  PROVE  /\ p.byte \in Nat /\ Len(text) \in Nat
         /\ is_eof(p) <=> p.byte >= Len(text)
         /\ p.byte < Len(text) => peek(p) = text[p.byte + 1] /\ peek(p) \in Bytes
         /\ peek(p) = "eof" <=> p.byte >= Len(text)
         /\ p.byte + 2 <= Len(text) => peek_next(p) = text[p.byte + 2]
         /\ peek_next(p) # "none" => p.byte + 2 <= Len(text)
<1>1. p.byte \in Nat /\ Len(text) \in Nat
  BY DEF Position
<1>2. p.byte < Len(text) => peek(p) = text[p.byte + 1] /\ peek(p) \in Bytes
  <2>1. SUFFICES ASSUME p.byte < Len(text) PROVE peek(p) = text[p.byte + 1] /\ peek(p) \in Bytes
    OBVIOUS
  <2>2. p.byte + 1 \in 1 .. Len(text)
    BY <1>1, <2>1
  <2>3. text[p.byte + 1] \in Bytes
    BY <2>2
  <2> QED BY <1>1, <2>1, <2>3 DEF peek, is_eof
<1>3. "eof" \notin Bytes
  BY DEF Bytes, Letters, Digits, Breaks, Punctuation
<1> QED BY <1>1, <1>2, <1>3 DEF peek, is_eof, peek_next

(* The bytes of a token.                                                   *)
LEMMA WordBytes ==
  ASSUME text \in Seq(Bytes), NEW a \in Nat, NEW b \in Nat, a <= b, b <= Len(text)
  PROVE  /\ SubSeq(text, a + 1, b) \in Seq(Bytes) /\ Len(SubSeq(text, a + 1, b)) = b - a
         /\ \A i \in 1 .. b - a : SubSeq(text, a + 1, b)[i] = text[a + i]
<1>1. \A i \in a + 1 .. b : text[i] \in Bytes
  OBVIOUS
<1>2. /\ SubSeq(text, a + 1, b) \in Seq(Bytes)
      /\ Len(SubSeq(text, a + 1, b)) = IF a + 1 <= b THEN b - (a + 1) + 1 ELSE 0
      /\ \A i \in 1 .. b - (a + 1) + 1 : SubSeq(text, a + 1, b)[i] = text[(a + 1) + i - 1]
  BY <1>1, SubSeqProperties
<1> DEFINE w == SubSeq(text, a + 1, b)
<1> HIDE DEF w
<1>3. Len(w) = b - a
  BY <1>2 DEF w
<1>4. ASSUME NEW i \in 1 .. b - a PROVE w[i] = text[a + i]
  <2>1. i \in 1 .. b - (a + 1) + 1 /\ (a + 1) + i - 1 = a + i
    OBVIOUS
  <2> QED BY <1>2, <2>1 DEF w
<1> QED BY <1>2, <1>3, <1>4 DEF w

(* Two bytes further, of which the first is not a CR.                      *)
LEMMA AdvanceTwice ==
  ASSUME text \in Seq(Bytes), NEW p, Standing(p), p.byte + 2 <= Len(text), peek(p) # "cr"
  PROVE  /\ Standing(advance(p)) /\ advance(p).byte = p.byte + 1
         /\ peek(advance(p)) = text[p.byte + 2]
         /\ Standing(advance(advance(p)))
         /\ advance(advance(p)).byte >= p.byte + 2
         /\ text[p.byte + 2] # "cr" => advance(advance(p)).byte = p.byte + 2
<1> DEFINE q == advance(p)
<1>0. p \in Position /\ p.byte \in Nat /\ Len(text) \in Nat
  BY DEF Standing, Position
<1>1. Standing(q) /\ q.byte = p.byte + 1
  BY <1>0, AdvanceStands
<1> HIDE DEF q
<1>2. q \in Position /\ q.byte < Len(text)
  BY <1>0, <1>1 DEF Standing
<1>3. q.byte + 1 = p.byte + 2
  BY <1>0, <1>1
<1>4. peek(q) = text[p.byte + 2]
  BY <1>2, <1>3, Sight
<1>5. Standing(advance(q)) /\ advance(q).byte = IF peek(q) = "cr" /\ peek_next(q) = "lf" THEN q.byte + 2 ELSE q.byte + 1
  BY <1>1, <1>2, AdvanceStands
<1> QED BY <1>0, <1>1, <1>4, <1>5 DEF q

-----------------------------------------------------------------------------
(* What a step does to the diagnostics: those it adds are about what is    *)
(* not covered yet.                                                        *)
Extends ==
  /\ diagnostics' \in Seq(DiagnosticType)
  /\ Len(diagnostics) <= Len(diagnostics')
  /\ \A j \in 1 .. Len(diagnostics) : diagnostics'[j] = diagnostics[j]
  /\ \A j \in Len(diagnostics) + 1 .. Len(diagnostics') : diagnostics'[j].from = Covered
Faulted == Len(diagnostics) < Len(diagnostics')

LEMMA Reported ==
  ASSUME LexTypeOK, NEW code \in Codes, NEW q \in Position, NEW p \in Position,
         q.byte = Covered, diagnostics' = Append(diagnostics, Diagnostic(code, q, p))
  PROVE  /\ Extends /\ Faulted
         /\ diagnostics'[Len(diagnostics')] = Diagnostic(code, q, p)
         /\ Len(diagnostics') = Len(diagnostics) + 1
<1> DEFINE d == Diagnostic(code, q, p)
<1>1. diagnostics \in Seq(DiagnosticType) /\ Len(diagnostics) \in Nat
  BY DEF LexTypeOK
<1>2. d \in DiagnosticType /\ d.from = Covered
  BY DEF Diagnostic, DiagnosticType, Position
<1> HIDE DEF d
<1>3. /\ Append(diagnostics, d) \in Seq(DiagnosticType)
      /\ Len(Append(diagnostics, d)) = Len(diagnostics) + 1
      /\ \A j \in 1 .. Len(diagnostics) : Append(diagnostics, d)[j] = diagnostics[j]
      /\ Append(diagnostics, d)[Len(diagnostics) + 1] = d
  BY <1>1, <1>2
<1>4. diagnostics' = Append(diagnostics, d)
  BY DEF d
<1>5. \A j \in Len(diagnostics) + 1 .. Len(diagnostics') : j = Len(diagnostics) + 1
  BY <1>1, <1>3, <1>4
<1> QED BY <1>1, <1>2, <1>3, <1>4, <1>5 DEF Extends, Faulted, d

LEMMA ReportedTwice ==
  ASSUME LexTypeOK, NEW code \in Codes, NEW other \in Codes, NEW q \in Position, NEW p \in Position,
         q.byte = Covered,
         diagnostics' = Append(Append(diagnostics, Diagnostic(code, q, p)), Diagnostic(other, q, p))
  PROVE  Extends /\ Faulted
<1> DEFINE d == Diagnostic(code, q, p)
           e == Diagnostic(other, q, p)
<1>1. diagnostics \in Seq(DiagnosticType) /\ Len(diagnostics) \in Nat
  BY DEF LexTypeOK
<1>2. d \in DiagnosticType /\ d.from = Covered /\ e \in DiagnosticType /\ e.from = Covered
  BY DEF Diagnostic, DiagnosticType, Position
<1>3. diagnostics' = Append(Append(diagnostics, d), e)
  OBVIOUS
<1> HIDE DEF d, e
<1>4. /\ diagnostics' \in Seq(DiagnosticType)
      /\ Len(diagnostics') = Len(diagnostics) + 2
      /\ \A j \in 1 .. Len(diagnostics) : diagnostics'[j] = diagnostics[j]
      /\ diagnostics'[Len(diagnostics) + 1] = d
      /\ diagnostics'[Len(diagnostics) + 2] = e
  BY <1>1, <1>2, <1>3
<1>5. \A j \in Len(diagnostics) + 1 .. Len(diagnostics') :
         j = Len(diagnostics) + 1 \/ j = Len(diagnostics) + 2
  BY <1>1, <1>4
<1> QED BY <1>1, <1>2, <1>4, <1>5 DEF Extends, Faulted

LEMMA Unreported ==
  ASSUME LexTypeOK, diagnostics' = diagnostics
  PROVE  Extends
BY DEF LexTypeOK, Extends

-----------------------------------------------------------------------------
(* The six ways a step may go.                                             *)

WordKinds == {"IntLit", "Ident", "If"}

(* A blank is passed.                                                      *)
Passes ==
  /\ mode = "scan" /\ pos.byte < Len(text) /\ text[pos.byte + 1] = "sp"
  /\ Standing(pos') /\ pos'.byte = pos.byte + 1
  /\ UNCHANGED <<text, tokens, diagnostics, mode, start, number, status>>

(* A token is made of all that was not covered, up to the new position.    *)
Takes(kind) ==
  /\ mode' = "scan" /\ Standing(pos') /\ Covered < pos'.byte
  /\ tokens' = Append(tokens, [kind |-> kind, from |-> Covered, to |-> pos'.byte])
  /\ Extends /\ (kind = "Error" => Faulted)
  /\ kind \in WordKinds => mode # "scan" /\ pos' = pos /\ ~is_ident_rest(peek(pos))
  /\ kind = "IntLit" => IntEnd
  /\ UNCHANGED <<text, start, number, status>>

(* A handler begins.                                                       *)
Enters ==
  /\ mode = "scan" /\ mode' \in Handlers /\ start' = pos /\ Standing(pos')
  /\ \/ pos.byte < pos'.byte
     \/ mode' = "int" /\ pos' = pos /\ peek(pos) \in Digits
  /\ number' \in NumberType
  /\ mode' = "int" => lex_int
  /\ UNCHANGED <<text, tokens, diagnostics, status>>

(* A handler goes on.                                                      *)
Goes ==
  /\ mode \in Handlers /\ Standing(pos') /\ pos.byte < pos'.byte
  /\ Extends
  /\ number' \in NumberType
  /\ mode = "int" => IntDigit \/ IntSeparator \/ IntBadDigit
  /\ UNCHANGED <<text, tokens, mode, start, status>>

Panics ==
  /\ status' = "panic" /\ PanicsAtHex'
  /\ mode # "scan"
  /\ UNCHANGED <<text, pos, tokens, diagnostics, mode, start, number>>

(* What is known of the position the lexer is at.                          *)
LEMMA Here ==
  ASSUME LexInv
  PROVE  /\ text \in Seq(Bytes) /\ Len(text) \in Nat
         /\ Standing(pos) /\ pos \in Position /\ pos.byte \in Nat /\ pos.byte <= Len(text)
         /\ start \in Position /\ start.byte \in Nat /\ (start.byte <= pos.byte \/ mode = "scan")
         /\ is_eof(pos) <=> pos.byte >= Len(text)
         /\ pos.byte < Len(text) => peek(pos) = text[pos.byte + 1] /\ peek(pos) \in Bytes
         /\ peek(pos) = "eof" <=> pos.byte >= Len(text)
         /\ peek_next(pos) # "none" => pos.byte + 2 <= Len(text)
         /\ pos.byte + 2 <= Len(text) => peek_next(pos) = text[pos.byte + 2]
<1>1. text \in Seq(Bytes) /\ pos \in Position /\ start \in Position /\ Standing(pos)
  BY DEF LexInv, LexTypeOK
<1>2. start.byte \in Nat /\ pos.byte \in Nat /\ pos.byte <= Len(text)
  BY <1>1 DEF Position, Standing
<1>3. start.byte <= pos.byte \/ mode = "scan"
  BY <1>2 DEF LexInv, Reading
<1> QED BY <1>1, <1>2, <1>3, Sight

(* One byte further.                                                       *)
LEMMA OnwardFrom ==
  ASSUME LexInv, ~is_eof(pos)
  PROVE  /\ Standing(advance(pos)) /\ pos.byte < advance(pos).byte
         /\ peek(pos) # "cr" => advance(pos).byte = pos.byte + 1
<1>1. text \in Seq(Bytes) /\ Standing(pos) /\ pos.byte \in Nat /\ pos.byte < Len(text)
  BY Here
<1> QED BY <1>1, AdvanceStands

(* The arms of the dispatch.                                               *)
LEMMA BlankPasses ==
  ASSUME LexInv, Blank
  PROVE  Passes
<1>1. ~is_eof(pos) /\ peek(pos) = "sp" /\ mode = "scan" /\ pos' = advance(pos)
  BY DEF Blank, Scanning, In
<1>2. Standing(pos') /\ pos'.byte = pos.byte + 1
  BY <1>1, OnwardFrom DEF Standing, Position, Exact, EndsLine
<1> QED BY <1>1, <1>2, Here DEF Blank, Keep, Passes

(* A whole token at once.                                                  *)
LEMMA PushWholeTakes ==
  ASSUME LexInv, NEW kind \in Kinds \ WordKinds, NEW p, Standing(p), pos.byte < p.byte,
         mode = "scan", PushWhole(kind, p), Extends, kind = "Error" => Faulted, Keep
  PROVE  Takes(kind)
<1>1. kind # "IntLit" /\ kind \notin WordKinds
  BY DEF WordKinds
<1>2. Covered = pos.byte
  BY DEF Covered
<1>3. pos' = p /\ tokens' = Append(tokens, [kind |-> kind, from |-> pos.byte, to |-> p.byte])
  BY DEF PushWhole, Token
<1> QED BY <1>1, <1>2, <1>3 DEF PushWhole, Keep, Takes, Standing, Position, Exact, EndsLine

LEMMA NewlineTakes ==
  ASSUME LexInv, lex_newline
  PROVE  Takes("Newline")
<1>1. /\ ~is_eof(pos) /\ mode = "scan" /\ peek(pos) \in Breaks /\ Keep /\ diagnostics' = diagnostics
      /\ pos.byte < Len(text)
  BY Here DEF lex_newline, Scanning, In
<1>2. pos' = advance(pos) /\ PushWhole("Newline", advance(pos))
  BY DEF lex_newline, PushWhole, advance
<1>3. Standing(advance(pos)) /\ pos.byte < advance(pos).byte
  BY <1>1, OnwardFrom
<1>4. Extends
  BY <1>1, Unreported DEF LexInv
<1>5. "Newline" \in Kinds \ WordKinds
  BY DEF Kinds, WordKinds
<1> QED BY <1>1, <1>2, <1>3, <1>4, <1>5, PushWholeTakes

LEMMA SingleTakes ==
  ASSUME LexInv, single
  PROVE  \E kind \in Kinds : Takes(kind)
<1>1. ~is_eof(pos) /\ mode = "scan" /\ peek(pos) \in Punctuation /\ Keep /\ diagnostics' = diagnostics
  BY DEF single, Scanning, In
<1>2. PICK kind : kind = Single[peek(pos)]
  OBVIOUS
<1>3. kind \in Kinds \ WordKinds /\ kind # "Error"
  <2>1. kind \in {"Slash", "Star", "Eq", "Minus", "Gt"}
    BY <1>1, <1>2 DEF Single
  <2> QED BY <2>1 DEF Kinds, WordKinds
<1>4. PushWhole(kind, advance(pos))
  BY <1>2 DEF single
<1>5. Standing(advance(pos)) /\ pos.byte < advance(pos).byte
  BY <1>1, OnwardFrom
<1>6. Extends
  BY <1>1, Unreported DEF LexInv
<1> QED BY <1>1, <1>3, <1>4, <1>5, <1>6, PushWholeTakes

LEMMA DoubleTakes ==
  ASSUME LexInv, double
  PROVE  \E kind \in Kinds : Takes(kind)
<1>1. ~is_eof(pos) /\ mode = "scan" /\ Keep /\ diagnostics' = diagnostics
  BY DEF double, Scanning, In
<1>2. PICK kind : kind = Double(peek(pos), peek_next(pos))
  OBVIOUS
<1>3. /\ kind \in {"Arrow", "EqEq", "GtEq"} /\ peek(pos) \in {"-", "=", ">"}
      /\ peek_next(pos) \in {"=", ">"}
  BY <1>2 DEF double, Double
<1>4. kind \in Kinds \ WordKinds /\ kind # "Error"
  BY <1>3 DEF Kinds, WordKinds
<1>5. PushWhole(kind, advance(advance(pos)))
  BY <1>2 DEF double
<1>6. pos.byte + 2 <= Len(text) /\ text \in Seq(Bytes) /\ Standing(pos) /\ peek(pos) # "cr"
  BY <1>3, Here
<1>7. Standing(advance(advance(pos))) /\ advance(advance(pos)).byte >= pos.byte + 2
  BY <1>6, AdvanceTwice
<1>8. pos.byte < advance(advance(pos)).byte
  BY <1>7, Here DEF Standing, Position
<1>9. Extends
  BY <1>1, Unreported DEF LexInv
<1> QED BY <1>1, <1>4, <1>5, <1>7, <1>8, <1>9, PushWholeTakes

LEMMA InvalidTakes ==
  ASSUME LexInv, invalid_char
  PROVE  Takes("Error")
<1>1. ~is_eof(pos) /\ mode = "scan" /\ Keep
  BY DEF invalid_char, Scanning, In
<1>2. Standing(advance(pos)) /\ pos.byte < advance(pos).byte /\ advance(pos) \in Position
  BY <1>1, OnwardFrom DEF Standing
<1>3. diagnostics' = Append(diagnostics, Diagnostic("E0102", pos, advance(pos)))
  BY DEF invalid_char
<1>4. Extends /\ Faulted
  <2>1. pos \in Position /\ "E0102" \in Codes /\ pos.byte = Covered /\ LexTypeOK
    BY <1>1, Here DEF Codes, Covered, LexInv
  <2> QED BY <1>2, <1>3, <2>1, Reported
<1>5. "Error" \in Kinds \ WordKinds /\ PushWhole("Error", advance(pos))
  BY DEF Kinds, WordKinds, invalid_char
<1> QED BY <1>1, <1>2, <1>4, <1>5, PushWholeTakes

(* A handler begins behind its first bytes.                                *)
LEMMA EnterEnters ==
  ASSUME LexInv, NEW handler \in Handlers, NEW p, Standing(p),
         \/ pos.byte < p.byte
         \/ handler = "int" /\ p = pos /\ peek(pos) \in Digits,
         mode = "scan", Enter(handler, p), Keep, number' \in NumberType,
         handler = "int" => lex_int
  PROVE  Enters
<1>1. mode' = handler /\ start' = pos /\ pos' = p
  BY DEF Enter
<1>2. Standing(pos')
  BY <1>1 DEF Standing, Position, Exact, EndsLine
<1> QED BY <1>1, <1>2 DEF Enter, Keep, Enters

LEMMA HandlersEnter ==
  ASSUME LexInv, lex_ident \/ lex_string \/ lex_byte_lit
  PROVE  Enters
<1>1. PICK handler \in Handlers \ {"int"} :
         ~is_eof(pos) /\ mode = "scan" /\ Enter(handler, advance(pos)) /\ number' = number /\ Keep
  BY DEF lex_ident, lex_string, lex_byte_lit, Scanning, In, Handlers
<1>2. Standing(advance(pos)) /\ pos.byte < advance(pos).byte
  BY <1>1, OnwardFrom
<1>3. number' \in NumberType
  BY <1>1 DEF LexInv, LexTypeOK
<1> QED BY <1>1, <1>2, <1>3, EnterEnters

LEMMA CommentEnters ==
  ASSUME LexInv, lex_comment
  PROVE  Enters
<1>1. /\ ~is_eof(pos) /\ mode = "scan" /\ number' = number /\ Keep /\ peek(pos) = "/"
      /\ peek_next(pos) \in {"/", "*"}
  BY DEF lex_comment, Scanning, In
<1>2. PICK handler \in Handlers \ {"int"} : Enter(handler, advance(advance(pos)))
  BY DEF lex_comment, Handlers
<1>3. pos.byte + 2 <= Len(text) /\ text \in Seq(Bytes) /\ Standing(pos)
  BY <1>1, Here
<1>4. Standing(advance(advance(pos))) /\ advance(advance(pos)).byte >= pos.byte + 2
  BY <1>1, <1>3, AdvanceTwice
<1>5. pos.byte < advance(advance(pos)).byte
  BY <1>4, Here DEF Standing, Position
<1>6. number' \in NumberType
  BY <1>1 DEF LexInv, LexTypeOK
<1> QED BY <1>1, <1>2, <1>4, <1>5, <1>6, EnterEnters

(* Where the digits of a number begin.                                     *)
LEMMA NumberBegins ==
  ASSUME LexInv, lex_int
  PROVE  /\ ~is_eof(pos) /\ mode = "scan" /\ peek(pos) \in Digits /\ Keep
         /\ PrefixBase = BaseAt(pos.byte) /\ PrefixBase \in {2, 10, 16}
         /\ Enter("int", pos') /\ Standing(pos')
         /\ PrefixBase = 10 => pos' = pos
         /\ PrefixBase # 10 => pos'.byte = pos.byte + 2
         /\ number' = [base |-> PrefixBase, digits |-> pos'.byte, digit |-> FALSE,
                       underscore |-> FALSE, saw |-> FALSE]
<1> DEFINE body == IF PrefixBase = 10 THEN pos ELSE advance(advance(pos))
<1>1. /\ ~is_eof(pos) /\ mode = "scan" /\ peek(pos) \in Digits /\ Keep
      /\ Enter("int", body) /\ number' = [NoNumber EXCEPT !.base = PrefixBase, !.digits = body.byte]
  BY DEF lex_int, Scanning, In
<1>2. pos' = body
  BY <1>1 DEF Enter
<1>3. peek(pos) = text[pos.byte + 1]
  BY <1>1, Here
<1>4. PrefixBase = BaseAt(pos.byte) /\ PrefixBase \in {2, 10, 16}
  <2>1. CASE peek(pos) # "0"
    BY <1>3, <2>1 DEF PrefixBase, BaseAt
  <2>2. CASE peek(pos) = "0" /\ pos.byte + 2 <= Len(text)
    BY <1>3, <2>2, Here DEF PrefixBase, BaseAt
  <2>3. CASE peek(pos) = "0" /\ ~(pos.byte + 2 <= Len(text))
    <3>1. peek_next(pos) = "none"
      BY <2>3, Here
    <3> QED BY <1>3, <2>3, <3>1 DEF PrefixBase, BaseAt
  <2> QED BY <2>1, <2>2, <2>3
<1>5. ASSUME PrefixBase # 10
      PROVE  Standing(advance(advance(pos))) /\ advance(advance(pos)).byte = pos.byte + 2
  <2>1. peek(pos) = "0" /\ peek_next(pos) \in {"x", "b"}
    BY <1>5 DEF PrefixBase
  <2>2. pos.byte + 2 <= Len(text) /\ text[pos.byte + 2] # "cr" /\ text \in Seq(Bytes) /\ Standing(pos)
    BY <2>1, Here
  <2> QED BY <2>1, <2>2, AdvanceTwice
<1>6. Standing(body)
  BY <1>5, Here
<1>7. Standing(pos')
  BY <1>2, <1>6
<1>8. number' = [base |-> PrefixBase, digits |-> pos'.byte, digit |-> FALSE,
                 underscore |-> FALSE, saw |-> FALSE]
  BY <1>1, <1>2 DEF NoNumber
<1>9. (PrefixBase = 10 => pos' = pos) /\ (PrefixBase # 10 => pos'.byte = pos.byte + 2)
  BY <1>2, <1>5
<1> QED BY <1>1, <1>2, <1>4, <1>7, <1>8, <1>9

LEMMA IntEnters ==
  ASSUME LexInv, lex_int
  PROVE  Enters
<1>1. pos'.byte \in Nat
  BY NumberBegins DEF Standing, Position
<1>2. number' \in NumberType
  <2>1. PrefixBase \in {2, 10, 16}
    BY NumberBegins
  <2>2. number' = [base |-> PrefixBase, digits |-> pos'.byte, digit |-> FALSE,
                   underscore |-> FALSE, saw |-> FALSE]
    BY NumberBegins, Zenon
  <2> QED BY <1>1, <2>1, <2>2 DEF NumberType
<1>3. pos.byte < pos'.byte \/ (pos' = pos /\ peek(pos) \in Digits)
  BY NumberBegins, Here
<1>4. "int" \in Handlers
  BY DEF Handlers
<1> QED BY <1>2, <1>3, <1>4, NumberBegins, EnterEnters DEF Enters, Enter, Keep

(* A handler goes on.                                                      *)
LEMMA GoOn ==
  ASSUME LexInv, mode \in Handlers, NEW p, Standing(p), pos.byte < p.byte, pos' = p,
         Extends, number' = number, mode # "int", UNCHANGED <<tokens, mode, start>>, Keep
  PROVE  Goes
<1>1. number' \in NumberType
  BY DEF LexInv, LexTypeOK
<1>2. Standing(pos') /\ pos.byte < pos'.byte
  OBVIOUS
<1> QED BY <1>1, <1>2 DEF Goes, Keep

LEMMA BytesGo ==
  ASSUME LexInv, IdentByte \/ StringByte \/ ByteByte \/ CommentByte
  PROVE  Goes
<1>1. /\ mode \in Handlers \ {"int"} /\ pos' = advance(pos)
      /\ UNCHANGED <<tokens, diagnostics, mode, start, number>> /\ Keep
  BY DEF IdentByte, StringByte, ByteByte, CommentByte, In, Handlers
<1>2. ~is_eof(pos)
  <2>1. CASE IdentByte
    <3>1. is_ident_rest(peek(pos))
      BY <2>1 DEF IdentByte
    <3> QED BY <3>1, Here DEF is_ident_rest, Letters, Digits
  <2> QED BY <2>1 DEF StringByte, ByteByte, CommentByte
<1>3. Standing(advance(pos)) /\ pos.byte < advance(pos).byte
  BY <1>2, OnwardFrom
<1>4. Extends
  BY <1>1, Unreported DEF LexInv
<1> QED BY <1>1, <1>3, <1>4, GoOn

(* A report from where the handler started.                                *)
LEMMA ReportExtends ==
  ASSUME LexInv, mode \in Handlers, NEW code \in Codes, NEW p, Standing(p), Report(code, p)
  PROVE  /\ Extends /\ Faulted
         /\ diagnostics'[Len(diagnostics')] = Diagnostic(code, start, p)
         /\ Len(diagnostics') = Len(diagnostics) + 1
<1>1. start.byte = Covered /\ start \in Position /\ p \in Position /\ LexTypeOK
  BY DEF Covered, Handlers, LexInv, LexTypeOK, Standing
<1>2. diagnostics' = Append(diagnostics, Diagnostic(code, start, p))
  BY DEF Report
<1> QED BY <1>1, <1>2, Reported

LEMMA IntStepGoes ==
  ASSUME LexInv, IntDigit \/ IntSeparator \/ IntBadDigit
  PROVE  /\ Goes /\ ~is_eof(pos) /\ pos' = advance(pos) /\ pos'.byte = pos.byte + 1
<1>1. /\ mode = "int" /\ pos' = advance(pos) /\ UNCHANGED <<tokens, mode, start>> /\ Keep
      /\ diagnostics' = diagnostics \/ Report("E1003", pos)
  BY DEF IntDigit, IntSeparator, IntBadDigit, In
<1>2. number.base <= 16
  BY DEF LexInv, LexTypeOK, NumberType
<1>3. peek(pos) # "eof" /\ peek(pos) # "cr"
  <2>1. CASE IntDigit
    <3>1. digit_value(peek(pos)) < number.base
      BY <2>1 DEF IntDigit
    <3>2. digit_value("eof") = 16 /\ digit_value("cr") = 16
      BY DEF digit_value
    <3>3. number.base \in Nat
      BY DEF LexInv, LexTypeOK, NumberType
    <3> QED BY <1>2, <3>1, <3>2, <3>3
  <2>2. CASE IntSeparator
    BY <2>2 DEF IntSeparator
  <2>3. CASE IntBadDigit
    BY <2>3 DEF IntBadDigit, Letters, Digits
  <2> QED BY <2>1, <2>2, <2>3
<1>4. ~is_eof(pos)
  BY <1>3, Here
<1>5. Standing(advance(pos)) /\ pos.byte < advance(pos).byte /\ advance(pos).byte = pos.byte + 1
  BY <1>3, <1>4, OnwardFrom
<1>6. Extends
  <2>1. CASE diagnostics' = diagnostics
    BY <2>1, Unreported DEF LexInv
  <2>2. CASE Report("E1003", pos)
    BY <1>1, <2>2, Here, ReportExtends DEF Codes, Handlers
  <2> QED BY <1>1, <2>1, <2>2
<1>7. number' \in NumberType
  <2>1. number \in NumberType
    BY DEF LexInv, LexTypeOK
  <2>2. CASE IntDigit
    BY <2>1, <2>2 DEF IntDigit, NumberType
  <2>3. CASE IntSeparator
    BY <2>1, <2>3 DEF IntSeparator, NumberType
  <2>4. CASE IntBadDigit
    BY <2>1, <2>4 DEF IntBadDigit
  <2> QED BY <2>2, <2>3, <2>4
<1>8. Standing(pos') /\ pos.byte < pos'.byte
  BY <1>1, <1>5
<1> QED BY <1>1, <1>4, <1>5, <1>6, <1>7, <1>8 DEF Goes, Keep, Handlers

(* A handler ends and its token is pushed.                                 *)
LEMMA PushTakes ==
  ASSUME LexInv, mode \in Handlers, NEW kind \in Kinds, NEW p, Standing(p), start.byte < p.byte,
         Push(kind, p), Extends, kind = "Error" => Faulted, UNCHANGED <<start, number>>, Keep,
         kind \in WordKinds => p = pos /\ ~is_ident_rest(peek(pos)),
         kind = "IntLit" => IntEnd
  PROVE  Takes(kind)
<1>1. Covered = start.byte /\ mode # "scan"
  BY DEF Covered, Handlers
<1>2. pos' = p /\ mode' = "scan"
      /\ tokens' = Append(tokens, [kind |-> kind, from |-> start.byte, to |-> p.byte])
  BY DEF Push, Token
<1>3. Standing(pos')
  BY <1>2
<1> QED BY <1>1, <1>2, <1>3 DEF Keep, Takes

LEMMA HandlerStarted ==
  ASSUME LexInv, mode \in Handlers, mode = "int" => peek(pos) \notin Digits
  PROVE  start.byte < pos.byte
BY DEF LexInv, Reading, Handlers

LEMMA IdentEndTakes ==
  ASSUME LexInv, IdentEnd
  PROVE  \E kind \in Kinds : Takes(kind)
<1>1. /\ mode = "ident" /\ ~is_ident_rest(peek(pos)) /\ UNCHANGED <<diagnostics, start, number>>
      /\ Keep
  BY DEF IdentEnd, In
<1>2. PICK kind : kind = keyword_kind(SubSeq(text, start.byte + 1, pos.byte))
  OBVIOUS
<1>3. kind \in Kinds /\ kind # "Error" /\ kind # "IntLit"
  BY <1>2 DEF keyword_kind, Kinds
<1>4. Push(kind, pos)
  BY <1>2 DEF IdentEnd
<1>5. Extends
  BY <1>1, Unreported DEF LexInv
<1>6. start.byte < pos.byte /\ mode \in Handlers
  BY <1>1, HandlerStarted DEF Handlers
<1> QED BY <1>1, <1>3, <1>4, <1>5, <1>6, Here, PushTakes

LEMMA IntEndTakes ==
  ASSUME LexInv, IntEnd
  PROVE  Takes("IntLit") /\ (diagnostics' = diagnostics \/ Report("E1003", pos))
<1>1. /\ mode = "int" /\ ~is_ident_rest(peek(pos)) /\ UNCHANGED <<start, number>> /\ Keep
      /\ diagnostics' = diagnostics \/ Report("E1003", pos)
      /\ Push("IntLit", pos)
  BY DEF IntEnd, In
<1>2. mode \in Handlers /\ "IntLit" \in Kinds /\ "IntLit" # "Error"
  BY <1>1 DEF Handlers, Kinds
<1>3. Extends
  <2>1. CASE diagnostics' = diagnostics
    BY <2>1, Unreported DEF LexInv
  <2>2. CASE Report("E1003", pos)
    BY <1>2, <2>2, Here, ReportExtends DEF Codes
  <2> QED BY <1>1, <2>1, <2>2
<1>4. peek(pos) \notin Digits
  BY <1>1 DEF is_ident_rest
<1>5. start.byte < pos.byte
  BY <1>2, <1>4, HandlerStarted
<1> QED BY <1>1, <1>2, <1>3, <1>5, Here, PushTakes

(* A string, byte literal or comment without its end.                      *)
LEMMA UnterminatedTakes ==
  ASSUME LexInv, mode \in Handlers \ {"int"}, NEW p, Standing(p), pos.byte <= p.byte,
         \/ Unterminated(p, diagnostics)
         \/ Unterminated(p, Append(diagnostics, Diagnostic("E1001", start, p))),
         UNCHANGED <<start, number>>, Keep
  PROVE  Takes("Error")
<1>1. /\ start.byte = Covered /\ start \in Position /\ p \in Position /\ LexTypeOK
      /\ "E1001" \in Codes /\ "E1002" \in Codes
  BY DEF Covered, Handlers, LexInv, LexTypeOK, Standing, Codes
<1>2. Extends /\ Faulted
  <2>1. CASE Unterminated(p, diagnostics)
    <3>1. diagnostics' = Append(diagnostics, Diagnostic("E1002", start, p))
      BY <2>1 DEF Unterminated
    <3> QED BY <1>1, <3>1, Reported
  <2>2. CASE Unterminated(p, Append(diagnostics, Diagnostic("E1001", start, p)))
    <3>1. diagnostics' = Append(Append(diagnostics, Diagnostic("E1001", start, p)),
                                Diagnostic("E1002", start, p))
      BY <2>2 DEF Unterminated
    <3> QED BY <1>1, <3>1, ReportedTwice
  <2> QED BY <2>1, <2>2
<1>3. start.byte < p.byte
  <2>1. start.byte < pos.byte
    BY HandlerStarted
  <2> QED BY <1>1, <2>1, Here DEF Position
<1>4. Push("Error", p) /\ "Error" \in Kinds /\ "Error" \notin WordKinds /\ "Error" # "IntLit"
  BY DEF Unterminated, Kinds, WordKinds
<1> QED BY <1>2, <1>3, <1>4, PushTakes

(* A handler ends behind its closing byte, or bytes.                       *)
LEMMA ClosedTakes ==
  ASSUME LexInv, mode \in Handlers \ {"int"}, NEW kind \in Kinds \ WordKinds, kind # "Error",
         NEW p, Standing(p), pos.byte <= p.byte, Push(kind, p),
         UNCHANGED <<diagnostics, start, number>>, Keep
  PROVE  Takes(kind)
<1>1. start.byte < p.byte
  <2>1. start.byte < pos.byte /\ p \in Position
    BY HandlerStarted DEF Standing
  <2>2. start.byte \in Nat /\ pos.byte \in Nat /\ p.byte \in Nat
    BY <2>1, Here DEF Position
  <2> QED BY <2>1, <2>2
<1>2. Extends
  BY Unreported DEF LexInv
<1>3. kind # "IntLit" /\ kind \notin WordKinds
  BY DEF WordKinds
<1> QED BY <1>1, <1>2, <1>3, PushTakes

LEMMA ClosesTake ==
  ASSUME LexInv, StringClose \/ LineCommentEnd
  PROVE  \E kind \in Kinds : Takes(kind)
<1>1. CASE StringClose
  <2>1. mode \in Handlers \ {"int"} /\ peek(pos) = "dq" /\ Push("StrLit", advance(pos))
        /\ UNCHANGED <<diagnostics, start, number>> /\ Keep
    BY <1>1 DEF StringClose, In, Handlers
  <2>2. ~is_eof(pos)
    BY <2>1, Here
  <2>3. Standing(advance(pos)) /\ pos.byte <= advance(pos).byte
    BY <2>2, OnwardFrom, Here DEF Standing, Position
  <2>4. "StrLit" \in Kinds \ WordKinds /\ "StrLit" # "Error"
    BY DEF Kinds, WordKinds
  <2> QED BY <2>1, <2>3, <2>4, ClosedTakes
<1>2. CASE LineCommentEnd
  <2>1. mode \in Handlers \ {"int"} /\ Push("Comment", pos)
        /\ UNCHANGED <<diagnostics, start, number>> /\ Keep
    BY <1>2 DEF LineCommentEnd, In, Handlers
  <2>2. "Comment" \in Kinds \ WordKinds /\ "Comment" # "Error" /\ pos.byte <= pos.byte
    BY Here DEF Kinds, WordKinds
  <2> QED BY <2>1, <2>2, Here, ClosedTakes
<1> QED BY <1>1, <1>2

LEMMA StringBreakTakes ==
  ASSUME LexInv, StringBreak
  PROVE  Takes("Error")
<1>1. /\ mode \in Handlers \ {"int"} /\ Unterminated(pos, diagnostics)
      /\ UNCHANGED <<start, number>> /\ Keep
  BY DEF StringBreak, In, Handlers
<1>2. Standing(pos) /\ pos.byte <= pos.byte
  BY Here
<1> QED BY <1>1, <1>2, UnterminatedTakes

LEMMA ByteEndTakes ==
  ASSUME LexInv, ByteEnd
  PROVE  \E kind \in Kinds : Takes(kind)
<1>1. mode \in Handlers \ {"int"} /\ UNCHANGED <<start, number>> /\ Keep
  BY DEF ByteEnd, In, Handlers
<1>2. CASE peek(pos) = "sq" /\ Push("ByteLit", advance(pos)) /\ UNCHANGED diagnostics
  <2>1. ~is_eof(pos)
    BY <1>2, Here
  <2>2. Standing(advance(pos)) /\ pos.byte <= advance(pos).byte
    BY <2>1, OnwardFrom, Here DEF Standing, Position
  <2>3. "ByteLit" \in Kinds \ WordKinds /\ "ByteLit" # "Error"
    BY DEF Kinds, WordKinds
  <2> QED BY <1>1, <1>2, <2>2, <2>3, ClosedTakes
<1>3. CASE Unterminated(pos, diagnostics)
  <2>1. Standing(pos) /\ pos.byte <= pos.byte
    BY Here
  <2> QED BY <1>1, <1>3, <2>1, UnterminatedTakes DEF Kinds
<1> QED BY <1>2, <1>3 DEF ByteEnd

LEMMA BlockCommentEndTakes ==
  ASSUME LexInv, BlockCommentEnd
  PROVE  \E kind \in Kinds : Takes(kind)
<1>1. mode \in Handlers \ {"int"} /\ UNCHANGED <<start, number>> /\ Keep
  BY DEF BlockCommentEnd, In, Handlers
<1>2. CASE AtClose /\ Push("Comment", advance(advance(pos))) /\ UNCHANGED diagnostics
  <2>1. peek(pos) = "*" /\ peek_next(pos) = "/"
    BY <1>2 DEF AtClose
  <2>2. pos.byte + 2 <= Len(text) /\ text \in Seq(Bytes) /\ Standing(pos)
    BY <2>1, Here
  <2>3. Standing(advance(advance(pos))) /\ advance(advance(pos)).byte >= pos.byte + 2
    BY <2>1, <2>2, AdvanceTwice
  <2>4. pos.byte <= advance(advance(pos)).byte
    BY <2>3, Here DEF Standing, Position
  <2>5. "Comment" \in Kinds \ WordKinds /\ "Comment" # "Error"
    BY DEF Kinds, WordKinds
  <2> QED BY <1>1, <1>2, <2>3, <2>4, <2>5, ClosedTakes
<1>3. CASE is_eof(pos) /\ Push("Error", pos) /\ Report("E0101", pos)
  <2>1. Extends /\ Faulted
    BY <1>1, <1>3, Here, ReportExtends DEF Codes
  <2>2. start.byte < pos.byte
    BY <1>1, HandlerStarted
  <2>3. "Error" \in Kinds /\ "Error" \notin WordKinds /\ "Error" # "IntLit"
    BY DEF Kinds, WordKinds
  <2> QED BY <1>1, <1>3, <2>1, <2>2, <2>3, Here, PushTakes
<1> QED BY <1>2, <1>3 DEF BlockCommentEnd

(* A backslash and what is behind it.                                      *)
LEMMA EscapeStep ==
  ASSUME LexInv, StringEscape
  PROVE  Goes \/ Takes("Error")
<1> DEFINE esc == advance(pos)
<1>1. /\ mode \in Handlers \ {"int"} /\ peek(pos) = "bs" /\ UNCHANGED <<start, number>> /\ Keep
  BY DEF StringEscape, In, Handlers
<1>2. ~is_eof(pos) /\ peek(pos) # "cr"
  BY <1>1, Here
<1>3. Standing(esc) /\ pos.byte < esc.byte /\ esc \in Position /\ esc.byte \in Nat
  BY <1>2, OnwardFrom DEF Standing, Position
<1>4. CASE is_eof(esc) /\ Unterminated(esc, diagnostics)
  <2>1. pos.byte <= esc.byte
    BY <1>3, Here
  <2> HIDE DEF esc
  <2> QED BY <1>1, <1>3, <1>4, <2>1, UnterminatedTakes
<1>5. CASE /\ ~is_eof(esc) /\ pos' = advance(esc) /\ UNCHANGED <<tokens, mode>>
           /\ diagnostics' = diagnostics \/ Report("E1001", esc)
  <2>1. esc.byte < Len(text) /\ text \in Seq(Bytes) /\ Len(text) \in Nat
    BY <1>3, <1>5, Here DEF is_eof
  <2> HIDE DEF esc
  <2>2. Standing(advance(esc)) /\ esc.byte < advance(esc).byte
    BY <1>3, <2>1, AdvanceStands
  <2>3. pos.byte < advance(esc).byte
    BY <1>3, <2>2, Here DEF Standing, Position
  <2>4. Extends
    <3>1. CASE diagnostics' = diagnostics
      BY <3>1, Unreported DEF LexInv
    <3>2. CASE Report("E1001", esc)
      BY <1>1, <1>3, <3>2, ReportExtends DEF Codes
    <3> QED BY <1>5, <3>1, <3>2
  <2> QED BY <1>1, <1>5, <2>2, <2>3, <2>4, GoOn
<1> QED BY <1>4, <1>5 DEF StringEscape

(* \x: what is behind it is passed, or is not there; or the text ends with *)
(* a line break of two bytes.                                              *)
LEMMA HexStep ==
  ASSUME LexInv, status = "running", StringHex
  PROVE  Goes \/ Takes("Error") \/ Panics
<1> DEFINE first == advance(advance(pos))
           second == advance(first)
<1>1. /\ mode \in Handlers \ {"int"} /\ mode = "string" /\ peek(pos) = "bs" /\ peek_next(pos) = "x"
      /\ UNCHANGED <<text, start, number>>
  BY DEF StringHex, In, Handlers
<1>2. /\ pos.byte + 2 <= Len(text) /\ text[pos.byte + 2] = "x" /\ text[pos.byte + 1] = "bs"
      /\ text \in Seq(Bytes) /\ Standing(pos) /\ Len(text) \in Nat /\ pos.byte \in Nat
  BY <1>1, Here
<1>3. Standing(first) /\ first.byte = pos.byte + 2
  BY <1>1, <1>2, AdvanceTwice
<1>4. first \in Position
  BY <1>3 DEF Standing
<1>5. CASE /\ Unterminated(first, Append(diagnostics, Diagnostic("E1001", start, first)))
           /\ UNCHANGED status
  <2>1. pos.byte <= first.byte /\ Keep
    BY <1>1, <1>2, <1>3, <1>5 DEF Keep
  <2> HIDE DEF first
  <2> QED BY <1>1, <1>3, <1>5, <2>1, UnterminatedTakes
<1>6. ASSUME first.byte + 1 < Len(text),
             \/ is_eof(second) /\ status' = "panic" /\ UNCHANGED <<pos, diagnostics, tokens, mode>>
             \/ /\ ~is_eof(second) /\ pos' = advance(second) /\ UNCHANGED <<status, tokens, mode>>
                /\ diagnostics' = diagnostics \/ Report("E1001", advance(second))
      PROVE  Goes \/ Panics
  <2>0. first.byte < Len(text)
    BY <1>2, <1>3, <1>6
  <2>1. /\ Standing(second) /\ second \in Position
        /\ second.byte = IF peek(first) = "cr" /\ peek_next(first) = "lf" THEN first.byte + 2
                         ELSE first.byte + 1
    <3> HIDE DEF first
    <3> QED BY <1>2, <1>3, <2>0, AdvanceStands DEF Standing
  <2>2. CASE is_eof(second) /\ status' = "panic" /\ UNCHANGED <<pos, diagnostics, tokens, mode>>
    <3>1. second.byte >= Len(text)
      BY <2>2 DEF is_eof
    <3>2. peek(first) = "cr" /\ peek_next(first) = "lf"
      BY <1>2, <1>3, <1>6, <2>1, <3>1
    <3>3. pos.byte + 4 = Len(text)
      BY <1>2, <1>3, <1>6, <2>1, <3>1, <3>2
    <3>4. peek(first) = text[pos.byte + 3] /\ peek_next(first) = text[pos.byte + 4]
      BY <1>2, <1>3, <3>3 DEF peek, is_eof, peek_next
    <3>5. /\ text[pos.byte + 1] = "bs" /\ text[pos.byte + 2] = "x" /\ text[pos.byte + 3] = "cr"
          /\ text[pos.byte + 4] = "lf"
      BY <1>2, <3>2, <3>4
    <3>6. SubSeq(text, pos.byte + 1, Len(text)) = <<"bs", "x", "cr", "lf">>
      <4> DEFINE w == SubSeq(text, pos.byte + 1, Len(text))
      <4>1. Len(text) - pos.byte = 4
        BY <1>2, <3>3
      <4>2. /\ w \in Seq(Bytes) /\ Len(w) = 4
            /\ \A i \in 1 .. 4 : w[i] = text[pos.byte + i]
        <5>1. pos.byte <= Len(text) /\ Len(text) <= Len(text)
          BY <1>2
        <5>2. /\ w \in Seq(Bytes) /\ Len(w) = Len(text) - pos.byte
              /\ \A i \in 1 .. Len(text) - pos.byte : w[i] = text[pos.byte + i]
          BY <1>2, <5>1, WordBytes
        <5> QED BY <4>1, <5>2
      <4> HIDE DEF w
      <4>3. w[1] = "bs" /\ w[2] = "x" /\ w[3] = "cr" /\ w[4] = "lf"
        BY <3>5, <4>2
      <4>4. w = <<"bs", "x", "cr", "lf">>
        BY <4>2, <4>3
      <4> QED BY <4>4 DEF w
    <3> QED BY <1>1, <2>2, <3>3, <3>6 DEF Panics, PanicsAtHex
  <2>3. CASE /\ ~is_eof(second) /\ pos' = advance(second) /\ UNCHANGED <<status, tokens, mode>>
             /\ diagnostics' = diagnostics \/ Report("E1001", advance(second))
    <3>1. second.byte < Len(text) /\ second.byte \in Nat /\ pos.byte < second.byte
      BY <1>2, <1>3, <2>1, <2>3 DEF is_eof, Position
    <3> HIDE DEF second
    <3>2. Standing(advance(second)) /\ second.byte < advance(second).byte
      BY <1>2, <2>1, <3>1, AdvanceStands
    <3>3. pos.byte < advance(second).byte
      BY <1>2, <3>1, <3>2 DEF Standing, Position
    <3>4. Extends
      <4>1. CASE diagnostics' = diagnostics
        BY <4>1, Unreported DEF LexInv
      <4>2. CASE Report("E1001", advance(second))
        BY <1>1, <3>2, <4>2, ReportExtends DEF Codes
      <4> QED BY <2>3, <4>1, <4>2
    <3> QED BY <1>1, <2>3, <3>2, <3>3, <3>4, GoOn DEF Keep
  <2> QED BY <1>6, <2>2, <2>3
<1>7. \/ /\ Unterminated(first, Append(diagnostics, Diagnostic("E1001", start, first)))
         /\ UNCHANGED status
      \/ /\ first.byte + 1 < Len(text)
         /\ \/ is_eof(second) /\ status' = "panic" /\ UNCHANGED <<pos, diagnostics, tokens, mode>>
            \/ /\ ~is_eof(second) /\ pos' = advance(second) /\ UNCHANGED <<status, tokens, mode>>
               /\ diagnostics' = diagnostics \/ Report("E1001", advance(second))
  BY Zenon DEF StringHex
<1> QED BY <1>5, <1>6, <1>7

(* Every step goes one of these ways.                                      *)
LEMMA EveryStep ==
  ASSUME LexInv, Next
  PROVE  /\ status = "running"
         /\ Passes \/ (\E kind \in Kinds : Takes(kind)) \/ Enters \/ Goes \/ Finish \/ Panics
<1>1. status = "running"
  BY DEF Next, Dispatch, Loops, Blank, lex_newline, single, double, invalid_char, Finish, lex_ident,
         lex_int, lex_string, lex_byte_lit, lex_comment, IdentByte, IdentEnd, IntDigit, IntSeparator,
         IntBadDigit, IntEnd, StringClose, StringByte, StringBreak, StringEscape, StringHex,
         ByteByte, ByteEnd, CommentByte, LineCommentEnd, BlockCommentEnd, Scanning, In
<1>2. ASSUME Dispatch
      PROVE  Passes \/ (\E kind \in Kinds : Takes(kind)) \/ Enters \/ Finish
  BY <1>2, BlankPasses, NewlineTakes, SingleTakes, DoubleTakes, InvalidTakes, HandlersEnter,
     CommentEnters, IntEnters DEF Dispatch, Kinds
<1>3. ASSUME Loops
      PROVE  (\E kind \in Kinds : Takes(kind)) \/ Goes \/ Panics
  BY <1>1, <1>3, BytesGo, IdentEndTakes, IntStepGoes, IntEndTakes, ClosesTake, StringBreakTakes,
     EscapeStep, HexStep, ByteEndTakes, BlockCommentEndTakes DEF Loops, Kinds
<1> QED BY <1>1, <1>2, <1>3 DEF Next
-----------------------------------------------------------------------------
(* Integers.                                                               *)

WrongNext(from) == \E j \in 1 .. Len(diagnostics') :
                     diagnostics'[j].code = "E1003" /\ diagnostics'[j].from = from

(* A report is of what is not covered.                                     *)
LEMMA WrongElsewhere ==
  ASSUME LexInv, Extends, NEW from, from # Covered
  PROVE  WrongNext(from) <=> Wrong(from)
<1>1. Len(diagnostics) \in Nat /\ Len(diagnostics') \in Nat
  BY DEF LexInv, LexTypeOK, Extends
<1>2. \A j \in 1 .. Len(diagnostics') :
        j \in 1 .. Len(diagnostics) \/ j \in Len(diagnostics) + 1 .. Len(diagnostics')
  BY <1>1
<1>3. \A j \in 1 .. Len(diagnostics) : j \in 1 .. Len(diagnostics')
  BY <1>1 DEF Extends
<1> QED BY <1>2, <1>3 DEF Extends, WrongNext, Wrong

LEMMA WrongStays ==
  ASSUME LexInv, diagnostics' = diagnostics, NEW from
  PROVE  WrongNext(from) <=> Wrong(from)
BY DEF WrongNext, Wrong

LEMMA WrongNow ==
  ASSUME LexInv, mode \in Handlers, Report("E1003", pos)
  PROVE  WrongNext(start.byte)
<1>1. /\ diagnostics'[Len(diagnostics')] = Diagnostic("E1003", start, pos)
      /\ Len(diagnostics') = Len(diagnostics) + 1 /\ Len(diagnostics) \in Nat
  BY Here, ReportExtends DEF Codes, LexInv, LexTypeOK
<1>2. Len(diagnostics') \in 1 .. Len(diagnostics')
  BY <1>1
<1> QED BY <1>1, <1>2 DEF WrongNext, Diagnostic

LEMMA DigitValues ==
  /\ digit_value("_") = 16
  /\ \A b : digit_value(b) \in Nat
BY DEF digit_value

(* A separator is a digit of no base.                                      *)
LEMMA DigitLessThanBase ==
  ASSUME NEW b \in Nat, b <= 16, NEW i, IsDigitOf(b, i)
  PROVE  text[i] # "_"
<1>1. PICK v \in Nat : v = digit_value(text[i])
  BY DigitValues
<1>2. v < b
  BY <1>1 DEF IsDigitOf
<1>3. text[i] = "_" => v = 16
  BY <1>1, DigitValues
<1>4. v # 16
  BY <1>1, <1>2
<1> QED BY <1>3, <1>4, Zenon

(* The number the handler is reading, by the names of its parts.           *)
NumberParts(n, d, b) == n = pos.byte /\ d = number.digits /\ b = number.base

LEMMA NumberSoFar ==
  ASSUME LexInv, mode = "int", NEW n \in Nat, NEW d \in Nat, NEW b \in Nat, NumberParts(n, d, b)
  PROVE  /\ b <= 16 /\ d <= n
         /\ number \in NumberType /\ mode \in Handlers
         /\ Wrong(start.byte) => \E i \in d + 1 .. n : BadByte(b, d, i)
         /\ ~Wrong(start.byte) => \A i \in d + 1 .. n : ~BadByte(b, d, i)
         /\ ~Wrong(start.byte) => (number.saw <=> d < n)
         /\ ~Wrong(start.byte) => (number.digit <=> d < n /\ IsDigitOf(b, n))
         /\ ~Wrong(start.byte) => (number.underscore <=> d < n /\ text[n] = "_")
<1>1. number \in NumberType /\ d <= n
  BY Here DEF NumberParts, LexInv, LexTypeOK, NumberRead
<1>2. b \in {2, 10, 16}
  BY <1>1 DEF NumberParts, NumberType
<1>3. b <= 16
  BY <1>2
<1>4. /\ Wrong(start.byte) => \E i \in d + 1 .. n : BadByte(b, d, i)
      /\ ~Wrong(start.byte) => /\ \A i \in d + 1 .. n : ~BadByte(b, d, i)
                               /\ number.saw <=> d < n
                               /\ number.digit <=> d < n /\ IsDigitOf(b, n)
                               /\ number.underscore <=> d < n /\ text[n] = "_"
  <2>1. NumberRead
    BY DEF LexInv
  <2> QED BY <2>1, Zenon DEF NumberRead, NumberParts
<1> QED BY <1>1, <1>2, <1>3, <1>4, Zenon DEF Handlers

(* One more byte of a number.                                              *)
LEMMA NumberGrows ==
  ASSUME LexInv, IntDigit \/ IntSeparator \/ IntBadDigit,
         NEW n \in Nat, NEW d \in Nat, NEW b \in Nat, NumberParts(n, d, b)
  PROVE  /\ number'.base = b /\ number'.digits = d
         /\ WrongNext(start.byte) => \E i \in d + 1 .. n + 1 : BadByte(b, d, i)
         /\ ~WrongNext(start.byte) =>
              /\ \A i \in d + 1 .. n + 1 : ~BadByte(b, d, i)
              /\ number'.saw
              /\ number'.digit <=> IsDigitOf(b, n + 1)
              /\ number'.underscore <=> text[n + 1] = "_"
<1>0. mode = "int"
  BY DEF IntDigit, IntSeparator, IntBadDigit, In
<1>1. b <= 16 /\ d <= n /\ number \in NumberType /\ mode \in Handlers
  BY <1>0, NumberSoFar, Zenon
<1>2. peek(pos) = text[n + 1]
  <2>1. ~is_eof(pos)
    BY IntStepGoes, Zenon
  <2> QED BY <2>1, Here DEF NumberParts
<1>3. number'.base = b /\ number'.digits = d
  <2>1. CASE IntDigit
    BY <1>1, <2>1 DEF IntDigit, NumberType, NumberParts
  <2>2. CASE IntSeparator
    BY <1>1, <2>2 DEF IntSeparator, NumberType, NumberParts
  <2>3. CASE IntBadDigit
    BY <2>3 DEF IntBadDigit, NumberParts
  <2> QED BY <2>1, <2>2, <2>3
<1>4. /\ n + 1 \in d + 1 .. n + 1 /\ (n + 1) - 1 = n /\ (d + 1 < n + 1 <=> d < n)
      /\ \A i \in d + 1 .. n + 1 : i \in d + 1 .. n \/ i = n + 1
      /\ \A i \in d + 1 .. n : i \in d + 1 .. n + 1
  BY <1>1
<1>5. \A c : (digit_value(c) < b => c # "_") /\ (digit_value(c) >= b => ~(digit_value(c) < b))
  <2>1. SUFFICES ASSUME NEW c
                 PROVE  (digit_value(c) < b => c # "_") /\ (digit_value(c) >= b => ~(digit_value(c) < b))
    OBVIOUS
  <2>2. PICK v \in Nat : v = digit_value(c)
    BY DigitValues
  <2>3. c = "_" => v = 16
    BY <2>2, DigitValues
  <2>4. (v < b => v # 16) /\ (v >= b => ~(v < b))
    BY <1>1, <2>2
  <2> QED BY <2>2, <2>3, <2>4, Zenon
<1>6. CASE Wrong(start.byte)
  <2>1. WrongNext(start.byte)
    <3>1. CASE diagnostics' = diagnostics
      BY <1>6, <3>1, WrongStays
    <3>2. CASE Report("E1003", pos)
      BY <1>1, <3>2, WrongNow
    <3> QED BY <3>1, <3>2 DEF IntDigit, IntSeparator, IntBadDigit
  <2>2. PICK i \in d + 1 .. n : BadByte(b, d, i)
    BY <1>0, <1>6, NumberSoFar, Zenon
  <2> QED BY <1>3, <1>4, <2>1, <2>2, Zenon
<1>7. ASSUME ~Wrong(start.byte), Report("E1003", pos), ~IsDigitOf(b, n + 1),
             ~(text[n + 1] = "_" /\ number.digit)
      PROVE  WrongNext(start.byte) /\ \E i \in d + 1 .. n + 1 : BadByte(b, d, i)
  <2>1. WrongNext(start.byte)
    BY <1>1, <1>7, WrongNow
  <2>2. d < n /\ IsDigitOf(b, n) => number.digit
    BY <1>0, <1>7, NumberSoFar, Zenon
  <2>3. ~(text[n + 1] = "_" /\ d + 1 < n + 1 /\ IsDigitOf(b, (n + 1) - 1))
    BY <1>4, <1>7, <2>2, Zenon
  <2>4. BadByte(b, d, n + 1)
    BY <1>7, <2>3, Zenon DEF BadByte
  <2> QED BY <1>4, <2>1, <2>4, Zenon
<1>8. ASSUME ~Wrong(start.byte), diagnostics' = diagnostics, ~BadByte(b, d, n + 1)
      PROVE  ~WrongNext(start.byte) /\ \A i \in d + 1 .. n + 1 : ~BadByte(b, d, i)
  <2>1. ~WrongNext(start.byte)
    BY <1>8, WrongStays
  <2>2. \A i \in d + 1 .. n : ~BadByte(b, d, i)
    BY <1>0, <1>8, NumberSoFar, Zenon
  <2> QED BY <1>4, <1>8, <2>1, <2>2, Zenon
<1>9. ASSUME ~Wrong(start.byte), IntDigit
      PROVE  /\ diagnostics' = diagnostics /\ ~BadByte(b, d, n + 1) /\ IsDigitOf(b, n + 1)
             /\ number'.saw = TRUE /\ number'.digit = TRUE /\ number'.underscore = FALSE
             /\ text[n + 1] # "_"
  <2>1. digit_value(text[n + 1]) < b /\ diagnostics' = diagnostics
    BY <1>2, <1>9 DEF IntDigit, NumberParts
  <2>2. number'.saw = TRUE /\ number'.digit = TRUE /\ number'.underscore = FALSE
    BY <1>1, <1>9 DEF IntDigit, NumberType
  <2> QED BY <1>5, <2>1, <2>2, Zenon DEF BadByte, IsDigitOf
<1>10. ASSUME ~Wrong(start.byte), IntSeparator, number.digit
       PROVE  /\ diagnostics' = diagnostics /\ ~BadByte(b, d, n + 1) /\ ~IsDigitOf(b, n + 1)
              /\ number'.saw /\ number'.digit = FALSE /\ number'.underscore = TRUE
              /\ text[n + 1] = "_"
  <2>1. text[n + 1] = "_" /\ diagnostics' = diagnostics
    BY <1>2, <1>10 DEF IntSeparator
  <2>2. number'.saw = number.saw /\ number'.digit = FALSE /\ number'.underscore = TRUE
    BY <1>1, <1>10 DEF IntSeparator, NumberType
  <2>3. d < n /\ IsDigitOf(b, n) /\ number.saw
    BY <1>0, <1>10, NumberSoFar, Zenon
  <2>4. ~IsDigitOf(b, n + 1)
    BY <1>5, <2>1, Zenon DEF IsDigitOf
  <2>5. ~BadByte(b, d, n + 1)
    BY <1>4, <2>1, <2>3 DEF BadByte
  <2> QED BY <2>1, <2>2, <2>3, <2>4, <2>5, Zenon
<1>11. ASSUME IntSeparator, ~number.digit
       PROVE  Report("E1003", pos) /\ ~IsDigitOf(b, n + 1)
  <2>1. text[n + 1] = "_" /\ Report("E1003", pos)
    BY <1>2, <1>11, Zenon DEF IntSeparator
  <2> QED BY <1>5, <2>1, Zenon DEF IsDigitOf
<1>12. ASSUME IntBadDigit
       PROVE  Report("E1003", pos) /\ ~IsDigitOf(b, n + 1) /\ text[n + 1] # "_"
  <2>1. /\ text[n + 1] \in Letters \cup Digits /\ digit_value(text[n + 1]) >= b
        /\ Report("E1003", pos)
    BY <1>2, <1>12 DEF IntBadDigit, NumberParts
  <2>2. text[n + 1] # "_"
    BY <2>1 DEF Letters, Digits
  <2> QED BY <1>5, <2>1, <2>2, Zenon DEF IsDigitOf
<1>13. CASE ~Wrong(start.byte) /\ IntDigit
  BY <1>3, <1>8, <1>9, <1>13, Zenon
<1>14. CASE ~Wrong(start.byte) /\ IntSeparator /\ number.digit
  BY <1>3, <1>8, <1>10, <1>14, Zenon
<1>15. CASE ~Wrong(start.byte) /\ IntSeparator /\ ~number.digit
  BY <1>3, <1>7, <1>11, <1>15, Zenon
<1>16. CASE ~Wrong(start.byte) /\ IntBadDigit
  BY <1>3, <1>7, <1>12, <1>16, Zenon
<1> QED BY <1>6, <1>13, <1>14, <1>15, <1>16, Zenon

(* At the end of a number, what is a fault.                                *)
LEMMA NumberEnds ==
  ASSUME LexInv, IntEnd, NEW n \in Nat, NEW d \in Nat, NEW b \in Nat, NumberParts(n, d, b)
  PROVE  WrongNext(start.byte) <=>
           Wrong(start.byte) \/ d = n \/ (d < n /\ text[n] = "_")
<1>0. mode = "int" /\ mode \in Handlers
  BY DEF IntEnd, In, Handlers
<1>1. d <= n
  BY <1>0, NumberSoFar, Zenon
<1>2. d < n <=> d # n
  BY <1>1
<1>3. CASE Wrong(start.byte)
  <2>1. CASE diagnostics' = diagnostics
    BY <1>3, <2>1, WrongStays, Zenon
  <2>2. CASE Report("E1003", pos)
    BY <1>0, <1>3, <2>2, WrongNow, Zenon
  <2> QED BY <2>1, <2>2, Zenon DEF IntEnd
<1>4. CASE ~Wrong(start.byte)
  <2>1. /\ number.saw <=> d < n
        /\ number.underscore <=> d < n /\ text[n] = "_"
    BY <1>0, <1>4, NumberSoFar, Zenon
  <2>2. CASE d = n \/ (d < n /\ text[n] = "_")
    <3>1. Report("E1003", pos)
      BY <1>2, <2>1, <2>2, Zenon DEF IntEnd
    <3>2. WrongNext(start.byte)
      BY <1>0, <3>1, WrongNow, Zenon
    <3> QED BY <2>2, <3>2, Zenon
  <2>3. CASE ~(d = n \/ (d < n /\ text[n] = "_"))
    <3>1. diagnostics' = diagnostics
      BY <1>2, <2>1, <2>3, Zenon DEF IntEnd, NumberParts
    <3>2. ~WrongNext(start.byte)
      BY <1>4, <3>1, WrongStays, Zenon
    <3> QED BY <1>4, <2>3, <3>2, Zenon
  <2> QED BY <2>2, <2>3, Zenon
<1> QED BY <1>3, <1>4, Zenon
(* The word of a number is an integer of the language exactly when no byte *)
(* of it is a fault, there is a digit, and the last byte is one.           *)
LEMMA WordIsInteger ==
  ASSUME LexInv, mode = "int", NEW n \in Nat, NEW d \in Nat, NEW b \in Nat, NumberParts(n, d, b)
  PROVE  WellFormedInt(SubSeq(text, start.byte + 1, pos.byte)) <=>
           /\ d < n /\ text[n] # "_"
           /\ \A i \in d + 1 .. n : ~BadByte(b, d, i)
<1>1. b <= 16 /\ d <= n
  BY NumberSoFar, Zenon
<1>2. /\ text \in Seq(Bytes) /\ start.byte \in Nat /\ start.byte <= n /\ n <= Len(text)
      /\ Len(text) \in Nat
  BY Here DEF NumberParts
<1>3. PICK s \in Nat : s = start.byte
  BY <1>2
<1>4. PICK w : w = SubSeq(text, s + 1, n)
  OBVIOUS
<1>5. /\ w \in Seq(Bytes) /\ Len(w) = n - s
      /\ \A i \in 1 .. n - s : w[i] = text[s + i]
  BY <1>1, <1>2, <1>3, <1>4, WordBytes
<1>6. /\ text[s + 1] \in Digits /\ b = BaseAt(s)
      /\ d = s + (IF b = 10 THEN 0 ELSE 2)
  BY <1>3 DEF LexInv, NumberRead, NumberParts
<1>7. (IF Len(w) > 1 /\ w[1] = "0" /\ w[2] \in {"x", "b"}
         THEN (IF w[2] = "x" THEN 16 ELSE 2) ELSE 10) = b
  <2>1. Len(w) > 1 => s + 2 <= Len(text) /\ w[1] = text[s + 1] /\ w[2] = text[s + 2]
    BY <1>1, <1>2, <1>3, <1>5
  <2>2. b # 10 => Len(w) > 1
    BY <1>1, <1>3, <1>5, <1>6
  <2> QED BY <1>6, <2>1, <2>2, Zenon DEF BaseAt
<1>8. PICK first \in Nat : first = d + 1 - s
  BY <1>1, <1>3, <1>6
<1>9. (IF b = 10 THEN 1 ELSE 3) = first
  BY <1>1, <1>3, <1>6, <1>8
<1>10. PICK m \in Nat : m = n - s
  BY <1>1, <1>2, <1>3
<1> DEFINE G(i) == digit_value(w[i]) < b
<1>11. WellFormedInt(w) <=>
         /\ first <= m /\ G(first) /\ G(m)
         /\ \A i \in first .. m : G(i) \/ (w[i] = "_" /\ G(i - 1) /\ G(i + 1))
  <2>1. Len(w) = m
    BY <1>5, <1>10
  <2> QED BY <1>7, <1>9, <2>1, Zenon DEF WellFormedInt
<1>12. \A i \in 1 .. m : G(i) <=> IsDigitOf(b, s + i)
  BY <1>5, <1>10, Zenon DEF IsDigitOf
<1>13. \A k \in d + 1 .. n : k - s \in first .. m /\ k - s \in 1 .. m /\ s + (k - s) = k
  BY <1>1, <1>3, <1>6, <1>8, <1>10
<1>14. \A k \in d + 1 .. n : /\ G(k - s) <=> IsDigitOf(b, k)
                             /\ w[k - s] = text[k]
  BY <1>5, <1>10, <1>12, <1>13
<1>15. \A i \in first .. m : i + s \in d + 1 .. n /\ (i + s) - s = i
  BY <1>1, <1>3, <1>6, <1>8, <1>10
<1>16. ASSUME WellFormedInt(w)
       PROVE  d < n /\ text[n] # "_" /\ \A i \in d + 1 .. n : ~BadByte(b, d, i)
  <2>0. first <= m
    BY <1>11, <1>16, Zenon
  <2>1. d < n
    BY <1>1, <1>3, <1>8, <1>10, <2>0
  <2>2. n \in d + 1 .. n /\ d + 1 \in d + 1 .. n /\ n - s = m /\ (d + 1) - s = first
    BY <1>1, <1>3, <1>8, <1>10, <2>0, <2>1
  <2>3. IsDigitOf(b, n) /\ IsDigitOf(b, d + 1)
    BY <1>11, <1>14, <1>16, <2>2
  <2>4. text[n] # "_"
    BY <1>1, <2>3, DigitLessThanBase
  <2>5. ASSUME NEW k \in d + 1 .. n, BadByte(b, d, k)
        PROVE  FALSE
    <3>1. ~IsDigitOf(b, k)
      BY <2>5 DEF BadByte
    <3>2. text[k] = "_" /\ G((k - s) - 1)
      BY <1>11, <1>13, <1>14, <1>16, <3>1
    <3>3. d + 1 < k
      <4>1. k # d + 1
        BY <2>3, <3>1
      <4> QED BY <1>1, <4>1
    <3>4. k - 1 \in d + 1 .. n /\ (k - 1) - s = (k - s) - 1
      BY <1>1, <1>3, <3>3
    <3>5. IsDigitOf(b, k - 1)
      BY <1>14, <3>2, <3>4
    <3> QED BY <2>5, <3>2, <3>3, <3>5 DEF BadByte
  <2> QED BY <2>1, <2>4, <2>5
<1>17. ASSUME d < n, text[n] # "_", \A i \in d + 1 .. n : ~BadByte(b, d, i)
       PROVE  WellFormedInt(w)
  <2>0. d < n
    BY <1>17
  <2>1. n \in d + 1 .. n /\ d + 1 \in d + 1 .. n /\ n - s = m /\ (d + 1) - s = first /\ first <= m
    BY <1>1, <1>3, <1>8, <1>10, <2>0
  <2>2. IsDigitOf(b, n)
    BY <1>17, <2>1 DEF BadByte
  <2>3. IsDigitOf(b, d + 1)
    <3>1. ~(d + 1 < d + 1)
      BY <1>1
    <3> QED BY <1>17, <2>1, <3>1 DEF BadByte
  <2>4. ASSUME NEW i \in first .. m, ~G(i)
        PROVE  w[i] = "_" /\ G(i - 1) /\ G(i + 1)
    <3>1. PICK k \in d + 1 .. n : k = i + s /\ k - s = i
      BY <1>15
    <3>2. ~IsDigitOf(b, k) /\ w[i] = text[k]
      BY <1>14, <2>4, <3>1
    <3>3. text[k] = "_" /\ d + 1 < k /\ IsDigitOf(b, k - 1)
      BY <1>17, <3>2 DEF BadByte
    <3> d + 1 < k
      BY <3>3, Zenon
    <3>4. k - 1 \in d + 1 .. n /\ (k - 1) - s = i - 1
      BY <1>1, <1>3, <1>10, <3>1
    <3>5. G(i - 1)
      BY <1>14, <3>3, <3>4
    <3>6. k # n
      BY <2>2, <3>2
    <3>7. k + 1 \in d + 1 .. n /\ (k + 1) - s = i + 1 /\ (k + 1) - 1 = k
      BY <1>1, <1>3, <1>8, <1>10, <3>1, <3>6
    <3>8. IsDigitOf(b, k + 1)
      BY <1>17, <3>2, <3>7, Zenon DEF BadByte
    <3>9. G(i + 1)
      BY <1>14, <3>7, <3>8
    <3> QED BY <3>2, <3>3, <3>5, <3>9
  <2>5. G(first) /\ G(m)
    BY <1>14, <2>1, <2>2, <2>3
  <2> QED BY <1>11, <2>1, <2>4, <2>5, Zenon
<1>18. SubSeq(text, start.byte + 1, pos.byte) = w
  BY <1>3, <1>4 DEF NumberParts
<1> QED BY <1>16, <1>17, <1>18, Zenon

(* A number token raises E1003 exactly when it is not an integer.          *)
LEMMA NumberJudged ==
  ASSUME LexInv, IntEnd
  PROVE  WellFormedInt(SubSeq(text, start.byte + 1, pos.byte)) <=> ~WrongNext(start.byte)
<1>0. mode = "int"
  BY DEF IntEnd, In
<1>1. PICK n \in Nat, d \in Nat, b \in Nat : NumberParts(n, d, b)
  <2>1. number.digits \in Nat /\ number.base \in Nat
    BY DEF LexInv, LexTypeOK, NumberType
  <2> QED BY <2>1, Here DEF NumberParts
<1>2. d < n <=> d # n
  <2>1. d <= n
    BY <1>0, <1>1, NumberSoFar, Zenon
  <2> QED BY <2>1
<1>3. (\E i \in d + 1 .. n : BadByte(b, d, i)) <=> Wrong(start.byte)
  BY <1>0, <1>1, NumberSoFar, Zenon
<1>4. WrongNext(start.byte) <=> Wrong(start.byte) \/ d = n \/ (d < n /\ text[n] = "_")
  BY <1>1, NumberEnds, Zenon
<1>5. WellFormedInt(SubSeq(text, start.byte + 1, pos.byte)) <=>
        /\ d < n /\ text[n] # "_"
        /\ \A i \in d + 1 .. n : ~BadByte(b, d, i)
  BY <1>0, <1>1, WordIsInteger, Zenon
<1> QED BY <1>2, <1>3, <1>4, <1>5, Zenon
-----------------------------------------------------------------------------
(* The invariant holds.                                                    *)

LEMMA LexInitial == Init => LexInv
<1> SUFFICES ASSUME Init PROVE LexInv
  OBVIOUS
<1>1. /\ text \in Seq(Bytes) /\ pos = Origin /\ start = Origin /\ tokens = << >>
      /\ diagnostics = << >> /\ mode = "scan" /\ number = NoNumber /\ status = "running"
  BY TextsAssumption DEF Init
<1>2. Origin \in Position /\ Origin.byte = 0 /\ Origin.line = 1 /\ Origin.column = 1
  BY DEF Origin, Position
<1>3. NoNumber \in NumberType
  BY DEF NoNumber, NumberType
<1>4. LexTypeOK
  BY <1>1, <1>2, <1>3 DEF LexTypeOK
<1>5. Exact(Origin)
  <2>1. Breaking(0) = {}
    BY DEF Breaking
  <2>2. Cardinality(Breaking(0)) = 0 /\ Latest(Breaking(0)) = 0
    BY <2>1, FS_EmptySet DEF Latest
  <2> QED BY <1>2, <2>2 DEF Exact
<1>6. Standing(pos)
  <2>1. 0 <= Len(text)
    BY <1>1
  <2> QED BY <1>1, <1>2, <1>5, <2>1 DEF Standing
<1> QED BY <1>1, <1>4, <1>6 DEF LexInv, Reading, Behind, NumberRead, IntegersAsWritten

(* A position of the text stays one: the text never changes.               *)
LEMMA PositionStays ==
  ASSUME text' = text, Standing(pos')
  PROVE  Standing(pos)'
<1>1. \A n : Breaking(n) = {i \in 1 .. n : \/ text'[i] = "lf"
                                           \/ /\ text'[i] = "cr"
                                              /\ ~(i < Len(text') /\ text'[i + 1] = "lf")}
  BY DEF Breaking, EndsLine
<1>2. Breaking(pos.byte)' = Breaking(pos'.byte)
  BY <1>1 DEF Breaking, EndsLine
<1>3. EndsLine(pos.byte)' = EndsLine(pos'.byte)
  BY DEF EndsLine
<1> QED BY <1>2, <1>3 DEF Standing, Exact, Latest

LEMMA PositionKept ==
  ASSUME LexInv, Next
  PROVE  Standing(pos')
<1>1. CASE Finish \/ Panics
  <2>1. pos' = pos /\ Standing(pos)
    BY <1>1, Here DEF Finish, Panics
  <2> QED BY <2>1
<1> QED BY <1>1, EveryStep DEF Passes, Takes, Enters, Goes

LEMMA TextStays ==
  ASSUME LexInv, Next
  PROVE  text' = text
BY EveryStep DEF Passes, Takes, Enters, Goes, Finish, Panics

LEMMA TypesKept ==
  ASSUME LexInv, Next
  PROVE  LexTypeOK'
<1>1. LexTypeOK
  BY DEF LexInv
<1>2. text' = text /\ pos' \in Position
  BY PositionKept, TextStays DEF Standing
<1>3. CASE Passes
  BY <1>1, <1>2, <1>3 DEF LexTypeOK, Passes
<1>4. ASSUME NEW kind \in Kinds, Takes(kind)
      PROVE  LexTypeOK'
  <2>1. Covered \in Nat /\ pos'.byte \in Nat
    BY <1>1, <1>2, Here DEF Covered, Position
  <2>2. [kind |-> kind, from |-> Covered, to |-> pos'.byte] \in TokenType
    BY <2>1 DEF TokenType
  <2>3. tokens' \in Seq(TokenType)
    BY <1>1, <1>4, <2>2 DEF Takes, LexTypeOK
  <2> QED BY <1>1, <1>2, <1>4, <2>3 DEF LexTypeOK, Takes, Extends
<1>5. CASE Enters
  BY <1>1, <1>2, <1>5 DEF LexTypeOK, Enters
<1>6. CASE Goes
  BY <1>1, <1>2, <1>6 DEF LexTypeOK, Goes, Extends
<1>7. CASE Finish
  <2>1. Token("Eof", pos, pos) \in TokenType
    BY Here DEF Token, TokenType, Position
  <2>2. tokens' \in Seq(TokenType)
    BY <1>1, <1>7, <2>1 DEF Finish, LexTypeOK
  <2> QED BY <1>1, <1>2, <1>7, <2>2 DEF LexTypeOK, Finish
<1>8. CASE Panics
  BY <1>1, <1>2, <1>8 DEF LexTypeOK, Panics
<1> QED BY <1>3, <1>4, <1>5, <1>6, <1>7, <1>8, EveryStep

LEMMA ReadingKept ==
  ASSUME LexInv, Next
  PROVE  Reading'
<1>1. text' = text
  BY TextStays
<1>2. CASE Passes
  BY <1>2 DEF Passes, Reading
<1>3. ASSUME NEW kind \in Kinds, Takes(kind)
      PROVE  Reading'
  BY <1>3 DEF Takes, Reading
<1>4. CASE Enters
  <2>1. CASE pos.byte < pos'.byte
    BY <1>4, <2>1 DEF Enters, Reading
  <2>2. CASE mode' = "int" /\ pos' = pos /\ peek(pos) \in Digits
    <3>1. peek(pos)' = peek(pos)
      BY <1>1, <2>2 DEF peek, is_eof
    <3> QED BY <1>4, <2>2, <3>1 DEF Enters, Reading
  <2> QED BY <1>4, <2>1, <2>2 DEF Enters
<1>5. CASE Goes
  <2>1. start' = start /\ pos.byte < pos'.byte /\ mode # "scan"
    BY <1>5 DEF Goes, Handlers
  <2>2. start.byte <= pos.byte /\ start.byte \in Nat /\ pos.byte \in Nat
    BY <2>1, Here
  <2>3. pos'.byte \in Nat
    BY PositionKept DEF Standing, Position
  <2>4. start.byte < pos'.byte
    BY <2>1, <2>2, <2>3
  <2> QED BY <2>1, <2>4 DEF Reading
<1>6. CASE Finish \/ Panics
  <2>1. UNCHANGED <<pos, mode, start>>
    BY <1>6 DEF Finish, Panics
  <2>2. peek(pos)' = peek(pos)
    BY <1>1, <2>1 DEF peek, is_eof
  <2> QED BY <2>1, <2>2 DEF LexInv, Reading
<1> QED BY <1>2, <1>3, <1>4, <1>5, <1>6, EveryStep

(* What is covered grows with every token.                                 *)
LEMMA CoveredGrows ==
  ASSUME LexInv, Next
  PROVE  /\ Covered \in Nat /\ Covered' \in Nat /\ Covered <= Covered'
         /\ \A kind : Takes(kind) => Covered < Covered' /\ Covered' = pos'.byte
         /\ Passes => Covered < Covered'
         /\ mode' # "scan" => Covered' = Covered
<1>1. Covered \in Nat /\ pos'.byte \in Nat
  BY Here, PositionKept DEF Covered, Standing, Position
<1>2. CASE Passes
  <2>1. Covered = pos.byte /\ Covered' = pos.byte + 1 /\ mode' = "scan"
    BY <1>2 DEF Passes, Covered
  <2> QED BY <1>1, <1>2, <2>1 DEF Takes, Passes
<1>3. ASSUME NEW kind, Takes(kind)
      PROVE  Covered < Covered' /\ Covered' = pos'.byte /\ mode' = "scan"
  BY <1>3 DEF Takes, Covered
<1>4. CASE Enters
  <2>1. Covered' = Covered
    BY <1>4 DEF Enters, Covered, Handlers
  <2> QED BY <1>1, <1>3, <1>4, <2>1 DEF Enters, Passes, Handlers
<1>5. CASE Goes
  <2>1. Covered' = Covered /\ mode # "scan"
    BY <1>5 DEF Goes, Covered, Handlers
  <2> QED BY <1>1, <1>3, <2>1 DEF Passes
<1>6. CASE Finish \/ Panics
  <2>1. Covered' = Covered /\ pos' = pos /\ mode' = mode
    BY <1>6 DEF Finish, Panics, Covered
  <2>2. ~Passes
    BY <2>1, Here DEF Passes
  <2> QED BY <1>1, <1>3, <2>1, <2>2
<1>7. CASE \E kind \in Kinds : Takes(kind)
  <2>1. Covered < Covered' /\ Covered' = pos'.byte /\ mode' = "scan"
    BY <1>3, <1>7
  <2> QED BY <1>1, <1>3, <2>1
<1> QED BY <1>2, <1>4, <1>5, <1>6, <1>7, EveryStep

LEMMA BehindKept ==
  ASSUME LexInv, Next
  PROVE  Behind'
<1>1. /\ diagnostics \in Seq(DiagnosticType) /\ Len(diagnostics) \in Nat
      /\ tokens \in Seq(TokenType) /\ Len(tokens) \in Nat
      /\ \A j \in 1 .. Len(diagnostics) : diagnostics[j].from \in Nat
      /\ \A i \in 1 .. Len(tokens) : tokens[i].to \in Nat
  <2>1. diagnostics \in Seq(DiagnosticType) /\ tokens \in Seq(TokenType)
    BY DEF LexInv, LexTypeOK
  <2>2. \A j \in 1 .. Len(diagnostics) : diagnostics[j] \in DiagnosticType
    BY <2>1
  <2>3. \A i \in 1 .. Len(tokens) : tokens[i] \in TokenType
    BY <2>1
  <2> QED BY <2>1, <2>2, <2>3 DEF DiagnosticType, TokenType
<1>2. PICK c \in Nat, c1 \in Nat : c = Covered /\ c1 = Covered' /\ c <= c1
  BY CoveredGrows
<1>3. /\ \A j \in 1 .. Len(diagnostics) :
           diagnostics[j].from <= c /\ (mode = "scan" => diagnostics[j].from < c)
      /\ \A i \in 1 .. Len(tokens) :
           tokens[i].kind # "Eof" => tokens[i].from < tokens[i].to /\ tokens[i].to <= c
  BY <1>2 DEF LexInv, Behind
<1>4. (\A i \in 1 .. Len(tokens) :
         tokens[i].kind # "Eof" => tokens[i].from < tokens[i].to /\ tokens[i].to <= c1)
  BY <1>1, <1>2, <1>3
<1>5. ASSUME Extends, c < c1 \/ mode' # "scan"
      PROVE  \A j \in 1 .. Len(diagnostics') :
               /\ diagnostics'[j].from <= c1
               /\ mode' = "scan" => diagnostics'[j].from < c1
  <2> SUFFICES ASSUME NEW j \in 1 .. Len(diagnostics')
               PROVE  /\ diagnostics'[j].from <= c1
                      /\ mode' = "scan" => diagnostics'[j].from < c1
    OBVIOUS
  <2>1. Len(diagnostics') \in Nat
    BY <1>5 DEF Extends
  <2>2. j \in 1 .. Len(diagnostics) \/ j \in Len(diagnostics) + 1 .. Len(diagnostics')
    BY <1>1, <2>1
  <2>3. PICK f : f = diagnostics'[j].from
    OBVIOUS
  <2>4. f \in Nat /\ f <= c
    BY <1>1, <1>2, <1>3, <1>5, <2>2, <2>3 DEF Extends
  <2>5. f <= c1 /\ (c < c1 => f < c1)
    BY <1>2, <2>4
  <2> QED BY <1>5, <2>3, <2>5
<1>6. ASSUME tokens' = tokens, Extends, c < c1 \/ mode' # "scan"
      PROVE  Behind'
  BY <1>2, <1>4, <1>5, <1>6 DEF Behind
<1>7. ASSUME tokens' = tokens, diagnostics' = diagnostics, mode' = mode, c = c1
      PROVE  Behind'
  BY <1>2, <1>3, <1>7 DEF Behind
<1>8. CASE Passes
  <2>1. c < c1
    BY <1>2, <1>8, CoveredGrows
  <2>2. Extends
    BY <1>8, Unreported DEF Passes, LexInv
  <2> QED BY <1>6, <1>8, <2>1, <2>2 DEF Passes
<1>9. ASSUME NEW kind \in Kinds, Takes(kind)
      PROVE  Behind'
  <2>1. c < c1 /\ c1 = pos'.byte /\ Extends
    BY <1>2, <1>9, CoveredGrows DEF Takes
  <2>2. tokens' = Append(tokens, [kind |-> kind, from |-> c, to |-> c1])
    BY <1>2, <1>9, <2>1 DEF Takes
  <2>3. ASSUME NEW i \in 1 .. Len(tokens'), tokens'[i].kind # "Eof"
        PROVE  tokens'[i].from < tokens'[i].to /\ tokens'[i].to <= c1
    <3>1. Len(tokens') = Len(tokens) + 1
      BY <1>1, <2>2
    <3>2. CASE i = Len(tokens) + 1
      <4>1. tokens'[i] = [kind |-> kind, from |-> c, to |-> c1]
        BY <1>1, <2>2, <3>2
      <4>2. c1 <= c1
        BY <1>2
      <4> QED BY <2>1, <4>1, <4>2
    <3>3. CASE i # Len(tokens) + 1
      <4>1. i \in 1 .. Len(tokens)
        BY <1>1, <3>1, <3>3
      <4>2. tokens'[i] = tokens[i]
        BY <1>1, <2>2, <4>1
      <4> QED BY <1>4, <2>3, <4>1, <4>2
    <3> QED BY <3>2, <3>3
  <2> QED BY <1>2, <1>5, <2>1, <2>3 DEF Behind
<1>10. CASE Enters
  <2>1. Extends /\ tokens' = tokens /\ mode' # "scan"
    BY <1>10, Unreported DEF Enters, LexInv, Handlers
  <2> QED BY <1>6, <2>1
<1>11. CASE Goes
  BY <1>6, <1>11 DEF Goes, Handlers
<1>12. CASE Panics
  <2>1. Covered' = Covered
    BY <1>12 DEF Panics, Covered
  <2> QED BY <1>2, <1>7, <1>12, <2>1 DEF Panics
<1>13. CASE Finish
  <2>1. /\ tokens' = Append(tokens, Token("Eof", pos, pos)) /\ diagnostics' = diagnostics
        /\ mode' = mode /\ c1 = c
    BY <1>2, <1>13 DEF Finish, Covered
  <2>2. ASSUME NEW i \in 1 .. Len(tokens'), tokens'[i].kind # "Eof"
        PROVE  tokens'[i].from < tokens'[i].to /\ tokens'[i].to <= c1
    <3>1. Len(tokens') = Len(tokens) + 1
      BY <1>1, <2>1
    <3>2. CASE i = Len(tokens) + 1
      <4>1. tokens'[i] = Token("Eof", pos, pos)
        BY <1>1, <2>1, <3>2
      <4> QED BY <2>2, <4>1 DEF Token
    <3>3. CASE i # Len(tokens) + 1
      <4>1. i \in 1 .. Len(tokens)
        BY <1>1, <3>1, <3>3
      <4>2. tokens'[i] = tokens[i]
        BY <1>1, <2>1, <4>1
      <4> QED BY <1>4, <2>2, <4>1, <4>2
    <3> QED BY <3>2, <3>3
  <2>3. \A j \in 1 .. Len(diagnostics) :
           diagnostics[j].from <= c1 /\ (mode = "scan" => diagnostics[j].from < c1)
    BY <1>3, <2>1
  <2> QED BY <1>2, <2>1, <2>2, <2>3 DEF Behind
<1> QED BY <1>8, <1>9, <1>10, <1>11, <1>12, <1>13, EveryStep

(* What NumberRead says of the next state, by the names of its parts.      *)
LEMMA NumberReadNext ==
  ASSUME text' = text, NEW s \in Nat, NEW n \in Nat, NEW d \in Nat, NEW b \in Nat,
         s = start'.byte, n = pos'.byte, d = number'.digits, b = number'.base,
         s < Len(text), text[s + 1] \in Digits, b = BaseAt(s),
         d = s + (IF b = 10 THEN 0 ELSE 2), d <= n,
         WrongNext(s) => \E i \in d + 1 .. n : BadByte(b, d, i),
         ~WrongNext(s) => /\ \A i \in d + 1 .. n : ~BadByte(b, d, i)
                          /\ number'.saw <=> d < n
                          /\ number'.digit <=> d < n /\ IsDigitOf(b, n)
                          /\ number'.underscore <=> d < n /\ text[n] = "_"
  PROVE  NumberRead'
<1>1. Wrong(start.byte)' <=> WrongNext(s)
  BY DEF Wrong, WrongNext
<1>2. BaseAt(start.byte)' = BaseAt(s)
  BY DEF BaseAt
<1>3. \A i : BadByte(number.base, number.digits, i)' <=> BadByte(b, d, i)
  BY DEF BadByte, IsDigitOf
<1>4. IsDigitOf(number.base, pos.byte)' <=> IsDigitOf(b, n)
  BY DEF IsDigitOf
<1>5. NumberRead' <=>
        (mode' = "int" =>
          /\ s < Len(text) /\ text[s + 1] \in Digits
          /\ b = BaseAt(s) /\ d = s + (IF b = 10 THEN 0 ELSE 2) /\ d <= n
          /\ IF WrongNext(s)
               THEN \E i \in d + 1 .. n : BadByte(b, d, i)
               ELSE /\ \A i \in d + 1 .. n : ~BadByte(b, d, i)
                    /\ number'.saw <=> d < n
                    /\ number'.digit <=> d < n /\ IsDigitOf(b, n)
                    /\ number'.underscore <=> d < n /\ text[n] = "_")
  BY <1>1, <1>2, <1>3, <1>4, Zenon DEF NumberRead
<1> QED BY <1>5, Zenon

LEMMA NumberReadKept ==
  ASSUME LexInv, Next
  PROVE  NumberRead'
<1>1. text' = text
  BY TextStays
<1>2. CASE mode' # "int"
  BY <1>2 DEF NumberRead
<1>3. CASE lex_int
  <2>1. PICK s \in Nat, n \in Nat, b \in Nat : s = pos.byte /\ n = pos'.byte /\ b = PrefixBase
    BY <1>3, NumberBegins, Here DEF Standing, Position
  <2>2. /\ s = start'.byte /\ number'.digits = n /\ number'.base = b /\ b = BaseAt(s)
        /\ number'.saw = FALSE /\ number'.digit = FALSE /\ number'.underscore = FALSE
        /\ diagnostics' = diagnostics
    BY <1>3, <2>1, NumberBegins DEF Enter
  <2>3. s < Len(text) /\ text[s + 1] \in Digits
    BY <1>3, <2>1, NumberBegins, Here
  <2>4. n = s + (IF b = 10 THEN 0 ELSE 2)
    BY <1>3, <2>1, NumberBegins
  <2>5. ~WrongNext(s)
    <3>1. mode = "scan" /\ Covered = s
      BY <1>3, <2>1, NumberBegins DEF Covered
    <3>2. \A j \in 1 .. Len(diagnostics) : diagnostics[j].from < s
      BY <3>1 DEF LexInv, Behind
    <3>3. ~(s < s)
      BY <2>1
    <3>4. ~Wrong(s)
      BY <3>2, <3>3, Zenon DEF Wrong
    <3> QED BY <2>2, <3>4, WrongStays
  <2>6. ~(n < n) /\ n <= n /\ n + 1 .. n = {}
    OBVIOUS
  <2> QED BY <1>1, <2>1, <2>2, <2>3, <2>4, <2>5, <2>6, NumberReadNext, Zenon
<1>4. CASE IntDigit \/ IntSeparator \/ IntBadDigit
  <2>0. mode = "int"
    BY <1>4 DEF IntDigit, IntSeparator, IntBadDigit, In
  <2>1. PICK s \in Nat, n \in Nat, d \in Nat, b \in Nat : s = start.byte /\ NumberParts(n, d, b)
    <3>1. number.digits \in Nat /\ number.base \in Nat
      BY DEF LexInv, LexTypeOK, NumberType
    <3> QED BY <3>1, Here DEF NumberParts
  <2>2. /\ s = start'.byte /\ pos'.byte = n + 1
    BY <1>4, <2>1, IntStepGoes DEF Goes, NumberParts
  <2>3. number'.base = b /\ number'.digits = d
    BY <1>4, <2>1, NumberGrows, Zenon
  <2>4. /\ s < Len(text) /\ text[s + 1] \in Digits /\ b = BaseAt(s)
        /\ d = s + (IF b = 10 THEN 0 ELSE 2)
    BY <2>0, <2>1 DEF LexInv, NumberRead, NumberParts
  <2>5. d <= n
    BY <2>0, <2>1, NumberSoFar, Zenon
  <2>6. d < n + 1 /\ d <= n + 1 /\ n + 1 \in Nat
    BY <2>5
  <2>7. WrongNext(s) => \E i \in d + 1 .. n + 1 : BadByte(b, d, i)
    BY <1>4, <2>1, NumberGrows, Zenon
  <2>8. ~WrongNext(s) =>
          /\ \A i \in d + 1 .. n + 1 : ~BadByte(b, d, i)
          /\ number'.saw <=> d < n + 1
          /\ number'.digit <=> d < n + 1 /\ IsDigitOf(b, n + 1)
          /\ number'.underscore <=> d < n + 1 /\ text[n + 1] = "_"
    BY <1>4, <2>1, <2>6, NumberGrows, Zenon
  <2> QED BY <1>1, <2>2, <2>3, <2>4, <2>6, <2>7, <2>8, NumberReadNext, Zenon
<1>5. CASE UNCHANGED <<pos, start, mode, number, diagnostics>>
  BY <1>1, <1>5 DEF LexInv, NumberRead, Wrong, BaseAt, BadByte, IsDigitOf
<1>6. CASE mode' = "int" /\ Enters
  BY <1>3, <1>6 DEF Enters
<1>7. CASE mode' = "int" /\ Goes
  BY <1>4, <1>7 DEF Goes
<1>8. CASE mode' = "int" /\ (Passes \/ \E kind \in Kinds : Takes(kind))
  BY <1>8 DEF Passes, Takes
<1>9. CASE Finish \/ Panics
  BY <1>5, <1>9 DEF Finish, Panics
<1> QED BY <1>2, <1>6, <1>7, <1>8, <1>9, EveryStep

(* IntegersAsWritten of one token, now and in the next state.              *)
Judged(t) ==
  /\ t.kind = "IntLit" =>
       (WellFormedInt(SubSeq(text, t.from + 1, t.to)) <=> ~Wrong(t.from))
  /\ t.kind \in WordKinds /\ t.to < Len(text) => ~is_ident_rest(text[t.to + 1])
JudgedNext(t) ==
  /\ t.kind = "IntLit" =>
       (WellFormedInt(SubSeq(text, t.from + 1, t.to)) <=> ~WrongNext(t.from))
  /\ t.kind \in WordKinds /\ t.to < Len(text) => ~is_ident_rest(text[t.to + 1])

LEMMA JudgedThen ==
  ASSUME text' = text, \A i \in 1 .. Len(tokens') : JudgedNext(tokens'[i])
  PROVE  IntegersAsWritten'
BY Zenon DEF IntegersAsWritten, JudgedNext, WrongNext, WordKinds

(* A token there was stays judged: what is reported now is not of it.      *)
LEMMA JudgedStays ==
  ASSUME LexInv, Extends, NEW i \in 1 .. Len(tokens)
  PROVE  JudgedNext(tokens[i])
<1>1. Judged(tokens[i])
  <2>1. IntegersAsWritten
    BY DEF LexInv
  <2> QED BY <2>1 DEF IntegersAsWritten, Judged, Wrong, WordKinds
<1>2. ASSUME tokens[i].kind = "IntLit"
      PROVE  WrongNext(tokens[i].from) <=> Wrong(tokens[i].from)
  <2>1. tokens[i] \in TokenType
    BY DEF LexInv, LexTypeOK
  <2>2. tokens[i].from < tokens[i].to /\ tokens[i].to <= Covered
    BY <1>2 DEF LexInv, Behind
  <2>3. PICK c \in Nat : c = Covered
    BY Here DEF Covered
  <2>4. tokens[i].from # Covered
    BY <2>1, <2>2, <2>3 DEF TokenType
  <2> QED BY <2>4, WrongElsewhere
<1> QED BY <1>1, <1>2, Zenon DEF Judged, JudgedNext

LEMMA IntegersKept ==
  ASSUME LexInv, Next
  PROVE  IntegersAsWritten'
<1>1. /\ text' = text /\ tokens \in Seq(TokenType) /\ Len(tokens) \in Nat
      /\ LexTypeOK
  BY TextStays DEF LexInv, LexTypeOK
<1>2. ASSUME tokens' = tokens, Extends
      PROVE  IntegersAsWritten'
  BY <1>1, <1>2, JudgedStays, JudgedThen
<1>3. ASSUME NEW t, tokens' = Append(tokens, t), Extends, JudgedNext(t)
      PROVE  IntegersAsWritten'
  <2>1. ASSUME NEW i \in 1 .. Len(tokens')
        PROVE  JudgedNext(tokens'[i])
    <3>1. Len(tokens') = Len(tokens) + 1
      BY <1>1, <1>3
    <3>2. CASE i = Len(tokens) + 1
      BY <1>1, <1>3, <3>2
    <3>3. CASE i # Len(tokens) + 1
      <4>1. i \in 1 .. Len(tokens) /\ tokens'[i] = tokens[i]
        BY <1>1, <1>3, <3>1, <3>3
      <4> QED BY <1>3, <4>1, JudgedStays
    <3> QED BY <3>2, <3>3
  <2> QED BY <1>1, <2>1, JudgedThen
<1>4. CASE Passes \/ Enters
  <2>1. tokens' = tokens /\ diagnostics' = diagnostics
    BY <1>4 DEF Passes, Enters
  <2> QED BY <1>1, <1>2, <2>1, Unreported
<1>5. CASE Goes
  BY <1>2, <1>5 DEF Goes
<1>6. CASE Panics
  BY <1>1, <1>2, <1>6, Unreported DEF Panics
<1>7. CASE Finish
  <2>1. PICK t : t = Token("Eof", pos, pos)
    OBVIOUS
  <2>2. JudgedNext(t)
    BY <2>1 DEF Token, JudgedNext, WordKinds
  <2>3. tokens' = Append(tokens, t) /\ diagnostics' = diagnostics
    BY <1>7, <2>1 DEF Finish
  <2> QED BY <1>1, <1>3, <2>2, <2>3, Unreported
<1>8. ASSUME NEW kind \in Kinds, Takes(kind)
      PROVE  IntegersAsWritten'
  <2>1. PICK t : t = [kind |-> kind, from |-> Covered, to |-> pos'.byte]
    OBVIOUS
  <2>2. t.kind = kind /\ t.from = Covered /\ t.to = pos'.byte
    BY <2>1
  <2>3. ASSUME kind \in WordKinds
        PROVE  /\ t.from = start.byte /\ t.to = pos.byte
               /\ t.to < Len(text) => ~is_ident_rest(text[t.to + 1])
    <3>1. mode # "scan" /\ pos' = pos /\ ~is_ident_rest(peek(pos))
      BY <1>8, <2>3 DEF Takes
    <3> QED BY <2>2, <3>1, Here DEF Covered
  <2>4. ASSUME kind = "IntLit"
        PROVE  WellFormedInt(SubSeq(text, t.from + 1, t.to)) <=> ~WrongNext(t.from)
    <3>1. IntEnd
      BY <1>8, <2>4 DEF Takes
    <3>2. t.from = start.byte /\ t.to = pos.byte
      BY <2>3, <2>4 DEF WordKinds
    <3> QED BY <3>1, <3>2, NumberJudged, Zenon
  <2>5. JudgedNext(t)
    BY <2>2, <2>3, <2>4, Zenon DEF JudgedNext
  <2>6. tokens' = Append(tokens, t) /\ Extends
    BY <1>8, <2>1 DEF Takes
  <2> QED BY <1>3, <2>5, <2>6
<1> QED BY <1>4, <1>5, <1>6, <1>7, <1>8, EveryStep

LEMMA PanicKept ==
  ASSUME LexInv, Next
  PROVE  status' = "panic" => PanicsAtHex'
<1>1. status = "running"
  BY EveryStep
<1> QED BY <1>1, EveryStep DEF Passes, Takes, Enters, Goes, Finish, Panics

LEMMA LexStep ==
  ASSUME LexInv, [Next]_vars
  PROVE  LexInv'
<1>1. CASE Next
  <2>1. Standing(pos)'
    BY <1>1, PositionKept, TextStays, PositionStays
  <2> QED BY <1>1, <2>1, TypesKept, ReadingKept, BehindKept, NumberReadKept, IntegersKept,
             PanicKept DEF LexInv
<1>2. CASE UNCHANGED vars
  <2>1. /\ text' = text /\ pos' = pos /\ tokens' = tokens /\ diagnostics' = diagnostics
        /\ mode' = mode /\ start' = start /\ number' = number /\ status' = status
    BY <1>2 DEF vars
  <2>2. Standing(pos)'
    BY <2>1, PositionStays DEF LexInv
  <2>3. LexTypeOK' /\ Reading' /\ Behind' /\ (status' = "panic" => PanicsAtHex')
    BY <2>1 DEF LexInv, LexTypeOK, Reading, Behind, Covered, PanicsAtHex, peek, is_eof
  <2>4. NumberRead'
    BY <2>1 DEF LexInv, NumberRead, Wrong, BaseAt, BadByte, IsDigitOf
  <2>5. IntegersAsWritten'
    BY <2>1 DEF LexInv, IntegersAsWritten
  <2> QED BY <2>2, <2>3, <2>4, <2>5 DEF LexInv
<1> QED BY <1>1, <1>2
-----------------------------------------------------------------------------
(* The inductive invariant: what LexInv says holds of every state of the   *)
(* lexer, on every text.                                                   *)
THEOREM LexInvariance == LexSpec => []LexInv
<1>1. LexInv /\ [Next]_vars => LexInv'
  BY LexStep
<1> QED BY <1>1, LexInitial, PTL DEF LexSpec

(* Line and column, which every diagnostic shows, are those of the byte    *)
(* index, however the break was passed, and the lexer never stands between *)
(* a CR and its LF (lexer.rs, advance and lex_newline).                    *)
THEOREM LexPositions == LexSpec => []PositionExact
<1>1. LexInv => PositionExact
  BY DEF LexInv, Standing, Exact, Breaking, Latest, PositionExact
<1> QED BY <1>1, LexInvariance, PTL

(* A number token raises E1003 exactly when it is not an integer of the    *)
(* language, and no word is split in two tokens (lexer.rs, lex_int).       *)
THEOREM IntegersJudged == LexSpec => []IntegersAsWritten
<1>1. LexInv => IntegersAsWritten
  BY DEF LexInv
<1> QED BY <1>1, LexInvariance, PTL

(* The lexer panics in one place alone: a string behind whose \x the text  *)
(* ends with a line break of two bytes (lexer.rs, lex_string).             *)
THEOREM PanicsOnlyAtHex == LexSpec => [](status = "panic" => PanicsAtHex)
<1>1. LexInv => (status = "panic" => PanicsAtHex)
  BY DEF LexInv
<1> QED BY <1>1, LexInvariance, PTL
-----------------------------------------------------------------------------
(* The tape: each way a step goes is a step of it, or none.                *)

(* What the tape sees of the diagnostics.                                  *)
LEMMA CleanTape ==
  ASSUME LexInv, Extends
  PROVE  /\ diagnostics' = << >> => diagnostics = << >>
         /\ Faulted => diagnostics' # << >>
         /\ ~Faulted => (diagnostics' = << >> <=> diagnostics = << >>)
<1>1. /\ Len(diagnostics) \in Nat /\ Len(diagnostics') \in Nat
      /\ Len(diagnostics) <= Len(diagnostics')
      /\ diagnostics = << >> <=> Len(diagnostics) = 0
      /\ diagnostics' = << >> <=> Len(diagnostics') = 0
  BY EmptySeq DEF LexInv, LexTypeOK, Extends
<1> QED BY <1>1 DEF Faulted

LEMMA TapeTakes ==
  ASSUME LexInv, status = "running", NEW kind \in Kinds, Takes(kind)
  PROVE  Tape!Next
<1>1. PICK to : to = pos'.byte
  OBVIOUS
<1>2. to \in 1 .. Len(text) /\ Covered < to /\ Covered' = to
  <2>1. to \in Nat /\ to <= Len(text) /\ Covered < to
    BY <1>1 DEF Takes, Standing, Position
  <2>2. Covered \in Nat /\ Len(text) \in Nat
    BY Here DEF Covered
  <2>3. Covered' = to
    BY <1>1 DEF Takes, Covered
  <2> QED BY <2>1, <2>2, <2>3
<1>3. diagnostics' = << >> => diagnostics = << >> /\ kind # "Error"
  BY CleanTape DEF Takes
<1>4. /\ tokens' = Append(tokens, [kind |-> kind, from |-> Covered, to |-> to])
      /\ text' = text /\ status' = status
  BY <1>1 DEF Takes
<1>5. Tape!Take(kind, to)
  BY <1>2, <1>3, <1>4 DEF Tape!Take, Covered
<1> QED BY <1>2, <1>5 DEF Tape!Next

(* A diagnostic in the middle of a token, or nothing the tape sees.        *)
LEMMA TapeWaits ==
  ASSUME LexInv, status = "running", Extends, Covered' = Covered, UNCHANGED <<text, tokens>>,
         (status = "done")' <=> status = "done"
  PROVE  Tape!Next \/ UNCHANGED Tape!tapeVars
<1>1. CASE Faulted
  <2>1. diagnostics' # << >>
    BY <1>1, CleanTape
  <2>2. Tape!Fault
    BY <2>1 DEF Tape!Fault, Covered
  <2> QED BY <2>2 DEF Tape!Next
<1>2. CASE ~Faulted
  <2>1. (diagnostics = << >>)' <=> diagnostics = << >>
    BY <1>2, CleanTape
  <2> QED BY <2>1 DEF Tape!tapeVars, Covered
<1> QED BY <1>1, <1>2

LEMMA TapeStep ==
  ASSUME LexInv, [Next]_vars
  PROVE  Tape!Next \/ UNCHANGED Tape!tapeVars
<1>1. CASE UNCHANGED vars
  BY <1>1 DEF vars, Tape!tapeVars
<1>2. CASE Next
  <2>1. status = "running"
    BY <1>2, EveryStep
  <2>2. CASE Passes
    <3>1. Tape!Skip
      BY <2>1, <2>2 DEF Passes, Tape!Skip
    <3> QED BY <3>1 DEF Tape!Next
  <2>3. ASSUME NEW kind \in Kinds, Takes(kind)
        PROVE  Tape!Next
    BY <2>1, <2>3, TapeTakes
  <2>4. CASE Enters
    <3>1. Extends
      BY <2>4, Unreported DEF Enters, LexInv
    <3>2. Covered' = Covered
      BY <2>4 DEF Enters, Covered, Handlers
    <3> QED BY <2>1, <2>4, <3>1, <3>2, TapeWaits DEF Enters
  <2>5. CASE Goes
    <3>1. Covered' = Covered
      BY <2>5 DEF Goes, Covered, Handlers
    <3> QED BY <2>1, <2>5, <3>1, TapeWaits DEF Goes
  <2>6. CASE Finish
    <3>1. Covered = Len(text) /\ mode = "scan"
      BY <2>6, Here DEF Finish, In, Covered
    <3>2. tokens' = Append(tokens, [kind |-> "Eof", from |-> pos.byte, to |-> pos.byte])
      BY <2>6 DEF Finish, Token
    <3>3. Tape!Finish
      BY <2>1, <2>6, <3>1, <3>2 DEF Finish, Covered, Tape!Finish
    <3> QED BY <3>3 DEF Tape!Next
  <2>7. CASE Panics
    <3>1. Extends
      BY <2>7, Unreported DEF Panics, LexInv
    <3>2. Covered' = Covered /\ ((status = "done")' <=> status = "done")
      BY <2>1, <2>7 DEF Panics, Covered
    <3> QED BY <2>1, <2>7, <3>1, <3>2, TapeWaits DEF Panics
  <2> QED BY <1>2, <2>2, <2>3, <2>4, <2>5, <2>6, <2>7, EveryStep
<1> QED BY <1>1, <1>2

(* The lexer implements the tape the parser relies on: its tokens tile the *)
(* text but for the blanks, an Error token comes with a diagnostic, and    *)
(* one Eof token stands behind the last byte (lexer.rs, lex and every      *)
(* handler).                                                               *)
THEOREM LexImplementsTape == LexSpec => TapeSpec
<1>1. Init => Tape!Init
  BY DEF Init, Origin, Tape!Init
<1>2. LexInv /\ [Next]_vars => [Tape!Next]_Tape!tapeVars
  BY TapeStep
<1> QED BY <1>1, <1>2, LexInvariance, PTL DEF LexSpec, TapeSpec, Tape!Spec
=============================================================================
