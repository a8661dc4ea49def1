----------------------------- MODULE Stage0Lexer -----------------------------
(***************************************************************************)
(* The lexer of the Rust stage-0 compiler                                  *)
(* (src/prototypes/rust_stage0/src/lexer.rs).  The text is a sequence of   *)
(* bytes; a byte is a member of a small set with one representative of     *)
(* every class the code tells apart.  Each turn of a loop of a lex_*       *)
(* handler is one action: `mode` is the handler the lexer is in, `start`   *)
(* the position the handler saved on entry.  A read past the end of the    *)
(* text is a panic, as it is in Rust.                                      *)
(***************************************************************************)
EXTENDS Naturals, Sequences, FiniteSets

CONSTANT Texts      \* the sources that are lexed

Letters == {"f", "i", "b", "n", "x"}
Digits == {"0", "9"}
Breaks == {"cr", "lf"}
Punctuation == {"/", "*", "=", "-", ">"}
Bytes == Letters \cup Digits \cup Breaks \cup Punctuation
           \cup {"sp", "_", "dq", "sq", "bs", "hi"}

ASSUME TextsAssumption == Texts \subseteq Seq(Bytes)

VARIABLES text,         \* the bytes of the source
          pos,          \* index, line and column
          tokens,       \* the tokens pushed
          diagnostics,  \* the diagnostics pushed
          mode,         \* the handler that is running, "scan" between two
          start,        \* where its token starts
          number,       \* the local variables of lex_int
          status        \* "running", "done" or "panic"

vars == <<text, pos, tokens, diagnostics, mode, start, number, status>>

Kinds == {"Newline", "If", "Ident", "IntLit", "StrLit", "ByteLit", "Comment", "Error",
          "Slash", "Star", "Eq", "Minus", "Gt", "Arrow", "EqEq", "GtEq"}
-----------------------------------------------------------------------------
(* Looking at the text.  Past its end there is "eof", which no byte equals *)
(* and the code never reads: is_eof is asked first.                        *)
is_eof(p) == p.byte >= Len(text)
peek(p) == IF is_eof(p) THEN "eof" ELSE text[p.byte + 1]
peek_next(p) == IF p.byte + 2 <= Len(text) THEN text[p.byte + 2] ELSE "none"

is_ident_rest(b) == b \in Letters \cup Digits \cup {"_"}

(* No digit is at least every base. *)
digit_value(b) == CASE b = "0" -> 0 [] b = "9" -> 9 [] b = "b" -> 11 [] b = "f" -> 15
                    [] OTHER -> 16
is_hex(b) == digit_value(b) < 16

keyword_kind(word) == IF word = <<"i", "f">> THEN "If" ELSE "Ident"

Single == [b \in Punctuation |->
             CASE b = "/" -> "Slash" [] b = "*" -> "Star" [] b = "=" -> "Eq"
               [] b = "-" -> "Minus" [] OTHER -> "Gt"]

(* The tokens of two bytes, none for any other pair. *)
Double(a, b) == CASE a = "-" /\ b = ">" -> "Arrow"
                  [] a = "=" /\ b = "=" -> "EqEq"
                  [] a = ">" /\ b = "=" -> "GtEq"
                  [] OTHER -> "none"

(* Mutant: a CR is a line break of its own, also before an LF. *)
advance_CrAlone(p) ==
  IF peek(p) \in Breaks THEN [byte |-> p.byte + 1, line |-> p.line + 1, column |-> 1]
  ELSE [p EXCEPT !.byte = @ + 1, !.column = @ + 1]

(* The position behind the byte at p: CR LF is one line break. *)
advance(p) ==
  CASE peek(p) = "lf" -> [byte |-> p.byte + 1, line |-> p.line + 1, column |-> 1]
    [] peek(p) = "cr" -> [byte |-> p.byte + (IF peek_next(p) = "lf" THEN 2 ELSE 1),
                          line |-> p.line + 1, column |-> 1]
    [] OTHER -> [p EXCEPT !.byte = @ + 1, !.column = @ + 1]
-----------------------------------------------------------------------------
Token(kind, from, to) == [kind |-> kind, from |-> from.byte, to |-> to.byte]
Diagnostic(code, from, to) == [code |-> code, from |-> from.byte, to |-> to.byte]

(* The handler ends at p: its token is pushed and the dispatch goes on. *)
Push(kind, p) == /\ tokens' = Append(tokens, Token(kind, start, p))
                 /\ pos' = p
                 /\ mode' = "scan"

(* A handler's token of a fixed length. *)
PushWhole(kind, p) == /\ tokens' = Append(tokens, Token(kind, pos, p))
                      /\ pos' = p
                      /\ UNCHANGED <<mode, start, number>>

Enter(handler, p) == /\ mode' = handler
                     /\ start' = pos
                     /\ pos' = p
                     /\ UNCHANGED <<tokens, diagnostics>>

Report(code, p) == diagnostics' = Append(diagnostics, Diagnostic(code, start, p))

In(handler) == status = "running" /\ mode = handler
Scanning == In("scan") /\ ~is_eof(pos)
Keep == UNCHANGED <<text, status>>
-----------------------------------------------------------------------------
(* The dispatch of lex, one action per arm. *)
Blank == /\ Scanning /\ peek(pos) = "sp"
         /\ pos' = advance(pos)
         /\ UNCHANGED <<tokens, diagnostics, mode, start, number>> /\ Keep

lex_newline ==
  /\ Scanning /\ peek(pos) \in Breaks
  /\ PushWhole("Newline",
               IF peek(pos) = "cr" /\ peek_next(pos) = "lf"
                 THEN [byte |-> pos.byte + 2, line |-> pos.line + 1, column |-> 1]
                 ELSE advance(pos))
  /\ UNCHANGED diagnostics /\ Keep

single == /\ Scanning /\ peek(pos) \in Punctuation
          /\ Double(peek(pos), peek_next(pos)) = "none"
          /\ ~(peek(pos) = "/" /\ peek_next(pos) \in {"/", "*"})
          /\ PushWhole(Single[peek(pos)], advance(pos))
          /\ UNCHANGED diagnostics /\ Keep

double == /\ Scanning
          /\ Double(peek(pos), peek_next(pos)) # "none"
          /\ PushWhole(Double(peek(pos), peek_next(pos)), advance(advance(pos)))
          /\ UNCHANGED diagnostics /\ Keep

(* Mutant: a byte of no token is passed on without a diagnostic. *)
invalid_char_Silent ==
  /\ Scanning /\ peek(pos) \in {"hi", "bs"}
  /\ PushWhole("Error", advance(pos))
  /\ UNCHANGED diagnostics /\ Keep

invalid_char ==
  /\ Scanning /\ peek(pos) \in {"hi", "bs"}
  /\ PushWhole("Error", advance(pos))
  /\ diagnostics' = Append(diagnostics, Diagnostic("E0102", pos, advance(pos)))
  /\ Keep

(* The end of the loop: the Eof token. *)
Finish == /\ In("scan") /\ is_eof(pos)
          /\ tokens' = Append(tokens, Token("Eof", pos, pos))
          /\ status' = "done"
          /\ UNCHANGED <<text, pos, diagnostics, mode, start, number>>
-----------------------------------------------------------------------------
(* Identifiers and keywords. *)
lex_ident == /\ Scanning /\ peek(pos) \in Letters \cup {"_"}
             /\ Enter("ident", advance(pos))
             /\ UNCHANGED number /\ Keep

IdentByte == /\ In("ident") /\ is_ident_rest(peek(pos))
             /\ pos' = advance(pos)
             /\ UNCHANGED <<tokens, diagnostics, mode, start, number>> /\ Keep

IdentEnd == /\ In("ident")
            /\ ~is_ident_rest(peek(pos))
            /\ Push(keyword_kind(SubSeq(text, start.byte + 1, pos.byte)), pos)
            /\ UNCHANGED <<diagnostics, start, number>> /\ Keep
-----------------------------------------------------------------------------
(* Integers. *)
NoNumber == [base |-> 10, digits |-> 0, digit |-> FALSE, underscore |-> FALSE, saw |-> FALSE]

PrefixBase == IF peek(pos) # "0" THEN 10
              ELSE CASE peek_next(pos) = "x" -> 16 [] peek_next(pos) = "b" -> 2
                     [] OTHER -> 10

lex_int == /\ Scanning /\ peek(pos) \in Digits
           /\ LET body == IF PrefixBase = 10 THEN pos ELSE advance(advance(pos)) IN
                /\ Enter("int", body)
                /\ number' = [NoNumber EXCEPT !.base = PrefixBase, !.digits = body.byte]
           /\ Keep

IntDigit == /\ In("int") /\ digit_value(peek(pos)) < number.base
            /\ number' = [number EXCEPT !.saw = TRUE, !.digit = TRUE, !.underscore = FALSE]
            /\ pos' = advance(pos)
            /\ UNCHANGED <<tokens, diagnostics, mode, start>> /\ Keep

(* Mutant: a separator does not ask for a digit before the next one. *)
IntSeparator_KeepsDigit ==
  /\ In("int") /\ peek(pos) = "_"
  /\ IF number.digit THEN UNCHANGED diagnostics ELSE Report("E1003", pos)
  /\ number' = [number EXCEPT !.underscore = TRUE]
  /\ pos' = advance(pos)
  /\ UNCHANGED <<tokens, mode, start>> /\ Keep

IntSeparator ==
  /\ In("int") /\ peek(pos) = "_"
  /\ IF number.digit THEN UNCHANGED diagnostics ELSE Report("E1003", pos)
  /\ number' = [number EXCEPT !.digit = FALSE, !.underscore = TRUE]
  /\ pos' = advance(pos)
  /\ UNCHANGED <<tokens, mode, start>> /\ Keep

IntBadDigit == /\ In("int") /\ peek(pos) \in Letters \cup Digits
               /\ digit_value(peek(pos)) >= number.base
               /\ Report("E1003", pos)
               /\ pos' = advance(pos)
               /\ UNCHANGED <<tokens, mode, start, number>> /\ Keep

IntEnd == /\ In("int")
          /\ ~is_ident_rest(peek(pos))
          /\ IF ~number.saw \/ number.underscore \/ number.digits = pos.byte
               THEN Report("E1003", pos) ELSE UNCHANGED diagnostics
          /\ Push("IntLit", pos)
          /\ UNCHANGED <<start, number>> /\ Keep
-----------------------------------------------------------------------------
(* Strings.  Unterminated is the code behind the loop, reached by break.   *)
Unterminated(p, before) ==
  /\ diagnostics' = Append(before, Diagnostic("E1002", start, p))
  /\ Push("Error", p)

lex_string == /\ Scanning /\ peek(pos) = "dq"
              /\ Enter("string", advance(pos))
              /\ UNCHANGED number /\ Keep

StringClose == /\ In("string") /\ peek(pos) = "dq"
               /\ Push("StrLit", advance(pos))
               /\ UNCHANGED <<diagnostics, start, number>> /\ Keep

StringByte == /\ In("string") /\ ~is_eof(pos)
              /\ peek(pos) \notin {"dq", "bs"} \cup Breaks
              /\ pos' = advance(pos)
              /\ UNCHANGED <<tokens, diagnostics, mode, start, number>> /\ Keep

StringBreak == /\ In("string")
               /\ peek(pos) \in Breaks \cup {"eof"}
               /\ Unterminated(pos, diagnostics)
               /\ UNCHANGED <<start, number>> /\ Keep

(* A backslash and the byte behind it, \x excepted. *)
StringEscape ==
  /\ In("string") /\ peek(pos) = "bs"
  /\ LET esc == advance(pos) IN
       \/ /\ is_eof(esc)
          /\ Unterminated(esc, diagnostics)
       \/ /\ ~is_eof(esc) /\ peek(esc) # "x"
          /\ pos' = advance(esc)
          /\ IF peek(esc) \in {"n", "bs", "dq", "sq", "0"}
               THEN UNCHANGED diagnostics ELSE Report("E1001", esc)
          /\ UNCHANGED <<tokens, mode>>
  /\ UNCHANGED <<start, number>> /\ Keep

(* \x and two bytes: the length is checked once, for two bytes, and each   *)
(* byte is then passed with advance, which may pass a line break of two.   *)
StringHex ==
  /\ In("string") /\ peek(pos) = "bs"
  /\ peek_next(pos) = "x"
  /\ LET first == advance(advance(pos)) IN
       \/ /\ first.byte + 1 >= Len(text)
          /\ Unterminated(first, Append(diagnostics, Diagnostic("E1001", start, first)))
          /\ UNCHANGED status
       \/ /\ first.byte + 1 < Len(text)
          /\ LET second == advance(first) IN
               IF is_eof(second)
                 THEN /\ status' = "panic"
                      /\ UNCHANGED <<pos, diagnostics>>
                 ELSE /\ pos' = advance(second)
                      /\ IF is_hex(peek(first)) /\ is_hex(peek(second))
                           THEN UNCHANGED diagnostics
                           ELSE Report("E1001", advance(second))
                      /\ UNCHANGED status
          /\ UNCHANGED <<tokens, mode>>
  /\ UNCHANGED <<text, start, number>>
-----------------------------------------------------------------------------
(* Byte literals and comments. *)
lex_byte_lit == /\ Scanning /\ peek(pos) = "sq"
                /\ Enter("byte", advance(pos))
                /\ UNCHANGED number /\ Keep

ByteByte == /\ In("byte") /\ ~is_eof(pos) /\ peek(pos) \notin {"sq"} \cup Breaks
            /\ pos' = advance(pos)
            /\ UNCHANGED <<tokens, diagnostics, mode, start, number>> /\ Keep

ByteEnd == /\ In("byte")
           /\ \/ /\ peek(pos) = "sq"
                 /\ Push("ByteLit", advance(pos))
                 /\ UNCHANGED diagnostics
              \/ /\ peek(pos) \in Breaks \cup {"eof"}
                 /\ Unterminated(pos, diagnostics)
           /\ UNCHANGED <<start, number>> /\ Keep

lex_comment == /\ Scanning /\ peek(pos) = "/" /\ peek_next(pos) \in {"/", "*"}
               /\ Enter(IF peek_next(pos) = "/" THEN "line" ELSE "block", advance(advance(pos)))
               /\ UNCHANGED number /\ Keep

(* peek is * and peek_next is /, which ends a block comment. *)
AtClose == peek(pos) = "*" /\ peek_next(pos) = "/"

CommentByte == /\ ~is_eof(pos)
               /\ \/ In("line") /\ peek(pos) \notin Breaks
                  \/ In("block") /\ ~AtClose
               /\ pos' = advance(pos)
               /\ UNCHANGED <<tokens, diagnostics, mode, start, number>> /\ Keep

LineCommentEnd == /\ In("line")
                  /\ peek(pos) \in Breaks \cup {"eof"}
                  /\ Push("Comment", pos)
                  /\ UNCHANGED <<diagnostics, start, number>> /\ Keep

(* Mutant: the loop over a block comment does not look for the end of the  *)
(* text.                                                                   *)
BlockCommentEnd_NoEof == /\ In("block") /\ AtClose
                         /\ Push("Comment", advance(advance(pos)))
                         /\ UNCHANGED <<diagnostics, start, number>> /\ Keep

BlockCommentEnd ==
  /\ In("block")
  /\ \/ /\ AtClose
        /\ Push("Comment", advance(advance(pos)))
        /\ UNCHANGED diagnostics
     \/ /\ is_eof(pos)
        /\ Push("Error", pos)
        /\ Report("E0101", pos)
  /\ UNCHANGED <<start, number>> /\ Keep
-----------------------------------------------------------------------------
Origin == [byte |-> 0, line |-> 1, column |-> 1]

Init == /\ text \in Texts
        /\ pos = Origin /\ start = Origin
        /\ tokens = << >> /\ diagnostics = << >>
        /\ mode = "scan" /\ number = NoNumber
        /\ status = "running"

Dispatch == Blank \/ lex_newline \/ single \/ double \/ invalid_char \/ Finish
              \/ lex_ident \/ lex_int \/ lex_string \/ lex_byte_lit \/ lex_comment
Loops == \/ IdentByte \/ IdentEnd
         \/ IntDigit \/ IntSeparator \/ IntBadDigit \/ IntEnd
         \/ StringClose \/ StringByte \/ StringBreak \/ StringEscape \/ StringHex
         \/ ByteByte \/ ByteEnd
         \/ CommentByte \/ LineCommentEnd \/ BlockCommentEnd
Next == Dispatch \/ Loops

(* The lexer is a loop in one thread: it runs on while it can. *)
LexSpec == Init /\ [][Next]_vars /\ WF_vars(Next)
-----------------------------------------------------------------------------
(* The promise to the parser: the lexer implements TokenTape, where what a *)
(* running handler has read is not covered yet and a diagnostic soils the  *)
(* tape (lexer.rs, lex and every handler).                                 *)
Tape == INSTANCE TokenTape WITH
          Blanks <- {"sp"},
          covered <- IF mode = "scan" THEN pos.byte ELSE start.byte,
          clean <- diagnostics = << >>,
          ended <- status = "done"
TapeSpec == Tape!Spec

(* Where a line ends: LF, and CR unless an LF follows, which ends it.      *)
EndsLine(i) == \/ text[i] = "lf"
               \/ text[i] = "cr" /\ ~(i < Len(text) /\ text[i + 1] = "lf")

(* Line and column, which every diagnostic shows, are those of the byte    *)
(* index, however the break was passed (in a string, by lex_newline, by    *)
(* advance), and the lexer never stands between a CR and its LF.           *)
PositionExact ==
  LET ended == {i \in 1..pos.byte : EndsLine(i)}
      last == IF ended = {} THEN 0 ELSE CHOOSE i \in ended : \A j \in ended : j <= i
  IN /\ pos.line = 1 + Cardinality(ended)
     /\ pos.column = 1 + pos.byte - last
     /\ pos.byte > 0 => ~(text[pos.byte] = "cr" /\ ~EndsLine(pos.byte))

(* An integer as the language writes it: an optional base, then digits of  *)
(* the base with single underscores between them.                          *)
WellFormedInt(word) ==
  LET base == IF Len(word) > 1 /\ word[1] = "0" /\ word[2] \in {"x", "b"}
                THEN (IF word[2] = "x" THEN 16 ELSE 2) ELSE 10
      first == IF base = 10 THEN 1 ELSE 3
      IsDigit(i) == digit_value(word[i]) < base
  IN /\ first <= Len(word) /\ IsDigit(first) /\ IsDigit(Len(word))
     /\ \A i \in first..Len(word) :
          IsDigit(i) \/ (word[i] = "_" /\ IsDigit(i - 1) /\ IsDigit(i + 1))

(* A number token raises E1003 exactly when it is not an integer of the    *)
(* language, it is never cut short (lexer.rs, lex_int: the flags of the    *)
(* loop against the grammar), and no word is split in two tokens.          *)
IntegersAsWritten ==
  \A i \in 1..Len(tokens) :
    LET t == tokens[i] IN
      /\ t.kind = "IntLit" =>
           (WellFormedInt(SubSeq(text, t.from + 1, t.to)) <=>
              ~\E j \in 1..Len(diagnostics) :
                 diagnostics[j].code = "E1003" /\ diagnostics[j].from = t.from)
      /\ t.kind \in {"IntLit", "Ident", "If"} /\ t.to < Len(text) =>
           ~is_ident_rest(text[t.to + 1])

(* Whatever the bytes are, the lexer ends by the Eof token.  One text      *)
(* makes it panic (lexer.rs, lex_string): it ends with \x and a CR LF in a *)
(* string, which one advance passes as if it were one of two hex digits.   *)
PanicsAtHex == /\ status = "panic" /\ mode = "string"
               /\ pos.byte + 4 = Len(text)
               /\ SubSeq(text, pos.byte + 1, Len(text)) = <<"bs", "x", "cr", "lf">>
LexerEnds == <>(status = "done" \/ PanicsAtHex)
=============================================================================
