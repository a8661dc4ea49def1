---------------------------- MODULE MCStage0Lexer ----------------------------
(* Model-checking instance of Stage0Lexer: every text of up to three bytes *)
(* over the alphabet of all handlers, longer ones over the bytes of a      *)
(* string with its escapes and line breaks, and over those of a number.    *)
EXTENDS Stage0Lexer

UpTo(S, n) == UNION {[1..k -> S] : k \in 0..n}

Mixed == {"sp", "i", "f", "9", "_", "dq", "sq", "bs", "/", "*", "=", "lf", "hi"}
Quoted == {"dq", "bs", "x", "cr", "lf", "0"}
Numeric == {"0", "9", "x", "b", "_", "f"}
Joined == {"-", "=", ">", "/", "*", "cr", "lf"}

(* A string is opened, whatever follows. *)
Opened(S, n) == {<<"dq">> \o t : t \in UpTo(S, n)}

MCTexts == UpTo(Mixed, 3) \cup UpTo(Joined, 4)
             \cup Opened(Quoted, 4) \cup UpTo(Numeric, 5)
=============================================================================
