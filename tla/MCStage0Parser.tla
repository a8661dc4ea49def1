---------------------------- MODULE MCStage0Parser ----------------------------
(* Model-checking instance of Stage0Parser: programs of up to two lines    *)
(* out of complete and broken ones, behind a function header or not, up to *)
(* five of nested blocks, and every short sequence of tokens as an         *)
(* expression.                                                             *)
EXTENDS Stage0Parser

UpTo(S, n) == UNION {[1..k -> S] : k \in 0..n}

RECURSIVE Join(_)
Join(lines) == IF lines = << >> THEN <<"Eof">>
               ELSE lines[1] \o <<"Newline">> \o Join(Tail(lines))

Header == <<"Fn", "Ident", "Arrow", "Ident">>
Whole == {<<"Unsafe", "Fn", "Ident", "Ident", "Star", "Ident", "Arrow", "Ident">>,
          <<"Use", "Ident", "Slash", "Ident">>,
          <<"If", "Ident", "Arrow">>, <<"Else", "Arrow">>, <<"End">>,
          <<"While", "True", "Arrow">>, <<"Loop", "Arrow", "Break">>, <<"Unsafe", "Arrow">>,
          <<"Mut", "Ident", "Ident", "Eq", "IntLit", "Comment">>,
          <<"Ident", "Eq", "Ident", "IntLit">>, <<"Ret">>, <<"Ret", "Ident">>}
Broken == {<<"Unsafe">>, <<"Fn", "Arrow">>, <<"Fn", "Ident", "IntLit", "Arrow">>,
           <<"Fn", "Ident", "Arrow">>, <<"Fn", "Ident", "Ident", "Arrow">>,
           <<"Else">>, <<"If", "Arrow">>, <<"Let", "Ident", "Eq">>, <<"Let", "Eq">>,
           <<"Let", "Ident", "Ident">>,
           <<"Use">>, <<"Ret", "Comment">>, <<"Loop", "End", "End">>}

Deep == {<<"If", "Ident", "Arrow">>, <<"Else", "Arrow">>, <<"End">>,
           <<"Loop", "Arrow">>, <<"Continue">>}

Terms == {"Ident", "IntLit", "Plus", "Star", "Minus", "Dot", "Slash", "Not", "LParen", "RParen"}
Chain == {"IntLit", "Ident", "Plus", "Star", "EqEq", "Minus"}

MCSources ==
  {Join(l) : l \in UpTo(Whole \cup Broken, 2)}
    \cup {Join(<<Header>> \o l) : l \in UpTo(Whole \cup Broken, 2) \cup UpTo(Deep, 5)}
    \cup {Join(<<Header, <<"Ret">> \o e, <<"End">>>>) : e \in UpTo(Terms, 4) \cup UpTo(Chain, 5)}

(* The short texts on which the parser does not end. *)
MCShort == {Join(l) : l \in UpTo({Header, <<"End">>, <<"Unsafe">>, <<"Ret">>}, 3)}
=============================================================================
