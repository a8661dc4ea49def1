------------------------------ MODULE TokenTape ------------------------------
(***************************************************************************)
(* What the parser of the Rust stage-0 compiler relies on, whatever the    *)
(* lexer does to deliver it (src/prototypes/rust_stage0/src): the tokens   *)
(* tile the source.  The tape is covered from left to right, only a blank  *)
(* is passed without a token, every other byte lies in exactly one token,  *)
(* an Error token is never on a tape that raised no diagnostic, and one    *)
(* empty Eof token stands after the last byte.                             *)
(***************************************************************************)
EXTENDS Naturals, Sequences

CONSTANTS Blanks,   \* the bytes no token is made of
          Kinds     \* the kinds of the tokens, Eof excepted

VARIABLES text,     \* the bytes of the source
          covered,  \* how many of them are behind the reader
          tokens,   \* the tokens so far: kind, first byte, end
          clean,    \* no diagnostic was reported
          ended     \* the Eof token is there

tapeVars == <<text, covered, tokens, clean, ended>>

Init == /\ covered = 0
        /\ tokens = << >>
        /\ clean = TRUE
        /\ ended = FALSE

(* A blank is passed over. *)
Skip == /\ ~ended /\ covered < Len(text)
        /\ text[covered + 1] \in Blanks
        /\ covered' = covered + 1
        /\ UNCHANGED <<text, tokens, clean, ended>>

(* A diagnostic before the token it is about is complete. *)
Fault == /\ ~ended /\ clean' = FALSE
         /\ UNCHANGED <<text, covered, tokens, ended>>

(* The next token takes every byte up to its end. *)
Take(kind, to) == /\ ~ended /\ covered < to
                  /\ covered' = to
                  /\ tokens' = Append(tokens, [kind |-> kind, from |-> covered, to |-> to])
                  /\ clean' => clean /\ kind # "Error"
                  /\ UNCHANGED <<text, ended>>

Finish == /\ ~ended /\ covered = Len(text)
          /\ tokens' = Append(tokens, [kind |-> "Eof", from |-> covered, to |-> covered])
          /\ ended' = TRUE
          /\ UNCHANGED <<text, covered, clean>>

Next == \/ Skip
        \/ Fault
        \/ \E kind \in Kinds, to \in 1..Len(text) : Take(kind, to)
        \/ Finish

Spec == Init /\ [][Next]_tapeVars
=============================================================================
