------------------------------ MODULE MCParser ------------------------------
(* Model-checking instance of Parser: array sizes that name nothing, the   *)
(* function, and a node of its body, be it a block, a statement or a leaf. *)
EXTENDS Parser

MCArraySizes == {0, 2, 7}
=============================================================================
