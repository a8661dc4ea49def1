---------------------------- MODULE MCFnRegistry ----------------------------
(* Model-checking instance of FnRegistry.  Four names and a registry of    *)
(* three, so that a file can overflow it.                                  *)
EXTENDS FnRegistry, TLC

CONSTANTS main, f, g, h, i32, bool, ill

MCFnNames == {main, f, g, h}
MCSymmetry == Permutations({f, g, h})
MCTypes == {i32, bool}
=============================================================================
