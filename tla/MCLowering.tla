----------------------------- MODULE MCLowering -----------------------------
(* Model-checking instance of Lowering: a pair is an array of two elements *)
(* of one slot each, a point is a struct of two fields, which is given one *)
(* slot like any type that is no array.  The names are interchangeable.    *)
EXTENDS Lowering, TLC

CONSTANTS x, y

MCNames == {x, y}
MCSymmetry == Permutations(MCNames)
MCTypes == {"pair", "point"}
MCSlotCount == [t \in MCTypes |-> IF t = "pair" THEN 2 ELSE 1]
MCFieldCount == [t \in MCTypes |-> IF t = "point" THEN 2 ELSE 0]
=============================================================================
