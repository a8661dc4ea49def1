------------------------------ MODULE MCDriver ------------------------------
(* Model-checking instance of Driver: a small and a larger package.        *)
EXTENDS Driver

CONSTANTS small, large

MCPackages == {small, large}
MCSize == [p \in MCPackages |-> IF p = small THEN 1 ELSE 2]
=============================================================================
