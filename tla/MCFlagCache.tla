----------------------------- MODULE MCFlagCache -----------------------------
EXTENDS FlagCache

CONSTANTS p1, p2, p3, f1, f2, d1, d2

SomeSetAllDefs == {[f \in {} |-> d1], [f \in {f1} |-> d1]}
===============================================================================
