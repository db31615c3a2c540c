------------------------------ MODULE MCProvider ------------------------------
EXTENDS Provider, TLC

CONSTANTS w1, w2, f1, f2

FlagSymmetry == Permutations(Flags)
===============================================================================
