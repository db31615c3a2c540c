----------------------------- MODULE MCFlagClient -----------------------------
EXTENDS FlagClient, TLC

CONSTANTS c1, c2

ClientSymmetry == Permutations(Clients)
===============================================================================
