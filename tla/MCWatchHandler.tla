---------------------------- MODULE MCWatchHandler ----------------------------
EXTENDS WatchHandler, TLC

CONSTANTS w1, f1, f2

FlagSymmetry == Permutations(Flags)
===============================================================================
