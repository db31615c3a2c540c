------------------------------ MODULE CacheCalls ------------------------------
(***************************************************************************)
(* The calls a goroutine can make on a cache (src/cache/cache.go) and what  *)
(* they are about: the flag keys, the flag definitions, the arguments of    *)
(* SetAll.  Shared by the cache as it is coded (FlagCache) and by the cache *)
(* a caller is promised (AtomicCache).                                      *)
(***************************************************************************)
CONSTANTS
    Procs,        \* goroutines: the watcher, Init, the application's requests
    Flags,        \* flag keys
    Defs,         \* flag definitions
    Malformed,    \* a value that no BSON round trip turns into a definition
    NoDef,        \* the key is not in the cache
    NoProc,       \* nobody
    Unanswered,   \* no answer yet
    SetAllArgs    \* the maps SetAll is called with

ASSUME NoDefAssumption  == NoDef \notin Defs /\ Malformed \notin Defs /\ NoDef # Malformed
ASSUME NoProcAssumption == NoProc \notin Procs
ASSUME SetAllAssumption == SetAllArgs \subseteq UNION {[D -> Defs] : D \in SUBSET Flags}

NoCall        == [op |-> "none"]
ClearCall     == [op |-> "clear"]
SetCalls      == [op : {"set"}, flag : Flags, def : Defs \cup {Malformed}]
SetAllCalls   == [op : {"setAll"}, defs : SetAllArgs]
EvaluateCalls == [op : {"evaluate"}, flag : Flags]

Calls == {ClearCall} \cup SetCalls \cup SetAllCalls \cup EvaluateCalls

(* What a call is answered: an evaluation gets the definition it ran on, or *)
(* NoDef, and then the caller's default value; any other call an error or   *)
(* none.                                                                    *)
Answers == Defs \cup {NoDef, "ok", "error"}

ASSUME UnansweredAssumption == Unanswered \notin Answers
===============================================================================
