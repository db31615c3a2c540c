----------------------------- MODULE AtomicCache -----------------------------
(***************************************************************************)
(* What a caller is promised of the cache: every call takes effect at one   *)
(* instant between its invocation and its return, on a map from flag keys   *)
(* to definitions (a linearizable map).  FlagCache implements it.           *)
(***************************************************************************)
EXTENDS CacheCalls

VARIABLES
    store,     \* the map
    pending,   \* the call a goroutine has made and not yet returned from
    answer     \* its answer, once the call has taken effect

avars == <<store, pending, answer>>

AtomicInit ==
    /\ store = [f \in Flags |-> NoDef]
    /\ pending = [p \in Procs |-> NoCall]
    /\ answer = [p \in Procs |-> Unanswered]

Invoke(p, c) ==
    /\ pending[p] = NoCall
    /\ pending' = [pending EXCEPT ![p] = c]
    /\ UNCHANGED <<store, answer>>

(* The map after a call that writes.                                        *)
Written(s, c) ==
    CASE c.op = "clear"  -> [f \in Flags |-> NoDef]
      [] c.op = "set"    -> [s EXCEPT ![c.flag] = c.def]
      [] c.op = "setAll" -> [f \in Flags |-> IF f \in DOMAIN c.defs THEN c.defs[f] ELSE s[f]]

(* A write takes effect.                                                    *)
Write(p) ==
    /\ pending[p].op \in {"clear", "set", "setAll"} /\ answer[p] = Unanswered
    /\ pending[p].op = "set" => pending[p].def # Malformed
    /\ store' = Written(store, pending[p])
    /\ answer' = [answer EXCEPT ![p] = "ok"]
    /\ UNCHANGED pending

(* A value that is not a definition is refused, and the map stays as it is. *)
Refuse(p) ==
    /\ pending[p].op = "set" /\ pending[p].def = Malformed /\ answer[p] = Unanswered
    /\ answer' = [answer EXCEPT ![p] = "error"]
    /\ UNCHANGED <<store, pending>>

(* An evaluation is answered with what the map holds at that instant.       *)
Read(p) ==
    /\ pending[p].op = "evaluate" /\ answer[p] = Unanswered
    /\ answer' = [answer EXCEPT ![p] = store[pending[p].flag]]
    /\ UNCHANGED <<store, pending>>

Return(p) ==
    /\ answer[p] # Unanswered
    /\ pending' = [pending EXCEPT ![p] = NoCall]
    /\ answer' = [answer EXCEPT ![p] = Unanswered]
    /\ UNCHANGED store

AtomicNext ==
    \E p \in Procs :
        \/ \E c \in Calls : Invoke(p, c)
        \/ Write(p)
        \/ Refuse(p)
        \/ Read(p)
        \/ Return(p)

AtomicSpec == AtomicInit /\ [][AtomicNext]_avars
===============================================================================
