------------------------------ MODULE FlagCache ------------------------------
(***************************************************************************)
(* src/cache/cache.go: a Go map of flag definitions guarded by one          *)
(* sync.RWMutex, step by step.  Every method takes the lock in its first    *)
(* lines and releases it when it returns (defer); SetAll calls Set, which   *)
(* takes the lock again.                                                    *)
(*                                                                          *)
(* The RWMutex is Go's: a writer first takes the inner mutex and announces  *)
(* itself (writer), then waits for the readers that are already in; while a *)
(* writer is announced new readers queue; Unlock lets the queued readers in *)
(* before the next writer.  It is not reentrant.                            *)
(***************************************************************************)
EXTENDS CacheCalls, FiniteSets

VARIABLES
    cache,      \* c.cache
    writer,     \* the goroutine that has announced Lock and not yet unlocked
    readers,    \* the goroutines inside RLock
    pc,         \* where each goroutine is
    call,       \* the call it is in
    found,      \* the definition an evaluation looked up
    answer      \* what the call returns, once it is known

vars == <<cache, writer, readers, pc, call, found, answer>>
lockVars == <<writer, readers>>

(* "lock"/"drain": in Lock before and after the announcement; "rlock"/      *)
(* "queued": in RLock before it and waiting behind a writer; "body": in the *)
(* method under its lock; "return": the deferred unlock is all that is left.*)
WriterPC == {"lock", "drain", "body", "return"}
ReaderPC == {"rlock", "queued", "lookup", "evaluate", "done"}
PC == {"idle", "parse", "refused"} \cup WriterPC \cup ReaderPC

TypeOK ==
    /\ cache \in [Flags -> Defs \cup {NoDef}]
    /\ writer \in Procs \cup {NoProc}
    /\ readers \subseteq Procs
    /\ pc \in [Procs -> PC]
    /\ call \in [Procs -> Calls \cup {NoCall}]
    /\ found \in [Procs -> Defs \cup {NoDef}]
    /\ answer \in [Procs -> Answers \cup {Unanswered}]

Empty == [f \in Flags |-> NoDef]

Init ==
    /\ cache = Empty
    /\ writer = NoProc
    /\ readers = {}
    /\ pc = [p \in Procs |-> "idle"]
    /\ call = [p \in Procs |-> NoCall]
    /\ found = [p \in Procs |-> NoDef]
    /\ answer = [p \in Procs |-> Unanswered]

Goto(p, l) == pc' = [pc EXCEPT ![p] = l]

-------------------------------------------------------------------------------
(* sync.RWMutex *)

AnnounceLock(p) ==
    /\ pc[p] = "lock" /\ writer = NoProc
    /\ writer' = p
    /\ Goto(p, "drain")
    /\ UNCHANGED <<cache, readers, call, found, answer>>

AcquireLock(p) ==
    /\ pc[p] = "drain" /\ readers = {}
    /\ Goto(p, "body")
    /\ UNCHANGED <<cache, lockVars, call, found, answer>>

EnterRLock(p) ==
    /\ pc[p] = "rlock" /\ writer = NoProc
    /\ readers' = readers \cup {p}
    /\ Goto(p, "lookup")
    /\ UNCHANGED <<cache, writer, call, found, answer>>

QueueRLock(p) ==
    /\ pc[p] = "rlock" /\ writer # NoProc
    /\ Goto(p, "queued")
    /\ UNCHANGED <<cache, lockVars, call, found, answer>>

Queued == {q \in Procs : pc[q] = "queued"}

(* A call is over: its goroutine is free for the next one.                  *)
Returned(p) ==
    /\ call' = [call EXCEPT ![p] = NoCall]
    /\ found' = [found EXCEPT ![p] = NoDef]
    /\ answer' = [answer EXCEPT ![p] = Unanswered]

Unlock(p) ==
    /\ pc[p] = "return"
    /\ writer' = NoProc
    /\ readers' = readers \cup Queued
    /\ pc' = [q \in Procs |-> IF q = p THEN "idle"
                              ELSE IF q \in Queued THEN "lookup" ELSE pc[q]]
    /\ Returned(p)
    /\ UNCHANGED cache

(* Mutant: Evaluate has no defer mu.RUnlock().                              *)
NoRUnlock(p) ==
    /\ pc[p] = "done"
    /\ Goto(p, "idle")
    /\ Returned(p)
    /\ UNCHANGED <<cache, lockVars>>

RUnlock(p) ==
    /\ pc[p] = "done"
    /\ readers' = readers \ {p}
    /\ Goto(p, "idle")
    /\ Returned(p)
    /\ UNCHANGED <<cache, writer>>

-------------------------------------------------------------------------------
(* Clear, Set, SetAll, Evaluate *)

Called(p, c, l) ==
    /\ pc[p] = "idle"
    /\ call' = [call EXCEPT ![p] = c]
    /\ Goto(p, l)
    /\ UNCHANGED <<cache, lockVars, found, answer>>

CallClear(p) == Called(p, ClearCall, "lock")

(* A flag.Definition goes straight to the lock; any other value is first    *)
(* marshalled and unmarshalled.                                             *)
CallSet(p) == \E c \in SetCalls :
    \/ Called(p, c, "parse")
    \/ c.def \in Defs /\ Called(p, c, "lock")

CallSetAll(p) == \E c \in SetAllCalls : Called(p, c, "lock")

(* Mutant: Evaluate does not lock.                                          *)
EvaluateWithoutLock(p) == \E c \in EvaluateCalls : Called(p, c, "lookup")

CallEvaluate(p) == \E c \in EvaluateCalls : Called(p, c, "rlock")

(* Mutant: Set does not return the error of the round trip.                 *)
RefuseSilently(p) ==
    /\ pc[p] = "parse" /\ call[p].def = Malformed
    /\ answer' = [answer EXCEPT ![p] = "ok"]
    /\ Goto(p, "refused")
    /\ UNCHANGED <<cache, lockVars, call, found>>

(* The BSON round trip is over: the lock is not taken when it failed.       *)
ParseDefinition(p) ==
    /\ pc[p] = "parse" /\ call[p].def # Malformed
    /\ Goto(p, "lock")
    /\ UNCHANGED <<cache, lockVars, call, found, answer>>

RefuseDefinition(p) ==
    /\ pc[p] = "parse" /\ call[p].def = Malformed
    /\ answer' = [answer EXCEPT ![p] = "error"]
    /\ Goto(p, "refused")
    /\ UNCHANGED <<cache, lockVars, call, found>>

ReturnRefused(p) ==
    /\ pc[p] = "refused"
    /\ Goto(p, "idle")
    /\ Returned(p)
    /\ UNCHANGED <<cache, lockVars>>

Clear(p) ==
    /\ pc[p] = "body" /\ call[p].op = "clear"
    /\ cache' = Empty
    /\ answer' = [answer EXCEPT ![p] = "ok"]
    /\ Goto(p, "return")
    /\ UNCHANGED <<lockVars, call, found>>

Set(p) ==
    /\ pc[p] = "body" /\ call[p].op = "set"
    /\ cache' = [cache EXCEPT ![call[p].flag] = call[p].def]
    /\ answer' = [answer EXCEPT ![p] = "ok"]
    /\ Goto(p, "return")
    /\ UNCHANGED <<lockVars, call, found>>

(* The loop over the definitions: nothing to do for an empty map ...        *)
SetAllEmpty(p) ==
    /\ pc[p] = "body" /\ call[p].op = "setAll" /\ DOMAIN call[p].defs = {}
    /\ answer' = [answer EXCEPT ![p] = "ok"]
    /\ Goto(p, "return")
    /\ UNCHANGED <<cache, lockVars, call, found>>

(* ... and c.Set for the first key of a map that is not empty, in whatever  *)
(* order Go ranges over it.  Set locks the mutex this goroutine holds, so   *)
(* the rest of the loop is never reached.                                   *)
SetAllCallsSet(p) ==
    /\ pc[p] = "body" /\ call[p].op = "setAll"
    /\ DOMAIN call[p].defs # {}
    /\ Goto(p, "lock")
    /\ UNCHANGED <<cache, lockVars, call, found, answer>>

Lookup(p) ==
    /\ pc[p] = "lookup"
    /\ found' = [found EXCEPT ![p] = cache[call[p].flag]]
    /\ Goto(p, "evaluate")
    /\ UNCHANGED <<cache, lockVars, call, answer>>

(* flagDefinition.Evaluate has run, or the flag is missing and the caller's *)
(* default is the answer; the read lock is still held.                      *)
Evaluate(p) ==
    /\ pc[p] = "evaluate"
    /\ answer' = [answer EXCEPT ![p] = found[p]]
    /\ Goto(p, "done")
    /\ UNCHANGED <<cache, lockVars, call, found>>

-------------------------------------------------------------------------------
Locking(p) ==
    AnnounceLock(p) \/ AcquireLock(p) \/ EnterRLock(p) \/ QueueRLock(p) \/ Unlock(p) \/ RUnlock(p)

Calling(p) == CallClear(p) \/ CallSet(p) \/ CallSetAll(p) \/ CallEvaluate(p)

Running(p) ==
    \/ ParseDefinition(p) \/ RefuseDefinition(p) \/ ReturnRefused(p)
    \/ Clear(p) \/ Set(p) \/ SetAllEmpty(p) \/ SetAllCallsSet(p)
    \/ Lookup(p) \/ Evaluate(p)

Next == \E p \in Procs : Calling(p) \/ Locking(p) \/ Running(p)

Spec == Init /\ [][Next]_vars

(* A goroutine that can run does; the inner sync.Mutex hands itself to a    *)
(* waiter it has starved (strong fairness).  Nobody has to make a call.     *)
Fairness == \A p \in Procs :
    /\ WF_vars(Locking(p) \/ Running(p))
    /\ SF_vars(AnnounceLock(p))

FairSpec == Spec /\ Fairness

-------------------------------------------------------------------------------
(* Properties *)

Touching(p) == pc[p] \in {"body", "return"}                \* writes c.cache
Looking(p)  == pc[p] \in {"lookup", "evaluate", "done"}    \* reads it

(* While a goroutine is inside Clear, Set or SetAll with the lock, no other *)
(* one is inside the locked part of any method: Go aborts the program on a  *)
(* concurrent map read and map write (cache.go:25, 47, 55, 68).             *)
Exclusion == \A p, q \in Procs :
    p # q /\ Touching(p) => ~Touching(q) /\ ~Looking(q)

(* The definition an evaluation runs on is the one the cache holds until it *)
(* is done with it: Clear and Set cannot get between the lookup and the     *)
(* evaluation (cache.go:68-78).                                             *)
EvaluatesCurrent == \A p \in Procs :
    pc[p] = "evaluate" => found[p] = cache[call[p].flag]

(* A goroutine waits for the mutex it holds: SetAll's call of Set.          *)
Wedged == \E p \in Procs : writer = p /\ pc[p] = "lock"

(* Once SetAll has called Set, the lock is never released and no call ever  *)
(* changes the cache again (cache.go:59 under cache.go:55).                 *)
WedgeIsForever == [][Wedged => Wedged' /\ cache' = cache]_vars

(* Only that can keep a call from returning: any other call returns, unless *)
(* a SetAll with definitions has come first.                                *)
CallsReturnOrWedge == \A p \in Procs : pc[p] # "idle" ~> (pc[p] = "idle" \/ Wedged)

(* The cache is the atomic one: every call takes effect at one instant.     *)
Atomic == INSTANCE AtomicCache WITH store <- cache, pending <- call, answer <- answer
ImplementsAtomic == Atomic!AtomicSpec
===============================================================================
