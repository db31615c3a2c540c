--------------------------- MODULE FlagCacheProofs ---------------------------
(***************************************************************************)
(* Theorems about FlagCache, for any set of goroutines, flags, definitions  *)
(* and SetAll arguments.  The argument is the lock's: whoever touches the   *)
(* map is the announced writer and has drained the readers, whoever looks   *)
(* at it is a reader; so a lookup stays current until it is used, and each  *)
(* call takes effect at one instant.                                        *)
(***************************************************************************)
EXTENDS FlagCache, TLAPS

(* Which call each program point belongs to.                                *)
CallInv == \A p \in Procs :
    /\ pc[p] = "idle" <=> call[p] = NoCall
    /\ pc[p] \in ReaderPC => call[p] \in EvaluateCalls
    /\ pc[p] \in {"parse", "refused"} => call[p] \in SetCalls
    /\ pc[p] \in WriterPC => call[p] \in {ClearCall} \cup SetCalls \cup SetAllCalls
    /\ pc[p] = "refused" => call[p].def = Malformed
    /\ pc[p] \in WriterPC /\ call[p] \in SetCalls => call[p].def \in Defs

(* An answer is known exactly from the step that fixes it to the return.    *)
AnswerInv == \A p \in Procs :
    (answer[p] = Unanswered) <=> (pc[p] \notin {"refused", "return", "done"})

(* The lock: writers are announced and alone, readers are inside.           *)
LockInv == \A p \in Procs :
    /\ pc[p] \in {"drain", "body", "return"} => writer = p
    /\ Looking(p) <=> p \in readers
    /\ Touching(p) => readers = {}

IInv == TypeOK /\ CallInv /\ AnswerInv /\ LockInv /\ EvaluatesCurrent

(* The kinds of calls do not overlap, and each carries what it needs.       *)
LEMMA CallKinds ==
  ASSUME NEW c
  PROVE  /\ c = NoCall => c.op = "none"
         /\ c = ClearCall => c.op = "clear"
         /\ c \in SetCalls => c.op = "set" /\ c.flag \in Flags /\ c.def \in Defs \cup {Malformed}
         /\ c \in SetAllCalls => c.op = "setAll" /\ c.defs \in SetAllArgs
         /\ c \in EvaluateCalls => c.op = "evaluate" /\ c.flag \in Flags
  BY DEF NoCall, ClearCall, SetCalls, SetAllCalls, EvaluateCalls

(* An unlocked, empty cache satisfies the invariant.                        *)
LEMMA InitInvariant == Init => IInv
  BY NoProcAssumption, UnansweredAssumption, CallKinds
     DEF Init, IInv, TypeOK, CallInv, AnswerInv, LockInv, EvaluatesCurrent, Empty, PC,
         ReaderPC, WriterPC, Looking, Touching, Answers

(* Every variable but the program counters keeps its type under any step,   *)
(* and the kinds of call keep to their program points.                      *)
LEMMA TypeStep == IInv /\ [Next]_vars => TypeOK'
  <1> SUFFICES ASSUME IInv, [Next]_vars PROVE TypeOK'
    OBVIOUS
  <1> USE NoDefAssumption DEF TypeOK, PC, ReaderPC, WriterPC, lockVars, Goto, Answers
  <1>0. TypeOK
    BY DEF IInv
  <1>1. ASSUME NEW p \in Procs, CallClear(p) PROVE TypeOK'
    BY <1>0, <1>1 DEF CallClear, Called, Calls
  <1>2. ASSUME NEW p \in Procs, CallSet(p) PROVE TypeOK'
    BY <1>0, <1>2 DEF CallSet, Called, Calls
  <1>3. ASSUME NEW p \in Procs, CallSetAll(p) PROVE TypeOK'
    BY <1>0, <1>3 DEF CallSetAll, Called, Calls
  <1>4. ASSUME NEW p \in Procs, CallEvaluate(p) PROVE TypeOK'
    BY <1>0, <1>4 DEF CallEvaluate, Called, Calls
  <1>5. ASSUME NEW p \in Procs, AnnounceLock(p) PROVE TypeOK'
    BY <1>0, <1>5 DEF AnnounceLock
  <1>6. ASSUME NEW p \in Procs, AcquireLock(p) PROVE TypeOK'
    BY <1>0, <1>6 DEF AcquireLock
  <1>7. ASSUME NEW p \in Procs, EnterRLock(p) PROVE TypeOK'
    BY <1>0, <1>7 DEF EnterRLock
  <1>8. ASSUME NEW p \in Procs, QueueRLock(p) PROVE TypeOK'
    BY <1>0, <1>8 DEF QueueRLock
  <1>9. ASSUME NEW p \in Procs, Unlock(p) PROVE TypeOK'
    BY <1>0, <1>9 DEF Unlock, Returned, Queued
  <1>10. ASSUME NEW p \in Procs, RUnlock(p) PROVE TypeOK'
    BY <1>0, <1>10 DEF RUnlock, Returned
  <1>11. ASSUME NEW p \in Procs, ParseDefinition(p) PROVE TypeOK'
    BY <1>0, <1>11 DEF ParseDefinition
  <1>12. ASSUME NEW p \in Procs, RefuseDefinition(p) PROVE TypeOK'
    BY <1>0, <1>12 DEF RefuseDefinition
  <1>13. ASSUME NEW p \in Procs, ReturnRefused(p) PROVE TypeOK'
    BY <1>0, <1>13 DEF ReturnRefused, Returned
  <1>14. ASSUME NEW p \in Procs, Clear(p) PROVE TypeOK'
    BY <1>0, <1>14 DEF Clear, Empty
  <1>15. ASSUME NEW p \in Procs, Set(p) PROVE TypeOK'
    BY <1>0, <1>15, CallKinds DEF Set, IInv, CallInv
  <1>16. ASSUME NEW p \in Procs, SetAllEmpty(p) PROVE TypeOK'
    BY <1>0, <1>16 DEF SetAllEmpty
  <1>17. ASSUME NEW p \in Procs, SetAllCallsSet(p) PROVE TypeOK'
    BY <1>0, <1>17 DEF SetAllCallsSet
  <1>18. ASSUME NEW p \in Procs, Lookup(p) PROVE TypeOK'
    BY <1>0, <1>18, CallKinds DEF Lookup, IInv, CallInv
  <1>19. ASSUME NEW p \in Procs, Evaluate(p) PROVE TypeOK'
    BY <1>0, <1>19 DEF Evaluate
  <1>20. CASE UNCHANGED vars
    BY <1>0, <1>20 DEF vars
  <1>21. QED
    BY <1>1, <1>2, <1>3, <1>4, <1>5, <1>6, <1>7, <1>8, <1>9, <1>10, <1>11, <1>12, <1>13, <1>14, <1>15, <1>16, <1>17, <1>18, <1>19, <1>20 DEF Next, Calling, Locking, Running

(* A goroutine is in the call its program point belongs to. *)
LEMMA CallStep == IInv /\ [Next]_vars => CallInv'
  <1> SUFFICES ASSUME IInv, [Next]_vars PROVE CallInv'
    OBVIOUS
  <1> USE CallKinds DEF IInv, TypeOK, PC, ReaderPC, WriterPC, lockVars, Goto, CallInv
  <1>1. ASSUME NEW p \in Procs, CallClear(p) PROVE CallInv'
    BY <1>1 DEF CallClear, Called
  <1>2. ASSUME NEW p \in Procs, CallSet(p) PROVE CallInv'
    BY <1>2 DEF CallSet, Called
  <1>3. ASSUME NEW p \in Procs, CallSetAll(p) PROVE CallInv'
    BY <1>3 DEF CallSetAll, Called
  <1>4. ASSUME NEW p \in Procs, CallEvaluate(p) PROVE CallInv'
    BY <1>4 DEF CallEvaluate, Called
  <1>5. ASSUME NEW p \in Procs, AnnounceLock(p) PROVE CallInv'
    BY <1>5 DEF AnnounceLock
  <1>6. ASSUME NEW p \in Procs, AcquireLock(p) PROVE CallInv'
    BY <1>6 DEF AcquireLock
  <1>7. ASSUME NEW p \in Procs, EnterRLock(p) PROVE CallInv'
    BY <1>7 DEF EnterRLock
  <1>8. ASSUME NEW p \in Procs, QueueRLock(p) PROVE CallInv'
    BY <1>8 DEF QueueRLock
  <1>9. ASSUME NEW p \in Procs, Unlock(p) PROVE CallInv'
    BY <1>9 DEF Unlock, Returned, Queued
  <1>10. ASSUME NEW p \in Procs, RUnlock(p) PROVE CallInv'
    BY <1>10 DEF RUnlock, Returned
  <1>11. ASSUME NEW p \in Procs, ParseDefinition(p) PROVE CallInv'
    BY <1>11 DEF ParseDefinition
  <1>12. ASSUME NEW p \in Procs, RefuseDefinition(p) PROVE CallInv'
    BY <1>12 DEF RefuseDefinition
  <1>13. ASSUME NEW p \in Procs, ReturnRefused(p) PROVE CallInv'
    BY <1>13 DEF ReturnRefused, Returned
  <1>14. ASSUME NEW p \in Procs, Clear(p) PROVE CallInv'
    BY <1>14 DEF Clear, Empty
  <1>15. ASSUME NEW p \in Procs, Set(p) PROVE CallInv'
    BY <1>15 DEF Set
  <1>16. ASSUME NEW p \in Procs, SetAllEmpty(p) PROVE CallInv'
    BY <1>16 DEF SetAllEmpty
  <1>17. ASSUME NEW p \in Procs, SetAllCallsSet(p) PROVE CallInv'
    BY <1>17 DEF SetAllCallsSet
  <1>18. ASSUME NEW p \in Procs, Lookup(p) PROVE CallInv'
    BY <1>18 DEF Lookup
  <1>19. ASSUME NEW p \in Procs, Evaluate(p) PROVE CallInv'
    BY <1>19 DEF Evaluate
  <1>20. CASE UNCHANGED vars
    BY <1>20 DEF vars
  <1>21. QED
    BY <1>1, <1>2, <1>3, <1>4, <1>5, <1>6, <1>7, <1>8, <1>9, <1>10, <1>11, <1>12, <1>13, <1>14, <1>15, <1>16, <1>17, <1>18, <1>19, <1>20 DEF Next, Calling, Locking, Running

(* Answers are fixed once, and forgotten at the return. *)
LEMMA AnswerStep == IInv /\ [Next]_vars => AnswerInv'
  <1> SUFFICES ASSUME IInv, [Next]_vars PROVE AnswerInv'
    OBVIOUS
  <1> USE UnansweredAssumption, CallKinds DEF IInv, TypeOK, PC, ReaderPC, WriterPC, lockVars, Goto, AnswerInv, CallInv, Answers
  <1>1. ASSUME NEW p \in Procs, CallClear(p) PROVE AnswerInv'
    BY <1>1 DEF CallClear, Called
  <1>2. ASSUME NEW p \in Procs, CallSet(p) PROVE AnswerInv'
    BY <1>2 DEF CallSet, Called
  <1>3. ASSUME NEW p \in Procs, CallSetAll(p) PROVE AnswerInv'
    BY <1>3 DEF CallSetAll, Called
  <1>4. ASSUME NEW p \in Procs, CallEvaluate(p) PROVE AnswerInv'
    BY <1>4 DEF CallEvaluate, Called
  <1>5. ASSUME NEW p \in Procs, AnnounceLock(p) PROVE AnswerInv'
    BY <1>5 DEF AnnounceLock
  <1>6. ASSUME NEW p \in Procs, AcquireLock(p) PROVE AnswerInv'
    BY <1>6 DEF AcquireLock
  <1>7. ASSUME NEW p \in Procs, EnterRLock(p) PROVE AnswerInv'
    BY <1>7 DEF EnterRLock
  <1>8. ASSUME NEW p \in Procs, QueueRLock(p) PROVE AnswerInv'
    BY <1>8 DEF QueueRLock
  <1>9. ASSUME NEW p \in Procs, Unlock(p) PROVE AnswerInv'
    BY <1>9 DEF Unlock, Returned, Queued
  <1>10. ASSUME NEW p \in Procs, RUnlock(p) PROVE AnswerInv'
    BY <1>10 DEF RUnlock, Returned
  <1>11. ASSUME NEW p \in Procs, ParseDefinition(p) PROVE AnswerInv'
    BY <1>11 DEF ParseDefinition
  <1>12. ASSUME NEW p \in Procs, RefuseDefinition(p) PROVE AnswerInv'
    BY <1>12 DEF RefuseDefinition
  <1>13. ASSUME NEW p \in Procs, ReturnRefused(p) PROVE AnswerInv'
    BY <1>13 DEF ReturnRefused, Returned
  <1>14. ASSUME NEW p \in Procs, Clear(p) PROVE AnswerInv'
    BY <1>14 DEF Clear, Empty
  <1>15. ASSUME NEW p \in Procs, Set(p) PROVE AnswerInv'
    BY <1>15 DEF Set
  <1>16. ASSUME NEW p \in Procs, SetAllEmpty(p) PROVE AnswerInv'
    BY <1>16 DEF SetAllEmpty
  <1>17. ASSUME NEW p \in Procs, SetAllCallsSet(p) PROVE AnswerInv'
    BY <1>17 DEF SetAllCallsSet
  <1>18. ASSUME NEW p \in Procs, Lookup(p) PROVE AnswerInv'
    BY <1>18 DEF Lookup
  <1>19. ASSUME NEW p \in Procs, Evaluate(p) PROVE AnswerInv'
    BY <1>19 DEF Evaluate
  <1>20. CASE UNCHANGED vars
    BY <1>20 DEF vars
  <1>21. QED
    BY <1>1, <1>2, <1>3, <1>4, <1>5, <1>6, <1>7, <1>8, <1>9, <1>10, <1>11, <1>12, <1>13, <1>14, <1>15, <1>16, <1>17, <1>18, <1>19, <1>20 DEF Next, Calling, Locking, Running

(* The lock discipline. *)
LEMMA LockStep == IInv /\ [Next]_vars => LockInv'
  <1> SUFFICES ASSUME IInv, [Next]_vars PROVE LockInv'
    OBVIOUS
  <1> USE NoProcAssumption DEF IInv, TypeOK, PC, ReaderPC, WriterPC, lockVars, Goto, LockInv, Looking, Touching
  <1>1. ASSUME NEW p \in Procs, CallClear(p) PROVE LockInv'
    BY <1>1 DEF CallClear, Called
  <1>2. ASSUME NEW p \in Procs, CallSet(p) PROVE LockInv'
    BY <1>2 DEF CallSet, Called
  <1>3. ASSUME NEW p \in Procs, CallSetAll(p) PROVE LockInv'
    BY <1>3 DEF CallSetAll, Called
  <1>4. ASSUME NEW p \in Procs, CallEvaluate(p) PROVE LockInv'
    BY <1>4 DEF CallEvaluate, Called
  <1>5. ASSUME NEW p \in Procs, AnnounceLock(p) PROVE LockInv'
    BY <1>5 DEF AnnounceLock
  <1>6. ASSUME NEW p \in Procs, AcquireLock(p) PROVE LockInv'
    BY <1>6 DEF AcquireLock
  <1>7. ASSUME NEW p \in Procs, EnterRLock(p) PROVE LockInv'
    BY <1>7 DEF EnterRLock
  <1>8. ASSUME NEW p \in Procs, QueueRLock(p) PROVE LockInv'
    BY <1>8 DEF QueueRLock
  <1>9. ASSUME NEW p \in Procs, Unlock(p) PROVE LockInv'
    BY <1>9 DEF Unlock, Returned, Queued
  <1>10. ASSUME NEW p \in Procs, RUnlock(p) PROVE LockInv'
    BY <1>10 DEF RUnlock, Returned
  <1>11. ASSUME NEW p \in Procs, ParseDefinition(p) PROVE LockInv'
    BY <1>11 DEF ParseDefinition
  <1>12. ASSUME NEW p \in Procs, RefuseDefinition(p) PROVE LockInv'
    BY <1>12 DEF RefuseDefinition
  <1>13. ASSUME NEW p \in Procs, ReturnRefused(p) PROVE LockInv'
    BY <1>13 DEF ReturnRefused, Returned
  <1>14. ASSUME NEW p \in Procs, Clear(p) PROVE LockInv'
    BY <1>14 DEF Clear, Empty
  <1>15. ASSUME NEW p \in Procs, Set(p) PROVE LockInv'
    BY <1>15 DEF Set
  <1>16. ASSUME NEW p \in Procs, SetAllEmpty(p) PROVE LockInv'
    BY <1>16 DEF SetAllEmpty
  <1>17. ASSUME NEW p \in Procs, SetAllCallsSet(p) PROVE LockInv'
    BY <1>17 DEF SetAllCallsSet
  <1>18. ASSUME NEW p \in Procs, Lookup(p) PROVE LockInv'
    BY <1>18 DEF Lookup
  <1>19. ASSUME NEW p \in Procs, Evaluate(p) PROVE LockInv'
    BY <1>19 DEF Evaluate
  <1>20. CASE UNCHANGED vars
    BY <1>20 DEF vars
  <1>21. QED
    BY <1>1, <1>2, <1>3, <1>4, <1>5, <1>6, <1>7, <1>8, <1>9, <1>10, <1>11, <1>12, <1>13, <1>14, <1>15, <1>16, <1>17, <1>18, <1>19, <1>20 DEF Next, Calling, Locking, Running

(* Nobody writes while somebody looks. *)
LEMMA CurrentStep == IInv /\ [Next]_vars => EvaluatesCurrent'
  <1> SUFFICES ASSUME IInv, [Next]_vars PROVE EvaluatesCurrent'
    OBVIOUS
  <1> USE CallKinds DEF IInv, TypeOK, PC, ReaderPC, WriterPC, lockVars, Goto, EvaluatesCurrent, LockInv, CallInv, Looking, Touching
  <1>1. ASSUME NEW p \in Procs, CallClear(p) PROVE EvaluatesCurrent'
    BY <1>1 DEF CallClear, Called
  <1>2. ASSUME NEW p \in Procs, CallSet(p) PROVE EvaluatesCurrent'
    BY <1>2 DEF CallSet, Called
  <1>3. ASSUME NEW p \in Procs, CallSetAll(p) PROVE EvaluatesCurrent'
    BY <1>3 DEF CallSetAll, Called
  <1>4. ASSUME NEW p \in Procs, CallEvaluate(p) PROVE EvaluatesCurrent'
    BY <1>4 DEF CallEvaluate, Called
  <1>5. ASSUME NEW p \in Procs, AnnounceLock(p) PROVE EvaluatesCurrent'
    BY <1>5 DEF AnnounceLock
  <1>6. ASSUME NEW p \in Procs, AcquireLock(p) PROVE EvaluatesCurrent'
    BY <1>6 DEF AcquireLock
  <1>7. ASSUME NEW p \in Procs, EnterRLock(p) PROVE EvaluatesCurrent'
    BY <1>7 DEF EnterRLock
  <1>8. ASSUME NEW p \in Procs, QueueRLock(p) PROVE EvaluatesCurrent'
    BY <1>8 DEF QueueRLock
  <1>9. ASSUME NEW p \in Procs, Unlock(p) PROVE EvaluatesCurrent'
    BY <1>9 DEF Unlock, Returned, Queued
  <1>10. ASSUME NEW p \in Procs, RUnlock(p) PROVE EvaluatesCurrent'
    BY <1>10 DEF RUnlock, Returned
  <1>11. ASSUME NEW p \in Procs, ParseDefinition(p) PROVE EvaluatesCurrent'
    BY <1>11 DEF ParseDefinition
  <1>12. ASSUME NEW p \in Procs, RefuseDefinition(p) PROVE EvaluatesCurrent'
    BY <1>12 DEF RefuseDefinition
  <1>13. ASSUME NEW p \in Procs, ReturnRefused(p) PROVE EvaluatesCurrent'
    BY <1>13 DEF ReturnRefused, Returned
  <1>14. ASSUME NEW p \in Procs, Clear(p) PROVE EvaluatesCurrent'
    BY <1>14 DEF Clear, Empty
  <1>15. ASSUME NEW p \in Procs, Set(p) PROVE EvaluatesCurrent'
    BY <1>15 DEF Set
  <1>16. ASSUME NEW p \in Procs, SetAllEmpty(p) PROVE EvaluatesCurrent'
    BY <1>16 DEF SetAllEmpty
  <1>17. ASSUME NEW p \in Procs, SetAllCallsSet(p) PROVE EvaluatesCurrent'
    BY <1>17 DEF SetAllCallsSet
  <1>18. ASSUME NEW p \in Procs, Lookup(p) PROVE EvaluatesCurrent'
    BY <1>18 DEF Lookup
  <1>19. ASSUME NEW p \in Procs, Evaluate(p) PROVE EvaluatesCurrent'
    BY <1>19 DEF Evaluate
  <1>20. CASE UNCHANGED vars
    BY <1>20 DEF vars
  <1>21. QED
    BY <1>1, <1>2, <1>3, <1>4, <1>5, <1>6, <1>7, <1>8, <1>9, <1>10, <1>11, <1>12, <1>13, <1>14, <1>15, <1>16, <1>17, <1>18, <1>19, <1>20 DEF Next, Calling, Locking, Running

(* Each step of each goroutine keeps the invariant.                         *)
LEMMA InvariantStep == IInv /\ [Next]_vars => IInv'
  BY TypeStep, CallStep, AnswerStep, LockStep, CurrentStep DEF IInv

(* The inductive invariant holds of every behaviour of the cache.           *)
THEOREM Invariance == Spec => []IInv
  BY InitInvariant, InvariantStep, PTL DEF Spec

(* Every reachable state is well typed.                                     *)
THEOREM TypeCorrect == Spec => []TypeOK
  BY Invariance, PTL DEF IInv

(* No goroutine is inside a method while another one writes the map: two    *)
(* writers would both be the announced one, and a writer has no readers.    *)
THEOREM MutualExclusion == Spec => []Exclusion
  <1>1. IInv => Exclusion
    BY DEF IInv, LockInv, Exclusion, Touching
  <1>2. QED
    BY <1>1, Invariance, PTL

(* An evaluation runs on the definition the cache holds until it is done.   *)
THEOREM Currency == Spec => []EvaluatesCurrent
  BY Invariance, PTL DEF IInv

(* A wedged cache stays wedged and never changes: the goroutine inside      *)
(* SetAll is the announced writer, so no other one can be in a body.        *)
THEOREM WedgeFreezes == Spec => WedgeIsForever
  <1>1. ASSUME IInv, [Next]_vars, Wedged PROVE Wedged' /\ cache' = cache
    <2>1. PICK w \in Procs : writer = w /\ pc[w] = "lock"
      BY <1>1 DEF Wedged
    <2>2. \A q \in Procs : pc[q] \notin {"drain", "body", "return"}
      BY <1>1, <2>1 DEF IInv, LockInv
    <2>3. writer # NoProc
      BY <2>1, NoProcAssumption
    <2> USE <1>1, <2>1, <2>2, <2>3 DEF IInv, TypeOK, lockVars, Goto
    <2> DEFINE Stuck == writer' = writer /\ cache' = cache /\ pc'[w] = "lock"
    <2>4. ASSUME NEW p \in Procs, CallClear(p) PROVE Stuck
      BY <2>4 DEF CallClear, Called
    <2>5. ASSUME NEW p \in Procs, CallSet(p) PROVE Stuck
      BY <2>5 DEF CallSet, Called
    <2>6. ASSUME NEW p \in Procs, CallSetAll(p) PROVE Stuck
      BY <2>6 DEF CallSetAll, Called
    <2>7. ASSUME NEW p \in Procs, CallEvaluate(p) PROVE Stuck
      BY <2>7 DEF CallEvaluate, Called
    <2>8. ASSUME NEW p \in Procs, AnnounceLock(p) PROVE Stuck
      BY <2>8 DEF AnnounceLock
    <2>9. ASSUME NEW p \in Procs, AcquireLock(p) PROVE Stuck
      BY <2>9 DEF AcquireLock
    <2>10. ASSUME NEW p \in Procs, EnterRLock(p) PROVE Stuck
      BY <2>10 DEF EnterRLock
    <2>11. ASSUME NEW p \in Procs, QueueRLock(p) PROVE Stuck
      BY <2>11 DEF QueueRLock
    <2>12. ASSUME NEW p \in Procs, Unlock(p) PROVE Stuck
      BY <2>12 DEF Unlock, Returned, Queued
    <2>13. ASSUME NEW p \in Procs, RUnlock(p) PROVE Stuck
      BY <2>13 DEF RUnlock, Returned
    <2>14. ASSUME NEW p \in Procs, ParseDefinition(p) PROVE Stuck
      BY <2>14 DEF ParseDefinition
    <2>15. ASSUME NEW p \in Procs, RefuseDefinition(p) PROVE Stuck
      BY <2>15 DEF RefuseDefinition
    <2>16. ASSUME NEW p \in Procs, ReturnRefused(p) PROVE Stuck
      BY <2>16 DEF ReturnRefused, Returned
    <2>17. ASSUME NEW p \in Procs, Clear(p) PROVE Stuck
      BY <2>17 DEF Clear
    <2>18. ASSUME NEW p \in Procs, Set(p) PROVE Stuck
      BY <2>18 DEF Set
    <2>19. ASSUME NEW p \in Procs, SetAllEmpty(p) PROVE Stuck
      BY <2>19 DEF SetAllEmpty
    <2>20. ASSUME NEW p \in Procs, SetAllCallsSet(p) PROVE Stuck
      BY <2>20 DEF SetAllCallsSet
    <2>21. ASSUME NEW p \in Procs, Lookup(p) PROVE Stuck
      BY <2>21 DEF Lookup
    <2>22. ASSUME NEW p \in Procs, Evaluate(p) PROVE Stuck
      BY <2>22 DEF Evaluate
    <2>23. ASSUME UNCHANGED vars PROVE Stuck
      BY <2>23 DEF vars
    <2>24. Stuck
      BY <2>4, <2>5, <2>6, <2>7, <2>8, <2>9, <2>10, <2>11, <2>12, <2>13, <2>14, <2>15, <2>16, <2>17, <2>18, <2>19, <2>20, <2>21, <2>22, <2>23 DEF Next, Calling, Locking, Running
    <2>25. QED
      BY <2>24 DEF Wedged
  <1>2. QED
    BY <1>1, Invariance, PTL DEF Spec, WedgeIsForever

(* Initial states are initial states of the atomic cache.                   *)
LEMMA AtomicInitially == Init => Atomic!AtomicInit
  BY DEF Init, Empty, Atomic!AtomicInit, Atomic!NoCall, NoCall

(* Every step of the cache is a step of the atomic one: the calls are       *)
(* invocations, a body is the instant a write takes effect, the end of an   *)
(* evaluation the instant it reads; unlocking returns and the rest stutters.*)
LEMMA AtomicStep == IInv /\ [Next]_vars => [Atomic!AtomicNext]_(Atomic!avars)
  <1> DEFINE AStep == [Atomic!AtomicNext]_(Atomic!avars)
  <1> SUFFICES ASSUME IInv, [Next]_vars PROVE AStep
    OBVIOUS
  <1> USE CallKinds, UnansweredAssumption, NoDefAssumption
      DEF IInv, TypeOK, PC, ReaderPC, WriterPC, lockVars, Goto, Atomic!avars, CallInv, AnswerInv
  <1>1. ASSUME NEW p \in Procs, CallClear(p) PROVE AStep
    <2>1. PICK c \in Calls : Atomic!Invoke(p, c)
      BY <1>1 DEF CallClear, Called, Calls, Atomic!Invoke, Atomic!NoCall, NoCall
    <2>2. QED
      BY <2>1 DEF Atomic!AtomicNext, Atomic!Calls, Calls, Atomic!ClearCall, ClearCall, Atomic!SetCalls, SetCalls, Atomic!SetAllCalls, SetAllCalls, Atomic!EvaluateCalls, EvaluateCalls
  <1>2. ASSUME NEW p \in Procs, CallSet(p) PROVE AStep
    <2>1. PICK c \in Calls : Atomic!Invoke(p, c)
      BY <1>2 DEF CallSet, Called, Calls, Atomic!Invoke, Atomic!NoCall, NoCall
    <2>2. QED
      BY <2>1 DEF Atomic!AtomicNext, Atomic!Calls, Calls, Atomic!ClearCall, ClearCall, Atomic!SetCalls, SetCalls, Atomic!SetAllCalls, SetAllCalls, Atomic!EvaluateCalls, EvaluateCalls
  <1>3. ASSUME NEW p \in Procs, CallSetAll(p) PROVE AStep
    <2>1. PICK c \in Calls : Atomic!Invoke(p, c)
      BY <1>3 DEF CallSetAll, Called, Calls, Atomic!Invoke, Atomic!NoCall, NoCall
    <2>2. QED
      BY <2>1 DEF Atomic!AtomicNext, Atomic!Calls, Calls, Atomic!ClearCall, ClearCall, Atomic!SetCalls, SetCalls, Atomic!SetAllCalls, SetAllCalls, Atomic!EvaluateCalls, EvaluateCalls
  <1>4. ASSUME NEW p \in Procs, CallEvaluate(p) PROVE AStep
    <2>1. PICK c \in Calls : Atomic!Invoke(p, c)
      BY <1>4 DEF CallEvaluate, Called, Calls, Atomic!Invoke, Atomic!NoCall, NoCall
    <2>2. QED
      BY <2>1 DEF Atomic!AtomicNext, Atomic!Calls, Calls, Atomic!ClearCall, ClearCall, Atomic!SetCalls, SetCalls, Atomic!SetAllCalls, SetAllCalls, Atomic!EvaluateCalls, EvaluateCalls
  <1>5. ASSUME NEW p \in Procs, AnnounceLock(p) PROVE AStep
    BY <1>5 DEF AnnounceLock
  <1>6. ASSUME NEW p \in Procs, AcquireLock(p) PROVE AStep
    BY <1>6 DEF AcquireLock
  <1>7. ASSUME NEW p \in Procs, EnterRLock(p) PROVE AStep
    BY <1>7 DEF EnterRLock
  <1>8. ASSUME NEW p \in Procs, QueueRLock(p) PROVE AStep
    BY <1>8 DEF QueueRLock
  <1>9. ASSUME NEW p \in Procs, Unlock(p) PROVE AStep
    <2>1. Atomic!Return(p)
      BY <1>9 DEF Unlock, Returned, Queued, Atomic!Return, Atomic!NoCall, NoCall
    <2>2. QED
      BY <2>1 DEF Atomic!AtomicNext
  <1>10. ASSUME NEW p \in Procs, RUnlock(p) PROVE AStep
    <2>1. Atomic!Return(p)
      BY <1>10 DEF RUnlock, Returned, Atomic!Return, Atomic!NoCall, NoCall
    <2>2. QED
      BY <2>1 DEF Atomic!AtomicNext
  <1>11. ASSUME NEW p \in Procs, ParseDefinition(p) PROVE AStep
    BY <1>11 DEF ParseDefinition
  <1>12. ASSUME NEW p \in Procs, RefuseDefinition(p) PROVE AStep
    <2>1. Atomic!Refuse(p)
      BY <1>12 DEF RefuseDefinition, Atomic!Refuse
    <2>2. QED
      BY <2>1 DEF Atomic!AtomicNext
  <1>13. ASSUME NEW p \in Procs, ReturnRefused(p) PROVE AStep
    <2>1. Atomic!Return(p)
      BY <1>13 DEF ReturnRefused, Returned, Atomic!Return, Atomic!NoCall, NoCall
    <2>2. QED
      BY <2>1 DEF Atomic!AtomicNext
  <1>14. ASSUME NEW p \in Procs, Clear(p) PROVE AStep
    <2>1. Atomic!Write(p)
      BY <1>14 DEF Clear, Atomic!Write, Empty, Atomic!Written
    <2>2. QED
      BY <2>1 DEF Atomic!AtomicNext
  <1>15. ASSUME NEW p \in Procs, Set(p) PROVE AStep
    <2>1. Atomic!Write(p)
      BY <1>15 DEF Set, Atomic!Write, Atomic!Written
    <2>2. QED
      BY <2>1 DEF Atomic!AtomicNext
  <1>16. ASSUME NEW p \in Procs, SetAllEmpty(p) PROVE AStep
    <2>1. Atomic!Write(p)
      BY <1>16 DEF SetAllEmpty, Atomic!Write, Atomic!Written
    <2>2. QED
      BY <2>1 DEF Atomic!AtomicNext
  <1>17. ASSUME NEW p \in Procs, SetAllCallsSet(p) PROVE AStep
    BY <1>17 DEF SetAllCallsSet
  <1>18. ASSUME NEW p \in Procs, Lookup(p) PROVE AStep
    BY <1>18 DEF Lookup
  <1>19. ASSUME NEW p \in Procs, Evaluate(p) PROVE AStep
    <2>1. Atomic!Read(p)
      BY <1>19 DEF Evaluate, Atomic!Read, EvaluatesCurrent
    <2>2. QED
      BY <2>1 DEF Atomic!AtomicNext
  <1>20. CASE UNCHANGED vars
    BY <1>20 DEF vars
  <1>21. QED
    BY <1>1, <1>2, <1>3, <1>4, <1>5, <1>6, <1>7, <1>8, <1>9, <1>10, <1>11, <1>12, <1>13, <1>14, <1>15, <1>16, <1>17, <1>18, <1>19, <1>20 DEF Next, Calling, Locking, Running

(* The cache implements the atomic cache: each call takes effect at one     *)
(* instant between its invocation and its return.                           *)
THEOREM Linearizable == Spec => ImplementsAtomic
  BY AtomicInitially, AtomicStep, Invariance, PTL DEF Spec, ImplementsAtomic, Atomic!AtomicSpec

===============================================================================
