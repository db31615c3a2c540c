--------------------------- MODULE FlagClientProofs ---------------------------
(***************************************************************************)
(* What the specialised client promises in either mode, for every number of *)
(* goroutines, tries, calls and failures.                                   *)
(***************************************************************************)
EXTENDS FlagClient, TLAPS

-------------------------------------------------------------------------------
(* The inductive invariant *)

(* Between two calls a client carries nothing over.                         *)
Fresh(c) ==
    call[c].op = "none" => /\ tries[c] = 0
                           /\ ~append[c]
                           /\ result[c] = "none"
                           /\ applied[c] = 0
                           /\ appended[c] = 0

(* A call under way has a try left, and the server has applied its request  *)
(* at most once for every try that failed, and once for the one that did    *)
(* not.                                                                     *)
Succeeded(c) == IF result[c] = "ok" THEN 1 ELSE 0

Tried(c) ==
    /\ call[c].op # "none" => call[c].id > 0
    /\ result[c] # "error" => tries[c] < MaxTries
    /\ applied[c] <= tries[c] + Succeeded(c)
    /\ appended[c] <= applied[c]

(* Multi-document mode: either the rules are still in the map, and have     *)
(* never been sent, or they are not.                                        *)
TakenOut(c) ==
    /\ appended[c] <= 1
    /\ append[c] => appended[c] = 0

(* Single-document mode: they stay in the map, so that every try sends them.*)
LeftIn(c) ==
    /\ call[c].rules # "none" => append[c]
    /\ call[c].rules # "none" => call[c].op = "update"
    /\ result[c] = "ok" /\ call[c].rules # "none" => appended[c] > 0

Confirmed(c) ==
    result[c] = "ok" /\ call[c].op \in {"set", "update", "delete"} => applied[c] > 0

Inv ==
    /\ TypeOK
    /\ \A c \in Clients : Fresh(c) /\ Tried(c) /\ Confirmed(c)
    /\ ~single => \A c \in Clients : TakenOut(c)
    /\ single  => \A c \in Clients : LeftIn(c)

-------------------------------------------------------------------------------
(* The steps *)

(* What a request leaves stored is a flag, or none.                         *)
LEMMA RequestType ==
  ASSUME TypeOK, NEW c \in Clients, NEW push \in BOOLEAN, Request(c, push),
         call[c].op # "none" => call[c].id > 0
  PROVE  flag' \in StoredFlags \cup {NoFlag} /\ live' \in BOOLEAN /\ single' = single
<1>0. single \in BOOLEAN
  BY ClientAssumption DEF TypeOK
<1>1. call[c].op \in {"none", "set", "update", "delete", "get", "exists", "all"}
  BY DEF TypeOK, Calls
<1>2. call[c].id \in 0..MaxCalls
  BY DEF TypeOK, Calls
<1>3. CASE call[c].op = "set"
  <2>1. flag' = [def |-> call[c].id, appended |-> <<>>] /\ live' = single /\ single' = single
    BY <1>3 DEF Request, Set
  <2>2. <<>> \in Seq(1..MaxCalls)
    OBVIOUS
  <2>3. flag' \in StoredFlags
    BY <1>2, <2>1, <2>2 DEF StoredFlags
  <2> QED
    BY <1>0, <2>1, <2>3
<1>4. CASE call[c].op = "update"
  <2>1. Update(c, push)
    BY <1>4 DEF Request
  <2>2. Base.def \in 0..MaxCalls /\ Base.appended \in Seq(1..MaxCalls)
    <3>1. CASE flag = NoFlag
      <4>1. Base = [def |-> 0, appended |-> <<>>]
        BY <3>1 DEF Base
      <4>2. <<>> \in Seq(1..MaxCalls) /\ 0 \in 0..MaxCalls
        BY ClientAssumption
      <4> QED
        BY <4>1, <4>2
    <3>2. CASE flag # NoFlag
      <4>1. Base \in StoredFlags
        BY <3>2 DEF Base, TypeOK
      <4> QED
        BY <4>1 DEF StoredFlags
    <3> QED
      BY <3>1, <3>2
  <2>3. call[c].id \in 1..MaxCalls
    BY <1>2, <1>4, ClientAssumption
  <2>4. Append(Base.appended, call[c].id) \in Seq(1..MaxCalls)
    BY <2>2, <2>3
  <2> QED
    BY <1>2, <2>1, <2>2, <2>4 DEF Update, StoredFlags, TypeOK
<1>5. CASE call[c].op = "delete"
  BY <1>5 DEF Request, Delete, TypeOK
<1>6. CASE call[c].op \notin {"set", "update", "delete"}
  BY <1>6 DEF Request, dbvars, TypeOK
<1> QED
  BY <1>3, <1>4, <1>5, <1>6

(* Nothing is stored and nothing is under way.                              *)
LEMMA InitInvariant == Init => Inv
<1> SUFFICES ASSUME Init PROVE Inv
  OBVIOUS
<1>1. NoCall \in Calls
  BY ClientAssumption DEF NoCall, Calls, Appends
<1>2. NoCall.op = "none" /\ NoCall.rules = "none"
  BY DEF NoCall
<1>3. TypeOK
  <2>1. flag \in StoredFlags \cup {NoFlag} /\ live \in BOOLEAN /\ single \in Modes
    BY DEF Init
  <2>2. call \in [Clients -> Calls]
    BY <1>1 DEF Init
  <2>3. /\ tries \in [Clients -> 0..MaxTries] /\ append \in [Clients -> BOOLEAN]
        /\ result \in [Clients -> {"none", "ok", "error"}]
    BY ClientAssumption DEF Init
  <2>4. /\ calls \in 0..MaxCalls /\ faults \in 0..MaxFaults
        /\ applied \in [Clients -> 0..MaxTries] /\ appended \in [Clients -> 0..MaxTries]
    BY ClientAssumption DEF Init
  <2> QED
    BY <2>1, <2>2, <2>3, <2>4 DEF TypeOK
<1>4. ASSUME NEW c \in Clients
      PROVE  Fresh(c) /\ Tried(c) /\ Confirmed(c) /\ TakenOut(c) /\ LeftIn(c)
  BY <1>2, ClientAssumption DEF Init, Fresh, Tried, TakenOut, LeftIn, Confirmed, Succeeded
<1> QED
  BY <1>3, <1>4 DEF Inv

(* A new call starts from nothing.                                          *)
LEMMA CallStep ==
  ASSUME Inv, NEW c \in Clients,
         NEW o \in {"set", "update", "delete", "get", "exists", "all"},
         NEW fields \in BOOLEAN, NEW rules \in Appends,
         rules # "none" => o = "update", Call(c, o, fields, rules)
  PROVE  Inv'
<1> USE ClientAssumption DEF Inv, Call, dbvars
<1>1. /\ call[c].op = "none" /\ ~append[c] /\ result[c] = "none"
      /\ tries[c] = 0 /\ applied[c] = 0 /\ appended[c] = 0
  BY DEF Fresh
<1>2. calls + 1 \in 0..MaxCalls
  BY DEF TypeOK
<1>3. call'[c] = [op |-> o, id |-> calls + 1, fields |-> fields, rules |-> rules]
  BY DEF TypeOK
<1>4. call'[c] \in Calls
  BY <1>2, <1>3 DEF Calls, Appends
<1>5. TypeOK'
  BY <1>2, <1>4 DEF TypeOK
<1>6. ASSUME NEW d \in Clients
      PROVE  Fresh(d)' /\ Tried(d)' /\ Confirmed(d)'
  <2>1. CASE d = c
    <3>1. call'[d].op = o /\ call'[d].id > 0
      BY <1>3, <2>1 DEF TypeOK
    <3> QED
      BY <1>1, <2>1, <3>1 DEF Fresh, Tried, Confirmed, Succeeded, TypeOK
  <2>2. CASE d # c
    <3>1. call'[d] = call[d]
      BY <2>2 DEF TypeOK
    <3> QED
      BY <2>2, <3>1 DEF Fresh, Tried, Confirmed, Succeeded, TypeOK
  <2> QED
    BY <2>1, <2>2
<1>7. ASSUME ~single', NEW d \in Clients
      PROVE  TakenOut(d)'
  BY <1>1, <1>7 DEF Fresh, TakenOut, TypeOK
<1>8. ASSUME single', NEW d \in Clients
      PROVE  LeftIn(d)'
  BY <1>1, <1>3, <1>8 DEF Fresh, LeftIn, TypeOK
<1> QED
  BY <1>5, <1>6, <1>7, <1>8

(* A refused update uses a try up, and nothing else.                        *)
LEMMA RefusedStep ==
  ASSUME Inv, NEW c \in Clients, Refused(c)
  PROVE  Inv'
<1> USE ClientAssumption DEF Inv, Refused, Busy, Again, dbvars
<1>1. TypeOK'
  BY DEF TypeOK, Tried
<1>2. ASSUME NEW d \in Clients
      PROVE  Fresh(d)' /\ Tried(d)' /\ Confirmed(d)'
  BY DEF Fresh, Tried, Confirmed, Succeeded, TypeOK
<1>3. ASSUME ~single', NEW d \in Clients
      PROVE  TakenOut(d)'
  BY <1>3 DEF TakenOut, TypeOK
<1>4. ASSUME single', NEW d \in Clients
      PROVE  LeftIn(d)'
  BY <1>4 DEF LeftIn, TypeOK
<1> QED
  BY <1>1, <1>2, <1>3, <1>4

(* What the histories may do in a step of c.                                *)
Counted(c) ==
    /\ applied' \in [Clients -> Nat]
    /\ appended' \in [Clients -> Nat]
    /\ applied'[c] <= applied[c] + 1
    /\ appended'[c] <= appended[c] + 1
    /\ appended'[c] <= applied'[c]
    /\ ~append[c] => appended'[c] = appended[c]
    /\ \A d \in Clients \ {c} : applied'[d] = applied[d] /\ appended'[d] = appended[d]

(* A request that is applied is counted once, its rules if it carried them. *)
LEMMA AppliedStep ==
  ASSUME Inv, NEW c \in Clients, Applied(c)
  PROVE  /\ Counted(c)
         /\ Effective(c) => applied'[c] = applied[c] + 1
         /\ Effective(c) /\ append[c] => appended'[c] = appended[c] + 1
<1>1. /\ applied \in [Clients -> Nat] /\ appended \in [Clients -> Nat]
      /\ appended[c] <= applied[c]
  BY ClientAssumption DEF Inv, TypeOK, Tried
<1>2. CASE Effective(c) /\ append[c]
  BY <1>1, <1>2 DEF Applied, Counted
<1>3. CASE Effective(c) /\ ~append[c]
  BY <1>1, <1>3 DEF Applied, Counted
<1>4. CASE ~Effective(c)
  BY <1>1, <1>4 DEF Applied, Counted
<1> QED
  BY <1>2, <1>3, <1>4

(* The counts of the requests stay within the tries.                        *)
LEMMA CountsInRange ==
  ASSUME Inv, NEW c \in Clients, Busy(c), Counted(c)
  PROVE  applied' \in [Clients -> 0..MaxTries] /\ appended' \in [Clients -> 0..MaxTries]
<1>1. ASSUME NEW d \in Clients
      PROVE  applied'[d] \in 0..MaxTries /\ appended'[d] \in 0..MaxTries
  <2>1. CASE d = c
    <3>1. tries[c] < MaxTries /\ applied[c] <= tries[c]
      <4>1. Tried(c) /\ result[c] = "none"
        BY DEF Inv, Busy
      <4>2. Succeeded(c) = 0
        BY <4>1 DEF Succeeded
      <4>3. applied[c] \in Nat /\ tries[c] \in Nat
        BY ClientAssumption DEF Inv, TypeOK
      <4> QED
        BY <4>1, <4>2, <4>3 DEF Tried
    <3>2. /\ tries[c] \in Nat /\ applied[c] \in Nat
          /\ applied'[c] \in Nat /\ appended'[c] \in Nat
      BY ClientAssumption DEF Inv, TypeOK, Counted
    <3>3. applied'[c] <= applied[c] + 1 /\ appended'[c] <= applied'[c]
      BY DEF Counted
    <3> QED
      BY <2>1, <3>1, <3>2, <3>3, ClientAssumption
  <2>2. CASE d # c
    BY <2>2 DEF Inv, TypeOK, Counted
  <2> QED
    BY <2>1, <2>2
<1> QED
  BY <1>1 DEF Counted

(* A request that has failed for the client uses a try up, applied or not.  *)
LEMMA FailedStep ==
  ASSUME Inv, NEW c \in Clients, Sent(c), Again(c), faults' \in 0..MaxFaults,
         Applied(c) \/ UNCHANGED <<dbvars, applied, appended>>
  PROVE  Inv'
<1> USE ClientAssumption DEF Inv, Sent, Busy, Again
<1> DEFINE Same == UNCHANGED <<dbvars, applied, appended>>
<1>1. flag' \in StoredFlags \cup {NoFlag} /\ live' \in BOOLEAN /\ single' = single
  <2>1. CASE Applied(c)
    <3>1. Request(c, append[c]) /\ append[c] \in BOOLEAN
      BY <2>1 DEF Applied, TypeOK
    <3>2. call[c].op # "none" => call[c].id > 0
      BY DEF Tried
    <3> QED
      BY <3>1, <3>2, RequestType
  <2>2. CASE Same
    BY <2>2 DEF TypeOK, dbvars
  <2> QED
    BY <2>1, <2>2
<1>2. Counted(c)
  <2>1. CASE Applied(c)
    BY <2>1, AppliedStep
  <2>2. CASE Same
    BY <2>2 DEF Counted, TypeOK, Tried
  <2> QED
    BY <2>1, <2>2
<1>3. ASSUME NEW d \in Clients
      PROVE  Fresh(d)' /\ Tried(d)' /\ Confirmed(d)'
  <2>1. CASE d = c
    <3>1. /\ tries[c] \in Nat /\ applied[c] \in Nat /\ appended[c] \in Nat
          /\ applied'[c] \in Nat /\ appended'[c] \in Nat
      <4>1. tries[c] \in Nat /\ applied[c] \in Nat /\ appended[c] \in Nat
        BY DEF TypeOK
      <4>2. applied'[c] \in Nat /\ appended'[c] \in Nat
        BY <1>2 DEF Counted
      <4> QED
        BY <4>1, <4>2
    <3>2. /\ applied'[c] <= applied[c] + 1 /\ appended'[c] <= applied'[c]
          /\ tries'[c] = tries[c] + 1
      BY <1>2, <3>1 DEF Counted, TypeOK
    <3>3. /\ result[c] = "none"
          /\ result'[c] = IF tries[c] + 1 = MaxTries THEN "error" ELSE "none"
      BY DEF TypeOK
    <3>4. call'[c] = call[c] /\ call[c].op # "none" /\ call[c].id > 0
      BY DEF Tried
    <3>5. applied[c] <= tries[c] /\ tries[c] < MaxTries
      BY <3>1, <3>3 DEF Tried, Succeeded
    <3>6. Succeeded(c)' = 0
      BY <3>3 DEF Succeeded
    <3>7. result'[c] # "error" => tries'[c] < MaxTries
      BY <3>1, <3>2, <3>3, <3>5
    <3>8. Tried(c)'
      BY <3>1, <3>2, <3>4, <3>5, <3>6, <3>7 DEF Tried
    <3> QED
      BY <2>1, <3>3, <3>4, <3>8 DEF Fresh, Confirmed
  <2>2. CASE d # c
    BY <1>2, <2>2 DEF Counted, Fresh, Tried, Confirmed, Succeeded, TypeOK
  <2> QED
    BY <2>1, <2>2
<1>4. TypeOK'
  <2>1. tries' \in [Clients -> 0..MaxTries] /\ result' \in [Clients -> {"none", "ok", "error"}]
    BY DEF TypeOK, Tried
  <2>2. Busy(c)
    BY DEF Sent
  <2>3. /\ applied' \in [Clients -> 0..MaxTries]
        /\ appended' \in [Clients -> 0..MaxTries]
    BY <1>2, <2>2, CountsInRange
  <2>4. append' \in [Clients -> BOOLEAN]
    BY DEF TypeOK
  <2> QED
    BY <1>1, <2>1, <2>3, <2>4 DEF TypeOK
<1>5. ASSUME ~single', NEW d \in Clients
      PROVE  TakenOut(d)'
  <2>1. CASE d = c
    BY <1>1, <1>2, <1>5, <2>1 DEF Counted, TakenOut, TypeOK
  <2>2. CASE d # c
    BY <1>1, <1>2, <1>5, <2>2 DEF Counted, TakenOut, TypeOK
  <2> QED
    BY <2>1, <2>2
<1>6. ASSUME single', NEW d \in Clients
      PROVE  LeftIn(d)'
  <2>1. CASE d = c
    BY <1>1, <1>6, <2>1 DEF LeftIn, TypeOK
  <2>2. CASE d # c
    BY <1>1, <1>2, <1>6, <2>2 DEF Counted, LeftIn, TypeOK
  <2> QED
    BY <2>1, <2>2
<1> QED
  BY <1>3, <1>4, <1>5, <1>6

(* A request whose answer says that it was applied ends the call.           *)
LEMMA StoppedStep ==
  ASSUME Inv, NEW c \in Clients, Sent(c), Applied(c), Found(c), Stop(c), UNCHANGED faults
  PROVE  Inv'
<1> USE ClientAssumption DEF Inv, Sent, Busy, Stop
<1>1. flag' \in StoredFlags \cup {NoFlag} /\ live' \in BOOLEAN /\ single' = single
  <2>1. Request(c, append[c]) /\ append[c] \in BOOLEAN
    BY DEF Applied, TypeOK
  <2>2. call[c].op # "none" => call[c].id > 0
    BY DEF Tried
  <2> QED
    BY <2>1, <2>2, RequestType
<1>2. /\ Counted(c)
      /\ Effective(c) => applied'[c] > 0
      /\ Effective(c) /\ append[c] => appended'[c] > 0
  <2>1. applied[c] \in Nat /\ appended[c] \in Nat
    BY DEF TypeOK
  <2>2. /\ Counted(c)
        /\ Effective(c) => applied'[c] = applied[c] + 1
        /\ Effective(c) /\ append[c] => appended'[c] = appended[c] + 1
    BY AppliedStep
  <2> QED
    BY <2>1, <2>2
<1>3. call[c].op \in {"set", "update", "delete"} => Effective(c)
  BY DEF Found, Effective
<1>4. ASSUME NEW d \in Clients
      PROVE  Fresh(d)' /\ Tried(d)' /\ Confirmed(d)'
  <2>1. CASE d = c
    <3>1. /\ tries[c] \in Nat /\ applied[c] \in Nat
          /\ applied'[c] \in Nat /\ appended'[c] \in Nat
      <4>1. tries[c] \in Nat /\ applied[c] \in Nat /\ appended[c] \in Nat
        BY DEF TypeOK
      <4>2. applied'[c] \in Nat /\ appended'[c] \in Nat
        BY <1>2 DEF Counted
      <4> QED
        BY <4>1, <4>2
    <3>2. applied'[c] <= applied[c] + 1 /\ appended'[c] <= applied'[c] /\ tries'[c] = tries[c]
      BY <1>2 DEF Counted
    <3>3. result[c] = "none" /\ result'[c] = "ok"
      BY DEF TypeOK
    <3>4. call'[c] = call[c] /\ call[c].op # "none" /\ call[c].id > 0
      BY DEF Tried
    <3>5. applied[c] <= tries[c] /\ tries[c] < MaxTries
      BY <3>1, <3>3 DEF Tried, Succeeded
    <3>6. Succeeded(c)' = 1
      BY <3>3 DEF Succeeded
    <3>7. Tried(c)'
      BY <3>1, <3>2, <3>4, <3>5, <3>6 DEF Tried
    <3> QED
      BY <1>2, <1>3, <2>1, <3>4, <3>7 DEF Fresh, Confirmed
  <2>2. CASE d # c
    BY <1>2, <2>2 DEF Counted, Fresh, Tried, Confirmed, Succeeded, TypeOK
  <2> QED
    BY <2>1, <2>2
<1>5. TypeOK'
  <2>1. Busy(c)
    BY DEF Sent
  <2>2. /\ applied' \in [Clients -> 0..MaxTries]
        /\ appended' \in [Clients -> 0..MaxTries]
    BY <1>2, <2>1, CountsInRange
  <2>3. append' \in [Clients -> BOOLEAN] /\ result' \in [Clients -> {"none", "ok", "error"}]
    BY DEF TypeOK
  <2> QED
    BY <1>1, <2>2, <2>3 DEF TypeOK
<1>6. ASSUME ~single', NEW d \in Clients
      PROVE  TakenOut(d)'
  <2>1. CASE d = c
    BY <1>1, <1>2, <1>6, <2>1 DEF Counted, TakenOut, TypeOK
  <2>2. CASE d # c
    BY <1>1, <1>2, <1>6, <2>2 DEF Counted, TakenOut, TypeOK
  <2> QED
    BY <2>1, <2>2
<1>7. ASSUME single', NEW d \in Clients
      PROVE  LeftIn(d)'
  <2>1. CASE d = c
    BY <1>1, <1>2, <1>3, <1>7, <2>1 DEF LeftIn, TypeOK
  <2>2. CASE d # c
    BY <1>1, <1>2, <1>7, <2>2 DEF Counted, LeftIn, TypeOK
  <2> QED
    BY <2>1, <2>2
<1> QED
  BY <1>4, <1>5, <1>6, <1>7

(* A client that has its result is free for another call.                   *)
LEMMA ReturnStep ==
  ASSUME Inv, NEW c \in Clients, Return(c)
  PROVE  Inv'
<1> USE ClientAssumption DEF Inv, Return, dbvars
<1>1. TypeOK'
  BY DEF TypeOK, NoCall, Calls, Appends
<1>2. ASSUME NEW d \in Clients
      PROVE  Fresh(d)' /\ Tried(d)' /\ Confirmed(d)'
  BY DEF Fresh, Tried, Confirmed, Succeeded, TypeOK, NoCall
<1>3. ASSUME ~single', NEW d \in Clients
      PROVE  TakenOut(d)'
  BY <1>3 DEF TakenOut, TypeOK
<1>4. ASSUME single', NEW d \in Clients
      PROVE  LeftIn(d)'
  BY <1>4 DEF LeftIn, TypeOK, NoCall
<1> QED
  BY <1>1, <1>2, <1>3, <1>4

(* Every step of every client.                                              *)
LEMMA StepInvariant == Inv /\ [Next]_vars => Inv'
<1> SUFFICES ASSUME Inv, [Next]_vars PROVE Inv'
  OBVIOUS
<1>1. ASSUME NEW c \in Clients, Calling(c) PROVE Inv'
  <2>1. PICK o \in {"set", "update", "delete", "get", "exists", "all"},
             fields \in BOOLEAN, rules \in Appends :
               Call(c, o, fields, rules) /\ (rules # "none" => o = "update")
    BY <1>1 DEF Calling, SetFlag, GetFlag, DeleteFlag, FlagExists, GetAllFlags,
                PartialUpdateFlag, Appends
  <2> QED
    BY <2>1, CallStep
<1>2. ASSUME NEW c \in Clients, Trying(c) PROVE Inv'
  <2>1. CASE Refused(c)
    BY <2>1, RefusedStep
  <2>2. CASE Answered(c) /\ Found(c)
    <3>1. Sent(c) /\ Applied(c) /\ Found(c) /\ Stop(c) /\ UNCHANGED faults
      BY <2>2 DEF Answered
    <3> QED
      BY <3>1, StoppedStep
  <2>3. CASE Answered(c) /\ ~Found(c)
    <3>1. Sent(c) /\ Applied(c) /\ Again(c) /\ faults' \in 0..MaxFaults
      BY <2>3 DEF Answered, Inv, TypeOK
    <3> QED
      BY <3>1, FailedStep
  <2>4. CASE AnswerLost(c)
    <3>1. Sent(c) /\ Applied(c) /\ Again(c) /\ faults' \in 0..MaxFaults
      BY <2>4, ClientAssumption DEF AnswerLost, Inv, TypeOK
    <3> QED
      BY <3>1, FailedStep
  <2>5. CASE RequestLost(c)
    <3>1. /\ Sent(c) /\ Again(c) /\ faults' \in 0..MaxFaults
          /\ UNCHANGED <<dbvars, applied, appended>>
      BY <2>5, ClientAssumption DEF RequestLost, Inv, TypeOK
    <3> QED
      BY <3>1, FailedStep
  <2> QED
    BY <1>2, <2>1, <2>2, <2>3, <2>4, <2>5 DEF Trying
<1>3. ASSUME NEW c \in Clients, Return(c) PROVE Inv'
  BY <1>3, ReturnStep
<1>4. CASE UNCHANGED vars
  BY <1>4 DEF Inv, TypeOK, Fresh, Tried, Confirmed, Succeeded, TakenOut, LeftIn,
              vars, cvars, dbvars
<1> QED
  BY <1>1, <1>2, <1>3, <1>4 DEF Next

-------------------------------------------------------------------------------
(* The theorems *)

(* The inductive invariant holds of every behaviour of the client.          *)
THEOREM Invariance == Spec => []Inv
  BY InitInvariant, StepInvariant, PTL DEF Spec

(* Every variable stays in its type; no call sends more than MaxTries       *)
(* requests (the loops of client.go).                                       *)
THEOREM TypeCorrect == Spec => []TypeOK
<1>1. Inv => TypeOK
  BY DEF Inv
<1> QED
  BY <1>1, Invariance, PTL

(* A SetFlag, PartialUpdateFlag or DeleteFlag that returns nil has been     *)
(* applied by the server, whatever was lost on the way (client.go:40-48,    *)
(* 130-137, 218-226).                                                       *)
THEOREM SuccessIsReal == Spec => []NilMeansApplied
<1>1. Inv => NilMeansApplied
  BY DEF Inv, Confirmed, NilMeansApplied
<1> QED
  BY <1>1, Invariance, PTL

(* Multi-document mode: the rules of one PartialUpdateFlag are appended at  *)
(* most once, however often it is sent (client.go:150-157).                 *)
THEOREM NoDoubleAppend == Spec => []AppendedAtMostOnce
<1>1. Inv => AppendedAtMostOnce
  BY DEF Inv, TakenOut, AppendedAtMostOnce
<1> QED
  BY <1>1, Invariance, PTL

(* Single-document mode: a PartialUpdateFlag that returns nil has appended  *)
(* its rules (client.go:184-201).                                           *)
THEOREM NoLostAppend == Spec => []NilMeansWhole
<1>1. Inv => NilMeansWhole
  BY DEF Inv, LeftIn, NilMeansWhole
<1> QED
  BY <1>1, Invariance, PTL

(* Multi-document mode: only SetFlag brings in a flag (client.go:167-176).  *)
THEOREM OnlySetCreates == Spec => UpdateNeverCreates
<1> DEFINE Created == ~single /\ flag = NoFlag /\ flag' # NoFlag
           BySet   == \E c \in Clients : call[c].op = "set" /\ applied'[c] > applied[c]
<1>1. ASSUME Inv, [Next]_vars, Created PROVE BySet
  <2>1. PICK c \in Clients : Sent(c) /\ Applied(c)
    BY <1>1 DEF Next, Calling, Trying, Return, Refused, Answered, AnswerLost, RequestLost,
                SetFlag, GetFlag, DeleteFlag, FlagExists, GetAllFlags, PartialUpdateFlag,
                Call, vars, cvars, dbvars
  <2>2. call[c].op = "set"
    BY <1>1, <2>1 DEF Applied, Request, Update, Matched, Delete, dbvars
  <2>3. applied'[c] = applied[c] + 1 /\ applied[c] \in Nat
    BY <1>1, <2>1, <2>2, AppliedStep, ClientAssumption DEF Effective, Inv, TypeOK
  <2> QED
    BY <2>2, <2>3
<1>2. Inv /\ [Next]_vars => [Created => BySet]_vars
  BY <1>1
<1> QED
  BY <1>2, Invariance, PTL DEF Spec, UpdateNeverCreates
===============================================================================
