------------------------------ MODULE FlagClient ------------------------------
(***************************************************************************)
(* src/client/client.go: the calls of the specialised client on one flag,   *)
(* each a loop of MaxTries requests that stops at the first without error.  *)
(* A request can fail before the server has applied it or after (its answer *)
(* is lost); the client cannot tell, and sends it again.                    *)
(*                                                                          *)
(* single: the flag is a field of a document (WithDocumentID), otherwise    *)
(* a document of its own.  A definition is the number of the call that      *)
(* stored it; rules a call appends are known by that number, too.           *)
(***************************************************************************)
EXTENDS Integers, Sequences

CONSTANTS
    Modes,          \* the modes to start in: whether one document holds every flag
    Clients,        \* goroutines that use the client
    MaxTries,       \* c.maxTries
    MaxCalls,       \* bound on the number of calls
    MaxFaults,      \* bound on the number of requests that fail
    NoFlag          \* the flag is not stored

ASSUME ClientAssumption ==
    /\ Modes \subseteq BOOLEAN
    /\ MaxTries \in Nat \ {0} /\ MaxCalls \in Nat /\ MaxFaults \in Nat

(* A flag without a definition of its own is what an update leaves of one   *)
(* that is not there: def is 0.                                             *)
StoredFlags == [def : 0..MaxCalls, appended : Seq(1..MaxCalls)]

ASSUME NoFlagAssumption == NoFlag \notin StoredFlags

VARIABLES
    single,     \* single-document mode, for good
    flag,       \* the flag as it is stored, or NoFlag
    live,       \* single-document mode: the document exists
    call,       \* the call each client is in
    tries,      \* how many of its requests have failed
    append,     \* updates still holds append_rules
    result,     \* what the call has returned
    calls,      \* how many calls have been made
    faults      \* how many requests have failed

(* History, read by the properties only.                                    *)
VARIABLES
    applied,    \* how often the server has applied the call's request
    appended    \* how often it has appended the call's rules

cvars == <<call, tries, append, result, calls>>
dbvars == <<single, flag, live>>
vars == <<cvars, dbvars, faults, applied, appended>>

(* What an update carries: fields to set, rules to append - as the []any    *)
(* the multi-document code asks for, or as anything else, which is what the *)
(* MCP server and the assistant pass.                                       *)
Appends == {"none", "any", "typed"}
NoCall  == [op |-> "none", id |-> 0, fields |-> FALSE, rules |-> "none"]
Calls   == [op : {"none", "set", "update", "delete", "get", "exists", "all"},
            id : 0..MaxCalls, fields : BOOLEAN, rules : Appends]

TypeOK ==
    /\ single \in Modes
    /\ flag \in StoredFlags \cup {NoFlag} /\ live \in BOOLEAN
    /\ call \in [Clients -> Calls]
    /\ tries \in [Clients -> 0..MaxTries]
    /\ append \in [Clients -> BOOLEAN]
    /\ result \in [Clients -> {"none", "ok", "error"}]
    /\ calls \in 0..MaxCalls /\ faults \in 0..MaxFaults
    /\ applied \in [Clients -> 0..MaxTries] /\ appended \in [Clients -> 0..MaxTries]

Init ==
    /\ single \in Modes
    /\ flag = NoFlag /\ live = FALSE
    /\ call = [c \in Clients |-> NoCall]
    /\ tries = [c \in Clients |-> 0]
    /\ append = [c \in Clients |-> FALSE]
    /\ result = [c \in Clients |-> "none"]
    /\ calls = 0 /\ faults = 0
    /\ applied = [c \in Clients |-> 0]
    /\ appended = [c \in Clients |-> 0]

-------------------------------------------------------------------------------
(* What the server does with a request *)

Base == IF flag = NoFlag THEN [def |-> 0, appended |-> <<>>] ELSE flag

(* $set, upsert: the whole definition, its rules included.                  *)
Set(c) ==
    /\ flag' = [def |-> call[c].id, appended |-> <<>>]
    /\ live' = single /\ single' = single

(* Mutant: an upsert, like the one of SetFlag.                              *)
MatchedAlways == TRUE

(* UpdateOne's filter is the document; in single-document mode that says    *)
(* nothing of the flag.                                                     *)
Matched == IF single THEN live ELSE flag # NoFlag

(* $set of the fields and $push of the rules.                               *)
Update(c, push) ==
    /\ flag' = IF ~Matched THEN flag
               ELSE [def |-> IF call[c].fields THEN call[c].id ELSE Base.def,
                     appended |-> IF push THEN Append(Base.appended, call[c].id)
                                          ELSE Base.appended]
    /\ UNCHANGED <<single, live>>

Delete == flag' = NoFlag /\ UNCHANGED <<single, live>>

Request(c, push) ==
    \/ call[c].op = "set" /\ Set(c)
    \/ call[c].op = "update" /\ Update(c, push)
    \/ call[c].op = "delete" /\ Delete
    \/ call[c].op \in {"get", "exists", "all"} /\ UNCHANGED dbvars

(* A bug: the counts in the answer are not looked at.                       *)
FoundUnchecked(c) == TRUE

(* The answer says so when there was nothing to update, delete or find;     *)
(* $unset of a field that is not there is no error.                         *)
Found(c) ==
    /\ call[c].op = "update" => Matched
    /\ call[c].op = "delete" => single \/ flag # NoFlag
    /\ call[c].op = "get" => flag # NoFlag

(* The server has done what the request asks for; in single-document mode a *)
(* flag that is not there is deleted by doing nothing.                      *)
Effective(c) ==
    \/ call[c].op = "set"
    \/ call[c].op = "update" /\ Matched
    \/ call[c].op = "delete" /\ (single \/ flag # NoFlag)

-------------------------------------------------------------------------------
(* The client *)

Busy(c) == call[c].op # "none" /\ result[c] = "none"

Call(c, o, fields, rules) ==
    /\ call[c].op = "none" /\ calls < MaxCalls
    /\ calls' = calls + 1
    /\ call' = [call EXCEPT ![c] = [op |-> o, id |-> calls + 1, fields |-> fields, rules |-> rules]]
    /\ append' = [append EXCEPT ![c] = rules # "none"]
    /\ UNCHANGED <<dbvars, tries, result, faults, applied, appended>>

SetFlag(c)     == Call(c, "set", FALSE, "none")
GetFlag(c)     == Call(c, "get", FALSE, "none")
DeleteFlag(c)  == Call(c, "delete", FALSE, "none")
FlagExists(c)  == Call(c, "exists", FALSE, "none")
GetAllFlags(c) == Call(c, "all", FALSE, "none")

PartialUpdateFlag(c) == \E fields \in BOOLEAN, rules \in Appends :
    /\ fields \/ rules # "none"
    /\ Call(c, "update", fields, rules)

(* The multi-document code takes append_rules out of the caller's map, when *)
(* it is a []any; otherwise it refuses the update before it is sent.        *)
TakesOut(c) == ~single /\ append[c]
Unfit(c)    == TakesOut(c) /\ call[c].rules = "typed"

(* Nothing to set and nothing to append: the driver refuses the update.     *)
Nothing(c)  == call[c].op = "update" /\ ~call[c].fields /\ ~append[c]

(* The request has returned an error: the loop goes on, or is over.         *)
Again(c) ==
    /\ tries' = [tries EXCEPT ![c] = @ + 1]
    /\ result' = [result EXCEPT ![c] = IF tries[c] + 1 = MaxTries THEN "error" ELSE @]

Stop(c) ==
    /\ result' = [result EXCEPT ![c] = "ok"]
    /\ UNCHANGED tries

Refused(c) ==
    /\ Busy(c) /\ (Unfit(c) \/ Nothing(c))
    /\ Again(c)
    /\ UNCHANGED <<dbvars, call, append, calls, faults, applied, appended>>

(* A bug: append_rules is left in the map.                                  *)
SentAndKept(c) ==
    /\ Busy(c) /\ ~Unfit(c) /\ ~Nothing(c)
    /\ UNCHANGED <<call, append, calls>>

(* A bug: it is taken out of the map in single-document mode, too.          *)
SentAndTaken(c) ==
    /\ Busy(c) /\ ~Unfit(c) /\ ~Nothing(c)
    /\ append' = [append EXCEPT ![c] = FALSE]
    /\ UNCHANGED <<call, calls>>

(* The update has been built, with or without the rules to append.          *)
Sent(c) ==
    /\ Busy(c) /\ ~Unfit(c) /\ ~Nothing(c)
    /\ append' = [append EXCEPT ![c] = @ /\ single]
    /\ UNCHANGED <<call, calls>>

Applied(c) ==
    /\ Request(c, append[c])
    /\ applied' = [applied EXCEPT ![c] = IF Effective(c) THEN @ + 1 ELSE @]
    /\ appended' = [appended EXCEPT ![c] = IF Effective(c) /\ append[c] THEN @ + 1 ELSE @]

Answered(c) ==
    /\ Sent(c) /\ Applied(c)
    /\ IF Found(c) THEN Stop(c) ELSE Again(c)
    /\ UNCHANGED faults

AnswerLost(c) ==
    /\ Sent(c) /\ Applied(c) /\ Again(c)
    /\ faults < MaxFaults /\ faults' = faults + 1

RequestLost(c) ==
    /\ Sent(c) /\ Again(c)
    /\ faults < MaxFaults /\ faults' = faults + 1
    /\ UNCHANGED <<dbvars, applied, appended>>

Return(c) ==
    /\ result[c] # "none"
    /\ call' = [call EXCEPT ![c] = NoCall]
    /\ tries' = [tries EXCEPT ![c] = 0]
    /\ append' = [append EXCEPT ![c] = FALSE]
    /\ result' = [result EXCEPT ![c] = "none"]
    /\ applied' = [applied EXCEPT ![c] = 0]
    /\ appended' = [appended EXCEPT ![c] = 0]
    /\ UNCHANGED <<dbvars, calls, faults>>

Calling(c) ==
    \/ SetFlag(c) \/ GetFlag(c) \/ DeleteFlag(c) \/ FlagExists(c) \/ GetAllFlags(c)
    \/ PartialUpdateFlag(c)

Trying(c) == Refused(c) \/ Answered(c) \/ AnswerLost(c) \/ RequestLost(c)

Next == \E c \in Clients : Calling(c) \/ Trying(c) \/ Return(c)

Spec == Init /\ [][Next]_vars

-------------------------------------------------------------------------------
(* Properties *)

(* A call that writes and returns nil has had an effect: the loop never     *)
(* takes a failure for success, and a retry of an update or of a delete     *)
(* that finds nothing is still a failure (client.go:40-48, 130-137,         *)
(* 174-176, 218-226, 242-244).                                              *)
NilMeansApplied == \A c \in Clients :
    result[c] = "ok" /\ call[c].op \in {"set", "update", "delete"} => applied[c] > 0

(* Multi-document mode: the rules of one call are appended at most once,    *)
(* however often it is retried: append_rules is taken out of the map before *)
(* the request is sent (client.go:150-157).                                 *)
AppendedAtMostOnce == ~single => \A c \in Clients : appended[c] <= 1

(* Multi-document mode: only SetFlag brings in a flag; an update does not   *)
(* bring back one that was deleted since its caller looked, say             *)
(* (client.go:167-176).                                                     *)
UpdateNeverCreates ==
    [][~single /\ flag = NoFlag /\ flag' # NoFlag
         => \E c \in Clients : call[c].op = "set" /\ applied'[c] > applied[c]]_vars

(* Single-document mode: an update that returns nil has been applied whole, *)
(* its rules with its fields, in every try (client.go:180-201).             *)
NilMeansWhole == single => \A c \in Clients :
    result[c] = "ok" /\ call[c].rules # "none" => appended[c] > 0

-------------------------------------------------------------------------------
(* What the documentation says of the client, and the code does not do.     *)

(* client.go:126: PartialUpdateFlag "performs an atomic partial update on a *)
(* flag definition": in either mode, all of it or nothing.                  *)
AtomicWhole == \A c \in Clients :
    result[c] = "ok" /\ call[c].rules # "none" => appended[c] > 0
===============================================================================
