----------------------------- MODULE StateHandler -----------------------------
(***************************************************************************)
(* internal/statehandler/statehandler.go: Init runs the startup functions   *)
(* in the order they were registered, until one fails; Shutdown runs the    *)
(* shutdown functions.  The functions are named, and the module that        *)
(* registers them (Provider) says what each one does.                       *)
(***************************************************************************)
EXTENDS Integers, Sequences

CONSTANTS
    Startup,      \* the startup functions, in the order of registration
    ShutdownFns,  \* the shutdown functions
    MaxInits      \* bound on the number of calls of Init

ASSUME InitsAssumption == MaxInits \in Nat

VARIABLES
    status,         \* s.status
    startup,        \* s.startup
    initAt,         \* the startup function Init is at, 0 outside Init
    initResult,     \* what the last Init returned
    inits,          \* calls of Init so far
    shutdown,       \* the shutdown functions still to run
    shuttingDown    \* Shutdown has been called and has not returned

stateVars == <<status, startup, initAt, initResult, inits, shutdown, shuttingDown>>

Results == {"none", "ok", "error"}

StateTypeOK ==
    /\ status \in {"notReady", "ready"}
    /\ startup \in {Startup, <<>>}
    /\ initAt \in 0..Len(startup) + 1
    /\ initResult \in Results
    /\ inits \in 0..MaxInits
    /\ shuttingDown \in BOOLEAN

StateInit ==
    /\ status = "notReady"
    /\ startup = Startup
    /\ initAt = 0 /\ initResult = "none" /\ inits = 0
    /\ shutdown = ShutdownFns /\ shuttingDown = FALSE

(* Mutant: the provider is ready as soon as Init is called.                 *)
ReadyAtOnce ==
    /\ initAt = 0 /\ inits < MaxInits
    /\ inits' = inits + 1 /\ status' = "ready"
    /\ IF status = "notReady" THEN initAt' = 1 /\ initResult' = "none"
                              ELSE initAt' = 0 /\ initResult' = "error"
    /\ UNCHANGED <<startup, shutdown, shuttingDown>>

(* The SDK calls Init, one call at a time: it refuses to run twice.         *)
CallInit ==
    /\ initAt = 0 /\ inits < MaxInits
    /\ inits' = inits + 1
    /\ IF status = "notReady" THEN initAt' = 1 /\ initResult' = "none"
                              ELSE initAt' = 0 /\ initResult' = "error"
    /\ UNCHANGED <<status, startup, shutdown, shuttingDown>>

(* Init is about to run, or is running, startup function fn.                *)
InStartup(fn) == initAt \in DOMAIN startup /\ startup[initAt] = fn

StartupSucceeds ==
    /\ initAt' = initAt + 1
    /\ UNCHANGED <<status, startup, initResult, inits, shutdown, shuttingDown>>

StartupFails ==
    /\ initAt' = 0
    /\ initResult' = "error"
    /\ UNCHANGED <<status, startup, inits, shutdown, shuttingDown>>

(* Every startup function has succeeded.                                    *)
InitReturns ==
    /\ initAt = Len(startup) + 1
    /\ startup' = <<>>
    /\ status' = "ready"
    /\ initAt' = 0 /\ initResult' = "ok"
    /\ UNCHANGED <<inits, shutdown, shuttingDown>>

CallShutdown ==
    /\ ~shuttingDown /\ shutdown # <<>>
    /\ shuttingDown' = TRUE
    /\ UNCHANGED <<status, startup, initAt, initResult, inits, shutdown>>

InShutdown(fn) == shuttingDown /\ shutdown # <<>> /\ Head(shutdown) = fn

ShutdownFnReturns ==
    /\ shutdown' = Tail(shutdown)
    /\ UNCHANGED <<status, startup, initAt, initResult, inits, shuttingDown>>

ShutdownReturns ==
    /\ shuttingDown /\ shutdown = <<>>
    /\ shuttingDown' = FALSE
    /\ UNCHANGED <<status, startup, initAt, initResult, inits, shutdown>>
===============================================================================
