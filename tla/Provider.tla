------------------------------- MODULE Provider -------------------------------
(***************************************************************************)
(* src/mongoprovider/mongoprovider.go: New wires the cache, the event       *)
(* handler, the watch handler and the state handler together.  Init starts  *)
(* a watcher and then loads every flag into the cache; Shutdown closes the  *)
(* event channel and then the watch handler.                                *)
(***************************************************************************)
EXTENDS WatchHandler, StateHandler

VARIABLES
    loaded      \* what GetAllFlags has returned to Init

pvars == <<vars, stateVars, loaded>>

(* Mutant: the watch handler is not closed.                                 *)
ShutdownWithoutWatch == <<"closeEvents">>

(* The startup and the shutdown functions, in the order New registers them. *)
StartupOrder  == <<"watch", "load">>
ShutdownOrder == <<"closeEvents", "closeWatch">>

ASSUME WiringAssumption == Startup = StartupOrder /\ ShutdownFns = ShutdownOrder

PTypeOK ==
    /\ TypeOK /\ StateTypeOK
    /\ loaded \in Docs \cup {NoDoc}

PInit == WatchInit /\ StateInit /\ loaded = NoDoc

Program == ~crashed

InitCalled ==
    /\ Program /\ CallInit
    /\ UNCHANGED <<vars, loaded>>

(* Mutant: Watch is called without go.                                      *)
WatchInline ==
    /\ Program /\ InStartup("watch")
    /\ \/ \E w \in Watchers :
              /\ wpc[w] = "none" /\ \A v \in Watchers : wpc[v] \in {"none", "done"}
              /\ Start(w) /\ UNCHANGED stateVars
       \/ \E w \in Watchers : wpc[w] = "done" /\ StartupSucceeds /\ UNCHANGED vars
    /\ UNCHANGED loaded

(* Startup function 1: go watchHandler.Watch(), once more on every Init.    *)
StartWatch ==
    /\ Program /\ InStartup("watch")
    /\ \E w \in Watchers :
        /\ wpc[w] = "none"
        /\ Start(w)
    /\ StartupSucceeds
    /\ UNCHANGED loaded

Readable == \A f \in Flags : store[f] \notin BadWrites

(* Startup function 2: GetAllFlags ...                                      *)
LoadFlags ==
    /\ Program /\ InStartup("load") /\ loaded = NoDoc
    /\ Readable
    /\ loaded' = Document(store)
    /\ UNCHANGED <<vars, stateVars>>

(* ... which fails with the server, or on a definition it cannot decode ... *)
LoadFails ==
    /\ Program /\ InStartup("load") /\ loaded = NoDoc
    /\ faults < MaxFaults \/ ~Readable
    /\ faults' = IF Readable THEN faults + 1 ELSE faults
    /\ StartupFails
    /\ UNCHANGED <<storeVars, eventVars, wpc, try, doc, todo, cancelled, cache, locked, history, loaded>>

(* ... and SetAll, which never returns unless there is nothing to set.      *)
SetAllNothing ==
    /\ Program /\ InStartup("load") /\ loaded # NoDoc /\ DOMAIN loaded = {} /\ ~locked
    /\ loaded' = NoDoc
    /\ StartupSucceeds
    /\ UNCHANGED vars

SetAllWedges ==
    /\ Program /\ InStartup("load") /\ loaded # NoDoc /\ DOMAIN loaded # {} /\ ~locked
    /\ locked' = TRUE
    /\ UNCHANGED <<storeVars, eventVars, watchVars, cache, history, stateVars, loaded>>

InitDone ==
    /\ Program /\ InitReturns
    /\ UNCHANGED <<vars, loaded>>

-------------------------------------------------------------------------------
ShutdownCalled ==
    /\ Program /\ CallShutdown
    /\ UNCHANGED <<vars, loaded>>

(* Shutdown function 1: EventHandler.Close                                  *)
CloseEvents ==
    /\ Program /\ InShutdown("closeEvents")
    /\ Close
    /\ ShutdownFnReturns
    /\ UNCHANGED <<storeVars, watchVars, cache, locked, history, loaded>>

(* Shutdown function 2: watchHandler.Close                                  *)
CloseWatch ==
    /\ Program /\ InShutdown("closeWatch")
    /\ Cancel
    /\ ShutdownFnReturns
    /\ UNCHANGED loaded

ShutdownDone ==
    /\ Program /\ ShutdownReturns
    /\ UNCHANGED <<vars, loaded>>

-------------------------------------------------------------------------------
Initialising ==
    \/ StartWatch \/ LoadFlags \/ LoadFails \/ SetAllNothing \/ SetAllWedges \/ InitDone

Stopping == CloseEvents \/ CloseWatch \/ ShutdownDone

Outside == (Environment \/ \E w \in Watchers : ServerLooksUp(w)) /\ UNCHANGED <<stateVars, loaded>>
Watching(w) == Watch(w) /\ UNCHANGED <<stateVars, loaded>>

PNext ==
    \/ InitCalled \/ Initialising
    \/ ShutdownCalled \/ Stopping
    \/ Outside \/ \E w \in Watchers : Watching(w)

PSpec == PInit /\ [][PNext]_pvars

(* The goroutines of Init, Shutdown and the watchers run; so do the server  *)
(* and the receiver of the events.  Nobody has to call Init or Shutdown.    *)
PFairness ==
    /\ WF_pvars(Initialising) /\ WF_pvars(Stopping)
    /\ \A w \in Watchers : WF_pvars(Watching(w) /\ UNCHANGED faults) /\ WF_pvars(ServerLooksUp(w) /\ Outside)
    /\ WF_pvars(Receive /\ Outside)

PFairSpec == PSpec /\ PFairness

-------------------------------------------------------------------------------
(* Properties *)

(* Init returns, unless it loaded a flag: SetAll then never does            *)
(* (mongoprovider.go:80, cache.go:59).                                      *)
InitReturnsOrLocks == initAt # 0 ~> (initAt = 0 \/ locked \/ crashed)

(* A provider that has become ready with flags left to follow is followed:  *)
(* its cache can still change, and a watcher has been started for it        *)
(* (mongoprovider.go:64-85, statehandler.go:23-36).                         *)
ReadyIsWatched == status = "ready" => ~locked /\ \E w \in Watchers : wpc[w] # "none"

(* Shutdown ends every watcher that has been started, wherever it is: in a  *)
(* call of the server, between two attempts, waiting for room in the        *)
(* channel.  A cache that is locked for ever keeps it                       *)
(* (mongoprovider.go:62-68, watchhandler.go:93).                            *)
ShutdownStopsWatchers == \A w \in Watchers :
    (shutdown = <<>> /\ wpc[w] # "none") ~> (wpc[w] = "done" \/ crashed \/ locked)

-------------------------------------------------------------------------------
(* What the documentation says of the provider, and the code does not do.   *)

(* README.md:54-58: after SetProviderAndWait(provider) the client is used.  *)
InitReturnsToTheCaller == initAt # 0 ~> (initAt = 0 \/ crashed)

(* eventhandler.go:34-36: Publish publishes an event, or drops it when the  *)
(* channel is full.                                                         *)
PublishNeverPanics == ~crashed
===============================================================================
