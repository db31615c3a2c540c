---------------------------- MODULE ProviderProofs ----------------------------
(***************************************************************************)
(* Theorems about Provider, for every value of the constants: what           *)
(* WatchHandlerProofs shows of the watchers holds when Init and Shutdown run  *)
(* beside them, and what Init has done when the provider says it is ready.   *)
(***************************************************************************)
EXTENDS Provider, WatchHandlerProofs

(* What a step of the provider may do to the watchers' variables that no     *)
(* step of the watch handler does: a failed load counts a fault, SetAll      *)
(* locks the cache, Shutdown closes the channel.                             *)
Beside ==
    /\ UNCHANGED <<storeVars, channel, wpc, try, doc, todo, cancelled, cache, history>>
    /\ faults' \in 0..MaxFaults
    /\ locked' \in BOOLEAN /\ closed' \in BOOLEAN /\ crashed' \in BOOLEAN

LEMMA ProviderSteps ==
  ASSUME LoopInv, [PNext]_pvars
  PROVE  [Next]_vars \/ Beside
<1>0. TypeOK
  BY DEF LoopInv
<1>1. CASE InitCalled \/ LoadFlags \/ SetAllNothing \/ InitDone \/ ShutdownCalled \/ ShutdownDone
  BY <1>1 DEF InitCalled, LoadFlags, SetAllNothing, InitDone, ShutdownCalled, ShutdownDone
<1>2. CASE StartWatch
  BY <1>2 DEF StartWatch, Next
<1>3. CASE LoadFails
  <2>1. faults' \in 0..MaxFaults
    BY <1>0, <1>3, WatchAssumption DEF LoadFails, TypeOK
  <2> QED
    BY <1>0, <1>3, <2>1 DEF LoadFails, TypeOK, EventTypeOK, eventVars, Beside
<1>4. CASE SetAllWedges
  BY <1>0, <1>4 DEF SetAllWedges, TypeOK, EventTypeOK, eventVars, watchVars, Beside
<1>5. CASE CloseEvents
  BY <1>0, <1>5 DEF CloseEvents, Close, Panic, TypeOK, EventTypeOK, watchVars, Beside
<1>6. CASE CloseWatch
  <2>1. CASE cancelled
    BY <1>6, <2>1 DEF CloseWatch, Cancel, vars, watchVars
  <2>2. CASE ~cancelled
    BY <1>6, <2>2 DEF CloseWatch, Next
  <2> QED
    BY <2>1, <2>2
<1>7. CASE Outside
  BY <1>7 DEF Outside, Next
<1>8. CASE \E w \in Watchers : Watching(w)
  BY <1>8 DEF Watching, Next
<1>9. CASE UNCHANGED pvars
  BY <1>9 DEF pvars
<1> QED
  BY <1>1, <1>2, <1>3, <1>4, <1>5, <1>6, <1>7, <1>8, <1>9 DEF PNext, Initialising, Stopping

LEMMA BesideLoops ==
  ASSUME LoopInv, Beside
  PROVE  LoopInv'
<1>1. TypeOK'
  <2>1. StoreTypeOK'
    BY DEF LoopInv, TypeOK, StoreTypeOK, Beside, storeVars, dbVars
  <2>2. EventTypeOK'
    BY DEF LoopInv, TypeOK, EventTypeOK, Beside
  <2> QED
    BY <2>1, <2>2 DEF LoopInv, TypeOK, Beside, history
<1> QED
  BY <1>1 DEF LoopInv, FeedShape, ClosedIsEmpty, NoStreamLeaks, InLoop, Streaming, Beside,
     storeVars, dbVars

LEMMA ProviderLoops ==
  ASSUME LoopInv, [PNext]_pvars
  PROVE  LoopInv'
BY ProviderSteps, BesideLoops, LoopNext

LEMMA ProviderLoopInvariant == PSpec => []LoopInv
<1>1. PInit => LoopInv
  BY LoopStart DEF PInit
<1>2. LoopInv /\ [PNext]_pvars => LoopInv'
  BY ProviderLoops
<1> QED
  BY <1>1, <1>2, PTL DEF PSpec

(* A change stream is open exactly while its attempt runs, also when Init    *)
(* is repeated and Shutdown runs at any moment (changestream.go:37,          *)
(* mongoprovider.go:62-68).                                                  *)
THEOREM ProviderClosesStreams == PSpec => []NoStreamLeaks
<1>1. LoopInv => NoStreamLeaks
  BY DEF LoopInv
<1> QED
  BY <1>1, ProviderLoopInvariant, PTL

-------------------------------------------------------------------------------
(* The cache *)

LEMMA ProviderOrder ==
  ASSUME OneActive, OneActive', OrderInv, [PNext]_pvars
  PROVE  OrderInv'
<1>1. LoopInv /\ LoopInv'
  BY ProviderLoops DEF OrderInv
<1>2. CASE [Next]_vars
  BY <1>2, OrderNext
<1>3. CASE Beside
  <2>1. Quiet
    BY <1>3 DEF Beside, Quiet, Ending, storeVars, dbVars, history
  <2> QED
    BY <1>1, <2>1, QuietOrder
<1> QED
  BY <1>1, <1>2, <1>3, ProviderSteps

LEMMA ProviderMisses ==
  ASSUME OneActive, OneActive', MissInv, [PNext]_pvars
  PROVE  MissInv'
<1>1. LoopInv /\ OrderInv'
  BY ProviderOrder DEF MissInv, OrderInv
<1>2. CASE [Next]_vars
  BY <1>2, MissNext
<1>3. CASE Beside
  <2>1. Leaves
    BY <1>3 DEF Beside, Leaves, storeVars, dbVars, history
  <2> QED
    BY <1>1, <2>1, LeavesAll
<1> QED
  BY <1>1, <1>2, <1>3, ProviderSteps

LEMMA ProviderContent ==
  ASSUME OneActive, OneActive', ContentInv, [PNext]_pvars
  PROVE  ContentInv'
<1>1. LoopInv /\ LoopInv'
  BY ProviderLoops DEF ContentInv
<1>2. CASE [Next]_vars
  BY <1>2, ContentNext
<1>3. CASE Beside
  BY <1>1, <1>3 DEF Beside, ContentInv, SeenBefore, Holds, storeVars, dbVars, history
<1> QED
  BY <1>1, <1>2, <1>3, ProviderSteps

(* As long as Init's repetitions leave one watcher running at a time, the    *)
(* provider's cache never goes back, whatever Init's load, SetAll and        *)
(* Shutdown do meanwhile (mongoprovider.go:62-85, statehandler.go:23-36).    *)
THEOREM ProviderGoesForward == PSpec /\ []OneActive => []CacheNeverRegresses
<1>1. PInit => OrderInv
  BY OrderStart DEF PInit
<1>2. OneActive /\ OneActive' /\ OrderInv /\ [PNext]_pvars => OrderInv'
  BY ProviderOrder
<1>3. OrderInv => CacheNeverRegresses
  BY DEF OrderInv
<1> QED
  BY <1>1, <1>2, <1>3, PTL DEF PSpec

(* Under the same condition a provider misses no definition that is written  *)
(* while its stream is open (mongoprovider.go:62-85, changestream.go:39-51). *)
THEOREM ProviderMissesNothing == PSpec /\ []OneActive => []NothingMissed
<1>1. PInit => MissInv
  BY MissStart DEF PInit
<1>2. OneActive /\ OneActive' /\ MissInv /\ [PNext]_pvars => MissInv'
  BY ProviderMisses
<1> QED
  BY <1>1, <1>2, MissIsEnough, PTL DEF PSpec

(* Under the same condition its cache is one content of the single document  *)
(* (mongoprovider.go:62-85, event.go:30-36).                                 *)
THEOREM ProviderShowsOneContent == PSpec /\ []OneActive => []CacheIsOneDocument
<1>1. PInit => ContentInv
  BY ContentStart DEF PInit
<1>2. OneActive /\ OneActive' /\ ContentInv /\ [PNext]_pvars => ContentInv'
  BY ProviderContent
<1> QED
  BY <1>1, <1>2, ContentIsEnough, PTL DEF PSpec

-------------------------------------------------------------------------------
(* Init and Shutdown *)

(* What no step of the watch handler does: lock the cache or change one that *)
(* is locked, close the channel, take a watcher's start back, open a stream  *)
(* after Close.                                                              *)
Keeps ==
    /\ UNCHANGED <<locked, closed>>
    /\ locked => UNCHANGED cache
    /\ \A w \in Watchers : wpc[w] # "none" => wpc'[w] # "none"
    /\ cancelled => cancelled' /\ open' \subseteq open

LEMMA WatchersKeep ==
  ASSUME TypeOK, NEW w \in Watchers, Start(w) \/ Watch(w)
  PROVE  Keeps
<1> USE DEF TypeOK, StoreTypeOK
<1>1. CASE Start(w)
  BY <1>1 DEF Start, Goto, Keeps, storeVars, eventVars
<1>2. CASE OpenStream(w)
  BY <1>2 DEF OpenStream, Goto, Keeps, eventVars
<1>3. CASE OpenFails(w)
  BY <1>3 DEF OpenFails, NextTry, Goto, Keeps, storeVars, eventVars
<1>4. CASE Next_(w)
  BY <1>4 DEF Next_, Goto, Keeps, eventVars
<1>5. CASE StreamFails(w)
  BY <1>5 DEF StreamFails, NextTry, Goto, Closed, Keeps, eventVars
<1>6. CASE StreamEnds(w)
  BY <1>6 DEF StreamEnds, Goto, Closed, Keeps, eventVars
<1>7. CASE Poll(w)
  BY <1>7 DEF Poll, Goto, Keeps, storeVars, eventVars
<1>8. CASE PollFails(w)
  BY <1>8 DEF PollFails, NextTry, Goto, Keeps, storeVars, eventVars
<1>9. CASE PollCancelled(w)
  BY <1>9 DEF PollCancelled, Goto, Keeps, storeVars, eventVars
<1>10. CASE PublishChange(w)
  BY <1>10 DEF PublishChange, Publish, Send, Drop, Panic, Goto, Keeps, storeVars, eventVars
<1>11. CASE HandlingFails(w)
  BY <1>11 DEF HandlingFails, Fail, NextTry, Closed, Goto, Keeps, eventVars
<1>12. CASE HandleClear(w)
  BY <1>12 DEF HandleClear, Goto, Keeps, storeVars, eventVars
<1>13. CASE HandleSet(w)
  BY <1>13 DEF HandleSet, CacheSet, Keeps, storeVars, eventVars
<1>14. CASE Handled(w)
  BY <1>14 DEF Handled, Resume, Goto, Keeps, storeVars, eventVars
<1>15. CASE HandleAll(w)
  BY <1>15 DEF HandleAll, CacheSet, Resume, Goto, Keeps, storeVars, eventVars
<1>16. CASE GiveUp(w)
  BY <1>16 DEF GiveUp, BPublish, Send, Panic, Goto, Keeps, storeVars
<1> QED
  BY <1>1, <1>2, <1>3, <1>4, <1>5, <1>6, <1>7, <1>8, <1>9, <1>10, <1>11, <1>12, <1>13, <1>14, <1>15, <1>16
  DEF Watch, HandleMissing, HandleSetFails, HandleAllFails

LEMMA HandlerKeeps ==
  ASSUME LoopInv, [Next]_vars
  PROVE  Keeps
<1>1. CASE Environment
  <2>1. open' \subseteq open
    BY <1>1, StoreSteps DEF Environment, StoreStep, LoopInv, storeVars
  <2> QED
    BY <1>1, <2>1 DEF Environment, Receive, Keeps, eventVars, watchVars
<1>2. CASE Cancel \/ UNCHANGED vars
  BY <1>2 DEF Cancel, vars, watchVars, storeVars, eventVars, Keeps
<1>3. ASSUME NEW w \in Watchers, ServerLooksUp(w) PROVE Keeps
  BY <1>3 DEF ServerLooksUp, LookUp, watchVars, eventVars, Keeps
<1> QED
  BY <1>1, <1>2, <1>3, WatchersKeep DEF Next, LoopInv

(* Where Init is tells what has been done: past its first function a watcher *)
(* has been started, SetAll has wedged only in the second, and the provider  *)
(* is ready only when both have returned.                                    *)
InitInv ==
    /\ StateTypeOK /\ loaded \in Docs \cup {NoDoc} /\ initAt \in 0..3
    /\ status = "notReady" => startup = StartupOrder
    /\ status = "ready" => startup = <<>> /\ initAt = 0
    /\ initAt \in {2, 3} \/ status = "ready" => \E w \in Watchers : wpc[w] # "none"
    /\ locked => initAt = 2 /\ loaded # NoDoc

LEMMA Stages ==
    /\ Len(StartupOrder) = 2 /\ StartupOrder[1] = "watch" /\ StartupOrder[2] = "load"
    /\ DOMAIN StartupOrder = 1..2 /\ Len(<<>>) = 0 /\ StartupOrder # <<>>
BY DEF StartupOrder

LEMMA InitStarts == PInit => InitInv
<1> SUFFICES ASSUME PInit PROVE InitInv
  OBVIOUS
<1>1. /\ status = "notReady" /\ startup = StartupOrder /\ initAt = 0 /\ initResult = "none"
      /\ inits = 0 /\ shuttingDown = FALSE /\ loaded = NoDoc /\ locked = FALSE
  BY WiringAssumption DEF PInit, StateInit, WatchInit
<1>2. 0 \in 0..Len(startup) + 1 /\ 0 \in 0..MaxInits
  BY <1>1, Stages, InitsAssumption
<1>3. StateTypeOK
  BY <1>1, <1>2, WiringAssumption DEF StateTypeOK, Results
<1> QED
  BY <1>1, <1>3 DEF InitInv

(* The steps of Init.                                                        *)
LEMMA InitSteps ==
  ASSUME InitInv, TypeOK, InitCalled \/ Initialising
  PROVE  InitInv'
<1> USE DEF InitInv
<1>0. startup \in {StartupOrder, <<>>} /\ Startup = StartupOrder
  BY WiringAssumption DEF StateTypeOK
<1>1. CASE InitCalled
  <2>1. StateTypeOK'
    BY <1>0, <1>1, Stages, InitsAssumption DEF InitCalled, CallInit, StateTypeOK, Results
  <2> QED
    BY <1>1, <2>1 DEF InitCalled, CallInit, vars, watchVars, StateTypeOK
<1>2. CASE StartWatch
  <2>1. initAt = 1 /\ initAt' = 2 /\ startup = StartupOrder
    BY <1>0, <1>2, Stages DEF StartWatch, InStartup, StartupSucceeds
  <2>2. StateTypeOK'
    BY <1>2, <2>1, Stages DEF StartWatch, StartupSucceeds, StateTypeOK
  <2>3. \E w \in Watchers : wpc'[w] # "none"
    BY <1>2 DEF StartWatch, Start, Goto, TypeOK
  <2>4. UNCHANGED locked
    BY <1>2 DEF StartWatch, Start
  <2> QED
    BY <1>2, <2>1, <2>2, <2>3, <2>4 DEF StartWatch, StartupSucceeds
<1>3. CASE LoadFlags
  <2>1. loaded' \in Docs
    BY <1>3, DocumentHasAll DEF LoadFlags, TypeOK, StoreTypeOK
  <2> QED
    BY <1>3, <2>1, NoDocAssumption DEF LoadFlags, StateTypeOK, stateVars, vars, watchVars
<1>4. CASE LoadFails
  <2>1. /\ initAt' = 0 /\ initResult' = "error"
        /\ UNCHANGED <<status, startup, inits, shutdown, shuttingDown, wpc, locked, loaded>>
    BY <1>4 DEF LoadFails, StartupFails
  <2>2. status = "notReady" /\ ~locked
    BY <1>0, <1>4, Stages DEF LoadFails, InStartup, StateTypeOK
  <2>3. StateTypeOK'
    BY <1>0, <2>1, Stages DEF StateTypeOK, Results
  <2> QED
    BY <2>1, <2>2, <2>3
<1>5. CASE SetAllNothing
  <2>1. initAt = 2 /\ initAt' = 3 /\ startup = StartupOrder
    BY <1>0, <1>5, Stages DEF SetAllNothing, InStartup, StartupSucceeds
  <2>2. StateTypeOK'
    BY <1>5, <2>1, Stages DEF SetAllNothing, StartupSucceeds, StateTypeOK
  <2> QED
    BY <1>5, <2>1, <2>2 DEF SetAllNothing, StartupSucceeds, vars, watchVars
<1>6. CASE SetAllWedges
  <2>1. initAt = 2
    BY <1>0, <1>6, Stages DEF SetAllWedges, InStartup
  <2> QED
    BY <1>6, <2>1 DEF SetAllWedges, StateTypeOK, stateVars, watchVars
<1>7. CASE InitDone
  <2>1. /\ startup' = <<>> /\ status' = "ready" /\ initAt' = 0 /\ initResult' = "ok"
        /\ UNCHANGED <<inits, shutdown, shuttingDown, wpc, locked, loaded>>
    BY <1>7 DEF InitDone, InitReturns, vars, watchVars
  <2>0. initAt = Len(startup) + 1
    BY <1>7 DEF InitDone, InitReturns
  <2>a. status = "notReady"
    BY <2>0, Stages DEF StateTypeOK
  <2>b. startup = StartupOrder
    BY <2>a
  <2>2. initAt = 3
    BY <2>0, <2>b, Stages
  <2>3. StateTypeOK'
    <3>1. startup' \in {Startup, <<>>} /\ initAt' \in 0..Len(startup') + 1
      BY <2>1, Stages
    <3> QED
      BY <2>1, <3>1 DEF StateTypeOK, Results
  <2>4. \E w \in Watchers : wpc'[w] # "none"
    BY <2>1, <2>2
  <2> QED
    BY <2>1, <2>2, <2>3, <2>4
<1> QED
  BY <1>1, <1>2, <1>3, <1>4, <1>5, <1>6, <1>7 DEF Initialising

LEMMA InitNext ==
  ASSUME InitInv, LoopInv, [PNext]_pvars
  PROVE  InitInv'
<1>1. CASE InitCalled \/ Initialising
  BY <1>1, InitSteps DEF LoopInv
<1>2. CASE \/ ShutdownCalled \/ Stopping \/ Outside
           \/ (\E w \in Watchers : Watching(w)) \/ UNCHANGED pvars
  <2>1. /\ UNCHANGED <<status, startup, initAt, initResult, inits, loaded>>
        /\ shuttingDown' \in BOOLEAN
    BY <1>2 DEF ShutdownCalled, CallShutdown, Stopping, CloseEvents, CloseWatch, ShutdownDone,
       ShutdownFnReturns, ShutdownReturns, Outside, Watching, pvars, stateVars, InitInv, StateTypeOK
  <2>2. UNCHANGED locked /\ \A w \in Watchers : wpc[w] # "none" => wpc'[w] # "none"
    <3>1. CASE CloseEvents
      BY <3>1 DEF CloseEvents, watchVars
    <3>2. CASE ~CloseEvents
      <4>1. CASE CloseWatch
        BY <4>1 DEF CloseWatch, Cancel
      <4>2. CASE ~CloseWatch
        <5>1. [Next]_vars
          BY <1>2, <3>2, <4>2 DEF ShutdownCalled, Stopping, ShutdownDone, Outside, Watching, pvars, Next
        <5> QED
          BY <5>1, HandlerKeeps DEF Keeps
      <4> QED
        BY <4>1, <4>2
    <3> QED
      BY <3>1, <3>2
  <2> QED
    BY <2>1, <2>2 DEF InitInv, StateTypeOK
<1> QED
  BY <1>1, <1>2 DEF PNext

(* The variables of the provider have their types, the watchers' included.   *)
THEOREM ProviderTypes == PSpec => []PTypeOK
<1>1. InitInv /\ LoopInv /\ [PNext]_pvars => InitInv'
  BY InitNext
<1>2. InitInv /\ LoopInv => PTypeOK
  BY DEF InitInv, LoopInv, PTypeOK
<1> QED
  BY <1>1, <1>2, InitStarts, ProviderLoopInvariant, PTL DEF PSpec

(* A provider that says it is ready has a watcher that was started for it,   *)
(* and its cache is not locked for ever, also when an Init has failed before *)
(* (mongoprovider.go:64-85, statehandler.go:23-36).                          *)
THEOREM ReadyMeansWatched == PSpec => []ReadyIsWatched
<1>1. InitInv /\ LoopInv /\ [PNext]_pvars => InitInv'
  BY InitNext
<1>2. InitInv => ReadyIsWatched
  BY DEF InitInv, ReadyIsWatched
<1> QED
  BY <1>1, <1>2, InitStarts, ProviderLoopInvariant, PTL DEF PSpec

(* Once SetAll has locked the cache, it stays locked and as it is, and Init  *)
(* stays where it is: neither the watcher, nor Shutdown, nor another failure *)
(* helps (cache.go:59, mongoprovider.go:80).                                 *)
WedgeIsForEver == locked => locked' /\ UNCHANGED <<cache, initAt, status>>

LEMMA WedgedStays ==
  ASSUME InitInv, LoopInv, [PNext]_pvars
  PROVE  WedgeIsForEver
<1> SUFFICES ASSUME locked PROVE locked' /\ UNCHANGED <<cache, initAt, status>>
  BY DEF WedgeIsForEver
<1>1. initAt = 2 /\ loaded # NoDoc /\ status = "notReady"
  BY DEF InitInv, StateTypeOK
<1>2. startup = StartupOrder
  BY <1>1 DEF InitInv
<1>3. ~(InitCalled \/ Initialising)
  <2>1. initAt # 0 /\ initAt # Len(startup) + 1
    BY <1>1, <1>2, Stages
  <2>2. ~InStartup("watch")
    BY <1>1, <1>2, Stages DEF InStartup
  <2> QED
    BY <1>1, <2>1, <2>2 DEF InitCalled, CallInit, Initialising, StartWatch, LoadFlags, LoadFails,
       SetAllNothing, SetAllWedges, InitDone, InitReturns
<1>4. UNCHANGED <<initAt, status>>
  BY <1>3 DEF PNext, ShutdownCalled, CallShutdown, Stopping, CloseEvents, CloseWatch, ShutdownDone,
     ShutdownFnReturns, ShutdownReturns, Outside, Watching, pvars, stateVars
<1>5. CASE [Next]_vars
  BY <1>4, <1>5, HandlerKeeps DEF Keeps
<1>6. CASE CloseEvents
  BY <1>4, <1>6 DEF CloseEvents
<1>7. CASE CloseWatch
  BY <1>4, <1>7 DEF CloseWatch, Cancel
<1> QED
  BY <1>3, <1>5, <1>6, <1>7 DEF PNext, ShutdownCalled, Stopping, ShutdownDone, Outside, Watching, pvars, Next

(* A provider whose SetAll has locked its cache is locked for good, whoever  *)
(* watches, writes or shuts down (cache.go:59, mongoprovider.go:80).         *)
THEOREM NothingFreesTheCache == PSpec => [][WedgeIsForEver]_pvars
<1>1. InitInv /\ LoopInv /\ [PNext]_pvars => InitInv'
  BY InitNext
<1>2. InitInv /\ LoopInv /\ [PNext]_pvars => WedgeIsForEver
  BY WedgedStays
<1> QED
  BY <1>1, <1>2, InitStarts, ProviderLoopInvariant, PTL DEF PSpec

(* Shutdown runs its two functions once each and in their order: the channel *)
(* is closed before the watchers are told, which is why one of them can      *)
(* still publish on it.  It never closes the channel twice, and it is never  *)
(* Shutdown itself that panics (mongoprovider.go:62-68).                     *)
ShutdownInv ==
    /\ shutdown \in {ShutdownOrder, <<"closeWatch">>, <<>>}
    /\ closed <=> shutdown # ShutdownOrder
    /\ cancelled <=> shutdown = <<>>

ShutdownGoesOn == CloseEvents \/ CloseWatch => UNCHANGED crashed

LEMMA Endings ==
    /\ Head(ShutdownOrder) = "closeEvents" /\ Tail(ShutdownOrder) = <<"closeWatch">>
    /\ Head(<<"closeWatch">>) = "closeWatch" /\ Tail(<<"closeWatch">>) = <<>>
    /\ ShutdownOrder # <<>> /\ ShutdownOrder # <<"closeWatch">> /\ <<"closeWatch">> # <<>>
BY DEF ShutdownOrder

LEMMA WatchersDoNotCancel ==
  ASSUME NEW w \in Watchers, Start(w) \/ Watch(w)
  PROVE  UNCHANGED cancelled
BY DEF Start, Watch, OpenStream, OpenFails, Fault, Next_, StreamFails, StreamEnds, Poll, PollFails, PollCancelled,
   PublishChange, HandleMissing, HandlingFails, HandleClear, HandleSet, HandleSetFails, Handled,
   HandleAll, HandleAllFails, GiveUp

LEMMA ShutdownStarts == PInit => ShutdownInv
BY WiringAssumption, Endings DEF PInit, StateInit, WatchInit, EventInit, ShutdownInv

LEMMA ShutdownNext ==
  ASSUME ShutdownInv, LoopInv, [PNext]_pvars
  PROVE  ShutdownInv' /\ ShutdownGoesOn
<1>1. CASE CloseEvents
  <2>1. shutdown = ShutdownOrder /\ ~closed
    BY <1>1, Endings DEF CloseEvents, InShutdown, ShutdownInv
  <2> QED
    BY <1>1, <2>1, Endings DEF CloseEvents, Close, ShutdownFnReturns, ShutdownInv, ShutdownGoesOn, watchVars
<1>2. CASE CloseWatch
  <2>1. shutdown = <<"closeWatch">>
    BY <1>2, Endings DEF CloseWatch, InShutdown, ShutdownInv
  <2> QED
    BY <1>2, <2>1, Endings DEF CloseWatch, Cancel, ShutdownFnReturns, ShutdownInv, ShutdownGoesOn, eventVars
<1>3. CASE ~(CloseEvents \/ CloseWatch)
  <2>1. UNCHANGED shutdown
    BY <1>3 DEF PNext, Initialising, InitCalled, CallInit, StartWatch, LoadFlags, LoadFails, SetAllNothing,
       SetAllWedges, InitDone, InitReturns, StartupSucceeds, StartupFails, ShutdownCalled, CallShutdown,
       Stopping, ShutdownDone, ShutdownReturns, Outside, Watching, pvars, stateVars
  <2>2. UNCHANGED <<closed, cancelled>>
    <3>1. CASE LoadFails \/ SetAllWedges
      BY <3>1 DEF LoadFails, SetAllWedges, eventVars, watchVars
    <3>2. CASE ~(LoadFails \/ SetAllWedges)
      <4>1. \/ UNCHANGED vars \/ Environment
            \/ \E w \in Watchers : Start(w) \/ ServerLooksUp(w) \/ Watch(w)
        BY <1>3, <3>2 DEF PNext, Initialising, InitCalled, StartWatch, LoadFlags, SetAllNothing, InitDone,
           ShutdownCalled, Stopping, ShutdownDone, Outside, Watching, pvars
      <4>2. UNCHANGED cancelled
        BY <4>1, WatchersDoNotCancel DEF Environment, ServerLooksUp, vars, watchVars
      <4>3. UNCHANGED closed
        BY <4>1, HandlerKeeps DEF Keeps, Next
      <4> QED
        BY <4>2, <4>3
    <3> QED
      BY <3>1, <3>2
  <2> QED
    BY <1>3, <2>1, <2>2 DEF ShutdownInv, ShutdownGoesOn
<1> QED
  BY <1>1, <1>2, <1>3

(* Shutdown tells the watchers only when the channel is closed, it closes    *)
(* the channel once, and it is never Shutdown that panics                    *)
(* (mongoprovider.go:62-68, eventhandler.go:49).                             *)
THEOREM ShutdownIsInOrder == PSpec => [](cancelled => closed) /\ [][ShutdownGoesOn]_pvars
<1>1. ShutdownInv /\ LoopInv /\ [PNext]_pvars => ShutdownInv' /\ ShutdownGoesOn
  BY ShutdownNext
<1>2. ShutdownInv => (cancelled => closed)
  BY Endings DEF ShutdownInv
<1> QED
  BY <1>1, <1>2, ShutdownStarts, ProviderLoopInvariant, PTL DEF PSpec

(* What Shutdown leaves to the watchers.                                      *)
OnlyCloses == cancelled => cancelled' /\ open' \subseteq open

(* Once Shutdown has told the watchers, no stream is opened any more and the *)
(* ones that are open only close (changestream.go:33, watchhandler.go:93).   *)
THEOREM NothingOpensAfterShutdown == PSpec => [][OnlyCloses]_pvars
<1>1. LoopInv /\ [PNext]_pvars => OnlyCloses
  <2> SUFFICES ASSUME LoopInv, [PNext]_pvars PROVE OnlyCloses
    OBVIOUS
  <2>1. CASE [Next]_vars
    BY <2>1, HandlerKeeps DEF Keeps, OnlyCloses
  <2>2. CASE Beside
    BY <2>2 DEF Beside, OnlyCloses, storeVars
  <2> QED
    BY <2>1, <2>2, ProviderSteps
<1> QED
  BY <1>1, ProviderLoopInvariant, PTL DEF PSpec
===============================================================================
