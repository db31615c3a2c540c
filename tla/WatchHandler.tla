----------------------------- MODULE WatchHandler -----------------------------
(***************************************************************************)
(* internal/watchhandler: the goroutine that keeps the cache up to date.    *)
(* Watch makes MaxTries attempts at a change stream, then MaxTries attempts *)
(* at polling, then publishes a fatal error; an attempt ends with an error, *)
(* or for good when the handler is closed or the stream just ends.          *)
(*                                                                          *)
(* The cache's methods are atomic here, which FlagCache justifies; locked   *)
(* says that its lock is held for ever (FlagCache!Wedged).                  *)
(***************************************************************************)
EXTENDS FlagStore, EventHandler

CONSTANTS
    MaxTries,       \* opts.MaxTries
    MaxFaults       \* bound on the failures of the server and of the network

ASSUME WatchAssumption == MaxTries \in Nat \ {0} /\ MaxFaults \in Nat

VARIABLES
    cache,      \* the cached definition of each flag, 0 when there is none
    locked,     \* the cache's lock is never released
    wpc,        \* where each watcher is
    try,        \* its attempt: 1..MaxTries at the stream, then MaxTries at polling
    doc,        \* the event in its hands: event.FullDocument
    todo,       \* the keys of doc it has not set yet
    cancelled,  \* Close has cancelled the watchers' context
    faults      \* failures so far

(* History, read by the properties only.                                    *)
VARIABLES
    newest,     \* the newest definition of each flag that was ever in the cache
    since,      \* how many writes there were when each stream was opened
    images,     \* every content the single document has had
    reported,   \* the watchers that have published the fatal error
    replaced    \* the flags whose replacement by another program a stream has had

watchVars == <<wpc, try, doc, todo, cancelled, faults>>
history == <<newest, since, images, reported, replaced>>
vars == <<storeVars, eventVars, watchVars, cache, locked, history>>

WPC == {"none", "open", "next", "publish", "handle", "fill", "poll", "giveup", "done"}

TypeOK ==
    /\ StoreTypeOK /\ EventTypeOK
    /\ cache \in [Flags -> Versions] /\ locked \in BOOLEAN
    /\ wpc \in [Watchers -> WPC]
    /\ try \in [Watchers -> 1..2 * MaxTries + 1]
    /\ doc \in [Watchers -> Docs \cup {NoDoc}]
    /\ todo \in [Watchers -> SUBSET Flags]
    /\ cancelled \in BOOLEAN /\ faults \in 0..MaxFaults
    /\ newest \in [Flags -> Versions] /\ since \in [Watchers -> Versions]
    /\ images \subseteq Docs /\ reported \subseteq Watchers /\ replaced \subseteq Flags

Empty == [f \in Flags |-> 0]

WatchInit ==
    /\ StoreInit /\ EventInit
    /\ cache = Empty /\ locked = FALSE
    /\ wpc = [w \in Watchers |-> "none"]
    /\ try = [w \in Watchers |-> 1]
    /\ doc = [w \in Watchers |-> NoDoc]
    /\ todo = [w \in Watchers |-> {}]
    /\ cancelled = FALSE /\ faults = 0
    /\ newest = Empty /\ since = [w \in Watchers |-> 0]
    /\ images = {Document(Empty)} /\ reported = {} /\ replaced = {}

-------------------------------------------------------------------------------
At(w, l)   == wpc[w] = l /\ ~crashed
Goto(w, l) == wpc' = [wpc EXCEPT ![w] = l]
Streaming(w) == try[w] <= MaxTries

(* The failure of an operation: the server's or the network's, or that of a *)
(* context that has been cancelled.                                         *)
Fault ==
    \/ cancelled /\ UNCHANGED faults
    \/ faults < MaxFaults /\ faults' = faults + 1

(* An attempt has returned an error: the next one of Watch's two loops, and *)
(* after the last one the end.                                              *)
NextTry(w) ==
    /\ try' = [try EXCEPT ![w] = @ + 1]
    /\ Goto(w, IF try[w] < MaxTries THEN "open"
               ELSE IF try[w] < 2 * MaxTries THEN "poll" ELSE "giveup")

(* go w.Watch()                                                             *)
Start(w) ==
    /\ At(w, "none")
    /\ Goto(w, "open")
    /\ UNCHANGED <<storeVars, eventVars, try, doc, todo, cancelled, faults, cache, locked, history>>

-------------------------------------------------------------------------------
(* changestream() *)

OpenStream(w) ==
    /\ At(w, "open") /\ ~cancelled
    /\ open' = open \cup {w}
    /\ since' = [since EXCEPT ![w] = writes]
    /\ Goto(w, "next")
    /\ UNCHANGED <<dbVars, feed, eventVars, try, doc, todo, cancelled, faults,
                   cache, locked, newest, images, reported, replaced>>

(* A server that is no replica set fails every time.                        *)
OpenFails(w) ==
    /\ At(w, "open") /\ Fault
    /\ NextTry(w)
    /\ UNCHANGED <<storeVars, eventVars, doc, todo, cancelled, cache, locked, history>>

ServerLooksUp(w) ==
    /\ LookUp(w)
    /\ UNCHANGED <<eventVars, watchVars, cache, locked, history>>

(* Mutant: events are handled out of order, the newest first.               *)
NextNewest(w) ==
    /\ At(w, "next") /\ feed[w] # <<>>
    /\ LET e == feed[w][Len(feed[w])]
       IN  e.op # "invalidate" /\ e.doc # Unread /\ doc' = [doc EXCEPT ![w] = e.doc]
    /\ feed' = [feed EXCEPT ![w] = SubSeq(@, 1, Len(@) - 1)]
    /\ Goto(w, "publish")
    /\ UNCHANGED <<dbVars, open, eventVars, try, todo, cancelled, faults,
                   cache, locked, history>>

(* cs.Next hands out the next event, and it is decoded.                     *)
Next_(w) ==
    /\ At(w, "next") /\ feed[w] # <<>>
    /\ Head(feed[w]).op # "invalidate" /\ Head(feed[w]).doc # Unread
    /\ doc' = [doc EXCEPT ![w] = Head(feed[w]).doc]
    /\ feed' = [feed EXCEPT ![w] = Tail(@)]
    /\ Goto(w, "publish")
    /\ UNCHANGED <<dbVars, open, eventVars, try, todo, cancelled, faults,
                   cache, locked, history>>

(* Mutants: the stream is not closed when its attempt fails; cs.Err is not  *)
(* looked at.                                                               *)
StreamFailsOpen(w) ==
    /\ At(w, "next") /\ Fault
    /\ NextTry(w)
    /\ UNCHANGED <<storeVars, eventVars, doc, todo, cancelled, cache, locked, history>>

(* cs.Next returns false and cs.Err an error.                               *)
StreamFails(w) ==
    /\ At(w, "next") /\ Fault
    /\ NextTry(w) /\ Closed(w)
    /\ UNCHANGED <<dbVars, eventVars, doc, todo, cancelled, cache, locked, history>>

(* cs.Next returns false and there is no error: the server has closed the   *)
(* stream of a dropped collection.  Watch takes it for success.             *)
StreamEnds(w) ==
    /\ At(w, "next") /\ feed[w] # <<>> /\ Head(feed[w]).op = "invalidate"
    /\ Goto(w, "done") /\ Closed(w)
    /\ UNCHANGED <<dbVars, eventVars, try, doc, todo, cancelled, faults,
                   cache, locked, history>>

-------------------------------------------------------------------------------
(* polling() *)

(* The ticker has fired and FindOne has answered.                           *)
Poll(w) ==
    /\ At(w, "poll") /\ ~cancelled
    /\ \E d \in FindOne : doc' = [doc EXCEPT ![w] = d]
    /\ Goto(w, "publish")
    /\ UNCHANGED <<storeVars, eventVars, try, todo, cancelled, faults, cache, locked, history>>

PollFails(w) ==
    /\ At(w, "poll") /\ Fault
    /\ NextTry(w)
    /\ UNCHANGED <<storeVars, eventVars, doc, todo, cancelled, cache, locked, history>>

PollCancelled(w) ==
    /\ At(w, "poll") /\ cancelled
    /\ Goto(w, "done")
    /\ UNCHANGED <<storeVars, eventVars, try, doc, todo, cancelled, faults, cache, locked, history>>

-------------------------------------------------------------------------------
(* handleEvent *)

PublishChange(w) ==
    /\ At(w, "publish")
    /\ Publish("configChange")
    /\ Goto(w, "handle")
    /\ UNCHANGED <<storeVars, try, doc, todo, cancelled, faults, cache, locked, history>>

(* The handler has returned: back to the loop it was called from.           *)
Resume(w) == Goto(w, IF Streaming(w) THEN "next" ELSE "poll")

(* It has returned an error: the stream's attempt is over, polling ignores  *)
(* it.                                                                      *)
Fail(w) == IF Streaming(w) THEN NextTry(w) /\ Closed(w)
           ELSE Goto(w, "poll") /\ UNCHANGED <<try, open, feed>>

HandlingFails(w) ==
    /\ Fail(w)
    /\ todo' = [todo EXCEPT ![w] = {}]
    /\ doc' = [doc EXCEPT ![w] = NoDoc]
    /\ UNCHANGED <<dbVars, eventVars, cancelled, faults, cache, locked, history>>

(* No document, or none with an _id: a delete, an update whose document is  *)
(* gone, a poll that found nothing.                                         *)
HandleMissing(w) ==
    /\ At(w, "handle") /\ doc[w] = NoDoc
    /\ HandlingFails(w)

(* The cache's Set of flag f: bound to fail when the definition is          *)
(* malformed.                                                               *)
CacheSet(f, v) ==
    /\ ~locked /\ v \notin BadWrites
    /\ cache' = [cache EXCEPT ![f] = v]
    /\ newest' = [newest EXCEPT ![f] = IF v > @ THEN v ELSE @]

(* Mutant: the fields are set without Clear.                                *)
HandleKeepsOld(w) ==
    /\ single /\ At(w, "handle") /\ doc[w] # NoDoc
    /\ ~locked
    /\ todo' = [todo EXCEPT ![w] = DOMAIN doc[w]]
    /\ Goto(w, "fill")
    /\ UNCHANGED <<storeVars, eventVars, try, doc, cancelled, faults, cache, locked, history>>

(* handleEventSingleDocument: Clear ...                                  *)
HandleClear(w) ==
    /\ single /\ At(w, "handle") /\ doc[w] # NoDoc
    /\ ~locked
    /\ cache' = Empty
    /\ todo' = [todo EXCEPT ![w] = DOMAIN doc[w]]
    /\ Goto(w, "fill")
    /\ UNCHANGED <<storeVars, eventVars, try, doc, cancelled, faults, locked, history>>

(* ... and Set for every field, in the map's order.                         *)
HandleSet(w) ==
    /\ At(w, "fill")
    /\ \E f \in todo[w] :
        /\ CacheSet(f, doc[w][f])
        /\ todo' = [todo EXCEPT ![w] = @ \ {f}]
    /\ UNCHANGED <<storeVars, eventVars, wpc, try, doc, cancelled, faults, locked,
                   since, images, reported, replaced>>

HandleSetFails(w) ==
    /\ At(w, "fill") /\ \E f \in todo[w] : doc[w][f] \in BadWrites
    /\ HandlingFails(w)

Handled(w) ==
    /\ At(w, "fill") /\ todo[w] = {}
    /\ doc' = [doc EXCEPT ![w] = NoDoc]
    /\ Resume(w)
    /\ UNCHANGED <<storeVars, eventVars, try, todo, cancelled, faults, cache, locked, history>>

(* handleEventAllDocuments: the document is one flag.                       *)
HandleAll(w) ==
    /\ ~single /\ At(w, "handle") /\ doc[w] # NoDoc
    /\ \E f \in DOMAIN doc[w] : CacheSet(f, doc[w][f])
    /\ doc' = [doc EXCEPT ![w] = NoDoc]
    /\ Resume(w)
    /\ UNCHANGED <<storeVars, eventVars, try, todo, cancelled, faults, locked,
                   since, images, reported, replaced>>

HandleAllFails(w) ==
    /\ ~single /\ At(w, "handle") /\ doc[w] # NoDoc
    /\ \E f \in DOMAIN doc[w] : doc[w][f] \in BadWrites
    /\ HandlingFails(w)

-------------------------------------------------------------------------------
(* The end of Watch: the fatal error, which waits for room in the channel.  *)
GiveUp(w) ==
    /\ At(w, "giveup")
    /\ BPublish("error")
    /\ Goto(w, "done")
    /\ reported' = IF channel' = channel THEN reported ELSE reported \cup {w}
    /\ UNCHANGED <<storeVars, try, doc, todo, cancelled, faults, cache, locked,
                   newest, since, images, replaced>>

(* WatchHandler.Close                                                       *)
Cancel ==
    /\ cancelled' = TRUE
    /\ UNCHANGED <<storeVars, eventVars, wpc, try, doc, todo, faults, cache, locked, history>>

(* The flags a stream has a "replace" event of.                              *)
Replaced == {f \in Flags : \E w \in open : \E i \in DOMAIN feed[w] :
    feed[w][i].op = "replace" /\ feed[w][i].flag = f}

(* The writes of others, and the SDK's receiver.                            *)
Environment ==
    \/ /\ StoreNext
       /\ images' = IF single THEN images \cup {Document(store')} ELSE images
       /\ replaced' = replaced \cup Replaced'
       /\ UNCHANGED <<eventVars, watchVars, cache, locked, newest, since, reported>>
    \/ /\ Receive /\ ~crashed
       /\ UNCHANGED <<storeVars, watchVars, cache, locked, history>>

Watch(w) ==
    \/ OpenStream(w) \/ OpenFails(w) \/ Next_(w) \/ StreamFails(w) \/ StreamEnds(w)
    \/ Poll(w) \/ PollFails(w) \/ PollCancelled(w)
    \/ PublishChange(w) \/ HandleMissing(w) \/ HandleClear(w) \/ HandleSet(w)
    \/ HandleSetFails(w) \/ Handled(w) \/ HandleAll(w) \/ HandleAllFails(w)
    \/ GiveUp(w)

-------------------------------------------------------------------------------
(* The handler on its own: whoever owns it may close it at any time.        *)
Next ==
    \/ Environment
    \/ \E w \in Watchers : Start(w) \/ ServerLooksUp(w) \/ Watch(w)
    \/ ~cancelled /\ Cancel

Spec == WatchInit /\ [][Next]_vars

(* A goroutine that can run does, the server answers, the SDK receives.     *)
(* Nothing has to fail: a failure, which is counted, is no step to wait for.*)
Runs(w) == Watch(w) /\ UNCHANGED faults

Fairness ==
    /\ \A w \in Watchers : WF_vars(Start(w)) /\ WF_vars(Runs(w)) /\ WF_vars(ServerLooksUp(w))
    /\ WF_vars(Receive /\ UNCHANGED <<storeVars, watchVars, cache, locked, history>>)

FairSpec == Spec /\ Fairness

-------------------------------------------------------------------------------
(* Properties *)

(* What the cache holds for a flag is never older than what it has held:    *)
(* one watcher hands it the definitions in the order they were stored, over *)
(* late lookups, reopened streams and the change to polling.  A replacement *)
(* by another program is the exception: its event carries its document, and *)
(* the lookup of an update before it may have been ahead of that            *)
(* (changestream.go:28, polling.go:43, event.go:54).                        *)
CacheNeverRegresses == \A f \in Flags :
    cache[f] \in {0, newest[f]} \/ (~single /\ f \in replaced)

Resting(w) == wpc[w] \in {"next", "poll"}

(* Single-document mode: the cache never mixes two contents of the document,*)
(* and at rest it is all of one, unless that one holds a malformed field    *)
(* (event.go:30-36).                                                        *)
CacheIsOneDocument == single =>
    \E d \in images :
        /\ \A f \in Flags : cache[f] # 0 => f \in DOMAIN d /\ cache[f] = d[f]
        /\ (\A w \in Watchers : Resting(w)) =>
               Document(cache) = d \/ \E f \in DOMAIN d : d[f] \in BadWrites

(* Multi-document mode: a definition written while a stream is open is in   *)
(* the cache, in the watcher's hands or in an event the stream still has to *)
(* hand out (changestream.go:39-51).                                        *)
NothingMissed == \A w \in open, f \in Flags :
    ~single /\ store[f] > since[w] =>
        \/ cache[f] = store[f]
        \/ wpc[w] \in {"publish", "handle"} /\ doc[w] = DocumentOf(f, store)
        \/ \E i \in DOMAIN feed[w] : feed[w][i].flag = f /\ feed[w][i].doc \in {Unread, DocumentOf(f, store)}

(* A stream is open exactly while its attempt runs: none is left open when  *)
(* the attempt has failed, and none is read after it (changestream.go:37).  *)
NoStreamLeaks == \A w \in Watchers :
    w \in open <=> Streaming(w) /\ wpc[w] \in {"next", "publish", "handle", "fill"}

(* Multi-document mode: a definition written while a stream is open reaches *)
(* the cache, unless it is replaced first or the stream is lost.            *)
StreamDelivers == \A w \in Watchers, f \in Flags, v \in 1..MaxWrites :
    (~single /\ w \in open /\ since[w] < v /\ store[f] = v)
        ~> (cache[f] = v \/ store[f] # v \/ w \notin open)

(* Polling a single document: its flags reach the cache, and leave it when  *)
(* they are deleted, as long as there is a document without a malformed     *)
(* field and the watcher polls (polling.go:33-43, event.go:30-36).          *)
Polling(w) == ~Streaming(w) /\ wpc[w] \notin {"giveup", "done"}
Sound      == live /\ \A f \in Flags : store[f] \notin BadWrites

PollingConverges == \A w \in Watchers, f \in Flags, v \in Versions :
    (single /\ Polling(w) /\ Sound /\ store[f] = v)
        ~> (cache[f] = v \/ store[f] # v \/ ~Sound \/ ~Polling(w))

(* A watcher that gives up says so: the fatal error gets into the channel.  *)
GivesUpAloud == \A w \in Watchers : wpc[w] = "giveup" ~> w \in reported

-------------------------------------------------------------------------------
(* What the documentation says of the handler, and the code does not do.    *)

(* README.md:96-97: once a flag has been set, "future calls to the flag     *)
(* will use the new definition" - when all flags share one document, too.   *)
SetFieldReachesCache == \A w \in Watchers, f \in Flags, v \in 1..MaxWrites :
    (w \in open /\ since[w] < v /\ store[f] = v)
        ~> (cache[f] = v \/ store[f] # v \/ w \notin open)
===============================================================================
