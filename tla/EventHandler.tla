----------------------------- MODULE EventHandler -----------------------------
(***************************************************************************)
(* internal/eventhandler/eventhandler.go: a buffered Go channel of provider *)
(* events.  Sending on it once it is closed panics, which ends the program. *)
(***************************************************************************)
EXTENDS Integers, Sequences

CONSTANT Cap        \* eventChannelSize

ASSUME CapAssumption == Cap \in Nat \ {0}

VARIABLES
    channel,    \* h.eventCh: the events nobody has received yet
    closed,     \* it has been closed
    crashed     \* a goroutine has panicked

eventVars == <<channel, closed, crashed>>

EventTypes == {"configChange", "error"}

EventTypeOK ==
    /\ channel \in Seq(EventTypes) /\ Len(channel) <= Cap
    /\ closed \in BOOLEAN /\ crashed \in BOOLEAN

EventInit == channel = <<>> /\ closed = FALSE /\ crashed = FALSE

Panic == crashed' = TRUE /\ UNCHANGED <<channel, closed>>

Send(e) ==
    /\ ~closed /\ Len(channel) < Cap
    /\ channel' = Append(channel, e)
    /\ UNCHANGED <<closed, crashed>>

(* The dropped-event handler logs it.                                       *)
Drop ==
    /\ ~closed /\ Len(channel) >= Cap
    /\ UNCHANGED eventVars

(* Mutant: BPublish drops the event when the channel is full.               *)
BPublishDrops(e) == Send(e) \/ Drop \/ (closed /\ Panic)

(* Publish never waits, BPublish waits for room.                            *)
Publish(e) == Send(e) \/ Drop \/ (closed /\ Panic)
BPublish(e) == Send(e) \/ (closed /\ Panic)

Close ==
    /\ IF closed THEN Panic ELSE closed' = TRUE /\ UNCHANGED <<channel, crashed>>

(* The OpenFeature SDK receives from EventChannel.                          *)
Receive ==
    /\ channel # <<>>
    /\ channel' = Tail(channel)
    /\ UNCHANGED <<closed, crashed>>
===============================================================================
