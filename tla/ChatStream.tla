------------------------------ MODULE ChatStream ------------------------------
(***************************************************************************)
(* One turn of the editor's assistant: the goroutine that talks to the      *)
(* model and runs its tool calls (internal/editor/chat.go, runChatTurn),    *)
(* the session that buffers its events (internal/editor/streams.go), and    *)
(* the connections that replay the buffer and follow it (HandleChatStream). *)
(* An event is its type; the text of an event is nobody's business here.    *)
(***************************************************************************)
EXTENDS Integers, Sequences, FiniteSets

CONSTANTS
    Conns,          \* connections to /api/chat/stream
    MaxRounds,      \* maxAssistantToolRounds
    MaxChunks,      \* bound on the chunks of one answer that make an event
    MaxCalls        \* bound on the tool calls of one answer

ASSUME ChatAssumption ==
    MaxRounds \in Nat \ {0} /\ MaxChunks \in Nat /\ MaxCalls \in Nat

Terminal == {"done", "error"}
Kinds == {"message_start", "delta", "usage", "message_end", "tool_call", "tool_result"} \cup Terminal

VARIABLES
    turn,       \* where runChatTurn is
    round,      \* its round
    chunks,     \* the chunks it has passed on in this answer
    calls,      \* the tool calls of this answer it has still to run
    events,     \* s.events
    done,       \* s.done
    subs,       \* s.subs, by connection
    notify,     \* the connections whose channel holds a token
    expired,    \* s.ended is more than the registry's ttl ago
    known,      \* the registry still has the session
    conn,       \* where each connection is
    after,      \* how many events it has fetched
    batch,      \* the snapshot it is writing
    finished,   \* the done flag of that snapshot
    got         \* what its client has received

turnVars == <<turn, round, chunks, calls>>
sessVars == <<events, done, subs, notify>>
regVars  == <<expired, known>>
connVars == <<conn, after, batch, finished, got>>
vars == <<turnVars, sessVars, regVars, connVars>>

Turns == {"ask", "answer", "tools", "result", "over", "finished"}
ConnStates == {"away", "found", "snapshot", "write", "wait", "left", "served", "notFound"}

TypeOK ==
    /\ turn \in Turns
    /\ round \in 1..MaxRounds + 1 /\ chunks \in 0..MaxChunks /\ calls \in 0..MaxCalls
    /\ events \in Seq(Kinds) /\ done \in BOOLEAN
    /\ subs \subseteq Conns /\ notify \subseteq Conns
    /\ expired \in BOOLEAN /\ known \in BOOLEAN
    /\ conn \in [Conns -> ConnStates]
    /\ after \in [Conns -> Nat]
    /\ batch \in [Conns -> Seq(Kinds)] /\ got \in [Conns -> Seq(Kinds)]
    /\ finished \in [Conns -> BOOLEAN]

(* HandleChat has created the session and started the turn.                 *)
Init ==
    /\ turn = "ask" /\ round = 1 /\ chunks = 0 /\ calls = 0
    /\ events = <<>> /\ done = FALSE /\ subs = {} /\ notify = {}
    /\ expired = FALSE /\ known = TRUE
    /\ conn = [c \in Conns |-> "away"]
    /\ after = [c \in Conns |-> 0]
    /\ batch = [c \in Conns |-> <<>>]
    /\ finished = [c \in Conns |-> FALSE]
    /\ got = [c \in Conns |-> <<>>]

-------------------------------------------------------------------------------
(* streamSession *)

(* notifyLocked: a token into every subscribed channel that has none.       *)
NotifyAll == notify \cup subs

Emit(kind) ==
    /\ events' = Append(events, kind)
    /\ notify' = NotifyAll
    /\ UNCHANGED <<done, subs>>

(* Subscribe registers the channel and primes it.                           *)
Subscription(c) ==
    /\ subs' = subs \cup {c}
    /\ notify' = notify \cup {c}

(* Snapshot(after)                                                          *)
EventsFrom(n) == SubSeq(events, n + 1, Len(events))

-------------------------------------------------------------------------------
(* runChatTurn *)

(* Mutant: break instead of return.                                         *)
AskFailsBreaks ==
    /\ turn = "ask"
    /\ Emit("error")
    /\ turn' = "tools" /\ calls' = 0 /\ round' = MaxRounds + 1
    /\ UNCHANGED <<chunks, regVars, connVars>>

(* The request to the model fails: no answer, or not the right one.         *)
AskFails ==
    /\ turn = "ask"
    /\ Emit("error")
    /\ turn' = "over"
    /\ UNCHANGED <<round, chunks, calls, regVars, connVars>>

AnswerStarts ==
    /\ turn = "ask"
    /\ Emit("message_start")
    /\ turn' = "answer" /\ chunks' = 0
    /\ UNCHANGED <<round, calls, regVars, connVars>>

Chunk ==
    /\ turn = "answer" /\ chunks < MaxChunks
    /\ \E kind \in {"delta", "usage"} : Emit(kind)
    /\ chunks' = chunks + 1
    /\ UNCHANGED <<turn, round, calls, regVars, connVars>>

(* The model reports an error, or the connection to it breaks.              *)
AnswerBreaks ==
    /\ turn = "answer"
    /\ Emit("error")
    /\ turn' = "over"
    /\ UNCHANGED <<round, chunks, calls, regVars, connVars>>

(* The answer is complete, with the tool calls it asks for.                 *)
AnswerEnds ==
    /\ turn = "answer"
    /\ Emit("message_end")
    /\ turn' = "tools"
    /\ calls' \in 0..MaxCalls
    /\ round' = IF calls' = 0 THEN MaxRounds + 1 ELSE round + 1
    /\ UNCHANGED <<chunks, regVars, connVars>>

ToolCall ==
    /\ turn = "tools" /\ calls > 0
    /\ Emit("tool_call")
    /\ turn' = "result"
    /\ UNCHANGED <<round, chunks, calls, regVars, connVars>>

(* The tool has run, well or not, and the next one is due.                  *)
ToolResult ==
    /\ turn = "result"
    /\ Emit("tool_result")
    /\ calls' = calls - 1
    /\ turn' = "tools"
    /\ UNCHANGED <<round, chunks, regVars, connVars>>

NextRound ==
    /\ turn = "tools" /\ calls = 0 /\ round <= MaxRounds
    /\ turn' = "ask"
    /\ UNCHANGED <<round, chunks, calls, sessVars, regVars, connVars>>

(* No tool call, or no round left.                                          *)
TurnEnds ==
    /\ turn = "tools" /\ calls = 0 /\ round > MaxRounds
    /\ Emit("done")
    /\ turn' = "over"
    /\ UNCHANGED <<round, chunks, calls, regVars, connVars>>

(* Mutant: Finish wakes nobody.                                             *)
FinishQuietly ==
    /\ turn = "over"
    /\ done' = TRUE
    /\ turn' = "finished"
    /\ UNCHANGED <<round, chunks, calls, events, subs, notify, regVars, connVars>>

(* defer sess.Finish()                                                      *)
Finish ==
    /\ turn = "over"
    /\ done' = TRUE
    /\ notify' = NotifyAll
    /\ turn' = "finished"
    /\ UNCHANGED <<round, chunks, calls, events, subs, regVars, connVars>>

-------------------------------------------------------------------------------
(* streamRegistry *)

TimePasses ==
    /\ done /\ ~expired
    /\ expired' = TRUE
    /\ UNCHANGED <<turnVars, sessVars, known, connVars>>

Cleanup ==
    /\ known /\ done /\ expired
    /\ known' = FALSE
    /\ UNCHANGED <<turnVars, sessVars, expired, connVars>>

-------------------------------------------------------------------------------
(* HandleChatStream *)

Attach(c) ==
    /\ conn[c] = "away"
    /\ conn' = [conn EXCEPT ![c] = IF known THEN "found" ELSE "notFound"]
    /\ UNCHANGED <<turnVars, sessVars, regVars, after, batch, finished, got>>

Subscribe(c) ==
    /\ conn[c] = "found"
    /\ Subscription(c)
    /\ conn' = [conn EXCEPT ![c] = "snapshot"]
    /\ UNCHANGED <<turnVars, events, done, regVars, after, batch, finished, got>>

(* Mutant: after is not advanced.                                           *)
SnapshotAgain(c) ==
    /\ conn[c] = "snapshot"
    /\ batch' = [batch EXCEPT ![c] = EventsFrom(after[c])]
    /\ finished' = [finished EXCEPT ![c] = done]
    /\ conn' = [conn EXCEPT ![c] = "write"]
    /\ UNCHANGED <<turnVars, sessVars, regVars, after, got>>

Snapshot(c) ==
    /\ conn[c] = "snapshot"
    /\ batch' = [batch EXCEPT ![c] = EventsFrom(after[c])]
    /\ finished' = [finished EXCEPT ![c] = done]
    /\ after' = [after EXCEPT ![c] = @ + Len(batch'[c])]
    /\ conn' = [conn EXCEPT ![c] = "write"]
    /\ UNCHANGED <<turnVars, sessVars, regVars, got>>

WriteEvent(c) ==
    /\ conn[c] = "write" /\ batch[c] # <<>>
    /\ got' = [got EXCEPT ![c] = Append(@, Head(batch[c]))]
    /\ batch' = [batch EXCEPT ![c] = Tail(@)]
    /\ UNCHANGED <<turnVars, sessVars, regVars, conn, after, finished>>

Unsubscribed(c) == subs' = subs \ {c}

(* Mutant: the handler returns before it has written the batch.             *)
ServedEarly(c) ==
    /\ conn[c] = "write" /\ finished[c]
    /\ conn' = [conn EXCEPT ![c] = "served"]
    /\ Unsubscribed(c)
    /\ UNCHANGED <<turnVars, events, done, notify, regVars, after, batch, finished, got>>

Served(c) ==
    /\ conn[c] = "write" /\ batch[c] = <<>> /\ finished[c]
    /\ conn' = [conn EXCEPT ![c] = "served"]
    /\ Unsubscribed(c)
    /\ UNCHANGED <<turnVars, events, done, notify, regVars, after, batch, finished, got>>

Wait(c) ==
    /\ conn[c] = "write" /\ batch[c] = <<>> /\ ~finished[c]
    /\ conn' = [conn EXCEPT ![c] = "wait"]
    /\ UNCHANGED <<turnVars, sessVars, regVars, after, batch, finished, got>>

Wake(c) ==
    /\ conn[c] = "wait" /\ c \in notify
    /\ notify' = notify \ {c}
    /\ conn' = [conn EXCEPT ![c] = "snapshot"]
    /\ UNCHANGED <<turnVars, events, done, subs, regVars, after, batch, finished, got>>

(* The client has gone: ctx.Done() ends the wait.                           *)
Leave(c) ==
    /\ conn[c] = "wait"
    /\ conn' = [conn EXCEPT ![c] = "left"]
    /\ Unsubscribed(c)
    /\ UNCHANGED <<turnVars, events, done, notify, regVars, after, batch, finished, got>>

-------------------------------------------------------------------------------
Turn ==
    \/ AskFails \/ AnswerStarts \/ Chunk \/ AnswerBreaks \/ AnswerEnds
    \/ ToolCall \/ ToolResult \/ NextRound \/ TurnEnds \/ Finish

Serve(c) ==
    Subscribe(c) \/ Snapshot(c) \/ WriteEvent(c) \/ Served(c) \/ Wait(c) \/ Wake(c)

Registry == TimePasses \/ Cleanup

Next == Turn \/ Registry \/ \E c \in Conns : Attach(c) \/ Serve(c) \/ Leave(c)

Spec == Init /\ [][Next]_vars

(* The handlers run.  The turn goes on as long as the model answers: the    *)
(* request has no timeout, so this part is an assumption on the model.      *)
Fairness == (\A c \in Conns : WF_vars(Serve(c))) /\ WF_vars(Turn)

FairSpec == Spec /\ Fairness

-------------------------------------------------------------------------------
(* Properties *)

Prefix(s, t) == Len(s) <= Len(t) /\ \A n \in 1..Len(s) : s[n] = t[n]

(* Whenever a connection is opened, its client receives the turn's events   *)
(* from the first one, in order, each once (chat.go:130-131, 165-184).      *)
ReplaysInOrder == \A c \in Conns : Prefix(got[c], events)

(* No lost wakeup: a connection that waits with no token in its channel has *)
(* sent everything there is, and the turn is not over (streams.go:60, 71).  *)
NoLostWakeup == \A c \in Conns :
    conn[c] = "wait" /\ c \notin notify => got[c] = events /\ ~done

(* A connection that the server ends has had every event of the turn.       *)
ServedInFull == \A c \in Conns : conn[c] = "served" => got[c] = events /\ done

(* The stream has one terminal event, the last one, and it has it when the  *)
(* turn is over, however it ended: the client finalizes on it and only on   *)
(* it (chat.go:188-272).                                                    *)
OneTerminalEvent ==
    /\ \A n \in 1..Len(events) : events[n] \in Terminal => n = Len(events)
    /\ turn \in {"over", "finished"} <=> events # <<>> /\ events[Len(events)] \in Terminal

(* Every connection whose client stays is served to the end.                *)
EveryoneIsServed == \A c \in Conns :
    conn[c] = "found" ~> conn[c] \in {"served", "left"}
===============================================================================
