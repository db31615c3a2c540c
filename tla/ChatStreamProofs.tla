--------------------------- MODULE ChatStreamProofs ---------------------------
(***************************************************************************)
(* What ChatStream promises its clients, for every number of connections,   *)
(* rounds, chunks and tool calls: a connection hands out the turn's events  *)
(* from the first one, in order; it never sleeps on an event; it is served  *)
(* to the end; and there is one terminal event.                             *)
(***************************************************************************)
EXTENDS ChatStream, TurnScript, TLAPS

-------------------------------------------------------------------------------
(* The inductive invariant *)

(* g and then b are the first a elements of e.                              *)
Follows(a, g, b, e) ==
    /\ a = Len(g) + Len(b)
    /\ a <= Len(e)
    /\ \A n \in 1..Len(g) : g[n] = e[n]
    /\ \A n \in 1..Len(b) : b[n] = e[Len(g) + n]

(* What the client has and the batch being written are, one after the       *)
(* other, the first after[c] events of the session.                         *)
Replayed(c) == Follows(after[c], got[c], batch[c], events)

(* A connection that is past its snapshot and holds no token is up to date. *)
Attached(c) ==
    /\ conn[c] # "write" => batch[c] = <<>>
    /\ conn[c] \in {"snapshot", "write", "wait"} => c \in subs
    /\ conn[c] \in {"write", "wait"} /\ c \notin notify =>
           after[c] = Len(events) /\ (done => finished[c])
    /\ finished[c] => done /\ after[c] = Len(events)
    /\ conn[c] = "wait" => ~finished[c]
    /\ conn[c] = "served" => finished[c]

(* The session is finished by the turn, after its terminal event.           *)
Sealed ==
    /\ done <=> turn = "finished"
    /\ OneTerminalEvent

(* A round is asked for only while one is left, a result only for a call.   *)
Counted ==
    /\ turn \in {"ask", "answer"} => round <= MaxRounds
    /\ turn = "result" => calls > 0

Inv ==
    /\ TypeOK /\ Counted
    /\ \A c \in Conns : Replayed(c) /\ Attached(c)
    /\ Sealed

-------------------------------------------------------------------------------
(* Facts about sequences *)

(* An event that is appended changes none of the first a.                   *)
LEMMA FollowsAppend ==
  ASSUME NEW a, NEW g \in Seq(Kinds), NEW b \in Seq(Kinds), NEW e \in Seq(Kinds),
         NEW kind \in Kinds, Follows(a, g, b, e)
  PROVE  Follows(a, g, b, Append(e, kind))
  BY DEF Follows

(* A snapshot takes all that is left.                                       *)
LEMMA FollowsSnapshot ==
  ASSUME NEW a, NEW g \in Seq(Kinds), NEW e \in Seq(Kinds), Follows(a, g, <<>>, e),
         NEW b, b = SubSeq(e, a + 1, Len(e))
  PROVE  /\ b \in Seq(Kinds) /\ a + Len(b) = Len(e)
         /\ Follows(Len(e), g, b, e)
<1>1. a = Len(g) /\ a \in Nat /\ a <= Len(e) /\ Len(e) \in Nat /\ \A n \in 1..Len(g) : g[n] = e[n]
  BY DEF Follows
<1>2. /\ b \in Seq(Kinds) /\ Len(b) = Len(e) - a
      /\ \A n \in 1..Len(b) : b[n] = e[a + n]
  BY <1>1
<1> QED BY <1>1, <1>2 DEF Follows

(* Writing one event moves it from the batch to the client.                 *)
LEMMA FollowsWrite ==
  ASSUME NEW a, NEW g \in Seq(Kinds), NEW b \in Seq(Kinds), NEW e \in Seq(Kinds),
         b # <<>>, Follows(a, g, b, e)
  PROVE  /\ Append(g, Head(b)) \in Seq(Kinds) /\ Tail(b) \in Seq(Kinds)
         /\ Follows(a, Append(g, Head(b)), Tail(b), e)
  BY SMTT(30) DEF Follows

(* A client that has as many events as there are has the events.            *)
LEMMA FollowsAll ==
  ASSUME NEW g \in Seq(Kinds), NEW e \in Seq(Kinds), Follows(Len(e), g, <<>>, e)
  PROVE  g = e
  BY DEF Follows

(* What the client has is a prefix of the session's events.                 *)
LEMMA FollowsPrefix ==
  ASSUME NEW a, NEW g \in Seq(Kinds), NEW b \in Seq(Kinds), NEW e \in Seq(Kinds), Follows(a, g, b, e)
  PROVE  Prefix(g, e)
  BY DEF Follows, Prefix

-------------------------------------------------------------------------------
(* The invariant holds initially and every step keeps it *)

(* The session starts empty and every connection with nothing.              *)
LEMMA InitInvariant == Init => Inv
<1> SUFFICES ASSUME Init PROVE Inv
  OBVIOUS
<1>1. TypeOK /\ Counted
  <2>1. <<>> \in Seq(Kinds)
    OBVIOUS
  <2>2. /\ batch \in [Conns -> Seq(Kinds)] /\ got \in [Conns -> Seq(Kinds)]
        /\ after \in [Conns -> Nat] /\ finished \in [Conns -> BOOLEAN]
        /\ conn \in [Conns -> ConnStates]
    BY <2>1 DEF Init, ConnStates
  <2>3. /\ turn \in Turns /\ round \in 1..MaxRounds + 1 /\ round <= MaxRounds
        /\ chunks \in 0..MaxChunks /\ calls \in 0..MaxCalls
    BY ChatAssumption DEF Init, Turns
  <2>4. /\ events \in Seq(Kinds) /\ done \in BOOLEAN /\ subs \subseteq Conns /\ notify \subseteq Conns
        /\ expired \in BOOLEAN /\ known \in BOOLEAN
    BY <2>1 DEF Init
  <2> QED BY <2>2, <2>3, <2>4 DEF Init, TypeOK, Counted
<1>2. \A c \in Conns : Replayed(c) /\ Attached(c)
  <2> TAKE c \in Conns
  <2>1. Replayed(c)
    BY DEF Init, Replayed, Follows
  <2>2. Attached(c)
    BY DEF Init, Attached
  <2> QED BY <2>1, <2>2
<1>3. Sealed
  BY DEF Init, Sealed, OneTerminalEvent
<1> QED BY <1>1, <1>2, <1>3 DEF Inv

(* An event appended by the turn leaves the others where they are, and      *)
(* leaves a token with every connection that is attached.                   *)
LEMMA AppendStep ==
  ASSUME Inv, NEW kind \in Kinds, Emit(kind), UNCHANGED connVars, turn # "finished"
  PROVE  \A c \in Conns : Replayed(c)' /\ Attached(c)'
<1>1. /\ events \in Seq(Kinds) /\ events' = Append(events, kind)
      /\ notify' = notify \cup subs /\ UNCHANGED <<done, subs>> /\ ~done
  BY DEF Inv, TypeOK, Emit, NotifyAll, Sealed
<1>2. /\ Len(events') = Len(events) + 1
      /\ \A n \in 1..Len(events) : events'[n] = events[n]
  BY <1>1
<1> TAKE c \in Conns
<1>3. Replayed(c) /\ Attached(c)
  BY DEF Inv
<1>4. /\ got[c] \in Seq(Kinds) /\ batch[c] \in Seq(Kinds) /\ after[c] \in Nat
  BY DEF Inv, TypeOK
<1>5. UNCHANGED <<conn, after, batch, finished, got>>
  BY DEF connVars
<1>6. Replayed(c)'
  BY <1>1, <1>3, <1>4, <1>5, FollowsAppend DEF Replayed
<1>7. Attached(c)'
  BY <1>1, <1>3, <1>5 DEF Attached
<1> QED BY <1>6, <1>7

(* The turn's own steps that touch neither the session nor a connection,    *)
(* and those of the registry.                                               *)
LEMMA FrameStep ==
  ASSUME Inv, UNCHANGED <<sessVars, connVars>>
  PROVE  \A c \in Conns : Replayed(c)' /\ Attached(c)'
  BY DEF Inv, Replayed, Attached, sessVars, connVars

(* The type invariant holds after a step of the turn.                       *)
LEMMA TurnTypes ==
  ASSUME Inv, Turn
  PROVE  TypeOK' /\ Counted'
<1> USE ChatAssumption DEF TypeOK, Inv, Counted, Turns, Emit, NotifyAll, regVars, connVars, sessVars, Kinds, Terminal
<1>1. CASE AskFails BY <1>1 DEF AskFails
<1>2. CASE AnswerStarts BY <1>2 DEF AnswerStarts
<1>3. CASE Chunk BY <1>3 DEF Chunk
<1>4. CASE AnswerBreaks BY <1>4 DEF AnswerBreaks
<1>5. CASE AnswerEnds BY <1>5 DEF AnswerEnds
<1>6. CASE ToolCall BY <1>6 DEF ToolCall
<1>7. CASE ToolResult BY <1>7 DEF ToolResult
<1>8. CASE NextRound BY <1>8 DEF NextRound
<1>9. CASE TurnEnds BY <1>9 DEF TurnEnds
<1>10. CASE Finish BY <1>10 DEF Finish
<1> QED BY <1>1, <1>2, <1>3, <1>4, <1>5, <1>6, <1>7, <1>8, <1>9, <1>10, Turn DEF Turn

(* A terminal event is the last thing the turn emits, and it always emits   *)
(* one before it is over.                                                   *)
LEMMA TurnSeals ==
  ASSUME Inv, Turn
  PROVE  Sealed'
<1> USE DEF Sealed, OneTerminalEvent
<1>1. events \in Seq(Kinds) /\ Sealed
  BY DEF Inv, TypeOK
<1>2. ASSUME NEW kind \in Kinds, Emit(kind), turn \notin {"over", "finished"},
             turn' = "over" <=> kind \in Terminal, turn' # "finished"
      PROVE  Sealed'
  <2>1. events' = Append(events, kind) /\ Len(events') = Len(events) + 1
    BY <1>1, <1>2 DEF Emit
  <2>2. \A n \in 1..Len(events) : events'[n] = events[n] /\ events[n] \notin Terminal
    BY <1>1, <1>2, <2>1
  <2>3. events'[Len(events')] = kind /\ events' # <<>>
    BY <1>1, <2>1
  <2>4. done' = done
    BY <1>2 DEF Emit
  <2> QED BY <1>1, <1>2, <2>1, <2>2, <2>3, <2>4
<1> USE DEF Kinds, Terminal
<1>3. CASE AskFails BY <1>2, <1>3 DEF AskFails
<1>4. CASE AnswerStarts BY <1>2, <1>4 DEF AnswerStarts
<1>5. CASE Chunk BY <1>2, <1>5 DEF Chunk
<1>6. CASE AnswerBreaks BY <1>2, <1>6 DEF AnswerBreaks
<1>7. CASE AnswerEnds BY <1>2, <1>7 DEF AnswerEnds
<1>8. CASE ToolCall BY <1>2, <1>8 DEF ToolCall
<1>9. CASE ToolResult BY <1>2, <1>9 DEF ToolResult
<1>10. CASE NextRound BY <1>1, <1>10 DEF NextRound, sessVars
<1>11. CASE TurnEnds BY <1>2, <1>11 DEF TurnEnds
<1>12. CASE Finish BY <1>1, <1>12 DEF Finish
<1> QED BY <1>3, <1>4, <1>5, <1>6, <1>7, <1>8, <1>9, <1>10, <1>11, <1>12, Turn DEF Turn

(* A step of the turn leaves every connection in order.                     *)
LEMMA TurnStep ==
  ASSUME Inv, Turn
  PROVE  \A c \in Conns : Replayed(c)' /\ Attached(c)'
<1> USE DEF Kinds, Terminal
<1>1. CASE AskFails BY <1>1, AppendStep DEF AskFails
<1>2. CASE AnswerStarts BY <1>2, AppendStep DEF AnswerStarts
<1>3. CASE Chunk BY <1>3, AppendStep DEF Chunk
<1>4. CASE AnswerBreaks BY <1>4, AppendStep DEF AnswerBreaks
<1>5. CASE AnswerEnds BY <1>5, AppendStep DEF AnswerEnds
<1>6. CASE ToolCall BY <1>6, AppendStep DEF ToolCall
<1>7. CASE ToolResult BY <1>7, AppendStep DEF ToolResult
<1>8. CASE NextRound BY <1>8, FrameStep DEF NextRound
<1>9. CASE TurnEnds BY <1>9, AppendStep DEF TurnEnds
<1>10. CASE Finish
  <2> TAKE c \in Conns
  <2>1. Replayed(c) /\ Attached(c) /\ ~done
    BY <1>10 DEF Inv, Finish, Sealed
  <2>2. UNCHANGED <<events, subs, conn, after, batch, finished, got>> /\ notify' = notify \cup subs
    BY <1>10 DEF Finish, connVars, NotifyAll
  <2>3. Replayed(c)'
    BY <2>1, <2>2 DEF Replayed
  <2>4. Attached(c)'
    BY <2>1, <2>2 DEF Attached
  <2> QED BY <2>3, <2>4
<1> QED BY <1>1, <1>2, <1>3, <1>4, <1>5, <1>6, <1>7, <1>8, <1>9, <1>10, Turn DEF Turn

(* What one connection does is nobody else's business.                      *)
Elsewhere(c) == \A d \in Conns \ {c} :
    /\ conn'[d] = conn[d] /\ after'[d] = after[d] /\ batch'[d] = batch[d]
    /\ finished'[d] = finished[d] /\ got'[d] = got[d]
    /\ d \in subs <=> d \in subs'
    /\ d \in notify <=> d \in notify'

(* A step of connection c keeps c in order, and the others as they were.    *)
LEMMA ConnectionStep ==
  ASSUME Inv, NEW c \in Conns, Attach(c) \/ Serve(c) \/ Leave(c)
  PROVE  /\ TypeOK' /\ Replayed(c)' /\ Attached(c)' /\ Elsewhere(c)
         /\ UNCHANGED <<turnVars, events, done>>
<1>1. Replayed(c) /\ Attached(c) /\ TypeOK
  BY DEF Inv
<1> USE <1>1 DEF turnVars, regVars, sessVars, Elsewhere
<1>2. CASE Attach(c)
  BY <1>2 DEF Attach, TypeOK, Replayed, Attached, ConnStates
<1>3. CASE Subscribe(c)
  BY <1>3 DEF Subscribe, Subscription, TypeOK, Replayed, Attached, ConnStates
<1>4. CASE Snapshot(c)
  <2> DEFINE b == EventsFrom(after[c])
  <2>1. /\ batch[c] = <<>> /\ after[c] \in Nat
        /\ events \in Seq(Kinds) /\ got[c] \in Seq(Kinds)
    BY <1>4 DEF Snapshot, Attached, TypeOK
  <2>2. b \in Seq(Kinds) /\ after[c] + Len(b) = Len(events) /\ Follows(Len(events), got[c], b, events)
    BY ZenonT(30), <2>1, FollowsSnapshot DEF EventsFrom, Replayed
  <2> HIDE DEF b
  <2>3. /\ batch' = [batch EXCEPT ![c] = b]
        /\ after' = [after EXCEPT ![c] = @ + Len(b)]
        /\ finished' = [finished EXCEPT ![c] = done]
        /\ conn' = [conn EXCEPT ![c] = "write"]
        /\ UNCHANGED <<turn, round, chunks, calls, events, done, subs, notify, expired, known, got>>
    BY <1>4 DEF Snapshot, TypeOK, b
  <2>4. /\ conn'[c] = "write" /\ after'[c] = Len(events) /\ batch'[c] = b /\ got'[c] = got[c]
        /\ c \in subs' /\ finished'[c] = done
    BY <1>4, <2>2, <2>3 DEF TypeOK, Attached, Snapshot
  <2>5. TypeOK'
    BY <2>1, <2>2, <2>3 DEF TypeOK, ConnStates
  <2>6. Replayed(c)'
    BY <2>2, <2>3, <2>4 DEF Replayed
  <2>7. Attached(c)'
    BY <2>3, <2>4 DEF Attached
  <2> QED BY <2>3, <2>5, <2>6, <2>7 DEF TypeOK
<1>5. CASE WriteEvent(c)
  <2> DEFINE g == Append(got[c], Head(batch[c]))
             b == Tail(batch[c])
  <2>1. /\ batch[c] \in Seq(Kinds) /\ got[c] \in Seq(Kinds) /\ events \in Seq(Kinds)
        /\ batch[c] # <<>> /\ conn[c] = "write"
    BY <1>5 DEF WriteEvent, TypeOK
  <2>2. g \in Seq(Kinds) /\ b \in Seq(Kinds) /\ Follows(after[c], g, b, events)
    BY <2>1, FollowsWrite DEF Replayed
  <2> HIDE DEF g, b
  <2>3. /\ got' = [got EXCEPT ![c] = g] /\ batch' = [batch EXCEPT ![c] = b]
        /\ UNCHANGED <<turn, round, chunks, calls, events, done, subs, notify, expired, known>>
        /\ UNCHANGED <<conn, after, finished>>
    BY <1>5 DEF WriteEvent, TypeOK, g, b
  <2>4. TypeOK'
    BY <2>2, <2>3 DEF TypeOK
  <2>5. Replayed(c)'
    BY <2>2, <2>3 DEF Replayed, TypeOK
  <2>6. Attached(c)'
    BY <2>1, <2>3 DEF Attached
  <2> QED BY <2>3, <2>4, <2>5, <2>6 DEF TypeOK
<1>6. CASE Served(c)
  BY <1>6 DEF Served, Unsubscribed, TypeOK, Replayed, Attached, ConnStates
<1>7. CASE Wait(c)
  BY <1>7 DEF Wait, TypeOK, Replayed, Attached, ConnStates
<1>8. CASE Wake(c)
  BY <1>8 DEF Wake, TypeOK, Replayed, Attached, ConnStates
<1>9. CASE Leave(c)
  BY <1>9 DEF Leave, Unsubscribed, TypeOK, Replayed, Attached, ConnStates
<1> QED BY <1>2, <1>3, <1>4, <1>5, <1>6, <1>7, <1>8, <1>9, Attach(c) \/ Serve(c) \/ Leave(c) DEF Serve

(* Every step keeps the invariant: the turn's, the registry's, and those of *)
(* the connections.                                                         *)
LEMMA InvariantStep == Inv /\ [Next]_vars => Inv'
<1> SUFFICES ASSUME Inv, [Next]_vars PROVE Inv'
  OBVIOUS
<1>1. CASE Turn
  BY <1>1, TurnTypes, TurnStep, TurnSeals DEF Inv
<1>2. CASE Registry
  <2>1. UNCHANGED <<turnVars, sessVars, connVars>> /\ expired' \in BOOLEAN /\ known' \in BOOLEAN
    BY <1>2 DEF Registry, TimePasses, Cleanup, Inv, TypeOK
  <2>2. \A c \in Conns : Replayed(c)' /\ Attached(c)'
    BY <2>1, FrameStep
  <2>3. TypeOK' /\ Counted' /\ Sealed'
    BY <2>1 DEF Inv, Counted, TypeOK, Sealed, OneTerminalEvent, turnVars, sessVars, connVars
  <2> QED BY <2>2, <2>3 DEF Inv
<1>3. CASE \E c \in Conns : Attach(c) \/ Serve(c) \/ Leave(c)
  <2>1. PICK c \in Conns : Attach(c) \/ Serve(c) \/ Leave(c)
    BY <1>3
  <2>2. /\ TypeOK' /\ Replayed(c)' /\ Attached(c)' /\ Elsewhere(c)
        /\ UNCHANGED <<turnVars, events, done>>
    BY <2>1, ConnectionStep
  <2>3. \A d \in Conns : Replayed(d)' /\ Attached(d)'
    <3> TAKE d \in Conns
    <3>1. CASE d = c BY <3>1, <2>2
    <3>2. CASE d # c
      <4>1. Replayed(d) /\ Attached(d)
        BY DEF Inv
      <4>2. /\ conn'[d] = conn[d] /\ after'[d] = after[d] /\ batch'[d] = batch[d]
            /\ finished'[d] = finished[d] /\ got'[d] = got[d]
            /\ d \in subs <=> d \in subs'
            /\ d \in notify <=> d \in notify'
            /\ UNCHANGED <<events, done>>
        BY <2>2, <3>2 DEF Elsewhere
      <4> QED BY <4>1, <4>2 DEF Replayed, Attached
    <3> QED BY <3>1, <3>2
  <2>4. Sealed' /\ Counted'
    BY <2>2 DEF Inv, Sealed, OneTerminalEvent, Counted, turnVars
  <2> QED BY <2>2, <2>3, <2>4 DEF Inv
<1>4. CASE UNCHANGED vars
  <2>1. \A c \in Conns : Replayed(c)' /\ Attached(c)'
    BY <1>4, FrameStep DEF vars
  <2> QED BY <1>4, <2>1 DEF vars, Inv, TypeOK, Counted, Sealed, OneTerminalEvent, turnVars, sessVars, regVars, connVars
<1> QED BY <1>1, <1>2, <1>3, <1>4 DEF Next

(* The inductive invariant is one.                                          *)
THEOREM Invariance == Spec => []Inv
  BY InitInvariant, InvariantStep, PTL DEF Spec

-------------------------------------------------------------------------------
(* The theorems *)

(* Every variable has its type.                                             *)
THEOREM TypeCorrect == Spec => []TypeOK
<1>1. Inv => TypeOK
  BY DEF Inv
<1> QED BY <1>1, Invariance, PTL

(* Whenever a connection is opened, its client receives the events of the   *)
(* turn from the first one, in order, each once.                            *)
THEOREM Replay == Spec => []ReplaysInOrder
<1>1. Inv => ReplaysInOrder
  <2> SUFFICES ASSUME Inv, NEW c \in Conns PROVE Prefix(got[c], events)
    BY DEF ReplaysInOrder
  <2>1. Replayed(c) /\ got[c] \in Seq(Kinds) /\ batch[c] \in Seq(Kinds) /\ events \in Seq(Kinds)
    BY DEF Inv, TypeOK
  <2> QED BY <2>1, FollowsPrefix DEF Replayed
<1> QED BY <1>1, Invariance, PTL

(* What a connection that has nothing left to write has handed out is all   *)
(* there is, when it is up to date.                                         *)
LEMMA Complete ==
  ASSUME Inv, NEW c \in Conns, batch[c] = <<>>, after[c] = Len(events)
  PROVE  got[c] = events
<1>1. Replayed(c) /\ got[c] \in Seq(Kinds) /\ events \in Seq(Kinds)
  BY DEF Inv, TypeOK
<1> QED BY <1>1, FollowsAll DEF Replayed

(* No wakeup is lost: a connection waits without a token only when it has   *)
(* handed out everything and the turn is not over.                          *)
THEOREM NoWakeupIsLost == Spec => []NoLostWakeup
<1>1. Inv => NoLostWakeup
  <2> SUFFICES ASSUME Inv, NEW c \in Conns, conn[c] = "wait", c \notin notify
               PROVE  got[c] = events /\ ~done
    BY DEF NoLostWakeup
  <2>1. batch[c] = <<>> /\ after[c] = Len(events) /\ ~done
    BY DEF Inv, Attached
  <2> QED BY <2>1, Complete
<1> QED BY <1>1, Invariance, PTL

(* A connection the server ends has handed out every event of the turn.     *)
THEOREM EveryEventServed == Spec => []ServedInFull
<1>1. Inv => ServedInFull
  <2> SUFFICES ASSUME Inv, NEW c \in Conns, conn[c] = "served"
               PROVE  got[c] = events /\ done
    BY DEF ServedInFull
  <2>1. batch[c] = <<>> /\ after[c] = Len(events) /\ done
    BY DEF Inv, Attached
  <2> QED BY <2>1, Complete
<1> QED BY <1>1, Invariance, PTL

(* The turn emits one terminal event, its last, however it ends.            *)
THEOREM OneEnd == Spec => []OneTerminalEvent
<1>1. Inv => OneTerminalEvent
  BY DEF Inv, Sealed
<1> QED BY <1>1, Invariance, PTL

-------------------------------------------------------------------------------
(* What the page relies on *)

(* A result comes after a call, and only there; a call is due a result.      *)
CallsAlternate ==
    /\ \A k \in 1..Len(events) - 1 : events[k] = "tool_call" <=> events[k + 1] = "tool_result"
    /\ events # <<>> => events[1] # "tool_result"
    /\ turn = "result" <=> events # <<>> /\ events[Len(events)] = "tool_call"

LEMMA CallsGoOn ==
  ASSUME events \in Seq(Kinds), CallsAlternate, NEW kind \in Kinds, events' = Append(events, kind),
         kind = "tool_result" <=> turn = "result", kind = "tool_call" <=> turn' = "result"
  PROVE  CallsAlternate'
<1>1. /\ Len(events) \in Nat /\ Len(events') = Len(events) + 1 /\ events'[Len(events) + 1] = kind
      /\ \A k \in 1..Len(events) : events'[k] = events[k]
      /\ events' # <<>> /\ (events = <<>> <=> Len(events) = 0)
  OBVIOUS
<1>2. turn = "result" <=> events # <<>> /\ events[Len(events)] = "tool_call"
  BY DEF CallsAlternate
<1>3. ASSUME NEW k \in 1..Len(events)
      PROVE  events'[k] = "tool_call" <=> events'[k + 1] = "tool_result"
  <2>1. CASE k = Len(events)
    <3>1. events'[k] = events[Len(events)] /\ events'[k + 1] = kind /\ events # <<>>
      BY <1>1, <2>1
    <3> QED
      BY <1>2, <3>1
  <2>2. CASE k # Len(events)
    <3>1. k \in 1..Len(events) - 1 /\ k + 1 \in 1..Len(events)
      BY <1>1, <2>2
    <3> QED
      BY <1>1, <3>1 DEF CallsAlternate
  <2> QED
    BY <2>1, <2>2
<1>4. events'[1] # "tool_result"
  <2>1. CASE events = <<>>
    BY <1>1, <1>2, <2>1
  <2>2. CASE events # <<>>
    <3>1. 1 \in 1..Len(events)
      BY <1>1, <2>2
    <3> QED
      BY <1>1, <2>2, <3>1 DEF CallsAlternate
  <2> QED
    BY <2>1, <2>2
<1> QED
  BY <1>1, <1>3, <1>4 DEF CallsAlternate

LEMMA CallsStep == TypeOK /\ CallsAlternate /\ [Next]_vars => CallsAlternate'
<1> SUFFICES ASSUME TypeOK, CallsAlternate, [Next]_vars PROVE CallsAlternate'
  OBVIOUS
<1>1. ASSUME UNCHANGED events, turn' = "result" <=> turn = "result" PROVE CallsAlternate'
  BY <1>1 DEF CallsAlternate
<1>2. events \in Seq(Kinds) /\ {"message_start", "delta", "usage", "message_end",
                                "tool_call", "tool_result", "done", "error"} \subseteq Kinds
  BY DEF TypeOK, Kinds, Terminal
<1>3. CASE AskFails \/ AnswerStarts \/ AnswerBreaks \/ AnswerEnds \/ TurnEnds
  <2>1. /\ turn # "result" /\ turn' # "result"
        /\ \E kind \in {"message_start", "message_end", "done", "error"} : events' = Append(events, kind)
    BY <1>3 DEF AskFails, AnswerStarts, AnswerBreaks, AnswerEnds, TurnEnds, Emit
  <2> QED
    BY <1>2, <2>1, CallsGoOn
<1>4. CASE Chunk
  <2>1. /\ turn # "result" /\ turn' # "result"
        /\ \E kind \in {"delta", "usage"} : events' = Append(events, kind)
    BY <1>4 DEF Chunk, Emit
  <2> QED
    BY <1>2, <2>1, CallsGoOn
<1>5. CASE ToolCall
  <2>1. turn # "result" /\ turn' = "result" /\ events' = Append(events, "tool_call")
    BY <1>5 DEF ToolCall, Emit
  <2> QED
    BY <1>2, <2>1, CallsGoOn
<1>6. CASE ToolResult
  <2>1. turn = "result" /\ turn' # "result" /\ events' = Append(events, "tool_result")
    BY <1>6 DEF ToolResult, Emit
  <2> QED
    BY <1>2, <2>1, CallsGoOn
<1>7. CASE NextRound \/ Finish
  <2>1. UNCHANGED events /\ turn # "result" /\ turn' # "result"
    BY <1>7 DEF NextRound, Finish, sessVars
  <2> QED
    BY <1>1, <2>1
<1>8. CASE Registry \/ (\E c \in Conns : Attach(c) \/ Serve(c) \/ Leave(c)) \/ UNCHANGED vars
  <2>1. UNCHANGED <<events, turn>>
    BY <1>8 DEF Registry, TimePasses, Cleanup, Attach, Serve, Leave, Subscribe, Subscription, Snapshot,
                WriteEvent, Served, Wait, Wake, vars, turnVars, sessVars
  <2> QED
    BY <1>1, <2>1
<1> QED
  BY <1>3, <1>4, <1>5, <1>6, <1>7, <1>8 DEF Next, Turn

TurnIsScript == turn \in {"over", "finished"} => IsScript(events)

(* When a turn is over its events are a script: one terminal event, the last *)
(* one, and a result right after every call and nowhere else.  It is what    *)
(* the page's side of the stream is proved from (chat.go:188-272).           *)
THEOREM TurnsAreScripts == Spec => []TurnIsScript
<1>1. Init => CallsAlternate
  <2>1. Init => events = <<>> /\ turn = "ask"
    BY DEF Init
  <2>2. Len(<<>>) = 0
    OBVIOUS
  <2> QED
    BY <2>1, <2>2 DEF CallsAlternate
<1>2. TypeOK /\ OneTerminalEvent /\ CallsAlternate => TurnIsScript
  <2> SUFFICES ASSUME TypeOK, OneTerminalEvent, CallsAlternate, turn \in {"over", "finished"}
               PROVE  IsScript(events)
    BY DEF TurnIsScript
  <2>1. events # <<>> /\ events[Len(events)] \in {"done", "error"}
        /\ \A n \in 1..Len(events) : events[n] \in {"done", "error"} => n = Len(events)
    BY DEF OneTerminalEvent, Terminal
  <2> QED
    BY <2>1 DEF IsScript, CallsAlternate
<1> QED
  BY <1>1, <1>2, CallsStep, TypeCorrect, OneEnd, PTL DEF Spec
===============================================================================
